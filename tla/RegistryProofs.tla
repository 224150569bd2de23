--------------------------- MODULE RegistryProofs ---------------------------
(***************************************************************************)
(* Theorems about Registry, for every set of goroutines and every number   *)
(* of calls and faults.                                                    *)
(***************************************************************************)
EXTENDS Registry, TLAPS

-----------------------------------------------------------------------------
(* The inductive invariants                                                *)

(* Deregister runs after Register and only with deRegistered set; consul   *)
(* has no lease and etcd no check; what hung on the lease went with it.    *)
DeregisterOK ==
    /\ deregister # "idle" => deRegistered
    /\ deRegistered => register = "ready"
    /\ register # "ready" => lease = "none"
    /\ register = "lease" => kind = "etcd"
    /\ kind = "consul" => lease = "none"
    /\ \A t \in Updater : update[t] = "uncheck" => kind = "consul"
    /\ kind = "etcd" /\ deregister = "ok" => lease = "gone"
    /\ lease = "gone" => entry = NoEntry \/ ~entry.tied

(* Nothing is updated before Register has returned.                        *)
RegisterFirst ==
    register # "ready" =>
        /\ updates = 0 /\ svc = 0 /\ opts = 0
        /\ \A t \in Updater : update[t] = "idle"

(* While calls of Update have followed each other, the one that is under   *)
(* way is the last: it has left its service, and from there on its         *)
(* options, and loads nothing else.                                        *)
LastCall(t) ==
    /\ \A u \in Updater : update[u] # "idle" => u = t
    /\ number[t] = updates
    /\ update[t] # "opts" => opts = updates
    /\ update[t] \in {"load svc", "uncheck", "register"} => got[t].opts = updates
    /\ update[t] \in {"uncheck", "register"} => got[t].svc = updates

InTurn ==
    ~overlapped =>
        /\ svc = updates
        /\ \A t \in Updater : update[t] # "idle" => LastCall(t)
        /\ (\A t \in Updater : update[t] = "idle") => opts = updates

(* Calls are numbered as they are made.                                    *)
AckedOK == acked <= updates /\ \A t \in Updater : number[t] <= updates

RInv ==
    /\ TypeOK /\ DeregisterOK /\ RegisterFirst /\ InTurn /\ AckedOK
    /\ OnlyLateEntries /\ EntryIsTied /\ OneCallIsRegistered

-----------------------------------------------------------------------------
(* Types                                                                   *)

Labels == {"idle", "opts", "load opts", "load svc", "uncheck", "register"}

(* An entry that is untied, or goes with its lease, stays an entry or none *)
LEMMA EntryKinds ==
    ASSUME TypeOK
    PROVE  /\ Untied \in Entry \cup {NoEntry}
           /\ WithoutLease \in Entry \cup {NoEntry}
           /\ Untied # NoEntry => /\ entry # NoEntry /\ Untied.tied = FALSE
                                 /\ Untied.svc = entry.svc /\ Untied.opts = entry.opts
           /\ WithoutLease # NoEntry => WithoutLease = entry /\ ~entry.tied
           /\ entry = NoEntry => Untied = NoEntry
BY RegistryAssumption DEF RegistryAssumption, TypeOK, Entry, Untied, WithoutLease

LEMMA InitType == Init => TypeOK
<1> SUFFICES ASSUME Init PROVE TypeOK
  OBVIOUS
<1>1. 0 \in 0..MaxUpdates /\ 0 \in 0..MaxFaults
  BY RegistryAssumption DEF RegistryAssumption
<1>2. got \in [Updater -> [svc : 0..MaxUpdates, opts : 0..MaxUpdates]]
  BY <1>1 DEF Init
<1> QED BY <1>1, <1>2 DEF Init, TypeOK

LEMMA CountersType ==
    ASSUME TypeOK
    PROVE  /\ faults \in Nat /\ MaxFaults \in Nat /\ faults <= MaxFaults
           /\ updates \in Nat /\ MaxUpdates \in Nat /\ updates <= MaxUpdates
<1>1. faults \in 0..MaxFaults /\ updates \in 0..MaxUpdates
  BY DEF TypeOK
<1>2. MaxFaults \in Nat /\ MaxUpdates \in Nat
  BY RegistryAssumption DEF RegistryAssumption
<1> QED BY <1>1, <1>2

(* A call that fails is counted, and only so many fail.                     *)
LEMMA CallingType ==
    ASSUME TypeOK, NEW outcome, Calling(outcome)
    PROVE  faults' \in 0..MaxFaults /\ faults' >= faults /\ (outcome # "ok" => faults' > 0)
BY CountersType DEF Calling

LEMMA UpdaterType ==
    ASSUME TypeOK, NEW t \in Updater, StoreService(t) \/ UpdateNext(t)
    PROVE  TypeOK'
<1> USE DEF TypeOK, vars, handle, registry, updating,
                               history, Step
<1>1. CASE StoreService(t)
  <2> HIDE DEF TypeOK
  <2>1. updates' \in 0..MaxUpdates
    BY <1>1, CountersType DEF StoreService
  <2> USE DEF TypeOK
  <2> QED BY <1>1, <2>1 DEF StoreService
<1>2. CASE StoreOptions(t)
  <2>1. opts' \in 0..MaxUpdates
    BY <1>2 DEF StoreOptions, NewOptions
  <2> QED BY <1>2, <2>1 DEF StoreOptions
<1>3. CASE LoadOptions(t)
  <2>1. got' \in [Updater -> [svc : 0..MaxUpdates, opts : 0..MaxUpdates]]
    BY <1>3 DEF LoadOptions
  <2> QED BY <1>3, <2>1 DEF LoadOptions
<1>4. CASE LoadService(t)
  <2>1. got' \in [Updater -> [svc : 0..MaxUpdates, opts : 0..MaxUpdates]]
    BY <1>4 DEF LoadService
  <2> QED BY <1>4, <2>1 DEF LoadService
<1>5. CASE CheckDeregister(t)
  <2>1. PICK outcome \in Outcome :
            /\ Calling(outcome)
            /\ entry' = IF outcome = "lost" THEN entry ELSE Untied
            /\ Step(t, "register") \/ Step(t, "idle")
    BY <1>5 DEF CheckDeregister
  <2>2. entry' \in Entry \cup {NoEntry} /\ faults' \in 0..MaxFaults
    BY <2>1, CallingType, EntryKinds
  <2> QED BY <1>5, <2>1, <2>2 DEF CheckDeregister
<1>6. ASSUME NEW outcome \in Outcome, NEW tied \in BOOLEAN, Written(t, outcome, tied)
      PROVE  /\ faults' \in 0..MaxFaults /\ entry' \in Entry \cup {NoEntry}
             /\ acked' \in 0..MaxUpdates /\ late' \in BOOLEAN
  <2>1. [svc |-> got[t].svc, opts |-> got[t].opts, tied |-> tied] \in Entry
    BY DEF Entry
  <2> QED BY <1>6, <2>1, CallingType DEF Written
<1>7. CASE ServiceRegister(t)
  BY <1>6, <1>7 DEF ServiceRegister
<1>8. CASE Put(t)
  BY <1>6, <1>8 DEF Put, HasLease
<1> QED BY <1>1, <1>2, <1>3, <1>4, <1>5, <1>7, <1>8 DEF UpdateNext

LEMMA NextType == TypeOK /\ [Next]_vars => TypeOK'
<1> SUFFICES ASSUME TypeOK, [Next]_vars PROVE TypeOK'
  OBVIOUS
<1> USE DEF TypeOK, vars, handle, registry, updating,
                               history
<1>1. CASE Attempt
  <2>1. PICK outcome \in Outcome :
            /\ Calling(outcome)
            /\ entry' = IF outcome = "lost" THEN entry
                        ELSE [svc |-> svc, opts |-> opts, tied |-> kind = "consul"]
            /\ register' \in {"first", "second", "lease", "ready", "failed"}
    BY <1>1 DEF Attempt
  <2>2. [svc |-> svc, opts |-> opts, tied |-> kind = "consul"] \in Entry
    BY DEF Entry
  <2> QED BY <1>1, <2>1, <2>2, CallingType DEF Attempt
<1>2. CASE SetLease
  BY <1>2, CallingType DEF SetLease
<1>3. ASSUME NEW t \in Updater, StoreService(t) \/ UpdateNext(t) PROVE TypeOK'
  BY <1>3, UpdaterType
<1>4. CASE Deregister
  BY <1>4 DEF Deregister
<1>5. CASE ServiceDeregister
  BY <1>5, CallingType DEF ServiceDeregister, Removed
<1>6. CASE CancelKeepAlive
  BY <1>6 DEF CancelKeepAlive, StopLease
<1>7. CASE Revoke
  <2>1. entry' \in Entry \cup {NoEntry} /\ faults' \in 0..MaxFaults
    BY <1>7, CallingType, EntryKinds DEF Revoke, RevokeLease
  <2>2. lease' = lease \/ lease' = "gone"
    BY <1>7 DEF Revoke, RevokeLease
  <2> QED BY <1>7, <2>1, <2>2 DEF Revoke, Removed
<1>8. CASE Expire
  <2>1. faults' = faults \/ (faults < MaxFaults /\ faults' = faults + 1)
    BY <1>8 DEF Expire
  <2> HIDE DEF TypeOK
  <2>2. faults' \in 0..MaxFaults
    BY <2>1, CountersType
  <2> USE DEF TypeOK
  <2> QED BY <1>8, <2>2, EntryKinds DEF Expire
<1>9. CASE UNCHANGED vars
  BY <1>9
<1> QED BY <1>1, <1>2, <1>3, <1>4, <1>5, <1>6, <1>7, <1>8, <1>9 DEF Next

(* Every variable holds what the Go variable it stands for can hold.       *)
THEOREM RegistryTypes == Spec => []TypeOK
BY InitType, NextType, PTL DEF Spec

-----------------------------------------------------------------------------
(* Deregistering                                                           *)

(* An Update stores what it has loaded, or what there was stays; so the    *)
(* entry it leaves is tied, and late if Deregister has begun.              *)
LEMMA WrittenEntry ==
    ASSUME TypeOK, NEW t \in Updater, NEW outcome, NEW tied, Written(t, outcome, tied)
    PROVE  \/ /\ entry' = entry /\ late' = late
              /\ acked' = acked /\ outcome = "lost" /\ faults' > 0
           \/ /\ entry' = [svc |-> got[t].svc, opts |-> got[t].opts, tied |-> tied]
              /\ deRegistered => late' = TRUE
              /\ acked' = acked \/ acked' = number[t]
<1>1. CASE outcome = "lost"
  BY <1>1, CallingType DEF Written
<1>2. CASE outcome # "lost"
  BY <1>2 DEF Written, TypeOK
<1> QED BY <1>1, <1>2

LEMMA DeregisterKeeps ==
    ASSUME TypeOK, DeregisterOK, RegisterFirst, [Next]_vars
    PROVE  DeregisterOK'
<1> USE DEF DeregisterOK, vars, handle, registry, updating, history
<1>1. CASE Attempt
  <2>1. PICK outcome \in Outcome :
            register' = IF outcome = "ok"
                        THEN IF kind = "consul" THEN "ready" ELSE "lease"
                        ELSE IF register = "first" THEN "second" ELSE "failed"
    BY <1>1 DEF Attempt
  <2>2. kind = "consul" \/ kind = "etcd"
    BY RegistryAssumption DEF RegistryAssumption, TypeOK
  <2> QED BY <1>1, <2>1, <2>2 DEF Attempt
<1>2. CASE SetLease
  BY <1>2 DEF SetLease
<1>3. ASSUME NEW t \in Updater, StoreService(t) \/ UpdateNext(t) PROVE DeregisterOK'
  <2> USE DEF Step
  <2>1. CASE StoreService(t)
    BY <2>1 DEF StoreService, TypeOK
  <2>2. CASE StoreOptions(t)
    BY <2>2 DEF StoreOptions, TypeOK
  <2>3. CASE LoadOptions(t)
    BY <2>3 DEF LoadOptions, TypeOK
  <2>4. CASE LoadService(t)
    BY <2>4 DEF LoadService, TypeOK
  <2>5. CASE CheckDeregister(t)
    BY <2>5 DEF CheckDeregister, TypeOK
  <2>6. CASE ServiceRegister(t)
    BY <2>6 DEF ServiceRegister, TypeOK
  <2>7. CASE Put(t)
    <3>1. CASE lease = "gone"
      BY <2>7, <3>1 DEF Put, HasLease, TypeOK
    <3>2. CASE lease # "gone"
      BY <2>7, <3>2 DEF Put, HasLease, TypeOK
    <3> QED BY <3>1, <3>2
  <2> QED BY <1>3, <2>1, <2>2, <2>3, <2>4, <2>5, <2>6, <2>7 DEF UpdateNext
<1>4. CASE Deregister
  BY <1>4 DEF Deregister
<1>5. CASE ServiceDeregister
  BY <1>5 DEF ServiceDeregister, Removed
<1>6. CASE CancelKeepAlive
  BY <1>6 DEF CancelKeepAlive, StopLease
<1>7. CASE Revoke
  BY <1>7, EntryKinds DEF Revoke, RevokeLease, Removed
<1>8. CASE Expire
  BY <1>8, EntryKinds DEF Expire
<1>9. CASE UNCHANGED vars
  BY <1>9
<1> QED BY <1>1, <1>2, <1>3, <1>4, <1>5, <1>6, <1>7, <1>8, <1>9 DEF Next

LEMMA RegisterKeeps ==
    ASSUME TypeOK, DeregisterOK, RegisterFirst, [Next]_vars
    PROVE  RegisterFirst'
<1> USE DEF RegisterFirst, vars, handle, registry, updating, history
<1>1. CASE Attempt
  BY <1>1 DEF Attempt
<1>2. CASE SetLease
  BY <1>2 DEF SetLease
<1>3. ASSUME NEW t \in Updater, StoreService(t) \/ UpdateNext(t) PROVE RegisterFirst'
  <2>1. register' = register
    BY <1>3 DEF StoreService, UpdateNext, StoreOptions, LoadOptions, LoadService,
                CheckDeregister, ServiceRegister, Put
  <2>2. register = "ready"
    BY <1>3 DEF StoreService, UpdateNext, StoreOptions, LoadOptions, LoadService,
                CheckDeregister, ServiceRegister, Put
  <2> QED BY <2>1, <2>2
<1>4. CASE Deregister \/ ServiceDeregister \/ CancelKeepAlive \/ Revoke \/ Expire
  BY <1>4 DEF Deregister, ServiceDeregister, CancelKeepAlive, Revoke, Expire
<1>5. CASE UNCHANGED vars
  BY <1>5
<1> QED BY <1>1, <1>2, <1>3, <1>4, <1>5 DEF Next

LEMMA OnlyLateKeeps ==
    ASSUME TypeOK, DeregisterOK, RegisterFirst, OnlyLateEntries, [Next]_vars
    PROVE  OnlyLateEntries'
<1>0. late \in BOOLEAN /\ deRegistered \in BOOLEAN
  BY DEF TypeOK
<1> USE <1>0 DEF OnlyLateEntries, vars, handle, registry, updating, history
<1>1. CASE Attempt \/ SetLease
  BY <1>1 DEF Attempt, SetLease, DeregisterOK
<1>2. ASSUME NEW t \in Updater, StoreService(t) \/ UpdateNext(t) PROVE OnlyLateEntries'
  <2>1. CASE StoreService(t) \/ StoreOptions(t) \/ LoadOptions(t) \/ LoadService(t)
    BY <2>1 DEF StoreService, StoreOptions, LoadOptions, LoadService
  <2>2. CASE CheckDeregister(t)
    <3>1. /\ entry' = entry \/ entry' = Untied
          /\ kind' = kind /\ deregister' = deregister /\ late' = late
      BY <2>2 DEF CheckDeregister
    <3> QED BY <3>1, EntryKinds
  <2>3. CASE ServiceRegister(t)
    <3>1. PICK outcome \in Outcome : Written(t, outcome, TRUE)
      BY <2>3 DEF ServiceRegister
    <3> QED BY <2>3, <3>1, WrittenEntry DEF ServiceRegister, DeregisterOK
  <2>4. CASE Put(t)
    <3>1. CASE lease = "gone"
      BY <2>4, <3>1 DEF Put, HasLease
    <3>2. CASE lease # "gone"
      BY <2>4, <3>2 DEF Put, HasLease, DeregisterOK
    <3> QED BY <3>1, <3>2
  <2> QED BY <1>2, <2>1, <2>2, <2>3, <2>4 DEF UpdateNext
<1>3. CASE Deregister \/ CancelKeepAlive
  BY <1>3 DEF Deregister, CancelKeepAlive
<1>4. CASE ServiceDeregister
  BY <1>4 DEF ServiceDeregister, Removed
<1>5. CASE Revoke
  <2>1. PICK outcome \in Outcome :
            /\ IF outcome = "lost" THEN UNCHANGED registry ELSE RevokeLease
            /\ Removed(IF lease = "gone" THEN "lost" ELSE outcome)
    BY <1>5 DEF Revoke
  <2>2. outcome = "ok" => entry' = WithoutLease
    BY <2>1 DEF RevokeLease
  <2> QED BY <1>5, <2>1, <2>2, EntryKinds DEF Revoke, Removed
<1>6. CASE Expire
  BY <1>6, EntryKinds DEF Expire
<1>7. CASE UNCHANGED vars
  BY <1>7
<1> QED BY <1>1, <1>2, <1>3, <1>4, <1>5, <1>6, <1>7 DEF Next

-----------------------------------------------------------------------------
(* Untied entries                                                          *)

LEMMA TiedKeeps ==
    ASSUME TypeOK, DeregisterOK, RegisterFirst, EntryIsTied, [Next]_vars
    PROVE  EntryIsTied'
<1> USE DEF EntryIsTied, vars, handle, registry, updating, history
<1>0. kind \in {"consul", "etcd"}
  BY RegistryAssumption DEF RegistryAssumption, TypeOK
<1>1. CASE Attempt
  <2>1. /\ entry' = entry \/ entry' = [svc |-> svc, opts |-> opts, tied |-> kind = "consul"]
        /\ UNCHANGED kind
    BY <1>1 DEF Attempt
  <2>2. CASE entry' = entry
    <3>1. faults' \in 0..MaxFaults /\ faults' >= faults /\ update' = update
      BY <1>1, CallingType DEF Attempt
    <3> QED BY <2>1, <2>2, <3>1, CountersType
  <2>3. CASE entry' = [svc |-> svc, opts |-> opts, tied |-> kind = "consul"]
    <3>1. svc = 0
      BY <1>1 DEF Attempt, RegisterFirst
    <3> QED BY <1>0, <2>1, <2>3, <3>1
  <2> QED BY <2>1, <2>2, <2>3
<1>2. CASE SetLease
  <2>1. faults' \in 0..MaxFaults /\ faults' >= faults
    BY <1>2, CallingType DEF SetLease
  <2> QED BY <1>2, <2>1, CountersType DEF SetLease
<1>3. ASSUME NEW t \in Updater, StoreService(t) \/ UpdateNext(t) PROVE EntryIsTied'
  <2> USE DEF Step
  <2>1. CASE StoreService(t) \/ StoreOptions(t) \/ LoadOptions(t) \/ LoadService(t)
    BY <2>1 DEF StoreService, StoreOptions, LoadOptions, LoadService, TypeOK
  <2>2. CASE CheckDeregister(t)
    <3>1. PICK outcome \in Outcome :
              /\ Calling(outcome)
              /\ entry' = IF outcome = "lost" THEN entry ELSE Untied
              /\ \/ outcome = "ok" /\ Step(t, "register")
                 \/ outcome # "ok" /\ Step(t, "idle")
                 \/ outcome = "ok" /\ Untied = entry /\ Step(t, "idle")
      BY <2>2 DEF CheckDeregister
    <3>2. kind = "consul" /\ update[t] = "uncheck" /\ kind' = kind
      BY <2>2 DEF CheckDeregister, DeregisterOK
    <3>3. faults' \in 0..MaxFaults /\ faults' >= faults /\ (outcome # "ok" => faults' > 0)
      BY <3>1, CallingType
    <3>4. CASE outcome # "ok"
      BY <3>2, <3>3, <3>4
    <3>5. CASE Step(t, "register")
      BY <3>2, <3>5 DEF TypeOK
    <3>6. CASE Untied = entry /\ Step(t, "idle")
      <4>1. \A u \in Updater : update[u] = "register" => update'[u] = "register"
        BY <3>2, <3>6 DEF TypeOK
      <4>2. entry' = entry /\ (faults > 0 => faults' > 0)
        BY <3>1, <3>3, <3>6, CountersType
      <4> QED BY <3>2, <4>1, <4>2
    <3> QED BY <3>1, <3>4, <3>5, <3>6
  <2>3. CASE ServiceRegister(t)
    <3>1. PICK outcome \in Outcome : Written(t, outcome, TRUE)
      BY <2>3 DEF ServiceRegister
    <3>2. faults' > 0 \/ entry' = [svc |-> got[t].svc, opts |-> got[t].opts, tied |-> TRUE]
      BY <3>1, WrittenEntry
    <3>3. kind' = "consul"
      BY <2>3 DEF ServiceRegister
    <3> QED BY <3>2, <3>3
  <2>4. CASE Put(t)
    <3>1. \/ entry' = entry
          \/ entry' = [svc |-> got[t].svc, opts |-> got[t].opts, tied |-> TRUE]
      <4>1. CASE lease = "gone"
        BY <2>4, <4>1 DEF Put, HasLease
      <4>2. CASE lease # "gone"
        <5>1. PICK outcome \in Outcome : Written(t, outcome, TRUE)
          BY <2>4, <4>2 DEF Put, HasLease
        <5> QED BY <5>1, WrittenEntry
      <4> QED BY <4>1, <4>2
    <3>2. kind = "etcd" /\ kind' = "etcd"
      BY <2>4 DEF Put
    <3> QED BY <3>1, <3>2
  <2> QED BY <1>3, <2>1, <2>2, <2>3, <2>4 DEF UpdateNext
<1>4. CASE Deregister \/ CancelKeepAlive
  BY <1>4 DEF Deregister, CancelKeepAlive
<1>5. CASE ServiceDeregister
  <2>1. /\ faults' \in 0..MaxFaults /\ faults' >= faults
        /\ entry' = entry \/ entry' = NoEntry
        /\ UNCHANGED <<kind, update>>
    BY <1>5, CallingType DEF ServiceDeregister
  <2> QED BY <2>1, CountersType
<1>6. CASE Revoke \/ Expire
  <2>1. entry' = entry \/ entry' = WithoutLease
    BY <1>6 DEF Revoke, RevokeLease, Expire
  <2>2. UNCHANGED <<kind, update>>
    BY <1>6 DEF Revoke, Expire
  <2>3. faults > 0 => faults' > 0
    <3>1. CASE Revoke
      BY <3>1, CallingType, CountersType DEF Revoke
    <3>2. CASE Expire
      BY <3>2, CountersType DEF Expire
    <3> QED BY <1>6, <3>1, <3>2
  <2> QED BY <2>1, <2>2, <2>3, EntryKinds, CountersType
<1>7. CASE UNCHANGED vars
  BY <1>7
<1> QED BY <1>1, <1>2, <1>3, <1>4, <1>5, <1>6, <1>7 DEF Next

-----------------------------------------------------------------------------
(* The last call                                                           *)

LEMMA InTurnKeeps ==
    ASSUME TypeOK, DeregisterOK, RegisterFirst, InTurn, [Next]_vars
    PROVE  InTurn'
<1> USE DEF vars, handle, registry, updating, history
<1>1. ASSUME UNCHANGED <<svc, opts, updating>>, overlapped' = overlapped
      PROVE  InTurn'
  BY <1>1 DEF InTurn, LastCall
<1>2. CASE Attempt \/ SetLease \/ Deregister \/ ServiceDeregister \/ CancelKeepAlive \/ Revoke
           \/ Expire \/ UNCHANGED vars
  BY <1>1, <1>2 DEF Attempt, SetLease, Deregister, ServiceDeregister, CancelKeepAlive, Revoke,
                    Expire
<1>3. ASSUME NEW t \in Updater, StoreService(t) PROVE InTurn'
  <2> SUFFICES ASSUME ~overlapped' PROVE InTurn'
    BY DEF InTurn
  <2>1. ~overlapped /\ \A u \in Updater : update[u] = "idle"
    BY <1>3 DEF StoreService
  <2>2. /\ update' = [update EXCEPT ![t] = "opts"] /\ number' = [number EXCEPT ![t] = updates']
        /\ svc' = updates'
    BY <1>3 DEF StoreService, Step
  <2>3. /\ \A u \in Updater \ {t} : update'[u] = "idle"
        /\ update'[t] = "opts" /\ number'[t] = updates'
    BY <2>1, <2>2 DEF TypeOK
  <2> QED BY <2>2, <2>3 DEF InTurn, LastCall
<1>4. ASSUME NEW t \in Updater, UpdateNext(t) PROVE InTurn'
  <2> SUFFICES ASSUME ~overlapped' PROVE InTurn'
    BY DEF InTurn
  <2>1. /\ overlapped' = overlapped /\ svc' = svc /\ UNCHANGED <<number, updates>>
        /\ update[t] # "idle"
    BY <1>4 DEF UpdateNext, StoreOptions, LoadOptions, LoadService, CheckDeregister,
                ServiceRegister, Put
  <2>2. LastCall(t) /\ svc = updates
    BY <2>1 DEF InTurn
  <2>3. ASSUME NEW label, Step(t, label), label # "idle", LastCall(t)' PROVE InTurn'
    <3>1. \A u \in Updater \ {t} : update'[u] = "idle"
      BY <2>2, <2>3 DEF LastCall, Step, TypeOK
    <3>2. update'[t] # "idle"
      BY <2>3 DEF Step, TypeOK
    <3> QED BY <2>1, <2>2, <2>3, <3>1, <3>2 DEF InTurn
  <2>4. ASSUME Step(t, "idle"), opts' = opts, update[t] # "opts" PROVE InTurn'
    <3>1. \A u \in Updater : update'[u] = "idle"
      BY <2>2, <2>4 DEF LastCall, Step, TypeOK
    <3> QED BY <2>1, <2>2, <2>4, <3>1 DEF InTurn, LastCall
  <2> USE DEF Step
  <2>5. ASSUME NEW label, Step(t, label), label # "idle"
        PROVE  \A u \in Updater : update'[u] # "idle" => u = t
    BY <2>2, <2>5 DEF LastCall, TypeOK
  <2>6. CASE StoreOptions(t)
    <3>1. LastCall(t)'
      BY <2>1, <2>2, <2>5, <2>6 DEF StoreOptions, NewOptions, LastCall, TypeOK
    <3> QED BY <2>3, <2>6, <3>1 DEF StoreOptions
  <2>7. CASE LoadOptions(t)
    <3>1. LastCall(t)'
      BY <2>1, <2>2, <2>5, <2>7 DEF LoadOptions, LastCall, TypeOK
    <3> QED BY <2>3, <2>7, <3>1 DEF LoadOptions
  <2>8. CASE LoadService(t)
    <3>1. LastCall(t)'
      BY <2>1, <2>2, <2>5, <2>8 DEF LoadService, LastCall, TypeOK
    <3> QED BY <2>3, <2>8, <3>1 DEF LoadService
  <2>9. CASE CheckDeregister(t)
    <3>1. CASE Step(t, "idle")
      BY <2>4, <2>9, <3>1 DEF CheckDeregister
    <3>2. CASE Step(t, "register")
      <4>1. LastCall(t)'
        BY <2>1, <2>2, <2>5, <2>9, <3>2 DEF CheckDeregister, LastCall, TypeOK
      <4> QED BY <2>3, <3>2, <4>1
    <3> QED BY <2>9, <3>1, <3>2 DEF CheckDeregister
  <2>10. CASE ServiceRegister(t)
    BY <2>4, <2>10 DEF ServiceRegister
  <2>11. CASE Put(t)
    BY <2>4, <2>11 DEF Put
  <2> QED BY <1>4, <2>6, <2>7, <2>8, <2>9, <2>10, <2>11 DEF UpdateNext
<1> QED BY <1>2, <1>3, <1>4 DEF Next

LEMMA NumbersType ==
    ASSUME TypeOK
    PROVE  /\ acked \in Nat /\ updates \in Nat
           /\ \A t \in Updater : number[t] \in Nat /\ number[t] <= MaxUpdates
<1>1. /\ acked \in 0..MaxUpdates /\ updates \in 0..MaxUpdates
      /\ number \in [Updater -> 0..MaxUpdates]
  BY DEF TypeOK
<1>2. MaxUpdates \in Nat
  BY RegistryAssumption DEF RegistryAssumption
<1> QED BY <1>1, <1>2

LEMMA AckedKeeps ==
    ASSUME TypeOK, AckedOK, [Next]_vars
    PROVE  AckedOK'
<1> USE DEF vars, handle, registry, updating, history
<1>1. CASE UNCHANGED <<number, updates, acked>>
  BY <1>1 DEF AckedOK
<1>2. CASE Attempt \/ SetLease \/ Deregister \/ ServiceDeregister \/ CancelKeepAlive \/ Revoke
           \/ Expire \/ UNCHANGED vars
  BY <1>1, <1>2 DEF Attempt, SetLease, Deregister, ServiceDeregister, CancelKeepAlive, Revoke,
                    Expire
<1>3. ASSUME NEW t \in Updater, StoreService(t) PROVE AckedOK'
  <2>1. /\ updates' = updates + 1 /\ acked' = acked
        /\ \A u \in Updater : number'[u] = IF u = t THEN updates' ELSE number[u]
    BY <1>3 DEF StoreService, TypeOK
  <2> QED BY <2>1, NumbersType DEF AckedOK
<1>4. ASSUME NEW t \in Updater, UpdateNext(t) PROVE AckedOK'
  <2>1. UNCHANGED <<number, updates>>
    BY <1>4 DEF UpdateNext, StoreOptions, LoadOptions, LoadService, CheckDeregister,
                ServiceRegister, Put
  <2>2. acked' = acked \/ acked' = number[t]
    BY <1>4, WrittenEntry DEF UpdateNext, StoreOptions, LoadOptions, LoadService,
                              CheckDeregister, ServiceRegister, Put
  <2> QED BY <2>1, <2>2 DEF AckedOK
<1> QED BY <1>2, <1>3, <1>4 DEF Next

LEMMA OneCallKeeps ==
    ASSUME TypeOK, RegisterFirst, InTurn, AckedOK, OneCallIsRegistered, [Next]_vars
    PROVE  OneCallIsRegistered'
<1> USE DEF vars, handle, registry, updating, history
<1>0. /\ acked \in Nat /\ updates \in Nat
      /\ \A t \in Updater : number[t] \in Nat
  BY NumbersType
<1>1. ASSUME acked' = acked, overlapped' = overlapped, 
             entry' \in {entry, NoEntry, Untied, WithoutLease}
      PROVE  OneCallIsRegistered'
  BY <1>1, EntryKinds DEF OneCallIsRegistered
<1>2. CASE Attempt
  <2>1. /\ UNCHANGED <<acked, overlapped>>
        /\ entry' = entry \/ entry' = [svc |-> svc, opts |-> opts, tied |-> kind = "consul"]
    BY <1>2 DEF Attempt
  <2>2. svc = 0 /\ opts = 0 /\ acked <= 0
    BY <1>2 DEF Attempt, RegisterFirst, AckedOK
  <2> QED BY <1>0, <1>1, <2>1, <2>2 DEF OneCallIsRegistered
<1>3. CASE SetLease \/ Deregister \/ ServiceDeregister \/ CancelKeepAlive \/ Revoke
           \/ Expire \/ UNCHANGED vars
  <2>1. UNCHANGED <<acked, overlapped>>
    BY <1>3 DEF SetLease, Deregister, ServiceDeregister, CancelKeepAlive, Revoke, Expire
  <2>2. entry' \in {entry, NoEntry, Untied, WithoutLease}
    BY <1>3 DEF SetLease, Deregister, ServiceDeregister, CancelKeepAlive, Revoke, RevokeLease,
                Expire
  <2> QED BY <1>1, <2>1, <2>2
<1>4. ASSUME NEW t \in Updater,
             StoreService(t) \/ StoreOptions(t) \/ LoadOptions(t) \/ LoadService(t)
      PROVE  OneCallIsRegistered'
  BY <1>4 DEF StoreService, StoreOptions, LoadOptions, LoadService, OneCallIsRegistered
<1>5. ASSUME NEW t \in Updater, CheckDeregister(t) PROVE OneCallIsRegistered'
  BY <1>1, <1>5 DEF CheckDeregister
<1>6. ASSUME NEW t \in Updater, update[t] = "register", NEW outcome \in Outcome,
             Written(t, outcome, TRUE), overlapped' = overlapped
      PROVE  OneCallIsRegistered'
  <2> SUFFICES ASSUME ~overlapped PROVE OneCallIsRegistered'
    BY <1>6 DEF OneCallIsRegistered
  <2>1. number[t] = updates /\ got[t].opts = updates /\ got[t].svc = updates
    BY <1>6 DEF InTurn, LastCall
  <2>2. \/ entry' = entry /\ acked' = acked
        \/ /\ entry' = [svc |-> updates, opts |-> updates, tied |-> TRUE]
           /\ acked' = acked \/ acked' = updates
    BY <1>6, <2>1, WrittenEntry
  <2> QED BY <1>0, <1>1, <1>6, <2>2 DEF OneCallIsRegistered, AckedOK
<1>7. ASSUME NEW t \in Updater, ServiceRegister(t) PROVE OneCallIsRegistered'
  BY <1>6, <1>7 DEF ServiceRegister
<1>8. ASSUME NEW t \in Updater, Put(t) PROVE OneCallIsRegistered'
  <2>1. CASE lease = "gone"
    BY <1>1, <1>8, <2>1 DEF Put, HasLease
  <2>2. CASE lease # "gone"
    BY <1>6, <1>8, <2>2 DEF Put, HasLease
  <2> QED BY <2>1, <2>2
<1> QED BY <1>2, <1>3, <1>4, <1>5, <1>7, <1>8 DEF Next, UpdateNext

-----------------------------------------------------------------------------
(* The theorems                                                            *)

LEMMA InitInv == Init => RInv
<1> SUFFICES ASSUME Init PROVE RInv
  OBVIOUS
<1>1. TypeOK
  BY InitType
<1>2. DeregisterOK /\ RegisterFirst /\ InTurn
  BY DEF Init, DeregisterOK, RegisterFirst, InTurn
<1>3. AckedOK
  BY DEF Init, AckedOK
<1>4. OnlyLateEntries /\ EntryIsTied /\ OneCallIsRegistered
  BY DEF Init, OnlyLateEntries, EntryIsTied, OneCallIsRegistered
<1> QED BY <1>1, <1>2, <1>3, <1>4 DEF RInv

LEMMA NextInv == RInv /\ [Next]_vars => RInv'
BY NextType, DeregisterKeeps, RegisterKeeps, InTurnKeeps, AckedKeeps, OnlyLateKeeps, TiedKeeps,
   OneCallKeeps DEF RInv

(* The invariants above hold together, from what Register and each call    *)
(* leave behind.                                                           *)
THEOREM RegistryInvariant == Spec => []RInv
BY InitInv, NextInv, PTL DEF Spec

(* A service that has been deregistered is only still there by an Update   *)
(* that was under way, or in etcd without a lease (Deregister, Update).    *)
THEOREM DeregisteredIsGone == Spec => []OnlyLateEntries
<1>1. RInv => OnlyLateEntries
  BY DEF RInv
<1> QED BY <1>1, RegistryInvariant, PTL

(* What the registry holds is one call's, and no older than an answered    *)
(* one, as long as calls do not overlap (register).                        *)
THEOREM CallsAreNotMixed == Spec => []OneCallIsRegistered
<1>1. RInv => OneCallIsRegistered
  BY DEF RInv
<1> QED BY <1>1, RegistryInvariant, PTL

(* An entry nothing takes out is etcd's first, or consul's amid an Update  *)
(* or after a fault (register).                                            *)
THEOREM UntiedEntriesAreKnown == Spec => []EntryIsTied
<1>1. RInv => EntryIsTied
  BY DEF RInv
<1> QED BY <1>1, RegistryInvariant, PTL

=============================================================================
