------------------------------- MODULE Registry -------------------------------
(***************************************************************************)
(* Registering a service (adapter/consul/registry.go, adapter/etcd/        *)
(* registry.go): Register with its second attempt, Update from several     *)
(* goroutines, Deregister, against a registry whose calls may fail before  *)
(* or after they take effect.                                              *)
(*                                                                         *)
(* The service and the options of a call are identified with its number:   *)
(* 0 for Register, then the calls of Update as they are made.  An entry is *)
(* "tied" if the registry takes it out by itself when the service dies:    *)
(* by its health check in consul, with its lease in etcd.                  *)
(***************************************************************************)
EXTENDS Naturals

CONSTANTS
    Adapters,    \* which of "consul" and "etcd" to look at
    Updater,     \* goroutines calling Update
    NoEntry,     \* the registry has no entry of the service
    MaxUpdates,  \* bound: calls of Update
    MaxFaults    \* bound: calls that fail, leases that are lost

Entry == [svc : 0..MaxUpdates, opts : 0..MaxUpdates, tied : BOOLEAN]

ASSUME RegistryAssumption ==
    /\ Adapters \subseteq {"consul", "etcd"}
    /\ NoEntry \notin Entry
    /\ MaxUpdates \in Nat /\ MaxFaults \in Nat

VARIABLES
    kind,          \* the adapter
    svc, opts,     \* r.svc, r.opts
    deRegistered,  \* r.deRegistered
    lease,         \* etcd: "none", "kept" alive, "cancelled", "gone"
    entry,         \* the registry's entry of the service
    register,      \* where Register has got to
    update,        \* where each goroutine has got to in Update
    number,        \* the number of its call
    got,           \* what register has loaded from r.opts and r.svc
    deregister,    \* where Deregister has got to
    updates,       \* calls of Update
    faults,        \* calls that failed, leases that were lost
    acked,         \* the last call of Update that returned nil
    overlapped,    \* two calls of Update have been under way at once
    late           \* an Update has registered after deRegistered was set

handle == <<svc, opts, deRegistered>>
registry == <<lease, entry>>
updating == <<update, number, got, updates>>
history == <<acked, overlapped, late>>
vars == <<kind, handle, registry, register, updating, deregister, faults, history>>

Init ==
    /\ kind \in Adapters
    /\ svc = 0 /\ opts = 0
    /\ deRegistered = FALSE
    /\ lease = "none"
    /\ entry = NoEntry
    /\ register = "first"
    /\ update = [t \in Updater |-> "idle"]
    /\ number = [t \in Updater |-> 0]
    /\ got = [t \in Updater |-> [svc |-> 0, opts |-> 0]]
    /\ deregister = "idle"
    /\ updates = 0 /\ faults = 0
    /\ acked = 0 /\ overlapped = FALSE /\ late = FALSE

(* How a call to the registry may go: it may also take effect and not be   *)
(* answered, or not arrive.                                                *)
Outcome == {"ok", "unanswered", "lost"}
Calling(outcome) ==
    IF outcome = "ok" THEN UNCHANGED faults
    ELSE faults < MaxFaults /\ faults' = faults + 1

Step(t, label) == update' = [update EXCEPT ![t] = label]

-----------------------------------------------------------------------------
(* Register: two attempts, then the lease                                  *)

(* The first entry has its check in consul, but no lease in etcd: there is *)
(* none yet.                                                               *)
Attempt ==
    /\ register \in {"first", "second"}
    /\ \E outcome \in Outcome :
          /\ Calling(outcome)
          /\ entry' = IF outcome = "lost" THEN entry
                      ELSE [svc |-> svc, opts |-> opts, tied |-> kind = "consul"]
          /\ register' = IF outcome = "ok"
                         THEN IF kind = "consul" THEN "ready" ELSE "lease"
                         ELSE IF register = "first" THEN "second" ELSE "failed"
    /\ UNCHANGED <<kind, handle, lease, updating, deregister, history>>

(* Grant and KeepAlive; a lease whose grant was not answered is nobody's.  *)
SetLease ==
    /\ register = "lease"
    /\ \E outcome \in Outcome :
          /\ Calling(outcome)
          /\ IF outcome = "ok" THEN register' = "ready" /\ lease' = "kept"
             ELSE register' = "failed" /\ UNCHANGED lease
    /\ UNCHANGED <<kind, handle, entry, updating, deregister, history>>

-----------------------------------------------------------------------------
(* Update                                                                  *)

(* The check of deRegistered, and r.svc.  (Calls that change the id, or    *)
(* that ParseService rejects, return here.)                                *)
StoreService(t) ==
    /\ register = "ready"
    /\ update[t] = "idle"
    /\ updates < MaxUpdates
    /\ ~deRegistered
    /\ updates' = updates + 1
    /\ number' = [number EXCEPT ![t] = updates']
    /\ svc' = updates'
    /\ overlapped' = (overlapped \/ \E u \in Updater : update[u] # "idle")
    /\ Step(t, "opts")
    /\ UNCHANGED <<kind, opts, deRegistered, registry, register, got, deregister, faults,
                   acked, late>>

OptionsKept(t) == opts
NewOptions(t) == number[t]

StoreOptions(t) ==
    /\ update[t] = "opts"
    /\ opts' = NewOptions(t)
    /\ Step(t, "load opts")
    /\ UNCHANGED <<kind, svc, deRegistered, registry, register, number, got, updates,
                   deregister, faults, history>>

LoadOptions(t) ==
    /\ update[t] = "load opts"
    /\ got' = [got EXCEPT ![t].opts = opts]
    /\ Step(t, "load svc")
    /\ UNCHANGED <<kind, handle, registry, register, number, updates, deregister, faults,
                   history>>

LoadService(t) ==
    /\ update[t] = "load svc"
    /\ got' = [got EXCEPT ![t].svc = svc]
    /\ Step(t, IF kind = "consul" THEN "uncheck" ELSE "register")
    /\ UNCHANGED <<kind, handle, registry, register, number, updates, deregister, faults,
                   history>>

Untied == IF entry = NoEntry THEN entry ELSE [entry EXCEPT !.tied = FALSE]

(* consul: the check is taken away first.  Agents differ on whether taking *)
(* away a check that is not there is an error.                             *)
CheckDeregister(t) ==
    /\ update[t] = "uncheck"
    /\ \E outcome \in Outcome :
          /\ Calling(outcome)
          /\ entry' = IF outcome = "lost" THEN entry ELSE Untied
          /\ \/ outcome = "ok" /\ Step(t, "register")
             \/ outcome # "ok" /\ Step(t, "idle")
             \/ outcome = "ok" /\ Untied = entry /\ Step(t, "idle")
    /\ UNCHANGED <<kind, handle, lease, register, number, got, updates, deregister,
                   history>>

(* What either adapter does with the entry: written unless the call is     *)
(* lost.                                                                   *)
Written(t, outcome, tied) ==
    /\ Calling(outcome)
    /\ IF outcome = "lost" THEN UNCHANGED <<entry, late>>
       ELSE /\ entry' = [svc |-> got[t].svc, opts |-> got[t].opts, tied |-> tied]
            /\ late' = (late \/ deRegistered)
    /\ acked' = IF outcome = "ok" THEN number[t] ELSE acked

(* consul: the service with its check.                                     *)
ServiceRegister(t) ==
    /\ kind = "consul"
    /\ update[t] = "register"
    /\ \E outcome \in Outcome : Written(t, outcome, TRUE)
    /\ Step(t, "idle")
    /\ UNCHANGED <<kind, handle, lease, register, number, got, updates, deregister,
                   overlapped>>

HasNoLease == FALSE
HasLease == TRUE

(* etcd: the service with its lease, refused if that is gone.              *)
Put(t) ==
    /\ kind = "etcd"
    /\ update[t] = "register"
    /\ IF HasLease /\ lease = "gone" THEN UNCHANGED <<entry, late, acked, faults>>
       ELSE \E outcome \in Outcome : Written(t, outcome, HasLease)
    /\ Step(t, "idle")
    /\ UNCHANGED <<kind, handle, lease, register, number, got, updates, deregister,
                   overlapped>>

-----------------------------------------------------------------------------
(* Deregister                                                              *)

(* Only the first call goes on, and it is not tried again if it fails.     *)
Deregister ==
    /\ register = "ready"
    /\ ~deRegistered
    /\ deRegistered' = TRUE
    /\ deregister' = IF kind = "consul" THEN "remove" ELSE "cancel"
    /\ UNCHANGED <<kind, svc, opts, registry, register, updating, faults, history>>

KeepLease == lease
StopLease == IF lease = "kept" THEN "cancelled" ELSE lease

CancelKeepAlive ==
    /\ deregister = "cancel"
    /\ lease' = StopLease
    /\ deregister' = "remove"
    /\ UNCHANGED <<kind, handle, entry, register, updating, faults, history>>

(* What goes with a lease that ends.                                       *)
WithoutLease == IF entry # NoEntry /\ entry.tied THEN NoEntry ELSE entry

Removed(outcome) == deregister' = IF outcome = "ok" THEN "ok" ELSE "error"

(* consul *)
ServiceDeregister ==
    /\ kind = "consul"
    /\ deregister = "remove"
    /\ \E outcome \in Outcome :
          /\ Calling(outcome)
          /\ entry' = IF outcome = "lost" THEN entry ELSE NoEntry
          /\ Removed(outcome)
    /\ UNCHANGED <<kind, handle, lease, register, updating, history>>

RevokeNothing == UNCHANGED registry
RevokeLease == entry' = WithoutLease /\ lease' = "gone"

(* etcd: what is tied to the lease goes with it.  Revoking a lease that    *)
(* has run out is an error.                                                *)
Revoke ==
    /\ kind = "etcd"
    /\ deregister = "remove"
    /\ \E outcome \in Outcome :
          /\ Calling(outcome)
          /\ IF outcome = "lost" THEN UNCHANGED registry ELSE RevokeLease
          /\ Removed(IF lease = "gone" THEN "lost" ELSE outcome)
    /\ UNCHANGED <<kind, handle, register, updating, history>>

(* A lease runs out when nobody keeps it alive, or nobody gets through.    *)
Expire ==
    /\ \/ lease = "cancelled" /\ UNCHANGED faults
       \/ lease = "kept" /\ faults < MaxFaults /\ faults' = faults + 1
    /\ lease' = "gone"
    /\ entry' = WithoutLease
    /\ UNCHANGED <<kind, handle, register, updating, deregister, history>>

-----------------------------------------------------------------------------

UpdateNext(t) ==
    \/ StoreOptions(t) \/ LoadOptions(t) \/ LoadService(t)
    \/ CheckDeregister(t) \/ ServiceRegister(t) \/ Put(t)

Next ==
    \/ Attempt \/ SetLease
    \/ \E t \in Updater : StoreService(t) \/ UpdateNext(t)
    \/ Deregister \/ ServiceDeregister \/ CancelKeepAlive \/ Revoke
    \/ Expire

Spec == Init /\ [][Next]_vars

(* Goroutines run, calls return (the clients have timeouts or the answer   *)
(* comes), and a lease that nobody keeps alive runs out.                   *)
Fairness ==
    /\ \A t \in Updater : WF_vars(UpdateNext(t))
    /\ WF_vars(ServiceDeregister) /\ WF_vars(CancelKeepAlive) /\ WF_vars(Revoke)
    /\ WF_vars(lease = "cancelled" /\ Expire)

FairSpec == Spec /\ Fairness

-----------------------------------------------------------------------------
(* Properties                                                              *)

(* Every variable holds what the Go variable it stands for can hold.       *)
TypeOK ==
    /\ kind \in Adapters
    /\ svc \in 0..MaxUpdates /\ opts \in 0..MaxUpdates
    /\ deRegistered \in BOOLEAN
    /\ lease \in {"none", "kept", "cancelled", "gone"}
    /\ entry \in Entry \cup {NoEntry}
    /\ register \in {"first", "second", "lease", "ready", "failed"}
    /\ update \in [Updater -> {"idle", "opts", "load opts", "load svc", "uncheck",
                               "register"}]
    /\ number \in [Updater -> 0..MaxUpdates]
    /\ got \in [Updater -> [svc : 0..MaxUpdates, opts : 0..MaxUpdates]]
    /\ deregister \in {"idle", "cancel", "remove", "ok", "error"}
    /\ updates \in 0..MaxUpdates /\ faults \in 0..MaxFaults
    /\ acked \in 0..MaxUpdates
    /\ overlapped \in BOOLEAN /\ late \in BOOLEAN

(* What a service that has been deregistered can still have in the         *)
(* registry: in etcd only an entry that never got a lease, because a late  *)
(* Update finds its lease revoked; in consul only what an Update that had  *)
(* passed its check of deRegistered has put there since (Update).          *)
OnlyLateEntries ==
    deregister = "ok" /\ entry # NoEntry =>
        IF kind = "etcd" THEN ~entry.tied ELSE late

(* The registry holds the service and the options of one call, none older  *)
(* than the last call that returned nil, whichever calls were lost or went *)
(* unanswered.  Calls that overlap may be mixed up: r.svc and r.opts are   *)
(* two variables (register).                                               *)
OneCallIsRegistered ==
    ~overlapped /\ entry # NoEntry => entry.svc = entry.opts /\ entry.svc >= acked

(* An entry that nothing would take out if the service died is etcd's from *)
(* before the first Update, or consul's while an Update has just taken the *)
(* check away or after some call has failed: the call that was to put the  *)
(* check back may be the one.                                              *)
EntryIsTied ==
    entry # NoEntry /\ ~entry.tied =>
        IF kind = "etcd" THEN entry.svc = 0
        ELSE faults > 0 \/ \E t \in Updater : update[t] = "register"

(* However Deregister fares, a leased entry is gone in the end: the        *)
(* keep-alive is cancelled before the call that may fail.                  *)
LeasedEntryGoes ==
    kind = "etcd" /\ deRegistered ~> [](entry = NoEntry \/ ~entry.tied)

=============================================================================
