-------------------------------- MODULE Lookup --------------------------------
(***************************************************************************)
(* A request on its way through loadBalance.Next: the wrapper that may     *)
(* serve a recovered list (wrap.go), the list the degrade object serves    *)
(* (Served), and the CheckChange that keeps the balancer built from a list *)
(* (check_change.go).  Requests run concurrently with each other, with the *)
(* degrade object and with operators that set and lift a recovery.         *)
(*                                                                         *)
(* A balancer is identified with the list it was built from.               *)
(***************************************************************************)
EXTENDS Served

CONSTANTS
    Caller,         \* goroutines calling Next for one service
    History,        \* lists an operator may recover
    NoRecovery,     \* nothing is recovered: d.srvs is empty
    Lacking,        \* a recovered version that lacks the service
    NoBuild,        \* no asynchronous newValue is running
    MaxRecoveries   \* bound: calls of SetRecover

RunModes == {"unset", "init", "selfProtection", "panic", "recover"}

ASSUME LookupAssumption ==
    /\ MaxRecoveries \in Nat
    /\ NoRecovery # Lacking
    /\ History \subseteq ServedLists
    /\ \A v \in Version, s \in Services, m \in RunModes :
          /\ List(0, v, m, s) \notin {NoRecovery, Lacking, NoBuild}
          /\ List(1, v, m, s) \notin {NoRecovery, Lacking, NoBuild}

VARIABLES
    asyncUpdate,  \* c.asyncUpdate
    created,      \* l.checks holds the service's CheckChange
    key,          \* c.watchVersion, c.version, c.runMode
    value,        \* c.value: the list its balancer was built from
    building,     \* the list newValue is building from in the background
    isUpdate,     \* c.isUpdate
    srvs,         \* d.srvs of the wrapper, for this service
    recoveries,   \* calls of SetRecover so far
    opened,       \* the discoverer has a watch for the service
    pc,           \* the next section of each request
    list          \* the list each request passes to GetValue

check == <<created, key, value, building, isUpdate>>
wrapper == <<srvs, recoveries>>
requests == <<pc, list>>
lookupVars == <<servedVars, asyncUpdate, check, wrapper, opened, requests>>

Init ==
    /\ ServedInit
    /\ asyncUpdate \in BOOLEAN
    /\ created = FALSE
    /\ key = Key(NoList)
    /\ value = NoList
    /\ building = NoBuild
    /\ isUpdate = FALSE
    /\ srvs = NoRecovery
    /\ recoveries = 0
    /\ opened = FALSE
    /\ pc = [c \in Caller |-> "idle"]
    /\ list = [c \in Caller |-> NoList]

Go(c, label) == pc' = [pc EXCEPT ![c] = label]

(* Back to the caller with a node or with an error, until its next request.*)
Return(c) ==
    /\ Go(c, "idle")
    /\ list' = [list EXCEPT ![c] = NoList]

-----------------------------------------------------------------------------
(* loadBalance.Next finds or creates the service's CheckChange.            *)

FindCheck(c) ==
    /\ pc[c] = "idle"
    /\ Go(c, IF created THEN "servers" ELSE "create")
    /\ UNCHANGED <<servedVars, asyncUpdate, check, wrapper, opened, list>>

(* NewCheckChange builds from an empty list, unless another request has    *)
(* meanwhile put its own in place.                                         *)
CreateCheck(c) ==
    /\ pc[c] = "create"
    /\ IF created
       THEN UNCHANGED <<created, key, value>>
       ELSE created' = TRUE /\ key' = Key(NoList) /\ value' = NoList
    /\ Go(c, "servers")
    /\ UNCHANGED <<servedVars, asyncUpdate, building, isUpdate, wrapper, opened, list>>

-----------------------------------------------------------------------------
(* WithRecoverDiscovery                                                    *)

Recovered(l) == [l EXCEPT !.runMode = "recover"]

(* The recovered list, or ErrNotExistOnRecover if the recovered version    *)
(* lacks the service; with nothing recovered the discovery is asked.       *)
ReadRecovery(c) ==
    /\ pc[c] = "servers"
    /\ \/ srvs = NoRecovery /\ Go(c, "discovery") /\ UNCHANGED list
       \/ srvs = Lacking /\ Return(c)
       \/ /\ srvs \notin {NoRecovery, Lacking}
          /\ list' = [list EXCEPT ![c] = Recovered(srvs)]
          /\ Go(c, "compare")
    /\ UNCHANGED <<servedVars, asyncUpdate, check, wrapper, opened>>

ReadServed(c) ==
    /\ pc[c] = "discovery"
    /\ opened' = TRUE
    /\ list' = [list EXCEPT ![c] = applyList]
    /\ Go(c, "compare")
    /\ UNCHANGED <<servedVars, asyncUpdate, check, wrapper>>

(* The watch of the service cannot be opened: GetServersWithDC returns the *)
(* error, and the next request tries again.                                *)
WatchFails(c) ==
    /\ pc[c] = "discovery"
    /\ ~opened
    /\ Return(c)
    /\ UNCHANGED <<servedVars, asyncUpdate, check, wrapper, opened>>

(* With a version kept from earlier, or with nil.                          *)
SetRecover ==
    /\ recoveries < MaxRecoveries
    /\ recoveries' = recoveries + 1
    /\ srvs' \in History \cup {Lacking, NoRecovery}
    /\ UNCHANGED <<servedVars, asyncUpdate, check, opened, requests>>

-----------------------------------------------------------------------------
(* CheckChange.GetValue                                                    *)

ChangedByVersion(l) == key[2] # l.version
Changed(l) == key # Key(l)

(* Under the read lock: the cached balancer if the three values agree.     *)
Compare(c) ==
    /\ pc[c] = "compare"
    /\ \/ Changed(list[c]) /\ Go(c, "update") /\ UNCHANGED list
       \/ ~Changed(list[c]) /\ Return(c)
    /\ UNCHANGED <<servedVars, asyncUpdate, check, wrapper, opened>>

Store(l) == key' = Key(l) /\ value' = l

(* Under the lock: another request may have made the update meanwhile.     *)
AlreadyUpdated(c) ==
    /\ pc[c] = "update"
    /\ ~Changed(list[c])
    /\ Return(c)
    /\ UNCHANGED <<servedVars, asyncUpdate, check, wrapper, opened>>

(* newValue runs under the lock.  A failure leaves everything as it was.   *)
UpdateNow(c) ==
    /\ pc[c] = "update"
    /\ Changed(list[c])
    /\ ~asyncUpdate
    /\ Store(list[c])
    /\ Return(c)
    /\ UNCHANGED <<servedVars, asyncUpdate, created, building, isUpdate, wrapper, opened>>

UpdateFails(c) ==
    /\ pc[c] = "update"
    /\ Changed(list[c])
    /\ ~asyncUpdate
    /\ Return(c)
    /\ UNCHANGED <<servedVars, asyncUpdate, check, wrapper, opened>>

(* newValue is left to a goroutine, one at a time; the old value is given. *)
UpdateLater(c) ==
    /\ pc[c] = "update"
    /\ Changed(list[c])
    /\ asyncUpdate
    /\ \/ ~isUpdate /\ isUpdate' = TRUE /\ building' = list[c]
       \/ isUpdate /\ UNCHANGED <<isUpdate, building>>
    /\ Return(c)
    /\ UNCHANGED <<servedVars, asyncUpdate, created, key, value, wrapper, opened>>

BuiltFails ==
    /\ building # NoBuild
    /\ building' = NoBuild
    /\ isUpdate' = FALSE
    /\ UNCHANGED <<servedVars, asyncUpdate, created, key, value, wrapper, opened, requests>>

ResetAfterBuild == isUpdate' = FALSE
KeepAfterBuild == UNCHANGED isUpdate
AfterBuild == ResetAfterBuild

Built ==
    /\ building # NoBuild
    /\ Store(building)
    /\ building' = NoBuild
    /\ AfterBuild
    /\ UNCHANGED <<servedVars, asyncUpdate, created, wrapper, opened, requests>>

-----------------------------------------------------------------------------

Discover == ServedNext /\ UNCHANGED <<asyncUpdate, check, wrapper, opened, requests>>

Lookup(c) ==
    \/ FindCheck(c) \/ CreateCheck(c) \/ ReadRecovery(c) \/ ReadServed(c)
    \/ Compare(c) \/ AlreadyUpdated(c) \/ UpdateNow(c) \/ UpdateLater(c)

Next ==
    \/ Discover \/ SetRecover \/ Built \/ BuiltFails
    \/ \E c \in Caller : Lookup(c) \/ WatchFails(c) \/ UpdateFails(c)

Spec == Init /\ [][Next]_lookupVars

(* Requests keep arriving and their goroutines run; newValue, which is     *)
(* called by requests or in the background, does not fail for ever.        *)
(* Nothing is assumed of the degrade object or of operators.               *)
Succeeds == Built \/ \E c \in Caller : UpdateNow(c)

Fairness == SF_lookupVars(Succeeds) /\ \A c \in Caller : WF_lookupVars(Lookup(c))

FairSpec == Spec /\ Fairness

-----------------------------------------------------------------------------
(* Properties                                                              *)

(* Lists are served, or were kept and recovered.                           *)
Lists == ServedLists \cup {Recovered(l) : l \in History}

(* Every variable holds what the Go variable it stands for can hold.       *)
TypeOK ==
    /\ ServedTypeOK
    /\ asyncUpdate \in BOOLEAN /\ created \in BOOLEAN /\ isUpdate \in BOOLEAN
    /\ value \in Lists /\ building \in Lists \cup {NoBuild}
    /\ key \in {Key(l) : l \in Lists}
    /\ srvs \in History \cup {Lacking, NoRecovery}
    /\ recoveries \in 0..MaxRecoveries
    /\ pc \in [Caller -> {"idle", "create", "servers", "discovery", "compare", "update"}]
    /\ opened \in BOOLEAN
    /\ list \in [Caller -> Lists]

(* The list a request that arrives now is to be answered from, unless the  *)
(* recovered version lacks the service or its watch was never opened.      *)
Offered == IF srvs = NoRecovery THEN applyList ELSE Recovered(srvs)
IsOffered == IF srvs = NoRecovery THEN opened ELSE srvs # Lacking

(* The cache catches up: when the list on offer stops changing and requests*)
(* keep arriving, the cached versions become and stay those of that list,  *)
(* although older lists still on their way may be stored after it, and an  *)
(* asynchronous build may be running from one of them.                     *)
CacheCatchesUp ==
    <>[][FALSE]_<<applyList, srvs>> => <>[](created /\ IsOffered => key = Key(Offered))

=============================================================================
