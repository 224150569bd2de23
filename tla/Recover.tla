-------------------------------- MODULE Recover --------------------------------
(***************************************************************************)
(* The WithRecover wrapper of a discovery (wrap.go): requests that are     *)
(* answered from a recovered version while there is one, the listing of    *)
(* all services asked for so far, and operators that set and lift a        *)
(* recovery, all around one sync.RWMutex.                                  *)
(*                                                                         *)
(* The lock prefers writers: one that waits for the readers to leave keeps *)
(* new readers out.  The wrapped discovery answers or fails at some time   *)
(* (Discoverer: RequestsReturn).                                           *)
(***************************************************************************)
EXTENDS Naturals, FiniteSets

CONSTANTS
    Service,    \* names of services
    Versions,   \* sets of services that recovered versions are about
    Caller,     \* goroutines calling GetServers and GetAllWatchedServices
    Operator,   \* goroutines calling SetRecover
    NoOne,      \* no writer
    NoService   \* a goroutine that asks for no service

Thread == Caller \cup Operator

ASSUME RecoverAssumption ==
    /\ Versions \subseteq SUBSET Service
    /\ Caller \cap Operator = {}
    /\ NoOne \notin Thread
    /\ NoService \notin Service

VARIABLES
    readers,          \* who holds d.mux for reading across other steps
    writer,           \* who holds d.mux for writing, or waits for the readers
    watchedServices,  \* d.watchedServices
    srvs,             \* services of the recovered version d.srvs
    pc,               \* the next section of each goroutine
    service,          \* the service asked for
    found,            \* the recovered version a request has read
    listing,          \* callers in GetAllWatchedServices
    left,             \* services a listing has not asked for yet
    result            \* <<service, mode>> pairs a listing has collected

lock == <<readers, writer>>
request == <<service, found>>
list == <<listing, left>>
vars == <<lock, watchedServices, srvs, pc, request, list, result>>

Init ==
    /\ readers = {}
    /\ writer = NoOne
    /\ watchedServices = {}
    /\ srvs = {}
    /\ pc = [t \in Thread |-> "idle"]
    /\ service = [t \in Caller |-> NoService]
    /\ found = [t \in Thread |-> {}]
    /\ listing = {}
    /\ left = [t \in Caller |-> {}]
    /\ result = [t \in Caller |-> {}]

Go(t, label) == pc' = [pc EXCEPT ![t] = label]

-----------------------------------------------------------------------------
(* sync.RWMutex                                                            *)

MayRead == writer = NoOne

(* A writer first keeps new readers out, then waits for those inside.      *)
Announce(t) ==
    /\ pc[t] = "lock"
    /\ writer = NoOne
    /\ writer' = t
    /\ Go(t, "write")
    /\ UNCHANGED <<readers, watchedServices, srvs, request, list, result>>

MayWrite(t) == pc[t] = "write" /\ writer = t /\ readers = {}

-----------------------------------------------------------------------------
(* GetServersWithDC                                                        *)

Ask(t) ==
    /\ pc[t] = "idle"
    /\ \E s \in Service : service' = [service EXCEPT ![t] = s]
    /\ Go(t, "look")
    /\ UNCHANGED <<lock, watchedServices, srvs, found, list, result>>

(* Under the read lock.                                                    *)
Look(t) ==
    /\ pc[t] = "look"
    /\ MayRead
    /\ found' = [found EXCEPT ![t] = srvs]
    /\ Go(t, IF service[t] \in watchedServices THEN "answer" ELSE "lock")
    /\ UNCHANGED <<lock, watchedServices, srvs, service, list, result>>

(* A new service is noted down, under the lock.                            *)
AddWatched(t) ==
    /\ MayWrite(t)
    /\ watchedServices' = watchedServices \cup {service[t]}
    /\ writer' = NoOne
    /\ Go(t, "answer")
    /\ UNCHANGED <<readers, srvs, request, list, result>>

(* The request is over; a listing goes on with its next service.           *)
Return(t, answers) ==
    /\ \/ /\ t \in listing
          /\ result' = [result EXCEPT ![t] = @ \cup answers]
          /\ Go(t, "next")
       \/ t \notin listing /\ Go(t, "idle") /\ UNCHANGED result
    /\ service' = [service EXCEPT ![t] = NoService]
    /\ found' = [found EXCEPT ![t] = {}]

(* A service that the recovered version lacks is an error, which a listing *)
(* skips.                                                                  *)
AnswerRecovered(t) ==
    /\ pc[t] = "answer"
    /\ found[t] # {}
    /\ Return(t, {<<s, "recover">> : s \in {service[t]} \cap found[t]})
    /\ UNCHANGED <<lock, watchedServices, srvs, list>>

AnswerLive(t) ==
    /\ pc[t] = "answer"
    /\ found[t] = {}
    /\ Return(t, {<<service[t], "live">>})
    /\ UNCHANGED <<lock, watchedServices, srvs, list>>

KeepOnError(t) == UNCHANGED readers
ReleaseOnError(t) == readers' = readers \ {t}

(* An error of the discovery ends a listing, too.                          *)
Fail(t) ==
    /\ pc[t] = "answer"
    /\ found[t] = {}
    /\ ReleaseOnError(t)
    /\ listing' = listing \ {t}
    /\ left' = [left EXCEPT ![t] = {}]
    /\ result' = [result EXCEPT ![t] = {}]
    /\ service' = [service EXCEPT ![t] = NoService]
    /\ Go(t, "idle")
    /\ UNCHANGED <<writer, watchedServices, srvs, found>>

-----------------------------------------------------------------------------
(* GetAllWatchedServices                                                   *)

AskAll(t) ==
    /\ pc[t] = "idle"
    /\ Go(t, "all")
    /\ UNCHANGED <<lock, watchedServices, srvs, request, list, result>>

HoldNothing(t) == UNCHANGED readers
Hold(t) == readers' = readers \cup {t}

(* The read lock is held until the end, while each service is asked for    *)
(* with GetServersWithDC, which takes it again.                            *)
StartListing(t) ==
    /\ pc[t] = "all"
    /\ MayRead
    /\ Hold(t)
    /\ listing' = listing \cup {t}
    /\ left' = [left EXCEPT ![t] = watchedServices]
    /\ Go(t, "next")
    /\ UNCHANGED <<writer, watchedServices, srvs, request, result>>

NextService(t) ==
    /\ pc[t] = "next"
    /\ \E s \in left[t] :
          /\ service' = [service EXCEPT ![t] = s]
          /\ left' = [left EXCEPT ![t] = @ \ {s}]
    /\ Go(t, "look")
    /\ UNCHANGED <<lock, watchedServices, srvs, found, listing, result>>

EndListing(t) ==
    /\ pc[t] = "next"
    /\ left[t] = {}
    /\ readers' = readers \ {t}
    /\ listing' = listing \ {t}
    /\ result' = [result EXCEPT ![t] = {}]
    /\ Go(t, "idle")
    /\ UNCHANGED <<writer, watchedServices, srvs, request, left>>

-----------------------------------------------------------------------------
(* SetRecover                                                              *)

StartRecover(t) ==
    /\ pc[t] = "idle"
    /\ \E s \in Versions : found' = [found EXCEPT ![t] = s]
    /\ Go(t, "lock")
    /\ UNCHANGED <<lock, watchedServices, srvs, service, list, result>>

SetRecover(t) ==
    /\ MayWrite(t)
    /\ srvs' = found[t]
    /\ found' = [found EXCEPT ![t] = {}]
    /\ writer' = NoOne
    /\ Go(t, "idle")
    /\ UNCHANGED <<readers, watchedServices, service, list, result>>

-----------------------------------------------------------------------------

Call(t) ==
    \/ Look(t) \/ Announce(t) \/ AddWatched(t) \/ AnswerRecovered(t) \/ AnswerLive(t)
    \/ Fail(t) \/ StartListing(t) \/ NextService(t) \/ EndListing(t)

Next ==
    \/ \E t \in Caller : Ask(t) \/ AskAll(t) \/ Call(t)
    \/ \E t \in Operator : StartRecover(t) \/ Announce(t) \/ SetRecover(t)

Spec == Init /\ [][Next]_vars

(* Goroutines run, and the lock is fair: a reader that waits gets in after *)
(* the writer it waits for, a writer after those before it.                *)
Fairness ==
    /\ \A t \in Caller : /\ WF_vars(Call(t)) /\ SF_vars(Look(t))
                         /\ SF_vars(StartListing(t)) /\ SF_vars(Announce(t))
    /\ \A t \in Operator : SF_vars(Announce(t)) /\ WF_vars(SetRecover(t))

FairSpec == Spec /\ Fairness

-----------------------------------------------------------------------------
(* Properties                                                              *)

(* Every variable holds what the Go variable it stands for can hold.       *)
TypeOK ==
    /\ readers \subseteq Caller
    /\ writer \in Thread \cup {NoOne}
    /\ watchedServices \subseteq Service
    /\ srvs \subseteq Service
    /\ pc \in [Thread -> {"idle", "look", "lock", "write", "answer", "all", "next"}]
    /\ service \in [Caller -> Service \cup {NoService}]
    /\ found \in [Thread -> SUBSET Service]
    /\ listing \subseteq Caller
    /\ left \in [Caller -> SUBSET Service]
    /\ result \in [Caller -> SUBSET (Service \X {"recover", "live"})]

(* What the services asked for so far are answered with at this moment.    *)
Snapshot ==
    IF srvs = {} THEN watchedServices \X {"live"}
    ELSE (watchedServices \cap srvs) \X {"recover"}

(* A listing is atomic: it gives the answers of one moment, all live or all*)
(* recovered, for every service asked for, though requests and SetRecover  *)
(* run meanwhile (GetAllWatchedServices' outer read lock).                 *)
ListingIsAtomic ==
    \A t \in listing : pc[t] = "next" /\ left[t] = {} => result[t] = Snapshot

(* A listing waits for a writer that waits for it.                         *)
RecursiveWait == \E t \in readers : pc[t] = "look" /\ writer # NoOne

(* That is the only thing that may keep a call from returning.             *)
HangsOnlyOnRecursion ==
    \A t \in Thread : pc[t] # "idle" ~> (pc[t] = "idle" \/ RecursiveWait)

(* README.md:57, GetServers is "called for every request, safe under       *)
(* concurrency": whatever runs besides, a call returns.  It need not: with *)
(* a listing inside and a writer outside nobody gets the lock ever again.  *)
EveryCallReturns == \A t \in Thread : pc[t] # "idle" ~> pc[t] = "idle"

=============================================================================
