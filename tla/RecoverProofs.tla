---------------------------- MODULE RecoverProofs ----------------------------
(***************************************************************************)
(* Theorems about Recover, for every set of services, callers and          *)
(* operators, and whatever versions are recovered.                         *)
(***************************************************************************)
EXTENDS Recover, TLAPS

-----------------------------------------------------------------------------
(* Types                                                                   *)

Labels == {"idle", "look", "lock", "write", "answer", "all", "next"}

(* Every variable but result.                                              *)
PlainTypes ==
    /\ readers \subseteq Caller
    /\ writer \in Thread \cup {NoOne}
    /\ watchedServices \subseteq Service
    /\ srvs \subseteq Service
    /\ pc \in [Thread -> Labels]
    /\ service \in [Caller -> Service \cup {NoService}]
    /\ found \in [Thread -> SUBSET Service]
    /\ listing \subseteq Caller
    /\ left \in [Caller -> SUBSET Service]

ResultType == result \in [Caller -> SUBSET (Service \X {"recover", "live"})]

LEMMA TypeOKParts == TypeOK <=> PlainTypes /\ ResultType
BY DEF TypeOK, PlainTypes, ResultType, Labels

(* A service is being asked for from the moment a request is made until its*)
(* answer is in.                                                           *)
Asking ==
    \A t \in Caller : pc[t] \in {"look", "lock", "write", "answer"} <=> service[t] # NoService

LEMMA Threads ==
    /\ \A t \in Caller : t \in Thread /\ t \notin Operator
    /\ \A t \in Operator : t \in Thread /\ t \notin Caller
BY RecoverAssumption DEF RecoverAssumption, Thread

LEMMA InitType == Init => TypeOK /\ Asking
<1> SUFFICES ASSUME Init PROVE TypeOK /\ Asking
  OBVIOUS
<1>1. pc \in [Thread -> Labels] /\ Asking
  BY Threads DEF Init, Labels, Asking
<1>2. PlainTypes /\ ResultType
  BY <1>1 DEF Init, PlainTypes, ResultType
<1> QED BY <1>1, <1>2, TypeOKParts

(* The steps of a request.                                                 *)
LEMMA RequestType ==
    ASSUME PlainTypes, Asking, NEW t \in Caller,
           Ask(t) \/ Look(t) \/ Announce(t) \/ AddWatched(t)
    PROVE  PlainTypes' /\ Asking' /\ UNCHANGED result
<1>1. t \in Thread /\ \A u \in Caller : u \in Thread
  BY Threads
<1>2. PICK label \in Labels : Go(t, label)
  BY DEF Ask, Look, Announce, AddWatched, Labels
<1>3. pc' \in [Thread -> Labels]
  BY <1>2 DEF PlainTypes, Go
<1>4. CASE Ask(t)
  <2>1. PICK s \in Service : service' = [service EXCEPT ![t] = s]
    BY <1>4 DEF Ask
  <2>2. Asking'
    BY <1>1, <1>4, <2>1, RecoverAssumption DEF RecoverAssumption, Ask, Go, Asking, PlainTypes
  <2> QED BY <1>3, <1>4, <2>1, <2>2 DEF Ask, lock, list, PlainTypes
<1>5. CASE Look(t)
  <2>1. Asking'
    BY <1>1, <1>5 DEF Look, Go, Asking, PlainTypes
  <2> QED BY <1>1, <1>3, <1>5, <2>1 DEF Look, lock, list, PlainTypes
<1>6. CASE Announce(t)
  <2>1. Asking'
    BY <1>1, <1>6 DEF Announce, Go, Asking, PlainTypes, request
  <2> QED BY <1>1, <1>3, <1>6, <2>1 DEF Announce, request, list, PlainTypes
<1>7. CASE AddWatched(t)
  <2>1. service[t] \in Service
    BY <1>7 DEF AddWatched, MayWrite, Asking, PlainTypes
  <2>2. Asking'
    BY <1>1, <1>7 DEF AddWatched, MayWrite, Go, Asking, PlainTypes, request
  <2> QED BY <1>3, <1>7, <2>1, <2>2 DEF AddWatched, request, list, PlainTypes
<1> QED BY <1>4, <1>5, <1>6, <1>7

LEMMA AnswerType ==
    ASSUME PlainTypes, Asking, ResultType, NEW t \in Caller,
           AnswerRecovered(t) \/ AnswerLive(t)
    PROVE  PlainTypes' /\ Asking' /\ ResultType'
<1>1. t \in Thread /\ \A u \in Caller : u \in Thread
  BY Threads
<1>2. PICK answers \in SUBSET (Service \X {"recover", "live"}) : Return(t, answers)
  <2>1. CASE AnswerRecovered(t)
    <3>1. {<<s, "recover">> : s \in {service[t]} \cap found[t]}
             \in SUBSET (Service \X {"recover", "live"})
      BY <1>1 DEF PlainTypes
    <3> QED BY <2>1, <3>1 DEF AnswerRecovered
  <2>2. CASE AnswerLive(t)
    <3>1. service[t] \in Service
      BY <2>2 DEF AnswerLive, Asking, PlainTypes
    <3>2. {<<service[t], "live">>} \in SUBSET (Service \X {"recover", "live"})
      BY <3>1
    <3> QED BY <2>2, <3>2 DEF AnswerLive
  <2> QED BY <2>1, <2>2
<1>3. Go(t, "next") \/ Go(t, "idle")
  BY <1>2 DEF Return
<1>4. pc' \in [Thread -> Labels] /\ Asking'
  BY <1>1, <1>2, <1>3 DEF Return, Go, Asking, PlainTypes, Labels
<1>5. ResultType'
  BY <1>2 DEF Return, ResultType
<1>6. PlainTypes'
  BY <1>1, <1>2, <1>4 DEF AnswerRecovered, AnswerLive, Return, lock, list, PlainTypes
<1> QED BY <1>4, <1>5, <1>6

LEMMA ListingType ==
    ASSUME PlainTypes, Asking, ResultType, NEW t \in Caller,
           AskAll(t) \/ StartListing(t) \/ NextService(t) \/ EndListing(t) \/ Fail(t)
    PROVE  PlainTypes' /\ Asking' /\ ResultType'
<1>1. t \in Thread /\ \A u \in Caller : u \in Thread
  BY Threads
<1>2. PICK label \in Labels : Go(t, label)
  BY DEF AskAll, StartListing, NextService, EndListing, Fail, Labels
<1>3. pc' \in [Thread -> Labels]
  BY <1>2 DEF PlainTypes, Go
<1>4. ResultType'
  BY DEF AskAll, StartListing, NextService, EndListing, Fail, list, ResultType
<1>5. CASE AskAll(t) \/ StartListing(t)
  <2>1. Asking'
    BY <1>1, <1>5 DEF AskAll, StartListing, Go, Asking, PlainTypes, request
  <2> QED BY <1>3, <1>4, <1>5, <2>1
          DEF AskAll, StartListing, Hold, lock, list, request, PlainTypes
<1>6. CASE NextService(t)
  <2>1. PICK s \in left[t] : /\ service' = [service EXCEPT ![t] = s]
                            /\ left' = [left EXCEPT ![t] = @ \ {s}]
    BY <1>6 DEF NextService
  <2>2. s \in Service
    BY DEF PlainTypes
  <2>3. Asking'
    BY <1>1, <1>6, <2>1, <2>2, RecoverAssumption
       DEF RecoverAssumption, NextService, Go, Asking, PlainTypes
  <2> QED BY <1>3, <1>4, <1>6, <2>1, <2>2, <2>3 DEF NextService, lock, PlainTypes
<1>7. CASE EndListing(t) \/ Fail(t)
  <2>1. Asking'
    BY <1>1, <1>7 DEF EndListing, Fail, Go, Asking, PlainTypes, request
  <2> QED BY <1>3, <1>4, <1>7, <2>1
          DEF EndListing, Fail, ReleaseOnError, request, PlainTypes
<1> QED BY <1>5, <1>6, <1>7

LEMMA OperatorType ==
    ASSUME PlainTypes, Asking, NEW t \in Operator,
           StartRecover(t) \/ Announce(t) \/ SetRecover(t)
    PROVE  PlainTypes' /\ Asking' /\ UNCHANGED result
<1>1. t \in Thread /\ t \notin Caller /\ \A u \in Caller : u \in Thread
  BY Threads
<1>2. PICK label \in Labels : Go(t, label)
  BY DEF StartRecover, Announce, SetRecover, Labels
<1>3. pc' \in [Thread -> Labels]
  BY <1>2 DEF PlainTypes, Go
<1>4. Asking'
  BY <1>1, <1>2
     DEF StartRecover, Announce, SetRecover, Go, Asking, PlainTypes, request
<1>5. CASE StartRecover(t)
  <2>1. PICK s \in Versions : found' = [found EXCEPT ![t] = s]
    BY <1>5 DEF StartRecover
  <2>2. s \subseteq Service
    BY RecoverAssumption DEF RecoverAssumption
  <2> QED BY <1>3, <1>4, <1>5, <2>1, <2>2 DEF StartRecover, lock, list, PlainTypes
<1>6. CASE Announce(t)
  BY <1>1, <1>3, <1>4, <1>6 DEF Announce, request, list, PlainTypes
<1>7. CASE SetRecover(t)
  BY <1>1, <1>3, <1>4, <1>7 DEF SetRecover, list, PlainTypes
<1> QED BY <1>5, <1>6, <1>7

LEMMA NextType == TypeOK /\ Asking /\ [Next]_vars => TypeOK' /\ Asking'
<1> SUFFICES ASSUME TypeOK, Asking, [Next]_vars PROVE TypeOK' /\ Asking'
  OBVIOUS
<1>1. PlainTypes /\ ResultType
  BY TypeOKParts
<1>2. PlainTypes' /\ ResultType' => TypeOK'
  BY DEF TypeOK, PlainTypes, ResultType, Labels
<1>3. UNCHANGED result => ResultType'
  BY <1>1 DEF ResultType
<1>4. ASSUME NEW t \in Caller, Ask(t) \/ AskAll(t) \/ Call(t) PROVE TypeOK' /\ Asking'
  BY <1>1, <1>2, <1>3, <1>4, RequestType, AnswerType, ListingType DEF Call
<1>5. ASSUME NEW t \in Operator, StartRecover(t) \/ Announce(t) \/ SetRecover(t)
      PROVE  TypeOK' /\ Asking'
  BY <1>1, <1>2, <1>3, <1>5, OperatorType
<1>6. CASE UNCHANGED vars
  BY <1>1, <1>2, <1>3, <1>6 DEF vars, lock, request, list, PlainTypes, Asking
<1> QED BY <1>4, <1>5, <1>6 DEF Next

(* Every variable holds what the Go variable it stands for can hold.       *)
THEOREM RecoverTypes == Spec => [](TypeOK /\ Asking)
BY InitType, NextType, PTL DEF Spec

-----------------------------------------------------------------------------
(* Listings                                                                *)

(* What some services are answered with at this moment.                    *)
Answers(services) ==
    IF srvs = {} THEN services \X {"live"} ELSE (services \cap srvs) \X {"recover"}

(* A listing holds the read lock from its start to its end, so nobody gets *)
(* the lock for writing meanwhile.                                         *)
ListingsHold ==
    /\ readers = listing
    /\ \A t \in listing : pc[t] \in {"next", "look", "answer"}
    /\ \A t \in Caller : pc[t] = "next" => t \in listing
    /\ \A t \in Caller \ listing : result[t] = {}

(* It has the answers for the services it is done with.                    *)
Collected(t) ==
    /\ left[t] \subseteq watchedServices
    /\ pc[t] # "next" => service[t] \in watchedServices \ left[t]
    /\ pc[t] = "answer" => found[t] = srvs
    /\ result[t] = Answers((watchedServices \ left[t]) \ {service[t]})

Listings == ListingsHold /\ \A t \in listing : Collected(t)

LEMMA AnswersAdd ==
    ASSUME NEW services, NEW s
    PROVE  Answers(services \cup {s}) = Answers(services) \cup Answers({s})
BY DEF Answers

LEMMA InitListings == Init => Listings
BY Threads DEF Init, Listings, ListingsHold

(* A step of a goroutine that no listing of another one notices.           *)
LEMMA OthersFrame ==
    ASSUME Listings, NEW t,
           UNCHANGED <<watchedServices, srvs>>, readers' = listing',
           \A c \in Caller \ {t} :
              /\ c \in listing' <=> c \in listing
              /\ pc'[c] = pc[c] /\ service'[c] = service[c] /\ found'[c] = found[c]
              /\ left'[c] = left[c] /\ result'[c] = result[c],
           listing' \subseteq Caller, listing \subseteq Caller,
           t \in listing' => pc'[t] \in {"next", "look", "answer"} /\ Collected(t)',
           t \in Caller /\ pc'[t] = "next" => t \in listing',
           t \in Caller \ listing' => result'[t] = {}
    PROVE  Listings'
<1>1. ListingsHold'
  BY DEF Listings, ListingsHold
<1>2. ASSUME NEW c \in listing', c # t PROVE Collected(c)'
  <2>1. c \in listing /\ c \in Caller
    BY <1>2
  <2>2. Collected(c)
    BY <2>1 DEF Listings
  <2> QED BY <1>2, <2>1, <2>2 DEF Collected, Answers
<1> QED BY <1>1, <1>2 DEF Listings

(* A step of a goroutine that is not in a listing.                         *)
LEMMA OutsideFrame ==
    ASSUME TypeOK, Listings, NEW t \in Thread \ listing,
           UNCHANGED <<watchedServices, srvs, readers, list, result>>,
           \E label \in Labels \ {"next"} : Go(t, label),
           \A c \in Caller \ {t} : service'[c] = service[c] /\ found'[c] = found[c]
    PROVE  Listings'
<1>1. \A c \in Caller \ {t} : pc'[c] = pc[c]
  BY Threads DEF Go, TypeOK
<1>2. pc'[t] # "next"
  BY DEF Go, TypeOK
<1>3. readers = listing /\ listing \subseteq Caller
  BY DEF Listings, ListingsHold, TypeOK
<1> QED BY <1>1, <1>2, <1>3, OthersFrame DEF list, Listings, ListingsHold

(* A request that is not part of a listing, and an operator's call.        *)
LEMMA OutsideStep ==
    ASSUME TypeOK, Listings, NEW t \in Thread \ listing,
           \/ Ask(t) \/ Look(t) \/ AskAll(t) \/ Announce(t) \/ StartRecover(t)
           \/ (AnswerRecovered(t) \/ AnswerLive(t)) /\ t \in Caller
    PROVE  Listings'
<1>1. \E label \in Labels \ {"next"} : Go(t, label)
  BY DEF Ask, Look, AskAll, Announce, StartRecover, AnswerRecovered, AnswerLive, Return,
         Labels
<1>2. UNCHANGED <<watchedServices, srvs, readers, list, result>>
  BY DEF Ask, Look, AskAll, Announce, StartRecover, AnswerRecovered, AnswerLive, Return,
         lock, list
<1>3. \A c \in Caller \ {t} : service'[c] = service[c] /\ found'[c] = found[c]
  BY Threads
     DEF Ask, Look, AskAll, Announce, StartRecover, AnswerRecovered, AnswerLive, Return,
         request, TypeOK
<1> QED BY <1>1, <1>2, <1>3, OutsideFrame

(* Whoever writes does so while there is no listing.                       *)
LEMMA WriteStep ==
    ASSUME TypeOK, Listings, NEW t \in Thread,
           AddWatched(t) \/ SetRecover(t)
    PROVE  Listings'
<1>1. readers = {} /\ listing = {}
  BY DEF AddWatched, SetRecover, MayWrite, Listings, ListingsHold
<1>2. UNCHANGED <<readers, list, result>>
  BY DEF AddWatched, SetRecover
<1>3. \E label \in Labels \ {"next"} : Go(t, label)
  BY DEF AddWatched, SetRecover, Labels
<1>4. \A c \in Caller : pc'[c] = "next" => pc[c] = "next"
  BY <1>3, Threads DEF Go, TypeOK
<1> QED BY <1>1, <1>2, <1>4 DEF list, Listings, ListingsHold

(* What a step of one goroutine leaves of the others' locals.              *)
LEMMA CallGoes ==
    ASSUME TypeOK, NEW t \in Caller,
           \/ Look(t) \/ AnswerRecovered(t) \/ AnswerLive(t) \/ Fail(t)
           \/ StartListing(t) \/ NextService(t) \/ EndListing(t)
    PROVE  /\ UNCHANGED <<watchedServices, srvs>>
           /\ \A c \in Caller \ {t} :
                 /\ c \in listing' <=> c \in listing
                 /\ pc'[c] = pc[c] /\ service'[c] = service[c] /\ found'[c] = found[c]
                 /\ left'[c] = left[c] /\ result'[c] = result[c]
           /\ listing' \subseteq Caller
<1>1. UNCHANGED <<watchedServices, srvs>>
  BY DEF Look, AnswerRecovered, AnswerLive, Fail, StartListing, NextService, EndListing
<1>2. \E label : Go(t, label)
  BY DEF Look, AnswerRecovered, AnswerLive, Fail, StartListing, NextService, EndListing,
         Return
<1>3. \A c \in Caller \ {t} : pc'[c] = pc[c]
  BY <1>2, Threads DEF Go, TypeOK
<1>4. CASE Look(t) \/ AnswerRecovered(t) \/ AnswerLive(t)
  BY <1>1, <1>3, <1>4, Threads DEF Look, AnswerRecovered, AnswerLive, Return, list, TypeOK
<1>5. CASE Fail(t) \/ StartListing(t) \/ EndListing(t)
  BY <1>1, <1>3, <1>5 DEF Fail, StartListing, EndListing, request, TypeOK
<1>6. CASE NextService(t)
  BY <1>1, <1>3, <1>6 DEF NextService, TypeOK
<1> QED BY <1>4, <1>5, <1>6

(* Readers come and go with listings.                                      *)
LEMMA ReadersAreListings ==
    ASSUME Listings, NEW t \in Caller,
           \/ Look(t) \/ AnswerRecovered(t) \/ AnswerLive(t) \/ Fail(t)
           \/ StartListing(t) \/ NextService(t) \/ EndListing(t)
    PROVE  readers' = listing'
BY DEF Look, AnswerRecovered, AnswerLive, Fail, ReleaseOnError, StartListing, Hold,
       NextService, EndListing, lock, list, Listings, ListingsHold

LEMMA StartStep ==
    ASSUME TypeOK, Asking, Listings, NEW t \in Caller, StartListing(t)
    PROVE  Listings'
<1>1. t \in Thread
  BY Threads
<1>2. pc[t] = "all" /\ t \notin listing /\ result[t] = {}
  BY DEF StartListing, Listings, ListingsHold
<1>3. /\ pc'[t] = "next" /\ t \in listing' /\ left'[t] = watchedServices
      /\ result'[t] = {}
  BY <1>1, <1>2 DEF StartListing, Go, TypeOK
<1>4. service'[t] = NoService
  BY <1>2 DEF StartListing, Asking, request
<1>5. Collected(t)'
  BY <1>3, <1>4, CallGoes DEF Collected, Answers
<1> QED BY <1>3, <1>5, CallGoes, ReadersAreListings, OthersFrame DEF TypeOK

(* Within a listing a service is looked up under the lock already held: it *)
(* is known, so the request never waits for the lock to write.             *)
LEMMA LookInListing ==
    ASSUME TypeOK, Listings, NEW t \in listing, Look(t)
    PROVE  Listings'
<1>1. t \in Caller /\ t \in Thread /\ pc[t] = "look"
  BY Threads DEF TypeOK, Look
<1>2. Collected(t)
  BY DEF Listings
<1>3. pc'[t] = "answer" /\ found'[t] = srvs
  BY <1>1, <1>2 DEF Look, Go, Collected, TypeOK
<1>4. t \in listing' /\ UNCHANGED <<watchedServices, srvs, service, left, result>>
  BY DEF Look, list
<1>5. Collected(t)'
  BY <1>1, <1>2, <1>3, <1>4 DEF Collected, Answers
<1> QED BY <1>1, <1>3, <1>4, <1>5, CallGoes, ReadersAreListings, OthersFrame DEF TypeOK

LEMMA AnswerInListing ==
    ASSUME TypeOK, Listings, NEW t \in listing, AnswerRecovered(t) \/ AnswerLive(t)
    PROVE  Listings'
<1>1. t \in Caller /\ t \in Thread /\ pc[t] = "answer"
  BY Threads DEF TypeOK, AnswerRecovered, AnswerLive
<1>2. Collected(t)
  BY DEF Listings
<1>3. service[t] \in watchedServices \ left[t] /\ found[t] = srvs
  BY <1>1, <1>2 DEF Collected
<1>4. Return(t, Answers({service[t]}))
  <2>1. CASE AnswerRecovered(t)
    <3>1. srvs # {} /\ Return(t, {<<s, "recover">> : s \in {service[t]} \cap srvs})
      BY <1>3, <2>1 DEF AnswerRecovered
    <3>2. {<<s, "recover">> : s \in {service[t]} \cap srvs}
             = ({service[t]} \cap srvs) \X {"recover"}
      OBVIOUS
    <3> QED BY <3>1, <3>2 DEF Answers
  <2>2. CASE AnswerLive(t)
    <3>1. srvs = {} /\ Return(t, {<<service[t], "live">>})
      BY <1>3, <2>2 DEF AnswerLive
    <3>2. {<<service[t], "live">>} = {service[t]} \X {"live"}
      OBVIOUS
    <3> QED BY <3>1, <3>2 DEF Answers
  <2> QED BY <2>1, <2>2
<1>5. /\ pc'[t] = "next" /\ service'[t] = NoService
      /\ result'[t] = result[t] \cup Answers({service[t]})
  BY <1>1, <1>4 DEF Return, Go, TypeOK
<1>6. t \in listing' /\ UNCHANGED <<watchedServices, srvs, left>>
  BY DEF AnswerRecovered, AnswerLive, list
<1>7. (watchedServices \ left[t]) \ {NoService}
         = ((watchedServices \ left[t]) \ {service[t]}) \cup {service[t]}
  BY <1>3, RecoverAssumption DEF RecoverAssumption, TypeOK
<1>8. result'[t] = Answers((watchedServices \ left[t]) \ {NoService})
  <2> DEFINE before == (watchedServices \ left[t]) \ {service[t]}
  <2>1. result[t] = Answers(before)
    BY <1>2 DEF Collected
  <2>2. Answers(before \cup {service[t]}) = Answers(before) \cup Answers({service[t]})
    BY AnswersAdd
  <2> HIDE DEF before
  <2>3. result'[t] = Answers(before \cup {service[t]})
    BY <1>5, <2>1, <2>2
  <2> QED BY <1>7, <2>3 DEF before
<1>9. Collected(t)'
  BY <1>2, <1>5, <1>6, <1>8 DEF Collected, Answers
<1> QED BY <1>1, <1>5, <1>6, <1>9, CallGoes, ReadersAreListings, OthersFrame DEF TypeOK

LEMMA NextServiceStep ==
    ASSUME TypeOK, Asking, Listings, NEW t \in Caller, NextService(t)
    PROVE  Listings'
<1>1. t \in Thread /\ pc[t] = "next" /\ t \in listing
  BY Threads DEF NextService, Listings, ListingsHold
<1>2. Collected(t) /\ service[t] = NoService
  BY <1>1 DEF Listings, Asking
<1>3. PICK s \in left[t] : /\ service' = [service EXCEPT ![t] = s]
                          /\ left' = [left EXCEPT ![t] = @ \ {s}]
  BY DEF NextService
<1>4. service'[t] = s /\ left'[t] = left[t] \ {s} /\ pc'[t] = "look"
  BY <1>1, <1>3 DEF NextService, Go, TypeOK
<1>5. t \in listing' /\ UNCHANGED <<watchedServices, srvs, result>>
  BY <1>1 DEF NextService
<1>6. (watchedServices \ left'[t]) \ {s} = (watchedServices \ left[t]) \ {NoService}
  <2>1. s \in left[t] /\ NoService \notin watchedServices
    BY RecoverAssumption DEF RecoverAssumption, TypeOK
  <2> QED BY <1>4, <2>1
<1>7. result'[t] = Answers((watchedServices \ left'[t]) \ {s})
  BY <1>2, <1>5, <1>6 DEF Collected
<1>8. Collected(t)'
  BY <1>2, <1>4, <1>5, <1>7 DEF Collected, Answers
<1> QED BY <1>1, <1>4, <1>5, <1>8, CallGoes, ReadersAreListings, OthersFrame DEF TypeOK

LEMMA LeaveStep ==
    ASSUME TypeOK, Listings, NEW t \in Caller, EndListing(t) \/ Fail(t)
    PROVE  Listings'
<1>1. t \in Thread
  BY Threads
<1>2. t \notin listing' /\ pc'[t] = "idle" /\ result'[t] = {}
  BY <1>1 DEF EndListing, Fail, Go, TypeOK
<1> QED BY <1>2, CallGoes, ReadersAreListings, OthersFrame DEF TypeOK

LEMMA NextListings == TypeOK /\ Asking /\ Listings /\ [Next]_vars => Listings'
<1> SUFFICES ASSUME TypeOK, Asking, Listings, [Next]_vars PROVE Listings'
  OBVIOUS
<1>1. ASSUME NEW t \in Caller, t \in listing,
             Ask(t) \/ AskAll(t) \/ Announce(t) \/ AddWatched(t)
      PROVE  FALSE
  BY <1>1 DEF Ask, AskAll, Announce, AddWatched, MayWrite, Listings, ListingsHold
<1>2. ASSUME NEW t \in Caller, Ask(t) \/ AskAll(t) \/ Call(t) PROVE Listings'
  <2>1. t \in Thread
    BY Threads
  <2>2. CASE t \in listing
    BY <1>1, <1>2, <2>2, LookInListing, AnswerInListing, StartStep, NextServiceStep, LeaveStep
       DEF Call
  <2>3. CASE t \notin listing
    BY <1>2, <2>1, <2>3, OutsideStep, WriteStep, StartStep, NextServiceStep, LeaveStep
       DEF Call
  <2> QED BY <2>2, <2>3
<1>3. ASSUME NEW t \in Operator, StartRecover(t) \/ Announce(t) \/ SetRecover(t)
      PROVE  Listings'
  <2>1. t \in Thread \ listing
    BY Threads DEF TypeOK
  <2> QED BY <1>3, <2>1, OutsideStep, WriteStep
<1>4. CASE UNCHANGED vars
  <2>1. UNCHANGED <<watchedServices, srvs, listing, readers, pc, service, found, left, result>>
    BY <1>4 DEF vars, lock, request, list
  <2> QED BY <2>1 DEF Listings, ListingsHold, Collected, Answers
<1> QED BY <1>2, <1>3, <1>4 DEF Next

(* The strengthening: a listing keeps writers out, and has the answers of  *)
(* this moment for what it has asked for so far.                           *)
THEOREM ListingInvariant == Spec => []Listings
BY InitListings, NextListings, RecoverTypes, PTL DEF Spec

(* A listing gives the answers of one moment for every service asked for   *)
(* (GetAllWatchedServices' outer read lock).                               *)
THEOREM ListingsAreAtomic == Spec => []ListingIsAtomic
<1>1. TypeOK /\ Asking /\ Listings => ListingIsAtomic
  <2> SUFFICES ASSUME TypeOK, Asking, Listings, NEW t \in listing, pc[t] = "next", left[t] = {}
               PROVE  result[t] = Snapshot
    BY DEF ListingIsAtomic
  <2>1. Collected(t) /\ service[t] = NoService
    BY DEF Listings, Asking, TypeOK
  <2>2. (watchedServices \ left[t]) \ {service[t]} = watchedServices
    BY <2>1, RecoverAssumption DEF RecoverAssumption, TypeOK
  <2> QED BY <2>1, <2>2 DEF Collected, Answers, Snapshot
<1> QED BY <1>1, ListingInvariant, RecoverTypes, PTL

=============================================================================
