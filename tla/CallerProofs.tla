---------------------------- MODULE CallerProofs ----------------------------
(***************************************************************************)
(* Theorems about what callers get: the cache of Lookup with the history   *)
(* variable of Caching, for every set of requests and of lists,            *)
(* and the events of Subscriber with the balancer that is kept by them,    *)
(* for every set of nodes and weights.                                     *)
(***************************************************************************)
EXTENDS Caching, Subscriber, SequenceTheorems, FiniteSetTheorems,
        WellFoundedInduction, TLAPS

-----------------------------------------------------------------------------
(* Types                                                                   *)

Labels == {"idle", "create", "servers", "discovery", "compare", "update"}

LEMMA NoListType == NoList \in ServedLists /\ NoList \in Lists
BY ServedAssumption DEF ServedAssumption, NoList, List, ServedLists, Lists

LEMMA ServedListType ==
    ASSUME NEW w \in {0, 1}, NEW v \in Version, NEW s \in Services,
           NEW m \in {"unset", "init", "selfProtection", "panic"}
    PROVE  List(w, v, m, s) \in ServedLists
BY DEF List, ServedLists

LEMMA ServedInitType == ServedInit => ServedTypeOK
<1> SUFFICES ASSUME ServedInit PROVE ServedTypeOK
  OBVIOUS
<1>1. applyList \in ServedLists
  BY NoListType, ServedListType, ServedAssumption DEF ServedInit, ServedAssumption
<1> QED BY <1>1, NoListType DEF ServedInit, ServedTypeOK

(* Whatever the degrade object does, it serves and keeps lists.            *)
LEMMA ServedNextType == ServedTypeOK /\ [ServedNext]_servedVars => ServedTypeOK'
<1> SUFFICES ASSUME ServedTypeOK, [ServedNext]_servedVars PROVE ServedTypeOK'
  OBVIOUS
<1> USE DEF ServedTypeOK
<1>1. CASE Deliver
  <2>1. latestAdapterList' \in ServedLists
    BY <1>1, ServedListType DEF Deliver
  <2> QED BY <1>1, <2>1 DEF Deliver
<1>2. CASE Adopt \/ Protect \/ Recover
  BY <1>2 DEF Adopt, Protect, Recover
<1>3. CASE ServeHealthy
  <2>1. PICK v \in Version, s \in Services :
            applyList' = List(applyList.watchVersion, v, "selfProtection", s)
    BY <1>3 DEF ServeHealthy
  <2>2. applyList.watchVersion \in {0, 1}
    BY DEF ServedLists
  <2>3. applyList' \in ServedLists
    BY <2>1, <2>2, ServedListType
  <2> QED BY <1>3, <2>3 DEF ServeHealthy
<1>4. CASE Panic
  <2>1. applyList' \in ServedLists
    BY <1>4 DEF Panic, ServedLists
  <2> QED BY <1>4, <2>1 DEF Panic
<1>5. CASE UNCHANGED servedVars
  BY <1>5 DEF servedVars
<1> QED BY <1>1, <1>2, <1>3, <1>4, <1>5 DEF ServedNext

LEMMA InitType == Init => TypeOK
<1> SUFFICES ASSUME Init PROVE TypeOK
  OBVIOUS
<1>1. ServedTypeOK
  BY ServedInitType DEF Init
<1>2. key \in {Key(l) : l \in Lists} /\ value \in Lists
  BY NoListType DEF Init
<1>3. recoveries \in 0..MaxRecoveries
  BY LookupAssumption DEF Init, LookupAssumption
<1>4. pc \in [Caller -> Labels]
  BY DEF Init, Labels
<1>5. list \in [Caller -> Lists]
  BY NoListType DEF Init
<1> QED BY <1>1, <1>2, <1>3, <1>4, <1>5 DEF Init, TypeOK, Labels

LEMMA RequestType ==
    ASSUME TypeOK, NEW c \in Caller, Lookup(c) \/ WatchFails(c) \/ UpdateFails(c)
    PROVE  TypeOK'
<1> USE DEF check, wrapper, requests, servedVars, ServedTypeOK
<1>1. pc' \in [Caller -> Labels]
  BY DEF TypeOK, Labels, Go, Return, Lookup, WatchFails, UpdateFails, FindCheck, CreateCheck,
         ReadRecovery, ReadServed, Compare, AlreadyUpdated, UpdateNow, UpdateLater
<1>2. Return(c) => list' \in [Caller -> Lists]
  BY NoListType DEF Return, TypeOK
<1>3. CASE FindCheck(c)
  BY <1>1, <1>3 DEF FindCheck, TypeOK, Labels
<1>4. CASE CreateCheck(c)
  BY <1>1, <1>4, NoListType DEF CreateCheck, TypeOK, Labels
<1>5. CASE ReadRecovery(c)
  <2>1. list' \in [Caller -> Lists]
    BY <1>2, <1>5 DEF ReadRecovery, TypeOK, Lists
  <2> QED BY <1>1, <1>5, <2>1 DEF ReadRecovery, TypeOK, Labels
<1>6. CASE ReadServed(c)
  <2>1. list' \in [Caller -> Lists]
    BY <1>6 DEF ReadServed, TypeOK, Lists
  <2> QED BY <1>1, <1>6, <2>1 DEF ReadServed, TypeOK, Labels
<1>7. value \in Lists /\ list[c] \in Lists
  BY DEF TypeOK
<1>8. CASE Compare(c) \/ AlreadyUpdated(c) \/ WatchFails(c) \/ UpdateFails(c)
  <2>1. list' \in [Caller -> Lists]
    BY <1>2, <1>8 DEF Compare, AlreadyUpdated, WatchFails, UpdateFails, TypeOK
  <2> QED BY <1>1, <1>8, <2>1
          DEF Compare, AlreadyUpdated, WatchFails, UpdateFails, TypeOK, Labels
<1>9. CASE UpdateNow(c)
  <2>1. key' \in {Key(l) : l \in Lists} /\ value' \in Lists
    BY <1>7, <1>9 DEF UpdateNow, Store
  <2>2. list' \in [Caller -> Lists]
    BY <1>2, <1>9 DEF UpdateNow
  <2> QED BY <1>1, <1>9, <2>1, <2>2 DEF UpdateNow, TypeOK, Labels
<1>10. CASE UpdateLater(c)
  <2>1. building' \in Lists \cup {NoBuild} /\ isUpdate' \in BOOLEAN
    BY <1>7, <1>10 DEF UpdateLater, TypeOK
  <2>2. list' \in [Caller -> Lists]
    BY <1>2, <1>10 DEF UpdateLater
  <2> QED BY <1>1, <1>10, <2>1, <2>2 DEF UpdateLater, TypeOK, Labels
<1> QED BY <1>3, <1>4, <1>5, <1>6, <1>8, <1>9, <1>10 DEF Lookup

LEMMA NextType == TypeOK /\ [Next]_lookupVars => TypeOK'
<1> SUFFICES ASSUME TypeOK, [Next]_lookupVars PROVE TypeOK'
  OBVIOUS
<1> USE DEF check, wrapper, requests
<1>1. CASE Discover
  <2>1. ServedTypeOK'
    BY <1>1, ServedNextType DEF Discover, TypeOK
  <2> QED BY <1>1, <2>1 DEF Discover, TypeOK
<1>2. CASE SetRecover
  <2>1. recoveries' \in 0..MaxRecoveries
    <3>1. recoveries \in 0..MaxRecoveries /\ MaxRecoveries \in Nat
      BY LookupAssumption DEF TypeOK, LookupAssumption
    <3> QED BY <1>2, <3>1 DEF SetRecover
  <2> QED BY <1>2, <2>1 DEF SetRecover, TypeOK, ServedTypeOK, servedVars
<1>3. CASE Built
  <2>1. value' \in Lists /\ key' \in {Key(l) : l \in Lists}
    BY <1>3 DEF Built, Store, TypeOK
  <2> QED BY <1>3, <2>1 DEF Built, AfterBuild, ResetAfterBuild, TypeOK, ServedTypeOK, servedVars
<1>4. CASE BuiltFails
  BY <1>4 DEF BuiltFails, TypeOK, ServedTypeOK, servedVars
<1>5. CASE UNCHANGED lookupVars
  BY <1>5 DEF lookupVars, TypeOK, ServedTypeOK, servedVars
<1> QED BY <1>1, <1>2, <1>3, <1>4, <1>5, RequestType DEF Next

(* Every variable holds what the Go variable it stands for can hold.       *)
THEOREM LookupTypes == Spec => []TypeOK
BY InitType, NextType, PTL DEF Spec

-----------------------------------------------------------------------------
(* The lists in use and their three values                                 *)

(* Only these two steps change the cached key or balancer.                 *)
LEMMA CacheGoes ==
    ASSUME [Next]_lookupVars
    PROVE  \/ key' = Key(value')
           \/ UNCHANGED <<key, value>>
<1> USE DEF check
<1>1. ASSUME NEW c \in Caller, Lookup(c) \/ WatchFails(c) \/ UpdateFails(c)
      PROVE  key' = Key(value') \/ UNCHANGED <<key, value>>
  BY <1>1 DEF Lookup, FindCheck, CreateCheck, ReadRecovery, ReadServed, WatchFails,
              Compare, AlreadyUpdated, UpdateNow, Store, UpdateLater, UpdateFails
<1>2. CASE Discover \/ SetRecover \/ Built \/ BuiltFails
  BY <1>2 DEF Discover, SetRecover, Built, Store, BuiltFails
<1>3. CASE UNCHANGED lookupVars
  BY <1>3 DEF lookupVars
<1> QED BY <1>1, <1>2, <1>3 DEF Next

(* What is held besides the list of a request: nothing before it is read.  *)
NothingYet == \A c \in Caller : pc[c] \notin {"compare", "update"} => list[c] = NoList

MarkedOK == \A h \in outlived : h \in Holder /\ IsTransient(Held(h))

(* The list may still be compared, or come to be.                          *)
InUse(l) ==
    \/ l \in {applyList, latestAdapterList}
    \/ srvs \in History /\ l = Recovered(srvs)
    \/ \E h \in Holder \ outlived : l = Held(h)

(* Lists in use are of the past of what is served now: of reports, of this *)
(* session or of this recovery.                                            *)
OfReports(l) ==
    l.runMode = "unset" =>
        \/ l = NoList
        \/ l.watchVersion = 1 /\ l.version <= latestAdapterList.version

OfSession(l) ==
    l.runMode \in {"selfProtection", "panic"} =>
        /\ status # "normal"
        /\ l.version <= applyList.version
        /\ l.version = applyList.version /\ l.version < MaxVersion
               => applyList.runMode \in {l.runMode, "panic"}

OfRecovery(l) == l.runMode = "recover" => srvs \in History /\ l = Recovered(srvs)

Placed(l) == OfReports(l) /\ OfSession(l) /\ OfRecovery(l)
InPlace == \A l \in Lists : InUse(l) => Placed(l)

ToldApart ==
    \A l, k \in Lists :
        InUse(l) /\ InUse(k) /\ Key(l) = Key(k) /\ l.version < MaxVersion => l = k

CachingInv ==
    /\ TypeOK
    /\ Key(value) = key
    /\ latestAdapterList.runMode = "unset"
    /\ NothingYet /\ MarkedOK /\ InPlace /\ ToldApart

LEMMA HeldIs ==
    /\ Held("value") = value
    /\ Held("building") = building
    /\ \A c \in Caller : Held(c) = list[c]
BY CachingAssumption DEF CachingAssumption, Held

LEMMA HeldWillBe ==
    /\ Held("value")' = value'
    /\ Held("building")' = building'
    /\ \A c \in Caller : Held(c)' = list'[c]
BY CachingAssumption DEF CachingAssumption, Held

LEMMA ServedList ==
    ASSUME NEW l \in ServedLists
    PROVE  /\ l.watchVersion \in {0, 1} /\ l.version \in Version /\ l.services \in Services
           /\ l.runMode \in {"unset", "init", "selfProtection", "panic"}
           /\ l = List(l.watchVersion, l.version, l.runMode, l.services)
           /\ l \in Lists
BY DEF ServedLists, List, Lists

LEMMA RecoveredList ==
    ASSUME NEW l \in History
    PROVE  /\ Recovered(l) \in Lists
           /\ Recovered(l) = List(l.watchVersion, l.version, "recover", l.services)
           /\ Recovered(l).runMode = "recover"
<1>1. l \in ServedLists
  BY LookupAssumption DEF LookupAssumption
<1>2. l = List(l.watchVersion, l.version, l.runMode, l.services)
  BY <1>1, ServedList
<1> QED BY <1>2 DEF Recovered, List, Lists

LEMMA NoBuildIsNoList == NoBuild \notin Lists
<1>1. \A v \in Version, s \in Services, m \in RunModes, w \in {0, 1} :
         List(w, v, m, s) # NoBuild
  BY LookupAssumption DEF LookupAssumption
<1>2. ASSUME NEW l \in ServedLists PROVE l # NoBuild
  <2>1. l.runMode \in RunModes
    BY ServedList DEF RunModes
  <2> QED BY <1>1, <2>1, ServedList
<1>3. ASSUME NEW l \in History PROVE Recovered(l) # NoBuild
  <2>1. l \in ServedLists
    BY LookupAssumption DEF LookupAssumption
  <2>2. Recovered(l) = List(l.watchVersion, l.version, "recover", l.services)
    BY RecoveredList
  <2> QED BY <1>1, <2>1, <2>2, ServedList DEF RunModes
<1> QED BY <1>2, <1>3 DEF Lists

LEMMA ListVersion ==
    ASSUME NEW l \in Lists
    PROVE  l.version \in Int
<1>1. ASSUME NEW k \in ServedLists PROVE k.version \in Int
  BY <1>1, ServedList, ServedAssumption DEF ServedAssumption
<1>2. ASSUME NEW k \in History PROVE Recovered(k).version = k.version /\ k \in ServedLists
  BY <1>2, RecoveredList, LookupAssumption DEF LookupAssumption, List
<1> QED BY <1>1, <1>2 DEF Lists

(* A step of the cache or of a request passes on lists in use, starts again*)
(* with none or reads what is on offer; the marks go along.                *)
Follow(marks) ==
    \A h \in Holder :
        \/ Held(h)' \in {NoList, NoBuild, applyList}
        \/ srvs \in History /\ Held(h)' = Recovered(srvs)
        \/ \E g \in Holder : Held(h)' = Held(g) /\ (g \in outlived => h \in marks)

LEMMA FollowersInUse ==
    ASSUME MarkedOK, NEW marks, Marks(marks), Follow(marks), UNCHANGED <<servedVars, srvs>>,
           NEW l \in Lists, InUse(l)'
    PROVE  InUse(l) \/ l = NoList
<1>1. CASE \E h \in Holder \ outlived' : l = Held(h)'
  <2>1. PICK h \in Holder \ outlived' : l = Held(h)'
    BY <1>1
  <2>2. l # NoBuild
    BY NoBuildIsNoList
  <2>3. ASSUME NEW g \in Holder, l = Held(g), g \in outlived => h \in marks
        PROVE  g \notin outlived
    <3> SUFFICES ASSUME g \in outlived PROVE FALSE
      OBVIOUS
    <3>1. IsTransient(l)
      BY <2>3 DEF MarkedOK
    <3>2. IsTransient(Held(h))'
      BY <2>1, <3>1 DEF IsTransient
    <3> QED BY <2>1, <2>3, <3>2 DEF Marks
  <2> QED BY <2>1, <2>2, <2>3 DEF Follow, InUse
<1>2. CASE ~ \E h \in Holder \ outlived' : l = Held(h)'
  BY <1>2 DEF InUse, servedVars
<1> QED BY <1>1, <1>2

(* Nothing happens to what is told apart as long as only such lists are     *)
(* passed on: an empty one is known by its values alone.                    *)
LEMMA FollowersKeep ==
    ASSUME CachingInv, UNCHANGED <<servedVars, srvs>>,
           \A l \in Lists : InUse(l)' => InUse(l) \/ l = NoList
    PROVE  InPlace' /\ ToldApart'
<1>1. Placed(NoList)
  BY DEF NoList, List, Placed, OfReports, OfSession, OfRecovery
<1>2. ASSUME NEW l \in Lists, InUse(l)'
      PROVE  Placed(l)
  BY <1>1, <1>2 DEF CachingInv, InPlace
<1>3. InPlace'
  BY <1>2 DEF InPlace, Placed, OfReports, OfSession, OfRecovery, servedVars
<1>4. ASSUME NEW l \in Lists, InUse(l)', Key(l) = Key(NoList)
      PROVE  l = NoList
  BY <1>2, <1>4 DEF Placed, OfReports, Key, NoList, List
<1>5. ASSUME NEW l \in Lists, NEW k \in Lists, InUse(l)', InUse(k)', Key(l) = Key(k),
             l.version < MaxVersion
      PROVE  l = k
  <2>1. CASE l = NoList \/ k = NoList
    BY <1>4, <1>5, <2>1
  <2>2. CASE l # NoList /\ k # NoList
    <3>1. InUse(l) /\ InUse(k)
      BY <1>5, <2>2
    <3> QED BY <1>5, <3>1 DEF CachingInv, ToldApart
  <2> QED BY <2>1, <2>2
<1> QED BY <1>3, <1>5 DEF ToldApart, Key

LEMMA MarksOK ==
    ASSUME NEW marks, Marks(marks), marks \subseteq Holder
    PROVE  MarkedOK'
BY DEF Marks, MarkedOK, Holder

(* The requests.                                                           *)
LEMMA RequestFollows ==
    ASSUME CachingInv, NEW c \in Caller,
           \/ /\ \/ FindCheck(c) \/ CreateCheck(c) \/ WatchFails(c)
                 \/ Compare(c) \/ AlreadyUpdated(c) \/ UpdateFails(c)
              /\ Marks(outlived)
           \/ (ReadRecovery(c) \/ ReadServed(c)) /\ Marks(outlived \ {c})
           \/ UpdateNow(c) /\ PassOn(c, "value")
           \/ UpdateLater(c) /\ IF isUpdate THEN Marks(outlived) ELSE PassOn(c, "building")
    PROVE  /\ \E marks \in SUBSET Holder : Marks(marks) /\ Follow(marks)
           /\ UNCHANGED <<servedVars, srvs>>
           /\ NothingYet'
<1> USE DEF check, wrapper, requests
<1>1. /\ pc \in [Caller -> Labels] /\ list \in [Caller -> Lists]
      /\ outlived \subseteq Holder /\ {c, "value", "building"} \subseteq Holder
      /\ c \notin {"value", "building"}
  BY CachingAssumption DEF CachingInv, TypeOK, Labels, MarkedOK, Holder, CachingAssumption
<1>2. NothingYet
  BY DEF CachingInv
<1>3. Return(c) => /\ NothingYet' /\ list'[c] = NoList
                   /\ \A d \in Caller \ {c} : list'[d] = list[d]
  BY <1>1, <1>2 DEF Return, Go, NothingYet
<1>4. ASSUME NEW marks \in SUBSET Holder, outlived \ {c} \subseteq marks,
             UNCHANGED <<value, building>>,
             \A d \in Caller \ {c} : list'[d] = list[d],
             \/ list'[c] \in {NoList, applyList}
             \/ srvs \in History /\ list'[c] = Recovered(srvs)
             \/ list'[c] = list[c] /\ c \notin outlived \ marks
      PROVE  Follow(marks)
  <2> SUFFICES ASSUME NEW h \in Holder
               PROVE  \/ Held(h)' \in {NoList, NoBuild, applyList}
                      \/ srvs \in History /\ Held(h)' = Recovered(srvs)
                      \/ \E g \in Holder : Held(h)' = Held(g) /\ (g \in outlived => h \in marks)
    BY DEF Follow
  <2>1. CASE h = c
    BY <1>4, <2>1, HeldIs, HeldWillBe
  <2>2. CASE h # c
    <3>1. Held(h)' = Held(h)
      BY <1>4, <2>2, HeldIs, HeldWillBe DEF Holder
    <3> QED BY <1>4, <2>2, <3>1
  <2> QED BY <2>1, <2>2
<1>5. CASE FindCheck(c) /\ Marks(outlived)
  <2>1. NothingYet' /\ UNCHANGED list
    BY <1>1, <1>2, <1>5 DEF FindCheck, Go, NothingYet
  <2> QED BY <1>1, <1>4, <1>5, <2>1 DEF FindCheck
<1>6. CASE CreateCheck(c) /\ Marks(outlived)
  <2>1. NothingYet' /\ UNCHANGED <<list, building>> /\ value' \in {value, NoList}
    BY <1>1, <1>2, <1>6 DEF CreateCheck, Go, NothingYet
  <2>2. Follow(outlived)
    BY <2>1, HeldIs, HeldWillBe DEF Follow, Holder
  <2> QED BY <1>1, <1>6, <2>1, <2>2 DEF CreateCheck
<1>7. CASE (Compare(c) \/ AlreadyUpdated(c)) /\ Marks(outlived)
  <2>1. NothingYet' /\ list'[c] \in {NoList, list[c]}
        /\ \A d \in Caller \ {c} : list'[d] = list[d]
    BY <1>1, <1>2, <1>3, <1>7 DEF Compare, AlreadyUpdated, Go, NothingYet
  <2>2. Follow(outlived)
    BY <1>1, <1>4, <1>7, <2>1 DEF Compare, AlreadyUpdated
  <2> QED BY <1>1, <1>7, <2>1, <2>2 DEF Compare, AlreadyUpdated
<1>8. CASE (WatchFails(c) \/ UpdateFails(c)) /\ Marks(outlived)
  <2>1. Follow(outlived)
    BY <1>1, <1>3, <1>4, <1>8 DEF WatchFails, UpdateFails
  <2> QED BY <1>1, <1>3, <1>8, <2>1 DEF WatchFails, UpdateFails
<1>9. CASE (ReadRecovery(c) \/ ReadServed(c)) /\ Marks(outlived \ {c})
  <2>1. srvs \notin {NoRecovery, Lacking} => srvs \in History
    BY DEF CachingInv, TypeOK
  <2>2. /\ NothingYet' /\ \A d \in Caller \ {c} : list'[d] = list[d]
        /\ \/ list'[c] \in {NoList, applyList}
           \/ srvs \in History /\ list'[c] = Recovered(srvs)
    BY <1>1, <1>2, <1>3, <1>9, <2>1 DEF ReadRecovery, ReadServed, Go, NothingYet
  <2>3. Follow(outlived \ {c})
    BY <1>1, <1>4, <1>9, <2>2 DEF ReadRecovery, ReadServed
  <2> QED BY <1>1, <1>9, <2>2, <2>3 DEF ReadRecovery, ReadServed
<1>10. CASE UpdateNow(c) /\ PassOn(c, "value")
  <2> DEFINE marks == IF c \in outlived THEN outlived \cup {"value"} ELSE outlived \ {"value"}
  <2>1. /\ value' = list[c] /\ building' = building /\ list'[c] = NoList
        /\ \A d \in Caller \ {c} : list'[d] = list[d]
    BY <1>3, <1>10 DEF UpdateNow, Store
  <2>2. Follow(marks)
    BY <1>1, <2>1, HeldIs, HeldWillBe DEF Follow, Holder
  <2>3. marks \in SUBSET Holder /\ Marks(marks)
    BY <1>1, <1>10 DEF PassOn
  <2> QED BY <1>3, <1>10, <2>2, <2>3 DEF UpdateNow
<1>11. CASE UpdateLater(c) /\ IF isUpdate THEN Marks(outlived) ELSE PassOn(c, "building")
  <2> DEFINE marks ==
             IF isUpdate THEN outlived
             ELSE IF c \in outlived THEN outlived \cup {"building"} ELSE outlived \ {"building"}
  <2>1. /\ value' = value /\ list'[c] = NoList
        /\ building' = IF isUpdate THEN building ELSE list[c]
        /\ \A d \in Caller \ {c} : list'[d] = list[d]
    BY <1>3, <1>11 DEF UpdateLater
  <2>2. Follow(marks)
    BY <1>1, <2>1, HeldIs, HeldWillBe DEF Follow, Holder
  <2>3. marks \in SUBSET Holder /\ Marks(marks)
    BY <1>1, <1>11 DEF PassOn
  <2> QED BY <1>3, <1>11, <2>2, <2>3 DEF UpdateLater
<1> QED BY <1>5, <1>6, <1>7, <1>8, <1>9, <1>10, <1>11

(* The build in the background.                                            *)
LEMMA BuildFollows ==
    ASSUME CachingInv,
           \/ Built /\ PassOn("building", "value")
           \/ BuiltFails /\ Marks(outlived)
    PROVE  /\ \E marks \in SUBSET Holder : Marks(marks) /\ Follow(marks)
           /\ UNCHANGED <<servedVars, srvs>>
           /\ NothingYet'
<1> USE DEF check, wrapper, requests
<1>1. outlived \subseteq Holder /\ "value" \in Holder /\ "building" \in Holder
  BY DEF CachingInv, MarkedOK, Holder
<1>2. NothingYet' /\ UNCHANGED <<servedVars, srvs, list>>
  BY DEF CachingInv, NothingYet, Built, BuiltFails
<1>3. CASE Built /\ PassOn("building", "value")
  <2> DEFINE marks ==
         IF "building" \in outlived THEN outlived \cup {"value"} ELSE outlived \ {"value"}
  <2>1. value' = building /\ building' = NoBuild
    BY <1>3 DEF Built, Store
  <2>2. Follow(marks)
    BY <1>1, <1>2, <2>1, HeldIs, HeldWillBe DEF Follow, Holder
  <2>3. marks \in SUBSET Holder /\ Marks(marks)
    BY <1>1, <1>3 DEF PassOn
  <2> QED BY <1>2, <2>2, <2>3
<1>4. CASE BuiltFails /\ Marks(outlived)
  <2>1. value' = value /\ building' = NoBuild
    BY <1>4 DEF BuiltFails
  <2>2. Follow(outlived)
    BY <1>1, <1>2, <2>1, HeldIs, HeldWillBe DEF Follow, Holder
  <2> QED BY <1>1, <1>2, <1>4, <2>2
<1> QED BY <1>3, <1>4

(* When a recovery is set or lifted, the lists of the one before are out of *)
(* use.                                                                     *)
LEMMA RecoverySteps ==
    ASSUME CachingInv, SetRecover, TypeOK',
           Marks(outlived \cup {h \in Holder : LeftBehind(Held(h))})
    PROVE  CachingInv'
<1> USE DEF check, requests
<1>1. UNCHANGED <<servedVars, key, value, building, pc, list>> /\ RecoveryEnds
  <2>1. recoveries \in 0..MaxRecoveries /\ recoveries' = recoveries + 1
    BY DEF SetRecover, CachingInv, TypeOK
  <2>2. recoveries' # recoveries
    BY <2>1, LookupAssumption DEF LookupAssumption
  <2> QED BY <2>2 DEF SetRecover, RecoveryEnds
<1>2. \A h \in Holder : Held(h)' = Held(h)
  BY <1>1, HeldIs, HeldWillBe DEF Holder
<1>3. MarkedOK'
  <2>1. outlived \cup {h \in Holder : LeftBehind(Held(h))} \subseteq Holder
    BY DEF CachingInv, MarkedOK
  <2> QED BY <2>1, MarksOK
<1>4. ASSUME NEW l \in Lists, InUse(l)'
      PROVE  \/ srvs' \in History /\ l = Recovered(srvs')
             \/ InUse(l) /\ l.runMode # "recover"
  <2>1. CASE \E h \in Holder \ outlived' : l = Held(h)'
    <3>1. PICK h \in Holder \ outlived' : l = Held(h)
      BY <1>2, <2>1
    <3>2. IsTransient(Held(h)) => IsTransient(Held(h))'
      BY <1>2, <3>1 DEF IsTransient
    <3>3. h \notin outlived /\ ~LeftBehind(l)
      BY <3>1, <3>2 DEF Marks, LeftBehind, CachingInv, MarkedOK
    <3>4. l.runMode # "recover"
      BY <1>1, <3>3, NoBuildIsNoList DEF LeftBehind, IsTransient, Transient
    <3> QED BY <3>1, <3>3, <3>4 DEF InUse
  <2>2. CASE l \in {applyList, latestAdapterList}
    <3>1. l.runMode # "recover"
      BY <2>2, ServedList DEF CachingInv, TypeOK, ServedTypeOK
    <3> QED BY <2>2, <3>1 DEF InUse
  <2>3. CASE /\ l \notin {applyList, latestAdapterList}
             /\ ~ \E h \in Holder \ outlived' : l = Held(h)'
    BY <1>1, <1>4, <2>3 DEF InUse, servedVars
  <2> QED BY <2>1, <2>2, <2>3
<1>5. InPlace'
  <2> SUFFICES ASSUME NEW l \in Lists, InUse(l)'
               PROVE  Placed(l)'
    BY DEF InPlace
  <2>1. CASE srvs' \in History /\ l = Recovered(srvs')
    <3>1. l.runMode = "recover"
      BY <2>1, RecoveredList
    <3> QED BY <2>1, <3>1 DEF Placed, OfReports, OfSession, OfRecovery
  <2>2. CASE InUse(l) /\ l.runMode # "recover"
    BY <1>1, <2>2
       DEF CachingInv, InPlace, Placed, OfReports, OfSession, OfRecovery, servedVars
  <2> QED BY <1>4, <2>1, <2>2
<1>6. ASSUME NEW l \in Lists, NEW k \in Lists, InUse(l)', InUse(k)', Key(l) = Key(k),
             l.version < MaxVersion
      PROVE  l = k
  <2>1. CASE l.runMode = "recover"
    <3>1. k.runMode = "recover"
      BY <1>6, <2>1 DEF Key
    <3> QED BY <1>4, <1>6, <2>1, <3>1
  <2>2. CASE l.runMode # "recover"
    <3>1. k.runMode # "recover"
      BY <1>6, <2>2 DEF Key
    <3>2. InUse(l) /\ InUse(k)
      BY <1>4, <1>6, <2>2, <3>1, RecoveredList
    <3> QED BY <1>6, <3>2 DEF CachingInv, ToldApart
  <2> QED BY <2>1, <2>2
<1>7. ToldApart' /\ NothingYet'
  BY <1>1, <1>6 DEF ToldApart, Key, CachingInv, NothingYet
<1>8. Key(value)' = key' /\ latestAdapterList'.runMode = "unset"
  BY <1>1 DEF CachingInv, Key, servedVars
<1> QED BY <1>3, <1>5, <1>7, <1>8 DEF CachingInv

(* When the degrade object changes what it serves, the lists that were in   *)
(* use still are, but for those of a session that ends.                     *)
StillInUse(l) ==
    /\ InUse(l)
    /\ SessionEnds => l.runMode \notin {"selfProtection", "panic"}

LEMMA ServedLeaves ==
    ASSUME CachingInv, UNCHANGED <<value, building, list, srvs>>,
           Marks(outlived \cup {h \in Holder : LeftBehind(Held(h))}),
           NEW l \in Lists, InUse(l)'
    PROVE  l \in {applyList', latestAdapterList'} \/ StillInUse(l)
<1>1. \A h \in Holder : Held(h)' = Held(h)
  BY HeldIs, HeldWillBe DEF Holder
<1>2. CASE \E h \in Holder \ outlived' : l = Held(h)'
  <2>1. PICK h \in Holder \ outlived' : l = Held(h)
    BY <1>1, <1>2
  <2>2. IsTransient(Held(h)) => IsTransient(Held(h))'
    BY <1>1, <2>1 DEF IsTransient
  <2>3. h \notin outlived /\ ~LeftBehind(l)
    BY <2>1, <2>2 DEF Marks, LeftBehind, CachingInv, MarkedOK
  <2>4. SessionEnds => l.runMode \notin {"selfProtection", "panic"}
    BY <2>3, NoBuildIsNoList DEF LeftBehind, IsTransient, Transient
  <2> QED BY <2>1, <2>3, <2>4 DEF InUse, StillInUse
<1>3. CASE srvs \in History /\ l = Recovered(srvs)
  <2>1. l.runMode = "recover"
    BY <1>3, RecoveredList
  <2> QED BY <1>3, <2>1 DEF InUse, StillInUse
<1>4. CASE l \in {applyList', latestAdapterList'}
  BY <1>4
<1> QED BY <1>2, <1>3, <1>4 DEF InUse

LEMMA ServedSteps ==
    ASSUME CachingInv, ServedNext, UNCHANGED <<value, building, list, srvs>>,
           ServedTypeOK'
    PROVE  /\ latestAdapterList'.runMode = "unset"
           /\ Placed(applyList)' /\ Placed(latestAdapterList)'
           /\ \A l \in Lists : StillInUse(l) =>
                 /\ Placed(l)'
                 /\ \A k \in {applyList', latestAdapterList'} :
                       Key(l) = Key(k) /\ l.version < MaxVersion => l = k
           /\ Key(applyList') = Key(latestAdapterList') /\ applyList'.version < MaxVersion
                 => applyList' = latestAdapterList'
<1> USE DEF ServedTypeOK
<1>1. /\ applyList \in ServedLists /\ latestAdapterList \in ServedLists
      /\ applyList' \in ServedLists /\ latestAdapterList' \in ServedLists
      /\ latestAdapterList.runMode = "unset"
      /\ InUse(applyList) /\ InUse(latestAdapterList)
  BY DEF CachingInv, TypeOK, InUse
<1>2. /\ applyList \in Lists /\ latestAdapterList \in Lists
      /\ applyList' \in Lists /\ latestAdapterList' \in Lists
  BY <1>1, ServedList
<1>3. /\ applyList.version \in Int /\ latestAdapterList.version \in Int
      /\ applyList'.version \in Int /\ latestAdapterList'.version \in Int
      /\ MaxVersion \in Int
  BY <1>2, ListVersion, CachingAssumption DEF CachingAssumption
<1>4. ASSUME NEW l \in Lists, InUse(l)
      PROVE  /\ Placed(l) /\ l.version \in Int
             /\ \A k \in {applyList, latestAdapterList} :
                   Key(l) = Key(k) /\ l.version < MaxVersion => l = k
  BY <1>1, <1>2, <1>4, ListVersion DEF CachingInv, InPlace, ToldApart
<1>5. CASE Deliver
  <2>1. /\ UNCHANGED <<status, applyList>>
        /\ latestAdapterList'.version > latestAdapterList.version
        /\ latestAdapterList'.watchVersion = 1 /\ latestAdapterList'.runMode = "unset"
    BY <1>5 DEF Deliver, List
  <2>2. Placed(latestAdapterList)'
    BY <1>3, <2>1 DEF Placed, OfReports, OfSession, OfRecovery
  <2>3. ASSUME NEW l \in Lists, InUse(l)
        PROVE  /\ Placed(l)' /\ Key(l) # Key(latestAdapterList')
               /\ Key(l) = Key(applyList') /\ l.version < MaxVersion => l = applyList'
    <3>1. /\ Placed(l) /\ l.version \in Int
          /\ Key(l) = Key(applyList) /\ l.version < MaxVersion => l = applyList
      BY <1>4, <2>3
    <3>2. Placed(l)'
      BY <1>3, <2>1, <3>1 DEF Placed, OfReports, OfSession, OfRecovery
    <3>3. Key(l) # Key(latestAdapterList')
      <4> SUFFICES ASSUME Key(l) = Key(latestAdapterList') PROVE FALSE
        OBVIOUS
      <4>1. /\ l.runMode = "unset" /\ l.watchVersion = 1
            /\ l.version = latestAdapterList'.version
        BY <2>1 DEF Key
      <4>2. l # NoList
        BY <4>1 DEF NoList, List
      <4> QED BY <1>3, <2>1, <3>1, <4>1, <4>2 DEF Placed, OfReports
    <3> QED BY <2>1, <3>1, <3>2, <3>3
  <2> QED BY <1>1, <1>2, <2>1, <2>2, <2>3 DEF StillInUse
<1>6. CASE Adopt
  <2>1. applyList' = latestAdapterList /\ latestAdapterList' = latestAdapterList
        /\ status' = "normal"
    BY <1>6 DEF Adopt
  <2>2. ASSUME NEW l \in Lists, StillInUse(l)
        PROVE  Placed(l)'
    <3>1. Placed(l)
      BY <1>4, <2>2 DEF StillInUse
    <3>2. l.runMode \notin {"selfProtection", "panic"}
      BY <2>1, <2>2, <3>1 DEF StillInUse, SessionEnds, Placed, OfSession
    <3> QED BY <2>1, <3>1, <3>2 DEF Placed, OfReports, OfSession, OfRecovery
  <2>3. StillInUse(latestAdapterList)
    BY <1>1 DEF StillInUse
  <2> QED BY <1>1, <1>2, <1>4, <2>1, <2>2, <2>3 DEF StillInUse
<1>7. CASE Protect \/ Recover
  <2>1. UNCHANGED <<applyList, latestAdapterList>> /\ status' # "normal"
    BY <1>7 DEF Protect, Recover
  <2>2. ASSUME NEW l \in Lists, InUse(l) PROVE Placed(l)'
    <3>1. Placed(l)
      BY <1>4, <2>2
    <3> QED BY <2>1, <3>1 DEF Placed, OfReports, OfSession, OfRecovery
  <2> QED BY <1>1, <1>2, <1>4, <2>1, <2>2 DEF StillInUse
<1>8. CASE ServeHealthy
  <2>1. PICK v \in Version, s \in Services :
           Follows(v) /\ applyList' = List(applyList.watchVersion, v, "selfProtection", s)
    BY <1>8 DEF ServeHealthy
  <2>2. /\ latestAdapterList' = latestAdapterList /\ status' # "normal"
        /\ applyList'.runMode = "selfProtection" /\ applyList'.version = v
    BY <1>8, <2>1 DEF ServeHealthy, List
  <2>3. v \in Int
    BY <1>3, <2>2
  <2>4. ASSUME NEW l \in Lists, InUse(l), l.runMode \in {"selfProtection", "panic"}
        PROVE  l.version <= v /\ (l.version = v => l.version >= MaxVersion)
    <3>1. OfSession(l) /\ l.version \in Int
      BY <1>4, <2>4 DEF Placed
    <3> QED BY <1>3, <2>1, <2>3, <2>4, <3>1 DEF Placed, OfSession, Follows
  <2>5. ASSUME NEW l \in Lists, InUse(l)
        PROVE  /\ Placed(l)'
               /\ Key(l) = Key(applyList') => l.version >= MaxVersion
    <3>1. OfReports(l) /\ OfRecovery(l) /\ l.version \in Int
      BY <1>4, <2>5 DEF Placed
    <3>2. OfSession(l)'
      BY <1>3, <2>2, <2>4, <2>5, <3>1 DEF Placed, OfSession
    <3>3. Key(l) = Key(applyList') => l.runMode = "selfProtection" /\ l.version = v
      BY <2>2 DEF Key
    <3> QED BY <2>2, <2>4, <2>5, <3>1, <3>2, <3>3 DEF Placed, OfReports, OfRecovery
  <2>6. Placed(applyList)'
    BY <1>3, <2>2 DEF Placed, OfReports, OfSession, OfRecovery
  <2>7. Key(applyList') # Key(latestAdapterList')
    BY <1>1, <2>2 DEF Key
  <2>8. ASSUME NEW l \in Lists, InUse(l), Key(l) = Key(applyList'), l.version < MaxVersion
        PROVE  FALSE
    <3>1. l.version >= MaxVersion /\ l.version \in Int
      BY <1>4, <2>5, <2>8
    <3> QED BY <1>3, <2>8, <3>1
  <2> QED BY <1>1, <1>2, <1>4, <2>2, <2>5, <2>6, <2>7, <2>8 DEF StillInUse
<1>9. CASE Panic
  <2>1. PICK s \in Services :
           /\ applyList.runMode = "panic" => s = applyList.services
           /\ applyList' = [applyList EXCEPT !.runMode = "panic", !.services = s]
    BY <1>9 DEF Panic
  <2>2. /\ latestAdapterList' = latestAdapterList /\ status # "normal" /\ status' # "normal"
        /\ applyList'.runMode = "panic" /\ applyList'.version = applyList.version
    BY <1>1, <1>9, <2>1 DEF Panic, ServedLists
  <2>3. applyList.runMode = "panic" => applyList' = applyList
    BY <1>1, <2>1 DEF ServedLists
  <2>4. Placed(applyList)'
    BY <1>3, <2>2 DEF Placed, OfReports, OfSession, OfRecovery
  <2>5. ASSUME NEW l \in Lists, InUse(l)
        PROVE  /\ Placed(l)'
               /\ Key(l) = Key(applyList') /\ l.version < MaxVersion => l = applyList'
    <3>1. /\ Placed(l) /\ l.version \in Int
          /\ Key(l) = Key(applyList) /\ l.version < MaxVersion => l = applyList
      BY <1>4, <2>5
    <3>2. OfSession(l)'
      BY <2>2, <3>1 DEF Placed, OfSession
    <3>3. Key(l) = Key(applyList') => l.runMode = "panic" /\ l.version = applyList.version
      BY <2>2 DEF Key
    <3>4. Key(l) = Key(applyList') /\ l.version < MaxVersion => applyList.runMode = "panic"
      BY <3>1, <3>3 DEF Placed, OfSession
    <3>5. Placed(l)'
      BY <2>2, <3>1, <3>2 DEF Placed, OfReports, OfRecovery
    <3> QED BY <2>3, <3>1, <3>4, <3>5
  <2>6. Key(applyList') # Key(latestAdapterList')
    BY <1>1, <2>2 DEF Key
  <2> QED BY <1>1, <1>2, <1>4, <2>2, <2>4, <2>5, <2>6 DEF StillInUse
<1> QED BY <1>5, <1>6, <1>7, <1>8, <1>9 DEF ServedNext

LEMMA DiscoverSteps ==
    ASSUME CachingInv, Discover, TypeOK',
           Marks(outlived \cup {h \in Holder : LeftBehind(Held(h))})
    PROVE  CachingInv'
<1> USE DEF check, wrapper, requests
<1>1. UNCHANGED <<key, value, building, srvs, pc, list>> /\ ServedNext
  BY DEF Discover
<1>2. MarkedOK'
  <2>1. outlived \cup {h \in Holder : LeftBehind(Held(h))} \subseteq Holder
    BY DEF CachingInv, MarkedOK
  <2> QED BY <2>1, MarksOK
<1>3. /\ latestAdapterList'.runMode = "unset"
      /\ Placed(applyList)' /\ Placed(latestAdapterList)'
      /\ \A l \in Lists : StillInUse(l) =>
            /\ Placed(l)'
            /\ \A k \in {applyList', latestAdapterList'} :
                  Key(l) = Key(k) /\ l.version < MaxVersion => l = k
      /\ Key(applyList') = Key(latestAdapterList') /\ applyList'.version < MaxVersion
            => applyList' = latestAdapterList'
  BY <1>1, ServedSteps DEF TypeOK
<1>4. ASSUME NEW l \in Lists, InUse(l)'
      PROVE  l \in {applyList', latestAdapterList'} \/ StillInUse(l)
  BY <1>1, <1>4, ServedLeaves
<1>5. InPlace'
  <2> SUFFICES ASSUME NEW l \in Lists, InUse(l)'
               PROVE  Placed(l)'
    BY DEF InPlace
  <2>1. CASE l \in {applyList', latestAdapterList'}
    BY <1>3, <2>1 DEF Placed, OfReports, OfSession, OfRecovery
  <2>2. CASE StillInUse(l)
    BY <1>3, <2>2
  <2> QED BY <1>4, <2>1, <2>2
<1>6. ASSUME NEW l \in Lists, NEW k \in Lists, InUse(l)', InUse(k)', Key(l) = Key(k),
             l.version < MaxVersion
      PROVE  l = k
  <2>1. l.version = k.version
    BY <1>6 DEF Key
  <2>2. CASE StillInUse(l) /\ StillInUse(k)
    BY <1>6, <2>2 DEF StillInUse, CachingInv, ToldApart
  <2>3. CASE {l, k} \subseteq {applyList', latestAdapterList'}
    BY <1>3, <1>6, <2>1, <2>3
  <2>4. CASE StillInUse(l) /\ k \in {applyList', latestAdapterList'}
    BY <1>3, <1>6, <2>4
  <2>5. CASE l \in {applyList', latestAdapterList'} /\ StillInUse(k)
    BY <1>3, <1>6, <2>1, <2>5
  <2> QED BY <1>4, <1>6, <2>2, <2>3, <2>4, <2>5
<1>7. ToldApart' /\ NothingYet'
  BY <1>1, <1>6 DEF ToldApart, Key, CachingInv, NothingYet
<1>8. Key(value)' = key'
  BY <1>1 DEF CachingInv, Key
<1> QED BY <1>2, <1>3, <1>5, <1>7, <1>8 DEF CachingInv

LEMMA NoRecoveryIsNoList == NoRecovery \notin History
<1>1. ASSUME NEW l \in ServedLists PROVE l # NoRecovery
  <2>1. l.runMode \in RunModes
    BY ServedList DEF RunModes
  <2> QED BY <2>1, ServedList, LookupAssumption DEF LookupAssumption
<1> QED BY <1>1, LookupAssumption DEF LookupAssumption

LEMMA CachingInitOK == CachingInit => CachingInv
<1> SUFFICES ASSUME CachingInit PROVE CachingInv
  OBVIOUS
<1>1. /\ TypeOK /\ Key(value) = key /\ NothingYet /\ MarkedOK
      /\ latestAdapterList.runMode = "unset"
  BY InitType DEF CachingInit, Init, ServedInit, NoList, List, NothingYet, MarkedOK
<1>2. ASSUME NEW l \in Lists, InUse(l) PROVE l \in {NoList, applyList}
  <2>1. latestAdapterList = NoList /\ srvs \notin History
    BY NoRecoveryIsNoList DEF CachingInit, Init, ServedInit
  <2>2. ASSUME NEW h \in Holder PROVE Held(h) \in {NoList, NoBuild}
    BY HeldIs DEF Holder, CachingInit, Init
  <2> QED BY <1>2, <2>1, <2>2, NoBuildIsNoList DEF InUse
<1>3. applyList = NoList \/ applyList.runMode = "init"
  BY DEF CachingInit, Init, ServedInit, List
<1>4. InPlace /\ ToldApart
  BY <1>2, <1>3
     DEF InPlace, ToldApart, Placed, OfReports, OfSession, OfRecovery, Key, NoList, List
<1> QED BY <1>1, <1>4 DEF CachingInv

LEMMA CachingIsLookup == [CachingNext]_cachingVars => [Next]_lookupVars
BY DEF CachingNext, cachingVars, Next, Lookup

LEMMA CachingNextOK == CachingInv /\ [CachingNext]_cachingVars => CachingInv'
<1> SUFFICES ASSUME CachingInv, [CachingNext]_cachingVars PROVE CachingInv'
  OBVIOUS
<1>1. TypeOK'
  BY NextType, CachingIsLookup DEF CachingInv
<1>2. Key(value)' = key'
  BY CacheGoes, CachingIsLookup DEF CachingInv, Key
<1>3. ASSUME \E marks \in SUBSET Holder : Marks(marks) /\ Follow(marks),
             UNCHANGED <<servedVars, srvs>>, NothingYet'
      PROVE  CachingInv'
  <2>1. PICK marks \in SUBSET Holder : Marks(marks) /\ Follow(marks)
    BY <1>3
  <2>2. MarkedOK'
    BY <2>1, MarksOK
  <2>3. \A l \in Lists : InUse(l)' => InUse(l) \/ l = NoList
    BY <1>3, <2>1, FollowersInUse DEF CachingInv
  <2>4. InPlace' /\ ToldApart'
    BY <1>3, <2>3, FollowersKeep
  <2>5. latestAdapterList'.runMode = "unset"
    BY <1>3 DEF CachingInv, servedVars
  <2> QED BY <1>1, <1>2, <1>3, <2>2, <2>4, <2>5 DEF CachingInv
<1>4. CASE (Discover \/ SetRecover)
           /\ Marks(outlived \cup {h \in Holder : LeftBehind(Held(h))})
  BY <1>1, <1>4, DiscoverSteps, RecoverySteps
<1>5. CASE \/ Built /\ PassOn("building", "value")
           \/ BuiltFails /\ Marks(outlived)
  BY <1>3, <1>5, BuildFollows
<1>6. ASSUME NEW c \in Caller,
             \/ /\ \/ FindCheck(c) \/ CreateCheck(c) \/ WatchFails(c)
                   \/ Compare(c) \/ AlreadyUpdated(c) \/ UpdateFails(c)
                /\ Marks(outlived)
             \/ (ReadRecovery(c) \/ ReadServed(c)) /\ Marks(outlived \ {c})
             \/ UpdateNow(c) /\ PassOn(c, "value")
             \/ UpdateLater(c) /\ IF isUpdate THEN Marks(outlived) ELSE PassOn(c, "building")
      PROVE  CachingInv'
  <2>1. /\ \E marks \in SUBSET Holder : Marks(marks) /\ Follow(marks)
        /\ UNCHANGED <<servedVars, srvs>> /\ NothingYet'
    BY <1>6, RequestFollows
  <2> QED BY <1>3, <2>1
<1>7. CASE UNCHANGED cachingVars
  <2>1. /\ UNCHANGED <<servedVars, value, building, srvs, pc, list, outlived>>
    BY <1>7 DEF cachingVars, lookupVars, check, wrapper, requests
  <2>2. \A h \in Holder : Held(h)' = Held(h)
    BY <2>1, HeldIs, HeldWillBe DEF Holder
  <2>3. MarkedOK' /\ NothingYet' /\ latestAdapterList'.runMode = "unset"
    BY <2>1, <2>2 DEF CachingInv, MarkedOK, NothingYet, IsTransient, servedVars
  <2>4. \A l \in Lists : InUse(l)' => InUse(l)
    BY <2>1, <2>2 DEF InUse, servedVars
  <2>5. InPlace' /\ ToldApart'
    BY <2>1, <2>4, FollowersKeep
  <2> QED BY <1>1, <1>2, <2>3, <2>5 DEF CachingInv
<1> QED BY <1>4, <1>5, <1>6, <1>7 DEF CachingNext

(* A request whose three values are those of the cache (GetValue compares no*)
(* more) is given the balancer of its own list, whoever stored it and in    *)
(* whatever order, unless one of the two lists is of a session or of a      *)
(* recovery that is over.                                                   *)
THEOREM HitsAreOwnLists == CachingSpec => []HitIsOwnList
<1>1. CachingInv => HitIsOwnList
  <2> SUFFICES ASSUME CachingInv, NEW c \in Caller, ~Changed(list[c]),
                      {c, "value"} \cap outlived = {}, value.version < MaxVersion
               PROVE  value = list[c]
    BY DEF HitIsOwnList
  <2>1. InUse(value) /\ InUse(list[c])
    BY HeldIs DEF InUse, Holder
  <2>2. value \in Lists /\ list[c] \in Lists /\ Key(value) = Key(list[c])
    BY DEF CachingInv, TypeOK, Changed
  <2> QED BY <2>1, <2>2 DEF CachingInv, ToldApart
<1> QED BY <1>1, CachingInitOK, CachingNextOK, PTL DEF CachingSpec

-----------------------------------------------------------------------------
(* The weighted balancer                                                   *)

(* Each server of the balancer is in its place, once.                      *)
Balancers ==
    [servers : Seq(Id), serversMap : SUBSET Id, weight : [Id -> Nat], index : [Id -> Int]]

Indexed(r) ==
    /\ r \in Balancers
    /\ r.serversMap = {r.servers[i] : i \in 1..Len(r.servers)}
    /\ \A i \in 1..Len(r.servers) : r.index[r.servers[i]] = i - 1

(* The principle of induction, for a set: the definitions of this model are *)
(* first-order, and sets of numbers say all that the inductions below need. *)
LEMMA InductionOn ==
    ASSUME NEW S, 0 \in S, \A k \in Nat : k \in S => k + 1 \in S
    PROVE  Nat \subseteq S
<1> DEFINE T == Nat \ S
<1> SUFFICES ASSUME T # {} PROVE FALSE
  OBVIOUS
<1>1. PICK x \in T : \A y \in T : ~(<<y, x>> \in OpToRel(<, Nat))
  BY WFMin, NatLessThanWellFounded, Zenon
<1>2. x \in Nat \ {0}
  OBVIOUS
<1>3. x - 1 \in Nat /\ x - 1 < x /\ (x - 1) + 1 = x
  BY <1>2
<1>4. x - 1 \notin T
  BY <1>1, <1>3 DEF OpToRel
<1> QED BY <1>3, <1>4

(* f holds the cumulative weights of the first n servers of r.              *)
IsSums(f, n, r) ==
    f = [i \in 0..n |-> IF i = 0 THEN 0 ELSE f[i - 1] + r.weight[r.servers[i]]]

(* The function that BuildServerList defines by recursion exists.           *)
LEMMA SumsExist ==
    ASSUME NEW n \in Nat, NEW r
    PROVE  \E f : IsSums(f, n, r)
<1> DEFINE weight(i) == r.weight[r.servers[i]]
           Upto(k, h) == \A i \in 0..k : h[i] = IF i = 0 THEN 0 ELSE h[i - 1] + weight(i)
           S == {k \in Nat : \E h : Upto(k, h)}
<1>1. 0 \in S
  <2>1. Upto(0, [i \in 0..0 |-> 0])
    OBVIOUS
  <2> QED BY <2>1
<1>2. ASSUME NEW k \in Nat, k \in S PROVE k + 1 \in S
  <2>1. PICK h : Upto(k, h)
    BY <1>2
  <2> DEFINE j == [i \in 0..k + 1 |-> IF i = k + 1 THEN h[k] + weight(k + 1) ELSE h[i]]
  <2>2. Upto(k + 1, j)
    <3> SUFFICES ASSUME NEW i \in 0..k + 1
                 PROVE  j[i] = IF i = 0 THEN 0 ELSE j[i - 1] + r.weight[r.servers[i]]
      OBVIOUS
    <3>1. CASE i = k + 1
      BY <3>1
    <3>2. CASE i # k + 1
      <4>1. i \in 0..k /\ (i # 0 => i - 1 \in 0..k)
        BY <3>2
      <4>2. h[i] = IF i = 0 THEN 0 ELSE h[i - 1] + r.weight[r.servers[i]]
        BY <2>1, <4>1
      <4> QED BY <4>1, <4>2
    <3> QED BY <3>1, <3>2
  <2>3. \E x : Upto(k + 1, x)
    <3> HIDE DEF Upto, j
    <3> QED BY <2>2
  <2> QED BY <2>3
<1>3. n \in S
  BY <1>1, <1>2, InductionOn
<1>4. PICK h : Upto(n, h)
  BY <1>3
<1> DEFINE f == [i \in 0..n |-> h[i]]
<1>5. IsSums(f, n, r)
  <2>1. \A i \in 0..n : h[i] = IF i = 0 THEN 0 ELSE f[i - 1] + r.weight[r.servers[i]]
    BY <1>4
  <2> QED BY <2>1 DEF IsSums
<1> QED BY <1>5

(* It grows by each weight in turn.                                         *)
LEMMA SumsGrow ==
    ASSUME NEW r, Indexed(r), NEW f, IsSums(f, Len(r.servers), r)
    PROVE  /\ f \in [0..Len(r.servers) -> Nat]
           /\ f[0] = 0
           /\ \A i \in 1..Len(r.servers) : f[i] = f[i - 1] + r.weight[r.servers[i]]
           /\ \A i, j \in 0..Len(r.servers) : i <= j => f[i] <= f[j]
<1> DEFINE n == Len(r.servers)
<1>0. n \in Nat /\ (\A i \in 1..n : r.weight[r.servers[i]] \in Nat) /\ IsSums(f, n, r)
  BY DEF Indexed, Balancers
<1> HIDE DEF n
<1>1. f[0] = 0 /\ \A i \in 1..n : f[i] = f[i - 1] + r.weight[r.servers[i]]
  <2>1. \A i \in 0..n : f[i] = IF i = 0 THEN 0 ELSE f[i - 1] + r.weight[r.servers[i]]
    BY <1>0, Zenon DEF IsSums
  <2> QED BY <1>0, <2>1
<1> DEFINE S == {k \in Nat : k <= n => f[k] \in Nat}
<1>2. 0 \in S
  BY <1>0, <1>1
<1>3. ASSUME NEW k \in Nat, k \in S PROVE k + 1 \in S
  <2> SUFFICES ASSUME k + 1 <= n PROVE f[k + 1] \in Nat
    OBVIOUS
  <2>1. f[k] \in Nat /\ k + 1 \in 1..n
    BY <1>0, <1>3
  <2> QED BY <1>0, <1>1, <2>1
<1>4. \A i \in 0..n : f[i] \in Nat
  <2>1. Nat \subseteq S
    <3> HIDE DEF S
    <3> QED BY <1>2, <1>3, InductionOn
  <2> SUFFICES ASSUME NEW i \in 0..n PROVE f[i] \in Nat
    OBVIOUS
  <2>2. i \in S /\ i <= n
    <3> HIDE DEF S
    <3> QED BY <1>0, <2>1
  <2> QED BY <2>2
<1>5. f \in [0..n -> Nat]
  <2>1. f = [i \in 0..n |-> f[i]]
    BY <1>0, Zenon DEF IsSums
  <2> QED BY <1>4, <2>1
<1>6. ASSUME NEW i \in 0..n, NEW j \in 0..n, i <= j PROVE f[i] <= f[j]
  <2> DEFINE R == {d \in Nat : i + d <= n => f[i] <= f[i + d]}
  <2>1. 0 \in R
    BY <1>4
  <2>2. ASSUME NEW d \in Nat, d \in R PROVE d + 1 \in R
    <3> SUFFICES ASSUME i + (d + 1) <= n PROVE f[i] <= f[i + (d + 1)]
      OBVIOUS
    <3>1. /\ f[i] <= f[i + d] /\ i + d \in 0..n
          /\ i + (d + 1) \in 1..n /\ (i + (d + 1)) - 1 = i + d
      BY <1>0, <2>2
    <3>2. f[i + (d + 1)] = f[i + d] + r.weight[r.servers[i + (d + 1)]]
      BY <1>1, <3>1
    <3>3. r.weight[r.servers[i + (d + 1)]] \in Nat /\ f[i] \in Nat /\ f[i + d] \in Nat
      BY <1>0, <1>4, <3>1
    <3> QED BY <3>1, <3>2, <3>3
  <2>3. j - i \in R
    <3>1. j - i \in Nat
      BY <1>0, <1>6
    <3> QED BY <2>1, <2>2, <3>1, InductionOn
  <2> QED BY <1>6, <2>3
<1> QED BY <1>1, <1>5, <1>6 DEF n

(* s holds what the binary search of nextServer for val ends at, for each   *)
(* range of positions of l.                                                 *)
Searched(s, n, l, val) ==
    s = [range \in (0..n) \X (0..n) |->
            LET li == range[1]
                ri == range[2]
                m == (li + ri) \div 2
            IN  IF li >= ri THEN li
                ELSE IF l[m + 1].weight <= val THEN s[<<m + 1, ri>>]
                ELSE s[<<li, m>>]]

(* One step of it.                                                          *)
SearchStep(s, li, ri, l, val) ==
    LET m == (li + ri) \div 2
    IN  IF li >= ri THEN li
        ELSE IF l[m + 1].weight <= val THEN s[<<m + 1, ri>>]
        ELSE s[<<li, m>>]

(* s and t agree on the ranges no longer than d.                            *)
SameUpTo(s, t, d, n) == \A li, ri \in 0..n : ri - li <= d => s[<<li, ri>>] = t[<<li, ri>>]

(* The middle of a range is in it.                                          *)
LEMMA Middle ==
    \A a, b \in Nat : a < b => /\ (a + b) \div 2 \in Nat
                              /\ a <= (a + b) \div 2
                              /\ (a + b) \div 2 < b
OBVIOUS

(* The search goes on in a shorter range.                                   *)
LEMMA SearchNarrows ==
    ASSUME NEW n \in Nat, NEW l, NEW val, NEW d \in Nat, NEW s, NEW t,
           SameUpTo(s, t, d, n),
           NEW li \in 0..n, NEW ri \in 0..n, ri - li <= d + 1
    PROVE  SearchStep(s, li, ri, l, val) = SearchStep(t, li, ri, l, val)
<1> DEFINE m == (li + ri) \div 2
<1>1. CASE li >= ri
  BY <1>1 DEF SearchStep
<1>2. CASE li < ri
  <2>1. m \in Nat /\ li <= m /\ m < ri
    BY <1>2, Middle
  <2>2. m \in 0..n /\ m + 1 \in 0..n /\ m - li <= d /\ ri - (m + 1) <= d
    <3> HIDE DEF m
    <3> QED BY <2>1
  <2>3. s[<<m + 1, ri>>] = t[<<m + 1, ri>>] /\ s[<<li, m>>] = t[<<li, m>>]
    <3> HIDE DEF m
    <3> QED BY <2>2 DEF SameUpTo
  <2> QED BY <1>2, <2>3 DEF SearchStep
<1> QED BY <1>1, <1>2

(* So the function that NextServer defines by recursion exists.             *)
LEMMA SearchExists ==
    ASSUME NEW n \in Nat, NEW l, NEW val
    PROVE  \E s : Searched(s, n, l, val)
<1> DEFINE Upto(d, s) == \A li, ri \in 0..n :
                            ri - li <= d => s[<<li, ri>>] = SearchStep(s, li, ri, l, val)
           S == {d \in Nat : \E s : Upto(d, s)}
<1>1. 0 \in S
  <2> DEFINE s == [range \in (0..n) \X (0..n) |-> range[1]]
  <2>1. Upto(0, s)
    BY DEF SearchStep
  <2>2. \E x : Upto(0, x)
    <3> HIDE DEF Upto, s
    <3> QED BY <2>1
  <2> QED BY <2>2
<1>2. ASSUME NEW d \in Nat, d \in S PROVE d + 1 \in S
  <2>1. PICK s : Upto(d, s)
    BY <1>2
  <2> DEFINE t == [range \in (0..n) \X (0..n) |-> SearchStep(s, range[1], range[2], l, val)]
  <2>2. \A li, ri \in 0..n : t[<<li, ri>>] = SearchStep(s, li, ri, l, val)
    OBVIOUS
  <2> HIDE DEF t
  <2>3. SameUpTo(s, t, d, n)
    BY <2>1, <2>2 DEF SameUpTo
  <2>4. ASSUME NEW li \in 0..n, NEW ri \in 0..n, ri - li <= d + 1
        PROVE  SearchStep(s, li, ri, l, val) = SearchStep(t, li, ri, l, val)
    BY <2>3, <2>4, SearchNarrows
  <2>5. Upto(d + 1, t)
    BY <2>2, <2>4
  <2>6. \E x : Upto(d + 1, x)
    <3> HIDE DEF Upto
    <3> QED BY <2>5
  <2> HIDE DEF Upto
  <2> QED BY <2>6
<1>3. n \in S
  <2> HIDE DEF S
  <2> QED BY <1>1, <1>2, InductionOn
<1>4. PICK s : Upto(n, s)
  BY <1>3
<1> DEFINE t == [range \in (0..n) \X (0..n) |-> s[range]]
<1>5. SameUpTo(s, t, n, n)
  BY DEF SameUpTo
<1>6. t = [range \in (0..n) \X (0..n) |-> SearchStep(t, range[1], range[2], l, val)]
  <2>1. ASSUME NEW range \in (0..n) \X (0..n)
        PROVE  s[range] = SearchStep(t, range[1], range[2], l, val)
    <3>1. PICK li \in 0..n, ri \in 0..n : range = <<li, ri>>
      OBVIOUS
    <3> HIDE DEF t
    <3>2. s[<<li, ri>>] = SearchStep(s, li, ri, l, val)
      BY <1>4
    <3>3. ri - li <= n + 1
      OBVIOUS
    <3>4. SearchStep(s, li, ri, l, val) = SearchStep(t, li, ri, l, val)
      BY <1>5, <3>3, SearchNarrows
    <3> QED BY <3>1, <3>2, <3>4
  <2> QED BY <2>1
<1>7. Searched(t, n, l, val)
  <2> HIDE DEF t
  <2> QED BY <1>6, Zenon DEF Searched, SearchStep
<1> QED BY <1>7

(* The search ends where the cumulative weights pass val: all along, the    *)
(* weights before li are not above val, and the weight at ri is, unless ri  *)
(* is behind the last.                                                      *)
LEMMA SearchFinds ==
    ASSUME NEW n \in Nat, NEW f \in [0..n -> Nat], NEW l,
           \A i \in 1..n : l[i].weight = f[i],
           NEW val \in Nat, f[0] = 0, val < f[n],
           NEW s, Searched(s, n, l, val)
    PROVE  /\ s[<<0, n>>] \in 0..n - 1
           /\ f[s[<<0, n>>]] <= val /\ val < f[s[<<0, n>>] + 1]
<1> DEFINE Found(p) == p \in 0..n - 1 /\ f[p] <= val /\ val < f[p + 1]
           Holds(li, ri) == f[li] <= val /\ (ri = n \/ val < f[ri + 1])
           S == {d \in Nat : \A li, ri \in 0..n :
                     li <= ri /\ ri - li <= d /\ Holds(li, ri) => Found(s[<<li, ri>>])}
<1>1. \A li, ri \in 0..n : s[<<li, ri>>] = SearchStep(s, li, ri, l, val)
  BY DEF Searched, SearchStep
<1>2. ASSUME NEW li \in 0..n, Holds(li, li) PROVE Found(s[<<li, li>>])
  <2>1. s[<<li, li>>] = li
    <3>1. li >= li
      OBVIOUS
    <3>2. SearchStep(s, li, li, l, val) = li
      BY <3>1 DEF SearchStep
    <3> QED BY <1>1, <3>2
  <2>2. li # n
    BY <1>2
  <2> QED BY <1>2, <2>1, <2>2
<1>3. 0 \in S
  <2> SUFFICES ASSUME NEW li \in 0..n, NEW ri \in 0..n, li <= ri, ri - li <= 0,
                      Holds(li, ri)
               PROVE  Found(s[<<li, ri>>])
    BY Zenon
  <2>1. li = ri
    OBVIOUS
  <2> QED BY <1>2, <2>1
<1>4. ASSUME NEW d \in Nat, d \in S PROVE d + 1 \in S
  <2> SUFFICES ASSUME NEW li \in 0..n, NEW ri \in 0..n, li <= ri, ri - li <= d + 1,
                      Holds(li, ri)
               PROVE  Found(s[<<li, ri>>])
    OBVIOUS
  <2> DEFINE m == (li + ri) \div 2
  <2>1. CASE li = ri
    BY <1>2, <2>1
  <2>2. CASE li < ri
    <3>1. m \in Nat /\ li <= m /\ m < ri
      BY <2>2, Middle
    <3>2. s[<<li, ri>>] = IF f[m + 1] <= val THEN s[<<m + 1, ri>>] ELSE s[<<li, m>>]
      <4>1. m + 1 \in 1..n
        <5> HIDE DEF m
        <5> QED BY <3>1
      <4>2. l[m + 1].weight = f[m + 1]
        <5> HIDE DEF m
        <5> QED BY <4>1
      <4>3. ~(li >= ri)
        BY <2>2
      <4>4. SearchStep(s, li, ri, l, val)
               = IF f[m + 1] <= val THEN s[<<m + 1, ri>>] ELSE s[<<li, m>>]
        BY <4>2, <4>3, Zenon DEF SearchStep
      <4> QED BY <1>1, <4>4
    <3> HIDE DEF m
    <3>3. m \in 0..n /\ m + 1 \in 0..n /\ m + 1 <= ri /\ ri - (m + 1) <= d /\ m - li <= d
      BY <3>1
    <3>4. CASE f[m + 1] <= val
      BY <1>4, <3>2, <3>3, <3>4
    <3>5. CASE val < f[m + 1]
      <4>1. ~(f[m + 1] <= val)
        BY <3>3, <3>5
      <4> QED BY <1>4, <3>1, <3>2, <3>3, <3>5, <4>1
    <3> QED BY <3>3, <3>4, <3>5
  <2> QED BY <2>1, <2>2
<1>5. n \in S
  <2> HIDE DEF S
  <2> QED BY <1>3, <1>4, InductionOn
<1> QED BY <1>5

(* What buildServerList computes: servers with cumulative weights.          *)
LEMMA ServerList ==
    ASSUME NEW r, Indexed(r)
    PROVE  \E f \in [0..Len(r.servers) -> Nat] :
              /\ f[0] = 0
              /\ \A i \in 1..Len(r.servers) : f[i] = f[i - 1] + r.weight[r.servers[i]]
              /\ \A i, j \in 0..Len(r.servers) : i <= j => f[i] <= f[j]
              /\ BuildServerList(r)
                    = [i \in 1..Len(r.servers) |-> [id |-> r.servers[i], weight |-> f[i]]]
<1> DEFINE n == Len(r.servers)
           f == CHOOSE h : h = [i \in 0..n |-> IF i = 0 THEN 0
                                               ELSE h[i - 1] + r.weight[r.servers[i]]]
<1>1. n \in Nat
  BY DEF Indexed, Balancers
<1>2. BuildServerList(r) = [i \in 1..n |-> [id |-> r.servers[i], weight |-> f[i]]]
  BY Zenon DEF BuildServerList
<1> HIDE DEF n
<1>3. IsSums(f, n, r)
  BY <1>1, SumsExist, Zenon DEF IsSums
<1> HIDE DEF f
<1>4. /\ f \in [0..Len(r.servers) -> Nat]
      /\ f[0] = 0
      /\ \A i \in 1..Len(r.servers) : f[i] = f[i - 1] + r.weight[r.servers[i]]
      /\ \A i, j \in 0..Len(r.servers) : i <= j => f[i] <= f[j]
  BY <1>3, SumsGrow DEF n
<1> QED BY <1>2, <1>4, Zenon DEF n

(* built carries the weights that f says.                                   *)
Cumulates(built, f) == \A i \in 1..Len(built) : built[i].weight = f[i]

(* NextServer gives the server whose share of the numbers val is in.        *)
LEMMA NextServerFinds ==
    ASSUME NEW n \in Nat, NEW f \in [0..n -> Nat], f[0] = 0, NEW built,
           Len(built) = n, Cumulates(built, f),
           NEW val \in Nat, val < f[n]
    PROVE  \E i \in 1..n : /\ NextServer(built, val) = built[i].id
                           /\ f[i - 1] <= val /\ val < f[i]
<1> DEFINE s == CHOOSE h : Searched(h, n, built, val)
<1>1. Searched(s, n, built, val)
  BY SearchExists
<1>2. NextServer(built, val) = built[s[<<0, n>>] + 1].id
  BY Zenon DEF NextServer, Searched
<1> HIDE DEF s
<1>3. /\ s[<<0, n>>] \in 0..n - 1
      /\ f[s[<<0, n>>]] <= val /\ val < f[s[<<0, n>>] + 1]
  BY <1>1, SearchFinds DEF Cumulates
<1> DEFINE i == s[<<0, n>>] + 1
<1>4. i \in 1..n /\ i - 1 = s[<<0, n>>]
  <2>1. \A p \in 0..n - 1 : p + 1 \in 1..n /\ (p + 1) - 1 = p
    OBVIOUS
  <2> QED BY <1>3, <2>1
<1> QED BY <1>2, <1>3, <1>4

(* Each server is found for as many numbers as its weight says.            *)
LEMMA WeightsArePicked ==
    ASSUME NEW r, Indexed(r), NEW id \in Id
    PROVE  LET built == BuildServerList(r)
               drawn == 0..SumOfWeights(built) - 1
           IN  Cardinality({val \in drawn : NextServer(built, val) = id})
                   = IF id \in r.serversMap THEN r.weight[id] ELSE 0
<1> DEFINE n == Len(r.servers)
           built == BuildServerList(r)
           drawn == 0..SumOfWeights(built) - 1
           found == {val \in drawn : NextServer(built, val) = id}
<1>1. /\ n \in Nat
      /\ \A i \in 1..n : r.servers[i] \in r.serversMap /\ r.index[r.servers[i]] = i - 1
  BY DEF Indexed, Balancers
<1>2. PICK f \in [0..n -> Nat] :
         /\ f[0] = 0
         /\ \A i \in 1..n : f[i] = f[i - 1] + r.weight[r.servers[i]]
         /\ \A i, j \in 0..n : i <= j => f[i] <= f[j]
         /\ built = [i \in 1..n |-> [id |-> r.servers[i], weight |-> f[i]]]
  BY ServerList
<1>3. id \in r.serversMap => \E i \in 1..n : id = r.servers[i]
  BY DEF Indexed
<1> HIDE DEF n, built
<1>4. /\ Len(built) = n
      /\ \A i \in 1..n : built[i].weight = f[i] /\ built[i].id = r.servers[i]
  BY <1>1, <1>2
<1>5. SumOfWeights(built) = f[n]
  <2>1. CASE n = 0
    BY <1>2, <1>4, <2>1 DEF SumOfWeights
  <2>2. CASE n # 0
    BY <1>1, <1>2, <1>4, <2>2 DEF SumOfWeights
  <2> QED BY <2>1, <2>2
<1>6. \A val \in drawn : \E i \in 1..n : /\ NextServer(built, val) = r.servers[i]
                                       /\ f[i - 1] <= val /\ val < f[i]
  <2> SUFFICES ASSUME NEW val \in drawn
               PROVE  \E i \in 1..n : /\ NextServer(built, val) = r.servers[i]
                                      /\ f[i - 1] <= val /\ val < f[i]
    OBVIOUS
  <2>1. val \in Nat /\ val < f[n]
    BY <1>1, <1>2, <1>5
  <2>2. \E i \in 1..n : /\ NextServer(built, val) = built[i].id
                        /\ f[i - 1] <= val /\ val < f[i]
    <3>1. Cumulates(built, f)
      BY <1>4 DEF Cumulates
    <3>2. n \in Nat /\ f \in [0..n -> Nat] /\ f[0] = 0 /\ Len(built) = n
      BY <1>1, <1>2, <1>4
    <3> QED BY <2>1, <3>1, <3>2, NextServerFinds, ZenonT(60)
  <2> QED BY <1>4, <2>2
<1>7. CASE id \notin r.serversMap
  <2>1. found = {}
    BY <1>1, <1>6, <1>7
  <2>2. Cardinality(found) = 0
    <3> HIDE DEF found
    <3> QED BY <2>1, FS_EmptySet
  <2> QED BY <1>7, <2>2 DEF built
<1>8. CASE id \in r.serversMap
  <2>1. PICK k \in 1..n : id = r.servers[k]
    BY <1>3, <1>8
  <2>2. /\ f[k - 1] \in Nat /\ f[k] \in Nat /\ r.weight[id] \in Nat
        /\ f[k] = f[k - 1] + r.weight[id] /\ f[k] <= f[n]
    <3>1. k - 1 \in 0..n /\ k \in 0..n /\ n \in 0..n /\ k <= n
      BY <1>1, <2>1
    <3>2. f[k - 1] \in Nat /\ f[k] \in Nat /\ f[k] <= f[n]
      BY <1>2, <3>1
    <3>3. r.weight[id] \in Nat
      BY <1>8 DEF Indexed, Balancers
    <3>4. f[k] = f[k - 1] + r.weight[id]
      BY <1>2, <2>1
    <3> QED BY <3>2, <3>3, <3>4
  <2>3. found = f[k - 1]..f[k] - 1
    <3>1. ASSUME NEW val \in found PROVE val \in f[k - 1]..f[k] - 1
      <4>1. PICK i \in 1..n : /\ NextServer(built, val) = r.servers[i]
                             /\ f[i - 1] <= val /\ val < f[i]
        BY <1>6
      <4>2. i = k
        <5>1. r.servers[i] = r.servers[k]
          BY <2>1, <4>1
        <5>2. i - 1 = k - 1
          BY <1>1, <5>1
        <5> QED BY <1>1, <5>2
      <4> QED BY <2>2, <4>1, <4>2
    <3>2. ASSUME NEW val \in f[k - 1]..f[k] - 1 PROVE val \in found
      <4>1. val \in drawn
        BY <1>1, <1>2, <1>5, <2>2
      <4>2. PICK i \in 1..n : /\ NextServer(built, val) = r.servers[i]
                             /\ f[i - 1] <= val /\ val < f[i]
        BY <1>6, <4>1
      <4>3. i <= k
        <5>1. CASE k < i
          <6>1. k <= i - 1 /\ i - 1 \in 0..n /\ k \in 0..n
            BY <1>1, <5>1
          <6>2. f[k] <= f[i - 1] /\ f[i - 1] \in Nat
            BY <1>2, <6>1
          <6> QED BY <2>2, <4>2, <6>2
        <5> QED BY <5>1
      <4>4. k <= i
        <5>1. CASE i < k
          <6>1. i <= k - 1 /\ k - 1 \in 0..n /\ i \in 0..n
            BY <1>1, <5>1
          <6>2. f[i] <= f[k - 1] /\ f[i] \in Nat
            BY <1>2, <6>1
          <6> QED BY <2>2, <4>2, <6>2
        <5> QED BY <5>1
      <4> QED BY <2>1, <4>1, <4>2, <4>3, <4>4
    <3> HIDE DEF found
    <3> QED BY <3>1, <3>2
  <2>4. Cardinality(f[k - 1]..f[k] - 1) = r.weight[id]
    <3>1. f[k - 1] \in Int /\ f[k] - 1 \in Int
      BY <2>2
    <3>2. Cardinality(f[k - 1]..f[k] - 1)
             = IF f[k - 1] > f[k] - 1 THEN 0 ELSE (f[k] - 1) - f[k - 1] + 1
      BY <3>1, FS_Interval
    <3> QED BY <2>2, <3>2
  <2> QED BY <1>8, <2>3, <2>4 DEF built
<1> QED BY <1>7, <1>8

(* A new balancer has every server in its place, ...                        *)
LEMMA NewIndexed ==
    Indexed(NewRoundRobinWeight) /\ BuildServerList(NewRoundRobinWeight) = <<>>
<1> DEFINE r == NewRoundRobinWeight
<1>1. r.servers = <<>> /\ r.serversMap = {} /\ r \in Balancers
  BY DEF NewRoundRobinWeight, Balancers
<1>2. Len(r.servers) = 0
  BY <1>1
<1>3. Indexed(r)
  <2> HIDE DEF r
  <2> QED BY <1>1, <1>2 DEF Indexed
<1>4. PICK f : BuildServerList(r)
                  = [i \in 1..Len(r.servers) |-> [id |-> r.servers[i], weight |-> f[i]]]
  BY <1>3, ServerList
<1>5. BuildServerList(r) = <<>>
  BY <1>2, <1>4
<1> QED BY <1>3, <1>5

(* ... so does one that UpsertServer put a server behind the others of, ... *)
LEMMA UpsertIndexes ==
    ASSUME NEW r, Indexed(r), NEW id \in Id, NEW weight \in Nat
    PROVE  /\ Indexed(UpsertServer(r, id, weight))
           /\ UpsertServer(r, id, weight).serversMap = r.serversMap \cup {id}
<1>1. CASE id \in r.serversMap
  BY <1>1 DEF UpsertServer
<1>2. CASE id \notin r.serversMap
  <2> DEFINE q == UpsertServer(r, id, weight)
             n == Len(r.servers)
  <2>1. n \in Nat /\ r.servers \in Seq(Id)
    BY DEF Indexed, Balancers
  <2>2. /\ q.servers = Append(r.servers, id)
        /\ q.serversMap = r.serversMap \cup {id}
        /\ q.index = [r.index EXCEPT ![id] = n]
        /\ q.weight = [r.weight EXCEPT ![id] = IF weight = 0 THEN DefaultWeight ELSE weight]
        /\ q = [servers |-> q.servers, serversMap |-> q.serversMap,
                weight |-> q.weight, index |-> q.index]
    BY <1>2 DEF UpsertServer, Indexed, Balancers
  <2> HIDE DEF q
  <2>3. Len(q.servers) = n + 1 /\ q.servers \in Seq(Id) /\ q.servers[n + 1] = id
        /\ \A i \in 1..n : q.servers[i] = r.servers[i]
    BY <2>1, <2>2
  <2>4. q \in Balancers
    <3>1. q.weight \in [Id -> Nat] /\ q.index \in [Id -> Int]
      BY <2>1, <2>2 DEF Indexed, Balancers, DefaultWeight
    <3>2. q.serversMap \in SUBSET Id
      BY <2>2 DEF Indexed, Balancers
    <3> QED BY <2>2, <2>3, <3>1, <3>2 DEF Balancers
  <2> HIDE DEF n
  <2>5. q.serversMap = {q.servers[i] : i \in 1..n + 1}
    <3>1. r.serversMap = {r.servers[i] : i \in 1..n}
      BY DEF Indexed, n
    <3> QED BY <2>1, <2>2, <2>3, <3>1
  <2>6. \A i \in 1..n + 1 : q.index[q.servers[i]] = i - 1
    <3>1. \A i \in 1..n : /\ r.servers[i] \in r.serversMap /\ r.servers[i] \in Id
                          /\ r.index[r.servers[i]] = i - 1
      BY DEF Indexed, Balancers, n
    <3>2. r.index \in [Id -> Int]
      BY DEF Indexed, Balancers
    <3>3. \A i \in 1..n : q.index[q.servers[i]] = i - 1
      <4> SUFFICES ASSUME NEW i \in 1..n PROVE q.index[q.servers[i]] = i - 1
        OBVIOUS
      <4>1. q.servers[i] = r.servers[i] /\ r.servers[i] # id
        BY <1>2, <2>3, <3>1
      <4> QED BY <2>2, <3>1, <3>2, <4>1
    <3>4. q.index[q.servers[n + 1]] = (n + 1) - 1
      BY <2>1, <2>2, <2>3, <3>2
    <3> QED BY <2>1, <3>3, <3>4
  <2> QED BY <2>2, <2>3, <2>4, <2>5, <2>6 DEF Indexed, q
<1> QED BY <1>1, <1>2

(* ... and one that RemoveServer took a server out of: those behind it move *)
(* up, and their indexes with them.                                         *)
LEMMA RemoveIndexes ==
    ASSUME NEW r, Indexed(r), NEW id \in r.serversMap
    PROVE  /\ Indexed(RemoveServer(r, id))
           /\ RemoveServer(r, id).serversMap = r.serversMap \ {id}
<1> DEFINE q == RemoveServer(r, id)
           n == Len(r.servers)
<1>1. n \in Nat /\ r.servers \in Seq(Id) /\ r.index \in [Id -> Int] /\ id \in Id
  BY DEF Indexed, Balancers
<1>2. PICK k \in 1..n : id = r.servers[k] /\ r.index[id] = k - 1
  BY DEF Indexed
<1> DEFINE before == SubSeq(r.servers, 1, k - 1)
           after == SubSeq(r.servers, k + 1, n)
<1>3. /\ q.servers = before \o after
      /\ q.serversMap = r.serversMap \ {id}
      /\ q.weight = r.weight
      /\ q.index = [x \in Id |-> IF \E i \in k + 1..n : r.servers[i] = x
                                THEN r.index[x] - 1 ELSE r.index[x]]
      /\ q = [servers |-> q.servers, serversMap |-> q.serversMap,
              weight |-> q.weight, index |-> q.index]
  <2>1. r.index[id] = k - 1 /\ (k - 1) + 2 = k + 1
    BY <1>1, <1>2
  <2> QED BY <2>1 DEF RemoveServer, MoveUp, Indexed, Balancers
<1>4. /\ before \in Seq(Id) /\ Len(before) = k - 1
      /\ \A i \in 1..k - 1 : before[i] = r.servers[i]
  <2>1. \A i \in 1..k - 1 : r.servers[i] \in Id
    BY <1>1
  <2>2. 1 \in Int /\ k - 1 \in Int
    BY <1>1
  <2> QED BY <1>1, <2>1, <2>2, SubSeqProperties
<1>5. /\ after \in Seq(Id) /\ Len(after) = n - k
      /\ \A i \in 1..n - k : after[i] = r.servers[k + i]
  <2>1. \A i \in k + 1..n : r.servers[i] \in Id
    BY <1>1
  <2>2. k + 1 \in Int /\ n \in Int
    BY <1>1
  <2> QED BY <1>1, <2>1, <2>2, SubSeqProperties
<1> HIDE DEF q, before, after
<1>6. /\ q.servers \in Seq(Id) /\ Len(q.servers) = n - 1
      /\ \A i \in 1..n - 1 :
            q.servers[i] = IF i <= k - 1 THEN r.servers[i] ELSE r.servers[i + 1]
  <2> HIDE DEF n
  <2>1. /\ q.servers \in Seq(Id) /\ Len(q.servers) = Len(before) + Len(after)
        /\ \A i \in 1..Len(before) + Len(after) :
              q.servers[i] = IF i <= Len(before) THEN before[i] ELSE after[i - Len(before)]
    BY <1>3, <1>4, <1>5, ConcatProperties
  <2>2. Len(before) + Len(after) = n - 1
    BY <1>1, <1>4, <1>5
  <2>3. ASSUME NEW i \in 1..n - 1
        PROVE  q.servers[i] = IF i <= k - 1 THEN r.servers[i] ELSE r.servers[i + 1]
    <3>1. CASE i <= k - 1
      <4>1. i \in 1..k - 1 /\ Len(before) = k - 1
        BY <1>1, <1>4, <3>1
      <4> QED BY <1>4, <2>1, <2>2, <3>1, <4>1
    <3>2. CASE ~(i <= k - 1)
      <4>1. i - (k - 1) \in 1..n - k /\ k + (i - (k - 1)) = i + 1
        BY <1>1, <3>2
      <4> QED BY <1>4, <1>5, <2>1, <2>2, <3>2, <4>1
    <3> QED BY <3>1, <3>2
  <2> QED BY <2>1, <2>2, <2>3
<1>7. q \in Balancers
  <2>1. \A x \in Id : r.index[x] \in Int /\ r.index[x] - 1 \in Int
    BY <1>1
  <2>2. q.index \in [Id -> Int]
    BY <1>3, <2>1
  <2> QED BY <1>3, <1>6, <2>2 DEF Indexed, Balancers
<1> HIDE DEF n
<1>8. \A i \in 1..n : r.index[r.servers[i]] = i - 1 /\ r.servers[i] \in Id
  BY DEF Indexed, Balancers, n
<1>9. q.serversMap = {q.servers[i] : i \in 1..n - 1}
  <2>1. r.serversMap = {r.servers[i] : i \in 1..n}
    BY DEF Indexed, n
  <2>2. ASSUME NEW x \in q.serversMap PROVE \E i \in 1..n - 1 : x = q.servers[i]
    <3>1. PICK j \in 1..n : x = r.servers[j] /\ j # k
      BY <1>2, <1>3, <2>1
    <3>2. CASE j < k
      BY <1>1, <1>6, <3>1, <3>2
    <3>3. CASE j > k
      <4>1. j - 1 \in 1..n - 1 /\ ~(j - 1 <= k - 1) /\ (j - 1) + 1 = j
        BY <1>1, <3>3
      <4> QED BY <1>6, <3>1, <4>1
    <3> QED BY <1>1, <3>1, <3>2, <3>3
  <2>3. ASSUME NEW i \in 1..n - 1 PROVE q.servers[i] \in q.serversMap
    <3>1. PICK j \in 1..n : q.servers[i] = r.servers[j] /\ j # k
      <4>1. /\ i \in 1..n /\ i + 1 \in 1..n
            /\ IF i <= k - 1 THEN i # k ELSE i + 1 # k
        BY <1>1
      <4> QED BY <1>6, <4>1
    <3>2. r.servers[j] # r.servers[k]
      BY <1>1, <1>8, <3>1
    <3> QED BY <1>2, <1>3, <2>1, <3>1, <3>2
  <2> QED BY <2>2, <2>3
<1>10. ASSUME NEW i \in 1..n - 1 PROVE q.index[q.servers[i]] = i - 1
  <2>1. CASE i <= k - 1
    <3>1. q.servers[i] = r.servers[i]
      BY <1>6, <2>1
    <3>2. i \in 1..n
      BY <1>1
    <3>3. ~\E j \in k + 1..n : r.servers[j] = r.servers[i]
      <4> SUFFICES ASSUME NEW j \in k + 1..n, r.servers[j] = r.servers[i] PROVE FALSE
        OBVIOUS
      <4>1. j \in 1..n
        BY <1>1
      <4>2. j - 1 = i - 1
        BY <1>8, <3>2, <4>1
      <4> QED BY <1>1, <2>1, <4>2
    <3> QED BY <1>3, <1>8, <3>1, <3>2, <3>3
  <2>2. CASE ~(i <= k - 1)
    <3>1. q.servers[i] = r.servers[i + 1]
      BY <1>6, <2>2
    <3>2. i + 1 \in k + 1..n /\ i + 1 \in 1..n /\ (i + 1) - 1 = i
      BY <1>1, <2>2
    <3>3. r.index[r.servers[i + 1]] = i /\ r.servers[i + 1] \in Id
      BY <1>8, <3>2
    <3> QED BY <1>3, <3>1, <3>2, <3>3
  <2> QED BY <2>1, <2>2
<1> QED BY <1>3, <1>6, <1>7, <1>9, <1>10 DEF Indexed, q

-----------------------------------------------------------------------------
(* Events                                                                  *)

served == balancer.serversMap

(* The balancer is in order, and its list was built from what it is now.   *)
Target == Indexed(balancer) /\ serverList = BuildServerList(balancer)

(* What a delivery has still to come to is part of its list, or of what the*)
(* list before has more.                                                   *)
Started ==
    IF active THEN /\ entries \subseteq DOMAIN current
                   /\ dropped \subseteq DOMAIN previous \ DOMAIN current
              ELSE entries = {} /\ dropped = {}

(* Who is served is in the list before, in the one that is being delivered,*)
(* or in one whose delivery was interrupted.                               *)
ServedForAReason ==
    \A id \in served :
        \/ id \in DOMAIN previous
        \/ active /\ id \in DOMAIN current
        \/ \E l \in interrupted : id \in DOMAIN l

(* Who was in the list before and is not served is missing in one of them. *)
MissedForAReason ==
    \A id \in DOMAIN previous \ served :
        \/ active /\ id \notin DOMAIN current
        \/ \E l \in interrupted : id \notin DOMAIN l

(* What a delivery has come to is done.                                    *)
SoFar ==
    active => /\ (DOMAIN current \ DOMAIN previous) \ entries \subseteq served
              /\ ((DOMAIN previous \ DOMAIN current) \ dropped) \cap served = {}

Accounted == ~astray => ServedForAReason /\ MissedForAReason /\ SoFar

SubscriberInv == SubscriberTypeOK /\ Target /\ Started /\ Accounted

(* A list has nodes and weights.                                            *)
LEMMA ListType ==
    ASSUME NEW l \in ServiceLists
    PROVE  /\ DOMAIN l \subseteq Id
           /\ \A id \in DOMAIN l : l[id] \in Nat
BY SubscriberAssumption DEF ServiceLists, SubscriberAssumption

LEMMA NothingType == Nothing \in ServiceLists /\ DOMAIN Nothing = {}
<1>1. Nothing \in [{} -> Weight]
  BY DEF Nothing
<1> QED BY <1>1 DEF ServiceLists, Nothing

(* The type of a built list.                                               *)
LEMMA ServerListType ==
    ASSUME NEW r, Indexed(r)
    PROVE  BuildServerList(r) \in Seq([id : Id, weight : Nat])
<1>1. Len(r.servers) \in Nat /\ \A i \in 1..Len(r.servers) : r.servers[i] \in Id
  BY DEF Indexed, Balancers
<1>2. PICK f \in [0..Len(r.servers) -> Nat] :
         BuildServerList(r)
             = [i \in 1..Len(r.servers) |-> [id |-> r.servers[i], weight |-> f[i]]]
  BY ServerList
<1>3. \A i \in 1..Len(r.servers) :
          [id |-> r.servers[i], weight |-> f[i]] \in [id : Id, weight : Nat]
  BY <1>1
<1> QED BY <1>1, <1>2, <1>3, IsASeq

(* What the callback may do to its balancer.                               *)
LEMMA ServeType ==
    ASSUME Target, NEW r, Indexed(r), Serve(r) \/ UNCHANGED target
    PROVE  Target'
<1>1. CASE Serve(r)
  BY <1>1 DEF Serve, Target
<1>2. CASE UNCHANGED target
  BY <1>2 DEF target, Target
<1> QED BY <1>1, <1>2

(* How a step of delivery changes the nodes served.                        *)
LEMMA AddOrModGoes ==
    ASSUME SubscriberInv, AddOrMod
    PROVE  /\ active /\ Target'
           /\ \E id \in entries :
                 /\ served \subseteq served' /\ served' \subseteq served \cup {id}
                 /\ \/ served' = served \cup {id} /\ entries' = entries \ {id}
                       /\ UNCHANGED <<active, previous, interrupted, faults, dropped>>
                    \/ Interrupt /\ faults < MaxFaults /\ faults' = faults + 1
           /\ UNCHANGED <<strict, current, astray, lists>>
<1>1. PICK id \in entries :
         Callback(UpsertServer(balancer, id, current[id]),
                  entries' = entries \ {id} /\ UNCHANGED dropped)
  BY DEF AddOrMod
<1> DEFINE r == UpsertServer(balancer, id, current[id])
<1>2. Indexed(balancer) /\ id \in Id /\ current[id] \in Nat
  BY ListType DEF SubscriberInv, Target, Started, SubscriberTypeOK, AddOrMod
<1>3. Indexed(r) /\ r.serversMap = served \cup {id}
  BY <1>2, UpsertIndexes DEF served
<1> HIDE DEF r
<1>4. Callback(r, entries' = entries \ {id} /\ UNCHANGED dropped)
  BY <1>1 DEF r
<1>5. (Serve(r) \/ UNCHANGED target) /\ (Serve(r) => served' = served \cup {id})
  BY <1>3, <1>4 DEF Callback, Serve, served
<1>6. Target'
  BY <1>3, <1>5, ServeType DEF SubscriberInv
<1>7. UNCHANGED target => served' = served
  BY DEF target, served
<1> QED BY <1>4, <1>5, <1>6, <1>7 DEF Callback, AddOrMod

LEMMA DelGoes ==
    ASSUME SubscriberInv, Del
    PROVE  /\ active /\ entries = {} /\ Target'
           /\ \E id \in dropped :
                 /\ served' \subseteq served /\ served \subseteq served' \cup {id}
                 /\ \/ id \notin served' /\ dropped' = dropped \ {id}
                       /\ UNCHANGED <<active, previous, interrupted, faults, entries>>
                    \/ /\ Interrupt
                       /\ \/ UNCHANGED faults
                          \/ faults < MaxFaults /\ faults' = faults + 1
           /\ UNCHANGED <<strict, current, astray, lists>>
<1>1. PICK id \in dropped :
          IF id \in balancer.serversMap
          THEN Callback(RemoveServer(balancer, id),
                        dropped' = dropped \ {id} /\ UNCHANGED entries)
          ELSE \/ strict /\ Interrupt /\ UNCHANGED <<target, faults>>
               \/ /\ ~strict
                  /\ dropped' = dropped \ {id}
                  /\ UNCHANGED <<target, previous, entries, active, interrupted, faults>>
  BY DEF Del
<1>2. UNCHANGED target => served' = served /\ Target'
  BY DEF target, served, SubscriberInv, Target
<1>3. CASE id \in served
  <2> DEFINE r == RemoveServer(balancer, id)
  <2>1. Indexed(r) /\ r.serversMap = served \ {id}
    BY <1>3, RemoveIndexes DEF SubscriberInv, Target, served
  <2>2. Callback(r, dropped' = dropped \ {id} /\ UNCHANGED entries)
    BY <1>1, <1>3 DEF served
  <2> HIDE DEF r
  <2>3. (Serve(r) \/ UNCHANGED target) /\ (Serve(r) => served' = served \ {id})
    BY <2>1, <2>2 DEF Callback, Serve, served
  <2>4. Target'
    BY <2>1, <2>3, ServeType DEF SubscriberInv
  <2> QED BY <1>2, <2>2, <2>3, <2>4 DEF Callback, Del
<1>4. CASE id \notin served
  <2>1. UNCHANGED target
    BY <1>1, <1>4 DEF served
  <2>2. \/ Interrupt /\ UNCHANGED faults
        \/ /\ dropped' = dropped \ {id}
           /\ UNCHANGED <<active, previous, interrupted, faults, entries>>
    BY <1>1, <1>4 DEF served
  <2> QED BY <1>2, <1>4, <2>1, <2>2 DEF Del
<1> QED BY <1>3, <1>4

(* The types, and what a delivery has still to come to.                    *)
LEMMA TargetType ==
    ASSUME Target'
    PROVE  /\ balancer'.servers \in Seq(Id) /\ balancer'.serversMap \subseteq Id
           /\ balancer'.weight \in [Id -> Nat] /\ balancer'.index \in [Id -> Int]
           /\ serverList' \in Seq([id : Id, weight : Nat])
<1>1. Indexed(balancer') /\ serverList' = BuildServerList(balancer')
  BY DEF Target, Indexed, BuildServerList, Balancers
<1> QED BY <1>1, ServerListType DEF Indexed, Balancers

LEMMA InterruptType ==
    ASSUME SubscriberInv, active, Interrupt
    PROVE  /\ previous' \in ServiceLists /\ interrupted' \subseteq ServiceLists
           /\ active' = FALSE /\ entries' = {} /\ dropped' = {}
           /\ previous' = previous /\ interrupted' = interrupted \cup {current}
BY DEF SubscriberInv, SubscriberTypeOK, Interrupt, Returns, ListBefore

LEMMA SubscriberNextType ==
    ASSUME SubscriberInv, [SubscriberNext]_subVars
    PROVE  SubscriberTypeOK' /\ Target' /\ Started'
<1>1. CASE OnUpdateList
  <2>1. PICK l \in ServiceLists :
           /\ current' = l /\ entries' = DOMAIN l
           /\ dropped' = DOMAIN previous \ DOMAIN l
    BY <1>1 DEF OnUpdateList
  <2>2. entries' \subseteq Id /\ dropped' \subseteq Id
    BY <2>1, ListType DEF SubscriberInv, SubscriberTypeOK
  <2>3. lists' \in 0..MaxLists
    <3>1. lists \in 0..MaxLists /\ MaxLists \in Nat
      BY SubscriberAssumption DEF SubscriberInv, SubscriberTypeOK, SubscriberAssumption
    <3> QED BY <1>1, <3>1 DEF OnUpdateList
  <2>4. Target' /\ Started'
    BY <1>1, <2>1 DEF OnUpdateList, SubscriberInv, Target, Started, target
  <2> QED BY <1>1, <2>1, <2>2, <2>3, <2>4
          DEF OnUpdateList, SubscriberInv, SubscriberTypeOK, target
<1>2. CASE SkipSame
  <2>1. /\ entries' \subseteq entries
        /\ UNCHANGED <<strict, target, previous, current, dropped, active, interrupted,
                       astray, lists, faults>>
    BY <1>2 DEF SkipSame
  <2>2. Target' /\ Started'
    BY <1>2, <2>1 DEF SkipSame, SubscriberInv, Target, Started, target
  <2> QED BY <2>1, <2>2 DEF SubscriberInv, SubscriberTypeOK, target
<1>3. CASE AddOrMod
  <2>1. faults' \in 0..MaxFaults
    <3>1. faults \in 0..MaxFaults /\ MaxFaults \in Nat
      BY SubscriberAssumption DEF SubscriberInv, SubscriberTypeOK, SubscriberAssumption
    <3>2. \/ faults' = faults
          \/ faults < MaxFaults /\ faults' = faults + 1
      BY <1>3, AddOrModGoes
    <3> QED BY <3>1, <3>2
  <2>2. /\ previous' \in ServiceLists /\ interrupted' \subseteq ServiceLists
        /\ active' \in BOOLEAN /\ entries' \subseteq Id /\ dropped' \subseteq Id
        /\ Started'
    <3>1. CASE Interrupt
      BY <1>3, <3>1, InterruptType, AddOrModGoes DEF Started
    <3>2. CASE ~Interrupt
      BY <1>3, <3>2, AddOrModGoes DEF SubscriberInv, SubscriberTypeOK, Started
    <3> QED BY <3>1, <3>2
  <2> QED BY <1>3, <2>1, <2>2, AddOrModGoes, TargetType DEF SubscriberInv, SubscriberTypeOK
<1>4. CASE Del
  <2>1. faults' \in 0..MaxFaults
    <3>1. faults \in 0..MaxFaults /\ MaxFaults \in Nat
      BY SubscriberAssumption DEF SubscriberInv, SubscriberTypeOK, SubscriberAssumption
    <3>2. \/ faults' = faults
          \/ faults < MaxFaults /\ faults' = faults + 1
      BY <1>4, DelGoes
    <3> QED BY <3>1, <3>2
  <2>2. /\ previous' \in ServiceLists /\ interrupted' \subseteq ServiceLists
        /\ active' \in BOOLEAN /\ entries' \subseteq Id /\ dropped' \subseteq Id
        /\ Started'
    <3>1. CASE Interrupt
      BY <1>4, <3>1, InterruptType, DelGoes DEF Started
    <3>2. CASE ~Interrupt
      BY <1>4, <3>2, DelGoes DEF SubscriberInv, SubscriberTypeOK, Started
    <3> QED BY <3>1, <3>2
  <2> QED BY <1>4, <2>1, <2>2, DelGoes, TargetType DEF SubscriberInv, SubscriberTypeOK
<1>5. CASE Complete
  <2>1. Target' /\ Started'
    BY <1>5 DEF Complete, SubscriberInv, Target, Started, target
  <2> QED BY <1>5, <2>1 DEF Complete, SubscriberInv, SubscriberTypeOK, target
<1>6. CASE UNCHANGED subVars
  <2>1. Target' /\ Started'
    BY <1>6 DEF subVars, delivery, SubscriberInv, Target, Started, target
  <2> QED BY <1>6, <2>1 DEF subVars, delivery, SubscriberInv, SubscriberTypeOK, target
<1> QED BY <1>1, <1>2, <1>3, <1>4, <1>5, <1>6 DEF SubscriberNext

(* Adding a new node and removing an old one each bring served closer to the*)
(* list; an interruption leaves the list among the interrupted ones.  A     *)
(* delivery that ends has all of its list served, and nothing else: what the*)
(* interrupted ones left behind is repeated by it.                          *)
LEMMA AccountedNext ==
    ASSUME SubscriberInv, [SubscriberNext]_subVars
    PROVE  Accounted'
<1> SUFFICES ASSUME ~astray' PROVE ServedForAReason' /\ MissedForAReason' /\ SoFar'
  BY DEF Accounted
<1> USE DEF ServedForAReason, MissedForAReason, SoFar
<1>0. ~astray /\ ServedForAReason /\ MissedForAReason /\ SoFar
  <2>1. ~astray
    BY DEF SubscriberNext, OnUpdateList, SkipSame, AddOrMod, Del, Complete, subVars
  <2> QED BY <2>1 DEF SubscriberInv, Accounted
<1>1. CASE OnUpdateList
  <2>1. UNCHANGED <<served, previous, interrupted>>
    BY <1>1 DEF OnUpdateList, target, served
  <2>2. /\ ~active /\ entries' = DOMAIN current'
        /\ dropped' = DOMAIN previous \ DOMAIN current'
    BY <1>1 DEF OnUpdateList
  <2> HIDE DEF served
  <2> QED BY <1>0, <2>1, <2>2
<1>2. CASE SkipSame
  <2>1. UNCHANGED <<served, previous, interrupted, current, active, dropped>>
    BY <1>2 DEF SkipSame, target, served
  <2>2. (DOMAIN current \ DOMAIN previous) \ entries'
            \subseteq (DOMAIN current \ DOMAIN previous) \ entries
    BY <1>2 DEF SkipSame, IsNew
  <2> QED BY <1>0, <2>1, <2>2
<1>3. CASE AddOrMod
  <2>1. PICK id \in entries :
           /\ served \subseteq served' /\ served' \subseteq served \cup {id}
           /\ \/ served' = served \cup {id} /\ entries' = entries \ {id}
                 /\ UNCHANGED <<active, previous, interrupted, faults, dropped>>
              \/ Interrupt /\ faults < MaxFaults /\ faults' = faults + 1
    BY <1>3, AddOrModGoes
  <2>2. /\ active /\ current' = current /\ id \in DOMAIN current
        /\ dropped \subseteq DOMAIN previous \ DOMAIN current
    BY <1>3, AddOrModGoes DEF SubscriberInv, Started
  <2>3. CASE Interrupt
    BY <1>0, <2>1, <2>2, <2>3, InterruptType
  <2>4. CASE ~Interrupt
    BY <1>0, <2>1, <2>2, <2>4
  <2> QED BY <2>3, <2>4
<1>4. CASE Del
  <2>1. PICK id \in dropped :
                 /\ served' \subseteq served /\ served \subseteq served' \cup {id}
                 /\ \/ id \notin served' /\ dropped' = dropped \ {id}
                       /\ UNCHANGED <<active, previous, interrupted, faults, entries>>
                    \/ /\ Interrupt
                       /\ \/ UNCHANGED faults
                          \/ faults < MaxFaults /\ faults' = faults + 1
    BY <1>4, DelGoes
  <2>2. active /\ current' = current /\ id \in DOMAIN previous \ DOMAIN current
    BY <1>4, DelGoes DEF SubscriberInv, Started
  <2>3. CASE Interrupt
    BY <1>0, <2>1, <2>2, <2>3, InterruptType
  <2>4. CASE ~Interrupt
    BY <1>0, <2>1, <2>2, <2>4
  <2> QED BY <2>3, <2>4
<1>5. CASE Complete
  <2>1. /\ active /\ entries = {} /\ dropped = {} /\ UNCHANGED <<served, current>>
        /\ previous' = current /\ interrupted' = {} /\ active' = FALSE
        /\ \A l \in interrupted : Repeats(l)
    BY <1>5 DEF Complete, served, target
  <2>2. served \subseteq DOMAIN current
    BY <1>0, <2>1 DEF Repeats
  <2>3. DOMAIN current \subseteq served
    BY <1>0, <2>1 DEF Repeats
  <2> QED BY <2>1, <2>2, <2>3
<1>6. CASE UNCHANGED subVars
  BY <1>0, <1>6 DEF subVars, delivery, target, served
<1> QED BY <1>1, <1>2, <1>3, <1>4, <1>5, <1>6 DEF SubscriberNext

LEMMA SubscriberInitOK == SubscriberInit => SubscriberInv
<1> SUFFICES ASSUME SubscriberInit PROVE SubscriberInv
  OBVIOUS
<1>1. Target
  BY NewIndexed DEF SubscriberInit, Target
<1>2. /\ balancer.servers \in Seq(Id) /\ balancer.serversMap \subseteq Id
      /\ balancer.weight \in [Id -> Nat] /\ balancer.index \in [Id -> Int]
      /\ serverList \in Seq([id : Id, weight : Nat])
  BY <1>1, ServerListType DEF Target, Indexed, Balancers
<1>3. lists \in 0..MaxLists /\ faults \in 0..MaxFaults
  BY SubscriberAssumption DEF SubscriberInit, SubscriberAssumption
<1>4. SubscriberTypeOK
  BY <1>2, <1>3, NothingType DEF SubscriberInit, SubscriberTypeOK
<1>5. served = {}
  BY DEF SubscriberInit, served, NewRoundRobinWeight
<1>6. Started /\ Accounted
  BY <1>5, NothingType
     DEF SubscriberInit, Started, Accounted, ServedForAReason, MissedForAReason, SoFar
<1> QED BY <1>1, <1>4, <1>6 DEF SubscriberInv

(* The balancer keeps each server in its place, once, with its list built   *)
(* from the servers that are there (UpsertServer, RemoveServer, resetState), *)
(* and who is served has a reason, in whatever order deliveries end and fail.*)
THEOREM SubscriberInvariant == SubscriberSpec => []SubscriberInv
<1>1. SubscriberInv /\ [SubscriberNext]_subVars => SubscriberInv'
  BY SubscriberNextType, AccountedNext DEF SubscriberInv
<1> QED BY <1>1, SubscriberInitOK, PTL DEF SubscriberSpec

(* The events lead to the nodes of the list that was delivered last, even if *)
(* deliveries before it were interrupted and their events come again         *)
(* (onUpdateList).                                                           *)
THEOREM EventsAlwaysLeadToList == SubscriberSpec => []EventsLeadToList
<1>1. SubscriberInv => EventsLeadToList
  BY DEF SubscriberInv, Accounted, ServedForAReason, MissedForAReason, EventsLeadToList,
         served
<1> QED BY <1>1, SubscriberInvariant, PTL

(* NextServer finds each server for as many numbers as its weight says, in   *)
(* whatever order servers came and went (buildServerList, nextServer).       *)
THEOREM PicksAlwaysFollowWeights == SubscriberSpec => []PicksFollowWeights
<1>1. SubscriberInv => PicksFollowWeights
  <2> SUFFICES ASSUME SubscriberInv, NEW id \in Id
               PROVE  LET drawn == 0..SumOfWeights(serverList) - 1
                      IN  Cardinality({val \in drawn : NextServer(serverList, val) = id})
                             = IF id \in balancer.serversMap THEN balancer.weight[id] ELSE 0
    BY Zenon DEF PicksFollowWeights
  <2>1. Indexed(balancer) /\ serverList = BuildServerList(balancer)
    BY DEF SubscriberInv, Target
  <2> QED BY <2>1, WeightsArePicked
<1> QED BY <1>1, SubscriberInvariant, PTL

=============================================================================
