---------------------------- MODULE DegradeProofs ----------------------------
(***************************************************************************)
(* Theorems about Degrade, for every set of nodes, updaters, configurers   *)
(* and loops, every configuration and every report; for every number of    *)
(* updaters where a theorem does not say otherwise.                        *)
(***************************************************************************)
EXTENDS Degrade, SequenceTheorems, TLAPS

-----------------------------------------------------------------------------
(* Types                                                                   *)

LEMMA ActorKinds ==
    /\ \A u \in Updater : u \in Actor /\ u \notin Configurer /\ u \notin Loop
    /\ \A c \in Configurer : c \in Actor /\ c \notin Updater /\ c \notin Loop
    /\ \A l \in Loop : l \in Actor /\ l \notin Updater /\ l \notin Configurer
    /\ NoLoop \notin Actor /\ NoLoop \notin Loop
BY ActorsAssumption DEF ActorsAssumption, Actor

LEMMA OptsType ==
    \A o \in DegradeOpts : /\ o.ThresholdContrastInterval \in Int
                           /\ o.EndpointsSaveInterval \in Int
BY NumbersAssumption DEF NumbersAssumption

-----------------------------------------------------------------------------
(* What HistoryProofs proves of queues                                     *)

Guarantees == INSTANCE HistoryProofs WITH
    List <- SUBSET Node,
    InitialLists <- InitEndpoints,
    Opts <- DegradeOpts,
    history <- historyEndpoints,
    stable <- stableHistoryEndpoints

(* The constants of History are as it assumes.                              *)
LEMMA HistoryConstants ==
    /\ InitEndpoints \subseteq SUBSET Node
    /\ \A o \in DegradeOpts : /\ o.ThresholdContrastInterval \in Int
                              /\ o.EndpointsSaveInterval \in Int
    /\ MaxTime \in Nat
BY ListsAssumption, NumbersAssumption, OptsType DEF ListsAssumption, NumbersAssumption

(* The instance works with the LoopList of Degrade.                         *)
LEMMA InstanceDelTimeout ==
    ASSUME NEW l, NEW time, NEW o
    PROVE  Guarantees!DelTimeout(l, time, o) = DelTimeout(l, time, o)
BY DEF Guarantees!DelTimeout, DelTimeout, Guarantees!MayEnd, MayEnd

LEMMA InstancePush ==
    ASSUME NEW l, NEW e, NEW o
    PROVE  Guarantees!Push(l, e, o) = Push(l, e, o)
<1>1. Guarantees!DelTimeout(l, e.unixNano, o) = DelTimeout(l, e.unixNano, o)
  BY InstanceDelTimeout
<1> QED BY <1>1 DEF Guarantees!Push, Push, Guarantees!Overwrites, Overwrites,
                    Guarantees!Front, Front

LEMMA InstancePushBoth ==
    ASSUME NEW h, NEW s, NEW e, NEW o
    PROVE  Guarantees!PushBoth(h, s, e, o) = PushBoth(h, s, e, o)
<1>1. \A l, f : Guarantees!Push(l, f, o) = Push(l, f, o)
  BY InstancePush
<1>2. Guarantees!PushSecond(h, s, e, o) = PushSecond(h, s, e, o)
  BY <1>1 DEF Guarantees!PushSecond, PushSecond, Guarantees!Front, Front
<1> QED BY <1>1, <1>2 DEF Guarantees!PushBoth, PushBoth, Guarantees!Front, Front

(* Trimming and pushing keep queues queues.                                 *)
LEMMA DelTimeoutType ==
    ASSUME NEW l \in Seq(Elem(SUBSET Node)), NEW time, NEW o
    PROVE  DelTimeout(l, time, o) \in Seq(Elem(SUBSET Node))
<1>1. Guarantees!DelTimeout(l, time, o) \in Seq(Elem(SUBSET Node))
  BY HistoryConstants, Guarantees!DelTimeoutType
<1> QED BY <1>1, InstanceDelTimeout

LEMMA PushBothType ==
    ASSUME NEW h \in Seq(Elem(SUBSET Node)), NEW s \in Seq(Elem(SUBSET Node)),
           NEW e \in Elem(SUBSET Node), NEW o
    PROVE  /\ PushBoth(h, s, e, o).history \in Seq(Elem(SUBSET Node))
           /\ PushBoth(h, s, e, o).stable \in Seq(Elem(SUBSET Node))
<1>1. Guarantees!Elem(SUBSET Node) = Elem(SUBSET Node)
  BY DEF Guarantees!Elem, Elem
<1>2. /\ Guarantees!PushBoth(h, s, e, o).history \in Seq(Elem(SUBSET Node))
      /\ Guarantees!PushBoth(h, s, e, o).stable \in Seq(Elem(SUBSET Node))
  BY <1>1, HistoryConstants, Guarantees!PushBothType
<1> QED BY <1>2, InstancePushBoth

-----------------------------------------------------------------------------
(* The steps keep the types                                                *)

LEMMA EmptyListType == EmptyList \in ServiceList
BY DEF EmptyList, ServiceList, RunModes

LEMMA AdapterListType ==
    ASSUME NEW version \in Nat, NEW nodes \in SUBSET Node
    PROVE  AdapterList(version, nodes) \in ServiceList
BY DEF AdapterList, ServiceList, RunModes

LEMMA InitType == Init => TypeOK
<1> SUFFICES ASSUME Init PROVE TypeOK
  OBVIOUS
<1> USE DEF Init
<1>1. ControlOK
  BY ActorKinds DEF ControlOK, Actor, UpdaterLabels, ConfigurerLabels, LoopLabels
<1>2. LocalsOK
  BY EmptyListType, ActorKinds DEF LocalsOK, Call, Ping
<1>3. EnvironmentOK
  BY EmptyListType DEF EnvironmentOK
<1> DEFINE QueuesOK == /\ applyList \in ServiceList
                       /\ historyEndpoints \in Seq(Elem(SUBSET Node))
                       /\ stableHistoryEndpoints \in Seq(Elem(SUBSET Node))
<1>4. QueuesOK
  <2>1. CASE InitFresh
    BY <2>1, EmptyListType DEF InitFresh
  <2>2. ASSUME NEW nodes \in InitEndpoints, InitFromHistory(nodes)
        PROVE  QueuesOK
    <3> DEFINE e == [unixNano |-> now - opts.ThresholdContrastInterval, list |-> nodes]
    <3>1. nodes \in SUBSET Node
      BY ListsAssumption DEF ListsAssumption
    <3>2. e \in Elem(SUBSET Node)
      BY <3>1, OptsType DEF Elem
    <3>3. <<>> \in Seq(Elem(SUBSET Node))
      OBVIOUS
    <3>4. /\ PushBoth(<<>>, <<>>, e, opts).history \in Seq(Elem(SUBSET Node))
          /\ PushBoth(<<>>, <<>>, e, opts).stable \in Seq(Elem(SUBSET Node))
      BY <3>2, <3>3, PushBothType
    <3>5. InitList(nodes) \in ServiceList
      BY <3>1 DEF InitList, EmptyList, ServiceList, RunModes
    <3> QED BY <2>2, <3>4, <3>5 DEF InitFromHistory
  <2> QED BY <2>1, <2>2
<1>5. SharedOK
  BY <1>4, EmptyListType DEF SharedOK, Statuses
<1> QED BY <1>1, <1>2, <1>3, <1>5 DEF TypeOK

LEMMA AfterStopType ==
    ASSUME NEW p \in Actor
    PROVE  /\ p \in Updater => AfterStop(p) = "notify"
           /\ p \in Configurer => AfterStop(p) = "idle"
           /\ p \in Loop => AfterStop(p) = "done"
<1>1. CASE p \in Updater
  BY <1>1, ActorKinds DEF AfterStop
<1>2. CASE p \in Configurer
  BY <1>2, ActorKinds DEF AfterStop
<1>3. CASE p \in Loop
  BY <1>3, ActorKinds DEF AfterStop
<1> QED BY <1>1, <1>2, <1>3 DEF Actor

(* One loop's locals, or one update's, replaced by others.                  *)
LEMMA PingUpdate ==
    ASSUME TypeOK, NEW l \in Loop, NEW p \in Ping, ping' = [ping EXCEPT ![l] = p]
    PROVE  ping' \in [Loop -> Ping]
BY DEF TypeOK, LocalsOK

LEMMA CallUpdate ==
    ASSUME TypeOK, NEW u \in Updater, NEW c \in Call, call' = [call EXCEPT ![u] = c]
    PROVE  call' \in [Updater -> Call]
BY DEF TypeOK, LocalsOK

LEMMA LocalTypes ==
    ASSUME TypeOK
    PROVE  /\ ping \in [Loop -> Ping] /\ call \in [Updater -> Call]
           /\ \A l \in Loop : ping[l] \in Ping
           /\ \A u \in Updater : call[u] \in Call
BY DEF TypeOK, LocalsOK

(* What leaves a loop's round leaves its locals well typed.                 *)
LEMMA SleepType ==
    ASSUME TypeOK, NEW l \in Loop, Sleep(l)
    PROVE  ControlOK' /\ ping' \in [Loop -> Ping]
<1>1. ControlOK'
  BY ActorKinds DEF TypeOK, ControlOK, Sleep, Go, LoopLabels, Checking
<1> DEFINE cleared == [ping[l] EXCEPT !.latest = {}, !.health = {}]
<1>2. cleared \in Ping
  BY LocalTypes DEF Ping
<1>3. ping' = [ping EXCEPT ![l] = cleared]
  BY LocalTypes DEF Sleep
<1> HIDE DEF cleared
<1>4. ping' \in [Loop -> Ping]
  BY <1>2, <1>3, PingUpdate
<1> QED BY <1>1, <1>4

LEMMA ReturnType ==
    ASSUME TypeOK, NEW u \in Updater, Return(u)
    PROVE  ControlOK' /\ call' \in [Updater -> Call]
<1>1. ControlOK'
  BY ActorKinds DEF TypeOK, ControlOK, Return, Go, UpdaterLabels
<1> DEFINE cleared == [call[u] EXCEPT !.list = EmptyList, !.offline = {}]
<1>2. cleared \in Call
  BY LocalTypes, EmptyListType DEF Call
<1>3. call' = [call EXCEPT ![u] = cleared]
  BY LocalTypes DEF Return
<1> HIDE DEF cleared
<1>4. call' \in [Updater -> Call]
  BY <1>2, <1>3, CallUpdate
<1> QED BY <1>1, <1>4

LEMMA PushElemType ==
    ASSUME TypeOK, NEW h \in Seq(Elem(SUBSET Node)), NEW nodes \in SUBSET Node,
           NEW o, PushElem(h, nodes, o)
    PROVE  /\ historyEndpoints' \in Seq(Elem(SUBSET Node))
           /\ stableHistoryEndpoints' \in Seq(Elem(SUBSET Node))
<1> DEFINE e == [unixNano |-> now, list |-> nodes]
<1>1. e \in Elem(SUBSET Node)
  BY DEF TypeOK, EnvironmentOK, Elem
<1>2. stableHistoryEndpoints \in Seq(Elem(SUBSET Node))
  BY DEF TypeOK, SharedOK
<1>3. /\ PushBoth(h, stableHistoryEndpoints, e, o).history \in Seq(Elem(SUBSET Node))
      /\ PushBoth(h, stableHistoryEndpoints, e, o).stable \in Seq(Elem(SUBSET Node))
  BY <1>1, <1>2, PushBothType
<1> QED BY <1>3 DEF PushElem

LEMMA ReceiveType ==
    ASSUME TypeOK, NEW u \in Updater, Receive(u)
    PROVE  TypeOK'
<1>1. ControlOK'
  BY ActorKinds DEF TypeOK, ControlOK, Receive, Go, UpdaterLabels
<1>2. call' \in [Updater -> Call]
  <2>1. PICK r \in Report :
          call' = [call EXCEPT ![u] =
                     [opts |-> opts,
                      list |-> AdapterList(updates + 1, r.listed \ r.offline),
                      offline |-> r.listed \cap r.offline]]
    BY DEF Receive
  <2>2. r.listed \in SUBSET Node /\ r.offline \in SUBSET Node
    BY ListsAssumption DEF ListsAssumption
  <2>3. updates + 1 \in Nat
    BY DEF TypeOK, EnvironmentOK
  <2>4. AdapterList(updates + 1, r.listed \ r.offline) \in ServiceList
    BY <2>2, <2>3, AdapterListType
  <2> DEFINE begun == [opts |-> opts,
                       list |-> AdapterList(updates + 1, r.listed \ r.offline),
                       offline |-> r.listed \cap r.offline]
  <2>5. opts \in DegradeOpts
    BY DEF TypeOK, SharedOK
  <2>6. begun \in Call
    BY <2>2, <2>4, <2>5 DEF Call
  <2> HIDE DEF begun
  <2> QED BY <2>1, <2>6, CallUpdate DEF begun
<1>3. LocalsOK'
  BY <1>2 DEF TypeOK, LocalsOK, Receive
<1>4. SharedOK' /\ EnvironmentOK'
  BY DEF TypeOK, SharedOK, EnvironmentOK, Receive, shared
<1> QED BY <1>1, <1>3, <1>4 DEF TypeOK

LEMMA RecordType ==
    ASSUME TypeOK, NEW u \in Updater, Record(u)
    PROVE  TypeOK'
<1>1. ControlOK' /\ call' \in [Updater -> Call]
  <2>1. CASE Return(u)
    BY <2>1, ReturnType
  <2>2. CASE (Go(u, "enter") \/ Go(u, "push")) /\ UNCHANGED call
    BY <2>2, ActorKinds DEF TypeOK, ControlOK, LocalsOK, Go, UpdaterLabels
  <2> QED BY <2>1, <2>2 DEF Record
<1>2. historyEndpoints' \in Seq(Elem(SUBSET Node))
  BY DelTimeoutType DEF TypeOK, SharedOK, Record, Trim
<1>3. latestAdapterList' \in ServiceList
  BY DEF TypeOK, LocalsOK, Call, Record
<1>4. SharedOK'
  BY <1>2, <1>3 DEF TypeOK, SharedOK, Record
<1>5. LocalsOK' /\ EnvironmentOK'
  BY <1>1 DEF TypeOK, LocalsOK, EnvironmentOK, Record, environment
<1> QED BY <1>1, <1>4, <1>5 DEF TypeOK

LEMMA EnterType ==
    ASSUME TypeOK, NEW u \in Updater, Enter(u)
    PROVE  TypeOK'
<1>1. CASE status # "normal"
  <2>1. Return(u) /\ UNCHANGED <<status, pingCtxCancel>>
    BY <1>1 DEF Enter
  <2>2. ControlOK' /\ call' \in [Updater -> Call]
    BY <2>1, ReturnType
  <2> QED BY <2>1, <2>2 DEF TypeOK, SharedOK, LocalsOK, EnvironmentOK, Enter, environment
<1>2. CASE status = "normal"
  <2>1. PICK l \in Loop : /\ pingCtxCancel' = l
                          /\ pc' = [pc EXCEPT ![l] = "begin", ![u] = "idle"]
    BY <1>2 DEF Enter
  <2>2. status' = "selfProtection"
        /\ call' = [call EXCEPT ![u].list = EmptyList, ![u].offline = {}]
    BY <1>2 DEF Enter
  <2>3. ControlOK'
    BY <2>1, ActorKinds DEF TypeOK, ControlOK, UpdaterLabels, LoopLabels, Checking
  <2>4. call' \in [Updater -> Call]
    <3> DEFINE cleared == [call[u] EXCEPT !.list = EmptyList, !.offline = {}]
    <3>1. cleared \in Call
      BY LocalTypes, EmptyListType DEF Call
    <3>2. call' = [call EXCEPT ![u] = cleared]
      BY <2>2, LocalTypes
    <3> HIDE DEF cleared
    <3> QED BY <3>1, <3>2, CallUpdate
  <2>5. SharedOK'
    BY <2>1, <2>2 DEF TypeOK, SharedOK, Enter, Statuses
  <2>6. LocalsOK' /\ EnvironmentOK'
    BY <2>4 DEF TypeOK, LocalsOK, EnvironmentOK, Enter, environment
  <2> QED BY <2>3, <2>5, <2>6 DEF TypeOK
<1> QED BY <1>1, <1>2

LEMMA PushHistoryType ==
    ASSUME TypeOK, NEW u \in Updater, PushHistory(u)
    PROVE  TypeOK'
<1>1. ControlOK'
  BY ActorKinds DEF TypeOK, ControlOK, PushHistory, Go, UpdaterLabels
<1>2. call[u].list.services \in SUBSET Node
  BY DEF TypeOK, LocalsOK, Call, ServiceList
<1>3. /\ historyEndpoints' \in Seq(Elem(SUBSET Node))
      /\ stableHistoryEndpoints' \in Seq(Elem(SUBSET Node))
  <2>1. historyEndpoints \in Seq(Elem(SUBSET Node))
    BY DEF TypeOK, SharedOK
  <2> QED BY <1>2, <2>1, PushElemType DEF PushHistory
<1>4. SharedOK'
  BY <1>3 DEF TypeOK, SharedOK, PushHistory
<1>5. LocalsOK' /\ EnvironmentOK'
  BY DEF TypeOK, LocalsOK, EnvironmentOK, PushHistory, environment
<1> QED BY <1>1, <1>4, <1>5 DEF TypeOK

LEMMA NotifyType ==
    ASSUME TypeOK, NEW u \in Updater, Notify(u)
    PROVE  TypeOK'
<1>1. ControlOK' /\ call' \in [Updater -> Call]
  BY ReturnType DEF Notify
<1>2. notified' \in ServiceList
  BY DEF TypeOK, LocalsOK, Call, Notify
<1>3. SharedOK' /\ LocalsOK' /\ EnvironmentOK'
  BY <1>1, <1>2 DEF TypeOK, SharedOK, LocalsOK, EnvironmentOK, Notify, shared, environment
<1> QED BY <1>1, <1>3 DEF TypeOK

LEMMA UpdateOptsType ==
    ASSUME TypeOK, NEW c \in Configurer, UpdateOpts(c)
    PROVE  TypeOK'
<1>1. ControlOK'
  BY ActorKinds DEF TypeOK, ControlOK, UpdateOpts, Go, ConfigurerLabels, UpdaterLabels
<1>2. SharedOK' /\ LocalsOK' /\ EnvironmentOK'
  BY DEF TypeOK, SharedOK, LocalsOK, EnvironmentOK, UpdateOpts
<1> QED BY <1>1, <1>2 DEF TypeOK

LEMMA StopSelfProtectionType ==
    ASSUME TypeOK, NEW p \in Actor, StopSelfProtection(p)
    PROVE  TypeOK'
<1>1. ControlOK'
  <2>1. CASE Go(p, AfterStop(p))
    BY <2>1, ActorKinds, AfterStopType
       DEF TypeOK, ControlOK, Go, Actor, UpdaterLabels, ConfigurerLabels, LoopLabels
  <2>2. CASE Go(p, "cancel")
    BY <2>2, ActorKinds
       DEF TypeOK, ControlOK, Go, Actor, UpdaterLabels, ConfigurerLabels, LoopLabels
  <2> QED BY <2>1, <2>2 DEF StopSelfProtection
<1>2. applyList' \in ServiceList
  BY DEF TypeOK, SharedOK, StopSelfProtection, Adopt
<1>3. CASE UNCHANGED <<status, pingCtxCancel, taken, historyEndpoints,
                       stableHistoryEndpoints>>
  BY <1>1, <1>2, <1>3
     DEF TypeOK, SharedOK, LocalsOK, EnvironmentOK, StopSelfProtection, environment
<1>4. CASE LeaveProtection(p)
  <2>1. /\ historyEndpoints' \in Seq(Elem(SUBSET Node))
        /\ stableHistoryEndpoints' \in Seq(Elem(SUBSET Node))
    <3>1. <<>> \in Seq(Elem(SUBSET Node))
      OBVIOUS
    <3>2. latestAdapterList.services \in SUBSET Node
      BY DEF TypeOK, SharedOK, ServiceList
    <3> QED BY <1>4, <3>1, <3>2, PushElemType DEF LeaveProtection
  <2>2. SharedOK'
    BY <1>2, <1>4, <2>1
       DEF TypeOK, SharedOK, StopSelfProtection, LeaveProtection, Statuses
  <2>3. LocalsOK' /\ EnvironmentOK'
    BY <1>4 DEF TypeOK, SharedOK, LocalsOK, EnvironmentOK, StopSelfProtection,
                LeaveProtection, environment
  <2> QED BY <1>1, <2>2, <2>3 DEF TypeOK
<1> QED BY <1>3, <1>4 DEF StopSelfProtection

LEMMA CancelType ==
    ASSUME TypeOK, NEW p \in Actor, Cancel(p)
    PROVE  TypeOK'
<1>1. ControlOK'
  BY ActorKinds, AfterStopType
     DEF TypeOK, ControlOK, Cancel, Go, Actor, UpdaterLabels, ConfigurerLabels, LoopLabels
<1>2. SharedOK' /\ LocalsOK' /\ EnvironmentOK'
  BY DEF TypeOK, SharedOK, LocalsOK, EnvironmentOK, Cancel, environment
<1> QED BY <1>1, <1>2 DEF TypeOK

LEMMA BaselineType ==
    ASSUME NEW l \in Seq(Elem(SUBSET Node))
    PROVE  Baseline(l) \in SUBSET Node
<1>1. CASE l = <<>>
  BY <1>1 DEF Baseline
<1>2. CASE l # <<>>
  <2>1. Len(l) \in Nat /\ Len(l) > 0
    BY <1>2, EmptySeq, LenProperties
  <2>2. l[Len(l)] \in Elem(SUBSET Node)
    BY <2>1, ElementOfSeq
  <2> QED BY <1>2, <2>2 DEF Baseline, Oldest, Elem
<1> QED BY <1>1, <1>2

LEMMA BeginType ==
    ASSUME TypeOK, NEW l \in Loop, Begin(l)
    PROVE  TypeOK'
<1>1. ControlOK'
  BY ActorKinds DEF TypeOK, ControlOK, Begin, Go, LoopLabels, Checking
<1>2. /\ historyEndpoints' \in Seq(Elem(SUBSET Node))
      /\ stableHistoryEndpoints' \in Seq(Elem(SUBSET Node))
  BY DelTimeoutType DEF TypeOK, SharedOK, Begin, Trim
<1>3. ping' \in [Loop -> Ping]
  <2> DEFINE recent == Baseline(historyEndpoints')
             absolute == Baseline(stableHistoryEndpoints')
  <2>1. recent \in SUBSET Node /\ absolute \in SUBSET Node
    BY <1>2, BaselineType
  <2>2. applyList.version \in Nat
    BY DEF TypeOK, SharedOK, ServiceList
  <2>3. ping' = [ping EXCEPT ![l].version = applyList.version,
                             ![l].history = recent, ![l].stable = absolute]
    BY DEF Begin
  <2> HIDE DEF recent, absolute
  <2> DEFINE started == [ping[l] EXCEPT !.version = applyList.version,
                                        !.history = recent, !.stable = absolute]
  <2>4. ping \in [Loop -> Ping]
    BY DEF TypeOK, LocalsOK
  <2>5. started \in Ping
    BY <2>1, <2>2, <2>4 DEF Ping
  <2>6. ping' = [ping EXCEPT ![l] = started]
    BY <2>3, <2>4
  <2> HIDE DEF started
  <2> QED BY <2>4, <2>5, <2>6
<1>4. SharedOK' /\ LocalsOK' /\ EnvironmentOK'
  BY <1>2, <1>3 DEF TypeOK, SharedOK, LocalsOK, EnvironmentOK, Begin, environment
<1> QED BY <1>1, <1>4 DEF TypeOK

LEMMA LoadOptsType ==
    ASSUME TypeOK, NEW l \in Loop, LoadOpts(l)
    PROVE  TypeOK'
<1>1. ControlOK'
  BY ActorKinds DEF TypeOK, ControlOK, LoadOpts, Go, LoopLabels, Checking
<1>2. ping' \in [Loop -> Ping]
  <2> DEFINE loaded == [ping[l] EXCEPT !.opts = opts]
  <2>1. loaded \in Ping
    BY LocalTypes DEF TypeOK, SharedOK, Ping
  <2>2. ping' = [ping EXCEPT ![l] = loaded]
    BY LocalTypes DEF LoadOpts
  <2> HIDE DEF loaded
  <2> QED BY <2>1, <2>2, PingUpdate
<1>3. SharedOK' /\ LocalsOK' /\ EnvironmentOK'
  BY <1>2 DEF TypeOK, SharedOK, LocalsOK, EnvironmentOK, LoadOpts, shared, environment
<1> QED BY <1>1, <1>3 DEF TypeOK

LEMMA SnapshotType ==
    ASSUME TypeOK, NEW l \in Loop, Snapshot(l)
    PROVE  TypeOK'
<1>1. ControlOK'
  BY ActorKinds DEF TypeOK, ControlOK, Snapshot, Go, LoopLabels, Checking
<1>2. ping' \in [Loop -> Ping]
  <2>1. latestAdapterList.services \in SUBSET Node
    BY DEF TypeOK, SharedOK, ServiceList
  <2> DEFINE taking == [ping[l] EXCEPT !.latest = latestAdapterList.services]
  <2>2. taking \in Ping
    BY <2>1, LocalTypes DEF Ping
  <2>3. ping' = [ping EXCEPT ![l] = taking]
    BY LocalTypes DEF Snapshot
  <2> HIDE DEF taking
  <2> QED BY <2>2, <2>3, PingUpdate
<1>3. SharedOK' /\ LocalsOK' /\ EnvironmentOK'
  BY <1>2 DEF TypeOK, SharedOK, LocalsOK, EnvironmentOK, Snapshot, shared, environment
<1> QED BY <1>1, <1>3 DEF TypeOK

(* The labels a loop goes on to once it has judged.                         *)
LEMMA VerdictType ==
    ASSUME NEW st, NEW p
    PROVE  Verdict(st, p) \in {"panic", "sleep", "recover", "stop", "apply"}
BY DEF Verdict, StopOrApply

LEMMA JudgeType ==
    ASSUME TypeOK, NEW l \in Loop, Judge(l)
    PROVE  TypeOK'
<1>1. PICK endpoints \in Aggregates(ping[l].latest, ping[l].history) :
         \E passed \in Health(endpoints) :
            LET found == [ping[l] EXCEPT !.health = passed]
            IN  IF Verdict(status, found) = "sleep"
                THEN Sleep(l)
                ELSE /\ ping' = [ping EXCEPT ![l] = found]
                     /\ Go(l, Verdict(status, found))
  BY DEF Judge
<1>2. PICK passed \in Health(endpoints) :
         LET found == [ping[l] EXCEPT !.health = passed]
         IN  IF Verdict(status, found) = "sleep"
             THEN Sleep(l)
             ELSE /\ ping' = [ping EXCEPT ![l] = found]
                  /\ Go(l, Verdict(status, found))
  BY <1>1
<1> DEFINE judged == [ping[l] EXCEPT !.health = passed]
           verdict == Verdict(status, judged)
<1>3. ControlOK' /\ ping' \in [Loop -> Ping]
  <2>1. CASE Sleep(l)
    BY <2>1, SleepType
  <2>2. CASE ping' = [ping EXCEPT ![l] = judged] /\ Go(l, verdict)
    <3>1. ping[l] \in Ping
      BY DEF TypeOK, LocalsOK
    <3>2. passed \in SUBSET Node
      <4>1. endpoints \in SUBSET (ping[l].latest \cup ping[l].history)
        BY DEF Aggregates
      <4>2. passed \in SUBSET endpoints
        BY DEF Health
      <4> QED BY <3>1, <4>1, <4>2 DEF Ping
    <3>3. judged \in Ping
      BY <3>1, <3>2 DEF Ping
    <3>4. ping' \in [Loop -> Ping]
      <4> HIDE DEF judged
      <4> QED BY <2>2, <3>3, PingUpdate
    <3>5. verdict \in LoopLabels
      BY VerdictType DEF LoopLabels, Checking
    <3>6. ControlOK'
      <4> HIDE DEF verdict
      <4> QED BY <2>2, <3>5, ActorKinds DEF TypeOK, ControlOK, Go
    <3> QED BY <3>4, <3>6
  <2> QED BY <1>2, <2>1, <2>2
<1>4. SharedOK' /\ LocalsOK' /\ EnvironmentOK'
  BY <1>3 DEF TypeOK, SharedOK, LocalsOK, EnvironmentOK, Judge, shared, environment
<1> QED BY <1>3, <1>4 DEF TypeOK

LEMMA PanicType ==
    ASSUME TypeOK, NEW l \in Loop, Panic(l)
    PROVE  TypeOK'
<1>1. ControlOK' /\ ping' \in [Loop -> Ping]
  BY SleepType DEF Panic
<1>2. ping[l].stable \in SUBSET Node /\ applyList.version \in Nat
  BY DEF TypeOK, LocalsOK, SharedOK, Ping, ServiceList
<1>3. status' \in Statuses /\ applyList' \in ServiceList
  BY <1>2 DEF TypeOK, SharedOK, Panic, Publish, PanicList, Statuses, ServiceList, RunModes
<1>4. SharedOK' /\ LocalsOK' /\ EnvironmentOK'
  BY <1>1, <1>3 DEF TypeOK, SharedOK, LocalsOK, EnvironmentOK, Panic, environment
<1> QED BY <1>1, <1>4 DEF TypeOK

LEMMA RecoverType ==
    ASSUME TypeOK, NEW l \in Loop, Recover(l)
    PROVE  TypeOK'
<1>1. ControlOK' /\ ping' \in [Loop -> Ping]
  <2>1. CASE Sleep(l)
    BY <2>1, SleepType
  <2>2. CASE Go(l, StopOrApply(status', ping[l])) /\ UNCHANGED ping
    <3>1. StopOrApply(status', ping[l]) \in {"stop", "apply"}
      BY DEF StopOrApply
    <3> QED BY <2>2, <3>1, ActorKinds
            DEF TypeOK, ControlOK, LocalsOK, Go, LoopLabels, Checking
  <2> QED BY <2>1, <2>2 DEF Recover
<1>2. status' \in Statuses
  BY DEF TypeOK, SharedOK, Recover, Statuses
<1>3. SharedOK' /\ LocalsOK' /\ EnvironmentOK'
  BY <1>1, <1>2 DEF TypeOK, SharedOK, LocalsOK, EnvironmentOK, Recover, environment
<1> QED BY <1>1, <1>3 DEF TypeOK

LEMMA ApplyType ==
    ASSUME TypeOK, NEW l \in Loop, Apply(l)
    PROVE  TypeOK'
<1>1. ControlOK' /\ ping' \in [Loop -> Ping]
  BY SleepType DEF Apply
<1>2. ping[l].health \in SUBSET Node /\ ping[l].version \in Nat
  BY DEF TypeOK, LocalsOK, Ping
<1>3. applyList' \in ServiceList
  BY <1>2 DEF TypeOK, SharedOK, Apply, Publish, ServiceList, RunModes
<1>4. SharedOK' /\ LocalsOK' /\ EnvironmentOK'
  BY <1>1, <1>3 DEF TypeOK, SharedOK, LocalsOK, EnvironmentOK, Apply, environment
<1> QED BY <1>1, <1>4 DEF TypeOK

LEMMA RefuseStopType ==
    ASSUME TypeOK, NEW l \in Loop, RefuseStop(l)
    PROVE  TypeOK'
<1>1. ControlOK' /\ ping' \in [Loop -> Ping]
  BY SleepType DEF RefuseStop
<1> QED BY <1>1 DEF TypeOK, SharedOK, LocalsOK, EnvironmentOK, RefuseStop, shared, environment

LEMMA WakeType ==
    ASSUME TypeOK, NEW l \in Loop, Wake(l)
    PROVE  TypeOK'
<1>1. ControlOK'
  BY ActorKinds DEF TypeOK, ControlOK, Wake, Go, LoopLabels, Checking
<1>2. Bump(ping[l].version) \in Nat
  BY NumbersAssumption DEF NumbersAssumption, TypeOK, LocalsOK, Ping, Bump
<1>3. ping' \in [Loop -> Ping]
  <2> DEFINE woken == [ping[l] EXCEPT !.version = Bump(@)]
  <2>1. woken \in Ping
    BY <1>2, LocalTypes DEF Ping
  <2>2. ping' = [ping EXCEPT ![l] = woken]
    BY LocalTypes DEF Wake
  <2> HIDE DEF woken
  <2> QED BY <2>1, <2>2, PingUpdate
<1> QED BY <1>1, <1>3 DEF TypeOK, SharedOK, LocalsOK, EnvironmentOK, Wake, shared, environment

LEMMA QuitType ==
    ASSUME TypeOK, NEW l \in Loop, Quit(l)
    PROVE  TypeOK'
<1>1. ControlOK'
  BY ActorKinds DEF TypeOK, ControlOK, Quit, Go, LoopLabels, Checking
<1> QED BY <1>1 DEF TypeOK, SharedOK, LocalsOK, EnvironmentOK, Quit, shared, environment

LEMMA EnvironmentType == TypeOK /\ (Settle \/ Tick) => TypeOK'
BY ListsAssumption
   DEF TypeOK, SharedOK, ControlOK, LocalsOK, EnvironmentOK, Settle, Tick, shared, locals,
       ListsAssumption

LEMMA StutterType == TypeOK /\ UNCHANGED vars => TypeOK'
BY DEF TypeOK, SharedOK, ControlOK, LocalsOK, EnvironmentOK, vars, shared, locals, environment

(* Every variable holds what the Go variable it stands for can hold.        *)
THEOREM TypeCorrect == Spec => []TypeOK
<1>1. ASSUME TypeOK, [Next]_vars PROVE TypeOK'
  <2>1. CASE UNCHANGED vars
    BY <1>1, <2>1, StutterType
  <2>2. ASSUME NEW u \in Updater, Receive(u) \/ UpdaterStep(u) PROVE TypeOK'
    BY <1>1, <2>2, ReceiveType, RecordType, EnterType, PushHistoryType, NotifyType
       DEF UpdaterStep
  <2>3. ASSUME NEW c \in Configurer, UpdateOpts(c) PROVE TypeOK'
    BY <1>1, <2>3, UpdateOptsType
  <2>4. ASSUME NEW l \in Loop, LoopStep(l) PROVE TypeOK'
    BY <1>1, <2>4, BeginType, LoadOptsType, SnapshotType, JudgeType, PanicType,
       RecoverType, ApplyType, RefuseStopType, WakeType, QuitType DEF LoopStep
  <2>5. ASSUME NEW p \in Actor, StopStep(p) PROVE TypeOK'
    BY <1>1, <2>5, StopSelfProtectionType, CancelType DEF StopStep
  <2>6. CASE Settle \/ Tick
    BY <1>1, <2>6, EnvironmentType
  <2> QED BY <1>1, <2>1, <2>2, <2>3, <2>4, <2>5, <2>6 DEF Next
<1> QED BY <1>1, InitType, PTL DEF Spec

-----------------------------------------------------------------------------
(* Ownership of protection                                                 *)

(* ProtectionIsOwned is not inductive: a cancel function that is about to  *)
(* be called, or has been called, must belong to a loop that was started,  *)
(* for startSelfProtection gives a new session a loop that was not.        *)
CancelsStarted ==
    /\ \A p \in Actor : pc[p] = "cancel" => taken[p] \in Loop /\ pc[taken[p]] # "none"
    /\ \A p \in Actor : pc[p] # "cancel" => taken[p] = NoLoop
    /\ \A l \in ctxDone : l \in Loop /\ pc[l] # "none"

Owned == TypeOK /\ ProtectionIsOwned /\ CancelsStarted

(* What keeps a step that neither starts nor ends a session from harm.      *)
LEMMA OwnedFrame ==
    ASSUME Owned, TypeOK',
           UNCHANGED <<pingCtxCancel, ctxDone, taken>>,
           status' = "normal" <=> status = "normal",
           \A p \in Actor : pc'[p] = "cancel" <=> pc[p] = "cancel",
           \A l \in Loop : pc[l] # "none" => pc'[l] # "none",
           \A l \in Loop : pc[l] \in Checking /\ l \notin ctxDone => pc'[l] \in Checking
    PROVE  Owned'
<1>1. ProtectionIsOwned'
  BY DEF Owned, ProtectionIsOwned, TypeOK, SharedOK
<1>2. CancelsStarted'
  BY DEF Owned, CancelsStarted
<1> QED BY <1>1, <1>2 DEF Owned

LEMMA InitOwned == Init => Owned
<1> SUFFICES ASSUME Init PROVE Owned
  OBVIOUS
<1>1. TypeOK
  BY InitType
<1>2. \A p \in Actor : pc[p] \in {"none", "idle"} /\ taken[p] = NoLoop
  BY DEF Init
<1>3. status = "normal" /\ pingCtxCancel = NoLoop /\ ctxDone = {}
  BY DEF Init
<1> QED BY <1>1, <1>2, <1>3 DEF Owned, ProtectionIsOwned, CancelsStarted

(* A goroutine other than a loop that moves on leaves the loops alone.      *)
LEMMA UpdaterGoes ==
    ASSUME Owned, TypeOK', NEW p \in Updater \cup Configurer, NEW label, Go(p, label),
           pc[p] # "cancel", label # "cancel",
           UNCHANGED <<status, pingCtxCancel, ctxDone, taken>>
    PROVE  Owned'
<1>1. p \in Actor /\ p \notin Loop
  BY ActorKinds
<1>2. \A q \in Actor : q # p => pc'[q] = pc[q]
  BY DEF Go, Owned, TypeOK, ControlOK
<1>3. pc'[p] = label
  BY <1>1 DEF Go, Owned, TypeOK, ControlOK
<1>4. /\ \A q \in Actor : pc'[q] = "cancel" <=> pc[q] = "cancel"
      /\ \A l \in Loop : pc'[l] = pc[l]
  BY <1>1, <1>2, <1>3, ActorKinds
<1> QED BY <1>4, OwnedFrame

(* A loop that goes on with its round does not end protection.              *)
LEMMA LoopGoes ==
    ASSUME Owned, TypeOK', NEW l \in Loop, NEW label \in Checking, Go(l, label),
           pc[l] \in Checking,
           UNCHANGED <<pingCtxCancel, ctxDone, taken>>,
           status' = "normal" <=> status = "normal"
    PROVE  Owned'
<1>1. \A q \in Actor : q # l => pc'[q] = pc[q]
  BY DEF Go, Owned, TypeOK, ControlOK
<1>2. pc'[l] = label
  BY ActorKinds DEF Go, Owned, TypeOK, ControlOK
<1>3. label \notin {"none", "cancel"} /\ pc[l] # "cancel"
  BY DEF Checking
<1>4. /\ \A q \in Actor : pc'[q] = "cancel" <=> pc[q] = "cancel"
      /\ \A k \in Loop : pc[k] # "none" => pc'[k] # "none"
      /\ \A k \in Loop : pc[k] \in Checking => pc'[k] \in Checking
  BY <1>1, <1>2, <1>3, ActorKinds
<1> QED BY <1>4, OwnedFrame

LEMMA UpdaterOwned ==
    ASSUME Owned, TypeOK', NEW u \in Updater,
           Receive(u) \/ Record(u) \/ PushHistory(u) \/ Notify(u)
    PROVE  Owned'
<1>1. UNCHANGED <<status, pingCtxCancel, ctxDone, taken>>
  BY DEF Receive, Record, PushHistory, Notify, shared
<1>2. pc[u] # "cancel"
  BY DEF Receive, Record, PushHistory, Notify
<1>3. \E label \in {"record", "idle", "enter", "push", "stop"} : Go(u, label)
  BY DEF Receive, Record, PushHistory, Notify, Return
<1> QED BY <1>1, <1>2, <1>3, UpdaterGoes

LEMMA EnterOwned ==
    ASSUME Owned, TypeOK', NEW u \in Updater, Enter(u)
    PROVE  Owned'
<1>1. CASE status # "normal"
  BY <1>1, UpdaterGoes DEF Enter, Return
<1>2. CASE status = "normal"
  <2>1. PICK l \in Loop : /\ pc[l] = "none"
                          /\ pingCtxCancel' = l
                          /\ pc' = [pc EXCEPT ![l] = "begin", ![u] = "idle"]
    BY <1>2 DEF Enter
  <2>2. /\ status' = "selfProtection" /\ UNCHANGED <<ctxDone, taken>>
        /\ pc[u] = "enter"
    BY <1>2 DEF Enter
  <2>3. /\ pc'[l] = "begin" /\ pc'[u] = "idle"
        /\ \A q \in Actor : q # l /\ q # u => pc'[q] = pc[q]
    BY <2>1, ActorKinds DEF Owned, TypeOK, ControlOK
  <2>4. l \notin ctxDone /\ \A p \in Actor : taken[p] # l
    BY <2>1, ActorKinds DEF Owned, CancelsStarted
  <2>5. ProtectionIsOwned'
    BY <2>1, <2>2, <2>3, <2>4, ActorKinds DEF ProtectionIsOwned, Checking
  <2>6. /\ \A q \in Actor : pc'[q] = "cancel" <=> pc[q] = "cancel"
        /\ \A k \in Loop : pc[k] # "none" => pc'[k] = pc[k]
    BY <2>1, <2>2, <2>3, ActorKinds
  <2>7. CancelsStarted'
    BY <2>2, <2>6 DEF Owned, CancelsStarted
  <2> QED BY <2>5, <2>7 DEF Owned
<1> QED BY <1>1, <1>2

LEMMA UpdateOptsOwned ==
    ASSUME Owned, TypeOK', NEW c \in Configurer, UpdateOpts(c)
    PROVE  Owned'
<1>1. UNCHANGED <<status, pingCtxCancel, ctxDone, taken>> /\ pc[c] # "cancel"
  BY DEF UpdateOpts
<1>2. CASE Go(c, "stop")
  BY <1>1, <1>2, UpdaterGoes
<1>3. CASE UNCHANGED pc
  BY <1>1, <1>3, OwnedFrame
<1> QED BY <1>2, <1>3 DEF UpdateOpts

LEMMA StopOwned ==
    ASSUME Owned, TypeOK', NEW p \in Actor, StopSelfProtection(p)
    PROVE  Owned'
<1> DEFINE next == IF status = "normal" THEN AfterStop(p) ELSE "cancel"
<1>1. next \notin {"none"} /\ (status = "normal" => next # "cancel")
  BY AfterStopType DEF Actor
<1>2. /\ pc'[p] = next /\ pc[p] = "stop"
      /\ \A q \in Actor : q # p => pc'[q] = pc[q]
  BY DEF StopSelfProtection, Go, Owned, TypeOK, ControlOK
<1> HIDE DEF next
<1>3. UNCHANGED ctxDone
  BY DEF StopSelfProtection
<1>4. CASE status = "normal"
  <2>1. UNCHANGED <<status, pingCtxCancel, taken>>
    BY <1>4 DEF StopSelfProtection
  <2>2. ProtectionIsOwned'
    BY <1>4, <2>1 DEF Owned, ProtectionIsOwned
  <2>3. CancelsStarted'
    BY <1>1, <1>2, <1>3, <1>4, <2>1, ActorKinds DEF Owned, CancelsStarted
  <2> QED BY <2>2, <2>3 DEF Owned
<1>5. CASE status # "normal"
  <2>1. /\ status' = "normal" /\ pingCtxCancel' = NoLoop
        /\ taken' = [taken EXCEPT ![p] = pingCtxCancel]
    BY <1>5 DEF StopSelfProtection, LeaveProtection
  <2>2. pingCtxCancel \in Loop /\ pc[pingCtxCancel] # "none"
    BY <1>5 DEF Owned, ProtectionIsOwned, TypeOK, SharedOK, Checking
  <2>3. /\ taken'[p] = pingCtxCancel
        /\ \A q \in Actor : q # p => taken'[q] = taken[q]
    BY <2>1 DEF Owned, TypeOK, LocalsOK
  <2>4. ProtectionIsOwned'
    BY <2>1 DEF ProtectionIsOwned
  <2>5. pc'[p] = "cancel"
    BY <1>2, <1>5 DEF next
  <2>6. CancelsStarted'
    BY <1>1, <1>2, <1>3, <2>2, <2>3, <2>5, ActorKinds DEF Owned, CancelsStarted
  <2> QED BY <2>4, <2>6 DEF Owned
<1> QED BY <1>4, <1>5

LEMMA CancelOwned ==
    ASSUME Owned, TypeOK', NEW p \in Actor, Cancel(p)
    PROVE  Owned'
<1>1. AfterStop(p) \notin {"none", "cancel"}
  BY AfterStopType DEF Actor
<1>2. /\ pc'[p] = AfterStop(p) /\ pc[p] = "cancel"
      /\ \A q \in Actor : q # p => pc'[q] = pc[q]
  BY DEF Cancel, Go, Owned, TypeOK, ControlOK
<1>3. /\ taken'[p] = NoLoop
      /\ \A q \in Actor : q # p => taken'[q] = taken[q]
      /\ ctxDone' = ctxDone \cup {taken[p]}
      /\ UNCHANGED <<status, pingCtxCancel>>
  BY DEF Cancel, Owned, TypeOK, LocalsOK
<1>4. taken[p] \in Loop /\ pc[taken[p]] # "none"
  BY <1>2 DEF Owned, CancelsStarted
<1>5. ProtectionIsOwned'
  <2>1. p # pingCtxCancel
    BY <1>2, ActorKinds DEF Owned, ProtectionIsOwned, Checking
  <2> QED BY <1>2, <1>3, <1>4, <2>1, ActorKinds DEF Owned, ProtectionIsOwned, TypeOK, SharedOK
<1>6. CancelsStarted'
  BY <1>1, <1>2, <1>3, <1>4, ActorKinds DEF Owned, CancelsStarted
<1> QED BY <1>5, <1>6 DEF Owned

(* The steps of a loop that stay within a session.                          *)
LEMMA RoundGoes ==
    ASSUME TypeOK, NEW l \in Loop,
           \/ Begin(l) \/ LoadOpts(l) \/ Snapshot(l) \/ Judge(l) \/ Panic(l)
           \/ Recover(l) \/ Apply(l) \/ RefuseStop(l) \/ Wake(l)
    PROVE  /\ pc[l] \in Checking
           /\ \E label \in Checking \ {"begin"} : Go(l, label)
           /\ UNCHANGED <<opts, latestAdapterList, pingCtxCancel, ctxDone, taken, call>>
           /\ status' = "normal" <=> status = "normal"
<1>1. pc[l] \in Checking /\ \E label \in Checking \ {"begin"} : Go(l, label)
  <2>1. CASE Begin(l) \/ LoadOpts(l) \/ Snapshot(l) \/ Wake(l)
    BY <2>1 DEF Begin, LoadOpts, Snapshot, Wake, Checking
  <2>2. CASE Panic(l) \/ Apply(l) \/ RefuseStop(l)
    BY <2>2 DEF Panic, Apply, RefuseStop, Sleep, Checking
  <2>3. CASE Judge(l)
    <3>1. \E judged : Sleep(l) \/ Go(l, Verdict(status, judged))
      BY <2>3 DEF Judge
    <3>2. pc[l] = "judge"
      BY <2>3 DEF Judge
    <3> QED BY <3>1, <3>2, VerdictType DEF Sleep, Checking
  <2>4. CASE Recover(l)
    <3>1. pc[l] = "recover" /\ (Sleep(l) \/ Go(l, StopOrApply(status', ping[l])))
      BY <2>4 DEF Recover
    <3> QED BY <3>1 DEF Sleep, StopOrApply, Checking
  <2> QED BY <2>1, <2>2, <2>3, <2>4
<1>2. /\ UNCHANGED <<opts, latestAdapterList, pingCtxCancel, ctxDone, taken, call>>
      /\ status' = "normal" <=> status = "normal"
  BY DEF Begin, LoadOpts, Snapshot, Judge, Panic, Recover, Apply, RefuseStop, Wake, shared,
         MayPublish
<1> QED BY <1>1, <1>2

LEMMA QuitOwned ==
    ASSUME Owned, TypeOK', NEW l \in Loop, Quit(l)
    PROVE  Owned'
<1>1. /\ pc'[l] = "done" /\ pc[l] = "sleep" /\ l \in ctxDone
      /\ \A q \in Actor : q # l => pc'[q] = pc[q]
  BY ActorKinds DEF Quit, Go, Owned, TypeOK, ControlOK
<1>2. UNCHANGED <<status, pingCtxCancel, ctxDone, taken>>
  BY DEF Quit, shared
<1> QED BY <1>1, <1>2, OwnedFrame, ActorKinds

LEMMA NextOwned == Owned /\ TypeOK' /\ [Next]_vars => Owned'
<1> SUFFICES ASSUME Owned, TypeOK', [Next]_vars PROVE Owned'
  OBVIOUS
<1>1. ASSUME NEW u \in Updater, Receive(u) \/ UpdaterStep(u) PROVE Owned'
  BY <1>1, UpdaterOwned, EnterOwned DEF UpdaterStep
<1>2. ASSUME NEW c \in Configurer, UpdateOpts(c) PROVE Owned'
  BY <1>2, UpdateOptsOwned
<1>3. ASSUME NEW l \in Loop, LoopStep(l) PROVE Owned'
  <2>1. CASE Quit(l)
    BY <2>1, QuitOwned
  <2>2. CASE ~Quit(l)
    <3>1. /\ pc[l] \in Checking
          /\ \E label \in Checking \ {"begin"} : Go(l, label)
          /\ UNCHANGED <<pingCtxCancel, ctxDone, taken>>
          /\ status' = "normal" <=> status = "normal"
      BY <1>3, <2>2, RoundGoes DEF LoopStep, Owned
    <3> QED BY <3>1, LoopGoes
  <2> QED BY <2>1, <2>2
<1>4. ASSUME NEW p \in Actor, StopStep(p) PROVE Owned'
  BY <1>4, StopOwned, CancelOwned DEF StopStep
<1>5. CASE Settle \/ Tick \/ UNCHANGED vars
  BY <1>5, OwnedFrame DEF Settle, Tick, vars, shared, locals
<1> QED BY <1>1, <1>2, <1>3, <1>4, <1>5 DEF Next

(* Protection is on exactly while a live loop owns it, however updates,     *)
(* reconfigurations and loops interleave (startSelfProtection,              *)
(* stopSelfProtection, pingLoop).                                           *)
THEOREM ProtectionAlwaysOwned == Spec => []ProtectionIsOwned
<1>1. Owned => ProtectionIsOwned
  BY DEF Owned
<1> QED BY InitOwned, NextOwned, TypeCorrect, <1>1, PTL DEF Spec

-----------------------------------------------------------------------------
(* What is served in each mode                                             *)

(* A list that comes from the adapter has no run mode of its own.           *)
Labelled ==
    /\ latestAdapterList.runMode = "unset"
    /\ \A u \in Updater : call[u].list.runMode = "unset"
    /\ RunModeMatchesStatus

LEMMA InitLabelled == Init => Labelled
<1> SUFFICES ASSUME Init PROVE Labelled
  OBVIOUS
<1>1. EmptyList.runMode = "unset" /\ \A nodes : InitList(nodes).runMode = "init"
  BY DEF EmptyList, InitList
<1>2. applyList.runMode \in {"unset", "init"}
  BY <1>1 DEF Init, InitFresh, InitFromHistory
<1> QED BY <1>1, <1>2 DEF Init, Labelled, RunModeMatchesStatus

(* Steps that take lists from the adapter or hand them on.                  *)
LEMMA UpdaterLabelled ==
    ASSUME TypeOK, Labelled, NEW u \in Updater, Receive(u) \/ UpdaterStep(u)
    PROVE  Labelled'
<1>1. EmptyList.runMode = "unset"
      /\ \A version, nodes : AdapterList(version, nodes).runMode = "unset"
  BY DEF EmptyList, AdapterList
<1>2. \A v \in Updater : call'[v].list.runMode = "unset"
  <2>1. CASE UNCHANGED call
    BY <2>1 DEF Labelled
  <2>2. CASE call' = [call EXCEPT ![u].list = EmptyList, ![u].offline = {}]
    BY <1>1, <2>2 DEF Labelled, TypeOK, LocalsOK, Call
  <2>3. CASE Receive(u)
    <3>1. PICK r \in Report :
            call' = [call EXCEPT ![u] =
                       [opts |-> opts,
                        list |-> AdapterList(updates + 1, r.listed \ r.offline),
                        offline |-> r.listed \cap r.offline]]
      BY <2>3 DEF Receive
    <3> QED BY <1>1, <3>1 DEF Labelled, TypeOK, LocalsOK, Call
  <2> QED BY <2>1, <2>2, <2>3
          DEF UpdaterStep, Record, Enter, PushHistory, Notify, Return
<1>3. latestAdapterList'.runMode = "unset"
  BY DEF Labelled, Receive, UpdaterStep, Record, Enter, PushHistory, Notify, shared
<1>4. RunModeMatchesStatus'
  BY DEF Labelled, RunModeMatchesStatus, Receive, UpdaterStep, Record, Enter, PushHistory,
         Notify, shared
<1> QED BY <1>2, <1>3, <1>4 DEF Labelled

LEMMA RoundLabelled ==
    ASSUME TypeOK, Labelled, NEW l \in Loop, LoopStep(l)
    PROVE  Labelled'
<1>1. UNCHANGED <<latestAdapterList, call>>
  BY DEF LoopStep, Begin, LoadOpts, Snapshot, Judge, Panic, Recover, Apply, RefuseStop,
         Wake, Quit, shared
<1>2. CASE UNCHANGED <<status, applyList>>
  BY <1>1, <1>2 DEF Labelled, RunModeMatchesStatus
<1>3. CASE status' = "panic" /\ Publish("panic", applyList.version, PanicList(l))
  BY <1>1, <1>3 DEF Labelled, RunModeMatchesStatus, Publish, TypeOK, SharedOK, ServiceList
<1>4. CASE status' = "selfProtection"
  BY <1>1, <1>4 DEF Labelled, RunModeMatchesStatus
<1> QED
  BY <1>2, <1>3, <1>4
     DEF LoopStep, Begin, LoadOpts, Snapshot, Judge, Panic, Recover, Apply, RefuseStop,
         Wake, Quit, shared, MayPublish

LEMMA NextLabelled == TypeOK /\ Labelled /\ [Next]_vars => Labelled'
<1> SUFFICES ASSUME TypeOK, Labelled, [Next]_vars PROVE Labelled'
  OBVIOUS
<1>1. ASSUME NEW u \in Updater, Receive(u) \/ UpdaterStep(u) PROVE Labelled'
  BY <1>1, UpdaterLabelled
<1>2. ASSUME NEW l \in Loop, LoopStep(l) PROVE Labelled'
  BY <1>2, RoundLabelled
<1>3. ASSUME NEW p \in Actor, StopSelfProtection(p) PROVE Labelled'
  BY <1>3 DEF StopSelfProtection, LeaveProtection, Adopt, Labelled, RunModeMatchesStatus
<1>4. ASSUME NEW p \in Actor, Cancel(p) PROVE Labelled'
  BY <1>4 DEF Cancel, Labelled, RunModeMatchesStatus
<1>5. ASSUME NEW c \in Configurer, UpdateOpts(c) PROVE Labelled'
  BY <1>5 DEF UpdateOpts, Labelled, RunModeMatchesStatus
<1>6. CASE Settle \/ Tick \/ UNCHANGED vars
  BY <1>6 DEF Settle, Tick, vars, shared, locals, Labelled, RunModeMatchesStatus
<1> QED BY <1>1, <1>2, <1>3, <1>4, <1>5, <1>6 DEF Next, StopStep

(* What callers are served is labelled with the mode the object is in       *)
(* (continueDoPing, stopSelfProtection), whatever runs concurrently.        *)
THEOREM RunModeAlwaysMatches == Spec => []RunModeMatchesStatus
<1>1. Labelled => RunModeMatchesStatus
  BY DEF Labelled
<1> QED BY InitLabelled, NextLabelled, TypeCorrect, <1>1, PTL DEF Spec

OnItsWay(u) == pc[u] \in {"enter", "push", "stop"}

LEMMA NextServesAdapter ==
    TypeOK /\ NormalServesAdapter /\ [Next]_vars => NormalServesAdapter'
<1> SUFFICES ASSUME TypeOK, NormalServesAdapter, [Next]_vars PROVE NormalServesAdapter'
  OBVIOUS
<1>1. CASE /\ UNCHANGED <<latestAdapterList, applyList>>
           /\ status' = "normal" => status = "normal"
           /\ \A u \in Updater : OnItsWay(u) => OnItsWay(u)'
  BY <1>1 DEF NormalServesAdapter, OnItsWay
<1>2. ASSUME NEW u \in Updater, Receive(u) PROVE NormalServesAdapter'
  BY <1>1, <1>2 DEF Receive, shared, Go, OnItsWay, TypeOK, ControlOK
<1>3. ASSUME NEW u \in Updater, Record(u) PROVE NormalServesAdapter'
  <2>1. status' # "normal" \/ pc'[u] \in {"enter", "push"}
    BY <1>3, ActorKinds DEF Record, OnlyRecords, Go, TypeOK, ControlOK
  <2> QED BY <2>1 DEF NormalServesAdapter
<1>4. ASSUME NEW u \in Updater, Enter(u) PROVE NormalServesAdapter'
  BY <1>4 DEF Enter, NormalServesAdapter
<1>5. ASSUME NEW u \in Updater, PushHistory(u) PROVE NormalServesAdapter'
  BY <1>1, <1>5 DEF PushHistory, Go, OnItsWay, TypeOK, ControlOK
<1>6. ASSUME NEW u \in Updater, Notify(u) PROVE NormalServesAdapter'
  BY <1>1, <1>6 DEF Notify, Return, shared, Go, OnItsWay, TypeOK, ControlOK
<1>7. ASSUME NEW c \in Configurer, UpdateOpts(c) PROVE NormalServesAdapter'
  BY <1>1, <1>7, ActorKinds DEF UpdateOpts, Go, OnItsWay, TypeOK, ControlOK
<1>8. ASSUME NEW l \in Loop, LoopStep(l) PROVE NormalServesAdapter'
  <2>1. \A u \in Updater : pc'[u] = pc[u]
    <3>1. \E label : Go(l, label)
      BY <1>8 DEF LoopStep, Begin, LoadOpts, Snapshot, Judge, Panic, Recover, Apply,
                  RefuseStop, Wake, Quit, Sleep
    <3> QED BY <3>1, ActorKinds DEF Go, TypeOK, ControlOK
  <2>2. CASE UNCHANGED <<status, applyList, latestAdapterList>>
    BY <1>1, <2>1, <2>2 DEF OnItsWay
  <2>3. CASE status' # "normal"
    BY <2>3 DEF NormalServesAdapter
  <2> QED BY <1>8, <2>2, <2>3
          DEF LoopStep, Begin, LoadOpts, Snapshot, Judge, Panic, Recover, Apply,
              RefuseStop, Wake, Quit, shared, MayPublish
<1>9. ASSUME NEW p \in Actor, StopSelfProtection(p) PROVE NormalServesAdapter'
  BY <1>9 DEF StopSelfProtection, Adopt, NormalServesAdapter
<1>10. ASSUME NEW p \in Actor, Cancel(p) PROVE NormalServesAdapter'
  BY <1>1, <1>10 DEF Cancel, Go, OnItsWay, TypeOK, ControlOK
<1>11. CASE Settle \/ Tick \/ UNCHANGED vars
  BY <1>1, <1>11 DEF Settle, Tick, vars, shared, locals, OnItsWay
<1> QED BY <1>2, <1>3, <1>4, <1>5, <1>6, <1>7, <1>8, <1>9, <1>10, <1>11
        DEF Next, StopStep, UpdaterStep

(* In normal mode the adapter's latest list is served, or an update is on   *)
(* its way to see to it, with any number of concurrent updates.             *)
THEOREM NormalAlwaysServesAdapter == Spec => []NormalServesAdapter
<1>1. Init => NormalServesAdapter
  BY DEF Init, NormalServesAdapter, EmptyList
<1> QED BY <1>1, NextServesAdapter, TypeCorrect, PTL DEF Spec

(* Nothing that runs while the object is in panic changes what is served.   *)
THEOREM PanicStaysFrozen == Spec => PanicIsFrozen
<1>1. [Next]_vars => (status = "panic" /\ status' = "panic" => applyList' = applyList)
  <2> SUFFICES ASSUME [Next]_vars, status = "panic", status' = "panic"
               PROVE  applyList' = applyList
    OBVIOUS
  <2>1. ASSUME NEW u \in Updater, Receive(u) \/ UpdaterStep(u) PROVE UNCHANGED applyList
    BY <2>1 DEF Receive, UpdaterStep, Record, Enter, PushHistory, Notify, shared
  <2>2. ASSUME NEW c \in Configurer, UpdateOpts(c) PROVE UNCHANGED applyList
    BY <2>2 DEF UpdateOpts
  <2>3. ASSUME NEW l \in Loop, LoopStep(l) PROVE UNCHANGED applyList
    BY <2>3 DEF LoopStep, Begin, LoadOpts, Snapshot, Judge, Panic, Recover, Apply,
                RefuseStop, Wake, Quit, shared, MayPublish
  <2>4. ASSUME NEW p \in Actor, StopStep(p) PROVE UNCHANGED applyList
    BY <2>4 DEF StopStep, StopSelfProtection, LeaveProtection, Cancel
  <2>5. CASE Settle \/ Tick \/ UNCHANGED vars
    BY <2>5 DEF Settle, Tick, vars, shared
  <2> QED BY <2>1, <2>2, <2>3, <2>4, <2>5 DEF Next
<1> QED BY <1>1, PTL DEF Spec, PanicIsFrozen

-----------------------------------------------------------------------------
(* One update at a time: consul and etcd call onUpdateList under a mutex.   *)

OneUpdater == \A u, v \in Updater : u = v

(* Protection is entered in the last step of an update, so no update is     *)
(* past its first section while protection is on; and nothing but an update *)
(* replaces the latest list.                                                *)
Sequential ==
    /\ status # "normal" => \A u \in Updater : pc[u] \in {"idle", "record"}
    /\ \A u \in Updater : OnItsWay(u) => latestAdapterList = call[u].list

(* No step of a loop or a configurer moves an updater.                      *)
LEMMA OthersLeaveUpdaters ==
    ASSUME TypeOK,
           NEW p \in Configurer \cup Loop, NEW label,
           Go(p, label) \/ UNCHANGED pc
    PROVE  \A u \in Updater : pc'[u] = pc[u]
BY ActorKinds DEF Go, TypeOK, ControlOK

LEMMA LoopLeavesUpdaters ==
    ASSUME TypeOK, NEW l \in Loop, LoopStep(l)
    PROVE  /\ \A u \in Updater : pc'[u] = pc[u]
           /\ UNCHANGED <<latestAdapterList, call>>
           /\ status' = "normal" <=> status = "normal"
<1>1. \E label : Go(l, label)
  BY DEF LoopStep, Begin, LoadOpts, Snapshot, Judge, Panic, Recover, Apply, RefuseStop,
         Wake, Quit, Sleep
<1>2. /\ UNCHANGED <<latestAdapterList, call>>
      /\ status' = "normal" <=> status = "normal"
  BY RoundGoes DEF LoopStep, Quit, shared
<1> QED BY <1>1, <1>2, OthersLeaveUpdaters

LEMMA NextSequential ==
    ASSUME OneUpdater
    PROVE  TypeOK /\ Sequential /\ [Next]_vars => Sequential'
<1> SUFFICES ASSUME TypeOK, Sequential, [Next]_vars PROVE Sequential'
  OBVIOUS
<1>1. ASSUME NEW u \in Updater, Receive(u) \/ UpdaterStep(u) PROVE Sequential'
  <2>1. \A v \in Updater : v = u
    BY DEF OneUpdater
  <2>2. CASE Receive(u)
    BY <2>1, <2>2 DEF Receive, shared, Go, OnItsWay, Sequential, TypeOK, ControlOK
  <2>3. CASE Record(u)
    BY <2>1, <2>3, ActorKinds
       DEF Record, OnlyRecords, Return, Go, OnItsWay, Sequential, TypeOK, ControlOK
  <2>4. CASE Enter(u)
    <3>1. pc'[u] = "idle"
      BY <2>4, ActorKinds DEF Enter, Return, Go, TypeOK, ControlOK
    <3> QED BY <2>1, <3>1 DEF OnItsWay, Sequential
  <2>5. CASE PushHistory(u)
    BY <2>1, <2>5 DEF PushHistory, Go, OnItsWay, Sequential, TypeOK, ControlOK
  <2>6. CASE Notify(u)
    BY <2>1, <2>6 DEF Notify, Return, shared, Go, OnItsWay, Sequential, TypeOK, ControlOK
  <2> QED BY <1>1, <2>2, <2>3, <2>4, <2>5, <2>6 DEF UpdaterStep
<1>2. ASSUME NEW c \in Configurer, UpdateOpts(c) PROVE Sequential'
  <2>1. \A u \in Updater : pc'[u] = pc[u]
    BY <1>2, OthersLeaveUpdaters DEF UpdateOpts
  <2> QED BY <1>2, <2>1 DEF UpdateOpts, OnItsWay, Sequential
<1>3. ASSUME NEW l \in Loop, LoopStep(l) PROVE Sequential'
  BY <1>3, LoopLeavesUpdaters DEF OnItsWay, Sequential
<1>4. ASSUME NEW p \in Actor, StopSelfProtection(p) PROVE Sequential'
  <2>1. status' = "normal" /\ UNCHANGED <<latestAdapterList, call>>
    BY <1>4 DEF StopSelfProtection, LeaveProtection
  <2>2. \A u \in Updater : OnItsWay(u)' => OnItsWay(u)
    <3>1. AfterStop(p) \notin {"enter", "push", "stop"}
      BY AfterStopType DEF Actor
    <3>2. \E label : Go(p, label) /\ label \notin {"enter", "push", "stop"}
      BY <1>4, <3>1 DEF StopSelfProtection
    <3> QED BY <3>2 DEF Go, OnItsWay, TypeOK, ControlOK
  <2> QED BY <2>1, <2>2 DEF Sequential, OnItsWay
<1>5. ASSUME NEW p \in Actor, Cancel(p) PROVE Sequential'
  <2>1. /\ UNCHANGED <<status, latestAdapterList, call>>
        /\ pc[p] = "cancel" /\ Go(p, AfterStop(p))
    BY <1>5 DEF Cancel
  <2>2. CASE p \in Updater
    BY <2>1, <2>2, AfterStopType DEF OneUpdater, Go, OnItsWay, Sequential, TypeOK, ControlOK
  <2>3. CASE p \notin Updater
    BY <2>1, <2>3, OthersLeaveUpdaters DEF Actor, OnItsWay, Sequential
  <2> QED BY <2>2, <2>3
<1>6. CASE Settle \/ Tick \/ UNCHANGED vars
  BY <1>6 DEF Settle, Tick, vars, shared, locals, OnItsWay, Sequential
<1> QED BY <1>1, <1>2, <1>3, <1>4, <1>5, <1>6 DEF Next, StopStep

LEMMA SequentialAlways ==
    ASSUME OneUpdater
    PROVE  Spec => [](TypeOK /\ Sequential)
<1>1. Init => Sequential
  BY ActorKinds DEF Init, Sequential, OnItsWay
<1>2. TypeOK /\ Sequential /\ [Next]_vars => Sequential'
  BY NextSequential
<1> QED BY <1>1, <1>2, TypeCorrect, PTL DEF Spec

(* As onUpdateList says: while protection is on, an update only replaces    *)
(* latestAdapterList, provided updates come one at a time.                  *)
THEOREM AbnormalAlwaysOnlyRecords ==
    ASSUME OneUpdater
    PROVE  Spec => AbnormalOnlyRecords
<1>1. TypeOK /\ Sequential /\ [Next]_vars =>
        \A u \in Updater :
           status # "normal" /\ pc'[u] # pc[u] => status' = status /\ applyList' = applyList
  <2> SUFFICES ASSUME TypeOK, Sequential, [Next]_vars, NEW u \in Updater,
                      status # "normal", pc'[u] # pc[u]
               PROVE  status' = status /\ applyList' = applyList
    OBVIOUS
  <2>1. pc[u] \in {"idle", "record"} /\ \A v \in Updater : v = u
    BY DEF Sequential, OneUpdater
  <2>2. CASE \E v \in Updater : Receive(v) \/ UpdaterStep(v)
    BY <2>1, <2>2 DEF Receive, UpdaterStep, Record, Enter, PushHistory, Notify, shared
  <2>3. CASE \E c \in Configurer : UpdateOpts(c)
    BY <2>3 DEF UpdateOpts
  <2>4. CASE \E l \in Loop : LoopStep(l)
    BY <2>4, LoopLeavesUpdaters
  <2>5. ASSUME NEW p \in Actor, StopStep(p) PROVE FALSE
    <3>1. pc[p] \in {"stop", "cancel"} /\ \E label : Go(p, label)
      BY <2>5 DEF StopStep, StopSelfProtection, Cancel
    <3>2. p = u
      BY <3>1 DEF Go, TypeOK, ControlOK
    <3> QED BY <2>1, <3>1, <3>2
  <2>6. CASE Settle \/ Tick \/ UNCHANGED vars
    BY <2>6 DEF Settle, Tick, vars, shared, locals
  <2> QED BY <2>2, <2>3, <2>4, <2>5, <2>6 DEF Next
<1> QED BY <1>1, SequentialAlways, PTL DEF Spec, AbnormalOnlyRecords

-----------------------------------------------------------------------------
(* One update at a time, and protection that no reconfiguration switches    *)
(* off: sessions do not overlap.                                            *)

NeverSwitchedOff == Configurer = {} \/ \A o \in DegradeOpts : o.Flag = 0

(* updateOpts goes no further than to store the options.                    *)
Undisturbed == \A c \in Configurer : pc[c] = "idle"

LEMMA UndisturbedAlways ==
    ASSUME NeverSwitchedOff
    PROVE  Spec => []Undisturbed
<1>1. Init => Undisturbed
  BY ActorKinds DEF Init, Undisturbed
<1>2. ASSUME TypeOK, Undisturbed, [Next]_vars PROVE Undisturbed'
  <2>1. ASSUME NEW p \in Updater \cup Loop, NEW label, Go(p, label) PROVE Undisturbed'
    BY <1>2, <2>1, ActorKinds DEF Undisturbed, Go, TypeOK, ControlOK
  <2>2. ASSUME NEW u \in Updater, Receive(u) \/ UpdaterStep(u) PROVE Undisturbed'
    <3>1. CASE \E label : Go(u, label)
      BY <2>1, <3>1
    <3>2. CASE Enter(u)
      BY <1>2, <2>1, <3>2, ActorKinds DEF Enter, Return, Undisturbed, TypeOK, ControlOK
    <3> QED BY <2>2, <3>1, <3>2
            DEF UpdaterStep, Receive, Record, PushHistory, Notify, Return
  <2>3. ASSUME NEW c \in Configurer, UpdateOpts(c) PROVE Undisturbed'
    <3>1. opts' \in DegradeOpts /\ opts'.Flag # 1
      BY <2>3 DEF UpdateOpts, NeverSwitchedOff
    <3> QED BY <1>2, <2>3, <3>1 DEF UpdateOpts, Undisturbed
  <2>4. ASSUME NEW l \in Loop, LoopStep(l) PROVE Undisturbed'
    <3>1. \E label : Go(l, label)
      BY <2>4 DEF LoopStep, Begin, LoadOpts, Snapshot, Judge, Panic, Recover, Apply,
                  RefuseStop, Wake, Quit, Sleep
    <3> QED BY <2>1, <3>1
  <2>5. ASSUME NEW p \in Actor, StopStep(p) PROVE Undisturbed'
    <3>1. p \notin Configurer
      BY <1>2, <2>5 DEF Undisturbed, StopStep, StopSelfProtection, Cancel
    <3>2. \E label : Go(p, label)
      BY <2>5 DEF StopStep, StopSelfProtection, Cancel
    <3> QED BY <2>1, <3>1, <3>2 DEF Actor
  <2>6. CASE Settle \/ Tick \/ UNCHANGED vars
    BY <1>2, <2>6 DEF Settle, Tick, vars, locals, Undisturbed
  <2> QED BY <1>2, <2>2, <2>3, <2>4, <2>5, <2>6 DEF Next
<1> QED BY <1>1, <1>2, TypeCorrect, PTL DEF Spec

(* A loop that has not finished is the one that owns protection, and the    *)
(* baseline it took at its start is not taken again.                        *)
OneSession ==
    /\ \A l \in Loop : pc[l] \in Checking => l = pingCtxCancel
    /\ status = "panic" => pc[pingCtxCancel] # "begin"
    /\ PanicServesBaseline

LEMMA RoundKeepsBaselines ==
    ASSUME TypeOK, NEW l \in Loop, LoopStep(l), ~Begin(l)
    PROVE  \A k \in Loop : ping'[k].stable = ping[k].stable
<1>1. ASSUME NEW found, ping' = [ping EXCEPT ![l] = [ping[l] EXCEPT !.health = found]]
      PROVE  \A k \in Loop : ping'[k].stable = ping[k].stable
  BY <1>1 DEF TypeOK, LocalsOK, Ping
<1>2. CASE Sleep(l)
  BY <1>2 DEF Sleep, TypeOK, LocalsOK, Ping
<1>3. CASE Judge(l) /\ ~Sleep(l)
  <2>1. \E found : ping' = [ping EXCEPT ![l] = [ping[l] EXCEPT !.health = found]]
    BY <1>3 DEF Judge
  <2> QED BY <2>1, <1>1
<1>4. CASE LoadOpts(l) \/ Snapshot(l) \/ Wake(l)
  BY <1>4 DEF LoadOpts, Snapshot, Wake, TypeOK, LocalsOK, Ping
<1>5. CASE UNCHANGED ping
  BY <1>5
<1> QED BY <1>2, <1>3, <1>4, <1>5 DEF LoopStep, Panic, Recover, Apply, RefuseStop, Quit

LEMMA RoundOneSession ==
    ASSUME Owned, Owned', OneSession, NEW l \in Loop, LoopStep(l)
    PROVE  OneSession'
<1> USE DEF Owned
<1>1. CASE Quit(l)
  BY <1>1, ActorKinds
     DEF Quit, shared, Go, OneSession, Checking, PanicServesBaseline, TypeOK, ControlOK
<1>2. CASE ~Quit(l)
  <2>1. /\ pc[l] \in Checking /\ \E label \in Checking \ {"begin"} : Go(l, label)
        /\ UNCHANGED pingCtxCancel
        /\ status' = "normal" <=> status = "normal"
    BY <1>2, RoundGoes DEF LoopStep
  <2>2. l = pingCtxCancel
    BY <2>1 DEF OneSession
  <2>3. /\ \A k \in Loop : k # l => pc'[k] = pc[k]
        /\ pc'[l] \in Checking \ {"begin"}
    BY <2>1, ActorKinds DEF Go, TypeOK, ControlOK
  <2>4. PanicServesBaseline'
    <3>1. CASE Begin(l)
      <4>1. status # "panic" /\ UNCHANGED status
        BY <3>1, <2>2 DEF Begin, OneSession
      <4> QED BY <4>1 DEF PanicServesBaseline
    <3>2. CASE ~Begin(l)
      <4>1. ping'[l].stable = ping[l].stable
        BY <3>2, RoundKeepsBaselines
      <4>2. CASE UNCHANGED <<status, applyList>>
        BY <2>1, <2>2, <4>1, <4>2 DEF OneSession, PanicServesBaseline
      <4>3. CASE status' = "selfProtection"
        BY <4>3 DEF PanicServesBaseline
      <4>4. CASE Publish("panic", applyList.version, PanicList(l))
        BY <2>1, <2>2, <4>1, <4>4
           DEF Publish, PanicList, PanicServesBaseline, SharedOK, TypeOK, ServiceList
      <4> QED BY <4>2, <4>3, <4>4
              DEF LoopStep, Begin, LoadOpts, Snapshot, Judge, Panic, Recover, Apply,
                  RefuseStop, Wake, Quit, shared, MayPublish
    <3> QED BY <3>1, <3>2
  <2> QED BY <2>1, <2>2, <2>3, <2>4 DEF OneSession
<1> QED BY <1>1, <1>2

LEMMA NextOneSession ==
    ASSUME OneUpdater
    PROVE  Owned /\ Owned' /\ Sequential /\ Undisturbed /\ OneSession /\ [Next]_vars
               => OneSession'
<1> SUFFICES ASSUME Owned, Owned', Sequential, Undisturbed, OneSession, [Next]_vars
             PROVE  OneSession'
  OBVIOUS
<1> USE DEF Owned
<1>1. CASE /\ UNCHANGED <<status, applyList, pingCtxCancel, ping>>
           /\ \A l \in Loop : pc'[l] = pc[l]
  <2>1. status = "panic" => pingCtxCancel \in Loop
    BY DEF ProtectionIsOwned, TypeOK, SharedOK
  <2> QED BY <1>1, <2>1 DEF OneSession, PanicServesBaseline
<1>2. ASSUME NEW u \in Updater, NEW label, Go(u, label)
      PROVE  \A l \in Loop : pc'[l] = pc[l]
  BY <1>2, ActorKinds DEF Go, TypeOK, ControlOK
<1>3. ASSUME NEW u \in Updater, Receive(u) \/ Record(u) \/ PushHistory(u) \/ Notify(u)
      PROVE  OneSession'
  <2>1. \E label : Go(u, label)
    BY <1>3 DEF Receive, Record, PushHistory, Notify, Return
  <2> QED BY <1>1, <1>2, <1>3, <2>1 DEF Receive, Record, PushHistory, Notify, shared
<1>4. ASSUME NEW u \in Updater, Enter(u) PROVE OneSession'
  <2>1. status = "normal" /\ pingCtxCancel = NoLoop
    BY <1>4 DEF Enter, Sequential, ProtectionIsOwned
  <2>2. PICK l \in Loop : /\ pingCtxCancel' = l
                          /\ pc' = [pc EXCEPT ![l] = "begin", ![u] = "idle"]
    BY <1>4, <2>1 DEF Enter
  <2>3. \A k \in Loop : pc[k] \notin Checking
    BY <2>1, ActorKinds DEF OneSession
  <2>4. \A k \in Loop : k # l => pc'[k] = pc[k]
    BY <2>2, ActorKinds DEF TypeOK, ControlOK
  <2>5. status' = "selfProtection"
    BY <1>4, <2>1 DEF Enter
  <2> QED BY <2>2, <2>3, <2>4, <2>5 DEF OneSession, PanicServesBaseline
<1>5. ASSUME NEW l \in Loop, LoopStep(l) PROVE OneSession'
  BY <1>5, RoundOneSession
<1>6. ASSUME NEW p \in Actor, StopSelfProtection(p) PROVE OneSession'
  <2>1. \A l \in Loop : pc'[l] \in Checking => pc[l] \in Checking /\ l # p
    <3>1. \E label : Go(p, label) /\ (p \in Loop => label \notin Checking)
      BY <1>6, AfterStopType DEF StopSelfProtection, Checking
    <3> QED BY <3>1 DEF Go, TypeOK, ControlOK
  <2>2. status' = "normal"
    BY <1>6 DEF StopSelfProtection, LeaveProtection
  <2>3. \A l \in Loop : pc'[l] \notin Checking
    <3>1. CASE p \in Loop
      BY <1>6, <2>1, <3>1 DEF StopSelfProtection, OneSession, Checking
    <3>2. CASE p \in Updater
      <4>1. status = "normal"
        BY <1>6, <3>2 DEF StopSelfProtection, Sequential
      <4> QED BY <4>1, <2>1, ActorKinds DEF OneSession, ProtectionIsOwned
    <3> QED BY <1>6, <3>1, <3>2 DEF Actor, Undisturbed, StopSelfProtection
  <2> QED BY <2>2, <2>3 DEF OneSession, PanicServesBaseline
<1>7. ASSUME NEW p \in Actor, Cancel(p) PROVE OneSession'
  <2>1. /\ pc[p] = "cancel" /\ pc'[p] = AfterStop(p)
        /\ \A q \in Actor : q # p => pc'[q] = pc[q]
        /\ UNCHANGED <<status, applyList, pingCtxCancel, ping>>
    BY <1>7 DEF Cancel, Go, TypeOK, ControlOK
  <2>2. AfterStop(p) \notin Checking
    BY AfterStopType DEF Actor, Checking
  <2>3. "cancel" \notin Checking
    BY DEF Checking
  <2>4. \A l \in Loop : pc'[l] \in Checking => l # p /\ pc[l] \in Checking
    BY <2>1, <2>2, ActorKinds
  <2>5. status = "panic" => pingCtxCancel # p /\ pingCtxCancel \in Loop
    BY <2>1, <2>3 DEF ProtectionIsOwned, TypeOK, SharedOK
  <2>6. status = "panic" => pc'[pingCtxCancel] = pc[pingCtxCancel]
    BY <2>1, <2>5, ActorKinds
  <2> QED BY <2>1, <2>4, <2>6 DEF OneSession, PanicServesBaseline
<1>8. CASE Settle \/ Tick \/ UNCHANGED vars
  BY <1>1, <1>8 DEF Settle, Tick, vars, shared, locals
<1>9. ASSUME NEW c \in Configurer, UpdateOpts(c) PROVE OneSession'
  <2>1. \A l \in Loop : pc'[l] = pc[l]
    BY <1>9, ActorKinds DEF UpdateOpts, Go, TypeOK, ControlOK
  <2> QED BY <1>1, <1>9, <2>1 DEF UpdateOpts
<1> QED BY <1>3, <1>4, <1>5, <1>6, <1>7, <1>8, <1>9 DEF Next, StopStep, UpdaterStep

LEMMA OneSessionAlways ==
    ASSUME OneUpdater, NeverSwitchedOff
    PROVE  Spec => []OneSession /\ []Owned
<1>1. Init => OneSession
  BY ActorKinds DEF Init, OneSession, PanicServesBaseline, Checking
<1>2. Owned /\ Owned' /\ Sequential /\ Undisturbed /\ OneSession /\ [Next]_vars
          => OneSession'
  BY NextOneSession
<1> QED BY <1>1, <1>2, InitOwned, NextOwned, TypeCorrect, SequentialAlways,
           UndisturbedAlways, PTL DEF Spec

(* Panic serves the absolute baseline its session started from, for updates *)
(* that come one at a time and options that may change but never switch     *)
(* protection off.                                                          *)
THEOREM PanicAlwaysServesBaseline ==
    ASSUME OneUpdater, NeverSwitchedOff
    PROVE  Spec => []PanicServesBaseline
<1>1. OneSession => PanicServesBaseline
  BY DEF OneSession
<1> QED BY <1>1, OneSessionAlways, PTL

-----------------------------------------------------------------------------
(* The queues implement History                                            *)

(* Degrade and the instance of History work with the same LoopList.         *)
LEMMA SameDelTimeout ==
    ASSUME NEW l, NEW time, NEW o
    PROVE  Archive!DelTimeout(l, time, o) = DelTimeout(l, time, o)
BY DEF Archive!DelTimeout, DelTimeout, Archive!MayEnd, MayEnd

LEMMA SamePush ==
    ASSUME NEW l, NEW e, NEW o
    PROVE  Archive!Push(l, e, o) = Push(l, e, o)
<1>1. Archive!DelTimeout(l, e.unixNano, o) = DelTimeout(l, e.unixNano, o)
  BY SameDelTimeout
<1> QED BY <1>1 DEF Archive!Push, Push, Archive!Overwrites, Overwrites, Archive!Front, Front

LEMMA SameLoopList ==
    /\ \A l, time, o : Archive!Trim(l, time, o) = Trim(l, time, o)
    /\ \A h, s, e, o : Archive!PushBoth(h, s, e, o) = PushBoth(h, s, e, o)
<1>1. \A l, time, o : Archive!Trim(l, time, o) = Trim(l, time, o)
  BY SameDelTimeout DEF Archive!Trim, Trim
<1>2. \A l, e, o : Archive!Push(l, e, o) = Push(l, e, o)
  BY SamePush
<1>3. \A h, s, e, o : Archive!PushSecond(h, s, e, o) = PushSecond(h, s, e, o)
  BY <1>2 DEF Archive!PushSecond, PushSecond, Archive!Front, Front
<1>4. \A h, s, e, o : Archive!PushBoth(h, s, e, o) = PushBoth(h, s, e, o)
  BY <1>2, <1>3 DEF Archive!PushBoth, PushBoth, Archive!Front, Front
<1> QED BY <1>1, <1>4

LEMMA InitImplements == Init => Archive!Init
<1> SUFFICES ASSUME Init PROVE Archive!Init
  OBVIOUS
<1>1. CASE InitFresh
  BY <1>1 DEF Init, InitFresh, Archive!Init
<1>2. ASSUME NEW nodes \in InitEndpoints, InitFromHistory(nodes) PROVE Archive!Init
  BY <1>2, SameLoopList DEF Init, InitFromHistory, Archive!Init
<1> QED BY <1>1, <1>2 DEF Init

(* A push that Degrade makes is one of History's.                           *)
LEMMA PushImplements ==
    ASSUME NEW h, NEW nodes, NEW o, PushElem(h, nodes, o)
    PROVE  Archive!PushTo(h, nodes, o)
BY SameLoopList DEF PushElem, Archive!PushTo, Archive!Stamped

LEMMA NextImplements == TypeOK /\ [Next]_vars => [Archive!Next]_(Archive!vars)
<1> SUFFICES ASSUME TypeOK, [Next]_vars PROVE [Archive!Next]_(Archive!vars)
  OBVIOUS
<1> DEFINE Stutter == UNCHANGED <<historyEndpoints, stableHistoryEndpoints, now>>
<1>1. ASSUME Stutter PROVE UNCHANGED Archive!vars
  BY <1>1 DEF Archive!vars
<1>2. ASSUME NEW u \in Updater, Record(u) PROVE Archive!Next
  <2>1. call[u].opts \in DegradeOpts
    BY DEF TypeOK, LocalsOK, Call
  <2>2. Archive!Compare(call[u].opts)
    BY <1>2, SameLoopList DEF Record, environment, Archive!Compare
  <2> QED BY <2>1, <2>2 DEF Archive!Next
<1>3. ASSUME NEW u \in Updater, PushHistory(u) PROVE Archive!Next
  <2>1. call[u].opts \in DegradeOpts /\ call[u].list.services \in SUBSET Node
    BY DEF TypeOK, LocalsOK, Call, ServiceList
  <2>2. Archive!Accept(call[u].list.services, call[u].opts)
    BY <1>3, PushImplements DEF PushHistory, environment, Archive!Accept
  <2> QED BY <2>1, <2>2 DEF Archive!Next
<1>4. ASSUME NEW p \in Actor, StopSelfProtection(p) PROVE Archive!Next \/ Stutter
  <2>1. CASE status = "normal"
    BY <1>4, <2>1 DEF StopSelfProtection, environment
  <2>2. CASE status # "normal"
    <3>1. opts \in DegradeOpts /\ latestAdapterList.services \in SUBSET Node
      BY DEF TypeOK, SharedOK, ServiceList
    <3>2. PushElem(<<>>, latestAdapterList.services, opts) /\ UNCHANGED now
      BY <1>4, <2>2 DEF StopSelfProtection, LeaveProtection, environment
    <3>3. Archive!Leave(latestAdapterList.services, opts)
      BY <3>2, PushImplements DEF Archive!Leave
    <3> QED BY <3>1, <3>3 DEF Archive!Next
  <2> QED BY <2>1, <2>2
<1>5. ASSUME NEW l \in Loop, Begin(l) PROVE Archive!Next
  <2>1. opts \in DegradeOpts
    BY DEF TypeOK, SharedOK
  <2>2. Archive!StartPing(opts)
    BY <1>5, SameLoopList DEF Begin, environment, Archive!StartPing
  <2> QED BY <2>1, <2>2 DEF Archive!Next
<1>6. CASE Tick
  BY <1>6 DEF Tick, shared, Archive!Tick, Archive!Next
<1>7. ASSUME NEW u \in Updater, Receive(u) \/ Enter(u) \/ Notify(u) PROVE Stutter
  BY <1>7 DEF Receive, Enter, Notify, shared, environment
<1>8. ASSUME NEW l \in Loop, LoopStep(l), ~Begin(l) PROVE Stutter
  BY <1>8 DEF LoopStep, LoadOpts, Snapshot, Judge, Panic, Recover, Apply, RefuseStop,
              Wake, Quit, shared, environment
<1>9. ASSUME NEW p \in Actor, Cancel(p) PROVE Stutter
  BY <1>9 DEF Cancel, environment
<1>10. ASSUME NEW c \in Configurer, UpdateOpts(c) PROVE Stutter
  BY <1>10 DEF UpdateOpts
<1>11. CASE Settle \/ UNCHANGED vars
  BY <1>1, <1>11 DEF Settle, vars, shared, environment
<1> HIDE DEF Stutter
<1> QED BY <1>1, <1>2, <1>3, <1>4, <1>5, <1>6, <1>7, <1>8, <1>9, <1>10, <1>11
        DEF Next, UpdaterStep, StopStep

(* Whatever updaters, configurers and loops do, the two queues only ever go *)
(* through the operations of History (onUpdateList, stopSelfProtection,     *)
(* pingLoop).                                                               *)
THEOREM QueuesImplementHistory == Spec => ImplementsHistory
BY InitImplements, NextImplements, TypeCorrect, PTL DEF Spec, ImplementsHistory, Archive!Spec

(* What HistoryProofs proves of History, it proves of the queues.           *)
LEMMA QueuesObeyHistory == Spec => Guarantees!Spec
<1>1. /\ \A l, time, o : Archive!Trim(l, time, o) = Guarantees!Trim(l, time, o)
      /\ \A h, s, e, o : Archive!PushBoth(h, s, e, o) = Guarantees!PushBoth(h, s, e, o)
  <2>1. \A l, time, o : Archive!Trim(l, time, o) = Guarantees!Trim(l, time, o)
    BY SameLoopList, InstanceDelTimeout DEF Trim, Guarantees!Trim
  <2>2. \A h, s, e, o : Archive!PushBoth(h, s, e, o) = Guarantees!PushBoth(h, s, e, o)
    BY SameLoopList, InstancePushBoth
  <2> QED BY <2>1, <2>2
<1>2. Archive!Init => Guarantees!Init
  BY <1>1 DEF Archive!Init, Guarantees!Init
<1>3. [Archive!Next]_(Archive!vars) => [Guarantees!Next]_(Guarantees!vars)
  <2>1. \A q, list, o : Archive!PushTo(q, list, o) => Guarantees!PushTo(q, list, o)
    BY <1>1 DEF Archive!PushTo, Guarantees!PushTo, Archive!Stamped, Guarantees!Stamped
  <2>2. \A o : Archive!Compare(o) => Guarantees!Compare(o)
    BY <1>1 DEF Archive!Compare, Guarantees!Compare
  <2>3. \A o : Archive!StartPing(o) => Guarantees!StartPing(o)
    BY <1>1 DEF Archive!StartPing, Guarantees!StartPing
  <2>4. \A list, o : Archive!Accept(list, o) => Guarantees!Accept(list, o)
    BY <2>1 DEF Archive!Accept, Guarantees!Accept
  <2>5. \A list, o : Archive!Leave(list, o) => Guarantees!Leave(list, o)
    BY <2>1 DEF Archive!Leave, Guarantees!Leave
  <2> QED BY <2>2, <2>3, <2>4, <2>5
          DEF Archive!Next, Guarantees!Next, Archive!vars, Guarantees!vars, Archive!Tick,
              Guarantees!Tick
<1> QED BY <1>2, <1>3, QueuesImplementHistory, PTL
        DEF ImplementsHistory, Archive!Spec, Guarantees!Spec

(* Hence the queues always have the same element in front, the one object   *)
(* both of them hold (push, reset).                                         *)
THEOREM QueuesShareFront == Spec => []Archive!SameFront
<1>1. Guarantees!Spec => []Guarantees!SameFront
  BY HistoryConstants, Guarantees!FrontIsShared, PTL
<1>2. Guarantees!SameFront => Archive!SameFront
  BY DEF Archive!SameFront, Guarantees!SameFront, Archive!Front,
         Guarantees!Front
<1> QED BY <1>1, <1>2, QueuesObeyHistory, PTL

(* Hence also, as long as the options are not changed, whatever the updates *)
(* and the loops do: archived lists are EndpointsSaveInterval apart, neither*)
(* queue outgrows the window, and the stable one, once it holds a list older*)
(* than the window, always does (push, delTimeout).                         *)
THEOREM QueuesAreArchives ==
    ASSUME \A o, p \in DegradeOpts : o = p,
           \A o \in DegradeOpts : o.ThresholdContrastInterval >= 0
    PROVE  Spec => /\ [](Archive!ArchivesAreSpaced /\ Archive!ArchivesAreBounded)
                   /\ Archive!OldDatumIsKept
<1>1. Guarantees!OneSetOfOptions
  BY DEF Guarantees!OneSetOfOptions
<1>2. Guarantees!Spec => []Guarantees!ArchivesAreSpaced
  BY <1>1, HistoryConstants, Guarantees!ArchivesAlwaysSpaced, PTL
<1>3. Guarantees!Spec => []Guarantees!ArchivesAreBounded
  BY <1>1, HistoryConstants, Guarantees!ArchivesAlwaysBounded, PTL
<1>4. Guarantees!Spec => Guarantees!OldDatumIsKept
  BY <1>1, HistoryConstants, Guarantees!OldDatumAlwaysKept, PTL
<1>5. Guarantees!ArchivesAreSpaced => Archive!ArchivesAreSpaced
  BY DEF Guarantees!ArchivesAreSpaced, Archive!ArchivesAreSpaced, Guarantees!Spaced,
         Archive!Spaced
<1>6. Guarantees!ArchivesAreBounded => Archive!ArchivesAreBounded
  BY DEF Guarantees!ArchivesAreBounded, Archive!ArchivesAreBounded
<1>7. [\A o \in DegradeOpts :
         Guarantees!HasOld(stableHistoryEndpoints, now, o)
            => Guarantees!HasOld(stableHistoryEndpoints', now', o)]_(Guarantees!vars)
      => [\A o \in DegradeOpts :
            Archive!HasOld(stableHistoryEndpoints, now, o)
               => Archive!HasOld(stableHistoryEndpoints', now', o)]_(Archive!vars)
  BY DEF Guarantees!HasOld, Archive!HasOld, Guarantees!vars, Archive!vars
<1>8. Guarantees!OldDatumIsKept => Archive!OldDatumIsKept
  BY <1>7, PTL DEF Guarantees!OldDatumIsKept, Archive!OldDatumIsKept
<1> QED BY <1>2, <1>3, <1>4, <1>5, <1>6, <1>8, QueuesObeyHistory, PTL

-----------------------------------------------------------------------------
(* What readers see is what Served says                                     *)

Reported(l) == l.watchVersion = 1 /\ l.version > 0 /\ l.runMode = "unset"

(* Reports are recorded in the order of their versions.                     *)
ReportsInOrder ==
    /\ updates <= MaxUpdates
    /\ latestAdapterList.version <= updates
    /\ latestAdapterList = EmptyList \/ Reported(latestAdapterList)
    /\ \A u \in Updater : pc[u] = "record" =>
          /\ Reported(call[u].list)
          /\ call[u].list.version = updates
          /\ latestAdapterList.version < updates
    /\ \A u \in Updater : OnItsWay(u) => Reported(latestAdapterList)
    /\ status # "normal" => Reported(latestAdapterList)

Behind == applyList.watchVersion = 0 \/ applyList.version < latestAdapterList.version

(* A list on its way, and one that a session was started for, are not       *)
(* served yet.                                                              *)
NotServedYet ==
    /\ latestAdapterList = EmptyList => applyList.watchVersion = 0
    /\ \A u \in Updater : OnItsWay(u) => Behind
    /\ status # "normal" /\ applyList.runMode = "unset" => Behind

(* The loop that owns protection has a version to publish its next list     *)
(* under; after it has published, not before its timer fires.               *)
RoundsAdvance ==
    /\ applyList.version <= MaxUpdates + MaxVersion
    /\ \A l \in Loop : l = pingCtxCancel =>
          /\ pc[l] = "begin" => applyList.runMode \in {"unset", "init"}
          /\ pc[l] # "begin" => /\ applyList.version <= ping[l].version
                                /\ ping[l].version <= MaxUpdates + MaxVersion
          /\ pc[l] \notin {"begin", "sleep"} => Reader!Follows(ping[l].version)
          /\ applyList.runMode = "panic" => applyList.services = ping[l].stable

ReaderInv == ReportsInOrder /\ NotServedYet /\ RoundsAdvance

LEMMA VersionsType ==
    ASSUME TypeOK
    PROVE  /\ applyList.version \in Nat /\ latestAdapterList.version \in Nat
           /\ \A l \in Loop : ping[l].version \in Nat
           /\ \A u \in Updater : call[u].list.version \in Nat
           /\ updates \in Nat /\ MaxUpdates \in Nat /\ MaxVersion \in Nat
BY NumbersAssumption
   DEF TypeOK, SharedOK, LocalsOK, EnvironmentOK, ServiceList, Ping, Call, NumbersAssumption

LEMMA InitReader == Init => ReaderInv
<1> SUFFICES ASSUME Init PROVE ReaderInv
  OBVIOUS
<1>1. EmptyList.version = 0 /\ EmptyList.watchVersion = 0
      /\ \A nodes : InitList(nodes).version = 0 /\ InitList(nodes).watchVersion = 0
  BY DEF EmptyList, InitList
<1>2. applyList.version = 0 /\ applyList.watchVersion = 0
  BY <1>1 DEF Init, InitFresh, InitFromHistory
<1>3. /\ latestAdapterList = EmptyList /\ status = "normal" /\ updates = 0
      /\ pingCtxCancel = NoLoop
      /\ \A u \in Updater : pc[u] = "idle"
  BY ActorKinds DEF Init
<1>4. MaxUpdates \in Nat /\ MaxVersion \in Nat
  BY NumbersAssumption DEF NumbersAssumption
<1>5. ReportsInOrder
  BY <1>1, <1>3, <1>4 DEF ReportsInOrder, OnItsWay
<1>6. NotServedYet
  BY <1>2, <1>3 DEF NotServedYet, OnItsWay
<1>7. RoundsAdvance
  BY <1>2, <1>3, <1>4, ActorsAssumption DEF RoundsAdvance, ActorsAssumption, Actor
<1> QED BY <1>5, <1>6, <1>7 DEF ReaderInv

(* What the invariants of sessions and of readers rest on.                  *)
Base ==
    /\ Owned /\ Labelled /\ NormalServesAdapter
    /\ Sequential /\ Undisturbed /\ OneSession

(* The steps that leave what readers see, and what orders it, alone.        *)
LEMMA ReaderFrame ==
    ASSUME ReaderInv,
           UNCHANGED <<status, latestAdapterList, applyList, updates, pingCtxCancel>>,
           \A u \in Updater : pc'[u] = "record" =>
               pc[u] = "record" /\ call'[u].list = call[u].list,
           \A u \in Updater : OnItsWay(u)' => OnItsWay(u),
           \A l \in Loop : l = pingCtxCancel => pc'[l] = pc[l] /\ ping'[l] = ping[l]
    PROVE  ReaderInv'
<1>1. ReportsInOrder'
  BY DEF ReaderInv, ReportsInOrder, Reported
<1>2. NotServedYet'
  BY DEF ReaderInv, NotServedYet, Behind
<1>3. RoundsAdvance'
  BY DEF ReaderInv, RoundsAdvance, Reader!Follows
<1> QED BY <1>1, <1>2, <1>3 DEF ReaderInv

LEMMA ReceiveReader ==
    ASSUME OneUpdater, Base, ReaderInv, NEW u \in Updater, Receive(u)
    PROVE  ReaderInv'
<1>1. UNCHANGED <<status, latestAdapterList, applyList, pingCtxCancel, ping>>
  BY DEF Receive, shared
<1>2. /\ pc[u] = "idle" /\ pc'[u] = "record"
      /\ \A q \in Actor : q # u => pc'[q] = pc[q]
  BY ActorKinds DEF Receive, Go, Base, Owned, TypeOK, ControlOK
<1>3. Reported(call'[u].list) /\ call'[u].list.version = updates + 1
  <2>1. PICK r \in Report :
          call' = [call EXCEPT ![u] =
                     [opts |-> opts,
                      list |-> AdapterList(updates + 1, r.listed \ r.offline),
                      offline |-> r.listed \cap r.offline]]
    BY DEF Receive
  <2>2. call'[u].list = AdapterList(updates + 1, r.listed \ r.offline)
    BY <2>1 DEF Base, Owned, TypeOK, LocalsOK
  <2>3. updates \in Nat
    BY VersionsType DEF Base, Owned
  <2> QED BY <2>2, <2>3 DEF AdapterList, Reported
<1>4. updates' = updates + 1 /\ updates < MaxUpdates
  BY DEF Receive
<1>5. \A v \in Updater : v = u
  BY DEF OneUpdater
<1>6. ReportsInOrder'
  <2>1. updates \in Nat /\ MaxUpdates \in Nat /\ latestAdapterList.version \in Nat
    BY VersionsType DEF Base, Owned
  <2> QED BY <1>1, <1>2, <1>3, <1>4, <1>5, <2>1 DEF ReaderInv, ReportsInOrder, OnItsWay, Reported
<1>7. NotServedYet'
  BY <1>1, <1>2, <1>5 DEF ReaderInv, NotServedYet, Behind, OnItsWay
<1>8. RoundsAdvance'
  BY <1>1, <1>2, ActorKinds DEF ReaderInv, RoundsAdvance, Reader!Follows
<1> QED BY <1>6, <1>7, <1>8 DEF ReaderInv

(* An update that finds the object in normal mode is later than what is     *)
(* served.                                                                  *)
LEMMA RecordIsLater ==
    ASSUME OneUpdater, Base, ReaderInv, NEW u \in Updater, pc[u] = "record",
           status = "normal"
    PROVE  applyList.watchVersion = 0 \/ applyList.version < updates
<1>1. \A v \in Updater : v = u
  BY DEF OneUpdater
<1>2. latestAdapterList.version > 0 => applyList = latestAdapterList
  BY <1>1 DEF Base, NormalServesAdapter
<1>3. latestAdapterList.version < updates
  BY DEF ReaderInv, ReportsInOrder
<1>4. CASE latestAdapterList = EmptyList
  BY <1>4 DEF ReaderInv, NotServedYet
<1>5. CASE Reported(latestAdapterList)
  BY <1>2, <1>3, <1>5 DEF Reported
<1> QED BY <1>4, <1>5 DEF ReaderInv, ReportsInOrder

LEMMA RecordReader ==
    ASSUME OneUpdater, Base, ReaderInv, NEW u \in Updater, Record(u)
    PROVE  ReaderInv'
<1>1. /\ UNCHANGED <<status, applyList, updates, pingCtxCancel, ping>>
      /\ latestAdapterList' = call[u].list
  BY DEF Record, environment
<1>2. /\ pc[u] = "record" /\ pc'[u] # "record"
      /\ \A q \in Actor : q # u => pc'[q] = pc[q]
      /\ status # "normal" => pc'[u] = "idle"
  BY ActorKinds DEF Record, OnlyRecords, Return, Go, Base, Owned, TypeOK, ControlOK
<1>3. \A v \in Updater : v = u
  BY DEF OneUpdater
<1>4. /\ Reported(call[u].list) /\ call[u].list.version = updates
      /\ latestAdapterList.version < updates
  BY <1>2 DEF ReaderInv, ReportsInOrder
<1>5. ReportsInOrder'
  <2>1. updates <= MaxUpdates /\ updates \in Nat
    BY VersionsType DEF ReaderInv, ReportsInOrder, Base, Owned
  <2>2. Reported(latestAdapterList') /\ latestAdapterList'.version = updates
    BY <1>1, <1>4
  <2>3. updates' <= MaxUpdates /\ latestAdapterList'.version <= updates'
    BY <1>1, <2>1, <2>2
  <2> QED BY <1>2, <1>3, <2>2, <2>3 DEF ReportsInOrder, Reported
<1>6. NotServedYet'
  <2>1. latestAdapterList' # EmptyList
    BY <1>1, <1>4 DEF Reported, EmptyList
  <2>2. ASSUME applyList.watchVersion = 0 \/ applyList.version < updates PROVE Behind'
    BY <1>1, <1>4, <2>2 DEF Behind
  <2>3. status = "normal" => Behind'
    BY <1>2, <2>2, RecordIsLater
  <2>4. Behind => Behind'
    <3>1. /\ applyList.version \in Nat /\ latestAdapterList.version \in Nat
          /\ updates \in Nat
      BY VersionsType DEF Base, Owned
    <3> QED BY <1>4, <2>2, <3>1 DEF Behind
  <2>5. status # "normal" => \A v \in Updater : ~OnItsWay(v)'
    BY <1>2, <1>3 DEF OnItsWay
  <2>6. status' # "normal" /\ applyList'.runMode = "unset" => Behind'
    BY <1>1, <2>4 DEF ReaderInv, NotServedYet
  <2>7. \A v \in Updater : OnItsWay(v)' => Behind'
    BY <2>3, <2>5
  <2> QED BY <2>1, <2>6, <2>7 DEF NotServedYet
<1>7. RoundsAdvance'
  BY <1>1, <1>2, ActorKinds DEF ReaderInv, RoundsAdvance, Reader!Follows
<1> QED BY <1>5, <1>6, <1>7 DEF ReaderInv

LEMMA EnterReader ==
    ASSUME OneUpdater, Base, ReaderInv, NEW u \in Updater, Enter(u)
    PROVE  ReaderInv'
<1>1. /\ status = "normal" /\ pingCtxCancel = NoLoop /\ pc[u] = "enter"
  BY DEF Enter, Base, Sequential, Owned, ProtectionIsOwned
<1>2. PICK l \in Loop : /\ pingCtxCancel' = l
                        /\ pc' = [pc EXCEPT ![l] = "begin", ![u] = "idle"]
  BY <1>1 DEF Enter
<1>3. /\ status' = "selfProtection"
      /\ UNCHANGED <<latestAdapterList, applyList, updates, ping>>
  BY <1>1 DEF Enter, environment
<1>4. pc'[l] = "begin" /\ pc'[u] = "idle"
  BY <1>2, ActorKinds DEF Base, Owned, TypeOK, ControlOK
<1>5. \A v \in Updater : v = u
  BY DEF OneUpdater
<1>6. Reported(latestAdapterList) /\ Behind
  BY <1>1 DEF ReaderInv, ReportsInOrder, NotServedYet, OnItsWay
<1>7. ReportsInOrder'
  BY <1>3, <1>4, <1>5, <1>6 DEF ReaderInv, ReportsInOrder, OnItsWay, Reported
<1>8. NotServedYet'
  BY <1>3, <1>4, <1>5, <1>6 DEF ReaderInv, NotServedYet, OnItsWay, Behind
<1>9. RoundsAdvance'
  <2>1. applyList.runMode \in {"unset", "init"}
    BY <1>1 DEF Base, Labelled, RunModeMatchesStatus
  <2> QED BY <1>2, <1>3, <1>4, <2>1 DEF ReaderInv, RoundsAdvance
<1> QED BY <1>7, <1>8, <1>9 DEF ReaderInv

LEMMA StopReader ==
    ASSUME OneUpdater, Base, ReaderInv, NEW p \in Actor, StopSelfProtection(p)
    PROVE  ReaderInv'
<1>1. /\ status' = "normal" /\ applyList' = latestAdapterList
      /\ UNCHANGED <<latestAdapterList, updates, call, ping>>
  BY DEF StopSelfProtection, LeaveProtection, Adopt, environment
<1>2. pingCtxCancel' = NoLoop /\ NoLoop \notin Loop
  BY ActorsAssumption
     DEF StopSelfProtection, LeaveProtection, Base, Owned, ProtectionIsOwned,
         ActorsAssumption, Actor
<1>3. \E label : Go(p, label) /\ label \notin {"enter", "push", "stop", "record"}
  BY AfterStopType DEF StopSelfProtection, Actor
<1>4. \A v \in Updater : pc'[v] = "record" \/ OnItsWay(v)' => pc'[v] = pc[v] /\ v # p
  BY <1>3 DEF Go, OnItsWay, Base, Owned, TypeOK, ControlOK
<1>5. \A v \in Updater : ~OnItsWay(v)'
  <2>1. CASE p \in Updater
    BY <1>4, <2>1 DEF OneUpdater
  <2>2. CASE p \in Loop
    <3>1. pc[p] \in Checking
      BY DEF StopSelfProtection, Checking
    <3>2. status # "normal"
      BY <2>2, <3>1, ActorKinds, <1>2 DEF Base, OneSession, Owned, ProtectionIsOwned
    <3> QED BY <1>4, <3>2 DEF Base, Sequential, OnItsWay
  <2> QED BY <2>1, <2>2 DEF Actor, StopSelfProtection, Base, Undisturbed
<1>6. ReportsInOrder'
  BY <1>1, <1>4, <1>5 DEF ReaderInv, ReportsInOrder, Reported
<1>7. NotServedYet'
  BY <1>1, <1>5 DEF NotServedYet, EmptyList
<1>8. RoundsAdvance'
  <2>1. latestAdapterList.version <= MaxUpdates + MaxVersion
    BY VersionsType DEF ReaderInv, ReportsInOrder, Base, Owned
  <2> QED BY <1>1, <1>2, <2>1 DEF RoundsAdvance
<1> QED BY <1>6, <1>7, <1>8 DEF ReaderInv

(* How a loop's own version moves.                                          *)
LEMMA RoundVersion ==
    ASSUME TypeOK, NEW l \in Loop, LoopStep(l)
    PROVE  /\ \A k \in Loop \ {l} : ping'[k] = ping[k]
           /\ Begin(l) => ping'[l].version = applyList.version
           /\ Wake(l) => ping'[l].version = Bump(ping[l].version)
           /\ ~Begin(l) /\ ~Wake(l) => ping'[l].version = ping[l].version
<1>1. \A k \in Loop \ {l} : ping'[k] = ping[k]
  BY DEF LoopStep, Begin, LoadOpts, Snapshot, Judge, Panic, Recover, Apply, RefuseStop,
         Wake, Quit, Sleep, TypeOK, LocalsOK
<1>2. CASE Begin(l)
  BY <1>1, <1>2 DEF Begin, Wake, TypeOK, LocalsOK, Ping
<1>3. CASE Wake(l)
  BY <1>1, <1>3 DEF Begin, Wake, TypeOK, LocalsOK, Ping
<1>4. ASSUME ~Begin(l), ~Wake(l) PROVE ping'[l].version = ping[l].version
  <2>1. CASE Sleep(l)
    BY <2>1 DEF Sleep, TypeOK, LocalsOK, Ping
  <2>2. CASE Judge(l) /\ ~Sleep(l)
    <3>1. \E found : ping' = [ping EXCEPT ![l] = [ping[l] EXCEPT !.health = found]]
      BY <2>2 DEF Judge
    <3> QED BY <3>1 DEF TypeOK, LocalsOK, Ping
  <2>3. CASE LoadOpts(l) \/ Snapshot(l)
    BY <2>3 DEF LoadOpts, Snapshot, TypeOK, LocalsOK, Ping
  <2>4. CASE UNCHANGED ping
    BY <2>4
  <2> QED BY <1>1, <1>4, <2>1, <2>2, <2>3, <2>4
          DEF LoopStep, Panic, Recover, Apply, RefuseStop, Quit
<1> QED BY <1>1, <1>2, <1>3, <1>4

(* What a loop publishes, and where that takes it.                          *)
LEMMA RoundServes ==
    ASSUME TypeOK, NEW l \in Loop, LoopStep(l)
    PROVE  \/ UNCHANGED applyList
           \/ /\ status = "selfProtection" /\ pc[l] \in {"panic", "apply"} /\ pc'[l] = "sleep"
              /\ applyList'.watchVersion = applyList.watchVersion
              /\ \/ /\ Panic(l) /\ applyList'.runMode = "panic"
                    /\ applyList'.version = applyList.version
                    /\ applyList'.services = ping[l].stable
                 \/ /\ Apply(l) /\ applyList'.runMode = "selfProtection"
                    /\ applyList'.version = ping[l].version
<1>1. CASE Panic(l) /\ MayPublish(l, "selfProtection")
  BY <1>1, ActorKinds
     DEF Panic, MayPublish, Publish, PanicList, Sleep, Go, TypeOK, SharedOK, ControlOK,
         ServiceList
<1>2. CASE Apply(l) /\ MayPublish(l, "selfProtection")
  BY <1>2, ActorKinds
     DEF Apply, MayPublish, Publish, Sleep, Go, TypeOK, SharedOK, ControlOK, ServiceList
<1>3. CASE UNCHANGED applyList
  BY <1>3
<1> QED BY <1>1, <1>2, <1>3
        DEF LoopStep, Begin, LoadOpts, Snapshot, Judge, Panic, Recover, Apply, RefuseStop,
            Wake, Quit, shared

(* Where a loop's round takes it.                                           *)
LEMMA RoundPlace ==
    ASSUME TypeOK, NEW l \in Loop, LoopStep(l), ~Quit(l)
    PROVE  /\ pc'[l] # "begin"
           /\ pc[l] = "begin" => Begin(l)
           /\ pc[l] = "sleep" => Wake(l)
           /\ Begin(l) => pc[l] = "begin"
           /\ Wake(l) => pc[l] = "sleep"
<1>1. \E label \in Checking \ {"begin"} : Go(l, label)
  BY RoundGoes DEF LoopStep
<1>2. pc'[l] # "begin"
  BY <1>1, ActorKinds DEF Go, TypeOK, ControlOK
<1> QED BY <1>2 DEF LoopStep, Begin, LoadOpts, Snapshot, Judge, Panic, Recover, Apply,
                    RefuseStop, Wake

LEMMA RoundAdvances ==
    ASSUME Base, ReaderInv, NEW l \in Loop, LoopStep(l), ~Quit(l), l = pingCtxCancel,
           pingCtxCancel' = pingCtxCancel
    PROVE  RoundsAdvance'
<1>1. TypeOK
  BY DEF Base, Owned
<1>2. /\ applyList.version \in Nat /\ ping[l].version \in Nat
      /\ MaxUpdates \in Nat /\ MaxVersion \in Nat
  BY <1>1, VersionsType
<1>3. /\ applyList.version <= MaxUpdates + MaxVersion
      /\ pc[l] = "begin" => applyList.runMode \in {"unset", "init"}
      /\ pc[l] # "begin" => applyList.version <= ping[l].version
      /\ pc[l] # "begin" => ping[l].version <= MaxUpdates + MaxVersion
      /\ pc[l] \notin {"begin", "sleep"} => Reader!Follows(ping[l].version)
      /\ applyList.runMode = "panic" => applyList.services = ping[l].stable
  BY DEF ReaderInv, RoundsAdvance
<1>4. pc'[l] # "begin"
  BY <1>1, RoundPlace
<1>5. /\ applyList'.version <= MaxUpdates + MaxVersion
      /\ applyList'.version <= ping'[l].version
      /\ ping'[l].version <= MaxUpdates + MaxVersion
      /\ pc'[l] # "sleep" => Reader!Follows(ping[l].version)'
  <2>1. CASE Begin(l)
    <3>1. UNCHANGED applyList /\ ping'[l].version = applyList.version /\ pc[l] = "begin"
      BY <1>1, <2>1, RoundVersion, RoundPlace DEF Begin
    <3>2. Reader!Follows(ping[l].version)'
      BY <1>3, <3>1 DEF Reader!Follows
    <3> QED BY <1>2, <1>3, <3>1, <3>2
  <2>2. CASE Wake(l)
    <3>1. /\ UNCHANGED applyList /\ ping'[l].version = Bump(ping[l].version)
          /\ pc[l] = "sleep"
      BY <1>1, <2>2, RoundVersion, RoundPlace DEF Wake, shared
    <3>2. /\ applyList.version <= ping[l].version
          /\ ping[l].version <= MaxUpdates + MaxVersion
      BY <1>3, <3>1
    <3>3. CASE ping[l].version < MaxVersion
      <4>1. ping'[l].version = ping[l].version + 1
        BY <3>1, <3>3 DEF Bump
      <4>2. /\ applyList'.version < ping'[l].version
            /\ ping'[l].version <= MaxUpdates + MaxVersion
        BY <1>2, <3>1, <3>2, <3>3, <4>1
      <4> QED BY <1>2, <1>3, <3>1, <4>1, <4>2 DEF Reader!Follows
    <3>4. CASE ~(ping[l].version < MaxVersion)
      <4>1. ping'[l].version = ping[l].version
        BY <3>1, <3>4 DEF Bump
      <4>2. Reader!Follows(ping[l].version)'
        BY <1>2, <3>1, <3>2, <3>4, <4>1 DEF Reader!Follows
      <4> QED BY <1>3, <3>1, <3>2, <4>1, <4>2
    <3> QED BY <3>3, <3>4
  <2>3. CASE ~Begin(l) /\ ~Wake(l)
    <3>1. /\ ping'[l].version = ping[l].version
          /\ Reader!Follows(ping[l].version)
          /\ applyList.version <= ping[l].version
          /\ ping[l].version <= MaxUpdates + MaxVersion
      BY <1>1, <1>3, <2>3, RoundVersion, RoundPlace
    <3>2. CASE UNCHANGED applyList
      BY <1>3, <3>1, <3>2 DEF Reader!Follows
    <3>3. CASE ~UNCHANGED applyList
      <4>1. pc'[l] = "sleep" /\ applyList'.version \in {applyList.version, ping[l].version}
        BY <1>1, <3>3, RoundServes
      <4> QED BY <1>2, <1>3, <3>1, <4>1
    <3> QED BY <3>2, <3>3
  <2> QED BY <2>1, <2>2, <2>3
<1>6. applyList'.runMode = "panic" => applyList'.services = ping'[l].stable
  <2>1. CASE Begin(l)
    BY <1>1, <1>3, <2>1, RoundPlace DEF Begin
  <2>2. CASE ~Begin(l)
    <3>1. ping'[l].stable = ping[l].stable
      BY <1>1, <2>2, RoundKeepsBaselines
    <3> QED BY <1>1, <1>3, <3>1, RoundServes
  <2> QED BY <2>1, <2>2
<1> QED BY <1>4, <1>5, <1>6 DEF RoundsAdvance

LEMMA RoundReader ==
    ASSUME Base, ReaderInv, NEW l \in Loop, LoopStep(l)
    PROVE  ReaderInv'
<1>1. TypeOK
  BY DEF Base, Owned
<1>2. /\ \A u \in Updater : pc'[u] = pc[u]
      /\ UNCHANGED <<latestAdapterList, call>>
      /\ status' = "normal" <=> status = "normal"
  BY <1>1, LoopLeavesUpdaters
<1>3. UNCHANGED updates
  BY DEF LoopStep, Begin, LoadOpts, Snapshot, Judge, Panic, Recover, Apply, RefuseStop,
         Wake, Quit, environment
<1>4. CASE Quit(l)
  <2>1. UNCHANGED <<status, applyList, pingCtxCancel, ping>>
    BY <1>4 DEF Quit, shared
  <2>2. l # pingCtxCancel
    BY <1>4, ActorsAssumption DEF Quit, Base, Owned, ProtectionIsOwned, ActorsAssumption, Actor
  <2>3. \A k \in Loop : k # l => pc'[k] = pc[k]
    BY <1>1, <1>4, ActorKinds DEF Quit, Go, TypeOK, ControlOK
  <2> QED BY <1>2, <1>3, <2>1, <2>2, <2>3, ReaderFrame DEF OnItsWay
<1>5. CASE ~Quit(l)
  <2>1. pc[l] \in Checking /\ UNCHANGED pingCtxCancel
    BY <1>1, <1>5, RoundGoes DEF LoopStep
  <2>2. l = pingCtxCancel /\ status # "normal"
    BY <2>1, ActorsAssumption
       DEF Base, OneSession, Owned, ProtectionIsOwned, ActorsAssumption, Actor
  <2>3. \A u \in Updater : ~OnItsWay(u) /\ ~OnItsWay(u)'
    BY <1>2, <2>2 DEF Base, Sequential, OnItsWay
  <2>4. ReportsInOrder'
    BY <1>2, <1>3, <2>2, <2>3 DEF ReaderInv, ReportsInOrder, Reported
  <2>5. NotServedYet'
    <3>1. CASE UNCHANGED applyList
      BY <1>2, <2>2, <2>3, <3>1 DEF ReaderInv, NotServedYet, Behind
    <3>2. CASE ~UNCHANGED applyList
      <4>1. /\ applyList'.runMode # "unset"
            /\ applyList'.watchVersion = applyList.watchVersion
        BY <1>1, <3>2, RoundServes
      <4> QED BY <1>2, <2>3, <4>1 DEF ReaderInv, NotServedYet
    <3> QED BY <3>1, <3>2
  <2>6. RoundsAdvance'
    BY <1>5, <2>1, <2>2, RoundAdvances
  <2> QED BY <2>4, <2>5, <2>6 DEF ReaderInv
<1> QED BY <1>4, <1>5

LEMMA OtherReader ==
    ASSUME Base, ReaderInv,
           \/ \E u \in Updater : PushHistory(u) \/ Notify(u)
           \/ \E c \in Configurer : UpdateOpts(c)
           \/ \E p \in Actor : Cancel(p)
           \/ Settle \/ Tick \/ UNCHANGED vars
    PROVE  ReaderInv'
<1>1. UNCHANGED <<status, latestAdapterList, applyList, updates, pingCtxCancel, ping>>
  BY DEF PushHistory, Notify, UpdateOpts, Cancel, Settle, Tick, vars, shared, locals,
         environment
<1>2. CASE Settle \/ Tick \/ UNCHANGED vars
  BY <1>1, <1>2, ReaderFrame DEF Settle, Tick, vars, locals, OnItsWay
<1>3. ASSUME NEW p \in Actor, NEW label, Go(p, label), pc[p] # "record", label # "record",
             OnItsWay(p) \/ label # "stop", label \notin {"enter", "push"},
             p # pingCtxCancel, \A u \in Updater \ {p} : call'[u].list = call[u].list
      PROVE  ReaderInv'
  <2>1. \A q \in Actor : pc'[q] = IF q = p THEN label ELSE pc[q]
    BY <1>3 DEF Go, Base, Owned, TypeOK, ControlOK
  <2>2. \A u \in Updater : pc'[u] = "record" => pc[u] = "record" /\ call'[u].list = call[u].list
    BY <1>3, <2>1, ActorKinds
  <2>3. \A u \in Updater : OnItsWay(u)' => OnItsWay(u)
    BY <1>3, <2>1, ActorKinds DEF OnItsWay
  <2>4. \A l \in Loop : l = pingCtxCancel => pc'[l] = pc[l] /\ ping'[l] = ping[l]
    BY <1>1, <1>3, <2>1, ActorKinds
  <2> QED BY <1>1, <2>2, <2>3, <2>4, ReaderFrame
<1>4. \A u \in Updater : u # pingCtxCancel
  BY ActorKinds, ActorsAssumption DEF Base, Owned, TypeOK, SharedOK, ActorsAssumption
<1>5. ASSUME NEW u \in Updater, PushHistory(u) \/ Notify(u) PROVE ReaderInv'
  <2>1. CASE PushHistory(u)
    BY <1>3, <1>4, <2>1, ActorKinds DEF PushHistory, OnItsWay
  <2>2. CASE Notify(u)
    <3>1. \A v \in Updater \ {u} : call'[v].list = call[v].list
      BY <2>2 DEF Notify, Return, Base, Owned, TypeOK, LocalsOK
    <3> QED BY <1>3, <1>4, <2>2, <3>1, ActorKinds DEF Notify, Return
  <2> QED BY <1>5, <2>1, <2>2
<1>6. ASSUME NEW p \in Actor, Cancel(p) PROVE ReaderInv'
  <2>1. p # pingCtxCancel
    BY <1>6, ActorsAssumption
       DEF Cancel, Base, Owned, ProtectionIsOwned, Checking, ActorsAssumption
  <2>2. AfterStop(p) \notin {"record", "stop", "enter", "push"}
    BY AfterStopType DEF Actor
  <2> QED BY <1>3, <1>6, <2>1, <2>2 DEF Cancel
<1>7. ASSUME NEW c \in Configurer, UpdateOpts(c) PROVE ReaderInv'
  <2>1. /\ \A u \in Updater : pc'[u] = pc[u] /\ call'[u] = call[u]
        /\ \A l \in Loop : pc'[l] = pc[l] /\ ping'[l] = ping[l]
    BY <1>7, ActorKinds DEF UpdateOpts, Go, Base, Owned, TypeOK, ControlOK
  <2> QED BY <1>1, <2>1, ReaderFrame DEF OnItsWay
<1> QED BY <1>2, <1>5, <1>6, <1>7

LEMMA NextReader ==
    ASSUME OneUpdater
    PROVE  Base /\ ReaderInv /\ [Next]_vars => ReaderInv'
<1> SUFFICES ASSUME Base, ReaderInv, [Next]_vars PROVE ReaderInv'
  OBVIOUS
<1>1. ASSUME NEW u \in Updater, Receive(u) \/ UpdaterStep(u) PROVE ReaderInv'
  BY <1>1, ReceiveReader, RecordReader, EnterReader, OtherReader DEF UpdaterStep
<1>2. ASSUME NEW l \in Loop, LoopStep(l) PROVE ReaderInv'
  BY <1>2, RoundReader
<1>3. ASSUME NEW p \in Actor, StopStep(p) PROVE ReaderInv'
  BY <1>3, StopReader, OtherReader DEF StopStep
<1>4. CASE Settle \/ Tick \/ UNCHANGED vars
  BY <1>4, OtherReader
<1>5. ASSUME NEW c \in Configurer, UpdateOpts(c) PROVE ReaderInv'
  BY <1>5, OtherReader
<1> QED BY <1>1, <1>2, <1>3, <1>4, <1>5 DEF Next

LEMMA ReaderAlways ==
    ASSUME OneUpdater, NeverSwitchedOff
    PROVE  Spec => [](Base /\ ReaderInv)
<1>1. Owned /\ Labelled /\ NormalServesAdapter /\ Sequential /\ Undisturbed /\ OneSession
          => Base
  BY DEF Base
<1>2. Spec => []Labelled
  BY InitLabelled, NextLabelled, TypeCorrect, PTL DEF Spec
<1>3. Spec => []Base
  BY <1>1, <1>2, NormalAlwaysServesAdapter, SequentialAlways, UndisturbedAlways,
     OneSessionAlways, PTL
<1>4. Base /\ ReaderInv /\ [Next]_vars => ReaderInv'
  BY NextReader
<1> QED BY <1>3, <1>4, InitReader, PTL DEF Spec

LEMMA ReaderLists ==
    /\ Reader!NoList = EmptyList
    /\ \A nodes : Reader!List(0, 0, "init", nodes) = InitList(nodes)
<1>1. Reader!NoList = EmptyList
  BY DEF Reader!NoList, Reader!List, EmptyList
<1>2. ASSUME NEW nodes PROVE Reader!List(0, 0, "init", nodes) = InitList(nodes)
  <2> DEFINE fresh == [EmptyList EXCEPT !.runMode = "init"]
  <2>1. fresh = [watchVersion |-> 0, version |-> 0, runMode |-> "init", services |-> {}]
    BY DEF EmptyList
  <2>2. InitList(nodes) = [fresh EXCEPT !.services = nodes]
    BY DEF InitList
  <2> HIDE DEF fresh
  <2> QED BY <2>1, <2>2 DEF Reader!List
<1> QED BY <1>1, <1>2

LEMMA InitServes == Init => Reader!ServedInit
<1> SUFFICES ASSUME Init PROVE Reader!ServedInit
  OBVIOUS
<1>1. applyList = EmptyList \/ \E nodes \in SUBSET Node : applyList = InitList(nodes)
  BY ListsAssumption DEF Init, InitFresh, InitFromHistory, ListsAssumption
<1> QED BY <1>1, ReaderLists DEF Init, Reader!ServedInit

LEMMA RecordServes ==
    ASSUME Base, ReaderInv, NEW u \in Updater, Record(u)
    PROVE  Reader!Deliver
<1> DEFINE l == call[u].list
<1>1. /\ Reported(l) /\ l.version = updates /\ latestAdapterList.version < updates
      /\ updates <= MaxUpdates
  BY DEF Record, ReaderInv, ReportsInOrder
<1>2. l \in ServiceList /\ updates \in Nat /\ MaxUpdates \in Nat /\ MaxVersion \in Nat
  BY VersionsType DEF Base, Owned, TypeOK, LocalsOK, Call
<1>3. l = Reader!List(1, l.version, "unset", l.services) /\ l.services \in SUBSET Node
  BY <1>1, <1>2 DEF Reported, ServiceList, Reader!List
<1>4. l.version \in 0..(MaxUpdates + MaxVersion)
  BY <1>1, <1>2
<1>5. latestAdapterList' = l /\ UNCHANGED <<status, applyList>>
  BY DEF Record
<1> QED BY <1>1, <1>3, <1>4, <1>5 DEF Reader!Deliver

LEMMA EnterServes ==
    ASSUME Base, ReaderInv, NEW u \in Updater, Enter(u)
    PROVE  Reader!Protect
<1>1. /\ status = "normal" /\ status' = "selfProtection"
      /\ UNCHANGED <<latestAdapterList, applyList>>
  BY DEF Enter, Base, Sequential
<1>2. Reported(latestAdapterList) /\ Behind
  BY DEF Enter, OnItsWay, ReaderInv, ReportsInOrder, NotServedYet
<1>3. latestAdapterList # EmptyList
  BY <1>2 DEF Reported, EmptyList
<1>4. latestAdapterList # applyList
  BY <1>2, VersionsType DEF Behind, Reported, Base, Owned
<1> QED BY <1>1, <1>3, <1>4, ReaderLists DEF Reader!Protect

LEMMA StopServes ==
    ASSUME Base, ReaderInv, NEW p \in Actor, StopSelfProtection(p)
    PROVE  Reader!Adopt
<1>1. /\ status' = "normal" /\ applyList' = latestAdapterList
      /\ UNCHANGED latestAdapterList
  BY DEF StopSelfProtection, LeaveProtection, Adopt
<1>2. Reported(latestAdapterList)
  <2>1. CASE p \in Updater
    BY <2>1 DEF StopSelfProtection, OnItsWay, ReaderInv, ReportsInOrder
  <2>2. CASE p \in Loop
    <3>1. pc[p] \in Checking
      BY DEF StopSelfProtection, Checking
    <3>2. status # "normal"
      BY <2>2, <3>1, ActorsAssumption
         DEF Base, OneSession, Owned, ProtectionIsOwned, ActorsAssumption, Actor
    <3> QED BY <3>2 DEF ReaderInv, ReportsInOrder
  <2> QED BY <2>1, <2>2 DEF Actor, StopSelfProtection, Base, Undisturbed
<1>3. latestAdapterList # EmptyList
  BY <1>2 DEF Reported, EmptyList
<1> QED BY <1>1, <1>3, ReaderLists DEF Reader!Adopt

LEMMA RoundServesReader ==
    ASSUME Base, ReaderInv, NEW l \in Loop, LoopStep(l)
    PROVE  [Reader!ServedNext]_(Reader!servedVars)
<1>1. TypeOK
  BY DEF Base, Owned
<1>2. UNCHANGED latestAdapterList
  BY <1>1, LoopLeavesUpdaters
<1>3. ASSUME pc[l] \in Checking \ {"begin", "sleep"}
      PROVE  /\ applyList.runMode = "panic" => applyList.services = ping[l].stable
             /\ Reader!Follows(ping[l].version)
             /\ ping[l].version \in 0..(MaxUpdates + MaxVersion)
  <2>1. l = pingCtxCancel
    BY <1>3 DEF Base, OneSession
  <2>2. /\ applyList.runMode = "panic" => applyList.services = ping[l].stable
        /\ Reader!Follows(ping[l].version)
        /\ ping[l].version <= MaxUpdates + MaxVersion
    BY <1>3, <2>1 DEF ReaderInv, RoundsAdvance
  <2> QED BY <1>1, <2>2, VersionsType
<1>4. ping[l].stable \in SUBSET Node /\ ping[l].health \in SUBSET Node
  BY <1>1 DEF TypeOK, LocalsOK, Ping
<1>5. CASE Panic(l) /\ MayPublish(l, "selfProtection")
  <2>1. /\ status = "selfProtection" /\ status' = "panic"
        /\ applyList' = [applyList EXCEPT !.runMode = "panic",
                                          !.version = applyList.version,
                                          !.services = ping[l].stable]
    BY <1>5 DEF Panic, MayPublish, Publish, PanicList
  <2>2. applyList' = [applyList EXCEPT !.runMode = "panic", !.services = ping[l].stable]
    BY <1>1, <2>1 DEF TypeOK, SharedOK, ServiceList
  <2>3. applyList.runMode = "panic" => ping[l].stable = applyList.services
    BY <1>3, <1>5 DEF Panic, Checking
  <2>4. Reader!Panic
    BY <1>2, <1>4, <2>1, <2>2, <2>3 DEF Reader!Panic
  <2> QED BY <2>4 DEF Reader!ServedNext
<1>6. CASE Apply(l) /\ MayPublish(l, "selfProtection")
  <2>1. /\ status = "selfProtection" /\ UNCHANGED status
        /\ applyList' = [applyList EXCEPT !.runMode = "selfProtection",
                                          !.version = ping[l].version,
                                          !.services = ping[l].health]
    BY <1>6 DEF Apply, MayPublish, Publish
  <2>2. applyList' = Reader!List(applyList.watchVersion, ping[l].version, "selfProtection",
                                 ping[l].health)
    BY <1>1, <2>1 DEF TypeOK, SharedOK, ServiceList, Reader!List
  <2>3. Reader!Follows(ping[l].version) /\ ping[l].version \in 0..(MaxUpdates + MaxVersion)
    BY <1>3, <1>6 DEF Apply, Checking
  <2>4. Reader!ServeHealthy
    BY <1>2, <1>4, <2>1, <2>2, <2>3 DEF Reader!ServeHealthy
  <2> QED BY <2>4 DEF Reader!ServedNext
<1>7. CASE Recover(l) /\ ~UNCHANGED status
  <2>1. Reader!Recover
    BY <1>2, <1>7 DEF Recover, Reader!Recover
  <2> QED BY <2>1 DEF Reader!ServedNext
<1>8. CASE UNCHANGED <<status, applyList>>
  BY <1>2, <1>8 DEF Reader!servedVars
<1> QED BY <1>5, <1>6, <1>7, <1>8
        DEF LoopStep, Begin, LoadOpts, Snapshot, Judge, Panic, Recover, Apply, RefuseStop,
            Wake, Quit, shared

LEMMA NextServes ==
    Base /\ ReaderInv /\ [Next]_vars => [Reader!ServedNext]_(Reader!servedVars)
<1> SUFFICES ASSUME Base, ReaderInv, [Next]_vars
             PROVE  [Reader!ServedNext]_(Reader!servedVars)
  OBVIOUS
<1>1. ASSUME UNCHANGED <<status, latestAdapterList, applyList>>
      PROVE  [Reader!ServedNext]_(Reader!servedVars)
  BY <1>1 DEF Reader!servedVars
<1>2. ASSUME NEW u \in Updater, Receive(u) \/ PushHistory(u) \/ Notify(u)
      PROVE  UNCHANGED <<status, latestAdapterList, applyList>>
  BY <1>2 DEF Receive, PushHistory, Notify, shared
<1>3. ASSUME NEW u \in Updater, Record(u) \/ Enter(u)
      PROVE  Reader!ServedNext
  BY <1>3, RecordServes, EnterServes DEF Reader!ServedNext
<1>4. ASSUME NEW p \in Actor, StopSelfProtection(p) PROVE Reader!ServedNext
  BY <1>4, StopServes DEF Reader!ServedNext
<1>5. ASSUME NEW p \in Actor, Cancel(p)
      PROVE  UNCHANGED <<status, latestAdapterList, applyList>>
  BY <1>5 DEF Cancel
<1>6. ASSUME NEW l \in Loop, LoopStep(l)
      PROVE  [Reader!ServedNext]_(Reader!servedVars)
  BY <1>6, RoundServesReader
<1>7. CASE Settle \/ Tick \/ UNCHANGED vars
  BY <1>1, <1>7 DEF Settle, Tick, vars, shared, locals
<1>8. ASSUME NEW c \in Configurer, UpdateOpts(c)
      PROVE  UNCHANGED <<status, latestAdapterList, applyList>>
  BY <1>8 DEF UpdateOpts
<1> QED BY <1>1, <1>2, <1>3, <1>4, <1>5, <1>6, <1>7, <1>8 DEF Next, UpdaterStep, StopStep

(* Readers see nothing but what Served says, as long as updates come one at *)
(* a time and no options switch protection off: the four steps of an update,*)
(* the nine of a loop and the two that end a session amount to six abstract *)
(* steps, whatever their order (onUpdateList, continueDoPing), and changes  *)
(* of the thresholds amid them to none.                                     *)
THEOREM ReadersSeeServed ==
    ASSUME OneUpdater, NeverSwitchedOff
    PROVE  Spec => ImplementsServed
<1>1. Base /\ ReaderInv /\ [Next]_vars => [Reader!ServedNext]_(Reader!servedVars)
  BY NextServes
<1> QED BY <1>1, InitServes, ReaderAlways, PTL DEF Spec, ImplementsServed, Reader!ServedSpec

(* A list that is adopted either has a later version than the one served, or*)
(* another mode, or it is being served already.                             *)
LEMMA AdoptIsVisible ==
    ASSUME Base, ReaderInv, Reader!Adopt, applyList'.services # applyList.services
    PROVE  Key(applyList') # Key(applyList)
<1>1. applyList' = latestAdapterList /\ latestAdapterList # EmptyList
  BY ReaderLists DEF Reader!Adopt
<1>2. Reported(latestAdapterList)
  BY <1>1 DEF ReaderInv, ReportsInOrder
<1>3. CASE Behind
  <2>1. applyList.version \in Nat /\ latestAdapterList.version \in Nat
    BY VersionsType DEF Base, Owned
  <2>2. \/ applyList.watchVersion # latestAdapterList.watchVersion
        \/ applyList.version # latestAdapterList.version
    BY <1>2, <1>3, <2>1 DEF Behind, Reported
  <2> QED BY <1>1, <2>2 DEF Key
<1>4. CASE ~Behind
  <2>1. status # "normal"
    BY <1>1, <1>2, <1>4 DEF Base, NormalServesAdapter, ReaderInv, NotServedYet, OnItsWay, Reported
  <2>2. applyList.runMode # "unset" /\ latestAdapterList.runMode = "unset"
    BY <1>2, <1>4, <2>1 DEF ReaderInv, NotServedYet, Reported
  <2> QED BY <1>1, <2>2 DEF Key
<1> QED BY <1>3, <1>4

LEMMA HealthyIsVisible ==
    ASSUME Base, Reader!ServeHealthy, applyList'.version < MaxVersion
    PROVE  Key(applyList') # Key(applyList)
<1>1. PICK v \in 0..(MaxUpdates + MaxVersion), s \in SUBSET Node :
         /\ Reader!Follows(v)
         /\ applyList' = Reader!List(applyList.watchVersion, v, "selfProtection", s)
  BY DEF Reader!ServeHealthy
<1>2. applyList'.version = v /\ applyList'.runMode = "selfProtection"
  BY <1>1 DEF Reader!List
<1>3. applyList.version \in Nat /\ v \in Int /\ MaxVersion \in Nat
  BY VersionsType DEF Base, Owned
<1>4. v # applyList.version \/ applyList.runMode \in {"unset", "init"}
  BY <1>1, <1>2, <1>3 DEF Reader!Follows
<1> QED BY <1>2, <1>4 DEF Key

LEMMA PanicIsVisible ==
    ASSUME Base, Reader!Panic, applyList'.services # applyList.services
    PROVE  Key(applyList') # Key(applyList)
<1>1. PICK s \in SUBSET Node :
         /\ applyList.runMode = "panic" => s = applyList.services
         /\ applyList' = [applyList EXCEPT !.runMode = "panic", !.services = s]
  BY DEF Reader!Panic
<1>2. applyList'.services = s /\ applyList'.runMode = "panic"
  BY <1>1 DEF Base, Owned, TypeOK, SharedOK, ServiceList
<1>3. applyList.runMode # "panic"
  BY <1>1, <1>2
<1> QED BY <1>2, <1>3 DEF Key

(* When the nodes that are served change, so does what CheckChange compares:*)
(* for updates that come one at a time and options that never switch        *)
(* protection off, until versions reach the bound.                          *)
THEOREM ChangesAreVisible ==
    ASSUME OneUpdater, NeverSwitchedOff
    PROVE  Spec => ChangeIsVisible
<1>1. Base /\ ReaderInv /\ [Next]_vars =>
        (applyList'.services # applyList.services /\ applyList'.version < MaxVersion
           => Key(applyList') # Key(applyList))
  <2> SUFFICES ASSUME Base, ReaderInv, [Next]_vars,
                      applyList'.services # applyList.services,
                      applyList'.version < MaxVersion
               PROVE  Key(applyList') # Key(applyList)
    OBVIOUS
  <2>1. [Reader!ServedNext]_(Reader!servedVars)
    BY NextServes
  <2>2. ~ UNCHANGED applyList
    OBVIOUS
  <2>3. Reader!Adopt \/ Reader!ServeHealthy \/ Reader!Panic
    BY <2>1, <2>2
       DEF Reader!ServedNext, Reader!servedVars, Reader!Deliver, Reader!Protect, Reader!Recover
  <2> QED BY <2>3, AdoptIsVisible, HealthyIsVisible, PanicIsVisible
<1> QED BY <1>1, ReaderAlways, PTL DEF Spec, ChangeIsVisible

=============================================================================
