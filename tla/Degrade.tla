------------------------------- MODULE Degrade -------------------------------
(***************************************************************************)
(* The degrade object of discovery/downgrade.go: the guard between what a  *)
(* registry adapter reports for one service and what callers are served.   *)
(*                                                                         *)
(* Processes                                                               *)
(*   - an Updater is a goroutine in which an adapter calls onUpdateList;   *)
(*     consul and etcd serialise those calls under compareServiceMu (one   *)
(*     updater), eds calls from WatchList and from its receive thread      *)
(*     (two);                                                              *)
(*   - a Configurer is a goroutine in UpdateDegradeOpts calling updateOpts;*)
(*   - a Loop is a goroutine running pingLoop, one per protection session. *)
(*                                                                         *)
(* Every section that d.mux protects, every load or store of d.opts and    *)
(* every call that leaves the object is one action; pc[p] names the next.  *)
(* A service is identified with its node, a list with the set of its       *)
(* nodes; two nodes may share the address that is health-checked.          *)
(***************************************************************************)
EXTENDS LoopList, FiniteSets

CONSTANTS
    Node,              \* service instances, by Service.ID
    SelfProtectionID,  \* node -> name|address|port, what is health-checked
    Updater,           \* goroutines that call onUpdateList
    Configurer,        \* goroutines that call updateOpts
    Loop,              \* pingLoop goroutines, each started at most once
    NoLoop,            \* the nil pingCtxCancel
    DegradeOpts,       \* configurations in use (thresholds in percent)
    Report,            \* [listed, offline] an adapter may deliver
    InitEndpoints,     \* lists the service may be initialised with
    SettledHealth,     \* sets that the healthy nodes may settle on
    MaxUpdates,        \* bound: reports received
    MaxReconfigs,      \* bound: reconfigurations
    MaxVersion,        \* bound: healthCheckVersion saturates here
    MaxTime            \* bound: seconds that pass

Actor == Updater \cup Configurer \cup Loop

ASSUME ActorsAssumption ==
    /\ Updater \cap Configurer = {}
    /\ Updater \cap Loop = {}
    /\ Configurer \cap Loop = {}
    /\ NoLoop \notin Actor

ASSUME ListsAssumption ==
    /\ Report \subseteq [listed : SUBSET Node, offline : SUBSET Node]
    /\ InitEndpoints \subseteq SUBSET Node
    /\ SettledHealth \subseteq SUBSET Node

ASSUME NumbersAssumption ==
    /\ DegradeOpts \subseteq
         [Flag : {0, 1}, Threshold : Nat, PanicThreshold : Nat,
          ThresholdContrastInterval : Int, EndpointsSaveInterval : Int]
    /\ MaxUpdates \in Nat
    /\ MaxReconfigs \in Nat
    /\ MaxVersion \in Nat
    /\ MaxTime \in Nat

VARIABLES
    opts,                    \* d.opts
    status,                  \* d.status
    latestAdapterList,       \* d.latestAdapterList
    applyList,               \* d.applyList
    historyEndpoints,        \* d.historyEndpoints
    stableHistoryEndpoints,  \* d.stableHistoryEndpoints
    pingCtxCancel,           \* d.pingCtxCancel: the loop it cancels
    ctxDone,                 \* loops whose context is cancelled
    pc,                      \* the next section of each goroutine
    call,                    \* locals of onUpdateList, per updater
    ping,                    \* locals of pingLoop and continueDoPing, per loop
    taken,                   \* the cancel function a goroutine is about to call
    updates,                 \* version of the adapter's watcher
    reconfigs,               \* reconfigurations so far
    healthy,                 \* nodes that pass the health check
    flapping,                \* nodes whose check may go either way
    notified,                \* the list doUpdateList was last called with
    now                      \* time.Now().Unix()

shared == <<opts, status, latestAdapterList, applyList, historyEndpoints,
            stableHistoryEndpoints, pingCtxCancel, ctxDone>>
locals == <<pc, call, ping, taken>>
environment == <<updates, reconfigs, healthy, flapping, now>>
vars == <<shared, locals, environment, notified>>

-----------------------------------------------------------------------------
(* Lists, options and the two comparisons                                  *)

Statuses == {"normal", "selfProtection", "panic"}
RunModes == {"unset", "init", "selfProtection", "panic"}

ServiceList == [watchVersion : {0, 1}, version : Nat, runMode : RunModes,
                services : SUBSET Node]

EmptyList == [watchVersion |-> 0, version |-> 0, runMode |-> "unset", services |-> {}]
InitList(nodes) == [EmptyList EXCEPT !.runMode = "init", !.services = nodes]
AdapterList(version, nodes) ==
    [watchVersion |-> 1, version |-> version, runMode |-> "unset", services |-> nodes]

(* a / b < percent / 100 in floating point: for b = 0 it is +Inf or NaN    *)
(* that is compared, and the comparison is false.                          *)
Below(a, b, percent) == b > 0 /\ 100 * a < percent * b

(* The services of the list at the back of a queue, none for an empty one. *)
Baseline(l) == IF l = <<>> THEN {} ELSE Oldest(l).list

(* onUpdateList adds addEndpoints = 1 to the size of a non-empty list, and *)
(* leaves nodes flagged offline out of the baseline.                       *)
addEndpoints == 1
Padded(list) == IF list = {} THEN 0 ELSE Cardinality(list) + addEndpoints
LosesTooMany(list, offline, baseline, o) ==
    /\ o.Flag = 0
    /\ Below(Padded(list), Cardinality(baseline \ offline), o.Threshold)

(* The endpoints continueDoPing checks: one per address, and one of the    *)
(* latest adapter list where an address has one.                           *)
Aggregates(latest, history) ==
    LET address(nodes) == {SelfProtectionID[n] : n \in nodes}
    IN  {nodes \in SUBSET (latest \cup history) :
            /\ \A m, n \in nodes :
                  SelfProtectionID[m] = SelfProtectionID[n] => m = n
            /\ address(nodes) = address(latest \cup history)
            /\ \A n \in nodes :
                  SelfProtectionID[n] \in address(latest) => n \in latest}

(* What the health checks of some endpoints may find.                      *)
Health(endpoints) ==
    {passed \in SUBSET endpoints :
        passed \ flapping = (endpoints \cap healthy) \ flapping}

Go(p, label) == pc' = [pc EXCEPT ![p] = label]

-----------------------------------------------------------------------------
(* newDegrade: with Flag = 1 its updateOpts call finds nothing to stop.    *)

InitFresh ==
    /\ applyList = EmptyList
    /\ historyEndpoints = <<>>
    /\ stableHistoryEndpoints = <<>>

InitFromHistory(nodes) ==
    LET elemInit == [unixNano |-> now - opts.ThresholdContrastInterval, list |-> nodes]
        queues == PushBoth(<<>>, <<>>, elemInit, opts)
    IN  /\ applyList = InitList(nodes)
        /\ historyEndpoints = queues.history
        /\ stableHistoryEndpoints = queues.stable

Init ==
    /\ opts \in DegradeOpts
    /\ now = 0
    /\ status = "normal"
    /\ latestAdapterList = EmptyList
    /\ InitFresh \/ \E nodes \in InitEndpoints : InitFromHistory(nodes)
    /\ pingCtxCancel = NoLoop
    /\ ctxDone = {}
    /\ pc = [p \in Actor |-> IF p \in Loop THEN "none" ELSE "idle"]
    /\ call = [u \in Updater |-> [opts |-> opts, list |-> EmptyList, offline |-> {}]]
    /\ ping = [l \in Loop |-> [opts |-> opts, version |-> 0, history |-> {},
                               stable |-> {}, latest |-> {}, health |-> {}]]
    /\ taken = [p \in Actor |-> NoLoop]
    /\ updates = 0
    /\ reconfigs = 0
    /\ healthy = {}
    /\ flapping = Node
    /\ notified = EmptyList

-----------------------------------------------------------------------------
(* onUpdateList                                                            *)

(* getNormalServices drops the nodes flagged offline; getOpts.             *)
Receive(u) ==
    /\ pc[u] = "idle"
    /\ updates < MaxUpdates
    /\ updates' = updates + 1
    /\ \E r \in Report :
          call' = [call EXCEPT ![u] =
                     [opts |-> opts,
                      list |-> AdapterList(updates + 1, r.listed \ r.offline),
                      offline |-> r.listed \cap r.offline]]
    /\ Go(u, "record")
    /\ UNCHANGED <<shared, ping, taken, reconfigs, healthy, flapping, now, notified>>

Return(u) ==
    /\ Go(u, "idle")
    /\ call' = [call EXCEPT ![u].list = EmptyList, ![u].offline = {}]

(* Outside normal mode the list is recorded and nothing else is done.      *)
OnlyRecordsOutsidePanic == status = "selfProtection"
OnlyRecords == status # "normal"

(* The first locked section, and the decision taken on what it read.       *)
Record(u) ==
    LET trimmed == Trim(historyEndpoints, now, call[u].opts)
        protect == LosesTooMany(call[u].list.services, call[u].offline,
                                Baseline(trimmed), call[u].opts)
    IN  /\ pc[u] = "record"
        /\ historyEndpoints' = trimmed
        /\ latestAdapterList' = call[u].list
        /\ \/ OnlyRecords /\ Return(u)
           \/ ~OnlyRecords /\ protect /\ Go(u, "enter") /\ UNCHANGED call
           \/ ~OnlyRecords /\ ~protect /\ Go(u, "push") /\ UNCHANGED call
        /\ UNCHANGED <<opts, status, applyList, stableHistoryEndpoints, pingCtxCancel,
                       ctxDone, ping, taken, environment, notified>>

(* startSelfProtection: a new context, and a new loop unless some other    *)
(* goroutine has entered protection meanwhile.                             *)
Enter(u) ==
    /\ pc[u] = "enter"
    /\ \/ /\ status # "normal"
          /\ Return(u)
          /\ UNCHANGED <<status, pingCtxCancel>>
       \/ /\ status = "normal"
          /\ status' = "selfProtection"
          /\ \E l \in Loop :
                /\ pc[l] = "none"
                /\ pingCtxCancel' = l
                /\ pc' = [pc EXCEPT ![l] = "begin", ![u] = "idle"]
          /\ call' = [call EXCEPT ![u].list = EmptyList, ![u].offline = {}]
    /\ UNCHANGED <<opts, latestAdapterList, applyList, historyEndpoints,
                   stableHistoryEndpoints, ctxDone, ping, taken, environment, notified>>

PushElemOnce(history, list, o) ==
    /\ historyEndpoints' = Push(history, [unixNano |-> now, list |-> list], o)
    /\ UNCHANGED stableHistoryEndpoints
PushElem(history, list, o) ==
    LET queues == PushBoth(history, stableHistoryEndpoints,
                           [unixNano |-> now, list |-> list], o)
    IN  /\ historyEndpoints' = queues.history
        /\ stableHistoryEndpoints' = queues.stable

(* The second locked section: the accepted list joins both queues.         *)
PushHistory(u) ==
    /\ pc[u] = "push"
    /\ PushElem(historyEndpoints, call[u].list.services, call[u].opts)
    /\ Go(u, "stop")
    /\ UNCHANGED <<opts, status, latestAdapterList, applyList, pingCtxCancel, ctxDone,
                   call, ping, taken, environment, notified>>

(* doUpdateList                                                            *)
Notify(u) ==
    /\ pc[u] = "notify"
    /\ notified' = call[u].list
    /\ Return(u)
    /\ UNCHANGED <<shared, ping, taken, environment>>

-----------------------------------------------------------------------------
(* updateOpts                                                              *)

UpdateOpts(c) ==
    /\ pc[c] = "idle"
    /\ reconfigs < MaxReconfigs
    /\ reconfigs' = reconfigs + 1
    /\ opts' \in DegradeOpts
    /\ IF opts'.Flag = 1 THEN Go(c, "stop") ELSE UNCHANGED pc
    /\ UNCHANGED <<status, latestAdapterList, applyList, historyEndpoints,
                   stableHistoryEndpoints, pingCtxCancel, ctxDone, call, ping, taken,
                   updates, healthy, flapping, now, notified>>

-----------------------------------------------------------------------------
(* stopSelfProtection, called by all three kinds of goroutine              *)

(* Where p goes once stopSelfProtection has returned nil.                  *)
AfterStop(p) == CASE p \in Updater -> "notify"
                  [] p \in Configurer -> "idle"
                  [] OTHER -> "done"

(* The loop wants the number of nodes it has checked, the others pass -1.  *)
MayStop(p) == p \in Loop => Cardinality(latestAdapterList.services)
                               = Cardinality(ping[p].latest)

(* The adapter's list is served, in normal mode too.                       *)
AdoptOnlyWhenLeaving ==
    applyList' = IF status = "normal" THEN applyList ELSE latestAdapterList
Adopt == applyList' = latestAdapterList

(* The cancel function is taken out, history starts afresh.                *)
LeaveKeepingCancel(p) ==
    /\ status' = "normal"
    /\ taken' = [taken EXCEPT ![p] = pingCtxCancel]
    /\ PushElem(<<>>, latestAdapterList.services, opts)
    /\ UNCHANGED pingCtxCancel
LeaveProtection(p) ==
    /\ status' = "normal"
    /\ pingCtxCancel' = NoLoop
    /\ taken' = [taken EXCEPT ![p] = pingCtxCancel]
    /\ PushElem(<<>>, latestAdapterList.services, opts)

(* getOpts and the locked section.                                         *)
StopSelfProtection(p) ==
    /\ pc[p] = "stop"
    /\ MayStop(p)
    /\ Adopt
    /\ \/ /\ status = "normal"
          /\ Go(p, AfterStop(p))
          /\ UNCHANGED <<status, pingCtxCancel, taken, historyEndpoints,
                         stableHistoryEndpoints>>
       \/ /\ status # "normal"
          /\ LeaveProtection(p)
          /\ Go(p, "cancel")
    /\ UNCHANGED <<opts, latestAdapterList, ctxDone, call, ping, environment, notified>>

(* continueDoPing returns true: the locals of the round are gone.          *)
Sleep(l) ==
    /\ Go(l, "sleep")
    /\ ping' = [ping EXCEPT ![l].latest = {}, ![l].health = {}]

(* The number of nodes has changed since the loop's snapshot.              *)
RefuseStop(l) ==
    /\ pc[l] = "stop"
    /\ ~MayStop(l)
    /\ Sleep(l)
    /\ UNCHANGED <<shared, call, taken, environment, notified>>

(* The cancel function is called after d.mux has been released.            *)
Cancel(p) ==
    /\ pc[p] = "cancel"
    /\ ctxDone' = ctxDone \cup {taken[p]}
    /\ taken' = [taken EXCEPT ![p] = NoLoop]
    /\ Go(p, AfterStop(p))
    /\ UNCHANGED <<opts, status, latestAdapterList, applyList, historyEndpoints,
                   stableHistoryEndpoints, pingCtxCancel, call, ping, environment,
                   notified>>

-----------------------------------------------------------------------------
(* pingLoop and continueDoPing                                             *)

(* getOpts and the read-locked section of pingLoop; back() trims.          *)
Begin(l) ==
    /\ pc[l] = "begin"
    /\ historyEndpoints' = Trim(historyEndpoints, now, opts)
    /\ stableHistoryEndpoints' = Trim(stableHistoryEndpoints, now, opts)
    /\ ping' = [ping EXCEPT ![l].version = applyList.version,
                            ![l].history = Baseline(historyEndpoints'),
                            ![l].stable = Baseline(stableHistoryEndpoints')]
    /\ Go(l, "check")
    /\ UNCHANGED <<opts, status, latestAdapterList, applyList, pingCtxCancel, ctxDone,
                   call, taken, environment, notified>>

LoadOpts(l) ==
    /\ pc[l] = "check"
    /\ ping' = [ping EXCEPT ![l].opts = opts]
    /\ Go(l, "snapshot")
    /\ UNCHANGED <<shared, call, taken, environment, notified>>

Snapshot(l) ==
    /\ pc[l] = "snapshot"
    /\ ping' = [ping EXCEPT ![l].latest = latestAdapterList.services]
    /\ Go(l, "judge")
    /\ UNCHANGED <<shared, call, taken, environment, notified>>

(* What to do about the nodes that passed, as long as status is st.        *)
SameAsHistory(p) == p.health = p.history
Same(p) == p.health = p.latest
GoesPanic(p) == Below(Cardinality(p.health), Cardinality(p.history), p.opts.PanicThreshold)
StaysPanicUntilAllPass(p) == Cardinality(p.health) < Cardinality(p.stable)
StaysPanic(p) == Below(Cardinality(p.health), Cardinality(p.stable), p.opts.Threshold)

StopOrApply(st, p) == IF st = "selfProtection" /\ Same(p) THEN "stop" ELSE "apply"

Verdict(st, p) ==
    CASE st = "selfProtection" /\ GoesPanic(p) -> "panic"
      [] st = "panic" /\ StaysPanic(p) -> "sleep"
      [] st = "panic" /\ ~StaysPanic(p) -> "recover"
      [] OTHER -> StopOrApply(st, p)

(* The health checks, and the read-locked look at the status after them.   *)
Judge(l) ==
    /\ pc[l] = "judge"
    /\ \E endpoints \in Aggregates(ping[l].latest, ping[l].history) :
          \E passed \in Health(endpoints) :
             LET judged == [ping[l] EXCEPT !.health = passed]
             IN  IF Verdict(status, judged) = "sleep"
                 THEN Sleep(l)
                 ELSE /\ ping' = [ping EXCEPT ![l] = judged]
                      /\ Go(l, Verdict(status, judged))
    /\ UNCHANGED <<shared, call, taken, environment, notified>>

(* A loop publishes only while its context lives and the status has not    *)
(* changed under it.                                                       *)
MayPublishInAnyMode(l, st) == l \notin ctxDone
MayPublish(l, st) == l \notin ctxDone /\ status = st

Publish(mode, version, nodes) ==
    applyList' = [applyList EXCEPT !.runMode = mode, !.version = version,
                                   !.services = nodes]

(* Panic serves the baseline of the stable queue under an unchanged version*)
PanicListOfHistory(l) == ping[l].history
PanicList(l) == ping[l].stable

Panic(l) ==
    /\ pc[l] = "panic"
    /\ IF MayPublish(l, "selfProtection")
       THEN /\ status' = "panic"
            /\ Publish("panic", applyList.version, PanicList(l))
       ELSE UNCHANGED <<status, applyList>>
    /\ Sleep(l)
    /\ UNCHANGED <<opts, latestAdapterList, historyEndpoints, stableHistoryEndpoints,
                   pingCtxCancel, ctxDone, call, taken, environment, notified>>

Recover(l) ==
    /\ pc[l] = "recover"
    /\ \/ l \in ctxDone /\ Sleep(l) /\ UNCHANGED status
       \/ /\ l \notin ctxDone
          /\ status' = IF status = "panic" THEN "selfProtection" ELSE status
          /\ Go(l, StopOrApply(status', ping[l]))
          /\ UNCHANGED ping
    /\ UNCHANGED <<opts, latestAdapterList, applyList, historyEndpoints,
                   stableHistoryEndpoints, pingCtxCancel, ctxDone, call, taken,
                   environment, notified>>

Apply(l) ==
    /\ pc[l] = "apply"
    /\ IF MayPublish(l, "selfProtection")
       THEN Publish("selfProtection", ping[l].version, ping[l].health)
       ELSE UNCHANGED applyList
    /\ Sleep(l)
    /\ UNCHANGED <<opts, status, latestAdapterList, historyEndpoints,
                   stableHistoryEndpoints, pingCtxCancel, ctxDone, call, taken,
                   environment, notified>>

BumpNever(version) == version
Bump(version) == IF version < MaxVersion THEN version + 1 ELSE version

(* The timer fires.  With the context done too, select may pick either.    *)
Wake(l) ==
    /\ pc[l] = "sleep"
    /\ ping' = [ping EXCEPT ![l].version = Bump(@)]
    /\ Go(l, "check")
    /\ UNCHANGED <<shared, call, taken, environment, notified>>

QuitOnlyAtFirst(l) ==
    /\ pc[l] = "begin"
    /\ l \in ctxDone
    /\ Go(l, "done")
    /\ UNCHANGED <<shared, call, ping, taken, environment, notified>>
Quit(l) ==
    /\ pc[l] = "sleep"
    /\ l \in ctxDone
    /\ Go(l, "done")
    /\ UNCHANGED <<shared, call, ping, taken, environment, notified>>

-----------------------------------------------------------------------------
(* The environment                                                         *)

Settle ==
    /\ flapping # {}
    /\ healthy' \in SettledHealth
    /\ flapping' = {}
    /\ UNCHANGED <<shared, locals, updates, reconfigs, now, notified>>

Tick ==
    /\ now < MaxTime
    /\ now' = now + 1
    /\ UNCHANGED <<shared, locals, updates, reconfigs, healthy, flapping, notified>>

-----------------------------------------------------------------------------

UpdaterStep(u) == Record(u) \/ Enter(u) \/ PushHistory(u) \/ Notify(u)

LoopStep(l) ==
    \/ Begin(l) \/ LoadOpts(l) \/ Snapshot(l) \/ Judge(l) \/ Panic(l)
    \/ Recover(l) \/ Apply(l) \/ RefuseStop(l) \/ Wake(l) \/ Quit(l)

StopStep(p) == StopSelfProtection(p) \/ Cancel(p)

Next ==
    \/ \E u \in Updater : Receive(u) \/ UpdaterStep(u)
    \/ \E c \in Configurer : UpdateOpts(c)
    \/ \E l \in Loop : LoopStep(l)
    \/ \E p \in Actor : StopStep(p)
    \/ Settle
    \/ Tick

Spec == Init /\ [][Next]_vars

(* A goroutine that can run does; the scheduler and the timer see to that. *)
(* A select with both the timer and the context ready picks at random, so  *)
(* it cannot pick the timer for ever.                                      *)
Fairness ==
    /\ \A u \in Updater : WF_vars(UpdaterStep(u))
    /\ \A p \in Actor : WF_vars(StopStep(p))
    /\ \A l \in Loop : WF_vars(LoopStep(l)) /\ SF_vars(Quit(l))

FairSpec == Spec /\ Fairness

-----------------------------------------------------------------------------
(* Properties                                                              *)

Call == [opts : DegradeOpts, list : ServiceList, offline : SUBSET Node]
Ping == [opts : DegradeOpts, version : Nat, history : SUBSET Node,
         stable : SUBSET Node, latest : SUBSET Node, health : SUBSET Node]
UpdaterLabels == {"idle", "record", "enter", "push", "stop", "cancel", "notify"}
ConfigurerLabels == {"idle", "stop", "cancel"}
Checking == {"begin", "check", "snapshot", "judge", "panic", "recover", "apply",
             "stop", "sleep"}
LoopLabels == Checking \cup {"none", "cancel", "done"}

SharedOK ==
    /\ opts \in DegradeOpts
    /\ status \in Statuses
    /\ latestAdapterList \in ServiceList
    /\ applyList \in ServiceList
    /\ historyEndpoints \in Seq(Elem(SUBSET Node))
    /\ stableHistoryEndpoints \in Seq(Elem(SUBSET Node))
    /\ pingCtxCancel \in Loop \cup {NoLoop}
    /\ ctxDone \subseteq Loop \cup {NoLoop}

ControlOK ==
    /\ pc \in [Actor -> UpdaterLabels \cup LoopLabels]
    /\ \A u \in Updater : pc[u] \in UpdaterLabels
    /\ \A c \in Configurer : pc[c] \in ConfigurerLabels
    /\ \A l \in Loop : pc[l] \in LoopLabels

LocalsOK ==
    /\ call \in [Updater -> Call]
    /\ ping \in [Loop -> Ping]
    /\ taken \in [Actor -> Loop \cup {NoLoop}]

EnvironmentOK ==
    /\ updates \in Nat
    /\ reconfigs \in Nat
    /\ now \in Nat
    /\ healthy \subseteq Node
    /\ flapping \subseteq Node
    /\ notified \in ServiceList

(* Every variable holds what the Go variable it stands for can hold.       *)
TypeOK == SharedOK /\ ControlOK /\ LocalsOK /\ EnvironmentOK

(* Protection is on exactly while the object holds the cancel function of  *)
(* a loop that still runs and that nobody has cancelled or is about to     *)
(* cancel: protection can never be left behind with no loop to end it      *)
(* (startSelfProtection, stopSelfProtection, pingLoop).                    *)
ProtectionIsOwned ==
    /\ status # "normal" <=> pingCtxCancel # NoLoop
    /\ pingCtxCancel # NoLoop =>
          /\ pc[pingCtxCancel] \in Checking
          /\ pingCtxCancel \notin ctxDone
          /\ \A p \in Actor : taken[p] # pingCtxCancel

(* What callers are served is labelled with the mode the object is in: a   *)
(* protected or panic list never outlives protection, and panic never      *)
(* serves anything but a panic list (continueDoPing, stopSelfProtection).  *)
RunModeMatchesStatus ==
    /\ status = "normal" => applyList.runMode \in {"unset", "init"}
    /\ status = "panic" => applyList.runMode = "panic"

(* Outside protection the served list is the adapter's latest one, as the  *)
(* comment on applyList says, unless an update is still on its way to      *)
(* stopSelfProtection or startSelfProtection (onUpdateList).               *)
NormalServesAdapter ==
    status = "normal" /\ latestAdapterList.version > 0 =>
        \/ applyList = latestAdapterList
        \/ \E u \in Updater : pc[u] \in {"enter", "push", "stop"}

(* In panic the served list is the absolute baseline the session started   *)
(* from (continueDoPing, "use the absolute list of 15 minutes ago").       *)
PanicServesBaseline ==
    status = "panic" => applyList.services = ping[pingCtxCancel].stable

(* The nodes served in panic do not change until panic ends, whatever the  *)
(* adapter, a reconfiguration or another loop does in the meantime.        *)
PanicIsFrozen ==
    [][status = "panic" /\ status' = "panic" => applyList' = applyList]_vars

(* Outside normal mode an update only replaces latestAdapterList, as       *)
(* onUpdateList says: it neither ends protection nor changes what is served*)
AbnormalOnlyRecords ==
    [][\A u \in Updater :
          status # "normal" /\ pc'[u] # pc[u]
             => status' = status /\ applyList' = applyList]_vars

Key(list) == <<list.watchVersion, list.version, list.runMode>>

(* When the served nodes change, so does one of the three values by which  *)
(* CheckChange recognises a change (check_change.go): no caller that looks *)
(* after every change misses one.                                          *)
ChangeIsVisible ==
    [][applyList'.services # applyList.services /\ applyList'.version < MaxVersion
          => Key(applyList') # Key(applyList)]_vars

(* What the checks of a session's loop find once health has settled.       *)
Passing == healthy \cap (latestAdapterList.services \cup ping[pingCtxCancel].history)

(* Enough of both baselines passes for the session not to stay in panic.   *)
EnoughPass ==
    LET p == ping[pingCtxCancel]
    IN  /\ ~Below(Cardinality(Passing), Cardinality(p.history), opts.PanicThreshold)
        /\ ~Below(Cardinality(Passing), Cardinality(p.stable), opts.Threshold)

(* Protection ends: once the nodes that pass are those the adapter lists,  *)
(* and they are enough not to cause panic, the object returns to normal.   *)
ProtectionEnds ==
    <>[](pingCtxCancel # NoLoop =>
            flapping = {} /\ EnoughPass /\ Passing = latestAdapterList.services)
        => <>[](status = "normal")

(* Panic ends: once enough nodes pass, whether or not the adapter lists the*)
(* same ones, the object leaves panic for good.                            *)
PanicEnds ==
    <>[](pingCtxCancel # NoLoop => flapping = {} /\ EnoughPass)
        => <>[](status # "panic")

(* A loop whose context is cancelled stops (pingLoop's select).            *)
CancelledLoopsEnd == \A l \in Loop : l \in ctxDone ~> pc[l] = "done"

(* An update is not forgotten half way: again and again the object is      *)
(* protected or serves the latest list the adapter delivered.              *)
UpdatesTakeEffect ==
    []<>(status = "normal" /\ latestAdapterList.version > 0
            => applyList = latestAdapterList)

-----------------------------------------------------------------------------
(* The two queues of this object behave as History says.                   *)

Archive == INSTANCE History WITH
    List <- SUBSET Node,
    InitialLists <- InitEndpoints,
    Opts <- DegradeOpts,
    history <- historyEndpoints,
    stable <- stableHistoryEndpoints

(* Whatever updaters, configurers and loops do, in any order, the queues   *)
(* only ever go through the four operations of History: no interleaving    *)
(* breaks the sharing of their elements.                                   *)
ImplementsHistory == Archive!Spec

Reader == INSTANCE Served WITH
    Services <- SUBSET Node,
    Version <- 0..(MaxUpdates + MaxVersion)

(* As long as updates come one at a time and nobody switches protection    *)
(* off, what readers see moves as Served says: only a list not served yet  *)
(* starts a session, every session leaves by adopting the latest list, and *)
(* within a session versions grow and panic follows protection.            *)
ImplementsServed == Reader!ServedSpec

=============================================================================
