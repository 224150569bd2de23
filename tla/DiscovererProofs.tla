-------------------------- MODULE DiscovererProofs --------------------------
(***************************************************************************)
(* Theorems about Discoverer, for every set of keys, options and           *)
(* goroutines.                                                             *)
(***************************************************************************)
EXTENDS Discoverer, TLAPS

-----------------------------------------------------------------------------
(* The inductive invariants                                                *)

LoadedOK == \A t \in Thread : pc[t] \in {"open", "collect", "update"} => loaded[t] \in Opts

(* Who opens a watch holds d.mux, and its key has none.                    *)
LockOK ==
    /\ \A t \in Caller : mux = t <=> pc[t] = "open"
    /\ \A t \in Caller : pc[t] = "open" => key[t] \notin watchers
    /\ \A k \in Key \ watchers : run[k] = "none"

(* Nothing keeps two calls of UpdateDegradeOpts apart; a theorem that needs*)
(* them one at a time says so.                                             *)
OneConfigurer == \A u, v \in Configurer : u = v

Collecting == \E u \in Configurer : pc[u] = "collect"

(* What the last reconfiguration has stored is in every watch that its     *)
(* goroutine has not left to do, and is or will be in the one being        *)
(* opened: before the watches are collected nothing is claimed.            *)
OptsOK ==
    /\ \A u \in Configurer :
          /\ pc[u] \in {"idle", "collect", "update"}
          /\ pc[u] # "idle" => loaded[u] = degradeOpts
          /\ pc[u] = "update" => \A k \in watchers : opts[k] = degradeOpts \/ k \in todo[u]
    /\ \A t \in Caller : pc[t] = "open" => loaded[t] = degradeOpts \/ Collecting
    /\ RegisteredOptsCurrent

(* A watcher that has told of its first query has a list, or was refused;  *)
(* a request reads once the first has waited.                              *)
Told(k) == list[k] > 0 \/ k \in refused

FirstOK ==
    /\ \A k \in Key : run[k] \in {"told", "polling", "ended"} \/ k \in ready => Told(k)
    /\ \A k \in once : Told(k) \/ k \in timedOut
    /\ \A t \in Caller : pc[t] = "read" => key[t] \in once
    /\ EmptyOnlyIfUnready

-----------------------------------------------------------------------------
(* Types                                                                   *)

Labels == {"idle", "lock", "open", "list", "wait", "read", "done", "collect", "update",
           "stop", "await"}
Runs == {"none", "asking", "told", "polling", "ended"}

LEMMA ThreadKinds ==
    /\ \A t \in Caller : t \in Thread /\ t \notin Configurer /\ t \notin Closer /\ t # NoOne
    /\ \A t \in Configurer : t \in Thread /\ t \notin Caller /\ t \notin Closer
    /\ \A t \in Closer : t \in Thread /\ t \notin Caller /\ t \notin Configurer
BY DiscovererAssumption DEF DiscovererAssumption, Thread

LEMMA ListsType == 0 \in 0..MaxLists /\ 1 \in 0..MaxLists /\ MaxLists \in Nat
BY DiscovererAssumption DEF DiscovererAssumption

LEMMA InitType == Init => TypeOK
<1> SUFFICES ASSUME Init PROVE TypeOK
  OBVIOUS
<1>1. list \in [Key -> 0..MaxLists] /\ answer \in [Caller -> 0..MaxLists \cup {Failed}]
  BY ListsType DEF Init
<1>2. todo \in [Thread -> SUBSET Key] /\ loaded \in [Thread -> Opts \cup {NoOpts}]
  BY DEF Init
<1> QED BY <1>1, <1>2 DEF Init, TypeOK

LEMMA RequestType ==
    ASSUME TypeOK, LoadedOK, NEW t \in Caller, Find(t) \/ Request(t) \/ OpenFails(t)
    PROVE  TypeOK'
<1> USE ThreadKinds DEF watch, adapter, local
<1>1. pc' \in [Thread -> Labels]
  BY DEF TypeOK, Labels, Go, Find, Request, Lock, Open, StartWaiting, Pass, WaitReady, Read,
         OpenFails
<1>2. CASE Find(t)
  <2>1. key' \in [Caller -> Key] /\ answer' \in [Caller -> 0..MaxLists \cup {Failed}]
    BY <1>2, ListsType DEF Find, TypeOK
  <2> QED BY <1>1, <1>2, <2>1 DEF Find, TypeOK, Labels
<1>3. CASE Lock(t)
  <2>1. loaded' \in [Thread -> Opts \cup {NoOpts}] /\ mux' \in Caller \cup {NoOne}
    BY <1>3 DEF Lock, TypeOK
  <2> QED BY <1>1, <1>3, <2>1 DEF Lock, TypeOK, Labels
<1>4. CASE Open(t)
  <2>1. key[t] \in Key /\ loaded[t] \in Opts
    BY <1>4 DEF Open, LoadedOK, TypeOK
  <2>2. /\ watchers' \subseteq Key /\ opts' \in [Key -> Opts]
        /\ first' \in [Key -> Caller \cup {NoOne}]
        /\ run' \in [Key -> Runs] /\ loaded' \in [Thread -> Opts \cup {NoOpts}]
    BY <1>4, <2>1 DEF Open, TypeOK, Runs
  <2> QED BY <1>1, <1>4, <2>2 DEF Open, TypeOK, Labels, Runs
<1>5. CASE OpenFails(t)
  <2>1. /\ loaded' \in [Thread -> Opts \cup {NoOpts}]
        /\ answer' \in [Caller -> 0..MaxLists \cup {Failed}]
    BY <1>5 DEF OpenFails, TypeOK
  <2> QED BY <1>1, <1>5, <2>1 DEF OpenFails, TypeOK, Labels
<1>6. CASE StartWaiting(t)
  <2>1. first' \in [Key -> Caller \cup {NoOne}]
    BY <1>6 DEF StartWaiting, TypeOK
  <2> QED BY <1>1, <1>6, <2>1 DEF StartWaiting, TypeOK, Labels
<1>7. CASE Pass(t)
  BY <1>1, <1>7 DEF Pass, TypeOK, Labels
<1>8. CASE WaitReady(t)
  <2>1. once' \subseteq Key /\ timedOut' \subseteq Key
    BY <1>8 DEF WaitReady, TypeOK
  <2> QED BY <1>1, <1>8, <2>1 DEF WaitReady, TypeOK, Labels
<1>9. CASE Read(t)
  <2>1. answer' \in [Caller -> 0..MaxLists \cup {Failed}]
    BY <1>9 DEF Read, TypeOK
  <2> QED BY <1>1, <1>9, <2>1 DEF Read, TypeOK, Labels
<1> QED BY <1>2, <1>3, <1>4, <1>5, <1>6, <1>7, <1>8, <1>9 DEF Request

LEMMA ReconfigureType ==
    ASSUME TypeOK, LoadedOK, NEW t \in Configurer, Store(t) \/ Reconfigure(t)
    PROVE  TypeOK'
<1> USE ThreadKinds DEF watch, adapter, local
<1>1. pc' \in [Thread -> Labels]
  BY DEF TypeOK, Labels, Go, Store, Reconfigure, Collect, Update, Updated
<1>2. CASE Store(t)
  <2>1. loaded' \in [Thread -> Opts \cup {NoOpts}]
    BY <1>2 DEF Store, TypeOK
  <2> QED BY <1>1, <1>2, <2>1 DEF Store, TypeOK, Labels
<1>3. CASE Collect(t)
  <2>1. todo' \in [Thread -> SUBSET Key]
    BY <1>3 DEF Collect, TypeOK
  <2> QED BY <1>1, <1>3, <2>1 DEF Collect, TypeOK, Labels
<1>4. CASE Update(t)
  <2>1. loaded[t] \in Opts
    BY <1>4 DEF Update, LoadedOK
  <2>2. todo' \in [Thread -> SUBSET Key] /\ opts' \in [Key -> Opts]
    BY <1>4, <2>1 DEF Update, TypeOK
  <2> QED BY <1>1, <1>4, <2>2 DEF Update, TypeOK, Labels
<1>5. CASE Updated(t)
  <2>1. loaded' \in [Thread -> Opts \cup {NoOpts}]
    BY <1>5 DEF Updated, TypeOK
  <2> QED BY <1>1, <1>5, <2>1 DEF Updated, TypeOK, Labels
<1> QED BY <1>2, <1>3, <1>4, <1>5 DEF Reconfigure

LEMMA ShutdownType ==
    ASSUME TypeOK, NEW t \in Closer, CollectForStop(t) \/ Shutdown(t)
    PROVE  TypeOK'
<1> USE ThreadKinds DEF watch, adapter, local
<1>1. pc' \in [Thread -> Labels]
  BY DEF TypeOK, Labels, Go, CollectForStop, Shutdown, AgainStop, StopPlan, CloseClient,
         AwaitResult, Stopped, FirstStop
<1>2. todo' \in [Thread -> SUBSET Key]
  BY DEF TypeOK, CollectForStop, Shutdown, AgainStop, StopPlan, CloseClient, AwaitResult,
         Stopped, FirstStop
<1>3. CASE CollectForStop(t) \/ AgainStop(t) \/ Stopped(t)
  BY <1>1, <1>2, <1>3 DEF CollectForStop, AgainStop, Stopped, TypeOK, Labels
<1>4. ASSUME NEW k \in todo[t], FirstStop(t, k), stopping' \in [Closer -> Key \cup {NoKey}]
      PROVE  TypeOK'
  <2>1. closed' \subseteq Key
    BY <1>4 DEF FirstStop, TypeOK
  <2> QED BY <1>1, <1>2, <1>4, <2>1 DEF FirstStop, TypeOK, Labels
<1>5. CASE StopPlan(t)
  BY <1>4, <1>5 DEF StopPlan, TypeOK
<1>6. CASE CloseClient(t)
  BY <1>4, <1>6 DEF CloseClient, TypeOK
<1>7. CASE AwaitResult(t)
  <2>1. stopping' \in [Closer -> Key \cup {NoKey}] /\ errCh' \subseteq Key
    BY <1>7 DEF AwaitResult, TypeOK
  <2> QED BY <1>1, <1>2, <1>7, <2>1 DEF AwaitResult, TypeOK, Labels
<1> QED BY <1>3, <1>5, <1>6, <1>7 DEF Shutdown

LEMMA WatcherType ==
    ASSUME TypeOK, NEW k \in Key,
           \/ FirstList(k) \/ FirstListMissing(k) \/ BecomeReady(k) \/ Poll(k) \/ PlanEnds(k)
    PROVE  TypeOK'
<1> USE DEF watch, adapter, local
<1>1. run' \in [Key -> Runs]
  BY DEF TypeOK, Runs, FirstList, FirstListMissing, Answered, BecomeReady, Poll, PlanEnds
<1>2. CASE FirstList(k)
  <2>1. list' \in [Key -> 0..MaxLists]
    BY <1>2, ListsType DEF FirstList, TypeOK
  <2> QED BY <1>1, <1>2, <2>1 DEF FirstList, Answered, TypeOK, Runs
<1>3. CASE FirstListMissing(k)
  <2>1. refused' \subseteq Key
    BY <1>3 DEF FirstListMissing, TypeOK
  <2> QED BY <1>1, <1>3, <2>1 DEF FirstListMissing, Answered, TypeOK, Runs
<1>4. CASE BecomeReady(k)
  <2>1. ready' \subseteq Key
    BY <1>4 DEF BecomeReady, TypeOK
  <2> QED BY <1>1, <1>4, <2>1 DEF BecomeReady, TypeOK, Runs
<1>5. CASE Poll(k)
  <2>1. list[k] \in 0..MaxLists /\ list[k] < MaxLists
    BY <1>5 DEF Poll, TypeOK
  <2>2. list[k] + 1 \in 0..MaxLists
    BY <2>1, ListsType
  <2>3. list' \in [Key -> 0..MaxLists]
    BY <1>5, <2>2 DEF Poll, TypeOK
  <2> QED BY <1>5, <2>3 DEF Poll, TypeOK
<1>6. CASE PlanEnds(k)
  <2>1. errCh' \subseteq Key
    BY <1>6 DEF PlanEnds, TypeOK
  <2> QED BY <1>1, <1>6, <2>1 DEF PlanEnds, TypeOK, Runs
<1> QED BY <1>2, <1>3, <1>4, <1>5, <1>6

LEMMA LoadedKeeps == TypeOK /\ LoadedOK /\ [Next]_vars => LoadedOK'
<1> SUFFICES ASSUME TypeOK, LoadedOK, [Next]_vars PROVE LoadedOK'
  OBVIOUS
<1> USE ThreadKinds DEF watch, adapter, local, Go
<1>2. ASSUME NEW t \in Thread, UNCHANGED pc \/ \E label : Go(t, label),
             \A u \in Thread : u # t => loaded'[u] = loaded[u],
             pc'[t] \in {"open", "collect", "update"} => loaded'[t] \in Opts
      PROVE  LoadedOK'
  BY <1>2 DEF LoadedOK, TypeOK
<1>3. ASSUME NEW t \in Caller, Find(t) \/ Request(t) \/ OpenFails(t) PROVE LoadedOK'
  <2>1. \A u \in Thread : u # t => loaded'[u] = loaded[u]
    BY <1>3 DEF TypeOK, Find, Request, Lock, Open, StartWaiting, Pass, WaitReady, Read, OpenFails
  <2>2. pc'[t] \in {"open", "collect", "update"} => loaded'[t] \in Opts
    BY <1>3 DEF TypeOK, Find, Request, Lock, Open, StartWaiting, Pass, WaitReady, Read, OpenFails
  <2>3. \E label : Go(t, label)
    BY <1>3 DEF Find, Request, Lock, Open, StartWaiting, Pass, WaitReady, Read, OpenFails
  <2> QED BY <1>2, <2>1, <2>2, <2>3
<1>4. ASSUME NEW t \in Configurer, Store(t) \/ Reconfigure(t) PROVE LoadedOK'
  <2>1. \A u \in Thread : u # t => loaded'[u] = loaded[u]
    BY <1>4 DEF TypeOK, Store, Reconfigure, Collect, Update, Updated
  <2>2. pc'[t] \in {"open", "collect", "update"} => loaded'[t] \in Opts
    BY <1>4 DEF TypeOK, LoadedOK, Store, Reconfigure, Collect, Update, Updated
  <2>3. UNCHANGED pc \/ \E label : Go(t, label)
    BY <1>4 DEF Store, Reconfigure, Collect, Update, Updated
  <2> QED BY <1>2, <2>1, <2>2, <2>3
<1>5. ASSUME NEW t \in Closer, CollectForStop(t) \/ Shutdown(t) PROVE LoadedOK'
  <2>1. UNCHANGED loaded
    BY <1>5 DEF CollectForStop, Shutdown, AgainStop, StopPlan, CloseClient, AwaitResult, Stopped,
                FirstStop
  <2>2. \/ UNCHANGED pc
        \/ pc' = [pc EXCEPT ![t] = "stop"] \/ pc' = [pc EXCEPT ![t] = "await"]
        \/ pc' = [pc EXCEPT ![t] = "idle"]
    BY <1>5 DEF CollectForStop, Shutdown, AgainStop, StopPlan, CloseClient, AwaitResult, Stopped,
                FirstStop
  <2> QED BY <2>1, <2>2 DEF LoadedOK, TypeOK
<1>6. ASSUME NEW k \in Key,
             \/ FirstList(k) \/ FirstListMissing(k) \/ BecomeReady(k) \/ Poll(k) \/ PlanEnds(k)
      PROVE  LoadedOK'
  BY <1>6 DEF LoadedOK, FirstList, FirstListMissing, Answered, BecomeReady, Poll, PlanEnds
<1>7. CASE UNCHANGED vars
  BY <1>7 DEF vars, LoadedOK
<1> QED BY <1>3, <1>4, <1>5, <1>6, <1>7 DEF Next

LEMMA NextType == TypeOK /\ LoadedOK /\ [Next]_vars => TypeOK' /\ LoadedOK'
<1>1. CASE UNCHANGED vars
  BY <1>1, LoadedKeeps DEF vars, watch, adapter, local, TypeOK
<1> QED BY <1>1, RequestType, ReconfigureType, ShutdownType, WatcherType, LoadedKeeps DEF Next

-----------------------------------------------------------------------------
(* What each kind of goroutine leaves alone                                *)

LEMMA CallerGoes ==
    ASSUME TypeOK, NEW t \in Caller, Find(t) \/ Request(t) \/ OpenFails(t)
    PROVE  /\ \A u \in Thread : u # t => pc'[u] = pc[u] /\ loaded'[u] = loaded[u]
           /\ \A u \in Caller : u # t => key'[u] = key[u] /\ answer'[u] = answer[u]
           /\ UNCHANGED <<degradeOpts, todo, list, ready, refused>>
<1> USE ThreadKinds DEF watch, adapter, local, Go, TypeOK
<1>1. CASE Find(t)
  BY <1>1 DEF Find
<1>2. CASE Lock(t)
  BY <1>2 DEF Lock
<1>3. CASE Open(t)
  BY <1>3 DEF Open
<1>4. CASE OpenFails(t)
  BY <1>4 DEF OpenFails
<1>5. CASE StartWaiting(t)
  BY <1>5 DEF StartWaiting
<1>6. CASE Pass(t)
  BY <1>6 DEF Pass
<1>7. CASE WaitReady(t)
  BY <1>7 DEF WaitReady
<1>8. CASE Read(t)
  BY <1>8 DEF Read
<1> QED BY <1>1, <1>2, <1>3, <1>4, <1>5, <1>6, <1>7, <1>8 DEF Request

LEMMA ConfigurerGoes ==
    ASSUME TypeOK, NEW t \in Configurer, Store(t) \/ Reconfigure(t)
    PROVE  /\ \A u \in Thread : u # t => pc'[u] = pc[u] /\ loaded'[u] = loaded[u]
           /\ UNCHANGED <<key, answer, mux, watchers, first, once, adapter>>
BY DEF TypeOK, watch, local, Go, Store, Reconfigure, Collect, Update, Updated

LEMMA CloserGoes ==
    ASSUME TypeOK, NEW t \in Closer, CollectForStop(t) \/ Shutdown(t)
    PROVE  /\ \A u \in Thread : u # t => pc'[u] = pc[u] /\ todo'[u] = todo[u]
           /\ UNCHANGED <<key, answer, loaded, degradeOpts, mux, watchers, watch>>
           /\ UNCHANGED <<run, list, ready, timedOut, refused>>
<1> USE DEF TypeOK, watch, local, adapter, Go
<1>1. CASE CollectForStop(t) \/ AgainStop(t) \/ Stopped(t)
  BY <1>1 DEF CollectForStop, AgainStop, Stopped
<1>2. CASE StopPlan(t)
  BY <1>2 DEF StopPlan, FirstStop
<1>3. CASE CloseClient(t)
  BY <1>3 DEF CloseClient, FirstStop
<1>4. CASE AwaitResult(t)
  BY <1>4 DEF AwaitResult
<1> QED BY <1>1, <1>2, <1>3, <1>4 DEF Shutdown

Telling(k) == FirstList(k) \/ FirstListMissing(k) \/ BecomeReady(k) \/ Poll(k) \/ PlanEnds(k)

LEMMA WatcherGoes ==
    ASSUME TypeOK, NEW k \in Key, Telling(k)
    PROVE  /\ UNCHANGED <<degradeOpts, mux, watchers, watch, local, timedOut>>
           /\ run[k] # "none" /\ run'[k] # "asking"
           /\ \A j \in Key : j # k => run'[j] = run[j] /\ list'[j] = list[j]
BY DEF TypeOK, Telling, FirstList, FirstListMissing, Answered, BecomeReady, Poll, PlanEnds

LEMMA NextCases ==
    ASSUME [Next]_vars
    PROVE  \/ \E t \in Caller : Find(t) \/ Request(t) \/ OpenFails(t)
           \/ \E t \in Configurer : Store(t) \/ Reconfigure(t)
           \/ \E t \in Closer : CollectForStop(t) \/ Shutdown(t)
           \/ \E k \in Key : Telling(k)
           \/ UNCHANGED vars
BY DEF Next, Telling

-----------------------------------------------------------------------------
(* Opening                                                                 *)

LEMMA LockKeeps ==
    ASSUME TypeOK, LockOK, [Next]_vars
    PROVE  /\ LockOK'
           /\ \A k \in Key : run[k] \notin {"none", "asking"} => run'[k] # "asking"
<1> DEFINE Once == \A k \in Key : run[k] \notin {"none", "asking"} => run'[k] # "asking"
<1> SUFFICES LockOK' /\ Once
  OBVIOUS
<1> USE ThreadKinds
<1>1. ASSUME NEW t \in Caller, Find(t) \/ Request(t) \/ OpenFails(t)
      PROVE  LockOK' /\ Once
  <2>0. \A u \in Caller : u # t => pc'[u] = pc[u] /\ key'[u] = key[u]
    BY <1>1, CallerGoes
  <2> USE DEF watch, adapter, local, Go
  <2>1. ASSUME UNCHANGED <<mux, watchers, run>>, pc[t] # "open", pc'[t] # "open"
        PROVE  LockOK' /\ Once
    BY <2>0, <2>1 DEF LockOK
  <2>2. CASE Find(t)
    BY <2>1, <2>2 DEF Find, TypeOK
  <2>3. CASE Lock(t)
    <3>1. UNCHANGED <<watchers, run, key>> /\ mux = NoOne /\ pc[t] = "lock"
      BY <2>3 DEF Lock
    <3>2. CASE pc'[t] = "list" /\ UNCHANGED mux
      BY <2>1, <3>1, <3>2
    <3>3. CASE key[t] \notin watchers /\ mux' = t /\ pc'[t] = "open"
      BY <2>0, <3>1, <3>3 DEF LockOK
    <3> QED BY <2>3, <3>2, <3>3 DEF Lock, OpenedAlready, TypeOK
  <2>4. CASE Open(t)
    <3>1. /\ pc[t] = "open" /\ pc'[t] = "list" /\ mux' = NoOne /\ key' = key
          /\ watchers' = watchers \cup {key[t]} /\ key[t] \in Key
          /\ run' = [run EXCEPT ![key[t]] = "asking"]
      BY <2>4 DEF Open, TypeOK
    <3>2. mux = t /\ key[t] \notin watchers /\ run[key[t]] = "none"
      BY <3>1 DEF LockOK
    <3>3. \A u \in Caller : u # t => pc[u] # "open"
      BY <3>2 DEF LockOK
    <3>4. \A k \in Key : k # key[t] => run'[k] = run[k]
      BY <3>1 DEF TypeOK
    <3>5. \A u \in Caller : pc'[u] # "open"
      BY <2>0, <3>1, <3>3
    <3> QED BY <3>1, <3>2, <3>4, <3>5 DEF LockOK
  <2>5. CASE OpenFails(t)
    <3>1. /\ pc[t] = "open" /\ pc'[t] = "done" /\ mux' = NoOne /\ UNCHANGED <<key, watchers, run>>
      BY <2>5 DEF OpenFails, TypeOK
    <3>2. \A u \in Caller : u # t => pc[u] # "open"
      BY <3>1 DEF LockOK
    <3> QED BY <2>0, <3>1, <3>2 DEF LockOK
  <2>6. CASE StartWaiting(t) \/ Pass(t) \/ WaitReady(t) \/ Read(t)
    BY <2>1, <2>6 DEF StartWaiting, Pass, WaitReady, Read, TypeOK
  <2> QED BY <1>1, <2>2, <2>3, <2>4, <2>5, <2>6 DEF Request
<1>2. ASSUME UNCHANGED <<mux, watchers, run, key>>, \A u \in Caller : pc'[u] = pc[u]
      PROVE  LockOK' /\ Once
  BY <1>2 DEF LockOK
<1>3. ASSUME NEW t \in Configurer, Store(t) \/ Reconfigure(t)
      PROVE  LockOK' /\ Once
  BY <1>2, <1>3, ConfigurerGoes DEF adapter
<1>4. ASSUME NEW t \in Closer, CollectForStop(t) \/ Shutdown(t)
      PROVE  LockOK' /\ Once
  BY <1>2, <1>4, CloserGoes
<1>5. ASSUME NEW k \in Key, Telling(k) PROVE LockOK' /\ Once
  <2>1. UNCHANGED <<mux, watchers, key, pc>> /\ run[k] # "none" /\ run'[k] # "asking"
    BY <1>5, WatcherGoes DEF local
  <2>2. \A j \in Key : j # k => run'[j] = run[j]
    BY <1>5, WatcherGoes
  <2> QED BY <2>1, <2>2 DEF LockOK
<1>6. CASE UNCHANGED vars
  BY <1>2, <1>6 DEF vars, adapter, local
<1> QED BY <1>1, <1>3, <1>4, <1>5, <1>6, NextCases

-----------------------------------------------------------------------------
(* Reconfigurations                                                        *)

LEMMA OptsKeeps ==
    ASSUME OneConfigurer, TypeOK, LockOK, OptsOK, [Next]_vars
    PROVE  OptsOK'
<1> USE ThreadKinds
<1>1. ASSUME \A u \in Configurer : pc'[u] = pc[u] /\ loaded'[u] = loaded[u] /\ todo'[u] = todo[u],
             UNCHANGED <<degradeOpts, watchers, opts>>,
             \A t \in Caller : pc'[t] = "open" =>
                 loaded'[t] = degradeOpts \/ (pc[t] = "open" /\ loaded'[t] = loaded[t])
      PROVE  OptsOK'
  BY <1>1 DEF OptsOK, Collecting, RegisteredOptsCurrent
<1>2. ASSUME NEW t \in Caller, Find(t) \/ Request(t) \/ OpenFails(t)
      PROVE  OptsOK'
  <2>1. /\ \A u \in Thread : u # t => pc'[u] = pc[u] /\ loaded'[u] = loaded[u]
        /\ UNCHANGED <<degradeOpts, todo>>
    BY <1>2, CallerGoes
  <2>2. CASE ~Open(t)
    <3>1. UNCHANGED <<watchers, opts>> /\ (pc'[t] = "open" => loaded'[t] = degradeOpts)
      BY <1>2, <2>2 DEF Find, Request, Lock, OpenFails, StartWaiting, Pass, WaitReady, Read, watch,
                        Go, TypeOK
    <3> QED BY <1>1, <2>1, <3>1
  <2>3. CASE Open(t)
    <3>1. /\ pc[t] = "open" /\ pc'[t] = "list" /\ watchers' = watchers \cup {key[t]}
          /\ opts' = [opts EXCEPT ![key[t]] = loaded[t]] /\ key[t] \in Key
      BY <2>3 DEF Open, Go, TypeOK
    <3>2. opts'[key[t]] = loaded[t] /\ \A k \in Key : k # key[t] => opts'[k] = opts[k]
      BY <3>1 DEF TypeOK
    <3>3. loaded[t] = degradeOpts \/ Collecting
      BY <3>1 DEF OptsOK
    <3>4. ASSUME NEW u \in Configurer, pc[u] = "update" PROVE ~Collecting
      BY <3>4 DEF Collecting, OneConfigurer
    <3>5. ASSUME NEW u \in Configurer
          PROVE  /\ pc'[u] \in {"idle", "collect", "update"}
                 /\ pc'[u] # "idle" => loaded'[u] = degradeOpts'
                 /\ pc'[u] = "update" =>
                       \A k \in watchers' : opts'[k] = degradeOpts' \/ k \in todo'[u]
      <4>1. pc'[u] = pc[u] /\ loaded'[u] = loaded[u] /\ todo'[u] = todo[u]
        BY <2>1
      <4>2. pc[u] = "update" => loaded[t] = degradeOpts
        BY <3>3, <3>4
      <4> QED BY <2>1, <3>1, <3>2, <4>1, <4>2 DEF OptsOK, TypeOK
    <3>6. \A v \in Caller : pc'[v] = "open" => loaded'[v] = degradeOpts' \/ Collecting'
      BY <2>1, <3>1 DEF OptsOK, Collecting
    <3>7. RegisteredOptsCurrent'
      <4> SUFFICES ASSUME \A u \in Configurer : pc'[u] = "idle", NEW k \in watchers'
                   PROVE  opts'[k] = degradeOpts'
        BY DEF RegisteredOptsCurrent
      <4>1. \A u \in Configurer : pc[u] = "idle"
        BY <2>1
      <4>2. ~Collecting
        BY <4>1 DEF Collecting
      <4>3. \A j \in watchers : opts[j] = degradeOpts
        BY <4>1 DEF OptsOK, RegisteredOptsCurrent
      <4> QED BY <2>1, <3>1, <3>2, <3>3, <4>2, <4>3 DEF TypeOK
    <3> QED BY <3>5, <3>6, <3>7 DEF OptsOK
  <2> QED BY <2>2, <2>3
<1>3. ASSUME NEW u \in Configurer, Store(u) \/ Reconfigure(u)
      PROVE  OptsOK'
  <2>1. /\ \A t \in Caller : pc'[t] = pc[t] /\ loaded'[t] = loaded[t]
        /\ UNCHANGED <<mux, watchers>> /\ \A v \in Configurer : v = u
    BY <1>3, ConfigurerGoes DEF OneConfigurer
  <2> USE DEF watch, adapter, local, Go
  <2>2. CASE Store(u)
    <3>1. pc'[u] = "collect" /\ loaded'[u] = degradeOpts'
      BY <2>2 DEF Store, TypeOK
    <3>2. Collecting'
      BY <3>1 DEF Collecting
    <3> QED BY <2>1, <3>1, <3>2 DEF OptsOK, RegisteredOptsCurrent
  <2>3. CASE Collect(u)
    <3>1. /\ pc[u] = "collect" /\ pc'[u] = "update" /\ todo'[u] = watchers /\ mux = NoOne
          /\ UNCHANGED <<degradeOpts, loaded>>
      BY <2>3 DEF Collect, Readable, TypeOK
    <3>2. \A t \in Caller : pc'[t] # "open"
      BY <2>1, <3>1 DEF LockOK
    <3> QED BY <2>1, <3>1, <3>2 DEF OptsOK, RegisteredOptsCurrent
  <2>4. CASE Update(u)
    <3>1. PICK k \in todo[u] :
              opts' = [opts EXCEPT ![k] = loaded[u]] /\ todo' = [todo EXCEPT ![u] = @ \ {k}]
      BY <2>4 DEF Update
    <3>2. /\ pc[u] = "update" /\ UNCHANGED <<pc, degradeOpts, loaded>> /\ loaded[u] = degradeOpts
      BY <2>4 DEF Update, OptsOK
    <3>3. k \in Key /\ opts'[k] = degradeOpts /\ todo'[u] = todo[u] \ {k}
          /\ \A j \in Key : j # k => opts'[j] = opts[j]
      BY <3>1, <3>2 DEF TypeOK
    <3>4. \A j \in watchers : opts'[j] = degradeOpts \/ j \in todo'[u]
      BY <3>2, <3>3 DEF OptsOK, TypeOK
    <3> QED BY <2>1, <3>2, <3>4 DEF OptsOK, RegisteredOptsCurrent, Collecting
  <2>5. CASE Updated(u)
    <3>1. /\ pc[u] = "update" /\ todo[u] = {} /\ pc'[u] = "idle"
          /\ UNCHANGED <<degradeOpts, opts>>
      BY <2>5 DEF Updated, TypeOK
    <3>2. \A j \in watchers : opts[j] = degradeOpts
      BY <3>1 DEF OptsOK
    <3>3. ~Collecting
      BY <2>1, <3>1 DEF Collecting
    <3> QED BY <2>1, <3>1, <3>2, <3>3 DEF OptsOK, RegisteredOptsCurrent
  <2> QED BY <1>3, <2>2, <2>3, <2>4, <2>5 DEF Reconfigure
<1>4. ASSUME NEW t \in Closer, CollectForStop(t) \/ Shutdown(t)
      PROVE  OptsOK'
  BY <1>1, <1>4, CloserGoes DEF watch
<1>5. ASSUME NEW k \in Key, Telling(k) PROVE OptsOK'
  BY <1>1, <1>5, WatcherGoes DEF watch, local
<1>6. CASE UNCHANGED vars
  BY <1>1, <1>6 DEF vars, watch, local
<1> QED BY <1>2, <1>3, <1>4, <1>5, <1>6, NextCases

-----------------------------------------------------------------------------
(* First lists                                                             *)

LEMMA FirstKeeps ==
    ASSUME TypeOK, LockOK, FirstOK, [Next]_vars
    PROVE  FirstOK'
<1> USE ThreadKinds
<1>0. \A k \in Key : list[k] \in Nat
  BY ListsType DEF TypeOK
<1>1. ASSUME UNCHANGED <<run, list, refused, ready, once, timedOut, key, answer>>,
             \A t \in Caller : pc'[t] = pc[t]
      PROVE  FirstOK'
  BY <1>1 DEF FirstOK, Told, EmptyOnlyIfUnready
<1>2. ASSUME NEW t \in Caller, Find(t) \/ Request(t) \/ OpenFails(t)
      PROVE  FirstOK'
  <2> USE DEF watch, adapter, local, Go
  <2>1. /\ \A u \in Caller : u # t =>
              pc'[u] = pc[u] /\ key'[u] = key[u] /\ answer'[u] = answer[u]
        /\ UNCHANGED <<list, ready, refused>>
    BY <1>2, CallerGoes
  <2>2. /\ \A k \in Key : run'[k] = run[k] \/ run'[k] = "asking"
        /\ timedOut \subseteq timedOut'
    BY <1>2 DEF Find, Request, Lock, Open, OpenFails, StartWaiting, Pass, WaitReady, Read, TypeOK
  <2>3. \A k \in Key : run'[k] \in {"told", "polling", "ended"} \/ k \in ready' => Told(k)'
    BY <2>1, <2>2 DEF FirstOK, Told
  <2>4. once \subseteq once' /\ (pc'[t] = "read" => key'[t] \in once')
    BY <1>2 DEF Find, Request, Lock, Open, OpenFails, StartWaiting, Pass, WaitReady, Read, TypeOK,
                MayPass
  <2>5. \A k \in once' : Told(k)' \/ k \in timedOut'
    <3>1. CASE WaitReady(t)
      <4>1. once' = once \cup {key[t]} /\ (key[t] \in ready \/ key[t] \in timedOut')
        BY <3>1 DEF WaitReady
      <4>2. key[t] \in Key /\ once \subseteq Key
        BY DEF TypeOK
      <4> QED BY <2>1, <2>2, <4>1, <4>2 DEF FirstOK, Told
    <3>2. CASE ~WaitReady(t)
      <4>1. once' = once
        BY <1>2, <3>2 DEF Find, Request, Lock, Open, OpenFails, StartWaiting, Pass, Read
      <4> QED BY <2>1, <2>2, <4>1 DEF FirstOK, Told
    <3> QED BY <3>1, <3>2
  <2>6. pc'[t] = "done" /\ answer'[t] = 0 => key'[t] \in timedOut' \cup refused'
    <3>1. CASE Read(t)
      <4>1. /\ pc[t] = "read" /\ answer'[t] = list[key[t]]
            /\ UNCHANGED <<key, timedOut, refused>> /\ key[t] \in Key
        BY <3>1 DEF Read, TypeOK
      <4>2. Told(key[t]) \/ key[t] \in timedOut
        BY <4>1 DEF FirstOK
      <4> QED BY <1>0, <4>1, <4>2 DEF Told
    <3>2. CASE OpenFails(t)
      <4>1. answer'[t] = Failed /\ Failed # 0
        BY <3>2, DiscovererAssumption DEF DiscovererAssumption, OpenFails, TypeOK
      <4> QED BY <4>1
    <3>3. CASE ~Read(t) /\ ~OpenFails(t)
      BY <1>2, <3>3 DEF Find, Request, Lock, Open, StartWaiting, Pass, WaitReady, TypeOK
    <3> QED BY <3>1, <3>2, <3>3
  <2>7. \A u \in Caller : pc'[u] = "read" => key'[u] \in once'
    BY <2>1, <2>4 DEF FirstOK
  <2>8. \A u \in Caller : pc'[u] = "done" /\ answer'[u] = 0 => key'[u] \in timedOut' \cup refused'
    BY <2>1, <2>2, <2>6 DEF FirstOK, EmptyOnlyIfUnready
  <2> QED BY <2>3, <2>5, <2>7, <2>8 DEF FirstOK, EmptyOnlyIfUnready
<1>3. ASSUME NEW t \in Configurer, Store(t) \/ Reconfigure(t)
      PROVE  FirstOK'
  BY <1>1, <1>3, ConfigurerGoes DEF adapter
<1>4. ASSUME NEW t \in Closer, CollectForStop(t) \/ Shutdown(t)
      PROVE  FirstOK'
  BY <1>1, <1>4, CloserGoes DEF watch
<1>5. ASSUME NEW k \in Key, Telling(k) PROVE FirstOK'
  <2>1. /\ UNCHANGED <<once, key, answer, pc, timedOut>>
        /\ \A j \in Key : j # k => run'[j] = run[j] /\ list'[j] = list[j]
    BY <1>5, WatcherGoes DEF watch, local
  <2>2. refused \subseteq refused' /\ ready' \subseteq ready \cup {k} /\ (list[k] > 0 => list'[k] > 0)
    BY <1>0, <1>5 DEF Telling, FirstList, FirstListMissing, Answered, BecomeReady, Poll, PlanEnds,
                      TypeOK
  <2>3. \A j \in Key : Told(j) => Told(j)'
    BY <2>1, <2>2 DEF Told
  <2>4. Told(k)'
    <3>1. CASE FirstList(k)
      BY <3>1 DEF FirstList, Told, TypeOK
    <3>2. CASE FirstListMissing(k)
      BY <3>2 DEF FirstListMissing, Told
    <3>3. CASE BecomeReady(k) \/ Poll(k) \/ PlanEnds(k)
      BY <2>3, <3>3 DEF BecomeReady, Poll, PlanEnds, FirstOK
    <3> QED BY <1>5, <3>1, <3>2, <3>3 DEF Telling
  <2>5. \A j \in Key : run'[j] \in {"told", "polling", "ended"} \/ j \in ready' => Told(j)'
    BY <2>1, <2>2, <2>3, <2>4 DEF FirstOK
  <2>6. \A j \in once' : Told(j)' \/ j \in timedOut'
    BY <2>1, <2>3 DEF FirstOK, TypeOK
  <2> QED BY <2>1, <2>2, <2>5, <2>6 DEF FirstOK, EmptyOnlyIfUnready
<1>6. CASE UNCHANGED vars
  BY <1>1, <1>6 DEF vars, watch, local, adapter
<1> QED BY <1>2, <1>3, <1>4, <1>5, <1>6, NextCases

-----------------------------------------------------------------------------
(* The theorems                                                            *)

DInv == TypeOK /\ LoadedOK /\ LockOK /\ FirstOK

LEMMA InitInv == Init => DInv /\ OptsOK
<1> SUFFICES ASSUME Init PROVE DInv /\ OptsOK
  OBVIOUS
<1>1. TypeOK
  BY InitType
<1>2. LoadedOK /\ LockOK
  BY ThreadKinds DEF Init, LoadedOK, LockOK
<1>3. FirstOK
  BY ThreadKinds DEF Init, FirstOK, EmptyOnlyIfUnready
<1>4. OptsOK
  BY ThreadKinds DEF Init, OptsOK, RegisteredOptsCurrent
<1> QED BY <1>1, <1>2, <1>3, <1>4 DEF DInv

LEMMA NextInv == DInv /\ [Next]_vars => DInv'
BY NextType, LockKeeps, FirstKeeps DEF DInv

(* The lock, the first lists and the types hold together.                  *)
THEOREM DiscovererInvariant == Spec => []DInv
<1>1. Init => DInv
  BY InitInv
<1> QED BY <1>1, NextInv, PTL DEF Spec

(* A watch that runs is never opened again (GetServersWithDC).             *)
THEOREM OneWatchPerKey == Spec => WatchIsOpenedOnce
<1>1. DInv /\ [Next]_vars =>
          [\A k \in Key : run[k] \notin {"none", "asking"} => run'[k] # "asking"]_vars
  BY LockKeeps DEF DInv
<1> QED BY <1>1, DiscovererInvariant, PTL DEF Spec, WatchIsOpenedOnce

(* A request without a list was out of time or out of luck (getList).      *)
THEOREM EmptyForAReason == Spec => []EmptyOnlyIfUnready
<1>1. DInv => EmptyOnlyIfUnready
  BY DEF DInv, FirstOK
<1> QED BY <1>1, DiscovererInvariant, PTL

(* As long as one goroutine reconfigures, its options are in every watch   *)
(* when it has returned, whatever was being opened (UpdateDegradeOpts,     *)
(* newWatch).                                                              *)
THEOREM ReconfigurationArrives == ASSUME OneConfigurer PROVE Spec => []RegisteredOptsCurrent
<1>1. Init => DInv /\ OptsOK
  BY InitInv
<1>2. DInv /\ OptsOK /\ [Next]_vars => DInv' /\ OptsOK'
  BY NextInv, OptsKeeps DEF DInv
<1>3. OptsOK => RegisteredOptsCurrent
  BY DEF OptsOK
<1> QED BY <1>1, <1>2, <1>3, PTL DEF Spec

=============================================================================
