------------------------------ MODULE Discoverer ------------------------------
(***************************************************************************)
(* The discoverer (discovery/discovery.go) and its watches (watch.go) over *)
(* the watchers of the consul and etcd adapters (adapter/consul/watch.go,  *)
(* adapter/etcd/watch.go): requests that open a watch on first use and     *)
(* wait for its first list, reconfigurations that must reach the watches   *)
(* being opened, and shutdowns.                                            *)
(*                                                                         *)
(* A list is identified with the number of lists the adapter has reported  *)
(* for the key so far; Degrade says which of them a watch then serves.     *)
(***************************************************************************)
EXTENDS Naturals, FiniteSets

CONSTANTS
    Adapters,     \* which of "consul" and "etcd" to look at
    Key,          \* service, or service|dc
    Caller,       \* goroutines calling GetServers
    Configurer,   \* goroutines calling UpdateDegradeOpts
    Closer,       \* goroutines calling Shutdown
    NoOne,        \* nobody: the lock is free, no request has waited yet
    NoKey,        \* no watch is being stopped
    Opts,         \* degrade configurations
    NoOpts,       \* a goroutine that needs no options
    Failed,       \* what a request gets when its watch cannot be opened
    MaxLists      \* bound: lists reported per key

Thread == Caller \cup Configurer \cup Closer

ASSUME DiscovererAssumption ==
    /\ Adapters \subseteq {"consul", "etcd"}
    /\ Caller \cap Configurer = {} /\ Caller \cap Closer = {}
    /\ Configurer \cap Closer = {}
    /\ NoOne \notin Thread
    /\ NoKey \notin Key
    /\ Failed \notin Nat
    /\ NoOpts \notin Opts
    /\ MaxLists \in Nat \ {0}

VARIABLES
    kind,         \* the adapter
    degradeOpts,  \* d.degradeOpts
    mux,          \* who holds d.mux for writing
    watchers,     \* keys of d.watchers
    opts,         \* the options each watch's degrade object has
    first,        \* w.once: the request that waits for the first list
    once,         \* keys whose once is done
    run,          \* the goroutine of each adapter watcher
    list,         \* the list each watch serves, 0 before the first
    ready,        \* keys whose w.ready is closed
    closed,       \* keys whose w.closed is set
    errCh,        \* keys with an unread result of RunWithConfig
    timedOut,     \* keys whose WaitReady has timed out
    refused,      \* keys whose first query has brought no list
    pc,           \* the next section of each goroutine
    key,          \* the key each request is about
    loaded,       \* the options a goroutine has loaded or was given
    answer,       \* what each request was last given
    todo,         \* watches a goroutine still has to update or stop
    stopping      \* the watch a goroutine is stopping

watch == <<opts, first, once>>
adapter == <<kind, run, list, ready, closed, errCh, timedOut, refused>>
local == <<pc, key, loaded, answer, todo, stopping>>
vars == <<degradeOpts, mux, watchers, watch, adapter, local>>

Init ==
    /\ kind \in Adapters
    /\ degradeOpts \in Opts
    /\ mux = NoOne
    /\ watchers = {}
    /\ opts = [k \in Key |-> degradeOpts]
    /\ first = [k \in Key |-> NoOne]
    /\ once = {}
    /\ run = [k \in Key |-> "none"]
    /\ list = [k \in Key |-> 0]
    /\ ready = {} /\ closed = {} /\ errCh = {}
    /\ timedOut = {} /\ refused = {}
    /\ pc = [t \in Thread |-> "idle"]
    /\ key \in [Caller -> Key]
    /\ loaded = [t \in Thread |-> NoOpts]
    /\ answer = [t \in Caller |-> 0]
    /\ todo = [t \in Thread |-> {}]
    /\ stopping = [t \in Closer |-> NoKey]

Go(t, label) == pc' = [pc EXCEPT ![t] = label]

-----------------------------------------------------------------------------
(* GetServersWithDC                                                        *)

(* The watch is looked up under the read lock.                             *)
Find(t) ==
    /\ pc[t] \in {"idle", "done"}
    /\ mux = NoOne
    /\ \E k \in Key :
          /\ key' = [key EXCEPT ![t] = k]
          /\ Go(t, IF k \in watchers THEN "list" ELSE "lock")
    /\ answer' = [answer EXCEPT ![t] = 0]
    /\ UNCHANGED <<degradeOpts, mux, watchers, watch, adapter, loaded, todo, stopping>>

(* And again under the lock, before a watch is opened with the options of  *)
(* that moment.                                                            *)
OpenedAlreadyNever(k) == FALSE
OpenedAlready(k) == k \in watchers

Lock(t) ==
    /\ pc[t] = "lock"
    /\ mux = NoOne
    /\ \/ OpenedAlready(key[t]) /\ Go(t, "list") /\ UNCHANGED <<mux, loaded>>
       \/ /\ ~OpenedAlready(key[t])
          /\ mux' = t
          /\ loaded' = [loaded EXCEPT ![t] = degradeOpts]
          /\ Go(t, "open")
    /\ UNCHANGED <<degradeOpts, watchers, watch, adapter, key, answer, todo, stopping>>

(* newDegrade and the adapter's WatchList, which starts the goroutine of   *)
(* the adapter's watcher.                                                  *)
Open(t) ==
    /\ pc[t] = "open"
    /\ watchers' = watchers \cup {key[t]}
    /\ opts' = [opts EXCEPT ![key[t]] = loaded[t]]
    /\ first' = [first EXCEPT ![key[t]] = NoOne]
    /\ run' = [run EXCEPT ![key[t]] = "asking"]
    /\ mux' = NoOne
    /\ loaded' = [loaded EXCEPT ![t] = NoOpts]
    /\ Go(t, "list")
    /\ UNCHANGED <<kind, degradeOpts, once, list, ready, closed, errCh, timedOut, refused,
                   key, answer, todo, stopping>>

OpenFails(t) ==
    /\ pc[t] = "open"
    /\ mux' = NoOne
    /\ loaded' = [loaded EXCEPT ![t] = NoOpts]
    /\ answer' = [answer EXCEPT ![t] = Failed]
    /\ Go(t, "done")
    /\ UNCHANGED <<degradeOpts, watchers, watch, adapter, key, todo, stopping>>

-----------------------------------------------------------------------------
(* watch.getList                                                           *)

(* The first request waits for the adapter, those that come meanwhile wait *)
(* for the first, later ones do not wait at all.                           *)
MayPassUnlessNew(k) == first[k] # NoOne
MayPass(k) == k \in once

StartWaiting(t) ==
    /\ pc[t] = "list"
    /\ first[key[t]] = NoOne
    /\ first' = [first EXCEPT ![key[t]] = t]
    /\ Go(t, "wait")
    /\ UNCHANGED <<degradeOpts, mux, watchers, opts, once, adapter, key, loaded, answer,
                   todo, stopping>>

Pass(t) ==
    /\ pc[t] = "list"
    /\ MayPass(key[t])
    /\ Go(t, "read")
    /\ UNCHANGED <<degradeOpts, mux, watchers, watch, adapter, key, loaded, answer, todo,
                   stopping>>

(* WaitReady: one second at most, and that may be over at any time.        *)
TimeNeverUp == FALSE
TimeIsUp == TRUE

WaitReady(t) ==
    /\ pc[t] = "wait"
    /\ \/ key[t] \in ready /\ UNCHANGED timedOut
       \/ TimeIsUp /\ timedOut' = timedOut \cup {key[t]}
    /\ once' = once \cup {key[t]}
    /\ Go(t, "read")
    /\ UNCHANGED <<kind, degradeOpts, mux, watchers, opts, first, run, list, ready, closed,
                   errCh, refused, key, loaded, answer, todo, stopping>>

Read(t) ==
    /\ pc[t] = "read"
    /\ answer' = [answer EXCEPT ![t] = list[key[t]]]
    /\ Go(t, "done")
    /\ UNCHANGED <<degradeOpts, mux, watchers, watch, adapter, key, loaded, todo,
                   stopping>>

-----------------------------------------------------------------------------
(* UpdateDegradeOpts                                                       *)

Store(t) ==
    /\ pc[t] = "idle"
    /\ degradeOpts' \in Opts
    /\ loaded' = [loaded EXCEPT ![t] = degradeOpts']
    /\ Go(t, "collect")
    /\ UNCHANGED <<mux, watchers, watch, adapter, key, answer, todo, stopping>>

(* The watches are collected under the read lock and updated after it, in  *)
(* any order, each in one step of its own.                                 *)
ReadableUnlocked == TRUE
Readable == mux = NoOne

Collect(t) ==
    /\ pc[t] = "collect"
    /\ Readable
    /\ todo' = [todo EXCEPT ![t] = watchers]
    /\ Go(t, "update")
    /\ UNCHANGED <<degradeOpts, mux, watchers, watch, adapter, key, loaded, answer,
                   stopping>>

Update(t) ==
    /\ pc[t] = "update"
    /\ \E k \in todo[t] :
          /\ opts' = [opts EXCEPT ![k] = loaded[t]]
          /\ todo' = [todo EXCEPT ![t] = @ \ {k}]
    /\ UNCHANGED <<degradeOpts, mux, watchers, first, once, adapter, pc, key, loaded,
                   answer, stopping>>

Updated(t) ==
    /\ pc[t] = "update"
    /\ todo[t] = {}
    /\ loaded' = [loaded EXCEPT ![t] = NoOpts]
    /\ Go(t, "idle")
    /\ UNCHANGED <<degradeOpts, mux, watchers, watch, adapter, key, answer, todo,
                   stopping>>

-----------------------------------------------------------------------------
(* Shutdown                                                                *)

CollectForStop(t) ==
    /\ pc[t] = "idle"
    /\ mux = NoOne
    /\ todo' = [todo EXCEPT ![t] = watchers]
    /\ Go(t, "stop")
    /\ UNCHANGED <<degradeOpts, mux, watchers, watch, adapter, key, loaded, answer,
                   stopping>>

(* Stop of the adapter's watcher: only the first call does anything, any   *)
(* other one returns an error, which is logged.                            *)
StoppedAlreadyNever(k) == FALSE
StoppedAlready(k) == k \in closed

AgainStop(t) ==
    /\ pc[t] = "stop"
    /\ \E k \in todo[t] :
          /\ StoppedAlready(k)
          /\ todo' = [todo EXCEPT ![t] = @ \ {k}]
    /\ UNCHANGED <<degradeOpts, mux, watchers, watch, adapter, pc, key, loaded, answer,
                   stopping>>

FirstStop(t, k) ==
    /\ pc[t] = "stop"
    /\ k \in todo[t]
    /\ ~StoppedAlready(k)
    /\ todo' = [todo EXCEPT ![t] = @ \ {k}]
    /\ closed' = closed \cup {k}
    /\ UNCHANGED <<kind, degradeOpts, mux, watchers, watch, run, list, ready, errCh,
                   timedOut, refused, key, loaded, answer>>

(* consul: the plan is stopped, and its result awaited.                    *)
StopPlan(t) ==
    /\ kind = "consul"
    /\ \E k \in todo[t] : FirstStop(t, k) /\ stopping' = [stopping EXCEPT ![t] = k]
    /\ Go(t, "await")

(* etcd: the watch is cancelled and the client closed.                     *)
CloseClient(t) ==
    /\ kind = "etcd"
    /\ \E k \in todo[t] : FirstStop(t, k)
    /\ UNCHANGED <<stopping, pc>>

AwaitResult(t) ==
    /\ pc[t] = "await"
    /\ stopping[t] \in errCh
    /\ errCh' = errCh \ {stopping[t]}
    /\ stopping' = [stopping EXCEPT ![t] = NoKey]
    /\ Go(t, "stop")
    /\ UNCHANGED <<kind, degradeOpts, mux, watchers, watch, run, list, ready, closed, timedOut,
                   refused, key, loaded, answer, todo>>

Stopped(t) ==
    /\ pc[t] = "stop"
    /\ todo[t] = {}
    /\ Go(t, "idle")
    /\ UNCHANGED <<degradeOpts, mux, watchers, watch, adapter, key, loaded, answer, todo,
                   stopping>>

-----------------------------------------------------------------------------
(* The goroutine of the adapter's watcher                                  *)

(* The first query, which may fail; its list is handed on before ready is  *)
(* closed.  What brings no list counts as refused.                         *)
Answered(k) ==
    /\ run[k] = "asking"
    /\ run' = [run EXCEPT ![k] = "told"]
    /\ UNCHANGED <<kind, degradeOpts, mux, watchers, watch, ready, closed, errCh,
                   timedOut, local>>

FirstList(k) ==
    /\ Answered(k)
    /\ list' = [list EXCEPT ![k] = 1]
    /\ UNCHANGED refused

(* An error, or, in etcd, a service without keys.                          *)
FirstListMissing(k) ==
    /\ Answered(k)
    /\ refused' = refused \cup {k}
    /\ UNCHANGED list

(* Consul's goroutine goes on to its plan; etcd's is done.                 *)
BecomeReady(k) ==
    /\ run[k] = "told"
    /\ ready' = ready \cup {k}
    /\ run' = [run EXCEPT ![k] = IF kind = "consul" THEN "polling" ELSE "ended"]
    /\ UNCHANGED <<kind, degradeOpts, mux, watchers, watch, list, closed, errCh, timedOut,
                   refused, local>>

(* Consul's plan reports a list whenever the service has changed, until it *)
(* is stopped.  Nobody reads the watch channel of etcd.                    *)
Poll(k) ==
    /\ run[k] = "polling"
    /\ k \notin closed
    /\ list[k] < MaxLists
    /\ list' = [list EXCEPT ![k] = @ + 1]
    /\ UNCHANGED <<kind, degradeOpts, mux, watchers, watch, run, ready, closed, errCh, timedOut,
                   refused, local>>

PlanEnds(k) ==
    /\ run[k] = "polling"
    /\ k \in closed
    /\ errCh' = errCh \cup {k}
    /\ run' = [run EXCEPT ![k] = "ended"]
    /\ UNCHANGED <<kind, degradeOpts, mux, watchers, watch, list, ready, closed, timedOut,
                   refused, local>>

-----------------------------------------------------------------------------

Request(t) ==
    \/ Lock(t) \/ Open(t) \/ StartWaiting(t) \/ Pass(t) \/ WaitReady(t) \/ Read(t)
Reconfigure(t) == Collect(t) \/ Update(t) \/ Updated(t)
Shutdown(t) ==
    \/ AgainStop(t) \/ StopPlan(t) \/ CloseClient(t) \/ AwaitResult(t) \/ Stopped(t)

Next ==
    \/ \E t \in Caller : Find(t) \/ Request(t) \/ OpenFails(t)
    \/ \E t \in Configurer : Store(t) \/ Reconfigure(t)
    \/ \E t \in Closer : CollectForStop(t) \/ Shutdown(t)
    \/ \E k \in Key : \/ FirstList(k) \/ FirstListMissing(k) \/ BecomeReady(k)
                       \/ Poll(k) \/ PlanEnds(k)

Spec == Init /\ [][Next]_vars

(* Goroutines run, a lock that is free again and again is got in the end,  *)
(* time passes and stopped plans end.  The first query need never be       *)
(* answered: it has no timeout.                                            *)
Fairness ==
    /\ \A t \in Caller : /\ WF_vars(Request(t) \/ OpenFails(t))
                         /\ SF_vars(Lock(t))
    /\ \A t \in Configurer : WF_vars(Reconfigure(t)) /\ SF_vars(Collect(t))
    /\ \A t \in Closer : WF_vars(Shutdown(t))
    /\ \A k \in Key : WF_vars(BecomeReady(k)) /\ WF_vars(PlanEnds(k))

FairSpec == Spec /\ Fairness

-----------------------------------------------------------------------------
(* Properties                                                              *)

(* Every variable holds what the Go variable it stands for can hold.       *)
TypeOK ==
    /\ kind \in Adapters
    /\ degradeOpts \in Opts
    /\ mux \in Caller \cup {NoOne}
    /\ watchers \subseteq Key
    /\ opts \in [Key -> Opts]
    /\ first \in [Key -> Caller \cup {NoOne}]
    /\ once \subseteq Key
    /\ run \in [Key -> {"none", "asking", "told", "polling", "ended"}]
    /\ list \in [Key -> 0..MaxLists]
    /\ ready \subseteq Key /\ closed \subseteq Key /\ errCh \subseteq Key
    /\ timedOut \subseteq Key /\ refused \subseteq Key
    /\ pc \in [Thread -> {"idle", "lock", "open", "list", "wait", "read", "done",
                          "collect", "update", "stop", "await"}]
    /\ key \in [Caller -> Key]
    /\ loaded \in [Thread -> Opts \cup {NoOpts}]
    /\ answer \in [Caller -> 0..MaxLists \cup {Failed}]
    /\ todo \in [Thread -> SUBSET Key]
    /\ stopping \in [Closer -> Key \cup {NoKey}]

(* A reconfiguration reaches every watch of GetServers, also one that is   *)
(* being opened with the options from before: newWatch loads them under    *)
(* the lock that UpdateDegradeOpts needs after it has stored its own.      *)
RegisteredOptsCurrent ==
    (\A t \in Configurer : pc[t] = "idle") => \A k \in watchers : opts[k] = degradeOpts

(* Requests that race for a new key open one watch: none that runs already *)
(* is opened again (GetServersWithDC's second look).                       *)
WatchIsOpenedOnce ==
    [][\A k \in Key : run[k] \notin {"none", "asking"} => run'[k] # "asking"]_vars

(* A request that gets no list had to: the adapter did not answer in time  *)
(* or its first query brought none.  Requests that find another one        *)
(* waiting wait with it (sync.Once in getList).                            *)
EmptyOnlyIfUnready ==
    \A t \in Caller :
        pc[t] = "done" /\ answer[t] = 0 => key[t] \in timedOut \cup refused

(* Every request returns, even if the registry never answers.              *)
RequestsReturn == \A t \in Caller : pc[t] # "idle" ~> pc[t] \in {"idle", "done"}

(* Shutdown returns, however many are called, provided that consul answers *)
(* the first queries: its Stop waits for a result that is sent once.       *)
ShutdownReturns ==
    (kind = "etcd" \/ \A k \in Key : run[k] = "asking" ~> run[k] # "asking")
        => \A t \in Closer : pc[t] # "idle" ~> pc[t] = "idle"

=============================================================================
