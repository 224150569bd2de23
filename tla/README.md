# A verification of xdiscovery

xdiscovery is a Go library for service discovery.  An *adapter* (consul, eds,
etcd) reports the nodes of a service; a *degrade* object per service decides
which nodes callers are served, and protects them when the registry suddenly
loses many; a *discoverer* opens one watch per service on first use; a
*CheckChange* keeps the load balancer built from the list that was served; a
*recover* wrapper can pin the answers to a saved version.  This directory holds
TLA+ models of that machinery, the TLC runs that check them on small instances
and proofs, checked by TLAPS, for every instance.

## 1. Inventory

| component | code | state | operations | talks to |
|---|---|---|---|---|
| degrade | `discovery/downgrade.go` | status, latest and applied list, two history queues, cancel function, options | `onUpdateList`, `updateOpts`, `startSelfProtection`, `stopSelfProtection`, `pingLoop`, `continueDoPing`, `getList` | called by the adapter's goroutine(s), by reconfigurations and by its own loops |
| loopList | `discovery/looplist.go` | a queue of dated lists | `push`, `back`, `delTimeout`, `reset` | two of them in each degrade, sharing elements |
| discoverer, watch | `discovery/discovery.go`, `watch.go` | watches by key, options | `GetServers`, `WatchList`, `Watch`, `UpdateDegradeOpts`, `Shutdown`, `getList` | opens the adapter's watchers, owns the degrades |
| consul watcher | `adapter/consul/watch.go` | ready, closed, result channel, version | first query, plan, `WaitReady`, `Stop` | calls `onUpdateList` from one goroutine at a time |
| eds adapter, watcher | `adapter/eds/eds.go`, `watch.go` | endpoints by cluster, watchers, subscription | `WatchList`, `onEndpointsUpdate`, `updateService` | calls `onUpdateList` from callers' goroutines and the receive thread |
| ADS client | `adapter/eds/xds/v2` | stream, subscription, stopped | send and receive threads, `reconnect`, `Stop` | the control plane; calls `onEndpointsUpdate` |
| etcd watcher | `adapter/etcd/watch.go` | ready, closed | one query, `WaitReady`, `Stop` | reports at most one list |
| registries | `adapter/consul/registry.go`, `adapter/etcd/registry.go` | the service, its options, deRegistered, the lease | `init`, `Update`, `Deregister` | the agent, the store |
| CheckChange | `check_change.go` | three compared values, the value, isUpdate | `GetValue`, its background build | called by every request |
| loadBalance | `loadbalance/loadbalance.go` | one CheckChange per service | `Next` | discovery, CheckChange, wrr |
| wrr | `loadbalance/wrr/wrr.go` | servers, cumulative weights | `UpsertServer`, `RemoveServer`, `NextServer` | - |
| WithRecoverDiscovery | `wrap.go` | services asked for, recovered version, RWMutex | `GetServers`, `GetAllWatchedServices`, `SetRecover` | the wrapped discovery |
| watchOnUpdate | `discovery/watch_on_update.go` | the previous list | `onUpdateList` | the callback of `Watch` |

Not state machines: `ParseService`, the factory, the option and type
declarations, logging, metrics, address lookup, the mock and the manual test.

What is hard here, and what correctness means for each part:

* **degrade.**  `onUpdateList` is four critical sections with decisions between
  them; each session of protection has a loop that reads status and lists,
  checks health for seconds and then writes; sessions end from three kinds of
  goroutine, and the context of a loop is cancelled only after the lock is
  released.  Correct means: protection always has a live loop that can end it;
  what is served fits the mode; an update in protection changes nothing else;
  panic serves one list; every change is visible in the three values readers
  compare; protection and panic end when their reasons have gone.
* **loopList.**  The queues share elements that `push` rewrites.  Correct means
  that they agree on the newest element, grow only at the archive interval,
  never beyond what the window needs, and never lose their only old datum.
* **CheckChange.**  Readers with different lists update one cache.  Correct
  means that a request which finds the values of its list in the cache finds the
  balancer of that very list, and that the cache catches up with what is served.
* **discoverer.**  Requests race to open a watch while options change and
  shutdowns run.  Correct means one watch per key, the current options on every
  registered watch, an awaited first list and calls that return.
* **eds adapter.**  A response and `WatchList` interleave.  Correct means no
  change of a watched cluster is missed and no version is handed out twice.
* **recover wrapper.**  A listing holds a read lock and calls what takes it
  again.  Correct means that a listing is of one moment, and that calls return.
* **ADS client.**  Streams break; the receive thread notices, only the send
  thread replaces; a connection is retried and stopped from elsewhere.  Correct
  means that endpoints never go back, are learnt in the end, and that after
  `Stop` no thread, stream or connection stays behind.
* **registries.**  Concurrent updates and a deregistration share atomic
  variables, and every call to the registry may take effect without an answer.
  Correct means that the entry is of one call, that the registry takes it out
  when the service dies, and that it does not outlive its deregistration.
* **watchOnUpdate, wrr.**  A callback may fail between the events of a list, and
  a balancer keeps positions that every removal shifts.  Correct means that the
  events lead to the list and that servers are picked as their weights say.

`PROJECT.json` lists these hazards one by one, each at its line.

## 2. Modules

| module | models | composed of |
|---|---|---|
| `LoopList` | the operators of one queue and of a push to two | - |
| `History` | the two queues, abstractly: one action per operation of degrade on them | `LoopList` |
| `Degrade` | the degrade object with all its goroutines | `LoopList`; refines `History` and `Served` |
| `Served` | what a reader of a degrade object may see, abstractly | - |
| `Lookup` | requests through `loadBalance.Next`, the recover wrapper's answer and `CheckChange.GetValue` | `Served`: the degrade object under the requests is the abstract one |
| `Caching` | a history variable over `Lookup`: who holds a list whose session or recovery is over | `Lookup` |
| `EdsAdapter` | the eds adapter with its watchers | - |
| `Discoverer` | the discoverer and its watches over the consul or the etcd watcher | - |
| `AdsClient` | the send thread, the receive thread, `Start` and `Stop` of the ads client | - |
| `Registry` | `Register`, `Update` and `Deregister` of consul and of etcd | - |
| `Wrr` | the operators of the weighted balancer | - |
| `Subscriber` | `watchOnUpdate` with a callback that keeps a balancer | `Wrr` |
| `Recover` | the recover wrapper around its RWMutex | - |
| `MC...` | instances of the above for TLC | |
| `HistoryProofs`, `DegradeProofs`, `EdsAdapterProofs`, `DiscovererProofs`, `RecoverProofs`, `RegistryProofs`, `AdsClientProofs` | lemmas and theorems about the module of that name | `DegradeProofs` instantiates `HistoryProofs` |
| `CallerProofs` | lemmas and theorems about what callers get: `Caching` and, under it, `Lookup`; `Subscriber` and, under it, `Wrr` | - |

`Lookup` over `Served` over `Degrade` is one tower: `Lookup` uses of the degrade
object only what `Served` promises, and the theorem `ReadersSeeServed` says that
`Degrade` keeps the promise for one updater, as long as no reconfiguration
switches protection off (the run `degrade_safety` checks it on an instance).

## 3. State and actions

Each module's header says which processes it has; each VARIABLE is commented
with the Go variable it stands for, and `PROJECT.json` gives the lines of every
definition.  Common conventions:

* One action is one section under a mutex, one atomic load or store that
  matters, or one call that leaves the object.  `pc[p]` names the section that
  goroutine p runs next, and locals that live across sections are variables
  indexed by the goroutine (`call`, `ping` and `taken` in `Degrade`).
* A service is its node, a list of services the set of its nodes.  Order and
  repetition are lost: `listSame` sorts, and adapters report each id once
  (the consul watcher removes repeated ids).  Two nodes may share the
  address that is health-checked (`SelfProtectionID`), and then one of them,
  from the latest list where possible, is checked: `Aggregates`.
* Thresholds are percentages and the comparison `Below` multiplies out the
  division, with the floating-point answer for an empty baseline.
* Timestamps are seconds (`time.Now().Unix()`) and intervals are what the caller
  wrote, nanoseconds if it used `time.Second`.  That is what the code compares.
* Fused steps of `Degrade`: `getOpts` of `stopSelfProtection` (236) with the
  locked section after it, `getOpts` of `pingLoop` (270) with its read-locked
  section, the `time.Now()` at 182 with the section at 185, and the two clock
  readings of a `back` pair at 273 and 274.
* A node's health is a choice of the environment at each check (`Health`) until
  `Settle` fixes it; `Settle` is there for the liveness properties only.
* Where two adapters do the same thing in two ways, a variable `kind` that never
  changes says which one a behaviour is about, and an action that only one of
  them has names it in its guard (`Discoverer`, `Registry`).
* The eds content of a cluster is the number of times it has changed, so the
  model has no return to an earlier content.  A response with an invalid
  endpoint changes nothing and is left out.
* `Discoverer` identifies a list with the number of lists the adapter has
  reported; 0 is "none yet", for which a service with `InitHistoryEndpoints`
  is served its initial list.  Consul's watcher polls and its `Stop` waits for
  a result; etcd's asks once and its `Stop` waits for nothing.  The eds
  watcher's `WaitReady` returns at once, so it adds nothing.
* `AdsClient` numbers the streams as they are opened and keeps the responses
  that wait on each of them.  The control plane is one server that answers on
  the stream it was asked on with what it has then.  One cluster is looked at;
  whether the subscription names it changes at any time, as `WatchList` (in
  `EdsAdapter`) decides.
* `Registry` identifies the service and the options of a call with the number of
  the call, so that "of one call" and "of a later call" can be said.  A call to
  the registry is `ok`, `unanswered` (it took effect, the caller saw an error) or
  `lost`.
* `Subscriber` takes a list as a function from its nodes to their weights: a node
  that has changed is one whose weight has.  The callback is the caller's; the
  one modelled upserts and removes servers of a `Wrr`, and either drops or passes
  on the error of a removal (`strict`).
* `Recover` models Go's RWMutex: a writer announces itself, keeps new readers
  out and waits for those inside.
* The balancer of a list is identified with the list it was built from.  What a
  request returns is not kept: it is the cached balancer, or the one it has just
  built, or an error (the recovered version lacks the service, the watch cannot be
  opened, `newValue` fails), and then the next request begins.  `NewCheckChange`
  builds from an empty list, which cannot fail; if it could, `Next` would return
  with `l.mu` held (`loadbalance.go:71`).
* `Caching` takes each step of `Lookup` and notes in `outlived` which holders of
  lists (the cache, the build in the background, the requests) are left with one of
  a session or a recovery that ends with the step.  A mark goes along when a list
  is passed on, and away when its holder gets another.

## 4. Runs

Passing runs (each bound is a CONSTANT of the cfg):

| run | what it shows | bounds |
|---|---|---|
| `history` | `SameFront`, `ArchivesAreSpaced`, `ArchivesAreBounded`, `OldDatumIsKept`: the queues keep what comparisons need | window 5 and interval 2 in the unit that is compared, 14 ticks: several archives and evictions; two lists |
| `degrade_safety` | `PanicServesBaseline`, `ChangeIsVisible`, and the refinements `ImplementsHistory`, `ImplementsServed` | one updater, one configurer with two thresholds, 3 updates, 3 nodes of which two share an address, 3 loops, nodes flagged offline, one clock tick |
| `degrade_reconfig` | `ProtectionIsOwned`, `RunModeMatchesStatus`, `NormalServesAdapter`, `PanicIsFrozen`, `AbnormalOnlyRecords` | one updater, one configurer with options on and off, 3 updates, 3 loops |
| `degrade_live` | `ProtectionEnds`, `PanicEnds`, `CancelledLoopsEnd`, `UpdatesTakeEffect` | as before with 2 updates and 2 loops, health settles on all, two or no nodes |
| `lookup` | `HitIsOwnList`, `CacheCatchesUp` | two requests at a time, lists with and without a node, two versions (so one session of protection), one recovery, builds that fail |
| `eds` | `SubscribedIsWatched`, `NoUpdateMissed`, `VersionsAreDistinct` | two callers and the receive thread over two clusters, 3 responses |
| `discoverer` | `RegisteredOptsCurrent`, `EmptyOnlyIfUnready`, `WatchIsOpenedOnce`, `RequestsReturn`, `ShutdownReturns` | consul and etcd, two requests, a configurer with two sets of options, a closer, one key |
| `recover` | `ListingIsAtomic`, `HangsOnlyOnRecursion` | two requests or listings, one operator, two services, no recovered version or one that lacks a service |
| `ads` | `NeverGoesBack`, `EndpointsAreLearnt`, `StopEndsClient` | two changes of the endpoints, two faults (so up to three streams), one response waiting on a stream |
| `registry` | `OnlyLateEntries`, `OneCallIsRegistered`, `EntryIsTied`, `LeasedEntryGoes` | consul and etcd, two goroutines with 3 updates between them, two failed calls or a lost lease |
| `subscriber` | `EventsLeadToList`, `PicksFollowWeights` | 3 nodes of weight 0 (taken as 1) or 2, 3 lists, two failures of the callback |

Three updates are what it takes to enter protection, be overtaken in it and be
accepted again; three nodes give ratios on both sides of both thresholds; three
loops give one that is cancelled, one that runs and one yet to start.  Versions
saturate at `MaxVersion` so that loops can go round for ever in a finite
instance; properties that compare versions leave the saturated ones out.
The run `lookup` keeps its versions below `MaxVersion` instead.  The exceptions of
`HitIsOwnList` do not occur within its bounds, but they are needed: without the
conjunct about `outlived` TLC finds it violated with one request at a time and
either `MaxVersion` = 4 or two recoveries of two lists, and not violated with it.
Two faults are enough to break a stream and its successor, to lose a call and
the one that would repair it, and to interrupt a list and the one that repeats
it; a third list is one that does not repeat it.  With three lists a server is
removed from the middle and the ones behind it are removed later, which is when
a wrong index shows.

A run whose property the code does not have (section 8): `claim_recover`.

`CHECK_DEADLOCK FALSE` appears where the bounds on inputs (reports, watches,
ticks, recoveries, updates, lists) let the model come to rest, and in `recover`, where the code
itself can stop for good.  Symmetry is used in safety runs only (loops, callers
and clusters, nodes), never with liveness.

Every property has a mutant in `PROJECT.json`: a change a programmer might make
to one definition, under which TLC finds the property violated.

## 5. Fairness

* `Degrade`: weak fairness of each goroutine, which is what the Go scheduler and
  timers give.  Strong fairness of `Quit`: in `pingLoop`'s select both the
  timer and the cancelled context may be ready each time round, and Go picks a
  ready case at random, so the timer is not picked for ever.
* `Lookup`: weak fairness of requests; strong fairness of `Succeeds` (an
  `UpdateNow` of any request, or `Built`) says that `newValue` does not fail for
  ever.  Nothing is assumed of the
  degrade object or the operators.
* `Discoverer`, `Recover`: strong fairness of the steps that take a lock, because
  a Go mutex hands itself to a waiter that has starved for a millisecond, and an
  RWMutex lets waiting readers in after each writer.  The registry's first query
  has **no** fairness: it has no timeout.  `RequestsReturn` holds nonetheless
  (`WaitReady` times out); `ShutdownReturns` is stated under the condition that
  the queries are answered, since consul's `Stop` waits for the goroutine that asks; etcd's does not.
* `AdsClient`: weak fairness of the threads.  Strong fairness of the two tickers
  and the close signal in the send thread's select: each is ready again and
  again, and Go picks a ready case at random.  The control plane answers what
  reaches it.  A blocked `Recv` is not helped: the receive thread goes on only
  when there is a response or the stream has ended.  Faults are finitely many,
  for a control plane that refuses for ever teaches nobody anything.
* `Registry`: goroutines run and calls return (with an error, if need be); a
  lease that nobody keeps alive runs out.  Nothing says that calls succeed.
* `Subscriber`, `EdsAdapter`, `History`: no liveness is stated, so no fairness.

## 6. Proofs

The proofs hold for all values of the constants that satisfy the named
assumptions of the modules (the kinds of goroutine are disjoint, lists are sets
of nodes, bounds are naturals).  Beyond these, some theorems assume

* `OneUpdater`: updates of one degrade object come one at a time, which consul and
  etcd guarantee with `compareServiceMu` (and eds does not, section 8);
* `NeverSwitchedOff`: thresholds may be reconfigured at any time, but not to
  `Flag` = 1, or there is no configurer (`PanicAlwaysServesBaseline`,
  `ReadersSeeServed`, `ChangesAreVisible`);
* one configurer of the discoverer at a time (`ReconfigurationArrives`);
* one set of options whose window is not negative (the theorems on how archives
  are spaced): the properties measure a queue with the options it was built with.

Each theorem has an inductive invariant that says what the property leaves open.
`degrade` and its queues:

* `TypeCorrect`: every step preserves `TypeOK`, which is inductive by itself and on
  which all the other proofs rest.
* `ProtectionAlwaysOwned`: `ProtectionIsOwned` is not inductive, because a cancel
  function taken out of the object lives on in `taken` until it is called, and
  nothing in the invariant says what it belongs to.  `Owned` adds
  `CancelsStarted`: every cancel function held anywhere belongs to a loop that
  has been started.  A loop that starts is thus nobody's.
* `RunModeAlwaysMatches`: with `Owned`, a loop that publishes is
  not cancelled and sees the status it decided for; `Labelled` carries the mode
  that the latest adapter list never has.
* `NormalAlwaysServesAdapter`: the exception in the property (an update on its
  way) is what makes it inductive.
* `PanicStaysFrozen`: every step that changes the served list in panic also
  changes the status, by the guards of `Publish` and by `LeaveProtection`.
* `AbnormalAlwaysOnlyRecords`: `Sequential` says that no
  update is past its first section while protection is on (entering it is the
  last step of an update), and that an update on its way carries the latest list.
* `PanicAlwaysServesBaseline`: `OneSession` says that every loop at work is the one
  that owns protection, and that a loop in panic has taken its baselines.  This
  takes one updater, and that nobody but updates and loops ends a session
  (`Undisturbed`: `updateOpts` stores the options and returns).
* `ReadersSeeServed`, `ChangesAreVisible`: that a loop never hands out a version
  twice or backwards takes `ReaderInv`: reports are recorded in the order of their
  versions (`ReportsInOrder`); a list on its way, and the one a session was started
  for, are not served yet (`NotServedYet`); and the loop that owns protection holds
  a version that has reached what is served and that follows the latest
  list (`RoundsAdvance`).  Each of the steps of updates, loops and stops
  then is a step of `Served` or leaves what readers see alone.
* `QueuesImplementHistory`: each step of `Degrade` maps to an operation of
  `History` or a stutter.  What `HistoryProofs` proves of `History` then carries over
  to the code: `QueuesShareFront` from `FrontIsShared`, and `QueuesAreArchives` from
  the three theorems that follow.
* `ArchivesAlwaysSpaced`, `ArchivesAlwaysBounded`, `OldDatumAlwaysKept`: to bound the
  length of a queue by the distances of neighbours is an induction.  `Archived`
  says instead that elements i and j are (j - i) intervals apart, which each push
  preserves: it moves every position by one and puts one element a whole interval in
  front, or redates the new one to the time of the one it replaces.  With that
  all but the back fits in the window, and the front is not dated in the future, so
  that what one trim judges too old a later one judges too old.  `PushBothArchived`
  shows why one element can sit in both queues: the second push leaves it the time
  the first one gave it, because the fronts were the same element before.
* What trimming, pushing and pushing to two queues preserve are lemmas of
  `HistoryProofs`.  The cut of `delTimeout` is characterised by the largest position
  that may end the queue (`LargestPosition`), so no induction over queues is needed.

Readers and watches:

* `HitsAreOwnLists`: nothing in the property says what lists there may be.
  `CachingInv` looks at all lists in use (`InUse`: served, reported, recovered, or
  held by someone and not marked): those of the same three values are the same
  (`ToldApart`).  To keep that when a new list comes, `InPlace` says where the older
  ones stand: reports have no later version than the latest (`OfReports`), lists of
  the session none later than the served one, and where versions are equal only a
  run mode that the session has passed (`OfSession`), and a recovered list is the
  one that is recovered now (`OfRecovery`).  A request or a build only passes on lists
  in use or starts again with none (`FollowersInUse`).  It rests on `Served` alone,
  so that `ReadersSeeServed` carries it over to the degrade object.
* `OnlyWatchedIsSubscribed`: `AskedFor` says of every list a caller still holds that
  it begins the list of clusters, which only grows; `ListedOnce` that this list has
  each watched cluster once.
* `VersionsNeverRepeat`: `Versioned` says of a version given to a thread and not
  delivered yet that nobody else has it.
* `EveryChangeArrives`: `Pending` says who brings the newest endpoints of a watched
  cluster: the receive thread will, a caller is about to, or the watcher has them.
* `OneWatchPerKey`: `LockOK`: whoever opens a watch holds `d.mux`, for a key that has
  none, and a key without a watch has no goroutine.
* `EmptyForAReason`: `FirstOK` says of each channel that is closed, each `sync.Once`
  that is done and each request that is past it what came first: a list, a
  refusal or a timeout.
* `ReconfigurationArrives`: `OptsOK`: the watches that still have older options are
  on the list the configurer works off, and a watch that is being opened has the
  stored options or will be on it, since the list is collected under the lock
  that the opening holds.
* `ListingsAreAtomic`: the readers of the lock are the listings, so nobody writes
  what a listing asks for; `Collected` says what it has so far.
* `EventsAlwaysLeadToList`: the property speaks of the moment a delivery ends, and
  nothing in it says how the nodes came to be there.  `Accounted` does: every node
  served is in the list before, in the one on its way or in one that was cut off
  (`ServedForAReason`); every node of the list before that is not served is missing
  in one of these (`MissedForAReason`); and what a delivery has come to is done
  (`SoFar`).  A delivery that ends has repeated what the ones that were cut off left
  behind, unless the model has noted that it did not (`astray`).
* `PicksAlwaysFollowWeights`: `Indexed` says that the `index` of each server is its
  position and that no server has two, which is what `RemoveServer` relies on when
  it cuts the slice at an index and moves the rest up.  The list then cumulates the
  weights of the servers, the binary search ends at the one server whose share of
  the numbers the drawn one is in (`SearchFinds`: the weights below `li` are never
  above the number and the one at `ri` is), shares are intervals, and an
  interval has as many numbers as the weight it stands for (`WeightsArePicked`).
  `buildServerList` and `nextServer` are recursive functions here, of which nothing
  is known before they are shown to exist (`SumsExist`, `SearchExists`).

What others do with streams and registries:

* `EndpointsNeverGoBack`: `Streams` says that only the newest stream can be alive,
  and that there is at most one more than there were faults; `InOrder`, `Past`,
  `Waiting` and `Handled` order the responses along each stream, from each stream
  to the next, and with what was read and with what the control plane has.  Old streams
  may still hold responses, but the thread that reads goes forward only.
* `DeregisteredIsGone`, `UntiedEntriesAreKnown`: `DeregisterOK` ties the phases of
  `Register`, `Deregister` and the lease to each other.  `CallsAreNotMixed`: `InTurn`
  says what one call has stored and loaded so far, as long as no other overlaps it.

## 7. Only model-checked

Liveness (all of `degrade_live`, `CacheCatchesUp`, `RequestsReturn`,
`ShutdownReturns`, `HangsOnlyOnRecursion`, `EndpointsAreLearnt`,
`StopEndsClient`, `LeasedEntryGoes`) is beyond the prover, for it needs `ENABLED`.
Every other property of the passing runs is a theorem.

The induction theorems of the library take an operator as a parameter, which the
provers cannot instantiate.  The two inductions that are needed, over the lengths
of the balancer's list and of the search's range, are over sets of numbers
instead: `InductionOn` follows from the well-foundedness of `<`, whose theorem has
no such parameter.

The assumptions of the theorems are not there for the proofs' sake: with two
updaters TLC finds each of `AbnormalOnlyRecords`, `PanicServesBaseline`,
`ChangeIsVisible` and `ImplementsServed` violated, and the
last three also with one updater and a configurer that sets `Flag` to 1 (on
instances as small as that of `degrade_safety`).  Section 8 says what goes wrong
with two updaters and two configurers.

## 8. Findings

* `claim_recover`: a listing takes its read lock twice (`wrap.go:81`, `58`); with a
  writer in between, no call ever returns again.

Seen while modelling, not the subject of a run:

* With two updaters (the eds adapter) an update that has read "normal" ends a
  protection that another has entered (`downgrade.go:191`, against the comment at
  152), and serves whatever list is the latest by then, which nobody may have judged
  (242).  `AbnormalOnlyRecords` is checked and proved for one updater.
* A protection ended by the loop changes what is served without telling the
  subscriber (`downgrade.go:318`; `doUpdateList` is only called at 196).
* `stopSelfProtection` cancels after releasing the lock (264).  After a
  reconfiguration the uncancelled loop can publish into the next session.
* `Flag` set to 1 while an update is between its check and `startSelfProtection`
  leaves protection on, and set to 1 before the first report it replaces an
  initial list by the empty one (242).
* The exit test of the loop compares numbers of nodes only (238).
* Panic does not end while the nodes of the stable baseline stay away (403), and
  two listed nodes that share an address keep `listSame` false, since one of them
  is not checked (332): such a session lasts until the adapter drops one of them
  or `Flag` is set to 1.
* `push` compares seconds with nanoseconds (`looplist.go:45`; the default of
  `mod_options.go:35` and the comment at `looplist.go:41` mean minutes), so with
  `time.Minute` a list is archived only when 10^9 times the interval has passed:
  the newest element is overwritten for ever: a queue in effect holds one element,
  the list accepted last under the time of the first one since the queue was reset,
  and the lists before it are gone.  The run `history` works in the unit that is
  compared.
* Lists of different sessions may carry the same watch version, version and run
  mode (`downgrade.go:272`, `298`): the second list of a session that starts from
  version v and the first of one that starts from v + 1.  A CheckChange that was
  not asked in between answers with the old balancer.  In the same way two versions
  recovered one after the other may carry the same three values (`wrap.go:72`
  changes the run mode only).  `ChangeIsVisible` is about the lists of one step to
  the next, and `HitIsOwnList` excepts lists whose session or recovery is over.
* One CheckChange serves a service whatever the tags and the data centre of the
  request (`loadbalance.go:57`): two tags share one balancer.
* Watches opened with `Watch` and `WatchList` are out of reach of
  `UpdateDegradeOpts` and `Shutdown` (`discovery.go:163`).
* Two calls of `UpdateDegradeOpts` at a time store, collect and go through the
  watches each for itself (`discovery.go:130`), so that watches may be left with the
  options of the call that stored first, against `RegisteredOptsCurrent`.  The run
  has one configurer and the theorem says so.
* The etcd watcher never reads its watch channel (`etcd/watch.go:76`).
* `WatchList` of eds hands out its first list after releasing the lock
  (`eds.go:133`): it may overwrite a newer one, under a higher version.
  `NoUpdateMissed` allows for that and for nothing else.
* `Stop` of an eds watcher sets a flag that nothing reads (`eds/watch.go:54`): it
  goes on getting lists, and its cluster can never be watched again.  With `Watch`
  over eds two threads may be in `onUpdateList` of `watchOnUpdate` at once, which
  keeps `previous` without a lock.
* `Stop` of the ads client does not wait for its goroutines, though the comment at
  `adssubscriber.go:198` says so; `StopEndsClient` says that they end.
* etcd's `init` puts the first entry before there is a lease (`etcd/registry.go:175`),
  so nothing takes it out when the service dies, and `Deregister`, which revokes
  the lease, leaves it if no `Update` came in between: `EntryIsTied` and
  `OnlyLateEntries` name the case.  A lost lease is not renewed, and later updates
  fail (`listenLeaseRespChan` only warns).  `CheckTTL`, in nanoseconds, is taken as
  seconds.
* An `Update` of consul that has passed its check registers a service that has been
  deregistered since (`consul/registry.go:61`).  It takes the health check away
  before it registers a new one: a failure in between leaves an entry that nothing
  takes out.
* A `Register` that failed may have left an entry, and returns nothing to
  deregister it with.
* Concurrent calls of `Update` with one service write its `Meta` map unlocked.
* `UpsertServer` of a server that is there keeps the old weight and returns nil
  (`wrr.go:58`): a "modified" event with a new weight has no effect.
  `PicksFollowWeights` is about the weights the balancer has.
* `buildServerList` filters nodes of negative weight and then runs over the
  unfiltered length (`wrr.go:157`).
* A callback of `Watch` that passes on `RemoveServer`'s error can get stuck: a
  repeated "deleted" event fails each time, and `previous` stays.  What an
  interrupted delivery has done is not undone by a later list that does not repeat
  it; `EventsLeadToList` says so much.

## 9. Plan

Order of the work, most important behaviour first.

1. *Done.*  `LoopList`, `History`, `Degrade`, `Served`, `Lookup`, `Caching`, `EdsAdapter`,
   `Discoverer`, `Recover`.
2. *Done.*  `AdsClient`, `Registry`, `Wrr`, `Subscriber`; the etcd watcher in
   `Discoverer`; what is subscribed, in `EdsAdapter`.
3. *Done.*  The proofs of section 6: the refinements of `History` and `Served` by
   `Degrade`, and every safety property of the runs.

What could still be added is what `PROJECT.json` lists as hazards without a property,
each with the reason why there is none.

## 10. Not modelled

* Tags (a pure filter after everything else, `watch.go:45`) and data centres (part
  of the key).
* The content of health checks and their timeouts: a check is a choice of the
  environment.
* `ParseService`, the factory, JSON, logging, metrics, addresses, the mock and the
  manual test: no state that two operations share.
* `Watch` and `WatchList` of the discoverer: they open a watch and return it, and
  the discoverer keeps nothing.
* `Init` of the eds adapter beyond starting the client, and `Shutdown`, which calls
  its `Stop`.
* Negative weights.
* The number of bits of versions (they would have to pass 2^64), and torn accesses
  to the queues under a read lock (`downgrade.go:273`): each section is atomic in
  the model.
