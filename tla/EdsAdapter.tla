------------------------------ MODULE EdsAdapter ------------------------------
(***************************************************************************)
(* The eds adapter (adapter/eds/eds.go, watch.go): one stream of responses *)
(* for all clusters, one watcher per cluster.  The receive thread handles  *)
(* a response while any number of goroutines call WatchList.               *)
(*                                                                         *)
(* The endpoints of a cluster are identified with the number of times they *)
(* have changed; 0 stands for a cluster no response has named yet.         *)
(***************************************************************************)
EXTENDS Integers, Sequences, FiniteSets

CONSTANTS
    Cluster,      \* clusters
    Caller,       \* goroutines calling WatchList
    Receiver,     \* the receive thread of the ads client
    NoCluster,    \* what a goroutine that works on no cluster works on
    MaxResponses, \* bound: responses received
    MaxWatches    \* bound: calls of WatchList

Thread == Caller \cup {Receiver}

ASSUME EdsAssumption ==
    /\ Receiver \notin Caller
    /\ NoCluster \notin Cluster
    /\ MaxResponses \in Nat
    /\ MaxWatches \in Nat

VARIABLES
    clusters,     \* d.clusters: endpoints of each cluster
    watchers,     \* clusters in d.watchers
    clusterlist,  \* d.clusterlist
    subscribed,   \* subscribedClusters of the ads client
    version,      \* w.version of each watcher
    deliveries,   \* what each watcher's onUpdateList was called with, in order
    changed,      \* clusters the receive thread still has to hand out
    pc,           \* the next section of each goroutine
    cluster,      \* the cluster a goroutine works on
    list,         \* the endpoints a goroutine is handing to a watcher
    given,        \* the version a goroutine is handing to a watcher
    subscribing,  \* the cluster list a call of WatchList will subscribe
    failed,       \* a callback has made onEndpointsUpdate stop early
    responses,    \* responses received
    watches       \* calls of WatchList

adapter == <<clusters, watchers, clusterlist, subscribed>>
watcher == <<version, deliveries>>
thread == <<pc, cluster, list, given, subscribing>>
vars == <<adapter, watcher, changed, thread, failed, responses, watches>>

Init ==
    /\ clusters = [c \in Cluster |-> 0]
    /\ watchers = {}
    /\ clusterlist = <<>>
    /\ subscribed = <<>>
    /\ version = [c \in Cluster |-> 0]
    /\ deliveries = [c \in Cluster |-> <<>>]
    /\ changed = {}
    /\ pc = [t \in Thread |-> "idle"]
    /\ cluster = [t \in Thread |-> NoCluster]
    /\ list = [t \in Thread |-> 0]
    /\ given = [t \in Thread |-> 0]
    /\ subscribing = [t \in Thread |-> <<>>]
    /\ failed = FALSE
    /\ responses = 0
    /\ watches = 0

Go(t, label) == pc' = [pc EXCEPT ![t] = label]

-----------------------------------------------------------------------------
(* updateService, run by either kind of thread                             *)

(* Under w.mu the version is raised and read ...                           *)
RaiseVersion(t) ==
    /\ pc[t] = "update"
    /\ version' = [version EXCEPT ![cluster[t]] = @ + 1]
    /\ given' = [given EXCEPT ![t] = version'[cluster[t]]]
    /\ Go(t, "deliver")
    /\ UNCHANGED <<adapter, deliveries, changed, cluster, list, subscribing, failed,
                   responses, watches>>

(* ... and after it has been released the degrade object is called.        *)
HandedVersionUnlocked(t) == version[cluster[t]]
HandedVersion(t) == given[t]
Hand(t) ==
    deliveries' = [deliveries EXCEPT ![cluster[t]] =
                      Append(@, [version |-> HandedVersion(t), list |-> list[t],
                                 first |-> t # Receiver])]

-----------------------------------------------------------------------------
(* WatchList                                                               *)

(* The watcher is made and registered under d.mu, with the endpoints known *)
(* then; a list that is not empty counts as its version 1.                 *)
RegisterWithStaleList(t, c) ==
    /\ watchers' = watchers \cup {c}
    /\ list' = [list EXCEPT ![t] = 0]
Register(t, c) ==
    /\ watchers' = watchers \cup {c}
    /\ list' = [list EXCEPT ![t] = clusters[c]]

(* A cluster that has a watcher is refused, under the lock as before it.   *)
Watchable == Cluster \ watchers

OwnCluster(c) == <<c>>
AllWatched(c) == Append(clusterlist, c)

Watch(t) ==
    /\ pc[t] = "idle"
    /\ watches < MaxWatches
    /\ watches' = watches + 1
    /\ \E c \in Watchable :
          /\ Register(t, c)
          /\ cluster' = [cluster EXCEPT ![t] = c]
          /\ \E first \in IF clusters[c] = 0 THEN {0} ELSE {0, 1} :
                version' = [version EXCEPT ![c] = first]
          /\ clusterlist' = Append(clusterlist, c)
          /\ subscribing' = [subscribing EXCEPT ![t] = AllWatched(c)]
    /\ Go(t, IF \A c \in Cluster : clusters[c] = 0 THEN "subscribe" ELSE "update")
    /\ UNCHANGED <<clusters, subscribed, deliveries, changed, given, failed, responses>>

(* The first list; an error of the callback is dropped.                    *)
DeliverFirst(t) ==
    /\ pc[t] = "deliver"
    /\ Hand(t)
    /\ Go(t, "subscribe")
    /\ UNCHANGED <<adapter, version, changed, cluster, list, given, subscribing, failed,
                   responses, watches>>

(* UpdateSubscribedClusters, outside the lock.                             *)
Subscribe(t) ==
    /\ pc[t] = "subscribe"
    /\ subscribed' = subscribing[t]
    /\ subscribing' = [subscribing EXCEPT ![t] = <<>>]
    /\ cluster' = [cluster EXCEPT ![t] = NoCluster]
    /\ list' = [list EXCEPT ![t] = 0]
    /\ given' = [given EXCEPT ![t] = 0]
    /\ Go(t, "idle")
    /\ UNCHANGED <<clusters, watchers, clusterlist, watcher, changed, failed, responses,
                   watches>>

-----------------------------------------------------------------------------
(* onEndpointsUpdate                                                       *)

(* A response names some clusters, some of them with other endpoints than  *)
(* before; the others keep theirs.  A response with an invalid endpoint    *)
(* changes nothing.                                                        *)
Receive ==
    /\ pc[Receiver] = "idle"
    /\ responses < MaxResponses
    /\ responses' = responses + 1
    /\ \E new \in (SUBSET Cluster) \ {{}} :
          /\ changed' = new
          /\ clusters' = [c \in Cluster |-> IF c \in new THEN clusters[c] + 1
                                            ELSE clusters[c]]
    /\ Go(Receiver, "next")
    /\ UNCHANGED <<watchers, clusterlist, subscribed, watcher, cluster, list, given,
                   subscribing, failed, watches>>

(* The next changed cluster, in the order of a Go map, if it is watched.   *)
PickCluster ==
    /\ pc[Receiver] = "next"
    /\ changed # {}
    /\ \E c \in changed :
          /\ changed' = changed \ {c}
          /\ \/ /\ c \in watchers
                /\ cluster' = [cluster EXCEPT ![Receiver] = c]
                /\ list' = [list EXCEPT ![Receiver] = clusters[c]]
                /\ Go(Receiver, "update")
             \/ c \notin watchers /\ UNCHANGED <<cluster, list, pc>>
    /\ UNCHANGED <<adapter, watcher, given, subscribing, failed, responses, watches>>

(* A callback that fails makes the rest of the response undelivered.       *)
DeliverChange ==
    /\ pc[Receiver] = "deliver"
    /\ Hand(Receiver)
    /\ \/ UNCHANGED <<changed, failed>>
       \/ changed' = {} /\ failed' = TRUE
    /\ Go(Receiver, "next")
    /\ UNCHANGED <<adapter, version, cluster, list, given, subscribing, responses,
                   watches>>

Finish ==
    /\ pc[Receiver] = "next"
    /\ changed = {}
    /\ cluster' = [cluster EXCEPT ![Receiver] = NoCluster]
    /\ list' = [list EXCEPT ![Receiver] = 0]
    /\ given' = [given EXCEPT ![Receiver] = 0]
    /\ Go(Receiver, "idle")
    /\ UNCHANGED <<adapter, watcher, changed, subscribing, failed, responses, watches>>

-----------------------------------------------------------------------------

Next ==
    \/ \E t \in Caller : Watch(t) \/ DeliverFirst(t) \/ Subscribe(t)
    \/ Receive \/ PickCluster \/ DeliverChange \/ Finish
    \/ \E t \in Thread : RaiseVersion(t)

Spec == Init /\ [][Next]_vars

-----------------------------------------------------------------------------
(* Properties                                                              *)

(* Every variable holds what the Go variable it stands for can hold.       *)
TypeOK ==
    /\ clusters \in [Cluster -> 0..MaxResponses]
    /\ watchers \subseteq Cluster
    /\ clusterlist \in Seq(Cluster) /\ subscribed \in Seq(Cluster)
    /\ version \in [Cluster -> Nat]
    /\ deliveries \in [Cluster -> Seq([version : Nat, list : 0..MaxResponses,
                                   first : BOOLEAN])]
    /\ changed \subseteq Cluster
    /\ pc \in [Thread -> {"idle", "update", "deliver", "subscribe", "next"}]
    /\ cluster \in [Thread -> Cluster \cup {NoCluster}]
    /\ list \in [Thread -> 0..MaxResponses]
    /\ given \in [Thread -> Nat]
    /\ subscribing \in [Thread -> Seq(Cluster)]
    /\ failed \in BOOLEAN
    /\ responses \in 0..MaxResponses /\ watches \in 0..MaxWatches

(* The clusters asked for were all watched, each once, in the order they   *)
(* were registered: goroutines that watch the same cluster race past the   *)
(* first check, and subscribe outside the lock, so that a longer list may  *)
(* be replaced by a shorter one (but by nothing else).                     *)
SubscribedIsWatched ==
    /\ watchers = {clusterlist[i] : i \in 1..Len(clusterlist)}
    /\ Len(clusterlist) = Cardinality(watchers)
    /\ subscribed = SubSeq(clusterlist, 1, Len(subscribed))

Quiet == ~failed /\ \A t \in Thread : pc[t] = "idle"

(* The lists of onEndpointsUpdate come in order; only the first list, that *)
(* WatchList hands out after it has released the lock, may come late.      *)
UpToDate(c) ==
    LET handed == deliveries[c]
        n == Len(handed)
    IN  /\ n > 0
        /\ \/ handed[n].list = clusters[c]
           \/ n > 1 /\ handed[n].first /\ handed[n - 1].list = clusters[c]

(* No change of a watched cluster is missed, whether it arrives before,    *)
(* while or after the watcher is registered: onEndpointsUpdate stores and  *)
(* then looks for watchers, WatchList registers and loads under one lock.  *)
(* And what a watcher was given last is out of date only if WatchList was  *)
(* overtaken between the lock and its call.                                *)
NoUpdateMissed == Quiet => \A c \in watchers : clusters[c] # 0 => UpToDate(c)

(* Two deliveries to a watcher never carry the same version, although two  *)
(* threads may be in updateService: readers tell lists apart by versions.  *)
VersionsAreDistinct ==
    \A c \in Cluster : \A i, j \in 1..Len(deliveries[c]) :
        deliveries[c][i].version = deliveries[c][j].version => i = j

=============================================================================
