------------------------------ MODULE Subscriber ------------------------------
(***************************************************************************)
(* A subscription made with Watch (discovery/watch_on_update.go): lists    *)
(* turned into events, and a callback that keeps a weighted balancer by    *)
(* them.  The callback is the caller's and may fail at any event.          *)
(*                                                                         *)
(* A list maps its nodes to their weights, all that distinguishes two      *)
(* versions of a node here.  Lists come one at a time, as from the consul  *)
(* and etcd adapters.                                                      *)
(***************************************************************************)
EXTENDS Wrr, FiniteSets

CONSTANTS
    Weight,    \* weights of nodes
    MaxLists,  \* bound: lists delivered
    MaxFaults  \* bound: failures of the callback

ASSUME SubscriberAssumption ==
    Weight \subseteq Nat /\ MaxLists \in Nat /\ MaxFaults \in Nat

ServiceLists == UNION {[nodes -> Weight] : nodes \in SUBSET Id}

VARIABLES
    strict,       \* the callback passes on RemoveServer's "server not found"
    balancer,     \* the callback's RoundRobinWeight
    serverList,   \* what its NextServer picks from
    previous,     \* w.previous
    current,      \* the list being delivered
    entries,      \* its nodes that the first loop has not come to
    dropped,      \* nodes of previous that the second loop has not come to
    active,       \* onUpdateList is running
    interrupted,  \* lists since previous whose delivery ended with an error
    astray,       \* such a list was followed by one that does not repeat its events
    lists,        \* lists delivered
    faults        \* failures of the callback

target == <<balancer, serverList>>
delivery == <<current, entries, dropped, active>>
subVars == <<strict, target, previous, delivery, interrupted, astray, lists, faults>>

Nothing == [id \in {} |-> 0]

SubscriberInit ==
    /\ strict \in BOOLEAN
    /\ balancer = NewRoundRobinWeight
    /\ serverList = <<>>
    /\ previous = Nothing /\ current = Nothing
    /\ entries = {} /\ dropped = {}
    /\ active = FALSE
    /\ interrupted = {} /\ astray = FALSE
    /\ lists = 0 /\ faults = 0

(* onUpdateList starts; the order of a list is any, as that of a Go map.   *)
OnUpdateList ==
    /\ ~active
    /\ lists < MaxLists
    /\ lists' = lists + 1
    /\ \E list \in ServiceLists :
          /\ current' = list
          /\ entries' = DOMAIN list
          /\ dropped' = DOMAIN previous \ DOMAIN list
    /\ active' = TRUE
    /\ UNCHANGED <<strict, target, previous, interrupted, astray, faults>>

IsNew(id) == id \notin DOMAIN previous
IsOther(id) == ~IsNew(id) /\ previous[id] # current[id]

SkipSame ==
    /\ active
    /\ \E id \in entries :
          /\ ~IsNew(id) /\ ~IsOther(id)
          /\ entries' = entries \ {id}
    /\ UNCHANGED <<strict, target, previous, current, dropped, active, interrupted,
                   astray, lists, faults>>

(* The balancer is changed and its list built again.                       *)
Serve(r) == balancer' = r /\ serverList' = BuildServerList(r)

Returns == active' = FALSE /\ entries' = {} /\ dropped' = {}

ListHalfDelivered == current
ListBefore == previous

(* onUpdateList returns the callback's error and keeps previous.           *)
Interrupt ==
    /\ interrupted' = interrupted \cup {current}
    /\ Returns
    /\ previous' = ListBefore

(* An event is applied and onUpdateList goes on, or the callback fails     *)
(* before or after applying it.                                            *)
Callback(r, rest) ==
    \/ Serve(r) /\ rest /\ UNCHANGED <<active, previous, interrupted, faults>>
    \/ /\ faults < MaxFaults
       /\ faults' = faults + 1
       /\ Serve(r) \/ UNCHANGED target
       /\ Interrupt

AddOrMod ==
    /\ active
    /\ \E id \in entries :
          /\ IsNew(id) \/ IsOther(id)
          /\ Callback(UpsertServer(balancer, id, current[id]),
                      entries' = entries \ {id} /\ UNCHANGED dropped)
    /\ UNCHANGED <<strict, current, astray, lists>>

Del ==
    /\ active
    /\ entries = {}
    /\ \E id \in dropped :
          IF id \in balancer.serversMap
          THEN Callback(RemoveServer(balancer, id),
                        dropped' = dropped \ {id} /\ UNCHANGED entries)
          ELSE \/ strict /\ Interrupt /\ UNCHANGED <<target, faults>>
               \/ /\ ~strict
                  /\ dropped' = dropped \ {id}
                  /\ UNCHANGED <<target, previous, entries, active, interrupted, faults>>
    /\ UNCHANGED <<strict, current, astray, lists>>

(* Whether the events of a list, sent again from the same previous, are    *)
(* among those of a later one.                                             *)
Repeats(list) ==
    /\ DOMAIN list \ DOMAIN previous \subseteq DOMAIN current
    /\ (DOMAIN previous \ DOMAIN list) \cap DOMAIN current = {}

Complete ==
    /\ active
    /\ entries = {} /\ dropped = {}
    /\ previous' = current
    /\ astray' = (astray \/ \E list \in interrupted : ~Repeats(list))
    /\ interrupted' = {}
    /\ active' = FALSE
    /\ UNCHANGED <<strict, target, current, entries, dropped, lists, faults>>

SubscriberNext == OnUpdateList \/ SkipSame \/ AddOrMod \/ Del \/ Complete

SubscriberSpec == SubscriberInit /\ [][SubscriberNext]_subVars

-----------------------------------------------------------------------------
(* Properties                                                              *)

(* Every variable holds what the Go variable it stands for can hold.       *)
SubscriberTypeOK ==
    /\ strict \in BOOLEAN /\ active \in BOOLEAN /\ astray \in BOOLEAN
    /\ balancer.servers \in Seq(Id) /\ balancer.serversMap \subseteq Id
    /\ balancer.weight \in [Id -> Nat] /\ balancer.index \in [Id -> Int]
    /\ serverList \in Seq([id : Id, weight : Nat])
    /\ previous \in ServiceLists /\ current \in ServiceLists
    /\ entries \subseteq Id /\ dropped \subseteq Id
    /\ interrupted \subseteq ServiceLists
    /\ lists \in 0..MaxLists /\ faults \in 0..MaxFaults

(* The events lead to the nodes of the list that was delivered last, even  *)
(* if deliveries before it were interrupted halfway and their events come  *)
(* a second time.  What an interrupted delivery has done and a later list  *)
(* does not repeat is not undone: onUpdateList compares with the list      *)
(* before.                                                                 *)
EventsLeadToList ==
    ~active /\ interrupted = {} /\ ~astray => balancer.serversMap = DOMAIN previous

(* Of the numbers NextServer draws from, each server is found for as many  *)
(* as its weight says, in whatever order servers came and went.            *)
PicksFollowWeights ==
    LET drawn == 0..SumOfWeights(serverList) - 1
    IN  \A id \in Id :
            Cardinality({val \in drawn : NextServer(serverList, val) = id})
                = IF id \in balancer.serversMap THEN balancer.weight[id] ELSE 0

=============================================================================
