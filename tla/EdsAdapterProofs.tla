-------------------------- MODULE EdsAdapterProofs --------------------------
(***************************************************************************)
(* Theorems about EdsAdapter, for every set of clusters and of goroutines. *)
(***************************************************************************)
EXTENDS EdsAdapter, FiniteSetTheorems, SequenceTheorems, TLAPS

-----------------------------------------------------------------------------
(* The inductive invariants                                                *)

Counted == \A c \in Cluster : clusters[c] <= responses

(* The cluster list has each watched cluster once; it only grows, so that  *)
(* what was asked for, and what a call is about to ask for, begins it.     *)
ListedOnce ==
    /\ watchers = {clusterlist[i] : i \in 1..Len(clusterlist)}
    /\ IsFiniteSet(watchers) /\ Len(clusterlist) = Cardinality(watchers)

Begins(l, whole) == Len(l) <= Len(whole) /\ \A i \in 1..Len(l) : l[i] = whole[i]

AskedFor ==
    /\ Begins(subscribed, clusterlist)
    /\ \A t \in Thread : Begins(subscribing[t], clusterlist)

(* A thread in updateService works on a watched cluster, of which no other *)
(* call of WatchList is handing out a first list; nor has one before.      *)
Updating(t) == pc[t] \in {"update", "deliver"}

Handing ==
    /\ \A t \in Thread : Updating(t) => cluster[t] \in watchers
    /\ \A t, u \in Caller : Updating(t) /\ Updating(u) /\ cluster[t] = cluster[u] => t = u
    /\ \A t \in Caller : Updating(t) =>
          \A i \in 1..Len(deliveries[cluster[t]]) : ~deliveries[cluster[t]][i].first
    /\ \A c \in Cluster \ watchers : deliveries[c] = <<>>

(* Versions are handed to one thread each and used once.                   *)
Unused(n, c) == \A i \in 1..Len(deliveries[c]) : deliveries[c][i].version # n

Versioned ==
    /\ \A c \in Cluster : \A i \in 1..Len(deliveries[c]) : deliveries[c][i].version <= version[c]
    /\ \A t \in Thread : pc[t] = "deliver" =>
          given[t] <= version[cluster[t]] /\ Unused(given[t], cluster[t])
    /\ \A t, u \in Thread :
          pc[t] = "deliver" /\ pc[u] = "deliver" /\ cluster[t] = cluster[u] /\ t # u =>
              given[t] # given[u]
    /\ VersionsAreDistinct

(* The list on its way to c is the current one, or a thread will come that *)
(* has it.                                                                 *)
ReceiverBringsIt(c) == c \in changed \/ (Updating(Receiver) /\ cluster[Receiver] = c)
CallerBringsIt(c) ==
    \E t \in Caller : Updating(t) /\ cluster[t] = c /\ list[t] = clusters[c]

ReceiverOK ==
    /\ pc[Receiver] = "idle" => changed = {}
    /\ Updating(Receiver) => list[Receiver] = clusters[cluster[Receiver]]

Pending ==
    ~failed => \A c \in watchers : clusters[c] # 0 =>
        ReceiverBringsIt(c) \/ CallerBringsIt(c) \/ UpToDate(c)

-----------------------------------------------------------------------------
(* Types                                                                   *)

Delivery == [version : Nat, list : 0..MaxResponses, first : BOOLEAN]
Labels == {"idle", "update", "deliver", "subscribe", "next"}

LEMMA ThreadKinds ==
    /\ Receiver \in Thread /\ Receiver \notin Caller
    /\ \A t \in Caller : t \in Thread /\ t # Receiver
    /\ \A t \in Thread : t = Receiver \/ t \in Caller
BY EdsAssumption DEF EdsAssumption, Thread

LEMMA CountersType ==
    ASSUME TypeOK
    PROVE  /\ MaxResponses \in Nat /\ MaxWatches \in Nat
           /\ responses \in Nat /\ responses <= MaxResponses
           /\ watches \in Nat /\ watches <= MaxWatches
           /\ \A c \in Cluster : clusters[c] \in Nat /\ version[c] \in Nat
<1>1. MaxResponses \in Nat /\ MaxWatches \in Nat
  BY EdsAssumption DEF EdsAssumption
<1>2. /\ responses \in 0..MaxResponses /\ watches \in 0..MaxWatches
      /\ clusters \in [Cluster -> 0..MaxResponses] /\ version \in [Cluster -> Nat]
  BY DEF TypeOK
<1> QED BY <1>1, <1>2

(* What a watcher is given is added to what it has been given.              *)
LEMMA HandAdds ==
    ASSUME TypeOK, NEW t \in Thread, cluster[t] \in Cluster, Hand(t)
    PROVE  LET c == cluster[t]
               n == Len(deliveries[c])
           IN  /\ n \in Nat
               /\ deliveries' \in [Cluster -> Seq(Delivery)]
               /\ \A d \in Cluster : d # c => deliveries'[d] = deliveries[d]
               /\ Len(deliveries'[c]) = n + 1
               /\ \A i \in 1..n : deliveries'[c][i] = deliveries[c][i]
               /\ deliveries'[c][n + 1].version = given[t]
               /\ deliveries'[c][n + 1].list = list[t]
               /\ deliveries'[c][n + 1].first <=> t # Receiver
<1> DEFINE c == cluster[t]
           d == [version |-> given[t], list |-> list[t], first |-> t # Receiver]
<1>1. d \in Delivery
  BY DEF TypeOK, Delivery
<1>2. deliveries \in [Cluster -> Seq(Delivery)]
  BY DEF TypeOK, Delivery
<1>3. deliveries' = [deliveries EXCEPT ![c] = Append(deliveries[c], d)]
  BY DEF Hand, HandedVersion
<1> HIDE DEF d
<1>4. /\ Append(deliveries[c], d) \in Seq(Delivery)
      /\ Len(Append(deliveries[c], d)) = Len(deliveries[c]) + 1
      /\ \A i \in 1..Len(deliveries[c]) : Append(deliveries[c], d)[i] = deliveries[c][i]
      /\ Append(deliveries[c], d)[Len(deliveries[c]) + 1] = d
  BY <1>1, <1>2, AppendProperties
<1>5. Len(deliveries[c]) \in Nat
  BY <1>2, LenProperties
<1> HIDE DEF c
<1>6. c \in Cluster
  BY DEF c
<1>7. /\ deliveries'[c] = Append(deliveries[c], d)
      /\ \A e \in Cluster : e # c => deliveries'[e] = deliveries[e]
      /\ deliveries' \in [Cluster -> Seq(Delivery)]
  BY <1>2, <1>3, <1>4, <1>6
<1>8. d.version = given[t] /\ d.list = list[t] /\ (d.first <=> t # Receiver)
  BY DEF d
<1> QED BY <1>4, <1>5, <1>7, <1>8 DEF c

LEMMA InitType == Init => TypeOK /\ Counted
<1> SUFFICES ASSUME Init PROVE TypeOK /\ Counted
  OBVIOUS
<1>1. 0 \in 0..MaxResponses /\ 0 \in 0..MaxWatches
  BY EdsAssumption DEF EdsAssumption
<1>2. clusters \in [Cluster -> 0..MaxResponses] /\ list \in [Thread -> 0..MaxResponses]
  BY <1>1 DEF Init
<1>3. /\ <<>> \in Seq(Cluster) /\ subscribing \in [Thread -> Seq(Cluster)]
      /\ deliveries \in [Cluster -> Seq(Delivery)]
  BY DEF Init
<1>4. Counted
  BY DEF Init, Counted
<1> QED BY <1>1, <1>2, <1>3, <1>4 DEF Init, TypeOK, Delivery

LEMMA NextType == TypeOK /\ Counted /\ Handing /\ [Next]_vars => TypeOK' /\ Counted'
<1> SUFFICES ASSUME TypeOK, Counted, Handing, [Next]_vars PROVE TypeOK' /\ Counted'
  OBVIOUS
<1> USE ThreadKinds DEF vars, adapter, watcher, thread
<1>1. ASSUME UNCHANGED <<clusters, responses>> PROVE Counted'
  BY <1>1 DEF Counted
<1>2. ASSUME NEW t \in Caller, Watch(t) PROVE TypeOK'
  <2>1. PICK c \in Cluster :
            /\ watchers' = watchers \cup {c}
            /\ list' = [list EXCEPT ![t] = clusters[c]]
            /\ cluster' = [cluster EXCEPT ![t] = c]
            /\ clusterlist' = Append(clusterlist, c)
            /\ subscribing' = [subscribing EXCEPT ![t] = Append(clusterlist, c)]
            /\ \E first \in {0, 1} : version' = [version EXCEPT ![c] = first]
    BY <1>2 DEF Watch, Watchable, Register, AllWatched
  <2>2. clusterlist' \in Seq(Cluster)
    BY <2>1, AppendProperties DEF TypeOK
  <2>3. version' \in [Cluster -> Nat] /\ list' \in [Thread -> 0..MaxResponses]
    BY <2>1 DEF TypeOK
  <2>4. watches' \in 0..MaxWatches
    BY <1>2, CountersType DEF Watch
  <2>5. /\ subscribing' \in [Thread -> Seq(Cluster)]
        /\ cluster' \in [Thread -> Cluster \cup {NoCluster}]
    BY <2>1, <2>2 DEF TypeOK
  <2>6. pc' \in [Thread -> Labels]
    BY <1>2 DEF Watch, Go, TypeOK, Labels
  <2> QED BY <1>2, <2>1, <2>2, <2>3, <2>4, <2>5, <2>6 DEF Watch, TypeOK, Labels
<1>3. ASSUME NEW t \in Thread, pc[t] = "deliver", Hand(t)
      PROVE  deliveries' \in [Cluster -> Seq(Delivery)]
  <2>1. cluster[t] \in Cluster
    BY <1>3 DEF Handing, Updating, TypeOK
  <2> QED BY <1>3, <2>1, HandAdds
<1>4. ASSUME NEW t \in Caller, DeliverFirst(t) PROVE TypeOK'
  BY <1>3, <1>4 DEF DeliverFirst, Go, TypeOK, Delivery
<1>5. ASSUME NEW t \in Caller, Subscribe(t) PROVE TypeOK'
  <2>1. <<>> \in Seq(Cluster) /\ 0 \in 0..MaxResponses
    BY CountersType
  <2> QED BY <1>5, <2>1 DEF Subscribe, Go, TypeOK
<1>6. CASE Receive
  <2>1. PICK new \in SUBSET Cluster :
            /\ changed' = new
            /\ clusters' = [c \in Cluster |-> IF c \in new THEN clusters[c] + 1
                                              ELSE clusters[c]]
    BY <1>6 DEF Receive
  <2>2. responses' = responses + 1 /\ responses < MaxResponses
    BY <1>6 DEF Receive
  <2>3. responses' \in 0..MaxResponses
    BY <2>2, CountersType
  <2>4. \A c \in Cluster : clusters'[c] \in 0..MaxResponses /\ clusters'[c] <= responses'
    BY <2>1, <2>2, CountersType DEF Counted
  <2>5. clusters' \in [Cluster -> 0..MaxResponses]
    BY <2>1, <2>4
  <2> QED BY <1>6, <2>1, <2>3, <2>4, <2>5 DEF Receive, Go, TypeOK, Counted
<1>7. ASSUME PickCluster PROVE TypeOK'
  <2>1. /\ changed' \subseteq Cluster
        /\ cluster' \in [Thread -> Cluster \cup {NoCluster}]
        /\ list' \in [Thread -> 0..MaxResponses]
        /\ pc' \in [Thread -> Labels]
    BY <1>7 DEF PickCluster, Go, TypeOK, Labels
  <2> QED BY <1>7, <2>1 DEF PickCluster, TypeOK, Labels
<1>8. ASSUME DeliverChange PROVE TypeOK'
  <2>1. changed' \subseteq Cluster /\ failed' \in BOOLEAN
    BY <1>8 DEF DeliverChange, TypeOK
  <2>2. pc' \in [Thread -> Labels] /\ deliveries' \in [Cluster -> Seq(Delivery)]
    BY <1>3, <1>8 DEF DeliverChange, Go, TypeOK, Labels
  <2> QED BY <1>8, <2>1, <2>2 DEF DeliverChange, TypeOK, Delivery, Labels
<1>9. ASSUME Finish PROVE TypeOK'
  <2>1. 0 \in 0..MaxResponses
    BY CountersType
  <2>2. /\ list' \in [Thread -> 0..MaxResponses]
        /\ cluster' \in [Thread -> Cluster \cup {NoCluster}]
        /\ given' \in [Thread -> Nat] /\ pc' \in [Thread -> Labels]
    BY <1>9, <2>1 DEF Finish, Go, TypeOK, Labels
  <2> QED BY <1>9, <2>2 DEF Finish, TypeOK, Labels
<1>10. ASSUME NEW t \in Thread, RaiseVersion(t) PROVE TypeOK'
  <2>1. cluster[t] \in Cluster
    BY <1>10 DEF RaiseVersion, Handing, Updating, TypeOK
  <2>2. version' \in [Cluster -> Nat]
    BY <1>10, <2>1 DEF RaiseVersion, TypeOK
  <2> QED BY <1>10, <2>1, <2>2 DEF RaiseVersion, Go, TypeOK
<1>11. CASE UNCHANGED vars
  BY <1>11 DEF TypeOK, Counted
<1>12. CASE Receive \/ UNCHANGED vars
  BY <1>6, <1>11, <1>12
<1>13. CASE ~(Receive \/ UNCHANGED vars)
  <2>1. UNCHANGED <<clusters, responses>>
    BY <1>13 DEF Next, Watch, DeliverFirst, Subscribe, PickCluster, DeliverChange, Finish,
                 RaiseVersion
  <2>2. TypeOK'
    BY <1>2, <1>4, <1>5, <1>7, <1>8, <1>9, <1>10, <1>13 DEF Next
  <2> QED BY <1>1, <2>1, <2>2
<1> QED BY <1>12, <1>13

-----------------------------------------------------------------------------
(* The cluster list                                                        *)

LEMMA Extended ==
    ASSUME NEW l \in Seq(Cluster), NEW whole \in Seq(Cluster), NEW c \in Cluster,
           Begins(l, whole)
    PROVE  Begins(l, Append(whole, c))
<1>1. Len(whole) \in Nat /\ Len(l) \in Nat
  BY LenProperties
<1> QED BY <1>1, AppendProperties DEF Begins

LEMMA ListKeeps ==
    ASSUME TypeOK, ListedOnce, AskedFor, [Next]_vars
    PROVE  ListedOnce' /\ AskedFor'
<1> USE ThreadKinds DEF vars, adapter, thread
<1>1. CASE UNCHANGED <<watchers, clusterlist, subscribed, subscribing>>
  BY <1>1 DEF ListedOnce, AskedFor, Begins
<1>2. ASSUME NEW t \in Caller, Watch(t) PROVE ListedOnce' /\ AskedFor'
  <2>1. PICK c \in Cluster \ watchers :
            /\ watchers' = watchers \cup {c}
            /\ clusterlist' = Append(clusterlist, c)
            /\ subscribing' = [subscribing EXCEPT ![t] = Append(clusterlist, c)]
    BY <1>2 DEF Watch, Watchable, Register, AllWatched
  <2> DEFINE n == Len(clusterlist)
  <2>2. n \in Nat /\ clusterlist \in Seq(Cluster)
    BY LenProperties DEF TypeOK
  <2>3. /\ clusterlist' \in Seq(Cluster) /\ Len(clusterlist') = n + 1
        /\ \A i \in 1..n : clusterlist'[i] = clusterlist[i]
        /\ clusterlist'[n + 1] = c
    BY <2>1, <2>2, AppendProperties
  <2>4. IsFiniteSet(watchers') /\ Cardinality(watchers') = Cardinality(watchers) + 1
    BY <2>1, FS_AddElement DEF ListedOnce
  <2>5. watchers' = {clusterlist'[i] : i \in 1..Len(clusterlist')}
    BY <2>1, <2>2, <2>3 DEF ListedOnce
  <2>6. ListedOnce'
    BY <2>3, <2>4, <2>5 DEF ListedOnce
  <2>7. subscribed' = subscribed /\ subscribed \in Seq(Cluster)
    BY <1>2 DEF Watch, TypeOK
  <2>8. Begins(subscribed, clusterlist')
    BY <2>1, <2>2, <2>7, Extended DEF AskedFor
  <2>9. ASSUME NEW u \in Thread PROVE Begins(subscribing'[u], clusterlist')
    <3>1. CASE u = t
      <4>1. subscribing'[u] = clusterlist'
        BY <2>1, <3>1 DEF TypeOK
      <4> QED BY <2>2, <2>3, <4>1 DEF Begins
    <3>2. CASE u # t
      <4>1. subscribing'[u] = subscribing[u] /\ subscribing[u] \in Seq(Cluster)
        BY <2>1, <3>2 DEF TypeOK
      <4> QED BY <2>1, <2>2, <4>1, Extended DEF AskedFor
    <3> QED BY <3>1, <3>2
  <2> QED BY <2>6, <2>7, <2>8, <2>9 DEF AskedFor
<1>3. ASSUME NEW t \in Caller, Subscribe(t) PROVE ListedOnce' /\ AskedFor'
  <2>1. /\ UNCHANGED <<watchers, clusterlist>>
        /\ subscribed' = subscribing[t]
        /\ subscribing' = [subscribing EXCEPT ![t] = <<>>]
    BY <1>3 DEF Subscribe
  <2>2. Begins(<<>>, clusterlist)
    BY LenProperties DEF Begins, TypeOK
  <2>3. ASSUME NEW u \in Thread PROVE subscribing'[u] = subscribing[u] \/ subscribing'[u] = <<>>
    BY <2>1 DEF TypeOK
  <2> QED BY <2>1, <2>2, <2>3 DEF ListedOnce, AskedFor
<1>4. CASE Receive \/ PickCluster \/ DeliverChange \/ Finish \/ UNCHANGED vars
  BY <1>1, <1>4 DEF Receive, PickCluster, DeliverChange, Finish
<1>5. ASSUME NEW t \in Thread, RaiseVersion(t) \/ DeliverFirst(t) PROVE ListedOnce' /\ AskedFor'
  BY <1>1, <1>5 DEF RaiseVersion, DeliverFirst
<1> QED BY <1>2, <1>3, <1>4, <1>5 DEF Next

(* What begins the cluster list is a subsequence from its start.            *)
LEMMA ListImplies == TypeOK /\ ListedOnce /\ AskedFor => SubscribedIsWatched
<1> SUFFICES ASSUME TypeOK, ListedOnce, AskedFor PROVE SubscribedIsWatched
  OBVIOUS
<1> DEFINE n == Len(subscribed)
           s == SubSeq(clusterlist, 1, n)
<1>1. subscribed \in Seq(Cluster) /\ clusterlist \in Seq(Cluster)
  BY DEF TypeOK
<1>2. n \in Nat /\ Len(clusterlist) \in Nat
  BY <1>1, LenProperties
<1>3. n <= Len(clusterlist) /\ \A i \in 1..n : subscribed[i] = clusterlist[i]
  BY DEF AskedFor, Begins
<1>4. \A i \in 1..n : clusterlist[i] \in Cluster
  BY <1>1, <1>2, <1>3, ElementOfSeq
<1>5. /\ s \in Seq(Cluster) /\ Len(s) = IF 1 <= n THEN n - 1 + 1 ELSE 0
      /\ \A i \in 1..(n - 1 + 1) : s[i] = clusterlist[1 + i - 1]
  BY <1>2, <1>4, SubSeqProperties
<1>6. Len(s) = n /\ \A i \in 1..n : s[i] = clusterlist[i]
  BY <1>2, <1>5
<1> HIDE DEF s, n
<1>7. Len(subscribed) = Len(s) /\ \A i \in 1..Len(subscribed) : subscribed[i] = s[i]
  BY <1>3, <1>6 DEF n
<1>8. subscribed = s
  BY <1>1, <1>5, <1>7, SeqEqual
<1> QED BY <1>8 DEF s, n, SubscribedIsWatched, ListedOnce

-----------------------------------------------------------------------------
(* Deliveries                                                              *)

LEMMA HandingKeeps ==
    ASSUME TypeOK, Handing, [Next]_vars
    PROVE  Handing'
<1> USE ThreadKinds DEF vars, adapter, watcher, thread
<1>1. ASSUME UNCHANGED <<watchers, deliveries, cluster>>,
             \A t \in Thread : Updating(t)' => Updating(t)
      PROVE  Handing'
  BY <1>1 DEF Handing
<1>2. ASSUME NEW t \in Caller, Watch(t) PROVE Handing'
  <2>1. PICK c \in Cluster \ watchers :
            watchers' = watchers \cup {c} /\ cluster' = [cluster EXCEPT ![t] = c]
    BY <1>2 DEF Watch, Watchable, Register
  <2>2. deliveries' = deliveries
    BY <1>2 DEF Watch
  <2>3. \A u \in Thread : u # t =>
            pc'[u] = pc[u] /\ cluster'[u] = cluster[u] /\ (Updating(u)' <=> Updating(u))
    BY <1>2, <2>1 DEF Watch, Go, TypeOK, Updating
  <2>4. cluster'[t] = c
    BY <2>1 DEF TypeOK
  <2>5. \A u \in Thread : u # t /\ Updating(u) => cluster'[u] \in watchers /\ cluster'[u] # c
    BY <2>1, <2>3 DEF Handing
  <2>6. deliveries[c] = <<>>
    BY <2>1 DEF Handing
  <2>7. \A u \in Thread : Updating(u)' => cluster'[u] \in watchers'
    BY <2>1, <2>3, <2>4, <2>5
  <2>8. \A u, v \in Caller : Updating(u)' /\ Updating(v)' /\ cluster'[u] = cluster'[v] => u = v
    BY <2>3, <2>4, <2>5 DEF Handing
  <2>9. \A u \in Caller : Updating(u)' =>
            \A i \in 1..Len(deliveries'[cluster'[u]]) : ~deliveries'[cluster'[u]][i].first
    BY <2>2, <2>3, <2>4, <2>6 DEF Handing
  <2>10. \A d \in Cluster \ watchers' : deliveries'[d] = <<>>
    BY <2>1, <2>2 DEF Handing
  <2> QED BY <2>7, <2>8, <2>9, <2>10 DEF Handing
<1>3. ASSUME NEW t \in Thread, pc[t] = "deliver", Hand(t), UNCHANGED <<watchers, cluster>>,
             \A u \in Thread : u # t => (Updating(u)' <=> Updating(u)), ~Updating(t)'
      PROVE  Handing'
  <2>1. cluster[t] \in watchers /\ cluster[t] \in Cluster
    BY <1>3 DEF Handing, Updating, TypeOK
  <2>2. \A d \in Cluster : d # cluster[t] => deliveries'[d] = deliveries[d]
    BY <1>3, <2>1, HandAdds
  <2>3. ASSUME NEW u \in Caller, Updating(u)'
        PROVE  \A i \in 1..Len(deliveries'[cluster[u]]) : ~deliveries'[cluster[u]][i].first
    <3>1. u # t /\ Updating(u) /\ cluster[u] \in Cluster
      BY <1>3, <2>3 DEF Handing, TypeOK
    <3>2. CASE cluster[u] # cluster[t]
      BY <2>2, <3>1, <3>2 DEF Handing
    <3>3. CASE cluster[u] = cluster[t]
      <4> DEFINE n == Len(deliveries[cluster[t]])
      <4>1. t = Receiver
        BY <1>3, <3>1, <3>3 DEF Handing, Updating
      <4>2. /\ n \in Nat
            /\ Len(deliveries'[cluster[t]]) = n + 1
            /\ \A i \in 1..n : deliveries'[cluster[t]][i] = deliveries[cluster[t]][i]
            /\ deliveries'[cluster[t]][n + 1].first <=> t # Receiver
        BY <1>3, <2>1, HandAdds
      <4>3. \A i \in 1..n : ~deliveries[cluster[t]][i].first
        BY <3>1, <3>3 DEF Handing
      <4>4. ~deliveries'[cluster[t]][n + 1].first
        BY <4>1, <4>2
      <4>5. \A i \in 1..(n + 1) : i \in 1..n \/ i = n + 1
        BY <4>2
      <4> QED BY <3>3, <4>2, <4>3, <4>4, <4>5
    <3> QED BY <3>2, <3>3
  <2> QED BY <1>3, <2>1, <2>2, <2>3 DEF Handing
<1>4. ASSUME NEW t \in Caller, DeliverFirst(t) PROVE Handing'
  BY <1>3, <1>4 DEF DeliverFirst, Go, TypeOK, Updating
<1>5. ASSUME NEW t \in Caller, Subscribe(t) PROVE Handing'
  <2>1. /\ UNCHANGED <<watchers, deliveries>>
        /\ \A u \in Thread : Updating(u)' => Updating(u) /\ cluster'[u] = cluster[u]
    BY <1>5 DEF Subscribe, Go, TypeOK, Updating
  <2> QED BY <2>1 DEF Handing
<1>6. CASE Receive
  BY <1>1, <1>6 DEF Receive, Go, TypeOK, Updating
<1>7. CASE PickCluster
  <2>1. /\ UNCHANGED <<watchers, deliveries>>
        /\ \A u \in Thread : u # Receiver =>
              (Updating(u)' <=> Updating(u)) /\ cluster'[u] = cluster[u]
        /\ Updating(Receiver)' => cluster'[Receiver] \in watchers
    BY <1>7 DEF PickCluster, Go, TypeOK, Updating
  <2> QED BY <2>1 DEF Handing
<1>8. CASE DeliverChange
  BY <1>3, <1>8 DEF DeliverChange, Go, TypeOK, Updating
<1>9. CASE Finish
  <2>1. /\ UNCHANGED <<watchers, deliveries>>
        /\ \A u \in Thread : Updating(u)' => Updating(u) /\ cluster'[u] = cluster[u]
    BY <1>9 DEF Finish, Go, TypeOK, Updating
  <2> QED BY <2>1 DEF Handing
<1>10. ASSUME NEW t \in Thread, RaiseVersion(t) PROVE Handing'
  BY <1>1, <1>10 DEF RaiseVersion, Go, TypeOK, Updating
<1>11. CASE UNCHANGED vars
  BY <1>1, <1>11 DEF Updating
<1> QED BY <1>2, <1>4, <1>5, <1>6, <1>7, <1>8, <1>9, <1>10, <1>11 DEF Next

LEMMA VersionedKeeps ==
    ASSUME TypeOK, Handing, Versioned, [Next]_vars
    PROVE  Versioned'
<1> USE ThreadKinds DEF vars, adapter, watcher, thread
<1>1. ASSUME UNCHANGED <<version, deliveries, given>>,
             \A t \in Thread : pc'[t] = "deliver" => pc[t] = "deliver" /\ cluster'[t] = cluster[t]
      PROVE  Versioned'
  BY <1>1 DEF Versioned, VersionsAreDistinct, Unused
<1>2. ASSUME NEW t \in Caller, Watch(t) PROVE Versioned'
  <2>1. PICK c \in Cluster \ watchers :
            /\ cluster' = [cluster EXCEPT ![t] = c]
            /\ \E first \in {0, 1} : version' = [version EXCEPT ![c] = first]
    BY <1>2 DEF Watch, Watchable
  <2>2. /\ UNCHANGED <<deliveries, given>> /\ deliveries[c] = <<>>
        /\ \A d \in Cluster : d # c => version'[d] = version[d]
    BY <1>2, <2>1 DEF Watch, Handing, TypeOK
  <2>3. \A u \in Thread : pc'[u] = "deliver" =>
            /\ pc[u] = "deliver" /\ cluster'[u] = cluster[u] /\ cluster[u] # c
            /\ cluster[u] \in Cluster
    BY <1>2, <2>1 DEF Watch, Go, TypeOK, Handing, Updating
  <2>4. \A d \in Cluster : \A i \in 1..Len(deliveries[d]) : deliveries[d][i].version <= version'[d]
    BY <2>2 DEF Versioned
  <2>5. \A u \in Thread : pc'[u] = "deliver" =>
            given[u] <= version'[cluster'[u]] /\ Unused(given[u], cluster[u])'
    BY <2>2, <2>3 DEF Versioned, Unused
  <2> QED BY <2>2, <2>3, <2>4, <2>5 DEF Versioned, VersionsAreDistinct
<1>3. ASSUME NEW t \in Thread, pc[t] = "deliver", Hand(t), UNCHANGED <<version, cluster, given>>,
             \A u \in Thread : pc'[u] = "deliver" => pc[u] = "deliver" /\ u # t
      PROVE  Versioned'
  <2> DEFINE c == cluster[t]
             n == Len(deliveries[c])
  <2>1. c \in Cluster
    BY <1>3 DEF Handing, Updating, TypeOK
  <2>2. /\ n \in Nat
        /\ \A d \in Cluster : d # c => deliveries'[d] = deliveries[d]
        /\ Len(deliveries'[c]) = n + 1
        /\ \A i \in 1..n : deliveries'[c][i] = deliveries[c][i]
        /\ deliveries'[c][n + 1].version = given[t]
    BY <1>3, <2>1, HandAdds
  <2>3. given[t] <= version[c] /\ \A i \in 1..n : deliveries[c][i].version # given[t]
    BY <1>3 DEF Versioned, Unused
  <2> HIDE DEF n
  <2>4. \A i \in 1..n : deliveries[c][i].version <= version[c]
    BY <2>1 DEF Versioned, n
  <2>5. \A i, j \in 1..n : deliveries[c][i].version = deliveries[c][j].version => i = j
    BY <2>1 DEF Versioned, VersionsAreDistinct, n
  <2>6. ASSUME NEW d \in Cluster, NEW i \in 1..Len(deliveries'[d])
        PROVE  deliveries'[d][i].version <= version'[d]
    <3>1. CASE d = c
      BY <1>3, <2>2, <2>3, <2>4, <2>6, <3>1
    <3>2. CASE d # c
      BY <1>3, <2>2, <2>6, <3>2 DEF Versioned
    <3> QED BY <3>1, <3>2
  <2>7. ASSUME NEW d \in Cluster, NEW i \in 1..Len(deliveries'[d]), NEW j \in 1..Len(deliveries'[d]),
               deliveries'[d][i].version = deliveries'[d][j].version
        PROVE  i = j
    <3>1. CASE d = c
      BY <2>2, <2>3, <2>5, <2>7, <3>1
    <3>2. CASE d # c
      BY <2>2, <2>7, <3>2 DEF Versioned, VersionsAreDistinct
    <3> QED BY <3>1, <3>2
  <2>8. ASSUME NEW u \in Thread, pc'[u] = "deliver"
        PROVE  given'[u] <= version'[cluster'[u]] /\ Unused(given[u], cluster[u])'
    <3>1. /\ pc[u] = "deliver" /\ u # t /\ given'[u] = given[u] /\ cluster'[u] = cluster[u]
          /\ cluster[u] \in Cluster
      BY <1>3, <2>8 DEF Handing, Updating, TypeOK
    <3>2. given[u] <= version[cluster[u]] /\ Unused(given[u], cluster[u])
      BY <3>1 DEF Versioned
    <3>3. CASE cluster[u] = c
      <4>1. given[u] # given[t]
        BY <1>3, <3>1, <3>3 DEF Versioned
      <4>2. \A i \in 1..n : deliveries'[c][i].version # given[u]
        BY <2>2, <3>2, <3>3 DEF Unused, n
      <4>3. \A i \in 1..(n + 1) : i \in 1..n \/ i = n + 1
        BY <2>2
      <4>4. Unused(given[u], cluster[u])'
        BY <2>2, <3>1, <3>3, <4>1, <4>2, <4>3 DEF Unused
      <4> QED BY <1>3, <3>1, <3>2, <4>4
    <3>4. CASE cluster[u] # c
      BY <1>3, <2>2, <3>1, <3>2, <3>4 DEF Unused
    <3> QED BY <3>3, <3>4
  <2>9. \A u, v \in Thread :
            pc'[u] = "deliver" /\ pc'[v] = "deliver" /\ cluster'[u] = cluster'[v] /\ u # v =>
                given'[u] # given'[v]
    BY <1>3 DEF Versioned
  <2> QED BY <1>3, <2>6, <2>7, <2>8, <2>9 DEF Versioned, VersionsAreDistinct
<1>4. ASSUME NEW t \in Caller, DeliverFirst(t) PROVE Versioned'
  BY <1>3, <1>4 DEF DeliverFirst, Go, TypeOK
<1>5. ASSUME NEW t \in Caller, Subscribe(t) PROVE Versioned'
  <2>1. /\ UNCHANGED <<version, deliveries>>
        /\ \A u \in Thread : pc'[u] = "deliver" =>
              pc[u] = "deliver" /\ cluster'[u] = cluster[u] /\ given'[u] = given[u]
    BY <1>5 DEF Subscribe, Go, TypeOK
  <2> QED BY <2>1 DEF Versioned, VersionsAreDistinct, Unused
<1>6. CASE Receive
  BY <1>1, <1>6 DEF Receive, Go, TypeOK
<1>7. CASE PickCluster
  <2>1. /\ UNCHANGED <<version, deliveries, given>>
        /\ \A u \in Thread : pc'[u] = "deliver" => pc[u] = "deliver" /\ cluster'[u] = cluster[u]
    BY <1>7 DEF PickCluster, Go, TypeOK
  <2> QED BY <1>1, <2>1
<1>8. CASE DeliverChange
  BY <1>3, <1>8 DEF DeliverChange, Go, TypeOK
<1>9. CASE Finish
  <2>1. /\ UNCHANGED <<version, deliveries>>
        /\ \A u \in Thread : pc'[u] = "deliver" =>
              pc[u] = "deliver" /\ cluster'[u] = cluster[u] /\ given'[u] = given[u]
    BY <1>9 DEF Finish, Go, TypeOK
  <2> QED BY <2>1 DEF Versioned, VersionsAreDistinct, Unused
<1>10. ASSUME NEW t \in Thread, RaiseVersion(t) PROVE Versioned'
  <2> DEFINE c == cluster[t]
  <2>1. c \in Cluster /\ version[c] \in Nat
    BY <1>10 DEF RaiseVersion, Handing, Updating, TypeOK
  <2>2. /\ UNCHANGED <<deliveries, cluster>>
        /\ version'[c] = version[c] + 1 /\ given'[t] = version[c] + 1
        /\ \A d \in Cluster : d # c => version'[d] = version[d]
        /\ \A u \in Thread : u # t =>
              given'[u] = given[u] /\ (pc'[u] = "deliver" => pc[u] = "deliver")
    BY <1>10, <2>1 DEF RaiseVersion, Go, TypeOK
  <2>3. \A d \in Cluster : \A i \in 1..Len(deliveries[d]) : deliveries[d][i].version \in Nat
    <3>1. \A d \in Cluster : deliveries[d] \in Seq(Delivery)
      BY DEF TypeOK, Delivery
    <3>2. \A d \in Cluster : \A i \in 1..Len(deliveries[d]) : deliveries[d][i] \in Delivery
      BY <3>1, ElementOfSeq
    <3> QED BY <3>2 DEF Delivery
  <2>4. \A d \in Cluster : \A i \in 1..Len(deliveries[d]) :
            deliveries[d][i].version <= version[d] /\ version[d] \in Nat
    BY DEF Versioned, TypeOK
  <2>5. Unused(version[c] + 1, c)
    BY <2>1, <2>3, <2>4 DEF Unused
  <2>6. \A u \in Thread : pc[u] = "deliver" =>
            /\ given[u] \in Nat /\ cluster[u] \in Cluster /\ version[cluster[u]] \in Nat
            /\ given[u] <= version[cluster[u]] /\ Unused(given[u], cluster[u])
    BY DEF Versioned, TypeOK, Handing, Updating
  <2>7. \A d \in Cluster : \A i \in 1..Len(deliveries'[d]) :
            deliveries'[d][i].version <= version'[d]
    BY <2>1, <2>2, <2>3, <2>4
  <2>8. ASSUME NEW u \in Thread, pc'[u] = "deliver"
        PROVE  given'[u] <= version'[cluster'[u]] /\ Unused(given[u], cluster[u])'
    <3>1. CASE u = t
      BY <2>1, <2>2, <2>5, <3>1 DEF Unused
    <3>2. CASE u # t
      <4>1. CASE cluster[u] = c
        BY <2>1, <2>2, <2>6, <2>8, <3>2, <4>1 DEF Unused
      <4>2. CASE cluster[u] # c
        BY <2>1, <2>2, <2>6, <2>8, <3>2, <4>2 DEF Unused
      <4> QED BY <4>1, <4>2
    <3> QED BY <3>1, <3>2
  <2>9. ASSUME NEW u \in Thread, NEW v \in Thread, pc'[u] = "deliver", pc'[v] = "deliver",
               cluster'[u] = cluster'[v], u # v
        PROVE  given'[u] # given'[v]
    <3>1. CASE u = t
      BY <2>1, <2>2, <2>6, <2>9, <3>1
    <3>2. CASE v = t
      BY <2>1, <2>2, <2>6, <2>9, <3>2
    <3>3. CASE u # t /\ v # t
      BY <2>2, <2>9, <3>3 DEF Versioned
    <3> QED BY <3>1, <3>2, <3>3
  <2> QED BY <2>2, <2>7, <2>8, <2>9 DEF Versioned, VersionsAreDistinct
<1>11. CASE UNCHANGED vars
  BY <1>1, <1>11
<1> QED BY <1>2, <1>4, <1>5, <1>6, <1>7, <1>8, <1>9, <1>10, <1>11 DEF Next

-----------------------------------------------------------------------------
(* Changes that are on their way                                           *)

(* The current list makes a watcher up to date, and a first list that is   *)
(* late leaves it so.                                                      *)
LEMMA HandUpdates ==
    ASSUME TypeOK, NEW t \in Thread, NEW c \in Cluster, cluster[t] = c, Hand(t),
           clusters' = clusters,
           \/ list[t] = clusters[c]
           \/ /\ t # Receiver /\ UpToDate(c)
              /\ \A i \in 1..Len(deliveries[c]) : ~deliveries[c][i].first
    PROVE  UpToDate(c)'
<1> DEFINE n == Len(deliveries[c])
<1>1. /\ n \in Nat
      /\ Len(deliveries'[c]) = n + 1
      /\ \A i \in 1..n : deliveries'[c][i] = deliveries[c][i]
      /\ deliveries'[c][n + 1].list = list[t]
      /\ deliveries'[c][n + 1].first <=> t # Receiver
  BY HandAdds
<1>2. CASE list[t] = clusters[c]
  BY <1>1, <1>2 DEF UpToDate
<1>3. CASE /\ t # Receiver /\ UpToDate(c)
           /\ \A i \in 1..n : ~deliveries[c][i].first
  <2>1. n > 0 /\ deliveries[c][n].list = clusters[c]
    BY <1>1, <1>3 DEF UpToDate
  <2>2. n + 1 > 1 /\ (n + 1) - 1 = n /\ n \in 1..n
    BY <1>1, <2>1
  <2>3. /\ deliveries'[c][n + 1].first
        /\ deliveries'[c][(n + 1) - 1].list = clusters'[c]
    BY <1>1, <1>3, <2>1, <2>2
  <2> QED BY <1>1, <2>2, <2>3 DEF UpToDate
<1> QED BY <1>2, <1>3

LEMMA PendingKeeps ==
    ASSUME TypeOK, Handing, ReceiverOK, Pending, [Next]_vars
    PROVE  ReceiverOK' /\ Pending'
<1> USE ThreadKinds DEF vars, adapter, watcher, thread
<1> DEFINE Served(d) == ReceiverBringsIt(d) \/ CallerBringsIt(d) \/ UpToDate(d)
<1>1. ASSUME NEW t \in Caller, Watch(t) PROVE ReceiverOK' /\ Pending'
  <2>1. PICK c \in Cluster \ watchers :
            /\ watchers' = watchers \cup {c} /\ cluster' = [cluster EXCEPT ![t] = c]
            /\ list' = [list EXCEPT ![t] = clusters[c]]
    BY <1>1 DEF Watch, Watchable, Register
  <2>2. /\ UNCHANGED <<clusters, deliveries, changed, failed>> /\ ~Updating(t)
        /\ list'[t] = clusters[c] /\ cluster'[t] = c
        /\ clusters[c] # 0 => Updating(t)'
    BY <1>1, <2>1 DEF Watch, Go, TypeOK, Updating
  <2>3. \A u \in Thread : u # t =>
            pc'[u] = pc[u] /\ cluster'[u] = cluster[u] /\ list'[u] = list[u]
    BY <1>1, <2>1 DEF Watch, Go, TypeOK
  <2>4. ReceiverOK'
    BY <2>2, <2>3 DEF ReceiverOK, Updating
  <2>5. clusters[c] # 0 => CallerBringsIt(c)'
    BY <2>2 DEF CallerBringsIt
  <2>6. ASSUME NEW d \in watchers, Served(d) PROVE Served(d)'
    BY <2>2, <2>3, <2>6 DEF ReceiverBringsIt, CallerBringsIt, UpToDate, Updating
  <2> QED BY <2>1, <2>2, <2>4, <2>5, <2>6 DEF Pending
<1>2. ASSUME NEW t \in Caller, DeliverFirst(t) PROVE ReceiverOK' /\ Pending'
  <2> DEFINE c == cluster[t]
  <2>1. c \in watchers /\ c \in Cluster /\ Updating(t)
    BY <1>2 DEF DeliverFirst, Handing, Updating, TypeOK
  <2>2. /\ UNCHANGED <<clusters, watchers, cluster, list, changed, failed>> /\ Hand(t)
        /\ \A u \in Thread : u # t => pc'[u] = pc[u]
    BY <1>2 DEF DeliverFirst, Go, TypeOK
  <2>3. ReceiverOK'
    BY <2>2 DEF ReceiverOK, Updating
  <2>4. \A d \in Cluster : d # c => deliveries'[d] = deliveries[d]
    BY <2>1, <2>2, HandAdds
  <2>5. ASSUME NEW d \in watchers, d # c, Served(d) PROVE Served(d)'
    BY <2>2, <2>4, <2>5 DEF ReceiverBringsIt, CallerBringsIt, UpToDate, Updating, TypeOK
  <2>6. ASSUME Served(c) PROVE Served(c)'
    <3>1. CASE ReceiverBringsIt(c)
      BY <2>2, <3>1 DEF ReceiverBringsIt, Updating
    <3>2. CASE CallerBringsIt(c)
      <4>1. list[t] = clusters[c]
        BY <2>1, <3>2 DEF CallerBringsIt, Handing
      <4> QED BY <2>1, <2>2, <4>1, HandUpdates
    <3>3. CASE UpToDate(c)
      <4>1. \A i \in 1..Len(deliveries[c]) : ~deliveries[c][i].first
        BY <2>1 DEF Handing
      <4> QED BY <2>1, <2>2, <3>3, <4>1, HandUpdates
    <3> QED BY <2>6, <3>1, <3>2, <3>3
  <2> QED BY <2>1, <2>2, <2>3, <2>5, <2>6 DEF Pending
<1>3. ASSUME UNCHANGED <<clusters, watchers, deliveries, changed, failed>>,
             \A u \in Thread : Updating(u) <=> Updating(u)',
             \A u \in Thread : Updating(u) => cluster'[u] = cluster[u] /\ list'[u] = list[u],
             pc'[Receiver] = "idle" => changed = {}
      PROVE  ReceiverOK' /\ Pending'
  <2>1. ReceiverOK'
    BY <1>3 DEF ReceiverOK
  <2>2. ASSUME NEW d \in watchers, Served(d) PROVE Served(d)'
    BY <1>3, <2>2 DEF ReceiverBringsIt, CallerBringsIt, UpToDate
  <2> QED BY <1>3, <2>1, <2>2 DEF Pending
<1>4. ASSUME NEW t \in Caller, Subscribe(t) PROVE ReceiverOK' /\ Pending'
  <2>1. /\ UNCHANGED <<clusters, watchers, deliveries, changed, failed>>
        /\ pc[t] = "subscribe" /\ pc'[t] = "idle"
        /\ \A u \in Thread : u # t =>
              pc'[u] = pc[u] /\ cluster'[u] = cluster[u] /\ list'[u] = list[u]
    BY <1>4 DEF Subscribe, Go, TypeOK
  <2> QED BY <1>3, <2>1 DEF Updating, ReceiverOK
<1>5. CASE Receive
  <2>1. PICK new \in SUBSET Cluster :
            /\ changed' = new
            /\ clusters' = [c \in Cluster |-> IF c \in new THEN clusters[c] + 1
                                              ELSE clusters[c]]
    BY <1>5 DEF Receive
  <2>2. /\ UNCHANGED <<watchers, deliveries, cluster, list, failed>>
        /\ pc[Receiver] = "idle" /\ pc'[Receiver] = "next" /\ changed = {}
        /\ \A u \in Thread : u # Receiver => pc'[u] = pc[u]
    BY <1>5 DEF Receive, Go, TypeOK, ReceiverOK
  <2>3. ReceiverOK'
    BY <2>2 DEF ReceiverOK, Updating
  <2>4. ASSUME NEW d \in watchers, d \notin new, Served(d) PROVE Served(d)'
    <3>1. clusters'[d] = clusters[d] /\ d \in Cluster
      BY <2>1, <2>4 DEF TypeOK
    <3> QED BY <2>2, <2>4, <3>1 DEF ReceiverBringsIt, CallerBringsIt, UpToDate, Updating
  <2>5. \A d \in new : ReceiverBringsIt(d)'
    BY <2>1 DEF ReceiverBringsIt
  <2>6. \A d \in watchers : d \notin new => clusters'[d] = clusters[d]
    BY <2>1 DEF TypeOK
  <2> QED BY <2>2, <2>3, <2>4, <2>5, <2>6 DEF Pending
<1>6. CASE PickCluster
  <2>1. PICK c \in changed :
          /\ changed' = changed \ {c}
          /\ \/ /\ c \in watchers
                /\ cluster' = [cluster EXCEPT ![Receiver] = c]
                /\ list' = [list EXCEPT ![Receiver] = clusters[c]]
                /\ Go(Receiver, "update")
             \/ c \notin watchers /\ UNCHANGED <<cluster, list, pc>>
    BY <1>6 DEF PickCluster
  <2>2. /\ UNCHANGED <<clusters, watchers, deliveries, failed>> /\ pc[Receiver] = "next"
        /\ \A u \in Thread : u # Receiver =>
              pc'[u] = pc[u] /\ cluster'[u] = cluster[u] /\ list'[u] = list[u]
    BY <1>6, <2>1 DEF PickCluster, Go, TypeOK
  <2>3. CASE c \in watchers
    <3>1. pc'[Receiver] = "update" /\ cluster'[Receiver] = c /\ list'[Receiver] = clusters[c]
      BY <2>1, <2>3 DEF Go, TypeOK
    <3>2. ReceiverOK'
      BY <2>2, <3>1 DEF ReceiverOK
    <3>3. ASSUME NEW d \in watchers, Served(d) PROVE Served(d)'
      BY <2>1, <2>2, <3>1, <3>3 DEF ReceiverBringsIt, CallerBringsIt, UpToDate, Updating
    <3> QED BY <2>2, <3>2, <3>3 DEF Pending
  <2>4. CASE c \notin watchers
    <3>1. UNCHANGED <<cluster, list, pc>>
      BY <2>1, <2>4
    <3>2. ReceiverOK'
      BY <2>2, <3>1 DEF ReceiverOK, Updating
    <3>3. ASSUME NEW d \in watchers, Served(d) PROVE Served(d)'
      BY <2>1, <2>2, <2>4, <3>1, <3>3 DEF ReceiverBringsIt, CallerBringsIt, UpToDate, Updating
    <3> QED BY <2>2, <3>2, <3>3 DEF Pending
  <2> QED BY <2>3, <2>4
<1>7. CASE DeliverChange
  <2> DEFINE c == cluster[Receiver]
  <2>1. /\ c \in Cluster /\ list[Receiver] = clusters[c]
    BY <1>7 DEF DeliverChange, Handing, Updating, ReceiverOK, TypeOK
  <2>2. /\ UNCHANGED <<clusters, watchers, cluster, list>> /\ Hand(Receiver)
        /\ pc'[Receiver] = "next" /\ \A u \in Thread : u # Receiver => pc'[u] = pc[u]
    BY <1>7 DEF DeliverChange, Go, TypeOK
  <2>3. ReceiverOK'
    BY <2>2 DEF ReceiverOK, Updating
  <2>4. UpToDate(c)'
    BY <2>1, <2>2, HandUpdates
  <2>5. \A d \in Cluster : d # c => deliveries'[d] = deliveries[d]
    BY <2>1, <2>2, HandAdds
  <2>6. ASSUME UNCHANGED <<changed, failed>>, NEW d \in watchers, d # c, Served(d)
        PROVE  Served(d)'
    BY <2>2, <2>5, <2>6 DEF ReceiverBringsIt, CallerBringsIt, UpToDate, Updating, TypeOK
  <2>7. UNCHANGED <<changed, failed>> \/ failed' = TRUE
    BY <1>7 DEF DeliverChange
  <2> QED BY <2>2, <2>3, <2>4, <2>6, <2>7 DEF Pending
<1>8. CASE Finish
  <2>1. /\ UNCHANGED <<clusters, watchers, deliveries, changed, failed>>
        /\ changed = {} /\ pc[Receiver] = "next" /\ pc'[Receiver] = "idle"
        /\ \A u \in Thread : u # Receiver =>
              pc'[u] = pc[u] /\ cluster'[u] = cluster[u] /\ list'[u] = list[u]
    BY <1>8 DEF Finish, Go, TypeOK
  <2> QED BY <1>3, <2>1 DEF Updating
<1>9. ASSUME NEW t \in Thread, RaiseVersion(t) PROVE ReceiverOK' /\ Pending'
  <2>1. /\ UNCHANGED <<clusters, watchers, deliveries, changed, failed, cluster, list>>
        /\ pc[t] = "update" /\ pc'[t] = "deliver"
        /\ \A u \in Thread : u # t => pc'[u] = pc[u]
    BY <1>9 DEF RaiseVersion, Go, TypeOK
  <2> QED BY <1>3, <2>1 DEF Updating, ReceiverOK
<1>10. CASE UNCHANGED vars
  BY <1>3, <1>10 DEF Updating, ReceiverOK
<1> QED BY <1>1, <1>2, <1>4, <1>5, <1>6, <1>7, <1>8, <1>9, <1>10 DEF Next

(* When every thread is idle nothing is on its way.                         *)
LEMMA PendingImplies == ReceiverOK /\ Pending => NoUpdateMissed
BY ThreadKinds DEF ReceiverOK, Pending, NoUpdateMissed, Quiet, ReceiverBringsIt, CallerBringsIt,
                   Updating

-----------------------------------------------------------------------------
(* The theorems                                                            *)

EdsInv ==
    /\ TypeOK /\ Counted /\ ListedOnce /\ AskedFor /\ Handing /\ Versioned
    /\ ReceiverOK /\ Pending

LEMMA InitInv == Init => EdsInv
<1> SUFFICES ASSUME Init PROVE EdsInv
  OBVIOUS
<1>1. TypeOK /\ Counted
  BY InitType
<1>2. ListedOnce
  BY FS_EmptySet DEF Init, ListedOnce
<1>3. AskedFor
  BY DEF Init, AskedFor, Begins
<1>4. Handing
  BY ThreadKinds DEF Init, Handing, Updating
<1>5. Versioned
  BY DEF Init, Versioned, VersionsAreDistinct
<1>6. ReceiverOK /\ Pending
  BY ThreadKinds DEF Init, ReceiverOK, Pending, Updating
<1> QED BY <1>1, <1>2, <1>3, <1>4, <1>5, <1>6 DEF EdsInv

LEMMA NextInv == EdsInv /\ [Next]_vars => EdsInv'
BY NextType, ListKeeps, HandingKeeps, VersionedKeeps, PendingKeeps DEF EdsInv

(* The invariants above hold together, whichever goroutines watch, and     *)
(* whatever the responses name (WatchList, onEndpointsUpdate).             *)
THEOREM EdsInvariant == Spec => []EdsInv
BY InitInv, NextInv, PTL DEF Spec

(* What was asked for is always a beginning of the clusters watched, in    *)
(* their order (WatchList, UpdateSubscribedClusters).                      *)
THEOREM OnlyWatchedIsSubscribed == Spec => []SubscribedIsWatched
<1>1. EdsInv => SubscribedIsWatched
  BY ListImplies DEF EdsInv
<1> QED BY <1>1, EdsInvariant, PTL

(* No two deliveries to a watcher carry one version (updateService).       *)
THEOREM VersionsNeverRepeat == Spec => []VersionsAreDistinct
<1>1. EdsInv => VersionsAreDistinct
  BY DEF EdsInv, Versioned
<1> QED BY <1>1, EdsInvariant, PTL

(* Between responses and calls, as long as no callback has failed, every   *)
(* watcher has been given the last endpoints (onEndpointsUpdate).          *)
THEOREM EveryChangeArrives == Spec => []NoUpdateMissed
<1>1. EdsInv => NoUpdateMissed
  BY PendingImplies DEF EdsInv
<1> QED BY <1>1, EdsInvariant, PTL

=============================================================================
