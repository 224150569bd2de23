---------------------------------- MODULE Wrr ----------------------------------
(***************************************************************************)
(* The weighted balancer (loadbalance/wrr/wrr.go): servers in the order    *)
(* they were added, each with its weight and its index, and the list that  *)
(* NextServer picks from, which holds cumulative weights.                  *)
(***************************************************************************)
EXTENDS Integers, Sequences

CONSTANT Id  \* nodes, by Service.ID

(* RoundRobinWeight: servers, the keys of serversMap, and each server's    *)
(* fields.                                                                 *)
NewRoundRobinWeight ==
    [servers |-> <<>>, serversMap |-> {},
     weight |-> [id \in Id |-> 0], index |-> [id \in Id |-> 0]]

DefaultWeight == 1

(* A server that is there already stays as it is, its weight too.          *)
UpsertServer(r, id, weight) ==
    IF id \in r.serversMap THEN r
    ELSE [servers    |-> Append(r.servers, id),
          serversMap |-> r.serversMap \cup {id},
          weight     |-> [r.weight EXCEPT ![id] = IF weight = 0 THEN DefaultWeight ELSE weight],
          index      |-> [r.index EXCEPT ![id] = Len(r.servers)]]

(* The servers behind the removed one move up.  (Positions count from 1.)  *)
KeepIndexes(r, e) == r.index
MoveUp(r, e) ==
    [id \in Id |-> IF \E i \in r.index[e] + 2..Len(r.servers) : r.servers[i] = id
                   THEN r.index[id] - 1 ELSE r.index[id]]

RemoveServer(r, id) ==
    [servers    |-> SubSeq(r.servers, 1, r.index[id])
                    \o SubSeq(r.servers, r.index[id] + 2, Len(r.servers)),
     serversMap |-> r.serversMap \ {id},
     weight     |-> r.weight,
     index      |-> MoveUp(r, id)]

(* Copies of the servers, with cumulative weights.  (Those of negative     *)
(* weight would be left out first; the weights here are natural numbers.)  *)
BuildServerList(r) ==
    LET upTo[i \in 0..Len(r.servers)] ==
            IF i = 0 THEN 0 ELSE upTo[i - 1] + r.weight[r.servers[i]]
    IN  [i \in 1..Len(r.servers) |-> [id |-> r.servers[i], weight |-> upTo[i]]]

SumOfWeights(serverList) ==
    IF serverList = <<>> THEN 0 ELSE serverList[Len(serverList)].weight

(* nextServer: the binary search for the first cumulative weight above a   *)
(* random number.                                                          *)
NextServer(serverList, val) ==
    LET n == Len(serverList)
        search[range \in (0..n) \X (0..n)] ==
            LET li == range[1]
                ri == range[2]
                m == (li + ri) \div 2
            IN  IF li >= ri THEN li
                ELSE IF serverList[m + 1].weight <= val THEN search[<<m + 1, ri>>]
                ELSE search[<<li, m>>]
    IN  serverList[search[<<0, n>>] + 1].id

=============================================================================
