------------------------------ MODULE AdsClient ------------------------------
(***************************************************************************)
(* The ads client (adapter/eds/xds/v2): one send thread that asks for      *)
(* endpoints on a stream, one receive thread that hands the responses on,  *)
(* a goroutine that retries the first connection, and Stop.  Streams break *)
(* at any time and take requests and responses with them.                  *)
(*                                                                         *)
(* Streams are numbered as they are opened.  The endpoints of the one      *)
(* cluster looked at are identified with the number of times they have     *)
(* changed at the control plane.                                           *)
(***************************************************************************)
EXTENDS Integers, Sequences

CONSTANTS
    Invalid,     \* a response that Validate, HandleTypeURL or its handler rejects
    MaxChanges,  \* bound: changes of the endpoints
    MaxFaults,   \* bound: broken streams, failed connections, invalid responses
    MaxQueue     \* bound: responses waiting on a stream

ASSUME AdsAssumption ==
    /\ Invalid \notin Nat
    /\ MaxChanges \in Nat /\ MaxFaults \in Nat /\ MaxQueue \in Nat

VARIABLES
    stop,        \* "no", "stoped" (the flag is set), "closed" (and the channel closed)
    conn,        \* the grpc connection
    client,      \* sc.client: the newest stream, 0 before the first
    cancelled,   \* streams whose context is cancelled
    broken,      \* streams that have ended by themselves
    asked,       \* streams with an unanswered request that names the cluster
    queue,       \* responses waiting on each stream
    subscribed,  \* subscribedClusters names the cluster
    starter,     \* Start and its retry goroutine
    sender,      \* the send thread
    receiver,    \* the receive thread
    held,        \* the stream the receive thread calls Recv on
    response,    \* the response it is handling
    known,       \* the endpoints onEndpointsUpdate was last called with
    truth,       \* the endpoints the control plane has
    faults       \* broken streams, failed connections, invalid responses

stream == <<client, cancelled, broken, asked, queue>>
threads == <<starter, sender, receiver>>
receiving == <<held, response, known>>
adsVars == <<stop, conn, stream, subscribed, threads, receiving, truth, faults>>

Stream == 1..MaxFaults + 1

Init ==
    /\ stop = "no"
    /\ conn = "none"
    /\ client = 0
    /\ cancelled = {} /\ broken = {} /\ asked = {}
    /\ queue = [s \in Stream |-> <<>>]
    /\ subscribed \in BOOLEAN
    /\ starter = "new" /\ sender = "none" /\ receiver = "none"
    /\ held = 0 /\ response = 0 /\ known = 0
    /\ truth = 0
    /\ faults = 0

Stoped == stop # "no"
Alive(s) == s \notin cancelled \cup broken
Fault == faults < MaxFaults /\ faults' = faults + 1

-----------------------------------------------------------------------------
(* Start: the first stream, or a goroutine that tries again                *)

GetStreamClient ==
    \/ /\ conn' = "open"
       /\ client' = 1
       /\ starter' = "done" /\ sender' = "hello" /\ receiver' = "loop"
       /\ UNCHANGED faults
    \/ Fault /\ starter' = "retry" /\ UNCHANGED <<conn, client, sender, receiver>>

Start ==
    /\ starter = "new"
    /\ GetStreamClient
    /\ UNCHANGED <<stop, cancelled, broken, asked, queue, subscribed, receiving, truth>>

CheckStoped ==
    /\ starter = "retry"
    /\ starter' = IF Stoped THEN "done" ELSE "connect"
    /\ UNCHANGED <<stop, conn, stream, subscribed, sender, receiver, receiving, truth,
                   faults>>

Retry ==
    /\ starter = "connect"
    /\ GetStreamClient
    /\ UNCHANGED <<stop, cancelled, broken, asked, queue, subscribed, receiving, truth>>

-----------------------------------------------------------------------------
(* The send thread                                                         *)

(* A request for the cluster, or for others; a stream that has ended       *)
(* refuses it.                                                             *)
ReqEndpoints(named) ==
    /\ IF Alive(client)
       THEN asked' = (IF named THEN asked \cup {client} ELSE asked) /\ sender' = "select"
       ELSE sender' = "reconnect" /\ UNCHANGED asked
    /\ UNCHANGED <<stop, conn, client, cancelled, broken, queue, subscribed, starter,
                   receiver, receiving, truth, faults>>

Hello == sender = "hello" /\ ReqEndpoints(TRUE)

RefreshAllSubscribed == sender = "select" /\ ReqEndpoints(subscribed)
RefreshAll == sender = "select" /\ ReqEndpoints(TRUE)
Refresh == sender = "select" /\ ReqEndpoints(subscribed)

Reconnect ==
    /\ sender = "reconnect"
    /\ sender' = IF Stoped THEN "select" ELSE "generate"
    /\ UNCHANGED <<stop, conn, stream, subscribed, starter, receiver, receiving, truth,
                   faults>>

(* A new stream takes the place of the old one, which is cancelled.        *)
GenerateClient ==
    /\ sender = "generate"
    /\ \/ /\ client' = client + 1
          /\ cancelled' = cancelled \cup {client}
          /\ sender' = "select"
          /\ UNCHANGED faults
       \/ Fault /\ sender' = "reconnect" /\ UNCHANGED <<client, cancelled>>
    /\ UNCHANGED <<stop, conn, broken, asked, queue, subscribed, starter, receiver,
                   receiving, truth>>

(* The channel is closed, so both threads see it; a value sent on it would *)
(* reach one.                                                              *)
CloseSignalOnce == stop = "closed" /\ sender # "done" /\ receiver # "done"
CloseSignal == stop = "closed"

CloseADSStreamClient ==
    /\ sender = "select"
    /\ CloseSignal
    /\ cancelled' = cancelled \cup {client}
    /\ conn' = "closed"
    /\ sender' = "done"
    /\ UNCHANGED <<stop, client, broken, asked, queue, subscribed, starter, receiver,
                   receiving, truth, faults>>

-----------------------------------------------------------------------------
(* The receive thread                                                      *)

StreamsToRead == Stream \cap 1..client
StreamToRead == {client}

GetClient ==
    /\ receiver = "loop"
    /\ IF CloseSignal
       THEN receiver' = "done" /\ UNCHANGED held
       ELSE receiver' = "recv" /\ held' \in StreamToRead
    /\ UNCHANGED <<stop, conn, stream, subscribed, starter, sender, response, known, truth,
                   faults>>

(* The next response, or the error of a stream that has ended, which drops *)
(* what still waits there.                                                 *)
Recv ==
    /\ receiver = "recv"
    /\ \/ /\ queue[held] # <<>>
          /\ response' = Head(queue[held])
          /\ queue' = [queue EXCEPT ![held] = Tail(@)]
          /\ receiver' = "handle"
       \/ /\ ~Alive(held)
          /\ queue' = [queue EXCEPT ![held] = <<>>]
          /\ receiver' = "loop"
          /\ UNCHANGED response
    /\ UNCHANGED <<stop, conn, client, cancelled, broken, asked, subscribed, starter,
                   sender, held, known, truth, faults>>

(* What is invalid is logged and left alone.                               *)
HandleTypeURL ==
    /\ receiver = "handle"
    /\ known' = IF response = Invalid THEN known ELSE response
    /\ response' = 0
    /\ receiver' = "loop"
    /\ UNCHANGED <<stop, conn, stream, subscribed, starter, sender, held, truth, faults>>

-----------------------------------------------------------------------------
(* Stop, and what others do                                                *)

SetStoped ==
    /\ stop = "no"
    /\ stop' = "stoped"
    /\ UNCHANGED <<conn, stream, subscribed, threads, receiving, truth, faults>>

CloseChannel ==
    /\ stop = "stoped"
    /\ stop' = "closed"
    /\ UNCHANGED <<conn, stream, subscribed, threads, receiving, truth, faults>>

UpdateSubscribedClusters ==
    /\ subscribed' \in BOOLEAN
    /\ UNCHANGED <<stop, conn, stream, threads, receiving, truth, faults>>

EndpointsChange ==
    /\ truth < MaxChanges
    /\ truth' = truth + 1
    /\ UNCHANGED <<stop, conn, stream, subscribed, threads, receiving, faults>>

(* The control plane answers on the stream it was asked on.                *)
Answer(s) ==
    /\ s \in asked /\ Alive(s)
    /\ Len(queue[s]) < MaxQueue
    /\ asked' = asked \ {s}
    /\ \/ queue' = [queue EXCEPT ![s] = Append(@, truth)] /\ UNCHANGED faults
       \/ queue' = [queue EXCEPT ![s] = Append(@, Invalid)] /\ Fault
    /\ UNCHANGED <<stop, conn, client, cancelled, broken, subscribed, threads, receiving,
                   truth>>

StreamBreaks ==
    /\ client # 0 /\ Alive(client)
    /\ Fault
    /\ broken' = broken \cup {client}
    /\ asked' = asked \ {client}
    /\ UNCHANGED <<stop, conn, client, cancelled, queue, subscribed, threads, receiving,
                   truth>>

-----------------------------------------------------------------------------

Starter == CheckStoped \/ Retry
Sender == Hello \/ Reconnect \/ GenerateClient
Receiver == GetClient \/ Recv \/ HandleTypeURL

Next ==
    \/ Start \/ Starter
    \/ Sender \/ RefreshAll \/ Refresh \/ CloseADSStreamClient
    \/ Receiver
    \/ SetStoped \/ CloseChannel \/ UpdateSubscribedClusters
    \/ EndpointsChange \/ StreamBreaks \/ \E s \in Stream : Answer(s)

Spec == Init /\ [][Next]_adsVars

(* Goroutines run; the tickers tick and a select that is offered a case    *)
(* again and again takes it in the end, as it picks at random; the control *)
(* plane answers what reaches it.  Connections are refused and streams     *)
(* break finitely often (MaxFaults).                                       *)
Fairness ==
    /\ WF_adsVars(Starter) /\ WF_adsVars(Sender) /\ WF_adsVars(Receiver)
    /\ SF_adsVars(RefreshAll) /\ SF_adsVars(Refresh) /\ SF_adsVars(CloseADSStreamClient)
    /\ WF_adsVars(CloseChannel)
    /\ \A s \in Stream : WF_adsVars(Answer(s))

FairSpec == Spec /\ Fairness

-----------------------------------------------------------------------------
(* Properties                                                              *)

(* Every variable holds what the Go variable it stands for can hold.       *)
TypeOK ==
    /\ stop \in {"no", "stoped", "closed"}
    /\ conn \in {"none", "open", "closed"}
    /\ client \in 0..MaxFaults + 1
    /\ cancelled \subseteq Stream /\ broken \subseteq Stream /\ asked \subseteq Stream
    /\ queue \in [Stream -> Seq(Nat \cup {Invalid})]
    /\ subscribed \in BOOLEAN
    /\ starter \in {"new", "retry", "connect", "done"}
    /\ sender \in {"none", "hello", "select", "reconnect", "generate", "done"}
    /\ receiver \in {"none", "loop", "recv", "handle", "done"}
    /\ held \in 0..MaxFaults + 1
    /\ response \in Nat \cup {Invalid}
    /\ known \in Nat /\ truth \in Nat
    /\ faults \in 0..MaxFaults

(* Endpoints that were handed on are never replaced by older ones, though  *)
(* an old stream may hold responses when a new one is in use already: one  *)
(* thread reads, and it reads the newest stream only (receiveThread).      *)
NeverGoesBack == [][known' >= known]_adsVars

(* The control plane's endpoints are known in the end, however streams     *)
(* break and whatever is subscribed: a broken stream is replaced, which    *)
(* only the send thread does, and the cluster is asked for even if a race  *)
(* in WatchList has lost its subscription (sendThread's "$all").           *)
EndpointsAreLearnt ==
    <>[](starter = "new" \/ Stoped \/ known = truth)

(* Stop ends both threads and closes the connection, also when it comes    *)
(* while the first connection is retried or a stream is being replaced: no *)
(* thread stays behind in Recv, and none is started after it.              *)
StopEndsClient ==
    stop = "closed" /\ starter # "new"
        ~> []( /\ starter = "done"
               /\ sender \in {"none", "done"} /\ receiver \in {"none", "done"}
               /\ conn # "open"
               /\ \A s \in 1..client : ~Alive(s))

=============================================================================
