--------------------------- MODULE AdsClientProofs ---------------------------
(* Theorems about the ads client, however often streams break.              *)
EXTENDS AdsClient, SequenceTheorems, TLAPS

(* Which streams there are: the newest is the only one that can be alive,   *)
(* and a new one is opened only after a fault has broken it, so that streams*)
(* never outnumber the faults by more than one.                             *)
Threads ==
    /\ starter # "done" => client = 0
    /\ client = 0 => sender = "none" /\ receiver = "none"
    /\ receiver \in {"recv", "handle"} => held >= 1
    /\ client \in cancelled => sender = "done"
    /\ sender \in {"reconnect", "generate"} => client \in broken

Numbered ==
    /\ held <= client
    /\ \A s \in Stream : s < client => s \in cancelled
    /\ \A s \in Stream : s > client =>
          s \notin cancelled /\ s \notin broken /\ s \notin asked /\ queue[s] = <<>>
    /\ client <= faults + 1
    /\ client \in broken => client <= faults

Streams == Threads /\ Numbered

(* Endpoints that are not newer; what is invalid has no age.                *)
Before(v, w) == v # Invalid /\ w # Invalid => v <= w

(* Responses wait in the order of the changes they tell of, along a stream  *)
(* and from each stream to the next.                                        *)
InOrder ==
    \A s, t \in Stream : \A i \in 1..Len(queue[s]), j \in 1..Len(queue[t]) :
        s < t \/ (s = t /\ i < j) => Before(queue[s][i], queue[t][j])

Past == \A s \in Stream : \A i \in 1..Len(queue[s]) : Before(queue[s][i], truth)

(* What can still be read is no older than what has been read.              *)
Waiting ==
    \A s \in Stream : \A i \in 1..Len(queue[s]) :
        s >= held => /\ Before(known, queue[s][i])
                     /\ receiver = "handle" => Before(response, queue[s][i])

Handled ==
    /\ known <= truth
    /\ receiver = "handle" => Before(known, response) /\ Before(response, truth)

AdsInv == TypeOK /\ Streams /\ InOrder /\ Past /\ Waiting /\ Handled

Value == Nat \cup {Invalid}

LEMMA ConstantsType == MaxFaults \in Nat /\ MaxQueue \in Nat /\ Invalid \notin Nat
BY AdsAssumption DEF AdsAssumption

LEMMA QueueType ==
    ASSUME TypeOK, NEW s \in Stream
    PROVE  /\ queue[s] \in Seq(Value) /\ Len(queue[s]) \in Nat
           /\ \A i \in 1..Len(queue[s]) : queue[s][i] \in Value
<1>1. queue[s] \in Seq(Value)
  BY DEF TypeOK, Value
<1> QED BY <1>1, LenProperties, ElementOfSeq

-----------------------------------------------------------------------------
(* Types and streams                                                        *)

LEMMA InitStreams == Init => TypeOK /\ Streams
<1> SUFFICES ASSUME Init PROVE TypeOK /\ Streams
  OBVIOUS
<1>1. <<>> \in Seq(Value) /\ 0 \in 0..MaxFaults + 1 /\ 0 \in 0..MaxFaults
  BY ConstantsType
<1>2. queue \in [Stream -> Seq(Value)]
  BY <1>1 DEF Init
<1>3. TypeOK
  BY <1>1, <1>2 DEF Init, TypeOK, Value
<1>4. Streams
  BY ConstantsType DEF Init, Streams, Threads, Numbered, Stream
<1> QED BY <1>3, <1>4

(* Nothing of the streams' has changed.                                     *)
LEMMA StreamsRest ==
    ASSUME TypeOK, Streams, UNCHANGED <<stream, starter, sender, receiver, held, faults>>
    PROVE  Streams'
BY DEF Streams, Threads, Numbered, stream

(* The first stream, or a failed attempt to open it.                        *)
LEMMA FirstStream ==
    ASSUME TypeOK, Streams, starter \in {"new", "connect"}, GetStreamClient,
           UNCHANGED <<stop, cancelled, broken, asked, queue, subscribed, receiving, truth>>
    PROVE  TypeOK' /\ Streams'
<1>1. client = 0 /\ sender = "none" /\ receiver = "none" /\ held <= 0
  BY DEF Streams, Threads, Numbered
<1>2. TypeOK'
  <2>1. 1 \in 0..MaxFaults + 1 /\ (Fault => faults' \in 0..MaxFaults)
    BY ConstantsType DEF Fault, TypeOK
  <2> QED BY <2>1, <1>1 DEF GetStreamClient, TypeOK, receiving, Fault
<1>3. \A s \in Stream : s > 0 /\ ~(s < 1) /\ ~(s < 0)
  BY ConstantsType DEF Stream
<1>4. 0 <= faults' + 1 /\ 1 <= faults' + 1 /\ held <= 1
  <2>1. \A n \in 0..MaxFaults : n \in Nat /\ 0 <= n + 1 /\ 1 <= n + 1
    BY ConstantsType
  <2>2. faults' \in 0..MaxFaults /\ held \in Nat
    BY <1>2 DEF TypeOK, GetStreamClient, Fault
  <2>3. \A n \in Nat : n <= 0 => n <= 1
    OBVIOUS
  <2> QED BY <1>1, <2>1, <2>2, <2>3
<1>5. \A s \in Stream :
         s \notin cancelled /\ s \notin broken /\ s \notin asked /\ queue[s] = <<>>
  BY <1>1, <1>3 DEF Streams, Numbered
<1>6. CASE /\ client' = 1 /\ starter' = "done" /\ sender' = "hello" /\ receiver' = "loop"
           /\ UNCHANGED faults
  <2>1. 1 \in Stream
    BY ConstantsType DEF Stream
  <2>2. /\ client' = 1 /\ cancelled' = cancelled /\ broken' = broken /\ asked' = asked
        /\ queue' = queue /\ held' = held /\ faults' = faults
    BY <1>6 DEF receiving
  <2>3. client' \notin cancelled' /\ client' \notin broken' /\ client' <= faults' + 1
        /\ held' <= client'
    BY <1>1, <1>4, <1>5, <2>1, <2>2
  <2>4. \A s \in Stream : ~(s < client')
    BY <1>3, <2>2
  <2>5. \A s \in Stream :
           s \notin cancelled' /\ s \notin broken' /\ s \notin asked' /\ queue'[s] = <<>>
    BY <1>5, <2>2
  <2>6. client' # 0 /\ starter' = "done" /\ sender' = "hello" /\ receiver' = "loop"
    BY <1>6
  <2>7. Threads'
    BY <2>3, <2>6 DEF Threads
  <2>8. Numbered'
    BY <2>3, <2>4, <2>5 DEF Numbered
  <2> QED BY <1>2, <2>7, <2>8 DEF Streams
<1>7. CASE Fault /\ starter' = "retry" /\ UNCHANGED <<conn, client, sender, receiver>>
  <2>1. /\ client' = 0 /\ cancelled' = cancelled /\ broken' = broken /\ asked' = asked
        /\ queue' = queue /\ held' = held /\ sender' = "none" /\ receiver' = "none"
    BY <1>1, <1>7 DEF receiving
  <2>2. 0 \notin broken /\ 0 \notin cancelled
    BY DEF TypeOK, Stream
  <2>3. client' \notin cancelled' /\ client' \notin broken' /\ client' <= faults' + 1
        /\ held' <= client'
    BY <1>1, <1>4, <2>1, <2>2
  <2>4. \A s \in Stream : ~(s < client')
    BY <1>3, <2>1
  <2>5. \A s \in Stream :
           s \notin cancelled' /\ s \notin broken' /\ s \notin asked' /\ queue'[s] = <<>>
    BY <1>5, <2>1
  <2>7. Threads'
    BY <2>1, <2>3 DEF Threads
  <2>8. Numbered'
    BY <2>3, <2>4, <2>5 DEF Numbered
  <2> QED BY <1>2, <2>7, <2>8 DEF Streams
<1> QED BY <1>2, <1>6, <1>7 DEF GetStreamClient

LEMMA StartKeeps ==
    ASSUME TypeOK, Streams, Start \/ Retry
    PROVE  TypeOK' /\ Streams'
BY FirstStream DEF Start, Retry

LEMMA ThreadsRest ==
    ASSUME Threads, UNCHANGED <<client, held, starter, sender, receiver>>,
           client \in cancelled' => client \in cancelled, broken \subseteq broken'
    PROVE  Threads'
BY DEF Threads

LEMMA NumberedRest ==
    ASSUME Numbered, UNCHANGED <<client, held, cancelled, broken, asked, queue, faults>>
    PROVE  Numbered'
BY DEF Numbered

(* A request, on the newest stream.                                         *)
LEMMA RequestKeeps ==
    ASSUME TypeOK, Streams, NEW named, ReqEndpoints(named), sender \in {"hello", "select"}
    PROVE  TypeOK' /\ Streams'
<1>1. client # 0 /\ client \in Stream /\ client \notin cancelled
  <2>1. client # 0 /\ client \notin cancelled
    BY DEF Streams, Threads
  <2> QED BY <2>1, ConstantsType DEF TypeOK, Stream
<1>2. /\ UNCHANGED <<stop, conn, client, cancelled, broken, queue, subscribed, starter,
                     receiver, held, response, known, truth, faults>>
      /\ asked' \in {asked, asked \cup {client}}
      /\ sender' = "select" \/ (sender' = "reconnect" /\ client \in broken)
  BY <1>1 DEF ReqEndpoints, Alive, receiving
<1>3. TypeOK'
  BY <1>1, <1>2 DEF TypeOK
<1>4. Threads'
  BY <1>1, <1>2 DEF Streams, Threads
<1>5. Numbered'
  <2>1. \A s \in Stream : s > client => s # client
    BY <1>1 DEF Stream
  <2> QED BY <1>2, <2>1 DEF Streams, Numbered
<1> QED BY <1>3, <1>4, <1>5 DEF Streams

(* A new stream: there is room for it, since the one before it has broken.  *)
LEMMA GenerateKeeps ==
    ASSUME TypeOK, Streams, GenerateClient
    PROVE  TypeOK' /\ Streams'
<1>1. client \in broken /\ client # 0 /\ sender = "generate"
  BY DEF Streams, Threads, GenerateClient
<1>2. client \in Stream /\ client \in Nat /\ faults \in 0..MaxFaults /\ client <= faults
      /\ held \in Nat /\ held <= client
  BY <1>1, ConstantsType DEF TypeOK, Streams, Numbered, Stream
<1>3. UNCHANGED <<stop, conn, broken, asked, queue, subscribed, starter,
                  receiver, held, response, known, truth>>
  BY DEF GenerateClient, receiving
<1>4. CASE /\ client' = client + 1 /\ cancelled' = cancelled \cup {client}
           /\ sender' = "select" /\ UNCHANGED faults
  <2>1. client' \in Stream /\ client' \in 0..MaxFaults + 1 /\ client' # 0
        /\ client' > client /\ held <= client' /\ client' <= faults' + 1
    BY <1>2, <1>4, ConstantsType DEF Stream
  <2>2. client' \notin cancelled /\ client' \notin broken
    BY <2>1 DEF Streams, Numbered
  <2>3. TypeOK'
    BY <1>2, <1>3, <1>4, <2>1 DEF TypeOK
  <2>4. client' \notin cancelled' /\ client' \notin broken'
    BY <1>2, <1>3, <1>4, <2>1, <2>2
  <2>5. Threads'
    BY <1>1, <1>3, <1>4, <2>1, <2>4 DEF Streams, Threads
  <2>6. \A s \in Stream : /\ s < client' => s < client \/ s = client
                          /\ s > client' => s > client /\ s # client
    BY <1>2, <1>4 DEF Stream
  <2>7. /\ \A s \in Stream : s < client' => s \in cancelled'
        /\ \A s \in Stream : s > client' =>
              s \notin cancelled' /\ s \notin broken' /\ s \notin asked' /\ queue'[s] = <<>>
    BY <1>3, <1>4, <2>6 DEF Streams, Numbered
  <2>8. Numbered'
    BY <1>3, <2>1, <2>4, <2>7 DEF Numbered
  <2> QED BY <2>3, <2>5, <2>8 DEF Streams
<1>5. CASE Fault /\ sender' = "reconnect" /\ UNCHANGED <<client, cancelled>>
  <2>1. faults' \in 0..MaxFaults /\ client <= faults' /\ client <= faults' + 1
    BY <1>2, <1>5, ConstantsType DEF Fault
  <2>2. TypeOK'
    BY <1>3, <1>5, <2>1 DEF TypeOK
  <2>3. Threads'
    BY <1>1, <1>3, <1>5 DEF Streams, Threads
  <2>4. Numbered'
    BY <1>3, <1>5, <2>1 DEF Streams, Numbered
  <2> QED BY <2>2, <2>3, <2>4 DEF Streams
<1> QED BY <1>4, <1>5 DEF GenerateClient

LEMMA SenderKeeps ==
    ASSUME TypeOK, Streams, Sender \/ RefreshAll \/ Refresh \/ CloseADSStreamClient
    PROVE  TypeOK' /\ Streams'
<1>1. CASE Hello \/ RefreshAll \/ Refresh
  BY <1>1, RequestKeeps DEF Hello, RefreshAll, Refresh
<1>2. CASE Reconnect
  <2>1. /\ UNCHANGED <<stop, conn, client, cancelled, broken, asked, queue, subscribed, starter,
                       receiver, held, response, known, truth, faults>>
        /\ sender = "reconnect" /\ sender' \in {"select", "generate"}
    BY <1>2 DEF Reconnect, stream, receiving
  <2>2. TypeOK'
    BY <2>1 DEF TypeOK
  <2>3. Threads' /\ Numbered'
    BY <2>1, NumberedRest DEF Streams, Threads
  <2> QED BY <2>2, <2>3 DEF Streams
<1>3. CASE CloseADSStreamClient
  <2>1. /\ UNCHANGED <<stop, client, broken, asked, queue, subscribed, starter,
                       receiver, held, response, known, truth, faults>>
        /\ sender = "select" /\ sender' = "done" /\ conn' = "closed"
        /\ cancelled' = cancelled \cup {client}
    BY <1>3 DEF CloseADSStreamClient, receiving
  <2>2. client # 0 /\ client \in Stream
    <3>1. client # 0
      BY <2>1 DEF Streams, Threads
    <3> QED BY <3>1, ConstantsType DEF TypeOK, Stream
  <2>3. TypeOK'
    BY <2>1, <2>2 DEF TypeOK
  <2>4. Threads'
    BY <2>1, <2>2 DEF Streams, Threads
  <2>5. \A s \in Stream : s > client => s # client
    BY <2>2 DEF Stream
  <2>6. Numbered'
    BY <2>1, <2>5 DEF Streams, Numbered
  <2> QED BY <2>3, <2>4, <2>6 DEF Streams
<1> QED BY <1>1, <1>2, <1>3, GenerateKeeps DEF Sender

LEMMA ReceiverKeeps ==
    ASSUME TypeOK, Streams, Receiver
    PROVE  TypeOK' /\ Streams'
<1>1. CASE GetClient
  <2>1. /\ UNCHANGED <<stop, conn, client, cancelled, broken, asked, queue, subscribed, starter,
                       sender, response, known, truth, faults>>
        /\ receiver = "loop"
        /\ \/ receiver' = "done" /\ held' = held
           \/ receiver' = "recv" /\ held' = client
    BY <1>1 DEF GetClient, StreamToRead, stream
  <2>2. client # 0 /\ client \in 0..MaxFaults + 1 /\ client >= 1 /\ client <= client
    <3>1. client # 0 /\ client \in 0..MaxFaults + 1
      BY <2>1 DEF Streams, Threads, TypeOK
    <3> QED BY <3>1, ConstantsType
  <2>3. TypeOK'
    BY <2>1, <2>2 DEF TypeOK
  <2>4. Threads'
    BY <2>1, <2>2 DEF Streams, Threads
  <2>5. Numbered'
    BY <2>1, <2>2 DEF Streams, Numbered
  <2> QED BY <2>3, <2>4, <2>5 DEF Streams
<1>2. CASE Recv
  <2>1. /\ UNCHANGED <<stop, conn, client, cancelled, broken, asked, subscribed, starter,
                       sender, held, known, truth, faults>>
        /\ receiver = "recv"
    BY <1>2 DEF Recv
  <2>2. held \in Stream
    <3>1. held >= 1 /\ held \in 0..MaxFaults + 1
      BY <2>1 DEF Streams, Threads, TypeOK
    <3> QED BY <3>1, ConstantsType DEF Stream
  <2>3. queue[held] \in Seq(Value) /\ <<>> \in Seq(Value)
    BY <2>2, QueueType
  <2>4. /\ response' \in Value /\ receiver' \in {"handle", "loop"}
        /\ \E q \in Seq(Value) :
              queue' = [queue EXCEPT ![held] = q] /\ (queue[held] = <<>> => q = <<>>)
    <3>1. CASE /\ queue[held] # <<>> /\ response' = Head(queue[held]) /\ receiver' = "handle"
               /\ queue' = [queue EXCEPT ![held] = Tail(@)]
      <4>1. Head(queue[held]) \in Value /\ Tail(queue[held]) \in Seq(Value)
        BY <2>3, <3>1, HeadTailProperties
      <4> QED BY <3>1, <4>1
    <3>2. CASE /\ queue' = [queue EXCEPT ![held] = <<>>] /\ receiver' = "loop"
               /\ UNCHANGED response
      BY <2>3, <3>2 DEF TypeOK, Value
    <3> QED BY <1>2, <3>1, <3>2 DEF Recv
  <2>5. PICK q \in Seq(Value) :
           queue' = [queue EXCEPT ![held] = q] /\ (queue[held] = <<>> => q = <<>>)
    BY <2>4
  <2>6. TypeOK'
    BY <2>1, <2>4, <2>5 DEF TypeOK, Value
  <2>7. Threads'
    BY <2>1, <2>4 DEF Streams, Threads
  <2>8. \A s \in Stream : queue[s] = <<>> => queue'[s] = <<>>
    BY <2>5 DEF TypeOK
  <2>9. Numbered'
    BY <2>1, <2>8 DEF Streams, Numbered
  <2> QED BY <2>6, <2>7, <2>9 DEF Streams
<1>3. CASE HandleTypeURL
  <2>1. /\ UNCHANGED <<stop, conn, client, cancelled, broken, asked, queue, subscribed, starter,
                       sender, held, truth, faults>>
        /\ receiver = "handle" /\ receiver' = "loop" /\ response' = 0
        /\ known' = IF response = Invalid THEN known ELSE response
    BY <1>3 DEF HandleTypeURL, stream
  <2>2. TypeOK'
    BY <2>1 DEF TypeOK
  <2>3. Threads' /\ Numbered'
    BY <2>1, NumberedRest DEF Streams, Threads
  <2> QED BY <2>2, <2>3 DEF Streams
<1> QED BY <1>1, <1>2, <1>3 DEF Receiver

(* The control plane, the network and the callers.                          *)
LEMMA OtherKeeps ==
    ASSUME TypeOK, Streams,
           \/ CheckStoped \/ SetStoped \/ CloseChannel \/ UpdateSubscribedClusters
           \/ EndpointsChange \/ StreamBreaks \/ (\E s \in Stream : Answer(s))
           \/ UNCHANGED adsVars
    PROVE  TypeOK' /\ Streams'
<1>1. CASE CheckStoped
  <2>1. /\ UNCHANGED <<stop, conn, client, cancelled, broken, asked, queue, subscribed, sender,
                       receiver, held, response, known, truth, faults>>
        /\ starter = "retry" /\ starter' \in {"done", "connect"}
    BY <1>1 DEF CheckStoped, stream, receiving
  <2>2. TypeOK'
    BY <2>1 DEF TypeOK
  <2>3. Threads' /\ Numbered'
    BY <2>1, NumberedRest DEF Streams, Threads
  <2> QED BY <2>2, <2>3 DEF Streams
<1>2. CASE SetStoped \/ CloseChannel \/ UpdateSubscribedClusters \/ EndpointsChange
           \/ UNCHANGED adsVars
  <2>1. /\ UNCHANGED <<stream, starter, sender, receiver, held, response, known, faults>>
        /\ conn' = conn
    BY <1>2 DEF SetStoped, CloseChannel, UpdateSubscribedClusters, EndpointsChange, adsVars,
                threads, receiving
  <2>2. /\ stop' \in {"no", "stoped", "closed"} /\ subscribed' \in BOOLEAN /\ truth' \in Nat
    BY <1>2 DEF SetStoped, CloseChannel, UpdateSubscribedClusters, EndpointsChange, adsVars,
                TypeOK
  <2>3. TypeOK'
    BY <2>1, <2>2 DEF TypeOK, stream
  <2> QED BY <2>1, <2>3, StreamsRest
<1>3. CASE StreamBreaks
  <2>1. /\ UNCHANGED <<stop, conn, client, cancelled, queue, subscribed, starter, sender,
                       receiver, held, response, known, truth>>
        /\ client # 0 /\ Fault /\ broken' = broken \cup {client} /\ asked' = asked \ {client}
    BY <1>3 DEF StreamBreaks, threads, receiving
  <2>2. client \in Stream /\ client <= faults' /\ client <= faults' + 1
        /\ faults' \in 0..MaxFaults
    <3>1. client <= faults + 1 /\ client \in 0..MaxFaults + 1 /\ faults \in 0..MaxFaults
          /\ faults' = faults + 1 /\ faults < MaxFaults
      BY <2>1 DEF Streams, Numbered, TypeOK, Fault
    <3> QED BY <2>1, <3>1, ConstantsType DEF Stream
  <2>3. TypeOK'
    BY <2>1, <2>2 DEF TypeOK
  <2>4. Threads'
    BY <2>1, ThreadsRest DEF Streams
  <2>5. \A s \in Stream : s > client => s # client
    BY <2>2 DEF Stream
  <2>6. Numbered'
    BY <2>1, <2>2, <2>5 DEF Streams, Numbered
  <2> QED BY <2>3, <2>4, <2>6 DEF Streams
<1>4. ASSUME NEW s \in Stream, Answer(s) PROVE TypeOK' /\ Streams'
  <2>1. /\ UNCHANGED <<stop, conn, client, cancelled, broken, subscribed, starter, sender,
                       receiver, held, response, known, truth>>
        /\ s \in asked /\ asked' = asked \ {s}
        /\ faults' = faults \/ Fault
    BY <1>4 DEF Answer, threads, receiving
  <2>2. PICK v \in Value : queue' = [queue EXCEPT ![s] = Append(@, v)]
    BY <1>4 DEF Answer, TypeOK, Value
  <2>3. Append(queue[s], v) \in Seq(Value)
    BY QueueType, AppendProperties
  <2>4. faults' \in 0..MaxFaults /\ faults <= faults' /\ faults \in Nat /\ client \in Nat
    BY <2>1, ConstantsType DEF Fault, TypeOK
  <2>5. TypeOK'
    BY <2>1, <2>2, <2>3, <2>4 DEF TypeOK, Value
  <2>6. Threads'
    BY <2>1, ThreadsRest DEF Streams
  <2>7. client <= faults' + 1 /\ (client \in broken => client <= faults')
    <3>1. client <= faults + 1 /\ (client \in broken => client <= faults)
      BY DEF Streams, Numbered
    <3>2. \A a, b, c \in Nat :
             b <= c => (a <= b + 1 => a <= c + 1) /\ (a <= b => a <= c)
      OBVIOUS
    <3>3. faults' \in Nat
      BY <2>4, ConstantsType
    <3> QED BY <2>4, <3>1, <3>2, <3>3
  <2>8. \A t \in Stream : t > client => t # s
    BY <2>1 DEF Streams, Numbered
  <2>9. \A t \in Stream : t # s => queue'[t] = queue[t]
    BY <2>2 DEF TypeOK
  <2>10. Numbered'
    BY <2>1, <2>7, <2>8, <2>9 DEF Streams, Numbered
  <2> QED BY <2>5, <2>6, <2>10 DEF Streams
<1> QED BY <1>1, <1>2, <1>3, <1>4

LEMMA NextStreams ==
    ASSUME TypeOK, Streams, [Next]_adsVars
    PROVE  TypeOK' /\ Streams'
<1>1. ASSUME Next PROVE TypeOK' /\ Streams'
  BY <1>1, StartKeeps, SenderKeeps, ReceiverKeeps, OtherKeeps DEF Next, Starter
<1> QED BY <1>1, OtherKeeps

-----------------------------------------------------------------------------
(* The order of responses                                                   *)

Ordered == InOrder /\ Past /\ Waiting /\ Handled

LEMMA InitOrdered == Init => Ordered
<1> SUFFICES ASSUME Init PROVE Ordered
  OBVIOUS
<1>1. \A s \in Stream : Len(queue[s]) = 0
  BY DEF Init
<1>2. \A s \in Stream : 1..Len(queue[s]) = {}
  BY <1>1
<1>3. known = 0 /\ truth = 0 /\ receiver = "none"
  BY DEF Init
<1> QED BY <1>2, <1>3 DEF Ordered, InOrder, Past, Waiting, Handled

LEMMA OrderedRest ==
    ASSUME Ordered, UNCHANGED <<queue, receiver, held, response, known, truth>>
    PROVE  Ordered'
BY DEF Ordered, InOrder, Past, Waiting, Handled

(* Endpoints changed: what is older than them stays so.                     *)
LEMMA ChangeOrdered ==
    ASSUME TypeOK, Ordered, EndpointsChange
    PROVE  Ordered'
<1>1. /\ queue' = queue /\ receiver' = receiver /\ held' = held /\ response' = response
      /\ known' = known /\ truth' = truth + 1
  BY DEF EndpointsChange, stream, threads, receiving
<1>2. \A v \in Value : Before(v, truth) => Before(v, truth + 1)
  <2>1. truth \in Nat
    BY DEF TypeOK
  <2>2. truth # Invalid /\ truth + 1 # Invalid
    BY <2>1, ConstantsType
  <2>3. \A v \in Nat : v <= truth => v <= truth + 1
    BY <2>1
  <2> QED BY <2>2, <2>3 DEF Before, Value
<1>3. Past'
  <2> SUFFICES ASSUME NEW s \in Stream, NEW i \in 1..Len(queue[s])
               PROVE  Before(queue[s][i], truth + 1)
    BY <1>1 DEF Past
  <2>1. queue[s][i] \in Value /\ Before(queue[s][i], truth)
    BY QueueType DEF Ordered, Past
  <2> QED BY <1>2, <2>1
<1>4. Handled'
  <2>1. response \in Value /\ known \in Nat /\ truth \in Nat
    BY DEF TypeOK, Value
  <2>2. known <= truth + 1
    BY <2>1 DEF Ordered, Handled
  <2> QED BY <1>1, <1>2, <2>1, <2>2 DEF Ordered, Handled
<1>5. InOrder' /\ Waiting'
  BY <1>1 DEF Ordered, InOrder, Waiting
<1> QED BY <1>3, <1>4, <1>5 DEF Ordered

(* The control plane answers on the newest stream only, behind all else.    *)
LEMMA AnswerOrdered ==
    ASSUME TypeOK, Streams, Ordered, NEW s \in Stream, Answer(s)
    PROVE  Ordered'
<1>1. /\ UNCHANGED <<client, receiver, held, response, known, truth>>
      /\ s \in asked /\ s \notin cancelled
  BY DEF Answer, threads, receiving, Alive
<1>2. PICK v \in {truth, Invalid} : queue' = [queue EXCEPT ![s] = Append(@, v)]
  BY DEF Answer
<1>3. ~(s < client) /\ ~(s > client)
  BY <1>1 DEF Streams, Numbered
<1>4. \A t \in Stream : t > s => queue[t] = <<>>
  <2>1. s = client
    BY <1>3 DEF TypeOK, Stream
  <2> QED BY <2>1 DEF Streams, Numbered
<1>5. v \in Value
  BY DEF TypeOK, Value
<1>6. /\ Len(queue'[s]) = Len(queue[s]) + 1 /\ Len(queue[s]) \in Nat
      /\ queue'[s][Len(queue[s]) + 1] = v
      /\ \A i \in 1..Len(queue[s]) : queue'[s][i] = queue[s][i]
  <2>1. queue'[s] = Append(queue[s], v) /\ queue[s] \in Seq(Value)
    BY <1>2, QueueType DEF TypeOK
  <2> DEFINE q == queue[s]
  <2> HIDE DEF q
  <2>2. q \in Seq(Value) => /\ Len(Append(q, v)) = Len(q) + 1 /\ Len(q) \in Nat
                            /\ Append(q, v)[Len(q) + 1] = v
                            /\ \A i \in 1..Len(q) : Append(q, v)[i] = q[i]
    BY <1>5, AppendProperties, LenProperties
  <2> QED BY <2>1, <2>2 DEF q
<1>7. \A t \in Stream : t # s => queue'[t] = queue[t]
  BY <1>2 DEF TypeOK
(* A response that waits was there before, or is the one just sent.         *)
<1>8. ASSUME NEW t \in Stream, NEW i \in 1..Len(queue'[t])
      PROVE  \/ i \in 1..Len(queue[t]) /\ queue'[t][i] = queue[t][i]
             \/ t = s /\ i = Len(queue[s]) + 1 /\ queue'[t][i] = v
  <2>1. CASE t # s
    BY <1>7, <1>8, <2>1
  <2>2. CASE t = s
    <3>1. i \in 1..Len(queue[s]) \/ i = Len(queue[s]) + 1
      BY <1>6, <2>2
    <3> QED BY <1>6, <2>2, <3>1
  <2> QED BY <2>1, <2>2
<1>9. \A w \in Value : Before(w, truth) => Before(w, v)
  BY DEF Before
<1>10. Before(v, truth)
  BY DEF Before, TypeOK
<1>11. Past'
  <2> SUFFICES ASSUME NEW t \in Stream, NEW i \in 1..Len(queue'[t])
               PROVE  Before(queue'[t][i], truth)
    BY <1>1 DEF Past
  <2> QED BY <1>8, <1>10 DEF Ordered, Past
<1>12. InOrder'
  <2> SUFFICES ASSUME NEW t \in Stream, NEW u \in Stream,
                      NEW i \in 1..Len(queue'[t]), NEW j \in 1..Len(queue'[u]),
                      t < u \/ (t = u /\ i < j)
               PROVE  Before(queue'[t][i], queue'[u][j])
    BY DEF InOrder
  <2>1. CASE i \in 1..Len(queue[t]) /\ queue'[t][i] = queue[t][i]
    <3>1. CASE j \in 1..Len(queue[u]) /\ queue'[u][j] = queue[u][j]
      BY <2>1, <3>1 DEF Ordered, InOrder
    <3>2. CASE u = s /\ queue'[u][j] = v
      <4>1. queue[t][i] \in Value /\ Before(queue[t][i], truth)
        BY <2>1, QueueType DEF Ordered, Past
      <4> QED BY <1>9, <2>1, <3>2, <4>1
    <3> QED BY <1>8, <3>1, <3>2
  <2>2. CASE t = s /\ i = Len(queue[s]) + 1
    <3>1. ~(t < u)
      <4> SUFFICES ASSUME t < u PROVE FALSE
        OBVIOUS
      <4>1. queue[u] = <<>> /\ u # s
        BY <1>4, <2>2 DEF Stream
      <4>2. queue'[u] = <<>>
        BY <1>7, <4>1
      <4> QED BY <4>2
    <3>2. t = u /\ i < j
      BY <3>1
    <3>3. j \in 1..Len(queue[s]) + 1
      BY <1>6, <2>2, <3>2
    <3> QED BY <1>6, <2>2, <3>2, <3>3
  <2> QED BY <1>8, <2>1, <2>2
<1>13. Waiting'
  <2> SUFFICES ASSUME NEW t \in Stream, NEW i \in 1..Len(queue'[t]), t >= held
               PROVE  /\ Before(known, queue'[t][i])
                      /\ receiver = "handle" => Before(response, queue'[t][i])
    BY <1>1 DEF Waiting
  <2>1. CASE i \in 1..Len(queue[t]) /\ queue'[t][i] = queue[t][i]
    BY <2>1 DEF Ordered, Waiting
  <2>2. CASE queue'[t][i] = v
    <3>1. known \in Value /\ response \in Value /\ Before(known, truth)
          /\ (receiver = "handle" => Before(response, truth))
      BY DEF TypeOK, Value, Ordered, Handled, Before
    <3> QED BY <1>9, <2>2, <3>1
  <2> QED BY <1>8, <2>1, <2>2
<1>14. Handled'
  BY <1>1 DEF Ordered, Handled
<1> QED BY <1>11, <1>12, <1>13, <1>14 DEF Ordered

(* What is taken from the front leaves the rest in order.                   *)
LEMMA RecvOrdered ==
    ASSUME TypeOK, Streams, Ordered, Recv
    PROVE  Ordered'
<1>1. UNCHANGED <<held, known, truth>> /\ receiver = "recv"
  BY DEF Recv
<1>2. held \in Stream
  <2>1. held >= 1 /\ held \in 0..MaxFaults + 1
    BY <1>1 DEF Streams, Threads, TypeOK
  <2> QED BY <2>1, ConstantsType DEF Stream
<1>3. queue[held] \in Seq(Value) /\ Len(queue[held]) \in Nat
  BY <1>2, QueueType
<1>4. \A t \in Stream : t # held => queue'[t] = queue[t]
  BY DEF Recv, TypeOK
<1>5. CASE /\ queue[held] # <<>> /\ response' = Head(queue[held]) /\ receiver' = "handle"
           /\ queue' = [queue EXCEPT ![held] = Tail(@)]
  <2> DEFINE q == queue[held]
  <2>1. queue'[held] = Tail(q) /\ q \in Seq(Value) /\ q # <<>>
    BY <1>2, <1>3, <1>5 DEF TypeOK
  <2> HIDE DEF q
  <2>2. /\ Len(q) \in Nat /\ 1 \in 1..Len(q) /\ Head(q) = q[1]
        /\ Len(Tail(q)) = Len(q) - 1
        /\ \A i \in 1..(Len(q) - 1) : Tail(q)[i] = q[i + 1]
    BY <2>1, HeadTailProperties, LenProperties, EmptySeq
  <2>3. \A i \in 1..(Len(q) - 1) : i + 1 \in 1..Len(q) /\ 1 < i + 1
    BY <2>2
  <2>4. ASSUME NEW i \in 1..Len(queue'[held])
        PROVE  i + 1 \in 1..Len(queue[held]) /\ 1 < i + 1
               /\ queue'[held][i] = queue[held][i + 1]
    BY <2>1, <2>2, <2>3, <2>4 DEF q
  <2>5. response' = queue[held][1] /\ 1 \in 1..Len(queue[held])
    BY <1>5, <2>2 DEF q
  <2>6. \A t \in Stream : \A i \in 1..Len(queue'[t]) :
           \/ t # held /\ i \in 1..Len(queue[t]) /\ queue'[t][i] = queue[t][i]
           \/ t = held /\ i + 1 \in 1..Len(queue[t]) /\ queue'[t][i] = queue[t][i + 1]
    BY <1>4, <2>4
  <2>7. Past'
    BY <1>1, <2>6 DEF Ordered, Past
  <2>8. InOrder'
    <3> SUFFICES ASSUME NEW t \in Stream, NEW u \in Stream,
                        NEW i \in 1..Len(queue'[t]), NEW j \in 1..Len(queue'[u]),
                        t < u \/ (t = u /\ i < j)
                 PROVE  Before(queue'[t][i], queue'[u][j])
      BY DEF InOrder
    <3>1. CASE t # held
      <4>1. i \in 1..Len(queue[t]) /\ queue'[t][i] = queue[t][i]
        BY <1>4, <3>1
      <4>2. CASE u # held
        <5>1. j \in 1..Len(queue[u]) /\ queue'[u][j] = queue[u][j]
          BY <1>4, <4>2
        <5> QED BY <4>1, <5>1 DEF Ordered, InOrder
      <4>3. CASE u = held
        <5>1. j + 1 \in 1..Len(queue[u]) /\ queue'[u][j] = queue[u][j + 1] /\ t < u
          BY <2>4, <3>1, <4>3
        <5> QED BY <4>1, <5>1 DEF Ordered, InOrder
      <4> QED BY <4>2, <4>3
    <3>2. CASE t = held
      <4>1. i + 1 \in 1..Len(queue[t]) /\ queue'[t][i] = queue[t][i + 1]
        BY <2>4, <3>2
      <4>2. CASE u # held
        <5>1. j \in 1..Len(queue[u]) /\ queue'[u][j] = queue[u][j] /\ t < u
          BY <1>4, <3>2, <4>2
        <5> QED BY <4>1, <5>1 DEF Ordered, InOrder
      <4>3. CASE u = held
        <5>1. j + 1 \in 1..Len(queue[u]) /\ queue'[u][j] = queue[u][j + 1]
          BY <2>4, <4>3
        <5>2. t < u \/ i + 1 < j + 1
          <6>1. \A m \in 1..Len(queue'[t]), n \in 1..Len(queue'[u]) : m < n => m + 1 < n + 1
            OBVIOUS
          <6> QED BY <6>1
        <5>3. t < u \/ (t = u /\ i + 1 < j + 1)
          BY <3>2, <4>3, <5>2
        <5> QED BY <4>1, <5>1, <5>3 DEF Ordered, InOrder
      <4> QED BY <4>2, <4>3
    <3> QED BY <3>1, <3>2
  <2>9. Waiting'
    <3> SUFFICES ASSUME NEW t \in Stream, NEW i \in 1..Len(queue'[t]), t >= held
                 PROVE  Before(known, queue'[t][i]) /\ Before(response', queue'[t][i])
      BY <1>1 DEF Waiting
    <3>1. Before(known, queue'[t][i])
      BY <2>6 DEF Ordered, Waiting
    <3> DEFINE first == queue[held][1]
    <3>2. \A k \in 1..Len(queue[t]) :
             held < t \/ (held = t /\ 1 < k) => Before(first, queue[t][k])
      BY <1>2, <2>5 DEF Ordered, InOrder
    <3> HIDE DEF first
    <3>3. response' = first
      BY <2>5 DEF first
    <3>4. CASE t # held
      <4>1. held < t
        BY <1>2, <3>4 DEF Stream
      <4>2. i \in 1..Len(queue[t]) /\ queue'[t][i] = queue[t][i]
        BY <1>4, <3>4
      <4> QED BY <3>1, <3>2, <3>3, <4>1, <4>2
    <3>5. CASE t = held
      <4>1. i + 1 \in 1..Len(queue[t]) /\ 1 < i + 1 /\ queue'[t][i] = queue[t][i + 1]
        BY <2>4, <3>5
      <4> QED BY <3>1, <3>5, <3>2, <3>3, <4>1
    <3> QED BY <3>1, <3>4, <3>5
  <2>10. Handled'
    <3>1. held >= held
      BY <1>2 DEF Stream
    <3>2. Before(known, response') /\ Before(response', truth)
      BY <1>2, <2>5, <3>1 DEF Ordered, Waiting, Past
    <3> QED BY <1>1, <3>2 DEF Ordered, Handled
  <2> QED BY <2>7, <2>8, <2>9, <2>10 DEF Ordered
<1>6. CASE queue' = [queue EXCEPT ![held] = <<>>] /\ receiver' = "loop"
  <2>1. queue'[held] = <<>> /\ Len(<<>>) = 0 /\ \A i \in 1..0 : FALSE
    BY <1>2, <1>6 DEF TypeOK
  <2>2. \A t \in Stream : \A i \in 1..Len(queue'[t]) :
           i \in 1..Len(queue[t]) /\ queue'[t][i] = queue[t][i]
    BY <1>4, <2>1
  <2>3. InOrder'
    BY <2>2 DEF Ordered, InOrder
  <2>4. Past' /\ Waiting' /\ Handled'
    BY <1>1, <1>6, <2>2 DEF Ordered, Past, Waiting, Handled
  <2> QED BY <2>3, <2>4 DEF Ordered
<1> QED BY <1>5, <1>6 DEF Recv

LEMMA NextOrdered ==
    ASSUME TypeOK, Streams, Ordered, [Next]_adsVars
    PROVE  Ordered'
<1>1. CASE GetClient
  <2>1. /\ queue' = queue /\ response' = response /\ known' = known /\ truth' = truth
        /\ receiver' # "handle" /\ held <= held' /\ held \in Int /\ held' \in Int
    BY <1>1, ConstantsType
       DEF GetClient, StreamToRead, stream, Streams, Numbered, TypeOK
  <2>2. \A s \in Stream : s >= held' => s >= held
    BY <2>1 DEF Stream
  <2>3. Waiting'
    BY <2>1, <2>2 DEF Ordered, Waiting
  <2>4. InOrder' /\ Past' /\ Handled'
    BY <2>1 DEF Ordered, InOrder, Past, Handled
  <2> QED BY <2>3, <2>4 DEF Ordered
<1>2. CASE HandleTypeURL
  <2>1. /\ queue' = queue /\ held' = held /\ truth' = truth
        /\ receiver = "handle" /\ receiver' = "loop"
        /\ known' = IF response = Invalid THEN known ELSE response
    BY <1>2 DEF HandleTypeURL, stream
  <2>2. Waiting'
    BY <2>1 DEF Ordered, Waiting
  <2>3. known' <= truth
    <3>1. CASE response = Invalid
      BY <2>1, <3>1 DEF Ordered, Handled
    <3>2. CASE response # Invalid
      <4>1. truth # Invalid
        BY ConstantsType DEF TypeOK
      <4> QED BY <2>1, <3>2, <4>1 DEF Ordered, Handled, Before
    <3> QED BY <3>1, <3>2
  <2>4. InOrder' /\ Past' /\ Handled'
    BY <2>1, <2>3 DEF Ordered, InOrder, Past, Handled
  <2> QED BY <2>2, <2>4 DEF Ordered
<1>3. CASE Start \/ Retry
  <2>1. /\ UNCHANGED <<queue, held, response, known, truth>>
        /\ receiver = "none" /\ receiver' \in {"none", "loop"}
    BY <1>3 DEF Start, Retry, GetStreamClient, receiving, Streams, Threads
  <2>2. Waiting' /\ Handled'
    BY <2>1 DEF Ordered, Waiting, Handled
  <2>3. InOrder' /\ Past'
    BY <2>1 DEF Ordered, InOrder, Past
  <2> QED BY <2>2, <2>3 DEF Ordered
<1>4. CASE CheckStoped \/ Sender \/ RefreshAll \/ Refresh \/ CloseADSStreamClient
           \/ SetStoped \/ CloseChannel \/ UpdateSubscribedClusters \/ StreamBreaks
           \/ UNCHANGED adsVars
  <2>1. UNCHANGED <<queue, receiver, held, response, known, truth>>
    BY <1>4 DEF CheckStoped, Sender, Hello, Reconnect, GenerateClient, RefreshAll, Refresh,
                ReqEndpoints, CloseADSStreamClient, SetStoped, CloseChannel,
                UpdateSubscribedClusters, StreamBreaks, adsVars, stream, threads, receiving
  <2> QED BY <2>1, OrderedRest
<1> QED BY <1>1, <1>2, <1>3, <1>4, RecvOrdered, ChangeOrdered, AnswerOrdered
        DEF Next, Starter, Receiver

(* The types, the streams and the order of responses hold together, however *)
(* often streams break (sendThread, receiveThread).                         *)
THEOREM AdsInvariant == Spec => []AdsInv
<1>1. Init => AdsInv
  BY InitStreams, InitOrdered DEF AdsInv, Ordered
<1>2. AdsInv /\ [Next]_adsVars => AdsInv'
  BY NextStreams, NextOrdered DEF AdsInv, Ordered
<1> QED BY <1>1, <1>2, PTL DEF Spec

(* Endpoints that were handed on are never replaced by older ones           *)
(* (receiveThread, onEndpointsUpdate).                                      *)
THEOREM EndpointsNeverGoBack == Spec => NeverGoesBack
<1>1. ASSUME AdsInv, [Next]_adsVars PROVE known' >= known
  <2>1. known \in Nat /\ known' \in Nat
    BY <1>1, NextStreams DEF AdsInv, TypeOK
  <2>2. CASE HandleTypeURL
    <3>1. CASE response = Invalid
      BY <2>1, <2>2, <3>1 DEF HandleTypeURL
    <3>2. CASE response # Invalid
      <4>1. known # Invalid /\ known' = response /\ Before(known, response)
        BY <1>1, <2>1, <2>2, <3>2, ConstantsType DEF HandleTypeURL, AdsInv, Handled
      <4> QED BY <2>1, <3>2, <4>1 DEF Before
    <3> QED BY <3>1, <3>2
  <2>3. CASE ~HandleTypeURL
    <3>1. known' = known
      BY <1>1, <2>3
         DEF Next, Start, Starter, CheckStoped, Retry, Sender, Hello, Reconnect,
             GenerateClient, RefreshAll, Refresh, ReqEndpoints, CloseADSStreamClient, Receiver,
             GetClient, Recv, SetStoped, CloseChannel, UpdateSubscribedClusters,
             EndpointsChange, StreamBreaks, Answer, adsVars, receiving
    <3> QED BY <2>1, <3>1
  <2> QED BY <2>2, <2>3
<1>2. AdsInv /\ [Next]_adsVars => [known' >= known]_adsVars
  BY <1>1
<1> QED BY <1>2, AdsInvariant, PTL DEF Spec, NeverGoesBack

=============================================================================
