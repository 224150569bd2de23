------------------------------ MODULE LoopList ------------------------------
(***************************************************************************)
(* The queue of past service lists of discovery/looplist.go.  A queue is a *)
(* sequence of elements, the newest (Front) at position 1, the oldest      *)
(* (Back) last.  An element is [unixNano, list]; despite its name unixNano *)
(* holds time.Now().Unix(), a number of SECONDS, while the two intervals   *)
(* of the options are time.Durations, numbers of NANOSECONDS.  The code    *)
(* compares the two directly and so do these operators.                    *)
(*                                                                         *)
(* opts is a record with (at least) the fields ThresholdContrastInterval   *)
(* and EndpointsSaveInterval.                                              *)
(***************************************************************************)
EXTENDS Integers, Sequences

Elem(List) == [unixNano : Int, list : List]

Front(l) == Head(l)
Oldest(l) == l[Len(l)]

(* The loop of delTimeout drops the back element while the element in      *)
(* front of it is older than the window, so position n can become the last *)
(* one iff it is the first, or its predecessor is inside the window; the   *)
(* loop stops at the largest such n.                                       *)
MayEndInside(l, now, opts) ==
    {n \in 1..Len(l) :
        n = 1 \/ now - l[n].unixNano <= opts.ThresholdContrastInterval}
MayEnd(l, now, opts) ==
    {n \in 1..Len(l) :
        n = 1 \/ now - l[n - 1].unixNano <= opts.ThresholdContrastInterval}

DelTimeoutNever(l, now, opts) == l
DelTimeout(l, now, opts) ==
    IF l = <<>> THEN l
    ELSE SubSeq(l, 1, CHOOSE n \in MayEnd(l, now, opts) :
                          \A m \in MayEnd(l, now, opts) : m <= n)

(* An element younger than EndpointsSaveInterval is overwritten, and the   *)
(* new one inherits its timestamp.                                         *)
OverwritesOldest(l, elnow, opts) ==
    l # <<>> /\ elnow.unixNano - Oldest(l).unixNano < opts.EndpointsSaveInterval
Overwrites(l, elnow, opts) ==
    l # <<>> /\ elnow.unixNano - Front(l).unixNano < opts.EndpointsSaveInterval

Push(l, elnow, opts) ==
    LET kept == DelTimeout(l, elnow.unixNano, opts)
    IN  IF Overwrites(kept, elnow, opts)
        THEN <<[elnow EXCEPT !.unixNano = Front(kept).unixNano]>> \o Tail(kept)
        ELSE <<elnow>> \o kept

(* The callers push ONE *elem into two queues, so a timestamp the second   *)
(* push rewrites is rewritten in the first queue too.                      *)
PushSecond(history, stable, elnow, opts) ==
    Push(stable, Front(Push(history, elnow, opts)), opts)

PushBothCopies(history, stable, elnow, opts) ==
    [history |-> Push(history, elnow, opts), stable |-> Push(stable, elnow, opts)]
PushBoth(history, stable, elnow, opts) ==
    LET newStable == PushSecond(history, stable, elnow, opts)
        newHistory == Push(history, elnow, opts)
    IN  [history |-> <<Front(newStable)>> \o Tail(newHistory),
         stable  |-> newStable]

(* back() trims the queue with the current time, then reads its last one.  *)
Trim(l, now, opts) == DelTimeout(l, now, opts)

=============================================================================
