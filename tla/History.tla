------------------------------- MODULE History -------------------------------
(***************************************************************************)
(* What discovery/downgrade.go does to its two queues of past lists, apart *)
(* from everything else the degrade object does: the abstract              *)
(* specification of historyEndpoints and stableHistoryEndpoints that       *)
(* Degrade implements.  history is emptied whenever protection ends,       *)
(* stable never is; every list enters both.                                *)
(***************************************************************************)
EXTENDS LoopList

CONSTANTS
    List,       \* what is archived
    InitialLists,   \* lists the queues may start with
    Opts,       \* options the operations may be called with
    MaxTime     \* bound: seconds that pass

ASSUME HistoryAssumption ==
    /\ InitialLists \subseteq List
    /\ \A o \in Opts : /\ o.ThresholdContrastInterval \in Int
                       /\ o.EndpointsSaveInterval \in Int
    /\ MaxTime \in Nat

VARIABLES
    history,    \* d.historyEndpoints
    stable,     \* d.stableHistoryEndpoints
    now         \* time.Now().Unix()

vars == <<history, stable, now>>

Stamped(list) == [unixNano |-> now, list |-> list]
PushTo(queue, list, o) ==
    LET queues == PushBoth(queue, stable, Stamped(list), o)
    IN  /\ history' = queues.history
        /\ stable' = queues.stable

(* newDegrade: nothing, or one list dated one window back.                 *)
Init ==
    /\ now = 0
    /\ \/ history = <<>> /\ stable = <<>>
       \/ \E list \in InitialLists, o \in Opts :
             LET elemInit == [unixNano |-> now - o.ThresholdContrastInterval, list |-> list]
                 queues == PushBoth(<<>>, <<>>, elemInit, o)
             IN  history = queues.history /\ stable = queues.stable

(* onUpdateList reads the back of history ...                              *)
Compare(o) ==
    /\ history' = Trim(history, now, o)
    /\ UNCHANGED <<stable, now>>

(* ... and archives a list it accepts.                                     *)
Accept(list, o) ==
    /\ PushTo(history, list, o)
    /\ UNCHANGED now

(* stopSelfProtection starts history afresh.                               *)
Leave(list, o) ==
    /\ PushTo(<<>>, list, o)
    /\ UNCHANGED now

(* pingLoop reads the back of both.                                        *)
StartPing(o) ==
    /\ history' = Trim(history, now, o)
    /\ stable' = Trim(stable, now, o)
    /\ UNCHANGED now

Tick ==
    /\ now < MaxTime
    /\ now' = now + 1
    /\ UNCHANGED <<history, stable>>

Next ==
    \/ \E o \in Opts : Compare(o) \/ StartPing(o)
    \/ \E list \in List, o \in Opts : Accept(list, o) \/ Leave(list, o)
    \/ Tick

Spec == Init /\ [][Next]_vars

-----------------------------------------------------------------------------
(* Properties.  Those on intervals take the intervals in the unit the code *)
(* compares them in, and hold for one set of options throughout.           *)

TypeOK ==
    /\ history \in Seq(Elem(List))
    /\ stable \in Seq(Elem(List))
    /\ now \in Nat

(* Both queues hold the same newest element, the very same object in the   *)
(* code: what one push does to its timestamp shows in the other queue.     *)
SameFront ==
    /\ history = <<>> <=> stable = <<>>
    /\ history # <<>> => Front(history) = Front(stable)

Spaced(l, o) ==
    \A i \in 1..Len(l) - 1 :
        l[i].unixNano - l[i + 1].unixNano >= o.EndpointsSaveInterval

(* Archived lists are at least EndpointsSaveInterval apart, although one   *)
(* element sits in two queues and each push may redate it (push).          *)
ArchivesAreSpaced == \A o \in Opts : Spaced(history, o) /\ Spaced(stable, o)

(* The queues stay short however long the service runs: one element per    *)
(* EndpointsSaveInterval of the window, the back, and one in the making.   *)
ArchivesAreBounded ==
    \A o \in Opts : \A l \in {history, stable} :
        o.EndpointsSaveInterval > 0 =>
            (Len(l) - 2) * o.EndpointsSaveInterval <= o.ThresholdContrastInterval

HasOld(l, time, o) ==
    \E i \in 1..Len(l) : time - l[i].unixNano > o.ThresholdContrastInterval

(* "At least one datum from 15 minutes ago is kept" (delTimeout): once the *)
(* stable queue holds a list older than the window, it always does.        *)
OldDatumIsKept ==
    [][\A o \in Opts : HasOld(stable, now, o) => HasOld(stable', now', o)]_vars

=============================================================================
