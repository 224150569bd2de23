------------------------------ MODULE MCHistory ------------------------------
(* Small instances of History for TLC. *)
EXTENDS History

(* Intervals in the unit the code compares: window 5, archive every 2.     *)
Intervals(window, save) ==
    [ThresholdContrastInterval |-> window, EndpointsSaveInterval |-> save]
ShortIntervals == {Intervals(5, 2)}

==============================================================================
