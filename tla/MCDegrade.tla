------------------------------ MODULE MCDegrade ------------------------------
(* Small instances of Degrade for TLC. *)
EXTENDS Degrade, TLC

CONSTANTS n1, n2, n3

(* 10^9 ns: one second, as a caller writes it in Go. *)
Second == 1000000000

Protecting == [Flag |-> 0, Threshold |-> 70, PanicThreshold |-> 40,
               ThresholdContrastInterval |-> Second, EndpointsSaveInterval |-> Second]
OnAndOff == {Protecting, [Protecting EXCEPT !.Flag = 1]}
Lenient == [Protecting EXCEPT !.Threshold = 60]
TwoThresholds == {Protecting, Lenient}
LenientOrOff == {Lenient, [Lenient EXCEPT !.Flag = 1]}

SharedAddress == [n \in Node |-> IF n = n2 THEN n1 ELSE n]
OwnAddress == [n \in Node |-> n]

Listed(nodes) == [listed |-> nodes, offline |-> {}]
All == {n1, n2, n3}
Reports == {Listed(All), Listed({n1}), Listed({n1, n3}), Listed({}),
            [listed |-> All, offline |-> {n2, n3}]}
FewReports == {Listed(All), Listed({n1})}
LossReports == {Listed({}), Listed({n1, n3})}
InitAll == {All}
NoHealth == {}
SomeHealth == {All, {n1, n3}, {}}
LoopSymmetry == Permutations(Loop)

=============================================================================
