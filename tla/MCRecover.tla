------------------------------- MODULE MCRecover -------------------------------
(* Small instances of Recover for TLC. *)
EXTENDS Recover

CONSTANTS a, b

NoneOrOne == {{}, {a}}

=============================================================================
