------------------------------- MODULE MCLookup -------------------------------
(* Small instances of Lookup, with its history variable, for TLC. *)
EXTENDS Caching

CONSTANT n1

NoneOrOne == {{}, {n1}}
OneKept == {List(1, 1, "unset", {n1})}
BelowBound == 0..MaxVersion - 1

=============================================================================
