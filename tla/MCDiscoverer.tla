----------------------------- MODULE MCDiscoverer -----------------------------
(* Small instances of Discoverer for TLC. *)
EXTENDS Discoverer

=============================================================================
