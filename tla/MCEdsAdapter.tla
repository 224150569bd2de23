----------------------------- MODULE MCEdsAdapter -----------------------------
(* Small instances of EdsAdapter for TLC. *)
EXTENDS EdsAdapter, TLC

CallersAndClusters == Permutations(Caller) \cup Permutations(Cluster)

=============================================================================
