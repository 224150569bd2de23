----------------------------- MODULE MCAdsClient -----------------------------
(* Small instances of AdsClient for TLC. *)
EXTENDS AdsClient

=============================================================================
