---------------------------- MODULE MCAckLedger ----------------------------
(* Model-checking instance of AckLedger: small sets of payloads, symmetric. *)
EXTENDS AckLedger

Symmetry == Permutations(Event)
=============================================================================
