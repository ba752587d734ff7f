--------------------------- MODULE MCFinanceBridge ---------------------------
(* Small instances of FinanceBridge for TLC. *)
EXTENDS FinanceBridge, TLC

Symmetry == Permutations(Workers) \cup Permutations(Requests)

==============================================================================
