------------------------- MODULE MCOwnerStatements -------------------------
(* OwnerStatements for TLC: one subject, about which nothing but the types *)
(* is claimed once it had its mishap.                                      *)
EXTENDS OwnerStatements

Untroubled == \A x \in Subjects : ~mishap[x]

=============================================================================
