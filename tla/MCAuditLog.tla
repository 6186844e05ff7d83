----------------------------- MODULE MCAuditLog -----------------------------
(* Instances of AuditLog for TLC.                                          *)
EXTENDS AuditLog, TLC

CONSTANTS u1, q1, q2

OneUser == {u1}
TwoReqs == {q1, q2}
RequestSymmetry == Permutations(TwoReqs)
=============================================================================
