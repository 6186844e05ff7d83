----------------------------- MODULE MCAccounts -----------------------------
(* Instances of Accounts for TLC.                                          *)
EXTENDS Accounts, TLC

CONSTANTS u1, u2, u3, n1, n2, q1, q2

ThreeIds == {u1, u2, u3}
TwoNames == {n1, n2}
TwoReqs == {q1, q2}
OneApi == {1}
RequestSymmetry == Permutations(TwoReqs)
=============================================================================
