--------------------------- MODULE MCLoginGuards ---------------------------
(* Instances of LoginGuards for TLC.                                       *)
EXTENDS LoginGuards, TLC

CONSTANTS i1, i2, i3, t1

ThreeIps == {i1, i2, i3}
OneToken == {t1}
IpSymmetry == Permutations(ThreeIps)
=============================================================================
