-------------------------- MODULE MCAgentRegistry --------------------------
(***************************************************************************)
(* Instances of AgentRegistry for TLC.  Streams are interchangeable: the   *)
(* safety run uses that as a symmetry, the liveness runs do not.           *)
(***************************************************************************)
EXTENDS AgentRegistry, TLC

StreamSymmetry == Permutations(Streams)
=============================================================================
