--------------------------- MODULE MCAgentIdentity ---------------------------
(* Instances of AgentIdentity for TLC.                                     *)
EXTENDS AgentIdentity, TLC

CONSTANT w1

OneWriter == {w1}
=============================================================================
