-------------------------- MODULE MCTerminalBroker --------------------------
(* Instances of TerminalBroker for TLC.                                    *)
EXTENDS TerminalBroker

CONSTANT x1

OneSession == {x1}
=============================================================================
