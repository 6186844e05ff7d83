----------------------------- MODULE MCNotifier -----------------------------
(* Instances of Notifier for TLC.                                          *)
EXTENDS Notifier

CONSTANTS s1, s2, t1, t2

TwoServers == {s1, s2}
TwoTimers == {t1, t2}
=============================================================================
