---------------------------- MODULE MCTimerObj -----------------------------
(* Small instances of TimerObj for TLC.                                    *)
EXTENDS TimerObj

CONSTANTS c0, c1, a, b, timer

TwoCPUs == {c0, c1}
TwoThreads == {a, b}
OneThread == {a}
OneTimer == {timer}

=============================================================================
