------------------------------ MODULE MCSched ------------------------------
(* Small instances of Sched for TLC.                                       *)
EXTENDS Sched, TLC

CONSTANTS c1, c2, t1, t2, q1, q2, w1, x1

TwoCPU == {c1, c2}
OneCPU == {c1}
OneThread == {t1}
TwoThread == {t1, t2}
OneQ == {q1}
TwoQ == {q1, q2}
OneWaker == {w1}
OneKiller == {x1}
NoOne == {}

(* wait_event on one queue.                                                *)
EventWaits == {[qs |-> <<q1>>, poll |-> FALSE]}
(* io_poll on two descriptors.                                             *)
PollWaits == {[qs |-> <<q1, q2>>, poll |-> TRUE]}
=============================================================================
