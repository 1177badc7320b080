------------------------------ MODULE MCSleep ------------------------------
(* Small instances of Sleep for TLC.                                       *)
EXTENDS Sleep

CONSTANTS c0, c1, a, frame1, frame2

TwoCPUs == {c0, c1}
OneThread == {a}
(* The callback of one frame at most is running while the thread runs: two *)
(* frames are as many as it can need.                                      *)
TwoFrames == {frame1, frame2}

AllKinds == {"sleep", "killable", "timeout", "futex"}
JustSleeps == {"sleep", "killable"}

=============================================================================
