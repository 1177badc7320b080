----------------------------- MODULE MCQuiesce -----------------------------
(* Small instances of Quiesce for TLC.                                     *)
EXTENDS Quiesce, TLC

CONSTANTS c0, c1, c2, o1, o2, k1, k2, w

OneCPU == {c0}
TwoCPU == {c0, c1}
ThreeCPU == {c0, c1, c2}
OneObj == {o1}
TwoObj == {o1, o2}
OneCaller == {k1}
TwoCaller == {k1, k2}
APSymmetry == Permutations({c1, c2})
=============================================================================
