----------------------------- MODULE MCRunQueue -----------------------------
(* Small instances of RunQueue for TLC.                                    *)
EXTENDS RunQueue, TLC

CONSTANTS t1, t2, t3

Threads == {t1, t2, t3}
(* The third thread is the nicer one.                                      *)
TickWeighted == t1 :> 1 @@ t2 :> 1 @@ t3 :> 2
(* Two fair threads under a better one, three fair ones, and three that    *)
(* take turns at a round-robin level.                                      *)
SomePrios ==
    {t1 :> 0 @@ t2 :> 1 @@ t3 :> 1, t1 :> 1 @@ t2 :> 1 @@ t3 :> 1, t1 :> 2 @@ t2 :> 2 @@ t3 :> 2}
=============================================================================
