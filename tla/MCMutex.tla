------------------------------ MODULE MCMutex ------------------------------
(* Small instances of Mutex for TLC.                                       *)
EXTENDS Mutex, TLC

CONSTANTS a, b, c

ABC == {a, b, c}
AB == {a, b}
JustC == {c}
NoOne == {}
OneMutex == {1}
TwoMutexes == {1, 2}
(* c is the most urgent.                                                   *)
Ranked == [t \in Thread |-> CASE t = a -> 3 [] t = b -> 2 [] OTHER -> 1]
=============================================================================
