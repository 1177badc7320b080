----------------------------- MODULE TimerObj ------------------------------
(***************************************************************************)
(* A timer object (kernel/io/timerobj.c): one timer, one-shot or periodic, *)
(* that any thread with a handle may set again or read, and whose last     *)
(* reference releases it.  A step is a section under the object's spinlock *)
(* or a queue's.                                                           *)
(***************************************************************************)
EXTENDS TimerQueue, FiniteSets

CONSTANT
    MaxCount   \* expirations counted between two reads (bounds the model)

ASSUME ObjAssumption == Cardinality(Timer) = 1
ASSUME CountAssumption == MaxCount \in Nat \ {0}

obj == CHOOSE o \in Timer : TRUE

VARIABLES
    alive,     \* the object's memory
    handle,    \* its handle is open
    users,     \* threads that hold a reference for an operation
    opLock,    \* timer_obj.op_lock's owner
    count,     \* timer_obj.count
    periodic,  \* timer_obj.interval_ns # 0
    armed,     \* timer_obj.armed
    dying,     \* timer_obj.dying
    pc         \* where each thread is

objVars == <<alive, handle, users, opLock, count, periodic, armed, dying, pc>>
vars == <<tqVars, objVars>>

\* timer_obj_create_disarmed: set up and not started.
Init ==
    /\ QueueInit
    /\ alive = TRUE
    /\ handle = TRUE
    /\ users = {}
    /\ opLock = None
    /\ count = 0
    /\ periodic = FALSE
    /\ armed = FALSE
    /\ dying = FALSE
    /\ pc = [u \in Thread |-> "run"]

At(u, l) == Runs(u) /\ pc[u] = l

Goto(u, l) == pc' = [pc EXCEPT ![u] = l]

-----------------------------------------------------------------------------
(* System calls: a reference taken through the handle, and the last one    *)
(* dropped releases the object.                                            *)
Call(u) ==
    /\ At(u, "run")
    /\ handle
    /\ users' = users \cup {u}
    /\ \E op \in {"lock", "read"} : Goto(u, op)
    /\ UNCHANGED <<tqVars, alive, handle, opLock, count, periodic, armed, dying>>

\* handle_close: the handle's reference becomes this thread's, to put.
Close(u) ==
    /\ At(u, "run")
    /\ handle
    /\ handle' = FALSE
    /\ users' = users \cup {u}
    /\ Goto(u, "put")
    /\ UNCHANGED <<tqVars, alive, opLock, count, periodic, armed, dying>>

\* kobject_put, whose last caller goes on into timer_obj_release.
Put(u) ==
    /\ At(u, "put")
    /\ users' = users \ {u}
    /\ Goto(u, IF users = {u} /\ ~handle THEN "release" ELSE "run")
    /\ UNCHANGED <<tqVars, alive, handle, opLock, count, periodic, armed, dying>>

-----------------------------------------------------------------------------
(* timer_obj_settime.                                                      *)
\* mutant: settime takes no op_lock
LockOpUnlocked(u) ==
    /\ At(u, "lock")
    /\ Goto(u, "cancel")
    /\ UNCHANGED <<tqVars, alive, handle, users, opLock, count, periodic, armed, dying>>

LockOp(u) ==
    /\ At(u, "lock")
    /\ opLock = None
    /\ opLock' = u
    /\ Goto(u, "cancel")
    /\ UNCHANGED <<tqVars, alive, handle, users, count, periodic, armed, dying>>

\* timer_cancel_sync, of settime ("cancel") and of release ("last").
PickQueue(u) ==
    /\ At(u, "cancel") \/ At(u, "last")
    /\ waitq[u] = None
    /\ CancelSyncPick(obj, u)
    /\ UNCHANGED <<tstate, tcpu, running, stage, on, home, panicked, objVars>>

CancelOld(u) ==
    /\ At(u, "cancel") /\ waitq[u] # None
    /\ CancelSyncRound(obj, u)
    /\ IF MayReturn(obj, u) THEN Goto(u, "set") ELSE UNCHANGED pc
    /\ UNCHANGED <<tcpu, running, stage, on, home, alive, handle, users, opLock, count, periodic, armed, dying>>

\* Under to->lock: the count reset, the interval stored, armed or not.
Set(u, start, every) ==
    /\ At(u, "set")
    /\ count' = 0
    /\ periodic' = every
    /\ armed' = start
    /\ IF start THEN TimerStart(obj, on[u]) ELSE UNCHANGED <<tstate, tcpu, panicked>>
    /\ Goto(u, "unlock")
    /\ UNCHANGED <<running, stage, on, home, waitq, alive, handle, users, opLock, dying>>

\* mutant: a path that leaves op_lock held
UnlockOpKept(u) ==
    /\ At(u, "unlock")
    /\ Goto(u, "put")
    /\ UNCHANGED <<tqVars, alive, handle, users, opLock, count, periodic, armed, dying>>

UnlockOp(u) ==
    /\ At(u, "unlock")
    /\ opLock' = None
    /\ Goto(u, "put")
    /\ UNCHANGED <<tqVars, alive, handle, users, count, periodic, armed, dying>>

\* timer_obj_read: the count taken and cleared; with none it returns, if it
\* may not block, or waits.
Read(u) ==
    /\ At(u, "read")
    /\ count' = 0
    /\ IF count # 0 THEN Goto(u, "put") ELSE \E l \in {"put", "wait"} : Goto(u, l)
    /\ UNCHANGED <<tqVars, alive, handle, users, opLock, periodic, armed, dying>>

\* wait_event_killable: count # 0 and to the read again, or off the CPU on
\* the object's wait queue (one step: Sched shows that no wake is lost
\* between the test and the block).
Wait(u) ==
    /\ At(u, "wait")
    /\ IF count # 0
       THEN Goto(u, "read") /\ UNCHANGED on
       ELSE Goto(u, "parked") /\ on' = [on EXCEPT ![u] = None]
    /\ UNCHANGED <<tstate, tcpu, running, stage, home, waitq, panicked,
                   alive, handle, users, opLock, count, periodic, armed, dying>>

\* A kill ends the wait, and the read.
Kill(u) ==
    /\ pc[u] = "parked"
    /\ Goto(u, IF count # 0 THEN "read" ELSE "put")
    /\ UNCHANGED <<tqVars, alive, handle, users, opLock, count, periodic, armed, dying>>

-----------------------------------------------------------------------------
(* timer_obj_release.                                                      *)
Release(u) ==
    /\ At(u, "release")
    /\ dying' = TRUE
    /\ Goto(u, "last")
    /\ UNCHANGED <<tqVars, alive, handle, users, opLock, count, periodic, armed>>

CancelLast(u) ==
    /\ At(u, "last") /\ waitq[u] # None
    /\ CancelSyncRound(obj, u)
    /\ IF MayReturn(obj, u) THEN Goto(u, "free") ELSE UNCHANGED pc
    /\ UNCHANGED <<tcpu, running, stage, on, home, alive, handle, users, opLock, count, periodic, armed, dying>>

Free(u) ==
    /\ At(u, "free")
    /\ alive' = FALSE
    /\ Goto(u, "run")
    /\ UNCHANGED <<tqVars, handle, users, opLock, count, periodic, armed, dying>>

-----------------------------------------------------------------------------
(* The tick, and timer_obj_fired.                                          *)
Fire(c) == RunExpired(c, obj, "fire") /\ UNCHANGED objVars

\* mutant: a one-shot that has fired still counts as armed
StillArmedAlways == TRUE

\* After an expiry: a periodic timer is started again, a one-shot is over.
StillArmed == IF periodic THEN armed ELSE FALSE

\* Under to->lock; past MaxCount unread expirations the count stands still.
Fired(c) ==
    /\ Callback(c, "fire")
    /\ ~dying
    /\ count' = IF count < MaxCount THEN count + 1 ELSE count
    /\ armed' = StillArmed
    /\ IF periodic THEN TimerStart(obj, c) ELSE UNCHANGED <<tstate, tcpu, panicked>>
    /\ CallbackTo(c, "wake")
    /\ UNCHANGED <<running, on, home, waitq, alive, handle, users, opLock, periodic, dying, pc>>

FiredDying(c) ==
    /\ Callback(c, "fire")
    /\ dying
    /\ CallbackTo(c, "tail")
    /\ UNCHANGED <<tstate, tcpu, running, on, home, waitq, panicked, objVars>>

\* mutant: nobody is woken
WakeNone(c) ==
    /\ Callback(c, "wake")
    /\ CallbackTo(c, "tail")
    /\ UNCHANGED <<tstate, tcpu, running, on, home, waitq, panicked, objVars>>

\* waitqueue_wake_all(&to->wq): every reader tests the count again.
Wake(c) ==
    /\ Callback(c, "wake")
    /\ CallbackTo(c, "tail")
    /\ pc' = [u \in Thread |-> IF pc[u] = "parked" THEN "wait" ELSE pc[u]]
    /\ UNCHANGED <<tstate, tcpu, running, on, home, waitq, panicked,
                   alive, handle, users, opLock, count, periodic, armed, dying>>

TickReturn(c) == Tail(c) /\ UNCHANGED objVars

-----------------------------------------------------------------------------
Pick(u, c) ==
    /\ pc[u] # "parked"
    /\ Dispatch(u, c)
    /\ UNCHANGED <<tstate, tcpu, running, stage, waitq, panicked, objVars>>

Preempt(u) ==
    /\ Preempted(u)
    /\ UNCHANGED <<tstate, tcpu, running, stage, waitq, panicked, objVars>>

InCall(u) ==
    \/ Put(u) \/ LockOp(u) \/ PickQueue(u) \/ CancelOld(u) \/ UnlockOp(u)
    \/ Read(u) \/ Wait(u)
    \/ \E start, every \in BOOLEAN : Set(u, start, every)
    \/ Release(u) \/ CancelLast(u) \/ Free(u)

InTick(c) == Fired(c) \/ FiredDying(c) \/ Wake(c) \/ TickReturn(c)

Next ==
    \/ \E u \in Thread : Call(u) \/ Close(u) \/ InCall(u) \/ Kill(u) \/ Preempt(u)
    \/ \E u \in Thread, c \in CPU : Pick(u, c)
    \/ \E c \in CPU : Fire(c) \/ InTick(c)

Spec == Init /\ [][Next]_vars

\* Ticks come and end.  A thread in a call that can go on does so again and
\* again: it gets time slices, op_lock in its turn (Mutex.tla), and, since a
\* tick is a small part of the time between two, steps outside ticks too.
Busy(u) == pc[u] \notin {"run", "parked"} /\ (pc[u] = "lock" => opLock = None)

QuietStep(u) == InCall(u) /\ \A c \in CPU : running[c] = None

Fairness ==
    /\ \A c \in CPU : WF_vars(InTick(c)) /\ WF_vars(Fire(c))
    /\ \A u \in Thread : []<>Busy(u) => []<><<QuietStep(u)>>_vars

FairSpec == Spec /\ Fairness

-----------------------------------------------------------------------------
\* The variables keep their types; the references and op_lock are those of
\* the threads inside the calls that take them.
TypeOK ==
    /\ QueueTypeOK
    /\ users = {u \in Thread : pc[u] \in {"lock", "cancel", "set", "unlock", "read", "wait", "parked", "put"}}
    /\ opLock \in Thread \cup {None}
    /\ \A u \in Thread : pc[u] \in {"cancel", "set", "unlock"} <=> opLock = u
    /\ count \in 0 .. MaxCount
    /\ \A b \in {alive, handle, periodic, armed, dying} : b \in BOOLEAN

\* timer_obj_release frees the object only when its timer is on no queue
\* and its callback in no tick, re-arming callbacks included.
ObjectAlive ==
    /\ tstate[obj] = "PENDING" => alive
    /\ \A c \in CPU : stage[c] \in {"fire", "wake"} => alive

\* Two settimes, or a settime and the callback's re-arm, never start the
\* timer twice.
NoPanic == ~panicked

\* What gettime reports: with no operation or expiry under way, the object
\* says it is armed exactly when its timer is pending.
ArmedAgrees ==
    /\ alive
    /\ \A u \in Thread : pc[u] \notin {"set", "cancel", "free", "last"}
    /\ \A c \in CPU : stage[c] # "fire"
    => (armed <=> tstate[obj] = "PENDING")

\* Once settime's timer_cancel_sync has returned no expiry of the earlier
\* setting is to come until it starts the timer again.
SettimeQuiet ==
    (\E u \in Thread : pc[u] = "set") =>
        tstate[obj] = "IDLE" /\ \A c \in CPU : stage[c] # "fire"

\* A one-shot expires once: no expiry of an earlier, periodic setting is
\* counted after the call that replaced it.
OneShotOnce == ~periodic => count <= 1

\* A reader sleeps with expirations counted only while the callback that
\* counted the last one has still to wake it.
ReaderWoken ==
    count # 0 /\ (\E u \in Thread : pc[u] = "parked") => \E c \in CPU : stage[c] = "wake"

\* A reader asleep on a timer that is not armed: until it is killed it keeps
\* its reference.
ReaderStuck ==
    /\ \E u \in Thread : pc[u] = "parked"
    /\ count = 0 /\ tstate[obj] = "IDLE" /\ \A c \in CPU : stage[c] \notin {"fire", "wake"}

\* A closed object is freed: no settime, op_lock waiter, reader or callback
\* that re-arms keeps its last reference or its release for ever, but for
\* the reader that is stuck.
ClosedFreed == ~handle ~> (~alive \/ ReaderStuck)

=============================================================================
