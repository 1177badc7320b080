------------------------------- MODULE Sleep -------------------------------
(***************************************************************************)
(* The waits whose timer lives on the waiter's stack: thread_sleep_ns and  *)
(* thread_sleep_ns_killable (scheduler/wait_floor.c), wait_event_timeout   *)
(* and wait_event_killable_timeout (include/kernel/wait.h), and the wait   *)
(* of futex_wait (ipc/futex.c).  A timer stands for the stack frame it is  *)
(* in, with the flag the callback sets and what it wakes the waiter by.    *)
(***************************************************************************)
EXTENDS TimerQueue

CONSTANTS
    Kinds,    \* the waits a thread may make
    Killed    \* threads of a process that may be killed

ASSUME SleepAssumption ==
    /\ Kinds \subseteq {"sleep", "killable", "timeout", "futex"}
    /\ Killed \subseteq Thread

VARIABLES
    kind,    \* the wait each frame is, or was last, made for
    owner,   \* the thread that made it
    alive,   \* the wait has not returned: the frame exists
    done,    \* sleeper.done, wait_timeout.expired, futex_waiter.timed_out
    cond,    \* the event waited for (futex_waiter.woken)
    frame,   \* the frame of each thread's wait, or of its last one
    killed,  \* process_kill_pending
    state,   \* thread.state, as far as blocking tells
    pc       \* where the thread is in its wait

frameVars == <<kind, owner, alive, done, cond, frame>>
sleepVars == <<frameVars, killed, state, pc>>
vars == <<tqVars, sleepVars>>

\* No frame is in use: what kind, owner and frame hold is never looked at.
Init ==
    /\ QueueInit
    /\ kind = [f \in Timer |-> CHOOSE k \in Kinds : TRUE]
    /\ owner = [f \in Timer |-> CHOOSE u \in Thread : TRUE]
    /\ alive = [f \in Timer |-> FALSE]
    /\ done = [f \in Timer |-> FALSE]
    /\ cond = [f \in Timer |-> FALSE]
    /\ frame = [u \in Thread |-> CHOOSE f \in Timer : TRUE]
    /\ killed = [u \in Thread |-> FALSE]
    /\ state = [u \in Thread |-> "RUNNING"]
    /\ pc = [u \in Thread |-> "run"]

-----------------------------------------------------------------------------
(* The waiter.                                                             *)
At(u, l) == Runs(u) /\ pc[u] = l

Goto(u, l) == pc' = [pc EXCEPT ![u] = l]

\* Memory no wait holds and no callback is running for: a callback that
\* outlived its wait (FrameAlive) writes where no later wait is yet, and what
\* it would do to a later frame at the same address is not followed.
Fresh == {f \in Timer : ~alive[f] /\ \A c \in CPU : running[c] # f}

\* The frame is made, the timer set up and started on this CPU.
Enter(u, k) ==
    /\ At(u, "run")
    /\ Fresh # {}
    /\ frame' = [frame EXCEPT ![u] = CHOOSE f \in Fresh : TRUE]
    /\ tstate' = [tstate EXCEPT ![frame'[u]] = "PENDING"]
    /\ tcpu' = [tcpu EXCEPT ![frame'[u]] = on[u]]
    /\ kind' = [kind EXCEPT ![frame'[u]] = k]
    /\ owner' = [owner EXCEPT ![frame'[u]] = u]
    /\ alive' = [alive EXCEPT ![frame'[u]] = TRUE]
    /\ done' = [done EXCEPT ![frame'[u]] = FALSE]
    /\ cond' = [cond EXCEPT ![frame'[u]] = FALSE]
    /\ Goto(u, "prepare")
    /\ UNCHANGED <<running, stage, on, home, waitq, panicked, killed, state>>

Prepare(u) ==
    /\ At(u, "prepare")
    /\ state' = [state EXCEPT ![u] = "BLOCKED"]
    /\ Goto(u, "check")
    /\ UNCHANGED <<tqVars, frameVars, killed>>

Leaves(u) ==
    \/ done[frame[u]]
    \/ cond[frame[u]]
    \/ kind[frame[u]] # "sleep" /\ killed[u]

\* mutant: a killed sleeper leaves its timer armed
AfterUncancelled(u) ==
    CASE kind[frame[u]] \in {"sleep", "killable"} -> "return"
      [] kind[frame[u]] = "timeout" -> "sync"
      [] kind[frame[u]] = "futex" -> "cancel"

\* What follows the wait: the killable sleep cancels only when a kill ended
\* it, the timeouts always, and the futex without waiting for the callback.
After(u) ==
    CASE kind[frame[u]] = "sleep" -> "return"
      [] kind[frame[u]] = "killable" -> IF done[frame[u]] THEN "return" ELSE "sync"
      [] kind[frame[u]] = "timeout" -> "sync"
      [] kind[frame[u]] = "futex" -> "cancel"

\* The loop's test, and waitqueue_finish when it ends the wait (its lock
\* is the queue's; the callback's wake holds that lock in one step).
Check(u) ==
    /\ At(u, "check")
    /\ \/ Leaves(u) /\ Goto(u, After(u)) /\ state' = [state EXCEPT ![u] = "RUNNING"]
       \/ ~Leaves(u) /\ Goto(u, "block") /\ UNCHANGED state
    /\ UNCHANGED <<tqVars, frameVars, killed>>

\* sched_block_current: off the CPU unless a wake came first.
Block(u) ==
    /\ At(u, "block")
    /\ Goto(u, "blocked")
    /\ IF state[u] = "BLOCKED" THEN on' = [on EXCEPT ![u] = None] ELSE UNCHANGED on
    /\ UNCHANGED <<tstate, tcpu, running, stage, home, waitq, panicked, frameVars, killed, state>>

Resume(u) ==
    /\ At(u, "blocked")
    /\ Goto(u, "prepare")
    /\ UNCHANGED <<tqVars, frameVars, killed, state>>

\* timer_cancel, as futex_wait calls it.
Cancel(u) ==
    /\ At(u, "cancel")
    /\ TimerCancel(frame[u])
    /\ Goto(u, "return")
    /\ UNCHANGED <<tcpu, running, stage, on, home, waitq, panicked, frameVars, killed, state>>

\* timer_cancel_sync: its entry, then its rounds.
PickQueue(u) ==
    /\ At(u, "sync") /\ waitq[u] = None
    /\ CancelSyncPick(frame[u], u)
    /\ UNCHANGED <<tstate, tcpu, running, stage, on, home, panicked, sleepVars>>

CancelSync(u) ==
    /\ At(u, "sync") /\ waitq[u] # None
    /\ CancelSyncRound(frame[u], u)
    /\ IF MayReturn(frame[u], u) THEN Goto(u, "return") ELSE UNCHANGED pc
    /\ UNCHANGED <<tcpu, running, stage, on, home, frameVars, killed, state>>

\* The function returns and its frame is gone.
Return(u) ==
    /\ At(u, "return")
    /\ alive' = [alive EXCEPT ![frame[u]] = FALSE]
    /\ Goto(u, "run")
    /\ UNCHANGED <<tqVars, kind, owner, done, cond, frame, killed, state>>

InWait(u) ==
    \/ Prepare(u) \/ Check(u) \/ Block(u) \/ Resume(u)
    \/ Cancel(u) \/ PickQueue(u) \/ CancelSync(u) \/ Return(u)

-----------------------------------------------------------------------------
(* The scheduler and the other actors.                                     *)
Runnable(u) == ~(pc[u] = "blocked" /\ state[u] = "BLOCKED")

Pick(u, c) ==
    /\ Runnable(u)
    /\ Dispatch(u, c)
    /\ UNCHANGED <<tstate, tcpu, running, stage, waitq, panicked, sleepVars>>

Preempt(u) ==
    /\ Preempted(u)
    /\ UNCHANGED <<tstate, tcpu, running, stage, waitq, panicked, sleepVars>>

\* sched_wake: a blocked (or prepared) thread becomes READY.
Woken(u) == IF state[u] = "BLOCKED" THEN [state EXCEPT ![u] = "READY"] ELSE state

\* The event of a timeout or a futex, and the wake that goes with it.
Post(f) ==
    /\ kind[f] \in {"timeout", "futex"}
    /\ alive[f] /\ ~cond[f]
    /\ cond' = [cond EXCEPT ![f] = TRUE]
    /\ state' = Woken(owner[f])
    /\ UNCHANGED <<tqVars, kind, owner, alive, done, frame, killed, pc>>

\* process_kill: the flag, then a wake of every thread of the process, the
\* ones in a wait that does not look at the flag included.
Kill(u) ==
    /\ u \in Killed
    /\ ~killed[u]
    /\ killed' = [killed EXCEPT ![u] = TRUE]
    /\ state' = Woken(u)
    /\ UNCHANGED <<tqVars, frameVars, pc>>

\* A signal for the thread that it blocks: a wake with nothing to act on.
Signal(u) ==
    /\ u \in Killed
    /\ state' = Woken(u)
    /\ UNCHANGED <<tqVars, frameVars, killed, pc>>

-----------------------------------------------------------------------------
(* The tick: sleep_fired, wait_timeout_fired, timeout_fired.  The flag is  *)
(* stored, then the waiter is woken through the frame.                     *)
Fire(c, f) ==
    /\ RunExpired(c, f, "flag")
    /\ UNCHANGED sleepVars

Flag(c) ==
    /\ Callback(c, "flag")
    /\ done' = [done EXCEPT ![running[c]] = TRUE]
    /\ CallbackTo(c, "wake")
    /\ UNCHANGED <<tstate, tcpu, running, on, home, waitq, panicked,
                   kind, owner, alive, cond, frame, killed, state, pc>>

\* mutant: the callback sets the flag and wakes nobody
WakeNobody(c) ==
    /\ Callback(c, "wake")
    /\ CallbackTo(c, "tail")
    /\ UNCHANGED <<tstate, tcpu, running, on, home, waitq, panicked, sleepVars>>

\* Through a frame that is gone the thread may be woken, out of turn, or not.
Wake(c) ==
    /\ Callback(c, "wake")
    /\ LET f == running[c] IN
       state' \in IF alive[f] THEN {Woken(owner[f])} ELSE {state, Woken(owner[f])}
    /\ CallbackTo(c, "tail")
    /\ UNCHANGED <<tstate, tcpu, running, on, home, waitq, panicked, frameVars, killed, pc>>

TickReturn(c) == Tail(c) /\ UNCHANGED sleepVars

InTick(c) == Flag(c) \/ Wake(c) \/ TickReturn(c)

Next ==
    \/ \E u \in Thread, k \in Kinds : Enter(u, k)
    \/ \E u \in Thread : InWait(u) \/ Preempt(u) \/ Kill(u) \/ Signal(u)
    \/ \E u \in Thread, c \in CPU : Pick(u, c)
    \/ \E f \in Timer : Post(f) \/ \E c \in CPU : Fire(c, f)
    \/ \E c \in CPU : InTick(c)

Spec == Init /\ [][Next]_vars

\* Ticks come and run to their end; a runnable thread gets a CPU again and
\* again (Served of RunQueue.tla), and moves on when it has one.
Fairness ==
    /\ \A c \in CPU : WF_vars(InTick(c)) /\ SF_vars(\E f \in Timer : Fire(c, f))
    /\ \A u \in Thread : SF_vars(\E c \in CPU : Pick(u, c)) /\ SF_vars(InWait(u))

FairSpec == Spec /\ Fairness

-----------------------------------------------------------------------------
\* No timer of a frame that is gone is pending, and no callback is about to
\* store the flag in one or to wake the queue in one (T5, T14): what the
\* waits' choice of timer_cancel_sync, timer_cancel or nothing has to give.
FrameAlive ==
    /\ \A f \in Timer : tstate[f] = "PENDING" => alive[f]
    /\ \A c \in CPU : stage[c] \in {"flag", "wake"} => alive[running[c]]

\* A timer left on a queue is never one of a frame that is gone, however
\* the wait ended and whatever it cancelled with.
NoneLeftArmed == \A f \in Timer : tstate[f] = "PENDING" => alive[f]

\* wait_event_timeout and its killable form, which cancel synchronously,
\* keep their frame until the callback has left it.
TimeoutFrameAlive ==
    \A c \in CPU : stage[c] \in {"flag", "wake"} =>
        alive[running[c]] \/ kind[running[c]] # "timeout"

\* Every wait ends: the flag is not stored after the wake that announces
\* it, and no wake is lost between the test and the block.
WaitEnds == \A f \in Timer : alive[f] ~> ~alive[f]

=============================================================================
