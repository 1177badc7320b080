----------------------------- MODULE TimerQueue -----------------------------
(***************************************************************************)
(* The per-CPU timer queues of kernel/timer/timer.c, as their users see    *)
(* them: the operators below are the steps each user's module puts into    *)
(* its actions.  A step is one section under a queue's lock.               *)
(*                                                                         *)
(* A callback runs in the tick of the CPU whose queue held the timer, with *)
(* the queue's lock dropped; the thread it interrupted stands still, every *)
(* other thread goes on, on any CPU.  Expiry times are abstracted: delays  *)
(* are arbitrary, so a tick may find any pending timer of its queue due    *)
(* (one timer a tick: a tick that finds two is two ticks in a row).        *)
(***************************************************************************)
EXTENDS Naturals

CONSTANTS
    CPU,      \* the processors, each with its queue
    Timer,    \* the timers
    Thread,   \* the threads that arm and cancel them
    None      \* a null pointer

ASSUME NoneAssumption == None \notin Timer \cup CPU

VARIABLES
    tstate,    \* timer.state
    tcpu,      \* timer.cpu: the queue the timer was last armed on
    running,   \* timer_queue.running
    stage,     \* where the callback running on each CPU is
    on,        \* the CPU each thread is the current thread of
    home,      \* the CPU a preempted thread stays on until it has run there
    waitq,     \* the queue each thread's timer_cancel_sync has picked
    panicked   \* timer_start or timer_cancel_sync called panic

tqVars == <<tstate, tcpu, running, stage, on, home, waitq, panicked>>

QueueInit ==
    /\ tstate = [t \in Timer |-> "IDLE"]
    /\ tcpu \in [Timer -> {CHOOSE c \in CPU : TRUE}]   \* timer_setup: CPU 0
    /\ running = [c \in CPU |-> None]
    /\ stage = [c \in CPU |-> "none"]
    /\ on = [u \in Thread |-> None]
    /\ home = [u \in Thread |-> None]
    /\ waitq = [u \in Thread |-> None]
    /\ panicked = FALSE

\* Thread u executes: it is current on a CPU that is not in its tick.
Runs(u) == on[u] # None /\ running[on[u]] = None

\* schedule_pass, with the balancer behind it (Sched.tla): an idle CPU takes
\* a thread that is not current; one that was preempted is not migrated.
Dispatch(u, c) ==
    /\ on[u] = None
    /\ home[u] \in {None, c}
    /\ running[c] = None
    /\ \A v \in Thread : on[v] # c
    /\ on' = [on EXCEPT ![u] = c]
    /\ home' = [home EXCEPT ![u] = None]

Preempted(u) ==
    /\ Runs(u)
    /\ on' = [on EXCEPT ![u] = None]
    /\ home' = [home EXCEPT ![u] = on[u]]

\* timer_start on CPU c: a timer that is already pending is a panic.
TimerStart(t, c) ==
    /\ panicked' = (panicked \/ tstate[t] = "PENDING")
    /\ tstate' = [tstate EXCEPT ![t] = "PENDING"]
    /\ tcpu' = [tcpu EXCEPT ![t] = c]

\* timer_cancel, and cancel_locked: the callback will not start.
TimerCancel(t) == tstate' = [tstate EXCEPT ![t] = "IDLE"]

\* timer_cancel_sync's entry: t->cpu is read once, with no lock.
CancelSyncPick(t, u) == waitq' = [waitq EXCEPT ![u] = tcpu[t]]

\* mutant: as timer_cancel, without the wait for a running callback
MayReturnAtOnce(t, u) == TRUE

\* The test under that queue's lock: the callback is not running there.
MayReturn(t, u) == running[waitq[u]] # t

\* One round of the loop by thread u: cancelled again, and a panic if the
\* callback that is running is on this very CPU.
CancelSyncRound(t, u) ==
    /\ TimerCancel(t)
    /\ waitq' = IF MayReturn(t, u) THEN [waitq EXCEPT ![u] = None] ELSE waitq
    /\ panicked' = (panicked \/ (~MayReturn(t, u) /\ tcpu[t] = on[u]))

\* run_expired up to the callback: off the queue, IDLE, and q->running set.
RunExpired(c, t, first) ==
    /\ running[c] = None
    /\ tstate[t] = "PENDING"
    /\ tcpu[t] = c
    /\ tstate' = [tstate EXCEPT ![t] = "IDLE"]
    /\ running' = [running EXCEPT ![c] = t]
    /\ stage' = [stage EXCEPT ![c] = first]
    /\ UNCHANGED <<tcpu, on, home, waitq, panicked>>

Callback(c, at) == running[c] # None /\ stage[c] = at

CallbackTo(c, at) == stage' = [stage EXCEPT ![c] = at]

\* run_expired after the callback: only the queue is written.
Tail(c) ==
    /\ Callback(c, "tail")
    /\ running' = [running EXCEPT ![c] = None]
    /\ stage' = [stage EXCEPT ![c] = "none"]
    /\ UNCHANGED <<tstate, tcpu, on, home, waitq, panicked>>

QueueTypeOK ==
    /\ tstate \in [Timer -> {"IDLE", "PENDING"}]
    /\ tcpu \in [Timer -> CPU]
    /\ running \in [CPU -> Timer \cup {None}]
    /\ on \in [Thread -> CPU \cup {None}]
    /\ home \in [Thread -> CPU \cup {None}]
    /\ waitq \in [Thread -> CPU \cup {None}]
    /\ \A c \in CPU : (running[c] = None) <=> (stage[c] = "none")
    /\ \A u, v \in Thread : on[u] = on[v] /\ on[u] # None => u = v

=============================================================================
