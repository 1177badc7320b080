------------------------------- MODULE Sched -------------------------------
(***************************************************************************)
(* Run queues, blocking, waking, preemption and migration:                 *)
(* kernel/scheduler/sched.c with the wait queues of wait.cee, the wait     *)
(* loops of wait.h (wait_event and its killable form) and io_poll's loop,  *)
(* which arms several queues.                                              *)
(*                                                                         *)
(* What one run-queue lock protects is one step: a scheduler pass, a wake, *)
(* a pull under both locks.  sched_wake reads t->cpu before it has a lock, *)
(* so that read and the wake are two steps.  A run queue is a set: which   *)
(* thread of the best level is next, and when a running one has used up    *)
(* its turn, is left open here (RunQueue has the lists, the slices and the *)
(* virtual run times).                                                     *)
(***************************************************************************)
EXTENDS Naturals, Sequences, SequencesExt, FiniteSets

CONSTANTS
    CPU,       \* the online processors
    Thread,    \* threads other than the idle threads
    Queue,     \* wait queues
    Waits,     \* the waits a thread may make: [qs: queues armed in order, poll: BOOLEAN]
    Waker,     \* contexts that make a condition true and wake its queue
    Killer,    \* contexts that kill a thread and wake it directly (process_kill)
    Balance,   \* CONFIG_SCHED_BALANCE
    Lowest,    \* SCHED_PRIO_LOWEST, the idle threads' level (SCHED_PRIO_HIGHEST is 0)
    Idle,      \* a CPU's idle thread
    None       \* no value

ASSUME WaitsAssumption ==
    Waits \subseteq [qs : Seq(Queue) \ {<<>>}, poll : BOOLEAN]
ASSUME DistinctAssumption ==
    /\ Idle \notin Thread /\ None \notin Thread \cup CPU \cup Waker
    /\ Waker \cap Killer = {}
ASSUME BalanceAssumption == Balance \in BOOLEAN
ASSUME LowestAssumption == Lowest \in Nat

Level == 0 .. Lowest

VARIABLES
    state,      \* thread.state
    prio,       \* thread.priority: the lower number wins
    tcpu,       \* thread.cpu; None before the thread is created
    preempted,  \* threads with THREAD_FLAG_PREEMPTED
    current,    \* runqueue.current
    ready,      \* the threads on each run queue's lists
    need,       \* CPUs with need_resched
    kassert,    \* an assertion of rr_enqueue, rr_dequeue or migrate_locked failed
    tpc,        \* where each thread is in its wait loop
    wait,       \* the wait it is making
    todo,       \* the queues left to prepare or finish
    leave,      \* whether the wait ends when its queues are finished
    waiters,    \* waitqueue.waiters
    wqLock,     \* who holds waitqueue.lock
    cond,       \* the queues whose condition is true
    kill,       \* threads whose process is being killed
    wpc,        \* where each waker is
    wqueue,     \* the queue it wakes
    wtodo,      \* the threads it has still to wake
    wcpu        \* the t->cpu sched_wake has read

rqVars    == <<state, prio, tcpu, preempted, current, ready, need, kassert>>
loopVars  == <<tpc, wait, todo, leave>>
queueVars == <<waiters, wqLock, cond, kill>>
wakeVars  == <<wpc, wqueue, wtodo, wcpu>>
vars == <<rqVars, loopVars, queueVars, wakeVars>>

AnyWait == CHOOSE w \in Waits : TRUE

Init ==
    /\ state = [t \in Thread |-> "BLOCKED"]
    /\ prio = [t \in Thread |-> Lowest]
    /\ tcpu = [t \in Thread |-> None]
    /\ preempted = {}
    /\ current = [c \in CPU |-> Idle]
    /\ ready = [c \in CPU |-> {}]
    /\ need = {}
    /\ kassert = FALSE
    /\ tpc = [t \in Thread |-> "user"]
    /\ wait = [t \in Thread |-> AnyWait]
    /\ todo = [t \in Thread |-> <<>>]
    /\ leave = [t \in Thread |-> FALSE]
    /\ waiters = [q \in Queue |-> <<>>]
    /\ wqLock = [q \in Queue |-> None]
    /\ cond = {}
    /\ kill = {}
    /\ wpc = [w \in Waker \cup Killer |-> "idle"]
    /\ wqueue = [w \in Waker \cup Killer |-> None]
    /\ wtodo = [w \in Waker \cup Killer |-> <<>>]
    /\ wcpu = [w \in Waker \cup Killer |-> None]

-----------------------------------------------------------------------------
(* rr_enqueue asserts that the thread is on no queue.                      *)
Queued(t) == \E c \in CPU : t \in ready[c]

Enqueue(c, t) ==
    /\ ready' = [ready EXCEPT ![c] = @ \cup {t}]
    /\ kassert' = (kassert \/ Queued(t))

Priority(t) == IF t = Idle THEN Lowest ELSE prio[t]

(* request_resched for a thread queued at level p by a wake, a pull or a   *)
(* boost: on an idle CPU, or over a worse current thread.                  *)
RequestResched(c, p) ==
    need' = IF current[c] = Idle \/ p < Priority(current[c]) THEN need \cup {c} ELSE need

Load(c) == Cardinality(ready[c]) + (IF current[c] = Idle THEN 0 ELSE 1)

(* sched_enqueue_new: the thread's first queue (pick_cpu's scan is a hint).*)
(* It compares levels only, so a thread created at the idle threads' level *)
(* waits for the tick, even on an idle CPU.                                *)
Create(t, p) ==
    /\ tcpu[t] = None
    /\ \E c \in CPU :
         /\ tcpu' = [tcpu EXCEPT ![t] = c]
         /\ Enqueue(c, t)
         /\ need' = IF p < Priority(current[c]) THEN need \cup {c} ELSE need
    /\ prio' = [prio EXCEPT ![t] = p]
    /\ state' = [state EXCEPT ![t] = "READY"]
    /\ UNCHANGED <<preempted, current, loopVars, queueVars, wakeVars>>

\* mutant: a preempted thread that has marked itself BLOCKED is left to its wait queue
RequeuesVoluntary(t, st, preempt) == t # Idle /\ st = "RUNNING"

(* Which current threads schedule_pass puts back on the queue: a preempted *)
(* one whatever it has marked itself, unless a wake has queued it already. *)
Requeues(t, st, preempt) ==
    t # Idle /\ (st = "RUNNING" \/ (preempt /\ st = "BLOCKED"))

\* mutant: every switch marks the thread that leaves
PreemptedAlways(prev, next, preempt) == (preempted \cup {prev}) \ {next}

(* THREAD_FLAG_PREEMPTED is set at an involuntary switch and cleared by    *)
(* the next switch in.                                                     *)
Preempted(prev, next, preempt) ==
    (preempted \cup (IF preempt /\ prev # Idle THEN {prev} ELSE {})) \ {next}

(* rr_pick_next: a thread of the best level there is.                      *)
Best(queue) == {t \in queue : \A u \in queue : prio[t] <= prio[u]}

(* schedule_pass on CPU c for its current thread in state st: re-queue it, *)
(* pick, dequeue and switch, all under the run queue's lock.               *)
SchedulePass(c, preempt, st) ==
    LET prev  == current[c]
        back  == Requeues(prev, st, preempt)
        queue == ready[c] \cup (IF back THEN {prev} ELSE {})
        left  == IF prev = Idle THEN state
                 ELSE [state EXCEPT ![prev] = IF back THEN "READY" ELSE st]
    IN  \E next \in IF queue = {} THEN {Idle} ELSE Best(queue) :
          /\ ready' = [ready EXCEPT ![c] = queue \ {next}]
          /\ state' = IF next = Idle THEN left ELSE [left EXCEPT ![next] = "RUNNING"]
          /\ tcpu' = IF next = Idle THEN tcpu ELSE [tcpu EXCEPT ![next] = c]
          /\ preempted' = Preempted(prev, next, preempt)
          /\ current' = [current EXCEPT ![c] = next]
          /\ need' = need \ {c}
          /\ kassert' = (kassert \/ (back /\ Queued(prev)))
          /\ UNCHANGED prio

(* The trap tail or a restore point with need_resched set; a thread that   *)
(* spins for a lock has interrupts off.                                    *)
Preempt(c) ==
    /\ current[c] # Idle /\ c \in need
    /\ tpc[current[c]] \notin {"arming", "unlinking"}
    /\ SchedulePass(c, TRUE, state[current[c]])
    /\ UNCHANGED <<loopVars, queueVars, wakeVars>>

(* idle_main leaves its loop.                                              *)
IdleSchedule(c) ==
    /\ current[c] = Idle /\ c \in need
    /\ SchedulePass(c, FALSE, "RUNNING")
    /\ UNCHANGED <<loopVars, queueVars, wakeVars>>

\* mutant: a tick compares levels on an idle CPU too
GivesWayToBetter(c, t) == prio[t] < Priority(current[c])

(* rr_tick: a thread gives way to a better level or, its turn used up, to  *)
(* its own; an idle CPU takes what there is.                               *)
GivesWay(c, t) == current[c] = Idle \/ prio[t] <= Priority(current[c])

(* sched_tick asks for a reschedule.  When a turn is used up is left open. *)
Tick(c) ==
    /\ c \notin need
    /\ \E t \in ready[c] : GivesWay(c, t)
    /\ need' = need \cup {c}
    /\ UNCHANGED <<state, prio, tcpu, preempted, current, ready, kassert, loopVars, queueVars, wakeVars>>

(* sched_reprioritize, by priority inheritance and the interrupt pollers:  *)
(* a queued thread is queued again at its new level, a boosted one         *)
(* preempts; a running or blocked one only changes its level.              *)
Reprioritize(t, p) ==
    /\ tcpu[t] # None /\ state[t] # "EXITED" /\ p # prio[t]
    /\ prio' = [prio EXCEPT ![t] = p]
    /\ IF state[t] = "READY" THEN RequestResched(tcpu[t], p) ELSE UNCHANGED need
    /\ UNCHANGED <<state, tcpu, preempted, current, ready, kassert, loopVars, queueVars, wakeVars>>

\* mutant: the current thread of a queue may be taken
MigratableCurrent(c) == ready[c] \ preempted

\* mutant: a preempted thread may be taken
MigratablePreempted(c) == ready[c] \ {current[c]}

(* rr_pick_migratable: neither the queue's current thread, which may be on *)
(* the list after a wake before it blocked, nor a preempted one.           *)
Migratable(c) == ready[c] \ (preempted \cup {current[c]})

(* balance_tick and sched_migrate_from on CPU `to`: one thread, if the     *)
(* loads read under both locks differ by two.                              *)
Pull(from, to) ==
    /\ Balance /\ from # to /\ Load(from) >= Load(to) + 2
    /\ \E t \in Migratable(from) :
         /\ ready' = [ready EXCEPT ![from] = @ \ {t}, ![to] = @ \cup {t}]
         /\ tcpu' = [tcpu EXCEPT ![t] = to]
         /\ kassert' = (kassert \/ state[t] # "READY" \/ t = current[from]
                                \/ tcpu[t] # from \/ t \in preempted)
         /\ RequestResched(to, prio[t])
    /\ UNCHANGED <<state, prio, preempted, current, loopVars, queueVars, wakeVars>>

-----------------------------------------------------------------------------
(* The current thread t of CPU c.  Between two of these steps it may be    *)
(* preempted.                                                              *)
Runs(c, t, where) == current[c] = t /\ tpc[t] = where

StartWait(c, t, w) ==
    /\ Runs(c, t, "user")
    /\ tpc' = [tpc EXCEPT ![t] = "prepare"]
    /\ wait' = [wait EXCEPT ![t] = w]
    /\ todo' = [todo EXCEPT ![t] = w.qs]
    /\ UNCHANGED <<rqVars, leave, queueVars, wakeVars>>

(* A thread uses up what it waited for.                                    *)
Consume(c, t, q) ==
    /\ Runs(c, t, "user") /\ q \in cond
    /\ cond' = cond \ {q}
    /\ UNCHANGED <<rqVars, loopVars, waiters, wqLock, kill, wakeVars>>

Yield(c, t) ==
    /\ Runs(c, t, "user")
    /\ SchedulePass(c, FALSE, "RUNNING")
    /\ UNCHANGED <<loopVars, queueVars, wakeVars>>

Exit(c, t) ==
    /\ Runs(c, t, "user")
    /\ SchedulePass(c, FALSE, "EXITED")
    /\ UNCHANGED <<loopVars, queueVars, wakeVars>>

\* mutant: arming a queue turns a READY thread back to BLOCKED
PreparedBlocked(st) == "BLOCKED"

(* sched_prepare_block_current: a wake that already queued the thread wins.*)
Prepared(st) == IF st = "READY" THEN "READY" ELSE "BLOCKED"

(* spin_lock_irqsave of the wait queue's lock: interrupts go off, then the *)
(* thread spins until the lock is its own.                                 *)
SpinFor(c, t) ==
    /\ \/ Runs(c, t, "prepare") /\ tpc' = [tpc EXCEPT ![t] = "arming"]
       \/ Runs(c, t, "finish") /\ tpc' = [tpc EXCEPT ![t] = "unlinking"]
    /\ UNCHANGED <<rqVars, wait, todo, leave, queueVars, wakeVars>>

(* waitqueue_prepare, under the wait queue's lock and the run queue's.     *)
Prepare(c, t) ==
    /\ Runs(c, t, "arming")
    /\ LET q == Head(todo[t]) IN
       /\ wqLock[q] = None
       /\ waiters' = [waiters EXCEPT ![q] = IF t \in Range(@) THEN @ ELSE Append(@, t)]
    /\ state' = [state EXCEPT ![t] = Prepared(@)]
    /\ todo' = [todo EXCEPT ![t] = Tail(@)]
    /\ tpc' = [tpc EXCEPT ![t] = IF Len(todo[t]) = 1 THEN "check" ELSE "prepare"]
    /\ UNCHANGED <<prio, tcpu, preempted, current, ready, need, kassert, wait, leave, wqLock, cond, kill, wakeVars>>

\* mutant: the wait does not look at the kill flag
LeavesUnkilled(t) == Range(wait[t].qs) \cap cond # {}

Leaves(t) == t \in kill \/ Range(wait[t].qs) \cap cond # {}

(* The wait's condition, then the kill flag: leave, or go on to block.     *)
Check(c, t) ==
    /\ Runs(c, t, "check")
    /\ LET out == Leaves(t) IN
       /\ leave' = [leave EXCEPT ![t] = out]
       /\ tpc' = [tpc EXCEPT ![t] = IF out THEN "finish" ELSE "block"]
       /\ todo' = [todo EXCEPT ![t] = IF out THEN wait[t].qs ELSE <<>>]
    /\ UNCHANGED <<rqVars, wait, queueVars, wakeVars>>

(* sched_block_current: a thread woken or preempted meanwhile only yields. *)
Block(c, t) ==
    /\ Runs(c, t, "block")
    /\ SchedulePass(c, FALSE, state[t])
    /\ tpc' = [tpc EXCEPT ![t] = "woken"]
    /\ UNCHANGED <<wait, todo, leave, queueVars, wakeVars>>

(* Switched back in: wait_event prepares again, io_poll disarms first.     *)
Resume(c, t) ==
    /\ Runs(c, t, "woken")
    /\ tpc' = [tpc EXCEPT ![t] = IF wait[t].poll THEN "finish" ELSE "prepare"]
    /\ todo' = [todo EXCEPT ![t] = wait[t].qs]
    /\ UNCHANGED <<rqVars, wait, leave, queueVars, wakeVars>>

(* waitqueue_finish: unlink under the wait queue's lock...                 *)
Finish(c, t) ==
    /\ Runs(c, t, "unlinking")
    /\ LET q == Head(todo[t]) IN
       /\ wqLock[q] = None
       /\ waiters' = [waiters EXCEPT ![q] = Remove(@, t)]
    /\ tpc' = [tpc EXCEPT ![t] = "setrunning"]
    /\ UNCHANGED <<rqVars, wait, todo, leave, wqLock, cond, kill, wakeVars>>

(* ...then sched_set_running_current: off the run queue if a wake put it   *)
(* there.                                                                  *)
SetRunning(c, t) ==
    /\ Runs(c, t, "setrunning")
    /\ ready' = IF state[t] = "READY" THEN [ready EXCEPT ![c] = @ \ {t}] ELSE ready
    /\ kassert' = (kassert \/ (state[t] = "READY" /\ ~Queued(t)))
    /\ state' = [state EXCEPT ![t] = "RUNNING"]
    /\ LET rest == Tail(todo[t]) IN
       IF rest # <<>>
       THEN /\ todo' = [todo EXCEPT ![t] = rest]
            /\ tpc' = [tpc EXCEPT ![t] = "finish"]
       ELSE /\ todo' = [todo EXCEPT ![t] = IF leave[t] THEN <<>> ELSE wait[t].qs]
            /\ tpc' = [tpc EXCEPT ![t] = IF leave[t] THEN "user" ELSE "prepare"]
    /\ UNCHANGED <<prio, tcpu, preempted, current, need, wait, leave, queueVars, wakeVars>>

-----------------------------------------------------------------------------
(* A waker makes a condition true, then takes the queue's lock and wakes   *)
(* every waiter (waitqueue_wake_all).                                      *)
Post(w, q) ==
    /\ wpc[w] = "idle"
    /\ cond' = cond \cup {q}
    /\ wqueue' = [wqueue EXCEPT ![w] = q]
    /\ wpc' = [wpc EXCEPT ![w] = "posted"]
    /\ UNCHANGED <<rqVars, loopVars, waiters, wqLock, kill, wtodo, wcpu>>

LockQueue(w) ==
    /\ wpc[w] = "posted" /\ wqLock[wqueue[w]] = None
    /\ wqLock' = [wqLock EXCEPT ![wqueue[w]] = w]
    /\ wtodo' = [wtodo EXCEPT ![w] = waiters[wqueue[w]]]
    /\ wpc' = [wpc EXCEPT ![w] = "walk"]
    /\ UNCHANGED <<rqVars, loopVars, waiters, cond, kill, wqueue, wcpu>>

(* process_kill, of a process with one thread: the flag, then sched_wake   *)
(* with no wait queue's lock.                                              *)
Kill(w, t) ==
    /\ wpc[w] = "idle" /\ t \notin kill /\ tcpu[t] # None /\ state[t] # "EXITED"
    /\ kill' = kill \cup {t}
    /\ wtodo' = [wtodo EXCEPT ![w] = <<t>>]
    /\ wpc' = [wpc EXCEPT ![w] = "walk"]
    /\ UNCHANGED <<rqVars, loopVars, waiters, wqLock, cond, wqueue, wcpu>>

(* sched_wake reads t->cpu...                                              *)
WakeRead(w) ==
    /\ wpc[w] = "walk" /\ wtodo[w] # <<>>
    /\ wcpu' = [wcpu EXCEPT ![w] = tcpu[Head(wtodo[w])]]
    /\ wpc' = [wpc EXCEPT ![w] = "read"]
    /\ UNCHANGED <<rqVars, loopVars, queueVars, wqueue, wtodo>>

\* mutant: the woken thread's CPU is not told
WokenSilently(c, t) ==
    /\ state' = [state EXCEPT ![t] = "READY"]
    /\ Enqueue(c, t)
    /\ UNCHANGED need

(* ...and acts under that run queue's lock, if the thread is BLOCKED.      *)
Woken(c, t) ==
    /\ state' = [state EXCEPT ![t] = "READY"]
    /\ Enqueue(c, t)
    /\ RequestResched(c, prio[t])

\* mutant: a thread still on its CPU is passed over
WakesOffCPU(t) == state[t] = "BLOCKED" /\ \A c \in CPU : current[c] # t

Wakes(t) == state[t] = "BLOCKED"

Wake(w) ==
    /\ wpc[w] = "read"
    /\ LET t == Head(wtodo[w]) IN
       IF Wakes(t)
       THEN Woken(wcpu[w], t)
       ELSE UNCHANGED <<state, ready, kassert, need>>
    /\ wtodo' = [wtodo EXCEPT ![w] = Tail(@)]
    /\ wcpu' = [wcpu EXCEPT ![w] = None]
    /\ wpc' = [wpc EXCEPT ![w] = "walk"]
    /\ UNCHANGED <<prio, tcpu, preempted, current, loopVars, queueVars, wqueue>>

WakeDone(w) ==
    /\ wpc[w] = "walk" /\ wtodo[w] = <<>>
    /\ wqLock' = IF w \in Waker THEN [wqLock EXCEPT ![wqueue[w]] = None] ELSE wqLock
    /\ wqueue' = [wqueue EXCEPT ![w] = None]
    /\ wpc' = [wpc EXCEPT ![w] = "idle"]
    /\ UNCHANGED <<rqVars, loopVars, waiters, cond, kill, wtodo, wcpu>>

-----------------------------------------------------------------------------
InWait(c, t) ==
    \/ SpinFor(c, t) \/ Prepare(c, t) \/ Check(c, t) \/ Block(c, t)
    \/ Resume(c, t) \/ Finish(c, t) \/ SetRunning(c, t)

ThreadStep(c, t) ==
    \/ \E w \in Waits : StartWait(c, t, w)
    \/ \E q \in Queue : Consume(c, t, q)
    \/ Yield(c, t) \/ Exit(c, t)
    \/ InWait(c, t)

WakerStep(w) == LockQueue(w) \/ WakeRead(w) \/ Wake(w) \/ WakeDone(w)

Next ==
    \/ \E t \in Thread, p \in Level : Create(t, p) \/ Reprioritize(t, p)
    \/ \E c \in CPU : Preempt(c) \/ IdleSchedule(c) \/ Tick(c)
    \/ \E from, to \in CPU : Pull(from, to)
    \/ \E c \in CPU, t \in Thread : ThreadStep(c, t)
    \/ \E w \in Waker, q \in Queue : Post(w, q)
    \/ \E w \in Killer, t \in Thread : Kill(w, t)
    \/ \E w \in Waker \cup Killer : WakerStep(w)

Spec == Init /\ [][Next]_vars

(* Fairness.  A CPU takes its pending reschedule; ticks come; wakers run   *)
(* on; and a thread that is on a CPU again and again makes progress in its *)
(* wait, as a tick is longer than a step.  No thread has to yield, wait or *)
(* exit.                                                                   *)
Fairness ==
    /\ \A c \in CPU : WF_vars(Preempt(c) \/ IdleSchedule(c)) /\ WF_vars(Tick(c))
    /\ \A t \in Thread : SF_vars(\E c \in CPU : InWait(c, t))
    /\ \A w \in Waker \cup Killer : WF_vars(WakerStep(w))

FairSpec == Spec /\ Fairness

-----------------------------------------------------------------------------
(* The variables keep their types.                                         *)
TypeOK ==
    /\ state \in [Thread -> {"READY", "RUNNING", "BLOCKED", "EXITED"}]
    /\ prio \in [Thread -> Level]
    /\ tcpu \in [Thread -> CPU \cup {None}]
    /\ preempted \subseteq Thread
    /\ current \in [CPU -> Thread \cup {Idle}]
    /\ ready \in [CPU -> SUBSET Thread]
    /\ need \subseteq CPU
    /\ kassert \in BOOLEAN
    /\ tpc \in [Thread -> {"user", "prepare", "arming", "check", "block", "woken",
                        "finish", "unlinking", "setrunning"}]
    /\ wait \in [Thread -> Waits]
    /\ todo \in [Thread -> Seq(Queue)]
    /\ leave \in [Thread -> BOOLEAN]
    /\ waiters \in [Queue -> Seq(Thread)]
    /\ wqLock \in [Queue -> Waker \cup {None}]
    /\ cond \subseteq Queue
    /\ kill \subseteq Thread
    /\ wpc \in [Waker \cup Killer -> {"idle", "posted", "walk", "read"}]
    /\ wqueue \in [Waker \cup Killer -> Queue \cup {None}]
    /\ wtodo \in [Waker \cup Killer -> Seq(Thread)]
    /\ wcpu \in [Waker \cup Killer -> CPU \cup {None}]

(* S26: outside the run-queue locks a thread is READY exactly when it is   *)
(* on a queue, on one only, and t->cpu names it; and a thread is current   *)
(* on at most one CPU, the one t->cpu names.                               *)
OneQueue ==
    /\ \A c \in CPU : \A t \in ready[c] : state[t] = "READY" /\ tcpu[t] = c
    /\ \A t \in Thread : state[t] = "READY" => Queued(t)
    /\ \A c \in CPU : current[c] # Idle => tcpu[current[c]] = c
    /\ \A t \in Thread : state[t] = "RUNNING" => \E c \in CPU : current[c] = t

(* rr_enqueue's, rr_dequeue's and migrate_locked's assertions hold.        *)
NoAssertionFails == ~kassert

(* S22: a thread off every CPU and off every run queue is blocked in its   *)
(* wait, linked on every queue it armed, so some wake can find it.         *)
OffCPU(t) == tcpu[t] # None /\ state[t] = "BLOCKED" /\ \A c \in CPU : current[c] # t

NoThreadLost ==
    \A t \in Thread : OffCPU(t) =>
        tpc[t] = "woken" /\ \A q \in Range(wait[t].qs) : t \in Range(waiters[q])

(* No wakeup is lost: a thread that sleeps although its condition holds,   *)
(* or although it is being killed, has a waker on its way.                 *)
NoLostWakeup ==
    \A t \in Thread : OffCPU(t) =>
        /\ \A q \in Range(wait[t].qs) \cap cond :
             \E w \in Waker : wqueue[w] = q /\ (wpc[w] = "posted" \/ t \in Range(wtodo[w]))
        /\ t \in kill => \E w \in Killer : t \in Range(wtodo[w])

(* An idle CPU with a queued thread better than its idle thread has been   *)
(* told to reschedule, however the thread came onto the queue or to its    *)
(* level.  (One created at the lowest level may wait there for the tick.)  *)
IdleTold ==
    \A c \in CPU : current[c] = Idle /\ (\E t \in ready[c] : prio[t] < Lowest) => c \in need

(* S26: a thread that leaves its CPU anywhere but at a call of its own     *)
(* (user, block) is marked as preempted, and stays with that CPU until it  *)
(* runs again, since it may hold a pointer to that CPU's block.            *)
PreemptedStays ==
    [][/\ \A c \in CPU : current'[c] # current[c] /\ current[c] # Idle
            /\ tpc[current[c]] \notin {"user", "block"} => current[c] \in preempted'
       /\ \A t \in preempted : tcpu'[t] = tcpu[t]]_vars

(* A killed thread leaves the wait it is in.                               *)
KilledLeaves == \A t \in Thread : t \in kill ~> (tpc[t] = "user" \/ state[t] = "EXITED")

(* A CPU with a queued thread does not stay idle, the thread created at    *)
(* the lowest level included: the tick finds it.                           *)
IdleRuns ==
    \A c \in CPU : (current[c] = Idle /\ ready[c] # {}) ~> (current[c] # Idle \/ ready[c] = {})
=============================================================================
