# TLA+ models of the CosmoOS kernel's synchronisation core

CosmoOS is a small SMP operating system: a kernel with loadable modules and
in-kernel services (file systems, network stack, hypervisor), a UEFI loader, a
C library, a Linux personality and a package manager.  Everything in it that
waits, wakes, times out or frees memory another CPU may be reading rests on a
few hundred lines in `kernel/core`, `kernel/scheduler` and `kernel/timer`.
Those lines are what these modules model: each is short, each is executed
under every interleaving the machine can produce, and a mistake in one shows
up as a rare hang or a corrupted stack far away.

Paths below are relative to the repository.

## 1. The system

| Part | State | Operations | Where it is hard |
|---|---|---|---|
| Quiescence, `kernel/core/quiesce.cee`, `quiesce_core.h` | the epoch, each CPU's `seen_epoch`, the online mask, the callback list | publish at a quiescent point, `synchronize_quiesce`, `call_quiesce`, the worker, a CPU's start | a CPU that comes online while a grace period begins; the idle loop's publish, made with interrupts on; resubmission from a callback |
| Scheduler, `scheduler/sched.c`, `policy_rr.c`, `fair.cee` | per-CPU run queues, `current`, `need_resched`, each thread's `state`, `cpu`, level, slice, vruntime, PREEMPTED flag | `schedule_pass`, preemption, tick, `sched_wake`, `sched_reprioritize`, the balancer's pull, create, exit | a wake of a thread that is still running; preemption of a thread that has marked itself BLOCKED; stale `t->cpu` |
| Wait queues, `scheduler/wait.cee`, `wait.h`, `io/poll.c` | waiters of each queue | prepare, test, block, finish, wake; the multi-queue loop | lost wakeups; a wake between two arms; a kill between test and block |
| Mutex, `scheduler/mutex.cee` | owner, handoff request, waiters, `pi_held`, `pi_blocked_on`, priorities | lock, trylock, unlock, donation along the chain, inheritance, restoration | owner changes between the failed take and the donation; handoff to a thread that has not run |
| Timer queues, `timer/timer.c` | each timer's state and CPU, each queue's running callback | start, cancel, `timer_cancel_sync`, `run_expired` | a cancel that races the callback on another CPU; re-arming callbacks |
| Timed waits, `wait_floor.c`, `wait.h`, `ipc/futex.c` | timer, flag and queue on the waiter's stack | sleep, killable sleep, timed event, timed futex | the frame goes away while the callback is in it |
| Timer objects, `io/timerobj.c` | count, interval, armed, dying, references | settime, read, expiry, close, release | settime against settime, against expiry, and against the last close |

How they interact: wait queues call the scheduler's prepare, block and wake;
mutexes are wait queues plus priorities; timed waits are wait queues plus a
timer; timer callbacks run in the tick, which is also a quiescent point and a
preemption point; module unload, interrupt unregistration and interface removal
wait for grace periods, which end because CPUs schedule.  The models follow the
same lines: each takes from the one below it what that one is shown to provide
(a preempted thread is not migrated, a queued thread is served, a section under
a spinlock is atomic).

The rest of the repository is listed in `PROJECT.json`, with the reason each
part is not modelled yet.  By size it is mostly sequential code (parsers,
drivers, packet processing, path lookup).  The parts with hard concurrency or
crash behaviour are in the plan below.

## 2. Modules

| Module | Models |
|---|---|
| `Quiesce`, `QuiesceProofs`, `MCQuiesce` | quiescence; the proofs |
| `Sched`, `MCSched` | run queues, wait queues, the wait loops, wakers, killers, the balancer |
| `RunQueue`, `MCRunQueue` | one CPU's policy: lists, slices, virtual run times |
| `Mutex`, `MCMutex` | the sleeping mutex |
| `TimerQueue` | timer queues as operators, used by the two modules below |
| `Sleep`, `MCSleep` | waits whose timer is on the stack |
| `TimerObj`, `MCTimerObj` | timer objects |

A comment line starting with "mutant:" introduces a deliberately wrong version
of the definition that follows it.  Substituted for that definition it makes a
named property fail; nothing else refers to it.

### Quiesce

`epoch`, `seen` and `online` are the fields of those names.  `thr` and `irq`
say where the thread level and the interrupt level of each CPU are; a publish
is two steps, the load of the epoch and the store of `seen_epoch`, with the
loaded value in `thrE`, `irqE` or `idleE`.  Interrupts are off between the two
for the scheduler's publishes and on for the idle loop's, so between
`IdlePublishLoad` and `IdlePublish` anything may happen on the CPU and its
`seen_epoch` may go back.  `heldT` and `heldI` are the objects a section or a
handler has looked up.  A reclaiming thread goes through `Unlink`, `Begin`
(W1), `Snapshot` (the online mask, read CPU by CPU, so any set between the CPUs
online at W1 and those online now), `PublishOwn`, and scans of `seen` one CPU at
a time.  The grace period's wait queue is abstracted: a waiter also wakes at a
deadline of half a tick, so a scan may be retried at any time.  CPUs do not go
offline (the code has no such operation).  Memory is sequentially consistent;
the two fences W1b and Q0 are what makes this right for the online mask, and
the mutant `StartOnlineEarly` is what their absence would allow.

### Sched

Run queues are sets (`ready`) and each thread has a level (`prio`).  A pass
picks a thread of the best level there is (`Best`); which one, and when a turn
is used up, is left open, which covers every slice and vruntime.
`SchedulePass` is the body of `schedule_pass` under the run queue's lock;
`Preempt`, `IdleSchedule`, `Block` and `Yield` reach it the way the code does.
`RequestResched` is the test a wake, a pull and a boost make; `Create` has the
narrower one of `sched_enqueue_new`, which does not look whether the CPU is
idle, so a thread created at the lowest level waits for the tick there.
`Reprioritize` is `sched_reprioritize`, `Pull` the balancer's migration with
the assertion of `migrate_locked`.  A wait is a record: the queues it arms and
whether it is a poll, which disarms its queues when it is woken and arms them
again, as `io_poll` does.  `wait_event`, its killable form and `io_poll` are
the same steps over one or two queues.  A waker posts its condition, takes the wait queue's lock
and wakes the entries one by one; each wake is the unlocked read of `t->cpu`
(`WakeRead`) and the locked part (`Wake`).  A killer wakes a thread directly.
A CPU that spins for a wait queue's lock does so with interrupts off and is not
preempted (`SpinFor`).

### RunQueue

What Sched leaves open, on one CPU with fixed levels.  `queue` has a list per
level; `Enqueue` is `rr_enqueue` with `fair_enqueue`'s placement and walk,
`Charge` is `rr_charge` with `fair_min`'s advance, `GivesWay` is `rr_tick`'s
decision.  Time is counted in ticks, and a thread switched out within a tick
is charged for a part of it, in whole units of virtual time.  A virtual run time is kept as its lead on the queue's
`fair_min`: the policy compares run times with each other and with `fair_min`,
so a common shift changes nothing and the leads stay finite.

### Mutex

One step per section under `m->lock` or `PI_LOCK`.  `ApplyChain` is
`piApplyChain`: the walk from an owner through the mutex that owner waits for,
recomputing each effective priority, and noting when it meets a thread twice.
`Kill` is a wake from outside (`process_kill`), which mutex waits ignore.  The
scheduler is abstracted to `state`: a BLOCKED thread at its block does not run,
and one preempted between its prepare and its block is queued again
(`Preempt`), so that its block returns with no wake at all.
Mutexes are locked in increasing order, as lock validation demands.

### TimerQueue, Sleep, TimerObj

A callback runs in the tick of the CPU whose queue held the timer, with the
lock dropped, as separate steps (`stage`).  The thread that was current there
stands still; other threads run, are preempted and migrate (`on`, `home`).
Delays are arbitrary: any pending timer may be found due.  `timer_cancel_sync`
reads `t->cpu` once, with no lock (`CancelSyncPick`, kept in `waitq`), and then
takes one step per round of its loop on that CPU's queue, wherever the callback
it should wait for runs.

In `Sleep` a timer stands for the stack frame it is in.  Each wait takes a frame
(`Enter`), of one of four kinds, and `alive` says that the frame exists.  A
thread enters a wait whenever it runs: after a kill, and while the callback of
its last wait is still running.  The frame it takes is one no callback is
running for: what a callback that outlived its wait would do to a new frame at
the same address is not followed.  `sleep_stack` shows that callbacks do outlive
waits, so this is a limit of the model.  A callback that wakes through a frame
that is gone may or may not wake the thread.

In `TimerObj` the object is used through a handle; each call holds a reference,
and the put that drops the last one releases the object.  `op_lock` is modelled
as a lock, the object's spinlock as atomicity.  A read that finds no expiry
returns or blocks; it blocks with its reference held, until an expiry or a
kill.

## 3. Runs

| Run | Instance | Checks |
|---|---|---|
| `quiesce_online` | 3 CPUs (2 start during the run), 1 object, 1 caller and the worker | `TypeOK`, `NoUseAfterFree`, `GraceElapsed` |
| `quiesce_callbacks` | 1 CPU, 2 objects, 2 callers, 1 resubmission each | `CallbackOrder`, `NoPanic` |
| `quiesce_live` | 2 CPUs, 1 object, fair | `Reclaimed` |
| `sched_event` | 2 CPUs, 2 threads, 1 queue, 1 waker, balancer | `TypeOK`, `OneQueue`, `NoAssertionFails`, `NoThreadLost`, `NoLostWakeup`, `IdleTold`, `PreemptedStays` |
| `sched_poll` | 2 CPUs, 1 thread, 2 queues, a waker and a killer, fair | `OneQueue`, `NoAssertionFails`, `NoLostWakeup`, `KilledLeaves`, `IdleRuns` |
| `runqueue` | 1 CPU, 3 threads, 3 assignments of 3 levels, fair | `TypeOK`, `BestRuns`, `Served` |
| `mutex_chain` | 3 threads of 3 priorities, 2 mutexes, one thread woken by kills | `TypeOK`, `MutualExclusion`, `HandoffGood`, `SleeperHasWaker`, `NoFalseCycle`, `BoostJustified`, `KnownInherits` |
| `sleep_waits` | 2 CPUs, 1 thread, 2 frames, all four kinds of wait, fair | `TimeoutFrameAlive`, `NoneLeftArmed`, `WaitEnds` |
| `timerobj` | 2 CPUs, 2 threads, fair | `TypeOK`, `ObjectAlive`, `NoPanic`, `ArmedAgrees`, `SettimeQuiet`, `OneShotOnce`, `ReaderWoken`, `ClosedFreed` |

These hold.  Some say less than their names:

* `IdleTold` is about threads above the lowest level, since the tick is what
  finds a thread created at that level on an idle CPU; `IdleRuns` says that it
  does.
* `Served` excepts a thread that a better level keeps waiting: the levels are
  strict and a worse one may starve.
* `BestRuns` holds for fixed levels.  `sched_reprioritize` deliberately does not
  ask a running thread whose level it lowers to give way.
* `ClosedFreed` excepts a reader asleep on a timer that is not armed, which
  keeps its reference until it is killed
  (`docs/audit/next-subsystem-timerfd.md`).

Three more state what the repository says of itself and are
violated by what the code does:

* `sched_stale_cpu` (`OneQueue`, with a killer and the balancer).  The
  scheduler's invariant S26 says that `sched_wake`'s unlocked read of `t->cpu`
  stays correct "because the thread it can wake is BLOCKED".  `process_kill`
  wakes threads in any state: between the read and the lock the thread can be
  pulled to another CPU, run there and start a wait, and it is then queued on
  the CPU it left while it is current on the other.
* `mutex_inherit` (`OwnerInherits`).  `mutex.h` says an owner is boosted to the
  highest priority blocked on it, up the chain.  A waiter that found the mutex
  free at its donation and lost it to another waiter sleeps with
  `pi_blocked_on` clear; a later donation to that waiter stops there.
  `KnownInherits`, which holds, is the same property for the other waiters.
* `sleep_stack` (`FrameAlive`).  A comment in `thread_sleep_ns` says the stack
  objects may go once `done` is set.  `sleep_fired` sets `done` and then wakes a
  queue in the same frame; a sleeper that something else woke meanwhile can
  return between the two.  The wait of `futex_wait`, which cancels without
  waiting, violates it as well; the timeouts do not (`TimeoutFrameAlive`).

### Bounds

* CPUs.  Two suffice for every race between a waker, a callback or a balancer
  and a thread.  Quiesce has three, so that a CPU can start between a waiter's
  advance and its snapshot while another is already being waited for.
* Threads.  Run queues, wait queues and migration need two threads; donation
  along a chain needs three.  Timed waits of different threads share nothing
  but CPUs, so `sleep_waits` has one thread and two CPUs.  Three threads take
  turns in `runqueue`, so that one may be passed over by two others.
* Frames.  While a thread runs, the callback of one frame of its at most runs on
  the other CPU, so with two frames `Enter` is never held up.
* Levels.  `Lowest` = 1 in Sched tells the idle thread's level from a better
  one; RunQueue has one above and one below the fair level, a slice of two ticks
  and, where code compares leads with the granularity and the bonus (one each),
  leads cut off at `MaxLead` = 2 on either side.  The cut may make two run times
  equal that were not, never reverse them.
* `MaxResub` (Quiesce) caps how often one callback resubmits: one
  resubmission already overlaps a batch being run.  The epoch needs no bound,
  since each object is reclaimed once or resubmitted `MaxResub` times.  The
  code's 64-bit epoch does not wrap in practice and is a natural number here.
* `MaxCount` (TimerObj) is where the count of unread expirations stands still;
  `OneShotOnce` tells 1 from more than 1, so 2 is enough.

Deadlock is checked in every run.

### Fairness

* Code with interrupts off, handlers and ticks end: weak fairness.
* Ticks come: weak fairness of `Tick`.
* A CPU that is preemptible again and again schedules again and again, because
  its tick asks for it; read sections end: strong fairness, as the section and
  the preemptible moment come and go.
* In RunQueue ticks come, a pending reschedule is taken, and a thread in a wait
  loop reaches its block or its finish.  That a queued thread is served is then
  `Served`, not an assumption.
* In Sleep and TimerObj a runnable thread is picked again and again (`Served`),
  and one that is on a CPU again and again makes progress, as a tick is longer
  than a step.
* In TimerObj a thread is picked outside ticks too, and one round of
  `timer_cancel_sync`'s loop fits between two expiries: a periodic timer whose
  callback filled the whole time would livelock the cancel, in the model and on
  the machine.
* Nobody has to wait, yield, exit, post, kill, or call anything.

## 4. Proofs

`QuiesceProofs` proves, for every set of CPUs, objects and callers and every
`MaxResub`:

* `TypeCorrect`: `Spec => [](TypeOK /\ WorkerInv)`, where `WorkerInv` says that
  the worker has a batch whenever it is reclaiming one (without it `Head(batch)`
  has no type).
* `GraceSafety`: `Spec => [](GraceElapsed /\ NoUseAfterFree)`.

Assumptions: the boot CPU is a CPU, the set of CPUs is finite, the worker is
not a caller, `MaxResub` is a natural number, `None` is not.

Neither property is inductive.  The invariant is the conjunction `IInv` of

* `SectionInv`: what a CPU holds it holds inside a section or a handler;
  handlers and publishes nest; a CPU that runs is online; before `quiesce_init`
  only the boot CPU runs (why the early return of `synchronize_quiesce` is
  right);
* `EpochInv`: nobody has seen, or is about to publish, an epoch above the
  current one, so an advance makes every CPU unpublished;
* `OwnInv`: what is being reclaimed is unlinked, so no new reference to it
  appears;
* `GraceInv`: a CPU that still holds what thread k reclaims is in k's snapshot,
  has not published k's target, and has not been passed by k's scan.

The last is the argument itself.  Holding something means being inside a
section or handler; a publish happens only outside both, so a holder has not
published since k advanced the epoch; the idle loop's late store only lowers
`seen`; and a CPU that comes online after k's snapshot finds only what is still
linked.  One lemma per conjunct (`SectionStep`, `EpochStep`, `OwnStep`,
`GraceStep`, with `HeldStep` and `SeenStep` for what steps do to `Held` and
`seen`) and `FreeStep` for the frees.

Only model-checked: everything about the other modules, the order and number of
callbacks, and all liveness.  Liveness under fairness, ENABLED, induction over
data and RECURSIVE operators are out of the prover's reach.

## 5. Plan

In this order; each step adds modules beside the existing ones.

1. **TCP connection blocks** over `TimerQueue`: references, lock, four timers,
   end.  Questions: exact references, nothing armed after the end, no double
   start, and whether the block outlives a callback when `armRexmit` moves its
   timer to another CPU's queue.
2. **Objects and handles**: exact reference and handle counts, the destroy
   gate, the last-closed notice against epoll's add.  Then **epoll**: no lost
   event, one-shot and edge modes, rearming.
3. **Completions, semaphores, futex buckets**: lifetime of a completion on the
   waiter's stack, requeue.  The frame of `futex_wait`, whose `timer_cancel`
   does not wait, belongs here.
4. **Mutex liveness**: that every waiter is served (S33), and that the heir
   `mutex_unlock` wakes last is still there.
5. **cosmofs commit**: copy-on-write generations and the free log with a crash
   after any write, shown to implement an abstract file system whose commit is
   one step.
6. **Virtqueue, ASIDs, buddy allocator**: wrapping indices, rollover with
   other CPUs running, split and merge against a reference definition.
7. **Module unload and interface removal**, composed with Quiesce.
8. **Proofs**: `OneQueue` and `NoThreadLost` of Sched without the balancer's
   race, `MutualExclusion` and `HandoffGood` of Mutex, `ObjectAlive` of
   TimerObj.  Refinement: a mutex with handoff implements a plain lock; a wait
   queue with its loop implements a condition that is waited for.

## 6. Not modelled

Lock validation, statistics and debug checks; expiry times; the
saturation of the fair level's sums and `fair_rebase`; weak memory beyond the fences named above (the repository's litmus
tests cover those); affinity changes; allocation failure; the user-visible
encodings of system calls.  Parts of the system left out altogether are listed
with reasons in `PROJECT.json`.
