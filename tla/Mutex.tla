------------------------------- MODULE Mutex -------------------------------
(***************************************************************************)
(* The sleeping mutex with priority inheritance and handoff:               *)
(* kernel/scheduler/mutex.cee, with wait_floor_loop (wait_floor.c), which  *)
(* drives its contended path, and the wait queue under it.                 *)
(*                                                                         *)
(* Each section under one lock is a step: m->lock (tryTake, waiterTake),   *)
(* the wait queue's lock (prepare, finish, wake_one), PI_LOCK (donate,     *)
(* inherit, the whole release).  Blocking is reduced to what Sched.tla     *)
(* shows of it: a thread at its block runs on once a wake made it READY,   *)
(* at once if the wake, or a preemption, came first.                       *)
(***************************************************************************)
EXTENDS Integers, Sequences, SequencesExt, FiniteSets, FiniteSetsExt

CONSTANTS
    Thread,   \* the threads
    Mutex,    \* mutexes, as numbers: a thread blocks on one above all it holds
    Base,     \* thread.base_prio; the lower number is the higher priority
    Killed,   \* threads a process_kill may wake directly while they wait
    None      \* a null pointer

ASSUME ThreadAssumption == None \notin Thread /\ Killed \subseteq Thread
ASSUME MutexAssumption == Mutex \subseteq Nat
ASSUME BaseAssumption == Base \in [Thread -> Nat]

VARIABLES
    owner,      \* mutex.owner
    handoff,    \* mutex.handoff
    queue,      \* mutex.wq.waiters
    link,       \* the thread whose pi_held list has the mutex (pi_link)
    blockedOn,  \* thread.pi_blocked_on
    prio,       \* thread.priority, the effective one
    state,      \* thread.state
    holds,      \* the mutexes each thread has locked and not unlocked
    pc,         \* where each thread is in mutex_lock or mutex_unlock
    arg,        \* the mutex it locks or unlocks
    again,      \* wait_floor_loop's flag: not the first attempt
    heir,       \* mutex_unlock's local: whom it has to wake
    cycle       \* mutex_floor_pi_cycle was called

piVars == <<link, blockedOn, prio, cycle>>
vars == <<owner, handoff, queue, piVars, state, holds, pc, arg, again, heir>>

Init ==
    /\ owner = [m \in Mutex |-> None]
    /\ handoff = [m \in Mutex |-> None]
    /\ queue = [m \in Mutex |-> <<>>]
    /\ link = [m \in Mutex |-> None]
    /\ blockedOn = [t \in Thread |-> None]
    /\ prio = Base
    /\ state = [t \in Thread |-> "RUNNING"]
    /\ holds = [t \in Thread |-> {}]
    /\ pc = [t \in Thread |-> "run"]
    /\ arg = [t \in Thread |-> None]
    /\ again = [t \in Thread |-> FALSE]
    /\ heir = [t \in Thread |-> None]
    /\ cycle = FALSE

-----------------------------------------------------------------------------
(* piApplyChain.  A walk is at thread t, has visited `seen`, and has set   *)
(* the priorities p; link and blockedOn are as the caller has left them.   *)
\* mutant: only the first waiter of a mutex counts
TopWaitersFirst(m, p) == IF queue[m] = <<>> THEN {} ELSE {p[Head(queue[m])]}

TopWaiters(m, p) == {p[w] : w \in Range(queue[m])}

\* mutant: a boost is never taken back
EffectiveKept(t, ln, p) ==
    Min({p[t]} \cup UNION {TopWaiters(m, p) : m \in {n \in Mutex : ln[n] = t}})

\* mutant: boosted above the waiter, not to it
EffectiveAbove(t, ln, p) ==
    Min({Base[t]} \cup UNION {{q - 1 : q \in TopWaiters(m, p)} : m \in {n \in Mutex : ln[n] = t}})

Effective(t, ln, p) ==
    Min({Base[t]} \cup UNION {TopWaiters(m, p) : m \in {n \in Mutex : ln[n] = t}})

Visit(walk, ow, ln, bo) ==
    LET t   == walk.t
        eff == Effective(t, ln, walk.p)
    IN  IF t = None THEN walk
        ELSE IF t \in walk.seen THEN [walk EXCEPT !.t = None, !.cycle = TRUE]
        ELSE IF eff = walk.p[t] THEN [walk EXCEPT !.t = None]
        ELSE [t     |-> IF bo[t] = None THEN None ELSE ow[bo[t]],
              seen  |-> walk.seen \cup {t},
              p     |-> [walk.p EXCEPT ![t] = eff],
              cycle |-> walk.cycle]

(* A walk visits each thread once and stops at the first it meets again.   *)
ApplyChain(start, ow, ln, bo) ==
    LET steps == Cardinality(Thread) + 1
        walk[n \in 0..steps] ==
          IF n = 0 THEN [t |-> start, seen |-> {}, p |-> prio, cycle |-> cycle]
          ELSE Visit(walk[n - 1], ow, ln, bo)
    IN  /\ prio' = walk[steps].p
        /\ cycle' = walk[steps].cycle

-----------------------------------------------------------------------------
At(t, where) == pc[t] = where

Goto(t, where) == pc' = [pc EXCEPT ![t] = where]

(* mutex_lock: tryTake, or into the wait loop.  Blocking locks are taken   *)
(* in order; locking a mutex twice is a panic.                             *)
Lock(t, m) ==
    /\ At(t, "run") /\ \A n \in holds[t] : n < m
    /\ \/ /\ owner[m] = None
          /\ owner' = [owner EXCEPT ![m] = t]
          /\ holds' = [holds EXCEPT ![t] = @ \cup {m}]
          /\ UNCHANGED <<pc, arg, again>>
       \/ /\ owner[m] # None
          /\ Goto(t, "prepare")
          /\ arg' = [arg EXCEPT ![t] = m]
          /\ again' = [again EXCEPT ![t] = FALSE]
          /\ UNCHANGED <<owner, holds>>
    /\ UNCHANGED <<handoff, queue, piVars, state, heir>>

(* mutex_trylock, which succeeds; in any order.                            *)
TryLock(t, m) ==
    /\ At(t, "run") /\ owner[m] = None
    /\ owner' = [owner EXCEPT ![m] = t]
    /\ holds' = [holds EXCEPT ![t] = @ \cup {m}]
    /\ UNCHANGED <<handoff, queue, piVars, state, pc, arg, again, heir>>

(* waitqueue_prepare: linked once, and BLOCKED.                            *)
Prepare(t) ==
    /\ At(t, "prepare")
    /\ queue' = [queue EXCEPT ![arg[t]] = IF t \in Range(@) THEN @ ELSE Append(@, t)]
    /\ state' = [state EXCEPT ![t] = "BLOCKED"]
    /\ Goto(t, "attempt")
    /\ UNCHANGED <<owner, handoff, piVars, holds, arg, again, heir>>

\* mutant: the one that asked for the handoff takes the mutex before it is released
MayTakeEarly(t, m) == owner[m] \in {None, t} \/ handoff[m] = t

MayTake(t, m) == owner[m] \in {None, t}

Asks(t, m) == again[t] /\ handoff[m] = None

(* waiterTake, under m->lock.                                              *)
WaiterTake(t) ==
    /\ At(t, "attempt")
    /\ LET m == arg[t] IN
       \/ /\ MayTake(t, m)
          /\ owner' = [owner EXCEPT ![m] = t]
          /\ Goto(t, "finish")
          /\ UNCHANGED handoff
       \/ /\ ~MayTake(t, m)
          /\ handoff' = [handoff EXCEPT ![m] = IF Asks(t, m) THEN t ELSE @]
          /\ Goto(t, "donate")
          /\ UNCHANGED owner
    /\ UNCHANGED <<queue, piVars, state, holds, arg, again, heir>>

(* The rest of attempt, under PI_LOCK: donate to the owner and up the      *)
(* chain.                                                                  *)
Donate(t) ==
    /\ At(t, "donate")
    /\ LET m == arg[t]
           o == owner[m]
           bo == [blockedOn EXCEPT ![t] = m]
           ln == [link EXCEPT ![m] = IF @ = None THEN o ELSE @]
       IN  IF o \notin {None, t}
           THEN blockedOn' = bo /\ link' = ln /\ ApplyChain(o, owner, ln, bo)
           ELSE UNCHANGED piVars
    /\ Goto(t, "block")
    /\ UNCHANGED <<owner, handoff, queue, state, holds, arg, again, heir>>

(* sched_block_current returns after a wake, or at once if the thread was  *)
(* preempted since its prepare; then woken().                              *)
Woken(t) ==
    /\ At(t, "block") /\ state[t] = "READY"
    /\ state' = [state EXCEPT ![t] = "RUNNING"]
    /\ blockedOn' = [blockedOn EXCEPT ![t] = None]
    /\ again' = [again EXCEPT ![t] = TRUE]
    /\ Goto(t, "prepare")
    /\ UNCHANGED <<owner, handoff, queue, link, prio, cycle, holds, arg, heir>>

(* waitqueue_finish.                                                       *)
Finish(t) ==
    /\ At(t, "finish")
    /\ queue' = [queue EXCEPT ![arg[t]] = Remove(@, t)]
    /\ state' = [state EXCEPT ![t] = "RUNNING"]
    /\ Goto(t, "inherit")
    /\ UNCHANGED <<owner, handoff, piVars, holds, arg, again, heir>>

(* The end of lockCommon, under PI_LOCK: inherit from those still queued.  *)
Inherit(t) ==
    /\ At(t, "inherit")
    /\ LET m == arg[t]
           bo == [blockedOn EXCEPT ![t] = None]
           ln == [link EXCEPT ![m] = IF @ = None THEN t ELSE @]
       IN  /\ blockedOn' = bo
           /\ IF queue[m] # <<>>
              THEN link' = ln /\ ApplyChain(t, owner, ln, bo)
              ELSE UNCHANGED <<link, prio, cycle>>
           /\ holds' = [holds EXCEPT ![t] = @ \cup {m}]
    /\ Goto(t, "run")
    /\ UNCHANGED <<owner, handoff, queue, state, arg, again, heir>>

\* mutant: the request stays after it is served
HandoffKept(m) == handoff

\* mutant: the heir is left blocked on the mutex it owns
HeirBlocked(h) == blockedOn

HandoffDone(m) == [handoff EXCEPT ![m] = None]

HeirUnblocked(h) == IF h = None THEN blockedOn ELSE [blockedOn EXCEPT ![h] = None]

(* mutex_unlock up to its wake, under PI_LOCK: the mutex goes to the       *)
(* waiter that asked, or is free, and its donation is taken back.          *)
Unlock(t, m) ==
    /\ At(t, "run") /\ m \in holds[t]
    /\ LET h  == handoff[m]
           ow == [owner EXCEPT ![m] = h]
           bo == HeirUnblocked(h)
           ln == [link EXCEPT ![m] = None]
       IN  /\ owner' = ow
           /\ blockedOn' = bo
           /\ heir' = [heir EXCEPT ![t] = h]
           /\ IF link[m] # None
              THEN link' = ln /\ ApplyChain(t, ow, ln, bo)
              ELSE UNCHANGED <<link, prio, cycle>>
    /\ handoff' = HandoffDone(m)
    /\ holds' = [holds EXCEPT ![t] = @ \ {m}]
    /\ arg' = [arg EXCEPT ![t] = m]
    /\ Goto(t, "wake")
    /\ UNCHANGED <<queue, state, again>>

(* Then sched_wake of the heir, or waitqueue_wake_one: the first waiter    *)
(* still BLOCKED.                                                          *)
Asleep(s) == SelectSeq(s, LAMBDA w : state[w] = "BLOCKED")

\* mutant: the heir is not woken itself
TargetFirst(t) == Asleep(queue[arg[t]])

Target(t) == Asleep(IF heir[t] # None THEN <<heir[t]>> ELSE queue[arg[t]])

Wake(t) ==
    /\ At(t, "wake")
    /\ state' = IF Target(t) = <<>> THEN state ELSE [state EXCEPT ![Head(Target(t))] = "READY"]
    /\ heir' = [heir EXCEPT ![t] = None]
    /\ Goto(t, "run")
    /\ UNCHANGED <<owner, handoff, queue, piVars, holds, arg, again>>

(* schedule_pass's preempt branch: a thread preempted after its prepare    *)
(* and before its block is queued again, and its block then only yields.   *)
Preempt(t) ==
    /\ pc[t] \in {"attempt", "donate"} /\ state[t] = "BLOCKED"
    /\ state' = [state EXCEPT ![t] = "READY"]
    /\ UNCHANGED <<owner, handoff, queue, piVars, holds, pc, arg, again, heir>>

(* process_kill wakes a thread whatever it waits for.                      *)
Kill(t) ==
    /\ t \in Killed /\ state[t] = "BLOCKED"
    /\ state' = [state EXCEPT ![t] = "READY"]
    /\ UNCHANGED <<owner, handoff, queue, piVars, holds, pc, arg, again, heir>>

InLock(t) == Prepare(t) \/ WaiterTake(t) \/ Donate(t) \/ Woken(t) \/ Finish(t) \/ Inherit(t)

Next ==
    \E t \in Thread :
      \/ InLock(t) \/ Wake(t) \/ Preempt(t) \/ Kill(t)
      \/ \E m \in Mutex : Lock(t, m) \/ TryLock(t, m) \/ Unlock(t, m)

Spec == Init /\ [][Next]_vars

-----------------------------------------------------------------------------
(* The variables keep their types.                                         *)
TypeOK ==
    /\ owner \in [Mutex -> Thread \cup {None}]
    /\ handoff \in [Mutex -> Thread \cup {None}]
    /\ queue \in [Mutex -> Seq(Thread)]
    /\ link \in [Mutex -> Thread \cup {None}]
    /\ blockedOn \in [Thread -> Mutex \cup {None}]
    /\ prio \in [Thread -> Range(Base)]
    /\ state \in [Thread -> {"RUNNING", "BLOCKED", "READY"}]
    /\ holds \in [Thread -> SUBSET Mutex]
    /\ pc \in [Thread -> {"run", "prepare", "attempt", "donate", "block", "finish", "inherit", "wake"}]
    /\ arg \in [Thread -> Mutex \cup {None}]
    /\ again \in [Thread -> BOOLEAN]
    /\ heir \in [Thread -> Thread \cup {None}]
    /\ cycle \in BOOLEAN

InLoop(t) == pc[t] \in {"prepare", "attempt", "donate", "block", "finish", "inherit"}

(* Between mutex_lock's return and mutex_unlock a thread is the owner, so  *)
(* no two are inside and no unlock panics (mutex_floor_bad_unlock).        *)
MutualExclusion == \A t \in Thread : \A m \in holds[t] : owner[m] = t

(* A handoff is asked only of an owner, by a waiter that has not the mutex *)
(* and is still in its wait loop: mutex_unlock's pointer is good.          *)
HandoffGood ==
    \A m \in Mutex : handoff[m] # None =>
        LET w == handoff[m] IN
        /\ owner[m] \notin {None, w}
        /\ pc[w] \in {"donate", "block", "prepare", "attempt"} /\ arg[w] = m /\ again[w]

(* No waiter sleeps for ever: if one sleeps on a mutex that is free, or    *)
(* that has been handed to it, then a thread that will wake it or take the *)
(* mutex is on its way.                                                    *)
Sleeps(t, m) == pc[t] = "block" /\ state[t] = "BLOCKED" /\ arg[t] = m

SleeperHasWaker ==
    \A t \in Thread, m \in Mutex : Sleeps(t, m) =>
        /\ owner[m] = t => \E u \in Thread : pc[u] = "wake" /\ heir[u] = t
        /\ owner[m] = None =>
             \E u \in Thread :
                \/ pc[u] = "wake" /\ arg[u] = m /\ heir[u] = None
                \/ arg[u] = m /\ pc[u] \in {"prepare", "attempt"}
                \/ arg[u] = m /\ pc[u] \in {"donate", "block"} /\ state[u] = "READY"

(* With locks taken in order no donation walk meets a thread twice.        *)
NoFalseCycle == ~cycle

(* A mutex is linked only in its owner's pi_held, and a thread that runs   *)
(* above its base does so for a waiter of a mutex it holds: nobody is left *)
(* boosted.                                                                *)
BoostJustified ==
    /\ \A m \in Mutex : link[m] # None => owner[m] = link[m]
    /\ \A t \in Thread : prio[t] # Base[t] =>
         \E m \in Mutex : link[m] = t /\ \E w \in Range(queue[m]) : prio[w] <= prio[t]

(* Inheritance: an owner runs at least at the priority of each waiter that *)
(* sleeps on its mutex, unless a waiter that will donate for all of them,  *)
(* or the new owner's own inheritance, is on its way.                      *)
Settled(m) ==
    /\ owner[m] # None /\ ~(InLoop(owner[m]) /\ arg[owner[m]] = m)
    /\ \A u \in Thread :
         /\ ~(InLoop(u) /\ arg[u] = m /\ ~Sleeps(u, m))
         /\ ~(pc[u] = "wake" /\ arg[u] = m)

OwnerInherits ==
    \A m \in Mutex, t \in Thread : Settled(m) /\ Sleeps(t, m) => prio[owner[m]] <= prio[t]

(* The same for the waiters the scheme knows to be blocked.                *)
KnownInherits ==
    \A m \in Mutex, t \in Thread :
        Settled(m) /\ Sleeps(t, m) /\ blockedOn[t] = m => prio[owner[m]] <= prio[t]

=============================================================================
