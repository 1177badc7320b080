------------------------------ MODULE RunQueue ------------------------------
(***************************************************************************)
(* The scheduling policy on one CPU: kernel/scheduler/policy_rr.c with the *)
(* arithmetic of fair.cee, and the parts of sched.c that call it.  Sched   *)
(* leaves a run queue a set; here it is one list per level, with slices at *)
(* the round-robin levels and virtual run times at the fair one.           *)
(*                                                                         *)
(* Time passes in ticks.  A virtual run time is kept as its lead on the    *)
(* queue's fair_min, which is all the policy ever looks at; a thread that  *)
(* sleeps falls back no further than where fair_place will put it.         *)
(***************************************************************************)
EXTENDS Integers, Sequences, SequencesExt, FiniteSetsExt

CONSTANTS
    Thread,       \* threads other than the idle thread
    Fair,         \* SCHED_PRIO_DEFAULT, the fair level
    Lowest,       \* SCHED_PRIO_LOWEST (SCHED_PRIO_HIGHEST is 0)
    Slice,        \* SCHED_SLICE_NS in ticks
    Granularity,  \* FAIR_GRANULARITY_NS
    Bonus,        \* FAIR_WAKE_BONUS_NS
    Weighted,     \* a tick of each thread's run time as virtual time (1024 / fair_weight)
    Prios,        \* the assignments of levels to the threads to look at
    MaxLead,      \* bound: leads further apart than this are not told apart
    Idle          \* the idle thread

ASSUME LevelAssumption == Lowest \in Nat /\ Fair \in 0 .. Lowest
ASSUME TimeAssumption ==
    /\ Slice \in Nat \ {0} /\ Granularity \in Nat /\ Bonus \in Nat /\ MaxLead \in Nat
    /\ Weighted \in [Thread -> Nat \ {0}]
ASSUME IdleAssumption == Idle \notin Thread
ASSUME PriosAssumption == Prios \subseteq [Thread -> 0 .. Lowest]

Level == 0 .. Lowest

VARIABLES
    prio,     \* thread.priority
    state,    \* thread.state
    queue,    \* runqueue.ready
    current,  \* runqueue.current
    need,     \* need_resched
    slice,    \* thread.slice_left_ns
    lead      \* thread.vruntime less runqueue.fair_min

vars == <<prio, state, queue, current, need, slice, lead>>

Init ==
    /\ prio \in Prios
    /\ state = [t \in Thread |-> "BLOCKED"]
    /\ queue = [p \in Level |-> <<>>]
    /\ current = Idle
    /\ need = FALSE
    /\ slice = [t \in Thread |-> Slice]
    /\ lead = [t \in Thread |-> 0]

-----------------------------------------------------------------------------
Priority(t) == IF t = Idle THEN Lowest ELSE prio[t]

Queued(t) == t \in Range(queue[prio[t]])

(* The levels the queue's bitmap names.                                    *)
Bitmap(q) == {p \in Level : q[p] # <<>>}

(* fair_place: a joining thread starts no further back than the bonus.     *)
Place(l) == Max({l, -Bonus})

(* fair_enqueue's walk from the tail: before the threads further ahead at  *)
(* the end of the list.                                                    *)
Insert(list, t, l) ==
    LET behind == {i \in 1 .. Len(list) : l[list[i]] <= l[t]}
        at == IF behind = {} THEN 0 ELSE Max(behind)
    IN  InsertAt(list, at + 1, t)

(* rr_enqueue.  At the fair level a thread that yields goes behind         *)
(* everyone there; any other is placed by its virtual run time.            *)
Enqueue(q, l, t, atHead, yields) ==
    CASE prio[t] # Fair ->
           [queue |-> [q EXCEPT ![prio[t]] = IF atHead THEN <<t>> \o @ ELSE Append(@, t)], lead |-> l]
      [] prio[t] = Fair /\ yields ->
           [queue |-> [q EXCEPT ![Fair] = Append(@, t)],
            lead  |-> IF q[Fair] = <<>> THEN l ELSE [l EXCEPT ![t] = Max({@, l[Last(q[Fair])]})]]
      [] OTHER ->
           LET placed == [l EXCEPT ![t] = Place(@)]
           IN  [queue |-> [q EXCEPT ![Fair] = Insert(@, t, placed)], lead |-> placed]

(* The bound on the leads.                                                 *)
Cut(l) == Max({-MaxLead, Min({l, MaxLead})})

(* rr_charge: d more of virtual run time for the current thread t; then    *)
(* fair_min, the zero of every lead, moves up to the smaller of t's and    *)
(* the leftmost's.                                                         *)
Charge(t, d) ==
    LET run   == IF prio[t] = Fair THEN [lead EXCEPT ![t] = @ + d] ELSE lead
        ends  == (IF prio[t] = Fair THEN {run[t]} ELSE {})
                 \cup (IF queue[Fair] = <<>> THEN {} ELSE {run[Head(queue[Fair])]})
        moved == IF ends = {} THEN 0 ELSE Max({0, Min(ends)})
    IN  [u \in Thread |-> IF prio[u] # Fair THEN run[u]
                          ELSE IF u = t \/ Queued(u) THEN Cut(run[u] - moved)
                          ELSE Place(run[u] - moved)]

\* mutant: a wake tells only an idle CPU
TellsForIdle(t) == current = Idle

TellsFor(t) == current = Idle \/ prio[t] < Priority(current)

(* sched_wake.  The thread may still be the current one, between its       *)
(* prepare and its block: then it is on a list while it runs.              *)
Wake(t) ==
    /\ state[t] = "BLOCKED"
    /\ LET new == Enqueue(queue, lead, t, FALSE, FALSE)
       IN  queue' = new.queue /\ lead' = new.lead
    /\ state' = [state EXCEPT ![t] = "READY"]
    /\ need' = (need \/ TellsFor(t))
    /\ UNCHANGED <<prio, current, slice>>

(* schedule_pass with the current thread in state st and sl of its slice   *)
(* left, after charging it d: back on its list unless it blocks or a wake  *)
(* has put it there, then the first of the best level, with a slice.       *)
Pass(st, sl, d, yields) ==
    LET prev == current
        charged == IF prev = Idle THEN lead ELSE Charge(prev, d)
        back == prev # Idle /\ st = "RUNNING"
        new  == IF back THEN Enqueue(queue, charged, prev, sl > 0, yields)
                ELSE [queue |-> queue, lead |-> charged]
        next == IF Bitmap(new.queue) = {} THEN Idle ELSE Head(new.queue[Min(Bitmap(new.queue))])
        left == IF prev = Idle THEN state ELSE [state EXCEPT ![prev] = IF back THEN "READY" ELSE st]
        used == IF prev = Idle THEN slice ELSE [slice EXCEPT ![prev] = sl]
    IN  /\ queue' = IF next = Idle THEN new.queue ELSE [new.queue EXCEPT ![prio[next]] = Tail(@)]
        /\ lead' = new.lead
        /\ state' = IF next = Idle THEN left ELSE [left EXCEPT ![next] = "RUNNING"]
        /\ slice' = IF next = Idle \/ next = prev \/ used[next] > 0 THEN used
                    ELSE [used EXCEPT ![next] = Slice]
        /\ current' = next
        /\ need' = FALSE
        /\ UNCHANGED prio

(* The part of a tick a thread has run when it is switched out.            *)
Part(t) == IF t = Idle THEN {0} ELSE 0 .. Weighted[t] - 1

(* The trap tail and the restore points; idle_main.                        *)
Preempt ==
    /\ need
    /\ \E d \in Part(current) :
         IF current = Idle THEN Pass("RUNNING", 0, d, FALSE)
         ELSE Pass(IF state[current] = "BLOCKED" THEN "RUNNING" ELSE state[current],
                   slice[current], d, FALSE)

(* sched_yield gives up the slice.                                         *)
Yield ==
    /\ current # Idle /\ state[current] = "RUNNING"
    /\ \E d \in Part(current) : Pass("RUNNING", 0, d, TRUE)

(* sched_prepare_block_current...                                          *)
PrepareBlock ==
    /\ current # Idle /\ state[current] = "RUNNING"
    /\ state' = [state EXCEPT ![current] = "BLOCKED"]
    /\ UNCHANGED <<prio, queue, current, need, slice, lead>>

(* ...sched_block_current, where a thread woken or preempted since then    *)
(* only gives way...                                                       *)
Block ==
    /\ current # Idle
    /\ \E d \in Part(current) : Pass(state[current], slice[current], d, FALSE)

\* mutant: a thread woken before it blocked stays on its list
SetRunningQueued ==
    /\ current # Idle /\ state[current] # "RUNNING"
    /\ state' = [state EXCEPT ![current] = "RUNNING"]
    /\ UNCHANGED <<prio, queue, current, need, slice, lead>>

(* ...and sched_set_running_current when the wait ends without a block.    *)
SetRunning ==
    /\ current # Idle /\ state[current] # "RUNNING"
    /\ queue' = [queue EXCEPT ![prio[current]] = Remove(@, current)]
    /\ state' = [state EXCEPT ![current] = "RUNNING"]
    /\ UNCHANGED <<prio, current, need, slice, lead>>

\* mutant: a spent slice gives way only to a better level
GivesWayStrictly(l) ==
    IF prio[current] = Fair
    THEN \/ Bitmap(queue) # {} /\ Min(Bitmap(queue)) < Fair
         \/ queue[Fair] # <<>> /\ l[current] > l[Head(queue[Fair])] + Granularity
    ELSE slice[current] <= 1 /\ Bitmap(queue) # {} /\ Min(Bitmap(queue)) < prio[current]

(* rr_tick's decision, the leads being l.                                  *)
GivesWay(l) ==
    IF prio[current] = Fair
    THEN \/ Bitmap(queue) # {} /\ Min(Bitmap(queue)) < Fair
         \/ queue[Fair] # <<>> /\ l[current] > l[Head(queue[Fair])] + Granularity
    ELSE slice[current] <= 1 /\ Bitmap(queue) # {} /\ Min(Bitmap(queue)) <= prio[current]

(* sched_tick: charge the time since the switch in or the last tick, which *)
(* is never nothing, then the policy's tick; an idle CPU looks at the      *)
(* bitmap.                                                                 *)
Tick ==
    /\ UNCHANGED <<prio, state, queue, current>>
    /\ IF current = Idle
       THEN need' = (need \/ Bitmap(queue) # {}) /\ UNCHANGED <<slice, lead>>
       ELSE /\ \E d \in 1 .. Weighted[current] : lead' = Charge(current, d)
            /\ need' = (need \/ GivesWay(lead'))
            /\ slice' = CASE prio[current] = Fair -> slice
                          [] slice[current] > 1 -> [slice EXCEPT ![current] = @ - 1]
                          [] OTHER -> [slice EXCEPT ![current] = IF GivesWay(lead') THEN 0 ELSE Slice]

Next ==
    \/ \E t \in Thread : Wake(t)
    \/ Preempt \/ Yield \/ PrepareBlock \/ Block \/ SetRunning \/ Tick

(* Fairness: the tick is a periodic interrupt; a pending reschedule is     *)
(* taken (what is weak fairness of Preempt, since every pass clears the    *)
(* flag); and a thread in its wait loop comes to its block or its finish   *)
(* (weak fairness of the two, likewise).  No thread has to yield or wait.  *)
Fairness ==
    /\ WF_vars(Tick)
    /\ []<>~need
    /\ []<>(current = Idle \/ state[current] = "RUNNING")

Spec == Init /\ [][Next]_vars /\ Fairness

-----------------------------------------------------------------------------
(* The variables keep their types; a thread is on one list at most, that   *)
(* of its level, and is READY exactly when it is there.                    *)
TypeOK ==
    /\ prio \in [Thread -> Level]
    /\ state \in [Thread -> {"READY", "RUNNING", "BLOCKED"}]
    /\ queue \in [Level -> Seq(Thread)]
    /\ current \in Thread \cup {Idle}
    /\ need \in BOOLEAN
    /\ slice \in [Thread -> 0 .. Slice]
    /\ lead \in [Thread -> Int]
    /\ \A p \in Level : IsInjective(queue[p]) /\ \A t \in Range(queue[p]) : prio[t] = p
    /\ \A t \in Thread : state[t] = "READY" <=> Queued(t)

(* While the levels stay as they are, a thread runs with one of a better   *)
(* level queued only until the reschedule that has been asked for.         *)
BestRuns == \A t \in Thread : Queued(t) /\ prio[t] < Priority(current) => need

(* Turns are taken: a queued thread runs, unless a better level has        *)
(* something to run.                                                       *)
Served ==
    \A t \in Thread :
        Queued(t) ~> (~Queued(t) \/ \E u \in Thread : prio[u] < prio[t] /\ (Queued(u) \/ current = u))
=============================================================================
