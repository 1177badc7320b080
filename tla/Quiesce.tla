------------------------------ MODULE Quiesce ------------------------------
(***************************************************************************)
(* Epoch-based quiescence: kernel/core/quiesce.cee over the inline epoch   *)
(* algorithm of kernel/include/kernel/quiesce_core.h, the CPUs' read-side  *)
(* sections and quiescent points (sched.c, arch trap tails), and CPUs that *)
(* come online while grace periods run.                                    *)
(*                                                                         *)
(* Objects are published (linked) at first; a thread unlinks one and then  *)
(* either waits with synchronize_quiesce and frees it, or hands its head   *)
(* to call_quiesce, whose worker waits once for a whole batch and then     *)
(* runs the callbacks.  Memory is sequentially consistent: the fences W1b  *)
(* and Q0 make it so for the online mask, so their loss shows here as the  *)
(* order of two steps (the ...Early mutants).                              *)
(***************************************************************************)
EXTENDS Naturals, Sequences, SequencesExt, FiniteSets

CONSTANTS
    CPU,        \* the processors
    Boot,       \* the boot processor
    Obj,        \* the objects readers look up; each embeds a quiesce_head
    Caller,     \* threads that unlink and reclaim
    Worker,     \* the "quiesce" worker thread
    MaxResub,   \* bound: how often one head is submitted again by its callback
    None        \* no value

ASSUME CPUAssumption == Boot \in CPU /\ IsFiniteSet(CPU)
ASSUME ThreadAssumption == Worker \notin Caller
ASSUME BoundAssumption == MaxResub \in Nat
ASSUME NoneAssumption == None \notin Nat

Thread == Caller \cup {Worker}

VARIABLES
    epoch,      \* quiesce_state.epoch
    seen,       \* quiesce_cpu.seen_epoch of each CPU
    online,     \* percpu.online
    ready,      \* g_ready: quiesce_init has run
    thr,        \* where the thread level of each CPU is
    thrE,       \* the epoch loaded by a publish made with interrupts off
    idleE,      \* the epoch the idle loop's publish loaded and has not stored
    irq,        \* where the interrupt level of each CPU is
    irqE,       \* the epoch loaded by the trap tail's publish
    heldT,      \* references the thread-level read section obtained
    heldI,      \* references the interrupt handler obtained
    obj,        \* "linked", "unlinked" or "freed"
    pc,         \* where each thread is in synchronize_quiesce
    own,        \* what each caller has unlinked and is about to reclaim
    target,     \* the epoch each synchronize_quiesce waits for
    snap,       \* its snapshot of the online CPUs
    left,       \* CPUs its current scan has not found published
    pending,    \* the heads whose quiesce_head.pending is set
    cbHead,     \* g_cb_head: the submitted heads, last submitted first
    batch,      \* the heads the worker has taken
    resub,      \* how often each head was submitted again by its callback
    submitted,  \* history: heads in the order call_quiesce took them
    ran,        \* history: heads in the order their callbacks ran
    panicked    \* call_quiesce found the head pending

cpuVars == <<seen, online, thr, thrE, idleE, irq, irqE, heldT, heldI>>
cbVars  == <<pending, cbHead, batch, resub, submitted, ran, panicked>>
waitVars == <<pc, own, target, snap, left>>
vars == <<epoch, ready, obj, cpuVars, cbVars, waitVars>>

Held(c) == heldT[c] \cup heldI[c]

(* What a thread is reclaiming: the worker, the batch it has taken.        *)
Owned(k) == IF k = Worker THEN Range(batch) ELSE own[k]

(* Thread context with preemption enabled and no interrupt in progress.    *)
Preemptible(c) == c \in online /\ thr[c] = "out" /\ irq[c] = "none"

Init ==
    /\ epoch = 0
    /\ seen = [c \in CPU |-> 0]
    /\ online = {Boot}
    /\ ready = FALSE
    /\ thr = [c \in CPU |-> IF c = Boot THEN "out" ELSE "off"]
    /\ thrE = [c \in CPU |-> 0]
    /\ idleE = [c \in CPU |-> None]
    /\ irq = [c \in CPU |-> "none"]
    /\ irqE = [c \in CPU |-> 0]
    /\ heldT = [c \in CPU |-> {}]
    /\ heldI = [c \in CPU |-> {}]
    /\ obj = [o \in Obj |-> "linked"]
    /\ pc = [k \in Thread |-> IF k = Worker THEN "off" ELSE "idle"]
    /\ own = [k \in Caller |-> {}]
    /\ target = [k \in Thread |-> 0]
    /\ snap = [k \in Thread |-> {}]
    /\ left = [k \in Thread |-> {}]
    /\ pending = {}
    /\ cbHead = <<>>
    /\ batch = <<>>
    /\ resub = [o \in Obj |-> 0]
    /\ submitted = <<>>
    /\ ran = <<>>
    /\ panicked = FALSE

(* quiesce_init creates the worker, and then sets g_ready: waiters wait    *)
(* from there on.                                                          *)
CreateWorker ==
    /\ pc[Worker] = "off"
    /\ pc' = [pc EXCEPT ![Worker] = "idle"]
    /\ UNCHANGED <<epoch, ready, obj, cpuVars, cbVars, own, target, snap, left>>

QuiesceInit ==
    /\ ~ready /\ pc[Worker] # "off"
    /\ ready' = TRUE
    /\ UNCHANGED <<epoch, obj, cpuVars, cbVars, waitVars>>

-----------------------------------------------------------------------------
(* sched_start_cpu on an application processor: publish, mark itself       *)
(* online, pass Q0, then run.  quiesce_init precedes smp_init.             *)
StartPublishLoad(c) ==
    /\ ready /\ thr[c] = "off"
    /\ thr' = [thr EXCEPT ![c] = "start"]
    /\ thrE' = [thrE EXCEPT ![c] = epoch]
    /\ UNCHANGED <<epoch, ready, obj, seen, online, idleE, irq, irqE, heldT, heldI, cbVars, waitVars>>

StartPublish(c) ==
    /\ thr[c] = "start"
    /\ seen' = [seen EXCEPT ![c] = thrE[c]]
    /\ thrE' = [thrE EXCEPT ![c] = 0]
    /\ thr' = [thr EXCEPT ![c] = "published"]
    /\ UNCHANGED <<epoch, ready, obj, online, idleE, irq, irqE, heldT, heldI, cbVars, waitVars>>

\* mutant: without Q0 the CPU's first section may run before its online store is visible
StartOnlineEarly(c) ==
    /\ thr[c] = "published"
    /\ thr' = [thr EXCEPT ![c] = "in"]
    /\ UNCHANGED <<epoch, ready, obj, online, seen, thrE, idleE, irq, irqE, heldT, heldI, cbVars, waitVars>>

StartOnline(c) ==
    /\ thr[c] = "published"
    /\ online' = online \cup {c}
    /\ thr' = [thr EXCEPT ![c] = "out"]
    /\ UNCHANGED <<epoch, ready, obj, seen, thrE, idleE, irq, irqE, heldT, heldI, cbVars, waitVars>>

-----------------------------------------------------------------------------
(* Read-side sections: preempt_disable regions at thread level, handlers   *)
(* at interrupt level.  A lookup finds only linked objects.                *)
ReadLock(c) ==
    /\ Preemptible(c)
    /\ thr' = [thr EXCEPT ![c] = "in"]
    /\ UNCHANGED <<epoch, ready, obj, seen, online, thrE, idleE, irq, irqE, heldT, heldI, cbVars, waitVars>>

Lookup(c, o) ==
    /\ thr[c] = "in" /\ irq[c] = "none" /\ obj[o] = "linked"
    /\ heldT' = [heldT EXCEPT ![c] = @ \cup {o}]
    /\ UNCHANGED <<epoch, ready, obj, seen, online, thr, thrE, idleE, irq, irqE, heldI, cbVars, waitVars>>

ReadUnlock(c) ==
    /\ thr[c] = "in" /\ irq[c] = "none"
    /\ thr' = [thr EXCEPT ![c] = "out"]
    /\ heldT' = [heldT EXCEPT ![c] = {}]
    /\ UNCHANGED <<epoch, ready, obj, seen, online, thrE, idleE, irq, irqE, heldI, cbVars, waitVars>>

(* An interrupt is taken where interrupts are enabled: not inside a        *)
(* publish made with them off.                                             *)
IrqEnter(c) ==
    /\ c \in online /\ thr[c] \in {"out", "in"} /\ irq[c] = "none"
    /\ irq' = [irq EXCEPT ![c] = "handler"]
    /\ UNCHANGED <<epoch, ready, obj, seen, online, thr, thrE, idleE, irqE, heldT, heldI, cbVars, waitVars>>

IrqLookup(c, o) ==
    /\ irq[c] = "handler" /\ obj[o] = "linked"
    /\ heldI' = [heldI EXCEPT ![c] = @ \cup {o}]
    /\ UNCHANGED <<epoch, ready, obj, seen, online, thr, thrE, idleE, irq, irqE, heldT, cbVars, waitVars>>

\* mutant: the trap tail publishes without looking at preempt_count
IrqReturnAlways(c) ==
    /\ irq[c] = "handler"
    /\ heldI' = [heldI EXCEPT ![c] = {}]
    /\ irq' = [irq EXCEPT ![c] = "pub"]
    /\ irqE' = [irqE EXCEPT ![c] = epoch]
    /\ UNCHANGED <<epoch, ready, obj, seen, online, thr, thrE, idleE, heldT, cbVars, waitVars>>

(* The trap tail: a quiescent point only when the interrupted context held *)
(* no section (preempt_count == 0).                                        *)
IrqReturn(c) ==
    /\ irq[c] = "handler"
    /\ heldI' = [heldI EXCEPT ![c] = {}]
    /\ \/ /\ thr[c] = "in"
          /\ irq' = [irq EXCEPT ![c] = "none"]
          /\ UNCHANGED irqE
       \/ /\ thr[c] = "out"
          /\ irq' = [irq EXCEPT ![c] = "pub"]
          /\ irqE' = [irqE EXCEPT ![c] = epoch]
    /\ UNCHANGED <<epoch, ready, obj, seen, online, thr, thrE, idleE, heldT, cbVars, waitVars>>

IrqPublish(c) ==
    /\ irq[c] = "pub"
    /\ seen' = [seen EXCEPT ![c] = irqE[c]]
    /\ irqE' = [irqE EXCEPT ![c] = 0]
    /\ irq' = [irq EXCEPT ![c] = "none"]
    /\ UNCHANGED <<epoch, ready, obj, online, thr, thrE, idleE, heldT, heldI, cbVars, waitVars>>

(* schedule_pass and synchronize_quiesce publish with interrupts off.      *)
PublishLoad(c) ==
    /\ Preemptible(c)
    /\ thr' = [thr EXCEPT ![c] = "pub"]
    /\ thrE' = [thrE EXCEPT ![c] = epoch]
    /\ UNCHANGED <<seen, online, idleE, irq, irqE, heldT, heldI>>

NoteQuiescent(c) ==
    /\ PublishLoad(c)
    /\ UNCHANGED <<epoch, ready, obj, cbVars, waitVars>>

Publish(c) ==
    /\ thr[c] = "pub"
    /\ seen' = [seen EXCEPT ![c] = thrE[c]]
    /\ thrE' = [thrE EXCEPT ![c] = 0]
    /\ thr' = [thr EXCEPT ![c] = "out"]
    /\ UNCHANGED <<epoch, ready, obj, online, idleE, irq, irqE, heldT, heldI, cbVars, waitVars>>

(* idle_main publishes with interrupts on: between its load and its store  *)
(* the CPU may take interrupts, and the idle thread may be preempted.      *)
IdlePublishLoad(c) ==
    /\ Preemptible(c) /\ idleE[c] = None
    /\ idleE' = [idleE EXCEPT ![c] = epoch]
    /\ UNCHANGED <<epoch, ready, obj, seen, online, thr, thrE, irq, irqE, heldT, heldI, cbVars, waitVars>>

\* mutant: the store is made although the load has not been
IdlePublishUnloaded(c) ==
    /\ Preemptible(c)
    /\ seen' = [seen EXCEPT ![c] = idleE[c]]
    /\ idleE' = [idleE EXCEPT ![c] = None]
    /\ UNCHANGED <<epoch, ready, obj, online, thr, thrE, irq, irqE, heldT, heldI, cbVars, waitVars>>

IdlePublish(c) ==
    /\ Preemptible(c) /\ idleE[c] # None
    /\ seen' = [seen EXCEPT ![c] = idleE[c]]
    /\ idleE' = [idleE EXCEPT ![c] = None]
    /\ UNCHANGED <<epoch, ready, obj, online, thr, thrE, irq, irqE, heldT, heldI, cbVars, waitVars>>

-----------------------------------------------------------------------------
(* The reclaiming threads.  A caller unlinks an object it owns; nobody     *)
(* else unlinks it.                                                        *)
Unlink(k, o) ==
    /\ k \in Caller /\ pc[k] = "idle" /\ obj[o] = "linked"
    /\ obj' = [obj EXCEPT ![o] = "unlinked"]
    /\ own' = [own EXCEPT ![k] = {o}]
    /\ pc' = [pc EXCEPT ![k] = "unlinked"]
    /\ UNCHANGED <<epoch, ready, cpuVars, cbVars, target, snap, left>>

(* quiesce_core_begin, W1: the target is the advanced epoch.               *)
Begin(k) ==
    /\ pc[k] = "unlinked"
    /\ epoch' = epoch + 1
    /\ target' = [target EXCEPT ![k] = epoch + 1]
    /\ snap' = [snap EXCEPT ![k] = online]
    /\ pc' = [pc EXCEPT ![k] = "begun"]
    /\ UNCHANGED <<ready, obj, cpuVars, cbVars, own, left>>

(* cpu_online_mask, behind W1b: CPU by CPU, so what it returns is at least *)
(* the CPUs online at W1 and at most those online now.                     *)
Snapshot(k) ==
    /\ pc[k] = "begun"
    /\ \E S \in SUBSET online : snap[k] \subseteq S /\ snap' = [snap EXCEPT ![k] = S]
    /\ pc' = [pc EXCEPT ![k] = "snapped"]
    /\ UNCHANGED <<epoch, ready, obj, cpuVars, cbVars, own, target, left>>

(* The caller's own CPU passes a quiescent point; before quiesce_init that *)
(* is the whole grace period.                                              *)
PublishOwn(k, c) ==
    /\ pc[k] = "snapped"
    /\ PublishLoad(c)
    /\ left' = [left EXCEPT ![k] = snap[k]]
    /\ pc' = [pc EXCEPT ![k] = IF ready THEN "scan" ELSE "done"]
    /\ UNCHANGED <<epoch, ready, obj, cbVars, own, target, snap>>

\* mutant: the scan waits for an epoch beyond its target
ScanPassStrict(k, c) ==
    /\ pc[k] = "scan" /\ c \in left[k] /\ seen[c] > target[k]
    /\ left' = [left EXCEPT ![k] = @ \ {c}]
    /\ pc' = [pc EXCEPT ![k] = IF left[k] = {c} THEN "done" ELSE @]
    /\ UNCHANGED <<epoch, ready, obj, cpuVars, cbVars, own, target, snap>>

(* quiesce_core_pending, one CPU of one scan: published.  A scan that      *)
(* finds every CPU of the snapshot published ends the grace period.        *)
ScanPass(k, c) ==
    /\ pc[k] = "scan" /\ c \in left[k] /\ seen[c] >= target[k]
    /\ left' = [left EXCEPT ![k] = @ \ {c}]
    /\ pc' = [pc EXCEPT ![k] = IF left[k] = {c} THEN "done" ELSE @]
    /\ UNCHANGED <<epoch, ready, obj, cpuVars, cbVars, own, target, snap>>

(* ...not published: the waiter blocks, is woken or reaches its deadline,  *)
(* and scans again from the start.                                         *)
ScanFail(k, c) ==
    /\ pc[k] = "scan" /\ c \in left[k] /\ seen[c] < target[k] /\ left[k] # snap[k]
    /\ left' = [left EXCEPT ![k] = snap[k]]
    /\ UNCHANGED <<epoch, ready, obj, cpuVars, cbVars, pc, own, target, snap>>

(* The caller of synchronize_quiesce frees what it unlinked.               *)
Free(k) ==
    /\ k \in Caller /\ pc[k] = "done"
    /\ obj' = [o \in Obj |-> IF o \in own[k] THEN "freed" ELSE obj[o]]
    /\ own' = [own EXCEPT ![k] = {}]
    /\ pc' = [pc EXCEPT ![k] = "idle"]
    /\ UNCHANGED <<epoch, ready, cpuVars, cbVars, target, snap, left>>

-----------------------------------------------------------------------------
(* call_quiesce, under g_cb_lock: a pending head is a panic, otherwise it  *)
(* is pushed on the list.                                                  *)
Submit(o, isPending) ==
    IF o \in isPending
    THEN /\ panicked' = TRUE
         /\ pending' = isPending
         /\ UNCHANGED <<cbHead, submitted>>
    ELSE /\ pending' = isPending \cup {o}
         /\ cbHead' = <<o>> \o cbHead
         /\ submitted' = Append(submitted, o)
         /\ UNCHANGED panicked

CallQuiesce(k, o) ==
    /\ k \in Caller /\ pc[k] = "unlinked" /\ o \in own[k]
    /\ Submit(o, pending)
    /\ own' = [own EXCEPT ![k] = {}]
    /\ pc' = [pc EXCEPT ![k] = "idle"]
    /\ UNCHANGED <<epoch, ready, obj, cpuVars, batch, resub, ran, target, snap, left>>

(* worker_main takes the whole list under g_cb_lock...                     *)
TakeBatch ==
    /\ pc[Worker] = "idle" /\ cbHead # <<>>
    /\ batch' = cbHead
    /\ cbHead' = <<>>
    /\ pc' = [pc EXCEPT ![Worker] = "unlinked"]
    /\ UNCHANGED <<epoch, ready, obj, cpuVars, pending, resub, submitted, ran, panicked, own, target, snap, left>>

\* mutant: the batch runs as it was linked
ReverseBatchNot ==
    /\ pc[Worker] = "done"
    /\ pc' = [pc EXCEPT ![Worker] = "run"]
    /\ UNCHANGED <<epoch, ready, obj, cpuVars, cbVars, own, target, snap, left>>

(* ...and after one grace period turns it into submission order...         *)
ReverseBatch ==
    /\ pc[Worker] = "done"
    /\ batch' = Reverse(batch)
    /\ pc' = [pc EXCEPT ![Worker] = "run"]
    /\ UNCHANGED <<epoch, ready, obj, cpuVars, pending, cbHead, resub, submitted, ran, panicked, own, target, snap, left>>

\* mutant: pending is cleared after the callback
ClearedPendingLate(o) == pending

(* ...and runs the callbacks: pending is cleared first.                    *)
ClearedPending(o) == pending \ {o}

(* One callback: it frees its object, or submits its own head again.       *)
Callback ==
    /\ pc[Worker] = "run"
    /\ LET o == Head(batch) IN
       /\ ran' = Append(ran, o)
       /\ \/ /\ pending' = ClearedPending(o)
             /\ obj' = [obj EXCEPT ![o] = "freed"]
             /\ UNCHANGED <<cbHead, submitted, panicked, resub>>
          \/ /\ resub[o] < MaxResub
             /\ resub' = [resub EXCEPT ![o] = @ + 1]
             /\ Submit(o, ClearedPending(o))
             /\ UNCHANGED obj
    /\ batch' = Tail(batch)
    /\ pc' = [pc EXCEPT ![Worker] = IF Len(batch) = 1 THEN "idle" ELSE "run"]
    /\ UNCHANGED <<epoch, ready, cpuVars, own, target, snap, left>>

-----------------------------------------------------------------------------
StartStep(c) == StartPublishLoad(c) \/ StartPublish(c) \/ StartOnline(c)
ReaderStep(c) ==
    \/ ReadLock(c) \/ ReadUnlock(c) \/ IrqEnter(c) \/ IrqReturn(c)
    \/ \E o \in Obj : Lookup(c, o) \/ IrqLookup(c, o)
PublishStep(c) ==
    \/ NoteQuiescent(c) \/ Publish(c) \/ IrqPublish(c)
    \/ IdlePublishLoad(c) \/ IdlePublish(c)
SyncStep(k) ==
    \/ Begin(k) \/ Snapshot(k) \/ Free(k)
    \/ \E c \in CPU : PublishOwn(k, c) \/ ScanPass(k, c) \/ ScanFail(k, c)
CallerStep(k) == \E o \in Obj : Unlink(k, o) \/ CallQuiesce(k, o)
WorkerStep == CreateWorker \/ TakeBatch \/ ReverseBatch \/ Callback

Next ==
    \/ QuiesceInit
    \/ \E c \in CPU : StartStep(c) \/ ReaderStep(c) \/ PublishStep(c)
    \/ \E k \in Thread : SyncStep(k) \/ CallerStep(k)
    \/ WorkerStep

Spec == Init /\ [][Next]_vars

(* Fairness.  Interrupts-off publishes, handlers, sections and CPU starts  *)
(* finish; threads run; and a CPU that is again and again preemptible      *)
(* again and again schedules, because its tick requests a reschedule.      *)
Fairness ==
    /\ WF_vars(QuiesceInit)
    /\ \A c \in CPU :
         /\ WF_vars(StartStep(c))
         /\ SF_vars(ReadUnlock(c))
         /\ WF_vars(IrqReturn(c))
         /\ WF_vars(Publish(c))
         /\ WF_vars(IrqPublish(c))
         /\ SF_vars(NoteQuiescent(c))
    /\ \A k \in Thread :
         /\ WF_vars(Begin(k) \/ Snapshot(k) \/ Free(k))
         /\ SF_vars(\E c \in CPU : PublishOwn(k, c))
         /\ WF_vars(\E c \in CPU : ScanPass(k, c) \/ ScanFail(k, c))
    /\ WF_vars(WorkerStep)

FairSpec == Spec /\ Fairness

-----------------------------------------------------------------------------
(* The variables keep their types.                                         *)
TypeOK ==
    /\ epoch \in Nat
    /\ seen \in [CPU -> Nat]
    /\ online \subseteq CPU
    /\ ready \in BOOLEAN
    /\ thr \in [CPU -> {"off", "start", "published", "out", "in", "pub"}]
    /\ thrE \in [CPU -> Nat]
    /\ idleE \in [CPU -> Nat \cup {None}]
    /\ irq \in [CPU -> {"none", "handler", "pub"}]
    /\ irqE \in [CPU -> Nat]
    /\ heldT \in [CPU -> SUBSET Obj]
    /\ heldI \in [CPU -> SUBSET Obj]
    /\ obj \in [Obj -> {"linked", "unlinked", "freed"}]
    /\ pc \in [Thread -> {"off", "idle", "unlinked", "begun", "snapped", "scan", "done", "run"}]
    /\ own \in [Caller -> SUBSET Obj]
    /\ target \in [Thread -> Nat]
    /\ snap \in [Thread -> SUBSET CPU]
    /\ left \in [Thread -> SUBSET CPU]
    /\ pending \subseteq Obj
    /\ cbHead \in Seq(Obj)
    /\ batch \in Seq(Obj)
    /\ resub \in [Obj -> Nat]
    /\ submitted \in Seq(Obj)
    /\ ran \in Seq(Obj)
    /\ panicked \in BOOLEAN

(* Q1: no object is freed while a CPU holds a reference a read-side        *)
(* section obtained (unlink, grace period, free).                          *)
NoUseAfterFree == \A c \in CPU : \A o \in Held(c) : obj[o] # "freed"

(* What synchronize_quiesce promises when it returns: no CPU still holds a *)
(* reference to what its caller unlinked before the call.                  *)
GraceElapsed ==
    \A k \in Thread : pc[k] \in {"done", "run"} => \A c \in CPU : Owned(k) \cap Held(c) = {}

(* Q5: call_quiesce callbacks run once per submission, in submission order.*)
CallbackOrder ==
    /\ Len(ran) <= Len(submitted)
    /\ \A i \in 1 .. Len(ran) : ran[i] = submitted[i]

(* A callback may submit its own head again: the worker clears `pending`   *)
(* before it calls it, so correct use never reaches call_quiesce's panic.  *)
NoPanic == ~panicked

(* Every unlinked object is freed in the end: grace periods end although   *)
(* CPUs keep entering sections, take interrupts, come online, and although *)
(* an idle loop's late store may set a CPU's seen epoch back.              *)
Reclaimed == \A o \in Obj : obj[o] = "unlinked" ~> obj[o] = "freed"
=============================================================================
