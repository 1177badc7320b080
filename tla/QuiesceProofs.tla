--------------------------- MODULE QuiesceProofs ---------------------------
(***************************************************************************)
(* Proofs about Quiesce for every set of CPUs, objects and callers: type   *)
(* correctness, and that a grace period has elapsed when                   *)
(* synchronize_quiesce returns, so nothing is freed under a reader.        *)
(***************************************************************************)
EXTENDS Quiesce, TLAPS

(* Reversing a sequence of objects gives a sequence of the same objects.   *)
LEMMA ReverseFacts ==
    ASSUME NEW s \in Seq(Obj)
    PROVE  /\ Reverse(s) \in Seq(Obj)
           /\ Range(Reverse(s)) = Range(s)
           /\ s # <<>> => Reverse(s) # <<>>
<1>1. Len(s) \in Nat /\ DOMAIN s = 1 .. Len(s) /\ \A i \in 1 .. Len(s) : s[i] \in Obj
  OBVIOUS
<1>2. \A i \in 1 .. Len(s) : (Len(s) - i) + 1 \in 1 .. Len(s)
  BY <1>1
<1>3. Reverse(s) \in [1 .. Len(s) -> Obj]
  BY <1>1, <1>2 DEF Reverse
<1>4. Reverse(s) \in Seq(Obj) /\ Len(Reverse(s)) = Len(s)
  BY <1>1, <1>3
<1>5. Range(Reverse(s)) = Range(s)
  <2>1. \A i \in 1 .. Len(s) : Reverse(s)[(Len(s) - i) + 1] = s[i]
    BY <1>1, <1>2 DEF Reverse
  <2>2. \A i \in 1 .. Len(s) : Reverse(s)[i] = s[(Len(s) - i) + 1]
    BY DEF Reverse
  <2>. QED BY <1>1, <1>2, <1>3, <2>1, <2>2 DEF Range
<1>. QED BY <1>4, <1>5

(* Pushing on a sequence and taking its tail, as ranges.                   *)
LEMMA RangeFacts ==
    ASSUME NEW s \in Seq(Obj)
    PROVE  /\ Range(s) \subseteq Obj
           /\ \A o \in Obj : Range(<<o>> \o s) = {o} \cup Range(s)
           /\ s # <<>> => /\ Head(s) \in Range(s)
                          /\ Tail(s) \in Seq(Obj)
                          /\ Range(Tail(s)) \subseteq Range(s)
                          /\ Len(s) # 1 => Tail(s) # <<>>
<1>1. Len(s) \in Nat /\ DOMAIN s = 1 .. Len(s) /\ \A i \in 1 .. Len(s) : s[i] \in Obj
  OBVIOUS
<1>2. Range(s) \subseteq Obj
  BY <1>1 DEF Range
<1>3. ASSUME NEW o \in Obj PROVE Range(<<o>> \o s) = {o} \cup Range(s)
  <2>. DEFINE t == <<o>> \o s
  <2>1. t \in Seq(Obj) /\ Len(t) = Len(s) + 1 /\ DOMAIN t = 1 .. Len(s) + 1
    OBVIOUS
  <2>2. t[1] = o /\ \A i \in 2 .. Len(s) + 1 : t[i] = s[i - 1]
    OBVIOUS
  <2>3. \A i \in 1 .. Len(s) : t[i + 1] = s[i]
    BY <1>1, <2>2
  <2>4. Range(t) \subseteq {o} \cup Range(s)
    BY <1>1, <2>1, <2>2 DEF Range
  <2>5. o \in Range(t)
    BY <1>1, <2>1, <2>2 DEF Range
  <2>6. \A i \in 1 .. Len(s) : i + 1 \in DOMAIN t
    BY <1>1, <2>1
  <2>7. Range(s) \subseteq Range(t)
    BY <1>1, <2>3, <2>6 DEF Range
  <2>. QED BY <2>4, <2>5, <2>7
<1>4. ASSUME s # <<>>
      PROVE  /\ Head(s) \in Range(s) /\ Tail(s) \in Seq(Obj)
             /\ Range(Tail(s)) \subseteq Range(s)
             /\ Len(s) # 1 => Tail(s) # <<>>
  <2>1. Len(s) > 0
    BY <1>1, <1>4
  <2>2. Tail(s) \in Seq(Obj) /\ Len(Tail(s)) = Len(s) - 1
    BY <1>4, <2>1
  <2>3. \A i \in 1 .. Len(s) - 1 : Tail(s)[i] = s[i + 1]
    BY <1>4, <2>1
  <2>4. Head(s) = s[1]
    BY <1>4
  <2>5. Range(Tail(s)) \subseteq Range(s)
    BY <1>1, <2>1, <2>2, <2>3 DEF Range
  <2>. QED BY <1>1, <2>1, <2>2, <2>4, <2>5 DEF Range
<1>. QED BY <1>2, <1>3, <1>4
(* The worker has heads in hand whenever it is inside a round.             *)
WorkerInv == pc[Worker] \notin {"off", "idle"} => batch # <<>>

(* The state space: the variables of quiesce.cee, of the CPUs and of the   *)
(* waiting threads keep their types through every step.                    *)
THEOREM TypeCorrect == Spec => [](TypeOK /\ WorkerInv)
<1>1. Init => TypeOK /\ WorkerInv
  <2>. SUFFICES ASSUME Init PROVE TypeOK /\ WorkerInv
    OBVIOUS
  <2>1. WorkerInv
    BY DEF Init, WorkerInv, Thread
  <2>2. thr \in [CPU -> {"off", "start", "published", "out", "in", "pub"}]
    BY DEF Init
  <2>3. online \subseteq CPU
    BY CPUAssumption DEF Init
  <2>4. seen \in [CPU -> Nat] /\ thrE \in [CPU -> Nat] /\ irqE \in [CPU -> Nat]
        /\ idleE \in [CPU -> Nat \cup {None}] /\ irq \in [CPU -> {"none", "handler", "pub"}]
    BY DEF Init
  <2>5. heldT \in [CPU -> SUBSET Obj] /\ heldI \in [CPU -> SUBSET Obj]
        /\ own \in [Caller -> SUBSET Obj] /\ snap \in [Thread -> SUBSET CPU] /\ left \in [Thread -> SUBSET CPU]
    BY DEF Init
  <2>6. /\ obj \in [Obj -> {"linked", "unlinked", "freed"}]
        /\ pc \in [Thread -> {"off", "idle", "unlinked", "begun", "snapped", "scan", "done", "run"}]
        /\ target \in [Thread -> Nat] /\ resub \in [Obj -> Nat]
    BY DEF Init
  <2>7. cbHead \in Seq(Obj) /\ batch \in Seq(Obj) /\ submitted \in Seq(Obj) /\ ran \in Seq(Obj)
    BY DEF Init
  <2>8. epoch \in Nat /\ ready \in BOOLEAN /\ panicked \in BOOLEAN /\ pending \subseteq Obj
    BY DEF Init
  <2>. QED BY <2>1, <2>2, <2>3, <2>4, <2>5, <2>6, <2>7, <2>8 DEF TypeOK
<1>2. TypeOK /\ WorkerInv /\ [Next]_vars => TypeOK' /\ WorkerInv'
  <2>. SUFFICES ASSUME TypeOK, WorkerInv, [Next]_vars PROVE TypeOK' /\ WorkerInv'
    OBVIOUS
  <2>1. CASE QuiesceInit
    BY <2>1 DEF TypeOK, WorkerInv, Thread, QuiesceInit, vars, cpuVars, cbVars, waitVars
  <2>2. ASSUME NEW c \in CPU, StartPublishLoad(c) PROVE TypeOK' /\ WorkerInv'
    BY <2>2 DEF TypeOK, WorkerInv, Thread, StartPublishLoad, vars, cpuVars, cbVars, waitVars
  <2>3. ASSUME NEW c \in CPU, StartPublish(c) PROVE TypeOK' /\ WorkerInv'
    BY <2>3 DEF TypeOK, WorkerInv, Thread, StartPublish, vars, cpuVars, cbVars, waitVars
  <2>4. ASSUME NEW c \in CPU, StartOnline(c) PROVE TypeOK' /\ WorkerInv'
    BY <2>4 DEF TypeOK, WorkerInv, Thread, StartOnline, vars, cpuVars, cbVars, waitVars
  <2>5. ASSUME NEW c \in CPU, ReadLock(c) PROVE TypeOK' /\ WorkerInv'
    BY <2>5 DEF TypeOK, WorkerInv, Thread, ReadLock, Preemptible, vars, cpuVars, cbVars, waitVars
  <2>6. ASSUME NEW c \in CPU, ReadUnlock(c) PROVE TypeOK' /\ WorkerInv'
    BY <2>6 DEF TypeOK, WorkerInv, Thread, ReadUnlock, vars, cpuVars, cbVars, waitVars
  <2>7. ASSUME NEW c \in CPU, IrqEnter(c) PROVE TypeOK' /\ WorkerInv'
    BY <2>7 DEF TypeOK, WorkerInv, Thread, IrqEnter, vars, cpuVars, cbVars, waitVars
  <2>8. ASSUME NEW c \in CPU, IrqReturn(c) PROVE TypeOK' /\ WorkerInv'
    <3>1. CASE thr[c] = "in"
      BY <2>8, <3>1 DEF TypeOK, WorkerInv, IrqReturn, cbVars, waitVars
    <3>2. CASE thr[c] = "out"
      <4>1. irq' = [irq EXCEPT ![c] = "pub"] /\ irqE' = [irqE EXCEPT ![c] = epoch]
        BY <2>8, <3>2 DEF IrqReturn
      <4>2. irq' \in [CPU -> {"none", "handler", "pub"}] /\ irqE' \in [CPU -> Nat]
        BY <4>1 DEF TypeOK
      <4>. QED BY <2>8, <4>2 DEF TypeOK, WorkerInv, IrqReturn, cbVars, waitVars
    <3>. QED BY <2>8, <3>1, <3>2 DEF IrqReturn
  <2>9. ASSUME NEW c \in CPU, NoteQuiescent(c) PROVE TypeOK' /\ WorkerInv'
    BY <2>9 DEF TypeOK, WorkerInv, Thread, NoteQuiescent, PublishLoad, Preemptible, vars, cpuVars, cbVars, waitVars
  <2>10. ASSUME NEW c \in CPU, Publish(c) PROVE TypeOK' /\ WorkerInv'
    BY <2>10 DEF TypeOK, WorkerInv, Thread, Publish, vars, cpuVars, cbVars, waitVars
  <2>11. ASSUME NEW c \in CPU, IrqPublish(c) PROVE TypeOK' /\ WorkerInv'
    BY <2>11 DEF TypeOK, WorkerInv, Thread, IrqPublish, vars, cpuVars, cbVars, waitVars
  <2>12. ASSUME NEW c \in CPU, IdlePublishLoad(c) PROVE TypeOK' /\ WorkerInv'
    BY <2>12 DEF TypeOK, WorkerInv, Thread, IdlePublishLoad, Preemptible, vars, cpuVars, cbVars, waitVars
  <2>13. ASSUME NEW c \in CPU, IdlePublish(c) PROVE TypeOK' /\ WorkerInv'
    BY <2>13 DEF TypeOK, WorkerInv, Thread, IdlePublish, Preemptible, vars, cpuVars, cbVars, waitVars
  <2>14. ASSUME NEW c \in CPU, NEW o \in Obj, Lookup(c, o) PROVE TypeOK' /\ WorkerInv'
    BY <2>14 DEF TypeOK, WorkerInv, Thread, Lookup, vars, cpuVars, cbVars, waitVars
  <2>15. ASSUME NEW c \in CPU, NEW o \in Obj, IrqLookup(c, o) PROVE TypeOK' /\ WorkerInv'
    BY <2>15 DEF TypeOK, WorkerInv, Thread, IrqLookup, vars, cpuVars, cbVars, waitVars
  <2>16. ASSUME NEW k \in Thread, Begin(k) PROVE TypeOK' /\ WorkerInv'
    BY <2>16 DEF TypeOK, WorkerInv, Thread, Begin, vars, cpuVars, cbVars, waitVars
  <2>17. ASSUME NEW k \in Thread, Snapshot(k) PROVE TypeOK' /\ WorkerInv'
    BY <2>17 DEF TypeOK, WorkerInv, Thread, Snapshot, vars, cpuVars, cbVars, waitVars
  <2>18. ASSUME NEW k \in Thread, Free(k) PROVE TypeOK' /\ WorkerInv'
    BY <2>18 DEF TypeOK, WorkerInv, Thread, Free, vars, cpuVars, cbVars, waitVars
  <2>19. ASSUME NEW k \in Thread, NEW c \in CPU, PublishOwn(k, c) PROVE TypeOK' /\ WorkerInv'
    BY <2>19 DEF TypeOK, WorkerInv, Thread, PublishOwn, PublishLoad, Preemptible, vars, cpuVars, cbVars, waitVars
  <2>20. ASSUME NEW k \in Thread, NEW c \in CPU, ScanPass(k, c) PROVE TypeOK' /\ WorkerInv'
    BY <2>20 DEF TypeOK, WorkerInv, Thread, ScanPass, vars, cpuVars, cbVars, waitVars
  <2>21. ASSUME NEW k \in Thread, NEW c \in CPU, ScanFail(k, c) PROVE TypeOK' /\ WorkerInv'
    BY <2>21 DEF TypeOK, WorkerInv, Thread, ScanFail, vars, cpuVars, cbVars, waitVars
  <2>22. ASSUME NEW k \in Thread, NEW o \in Obj, Unlink(k, o) PROVE TypeOK' /\ WorkerInv'
    BY <2>22, ThreadAssumption DEF TypeOK, WorkerInv, Thread, Unlink, vars, cpuVars, cbVars, waitVars
  <2>23. ASSUME NEW k \in Thread, NEW o \in Obj, CallQuiesce(k, o) PROVE TypeOK' /\ WorkerInv'
    <3>1. WorkerInv'
      BY <2>23, ThreadAssumption DEF TypeOK, WorkerInv, Thread, CallQuiesce
    <3>2. pending' \subseteq Obj /\ cbHead' \in Seq(Obj) /\ submitted' \in Seq(Obj)
      <4>1. CASE o \in pending
        BY <2>23, <4>1 DEF TypeOK, CallQuiesce, Submit
      <4>2. CASE o \notin pending
        <5>1. pending' = pending \cup {o} /\ cbHead' = <<o>> \o cbHead /\ submitted' = Append(submitted, o)
          BY <2>23, <4>2 DEF CallQuiesce, Submit
        <5>. QED BY <5>1 DEF TypeOK
      <4>. QED BY <4>1, <4>2
    <3>3. panicked' \in BOOLEAN
      BY <2>23, Zenon DEF TypeOK, CallQuiesce, Submit
    <3>. QED BY <2>23, <3>1, <3>2, <3>3 DEF TypeOK, CallQuiesce, cpuVars
  <2>28. CASE CreateWorker
    BY <2>28 DEF TypeOK, WorkerInv, Thread, CreateWorker, cpuVars, cbVars
  <2>24. CASE TakeBatch
    BY <2>24 DEF TypeOK, WorkerInv, Thread, TakeBatch, vars, cpuVars, cbVars, waitVars
  <2>25. CASE ReverseBatch
    BY <2>25, ReverseFacts DEF TypeOK, WorkerInv, Thread, ReverseBatch, vars, cpuVars, cbVars, waitVars
  <2>26. CASE Callback
    <3>1. batch # <<>> /\ Head(batch) \in Obj /\ Tail(batch) \in Seq(Obj)
      BY <2>26, RangeFacts DEF Callback, WorkerInv, TypeOK
    <3>2. Len(batch) # 1 => Tail(batch) # <<>>
      BY <3>1, RangeFacts DEF TypeOK
    <3>3. WorkerInv'
      BY <2>26, <3>2 DEF TypeOK, WorkerInv, Thread, Callback
    <3>. DEFINE o == Head(batch)
    <3>4. CASE pending' = ClearedPending(o) /\ obj' = [obj EXCEPT ![o] = "freed"]
               /\ UNCHANGED <<cbHead, submitted, panicked, resub>>
      BY <2>26, <3>1, <3>3, <3>4 DEF TypeOK, Thread, Callback, ClearedPending, cpuVars
    <3>5. CASE /\ resub' = [resub EXCEPT ![o] = @ + 1]
               /\ Submit(o, ClearedPending(o)) /\ UNCHANGED obj
      <4>1. o \notin ClearedPending(o)
        BY DEF ClearedPending
      <4>2. /\ pending' = ClearedPending(o) \cup {o}
            /\ cbHead' = <<o>> \o cbHead
            /\ submitted' = Append(submitted, o)
            /\ panicked' = panicked
        BY <3>5, <4>1 DEF Submit
      <4>3. pending' \subseteq Obj /\ cbHead' \in Seq(Obj) /\ submitted' \in Seq(Obj)
            /\ panicked' \in BOOLEAN
        BY <3>1, <4>2 DEF TypeOK, ClearedPending
      <4>4. resub' \in [Obj -> Nat]
        BY <3>1, <3>5 DEF TypeOK
      <4>5. ran' \in Seq(Obj) /\ batch' \in Seq(Obj)
        BY <2>26, <3>1 DEF TypeOK, Callback
      <4>6. pc' \in [Thread -> {"off", "idle", "unlinked", "begun", "snapped", "scan", "done", "run"}]
        BY <2>26 DEF TypeOK, Callback
      <4>. QED BY <2>26, <3>3, <3>5, <4>3, <4>4, <4>5, <4>6 DEF TypeOK, Callback, cpuVars
    <3>. QED BY <2>26, <3>4, <3>5 DEF Callback
  <2>27. CASE UNCHANGED vars
    BY <2>27 DEF TypeOK, WorkerInv, Thread, vars, cpuVars, cbVars, waitVars
  <2>. QED
    BY <2>1, <2>2, <2>3, <2>4, <2>5, <2>6, <2>7, <2>8, <2>9, <2>10, <2>11, <2>12, <2>13, <2>14, <2>15, <2>16, <2>17, <2>18, <2>19, <2>20, <2>21, <2>22, <2>23, <2>24, <2>25, <2>26, <2>27, <2>28 DEF Next, StartStep, ReaderStep, PublishStep, SyncStep, CallerStep, WorkerStep
<1>. QED BY <1>1, <1>2, PTL DEF Spec

-----------------------------------------------------------------------------
(* References exist only inside a section or a handler of an online CPU,   *)
(* a publish is made outside both, and before quiesce_init only the boot   *)
(* processor has started.                                                  *)
SectionInv ==
    /\ \A c \in CPU : heldT[c] # {} => thr[c] = "in"
    /\ \A c \in CPU : heldI[c] # {} => irq[c] = "handler"
    /\ \A c \in CPU : thr[c] \in {"out", "in", "pub"} => c \in online
    /\ \A c \in CPU : irq[c] # "none" => thr[c] \in {"out", "in"}
    /\ \A c \in CPU : irq[c] = "pub" => thr[c] = "out"
    /\ ~ready => \A c \in CPU \ {Boot} : thr[c] = "off"

(* No CPU has seen, or is about to publish, an epoch nobody advanced to.   *)
EpochInv ==
    \A c \in CPU : /\ seen[c] <= epoch /\ thrE[c] <= epoch /\ irqE[c] <= epoch
                   /\ idleE[c] # None => idleE[c] <= epoch

(* What is being reclaimed has been unlinked.                              *)
OwnInv ==
    /\ \A k \in Thread : \A o \in Owned(k) : obj[o] # "linked"
    /\ \A o \in Range(cbHead) : obj[o] # "linked"

(* The grace period's argument: a CPU that still holds what thread k is    *)
(* reclaiming is in k's snapshot, has not published k's target, and has    *)
(* not been passed by k's scan.                                            *)
GraceFor(k) ==
    pc[k] \in {"begun", "snapped", "scan", "done", "run"} =>
        \A c \in CPU : Owned(k) \cap Held(c) # {} =>
            /\ c \in snap[k]
            /\ seen[c] < target[k]
            /\ pc[k] \notin {"done", "run"}
            /\ pc[k] = "scan" => c \in left[k]

GraceInv == \A k \in Thread : GraceFor(k)

(* Read-side sections, handlers and publishes nest as the code nests them. *)
LEMMA SectionStep ==
    ASSUME TypeOK, SectionInv, [Next]_vars
    PROVE  SectionInv'
<1>1. CASE UNCHANGED <<cpuVars, ready>>
  BY <1>1 DEF SectionInv, cpuVars
<1>2. CASE QuiesceInit
  BY <1>2 DEF SectionInv, QuiesceInit, cpuVars
<1>3. ASSUME NEW c \in CPU, StartPublishLoad(c) PROVE SectionInv'
  BY <1>3 DEF SectionInv, TypeOK, StartPublishLoad
<1>4. ASSUME NEW c \in CPU, StartPublish(c) PROVE SectionInv'
  BY <1>4 DEF SectionInv, TypeOK, StartPublish
<1>5. ASSUME NEW c \in CPU, StartOnline(c) PROVE SectionInv'
  BY <1>5 DEF SectionInv, TypeOK, StartOnline
<1>6. ASSUME NEW c \in CPU, ReadLock(c) PROVE SectionInv'
  BY <1>6 DEF SectionInv, TypeOK, ReadLock, Preemptible
<1>7. ASSUME NEW c \in CPU, ReadUnlock(c) PROVE SectionInv'
  BY <1>7 DEF SectionInv, TypeOK, ReadUnlock
<1>8. ASSUME NEW c \in CPU, IrqEnter(c) PROVE SectionInv'
  BY <1>8 DEF SectionInv, TypeOK, IrqEnter
<1>9. ASSUME NEW c \in CPU, IrqReturn(c) PROVE SectionInv'
  BY <1>9 DEF SectionInv, TypeOK, IrqReturn
<1>10. ASSUME NEW c \in CPU, NEW o \in Obj, Lookup(c, o) PROVE SectionInv'
  BY <1>10 DEF SectionInv, TypeOK, Lookup
<1>11. ASSUME NEW c \in CPU, NEW o \in Obj, IrqLookup(c, o) PROVE SectionInv'
  BY <1>11 DEF SectionInv, TypeOK, IrqLookup
<1>12. ASSUME NEW c \in CPU, PublishLoad(c), UNCHANGED ready PROVE SectionInv'
  BY <1>12 DEF SectionInv, TypeOK, PublishLoad, Preemptible
<1>13. ASSUME NEW c \in CPU, Publish(c) PROVE SectionInv'
  BY <1>13 DEF SectionInv, TypeOK, Publish
<1>14. ASSUME NEW c \in CPU, IrqPublish(c) PROVE SectionInv'
  BY <1>14 DEF SectionInv, TypeOK, IrqPublish
<1>15. ASSUME NEW c \in CPU, IdlePublishLoad(c) \/ IdlePublish(c) PROVE SectionInv'
  BY <1>15 DEF SectionInv, IdlePublishLoad, IdlePublish
<1>16. ASSUME NEW k \in Thread, SyncStep(k) \/ CallerStep(k)
       PROVE  UNCHANGED <<cpuVars, ready>> \/ \E c \in CPU : PublishLoad(c) /\ UNCHANGED ready
  BY <1>16 DEF SyncStep, CallerStep, Begin, Snapshot, Free, PublishOwn, ScanPass, ScanFail, Unlink, CallQuiesce
<1>17. WorkerStep => UNCHANGED <<cpuVars, ready>>
  BY DEF WorkerStep, CreateWorker, TakeBatch, ReverseBatch, Callback
<1>18. ASSUME NEW c \in CPU, NoteQuiescent(c) PROVE SectionInv'
  BY <1>12, <1>18 DEF NoteQuiescent
<1>. QED
  BY <1>1, <1>2, <1>3, <1>4, <1>5, <1>6, <1>7, <1>8, <1>9, <1>10, <1>11, <1>12, <1>13, <1>14,
     <1>15, <1>16, <1>17, <1>18
  DEF Next, StartStep, ReaderStep, PublishStep, vars

(* A section obtains a reference only to an object that is linked.         *)
LEMMA HeldStep ==
    ASSUME TypeOK, [Next]_vars, NEW c \in CPU, NEW o \in Held(c)'
    PROVE  o \in Held(c) \/ (o \in Obj /\ obj[o] = "linked")
<1>1. CASE UNCHANGED <<heldT, heldI>>
  BY <1>1 DEF Held
<1>2. ASSUME NEW d \in CPU, NEW x \in Obj, Lookup(d, x) PROVE o \in Held(c) \/ (o \in Obj /\ obj[o] = "linked")
  BY <1>2 DEF Held, TypeOK, Lookup
<1>3. ASSUME NEW d \in CPU, NEW x \in Obj, IrqLookup(d, x) PROVE o \in Held(c) \/ (o \in Obj /\ obj[o] = "linked")
  BY <1>3 DEF Held, TypeOK, IrqLookup
<1>4. ASSUME NEW d \in CPU, ReadUnlock(d) \/ IrqReturn(d) PROVE o \in Held(c)
  <2>1. CASE ReadUnlock(d)
    BY <2>1 DEF Held, TypeOK, ReadUnlock
  <2>2. CASE IrqReturn(d)
    <3>1. /\ heldI' = [heldI EXCEPT ![d] = {}]
          /\ heldT' = heldT
      BY <2>2 DEF IrqReturn
    <3>. QED BY <3>1 DEF Held, TypeOK
  <2>. QED BY <1>4, <2>1, <2>2
<1>5. ASSUME NEW d \in CPU,
             StartStep(d) \/ PublishStep(d) \/ ReadLock(d) \/ IrqEnter(d)
      PROVE  UNCHANGED <<heldT, heldI>>
  BY <1>5 DEF StartStep, PublishStep, StartPublishLoad, StartPublish, StartOnline, ReadLock, IrqEnter,
              NoteQuiescent, PublishLoad, Publish, IrqPublish, IdlePublishLoad, IdlePublish
<1>6. ASSUME NEW k \in Thread, SyncStep(k) \/ CallerStep(k) PROVE UNCHANGED <<heldT, heldI>>
  BY <1>6 DEF SyncStep, CallerStep, Begin, Snapshot, Free, PublishOwn, PublishLoad, ScanPass, ScanFail,
              Unlink, CallQuiesce, cpuVars
<1>7. WorkerStep \/ QuiesceInit \/ UNCHANGED vars => UNCHANGED <<heldT, heldI>>
  BY DEF WorkerStep, CreateWorker, TakeBatch, ReverseBatch, Callback, QuiesceInit, vars, cpuVars
<1>. QED BY <1>1, <1>2, <1>3, <1>4, <1>5, <1>6, <1>7 DEF Next, ReaderStep

(* A CPU publishes only where it holds no reference.                       *)
LEMMA SeenStep ==
    ASSUME TypeOK, SectionInv, [Next]_vars, NEW c \in CPU, Held(c)' # {}
    PROVE  seen'[c] = seen[c]
<1>1. CASE UNCHANGED seen
  BY <1>1
<1>2. ASSUME NEW d \in CPU, StartPublish(d) \/ Publish(d) \/ IrqPublish(d) \/ IdlePublish(d)
      PROVE  seen'[c] = seen[c]
  <2>1. Held(d)' = {}
    BY <1>2 DEF Held, SectionInv, StartPublish, Publish, IrqPublish, IdlePublish, Preemptible
  <2>2. d # c
    BY <2>1
  <2>. QED BY <1>2, <2>2 DEF TypeOK, StartPublish, Publish, IrqPublish, IdlePublish
<1>3. ASSUME NEW d \in CPU,
             \/ StartPublishLoad(d) \/ StartOnline(d) \/ ReaderStep(d)
             \/ NoteQuiescent(d) \/ IdlePublishLoad(d)
      PROVE  UNCHANGED seen
  BY <1>3 DEF StartPublishLoad, StartOnline, ReaderStep, ReadLock, ReadUnlock, IrqEnter, IrqReturn,
              Lookup, IrqLookup, NoteQuiescent, PublishLoad, IdlePublishLoad
<1>4. ASSUME NEW k \in Thread, SyncStep(k) \/ CallerStep(k) PROVE UNCHANGED seen
  BY <1>4 DEF SyncStep, CallerStep, Begin, Snapshot, Free, PublishOwn, PublishLoad, ScanPass, ScanFail,
              Unlink, CallQuiesce, cpuVars
<1>5. WorkerStep \/ QuiesceInit \/ UNCHANGED vars => UNCHANGED seen
  BY DEF WorkerStep, CreateWorker, TakeBatch, ReverseBatch, Callback, QuiesceInit, vars, cpuVars
<1>. QED BY <1>1, <1>2, <1>3, <1>4, <1>5 DEF Next, StartStep, PublishStep

(* Epochs only grow, and a loaded or published epoch is one of them.       *)
LEMMA EpochStep ==
    ASSUME TypeOK, EpochInv, [Next]_vars
    PROVE  EpochInv'
<1>1. CASE UNCHANGED <<epoch, cpuVars>>
  BY <1>1 DEF EpochInv, cpuVars
<1>2. ASSUME NEW c \in CPU, StartStep(c) PROVE EpochInv'
  <2>1. CASE StartPublishLoad(c)
    BY <2>1 DEF EpochInv, TypeOK, StartPublishLoad
  <2>2. CASE StartPublish(c)
    BY <2>2 DEF EpochInv, TypeOK, StartPublish
  <2>3. CASE StartOnline(c)
    BY <2>3 DEF EpochInv, StartOnline
  <2>. QED BY <1>2, <2>1, <2>2, <2>3 DEF StartStep
<1>3. ASSUME NEW c \in CPU, ReaderStep(c) PROVE EpochInv'
  <2>1. CASE IrqReturn(c)
    <3>1. /\ UNCHANGED <<epoch, seen, thrE, idleE>>
          /\ irqE' = irqE \/ irqE' = [irqE EXCEPT ![c] = epoch]
      BY <2>1 DEF IrqReturn
    <3>2. ASSUME NEW d \in CPU PROVE irqE'[d] <= epoch
      <4>1. irqE[d] <= epoch /\ epoch <= epoch
        BY DEF EpochInv, TypeOK
      <4>2. CASE irqE' = irqE
        BY <4>1, <4>2
      <4>3. CASE irqE' = [irqE EXCEPT ![c] = epoch]
        BY <4>1, <4>3 DEF TypeOK
      <4>. QED BY <3>1, <4>2, <4>3
    <3>. QED BY <3>1, <3>2 DEF EpochInv
  <2>2. ~IrqReturn(c) => UNCHANGED <<epoch, seen, thrE, idleE, irqE>>
    BY <1>3 DEF ReaderStep, ReadLock, ReadUnlock, IrqEnter, Lookup, IrqLookup
  <2>. QED BY <2>1, <2>2 DEF EpochInv
<1>4. ASSUME NEW c \in CPU, PublishLoad(c), UNCHANGED epoch PROVE EpochInv'
  BY <1>4 DEF EpochInv, TypeOK, PublishLoad
<1>5. ASSUME NEW c \in CPU, PublishStep(c) PROVE EpochInv'
  <2>1. CASE NoteQuiescent(c)
    BY <2>1, <1>4 DEF NoteQuiescent
  <2>2. CASE Publish(c)
    BY <2>2 DEF EpochInv, TypeOK, Publish
  <2>3. CASE IrqPublish(c)
    BY <2>3 DEF EpochInv, TypeOK, IrqPublish
  <2>4. CASE IdlePublishLoad(c)
    BY <2>4 DEF EpochInv, TypeOK, IdlePublishLoad
  <2>5. CASE IdlePublish(c)
    BY <2>5 DEF EpochInv, TypeOK, IdlePublish
  <2>. QED BY <1>5, <2>1, <2>2, <2>3, <2>4, <2>5 DEF PublishStep
<1>6. ASSUME NEW k \in Thread, SyncStep(k) \/ CallerStep(k) PROVE EpochInv'
  <2>1. CASE Begin(k)
    BY <2>1, NoneAssumption DEF EpochInv, TypeOK, Begin, cpuVars
  <2>2. ASSUME NEW c \in CPU, PublishOwn(k, c) PROVE EpochInv'
    BY <2>2, <1>4 DEF PublishOwn
  <2>3. ASSUME ~Begin(k), ~\E c \in CPU : PublishOwn(k, c) PROVE UNCHANGED <<epoch, cpuVars>>
    BY <1>6, <2>3 DEF SyncStep, CallerStep, Snapshot, Free, ScanPass, ScanFail, Unlink, CallQuiesce
  <2>. QED BY <1>1, <2>1, <2>2, <2>3
<1>7. WorkerStep \/ QuiesceInit \/ UNCHANGED vars => UNCHANGED <<epoch, cpuVars>>
  BY DEF WorkerStep, CreateWorker, TakeBatch, ReverseBatch, Callback, QuiesceInit, vars
<1>. QED BY <1>1, <1>2, <1>3, <1>5, <1>6, <1>7 DEF Next

(* Ownership: an object stays unlinked, and only unlinked objects are      *)
(* handed to the worker.                                                   *)
LEMMA OwnStep ==
    ASSUME TypeOK, WorkerInv, OwnInv, [Next]_vars
    PROVE  OwnInv'
<1>1. CASE UNCHANGED <<obj, own, batch, cbHead>>
  BY <1>1 DEF OwnInv, Owned
<1>2. ASSUME NEW c \in CPU, StartStep(c) \/ ReaderStep(c) \/ PublishStep(c)
      PROVE  UNCHANGED <<obj, own, batch, cbHead>>
  BY <1>2 DEF StartStep, ReaderStep, PublishStep, StartPublishLoad, StartPublish, StartOnline, ReadLock,
              ReadUnlock, IrqEnter, IrqReturn, Lookup, IrqLookup, NoteQuiescent, Publish, IrqPublish,
              IdlePublishLoad, IdlePublish, cbVars, waitVars
<1>3. ASSUME NEW k \in Thread, SyncStep(k), ~Free(k) PROVE UNCHANGED <<obj, own, batch, cbHead>>
  BY <1>3 DEF SyncStep, Begin, Snapshot, PublishOwn, ScanPass, ScanFail, cbVars
<1>4. ASSUME NEW k \in Thread, Free(k) PROVE OwnInv'
  <2>1. \A o \in Obj : obj[o] # "linked" => obj'[o] # "linked"
    BY <1>4 DEF Free, TypeOK
  <2>2. \A j \in Thread : Owned(j)' \subseteq Owned(j) /\ Owned(j) \subseteq Obj
    BY <1>4, RangeFacts DEF Free, TypeOK, Owned, cbVars, Thread
  <2>3. cbHead' = cbHead /\ Range(cbHead) \subseteq Obj
    BY <1>4, RangeFacts DEF Free, cbVars, TypeOK
  <2>. QED BY <2>1, <2>2, <2>3 DEF OwnInv
<1>5. ASSUME NEW k \in Thread, NEW o \in Obj, Unlink(k, o) PROVE OwnInv'
  <2>1. obj' \in [Obj -> {"linked", "unlinked", "freed"}] /\ obj'[o] = "unlinked"
    BY <1>5 DEF Unlink, TypeOK
  <2>2. \A x \in Obj : obj[x] # "linked" => obj'[x] # "linked"
    BY <1>5 DEF Unlink, TypeOK
  <2>3. \A j \in Thread : Owned(j)' \subseteq Owned(j) \cup {o} /\ Owned(j) \subseteq Obj
    BY <1>5, RangeFacts DEF Unlink, TypeOK, Owned, cbVars, Thread
  <2>4. cbHead' = cbHead /\ Range(cbHead) \subseteq Obj
    BY <1>5, RangeFacts DEF Unlink, cbVars, TypeOK
  <2>. QED BY <2>1, <2>2, <2>3, <2>4 DEF OwnInv
<1>6. ASSUME NEW k \in Thread, NEW o \in Obj, CallQuiesce(k, o) PROVE OwnInv'
  <2>1. o \in Owned(k) /\ obj' = obj
    BY <1>6, ThreadAssumption DEF CallQuiesce, Owned
  <2>2. \A j \in Thread : Owned(j)' \subseteq Owned(j)
    BY <1>6 DEF CallQuiesce, TypeOK, Owned, Thread
  <2>3. cbHead' = cbHead \/ cbHead' = <<o>> \o cbHead
    BY <1>6 DEF CallQuiesce, Submit
  <2>4. Range(cbHead') \subseteq Range(cbHead) \cup {o}
    <3>1. CASE cbHead' = cbHead
      BY <3>1
    <3>2. CASE cbHead' = <<o>> \o cbHead
      BY <3>2, RangeFacts DEF TypeOK
    <3>. QED BY <2>3, <3>1, <3>2
  <2>. QED BY <2>1, <2>2, <2>4 DEF OwnInv
<1>7. CASE TakeBatch
  <2>1. obj' = obj /\ own' = own /\ batch' = cbHead /\ cbHead' = <<>>
    BY <1>7 DEF TakeBatch
  <2>2. Range(<<>>) = {}
    BY DEF Range
  <2>. QED BY <2>1, <2>2 DEF OwnInv, Owned
<1>8. CASE ReverseBatch
  <2>1. obj' = obj /\ own' = own /\ cbHead' = cbHead /\ Range(batch') = Range(batch)
    BY <1>8, ReverseFacts DEF ReverseBatch, TypeOK
  <2>. QED BY <2>1 DEF OwnInv, Owned
<1>9. CASE Callback
  <2>. DEFINE o == Head(batch)
  <2>1. batch # <<>> /\ batch \in Seq(Obj) /\ o \in Range(batch) /\ o \in Obj
    BY <1>9, RangeFacts DEF Callback, WorkerInv, TypeOK
  <2>2. own' = own /\ Range(batch') \subseteq Range(batch)
    BY <1>9, <2>1, RangeFacts DEF Callback
  <2>3. obj[o] # "linked"
    BY <2>1 DEF OwnInv, Owned, Thread
  <2>4. obj' = obj \/ obj' = [obj EXCEPT ![o] = "freed"]
    BY <1>9 DEF Callback
  <2>5. \A x \in Obj : obj[x] # "linked" => obj'[x] # "linked"
    BY <2>1, <2>4 DEF TypeOK
  <2>6. cbHead' = cbHead \/ cbHead' = <<o>> \o cbHead
    BY <1>9 DEF Callback, Submit
  <2>7. Range(cbHead') \subseteq Range(cbHead) \cup {o}
    <3>1. CASE cbHead' = cbHead
      BY <3>1
    <3>2. CASE cbHead' = <<o>> \o cbHead
      BY <2>1, <3>2, RangeFacts DEF TypeOK
    <3>. QED BY <2>6, <3>1, <3>2
  <2>8. \A j \in Thread : Owned(j)' \subseteq Owned(j) /\ Owned(j) \subseteq Obj
    BY <2>1, <2>2, RangeFacts DEF TypeOK, Owned, Thread
  <2>9. Range(cbHead) \subseteq Obj
    BY RangeFacts DEF TypeOK
  <2>. QED BY <2>1, <2>3, <2>5, <2>7, <2>8, <2>9 DEF OwnInv
<1>10. CreateWorker \/ QuiesceInit \/ UNCHANGED vars => UNCHANGED <<obj, own, batch, cbHead>>
  BY DEF CreateWorker, QuiesceInit, vars, cbVars, waitVars
<1>. QED BY <1>1, <1>2, <1>3, <1>4, <1>5, <1>6, <1>7, <1>8, <1>9, <1>10 DEF Next, CallerStep, WorkerStep

(* A step that leaves a wait and what it reclaims alone keeps its claim:   *)
(* a holder of an unlinked object is no new holder and does not publish.   *)
LEMMA GraceKept ==
    ASSUME TypeOK, SectionInv, OwnInv, GraceInv, [Next]_vars, NEW k \in Thread,
           Owned(k)' \subseteq Owned(k),
           pc'[k] = pc[k], target'[k] = target[k], snap'[k] = snap[k], left'[k] = left[k]
    PROVE  GraceFor(k)'
<1>. SUFFICES ASSUME pc[k] \in {"begun", "snapped", "scan", "done", "run"},
                     NEW c \in CPU, NEW o \in Owned(k)', o \in Held(c)'
              PROVE  /\ c \in snap[k]
                     /\ seen'[c] < target[k]
                     /\ pc[k] \notin {"done", "run"}
                     /\ pc[k] = "scan" => c \in left[k]
  BY DEF GraceFor
<1>1. obj[o] # "linked"
  BY DEF OwnInv
<1>2. o \in Held(c)
  BY <1>1, HeldStep
<1>3. seen'[c] = seen[c]
  BY SeenStep
<1>. QED BY <1>2, <1>3 DEF GraceInv, GraceFor

(* Each step of a waiting thread keeps its own claim.                      *)
LEMMA GraceOwn ==
    ASSUME TypeOK, SectionInv, EpochInv, GraceInv, NEW k \in Thread, SyncStep(k)
    PROVE  GraceFor(k)'
<1>1. CASE Begin(k)
  <2>1. /\ pc'[k] = "begun" /\ target'[k] = epoch + 1 /\ snap'[k] = online
        /\ \A c \in CPU : Held(c)' = Held(c)
        /\ seen' = seen
    BY <1>1 DEF Begin, TypeOK, cpuVars, Held
  <2>2. \A c \in CPU : Held(c) # {} => c \in online
    BY DEF SectionInv, Held
  <2>3. \A c \in CPU : seen[c] < epoch + 1
    BY DEF EpochInv, TypeOK
  <2>. QED BY <2>1, <2>2, <2>3 DEF GraceFor
<1>2. CASE Snapshot(k)
  <2>1. /\ pc[k] = "begun" /\ pc'[k] = "snapped" /\ target' = target /\ snap[k] \subseteq snap'[k]
        /\ \A c \in CPU : Held(c)' = Held(c)
        /\ seen' = seen /\ Owned(k)' = Owned(k)
    BY <1>2 DEF Snapshot, TypeOK, cpuVars, cbVars, Held, Owned
  <2>. QED BY <2>1 DEF GraceInv, GraceFor
<1>3. ASSUME NEW c \in CPU, PublishOwn(k, c) PROVE GraceFor(k)'
  <2>1. /\ pc[k] = "snapped" /\ pc'[k] = (IF ready THEN "scan" ELSE "done")
        /\ target' = target /\ snap' = snap /\ left'[k] = snap[k]
        /\ \A d \in CPU : Held(d)' = Held(d)
        /\ seen' = seen /\ Owned(k)' = Owned(k)
    BY <1>3 DEF PublishOwn, PublishLoad, TypeOK, cbVars, Held, Owned
  <2>2. CASE ready
    BY <2>1, <2>2 DEF GraceInv, GraceFor
  <2>3. CASE ~ready
    <3>1. \A d \in CPU \ {Boot} : Held(d) = {}
      BY <2>3 DEF SectionInv, Held
    <3>2. thr[c] = "out" /\ irq[c] = "none"
      BY <1>3 DEF PublishOwn, PublishLoad, Preemptible
    <3>3. Held(c) = {}
      BY <3>2 DEF SectionInv, Held
    <3>4. c = Boot
      BY <2>3, <3>2 DEF SectionInv
    <3>. QED BY <2>1, <3>1, <3>3, <3>4 DEF GraceFor
  <2>. QED BY <2>2, <2>3
<1>4. ASSUME NEW c \in CPU, ScanPass(k, c) PROVE GraceFor(k)'
  <2>1. /\ pc[k] = "scan" /\ pc'[k] = (IF left[k] = {c} THEN "done" ELSE "scan")
        /\ target' = target /\ snap' = snap /\ left'[k] = left[k] \ {c}
        /\ \A d \in CPU : Held(d)' = Held(d)
        /\ seen' = seen /\ Owned(k)' = Owned(k)
    BY <1>4 DEF ScanPass, TypeOK, cpuVars, cbVars, Held, Owned
  <2>2. ASSUME NEW d \in CPU, Owned(k) \cap Held(d) # {} PROVE d \in left[k] /\ seen[d] < target[k] /\ d # c
    <3>1. d \in left[k] /\ seen[d] < target[k]
      BY <2>1, <2>2 DEF GraceInv, GraceFor
    <3>2. seen[c] >= target[k]
      BY <1>4 DEF ScanPass
    <3>. QED BY <3>1, <3>2 DEF TypeOK
  <2>3. \A d \in CPU : Owned(k) \cap Held(d) # {} => d \in snap[k]
    BY <2>1 DEF GraceInv, GraceFor
  <2>. QED BY <2>1, <2>2, <2>3 DEF GraceFor
<1>5. ASSUME NEW c \in CPU, ScanFail(k, c) PROVE GraceFor(k)'
  <2>1. /\ pc[k] = "scan" /\ pc' = pc
        /\ target' = target /\ snap' = snap /\ left'[k] = snap[k]
        /\ \A d \in CPU : Held(d)' = Held(d)
        /\ seen' = seen /\ Owned(k)' = Owned(k)
    BY <1>5 DEF ScanFail, TypeOK, cpuVars, cbVars, Held, Owned
  <2>. QED BY <2>1 DEF GraceInv, GraceFor
<1>6. CASE Free(k)
  <2>1. pc'[k] = "idle"
    BY <1>6 DEF Free, TypeOK
  <2>. QED BY <2>1 DEF GraceFor
<1>. QED BY <1>1, <1>2, <1>3, <1>4, <1>5, <1>6 DEF SyncStep

LEMMA GraceStep ==
    ASSUME TypeOK, WorkerInv, SectionInv, EpochInv, OwnInv, GraceInv, [Next]_vars
    PROVE  GraceInv'
<1>. SUFFICES ASSUME NEW k \in Thread PROVE GraceFor(k)'
  BY DEF GraceInv
<1>1. CASE UNCHANGED <<batch, waitVars>>
  BY <1>1, GraceKept DEF waitVars, Owned
<1>2. ASSUME NEW c \in CPU, StartStep(c) \/ ReaderStep(c) \/ PublishStep(c)
      PROVE  UNCHANGED <<batch, waitVars>>
  BY <1>2 DEF StartStep, ReaderStep, PublishStep, StartPublishLoad, StartPublish, StartOnline, ReadLock,
              ReadUnlock, IrqEnter, IrqReturn, Lookup, IrqLookup, NoteQuiescent, Publish, IrqPublish,
              IdlePublishLoad, IdlePublish, cbVars
<1>3. ASSUME NEW j \in Thread, SyncStep(j) PROVE GraceFor(k)'
  <2>1. CASE j = k
    BY <1>3, <2>1, GraceOwn
  <2>2. CASE j # k
    <3>1. /\ pc'[k] = pc[k] /\ target'[k] = target[k] /\ snap'[k] = snap[k] /\ left'[k] = left[k]
      BY <1>3, <2>2 DEF SyncStep, Begin, Snapshot, PublishOwn, ScanPass, ScanFail, Free, TypeOK
    <3>2. /\ batch' = batch
          /\ k \in Caller => own'[k] = own[k]
      BY <1>3, <2>2 DEF SyncStep, Begin, Snapshot, PublishOwn, ScanPass, ScanFail, Free, TypeOK, cbVars
    <3>3. Owned(k)' \subseteq Owned(k)
      BY <3>2 DEF Owned, Thread
    <3>. QED BY <3>1, <3>3, GraceKept
  <2>. QED BY <2>1, <2>2
<1>4. ASSUME NEW j \in Thread, CallerStep(j) PROVE GraceFor(k)'
  <2>1. pc' \in [Thread -> {"off", "idle", "unlinked", "begun", "snapped", "scan", "done", "run"}]
        /\ pc'[j] \in {"idle", "unlinked"}
    BY <1>4 DEF CallerStep, Unlink, CallQuiesce, TypeOK
  <2>2. CASE j = k
    BY <2>1, <2>2 DEF GraceFor
  <2>3. CASE j # k
    <3>1. /\ pc'[k] = pc[k] /\ target' = target /\ snap' = snap /\ left' = left
          /\ batch' = batch
          /\ k \in Caller => own'[k] = own[k]
      BY <1>4, <2>3 DEF CallerStep, Unlink, CallQuiesce, TypeOK, cbVars
    <3>2. Owned(k)' \subseteq Owned(k)
      BY <3>1 DEF Owned, Thread
    <3>. QED BY <3>1, <3>2, GraceKept
  <2>. QED BY <2>2, <2>3
<1>5. CASE WorkerStep
  <2>1. /\ target' = target /\ snap' = snap /\ left' = left /\ own' = own
        /\ \A j \in Thread \ {Worker} : pc'[j] = pc[j]
    BY <1>5 DEF WorkerStep, CreateWorker, TakeBatch, ReverseBatch, Callback, TypeOK
  <2>2. CASE k # Worker
    BY <2>1, <2>2, GraceKept DEF Owned
  <2>3. CASE k = Worker /\ TakeBatch
    <3>1. pc'[Worker] = "unlinked"
      BY <2>3 DEF TakeBatch, TypeOK
    <3>. QED BY <2>3, <3>1 DEF GraceFor
  <2>4. CASE k = Worker /\ ReverseBatch
    <3>1. /\ pc[k] = "done" /\ pc'[k] = "run" /\ Owned(k)' = Owned(k)
          /\ \A c \in CPU : Held(c)' = Held(c)
      BY <2>4, ReverseFacts DEF ReverseBatch, TypeOK, Owned, Held, cpuVars
    <3>. QED BY <3>1 DEF GraceInv, GraceFor
  <2>5. CASE k = Worker /\ Callback
    <3>1. /\ pc[k] = "run" /\ pc'[k] \in {"idle", "run"}
          /\ \A c \in CPU : Held(c)' = Held(c)
      BY <2>5 DEF Callback, TypeOK, Held, cpuVars
    <3>2. Owned(k)' \subseteq Owned(k)
      BY <2>5, <3>1, RangeFacts DEF Callback, TypeOK, WorkerInv, Owned
    <3>. QED BY <3>1, <3>2 DEF GraceInv, GraceFor
  <2>6. CASE k = Worker /\ CreateWorker
    <3>1. pc'[Worker] = "idle"
      BY <2>6 DEF CreateWorker, TypeOK
    <3>. QED BY <2>6, <3>1 DEF GraceFor
  <2>. QED BY <1>5, <2>2, <2>3, <2>4, <2>5, <2>6 DEF WorkerStep
<1>6. QuiesceInit \/ UNCHANGED vars => UNCHANGED <<batch, waitVars>>
  BY DEF QuiesceInit, vars, cbVars
<1>. QED BY <1>1, <1>2, <1>3, <1>4, <1>5, <1>6 DEF Next

(* Freeing happens only after a grace period, so no reader holds it.       *)
LEMMA FreeStep ==
    ASSUME TypeOK, WorkerInv, SectionInv, GraceInv, NoUseAfterFree, [Next]_vars
    PROVE  NoUseAfterFree'
<1>. SUFFICES ASSUME NEW c \in CPU, NEW o \in Held(c)' PROVE obj'[o] # "freed"
  BY DEF NoUseAfterFree
<1>1. o \in Obj /\ obj[o] # "freed"
  BY HeldStep DEF NoUseAfterFree, Held, TypeOK
<1>2. ASSUME NEW k \in Caller, Free(k) PROVE obj'[o] # "freed"
  <2>1. o \in Held(c) /\ pc[k] = "done" /\ k \in Thread /\ k # Worker
    BY <1>2, ThreadAssumption DEF Free, Held, cpuVars, Thread
  <2>2. o \notin own[k]
    BY <2>1 DEF GraceInv, GraceFor, Owned
  <2>. QED BY <1>1, <1>2, <2>2 DEF Free
<1>3. CASE Callback
  <2>1. o \in Held(c) /\ pc[Worker] = "run" /\ Worker \in Thread
    BY <1>3 DEF Callback, Held, cpuVars, Thread
  <2>2. Head(batch) \in Range(batch)
    BY <2>1, RangeFacts DEF WorkerInv, TypeOK
  <2>3. o # Head(batch)
    BY <2>1, <2>2 DEF GraceInv, GraceFor, Owned
  <2>4. obj' = obj \/ obj' = [obj EXCEPT ![Head(batch)] = "freed"]
    BY <1>3 DEF Callback
  <2>. QED BY <1>1, <2>3, <2>4 DEF TypeOK
<1>4. ASSUME NEW k \in Thread, NEW x \in Obj, Unlink(k, x) PROVE obj'[o] # "freed"
  BY <1>1, <1>4 DEF Unlink, TypeOK
<1>5. CASE UNCHANGED obj
  BY <1>1, <1>5
<1>6. ASSUME NEW d \in CPU, StartStep(d) \/ ReaderStep(d) \/ PublishStep(d) PROVE UNCHANGED obj
  BY <1>6 DEF StartStep, ReaderStep, PublishStep, StartPublishLoad, StartPublish, StartOnline, ReadLock,
              ReadUnlock, IrqEnter, IrqReturn, Lookup, IrqLookup, NoteQuiescent, Publish, IrqPublish,
              IdlePublishLoad, IdlePublish
<1>7. ASSUME NEW k \in Thread, SyncStep(k), ~Free(k) PROVE UNCHANGED obj
  BY <1>7 DEF SyncStep, Begin, Snapshot, PublishOwn, ScanPass, ScanFail
<1>8. ASSUME NEW k \in Thread, NEW x \in Obj, CallQuiesce(k, x) PROVE UNCHANGED obj
  BY <1>8 DEF CallQuiesce
<1>9. CreateWorker \/ TakeBatch \/ ReverseBatch \/ QuiesceInit \/ UNCHANGED vars => UNCHANGED obj
  BY DEF CreateWorker, TakeBatch, ReverseBatch, QuiesceInit, vars
<1>10. \A k \in Thread : Free(k) => k \in Caller
  BY DEF Free
<1>. QED
  BY <1>2, <1>3, <1>4, <1>5, <1>6, <1>7, <1>8, <1>9, <1>10 DEF Next, CallerStep, WorkerStep

(* The inductive invariant.                                                *)
IInv == SectionInv /\ EpochInv /\ OwnInv /\ GraceInv /\ NoUseAfterFree

(* synchronize_quiesce and call_quiesce are correct for every number of    *)
(* CPUs, objects and callers: when a wait returns no CPU holds what was    *)
(* unlinked before it (GraceElapsed), and nothing is freed while a reader  *)
(* holds it (NoUseAfterFree), although CPUs come online meanwhile.         *)
THEOREM GraceSafety == Spec => [](GraceElapsed /\ NoUseAfterFree)
<1>1. Init => IInv
  <2>. SUFFICES ASSUME Init PROVE IInv
    OBVIOUS
  <2>1. \A c \in CPU : Held(c) = {}
    BY DEF Init, Held
  <2>2. SectionInv
    BY CPUAssumption DEF Init, SectionInv
  <2>3. EpochInv
    BY DEF Init, EpochInv
  <2>4. OwnInv
    BY DEF Init, OwnInv, Owned, Range, Thread
  <2>5. GraceInv
    BY DEF Init, GraceInv, GraceFor
  <2>. QED BY <2>1, <2>2, <2>3, <2>4, <2>5 DEF IInv, NoUseAfterFree
<1>2. TypeOK /\ WorkerInv /\ IInv /\ [Next]_vars => IInv'
  BY SectionStep, EpochStep, OwnStep, GraceStep, FreeStep DEF IInv
<1>3. IInv => GraceElapsed /\ NoUseAfterFree
  BY DEF IInv, GraceInv, GraceFor, GraceElapsed
<1>. QED BY <1>1, <1>2, <1>3, TypeCorrect, PTL DEF Spec
=============================================================================
