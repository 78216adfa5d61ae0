--------------------------- MODULE SPSCQueueProof ---------------------------
(***************************************************************************)
(* Proofs about the ring buffer, for every capacity and every set of       *)
(* values.  Type correctness needs nothing else; slot lifetimes and the    *)
(* refinement need one producer and one consumer, the condition under      *)
(* which the class is named.                                               *)
(***************************************************************************)
EXTENDS SPSCQueue, SequenceTheorems, FiniteSetTheorems, TLAPS

SingleProducer == \A p, q \in Producers : p = q
SingleConsumer == \A c, d \in Consumers : c = d

-----------------------------------------------------------------------------
(* The ring has at least four slots, one more than it has room for.        *)
LEMMA RingSizeType ==
    /\ RingSize \in Nat /\ RingSize >= 4
    /\ RingSize - 1 = IF Cap > 3 THEN Cap ELSE 3
  BY CapAssumption DEF RingSize

(* The successor of a slot is a slot.                                      *)
LEMMA SuccType == \A i \in Slots : Succ(i) \in Slots
  BY RingSizeType DEF Succ, Slots

(* Counting one entry of an integer table up or down leaves an integer     *)
(* table, even when the entry named is not in it.                          *)
LEMMA AddType ==
    ASSUME NEW f \in [Values -> Int], NEW v
    PROVE  /\ [f EXCEPT ![v] = f[v] + 1] \in [Values -> Int]
           /\ [f EXCEPT ![v] = f[v] - 1] \in [Values -> Int]
<1>1. CASE v \in Values
  BY <1>1
<1>2. CASE v \notin Values
  <2>1. \A n : [f EXCEPT ![v] = n] = f
    BY <1>2
  <2>2. QED
    BY <2>1
<1>3. QED
  BY <1>1, <1>2

(* No step leaves the types.                                               *)
LEMMA TypeStep == TypeOK /\ [Next]_vars => TypeOK'
<1> SUFFICES ASSUME TypeOK, [Next]_vars PROVE TypeOK'
  OBVIOUS
<1> USE SuccType DEF TypeOK, ProducerPcs, ConsumerPcs, producerVars,
                     consumerVars
<1>1. ASSUME NEW p \in Producers, NEW v \in Values, LoadHead(p, v)
      PROVE TypeOK'
  BY <1>1 DEF LoadHead
<1>2. ASSUME NEW p \in Producers, SpinUntilRoom(p) PROVE TypeOK'
  BY <1>2 DEF SpinUntilRoom
<1>3. ASSUME NEW p \in Producers, Construct(p) PROVE TypeOK'
  BY <1>3 DEF Construct
<1>4. ASSUME NEW p \in Producers, PublishHead(p) PROVE TypeOK'
  <2>1. owed' \in [Values -> Int]
    BY <1>4, AddType DEF PublishHead
  <2>2. QED
    BY <1>4, <2>1 DEF PublishHead
<1>5. ASSUME NEW c \in Consumers, NEW o \in {"once", "stuck"}, Call(c, o)
      PROVE TypeOK'
  BY <1>5 DEF Call
<1>6. ASSUME NEW c \in Consumers, NEW at \in ConsumerPcs,
             NEW next \in ConsumerPcs, LoadTail(c, at, next)
      PROVE TypeOK'
  BY <1>6 DEF LoadTail
<1>7. ASSUME NEW c \in Consumers, CompareHead(c) PROVE TypeOK'
  BY <1>7 DEF CompareHead
<1>8. ASSUME NEW c \in Consumers, Deref(c) PROVE TypeOK'
  BY <1>8 DEF Deref
<1>9. ASSUME NEW c \in Consumers, Destroy(c) PROVE TypeOK'
  BY <1>9 DEF Destroy
<1>10. ASSUME NEW c \in Consumers, ReleaseTail(c) PROVE TypeOK'
  <2>1. owed' \in [Values -> Int]
    BY <1>10, AddType DEF ReleaseTail
  <2>2. QED
    BY <1>10, <2>1 DEF ReleaseTail
<1>11. CASE UNCHANGED vars
  BY <1>11 DEF vars
<1>12. QED
  BY <1>1, <1>2, <1>3, <1>4, <1>5, <1>6, <1>7, <1>8, <1>9, <1>10, <1>11
  DEF Next, PushStep, ReadStep

(* The variables of the ring buffer keep their types, whatever the number  *)
(* of threads at either end.                                               *)
THEOREM TypeCorrect == Spec => []TypeOK
<1>1. Init => TypeOK
  BY RingSizeType DEF Init, TypeOK, Slots, ProducerPcs, ConsumerPcs
<1>2. QED
  BY <1>1, TypeStep, PTL DEF Spec


-----------------------------------------------------------------------------
(* The inductive invariant.  Each end's local copies agree with the index  *)
(* that only it writes, and what it has observed of the other's index      *)
(* stays true until it acts on it; the constructed slots are the window    *)
(* [tail, head), less the slot being released, plus the slot being         *)
(* published.                                                              *)
InWindow(i) == IF tail <= head THEN tail <= i /\ i < head
                               ELSE tail <= i \/ i < head

Publishing == \E p \in Producers : ppc[p] = "publish"
Releasing == \E c \in Consumers : cpc[c] = "release"

ProducerInv ==
    \A p \in Producers :
        /\ ppc[p] # "idle" => phead[p] = head /\ parg[p] \in Values
        /\ ppc[p] \in {"construct", "publish"} => Succ(head) # tail
        /\ ppc[p] = "publish" => buf[head] = parg[p]

ConsumerInv ==
    \A c \in Consumers :
        /\ cpc[c] # "crash"
        /\ cpc[c] \notin {"idle", "front"} => ctail[c] = tail
        /\ cpc[c] \in {"again", "deref", "pop", "destroy", "release"}
               => head # tail
        /\ cpc[c] \in {"pop", "destroy", "release"} => cval[c] = buf[tail]

LiveInv ==
    \A i \in Slots :
        i \in live <=> \/ InWindow(i) /\ ~(i = tail /\ Releasing)
                       \/ i = head /\ Publishing

IInv == TypeOK /\ ProducerInv /\ ConsumerInv /\ LiveInv

(* At first the queue is empty.                                            *)
LEMMA Initially == Init => IInv
<1> SUFFICES ASSUME Init PROVE IInv
  OBVIOUS
<1>1. TypeOK
  BY RingSizeType DEF Init, TypeOK, Slots, ProducerPcs, ConsumerPcs
<1>2. QED
  BY <1>1 DEF Init, IInv, ProducerInv, ConsumerInv, LiveInv, InWindow,
              Publishing, Releasing, Slots

(* Each step of a producer or of the consumer preserves the invariant.     *)
LEMMA Inductive ==
    ASSUME SingleProducer, SingleConsumer
    PROVE  IInv /\ [Next]_vars => IInv'
<1> SUFFICES ASSUME IInv, TypeOK', [Next]_vars PROVE IInv'
  BY TypeStep DEF IInv
<1> USE RingSizeType, SuccType DEF IInv, producerVars, consumerVars
<1>1. ASSUME NEW p \in Producers, NEW v \in Values, LoadHead(p, v)
      PROVE IInv'
  <2>1. ProducerInv'
    BY <1>1 DEF LoadHead, ProducerInv, TypeOK
  <2>2. ConsumerInv' /\ LiveInv'
    BY <1>1 DEF LoadHead, ConsumerInv, LiveInv, InWindow, Publishing,
                Releasing, TypeOK
  <2>3. QED
    BY <2>1, <2>2
<1>2. ASSUME NEW p \in Producers, SpinUntilRoom(p) PROVE IInv'
  <2>1. ProducerInv'
    BY <1>2 DEF SpinUntilRoom, ProducerInv, TypeOK
  <2>2. ConsumerInv' /\ LiveInv'
    BY <1>2 DEF SpinUntilRoom, ConsumerInv, LiveInv, InWindow, Publishing,
                Releasing, TypeOK
  <2>3. QED
    BY <2>1, <2>2
<1>3. ASSUME NEW p \in Producers, Construct(p) PROVE IInv'
  <2>1. ProducerInv'
    BY <1>3, SingleProducer DEF Construct, ProducerInv, TypeOK, SingleProducer
  <2>2. ConsumerInv'
    BY <1>3 DEF Construct, ConsumerInv, ProducerInv, TypeOK
  <2>3. LiveInv'
    BY <1>3, SingleProducer DEF Construct, ProducerInv, LiveInv, InWindow,
       Publishing, Releasing, TypeOK, SingleProducer
  <2>4. QED
    BY <2>1, <2>2, <2>3
<1>4. ASSUME NEW p \in Producers, PublishHead(p) PROVE IInv'
  <2>0. \A q \in Producers : q = p
    BY SingleProducer DEF SingleProducer
  <2>1. ProducerInv'
    BY <1>4, <2>0 DEF PublishHead, ProducerInv, TypeOK
  <2>2. ConsumerInv'
    BY <1>4 DEF PublishHead, ConsumerInv, ProducerInv, TypeOK
  <2>3. LiveInv'
    <3>1. head' = Succ(head) /\ Succ(head) # tail
      BY <1>4 DEF PublishHead, ProducerInv
    <3>2. ~Publishing' /\ Publishing /\ (Releasing' <=> Releasing)
      BY <1>4, <2>0 DEF PublishHead, Publishing, Releasing, TypeOK
    <3>3. \A i \in Slots : InWindow(i)' <=> InWindow(i) \/ i = head
      BY <1>4, <3>1 DEF PublishHead, InWindow, Succ, Slots, TypeOK
    <3>4. Releasing => head # tail
      BY DEF Releasing, ConsumerInv
    <3>5. QED
      BY <1>4, <3>2, <3>3, <3>4 DEF PublishHead, LiveInv
  <2>4. QED
    BY <2>1, <2>2, <2>3
<1>5. ASSUME NEW c \in Consumers, NEW o \in {"once", "stuck"}, Call(c, o)
      PROVE IInv'
  BY <1>5 DEF Call, ProducerInv, ConsumerInv, LiveInv, InWindow, Publishing,
              Releasing, TypeOK
<1>6. ASSUME NEW c \in Consumers,
             \/ LoadTail(c, "front", "compare")
             \/ LoadTail(c, "again", "deref")
             \/ LoadTail(c, "pop", "destroy")
      PROVE IInv'
  <2>1. ProducerInv'
    BY <1>6 DEF LoadTail, ProducerInv, TypeOK
  <2>2. ConsumerInv'
    BY <1>6 DEF LoadTail, ConsumerInv, TypeOK
  <2>3. LiveInv'
    BY <1>6 DEF LoadTail, LiveInv, InWindow, Publishing, Releasing, TypeOK
  <2>4. QED
    BY <2>1, <2>2, <2>3
<1>7. ASSUME NEW c \in Consumers, CompareHead(c) PROVE IInv'
  BY <1>7 DEF CompareHead, ProducerInv, ConsumerInv, LiveInv, InWindow,
              Publishing, Releasing, TypeOK
<1>8. ASSUME NEW c \in Consumers, Deref(c) PROVE IInv'
  <2>1. ProducerInv' /\ ConsumerInv'
    BY <1>8 DEF Deref, ProducerInv, ConsumerInv, TypeOK
  <2>2. LiveInv'
    BY <1>8 DEF Deref, LiveInv, InWindow, Publishing, Releasing, TypeOK
  <2>3. QED
    BY <2>1, <2>2
<1>9. ASSUME NEW c \in Consumers, Destroy(c) PROVE IInv'
  <2>1. ProducerInv' /\ ConsumerInv'
    BY <1>9 DEF Destroy, ProducerInv, ConsumerInv, TypeOK
  <2>2. LiveInv'
    <3>1. ctail[c] = tail /\ head # tail /\ Releasing'
      BY <1>9 DEF Destroy, ConsumerInv, Releasing, TypeOK
    <3>2. (Publishing' <=> Publishing)
          /\ \A i \in Slots : InWindow(i)' <=> InWindow(i)
      BY <1>9 DEF Destroy, Publishing, InWindow, TypeOK
    <3>3. ~Releasing
      BY <1>9, SingleConsumer DEF Destroy, Releasing, SingleConsumer
    <3>4. QED
      BY <1>9, <3>1, <3>2, <3>3 DEF Destroy, LiveInv
  <2>3. QED
    BY <2>1, <2>2
<1>10. ASSUME NEW c \in Consumers, ReleaseTail(c) PROVE IInv'
  <2>0. \A d \in Consumers : d = c
    BY SingleConsumer DEF SingleConsumer
  <2>1. tail' = Succ(tail) /\ head # tail
    BY <1>10 DEF ReleaseTail, ConsumerInv
  <2>2. ProducerInv'
    BY <1>10, <2>1 DEF ReleaseTail, ProducerInv, Succ, Slots, TypeOK
  <2>3. ConsumerInv'
    BY <1>10, <2>0 DEF ReleaseTail, ConsumerInv, TypeOK
  <2>4. LiveInv'
    <3>1. ~Releasing' /\ Releasing /\ (Publishing' <=> Publishing)
      BY <1>10, <2>0 DEF ReleaseTail, Publishing, Releasing, TypeOK
    <3>2. \A i \in Slots : InWindow(i)' <=> InWindow(i) /\ i # tail
      BY <1>10, <2>1 DEF ReleaseTail, InWindow, Succ, Slots, TypeOK
    <3>3. QED
      BY <1>10, <3>1, <3>2 DEF ReleaseTail, LiveInv
  <2>5. QED
    BY <2>2, <2>3, <2>4
<1>11. CASE UNCHANGED vars
  BY <1>11 DEF vars, ProducerInv, ConsumerInv, LiveInv, InWindow, Publishing,
               Releasing, TypeOK
<1>12. QED
  BY <1>1, <1>2, <1>3, <1>4, <1>5, <1>6, <1>7, <1>8, <1>9, <1>10, <1>11
  DEF Next, PushStep, ReadStep

(* With one thread at each end the ring buffer's slots are only            *)
(* constructed when free and only read and destroyed when constructed, and *)
(* the second, unchecked front() of read_once never returns nullptr.       *)
THEOREM SlotsAreSafe ==
    ASSUME SingleProducer, SingleConsumer
    PROVE  Spec => []SlotLifetimes
<1>1. IInv => SlotLifetimes
  <2> SUFFICES ASSUME IInv PROVE SlotLifetimes
    OBVIOUS
  <2> USE RingSizeType DEF IInv, TypeOK, Slots
  <2>1. ASSUME NEW p \in Producers, ppc[p] = "construct"
        PROVE  phead[p] \notin live
    <3>1. ~Publishing
      BY <2>1, SingleProducer DEF Publishing, SingleProducer
    <3>2. phead[p] = head /\ head \in Slots /\ ~InWindow(head)
      BY <2>1 DEF ProducerInv, InWindow
    <3>3. QED
      BY <3>1, <3>2, Zenon DEF LiveInv
  <2>2. ASSUME NEW c \in Consumers, cpc[c] \in {"deref", "pop", "destroy"}
        PROVE  ctail[c] \in live
    <3>1. ~Releasing
      BY <2>2, SingleConsumer DEF Releasing, SingleConsumer
    <3>2. ctail[c] = tail /\ head # tail
      BY <2>2 DEF ConsumerInv
    <3>3. InWindow(tail)
      BY <3>2 DEF InWindow
    <3>4. tail \in Slots
      OBVIOUS
    <3>5. QED
      BY <3>1, <3>2, <3>3, <3>4, Zenon DEF LiveInv
  <2>3. QED
    BY <2>1, <2>2 DEF SlotLifetimes, ConsumerInv
<1>2. QED
  BY <1>1, Initially, Inductive, PTL DEF Spec

-----------------------------------------------------------------------------
(* The number of values in the ring.                                       *)
LEMMA UsedType ==
    ASSUME TypeOK
    PROVE  Used \in 0 .. RingSize - 1 /\ (Used = 0 <=> head = tail)
  BY RingSizeType DEF TypeOK, Used, Slots

(* A function on 1 .. n is a sequence of length n.                         *)
LEMMA FunctionIsSeq ==
    ASSUME NEW S, NEW n \in Nat, NEW f \in [1 .. n -> S]
    PROVE  f \in Seq(S) /\ Len(f) = n
<1>1. f \in Seq(S)
  BY SeqDef
<1>2. QED
  BY <1>1, LenProperties

(* The abstract queue of the refinement mapping.                           *)
Contents == [k \in 1 .. Used |-> buf[Slot(k)]]

(* It is a sequence of Used values, and so is its next value.              *)
LEMMA ContentsType ==
    ASSUME TypeOK
    PROVE  /\ Contents \in Seq(Values \cup {None})
           /\ Len(Contents) = Used
           /\ \A k \in 1 .. Used : Slot(k) \in Slots
<1>1. \A k \in 1 .. Used : Slot(k) \in Slots
  BY RingSizeType, UsedType DEF TypeOK, Used, Slot, Slots
<1>2. Contents \in [1 .. Used -> Values \cup {None}] /\ Used \in Nat
  BY <1>1, UsedType, RingSizeType DEF Contents, TypeOK
<1>3. QED
  BY <1>1, <1>2, FunctionIsSeq

(* The store of head_ appends the argument of push().                      *)
LEMMA PublishAppends ==
    ASSUME IInv, NEW p \in Producers, PublishHead(p)
    PROVE  /\ Len(Contents) < RingSize - 1
           /\ Contents' = Append(Contents, parg[p])
<1> USE RingSizeType DEF Slots, IInv
<1> DEFINE A == Append(Contents, parg[p])
<1>1. /\ head' = Succ(head) /\ Succ(head) # tail /\ UNCHANGED <<tail, buf>>
      /\ buf[head] = parg[p] /\ parg[p] \in Values
  BY DEF PublishHead, ProducerInv
<1>2. Used' = Used + 1 /\ Used < RingSize - 1 /\ Used \in Nat
  BY <1>1 DEF Used, Succ, TypeOK
<1>3. Slot(Used + 1) = head
  BY <1>1 DEF Used, Slot, TypeOK
<1>4. Contents' = [k \in 1 .. Used + 1 |-> buf[Slot(k)]]
  BY <1>1, <1>2 DEF Contents, Slot
<1>5. /\ A \in Seq(Values \cup {None}) /\ Len(A) = Used + 1
      /\ \A k \in 1 .. Used + 1 : A[k] = buf[Slot(k)]
  BY <1>1, <1>2, <1>3, ContentsType, AppendProperties DEF Contents
<1>6. A = [k \in 1 .. Used + 1 |-> buf[Slot(k)]]
  BY <1>5, <1>2, LenProperties
<1>7. QED
  BY <1>2, <1>4, <1>6, ContentsType

(* The store of tail_ removes the head of the queue, which is what the     *)
(* consumer read.                                                          *)
LEMMA ReleaseTakesHead ==
    ASSUME IInv, NEW c \in Consumers, ReleaseTail(c)
    PROVE  /\ Contents # << >>
           /\ Head(Contents) = cval[c]
           /\ Contents' = Tail(Contents)
<1> USE RingSizeType DEF Slots, IInv
<1>1. /\ tail' = Succ(tail) /\ head # tail /\ UNCHANGED <<head, buf>>
      /\ cval[c] = buf[tail]
  BY DEF ReleaseTail, ConsumerInv
<1>2. Used' = Used - 1 /\ Used >= 1 /\ Used \in Nat
  BY <1>1 DEF Used, Succ, TypeOK
<1>3. Slot(1) = tail
  BY DEF Slot, TypeOK
<1>4. ASSUME NEW k \in 1 .. Used - 1 PROVE Slot(k)' = Slot(k + 1)
  <2>1. k < RingSize - 1 /\ tail \in 0 .. RingSize - 1
    BY <1>2, UsedType DEF TypeOK
  <2>2. CASE tail + 1 = RingSize
    BY <1>1, <2>1, <2>2 DEF Slot, Succ
  <2>3. CASE tail + 1 # RingSize
    BY <1>1, <2>1, <2>3 DEF Slot, Succ
  <2>4. QED
    BY <2>2, <2>3
<1>5. Contents' = [k \in 1 .. Used - 1 |-> buf[Slot(k + 1)]]
  BY <1>1, <1>2, <1>4 DEF Contents
<1>6. Contents # << >>
  BY <1>2, ContentsType
<1>7. Head(Contents) = Contents[1] /\ Contents[1] = cval[c]
  BY <1>1, <1>2, <1>3, <1>6, ContentsType, HeadTailProperties DEF Contents
<1>8. Tail(Contents) = [k \in 1 .. Used - 1 |-> Contents[k + 1]]
  BY ZenonT(30), <1>2, <1>6, ContentsType, HeadTailProperties, LenProperties
<1>9. Contents' = Tail(Contents)
  BY <1>2, <1>5, <1>8 DEF Contents
<1>10. QED
  BY <1>6, <1>7, <1>9

(* Every step of the ring buffer is a step of the bounded FIFO or leaves   *)
(* it unchanged.                                                           *)
LEMMA StepSimulation ==
    ASSUME IInv, [Next]_vars
    PROVE  [Abstract!FifoNext]_(Abstract!fifoVars)
<1> DEFINE Want == [p \in Producers |-> IF ppc[p] = "idle" THEN None ELSE parg[p]]
<1> USE DEF Abstract!fifoVars, producerVars, consumerVars
<1>0. TypeOK /\ ProducerInv
  BY DEF IInv
<1>1. ASSUME NEW p \in Producers, NEW v \in Values, LoadHead(p, v)
      PROVE  Abstract!Offer(p, v)
  <2>1. Want[p] = None /\ Want' = [Want EXCEPT ![p] = v]
    BY <1>0, <1>1 DEF LoadHead, TypeOK
  <2>2. Contents' = Contents /\ got' = got
    BY <1>1 DEF LoadHead, Contents, Used, Slot
  <2>3. QED
    BY <2>1, <2>2 DEF Abstract!Offer, Contents
<1>2. ASSUME NEW p \in Producers, PublishHead(p)
      PROVE  Abstract!Put(p)
  <2>1. Want[p] = parg[p] /\ parg[p] # None /\ Want' = [Want EXCEPT ![p] = None]
    BY <1>0, <1>2, ValuesAssumption DEF PublishHead, ProducerInv, TypeOK
  <2>2. got' = got
    BY <1>2 DEF PublishHead
  <2>3. QED
    BY <1>2, <2>1, <2>2, PublishAppends, RingSizeType DEF Abstract!Put, Contents
<1>3. ASSUME NEW c \in Consumers, ReleaseTail(c)
      PROVE  Abstract!Get(c)
  <2>1. Want' = Want
    BY <1>3 DEF ReleaseTail
  <2>2. got' = [got EXCEPT ![c] = cval[c]]
    BY <1>3 DEF ReleaseTail
  <2>3. QED
    BY <1>3, <2>1, <2>2, ReleaseTakesHead DEF Abstract!Get, Contents
<1>4. ASSUME Contents' = Contents, Want' = Want, got' = got
      PROVE  UNCHANGED Abstract!fifoVars
  BY <1>4 DEF Contents
<1>5. ASSUME NEW p \in Producers, SpinUntilRoom(p)
      PROVE  UNCHANGED Abstract!fifoVars
  <2>1. Want' = Want
    BY <1>0, <1>5 DEF SpinUntilRoom, TypeOK
  <2>2. Contents' = Contents /\ got' = got
    BY <1>5 DEF SpinUntilRoom, Contents, Used, Slot
  <2>3. QED
    BY <1>4, <2>1, <2>2
<1>6. ASSUME NEW p \in Producers, Construct(p)
      PROVE  UNCHANGED Abstract!fifoVars
  <2>1. Want' = Want
    BY <1>0, <1>6 DEF Construct, TypeOK
  <2>2. \A k \in 1 .. Used : Slot(k) # head
    BY <1>0, RingSizeType DEF Used, Slot, Slots, TypeOK
  <2>3. Contents' = Contents /\ got' = got
    BY <1>0, <1>6, <2>2, ContentsType
    DEF Construct, Contents, Used, Slot, TypeOK, ProducerInv
  <2>4. QED
    BY <1>4, <2>1, <2>3
<1>7. ASSUME UNCHANGED <<head, tail, buf, ppc, parg, got>>
      PROVE  UNCHANGED Abstract!fifoVars
  <2>1. Want' = Want
    BY <1>7
  <2>2. Contents' = Contents /\ got' = got
    BY <1>7 DEF Contents, Used, Slot
  <2>3. QED
    BY <1>4, <2>1, <2>2
<1>8. ASSUME NEW c \in Consumers,
             \/ \E o \in {"once", "stuck"} : Call(c, o)
             \/ LoadTail(c, "front", "compare")
             \/ CompareHead(c)
             \/ LoadTail(c, "again", "deref")
             \/ Deref(c)
             \/ LoadTail(c, "pop", "destroy")
             \/ Destroy(c)
      PROVE  UNCHANGED Abstract!fifoVars
  BY <1>7, <1>8 DEF Call, LoadTail, CompareHead, Deref, Destroy
<1>9. CASE UNCHANGED vars
  BY <1>7, <1>9 DEF vars
<1>10. QED
  BY <1>1, <1>2, <1>3, <1>5, <1>6, <1>8, <1>9
  DEF Next, PushStep, ReadStep, Abstract!FifoNext

(* With one thread at each end the ring buffer of chan.h implements the    *)
(* bounded FIFO with room for max(cap, 3) values, for every capacity.      *)
THEOREM Refinement ==
    ASSUME SingleProducer, SingleConsumer
    PROVE  Spec => ImplementsFifo
<1>1. Init => Abstract!FifoInit
  <2> SUFFICES ASSUME Init PROVE Abstract!FifoInit
    OBVIOUS
  <2>1. Used = 0
    BY DEF Init, Used
  <2>2. [k \in 1 .. Used |-> buf[Slot(k)]] = << >>
    BY <2>1
  <2>3. [p \in Producers |-> IF ppc[p] = "idle" THEN None ELSE parg[p]]
            = [p \in Producers |-> None]
    BY DEF Init
  <2>4. QED
    BY <2>2, <2>3 DEF Init, Abstract!FifoInit
<1>2. IInv /\ [Next]_vars => [Abstract!FifoNext]_(Abstract!fifoVars)
  BY StepSimulation
<1>3. QED
  BY <1>1, <1>2, Initially, Inductive, PTL
  DEF Spec, ImplementsFifo, Abstract!FifoSpec

-----------------------------------------------------------------------------
(* What is accepted is held                                                *)

(* The window, told by positions or by slots.                              *)
WindowIsSlots ==
    Window \subseteq Slots /\ \A i \in Slots : i \in Window <=> InWindow(i)

(* Both ways of telling it agree.                                          *)
LEMMA WindowSlots == TypeOK => WindowIsSlots
<1> SUFFICES ASSUME TypeOK PROVE WindowIsSlots
  OBVIOUS
<1> USE RingSizeType DEF TypeOK, Slots
<1>1. \A k \in 1 .. Used : Slot(k) \in Slots /\ InWindow(Slot(k))
  BY UsedType DEF Slot, Used, InWindow
<1>2. ASSUME NEW i \in Slots, InWindow(i) PROVE i \in Window
  <2>1. CASE tail <= i
    <3>1. i - tail + 1 \in 1 .. Used /\ Slot(i - tail + 1) = i
      BY <1>2, <2>1 DEF Slot, Used, InWindow
    <3>2. QED
      BY <3>1 DEF Window
  <2>2. CASE i < tail
    <3>1. i - tail + RingSize + 1 \in 1 .. Used
          /\ Slot(i - tail + RingSize + 1) = i
      BY <1>2, <2>2 DEF Slot, Used, InWindow
    <3>2. QED
      BY <3>1 DEF Window
  <2>3. QED
    BY <2>1, <2>2
<1>3. QED
  BY <1>1, <1>2 DEF Window, WindowIsSlots

Held(v) == {i \in Window : buf[i] = v}

(* The slots that hold a value can be counted.                             *)
LEMMA HeldFinite ==
    ASSUME TypeOK, NEW v
    PROVE  IsFiniteSet(Held(v)) /\ Cardinality(Held(v)) \in Nat
<1>1. Held(v) \subseteq Slots
  BY WindowSlots DEF Held, WindowIsSlots
<1>2. IsFiniteSet(Slots)
  BY RingSizeType, FS_Interval DEF Slots
<1>3. QED
  BY <1>1, <1>2, FS_Subset, FS_CardinalityType

(* The count of a value goes up with the store of head_ that publishes it  *)
(* and down with the store of tail_ that gives its slot back; no other     *)
(* step changes a slot of the window.                                      *)
LEMMA HeldStep ==
    ASSUME SingleProducer, SingleConsumer
    PROVE  IInv /\ AcceptedIsHeld /\ [Next]_vars => AcceptedIsHeld'
<1> SUFFICES ASSUME IInv, TypeOK', AcceptedIsHeld, [Next]_vars
             PROVE  AcceptedIsHeld'
  BY TypeStep DEF IInv
<1> USE DEF producerVars, consumerVars
<1>0. TypeOK /\ head \in Slots /\ tail \in Slots
  BY DEF IInv, TypeOK
<1>1. ASSUME UNCHANGED <<head, tail, buf, owed>> PROVE AcceptedIsHeld'
  BY <1>1 DEF AcceptedIsHeld, Window, Used, Slot
<1>2. ASSUME NEW p \in Producers, Construct(p) PROVE AcceptedIsHeld'
  <2>1. phead[p] = head
    BY <1>2 DEF Construct, IInv, ProducerInv
  <2>2. Window' = Window /\ owed' = owed
    BY <1>2 DEF Construct, Window, Used, Slot
  <2>3. head \notin Window
    BY <1>0, WindowSlots, RingSizeType DEF InWindow, Slots, WindowIsSlots
  <2>4. \A i \in Window : buf'[i] = buf[i]
    BY <1>0, <1>2, <2>1, <2>3, WindowSlots DEF Construct, TypeOK, WindowIsSlots
  <2>5. \A v : {i \in Window' : buf'[i] = v} = {i \in Window : buf[i] = v}
    BY <2>2, <2>4
  <2>6. QED
    BY <2>2, <2>5 DEF AcceptedIsHeld
<1>3. ASSUME NEW p \in Producers, PublishHead(p) PROVE AcceptedIsHeld'
  <2>1. /\ head' = Succ(head) /\ Succ(head) # tail /\ buf[head] = parg[p]
        /\ tail' = tail /\ buf' = buf /\ parg[p] \in Values
        /\ owed' = [owed EXCEPT ![parg[p]] = @ + 1]
    BY <1>3 DEF PublishHead, IInv, ProducerInv
  <2>2. \A i \in Slots : InWindow(i)' <=> InWindow(i) \/ i = head
    BY <1>0, <2>1, RingSizeType DEF InWindow, Succ, Slots
  <2>3. Window' = Window \cup {head} /\ head \notin Window
    <3>1. WindowIsSlots'
      BY WindowSlots, PTL
    <3>2. head \notin Window
      BY <1>0, WindowSlots, RingSizeType DEF InWindow, Slots, WindowIsSlots
    <3>3. QED
      BY <1>0, <2>2, <3>1, <3>2, WindowSlots DEF WindowIsSlots
  <2>4. ASSUME NEW v \in Values PROVE owed'[v] = Cardinality(Held(v)')
    <3>1. owed[v] = Cardinality(Held(v))
      BY DEF AcceptedIsHeld, Held
    <3>2. CASE v = parg[p]
      <4>1. Held(v)' = Held(v) \cup {head} /\ head \notin Held(v)
        BY <2>1, <2>3, <3>2 DEF Held
      <4>2. owed'[v] = owed[v] + 1
        BY <1>0, <2>1, <3>2 DEF TypeOK
      <4>3. QED
        BY <1>0, <3>1, <4>1, <4>2, HeldFinite, FS_AddElement
    <3>3. CASE v # parg[p]
      <4>1. Held(v)' = Held(v)
        BY <2>1, <2>3, <3>3 DEF Held
      <4>2. owed'[v] = owed[v]
        BY <1>0, <2>1, <3>3 DEF TypeOK
      <4>3. QED
        BY <3>1, <4>1, <4>2
    <3>4. QED
      BY <3>2, <3>3
  <2>5. QED
    BY <2>4 DEF AcceptedIsHeld, Held
<1>4. ASSUME NEW c \in Consumers, ReleaseTail(c) PROVE AcceptedIsHeld'
  <2>1. /\ tail' = Succ(tail) /\ head # tail /\ cval[c] = buf[tail]
        /\ head' = head /\ buf' = buf
        /\ owed' = [owed EXCEPT ![cval[c]] = @ - 1]
    BY <1>4 DEF ReleaseTail, IInv, ConsumerInv
  <2>2. \A i \in Slots : InWindow(i)' <=> InWindow(i) /\ i # tail
    BY <1>0, <2>1, RingSizeType DEF InWindow, Succ, Slots
  <2>3. Window' = Window \ {tail} /\ tail \in Window
    <3>1. WindowIsSlots'
      BY WindowSlots, PTL
    <3>2. tail \in Window
      BY <1>0, <2>1, WindowSlots, RingSizeType DEF InWindow, Slots, WindowIsSlots
    <3>3. QED
      BY <1>0, <2>2, <3>1, <3>2, WindowSlots DEF WindowIsSlots
  <2>4. ASSUME NEW v \in Values PROVE owed'[v] = Cardinality(Held(v)')
    <3>1. owed[v] = Cardinality(Held(v))
      BY DEF AcceptedIsHeld, Held
    <3>2. CASE v = cval[c]
      <4>1. Held(v)' = Held(v) \ {tail} /\ tail \in Held(v)
        BY <2>1, <2>3, <3>2 DEF Held
      <4>2. owed'[v] = owed[v] - 1
        BY <1>0, <2>1, <3>2 DEF TypeOK
      <4>3. QED
        BY ZenonT(30), <1>0, <3>1, <4>1, <4>2, HeldFinite, FS_RemoveElement
    <3>3. CASE v # cval[c]
      <4>1. Held(v)' = Held(v)
        BY <2>1, <2>3, <3>3 DEF Held
      <4>2. owed'[v] = owed[v]
        BY <1>0, <2>1, <3>3 DEF TypeOK
      <4>3. QED
        BY <3>1, <4>1, <4>2
    <3>4. QED
      BY <3>2, <3>3
  <2>5. QED
    BY <2>4 DEF AcceptedIsHeld, Held
<1>5. ASSUME NEW p \in Producers, NEW v \in Values, LoadHead(p, v)
      PROVE  AcceptedIsHeld'
  BY <1>1, <1>5 DEF LoadHead
<1>6. ASSUME NEW p \in Producers, SpinUntilRoom(p) PROVE AcceptedIsHeld'
  BY <1>1, <1>6 DEF SpinUntilRoom
<1>7. ASSUME NEW c \in Consumers, NEW o \in {"once", "stuck"}, Call(c, o)
      PROVE  AcceptedIsHeld'
  BY <1>1, <1>7 DEF Call
<1>8. ASSUME NEW c \in Consumers, NEW at \in ConsumerPcs,
             NEW next \in ConsumerPcs, LoadTail(c, at, next)
      PROVE  AcceptedIsHeld'
  BY <1>1, <1>8 DEF LoadTail
<1>9. ASSUME NEW c \in Consumers, CompareHead(c) \/ Deref(c) \/ Destroy(c)
      PROVE  AcceptedIsHeld'
  BY <1>1, <1>9 DEF CompareHead, Deref, Destroy
<1>10. CASE UNCHANGED vars
  BY <1>1, <1>10 DEF vars
<1>11. QED
  BY <1>2, <1>3, <1>4, <1>5, <1>6, <1>7, <1>8, <1>9, <1>10
  DEF Next, PushStep, ReadStep, ConsumerPcs

(* With one thread at each end, what write() accepted and no read has      *)
(* returned is in the ring, as often as it was accepted: nothing is lost,  *)
(* overwritten or delivered twice.                                         *)
THEOREM NothingLost ==
    ASSUME SingleProducer, SingleConsumer
    PROVE  Spec => []AcceptedIsHeld
<1>1. Init => AcceptedIsHeld
  <2> SUFFICES ASSUME Init PROVE AcceptedIsHeld
    OBVIOUS
  <2>1. Used = 0
    BY DEF Init, Used
  <2>2. \A v : {i \in Window : buf[i] = v} = {}
    BY <2>1 DEF Window
  <2>3. QED
    BY <2>2, FS_EmptySet DEF Init, AcceptedIsHeld
<1>2. QED
  BY <1>1, Initially, Inductive, HeldStep, PTL DEF Spec

=============================================================================
