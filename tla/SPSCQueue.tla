------------------------------ MODULE SPSCQueue ------------------------------
(***************************************************************************)
(* The lock-free ring buffer of file_compare/diff/chan.h and the two       *)
(* channel classes built on it, msg_chan_t and task_chan_t.                *)
(*                                                                         *)
(* One action per load or store of an atomic index and per access to a     *)
(* slot, so that every interleaving of the two ends is explored.  The      *)
(* class is written for one producer and one consumer; the sets Producers  *)
(* and Consumers let the same model also answer what happens when          *)
(* dc_compare_t calls write() from several handler threads or read_once()  *)
(* from several.                                                           *)
(***************************************************************************)
EXTENDS Integers, FiniteSets

CONSTANTS Producers, Consumers, Values, None,
          Cap             \* the constructor's argument

ASSUME CapAssumption == Cap \in Nat
ASSUME ValuesAssumption == None \notin Values

VARIABLES
    head,                 \* head_: the slot the producer fills next
    tail,                 \* tail_: the slot the consumer empties next
    buf,                  \* buf_: the slots; a slot never written holds None
    live,                 \* ghost: slots whose T is constructed, not destroyed
    owed,                 \* ghost: owed[v] = pushes of v returned - reads of v
    ppc, phead, parg,     \* producers: program counter, local head, argument
    cpc, ctail, cval,     \* consumers: program counter, local tail, local v
    op,                   \* consumers: read_once or read_stuck
    got                   \* consumers: the value of the last successful read

producerVars == <<ppc, phead, parg>>
consumerVars == <<cpc, ctail, cval, op, got>>
vars == <<head, tail, buf, live, owed, producerVars, consumerVars>>

-----------------------------------------------------------------------------
(* cap_: one slot always stays empty, and there are never fewer than 4.    *)
RingSize == IF Cap + 1 > 4 THEN Cap + 1 ELSE 4
Slots == 0 .. RingSize - 1

(* Mutant: the index does not wrap.                                        *)
SuccUnwrapped(i) == i + 1

Succ(i) == IF i + 1 = RingSize THEN 0 ELSE i + 1

ProducerPcs == {"idle", "spin", "construct", "publish"}
ConsumerPcs == {"idle", "front", "compare", "again", "deref", "pop",
                "destroy", "release", "crash"}

Init ==
    /\ head = 0
    /\ tail = 0
    /\ buf = [i \in Slots |-> None]
    /\ live = {}
    /\ owed = [v \in Values |-> 0]
    /\ ppc = [p \in Producers |-> "idle"]
    /\ phead = [p \in Producers |-> 0]
    /\ parg = [p \in Producers |-> None]
    /\ cpc = [c \in Consumers |-> "idle"]
    /\ ctail = [c \in Consumers |-> 0]
    /\ cval = [c \in Consumers |-> None]
    /\ op = [c \in Consumers |-> "once"]
    /\ got = [c \in Consumers |-> None]

-----------------------------------------------------------------------------
(* push                                                                    *)

LoadHead(p, v) ==
    /\ ppc[p] = "idle"
    /\ ppc' = [ppc EXCEPT ![p] = "spin"]
    /\ phead' = [phead EXCEPT ![p] = head]
    /\ parg' = [parg EXCEPT ![p] = v]
    /\ UNCHANGED <<head, tail, buf, live, owed, consumerVars>>

(* Mutant: push() does not wait for room.                                  *)
SpinNever(p) ==
    /\ ppc[p] = "spin"
    /\ ppc' = [ppc EXCEPT ![p] = "construct"]
    /\ UNCHANGED <<head, tail, buf, live, owed, phead, parg, consumerVars>>

(* Mutant: head_ is stored before the slot is constructed.                 *)
SpinAndPublish(p) ==
    /\ ppc[p] = "spin"
    /\ Succ(phead[p]) # tail
    /\ ppc' = [ppc EXCEPT ![p] = "construct"]
    /\ head' = Succ(phead[p])
    /\ UNCHANGED <<tail, buf, live, owed, phead, parg, consumerVars>>

(* The spin loop; a turn of the loop that finds the ring full changes      *)
(* nothing.                                                                *)
SpinUntilRoom(p) ==
    /\ ppc[p] = "spin"
    /\ Succ(phead[p]) # tail
    /\ ppc' = [ppc EXCEPT ![p] = "construct"]
    /\ UNCHANGED <<head, tail, buf, live, owed, phead, parg, consumerVars>>

Construct(p) ==
    /\ ppc[p] = "construct"
    /\ ppc' = [ppc EXCEPT ![p] = "publish"]
    /\ buf' = [buf EXCEPT ![phead[p]] = parg[p]]
    /\ live' = live \cup {phead[p]}
    /\ UNCHANGED <<head, tail, owed, phead, parg, consumerVars>>

PublishHead(p) ==
    /\ ppc[p] = "publish"
    /\ ppc' = [ppc EXCEPT ![p] = "idle"]
    /\ head' = Succ(phead[p])
    /\ owed' = [owed EXCEPT ![parg[p]] = @ + 1]
    /\ UNCHANGED <<tail, buf, live, phead, parg, consumerVars>>

-----------------------------------------------------------------------------
(* read_once and read_stuck: front(), a second front() that is             *)
(* dereferenced, and pop()                                                 *)

Call(c, o) ==
    /\ cpc[c] = "idle"
    /\ cpc' = [cpc EXCEPT ![c] = "front"]
    /\ op' = [op EXCEPT ![c] = o]
    /\ UNCHANGED <<head, tail, buf, live, owed, producerVars, ctail, cval, got>>

(* The relaxed load of tail_ with which front() and pop() begin.           *)
LoadTail(c, at, next) ==
    /\ cpc[c] = at
    /\ cpc' = [cpc EXCEPT ![c] = next]
    /\ ctail' = [ctail EXCEPT ![c] = tail]
    /\ UNCHANGED <<head, tail, buf, live, owed, producerVars, cval, op, got>>

(* Mutant: front() takes a full ring for an empty one.                     *)
CompareFullAsEmpty(c) ==
    /\ cpc[c] = "compare"
    /\ cpc' = [cpc EXCEPT ![c] = IF head # ctail[c] /\ Succ(head) # ctail[c]
                                 THEN "again"
                                 ELSE IF op[c] = "once" THEN "idle"
                                 ELSE "front"]
    /\ UNCHANGED <<head, tail, buf, live, owed, producerVars, ctail, cval, op, got>>

(* Mutant: front() does not see the last element.                          *)
CompareLast(c) ==
    /\ cpc[c] = "compare"
    /\ cpc' = [cpc EXCEPT ![c] = IF head # ctail[c] /\ head # Succ(ctail[c])
                                 THEN "again"
                                 ELSE IF op[c] = "once" THEN "idle"
                                 ELSE "front"]
    /\ UNCHANGED <<head, tail, buf, live, owed, producerVars, ctail, cval, op, got>>

(* The first front(): on an empty ring read_once returns false and         *)
(* read_stuck asks again.                                                  *)
CompareHead(c) ==
    /\ cpc[c] = "compare"
    /\ cpc' = [cpc EXCEPT ![c] = IF head # ctail[c] THEN "again"
                                 ELSE IF op[c] = "once" THEN "idle"
                                 ELSE "front"]
    /\ UNCHANGED <<head, tail, buf, live, owed, producerVars, ctail, cval, op, got>>

(* The second front() is dereferenced without a test for nullptr.          *)
Deref(c) ==
    /\ cpc[c] = "deref"
    /\ IF head = ctail[c]
       THEN /\ cpc' = [cpc EXCEPT ![c] = "crash"]
            /\ UNCHANGED cval
       ELSE /\ cpc' = [cpc EXCEPT ![c] = "pop"]
            /\ cval' = [cval EXCEPT ![c] = buf[ctail[c]]]
    /\ UNCHANGED <<head, tail, buf, live, owed, producerVars, ctail, op, got>>

Destroy(c) ==
    /\ cpc[c] = "destroy"
    /\ cpc' = [cpc EXCEPT ![c] = "release"]
    /\ live' = live \ {ctail[c]}
    /\ UNCHANGED <<head, tail, buf, owed, producerVars, ctail, cval, op, got>>

ReleaseTail(c) ==
    /\ cpc[c] = "release"
    /\ cpc' = [cpc EXCEPT ![c] = "idle"]
    /\ tail' = Succ(ctail[c])
    /\ got' = [got EXCEPT ![c] = cval[c]]
    /\ owed' = [owed EXCEPT ![cval[c]] = @ - 1]
    /\ UNCHANGED <<head, buf, live, producerVars, ctail, cval, op>>

-----------------------------------------------------------------------------
PushStep(p) == SpinUntilRoom(p) \/ Construct(p) \/ PublishHead(p)

ReadStep(c) ==
    \/ LoadTail(c, "front", "compare")
    \/ CompareHead(c)
    \/ LoadTail(c, "again", "deref")
    \/ Deref(c)
    \/ LoadTail(c, "pop", "destroy")
    \/ Destroy(c)
    \/ ReleaseTail(c)

Next ==
    \/ \E p \in Producers : PushStep(p) \/ \E v \in Values : LoadHead(p, v)
    \/ \E c \in Consumers : ReadStep(c) \/ \E o \in {"once", "stuck"} : Call(c, o)

Spec == Init /\ [][Next]_vars

(* A thread inside push() or inside a read keeps running.  Nobody is       *)
(* obliged to call: out_q_ is read when a client sends a GET, and task_q_  *)
(* when its worker is not itself waiting in a push.                        *)
Fairness ==
    /\ \A p \in Producers : WF_vars(PushStep(p))
    /\ \A c \in Consumers : WF_vars(ReadStep(c))

FairSpec == Spec /\ Fairness

-----------------------------------------------------------------------------
(* Properties                                                              *)

(* Every variable stays in its range.                                      *)
TypeOK ==
    /\ head \in Slots
    /\ tail \in Slots
    /\ buf \in [Slots -> Values \cup {None}]
    /\ live \in SUBSET Slots
    /\ owed \in [Values -> Int]
    /\ ppc \in [Producers -> ProducerPcs]
    /\ phead \in [Producers -> Slots]
    /\ parg \in [Producers -> Values \cup {None}]
    /\ cpc \in [Consumers -> ConsumerPcs]
    /\ ctail \in [Consumers -> Slots]
    /\ cval \in [Consumers -> Values \cup {None}]
    /\ op \in [Consumers -> {"once", "stuck"}]
    /\ got \in [Consumers -> Values \cup {None}]

(* The window [tail, head) of the comment in push().                       *)
Used == IF head >= tail THEN head - tail ELSE head - tail + RingSize
Slot(k) == IF tail + k - 1 < RingSize THEN tail + k - 1
                                      ELSE tail + k - 1 - RingSize
Window == {Slot(k) : k \in 1 .. Used}

(* The unsynchronised accesses to the slots are safe: push() never         *)
(* constructs over an object the consumer has not destroyed, the reader    *)
(* never dereferences nullptr, and it only reads and destroys objects that *)
(* are constructed (push 40, read_once 86-88, pop 59).                     *)
SlotLifetimes ==
    /\ \A p \in Producers : ppc[p] = "construct" => phead[p] \notin live
    /\ \A c \in Consumers :
           /\ cpc[c] # "crash"
           /\ cpc[c] \in {"deref", "pop", "destroy"} => ctail[c] \in live

(* What write() accepted is exactly what the ring holds: a value whose     *)
(* push has returned and that no read has returned is in the window as     *)
(* many times as it was accepted.                                          *)
AcceptedIsHeld ==
    \A v \in Values : owed[v] = Cardinality({i \in Window : buf[i] = v})

(* The ring implements the bounded FIFO, with room for max(cap, 3) values: *)
(* the stores of head_ and tail_ are the points where a value enters and   *)
(* leaves.                                                                 *)
Abstract == INSTANCE Fifo WITH
    queue <- [k \in 1 .. Used |-> buf[Slot(k)]],
    want  <- [p \in Producers |-> IF ppc[p] = "idle" THEN None ELSE parg[p]],
    Room  <- IF Cap > 3 THEN Cap ELSE 3

ImplementsFifo == Abstract!FifoSpec

(* Nobody is reading and nobody ever will.                                 *)
Abandoned == [](\A c \in Consumers : cpc[c] = "idle")

(* push() returns, unless the ring is full and nobody reads it any more:   *)
(* the spin loop never misses room that a reader has made, however the     *)
(* reads are spaced.                                                       *)
PushReturns ==
    \A p \in Producers :
        ppc[p] # "idle"
            ~> ppc[p] = "idle" \/ (Abandoned /\ [](Succ(phead[p]) = tail))

(* An object in the ring is eventually read and destroyed, unless the      *)
(* readers stop calling: no call that finds an object fails to make        *)
(* progress, and none is passed over for ever.                             *)
SlotDrained == \A i \in Slots : i \in live ~> i \notin live \/ Abandoned
=============================================================================
