-------------------------------- MODULE Fifo --------------------------------
(***************************************************************************)
(* What a channel of file_compare promises its two ends: a bounded         *)
(* first-in first-out queue.  A producer that calls write() offers one     *)
(* value and is blocked until the queue takes it; a reader receives the    *)
(* oldest value.  Module SPSCQueue shows that the ring buffer of           *)
(* diff/chan.h implements this specification.                              *)
(***************************************************************************)
EXTENDS Naturals, Sequences

CONSTANTS Producers,  \* threads that write
          Consumers,  \* threads that read
          Values,     \* what is transported (an int or a task pointer)
          None,       \* no value
          Room        \* how many values fit

VARIABLES queue,      \* the values taken and not yet read, oldest first
          want,       \* want[p]: the value p is blocked on, or None
          got         \* got[c]: the last value c received, or None

fifoVars == <<queue, want, got>>

FifoInit ==
    /\ queue = << >>
    /\ want = [p \in Producers |-> None]
    /\ got = [c \in Consumers |-> None]

Offer(p, v) ==
    /\ want[p] = None
    /\ want' = [want EXCEPT ![p] = v]
    /\ UNCHANGED <<queue, got>>

Put(p) ==
    /\ want[p] # None
    /\ Len(queue) < Room
    /\ queue' = Append(queue, want[p])
    /\ want' = [want EXCEPT ![p] = None]
    /\ UNCHANGED got

Get(c) ==
    /\ queue # << >>
    /\ got' = [got EXCEPT ![c] = Head(queue)]
    /\ queue' = Tail(queue)
    /\ UNCHANGED want

FifoNext ==
    \/ \E p \in Producers : Put(p) \/ \E v \in Values : Offer(p, v)
    \/ \E c \in Consumers : Get(c)

FifoSpec == FifoInit /\ [][FifoNext]_fifoVars
=============================================================================
