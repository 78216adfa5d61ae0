------------------------ MODULE CompareServiceProof ------------------------
(***************************************************************************)
(* Proofs about the task pipeline of the compare server, for any capacity  *)
(* of the queues, any uuids and any number of tasks, under the assumptions *)
(* OnePoster and OneGetter: only with one writer and one reader are the    *)
(* channels the FIFOs the model uses (theorem Refinement of module         *)
(* SPSCQueueProof; the run spsc_two_producers shows the loss with two).    *)
(***************************************************************************)
EXTENDS CompareService, SequenceTheorems, TLAPS

(* A handler that has accepted a request knows its uuid.                   *)
UuidsKnown == \A h \in Handlers : hpc[h] # "idle" => huuid[h] \in Uuids

(* No two accepted tasks are the same object.                              *)
AddedDistinct ==
    /\ \A i \in 1 .. Len(added) : added[i].id \in 1 .. count
    /\ \A i, j \in 1 .. Len(added) : added[i].id = added[j].id => i = j

(* A task in a handler's hands was allocated, is not yet accepted, and is  *)
(* in no other handler's hands.                                            *)
HeldApart ==
    \A h \in Handlers :
        hpc[h] = "add" =>
            /\ htask[h].id \in 1 .. count
            /\ htask[h].id \in heap
            /\ \A i \in 1 .. Len(added) : added[i].id # htask[h].id
            /\ \A g \in Handlers \ {h} :
                   hpc[g] = "add" => htask[g].id # htask[h].id

(* An accepted task is allocated exactly until it is fetched.              *)
FreedWhenFetched ==
    \A i \in 1 .. Len(added) : added[i].id \in heap <=> i > Len(fetched)

IInv ==
    /\ TypeOK
    /\ UuidsKnown
    /\ Pipeline
    /\ AddedDistinct
    /\ HeldApart
    /\ FreedWhenFetched

-----------------------------------------------------------------------------
(* Sequences                                                               *)

(* Appending adds one element at the end.                                  *)
LEMMA AppendSeq ==
    ASSUME NEW S, NEW s \in Seq(S), NEW e \in S
    PROVE  /\ Append(s, e) \in Seq(S)
           /\ Len(Append(s, e)) = Len(s) + 1
           /\ \A j \in 1 .. Len(s) : Append(s, e)[j] = s[j]
           /\ Append(s, e)[Len(s) + 1] = e
  OBVIOUS

(* Append commutes with concatenation on its left.                         *)
LEMMA ConcatAppend ==
    ASSUME NEW S, NEW s \in Seq(S), NEW t \in Seq(S), NEW e \in S
    PROVE  s \o Append(t, e) = Append(s \o t, e)
<1>1. <<e>> \in Seq(S)
  OBVIOUS
<1>2. s \o (t \o <<e>>) = (s \o t) \o <<e>>
  BY <1>1, ConcatAssociative
<1>3. s \o t \in Seq(S)
  BY ConcatProperties
<1>4. QED
  BY <1>2, <1>3, AppendIsConcat

(* Moving the head of a sequence to the end of the one before it changes   *)
(* nothing of the whole.                                                   *)
LEMMA ConcatMove ==
    ASSUME NEW S, NEW s \in Seq(S), NEW t \in Seq(S), t # << >>
    PROVE  /\ Append(s, Head(t)) \o Tail(t) = s \o t
           /\ Head(t) \in S /\ Tail(t) \in Seq(S)
           /\ Len(Tail(t)) = Len(t) - 1
<1>1. /\ Head(t) \in S /\ Tail(t) \in Seq(S)
      /\ Len(Tail(t)) = Len(t) - 1
  OBVIOUS
<1>2. t = <<Head(t)>> \o Tail(t)
  OBVIOUS
<1>3. (s \o <<Head(t)>>) \o Tail(t) = s \o (<<Head(t)>> \o Tail(t))
  BY <1>1, ConcatAssociative
<1>4. QED
  BY <1>1, <1>2, <1>3, AppendIsConcat

-----------------------------------------------------------------------------
(* The initial states.                                                     *)
LEMMA Initially == Init => IInv
<1> SUFFICES ASSUME Init PROVE IInv
  OBVIOUS
<1>1. TypeOK
  <2>1. << >> \in Seq(Task) /\ Len(<< >>) = 0
    OBVIOUS
  <2>2. NoTask \in Task
    BY MaxTasksAssumption DEF NoTask, Task
  <2>3. /\ taskQ \in Seq(Task) /\ outQ \in Seq(Task)
        /\ added \in Seq(Task) /\ fetched \in Seq(Task)
        /\ Len(taskQ) <= Room /\ Len(outQ) <= Room
    BY <2>1, RoomAssumption DEF Init
  <2>4. htask \in [Handlers -> Task] /\ wtask \in Task
    BY <2>2 DEF Init
  <2>5. exit \in BOOLEAN /\ serving \in BOOLEAN /\ left \in BOOLEAN
    BY DEF Init
  <2>6. /\ hpc \in [Handlers -> {"idle", "add", "insert", "inserting", "get",
                                 "erase", "erasing"}]
        /\ huuid \in [Handlers -> Uuids \cup {"none"}]
        /\ hset \in [Handlers -> SUBSET Uuids]
    BY DEF Init
  <2>7. /\ uuids \subseteq Uuids
        /\ count \in 0 .. MaxTasks
        /\ heap \subseteq 1 .. MaxTasks
        /\ wpc \in {"loop", "read", "run", "write", "done", "panic",
                   "abort"}
    BY MaxTasksAssumption DEF Init
  <2>8. QED
    BY <2>3, <2>4, <2>5, <2>6, <2>7 DEF TypeOK
<1>2. Pipeline
  BY DEF Init, Pipeline, InWorker
<1>3. QED
  BY <1>1, <1>2 DEF Init, IInv, UuidsKnown, AddedDistinct, HeldApart,
                    FreedWhenFetched

(* What add does to the queue and the ghosts.                              *)
LEMMA AddSeqs ==
    ASSUME TypeOK, NEW h \in Handlers, add(h)
    PROVE  /\ htask[h] \in Task
           /\ taskQ' \in Seq(Task) /\ Len(taskQ') = Len(taskQ) + 1
           /\ added' \in Seq(Task) /\ Len(added') = Len(added) + 1
           /\ \A i \in 1 .. Len(added) : added'[i] = added[i]
           /\ added'[Len(added) + 1] = htask[h]
<1>1. htask[h] \in Task /\ taskQ \in Seq(Task) /\ added \in Seq(Task)
  BY DEF TypeOK
<1>2. taskQ' = Append(taskQ, htask[h]) /\ added' = Append(added, htask[h])
  BY DEF add
<1>3. QED
  BY <1>1, <1>2, AppendSeq

(* What a successful get does to the queue and the ghost.                  *)
LEMMA GetSeqs ==
    ASSUME TypeOK, NEW h \in Handlers, GetResult(h), outQ # << >>
    PROVE  /\ Head(outQ) \in Task /\ outQ' = Tail(outQ)
           /\ outQ' \in Seq(Task) /\ Len(outQ') = Len(outQ) - 1
           /\ fetched' = Append(fetched, Head(outQ))
           /\ fetched' \in Seq(Task) /\ Len(fetched') = Len(fetched) + 1
<1>1. outQ \in Seq(Task) /\ fetched \in Seq(Task)
  BY DEF TypeOK
<1>2. Head(outQ) \in Task /\ Tail(outQ) \in Seq(Task)
      /\ Len(Tail(outQ)) = Len(outQ) - 1
  BY <1>1
<1>3. outQ' = Tail(outQ) /\ fetched' = Append(fetched, Head(outQ))
  BY DEF GetResult
<1>4. fetched' \in Seq(Task) /\ Len(fetched') = Len(fetched) + 1
  BY <1>1, <1>2, <1>3, AppendSeq
<1>5. QED
  BY <1>2, <1>3, <1>4

(* No step leaves the types.                                               *)
LEMMA TypeStep == TypeOK /\ UuidsKnown /\ [Next]_vars => TypeOK' /\ UuidsKnown'
<1> SUFFICES ASSUME TypeOK, UuidsKnown, [Next]_vars
             PROVE  TypeOK' /\ UuidsKnown'
  OBVIOUS
<1> USE MaxTasksAssumption, RoomAssumption
    DEF TypeOK, UuidsKnown, queues, handlerVars, workerVars
<1>1. ASSUME NEW h \in Handlers, PostRefused(h) PROVE TypeOK' /\ UuidsKnown'
  BY <1>1 DEF PostRefused
<1>2. ASSUME NEW h \in Handlers, NEW u \in Uuids, PostBuild(h, u)
      PROVE  TypeOK' /\ UuidsKnown'
  <2>1. count' \in 0 .. MaxTasks /\ count + 1 \in 1 .. MaxTasks
    BY <1>2 DEF PostBuild
  <2>2. [id |-> count + 1, uuid |-> u] \in Task
    BY <2>1 DEF Task
  <2>3. htask' \in [Handlers -> Task]
    BY <1>2, <2>2 DEF PostBuild
  <2>4. heap' \subseteq 1 .. MaxTasks
    BY <1>2, <2>1 DEF PostBuild
  <2>5. UNCHANGED <<taskQ, outQ, added, fetched, uuids, wpc, wtask, left, exit,
                    serving>>
    BY <1>2 DEF PostBuild
  <2>6. CASE UNCHANGED <<hpc, huuid, htask, hset>>
    BY <2>1, <2>4, <2>5, <2>6
  <2>7. CASE /\ hpc' = [hpc EXCEPT ![h] = "add"]
             /\ huuid' = [huuid EXCEPT ![h] = u]
             /\ UNCHANGED hset
    BY <2>1, <2>3, <2>4, <2>5, <2>7
  <2>8. QED
    BY <1>2, <2>6, <2>7 DEF PostBuild
<1>3. ASSUME NEW h \in Handlers, add(h) PROVE TypeOK' /\ UuidsKnown'
  <2>1. NoTask \in Task
    BY DEF NoTask, Task
  <2>2. Len(taskQ) \in Nat
    OBVIOUS
  <2>3. Len(taskQ') <= Room
    BY <1>3, <2>2, AddSeqs DEF add
  <2>4. QED
    BY <1>3, <2>1, <2>3, AddSeqs DEF add
<1>4. ASSUME NEW h \in Handlers, NEW u \in Uuids, GetFind(h, u)
      PROVE  TypeOK' /\ UuidsKnown'
  BY ZenonT(30), <1>4 DEF GetFind
<1>5. ASSUME NEW h \in Handlers, GetResult(h) PROVE TypeOK' /\ UuidsKnown'
  <2>1. CASE outQ = << >>
    BY <1>5, <2>1 DEF GetResult, Return
  <2>2. CASE outQ # << >>
    <3>1. Len(outQ) \in Nat
      OBVIOUS
    <3>2. Len(outQ') <= Room
      BY <1>5, <2>2, <3>1, GetSeqs
    <3>3. /\ outQ' \in Seq(Task) /\ fetched' \in Seq(Task)
      BY <1>5, <2>2, GetSeqs
    <3>4. heap' \subseteq heap
      BY <1>5, <2>2 DEF GetResult
    <3>5. hpc' = [hpc EXCEPT ![h] = "erase"] /\ hpc[h] = "get"
          /\ UNCHANGED <<huuid, hset>>
      BY <1>5, <2>2 DEF GetResult
    <3>6. UNCHANGED <<taskQ, added, uuids, count, htask, wpc, wtask, left, exit,
                      serving>>
      BY <1>5 DEF GetResult
    <3>7. QED
      BY <3>2, <3>3, <3>4, <3>5, <3>6
  <2>3. QED
    BY <2>1, <2>2
<1>6. ASSUME NEW h \in Handlers, SetLoad(h) PROVE TypeOK' /\ UuidsKnown'
  BY <1>6 DEF SetLoad
<1>7. ASSUME NEW h \in Handlers, InsertStore(h) PROVE TypeOK' /\ UuidsKnown'
  BY <1>7 DEF InsertStore, Return
<1>8. ASSUME NEW h \in Handlers, EraseStore(h) PROVE TypeOK' /\ UuidsKnown'
  BY <1>8 DEF EraseStore, Return
<1>9. CASE CheckExit
  BY <1>9 DEF CheckExit
<1>10. CASE ReadTask
  <2>1. CASE taskQ = << >>
    BY <1>10, <2>1 DEF ReadTask
  <2>2. CASE taskQ # << >>
    <3>1. /\ Head(taskQ) \in Task /\ Tail(taskQ) \in Seq(Task)
          /\ Len(Tail(taskQ)) = Len(taskQ) - 1 /\ Len(taskQ) \in Nat
      BY <2>2
    <3>2. wtask' = Head(taskQ) /\ taskQ' = Tail(taskQ)
      BY <1>10, <2>2 DEF ReadTask
    <3>3. wpc' = "run"
          /\ UNCHANGED <<outQ, added, fetched, uuids, count, heap, hpc, huuid,
                         htask, hset, left, exit, serving>>
      BY <1>10, <2>2 DEF ReadTask
    <3>4. wtask' \in Task /\ taskQ' \in Seq(Task)
      BY <3>1, <3>2
    <3>5. Len(taskQ') <= Room
      BY <3>1, <3>2
    <3>6. QED
      BY <3>3, <3>4, <3>5
  <2>3. QED
    BY <2>1, <2>2
<1>11. CASE exe_sql_job
  BY <1>11 DEF exe_sql_job
<1>12. CASE WriteResult
  <2>1. Append(outQ, wtask) \in Seq(Task)
        /\ Len(Append(outQ, wtask)) = Len(outQ) + 1 /\ Len(outQ) \in Nat
    BY AppendSeq
  <2>2. NoTask \in Task
    BY DEF NoTask, Task
  <2>3. QED
    BY <1>12, <2>1, <2>2 DEF WriteResult
<1>13. CASE StopServer
  BY <1>13 DEF StopServer
<1>14. CASE Destructor
  BY <1>14 DEF Destructor
<1>15. CASE UNCHANGED vars
  BY <1>15 DEF vars
<1>16. QED
  BY <1>1, <1>2, <1>3, <1>4, <1>5, <1>6, <1>7, <1>8, <1>9, <1>10, <1>11,
     <1>12, <1>13, <1>14, <1>15
  DEF Next, Request, HandlerStep, WorkerStep, WorkerLoop, Handlers

-----------------------------------------------------------------------------
(* The pipeline                                                            *)

(* What the parts of the pipeline are made of.                             *)
LEMMA PartsType ==
    ASSUME TypeOK
    PROVE  /\ InWorker \in Seq(Task) /\ Len(InWorker) \in {0, 1}
           /\ fetched \o outQ \in Seq(Task)
           /\ (fetched \o outQ) \o InWorker \in Seq(Task)
           /\ ((fetched \o outQ) \o InWorker) \o taskQ \in Seq(Task)
<1>1. InWorker \in Seq(Task) /\ Len(InWorker) \in {0, 1}
  BY DEF TypeOK, InWorker
<1>2. fetched \o outQ \in Seq(Task)
  BY ConcatProperties DEF TypeOK
<1>3. (fetched \o outQ) \o InWorker \in Seq(Task)
  BY <1>1, <1>2, ConcatProperties
<1>4. QED
  BY <1>1, <1>2, <1>3, ConcatProperties DEF TypeOK

(* The pipeline depends on nothing but its parts.                          *)
LEMMA PipelineUnchanged ==
    Pipeline /\ UNCHANGED <<added, fetched, outQ, taskQ, InWorker>> => Pipeline'
  BY DEF Pipeline

(* Only add, get and the worker's read and write move tasks; each moves    *)
(* one across a boundary of the pipeline.                                  *)
LEMMA PipelineStep == IInv /\ [Next]_vars => Pipeline'
<1> SUFFICES ASSUME IInv, [Next]_vars PROVE Pipeline'
  OBVIOUS
<1> USE DEF queues, handlerVars, workerVars
<1>0. TypeOK /\ Pipeline
  BY DEF IInv
<1>1. ASSUME NEW h \in Handlers, add(h) PROVE Pipeline'
  <2> DEFINE P == (fetched \o outQ) \o InWorker
  <2>1. P \in Seq(Task) /\ taskQ \in Seq(Task) /\ htask[h] \in Task
    BY <1>0, PartsType DEF TypeOK
  <2>2. P \o Append(taskQ, htask[h]) = Append(P \o taskQ, htask[h])
    BY <2>1, ConcatAppend
  <2>3. UNCHANGED <<fetched, outQ, InWorker>>
    BY <1>1 DEF add, InWorker
  <2>4. QED
    BY <1>0, <1>1, <2>2, <2>3 DEF add, Pipeline
<1>2. ASSUME NEW h \in Handlers, GetResult(h) PROVE Pipeline'
  <2>1. UNCHANGED <<added, taskQ, InWorker>>
    BY <1>2 DEF GetResult, InWorker
  <2>2. CASE outQ = << >>
    BY <1>0, <1>2, <2>1, <2>2, PipelineUnchanged DEF GetResult
  <2>3. CASE outQ # << >>
    <3>1. fetched' \o outQ' = fetched \o outQ
      BY <1>0, <1>2, <2>3, GetSeqs, ConcatMove DEF TypeOK
    <3>2. QED
      BY <1>0, <2>1, <3>1 DEF Pipeline
  <2>4. QED
    BY <2>2, <2>3
<1>3. CASE ReadTask
  <2>1. UNCHANGED <<added, fetched, outQ>>
    BY <1>3 DEF ReadTask
  <2>2. CASE taskQ = << >>
    <3>1. UNCHANGED <<taskQ, InWorker>>
      BY <1>3, <2>2 DEF ReadTask, InWorker
    <3>2. QED
      BY <1>0, <2>1, <3>1, PipelineUnchanged
  <2>3. CASE taskQ # << >>
    <3> DEFINE P == fetched \o outQ
    <3>1. P \in Seq(Task) /\ taskQ \in Seq(Task)
      BY <1>0, PartsType DEF TypeOK
    <3>2. Append(P, Head(taskQ)) \o Tail(taskQ) = P \o taskQ
          /\ Head(taskQ) \in Task
      BY ZenonT(30), <2>3, <3>1, ConcatMove
    <3>3. P \o <<Head(taskQ)>> = Append(P, Head(taskQ)) /\ P \o << >> = P
      BY <3>1, <3>2, AppendIsConcat, ConcatEmptySeq
    <3>4. wpc = "read" /\ wpc' = "run" /\ wtask' = Head(taskQ)
          /\ taskQ' = Tail(taskQ)
      BY <1>3, <2>3 DEF ReadTask
    <3>5. InWorker = << >> /\ InWorker' = <<Head(taskQ)>>
      BY <3>4 DEF InWorker
    <3>6. QED
      BY <1>0, <2>1, <3>2, <3>3, <3>4, <3>5 DEF Pipeline
  <2>4. QED
    BY <2>2, <2>3
<1>4. CASE WriteResult
  <2> DEFINE P == fetched \o outQ
  <2>1. P \in Seq(Task) /\ outQ \in Seq(Task) /\ fetched \in Seq(Task)
        /\ wtask \in Task
    BY <1>0, PartsType DEF TypeOK
  <2>2. fetched \o Append(outQ, wtask) = P \o <<wtask>>
    BY <2>1, ConcatAppend, AppendIsConcat
  <2>3. P \o <<wtask>> \in Seq(Task)
    BY <2>1, ConcatProperties
  <2>4. (P \o <<wtask>>) \o << >> = P \o <<wtask>>
    BY <2>3, ConcatEmptySeq
  <2>5. InWorker = <<wtask>> /\ InWorker' = << >>
    BY <1>4 DEF WriteResult, InWorker
  <2>6. outQ' = Append(outQ, wtask) /\ UNCHANGED <<added, fetched, taskQ>>
    BY <1>4 DEF WriteResult
  <2>7. QED
    BY <1>0, <2>2, <2>4, <2>5, <2>6 DEF Pipeline
<1>5. ASSUME UNCHANGED <<added, fetched, outQ, taskQ>>,
             \/ UNCHANGED <<wpc, wtask>>
             \/ /\ wtask' = wtask /\ wpc = "loop"
                /\ wpc' \in {"read", "done", "panic"}
             \/ /\ wtask' = wtask /\ wpc = "run"
                /\ wpc' \in {"write", "abort"}
      PROVE  Pipeline'
  <2>1. InWorker' = InWorker
    BY <1>5 DEF InWorker
  <2>2. QED
    BY <1>0, <1>5, <2>1, PipelineUnchanged
<1>6. ASSUME NEW h \in Handlers,
             PostRefused(h) \/ SetLoad(h) \/ InsertStore(h) \/ EraseStore(h)
      PROVE  Pipeline'
  BY <1>5, <1>6 DEF PostRefused, SetLoad, InsertStore, EraseStore
<1>7. ASSUME NEW h \in Handlers, NEW u \in Uuids,
             PostBuild(h, u) \/ GetFind(h, u)
      PROVE  Pipeline'
  BY <1>5, <1>7 DEF PostBuild, GetFind
<1>8. CASE CheckExit \/ exe_sql_job \/ StopServer \/ Destructor
           \/ UNCHANGED vars
  BY <1>5, <1>8 DEF CheckExit, exe_sql_job, StopServer, Destructor, vars
<1>9. QED
  BY <1>1, <1>2, <1>3, <1>4, <1>6, <1>7, <1>8
  DEF Next, Request, HandlerStep, WorkerStep, WorkerLoop, Handlers

-----------------------------------------------------------------------------
(* Lifetimes                                                               *)

(* The elements of two sequences, one after the other.                     *)
LEMMA Concat2 ==
    ASSUME NEW S, NEW a \in Seq(S), NEW b \in Seq(S)
    PROVE  /\ Len(a \o b) = Len(a) + Len(b)
           /\ \A j \in 1 .. Len(a) : (a \o b)[j] = a[j]
           /\ \A j \in 1 .. Len(b) : (a \o b)[Len(a) + j] = b[j]
<1>1. Len(a) \in Nat /\ Len(b) \in Nat
  OBVIOUS
<1>2. QED
  BY <1>1, ConcatProperties

(* Three of them.                                                          *)
LEMMA Concat3 ==
    ASSUME NEW S, NEW a \in Seq(S), NEW b \in Seq(S), NEW c \in Seq(S)
    PROVE  /\ Len((a \o b) \o c) = Len(a) + Len(b) + Len(c)
           /\ (a \o b) \o c \in Seq(S)
           /\ \A j \in 1 .. Len(a) : ((a \o b) \o c)[j] = a[j]
           /\ \A j \in 1 .. Len(b) : ((a \o b) \o c)[Len(a) + j] = b[j]
           /\ \A j \in 1 .. Len(c) :
                  ((a \o b) \o c)[Len(a) + Len(b) + j] = c[j]
<1>1. Len(a) \in Nat /\ Len(b) \in Nat /\ Len(c) \in Nat
  OBVIOUS
<1>2. PICK d \in Seq(S) : d = a \o b
  BY ConcatProperties
<1>3. /\ Len(d) = Len(a) + Len(b)
      /\ \A j \in 1 .. Len(a) : d[j] = a[j]
      /\ \A j \in 1 .. Len(b) : d[Len(a) + j] = b[j]
  BY <1>2, Concat2
<1>4. PICK e \in Seq(S) : e = d \o c
  BY ConcatProperties
<1>5. /\ Len(e) = Len(d) + Len(c)
      /\ \A j \in 1 .. Len(d) : e[j] = d[j]
      /\ \A j \in 1 .. Len(c) : e[Len(d) + j] = c[j]
  BY <1>4, Concat2
<1>6. /\ Len(e) = Len(a) + Len(b) + Len(c)
      /\ \A j \in 1 .. Len(a) : e[j] = a[j]
      /\ \A j \in 1 .. Len(b) : e[Len(a) + j] = b[j]
      /\ \A j \in 1 .. Len(c) : e[Len(a) + Len(b) + j] = c[j]
  BY SMTT(30), <1>1, <1>3, <1>5
<1>7. QED
  BY <1>2, <1>4, <1>6

(* Four of them.                                                           *)
LEMMA Concat4 ==
    ASSUME NEW S, NEW a \in Seq(S), NEW b \in Seq(S), NEW c \in Seq(S),
           NEW d \in Seq(S), NEW z, z = ((a \o b) \o c) \o d
    PROVE  /\ Len(z) = Len(a) + Len(b) + Len(c) + Len(d)
           /\ \A j \in 1 .. Len(a) : z[j] = a[j]
           /\ \A j \in 1 .. Len(b) : z[Len(a) + j] = b[j]
           /\ \A j \in 1 .. Len(c) : z[Len(a) + Len(b) + j] = c[j]
           /\ \A j \in 1 .. Len(d) : z[Len(a) + Len(b) + Len(c) + j] = d[j]
<1>1. Len(a) \in Nat /\ Len(b) \in Nat /\ Len(c) \in Nat /\ Len(d) \in Nat
  OBVIOUS
<1>2. PICK e \in Seq(S) : e = (a \o b) \o c
  BY Concat3
<1>3. /\ Len(e) = Len(a) + Len(b) + Len(c)
      /\ \A j \in 1 .. Len(a) : e[j] = a[j]
      /\ \A j \in 1 .. Len(b) : e[Len(a) + j] = b[j]
      /\ \A j \in 1 .. Len(c) : e[Len(a) + Len(b) + j] = c[j]
  BY SMTT(30), <1>2, Concat3
<1>4. z = e \o d
  BY <1>2
<1>5. /\ Len(z) = Len(e) + Len(d)
      /\ \A j \in 1 .. Len(e) : z[j] = e[j]
      /\ \A j \in 1 .. Len(d) : z[Len(e) + j] = d[j]
  BY <1>4, Concat2
<1>6. /\ Len(z) = Len(a) + Len(b) + Len(c) + Len(d)
      /\ \A j \in 1 .. Len(d) : z[Len(a) + Len(b) + Len(c) + j] = d[j]
  BY <1>3, <1>5
<1>7. Len(e) = Len(a) + Len(b) + Len(c)
  BY <1>3
<1>8. \A j \in 1 .. Len(a) : z[j] = a[j]
  <2>1. \A j \in 1 .. Len(a) : j \in 1 .. Len(e)
    BY <1>1, <1>7
  <2>2. QED
    BY <1>3, <1>5, <2>1
<1>9. \A j \in 1 .. Len(b) : z[Len(a) + j] = b[j]
  <2>1. \A j \in 1 .. Len(b) : Len(a) + j \in 1 .. Len(e)
    BY <1>1, <1>7
  <2>2. QED
    BY <1>3, <1>5, <2>1
<1>10. \A j \in 1 .. Len(c) : z[Len(a) + Len(b) + j] = c[j]
  <2>1. \A j \in 1 .. Len(c) : Len(a) + Len(b) + j \in 1 .. Len(e)
    BY <1>1, <1>7
  <2>2. QED
    BY <1>3, <1>5, <2>1
<1>11. QED
  BY <1>6, <1>8, <1>9, <1>10

(* Where each accepted task is, by its position in the order of arrival.   *)
LEMMA Positions ==
    ASSUME TypeOK, Pipeline
    PROVE  /\ Len(fetched) \in Nat /\ Len(outQ) \in Nat
           /\ Len(InWorker) \in Nat /\ Len(taskQ) \in Nat
           /\ Len(added) = Len(fetched) + Len(outQ) + Len(InWorker) + Len(taskQ)
           /\ \A j \in 1 .. Len(fetched) : added[j] = fetched[j]
           /\ \A j \in 1 .. Len(outQ) : added[Len(fetched) + j] = outQ[j]
           /\ \A j \in 1 .. Len(InWorker) :
                  added[Len(fetched) + Len(outQ) + j] = InWorker[j]
           /\ \A j \in 1 .. Len(taskQ) :
                  added[Len(fetched) + Len(outQ) + Len(InWorker) + j] = taskQ[j]
<1>1. fetched \in Seq(Task) /\ outQ \in Seq(Task) /\ taskQ \in Seq(Task)
      /\ InWorker \in Seq(Task)
  BY PartsType DEF TypeOK
<1>2. Len(fetched) \in Nat /\ Len(outQ) \in Nat
      /\ Len(InWorker) \in Nat /\ Len(taskQ) \in Nat
  BY <1>1
<1>3. added = ((fetched \o outQ) \o InWorker) \o taskQ
  BY DEF Pipeline
<1>4. QED
  BY SMTT(30), <1>1, <1>2, <1>3, Concat4

Lifetimes == AddedDistinct /\ HeldApart /\ FreedWhenFetched

(* Steps that accept, allocate and free nothing.                           *)
LEMMA LifetimesUnchanged ==
    ASSUME Lifetimes, UNCHANGED <<added, fetched, count, heap, htask>>,
           \A h \in Handlers : hpc'[h] = "add" => hpc[h] = "add"
    PROVE  Lifetimes'
  BY DEF Lifetimes, AddedDistinct, HeldApart, FreedWhenFetched

(* Allocation gives a new id, add hands a task on, get frees what it       *)
(* fetched: the identities of the tasks stay apart.                        *)
LEMMA LifetimesStep == IInv /\ [Next]_vars => Lifetimes'
<1> SUFFICES ASSUME IInv, [Next]_vars PROVE Lifetimes'
  OBVIOUS
<1> USE DEF queues, handlerVars, workerVars
<1>0. TypeOK /\ Pipeline /\ Lifetimes
  BY DEF IInv, Lifetimes
<1>1. ASSUME NEW h \in Handlers, NEW u \in Uuids, PostBuild(h, u)
      PROVE  Lifetimes'
  <2>1. /\ count \in Nat /\ count' = count + 1 /\ heap' = heap \cup {count + 1}
        /\ UNCHANGED <<added, fetched>>
    BY <1>0, <1>1 DEF PostBuild, TypeOK
  <2>2. AddedDistinct' /\ FreedWhenFetched'
    BY <1>0, <2>1 DEF Lifetimes, AddedDistinct, FreedWhenFetched
  <2>3. HeldApart'
    <3>1. CASE UNCHANGED <<hpc, htask>>
      BY <1>0, <2>1, <3>1 DEF Lifetimes, HeldApart
    <3>2. CASE /\ hpc' = [hpc EXCEPT ![h] = "add"]
               /\ htask' = [htask EXCEPT ![h] = [id |-> count + 1, uuid |-> u]]
      <4>1. \A g \in Handlers \ {h} : hpc'[g] = hpc[g] /\ htask'[g] = htask[g]
        BY <3>2
      <4>2. htask'[h].id = count + 1
        BY <1>0, <3>2 DEF TypeOK
      <4>3. \A g \in Handlers \ {h} :
               hpc[g] = "add" => htask[g].id \in 1 .. count
        BY <1>0 DEF Lifetimes, HeldApart
      <4>4. \A i \in 1 .. Len(added) : added[i].id # count + 1
        BY <1>0, <2>1 DEF Lifetimes, AddedDistinct
      <4>5. QED
        BY <1>0, <2>1, <4>1, <4>2, <4>3, <4>4 DEF Lifetimes, HeldApart
    <3>3. QED
      BY <1>1, <3>1, <3>2 DEF PostBuild
  <2>4. QED
    BY <2>2, <2>3 DEF Lifetimes
<1>2. ASSUME NEW h \in Handlers, add(h) PROVE Lifetimes'
  <2>1. /\ hpc[h] = "add" /\ hpc' = [hpc EXCEPT ![h] = "insert"]
        /\ htask' = [htask EXCEPT ![h] = NoTask]
        /\ UNCHANGED <<fetched, count, heap>>
    BY <1>2 DEF add
  <2>2. /\ Len(added) \in Nat /\ Len(added') = Len(added) + 1
        /\ \A i \in 1 .. Len(added) : added'[i] = added[i]
        /\ added'[Len(added) + 1] = htask[h]
    BY <1>0, <1>2, AddSeqs DEF TypeOK
  <2>3. /\ htask[h].id \in 1 .. count /\ htask[h].id \in heap
        /\ \A i \in 1 .. Len(added) : added[i].id # htask[h].id
    BY <1>0, <2>1 DEF Lifetimes, HeldApart
  <2>4. Len(fetched) <= Len(added) /\ Len(fetched) \in Nat
    BY <1>0, Positions
  <2>5. AddedDistinct'
    BY SMTT(30), <1>0, <2>1, <2>2, <2>3 DEF Lifetimes, AddedDistinct
  <2>6. FreedWhenFetched'
    BY <1>0, <2>1, <2>2, <2>3, <2>4 DEF Lifetimes, FreedWhenFetched
  <2>7. HeldApart'
    <3>1. \A g \in Handlers : hpc'[g] = "add" =>
             g # h /\ hpc[g] = "add" /\ htask'[g] = htask[g]
      BY <1>0, <2>1 DEF TypeOK
    <3>2. \A g \in Handlers \ {h} :
             hpc[g] = "add" => htask[g].id # htask[h].id
      BY <1>0, <2>1 DEF Lifetimes, HeldApart
    <3>3. QED
      BY <1>0, <2>1, <2>2, <3>1, <3>2 DEF Lifetimes, HeldApart
  <2>8. QED
    BY <2>5, <2>6, <2>7 DEF Lifetimes
<1>3. ASSUME NEW h \in Handlers, GetResult(h) PROVE Lifetimes'
  <2>1. \A g \in Handlers : hpc'[g] = "add" => hpc[g] = "add"
    BY <1>0, <1>3 DEF GetResult, Return, TypeOK
  <2>2. UNCHANGED <<added, count, htask>>
    BY <1>3 DEF GetResult
  <2>3. CASE outQ = << >>
    BY <1>0, <1>3, <2>1, <2>2, <2>3, LifetimesUnchanged DEF GetResult
  <2>4. CASE outQ # << >>
    <3>1. Len(fetched') = Len(fetched) + 1
      BY <1>0, <1>3, <2>4, GetSeqs
    <3>2. Head(outQ) = outQ[1] /\ Len(outQ) > 0 /\ Len(outQ) \in Nat
      BY <1>0, <2>4 DEF TypeOK
    <3>3. heap' = heap \ {Head(outQ).id}
      BY <1>3, <2>4 DEF GetResult
    <3>4. /\ Head(outQ) = added[Len(fetched) + 1]
          /\ Len(fetched) + 1 \in 1 .. Len(added) /\ Len(fetched) \in Nat
      BY <1>0, <3>2, Positions
    <3>5. heap' = heap \ {added[Len(fetched) + 1].id}
      BY <3>3, <3>4
    <3>6. AddedDistinct'
      BY <1>0, <2>2 DEF Lifetimes, AddedDistinct
    <3>7. HeldApart'
      BY <1>0, <2>1, <2>2, <3>4, <3>5 DEF Lifetimes, HeldApart
    <3>8. FreedWhenFetched'
      BY <1>0, <2>2, <3>1, <3>4, <3>5
      DEF Lifetimes, AddedDistinct, FreedWhenFetched
    <3>9. QED
      BY <3>6, <3>7, <3>8 DEF Lifetimes
  <2>5. QED
    BY <2>3, <2>4
<1>4. ASSUME NEW h \in Handlers,
             PostRefused(h) \/ SetLoad(h) \/ InsertStore(h) \/ EraseStore(h)
      PROVE  Lifetimes'
  <2>1. UNCHANGED <<added, fetched, count, heap, htask>>
    BY <1>4 DEF PostRefused, SetLoad, InsertStore, EraseStore
  <2>2. \A g \in Handlers : hpc'[g] = "add" => hpc[g] = "add"
    BY <1>0, <1>4
    DEF PostRefused, SetLoad, InsertStore, EraseStore, Return, TypeOK
  <2>3. QED
    BY <1>0, <2>1, <2>2, LifetimesUnchanged
<1>5. ASSUME NEW h \in Handlers, NEW u \in Uuids, GetFind(h, u)
      PROVE  Lifetimes'
  BY <1>0, <1>5, LifetimesUnchanged DEF GetFind, TypeOK
<1>6. CASE WorkerStep \/ StopServer \/ Destructor \/ UNCHANGED vars
  <2>1. UNCHANGED <<added, fetched, count, heap, htask, hpc>>
    BY <1>6 DEF WorkerStep, WorkerLoop, CheckExit, ReadTask, exe_sql_job, WriteResult,
                StopServer, Destructor, vars
  <2>2. QED
    BY <1>0, <2>1, LifetimesUnchanged
<1>7. QED
  BY <1>1, <1>2, <1>3, <1>4, <1>5, <1>6
  DEF Next, Request, HandlerStep, Handlers

-----------------------------------------------------------------------------
(* The strengthened invariant holds in every reachable state.              *)
LEMMA Invariance == Spec => []IInv
<1>1. IInv /\ [Next]_vars => IInv'
  BY TypeStep, PipelineStep, LifetimesStep DEF IInv, Lifetimes
<1>2. QED
  BY <1>1, Initially, PTL DEF Spec

(* The state of the service keeps its types: a uuid reaches task_uuid_set  *)
(* only from a request, and neither queue grows beyond its capacity, with  *)
(* one thread at most that posts and one at most that gets.                *)
THEOREM TypeCorrect == Spec => []TypeOK
<1>1. IInv => TypeOK
  BY DEF IInv
<1>2. QED
  BY <1>1, Invariance, PTL

(* With one thread at most in dc_compare_t::add and one at most in         *)
(* dc_compare_t::get (OnePoster, OneGetter), tasks are neither lost nor    *)
(* duplicated nor overtaken between the two, however these threads, the    *)
(* worker and the shutdown interleave.                                     *)
THEOREM TasksInPipeline == Spec => []Pipeline
<1>1. IInv => Pipeline
  BY DEF IInv
<1>2. QED
  BY <1>1, Invariance, PTL

(* With one thread at most in dc_compare_t::get and one at most in         *)
(* dc_compare_t::add (OneGetter, OnePoster), no thread holds a task that   *)
(* get has deleted.                                                        *)
THEOREM TasksLive == Spec => []TasksAlive
<1>1. IInv => TasksAlive
  <2> SUFFICES ASSUME IInv PROVE TasksAlive
    OBVIOUS
  <2>1. TypeOK /\ Pipeline /\ HeldApart /\ FreedWhenFetched
    BY DEF IInv
  <2>2. /\ DOMAIN fetched = 1 .. Len(fetched) /\ DOMAIN outQ = 1 .. Len(outQ)
        /\ DOMAIN taskQ = 1 .. Len(taskQ)
        /\ DOMAIN InWorker = 1 .. Len(InWorker)
    BY <2>1, PartsType DEF TypeOK
  <2> DEFINE nf == Len(fetched)
             no == Len(outQ)
             nw == Len(InWorker)
             nt == Len(taskQ)
  <2>p. /\ nf \in Nat /\ no \in Nat /\ nw \in Nat /\ nt \in Nat
        /\ Len(added) = nf + no + nw + nt
        /\ \A j \in 1 .. no : added[nf + j] = outQ[j]
        /\ \A j \in 1 .. nw : added[nf + no + j] = InWorker[j]
        /\ \A j \in 1 .. nt : added[nf + no + nw + j] = taskQ[j]
    BY <2>1, Positions
  <2>a. \A i \in 1 .. Len(added) : i > nf => added[i].id \in heap
    BY <2>1 DEF FreedWhenFetched
  <2> HIDE DEF nf, no, nw, nt
  <2>3. \A i \in DOMAIN taskQ : taskQ[i].id \in heap
    <3> SUFFICES ASSUME NEW i \in 1 .. nt PROVE taskQ[i].id \in heap
      BY <2>2 DEF nt
    <3>1. nf + no + nw + i \in 1 .. Len(added) /\ nf + no + nw + i > nf
      BY <2>p
    <3>2. QED
      BY <2>p, <2>a, <3>1
  <2>4. \A i \in DOMAIN outQ : outQ[i].id \in heap
    <3> SUFFICES ASSUME NEW i \in 1 .. no PROVE outQ[i].id \in heap
      BY <2>2 DEF no
    <3>1. nf + i \in 1 .. Len(added) /\ nf + i > nf
      BY <2>p
    <3>2. QED
      BY <2>p, <2>a, <3>1
  <2>5. \A i \in DOMAIN InWorker : InWorker[i].id \in heap
    <3> SUFFICES ASSUME NEW i \in 1 .. nw PROVE InWorker[i].id \in heap
      BY <2>2 DEF nw
    <3>1. nf + no + i \in 1 .. Len(added) /\ nf + no + i > nf
      BY <2>p
    <3>2. QED
      BY <2>p, <2>a, <3>1
  <2>6. \A i \in DOMAIN fetched : fetched[i].id \notin heap
    BY <2>1, <2>2, Positions DEF FreedWhenFetched
  <2>7. QED
    BY <2>1, <2>3, <2>4, <2>5, <2>6 DEF TasksAlive, Ids, HeldApart
<1>2. QED
  BY <1>1, Invariance, PTL

=============================================================================
