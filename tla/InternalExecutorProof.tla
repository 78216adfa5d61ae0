----------------------- MODULE InternalExecutorProof -----------------------
(***************************************************************************)
(* Proofs about InternalExecutor for any number of tasks, uuids and        *)
(* directories: type correctness, the safety of the reference the worker   *)
(* uses without the lock, the order of service, and that every result      *)
(* handed out is whole.                                                    *)
(*                                                                         *)
(* ReferenceValid is not inductive alone: that no other entry is RUNNING   *)
(* after a pick needs the ids to be distinct, which IdsOrdered says.       *)
(* ResultComplete needs to know how far the worker has got with the task   *)
(* in hand (ResultsInv).                                                   *)
(***************************************************************************)
EXTENDS InternalExecutor, FiniteSetTheorems, TLAPS

IdsOrdered ==
    /\ \A i \in 1 .. Len(tasks) : 1 <= tasks[i].id /\ tasks[i].id <= created
    /\ \A i, j \in 1 .. Len(tasks) : i < j => tasks[i].id < tasks[j].id

(* The result of t answers its request, entry by entry.                    *)
Whole(t) ==
    /\ Len(t.out) = Len(t.dirs)
    /\ \A k \in 1 .. Len(t.dirs) : t.out[k].dir = t.dirs[k]

Finished(t) ==
    \/ t.error = "E_OS_ENV_CHDIR"
    \/ t.error = "S_SUCCESS" /\ Whole(t)

Untouched(t) == t.error = "none" /\ t.out = << >>

Examined(t, a) ==
    /\ Len(a) <= Len(t.dirs)
    /\ \A k \in 1 .. Len(a) : a[k].dir = t.dirs[k]

Filled(t, a) ==
    /\ Len(t.out) <= Len(a)
    /\ \A k \in 1 .. Len(t.out) : t.out[k] = a[k]

(* How far the worker has got with the task it holds, when it is at pc and *)
(* has collected the attributes a.                                         *)
Progress(t, pc, a) ==
    /\ pc = "start" => Untouched(t)
    /\ pc = "stat"  => Untouched(t) /\ Examined(t, a)
    /\ pc = "fill"  => /\ t.error = "S_SUCCESS"
                       /\ Len(a) = Len(t.dirs)
                       /\ Examined(t, a)
                       /\ Filled(t, a)
    /\ pc = "over"  => Finished(t)

EntryInv(t, pc, a) ==
    /\ t.status = "INIT"    => Untouched(t)
    /\ t.status = "RUNNING" => Progress(t, pc, a)
    /\ t.status = "OVER"    => Finished(t)

ResultsInv == \A i \in 1 .. Len(tasks) : EntryInv(tasks[i], wpc, attrs)

IInv ==
    /\ TypeOK
    /\ IdsOrdered
    /\ ReferenceValid
    /\ ServedInOrder
    /\ ResultsInv
    /\ ResultComplete

-----------------------------------------------------------------------------
(* Sequences                                                               *)

(* Appending to a list adds one entry at its end.                          *)
LEMMA AppendSeq ==
    ASSUME NEW S, NEW s \in Seq(S), NEW e \in S
    PROVE  /\ Append(s, e) \in Seq(S)
           /\ Len(Append(s, e)) = Len(s) + 1
           /\ \A j \in 1 .. Len(s) : Append(s, e)[j] = s[j]
           /\ Append(s, e)[Len(s) + 1] = e
  OBVIOUS

(* Copying the next entry of one list to the end of another.               *)
LEMMA CopyNext ==
    ASSUME NEW S, NEW out \in Seq(S), NEW a \in Seq(S), Len(out) < Len(a)
    PROVE  \E o \in Seq(S) :
              /\ o = Append(out, a[Len(out) + 1])
              /\ Len(o) = Len(out) + 1
              /\ \A k \in 1 .. Len(out) : o[k] = out[k]
              /\ o[Len(out) + 1] = a[Len(out) + 1]
<1>1. a[Len(out) + 1] \in S
  OBVIOUS
<1> DEFINE o == Append(out, a[Len(out) + 1])
<1>2. /\ o \in Seq(S)
      /\ Len(o) = Len(out) + 1
      /\ \A k \in 1 .. Len(out) : o[k] = out[k]
      /\ o[Len(out) + 1] = a[Len(out) + 1]
  BY <1>1, AppendSeq
<1> HIDE DEF o
<1>3. QED
  BY <1>2 DEF o

(* list::erase closes the gap and keeps the order of the rest.             *)
LEMMA EraseSeq ==
    ASSUME NEW S, NEW s \in Seq(S), NEW i \in 1 .. Len(s)
    PROVE  /\ Erase(s, i) \in Seq(S)
           /\ Len(Erase(s, i)) = Len(s) - 1
           /\ \A j \in 1 .. Len(s) - 1 :
                  Erase(s, i)[j] = s[IF j < i THEN j ELSE j + 1]
<1>1. Len(s) - 1 \in Nat
  OBVIOUS
<1>2. \A j \in 1 .. Len(s) - 1 : (IF j < i THEN s[j] ELSE s[j + 1]) \in S
  OBVIOUS
<1>3. QED
  BY <1>1, <1>2 DEF Erase

-----------------------------------------------------------------------------
(* Changing one field of a task leaves a task with the other fields.       *)
LEMMA WithStatus ==
    ASSUME NEW t \in TaskRecord, NEW st \in {"INIT", "RUNNING", "OVER"}
    PROVE  \E e \in TaskRecord :
              /\ e = [t EXCEPT !.status = st]
              /\ e.status = st /\ e.id = t.id /\ e.dirs = t.dirs
              /\ e.uuid = t.uuid
              /\ e.error = t.error /\ e.out = t.out
<1> DEFINE e == [t EXCEPT !.status = st]
<1>1. /\ e \in TaskRecord
      /\ e.status = st /\ e.id = t.id /\ e.dirs = t.dirs
      /\ e.uuid = t.uuid
      /\ e.error = t.error /\ e.out = t.out
  BY DEF TaskRecord
<1> HIDE DEF e
<1>2. QED
  BY <1>1 DEF e

(* A task with an error recorded.                                          *)
LEMMA WithError ==
    ASSUME NEW t \in TaskRecord, NEW c \in {"S_SUCCESS", "E_OS_ENV_CHDIR"}
    PROVE  \E e \in TaskRecord :
              /\ e = [t EXCEPT !.error = c]
              /\ e.status = t.status /\ e.id = t.id /\ e.dirs = t.dirs
              /\ e.uuid = t.uuid
              /\ e.error = c /\ e.out = t.out
<1> DEFINE e == [t EXCEPT !.error = c]
<1>1. /\ e \in TaskRecord
      /\ e.status = t.status /\ e.id = t.id /\ e.dirs = t.dirs
      /\ e.uuid = t.uuid
      /\ e.error = c /\ e.out = t.out
  BY DEF TaskRecord
<1> HIDE DEF e
<1>2. QED
  BY <1>1 DEF e

(* A task with its answer filled in.                                       *)
LEMMA WithOut ==
    ASSUME NEW t \in TaskRecord, NEW o \in Seq([dir : Dirs, code : StatCodes])
    PROVE  \E e \in TaskRecord :
              /\ e = [t EXCEPT !.out = o]
              /\ e.status = t.status /\ e.id = t.id /\ e.dirs = t.dirs
              /\ e.uuid = t.uuid
              /\ e.error = t.error /\ e.out = o
<1> DEFINE e == [t EXCEPT !.out = o]
<1>1. /\ e \in TaskRecord
      /\ e.status = t.status /\ e.id = t.id /\ e.dirs = t.dirs
      /\ e.uuid = t.uuid
      /\ e.error = t.error /\ e.out = o
  BY DEF TaskRecord
<1> HIDE DEF e
<1>2. QED
  BY <1>1 DEF e

-----------------------------------------------------------------------------
(* At first there are no tasks.                                            *)
LEMMA Initially == Init => IInv
<1> SUFFICES ASSUME Init PROVE IInv
  OBVIOUS
<1>1. TypeOK
  BY ExitAssumption DEF Init, TypeOK
<1>2. Len(tasks) = 0 /\ ~Holding /\ answer.op # "get"
  BY DEF Init, Holding, NoAnswer
<1>3. QED
  BY <1>1, <1>2 DEF IInv, IdsOrdered, ReferenceValid, ServedInOrder,
                    ResultsInv, ResultComplete

(* An accepted request names a task.                                       *)
LEMMA AcceptedType ==
    ASSUME NEW r \in Requests, PostCode(r) = "S_SUCCESS"
    PROVE  r.uuid \in Uuids /\ r.dirs \in Seq(Dirs)
  BY RequestsAssumption DEF PostCode

(* A code sent without a result is not that of a finished task.            *)
LEMMA ReplyComplete ==
    ASSUME NEW op, NEW u, NEW code, Reply(op, u, code),
           op = "get" => code \notin {"S_SUCCESS", "none"}
    PROVE  ResultComplete'
  BY DEF Reply, NoAnswer, ResultComplete

(* The steps that leave the list alone and do not move the worker within a *)
(* task.                                                                   *)
Outside == {"loop", "pick", "falling", "waiting", "done"}

(* A step that leaves the list alone keeps what is said of it.             *)
LEMMA ListUnchanged ==
    ASSUME IInv, UNCHANGED <<tasks, created, cur, attrs>>,
           TypeOK', ResultComplete',
           wpc' = wpc \/ (wpc \in Outside /\ wpc' \in Outside)
    PROVE  IInv'
<1>1. Holding' <=> Holding
  BY DEF Holding, Outside
<1>2. IdsOrdered' /\ ReferenceValid' /\ ServedInOrder'
  BY <1>1 DEF IInv, IdsOrdered, ReferenceValid, ServedInOrder
<1>3. ResultsInv'
  BY DEF IInv, ResultsInv, EntryInv, Progress, Outside
<1>4. QED
  BY <1>2, <1>3 DEF IInv

(* The worker changes one field of one entry: the rest of the list, and    *)
(* every id, stays.                                                        *)
LEMMA EntryUpdated ==
    ASSUME IInv, NEW i \in 1 .. Len(tasks), NEW e \in TaskRecord,
           e.id = tasks[i].id,
           tasks' = [tasks EXCEPT ![i] = e], created' = created
    PROVE  /\ tasks' \in Seq(TaskRecord)
           /\ Len(tasks') = Len(tasks)
           /\ \A j \in 1 .. Len(tasks) :
                  tasks'[j] = IF j = i THEN e ELSE tasks[j]
           /\ IdsOrdered'
<1>1. tasks \in Seq(TaskRecord)
  BY DEF IInv, TypeOK
<1>2. /\ tasks' \in Seq(TaskRecord)
      /\ Len(tasks') = Len(tasks)
      /\ \A j \in 1 .. Len(tasks) : tasks'[j] = IF j = i THEN e ELSE tasks[j]
  BY <1>1
<1>3. \A j \in 1 .. Len(tasks) : tasks'[j].id = tasks[j].id
  BY <1>2
<1>4. IdsOrdered'
  BY <1>2, <1>3 DEF IInv, IdsOrdered
<1>5. QED
  BY <1>2, <1>4

(* Only one entry has the id of the task in hand.                          *)
LEMMA CurUnique ==
    ASSUME IInv, NEW i \in 1 .. Len(tasks), NEW j \in 1 .. Len(tasks),
           tasks[i].id = tasks[j].id
    PROVE  i = j
<1>1. tasks[i] \in TaskRecord
  BY DEF IInv, TypeOK
<1>2. tasks[i].id \in Nat
  BY <1>1 DEF TaskRecord
<1>3. QED
  BY <1>2 DEF IInv, IdsOrdered

(* A pick makes the oldest INIT task, and no other, the one in hand.       *)
LEMMA PickTaskStep == IInv /\ PickTask => IInv'
<1> SUFFICES ASSUME IInv, PickTask PROVE IInv'
  OBVIOUS
<1>1. PICK i \in 1 .. Len(tasks) :
        /\ tasks[i].status = "INIT"
        /\ \A j \in 1 .. i - 1 : tasks[j].status # "INIT"
        /\ tasks' = [tasks EXCEPT ![i].status = "RUNNING"]
        /\ cur' = tasks[i].id
  BY DEF PickTask
<1>2. tasks[i] \in TaskRecord
  BY DEF IInv, TypeOK
<1>3. PICK e \in TaskRecord :
        /\ e = [tasks[i] EXCEPT !.status = "RUNNING"]
        /\ e.status = "RUNNING" /\ e.id = tasks[i].id /\ e.dirs = tasks[i].dirs
        /\ e.error = tasks[i].error /\ e.out = tasks[i].out
  BY <1>2, WithStatus
<1>4. tasks' = [tasks EXCEPT ![i] = e] /\ created' = created
  BY <1>1, <1>3 DEF PickTask
<1>5. /\ tasks' \in Seq(TaskRecord)
      /\ Len(tasks') = Len(tasks)
      /\ \A j \in 1 .. Len(tasks) : tasks'[j] = IF j = i THEN e ELSE tasks[j]
      /\ IdsOrdered'
  BY <1>3, <1>4, EntryUpdated
<1>6. wpc' = "start" /\ Holding' /\ ~Holding /\ answer' = answer
  BY DEF PickTask, Holding
<1>7. TypeOK'
  BY <1>1, <1>2, <1>5 DEF PickTask, IInv, TypeOK, TaskRecord
<1>8. ReferenceValid'
  <2>1. \A j \in 1 .. Len(tasks) : tasks[j].id = tasks[i].id => j = i
    BY CurUnique
  <2>2. QED
    BY <1>1, <1>3, <1>5, <1>6, <2>1 DEF IInv, ReferenceValid
<1>9. ServedInOrder'
  <2>1. \A j \in 1 .. Len(tasks) : tasks[j].status # "RUNNING"
    BY <1>6 DEF IInv, ReferenceValid
  <2>2. \A j \in 1 .. Len(tasks) : tasks[j] \in TaskRecord
    BY DEF IInv, TypeOK
  <2>3. \A j \in 1 .. Len(tasks) :
            tasks[j].status = "OVER" \/ tasks[j].status = "INIT"
    BY <2>1, <2>2 DEF TaskRecord
  <2>4. \A j \in 1 .. Len(tasks) : j < i => tasks[j].status = "OVER"
    BY <1>1, <2>3
  <2>5. \A j \in 1 .. Len(tasks) : i < j => tasks[j].status = "INIT"
    BY <1>1, <2>3 DEF IInv, ServedInOrder
  <2>6. QED
    BY <1>5, <2>4, <2>5 DEF IInv, ServedInOrder
<1>10. ResultsInv'
  <2>1. Untouched(e)
    BY <1>1, <1>3 DEF IInv, ResultsInv, EntryInv, Untouched
  <2>2. EntryInv(e, wpc', attrs')
    BY <2>1, <1>3, <1>6 DEF EntryInv, Progress
  <2>3. ASSUME NEW j \in 1 .. Len(tasks), j # i
        PROVE  EntryInv(tasks[j], wpc', attrs')
    BY <1>6, <2>3 DEF IInv, ReferenceValid, ResultsInv, EntryInv
  <2>4. QED
    BY <1>5, <2>2, <2>3 DEF ResultsInv
<1>11. QED
  BY <1>5, <1>6, <1>7, <1>8, <1>9, <1>10 DEF IInv, ResultComplete

(* What the worker does to the task in hand: it goes on with it, or sets   *)
(* it over with a finished result.                                         *)
LEMMA HeldUpdated ==
    ASSUME IInv, Holding, NEW i \in 1 .. Len(tasks), tasks[i].id = cur,
           NEW e \in TaskRecord, e.id = tasks[i].id,
           tasks' = [tasks EXCEPT ![i] = e],
           UNCHANGED <<created, cur, answer>>, TypeOK',
           \/ e.status = "RUNNING" /\ Holding' /\ Progress(e, wpc', attrs')
           \/ e.status = "OVER" /\ ~Holding' /\ Finished(e)
    PROVE  IInv'
<1>1. /\ Len(tasks') = Len(tasks)
      /\ \A j \in 1 .. Len(tasks) : tasks'[j] = IF j = i THEN e ELSE tasks[j]
      /\ IdsOrdered'
  BY EntryUpdated
<1>2. \A j \in 1 .. Len(tasks) : j # i => tasks[j].id # cur
  BY CurUnique
<1>3. /\ tasks[i].status = "RUNNING"
      /\ \A j \in 1 .. Len(tasks) : j # i => tasks[j].status # "RUNNING"
  BY <1>2 DEF IInv, ReferenceValid
<1>4. ReferenceValid'
  BY <1>1, <1>2, <1>3 DEF ReferenceValid
<1>5. ServedInOrder'
  BY <1>1, <1>3 DEF IInv, ServedInOrder
<1>6. ResultsInv'
  <2>1. EntryInv(e, wpc', attrs')
    BY DEF EntryInv
  <2>2. ASSUME NEW j \in 1 .. Len(tasks), j # i
        PROVE  EntryInv(tasks[j], wpc', attrs')
    BY <1>3, <2>2 DEF IInv, ResultsInv, EntryInv
  <2>3. QED
    BY <1>1, <2>1, <2>2 DEF ResultsInv
<1>7. ResultComplete'
  BY DEF IInv, ResultComplete
<1>8. QED
  BY <1>1, <1>4, <1>5, <1>6, <1>7 DEF IInv

(* The entry in hand, and what is known of it.                             *)
LEMMA HeldEntry ==
    ASSUME IInv, Holding, NEW i \in 1 .. Len(tasks), IsCur(i)
    PROVE  /\ tasks[i] \in TaskRecord
           /\ tasks[i].id = cur
           /\ tasks[i].status = "RUNNING"
           /\ Progress(tasks[i], wpc, attrs)
  BY DEF IInv, TypeOK, IsCur, ReferenceValid, ResultsInv, EntryInv

(* The header of an answer is filled in.                                   *)
LEMMA FillHeaderStep == IInv /\ FillHeader => IInv'
<1> SUFFICES ASSUME IInv, FillHeader PROVE IInv'
  OBVIOUS
<1>1. PICK i \in 1 .. Len(tasks) :
        /\ IsCur(i)
        /\ Len(attrs) = Len(tasks[i].dirs)
        /\ tasks' = [tasks EXCEPT ![i].error = "S_SUCCESS"]
  BY DEF FillHeader
<1>2. Holding /\ Holding' /\ wpc = "stat" /\ wpc' = "fill"
  BY DEF FillHeader, Holding
<1>3. /\ tasks[i] \in TaskRecord /\ tasks[i].id = cur
      /\ tasks[i].status = "RUNNING" /\ Progress(tasks[i], wpc, attrs)
  BY <1>1, <1>2, HeldEntry
<1>4. PICK e \in TaskRecord :
        /\ e = [tasks[i] EXCEPT !.error = "S_SUCCESS"]
        /\ e.status = tasks[i].status /\ e.id = tasks[i].id
        /\ e.dirs = tasks[i].dirs
        /\ e.error = "S_SUCCESS" /\ e.out = tasks[i].out
  BY <1>3, WithError
<1>5. tasks' = [tasks EXCEPT ![i] = e]
  BY <1>1, <1>4
<1>6. tasks' \in Seq(TaskRecord)
  BY <1>5 DEF IInv, TypeOK
<1>7. TypeOK'
  BY <1>2, <1>6 DEF FillHeader, IInv, TypeOK
<1>8. Progress(e, wpc', attrs')
  <2>1. attrs' = attrs /\ Len(attrs) = Len(e.dirs)
    BY <1>1, <1>4 DEF FillHeader
  <2>2. e.out = << >> /\ Examined(e, attrs)
    BY <1>2, <1>3, <1>4 DEF Progress, Untouched, Examined
  <2>3. Filled(e, attrs)
    BY <2>2 DEF Filled, IInv, TypeOK
  <2>4. QED
    BY <1>2, <1>4, <2>1, <2>2, <2>3 DEF Progress
<1>9. UNCHANGED <<created, cur, answer>>
  BY DEF FillHeader
<1>10. QED
  BY <1>2, <1>3, <1>4, <1>5, <1>7, <1>8, <1>9, HeldUpdated

(* A directory's part of an answer is filled in.                           *)
LEMMA FillDirStep == IInv /\ FillDir => IInv'
<1> SUFFICES ASSUME IInv, FillDir PROVE IInv'
  OBVIOUS
<1>1. PICK i \in 1 .. Len(tasks) :
        /\ IsCur(i)
        /\ Len(tasks[i].out) < Len(attrs)
        /\ tasks' = [tasks EXCEPT ![i].out =
                         Append(tasks[i].out, attrs[Len(tasks[i].out) + 1])]
  BY DEF FillDir
<1>2. Holding /\ Holding' /\ wpc = "fill" /\ wpc' = "fill"
  BY DEF FillDir, Holding
<1>3. /\ tasks[i] \in TaskRecord /\ tasks[i].id = cur
      /\ tasks[i].status = "RUNNING" /\ Progress(tasks[i], wpc, attrs)
  BY <1>1, <1>2, HeldEntry
<1>4. PICK out : out = tasks[i].out
  OBVIOUS
<1>5. /\ attrs \in Seq([dir : Dirs, code : StatCodes])
      /\ out \in Seq([dir : Dirs, code : StatCodes])
  BY <1>3, <1>4 DEF IInv, TypeOK, TaskRecord
<1>6. PICK o \in Seq([dir : Dirs, code : StatCodes]) :
        /\ o = Append(out, attrs[Len(out) + 1])
        /\ Len(o) = Len(out) + 1
        /\ \A k \in 1 .. Len(out) : o[k] = out[k]
        /\ o[Len(out) + 1] = attrs[Len(out) + 1]
  <2>1. Len(out) < Len(attrs)
    BY <1>1, <1>4
  <2>2. QED
    BY <2>1, <1>5, CopyNext
<1>7. PICK e \in TaskRecord :
        /\ e = [tasks[i] EXCEPT !.out = o]
        /\ e.status = tasks[i].status /\ e.id = tasks[i].id
        /\ e.dirs = tasks[i].dirs
        /\ e.error = tasks[i].error /\ e.out = o
  BY <1>3, WithOut
<1>8. tasks' = [tasks EXCEPT ![i] = e]
  BY <1>1, <1>4, <1>6, <1>7
<1>9. tasks' \in Seq(TaskRecord)
  BY <1>8 DEF IInv, TypeOK
<1>10. TypeOK'
  BY <1>2, <1>9 DEF FillDir, IInv, TypeOK
<1>11. Progress(e, wpc', attrs')
  <2>1. attrs' = attrs
    BY DEF FillDir
  <2>2. /\ e.error = "S_SUCCESS" /\ Len(attrs) = Len(e.dirs)
        /\ Examined(e, attrs)
    BY <1>2, <1>3, <1>7 DEF Progress, Examined
  <2>3. Filled(e, attrs)
    <3>1. \A k \in 1 .. Len(out) : out[k] = attrs[k]
      BY <1>2, <1>3, <1>4 DEF Progress, Filled
    <3>2. \A k \in 1 .. Len(o) : o[k] = attrs[k]
      BY <1>5, <1>6, <3>1
    <3>3. Len(o) <= Len(attrs)
      BY <1>1, <1>4, <1>5, <1>6
    <3>4. QED
      BY <1>7, <3>2, <3>3 DEF Filled
  <2>4. QED
    BY <1>2, <2>1, <2>2, <2>3 DEF Progress
<1>12. UNCHANGED <<created, cur, answer>>
  BY DEF FillDir
<1>13. QED
  BY <1>2, <1>3, <1>7, <1>8, <1>10, <1>11, <1>12, HeldUpdated

(* A task is marked over.                                                  *)
LEMMA SetOverStep == IInv /\ thd_worker_set_task_over => IInv'
<1> SUFFICES ASSUME IInv, thd_worker_set_task_over PROVE IInv'
  OBVIOUS
<1>1. PICK i \in 1 .. Len(tasks) :
        /\ IsCur(i)
        /\ tasks' = [tasks EXCEPT ![i].status = "OVER"]
  BY DEF thd_worker_set_task_over
<1>2. Holding /\ ~Holding' /\ wpc = "over" /\ wpc' = "loop"
  BY DEF thd_worker_set_task_over, Holding
<1>3. /\ tasks[i] \in TaskRecord /\ tasks[i].id = cur
      /\ tasks[i].status = "RUNNING" /\ Progress(tasks[i], wpc, attrs)
  BY <1>1, <1>2, HeldEntry
<1>4. PICK e \in TaskRecord :
        /\ e = [tasks[i] EXCEPT !.status = "OVER"]
        /\ e.status = "OVER" /\ e.id = tasks[i].id /\ e.dirs = tasks[i].dirs
        /\ e.error = tasks[i].error /\ e.out = tasks[i].out
  BY <1>3, WithStatus
<1>5. tasks' = [tasks EXCEPT ![i] = e]
  BY <1>1, <1>4
<1>6. tasks' \in Seq(TaskRecord)
  BY <1>5 DEF IInv, TypeOK
<1>7. TypeOK'
  BY <1>2, <1>6 DEF thd_worker_set_task_over, IInv, TypeOK
<1>8. Finished(e)
  BY <1>2, <1>3, <1>4 DEF Progress, Finished, Whole
<1>9. UNCHANGED <<created, cur, answer>>
  BY DEF thd_worker_set_task_over
<1>10. QED
  BY <1>2, <1>3, <1>4, <1>5, <1>7, <1>8, <1>9, HeldUpdated

(* The steps of the worker that move it within a task without changing the *)
(* list.                                                                   *)
LEMMA HeldMoved ==
    ASSUME IInv, Holding, Holding', TypeOK',
           UNCHANGED <<tasks, created, cur, answer>>,
           \A i \in 1 .. Len(tasks) :
               tasks[i].status = "RUNNING" => Progress(tasks[i], wpc', attrs')
    PROVE  IInv'
<1>1. IdsOrdered' /\ ReferenceValid' /\ ServedInOrder' /\ ResultComplete'
  BY DEF IInv, IdsOrdered, ReferenceValid, ServedInOrder, ResultComplete
<1>2. ResultsInv'
  BY DEF IInv, ResultsInv, EntryInv
<1>3. QED
  BY <1>1, <1>2 DEF IInv

(* The entry in hand is the only one RUNNING.                              *)
LEMMA RunningIsCur ==
    ASSUME IInv, NEW i \in 1 .. Len(tasks), IsCur(i),
           NEW j \in 1 .. Len(tasks), tasks[j].status = "RUNNING"
    PROVE  j = i
<1>1. tasks[i].id = tasks[j].id
  BY DEF IInv, ReferenceValid, IsCur
<1>2. QED
  BY <1>1, CurUnique

(* The worker starts on a task.                                            *)
LEMMA StartStep == IInv /\ Start => IInv'
<1> SUFFICES ASSUME IInv, Start PROVE IInv'
  OBVIOUS
<1>1. PICK i \in 1 .. Len(tasks) :
        /\ IsCur(i)
        /\ \/ crashed' = "no_base_dir" /\ UNCHANGED <<wpc, tasks>>
           \/ UNCHANGED <<crashed, tasks>> /\ wpc' = "stat"
           \/ /\ UNCHANGED crashed
              /\ wpc' = "over"
              /\ tasks' = [tasks EXCEPT ![i].error = "E_OS_ENV_CHDIR"]
  BY DEF Start
<1>2. /\ Holding /\ Holding' /\ wpc = "start" /\ attrs' = << >>
      /\ UNCHANGED <<created, owed, exit, main, cur, answer>>
  BY <1>1 DEF Start, Holding
<1>3. /\ tasks[i] \in TaskRecord /\ tasks[i].id = cur
      /\ tasks[i].status = "RUNNING" /\ Progress(tasks[i], wpc, attrs)
  BY <1>1, <1>2, HeldEntry
<1>4. tasks[i].dirs \in Seq(Dirs) /\ Untouched(tasks[i])
  BY <1>2, <1>3 DEF TaskRecord, Progress
<1>5. \A j \in 1 .. Len(tasks) : tasks[j].status = "RUNNING" => j = i
  BY <1>1, RunningIsCur
<1>6. CASE UNCHANGED tasks /\ wpc' \in {"start", "stat"}
  <2>1. TypeOK'
    BY <1>1, <1>2, <1>6 DEF IInv, TypeOK
  <2>2. Progress(tasks[i], wpc', attrs')
    BY <1>2, <1>4, <1>6 DEF Progress, Examined
  <2>3. QED
    BY <1>2, <1>5, <1>6, <2>1, <2>2, HeldMoved
<1>7. CASE /\ UNCHANGED crashed
           /\ wpc' = "over"
           /\ tasks' = [tasks EXCEPT ![i].error = "E_OS_ENV_CHDIR"]
  <2>1. PICK e \in TaskRecord :
          /\ e = [tasks[i] EXCEPT !.error = "E_OS_ENV_CHDIR"]
          /\ e.status = tasks[i].status /\ e.id = tasks[i].id
          /\ e.dirs = tasks[i].dirs
          /\ e.error = "E_OS_ENV_CHDIR" /\ e.out = tasks[i].out
    BY <1>3, WithError
  <2>2. tasks' = [tasks EXCEPT ![i] = e]
    BY <1>7, <2>1
  <2>3. tasks' \in Seq(TaskRecord)
    BY <2>2 DEF IInv, TypeOK
  <2>4. TypeOK'
    BY <1>2, <1>7, <2>3 DEF IInv, TypeOK
  <2>5. Progress(e, wpc', attrs')
    BY <1>7, <2>1 DEF Progress, Finished
  <2>6. QED
    BY <1>2, <1>3, <2>1, <2>2, <2>4, <2>5, HeldUpdated
<1>8. QED
  BY <1>1, <1>2, <1>6, <1>7

(* The worker examines a directory.                                        *)
LEMMA ExamineStep ==
    ASSUME IInv, NEW code \in StatCodes, Examine(code)
    PROVE  IInv'
<1>1. PICK i \in 1 .. Len(tasks) :
        /\ IsCur(i)
        /\ Len(attrs) < Len(tasks[i].dirs)
        /\ attrs' = Append(attrs, [dir |-> tasks[i].dirs[Len(attrs) + 1],
                                   code |-> code])
  BY DEF Examine
<1>2. /\ Holding /\ Holding' /\ wpc = "stat" /\ wpc' = "stat"
      /\ UNCHANGED <<tasks, created, cur, answer>>
  BY DEF Examine, Holding
<1>3. /\ tasks[i] \in TaskRecord
      /\ Untouched(tasks[i]) /\ Examined(tasks[i], attrs)
  BY <1>1, <1>2, HeldEntry DEF Progress
<1>4. PICK d \in Dirs : d = tasks[i].dirs[Len(attrs) + 1]
  <2>1. tasks[i].dirs \in Seq(Dirs) /\ Len(attrs) \in Nat
    BY SMTT(30), <1>3 DEF TaskRecord, IInv, TypeOK
  <2>2. tasks[i].dirs[Len(attrs) + 1] \in Dirs
    BY <1>1, <2>1
  <2>3. QED
    BY <2>2
<1>5. PICK e \in [dir : Dirs, code : StatCodes] :
        e = [dir |-> d, code |-> code] /\ e.dir = d
  <2> DEFINE a == [dir |-> d, code |-> code]
  <2>1. a \in [dir : Dirs, code : StatCodes] /\ a.dir = d
    OBVIOUS
  <2> HIDE DEF a
  <2>2. QED
    BY <2>1 DEF a
<1>6. attrs \in Seq([dir : Dirs, code : StatCodes])
  BY DEF IInv, TypeOK
<1>7. attrs' = Append(attrs, e)
  BY <1>1, <1>4, <1>5
<1>8. /\ attrs' \in Seq([dir : Dirs, code : StatCodes])
      /\ Len(attrs') = Len(attrs) + 1
      /\ \A k \in 1 .. Len(attrs) : attrs'[k] = attrs[k]
      /\ attrs'[Len(attrs) + 1] = e
  BY <1>5, <1>6, <1>7, AppendSeq
<1>9. TypeOK'
  BY <1>2, <1>8 DEF Examine, IInv, TypeOK
<1>10. Examined(tasks[i], attrs')
  <2>1. Len(attrs) \in Nat /\ Len(tasks[i].dirs) \in Nat
    BY <1>3, <1>6 DEF TaskRecord
  <2>2. Len(attrs') <= Len(tasks[i].dirs)
    BY <1>1, <1>8, <2>1
  <2>3. ASSUME NEW k \in 1 .. Len(attrs')
        PROVE  attrs'[k].dir = tasks[i].dirs[k]
    <3>1. CASE k \in 1 .. Len(attrs)
      BY <1>3, <1>8, <3>1 DEF Examined
    <3>2. CASE k = Len(attrs) + 1
      BY <1>4, <1>5, <1>8, <3>2
    <3>3. QED
      BY <1>8, <2>1, <3>1, <3>2
  <2>4. QED
    BY <2>2, <2>3 DEF Examined
<1>11. Progress(tasks[i], wpc', attrs')
  BY <1>2, <1>3, <1>10 DEF Progress
<1>12. \A j \in 1 .. Len(tasks) : tasks[j].status = "RUNNING" => j = i
  BY <1>1, RunningIsCur
<1>13. QED
  BY <1>2, <1>9, <1>11, <1>12, HeldMoved

(* The answer is complete.                                                 *)
LEMMA FillDoneStep == IInv /\ FillDone => IInv'
<1> SUFFICES ASSUME IInv, FillDone PROVE IInv'
  OBVIOUS
<1>1. PICK i \in 1 .. Len(tasks) :
        IsCur(i) /\ Len(tasks[i].out) = Len(attrs)
  BY DEF FillDone
<1>2. /\ Holding /\ Holding' /\ wpc = "fill" /\ wpc' = "over"
      /\ UNCHANGED <<tasks, created, cur, answer>>
  BY DEF FillDone, Holding
<1>3. Progress(tasks[i], wpc, attrs)
  BY <1>1, <1>2, HeldEntry
<1>4. TypeOK'
  BY <1>2 DEF FillDone, IInv, TypeOK
<1>5. Progress(tasks[i], wpc', attrs')
  BY <1>1, <1>2, <1>3 DEF Progress, Finished, Whole, Examined, Filled
<1>6. \A j \in 1 .. Len(tasks) : tasks[j].status = "RUNNING" => j = i
  BY <1>1, RunningIsCur
<1>7. QED
  BY <1>2, <1>4, <1>5, <1>6, HeldMoved

(* A table of integers stays one when an entry is counted up or down.      *)
LEMMA OwedType ==
    ASSUME NEW f \in [Uuids -> Int], NEW u \in Uuids
    PROVE  /\ [f EXCEPT ![u] = f[u] + 1] \in [Uuids -> Int]
           /\ [f EXCEPT ![u] = f[u] - 1] \in [Uuids -> Int]
  OBVIOUS

(* add appends an INIT task with the next id.                              *)
LEMMA PostAcceptedStep ==
    ASSUME IInv, NEW r \in Requests, PostAccepted(r)
    PROVE  IInv'
<1>1. r.uuid \in Uuids /\ r.dirs \in Seq(Dirs)
  BY AcceptedType DEF PostAccepted
<1>2. PICK e \in TaskRecord :
        /\ e = [id |-> created + 1, uuid |-> r.uuid,
                status |-> "INIT", dirs |-> r.dirs,
                base |-> "base_dir" \in r.fields,
                error |-> "none", out |-> << >>]
        /\ e.id = created + 1 /\ e.status = "INIT" /\ Untouched(e)
  <2> DEFINE t == [id |-> created + 1, uuid |-> r.uuid,
                   status |-> "INIT", dirs |-> r.dirs,
                   base |-> "base_dir" \in r.fields,
                   error |-> "none", out |-> << >>]
  <2>1. created + 1 \in Nat /\ ("base_dir" \in r.fields) \in BOOLEAN
    BY DEF IInv, TypeOK
  <2>2. << >> \in Seq([dir : Dirs, code : StatCodes])
    OBVIOUS
  <2>3. t \in TaskRecord
    BY <1>1, <2>1, <2>2 DEF TaskRecord
  <2>4. t.id = created + 1 /\ t.status = "INIT" /\ Untouched(t)
    BY DEF Untouched
  <2> HIDE DEF t
  <2>5. QED
    BY <2>3, <2>4 DEF t
<1>3. /\ tasks' = Append(tasks, e)
      /\ tasks \in Seq(TaskRecord)
      /\ created \in Nat /\ created' = created + 1
  BY <1>2 DEF PostAccepted, add, IInv, TypeOK
<1>4. /\ tasks' \in Seq(TaskRecord)
      /\ Len(tasks') = Len(tasks) + 1
      /\ \A j \in 1 .. Len(tasks) : tasks'[j] = tasks[j]
      /\ tasks'[Len(tasks) + 1] = e
  BY <1>2, <1>3, AppendSeq
<1>5. /\ UNCHANGED <<exit, main, cur, attrs, crashed>>
      /\ wpc' = wpc \/ (wpc = "waiting" /\ wpc' = "pick")
      /\ Holding' <=> Holding
  BY DEF PostAccepted, add, Holding
<1>6. owed' \in [Uuids -> Int]
  BY <1>1, OwedType DEF PostAccepted, IInv, TypeOK
<1>7. TypeOK'
  BY <1>3, <1>4, <1>5, <1>6 DEF IInv, TypeOK
<1>8. \A j \in 1 .. Len(tasks') : j = Len(tasks) + 1 \/ j \in 1 .. Len(tasks)
  BY <1>3, <1>4
<1>9. \A j \in 1 .. Len(tasks) : tasks[j].id \in Nat /\ tasks[j].id <= created
  <2>1. \A j \in 1 .. Len(tasks) : tasks[j] \in TaskRecord
    BY <1>3
  <2>2. QED
    BY <2>1 DEF IInv, IdsOrdered, TaskRecord
<1>10. IdsOrdered'
  <2>1. \A j \in 1 .. Len(tasks') : 1 <= tasks'[j].id /\ tasks'[j].id <= created'
    BY <1>2, <1>3, <1>4, <1>8, <1>9 DEF IInv, IdsOrdered
  <2>2. ASSUME NEW j \in 1 .. Len(tasks'), NEW k \in 1 .. Len(tasks'), j < k
        PROVE  tasks'[j].id < tasks'[k].id
    <3>1. j \in 1 .. Len(tasks)
      BY <1>3, <1>4, <2>2
    <3>2. CASE k \in 1 .. Len(tasks)
      BY <1>4, <2>2, <3>1, <3>2 DEF IInv, IdsOrdered
    <3>3. CASE k = Len(tasks) + 1
      BY <1>2, <1>3, <1>4, <1>9, <3>1, <3>3
    <3>4. QED
      BY <1>8, <3>2, <3>3
  <2>3. QED
    BY <2>1, <2>2 DEF IdsOrdered
<1>11. ReferenceValid'
  <2>1. Holding => \E j \in 1 .. Len(tasks) : tasks[j].id = cur
    BY DEF IInv, ReferenceValid
  <2>2. Holding => e.id # cur
    BY <1>2, <1>3, <1>9, <2>1
  <2>3. Holding' => \E j \in 1 .. Len(tasks') : tasks'[j].id = cur'
    BY <1>3, <1>4, <1>5, <2>1
  <2>4. QED
    BY <1>2, <1>4, <1>5, <1>8, <2>2, <2>3 DEF IInv, ReferenceValid
<1>12. ServedInOrder'
  <2>1. ASSUME NEW j \in 1 .. Len(tasks'), NEW k \in 1 .. Len(tasks'),
               j < k, tasks'[k].status # "INIT"
        PROVE  tasks'[j].status = "OVER"
    <3>1. k \in 1 .. Len(tasks) /\ j \in 1 .. Len(tasks)
      BY <1>2, <1>3, <1>4, <1>8, <2>1
    <3>2. QED
      BY <1>4, <2>1, <3>1 DEF IInv, ServedInOrder
  <2>2. QED
    BY <2>1 DEF ServedInOrder
<1>13. ResultsInv'
  <2>1. EntryInv(e, wpc', attrs')
    BY <1>2 DEF EntryInv
  <2>2. \A j \in 1 .. Len(tasks) : EntryInv(tasks[j], wpc', attrs')
    BY <1>5 DEF IInv, ResultsInv, EntryInv, Progress
  <2>3. QED
    BY <1>4, <1>8, <2>1, <2>2 DEF ResultsInv
<1>14. ResultComplete'
  BY ReplyComplete DEF PostAccepted
<1>15. QED
  BY <1>7, <1>10, <1>11, <1>12, <1>13, <1>14 DEF IInv

(* get erases a task that is over, never the one in hand.                  *)
LEMMA GetOverStep ==
    ASSUME IInv, NEW u \in Uuids, GetOver(u)
    PROVE  IInv'
<1>1. PICK i \in 1 .. Len(tasks) :
        /\ tasks[i].status = "OVER"
        /\ tasks' = Erase(tasks, i)
        /\ answer' = [op |-> "get", uuid |-> u, code |-> tasks[i].error,
                      asked |-> tasks[i].dirs, out |-> tasks[i].out]
  BY DEF GetOver
<1>2. tasks \in Seq(TaskRecord) /\ Len(tasks) \in Nat
  BY DEF IInv, TypeOK
<1>3. /\ tasks' \in Seq(TaskRecord)
      /\ Len(tasks') = Len(tasks) - 1
      /\ \A j \in 1 .. Len(tasks) - 1 :
             tasks'[j] = tasks[IF j < i THEN j ELSE j + 1]
  BY <1>1, <1>2, EraseSeq
<1>4. /\ UNCHANGED <<created, exit, main, wpc, cur, attrs, crashed>>
      /\ Holding' <=> Holding
  BY DEF GetOver, Holding
<1>5. TypeOK'
  <2>1. owed' \in [Uuids -> Int]
    BY OwedType DEF GetOver, IInv, TypeOK
  <2>2. QED
    BY <1>3, <1>4, <2>1 DEF IInv, TypeOK
<1> DEFINE Old(j) == IF j < i THEN j ELSE j + 1
<1>6. /\ \A j \in 1 .. Len(tasks') :
             Old(j) \in 1 .. Len(tasks) /\ tasks'[j] = tasks[Old(j)]
      /\ \A j, k \in 1 .. Len(tasks') : j < k => Old(j) < Old(k)
  BY <1>2, <1>3
<1> HIDE DEF Old
<1>7. IdsOrdered'
  BY <1>6, <1>4 DEF IInv, IdsOrdered
<1>8. ServedInOrder'
  BY <1>6 DEF IInv, ServedInOrder
<1>9. ReferenceValid'
  <2>1. Holding' => \E j \in 1 .. Len(tasks') : tasks'[j].id = cur'
    <3> SUFFICES ASSUME Holding
                 PROVE  \E j \in 1 .. Len(tasks') : tasks'[j].id = cur
      BY <1>4
    <3>1. PICK k \in 1 .. Len(tasks) : tasks[k].id = cur
      BY DEF IInv, ReferenceValid
    <3>2. k # i
      BY <1>1, <3>1 DEF IInv, ReferenceValid
    <3>3. CASE k < i
      <4>1. k \in 1 .. Len(tasks') /\ tasks'[k] = tasks[k]
        BY <1>2, <1>3, <3>3
      <4>2. QED
        BY <3>1, <4>1
    <3>4. CASE k > i
      <4>1. k - 1 \in 1 .. Len(tasks') /\ tasks'[k - 1] = tasks[k]
        BY <1>2, <1>3, <3>4
      <4>2. QED
        BY <3>1, <4>1
    <3>5. QED
      BY <3>2, <3>3, <3>4
  <2>2. QED
    BY <1>4, <1>6, <2>1 DEF IInv, ReferenceValid
<1>10. ResultsInv'
  BY <1>4, <1>6 DEF IInv, ResultsInv
<1>11. ResultComplete'
  <2>1. Finished(tasks[i])
    BY <1>1 DEF IInv, ResultsInv, EntryInv
  <2>2. /\ answer'.code = tasks[i].error
        /\ answer'.asked = tasks[i].dirs
        /\ answer'.out = tasks[i].out
    BY <1>1
  <2>3. QED
    BY <2>1, <2>2 DEF ResultComplete, Finished, Whole
<1>12. QED
  BY <1>5, <1>7, <1>8, <1>9, <1>10, <1>11 DEF IInv

-----------------------------------------------------------------------------
(* Every step of a handler, of the worker and of main() preserves the      *)
(* invariant.                                                              *)
LEMMA Inductive == IInv /\ [Next]_vars => IInv'
<1> SUFFICES ASSUME IInv, [Next]_vars PROVE IInv'
  OBVIOUS
<1>1. ASSUME NEW r \in Requests, PostRefused(r) PROVE IInv'
  <2>1. TypeOK'
    BY <1>1 DEF PostRefused, IInv, TypeOK
  <2>2. ResultComplete'
    <3>1. CASE UNCHANGED answer
      BY <3>1 DEF IInv, ResultComplete
    <3>2. CASE Reply("post", r.uuid, PostCode(r))
      BY <3>2, ReplyComplete
    <3>3. QED
      BY <1>1, <3>1, <3>2 DEF PostRefused
  <2>3. QED
    BY <1>1, <2>1, <2>2, ListUnchanged DEF PostRefused
<1>2. ASSUME NEW r \in Requests, PostAccepted(r) PROVE IInv'
  BY <1>2, PostAcceptedStep
<1>3. ASSUME NEW u \in Uuids, GetOver(u) PROVE IInv'
  BY <1>3, GetOverStep
<1>4. ASSUME NEW u \in Uuids, GetRetry(u) PROVE IInv'
  <2>1. TypeOK' /\ ResultComplete'
    BY <1>4, ReplyComplete DEF GetRetry, IInv, TypeOK
  <2>2. QED
    BY <1>4, <2>1, ListUnchanged DEF GetRetry
<1>5. ASSUME NEW u \in Uuids, GetNotFound(u) PROVE IInv'
  <2>1. TypeOK' /\ ResultComplete'
    BY <1>5, ReplyComplete DEF GetNotFound, IInv, TypeOK
  <2>2. QED
    BY <1>5, <2>1, ListUnchanged DEF GetNotFound
<1>6. ASSUME NEW u \in Uuids \cup {NoUuid}, NEW json \in BOOLEAN,
             GetRefused(u, json)
      PROVE IInv'
  <2>1. TypeOK'
    BY <1>6 DEF GetRefused, IInv, TypeOK
  <2>2. ResultComplete'
    BY <1>6, ReplyComplete DEF GetRefused
  <2>3. QED
    BY <1>6, <2>1, <2>2, ListUnchanged DEF GetRefused
<1>7. CASE CheckExit \/ PickWait \/ FallAsleep \/ SpuriousWakeup
  <2>1. TypeOK' /\ ResultComplete'
    BY <1>7 DEF CheckExit, PickWait, FallAsleep, SpuriousWakeup, IInv, TypeOK,
                ResultComplete
  <2>2. wpc \in Outside /\ wpc' \in Outside
    BY <1>7 DEF CheckExit, PickWait, FallAsleep, SpuriousWakeup, Outside
  <2>3. UNCHANGED <<tasks, created, cur, attrs>>
    BY <1>7 DEF CheckExit, PickWait, FallAsleep, SpuriousWakeup
  <2>4. QED
    BY <2>1, <2>2, <2>3, ListUnchanged
<1>8. CASE PickTask
  BY <1>8, PickTaskStep
<1>9. CASE PickNothing \/ NotADirectory \/ StopServer \/ Destructor
  <2>1. TypeOK' /\ ResultComplete'
    BY ZenonT(30), <1>9 DEF PickNothing, NotADirectory, StopServer, Destructor, IInv,
                TypeOK, ResultComplete
  <2>2. UNCHANGED <<tasks, created, wpc, cur, attrs>>
    BY <1>9 DEF PickNothing, NotADirectory, StopServer, Destructor
  <2>3. QED
    BY <2>1, <2>2, ListUnchanged
<1>10. CASE Start
  BY <1>10, StartStep
<1>11. ASSUME NEW code \in StatCodes, Examine(code) PROVE IInv'
  BY <1>11, ExamineStep
<1>12. CASE FillHeader
  BY <1>12, FillHeaderStep
<1>13. CASE FillDir
  BY <1>13, FillDirStep
<1>14. CASE FillDone
  BY <1>14, FillDoneStep
<1>15. CASE thd_worker_set_task_over
  BY <1>15, SetOverStep
<1>16. CASE UNCHANGED vars
  <2>1. TypeOK' /\ ResultComplete'
    BY <1>16 DEF vars, IInv, TypeOK, ResultComplete
  <2>2. UNCHANGED <<tasks, created, wpc, cur, attrs>>
    BY <1>16 DEF vars
  <2>3. QED
    BY <2>1, <2>2, ListUnchanged
<1>17. QED
  BY <1>1, <1>2, <1>3, <1>4, <1>5, <1>6, <1>7, <1>8, <1>9, <1>10, <1>11,
     <1>12, <1>13, <1>14, <1>15, <1>16
  DEF Next, Post, Get, WorkerStep

(* The invariant holds throughout.                                         *)
LEMMA Invariance == Spec => []IInv
  BY Initially, Inductive, PTL DEF Spec

-----------------------------------------------------------------------------
(* The variables keep their types, for every set of requests a peer may    *)
(* POST.                                                                   *)
THEOREM TypeCorrect == Spec => []TypeOK
<1>1. IInv => TypeOK
  BY DEF IInv
<1>2. QED
  BY <1>1, Invariance, PTL

(* While the worker runs a task, the entry its unlocked reference points   *)
(* to is in task_list_ and RUNNING, and no other entry is, whatever the    *)
(* handlers add, fetch and erase meanwhile and however long the list is.   *)
THEOREM ReferenceStaysValid == Spec => []ReferenceValid
<1>1. IInv => ReferenceValid
  BY DEF IInv
<1>2. QED
  BY <1>1, Invariance, PTL

(* The worker serves tasks in the order they were added: whatever is older *)
(* than a task that has been picked is over.                               *)
THEOREM ServiceInOrder == Spec => []ServedInOrder
<1>1. IInv => ServedInOrder
  BY DEF IInv
<1>2. QED
  BY <1>1, Invariance, PTL

(* A result handed out by get answers its request directory by directory,  *)
(* although the worker fills it without the lock: get sees a task OVER     *)
(* only when the result is finished.                                       *)
THEOREM ResultsWhole == Spec => []ResultComplete
<1>1. IInv => ResultComplete
  BY DEF IInv
<1>2. QED
  BY <1>1, Invariance, PTL

-----------------------------------------------------------------------------
(* Accepted and not yet fetched                                            *)

(* The positions of the entries of a uuid in a list.                       *)
Of(s, u) == {i \in 1 .. Len(s) : s[i].uuid = u}

(* They can be counted.                                                    *)
LEMMA OfFinite ==
    ASSUME NEW S, NEW s \in Seq(S), NEW u
    PROVE  IsFiniteSet(Of(s, u)) /\ Cardinality(Of(s, u)) \in Nat
<1>1. IsFiniteSet(1 .. Len(s))
  BY FS_Interval
<1>2. Of(s, u) \subseteq 1 .. Len(s)
  BY DEF Of
<1>3. QED
  BY <1>1, <1>2, FS_Subset, FS_CardinalityType

(* An entry added at the end is one more of its uuid, none of another.     *)
LEMMA OfAppend ==
    ASSUME NEW S, NEW s \in Seq(S), NEW e \in S, NEW u
    PROVE  Cardinality(Of(Append(s, e), u))
               = Cardinality(Of(s, u)) + (IF e.uuid = u THEN 1 ELSE 0)
<1> DEFINE t == Append(s, e)
<1>1. /\ t \in Seq(S) /\ Len(t) = Len(s) + 1 /\ t[Len(s) + 1] = e
      /\ \A j \in 1 .. Len(s) : t[j] = s[j]
  BY AppendSeq
<1> HIDE DEF t
<1>2. Len(s) \in Nat /\ Len(s) + 1 \notin Of(s, u)
  BY DEF Of
<1>3. CASE e.uuid = u
  <2>1. Of(t, u) = Of(s, u) \cup {Len(s) + 1}
    BY <1>1, <1>2, <1>3 DEF Of
  <2>2. IsFiniteSet(Of(s, u)) /\ Cardinality(Of(s, u)) \in Nat
    BY OfFinite
  <2>3. Cardinality(Of(s, u) \cup {Len(s) + 1}) = Cardinality(Of(s, u)) + 1
    BY <1>2, <2>2, FS_AddElement
  <2>4. QED
    BY <1>3, <2>1, <2>3 DEF t
<1>4. CASE e.uuid # u
  <2>1. Of(t, u) = Of(s, u)
    BY <1>1, <1>2, <1>4 DEF Of
  <2>2. QED
    BY <1>4, <2>1, OfFinite DEF t
<1>5. QED
  BY <1>3, <1>4

(* An entry erased is one less of its uuid, none of another: the others    *)
(* only move up.                                                           *)
LEMMA OfErase ==
    ASSUME NEW S, NEW s \in Seq(S), NEW i \in 1 .. Len(s), NEW u
    PROVE  Cardinality(Of(Erase(s, i), u))
               = Cardinality(Of(s, u)) - (IF s[i].uuid = u THEN 1 ELSE 0)
<1>1. PICK t \in Seq(S) :
        /\ t = Erase(s, i)
        /\ Len(t) = Len(s) - 1
        /\ \A j \in 1 .. Len(s) - 1 : t[j] = s[IF j < i THEN j ELSE j + 1]
  BY EraseSeq
<1>2. Len(s) \in Nat
  OBVIOUS
<1> DEFINE A == Of(t, u)
           B == Of(s, u) \ {i}
           f == [j \in A |-> IF j < i THEN j ELSE j + 1]
<1>3. IsFiniteSet(A) /\ IsFiniteSet(Of(s, u))
  BY OfFinite
<1>4. f \in [A -> B]
  BY <1>1, <1>2 DEF Of
<1>5. \A j, k \in A : f[j] = f[k] => j = k
  BY <1>1, <1>2 DEF Of
<1>6. \A k \in B : \E j \in A : f[j] = k
  <2> SUFFICES ASSUME NEW k \in B PROVE \E j \in A : f[j] = k
    OBVIOUS
  <2>1. CASE k < i
    <3>1. k \in 1 .. Len(s) /\ s[k].uuid = u
      BY DEF Of
    <3>2. k \in 1 .. Len(s) - 1 /\ t[k] = s[k]
      BY <1>1, <1>2, <2>1, <3>1
    <3>3. k \in A
      BY <1>1, <3>1, <3>2 DEF Of
    <3>4. QED
      BY <2>1, <3>3
  <2>2. CASE k > i
    <3>1. k \in 1 .. Len(s) /\ s[k].uuid = u
      BY DEF Of
    <3>2. k - 1 \in 1 .. Len(s) - 1 /\ k - 1 + 1 = k /\ ~(k - 1 < i)
      BY <1>2, <2>2, <3>1
    <3>3. t[k - 1] = s[k]
      BY <1>1, <3>2
    <3>4. k - 1 \in A
      BY <1>1, <3>1, <3>2, <3>3 DEF Of
    <3>5. QED
      BY <3>2, <3>4
  <2>3. k \in Int /\ i \in Int /\ k # i
    BY <1>2 DEF Of
  <2>4. k < i \/ k > i
    BY <2>3
  <2>5. QED
    BY <2>1, <2>2, <2>4
<1> HIDE DEF f, A, B
<1>7. f \in Bijection(A, B)
  BY <1>4, <1>5, <1>6 DEF Bijection, Injection, Surjection, IsInjective
<1>8. ExistsBijection(A, B)
  BY <1>7 DEF ExistsBijection
<1>9. Cardinality(B) = Cardinality(A)
  BY <1>3, <1>8, FS_Bijection
<1>10. Cardinality(B)
          = Cardinality(Of(s, u)) - (IF s[i].uuid = u THEN 1 ELSE 0)
  <2>1. i \in Of(s, u) <=> s[i].uuid = u
    BY DEF Of
  <2>2. Cardinality(Of(s, u)) \in Nat
    BY OfFinite
  <2>3. Cardinality(Of(s, u) \ {i})
          = IF i \in Of(s, u) THEN Cardinality(Of(s, u)) - 1
                              ELSE Cardinality(Of(s, u))
    BY <1>3, FS_RemoveElement
  <2>4. QED
    BY <2>1, <2>2, <2>3 DEF B
<1>11. QED
  BY <1>1, <1>9, <1>10 DEF A

(* Steps that leave every entry its uuid.                                  *)
LEMMA UuidsKept ==
    ASSUME NothingForgotten, owed' = owed, Len(tasks') = Len(tasks),
           \A j \in 1 .. Len(tasks) : tasks'[j].uuid = tasks[j].uuid
    PROVE  NothingForgotten'
<1>1. \A u : {i \in 1 .. Len(tasks') : tasks'[i].uuid = u}
               = {i \in 1 .. Len(tasks) : tasks[i].uuid = u}
  OBVIOUS
<1>2. QED
  BY <1>1 DEF NothingForgotten

(* Every step keeps the books.                                             *)
LEMMA ForgottenStep == IInv /\ NothingForgotten /\ [Next]_vars => NothingForgotten'
<1> SUFFICES ASSUME IInv, NothingForgotten, [Next]_vars PROVE NothingForgotten'
  OBVIOUS
<1>0. tasks \in Seq(TaskRecord) /\ owed \in [Uuids -> Int]
  BY DEF IInv, TypeOK
<1>1. ASSUME NEW r \in Requests, PostAccepted(r) PROVE NothingForgotten'
  <2>1. r.uuid \in Uuids
    BY <1>1, AcceptedType DEF PostAccepted
  <2>2. PICK e \in TaskRecord : tasks' = Append(tasks, e) /\ e.uuid = r.uuid
    <3> DEFINE t == [id |-> created + 1, uuid |-> r.uuid,
                     status |-> "INIT", dirs |-> r.dirs,
                     base |-> "base_dir" \in r.fields,
                     error |-> "none", out |-> << >>]
    <3>1. created + 1 \in Nat /\ ("base_dir" \in r.fields) \in BOOLEAN
      BY DEF IInv, TypeOK
    <3>2. << >> \in Seq([dir : Dirs, code : StatCodes]) /\ r.dirs \in Seq(Dirs)
      BY <1>1, AcceptedType DEF PostAccepted
    <3>3. t \in TaskRecord
      BY <2>1, <3>1, <3>2 DEF TaskRecord
    <3>4. t.uuid = r.uuid /\ tasks' = Append(tasks, t)
      BY <1>1 DEF PostAccepted, add
    <3> HIDE DEF t
    <3>5. QED
      BY <3>3, <3>4
  <2>3. owed' = [owed EXCEPT ![r.uuid] = @ + 1]
    BY <1>1 DEF PostAccepted
  <2>4. ASSUME NEW u \in Uuids PROVE owed'[u] = Cardinality(Of(tasks', u))
    <3>1. owed[u] = Cardinality(Of(tasks, u))
      BY DEF NothingForgotten, Of
    <3>2. owed'[u] = owed[u] + (IF r.uuid = u THEN 1 ELSE 0)
      BY <1>0, <2>1, <2>3
    <3>3. QED
      BY <1>0, <2>2, <3>1, <3>2, OfAppend
  <2>5. QED
    BY <2>4 DEF NothingForgotten, Of
<1>2. ASSUME NEW u \in Uuids, GetOver(u) PROVE NothingForgotten'
  <2>1. PICK i \in 1 .. Len(tasks) :
          tasks[i].uuid = u /\ tasks' = Erase(tasks, i)
    BY <1>2 DEF GetOver, IsFirst
  <2>2. owed' = [owed EXCEPT ![u] = @ - 1]
    BY <1>2 DEF GetOver
  <2>3. ASSUME NEW v \in Uuids PROVE owed'[v] = Cardinality(Of(tasks', v))
    <3>1. owed[v] = Cardinality(Of(tasks, v))
      BY DEF NothingForgotten, Of
    <3>2. owed'[v] = owed[v] - (IF u = v THEN 1 ELSE 0)
      BY <1>0, <2>2
    <3>3. QED
      BY <1>0, <2>1, <3>1, <3>2, OfErase
  <2>4. QED
    BY <2>3 DEF NothingForgotten, Of
<1>3. ASSUME UNCHANGED <<tasks, owed>> PROVE NothingForgotten'
  BY <1>3 DEF NothingForgotten
<1>4. ASSUME owed' = owed, NEW i \in 1 .. Len(tasks), NEW e \in TaskRecord,
             e.uuid = tasks[i].uuid, tasks' = [tasks EXCEPT ![i] = e]
      PROVE  NothingForgotten'
  <2>1. Len(tasks') = Len(tasks)
        /\ \A j \in 1 .. Len(tasks) : tasks'[j] = IF j = i THEN e ELSE tasks[j]
    BY <1>0, <1>4
  <2>2. QED
    BY <1>4, <2>1, UuidsKept
<1>5. CASE PickTask
  <2>1. PICK i \in 1 .. Len(tasks) :
          tasks' = [tasks EXCEPT ![i].status = "RUNNING"]
    BY <1>5 DEF PickTask
  <2>2. PICK e \in TaskRecord :
          e = [tasks[i] EXCEPT !.status = "RUNNING"] /\ e.uuid = tasks[i].uuid
    <3>1. tasks[i] \in TaskRecord
      BY <1>0
    <3>2. QED
      BY <3>1, WithStatus
  <2>3. QED
    BY <1>4, <1>5, <2>1, <2>2 DEF PickTask
<1>6. CASE Start
  <2>1. PICK i \in 1 .. Len(tasks) :
          \/ UNCHANGED tasks
          \/ tasks' = [tasks EXCEPT ![i].error = "E_OS_ENV_CHDIR"]
    BY <1>6 DEF Start
  <2>2. PICK e \in TaskRecord :
          /\ e = [tasks[i] EXCEPT !.error = "E_OS_ENV_CHDIR"]
          /\ e.uuid = tasks[i].uuid
    <3>1. tasks[i] \in TaskRecord
      BY <1>0
    <3>2. QED
      BY <3>1, WithError
  <2>3. QED
    BY <1>3, <1>4, <1>6, <2>1, <2>2 DEF Start
<1>7. CASE FillHeader
  <2>1. PICK i \in 1 .. Len(tasks) :
          tasks' = [tasks EXCEPT ![i].error = "S_SUCCESS"]
    BY <1>7 DEF FillHeader
  <2>2. PICK e \in TaskRecord :
          e = [tasks[i] EXCEPT !.error = "S_SUCCESS"] /\ e.uuid = tasks[i].uuid
    <3>1. tasks[i] \in TaskRecord
      BY <1>0
    <3>2. QED
      BY <3>1, WithError
  <2>3. QED
    BY <1>4, <1>7, <2>1, <2>2 DEF FillHeader
<1>8. CASE FillDir
  <2>1. PICK i \in 1 .. Len(tasks) :
          /\ Len(tasks[i].out) < Len(attrs)
          /\ tasks' = [tasks EXCEPT ![i].out =
                            Append(@, attrs[Len(tasks[i].out) + 1])]
    BY <1>8 DEF FillDir
  <2>2. tasks[i] \in TaskRecord
    BY <1>0
  <2>3. /\ tasks[i].out \in Seq([dir : Dirs, code : StatCodes])
        /\ attrs \in Seq([dir : Dirs, code : StatCodes])
    BY <2>2 DEF TaskRecord, IInv, TypeOK
  <2>4. PICK o \in Seq([dir : Dirs, code : StatCodes]) :
          o = Append(tasks[i].out, attrs[Len(tasks[i].out) + 1])
    BY ZenonT(30), <2>1, <2>3, CopyNext
  <2>5. PICK e \in TaskRecord :
          /\ e = [tasks[i] EXCEPT !.out = o]
          /\ e.status = tasks[i].status /\ e.id = tasks[i].id
          /\ e.dirs = tasks[i].dirs /\ e.uuid = tasks[i].uuid
          /\ e.error = tasks[i].error /\ e.out = o
    BY <2>2, WithOut
  <2>6. tasks' = [tasks EXCEPT ![i] = e]
    BY <2>1, <2>4, <2>5
  <2>7. QED
    BY <1>4, <1>8, <2>5, <2>6 DEF FillDir
<1>9. CASE thd_worker_set_task_over
  <2>1. PICK i \in 1 .. Len(tasks) :
          tasks' = [tasks EXCEPT ![i].status = "OVER"]
    BY <1>9 DEF thd_worker_set_task_over
  <2>2. PICK e \in TaskRecord :
          e = [tasks[i] EXCEPT !.status = "OVER"] /\ e.uuid = tasks[i].uuid
    <3>1. tasks[i] \in TaskRecord
      BY <1>0
    <3>2. QED
      BY <3>1, WithStatus
  <2>3. QED
    BY <1>4, <1>9, <2>1, <2>2 DEF thd_worker_set_task_over
<1>10. ASSUME NEW r \in Requests, PostRefused(r) PROVE NothingForgotten'
  BY <1>3, <1>10 DEF PostRefused
<1>11. ASSUME NEW u \in Uuids, GetRetry(u) \/ GetNotFound(u)
       PROVE  NothingForgotten'
  BY <1>3, <1>11 DEF GetRetry, GetNotFound
<1>12. ASSUME NEW u \in Uuids \cup {NoUuid}, NEW json \in BOOLEAN,
              GetRefused(u, json)
       PROVE  NothingForgotten'
  BY <1>3, <1>12 DEF GetRefused
<1>13. ASSUME NEW code \in StatCodes, Examine(code) PROVE NothingForgotten'
  BY <1>3, <1>13 DEF Examine
<1>14. CASE \/ CheckExit \/ PickWait \/ FallAsleep \/ SpuriousWakeup \/ PickNothing
            \/ NotADirectory \/ FillDone \/ StopServer \/ Destructor
            \/ UNCHANGED vars
  BY <1>3, <1>14 DEF CheckExit, PickWait, FallAsleep, SpuriousWakeup, PickNothing,
                     NotADirectory, FillDone, StopServer, Destructor, vars
<1>15. QED
  BY <1>1, <1>2, <1>5, <1>6, <1>7, <1>8, <1>9, <1>10, <1>11, <1>12, <1>13,
     <1>14
  DEF Next, Post, Get, WorkerStep

(* Every accepted task stays in task_list_ until it is fetched, and is     *)
(* fetched at most once, however many tasks share its uuid: a GET between  *)
(* the two never answers E_NOT_FOUND.                                      *)
THEOREM FetchedAsOftenAsAccepted == Spec => []NothingForgotten
<1>1. Init => NothingForgotten
  <2> SUFFICES ASSUME Init PROVE NothingForgotten
    OBVIOUS
  <2>1. \A u : {i \in 1 .. Len(tasks) : tasks[i].uuid = u} = {}
    BY DEF Init
  <2>2. QED
    BY <2>1, FS_EmptySet DEF Init, NothingForgotten
<1>2. QED
  BY <1>1, Invariance, Inductive, Initially, ForgottenStep, PTL DEF Spec
=============================================================================
