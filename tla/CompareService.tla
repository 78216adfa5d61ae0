--------------------------- MODULE CompareService ---------------------------
(***************************************************************************)
(* The compare server seen from its clients: POST /task/{uuid} and         *)
(* GET /task/{uuid} of main.cc on the HTTP handler threads, and the worker *)
(* thread of dc_compare_t between task_q_ and out_q_.                      *)
(*                                                                         *)
(* The two channels are bounded FIFOs here.  Theorem Refinement of module  *)
(* SPSCQueueProof says they are, as long as one thread writes and one      *)
(* thread reads; what happens when several handlers post or get at the     *)
(* same time is the subject of the runs of SPSCQueue.  So the constants    *)
(* are assumed to have one thread at most that serves POSTs and one at     *)
(* most that serves GETs, perhaps the same one.  What one task computes is *)
(* module CompareJob; here a job ends with or without an error, with or    *)
(* without directories left in dir_q_, ends the process, or never ends.    *)
(* task_uuid_set is a plain std::unordered_set that all handlers change    *)
(* without a lock: a change is a load of the set and a store of the        *)
(* changed one, so that concurrent changes may be lost, as they may in the *)
(* code.                                                                   *)
(***************************************************************************)
EXTENDS Naturals, Sequences, FiniteSets

CONSTANTS Posters,        \* handler threads that serve POST /task
          Getters,        \* handler threads that serve GET /task
          Uuids,          \* task identifiers clients use
          Room,           \* capacity of task_q_ and of out_q_
          MaxTasks        \* bound: number of tasks allocated

ASSUME OnePoster == \A g, h \in Posters : g = h
ASSUME OneGetter == \A g, h \in Getters : g = h
ASSUME RoomAssumption == Room \in Nat \ {0}
ASSUME MaxTasksAssumption == MaxTasks \in Nat

VARIABLES
    taskQ, outQ,          \* task_q_ and out_q_: sequences of tasks
    uuids,                \* task_uuid_set
    count,                \* tasks allocated so far; a task's id
    heap,                 \* ids of the task objects that are allocated
    added, fetched,       \* ghosts: tasks added and fetched, in order
    hpc, huuid, htask,    \* handlers: program counter, {uuid}, local task
    hset,                 \* handlers: the set as loaded by insert or erase
    wpc, wtask,           \* worker: program counter, task
    left,                 \* dir_q_ is not empty
    exit,                 \* exit_
    serving,              \* main has not stopped the server
    answer                \* the last answer to a client

queues == <<taskQ, outQ, added, fetched>>
handlerVars == <<hpc, huuid, htask, hset>>
workerVars == <<wpc, wtask, left>>
Handlers == Posters \cup Getters
vars == <<queues, uuids, count, heap, handlerVars, workerVars, exit, serving,
          answer>>

NoTask == [id |-> 0, uuid |-> "none"]
NoAnswer == [code |-> "none", uuid |-> "none", result |-> "none"]

Init ==
    /\ taskQ = << >> /\ outQ = << >> /\ added = << >> /\ fetched = << >>
    /\ uuids = {}
    /\ count = 0
    /\ heap = {}
    /\ hpc = [h \in Handlers |-> "idle"]
    /\ huuid = [h \in Handlers |-> "none"]
    /\ htask = [h \in Handlers |-> NoTask]
    /\ hset = [h \in Handlers |-> {}]
    /\ wpc = "loop"
    /\ wtask = NoTask
    /\ left = FALSE
    /\ exit = FALSE
    /\ serving = TRUE
    /\ answer = NoAnswer

(* Neither the assertion on dir_q_ nor a job has ended the process.        *)
Running == wpc \notin {"panic", "abort"}

(* What the client is told: a JSON with "error", the "msg" of an accepted  *)
(* POST, or a result; for a result, which task was asked for and which was *)
(* delivered.                                                              *)
SayError == answer' = [NoAnswer EXCEPT !.code = "error"]
SayPutIntoQueue == answer' = [NoAnswer EXCEPT !.code = "msg"]
SayResult(u, r) == answer' = [code |-> "result", uuid |-> u, result |-> r]

(* The handler returns; its locals die.                                    *)
Return(h) ==
    /\ hpc' = [hpc EXCEPT ![h] = "idle"]
    /\ huuid' = [huuid EXCEPT ![h] = "none"]
    /\ hset' = [hset EXCEPT ![h] = {}]

-----------------------------------------------------------------------------
(* POST /task/{uuid}                                                       *)

(* An empty uuid, another content type or an empty body.                   *)
PostRefused(h) ==
    /\ Running
    /\ serving
    /\ hpc[h] = "idle"
    /\ SayError
    /\ UNCHANGED <<queues, uuids, count, heap, handlerVars, workerVars, exit,
                   serving>>

(* new dc_api_task_t, build_task_from_json and the comparison of the two   *)
(* uuids.  When one of them fails the handler returns and the object stays.*)
PostBuild(h, u) ==
    /\ Running
    /\ serving
    /\ hpc[h] = "idle"
    /\ count < MaxTasks
    /\ count' = count + 1
    /\ heap' = heap \cup {count + 1}
    /\ \/ /\ SayError
          /\ UNCHANGED handlerVars
       \/ /\ hpc' = [hpc EXCEPT ![h] = "add"]
          /\ huuid' = [huuid EXCEPT ![h] = u]
          /\ htask' = [htask EXCEPT ![h] = [id |-> count + 1, uuid |-> u]]
          /\ UNCHANGED <<hset, answer>>
    /\ UNCHANGED <<queues, uuids, workerVars, exit, serving>>

(* Mutant: push does not wait for room.                                    *)
addUnbounded(h) ==
    /\ Running
    /\ hpc[h] = "add"
    /\ taskQ' = Append(taskQ, htask[h])
    /\ added' = Append(added, htask[h])
    /\ htask' = [htask EXCEPT ![h] = NoTask]
    /\ hpc' = [hpc EXCEPT ![h] = "insert"]
    /\ UNCHANGED <<outQ, fetched, uuids, count, heap, huuid, hset, workerVars,
                   exit, serving, answer>>

(* compare_worker.add: the push spins while task_q_ is full.               *)
add(h) ==
    /\ Running
    /\ hpc[h] = "add"
    /\ Len(taskQ) < Room
    /\ taskQ' = Append(taskQ, htask[h])
    /\ added' = Append(added, htask[h])
    /\ htask' = [htask EXCEPT ![h] = NoTask]
    /\ hpc' = [hpc EXCEPT ![h] = "insert"]
    /\ UNCHANGED <<outQ, fetched, uuids, count, heap, huuid, hset, workerVars,
                   exit, serving, answer>>

-----------------------------------------------------------------------------
(* GET /task/{uuid}                                                        *)

GetFind(h, u) ==
    /\ Running
    /\ serving
    /\ hpc[h] = "idle"
    /\ IF u \in uuids
       THEN /\ hpc' = [hpc EXCEPT ![h] = "get"]
            /\ huuid' = [huuid EXCEPT ![h] = u]
            /\ UNCHANGED answer
       ELSE /\ SayError
            /\ UNCHANGED <<hpc, huuid>>
    /\ UNCHANGED <<queues, uuids, count, heap, htask, hset, workerVars, exit,
                   serving>>

(* compare_worker.get: takes the oldest result, whatever its uuid, and     *)
(* deletes the task.                                                       *)
GetResult(h) ==
    /\ Running
    /\ hpc[h] = "get"
    /\ IF outQ = << >>
       THEN /\ SayError
            /\ Return(h)
            /\ UNCHANGED <<outQ, fetched, heap>>
       ELSE /\ SayResult(huuid[h], Head(outQ).uuid)
            /\ outQ' = Tail(outQ)
            /\ fetched' = Append(fetched, Head(outQ))
            /\ heap' = heap \ {Head(outQ).id}
            /\ hpc' = [hpc EXCEPT ![h] = "erase"]
            /\ UNCHANGED <<huuid, hset>>
    /\ UNCHANGED <<taskQ, added, uuids, count, htask, workerVars,
                   exit, serving>>

-----------------------------------------------------------------------------
(* task_uuid_set.insert and task_uuid_set.erase                            *)

SetLoad(h) ==
    /\ Running
    /\ hpc[h] \in {"insert", "erase"}
    /\ hset' = [hset EXCEPT ![h] = uuids]
    /\ hpc' = [hpc EXCEPT ![h] = IF @ = "insert" THEN "inserting" ELSE "erasing"]
    /\ UNCHANGED <<queues, uuids, count, heap, huuid, htask, workerVars, exit,
                   serving, answer>>

InsertStore(h) ==
    /\ Running
    /\ hpc[h] = "inserting"
    /\ uuids' = hset[h] \cup {huuid[h]}
    /\ SayPutIntoQueue
    /\ Return(h)
    /\ UNCHANGED <<queues, count, heap, htask, workerVars, exit,
                   serving>>

EraseStore(h) ==
    /\ Running
    /\ hpc[h] = "erasing"
    /\ uuids' = hset[h] \ {huuid[h]}
    /\ Return(h)
    /\ UNCHANGED <<queues, count, heap, htask, workerVars, exit,
                   serving, answer>>

-----------------------------------------------------------------------------
(* Mutant: the loop does not look at exit_.                                *)
CheckNothing ==
    /\ wpc = "loop"
    /\ wpc' = IF left THEN "panic" ELSE "read"
    /\ UNCHANGED <<queues, uuids, count, heap, handlerVars, wtask, left, exit,
                   serving, answer>>

(* Mutant: the worker ends when it finds no task.                          *)
ReadOrQuit ==
    /\ wpc = "read"
    /\ IF taskQ = << >>
       THEN /\ wpc' = "done"
            /\ UNCHANGED <<taskQ, wtask>>
       ELSE /\ wtask' = Head(taskQ)
            /\ taskQ' = Tail(taskQ)
            /\ wpc' = "run"
    /\ UNCHANGED <<outQ, added, fetched, uuids, count, heap, handlerVars, left,
                   exit, serving, answer>>

(* dc_compare_t::execute: while (!exit_), then the assertion that dir_q_   *)
(* is empty.                                                               *)
CheckExit ==
    /\ wpc = "loop"
    /\ wpc' = IF exit THEN "done" ELSE IF left THEN "panic" ELSE "read"
    /\ UNCHANGED <<queues, uuids, count, heap, handlerVars, wtask, left, exit,
                   serving, answer>>

(* An empty task_q_ only makes the worker sleep.                           *)
ReadTask ==
    /\ wpc = "read"
    /\ IF taskQ = << >>
       THEN /\ wpc' = "loop"
            /\ UNCHANGED <<taskQ, wtask>>
       ELSE /\ wtask' = Head(taskQ)
            /\ taskQ' = Tail(taskQ)
            /\ wpc' = "run"
    /\ UNCHANGED <<outQ, added, fetched, uuids, count, heap, handlerVars, left,
                   exit, serving, answer>>

(* exe_sql_job fills the result of the task; an error is part of it.  It   *)
(* may leave directories in dir_q_, and an exception or an assertion in it *)
(* ends the process.                                                       *)
exe_sql_job ==
    /\ wpc = "run"
    /\ \/ wpc' = "write" /\ left' \in BOOLEAN
       \/ wpc' = "abort" /\ UNCHANGED left
    /\ UNCHANGED <<queues, uuids, count, heap, handlerVars, wtask, exit, serving,
                   answer>>

(* Mutant: a result that finds out_q_ full is dropped.                     *)
WriteOrDrop ==
    /\ wpc = "write"
    /\ outQ' = IF Len(outQ) < Room THEN Append(outQ, wtask) ELSE outQ
    /\ wtask' = NoTask
    /\ wpc' = "loop"
    /\ UNCHANGED <<taskQ, added, fetched, uuids, count, heap, handlerVars, left,
                   exit, serving, answer>>

(* Mutant: the worker deletes the task it has finished.                    *)
WriteAndDelete ==
    /\ wpc = "write"
    /\ Len(outQ) < Room
    /\ outQ' = Append(outQ, wtask)
    /\ heap' = heap \ {wtask.id}
    /\ wtask' = NoTask
    /\ wpc' = "loop"
    /\ UNCHANGED <<taskQ, added, fetched, uuids, count, handlerVars, left, exit,
                   serving, answer>>

(* out_q_.write spins while out_q_ is full.                                *)
WriteResult ==
    /\ wpc = "write"
    /\ Len(outQ) < Room
    /\ outQ' = Append(outQ, wtask)
    /\ wtask' = NoTask
    /\ wpc' = "loop"
    /\ UNCHANGED <<taskQ, added, fetched, uuids, count, heap, handlerVars, left,
                   exit, serving, answer>>

-----------------------------------------------------------------------------
(* main: svr.stop() waits for the requests in progress, then the           *)
(* destructor sets exit_ and joins.                                        *)

StopServer ==
    /\ Running
    /\ serving
    /\ \A h \in Handlers : hpc[h] = "idle"
    /\ serving' = FALSE
    /\ UNCHANGED <<queues, uuids, count, heap, handlerVars, workerVars, exit,
                   answer>>

Destructor ==
    /\ Running
    /\ ~serving
    /\ ~exit
    /\ exit' = TRUE
    /\ UNCHANGED <<queues, uuids, count, heap, handlerVars, workerVars, serving,
                   answer>>

-----------------------------------------------------------------------------
Request(h) ==
    \/ h \in Posters /\ (PostRefused(h) \/ \E u \in Uuids : PostBuild(h, u))
    \/ h \in Getters /\ \E u \in Uuids : GetFind(h, u)

HandlerStep(h) ==
    add(h) \/ GetResult(h) \/ SetLoad(h) \/ InsertStore(h) \/ EraseStore(h)

WorkerLoop == CheckExit \/ ReadTask \/ WriteResult

WorkerStep == WorkerLoop \/ exe_sql_job

Next ==
    \/ \E h \in Handlers : Request(h) \/ HandlerStep(h)
    \/ WorkerStep
    \/ StopServer
    \/ Destructor

Spec == Init /\ [][Next]_vars

(* Threads keep running.  No client is obliged to send a request, and no   *)
(* job is obliged to end: it polls the other servers without a limit.      *)
FairSpec ==
    /\ Spec
    /\ WF_vars(WorkerLoop)
    /\ \A h \in Handlers : WF_vars(HandlerStep(h))

-----------------------------------------------------------------------------
(* Properties                                                              *)

Task == [id : 0 .. MaxTasks, uuid : Uuids \cup {"none"}]

(* The variables keep their types.                                         *)
TypeOK ==
    /\ taskQ \in Seq(Task) /\ outQ \in Seq(Task)
    /\ added \in Seq(Task) /\ fetched \in Seq(Task)
    /\ Len(taskQ) <= Room /\ Len(outQ) <= Room
    /\ uuids \subseteq Uuids
    /\ count \in 0 .. MaxTasks
    /\ heap \subseteq 1 .. MaxTasks
    /\ hpc \in [Handlers -> {"idle", "add", "insert", "inserting", "get",
                             "erase", "erasing"}]
    /\ huuid \in [Handlers -> Uuids \cup {"none"}]
    /\ htask \in [Handlers -> Task]
    /\ hset \in [Handlers -> SUBSET Uuids]
    /\ wpc \in {"loop", "read", "run", "write", "done", "panic", "abort"}
    /\ wtask \in Task
    /\ left \in BOOLEAN
    /\ exit \in BOOLEAN
    /\ serving \in BOOLEAN

InWorker == IF wpc \in {"run", "write", "abort"} THEN <<wtask>> ELSE << >>

(* The tasks accepted by add are, in that order, those already fetched,    *)
(* those in out_q_, the one the worker runs and those in task_q_: however  *)
(* the handlers and the worker interleave, none is lost, duplicated or     *)
(* overtaken.                                                              *)
Pipeline == added = fetched \o outQ \o InWorker \o taskQ

Ids(s) == {s[i].id : i \in DOMAIN s}

(* No thread holds a task that get has deleted: what is in a handler's     *)
(* hands, in a queue or with the worker is allocated, and what was fetched *)
(* is not.                                                                 *)
TasksAlive ==
    /\ Ids(taskQ) \cup Ids(outQ) \cup Ids(InWorker) \subseteq heap
    /\ \A h \in Handlers : hpc[h] = "add" => htask[h].id \in heap
    /\ Ids(fetched) \cap heap = {}

(* Both queues are full and the worker waits in out_q_.write: only a GET   *)
(* that is being served can move anything.                                 *)
Clogged ==
    /\ Len(taskQ) = Room /\ wpc = "write" /\ Len(outQ) = Room
    /\ \A h \in Getters : hpc[h] # "get"

(* A queued task is taken by the worker, and a POST that waits for room in *)
(* task_q_ returns, unless the process is shut down or ends at an          *)
(* assertion, a job never ends, or nobody fetches any more: a task is then *)
(* kept only by a full out_q_, a POST only by two full queues with the     *)
(* worker between them.                                                    *)
TaskTaken ==
    /\ \A n \in 1 .. MaxTasks :
           n \in Ids(taskQ)
               ~> \/ n \notin Ids(taskQ) \/ exit \/ ~Running \/ [](wpc = "run")
                  \/ [](/\ wpc = "write" /\ Len(outQ) = Room
                        /\ \A h \in Getters : hpc[h] # "get")
    /\ \A h \in Posters :
           hpc[h] = "add"
               ~> hpc[h] # "add" \/ ~Running \/ [](wpc = "run") \/ []Clogged

(* After the destructor set exit_ the worker finishes the task in hand and *)
(* ends, unless its job never ends or it is stuck in out_q_.write on a     *)
(* full queue.                                                             *)
WorkerStops ==
    exit ~> \/ wpc = "done" \/ ~Running \/ [](wpc = "run")
            \/ (wpc = "write" /\ Len(outQ) = Room)

(* README: the answer to GET /task/<uuid> is the result of that task.      *)
ResultMatchesRequest == answer.code = "result" => answer.result = answer.uuid
=============================================================================
