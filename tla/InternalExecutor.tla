-------------------------- MODULE InternalExecutor --------------------------
(***************************************************************************)
(* dc_internal_executor_t: the service a compare server offers its peers.  *)
(* HTTP handlers add a task (a list of directories to stat) and later      *)
(* fetch its result by uuid; one worker thread runs the tasks.  The list   *)
(* is guarded by mutex_, but the worker keeps a reference into it and      *)
(* reads the request and fills the result without the lock.                *)
(*                                                                         *)
(* A handler's critical section is one action.  The worker has one action  *)
(* per critical section and per unlocked access, so handlers run between   *)
(* any two of them.  main() serves until SIGINT, stops the server and then *)
(* runs the destructor.                                                    *)
(***************************************************************************)
EXTENDS Integers, Sequences, FiniteSets

CONSTANTS Uuids,          \* non-empty task identifiers
          NoUuid,         \* the empty string
          Dirs,           \* directory names a peer may ask about
          Requests,       \* bodies and headers a peer may POST
          ExitAtStart,    \* what the uninitialised exit_ may hold
          MaxTasks        \* bound: number of tasks accepted

ASSUME MaxTasksAssumption == MaxTasks \in Nat
ASSUME ExitAssumption == ExitAtStart \subseteq BOOLEAN
ASSUME NoUuidAssumption == NoUuid \notin Uuids
ASSUME RequestsAssumption ==
    \A r \in Requests :
        /\ r.uuid \in Uuids \cup {NoUuid}
        /\ r.json \in BOOLEAN              \* Content-Type is JSON
        /\ r.body \in {"empty", "malformed", "object"}
        /\ r.fields \subseteq {"dirs", "uuid", "base_dir"}
        /\ r.same \in BOOLEAN              \* the body's uuid is the URL's
        /\ r.dirs \in Seq(Dirs)

VARIABLES
    tasks,        \* task_list_: records in insertion order
    created,      \* number of tasks accepted so far; a task's id
    owed,         \* ghost: owed[u] = tasks of u accepted - results fetched
    exit,         \* exit_
    main,         \* main thread: serving, stopped, joining
    wpc,          \* worker thread: program counter
    cur,          \* worker: id of the task its reference points to
    attrs,        \* worker: dir_attr_list
    crashed,      \* the assertion or exception that ended the process
    answer        \* the last answer of a handler

vars == <<tasks, created, owed, exit, main, wpc, cur, attrs, crashed, answer>>

NoCrash == "none"
NoAnswer == [op |-> "none", uuid |-> NoUuid, code |-> "none",
             asked |-> << >>, out |-> << >>]

(* What examining one directory may end with: E_OS_ENV stands for the      *)
(* failures of stat, getpwuid and localtime, which are treated alike.      *)
StatCodes == {"S_SUCCESS", "E_OS_ENV"}

Init ==
    /\ tasks = << >>
    /\ created = 0
    /\ owed = [u \in Uuids |-> 0]
    /\ exit \in ExitAtStart
    /\ main = "serving"
    /\ wpc = "loop"
    /\ cur = 0
    /\ attrs = << >>
    /\ crashed = NoCrash
    /\ answer = NoAnswer

-----------------------------------------------------------------------------
(* Handlers                                                                *)

Serving == main = "serving" /\ crashed = NoCrash

(* lock_guard: the worker holds mutex_ from its test of the list to the    *)
(* moment it sleeps.                                                       *)
Locks == wpc # "falling"

(* POST /internal/dir/task/{uuid}: the checks in the order of the code.    *)
(* base_dir is not among them.                                             *)
PostCode(r) ==
    CASE r.uuid = NoUuid           -> "E_DC_INTERNAL_NO_UUID"
      [] ~r.json                   -> "E_DC_INTERNAL_NOT_JSON"
      [] r.body = "empty"          -> "E_DC_INTERNAL_EMPTY_BODY"
      [] r.body = "malformed"      -> "parse_error"
      [] "dirs" \notin r.fields    -> "E_DC_INTERNAL_NO_DIR_LIST"
      [] "uuid" \notin r.fields    -> "E_DC_INTERNAL_NO_UUID"
      [] ~r.same                   -> "E_DC_INTERNAL_UUID_NOT_EQUAL"
      [] OTHER                     -> "S_SUCCESS"

Reply(op, u, code) ==
    answer' = [NoAnswer EXCEPT !.op = op, !.uuid = u, !.code = code]

(* A malformed body reaches Json::parse, which aborts: the build has no    *)
(* exceptions.                                                             *)
PostRefused(r) ==
    /\ Serving
    /\ PostCode(r) # "S_SUCCESS"
    /\ IF PostCode(r) = "parse_error"
       THEN crashed' = "parse_error" /\ UNCHANGED answer
       ELSE Reply("post", r.uuid, PostCode(r)) /\ UNCHANGED crashed
    /\ UNCHANGED <<tasks, created, owed, exit, main, wpc, cur, attrs>>

(* Mutant: add leaves i_task_status out.                                   *)
addWithoutStatus(r) ==
    /\ tasks' = Append(tasks, [id |-> created + 1, uuid |-> r.uuid,
                               status |-> "INVALID", dirs |-> r.dirs,
                               base |-> "base_dir" \in r.fields,
                               error |-> "none", out |-> << >>])
    /\ wpc' = IF wpc = "waiting" THEN "pick" ELSE wpc

(* Mutant: add without notify_one.                                         *)
addSilently(r) ==
    /\ tasks' = Append(tasks, [id |-> created + 1, uuid |-> r.uuid,
                               status |-> "INIT", dirs |-> r.dirs,
                               base |-> "base_dir" \in r.fields,
                               error |-> "none", out |-> << >>])
    /\ wpc' = wpc

(* dc_internal_executor_t::add: append and notify_one.                     *)
add(r) ==
    /\ tasks' = Append(tasks, [id |-> created + 1, uuid |-> r.uuid,
                               status |-> "INIT", dirs |-> r.dirs,
                               base |-> "base_dir" \in r.fields,
                               error |-> "none", out |-> << >>])
    /\ wpc' = IF wpc = "waiting" THEN "pick" ELSE wpc

PostAccepted(r) ==
    /\ Serving
    /\ Locks
    /\ PostCode(r) = "S_SUCCESS"
    /\ created < MaxTasks
    /\ add(r)
    /\ created' = created + 1
    /\ owed' = [owed EXCEPT ![r.uuid] = @ + 1]
    /\ Reply("post", r.uuid, "S_SUCCESS")
    /\ UNCHANGED <<exit, main, cur, attrs, crashed>>

(* list::erase                                                             *)
Erase(s, i) == [k \in 1 .. Len(s) - 1 |-> IF k < i THEN s[k] ELSE s[k + 1]]

(* The entry the search loop of get() stops at.                            *)
IsFirst(i, u) ==
    /\ i \in 1 .. Len(tasks)
    /\ tasks[i].uuid = u
    /\ \A j \in 1 .. i - 1 : tasks[j].uuid # u

(* Mutant: get() hands out a task as soon as it has been picked.           *)
GetNotInit(u) ==
    /\ Serving
    /\ Locks
    /\ \E i \in 1 .. Len(tasks) :
           /\ IsFirst(i, u)
           /\ tasks[i].status # "INIT"
           /\ tasks' = Erase(tasks, i)
           /\ answer' = [op |-> "get", uuid |-> u, code |-> tasks[i].error,
                         asked |-> tasks[i].dirs, out |-> tasks[i].out]
    /\ owed' = [owed EXCEPT ![u] = @ - 1]
    /\ UNCHANGED <<created, exit, main, wpc, cur, attrs, crashed>>

(* Mutant: get() leaves the fetched entry in the list.                     *)
GetKeeps(u) ==
    /\ Serving
    /\ Locks
    /\ \E i \in 1 .. Len(tasks) :
           /\ IsFirst(i, u)
           /\ tasks[i].status = "OVER"
           /\ answer' = [op |-> "get", uuid |-> u, code |-> tasks[i].error,
                         asked |-> tasks[i].dirs, out |-> tasks[i].out]
    /\ owed' = [owed EXCEPT ![u] = @ - 1]
    /\ UNCHANGED <<tasks, created, exit, main, wpc, cur, attrs, crashed>>

(* dc_internal_executor_t::get with status OVER: hand out and erase.       *)
GetOver(u) ==
    /\ Serving
    /\ Locks
    /\ \E i \in 1 .. Len(tasks) :
           /\ IsFirst(i, u)
           /\ tasks[i].status = "OVER"
           /\ tasks' = Erase(tasks, i)
           /\ answer' = [op |-> "get", uuid |-> u, code |-> tasks[i].error,
                         asked |-> tasks[i].dirs, out |-> tasks[i].out]
    /\ owed' = [owed EXCEPT ![u] = @ - 1]
    /\ UNCHANGED <<created, exit, main, wpc, cur, attrs, crashed>>

GetRetry(u) ==
    /\ Serving
    /\ Locks
    /\ \E i \in 1 .. Len(tasks) : IsFirst(i, u) /\ tasks[i].status # "OVER"
    /\ Reply("get", u, "E_DC_CONTENT_RETRY")
    /\ UNCHANGED <<tasks, created, owed, exit, main, wpc, cur, attrs, crashed>>

GetNotFound(u) ==
    /\ Serving
    /\ Locks
    /\ \A i \in 1 .. Len(tasks) : tasks[i].uuid # u
    /\ Reply("get", u, "E_NOT_FOUND")
    /\ UNCHANGED <<tasks, created, owed, exit, main, wpc, cur, attrs, crashed>>

(* GET with an empty uuid or without the JSON content type.                *)
GetRefused(u, json) ==
    /\ Serving
    /\ u = NoUuid \/ ~json
    /\ Reply("get", u, IF u = NoUuid THEN "E_DC_INTERNAL_NO_UUID"
                                     ELSE "E_DC_INTERNAL_NOT_JSON")
    /\ UNCHANGED <<tasks, created, owed, exit, main, wpc, cur, attrs, crashed>>

-----------------------------------------------------------------------------
(* The worker thread                                                       *)

Running == crashed = NoCrash
HasInit == \E i \in 1 .. Len(tasks) : tasks[i].status = "INIT"

(* while (!exit_) of thd_worker_execute                                    *)
CheckExit ==
    /\ Running
    /\ wpc = "loop"
    /\ wpc' = IF exit THEN "done" ELSE "pick"
    /\ UNCHANGED <<tasks, created, owed, exit, main, cur, attrs, crashed, answer>>

(* Mutant: the wait loop does not test exit_.                              *)
PickWaitAlways ==
    /\ Running
    /\ wpc = "pick"
    /\ ~HasInit
    /\ wpc' = "falling"
    /\ UNCHANGED <<tasks, created, owed, exit, main, cur, attrs, crashed, answer>>

(* thd_worker_pick_task_to_run, one turn of its wait loop: with mutex_     *)
(* held, exit_ is read and the list searched; there is nothing to do.      *)
PickWait ==
    /\ Running
    /\ wpc = "pick"
    /\ ~exit
    /\ ~HasInit
    /\ wpc' = "falling"
    /\ UNCHANGED <<tasks, created, owed, exit, main, cur, attrs, crashed, answer>>

(* cond_.wait: the worker gives mutex_ back and sleeps.  No handler gets   *)
(* the mutex between the test and the sleep, but the destructor writes     *)
(* exit_ without it.                                                       *)
FallAsleep ==
    /\ Running
    /\ wpc = "falling"
    /\ wpc' = "waiting"
    /\ UNCHANGED <<tasks, created, owed, exit, main, cur, attrs, crashed, answer>>

(* cond_.wait may return without a notification.                           *)
SpuriousWakeup ==
    /\ Running
    /\ wpc = "waiting"
    /\ wpc' = "pick"
    /\ UNCHANGED <<tasks, created, owed, exit, main, cur, attrs, crashed, answer>>

(* Mutant: the newest task is picked first.                                *)
PickNewest ==
    /\ Running
    /\ wpc = "pick"
    /\ \E i \in 1 .. Len(tasks) :
           /\ tasks[i].status = "INIT"
           /\ \A j \in i + 1 .. Len(tasks) : tasks[j].status # "INIT"
           /\ tasks' = [tasks EXCEPT ![i].status = "RUNNING"]
           /\ cur' = tasks[i].id
    /\ wpc' = "start"
    /\ UNCHANGED <<created, owed, exit, main, attrs, crashed, answer>>

PickTask ==
    /\ Running
    /\ wpc = "pick"
    /\ \E i \in 1 .. Len(tasks) :
           /\ tasks[i].status = "INIT"
           /\ \A j \in 1 .. i - 1 : tasks[j].status # "INIT"
           /\ tasks' = [tasks EXCEPT ![i].status = "RUNNING"]
           /\ cur' = tasks[i].id
    /\ wpc' = "start"
    /\ UNCHANGED <<created, owed, exit, main, attrs, crashed, answer>>

(* assert "should not hit here"                                            *)
PickNothing ==
    /\ Running
    /\ wpc = "pick"
    /\ exit
    /\ ~HasInit
    /\ crashed' = "should_not_hit_here"
    /\ UNCHANGED <<tasks, created, owed, exit, main, wpc, cur, attrs, answer>>

(* The entry the worker's reference points to.                             *)
IsCur(i) == i \in 1 .. Len(tasks) /\ tasks[i].id = cur

(* thd_worker_task_dir_attr_list: the assertions, then chdir(base_dir)     *)
Start ==
    /\ Running
    /\ wpc = "start"
    /\ \E i \in 1 .. Len(tasks) :
           /\ IsCur(i)
           /\ IF ~tasks[i].base
              THEN /\ crashed' = "no_base_dir"
                   /\ UNCHANGED <<wpc, tasks>>
              ELSE /\ UNCHANGED crashed
                   /\ \/ wpc' = "stat" /\ UNCHANGED tasks
                      \/ /\ wpc' = "over"
                         /\ tasks' = [tasks EXCEPT ![i].error = "E_OS_ENV_CHDIR"]
    /\ attrs' = << >>
    /\ UNCHANGED <<created, owed, exit, main, cur, answer>>

(* Mutant: a directory that cannot be examined gets no entry.              *)
ExamineSkips(code) ==
    /\ Running
    /\ wpc = "stat"
    /\ \E i \in 1 .. Len(tasks) :
           /\ IsCur(i)
           /\ Len(attrs) < Len(tasks[i].dirs)
           /\ attrs' = IF code = "S_SUCCESS"
                       THEN Append(attrs, [dir |-> tasks[i].dirs[Len(attrs) + 1],
                                           code |-> code])
                       ELSE attrs
           /\ wpc' = IF code = "S_SUCCESS" THEN wpc ELSE "fill"
    /\ UNCHANGED <<tasks, created, owed, exit, main, cur, crashed, answer>>

(* One turn of the loop over "dirs": every directory gets an entry, also   *)
(* one that cannot be examined.                                            *)
Examine(code) ==
    /\ Running
    /\ wpc = "stat"
    /\ \E i \in 1 .. Len(tasks) :
           /\ IsCur(i)
           /\ Len(attrs) < Len(tasks[i].dirs)
           /\ attrs' = Append(attrs, [dir |-> tasks[i].dirs[Len(attrs) + 1],
                                      code |-> code])
    /\ UNCHANGED <<tasks, created, owed, exit, main, wpc, cur, crashed, answer>>

(* stat finds something that is not a directory: S_ISDIR is asserted.      *)
NotADirectory ==
    /\ Running
    /\ wpc = "stat"
    /\ \E i \in 1 .. Len(tasks) :
           IsCur(i) /\ Len(attrs) < Len(tasks[i].dirs)
    /\ crashed' = "not_a_directory"
    /\ UNCHANGED <<tasks, created, owed, exit, main, wpc, cur, attrs, answer>>

(* i_out_json["uuid"] and ["error"]                                        *)
FillHeader ==
    /\ Running
    /\ wpc = "stat"
    /\ \E i \in 1 .. Len(tasks) :
           /\ IsCur(i)
           /\ Len(attrs) = Len(tasks[i].dirs)
           /\ tasks' = [tasks EXCEPT ![i].error = "S_SUCCESS"]
    /\ wpc' = "fill"
    /\ UNCHANGED <<created, owed, exit, main, cur, attrs, crashed, answer>>

(* i_out_json["dirs"].push_back                                            *)
FillDir ==
    /\ Running
    /\ wpc = "fill"
    /\ \E i \in 1 .. Len(tasks) :
           /\ IsCur(i)
           /\ Len(tasks[i].out) < Len(attrs)
           /\ tasks' = [tasks EXCEPT ![i].out =
                            Append(@, attrs[Len(tasks[i].out) + 1])]
    /\ UNCHANGED <<created, owed, exit, main, wpc, cur, attrs, crashed, answer>>

FillDone ==
    /\ Running
    /\ wpc = "fill"
    /\ \E i \in 1 .. Len(tasks) : IsCur(i) /\ Len(tasks[i].out) = Len(attrs)
    /\ wpc' = "over"
    /\ UNCHANGED <<tasks, created, owed, exit, main, cur, attrs, crashed, answer>>

thd_worker_set_task_over ==
    /\ Running
    /\ wpc = "over"
    /\ \E i \in 1 .. Len(tasks) :
           /\ IsCur(i)
           /\ tasks' = [tasks EXCEPT ![i].status = "OVER"]
    /\ wpc' = "loop"
    /\ UNCHANGED <<created, owed, exit, main, cur, attrs, crashed, answer>>

-----------------------------------------------------------------------------
(* The main thread: SIGINT, svr.stop(), then the destructor sets exit_ and *)
(* joins the worker without notifying it.                                  *)

StopServer ==
    /\ Running
    /\ main = "serving"
    /\ main' = "stopped"
    /\ UNCHANGED <<tasks, created, owed, exit, wpc, cur, attrs, crashed, answer>>

Destructor ==
    /\ Running
    /\ main = "stopped"
    /\ exit' = TRUE
    /\ main' = "joining"
    /\ UNCHANGED <<tasks, created, owed, wpc, cur, attrs, crashed, answer>>

-----------------------------------------------------------------------------
Post(r) == PostRefused(r) \/ PostAccepted(r)

Get(u) == GetOver(u) \/ GetRetry(u) \/ GetNotFound(u)

WorkerStep ==
    \/ CheckExit \/ PickWait \/ FallAsleep \/ PickTask \/ PickNothing \/ Start
    \/ \E code \in StatCodes : Examine(code)
    \/ FillHeader \/ FillDir \/ FillDone \/ thd_worker_set_task_over

Next ==
    \/ \E r \in Requests : Post(r)
    \/ \E u \in Uuids : Get(u)
    \/ \E u \in Uuids \cup {NoUuid}, json \in BOOLEAN : GetRefused(u, json)
    \/ WorkerStep \/ NotADirectory \/ SpuriousWakeup
    \/ StopServer \/ Destructor

Spec == Init /\ [][Next]_vars

(* The operating system schedules the worker; nobody is obliged to send    *)
(* requests, to raise SIGINT or to wake the worker spuriously.             *)
FairSpec == Spec /\ WF_vars(WorkerStep)

-----------------------------------------------------------------------------
(* Properties                                                              *)

Holding == wpc \in {"start", "stat", "fill", "over"}

TaskRecord == [id : Nat, uuid : Uuids, status : {"INIT", "RUNNING", "OVER"},
               dirs : Seq(Dirs), base : BOOLEAN,
               error : {"none", "S_SUCCESS", "E_OS_ENV_CHDIR"},
               out : Seq([dir : Dirs, code : StatCodes])]

(* The variables keep their types.                                         *)
TypeOK ==
    /\ tasks \in Seq(TaskRecord)
    /\ created \in Nat
    /\ owed \in [Uuids -> Int]
    /\ exit \in BOOLEAN
    /\ main \in {"serving", "stopped", "joining"}
    /\ wpc \in {"loop", "pick", "falling", "waiting", "start", "stat", "fill",
                "over", "done"}
    /\ cur \in Nat
    /\ attrs \in Seq([dir : Dirs, code : StatCodes])
    /\ crashed \in {NoCrash, "parse_error", "should_not_hit_here",
                    "no_base_dir", "not_a_directory"}

(* The reference the worker uses without the lock stays valid: from the    *)
(* pick to the moment the task is set OVER the entry is in the list and    *)
(* RUNNING, whatever the handlers add, fetch and erase meanwhile; and no   *)
(* other entry is RUNNING.                                                 *)
ReferenceValid ==
    /\ Holding => \E i \in 1 .. Len(tasks) : tasks[i].id = cur
    /\ \A i \in 1 .. Len(tasks) :
           tasks[i].status = "RUNNING" <=> Holding /\ tasks[i].id = cur

(* Tasks are served in the order they were added: a task has been picked   *)
(* only if every older task still in the list is over.  With it, get(),    *)
(* which looks at the oldest entry of a uuid only, never answers RETRY     *)
(* while a younger entry of the same uuid is over.                         *)
ServedInOrder ==
    \A i, j \in 1 .. Len(tasks) :
        i < j /\ tasks[j].status # "INIT" => tasks[i].status = "OVER"

(* A result that a GET hands out is whole and positional: either the       *)
(* chdir failed, or entry k is about the k-th directory asked for, also    *)
(* when some directories could not be examined.  The requesting server     *)
(* merges results by position.                                             *)
ResultComplete ==
    answer.op = "get" /\ answer.code \in {"S_SUCCESS", "none"}
        => /\ Len(answer.out) = Len(answer.asked)
           /\ \A k \in 1 .. Len(answer.asked) :
                  answer.out[k].dir = answer.asked[k]

(* Every accepted task can be fetched exactly once: the list holds as many *)
(* entries of a uuid as were accepted and not fetched, so a GET between    *)
(* the two never answers E_NOT_FOUND.                                      *)
NothingForgotten ==
    \A u \in Uuids :
        owed[u] = Cardinality({i \in 1 .. Len(tasks) : tasks[i].uuid = u})

(* An accepted task is eventually over, unless the process shuts down or   *)
(* dies first: no wake-up of the worker is lost.                           *)
TaskCompletes ==
    \A n \in 1 .. MaxTasks :
        (\E i \in 1 .. Len(tasks) : tasks[i].id = n)
            ~> \/ \A i \in 1 .. Len(tasks) :
                      tasks[i].id = n => tasks[i].status = "OVER"
               \/ exit
               \/ crashed # NoCrash

(* Shutdown ends, with the worker gone or at the assertion "should not hit *)
(* here", when the destructor sets exit_ before the worker's last test of  *)
(* it.  Otherwise the worker sleeps, or is about to: exit_ is written      *)
(* without mutex_ and nothing notifies cond_, so join() may wait for ever. *)
ShutdownEnds ==
    main = "joining" /\ wpc \notin {"falling", "waiting"}
        ~> wpc = "done" \/ crashed # NoCrash
=============================================================================
