----------------------------- MODULE CompareJob -----------------------------
(***************************************************************************)
(* What the worker of dc_compare_t does with one task after another: walk  *)
(* the standard server's tree, collect directories in dir_q_, ask every    *)
(* server for the attributes of a whole batch, and merge the answers into  *)
(* the entries of "diffs".                                                 *)
(*                                                                         *)
(* dir_q_ belongs to the worker and outlives a task.  The recursion of     *)
(* exe_sql_job_for_dir is an explicit stack; readdir returns the entries   *)
(* of a directory in any order, and of some the file system does not tell  *)
(* the type (DT_UNKNOWN).  The servers are dc_content_t objects seen       *)
(* through their interface: the standard one (local) answers with one      *)
(* attribute per directory, another one (remote) with at most that many,   *)
(* or it fails as a whole, or never answers; an assertion of either may    *)
(* end the process.                                                        *)
(***************************************************************************)
EXTENDS Naturals, Sequences, FiniteSets

CONSTANTS Nodes, Root,    \* the tree of the standard server
          Tops,           \* where the path to compare may lead; see ChDir
          Children,       \* Children[d]: the entries of directory d
          Kind,           \* Kind[n]: "dir", "file", "link" or "special"
          Untyped,        \* nodes whose d_type is DT_UNKNOWN
          Servers, Std,   \* the servers compared, and the standard one
          Batch,          \* dir_batch_size
          MaxTasks        \* bound: number of tasks run

ASSUME StdAssumption == Std \in Servers
(* A node is a path: it is in one directory, and a top in none.            *)
ASSUME TreeAssumption ==
    /\ Root \in Tops /\ Tops \subseteq Nodes
    /\ Kind \in [Nodes -> {"dir", "file", "link", "special"}]
    /\ \A t \in Tops : Kind[t] = "dir"
    /\ Children \in [{n \in Nodes : Kind[n] = "dir"} -> SUBSET Nodes]
    /\ \A d \in DOMAIN Children : Children[d] \cap Tops = {}
    /\ \A d, e \in DOMAIN Children : d # e => Children[d] \cap Children[e] = {}

VARIABLES
    pc,           \* where the worker is
    start,        \* the directory the walk of the task begins at
    stack,        \* open directories: [dir, left] with the entries not read
    dirQ,         \* dir_q_: [dir, idx], idx the position of its entry in diffs
    diffs,        \* t_compare_result_json["diffs"]
    child,        \* the directory to open after its entry was queued
    lists,        \* dir_attr_list: per server, attributes of the batch
    has_done,     \* servers that have answered
    has_failed,   \* servers whose answer was an error
    ret,          \* result code of the task
    tasks,        \* tasks started
    trouble       \* ghost: <<node, call>> whose examination failed

vars == <<pc, start, stack, dirQ, diffs, child, lists, has_done, has_failed,
          ret, tasks, trouble>>

None == "none"
ASSUME NoneAssumption == None \notin Nodes

(* What a server says about one directory.                                 *)
Attr == [dir : Nodes, value : {"failed", "same", "other"}]

(* "servers" of an entry: the directory the attributes are about, and per  *)
(* server whether it is left out, or listed with attributes or an error.   *)
NoServers == [of |-> None, says |-> << >>]

Init ==
    /\ pc = "loop"
    /\ start = Root
    /\ stack = << >>
    /\ dirQ = << >>
    /\ diffs = << >>
    /\ child = None
    /\ lists = [s \in Servers |-> << >>]
    /\ has_done = {}
    /\ has_failed = {}
    /\ ret = None
    /\ tasks = 0
    /\ trouble = {}

-----------------------------------------------------------------------------
(* execute, one turn: assert(dir_q_.empty()), then a task with an empty    *)
(* "diffs"                                                                 *)
NextTask ==
    /\ pc = "loop"
    /\ tasks < MaxTasks
    /\ IF dirQ # << >>
       THEN pc' = "assert_dir_q" /\ UNCHANGED <<diffs, ret, tasks, trouble>>
       ELSE /\ pc' = "stat"
            /\ diffs' = << >>
            /\ ret' = None
            /\ tasks' = tasks + 1
            /\ trouble' = {}
    /\ UNCHANGED <<start, stack, dirQ, child, lists, has_done, has_failed>>

(* exe_sql_job1: stat of the path to compare, from the working directory   *)
(* the last task left.  A regular file hands a null JSON value to an int   *)
(* parameter, which aborts.                                                *)
StatPath(kind) ==
    /\ pc = "stat"
    /\ CASE kind = "missing" -> pc' = "finish" /\ ret' = "E_OS_ENV_STAT"
         [] kind = "file"    -> pc' = "json_type_error" /\ UNCHANGED ret
         [] kind = "special" -> pc' = "finish" /\ ret' = "E_NOT_SUPPORT_FILE_TYPE"
         [] kind = "dir"     -> pc' = "chdir" /\ UNCHANGED ret
    /\ UNCHANGED <<start, stack, dirQ, diffs, child, lists, has_done,
                   has_failed, tasks, trouble>>

(* chdir to c_base_dir, where the path leads to Root.  A failure is only   *)
(* logged: the walk then begins wherever the path leads from the old       *)
(* working directory.                                                      *)
ChDir(t) ==
    /\ pc = "chdir"
    /\ start' = t
    /\ child' = t
    /\ pc' = "open"
    /\ UNCHANGED <<stack, dirQ, diffs, lists, has_done, has_failed, ret, tasks,
                   trouble>>

ChDirSucceeds == ChDir(Root)
ChDirFails == \E t \in Tops : ChDir(t)

(* exe_sql_job_for_dir: opendir.  Its failure is the task's error at depth *)
(* 0 and only logged by the caller below.                                  *)
OpenDir ==
    /\ pc = "open"
    /\ stack' = Append(stack, [dir |-> child, left |-> Children[child]])
    /\ pc' = "walk"
    /\ child' = None
    /\ UNCHANGED <<start, dirQ, diffs, lists, has_done, has_failed, ret, tasks,
                   trouble>>

(* Mutant: a directory that cannot be opened ends the task at any depth.   *)
OpenFailsAnywhere ==
    /\ pc = "open"
    /\ trouble' = trouble \cup {<<child, "open">>}
    /\ pc' = "finish" /\ ret' = "E_OS_ENV_OPEN"
    /\ child' = None
    /\ UNCHANGED <<start, stack, dirQ, diffs, lists, has_done, has_failed,
                   tasks>>

OpenFails ==
    /\ pc = "open"
    /\ trouble' = trouble \cup {<<child, "open">>}
    /\ IF stack = << >>
       THEN pc' = "finish" /\ ret' = "E_OS_ENV_OPEN"
       ELSE pc' = "walk" /\ UNCHANGED ret
    /\ child' = None
    /\ UNCHANGED <<start, stack, dirQ, diffs, lists, has_done, has_failed,
                   tasks>>

-----------------------------------------------------------------------------
(* The loop over readdir                                                   *)

Top == stack[Len(stack)]
Read(n) == [stack EXCEPT ![Len(stack)].left = @ \ {n}]

(* d_type: what readdir says of an entry.                                  *)
Reported(n) == IF n \in Untyped THEN "unknown" ELSE Kind[n]

(* Neither DT_LNK nor DT_DIR: stat decides.                                *)
Stated(n) == Reported(n) \notin {"link", "dir"}

Entry(n, d) == [node |-> n, is_dir |-> d, servers |-> NoServers]

(* A directory: an entry, a place in dir_q_, and a flush when the batch is *)
(* full; then the directory itself is walked.                              *)
ReadDir(n) ==
    /\ pc = "walk"
    /\ n \in Top.left
    /\ Reported(n) = "dir"
    /\ stack' = Read(n)
    /\ diffs' = Append(diffs, Entry(n, TRUE))
    /\ dirQ' = Append(dirQ, [dir |-> n, idx |-> Len(diffs) + 1])
    /\ child' = n
    /\ pc' = IF Len(dirQ) + 1 > Batch THEN "flush" ELSE "open"
    /\ UNCHANGED <<start, lists, has_done, has_failed, ret, tasks, trouble>>

(* stat says a regular file: an entry; exe_sql_job_for_single_item_file    *)
(* does nothing more.  stat follows links, so an untyped link may be taken *)
(* for a file.                                                             *)
ReadFile(n) ==
    /\ pc = "walk"
    /\ n \in Top.left
    /\ Stated(n) /\ Kind[n] \in {"file", "link"}
    /\ stack' = Read(n)
    /\ diffs' = Append(diffs, Entry(n, FALSE))
    /\ UNCHANGED <<pc, start, dirQ, child, lists, has_done, has_failed, ret,
                   tasks, trouble>>

(* stat of something not reported a directory fails: this call returns,    *)
(* the rest of the directory is not read.  At depth 0 that is the task's   *)
(* error and dir_q_ is not flushed; below, the caller logs it and goes on. *)
StatEntryFails(n) ==
    /\ pc = "walk"
    /\ n \in Top.left
    /\ Stated(n)
    /\ trouble' = trouble \cup {<<n, "stat">>}
    /\ stack' = SubSeq(stack, 1, Len(stack) - 1)
    /\ IF Len(stack) = 1
       THEN pc' = "finish" /\ ret' = "E_OS_ENV_STAT"
       ELSE UNCHANGED <<pc, ret>>
    /\ UNCHANGED <<start, dirQ, diffs, child, lists, has_done, has_failed,
                   tasks>>

(* Mutant: a link ends the loop over the directory.                        *)
SkipRest(n) ==
    /\ pc = "walk"
    /\ n \in Top.left
    /\ Reported(n) = "link" \/ (Stated(n) /\ Kind[n] # "file")
    /\ stack' = [stack EXCEPT ![Len(stack)].left = {}]
    /\ UNCHANGED <<pc, start, dirQ, diffs, child, lists, has_done, has_failed,
                   ret, tasks, trouble>>

(* Links are skipped; so is what stat says is no regular file, a directory *)
(* whose type readdir did not report among it.                             *)
SkipEntry(n) ==
    /\ pc = "walk"
    /\ n \in Top.left
    /\ Reported(n) = "link" \/ (Stated(n) /\ Kind[n] # "file")
    /\ stack' = Read(n)
    /\ UNCHANGED <<pc, start, dirQ, diffs, child, lists, has_done, has_failed,
                   ret, tasks, trouble>>

(* Mutant: the last batch is sent only if it is full.                      *)
CloseFullBatch ==
    /\ pc = "walk"
    /\ Top.left = {}
    /\ stack' = SubSeq(stack, 1, Len(stack) - 1)
    /\ IF Len(stack) > 1
       THEN UNCHANGED <<pc, ret>>
       ELSE /\ ret' = "S_SUCCESS"
            /\ pc' = IF Len(dirQ) > Batch THEN "flush" ELSE "finish"
    /\ UNCHANGED <<start, dirQ, diffs, child, lists, has_done, has_failed,
                   tasks, trouble>>

(* The end of a directory; after the root, what is left in dir_q_ is sent. *)
CloseDir ==
    /\ pc = "walk"
    /\ Top.left = {}
    /\ stack' = SubSeq(stack, 1, Len(stack) - 1)
    /\ IF Len(stack) > 1
       THEN UNCHANGED <<pc, ret>>
       ELSE /\ ret' = "S_SUCCESS"
            /\ pc' = IF Len(dirQ) > 0 THEN "flush" ELSE "finish"
    /\ UNCHANGED <<start, dirQ, diffs, child, lists, has_done, has_failed,
                   tasks, trouble>>

-----------------------------------------------------------------------------
(* exe_sql_job_for_single_item_dir1                                        *)

(* do_dir_list_attr on every server                                        *)
Flush ==
    /\ pc = "flush"
    /\ pc' = "poll"
    /\ lists' = [s \in Servers |-> << >>]
    /\ has_done' = {}
    /\ has_failed' = {}
    /\ UNCHANGED <<start, stack, dirQ, diffs, child, ret, tasks, trouble>>

BatchDirs == [k \in 1 .. Len(dirQ) |-> dirQ[k].dir]
AnswersOf(m) ==
    {f \in [1 .. m -> Attr] : \A k \in 1 .. m : f[k].dir = BatchDirs[k]}

(* The lists a server may answer with: the standard server's is whole.     *)
Answers(s) == IF s = Std THEN AnswersOf(Len(dirQ))
                         ELSE UNION {AnswersOf(m) : m \in 0 .. Len(dirQ)}

(* Mutant: an answer that is not counted.                                  *)
AnsweredUncounted(s, f) ==
    /\ pc = "poll"
    /\ s \notin has_done
    /\ lists' = [lists EXCEPT ![s] = f]
    /\ UNCHANGED <<pc, start, stack, dirQ, diffs, child, has_done, has_failed,
                   ret, tasks, trouble>>

(* get_dir_list_attr that is not E_DC_CONTENT_RETRY                        *)
Answered(s, f) ==
    /\ pc = "poll"
    /\ s \notin has_done
    /\ s = Std => \A k \in DOMAIN f : f[k].value # "other"
    /\ lists' = [lists EXCEPT ![s] = f]
    /\ has_done' = has_done \cup {s}
    /\ UNCHANGED <<pc, start, stack, dirQ, diffs, child, has_failed, ret, tasks,
                   trouble>>

Failed(s) ==
    /\ pc = "poll"
    /\ s \notin has_done
    /\ s # Std
    /\ has_done' = has_done \cup {s}
    /\ has_failed' = has_failed \cup {s}
    /\ UNCHANGED <<pc, start, stack, dirQ, diffs, child, lists, ret, tasks,
                   trouble>>

(* A content hits an assertion: a directory that is none any more (local), *)
(* a response that arrives whole (remote).                                 *)
ContentAsserts ==
    /\ pc = "poll"
    /\ has_done # Servers
    /\ pc' = "panic"
    /\ UNCHANGED <<start, stack, dirQ, diffs, child, lists, has_done,
                   has_failed, ret, tasks, trouble>>

(* assign_attr_to_json for the standard server, which does not look at     *)
(* f_code, and compare_assign_attr_to_json for the others.  Past the end   *)
(* of its list a server gets has_failed as errno, which is 0 when it did   *)
(* not fail.                                                               *)
Says(s, k) ==
    IF s = Std THEN "attrs"
    ELSE IF s \in has_failed THEN "errno"
    ELSE IF k > Len(lists[s]) THEN "errno_0"
    ELSE IF lists[s][k].value = "failed" THEN "errno"
    ELSE IF lists[s][k].value = lists[Std][k].value THEN "absent"
    ELSE "attrs"

ServerJson(k) ==
    [of |-> lists[Std][k].dir, says |-> [s \in Servers |-> Says(s, k)]]

(* Mutant: the position in the batch is taken for the one in "diffs".      *)
MergeByPosition ==
    /\ pc = "poll"
    /\ has_done = Servers
    /\ diffs' = [i \in 1 .. Len(diffs) |->
                    IF i <= Len(dirQ)
                    THEN [diffs[i] EXCEPT !.servers = ServerJson(i)]
                    ELSE diffs[i]]
    /\ dirQ' = << >>
    /\ pc' = IF child # None THEN "open" ELSE "finish"
    /\ UNCHANGED <<start, stack, child, lists, has_done, has_failed, ret, tasks,
                   trouble>>

(* The answers go to the entries of "diffs" the batch was made from; the   *)
(* batch is cleared, and the walk goes on or the task ends.                *)
Merge ==
    /\ pc = "poll"
    /\ has_done = Servers
    /\ diffs' = [i \in 1 .. Len(diffs) |->
                    IF \E k \in 1 .. Len(dirQ) : dirQ[k].idx = i
                    THEN [diffs[i] EXCEPT !.servers =
                             ServerJson(CHOOSE k \in 1 .. Len(dirQ) : dirQ[k].idx = i)]
                    ELSE diffs[i]]
    /\ trouble' = trouble \cup {<<dirQ[k].dir, "attr">> : k \in
                     {j \in 1 .. Len(dirQ) : lists[Std][j].value = "failed"}}
    /\ dirQ' = << >>
    /\ pc' = IF child # None THEN "open" ELSE "finish"
    /\ UNCHANGED <<start, stack, child, lists, has_done, has_failed, ret,
                   tasks>>

(* The contents are deleted, errno is set unless S_SUCCESS, and the task   *)
(* is written to out_q_.                                                   *)
Finish ==
    /\ pc = "finish"
    /\ pc' = "loop"
    /\ stack' = << >>
    /\ child' = None
    /\ lists' = [s \in Servers |-> << >>]
    /\ has_done' = {}
    /\ has_failed' = {}
    /\ UNCHANGED <<start, dirQ, diffs, ret, tasks, trouble>>

-----------------------------------------------------------------------------
Step ==
    \/ NextTask
    \/ \E kind \in {"missing", "file", "special", "dir"} : StatPath(kind)
    \/ ChDirSucceeds \/ ChDirFails
    \/ OpenDir \/ OpenFails
    \/ \E n \in Nodes :
           ReadDir(n) \/ ReadFile(n) \/ StatEntryFails(n) \/ SkipEntry(n)
    \/ CloseDir
    \/ Flush \/ Merge \/ Finish

ServerAnswers(s) == Failed(s) \/ \E f \in Answers(s) : Answered(s, f)

Next == Step \/ ContentAsserts \/ \E s \in Servers : ServerAnswers(s)

Spec == Init /\ [][Next]_vars

(* The worker runs.  No server is obliged to answer: a remote content      *)
(* reports E_DC_CONTENT_RETRY as often as its peer does.                   *)
FairSpec == Spec /\ WF_vars(Step)

-----------------------------------------------------------------------------
(* Properties                                                              *)

(* Batches do not mix up directories: the attributes merged into an entry  *)
(* of "diffs" are those of the entry's own directory, although they come   *)
(* back by position in a batch that may end in the middle of any directory.*)
MergedAligned ==
    \A i \in 1 .. Len(diffs) :
        diffs[i].servers # NoServers
            => diffs[i].is_dir /\ diffs[i].servers.of = diffs[i].node

(* A task that ends without error has asked for every directory it lists:  *)
(* none is left in a batch that was never sent.                            *)
NoDirForgotten ==
    pc \in {"finish", "loop"} /\ ret = "S_SUCCESS"
        => \A i \in 1 .. Len(diffs) :
               diffs[i].is_dir => diffs[i].servers # NoServers

Listed == {diffs[i].node : i \in 1 .. Len(diffs)}
Unread == {d \in DOMAIN Children :
              \/ <<d, "open">> \in trouble
              \/ \E n \in Children[d] : <<n, "stat">> \in trouble}
Owed(n) == Kind[n] = "file" \/ Reported(n) = "dir"
Walked == {start} \cup {n \in Listed : Kind[n] = "dir"}

(* A task that ends without error lists nothing twice, and lists every     *)
(* regular file of each directory it reached and could read, and every     *)
(* subdirectory whose type readdir reports, whatever the order of readdir: *)
(* an error in one directory does not hide anything of another.            *)
(* Subdirectories of unknown type, and what is in a directory that cannot  *)
(* be read, are missing without an error.                                  *)
WalkComplete ==
    pc \in {"finish", "loop"} /\ ret = "S_SUCCESS"
        => /\ Cardinality(Listed) = Len(diffs)
           /\ \A d \in Walked \ Unread :
                 {n \in Children[d] : Owed(n)} \subseteq Listed

(* Every task ends, or the process does, or some server never answers: the *)
(* walk terminates, and once all have answered nothing is waited for.      *)
TaskEnds ==
    pc = "stat"
        ~> \/ pc \in {"loop", "json_type_error", "panic"}
           \/ \E s \in Servers :
                 [](pc = "poll" /\ s \notin has_done /\ lists[s] = << >>)

(* The assertion of execute(), that dir_q_ is empty when the next task     *)
(* begins, can only fail after a task that could not stat an entry of the  *)
(* directory it began at: every other end of a task, also one with errors  *)
(* further down, leaves nothing for the next one.                          *)
LeftoverExplained ==
    pc = "loop" /\ dirQ # << >> =>
        /\ ret = "E_OS_ENV_STAT"
        /\ \E n \in Children[start] : <<n, "stat">> \in trouble
=============================================================================
