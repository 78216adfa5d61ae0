---------------------------- MODULE ContentLocal ----------------------------
(***************************************************************************)
(* dc_content_local_t: the caller sends commands through cmd_q_ to a       *)
(* worker thread and polls ret_q_ for their results.  Reading a file is a  *)
(* state machine split over both threads: the caller keeps                 *)
(* file_read_state_, the worker keeps the descriptor, the line that a      *)
(* buffer cut in two, and the digest.                                      *)
(*                                                                         *)
(* Each channel has one writer and one reader, so it is a FIFO (theorem    *)
(* Refinement of SPSCQueueProof).  A file is a sequence of characters of   *)
(* four kinds: a newline, a carriage return, another blank (what isspace   *)
(* accepts) and any other.  SHA1 and MD5 are injective: a digest is the    *)
(* bytes it was computed from.                                             *)
(***************************************************************************)
EXTENDS Integers, Sequences, FiniteSets

CONSTANTS Files,       \* the contents of the files that may be read
          BufLen,      \* DC_CONTENT_FILE_READ_BUF
          MaxOps       \* bound: number of do_* calls

ASSUME BufAssumption == BufLen \in Nat \ {0}

Chars == {"nl", "cr", "blank", "char"}
ASSUME FilesAssumption == \A f \in Files : f \in Seq(Chars)

VARIABLES
    cmdQ, retQ,        \* cmd_q_ and ret_q_
    call,              \* what the caller polls for: none, attr, dirs, content
    state,             \* file_read_state_
    file,              \* the file behind file_path_
    lines,             \* *lines_sha1_
    empty,             \* *empty_lines_
    ops,               \* do_* calls made
    result,            \* what the last finished get_* returned
    cmd,               \* worker: the command it runs, or "none"
    fd,                \* worker: position behind file_read_fd_, or -1
    preLine,           \* worker: file_pre_line_
    md5,               \* worker: md5_, the bytes it is the digest of
    exit,              \* exit_
    worker,            \* "running" or "ended"
    crashed,           \* the assertion that ended the process
    spoilt             \* ghost: a file before this one ended in a blank line
                       \* without a newline

callerVars == <<call, state, file, ops, result>>
readVars == <<lines, empty, fd, preLine, md5>>
vars == <<cmdQ, retQ, callerVars, readVars, cmd, exit, worker, crashed, spoilt>>

isEmptyLine(s) == \A i \in 1 .. Len(s) : s[i] \in {"cr", "blank"}

(* Where the lines of a file start, and whether its last line is blank and *)
(* has no newline.                                                         *)
Starts(f) == {i \in 1 .. Len(f) : i = 1 \/ f[i - 1] = "nl"}
BlankEnd(f) == \E i \in Starts(f) : isEmptyLine(SubSeq(f, i, Len(f)))

None == "none"
Closed == -1
Alive == crashed = None

Init ==
    /\ cmdQ = << >> /\ retQ = << >>
    /\ call = None
    /\ state = "READ_INIT"
    /\ file = << >>
    /\ lines = << >>
    /\ empty = 0
    /\ ops = 0
    /\ result = None
    /\ cmd = None
    /\ fd = Closed
    /\ preLine = << >>
    /\ md5 = << >>
    /\ exit = FALSE
    /\ worker = "running"
    /\ crashed = None
    /\ spoilt = FALSE

-----------------------------------------------------------------------------
(* The caller.  It makes one call at a time and polls until the answer is  *)
(* not E_DC_CONTENT_RETRY, as dc_compare_t does.                           *)

MayCall == Alive /\ ~exit /\ call = None /\ ops < MaxOps

(* do_file_attr and do_dir_list_attr                                       *)
do_attr(what) ==
    /\ MayCall
    /\ ops' = ops + 1
    /\ call' = what
    /\ result' = None
    /\ cmdQ' = Append(cmdQ, what)
    /\ UNCHANGED <<retQ, state, file, readVars, cmd, exit, worker, crashed, spoilt>>

(* get_file_attr and get_dir_list_attr                                     *)
get_attr ==
    /\ Alive
    /\ call \in {"attr", "dirs"}
    /\ retQ # << >>
    /\ result' = Head(retQ)
    /\ retQ' = Tail(retQ)
    /\ call' = None
    /\ UNCHANGED <<cmdQ, state, file, ops, readVars, cmd, exit, worker, crashed,
                   spoilt>>

(* do_file_content, with a new vector and a counter at zero.  It asserts   *)
(* that the previous read came to its end.                                 *)
do_file_content(f) ==
    /\ MayCall
    /\ ops' = ops + 1
    /\ IF state # "READ_INIT"
       THEN /\ crashed' = "assert_read_init"
            /\ UNCHANGED <<call, state, file, result, lines, empty, cmdQ, spoilt>>
       ELSE /\ call' = "content"
            /\ file' = f
            /\ lines' = << >>
            /\ empty' = 0
            /\ result' = None
            /\ cmdQ' = Append(cmdQ, "prepare")
            /\ state' = "READ_PREPAR"
            /\ spoilt' = (spoilt \/ BlankEnd(file))
            /\ UNCHANGED crashed
    /\ UNCHANGED <<retQ, fd, preLine, md5, cmd, exit, worker>>

(* Mutant: a failed preparation answers E_DC_CONTENT_RETRY.                *)
GetPreparedRetries ==
    /\ Alive
    /\ call = "content"
    /\ state = "READ_PREPAR"
    /\ retQ # << >>
    /\ retQ' = Tail(retQ)
    /\ IF Head(retQ) = "S_SUCCESS"
       THEN cmdQ' = Append(cmdQ, "read") /\ state' = "READ_DO"
       ELSE UNCHANGED <<cmdQ, state>>
    /\ UNCHANGED <<call, result, file, ops, readVars, cmd, exit, worker, crashed,
                   spoilt>>

(* get_file_content that finds an answer in ret_q_ while READ_PREPAR.      *)
GetPrepared ==
    /\ Alive
    /\ call = "content"
    /\ state = "READ_PREPAR"
    /\ retQ # << >>
    /\ retQ' = Tail(retQ)
    /\ IF Head(retQ) = "S_SUCCESS"
       THEN /\ cmdQ' = Append(cmdQ, "read")
            /\ state' = "READ_DO"
            /\ UNCHANGED <<call, result>>
       ELSE /\ call' = None
            /\ result' = Head(retQ)
            /\ UNCHANGED <<cmdQ, state>>
    /\ UNCHANGED <<file, ops, readVars, cmd, exit, worker, crashed, spoilt>>

(* ... while READ_DO: the buffer is read, the file is over, or an error,   *)
(* which leaves the state as it is.                                        *)
GetRead ==
    /\ Alive
    /\ call = "content"
    /\ state = "READ_DO"
    /\ retQ # << >>
    /\ retQ' = Tail(retQ)
    /\ \/ /\ Head(retQ) = "S_SUCCESS"
          /\ state' = "READ_OVER"
          /\ UNCHANGED <<call, result, crashed>>
       \/ /\ Head(retQ) = "E_DC_CONTENT_OVER"
          /\ IF fd # Closed
             THEN crashed' = "assert_fd_closed" /\ UNCHANGED <<call, state, result>>
             ELSE /\ call' = None
                  /\ state' = "READ_INIT"
                  /\ result' = Head(retQ)
                  /\ UNCHANGED crashed
       \/ /\ Head(retQ) \notin {"S_SUCCESS", "E_DC_CONTENT_OVER"}
          /\ call' = None
          /\ result' = Head(retQ)
          /\ UNCHANGED <<state, crashed>>
    /\ UNCHANGED <<cmdQ, file, ops, readVars, cmd, exit, worker, spoilt>>

(* Mutant: the state stays READ_OVER after the command was sent.           *)
GetNextAgain ==
    /\ Alive
    /\ call = "content"
    /\ state = "READ_OVER"
    /\ cmdQ' = Append(cmdQ, "read")
    /\ UNCHANGED <<retQ, call, state, file, ops, result, readVars, cmd, exit, worker,
                   crashed, spoilt>>

(* ... while READ_OVER: the next buffer is asked for.                      *)
GetNext ==
    /\ Alive
    /\ call = "content"
    /\ state = "READ_OVER"
    /\ cmdQ' = Append(cmdQ, "read")
    /\ state' = "READ_DO"
    /\ UNCHANGED <<retQ, call, file, ops, result, readVars, cmd, exit, worker,
                   crashed, spoilt>>

-----------------------------------------------------------------------------
(* The destructor: exit_, join, and the assertion that the file is closed. *)

Destructor ==
    /\ Alive
    /\ ~exit
    /\ call = None
    /\ exit' = TRUE
    /\ UNCHANGED <<cmdQ, retQ, callerVars, readVars, cmd, worker, crashed, spoilt>>

Joined ==
    /\ Alive
    /\ exit
    /\ worker = "ended"
    /\ fd # Closed
    /\ crashed' = "assert_fd_closed"
    /\ UNCHANGED <<cmdQ, retQ, callerVars, readVars, cmd, exit, worker, spoilt>>

-----------------------------------------------------------------------------
(* The worker                                                              *)

(* while (!exit_) and cmd_q_.read_once                                     *)
TakeCommand ==
    /\ Alive
    /\ worker = "running"
    /\ cmd = None
    /\ IF exit
       THEN worker' = "ended" /\ UNCHANGED <<cmd, cmdQ>>
       ELSE /\ cmdQ # << >>
            /\ cmd' = Head(cmdQ)
            /\ cmdQ' = Tail(cmdQ)
            /\ UNCHANGED worker
    /\ UNCHANGED <<retQ, callerVars, readVars, exit, crashed, spoilt>>

Answer(r) ==
    /\ retQ' = Append(retQ, r)
    /\ cmd' = None

(* thd_worker_file_attr returns the error of stat, getpwuid or localtime;  *)
(* thd_worker_dir_list_attr keeps errors in the attributes and succeeds,   *)
(* but asserts that what it finds at each path is a directory still.       *)
thd_worker_attr ==
    /\ Alive
    /\ \/ /\ cmd = "attr" /\ \E r \in {"S_SUCCESS", "E_OS_ENV"} : Answer(r)
          /\ UNCHANGED crashed
       \/ /\ cmd = "dirs" /\ Answer("S_SUCCESS")
          /\ UNCHANGED crashed
       \/ /\ cmd = "dirs" /\ crashed' = "assert_is_dir"
          /\ UNCHANGED <<cmd, retQ>>
    /\ UNCHANGED <<cmdQ, callerVars, readVars, exit, worker, spoilt>>

(* Its assertions: the vector and the counter are as do_file_content left  *)
(* them, and no file is open.                                              *)
thd_worker_file_content_prepare ==
    /\ Alive
    /\ cmd = "prepare"
    /\ \/ /\ fd # Closed
          /\ crashed' = "assert_fd_closed"
          /\ UNCHANGED <<fd, retQ, cmd>>
       \/ /\ fd = Closed
          /\ \/ fd' = 0 /\ Answer("S_SUCCESS")
             \/ fd' = fd /\ Answer("E_OS_ENV")
          /\ UNCHANGED crashed
    /\ UNCHANGED <<cmdQ, callerVars, lines, empty, preLine, md5, exit, worker, spoilt>>

-----------------------------------------------------------------------------
(* Lines                                                                   *)

(* thd_worker_compute_sha1_of_single_line: the line is what was left of    *)
(* the last buffer and s; blank lines are counted, others hashed, and the  *)
(* rest is cleared.                                                        *)
SingleLine(acc, s) ==
    LET line == acc.pre \o s
    IN  IF isEmptyLine(line)
        THEN [acc EXCEPT !.pre = << >>, !.empty = @ + 1]
        ELSE [acc EXCEPT !.pre = << >>, !.lines = Append(@, line)]

(* Mutant: the rest is not cleared after it was hashed at the end.         *)
LastLineKept(acc) ==
    IF acc.pre = << >> THEN acc
    ELSE IF isEmptyLine(acc.pre) THEN [acc EXCEPT !.empty = @ + 1]
    ELSE [acc EXCEPT !.lines = Append(@, acc.pre)]

(* The end of the file: a rest without a newline is a line too.  The rest  *)
(* is cleared only if it was hashed.                                       *)
LastLine(acc) ==
    IF acc.pre = << >> THEN acc
    ELSE IF isEmptyLine(acc.pre) THEN [acc EXCEPT !.empty = @ + 1]
    ELSE [acc EXCEPT !.pre = << >>, !.lines = Append(@, acc.pre)]

(* A turn of the loop of compute_sha1_by_lines: character i of the buffer  *)
(* ends a line, or is passed over; begin is cur_line_begin.                *)
Character(l, buf, i) ==
    IF buf[i] = "nl"
    THEN [acc |-> SingleLine(l.acc, SubSeq(buf, l.begin, i - 1)), begin |-> i + 1]
    ELSE l

(* compute_sha1_by_lines: loop[i] has read the first i characters; what is *)
(* left of the buffer is kept.                                             *)
compute_sha1_by_lines(acc, buf) ==
    LET loop[i \in 0 .. Len(buf)] ==
            IF i = 0 THEN [acc |-> acc, begin |-> 1]
            ELSE Character(loop[i - 1], buf, i)
        end == loop[Len(buf)]
    IN  [end.acc EXCEPT !.pre = @ \o SubSeq(buf, end.begin, Len(buf))]

Acc == [lines |-> lines, empty |-> empty, pre |-> preLine]
Become(acc) == lines' = acc.lines /\ empty' = acc.empty /\ preLine' = acc.pre

(* read returns BufLen characters, or what is left: of a regular file it   *)
(* returns less only at its end.                                           *)
Rest == SubSeq(file, fd + 1, Len(file))
Chunk == SubSeq(Rest, 1, IF Len(Rest) < BufLen THEN Len(Rest) ELSE BufLen)

(* Mutant: the descriptor is not closed at the end of the file.            *)
FileOverOpen ==
    /\ Len(Rest) < BufLen
    /\ Become(LastLine(compute_sha1_by_lines(Acc, Chunk)))
    /\ md5' = Chunk
    /\ fd' = fd
    /\ Answer("E_DC_CONTENT_OVER")

(* MD5 of the buffer replaces the digest.  A buffer that is not full is    *)
(* taken for the last one.                                                 *)
FileOver ==
    /\ Len(Rest) < BufLen
    /\ Become(LastLine(compute_sha1_by_lines(Acc, Chunk)))
    /\ md5' = Chunk
    /\ fd' = Closed
    /\ Answer("E_DC_CONTENT_OVER")

FullBuffer ==
    /\ Len(Rest) >= BufLen
    /\ Become(compute_sha1_by_lines(Acc, Chunk))
    /\ md5' = Chunk
    /\ fd' = fd + BufLen
    /\ Answer("S_SUCCESS")

ReadFails ==
    /\ Answer("E_OS_ENV_READ")
    /\ UNCHANGED readVars

thd_worker_file_content_read ==
    /\ Alive
    /\ cmd = "read"
    /\ fd # Closed
    /\ FileOver \/ FullBuffer \/ ReadFails
    /\ UNCHANGED <<cmdQ, callerVars, exit, worker, crashed, spoilt>>

-----------------------------------------------------------------------------
CallerPolls == get_attr \/ GetPrepared \/ GetRead \/ GetNext

WorkerStep ==
    \/ TakeCommand \/ thd_worker_attr
    \/ thd_worker_file_content_prepare \/ thd_worker_file_content_read

Next ==
    \/ \E what \in {"attr", "dirs"} : do_attr(what)
    \/ \E f \in Files : do_file_content(f)
    \/ CallerPolls
    \/ Destructor \/ Joined
    \/ WorkerStep

Spec == Init /\ [][Next]_vars

(* The worker runs and the caller keeps polling.                           *)
FairSpec == Spec /\ WF_vars(WorkerStep) /\ WF_vars(CallerPolls)
-----------------------------------------------------------------------------
(* Properties                                                              *)

(* The lines of a file, as std::getline of the repository's own check      *)
(* (test_file_sha1.cc) finds them, and those that are not blank.           *)
LineAt(f, i) ==
    LET last == CHOOSE j \in i - 1 .. Len(f) :
                    /\ \A k \in i .. j : f[k] # "nl"
                    /\ j = Len(f) \/ f[j + 1] = "nl"
    IN  SubSeq(f, i, last)
Texts(f) == {i \in Starts(f) : ~isEmptyLine(LineAt(f, i))}

(* A line that ends in a carriage return: dc_content.h wants it left out   *)
(* of the line, the code hashes it.                                        *)
ReturnAtEnd(f) ==
    \E i \in Texts(f) : LineAt(f, i)[Len(LineAt(f, i))] = "cr"

(* However the buffers cut the file, and whatever files the object read    *)
(* before, a read that came to its end has hashed exactly the lines        *)
(* getline finds that are not blank, in order, and counted the others.     *)
(* Two cases are not claimed: lines that end in \r\n, and a file read      *)
(* after one whose last line was blank and had no newline, which           *)
(* file_pre_line_ then still holds.                                        *)
LinesAsGetline ==
    result = "E_DC_CONTENT_OVER" /\ ~spoilt /\ ~ReturnAtEnd(file)
        => /\ Len(lines) = Cardinality(Texts(file))
           /\ \A i \in Texts(file) :
                  lines[Cardinality({j \in Texts(file) : j <= i})] = LineAt(file, i)
           /\ empty = Cardinality(Starts(file) \ Texts(file))

Busy == IF cmd = None THEN 0 ELSE 1

(* A call in progress has exactly one command or answer under way (none    *)
(* just before the next buffer is asked for), and no call leaves one       *)
(* behind: no answer is ever taken for that of another call.               *)
OneOutstanding ==
    Len(cmdQ) + Busy + Len(retQ)
        = IF call = None \/ state = "READ_OVER" THEN 0 ELSE 1

(* The descriptor is open whenever the worker is to read, and closed once  *)
(* the caller is back in READ_INIT: of the assertions on it, only those    *)
(* after a failed read can fail.                                           *)
DescriptorMatches ==
    /\ cmd = "read" => fd # Closed
    /\ call = None /\ state = "READ_INIT" => fd = Closed
    /\ crashed = "assert_fd_closed" => call = None /\ state = "READ_DO"

(* Every call gets its answer: polling ends, unless a directory of the     *)
(* list was replaced by a file, which ends the process.                    *)
CallEnds == call # None ~> call = None \/ crashed = "assert_is_dir"
=============================================================================
