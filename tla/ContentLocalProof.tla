------------------------- MODULE ContentLocalProof -------------------------
(***************************************************************************)
(* The two threads of dc_content_local_t keep in step, for every set of    *)
(* files, every buffer length and any number of calls: a call has one      *)
(* command or answer under way, and the descriptor is open exactly when    *)
(* the protocol says so.                                                   *)
(*                                                                         *)
(* The inductive invariant names the phases of the protocol.  A phase says *)
(* what is in the two channels and in the worker's hand together with the  *)
(* caller's file_read_state_ and the worker's descriptor: none of these    *)
(* is enough without the others.                                           *)
(*                                                                         *)
(* And the lines of a file are found however its buffers cut them.  The    *)
(* invariant of the loop of compute_sha1_by_lines is that of the whole     *)
(* read: the lines that start before an open one are hashed and counted,   *)
(* and what is read of the open one is file_pre_line_ followed by the      *)
(* buffer from cur_line_begin on.                                          *)
(***************************************************************************)
EXTENDS ContentLocal, FiniteSetTheorems, SequenceTheorems, NaturalsInduction,
        WellFoundedInduction, TLAPS

Quiet       == cmdQ = << >> /\ cmd = None /\ retQ = << >>
Sent(c)     == cmdQ = <<c>> /\ cmd = None /\ retQ = << >>
Running(c)  == cmdQ = << >> /\ cmd = c    /\ retQ = << >>
Answered(r) == cmdQ = << >> /\ cmd = None /\ retQ = <<r>>
Asked(c)    == Sent(c) \/ Running(c)

Open == fd \in Nat

(* Between reads: no file is open, unless the last read failed half-way.   *)
Resting == \/ state \in {"READ_INIT", "READ_PREPAR"} /\ fd = Closed
           \/ state = "READ_DO" /\ Open

NoCall == call = None /\ Quiet /\ Resting

Attributes ==
    /\ call \in {"attr", "dirs"}
    /\ Asked(call) \/ \E r \in {"S_SUCCESS", "E_OS_ENV"} : Answered(r)
    /\ Resting

Preparing ==
    /\ call = "content"
    /\ state = "READ_PREPAR"
    /\ \/ (Asked("prepare") \/ Answered("E_OS_ENV")) /\ fd = Closed
       \/ Answered("S_SUCCESS") /\ Open

Reading ==
    /\ call = "content"
    /\ state = "READ_DO"
    /\ \/ (Asked("read") \/ Answered("S_SUCCESS") \/ Answered("E_OS_ENV_READ")) /\ Open
       \/ Answered("E_DC_CONTENT_OVER") /\ fd = Closed

BetweenBuffers == call = "content" /\ state = "READ_OVER" /\ Quiet /\ Open

InPhase == NoCall \/ Attributes \/ Preparing \/ Reading \/ BetweenBuffers

(* What ends the object, one way or the other.                             *)
Ending ==
    /\ exit => call = None
    /\ crashed = "assert_fd_closed" => call = None /\ state = "READ_DO"

IInv == InPhase /\ Ending

-----------------------------------------------------------------------------
(* Channels of at most one element.                                        *)
LEMMA OneElement ==
    ASSUME NEW x
    PROVE  /\ Append(<< >>, x) = <<x>>
           /\ Head(<<x>>) = x
           /\ Tail(<<x>>) = << >>
           /\ <<x>> # << >>
           /\ Len(<<x>>) = 1
           /\ Len(<< >>) = 0
  OBVIOUS

-----------------------------------------------------------------------------
(* The caller                                                              *)

(* A call for attributes starts from rest and sends one command.           *)
LEMMA DoAttrStep ==
    ASSUME IInv, NEW what \in {"attr", "dirs"}, do_attr(what)
    PROVE  IInv'
<1>1. NoCall /\ ~exit
  BY DEF IInv, InPhase, do_attr, MayCall, None, Attributes, Preparing, Reading,
         BetweenBuffers
<1>2. /\ cmdQ' = <<what>> /\ cmd' = None /\ retQ' = << >> /\ call' = what
      /\ UNCHANGED <<state, fd, exit, crashed>>
  BY <1>1, OneElement DEF do_attr, NoCall, Quiet, readVars
<1>3. Attributes'
  BY <1>1, <1>2 DEF NoCall, Attributes, Asked, Sent, Resting, Open, Closed
<1>4. crashed' # "assert_fd_closed"
  BY <1>2 DEF do_attr, MayCall, Alive, None
<1>5. QED
  BY <1>1, <1>2, <1>3, <1>4 DEF IInv, InPhase, Ending

(* Its answer takes the caller back to rest.                               *)
LEMMA GetAttrStep == ASSUME IInv, get_attr PROVE IInv'
<1>1. Attributes /\ crashed = None
  BY DEF IInv, InPhase, get_attr, Alive, None, NoCall, Preparing, Reading,
         BetweenBuffers
<1>2. PICK r \in {"S_SUCCESS", "E_OS_ENV"} : Answered(r)
  BY <1>1 DEF Attributes, get_attr, Asked, Sent, Running
<1>3. /\ cmdQ' = << >> /\ cmd' = None /\ retQ' = << >> /\ call' = None
      /\ UNCHANGED <<state, fd, exit, crashed>>
  BY <1>2, OneElement DEF get_attr, Answered, readVars
<1>4. NoCall'
  BY <1>1, <1>3 DEF NoCall, Quiet, Attributes, Resting, Open, Closed
<1>5. QED
  BY <1>1, <1>3, <1>4 DEF IInv, InPhase, Ending, None

(* A read starts from rest; the assertion on the state ends the process    *)
(* after one that did not come to its end.                                 *)
LEMMA DoContentStep ==
    ASSUME IInv, NEW f \in Files, do_file_content(f)
    PROVE  IInv'
<1>1. NoCall /\ ~exit /\ crashed = None
  BY DEF IInv, InPhase, do_file_content, MayCall, None, Alive, Attributes,
         Preparing, Reading, BetweenBuffers
<1>2. UNCHANGED <<cmd, retQ, fd, exit>>
  BY DEF do_file_content
<1>3. CASE state # "READ_INIT"
  <2>1. crashed' = "assert_read_init" /\ UNCHANGED <<call, state, cmdQ>>
    BY <1>3 DEF do_file_content
  <2>2. NoCall'
    BY <1>1, <1>2, <2>1 DEF NoCall, Quiet, Resting, Open, Closed
  <2>3. QED
    BY <1>1, <1>2, <2>1, <2>2 DEF IInv, InPhase, Ending
<1>4. CASE state = "READ_INIT"
  <2>1. /\ cmdQ' = <<"prepare">> /\ state' = "READ_PREPAR"
        /\ call' = "content" /\ crashed' = crashed
    BY <1>1, <1>4, OneElement DEF do_file_content, NoCall, Quiet
  <2>2. Preparing'
    BY <1>1, <1>2, <1>4, <2>1
    DEF NoCall, Quiet, Resting, Preparing, Asked, Sent, Closed
  <2>3. QED
    BY <1>1, <1>2, <2>1, <2>2 DEF IInv, InPhase, Ending, None
<1>5. QED
  BY <1>3, <1>4

(* The answer to the preparation: the first buffer is asked for, or the    *)
(* call ends with no file open.                                            *)
LEMMA GetPreparedStep == ASSUME IInv, GetPrepared PROVE IInv'
<1>1. Preparing /\ crashed = None
  BY DEF IInv, InPhase, GetPrepared, Alive, None, NoCall, Attributes, Reading,
         BetweenBuffers
<1>2. UNCHANGED <<cmd, fd, exit, crashed>>
  BY DEF GetPrepared, readVars
<1>3. \/ Answered("E_OS_ENV") /\ fd = Closed
      \/ Answered("S_SUCCESS") /\ Open
  BY <1>1 DEF Preparing, GetPrepared, Asked, Sent, Running
<1>4. CASE Answered("S_SUCCESS") /\ Open
  <2>1. /\ retQ' = << >> /\ cmdQ' = <<"read">> /\ state' = "READ_DO"
        /\ call' = "content" /\ cmd' = None
    BY <1>1, <1>4, OneElement DEF GetPrepared, Answered, Preparing
  <2>2. Reading'
    BY <1>2, <1>4, <2>1 DEF Reading, Asked, Sent, Open
  <2>3. QED
    BY <1>1, <1>2, <2>1, <2>2 DEF IInv, InPhase, Ending, None, Preparing
<1>5. CASE Answered("E_OS_ENV") /\ fd = Closed
  <2>1. /\ retQ' = << >> /\ cmdQ' = << >> /\ state' = "READ_PREPAR"
        /\ call' = None /\ cmd' = None
    BY <1>1, <1>5, OneElement DEF GetPrepared, Answered, Preparing
  <2>2. NoCall'
    BY <1>2, <1>5, <2>1 DEF NoCall, Quiet, Resting, Closed
  <2>3. QED
    BY <1>1, <1>2, <2>1, <2>2 DEF IInv, InPhase, Ending, None
<1>6. QED
  BY <1>3, <1>4, <1>5

(* The answer to a read: another buffer, the end of the file, which finds  *)
(* the descriptor closed, or an error, which leaves it open.               *)
LEMMA GetReadStep == ASSUME IInv, GetRead PROVE IInv'
<1>1. Reading /\ crashed = None
  BY DEF IInv, InPhase, GetRead, Alive, None, NoCall, Attributes, Preparing,
         BetweenBuffers
<1>2. UNCHANGED <<cmdQ, cmd, fd, exit>>
  BY DEF GetRead, readVars
<1>3. \/ Answered("S_SUCCESS") /\ Open
      \/ Answered("E_OS_ENV_READ") /\ Open
      \/ Answered("E_DC_CONTENT_OVER") /\ fd = Closed
  BY <1>1 DEF Reading, GetRead, Asked, Sent, Running
<1>4. CASE Answered("S_SUCCESS") /\ Open
  <2>1. /\ retQ' = << >> /\ state' = "READ_OVER" /\ call' = "content"
        /\ crashed' = None
    BY <1>1, <1>4, OneElement DEF GetRead, Answered, Reading
  <2>2. BetweenBuffers'
    BY <1>2, <1>4, <2>1 DEF BetweenBuffers, Quiet, Open, Answered
  <2>3. QED
    BY <1>1, <1>2, <2>1, <2>2 DEF IInv, InPhase, Ending, None, Reading
<1>5. CASE Answered("E_OS_ENV_READ") /\ Open
  <2>1. /\ retQ' = << >> /\ state' = "READ_DO" /\ call' = None
        /\ crashed' = None
    BY <1>1, <1>5, OneElement DEF GetRead, Answered, Reading
  <2>2. NoCall'
    BY <1>2, <1>5, <2>1 DEF NoCall, Quiet, Resting, Open, Answered
  <2>3. QED
    BY <2>1, <2>2 DEF IInv, InPhase, Ending, None
<1>6. CASE Answered("E_DC_CONTENT_OVER") /\ fd = Closed
  <2>1. /\ retQ' = << >> /\ state' = "READ_INIT" /\ call' = None
        /\ crashed' = None
    BY <1>1, <1>6, OneElement DEF GetRead, Answered, Reading
  <2>2. NoCall'
    BY <1>2, <1>6, <2>1 DEF NoCall, Quiet, Resting, Closed, Answered
  <2>3. QED
    BY <2>1, <2>2 DEF IInv, InPhase, Ending, None
<1>7. QED
  BY <1>3, <1>4, <1>5, <1>6

(* The next buffer is asked for.                                           *)
LEMMA GetNextStep == ASSUME IInv, GetNext PROVE IInv'
<1>1. BetweenBuffers /\ crashed = None
  BY DEF IInv, InPhase, GetNext, Alive, None, NoCall, Attributes, Preparing,
         Reading
<1>2. /\ cmdQ' = <<"read">> /\ state' = "READ_DO"
      /\ UNCHANGED <<retQ, call, fd, cmd, exit, crashed>>
  BY <1>1, OneElement DEF GetNext, BetweenBuffers, Quiet, readVars
<1>3. Reading'
  BY <1>1, <1>2 DEF Reading, BetweenBuffers, Quiet, Asked, Sent, Open
<1>4. QED
  BY <1>1, <1>2, <1>3 DEF IInv, InPhase, Ending, None, BetweenBuffers

(* The destructor runs only between calls; its assertion fails only after  *)
(* a read that failed.                                                     *)
LEMMA DestructorStep == ASSUME IInv, Destructor \/ Joined PROVE IInv'
<1>1. NoCall
  BY DEF IInv, InPhase, Ending, Destructor, Joined, None, Attributes, Preparing,
         Reading, BetweenBuffers
<1>2. UNCHANGED <<cmdQ, retQ, call, state, fd, cmd>>
  BY DEF Destructor, Joined, callerVars, readVars
<1>3. NoCall'
  BY <1>1, <1>2 DEF NoCall, Quiet, Resting, Open, Closed
<1>4. crashed' = "assert_fd_closed" => state = "READ_DO"
  BY <1>1 DEF Destructor, Joined, NoCall, Resting, Alive, None
<1>5. QED
  BY <1>2, <1>3, <1>4 DEF IInv, InPhase, Ending, NoCall

-----------------------------------------------------------------------------
(* The worker                                                              *)

(* Taking a command, or leaving the loop, keeps the phase.                 *)
LEMMA TakeCommandStep == ASSUME IInv, TakeCommand PROVE IInv'
<1>1. UNCHANGED <<retQ, call, state, fd, exit, crashed>>
  BY DEF TakeCommand, callerVars, readVars
<1>2. CASE exit
  <2>1. UNCHANGED <<cmdQ, cmd>>
    BY <1>2 DEF TakeCommand
  <2>2. InPhase'
    BY <1>1, <2>1
    DEF IInv, InPhase, NoCall, Attributes, Preparing, Reading, BetweenBuffers,
        Quiet, Asked, Sent, Running, Answered, Resting, Open, Closed
  <2>3. QED
    BY <1>1, <2>2 DEF IInv, Ending
<1>3. CASE ~exit
  <2>1. cmdQ # << >> /\ cmd' = Head(cmdQ) /\ cmdQ' = Tail(cmdQ)
    BY <1>3 DEF TakeCommand
  <2>2. ASSUME NEW c, Sent(c) PROVE Running(c)'
    BY <1>1, <2>1, <2>2, OneElement DEF Sent, Running
  <2>3. CASE Attributes
    <3>1. Sent(call)
      BY <2>1, <2>3 DEF Attributes, Asked, Running, Answered
    <3>2. Running(call)' /\ UNCHANGED call
      BY <1>1, <2>2, <3>1
    <3>3. QED
      BY <1>1, <2>3, <3>2
      DEF IInv, InPhase, Ending, Attributes, Asked, Resting, Open, Closed
  <2>4. CASE Preparing
    <3>1. Sent("prepare") /\ fd = Closed
      BY <2>1, <2>4 DEF Preparing, Asked, Running, Answered
    <3>2. QED
      BY <1>1, <2>2, <2>4, <3>1
      DEF IInv, InPhase, Ending, Preparing, Asked, Closed
  <2>5. CASE Reading
    <3>1. Sent("read") /\ Open
      BY <2>1, <2>5 DEF Reading, Asked, Running, Answered
    <3>2. QED
      BY <1>1, <2>2, <2>5, <3>1
      DEF IInv, InPhase, Ending, Reading, Asked, Open
  <2>6. QED
    BY <2>1, <2>3, <2>4, <2>5
    DEF IInv, InPhase, NoCall, BetweenBuffers, Quiet
<1>4. QED
  BY <1>2, <1>3

(* The command the worker runs says which phase it is in.                  *)
LEMMA RunningPhase ==
    ASSUME IInv
    PROVE  /\ cmd \in {"attr", "dirs"} => Attributes /\ Running(call)
           /\ cmd = "prepare" => Preparing /\ Running("prepare") /\ fd = Closed
           /\ cmd = "read" => Reading /\ Running("read") /\ Open
<1> USE DEF IInv, InPhase, NoCall, Attributes, Preparing, Reading,
            BetweenBuffers, Quiet, Asked, Sent, Running, Answered, None
<1>1. cmd \in {"attr", "dirs"} => Attributes /\ Running(call)
  OBVIOUS
<1>2. cmd = "prepare" => Preparing /\ Running("prepare") /\ fd = Closed
  OBVIOUS
<1>3. cmd = "read" => Reading /\ Running("read") /\ Open
  OBVIOUS
<1>4. QED
  BY <1>1, <1>2, <1>3

(* The answer of a command that was run.                                   *)
LEMMA AnswerGiven ==
    ASSUME NEW c, NEW r, Running(c), Answer(r), cmdQ' = cmdQ
    PROVE  Answered(r)'
  BY OneElement DEF Running, Answer, Answered

(* Attributes do not touch the descriptor.                                 *)
LEMMA WorkerAttrStep == ASSUME IInv, thd_worker_attr PROVE IInv'
<1>1. Attributes /\ Running(call)
  BY RunningPhase DEF thd_worker_attr
<1>2. UNCHANGED <<cmdQ, call, state, fd, exit>>
  BY DEF thd_worker_attr, callerVars, readVars
<1>3. CASE \E r \in {"S_SUCCESS", "E_OS_ENV"} : Answer(r) /\ crashed' = crashed
  <2>1. PICK r \in {"S_SUCCESS", "E_OS_ENV"} : Answer(r) /\ crashed' = crashed
    BY <1>3
  <2>2. Answered(r)'
    BY <1>1, <1>2, <2>1, AnswerGiven
  <2>3. Attributes'
    BY <1>1, <1>2, <2>2 DEF Attributes, Resting, Open, Closed
  <2>4. QED
    BY <1>2, <2>1, <2>3 DEF IInv, InPhase, Ending
<1>4. CASE crashed' = "assert_is_dir" /\ UNCHANGED <<cmd, retQ>>
  <2>1. Attributes'
    BY <1>1, <1>2, <1>4
    DEF Attributes, Resting, Open, Closed, Running, Asked
  <2>2. QED
    BY <1>2, <1>4, <2>1 DEF IInv, InPhase, Ending
<1>5. QED
  BY <1>3, <1>4 DEF thd_worker_attr

(* The preparation finds no file open, so its assertion holds.             *)
LEMMA PrepareStep ==
    ASSUME IInv, thd_worker_file_content_prepare PROVE IInv'
<1>1. Preparing /\ Running("prepare") /\ fd = Closed
  BY RunningPhase DEF thd_worker_file_content_prepare
<1>2. UNCHANGED <<cmdQ, call, state, exit, crashed>>
  BY <1>1 DEF thd_worker_file_content_prepare, callerVars
<1>3. \/ fd' = 0 /\ Answer("S_SUCCESS")
      \/ fd' = Closed /\ Answer("E_OS_ENV")
  BY <1>1 DEF thd_worker_file_content_prepare
<1>4. \/ fd' = 0 /\ Answered("S_SUCCESS")'
      \/ fd' = Closed /\ Answered("E_OS_ENV")'
  BY <1>1, <1>2, <1>3, AnswerGiven
<1>5. Preparing'
  BY <1>1, <1>2, <1>4 DEF Preparing, Open, Closed
<1>6. QED
  BY <1>2, <1>5 DEF IInv, InPhase, Ending

(* A read closes the file exactly when it answers that the file is over.   *)
LEMMA ReadStep == ASSUME IInv, thd_worker_file_content_read PROVE IInv'
<1>1. Reading /\ Running("read") /\ Open
  BY RunningPhase DEF thd_worker_file_content_read
<1>2. UNCHANGED <<cmdQ, call, state, exit, crashed>>
  BY DEF thd_worker_file_content_read, callerVars
<1>3. \/ fd' = Closed /\ Answer("E_DC_CONTENT_OVER")
      \/ fd' \in Nat /\ Answer("S_SUCCESS")
      \/ fd' \in Nat /\ Answer("E_OS_ENV_READ")
  <2>1. CASE FileOver
    BY <2>1 DEF FileOver
  <2>2. CASE FullBuffer
    BY <1>1, <2>2, BufAssumption DEF FullBuffer, Open
  <2>3. CASE ReadFails
    BY <1>1, <2>3 DEF ReadFails, readVars, Open
  <2>4. QED
    BY <2>1, <2>2, <2>3 DEF thd_worker_file_content_read
<1>4. \/ fd' = Closed /\ Answered("E_DC_CONTENT_OVER")'
      \/ fd' \in Nat /\ Answered("S_SUCCESS")'
      \/ fd' \in Nat /\ Answered("E_OS_ENV_READ")'
  BY <1>1, <1>2, <1>3, AnswerGiven
<1>5. Reading'
  BY <1>1, <1>2, <1>4 DEF Reading, Open, Closed
<1>6. QED
  BY <1>2, <1>5 DEF IInv, InPhase, Ending

-----------------------------------------------------------------------------
(* At first there is no call.                                              *)
LEMMA Initially == Init => IInv
  BY DEF Init, IInv, InPhase, Ending, NoCall, Quiet, Resting, Closed, None

(* Every step keeps the threads in a phase.                                *)
LEMMA Inductive == IInv /\ [Next]_vars => IInv'
<1> SUFFICES ASSUME IInv, [Next]_vars PROVE IInv'
  OBVIOUS
<1>1. ASSUME NEW what \in {"attr", "dirs"}, do_attr(what) PROVE IInv'
  BY <1>1, DoAttrStep
<1>2. ASSUME NEW f \in Files, do_file_content(f) PROVE IInv'
  BY <1>2, DoContentStep
<1>3. CASE CallerPolls
  BY <1>3, GetAttrStep, GetPreparedStep, GetReadStep, GetNextStep DEF CallerPolls
<1>4. CASE Destructor \/ Joined
  BY <1>4, DestructorStep
<1>5. CASE WorkerStep
  BY <1>5, TakeCommandStep, WorkerAttrStep, PrepareStep, ReadStep DEF WorkerStep
<1>6. CASE UNCHANGED vars
  <2>1. UNCHANGED <<cmdQ, retQ, call, state, fd, cmd, exit, crashed>>
    BY <1>6 DEF vars, callerVars, readVars
  <2>2. InPhase'
    BY <2>1
    DEF IInv, InPhase, NoCall, Attributes, Preparing, Reading, BetweenBuffers,
        Quiet, Asked, Sent, Running, Answered, Resting, Open, Closed
  <2>3. QED
    BY <2>1, <2>2 DEF IInv, Ending
<1>7. QED
  BY <1>1, <1>2, <1>3, <1>4, <1>5, <1>6 DEF Next

(* The invariant holds throughout.                                         *)
LEMMA Invariance == Spec => []IInv
  BY Initially, Inductive, PTL DEF Spec

-----------------------------------------------------------------------------
(* A call in progress has exactly one command or answer under way and no   *)
(* call leaves one behind, so no answer is taken for that of another call: *)
(* whatever fails, and however the two threads interleave.                 *)
THEOREM AnswersMatchCalls == Spec => []OneOutstanding
<1>1. IInv => OneOutstanding
  <2> SUFFICES ASSUME IInv PROVE OneOutstanding
    OBVIOUS
  <2>1. ASSUME Quiet PROVE Len(cmdQ) + Busy + Len(retQ) = 0
    BY <2>1, OneElement DEF Quiet, Busy
  <2>2. ASSUME NEW c, Sent(c) PROVE Len(cmdQ) + Busy + Len(retQ) = 1
    BY <2>2, OneElement DEF Sent, Busy
  <2>3. ASSUME NEW c \in {"attr", "dirs", "prepare", "read"}, Running(c)
        PROVE  Len(cmdQ) + Busy + Len(retQ) = 1
    BY <2>3, OneElement DEF Running, Busy, None
  <2>4. ASSUME NEW r, Answered(r) PROVE Len(cmdQ) + Busy + Len(retQ) = 1
    BY <2>4, OneElement DEF Answered, Busy
  <2>5. CASE NoCall \/ BetweenBuffers
    BY <2>1, <2>5 DEF NoCall, BetweenBuffers, OneOutstanding
  <2>6. CASE Attributes
    <3>1. Len(cmdQ) + Busy + Len(retQ) = 1
      BY <2>2, <2>3, <2>4, <2>6 DEF Attributes, Asked
    <3>2. call # None /\ state # "READ_OVER"
      BY <2>6 DEF Attributes, Resting, None
    <3>3. QED
      BY <3>1, <3>2 DEF OneOutstanding
  <2>7. CASE Preparing \/ Reading
    <3>1. Len(cmdQ) + Busy + Len(retQ) = 1
      BY <2>2, <2>3, <2>4, <2>7 DEF Preparing, Reading, Asked
    <3>2. call # None /\ state # "READ_OVER"
      BY <2>7 DEF Preparing, Reading, None
    <3>3. QED
      BY <3>1, <3>2 DEF OneOutstanding
  <2>8. QED
    BY <2>5, <2>6, <2>7 DEF IInv, InPhase
<1>2. QED
  BY <1>1, Invariance, PTL

(* The worker never reads a closed descriptor, a file that came to its end *)
(* is closed before the caller hears of it, and of the assertions on the   *)
(* descriptor only those after a failed read can fail.                     *)
THEOREM DescriptorInStep == Spec => []DescriptorMatches
<1>1. IInv => DescriptorMatches
  <2> SUFFICES ASSUME IInv PROVE DescriptorMatches
    OBVIOUS
  <2>1. cmd = "read" => fd # Closed
    BY RunningPhase DEF Open, Closed
  <2>2. call = None /\ state = "READ_INIT" => fd = Closed
    BY DEF IInv, InPhase, NoCall, Attributes, Preparing, Reading,
           BetweenBuffers, Resting, None
  <2>3. QED
    BY <2>1, <2>2 DEF DescriptorMatches, IInv, Ending
<1>2. QED
  BY <1>1, Invariance, PTL

-----------------------------------------------------------------------------
(* A set of natural numbers has a least element: induction over the loop.  *)
LEMMA Least ==
    ASSUME NEW T \in SUBSET Nat, T # {}
    PROVE  \E x \in T : \A y \in T : x <= y
<1> DEFINE R == OpToRel(<, Nat)
<1>1. IsWellFoundedOn(R, Nat)
  BY NatLessThanWellFounded
<1>2. R = {ss \in Nat \X Nat : ss[1] < ss[2]}
  BY DEF OpToRel
<1> HIDE DEF R
<1>3. PICK x \in T : \A y \in T : ~(<<y, x>> \in R)
  BY <1>1, WFMin
<1>4. ASSUME NEW y \in T PROVE x <= y
  <2>1. x \in Nat /\ y \in Nat /\ ~(<<y, x>> \in R)
    BY <1>3
  <2>2. <<y, x>> \in Nat \X Nat /\ <<y, x>>[1] = y /\ <<y, x>>[2] = x
    BY <2>1
  <2>3. ~(y < x)
    BY <1>2, <2>1, <2>2
  <2>4. QED
    BY <2>1, <2>3
<1>5. QED
  BY <1>4

-----------------------------------------------------------------------------
(* Lines                                                                   *)

Text == Seq(Chars)
Accs == [lines : Seq(Text), empty : Nat, pre : Text]

(* The lines that start before b are hashed and counted.                   *)
Before(S, b) == {i \in S : i < b}
UpTo(S, i) == {j \in S : j <= i}

CountedTo(f, b, ls, e) ==
    /\ Len(ls) = Cardinality(Before(Texts(f), b))
    /\ \A i \in Before(Texts(f), b) :
           ls[Cardinality(UpTo(Texts(f), i))] = LineAt(f, i)
    /\ e = Cardinality(Before(Starts(f) \ Texts(f), b))

(* The line that starts at b goes on to n.                                 *)
LineOpen(f, b, n) ==
    /\ b \in 1 .. n + 1
    /\ b = 1 \/ f[b - 1] = "nl"
    /\ \A k \in b .. n : f[k] # "nl"

(* The first n characters are read: the lines before an open one are       *)
(* counted, and what is read of the open one is kept.                      *)
ReadTo(f, n, acc) ==
    \E b \in 1 .. n + 1 :
        /\ LineOpen(f, b, n)
        /\ CountedTo(f, b, acc.lines, acc.empty)
        /\ acc.pre = SubSeq(f, b, n)

Ends(f, n) == n = Len(f) \/ f[n + 1] = "nl"

(* A line that ends is the line getline finds, and the only one that       *)
(* starts between its own start and the next.                              *)
LEMMA LineIs ==
    ASSUME NEW f \in Text, NEW n \in 0 .. Len(f), NEW b \in 1 .. Len(f),
           LineOpen(f, b, n), Ends(f, n)
    PROVE  LineAt(f, b) = SubSeq(f, b, n)
<1> DEFINE Last(j) == (\A k \in b .. j : f[k] # "nl") /\ (j = Len(f) \/ f[j + 1] = "nl")
<1>1. Len(f) \in Nat /\ n \in Nat /\ b \in Nat /\ b <= n + 1
  BY DEF Text, LineOpen
<1>2. n \in b - 1 .. Len(f) /\ Last(n)
  BY <1>1 DEF LineOpen, Ends
<1>3. ASSUME NEW j \in b - 1 .. Len(f), Last(j) PROVE j = n
  <2>1. j \in Int /\ b - 1 <= j /\ j <= Len(f)
    BY <1>1, <1>3
  <2>2. ~(j < n)
    <3> SUFFICES ASSUME j < n PROVE FALSE
      OBVIOUS
    <3>1. j + 1 \in b .. n /\ j # Len(f)
      BY <1>1, <2>1
    <3>2. QED
      BY <1>2, <1>3, <3>1
  <2>3. ~(n < j)
    <3> SUFFICES ASSUME n < j PROVE FALSE
      OBVIOUS
    <3>1. n + 1 \in b .. j /\ n # Len(f)
      BY <1>1, <2>1
    <3>2. QED
      BY <1>2, <1>3, <3>1
  <2>4. QED
    BY <1>1, <2>1, <2>2, <2>3
<1> DEFINE last == CHOOSE j \in b - 1 .. Len(f) : Last(j)
<1>4. LineAt(f, b) = SubSeq(f, b, last)
  BY DEF LineAt
<1> HIDE DEF Last
<1>5. last = n
  BY <1>2, <1>3
<1>6. QED
  BY <1>4, <1>5

(* An open line is a line start, and no other starts before its end.       *)
LEMMA StartIs ==
    ASSUME NEW f \in Text, NEW n \in 0 .. Len(f), NEW b \in 1 .. Len(f),
           LineOpen(f, b, n)
    PROVE  /\ b \in Starts(f)
           /\ \A i \in Starts(f) : i < n + 2 <=> i < b \/ i = b
<1>1. Len(f) \in Nat /\ n \in Nat /\ b \in Nat /\ b <= n + 1
  BY DEF Text, LineOpen
<1>2. b \in Starts(f)
  BY <1>1 DEF LineOpen, Starts
<1>3. ASSUME NEW i \in Starts(f), b < i, i < n + 2 PROVE FALSE
  <2>1. i \in Nat /\ i # 1 /\ f[i - 1] = "nl"
    BY <1>1, <1>3 DEF Starts
  <2>2. i - 1 \in b .. n
    BY <1>1, <1>3, <2>1
  <2>3. QED
    BY <2>1, <2>2 DEF LineOpen
<1>4. \A i \in Starts(f) : i \in Nat
  BY <1>1 DEF Starts
<1>5. QED
  BY <1>1, <1>2, <1>3, <1>4

(* Counting the members of a set of positions in order.                    *)
LEMMA Positions ==
    ASSUME NEW f \in Text
    PROVE  /\ Starts(f) \in SUBSET (1 .. Len(f)) /\ Texts(f) \in SUBSET Starts(f)
           /\ Len(f) \in Nat
           /\ IsFiniteSet(Starts(f)) /\ IsFiniteSet(Texts(f))
           /\ IsFiniteSet(Starts(f) \ Texts(f))
<1>1. Len(f) \in Nat
  BY DEF Text
<1>2. Starts(f) \in SUBSET (1 .. Len(f)) /\ Texts(f) \in SUBSET Starts(f)
  BY DEF Starts, Texts
<1>3. IsFiniteSet(1 .. Len(f))
  BY <1>1, FS_Interval
<1>4. QED
  BY <1>1, <1>2, <1>3, FS_Subset

(* A member is counted after those before it, and before a later bound.    *)
LEMMA CountUpTo ==
    ASSUME NEW S, IsFiniteSet(S), S \in SUBSET Nat, NEW b \in Nat
    PROVE  /\ Cardinality(Before(S, b)) \in Nat
           /\ \A i \in Before(S, b) :
                  /\ Cardinality(UpTo(S, i)) \in Nat
                  /\ 1 <= Cardinality(UpTo(S, i))
                  /\ Cardinality(UpTo(S, i)) <= Cardinality(Before(S, b))
<1>1. IsFiniteSet(Before(S, b)) /\ Cardinality(Before(S, b)) \in Nat
  <2>1. Before(S, b) \in SUBSET S
    BY DEF Before
  <2>2. IsFiniteSet(Before(S, b))
    BY <2>1, FS_Subset
  <2>3. QED
    BY <2>2, FS_CardinalityType
<1>2. ASSUME NEW i \in Before(S, b)
      PROVE  /\ Cardinality(UpTo(S, i)) \in Nat
             /\ 1 <= Cardinality(UpTo(S, i))
             /\ Cardinality(UpTo(S, i)) <= Cardinality(Before(S, b))
  <2>1. i \in S /\ i \in Nat /\ i < b
    BY DEF Before
  <2>2. UpTo(S, i) \in SUBSET Before(S, b) /\ i \in UpTo(S, i)
    <3>1. \A j \in S : j <= i => j < b
      <4> TAKE j \in S
      <4>1. j \in Nat
        OBVIOUS
      <4>2. QED
        BY <2>1, <4>1
    <3>2. i <= i
      BY <2>1
    <3>3. QED
      BY <2>1, <3>1, <3>2 DEF Before, UpTo
  <2>3. IsFiniteSet(UpTo(S, i)) /\ Cardinality(UpTo(S, i)) <= Cardinality(Before(S, b))
    BY <1>1, <2>2, FS_Subset
  <2>4. Cardinality(UpTo(S, i)) \in Nat
    BY <2>3, FS_CardinalityType
  <2>5. Cardinality(UpTo(S, i)) # 0
    BY <2>2, <2>3, FS_EmptySet
  <2>6. QED
    BY <2>3, <2>4, <2>5
<1>3. QED
  BY <1>1, <1>2

(* One more member comes in when the bound passes it ...                   *)
LEMMA CountOne ==
    ASSUME NEW S, IsFiniteSet(S), S \in SUBSET Nat, NEW b \in Nat, NEW c \in Nat,
           b \in S, \A i \in S : i < c <=> i < b \/ i = b
    PROVE  /\ Cardinality(Before(S, c)) = Cardinality(Before(S, b)) + 1
           /\ UpTo(S, b) = Before(S, c)
           /\ \A i \in Before(S, c) : i = b \/ i \in Before(S, b)
<1>1. Before(S, b) \in SUBSET S /\ b \notin Before(S, b)
  BY DEF Before
<1>2. IsFiniteSet(Before(S, b))
  BY <1>1, FS_Subset
<1>3. Before(S, c) = Before(S, b) \cup {b}
  BY DEF Before
<1>4. Cardinality(Before(S, b) \cup {b}) = Cardinality(Before(S, b)) + 1
  BY <1>1, <1>2, FS_AddElement
<1>5. UpTo(S, b) = Before(S, c)
  <2>1. \A i \in S : i <= b <=> i < c
    <3> TAKE i \in S
    <3>1. i \in Nat
      OBVIOUS
    <3>2. QED
      BY <3>1
  <2>2. QED
    BY <2>1 DEF Before, UpTo
<1>6. QED
  BY <1>3, <1>4, <1>5

(* ... and none when the bound passes no member.                           *)
LEMMA CountNone ==
    ASSUME NEW S, S \in SUBSET Nat, NEW b \in Nat, NEW c \in Nat,
           b \notin S, \A i \in S : i < c <=> i < b \/ i = b
    PROVE  Before(S, c) = Before(S, b)
  BY DEF Before

(* A line that ends is hashed unless it is blank, and counted if it is.    *)
LEMMA LineCounted ==
    ASSUME NEW f \in Text, NEW n \in 0 .. Len(f), NEW b \in 1 .. Len(f),
           LineOpen(f, b, n), Ends(f, n),
           NEW ls \in Seq(Text), NEW e \in Nat, CountedTo(f, b, ls, e),
           NEW line, line = SubSeq(f, b, n)
    PROVE  IF isEmptyLine(line) THEN CountedTo(f, n + 2, ls, e + 1)
                                ELSE CountedTo(f, n + 2, Append(ls, line), e)
<1> DEFINE S == Starts(f)
           X == Texts(f)
           E == Starts(f) \ Texts(f)
           c == n + 2
<1>1. /\ S \in SUBSET (1 .. Len(f)) /\ X \in SUBSET S /\ E \in SUBSET S
      /\ Len(f) \in Nat /\ IsFiniteSet(X) /\ IsFiniteSet(E)
  BY Positions
<1>2. b \in Nat /\ c \in Nat /\ X \in SUBSET Nat /\ E \in SUBSET Nat
  BY <1>1
<1>3. b \in S /\ \A i \in S : i < c <=> i < b \/ i = b
  BY StartIs
<1>4. LineAt(f, b) = line
  BY LineIs
<1>5. b \in X <=> ~isEmptyLine(line)
  BY <1>3, <1>4 DEF Texts
<1>6. /\ Len(ls) = Cardinality(Before(X, b))
      /\ \A i \in Before(X, b) : ls[Cardinality(UpTo(X, i))] = LineAt(f, i)
      /\ e = Cardinality(Before(E, b))
  BY DEF CountedTo
<1>7. (\A i \in X : i < c <=> i < b \/ i = b) /\ (\A i \in E : i < c <=> i < b \/ i = b)
  BY <1>1, <1>3
<1>8. b \in E <=> isEmptyLine(line)
  BY <1>3, <1>5
<1> HIDE DEF S, X, E, c
<1>9. CASE isEmptyLine(line)
  <2>1. Before(X, c) = Before(X, b)
    BY <1>2, <1>5, <1>7, <1>9, CountNone
  <2>2. Cardinality(Before(E, c)) = Cardinality(Before(E, b)) + 1
    BY <1>1, <1>2, <1>7, <1>8, <1>9, CountOne
  <2>3. CountedTo(f, c, ls, e + 1)
    BY <1>6, <2>1, <2>2 DEF CountedTo, X, E
  <2>4. QED
    BY <1>9, <2>3 DEF c
<1>10. CASE ~isEmptyLine(line)
  <2> DEFINE new == Append(ls, line)
  <2>1. Before(E, c) = Before(E, b)
    BY <1>2, <1>7, <1>8, <1>10, CountNone
  <2>2. /\ Cardinality(Before(X, c)) = Cardinality(Before(X, b)) + 1
        /\ UpTo(X, b) = Before(X, c)
        /\ \A i \in Before(X, c) : i = b \/ i \in Before(X, b)
    BY <1>1, <1>2, <1>5, <1>7, <1>10, CountOne
  <2>3. /\ Len(new) = Len(ls) + 1 /\ new[Len(ls) + 1] = line
        /\ \A k \in 1 .. Len(ls) : new[k] = ls[k]
    OBVIOUS
  <2> HIDE DEF new
  <2>4. ASSUME NEW i \in Before(X, c)
        PROVE  new[Cardinality(UpTo(X, i))] = LineAt(f, i)
    <3>1. CASE i = b
      BY <1>4, <1>6, <2>2, <2>3, <3>1
    <3>2. CASE i \in Before(X, b)
      <4> DEFINE u == Cardinality(UpTo(X, i))
      <4>1. /\ u \in Nat /\ 1 <= u /\ u <= Cardinality(Before(X, b))
        BY <1>1, <1>2, <3>2, CountUpTo
      <4>2. ls[u] = LineAt(f, i)
        BY <1>6, <3>2
      <4> HIDE DEF u
      <4>3. u \in 1 .. Len(ls)
        BY <1>6, <4>1
      <4>4. new[u] = LineAt(f, i)
        BY <2>3, <4>2, <4>3
      <4>5. QED
        BY <4>4 DEF u
    <3>3. QED
      BY <2>2, <3>1, <3>2
  <2>5. CountedTo(f, c, new, e)
    BY <1>6, <2>1, <2>2, <2>3, <2>4 DEF CountedTo, X, E
  <2>6. QED
    BY <1>10, <2>5 DEF c, new
<1>11. QED
  BY <1>9, <1>10

(* Before the first character.                                             *)
LEMMA NothingRead ==
    ASSUME NEW f \in Text
    PROVE  LineOpen(f, 1, 0) /\ CountedTo(f, 1, << >>, 0)
<1>1. \A i \in Starts(f) : ~(i < 1)
  <2> TAKE i \in Starts(f)
  <2>1. i \in 1 .. Len(f) /\ Len(f) \in Nat
    BY Positions
  <2>2. QED
    BY <2>1
<1>2. Before(Texts(f), 1) = {} /\ Before(Starts(f) \ Texts(f), 1) = {}
  BY <1>1, Positions DEF Before
<1>3. LineOpen(f, 1, 0)
  BY DEF LineOpen
<1>4. QED
  BY <1>2, <1>3, FS_EmptySet DEF CountedTo

(* After the last one: the lines are those getline finds.                  *)
Complete(f, ls, e) ==
    /\ Len(ls) = Cardinality(Texts(f))
    /\ \A i \in Texts(f) :
           ls[Cardinality({j \in Texts(f) : j <= i})] = LineAt(f, i)
    /\ e = Cardinality(Starts(f) \ Texts(f))

(* When every line starts before b, all of them are counted.               *)
LEMMA AllCounted ==
    ASSUME NEW f \in Text, NEW b \in Nat, \A i \in Starts(f) : i < b,
           NEW ls, NEW e, CountedTo(f, b, ls, e)
    PROVE  Complete(f, ls, e)
<1>1. Before(Texts(f), b) = Texts(f)
      /\ Before(Starts(f) \ Texts(f), b) = Starts(f) \ Texts(f)
  BY Positions DEF Before
<1>2. QED
  BY <1>1 DEF CountedTo, Complete, UpTo

(* The end of the file.                                                    *)
LEMMA LastLineCounted ==
    ASSUME NEW f \in Text, NEW acc \in Accs, ReadTo(f, Len(f), acc)
    PROVE  /\ LastLine(acc) \in Accs
           /\ Complete(f, LastLine(acc).lines, LastLine(acc).empty)
           /\ ~BlankEnd(f) => LastLine(acc).pre = << >>
<1> DEFINE n == Len(f)
<1>1. n \in Nat /\ Starts(f) \in SUBSET (1 .. n)
  BY Positions
<1>2. PICK b \in 1 .. n + 1 : /\ LineOpen(f, b, n)
                              /\ CountedTo(f, b, acc.lines, acc.empty)
                              /\ acc.pre = SubSeq(f, b, n)
  BY DEF ReadTo
<1>3. acc.lines \in Seq(Text) /\ acc.empty \in Nat /\ acc.pre \in Text
  BY DEF Accs
<1>4. << >> \in Text
  BY DEF Text
<1>5. CASE b = n + 1
  <2>1. acc.pre = << >>
    BY <1>1, <1>2, <1>5 DEF Text
  <2>2. \A i \in Starts(f) : i < b
    BY <1>1, <1>5
  <2>3. LastLine(acc) = acc
    BY <2>1 DEF LastLine
  <2>4. QED
    BY <1>1, <1>2, <2>1, <2>2, <2>3, AllCounted
<1>6. CASE b # n + 1
  <2>1. b \in 1 .. n /\ n \in 0 .. n
    BY <1>1, <1>6
  <2>2. Len(acc.pre) = n - b + 1
    BY <1>1, <1>2, <2>1 DEF Text
  <2>3. acc.pre # << >>
    BY <1>1, <2>1, <2>2
  <2>4. \A i \in Starts(f) : i < n + 2
    BY <1>1
  <2>5. IF isEmptyLine(acc.pre) THEN CountedTo(f, n + 2, acc.lines, acc.empty + 1)
                                ELSE CountedTo(f, n + 2, Append(acc.lines, acc.pre), acc.empty)
    BY <1>2, <1>3, <2>1, LineCounted DEF Ends
  <2>6. CASE isEmptyLine(acc.pre)
    <3>1. LastLine(acc) = [acc EXCEPT !.empty = @ + 1]
      BY <2>3, <2>6 DEF LastLine
    <3>2. /\ LastLine(acc).lines = acc.lines /\ LastLine(acc).empty = acc.empty + 1
          /\ LastLine(acc) \in Accs
      BY <3>1 DEF Accs
    <3>3. Complete(f, acc.lines, acc.empty + 1)
      BY <1>1, <2>4, <2>5, <2>6, AllCounted
    <3>4. BlankEnd(f)
      <4>1. b \in Starts(f)
        BY <1>2, <2>1, StartIs
      <4>2. isEmptyLine(SubSeq(f, b, Len(f)))
        BY <1>2, <2>6
      <4>3. QED
        BY <4>1, <4>2 DEF BlankEnd
    <3>5. QED
      BY <3>2, <3>3, <3>4
  <2>7. CASE ~isEmptyLine(acc.pre)
    <3>1. LastLine(acc) = [acc EXCEPT !.pre = << >>, !.lines = Append(@, acc.pre)]
      BY <2>3, <2>7 DEF LastLine
    <3>2. Append(acc.lines, acc.pre) \in Seq(Text)
      BY <1>3
    <3>3. /\ LastLine(acc).lines = Append(acc.lines, acc.pre)
          /\ LastLine(acc).empty = acc.empty /\ LastLine(acc).pre = << >>
          /\ LastLine(acc) \in Accs
      BY <1>4, <3>1, <3>2 DEF Accs
    <3>4. Complete(f, Append(acc.lines, acc.pre), acc.empty)
      BY <1>1, <2>4, <2>5, <2>7, AllCounted
    <3>5. QED
      BY <3>3, <3>4
  <2>8. QED
    BY <2>6, <2>7
<1>7. QED
  BY <1>5, <1>6

(* The loop over a buffer that holds the characters of f from d + 1 on.    *)
IsPiece(f, d, buf) ==
    /\ buf \in Text /\ d \in Nat /\ d + Len(buf) <= Len(f)
    /\ \A i \in 1 .. Len(buf) : buf[i] = f[d + i]

AtChar(f, d, buf, i, l) ==
    /\ l.acc \in Accs /\ l.begin \in 1 .. i + 1
    /\ \E b \in 1 .. d + i + 1 :
           /\ LineOpen(f, b, d + i)
           /\ CountedTo(f, b, l.acc.lines, l.acc.empty)
           /\ l.acc.pre \o SubSeq(buf, l.begin, i) = SubSeq(f, b, d + i)

IsLoop(acc, buf, m, h) ==
    h = [i \in 0 .. m |->
            IF i = 0 THEN [acc |-> acc, begin |-> 1] ELSE Character(h[i - 1], buf, i)]

(* A piece of a text is the piece before its last character, and that one. *)
LEMMA OneMore ==
    ASSUME NEW s \in Text, NEW a \in Nat, NEW n \in Nat, 1 <= a, a <= n, n <= Len(s)
    PROVE  SubSeq(s, a, n) = SubSeq(s, a, n - 1) \o <<s[n]>>
<1> DEFINE u == SubSeq(s, a, n)
           v == SubSeq(s, a, n - 1)
<1>1. Len(s) \in Nat
  BY DEF Text
<1>2. s \in Seq(Chars)
  BY DEF Text
<1>3. /\ u \in Seq(Chars) /\ Len(u) = n - a + 1
      /\ \A j \in 1 .. n - a + 1 : u[j] = s[a + j - 1]
  BY <1>1, <1>2
<1>4. /\ v \in Seq(Chars) /\ Len(v) = n - a
      /\ \A j \in 1 .. n - a : v[j] = s[a + j - 1]
  BY <1>1, <1>2
<1>5. s[n] \in Chars
  BY <1>1, <1>2
<1> HIDE DEF u, v
<1> DEFINE w == v \o <<s[n]>>
<1>6. /\ w \in Seq(Chars) /\ Len(w) = n - a + 1
      /\ \A j \in 1 .. n - a : w[j] = v[j]
      /\ w[n - a + 1] = s[n]
  BY <1>4, <1>5
<1> HIDE DEF w
<1>7. ASSUME NEW j \in 1 .. n - a + 1 PROVE u[j] = w[j]
  <2>1. CASE j = n - a + 1
    <3>1. a + j - 1 = n
      BY <2>1
    <3>2. QED
      BY <1>3, <1>6, <2>1, <3>1
  <2>2. CASE j # n - a + 1
    <3>1. j \in 1 .. n - a
      BY <2>2
    <3>2. QED
      BY <1>3, <1>4, <1>6, <3>1
  <2>3. QED
    BY <2>1, <2>2
<1>8. u = w
  <2>1. Len(u) = Len(w) /\ \A j \in 1 .. Len(u) : u[j] = w[j]
    BY <1>3, <1>6, <1>7
  <2>2. QED
    BY <1>3, <1>6, <2>1, SeqEqual
<1>9. QED
  BY <1>8 DEF u, w

(* The piece after the end is empty.                                       *)
LEMMA NoMore ==
    ASSUME NEW s \in Text, NEW n \in Nat
    PROVE  SubSeq(s, n + 1, n) = << >>
  BY DEF Text

(* A newline ends the open line.                                           *)
LEMMA NewlineRead ==
    ASSUME NEW f, NEW d, NEW buf, f \in Text, IsPiece(f, d, buf),
           NEW i \in 1 .. Len(buf), NEW l, AtChar(f, d, buf, i - 1, l),
           buf[i] = "nl"
    PROVE  AtChar(f, d, buf, i, Character(l, buf, i))
<1> DEFINE n == d + i - 1
           r == Character(l, buf, i)
           s == SubSeq(buf, l.begin, i - 1)
           line == l.acc.pre \o s
<1>1. /\ buf \in Text /\ d \in Nat /\ Len(buf) \in Nat /\ Len(f) \in Nat /\ i \in Nat
      /\ d + i - 1 = d + (i - 1) /\ d + (i - 1) \in Nat /\ d + i <= Len(f)
      /\ f[d + i] = "nl" /\ d + i = n + 1
  BY DEF IsPiece, Text
<1>2. l.acc \in Accs /\ l.begin \in 1 .. i /\ l.acc.pre \in Text
      /\ l.acc.lines \in Seq(Text) /\ l.acc.empty \in Nat
  BY <1>1 DEF AtChar, Accs
<1>3. PICK b \in 1 .. d + (i - 1) + 1 :
           /\ LineOpen(f, b, d + (i - 1))
           /\ CountedTo(f, b, l.acc.lines, l.acc.empty)
           /\ l.acc.pre \o SubSeq(buf, l.begin, i - 1) = SubSeq(f, b, d + (i - 1))
  BY DEF AtChar
<1>4. LineOpen(f, b, n) /\ line = SubSeq(f, b, n)
  BY <1>1, <1>3
<1>5. n \in 0 .. Len(f) /\ b \in 1 .. Len(f) /\ Ends(f, n) /\ n + 2 = d + i + 1
  <2>1. n \in Nat /\ n + 1 <= Len(f) /\ n + 2 = d + i + 1 /\ b \in Nat /\ 1 <= b /\ b <= n + 1
    BY <1>1, <1>3
  <2>2. f[n + 1] = "nl"
    BY <1>1
  <2> HIDE DEF n
  <2>3. QED
    BY <1>1, <2>1, <2>2 DEF Ends
<1>6. line \in Text /\ << >> \in Text
  <2>1. n \in Nat /\ b \in Nat /\ 1 <= b /\ b <= n + 1 /\ n <= Len(f)
    BY <1>1, <1>3, <1>5
  <2>2. \A k \in b .. n : k \in 1 .. Len(f)
    BY <1>1, <2>1
  <2> HIDE DEF n, line
  <2>3. SubSeq(f, b, n) \in Text
    BY <2>1, <2>2, SubSeqProperties DEF Text
  <2>4. QED
    BY <1>4, <2>3 DEF Text
<1> HIDE DEF n, line, s
<1>7. IF isEmptyLine(line) THEN CountedTo(f, n + 2, l.acc.lines, l.acc.empty + 1)
                           ELSE CountedTo(f, n + 2, Append(l.acc.lines, line), l.acc.empty)
  BY <1>2, <1>3, <1>4, <1>5, LineCounted
<1>8. r = [acc |-> SingleLine(l.acc, s), begin |-> i + 1]
  BY DEF Character, s
<1>9. SingleLine(l.acc, s) =
          IF isEmptyLine(line)
          THEN [l.acc EXCEPT !.pre = << >>, !.empty = @ + 1]
          ELSE [l.acc EXCEPT !.pre = << >>, !.lines = Append(@, line)]
  BY DEF SingleLine, line
<1>10. /\ SingleLine(l.acc, s) \in Accs /\ SingleLine(l.acc, s).pre = << >>
       /\ CountedTo(f, n + 2, SingleLine(l.acc, s).lines, SingleLine(l.acc, s).empty)
  <2>1. CASE isEmptyLine(line)
    <3>1. SingleLine(l.acc, s) = [l.acc EXCEPT !.pre = << >>, !.empty = @ + 1]
      BY <1>9, <2>1
    <3>2. l.acc.empty + 1 \in Nat
      BY <1>2
    <3>3. /\ SingleLine(l.acc, s).pre = << >> /\ SingleLine(l.acc, s) \in Accs
          /\ SingleLine(l.acc, s).lines = l.acc.lines
          /\ SingleLine(l.acc, s).empty = l.acc.empty + 1
      BY <1>2, <1>6, <3>1, <3>2 DEF Accs
    <3>4. QED
      BY <1>7, <2>1, <3>3
  <2>2. CASE ~isEmptyLine(line)
    <3>1. Append(l.acc.lines, line) \in Seq(Text)
      BY <1>2, <1>6
    <3>2. SingleLine(l.acc, s) =
              [l.acc EXCEPT !.pre = << >>, !.lines = Append(@, line)]
      BY <1>9, <2>2
    <3>3. /\ SingleLine(l.acc, s).pre = << >> /\ SingleLine(l.acc, s) \in Accs
          /\ SingleLine(l.acc, s).lines = Append(l.acc.lines, line)
          /\ SingleLine(l.acc, s).empty = l.acc.empty
      BY <1>2, <1>6, <3>1, <3>2 DEF Accs
    <3>4. QED
      BY <1>7, <2>2, <3>3
  <2>3. QED
    BY <2>1, <2>2
<1>11. /\ r.acc \in Accs /\ r.begin = i + 1 /\ r.acc.pre = << >>
       /\ CountedTo(f, d + i + 1, r.acc.lines, r.acc.empty)
  BY <1>5, <1>8, <1>10
<1>12. LineOpen(f, d + i + 1, d + i)
  BY <1>1 DEF LineOpen
<1>13. r.acc.pre \o SubSeq(buf, r.begin, i) = SubSeq(f, d + i + 1, d + i)
  <2>1. SubSeq(buf, i + 1, i) = << >>
    BY <1>1, NoMore
  <2>2. SubSeq(f, d + i + 1, d + i) = << >>
    BY <1>1, NoMore
  <2>3. << >> \o << >> = << >>
    OBVIOUS
  <2>4. QED
    BY <1>11, <2>1, <2>2, <2>3
<1> HIDE DEF r
<1>14. r.begin \in 1 .. i + 1 /\ d + i + 1 \in 1 .. d + i + 1
  <2>1. i + 1 \in 1 .. i + 1 /\ d + i + 1 \in 1 .. d + i + 1
    BY <1>1
  <2>2. QED
    BY <1>11, <2>1
<1>15. AtChar(f, d, buf, i, r)
  BY <1>11, <1>12, <1>13, <1>14 DEF AtChar
<1>16. QED
  BY <1>15 DEF r

(* Any other character is of the open line.                                *)
LEMMA OtherRead ==
    ASSUME NEW f, NEW d, NEW buf, f \in Text, IsPiece(f, d, buf),
           NEW i \in 1 .. Len(buf), NEW l, AtChar(f, d, buf, i - 1, l),
           buf[i] # "nl"
    PROVE  AtChar(f, d, buf, i, Character(l, buf, i))
<1>1. /\ buf \in Text /\ d \in Nat /\ Len(buf) \in Nat /\ Len(f) \in Nat /\ i \in Nat
      /\ d + (i - 1) + 1 = d + i /\ d + i <= Len(f) /\ i <= Len(buf) /\ d + i \in Nat
      /\ f[d + i] = buf[i] /\ d + (i - 1) = d + i - 1 /\ i - 1 + 1 = i
  BY DEF IsPiece, Text
<1>2. l.acc \in Accs /\ l.begin \in 1 .. i /\ l.acc.pre \in Text
  BY <1>1 DEF AtChar, Accs
<1>3. PICK b \in 1 .. d + (i - 1) + 1 :
           /\ LineOpen(f, b, d + (i - 1))
           /\ CountedTo(f, b, l.acc.lines, l.acc.empty)
           /\ l.acc.pre \o SubSeq(buf, l.begin, i - 1) = SubSeq(f, b, d + (i - 1))
  BY DEF AtChar
<1>4. b \in 1 .. d + i /\ b \in 1 .. d + i + 1 /\ l.begin \in 1 .. i + 1
  BY <1>1, <1>2, <1>3
<1>5. LineOpen(f, b, d + i)
  <2>1. \A k \in b .. d + i : k = d + i \/ k \in b .. d + (i - 1)
    BY <1>1, <1>4
  <2>2. QED
    BY <1>1, <1>3, <1>4, <2>1 DEF LineOpen
<1>6. l.acc.pre \o SubSeq(buf, l.begin, i) = SubSeq(f, b, d + i)
  <2> DEFINE s == SubSeq(buf, l.begin, i - 1)
             x == <<buf[i]>>
  <2>1. SubSeq(buf, l.begin, i) = s \o x
    <3>1. /\ l.begin \in Nat /\ 1 <= l.begin /\ l.begin <= i
      BY <1>1, <1>2
    <3>2. QED
      BY <1>1, <3>1, OneMore
  <2>2. SubSeq(f, b, d + i) = SubSeq(f, b, d + (i - 1)) \o x
    <3>1. b \in Nat /\ 1 <= b /\ b <= d + i
      BY <1>1, <1>4
    <3>2. \A n \in Nat : b <= n /\ n <= Len(f)
                            => SubSeq(f, b, n) = SubSeq(f, b, n - 1) \o <<f[n]>>
      BY <3>1, OneMore
    <3>3. SubSeq(f, b, d + i) = SubSeq(f, b, d + i - 1) \o <<f[d + i]>>
      BY <1>1, <3>1, <3>2
    <3>4. QED
      BY <1>1, <3>3
  <2>3. s \in Text /\ x \in Text
    BY <1>1, <1>2 DEF Text
  <2> HIDE DEF s, x
  <2>4. l.acc.pre \o (s \o x) = (l.acc.pre \o s) \o x
    <3> DEFINE C == Chars
               p == l.acc.pre
    <3>1. p \in Seq(C) /\ s \in Seq(C) /\ x \in Seq(C)
      BY <1>2, <2>3 DEF Text
    <3> HIDE DEF C, p
    <3>2. (p \o s) \o x = p \o (s \o x)
      BY <3>1, ConcatAssociative, SMTT(30)
    <3>3. QED
      BY <3>2 DEF p
  <2>5. l.acc.pre \o s = SubSeq(f, b, d + (i - 1))
    BY <1>3 DEF s
  <2>6. QED
    BY <2>1, <2>2, <2>4, <2>5
<1>7. Character(l, buf, i) = l
  BY DEF Character
<1>8. QED
  BY <1>2, <1>3, <1>4, <1>5, <1>6, <1>7 DEF AtChar

(* The recursive definition of the loop has a solution.                    *)
LEMMA LoopExists ==
    ASSUME NEW acc, NEW buf \in Text
    PROVE  \E h : IsLoop(acc, buf, Len(buf), h)
<1> DEFINE Bad == {m \in Nat : m <= Len(buf) /\ ~\E h : IsLoop(acc, buf, m, h)}
           start == [acc |-> acc, begin |-> 1]
<1>1. Len(buf) \in Nat
  BY DEF Text
<1>2. Bad = {}
  <2> SUFFICES ASSUME Bad # {} PROVE FALSE
    OBVIOUS
  <2>1. PICK m \in Bad : \A k \in Bad : m <= k
    BY Least
  <2>2. m \in Nat /\ m <= Len(buf) /\ ~\E h : IsLoop(acc, buf, m, h)
    BY <2>1
  <2>3. CASE m = 0
    <3> DEFINE g == [i \in 0 .. 0 |-> start]
    <3>1. \A i \in 0 .. 0 : i = 0
      OBVIOUS
    <3>2. IsLoop(acc, buf, 0, g)
      BY <3>1 DEF IsLoop
    <3>3. QED
      BY <2>2, <2>3, <3>2
  <2>4. CASE m # 0
    <3>1. m - 1 \in Nat /\ m - 1 <= Len(buf) /\ ~(m <= m - 1)
      BY <1>1, <2>2, <2>4
    <3>2. m - 1 \notin Bad
      BY <2>1, <3>1
    <3>3. PICK h : IsLoop(acc, buf, m - 1, h)
      BY <3>1, <3>2
    <3> DEFINE g == [i \in 0 .. m |->
                        IF i < m THEN h[i] ELSE Character(h[m - 1], buf, m)]
    <3>4. ASSUME NEW i \in 0 .. m
          PROVE  g[i] = IF i = 0 THEN start ELSE Character(g[i - 1], buf, i)
      <4>1. CASE i = 0
        <5>1. 0 \in 0 .. m - 1 /\ 0 < m
          BY <3>1, <2>2, <2>4
        <5>2. h[0] = start
          BY <3>3, <5>1 DEF IsLoop
        <5>3. QED
          BY <4>1, <5>1, <5>2
      <4>2. CASE i # 0
        <5>1. i - 1 \in 0 .. m - 1 /\ i - 1 \in 0 .. m /\ i - 1 < m /\ i \in Nat
              /\ (i < m => i \in 0 .. m - 1) /\ (~(i < m) => i = m)
          BY <2>2, <3>1, <4>2
        <5>2. g[i - 1] = h[i - 1]
          BY <5>1
        <5>3. CASE i < m
          <6>1. h[i] = Character(h[i - 1], buf, i)
            BY <3>3, <4>2, <5>1, <5>3 DEF IsLoop
          <6>2. QED
            BY <4>2, <5>2, <5>3, <6>1
        <5>4. CASE ~(i < m)
          BY <4>2, <5>1, <5>2, <5>4
        <5>5. QED
          BY <5>3, <5>4
      <4>3. QED
        BY <4>1, <4>2
    <3>5. IsLoop(acc, buf, m, g)
      <4>1. g = [i \in 0 .. m |-> g[i]]
        OBVIOUS
      <4> HIDE DEF g
      <4>2. QED
        BY <3>4, <4>1 DEF IsLoop
    <3>6. QED
      BY <2>2, <3>5
  <2>5. QED
    BY <2>3, <2>4
<1>3. QED
  BY <1>1, <1>2

(* A buffer takes what was read up to it to what is read with it, whatever *)
(* was read before and wherever the lines are cut.                         *)
LEMMA BufferRead ==
    ASSUME NEW f \in Text, NEW d, NEW buf, IsPiece(f, d, buf),
           NEW acc \in Accs, ReadTo(f, d, acc)
    PROVE  /\ compute_sha1_by_lines(acc, buf) \in Accs
           /\ ReadTo(f, d + Len(buf), compute_sha1_by_lines(acc, buf))
<1> DEFINE h == CHOOSE g : IsLoop(acc, buf, Len(buf), g)
           L == Len(buf)
           start == [acc |-> acc, begin |-> 1]
           end == h[L]
           r == compute_sha1_by_lines(acc, buf)
<1>1. r = [end.acc EXCEPT !.pre = @ \o SubSeq(buf, end.begin, L)]
  BY DEF compute_sha1_by_lines, IsLoop
<1>2. buf \in Text /\ d \in Nat
  BY DEF IsPiece
<1>3. IsLoop(acc, buf, L, h)
  BY <1>2, LoopExists
<1>4. L \in Nat
  BY <1>2 DEF Text
<1> HIDE DEF h, r
<1> DEFINE Bad == {m \in Nat : m <= L /\ ~AtChar(f, d, buf, m, h[m])}
<1>5. Bad = {}
  <2> SUFFICES ASSUME Bad # {} PROVE FALSE
    OBVIOUS
  <2>1. PICK m \in Bad : \A k \in Bad : m <= k
    BY Least
  <2>2. m \in Nat /\ m <= L /\ m \in 0 .. L /\ ~AtChar(f, d, buf, m, h[m])
    BY <1>4, <2>1
  <2>3. CASE m = 0
    <3>1. h[0] = start
      BY <1>3, <2>2, <2>3 DEF IsLoop
    <3>2. start.acc = acc /\ start.begin = 1 /\ acc.pre \in Text /\ d + 0 = d
          /\ 1 \in 1 .. 0 + 1
      BY <1>2 DEF Accs
    <3>3. acc.pre \o SubSeq(buf, 1, 0) = acc.pre
      <4>1. SubSeq(buf, 1, 0) = << >>
        BY <1>2, NoMore
      <4>2. QED
        BY <3>2, <4>1, ConcatEmptySeq DEF Text
    <3>4. AtChar(f, d, buf, 0, start)
      <4> HIDE DEF start
      <4>1. PICK b \in 1 .. d + 1 : /\ LineOpen(f, b, d)
                                    /\ CountedTo(f, b, acc.lines, acc.empty)
                                    /\ acc.pre = SubSeq(f, b, d)
        BY DEF ReadTo
      <4>2. QED
        BY <3>2, <3>3, <4>1 DEF AtChar
    <3>5. QED
      BY <2>2, <2>3, <3>1, <3>4
  <2>4. CASE m # 0
    <3>1. m - 1 \in Nat /\ m - 1 <= L /\ ~(m <= m - 1) /\ m \in 1 .. L
      BY <1>4, <2>2, <2>4
    <3>2. AtChar(f, d, buf, m - 1, h[m - 1])
      BY <2>1, <3>1
    <3>3. h[m] = Character(h[m - 1], buf, m)
      BY <1>3, <2>2, <2>4 DEF IsLoop
    <3>4. AtChar(f, d, buf, m, Character(h[m - 1], buf, m))
      BY <3>1, <3>2, NewlineRead, OtherRead
    <3>5. QED
      BY <2>2, <3>3, <3>4
  <2>5. QED
    BY <2>3, <2>4
<1>6. AtChar(f, d, buf, L, end)
  BY <1>4, <1>5
<1> HIDE DEF end, L
<1>7. end.acc \in Accs /\ end.begin \in 1 .. L + 1
  BY <1>6 DEF AtChar
<1>8. PICK b \in 1 .. d + L + 1 :
          /\ LineOpen(f, b, d + L)
          /\ CountedTo(f, b, end.acc.lines, end.acc.empty)
          /\ end.acc.pre \o SubSeq(buf, end.begin, L) = SubSeq(f, b, d + L)
  BY <1>6 DEF AtChar
<1> DEFINE p == end.acc.pre \o SubSeq(buf, end.begin, L)
<1>9. p \in Text
  <2>1. SubSeq(buf, end.begin, L) \in Text
    BY <1>2, <1>4, <1>7 DEF Text, L
  <2>2. end.acc.pre \in Text
    BY <1>7 DEF Accs
  <2>3. QED
    BY <2>1, <2>2, ConcatProperties DEF Text
<1>10. r = [end.acc EXCEPT !.pre = p]
  BY <1>1
<1>11. p = SubSeq(f, b, d + L)
  BY <1>8
<1> HIDE DEF p
<1>12. /\ r \in Accs /\ r.lines = end.acc.lines /\ r.empty = end.acc.empty /\ r.pre = p
  BY <1>7, <1>9, <1>10 DEF Accs
<1>13. ReadTo(f, d + L, r)
  BY <1>8, <1>11, <1>12 DEF ReadTo
<1>14. QED
  BY <1>12, <1>13 DEF r, L

-----------------------------------------------------------------------------
(* The lines of the file being read                                        *)

Over == \/ result = "E_DC_CONTENT_OVER"
        \/ call = "content" /\ retQ = <<"E_DC_CONTENT_OVER">>

(* The last file was read to its end.                                      *)
Rested == \/ state = "READ_INIT"
          \/ call = "content" /\ retQ = <<"E_DC_CONTENT_OVER">>

(* A read begins with no lines and no rest; while the file is open the     *)
(* first fd characters are read; when the file is over its lines are       *)
(* complete, and the only rest it can leave is a blank line.               *)
LinesInv ==
    /\ file \in Text
    /\ call # None => result = None
    /\ call = "content" /\ state = "READ_PREPAR" /\ fd = Closed
           => lines = << >> /\ empty = 0 /\ (~spoilt => preLine = << >>)
    /\ call = "content" /\ fd # Closed /\ ~spoilt
           => fd \in 0 .. Len(file) /\ Acc \in Accs /\ ReadTo(file, fd, Acc)
    /\ Over /\ ~spoilt => Complete(file, lines, empty)
    /\ Rested /\ ~spoilt /\ ~BlankEnd(file) => preLine = << >>

(* A step that reads nothing keeps it, if it takes no call for a read.     *)
LEMMA LinesKept ==
    ASSUME LinesInv, UNCHANGED <<file, lines, empty, preLine, fd, spoilt>>,
           call' # None => result' = None,
           call' = "content" => call = "content",
           call' = "content" /\ state' = "READ_PREPAR" => state = "READ_PREPAR",
           Over' => Over, Rested' => Rested
    PROVE  LinesInv'
<1>1. Acc' = Acc
  BY DEF Acc
<1>2. ReadTo(file, fd, Acc)' <=> ReadTo(file, fd, Acc)
  BY <1>1 DEF ReadTo
<1>3. Complete(file, lines, empty)' <=> Complete(file, lines, empty)
  BY DEF Complete
<1>4. QED
  BY <1>1, <1>2, <1>3 DEF LinesInv, Closed

(* A call for attributes forgets the last result.                          *)
LEMMA CallLines ==
    ASSUME IInv, LinesInv, NEW what \in {"attr", "dirs"}, do_attr(what)
    PROVE  LinesInv'
<1>1. /\ UNCHANGED <<file, lines, empty, preLine, fd, spoilt>>
      /\ call' = what /\ result' = None /\ state' = state
  BY DEF do_attr, readVars
<1>2. call' # "content" /\ ~Over' /\ (Rested' => Rested)
  BY <1>1 DEF Over, Rested, None
<1>3. QED
  BY <1>1, <1>2, LinesKept

(* A call for a file begins with no lines, and with nothing to answer.     *)
LEMMA ContentLines ==
    ASSUME IInv, LinesInv, NEW f \in Files, do_file_content(f)
    PROVE  LinesInv'
<1>1. UNCHANGED <<retQ, fd, preLine>>
  BY DEF do_file_content
<1>2. CASE state # "READ_INIT"
  <2>1. UNCHANGED <<call, state, file, result, lines, empty, spoilt>>
    BY <1>2 DEF do_file_content
  <2>2. (Over' <=> Over) /\ (Rested' <=> Rested)
    BY <1>1, <2>1 DEF Over, Rested
  <2>3. QED
    BY <1>1, <2>1, <2>2, LinesKept DEF LinesInv
<1>3. CASE state = "READ_INIT"
  <2>1. NoCall
    BY DEF IInv, InPhase, do_file_content, MayCall, None, Attributes, Preparing,
           Reading, BetweenBuffers
  <2>2. fd = Closed /\ retQ = << >>
    BY <1>3, <2>1 DEF NoCall, Resting, Quiet
  <2>3. /\ file' = f /\ lines' = << >> /\ empty' = 0 /\ result' = None
    BY <1>3 DEF do_file_content
  <2>4. file' \in Text
    BY <2>3, FilesAssumption DEF Text
  <2>5. ~Over' /\ ~Rested'
    BY <1>1, <1>3, <2>2, <2>3, OneElement DEF Over, Rested, None, do_file_content
  <2>6. ~spoilt' => preLine = << >>
    BY <1>3 DEF do_file_content, LinesInv, Rested
  <2>7. QED
    BY <1>1, <2>2, <2>3, <2>4, <2>5, <2>6 DEF LinesInv, Closed
<1>4. QED
  BY <1>2, <1>3

(* Answers that are not those of a read leave the lines alone.             *)
LEMMA GetLines ==
    ASSUME IInv, LinesInv, get_attr \/ GetPrepared \/ GetNext
    PROVE  LinesInv'
<1>1. UNCHANGED <<file, lines, empty, preLine, fd, spoilt>>
  BY DEF get_attr, GetPrepared, GetNext, readVars
<1>2. call # None => result = None
  BY DEF LinesInv
<1>3. CASE get_attr
  <2>1. Attributes
    BY <1>3 DEF IInv, InPhase, get_attr, None, NoCall, Preparing, Reading,
                BetweenBuffers
  <2>2. PICK r \in {"S_SUCCESS", "E_OS_ENV"} : Answered(r)
    BY <1>3, <2>1 DEF Attributes, get_attr, Asked, Sent, Running
  <2>3. result' = r /\ call' = None /\ state' = state
    BY <1>3, <2>2, OneElement DEF get_attr, Answered
  <2>4. ~Over' /\ (Rested' => Rested)
    BY <2>3 DEF Over, Rested, None
  <2>5. QED
    BY <1>1, <2>3, <2>4, LinesKept DEF None
<1>4. CASE GetPrepared
  <2>1. Preparing
    BY <1>4 DEF IInv, InPhase, GetPrepared, None, NoCall, Attributes, Reading,
                BetweenBuffers
  <2>2. Answered("E_OS_ENV") \/ Answered("S_SUCCESS")
    BY <1>4, <2>1 DEF Preparing, GetPrepared, Asked, Sent, Running
  <2>3. retQ' = << >> /\ state = "READ_PREPAR" /\ call = "content"
    BY <1>4, <2>2, OneElement DEF GetPrepared, Answered
  <2>4. \/ result' = result /\ call' = "content" /\ state' = "READ_DO"
        \/ result' = "E_OS_ENV" /\ call' = None /\ state' = state
    BY <1>4, <2>2, <2>3, OneElement DEF GetPrepared, Answered
  <2>5. ~Over' /\ ~Rested' /\ (call' # None => result' = None)
    BY <1>2, <2>3, <2>4, OneElement DEF Over, Rested, None
  <2>6. QED
    BY <1>1, <2>3, <2>5, LinesKept
<1>5. CASE GetNext
  <2>1. UNCHANGED <<retQ, call, result>> /\ call = "content" /\ state' = "READ_DO"
    BY <1>5 DEF GetNext
  <2>2. (Over' <=> Over) /\ (Rested' => Rested)
    BY <2>1 DEF Over, Rested
  <2>3. QED
    BY <1>1, <1>2, <2>1, <2>2, LinesKept
<1>6. QED
  BY <1>3, <1>4, <1>5

(* The last answer of a read comes with its lines.                         *)
LEMMA GetReadLines ==
    ASSUME IInv, LinesInv, GetRead
    PROVE  LinesInv'
<1>1. UNCHANGED <<file, lines, empty, preLine, fd, spoilt>> /\ call = "content"
      /\ state = "READ_DO"
  BY DEF GetRead, readVars
<1>2. result = None
  BY <1>1 DEF LinesInv, None
<1>3. Reading
  BY DEF IInv, InPhase, GetRead, None, NoCall, Attributes, Preparing, BetweenBuffers
<1>4. \/ Answered("S_SUCCESS") /\ Open
      \/ Answered("E_OS_ENV_READ") /\ Open
      \/ Answered("E_DC_CONTENT_OVER") /\ fd = Closed
  BY <1>3 DEF Reading, GetRead, Asked, Sent, Running
<1>5. retQ' = << >>
  BY <1>4, OneElement DEF GetRead, Answered
<1>6. CASE Answered("S_SUCCESS")
  <2>1. state' = "READ_OVER" /\ UNCHANGED <<call, result>>
    BY <1>6, OneElement DEF GetRead, Answered
  <2>2. ~Over' /\ ~Rested'
    BY <1>2, <1>5, <2>1, OneElement DEF Over, Rested, None
  <2>3. QED
    BY <1>1, <1>2, <2>1, <2>2, LinesKept
<1>7. CASE Answered("E_OS_ENV_READ")
  <2>1. call' = None /\ result' = "E_OS_ENV_READ" /\ state' = state
    BY <1>7, OneElement DEF GetRead, Answered
  <2>2. ~Over' /\ ~Rested'
    BY <1>1, <2>1 DEF Over, Rested, None
  <2>3. QED
    BY <1>1, <2>1, <2>2, LinesKept DEF None
<1>8. CASE Answered("E_DC_CONTENT_OVER") /\ fd = Closed
  <2>1. call' = None
    BY <1>8, OneElement DEF GetRead, Answered
  <2>2. Over /\ Rested
    BY <1>1, <1>8 DEF Over, Rested, Answered
  <2>3. QED
    BY <1>1, <2>1, <2>2, LinesKept DEF None
<1>9. QED
  BY <1>4, <1>6, <1>7, <1>8

(* The destructor and the loop of the worker leave the lines alone.        *)
LEMMA OtherLines ==
    ASSUME IInv, LinesInv, Destructor \/ Joined \/ TakeCommand \/ UNCHANGED vars
    PROVE  LinesInv'
<1>1. /\ UNCHANGED <<file, lines, empty, preLine, fd, spoilt>>
      /\ UNCHANGED <<call, state, result, retQ>>
  BY DEF Destructor, Joined, TakeCommand, vars, callerVars, readVars
<1>2. (Over' <=> Over) /\ (Rested' <=> Rested)
  BY <1>1 DEF Over, Rested
<1>3. QED
  BY <1>1, <1>2, LinesKept DEF LinesInv

(* So do the commands for attributes, which no read waits for.             *)
LEMMA AttrLines ==
    ASSUME IInv, LinesInv, thd_worker_attr
    PROVE  LinesInv'
<1>1. call \in {"attr", "dirs"}
  BY RunningPhase DEF thd_worker_attr, Attributes
<1>2. /\ UNCHANGED <<file, lines, empty, preLine, fd, spoilt>>
      /\ UNCHANGED <<call, state, result>>
  BY DEF thd_worker_attr, callerVars, readVars
<1>3. (Over' => Over) /\ (Rested' => Rested)
  BY <1>1, <1>2 DEF Over, Rested
<1>4. QED
  BY <1>2, <1>3, LinesKept DEF LinesInv

(* A file is opened with nothing read, if nothing was left of another.     *)
LEMMA PrepareLines ==
    ASSUME IInv, LinesInv, thd_worker_file_content_prepare
    PROVE  LinesInv'
<1>1. Preparing /\ Running("prepare") /\ fd = Closed
  BY RunningPhase DEF thd_worker_file_content_prepare
<1>2. /\ UNCHANGED <<file, lines, empty, preLine, call, state, result, cmdQ>>
      /\ spoilt' = spoilt
  BY DEF thd_worker_file_content_prepare, callerVars
<1>3. call = "content" /\ state = "READ_PREPAR" /\ result = None
  BY <1>1 DEF Preparing, LinesInv, None
<1>4. lines = << >> /\ empty = 0 /\ file \in Text /\ (~spoilt => preLine = << >>)
  BY <1>1, <1>3 DEF LinesInv
<1>5. \/ fd' = 0 /\ Answered("S_SUCCESS")'
      \/ fd' = Closed /\ Answered("E_OS_ENV")'
  BY <1>1, <1>2, AnswerGiven DEF thd_worker_file_content_prepare
<1>6. ~Over' /\ ~Rested'
  BY <1>2, <1>3, <1>5, OneElement DEF Over, Rested, Answered, None
<1>7. fd' # Closed /\ ~spoilt'
          => fd' \in 0 .. Len(file) /\ Acc' \in Accs /\ ReadTo(file, 0, Acc')
  <2> SUFFICES ASSUME fd' # Closed, ~spoilt'
               PROVE  fd' \in 0 .. Len(file) /\ Acc' \in Accs /\ ReadTo(file, 0, Acc')
    OBVIOUS
  <2> DEFINE a == [lines |-> << >>, empty |-> 0, pre |-> << >>]
  <2>1. Acc' = a
    BY <1>2, <1>4 DEF Acc
  <2>2. << >> \in Text /\ << >> \in Seq(Text) /\ Len(file) \in Nat
    BY <1>4 DEF Text
  <2>3. a \in Accs /\ a.lines = << >> /\ a.empty = 0 /\ a.pre = << >>
    BY <2>2 DEF Accs
  <2>4. SubSeq(file, 1, 0) = << >>
    BY <1>4, NoMore
  <2>5. LineOpen(file, 1, 0) /\ CountedTo(file, 1, << >>, 0)
    BY <1>4, NothingRead
  <2> HIDE DEF a
  <2>6. ReadTo(file, 0, a)
    BY <2>3, <2>4, <2>5 DEF ReadTo
  <2>7. fd' \in 0 .. Len(file)
    BY <1>5, <2>2
  <2>8. QED
    BY <2>1, <2>3, <2>6, <2>7
<1>8. fd' # Closed => fd' = 0
  BY <1>5
<1>9. fd' # Closed /\ ~spoilt' => ReadTo(file, fd, Acc)'
  BY <1>2, <1>7, <1>8 DEF ReadTo
<1>10. QED
  BY <1>2, <1>3, <1>4, <1>6, <1>7, <1>9 DEF LinesInv, Closed

(* What read returns is the next piece of the file.                        *)
LEMMA ChunkIs ==
    ASSUME file \in Text, fd \in 0 .. Len(file)
    PROVE  /\ Len(Rest) = Len(file) - fd
           /\ IsPiece(file, fd, Chunk)
           /\ Len(Chunk) = IF Len(Rest) < BufLen THEN Len(Rest) ELSE BufLen
<1> DEFINE C == Chars
           n == Len(file)
           k == IF Len(Rest) < BufLen THEN Len(Rest) ELSE BufLen
<1>1. file \in Seq(C) /\ n \in Nat /\ fd \in Nat /\ fd <= n
  BY DEF Text
<1>2. /\ Rest \in Seq(C) /\ Len(Rest) = n - fd
      /\ \A i \in 1 .. n - fd : Rest[i] = file[fd + i]
  <2>1. \A i \in fd + 1 .. n : file[i] \in C
    BY <1>1
  <2>2. /\ Rest \in Seq(C)
        /\ Len(Rest) = IF fd + 1 <= n THEN n - (fd + 1) + 1 ELSE 0
        /\ \A i \in 1 .. n - (fd + 1) + 1 : Rest[i] = file[fd + 1 + i - 1]
    BY <1>1, <2>1, SubSeqProperties DEF Rest
  <2>3. ASSUME NEW i \in 1 .. n - fd PROVE Rest[i] = file[fd + i]
    <3>1. i \in 1 .. n - (fd + 1) + 1 /\ fd + 1 + i - 1 = fd + i
      BY <1>1
    <3>2. QED
      BY <2>2, <3>1
  <2>4. Len(Rest) = n - fd
    BY <1>1, <2>2
  <2>5. QED
    BY <2>2, <2>3, <2>4
<1>3. k \in 0 .. n - fd /\ k <= Len(Rest) /\ k \in Nat
  BY <1>1, <1>2, BufAssumption
<1>4. Chunk = SubSeq(Rest, 1, k)
  BY DEF Chunk
<1> HIDE DEF k, C
<1>5. /\ Chunk \in Seq(C) /\ Len(Chunk) = k
      /\ \A i \in 1 .. k : Chunk[i] = Rest[i]
  <2>1. \A i \in 1 .. k : Rest[i] \in C
    BY <1>1, <1>2, <1>3
  <2>2. /\ SubSeq(Rest, 1, k) \in Seq(C)
        /\ Len(SubSeq(Rest, 1, k)) = IF 1 <= k THEN k - 1 + 1 ELSE 0
        /\ \A i \in 1 .. k - 1 + 1 : SubSeq(Rest, 1, k)[i] = Rest[1 + i - 1]
    BY <1>3, <2>1, SubSeqProperties
  <2>3. QED
    BY <1>3, <1>4, <2>2
<1>6. fd + k <= n /\ \A i \in 1 .. k : i \in 1 .. n - fd
  BY <1>1, <1>3
<1>7. \A i \in 1 .. k : Chunk[i] = file[fd + i]
  BY <1>2, <1>5, <1>6
<1>8. IsPiece(file, fd, Chunk)
  BY <1>1, <1>5, <1>6, <1>7 DEF IsPiece, Text, C
<1>9. QED
  BY <1>2, <1>5, <1>8 DEF k

(* A buffer is read.                                                       *)
LEMMA ReadLines ==
    ASSUME IInv, LinesInv, thd_worker_file_content_read
    PROVE  LinesInv'
<1>1. Reading /\ Running("read") /\ Open
  BY RunningPhase DEF thd_worker_file_content_read
<1>2. UNCHANGED <<file, call, state, result, spoilt, cmdQ>>
  BY DEF thd_worker_file_content_read, callerVars
<1>3. call = "content" /\ state = "READ_DO" /\ result = None /\ file \in Text
  BY <1>1 DEF Reading, LinesInv, None
<1>4. Len(file) \in Nat /\ fd \in Nat /\ fd # Closed
  BY <1>1, <1>3 DEF Text, Open, Closed
<1>5. ~spoilt =>
          /\ fd \in 0 .. Len(file) /\ Acc \in Accs /\ ReadTo(file, fd, Acc)
          /\ Len(Rest) = Len(file) - fd /\ IsPiece(file, fd, Chunk)
          /\ Len(Chunk) = IF Len(Rest) < BufLen THEN Len(Rest) ELSE BufLen
  BY <1>3, <1>4, ChunkIs DEF LinesInv
<1> DEFINE r == compute_sha1_by_lines(Acc, Chunk)
<1>6. ~spoilt => r \in Accs /\ ReadTo(file, fd + Len(Chunk), r)
  BY <1>3, <1>5, BufferRead
<1> HIDE DEF r
<1>7. CASE FileOver
  <2>1. fd' = Closed /\ Answered("E_DC_CONTENT_OVER")'
    BY <1>1, <1>2, <1>7, AnswerGiven DEF FileOver
  <2>2. lines' = LastLine(r).lines /\ empty' = LastLine(r).empty
        /\ preLine' = LastLine(r).pre
    BY <1>7 DEF FileOver, Become, r
  <2>3. ~spoilt => /\ Complete(file, lines', empty')
                   /\ ~BlankEnd(file) => preLine' = << >>
    <3> SUFFICES ASSUME ~spoilt
                 PROVE  /\ Complete(file, lines', empty')
                        /\ ~BlankEnd(file) => preLine' = << >>
      OBVIOUS
    <3>1. Len(Rest) < BufLen
      BY <1>7 DEF FileOver
    <3>2. fd + Len(Chunk) = Len(file)
      BY <1>4, <1>5, <3>1
    <3>3. r \in Accs /\ ReadTo(file, Len(file), r)
      BY <1>6, <3>2
    <3>4. QED
      BY <1>3, <2>2, <3>3, LastLineCounted
  <2>4. ~spoilt' => Complete(file, lines, empty)'
    BY <1>2, <2>3 DEF Complete
  <2>5. ~spoilt' /\ ~BlankEnd(file)' => preLine' = << >>
    BY <1>2, <2>3
  <2>6. QED
    BY <1>2, <1>3, <2>1, <2>4, <2>5 DEF LinesInv, Closed
<1>8. CASE FullBuffer
  <2>1. fd' = fd + BufLen /\ Answered("S_SUCCESS")'
    BY <1>1, <1>2, <1>8, AnswerGiven DEF FullBuffer
  <2>2. lines' = r.lines /\ empty' = r.empty /\ preLine' = r.pre
    BY <1>8 DEF FullBuffer, Become, r
  <2>3. ~spoilt =>
            fd' \in 0 .. Len(file) /\ Acc' \in Accs /\ ReadTo(file, fd', Acc')
    <3> SUFFICES ASSUME ~spoilt
                 PROVE  fd' \in 0 .. Len(file) /\ Acc' \in Accs /\ ReadTo(file, fd', Acc')
      OBVIOUS
    <3>1. ~(Len(Rest) < BufLen)
      BY <1>4, <1>5, <1>8, BufAssumption DEF FullBuffer
    <3>2. fd + Len(Chunk) = fd' /\ fd' \in 0 .. Len(file)
      BY <1>4, <1>5, <2>1, <3>1, BufAssumption
    <3>3. r \in Accs /\ ReadTo(file, fd', r)
      BY <1>6, <3>2
    <3>4. Acc' = r
      BY <2>2, <3>3 DEF Acc, Accs
    <3>5. QED
      BY <3>2, <3>3, <3>4
  <2>4. ~spoilt' => ReadTo(file, fd, Acc)'
    BY <1>2, <2>3 DEF ReadTo
  <2>5. ~Over' /\ ~Rested'
    BY <1>2, <1>3, <2>1, OneElement DEF Over, Rested, Answered, None
  <2>6. QED
    BY <1>2, <1>3, <2>3, <2>4, <2>5 DEF LinesInv
<1>9. CASE ReadFails
  <2>1. UNCHANGED <<lines, empty, preLine, fd>> /\ Answered("E_OS_ENV_READ")'
    BY <1>1, <1>2, <1>9, AnswerGiven DEF ReadFails, readVars
  <2>2. ~Over' /\ ~Rested'
    BY <1>2, <1>3, <2>1, OneElement DEF Over, Rested, Answered, None
  <2>3. QED
    BY <1>2, <1>3, <2>1, <2>2, LinesKept
<1>10. QED
  BY <1>7, <1>8, <1>9 DEF thd_worker_file_content_read

(* Every step keeps the lines.                                             *)
LEMMA LinesStep == IInv /\ LinesInv /\ [Next]_vars => LinesInv'
<1> SUFFICES ASSUME IInv, LinesInv, [Next]_vars PROVE LinesInv'
  OBVIOUS
<1>1. ASSUME NEW what \in {"attr", "dirs"}, do_attr(what) PROVE LinesInv'
  BY <1>1, CallLines
<1>2. ASSUME NEW f \in Files, do_file_content(f) PROVE LinesInv'
  BY <1>2, ContentLines
<1>3. CASE CallerPolls
  BY <1>3, GetLines, GetReadLines DEF CallerPolls
<1>4. CASE WorkerStep
  BY <1>4, OtherLines, AttrLines, PrepareLines, ReadLines DEF WorkerStep
<1>5. CASE Destructor \/ Joined \/ UNCHANGED vars
  BY <1>5, OtherLines
<1>6. QED
  BY <1>1, <1>2, <1>3, <1>4, <1>5 DEF Next

(* For every file and every buffer length, and however the buffers cut the *)
(* lines: a read that came to its end has hashed exactly the lines getline *)
(* finds that are not blank, in order, and counted the blank ones, if no   *)
(* file read before ended in a blank line without a newline.               *)
THEOREM LinesFound == Spec => []LinesAsGetline
<1>1. Init => LinesInv
  <2> SUFFICES ASSUME Init PROVE LinesInv
    OBVIOUS
  <2>1. file = << >> /\ call = None /\ result = None /\ preLine = << >>
    BY DEF Init
  <2>2. file \in Text
    BY <2>1 DEF Text
  <2>3. QED
    BY <2>1, <2>2 DEF LinesInv, Over, None
<1>2. LinesInv => LinesAsGetline
  BY DEF LinesInv, Over, Complete, LinesAsGetline
<1>3. QED
  BY <1>1, <1>2, LinesStep, Invariance, PTL DEF Spec

=============================================================================
