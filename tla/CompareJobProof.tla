-------------------------- MODULE CompareJobProof --------------------------
(***************************************************************************)
(* The worker of dc_compare_t walks any tree in any order of readdir, with *)
(* any failures, any batch size and any number of servers and tasks:       *)
(*                                                                         *)
(*   - the answers merged into "diffs" are those of the entry's directory, *)
(*   - a task that ends without error has asked for every directory,       *)
(*     has listed everything it could read, and nothing twice,             *)
(*   - dir_q_ is left over only after a failed stat in the first directory.*)
(*                                                                         *)
(* The inductive invariant has three parts.  Control relates the worker's  *)
(* place to its stack; Batching relates dir_q_, "diffs" and the answers of *)
(* the servers; Walking says what is listed, what is still to be read, and *)
(* that the two do not meet.                                               *)
(***************************************************************************)
EXTENDS CompareJob, FiniteSetTheorems, SequenceTheorems, TLAPS

Dirs == {n \in Nodes : Kind[n] = "dir"}
Frame == [dir : Dirs, left : SUBSET Nodes]
Place == [dir : Nodes, idx : Nat]
Words == {"attrs", "errno", "errno_0", "absent"}
DiffEntry == [node : Nodes, is_dir : BOOLEAN,
              servers : {NoServers} \cup [of : Nodes, says : [Servers -> Words]]]

JobType ==
    /\ start \in Tops
    /\ stack \in Seq(Frame)
    /\ dirQ \in Seq(Place)
    /\ diffs \in Seq(DiffEntry)
    /\ child \in Dirs \cup {None}
    /\ lists \in [Servers -> Seq(Attr)]

(* Where the worker is, and what it holds there.                           *)
Places ==
    /\ pc \in {"loop", "stat", "chdir", "open", "walk", "flush", "poll",
               "finish", "assert_dir_q", "json_type_error", "panic"}
    /\ pc \in {"loop", "stat", "chdir", "finish"} => stack = << >> /\ child = None
    /\ pc \in {"stat", "chdir"} => dirQ = << >> /\ diffs = << >>
    /\ pc = "walk" => stack # << >> /\ child = None
    /\ pc = "open" => child # None
    /\ pc = "open" /\ stack = << >> =>
           child = start /\ dirQ = << >> /\ diffs = << >>
    /\ pc \in {"flush", "poll"} => (stack = << >> <=> child = None)

(* An open directory has entries of its own left; the first is the one the *)
(* walk began at.                                                          *)
Frames ==
    /\ \A j \in 1 .. Len(stack) : stack[j].left \subseteq Children[stack[j].dir]
    /\ stack # << >> => stack[1].dir = start

Control == JobType /\ Places /\ Frames

(* dir_q_ points at the entries of its directories, and every entry of a   *)
(* directory that has no attributes yet is in it.                          *)
Queued ==
    \A k \in 1 .. Len(dirQ) :
        /\ dirQ[k].idx \in 1 .. Len(diffs)
        /\ diffs[dirQ[k].idx].is_dir
        /\ diffs[dirQ[k].idx].node = dirQ[k].dir

Awaiting ==
    \A i \in 1 .. Len(diffs) :
        diffs[i].is_dir /\ diffs[i].servers = NoServers
            => \E k \in 1 .. Len(dirQ) : dirQ[k].idx = i

(* The standard server's answer is about the batch, in its order.          *)
AnswersMatch ==
    pc = "poll" /\ Std \in has_done =>
        /\ Len(lists[Std]) = Len(dirQ)
        /\ \A k \in 1 .. Len(dirQ) : lists[Std][k].dir = dirQ[k].dir

(* A task ends with its batch sent, but for a failed stat where it began.  *)
Drained ==
    pc \in {"finish", "loop"} /\ dirQ # << >> =>
        ret = "E_OS_ENV_STAT" /\ \E n \in Children[start] : <<n, "stat">> \in trouble

Batching == Queued /\ Awaiting /\ AnswersMatch /\ Drained /\ MergedAligned

(* Of a directory that was reached, what is not listed is still to be read.*)
ToRead(d, n) == \E j \in 1 .. Len(stack) : stack[j].dir = d /\ n \in stack[j].left

Going == \/ pc \in {"open", "walk", "flush", "poll"}
         \/ pc \in {"finish", "loop"} /\ ret = "S_SUCCESS"

Covered ==
    Going => \A d \in Walked \ Unread :
                 d = child \/ \A n \in Children[d] :
                     Owed(n) => n \in Listed \/ ToRead(d, n)

Distinct == \A i, j \in 1 .. Len(diffs) : i # j => diffs[i].node # diffs[j].node

(* What is listed was found in a directory listed before; an open          *)
(* directory is open once; nothing that is still to be read is listed.     *)
ParentsFirst ==
    \A d \in Dirs \ (Listed \cup {start}) : Children[d] \cap Listed = {}

OpenOnce ==
    /\ \A j \in 1 .. Len(stack) : stack[j].dir \in Listed \cup {start}
    /\ \A i, j \in 1 .. Len(stack) : i # j => stack[i].dir # stack[j].dir

Fresh ==
    /\ \A j \in 1 .. Len(stack) : stack[j].left \cap Listed = {}
    /\ child # None =>
           /\ child \in Listed \cup {start}
           /\ Children[child] \cap Listed = {}
           /\ \A j \in 1 .. Len(stack) : stack[j].dir # child

Walking == Covered /\ Distinct /\ ParentsFirst /\ OpenOnce /\ Fresh

IInv == Control /\ Batching /\ Walking

-----------------------------------------------------------------------------
(* Sequences                                                               *)

(* Appending.                                                              *)
LEMMA AppendSeq ==
    ASSUME NEW S, NEW s \in Seq(S), NEW e \in S
    PROVE  /\ Append(s, e) \in Seq(S)
           /\ Len(Append(s, e)) = Len(s) + 1
           /\ \A j \in 1 .. Len(s) : Append(s, e)[j] = s[j]
           /\ Append(s, e)[Len(s) + 1] = e
           /\ Append(s, e) # << >>
  OBVIOUS

(* Dropping the last element.                                              *)
LEMMA FrontSeq ==
    ASSUME NEW S, NEW s \in Seq(S), s # << >>
    PROVE  /\ SubSeq(s, 1, Len(s) - 1) \in Seq(S)
           /\ Len(SubSeq(s, 1, Len(s) - 1)) = Len(s) - 1
           /\ \A j \in 1 .. Len(s) - 1 : SubSeq(s, 1, Len(s) - 1)[j] = s[j]
           /\ Len(s) \in Nat \ {0}
<1>1. Len(s) \in Nat \ {0}
  OBVIOUS
<1>2. PICK n \in Nat : n = Len(s) - 1
  BY <1>1
<1>3. \A i \in 1 .. n : s[i] \in S
  BY <1>1, <1>2
<1>4. /\ SubSeq(s, 1, n) \in Seq(S)
      /\ Len(SubSeq(s, 1, n)) = IF 1 <= n THEN n - 1 + 1 ELSE 0
      /\ \A i \in 1 .. n - 1 + 1 : SubSeq(s, 1, n)[i] = s[1 + i - 1]
  BY <1>3, SubSeqProperties
<1>5. /\ SubSeq(s, 1, n) \in Seq(S)
      /\ Len(SubSeq(s, 1, n)) = n
      /\ \A i \in 1 .. n : SubSeq(s, 1, n)[i] = s[i]
  BY <1>4
<1>6. QED
  BY <1>1, <1>2, <1>5

(* A sequence is empty when its length is 0.                               *)
LEMMA SeqBounds ==
    ASSUME NEW S, NEW s \in Seq(S)
    PROVE  /\ Len(s) \in Nat
           /\ s = << >> <=> Len(s) = 0
           /\ s # << >> => 1 \in 1 .. Len(s) /\ Len(s) \in 1 .. Len(s)
  OBVIOUS

-----------------------------------------------------------------------------
(* Control                                                                 *)

(* The entries of a directory.                                             *)
LEMMA TreeFacts ==
    /\ Root \in Tops /\ Tops \subseteq Dirs /\ Dirs \subseteq Nodes
    /\ DOMAIN Children = Dirs
    /\ \A d \in Dirs : Children[d] \in SUBSET Nodes
    /\ \A d \in Dirs, t \in Tops : t \notin Children[d]
    /\ \A d, e \in Dirs : \A n : n \in Children[d] /\ n \in Children[e] => d = e
    /\ None \notin Nodes
<1>1. /\ Root \in Tops /\ Tops \subseteq Dirs /\ Dirs \subseteq Nodes
      /\ DOMAIN Children = Dirs
  BY TreeAssumption DEF Dirs
<1>2. ASSUME NEW d \in Dirs
      PROVE  Children[d] \in SUBSET Nodes /\ \A t \in Tops : t \notin Children[d]
  BY <1>1, TreeAssumption DEF Dirs
<1>3. ASSUME NEW d \in Dirs, NEW e \in Dirs, NEW n,
             n \in Children[d], n \in Children[e]
      PROVE  d = e
  BY <1>1, <1>3, TreeAssumption
<1>4. QED
  BY <1>1, <1>2, <1>3, NoneAssumption

(* An entry of an open directory is read.                                  *)
LEMMA ReadFrame ==
    ASSUME NEW f \in Frame, NEW n
    PROVE  \E g \in Frame : /\ g = [f EXCEPT !.left = @ \ {n}]
                            /\ g.dir = f.dir /\ g.left = f.left \ {n}
<1> DEFINE g == [f EXCEPT !.left = @ \ {n}]
<1>1. g \in Frame /\ g.dir = f.dir /\ g.left = f.left \ {n}
  BY DEF Frame
<1> HIDE DEF g
<1>2. g = [f EXCEPT !.left = @ \ {n}]
  BY DEF g
<1>3. QED
  BY <1>1, <1>2

(* A frame of the stack is replaced by one of the same directory.          *)
LEMMA SetFrame ==
    ASSUME NEW s \in Seq(Frame), NEW i \in 1 .. Len(s), NEW f \in Frame
    PROVE  /\ [s EXCEPT ![i] = f] \in Seq(Frame)
           /\ Len([s EXCEPT ![i] = f]) = Len(s)
           /\ \A j \in 1 .. Len(s) :
                  [s EXCEPT ![i] = f][j] = IF j = i THEN f ELSE s[j]
  OBVIOUS

(* Steps that leave the stack and the batch alone.                         *)
LEMMA FramesKept == ASSUME Frames, stack' = stack, start' = start PROVE Frames'
  BY DEF Frames

(* Opening a directory pushes it with all its entries.                     *)
LEMMA OpenDirControl ==
    ASSUME Control, OpenDir
    PROVE  /\ Control'
           /\ Len(stack') = Len(stack) + 1
           /\ \A j \in 1 .. Len(stack) : stack'[j] = stack[j]
           /\ stack'[Len(stack) + 1].dir = child
           /\ stack'[Len(stack) + 1].left = Children[child]
           /\ child \in Dirs /\ child' = None
<1>1. child \in Dirs /\ child' = None /\ pc' = "walk" /\ start' = start
  BY DEF OpenDir, Control, Places, JobType, None
<1>2. PICK f \in Frame : /\ f = [dir |-> child, left |-> Children[child]]
                         /\ f.dir = child /\ f.left = Children[child]
  <2> DEFINE f == [dir |-> child, left |-> Children[child]]
  <2>1. f \in Frame /\ f.dir = child /\ f.left = Children[child]
    BY <1>1, TreeFacts DEF Frame
  <2> HIDE DEF f
  <2>2. QED
    BY <2>1 DEF f
<1>3. stack \in Seq(Frame) /\ stack' = Append(stack, f)
  BY <1>2 DEF OpenDir, Control, JobType
<1>4. /\ stack' \in Seq(Frame) /\ stack' # << >>
      /\ Len(stack') = Len(stack) + 1
      /\ \A j \in 1 .. Len(stack) : stack'[j] = stack[j]
      /\ stack'[Len(stack) + 1] = f
  BY <1>3, AppendSeq
<1>5. JobType'
  BY <1>1, <1>4 DEF OpenDir, Control, JobType
<1>6. Places'
  BY <1>1, <1>4 DEF Places
<1>7. Len(stack) \in Nat /\ (stack = << >> <=> Len(stack) = 0)
  BY <1>3, SeqBounds
<1>8. Frames'
  <2>1. \A j \in 1 .. Len(stack') : stack'[j].left \subseteq Children[stack'[j].dir]
    BY <1>2, <1>4, <1>7 DEF Control, Frames
  <2>2. stack'[1].dir = start
    <3>1. CASE stack = << >>
      BY <1>2, <1>4, <1>7, <3>1 DEF OpenDir, Control, Places
    <3>2. CASE stack # << >>
      BY <1>4, <1>7, <3>2 DEF Control, Frames
    <3>3. QED
      BY <3>1, <3>2
  <2>3. QED
    BY <1>1, <2>1, <2>2 DEF Frames
<1>9. QED
  BY <1>1, <1>2, <1>4, <1>5, <1>6, <1>8 DEF Control

(* Reading an entry takes it from the directory on top of the stack.       *)
LEMMA ReadControl ==
    ASSUME Control, pc = "walk", NEW n, stack' = Read(n), start' = start
    PROVE  /\ stack' \in Seq(Frame) /\ stack' # << >>
           /\ Len(stack') = Len(stack) /\ Len(stack) \in 1 .. Len(stack)
           /\ \A j \in 1 .. Len(stack) :
                  /\ stack'[j].dir = stack[j].dir
                  /\ stack'[j].left = IF j = Len(stack) THEN stack[j].left \ {n}
                                                        ELSE stack[j].left
           /\ Frames'
<1>1. stack \in Seq(Frame) /\ stack # << >>
  BY DEF Control, JobType, Places
<1>2. 1 \in 1 .. Len(stack) /\ Len(stack) \in 1 .. Len(stack)
  BY <1>1, SeqBounds
<1>3. /\ stack' \in Seq(Frame) /\ stack' # << >>
      /\ Len(stack') = Len(stack)
      /\ \A j \in 1 .. Len(stack) :
             /\ stack'[j].dir = stack[j].dir
             /\ stack'[j].left = IF j = Len(stack) THEN stack[j].left \ {n}
                                                   ELSE stack[j].left
  <2>1. PICK f \in Frame : /\ f = [stack[Len(stack)] EXCEPT !.left = @ \ {n}]
                           /\ f.dir = stack[Len(stack)].dir
                           /\ f.left = stack[Len(stack)].left \ {n}
    <3>1. stack[Len(stack)] \in Frame
      BY <1>1, <1>2
    <3>2. QED
      BY <3>1, ReadFrame
  <2>2. stack' = [stack EXCEPT ![Len(stack)] = f]
    BY <1>1, <1>2, <2>1 DEF Read
  <2>3. /\ stack' \in Seq(Frame) /\ Len(stack') = Len(stack)
        /\ \A j \in 1 .. Len(stack) :
               stack'[j] = IF j = Len(stack) THEN f ELSE stack[j]
    BY <1>1, <1>2, <2>2, SetFrame
  <2>4. stack' # << >>
    BY <1>2, <2>3
  <2>5. QED
    BY <2>1, <2>3, <2>4
<1>4. Frames'
  <2>1. ASSUME NEW j \in 1 .. Len(stack)
        PROVE  stack'[j].left \subseteq Children[stack'[j].dir]
    <3>1. stack[j].left \subseteq Children[stack[j].dir]
      BY DEF Control, Frames
    <3>2. stack'[j].left \subseteq stack[j].left /\ stack'[j].dir = stack[j].dir
      BY <1>3
    <3>3. QED
      BY <3>1, <3>2
  <2>2. stack'[1].dir = start
    BY <1>1, <1>3, <1>2 DEF Control, Frames
  <2>3. QED
    BY <1>3, <2>1, <2>2 DEF Frames
<1>5. QED
  BY <1>3, <1>2, <1>4

(* Leaving a directory takes it from the stack.                            *)
LEMMA LeaveControl ==
    ASSUME Control, pc = "walk", stack' = SubSeq(stack, 1, Len(stack) - 1),
           start' = start
    PROVE  /\ stack' \in Seq(Frame) /\ Len(stack) \in Nat \ {0}
           /\ Len(stack') = Len(stack) - 1
           /\ \A j \in 1 .. Len(stack) - 1 : stack'[j] = stack[j]
           /\ stack' = << >> <=> Len(stack) = 1
           /\ Frames'
<1>1. stack \in Seq(Frame) /\ stack # << >>
  BY DEF Control, JobType, Places
<1>2. /\ stack' \in Seq(Frame) /\ Len(stack) \in Nat \ {0}
      /\ Len(stack') = Len(stack) - 1
      /\ \A j \in 1 .. Len(stack) - 1 : stack'[j] = stack[j]
  BY <1>1, FrontSeq
<1>3. stack' = << >> <=> Len(stack') = 0
  BY <1>2, SeqBounds
<1>4. Frames'
  BY <1>1, <1>2, <1>3 DEF Control, Frames
<1>5. QED
  BY <1>2, <1>3, <1>4

(* A new entry of "diffs".                                                 *)
LEMMA ListControl ==
    ASSUME Control, NEW n \in Nodes, NEW d \in BOOLEAN,
           diffs' = Append(diffs, Entry(n, d))
    PROVE  /\ diffs' \in Seq(DiffEntry) /\ Len(diffs) \in Nat
           /\ Len(diffs') = Len(diffs) + 1
           /\ \A i \in 1 .. Len(diffs) : diffs'[i] = diffs[i]
           /\ diffs'[Len(diffs) + 1].node = n
           /\ diffs'[Len(diffs) + 1].is_dir = d
           /\ diffs'[Len(diffs) + 1].servers = NoServers
           /\ Listed' = Listed \cup {n}
<1>1. PICK e \in DiffEntry : /\ e = Entry(n, d)
                             /\ e.node = n /\ e.is_dir = d /\ e.servers = NoServers
  BY DEF Entry, DiffEntry
<1>2. diffs \in Seq(DiffEntry) /\ Len(diffs) \in Nat
  BY SeqBounds DEF Control, JobType
<1>3. /\ diffs' \in Seq(DiffEntry)
      /\ Len(diffs') = Len(diffs) + 1
      /\ \A i \in 1 .. Len(diffs) : diffs'[i] = diffs[i]
      /\ diffs'[Len(diffs) + 1] = e
  BY <1>1, <1>2, AppendSeq
<1>4. Listed' = Listed \cup {n}
  BY <1>1, <1>2, <1>3 DEF Listed
<1>5. QED
  BY <1>1, <1>2, <1>3, <1>4

(* An entry with attributes is one of "diffs" still, and is not one        *)
(* without.                                                                *)
LEMMA WithServers ==
    ASSUME NEW e \in DiffEntry, NEW a \in [of : Nodes, says : [Servers -> Words]]
    PROVE  \E g \in DiffEntry :
              /\ g = [e EXCEPT !.servers = a]
              /\ g.node = e.node /\ g.is_dir = e.is_dir
              /\ g.servers = a /\ g.servers # NoServers
<1> DEFINE g == [e EXCEPT !.servers = a]
<1>1. g \in DiffEntry /\ g.node = e.node /\ g.is_dir = e.is_dir /\ g.servers = a
  BY DEF DiffEntry
<1>2. a # NoServers
  <2>1. a.of \in Nodes
    OBVIOUS
  <2>2. NoServers.of = None
    BY DEF NoServers
  <2>3. QED
    BY <2>1, <2>2, NoneAssumption
<1> HIDE DEF g
<1>3. g = [e EXCEPT !.servers = a]
  BY DEF g
<1>4. QED
  BY <1>1, <1>2, <1>3

(* What merging the answers of a batch makes of "diffs": the entries the   *)
(* batch was made from get the attributes of their own directory, and the  *)
(* others are left alone.                                                  *)
LEMMA MergeDiffs ==
    ASSUME Control, Batching, Merge
    PROVE  /\ diffs' \in Seq(DiffEntry)
           /\ Len(diffs') = Len(diffs) /\ Len(diffs) \in Nat
           /\ \A i \in 1 .. Len(diffs) :
                  /\ diffs'[i].node = diffs[i].node
                  /\ diffs'[i].is_dir = diffs[i].is_dir
           /\ \A i \in 1 .. Len(diffs) :
                  \/ /\ ~ \E k \in 1 .. Len(dirQ) : dirQ[k].idx = i
                     /\ diffs'[i] = diffs[i]
                  \/ /\ diffs'[i].servers # NoServers
                     /\ diffs[i].is_dir
                     /\ diffs'[i].servers.of = diffs[i].node
           /\ Listed' = Listed
<1>0. diffs \in Seq(DiffEntry) /\ Len(diffs) \in Nat
  BY SeqBounds DEF Control, JobType
<1>1. /\ Len(lists[Std]) = Len(dirQ)
      /\ \A k \in 1 .. Len(dirQ) : lists[Std][k].dir = dirQ[k].dir
  BY StdAssumption DEF Merge, Batching, AnswersMatch
<1> DEFINE new(i) == IF \E k \in 1 .. Len(dirQ) : dirQ[k].idx = i
                     THEN [diffs[i] EXCEPT !.servers =
                             ServerJson(CHOOSE k \in 1 .. Len(dirQ) : dirQ[k].idx = i)]
                     ELSE diffs[i]
<1>2. diffs' = [i \in 1 .. Len(diffs) |-> new(i)]
  BY DEF Merge
<1>3. ASSUME NEW i \in 1 .. Len(diffs), NEW k \in 1 .. Len(dirQ), dirQ[k].idx = i
      PROVE  /\ diffs[i].is_dir
             /\ \E g \in DiffEntry :
                   /\ g = [diffs[i] EXCEPT !.servers = ServerJson(k)]
                   /\ g.node = diffs[i].node /\ g.is_dir = diffs[i].is_dir
                   /\ g.servers # NoServers /\ g.servers.of = diffs[i].node
  <2>1. diffs[i].is_dir /\ diffs[i].node = dirQ[k].dir
    BY <1>3 DEF Batching, Queued
  <2>2. \A t \in Servers : Says(t, k) \in Words
    BY DEF Says, Words
  <2>3. lists[Std][k].dir = diffs[i].node /\ diffs[i].node \in Nodes
    <3>1. diffs[i] \in DiffEntry
      BY <1>0
    <3>2. diffs[i].node \in Nodes
      BY <3>1 DEF DiffEntry
    <3>3. QED
      BY <1>1, <2>1, <3>2
  <2> DEFINE a == ServerJson(k)
  <2>4. a \in [of : Nodes, says : [Servers -> Words]] /\ a.of = diffs[i].node
    BY <2>2, <2>3 DEF ServerJson
  <2> HIDE DEF a
  <2>5. diffs[i] \in DiffEntry
    BY <1>0
  <2>6. PICK g \in DiffEntry :
          /\ g = [diffs[i] EXCEPT !.servers = a]
          /\ g.node = diffs[i].node /\ g.is_dir = diffs[i].is_dir
          /\ g.servers = a /\ g.servers # NoServers
    BY <2>4, <2>5, WithServers
  <2>7. g.servers.of = diffs[i].node
    BY <2>4, <2>6
  <2>8. g = [diffs[i] EXCEPT !.servers = ServerJson(k)]
    BY <2>6 DEF a
  <2>9. QED
    BY <2>1, <2>6, <2>7, <2>8
<1>4. ASSUME NEW i \in 1 .. Len(diffs)
      PROVE  /\ new(i) \in DiffEntry
             /\ new(i).node = diffs[i].node /\ new(i).is_dir = diffs[i].is_dir
             /\ \/ /\ ~ \E k \in 1 .. Len(dirQ) : dirQ[k].idx = i
                   /\ new(i) = diffs[i]
                \/ /\ new(i).servers # NoServers
                   /\ diffs[i].is_dir
                   /\ new(i).servers.of = diffs[i].node
  <2>1. CASE \E k \in 1 .. Len(dirQ) : dirQ[k].idx = i
    <3>1. PICK k \in 1 .. Len(dirQ) :
            dirQ[k].idx = i /\ new(i) = [diffs[i] EXCEPT !.servers = ServerJson(k)]
      BY <2>1
    <3>2. PICK g \in DiffEntry :
            /\ g = [diffs[i] EXCEPT !.servers = ServerJson(k)]
            /\ g.node = diffs[i].node /\ g.is_dir = diffs[i].is_dir
            /\ g.servers # NoServers /\ g.servers.of = diffs[i].node
      BY <1>3, <3>1
    <3>3. diffs[i].is_dir
      BY <1>3, <3>1
    <3>4. new(i) = g
      BY <3>1, <3>2
    <3> HIDE DEF new
    <3>5. QED
      BY <3>2, <3>3, <3>4
  <2>2. CASE ~ \E k \in 1 .. Len(dirQ) : dirQ[k].idx = i
    BY <1>0, <2>2
  <2>3. QED
    BY <2>1, <2>2
<1> HIDE DEF new
<1>5. /\ diffs' \in Seq(DiffEntry) /\ Len(diffs') = Len(diffs)
      /\ \A i \in 1 .. Len(diffs) : diffs'[i] = new(i)
  BY <1>0, <1>2, <1>4
<1>6. Listed' = Listed
  BY <1>4, <1>5 DEF Listed
<1>7. QED
  BY <1>0, <1>4, <1>5, <1>6

(* A list a server answers with; the standard server's is whole.           *)
LEMMA AnswerType ==
    ASSUME dirQ \in Seq(Place), NEW t \in Servers, NEW f \in Answers(t)
    PROVE  /\ f \in Seq(Attr)
           /\ t = Std => /\ Len(f) = Len(dirQ)
                         /\ \A k \in 1 .. Len(dirQ) : f[k].dir = dirQ[k].dir
<1>1. Len(dirQ) \in Nat
  BY SeqBounds
<1>2. PICK m \in 0 .. Len(dirQ) : f \in AnswersOf(m) /\ (t = Std => m = Len(dirQ))
  BY <1>1 DEF Answers
<1>3. f \in [1 .. m -> Attr] /\ \A k \in 1 .. m : f[k].dir = BatchDirs[k]
  BY <1>2 DEF AnswersOf
<1>4. f \in Seq(Attr) /\ Len(f) = m
  BY <1>1, <1>3
<1>5. ASSUME NEW k \in 1 .. m PROVE f[k].dir = dirQ[k].dir
  <2>1. k \in 1 .. Len(dirQ)
    BY <1>1
  <2>2. BatchDirs[k] = dirQ[k].dir
    BY <2>1 DEF BatchDirs
  <2>3. QED
    BY <1>3, <2>2
<1>6. QED
  BY <1>2, <1>4, <1>5

(* Every step keeps the worker's place and its stack in agreement.         *)
LEMMA ControlStep == Control /\ Batching /\ [Next]_vars => Control'
<1> SUFFICES ASSUME Control, Batching, [Next]_vars PROVE Control'
  OBVIOUS
<1>0. /\ stack \in Seq(Frame) /\ dirQ \in Seq(Place) /\ diffs \in Seq(DiffEntry)
      /\ child \in Dirs \cup {None} /\ lists \in [Servers -> Seq(Attr)]
      /\ start \in Tops
  BY DEF Control, JobType
<1>e. /\ << >> \in Seq(Frame) /\ << >> \in Seq(Place) /\ << >> \in Seq(DiffEntry)
      /\ [t \in Servers |-> << >>] \in [Servers -> Seq(Attr)]
  OBVIOUS
<1>1. CASE NextTask
  <2>1. JobType'
    BY <1>0, <1>1, <1>e DEF NextTask, JobType
  <2>2. Places'
    BY <1>1 DEF NextTask, Control, Places
  <2>3. QED
    BY <1>1, <2>1, <2>2, FramesKept DEF NextTask, Control
<1>2. ASSUME NEW kind \in {"missing", "file", "special", "dir"}, StatPath(kind)
      PROVE  Control'
  <2>1. JobType'
    BY <1>0, <1>2 DEF StatPath, JobType
  <2>2. Places'
    BY <1>2 DEF StatPath, Control, Places
  <2>3. QED
    BY <1>2, <2>1, <2>2, FramesKept DEF StatPath, Control
<1>c. ASSUME NEW t \in Tops, ChDir(t) PROVE Control'
  <2>1. t \in Dirs /\ t # None
    BY TreeFacts, NoneAssumption
  <2>2. JobType'
    BY <1>0, <1>c, <2>1 DEF ChDir, JobType
  <2>3. stack = << >> /\ stack' = << >>
    BY <1>c DEF ChDir, Control, Places
  <2>4. Places'
    BY <1>c, <2>1, <2>3 DEF ChDir, Control, Places
  <2>5. Frames'
    BY <2>3 DEF Frames
  <2>6. QED
    BY <2>2, <2>4, <2>5 DEF Control
<1>3. CASE OpenDir
  BY <1>3, OpenDirControl
<1>4. CASE OpenFails
  <2>1. JobType'
    BY <1>0, <1>4 DEF OpenFails, JobType
  <2>2. Places'
    BY <1>4 DEF OpenFails, Control, Places
  <2>3. QED
    BY <1>4, <2>1, <2>2, FramesKept DEF OpenFails, Control
<1>5. ASSUME NEW n \in Nodes, ReadDir(n) PROVE Control'
  <2>1. /\ pc = "walk" /\ stack' = Read(n) /\ child' = n /\ n \in Dirs
        /\ diffs' = Append(diffs, Entry(n, TRUE)) /\ lists' = lists
        /\ pc' \in {"flush", "open"} /\ start' = start
    BY <1>5 DEF ReadDir, Reported, Dirs
  <2>2. stack' \in Seq(Frame) /\ stack' # << >> /\ Frames'
    BY <2>1, ReadControl
  <2>3. diffs' \in Seq(DiffEntry) /\ Len(diffs) \in Nat
    BY <2>1, ListControl
  <2>4. dirQ' \in Seq(Place)
    <3>1. [dir |-> n, idx |-> Len(diffs) + 1] \in Place
      BY <2>3 DEF Place
    <3>2. QED
      BY <1>0, <1>5, <3>1, AppendSeq DEF ReadDir
  <2>5. JobType'
    BY <1>0, <2>1, <2>2, <2>3, <2>4 DEF JobType
  <2>6. Places'
    <3>1. n # None
      BY NoneAssumption
    <3>2. QED
      BY <2>1, <2>2, <3>1 DEF Places
  <2>7. QED
    BY <2>2, <2>5, <2>6 DEF Control
<1>6. ASSUME NEW n \in Nodes, ReadFile(n) PROVE Control'
  <2>1. /\ pc = "walk" /\ stack' = Read(n)
        /\ diffs' = Append(diffs, Entry(n, FALSE))
        /\ UNCHANGED <<pc, start, dirQ, child, lists>>
    BY <1>6 DEF ReadFile
  <2>2. stack' \in Seq(Frame) /\ stack' # << >> /\ Frames'
    BY <2>1, ReadControl
  <2>3. diffs' \in Seq(DiffEntry)
    BY <2>1, ListControl
  <2>4. JobType'
    BY <1>0, <2>1, <2>2, <2>3 DEF JobType
  <2>5. Places'
    BY <2>1, <2>2 DEF Control, Places
  <2>6. QED
    BY <2>2, <2>4, <2>5 DEF Control
<1>7. ASSUME NEW n \in Nodes, SkipEntry(n) PROVE Control'
  <2>1. /\ pc = "walk" /\ stack' = Read(n)
        /\ UNCHANGED <<pc, start, dirQ, diffs, child, lists>>
    BY <1>7 DEF SkipEntry
  <2>2. stack' \in Seq(Frame) /\ stack' # << >> /\ Frames'
    BY <2>1, ReadControl
  <2>3. JobType'
    BY <1>0, <2>1, <2>2 DEF JobType
  <2>4. Places'
    BY <2>1, <2>2 DEF Control, Places
  <2>5. QED
    BY <2>2, <2>3, <2>4 DEF Control
<1>8. ASSUME NEW n \in Nodes, StatEntryFails(n) PROVE Control'
  <2>1. /\ pc = "walk" /\ stack' = SubSeq(stack, 1, Len(stack) - 1)
        /\ UNCHANGED <<start, dirQ, diffs, child, lists>>
        /\ pc' = IF Len(stack) = 1 THEN "finish" ELSE pc
    BY <1>8 DEF StatEntryFails
  <2>2. stack' \in Seq(Frame) /\ (stack' = << >> <=> Len(stack) = 1) /\ Frames'
    BY <2>1, LeaveControl
  <2>3. JobType'
    BY <1>0, <2>1, <2>2 DEF JobType
  <2>4. Places'
    BY <2>1, <2>2 DEF Control, Places
  <2>5. QED
    BY <2>2, <2>3, <2>4 DEF Control
<1>9. CASE CloseDir
  <2>1. /\ pc = "walk" /\ stack' = SubSeq(stack, 1, Len(stack) - 1)
        /\ UNCHANGED <<start, dirQ, diffs, child, lists>>
        /\ IF Len(stack) > 1 THEN pc' = pc ELSE pc' \in {"flush", "finish"}
    BY <1>9 DEF CloseDir
  <2>2. /\ stack' \in Seq(Frame) /\ Len(stack) \in Nat \ {0}
        /\ (stack' = << >> <=> Len(stack) = 1) /\ Frames'
    BY <2>1, LeaveControl
  <2>3. JobType'
    BY <1>0, <2>1, <2>2 DEF JobType
  <2>4. Len(stack) > 1 <=> stack' # << >>
    <3>1. \A m \in Nat \ {0} : m > 1 <=> m # 1
      OBVIOUS
    <3>2. QED
      BY <2>2, <3>1, Zenon
  <2>5. Places'
    BY <2>1, <2>4 DEF Control, Places
  <2>6. QED
    BY <2>2, <2>3, <2>5 DEF Control
<1>10. CASE Flush
  <2>1. JobType'
    BY <1>0, <1>10, <1>e DEF Flush, JobType
  <2>2. Places'
    BY <1>10 DEF Flush, Control, Places
  <2>3. QED
    BY <1>10, <2>1, <2>2, FramesKept DEF Flush, Control
<1>11. CASE Merge
  <2>1. diffs' \in Seq(DiffEntry)
    BY <1>11, MergeDiffs
  <2>2. JobType'
    <3>1. dirQ' = << >> /\ UNCHANGED <<start, stack, child, lists>>
      BY <1>11 DEF Merge
    <3>2. QED
      BY <1>0, <1>e, <2>1, <3>1 DEF JobType
  <2>3. Places'
    BY <1>11 DEF Merge, Control, Places
  <2>4. QED
    BY <1>11, <2>2, <2>3, FramesKept DEF Merge, Control
<1>12. CASE Finish
  <2>1. JobType'
    BY <1>0, <1>12, <1>e DEF Finish, JobType
  <2>2. Places'
    BY <1>12 DEF Finish, Control, Places
  <2>3. stack' = stack /\ start' = start
    BY <1>12 DEF Finish, Control, Places
  <2>4. QED
    BY <2>1, <2>2, <2>3, FramesKept DEF Control
<1>13. ASSUME NEW t \in Servers, NEW f \in Answers(t), Answered(t, f)
       PROVE  Control'
  <2>1. f \in Seq(Attr)
    BY <1>0, AnswerType
  <2>2. JobType'
    BY <1>0, <1>13, <2>1 DEF Answered, JobType
  <2>3. Places'
    BY <1>13 DEF Answered, Control, Places
  <2>4. QED
    BY <1>13, <2>2, <2>3, FramesKept DEF Answered, Control
<1>14. ASSUME NEW t \in Servers, Failed(t) PROVE Control'
  <2>1. UNCHANGED <<pc, start, stack, dirQ, diffs, child, lists>>
    BY <1>14 DEF Failed
  <2>2. QED
    BY <2>1, FramesKept DEF Control, JobType, Places
<1>15. CASE UNCHANGED vars
  <2>1. UNCHANGED <<pc, start, stack, dirQ, diffs, child, lists>>
    BY <1>15 DEF vars
  <2>2. QED
    BY <2>1, FramesKept DEF Control, JobType, Places
<1>16. CASE ContentAsserts
  <2>1. pc' = "panic" /\ UNCHANGED <<start, stack, dirQ, diffs, child, lists>>
    BY <1>16 DEF ContentAsserts
  <2>2. JobType' /\ Frames'
    BY <2>1, FramesKept DEF Control, JobType
  <2>3. Places'
    BY <2>1 DEF Places
  <2>4. QED
    BY <2>2, <2>3 DEF Control
<1>17. CASE ChDirSucceeds \/ ChDirFails
  BY <1>c, <1>17, TreeFacts DEF ChDirSucceeds, ChDirFails
<1>18. QED
  BY <1>1, <1>2, <1>3, <1>4, <1>5, <1>6, <1>7, <1>8, <1>9, <1>10, <1>11, <1>12,
     <1>13, <1>14, <1>15, <1>16, <1>17
  DEF Next, Step, ServerAnswers

-----------------------------------------------------------------------------
(* Batching                                                                *)

(* Steps that leave "diffs" and dir_q_ alone.                              *)
LEMMA BatchKept ==
    ASSUME Batching, dirQ' = dirQ, diffs' = diffs, AnswersMatch', Drained'
    PROVE  Batching'
  BY DEF Batching, Queued, Awaiting, MergedAligned

(* A directory gets its entry and its place in the batch.                  *)
LEMMA ReadDirBatch ==
    ASSUME Control, Batching, NEW n \in Nodes, ReadDir(n)
    PROVE  Batching'
<1>1. /\ pc = "walk" /\ diffs' = Append(diffs, Entry(n, TRUE))
      /\ pc' \in {"flush", "open"}
  BY DEF ReadDir
<1>2. /\ Len(diffs) \in Nat /\ Len(diffs') = Len(diffs) + 1
      /\ \A i \in 1 .. Len(diffs) : diffs'[i] = diffs[i]
      /\ diffs'[Len(diffs) + 1].node = n
      /\ diffs'[Len(diffs) + 1].is_dir = TRUE
      /\ diffs'[Len(diffs) + 1].servers = NoServers
  BY <1>1, ListControl
<1>3. PICK e \in Place : /\ dirQ' = Append(dirQ, e)
                         /\ e.dir = n /\ e.idx = Len(diffs) + 1
  <2> DEFINE e == [dir |-> n, idx |-> Len(diffs) + 1]
  <2>1. e \in Place /\ e.dir = n /\ e.idx = Len(diffs) + 1
    BY <1>2 DEF Place
  <2>2. dirQ' = Append(dirQ, e)
    BY DEF ReadDir
  <2> HIDE DEF e
  <2>3. QED
    BY <2>1, <2>2
<1>4. /\ Len(dirQ) \in Nat /\ Len(dirQ') = Len(dirQ) + 1
      /\ \A k \in 1 .. Len(dirQ) : dirQ'[k] = dirQ[k]
      /\ dirQ'[Len(dirQ) + 1] = e
  BY <1>3, AppendSeq, SeqBounds DEF Control, JobType
<1>5. Queued'
  <2> SUFFICES ASSUME NEW k \in 1 .. Len(dirQ')
               PROVE  /\ dirQ'[k].idx \in 1 .. Len(diffs')
                      /\ diffs'[dirQ'[k].idx].is_dir
                      /\ diffs'[dirQ'[k].idx].node = dirQ'[k].dir
    BY DEF Queued
  <2>1. CASE k \in 1 .. Len(dirQ)
    <3>1. /\ dirQ[k].idx \in 1 .. Len(diffs)
          /\ diffs[dirQ[k].idx].is_dir
          /\ diffs[dirQ[k].idx].node = dirQ[k].dir
      BY <2>1 DEF Batching, Queued
    <3>2. QED
      BY <1>2, <1>4, <2>1, <3>1
  <2>2. CASE k = Len(dirQ) + 1
    BY <1>2, <1>3, <1>4, <2>2
  <2>3. QED
    BY <1>4, <2>1, <2>2
<1>6. Awaiting'
  <2> SUFFICES ASSUME NEW i \in 1 .. Len(diffs'), diffs'[i].is_dir,
                      diffs'[i].servers = NoServers
               PROVE  \E k \in 1 .. Len(dirQ') : dirQ'[k].idx = i
    BY DEF Awaiting
  <2>1. CASE i \in 1 .. Len(diffs)
    <3>1. PICK k \in 1 .. Len(dirQ) : dirQ[k].idx = i
      BY <1>2, <2>1 DEF Batching, Awaiting
    <3>2. QED
      BY <1>4, <3>1
  <2>2. CASE i = Len(diffs) + 1
    BY <1>3, <1>4, <2>2
  <2>3. QED
    BY <1>2, <2>1, <2>2
<1>7. MergedAligned'
  BY <1>2 DEF Batching, MergedAligned
<1>8. AnswersMatch' /\ Drained'
  BY <1>1 DEF AnswersMatch, Drained
<1>9. QED
  BY <1>5, <1>6, <1>7, <1>8 DEF Batching

(* A file gets an entry that waits for nothing.                            *)
LEMMA ReadFileBatch ==
    ASSUME Control, Batching, NEW n \in Nodes, ReadFile(n)
    PROVE  Batching'
<1>1. /\ pc = "walk" /\ diffs' = Append(diffs, Entry(n, FALSE))
      /\ pc' = pc /\ dirQ' = dirQ
  BY DEF ReadFile
<1>2. /\ Len(diffs) \in Nat /\ Len(diffs') = Len(diffs) + 1
      /\ \A i \in 1 .. Len(diffs) : diffs'[i] = diffs[i]
      /\ diffs'[Len(diffs) + 1].is_dir = FALSE
      /\ diffs'[Len(diffs) + 1].servers = NoServers
  BY <1>1, ListControl
<1>3. Queued'
  <2> SUFFICES ASSUME NEW k \in 1 .. Len(dirQ)
               PROVE  /\ dirQ[k].idx \in 1 .. Len(diffs')
                      /\ diffs'[dirQ[k].idx].is_dir
                      /\ diffs'[dirQ[k].idx].node = dirQ[k].dir
    BY <1>1 DEF Queued
  <2>1. /\ dirQ[k].idx \in 1 .. Len(diffs)
        /\ diffs[dirQ[k].idx].is_dir
        /\ diffs[dirQ[k].idx].node = dirQ[k].dir
    BY DEF Batching, Queued
  <2>2. QED
    BY <1>2, <2>1
<1>4. Awaiting'
  <2> SUFFICES ASSUME NEW i \in 1 .. Len(diffs'), diffs'[i].is_dir,
                      diffs'[i].servers = NoServers
               PROVE  \E k \in 1 .. Len(dirQ) : dirQ[k].idx = i
    BY <1>1 DEF Awaiting
  <2>1. i \in 1 .. Len(diffs)
    BY <1>2
  <2>2. diffs'[i] = diffs[i]
    BY <1>2, <2>1
  <2>3. QED
    BY <2>1, <2>2 DEF Batching, Awaiting
<1>5. MergedAligned'
  BY <1>2 DEF Batching, MergedAligned
<1>6. AnswersMatch' /\ Drained'
  BY <1>1 DEF AnswersMatch, Drained
<1>7. QED
  BY <1>3, <1>4, <1>5, <1>6 DEF Batching

(* The merge empties the batch, and leaves no directory waiting.           *)
LEMMA MergeBatch == ASSUME Control, Batching, Merge PROVE Batching'
<1>1. /\ Len(diffs') = Len(diffs)
      /\ \A i \in 1 .. Len(diffs) :
             /\ diffs'[i].node = diffs[i].node
             /\ diffs'[i].is_dir = diffs[i].is_dir
      /\ \A i \in 1 .. Len(diffs) :
             \/ /\ ~ \E k \in 1 .. Len(dirQ) : dirQ[k].idx = i
                /\ diffs'[i] = diffs[i]
             \/ /\ diffs'[i].servers # NoServers
                /\ diffs[i].is_dir
                /\ diffs'[i].servers.of = diffs[i].node
  BY MergeDiffs
<1>2. dirQ' = << >> /\ pc' \in {"open", "finish"}
  BY DEF Merge
<1>3. Queued' /\ AnswersMatch' /\ Drained'
  BY <1>2 DEF Queued, AnswersMatch, Drained
<1>4. Awaiting'
  <2> SUFFICES ASSUME NEW i \in 1 .. Len(diffs), diffs'[i].is_dir,
                      diffs'[i].servers = NoServers
               PROVE  FALSE
    BY <1>1 DEF Awaiting
  <2>1. ~ (\E k \in 1 .. Len(dirQ) : dirQ[k].idx = i) /\ diffs'[i] = diffs[i]
    BY <1>1
  <2>2. QED
    BY <2>1 DEF Batching, Awaiting
<1>5. MergedAligned'
  <2> SUFFICES ASSUME NEW i \in 1 .. Len(diffs), diffs'[i].servers # NoServers
               PROVE  diffs'[i].is_dir /\ diffs'[i].servers.of = diffs'[i].node
    BY <1>1 DEF MergedAligned
  <2>1. CASE diffs'[i] = diffs[i]
    BY <2>1 DEF Batching, MergedAligned
  <2>2. CASE /\ diffs[i].is_dir
             /\ diffs'[i].servers.of = diffs[i].node
    BY <1>1, <2>2
  <2>3. QED
    BY <1>1, <2>1, <2>2
<1>6. QED
  BY <1>3, <1>4, <1>5 DEF Batching

(* A failed stat in the first directory is noted.                          *)
LEMMA StatFailsBatch ==
    ASSUME Control, Batching, NEW n \in Nodes, StatEntryFails(n)
    PROVE  Batching'
<1>1. /\ pc = "walk" /\ UNCHANGED <<dirQ, diffs, start>>
      /\ pc' \in {"walk", "finish"} /\ <<n, "stat">> \in trouble'
      /\ pc' = "finish" => Len(stack) = 1 /\ ret' = "E_OS_ENV_STAT"
      /\ n \in stack[Len(stack)].left
  BY DEF StatEntryFails, Top
<1>2. stack \in Seq(Frame) /\ stack # << >>
  BY <1>1 DEF Control, JobType, Places
<1>3. ASSUME pc' = "finish" PROVE n \in Children[start]
  <2>1. n \in stack[1].left /\ 1 \in 1 .. Len(stack)
    <3>1. Len(stack) = 1
      BY <1>1, <1>3
    <3>2. QED
      BY <1>1, <3>1
  <2>2. stack[1].dir = start /\ stack[1].left \subseteq Children[stack[1].dir]
    BY <1>2, <2>1 DEF Control, Frames
  <2>3. QED
    BY <2>1, <2>2
<1>4. AnswersMatch' /\ Drained'
  BY <1>1, <1>3 DEF AnswersMatch, Drained
<1>5. QED
  BY <1>1, <1>4, BatchKept

(* Every step keeps the batch, the entries and the answers in agreement.   *)
LEMMA BatchStep == Control /\ Batching /\ [Next]_vars => Batching'
<1> SUFFICES ASSUME Control, Batching, [Next]_vars PROVE Batching'
  OBVIOUS
<1>1. CASE NextTask
  <2>1. CASE dirQ # << >>
    <3>1. UNCHANGED <<dirQ, diffs>> /\ pc' = "assert_dir_q"
      BY <1>1, <2>1 DEF NextTask
    <3>2. QED
      BY <3>1, BatchKept DEF AnswersMatch, Drained
  <2>2. CASE dirQ = << >>
    <3>1. dirQ' = << >> /\ diffs' = << >> /\ pc' = "stat"
      BY <1>1, <2>2 DEF NextTask
    <3>2. QED
      BY <3>1
      DEF Batching, Queued, Awaiting, AnswersMatch, Drained, MergedAligned
  <2>3. QED
    BY <2>1, <2>2
<1>2. ASSUME NEW kind \in {"missing", "file", "special", "dir"}, StatPath(kind)
      PROVE  Batching'
  <2>1. UNCHANGED <<dirQ, diffs>> /\ dirQ = << >> /\ pc' # "poll"
    BY <1>2 DEF StatPath, Control, Places
  <2>2. QED
    BY <2>1, BatchKept DEF AnswersMatch, Drained
<1>3. CASE OpenDir
  <2>1. UNCHANGED <<dirQ, diffs>> /\ pc' = "walk"
    BY <1>3 DEF OpenDir
  <2>2. QED
    BY <2>1, BatchKept DEF AnswersMatch, Drained
<1>4. CASE OpenFails
  <2>1. /\ UNCHANGED <<dirQ, diffs>> /\ pc' \in {"walk", "finish"}
        /\ pc' = "finish" => dirQ = << >>
    BY <1>4 DEF OpenFails, Control, Places
  <2>2. QED
    BY <2>1, BatchKept DEF AnswersMatch, Drained
<1>5. ASSUME NEW n \in Nodes, SkipEntry(n) PROVE Batching'
  <2>1. UNCHANGED <<dirQ, diffs>> /\ pc' = "walk"
    BY <1>5 DEF SkipEntry
  <2>2. QED
    BY <2>1, BatchKept DEF AnswersMatch, Drained
<1>6. CASE CloseDir
  <2>1. /\ UNCHANGED <<dirQ, diffs>> /\ pc' \in {"walk", "flush", "finish"}
        /\ pc' = "finish" => ~(Len(dirQ) > 0)
    BY <1>6 DEF CloseDir
  <2>2. dirQ # << >> => Len(dirQ) > 0
    BY SeqBounds DEF Control, JobType
  <2>3. QED
    BY <2>1, <2>2, BatchKept DEF AnswersMatch, Drained
<1>7. CASE Flush
  <2>1. UNCHANGED <<dirQ, diffs>> /\ pc' = "poll" /\ has_done' = {}
    BY <1>7 DEF Flush
  <2>2. QED
    BY <2>1, BatchKept DEF AnswersMatch, Drained
<1>8. CASE Finish
  <2>1. /\ UNCHANGED <<dirQ, diffs, ret, trouble, start>>
        /\ pc' = "loop" /\ pc = "finish"
    BY <1>8 DEF Finish
  <2>2. Drained' /\ AnswersMatch'
    BY <2>1 DEF Batching, Drained, AnswersMatch
  <2>3. QED
    BY <2>1, <2>2, BatchKept
<1>9. ASSUME NEW t \in Servers, NEW f \in Answers(t), Answered(t, f)
      PROVE  Batching'
  <2>1. /\ UNCHANGED <<dirQ, diffs, ret, trouble, pc>> /\ pc = "poll"
        /\ lists' = [lists EXCEPT ![t] = f] /\ has_done' = has_done \cup {t}
        /\ lists \in [Servers -> Seq(Attr)] /\ dirQ \in Seq(Place)
    BY <1>9 DEF Answered, Control, JobType
  <2>2. t = Std => /\ Len(f) = Len(dirQ)
                   /\ \A k \in 1 .. Len(dirQ) : f[k].dir = dirQ[k].dir
    BY <2>1, AnswerType
  <2>3. AnswersMatch'
    <3>1. CASE t = Std
      BY <2>1, <2>2, <3>1 DEF AnswersMatch
    <3>2. CASE t # Std
      BY <2>1, <3>2 DEF Batching, AnswersMatch
    <3>3. QED
      BY <3>1, <3>2
  <2>4. QED
    BY <2>1, <2>3, BatchKept DEF Drained
<1>10. ASSUME NEW t \in Servers, Failed(t) PROVE Batching'
  <2>1. /\ UNCHANGED <<dirQ, diffs, lists, pc>> /\ pc = "poll"
        /\ Std \in has_done' => Std \in has_done
    BY <1>10 DEF Failed
  <2>2. QED
    BY <2>1, BatchKept DEF Batching, AnswersMatch, Drained
<1>11. CASE UNCHANGED vars
  <2>1. UNCHANGED <<dirQ, diffs, lists, pc, has_done, ret, trouble, start>>
    BY <1>11 DEF vars
  <2>2. QED
    BY <2>1, BatchKept DEF Batching, AnswersMatch, Drained
<1>12. CASE ContentAsserts \/ \E t \in Tops : ChDir(t)
  <2>1. UNCHANGED <<dirQ, diffs>> /\ pc' \in {"panic", "open"}
    BY <1>12 DEF ContentAsserts, ChDir
  <2>2. QED
    BY <2>1, BatchKept DEF AnswersMatch, Drained
<1>13. CASE ChDirSucceeds \/ ChDirFails
  BY <1>12, <1>13, TreeFacts DEF ChDirSucceeds, ChDirFails
<1>14. QED
  BY <1>1, <1>2, <1>3, <1>4, <1>5, <1>6, <1>7, <1>8, <1>9, <1>10, <1>11,
     <1>12, <1>13, ReadDirBatch, ReadFileBatch, StatFailsBatch, MergeBatch
  DEF Next, Step, ServerAnswers

-----------------------------------------------------------------------------
(* Walking                                                                 *)

(* Steps that list and read nothing.                                       *)
LEMMA WalkKept ==
    ASSUME Walking, stack' = stack, child' = child, start' = start,
           Len(diffs') = Len(diffs),
           \A i \in 1 .. Len(diffs) : diffs'[i].node = diffs[i].node,
           Unread \subseteq Unread', Going' => Going
    PROVE  Walking'
<1>1. Listed' = Listed
  BY DEF Listed
<1>2. Walked' = Walked
  BY <1>1 DEF Walked
<1>3. \A d, n : ToRead(d, n)' <=> ToRead(d, n)
  BY DEF ToRead
<1>4. Covered'
  BY <1>1, <1>2, <1>3 DEF Walking, Covered
<1>5. Distinct'
  BY DEF Walking, Distinct
<1>6. ParentsFirst'
  BY <1>1 DEF Walking, ParentsFirst
<1>7. OpenOnce'
  BY <1>1 DEF Walking, OpenOnce
<1>8. Fresh'
  BY <1>1 DEF Walking, Fresh
<1>9. QED
  BY <1>4, <1>5, <1>6, <1>7, <1>8 DEF Walking

(* Trouble that is noted stays.                                            *)
LEMMA UnreadGrows == ASSUME trouble \subseteq trouble' PROVE Unread \subseteq Unread'
  BY DEF Unread

(* Nothing is listed and nothing is open: a task begins.                   *)
LEMMA WalkBegins ==
    ASSUME diffs' = << >>, stack' = << >>, child' \in {start', None},
           Going' => child' = start'
    PROVE  Walking'
<1>1. Listed' = {}
  BY DEF Listed
<1>2. Walked' = {start'}
  BY <1>1 DEF Walked
<1>3. Covered'
  BY <1>2 DEF Covered
<1>4. Distinct' /\ ParentsFirst' /\ OpenOnce' /\ Fresh'
  BY <1>1 DEF Distinct, ParentsFirst, OpenOnce, Fresh
<1>5. QED
  BY <1>3, <1>4 DEF Walking

(* Opening a directory: all its entries are to be read.                    *)
LEMMA OpenDirWalk == ASSUME Control, Walking, OpenDir PROVE Walking'
<1>1. /\ Len(stack') = Len(stack) + 1
      /\ \A j \in 1 .. Len(stack) : stack'[j] = stack[j]
      /\ stack'[Len(stack) + 1].dir = child
      /\ stack'[Len(stack) + 1].left = Children[child]
      /\ child \in Dirs /\ child' = None
  BY OpenDirControl
<1>2. Len(stack) \in Nat /\ child # None
  BY <1>1, SeqBounds, NoneAssumption DEF Control, JobType, Dirs
<1>3. UNCHANGED <<diffs, trouble, start>> /\ Going
  BY DEF OpenDir, Going
<1>4. Listed' = Listed /\ Walked' = Walked /\ Unread' = Unread
  BY <1>3 DEF Listed, Walked, Unread
<1>5. Covered'
  <2> SUFFICES ASSUME NEW d \in Walked \ Unread, NEW n \in Children[d],
                      Owed(n), n \notin Listed
               PROVE  ToRead(d, n)'
    BY <1>4 DEF Covered
  <2>1. CASE d = child
    BY <1>1, <1>2, <2>1 DEF ToRead
  <2>2. CASE d # child
    <3>1. ToRead(d, n)
      BY <1>3, <2>2 DEF Walking, Covered
    <3>2. PICK j \in 1 .. Len(stack) : stack[j].dir = d /\ n \in stack[j].left
      BY <3>1 DEF ToRead
    <3>3. j \in 1 .. Len(stack') /\ stack'[j] = stack[j]
      BY <1>1, <1>2
    <3>4. QED
      BY <3>2, <3>3 DEF ToRead
  <2>3. QED
    BY <2>1, <2>2
<1>6. Distinct' /\ ParentsFirst'
  BY <1>3, <1>4 DEF Walking, Distinct, ParentsFirst
<1>7. ASSUME NEW j \in 1 .. Len(stack')
      PROVE  \/ j \in 1 .. Len(stack) /\ stack'[j] = stack[j]
             \/ /\ j = Len(stack) + 1
                /\ stack'[j].dir = child /\ stack'[j].left = Children[child]
  BY <1>1, <1>2
<1>8. /\ child \in Listed \cup {start} /\ Children[child] \cap Listed = {}
      /\ \A j \in 1 .. Len(stack) : stack[j].dir # child
  BY <1>2 DEF Walking, Fresh
<1>9. OpenOnce'
  <2>1. ASSUME NEW j \in 1 .. Len(stack') PROVE stack'[j].dir \in Listed \cup {start}
    BY <1>7, <1>8 DEF Walking, OpenOnce
  <2>2. ASSUME NEW i \in 1 .. Len(stack'), NEW j \in 1 .. Len(stack'), i # j
        PROVE  stack'[i].dir # stack'[j].dir
    BY <1>7, <1>8, <2>2 DEF Walking, OpenOnce
  <2>3. QED
    BY <1>3, <1>4, <2>1, <2>2 DEF OpenOnce
<1>10. Fresh'
  <2>1. ASSUME NEW j \in 1 .. Len(stack') PROVE stack'[j].left \cap Listed = {}
    BY <1>7, <1>8 DEF Walking, Fresh
  <2>2. QED
    BY <1>1, <1>4, <2>1 DEF Fresh
<1>11. QED
  BY <1>5, <1>6, <1>9, <1>10 DEF Walking

(* A directory that cannot be opened is unread.                            *)
LEMMA OpenFailsWalk == ASSUME Control, Walking, OpenFails PROVE Walking'
<1>1. /\ child \in Dirs /\ child' = None /\ child # None
      /\ UNCHANGED <<stack, diffs, start>>
      /\ trouble' = trouble \cup {<<child, "open">>}
      /\ Going
  BY DEF OpenFails, Control, Places, JobType, Going
<1>2. Listed' = Listed /\ Walked' = Walked
  BY <1>1 DEF Listed, Walked
<1>3. Unread \subseteq Unread' /\ child \in Unread'
  BY <1>1, UnreadGrows, TreeFacts DEF Unread
<1>4. \A d, n : ToRead(d, n)' <=> ToRead(d, n)
  BY <1>1 DEF ToRead
<1>5. Covered'
  <2> SUFFICES ASSUME NEW d \in Walked \ Unread', NEW n \in Children[d],
                      Owed(n)
               PROVE  n \in Listed \/ ToRead(d, n)
    BY <1>2, <1>4 DEF Covered
  <2>1. d \in Walked \ Unread /\ d # child
    BY <1>3
  <2>2. QED
    BY <1>1, <2>1 DEF Walking, Covered
<1>6. Distinct' /\ ParentsFirst' /\ OpenOnce' /\ Fresh'
  BY <1>1, <1>2 DEF Walking, Distinct, ParentsFirst, OpenOnce, Fresh
<1>7. QED
  BY <1>5, <1>6 DEF Walking

(* What is found in the directory on top of the stack is new: it is not    *)
(* listed, not to be read elsewhere, and no directory on the stack.        *)
LEMMA FoundIsNew ==
    ASSUME Control, Walking, pc = "walk", NEW n \in Top.left
    PROVE  /\ Len(stack) \in 1 .. Len(stack) /\ n \in stack[Len(stack)].left
           /\ stack[Len(stack)].dir \in Dirs
           /\ n \in Children[stack[Len(stack)].dir]
           /\ n \notin Listed /\ n # start
           /\ \A j \in 1 .. Len(stack) : stack[j].dir # n
           /\ \A j \in 1 .. Len(stack) : j # Len(stack) => n \notin stack[j].left
           /\ \A d \in Dirs \ (Listed \cup {start}) : n \notin Children[d]
<1>1. stack \in Seq(Frame) /\ Len(stack) \in 1 .. Len(stack)
  BY SeqBounds DEF Control, JobType, Places
<1>2. \A j \in 1 .. Len(stack) : stack[j].dir \in Dirs
  <2>1. \A j \in 1 .. Len(stack) : stack[j] \in Frame
    BY <1>1
  <2>2. QED
    BY <2>1 DEF Frame
<1> DEFINE m == Len(stack)
<1>3. m \in 1 .. Len(stack) /\ n \in stack[m].left
  BY <1>1 DEF Top
<1> HIDE DEF m
<1>4. n \in Children[stack[m].dir]
  BY <1>3 DEF Control, Frames
<1>5. n \notin Listed /\ n # start
  <2>1. n \notin Listed
    BY <1>3 DEF Walking, Fresh
  <2>2. QED
    BY <1>2, <1>3, <1>4, <2>1, TreeFacts DEF Control, JobType
<1>6. ASSUME NEW j \in 1 .. Len(stack) PROVE stack[j].dir # n
  BY <1>5 DEF Walking, OpenOnce
<1>7. ASSUME NEW j \in 1 .. Len(stack), j # m PROVE n \notin stack[j].left
  <2>1. stack[j].dir # stack[m].dir
    BY <1>3, <1>7 DEF Walking, OpenOnce
  <2>2. n \notin Children[stack[j].dir]
    BY <1>2, <1>3, <1>4, <2>1, TreeFacts
  <2>3. QED
    BY <2>2 DEF Control, Frames
<1>8. ASSUME NEW d \in Dirs \ (Listed \cup {start}) PROVE n \notin Children[d]
  <2>1. stack[m].dir \in Listed \cup {start}
    BY <1>3 DEF Walking, OpenOnce
  <2>2. QED
    BY <1>2, <1>3, <1>4, <2>1, TreeFacts
<1>9. QED
  BY <1>2, <1>3, <1>4, <1>5, <1>6, <1>7, <1>8 DEF m

(* Listing what was found: it is listed once, and no longer to be read.    *)
LEMMA ListWalk ==
    ASSUME Control, Walking, pc = "walk", NEW n \in Nodes, n \in Top.left,
           NEW d \in BOOLEAN, stack' = Read(n), diffs' = Append(diffs, Entry(n, d)),
           start' = start
    PROVE  /\ Distinct' /\ ParentsFirst' /\ OpenOnce'
           /\ \A j \in 1 .. Len(stack') : stack'[j].left \cap Listed' = {}
<1>1. /\ Len(stack') = Len(stack)
      /\ \A j \in 1 .. Len(stack) :
             /\ stack'[j].dir = stack[j].dir
             /\ stack'[j].left = IF j = Len(stack) THEN stack[j].left \ {n}
                                                   ELSE stack[j].left
  BY ReadControl
<1>2. /\ Len(diffs) \in Nat /\ Len(diffs') = Len(diffs) + 1
      /\ \A i \in 1 .. Len(diffs) : diffs'[i] = diffs[i]
      /\ diffs'[Len(diffs) + 1].node = n
      /\ Listed' = Listed \cup {n}
  BY ListControl
<1>3. /\ n \notin Listed
      /\ \A j \in 1 .. Len(stack) : j # Len(stack) => n \notin stack[j].left
      /\ \A e \in Dirs \ (Listed \cup {start}) : n \notin Children[e]
  BY FoundIsNew
<1>4. Distinct'
  <2>1. \A i \in 1 .. Len(diffs) : diffs[i].node \in Listed
    BY DEF Listed
  <2>2. \A i, j \in 1 .. Len(diffs) : i # j => diffs[i].node # diffs[j].node
    BY DEF Walking, Distinct
  <2>3. ASSUME NEW i \in 1 .. Len(diffs'), NEW j \in 1 .. Len(diffs'), i # j
        PROVE  diffs'[i].node # diffs'[j].node
    BY <1>2, <1>3, <2>1, <2>2, <2>3
  <2>4. QED
    BY <2>3 DEF Distinct
<1>5. ParentsFirst'
  BY <1>2, <1>3 DEF Walking, ParentsFirst
<1>6. OpenOnce'
  <2>1. ASSUME NEW j \in 1 .. Len(stack) PROVE stack'[j].dir \in Listed' \cup {start}
    <3>1. stack[j].dir \in Listed \cup {start} /\ stack'[j].dir = stack[j].dir
      BY <1>1 DEF Walking, OpenOnce
    <3>2. QED
      BY <1>2, <3>1
  <2>2. ASSUME NEW i \in 1 .. Len(stack), NEW j \in 1 .. Len(stack), i # j
        PROVE  stack'[i].dir # stack'[j].dir
    <3>1. stack[i].dir # stack[j].dir
      BY <2>2 DEF Walking, OpenOnce
    <3>2. QED
      BY <1>1, <3>1
  <2>3. QED
    BY <1>1, <2>1, <2>2 DEF OpenOnce
<1>7. ASSUME NEW j \in 1 .. Len(stack') PROVE stack'[j].left \cap Listed' = {}
  <2>1. stack[j].left \cap Listed = {} /\ j \in 1 .. Len(stack)
    BY <1>1 DEF Walking, Fresh
  <2>2. n \notin stack'[j].left /\ stack'[j].left \subseteq stack[j].left
    BY <1>1, <1>3, <2>1
  <2>3. QED
    BY <1>2, <2>1, <2>2
<1>8. QED
  BY <1>4, <1>5, <1>6, <1>7

(* What was to be read is to be read still, but for the entry just read.   *)
LEMMA ReadWalk ==
    ASSUME Control, pc = "walk", NEW n, stack' = Read(n), NEW d, NEW x,
           ToRead(d, x), x # n, start' = start
    PROVE  ToRead(d, x)'
<1>1. PICK j \in 1 .. Len(stack) : stack[j].dir = d /\ x \in stack[j].left
  BY DEF ToRead
<1>2. /\ Len(stack') = Len(stack)
      /\ stack'[j].dir = stack[j].dir
      /\ stack'[j].left = IF j = Len(stack) THEN stack[j].left \ {n}
                                            ELSE stack[j].left
  BY ReadControl
<1>3. x \in stack'[j].left
  BY <1>1, <1>2
<1>4. QED
  BY <1>1, <1>2, <1>3 DEF ToRead

(* What has been walked are nodes, not the absence of one.                 *)
LEMMA WalkedNodes == ASSUME Control PROVE Walked \subseteq Nodes
<1>1. ASSUME NEW i \in 1 .. Len(diffs) PROVE diffs[i].node \in Nodes
  <2>1. diffs[i] \in DiffEntry
    BY DEF Control, JobType
  <2>2. QED
    BY <2>1 DEF DiffEntry
<1>2. start \in Nodes
  BY TreeFacts DEF Control, JobType
<1>3. QED
  BY <1>1, <1>2 DEF Walked, Listed

(* A directory is listed and will be opened next.                          *)
LEMMA ReadDirWalk ==
    ASSUME Control, Walking, NEW n \in Nodes, ReadDir(n) PROVE Walking'
<1>1. /\ pc = "walk" /\ n \in Top.left /\ stack' = Read(n) /\ child' = n
      /\ diffs' = Append(diffs, Entry(n, TRUE)) /\ trouble' = trouble
      /\ n \in Dirs /\ Going /\ start' = start
  BY DEF ReadDir, Reported, Dirs, Going
<1>2. /\ Distinct' /\ ParentsFirst' /\ OpenOnce'
      /\ \A j \in 1 .. Len(stack') : stack'[j].left \cap Listed' = {}
  BY <1>1, ListWalk
<1>3. Listed' = Listed \cup {n}
  BY <1>1, ListControl
<1>4. /\ n \notin Listed /\ n # start
      /\ \A j \in 1 .. Len(stack) : stack[j].dir # n
      /\ \A d \in Dirs \ (Listed \cup {start}) : n \notin Children[d]
  BY <1>1, FoundIsNew
<1>5. Fresh'
  <2>1. Children[n] \cap Listed = {}
    BY <1>1, <1>4 DEF Walking, ParentsFirst
  <2>2. n \notin Children[n]
    BY <1>1, <1>4
  <2>3. \A j \in 1 .. Len(stack') : stack'[j].dir # n
    <3>1. /\ Len(stack') = Len(stack)
          /\ \A j \in 1 .. Len(stack) : stack'[j].dir = stack[j].dir
      BY <1>1, ReadControl
    <3>2. QED
      BY <1>4, <3>1
  <2>4. QED
    BY <1>1, <1>2, <1>3, <2>1, <2>2, <2>3 DEF Fresh
<1>6. Covered'
  <2>1. Walked' = Walked \cup {n} /\ Unread' = Unread
    BY <1>1, <1>3 DEF Walked, Unread, Dirs
  <2> SUFFICES ASSUME NEW d \in Walked \ Unread, d # n, NEW x \in Children[d],
                      Owed(x), x \notin Listed, x # n
               PROVE  ToRead(d, x)'
    BY <1>1, <1>3, <2>1 DEF Covered
  <2>2. d # child
    <3>1. child = None
      BY <1>1 DEF Control, Places
    <3>2. QED
      BY <3>1, WalkedNodes, NoneAssumption
  <2>3. ToRead(d, x)
    BY <1>1, <2>2 DEF Walking, Covered
  <2>4. QED
    BY <1>1, <2>3, ReadWalk
<1>7. QED
  BY <1>2, <1>5, <1>6 DEF Walking

(* A file is listed.                                                       *)
LEMMA ReadFileWalk ==
    ASSUME Control, Walking, NEW n \in Nodes, ReadFile(n) PROVE Walking'
<1>1. /\ pc = "walk" /\ n \in Top.left /\ stack' = Read(n) /\ child' = None
      /\ diffs' = Append(diffs, Entry(n, FALSE)) /\ trouble' = trouble
      /\ Kind[n] # "dir" /\ Going /\ child = None /\ start' = start
  BY DEF ReadFile, Going, Control, Places
<1>2. /\ Distinct' /\ ParentsFirst' /\ OpenOnce'
      /\ \A j \in 1 .. Len(stack') : stack'[j].left \cap Listed' = {}
  BY <1>1, ListWalk
<1>3. Listed' = Listed \cup {n}
  BY <1>1, ListControl
<1>4. Fresh'
  BY <1>1, <1>2 DEF Fresh
<1>5. Covered'
  <2>1. Walked' = Walked /\ Unread' = Unread
    BY <1>1, <1>3 DEF Walked, Unread
  <2> SUFFICES ASSUME NEW d \in Walked \ Unread, NEW x \in Children[d],
                      Owed(x), x \notin Listed, x # n
               PROVE  ToRead(d, x)'
    BY <1>3, <2>1 DEF Covered
  <2>2. d # child
    BY <1>1, WalkedNodes, NoneAssumption
  <2>3. ToRead(d, x)
    BY <1>1, <2>2 DEF Walking, Covered
  <2>4. QED
    BY <1>1, <2>3, ReadWalk
<1>6. QED
  BY <1>2, <1>4, <1>5 DEF Walking

(* What is skipped is neither reported a directory nor a file.             *)
LEMMA SkipWalk ==
    ASSUME Control, Walking, NEW n \in Nodes, SkipEntry(n) PROVE Walking'
<1>1. /\ pc = "walk" /\ stack' = Read(n) /\ child' = None
      /\ UNCHANGED <<diffs, trouble, start>>
      /\ ~Owed(n) /\ Going /\ child = None
  <2>1. ~Owed(n)
    BY TreeAssumption DEF SkipEntry, Stated, Owed, Reported
  <2>2. QED
    BY <2>1 DEF SkipEntry, Going, Control, Places
<1>2. Listed' = Listed /\ Walked' = Walked /\ Unread' = Unread
  BY <1>1 DEF Listed, Walked, Unread
<1>3. /\ Len(stack') = Len(stack)
      /\ \A j \in 1 .. Len(stack) :
             /\ stack'[j].dir = stack[j].dir
             /\ stack'[j].left \subseteq stack[j].left
  <2>1. /\ Len(stack') = Len(stack)
        /\ \A j \in 1 .. Len(stack) :
               /\ stack'[j].dir = stack[j].dir
               /\ stack'[j].left = IF j = Len(stack) THEN stack[j].left \ {n}
                                                     ELSE stack[j].left
    BY <1>1, ReadControl
  <2>2. QED
    BY <2>1
<1>4. Distinct' /\ ParentsFirst'
  BY <1>1, <1>2 DEF Walking, Distinct, ParentsFirst
<1>5. OpenOnce'
  BY <1>1, <1>2, <1>3 DEF Walking, OpenOnce
<1>6. Fresh'
  <2>1. ASSUME NEW j \in 1 .. Len(stack') PROVE stack'[j].left \cap Listed = {}
    BY <1>3 DEF Walking, Fresh
  <2>2. QED
    BY <1>1, <1>2, <2>1 DEF Fresh
<1>7. Covered'
  <2> SUFFICES ASSUME NEW d \in Walked \ Unread, NEW x \in Children[d],
                      Owed(x), x \notin Listed
               PROVE  ToRead(d, x)'
    BY <1>2 DEF Covered
  <2>1. d # child
    BY <1>1, WalkedNodes, NoneAssumption
  <2>2. ToRead(d, x) /\ x # n
    BY <1>1, <2>1 DEF Walking, Covered
  <2>3. QED
    BY <1>1, <2>2, ReadWalk
<1>8. QED
  BY <1>4, <1>5, <1>6, <1>7 DEF Walking

(* A directory that is left early is unread; one left at its end has       *)
(* nothing to be read.                                                     *)
LEMMA LeaveWalk ==
    ASSUME Control, Walking, pc = "walk",
           stack' = SubSeq(stack, 1, Len(stack) - 1),
           UNCHANGED <<diffs, child, start>>, Unread \subseteq Unread',
           Top.dir \in Unread' \/ Top.left = {}
    PROVE  Walking'
<1>1. /\ Len(stack) \in Nat \ {0} /\ Len(stack') = Len(stack) - 1
      /\ \A j \in 1 .. Len(stack) - 1 : stack'[j] = stack[j]
  BY LeaveControl
<1>2. Listed' = Listed /\ Walked' = Walked
  BY DEF Listed, Walked
<1>3. child = None /\ child' = None /\ Going
  BY DEF Control, Places, Going
<1>4. Covered'
  <2> SUFFICES ASSUME NEW d \in Walked \ Unread', NEW x \in Children[d],
                      Owed(x), x \notin Listed
               PROVE  ToRead(d, x)'
    BY <1>2 DEF Covered
  <2>1. d # child /\ d \notin Unread
    BY <1>3, WalkedNodes, NoneAssumption
  <2>2. ToRead(d, x)
    BY <1>3, <2>1 DEF Walking, Covered
  <2>3. PICK j \in 1 .. Len(stack) : stack[j].dir = d /\ x \in stack[j].left
    BY <2>2 DEF ToRead
  <2>4. j # Len(stack)
    BY <2>3 DEF Top
  <2>5. j \in 1 .. Len(stack') /\ stack'[j] = stack[j]
    BY <1>1, <2>4
  <2>6. QED
    BY <2>3, <2>5 DEF ToRead
<1>5. \A j \in 1 .. Len(stack') : j \in 1 .. Len(stack) /\ stack'[j] = stack[j]
  BY <1>1
<1>6. Distinct' /\ ParentsFirst'
  BY <1>2 DEF Walking, Distinct, ParentsFirst
<1>7. OpenOnce'
  BY <1>2, <1>5 DEF Walking, OpenOnce
<1>8. Fresh'
  BY <1>2, <1>3, <1>5 DEF Walking, Fresh
<1>9. QED
  BY <1>4, <1>6, <1>7, <1>8 DEF Walking

(* A failed stat leaves the directory it happened in unread.               *)
LEMMA StatFailsWalk ==
    ASSUME Control, Walking, NEW n \in Nodes, StatEntryFails(n) PROVE Walking'
<1>1. /\ pc = "walk" /\ n \in Top.left
      /\ stack' = SubSeq(stack, 1, Len(stack) - 1)
      /\ UNCHANGED <<diffs, child, start>>
      /\ trouble' = trouble \cup {<<n, "stat">>}
  BY DEF StatEntryFails
<1>2. Unread \subseteq Unread'
  BY <1>1, UnreadGrows
<1>3. Top.dir \in Dirs /\ n \in Children[Top.dir]
  BY <1>1, FoundIsNew DEF Top
<1>4. Top.dir \in Unread'
  BY <1>1, <1>3, TreeFacts DEF Unread
<1>5. QED
  BY <1>1, <1>2, <1>4, LeaveWalk

(* Every step keeps the walk complete and free of repetition.              *)
LEMMA WalkStep == Control /\ Batching /\ Walking /\ [Next]_vars => Walking'
<1> SUFFICES ASSUME Control, Batching, Walking, [Next]_vars PROVE Walking'
  OBVIOUS
<1>1. CASE NextTask
  <2>1. CASE dirQ # << >>
    <3>1. /\ UNCHANGED <<start, stack, child, diffs, trouble>>
          /\ pc' = "assert_dir_q"
      BY <1>1, <2>1 DEF NextTask
    <3>2. Unread \subseteq Unread' /\ ~Going'
      BY <3>1 DEF Unread, Going
    <3>3. QED
      BY <3>1, <3>2, WalkKept
  <2>2. CASE dirQ = << >>
    <3>1. diffs' = << >> /\ stack' = << >> /\ child' = None /\ pc' = "stat"
      BY <1>1, <2>2 DEF NextTask, Control, Places
    <3>2. ~Going'
      BY <3>1 DEF Going
    <3>3. QED
      BY <3>1, <3>2, WalkBegins
  <2>3. QED
    BY <2>1, <2>2
<1>2. ASSUME NEW kind \in {"missing", "file", "special", "dir"}, StatPath(kind)
      PROVE  Walking'
  <2>1. /\ diffs' = << >> /\ stack' = << >> /\ child' = None
    BY <1>2 DEF StatPath, Control, Places
  <2>2. ~Going'
    BY <1>2 DEF StatPath, Going
  <2>3. QED
    BY <2>1, <2>2, WalkBegins
<1>3. CASE CloseDir
  <2>1. /\ pc = "walk" /\ Top.left = {}
        /\ stack' = SubSeq(stack, 1, Len(stack) - 1)
        /\ UNCHANGED <<diffs, child, trouble, start>>
    BY <1>3 DEF CloseDir
  <2>2. Unread \subseteq Unread'
    BY <2>1, UnreadGrows
  <2>3. QED
    BY <2>1, <2>2, LeaveWalk
<1>4. CASE Merge
  <2>1. /\ UNCHANGED <<stack, child, start>> /\ trouble \subseteq trouble' /\ Going
    BY <1>4 DEF Merge, Going
  <2>2. /\ Len(diffs') = Len(diffs)
        /\ \A i \in 1 .. Len(diffs) : diffs'[i].node = diffs[i].node
    BY <1>4, MergeDiffs
  <2>3. Unread \subseteq Unread'
    BY <2>1, UnreadGrows
  <2>4. QED
    BY <2>1, <2>2, <2>3, WalkKept
<1>5. CASE \/ Flush \/ Finish \/ ContentAsserts \/ UNCHANGED vars
           \/ \E t \in Servers : ServerAnswers(t)
  <2>1. UNCHANGED <<diffs, child, trouble, start>> /\ (Going' => Going)
    BY <1>5
    DEF Flush, Finish, ContentAsserts, ServerAnswers, Failed, Answered, vars,
        Going, Control, Places
  <2>2. stack' = stack
    BY <1>5 DEF Flush, Finish, ContentAsserts, ServerAnswers, Failed, Answered,
                vars, Control, Places
  <2>3. Unread \subseteq Unread'
    BY <2>1, UnreadGrows
  <2>4. QED
    BY <2>1, <2>2, <2>3, WalkKept
<1>6. ASSUME NEW t \in Tops, ChDir(t) PROVE Walking'
  <2>1. /\ diffs' = << >> /\ stack' = << >>
        /\ child' \in {start', None} /\ child' = start'
    BY <1>6 DEF ChDir, Control, Places
  <2>2. QED
    BY <2>1, WalkBegins
<1>7. CASE ChDirSucceeds \/ ChDirFails
  BY <1>6, <1>7, TreeFacts DEF ChDirSucceeds, ChDirFails
<1>8. QED
  BY <1>1, <1>2, <1>3, <1>4, <1>5, <1>7, OpenDirWalk, OpenFailsWalk, ReadDirWalk,
     ReadFileWalk, SkipWalk, StatFailsWalk
  DEF Next, Step

-----------------------------------------------------------------------------
(* At first nothing is listed and no task has begun.                       *)
LEMMA Initially == Init => IInv
<1> SUFFICES ASSUME Init PROVE IInv
  OBVIOUS
<1>1. /\ stack = << >> /\ dirQ = << >> /\ diffs = << >> /\ child = None
      /\ lists = [t \in Servers |-> << >>] /\ pc = "loop" /\ ret = None
      /\ start = Root
  BY DEF Init
<1>2. Control
  <2>1. JobType
    BY <1>1, TreeFacts DEF JobType
  <2>2. Places /\ Frames
    BY <1>1 DEF Places, Frames
  <2>3. QED
    BY <2>1, <2>2 DEF Control
<1>3. Batching
  BY <1>1 DEF Batching, Queued, Awaiting, AnswersMatch, Drained, MergedAligned
<1>4. Walking
  <2>1. Listed = {} /\ ~Going
    BY <1>1 DEF Listed, Going, None
  <2>2. QED
    BY <1>1, <2>1 DEF Walking, Covered, Distinct, ParentsFirst, OpenOnce, Fresh
<1>5. QED
  BY <1>2, <1>3, <1>4 DEF IInv

(* The invariant holds throughout.                                         *)
LEMMA Invariance == Spec => []IInv
<1>1. IInv /\ [Next]_vars => IInv'
  BY ControlStep, BatchStep, WalkStep DEF IInv
<1>2. QED
  BY <1>1, Initially, PTL DEF Spec

-----------------------------------------------------------------------------
(* Batches do not mix up directories: whatever the batch size and wherever *)
(* a batch ends, the attributes merged into an entry are those of the      *)
(* entry's own directory.                                                  *)
THEOREM AttributesAligned == Spec => []MergedAligned
<1>1. IInv => MergedAligned
  BY DEF IInv, Batching
<1>2. QED
  BY <1>1, Invariance, PTL

(* The assertion of execute() on dir_q_ can only fail after a task that    *)
(* could not stat an entry of the directory it began at.                   *)
THEOREM LeftoverOnlyAfterStat == Spec => []LeftoverExplained
<1>1. IInv => LeftoverExplained
  BY DEF IInv, Batching, Drained, LeftoverExplained
<1>2. QED
  BY <1>1, Invariance, PTL

(* A task that ends without error has asked every server about every       *)
(* directory it lists.                                                     *)
THEOREM EveryDirAsked == Spec => []NoDirForgotten
<1>1. IInv => NoDirForgotten
  <2> SUFFICES ASSUME IInv, pc \in {"finish", "loop"}, ret = "S_SUCCESS",
                      NEW i \in 1 .. Len(diffs), diffs[i].is_dir
               PROVE  diffs[i].servers # NoServers
    BY DEF NoDirForgotten
  <2>1. dirQ = << >>
    BY DEF IInv, Batching, Drained
  <2>2. QED
    BY <2>1 DEF IInv, Batching, Awaiting
<1>2. QED
  BY <1>1, Invariance, PTL

(* A task that ends without error lists nothing twice, and lists every     *)
(* regular file, and every subdirectory whose type readdir reports, of     *)
(* each directory it reached and could read: for every tree, every choice  *)
(* of entries of unknown type, every order of readdir and every failure    *)
(* below.  Of a subdirectory of unknown type it says nothing: the code     *)
(* skips it.                                                               *)
THEOREM NothingMissed == Spec => []WalkComplete
<1>1. IInv => WalkComplete
  <2> SUFFICES ASSUME IInv, pc \in {"finish", "loop"}, ret = "S_SUCCESS"
               PROVE  /\ Cardinality(Listed) = Len(diffs)
                      /\ \A d \in Walked \ Unread :
                            {n \in Children[d] : Owed(n)} \subseteq Listed
    BY DEF WalkComplete
  <2>1. Cardinality(Listed) = Len(diffs)
    <3>1. Len(diffs) \in Nat
      BY SeqBounds DEF IInv, Control, JobType
    <3> DEFINE N == 1 .. Len(diffs)
               f == [i \in N |-> diffs[i].node]
    <3>2. f \in [N -> Listed] /\ \A y \in Listed : \E i \in N : f[i] = y
      BY DEF Listed
    <3>3. \A i, j \in N : f[i] = f[j] => i = j
      BY DEF IInv, Walking, Distinct
    <3>4. IsFiniteSet(N) /\ Cardinality(N) = Len(diffs)
      <4>1. /\ IsFiniteSet(1 .. Len(diffs))
            /\ Cardinality(1 .. Len(diffs))
                  = IF 1 > Len(diffs) THEN 0 ELSE Len(diffs) - 1 + 1
        BY SMTT(30), <3>1, FS_Interval
      <4>2. QED
        BY <3>1, <4>1
    <3> HIDE DEF f, N
    <3>5. f \in Bijection(N, Listed)
      BY <3>2, <3>3 DEF Bijection, Injection, Surjection, IsInjective
    <3>6. ExistsBijection(N, Listed)
      BY <3>5 DEF ExistsBijection
    <3>7. QED
      BY <3>4, <3>6, FS_Bijection
  <2>2. ASSUME NEW d \in Walked \ Unread, NEW n \in Children[d],
               Owed(n)
        PROVE  n \in Listed
    <3>1. stack = << >> /\ child = None /\ Going
      BY DEF IInv, Control, Places, Going
    <3>2. d # child
      BY <3>1, WalkedNodes, NoneAssumption DEF IInv
    <3>3. n \in Listed \/ ToRead(d, n)
      BY <2>2, <3>1, <3>2 DEF IInv, Walking, Covered
    <3>4. ~ToRead(d, n)
      BY <3>1 DEF ToRead
    <3>5. QED
      BY <3>3, <3>4
  <2>3. QED
    BY <2>1, <2>2
<1>2. QED
  BY <1>1, Invariance, PTL
=============================================================================
