-------------------------- MODULE HttpServerProof --------------------------
(***************************************************************************)
(* Theorems about wfrest's server: the task that runs a request            *)
(* (ServerTask) and the router that finds its handler (Router).            *)
(*                                                                         *)
(* Aspects guard their handler and are told of its end, for every list of  *)
(* global aspects, every set of routes with any number of aspects of their *)
(* own, and any number of requests on a connection.  These properties      *)
(* speak of the log of calls alone.  The inductive invariant ties it to    *)
(* what will still happen: a compute queue's pending handler (subtasks),   *)
(* the loop over the aspects (at), and the callbacks that are left (cbs).  *)
(* The keep-alive rules hold for a header of any length: what KeepAlive    *)
(* computes is proved by induction over the header.                        *)
(*                                                                         *)
(* The router's properties speak of one table and all requests.  The       *)
(* invariant of the tables is that they are trees with one handler for a   *)
(* node and a verb, and that they hold what the program asked for; what    *)
(* find returns is proved by induction over the nodes it may reach, the    *)
(* longest first.                                                          *)
(***************************************************************************)
EXTENDS Router, ServerTask, FiniteSetTheorems, SequenceTheorems, TLAPS

Whats == {"before", "handler", "reply", "after", "track"}
Whos == STRING \cup {"handler", "reply", "track"}
LogEntry == [what : Whats, who : Whos, ok : BOOLEAN]

TaskType ==
    /\ req \in Requests
    /\ globals \in GlobalLists
    /\ log \in Seq(LogEntry)
    /\ at \in Nat
    /\ pc \in {"idle", "process", "before", "series", "callbacks", "closed"}
    /\ pc \in {"before", "callbacks"} => at >= 1
    /\ subtasks \in {<< >>, <<"go">>, <<"io">>}

(* The before of the k-th aspect was called and said yes.                  *)
Passed(k) == \E i \in Calls("before") : log[i].who = Chain[k] /\ log[i].ok

(* The handler was called or a compute queue will call it.                 *)
HandlerDue == Calls("handler") # {} \/ subtasks = <<"go">>

(* Up to the reply: a handler still to be called has been let through.     *)
Proceeding ==
    /\ pc # "series" => subtasks = << >>
    /\ pc \in {"process", "before"} => Calls("handler") = {}
    /\ pc = "before" /\ Guarded => \A k \in 1 .. Len(Chain) : k < at => Passed(k)
    /\ subtasks = <<"go">> =>
           /\ Calls("handler") = {}
           /\ Guarded => \A k \in 1 .. Len(Chain) : Passed(k)
    /\ pc \in {"process", "before", "series"} =>
           Calls("reply") = {} /\ Calls("after") = {}
    /\ pc = "callbacks" => Calls("reply") # {}

Afters(k) == {i \in Calls("after") : log[i].who = Chain[k]}

(* The k-th aspect has had its after, or was skipped by a false.           *)
Served(k) ==
    \/ \E i \in 1 .. Len(log) : Afters(k) = {i}
    \/ /\ Afters(k) = {} /\ k <= Len(req.own)
       /\ \E i \in Calls("after") : ~log[i].ok /\ log[i].who \in Range(req.own)

AllServed == \A k \in 1 .. Len(Chain) : Served(k)

(* From the handler on: the afters are called, in the loop or already.     *)
AfterCare ==
    /\ tuple = "live" => Guarded
    /\ pc = "series" /\ HandlerDue => cbs = AspectCallback
    /\ pc = "callbacks" /\ HandlerDue =>
           \/ /\ cbs = AspectCallback
              /\ \A k \in 1 .. Len(Chain) :
                     IF k < at THEN Served(k) ELSE Afters(k) = {}
           \/ cbs \in {Tracked, << >>} /\ AllServed /\ tuple # "live"
    /\ pc \in {"idle", "closed"} /\ HandlerDue => AllServed /\ tuple # "live"

AfterReply == \A a \in Calls("after") : \E i \in Calls("reply") : i < a

IInv == TaskType /\ Proceeding /\ HandlerGuarded /\ AfterReply /\ AfterCare

-----------------------------------------------------------------------------
(* Lists                                                                   *)

(* The chain of aspects: the route's own, then the global ones, each once. *)
LEMMA ChainFacts ==
    ASSUME TaskType
    PROVE  /\ req.own \in Seq(STRING) /\ globals \in Seq(STRING)
           /\ Chain \in Seq(STRING) /\ Len(Chain) \in Nat
           /\ Len(req.own) \in Nat /\ Len(req.own) <= Len(Chain)
           /\ \A k \in 1 .. Len(Chain) : Chain[k] \in STRING
           /\ \A k \in 1 .. Len(req.own) : Chain[k] = req.own[k]
           /\ \A i, j \in 1 .. Len(Chain) : Chain[i] = Chain[j] => i = j
           /\ ~Guarded /\ globals = << >> => Chain = << >>
<1>1. req.own \in Seq(STRING) /\ globals \in Seq(STRING)
  BY RequestsAssumption, AspectsAssumption DEF TaskType
<1>2. \A i, j \in 1 .. Len(Chain) : Chain[i] = Chain[j] => i = j
  <2>1. req \in Requests /\ globals \in GlobalLists
    BY DEF TaskType
  <2>2. \A i, j \in 1 .. Len(req.own \o globals) :
            (req.own \o globals)[i] = (req.own \o globals)[j] => i = j
    BY <2>1, AspectsAssumption, Zenon
  <2>3. QED
    BY <2>2 DEF Chain
<1>3. /\ Chain \in Seq(STRING) /\ Len(Chain) = Len(req.own) + Len(globals)
      /\ \A k \in 1 .. Len(req.own) : Chain[k] = req.own[k]
  BY <1>1 DEF Chain
<1>4. Len(req.own) \in Nat /\ Len(globals) \in Nat
  BY <1>1
<1>5. \A k \in 1 .. Len(Chain) : Chain[k] \in STRING
  BY <1>3
<1>6. ~Guarded /\ globals = << >> => Chain = << >>
  <2>1. << >> \o << >> = << >>
    OBVIOUS
  <2>2. QED
    BY <2>1 DEF Guarded, Chain
<1>7. QED
  BY <1>1, <1>2, <1>3, <1>4, <1>5, <1>6

(* Lists of one element.                                                   *)
LEMMA Singleton ==
    ASSUME NEW S, NEW x \in S
    PROVE  /\ <<x>> \in Seq(S) /\ <<x>> # << >>
           /\ Head(<<x>>) = x /\ Tail(<<x>>) = << >>
  OBVIOUS

(* Lists of two.                                                           *)
LEMMA Pair ==
    ASSUME NEW S, NEW x \in S, NEW y \in S
    PROVE  /\ <<x>> \o <<y>> # << >> /\ Head(<<x>> \o <<y>>) = x
           /\ Tail(<<x>> \o <<y>>) = <<y>> /\ << >> \o <<y>> = <<y>>
<1> DEFINE q == <<x>>
<1>1. q \in Seq(S) /\ q # << >> /\ Head(q) = x /\ Tail(q) = << >>
  BY Singleton
<1> HIDE DEF q
<1>2. Append(q, y) = q \o <<y>>
  BY <1>1, AppendIsConcat
<1>3. /\ Head(Append(q, y)) = Head(q) /\ Tail(Append(q, y)) = Append(Tail(q), y)
      /\ Append(q, y) # << >>
  BY <1>1, HeadTailAppend, AppendProperties
<1>4. Append(<< >>, y) = <<y>> /\ << >> \o <<y>> = <<y>>
  OBVIOUS
<1>5. QED
  BY <1>1, <1>2, <1>3, <1>4 DEF q

(* The callbacks of a request whose handler runs.                          *)
LEMMA CallbackFacts ==
    /\ Guarded \/ globals # << >> =>
           /\ AspectCallback # << >> /\ Head(AspectCallback) = "aspects"
           /\ Tail(AspectCallback) = Tracked
    /\ ~(Guarded \/ globals # << >>) => AspectCallback = Tracked
    /\ Tracked # << >> => Head(Tracked) = "track" /\ Tail(Tracked) = << >>
<1>1. Tracked \in {<<"track">>, << >>}
  BY DEF Tracked
<1>2. ASSUME NEW t \in {<<"track">>, << >>}
      PROVE  /\ <<"aspects">> \o t # << >> /\ Head(<<"aspects">> \o t) = "aspects"
             /\ Tail(<<"aspects">> \o t) = t
             /\ << >> \o t = t
             /\ t # << >> => Head(t) = "track" /\ Tail(t) = << >>
  <2>1. CASE t = << >>
    BY <2>1
  <2>2. CASE t = <<"track">>
    <3> DEFINE S == {"aspects", "track"}
    <3>1. "aspects" \in S /\ "track" \in S
      OBVIOUS
    <3> HIDE DEF S
    <3>2. QED
      BY <2>2, <3>1, Singleton, Pair
  <2>3. QED
    BY <2>1, <2>2
<1>3. QED
  BY <1>1, <1>2 DEF AspectCallback

(* Queues of at most one task.                                             *)
LEMMA OneTask ==
    /\ Append(<< >>, "go") = <<"go">> /\ Append(<< >>, "io") = <<"io">>
    /\ Head(<<"go">>) = "go" /\ Head(<<"io">>) = "io"
    /\ Tail(<<"go">>) = << >> /\ Tail(<<"io">>) = << >>
    /\ <<"go">> # << >> /\ <<"io">> # << >> /\ <<"go">> # <<"io">>
  OBVIOUS

(* A call is logged at the end, under its name only.                       *)
LEMMA LogGrows ==
    ASSUME log \in Seq(LogEntry), NEW w \in Whats, NEW x \in Whos,
           NEW y \in BOOLEAN, Log(w, x, y)
    PROVE  /\ log' \in Seq(LogEntry) /\ Len(log) \in Nat
           /\ Len(log') = Len(log) + 1
           /\ \A i \in 1 .. Len(log) : log'[i] = log[i]
           /\ log'[Len(log) + 1].who = x /\ log'[Len(log) + 1].ok = y
           /\ Calls(w)' = Calls(w) \cup {Len(log) + 1}
           /\ \A v : v # w => Calls(v)' = Calls(v)
           /\ \A v : \A i \in Calls(v) : i \in 1 .. Len(log)
<1> DEFINE e == Call(w, x, y)
<1>1. e \in LogEntry /\ e.what = w /\ e.who = x /\ e.ok = y
  BY DEF Call, LogEntry
<1>2. log' = Append(log, e)
  BY DEF Log
<1> HIDE DEF e
<1>3. /\ log' \in Seq(LogEntry) /\ Len(log) \in Nat /\ Len(log') = Len(log) + 1
      /\ \A i \in 1 .. Len(log) : log'[i] = log[i]
      /\ log'[Len(log) + 1] = e
  BY <1>1, <1>2
<1>4. Calls(w)' = Calls(w) \cup {Len(log) + 1}
  BY <1>1, <1>3 DEF Calls
<1>5. \A v : v # w => Calls(v)' = Calls(v)
  BY <1>1, <1>3 DEF Calls
<1>6. \A v : \A i \in Calls(v) : i \in 1 .. Len(log)
  BY DEF Calls
<1>7. QED
  BY <1>1, <1>3, <1>4, <1>5, <1>6

(* Steps that log nothing, for the same request.                           *)
LEMMA LogKept ==
    ASSUME IInv, UNCHANGED <<log, req, globals>>
    PROVE  /\ HandlerGuarded' /\ AfterReply'
           /\ Chain' = Chain /\ (Guarded' <=> Guarded)
           /\ \A v : Calls(v)' = Calls(v)
           /\ \A k : /\ Passed(k)' <=> Passed(k)
                     /\ Served(k)' <=> Served(k)
                     /\ Afters(k)' = Afters(k)
           /\ AllServed' <=> AllServed
<1>1. Chain' = Chain /\ (Guarded' <=> Guarded)
  BY DEF Chain, Guarded
<1>2. \A v : Calls(v)' = Calls(v)
  BY DEF Calls
<1>3. HandlerGuarded'
  BY <1>1, <1>2 DEF IInv, HandlerGuarded
<1>4. AfterReply'
  BY <1>2 DEF IInv, AfterReply
<1>5. \A k : (Passed(k)' <=> Passed(k)) /\ Afters(k)' = Afters(k)
  BY <1>1, <1>2 DEF Passed, Afters
<1>6. \A k : Served(k)' <=> Served(k)
  BY <1>2, <1>5 DEF Served
<1>7. AllServed' <=> AllServed
  BY <1>1, <1>6 DEF AllServed
<1>8. QED
  BY <1>1, <1>2, <1>3, <1>4, <1>5, <1>6, <1>7

-----------------------------------------------------------------------------
(* Steps that log nothing                                                  *)

(* A new request begins with an empty log.                                 *)
LEMMA ReceiveStep == ASSUME IInv, NEW r \in Requests, Receive(r) PROVE IInv'
<1>1. /\ pc = "idle" /\ pc' = "process" /\ req' \in Requests /\ log' = << >>
      /\ at' = 0 /\ tuple' = "none" /\ UNCHANGED <<globals, subtasks>>
  BY DEF Receive
<1>2. subtasks' = << >>
  BY <1>1 DEF IInv, Proceeding
<1>3. \A v : Calls(v)' = {}
  BY <1>1 DEF Calls
<1>4. TaskType'
  BY <1>1, <1>2 DEF IInv, TaskType
<1>5. subtasks' # <<"go">>
  BY <1>2, OneTask
<1>6. Proceeding'
  BY <1>1, <1>2, <1>3, <1>5 DEF Proceeding
<1>7. HandlerGuarded' /\ AfterReply'
  BY <1>3 DEF HandlerGuarded, AfterReply
<1>8. AfterCare'
  BY <1>1, <1>3, <1>5 DEF AfterCare, HandlerDue
<1>9. QED
  BY <1>4, <1>6, <1>7, <1>8 DEF IInv

(* The connection is closed, or nothing happens.                           *)
LEMMA IdleStep == ASSUME IInv, Disconnect \/ UNCHANGED vars PROVE IInv'
<1>1. /\ UNCHANGED <<log, req, globals, at, subtasks, tuple, cbs, track>>
      /\ \/ pc = "idle" /\ pc' = "closed"
         \/ pc' = pc
  BY DEF Disconnect, vars
<1>2. /\ HandlerGuarded' /\ AfterReply'
      /\ Chain' = Chain /\ (Guarded' <=> Guarded)
      /\ \A v : Calls(v)' = Calls(v)
      /\ \A k : /\ Passed(k)' <=> Passed(k)
                /\ Served(k)' <=> Served(k)
                /\ Afters(k)' = Afters(k)
      /\ AllServed' <=> AllServed
  BY <1>1, LogKept
<1>3. TaskType'
  BY <1>1 DEF IInv, TaskType
<1>4. Proceeding'
  BY <1>1, <1>2 DEF IInv, Proceeding
<1>5. AspectCallback' = AspectCallback /\ Tracked' = Tracked
  BY <1>1 DEF AspectCallback, Tracked, Guarded
<1>6. HandlerDue' <=> HandlerDue
  BY <1>1, <1>2 DEF HandlerDue
<1>7. AfterCare'
  <2>1. CASE pc' = pc
    BY <1>1, <1>2, <1>5, <1>6, <2>1 DEF IInv, AfterCare
  <2>2. CASE pc = "idle" /\ pc' = "closed"
    BY <1>1, <1>2, <1>5, <1>6, <2>2 DEF IInv, AfterCare
  <2>3. QED
    BY <1>1, <2>1, <2>2
<1>8. QED
  BY <1>2, <1>3, <1>4, <1>7 DEF IInv

(* process: no handler is due until the aspects have been asked.           *)
LEMMA ProcessStep == ASSUME IInv, process PROVE IInv'
<1>1. /\ pc = "process" /\ pc' \in {"before", "series"}
      /\ UNCHANGED <<log, req, globals, subtasks>>
      /\ pc' = "before" => at' = 1
      /\ at' \in {1, at}
      /\ tuple' = "live" => Guarded \/ tuple = "live"
  BY DEF process, Guarded
<1>2. /\ HandlerGuarded' /\ AfterReply' /\ (Guarded' <=> Guarded)
      /\ \A v : Calls(v)' = Calls(v)
  BY <1>1, LogKept
<1>3. /\ subtasks = << >> /\ Calls("handler") = {}
      /\ Calls("reply") = {} /\ Calls("after") = {}
  BY <1>1 DEF IInv, Proceeding
<1>4. TaskType'
  BY <1>1 DEF IInv, TaskType
<1>5. subtasks' # <<"go">>
  BY <1>1, <1>3, OneTask
<1>6. Proceeding'
  <2>1. \A k \in 1 .. Len(Chain') : ~(k < 1)
    OBVIOUS
  <2>2. QED
    BY <1>1, <1>2, <1>3, <1>5, <2>1 DEF Proceeding
<1>7. AfterCare'
  BY <1>1, <1>2, <1>3, <1>5 DEF IInv, AfterCare, HandlerDue
<1>8. QED
  BY <1>2, <1>4, <1>6, <1>7 DEF IInv

(* When the loop over the aspects is over, each has been served.           *)
LEMMA AspectsDoneStep == ASSUME IInv, AspectsDone PROVE IInv'
<1>1. /\ pc = "callbacks" /\ cbs # << >> /\ Head(cbs) = "aspects"
      /\ at > Len(Chain) /\ cbs' = Tail(cbs) /\ tuple' # "live"
      /\ UNCHANGED <<globals, track, pc, req, at, log, subtasks>>
  BY DEF AspectsDone
<1>2. /\ HandlerGuarded' /\ AfterReply'
      /\ Chain' = Chain /\ (Guarded' <=> Guarded)
      /\ \A v : Calls(v)' = Calls(v)
      /\ \A k : Passed(k)' <=> Passed(k)
      /\ AllServed' <=> AllServed
  BY <1>1, LogKept
<1>3. TaskType'
  BY <1>1 DEF IInv, TaskType
<1>4. Proceeding'
  BY <1>1, <1>2 DEF IInv, Proceeding
<1>5. Tracked' = Tracked /\ (HandlerDue' <=> HandlerDue)
  BY <1>1, <1>2 DEF Tracked, HandlerDue
<1>6. ASSUME HandlerDue PROVE AllServed /\ cbs' = Tracked
  <2>1. cbs = AspectCallback
        /\ \A k \in 1 .. Len(Chain) : IF k < at THEN Served(k) ELSE Afters(k) = {}
    BY <1>1, <1>6, CallbackFacts DEF IInv, AfterCare
  <2>2. \A k \in 1 .. Len(Chain) : k < at
    BY <1>1, ChainFacts DEF IInv, TaskType
  <2>3. Guarded \/ globals # << >>
    BY <1>1, <2>1, CallbackFacts
  <2>4. QED
    BY <1>1, <2>1, <2>2, <2>3, CallbackFacts DEF AllServed
<1>7. AfterCare'
  BY <1>1, <1>2, <1>5, <1>6 DEF AfterCare
<1>8. QED
  BY <1>2, <1>3, <1>4, <1>7 DEF IInv

(* The request is done when no callback is left.                           *)
LEMMA DoneStep == ASSUME IInv, Done PROVE IInv'
<1>1. /\ pc = "callbacks" /\ cbs = << >> /\ pc' \in {"idle", "closed"}
      /\ UNCHANGED <<globals, req, at, log, subtasks, tuple, cbs>>
  BY DEF Done
<1>2. /\ HandlerGuarded' /\ AfterReply' /\ (Guarded' <=> Guarded)
      /\ \A v : Calls(v)' = Calls(v)
      /\ AllServed' <=> AllServed
  BY <1>1, LogKept
<1>3. TaskType'
  BY <1>1 DEF IInv, TaskType
<1>4. subtasks = << >> /\ subtasks' # <<"go">>
  BY <1>1, OneTask DEF IInv, Proceeding
<1>5. Proceeding'
  BY <1>1, <1>2, <1>4 DEF Proceeding
<1>6. HandlerDue' <=> HandlerDue
  BY <1>1, <1>2 DEF HandlerDue
<1>7. ASSUME HandlerDue PROVE AllServed /\ tuple # "live"
  <2>1. CASE cbs = AspectCallback
    <3>1. ~Guarded /\ globals = << >>
      BY <1>1, <2>1, CallbackFacts
    <3>2. Chain = << >>
      BY <3>1, ChainFacts DEF IInv
    <3>3. QED
      BY <3>1, <3>2 DEF AllServed, IInv, AfterCare
  <2>2. CASE AllServed /\ tuple # "live"
    BY <2>2
  <2>3. QED
    BY <1>1, <1>7, <2>1, <2>2 DEF IInv, AfterCare
<1>8. AfterCare'
  BY <1>1, <1>2, <1>6, <1>7 DEF IInv, AfterCare
<1>9. QED
  BY <1>2, <1>3, <1>5, <1>8 DEF IInv

-----------------------------------------------------------------------------
(* Steps that log a call                                                   *)

(* What was passed stays passed.                                           *)
LEMMA PassedKept ==
    ASSUME IInv, UNCHANGED <<req, globals>>, NEW w \in Whats, NEW x \in Whos,
           NEW y \in BOOLEAN, Log(w, x, y), NEW k, Passed(k)
    PROVE  Passed(k)'
<1>1. /\ \A i \in 1 .. Len(log) : log'[i] = log[i]
      /\ Calls("before") \subseteq Calls("before")'
      /\ \A i \in Calls("before") : i \in 1 .. Len(log)
  <2>1. log \in Seq(LogEntry)
    BY DEF IInv, TaskType
  <2>2. /\ \A i \in 1 .. Len(log) : log'[i] = log[i]
        /\ Calls(w)' = Calls(w) \cup {Len(log) + 1}
        /\ \A v : v # w => Calls(v)' = Calls(v)
        /\ \A v : \A i \in Calls(v) : i \in 1 .. Len(log)
    BY <2>1, LogGrows
  <2>3. QED
    BY <2>2
<1>2. Chain' = Chain
  BY DEF Chain
<1>3. PICK i \in Calls("before") : log[i].who = Chain[k] /\ log[i].ok
  BY DEF Passed
<1>4. i \in Calls("before")' /\ log'[i] = log[i]
  BY <1>1, <1>3
<1>5. QED
  BY <1>2, <1>3, <1>4 DEF Passed

(* Logging anything but a handler leaves the handlers guarded.             *)
LEMMA GuardKept ==
    ASSUME IInv, UNCHANGED <<req, globals>>, NEW w \in Whats \ {"handler"},
           NEW x \in Whos, NEW y \in BOOLEAN, Log(w, x, y)
    PROVE  HandlerGuarded'
<1>1. log \in Seq(LogEntry)
  BY DEF IInv, TaskType
<1>2. /\ Len(log) \in Nat
      /\ \A i \in 1 .. Len(log) : log'[i] = log[i]
      /\ Calls(w)' = Calls(w) \cup {Len(log) + 1}
      /\ \A v : v # w => Calls(v)' = Calls(v)
      /\ \A v : \A i \in Calls(v) : i \in 1 .. Len(log)
  BY <1>1, LogGrows
<1>3. Chain' = Chain /\ (Guarded' <=> Guarded)
  BY DEF Chain, Guarded
<1>4. Calls("handler")' = Calls("handler")
  BY <1>2
<1> SUFFICES ASSUME NEW h \in Calls("handler")
             PROVE  /\ Guarded => \A k \in 1 .. Len(Chain) :
                           \E i \in Calls("before")' :
                               i < h /\ log'[i].who = Chain[k] /\ log'[i].ok
                    /\ Calls("handler") = {h}
                    /\ \A i \in Calls("reply")' : h < i
  BY <1>3, <1>4 DEF HandlerGuarded
<1>5. ASSUME Guarded, NEW k \in 1 .. Len(Chain)
      PROVE  \E i \in Calls("before")' :
                 i < h /\ log'[i].who = Chain[k] /\ log'[i].ok
  <2>1. PICK i \in Calls("before") :
          i < h /\ log[i].who = Chain[k] /\ log[i].ok
    BY <1>5 DEF IInv, HandlerGuarded
  <2>2. i \in Calls("before")' /\ log'[i] = log[i]
    BY <1>2, <2>1
  <2>3. QED
    BY <2>1, <2>2
<1>6. Calls("handler") = {h} /\ \A i \in Calls("reply") : h < i
  BY DEF IInv, HandlerGuarded
<1>7. \A i \in Calls("reply")' : h < i
  <2>1. h < Len(log) + 1
    BY <1>2
  <2>2. \A i \in Calls("reply")' : i \in Calls("reply") \/ i = Len(log) + 1
    BY <1>2
  <2>3. QED
    BY <1>6, <2>1, <2>2
<1>8. QED
  BY <1>5, <1>6, <1>7

(* before: either the request is refused, or one more aspect has agreed.   *)
LEMMA BeforeStep == ASSUME IInv, NEW ok \in BOOLEAN, Before(ok) PROVE IInv'
<1>1. /\ pc = "before" /\ at <= Len(Chain) /\ Log("before", Chain[at], ok)
      /\ at' = at + 1 /\ UNCHANGED <<globals, req, tuple, subtasks>>
      /\ pc' \in {"before", "series"}
      /\ pc' = "before" => ~(Guarded /\ ~ok)
  BY DEF Before, StopsAt
<1>2. at \in 1 .. Len(Chain) /\ Chain[at] \in Whos /\ "before" \in Whats \ {"handler"}
      /\ at \in Nat
  BY <1>1, ChainFacts DEF IInv, TaskType, Whos, Whats
<1>3. log \in Seq(LogEntry)
  BY DEF IInv, TaskType
<1>4. /\ log' \in Seq(LogEntry) /\ Len(log) \in Nat
      /\ log'[Len(log) + 1].who = Chain[at] /\ log'[Len(log) + 1].ok = ok
      /\ Calls("before")' = Calls("before") \cup {Len(log) + 1}
      /\ \A v : v # "before" => Calls(v)' = Calls(v)
  BY <1>1, <1>2, <1>3, LogGrows
<1>5. Chain' = Chain /\ (Guarded' <=> Guarded)
  BY <1>1 DEF Chain, Guarded
<1>6. /\ subtasks = << >> /\ Calls("handler") = {}
      /\ Calls("reply") = {} /\ Calls("after") = {}
  BY <1>1 DEF IInv, Proceeding
<1>7. subtasks' # <<"go">>
  BY <1>1, <1>6, OneTask
<1>8. TaskType'
  BY <1>1, <1>2, <1>4 DEF IInv, TaskType
<1>9. ASSUME pc' = "before", Guarded, NEW k \in 1 .. Len(Chain), k < at'
      PROVE  Passed(k)'
  <2>1. CASE k < at
    <3>1. Passed(k)
      BY <1>1, <1>9, <2>1 DEF IInv, Proceeding
    <3>2. QED
      BY <1>1, <1>2, <3>1, PassedKept
  <2>2. CASE k = at
    <3>1. ok = TRUE
      BY <1>1, <1>9
    <3>2. QED
      BY <1>4, <1>5, <2>2, <3>1 DEF Passed
  <2>3. QED
    BY <1>1, <1>2, <1>9, <2>1, <2>2
<1>10. Proceeding'
  BY <1>1, <1>4, <1>5, <1>6, <1>7, <1>9 DEF Proceeding
<1>11. HandlerGuarded'
  BY <1>1, <1>2, GuardKept
<1>12. AfterReply'
  BY <1>4, <1>6 DEF AfterReply
<1>13. AfterCare'
  BY <1>1, <1>4, <1>5, <1>6, <1>7 DEF IInv, AfterCare, HandlerDue
<1>14. QED
  BY <1>8, <1>10, <1>11, <1>12, <1>13 DEF IInv

(* The handler itself runs, now or from the compute queue: no other has,   *)
(* and every aspect has agreed.                                            *)
LEMMA HandlerRuns ==
    ASSUME IInv, RunHandler(<< >>), UNCHANGED <<req, globals, tuple, at, track>>,
           Calls("handler") = {}, Calls("reply") = {}, Calls("after") = {},
           Guarded => \A k \in 1 .. Len(Chain) : Passed(k),
           pc' = "series", cbs' = AspectCallback
    PROVE  IInv'
<1>1. log \in Seq(LogEntry) /\ "handler" \in Whats /\ "handler" \in Whos
      /\ TRUE \in BOOLEAN /\ Log("handler", "handler", TRUE)
  BY DEF IInv, TaskType, Whats, Whos, RunHandler
<1>2. /\ log' \in Seq(LogEntry) /\ Len(log) \in Nat
      /\ \A i \in 1 .. Len(log) : log'[i] = log[i]
      /\ Calls("handler")' = Calls("handler") \cup {Len(log) + 1}
      /\ \A v : v # "handler" => Calls(v)' = Calls(v)
      /\ \A v : \A i \in Calls(v) : i \in 1 .. Len(log)
  BY <1>1, LogGrows
<1>3. subtasks' \in {<< >>, <<"io">>} /\ subtasks' # <<"go">>
  BY OneTask DEF RunHandler
<1>4. Chain' = Chain /\ (Guarded' <=> Guarded) /\ AspectCallback' = AspectCallback
  BY DEF Chain, Guarded, AspectCallback, Tracked
<1>5. TaskType'
  BY <1>2, <1>3 DEF IInv, TaskType
<1>6. Proceeding'
  BY <1>2, <1>3 DEF Proceeding
<1>7. HandlerGuarded'
  <2>1. Calls("handler")' = {Len(log) + 1} /\ Calls("reply")' = {}
        /\ Calls("before")' = Calls("before")
    BY <1>2
  <2>2. ASSUME Guarded, NEW k \in 1 .. Len(Chain)
        PROVE  \E i \in Calls("before") :
                   i < Len(log) + 1 /\ log'[i].who = Chain[k] /\ log'[i].ok
    <3>1. PICK i \in Calls("before") : log[i].who = Chain[k] /\ log[i].ok
      BY <2>2 DEF Passed
    <3>2. i < Len(log) + 1 /\ log'[i] = log[i]
      BY <1>2, <3>1
    <3>3. QED
      BY <3>1, <3>2
  <2>3. QED
    BY <1>4, <2>1, <2>2 DEF HandlerGuarded
<1>8. AfterReply'
  BY <1>2 DEF AfterReply
<1>9. AfterCare'
  BY <1>4 DEF IInv, AfterCare
<1>10. QED
  BY <1>5, <1>6, <1>7, <1>8, <1>9 DEF IInv

(* The wrapper calls the handler or queues it.                             *)
LEMMA HandleStep == ASSUME IInv, Handle PROVE IInv'
<1>1. /\ pc = "before" /\ at > Len(Chain) /\ pc' = "series"
      /\ cbs' = AspectCallback /\ UNCHANGED <<globals, track, req, at, tuple>>
  BY DEF Handle
<1>2. /\ subtasks = << >> /\ Calls("handler") = {}
      /\ Calls("reply") = {} /\ Calls("after") = {}
  BY <1>1 DEF IInv, Proceeding
<1>3. Guarded => \A k \in 1 .. Len(Chain) : Passed(k)
  <2>1. \A k \in 1 .. Len(Chain) : k < at
    BY <1>1, ChainFacts DEF IInv, TaskType
  <2>2. QED
    BY <1>1, <2>1 DEF IInv, Proceeding
<1>4. CASE ~req.compute
  <2>1. RunHandler(<< >>)
    BY <1>2, <1>4 DEF Handle
  <2>2. QED
    BY <1>1, <1>2, <1>3, <2>1, HandlerRuns
<1>5. CASE req.compute
  <2>1. subtasks' = <<"go">> /\ log' = log
    BY <1>2, <1>5, OneTask DEF Handle
  <2>2. /\ HandlerGuarded' /\ AfterReply'
        /\ Chain' = Chain /\ (Guarded' <=> Guarded)
        /\ \A v : Calls(v)' = Calls(v)
        /\ \A k : Passed(k)' <=> Passed(k)
    BY <1>1, <2>1, LogKept
  <2>3. TaskType'
    BY <1>1, <2>1 DEF IInv, TaskType
  <2>4. Proceeding'
    BY <1>1, <1>2, <1>3, <2>1, <2>2 DEF Proceeding
  <2>5. AspectCallback' = AspectCallback
    BY <1>1, <2>2 DEF AspectCallback, Tracked
  <2>6. AfterCare'
    BY <1>1, <2>2, <2>5 DEF IInv, AfterCare
  <2>7. QED
    BY <2>2, <2>3, <2>4, <2>6 DEF IInv
<1>6. QED
  BY <1>4, <1>5

(* The series runs a task: the queued handler, or another.                 *)
LEMMA SubtaskStep == ASSUME IInv, RunSubtask PROVE IInv'
<1>1. /\ pc = "series" /\ pc' = pc /\ subtasks # << >>
      /\ UNCHANGED <<globals, track, req, at, tuple, cbs>>
  BY DEF RunSubtask
<1>2. Calls("reply") = {} /\ Calls("after") = {}
  BY <1>1 DEF IInv, Proceeding
<1>3. CASE subtasks = <<"go">>
  <2>1. RunHandler(<< >>)
    BY <1>3, OneTask DEF RunSubtask
  <2>2. /\ Calls("handler") = {}
        /\ Guarded => \A k \in 1 .. Len(Chain) : Passed(k)
    BY <1>3 DEF IInv, Proceeding
  <2>3. cbs' = AspectCallback
    BY <1>1, <1>3 DEF IInv, AfterCare, HandlerDue
  <2>4. QED
    BY <1>1, <1>2, <2>1, <2>2, <2>3, HandlerRuns
<1>4. CASE subtasks = <<"io">>
  <2>1. subtasks' = << >> /\ log' = log
    BY <1>4, OneTask DEF RunSubtask
  <2>2. /\ HandlerGuarded' /\ AfterReply' /\ (Guarded' <=> Guarded)
        /\ \A v : Calls(v)' = Calls(v)
    BY <1>1, <2>1, LogKept
  <2>3. TaskType'
    BY <1>1, <2>1 DEF IInv, TaskType
  <2>4. subtasks' # <<"go">>
    BY <2>1, OneTask
  <2>5. Proceeding'
    BY <1>1, <1>2, <2>2, <2>4 DEF Proceeding
  <2>6. AspectCallback' = AspectCallback /\ (HandlerDue' => HandlerDue)
    BY <1>1, <2>2, <2>4 DEF AspectCallback, Tracked, HandlerDue
  <2>7. AfterCare'
    BY <1>1, <2>2, <2>6 DEF IInv, AfterCare
  <2>8. QED
    BY <2>2, <2>3, <2>5, <2>7 DEF IInv
<1>5. QED
  BY <1>1, <1>3, <1>4 DEF IInv, TaskType

(* Logging another's call leaves an aspect as served as it was.            *)
LEMMA ServedKept ==
    ASSUME IInv, UNCHANGED <<req, globals>>, NEW w \in Whats, NEW x \in Whos,
           NEW y \in BOOLEAN, Log(w, x, y), NEW k \in 1 .. Len(Chain),
           w # "after" \/ x # Chain[k]
    PROVE  Afters(k)' = Afters(k) /\ (Served(k) => Served(k)')
<1>1. log \in Seq(LogEntry)
  BY DEF IInv, TaskType
<1>2. /\ Len(log) \in Nat /\ Len(log') = Len(log) + 1
      /\ \A i \in 1 .. Len(log) : log'[i] = log[i]
      /\ log'[Len(log) + 1].who = x
      /\ Calls(w)' = Calls(w) \cup {Len(log) + 1}
      /\ \A v : v # w => Calls(v)' = Calls(v)
      /\ \A v : \A i \in Calls(v) : i \in 1 .. Len(log)
  BY <1>1, LogGrows
<1>3. Chain' = Chain
  BY DEF Chain
<1>4. /\ Calls("after") \subseteq Calls("after")'
      /\ \A i \in Calls("after") : log'[i] = log[i]
      /\ \A i \in Calls("after")' :
             i \in Calls("after") \/ (w = "after" /\ i = Len(log) + 1)
  BY <1>2
<1>5. Afters(k)' = Afters(k)
  BY <1>2, <1>3, <1>4 DEF Afters
<1>6. ASSUME Served(k) PROVE Served(k)'
  <2>1. CASE \E i \in 1 .. Len(log) : Afters(k) = {i}
    <3>1. PICK i \in 1 .. Len(log) : Afters(k) = {i}
      BY <2>1
    <3>2. i \in 1 .. Len(log')
      BY <1>2, <3>1
    <3>3. QED
      BY <1>5, <3>1, <3>2 DEF Served
  <2>2. CASE /\ Afters(k) = {} /\ k <= Len(req.own)
             /\ \E i \in Calls("after") : ~log[i].ok /\ log[i].who \in Range(req.own)
    <3>1. PICK i \in Calls("after") : ~log[i].ok /\ log[i].who \in Range(req.own)
      BY <2>2
    <3>2. i \in Calls("after")' /\ log'[i] = log[i]
      BY <1>4, <3>1
    <3>3. QED
      BY <1>5, <2>2, <3>1, <3>2 DEF Served
  <2>3. QED
    BY <1>6, <2>1, <2>2 DEF Served
<1>7. QED
  BY <1>5, <1>6

(* Every after has the reply before it.                                    *)
LEMMA AfterReplyKept ==
    ASSUME IInv, NEW w \in Whats, NEW x \in Whos, NEW y \in BOOLEAN,
           Log(w, x, y), w = "after" => Calls("reply") # {}
    PROVE  AfterReply'
<1>1. log \in Seq(LogEntry)
  BY DEF IInv, TaskType
<1>2. /\ Len(log) \in Nat
      /\ Calls(w)' = Calls(w) \cup {Len(log) + 1}
      /\ \A v : v # w => Calls(v)' = Calls(v)
      /\ \A v : \A i \in Calls(v) : i \in 1 .. Len(log)
  BY <1>1, LogGrows
<1>3. Calls("reply") \subseteq Calls("reply")'
  BY <1>2
<1> SUFFICES ASSUME NEW a \in Calls("after")'
             PROVE  \E i \in Calls("reply")' : i < a
  BY DEF AfterReply
<1>4. CASE a \in Calls("after")
  BY <1>3, <1>4 DEF IInv, AfterReply
<1>5. CASE w = "after" /\ a = Len(log) + 1
  <2>1. PICK i \in Calls("reply") : TRUE
    BY <1>5
  <2>2. i < a
    BY <1>2, <1>5, <2>1
  <2>3. QED
    BY <1>3, <2>1, <2>2
<1>6. QED
  BY <1>2, <1>4, <1>5

(* The reply: the callbacks of a handler that ran begin, none called yet.  *)
LEMMA ReplyStep == ASSUME IInv, NEW ok \in BOOLEAN, Reply(ok) PROVE IInv'
<1>1. /\ pc = "series" /\ subtasks = << >> /\ Log("reply", "reply", ok)
      /\ pc' = "callbacks" /\ at' = 1
      /\ UNCHANGED <<globals, track, req, tuple, subtasks, cbs>>
  BY DEF Reply
<1>2. "reply" \in Whats \ {"handler"} /\ "reply" \in Whos
  BY DEF Whats, Whos
<1>3. log \in Seq(LogEntry)
  BY DEF IInv, TaskType
<1>4. /\ log' \in Seq(LogEntry)
      /\ Calls("reply")' = Calls("reply") \cup {Len(log) + 1}
      /\ \A v : v # "reply" => Calls(v)' = Calls(v)
  BY <1>1, <1>2, <1>3, LogGrows
<1>5. TaskType'
  BY <1>1, <1>4 DEF IInv, TaskType
<1>6. subtasks' = << >> /\ subtasks' # <<"go">>
  BY <1>1, OneTask
<1>7. Proceeding'
  BY <1>1, <1>4, <1>6 DEF Proceeding
<1>8. HandlerGuarded' /\ AfterReply'
  BY <1>1, <1>2, GuardKept, AfterReplyKept
<1>9. /\ AspectCallback' = AspectCallback /\ (Guarded' <=> Guarded)
      /\ HandlerDue' => HandlerDue
  BY <1>1, <1>4, <1>6 DEF AspectCallback, Tracked, Guarded, HandlerDue
<1>10. \A k : Afters(k)' = {}
  <2>1. Calls("after")' = {}
    BY <1>1, <1>4 DEF IInv, Proceeding
  <2>2. QED
    BY <2>1 DEF Afters
<1>11. AfterCare'
  <2>1. \A k \in 1 .. Len(Chain') : ~(k < 1)
    OBVIOUS
  <2>2. HandlerDue' => cbs' = AspectCallback'
    BY <1>1, <1>9 DEF IInv, AfterCare
  <2>3. QED
    BY <1>1, <1>9, <1>10, <2>1, <2>2 DEF IInv, AfterCare
<1>12. QED
  BY <1>5, <1>7, <1>8, <1>11 DEF IInv

(* The tracker is the last callback: the aspects have had theirs.          *)
LEMMA TrackStep == ASSUME IInv, Track PROVE IInv'
<1>1. /\ pc = "callbacks" /\ cbs # << >> /\ Head(cbs) = "track"
      /\ Log("track", "track", TRUE) /\ cbs' = Tail(cbs)
      /\ UNCHANGED <<globals, track, pc, req, at, tuple, subtasks>>
  BY DEF Track
<1>2. "track" \in Whats \ {"handler"} /\ "track" \in Whos /\ TRUE \in BOOLEAN
  BY DEF Whats, Whos
<1>3. log \in Seq(LogEntry)
  BY DEF IInv, TaskType
<1>4. /\ log' \in Seq(LogEntry)
      /\ \A v : v # "track" => Calls(v)' = Calls(v)
  BY <1>1, <1>2, <1>3, LogGrows
<1>5. TaskType'
  BY <1>1, <1>4 DEF IInv, TaskType
<1>6. subtasks' = << >> /\ subtasks' # <<"go">>
  BY <1>1, OneTask DEF IInv, Proceeding
<1>7. Proceeding'
  BY <1>1, <1>4, <1>6 DEF IInv, Proceeding
<1>8. HandlerGuarded' /\ AfterReply'
  BY <1>1, <1>2, GuardKept, AfterReplyKept
<1>9. /\ Chain' = Chain /\ (Guarded' <=> Guarded)
      /\ HandlerDue' => HandlerDue
  BY <1>1, <1>4, <1>6 DEF Chain, Guarded, HandlerDue
<1>10. ASSUME HandlerDue PROVE cbs' = << >> /\ AllServed' /\ tuple # "live"
  <2>1. CASE cbs = AspectCallback
    <3>1. ~Guarded /\ globals = << >> /\ cbs = Tracked
      BY <1>1, <2>1, CallbackFacts
    <3>2. Chain = << >>
      BY <3>1, ChainFacts DEF IInv
    <3>3. cbs' = << >>
      BY <1>1, <3>1, CallbackFacts
    <3>4. QED
      BY <1>9, <3>1, <3>2, <3>3 DEF AllServed, IInv, AfterCare
  <2>2. CASE cbs \in {Tracked, << >>} /\ AllServed /\ tuple # "live"
    <3>1. cbs' = << >>
      BY <1>1, <2>2, CallbackFacts
    <3>2. \A k \in 1 .. Len(Chain) : Served(k)'
      BY <1>1, <1>2, <2>2, ServedKept DEF AllServed
    <3>3. QED
      BY <1>9, <2>2, <3>1, <3>2 DEF AllServed
  <2>3. QED
    BY <1>1, <1>10, <2>1, <2>2 DEF IInv, AfterCare
<1>11. AfterCare'
  BY <1>1, <1>9, <1>10 DEF IInv, AfterCare
<1>12. QED
  BY <1>5, <1>7, <1>8, <1>11 DEF IInv

(* after: the aspect whose turn it is has been served, and a false of one  *)
(* of the route's own serves those it skips.                               *)
LEMMA AfterStep == ASSUME IInv, NEW ok \in BOOLEAN, After(ok) PROVE IInv'
<1>1. /\ pc = "callbacks" /\ cbs # << >> /\ Head(cbs) = "aspects"
      /\ at <= Len(Chain) /\ Log("after", Chain[at], ok) /\ at' = NextAfter(ok)
      /\ UNCHANGED <<globals, track, pc, req, tuple, subtasks, cbs>>
  BY DEF After
<1>2. /\ at \in Nat /\ at \in 1 .. Len(Chain) /\ Chain[at] \in Whos
      /\ "after" \in Whats \ {"handler"}
      /\ Len(Chain) \in Nat /\ Len(req.own) \in Nat
      /\ \A k \in 1 .. Len(req.own) : Chain[k] = req.own[k]
      /\ \A i, j \in 1 .. Len(Chain) : Chain[i] = Chain[j] => i = j
  BY <1>1, ChainFacts DEF IInv, TaskType, Whos, Whats
<1>3. log \in Seq(LogEntry)
  BY DEF IInv, TaskType
<1>4. /\ log' \in Seq(LogEntry) /\ Len(log) \in Nat /\ Len(log') = Len(log) + 1
      /\ \A i \in 1 .. Len(log) : log'[i] = log[i]
      /\ log'[Len(log) + 1].who = Chain[at] /\ log'[Len(log) + 1].ok = ok
      /\ Calls("after")' = Calls("after") \cup {Len(log) + 1}
      /\ \A v : v # "after" => Calls(v)' = Calls(v)
      /\ \A v : \A i \in Calls(v) : i \in 1 .. Len(log)
  BY <1>1, <1>2, <1>3, LogGrows
<1>5. /\ at' \in Nat /\ at' >= at + 1
      /\ \A k \in 1 .. Len(Chain) : k < at' =>
             k <= at \/ (~ok /\ at <= Len(req.own) /\ k <= Len(req.own))
  BY <1>1, <1>2 DEF NextAfter
<1>6. TaskType'
  BY <1>1, <1>2, <1>4, <1>5 DEF IInv, TaskType
<1>7. subtasks' = << >> /\ subtasks' # <<"go">>
  BY <1>1, OneTask DEF IInv, Proceeding
<1>8. Proceeding'
  BY <1>1, <1>4, <1>7 DEF IInv, Proceeding
<1>9. HandlerGuarded'
  BY <1>1, <1>2, GuardKept
<1>10. AfterReply'
  BY <1>1, <1>2, AfterReplyKept DEF IInv, Proceeding
<1>11. /\ Chain' = Chain /\ (Guarded' <=> Guarded)
       /\ AspectCallback' = AspectCallback /\ (HandlerDue' => HandlerDue)
  BY <1>1, <1>4, <1>7 DEF Chain, Guarded, AspectCallback, Tracked, HandlerDue
<1>12. ASSUME HandlerDue
       PROVE  /\ cbs = AspectCallback
              /\ \A k \in 1 .. Len(Chain) :
                     IF k < at' THEN Served(k)' ELSE Afters(k)' = {}
  <2>1. /\ cbs = AspectCallback
        /\ \A k \in 1 .. Len(Chain) : IF k < at THEN Served(k) ELSE Afters(k) = {}
    BY <1>1, <1>12, CallbackFacts DEF IInv, AfterCare
  <2>2. \A k \in 1 .. Len(Chain) : k # at =>
            Afters(k)' = Afters(k) /\ (Served(k) => Served(k)')
    BY <1>1, <1>2, ServedKept
  <2>3. ASSUME NEW k \in 1 .. Len(Chain), k = at PROVE Served(k)'
    <3>1. Afters(k) = {}
      BY <1>2, <2>1, <2>3
    <3>2. \A i \in Calls("after") : log'[i].who # Chain[k]
      BY <1>4, <3>1 DEF Afters
    <3>3. Afters(k)' = {Len(log) + 1}
      BY <1>4, <1>11, <2>3, <3>2 DEF Afters
    <3>4. Len(log) + 1 \in 1 .. Len(log')
      BY <1>4
    <3>5. QED
      BY <3>3, <3>4 DEF Served
  <2>4. ASSUME NEW k \in 1 .. Len(Chain), ~ok, at <= Len(req.own),
               k <= Len(req.own), k > at
        PROVE  Served(k)'
    <3>1. Afters(k)' = {}
      BY <1>2, <2>1, <2>2, <2>4
    <3>2. Chain[at] \in Range(req.own)
      BY <1>2, <2>4 DEF Range
    <3>3. QED
      BY <1>1, <1>4, <2>4, <3>1, <3>2 DEF Served
  <2>5. ASSUME NEW k \in 1 .. Len(Chain)
        PROVE  IF k < at' THEN Served(k)' ELSE Afters(k)' = {}
    <3>1. CASE k < at
      BY <1>2, <1>5, <2>1, <2>2, <3>1
    <3>2. CASE k = at
      BY <1>2, <1>5, <2>3, <3>2
    <3>3. CASE k > at /\ k < at'
      BY <1>2, <1>5, <2>4, <3>3
    <3>4. CASE k > at /\ ~(k < at')
      BY <1>2, <2>1, <2>2, <3>4
    <3>5. QED
      BY <1>2, <3>1, <3>2, <3>3, <3>4
  <2>6. QED
    BY <2>1, <2>5
<1>13. AfterCare'
  BY <1>1, <1>11, <1>12 DEF IInv, AfterCare
<1>14. QED
  BY <1>6, <1>8, <1>9, <1>10, <1>13 DEF IInv

-----------------------------------------------------------------------------
(* Invariance                                                              *)

(* A connection begins with nothing called.                                *)
LEMMA Initially == Init => IInv
<1> SUFFICES ASSUME Init PROVE IInv
  OBVIOUS
<1>1. \A v : Calls(v) = {}
  BY DEF Init, Calls
<1>2. TaskType
  BY DEF Init, TaskType
<1>3. subtasks = << >> /\ subtasks # <<"go">>
  BY OneTask DEF Init
<1>4. Proceeding
  BY <1>1, <1>3 DEF Init, Proceeding
<1>5. HandlerGuarded /\ AfterReply
  BY <1>1 DEF HandlerGuarded, AfterReply
<1>6. AfterCare
  BY <1>1, <1>3 DEF Init, AfterCare, HandlerDue
<1>7. QED
  BY <1>2, <1>4, <1>5, <1>6 DEF IInv

(* Every step keeps the invariant.                                         *)
LEMMA Inductive == IInv /\ [Next]_vars => IInv'
<1> SUFFICES ASSUME IInv, [Next]_vars PROVE IInv'
  OBVIOUS
<1>1. CASE \E r \in Requests : Receive(r)
  BY <1>1, ReceiveStep
<1>2. CASE Disconnect \/ UNCHANGED vars
  BY <1>2, IdleStep
<1>3. CASE process
  BY <1>3, ProcessStep
<1>4. CASE Handle
  BY <1>4, HandleStep
<1>5. CASE RunSubtask
  BY <1>5, SubtaskStep
<1>6. CASE AspectsDone
  BY <1>6, AspectsDoneStep
<1>7. CASE Track
  BY <1>7, TrackStep
<1>8. CASE Done
  BY <1>8, DoneStep
<1>9. CASE \E ok \in BOOLEAN : Before(ok)
  BY <1>9, BeforeStep
<1>10. CASE \E ok \in BOOLEAN : Reply(ok)
  BY <1>10, ReplyStep
<1>11. CASE \E ok \in BOOLEAN : After(ok)
  BY <1>11, AfterStep
<1>12. QED
  BY <1>1, <1>2, <1>3, <1>4, <1>5, <1>6, <1>7, <1>8, <1>9, <1>10, <1>11
     DEF Next, TaskStep

(* The invariant holds throughout.                                         *)
LEMMA Invariance == Spec => []IInv
  BY Initially, Inductive, PTL DEF Spec

(* The invariant gives the second property: a request that is done has     *)
(* served all its aspects.                                                 *)
LEMMA ServedFollow == IInv => AftersFollowReply
<1> SUFFICES ASSUME IInv PROVE AftersFollowReply
  OBVIOUS
<1>1. \A a \in Calls("after") : \E i \in Calls("reply") : i < a
  BY DEF IInv, AfterReply
<1>2. ASSUME pc \in {"idle", "closed"}, Calls("handler") # {}
      PROVE  AllServed /\ tuple # "live"
  BY <1>2 DEF IInv, AfterCare, HandlerDue
<1>3. ASSUME NEW k \in 1 .. Len(Chain), Served(k)
      PROVE  \/ Cardinality(Afters(k)) = 1
             \/ /\ Afters(k) = {} /\ k <= Len(req.own)
                /\ \E i \in Calls("after") :
                       ~log[i].ok /\ log[i].who \in Range(req.own)
  <2>1. CASE \E i \in 1 .. Len(log) : Afters(k) = {i}
    BY <2>1, FS_Singleton
  <2>2. QED
    BY <1>3, <2>1 DEF Served
<1>4. QED
  BY <1>1, <1>2, <1>3 DEF AftersFollowReply, AllServed, Afters

(* The handler that BluePrint::ROUTE wraps runs at most once, before the   *)
(* reply, and only when every aspect of its route and every global one has *)
(* let the request through, also from a compute queue.                     *)
THEOREM HandlersGuarded == Spec => []HandlerGuarded
<1>1. IInv => HandlerGuarded
  BY DEF IInv
<1>2. QED
  BY <1>1, Invariance, PTL

(* When a request whose handler ran is done, every global aspect's after   *)
(* has been called exactly once, after the reply, and each of the route's  *)
(* own unless an own one returned false; the copy of the aspects is freed. *)
THEOREM AftersAfterReply == Spec => []AftersFollowReply
  BY Invariance, ServedFollow, PTL
-----------------------------------------------------------------------------
(* The Keep-Alive header                                                   *)

(* A set of naturals has a least element: induction on naturals.           *)
LEMMA Least ==
    ASSUME NEW T \in SUBSET Nat, T # {}
    PROVE  \E x \in T : \A y \in T : x <= y
<1> DEFINE R == OpToRel(<, Nat)
<1>1. IsWellFoundedOn(R, Nat)
  BY NatLessThanWellFounded
<1>2. R = {ss \in Nat \X Nat : ss[1] < ss[2]}
  BY DEF OpToRel
<1> HIDE DEF R
<1>3. PICK x \in T : \A y \in T : ~(<<y, x>> \in R)
  BY <1>1, WFMin
<1>4. ASSUME NEW y \in T PROVE x <= y
  <2>1. x \in Nat /\ y \in Nat /\ ~(<<y, x>> \in R)
    BY <1>3
  <2>2. <<y, x>> \in Nat \X Nat /\ <<y, x>>[1] = y /\ <<y, x>>[2] = x
    BY <2>1
  <2>3. ~(y < x)
    BY <1>2, <2>1, <2>2
  <2>4. QED
    BY <2>1, <2>3
<1>5. QED
  BY <1>4

(* What fits into an int is computed as it is; the rest stays an integer.  *)
LEMMA MillisIs ==
    ASSUME NEW v \in Int
    PROVE  /\ Millis(v) \in Int
           /\ MilliSec * v \in Ints => Millis(v) = MilliSec * v
<1> DEFINE x == MilliSec * v
           m == 2 * IntLimit
<1>1. MilliSec \in Int /\ IntLimit \in Nat /\ m \in Nat /\ m > 0
  BY TimeoAssumption
<1>2. x \in Int
  BY <1>1
<1>3. Millis(v) = ((x + IntLimit) % m) - IntLimit
  BY DEF Millis, Wrapped
<1> HIDE DEF x
<1>4. x + IntLimit \in Int
  BY <1>1, <1>2
<1>5. (x + IntLimit) % m \in Int
  <2> HIDE DEF m
  <2>1. QED
    BY <1>1, <1>4
<1>6. ASSUME x \in Ints PROVE (x + IntLimit) % m = x + IntLimit
  <2>1. x + IntLimit \in 0 .. m - 1
    BY <1>1, <1>2, <1>6 DEF Ints
  <2> HIDE DEF m
  <2>2. QED
    BY <1>1, <1>4, <2>1
<1>7. QED
  BY <1>1, <1>2, <1>3, <1>5, <1>6 DEF x

Header == Seq([key : {"timeout", "max", "other"}, val : Ints])
Handled == [seen : SUBSET {"timeout", "max"}, timeo : Int, over : BOOLEAN]

(* Where a key occurs, where first, and whether that is among the first i. *)
Occurs(keep, key) == {j \in 1 .. Len(keep) : keep[j].key = key}
FirstAt(keep, key) ==
    CHOOSE j \in Occurs(keep, key) : \A k \in Occurs(keep, key) : j <= k
Met(keep, key, i) == Occurs(keep, key) # {} /\ FirstAt(keep, key) <= i

(* The first "max" is among the first i parameters and used up.            *)
UsedUp(keep, n, i) == Met(keep, "max", i) /\ n >= keep[FirstAt(keep, "max")].val

(* What the loop of message_out has made of the first i parameters.        *)
Outcome(keep, n, i) ==
    IF UsedUp(keep, n, i) THEN 0
    ELSE IF Met(keep, "timeout", i)
         THEN Millis(keep[FirstAt(keep, "timeout")].val)
    ELSE ServerTimeo

LoopInv(keep, n, i, l) ==
    /\ l \in Handled
    /\ l.timeo = Outcome(keep, n, i)
    /\ l.over <=> \/ UsedUp(keep, n, i)
                  \/ Met(keep, "timeout", i) /\ Met(keep, "max", i)
    /\ ~l.over => l.seen = {key \in {"timeout", "max"} : Met(keep, key, i)}

(* The loop over the first m parameters, as KeepAlive writes it.           *)
Start == [seen |-> {}, timeo |-> ServerTimeo, over |-> FALSE]
IsLoop(keep, n, m, f) ==
    f = [i \in 0 .. m |-> IF i = 0 THEN Start ELSE Parameter(f[i - 1], keep[i], n)]

(* The first occurrence is one, and no other comes before it.              *)
LEMMA FirstIs ==
    ASSUME NEW keep \in Header, NEW key, Occurs(keep, key) # {}
    PROVE  /\ FirstAt(keep, key) \in Occurs(keep, key)
           /\ \A k \in Occurs(keep, key) : FirstAt(keep, key) <= k
<1> DEFINE O == Occurs(keep, key)
<1>1. O \in SUBSET Nat
  BY DEF Occurs, Header
<1> HIDE DEF O
<1>2. \E j \in O : \A k \in O : j <= k
  BY <1>1, Least DEF O
<1>3. QED
  BY <1>2 DEF FirstAt, O

(* The i-th parameter is the first of its key unless that was met before;  *)
(* no other key is met.                                                    *)
LEMMA MetStep ==
    ASSUME NEW keep \in Header, NEW key, NEW i \in 1 .. Len(keep)
    PROVE  /\ Met(keep, key, i - 1) => Met(keep, key, i)
           /\ keep[i].key = key =>
                  /\ Met(keep, key, i)
                  /\ ~Met(keep, key, i - 1) => FirstAt(keep, key) = i
           /\ keep[i].key # key => (Met(keep, key, i) <=> Met(keep, key, i - 1))
<1>1. i \in Nat /\ Len(keep) \in Nat
  BY DEF Header
<1>2. CASE Occurs(keep, key) = {}
  BY <1>1, <1>2 DEF Met, Occurs
<1>3. CASE Occurs(keep, key) # {}
  <2> DEFINE o == FirstAt(keep, key)
  <2>1. /\ o \in 1 .. Len(keep) /\ keep[o].key = key
        /\ \A k \in 1 .. Len(keep) : keep[k].key = key => o <= k
    BY <1>3, FirstIs DEF Occurs
  <2>2. \A j : Met(keep, key, j) <=> o <= j
    BY <1>3 DEF Met
  <2> HIDE DEF o
  <2>3. keep[i].key = key => o <= i
    BY <2>1
  <2>4. keep[i].key # key => o # i
    BY <2>1
  <2>5. QED
    BY <1>1, <2>1, <2>2, <2>3, <2>4 DEF o
<1>4. QED
  BY <1>2, <1>3

(* Before the loop.                                                        *)
LEMMA LoopStarts ==
    ASSUME NEW keep \in Header, NEW n \in Int
    PROVE  LoopInv(keep, n, 0, Start)
<1>1. \A key : ~Met(keep, key, 0)
  <2> SUFFICES ASSUME NEW key, Met(keep, key, 0) PROVE FALSE
    OBVIOUS
  <2>1. FirstAt(keep, key) \in 1 .. Len(keep)
    BY FirstIs DEF Met, Occurs
  <2>2. QED
    BY <2>1 DEF Met
<1>2. ServerTimeo \in Int
  BY TimeoAssumption DEF Ints
<1>3. QED
  BY <1>1, <1>2 DEF LoopInv, Start, Handled, Outcome, UsedUp

(* One turn of the loop.                                                   *)
LEMMA LoopTurns ==
    ASSUME NEW keep \in Header, NEW n \in Int, NEW i \in 1 .. Len(keep), NEW l,
           LoopInv(keep, n, i - 1, l)
    PROVE  LoopInv(keep, n, i, Parameter(l, keep[i], n))
<1> DEFINE p == keep[i]
           mt == Met(keep, "timeout", i - 1)
           mm == Met(keep, "max", i - 1)
           r == Parameter(l, p, n)
<1>1. p.key \in {"timeout", "max", "other"} /\ p.val \in Int
      /\ Millis(p.val) \in Int
  <2>1. p \in [key : {"timeout", "max", "other"}, val : Ints]
    BY ElementOfSeq DEF Header
  <2>2. p.key \in {"timeout", "max", "other"} /\ p.val \in Ints
    BY <2>1
  <2>3. p.val \in Int
    BY <2>2, TimeoAssumption DEF Ints
  <2>4. QED
    BY <2>2, <2>3, MillisIs
<1>2. /\ p.key = "timeout" =>
             /\ Met(keep, "timeout", i)
             /\ ~mt => keep[FirstAt(keep, "timeout")].val = p.val
      /\ p.key = "max" =>
             /\ Met(keep, "max", i)
             /\ ~mm => keep[FirstAt(keep, "max")].val = p.val
      /\ p.key # "timeout" => (Met(keep, "timeout", i) <=> mt)
      /\ p.key # "max" => (Met(keep, "max", i) <=> mm)
      /\ mt => Met(keep, "timeout", i)
      /\ mm => Met(keep, "max", i)
  BY MetStep
<1>3. /\ l \in Handled /\ l.timeo = Outcome(keep, n, i - 1)
      /\ l.over <=> UsedUp(keep, n, i - 1) \/ (mt /\ mm)
      /\ ~l.over => l.seen = {key \in {"timeout", "max"} : Met(keep, key, i - 1)}
  BY DEF LoopInv
<1> HIDE DEF p, mt, mm
<1>4. CASE l.over
  <2>1. r = l
    BY <1>4 DEF Parameter
  <2>2. UsedUp(keep, n, i) <=> UsedUp(keep, n, i - 1)
    BY <1>2, <1>3, <1>4 DEF UsedUp, mm
  <2>3. Outcome(keep, n, i) = Outcome(keep, n, i - 1)
    BY <1>2, <1>3, <1>4, <2>2 DEF Outcome, mt
  <2>4. QED
    BY <1>2, <1>3, <1>4, <2>1, <2>2, <2>3 DEF LoopInv, p
<1>5. CASE ~l.over /\ (p.key = "other" \/ (p.key = "timeout" /\ mt) \/ (p.key = "max" /\ mm))
  <2>1. /\ Met(keep, "timeout", i) <=> mt
        /\ Met(keep, "max", i) <=> mm
    BY <1>1, <1>2, <1>5
  <2>2. ("timeout" \in l.seen <=> mt) /\ ("max" \in l.seen <=> mm)
    BY <1>3, <1>5 DEF mt, mm
  <2>3. r = l
    BY <1>5, <2>2 DEF Parameter
  <2>4. UsedUp(keep, n, i) <=> UsedUp(keep, n, i - 1)
    BY <2>1 DEF UsedUp, mm
  <2>5. Outcome(keep, n, i) = Outcome(keep, n, i - 1)
    BY <2>1, <2>4 DEF Outcome, mt
  <2>6. {key \in {"timeout", "max"} : Met(keep, key, i)}
            = {key \in {"timeout", "max"} : Met(keep, key, i - 1)}
    BY <2>1 DEF mt, mm
  <2>7. QED
    BY <1>3, <1>5, <2>1, <2>3, <2>4, <2>5, <2>6 DEF LoopInv, p
<1>6. CASE ~l.over /\ p.key = "timeout" /\ ~mt
  <2>1. /\ l.seen = IF mm THEN {"max"} ELSE {}
    BY <1>3, <1>6 DEF mt, mm
  <2>2. /\ r = [seen |-> l.seen \cup {"timeout"}, timeo |-> Millis(p.val),
                over |-> l.seen \cup {"timeout"} = {"timeout", "max"}]
    BY <1>6, <2>1 DEF Parameter
  <2>3. ~UsedUp(keep, n, i) /\ Outcome(keep, n, i) = Millis(p.val)
    BY <1>2, <1>3, <1>6 DEF UsedUp, Outcome, mm
  <2>4. r.over <=> mm
    <3>1. r.over = (l.seen \cup {"timeout"} = {"timeout", "max"})
      BY <2>2
    <3>2. l.seen \cup {"timeout"} = {"timeout", "max"} <=> mm
      BY <2>1
    <3> HIDE DEF r
    <3>3. QED
      BY <3>1, <3>2, Zenon
  <2>5. ~r.over => r.seen = {key \in {"timeout", "max"} : Met(keep, key, i)}
    BY <1>2, <1>6, <2>1, <2>2, <2>4
  <2>6. r \in Handled /\ r.timeo = Millis(p.val)
    BY <1>1, <1>3, <2>2 DEF Handled
  <2>7. QED
    BY <1>2, <1>6, <2>3, <2>4, <2>5, <2>6 DEF LoopInv, p
<1>7. CASE ~l.over /\ p.key = "max" /\ ~mm
  <2>1. /\ l.seen = IF mt THEN {"timeout"} ELSE {}
    BY <1>3, <1>7 DEF mt, mm
  <2>2. /\ r = [seen |-> l.seen \cup {"max"},
                timeo |-> IF n >= p.val THEN 0 ELSE l.timeo,
                over |-> n >= p.val \/ l.seen \cup {"max"} = {"timeout", "max"}]
    BY <1>7, <2>1 DEF Parameter
  <2>3. /\ UsedUp(keep, n, i) <=> n >= p.val
        /\ Outcome(keep, n, i) = IF n >= p.val THEN 0 ELSE l.timeo
    BY <1>2, <1>3, <1>7 DEF UsedUp, Outcome, mt
  <2>4. r.over <=> n >= p.val \/ mt
    <3>1. r.over = (n >= p.val \/ l.seen \cup {"max"} = {"timeout", "max"})
      BY <2>2
    <3>2. l.seen \cup {"max"} = {"timeout", "max"} <=> mt
      BY <2>1
    <3> HIDE DEF r
    <3>3. QED
      BY <3>1, <3>2, Zenon
  <2>5. ~r.over => r.seen = {key \in {"timeout", "max"} : Met(keep, key, i)}
    BY <1>2, <1>7, <2>1, <2>2, <2>4
  <2>6. r \in Handled /\ r.timeo = IF n >= p.val THEN 0 ELSE l.timeo
    BY <1>1, <1>3, <2>2 DEF Handled
  <2>7. QED
    BY <1>2, <1>7, <2>3, <2>4, <2>5, <2>6 DEF LoopInv, p
<1>8. QED
  BY <1>1, <1>4, <1>5, <1>6, <1>7

(* The recursive definition of the loop has a solution.                    *)
LEMMA LoopExists ==
    ASSUME NEW keep \in Header, NEW n \in Int
    PROVE  \E f : IsLoop(keep, n, Len(keep), f)
<1> DEFINE Bad == {m \in Nat : m <= Len(keep) /\ ~\E f : IsLoop(keep, n, m, f)}
<1>1. Len(keep) \in Nat
  BY DEF Header
<1>2. Bad = {}
  <2> SUFFICES ASSUME Bad # {} PROVE FALSE
    OBVIOUS
  <2>1. PICK m \in Bad : \A k \in Bad : m <= k
    BY Least
  <2>2. m \in Nat /\ m <= Len(keep) /\ ~\E f : IsLoop(keep, n, m, f)
    BY <2>1
  <2>3. CASE m = 0
    <3> DEFINE g == [i \in 0 .. 0 |-> Start]
    <3>1. \A i \in 0 .. 0 : i = 0
      OBVIOUS
    <3>2. IsLoop(keep, n, 0, g)
      BY <3>1 DEF IsLoop
    <3>3. QED
      BY <2>2, <2>3, <3>2
  <2>4. CASE m # 0
    <3>1. m - 1 \in Nat /\ m - 1 <= Len(keep) /\ ~(m <= m - 1)
      BY <1>1, <2>2, <2>4
    <3>2. m - 1 \notin Bad
      BY <2>1, <3>1
    <3>3. PICK f : IsLoop(keep, n, m - 1, f)
      BY <3>1, <3>2
    <3> DEFINE g == [i \in 0 .. m |->
                        IF i < m THEN f[i] ELSE Parameter(f[m - 1], keep[m], n)]
    <3>4. ASSUME NEW i \in 0 .. m
          PROVE  g[i] = IF i = 0 THEN Start ELSE Parameter(g[i - 1], keep[i], n)
      <4>1. CASE i = 0
        <5>1. 0 \in 0 .. m - 1 /\ 0 < m
          BY <3>1, <2>2, <2>4
        <5>2. f[0] = Start
          BY <3>3, <5>1 DEF IsLoop
        <5>3. QED
          BY <4>1, <5>1, <5>2
      <4>2. CASE i # 0
        <5>1. i - 1 \in 0 .. m - 1 /\ i - 1 \in 0 .. m /\ i - 1 < m /\ i \in Nat
              /\ (i < m => i \in 0 .. m - 1) /\ (~(i < m) => i = m)
          BY <2>2, <3>1, <4>2
        <5>2. g[i - 1] = f[i - 1]
          BY <5>1
        <5>3. CASE i < m
          <6>1. f[i] = Parameter(f[i - 1], keep[i], n)
            BY <3>3, <4>2, <5>1, <5>3 DEF IsLoop
          <6>2. QED
            BY <4>2, <5>2, <5>3, <6>1
        <5>4. CASE ~(i < m)
          BY <4>2, <5>1, <5>2, <5>4
        <5>5. QED
          BY <5>3, <5>4
      <4>3. QED
        BY <4>1, <4>2
    <3>5. IsLoop(keep, n, m, g)
      <4>1. g = [i \in 0 .. m |-> g[i]]
        OBVIOUS
      <4> HIDE DEF g
      <4>2. QED
        BY <3>4, <4>1 DEF IsLoop
    <3>6. QED
      BY <2>2, <3>5
  <2>5. QED
    BY <2>3, <2>4
<1>3. QED
  BY <1>1, <1>2

(* What the loop returns: the closed form, after all the parameters.       *)
LEMMA KeepAliveIs ==
    ASSUME NEW keep \in Header, NEW n \in Int
    PROVE  /\ KeepAlive(keep, n) = Outcome(keep, n, Len(keep))
           /\ KeepAlive(keep, n) \in Int
<1> DEFINE f == CHOOSE h : IsLoop(keep, n, Len(keep), h)
           L == Len(keep)
<1>1. KeepAlive(keep, n) = f[Len(keep)].timeo
  BY DEF KeepAlive, IsLoop, Start
<1>2. IsLoop(keep, n, L, f)
  BY LoopExists
<1> HIDE DEF f
<1>3. L \in Nat
  BY DEF Header
<1> DEFINE Bad == {m \in Nat : m <= L /\ ~LoopInv(keep, n, m, f[m])}
<1>4. Bad = {}
  <2> SUFFICES ASSUME Bad # {} PROVE FALSE
    OBVIOUS
  <2>1. PICK m \in Bad : \A k \in Bad : m <= k
    BY Least
  <2>2. m \in Nat /\ m <= L /\ m \in 0 .. L /\ ~LoopInv(keep, n, m, f[m])
    BY <1>3, <2>1
  <2>3. CASE m = 0
    <3>1. f[0] = Start
      BY <1>2, <2>2, <2>3 DEF IsLoop
    <3>2. QED
      BY <2>2, <2>3, <3>1, LoopStarts
  <2>4. CASE m # 0
    <3>1. m - 1 \in Nat /\ m - 1 <= L /\ ~(m <= m - 1) /\ m \in 1 .. L
      BY <1>3, <2>2, <2>4
    <3>2. LoopInv(keep, n, m - 1, f[m - 1])
      BY <2>1, <3>1
    <3>3. f[m] = Parameter(f[m - 1], keep[m], n)
      BY <1>2, <2>2, <2>4 DEF IsLoop
    <3>4. QED
      BY <2>2, <3>1, <3>2, <3>3, LoopTurns
  <2>5. QED
    BY <2>3, <2>4
<1>5. LoopInv(keep, n, L, f[L])
  BY <1>3, <1>4
<1>6. QED
  BY <1>1, <1>5 DEF LoopInv, Handled

(* The first value of a key, as the property finds it.                     *)
LEMMA FirstOfIs ==
    ASSUME NEW keep \in Header, NEW key
    PROVE  /\ Occurs(keep, key) = {} => FirstOf(keep, key) = {}
           /\ Occurs(keep, key) # {} =>
                  FirstOf(keep, key) = {keep[FirstAt(keep, key)].val}
           /\ Met(keep, key, Len(keep)) <=> Occurs(keep, key) # {}
<1> DEFINE o == FirstAt(keep, key)
           O == Occurs(keep, key)
           M == {j \in O : \A k \in O : j <= k}
<1>1. FirstOf(keep, key) = {keep[i].val : i \in M}
  BY DEF FirstOf, Occurs
<1>2. O \in SUBSET (1 .. Len(keep)) /\ Len(keep) \in Nat
  BY DEF Occurs, Header
<1>3. ASSUME O # {} PROVE M = {o}
  <2>1. o \in O /\ \A k \in O : o <= k
    BY <1>3, FirstIs
  <2> HIDE DEF o, O
  <2>2. \A j \in O : (\A k \in O : j <= k) => j = o
    BY <1>2, <2>1
  <2>3. QED
    BY <2>1, <2>2
<1>4. Met(keep, key, Len(keep)) <=> O # {}
  <2>1. ASSUME O # {} PROVE o <= Len(keep)
    <3>1. o \in O
      BY <2>1, FirstIs
    <3> HIDE DEF o, O
    <3>2. QED
      BY <1>2, <3>1
  <2>2. QED
    BY <2>1 DEF Met
<1> HIDE DEF o, M
<1>5. ASSUME O # {} PROVE FirstOf(keep, key) = {keep[o].val}
  BY <1>1, <1>3, <1>5
<1>6. ASSUME O = {} PROVE FirstOf(keep, key) = {}
  BY <1>1, <1>6 DEF M
<1>7. QED
  BY <1>4, <1>5, <1>6 DEF o
-----------------------------------------------------------------------------
(* The keep-alive rules                                                    *)

KeepInv ==
    /\ req \in Requests /\ seq \in Nat
    /\ pc \in {"process", "before", "series"} => header = "none"
    /\ KeepAliveRule

(* The rules for a reply, in terms of what message_out reads.              *)
LEMMA ReplyObeys ==
    ASSUME KeepInv, message_out, UNCHANGED <<req, seq, conn>>
    PROVE  KeepAliveRule'
<1> DEFINE keep == ReqKeepAlive
           t == KeepAlive(keep, seq)
           asked == FirstOf(keep, "timeout")
           time == IF asked = {} THEN {ServerTimeo}
                   ELSE {MilliSec * v : v \in asked}
           used == \E n \in FirstOf(keep, "max") : seq >= n
           kept(x) == IF x \in 0 .. MaxTimeo THEN x ELSE MaxTimeo
<1>1. keep \in Header
  <2>1. << >> \in Header
    BY DEF Header
  <2>2. req.keep \in Header
    BY RequestsAssumption DEF KeepInv, Header
  <2>3. QED
    BY <2>1, <2>2 DEF ReqKeepAlive
<1>2. seq \in Int /\ ServerTimeo \in Int /\ MaxTimeo \in Nat \ {0}
  BY TimeoAssumption DEF KeepInv, Ints
<1>3. ReqKeepAlive' = keep /\ (IsAlive' <=> IsAlive)
  BY DEF ReqKeepAlive, IsAlive
<1>4. timeo' = (IF IsAlive THEN Clamp(t) ELSE 0)
      /\ header' = IF conn # "none" THEN conn
                   ELSE IF timeo' = 0 THEN "close" ELSE "Keep-Alive"
  BY DEF message_out
<1>5. t = Outcome(keep, seq, Len(keep)) /\ t \in Int
  <2> HIDE DEF keep
  <2>1. QED
    BY <1>1, <1>2, KeepAliveIs
<1>6. Clamp(t) = kept(t) /\ Clamp(t) \in 0 .. MaxTimeo /\ kept(0) = 0
  <2> HIDE DEF t
  <2>1. QED
    BY <1>2, <1>5 DEF Clamp
<1> HIDE DEF keep, t, kept
<1>7. ASSUME used PROVE t = 0
  BY <1>1, <1>5, <1>7, FirstOfIs DEF Outcome, UsedUp
<1>8. ASSUME ~used, NEW x \in time \cap Ints PROVE t = x
  <2>1. ~UsedUp(keep, seq, Len(keep))
    BY <1>1, <1>8, FirstOfIs DEF UsedUp
  <2>2. Met(keep, "timeout", Len(keep)) <=> Occurs(keep, "timeout") # {}
    BY <1>1, FirstOfIs
  <2>3. CASE Occurs(keep, "timeout") = {}
    <3>1. x = ServerTimeo
      BY <1>1, <1>8, <2>3, FirstOfIs
    <3>2. QED
      BY <1>5, <2>1, <2>2, <2>3, <3>1 DEF Outcome
  <2>4. CASE Occurs(keep, "timeout") # {}
    <3> DEFINE o == FirstAt(keep, "timeout")
               v == keep[o].val
    <3>1. time = {MilliSec * v}
      BY <1>1, <2>4, FirstOfIs
    <3>2. o \in 1 .. Len(keep)
      BY <1>1, <2>4, FirstIs DEF Occurs
    <3>3. keep[o] \in [key : {"timeout", "max", "other"}, val : Ints]
      BY <1>1, <3>2, ElementOfSeq DEF Header
    <3>4. v \in Int
      BY <3>3, TimeoAssumption DEF Ints
    <3>5. t = Millis(v)
      BY <1>5, <2>1, <2>2, <2>4 DEF Outcome
    <3> HIDE DEF o, v, time
    <3>6. x = MilliSec * v /\ x \in Ints
      BY <1>8, <3>1
    <3>7. QED
      BY <3>4, <3>5, <3>6, MillisIs
  <2>5. QED
    BY <2>3, <2>4
<1>9. /\ (~IsAlive \/ used) => timeo' = 0
      /\ ~(~IsAlive \/ used) => \A x \in time \cap Ints : timeo' = kept(x)
      /\ timeo' \in 0 .. MaxTimeo
  <2> HIDE DEF time, used
  <2>1. 0 \in 0 .. MaxTimeo
    BY <1>2
  <2>2. QED
    BY <1>4, <1>6, <1>7, <1>8, <2>1
<1>10. header' = "close" => timeo' = 0
  BY <1>4 DEF IsAlive
<1>11. header' = "Keep-Alive" /\ conn = "none" => timeo' # 0
  BY <1>4
<1>12. QED
  BY <1>3, <1>9, <1>10, <1>11 DEF KeepAliveRule, kept

(* Every step keeps the rules.                                             *)
LEMMA KeepInductive == KeepInv /\ [Next]_vars => KeepInv'
<1> SUFFICES ASSUME KeepInv, [Next]_vars PROVE KeepInv'
  OBVIOUS
<1>1. req' \in Requests /\ seq' \in Nat
  <2>1. CASE \E r \in Requests : Receive(r)
    BY <2>1 DEF KeepInv, Receive
  <2>2. CASE Disconnect \/ UNCHANGED vars
    BY <2>2 DEF KeepInv, Disconnect, vars
  <2>3. CASE TaskStep
    <3>1. CASE Done
      BY <3>1 DEF KeepInv, Done
    <3>2. CASE ~Done
      <4>1. UNCHANGED <<req, seq>>
        BY <2>3, <3>2 DEF TaskStep, process, Handle, RunSubtask, AspectsDone,
                          Track, Before, Reply, After
      <4>2. QED
        BY <4>1 DEF KeepInv
    <3>3. QED
      BY <3>1, <3>2
  <2>4. QED
    BY <2>1, <2>2, <2>3 DEF Next
<1>2. CASE \E ok \in BOOLEAN : Reply(ok)
  <2>1. PICK ok \in BOOLEAN : Reply(ok)
    BY <1>2
  <2>2. /\ pc = "series" /\ pc' = "callbacks" /\ UNCHANGED <<req, seq, conn>>
        /\ message_out \/ UNCHANGED <<timeo, header>>
    BY <2>1 DEF Reply
  <2>3. CASE message_out
    BY <1>1, <2>2, <2>3, ReplyObeys DEF KeepInv
  <2>4. CASE UNCHANGED <<timeo, header>>
    <3>1. header' = "none"
      BY <2>2, <2>4 DEF KeepInv
    <3>2. KeepAliveRule'
      BY <3>1 DEF KeepAliveRule
    <3>3. QED
      BY <1>1, <3>1, <3>2 DEF KeepInv
  <2>5. QED
    BY <2>2, <2>3, <2>4
<1>3. CASE pc' # "callbacks" /\ header' = "none"
  BY <1>1, <1>3 DEF KeepInv, KeepAliveRule
<1>4. CASE pc' \in {"idle", "closed"}
  BY <1>1, <1>4 DEF KeepInv, KeepAliveRule
<1>5. CASE pc = "callbacks" /\ pc' = "callbacks"
           /\ UNCHANGED <<req, seq, conn, timeo, header>>
  <2>1. KeepAliveRule'
    BY <1>5 DEF KeepInv, KeepAliveRule, ReqKeepAlive, IsAlive
  <2>2. QED
    BY <1>1, <1>5, <2>1 DEF KeepInv
<1>6. CASE UNCHANGED vars
  <2>1. KeepAliveRule'
    BY <1>6 DEF KeepInv, KeepAliveRule, ReqKeepAlive, IsAlive, vars
  <2>2. QED
    BY <1>1, <1>6, <2>1 DEF KeepInv, vars
<1>7. CASE \E r \in Requests : Receive(r)
  BY <1>3, <1>7 DEF Receive
<1>8. CASE Disconnect \/ Done
  BY <1>4, <1>8 DEF Disconnect, Done
<1>9. CASE process \/ Handle \/ RunSubtask \/ \E ok \in BOOLEAN : Before(ok)
  <2>1. /\ pc \in {"process", "before", "series"}
        /\ pc' \in {"before", "series"} /\ header' = header
    BY <1>9 DEF process, Handle, RunSubtask, Before
  <2>2. QED
    BY <1>3, <2>1 DEF KeepInv
<1>10. CASE AspectsDone \/ Track \/ \E ok \in BOOLEAN : After(ok)
  BY <1>5, <1>10 DEF AspectsDone, Track, After
<1>11. QED
  BY <1>2, <1>6, <1>7, <1>8, <1>9, <1>10 DEF Next, TaskStep

(* The keep-alive rules of HttpServerTask::message_out, for every header   *)
(* and every number of requests: the connection ends when the handler or   *)
(* the client asks for it or the first "max" is used up; otherwise it is   *)
(* kept for the first "timeout", or the server's, if in milliseconds it is *)
(* an int, and for HTTP_KEEPALIVE_MAX at most whatever the header says;    *)
(* and the client is told.                                                 *)
THEOREM KeepAliveObeyed == Spec => []KeepAliveRule
<1>1. Init => KeepInv
  BY DEF Init, KeepInv, KeepAliveRule
<1>2. KeepInv => KeepAliveRule
  BY DEF KeepInv
<1>3. QED
  BY <1>1, <1>2, KeepInductive, PTL DEF Spec
-----------------------------------------------------------------------------
(* The tables of the router                                                *)

(* A node, the prefixes it needs, and "/" as a child of the root only.     *)
NodeOK(n, nodes) ==
    /\ n \in Seq(Segs)
    /\ \A k \in 1 .. Len(n) : SubSeq(n, 1, k) \in nodes
    /\ \A i \in 1 .. Len(n) : n[i] = Slash => n = <<Slash>>

TreeOK(t) ==
    /\ t = [nodes |-> t.nodes, bound |-> t.bound]
    /\ << >> \in t.nodes
    /\ \A n \in t.nodes : NodeOK(n, t.nodes)

(* Handlers sit at nodes other than the root, one for each verb.           *)
BoundOK(t) ==
    /\ \A b \in t.bound : b.node \in t.nodes /\ b.node # << >>
    /\ \A b, c \in t.bound : b.node = c.node /\ b.verb = c.verb => b = c

TableOK(t) == TreeOK(t) /\ BoundOK(t)

(* What add_blueprint needs of the table it merges.                        *)
BlueOK(t) == TableOK(t) /\ \A b \in t.bound : b.node # <<Empty>>

RouterInv == TableOK(server) /\ BlueOK(blue)

(* The nodes find_or_create makes for a path.                              *)
Grown(path) == IF path = << >> THEN {<<Slash>>} ELSE Prefixes(path)

Routes == Seq(Segs \ {Slash})

(* They form a branch of a tree.                                           *)
LEMMA GrownOK ==
    ASSUME NEW path \in Routes, NEW nodes,
           Grown(path) \subseteq nodes
    PROVE  \A n \in Grown(path) : NodeOK(n, nodes)
<1>1. CASE path = << >>
  <2>1. Slash \in Segs
    BY SegsAssumption
  <2> DEFINE n == <<Slash>>
  <2>2. n \in Seq(Segs) /\ Len(n) = 1 /\ n[1] = Slash
    BY <2>1
  <2>3. Grown(path) = {n}
    BY <1>1 DEF Grown
  <2>4. n \in nodes
    BY <2>3
  <2> HIDE DEF n
  <2>5. \A k \in 1 .. Len(n) : k = 1 /\ SubSeq(n, 1, k) = n
    BY <2>2
  <2>6. NodeOK(n, nodes)
    BY <2>2, <2>4, <2>5 DEF NodeOK, n
  <2>7. QED
    BY <2>3, <2>6
<1>2. CASE path # << >>
  <2>1. SUFFICES ASSUME NEW n \in Grown(path) PROVE NodeOK(n, nodes)
    OBVIOUS
  <2>2. PICK l \in 0 .. Len(path) : n = SubSeq(path, 1, l)
    BY <1>2 DEF Grown, Prefixes
  <2>3. path \in Seq(Segs \ {Slash}) /\ path \in Seq(Segs)
    BY DEF Routes
  <2>4. n \in Seq(Segs) /\ Len(n) = l /\ \A i \in 1 .. l : n[i] = path[i]
    BY <2>2, <2>3
  <2>5. \A i \in 1 .. Len(n) : n[i] # Slash
    BY <2>2, <2>3, <2>4
  <2>6. ASSUME NEW k \in 1 .. Len(n) PROVE SubSeq(n, 1, k) \in nodes
    <3>1. SubSeq(n, 1, k) = SubSeq(path, 1, k)
      BY <2>2, <2>3, <2>4
    <3>2. k \in 0 .. Len(path)
      BY <2>2, <2>3, <2>4
    <3>3. QED
      BY <1>2, <3>1, <3>2 DEF Grown, Prefixes
  <2>7. QED
    BY <2>4, <2>5, <2>6 DEF NodeOK
<1>3. QED
  BY <1>1, <1>2

(* A tree that grows by nodes with their prefixes is a tree.               *)
LEMMA TreeGrows ==
    ASSUME NEW t, NEW u, TreeOK(t), t.nodes \subseteq u.nodes,
           u = [nodes |-> u.nodes, bound |-> u.bound],
           \A n \in u.nodes \ t.nodes : NodeOK(n, u.nodes)
    PROVE  TreeOK(u)
<1>1. ASSUME NEW n \in t.nodes PROVE NodeOK(n, u.nodes)
  BY <1>1 DEF TreeOK, NodeOK
<1>2. QED
  BY <1>1 DEF TreeOK

(* What handle makes of a table.                                           *)
LEMMA HandleIs ==
    ASSUME NEW t, TreeOK(t), NEW from, NEW path, NEW verb, NEW h, NEW n, NEW d,
           h = handle(t, from, path, verb), n = Target(t, path),
           d = [node |-> n, verb |-> verb,
                handler |-> [from |-> from, route |-> path]]
    PROVE  /\ h = [nodes |-> h.nodes, bound |-> h.bound]
           /\ h.nodes = t.nodes \cup Grown(path)
           /\ \/ (n = NoNode \/ verb \in VerbsAt(t, n)) /\ h.bound = t.bound
              \/ /\ n # NoNode /\ verb \notin VerbsAt(t, n)
                 /\ h.bound = t.bound \cup {d}
<1> DEFINE nodes == t.nodes
           bound == t.bound
<1>1. t = [nodes |-> nodes, bound |-> bound]
  BY DEF TreeOK
<1>2. Make(t, path) = [t EXCEPT !.nodes = nodes \cup Grown(path)]
  BY DEF Make, Grown
<1> HIDE DEF nodes, bound
<1>3. Make(t, path) = [nodes |-> nodes \cup Grown(path), bound |-> bound]
  BY <1>1, <1>2
<1>4. t.nodes = nodes /\ t.bound = bound
  BY DEF nodes, bound
<1>5. CASE n = NoNode \/ verb \in VerbsAt(t, n)
  <2>1. h = Make(t, path)
    BY <1>5 DEF handle
  <2>2. QED
    BY <1>3, <1>4, <1>5, <2>1
<1>6. CASE ~(n = NoNode \/ verb \in VerbsAt(t, n))
  <2>1. h = [Make(t, path) EXCEPT !.bound = Make(t, path).bound \cup {d}]
    BY <1>6 DEF handle
  <2>2. Make(t, path).bound = bound
    BY <1>3
  <2> DEFINE m == Make(t, path)
  <2> HIDE DEF m
  <2>3. h = [nodes |-> nodes \cup Grown(path), bound |-> bound \cup {d}]
    <3>1. m = [nodes |-> nodes \cup Grown(path), bound |-> bound]
      BY <1>3 DEF m
    <3>2. h = [m EXCEPT !.bound = bound \cup {d}]
      BY <2>1, <2>2 DEF m
    <3>3. QED
      BY <3>1, <3>2
  <2>4. QED
    BY <1>4, <1>6, <2>3
<1>7. QED
  BY <1>5, <1>6

(* The node a handler is bound to is the path's or that of "/".            *)
LEMMA TargetIs ==
    ASSUME NEW t, NEW path \in Routes, Target(t, path) # NoNode
    PROVE  /\ Target(t, path) \in Grown(path)
           /\ Target(t, path) # << >>
           /\ path # << >> => Target(t, path) = path
           /\ path = << >> => Target(t, path) = <<Slash>>
<1>1. CASE path # << >>
  <2>1. path \in Seq(Segs \ {Slash}) /\ Target(t, path) = path
    BY <1>1 DEF Target, Routes
  <2>2. Len(path) \in 0 .. Len(path) /\ path = SubSeq(path, 1, Len(path))
    BY <2>1
  <2>3. path \in Prefixes(path)
    BY <2>2 DEF Prefixes
  <2>4. QED
    BY <1>1, <2>1, <2>3 DEF Grown
<1>2. CASE path = << >>
  BY <1>2 DEF Target, Grown
<1>3. QED
  BY <1>1, <1>2

(* A registration keeps the tree whole and binds one node at most.         *)
LEMMA HandleKeeps ==
    ASSUME NEW t, TableOK(t), NEW from, NEW verb,
           NEW path \in Routes, NEW h, h = handle(t, from, path, verb)
    PROVE  /\ TableOK(h)
           /\ \A b \in h.bound : b \in t.bound \/ b.node = Target(t, path)
<1> DEFINE n == Target(t, path)
           d == [node |-> n, verb |-> verb,
                 handler |-> [from |-> from, route |-> path]]
<1>1. TreeOK(t) /\ BoundOK(t)
  BY DEF TableOK
<1>2. /\ n = Target(t, path)
      /\ d = [node |-> n, verb |-> verb,
              handler |-> [from |-> from, route |-> path]]
  OBVIOUS
<1>3. n # NoNode => n \in Grown(path) /\ n # << >>
  BY TargetIs
<1>4. d.node = n /\ d.verb = verb
  OBVIOUS
<1> HIDE DEF n, d
<1>5. /\ h = [nodes |-> h.nodes, bound |-> h.bound]
      /\ h.nodes = t.nodes \cup Grown(path)
      /\ \/ h.bound = t.bound
         \/ /\ n # NoNode /\ verb \notin VerbsAt(t, n)
            /\ h.bound = t.bound \cup {d}
  BY <1>2, <1>1, HandleIs
<1>6. TreeOK(h)
  <2>1. Grown(path) \subseteq h.nodes
    BY <1>5
  <2>2. \A m \in Grown(path) : NodeOK(m, h.nodes)
    BY <2>1, GrownOK
  <2>3. QED
    BY <1>1, <1>5, <2>2, TreeGrows
<1>7. BoundOK(h)
  <2>1. CASE h.bound = t.bound
    BY <1>1, <1>5, <2>1 DEF BoundOK
  <2>2. CASE n # NoNode /\ verb \notin VerbsAt(t, n) /\ h.bound = t.bound \cup {d}
    <3>1. \A b \in t.bound : ~(b.node = d.node /\ b.verb = d.verb)
      BY <1>4, <2>2 DEF VerbsAt
    <3>2. d.node \in h.nodes /\ d.node # << >>
      BY <1>5, <1>3, <1>4, <2>2
    <3>3. QED
      BY <1>1, <1>5, <2>2, <3>1, <3>2 DEF BoundOK
  <2>3. QED
    BY <1>5, <2>1, <2>2
<1>8. \A b \in h.bound : b \in t.bound \/ b.node = n
  BY <1>5, <1>4
<1>9. QED
  BY <1>6, <1>7, <1>8 DEF TableOK, n

(* The path of a leaf of a blueprint.                                      *)
Below(leaf) == IF leaf = <<Slash>> THEN <<Empty>> ELSE leaf

(* What a blueprint's node adds to the prefix is a route.                  *)
LEMMA BelowIs ==
    ASSUME NEW b, TreeOK(b), NEW leaf \in b.nodes
    PROVE  /\ Below(leaf) \in Routes
           /\ leaf # << >> => Below(leaf) # << >>
<1>1. Empty \in Segs \ {Slash}
  BY SegsAssumption
<1>2. CASE leaf = <<Slash>>
  <2>1. Below(leaf) = <<Empty>>
    BY <1>2 DEF Below
  <2>2. QED
    BY <1>1, <2>1 DEF Routes
<1>3. CASE leaf # <<Slash>>
  <2>1. NodeOK(leaf, b.nodes)
    BY DEF TreeOK
  <2>2. leaf \in Seq(Segs) /\ \A i \in 1 .. Len(leaf) : leaf[i] # Slash
    BY <1>3, <2>1 DEF NodeOK
  <2>3. leaf \in Seq(Segs \ {Slash})
    BY <2>2
  <2>4. QED
    BY <1>3, <2>3 DEF Below, Routes
<1>4. QED
  BY <1>2, <1>3

(* The merged node is the prefix and what is below it.                     *)
LEMMA JoinedIs ==
    ASSUME NEW b, TreeOK(b), NEW leaf \in b.nodes,
           NEW prefix \in Routes
    PROVE  /\ Joined(prefix, leaf) = prefix \o Below(leaf)
           /\ Joined(prefix, leaf) \in Routes
           /\ leaf # << >> => Joined(prefix, leaf) # << >>
<1>1. Below(leaf) \in Routes /\ (leaf # << >> => Below(leaf) # << >>)
  BY BelowIs
<1>2. Joined(prefix, leaf) = prefix \o Below(leaf)
  BY DEF Joined, Below
<1>3. prefix \o Below(leaf) \in Routes
  BY <1>1 DEF Routes
<1>4. prefix \o Below(leaf) = << >> => Below(leaf) = << >>
  <2>1. prefix \in Seq(Segs \ {Slash}) /\ Below(leaf) \in Seq(Segs \ {Slash})
    BY <1>1 DEF Routes
  <2>2. QED
    BY <2>1, ConcatEqualIffEmpty
<1>5. QED
  BY <1>1, <1>2, <1>3, <1>4

(* Two leaves with handlers do not meet.                                   *)
LEMMA JoinedOnce ==
    ASSUME NEW b, TreeOK(b), NEW prefix \in Routes,
           NEW l \in b.nodes, NEW m \in b.nodes,
           l # <<Empty>>, m # <<Empty>>, Joined(prefix, l) = Joined(prefix, m)
    PROVE  l = m
<1>1. Joined(prefix, l) = prefix \o Below(l) /\ Joined(prefix, m) = prefix \o Below(m)
  BY JoinedIs
<1>2. prefix \in Seq(Segs \ {Slash}) /\ Below(l) \in Seq(Segs \ {Slash})
      /\ Below(m) \in Seq(Segs \ {Slash})
  BY BelowIs DEF Routes
<1>3. Below(l) = Below(m)
  BY <1>1, <1>2, ConcatSimplifications
<1>4. QED
  BY <1>3 DEF Below

(* Merging a blueprint keeps the table whole.                              *)
LEMMA MergeKeeps ==
    ASSUME NEW t, TableOK(t), NEW b, BlueOK(b),
           NEW prefix \in Routes, NEW u, u = add_blueprint(t, b, prefix)
    PROVE  TableOK(u)
<1> DEFINE spot(l) == Target(t, Joined(prefix, l))
           from == {y \in b.bound : y.node \in Leaves(b) /\ spot(y.node) # NoNode}
           put(x) == [node |-> spot(x.node), verb |-> x.verb, handler |-> x.handler]
           moved == {put(x) : x \in from}
           kept == {x \in t.bound : x.node \notin {spot(l) : l \in Leaves(b)}}
           more == UNION {Make(t, Joined(prefix, l)).nodes : l \in Leaves(b)}
<1>1. u = [nodes |-> t.nodes \cup more, bound |-> kept \cup moved]
  BY DEF add_blueprint
<1>2. TreeOK(t) /\ BoundOK(t) /\ TreeOK(b) /\ BoundOK(b)
      /\ \A x \in b.bound : x.node # <<Empty>>
  BY DEF TableOK, BlueOK
<1>3. \A l \in Leaves(b) : l \in b.nodes
  BY DEF Leaves
<1>4. ASSUME NEW l \in Leaves(b)
      PROVE  Make(t, Joined(prefix, l)).nodes = t.nodes \cup Grown(Joined(prefix, l))
  <2>1. t = [nodes |-> t.nodes, bound |-> t.bound]
    BY <1>2 DEF TreeOK
  <2>2. "nodes" \in DOMAIN t
    BY <2>1
  <2>3. QED
    BY <2>2 DEF Make, Grown
<1>5. u.nodes = t.nodes \cup more /\ u.bound = kept \cup moved
      /\ u = [nodes |-> u.nodes, bound |-> u.bound]
  <2> HIDE DEF more, kept, moved
  <2>1. QED
    BY <1>1
<1>6. ASSUME NEW l \in Leaves(b) PROVE Grown(Joined(prefix, l)) \subseteq u.nodes
  BY <1>4, <1>5
<1>7. TreeOK(u)
  <2>1. ASSUME NEW n \in u.nodes \ t.nodes PROVE NodeOK(n, u.nodes)
    <3>1. PICK l \in Leaves(b) : n \in Make(t, Joined(prefix, l)).nodes
      BY <1>5
    <3>2. n \in Grown(Joined(prefix, l))
      BY <1>4, <3>1
    <3>3. Joined(prefix, l) \in Routes
      BY <1>2, <1>3, JoinedIs
    <3>4. QED
      BY <1>6, <3>2, <3>3, GrownOK
  <2>2. t.nodes \subseteq u.nodes
    BY <1>5
  <2>3. QED
    BY <1>2, <1>5, <2>1, <2>2, TreeGrows
<1>8. ASSUME NEW x \in from
      PROVE  /\ put(x).node = Joined(prefix, x.node)
             /\ put(x).node \in u.nodes /\ put(x).node # << >>
             /\ put(x).node \in {spot(l) : l \in Leaves(b)}
             /\ put(x).verb = x.verb
  <2>1. x \in b.bound /\ x.node \in Leaves(b) /\ spot(x.node) # NoNode
    OBVIOUS
  <2>2. put(x).node = spot(x.node) /\ put(x).verb = x.verb
    OBVIOUS
  <2>3. x.node # << >> /\ x.node \in b.nodes
    BY <1>2, <2>1 DEF BoundOK
  <2>4. Joined(prefix, x.node) \in Routes /\ Joined(prefix, x.node) # << >>
    BY <1>2, <2>3, JoinedIs
  <2>5. spot(x.node) \in Grown(Joined(prefix, x.node)) /\ spot(x.node) # << >>
        /\ spot(x.node) = Joined(prefix, x.node)
    BY <2>1, <2>4, TargetIs
  <2>6. QED
    BY <1>6, <2>1, <2>2, <2>5
<1>9. ASSUME NEW x \in from, NEW y \in from,
             put(x).node = put(y).node, put(x).verb = put(y).verb
      PROVE  put(x) = put(y)
  <2>1. Joined(prefix, x.node) = Joined(prefix, y.node) /\ x.verb = y.verb
    BY <1>8, <1>9
  <2>2. x \in b.bound /\ y \in b.bound
    OBVIOUS
  <2>3. x.node \in b.nodes /\ y.node \in b.nodes
        /\ x.node # <<Empty>> /\ y.node # <<Empty>>
    BY <1>2, <2>2 DEF BoundOK
  <2>4. x.node = y.node
    BY <1>2, <2>1, <2>3, JoinedOnce
  <2>5. x = y
    BY <1>2, <2>1, <2>2, <2>4 DEF BoundOK
  <2>6. QED
    BY <2>5
<1>10. \A x \in kept : x \in t.bound /\ x.node \notin {spot(l) : l \in Leaves(b)}
  OBVIOUS
<1>11. \A d \in moved : \E x \in from : d = put(x)
  OBVIOUS
<1> HIDE DEF spot, from, put, moved, kept, more
<1>12. BoundOK(u)
  <2>1. ASSUME NEW x \in u.bound PROVE x.node \in u.nodes /\ x.node # << >>
    <3>1. CASE x \in kept
      BY <1>2, <1>5, <1>10, <3>1 DEF BoundOK
    <3>2. CASE x \in moved
      BY <1>8, <1>11, <3>2
    <3>3. QED
      BY <1>5, <3>1, <3>2
  <2>2. ASSUME NEW x \in u.bound, NEW y \in u.bound,
               x.node = y.node, x.verb = y.verb
        PROVE  x = y
    <3>1. CASE x \in kept /\ y \in kept
      BY <1>2, <1>10, <2>2, <3>1 DEF BoundOK
    <3>2. CASE x \in moved /\ y \in moved
      BY <1>9, <1>11, <2>2, <3>2
    <3>3. CASE x \in kept /\ y \in moved
      BY <1>8, <1>10, <1>11, <2>2, <3>3
    <3>4. CASE x \in moved /\ y \in kept
      BY <1>8, <1>10, <1>11, <2>2, <3>4
    <3>5. QED
      BY <1>5, <3>1, <3>2, <3>3, <3>4
  <2>3. QED
    BY <2>1, <2>2 DEF BoundOK
<1>13. QED
  BY <1>7, <1>12 DEF TableOK

(* An empty table is whole.                                                *)
LEMMA NewTableOK == BlueOK(NewTable)
<1>1. NewTable.nodes = {<< >>} /\ NewTable.bound = {}
      /\ NewTable = [nodes |-> NewTable.nodes, bound |-> NewTable.bound]
  BY DEF NewTable
<1>2. NodeOK(<< >>, NewTable.nodes)
  BY DEF NodeOK
<1>3. QED
  BY <1>1, <1>2 DEF BlueOK, TableOK, TreeOK, BoundOK

(* The tables stay trees with at most one handler for a node and a verb.   *)
LEMMA RouterInductive ==
    ASSUME RouterInv, [RouterNext]_routerVars
    PROVE  RouterInv'
<1>1. TableOK(server) /\ BlueOK(blue) /\ TableOK(blue)
  BY DEF RouterInv, BlueOK
<1>2. /\ Patterns \subseteq Routes /\ BluePatterns \subseteq Routes
      /\ UrlPrefixes \subseteq Routes /\ <<Empty>> \notin BluePatterns
  BY PathsAssumption DEF Routes
<1>3. ASSUME NEW p \in Patterns, NEW v, HandleServer(p, v) PROVE RouterInv'
  <2>1. server' = handle(server, "server", p, v) /\ blue' = blue
    BY <1>3 DEF HandleServer
  <2>2. TableOK(server')
    BY <1>1, <1>2, <2>1, HandleKeeps
  <2>3. QED
    BY <1>1, <2>1, <2>2 DEF RouterInv
<1>4. ASSUME NEW p \in BluePatterns, NEW v, HandleBlue(p, v) PROVE RouterInv'
  <2>1. blue' = handle(blue, "blue", p, v) /\ server' = server
    BY <1>4 DEF HandleBlue
  <2>2. TableOK(blue')
        /\ \A b \in blue'.bound : b \in blue.bound \/ b.node = Target(blue, p)
    BY <1>1, <1>2, <2>1, HandleKeeps
  <2>3. Target(blue, p) # <<Empty>>
    <3>1. Slash # Empty /\ Empty \in Segs /\ NoNode \notin Seq(Segs)
      BY SegsAssumption
    <3>2. <<Empty>> \in Seq(Segs) /\ <<Slash>> # <<Empty>>
      BY <3>1
    <3>3. QED
      BY <1>2, <3>1, <3>2 DEF Target
  <2>4. BlueOK(blue')
    BY <1>1, <2>2, <2>3 DEF BlueOK
  <2>5. QED
    BY <1>1, <2>1, <2>4 DEF RouterInv
<1>5. ASSUME NEW p \in UrlPrefixes, register_blueprint(p) PROVE RouterInv'
  <2>1. server' = add_blueprint(server, blue, p) /\ blue' = blue
    BY <1>5 DEF register_blueprint
  <2>2. TableOK(server')
    BY <1>1, <1>2, <2>1, MergeKeeps
  <2>3. QED
    BY <1>1, <2>1, <2>2 DEF RouterInv
<1>6. ASSUME NEW p \in UrlPrefixes, Static(p) PROVE RouterInv'
  <2>1. server' = add_blueprint(server, StaticBlue, p) /\ blue' = blue
    BY <1>6 DEF Static
  <2>2. AnyStar \in Segs \ {Slash, Empty}
    BY SegsAssumption
  <2>3. <<AnyStar>> \in Routes /\ <<AnyStar>> # <<Empty>> /\ <<AnyStar>> # << >>
    BY <2>2 DEF Routes
  <2>4. TableOK(NewTable) /\ NewTable.bound = {}
    BY NewTableOK DEF BlueOK, NewTable
  <2>5. TableOK(StaticBlue)
        /\ \A b \in StaticBlue.bound : b.node = Target(NewTable, <<AnyStar>>)
    BY <2>3, <2>4, HandleKeeps DEF StaticBlue
  <2>6. BlueOK(StaticBlue)
    BY <2>3, <2>5 DEF BlueOK, Target
  <2>7. TableOK(server')
    BY <1>1, <1>2, <2>1, <2>6, MergeKeeps
  <2>8. QED
    BY <1>1, <2>1, <2>7 DEF RouterInv
<1>7. CASE UNCHANGED routerVars
  BY <1>1, <1>7 DEF routerVars, RouterInv
<1>8. CASE RouterNext
  BY <1>3, <1>4, <1>5, <1>6, <1>8 DEF RouterNext
<1>9. QED
  BY <1>7, <1>8

-----------------------------------------------------------------------------
(* What the program asked for is in the tree                               *)

(* The handlers bound are those wanted, and "/" is there only if wanted.   *)
Holds(t, w) ==
    /\ t.bound = w
    /\ <<Slash>> \in t.nodes => \E x \in w : x.node = <<Slash>>

(* Every node of a blueprint leads to a handler.                           *)
LeadsTo(n, q) == Len(n) <= Len(q) /\ n = SubSeq(q, 1, Len(n))
Covered(t, w) == \A n \in t.nodes : n = << >> \/ \E x \in w : LeadsTo(n, x.node)

WantedInv ==
    orderly => /\ Holds(server, wanted)
               /\ Holds(blue, wantedBlue) /\ Covered(blue, wantedBlue)

(* The nodes made for a path lead to it, and are not that of "/".          *)
LEMMA GrownLeads ==
    ASSUME NEW path \in Routes
    PROVE  /\ Place(path) \in Seq(Segs)
           /\ \A n \in Grown(path) : LeadsTo(n, Place(path))
           /\ <<Slash>> \in Grown(path) => path = << >>
<1>1. CASE path = << >>
  <2>1. Slash \in Segs
    BY SegsAssumption
  <2> DEFINE s == <<Slash>>
  <2>2. s \in Seq(Segs) /\ s = SubSeq(s, 1, Len(s)) /\ Len(s) <= Len(s)
    BY <2>1
  <2>3. Grown(path) = {s} /\ Place(path) = s
    BY <1>1 DEF Grown, Place
  <2> HIDE DEF s
  <2>4. QED
    BY <1>1, <2>2, <2>3 DEF LeadsTo
<1>2. CASE path # << >>
  <2>1. path \in Seq(Segs \ {Slash}) /\ path \in Seq(Segs) /\ Place(path) = path
    BY <1>2 DEF Routes, Place
  <2>2. ASSUME NEW n \in Grown(path)
        PROVE  LeadsTo(n, path) /\ n # <<Slash>>
    <3>1. PICK l \in 0 .. Len(path) : n = SubSeq(path, 1, l)
      BY <1>2 DEF Grown, Prefixes
    <3>2. n \in Seq(Segs \ {Slash}) /\ Len(n) = l
      BY <2>1, <3>1
    <3>3. n # <<Slash>>
      <4>1. SUFFICES ASSUME n = <<Slash>> PROVE FALSE
        OBVIOUS
      <4>2. 1 \in 1 .. Len(n) /\ n[1] = Slash
        BY <4>1
      <4>3. \A i \in 1 .. Len(n) : n[i] \in Segs \ {Slash}
        BY <3>2, ElementOfSeq
      <4>4. QED
        BY <4>2, <4>3
    <3>4. QED
      BY <3>1, <3>2, <3>3 DEF LeadsTo
  <2>3. QED
    BY <2>1, <2>2
<1>3. QED
  BY <1>1, <1>2

(* The program's handler is there afterwards, its own or the first.        *)
LEMMA WithIs ==
    ASSUME NEW w, NEW from, NEW path, NEW verb
    PROVE  /\ w \subseteq With(w, from, path, verb)
           /\ \E x \in With(w, from, path, verb) : x.node = Place(path)
<1> DEFINE d == Wanted(Place(path), verb, from, path)
<1>1. d.node = Place(path)
  BY DEF Wanted
<1> HIDE DEF d
<1>2. CASE verb \in WantedVerbs(w, Place(path))
  <2>1. \E x \in w : x.node = Place(path)
    BY <1>2 DEF WantedVerbs
  <2>2. QED
    BY <1>2, <2>1 DEF With
<1>3. CASE verb \notin WantedVerbs(w, Place(path))
  <2>1. With(w, from, path, verb) = w \cup {d}
    BY <1>3 DEF With, d
  <2>2. QED
    BY <1>1, <2>1
<1>4. QED
  BY <1>2, <1>3

(* A registration binds what is wanted.                                    *)
LEMMA HandleHolds ==
    ASSUME NEW t, TableOK(t), NEW w, Holds(t, w), NEW from, NEW verb,
           NEW path \in Routes, NEW h, h = handle(t, from, path, verb),
           ~SlashAgain(w, path, verb)
    PROVE  Holds(h, With(w, from, path, verb))
<1> DEFINE n == Target(t, path)
           d == [node |-> n, verb |-> verb,
                 handler |-> [from |-> from, route |-> path]]
           new == With(w, from, path, verb)
<1>1. TreeOK(t) /\ t.bound = w
  BY DEF TableOK, Holds
<1>2. /\ n = Target(t, path)
      /\ d = [node |-> n, verb |-> verb,
              handler |-> [from |-> from, route |-> path]]
  OBVIOUS
<1>3. n = Place(path) => d = Wanted(Place(path), verb, from, path)
  BY DEF Wanted
<1> HIDE DEF n, d
<1>4. /\ h.nodes = t.nodes \cup Grown(path)
      /\ \/ (n = NoNode \/ verb \in VerbsAt(t, n)) /\ h.bound = t.bound
         \/ /\ n # NoNode /\ verb \notin VerbsAt(t, n)
            /\ h.bound = t.bound \cup {d}
  BY <1>1, <1>2, HandleIs
<1>5. \A m : VerbsAt(t, m) = WantedVerbs(w, m)
  BY <1>1 DEF VerbsAt, WantedVerbs
<1>6. CASE n = Place(path) /\ n # NoNode
  <2>1. h.bound = new
    BY <1>1, <1>3, <1>4, <1>5, <1>6 DEF With
  <2>2. QED
    BY <1>4, <2>1, GrownLeads, WithIs DEF Holds, Place
<1>7. CASE path = << >> /\ n = NoNode /\ <<Slash>> \in t.nodes
  <2>1. PICK x \in w : x.node = <<Slash>>
    BY <1>7 DEF Holds
  <2>2. WantedVerbs(w, <<Slash>>) # {}
    BY <2>1 DEF WantedVerbs
  <2>3. verb \in WantedVerbs(w, Place(path))
    BY <1>7, <2>2 DEF SlashAgain, Place
  <2>4. new = w
    BY <2>3 DEF With
  <2>5. h.bound = w
    BY <1>1, <1>4, <1>7
  <2>6. QED
    BY <2>1, <2>4, <2>5 DEF Holds
<1>8. CASE path # << >>
  <2>1. n = path /\ Place(path) = path
    BY <1>2, <1>8 DEF Target, Place
  <2>2. n # NoNode
    BY <2>1, SegsAssumption, GrownLeads
  <2>3. QED
    BY <1>6, <2>1, <2>2
<1>9. CASE path = << >> /\ <<Slash>> \notin t.nodes
  <2>1. n = <<Slash>> /\ Place(path) = <<Slash>>
    BY <1>2, <1>9 DEF Target, Place
  <2>2. n # NoNode
    BY <2>1, SegsAssumption, GrownLeads
  <2>3. QED
    BY <1>6, <2>1, <2>2
<1>10. QED
  BY <1>2, <1>7, <1>8, <1>9 DEF Target

(* ... and its nodes lead to a handler.                                    *)
LEMMA HandleCovers ==
    ASSUME NEW t, TableOK(t), NEW w, Covered(t, w), NEW from, NEW verb,
           NEW path \in Routes, NEW h, h = handle(t, from, path, verb)
    PROVE  Covered(h, With(w, from, path, verb))
<1> DEFINE n == Target(t, path)
           d == [node |-> n, verb |-> verb,
                 handler |-> [from |-> from, route |-> path]]
<1>0. /\ n = Target(t, path)
      /\ d = [node |-> n, verb |-> verb,
              handler |-> [from |-> from, route |-> path]]
  OBVIOUS
<1> HIDE DEF n, d
<1>1. h.nodes = t.nodes \cup Grown(path)
  BY <1>0, HandleIs DEF TableOK
<1>2. ASSUME NEW m \in Grown(path)
      PROVE  \E x \in With(w, from, path, verb) : LeadsTo(m, x.node)
  BY GrownLeads, WithIs
<1>3. w \subseteq With(w, from, path, verb)
  BY WithIs
<1>4. QED
  BY <1>1, <1>2, <1>3 DEF Covered

(* The leaves of such a blueprint are the nodes of its handlers, if none   *)
(* is above another.                                                       *)
LEMMA LeavesAre ==
    ASSUME NEW b, TableOK(b), NEW w, b.bound = w, Covered(b, w), w # {},
           \A x, y \in w : ~IsStrictPrefix(x.node, y.node)
    PROVE  Leaves(b) = {x.node : x \in w}
<1>1. \A n \in b.nodes : n \in Seq(Segs) /\ \A k \in 1 .. Len(n) : SubSeq(n, 1, k) \in b.nodes
  BY DEF TableOK, TreeOK, NodeOK
<1>2. \A x \in w : x.node \in b.nodes /\ x.node # << >>
  BY DEF TableOK, BoundOK
<1>3. ASSUME NEW l \in Leaves(b), NEW q \in b.nodes, LeadsTo(l, q), l # q
      PROVE  FALSE
  <2>1. l \in b.nodes /\ Children(b, l) = {}
    BY DEF Leaves, Leaf
  <2>2. l \in Seq(Segs) /\ q \in Seq(Segs) /\ Len(l) \in Nat /\ Len(q) \in Nat
    BY <1>1, <2>1
  <2> DEFINE k == Len(l) + 1
  <2>3. k \in 1 .. Len(q) /\ k - 1 = Len(l)
    <3>1. Len(l) # Len(q)
      <4>1. SUFFICES ASSUME Len(l) = Len(q) PROVE FALSE
        OBVIOUS
      <4>2. l = SubSeq(q, 1, Len(q))
        BY <1>3, <4>1 DEF LeadsTo
      <4>3. SubSeq(q, 1, Len(q)) = q
        BY <2>2
      <4>4. QED
        BY <1>3, <4>2, <4>3
    <3>2. QED
      BY <1>3, <2>2, <3>1 DEF LeadsTo
  <2>4. SubSeq(q, 1, k) \in b.nodes
    BY <1>1, <2>3
  <2>5. SubSeq(q, 1, k) = Append(SubSeq(q, 1, Len(l)), q[k]) /\ q[k] \in Segs
    <3> HIDE DEF k
    <3>1. k \in 1 .. Len(q) /\ q \in Seq(Segs) /\ k - 1 = Len(l)
      BY <2>2, <2>3
    <3>2. SubSeq(q, 1, k) = Append(SubSeq(q, 1, k - 1), q[k])
      BY <3>1
    <3>3. QED
      BY <3>1, <3>2, ElementOfSeq
  <2>6. l = SubSeq(q, 1, Len(l))
    BY <1>3 DEF LeadsTo
  <2>7. q[k] \in Children(b, l)
    BY <2>4, <2>5, <2>6 DEF Children
  <2>8. QED
    BY <2>1, <2>7
<1>4. ASSUME NEW l \in Leaves(b) PROVE \E x \in w : l = x.node
  <2>1. l \in b.nodes
    BY DEF Leaves
  <2>2. CASE l = << >>
    <3>1. PICK x \in w : TRUE
      OBVIOUS
    <3>2. x.node \in b.nodes /\ x.node # l /\ x.node \in Seq(Segs)
      BY <1>1, <1>2, <2>2
    <3>3. LeadsTo(l, x.node)
      <4>1. Len(l) = 0 /\ SubSeq(x.node, 1, 0) = << >> /\ Len(x.node) \in Nat
        BY <2>2, <3>2
      <4>2. QED
        BY <2>2, <4>1 DEF LeadsTo
    <3>4. QED
      BY <1>3, <3>2, <3>3
  <2>3. CASE l # << >>
    <3>1. PICK x \in w : LeadsTo(l, x.node)
      BY <2>1, <2>3 DEF Covered
    <3>2. QED
      BY <1>2, <1>3, <3>1
  <2>4. QED
    BY <2>2, <2>3
<1>5. ASSUME NEW x \in w PROVE x.node \in Leaves(b)
  <2> DEFINE n == x.node
  <2>1. n \in b.nodes /\ n \in Seq(Segs)
    BY <1>1, <1>2
  <2>2. ASSUME NEW c \in Children(b, n) PROVE FALSE
    <3> DEFINE m == Append(n, c)
    <3>1. m \in b.nodes /\ c \in Segs
      BY DEF Children
    <3>2. m \in Seq(Segs) /\ Len(m) = Len(n) + 1 /\ SubSeq(m, 1, Len(n)) = n
          /\ Len(n) \in Nat /\ m # << >>
      BY <2>1, <3>1
    <3> HIDE DEF n, m
    <3>3. PICK y \in w : LeadsTo(m, y.node)
      BY <3>1, <3>2 DEF Covered
    <3>4. y.node \in Seq(Segs) /\ Len(y.node) \in Nat
      BY <1>1, <1>2
    <3>5. Len(n) < Len(y.node) /\ m = SubSeq(y.node, 1, Len(m))
      BY <3>2, <3>3, <3>4 DEF LeadsTo
    <3>6. n = SubSeq(y.node, 1, Len(n))
      <4>1. SubSeq(SubSeq(y.node, 1, Len(n) + 1), 1, Len(n)) = SubSeq(y.node, 1, Len(n))
        BY <3>2, <3>4, <3>5
      <4>2. QED
        BY <3>2, <3>5, <4>1
    <3>7. SubSeq(n, 1, Len(n)) = n
      BY <2>1 DEF n
    <3>8. IsStrictPrefix(n, y.node)
      BY <3>2, <3>4, <3>5, <3>6, <3>7 DEF IsStrictPrefix, IsPrefix
    <3>9. QED
      BY <3>8 DEF n
  <2>3. QED
    BY <2>1, <2>2 DEF Leaves, Leaf
<1>6. QED
  BY <1>4, <1>5

(* A merge that loses nothing binds what is wanted.                        *)
LEMMA MergeHolds ==
    ASSUME NEW t, TableOK(t), NEW w, Holds(t, w),
           NEW b, BlueOK(b), NEW v, b.bound = v, Covered(b, v),
           NEW prefix \in Routes, ~MergeLoses(w, v, prefix),
           NEW u, u = add_blueprint(t, b, prefix)
    PROVE  Holds(u, Merged(w, v, prefix))
<1> DEFINE spot(l) == Target(t, Joined(prefix, l))
           from == {y \in b.bound : y.node \in Leaves(b) /\ spot(y.node) # NoNode}
           moved == {[node |-> spot(x.node), verb |-> x.verb,
                      handler |-> x.handler] : x \in from}
           kept == {x \in t.bound : x.node \notin {spot(l) : l \in Leaves(b)}}
           more == UNION {Make(t, Joined(prefix, l)).nodes : l \in Leaves(b)}
           Places == {[node |-> Under(prefix, x.node), verb |-> x.verb,
                       handler |-> x.handler] : x \in v}
<1>1. u = [nodes |-> t.nodes \cup more, bound |-> kept \cup moved]
  BY DEF add_blueprint
<1>2. TableOK(b) /\ TreeOK(b) /\ BoundOK(b) /\ t.bound = w
  BY DEF BlueOK, TableOK, Holds
<1>3. Leaves(b) = {x.node : x \in v}
  <2>1. v # {} /\ \A x, y \in v : ~IsStrictPrefix(x.node, y.node)
    BY DEF MergeLoses
  <2>2. QED
    BY <1>2, <2>1, LeavesAre
<1>4. ASSUME NEW x \in v
      PROVE  /\ x.node \in b.nodes
             /\ Joined(prefix, x.node) \in Routes
             /\ Joined(prefix, x.node) # << >>
             /\ spot(x.node) = Under(prefix, x.node)
             /\ spot(x.node) # NoNode
  <2>1. x.node \in b.nodes /\ x.node # << >>
    BY <1>2 DEF BoundOK
  <2>2. Joined(prefix, x.node) \in Routes /\ Joined(prefix, x.node) # << >>
    BY <1>2, <2>1, JoinedIs
  <2>3. spot(x.node) = Joined(prefix, x.node)
    BY <2>2 DEF Target
  <2>4. Joined(prefix, x.node) = Under(prefix, x.node)
    BY DEF Joined, Under
  <2>5. Joined(prefix, x.node) \in Seq(Segs)
    BY <2>2 DEF Routes
  <2>6. QED
    BY <2>1, <2>2, <2>3, <2>4, <2>5, SegsAssumption
<1>5. from = v
  BY <1>2, <1>3, <1>4
<1>6. moved = Places
  BY <1>4, <1>5
<1>7. kept = w
  <2>1. ASSUME NEW x \in w, NEW l \in Leaves(b) PROVE x.node # spot(l)
    <3>1. PICK y \in v : l = y.node
      BY <1>3
    <3>2. spot(l) = Under(prefix, y.node)
      BY <1>4, <3>1
    <3>3. QED
      BY <3>2 DEF MergeLoses
  <2>2. QED
    BY <1>2, <2>1
<1>8. ASSUME <<Slash>> \in more PROVE <<Slash>> \in t.nodes
  <2>1. PICK l \in Leaves(b) : <<Slash>> \in Make(t, Joined(prefix, l)).nodes
    BY <1>8
  <2>2. PICK x \in v : l = x.node
    BY <1>3
  <2>3. Joined(prefix, l) \in Routes /\ Joined(prefix, l) # << >>
    BY <1>4, <2>2
  <2>4. t = [nodes |-> t.nodes, bound |-> t.bound]
    BY DEF TableOK, TreeOK
  <2>5. Make(t, Joined(prefix, l)).nodes = t.nodes \cup Grown(Joined(prefix, l))
    BY <2>4 DEF Make, Grown
  <2>6. <<Slash>> \notin Grown(Joined(prefix, l))
    BY <2>3, GrownLeads
  <2>7. QED
    BY <2>1, <2>5, <2>6
<1> HIDE DEF spot, from, moved, kept, more, Places
<1>9. u.bound = kept \cup moved /\ u.nodes = t.nodes \cup more
  BY <1>1
<1>10. Merged(w, v, prefix) = w \cup Places
  BY DEF Merged, Places
<1>11. u.bound = Merged(w, v, prefix)
  BY <1>6, <1>7, <1>9, <1>10
<1>12. QED
  BY <1>8, <1>9, <1>10, <1>11 DEF Holds

(* The tree of serve_static holds what it is for.                          *)
LEMMA StaticHolds ==
    BlueOK(StaticBlue) /\ StaticBlue.bound = StaticWanted
                       /\ Covered(StaticBlue, StaticWanted)
<1>1. AnyStar \in Segs \ {Slash, Empty}
  BY SegsAssumption
<1>2. <<AnyStar>> \in Routes /\ <<AnyStar>> # <<Empty>> /\ <<AnyStar>> # << >>
  BY <1>1 DEF Routes
<1>3. TableOK(NewTable) /\ NewTable.bound = {} /\ NewTable.nodes = {<< >>}
  BY NewTableOK DEF BlueOK, NewTable
<1>4. TableOK(StaticBlue)
      /\ \A b \in StaticBlue.bound : b.node = Target(NewTable, <<AnyStar>>)
  BY <1>2, <1>3, HandleKeeps DEF StaticBlue
<1>5. BlueOK(StaticBlue)
  BY <1>2, <1>4 DEF BlueOK, Target
<1>6. Holds(NewTable, {}) /\ Covered(NewTable, {})
  <2>1. << >> # <<Slash>>
    OBVIOUS
  <2>2. QED
    BY <1>3, <2>1 DEF Holds, Covered
<1>7. ~SlashAgain({}, <<AnyStar>>, "GET")
  BY <1>2 DEF SlashAgain
<1>8. With({}, "static", <<AnyStar>>, "GET") = StaticWanted
  BY <1>2 DEF With, WantedVerbs, StaticWanted, Place
<1>9. Holds(StaticBlue, StaticWanted) /\ Covered(StaticBlue, StaticWanted)
  BY <1>2, <1>3, <1>6, <1>7, <1>8, HandleHolds, HandleCovers DEF StaticBlue
<1>10. QED
  BY <1>5, <1>9 DEF Holds

(* Whatever the program asks for is there, until it makes a call that      *)
(* loses handlers.                                                         *)
LEMMA WantedInductive ==
    ASSUME RouterInv, WantedInv, [RouterNext]_routerVars
    PROVE  WantedInv'
<1>1. TableOK(server) /\ BlueOK(blue) /\ TableOK(blue)
  BY DEF RouterInv, BlueOK
<1>2. /\ Patterns \subseteq Routes /\ BluePatterns \subseteq Routes
      /\ UrlPrefixes \subseteq Routes
  BY PathsAssumption DEF Routes
<1>3. SUFFICES ASSUME orderly'
               PROVE  /\ Holds(server', wanted') /\ Holds(blue', wantedBlue')
                      /\ Covered(blue', wantedBlue')
  BY DEF WantedInv, Holds, Covered
<1>4. ASSUME NEW loses, NEW w, NEW b, Want(loses, w, b)
      PROVE  /\ ~loses /\ wanted' = w /\ wantedBlue' = b
             /\ Holds(server, wanted) /\ Holds(blue, wantedBlue)
             /\ Covered(blue, wantedBlue)
  BY <1>3, <1>4 DEF Want, WantedInv
<1>5. ASSUME NEW p \in Patterns, NEW v, HandleServer(p, v)
      PROVE  /\ Holds(server', wanted') /\ Holds(blue', wantedBlue')
             /\ Covered(blue', wantedBlue')
  <2>1. server' = handle(server, "server", p, v) /\ blue' = blue
    BY <1>5 DEF HandleServer
  <2>2. /\ ~SlashAgain(wanted, p, v) /\ wantedBlue' = wantedBlue
        /\ wanted' = With(wanted, "server", p, v)
        /\ Holds(server, wanted) /\ Holds(blue, wantedBlue)
        /\ Covered(blue, wantedBlue)
    BY <1>4, <1>5 DEF HandleServer
  <2>3. Holds(server', wanted')
    BY <1>1, <1>2, <2>1, <2>2, HandleHolds
  <2>4. QED
    BY <2>1, <2>2, <2>3
<1>6. ASSUME NEW p \in BluePatterns, NEW v, HandleBlue(p, v)
      PROVE  /\ Holds(server', wanted') /\ Holds(blue', wantedBlue')
             /\ Covered(blue', wantedBlue')
  <2>1. blue' = handle(blue, "blue", p, v) /\ server' = server
    BY <1>6 DEF HandleBlue
  <2>2. /\ ~SlashAgain(wantedBlue, p, v) /\ wanted' = wanted
        /\ wantedBlue' = With(wantedBlue, "blue", p, v)
        /\ Holds(server, wanted) /\ Holds(blue, wantedBlue)
        /\ Covered(blue, wantedBlue)
    BY <1>4, <1>6 DEF HandleBlue
  <2>3. Holds(blue', wantedBlue')
    BY <1>1, <1>2, <2>1, <2>2, HandleHolds
  <2>4. Covered(blue', wantedBlue')
    BY <1>1, <1>2, <2>1, <2>2, HandleCovers
  <2>5. QED
    BY <2>1, <2>2, <2>3, <2>4
<1>7. ASSUME NEW p \in UrlPrefixes, register_blueprint(p)
      PROVE  /\ Holds(server', wanted') /\ Holds(blue', wantedBlue')
             /\ Covered(blue', wantedBlue')
  <2>1. server' = add_blueprint(server, blue, p) /\ blue' = blue
    BY <1>7 DEF register_blueprint
  <2>2. /\ ~MergeLoses(wanted, wantedBlue, p) /\ wantedBlue' = wantedBlue
        /\ wanted' = Merged(wanted, wantedBlue, p)
        /\ Holds(server, wanted) /\ Holds(blue, wantedBlue)
        /\ Covered(blue, wantedBlue)
    BY <1>4, <1>7 DEF register_blueprint
  <2>3. blue.bound = wantedBlue
    BY <2>2 DEF Holds
  <2>4. Holds(server', wanted')
    BY <1>1, <1>2, <2>1, <2>2, <2>3, MergeHolds
  <2>5. QED
    BY <2>1, <2>2, <2>4
<1>8. ASSUME NEW p \in UrlPrefixes, Static(p)
      PROVE  /\ Holds(server', wanted') /\ Holds(blue', wantedBlue')
             /\ Covered(blue', wantedBlue')
  <2>1. server' = add_blueprint(server, StaticBlue, p) /\ blue' = blue
    BY <1>8 DEF Static
  <2>2. /\ ~MergeLoses(wanted, StaticWanted, p) /\ wantedBlue' = wantedBlue
        /\ wanted' = Merged(wanted, StaticWanted, p)
        /\ Holds(server, wanted) /\ Holds(blue, wantedBlue)
        /\ Covered(blue, wantedBlue)
    BY <1>4, <1>8 DEF Static
  <2>3. Holds(server', wanted')
    BY <1>1, <1>2, <2>1, <2>2, StaticHolds, MergeHolds
  <2>4. QED
    BY <2>1, <2>2, <2>3
<1>9. CASE UNCHANGED routerVars
  <2>1. /\ server' = server /\ blue' = blue /\ wanted' = wanted
        /\ wantedBlue' = wantedBlue /\ orderly
    BY <1>3, <1>9 DEF routerVars
  <2>2. QED
    BY <2>1 DEF WantedInv
<1>10. CASE RouterNext
  BY <1>5, <1>6, <1>7, <1>8, <1>10 DEF RouterNext
<1>11. QED
  BY <1>9, <1>10

-----------------------------------------------------------------------------
(* What find computes, as a function of the node it has reached.           *)

Dom(t, R) == {m \in t.nodes : Len(m) <= Len(R)}
Named(R, n) == Append(n, R[Len(n) + 1])
Exact(t, R, f, n) ==
    IF Named(R, n) \in t.nodes THEN f[Named(R, n)] ELSE Hit(NoNode, << >>, << >>)
First(t, R, n) == FirstWild(t, n, R[Len(n) + 1])
None(t, R, n) == Wild(t, n, R[Len(n) + 1]) = {}
AtRoot(t, R, n) == n = << >> /\ R = <<Empty>> /\ <<Slash>> \in t.nodes
OnStar(t, n) == IF AnyStar \in Children(t, n) THEN Append(n, AnyStar) ELSE NoNode
ByStar(t, R, f, n) ==
    Hit(Append(n, First(t, R, n)), Exact(t, R, f, n).sets,
        SubSeq(R, Len(n) + 1, Len(R)))
ByParam(t, R, f, n) ==
    LET below == f[Append(n, First(t, R, n))]
    IN  Hit(below.node,
            Exact(t, R, f, n).sets
                \o <<<<NameOf[First(t, R, n)], R[Len(n) + 1]>>>> \o below.sets,
            below.match)

Step(t, R, f, n) ==
    IF Found(t, n, R) THEN Hit(n, << >>, << >>)
    ELSE IF Len(n) = Len(R) THEN Hit(OnStar(t, n), << >>, << >>)
    ELSE IF AtRoot(t, R, n) THEN f[<<Slash>>]
    ELSE IF ~FallsThrough(t, Named(R, n), Exact(t, R, f, n))
    THEN Exact(t, R, f, n)
    ELSE IF None(t, R, n) THEN Hit(NoNode, Exact(t, R, f, n).sets, << >>)
    ELSE IF First(t, R, n) \in Stars THEN ByStar(t, R, f, n)
    ELSE ByParam(t, R, f, n)

IsFind(t, R, f) == f = [n \in Dom(t, R) |-> Step(t, R, f, n)]

(* find is the solution of its recursive definition, at the root.          *)
LEMMA FindIs ==
    ASSUME NEW t, NEW R
    PROVE  find(t, R) = (CHOOSE f : IsFind(t, R, f))[<< >>]
BY DEF find, IsFind, Dom, Step, Named, Exact, First, None, AtRoot, OnStar,
       ByStar, ByParam

(* The child find takes for a segment that has no child of its name.       *)
LEMMA WildIs ==
    ASSUME NEW t, NEW R, NEW n, ~None(t, R, n)
    PROVE  LET c == First(t, R, n)
           IN  /\ c \in Segs /\ Append(n, c) \in t.nodes
               /\ \/ c \in Params
                  \/ c \in Stars /\ <<R[Len(n) + 1], c>> \in StartsWith
<1> DEFINE s == R[Len(n) + 1]
           W == Wild(t, n, s)
           i == CHOOSE j \in W : \A k \in W : j <= k
<1>1. W \subseteq Nat /\ W # {}
  <2>1. SegOrder \in Seq(STRING)
    BY SegsAssumption
  <2>2. Len(SegOrder) \in Nat
    BY <2>1
  <2>3. 1 .. Len(SegOrder) \subseteq Nat
    BY <2>2
  <2>4. W # {}
    BY DEF None
  <2>5. QED
    BY <2>3, <2>4 DEF Wild
<1>2. First(t, R, n) = SegOrder[i]
  BY DEF First, FirstWild
<1>3. i \in W
  <2> HIDE DEF W
  <2>1. \E j \in W : \A k \in W : j <= k
    BY <1>1, Least
  <2>2. QED
    BY <2>1
<1> HIDE DEF i
<1>4. /\ SegOrder[i] \in Children(t, n)
      /\ \/ SegOrder[i] \in Params
         \/ SegOrder[i] \in Stars /\ <<s, SegOrder[i]>> \in StartsWith
  BY <1>3 DEF Wild, StarTakes
<1>5. SegOrder[i] \in Segs /\ Append(n, SegOrder[i]) \in t.nodes
  BY <1>4 DEF Children
<1> HIDE DEF s
<1>6. QED
  BY <1>2, <1>4, <1>5 DEF s

(* The children are reached with one segment more.                         *)
LEMMA ChildIn ==
    ASSUME NEW t, TreeOK(t), NEW R \in Seq(Segs), NEW n \in Dom(t, R),
           Len(n) # Len(R)
    PROVE  /\ Len(n) \in Nat /\ Len(n) < Len(R) /\ n \in Seq(Segs)
           /\ R[Len(n) + 1] \in Segs
           /\ \A c \in Segs : /\ Len(Append(n, c)) = Len(n) + 1
                              /\ Append(n, c) \in t.nodes
                                     => Append(n, c) \in Dom(t, R)
<1>1. n \in t.nodes /\ Len(n) <= Len(R)
  BY DEF Dom
<1>2. n \in Seq(Segs)
  BY <1>1 DEF TreeOK, NodeOK
<1>3. Len(n) \in Nat /\ Len(R) \in Nat
  BY <1>2
<1>4. Len(n) + 1 \in 1 .. Len(R)
  BY <1>1, <1>3
<1>5. QED
  BY <1>1, <1>2, <1>3, <1>4 DEF Dom

(* A step looks only at nodes one longer than its own.                     *)
LEMMA StepAgrees ==
    ASSUME NEW t, TreeOK(t), NEW R \in Seq(Segs), NEW f, NEW g,
           NEW n \in Dom(t, R),
           \A m \in Dom(t, R) : Len(m) = Len(n) + 1 => f[m] = g[m]
    PROVE  Step(t, R, f, n) = Step(t, R, g, n)
<1>1. CASE Found(t, n, R) \/ Len(n) = Len(R)
  BY <1>1 DEF Step
<1>2. CASE ~Found(t, n, R) /\ Len(n) # Len(R)
  <2>1. /\ Len(n) \in Nat /\ R[Len(n) + 1] \in Segs
        /\ \A c \in Segs : /\ Len(Append(n, c)) = Len(n) + 1
                           /\ Append(n, c) \in t.nodes
                                  => Append(n, c) \in Dom(t, R)
    BY <1>2, ChildIn
  <2>2. Exact(t, R, f, n) = Exact(t, R, g, n)
    BY <2>1 DEF Exact, Named
  <2>3. CASE AtRoot(t, R, n)
    <3>1. Slash \in Segs
      BY SegsAssumption
    <3>2. Append(n, Slash) = <<Slash>>
      BY <2>3 DEF AtRoot
    <3>3. f[<<Slash>>] = g[<<Slash>>]
      BY <2>1, <2>3, <3>1, <3>2 DEF AtRoot
    <3>4. QED
      BY <1>2, <2>3, <3>3 DEF Step
  <2>4. CASE ~AtRoot(t, R, n) /\ ~None(t, R, n)
    <3>1. First(t, R, n) \in Segs /\ Append(n, First(t, R, n)) \in t.nodes
      BY <2>4, WildIs
    <3>2. f[Append(n, First(t, R, n))] = g[Append(n, First(t, R, n))]
      BY <2>1, <3>1
    <3>3. ByParam(t, R, f, n) = ByParam(t, R, g, n)
          /\ ByStar(t, R, f, n) = ByStar(t, R, g, n)
      BY <2>2, <3>2 DEF ByParam, ByStar
    <3>4. QED
      BY <1>2, <2>2, <2>4, <3>3 DEF Step
  <2>5. CASE ~AtRoot(t, R, n) /\ None(t, R, n)
    BY <1>2, <2>2, <2>5 DEF Step
  <2>6. QED
    BY <2>3, <2>4, <2>5
<1>3. QED
  BY <1>1, <1>2

(* The recursion is well founded: there is a function that satisfies it.   *)
From(t, R, k) == {m \in Dom(t, R) : Len(m) + k >= Len(R)}
IsPart(t, R, k, f) == f = [n \in From(t, R, k) |-> Step(t, R, f, n)]

(* A solution down to a depth extends one level up ...                     *)
LEMMA PartExtends ==
    ASSUME NEW t, TreeOK(t), NEW R \in Seq(Segs),
           NEW k \in Nat, NEW f, IsPart(t, R, k, f)
    PROVE  \E g : IsPart(t, R, k + 1, g)
<1> DEFINE g == [n \in From(t, R, k + 1) |-> Step(t, R, f, n)]
<1>1. ASSUME NEW n \in From(t, R, k + 1) PROVE Step(t, R, g, n) = Step(t, R, f, n)
  <2>1. n \in Dom(t, R) /\ Len(n) + (k + 1) >= Len(R)
    BY DEF From
  <2>2. Len(n) \in Nat /\ Len(R) \in Nat
    BY <2>1 DEF Dom, TreeOK, NodeOK
  <2>3. ASSUME NEW m \in Dom(t, R), Len(m) = Len(n) + 1 PROVE g[m] = f[m]
    <3>1. m \in From(t, R, k) /\ m \in From(t, R, k + 1)
      BY <2>1, <2>2, <2>3 DEF From
    <3>2. g[m] = Step(t, R, f, m)
      BY <3>1
    <3>3. f[m] = Step(t, R, f, m)
      BY <3>1 DEF IsPart
    <3>4. QED
      BY <3>2, <3>3
  <2> HIDE DEF g
  <2>4. QED
    BY <2>1, <2>3, StepAgrees
<1>2. g = [n \in From(t, R, k + 1) |-> Step(t, R, g, n)]
  BY <1>1
<1> HIDE DEF g
<1>3. QED
  BY <1>2 DEF IsPart

(* ... so the recursive definition has a solution.                         *)
LEMMA FindExists ==
    ASSUME NEW t, TreeOK(t), NEW R \in Seq(Segs)
    PROVE  \E f : IsFind(t, R, f)
<1> DEFINE Bad == {k \in Nat : ~\E f : IsPart(t, R, k, f)}
<1>1. Bad = {}
  <2>1. SUFFICES ASSUME Bad # {} PROVE FALSE
    OBVIOUS
  <2>2. PICK k \in Bad : \A j \in Bad : k <= j
    BY <2>1, Least
  <2>3. k # 0
    <3> DEFINE f == [n \in From(t, R, 0) |-> Step(t, R, << >>, n)]
    <3>1. ASSUME NEW n \in From(t, R, 0) PROVE Step(t, R, f, n) = Step(t, R, << >>, n)
      <4>1. n \in Dom(t, R) /\ Len(n) + 0 >= Len(R)
        BY DEF From
      <4>2. Len(n) \in Nat /\ Len(R) \in Nat
        BY <4>1 DEF Dom, TreeOK, NodeOK
      <4>3. \A m \in Dom(t, R) : Len(m) # Len(n) + 1
        BY <4>1, <4>2 DEF Dom
      <4> HIDE DEF f
      <4>4. QED
        BY <4>1, <4>3, StepAgrees
    <3>2. f = [n \in From(t, R, 0) |-> Step(t, R, f, n)]
      BY <3>1
    <3> HIDE DEF f
    <3>3. IsPart(t, R, 0, f)
      BY <3>2 DEF IsPart
    <3>4. QED
      BY <3>3
  <2>4. k - 1 \in Nat /\ k - 1 \notin Bad /\ (k - 1) + 1 = k
    <3>1. k \in Nat
      OBVIOUS
    <3> HIDE DEF Bad
    <3>2. QED
      BY <2>2, <2>3, <3>1
  <2>5. PICK f : IsPart(t, R, k - 1, f)
    BY <2>4
  <2>6. \E g : IsPart(t, R, (k - 1) + 1, g)
    BY <2>4, <2>5, PartExtends
  <2>7. QED
    BY <2>4, <2>6
<1>2. Len(R) \in Nat
  OBVIOUS
<1>3. PICK f : IsPart(t, R, Len(R), f)
  BY <1>1, <1>2
<1>4. \A n \in Dom(t, R) : Len(n) \in Nat
  BY DEF Dom, TreeOK, NodeOK
<1>5. From(t, R, Len(R)) = Dom(t, R)
  BY <1>2, <1>4 DEF From
<1>6. QED
  BY <1>3, <1>5 DEF IsPart, IsFind

(* The cases of find at a node.                                            *)
LEMMA FindAt ==
    ASSUME NEW t, TreeOK(t), NEW R \in Seq(Segs),
           NEW f, IsFind(t, R, f), NEW n \in Dom(t, R)
    PROVE  \/ Found(t, n, R) /\ f[n] = Hit(n, << >>, << >>)
           \/ /\ ~Found(t, n, R) /\ Len(n) = Len(R)
              /\ f[n] = Hit(OnStar(t, n), << >>, << >>)
           \/ /\ ~Found(t, n, R) /\ Len(n) # Len(R)
              /\ \/ AtRoot(t, R, n) /\ f[n] = f[<<Slash>>]
                 \/ /\ ~AtRoot(t, R, n)
                    /\ \/ /\ Named(R, n) \in t.nodes /\ f[n] = f[Named(R, n)]
                          /\ f[n].node # NoNode
                       \/ /\ Exact(t, R, f, n).node = NoNode
                          /\ \/ /\ None(t, R, n)
                                /\ f[n] = Hit(NoNode, Exact(t, R, f, n).sets, << >>)
                             \/ /\ ~None(t, R, n) /\ First(t, R, n) \in Stars
                                /\ f[n] = ByStar(t, R, f, n)
                             \/ /\ ~None(t, R, n) /\ First(t, R, n) \in Params
                                /\ f[n] = ByParam(t, R, f, n)
<1>1. f[n] = Step(t, R, f, n)
  BY DEF IsFind
<1>2. CASE Found(t, n, R) \/ Len(n) = Len(R)
  BY <1>1, <1>2 DEF Step
<1>3. CASE ~Found(t, n, R) /\ Len(n) # Len(R) /\ AtRoot(t, R, n)
  BY <1>1, <1>3 DEF Step
<1>4. CASE ~Found(t, n, R) /\ Len(n) # Len(R) /\ ~AtRoot(t, R, n)
  <2>1. CASE Exact(t, R, f, n).node # NoNode
    <3>1. Named(R, n) \in t.nodes
      BY <2>1 DEF Exact, Hit
    <3>2. QED
      BY <1>1, <1>4, <2>1, <3>1 DEF Step, Exact, FallsThrough
  <2>2. CASE Exact(t, R, f, n).node = NoNode
    <3>1. ~None(t, R, n) => First(t, R, n) \in Params \/ First(t, R, n) \in Stars
      BY WildIs
    <3>2. QED
      BY <1>1, <1>4, <2>2, <3>1 DEF Step, FallsThrough
  <2>3. QED
    BY <2>1, <2>2
<1>5. QED
  BY <1>2, <1>3, <1>4

(* What holds at a node if it holds at the nodes one longer holds at all.  *)
Climbs(t, R, G) ==
    \A n \in Dom(t, R) :
        (\A m \in Dom(t, R) : Len(m) = Len(n) + 1 => m \in G) => n \in G

(* What holds below holds above: induction from the leaves of the search.  *)
LEMMA Descend ==
    ASSUME NEW t, TreeOK(t), NEW R \in Seq(Segs), NEW G, Climbs(t, R, G)
    PROVE  Dom(t, R) \subseteq G
<1> DEFINE Bad == {k \in Nat : \E n \in Dom(t, R) : n \notin G /\ Len(n) + k = Len(R)}
<1>1. \A n \in Dom(t, R) : Len(n) \in Nat /\ Len(R) \in Nat /\ Len(n) <= Len(R)
  BY DEF Dom, TreeOK, NodeOK
<1>2. SUFFICES ASSUME NEW n \in Dom(t, R), n \notin G PROVE FALSE
  OBVIOUS
<1>3. Len(R) - Len(n) \in Nat /\ Len(n) + (Len(R) - Len(n)) = Len(R)
  BY <1>1
<1>4. Bad # {} /\ Bad \subseteq Nat
  BY <1>2, <1>3
<1>5. PICK k \in Bad : \A j \in Bad : k <= j
  <2> HIDE DEF Bad
  <2>1. QED
    BY <1>4, Least
<1>6. PICK m \in Dom(t, R) : m \notin G /\ Len(m) + k = Len(R)
  BY <1>5
<1>7. PICK c \in Dom(t, R) : Len(c) = Len(m) + 1 /\ c \notin G
  BY <1>6 DEF Climbs
<1>8. k \in Nat /\ k - 1 \in Nat /\ Len(c) + (k - 1) = Len(R)
  <2>1. k \in Nat
    BY <1>5
  <2>2. Len(m) \in Nat /\ Len(c) \in Nat /\ Len(R) \in Nat /\ Len(c) <= Len(R)
    BY <1>1, <1>6, <1>7
  <2> HIDE DEF Bad
  <2>3. QED
    BY <1>6, <1>7, <2>1, <2>2
<1>9. k - 1 \in Bad
  BY <1>7, <1>8
<1>10. QED
  <2> HIDE DEF Bad
  <2>1. QED
    BY <1>5, <1>8, <1>9

-----------------------------------------------------------------------------
(* A request goes to a route that describes it                             *)

(* The path of the root ends at its one node.                              *)
LEMMA SlashHit ==
    ASSUME NEW t, TreeOK(t), NEW R \in Seq(Segs),
           NEW f, IsFind(t, R, f), <<Slash>> \in Dom(t, R)
    PROVE  Leaf(t, <<Slash>>) /\ f[<<Slash>>] = Hit(<<Slash>>, << >>, << >>)
<1>1. ASSUME NEW c \in Segs, Append(<<Slash>>, c) \in t.nodes PROVE FALSE
  <2> DEFINE m == Append(<<Slash>>, c)
  <2>1. NodeOK(m, t.nodes)
    BY <1>1 DEF TreeOK
  <2>2. Slash \in Segs
    BY SegsAssumption
  <2>3. m[1] = Slash /\ Len(m) = 2 /\ Len(<<Slash>>) = 1
    BY <1>1, <2>2
  <2> HIDE DEF m
  <2>4. m = <<Slash>>
    BY <2>1, <2>3 DEF NodeOK
  <2>5. QED
    BY <2>3, <2>4
<1>2. Leaf(t, <<Slash>>)
  BY <1>1 DEF Leaf, Children
<1>3. Found(t, <<Slash>>, R)
  BY <1>2 DEF Found
<1>4. QED
  BY <1>2, <1>3, FindAt

(* The parts of a hit.                                                     *)
LEMMA HitIs ==
    ASSUME NEW m, NEW sets, NEW match
    PROVE  Hit(m, sets, match).node = m /\ Hit(m, sets, match).sets = sets
BY DEF Hit

(* A match grows by a segment that matches.                                *)
LEMMA MatchesMore ==
    ASSUME NEW R \in Seq(Segs), NEW n \in Seq(Segs), MatchesFirst(n, R),
           Len(n) < Len(R), NEW c \in Segs, SegMatches(c, R[Len(n) + 1])
    PROVE  MatchesFirst(Append(n, c), R)
<1> DEFINE m == Append(n, c)
<1>1. Len(n) \in Nat /\ Len(R) \in Nat /\ Len(m) = Len(n) + 1
      /\ m[Len(n) + 1] = c /\ \A i \in 1 .. Len(n) : m[i] = n[i]
  OBVIOUS
<1>2. \A i \in 1 .. Len(n) : SegMatches(n[i], R[i])
  BY DEF MatchesFirst
<1> HIDE DEF m
<1>3. \A i \in 1 .. Len(m) : i \in 1 .. Len(n) \/ i = Len(n) + 1
  BY <1>1
<1>4. Len(m) <= Len(R)
  BY <1>1
<1>5. QED
  BY <1>1, <1>2, <1>3, <1>4 DEF MatchesFirst, m

(* What RoutedByPattern asks of the node m that answers R.                 *)
Answers(t, m, R) ==
    \/ m = <<Slash>> /\ R = <<Empty>>
    \/ /\ MatchesFirst(m, R)
       /\ Len(m) < Len(R) => EndsInStar(m) \/ Leaf(t, m)
    \/ /\ m # << >> /\ Last(m) = AnyStar
       /\ Len(m) = Len(R) + 1 /\ MatchesFirst(Front(m), R)

(* What find returns from a node it may reach answers the request.         *)
LEMMA FindAnswers ==
    ASSUME NEW t, TreeOK(t), NEW R \in Seq(Segs),
           NEW f, IsFind(t, R, f)
    PROVE  \A n \in Dom(t, R) :
               MatchesFirst(n, R) /\ f[n].node # NoNode => Answers(t, f[n].node, R)
<1> DEFINE G == {n \in Dom(t, R) : MatchesFirst(n, R) /\ f[n].node # NoNode
                                       => Answers(t, f[n].node, R)}
<1>1. ASSUME NEW n \in Dom(t, R),
             \A m \in Dom(t, R) : Len(m) = Len(n) + 1 => m \in G,
             MatchesFirst(n, R), f[n].node # NoNode
      PROVE  Answers(t, f[n].node, R)
  <2>1. CASE Found(t, n, R) /\ f[n] = Hit(n, << >>, << >>)
    <3>1. f[n].node = n
      BY <2>1, HitIs
    <3>2. QED
      BY <1>1, <2>1, <3>1 DEF Answers, Found
  <2>2. CASE ~Found(t, n, R) /\ Len(n) = Len(R)
             /\ f[n] = Hit(OnStar(t, n), << >>, << >>)
    <3> DEFINE m == Append(n, AnyStar)
    <3>1. f[n].node = OnStar(t, n)
      BY <2>2, HitIs
    <3>2. f[n].node = m
      BY <1>1, <3>1 DEF OnStar
    <3>3. n \in Seq(Segs) /\ AnyStar \in Segs
      BY SegsAssumption DEF Dom, TreeOK, NodeOK
    <3>4. m # << >> /\ Len(m) = Len(R) + 1 /\ m[Len(m)] = AnyStar
          /\ SubSeq(m, 1, Len(m) - 1) = n
      BY <2>2, <3>3
    <3> HIDE DEF m
    <3>5. QED
      BY <1>1, <3>2, <3>4 DEF Answers, Last, Front
  <2>3. CASE ~Found(t, n, R) /\ Len(n) # Len(R)
    <3>1. /\ Len(n) \in Nat /\ Len(n) < Len(R) /\ n \in Seq(Segs)
          /\ R[Len(n) + 1] \in Segs
          /\ \A c \in Segs : /\ Len(Append(n, c)) = Len(n) + 1
                             /\ Append(n, c) \in t.nodes
                                    => Append(n, c) \in Dom(t, R)
      BY <2>3, ChildIn
    <3>2. CASE AtRoot(t, R, n) /\ f[n] = f[<<Slash>>]
      <4>1. Append(n, Slash) = <<Slash>> /\ Slash \in Segs
        BY <3>2, SegsAssumption DEF AtRoot
      <4>2. <<Slash>> \in Dom(t, R)
        BY <3>1, <3>2, <4>1 DEF AtRoot
      <4>3. f[n].node = <<Slash>>
        BY <3>2, <4>2, SlashHit, HitIs
      <4>4. QED
        BY <3>2, <4>3 DEF Answers, AtRoot
    <3>3. CASE Named(R, n) \in t.nodes /\ f[n] = f[Named(R, n)]
      <4>1. SegMatches(R[Len(n) + 1], R[Len(n) + 1])
        BY DEF SegMatches
      <4>2. MatchesFirst(Named(R, n), R)
        BY <1>1, <3>1, <4>1, MatchesMore DEF Named
      <4>3. Named(R, n) \in G
        BY <1>1, <3>1, <3>3 DEF Named
      <4>4. QED
        BY <1>1, <3>3, <4>2, <4>3
    <3>4. CASE ~None(t, R, n)
      <4> DEFINE c == First(t, R, n)
                 m == Append(n, c)
      <4>1. /\ c \in Segs /\ m \in t.nodes
            /\ \/ c \in Params
               \/ c \in Stars /\ <<R[Len(n) + 1], c>> \in StartsWith
        BY <3>4, WildIs
      <4>2. SegMatches(c, R[Len(n) + 1])
        BY <4>1 DEF SegMatches
      <4>3. MatchesFirst(m, R)
        BY <1>1, <3>1, <4>1, <4>2, MatchesMore
      <4>4. CASE c \in Stars /\ f[n] = ByStar(t, R, f, n)
        <5>1. f[n].node = m
          <6>1. ByStar(t, R, f, n).node = m
            BY DEF ByStar, Hit
          <6>2. QED
            BY <4>4, <6>1
        <5>2. m # << >> /\ m[Len(m)] = c
          BY <3>1, <4>1
        <5>3. EndsInStar(m)
          BY <4>4, <5>2 DEF EndsInStar, Last
        <5> HIDE DEF m
        <5>4. QED
          BY <4>3, <5>1, <5>3 DEF Answers
      <4>5. CASE f[n] = ByParam(t, R, f, n)
        <5>1. f[n].node = f[m].node
          BY <4>5, HitIs DEF ByParam
        <5>2. m \in G
          BY <1>1, <3>1, <4>1
        <5>3. QED
          BY <1>1, <4>3, <5>1, <5>2
      <4>6. CASE f[n] = Hit(NoNode, Exact(t, R, f, n).sets, << >>)
        BY <1>1, <4>6, HitIs
      <4>7. QED
        BY <2>3, <3>2, <3>3, <3>4, <4>4, <4>5, <4>6, FindAt
    <3>5. CASE None(t, R, n)
      <4>1. CASE f[n] = Hit(NoNode, Exact(t, R, f, n).sets, << >>)
        BY <1>1, <4>1, HitIs
      <4>2. QED
        BY <2>3, <3>2, <3>3, <3>5, <4>1, FindAt
    <3>6. QED
      BY <3>4, <3>5
  <2>4. QED
    BY <2>1, <2>2, <2>3, FindAt
<1>2. Climbs(t, R, G)
  BY <1>1 DEF Climbs
<1> HIDE DEF G
<1>3. Dom(t, R) \subseteq G
  BY <1>2, Descend
<1>4. QED
  BY <1>3 DEF G

(* The function behind find, and the root it starts from.                  *)
LEMMA FindBy ==
    ASSUME NEW t, TreeOK(t), NEW R \in Seq(Segs)
    PROVE  /\ \E f : IsFind(t, R, f) /\ find(t, R) = f[<< >>]
           /\ << >> \in Dom(t, R) /\ MatchesFirst(<< >>, R)
<1>1. IsFind(t, R, CHOOSE f : IsFind(t, R, f))
  BY FindExists
<1>2. << >> \in t.nodes /\ Len(<< >>) = 0 /\ Len(R) \in Nat
  BY DEF TreeOK
<1>3. QED
  BY <1>1, <1>2, FindIs DEF Dom, MatchesFirst

(* A request has segments, and none of them is a pattern.                  *)
LEMMA RequestIs ==
    ASSUME NEW R \in Paths
    PROVE  R \in Seq(Segs) /\ R # << >> /\ Range(R) \cap (Params \cup Stars) = {}
<1>1. R \in Seq(Segs \ {Slash})
  BY PathsAssumption
<1>2. R \in Seq(Segs)
  BY <1>1
<1>3. QED
  BY <1>2, PathsAssumption

(* The handler that runs was registered for a pattern of the request.      *)
LEMMA Routed ==
    ASSUME RouterInv
    PROVE  RoutedByPattern
<1>1. SUFFICES ASSUME NEW R \in Paths, find(server, R).node # NoNode
               PROVE  Answers(server, find(server, R).node, R)
  BY DEF RoutedByPattern, Answers
<1>2. TreeOK(server) /\ R \in Seq(Segs)
  BY RequestIs DEF RouterInv, TableOK
<1>3. QED
  BY <1>1, <1>2, FindBy, FindAnswers

-----------------------------------------------------------------------------
(* A registered route that describes a request is found                    *)

(* The path q goes through n.                                              *)
Through(q, n) == Len(n) <= Len(q) /\ n = SubSeq(q, 1, Len(n))

NoStar(n) == \A i \in 1 .. Len(n) : n[i] \notin Stars

(* Where no {name} and * compete.                                          *)
Calm(t) ==
    \A n \in t.nodes : \A c, d \in Children(t, n) \cap (Params \cup Stars) : c = d

(* A longer path goes on with a child of n.                                *)
LEMMA ThroughChild ==
    ASSUME NEW t, TreeOK(t), NEW q \in t.nodes, NEW n \in t.nodes, Through(q, n),
           Len(n) # Len(q)
    PROVE  LET c == q[Len(n) + 1]
           IN  /\ c \in Segs /\ Append(n, c) \in t.nodes
               /\ Through(q, Append(n, c))
<1> DEFINE k == Len(n) + 1
           c == q[k]
           m == SubSeq(q, 1, k)
<1>1. q \in Seq(Segs) /\ n \in Seq(Segs) /\ \A j \in 1 .. Len(q) : SubSeq(q, 1, j) \in t.nodes
  BY DEF TreeOK, NodeOK
<1>2. Len(n) \in Nat /\ Len(q) \in Nat /\ k \in 1 .. Len(q) /\ n = SubSeq(q, 1, Len(n))
  BY <1>1 DEF Through
<1>3. c \in Segs /\ m \in t.nodes
  BY <1>1, <1>2
<1>4. m = Append(n, c)
  <2>1. Len(m) = k /\ \A i \in 1 .. k : m[i] = q[i]
    BY <1>1, <1>2
  <2>2. Len(Append(n, c)) = k /\ Append(n, c)[k] = c
        /\ \A i \in 1 .. Len(n) : Append(n, c)[i] = q[i]
    BY <1>1, <1>2, <1>3
  <2>3. m \in Seq(Segs) /\ Append(n, c) \in Seq(Segs)
    BY <1>1, <1>2, <1>3
  <2>4. \A i \in 1 .. k : m[i] = Append(n, c)[i]
    BY <1>2, <2>1, <2>2
  <2> HIDE DEF m, k, c
  <2>5. QED
    BY <2>1, <2>2, <2>3, <2>4
<1>5. Len(m) = k /\ k <= Len(q)
  BY <1>1, <1>2
<1>6. Through(q, m)
  BY <1>5 DEF Through
<1>7. QED
  BY <1>3, <1>4, <1>6

(* What a route that describes R says segment by segment.                  *)
LEMMA DescribesBy ==
    ASSUME NEW R \in Seq(Segs), NEW q \in Seq(Segs), Describes(q, R),
           ~(q = <<Slash>> /\ R = <<Empty>>)
    PROVE  /\ Len(q) < Len(R) => q # << >> /\ q[Len(q)] \in Stars
           /\ Len(q) > Len(R) => Len(q) = Len(R) + 1 /\ q[Len(q)] = AnyStar
           /\ \A i \in 1 .. Len(q) : i <= Len(R) => SegMatches(q[i], R[i])
<1>1. Len(q) \in Nat /\ Len(R) \in Nat /\ q # << >>
  BY DEF Describes
<1>2. CASE MatchesFirst(q, R) /\ (Len(q) = Len(R) \/ EndsInStar(q))
  BY <1>1, <1>2 DEF MatchesFirst, EndsInStar, Last
<1>3. CASE /\ Last(q) = AnyStar /\ Len(q) = Len(R) + 1
           /\ MatchesFirst(Front(q), R)
  <2> DEFINE p == SubSeq(q, 1, Len(q) - 1)
  <2>1. Len(p) = Len(R) /\ \A i \in 1 .. Len(R) : p[i] = q[i]
    BY <1>1, <1>3
  <2>2. \A i \in 1 .. Len(p) : SegMatches(p[i], R[i])
    BY <1>3 DEF MatchesFirst, Front
  <2> HIDE DEF p
  <2>3. \A i \in 1 .. Len(q) : i <= Len(R) => SegMatches(q[i], R[i])
    <3>1. ASSUME NEW i \in 1 .. Len(q), i <= Len(R) PROVE SegMatches(q[i], R[i])
      <4>1. i \in 1 .. Len(R)
        BY <1>1, <3>1
      <4>2. QED
        BY <2>1, <2>2, <4>1
    <3>2. QED
      BY <3>1
  <2>4. QED
    BY <1>1, <1>3, <2>3 DEF Last
<1>4. QED
  BY <1>2, <1>3 DEF Describes

(* On the way to a route that describes the request find never gives up.   *)
LEMMA FindsSome ==
    ASSUME NEW t, TableOK(t), Calm(t), NEW R \in Seq(Segs),
           NoStar(R), NEW f, IsFind(t, R, f), NEW b \in t.bound,
           Describes(b.node, R)
    PROVE  \A n \in Dom(t, R) :
               Through(b.node, n) /\ NoStar(n) => f[n].node # NoNode
<1> DEFINE q == b.node
           G == {n \in Dom(t, R) :
                     Through(q, n) /\ NoStar(n) => f[n].node # NoNode}
<1>1. TreeOK(t) /\ BoundOK(t)
  BY DEF TableOK
<1>2. q \in t.nodes /\ q \in Seq(Segs)
  BY <1>1 DEF BoundOK, TreeOK, NodeOK
<1>3. \A m \in Seq(Segs) : m # NoNode
  BY SegsAssumption
<1> HIDE DEF q
<1>4. ASSUME NEW n \in Dom(t, R),
             \A m \in Dom(t, R) : Len(m) = Len(n) + 1 => m \in G,
             Through(q, n), NoStar(n)
      PROVE  f[n].node # NoNode
  <2>1. n \in t.nodes /\ n \in Seq(Segs)
    BY <1>1 DEF Dom, TreeOK, NodeOK
  <2>2. Len(n) \in Nat /\ Len(q) \in Nat /\ Len(R) \in Nat
        /\ Len(n) <= Len(q)
    BY <1>2, <1>4, <2>1 DEF Through
  <2>3. CASE Found(t, n, R) /\ f[n] = Hit(n, << >>, << >>)
    BY <1>3, <2>1, <2>3, HitIs
  <2>4. Len(n) = Len(q) => n = q
    BY <1>2, <1>4, <2>2 DEF Through
  <2>5. n = q /\ Len(n) = Len(R) => Found(t, n, R)
    BY DEF Found, VerbsAt, q
  <2>6. CASE ~Found(t, n, R) /\ Len(n) = Len(R)
             /\ f[n] = Hit(OnStar(t, n), << >>, << >>)
    <3>1. Len(q) > Len(R)
      BY <2>2, <2>4, <2>5, <2>6
    <3>2. ~(q = <<Slash>> /\ R = <<Empty>>)
      <4>1. Len(<<Slash>>) = 1 /\ Len(<<Empty>>) = 1
        OBVIOUS
      <4>2. QED
        BY <3>1, <4>1
    <3>3. Len(q) = Len(R) + 1 /\ q[Len(q)] = AnyStar
      BY <1>2, <3>1, <3>2, DescribesBy DEF q
    <3>4. AnyStar \in Segs /\ Append(n, AnyStar) \in t.nodes
      <4>1. Len(n) + 1 = Len(q)
        BY <2>6, <3>3
      <4>2. q[Len(n) + 1] = AnyStar
        BY <3>3, <4>1, Zenon
      <4>3. Len(n) # Len(q)
        BY <2>2, <4>1
      <4>4. QED
        BY <1>1, <1>2, <1>4, <2>1, <4>2, <4>3, ThroughChild
    <3>5. OnStar(t, n) = Append(n, AnyStar)
      BY <3>4 DEF OnStar, Children
    <3>6. Append(n, AnyStar) # NoNode
      BY <1>3, <2>1, <3>4
    <3>7. f[n].node = OnStar(t, n)
      BY <2>6 DEF Hit
    <3>8. QED
      BY <3>5, <3>6, <3>7
  <2>7. CASE ~Found(t, n, R) /\ Len(n) # Len(R)
    <3>1. /\ Len(n) \in Nat /\ Len(n) < Len(R) /\ n \in Seq(Segs)
          /\ R[Len(n) + 1] \in Segs
          /\ \A c \in Segs : /\ Len(Append(n, c)) = Len(n) + 1
                             /\ Append(n, c) \in t.nodes
                                    => Append(n, c) \in Dom(t, R)
      BY <1>1, <2>7, ChildIn
    <3>2. CASE AtRoot(t, R, n) /\ f[n] = f[<<Slash>>]
      <4>1. Append(n, Slash) = <<Slash>> /\ Slash \in Segs
        BY <3>2, SegsAssumption DEF AtRoot
      <4>2. <<Slash>> \in Dom(t, R)
        BY <3>1, <3>2, <4>1 DEF AtRoot
      <4>3. f[n].node = <<Slash>>
        BY <1>1, <3>2, <4>2, SlashHit, HitIs
      <4>4. <<Slash>> \in Seq(Segs)
        BY <4>1
      <4>5. QED
        BY <1>3, <4>3, <4>4
    <3>3. CASE ~AtRoot(t, R, n)
      <4> DEFINE c == q[Len(n) + 1]
                 m == Append(n, c)
                 s == R[Len(n) + 1]
      <4>1. ~(q = <<Slash>> /\ R = <<Empty>>)
        <5>1. SUFFICES ASSUME q = <<Slash>>, R = <<Empty>> PROVE FALSE
          OBVIOUS
        <5>2. Len(R) = 1
          BY <5>1
        <5>3. n = << >>
          BY <2>1, <3>1, <5>2
        <5>4. QED
          BY <1>2, <3>3, <5>1, <5>3 DEF AtRoot
      <4>2. Len(n) # Len(q)
        <5>1. SUFFICES ASSUME n = q PROVE FALSE
          BY <2>4
        <5>2. n # << >> /\ n[Len(n)] \in Stars
          BY <1>2, <3>1, <4>1, <5>1, DescribesBy DEF q
        <5>3. Len(n) \in 1 .. Len(n)
          BY <2>1, <5>2
        <5>4. QED
          BY <1>4, <5>2, <5>3 DEF NoStar
      <4>3. c \in Segs /\ m \in t.nodes /\ Through(q, m)
        BY <1>1, <1>2, <1>4, <2>1, <4>2, ThroughChild
      <4>4. SegMatches(c, s)
        <5>1. Len(n) + 1 \in 1 .. Len(q) /\ Len(n) + 1 <= Len(R)
          BY <2>2, <3>1, <4>2
        <5>2. QED
          BY <1>2, <4>1, <5>1, DescribesBy DEF q
      <4>5. m \in G
        BY <1>4, <3>1, <4>3
      <4>6. c \notin Stars => f[m].node # NoNode
        <5>1. SUFFICES ASSUME c \notin Stars PROVE NoStar(m)
          BY <4>3, <4>5
        <5>2. Len(m) = Len(n) + 1 /\ m[Len(n) + 1] = c
              /\ \A i \in 1 .. Len(n) : m[i] = n[i]
          BY <3>1, <4>3
        <5>3. \A i \in 1 .. Len(n) + 1 : i \in 1 .. Len(n) \/ i = Len(n) + 1
          BY <2>2
        <5> HIDE DEF m, c
        <5>4. QED
          BY <1>4, <5>1, <5>2, <5>3 DEF NoStar
      <4>7. CASE c = s
        <5>1. Len(n) + 1 \in 1 .. Len(R)
          BY <2>2, <3>1
        <5>2. c \notin Stars
          BY <4>7, <5>1 DEF NoStar
        <5>3. Named(R, n) = m
          BY <4>7 DEF Named
        <5>4. Exact(t, R, f, n).node # NoNode
          BY <4>3, <4>6, <5>2, <5>3 DEF Exact
        <5>5. QED
          BY <1>1, <2>7, <3>3, <5>4, FindAt
      <4>8. CASE c # s
        <5>1. c \in Params \/ (c \in Stars /\ <<s, c>> \in StartsWith)
          BY <4>4, <4>8 DEF SegMatches
        <5>2. Range(SegOrder) = Segs /\ SegOrder \in Seq(STRING)
          BY SegsAssumption DEF Segs
        <5>3. \E i \in 1 .. Len(SegOrder) : SegOrder[i] = c
          BY <4>3, <5>2 DEF Range
        <5>4. ~None(t, R, n)
          BY <4>3, <5>1, <5>3 DEF None, Wild, Children, StarTakes
        <5>5. First(t, R, n) = c
          <6>1. First(t, R, n) \in Children(t, n) \cap (Params \cup Stars)
            BY <5>4, WildIs DEF Children
          <6>2. c \in Children(t, n) \cap (Params \cup Stars)
            BY <4>3, <5>1 DEF Children
          <6>3. QED
            BY <2>1, <6>1, <6>2 DEF Calm
        <5>6. CASE c \in Stars /\ f[n] = ByStar(t, R, f, n)
          <6>1. ByStar(t, R, f, n).node = m
            BY <5>5 DEF ByStar, Hit
          <6>2. m # NoNode
            BY <1>3, <2>1, <4>3, SMTT(30)
          <6>3. QED
            BY <5>6, <6>1, <6>2
        <5>7. CASE c \in Params /\ f[n] = ByParam(t, R, f, n)
          <6>1. ByParam(t, R, f, n).node = f[m].node
            BY <5>5 DEF ByParam, Hit
          <6>2. c \notin Stars
            BY <5>7, SegsAssumption
          <6>3. QED
            BY <4>6, <5>7, <6>1, <6>2
        <5> HIDE DEF c
        <5>8. QED
          BY <1>1, <2>7, <3>3, <5>4, <5>5, <5>6, <5>7, FindAt
      <4>9. QED
        BY <4>7, <4>8
    <3>4. QED
      BY <1>1, <2>7, <3>2, <3>3, FindAt
  <2>8. QED
    BY <1>1, <2>3, <2>6, <2>7, FindAt
<1>5. Climbs(t, R, G)
  BY <1>4 DEF Climbs
<1> HIDE DEF G
<1>6. Dom(t, R) \subseteq G
  BY <1>1, <1>5, Descend
<1>7. QED
  BY <1>6 DEF G, q

(* So a 404 is given only when no such route is bound.                     *)
BoundFound ==
    (\A n \in server.nodes : ~Competing(n)) =>
    \A R \in Paths :
        find(server, R).node = NoNode
            => \A b \in server.bound : ~Describes(b.node, R)

LEMMA NotFound ==
    ASSUME RouterInv
    PROVE  BoundFound
<1>1. SUFFICES ASSUME \A n \in server.nodes : ~Competing(n), NEW R \in Paths,
                      find(server, R).node = NoNode,
                      NEW b \in server.bound, Describes(b.node, R)
               PROVE  FALSE
  BY DEF BoundFound
<1>2. TableOK(server) /\ TreeOK(server) /\ R \in Seq(Segs)
  BY RequestIs DEF RouterInv, TableOK
<1>3. Calm(server)
  BY <1>1 DEF Calm, Competing
<1>4. NoStar(R)
  <2>1. Range(R) \cap Stars = {}
    BY RequestIs
  <2>2. QED
    BY <1>2, <2>1 DEF NoStar, Range
<1>5. PICK f : IsFind(server, R, f) /\ find(server, R) = f[<< >>]
  BY <1>2, FindBy
<1>6. << >> \in Dom(server, R)
  BY <1>2, FindBy
<1>7. Through(b.node, << >>) /\ NoStar(<< >>)
  <2>1. b.node \in Seq(Segs)
    BY <1>2 DEF TableOK, BoundOK, TreeOK, NodeOK
  <2>2. Len(b.node) \in Nat /\ SubSeq(b.node, 1, 0) = << >> /\ Len(<< >>) = 0
    BY <2>1
  <2>3. QED
    BY <2>2 DEF Through, NoStar
<1>8. QED
  BY <1>1, <1>2, <1>3, <1>4, <1>5, <1>6, <1>7, FindsSome

-----------------------------------------------------------------------------
(* Exact routes first                                                      *)

(* The path of a bound node with no parameter, star or empty segment leads *)
(* to that node: the child of the very name is there at every step.        *)
LEMMA ExactPath ==
    ASSUME NEW t, TableOK(t), NEW b \in t.bound, NEW R,
           R = b.node, R # <<Empty>>, NEW f, IsFind(t, R, f)
    PROVE  \A n \in Dom(t, R) : Through(R, n) => f[n].node = R
<1> DEFINE G == {n \in Dom(t, R) : Through(R, n) => f[n].node = R}
<1>1. TreeOK(t) /\ BoundOK(t)
  BY DEF TableOK
<1>2. R \in t.nodes /\ R \in Seq(Segs)
  BY <1>1 DEF BoundOK, TreeOK, NodeOK
<1>3. R # NoNode
  BY <1>2, SegsAssumption
<1>4. ASSUME NEW n \in Dom(t, R),
             \A m \in Dom(t, R) : Len(m) = Len(n) + 1 => m \in G,
             Through(R, n)
      PROVE  f[n].node = R
  <2>1. n \in t.nodes /\ n \in Seq(Segs)
    BY <1>1 DEF Dom, TreeOK, NodeOK
  <2>2. CASE Len(n) = Len(R)
    <3>1. n = R
      BY <1>2, <1>4, <2>2 DEF Through
    <3>2. Found(t, n, R)
      BY <2>2, <3>1 DEF Found, VerbsAt
    <3>3. f[n] = Hit(n, << >>, << >>)
      BY <1>1, <1>2, <3>2, FindAt
    <3>4. QED
      BY <3>1, <3>3 DEF Hit
  <2>3. CASE Len(n) # Len(R)
    <3> DEFINE c == R[Len(n) + 1]
               m == Append(n, c)
    <3>1. c \in Segs /\ m \in t.nodes /\ Through(R, m)
      BY <1>1, <1>2, <1>4, <2>1, <2>3, ThroughChild
    <3>2. Len(m) = Len(n) + 1 /\ m \in Dom(t, R)
      BY <1>1, <1>2, <2>3, <3>1, ChildIn
    <3>3. f[m].node = R
      BY <1>4, <3>1, <3>2
    <3>4. Named(R, n) = m
      BY DEF Named
    <3>5. ~Found(t, n, R)
      BY <2>3, <3>1 DEF Found, Leaf, Children
    <3>6. Exact(t, R, f, n) = f[m]
      BY <3>1, <3>4 DEF Exact
    <3>7. ~AtRoot(t, R, n)
      BY DEF AtRoot
    <3> HIDE DEF m, c
    <3>8. f[n] = f[m]
      BY <1>1, <1>2, <1>3, <2>3, <3>3, <3>4, <3>5, <3>6, <3>7, FindAt
    <3>9. QED
      BY <3>3, <3>8
  <2>4. QED
    BY <2>2, <2>3
<1>5. Climbs(t, R, G)
  BY <1>4 DEF Climbs
<1> HIDE DEF G
<1>6. Dom(t, R) \subseteq G
  BY <1>1, <1>2, <1>5, Descend
<1>7. QED
  BY <1>6 DEF G

(* The handler found at a node is the one bound to it.                     *)
LEMMA CallOf ==
    ASSUME NEW t, TableOK(t), NEW b \in t.bound, NEW R,
           find(t, R).node = b.node
    PROVE  call(t, b.verb, R).handler = b.handler
<1>1. \A d \in t.bound : d.node = b.node /\ d.verb = b.verb => d = b
  BY DEF TableOK, BoundOK
<1>2. b.verb \in VerbsAt(t, b.node)
  BY DEF VerbsAt
<1>3. b.node # NoNode
  <2>1. b.node \in Seq(Segs)
    BY DEF TableOK, BoundOK, TreeOK, NodeOK
  <2>2. QED
    BY <2>1, SegsAssumption
<1> DEFINE run == CHOOSE d \in t.bound : d.node = b.node /\ d.verb = b.verb
<1>4. run = b
  BY <1>1
<1>5. call(t, b.verb, R) = [status |-> "StatusOK", handler |-> run.handler]
  BY <1>2, <1>3 DEF call
<1> HIDE DEF run
<1>6. QED
  BY <1>4, <1>5

(* The route with the request's own segments wins.                         *)
BoundFirst ==
    \A b \in server.bound :
        Range(b.node) \cap (Params \cup Stars \cup {Empty}) = {}
            => call(server, b.verb, IF b.node = <<Slash>> THEN <<Empty>>
                                    ELSE b.node).handler = b.handler

LEMMA ExactIsFirst ==
    ASSUME RouterInv
    PROVE  BoundFirst
<1> DEFINE t == server
<1>1. TableOK(t) /\ TreeOK(t)
  BY DEF RouterInv, TableOK
<1>2. SUFFICES ASSUME NEW b \in t.bound,
                      Range(b.node) \cap (Params \cup Stars \cup {Empty}) = {}
               PROVE  call(t, b.verb, IF b.node = <<Slash>> THEN <<Empty>>
                                      ELSE b.node).handler = b.handler
  BY DEF BoundFirst
<1>3. b.node \in t.nodes /\ b.node \in Seq(Segs)
  BY <1>1 DEF TableOK, BoundOK, TreeOK, NodeOK
<1> HIDE DEF t
<1>4. CASE b.node = <<Slash>>
  <2> DEFINE R == <<Empty>>
  <2>1. Empty \in Segs /\ Slash \in Segs
    BY SegsAssumption
  <2>2. R \in Seq(Segs) /\ Len(R) = 1
    BY <2>1
  <2> HIDE DEF R
  <2>3. PICK f : IsFind(t, R, f) /\ find(t, R) = f[<< >>]
    BY <1>1, <2>2, FindBy
  <2>4. << >> \in Dom(t, R)
    BY <1>1, <2>2, FindBy
  <2>5. <<Slash>> \in Dom(t, R)
    <3>1. Len(<<Slash>>) = 1
      OBVIOUS
    <3>2. QED
      BY <1>3, <1>4, <2>2, <3>1 DEF Dom
  <2>6. f[<<Slash>>].node = <<Slash>>
    BY <1>1, <2>2, <2>3, <2>5, SlashHit DEF Hit
  <2>7. AtRoot(t, R, << >>)
    BY <1>3, <1>4 DEF AtRoot, R
  <2>8. Len(<< >>) # Len(R) /\ ~Found(t, << >>, R)
    <3>1. Len(<< >>) = 0
      OBVIOUS
    <3>2. Append(<< >>, Slash) = <<Slash>>
      OBVIOUS
    <3>3. ~Leaf(t, << >>)
      BY <1>3, <1>4, <2>1, <3>2 DEF Leaf, Children
    <3>4. QED
      BY <2>2, <3>1, <3>3 DEF Found
  <2>9. f[<< >>] = f[<<Slash>>]
    BY <1>1, <2>2, <2>3, <2>4, <2>7, <2>8, FindAt
  <2>10. find(t, R).node = b.node
    BY <1>4, <2>3, <2>6, <2>9
  <2>11. QED
    BY <1>1, <1>4, <2>10, CallOf DEF R
<1>5. CASE b.node # <<Slash>>
  <2> DEFINE R == b.node
  <2>1. R # <<Empty>>
    <3>1. SUFFICES ASSUME R = <<Empty>> PROVE FALSE
      OBVIOUS
    <3>2. Empty \in Range(R)
      BY <3>1 DEF Range
    <3>3. QED
      BY <1>2, <3>2
  <2>2. PICK f : IsFind(t, R, f) /\ find(t, R) = f[<< >>]
    BY <1>1, <1>3, FindBy
  <2>3. << >> \in Dom(t, R)
    BY <1>1, <1>3, FindBy
  <2>4. Through(R, << >>)
    <3>1. Len(R) \in Nat /\ SubSeq(R, 1, 0) = << >> /\ Len(<< >>) = 0
      BY <1>3
    <3>2. QED
      BY <3>1 DEF Through
  <2>5. find(t, R).node = R
    BY <1>1, <2>1, <2>2, <2>3, <2>4, ExactPath
  <2>6. QED
    BY <1>1, <1>5, <2>5, CallOf
<1>6. QED
  BY <1>4, <1>5

-----------------------------------------------------------------------------
(* Parameters                                                              *)

Assigned == STRING \X Segs

(* The names in sets are those of parameters below n.                      *)
NameBelow(t, n, name) ==
    \E m \in t.nodes : \E i \in 1 .. Len(m) :
        i > Len(n) /\ Through(m, n) /\ m[i] \in Params /\ name = NameOf[m[i]]
NamesBelow(t, n, sets) ==
    \A j \in 1 .. Len(sets) : NameBelow(t, n, sets[j][1])

(* The last assignment to name is v.                                       *)
LastSet(sets, name, v) ==
    \E j \in 1 .. Len(sets) :
        /\ sets[j][1] = name /\ sets[j][2] = v
        /\ \A k \in 1 .. Len(sets) : k > j => sets[k][1] # name

(* What find has assigned when it comes back from n with r.                *)
SetsOK(t, n, sets) == sets \in Seq(Assigned) /\ NamesBelow(t, n, sets)
ParamsOK(t, R, n, r) ==
    /\ SetsOK(t, n, r.sets)
    /\ r.node # NoNode =>
        /\ r.node \in t.nodes /\ Through(r.node, n)
        /\ \A i \in 1 .. Len(r.node) :
            i > Len(n) /\ r.node[i] \in Params
                => LastSet(r.sets, NameOf[r.node[i]], R[i])

(* What lies below a child lies below its parent.                          *)
LEMMA ThroughTrans ==
    ASSUME NEW n \in Seq(Segs), NEW c \in Segs, NEW m \in Seq(Segs),
           Through(m, Append(n, c))
    PROVE  Through(m, n) /\ Len(n) + 1 <= Len(m) /\ m[Len(n) + 1] = c
<1> DEFINE d == Append(n, c)
<1>1. d \in Seq(Segs) /\ Len(d) = Len(n) + 1 /\ d[Len(n) + 1] = c
      /\ \A i \in 1 .. Len(n) : d[i] = n[i]
  OBVIOUS
<1>2. Len(n) \in Nat /\ Len(m) \in Nat
  OBVIOUS
<1> HIDE DEF d
<1>3. Len(d) <= Len(m) /\ d = SubSeq(m, 1, Len(d))
  BY DEF Through, d
<1>4. Len(n) + 1 <= Len(m)
  BY <1>1, <1>3
<1>5. \A i \in 1 .. Len(n) + 1 : d[i] = m[i]
  BY <1>1, <1>2, <1>3, <1>4
<1>6. m[Len(n) + 1] = c
  BY <1>1, <1>2, <1>5
<1>7. n = SubSeq(m, 1, Len(n))
  <2> DEFINE e == SubSeq(m, 1, Len(n))
  <2>1. e \in Seq(Segs) /\ Len(e) = Len(n) /\ \A i \in 1 .. Len(n) : e[i] = m[i]
    BY <1>2, <1>4
  <2>2. \A i \in 1 .. Len(n) : e[i] = n[i]
    BY <1>1, <1>2, <1>5, <2>1
  <2> HIDE DEF e
  <2>3. QED
    BY <2>1, <2>2 DEF e
<1>8. QED
  BY <1>2, <1>4, <1>6, <1>7 DEF Through

(* Parameters set below a child are set below its parent.                  *)
LEMMA SetsBelow ==
    ASSUME NEW t, TreeOK(t), NEW n \in Seq(Segs), NEW c \in Segs, NEW sets,
           SetsOK(t, Append(n, c), sets)
    PROVE  SetsOK(t, n, sets)
<1>1. Len(n) \in Nat /\ Len(Append(n, c)) = Len(n) + 1
  OBVIOUS
<1>2. ASSUME NEW name, NameBelow(t, Append(n, c), name)
      PROVE  NameBelow(t, n, name)
  <2>1. PICK m \in t.nodes : \E i \in 1 .. Len(m) :
            /\ i > Len(Append(n, c)) /\ Through(m, Append(n, c))
            /\ m[i] \in Params /\ name = NameOf[m[i]]
    BY <1>2 DEF NameBelow
  <2>2. PICK i \in 1 .. Len(m) :
            /\ i > Len(Append(n, c)) /\ Through(m, Append(n, c))
            /\ m[i] \in Params /\ name = NameOf[m[i]]
    BY <2>1
  <2>3. m \in Seq(Segs)
    BY DEF TreeOK, NodeOK
  <2>4. i > Len(n)
    BY <1>1, <2>2, <2>3
  <2>5. Through(m, n)
    BY <2>2, <2>3, ThroughTrans
  <2>6. QED
    BY <2>2, <2>4, <2>5 DEF NameBelow
<1>3. QED
  BY <1>2 DEF SetsOK, NamesBelow

(* How the elements of a concatenation are found in its parts.             *)
Joins(a, b, c) ==
    /\ Len(c) = Len(a) + Len(b)
    /\ \A j \in 1 .. Len(a) : c[j] = a[j]
    /\ \A j \in 1 .. Len(b) : c[Len(a) + j] = b[j]
    /\ \A j \in 1 .. Len(c) :
           j \in 1 .. Len(a) \/ \E k \in 1 .. Len(b) : j = Len(a) + k

(* The parts of a concatenation.                                           *)
LEMMA ConcatIs ==
    ASSUME NEW S, NEW a \in Seq(S), NEW b \in Seq(S)
    PROVE  a \o b \in Seq(S) /\ Joins(a, b, a \o b)
<1>1. a \o b \in Seq(S) /\ Len(a \o b) = Len(a) + Len(b)
      /\ Len(a) \in Nat /\ Len(b) \in Nat
  OBVIOUS
<1>2. ASSUME NEW j \in 1 .. Len(a) PROVE (a \o b)[j] = a[j]
  OBVIOUS
<1>3. ASSUME NEW j \in 1 .. Len(b) PROVE (a \o b)[Len(a) + j] = b[j]
  OBVIOUS
<1>4. ASSUME NEW j \in 1 .. Len(a \o b), j \notin 1 .. Len(a)
      PROVE  \E k \in 1 .. Len(b) : j = Len(a) + k
  <2>1. j - Len(a) \in 1 .. Len(b) /\ j = Len(a) + (j - Len(a))
    BY <1>1, <1>4
  <2>2. QED
    BY <2>1
<1>5. QED
  BY <1>1, <1>2, <1>3, <1>4 DEF Joins

(* Two correct lists of assignments make a correct one.                    *)
LEMMA SetsConcat ==
    ASSUME NEW t, NEW n, NEW a, NEW b, SetsOK(t, n, a), SetsOK(t, n, b)
    PROVE  SetsOK(t, n, a \o b)
<1>1. a \in Seq(Assigned) /\ b \in Seq(Assigned)
  BY DEF SetsOK
<1> DEFINE c == a \o b
<1>2. /\ c \in Seq(Assigned) /\ Len(c) = Len(a) + Len(b)
      /\ \A j \in 1 .. Len(a) : c[j] = a[j]
      /\ \A j \in 1 .. Len(b) : c[Len(a) + j] = b[j]
      /\ \A j \in 1 .. Len(c) :
             j \in 1 .. Len(a) \/ \E k \in 1 .. Len(b) : j = Len(a) + k
  <2>1. c \in Seq(Assigned) /\ Joins(a, b, c)
    BY <1>1, ConcatIs
  <2>2. QED
    BY <2>1 DEF Joins
<1> HIDE DEF c
<1>3. ASSUME NEW j \in 1 .. Len(c)
      PROVE  (\E k \in 1 .. Len(a) : c[j] = a[k]) \/ (\E k \in 1 .. Len(b) : c[j] = b[k])
  BY <1>2
<1>4. NamesBelow(t, n, c)
  BY <1>3 DEF SetsOK, NamesBelow
<1>5. QED
  BY <1>2, <1>4 DEF SetsOK, c

(* Later assignments count: those before b do not matter if b has one.     *)
LEMMA LastAfter ==
    ASSUME NEW a \in Seq(Assigned), NEW b \in Seq(Assigned), NEW name, NEW v,
           LastSet(b, name, v)
    PROVE  LastSet(a \o b, name, v)
<1> DEFINE c == a \o b
<1>1. Len(a) \in Nat /\ Len(b) \in Nat
  OBVIOUS
<1>2. /\ Len(c) = Len(a) + Len(b)
      /\ \A j \in 1 .. Len(b) : c[Len(a) + j] = b[j]
      /\ \A j \in 1 .. Len(c) :
             j \in 1 .. Len(a) \/ \E k \in 1 .. Len(b) : j = Len(a) + k
  <2>1. Joins(a, b, c)
    BY ConcatIs
  <2>2. QED
    BY <2>1 DEF Joins
<1> HIDE DEF c
<1>3. PICK j \in 1 .. Len(b) :
          /\ b[j][1] = name /\ b[j][2] = v
          /\ \A k \in 1 .. Len(b) : k > j => b[k][1] # name
  BY DEF LastSet
<1>4. Len(a) + j \in 1 .. Len(c) /\ c[Len(a) + j] = b[j]
  BY <1>1, <1>2
<1>5. ASSUME NEW k \in 1 .. Len(c), k > Len(a) + j PROVE c[k][1] # name
  <2>1. k \notin 1 .. Len(a)
    BY <1>1, <1>5
  <2>2. PICK i \in 1 .. Len(b) : k = Len(a) + i
    BY <1>2, <2>1
  <2>3. i > j /\ c[k] = b[i]
    BY <1>1, <1>2, <1>5, <2>2
  <2>4. QED
    BY <1>3, <2>3
<1>6. QED
  BY <1>3, <1>4, <1>5 DEF LastSet, c

(* An assignment that none after it repeats is the last.                   *)
LEMMA LastHere ==
    ASSUME NEW a \in Seq(Assigned), NEW x \in Assigned, NEW b \in Seq(Assigned),
           \A j \in 1 .. Len(b) : b[j][1] # x[1]
    PROVE  LastSet((a \o <<x>>) \o b, x[1], x[2])
<1> DEFINE d == a \o <<x>>
           c == d \o b
<1>1. d \in Seq(Assigned) /\ Len(d) = Len(a) + 1 /\ d[Len(d)] = x
      /\ Len(a) \in Nat /\ Len(b) \in Nat /\ Len(d) \in 1 .. Len(d)
  OBVIOUS
<1> HIDE DEF d
<1>2. d \in Seq(Assigned)
  BY <1>1
<1>3. /\ Len(c) = Len(d) + Len(b)
      /\ \A j \in 1 .. Len(d) : c[j] = d[j]
      /\ \A j \in 1 .. Len(b) : c[Len(d) + j] = b[j]
      /\ \A j \in 1 .. Len(c) :
             j \in 1 .. Len(d) \/ \E k \in 1 .. Len(b) : j = Len(d) + k
  <2>1. Joins(d, b, c)
    BY <1>2, ConcatIs
  <2>2. QED
    BY <2>1 DEF Joins
<1> HIDE DEF c
<1>4. Len(d) \in 1 .. Len(c) /\ c[Len(d)] = x
  BY <1>1, <1>3
<1>5. ASSUME NEW k \in 1 .. Len(c), k > Len(d) PROVE c[k][1] # x[1]
  <2>1. k \notin 1 .. Len(d)
    BY <1>1, <1>5
  <2>2. PICK i \in 1 .. Len(b) : k = Len(d) + i
    BY <1>3, <2>1
  <2>3. c[k] = b[i]
    BY <1>3, <2>2
  <2>4. QED
    BY <2>3
<1>6. QED
  BY <1>4, <1>5 DEF LastSet, c, d

(* A parameter reads as what was set last.                                 *)
LEMMA LastIs ==
    ASSUME NEW sets \in Seq(Assigned), NEW name, NEW v, LastSet(sets, name, v)
    PROVE  param(sets, name) = v
<1> DEFINE Is(i) == sets[i][1] = name
                    /\ \A j \in i + 1 .. Len(sets) : sets[j][1] # name
<1>1. PICK j \in 1 .. Len(sets) :
          /\ sets[j][1] = name /\ sets[j][2] = v
          /\ \A k \in 1 .. Len(sets) : k > j => sets[k][1] # name
  BY DEF LastSet
<1>2. Len(sets) \in Nat
  OBVIOUS
<1>3. Is(j)
  <2>1. \A k \in j + 1 .. Len(sets) : k \in 1 .. Len(sets) /\ k > j
    BY <1>2
  <2>2. QED
    BY <1>1, <2>1
<1>4. ASSUME NEW i \in 1 .. Len(sets), Is(i) PROVE i = j
  <2>1. ~(i > j)
    BY <1>1, <1>4
  <2>2. ~(i < j)
    <3>1. i < j => j \in i + 1 .. Len(sets)
      BY <1>2
    <3>2. QED
      BY <1>1, <1>4, <3>1
  <2> HIDE DEF Is
  <2>3. QED
    BY <2>1, <2>2
<1>5. param(sets, name) = sets[CHOOSE i \in 1 .. Len(sets) : Is(i)][2]
  BY DEF param
<1> HIDE DEF Is
<1>6. (CHOOSE i \in 1 .. Len(sets) : Is(i)) = j
  BY <1>3, <1>4
<1>7. QED
  BY <1>1, <1>5, <1>6

(* Nothing set is nothing wrong.                                           *)
LEMMA EmptySets == ASSUME NEW t, NEW n PROVE SetsOK(t, n, << >>)
<1>1. << >> \in Seq(Assigned) /\ Len(<< >>) = 0
  OBVIOUS
<1>2. QED
  BY <1>1 DEF SetsOK, NamesBelow

(* A node that is n, or n and a child that is no parameter.                *)
LEMMA EndsHere ==
    ASSUME NEW t, TreeOK(t), NEW R, NEW n \in t.nodes, NEW r, SetsOK(t, n, r.sets),
           \/ r.node = NoNode \/ r.node = n
           \/ \E c \in Segs \ Params : r.node = Append(n, c) /\ r.node \in t.nodes
    PROVE  ParamsOK(t, R, n, r)
<1>1. n \in Seq(Segs) /\ Len(n) \in Nat
  BY DEF TreeOK, NodeOK
<1>2. CASE r.node = NoNode
  BY <1>2 DEF ParamsOK
<1>3. CASE r.node = n
  <2>1. Through(n, n)
    BY <1>1 DEF Through
  <2>2. \A i \in 1 .. Len(n) : ~(i > Len(n))
    BY <1>1
  <2>3. QED
    BY <1>3, <2>1, <2>2 DEF ParamsOK
<1>4. ASSUME NEW c \in Segs \ Params, r.node = Append(n, c), r.node \in t.nodes
      PROVE  ParamsOK(t, R, n, r)
  <2> DEFINE m == Append(n, c)
  <2>1. m \in Seq(Segs) /\ Len(m) = Len(n) + 1 /\ m[Len(n) + 1] = c
    BY <1>1
  <2>2. Through(m, m)
    BY <2>1 DEF Through
  <2>3. Through(m, n)
    BY <1>1, <2>1, <2>2, ThroughTrans
  <2> HIDE DEF m
  <2>4. \A i \in 1 .. Len(m) : i > Len(n) => i = Len(n) + 1
    BY <1>1, <2>1
  <2>5. \A i \in 1 .. Len(m) : i > Len(n) => m[i] \notin Params
    BY <2>1, <2>4
  <2>6. r.node = m
    BY <1>4 DEF m
  <2>7. QED
    BY <1>4, <2>3, <2>5, <2>6 DEF ParamsOK
<1>5. QED
  BY <1>2, <1>3, <1>4

(* The parameter find takes is not set again below it.                     *)
LEMMA NotAgain ==
    ASSUME NEW t, TreeOK(t), \A m \in t.nodes : NamesOnce(m),
           NEW n \in Seq(Segs), NEW c \in Params, c \in Segs, NEW sets,
           SetsOK(t, Append(n, c), sets)
    PROVE  \A j \in 1 .. Len(sets) : sets[j][1] # NameOf[c]
<1>1. SUFFICES ASSUME NameBelow(t, Append(n, c), NameOf[c]) PROVE FALSE
  BY DEF SetsOK, NamesBelow
<1>2. PICK m \in t.nodes : \E i \in 1 .. Len(m) :
          /\ i > Len(Append(n, c)) /\ Through(m, Append(n, c))
          /\ m[i] \in Params /\ NameOf[c] = NameOf[m[i]]
  BY <1>1 DEF NameBelow
<1>3. PICK i \in 1 .. Len(m) :
          /\ i > Len(Append(n, c)) /\ Through(m, Append(n, c))
          /\ m[i] \in Params /\ NameOf[c] = NameOf[m[i]]
  BY <1>2
<1>4. m \in Seq(Segs)
  BY DEF TreeOK, NodeOK
<1>5. Len(n) + 1 <= Len(m) /\ m[Len(n) + 1] = c
  BY <1>3, <1>4, ThroughTrans
<1>6. Len(n) \in Nat /\ Len(m) \in Nat /\ Len(Append(n, c)) = Len(n) + 1
  BY <1>4
<1>7. Len(n) + 1 \in 1 .. Len(m) /\ i # Len(n) + 1
  BY <1>3, <1>5, <1>6
<1>8. NamesOnce(m)
  OBVIOUS
<1>9. QED
  BY <1>3, <1>5, <1>7, <1>8 DEF NamesOnce

(* What find sets on its way is right for the node it returns.             *)
LEMMA FindSets ==
    ASSUME NEW t, TreeOK(t), \A m \in t.nodes : NamesOnce(m),
           NEW R \in Seq(Segs), \A i \in 1 .. Len(R) : R[i] \notin Params,
           NEW f, IsFind(t, R, f)
    PROVE  \A n \in Dom(t, R) : ParamsOK(t, R, n, f[n])
<1> DEFINE G == {n \in Dom(t, R) : ParamsOK(t, R, n, f[n])}
<1>1. ASSUME NEW n \in Dom(t, R),
             \A m \in Dom(t, R) : Len(m) = Len(n) + 1 => m \in G
      PROVE  ParamsOK(t, R, n, f[n])
  <2>1. n \in t.nodes /\ n \in Seq(Segs) /\ Len(n) \in Nat
    BY DEF Dom, TreeOK, NodeOK
  <2>2. CASE f[n] = Hit(n, << >>, << >>)
    <3>1. f[n].node = n /\ f[n].sets = << >>
      BY <2>2 DEF Hit
    <3>2. QED
      BY <2>1, <3>1, EmptySets, EndsHere
  <2>3. CASE f[n] = Hit(OnStar(t, n), << >>, << >>)
    <3>1. f[n].node = OnStar(t, n) /\ f[n].sets = << >>
      BY <2>3 DEF Hit
    <3>2. AnyStar \in Segs \ Params
      BY SegsAssumption
    <3>3. \/ f[n].node = NoNode
          \/ f[n].node = Append(n, AnyStar) /\ f[n].node \in t.nodes
      BY <3>1 DEF OnStar, Children
    <3>4. QED
      BY <2>1, <3>1, <3>2, <3>3, EmptySets, EndsHere
  <2>4. CASE ~Found(t, n, R) /\ Len(n) # Len(R)
    <3>1. /\ Len(n) \in Nat /\ Len(n) < Len(R) /\ n \in Seq(Segs)
          /\ R[Len(n) + 1] \in Segs
          /\ \A c \in Segs : /\ Len(Append(n, c)) = Len(n) + 1
                             /\ Append(n, c) \in t.nodes
                                    => Append(n, c) \in Dom(t, R)
      BY <2>4, ChildIn
    <3>2. CASE AtRoot(t, R, n) /\ f[n] = f[<<Slash>>]
      <4>1. Append(n, Slash) = <<Slash>> /\ Slash \in Segs /\ Slash \notin Params
        BY <3>2, SegsAssumption DEF AtRoot
      <4>2. <<Slash>> \in Dom(t, R) /\ <<Slash>> \in t.nodes
        BY <3>1, <3>2, <4>1 DEF AtRoot
      <4>3. f[n].node = Append(n, Slash) /\ f[n].sets = << >>
        BY <3>2, <4>1, <4>2, SlashHit DEF Hit
      <4>4. QED
        BY <2>1, <4>1, <4>2, <4>3, EmptySets, EndsHere
    <3>3. ASSUME Named(R, n) \in t.nodes
          PROVE  /\ ParamsOK(t, R, Named(R, n), f[Named(R, n)])
                 /\ SetsOK(t, n, f[Named(R, n)].sets)
      <4>1. Named(R, n) \in G
        BY <1>1, <3>1, <3>3 DEF Named
      <4>2. ParamsOK(t, R, Named(R, n), f[Named(R, n)])
        BY <4>1
      <4>3. QED
        BY <3>1, <4>2, SetsBelow DEF ParamsOK, Named
    <3>4. CASE Named(R, n) \in t.nodes /\ f[n] = f[Named(R, n)]
      <4> DEFINE r == f[n]
                 m == r.node
      <4>1. SetsOK(t, n, r.sets)
        BY <3>3, <3>4
      <4>2. ASSUME m # NoNode
            PROVE  /\ m \in t.nodes /\ Through(m, Named(R, n))
                   /\ \A i \in 1 .. Len(m) :
                          i > Len(Named(R, n)) /\ m[i] \in Params
                              => LastSet(r.sets, NameOf[m[i]], R[i])
        BY <3>3, <3>4, <4>2 DEF ParamsOK
      <4>3. ASSUME m # NoNode, NEW i \in 1 .. Len(m), i > Len(n), m[i] \in Params
            PROVE  LastSet(r.sets, NameOf[m[i]], R[i])
        <5>1. m \in Seq(Segs)
          BY <4>2, <4>3 DEF TreeOK, NodeOK
        <5>2. Len(Named(R, n)) = Len(n) + 1 /\ m[Len(n) + 1] = R[Len(n) + 1]
          BY <3>1, <4>2, <4>3, <5>1, ThroughTrans DEF Named
        <5>3. Len(n) + 1 \in 1 .. Len(R)
          BY <3>1
        <5>4. i # Len(n) + 1
          BY <4>3, <5>2, <5>3
        <5>5. i > Len(Named(R, n))
          BY <2>1, <4>3, <5>2, <5>4
        <5>6. QED
          BY <4>2, <4>3, <5>5
      <4>4. m # NoNode => Through(m, n)
        BY <3>1, <4>2, ThroughTrans DEF Named, TreeOK, NodeOK
      <4> HIDE DEF r
      <4>5. QED
        BY <4>1, <4>2, <4>3, <4>4 DEF ParamsOK, r
    <3> DEFINE e == Exact(t, R, f, n).sets
    <3>5. SetsOK(t, n, e)
      BY <3>3, EmptySets DEF Exact, Hit
    <3>6. CASE f[n] = Hit(NoNode, e, << >>)
      <4>1. f[n].node = NoNode /\ f[n].sets = e
        BY <3>6 DEF Hit
      <4>2. QED
        BY <2>1, <3>5, <4>1, EndsHere
    <3>7. ASSUME ~None(t, R, n), First(t, R, n) \in Stars, f[n] = ByStar(t, R, f, n)
          PROVE  ParamsOK(t, R, n, f[n])
      <4> DEFINE c == First(t, R, n)
      <4>1. c \in Segs /\ Append(n, c) \in t.nodes
        BY <3>7, WildIs
      <4>2. c \notin Params
        BY <3>7, SegsAssumption
      <4>3. f[n].node = Append(n, c) /\ f[n].sets = e
        BY <3>7 DEF ByStar, Hit
      <4> HIDE DEF c, e
      <4>4. QED
        BY <2>1, <3>5, <4>1, <4>2, <4>3, EndsHere
    <3>8. ASSUME ~None(t, R, n), First(t, R, n) \in Params, f[n] = ByParam(t, R, f, n)
          PROVE  ParamsOK(t, R, n, f[n])
      <4> DEFINE c == First(t, R, n)
                 d == Append(n, c)
                 x == <<NameOf[c], R[Len(n) + 1]>>
                 w == f[d].sets
                 m == f[d].node
      <4>1. c \in Segs /\ d \in t.nodes
        BY <3>8, WildIs
      <4>2. f[n].node = m /\ f[n].sets = (e \o <<x>>) \o w
        <5>1. f[n] = Hit(m, (e \o <<x>>) \o w, f[d].match)
          BY <3>8 DEF ByParam
        <5> HIDE DEF e, x, w, m, d, c
        <5>2. QED
          BY <5>1 DEF Hit
      <4>3. ParamsOK(t, R, d, f[d])
        BY <1>1, <3>1, <4>1
      <4>4. SetsOK(t, d, w)
        BY <4>3 DEF ParamsOK
      <4>5. x \in Assigned /\ x[1] = NameOf[c] /\ x[2] = R[Len(n) + 1]
        <5>1. NameOf[c] \in STRING
          BY <3>8, SegsAssumption
        <5>2. QED
          BY <3>1, <5>1 DEF Assigned
      <4>6. Len(d) = Len(n) + 1 /\ d \in Seq(Segs) /\ d[Len(n) + 1] = c
        BY <3>1, <4>1
      <4>7. SetsOK(t, n, w)
        BY <3>1, <4>1, <4>4, SetsBelow
      <4>8. SetsOK(t, n, <<x>>)
        <5>1. Through(d, d)
          BY <4>6 DEF Through
        <5>2. Through(d, n)
          BY <3>1, <4>1, <4>6, <5>1, ThroughTrans
        <5>3. Len(n) + 1 \in 1 .. Len(d) /\ Len(n) + 1 > Len(n)
          BY <2>1, <4>6
        <5>4. NameBelow(t, n, NameOf[c])
          BY <3>8, <4>1, <4>6, <5>2, <5>3 DEF NameBelow
        <5> HIDE DEF x, c
        <5>5. <<x>> \in Seq(Assigned) /\ Len(<<x>>) = 1 /\ <<x>>[1] = x
          BY <4>5
        <5>6. \A j \in 1 .. Len(<<x>>) : <<x>>[j] = x
          BY <5>5
        <5>7. QED
          BY <4>5, <5>4, <5>5, <5>6 DEF SetsOK, NamesBelow
      <4>9. SetsOK(t, n, f[n].sets)
        <5> HIDE DEF x, w, e
        <5>1. SetsOK(t, n, e \o <<x>>)
          BY <3>5, <4>8, SetsConcat
        <5>2. QED
          BY <4>2, <4>7, <5>1, SetsConcat
      <4>10. e \in Seq(Assigned) /\ w \in Seq(Assigned) /\ e \o <<x>> \in Seq(Assigned)
        <5> HIDE DEF x, w, e
        <5>1. e \in Seq(Assigned) /\ w \in Seq(Assigned) /\ <<x>> \in Seq(Assigned)
          BY <3>5, <4>4, <4>8 DEF SetsOK
        <5>2. QED
          BY <5>1
      <4>11. ASSUME m # NoNode
             PROVE  /\ m \in t.nodes /\ Through(m, d)
                    /\ \A i \in 1 .. Len(m) :
                           i > Len(d) /\ m[i] \in Params
                               => LastSet(w, NameOf[m[i]], R[i])
        BY <4>3, <4>11 DEF ParamsOK
      <4>12. LastSet(f[n].sets, NameOf[c], R[Len(n) + 1])
        <5>1. \A j \in 1 .. Len(w) : w[j][1] # NameOf[c]
          BY <3>1, <3>8, <4>1, <4>4, NotAgain
        <5> HIDE DEF x, w, e, c
        <5>2. LastSet((e \o <<x>>) \o w, x[1], x[2])
          BY <4>5, <4>10, <5>1, LastHere
        <5>3. QED
          BY <4>2, <4>5, <5>2
      <4>13. ASSUME m # NoNode, NEW i \in 1 .. Len(m), i > Len(n), m[i] \in Params
             PROVE  LastSet(f[n].sets, NameOf[m[i]], R[i])
        <5>1. m \in Seq(Segs)
          BY <4>11, <4>13 DEF TreeOK, NodeOK
        <5>2. m[Len(n) + 1] = c
          BY <3>1, <4>1, <4>11, <4>13, <5>1, ThroughTrans
        <5>3. CASE i = Len(n) + 1
          BY <4>12, <5>2, <5>3
        <5>4. CASE i # Len(n) + 1
          <6>1. i > Len(d)
            BY <2>1, <4>6, <4>13, <5>1, <5>4
          <6>2. LastSet(w, NameOf[m[i]], R[i])
            BY <4>11, <4>13, <6>1
          <6> HIDE DEF x, w, e
          <6>3. QED
            BY <4>2, <4>10, <6>2, LastAfter
        <5>5. QED
          BY <5>3, <5>4
      <4>14. m # NoNode => Through(m, n)
        BY <3>1, <4>1, <4>11, ThroughTrans DEF TreeOK, NodeOK
      <4> HIDE DEF m
      <4>15. QED
        BY <4>2, <4>9, <4>11, <4>13, <4>14 DEF ParamsOK
    <3>9. QED
      BY <2>4, <3>2, <3>4, <3>6, <3>7, <3>8, FindAt
  <2>5. QED
    BY <2>2, <2>3, <2>4, FindAt
<1>2. Climbs(t, R, G)
  BY <1>1 DEF Climbs
<1> HIDE DEF G
<1>3. Dom(t, R) \subseteq G
  BY <1>2, Descend
<1>4. QED
  BY <1>3 DEF G

(* The handler reads each parameter of its route as the request gave it.   *)
LEMMA ParamsAreRight ==
    ASSUME RouterInv
    PROVE  ParamsRight
<1>1. SUFFICES ASSUME \A n \in server.nodes : NamesOnce(n), NEW R \in Paths,
                      NEW r, r = find(server, R), r.node # NoNode,
                      NEW i \in 1 .. Len(r.node), r.node[i] \in Params
               PROVE  param(r.sets, NameOf[r.node[i]]) = R[i]
  BY DEF ParamsRight
<1>2. TreeOK(server) /\ R \in Seq(Segs)
  BY RequestIs DEF RouterInv, TableOK
<1>3. \A k \in 1 .. Len(R) : R[k] \notin Params
  <2>1. Range(R) \cap Params = {}
    BY RequestIs
  <2>2. QED
    BY <1>2, <2>1 DEF Range
<1>4. PICK f : IsFind(server, R, f) /\ find(server, R) = f[<< >>]
  BY <1>2, FindBy
<1>5. << >> \in Dom(server, R)
  BY <1>2, FindBy
<1>6. ParamsOK(server, R, << >>, r)
  BY <1>1, <1>2, <1>3, <1>4, <1>5, FindSets
<1>7. r.sets \in Seq(Assigned)
  BY <1>6 DEF ParamsOK, SetsOK
<1>8. i > Len(<< >>)
  <2>1. Len(<< >>) = 0 /\ r.node \in Seq(Segs)
    BY <1>1, <1>2, <1>6 DEF ParamsOK, TreeOK, NodeOK
  <2>2. QED
    BY <2>1
<1>9. LastSet(r.sets, NameOf[r.node[i]], R[i])
  BY <1>1, <1>6, <1>8 DEF ParamsOK
<1>10. QED
  BY <1>7, <1>9, LastIs

-----------------------------------------------------------------------------
(* The theorems about the router                                           *)

(* The invariant holds throughout.                                         *)
LEMMA RouterInvariant == RouterSpec => []RouterInv
<1>1. RouterInit => RouterInv
  BY NewTableOK DEF RouterInit, RouterInv, BlueOK
<1>2. RouterInv /\ [RouterNext]_routerVars => RouterInv'
  BY RouterInductive
<1>3. QED
  BY <1>1, <1>2, PTL DEF RouterSpec

(* Whatever a program registers, in whatever order, through blueprints and *)
(* static trees too, RouteTableNode::find gives a request only to a route  *)
(* that describes it.                                                      *)
THEOREM RequestsRouted == RouterSpec => []RoutedByPattern
<1>1. RouterInv => RoutedByPattern
  BY Routed
<1>2. QED
  BY <1>1, RouterInvariant, PTL

(* What the program asked for is in the tree.                              *)
LEMMA WantedInvariant == RouterSpec => []WantedInv
<1>1. RouterInit => WantedInv
  <2>1. SUFFICES ASSUME RouterInit PROVE WantedInv
    OBVIOUS
  <2>2. /\ server.bound = {} /\ server.nodes = {<< >>} /\ wanted = {}
        /\ blue.bound = {} /\ blue.nodes = {<< >>} /\ wantedBlue = {}
    BY <2>1 DEF RouterInit, NewTable
  <2>3. << >> # <<Slash>>
    OBVIOUS
  <2>4. QED
    BY <2>2, <2>3 DEF WantedInv, Holds, Covered
<1>2. RouterInv /\ WantedInv /\ [RouterNext]_routerVars => WantedInv'
  BY WantedInductive
<1>3. QED
  BY <1>1, <1>2, RouterInvariant, PTL DEF RouterSpec

(* A handler the program gave a path of plain segments answers that path,  *)
(* whatever else it registers, in its own tree or by merging blueprints,   *)
(* if it makes none of the calls that lose handlers: the handler is in the *)
(* tree, and at every node the child of the very name leads to it.         *)
THEOREM ExactRoutesFirst == RouterSpec => []ExactFirst
<1>1. RouterInv /\ WantedInv => ExactFirst
  BY ExactIsFirst DEF BoundFirst, ExactFirst, WantedInv, Holds
<1>2. QED
  BY <1>1, RouterInvariant, WantedInvariant, PTL

(* The parameters a handler sees are the segments of the request in their  *)
(* places, although abandoned branches have written to the same map.       *)
THEOREM ParametersOfTheRoute == RouterSpec => []ParamsRight
<1>1. RouterInv => ParamsRight
  BY ParamsAreRight
<1>2. QED
  BY <1>1, RouterInvariant, PTL

(* No request that a route of the program describes, and may claim, is     *)
(* answered with 404, where no {name} and * compete for a segment and the  *)
(* program made none of the calls that lose handlers.                      *)
THEOREM RoutesAreFound == RouterSpec => []NotFoundJustified
<1>1. RouterInv /\ WantedInv => NotFoundJustified
  BY NotFound DEF BoundFound, NotFoundJustified, WantedInv, Holds
<1>2. QED
  BY <1>1, RouterInvariant, WantedInvariant, PTL
=============================================================================
