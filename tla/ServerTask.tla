----------------------------- MODULE ServerTask -----------------------------
(***************************************************************************)
(* One connection of a wfrest server and the requests it carries, one      *)
(* after the other: HttpServer::process, the wrapper that BluePrint::ROUTE *)
(* puts around a handler (route aspects, global aspects, compute queue),   *)
(* the series of subtasks the handler starts, HttpServerTask::message_out  *)
(* with its keep-alive rules, and the callbacks after the reply.           *)
(*                                                                         *)
(* What workflow does is external and modelled as the code relies on it:   *)
(* process runs first, the series runs its tasks in order, the reply is    *)
(* sent when the series is empty, and the callback runs when the reply has *)
(* been sent or has failed.  Handlers and aspects are the application's:   *)
(* they return what they like, and start a subtask or not.                 *)
(***************************************************************************)
EXTENDS Integers, Sequences, FiniteSets, SequencesExt

CONSTANTS Requests,       \* requests a client may send
          GlobalLists,    \* aspect lists a program may have given to Use
          ServerTimeo,    \* params.keep_alive_timeout, in milliseconds
          MaxTimeo,       \* HTTP_KEEPALIVE_MAX, in milliseconds
          MilliSec,       \* 1000: milliseconds of a second
          IntLimit,       \* 2^31: an int is less than it
          MaxSeq          \* bound: requests on the connection

(* The values of an int, and what arithmetic beyond them leaves in one: an *)
(* overflow is undefined, and wraps around in every build of this code.    *)
Ints == -IntLimit .. IntLimit - 1
Wrapped(x) == ((x + IntLimit) % (2 * IntLimit)) - IntLimit

ASSUME RequestsAssumption ==
    \A r \in Requests :
        /\ r.valid \in BOOLEAN              \* Host is there, the URI parses
        /\ r.call \in {"StatusOK", "StatusRouteNotFound",
                       "StatusRouteVerbNotImplment"}
        /\ r.own \in Seq(STRING)            \* aspects given to ROUTE
        /\ r.compute \in BOOLEAN            \* registered with a queue
        /\ r.alive \in BOOLEAN              \* req.is_keep_alive()
        /\ r.keep \in                       \* the Keep-Alive header
               Seq([key : {"timeout", "max", "other"}, val : Ints])
(* An aspect is an object, not a type: a chain has each of them once.      *)
ASSUME AspectsAssumption ==
    \A g \in GlobalLists :
        /\ g \in Seq(STRING)
        /\ \A r \in Requests : \A i, j \in 1 .. Len(r.own \o g) :
               (r.own \o g)[i] = (r.own \o g)[j] => i = j
ASSUME TimeoAssumption ==
    /\ IntLimit \in Nat \ {0} /\ MilliSec \in Nat \ {0}
    /\ ServerTimeo \in Ints /\ MaxTimeo \in 1 .. IntLimit - 1
ASSUME MaxSeqAssumption == MaxSeq \in Nat

VARIABLES
    globals,     \* GlobalAspect::aspect_list
    track,       \* track_func_ is set
    seq,         \* number of the request on the connection
    pc,          \* what the task is doing
    req,         \* the request
    at,          \* position in the list of aspects being called
    log,         \* ghost: the calls made for this request, in order
    tuple,       \* the copy of the route's aspects: none, live, freed
    subtasks,    \* tasks in the series
    cbs,         \* cb_list_
    conn,        \* the handler's Connection header
    timeo,       \* keep_alive_timeo
    header       \* the Connection header of the reply

vars == <<globals, track, seq, pc, req, at, log, tuple, subtasks, cbs, conn,
          timeo, header>>

Call(what, who, ok) == [what |-> what, who |-> who, ok |-> ok]
Log(what, who, ok) == log' = Append(log, Call(what, who, ok))

Init ==
    /\ globals \in GlobalLists
    /\ track \in BOOLEAN
    /\ seq = 0
    /\ pc = "idle"
    /\ req \in Requests            \* of no use before Receive
    /\ at = 0
    /\ log = << >>
    /\ tuple = "none"
    /\ subtasks = << >>
    /\ cbs = << >>
    /\ conn = "none"
    /\ timeo = 0
    /\ header = "none"

-----------------------------------------------------------------------------
(* new_session and handle(WFT_STATE_TOREPLY)                               *)
Receive(r) ==
    /\ pc = "idle"
    /\ seq < MaxSeq
    /\ req' = r
    /\ pc' = "process"
    /\ log' = << >>
    /\ tuple' = "none"
    /\ cbs' = << >>
    /\ conn' = "none"
    /\ timeo' = ServerTimeo
    /\ header' = "none"
    /\ at' = 0
    /\ UNCHANGED <<globals, track, seq, subtasks>>

(* The client may close an idle connection, or the timeout ends it.        *)
Disconnect ==
    /\ pc = "idle"
    /\ pc' = "closed"
    /\ UNCHANGED <<globals, track, seq, req, at, log, tuple, subtasks, cbs,
                   conn, timeo, header>>

Tracked == IF track THEN <<"track">> ELSE << >>

(* HttpServer::process: a request without Host or with a bad URI is        *)
(* answered 400 at once; one without a route gets resp->Error.  That the   *)
(* path is url_encode'd before it is looked up is not told apart: r.call   *)
(* is what the router answers for the path as it was looked up.            *)
process ==
    /\ pc = "process"
    /\ IF req.valid /\ req.call = "StatusOK"
       THEN /\ pc' = "before"
            /\ at' = 1
            /\ tuple' = IF req.own # << >> THEN "live" ELSE "none"
            /\ UNCHANGED cbs
       ELSE /\ pc' = "series"
            /\ cbs' = IF req.valid THEN Tracked ELSE << >>
            /\ UNCHANGED <<at, tuple>>
    /\ UNCHANGED <<globals, track, seq, req, log, subtasks, conn, timeo, header>>

(* A route with aspects of its own stops at the first before that returns  *)
(* false; one without ignores what the global aspects return.              *)
Guarded == req.own # << >>
Chain == req.own \o globals

(* Mutant: the global aspects' answers are ignored on every route.         *)
StopsAtOwnOnly(ok) == Guarded /\ ~ok /\ at <= Len(req.own)

StopsAt(ok) == Guarded /\ ~ok

Before(ok) ==
    /\ pc = "before"
    /\ at <= Len(Chain)
    /\ Log("before", Chain[at], ok)
    /\ at' = at + 1
    /\ IF StopsAt(ok)
       THEN pc' = "series" /\ cbs' = Tracked
       ELSE UNCHANGED <<pc, cbs>>
    /\ UNCHANGED <<globals, track, seq, req, tuple, subtasks, conn, timeo, header>>

(* The callback that will call the aspects' after, then the tracker's.     *)
AspectCallback ==
    (IF Guarded \/ globals # << >> THEN <<"aspects">> ELSE << >>) \o Tracked

(* What a handler does: it may start a subtask (File, Save, Http, MySQL,   *)
(* Redis, Timer, Compute all add one to the series) and set Connection.    *)
RunHandler(queue) ==
    /\ Log("handler", "handler", TRUE)
    /\ subtasks' \in {queue, Append(queue, "io")}
    /\ conn' \in {"none", "close", "Keep-Alive"}

(* The wrapper calls the handler, or creates a go task for the compute     *)
(* queue, which Router::call puts in the series.                           *)
Handle ==
    /\ pc = "before"
    /\ at > Len(Chain)
    /\ IF req.compute
       THEN subtasks' = Append(subtasks, "go") /\ UNCHANGED <<log, conn>>
       ELSE RunHandler(subtasks)
    /\ cbs' = AspectCallback
    /\ pc' = "series"
    /\ UNCHANGED <<globals, track, seq, req, at, tuple, timeo, header>>

-----------------------------------------------------------------------------
(* The series                                                              *)
RunSubtask ==
    /\ pc = "series"
    /\ subtasks # << >>
    /\ IF Head(subtasks) = "go"
       THEN RunHandler(Tail(subtasks))
       ELSE subtasks' = Tail(subtasks) /\ UNCHANGED <<log, conn>>
    /\ UNCHANGED <<globals, track, seq, pc, req, at, tuple, cbs, timeo, header>>

(* 1000 * atoi(...) is a product of ints.                                  *)
Millis(seconds) == Wrapped(MilliSec * seconds)

(* Mutant: the loop ends after the first parameter it knows.               *)
KeepAliveFirst(keep, n) ==
    LET known == SelectSeq(keep, LAMBDA p : p.key \in {"timeout", "max"})
    IN  IF known = << >> THEN ServerTimeo
        ELSE IF known[1].key = "timeout" THEN Millis(known[1].val)
        ELSE IF n >= known[1].val THEN 0 ELSE ServerTimeo

(* One parameter of the Keep-Alive header.  l.seen is flag, l.over says    *)
(* that the loop was left; the header's time is in seconds.                *)
Parameter(l, p, n) ==
    LET seen == l.seen \cup {p.key}
        used == p.key = "max" /\ n >= p.val
    IN  IF l.over \/ p.key \in l.seen \cup {"other"} THEN l
        ELSE [seen |-> seen,
              timeo |-> IF p.key = "timeout" THEN Millis(p.val)
                        ELSE IF used THEN 0 ELSE l.timeo,
              over |-> used \/ seen = {"timeout", "max"}]

(* The loop over the parameters: loop[i] has handled the first i.          *)
KeepAlive(keep, n) ==
    LET loop[i \in 0 .. Len(keep)] ==
            IF i = 0 THEN [seen |-> {}, timeo |-> ServerTimeo, over |-> FALSE]
            ELSE Parameter(loop[i - 1], keep[i], n)
    IN  loop[Len(keep)].timeo

(* A negative timeout is large when compared as unsigned.                  *)
Clamp(t) == IF t < 0 \/ t > MaxTimeo THEN MaxTimeo ELSE t

IsAlive == IF conn # "none" THEN conn = "Keep-Alive" ELSE req.alive

(* handle reads the Keep-Alive header only of a request that is alive.     *)
ReqKeepAlive == IF req.alive THEN req.keep ELSE << >>

message_out ==
    /\ timeo' = IF IsAlive THEN Clamp(KeepAlive(ReqKeepAlive, seq)) ELSE 0
    /\ header' = IF conn # "none" THEN conn
                 ELSE IF timeo' = 0 THEN "close" ELSE "Keep-Alive"

(* The series is over: the reply is sent, or fails, on a connection the    *)
(* client has closed even before message_out is called.                    *)
Reply(ok) ==
    /\ pc = "series"
    /\ subtasks = << >>
    /\ message_out \/ (~ok /\ UNCHANGED <<timeo, header>>)
    /\ Log("reply", "reply", ok)
    /\ pc' = "callbacks"
    /\ at' = 1
    /\ UNCHANGED <<globals, track, seq, req, tuple, subtasks, cbs, conn>>

-----------------------------------------------------------------------------
(* The callbacks                                                           *)

(* Mutant: a false from an own after also skips the global ones.           *)
SkipAll(ok) == IF ok \/ at > Len(req.own) THEN at + 1 ELSE Len(Chain) + 1

(* aop_after stops at the first false of the route's own aspects; the      *)
(* global ones are all called.                                             *)
NextAfter(ok) ==
    IF ok \/ at > Len(req.own) THEN at + 1 ELSE Len(req.own) + 1

After(ok) ==
    /\ pc = "callbacks"
    /\ cbs # << >> /\ Head(cbs) = "aspects"
    /\ at <= Len(Chain)
    /\ Log("after", Chain[at], ok)
    /\ at' = NextAfter(ok)
    /\ UNCHANGED <<globals, track, seq, pc, req, tuple, subtasks, cbs, conn,
                   timeo, header>>

AspectsDone ==
    /\ pc = "callbacks"
    /\ cbs # << >> /\ Head(cbs) = "aspects"
    /\ at > Len(Chain)
    /\ tuple' = IF tuple = "live" THEN "freed" ELSE tuple
    /\ cbs' = Tail(cbs)
    /\ UNCHANGED <<globals, track, seq, pc, req, at, log, subtasks, conn,
                   timeo, header>>

Track ==
    /\ pc = "callbacks"
    /\ cbs # << >> /\ Head(cbs) = "track"
    /\ Log("track", "track", TRUE)
    /\ cbs' = Tail(cbs)
    /\ UNCHANGED <<globals, track, seq, pc, req, at, tuple, subtasks, conn,
                   timeo, header>>

(* The task is deleted; the connection takes the next request unless the   *)
(* reply failed or keep-alive is off.                                      *)
Replied == \E i \in 1 .. Len(log) : log[i].what = "reply" /\ log[i].ok

Done ==
    /\ pc = "callbacks"
    /\ cbs = << >>
    /\ IF Replied /\ timeo # 0
       THEN pc' = "idle" /\ seq' = seq + 1
       ELSE pc' = "closed" /\ UNCHANGED seq
    /\ UNCHANGED <<globals, track, req, at, log, tuple, subtasks, cbs, conn,
                   timeo, header>>

-----------------------------------------------------------------------------
TaskStep ==
    \/ process \/ Handle \/ RunSubtask \/ AspectsDone \/ Track \/ Done
    \/ \E ok \in BOOLEAN : Before(ok) \/ Reply(ok) \/ After(ok)

Next == TaskStep \/ Disconnect \/ \E r \in Requests : Receive(r)

Spec == Init /\ [][Next]_vars

-----------------------------------------------------------------------------
(* Properties                                                              *)

Calls(what) == {i \in 1 .. Len(log) : log[i].what = what}

(* A handler behind aspects runs only when every before of the route's own *)
(* and of the global aspects has said yes, also when the handler runs      *)
(* later on a compute queue; it runs at most once, and before the reply.   *)
HandlerGuarded ==
    \A h \in Calls("handler") :
        /\ Guarded => \A k \in 1 .. Len(Chain) :
               \E i \in Calls("before") :
                   i < h /\ log[i].who = Chain[k] /\ log[i].ok
        /\ Calls("handler") = {h}
        /\ \A i \in Calls("reply") : h < i

(* "'after()' should be called after reply" (docs/aop.md).  When a request *)
(* is done and its handler ran, every global aspect's after was called     *)
(* exactly once, after the reply, whatever other aspects returned and      *)
(* whether the reply reached the client; an own aspect's after was called  *)
(* unless an earlier one of the route's returned false; and the copy of    *)
(* the aspects is freed.                                                   *)
AftersFollowReply ==
    /\ \A a \in Calls("after") : \E i \in Calls("reply") : i < a
    /\ pc \in {"idle", "closed"} /\ Calls("handler") # {} =>
           /\ \A k \in 1 .. Len(Chain) :
                  LET afters == {i \in Calls("after") : log[i].who = Chain[k]}
                  IN  \/ Cardinality(afters) = 1
                      \/ /\ afters = {} /\ k <= Len(req.own)
                         /\ \E i \in Calls("after") :
                                ~log[i].ok /\ log[i].who \in Range(req.own)
           /\ tuple # "live"

FirstOf(keep, key) ==
    LET is == {i \in 1 .. Len(keep) : keep[i].key = key}
    IN  {keep[i].val : i \in {j \in is : \A k \in is : j <= k}}

(* The keep-alive rules of message_out, told without its loop: a reply     *)
(* ends the connection when the handler or the client asks for it and when *)
(* the client's first "max" is used up, in whatever order the header has   *)
(* its parameters; otherwise the connection is kept for the time the first *)
(* "timeout" asks for, or the server's, but never longer than              *)
(* HTTP_KEEPALIVE_MAX; and the client is told, unless the handler has      *)
(* written the Connection header itself.  What is kept for a time that is  *)
(* no int once in milliseconds is left open, as the product that overflows *)
(* may give anything up to HTTP_KEEPALIVE_MAX, or close the connection.    *)
KeepAliveRule ==
    pc = "callbacks" /\ header # "none" =>
        LET asked == FirstOf(ReqKeepAlive, "timeout")
            time == IF asked = {} THEN {ServerTimeo}
                    ELSE {MilliSec * v : v \in asked}
            ends == \/ ~IsAlive
                    \/ \E n \in FirstOf(ReqKeepAlive, "max") : seq >= n
        IN  /\ ends => timeo = 0
            /\ ~ends => \A t \in time \cap Ints :
                   timeo = IF t \in 0 .. MaxTimeo THEN t ELSE MaxTimeo
            /\ timeo \in 0 .. MaxTimeo
            /\ header = "close" => timeo = 0
            /\ header = "Keep-Alive" /\ conn = "none" => timeo # 0
=============================================================================
