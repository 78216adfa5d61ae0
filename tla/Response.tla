------------------------------ MODULE Response ------------------------------
(***************************************************************************)
(* How a wfrest handler answers: the calls it makes on HttpResp (String,   *)
(* Json, Error, File, Save, multipart String, Http, MySQL, Redis, Timer),  *)
(* the subtasks these put into the series of the server task, and the      *)
(* callbacks that free what the body of the reply points into.             *)
(*                                                                         *)
(* The body is a list of pieces; a piece given without a copy points into  *)
(* an object of the heap.  Workflow is external: the series runs its tasks *)
(* in order, then the reply is sent or fails, then HttpServerTask's loop   *)
(* over cb_list_ runs, then the callback of the series.                    *)
(***************************************************************************)
EXTENDS Integers, Sequences, FiniteSets, SequencesExt

CONSTANTS Programs,     \* sequences of calls a handler may make
          IntLimit      \* int goes from -IntLimit to IntLimit - 1; size_t has
                        \* twice as many bits

ASSUME IntLimitAssumption == IntLimit \in Nat \ {0}
(* The calls a handler may make.                                           *)
Ops == {"string", "move", "json", "badjson", "gzip", "br", "file", "save",
        "savemsg", "multipart", "http", "mysql", "mysqlfunc", "redis", "timer"}

(* A handler proxies at most once: Http moves the request away.            *)
ASSUME ProgramsAssumption ==
    \A p \in Programs :
        /\ Len(p) \in Nat
        /\ \A k \in 1 .. Len(p) :
               /\ p[k].op \in Ops
               /\ p[k].op = "multipart" => p[k].files \in Seq(BOOLEAN)
               /\ p[k].op = "file" => p[k].size \in Nat
                                      /\ p[k].start \in Int /\ p[k].end \in Int
        /\ \A j, k \in 1 .. Len(p) :
               p[j].op = "http" /\ p[k].op = "http" => j = k

VARIABLES
    calls,       \* the handler's calls
    at,          \* how many it has made
    pc,          \* handler, series, callbacks, done; undefined
    heap,        \* objects: their kind, how often freed, the text of a content
    body,        \* pieces of the output body
    cbs,         \* cb_list_: the objects its callbacks free
    cb, cb_end,  \* position and end iterator of the loop over cb_list_
    tasks,       \* the subtasks in the series
    context,     \* series->get_context()
    encoder,     \* the encoder its callback deletes
    encoding,    \* headers["Content-Encoding"]
    fetch,       \* the WFHttpTask that Http creates: none, live, deleted
    replied,     \* the reply reached the client
    outcome      \* ghost: by call, how each of its tasks ended

vars == <<calls, at, pc, heap, body, cbs, cb, cb_end, tasks, context, encoder,
          encoding, fetch, replied, outcome>>

Null == 0
Obj(kind) == [kind |-> kind, frees |-> 0, text |-> << >>]
Live(o) == heap[o].frees = 0

(* A piece: the call it answers, what it says, the object it points into   *)
(* (Null when it was copied or is a literal), how long that object was.    *)
Piece(k, says, o, coding, len) ==
    [of |-> k, says |-> says, obj |-> o, coding |-> coding, len |-> len]

Task(kind, k, o, last) == [kind |-> kind, of |-> k, obj |-> o, last |-> last]

Init ==
    /\ calls \in Programs
    /\ at = 0
    /\ pc = "handler"
    /\ heap = << >>
    /\ body = << >>
    /\ cbs = << >>
    /\ cb = 0 /\ cb_end = 0
    /\ tasks = << >>
    /\ context = Null
    /\ encoder = Null
    /\ encoding = "none"
    /\ fetch = "none"
    /\ replied = FALSE
    /\ outcome = [k \in 1 .. Len(calls) |-> << >>]

-----------------------------------------------------------------------------
(* HttpResp::String.  compress leaves its output empty when a              *)
(* Content-Encoding other than gzip is set and still says StatusOK; gzip   *)
(* itself may fail, and the text is sent as it is.                         *)
compress ==
    CASE encoding = "gzip" -> {"gzip", "plain"}
      [] encoding = "none" -> {"plain"}
      [] OTHER -> {"lost"}

(* Mutant: the string is freed before the reply, not by a callback.        *)
StringFreed(k, says, moved) ==
    \E coding \in compress :
        /\ heap' = Append(heap, [Obj("string") EXCEPT !.frees = 1])
        /\ body' = Append(body, Piece(k, says, Len(heap) + 1, coding, 0))
        /\ UNCHANGED cbs

String(k, says, moved) ==
    \E coding \in compress :
        LET o == Len(heap) + 1
        IN  /\ heap' = Append(heap, Obj("string"))
            /\ body' = Append(body,
                   Piece(k, says, IF moved \/ coding # "plain" THEN o ELSE Null,
                         coding, 0))
            /\ cbs' = Append(cbs, o)

Error(k) == String(k, "error", TRUE)

-----------------------------------------------------------------------------
(* HttpFile::send_file.  size_t arguments go through int.                  *)
ToInt(n) ==
    LET m == n % (2 * IntLimit)
    IN  IF m >= IntLimit THEN m - 2 * IntLimit ELSE m
SizeT(n) == n % (4 * IntLimit * IntLimit)

(* Mutant: the end is taken as it is.                                      *)
FileRangeRaw(f) ==
    LET s == ToInt(SizeT(f.start))
    IN  [start |-> IF s < 0 THEN ToInt(SizeT(f.size + s)) ELSE s,
         end |-> ToInt(SizeT(f.end))]

FileRange(f) ==
    LET s == ToInt(SizeT(f.start))
        e == ToInt(SizeT(f.end))
    IN  [start |-> IF s < 0 THEN ToInt(SizeT(f.size + s)) ELSE s,
         end |-> IF e = -1 THEN ToInt(f.size) ELSE e]

send_file(k, f) ==
    IF ~f.exists \/ FileRange(f).end <= FileRange(f).start
    THEN Error(k) /\ UNCHANGED tasks
    ELSE /\ heap' = Append(heap, Obj("buf"))
         /\ cbs' = Append(cbs, Len(heap) + 1)
         /\ tasks' = Append(tasks, Task("pread", k, Len(heap) + 1, FALSE))
         /\ UNCHANGED body

(* What pread gives: the bytes there are from the offset on.  It fails for *)
(* a negative offset, and for a length that has overflowed.                *)
ReadFails(f) ==
    LET r == FileRange(f)
    IN  r.start < 0 \/ r.end - r.start >= IntLimit
ReadBytes(f) ==
    LET r == FileRange(f)
    IN  [from |-> r.start, n |-> Max({0, Min({r.end, f.size}) - r.start})]

-----------------------------------------------------------------------------
(* The calls of the handler                                                *)

Push(t) == tasks' = Append(tasks, t)

(* HttpFile::save_file: the context holds the content and the message.     *)
Save(k) ==
    /\ heap' = Append(heap, Obj("save"))
    /\ Push(Task("pwrite", k, Len(heap) + 1, FALSE))
    /\ cbs' = Append(cbs, Len(heap) + 1)
    /\ UNCHANGED <<body, context, encoder, encoding, fetch>>

(* Mutant: file_cnt counts down only for files that are there.             *)
ClosesUnlessSkipped(files) == \A j \in 1 .. Len(files) : files[j]

(* file_cnt counts files that are skipped, too: the last pread closes the  *)
(* form only if its file is the last one listed.                           *)
Closes(files) == files[Len(files)]

(* String of a MultiPartEncoder: a buffer and a pread for every file that  *)
(* is there, and a content that starts with the parameters.                *)
Multipart(k, files) ==
    LET used == Cardinality({j \in 1 .. Len(files) : files[j]})
        buf(n) == Len(heap) + n
        e == Len(heap) + used + 1
    IN  /\ heap' = heap \o [n \in 1 .. used |-> Obj("buf")]
                        \o <<Obj("encoder"), [Obj("content") EXCEPT !.text = <<"params">>]>>
        /\ tasks' = tasks \o [n \in 1 .. used |->
               Task("mpread", k, buf(n), n = used /\ Closes(files))]
        /\ cbs' = cbs \o [n \in 1 .. used |-> buf(n)]
        /\ encoder' = e
        /\ context' = e + 1
        /\ UNCHANGED <<body, encoding, fetch>>

(* Http: the task and its context are created before the URL is parsed; of *)
(* one that does not parse neither is started, nor dismissed or freed.     *)
Http(k, good) ==
    /\ fetch' = "live"
    /\ heap' = Append(heap, Obj("proxy"))
    /\ IF good THEN Push(Task("http", k, Len(heap) + 1, FALSE))
               ELSE UNCHANGED tasks
    /\ UNCHANGED <<body, cbs, context, encoder, encoding>>

(* MySQL, Redis, Timer                                                     *)
Query(k, kind) ==
    /\ Push(Task(kind, k, Null, FALSE))
    /\ UNCHANGED <<heap, body, cbs, context, encoder, encoding, fetch>>

Keep == UNCHANGED <<tasks, context, encoder, encoding, fetch>>

Do(k, call) ==
    CASE call.op = "string" -> String(k, "text", FALSE) /\ Keep
      [] call.op \in {"move", "json"} -> String(k, "text", TRUE) /\ Keep
      [] call.op = "badjson" -> Error(k) /\ Keep
      [] call.op \in {"gzip", "br"} ->
             /\ encoding' = call.op
             /\ UNCHANGED <<heap, body, cbs, tasks, context, encoder, fetch>>
      [] call.op = "file" ->
             send_file(k, call) /\ UNCHANGED <<context, encoder, encoding, fetch>>
      [] call.op \in {"save", "savemsg"} -> Save(k)
      [] call.op = "multipart" -> Multipart(k, call.files)
      [] call.op = "http" -> Http(k, call.good)
      [] call.op \in {"mysql", "mysqlfunc", "redis", "timer"} -> Query(k, call.op)

Call ==
    /\ pc = "handler"
    /\ at < Len(calls)
    /\ at' = at + 1
    /\ Do(at + 1, calls[at + 1])
    /\ UNCHANGED <<calls, pc, cb, cb_end, replied, outcome>>

HandlerReturns ==
    /\ pc = "handler"
    /\ at = Len(calls)
    /\ pc' = "series"
    /\ UNCHANGED <<calls, at, heap, body, cbs, cb, cb_end, tasks, context,
                   encoder, encoding, fetch, replied, outcome>>
-----------------------------------------------------------------------------
(* The series                                                              *)

First == tasks[1]

(* The head of the series ends with r; what follows may depend on it.      *)
(* Workflow deletes a task when its callback has returned; only Http's is  *)
(* tracked, since the others are never created without being started.      *)
Finish(kind, r) ==
    /\ pc = "series"
    /\ tasks # << >>
    /\ First.kind = kind
    /\ tasks' = Tail(tasks)
    /\ outcome' = [outcome EXCEPT ![First.of] = Append(@, r)]
    /\ fetch' = IF kind = "http" THEN "deleted" ELSE fetch
    /\ UNCHANGED <<calls, at, pc, cb, cb_end, context, encoder, replied>>

Said(says, o, len) ==
    /\ body' = Append(body, Piece(First.of, says, o, "plain", len))
    /\ UNCHANGED <<heap, cbs>>

(* pread_callback                                                          *)
pread_callback(ok) ==
    /\ Finish("pread", ok)
    /\ ok => ~ReadFails(calls[First.of])
    /\ IF ok THEN Said("data", First.obj, ReadBytes(calls[First.of]))
             ELSE Error(First.of)
    /\ UNCHANGED encoding

(* pwrite_callback: the literal, or the message in the context.            *)
pwrite_callback(ok) ==
    /\ Finish("pwrite", ok)
    /\ IF ~ok THEN Error(First.of)
       ELSE IF calls[First.of].op = "save" THEN Said("saved", Null, 0)
       ELSE Said("saved", First.obj, 0)
    /\ UNCHANGED encoding

(* The callback of a multipart pread appends to the content of the series, *)
(* whichever encoder that belongs to.                                      *)
multipart_callback(ok) ==
    LET grown == heap[context].text \o (IF ok THEN <<"file">> ELSE << >>)
                                   \o (IF First.last THEN <<"end">> ELSE << >>)
    IN  /\ Finish("mpread", ok)
        /\ heap' = [heap EXCEPT ![context].text = grown]
        /\ body' = IF First.last
                   THEN Append(body, Piece(First.of, "form", context, "plain",
                                           Len(grown)))
                   ELSE body
        /\ UNCHANGED <<cbs, encoding>>

(* mysql_callback and the callback of Redis turn rows, or the error, into  *)
(* JSON.                                                                   *)
mysql_callback(ok) ==
    /\ Finish("mysql", ok)
    /\ String(First.of, "result", TRUE)
    /\ UNCHANGED encoding

redis_callback(ok) ==
    /\ Finish("redis", ok)
    /\ String(First.of, "result", TRUE)
    /\ UNCHANGED encoding

(* MySQL with a function on the cursor: only an error is answered here.    *)
cursor_callback(ok) ==
    /\ Finish("mysqlfunc", ok)
    /\ IF ok THEN UNCHANGED <<heap, body, cbs>>
             ELSE String(First.of, "result", TRUE)
    /\ UNCHANGED encoding

(* Timer; MySQL and Redis with a function on the JSON, and Compute, leave  *)
(* all to the user's function likewise.                                    *)
timer_callback ==
    /\ Finish("timer", TRUE)
    /\ UNCHANGED <<heap, body, cbs, encoding>>

(* Mutant: the context is not given to a callback.                         *)
ProxyForgotten == UNCHANGED cbs

(* The server task deletes the context of a fetch that succeeded.          *)
ProxyCallback == cbs' = Append(cbs, First.obj)

(* proxy_http_callback: the response of the other server takes the place   *)
(* of this one, headers and body.                                          *)
proxy_http_callback(ok) ==
    /\ Finish("http", ok)
    /\ IF ok
       THEN /\ ProxyCallback
            /\ body' = <<Piece(First.of, "remote", Null, "plain", 0)>>
            /\ encoding' = "none"
            /\ UNCHANGED heap
       ELSE Error(First.of) /\ UNCHANGED encoding

RunTask(ok) ==
    \/ pread_callback(ok) \/ pwrite_callback(ok) \/ multipart_callback(ok)
    \/ mysql_callback(ok) \/ redis_callback(ok) \/ cursor_callback(ok)
    \/ timer_callback \/ proxy_http_callback(ok)

-----------------------------------------------------------------------------
(* The reply and what comes after it                                       *)

Reply(ok) ==
    /\ pc = "series"
    /\ tasks = << >>
    /\ replied' = ok
    /\ pc' = "callbacks"
    /\ cb' = 1
    /\ cb_end' = Len(cbs)
    /\ UNCHANGED <<calls, at, heap, body, cbs, tasks, context, encoder,
                   encoding, fetch, outcome>>

Free(S) == [o \in DOMAIN heap |->
    IF o \in S THEN [heap[o] EXCEPT !.frees = @ + 1] ELSE heap[o]]

RunCallback ==
    /\ pc = "callbacks"
    /\ cb <= cb_end
    /\ heap[cbs[cb]].kind = "proxy" => replied
    /\ heap' = Free({cbs[cb]})
    /\ cb' = cb + 1
    /\ UNCHANGED <<calls, at, pc, body, cbs, cb_end, tasks, context, encoder,
                   encoding, fetch, replied, outcome>>

Proxied == CHOOSE k \in 1 .. Len(calls) : calls[k].op = "http"

(* The callback of a proxied reply that failed calls Error, which adds a   *)
(* callback to the list the loop walks over: the list may move.            *)
ProxyReplyFailed ==
    /\ pc = "callbacks"
    /\ cb <= cb_end
    /\ heap[cbs[cb]].kind = "proxy" /\ ~replied
    /\ \/ /\ heap' = Append(Free({cbs[cb]}), Obj("string"))
          /\ \E coding \in compress :
                 body' = Append(body, Piece(Proxied, "error", Len(heap) + 1,
                                            coding, 0))
          /\ cbs' = Append(cbs, Len(heap) + 1)
          /\ cb' = cb + 1
          /\ UNCHANGED pc
       \/ pc' = "undefined" /\ UNCHANGED <<heap, body, cbs, cb>>
    /\ UNCHANGED <<calls, at, cb_end, tasks, context, encoder, encoding,
                   fetch, replied, outcome>>

(* The callback of the series                                              *)
SeriesEnds ==
    /\ pc = "callbacks"
    /\ cb > cb_end
    /\ heap' = Free({encoder, context})
    /\ pc' = "done"
    /\ UNCHANGED <<calls, at, body, cbs, cb, cb_end, tasks, context, encoder,
                   encoding, fetch, replied, outcome>>

Next ==
    \/ Call \/ HandlerReturns \/ RunCallback \/ ProxyReplyFailed \/ SeriesEnds
    \/ \E ok \in BOOLEAN : RunTask(ok) \/ Reply(ok)

Spec == Init /\ [][Next]_vars
-----------------------------------------------------------------------------
(* Properties                                                              *)

Multiparts == {k \in 1 .. Len(calls) : calls[k].op = "multipart"}

(* As long as the reply is not sent, every piece of the body that was not  *)
(* copied points into memory that is there and that has not moved since:   *)
(* nothing is freed by a task's callback, and the multipart content is     *)
(* appended to the body only when it does not grow any more.  A handler    *)
(* that sends two multipart forms is excluded: they share the content.     *)
BodyAlive ==
    pc \in {"handler", "series"} /\ Cardinality(Multiparts) <= 1 =>
        \A j \in 1 .. Len(body) :
            LET o == body[j].obj
            IN  o # Null => /\ Live(o)
                            /\ heap[o].kind = "content" =>
                                   body[j].len = Len(heap[o].text)

Fetched(k) == calls[k].op = "http" /\ outcome[k] = <<TRUE>>

BadUrl == \E k \in 1 .. Len(calls) : calls[k].op = "http" /\ ~calls[k].good

(* What may be left: the context of a proxy call whose URL does not parse  *)
(* or whose fetch fails, the encoder and the content of all but the last   *)
(* multipart form, and the text added after a failed proxied reply.        *)
Forgotten(o) ==
    \/ heap[o].kind = "proxy" /\ \A k \in 1 .. Len(calls) : ~Fetched(k)
    \/ heap[o].kind \in {"encoder", "content"} /\ o \notin {encoder, context}
    \/ o = Len(heap) /\ cb_end < Len(cbs)

(* Nothing is freed twice.  When the task is over, everything allocated    *)
(* for the answer has been freed, whichever reads, writes and fetches      *)
(* failed and whether or not the reply was sent, and the task of a proxy   *)
(* call is deleted.  Excused are the code's leaks: what Forgotten names,   *)
(* and the task of a proxy call whose URL does not parse.                  *)
FreedOnce ==
    /\ \A o \in 1 .. Len(heap) : heap[o].frees <= 1
    /\ pc = "done" => /\ \A o \in 1 .. Len(heap) : Live(o) => Forgotten(o)
                      /\ fetch = "live" => BadUrl

(* What a call has to say at once, and what its tasks say later.           *)
Direct(k) ==
    LET call == calls[k]
    IN  CASE call.op \in {"string", "move", "json"} -> <<"text">>
          [] call.op = "badjson" -> <<"error">>
          [] call.op = "file" /\ outcome[k] = << >> -> <<"error">>
          [] OTHER -> << >>

Deferred(k) ==
    LET call == calls[k]
        ended(ok) == Range(outcome[k]) = {ok}
    IN  CASE call.op = "file" /\ ended(TRUE) -> <<"data">>
          [] call.op \in {"save", "savemsg"} /\ ended(TRUE) -> <<"saved">>
          [] call.op \in {"file", "save", "savemsg", "http"} /\ ended(FALSE) ->
                 <<"error">>
          [] call.op = "multipart" -> <<"form">>
          [] call.op \in {"mysql", "redis"} -> <<"result">>
          [] call.op = "mysqlfunc" /\ ended(FALSE) -> <<"result">>
          [] OTHER -> << >>

AnswerOf(k, says) == [j \in 1 .. Len(says) |-> <<k, says[j]>>]

ExpectedBody ==
    LET n == Len(calls)
        later(k) == FlattenSeq([j \in 1 .. n |->
                        IF j > k THEN AnswerOf(j, Deferred(j)) ELSE << >>])
    IN  IF \E k \in 1 .. n : Fetched(k)
        THEN <<<<Proxied, "remote">>>> \o later(Proxied)
        ELSE FlattenSeq([k \in 1 .. n |-> AnswerOf(k, Direct(k))]) \o later(0)

(* Two things the code does not answer: a text with a Content-Encoding     *)
(* other than gzip, which compress loses, and a form that lists no file or *)
(* whose last file is not there, which is never sent (docs/post_form.md    *)
(* has the encoder's form sent whatever the files).                        *)
Answerable ==
    \A k \in 1 .. Len(calls) :
        /\ calls[k].op # "br"
        /\ calls[k].op = "multipart" =>
               calls[k].files # << >> /\ Last(calls[k].files)

(* The reply carries one answer for every call, first those given at once, *)
(* then those of the tasks in the order of the calls, an error text where  *)
(* a read, a write or a fetch failed; a fetched response takes the place   *)
(* of all before it.  No text is lost on the way.  A multipart form comes  *)
(* with its parameters, every file that could be read and its end, files   *)
(* that are not there being left out.                                      *)
AnswerComplete ==
    pc = "series" /\ tasks = << >> /\ Answerable =>
        /\ [j \in 1 .. Len(body) |-> <<body[j].of, body[j].says>>] = ExpectedBody
        /\ \A j \in 1 .. Len(body) : body[j].coding # "lost"
        /\ Cardinality(Multiparts) = 1 =>
               \A j \in 1 .. Len(body) : body[j].says = "form" =>
                   LET ends == outcome[body[j].of]
                       read == {i \in 1 .. Len(ends) : ends[i]}
                   IN  heap[body[j].obj].text =
                           <<"params">> \o [i \in 1 .. Cardinality(read) |-> "file"]
                                        \o <<"end">>

(* "note : [start, end)" (HttpFile.cc:76): of a file smaller than an int   *)
(* can say, the reply has exactly the bytes from start to before end that  *)
(* exist, where a negative start counts from the end of the file and an    *)
(* end of -1 is the end of the file; an empty or reversed range is refused *)
(* at once and every other one is read.                                    *)
RangeRight ==
    \A k \in {n \in 1 .. Len(calls) : calls[n].op = "file" /\ calls[n].exists} :
        LET f == calls[k]
            s == IF f.start < 0 THEN f.size + f.start ELSE f.start
            e == IF f.end = -1 THEN f.size ELSE f.end
            small == {f.size, f.start, f.end, s, e} \subseteq -IntLimit .. IntLimit - 1
            refused == outcome[k] = << >> /\ \A t \in Range(tasks) : t.of # k
            wanted == {b \in 0 .. f.size - 1 : s <= b /\ b < e}
        IN  small /\ pc # "handler" =>
                /\ refused <=> e <= s
                /\ \A j \in 1 .. Len(body) :
                       LET got == body[j].len
                       IN  body[j].of = k /\ body[j].says = "data" =>
                               wanted = got.from .. got.from + got.n - 1
=============================================================================
