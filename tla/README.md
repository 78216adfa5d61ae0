# TLA+ models of file_compare and wfrest

The repository holds two programs. `src/` is **wfrest**, a C++ web framework on
top of the workflow library (router, blueprints, aspects, request and response
objects, multipart, files). `file_compare/` is a **directory-compare server**
built on it: clients POST a compare task, a worker thread walks the standard
server's tree, asks the other servers for the attributes of the same
directories, and the client fetches the differences later. `file_compare` is
where the repository's own concurrency is: four kinds of threads share queues,
a task list, a result and the process's working directory. Both are modelled.

## Inventory

| Part | State | Operations | Talks to | Hard because |
|---|---|---|---|---|
| Channels (`diff/chan.h`) | ring slots, `head_`, `tail_` | `push`, `front`, `pop`, `read_once`, `read_stuck`, `write` | every thread pair below | lock-free, spins when full |
| Internal executor (`internal/`) | `task_list_`, `exit_`, worker | `add`, `get`, pick, run, set over, destructor | peers over HTTP | unlocked reference into a shared list, condition variable, shutdown |
| Compare service (`main.cc`, `compare/` `add`/`get`/`execute`) | `task_q_`, `out_q_`, `task_uuid_set` | POST and GET `/task/{uuid}`, worker loop | handlers, compare job | several handler threads, bounded queues, results matched to requests |
| Compare job (`compare/` walk and merge) | `dir_q_`, `diffs`, contents | walk, batch, flush, merge | contents | errors in the middle, batching, positions |
| Local content (`content/` local) | command and result channel, file state, line buffer | `do_*`/`get_*`, worker commands, line hashing | compare job | state machine split over two threads, chunk boundaries |
| Remote content (`content/` remote) | HTTP state, result channel | `do_dir_list_attr`, `get_dir_list_attr`, callbacks | peer's executor | retries, callbacks, formats of the two sides |
| Diff (`diff/dc_diff*`) | hash rows, writer thread | `add_row`, `send_diff`, writer, `gen_diff` | content | writer thread, exit tag |
| Task parsing (`api/`) | none | `build_task_from_json` | main | validation order |
| Routing (`src/core/Route*`, `Router`, `BluePrint`) | radix-like tree | `add_route`, `find`, `call` | server | overlapping patterns |
| Aspects (`src/core/Aop*`, `BluePrint.inl`) | global aspect list | `before`, `after` | server tasks | order, callbacks after the reply |
| Server task (`HttpServerTask`, `HttpServer`) | keep-alive counters, series | `process`, `handle`, `message_out` | workflow | ownership across callbacks |
| Multipart forms (`MultiPartParser.c`, `HttpContent`) | parser state, lookbehind, current header, part | `multipart_parser_execute`, callbacks, `parse_multipart` | requests | boundaries that almost match, state left between parts |
| Responses (`HttpMsg`, `HttpFile`) | body pieces, series context, callbacks of the server task | `String`, `Json`, `File`, `Save`, multipart `String`, `Http`, `MySQL`, `Redis`, `Timer` | workflow tasks | body without copies, who frees what and when, ranges |
| Requests (`HttpReq`) | values parsed once and kept | `body`, `form`, `query`, `cookies` | handlers | lazily filled caches |
| `base/json.hpp`, `common/cJSON*` | - | vendored | - | not modelled |

How the parts meet: HTTP handlers (workflow's threads) call `dc_compare_t::add`
and `get` and `dc_internal_executor_t::add` and `get`; the compare worker drives
one `dc_content_t` per server; a local content has its own thread behind two
channels; a remote content POSTs to the peer's executor and polls it; every
handler runs inside a wfrest server task, reached through the router and the
aspects.

What makes each part correct, in one line:

* channels: what is pushed is read once, in order, and no slot is used outside
  the lifetime of its object;
* executor: the worker's reference survives what handlers do to the list, and a
  result answers its request directory by directory;
* compare service: a task accepted is run once and its result handed out once,
  and the objects live as long as they are used;
* compare job: the attributes of a server land on the entry they are about, and
  nothing the walk can tell is a file or a directory is left out;
* local content: the hashed lines are those of the file, wherever the buffers
  cut it, and each call gets its own answer;
* router: the route that answers describes the request, exact routes win,
  parameters are those of the route;
* server task: a guarded handler never runs unasked, `after` follows the reply,
  the connection closes when the keep-alive rules say so;
* multipart: every byte of a part reaches the form once and in order, whatever
  it looks like, and the form holds the parts the client completed and named;
* responses: what the body points into lives until the reply is over and is
  freed once, and the reply says what the handler asked for;
* remote content: every batch gets the answer of the peer or an error.

## Modules

| Module | Models | Composes or uses |
|---|---|---|
| `Fifo` | abstract specification: a bounded FIFO with blocking `push` | - |
| `SPSCQueue` | `diff/chan.h`, one action per load and store | implements `Fifo` |
| `SPSCQueueProof` | theorems about `SPSCQueue` | `SPSCQueue`, `Fifo` |
| `InternalExecutor` | `internal/dc_internal_task.cc` and its handlers in `main.cc` | - |
| `InternalExecutorProof` | theorems about `InternalExecutor` | `InternalExecutor` |
| `CompareService` | `/task` handlers of `main.cc`, queues and worker loop of `dc_compare_t` | channels as the FIFOs they are proved to be |
| `CompareServiceProof` | theorems about `CompareService` | `CompareService` |
| `CompareJob` | `exe_sql_job` and all below it | contents through `dc_content_t` |
| `CompareJobProof` | theorems about `CompareJob` | `CompareJob` |
| `ContentLocal` | `dc_content_local_t` and its thread | channels as FIFOs |
| `ContentLocalProof` | theorems about `ContentLocal` | `ContentLocal` |
| `Router` | `RouteTable`, `Router`, `BluePrint::add_blueprint`, `HttpServer::Static` | - |
| `ServerTask` | `HttpServer::process`, the `ROUTE` wrappers, `HttpServerTask` | the outcome of `Router!call` as data |
| `HttpServerProof` | theorems about `Router` and `ServerTask` | `Router`, `ServerTask` |
| `Multipart` | `multipart_parser_execute` and the callbacks of `MultiPartForm` | - |
| `MultipartProof` | theorem about `Multipart` | `Multipart` |
| `Response` | the calls of `HttpResp`, `HttpFile`, the proxy, the callbacks of `HttpServerTask` | the end of `ServerTask`'s series in detail |
| `ResponseProof` | theorems about `Response` | `Response` |
| `RemoteContent` | `dc_content_remote_t` and its HTTP callbacks | the peer's `InternalExecutor`, seen through one uuid |
| `MC*` | trees, files, requests and routes for TLC | the module they are named after |

Definitions keep the names of the code where TLA+ allows it (`do_attr`,
`exe_sql_job`, `compute_sha1_by_lines`, `find`, `message_out`). Operators whose
comment begins with "Mutant" are plausible faults of the definition that
follows; they are used in no specification, only to see that a property
notices.

### State and actions

**SPSCQueue.** `head`, `tail` are the atomics, `buf` the slots, `live` the
constructed ones; every thread has a program counter and the index it loaded.
`LoadHead`, `SpinUntilRoom`, `Construct`, `PublishHead` are the four steps of
`push`; `LoadTail` and `CompareHead` are `front`, `Deref` the use of the
pointer, `Destroy` and `ReleaseTail` are `pop`. The atomics are
`acquire`/`release`, and an interleaving of loads and stores is then what the
threads can observe. A failed step (constructing over a live object,
dereferencing `nullptr`) is recorded and checked by `SlotLifetimes`. A call is
an action without fairness: nobody has to call again.

**InternalExecutor.** A critical section is one action; what the worker does
without the lock is one action per access, so that handlers run in between. The
wait of the worker is two: `PickWait` reads `exit_` and the list, `FallAsleep`
is `cond_.wait`. No handler gets the mutex between them, but the destructor
writes `exit_` without it. `exit_` is not initialised by the constructor and
takes any value in `Init`. `main` stops the server, then runs the destructor.
`owed` counts per uuid the tasks accepted and not fetched.

**CompareService.** Handlers are program counters with a local task; a change of
the unlocked `task_uuid_set` is a load and a store. `added` and `fetched` are
ghosts. `PostRefused` stands for all ways a POST ends before `add`. The queues
are FIFOs, so there is at most one thread that posts and one that gets
(`OnePoster`, `OneGetter`). A job ends, leaves directories in `dir_q_` or not
(`left`, which the assertion of the next turn finds), ends the process, or never
ends.

**CompareJob.** The recursion is the explicit `stack`, `readdir` returns the
entries in any order, `stat` and `opendir` may fail anywhere, the merge writes by
position. Of some entries `readdir` does not tell the type (`Untyped`); `stat`
then decides, and what it says is a directory is skipped, as in the code. After
a `chdir` that fails the walk begins wherever the path leads from the old
directory (`Tops`). A remote server may answer with a short list, never answer,
or end the process (`ContentAsserts`). `trouble` is a ghost with what could not
be examined.

**ContentLocal.** Caller and worker share two channels and the members that the
code shares; the caller's state machine (`state`), the descriptor (`fd` is its
position) and the cut line (`preLine`) are separate, as in the code. Digests are
injective: a digest is the bytes it was computed from. Characters are of four
kinds: newline, carriage return, other blanks, all else. `spoilt` is a ghost: an
earlier file ended in a blank line without a newline. A directory of a list may
have become a file, which the worker's assertion ends the process for.

**Router.** A node is the path of segments leading to it; a table is a set of
nodes and the handlers bound to them. `find` is a recursive function over nodes
(a node is reached with as many segments consumed as it has above it) that also
returns the assignments to `route_params` in the order they are made. The order
of siblings is that of the `std::map`; `FirstWild` is the loop over them. The
ghosts `wanted` and `wantedBlue` are the handlers the program asked for, kept
without a tree; `orderly` says that no call was one of those after which the
tree lacks some of them (`SlashAgain`, `MergeLoses`).

**ServerTask.** One connection. `log` is a ghost with the calls made for the
request at hand. Handlers and aspects return anything, start a subtask or not,
and set `Connection` or not. What workflow does (series, reply, callback, the
numbering of requests) is external and modelled as the code relies on it. The
values of a header are ints, and `Millis` is the int product `1000 * atoi(...)`.

**Multipart.** One turn of the parser's loop is one step. `state`, `index`,
`mark`, `lookbehind` are the parser's; the callbacks fill the pending header,
the current part and the form. The elements of a body are characters, except
that the pieces of a Content-Disposition are one element each. A ghost keeps the
structure the client sent, against which data and form are compared.

**Response.** A handler is a sequence of calls; each call appends pieces to the
body, objects to the heap and subtasks to the series. Pieces given without a
copy name the object they point into. The series runs its tasks, each with any
outcome (`mysql_callback`, `redis_callback`, `cursor_callback`,
`timer_callback`, the read, write and fetch callbacks), the reply is sent or
fails, the callbacks of `cb_list_` and of the series free what they own.
Appending to `cb_list_` while it is walked is the state `undefined`. `fetch` is
the `WFHttpTask` of a proxy call: created by `Http`, deleted by workflow when it
has run. An `int` of a file ranges over `-IntLimit .. IntLimit - 1`, a `size_t`
is a remainder modulo `4 * IntLimit * IntLimit`: twice as many bits.

**RemoteContent.** Worker and HTTP callbacks share `get_dir_list_status_` and
`dir_list_out_q_`. A request can be lost, repeated by workflow's `retry_max`
after it was served, or arrive garbled, because its body has no owner any more.

## Runs

| Run | Instance | Shows |
|---|---|---|
| `spsc_queue` | 1 producer, 1 consumer, ring of 4, 2 values | slots are used only while constructed; the ring implements `Fifo`; an accepted value is held; `push` returns and a slot is drained unless nobody reads any more |
| `spsc_two_producers` (violation) | 2 producers | two handlers in `dc_compare_t::add`: an accepted task is overwritten |
| `internal_executor` | 3 tasks, equal and different uuids, 1 and 2 directories, every refused request | reference valid, results whole, served in order, fetched as often as accepted, every accepted task completes, shutdown ends unless the worker has tested `exit_` for the last time before it is set |
| `compare_service` | 1 poster, 1 getter, queues of 1, 4 tasks | every task is in exactly one place of the pipeline, in order; no task is used after it is deleted; a queued task is kept only by a job that does not end, a process that ends, or an `out_q_` nobody empties; the worker stops unless it is stuck there |
| `compare_service_result` (violation) | 2 tasks, queues of 2 | GET returns the oldest result, not the one asked for |
| `compare_job` | 4 directories below the root, 2 files, links, a file, a directory and a link of unknown type, a second tree for a failed `chdir` with a special file; 2 servers; batch of 1; 2 tasks | attributes go to the entry they are about, no queued directory is forgotten, all files and all subdirectories reported as such are listed where they can be read, only a `stat` failing in the first directory leaves a batch behind, the task ends unless a server never answers |
| `content_local` | all files of up to 3 characters, those of 4 without blanks, and 4 longer ones; buffer of 2; 3 calls | lines as `getline` gives them, one answer per call, descriptor open exactly while reading, calls end |
| `router` | 11 routes, 3 blueprint routes, 2 prefixes, 2 verbs; 4 registrations; 24 requests | the route describes the request, exact first, right parameters, 404 only if no handler asked for may claim the request |
| `server_task` | routes with 0, 1, 2 aspects, with and without queue, 0 or 2 global aspects; 12 Keep-Alive headers, ints below 16 and a second of 4 ms; 3 requests | guarded handlers, `after` once and after the reply, keep-alive rules |
| `multipart` | up to 2 parts; data of up to 5 elements with CR, LF and beginnings of the boundary; empty, repeated, merged headers; every cut | no byte of a part is lost, doubled or moved; the form holds exactly the named, completed parts, unless an empty header precedes a Content-Disposition |
| `response` | every handler of up to 3 calls, every outcome of their subtasks and of the reply; all ranges of small files, `int` of 4 bits | the body points to living objects, nothing but the named leaks stays allocated and nothing is freed twice, the reply has what every call had to say, a range is the one requested |
| `remote_content` (violation) | 2 batches, `retry_max` 2 | the first response that arrives whole fails the first assertion of the callback |

### Bounds

Capacities are small so that the limit is reached: queues of 1 for 64 (full and
empty in turn), a ring of 4 slots (indices wrap without end; the state space is
finite without a bound on operations), a batch of 1 for 1000 (batches end inside
and between directories), a buffer of 2 for 16 MB (lines of up to three buffers,
files that end with a buffer). `MaxTasks` is one more than a pipeline of two
full queues and a busy worker needs (4 for `compare_service`), two for a job
(what the first leaves behind meets the second), three for the executor (an
older, the current, and a newer task, two of them with the same uuid). Three
calls (`MaxOps`) allow a file after a failed one, and a third after one that
leaves a blank rest behind. Four registrations suffice for a parameter, a star,
an exact route and what replaces or extends one of them. `MaxSeq` = 3 lets `max`
be below, at and above the number of the request; with ints below 16 and a
second of 4 ms the times 5, 8 and 9 overflow to a negative number, to 0 and to a
small positive one. A boundary of three elements after CR LF has every kind of
partial match (one element, all but one, a repeated character), and 5 elements
of data hold a whole one or a partial one between others. Three calls are a
text, a file and what comes after; 4 bits for `int` and 8 for `size_t` make
every file of 8 bytes and more one that `int` cannot hold.

`CHECK_DEADLOCK FALSE` is used where the program may really stop: the process
ends or crashes, the bound on tasks is used up, registration is over, a
connection is closed.

### Fairness

The operating system schedules every runnable thread, so the steps of a thread
inside a call are weakly fair (`WF`), and no more is assumed:

* `SPSCQueue`: a `push` or a read in progress goes on. Nobody has to call again:
  `out_q_` is read when a client sends a GET, and the worker does not read
  `task_q_` while it waits in `out_q_.write`. So `PushReturns` and `SlotDrained`
  name the case that all readers have stopped (`Abandoned`).
* `InternalExecutor`, `ContentLocal`: the worker runs; the caller of a `get_*`
  polls, because `exe_sql_job_for_single_item_dir1` does so in a loop.
  `ShutdownEnds` needs no more: the destructor and the worker are the last two
  threads.
* `CompareService`: handlers and the worker's own loop run. A job need not end,
  since it polls the other servers without a limit (`exe_sql_job` is not fair).
* `CompareJob`: the worker runs. No server has to answer (`ServerAnswers` is not
  fair): a remote content reports RETRY as long as its peer does, and the
  executor of a peer may have `exit_` set and never finish a task. `TaskEnds`
  says that nothing but such a server keeps a task from ending.

No client is assumed to send anything. `Router`, `ServerTask`, `Multipart` and
`Response` state no liveness; each of their behaviours is finite.

## Proofs

Proved with TLAPS, for every value of the constants that meets the assumptions
named in the modules. Each theorem is a property that a run checks on a small
instance. Where the property is not inductive, the proof module defines `IInv`;
its lemmas have one step per action of the component.

**SPSCQueueProof**

* `TypeCorrect`: any capacity, any number of producers and consumers.
* `SlotsAreSafe`: with one producer and one consumer, `SlotLifetimes`.
  `SlotLifetimes` is not inductive: whether a slot may be constructed or
  destroyed depends on indices loaded earlier. The invariant `IInv` adds
  `ProducerInv` (the loaded head is the head, and past the spin the next slot is
  not the tail), `ConsumerInv` (past a successful `front`, the tail's slot is in
  use) and `LiveInv` (the constructed slots are exactly the window from `tail`
  to `head`, plus the one being published, less the one being released).
* `Refinement`: under the same assumption the ring implements `Fifo`; the
  abstract queue is the window read from `tail`, `PublishHead` maps to the
  enqueue, `ReleaseTail` to the dequeue, every other step to a stutter.
* `NothingLost`: under the same assumption, `AcceptedIsHeld`: what is owed of a
  value is the number of slots of the window that hold it. `spsc_two_producers`
  shows that the assumption is needed.

**InternalExecutorProof**

* `TypeCorrect`, `ReferenceStaysValid`, `ServiceInOrder`, `ResultsWhole`, for any
  requests, uuids, directories and any number of tasks. The inductive invariant
  adds that ids increase along the list (`IdsOrdered`, so that the reference
  names one entry) and how far the worker has come with the task in hand
  (`ResultsInv`: the attributes gathered, and the part already filled in, agree
  with a prefix of the request). Handlers run between any two steps of the
  worker, so every step of `add` and `get` is shown to leave the entry in hand
  alone: `get` erases only entries that are OVER, and the entry in hand is not.
* `FetchedAsOftenAsAccepted`: `NothingForgotten`, a count over the list; `add`
  and `get` change both sides of it by one, for the same uuid.

**CompareServiceProof**: `TypeCorrect`, `TasksInPipeline`, `TasksLive`, for any
uuids and capacity, under `OnePoster` and `OneGetter`. `Pipeline` is inductive
with the types. `TasksAlive` needs that accepted tasks are different objects
(`AddedDistinct`), that a task in a handler's hands is in nobody else's
(`HeldApart`), and that a task is allocated exactly until it is fetched
(`FreedWhenFetched`). The two assumptions are what makes the FIFOs of this
module those of the code (`SPSCQueueProof!Refinement`); with two posting threads
`spsc_two_producers` shows the loss, and two getting ones can take and delete
the same task.

**CompareJobProof**: `AttributesAligned`, `LeftoverOnlyAfterStat`,
`EveryDirAsked`, `NothingMissed`, for any tree, any entries of unknown type, any
order of `readdir`, any failures, also of `chdir`, batch size and servers.
`IInv` has three parts. `Control`: where the worker is and what its stack looks
like there. `Batching`: an entry of `dir_q_` points at its directory's place in
`diffs`, every directory without attributes is in `dir_q_`, and the answer of
the standard server is about the batch in its order; the merge by position is
right for this reason only. `Walking`: of every directory reached, what is not
listed is still to be read; what is still to be read is not listed; directories
are listed before what is in them.

**ContentLocalProof**: `AnswersMatchCalls`, `DescriptorInStep`, for any files,
buffer length and number of calls. `IInv` names the phases of the protocol
between the two threads (`NoCall`, `Attributes`, `Preparing`, `Reading`,
`BetweenBuffers`); each says together what is in the channels,
`file_read_state_` and the descriptor, since none of these determines the
others.

`LinesFound`: `LinesAsGetline`, for any files and buffer length, whatever was
read before. A read that is not `spoilt` starts with an empty `file_pre_line_`,
because only a blank last line without a newline leaves it filled. `LinesInv` says
that while the file is open its first `fd` characters are read: every line that
starts before some `b` is hashed or counted, and `file_pre_line_` is the text
from `b` on (`ReadTo`). Inside a buffer the same holds of `file_pre_line_`
followed by the buffer from `cur_line_begin` (`AtChar`), by induction over the
buffer, so it does not matter where a buffer cuts a line (`BufferRead`); and a
newline, or the end of the file, completes exactly one line (`LineCounted`).

**HttpServerProof**: of `ServerTask`, `HandlersGuarded`, `AftersAfterReply` and
`KeepAliveObeyed`, for any global aspects, routes, headers and number of
requests. The first two properties speak of the log of calls alone; `IInv` ties
it to what is still to come: the handler waiting on a compute queue, the
position in the loop over the aspects, the callbacks left. `KeepAliveObeyed`
rests on the invariant of the loop over the header (`LoopInv`: after `i`
parameters the time is what the first `timeout` and the first `max` among them
say), by induction over `i`. `MillisIs` says that `Millis` multiplies as long as
the product is an int; of other products it says only that they are ints, which
is enough for the limit `HTTP_KEEPALIVE_MAX`.

Of `Router`, `RequestsRouted`, `ExactRoutesFirst`, `ParametersOfTheRoute` and
`RoutesAreFound`, for any routes, blueprints, prefixes, requests and number of
registrations. `RouterInv` says a table is a tree (`TreeOK`: every node's parent
is a node) whose handlers sit at nodes other than the root, one for each verb
(`BoundOK`), and that a blueprint has none at the empty segment (`BlueOK`);
`add_blueprint` needs that to keep it. `WantedInv` compares trees and ghosts: as
long as the calls were `orderly`, the handlers bound in a table are those
wanted, and every node of the blueprint leads to one, so that its leaves are its
routes. The four properties are then about `find` on such a table, by induction
from the deepest nodes upwards (`Descend`): the node `find` returns from `n`
answers the request (`FindAnswers`), is found if a route that passes through `n`
describes the request and nothing competes with it (`FindsSome`), and what was
set last for every name on the way is the request's segment (`FindSets`).

**MultipartProof**: `NoCharacterLost`, for every body, well-formed or not, and
every boundary. `DataKept` counts back from the parser's position. `IInv` names
the place `b` where the data began and says for each state of the parser what
`part_data_cb` has got: all before `mark`, all but a CR, all but the partial
boundary in `lookbehind`. It needs nothing of what the boundary is.

**ResponseProof**: `FreedExactlyOnce`, `BodyStaysAlive`, for every sequence of
calls and every end of their tasks. `IInv` is a ledger. `Owned`: every text,
buffer and save context is in `cb_list_` once, and only these and a fetched
proxy's context are. `Proxies`: the context of a proxy call is in the list if and
only if the fetch succeeded. `Waiting`: a task in the series has the object its
callback uses. `Pieces`: a multipart content is in the body only when no read
is left that would make it grow. `Freeing`: the loop has freed what it passed,
once, and an `Error` called inside the loop is one entry behind its end.
`Ledger`: at the end what is left is exactly what `Forgotten` names. A step
that allocates is an instance of `Grow(n, m)`, n objects with the first m of
them registered, so that the ledger is argued about once. `FetchInv` follows the
task of a proxy call: it is there only as long as its call has no outcome, so at
the end only if it never got into the series because the URL did not parse.

`RangesServed` and `EveryCallAnswered`: `RangeRight`, `AnswerComplete`. `SInv`
(`Queue`) says which tasks the series holds: they are in the order of the calls,
of the kind their call pushes, only a form has several, no later call has an
outcome yet, and a call has neither task nor outcome exactly when it pushes
none. A range is therefore read if and only if `FileRange` does not refuse it,
and the rest is arithmetic of remainders: an `int` goes through `size_t` and back
unchanged (`ThroughSizeT`). `AInv` adds what the body says: what the calls made
so far said at once, then what the ended tasks said (`Answered`), or the fetched
answer and what came after it; and that the one form has as many files as were
read (`FormWritten`). It holds of every handler: a form that is not sent says
nothing there (`Due`), and `Answerable` makes that the same as `Deferred`. That
no text is lost while no other coding than gzip is asked for is `Coded`. A list
of answers grows by what one call says because no later call has said anything
(`FlatAppends`).

Assumptions the proofs use, checked by TLC on every instance, and what in the
code justifies them:

| Assumption | Says | Because |
|---|---|---|
| `SingleProducer`, `SingleConsumer` (hypotheses) | one thread at each end | what `SPSCQueue` is named for; `dc_compare_t::add` does not keep it |
| `OnePoster`, `OneGetter` | at most one thread posts tasks and one gets results | with more, the queues are no FIFOs (`spsc_two_producers`); `main.cc` does not ensure it |
| `TreeAssumption` | a node is in at most one directory, the root and the directory a failed `chdir` leads to in none | nodes are paths below `base_dir`; links are not followed |
| `NoneAssumption` | `None` is no node | it stands for no path |
| `AspectsAssumption` | an aspect occurs once among the route's own and the global ones | an aspect is an object, and each registration makes a new one |
| `SegsAssumption`, `AnyStarAssumption` | a segment is not both `{name}` and `x*`, "/" and the empty segment are neither; `*` takes every segment | how `find` tells them apart: the last character; the empty prefix |
| `PathsAssumption` | no segment is a slash, no blueprint has the route "//", a request has at least one segment and is not itself a pattern | `find` cuts at slashes; merged, "//" would share the node of "/"; a segment `{name}` or `x*` of a request would be found as if it were a route's |
| `TimeoAssumption`, `RequestsAssumption` | the server's default time and the values of a header are ints, `HTTP_KEEPALIVE_MAX` a positive one, a second some milliseconds | `HttpServerParams`, `HTTP_KEEPALIVE_MAX`, `atoi` |
| `BufAssumption`, `FilesAssumption` | the buffer is not empty, a file is a sequence of characters | `DC_CONTENT_FILE_READ_BUF`; `read` |
| `InputsAssumption` | a body is a sequence of characters | `body.data()` |
| `IntLimitAssumption` | `int` is not empty | - |
| `ProgramsAssumption` | calls are those of `HttpResp`, with integers for sizes and ranges; at most one `Http` | the signatures; `Http` moves the request away, so a second has nothing to forward |

Model-checked only:

* liveness under fairness (`PushReturns`, `SlotDrained`, `TaskCompletes`,
  `ShutdownEnds`, `TaskTaken`, `WorkerStops`, `TaskEnds`, `CallEnds`);
* `FormRight` (the form is that of the parts the body was written from). The
  parser never sees the structure of a body, so the proof would have to say where
  in the structure, written out by nested concatenations, the parser is at every
  character. It is stated for structures like those of `MCInputs` (no empty field
  name, no value of spaces only or with a CR in it, no further part in `tail` or
  `lead`) in which no empty header precedes a Content-Disposition (`Overlooks`);
  of others `Expected` says nothing true, so a theorem would need these as
  assumptions. `NoCharacterLost` is the part of it that holds of any body.

Recursive functions (the loops of `KeepAlive` and `compute_sha1_by_lines`,
`find`, `FlattenSeq`) are proved about without the library's induction theorems,
which the provers cannot instantiate. Each has a predicate for its defining
equation (`IsLoop`, `IsFind`, `IsFlat`); a solution exists because one for `m`
steps extends to `m + 1`; and a property of all its values is shown by taking
the least value it fails for (`Least`, from the well-foundedness of `<` on the
naturals).

## Where code and documents disagree

Each is a run with one property that states what a document, comment or assertion
of the repository says.

* `dc_compare_t::add` is called by all handler threads on a single-producer
  queue (`spsc_two_producers`).
* `GET /task/{uuid}` answers with the oldest result (`compare_service_result`).
* `http_post_callback` and `http_get_callback` read the `bool` of
  `get_parsed_body` as an error code, so a response that arrives is a failed
  assertion (`remote_content`).

Reached in the models, without a run of their own:

* the destructor of the executor can lead its worker into the assertion "should
  not hit here" (`dc_internal_task.cc:74`), when `exit_` is set between the two
  tests: `ShutdownEnds` counts that as an end. If the worker is asleep, or has
  read `exit_` as false and is about to be, nobody wakes it and the join does not
  return; `ShutdownEnds` names that case too;
* with both queues full, handlers that POST wait in `add` (`dc_compare.cc:45`)
  for a worker that waits for a GET; if all handlers are in `add`, none is left
  to answer it. `TaskTaken` (`Clogged`) and `WorkerStops` state that nothing else
  of the service blocks them;
* a `stat` that fails at depth 0 returns from the walk (`dc_compare.cc:417`)
  with `dir_q_` filled, and the next turn of the worker meets its assertion that
  it is empty (`dc_compare.cc:531`). `LeftoverExplained` states that this is the
  only way; in `CompareService` it is the end `panic`;
* a directory whose type `readdir` does not report (DT_UNKNOWN) is stat'ed, found
  to be no regular file and skipped without an error (`dc_compare.cc:420`), and
  so is everything below it; `file_compare/README.md:283` asks for all
  directories and line 285 for an error code where something failed, also where a
  directory could not be opened. `WalkComplete` names both;
* a `chdir` to the base directory that fails is logged only (`dc_compare.cc:472`),
  and the walk goes on where the path leads from the previous one;
* a directory that has become a file when its attributes are asked for ends the
  process (`dc_content.cc:330`): `CallEnds` and `TaskEnds` name it;
* the hashed text of a line that ends in CR LF includes the CR, while the comment
  at `dc_content.h:33` asks for the line without its end; `LinesAsGetline` says
  nothing of such lines;
* a blank last line of a file stays in `file_pre_line_` and becomes the beginning
  of the next file's first line; `LinesAsGetline` leaves out the reads after such
  a file (`spoilt`), and only these;
* routing: a second verb for `/` is bound to a node outside the tree
  (`RouteTable.cc:22`), a route of a blueprint that has longer routes below it is
  not merged (`RouteTable.h:62`), merging replaces all verbs of a node
  (`BluePrint.cc:309`). `orderly` names these calls, and `ExactFirst` and
  `NotFoundJustified` claim nothing after one;
* `docs/param_in_path.md` says "Routes starting with /user/groups are never
  interpreted as /user/{name}/... routes", but `find` falls back to `{name}` when
  `/user/groups` has children that do not match. `NotFoundJustified` does not ask
  for the fallback (`MayClaim`), and `RoutedByPattern` permits it;
* `1000 * atoi(...)` of a Keep-Alive timeout overflows (`HttpServerTask.cc:149`):
  4294968 keeps the connection for 704 ms, 536870912 closes it. `KeepAliveRule`
  says of such times only that `HTTP_KEEPALIVE_MAX` is kept;
* multipart: a header with an empty value is not cleared, so the next header, also
  of the next part, is merged with it; a Content-Disposition there is not
  recognised and the part is lost (`HttpContent.cc:86`). `FormRight` says nothing
  of such bodies (`Overlooks`);
* responses: a form without files, or whose last file is missing, is never sent
  (`HttpMsg.cc:618`), although `docs/post_form.md:71` has the encoder encode and
  send; a Content-Encoding other than gzip makes `compress` succeed with no data,
  so the text is lost. `AnswerComplete` is about the other calls (`Answerable`);
* the `WFHttpTask` of a proxied request whose URL does not parse is neither
  started nor dismissed (`HttpMsg.cc:828`), and its context leaks with it;
  `FreedOnce` excuses both and no other task.

Seen while modelling:

* two handlers in `dc_compare_t::get` can take and delete the same task
  (`SPSCQueue` with two consumers reaches it);
* `exit_` of the executor is not initialised;
* a POST without `base_dir` passes the checks of `main.cc` and ends in an
  exception in the worker; the build uses `-fno-exceptions`, so JSON type errors
  end the process;
* a refused POST leaks its task although the comment at `main.cc:70` says its
  life ends in `get`;
* errors below the root and of the standard server do not reach the result
  although `file_compare/README.md:285` shows them, and file entries carry no
  attributes although `README.md:283` does;
* a task whose path is a regular file ends in a JSON type error
  (`json_type_error` in `CompareJob`);
* MD5 covers the last buffer only; after a failed read the descriptor stays open
  and the next use asserts; a read cut short by a signal would be taken for the
  end of the file (the model's reads, as those of regular files, are not);
* routing: a route without longer routes below it answers every longer path;
  sibling `{p}`, `{q}` and `*` compete and the first in name order is final
  (hence the premise of `NotFoundJustified`); a name used twice in one route can
  get a value of an abandoned branch (hence that of `ParamsRight`); the `/` of a
  blueprint is registered as `prefix//`;
* aspects: when a `before` returns false the copy of the aspects is not freed and
  no `after` runs; a route without aspects of its own ignores what the global
  `before` returns; a handler that writes `Connection: Keep-Alive` itself is
  believed by the client even if `max` is used up and the server closes;
* multipart: the body must start with the boundary, so what `MultiPartEncoder`
  writes (a leading CR LF, `HttpMsg.cc:598`) is not accepted by `MultiPartForm`;
  a header line without `:` ends the headers; what `execute` returns is ignored;
* responses: two multipart `String` calls share the context of the series: one
  encoder leaks; the context of a proxied request leaks when the URL is bad or
  the fetch fails; a failed reply of a proxied request calls `Error`, which
  appends to the list being walked (`HttpServerTask.cc:25`); `set_compress` with
  `File`, `Save` or multipart labels plain data as gzip; the docs name br, only
  gzip is decoded; Content-Range is written as start, exclusive end and length
  of the range, not as the comment at `HttpFile.cc:122` quotes it; a file of 2
  GiB and more is refused or cut; `HttpReq::operator=` leaks the old
  `req_data_`;
* remote content: a failed exchange goes on with an uninitialised body; the
  executor answers `dirs` and a number `error` (`dc_internal_task.cc:163`) while
  the remote side asserts `result`, reads `code` (`dc_content.cc:806`) and takes
  `error` for a string; the request body is not copied and dies before it is sent
  (`dc_content.cc:653`); `retry_max` can queue a POST twice, and a GET repeated
  after a lost reply finds its task erased;
* task parsing: an empty uuid is a failed assertion (`dc_api_task.cc:181`); a
  second standard server is `E_ARG_INVALID` without a text; errors of a
  server entry do not reach the answer;
* `chdir` (`dc_internal_task.cc:92`) changes the directory of the whole process,
  also of the compare worker.

## Not modelled

* `base/json.hpp` (26750 lines) and `common/cJSON*` (3419) are vendored libraries,
  unchanged: 70 % of the lines of the repository. Of the 11249 lines of its own
  code the models cover 37 %; of all lines that is below a tenth, and no model
  of the program's logic could make it a third.
* The diff (`diff/dc_diff*`): rows, hashing and a writer thread behind a locked
  queue, but `do_add_to_hash`, `do_flush_hash_map` and `write_down` are stubs, and
  nothing in the server constructs it, so there is no outcome to state a
  property of. Read for later: the destructor's `thd_write_down_exit_` drops what
  is queued; rows are compared with `strncmp`, which stops at a NUL; `build` may
  leave a row pointing into the memory of another.
* `build_task_from_json`: a sequence of checks without state; it appears as
  success or failure in `CompareService`.
* Requests (`HttpReq`): values parsed once and kept per request; nobody else
  touches them. Their multipart form is `Multipart`.
* Logging, assertion printing, error texts; compression, time, path and string
  utilities, which keep no state; header text, MIME types, cookies; peer
  addresses; examples and tests.
* What a database answers: `MySQL` and `Redis` callbacks append what they got.

## Plan

All components with behaviour of their own are modelled, and every safety
invariant a run checks is proved but `FormRight`. What is left:

1. `FormRight`, along the structure of a body: the end of a header line and the
   end of a part as the two places where parser and structure meet;
2. a model of the diff when `do_add_to_hash`, `do_flush_hash_map` and
   `write_down` are written.
