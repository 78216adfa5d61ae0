---------------------------- MODULE RemoteContent ----------------------------
(***************************************************************************)
(* dc_content_remote_t: how the compare worker asks a peer for the         *)
(* attributes of a batch of directories.  A POST hands the batch to the    *)
(* peer's internal executor, GETs are repeated until the peer is done; the *)
(* HTTP callbacks, on another thread, report to the worker through         *)
(* dir_list_out_q_.  The peer is main.cc's two handlers over one uuid of   *)
(* the executor, which InternalExecutor has in detail.                     *)
(***************************************************************************)
EXTENDS Integers, Sequences

CONSTANTS MaxBatches,      \* bound: batches the worker sends
          RetryMax         \* retry_max of create_http_task: 2 in the code

VARIABLES
    worker,      \* the worker: idle, polling
    batches,     \* batches sent so far
    status,      \* get_dir_list_status_
    out_q,       \* dir_list_out_q_
    exchange,    \* the HTTP task in flight
    resp_body,   \* get_resp_body_
    ret,         \* what the worker's last call returned
    peer,        \* the executor's tasks of this uuid, in order
    peer_up,     \* the peer's process is alive
    crashed      \* what ended this process

vars == <<worker, batches, status, out_q, exchange, resp_body, ret,
          peer, peer_up, crashed>>

NoCrash == "none"
NoBody == [gzip |-> FALSE, error |-> "absent", code |-> "none"]
Idle == [method |-> "none", state |-> "none", tries |-> 0, body |-> NoBody]

Init ==
    /\ worker = "idle"
    /\ batches = 0
    /\ status = "OVER"
    /\ out_q = << >>
    /\ exchange = Idle
    /\ resp_body = NoBody
    /\ ret = "none"
    /\ peer = << >>
    /\ peer_up = TRUE
    /\ crashed = NoCrash

Running == crashed = NoCrash
-----------------------------------------------------------------------------
(* The worker                                                              *)

(* http_post_task and http_get_task: create_http_task and start            *)
http_task(method) ==
    exchange' = [method |-> method, state |-> "sending", tries |-> 0, body |-> NoBody]

do_dir_list_attr ==
    /\ Running
    /\ worker = "idle"
    /\ batches < MaxBatches
    /\ batches' = batches + 1
    /\ http_task("POST")
    /\ status' = "INIT"
    /\ worker' = "polling"
    /\ ret' = "S_SUCCESS"
    /\ UNCHANGED <<out_q, resp_body, peer, peer_up, crashed>>

(* The worker polls until the answer is not E_DC_CONTENT_RETRY.            *)
Return(code) ==
    /\ ret' = code
    /\ worker' = IF code = "E_DC_CONTENT_RETRY" THEN "polling" ELSE "idle"

get_dir_list_attr_empty ==
    /\ Running
    /\ worker = "polling" /\ status \in {"INIT", "SEND"}
    /\ out_q = << >>
    /\ Return("E_DC_CONTENT_RETRY")
    /\ UNCHANGED <<batches, status, out_q, exchange, resp_body, peer,
                   peer_up, crashed>>

(* The answer to the POST: S_SUCCESS sends the first GET.                  *)
get_dir_list_attr_init ==
    /\ Running
    /\ worker = "polling" /\ status = "INIT"
    /\ out_q # << >>
    /\ out_q' = Tail(out_q)
    /\ IF Head(out_q) = "S_SUCCESS"
       THEN /\ http_task("GET")
            /\ status' = "SEND"
            /\ Return("E_DC_CONTENT_RETRY")
       ELSE /\ Return(Head(out_q))
            /\ UNCHANGED <<exchange, status>>
    /\ UNCHANGED <<batches, resp_body, peer, peer_up, crashed>>

(* What parsing a body runs into: it is asserted that it unzips and that   *)
(* it has "error", which is read as a string.                              *)
ParseError(b) ==
    CASE ~b.gzip               -> "ungzip"
      [] b.error = "absent"    -> "no_error"
      [] b.error = "number"    -> "type_error"
      [] OTHER                 -> NoCrash

(* The answer to a GET.  The executor lists the attributes under "dirs",   *)
(* this code asserts that there is a "result": with this peer the entries  *)
(* are never stored and the status never becomes OVER again.               *)
get_dir_list_attr_send ==
    /\ Running
    /\ worker = "polling" /\ status = "SEND"
    /\ out_q # << >>
    /\ out_q' = Tail(out_q)
    /\ CASE Head(out_q) = "E_DC_CONTENT_RETRY" ->
                /\ http_task("GET")
                /\ Return("E_DC_CONTENT_RETRY")
                /\ UNCHANGED <<status, crashed>>
         [] Head(out_q) \notin {"E_DC_CONTENT_RETRY", "S_SUCCESS"} ->
                /\ Return(Head(out_q))
                /\ UNCHANGED <<exchange, status, crashed>>
         [] OTHER ->
                /\ crashed' = IF ParseError(resp_body) # NoCrash
                              THEN ParseError(resp_body) ELSE "no_result"
                /\ UNCHANGED <<exchange, status, ret, worker>>
    /\ UNCHANGED <<batches, resp_body, peer, peer_up>>
-----------------------------------------------------------------------------
(* The network and the peer                                                *)

Answer(code) == [gzip |-> TRUE, error |-> "number", code |-> code]

(* get(): the oldest entry of the uuid; erased when it is over.            *)
Fetched ==
    CASE peer = << >>               -> Answer("E_NOT_FOUND")
      [] Head(peer).state # "OVER"  -> Answer("E_DC_CONTENT_RETRY")
      [] OTHER                      -> Answer(Head(peer).code)

(* An attempt reaches the peer and is handled.  The response then arrives, *)
(* or is lost and the request is sent again, or is given up.               *)
Handled(answer) ==
    \/ exchange' = [exchange EXCEPT !.state = "complete", !.body = answer]
    \/ IF exchange.tries < RetryMax
       THEN exchange' = [exchange EXCEPT !.tries = @ + 1]
       ELSE exchange' = [exchange EXCEPT !.state = "failed"]

PeerPost ==
    /\ exchange.state = "sending" /\ exchange.method = "POST"
    /\ peer_up
    /\ peer' = Append(peer, [state |-> "INIT", code |-> "none"])
    /\ Handled(Answer("S_SUCCESS"))
    /\ UNCHANGED <<worker, batches, status, out_q, resp_body, ret,
                   peer_up, crashed>>

(* The body is sent from zip_body, which is gone once http_post_task has   *)
(* returned: the peer may get anything, which Json::parse does not survive.*)
PeerPostGarbage ==
    /\ exchange.state = "sending" /\ exchange.method = "POST"
    /\ peer_up
    /\ peer_up' = FALSE
    /\ exchange' = [exchange EXCEPT !.state = "failed"]
    /\ UNCHANGED <<worker, batches, status, out_q, resp_body, ret,
                   peer, crashed>>

PeerGet ==
    /\ exchange.state = "sending" /\ exchange.method = "GET"
    /\ peer_up
    /\ peer' = IF peer # << >> /\ Head(peer).state = "OVER" THEN Tail(peer) ELSE peer
    /\ Handled(Fetched)
    /\ UNCHANGED <<worker, batches, status, out_q, resp_body, ret,
                   peer_up, crashed>>

(* No connection, or every attempt is lost on its way.                     *)
ExchangeFails ==
    /\ exchange.state = "sending"
    /\ exchange' = [exchange EXCEPT !.state = "failed"]
    /\ UNCHANGED <<worker, batches, status, out_q, resp_body, ret,
                   peer, peer_up, crashed>>

(* The executor's worker finishes its oldest task.                         *)
PeerWorks(code) ==
    /\ peer_up
    /\ \E i \in 1 .. Len(peer) :
           /\ peer[i].state = "INIT"
           /\ \A j \in 1 .. i - 1 : peer[j].state = "OVER"
           /\ peer' = [peer EXCEPT ![i].state = "OVER", ![i].code = code]
    /\ UNCHANGED <<worker, batches, status, out_q, exchange, resp_body,
                   ret, peer_up, crashed>>
-----------------------------------------------------------------------------
(* The callbacks.  get_parsed_body returns true for a complete response,   *)
(* and it is asserted that what it returns is StatusOK, which is 0.  When  *)
(* the exchange failed it returns false and leaves body and body_len as    *)
(* they were: uninitialised.                                               *)

StatusOK == 0
get_parsed_body == IF exchange.state = "complete" THEN 1 ELSE 0

Bodies ==
    IF exchange.state = "complete" THEN {exchange.body}
    ELSE {NoBody} \cup [gzip : {TRUE}, error : {"absent", "number"},
                        code : {"S_SUCCESS"}]

CallbackError(b) ==
    IF get_parsed_body # StatusOK THEN "get_parsed_body" ELSE ParseError(b)

(* http_post_callback and http_get_callback: the latter keeps the body.    *)
http_callback ==
    /\ Running
    /\ exchange.state \in {"complete", "failed"}
    /\ \E b \in Bodies :
           IF CallbackError(b) # NoCrash
           THEN /\ crashed' = CallbackError(b)
                /\ UNCHANGED <<resp_body, out_q>>
           ELSE /\ resp_body' = IF exchange.method = "GET" /\ b.code = "S_SUCCESS"
                                THEN b ELSE resp_body
                /\ out_q' = Append(out_q, b.code)
                /\ UNCHANGED crashed
    /\ exchange' = Idle
    /\ UNCHANGED <<worker, batches, status, ret, peer, peer_up>>
-----------------------------------------------------------------------------
Next ==
    \/ do_dir_list_attr
    \/ get_dir_list_attr_empty \/ get_dir_list_attr_init \/ get_dir_list_attr_send
    \/ PeerPost \/ PeerPostGarbage \/ PeerGet \/ ExchangeFails
    \/ \E code \in {"S_SUCCESS", "E_OS_ENV_CHDIR"} : PeerWorks(code)
    \/ http_callback

Spec == Init /\ [][Next]_vars

(* A response that arrives whole passes the first assertion of the         *)
(* callback, "DC_COMMON_ASSERT(ret == wfrest::StatusOK)" at                *)
(* dc_content.cc:620 and :693.                                             *)
ResponseAccepted == crashed # "get_parsed_body"
=============================================================================
