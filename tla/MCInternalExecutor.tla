------------------------- MODULE MCInternalExecutor -------------------------
(***************************************************************************)
(* Small instances of InternalExecutor: two uuids, tasks of one and two    *)
(* directories, and one request for every check of the POST handler.       *)
(***************************************************************************)
EXTENDS InternalExecutor

Valid(u, ds) == [uuid |-> u, json |-> TRUE, body |-> "object",
                 fields |-> {"dirs", "uuid", "base_dir"}, same |-> TRUE,
                 dirs |-> ds]

ValidRequests ==
    {Valid("u1", <<"d1", "d2">>), Valid("u2", <<"d2">>)}

Sample == Valid("u1", <<"d1">>)

RefusedRequests ==
    { [Sample EXCEPT !.uuid = NoUuid],
      [Sample EXCEPT !.json = FALSE],
      [Sample EXCEPT !.body = "empty"],
      [Sample EXCEPT !.body = "malformed"],
      [Sample EXCEPT !.fields = {"uuid", "base_dir"}],
      [Sample EXCEPT !.fields = {"dirs", "base_dir"}],
      [Sample EXCEPT !.same = FALSE] }

NoBaseDir == [Sample EXCEPT !.fields = {"dirs", "uuid"}]

AllRequests == ValidRequests \cup RefusedRequests \cup {NoBaseDir}
=============================================================================
