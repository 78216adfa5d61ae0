----------------------------- MODULE MCResponse -----------------------------
(* Response on every program of up to MaxCalls calls, and on every range   *)
(* of some small files with an int of four bits.                           *)
EXTENDS Response

CONSTANT MaxCalls

File(exists, size, start, end) ==
    [op |-> "file", exists |-> exists, size |-> size, start |-> start, end |-> end]

Simple == {"string", "json", "badjson", "gzip", "br", "save",
           "savemsg", "mysql", "mysqlfunc", "timer"}
Forms == {<< >>, <<TRUE>>, <<TRUE, TRUE>>, <<TRUE, FALSE>>, <<FALSE, TRUE>>}

Calls ==
    {[op |-> o] : o \in Simple}
    \cup {File(TRUE, 5, 0, -1), File(FALSE, 0, 0, -1)}
    \cup {[op |-> "multipart", files |-> f] : f \in Forms}
    \cup {[op |-> "http", good |-> g] : g \in BOOLEAN}

Sequences == UNION {[1 .. n -> Calls] : n \in 0 .. MaxCalls}

Ranges ==
    {<<File(TRUE, size, start, end)>> :
        size \in {0, 1, 5, 7, 8, 17}, start \in -9 .. 9, end \in -9 .. 9}

MCPrograms ==
    {p \in Sequences : Cardinality({k \in DOMAIN p : p[k].op = "http"}) <= 1}
    \cup Ranges \cup {<<[op |-> o]>> : o \in {"move", "redis"}}
=============================================================================
