---------------------------- MODULE MCServerTask ----------------------------
(* Requests to routes with no, one and two aspects, with and without a     *)
(* compute queue, and every shape of Keep-Alive header on one of them,     *)
(* with the times 5, 8 and 9 that overflow: with a second of 4 and ints    *)
(* below 16, they leave -12, 0 and 4.                                      *)
EXTENDS ServerTask

Request(valid, call, own, compute, alive, keep) ==
    [valid |-> valid, call |-> call, own |-> own, compute |-> compute,
     alive |-> alive, keep |-> keep]

P(k, v) == [key |-> k, val |-> v]

MCKeeps == {<< >>,
            <<P("timeout", 0)>>, <<P("timeout", -1)>>, <<P("timeout", 3)>>,
            <<P("timeout", 5)>>, <<P("timeout", 8)>>, <<P("timeout", 9)>>,
            <<P("max", 1)>>, <<P("max", 0), P("timeout", 2)>>,
            <<P("timeout", 2), P("max", 1)>>, <<P("max", 1), P("timeout", 2)>>,
            <<P("other", 0), P("max", 1), P("timeout", 2), P("timeout", 0)>>,
            <<P("timeout", 2), P("timeout", 0), P("max", 2), P("max", 0)>>}

MCRequests ==
    {Request(FALSE, "StatusOK", << >>, FALSE, TRUE, << >>),
     Request(TRUE, "StatusRouteNotFound", << >>, FALSE, TRUE, << >>),
     Request(TRUE, "StatusRouteVerbNotImplment", << >>, FALSE, FALSE, << >>)}
    \cup {Request(TRUE, "StatusOK", own, compute, TRUE, << >>) :
             own \in {<<"o1">>, <<"o1", "o2">>}, compute \in BOOLEAN}
    \cup {Request(TRUE, "StatusOK", << >>, compute, alive, << >>) :
             compute \in BOOLEAN, alive \in BOOLEAN}
    \cup {Request(TRUE, "StatusOK", << >>, FALSE, alive, keep) :
             alive \in BOOLEAN, keep \in MCKeeps}

MCGlobalLists == {<< >>, <<"g1", "g2">>}
=============================================================================
