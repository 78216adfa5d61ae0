------------------------------ MODULE MCRouter ------------------------------
(* Routes over three plain segments, two parameters and two stars.         *)
EXTENDS Router

MCSegOrder == <<"", "*", "/", "a", "a*", "ab", "b", "{p}", "{q}">>
MCParams == {"{p}", "{q}"}
MCNameOf == [s \in MCParams |-> IF s = "{p}" THEN "p" ELSE "q"]
MCStars == {"*", "a*"}
MCStartsWith == (Range(MCSegOrder) \X {"*"})
                    \cup ({"a", "ab", "a*"} \X {"a*"})

MCPatterns == {<< >>, <<"a">>, <<"a", "b">>, <<"{p}">>, <<"{p}", "b">>,
               <<"a", "{p}">>, <<"a", "{p}", "b">>, <<"a*">>, <<"*">>,
               <<"{q}", "b", "ab">>, <<"a", "*">>}
MCBluePatterns == {<< >>, <<"b">>, <<"b", "{p}">>}
MCUrlPrefixes == {<< >>, <<"a">>}

MCPlain == {"a", "ab", "b"}
MCPaths == {<<"">>} \cup UNION {[1 .. k -> MCPlain] : k \in 1 .. 2}
               \cup {p \in [1 .. 3 -> MCPlain] :
                          p[1] = "a" \/ (p[2] = "b" /\ p[3] = "ab")}
=============================================================================
