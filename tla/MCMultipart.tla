---------------------------- MODULE MCMultipart ----------------------------
(* Multipart on bodies of up to two parts: data with every way to come     *)
(* close to the delimiter, headers with empty values and forbidden         *)
(* characters, bodies cut anywhere, broken after a boundary, or with text  *)
(* before the first boundary.                                              *)
EXTENDS Multipart

MCBoundary == <<"-", "-", "b">>
MCLetters == {"b", "cd", "type"}
MCNames == {"n1", "n2"}
MCFiles == {"f1"}

SeqsUpTo(S, n) == UNION {[1 .. m -> S] : m \in 0 .. n}

Header(field, value) == [field |-> field, value |-> value]
Named(n) == Header(<<"cd">>, <<n>>)
Upload(n) == Header(<<"cd">>, <<n, "f1">>)
Empty == Header(<<"type">>, << >>)
EmptyDispo == Header(<<"cd">>, << >>)
Plain == Header(<<"type", "-", "b">>, <<" ", "b">>)
Bad == Header(<<"type", "!">>, <<"b">>)

HeaderLists ==
    {<<Named("n1")>>, <<Upload("n2"), Plain>>, <<Empty, Named("n1")>>,
     <<Plain, Upload("n1")>>, <<Upload("n1"), Empty>>, << >>, <<Bad, Named("n1")>>,
     <<EmptyDispo, Named("n2")>>, <<Upload("n1"), Named("n2")>>}

Part(headers, data) == [headers |-> headers, data |-> data]

Whole == 1000            \* the body is not cut
End == <<"-", "-", "CR", "LF">>

In(lead, parts, tail, cut) ==
    [lead |-> lead, parts |-> parts, tail |-> tail, cut |-> cut]

(* One part: data of up to MaxData characters, and some longer ones.       *)
CONSTANT MaxData
Datas == SeqsUpTo({"CR", "LF", "-", "b"}, MaxData)
             \cup {<<"CR", "LF", "-", "-">> \o d : d \in SeqsUpTo({"CR", "LF", "-", "b"}, 2)}
OnePart == {In(<< >>, <<Part(<<Upload("n1")>>, d)>>, End, Whole) : d \in Datas}

(* Two parts: every pair of header lists.                                  *)
Short == {<< >>, <<"CR">>, <<"b", "CR", "LF">>}
TwoParts ==
    {In(<< >>, <<Part(h, d), Part(g, <<"b">>)>>, End, Whole) :
        h \in HeaderLists, g \in HeaderLists, d \in Short}

(* Bodies cut at every character, and bodies that break after a boundary   *)
(* or before it.                                                           *)
Two == <<Part(<<Upload("n1")>>, <<"b", "CR">>), Part(<<Plain, Named("n2")>>, <<"-">>)>>
Cut == {In(<< >>, Two, End, n) : n \in 0 .. 51}
Broken ==
    {In(<< >>, Two, t, Whole) :
        t \in {<<"!">>, <<"CR", "!">>, <<"-", "!">>, <<"-">>, << >>}}
    \cup {In(l, Two, End, Whole) : l \in {CRLF, <<"b">>}}

MCInputs == OnePart \cup TwoParts \cup Cut \cup Broken
=============================================================================
