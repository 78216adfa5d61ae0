----------------------------- MODULE Multipart -----------------------------
(***************************************************************************)
(* MultiPartForm::parse_multipart: the body of one multipart/form-data     *)
(* request read by multipart_parser_execute, one turn of its loop a step,  *)
(* and what the callbacks of HttpContent.cc make of it.                    *)
(*                                                                         *)
(* Elements of a body stand for characters, except that the name           *)
(* Content-Disposition, and each name="..." and filename="..." of its      *)
(* value, is a single element: the parser only asks of them whether they   *)
(* are letters.  What StrUtil::split_piece, trim and trim_pairs do to a    *)
(* value is abstracted with them.  userdata.state is written and never     *)
(* read, and left out.                                                     *)
(***************************************************************************)
EXTENDS Integers, Sequences, FiniteSets, SequencesExt

CONSTANTS Inputs,       \* the bodies a client may send, by their structure
          Boundary,     \* "--" + boundary_
          Letters,      \* elements that tolower takes to a .. z
          Dispo,        \* the element for Content-Disposition
          Names,        \* the elements for name="..."
          Files         \* the elements for filename="..."

CR == "CR"
LF == "LF"
CRLF == <<CR, LF>>
None == "none"          \* an empty name or file name

(* The structure of a body.  A part is its header lines and its data.      *)
HeaderText(h) == h.field \o <<":", " ">> \o h.value \o CRLF
PartText(p) ==
    FlattenSeq([k \in 1 .. Len(p.headers) |-> HeaderText(p.headers[k])])
    \o CRLF \o p.data \o CRLF \o Boundary
UpTo(in, n) ==
    in.lead \o Boundary
    \o FlattenSeq([k \in 1 .. n |-> CRLF \o PartText(in.parts[k])])
BodyOf(in) ==
    LET whole == UpTo(in, Len(in.parts)) \o in.tail
    IN  SubSeq(whole, 1, Min({in.cut, Len(whole)}))

ASSUME BoundaryAssumption ==
    Boundary \in Seq({"-"} \cup Letters) /\ Len(Boundary) >= 2
ASSUME AlphabetAssumption ==
    /\ Dispo \in Letters
    /\ Names \cap Files = {} /\ None \notin Names \cup Files
    /\ (Letters \cup Names \cup Files) \cap {CR, LF, ":", " ", "-"} = {}
(* A body is a string of characters.                                       *)
ASSUME InputsAssumption == \A in \in Inputs : BodyOf(in) \in Seq(STRING)

VARIABLES
    input,        \* the structure the body is written from
    body,         \* body.data()
    i,            \* next character, from 1
    mark,         \* where the text not yet given to a callback starts
    index,        \* p->index
    state,        \* p->state
    lookbehind,   \* p->lookbehind
    user,         \* multipart_parser_userdata
    form,         \* the Form
    running       \* multipart_parser_execute has not returned

vars == <<input, body, i, mark, index, state, lookbehind, user, form, running>>

NoUser == [header_field |-> << >>, header_value |-> << >>,
           part_data |-> << >>, name |-> None, filename |-> None]

(* multipart_parser_init and parse_multipart                               *)
Init ==
    /\ input \in Inputs
    /\ body = BodyOf(input)
    /\ i = 1
    /\ mark = 1
    /\ index = 0
    /\ state = "s_start_boundary"
    /\ lookbehind = << >>
    /\ user = NoUser
    /\ form = << >>
    /\ running = TRUE

-----------------------------------------------------------------------------
(* The callbacks                                                           *)

LastIn(s, S, default) ==
    LET at == {k \in 1 .. Len(s) : s[k] \in S}
    IN  IF at = {} THEN default
        ELSE s[CHOOSE k \in at : \A j \in at : j <= k]

(* A header with an empty field or value stays: the next one is appended.  *)
handle_header(u) ==
    IF u.header_field = << >> \/ u.header_value = << >> THEN u
    ELSE LET v == [u EXCEPT !.header_field = << >>, !.header_value = << >>]
         IN  IF u.header_field = <<Dispo>>
             THEN [v EXCEPT !.name = LastIn(u.header_value, Names, @),
                            !.filename = LastIn(u.header_value, Files, @)]
             ELSE v

header_field_cb(u, text) ==
    [handle_header(u) EXCEPT !.header_field = @ \o text]
header_value_cb(u, text) == [u EXCEPT !.header_value = @ \o text]
part_data_cb(u, text) == [u EXCEPT !.part_data = @ \o text]

With(f, x, y) ==
    [z \in DOMAIN f \cup {x} |-> IF z = x THEN y ELSE f[z]]

(* Mutant: the names are left for the next part.                           *)
part_data_end_keep ==
    /\ form' = IF user.name = None THEN form
               ELSE With(form, user.name, <<user.filename, user.part_data>>)
    /\ user' = [user EXCEPT !.part_data = << >>]

(* part_data_end_cb and handle_data: a part without a name is dropped, a   *)
(* later one replaces an earlier one of the same name.                     *)
part_data_end_cb ==
    /\ form' = IF user.name = None THEN form
               ELSE With(form, user.name, <<user.filename, user.part_data>>)
    /\ user' = [user EXCEPT !.name = None, !.filename = None,
                            !.part_data = << >>]

-----------------------------------------------------------------------------
(* multipart_parser_execute                                                *)

c == body[i]
is_last == i = Len(body)

Turn == running /\ i <= Len(body)

(* The text from mark up to the character before this one; with this one,  *)
(* when it is the last.                                                    *)
Marked(from) == SubSeq(body, from, i - 1)
MarkedLast(from) == IF is_last THEN SubSeq(body, from, i) ELSE << >>

Goto(s) == state' = s /\ i' = i + 1
Again(s) == state' = s /\ i' = i          \* mark = i--, then ++i

s_start_boundary ==
    /\ Turn /\ state = "s_start_boundary"
    /\ c = (Boundary \o CRLF)[index + 1]
    /\ IF index = Len(Boundary) + 1
       THEN index' = 0 /\ Goto("s_header_field_start")
       ELSE index' = index + 1 /\ Goto("s_start_boundary")
    /\ UNCHANGED <<input, body, mark, lookbehind, user, form, running>>

(* s_header_field_start marks the character and falls through.             *)
FieldMark == IF state = "s_header_field_start" THEN i ELSE mark

s_header_field ==
    /\ Turn /\ state \in {"s_header_field_start", "s_header_field"}
    /\ mark' = FieldMark
    /\ \/ /\ c = CR
          /\ Goto("s_headers_almost_done")
          /\ UNCHANGED user
       \/ /\ c = ":"
          /\ user' = header_field_cb(user, Marked(FieldMark))
          /\ Goto("s_header_value_start")
       \/ /\ c \in Letters \cup {"-"}
          /\ user' = IF is_last
                     THEN header_field_cb(user, MarkedLast(FieldMark)) ELSE user
          /\ Goto("s_header_field")
    /\ UNCHANGED <<input, body, index, lookbehind, form, running>>

s_headers_almost_done ==
    /\ Turn /\ state = "s_headers_almost_done"
    /\ c = LF
    /\ Goto("s_part_data_start")
    /\ UNCHANGED <<input, body, mark, index, lookbehind, user, form, running>>

(* s_header_value_start skips spaces, marks and falls through.             *)
s_header_value ==
    /\ Turn /\ state \in {"s_header_value_start", "s_header_value"}
    /\ IF state = "s_header_value_start" /\ c = " "
       THEN Goto("s_header_value_start") /\ UNCHANGED <<mark, user>>
       ELSE LET m == IF state = "s_header_value" THEN mark ELSE i
            IN  /\ mark' = m
                /\ IF c = CR
                   THEN /\ user' = header_value_cb(user, Marked(m))
                        /\ Goto("s_header_value_almost_done")
                   ELSE /\ user' = header_value_cb(user, MarkedLast(m))
                        /\ Goto("s_header_value")
    /\ UNCHANGED <<input, body, index, lookbehind, form, running>>

s_header_value_almost_done ==
    /\ Turn /\ state = "s_header_value_almost_done"
    /\ c = LF
    /\ Goto("s_header_field_start")
    /\ UNCHANGED <<input, body, mark, index, lookbehind, user, form, running>>

(* s_part_data_start runs headers_complete_cb, marks and falls through.    *)
s_part_data ==
    /\ Turn /\ state \in {"s_part_data_start", "s_part_data"}
    /\ LET first == state = "s_part_data_start"
           m == IF first THEN i ELSE mark
           u == IF first THEN handle_header(user) ELSE user
       IN  IF c = CR
           THEN /\ user' = part_data_cb(u, Marked(m))
                /\ mark' = i
                /\ lookbehind' = <<CR>>
                /\ Goto("s_part_data_almost_boundary")
           ELSE /\ user' = part_data_cb(u, MarkedLast(m))
                /\ mark' = m
                /\ Goto("s_part_data")
                /\ UNCHANGED lookbehind
    /\ UNCHANGED <<input, body, index, form, running>>

s_part_data_almost_boundary ==
    /\ Turn /\ state = "s_part_data_almost_boundary"
    /\ IF c = LF
       THEN /\ Goto("s_part_data_boundary")
            /\ lookbehind' = <<CR, LF>>
            /\ index' = 0
            /\ UNCHANGED <<mark, user>>
       ELSE /\ user' = part_data_cb(user, <<CR>>)
            /\ mark' = i
            /\ Again("s_part_data")
            /\ UNCHANGED <<lookbehind, index>>
    /\ UNCHANGED <<input, body, form, running>>

(* Mutant: the text held back is one character short.                      *)
HeldShort == SubSeq(lookbehind, 1, 1 + index)

Held == SubSeq(lookbehind, 1, 2 + index)

s_part_data_boundary ==
    /\ Turn /\ state = "s_part_data_boundary"
    /\ IF c # Boundary[index + 1]
       THEN /\ user' = part_data_cb(user, Held)
            /\ mark' = i
            /\ Again("s_part_data")
            /\ UNCHANGED <<lookbehind, index, form>>
       ELSE /\ lookbehind' = Append(Held, c)
            /\ index' = index + 1
            /\ UNCHANGED mark
            /\ IF index' = Len(Boundary)
               THEN part_data_end_cb /\ Goto("s_part_data_almost_end")
               ELSE UNCHANGED <<user, form>> /\ Goto("s_part_data_boundary")
    /\ UNCHANGED <<input, body, running>>

(* s_part_data_almost_end, s_part_data_final_hyphen and s_part_data_end.   *)
After(s) ==
    CASE s = "s_part_data_almost_end" /\ c = "-" -> {"s_part_data_final_hyphen"}
      [] s = "s_part_data_almost_end" /\ c = CR -> {"s_part_data_end"}
      [] s = "s_part_data_final_hyphen" /\ c = "-" -> {"s_end"}
      [] s = "s_part_data_end" /\ c = LF -> {"s_header_field_start"}
      [] s = "s_end" -> {"s_end"}
      [] OTHER -> {}

s_part_data_end ==
    /\ Turn
    /\ \E s \in After(state) : Goto(s)
    /\ UNCHANGED <<input, body, mark, index, lookbehind, user, form, running>>

(* A character the state has no use for: return i.                         *)
Refused ==
    CASE state = "s_start_boundary" -> c # (Boundary \o CRLF)[index + 1]
      [] state \in {"s_header_field_start", "s_header_field"} ->
             c \notin Letters \cup {"-", ":", CR}
      [] state \in {"s_headers_almost_done", "s_header_value_almost_done"} ->
             c # LF
      [] state \in {"s_part_data_almost_end", "s_part_data_final_hyphen",
                    "s_part_data_end"} -> After(state) = {}
      [] OTHER -> FALSE

(* parse_multipart ignores what execute returns: the form is what it is.   *)
Return ==
    /\ running
    /\ i <= Len(body) => Refused
    /\ running' = FALSE
    /\ UNCHANGED <<input, body, i, mark, index, state, lookbehind, user, form>>

Next ==
    \/ s_start_boundary \/ s_header_field \/ s_headers_almost_done
    \/ s_header_value \/ s_header_value_almost_done \/ s_part_data
    \/ s_part_data_almost_boundary \/ s_part_data_boundary \/ s_part_data_end
    \/ Return

Spec == Init /\ [][Next]_vars
-----------------------------------------------------------------------------
(* Properties                                                              *)

(* What has been read of the part's data and not given to part_data_cb.    *)
Pending ==
    CASE state = "s_part_data" -> IF i > Len(body) THEN << >> ELSE Marked(mark)
      [] state = "s_part_data_almost_boundary" -> <<CR>>
      [] state = "s_part_data_boundary" -> Held

(* Whatever the data looks like - a lone CR, CR CR LF, the beginning of a  *)
(* boundary - no character of it is lost, doubled or moved by the mark,    *)
(* i-- and lookbehind of the parser: what part_data_cb got and what is     *)
(* held back is the text since the empty line after the headers.           *)
DataKept ==
    state \in {"s_part_data", "s_part_data_almost_boundary",
               "s_part_data_boundary"} =>
        LET text == user.part_data \o Pending
            from == i - Len(text)
        IN  /\ from > 2
            /\ SubSeq(body, from - 2, from - 1) = CRLF
            /\ text = SubSeq(body, from, i - 1)

(* The delimiter occurs where the structure has it and nowhere else.       *)
Clean(p) ==
    LET text == p.data \o CRLF \o Boundary
        delim == CRLF \o Boundary
    IN  \A k \in 1 .. Len(p.data) :
            SubSeq(text, k, k + Len(delim) - 1) # delim

(* Parts whose closing delimiter the parser reaches.                       *)
Complete(in, k) ==
    /\ in.lead = << >>
    /\ Len(UpTo(in, k)) <= in.cut
    /\ \A j \in 1 .. k : \A h \in 1 .. Len(in.parts[j].headers) :
           \A x \in Range(in.parts[j].headers[h].field) :
               x \in Letters \cup {"-"}

Lines(in, k) == FlattenSeq([j \in 1 .. k |-> in.parts[j].headers])

(* handle_header leaves a header whose value is empty in place and appends *)
(* the next one to it: a Content-Disposition right after one, in the same  *)
(* part or as the first of the next, goes unseen.                          *)
Overlooks(in) ==
    \E k \in 1 .. Len(in.parts) : Complete(in, k) /\
        LET lines == Lines(in, k)
        IN  \E h \in 2 .. Len(lines) :
                lines[h].field = <<Dispo>> /\ lines[h - 1].value = << >>

(* What the Content-Disposition headers of part k say, one after the other. *)
Disposition(in, k) ==
    LET own == in.parts[k].headers
    IN  FlattenSeq([h \in 1 .. Len(own) |->
            IF own[h].field = <<Dispo>> THEN own[h].value ELSE << >>])

NameOf(in, k) == LastIn(Disposition(in, k), Names, None)

Expected(in) ==
    LET named == {k \in 1 .. Len(in.parts) :
                      Complete(in, k) /\ NameOf(in, k) # None}
        last(n) == CHOOSE k \in named :
                       /\ NameOf(in, k) = n
                       /\ \A j \in named : NameOf(in, j) = n => j <= k
    IN  [n \in {NameOf(in, k) : k \in named} |->
            <<LastIn(Disposition(in, last(n)), Files, None),
              in.parts[last(n)].data>>]

(* The form a handler sees holds exactly the named parts whose closing     *)
(* delimiter arrived, each with its own file name and its data to the last *)
(* character, a later part replacing an earlier one of the same name; a    *)
(* body that is cut, broken further on, or does not start with the         *)
(* boundary (as that of MultiPartEncoder does not) adds nothing else.  Of  *)
(* a body in which a header with an empty value comes right before a       *)
(* Content-Disposition this is not so, and nothing is said.                *)
FormRight ==
    ~running /\ ~Overlooks(input)
             /\ (\A k \in 1 .. Len(input.parts) : Clean(input.parts[k]))
        => form = Expected(input)
=============================================================================
