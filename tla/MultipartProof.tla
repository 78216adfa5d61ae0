--------------------------- MODULE MultipartProof ---------------------------
(***************************************************************************)
(* The parser loses, doubles and moves no character of a part's data, for  *)
(* every body a client may send, well-formed or not, and every boundary.   *)
(*                                                                         *)
(* The property counts the text from its end, i; the invariant names where *)
(* the data began, b, and says of each state what part_data_cb has got.    *)
(***************************************************************************)
EXTENDS Multipart, SequenceTheorems, TLAPS

DataStates == {"s_part_data", "s_part_data_almost_boundary",
               "s_part_data_boundary"}

(* The callbacks change the fields of userdata, never which there are.     *)
Shape(u) ==
    /\ "header_field" \in DOMAIN u /\ "header_value" \in DOMAIN u
    /\ "part_data" \in DOMAIN u
    /\ "name" \in DOMAIN u /\ "filename" \in DOMAIN u

ParserType ==
    /\ body \in Seq(STRING)
    /\ i \in 1 .. Len(body) + 1
    /\ Shape(user)

BetweenParts == state \notin DataStates => user.part_data = << >>

(* The empty line that ends the headers.                                   *)
EmptyLine ==
    /\ state = "s_headers_almost_done" => i > 1 /\ body[i - 1] = CR
    /\ state = "s_part_data_start" =>
           i > 2 /\ body[i - 2] = CR /\ body[i - 1] = LF

(* The data began at b: what the callback has got of it, and where the     *)
(* rest is.                                                                *)
Plainly(b) ==
    IF i > Len(body) THEN user.part_data = SubSeq(body, b, i - 1)
    ELSE mark \in b .. i /\ user.part_data = SubSeq(body, b, mark - 1)

AfterCR(b) ==
    b < i /\ body[i - 1] = CR /\ user.part_data = SubSeq(body, b, i - 2)

InDelimiter(b) ==
    /\ index \in Nat /\ b + index + 2 <= i
    /\ Held = SubSeq(body, i - index - 2, i - 1)
    /\ user.part_data = SubSeq(body, b, i - index - 3)

DataFrom(b) ==
    /\ body[b - 2] = CR /\ body[b - 1] = LF
    /\ state = "s_part_data" => Plainly(b)
    /\ state = "s_part_data_almost_boundary" => AfterCR(b)
    /\ state = "s_part_data_boundary" => InDelimiter(b)

Reading == state \in DataStates => \E b \in 3 .. i : DataFrom(b)

IInv == ParserType /\ BetweenParts /\ EmptyLine /\ Reading

-----------------------------------------------------------------------------
(* Texts                                                                   *)

(* A text and what follows it.                                             *)
LEMMA Adjacent ==
    ASSUME NEW S, NEW s \in Seq(S), NEW b \in 1 .. Len(s) + 1,
           NEW k \in Int, NEW m \in Int, NEW n \in Int,
           m = k + 1, b <= m, k <= n, n <= Len(s)
    PROVE  SubSeq(s, b, k) \o SubSeq(s, m, n) = SubSeq(s, b, n)
<1>1. Len(s) \in Nat
  OBVIOUS
<1>2. k \in b - 1 .. Len(s) /\ n \in k .. Len(s)
  BY <1>1
<1>3. SubSeq(s, b, k) \o SubSeq(s, k + 1, n) = SubSeq(s, b, n)
  BY <1>2, ConcatAdjacentSubSeq
<1>4. QED
  BY <1>3

(* Texts of one character.                                                 *)
LEMMA OneOf ==
    ASSUME NEW S, NEW s \in Seq(S), NEW k \in 1 .. Len(s)
    PROVE  SubSeq(s, k, k) = <<s[k]>>
<1>1. k \in Int /\ s[k] \in S
  OBVIOUS
<1>2. \A j \in k .. k : s[j] \in S
  BY <1>1
<1>3. /\ SubSeq(s, k, k) \in Seq(S) /\ Len(SubSeq(s, k, k)) = 1
      /\ SubSeq(s, k, k)[1] = s[k]
  BY <1>1, <1>2, SubSeqProperties
<1> DEFINE t == SubSeq(s, k, k)
           x == s[k]
<1> HIDE DEF t, x
<1>4. t \in Seq(S) /\ Len(t) = 1 /\ t[1] = x
  BY <1>3 DEF t, x
<1>5. t = <<x>>
  BY <1>4
<1>6. QED
  BY <1>5 DEF t, x

(* Texts of two.                                                           *)
LEMMA TwoOf ==
    ASSUME NEW S, NEW s \in Seq(S), NEW k \in Int, NEW m \in Int,
           m = k + 1, 1 <= k, m <= Len(s)
    PROVE  SubSeq(s, k, m) = <<s[k], s[m]>>
<1>1. /\ k \in 1 .. Len(s) /\ m \in 1 .. Len(s)
      /\ k \in 1 .. Len(s) + 1 /\ k <= m /\ Len(s) \in Nat
  OBVIOUS
<1>2. SubSeq(s, k, k) \o SubSeq(s, m, m) = SubSeq(s, k, m)
  BY <1>1, Adjacent
<1>3. SubSeq(s, k, k) = <<s[k]>> /\ SubSeq(s, m, m) = <<s[m]>>
  BY <1>1, OneOf
<1>4. ASSUME NEW x \in S, NEW y \in S PROVE <<x>> \o <<y>> = <<x, y>>
  <2> DEFINE t == <<x>> \o <<y>>
  <2>1. t \in Seq(S) /\ Len(t) = 2 /\ t[1] = x /\ t[2] = y
    OBVIOUS
  <2> HIDE DEF t
  <2>2. t = <<x, y>>
    BY <2>1
  <2>3. QED
    BY <2>2 DEF t
<1>5. s[k] \in S /\ s[m] \in S
  BY <1>1
<1>6. QED
  BY <1>2, <1>3, <1>4, <1>5

(* A piece of a text.                                                      *)
LEMMA PieceOf ==
    ASSUME NEW S, NEW s \in Seq(S), NEW b \in Int, NEW n \in Int,
           1 <= b, n <= Len(s)
    PROVE  /\ SubSeq(s, b, n) \in Seq(S)
           /\ Len(SubSeq(s, b, n)) = IF b <= n THEN n - b + 1 ELSE 0
<1>1. \A j \in b .. n : s[j] \in S
  OBVIOUS
<1>2. QED
  BY <1>1, SubSeqProperties

(* Nothing.                                                                *)
LEMMA NothingOf ==
    ASSUME NEW S, NEW s \in Seq(S), NEW b \in Int, NEW n \in Int, n = b - 1
    PROVE  SubSeq(s, b, n) = << >>
  BY SubSeqEmpty

-----------------------------------------------------------------------------
(* Callbacks                                                               *)

(* handle_header leaves the data alone.                                    *)
LEMMA HeaderData ==
    ASSUME NEW u, Shape(u)
    PROVE  Shape(handle_header(u)) /\ handle_header(u).part_data = u.part_data
<1> DEFINE v == [u EXCEPT !.header_field = << >>, !.header_value = << >>]
<1>1. Shape(v) /\ v.part_data = u.part_data
  BY DEF Shape
<1> HIDE DEF v
<1> DEFINE w(n, l) == [v EXCEPT !.name = n, !.filename = l]
<1>2. ASSUME NEW n, NEW l
      PROVE  w(n, l).part_data = v.part_data /\ Shape(w(n, l))
  BY <1>1 DEF Shape
<1>3. handle_header(u) \in
        {u, v, w(LastIn(u.header_value, Names, v.name),
                 LastIn(u.header_value, Files, v.filename))}
  <2> DEFINE n == LastIn(u.header_value, Names, v.name)
             l == LastIn(u.header_value, Files, v.filename)
  <2>1. w(n, l) = [v EXCEPT !.name = LastIn(u.header_value, Names, @),
                            !.filename = LastIn(u.header_value, Files, @)]
    OBVIOUS
  <2>2. QED
    BY <2>1 DEF handle_header, v
<1> HIDE DEF w
<1>4. QED
  BY <1>1, <1>2, <1>3

(* What each callback does to the data.                                    *)
LEMMA CallbackData ==
    ASSUME NEW u, Shape(u), NEW t
    PROVE  /\ Shape(header_field_cb(u, t))
           /\ header_field_cb(u, t).part_data = u.part_data
           /\ Shape(header_value_cb(u, t))
           /\ header_value_cb(u, t).part_data = u.part_data
           /\ Shape(part_data_cb(u, t))
           /\ part_data_cb(u, t).part_data = u.part_data \o t
<1> DEFINE h == handle_header(u)
<1>1. Shape(h) /\ h.part_data = u.part_data
  BY HeaderData
<1> HIDE DEF h
<1>2. /\ Shape(header_field_cb(u, t))
      /\ header_field_cb(u, t).part_data = u.part_data
  BY <1>1 DEF header_field_cb, h, Shape
<1>3. /\ Shape(header_value_cb(u, t))
      /\ header_value_cb(u, t).part_data = u.part_data
  BY DEF header_value_cb, Shape
<1>4. /\ Shape(part_data_cb(u, t))
      /\ part_data_cb(u, t).part_data = u.part_data \o t
  BY DEF part_data_cb, Shape
<1>5. QED
  BY <1>2, <1>3, <1>4

-----------------------------------------------------------------------------
(* Steps outside of a part's data                                          *)

(* Where a step outside of the data may lead.                              *)
LEMMA OutsideData ==
    ASSUME IInv, body' = body, i' \in 1 .. Len(body) + 1, Shape(user'),
           user'.part_data = << >>, state' \notin DataStates, EmptyLine'
    PROVE  IInv'
  BY DEF IInv, ParserType, BetweenParts, Reading

(* The next character.                                                     *)
LEMMA NextChar ==
    ASSUME IInv, Turn
    PROVE  /\ i \in 1 .. Len(body) /\ Len(body) \in Nat
           /\ i + 1 \in 1 .. Len(body) + 1 /\ i + 1 > 1
           /\ i > 1 => i + 1 > 2
           /\ (i + 1) - 1 = i /\ (i + 1) - 2 = i - 1
<1>1. body \in Seq(STRING) /\ i \in 1 .. Len(body) + 1 /\ i <= Len(body)
  BY DEF IInv, ParserType, Turn
<1>2. Len(body) \in Nat
  BY <1>1
<1>3. QED
  BY <1>1, <1>2

(* The boundary before the first part, the ends of lines, and what follows *)
(* a part.                                                                 *)
LEMMA LineStep ==
    ASSUME IInv, s_start_boundary \/ s_header_value_almost_done \/ s_part_data_end
    PROVE  IInv'
<1>1. /\ Turn /\ UNCHANGED <<body, user>> /\ i' = i + 1
      /\ state \notin DataStates /\ state' \notin DataStates
      /\ state' \notin {"s_headers_almost_done", "s_part_data_start"}
  <2>1. CASE s_start_boundary
    BY <2>1 DEF s_start_boundary, Goto, DataStates
  <2>2. CASE s_header_value_almost_done
    BY <2>2 DEF s_header_value_almost_done, Goto, DataStates
  <2>3. CASE s_part_data_end
    BY <2>3 DEF s_part_data_end, After, Goto, DataStates
  <2>4. QED
    BY <2>1, <2>2, <2>3
<1>2. i' \in 1 .. Len(body) + 1
  BY <1>1, NextChar
<1>3. user.part_data = << >> /\ Shape(user)
  BY <1>1 DEF IInv, BetweenParts, ParserType
<1>4. EmptyLine'
  BY <1>1 DEF EmptyLine
<1>5. QED
  BY <1>1, <1>2, <1>3, <1>4, OutsideData

(* A header's name, or the CR of the empty line.                           *)
LEMMA FieldStep == ASSUME IInv, s_header_field PROVE IInv'
<1>1. /\ Turn /\ body' = body /\ i' = i + 1
      /\ state \notin DataStates /\ state' \notin DataStates
      /\ state' # "s_part_data_start"
      /\ state' = "s_headers_almost_done" => body[i] = CR
      /\ \/ user' = user
         \/ \E t : user' = header_field_cb(user, t)
  <2>1. /\ Turn /\ state \in {"s_header_field_start", "s_header_field"}
        /\ body' = body
        /\ \/ /\ c = CR /\ Goto("s_headers_almost_done") /\ user' = user
           \/ /\ user' = header_field_cb(user, Marked(FieldMark))
              /\ Goto("s_header_value_start")
           \/ /\ user' = IF is_last
                         THEN header_field_cb(user, MarkedLast(FieldMark)) ELSE user
              /\ Goto("s_header_field")
    BY DEF s_header_field
  <2>2. QED
    BY <2>1 DEF Goto, DataStates, c
<1>2. i' \in 1 .. Len(body) + 1 /\ i' > 1 /\ i' - 1 = i
  BY <1>1, NextChar
<1>3. user.part_data = << >> /\ Shape(user)
  BY <1>1 DEF IInv, BetweenParts, ParserType
<1>4. user'.part_data = << >> /\ Shape(user')
  BY <1>1, <1>3, CallbackData
<1>5. EmptyLine'
  BY <1>1, <1>2 DEF EmptyLine
<1>6. QED
  BY <1>1, <1>2, <1>4, <1>5, OutsideData

(* A header's value.                                                       *)
LEMMA ValueStep == ASSUME IInv, s_header_value PROVE IInv'
<1>1. /\ Turn /\ body' = body /\ i' = i + 1
      /\ state \notin DataStates /\ state' \notin DataStates
      /\ state' \notin {"s_headers_almost_done", "s_part_data_start"}
      /\ \/ user' = user
         \/ \E t : user' = header_value_cb(user, t)
  BY DEF s_header_value, Goto, DataStates
<1>2. i' \in 1 .. Len(body) + 1
  BY <1>1, NextChar
<1>3. user.part_data = << >> /\ Shape(user)
  BY <1>1 DEF IInv, BetweenParts, ParserType
<1>4. user'.part_data = << >> /\ Shape(user')
  BY <1>1, <1>3, CallbackData
<1>5. EmptyLine'
  BY <1>1 DEF EmptyLine
<1>6. QED
  BY <1>1, <1>2, <1>4, <1>5, OutsideData

(* The LF of the empty line.                                               *)
LEMMA EmptyLineStep == ASSUME IInv, s_headers_almost_done PROVE IInv'
<1>1. /\ Turn /\ UNCHANGED <<body, user>> /\ i' = i + 1
      /\ state = "s_headers_almost_done" /\ state' = "s_part_data_start"
      /\ body[i] = LF
  BY DEF s_headers_almost_done, Goto, c
<1>2. /\ i' \in 1 .. Len(body) + 1 /\ i' - 1 = i /\ i' - 2 = i - 1
      /\ i > 1 => i' > 2
  BY <1>1, NextChar
<1>3. user.part_data = << >> /\ Shape(user)
  BY <1>1 DEF IInv, BetweenParts, ParserType, DataStates
<1>4. EmptyLine'
  BY <1>1, <1>2 DEF IInv, EmptyLine
<1>5. QED
  BY <1>1, <1>2, <1>3, <1>4, OutsideData DEF DataStates

(* execute returns, or nothing happens.                                    *)
LEMMA StillStep == ASSUME IInv, Return \/ UNCHANGED vars PROVE IInv'
<1>1. UNCHANGED <<body, i, mark, index, state, lookbehind, user>>
  BY DEF Return, vars
<1>2. ParserType' /\ BetweenParts' /\ EmptyLine'
  BY <1>1 DEF IInv, ParserType, BetweenParts, EmptyLine
<1>3. Reading'
  BY <1>1 DEF IInv, Reading, DataFrom, Plainly, AfterCR, InDelimiter, Held
<1>4. QED
  BY <1>2, <1>3 DEF IInv

-----------------------------------------------------------------------------
(* Steps in a part's data                                                  *)

DataHead(b) == body[b - 2] = CR /\ body[b - 1] = LF

(* Where a step in the data may lead.                                      *)
LEMMA InData ==
    ASSUME IInv, body' = body, i' \in 1 .. Len(body) + 1, Shape(user'),
           state' \in DataStates, NEW b \in Int, 3 <= b, b <= i', DataHead(b),
           state' = "s_part_data" => Plainly(b)',
           state' = "s_part_data_almost_boundary" => AfterCR(b)',
           state' = "s_part_data_boundary" => InDelimiter(b)'
    PROVE  IInv'
<1>1. ParserType' /\ BetweenParts'
  BY DEF IInv, ParserType, BetweenParts
<1>2. EmptyLine'
  BY DEF EmptyLine, DataStates
<1>3. DataFrom(b)'
  BY DEF DataFrom, DataHead
<1>4. b \in 3 .. i'
  BY DEF IInv, ParserType
<1>5. Reading'
  BY <1>3, <1>4 DEF Reading
<1>6. QED
  BY <1>1, <1>2, <1>5 DEF IInv

(* What a step in state s_part_data begins with: after the empty line, or  *)
(* with the mark at what the callback has not got yet.                     *)
LEMMA DataBegins ==
    ASSUME IInv, Turn, state \in {"s_part_data_start", "s_part_data"},
           NEW m, m = (IF state = "s_part_data_start" THEN i ELSE mark),
           NEW u, u = (IF state = "s_part_data_start" THEN handle_header(user)
                       ELSE user)
    PROVE  /\ Shape(u)
           /\ \E b \in Int : /\ 3 <= b /\ b <= m /\ m <= i /\ m \in Int
                             /\ DataHead(b)
                             /\ u.part_data = SubSeq(body, b, m - 1)
<1>1. /\ i \in Int /\ i <= Len(body) /\ Len(body) \in Nat
      /\ body \in Seq(STRING) /\ Shape(user)
  BY NextChar DEF IInv, ParserType
<1>2. CASE state = "s_part_data_start"
  <2>1. user.part_data = << >>
    BY <1>2 DEF IInv, BetweenParts, DataStates
  <2>2. u.part_data = << >> /\ Shape(u) /\ m = i
    BY <1>1, <1>2, <2>1, HeaderData
  <2>3. i > 2 /\ DataHead(i)
    BY <1>2 DEF IInv, EmptyLine, DataHead
  <2>4. i - 1 \in Int /\ i - 1 = i - 1 /\ 3 <= i
    BY <1>1, <2>3
  <2>5. SubSeq(body, i, i - 1) = << >>
    BY <1>1, <2>4, NothingOf
  <2>6. u.part_data = SubSeq(body, i, m - 1) /\ i <= m /\ m <= i /\ m \in Int
    <3>1. m - 1 = i - 1 /\ i <= m /\ m <= i /\ m \in Int
      BY <1>1, <2>2
    <3>2. QED
      BY <2>2, <2>5, <3>1
  <2>7. QED
    BY <1>1, <2>2, <2>3, <2>4, <2>6
<1>3. CASE state = "s_part_data"
  <2>1. PICK b \in 3 .. i : DataFrom(b)
    BY <1>3 DEF IInv, Reading, DataStates
  <2>2. mark \in b .. i /\ user.part_data = SubSeq(body, b, mark - 1)
    BY <1>1, <1>3, <2>1 DEF DataFrom, Plainly
  <2>3. m = mark /\ u = user
    BY <1>3
  <2>4. b \in Int /\ 3 <= b /\ b <= m /\ m <= i /\ m \in Int
    BY <1>1, <2>1, <2>2, <2>3
  <2>5. DataHead(b)
    BY <2>1 DEF DataFrom, DataHead
  <2>6. QED
    BY <1>1, <2>2, <2>3, <2>4, <2>5
<1>4. QED
  BY <1>2, <1>3

(* A character of the data: held as CR, given as the last, or left marked. *)
LEMMA DataStep == ASSUME IInv, s_part_data PROVE IInv'
<1> DEFINE m == IF state = "s_part_data_start" THEN i ELSE mark
           u == IF state = "s_part_data_start" THEN handle_header(user) ELSE user
<1>1. /\ Turn /\ state \in {"s_part_data_start", "s_part_data"} /\ body' = body
      /\ i' = i + 1
      /\ \/ /\ body[i] = CR /\ user' = part_data_cb(u, SubSeq(body, m, i - 1))
            /\ state' = "s_part_data_almost_boundary"
         \/ /\ user' = part_data_cb(u, IF i = Len(body) THEN SubSeq(body, m, i)
                                       ELSE << >>)
            /\ mark' = m /\ state' = "s_part_data"
  BY DEF s_part_data, Goto, Marked, MarkedLast, is_last, c
<1>2. /\ Shape(u)
      /\ \E b \in Int : /\ 3 <= b /\ b <= m /\ m <= i /\ m \in Int
                        /\ DataHead(b)
                        /\ u.part_data = SubSeq(body, b, m - 1)
  BY <1>1, DataBegins
<1> HIDE DEF m, u
<1>3. PICK b \in Int : /\ 3 <= b /\ b <= m /\ m <= i /\ m \in Int
                      /\ DataHead(b) /\ u.part_data = SubSeq(body, b, m - 1)
  BY <1>2
<1>4. /\ body \in Seq(STRING) /\ i \in Int /\ i <= Len(body) /\ Len(body) \in Nat
      /\ i' \in 1 .. Len(body) + 1
  BY <1>1, NextChar DEF IInv, ParserType
<1>5. b \in 1 .. Len(body) + 1 /\ m - 1 \in Int /\ m = (m - 1) + 1 /\ b <= i'
      /\ i - 1 \in Int /\ m - 1 <= i - 1 /\ i - 1 <= Len(body) /\ m - 1 <= i
      /\ b < i' /\ i' - 1 = i /\ i' - 2 = i - 1
  BY <1>1, <1>3, <1>4
<1>6. SubSeq(body, b, m - 1) \o SubSeq(body, m, i - 1) = SubSeq(body, b, i - 1)
  BY <1>3, <1>4, <1>5, Adjacent
<1>7. SubSeq(body, b, m - 1) \o SubSeq(body, m, i) = SubSeq(body, b, i)
  BY <1>3, <1>4, <1>5, Adjacent
<1>8. Shape(user')
  BY <1>1, <1>2, CallbackData
<1>9. CASE /\ body[i] = CR /\ user' = part_data_cb(u, SubSeq(body, m, i - 1))
           /\ state' = "s_part_data_almost_boundary"
  <2>1. user'.part_data = SubSeq(body, b, i - 1)
    <3>1. user'.part_data = u.part_data \o SubSeq(body, m, i - 1)
      BY <1>2, <1>9, CallbackData
    <3>2. QED
      BY <1>3, <1>6, <3>1
  <2>2. AfterCR(b)'
    BY <1>1, <1>5, <1>9, <2>1 DEF AfterCR
  <2>3. QED
    BY <1>1, <1>3, <1>4, <1>5, <1>8, <1>9, <2>2, InData DEF DataStates
<1>10. CASE /\ user' = part_data_cb(u, IF i = Len(body) THEN SubSeq(body, m, i)
                                      ELSE << >>)
            /\ mark' = m /\ state' = "s_part_data"
  <2>1. CASE i = Len(body)
    <3>1. user'.part_data = SubSeq(body, b, i)
      <4>1. user'.part_data = u.part_data \o SubSeq(body, m, i)
        BY <1>2, <1>10, <2>1, CallbackData
      <4>2. QED
        BY <1>3, <1>7, <4>1
    <3>2. i' > Len(body)
      BY <1>1, <1>4, <2>1
    <3>3. Plainly(b)'
      BY <1>1, <1>5, <3>1, <3>2 DEF Plainly
    <3>4. QED
      BY <1>1, <1>3, <1>4, <1>5, <1>8, <1>10, <3>3, InData DEF DataStates
  <2>2. CASE i # Len(body)
    <3>1. user'.part_data = SubSeq(body, b, m - 1)
      <4>1. user'.part_data = u.part_data \o << >>
        BY <1>2, <1>10, <2>2, CallbackData
      <4>2. SubSeq(body, b, m - 1) \in Seq(STRING)
        BY <1>3, <1>4, <1>5, PieceOf
      <4>3. QED
        BY <1>3, <4>1, <4>2, ConcatEmptySeq
    <3>2. ~(i' > Len(body)) /\ m \in b .. i'
      BY <1>1, <1>3, <1>4, <2>2
    <3>3. Plainly(b)'
      BY <1>1, <1>10, <3>1, <3>2 DEF Plainly
    <3>4. QED
      BY <1>1, <1>3, <1>4, <1>5, <1>8, <1>10, <3>3, InData DEF DataStates
  <2>3. QED
    BY <2>1, <2>2
<1>11. QED
  BY <1>1, <1>9, <1>10

(* After a CR: LF may begin a delimiter, else the CR is data.              *)
LEMMA AlmostStep == ASSUME IInv, s_part_data_almost_boundary PROVE IInv'
<1>1. /\ Turn /\ state = "s_part_data_almost_boundary" /\ body' = body
      /\ \/ /\ body[i] = LF /\ i' = i + 1 /\ state' = "s_part_data_boundary"
            /\ lookbehind' = <<CR, LF>> /\ index' = 0 /\ user' = user
         \/ /\ user' = part_data_cb(user, <<CR>>) /\ mark' = i /\ i' = i
            /\ state' = "s_part_data"
  BY DEF s_part_data_almost_boundary, Goto, Again, c
<1>2. PICK b \in 3 .. i : DataFrom(b)
  BY <1>1 DEF IInv, Reading, DataStates
<1>3. /\ DataHead(b) /\ b < i /\ body[i - 1] = CR
      /\ user.part_data = SubSeq(body, b, i - 2)
  BY <1>1, <1>2 DEF DataFrom, AfterCR, DataHead
<1>4. /\ body \in Seq(STRING) /\ Shape(user) /\ i \in Int /\ i <= Len(body)
      /\ Len(body) \in Nat /\ i \in 1 .. Len(body) + 1 /\ i + 1 \in 1 .. Len(body) + 1
  BY <1>1, NextChar DEF IInv, ParserType
<1>5. /\ b \in Int /\ 3 <= b /\ b \in 1 .. Len(body) + 1 /\ i - 1 \in 1 .. Len(body)
      /\ i - 1 \in Int /\ i - 2 \in Int /\ i = (i - 1) + 1 /\ i - 1 = (i - 2) + 1
      /\ b <= i - 1 /\ i - 2 <= i - 1 /\ i - 1 <= Len(body) /\ 1 <= i - 1 /\ b <= i
  BY <1>2, <1>3, <1>4
<1>6. CASE /\ body[i] = LF /\ i' = i + 1 /\ state' = "s_part_data_boundary"
           /\ lookbehind' = <<CR, LF>> /\ index' = 0 /\ user' = user
  <2>1. SubSeq(body, i - 1, i) = <<CR, LF>>
    BY <1>3, <1>4, <1>5, <1>6, TwoOf
  <2>2. SubSeq(<<CR, LF>>, 1, 2) = <<CR, LF>>
    <3>1. SubSeq(body, i - 1, i) \in Seq(STRING)
      BY <1>4, <1>5, PieceOf
    <3>2. <<CR, LF>> \in Seq(STRING) /\ Len(<<CR, LF>>) = 2
      BY <2>1, <3>1
    <3>3. QED
      BY <3>2, SubSeqFull
  <2>3. Held' = <<CR, LF>>
    BY <1>6, <2>2 DEF Held
  <2>4. /\ i' - index' - 2 = i - 1 /\ i' - 1 = i /\ i' - index' - 3 = i - 2
        /\ b + index' + 2 <= i' /\ b <= i' /\ index' \in Nat
    BY <1>3, <1>4, <1>5, <1>6
  <2>5. InDelimiter(b)'
    BY <1>1, <1>3, <1>6, <2>1, <2>3, <2>4 DEF InDelimiter
  <2>6. QED
    BY <1>1, <1>3, <1>4, <1>5, <1>6, <2>4, <2>5, InData DEF DataStates
<1>7. CASE /\ user' = part_data_cb(user, <<CR>>) /\ mark' = i /\ i' = i
           /\ state' = "s_part_data"
  <2>1. SubSeq(body, i - 1, i - 1) = <<CR>>
    BY <1>3, <1>4, <1>5, OneOf
  <2>2. SubSeq(body, b, i - 2) \o SubSeq(body, i - 1, i - 1) = SubSeq(body, b, i - 1)
    BY <1>4, <1>5, Adjacent
  <2>3. user'.part_data = SubSeq(body, b, i - 1) /\ Shape(user')
    <3>1. user'.part_data = user.part_data \o <<CR>> /\ Shape(user')
      BY <1>4, <1>7, CallbackData
    <3>2. QED
      BY <1>3, <2>1, <2>2, <3>1
  <2>4. mark' \in b .. i' /\ ~(i' > Len(body))
    BY <1>4, <1>5, <1>7
  <2>5. Plainly(b)'
    BY <1>1, <1>7, <2>3, <2>4 DEF Plainly
  <2>6. QED
    BY <1>1, <1>3, <1>4, <1>5, <1>7, <2>3, <2>5, InData DEF DataStates
<1>8. QED
  BY <1>1, <1>6, <1>7

(* The end of a part: its data is given to the form.                       *)
LEMMA DataEnds ==
    ASSUME Shape(user), part_data_end_cb
    PROVE  Shape(user') /\ user'.part_data = << >>
<1>1. user' = [user EXCEPT !.name = None, !.filename = None, !.part_data = << >>]
  BY DEF part_data_end_cb
<1>2. QED
  BY <1>1 DEF Shape

(* In what may be a delimiter: the text held back is data after all, or    *)
(* one character longer, or the end of the part.                           *)
LEMMA DelimiterStep == ASSUME IInv, s_part_data_boundary PROVE IInv'
<1>1. /\ Turn /\ state = "s_part_data_boundary" /\ body' = body
      /\ \/ /\ user' = part_data_cb(user, Held) /\ mark' = i /\ i' = i
            /\ state' = "s_part_data"
         \/ /\ lookbehind' = Append(Held, body[i]) /\ index' = index + 1
            /\ i' = i + 1
            /\ \/ part_data_end_cb /\ state' = "s_part_data_almost_end"
               \/ user' = user /\ state' = "s_part_data_boundary"
  BY DEF s_part_data_boundary, Goto, Again, c
<1>2. PICK b \in 3 .. i : DataFrom(b)
  BY <1>1 DEF IInv, Reading, DataStates
<1>3. /\ DataHead(b) /\ index \in Nat /\ b + index + 2 <= i
      /\ Held = SubSeq(body, i - index - 2, i - 1)
      /\ user.part_data = SubSeq(body, b, i - index - 3)
  BY <1>1, <1>2 DEF DataFrom, InDelimiter, DataHead
<1>4. /\ body \in Seq(STRING) /\ Shape(user) /\ i \in Int /\ i <= Len(body)
      /\ Len(body) \in Nat /\ i \in 1 .. Len(body) + 1 /\ i + 1 \in 1 .. Len(body) + 1
      /\ i \in 1 .. Len(body)
  BY <1>1, NextChar DEF IInv, ParserType
<1> DEFINE h == i - index - 2
           k == i - index - 3
<1>5. /\ h \in Int /\ k \in Int /\ h = k + 1 /\ 3 <= h /\ b <= h /\ k <= i - 1
      /\ h \in 1 .. Len(body) + 1 /\ h <= i /\ i - h = index + 2
      /\ b \in Int /\ 3 <= b /\ b \in 1 .. Len(body) + 1 /\ b <= i
      /\ i - 1 \in Int /\ i = (i - 1) + 1 /\ i - 1 <= Len(body) /\ i - 1 <= i
      /\ h <= i - 1 /\ 1 <= h
  BY <1>2, <1>3, <1>4
<1>6. Held = SubSeq(body, h, i - 1) /\ user.part_data = SubSeq(body, b, k)
  BY <1>3
<1>7. (i + 1) - (index + 1) - 2 = h /\ (i + 1) - (index + 1) - 3 = k
  BY <1>3, <1>4
<1> HIDE DEF h, k
<1>8. CASE /\ user' = part_data_cb(user, Held) /\ mark' = i /\ i' = i
           /\ state' = "s_part_data"
  <2>1. SubSeq(body, b, k) \o SubSeq(body, h, i - 1) = SubSeq(body, b, i - 1)
    BY <1>4, <1>5, Adjacent
  <2>2. user'.part_data = user.part_data \o Held /\ Shape(user')
    BY <1>4, <1>8, CallbackData
  <2>3. user'.part_data = SubSeq(body, b, i - 1)
    BY <1>6, <2>1, <2>2
  <2>4. mark' \in b .. i' /\ ~(i' > Len(body))
    BY <1>4, <1>5, <1>8
  <2>5. Plainly(b)'
    BY <1>1, <1>8, <2>3, <2>4 DEF Plainly
  <2>6. QED
    BY <1>1, <1>3, <1>4, <1>5, <1>8, <2>2, <2>5, InData DEF DataStates
<1>9. CASE i' = i + 1 /\ part_data_end_cb /\ state' = "s_part_data_almost_end"
  <2>1. Shape(user') /\ user'.part_data = << >>
    BY <1>4, <1>9, DataEnds
  <2>2. EmptyLine'
    BY <1>9 DEF EmptyLine
  <2>3. QED
    BY <1>1, <1>4, <1>9, <2>1, <2>2, OutsideData DEF DataStates
<1>10. CASE /\ lookbehind' = Append(Held, body[i]) /\ index' = index + 1
            /\ i' = i + 1 /\ user' = user /\ state' = "s_part_data_boundary"
  <2>1. Held \in Seq(STRING) /\ Len(Held) = index + 2
    <3>1. /\ SubSeq(body, h, i - 1) \in Seq(STRING)
          /\ Len(SubSeq(body, h, i - 1)) = (i - 1) - h + 1
      BY <1>4, <1>5, PieceOf
    <3>2. (i - 1) - h + 1 = index + 2
      BY <1>3, <1>4, <1>5
    <3>3. QED
      BY <1>6, <3>1, <3>2
  <2>2. body[i] \in STRING
    BY <1>4
  <2>3. /\ lookbehind' = Held \o <<body[i]>>
        /\ lookbehind' \in Seq(STRING) /\ Len(lookbehind') = 2 + index'
    <3> DEFINE H == Held
               x == body[i]
    <3>1. H \in Seq(STRING) /\ x \in STRING /\ Len(H) = index + 2
      BY <2>1, <2>2
    <3> HIDE DEF H, x
    <3>2. /\ Append(H, x) = H \o <<x>> /\ Append(H, x) \in Seq(STRING)
          /\ Len(Append(H, x)) = Len(H) + 1
      BY ZenonT(30), <3>1, AppendIsConcat, AppendProperties
    <3>3. Len(H) + 1 = 2 + (index + 1)
      BY <1>3, <3>1
    <3>4. QED
      BY <1>10, <3>2, <3>3 DEF H, x
  <2>4. Held' = lookbehind'
    BY <2>3, SubSeqFull DEF Held
  <2>5. SubSeq(body, h, i - 1) \o SubSeq(body, i, i) = SubSeq(body, h, i)
    BY <1>4, <1>5, Adjacent
  <2>6. SubSeq(body, i, i) = <<body[i]>>
    BY <1>4, OneOf
  <2>7. Held' = SubSeq(body, h, i)
    BY <1>6, <2>3, <2>4, <2>5, <2>6
  <2>8. /\ i' - index' - 2 = h /\ i' - index' - 3 = k /\ i' - 1 = i
        /\ index' \in Nat /\ b + index' + 2 <= i' /\ b <= i'
    BY <1>3, <1>4, <1>5, <1>7, <1>10
  <2>9. InDelimiter(b)'
    BY <1>1, <1>6, <1>10, <2>7, <2>8 DEF InDelimiter
  <2>10. QED
    BY <1>1, <1>3, <1>4, <1>5, <1>10, <2>8, <2>9, InData DEF DataStates
<1>11. QED
  BY <1>1, <1>8, <1>9, <1>10

-----------------------------------------------------------------------------
(* Invariance                                                              *)

(* The parser begins outside of any part.                                  *)
LEMMA Initially == Init => IInv
<1> SUFFICES ASSUME Init PROVE IInv
  OBVIOUS
<1>1. body \in Seq(STRING)
  BY InputsAssumption DEF Init
<1>2. i \in 1 .. Len(body) + 1
  BY <1>1 DEF Init
<1>3. Shape(user) /\ user.part_data = << >>
  BY DEF Init, NoUser, Shape
<1>4. QED
  BY <1>1, <1>2, <1>3 DEF Init, IInv, ParserType, BetweenParts, EmptyLine,
                          Reading, DataStates

(* Every turn of the loop keeps the invariant.                             *)
LEMMA Inductive == IInv /\ [Next]_vars => IInv'
  BY LineStep, FieldStep, EmptyLineStep, ValueStep, DataStep, AlmostStep,
     DelimiterStep, StillStep DEF Next

(* The invariant gives the property: the data began at b.                  *)
LEMMA DataComplete == IInv => DataKept
<1> SUFFICES ASSUME IInv, state \in DataStates
             PROVE  LET text == user.part_data \o Pending
                        from == i - Len(text)
                    IN  /\ from > 2
                        /\ SubSeq(body, from - 2, from - 1) = CRLF
                        /\ text = SubSeq(body, from, i - 1)
  BY DEF DataKept, DataStates
<1>1. PICK b \in 3 .. i : DataFrom(b)
  BY DEF IInv, Reading
<1>2. /\ body \in Seq(STRING) /\ i \in Int /\ i <= Len(body) + 1 /\ Len(body) \in Nat
  BY DEF IInv, ParserType
<1>3. /\ b \in Int /\ 3 <= b /\ b <= i /\ b \in 1 .. Len(body) + 1
      /\ i - 1 \in Int /\ i - 1 <= Len(body) /\ 1 <= b
  BY <1>1, <1>2
<1>4. user.part_data \o Pending = SubSeq(body, b, i - 1)
  <2>1. CASE state = "s_part_data"
    <3>1. CASE i > Len(body)
      <4>1. Pending = << >> /\ user.part_data = SubSeq(body, b, i - 1)
        BY <1>1, <2>1, <3>1 DEF DataFrom, Plainly, Pending
      <4>2. SubSeq(body, b, i - 1) \in Seq(STRING)
        BY <1>2, <1>3, PieceOf
      <4>3. QED
        BY <4>1, <4>2, ConcatEmptySeq
    <3>2. CASE ~(i > Len(body))
      <4>1. /\ Pending = SubSeq(body, mark, i - 1) /\ mark \in b .. i
            /\ user.part_data = SubSeq(body, b, mark - 1)
        BY <1>1, <2>1, <3>2 DEF DataFrom, Plainly, Pending, Marked
      <4>2. /\ mark \in Int /\ mark - 1 \in Int /\ mark = (mark - 1) + 1
            /\ b <= mark /\ mark - 1 <= i - 1
        BY <1>2, <1>3, <4>1
      <4>3. SubSeq(body, b, mark - 1) \o SubSeq(body, mark, i - 1)
              = SubSeq(body, b, i - 1)
        BY <1>2, <1>3, <4>2, Adjacent
      <4>4. QED
        BY <4>1, <4>3
    <3>3. QED
      BY <3>1, <3>2
  <2>2. CASE state = "s_part_data_almost_boundary"
    <3>1. /\ Pending = <<CR>> /\ b < i /\ body[i - 1] = CR
          /\ user.part_data = SubSeq(body, b, i - 2)
      BY <1>1, <2>2 DEF DataFrom, AfterCR, Pending
    <3>2. /\ i - 1 \in 1 .. Len(body) /\ i - 2 \in Int /\ i - 1 = (i - 2) + 1
          /\ b <= i - 1 /\ i - 2 <= i - 1
      BY <1>2, <1>3, <3>1
    <3>3. SubSeq(body, i - 1, i - 1) = <<CR>>
      BY <1>2, <3>1, <3>2, OneOf
    <3>4. SubSeq(body, b, i - 2) \o SubSeq(body, i - 1, i - 1) = SubSeq(body, b, i - 1)
      BY <1>2, <1>3, <3>2, Adjacent
    <3>5. QED
      BY <3>1, <3>3, <3>4
  <2>3. CASE state = "s_part_data_boundary"
    <3> DEFINE h == i - index - 2
               k == i - index - 3
    <3>1. /\ Pending = Held /\ index \in Nat /\ b + index + 2 <= i
          /\ Held = SubSeq(body, h, i - 1) /\ user.part_data = SubSeq(body, b, k)
      BY <1>1, <2>3 DEF DataFrom, InDelimiter, Pending
    <3>2. h \in Int /\ k \in Int /\ h = k + 1 /\ b <= h /\ k <= i - 1
      BY <1>2, <1>3, <3>1
    <3> HIDE DEF h, k
    <3>3. SubSeq(body, b, k) \o SubSeq(body, h, i - 1) = SubSeq(body, b, i - 1)
      BY <1>2, <1>3, <3>2, Adjacent
    <3>4. QED
      BY <3>1, <3>3
  <2>4. QED
    BY <2>1, <2>2, <2>3 DEF DataStates
<1>5. i - Len(SubSeq(body, b, i - 1)) = b
  <2>1. Len(SubSeq(body, b, i - 1)) = IF b <= i - 1 THEN (i - 1) - b + 1 ELSE 0
    BY <1>2, <1>3, PieceOf
  <2>2. QED
    BY <1>2, <1>3, <2>1
<1>6. SubSeq(body, b - 2, b - 1) = CRLF
  <2>1. /\ b - 2 \in Int /\ b - 1 \in Int /\ b - 1 = (b - 2) + 1 /\ 1 <= b - 2
        /\ b - 1 <= Len(body)
    BY <1>2, <1>3
  <2>2. SubSeq(body, b - 2, b - 1) = <<body[b - 2], body[b - 1]>>
    BY <1>2, <2>1, TwoOf
  <2>3. QED
    BY <1>1, <2>2 DEF DataFrom, CRLF
<1>7. b > 2
  BY <1>3
<1>8. QED
  BY <1>4, <1>5, <1>6, <1>7

(* multipart_parser_execute keeps the data of a part to the character,     *)
(* whatever the body and the boundary: what part_data_cb has got and what  *)
(* mark and lookbehind hold back is the text since the empty line.         *)
THEOREM NoCharacterLost == Spec => []DataKept
<1>1. Spec => []IInv
  BY Initially, Inductive, PTL DEF Spec
<1>2. QED
  BY <1>1, DataComplete, PTL
=============================================================================
