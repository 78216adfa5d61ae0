--------------------------- MODULE ResponseProof ---------------------------
(***************************************************************************)
(* What an answer allocates is freed once, and not before the reply, for   *)
(* every sequence of calls a handler may make and every way its reads,     *)
(* writes, queries and fetches may end.                                    *)
(*                                                                         *)
(* The invariant is a ledger: every object is freed by exactly one entry   *)
(* of cb_list_, by the callback of the series, or is a leak FreedOnce      *)
(* names; and every task in the series has the object its callback uses.   *)
(*                                                                         *)
(* What the client reads is told from what is still to come.  SInv says    *)
(* that the tasks queued are those the calls so far have added, less the   *)
(* ones that ended, in the order of the calls; AInv says that the body is  *)
(* what the calls said at once followed by what the ended tasks said, and  *)
(* that a form of multipart parts is written up to the part being read.    *)
(* When the series is empty both say the answer is complete.               *)
(***************************************************************************)
EXTENDS Response, FiniteSetTheorems, SequenceTheorems, NaturalsInduction,
        WellFoundedInduction, TLAPS

Managed == {"string", "buf", "save"}
Kinds == Managed \cup {"encoder", "content", "proxy"}
Words == {"params", "file", "end"}
Object == [kind : Kinds, frees : Nat, text : Seq(Words)]
TaskKinds == {"pread", "pwrite", "mpread", "http", "mysql", "mysqlfunc",
              "redis", "timer"}
Subtask == [kind : TaskKinds, of : Nat, obj : Nat, last : BOOLEAN]

IsSeq(s) == s \in Seq({s[j] : j \in 1 .. Len(s)})

ServerType ==
    /\ calls \in Programs /\ at \in 0 .. Len(calls)
    /\ pc \in {"handler", "series", "callbacks", "done", "undefined"}
    /\ heap \in Seq(Object) /\ cbs \in Seq(Nat) /\ tasks \in Seq(Subtask)
    /\ IsSeq(body)
    /\ outcome \in [1 .. Len(calls) -> Seq(BOOLEAN)]
    /\ encoder \in Nat /\ context \in Nat

Registered(o) == \E j \in 1 .. Len(cbs) : cbs[j] = o

(* cb_list_ frees every object but those of the series, and none twice.    *)
Owned ==
    /\ \A j \in 1 .. Len(cbs) :
           cbs[j] \in 1 .. Len(heap) /\ heap[cbs[j]].kind \in Managed \cup {"proxy"}
    /\ \A i, j \in 1 .. Len(cbs) : cbs[i] = cbs[j] => i = j
    /\ \A o \in 1 .. Len(heap) : heap[o].kind \in Managed => Registered(o)

OfSeries ==
    /\ encoder # Null => encoder \in 1 .. Len(heap) /\ heap[encoder].kind = "encoder"
    /\ context # Null => context \in 1 .. Len(heap) /\ heap[context].kind = "content"

(* The context of a proxy call is freed if its fetch succeeded.            *)
Fetches == \E k \in 1 .. Len(calls) : Fetched(k)

Proxies ==
    /\ \A o, q \in 1 .. Len(heap) :
           heap[o].kind = "proxy" /\ heap[q].kind = "proxy" => o = q
    /\ \A o \in 1 .. Len(heap) : heap[o].kind = "proxy" =>
           /\ Registered(o) <=> Fetches
           /\ \E k \in 1 .. at : calls[k].op = "http"

(* The tasks of the series.                                                *)
Holds(t, kind) == t.obj \in 1 .. Len(heap) /\ heap[t.obj].kind = kind

TaskOk(t) ==
    /\ t.of \in 1 .. at
    /\ t.kind = "http" <=> calls[t.of].op = "http"
    /\ t.kind = "http" => Holds(t, "proxy") /\ outcome[t.of] = << >>
    /\ t.kind = "pread" => Holds(t, "buf")
    /\ t.kind = "pwrite" => Holds(t, "save")
    /\ t.kind = "mpread" => calls[t.of].op = "multipart" /\ context # Null

Waiting ==
    /\ \A j \in 1 .. Len(tasks) : TaskOk(tasks[j])
    /\ \A i, j \in 1 .. Len(tasks) :
           tasks[i].kind = "http" /\ tasks[j].kind = "http" => i = j
    /\ \A k \in 1 .. Len(calls) : k > at => outcome[k] = << >>

NothingFreed == \A o \in 1 .. Len(heap) : heap[o].frees = 0

(* The body: a form is complete when it is appended.                       *)
OneForm == \A j, k \in Multiparts : j = k

PieceOk(x) ==
    /\ x.obj \in 0 .. Len(heap)
    /\ OneForm /\ x.obj # Null /\ heap[x.obj].kind = "content" =>
           /\ pc = "series" /\ x.len = Len(heap[x.obj].text)
           /\ \A j \in 1 .. Len(tasks) : tasks[j].kind # "mpread"

Pieces ==
    /\ \A j \in 1 .. Len(body) : PieceOk(body[j])
    /\ OneForm => \A i, j \in 1 .. Len(tasks) :
           i < j /\ tasks[i].kind = "mpread" /\ tasks[j].kind = "mpread"
               => ~tasks[i].last

Answering == NothingFreed /\ Waiting /\ Pieces

(* The loop over cb_list_ has freed what it has passed.                    *)
Freeing ==
    /\ cb_end \in Nat /\ cb \in 1 .. cb_end + 1
    /\ cb_end <= Len(cbs) /\ Len(cbs) <= cb_end + 1
    /\ \A j \in 1 .. Len(cbs) :
           heap[cbs[j]].frees = IF j < cb THEN 1 ELSE 0
    /\ \A o \in 1 .. Len(heap) : ~Registered(o) => heap[o].frees = 0
    /\ cb_end < Len(cbs) =>
           /\ cbs[Len(cbs)] = Len(heap) /\ heap[Len(heap)].kind = "string"
           /\ \A j \in cb .. cb_end : heap[cbs[j]].kind # "proxy"

(* The ledger is closed: the leaks are those that Forgotten names, exactly. *)
Ledger ==
    /\ \A o \in 1 .. Len(heap) : heap[o].frees <= 1
    /\ pc = "done" => \A o \in 1 .. Len(heap) : Live(o) <=> Forgotten(o)

IInv ==
    /\ ServerType
    /\ pc \in {"handler", "series", "callbacks"} => Owned /\ OfSeries /\ Proxies
    /\ pc \in {"handler", "series"} => Answering
    /\ pc = "callbacks" => Freeing
    /\ pc \in {"done", "undefined"} => Ledger

-----------------------------------------------------------------------------
(* Lists                                                                   *)

(* One more element, of a known type.                                      *)
LEMMA OneMore ==
    ASSUME NEW S, NEW s \in Seq(S), NEW x \in S
    PROVE  /\ Append(s, x) \in Seq(S) /\ Len(s) \in Nat
           /\ Len(Append(s, x)) = Len(s) + 1
           /\ \A j \in 1 .. Len(s) : Append(s, x)[j] = s[j]
           /\ Append(s, x)[Len(s) + 1] = x
  OBVIOUS

(* Several more.                                                           *)
LEMMA SeveralMore ==
    ASSUME NEW S, NEW s \in Seq(S), NEW u \in Nat, NEW t \in [1 .. u -> S]
    PROVE  /\ s \o t \in Seq(S) /\ Len(s) \in Nat /\ Len(s \o t) = Len(s) + u
           /\ \A j \in 1 .. Len(s) : (s \o t)[j] = s[j]
           /\ \A j \in 1 .. u : (s \o t)[Len(s) + j] = t[j]
<1>1. t \in Seq(S) /\ Len(t) = u
  OBVIOUS
<1>2. QED
  BY SMTT(30), <1>1, ConcatProperties

(* All but the first.                                                      *)
LEMMA OneLess ==
    ASSUME NEW S, NEW s \in Seq(S), s # << >>
    PROVE  /\ Tail(s) \in Seq(S) /\ Len(s) \in Nat /\ Len(s) >= 1
           /\ Len(Tail(s)) = Len(s) - 1 /\ s[1] \in S
           /\ \A j \in 1 .. Len(Tail(s)) : Tail(s)[j] = s[j + 1] /\ j + 1 \in 2 .. Len(s)
<1>1. Len(s) \in Nat \ {0}
  BY EmptySeq
<1>2. QED
  BY <1>1, HeadTailProperties

(* One more piece of the body.                                             *)
LEMMA OneMorePiece ==
    ASSUME NEW s, IsSeq(s), NEW x
    PROVE  /\ IsSeq(Append(s, x)) /\ Len(s) \in Nat
           /\ Len(Append(s, x)) = Len(s) + 1
           /\ \A j \in 1 .. Len(s) : Append(s, x)[j] = s[j]
           /\ Append(s, x)[Len(s) + 1] = x
<1> DEFINE S == {s[j] : j \in 1 .. Len(s)} \cup {x}
           t == Append(s, x)
<1>1. s \in Seq(S) /\ x \in S
  BY DEF IsSeq
<1> HIDE DEF S
<1>2. /\ t \in Seq(S) /\ Len(s) \in Nat /\ Len(t) = Len(s) + 1
      /\ \A j \in 1 .. Len(s) : t[j] = s[j]
      /\ t[Len(s) + 1] = x
  BY <1>1, OneMore
<1> HIDE DEF t
<1>3. t \in Seq({t[j] : j \in 1 .. Len(t)})
  BY <1>2
<1>4. QED
  BY <1>2, <1>3 DEF IsSeq, t

-----------------------------------------------------------------------------
(* The ledger                                                              *)

(* n objects are allocated and the first m of them registered, in order.   *)
Enter(n, m) ==
    /\ heap' \in Seq(Object) /\ cbs' \in Seq(Nat)
    /\ Len(heap') = Len(heap) + n /\ Len(cbs') = Len(cbs) + m
    /\ \A o \in 1 .. Len(heap) : heap'[o].kind = heap[o].kind
    /\ \A j \in 1 .. n : heap'[Len(heap) + j].kind \in Managed <=> j <= m
    /\ \A j \in 1 .. Len(cbs) : cbs'[j] = cbs[j]
    /\ \A j \in 1 .. m : cbs'[Len(cbs) + j] = Len(heap) + j

(* Nothing is freed.                                                       *)
Grow(n, m) ==
    /\ Enter(n, m)
    /\ \A o \in 1 .. Len(heap) : heap'[o].frees = heap[o].frees
    /\ \A j \in 1 .. n : heap'[Len(heap) + j].frees = 0

(* What is registered is what was and the new objects.                     *)
LEMMA Registers ==
    ASSUME ServerType, Owned, NEW n \in Nat, NEW m \in Nat, m <= n, Enter(n, m)
    PROVE  /\ Owned'
           /\ \A o \in 1 .. Len(heap) : Registered(o)' <=> Registered(o)
           /\ \A o \in 1 .. Len(heap') :
                  o \in 1 .. Len(heap) \/ \E j \in 1 .. n : o = Len(heap) + j
<1>1. Len(heap) \in Nat /\ Len(cbs) \in Nat
  BY DEF ServerType
<1>2. \A j \in 1 .. Len(cbs') :
          j \in 1 .. Len(cbs) \/ \E i \in 1 .. m : j = Len(cbs) + i
  <2> SUFFICES ASSUME NEW j \in 1 .. Len(cbs'), j \notin 1 .. Len(cbs)
               PROVE  \E i \in 1 .. m : j = Len(cbs) + i
    OBVIOUS
  <2>1. j - Len(cbs) \in 1 .. m /\ j = Len(cbs) + (j - Len(cbs))
    BY <1>1 DEF Enter
  <2>2. QED
    BY <2>1
<1>3. \A o \in 1 .. Len(heap') :
          o \in 1 .. Len(heap) \/ \E i \in 1 .. n : o = Len(heap) + i
  <2> SUFFICES ASSUME NEW o \in 1 .. Len(heap'), o \notin 1 .. Len(heap)
               PROVE  \E i \in 1 .. n : o = Len(heap) + i
    OBVIOUS
  <2>1. o - Len(heap) \in 1 .. n /\ o = Len(heap) + (o - Len(heap))
    BY <1>1 DEF Enter
  <2>2. QED
    BY <2>1
<1>4. /\ \A j \in 1 .. Len(cbs) : cbs'[j] = cbs[j] /\ cbs[j] \in 1 .. Len(heap)
      /\ \A j \in 1 .. m : cbs'[Len(cbs) + j] = Len(heap) + j
      /\ \A j \in 1 .. Len(cbs) : j \in 1 .. Len(cbs')
      /\ \A j \in 1 .. m : Len(cbs) + j \in 1 .. Len(cbs')
  BY <1>1 DEF Owned, Enter
<1>5. \A o \in 1 .. Len(heap) : Registered(o)' <=> Registered(o)
  <2> SUFFICES ASSUME NEW o \in 1 .. Len(heap)
               PROVE  Registered(o)' <=> Registered(o)
    OBVIOUS
  <2>1. ASSUME Registered(o) PROVE Registered(o)'
    BY <1>4, <2>1 DEF Registered
  <2>2. ASSUME NEW j \in 1 .. Len(cbs'), cbs'[j] = o PROVE Registered(o)
    <3>1. CASE j \in 1 .. Len(cbs)
      BY <1>4, <2>2, <3>1 DEF Registered
    <3>2. CASE \E i \in 1 .. m : j = Len(cbs) + i
      <4>1. PICK i \in 1 .. m : j = Len(cbs) + i
        BY <3>2
      <4>2. o = Len(heap) + i
        BY <1>4, <2>2, <4>1
      <4>3. QED
        BY <1>1, <4>2
    <3>3. QED
      BY <1>2, <3>1, <3>2
  <2>3. QED
    BY <2>1, <2>2 DEF Registered
<1>6. ASSUME NEW j \in 1 .. m, NEW o, o = Len(heap) + j PROVE Registered(o)'
  BY <1>4, <1>6 DEF Registered
<1>7. ASSUME NEW j \in 1 .. Len(cbs')
      PROVE  /\ cbs'[j] \in 1 .. Len(heap')
             /\ heap'[cbs'[j]].kind \in Managed \cup {"proxy"}
  <2>1. CASE j \in 1 .. Len(cbs)
    <3>1. cbs'[j] = cbs[j] /\ cbs[j] \in 1 .. Len(heap)
          /\ heap[cbs[j]].kind \in Managed \cup {"proxy"}
      BY <1>4, <2>1 DEF Owned
    <3>2. cbs[j] \in 1 .. Len(heap') /\ heap'[cbs[j]].kind = heap[cbs[j]].kind
      BY <1>1, <3>1 DEF Enter
    <3>3. QED
      BY <3>1, <3>2
  <2>2. CASE \E i \in 1 .. m : j = Len(cbs) + i
    <3>1. PICK i \in 1 .. m : j = Len(cbs) + i
      BY <2>2
    <3>2. i \in 1 .. n /\ i <= m
      OBVIOUS
    <3>3. cbs'[j] = Len(heap) + i /\ heap'[Len(heap) + i].kind \in Managed
      BY <1>4, <3>1, <3>2 DEF Enter
    <3>4. Len(heap) + i \in 1 .. Len(heap')
      BY <1>1, <3>2 DEF Enter
    <3>5. QED
      BY <3>3, <3>4
  <2>3. QED
    BY <1>2, <2>1, <2>2
<1>8. ASSUME NEW i \in 1 .. Len(cbs'), NEW j \in 1 .. Len(cbs'), cbs'[i] = cbs'[j]
      PROVE  i = j
  <2>1. ASSUME NEW k \in 1 .. Len(cbs')
        PROVE  \/ k \in 1 .. Len(cbs) /\ cbs'[k] = cbs[k] /\ cbs'[k] <= Len(heap)
               \/ /\ k = Len(cbs) + (cbs'[k] - Len(heap))
                  /\ cbs'[k] > Len(heap) /\ cbs'[k] \in Int
    <3>1. CASE k \in 1 .. Len(cbs)
      BY <1>1, <1>4, <3>1
    <3>2. CASE \E l \in 1 .. m : k = Len(cbs) + l
      <4>1. PICK l \in 1 .. m : k = Len(cbs) + l
        BY <3>2
      <4>2. cbs'[k] = Len(heap) + l
        BY <1>4, <4>1
      <4>3. QED
        BY <1>1, <4>1, <4>2
    <3>3. QED
      BY <1>2, <3>1, <3>2
  <2>2. CASE cbs'[i] <= Len(heap)
    <3>1. /\ i \in 1 .. Len(cbs) /\ cbs'[i] = cbs[i]
          /\ j \in 1 .. Len(cbs) /\ cbs'[j] = cbs[j]
      BY <1>1, <1>8, <2>1, <2>2
    <3>2. QED
      BY <1>8, <3>1 DEF Owned
  <2>3. CASE ~(cbs'[i] <= Len(heap))
    <3>1. /\ i = Len(cbs) + (cbs'[i] - Len(heap))
          /\ j = Len(cbs) + (cbs'[j] - Len(heap))
      BY <1>8, <2>1, <2>3
    <3>2. QED
      BY <1>8, <3>1
  <2>4. QED
    BY <2>2, <2>3
<1>9. ASSUME NEW o \in 1 .. Len(heap'), heap'[o].kind \in Managed
      PROVE  Registered(o)'
  <2>1. CASE o \in 1 .. Len(heap)
    BY <1>5, <1>9, <2>1 DEF Owned, Enter
  <2>2. CASE \E i \in 1 .. n : o = Len(heap) + i
    <3>1. PICK i \in 1 .. n : o = Len(heap) + i
      BY <2>2
    <3>2. i <= m
      BY <1>9, <3>1 DEF Enter
    <3>3. i \in 1 .. m
      BY <3>2
    <3>4. QED
      BY <1>6, <3>1, <3>3
  <2>3. QED
    BY <1>3, <2>1, <2>2
<1>10. Owned'
  BY <1>7, <1>8, <1>9 DEF Owned
<1>11. QED
  BY <1>3, <1>5, <1>10

(* No proxy call is made and none ends well: the contexts stay as they are.*)
LEMMA ProxiesKept ==
    ASSUME ServerType, Owned, Proxies, NEW n \in Nat, NEW m \in Nat, m <= n,
           Enter(n, m), calls' = calls, at' \in Nat, at <= at',
           Fetches' <=> Fetches,
           \A j \in 1 .. n : heap'[Len(heap) + j].kind # "proxy"
    PROVE  Proxies'
<1>1. /\ \A o \in 1 .. Len(heap) : Registered(o)' <=> Registered(o)
      /\ \A o \in 1 .. Len(heap') :
             o \in 1 .. Len(heap) \/ \E j \in 1 .. n : o = Len(heap) + j
  BY Registers
<1>2. ASSUME NEW o \in 1 .. Len(heap'), heap'[o].kind = "proxy"
      PROVE  o \in 1 .. Len(heap) /\ heap[o].kind = "proxy"
  BY <1>1, <1>2 DEF Enter
<1>3. ASSUME NEW o \in 1 .. Len(heap'), heap'[o].kind = "proxy"
      PROVE  (Registered(o)' <=> Fetches') /\ \E k \in 1 .. at' : calls'[k].op = "http"
  <2>1. o \in 1 .. Len(heap) /\ heap[o].kind = "proxy"
    BY <1>2, <1>3
  <2>2. PICK k \in 1 .. at : calls[k].op = "http"
    BY <2>1 DEF Proxies
  <2>3. k \in 1 .. at'
    BY <2>2 DEF ServerType
  <2>4. Registered(o) <=> Fetches
    BY <2>1 DEF Proxies
  <2>5. QED
    BY <1>1, <2>1, <2>2, <2>3, <2>4
<1>4. \A o, q \in 1 .. Len(heap') :
          heap'[o].kind = "proxy" /\ heap'[q].kind = "proxy" => o = q
  BY <1>2 DEF Proxies
<1>5. QED
  BY <1>3, <1>4 DEF Proxies

(* The encoder and the content stay what they are.                         *)
LEMMA OfSeriesKept ==
    ASSUME ServerType, OfSeries, NEW n \in Nat, NEW m \in Nat, Enter(n, m),
           UNCHANGED <<encoder, context>>
    PROVE  OfSeries'
<1>1. Len(heap) \in Nat
  BY DEF ServerType
<1>2. \A o \in 1 .. Len(heap) : o \in 1 .. Len(heap') /\ heap'[o].kind = heap[o].kind
  BY <1>1 DEF Enter
<1>3. QED
  BY <1>2 DEF OfSeries

(* Allocating frees nothing.                                               *)
LEMMA NothingFreedKept ==
    ASSUME ServerType, Owned, NothingFreed, NEW n \in Nat, NEW m \in Nat, m <= n,
           Grow(n, m)
    PROVE  NothingFreed'
<1>1. \A o \in 1 .. Len(heap') :
          o \in 1 .. Len(heap) \/ \E j \in 1 .. n : o = Len(heap) + j
  BY Registers DEF Grow
<1>2. QED
  BY <1>1 DEF NothingFreed, Grow, Enter

(* A waiting task keeps the object it will use.                            *)
LEMMA HoldsKept ==
    ASSUME ServerType, NEW n \in Nat, NEW m \in Nat, Enter(n, m)
    PROVE  \A t, kind : Holds(t, kind) =>
               t.obj \in 1 .. Len(heap') /\ heap'[t.obj].kind = kind
<1>1. Len(heap) \in Nat
  BY DEF ServerType
<1>2. \A o \in 1 .. Len(heap) : o \in 1 .. Len(heap') /\ heap'[o].kind = heap[o].kind
  BY <1>1 DEF Enter
<1>3. QED
  BY <1>2 DEF Holds

(* u tasks are pushed.                                                     *)
MoreTasks(u) ==
    /\ tasks' \in Seq(Subtask) /\ Len(tasks') = Len(tasks) + u
    /\ \A j \in 1 .. Len(tasks) : tasks'[j] = tasks[j]
    /\ \A j \in 1 .. u : LET t == tasks'[Len(tasks) + j] IN
           /\ t.of = at + 1
           /\ t.kind = "http" <=> calls[at + 1].op = "http"
           /\ t.kind = "http" =>
                  u = 1 /\ t.obj \in 1 .. Len(heap') /\ heap'[t.obj].kind = "proxy"
           /\ t.kind = "pread" => t.obj \in 1 .. Len(heap') /\ heap'[t.obj].kind = "buf"
           /\ t.kind = "pwrite" => t.obj \in 1 .. Len(heap') /\ heap'[t.obj].kind = "save"
           /\ t.kind = "mpread" =>
                  /\ calls[at + 1].op = "multipart" /\ context' # Null
                  /\ t.last => j = u

(* v pieces are appended that point into no content.                       *)
MorePieces(v) ==
    /\ IsSeq(body') /\ Len(body) \in Nat /\ Len(body') = Len(body) + v
    /\ \A j \in 1 .. Len(body) : body'[j] = body[j]
    /\ \A j \in 1 .. v : LET x == body'[Len(body) + j] IN
           /\ x.obj \in 0 .. Len(heap')
           /\ x.obj # Null => heap'[x.obj].kind # "content"

(* Positions in a list that has grown.                                     *)
LEMMA Positions ==
    ASSUME NEW a \in Nat, NEW u \in Nat, NEW j \in 1 .. a + u
    PROVE  j \in 1 .. a \/ \E i \in 1 .. u : j = a + i
<1>1. CASE j > a
  <2>1. j - a \in 1 .. u /\ j = a + (j - a)
    BY <1>1
  <2>2. QED
    BY <2>1
<1>2. QED
  BY <1>1

(* A call leaves every task with what it needs.                            *)
LEMMA CallWaiting ==
    ASSUME ServerType, Waiting, at < Len(calls), at' = at + 1,
           UNCHANGED <<calls, outcome>>, NEW n \in Nat, NEW m \in Nat, Grow(n, m),
           context # Null => context' # Null, NEW u \in Nat, MoreTasks(u)
    PROVE  Waiting'
<1>1. /\ Len(tasks) \in Nat /\ at \in Nat /\ at + 1 \in 1 .. Len(calls)
      /\ calls \in Programs /\ Len(calls) \in Nat
  BY ProgramsAssumption DEF ServerType
<1>2. \A t, kind : Holds(t, kind) =>
          t.obj \in 1 .. Len(heap') /\ heap'[t.obj].kind = kind
  BY HoldsKept DEF Grow
<1>3. outcome[at + 1] = << >>
  BY <1>1 DEF Waiting
<1>4. \A j \in 1 .. Len(tasks') :
          j \in 1 .. Len(tasks) \/ \E i \in 1 .. u : j = Len(tasks) + i
  <2>1. Len(tasks') = Len(tasks) + u
    BY DEF MoreTasks
  <2>2. ASSUME NEW j \in 1 .. Len(tasks) + u
        PROVE  j \in 1 .. Len(tasks) \/ \E i \in 1 .. u : j = Len(tasks) + i
    BY <1>1, Positions
  <2>3. QED
    BY <2>1, <2>2
<1>5. ASSUME NEW j \in 1 .. Len(tasks') PROVE TaskOk(tasks[j])'
  <2>1. CASE j \in 1 .. Len(tasks)
    <3>1. tasks'[j] = tasks[j] /\ TaskOk(tasks[j])
      BY <2>1 DEF Waiting, MoreTasks
    <3>2. tasks[j].of \in 1 .. at'
      BY <1>1, <3>1 DEF TaskOk
    <3>3. QED
      BY <1>2, <3>1, <3>2 DEF TaskOk, Holds
  <2>2. CASE \E i \in 1 .. u : j = Len(tasks) + i
    <3>1. at + 1 \in 1 .. at'
      BY <1>1
    <3>2. PICK i \in 1 .. u : j = Len(tasks) + i
      BY <2>2
    <3>3. /\ tasks'[j].of = at + 1
          /\ tasks'[j].kind = "http" <=> calls[at + 1].op = "http"
          /\ tasks'[j].kind = "http" => /\ tasks'[j].obj \in 1 .. Len(heap')
                                        /\ heap'[tasks'[j].obj].kind = "proxy"
          /\ tasks'[j].kind = "pread" => /\ tasks'[j].obj \in 1 .. Len(heap')
                                         /\ heap'[tasks'[j].obj].kind = "buf"
          /\ tasks'[j].kind = "pwrite" => /\ tasks'[j].obj \in 1 .. Len(heap')
                                          /\ heap'[tasks'[j].obj].kind = "save"
          /\ tasks'[j].kind = "mpread" =>
                 calls[at + 1].op = "multipart" /\ context' # Null
      BY <3>2 DEF MoreTasks
    <3>4. QED
      BY <1>3, <3>1, <3>3 DEF TaskOk, Holds
  <2>3. QED
    BY <1>4, <2>1, <2>2
<1>6. ASSUME NEW j \in 1 .. Len(tasks), tasks[j].kind = "http"
      PROVE  calls[at + 1].op # "http"
  <2>1. tasks[j].of \in 1 .. at /\ calls[tasks[j].of].op = "http"
    BY <1>6 DEF Waiting, TaskOk
  <2>2. tasks[j].of \in 1 .. Len(calls) /\ tasks[j].of # at + 1
    BY <1>1, <2>1
  <2>3. QED
    BY <1>1, <2>1, <2>2, ProgramsAssumption
<1>7. ASSUME NEW i \in 1 .. Len(tasks'), NEW j \in 1 .. Len(tasks'),
             tasks'[i].kind = "http", tasks'[j].kind = "http"
      PROVE  i = j
  <2>1. ASSUME NEW k \in 1 .. Len(tasks'), tasks'[k].kind = "http"
        PROVE  \/ /\ k \in 1 .. Len(tasks) /\ tasks[k].kind = "http"
                  /\ calls[at + 1].op # "http"
               \/ k = Len(tasks) + 1 /\ calls[at + 1].op = "http"
    <3>1. CASE k \in 1 .. Len(tasks)
      BY <1>6, <2>1, <3>1 DEF MoreTasks
    <3>2. CASE \E l \in 1 .. u : k = Len(tasks) + l
      <4>1. PICK l \in 1 .. u : k = Len(tasks) + l
        BY <3>2
      <4>2. u = 1 /\ calls[at + 1].op = "http"
        BY <2>1, <4>1 DEF MoreTasks
      <4>3. QED
        BY <4>1, <4>2
    <3>3. QED
      BY <1>4, <3>1, <3>2
  <2>2. QED
    BY <1>7, <2>1 DEF Waiting
<1>8. \A k \in 1 .. Len(calls') : k > at' => outcome'[k] = << >>
  BY <1>1 DEF Waiting
<1>9. QED
  BY <1>5, <1>7, <1>8 DEF Waiting

(* While the handler runs no piece is a form.                              *)
LEMMA CallPieces ==
    ASSUME ServerType, Waiting, Pieces, pc = "handler",
           calls' = calls, at < Len(calls), NEW n \in Nat, NEW m \in Nat, Grow(n, m),
           NEW u \in Nat, MoreTasks(u), NEW v \in Nat, MorePieces(v)
    PROVE  Pieces'
<1>1. Len(tasks) \in Nat /\ at \in Nat /\ Len(heap) \in Nat
      /\ at + 1 \in 1 .. Len(calls) /\ Len(calls) \in Nat
  BY ProgramsAssumption DEF ServerType
<1>2. \A j \in 1 .. Len(tasks') :
          j \in 1 .. Len(tasks) \/ \E i \in 1 .. u : j = Len(tasks) + i
  <2>1. Len(tasks') = Len(tasks) + u
    BY DEF MoreTasks
  <2>2. ASSUME NEW j \in 1 .. Len(tasks) + u
        PROVE  j \in 1 .. Len(tasks) \/ \E i \in 1 .. u : j = Len(tasks) + i
    BY ZenonT(30), <1>1, Positions
  <2>3. QED
    BY <2>1, <2>2
<1>3. OneForm' <=> OneForm
  BY DEF OneForm, Multiparts
<1>4. ASSUME NEW j \in 1 .. Len(body')
      PROVE  /\ body'[j].obj \in 0 .. Len(heap')
             /\ OneForm /\ body'[j].obj # Null => heap'[body'[j].obj].kind # "content"
  <2>1. CASE j \in 1 .. Len(body)
    <3>1. body'[j] = body[j] /\ PieceOk(body[j])
      BY <2>1 DEF Pieces, MorePieces
    <3>2. /\ body[j].obj \in 0 .. Len(heap)
          /\ OneForm /\ body[j].obj # Null => heap[body[j].obj].kind # "content"
      BY <3>1 DEF PieceOk
    <3>3. body[j].obj # Null => body[j].obj \in 1 .. Len(heap)
      BY <1>1, <3>2 DEF Null
    <3>4. /\ Len(heap') = Len(heap) + n
          /\ \A o \in 1 .. Len(heap) : heap'[o].kind = heap[o].kind
      BY DEF Grow, Enter
    <3>5. body[j].obj \in 0 .. Len(heap')
      BY <1>1, <3>2, <3>4
    <3>6. QED
      BY <3>1, <3>2, <3>3, <3>4, <3>5
  <2>2. CASE \E i \in 1 .. v : j = Len(body) + i
    BY <2>2 DEF MorePieces
  <2>3. QED
    <3>1. Len(body') = Len(body) + v /\ Len(body) \in Nat
      BY DEF MorePieces
    <3>2. j \in 1 .. Len(body) \/ \E i \in 1 .. v : j = Len(body) + i
      BY <3>1, Positions
    <3>3. QED
      BY <2>1, <2>2, <3>2
<1>5. \A j \in 1 .. Len(body') : PieceOk(body[j])'
  BY <1>3, <1>4 DEF PieceOk
<1>6. ASSUME OneForm, NEW i \in 1 .. Len(tasks'), NEW j \in 1 .. Len(tasks'), i < j,
             tasks'[i].kind = "mpread", tasks'[j].kind = "mpread"
      PROVE  ~tasks'[i].last
  <2>1. CASE j \in 1 .. Len(tasks)
    <3>1. i \in 1 .. Len(tasks)
      BY <1>1, <1>6, <2>1 DEF MoreTasks
    <3>2. QED
      BY <1>6, <2>1, <3>1 DEF Pieces, MoreTasks
  <2>2. CASE \E l \in 1 .. u : j = Len(tasks) + l
    <3>1. PICK l \in 1 .. u : j = Len(tasks) + l
      BY <2>2
    <3>2. calls[at + 1].op = "multipart"
      BY <1>6, <3>1 DEF MoreTasks
    <3>3. i \notin 1 .. Len(tasks)
      <4> SUFFICES ASSUME i \in 1 .. Len(tasks) PROVE FALSE
        OBVIOUS
      <4>1. tasks[i].of \in 1 .. at /\ calls[tasks[i].of].op = "multipart"
        BY <1>6 DEF Waiting, TaskOk, MoreTasks
      <4>2. tasks[i].of \in Multiparts /\ at + 1 \in Multiparts
        BY SMTT(30), <1>1, <3>2, <4>1 DEF Multiparts
      <4>3. QED
        BY <1>1, <1>6, <4>1, <4>2 DEF OneForm
    <3>4. PICK k \in 1 .. u : i = Len(tasks) + k
      BY <1>2, <3>3
    <3>5. k # u
      BY <1>1, <1>6, <3>1, <3>4
    <3>6. QED
      BY <1>6, <3>4, <3>5 DEF MoreTasks
  <2>3. QED
    BY <1>2, <2>1, <2>2
<1>7. QED
  BY <1>3, <1>5, <1>6 DEF Pieces

-----------------------------------------------------------------------------
(* What the operations allocate                                            *)

(* A new object.                                                           *)
LEMMA NewObject ==
    ASSUME NEW kind \in Kinds
    PROVE  Obj(kind) \in Object /\ Obj(kind).kind = kind /\ Obj(kind).frees = 0
  BY DEF Obj, Object

(* One object that a callback will free.                                   *)
LEMMA AllocManaged ==
    ASSUME ServerType, NEW kind \in Managed, heap' = Append(heap, Obj(kind)),
           cbs' = Append(cbs, Len(heap) + 1)
    PROVE  /\ Grow(1, 1) /\ Len(heap) + 1 \in 1 .. Len(heap')
           /\ heap'[Len(heap) + 1].kind = kind
           /\ \A j \in 1 .. 1 : heap'[Len(heap) + j].kind = kind
<1>1. /\ Obj(kind) \in Object /\ Obj(kind).kind = kind /\ Obj(kind).frees = 0
  BY NewObject DEF Kinds
<1>2. heap \in Seq(Object) /\ cbs \in Seq(Nat) /\ Len(heap) + 1 \in Nat
  BY DEF ServerType
<1>3. /\ heap' \in Seq(Object) /\ Len(heap) \in Nat /\ Len(heap') = Len(heap) + 1
      /\ \A j \in 1 .. Len(heap) : heap'[j] = heap[j]
      /\ heap'[Len(heap) + 1] = Obj(kind)
  BY <1>1, <1>2, OneMore
<1>4. /\ cbs' \in Seq(Nat) /\ Len(cbs') = Len(cbs) + 1
      /\ \A j \in 1 .. Len(cbs) : cbs'[j] = cbs[j]
      /\ cbs'[Len(cbs) + 1] = Len(heap) + 1
  BY <1>2, OneMore
<1>5. \A j \in 1 .. 1 : j = 1
  OBVIOUS
<1>6. Grow(1, 1)
  BY <1>1, <1>3, <1>4, <1>5 DEF Grow, Enter
<1>7. QED
  BY <1>1, <1>3, <1>5, <1>6

(* One object that no callback frees, as yet.                              *)
LEMMA AllocOnly ==
    ASSUME ServerType, NEW kind \in Kinds \ Managed,
           heap' = Append(heap, Obj(kind)), cbs' = cbs
    PROVE  /\ Grow(1, 0) /\ Len(heap) + 1 \in 1 .. Len(heap')
           /\ heap'[Len(heap) + 1].kind = kind
<1>1. /\ Obj(kind) \in Object /\ Obj(kind).kind = kind /\ Obj(kind).frees = 0
  BY NewObject
<1>2. heap \in Seq(Object) /\ cbs \in Seq(Nat) /\ Len(cbs) \in Nat
  BY DEF ServerType
<1>3. /\ heap' \in Seq(Object) /\ Len(heap) \in Nat /\ Len(heap') = Len(heap) + 1
      /\ \A j \in 1 .. Len(heap) : heap'[j] = heap[j]
      /\ heap'[Len(heap) + 1] = Obj(kind)
  BY <1>1, <1>2, OneMore
<1>4. \A j \in 1 .. 1 : j = 1 /\ ~(j <= 0)
  OBVIOUS
<1>5. Grow(1, 0)
  BY <1>1, <1>2, <1>3, <1>4 DEF Grow, Enter
<1>6. QED
  BY <1>1, <1>3, <1>5

(* Nothing.                                                                *)
LEMMA AllocNothing ==
    ASSUME ServerType, UNCHANGED <<heap, cbs>>
    PROVE  Grow(0, 0)
<1>1. Len(heap) \in Nat /\ Len(cbs) \in Nat
  BY DEF ServerType
<1>2. QED
  BY <1>1 DEF ServerType, Grow, Enter

(* No task, no piece.                                                      *)
LEMMA NoMore ==
    ASSUME ServerType
    PROVE  /\ tasks' = tasks => MoreTasks(0)
           /\ body' = body => MorePieces(0)
<1>1. Len(tasks) \in Nat
  BY DEF ServerType
<1>2. Len(body) \in Nat
  BY DEF ServerType, IsSeq
<1>3. ASSUME tasks' = tasks PROVE MoreTasks(0)
  BY <1>1, <1>3 DEF ServerType, MoreTasks
<1>4. ASSUME body' = body PROVE MorePieces(0)
  <2>1. IsSeq(body')
    BY <1>4 DEF ServerType
  <2>2. QED
    BY <1>2, <1>4, <2>1 DEF MorePieces
<1>5. QED
  BY <1>3, <1>4

(* One piece.                                                              *)
LEMMA PieceSaid ==
    ASSUME ServerType, NEW k, NEW says, NEW o, NEW coding, NEW len,
           body' = Append(body, Piece(k, says, o, coding, len)),
           o \in 0 .. Len(heap'), o # Null => heap'[o].kind # "content"
    PROVE  MorePieces(1)
<1> DEFINE x == Piece(k, says, o, coding, len)
<1>1. x.obj = o
  BY DEF Piece
<1> HIDE DEF x
<1>2. /\ IsSeq(body') /\ Len(body) \in Nat /\ Len(body') = Len(body) + 1
      /\ \A j \in 1 .. Len(body) : body'[j] = body[j]
      /\ body'[Len(body) + 1] = x
  <2>1. IsSeq(body) /\ body' = Append(body, x)
    BY DEF ServerType, x
  <2>2. QED
    BY <2>1, OneMorePiece
<1>3. \A j \in 1 .. 1 : j = 1
  OBVIOUS
<1>4. QED
  BY <1>1, <1>2, <1>3 DEF MorePieces

(* String: a text that a callback frees, and the piece that points to it.  *)
LEMMA StringSays ==
    ASSUME ServerType, NEW k, NEW says, NEW moved, String(k, says, moved)
    PROVE  /\ Grow(1, 1) /\ MorePieces(1)
           /\ \A j \in 1 .. 1 : heap'[Len(heap) + j].kind = "string"
<1>1. PICK coding \in compress :
        /\ heap' = Append(heap, Obj("string"))
        /\ body' = Append(body,
               Piece(k, says, IF moved \/ coding # "plain" THEN Len(heap) + 1 ELSE Null,
                     coding, 0))
        /\ cbs' = Append(cbs, Len(heap) + 1)
  BY DEF String
<1>2. /\ Grow(1, 1) /\ Len(heap) + 1 \in 1 .. Len(heap')
      /\ heap'[Len(heap) + 1].kind = "string"
      /\ \A j \in 1 .. 1 : heap'[Len(heap) + j].kind = "string"
  BY <1>1, AllocManaged DEF Managed
<1>3. PICK o : /\ o \in {Len(heap) + 1, Null}
               /\ body' = Append(body, Piece(k, says, o, coding, 0))
  BY <1>1
<1>4. Len(heap') \in Nat
  BY <1>2 DEF Grow, Enter
<1>5. o \in 0 .. Len(heap') /\ (o # Null => heap'[o].kind # "content")
  BY <1>2, <1>3, <1>4 DEF Null
<1>6. MorePieces(1)
  BY <1>3, <1>5, PieceSaid
<1>7. QED
  BY <1>2, <1>6

(* A task is pushed, with the object it needs.                             *)
LEMMA TaskPushed ==
    ASSUME ServerType, NEW kind \in TaskKinds \ {"mpread"}, NEW o \in Nat,
           tasks' = Append(tasks, Task(kind, at + 1, o, FALSE)),
           kind = "http" <=> calls[at + 1].op = "http",
           kind = "http" => o \in 1 .. Len(heap') /\ heap'[o].kind = "proxy",
           kind = "pread" => o \in 1 .. Len(heap') /\ heap'[o].kind = "buf",
           kind = "pwrite" => o \in 1 .. Len(heap') /\ heap'[o].kind = "save"
    PROVE  MoreTasks(1)
<1> DEFINE x == Task(kind, at + 1, o, FALSE)
<1>1. at + 1 \in Nat /\ tasks \in Seq(Subtask) /\ Len(tasks) \in Nat
  BY ProgramsAssumption DEF ServerType
<1>2. x \in Subtask /\ x.kind = kind /\ x.of = at + 1 /\ x.obj = o
  BY <1>1 DEF Task, Subtask
<1> HIDE DEF x
<1>3. /\ tasks' \in Seq(Subtask) /\ Len(tasks') = Len(tasks) + 1
      /\ \A j \in 1 .. Len(tasks) : tasks'[j] = tasks[j]
      /\ tasks'[Len(tasks) + 1] = x
  <2>1. tasks' = Append(tasks, x)
    BY DEF x
  <2>2. tasks \in Seq(Subtask) /\ x \in Subtask
    BY <1>1, <1>2
  <2>3. /\ Append(tasks, x) \in Seq(Subtask)
        /\ Len(Append(tasks, x)) = Len(tasks) + 1
        /\ \A j \in 1 .. Len(tasks) : Append(tasks, x)[j] = tasks[j]
        /\ Append(tasks, x)[Len(tasks) + 1] = x
    BY <2>2, OneMore
  <2>4. QED
    BY <2>1, <2>3
<1>4. \A j \in 1 .. 1 : j = 1
  OBVIOUS
<1>5. QED
  BY <1>2, <1>3, <1>4 DEF MoreTasks

-----------------------------------------------------------------------------
(* The handler                                                             *)

InCall ==
    /\ pc = "handler" /\ at < Len(calls) /\ at' = at + 1
    /\ UNCHANGED <<calls, pc, outcome>>

(* A call that allocates, pushes and answers as above keeps the invariant. *)
LEMMA CallKeeps ==
    ASSUME IInv, InCall, NEW n \in Nat, NEW m \in Nat, m <= n, Grow(n, m),
           NEW u \in Nat, MoreTasks(u), NEW v \in Nat, MorePieces(v),
           encoder' \in Nat, context' \in Nat, context # Null => context' # Null,
           OfSeries', Proxies'
    PROVE  IInv'
<1>1. ServerType /\ Owned /\ NothingFreed /\ Waiting /\ Pieces
  BY DEF IInv, InCall, Answering
<1>2. at + 1 \in 0 .. Len(calls)
  BY <1>1, ProgramsAssumption DEF ServerType, InCall
<1>3. ServerType'
  BY <1>1, <1>2 DEF ServerType, InCall, Grow, Enter, MoreTasks, MorePieces
<1>4. Owned'
  BY <1>1, Registers DEF Grow
<1>5. NothingFreed'
  BY <1>1, NothingFreedKept
<1>6. Waiting'
  BY <1>1, CallWaiting DEF InCall
<1>7. Pieces'
  BY <1>1, CallPieces DEF InCall
<1>8. pc' = "handler"
  BY DEF InCall
<1>9. QED
  BY <1>3, <1>4, <1>5, <1>6, <1>7, <1>8 DEF IInv, Answering

(* Most calls leave the encoder, the content and the proxies alone.        *)
LEMMA PlainCall ==
    ASSUME IInv, InCall, NEW n \in Nat, NEW m \in Nat, m <= n, Grow(n, m),
           NEW u \in Nat, MoreTasks(u), NEW v \in Nat, MorePieces(v),
           UNCHANGED <<encoder, context>>,
           \A j \in 1 .. n : heap'[Len(heap) + j].kind # "proxy"
    PROVE  IInv'
<1>1. ServerType /\ Owned /\ OfSeries /\ Proxies
  BY DEF IInv, InCall
<1>2. OfSeries'
  BY <1>1, OfSeriesKept DEF Grow
<1>3. Fetches' <=> Fetches
  BY DEF Fetches, Fetched, InCall
<1>4. at' \in Nat /\ at <= at' /\ calls' = calls
  BY <1>1 DEF ServerType, InCall
<1>5. Proxies'
  BY <1>1, <1>3, <1>4, ProxiesKept DEF Grow
<1>6. encoder' \in Nat /\ context' \in Nat
  BY <1>1 DEF ServerType
<1>7. QED
  BY <1>2, <1>5, <1>6, CallKeeps

(* String, Json and Error.                                                 *)
LEMMA StringCall ==
    ASSUME IInv, InCall, NEW k, NEW says, NEW moved, String(k, says, moved),
           UNCHANGED <<tasks, encoder, context>>
    PROVE  IInv'
<1>1. ServerType
  BY DEF IInv
<1>2. /\ Grow(1, 1) /\ MorePieces(1)
      /\ \A j \in 1 .. 1 : heap'[Len(heap) + j].kind = "string"
  BY <1>1, StringSays
<1>3. MoreTasks(0)
  BY <1>1, NoMore
<1>4. QED
  BY <1>2, <1>3, PlainCall

(* A buffer or the context of a save, and the task that uses it.           *)
LEMMA FileCall ==
    ASSUME IInv, InCall, NEW kind \in {"buf", "save"}, NEW task \in {"pread", "pwrite"},
           kind = "buf" <=> task = "pread", calls[at + 1].op # "http",
           heap' = Append(heap, Obj(kind)), cbs' = Append(cbs, Len(heap) + 1),
           tasks' = Append(tasks, Task(task, at + 1, Len(heap) + 1, FALSE)),
           UNCHANGED <<body, encoder, context>>
    PROVE  IInv'
<1>1. ServerType
  BY DEF IInv
<1>2. /\ Grow(1, 1) /\ Len(heap) + 1 \in 1 .. Len(heap')
      /\ heap'[Len(heap) + 1].kind = kind
      /\ \A j \in 1 .. 1 : heap'[Len(heap) + j].kind = kind
  BY <1>1, AllocManaged DEF Managed
<1>3. Len(heap) + 1 \in Nat
  BY <1>1 DEF ServerType
<1>4. MoreTasks(1)
  BY <1>1, <1>2, <1>3, TaskPushed DEF TaskKinds
<1>5. MorePieces(0)
  BY <1>1, NoMore
<1>6. QED
  BY <1>2, <1>4, <1>5, PlainCall

(* MySQL, Redis, Timer.                                                    *)
LEMMA QueryCall ==
    ASSUME IInv, InCall, NEW kind \in {"mysql", "mysqlfunc", "redis", "timer"},
           calls[at + 1].op # "http", Query(at + 1, kind)
    PROVE  IInv'
<1>1. ServerType
  BY DEF IInv
<1>2. Grow(0, 0) /\ MorePieces(0)
  BY <1>1, AllocNothing, NoMore DEF Query
<1>3. MoreTasks(1)
  BY <1>1, TaskPushed DEF Query, Push, TaskKinds, Null
<1>4. UNCHANGED <<encoder, context>>
  BY DEF Query
<1>5. QED
  BY <1>2, <1>3, <1>4, PlainCall

(* gzip, br: only a header.                                                *)
LEMMA HeaderCall ==
    ASSUME IInv, InCall, UNCHANGED <<heap, body, cbs, tasks, context, encoder>>
    PROVE  IInv'
<1>1. ServerType
  BY DEF IInv
<1>2. Grow(0, 0) /\ MoreTasks(0) /\ MorePieces(0)
  BY <1>1, AllocNothing, NoMore
<1>3. QED
  BY <1>2, PlainCall

(* Http: the one proxy of the handler; nothing was fetched before.         *)
LEMMA HttpCall ==
    ASSUME IInv, InCall, calls[at + 1].op = "http", NEW good, Http(at + 1, good)
    PROVE  IInv'
<1>1. ServerType /\ Owned /\ OfSeries /\ Proxies /\ Waiting
  BY DEF IInv, InCall, Answering
<1>2. /\ Grow(1, 0) /\ Len(heap) + 1 \in 1 .. Len(heap')
      /\ heap'[Len(heap) + 1].kind = "proxy"
  <2>1. heap' = Append(heap, Obj("proxy")) /\ cbs' = cbs
    BY DEF Http
  <2>2. QED
    BY <1>1, <2>1, AllocOnly DEF Kinds, Managed
<1>3. /\ at \in Nat /\ Len(calls) \in Nat /\ at + 1 \in 1 .. Len(calls)
      /\ Len(heap) \in Nat /\ calls \in Programs
  BY <1>1, ProgramsAssumption DEF ServerType, InCall
<1>4. \A k \in 1 .. Len(calls) : calls[k].op = "http" => k = at + 1
  BY <1>3, ProgramsAssumption
<1>5. ~Fetches /\ ~Fetches'
  <2>1. outcome[at + 1] = << >>
    BY <1>1, <1>3 DEF Waiting
  <2>2. ~Fetches
    <3>1. << >> # <<TRUE>>
      OBVIOUS
    <3>2. QED
      BY <1>4, <2>1, <3>1 DEF Fetches, Fetched
  <2>3. QED
    BY <2>2 DEF Fetches, Fetched, InCall
<1>6. \A o \in 1 .. Len(heap) : heap[o].kind # "proxy"
  <2>1. ASSUME NEW k \in 1 .. at, calls[k].op = "http" PROVE FALSE
    BY <1>3, <1>4, <2>1
  <2>2. QED
    BY <1>1, <2>1 DEF Proxies
<1>7. \A o \in 1 .. Len(heap') : heap'[o].kind = "proxy" => o = Len(heap) + 1
  BY SMTT(30), <1>2, <1>3, <1>6 DEF Grow, Enter
<1>8. \A j \in 1 .. Len(cbs') : cbs'[j] # Len(heap) + 1
  BY <1>1, <1>3 DEF Owned, Http
<1>9. Proxies'
  <2>1. at + 1 \in 1 .. at' /\ calls'[at + 1].op = "http"
    BY <1>3 DEF InCall
  <2>2. ASSUME NEW o \in 1 .. Len(heap'), heap'[o].kind = "proxy"
        PROVE  (Registered(o)' <=> Fetches') /\ \E k \in 1 .. at' : calls'[k].op = "http"
    <3>1. o = Len(heap) + 1
      BY <1>7, <2>2
    <3>2. ~Registered(o)'
      BY <1>8, <3>1 DEF Registered
    <3>3. QED
      BY <1>5, <2>1, <3>2
  <2>3. QED
    BY <1>7, <2>2 DEF Proxies
<1>10. OfSeries' /\ UNCHANGED <<encoder, context>>
  BY <1>1, <1>2, OfSeriesKept DEF Http, Grow
<1>11. MorePieces(0)
  BY <1>1, NoMore DEF Http
<1>12. \E u \in Nat : MoreTasks(u)
  <2>1. CASE good
    <3>1. tasks' = Append(tasks, Task("http", at + 1, Len(heap) + 1, FALSE))
      BY <2>1 DEF Http, Push
    <3>2. MoreTasks(1)
      <4>1. Len(heap) + 1 \in Nat /\ "http" \in TaskKinds \ {"mpread"}
        BY <1>3 DEF TaskKinds
      <4>2. "http" # "pread" /\ "http" # "pwrite"
        OBVIOUS
      <4>3. QED
        BY <1>1, <1>2, <3>1, <4>1, <4>2, TaskPushed
    <3>3. QED
      BY <3>2
  <2>2. CASE ~good
    <3>1. MoreTasks(0)
      BY <1>1, <2>2, NoMore DEF Http
    <3>2. QED
      BY <3>1
  <2>3. QED
    BY <2>1, <2>2
<1>13. encoder' \in Nat /\ context' \in Nat
  BY <1>1, <1>10 DEF ServerType
<1>14. QED
  BY <1>2, <1>9, <1>10, <1>11, <1>12, <1>13, CallKeeps

(* The content a multipart form starts with.                               *)
LEMMA NewContent ==
    LET c == [Obj("content") EXCEPT !.text = <<"params">>]
    IN  c \in Object /\ c.kind = "content" /\ c.frees = 0 /\ c.text = <<"params">>
<1>1. <<"params">> \in Seq(Words)
  BY DEF Words
<1>2. QED
  BY <1>1 DEF Obj, Object, Kinds

(* A buffer for every file that is there, then the encoder and the content.*)
LEMMA AllocForm ==
    ASSUME ServerType, NEW u \in Nat,
           heap' = heap \o [n \in 1 .. u |-> Obj("buf")]
                        \o <<Obj("encoder"), [Obj("content") EXCEPT !.text = <<"params">>]>>,
           cbs' = cbs \o [n \in 1 .. u |-> Len(heap) + n]
    PROVE  /\ Grow(u + 2, u) /\ Len(heap) \in Nat /\ Len(heap') = Len(heap) + u + 2
           /\ heap'[Len(heap) + u + 1].kind = "encoder"
           /\ heap'[Len(heap) + u + 2].kind = "content"
           /\ heap'[Len(heap) + u + 2].text = <<"params">>
           /\ \A j \in 1 .. u + 2 : heap'[Len(heap) + j].kind # "proxy"
<1> DEFINE bufs == [n \in 1 .. u |-> Obj("buf")]
           c == [Obj("content") EXCEPT !.text = <<"params">>]
           h == heap \o bufs
           two == <<Obj("encoder"), c>>
           new == [n \in 1 .. u |-> Len(heap) + n]
<1>1. heap \in Seq(Object) /\ cbs \in Seq(Nat) /\ Len(heap) \in Nat
  BY DEF ServerType
<1>2. /\ Obj("buf") \in Object /\ Obj("buf").kind = "buf" /\ Obj("buf").frees = 0
  BY NewObject DEF Kinds, Managed
<1>3. /\ Obj("encoder") \in Object /\ Obj("encoder").kind = "encoder"
      /\ Obj("encoder").frees = 0
  BY NewObject DEF Kinds, Managed
<1>4. c \in Object /\ c.kind = "content" /\ c.frees = 0 /\ c.text = <<"params">>
  BY NewContent
<1> HIDE DEF c
<1>5. two \in [1 .. 2 -> Object] /\ two[1] = Obj("encoder") /\ two[2] = c
  BY <1>3, <1>4
<1>6. bufs \in [1 .. u -> Object] /\ \A j \in 1 .. u : bufs[j] = Obj("buf")
  BY <1>2
<1>7. new \in [1 .. u -> Nat] /\ \A j \in 1 .. u : new[j] = Len(heap) + j
  BY <1>1
<1>8. heap' = h \o two /\ cbs' = cbs \o new
  BY DEF c
<1> HIDE DEF bufs, two, new
<1>9. /\ h \in Seq(Object) /\ Len(h) = Len(heap) + u
      /\ \A j \in 1 .. Len(heap) : h[j] = heap[j]
      /\ \A j \in 1 .. u : h[Len(heap) + j] = bufs[j]
  BY <1>1, <1>6, SeveralMore
<1>10. /\ cbs' \in Seq(Nat) /\ Len(cbs') = Len(cbs) + u
       /\ \A j \in 1 .. Len(cbs) : cbs'[j] = cbs[j]
       /\ \A j \in 1 .. u : cbs'[Len(cbs) + j] = new[j]
  BY <1>1, <1>7, <1>8, SeveralMore
<1> HIDE DEF h
<1>11. /\ heap' \in Seq(Object) /\ Len(heap') = Len(h) + 2
       /\ \A j \in 1 .. Len(h) : heap'[j] = h[j]
       /\ \A j \in 1 .. 2 : heap'[Len(h) + j] = two[j]
  <2>1. /\ h \o two \in Seq(Object) /\ Len(h \o two) = Len(h) + 2
        /\ \A j \in 1 .. Len(h) : (h \o two)[j] = h[j]
        /\ \A j \in 1 .. 2 : (h \o two)[Len(h) + j] = two[j]
    <3>1. PICK w \in Nat : w = 2
      OBVIOUS
    <3>2. h \in Seq(Object) /\ two \in [1 .. w -> Object]
      BY <1>5, <1>9, <3>1
    <3>3. /\ h \o two \in Seq(Object) /\ Len(h \o two) = Len(h) + w
          /\ \A j \in 1 .. Len(h) : (h \o two)[j] = h[j]
          /\ \A j \in 1 .. w : (h \o two)[Len(h) + j] = two[j]
      <4>1. ASSUME NEW a \in Seq(Object), NEW b \in [1 .. w -> Object]
            PROVE  /\ a \o b \in Seq(Object) /\ Len(a \o b) = Len(a) + w
                   /\ \A j \in 1 .. Len(a) : (a \o b)[j] = a[j]
                   /\ \A j \in 1 .. w : (a \o b)[Len(a) + j] = b[j]
        BY SeveralMore
      <4>2. QED
        BY <3>2, <4>1
    <3>4. QED
      BY <3>1, <3>3
  <2>2. QED
    BY <1>8, <2>1
<1>12. /\ Len(heap') = Len(heap) + (u + 2) /\ Len(heap') = Len(heap) + u + 2
       /\ \A j \in 1 .. Len(heap) : heap'[j] = heap[j]
  BY <1>1, <1>9, <1>11
<1>13. \A j \in 1 .. u : heap'[Len(heap) + j] = Obj("buf")
  <2> SUFFICES ASSUME NEW j \in 1 .. u PROVE heap'[Len(heap) + j] = Obj("buf")
    OBVIOUS
  <2>1. Len(heap) + j \in 1 .. Len(h)
    BY <1>1, <1>9
  <2>2. QED
    BY <1>6, <1>9, <1>11, <2>1
<1>14. /\ heap'[Len(heap) + u + 1] = Obj("encoder")
       /\ heap'[Len(heap) + u + 2] = c
  <2>1. heap'[Len(h) + 1] = two[1] /\ heap'[Len(h) + 2] = two[2]
    BY <1>11
  <2>2. QED
    BY <1>5, <1>9, <2>1
<1>15. ASSUME NEW j \in 1 .. u + 2
       PROVE  /\ heap'[Len(heap) + j].frees = 0
              /\ heap'[Len(heap) + j].kind \in Managed <=> j <= u
              /\ heap'[Len(heap) + j].kind # "proxy"
  <2>1. CASE j \in 1 .. u
    BY <1>2, <1>13, <2>1 DEF Managed
  <2>2. CASE j = u + 1
    <3>1. Len(heap) + j = Len(heap) + u + 1 /\ ~(j <= u)
      BY <1>1, <2>2
    <3>2. QED
      BY <1>3, <1>14, <3>1 DEF Managed
  <2>3. CASE j = u + 2
    <3>1. Len(heap) + j = Len(heap) + u + 2 /\ ~(j <= u)
      BY <1>1, <2>3
    <3>2. QED
      BY <1>4, <1>14, <3>1 DEF Managed
  <2>4. QED
    BY <2>1, <2>2, <2>3
<1>16. Grow(u + 2, u)
  BY <1>7, <1>10, <1>11, <1>12, <1>15 DEF Grow, Enter
<1>17. QED
  BY <1>1, <1>3, <1>4, <1>12, <1>14, <1>15, <1>16

(* The reads of a form: only the last of them may close it.                *)
LEMMA FormTasks ==
    ASSUME ServerType, NEW u \in Nat, NEW closes, calls[at + 1].op = "multipart",
           context' # Null,
           tasks' = tasks \o [n \in 1 .. u |->
               Task("mpread", at + 1, Len(heap) + n, n = u /\ closes)]
    PROVE  MoreTasks(u)
<1> DEFINE new == [n \in 1 .. u |->
               Task("mpread", at + 1, Len(heap) + n, n = u /\ closes)]
<1>1. at + 1 \in Nat /\ Len(heap) \in Nat /\ tasks \in Seq(Subtask)
  BY ProgramsAssumption DEF ServerType
<1>2. ASSUME NEW n \in 1 .. u
      PROVE  /\ Task("mpread", at + 1, Len(heap) + n, n = u /\ closes) \in Subtask
             /\ new[n].of = at + 1 /\ new[n].kind = "mpread"
             /\ new[n].last => n = u
  <2>1. (n = u /\ closes) \in BOOLEAN /\ Len(heap) + n \in Nat
    BY <1>1
  <2>2. new[n] = Task("mpread", at + 1, Len(heap) + n, n = u /\ closes)
    OBVIOUS
  <2>3. QED
    BY <1>1, <2>1, <2>2 DEF Task, Subtask, TaskKinds
<1>3. new \in [1 .. u -> Subtask]
  BY <1>2
<1>4. \A n \in 1 .. u : /\ new[n].of = at + 1 /\ new[n].kind = "mpread"
                        /\ new[n].last => n = u
  BY <1>2
<1> HIDE DEF new
<1>5. /\ tasks' \in Seq(Subtask) /\ Len(tasks') = Len(tasks) + u
      /\ \A j \in 1 .. Len(tasks) : tasks'[j] = tasks[j]
      /\ \A j \in 1 .. u : tasks'[Len(tasks) + j] = new[j]
  <2>1. tasks' = tasks \o new
    BY DEF new
  <2>2. /\ tasks \o new \in Seq(Subtask) /\ Len(tasks \o new) = Len(tasks) + u
        /\ \A j \in 1 .. Len(tasks) : (tasks \o new)[j] = tasks[j]
        /\ \A j \in 1 .. u : (tasks \o new)[Len(tasks) + j] = new[j]
    <3>1. ASSUME NEW a \in Seq(Subtask), NEW b \in [1 .. u -> Subtask]
          PROVE  /\ a \o b \in Seq(Subtask) /\ Len(a \o b) = Len(a) + u
                 /\ \A j \in 1 .. Len(a) : (a \o b)[j] = a[j]
                 /\ \A j \in 1 .. u : (a \o b)[Len(a) + j] = b[j]
      BY SeveralMore
    <3>2. QED
      BY <1>1, <1>3, <3>1
  <2>3. QED
    BY <2>1, <2>2
<1>6. QED
  BY <1>4, <1>5 DEF MoreTasks

(* String of a MultiPartEncoder.                                           *)
LEMMA MultipartCall ==
    ASSUME IInv, InCall, calls[at + 1].op = "multipart",
           Multipart(at + 1, calls[at + 1].files)
    PROVE  IInv'
<1>1. ServerType /\ Owned /\ OfSeries /\ Proxies
  BY DEF IInv, InCall
<1> DEFINE files == calls[at + 1].files
           S == {j \in 1 .. Len(files) : files[j]}
           u == Cardinality(S)
<1>2. u \in Nat
  <2>1. at + 1 \in 1 .. Len(calls) /\ calls \in Programs
    BY <1>1, ProgramsAssumption DEF ServerType, InCall
  <2>2. files \in Seq(BOOLEAN)
    BY <2>1, ProgramsAssumption
  <2>3. Len(files) \in Nat
    BY <2>2
  <2> HIDE DEF files
  <2>4. IsFiniteSet(1 .. Len(files))
    BY <2>3, FS_Interval
  <2>5. IsFiniteSet(S)
    BY <2>4, FS_Subset
  <2>6. QED
    BY <2>5, FS_CardinalityType
<1>3. /\ heap' = heap \o [n \in 1 .. u |-> Obj("buf")]
                      \o <<Obj("encoder"), [Obj("content") EXCEPT !.text = <<"params">>]>>
      /\ tasks' = tasks \o [n \in 1 .. u |->
             Task("mpread", at + 1, Len(heap) + n, n = u /\ Closes(files))]
      /\ cbs' = cbs \o [n \in 1 .. u |-> Len(heap) + n]
      /\ encoder' = Len(heap) + u + 1
      /\ context' = Len(heap) + u + 1 + 1
      /\ UNCHANGED <<body, encoding>>
  BY DEF Multipart
<1> HIDE DEF u
<1>4. /\ Grow(u + 2, u) /\ Len(heap) \in Nat /\ Len(heap') = Len(heap) + u + 2
      /\ heap'[Len(heap) + u + 1].kind = "encoder"
      /\ heap'[Len(heap) + u + 2].kind = "content"
      /\ \A j \in 1 .. u + 2 : heap'[Len(heap) + j].kind # "proxy"
  BY <1>1, <1>2, <1>3, AllocForm
<1>5. /\ encoder' = Len(heap) + u + 1 /\ context' = Len(heap) + u + 2
      /\ encoder' \in Nat /\ context' \in Nat /\ context' # Null
      /\ encoder' \in 1 .. Len(heap') /\ context' \in 1 .. Len(heap')
  BY <1>2, <1>3, <1>4 DEF Null
<1>6. OfSeries'
  BY <1>4, <1>5 DEF OfSeries
<1>7. u + 2 \in Nat /\ u <= u + 2
  BY <1>2
<1>8. Fetches' <=> Fetches
  BY DEF Fetches, Fetched, InCall
<1>9. at' \in Nat /\ at <= at' /\ calls' = calls
  BY <1>1 DEF ServerType, InCall
<1>10. Proxies'
  BY <1>1, <1>2, <1>4, <1>7, <1>8, <1>9, ProxiesKept DEF Grow
<1>11. MoreTasks(u)
  BY <1>1, <1>2, <1>3, <1>5, FormTasks
<1>12. MorePieces(0)
  BY <1>1, <1>3, NoMore
<1>13. QED
  BY <1>2, <1>4, <1>5, <1>6, <1>7, <1>10, <1>11, <1>12, CallKeeps

(* Whichever call it is.                                                   *)
LEMMA CallStep ==
    ASSUME IInv, Call
    PROVE  IInv'
<1>1. InCall /\ Do(at + 1, calls[at + 1])
  BY DEF Call, InCall
<1>2. calls[at + 1].op \in Ops
  <2>1. at + 1 \in 1 .. Len(calls) /\ calls \in Programs
    BY <1>1, ProgramsAssumption DEF IInv, ServerType, InCall
  <2>2. QED
    BY <2>1, ProgramsAssumption
<1>3. CASE calls[at + 1].op = "string"
  <2>1. String(at + 1, "text", FALSE) /\ Keep
    BY <1>1, <1>3 DEF Do
  <2>2. QED
    BY <1>1, <2>1, StringCall DEF Keep
<1>4. CASE calls[at + 1].op \in {"move", "json"}
  <2>1. String(at + 1, "text", TRUE) /\ Keep
    BY <1>1, <1>4 DEF Do
  <2>2. QED
    BY <1>1, <2>1, StringCall DEF Keep
<1>5. CASE calls[at + 1].op = "badjson"
  <2>1. String(at + 1, "error", TRUE) /\ Keep
    BY <1>1, <1>5 DEF Do, Error
  <2>2. QED
    BY <1>1, <2>1, StringCall DEF Keep
<1>6. CASE calls[at + 1].op \in {"gzip", "br"}
  <2>1. UNCHANGED <<heap, body, cbs, tasks, context, encoder>>
    BY <1>1, <1>6 DEF Do
  <2>2. QED
    BY <1>1, <2>1, HeaderCall
<1>7. CASE calls[at + 1].op = "file"
  <2>1. send_file(at + 1, calls[at + 1]) /\ UNCHANGED <<context, encoder, encoding>>
    BY <1>1, <1>7 DEF Do
  <2>2. CASE /\ heap' = Append(heap, Obj("buf"))
             /\ cbs' = Append(cbs, Len(heap) + 1)
             /\ tasks' = Append(tasks, Task("pread", at + 1, Len(heap) + 1, FALSE))
             /\ UNCHANGED body
    BY <1>1, <1>7, <2>1, <2>2, FileCall
  <2>3. CASE String(at + 1, "error", TRUE) /\ UNCHANGED tasks
    BY <1>1, <2>1, <2>3, StringCall
  <2>4. QED
    BY <2>1, <2>2, <2>3 DEF send_file, Error
<1>8. CASE calls[at + 1].op \in {"save", "savemsg"}
  <2>1. Save(at + 1)
    BY <1>1, <1>8 DEF Do
  <2>2. /\ heap' = Append(heap, Obj("save"))
        /\ cbs' = Append(cbs, Len(heap) + 1)
        /\ tasks' = Append(tasks, Task("pwrite", at + 1, Len(heap) + 1, FALSE))
        /\ UNCHANGED <<body, encoder, context>>
    BY <2>1 DEF Save, Push
  <2>3. QED
    BY <1>1, <1>8, <2>2, FileCall
<1>9. CASE calls[at + 1].op = "multipart"
  <2>1. Multipart(at + 1, calls[at + 1].files)
    BY <1>1, <1>9 DEF Do
  <2>2. QED
    BY <1>1, <1>9, <2>1, MultipartCall
<1>10. CASE calls[at + 1].op = "http"
  <2>1. Http(at + 1, calls[at + 1].good)
    BY <1>1, <1>10 DEF Do
  <2>2. QED
    BY <1>1, <1>10, <2>1, HttpCall
<1>11. CASE calls[at + 1].op \in {"mysql", "mysqlfunc", "redis", "timer"}
  <2>1. Query(at + 1, calls[at + 1].op)
    BY <1>1, <1>11 DEF Do
  <2>2. QED
    BY <1>1, <1>11, <2>1, QueryCall
<1>12. QED
  BY <1>2, <1>3, <1>4, <1>5, <1>6, <1>7, <1>8, <1>9, <1>10, <1>11 DEF Ops

(* Nothing changes when the handler returns but who runs.                  *)
LEMMA HandlerReturnsStep ==
    ASSUME IInv, HandlerReturns
    PROVE  IInv'
<1>1. ServerType /\ Owned /\ OfSeries /\ Proxies /\ Answering
  BY DEF IInv, HandlerReturns
<1>2. ServerType'
  BY <1>1 DEF ServerType, HandlerReturns
<1>3. Owned' /\ OfSeries' /\ Proxies'
  BY <1>1 DEF Owned, OfSeries, Proxies, Registered, Fetches, Fetched, HandlerReturns
<1>4. NothingFreed' /\ Waiting'
  BY <1>1 DEF Answering, NothingFreed, Waiting, TaskOk, Holds, HandlerReturns
<1>5. \A j \in 1 .. Len(body) : PieceOk(body[j])'
  <2> SUFFICES ASSUME NEW j \in 1 .. Len(body) PROVE PieceOk(body[j])'
    OBVIOUS
  <2>1. PieceOk(body[j]) /\ UNCHANGED <<body, heap, tasks, calls>>
    BY <1>1 DEF Answering, Pieces, HandlerReturns
  <2>2. /\ body'[j].obj \in 0 .. Len(heap')
        /\ OneForm' /\ body'[j].obj # Null => heap'[body'[j].obj].kind # "content"
    BY <2>1 DEF PieceOk, OneForm, Multiparts, HandlerReturns
  <2>3. QED
    BY <2>2 DEF PieceOk
<1>6. Pieces'
  BY <1>1, <1>5 DEF Answering, Pieces, OneForm, Multiparts, HandlerReturns
<1>7. QED
  BY <1>2, <1>3, <1>4, <1>6 DEF IInv, Answering, HandlerReturns

-----------------------------------------------------------------------------
(* The series                                                              *)

(* The task at the head ends; what the others need is still there.         *)
LEMMA EndWaiting ==
    ASSUME ServerType, Waiting, NEW kind, NEW r \in BOOLEAN, Finish(kind, r),
           Len(heap') \in Nat, Len(heap) <= Len(heap'),
           \A o \in 1 .. Len(heap) : heap'[o].kind = heap[o].kind
    PROVE  /\ Waiting' /\ tasks' \in Seq(Subtask)
           /\ outcome' \in [1 .. Len(calls') -> Seq(BOOLEAN)]
           /\ \A j \in 1 .. Len(tasks') :
                  tasks'[j] = tasks[j + 1] /\ j + 1 \in 2 .. Len(tasks)
           /\ 1 \in 1 .. Len(tasks) /\ First \in Subtask /\ First.kind = kind
           /\ TaskOk(First) /\ First.of \in 1 .. Len(calls)
           /\ outcome' = [outcome EXCEPT ![First.of] = Append(@, r)]
<1>1. tasks \in Seq(Subtask) /\ tasks # << >> /\ tasks' = Tail(tasks)
  BY DEF ServerType, Finish
<1>2. /\ tasks' \in Seq(Subtask) /\ Len(tasks) \in Nat /\ Len(tasks) >= 1
      /\ Len(tasks') = Len(tasks) - 1 /\ First \in Subtask
      /\ \A j \in 1 .. Len(tasks') :
             tasks'[j] = tasks[j + 1] /\ j + 1 \in 2 .. Len(tasks)
  BY <1>1, OneLess DEF First
<1>3. /\ UNCHANGED <<calls, at, context>> /\ First.kind = kind
      /\ outcome' = [outcome EXCEPT ![First.of] = Append(@, r)]
  BY DEF Finish
<1>4. 1 \in 1 .. Len(tasks) /\ TaskOk(First)
  BY <1>2 DEF Waiting, First
<1>5. /\ Len(calls) \in Nat /\ at \in 0 .. Len(calls)
      /\ outcome \in [1 .. Len(calls) -> Seq(BOOLEAN)]
  BY ProgramsAssumption DEF ServerType
<1>6. First.of \in 1 .. at /\ First.of \in 1 .. Len(calls)
  BY <1>4, <1>5 DEF TaskOk
<1>7. /\ outcome' \in [1 .. Len(calls') -> Seq(BOOLEAN)]
      /\ \A k \in 1 .. Len(calls) : k # First.of => outcome'[k] = outcome[k]
  <2>1. Append(outcome[First.of], r) \in Seq(BOOLEAN)
    BY <1>5, <1>6
  <2>2. QED
    BY <1>3, <1>5, <1>6, <2>1
<1>8. ASSUME NEW j \in 1 .. Len(tasks') PROVE TaskOk(tasks[j])'
  <2>1. /\ j + 1 \in 1 .. Len(tasks) /\ tasks'[j] = tasks[j + 1] /\ j + 1 # 1
    BY <1>2
  <2> DEFINE t == tasks[j + 1]
  <2>2. TaskOk(t)
    BY <2>1 DEF Waiting
  <2>3. tasks'[j] = t
    BY <2>1
  <2>4. t.kind = "http" => First.kind # "http"
    BY <1>4, <2>1 DEF Waiting, First
  <2> HIDE DEF t
  <2>5. t.of \in 1 .. at /\ t.of \in 1 .. Len(calls)
    BY <1>5, <2>2 DEF TaskOk
  <2>6. t.kind = "http" => outcome'[t.of] = << >>
    <3> SUFFICES ASSUME t.kind = "http" PROVE outcome'[t.of] = << >>
      OBVIOUS
    <3>1. calls[t.of].op = "http" /\ outcome[t.of] = << >>
      BY <2>2 DEF TaskOk
    <3>2. calls[First.of].op # "http"
      BY <1>4, <2>4 DEF TaskOk
    <3>3. QED
      BY <1>7, <2>5, <3>1, <3>2
  <2>7. \A kd : Holds(t, kd) => t.obj \in 1 .. Len(heap') /\ heap'[t.obj].kind = kd
    <3>1. Len(heap) \in Nat
      BY DEF ServerType
    <3>2. QED
      BY <3>1 DEF Holds
  <2>8. QED
    BY <1>3, <2>2, <2>3, <2>5, <2>6, <2>7 DEF TaskOk, Holds
<1>9. \A i, j \in 1 .. Len(tasks') :
          tasks'[i].kind = "http" /\ tasks'[j].kind = "http" => i = j
  <2> SUFFICES ASSUME NEW i \in 1 .. Len(tasks'), NEW j \in 1 .. Len(tasks'),
                      tasks'[i].kind = "http", tasks'[j].kind = "http"
               PROVE  i = j
    OBVIOUS
  <2>1. /\ i + 1 \in 1 .. Len(tasks) /\ tasks[i + 1].kind = "http"
        /\ j + 1 \in 1 .. Len(tasks) /\ tasks[j + 1].kind = "http"
    <3>1. \A l \in 1 .. Len(tasks') :
              tasks'[l] = tasks[l + 1] /\ l + 1 \in 1 .. Len(tasks)
      BY <1>2
    <3>2. QED
      BY <3>1
  <2>2. i + 1 = j + 1
    BY <2>1 DEF Waiting
  <2>3. QED
    BY <1>2, <2>2
<1>10. \A k \in 1 .. Len(calls') : k > at' => outcome'[k] = << >>
  BY <1>3, <1>5, <1>6, <1>7 DEF Waiting
<1>11. Waiting'
  BY <1>8, <1>9, <1>10 DEF Waiting
<1>12. QED
  BY <1>2, <1>3, <1>4, <1>6, <1>7, <1>11

(* Only a fetch that succeeds makes a difference to Fetches.               *)
LEMMA FetchesKept ==
    ASSUME ServerType, Waiting, NEW kind, NEW r \in BOOLEAN, Finish(kind, r),
           kind # "http" \/ ~r
    PROVE  Fetches' <=> Fetches
<1>1. tasks \in Seq(Subtask) /\ tasks # << >>
  BY DEF ServerType, Finish
<1>2. Len(tasks) \in Nat /\ Len(tasks) >= 1
  BY <1>1, OneLess
<1>3. TaskOk(First) /\ First.kind = kind
  BY <1>2 DEF Waiting, First, Finish
<1>4. /\ First.of \in 1 .. Len(calls)
      /\ outcome \in [1 .. Len(calls) -> Seq(BOOLEAN)] /\ calls' = calls
      /\ outcome' = [outcome EXCEPT ![First.of] = Append(@, r)]
  BY <1>3, ProgramsAssumption DEF TaskOk, ServerType, Finish
<1>5. \A k \in 1 .. Len(calls) : Fetched(k)' <=> Fetched(k)
  <2> SUFFICES ASSUME NEW k \in 1 .. Len(calls) PROVE Fetched(k)' <=> Fetched(k)
    OBVIOUS
  <2>1. CASE k # First.of
    BY <1>4, <2>1 DEF Fetched
  <2>2. CASE k = First.of /\ kind # "http"
    BY <1>3, <1>4, <2>2 DEF Fetched, TaskOk
  <2>3. CASE k = First.of /\ kind = "http" /\ ~r
    <3>1. outcome[k] = << >>
      BY <1>3, <2>3 DEF TaskOk
    <3>2. outcome'[k] = Append(<< >>, FALSE)
      BY <1>4, <2>3, <3>1
    <3>3. Append(<< >>, FALSE) # <<TRUE>> /\ << >> # <<TRUE>>
      OBVIOUS
    <3>4. QED
      BY <3>1, <3>2, <3>3 DEF Fetched
  <2>4. QED
    BY <2>1, <2>2, <2>3
<1>6. QED
  BY <1>4, <1>5 DEF Fetches

TextsKept == \A o \in 1 .. Len(heap) : heap'[o].text = heap[o].text

(* A task other than a read of a form leaves every content as it is.       *)
LEMMA EndPieces ==
    ASSUME ServerType, Waiting, Pieces, NEW kind, NEW r \in BOOLEAN, Finish(kind, r),
           NEW n \in Nat, NEW m \in Nat, Grow(n, m), TextsKept,
           NEW v \in Nat, MorePieces(v)
    PROVE  Pieces'
<1>1. Len(heap) \in Nat /\ Len(heap') = Len(heap) + n
      /\ \A o \in 1 .. Len(heap) : heap'[o].kind = heap[o].kind
  BY DEF ServerType, Grow, Enter
<1>2. \A j \in 1 .. Len(tasks') :
          tasks'[j] = tasks[j + 1] /\ j + 1 \in 2 .. Len(tasks)
  <2>1. Len(heap') \in Nat /\ Len(heap) <= Len(heap')
    BY <1>1
  <2>2. QED
    BY <1>1, <2>1, EndWaiting
<1>3. /\ OneForm' <=> OneForm
      /\ pc' = "series" /\ pc = "series"
  BY DEF OneForm, Multiparts, Finish
<1>4. ASSUME NEW j \in 1 .. Len(body') PROVE PieceOk(body[j])'
  <2>1. CASE j \in 1 .. Len(body)
    <3>1. PieceOk(body[j]) /\ body'[j] = body[j]
      BY <2>1 DEF Pieces, MorePieces
    <3>2. body[j].obj \in 0 .. Len(heap)
      BY <3>1 DEF PieceOk
    <3>3. body[j].obj \in 0 .. Len(heap')
      BY <1>1, <3>2
    <3>4. ASSUME OneForm, body[j].obj # Null, heap'[body[j].obj].kind = "content"
          PROVE  /\ body[j].len = Len(heap'[body[j].obj].text)
                 /\ \A i \in 1 .. Len(tasks') : tasks'[i].kind # "mpread"
      <4>1. body[j].obj \in 1 .. Len(heap)
        BY <1>1, <3>2, <3>4 DEF Null
      <4>2. /\ heap[body[j].obj].kind = "content"
            /\ heap'[body[j].obj].text = heap[body[j].obj].text
        BY <1>1, <3>4, <4>1 DEF TextsKept
      <4>3. /\ body[j].len = Len(heap[body[j].obj].text)
            /\ \A i \in 1 .. Len(tasks) : tasks[i].kind # "mpread"
        BY <3>1, <3>4, <4>2 DEF PieceOk
      <4>4. \A i \in 1 .. Len(tasks') : i + 1 \in 1 .. Len(tasks)
        BY <1>2
      <4>5. QED
        BY <1>2, <4>2, <4>3, <4>4
    <3>5. QED
      BY <1>3, <3>1, <3>3, <3>4 DEF PieceOk
  <2>2. CASE \E i \in 1 .. v : j = Len(body) + i
    BY <2>2 DEF MorePieces, PieceOk
  <2>3. QED
    <3>1. Len(body') = Len(body) + v /\ Len(body) \in Nat
      BY DEF MorePieces
    <3>2. j \in 1 .. Len(body) \/ \E i \in 1 .. v : j = Len(body) + i
      <4>1. j \in 1 .. Len(body) + v
        BY <3>1
      <4>2. QED
        BY <3>1, <4>1, Positions
    <3>3. QED
      BY <2>1, <2>2, <3>2
<1>5. ASSUME OneForm, NEW i \in 1 .. Len(tasks'), NEW j \in 1 .. Len(tasks'), i < j,
             tasks'[i].kind = "mpread", tasks'[j].kind = "mpread"
      PROVE  ~tasks'[i].last
  <2>1. /\ i + 1 \in 1 .. Len(tasks) /\ j + 1 \in 1 .. Len(tasks) /\ i + 1 < j + 1
        /\ tasks'[i] = tasks[i + 1] /\ tasks'[j] = tasks[j + 1]
    BY <1>2, <1>5
  <2>2. QED
    BY <1>5, <2>1 DEF Pieces
<1>6. QED
  BY <1>3, <1>4, <1>5 DEF Pieces

(* A task that ends like this keeps the invariant.                         *)
LEMMA EndKeeps ==
    ASSUME IInv, NEW kind, NEW r \in BOOLEAN, Finish(kind, r), kind # "http" \/ ~r,
           NEW n \in Nat, NEW m \in Nat, m <= n, Grow(n, m), TextsKept,
           \A j \in 1 .. n : heap'[Len(heap) + j].kind # "proxy",
           NEW v \in Nat, MorePieces(v)
    PROVE  IInv'
<1>1. /\ ServerType /\ Owned /\ OfSeries /\ Proxies /\ NothingFreed
      /\ Waiting /\ Pieces
  BY DEF IInv, Answering, Finish
<1>2. /\ Len(heap) \in Nat /\ Len(heap') \in Nat /\ Len(heap) <= Len(heap')
      /\ \A o \in 1 .. Len(heap) : heap'[o].kind = heap[o].kind
  BY <1>1 DEF ServerType, Grow, Enter
<1>3. /\ Waiting' /\ tasks' \in Seq(Subtask)
      /\ outcome' \in [1 .. Len(calls') -> Seq(BOOLEAN)]
  BY <1>1, <1>2, EndWaiting
<1>4. UNCHANGED <<calls, at, pc, context, encoder>> /\ pc = "series"
  BY DEF Finish
<1>5. ServerType'
  BY <1>1, <1>3, <1>4 DEF ServerType, Grow, Enter, MorePieces
<1>6. Owned' /\ NothingFreed'
  BY <1>1, Registers, NothingFreedKept DEF Grow
<1>7. OfSeries'
  BY <1>1, <1>4, OfSeriesKept DEF Grow
<1>8. Fetches' <=> Fetches
  BY <1>1, FetchesKept
<1>9. at' \in Nat /\ at <= at'
  BY <1>1, <1>4 DEF ServerType
<1>10. Proxies'
  BY <1>1, <1>4, <1>8, <1>9, ProxiesKept DEF Grow
<1>11. Pieces'
  BY <1>1, EndPieces
<1>12. QED
  BY <1>3, <1>4, <1>5, <1>6, <1>7, <1>10, <1>11 DEF IInv, Answering

(* The callback answers with a text.                                       *)
LEMMA StringEnd ==
    ASSUME IInv, NEW kind, NEW r \in BOOLEAN, Finish(kind, r), kind # "http" \/ ~r,
           NEW k, NEW says, NEW moved, String(k, says, moved)
    PROVE  IInv'
<1>1. ServerType /\ heap \in Seq(Object)
  BY DEF IInv, ServerType
<1>2. /\ Grow(1, 1) /\ MorePieces(1)
      /\ \A j \in 1 .. 1 : heap'[Len(heap) + j].kind = "string"
  BY <1>1, StringSays
<1>3. TextsKept
  <2>1. heap' = Append(heap, Obj("string"))
    BY DEF String
  <2>2. Obj("string") \in Object
    BY NewObject DEF Kinds, Managed
  <2>3. \A o \in 1 .. Len(heap) : heap'[o] = heap[o]
    BY <1>1, <2>1, <2>2, OneMore
  <2>4. QED
    BY <2>3 DEF TextsKept
<1>4. QED
  BY <1>2, <1>3, EndKeeps

(* The callback answers with what is in an object, or with a literal.      *)
LEMMA SaidEnd ==
    ASSUME IInv, NEW kind, NEW r \in BOOLEAN, Finish(kind, r), kind # "http",
           NEW says, NEW o \in 0 .. Len(heap), NEW len, Said(says, o, len),
           o # Null => heap[o].kind # "content"
    PROVE  IInv'
<1>1. ServerType
  BY DEF IInv
<1>2. UNCHANGED <<heap, cbs>>
      /\ body' = Append(body, Piece(First.of, says, o, "plain", len))
  BY DEF Said
<1>3. Grow(0, 0) /\ TextsKept
  BY <1>1, <1>2, AllocNothing DEF TextsKept
<1>4. MorePieces(1)
  BY <1>1, <1>2, PieceSaid
<1>5. QED
  BY <1>3, <1>4, EndKeeps

(* The callback leaves the answer to the user's function.                  *)
LEMMA SilentEnd ==
    ASSUME IInv, NEW kind, NEW r \in BOOLEAN, Finish(kind, r), kind # "http",
           UNCHANGED <<heap, body, cbs>>
    PROVE  IInv'
<1>1. ServerType
  BY DEF IInv
<1>2. Grow(0, 0) /\ TextsKept /\ MorePieces(0)
  BY <1>1, AllocNothing, NoMore DEF TextsKept
<1>3. QED
  BY <1>2, EndKeeps

(* The task at the head has what its callback uses.                        *)
LEMMA HeadOk ==
    ASSUME IInv, NEW kind, NEW r, Finish(kind, r)
    PROVE  /\ 1 \in 1 .. Len(tasks) /\ TaskOk(First) /\ First.kind = kind
           /\ ServerType /\ Waiting /\ OfSeries /\ Proxies /\ Owned /\ NothingFreed
           /\ Pieces /\ pc = "series"
<1>1. /\ ServerType /\ Waiting /\ OfSeries /\ Proxies /\ Owned /\ NothingFreed
      /\ Pieces /\ pc = "series"
  BY DEF IInv, Answering, Finish
<1>2. tasks \in Seq(Subtask) /\ tasks # << >>
  BY <1>1 DEF ServerType, Finish
<1>3. Len(tasks) \in Nat /\ Len(tasks) >= 1
  BY <1>2, OneLess
<1>4. 1 \in 1 .. Len(tasks)
  BY <1>3
<1>5. QED
  BY <1>1, <1>4 DEF Waiting, First, Finish

(* pread_callback                                                          *)
LEMMA PreadStep ==
    ASSUME IInv, NEW ok \in BOOLEAN, pread_callback(ok)
    PROVE  IInv'
<1>1. Finish("pread", ok)
  BY DEF pread_callback
<1>2. Holds(First, "buf") /\ ServerType
  BY <1>1, HeadOk DEF TaskOk
<1>3. CASE ok
  <2>1. Said("data", First.obj, ReadBytes(calls[First.of]))
    BY <1>3 DEF pread_callback
  <2>2. First.obj \in 0 .. Len(heap) /\ heap[First.obj].kind # "content"
    BY <1>2 DEF Holds, ServerType
  <2>3. QED
    BY <1>1, <2>1, <2>2, SaidEnd
<1>4. CASE ~ok
  <2>1. String(First.of, "error", TRUE)
    BY <1>4 DEF pread_callback, Error
  <2>2. QED
    BY <1>1, <2>1, StringEnd
<1>5. QED
  BY <1>3, <1>4

(* pwrite_callback                                                         *)
LEMMA PwriteStep ==
    ASSUME IInv, NEW ok \in BOOLEAN, pwrite_callback(ok)
    PROVE  IInv'
<1>1. Finish("pwrite", ok)
  BY DEF pwrite_callback
<1>2. Holds(First, "save") /\ ServerType
  BY <1>1, HeadOk DEF TaskOk
<1>3. CASE String(First.of, "error", TRUE)
  BY <1>1, <1>3, StringEnd
<1>4. CASE Said("saved", Null, 0)
  <2>1. 0 \in 0 .. Len(heap) /\ Null = 0
    BY <1>2 DEF ServerType, Null
  <2>2. QED
    BY <1>1, <1>4, <2>1, SaidEnd
<1>5. CASE Said("saved", First.obj, 0)
  <2>1. First.obj \in 0 .. Len(heap) /\ heap[First.obj].kind # "content"
    BY <1>2 DEF Holds, ServerType
  <2>2. QED
    BY <1>1, <1>5, <2>1, SaidEnd
<1>6. QED
  BY <1>3, <1>4, <1>5 DEF pwrite_callback, Error

(* MySQL, Redis and Timer                                                  *)
LEMMA QueryStep ==
    ASSUME IInv, NEW ok \in BOOLEAN,
           mysql_callback(ok) \/ redis_callback(ok) \/ cursor_callback(ok) \/ timer_callback
    PROVE  IInv'
<1>1. CASE mysql_callback(ok)
  BY <1>1, StringEnd DEF mysql_callback
<1>2. CASE redis_callback(ok)
  BY <1>2, StringEnd DEF redis_callback
<1>3. CASE cursor_callback(ok)
  <2>1. CASE ok
    BY <1>3, <2>1, SilentEnd DEF cursor_callback
  <2>2. CASE ~ok
    BY <1>3, <2>2, StringEnd DEF cursor_callback
  <2>3. QED
    BY <2>1, <2>2
<1>4. CASE timer_callback
  BY <1>4, SilentEnd DEF timer_callback
<1>5. QED
  BY <1>1, <1>2, <1>3, <1>4

(* The callback of a read of a form: the content grows, and is not part of *)
(* the body before it has stopped growing.                                 *)
LEMMA MultipartStep ==
    ASSUME IInv, NEW ok \in BOOLEAN, multipart_callback(ok)
    PROVE  IInv'
<1> DEFINE grown == heap[context].text \o (IF ok THEN <<"file">> ELSE << >>)
                                   \o (IF First.last THEN <<"end">> ELSE << >>)
           x == Piece(First.of, "form", context, "plain", Len(grown))
<1>1. /\ Finish("mpread", ok)
      /\ heap' = [heap EXCEPT ![context].text = grown]
      /\ body' = IF First.last THEN Append(body, x) ELSE body
      /\ UNCHANGED <<cbs, encoding>>
  BY DEF multipart_callback
<1>2. /\ 1 \in 1 .. Len(tasks) /\ TaskOk(First) /\ First.kind = "mpread"
      /\ ServerType /\ Waiting /\ OfSeries /\ Proxies /\ Owned /\ NothingFreed
      /\ Pieces /\ pc = "series"
  BY <1>1, HeadOk
<1>3. context \in 1 .. Len(heap) /\ heap[context].kind = "content" /\ context # Null
  BY <1>2 DEF TaskOk, OfSeries
<1>4. heap \in Seq(Object) /\ Len(heap) \in Nat /\ heap[context] \in Object
  BY <1>2, <1>3 DEF ServerType
<1>5. grown \in Seq(Words)
  <2>1. heap[context].text \in Seq(Words)
    BY <1>4 DEF Object
  <2>2. <<"file">> \in Seq(Words) /\ <<"end">> \in Seq(Words) /\ << >> \in Seq(Words)
    BY DEF Words
  <2>3. \A a, b, c \in Seq(Words) : a \o b \o c \in Seq(Words)
    OBVIOUS
  <2>4. QED
    BY <2>1, <2>2, <2>3
<1>6. x.obj = context /\ x.len = Len(grown)
  BY DEF Piece
<1> HIDE DEF grown, x
<1>7. PICK c \in Object : /\ heap' = [heap EXCEPT ![context] = c]
                          /\ c.kind = heap[context].kind
                          /\ c.frees = heap[context].frees /\ c.text = grown
  <2> DEFINE c == [heap[context] EXCEPT !.text = grown]
  <2>1. c \in Object /\ c.kind = heap[context].kind
        /\ c.frees = heap[context].frees /\ c.text = grown
    BY <1>4, <1>5 DEF Object
  <2>2. heap' = [heap EXCEPT ![context] = c]
    BY <1>1
  <2>3. QED
    BY <2>1, <2>2
<1>8. /\ heap' \in Seq(Object) /\ Len(heap') = Len(heap)
      /\ heap'[context] = c
      /\ \A o \in 1 .. Len(heap) : o # context => heap'[o] = heap[o]
  BY <1>3, <1>4, <1>7
<1>9. /\ \A o \in 1 .. Len(heap) : heap'[o].kind = heap[o].kind
      /\ \A o \in 1 .. Len(heap) : heap'[o].frees = heap[o].frees
  BY <1>7, <1>8
<1>10. Grow(0, 0)
  <2>1. cbs' \in Seq(Nat) /\ Len(cbs') = Len(cbs) + 0 /\ cbs' = cbs
        /\ Len(heap') = Len(heap) + 0
    BY <1>1, <1>2, <1>4, <1>8 DEF ServerType
  <2>2. QED
    BY <1>8, <1>9, <2>1 DEF Grow, Enter
<1>11. /\ Waiting' /\ tasks' \in Seq(Subtask)
       /\ outcome' \in [1 .. Len(calls') -> Seq(BOOLEAN)]
       /\ \A j \in 1 .. Len(tasks') :
              tasks'[j] = tasks[j + 1] /\ j + 1 \in 2 .. Len(tasks)
  <2>1. Len(heap') \in Nat /\ Len(heap) <= Len(heap')
    BY <1>4, <1>8
  <2>2. QED
    BY <1>1, <1>2, <1>9, <2>1, EndWaiting
<1>12. UNCHANGED <<calls, at, pc, context, encoder>>
  BY <1>1 DEF Finish
<1>13. /\ IsSeq(body') /\ Len(body) \in Nat
       /\ \A j \in 1 .. Len(body') :
              \/ j \in 1 .. Len(body) /\ body'[j] = body[j]
              \/ First.last /\ body'[j] = x
  <2>1. IsSeq(body)
    BY <1>2 DEF ServerType
  <2>2. /\ IsSeq(Append(body, x)) /\ Len(body) \in Nat
        /\ Len(Append(body, x)) = Len(body) + 1
        /\ \A j \in 1 .. Len(body) : Append(body, x)[j] = body[j]
        /\ Append(body, x)[Len(body) + 1] = x
    BY <2>1, OneMorePiece
  <2>3. CASE First.last
    <3>1. body' = Append(body, x)
      BY <1>1, <2>3
    <3>2. QED
      BY <2>2, <2>3, <3>1
  <2>4. CASE ~First.last
    <3>1. body' = body
      BY <1>1, <2>4
    <3>2. QED
      BY <2>1, <2>2, <3>1
  <2>5. QED
    BY <2>3, <2>4
<1>14. ServerType'
  BY <1>2, <1>8, <1>1, <1>11, <1>12, <1>13 DEF ServerType
<1>15. Owned' /\ NothingFreed' /\ OfSeries'
  BY <1>2, <1>10, <1>12, Registers, NothingFreedKept, OfSeriesKept DEF Grow
<1>16. Proxies'
  <2>1. Fetches' <=> Fetches
    BY <1>1, <1>2, FetchesKept
  <2>2. at' \in Nat /\ at <= at'
    BY <1>2, <1>12 DEF ServerType
  <2>3. \A j \in 1 .. 0 : heap'[Len(heap) + j].kind # "proxy"
    OBVIOUS
  <2>4. Enter(0, 0) /\ calls' = calls
    BY <1>10, <1>12 DEF Grow
  <2>5. QED
    BY <1>2, <2>1, <2>2, <2>3, <2>4, ProxiesKept
<1>17. OneForm' <=> OneForm
  BY <1>12 DEF OneForm, Multiparts
<1>18. ASSUME OneForm, First.last, NEW j \in 1 .. Len(tasks')
       PROVE  tasks'[j].kind # "mpread"
  <2>1. j + 1 \in 1 .. Len(tasks) /\ 1 < j + 1 /\ tasks'[j] = tasks[j + 1]
    BY <1>11
  <2>2. tasks[1].kind = "mpread" /\ tasks[1].last
    BY <1>2, <1>18 DEF First
  <2>3. QED
    BY <1>2, <1>18, <2>1, <2>2 DEF Pieces
<1>19. ASSUME NEW j \in 1 .. Len(body') PROVE PieceOk(body[j])'
  <2>1. CASE j \in 1 .. Len(body) /\ body'[j] = body[j]
    <3>1. PieceOk(body[j])
      BY <1>2, <2>1 DEF Pieces
    <3>2. body[j].obj \in 0 .. Len(heap)
      BY <3>1 DEF PieceOk
    <3>3. OneForm /\ body[j].obj # Null => heap[body[j].obj].kind # "content"
      BY <1>2, <3>1 DEF PieceOk, First
    <3>4. body[j].obj # Null => body[j].obj \in 1 .. Len(heap)
      BY <1>4, <3>2 DEF Null
    <3>5. OneForm /\ body[j].obj # Null => heap'[body[j].obj].kind # "content"
      BY <1>9, <3>3, <3>4
    <3>6. QED
      BY <1>8, <1>17, <2>1, <3>2, <3>5 DEF PieceOk
  <2>2. CASE First.last /\ body'[j] = x
    <3>1. x.obj \in 0 .. Len(heap') /\ x.len = Len(heap'[x.obj].text)
      BY <1>3, <1>4, <1>6, <1>7, <1>8
    <3>2. pc' = "series"
      BY <1>2, <1>12
    <3>3. QED
      BY <1>17, <1>18, <2>2, <3>1, <3>2 DEF PieceOk
  <2>3. QED
    BY <1>13, <2>1, <2>2
<1>20. ASSUME OneForm, NEW i \in 1 .. Len(tasks'), NEW j \in 1 .. Len(tasks'), i < j,
              tasks'[i].kind = "mpread", tasks'[j].kind = "mpread"
       PROVE  ~tasks'[i].last
  <2>1. /\ i + 1 \in 1 .. Len(tasks) /\ j + 1 \in 1 .. Len(tasks) /\ i + 1 < j + 1
        /\ tasks'[i] = tasks[i + 1] /\ tasks'[j] = tasks[j + 1]
    BY <1>11, <1>20
  <2>2. QED
    BY <1>2, <1>20, <2>1 DEF Pieces
<1>21. Pieces'
  BY <1>17, <1>19, <1>20 DEF Pieces
<1>22. QED
  BY <1>2, <1>11, <1>12, <1>14, <1>15, <1>16, <1>21 DEF IInv, Answering

(* A fetch that succeeds registers the context of its call, which nothing  *)
(* has registered before: there is no other proxy call.                    *)
LEMMA ProxySucceeds ==
    ASSUME IInv, Finish("http", TRUE), cbs' = Append(cbs, First.obj), heap' = heap,
           body' = <<Piece(First.of, "remote", Null, "plain", 0)>>
    PROVE  IInv'
<1>1. /\ 1 \in 1 .. Len(tasks) /\ TaskOk(First) /\ First.kind = "http"
      /\ ServerType /\ Waiting /\ OfSeries /\ Proxies /\ Owned /\ NothingFreed
      /\ Pieces /\ pc = "series"
  BY HeadOk
<1>2. /\ Waiting' /\ tasks' \in Seq(Subtask)
      /\ outcome' \in [1 .. Len(calls') -> Seq(BOOLEAN)]
      /\ First.of \in 1 .. Len(calls)
      /\ outcome' = [outcome EXCEPT ![First.of] = Append(@, TRUE)]
      /\ \A j \in 1 .. Len(tasks') :
             tasks'[j] = tasks[j + 1] /\ j + 1 \in 2 .. Len(tasks)
  <2>1. Len(heap') \in Nat /\ Len(heap) <= Len(heap')
    BY <1>1 DEF ServerType
  <2>2. QED
    BY <1>1, <2>1, EndWaiting
<1>3. UNCHANGED <<calls, at, pc, context, encoder>>
  BY DEF Finish
<1> DEFINE p == First.obj
<1>4. /\ p \in 1 .. Len(heap) /\ heap[p].kind = "proxy" /\ outcome[First.of] = << >>
      /\ calls[First.of].op = "http"
  BY <1>1 DEF TaskOk, Holds
<1> HIDE DEF p
<1>5. ~Fetches
  <2>1. << >> # <<TRUE>>
    OBVIOUS
  <2>2. \A k \in 1 .. Len(calls) : calls[k].op = "http" => k = First.of
    BY <1>1, <1>2, <1>4, ProgramsAssumption DEF ServerType
  <2>3. QED
    BY <1>4, <2>1, <2>2 DEF Fetches, Fetched
<1>6. Fetches'
  <2>1. outcome \in [1 .. Len(calls) -> Seq(BOOLEAN)]
    BY <1>1 DEF ServerType
  <2>2. outcome'[First.of] = Append(<< >>, TRUE)
    BY <1>2, <1>4, <2>1
  <2>3. Append(<< >>, TRUE) = <<TRUE>>
    OBVIOUS
  <2>4. calls'[First.of].op = "http" /\ outcome'[First.of] = <<TRUE>>
    BY <1>3, <1>4, <2>2, <2>3
  <2>5. First.of \in 1 .. Len(calls')
    BY <1>2, <1>3
  <2>6. QED
    BY <2>4, <2>5 DEF Fetches, Fetched
<1>7. \A j \in 1 .. Len(cbs) : cbs[j] # p
  BY <1>1, <1>4, <1>5 DEF Proxies, Registered
<1>8. /\ cbs' \in Seq(Nat) /\ Len(cbs) \in Nat /\ Len(cbs') = Len(cbs) + 1
      /\ \A j \in 1 .. Len(cbs) : cbs'[j] = cbs[j]
      /\ cbs'[Len(cbs) + 1] = p
  <2>1. cbs \in Seq(Nat) /\ p \in Nat
    BY <1>1, <1>4 DEF ServerType
  <2>2. cbs' = Append(cbs, p)
    BY DEF p
  <2>3. QED
    BY <2>1, <2>2, OneMore
<1>9. \A j \in 1 .. Len(cbs') : j \in 1 .. Len(cbs) \/ j = Len(cbs) + 1
  BY <1>8
<1>10. Owned'
  <2>1. \A j \in 1 .. Len(cbs') : /\ cbs'[j] \in 1 .. Len(heap')
                                  /\ heap'[cbs'[j]].kind \in Managed \cup {"proxy"}
    BY <1>1, <1>4, <1>8, <1>9 DEF Owned
  <2>2. \A i, j \in 1 .. Len(cbs') : cbs'[i] = cbs'[j] => i = j
    BY <1>1, <1>7, <1>8, <1>9 DEF Owned
  <2>3. ASSUME NEW o \in 1 .. Len(heap'), heap'[o].kind \in Managed PROVE Registered(o)'
    <3>1. PICK j \in 1 .. Len(cbs) : cbs[j] = o
      BY <1>1, <2>3 DEF Owned, Registered
    <3>2. j \in 1 .. Len(cbs') /\ cbs'[j] = o
      BY <1>8, <3>1
    <3>3. QED
      BY <3>2 DEF Registered
  <2>4. QED
    BY <2>1, <2>2, <2>3 DEF Owned
<1>11. Proxies'
  <2>1. ASSUME NEW o \in 1 .. Len(heap'), heap'[o].kind = "proxy"
        PROVE  (Registered(o)' <=> Fetches') /\ \E k \in 1 .. at' : calls'[k].op = "http"
    <3>1. o = p /\ \E k \in 1 .. at : calls[k].op = "http"
      BY <1>1, <1>4, <2>1 DEF Proxies
    <3>2. Len(cbs) + 1 \in 1 .. Len(cbs') /\ cbs'[Len(cbs) + 1] = o
      BY <1>8, <3>1
    <3>3. Registered(o)'
      BY <3>2 DEF Registered
    <3>4. QED
      BY <1>3, <1>6, <3>1, <3>3
  <2>2. \A o, q \in 1 .. Len(heap') :
            heap'[o].kind = "proxy" /\ heap'[q].kind = "proxy" => o = q
    BY <1>1 DEF Proxies
  <2>3. QED
    BY <2>1, <2>2 DEF Proxies
<1>12. IsSeq(body') /\ Pieces'
  <2> DEFINE x == Piece(First.of, "remote", Null, "plain", 0)
  <2>1. x.obj = 0
    BY DEF Piece, Null
  <2>2. body' = <<x>>
    OBVIOUS
  <2> HIDE DEF x
  <2>3. Len(body') = 1 /\ body'[1] = x /\ \A j \in 1 .. Len(body') : j = 1
    BY <2>2
  <2>4. IsSeq(body')
    <3>1. <<x>> \in Seq({x})
      OBVIOUS
    <3>2. {body'[j] : j \in 1 .. Len(body')} = {x}
      BY <2>3
    <3>3. QED
      BY <2>2, <3>1, <3>2 DEF IsSeq
  <2>5. Len(heap') \in Nat
    BY <1>1 DEF ServerType
  <2>6. ASSUME NEW j \in 1 .. Len(body') PROVE PieceOk(body[j])'
    <3>1. body'[j].obj = 0
      BY <2>1, <2>3
    <3>2. QED
      BY <2>5, <3>1 DEF PieceOk, Null
  <2>7. OneForm' <=> OneForm
    BY <1>3 DEF OneForm, Multiparts
  <2>8. ASSUME OneForm, NEW i \in 1 .. Len(tasks'), NEW j \in 1 .. Len(tasks'), i < j,
               tasks'[i].kind = "mpread", tasks'[j].kind = "mpread"
        PROVE  ~tasks'[i].last
    <3>1. /\ i + 1 \in 1 .. Len(tasks) /\ j + 1 \in 1 .. Len(tasks) /\ i + 1 < j + 1
          /\ tasks'[i] = tasks[i + 1] /\ tasks'[j] = tasks[j + 1]
      <4>1. \A l \in 1 .. Len(tasks') :
                tasks'[l] = tasks[l + 1] /\ l + 1 \in 1 .. Len(tasks)
        BY <1>2
      <4>2. i + 1 < j + 1
        BY <2>8
      <4>3. QED
        BY <4>1, <4>2
    <3>2. QED
      BY <1>1, <2>8, <3>1 DEF Pieces
  <2>9. QED
    BY <2>4, <2>6, <2>7, <2>8 DEF Pieces
<1>13. ServerType'
  BY <1>1, <1>2, <1>3, <1>8, <1>12 DEF ServerType
<1>14. OfSeries' /\ NothingFreed'
  BY <1>1, <1>3 DEF OfSeries, NothingFreed
<1>15. QED
  BY <1>1, <1>2, <1>3, <1>10, <1>11, <1>12, <1>13, <1>14 DEF IInv, Answering

(* proxy_http_callback                                                     *)
LEMMA ProxyStep ==
    ASSUME IInv, NEW ok \in BOOLEAN, proxy_http_callback(ok)
    PROVE  IInv'
<1>1. CASE ok
  <2>1. /\ Finish("http", TRUE) /\ cbs' = Append(cbs, First.obj) /\ heap' = heap
        /\ body' = <<Piece(First.of, "remote", Null, "plain", 0)>>
    <3>1. ok = TRUE
      BY <1>1
    <3>2. QED
      BY <3>1 DEF proxy_http_callback, ProxyCallback
  <2>2. QED
    BY <2>1, ProxySucceeds
<1>2. CASE ~ok
  <2>1. Finish("http", ok) /\ String(First.of, "error", TRUE)
    BY <1>2 DEF proxy_http_callback, Error
  <2>2. QED
    BY <1>2, <2>1, StringEnd
<1>3. QED
  BY <1>1, <1>2

(* Whichever task it is.                                                   *)
LEMMA RunTaskStep ==
    ASSUME IInv, NEW ok \in BOOLEAN, RunTask(ok)
    PROVE  IInv'
  BY PreadStep, PwriteStep, MultipartStep, QueryStep, ProxyStep DEF RunTask

-----------------------------------------------------------------------------
(* After the series                                                        *)

(* The reply: the loop over cb_list_ begins, nothing has been freed.       *)
LEMMA ReplyStep ==
    ASSUME IInv, NEW ok \in BOOLEAN, Reply(ok)
    PROVE  IInv'
<1>1. ServerType /\ Owned /\ OfSeries /\ Proxies /\ NothingFreed
  BY DEF IInv, Answering, Reply
<1>2. /\ UNCHANGED <<calls, at, heap, body, cbs, tasks, context, encoder, outcome>>
      /\ pc' = "callbacks" /\ cb' = 1 /\ cb_end' = Len(cbs)
  BY DEF Reply
<1>3. ServerType'
  BY <1>1, <1>2 DEF ServerType
<1>4. Owned' /\ OfSeries' /\ Proxies'
  BY <1>1, <1>2 DEF Owned, OfSeries, Proxies, Registered, Fetches, Fetched
<1>5. Freeing'
  <2>1. Len(cbs) \in Nat
    BY <1>1 DEF ServerType
  <2>2. \A j \in 1 .. Len(cbs') : heap'[cbs'[j]].frees = IF j < cb' THEN 1 ELSE 0
    BY <1>1, <1>2 DEF Owned, NothingFreed
  <2>3. \A o \in 1 .. Len(heap') : heap'[o].frees = 0
    BY <1>1, <1>2 DEF NothingFreed
  <2>4. QED
    BY <1>2, <2>1, <2>2, <2>3 DEF Freeing
<1>6. QED
  BY <1>2, <1>3, <1>4, <1>5 DEF IInv

(* delete: only how often the objects have been freed changes.             *)
LEMMA Freed ==
    ASSUME ServerType, NEW S
    PROVE  /\ Free(S) \in Seq(Object) /\ Len(Free(S)) = Len(heap) /\ Len(heap) \in Nat
           /\ \A o \in 1 .. Len(heap) :
                  /\ Free(S)[o].kind = heap[o].kind
                  /\ Free(S)[o].frees = heap[o].frees + (IF o \in S THEN 1 ELSE 0)
                  /\ heap[o].frees \in Nat
<1>1. heap \in Seq(Object) /\ Len(heap) \in Nat /\ DOMAIN heap = 1 .. Len(heap)
  BY DEF ServerType
<1> DEFINE f == Free(S)
<1>2. ASSUME NEW o \in 1 .. Len(heap)
      PROVE  /\ f[o] \in Object /\ f[o].kind = heap[o].kind
             /\ f[o].frees = heap[o].frees + (IF o \in S THEN 1 ELSE 0)
             /\ heap[o].frees \in Nat
  <2>1. f[o] = IF o \in S THEN [heap[o] EXCEPT !.frees = @ + 1] ELSE heap[o]
    BY <1>1 DEF Free
  <2>2. heap[o] \in Object
    BY <1>1
  <2>3. QED
    BY <2>1, <2>2 DEF Object
<1>3. f \in [1 .. Len(heap) -> Object]
  <2>1. f = [o \in 1 .. Len(heap) |-> f[o]]
    BY <1>1 DEF Free
  <2>2. QED
    BY <1>2, <2>1
<1>4. f \in Seq(Object) /\ Len(f) = Len(heap)
  BY <1>1, <1>3
<1>5. QED
  BY <1>1, <1>2, <1>4

(* Between two callbacks, whatever becomes of them, nothing is freed twice.*)
LEMMA FreedAtMostOnce ==
    ASSUME ServerType, Freeing
    PROVE  \A o \in 1 .. Len(heap) : heap[o].frees \in {0, 1}
<1> SUFFICES ASSUME NEW o \in 1 .. Len(heap) PROVE heap[o].frees \in {0, 1}
  OBVIOUS
<1>1. CASE Registered(o)
  BY <1>1 DEF Registered, Freeing
<1>2. CASE ~Registered(o)
  BY <1>2 DEF Freeing
<1>3. QED
  BY <1>1, <1>2

(* One callback of the list runs.                                          *)
LEMMA RunCallbackStep ==
    ASSUME IInv, RunCallback
    PROVE  IInv'
<1>1. ServerType /\ Owned /\ OfSeries /\ Proxies /\ Freeing /\ pc = "callbacks"
  BY DEF IInv, RunCallback
<1>2. /\ UNCHANGED <<calls, at, pc, body, cbs, cb_end, tasks, context, encoder, outcome>>
      /\ cb <= cb_end /\ heap' = Free({cbs[cb]}) /\ cb' = cb + 1
  BY DEF RunCallback
<1>3. /\ cb_end \in Nat /\ cb \in 1 .. Len(cbs) /\ cb \in Nat /\ Len(cbs) \in Nat
      /\ cb' \in 1 .. cb_end + 1
  BY SMTT(30), <1>1, <1>2 DEF Freeing, ServerType
<1> DEFINE p == cbs[cb]
<1>4. /\ heap' \in Seq(Object) /\ Len(heap') = Len(heap) /\ Len(heap) \in Nat
      /\ \A o \in 1 .. Len(heap) :
             /\ heap'[o].kind = heap[o].kind
             /\ o = p => heap'[o].frees = heap[o].frees + 1
             /\ o # p => heap'[o].frees = heap[o].frees
  <2>1. heap' = Free({p})
    BY <1>2
  <2>2. /\ heap' \in Seq(Object) /\ Len(heap') = Len(heap) /\ Len(heap) \in Nat
        /\ \A o \in 1 .. Len(heap) :
               /\ heap'[o].kind = heap[o].kind
               /\ heap'[o].frees = heap[o].frees + (IF o \in {p} THEN 1 ELSE 0)
               /\ heap[o].frees \in Nat
    BY <1>1, <2>1, Freed
  <2>3. QED
    BY <2>2
<1>5. p \in 1 .. Len(heap) /\ \A j \in 1 .. Len(cbs) : cbs[j] = p => j = cb
  BY <1>1, <1>3 DEF Owned
<1> HIDE DEF p
<1>6. Enter(0, 0)
  <2>1. cbs' \in Seq(Nat) /\ cbs' = cbs /\ Len(cbs') = Len(cbs) + 0
        /\ Len(heap') = Len(heap) + 0
    BY <1>1, <1>2, <1>3, <1>4 DEF ServerType
  <2>2. QED
    BY <1>4, <2>1 DEF Enter
<1>7. ServerType'
  BY <1>1, <1>2, <1>4 DEF ServerType
<1>8. Owned' /\ OfSeries'
  BY <1>1, <1>2, <1>6, Registers, OfSeriesKept
<1>9. Proxies'
  <2>1. Fetches' <=> Fetches
    BY <1>2 DEF Fetches, Fetched
  <2>2. at' \in Nat /\ at <= at'
    BY <1>1, <1>2 DEF ServerType
  <2>3. \A j \in 1 .. 0 : heap'[Len(heap) + j].kind # "proxy"
    OBVIOUS
  <2>4. QED
    BY <1>1, <1>2, <1>6, <2>1, <2>2, <2>3, ProxiesKept
<1>10. ASSUME NEW j \in 1 .. Len(cbs')
       PROVE  heap'[cbs'[j]].frees = IF j < cb' THEN 1 ELSE 0
  <2>1. /\ j \in 1 .. Len(cbs) /\ cbs'[j] = cbs[j] /\ cbs[j] \in 1 .. Len(heap)
        /\ heap[cbs[j]].frees = IF j < cb THEN 1 ELSE 0
    BY <1>1, <1>2 DEF Owned, Freeing
  <2>2. CASE j = cb
    <3>1. cbs[j] = p /\ heap[cbs[j]].frees = 0 /\ j < cb'
      BY <1>2, <1>3, <2>1, <2>2 DEF p
    <3>2. QED
      BY <1>4, <2>1, <3>1
  <2>3. CASE j # cb
    <3>1. cbs[j] # p /\ (j < cb <=> j < cb')
      BY <1>2, <1>3, <1>5, <2>1, <2>3
    <3>2. QED
      BY <1>4, <2>1, <3>1
  <2>4. QED
    BY <2>2, <2>3
<1>11. ASSUME NEW o \in 1 .. Len(heap'), ~Registered(o)' PROVE heap'[o].frees = 0
  <2>1. o \in 1 .. Len(heap) /\ ~Registered(o)
    BY <1>2, <1>4, <1>11 DEF Registered
  <2>2. o # p /\ heap[o].frees = 0
    BY <1>1, <1>3, <2>1 DEF Registered, Freeing, p
  <2>3. QED
    BY <1>4, <2>1, <2>2
<1>12. ASSUME cb_end' < Len(cbs')
       PROVE  /\ cbs'[Len(cbs')] = Len(heap') /\ heap'[Len(heap')].kind = "string"
              /\ \A j \in cb' .. cb_end' : heap'[cbs'[j]].kind # "proxy"
  <2>1. /\ cbs[Len(cbs)] = Len(heap) /\ heap[Len(heap)].kind = "string"
        /\ \A j \in cb .. cb_end : heap[cbs[j]].kind # "proxy"
    BY <1>1, <1>2, <1>12 DEF Freeing
  <2>2. Len(heap) \in 1 .. Len(heap)
    BY <1>1, <1>3, <2>1 DEF Owned
  <2>3. \A j \in cb' .. cb_end' : j \in cb .. cb_end /\ j \in 1 .. Len(cbs)
    BY <1>1, <1>2, <1>3 DEF Freeing
  <2>4. \A j \in 1 .. Len(cbs) : cbs[j] \in 1 .. Len(heap)
    BY <1>1 DEF Owned
  <2>5. QED
    BY <1>2, <1>4, <2>1, <2>2, <2>3, <2>4
<1>13. Freeing'
  <2>1. /\ cb_end' \in Nat /\ cb' \in 1 .. cb_end' + 1
        /\ cb_end' <= Len(cbs') /\ Len(cbs') <= cb_end' + 1
    BY <1>1, <1>2, <1>3 DEF Freeing
  <2>2. QED
    BY <1>10, <1>11, <1>12, <2>1 DEF Freeing
<1>14. QED
  BY <1>1, <1>2, <1>7, <1>8, <1>9, <1>13 DEF IInv

(* The proxied reply failed: the context is freed, and Error adds a text   *)
(* at the end of the list, which the loop does not reach.                  *)
ErrorAdds ==
    /\ pc = "callbacks" /\ cb <= cb_end /\ heap[cbs[cb]].kind = "proxy"
    /\ heap' = Append(Free({cbs[cb]}), Obj("string"))
    /\ \E x : body' = Append(body, x)
    /\ cbs' = Append(cbs, Len(heap) + 1) /\ cb' = cb + 1
    /\ UNCHANGED <<calls, at, pc, cb_end, tasks, context, encoder, outcome>>

(* The ledger has one entry more.                                          *)
LEMMA ErrorAdded ==
    ASSUME IInv, ErrorAdds
    PROVE  IInv'
<1>1. /\ pc = "callbacks" /\ cb <= cb_end /\ cb' = cb + 1
      /\ UNCHANGED <<calls, at, pc, cb_end, tasks, context, encoder, outcome>>
  BY DEF ErrorAdds
<1>2. ServerType /\ Owned /\ OfSeries /\ Proxies /\ Freeing
  BY <1>1 DEF IInv
<1>3. /\ cb_end \in Nat /\ cb \in 1 .. Len(cbs) /\ cb \in Nat /\ Len(cbs) \in Nat
      /\ cb' \in 1 .. cb_end + 1 /\ Len(heap) \in Nat
  BY <1>1, <1>2 DEF Freeing, ServerType
<1> DEFINE p == cbs[cb]
<1>4. /\ p \in 1 .. Len(heap) /\ heap[p].kind = "proxy"
      /\ \A j \in 1 .. Len(cbs) : cbs[j] = p => j = cb
  BY <1>2, <1>3 DEF Owned, ErrorAdds
<1>5. Len(cbs) = cb_end
  <2>1. cb \in cb .. cb_end
    BY <1>1, <1>3
  <2>2. ~(cb_end < Len(cbs))
    BY <1>2, <1>4, <2>1 DEF Freeing
  <2>3. QED
    BY <1>2, <1>3, <2>2 DEF Freeing
<1> DEFINE f == Free({p})
           s == Obj("string")
<1>6. /\ f \in Seq(Object) /\ Len(f) = Len(heap)
      /\ \A o \in 1 .. Len(heap) :
             /\ f[o].kind = heap[o].kind
             /\ f[o].frees = heap[o].frees + (IF o \in {p} THEN 1 ELSE 0)
             /\ heap[o].frees \in Nat
  BY <1>2, Freed
<1>7. s \in Object /\ s.kind = "string" /\ s.frees = 0
  BY NewObject DEF Kinds, Managed
<1>8. heap' = Append(f, s)
  BY DEF ErrorAdds
<1> HIDE DEF f, s, p
<1>9. /\ heap' \in Seq(Object) /\ Len(heap') = Len(heap) + 1
      /\ \A o \in 1 .. Len(heap) : heap'[o] = f[o]
      /\ heap'[Len(heap) + 1] = s
  <2>1. /\ Append(f, s) \in Seq(Object) /\ Len(Append(f, s)) = Len(f) + 1
        /\ \A j \in 1 .. Len(f) : Append(f, s)[j] = f[j]
        /\ Append(f, s)[Len(f) + 1] = s
    BY <1>6, <1>7, OneMore
  <2>2. QED
    BY <1>6, <1>8, <2>1
<1>10. \A o \in 1 .. Len(heap) :
          /\ heap'[o].kind = heap[o].kind
          /\ o = p => heap'[o].frees = heap[o].frees + 1
          /\ o # p => heap'[o].frees = heap[o].frees
  BY <1>6, <1>9
<1>11. /\ cbs' \in Seq(Nat) /\ Len(cbs') = Len(cbs) + 1
       /\ \A j \in 1 .. Len(cbs) : cbs'[j] = cbs[j]
       /\ cbs'[Len(cbs) + 1] = Len(heap) + 1
  <2>1. cbs \in Seq(Nat) /\ Len(heap) + 1 \in Nat
    BY <1>2, <1>3 DEF ServerType
  <2>2. cbs' = Append(cbs, Len(heap) + 1)
    BY DEF ErrorAdds
  <2>3. QED
    BY <2>1, <2>2, OneMore
<1>12. \A j \in 1 .. 1 : j = 1
  OBVIOUS
<1>13. Enter(1, 1)
  BY <1>7, <1>9, <1>10, <1>11, <1>12 DEF Enter, Managed
<1>14. /\ Owned' /\ OfSeries'
       /\ \A o \in 1 .. Len(heap) : Registered(o)' <=> Registered(o)
  BY <1>1, <1>2, <1>13, Registers, OfSeriesKept
<1>15. Proxies'
  <2>1. Fetches' <=> Fetches
    BY <1>1 DEF Fetches, Fetched
  <2>2. at' \in Nat /\ at <= at'
    BY <1>1, <1>2 DEF ServerType
  <2>3. \A j \in 1 .. 1 : heap'[Len(heap) + j].kind # "proxy"
    BY <1>7, <1>9, <1>12
  <2>4. QED
    BY <1>1, <1>2, <1>13, <2>1, <2>2, <2>3, ProxiesKept
<1>16. ServerType'
  <2>1. IsSeq(body')
    BY <1>2, OneMorePiece DEF ServerType, ErrorAdds
  <2>2. QED
    BY <1>1, <1>2, <1>9, <1>11, <2>1 DEF ServerType
<1>17. ASSUME NEW j \in 1 .. Len(cbs')
       PROVE  heap'[cbs'[j]].frees = IF j < cb' THEN 1 ELSE 0
  <2>1. CASE j \in 1 .. Len(cbs)
    <3>1. /\ cbs'[j] = cbs[j] /\ cbs[j] \in 1 .. Len(heap)
          /\ heap[cbs[j]].frees = IF j < cb THEN 1 ELSE 0
      BY <1>2, <1>11, <2>1 DEF Owned, Freeing
    <3>2. CASE j = cb
      <4>1. cbs[j] = p /\ heap[cbs[j]].frees = 0 /\ j < cb'
        BY <1>1, <1>3, <3>1, <3>2 DEF p
      <4>2. QED
        BY <1>10, <3>1, <4>1
    <3>3. CASE j # cb
      <4>1. cbs[j] # p /\ (j < cb <=> j < cb')
        BY <1>1, <1>3, <1>4, <2>1, <3>3
      <4>2. QED
        BY <1>10, <3>1, <4>1
    <3>4. QED
      BY <3>2, <3>3
  <2>2. CASE j = Len(cbs) + 1
    <3>1. cbs'[j] = Len(heap) + 1 /\ ~(j < cb')
      BY <1>1, <1>3, <1>5, <1>11, <2>2
    <3>2. QED
      BY <1>7, <1>9, <3>1
  <2>3. j \in 1 .. Len(cbs) \/ j = Len(cbs) + 1
    <3>1. Len(cbs) \in Nat /\ Len(cbs') = Len(cbs) + 1
      BY <1>3, <1>11
    <3>2. QED
      BY <3>1
  <2>4. QED
    BY <2>1, <2>2, <2>3
<1>18. ASSUME NEW o \in 1 .. Len(heap'), ~Registered(o)' PROVE heap'[o].frees = 0
  <2>1. CASE o \in 1 .. Len(heap)
    <3>1. ~Registered(o)
      BY <1>14, <1>18, <2>1
    <3>2. o # p /\ heap[o].frees = 0
      BY <1>2, <1>3, <2>1, <3>1 DEF Registered, Freeing, p
    <3>3. QED
      BY <1>10, <2>1, <3>2
  <2>2. CASE o = Len(heap) + 1
    BY <1>7, <1>9, <2>2
  <2>3. QED
    BY <1>3, <1>9, <2>1, <2>2
<1>19. /\ cbs'[Len(cbs')] = Len(heap') /\ heap'[Len(heap')].kind = "string"
       /\ \A j \in cb' .. cb_end' : heap'[cbs'[j]].kind # "proxy"
  <2>1. ASSUME NEW j \in cb' .. cb_end' PROVE heap'[cbs'[j]].kind # "proxy"
    <3>1. j \in 1 .. Len(cbs) /\ j # cb
      BY <1>1, <1>3, <1>5
    <3>2. cbs'[j] = cbs[j] /\ cbs[j] \in 1 .. Len(heap) /\ cbs[j] # p
      BY <1>2, <1>4, <1>11, <3>1 DEF Owned
    <3>3. heap[cbs[j]].kind # "proxy"
      BY <1>2, <1>4, <3>2 DEF Proxies
    <3>4. QED
      BY <1>10, <3>2, <3>3
  <2>2. QED
    BY <1>7, <1>9, <1>11, <2>1
<1>20. Freeing'
  <2>1. /\ cb_end' \in Nat /\ cb' \in 1 .. cb_end' + 1
        /\ cb_end' <= Len(cbs') /\ Len(cbs') <= cb_end' + 1
    BY <1>1, <1>3, <1>5, <1>11
  <2>2. QED
    BY <1>17, <1>18, <1>19, <2>1 DEF Freeing
<1>21. QED
  BY <1>1, <1>14, <1>15, <1>16, <1>20 DEF IInv

(* The loop goes on, or its iterator is lost.                              *)
LEMMA ProxyReplyFailedStep ==
    ASSUME IInv, ProxyReplyFailed
    PROVE  IInv'
<1>1. /\ pc = "callbacks" /\ cb <= cb_end /\ heap[cbs[cb]].kind = "proxy"
      /\ UNCHANGED <<calls, at, cb_end, tasks, context, encoder, outcome>>
  BY DEF ProxyReplyFailed
<1>2. CASE /\ heap' = Append(Free({cbs[cb]}), Obj("string"))
           /\ \E coding \in compress :
                  body' = Append(body, Piece(Proxied, "error", Len(heap) + 1,
                                             coding, 0))
           /\ cbs' = Append(cbs, Len(heap) + 1)
           /\ cb' = cb + 1
           /\ UNCHANGED pc
  <2>1. ErrorAdds
    BY <1>1, <1>2 DEF ErrorAdds
  <2>2. QED
    BY <2>1, ErrorAdded
<1>3. CASE pc' = "undefined" /\ UNCHANGED <<heap, body, cbs, cb>>
  <2>1. ServerType /\ Freeing
    BY <1>1 DEF IInv
  <2>2. \A o \in 1 .. Len(heap) : heap[o].frees \in {0, 1}
    BY <2>1, FreedAtMostOnce
  <2>3. Ledger'
    BY <1>3, <2>2 DEF Ledger
  <2>4. ServerType'
    BY <1>1, <1>3, <2>1 DEF ServerType
  <2>5. QED
    BY <1>3, <2>3, <2>4 DEF IInv
<1>4. QED
  BY <1>2, <1>3 DEF ProxyReplyFailed

(* The callback of the series frees the encoder and the content; what is   *)
(* left is what Forgotten names.                                           *)
LEMMA SeriesEndsStep ==
    ASSUME IInv, SeriesEnds
    PROVE  IInv'
<1>1. ServerType /\ Owned /\ OfSeries /\ Proxies /\ Freeing
  BY DEF IInv, SeriesEnds
<1>2. /\ UNCHANGED <<calls, at, body, cbs, cb, cb_end, tasks, context, encoder, outcome>>
      /\ cb > cb_end /\ heap' = Free({encoder, context}) /\ pc' = "done"
  BY DEF SeriesEnds
<1>3. /\ cb_end \in Nat /\ cb = cb_end + 1 /\ Len(cbs) \in Nat
      /\ Len(cbs) \in {cb_end, cb_end + 1}
  BY <1>1, <1>2 DEF Freeing, ServerType
<1>4. /\ heap' \in Seq(Object) /\ Len(heap') = Len(heap) /\ Len(heap) \in Nat
      /\ \A o \in 1 .. Len(heap) :
             /\ heap'[o].kind = heap[o].kind
             /\ o \in {encoder, context} => heap'[o].frees = heap[o].frees + 1
             /\ o \notin {encoder, context} => heap'[o].frees = heap[o].frees
  <2>1. /\ heap' \in Seq(Object) /\ Len(heap') = Len(heap) /\ Len(heap) \in Nat
        /\ \A o \in 1 .. Len(heap) :
               /\ heap'[o].kind = heap[o].kind
               /\ heap'[o].frees = heap[o].frees + (IF o \in {encoder, context} THEN 1 ELSE 0)
               /\ heap[o].frees \in Nat
    BY <1>1, <1>2, Freed
  <2>2. QED
    BY <2>1
<1>5. ServerType'
  BY <1>1, <1>2, <1>4 DEF ServerType
<1>6. Fetches' <=> Fetches
  BY <1>2 DEF Fetches, Fetched
<1>7. ASSUME NEW o \in 1 .. Len(heap)
      PROVE  heap'[o].frees <= 1 /\ (heap'[o].frees = 0 <=> Forgotten(o)')
  <2>1. heap[o] \in Object
    BY <1>1 DEF ServerType
  <2>2. heap[o].kind \in Kinds /\ heap[o].frees \in {0, 1}
    BY <1>1, <2>1, FreedAtMostOnce DEF Object
  <2>3. Forgotten(o)' <=> \/ heap[o].kind = "proxy" /\ ~Fetches
                          \/ /\ heap[o].kind \in {"encoder", "content"}
                             /\ o \notin {encoder, context}
                          \/ o = Len(heap) /\ cb_end < Len(cbs)
    BY <1>2, <1>4, <1>6 DEF Forgotten, Fetches
  <2>4. o \in {encoder, context} => heap[o].kind \in {"encoder", "content"}
    BY <1>1 DEF OfSeries, Null
  <2>5. CASE heap[o].kind \in {"encoder", "content"}
    <3>1. ~Registered(o)
      BY <1>1, <2>5 DEF Owned, Registered, Managed
    <3>2. heap[o].frees = 0
      BY <1>1, <3>1 DEF Freeing
    <3>3. ~(o = Len(heap) /\ cb_end < Len(cbs))
      BY <1>1, <2>5 DEF Freeing
    <3>4. QED
      BY <1>4, <2>3, <2>5, <3>2, <3>3
  <2>6. CASE heap[o].kind = "proxy"
    <3>1. ~(o = Len(heap) /\ cb_end < Len(cbs)) /\ o \notin {encoder, context}
      BY <1>1, <2>4, <2>6 DEF Freeing
    <3>2. CASE Fetches
      <4>1. PICK j \in 1 .. Len(cbs) : cbs[j] = o
        BY <1>1, <2>6, <3>2 DEF Proxies, Registered
      <4>2. j < cb
        BY <1>1, <1>3, <2>6, <4>1 DEF Freeing
      <4>3. heap[o].frees = 1
        BY <1>1, <4>1, <4>2 DEF Freeing
      <4>4. QED
        BY <1>4, <2>3, <2>6, <3>1, <3>2, <4>3
    <3>3. CASE ~Fetches
      <4>1. ~Registered(o)
        BY <1>1, <2>6, <3>3 DEF Proxies
      <4>2. heap[o].frees = 0
        BY <1>1, <4>1 DEF Freeing
      <4>3. QED
        BY <1>4, <2>3, <2>6, <3>1, <3>3, <4>2
    <3>4. QED
      BY <3>2, <3>3
  <2>7. CASE heap[o].kind \in Managed
    <3>1. PICK j \in 1 .. Len(cbs) : cbs[j] = o
      BY <1>1, <2>7 DEF Owned, Registered
    <3>2. o \notin {encoder, context} /\ heap'[o].frees = heap[o].frees
      BY <1>4, <2>4, <2>7 DEF Managed
    <3>3. Forgotten(o)' <=> o = Len(heap) /\ cb_end < Len(cbs)
      BY <2>3, <2>7 DEF Managed
    <3>4. heap[o].frees = IF j < cb THEN 1 ELSE 0
      BY <1>1, <3>1 DEF Freeing
    <3>5. ASSUME o = Len(heap), cb_end < Len(cbs) PROVE ~(j < cb)
      <4>1. cbs[Len(cbs)] = o /\ Len(cbs) \in 1 .. Len(cbs)
        BY <1>1, <1>3, <3>5 DEF Freeing
      <4>2. j = Len(cbs)
        BY <1>1, <3>1, <4>1 DEF Owned
      <4>3. QED
        BY <1>3, <3>5, <4>2
    <3>6. ASSUME ~(j < cb) PROVE o = Len(heap) /\ cb_end < Len(cbs)
      <4>1. j = Len(cbs) /\ cb_end < Len(cbs)
        BY <1>3, <3>6
      <4>2. QED
        BY <1>1, <3>1, <4>1 DEF Freeing
    <3>7. QED
      BY <3>2, <3>3, <3>4, <3>5, <3>6
  <2>8. QED
    BY <2>2, <2>5, <2>6, <2>7 DEF Kinds
<1>8. Ledger'
  BY <1>4, <1>7 DEF Ledger, Live
<1>9. QED
  BY <1>2, <1>5, <1>8 DEF IInv

-----------------------------------------------------------------------------
(* The invariant                                                           *)

(* A handler that has done nothing yet.                                    *)
LEMMA Initially ==
    ASSUME Init
    PROVE  IInv
<1>1. /\ calls \in Programs /\ Len(calls) \in Nat /\ at = 0 /\ pc = "handler"
      /\ heap = << >> /\ body = << >> /\ cbs = << >> /\ tasks = << >>
      /\ context = 0 /\ encoder = 0
      /\ outcome = [k \in 1 .. Len(calls) |-> << >>]
  BY ProgramsAssumption DEF Init, Null
<1>2. IsSeq(body)
  <2>1. << >> \in Seq({body[j] : j \in 1 .. Len(body)})
    OBVIOUS
  <2>2. QED
    BY <1>1, <2>1 DEF IsSeq
<1>3. outcome \in [1 .. Len(calls) -> Seq(BOOLEAN)]
  <2>1. << >> \in Seq(BOOLEAN)
    OBVIOUS
  <2>2. QED
    BY <1>1, <2>1
<1>4. ServerType
  BY <1>1, <1>2, <1>3 DEF ServerType
<1>5. Len(heap) = 0 /\ Len(body) = 0 /\ Len(cbs) = 0 /\ Len(tasks) = 0
  BY <1>1
<1>6. Owned /\ OfSeries /\ Proxies /\ NothingFreed
  BY <1>1, <1>5 DEF Owned, OfSeries, Proxies, NothingFreed, Null
<1>7. Waiting /\ Pieces
  BY <1>1, <1>5 DEF Waiting, Pieces
<1>8. QED
  BY <1>1, <1>4, <1>6, <1>7 DEF IInv, Answering

(* A step that changes nothing.                                            *)
LEMMA Stuttering ==
    ASSUME IInv, UNCHANGED vars
    PROVE  IInv'
<1>1. ServerType'
  BY DEF IInv, ServerType, vars
<1>2. (Owned' <=> Owned) /\ (OfSeries' <=> OfSeries) /\ (NothingFreed' <=> NothingFreed)
  BY DEF Owned, OfSeries, NothingFreed, Registered, vars
<1>3. Proxies' <=> Proxies
  BY DEF Proxies, Registered, Fetches, Fetched, vars
<1>4. Waiting' <=> Waiting
  BY DEF Waiting, TaskOk, Holds, vars
<1>5. Pieces' <=> Pieces
  BY DEF Pieces, PieceOk, OneForm, Multiparts, vars
<1>6. Freeing' <=> Freeing
  BY DEF Freeing, Registered, vars
<1>7. Ledger' <=> Ledger
  BY DEF Ledger, Live, Forgotten, Fetched, vars
<1>8. pc' = pc
  BY DEF vars
<1>9. QED
  BY <1>1, <1>2, <1>3, <1>4, <1>5, <1>6, <1>7, <1>8 DEF IInv, Answering

(* Every step keeps the invariant.                                         *)
LEMMA Inductive ==
    ASSUME IInv, [Next]_vars
    PROVE  IInv'
<1>1. CASE Call
  BY <1>1, CallStep
<1>2. CASE HandlerReturns
  BY <1>2, HandlerReturnsStep
<1>3. CASE RunCallback
  BY <1>3, RunCallbackStep
<1>4. CASE ProxyReplyFailed
  BY <1>4, ProxyReplyFailedStep
<1>5. CASE SeriesEnds
  BY <1>5, SeriesEndsStep
<1>6. ASSUME NEW ok \in BOOLEAN, RunTask(ok) PROVE IInv'
  BY <1>6, RunTaskStep
<1>7. ASSUME NEW ok \in BOOLEAN, Reply(ok) PROVE IInv'
  BY <1>7, ReplyStep
<1>8. CASE UNCHANGED vars
  BY <1>8, Stuttering
<1>9. QED
  BY <1>1, <1>2, <1>3, <1>4, <1>5, <1>6, <1>7, <1>8 DEF Next

(* The invariant holds in every state of every answer.                     *)
LEMMA Invariance == Spec => []IInv
<1>1. Init => IInv
  BY Initially
<1>2. IInv /\ [Next]_vars => IInv'
  BY Inductive
<1>3. QED
  BY <1>1, <1>2, PTL DEF Spec

-----------------------------------------------------------------------------
(* The theorems                                                            *)

(* Until the reply is sent the body points into nothing that was freed,    *)
(* nor into a multipart content that has grown since it was appended.      *)
THEOREM BodyStaysAlive == Spec => []BodyAlive
<1>1. ASSUME IInv PROVE BodyAlive
  <2> SUFFICES ASSUME pc \in {"handler", "series"}, Cardinality(Multiparts) <= 1,
                      NEW j \in 1 .. Len(body), body[j].obj # Null
               PROVE  /\ Live(body[j].obj)
                      /\ heap[body[j].obj].kind = "content" =>
                             body[j].len = Len(heap[body[j].obj].text)
    BY DEF BodyAlive
  <2>1. ServerType /\ NothingFreed /\ PieceOk(body[j])
    BY <1>1 DEF IInv, Answering, Pieces
  <2>2. OneForm
    <3>1. Len(calls) \in Nat
      BY <2>1, ProgramsAssumption DEF ServerType
    <3>2. IsFiniteSet(1 .. Len(calls))
      BY <3>1, FS_Interval
    <3>3. IsFiniteSet(Multiparts)
      BY <3>2, FS_Subset DEF Multiparts
    <3>4. Cardinality(Multiparts) \in Nat
      BY <3>3, FS_CardinalityType
    <3>5. Cardinality(Multiparts) = 0 \/ Cardinality(Multiparts) = 1
      BY <3>4
    <3>6. CASE Cardinality(Multiparts) = 0
      <4>1. Multiparts = {}
        BY <3>3, <3>6, FS_EmptySet
      <4>2. QED
        BY <4>1 DEF OneForm
    <3>7. CASE Cardinality(Multiparts) = 1
      <4>1. \E k : Multiparts = {k}
        BY <3>3, <3>7, FS_Singleton
      <4>2. QED
        BY <4>1 DEF OneForm
    <3>8. QED
      BY <3>5, <3>6, <3>7
  <2>3. body[j].obj \in 1 .. Len(heap)
    BY <2>1 DEF PieceOk, ServerType, Null
  <2>4. QED
    BY <2>1, <2>2, <2>3 DEF PieceOk, NothingFreed, Live
<1>2. QED
  BY <1>1, Invariance, PTL

-----------------------------------------------------------------------------
(* The range of a file                                                     *)

(* The remainder of a multiple and a rest is the rest ...                  *)
LEMMA Remainder ==
    ASSUME NEW b \in Nat \ {0}, NEW q \in Int, NEW r \in 0 .. b - 1
    PROVE  (b * q + r) % b = r
  OBVIOUS

(* ... and that of a number near zero is known.                            *)
LEMMA RemainderSmall ==
    ASSUME NEW b \in Nat \ {0}, NEW r \in -b .. b - 1
    PROVE  r % b = IF r < 0 THEN r + b ELSE r
<1>1. ASSUME r < 0 PROVE r % b = r + b
  BY <1>1
<1>2. ASSUME ~(r < 0) PROVE r % b = r
  BY <1>2
<1>3. QED
  BY <1>1, <1>2

(* A number an int can hold passes through size_t and int unchanged.       *)
Small == -IntLimit .. IntLimit - 1

(* A small int survives the conversion to size_t and back ...              *)
LEMMA ThroughSizeT == ASSUME NEW x \in Small PROVE ToInt(SizeT(x)) = x
<1> DEFINE L == IntLimit
           w == 2 * L
           v == 4 * L * L
<1>1. L \in Nat \ {0}
  BY IntLimitAssumption
<1>2. x \in -L .. L - 1
  BY DEF Small
<1> HIDE DEF L
<1>3. w \in Nat \ {0} /\ v \in Nat \ {0} /\ L <= v /\ v = w * w
  BY <1>1
<1>4. x \in Int /\ x \in -v .. v - 1
  BY <1>1, <1>2, <1>3
<1>5. SizeT(x) = IF x < 0 THEN x + v ELSE x
  <2> HIDE DEF v
  <2>1. x % v = IF x < 0 THEN x + v ELSE x
    BY <1>3, <1>4, RemainderSmall
  <2>2. QED
    BY <2>1 DEF SizeT, v, L
<1>6. CASE x < 0
  <2> DEFINE r == w + x
             q == w - 1
  <2>1. w - L = L /\ r \in 0 .. w - 1 /\ r >= L /\ q \in Int /\ r - w = x
    BY <1>1, <1>2, <1>6
  <2>2. SizeT(x) = w * q + r
    BY <1>3, <1>4, <1>5, <1>6
  <2> HIDE DEF r, q, w
  <2>3. SizeT(x) % w = r
    BY <1>3, <2>1, <2>2, Remainder
  <2>4. ToInt(SizeT(x)) = IF r >= L THEN r - w ELSE r
    BY <2>3 DEF ToInt, w, L
  <2>5. QED
    BY <2>1, <2>4
<1>7. CASE ~(x < 0)
  <2>1. x \in -w .. w - 1 /\ ~(x >= L) /\ SizeT(x) = x
    BY <1>1, <1>2, <1>5, <1>7
  <2> HIDE DEF w
  <2>2. x % w = x
    BY <1>3, <1>7, <2>1, RemainderSmall
  <2>3. ToInt(SizeT(x)) = IF x >= L THEN x - w ELSE x
    BY <2>1, <2>2 DEF ToInt, w, L
  <2>4. QED
    BY <2>1, <2>3
<1>8. QED
  BY <1>6, <1>7

(* ... and a small size_t the conversion to int.                           *)
LEMMA ToIntSmall == ASSUME NEW x \in Nat, x \in Small PROVE ToInt(x) = x
<1> DEFINE L == IntLimit
           w == 2 * L
<1>1. L \in Nat \ {0}
  BY IntLimitAssumption
<1>2. x \in 0 .. L - 1
  BY <1>1 DEF Small
<1> HIDE DEF L
<1>3. w \in Nat \ {0} /\ x \in -w .. w - 1 /\ ~(x < 0) /\ ~(x >= L)
  BY <1>1, <1>2
<1> HIDE DEF w
<1>4. x % w = x
  BY <1>3, RemainderSmall
<1>5. ToInt(x) = IF x >= L THEN x - w ELSE x
  BY <1>4 DEF ToInt, w, L
<1>6. QED
  BY <1>3, <1>5

(* The range RangeRight asks for.                                          *)
StartOf(f) == IF f.start < 0 THEN f.size + f.start ELSE f.start
EndOf(f) == IF f.end = -1 THEN f.size ELSE f.end
IsFile(f) == f.size \in Nat /\ f.start \in Int /\ f.end \in Int
IsSmall(f) == {f.size, f.start, f.end, StartOf(f), EndOf(f)} \subseteq Small

(* The range of a small file, without the conversions.                     *)
LEMMA RangeIs ==
    ASSUME NEW f, IsFile(f), IsSmall(f)
    PROVE  FileRange(f) = [start |-> StartOf(f), end |-> EndOf(f)]
<1>1. /\ f.size \in Small /\ f.start \in Small /\ f.end \in Small
      /\ StartOf(f) \in Small /\ EndOf(f) \in Small /\ f.size \in Nat
  BY DEF IsSmall, IsFile
<1>2. ToInt(SizeT(f.start)) = f.start /\ ToInt(SizeT(f.end)) = f.end
      /\ ToInt(f.size) = f.size
  BY <1>1, ThroughSizeT, ToIntSmall
<1>3. f.start < 0 => ToInt(SizeT(f.size + f.start)) = f.size + f.start
  <2>1. SUFFICES ASSUME f.start < 0
                 PROVE  ToInt(SizeT(f.size + f.start)) = f.size + f.start
    OBVIOUS
  <2>2. f.size + f.start \in Small
    BY <1>1, <2>1 DEF StartOf
  <2>3. QED
    BY <2>2, ThroughSizeT
<1>4. QED
  BY <1>2, <1>3 DEF FileRange, StartOf, EndOf

(* The larger and the smaller of two numbers.                              *)
LEMMA Extremes ==
    ASSUME NEW a \in Int, NEW b \in Int
    PROVE  /\ Max({a, b}) = IF a >= b THEN a ELSE b
           /\ Min({a, b}) = IF a <= b THEN a ELSE b
<1>1. Max({a, b}) = CHOOSE x \in {a, b} : \A y \in {a, b} : x >= y
  BY DEF Max
<1>2. Min({a, b}) = CHOOSE x \in {a, b} : \A y \in {a, b} : x <= y
  BY DEF Min
<1>3. QED
  BY <1>1, <1>2

(* The bytes a read gives are the bytes of the range.                      *)
LEMMA BytesRight ==
    ASSUME NEW f, IsFile(f), IsSmall(f), ~ReadFails(f), NEW got, got = ReadBytes(f)
    PROVE  {b \in 0 .. f.size - 1 : StartOf(f) <= b /\ b < EndOf(f)}
               = got.from .. got.from + got.n - 1
<1> DEFINE s == StartOf(f)
           e == EndOf(f)
           z == f.size
           least == Min({e, z})
           n == Max({0, least - s})
<1>1. FileRange(f).start = s /\ FileRange(f).end = e
  BY RangeIs
<1>2. s \in Int /\ e \in Int /\ z \in Nat
  BY DEF IsFile, StartOf, EndOf
<1>3. s >= 0
  BY <1>1, <1>2 DEF ReadFails
<1>4. got.from = s /\ got.n = n
  BY <1>1 DEF ReadBytes
<1> HIDE DEF s, e, z
<1>5. least = IF e <= z THEN e ELSE z
  BY <1>2, Extremes
<1>6. least \in Int
  BY <1>2, <1>5
<1> HIDE DEF least
<1>7. n = IF 0 >= least - s THEN 0 ELSE least - s
  BY <1>2, <1>6, Extremes
<1> HIDE DEF n
<1>8. {b \in 0 .. z - 1 : s <= b /\ b < e} = s .. s + n - 1
  BY <1>2, <1>3, <1>5, <1>7
<1>9. QED
  BY <1>4, <1>8 DEF s, e, z

-----------------------------------------------------------------------------
(* What the calls of a handler leave to their tasks                        *)

Refused(f) == ~f.exists \/ FileRange(f).end <= FileRange(f).start

(* The tasks of a call: their kind, and how many it pushes.                *)
KindOf(call) ==
    CASE call.op = "file" -> "pread"
      [] call.op \in {"save", "savemsg"} -> "pwrite"
      [] call.op = "multipart" -> "mpread"
      [] OTHER -> call.op

TasksOf(call) ==
    CASE call.op = "file" -> IF Refused(call) THEN 0 ELSE 1
      [] call.op = "multipart" -> Cardinality({j \in 1 .. Len(call.files) : call.files[j]})
      [] call.op = "http" -> IF call.good THEN 1 ELSE 0
      [] call.op \in {"save", "savemsg", "mysql", "mysqlfunc", "redis", "timer"} -> 1
      [] OTHER -> 0

(* What it says at once, and what the callback of one of its tasks says.   *)
AtOnce(call) ==
    CASE call.op \in {"string", "move", "json"} -> <<"text">>
      [] call.op = "badjson" -> <<"error">>
      [] call.op = "file" /\ Refused(call) -> <<"error">>
      [] OTHER -> << >>

InTheEnd(call, last, r) ==
    CASE call.op = "file" -> IF r THEN <<"data">> ELSE <<"error">>
      [] call.op \in {"save", "savemsg"} -> IF r THEN <<"saved">> ELSE <<"error">>
      [] call.op = "multipart" -> IF last THEN <<"form">> ELSE << >>
      [] call.op \in {"mysql", "redis"} -> <<"result">>
      [] call.op = "mysqlfunc" -> IF r THEN << >> ELSE <<"result">>
      [] call.op = "http" -> <<"error">>
      [] OTHER -> << >>

Pending(k) == \E j \in 1 .. Len(tasks) : tasks[j].of = k

(* A task of the series: no task after it belongs to an earlier call, only *)
(* a form has several, and no call after its own has run a task.           *)
Queued(j) ==
    LET t == tasks[j]
        call == calls[t.of]
    IN  /\ t.of \in 1 .. at /\ t.kind = KindOf(call)
        /\ \A i \in j + 1 .. Len(tasks) :
               t.of <= tasks[i].of /\ (t.of = tasks[i].of => call.op = "multipart")
        /\ t.last <=> /\ call.op = "multipart" /\ Closes(call.files)
                      /\ \A i \in j + 1 .. Len(tasks) : tasks[i].of # t.of
        /\ \A k \in 1 .. Len(calls) : k > t.of => outcome[k] = << >>
        /\ call.op # "multipart" => outcome[t.of] = << >>

Queue ==
    /\ pc # "handler" => at = Len(calls)
    /\ pc \notin {"handler", "series"} => tasks = << >>
    /\ \A j \in 1 .. Len(tasks) : Queued(j)
    /\ \A k \in 1 .. at :
           outcome[k] = << >> /\ ~Pending(k) <=> TasksOf(calls[k]) = 0
    /\ pc = "handler" => \A k \in 1 .. Len(calls) : outcome[k] = << >>

(* A piece of data is what was read of a range.                            *)
DataRead ==
    \A j \in 1 .. Len(body) : body[j].says = "data" =>
        LET f == calls[body[j].of]
        IN  /\ body[j].of \in 1 .. Len(calls) /\ f.op = "file"
            /\ body[j].len = ReadBytes(f) /\ ~ReadFails(f)

SInv == Queue /\ DataRead

(* A call pushes its tasks; pieces that say S about k are appended.        *)
Pushes(call) ==
    /\ Len(tasks') = Len(tasks) + TasksOf(call)
    /\ \A j \in 1 .. Len(tasks) : tasks'[j] = tasks[j]
    /\ \A j \in 1 .. TasksOf(call) : LET t == tasks'[Len(tasks) + j] IN
           /\ t.of = at + 1 /\ t.kind = KindOf(call)
           /\ t.last <=> /\ call.op = "multipart" /\ j = TasksOf(call)
                         /\ Closes(call.files)

Says(k, S) ==
    /\ Len(body') = Len(body) + Len(S)
    /\ \A j \in 1 .. Len(body) : body'[j] = body[j]
    /\ \A j \in 1 .. Len(S) :
           body'[Len(body) + j].of = k /\ body'[Len(body) + j].says = S[j]

(* A piece added to the body is what the call says.                        *)
LEMMA PieceTells ==
    ASSUME ServerType, NEW k, NEW says, NEW o, NEW coding, NEW len,
           body' = Append(body, Piece(k, says, o, coding, len))
    PROVE  /\ Says(k, <<says>>) /\ Len(body) \in Nat /\ Len(body') = Len(body) + 1
           /\ body'[Len(body) + 1].len = len /\ body'[Len(body) + 1].obj = o
<1> DEFINE x == Piece(k, says, o, coding, len)
<1>1. x.of = k /\ x.says = says /\ x.len = len /\ x.obj = o
  BY DEF Piece
<1> HIDE DEF x
<1>2. IsSeq(body) /\ body' = Append(body, x)
  BY DEF ServerType, x
<1>3. /\ Len(body) \in Nat /\ Len(body') = Len(body) + 1
      /\ \A j \in 1 .. Len(body) : body'[j] = body[j]
      /\ body'[Len(body) + 1] = x
  BY <1>2, OneMorePiece
<1>4. Len(<<says>>) = 1 /\ <<says>>[1] = says /\ \A j \in 1 .. 1 : j = 1
  OBVIOUS
<1>5. QED
  BY <1>1, <1>3, <1>4 DEF Says

(* So is a string ...                                                      *)
LEMMA StringTells ==
    ASSUME ServerType, NEW k, NEW says, NEW moved, String(k, says, moved)
    PROVE  Says(k, <<says>>)
<1>1. PICK coding \in compress :
        body' = Append(body,
            Piece(k, says, IF moved \/ coding # "plain" THEN Len(heap) + 1 ELSE Null,
                  coding, 0))
  BY DEF String
<1>2. QED
  BY <1>1, PieceTells

(* ... and a body left alone says nothing.                                 *)
LEMMA NothingTold ==
    ASSUME ServerType, body' = body, NEW k
    PROVE  Says(k, << >>)
<1>1. Len(body) \in Nat /\ Len(<< >>) = 0
  BY DEF ServerType, IsSeq
<1>2. QED
  BY <1>1 DEF Says

(* A call that adds no task leaves the series as it is.                    *)
LEMMA NonePushed ==
    ASSUME ServerType, tasks' = tasks, NEW call, TasksOf(call) = 0
    PROVE  Pushes(call)
<1>1. Len(tasks) \in Nat
  BY DEF ServerType
<1>2. QED
  BY <1>1 DEF Pushes

(* A call other than a form adds one.                                      *)
LEMMA OnePushed ==
    ASSUME ServerType, NEW call, NEW kind \in TaskKinds, NEW o \in Nat,
           tasks' = Append(tasks, Task(kind, at + 1, o, FALSE)),
           kind = KindOf(call), TasksOf(call) = 1, call.op # "multipart"
    PROVE  Pushes(call)
<1> DEFINE x == Task(kind, at + 1, o, FALSE)
<1>1. at + 1 \in Nat /\ tasks \in Seq(Subtask) /\ Len(tasks) \in Nat
  BY ProgramsAssumption DEF ServerType
<1>2. x \in Subtask /\ x.kind = kind /\ x.of = at + 1 /\ x.last = FALSE
  BY <1>1 DEF Task, Subtask
<1>3. tasks' = Append(tasks, x)
  OBVIOUS
<1> HIDE DEF x
<1>4. /\ Len(tasks') = Len(tasks) + 1
      /\ \A j \in 1 .. Len(tasks) : tasks'[j] = tasks[j]
      /\ tasks'[Len(tasks) + 1] = x
  <2>1. ASSUME NEW a \in Seq(Subtask), NEW b \in Subtask
        PROVE  /\ Len(Append(a, b)) = Len(a) + 1
               /\ \A j \in 1 .. Len(a) : Append(a, b)[j] = a[j]
               /\ Append(a, b)[Len(a) + 1] = b
    BY OneMore
  <2>2. tasks \in Seq(Subtask) /\ x \in Subtask
    BY <1>1, <1>2
  <2>3. /\ Len(Append(tasks, x)) = Len(tasks) + 1
        /\ \A j \in 1 .. Len(tasks) : Append(tasks, x)[j] = tasks[j]
        /\ Append(tasks, x)[Len(tasks) + 1] = x
    BY <2>1, <2>2
  <2>4. QED
    BY <1>3, <2>3
<1>5. \A j \in 1 .. 1 : j = 1
  OBVIOUS
<1>6. QED
  BY <1>2, <1>4, <1>5 DEF Pushes

(* The files of a form that are there.                                     *)
LEMMA FilesFinite ==
    ASSUME NEW s \in Seq(BOOLEAN)
    PROVE  /\ IsFiniteSet({j \in 1 .. Len(s) : s[j]})
           /\ Cardinality({j \in 1 .. Len(s) : s[j]}) \in Nat
<1>1. IsFiniteSet(1 .. Len(s))
  BY FS_Interval
<1>2. IsFiniteSet({j \in 1 .. Len(s) : s[j]})
  BY <1>1, FS_Subset
<1>3. QED
  BY <1>2, FS_CardinalityType

(* A form adds one for each of its files.                                  *)
LEMMA FormPushed ==
    ASSUME ServerType, NEW call, call.op = "multipart", call.files \in Seq(BOOLEAN),
           Multipart(at + 1, call.files)
    PROVE  Pushes(call)
<1> DEFINE u == TasksOf(call)
           closes == Closes(call.files)
           new == [n \in 1 .. u |->
               Task("mpread", at + 1, Len(heap) + n, n = u /\ closes)]
<1>1. u = Cardinality({j \in 1 .. Len(call.files) : call.files[j]}) /\ u \in Nat
  BY FilesFinite DEF TasksOf
<1>2. tasks' = tasks \o new
  BY <1>1 DEF Multipart
<1>3. at + 1 \in Nat /\ Len(heap) \in Nat /\ tasks \in Seq(Subtask)
  BY ProgramsAssumption DEF ServerType
<1>4. ASSUME NEW n \in 1 .. u
      PROVE  /\ Task("mpread", at + 1, Len(heap) + n, n = u /\ closes) \in Subtask
             /\ new[n].of = at + 1 /\ new[n].kind = "mpread"
             /\ new[n].last = (n = u /\ closes)
  <2> HIDE DEF closes, u
  <2>1. (n = u /\ closes) \in BOOLEAN /\ Len(heap) + n \in Nat
    BY <1>1, <1>3
  <2>2. new[n] = Task("mpread", at + 1, Len(heap) + n, n = u /\ closes)
    OBVIOUS
  <2>3. QED
    BY <1>3, <2>1, <2>2 DEF Task, Subtask, TaskKinds
<1>5. new \in [1 .. u -> Subtask]
  BY <1>4
<1>6. \A n \in 1 .. u : /\ new[n].of = at + 1 /\ new[n].kind = "mpread"
                        /\ new[n].last <=> n = u /\ closes
  BY <1>4
<1> HIDE DEF new, u
<1>7. u \in Nat
  BY <1>1
<1>8. /\ Len(tasks') = Len(tasks) + u
      /\ \A j \in 1 .. Len(tasks) : tasks'[j] = tasks[j]
      /\ \A j \in 1 .. u : tasks'[Len(tasks) + j] = new[j]
  <2>1. ASSUME NEW a \in Seq(Subtask), NEW b \in [1 .. u -> Subtask]
        PROVE  /\ Len(a \o b) = Len(a) + u
               /\ \A j \in 1 .. Len(a) : (a \o b)[j] = a[j]
               /\ \A j \in 1 .. u : (a \o b)[Len(a) + j] = b[j]
    BY <1>7, SeveralMore
  <2>2. /\ Len(tasks \o new) = Len(tasks) + u
        /\ \A j \in 1 .. Len(tasks) : (tasks \o new)[j] = tasks[j]
        /\ \A j \in 1 .. u : (tasks \o new)[Len(tasks) + j] = new[j]
    BY <1>3, <1>5, <2>1
  <2>3. QED
    BY <1>2, <2>2
<1>9. KindOf(call) = "mpread"
  BY DEF KindOf
<1>10. QED
  BY <1>6, <1>8, <1>9 DEF Pushes, u

(* What a call of the handler gives.                                       *)
LEMMA CallGives ==
    ASSUME IInv, Call, NEW call, call = calls[at + 1]
    PROVE  InCall /\ Pushes(call) /\ Says(at + 1, AtOnce(call))
<1>1. InCall /\ Do(at + 1, call) /\ ServerType /\ Len(heap) + 1 \in Nat
  BY DEF Call, InCall, IInv, ServerType
<1>2. call.op \in Ops /\ (call.op = "multipart" => call.files \in Seq(BOOLEAN))
  <2>1. at + 1 \in 1 .. Len(calls) /\ calls \in Programs
    BY <1>1, ProgramsAssumption DEF ServerType, InCall
  <2>2. QED
    BY <2>1, ProgramsAssumption
<1>3. CASE call.op = "string"
  <2>1. String(at + 1, "text", FALSE) /\ tasks' = tasks
    BY <1>1, <1>3 DEF Do, Keep
  <2>2. TasksOf(call) = 0 /\ AtOnce(call) = <<"text">>
    BY <1>3 DEF TasksOf, AtOnce
  <2>3. QED
    BY <1>1, <2>1, <2>2, StringTells, NonePushed
<1>4. CASE call.op \in {"move", "json"}
  <2>1. String(at + 1, "text", TRUE) /\ tasks' = tasks
    BY <1>1, <1>4 DEF Do, Keep
  <2>2. TasksOf(call) = 0 /\ AtOnce(call) = <<"text">>
    BY <1>4 DEF TasksOf, AtOnce
  <2>3. QED
    BY <1>1, <2>1, <2>2, StringTells, NonePushed
<1>5. CASE call.op = "badjson"
  <2>1. String(at + 1, "error", TRUE) /\ tasks' = tasks
    BY <1>1, <1>5 DEF Do, Keep, Error
  <2>2. TasksOf(call) = 0 /\ AtOnce(call) = <<"error">>
    BY <1>5 DEF TasksOf, AtOnce
  <2>3. QED
    BY <1>1, <2>1, <2>2, StringTells, NonePushed
<1>6. CASE call.op \in {"gzip", "br"}
  <2>1. body' = body /\ tasks' = tasks
    BY <1>1, <1>6 DEF Do
  <2>2. TasksOf(call) = 0 /\ AtOnce(call) = << >>
    BY <1>6 DEF TasksOf, AtOnce
  <2>3. QED
    BY <1>1, <2>1, <2>2, NothingTold, NonePushed
<1>7. CASE call.op = "file"
  <2>1. send_file(at + 1, call)
    BY <1>1, <1>7 DEF Do
  <2>2. CASE Refused(call)
    <3>1. String(at + 1, "error", TRUE) /\ tasks' = tasks
      BY <2>1, <2>2 DEF send_file, Refused, Error
    <3>2. TasksOf(call) = 0 /\ AtOnce(call) = <<"error">>
      BY <1>7, <2>2 DEF TasksOf, AtOnce
    <3>3. QED
      BY <1>1, <3>1, <3>2, StringTells, NonePushed
  <2>3. CASE ~Refused(call)
    <3>1. /\ tasks' = Append(tasks, Task("pread", at + 1, Len(heap) + 1, FALSE))
          /\ body' = body
      BY <2>1, <2>3 DEF send_file, Refused
    <3>2. /\ TasksOf(call) = 1 /\ AtOnce(call) = << >> /\ "pread" = KindOf(call)
          /\ "pread" \in TaskKinds
      BY <1>7, <2>3 DEF TasksOf, AtOnce, KindOf, TaskKinds
    <3>3. QED
      BY <1>1, <1>7, <3>1, <3>2, NothingTold, OnePushed
  <2>4. QED
    BY <2>2, <2>3
<1>8. CASE call.op \in {"save", "savemsg"}
  <2>1. /\ tasks' = Append(tasks, Task("pwrite", at + 1, Len(heap) + 1, FALSE))
        /\ body' = body
    BY <1>1, <1>8 DEF Do, Save, Push
  <2>2. /\ TasksOf(call) = 1 /\ AtOnce(call) = << >> /\ "pwrite" = KindOf(call)
        /\ "pwrite" \in TaskKinds
    BY <1>8 DEF TasksOf, AtOnce, KindOf, TaskKinds
  <2>3. QED
    BY <1>1, <1>8, <2>1, <2>2, NothingTold, OnePushed
<1>9. CASE call.op = "multipart"
  <2>1. Multipart(at + 1, call.files)
    BY <1>1, <1>9 DEF Do
  <2>2. body' = body /\ AtOnce(call) = << >>
    BY <1>9, <2>1 DEF Multipart, AtOnce
  <2>3. QED
    BY <1>1, <1>2, <1>9, <2>1, <2>2, NothingTold, FormPushed
<1>10. CASE call.op = "http"
  <2>1. Http(at + 1, call.good)
    BY <1>1, <1>10 DEF Do
  <2>2. body' = body /\ AtOnce(call) = << >>
    BY <1>10, <2>1 DEF Http, AtOnce
  <2>3. CASE call.good
    <3>1. tasks' = Append(tasks, Task("http", at + 1, Len(heap) + 1, FALSE))
      BY <2>1, <2>3 DEF Http, Push
    <3>2. TasksOf(call) = 1 /\ "http" = KindOf(call) /\ "http" \in TaskKinds
      BY <1>10, <2>3 DEF TasksOf, KindOf, TaskKinds
    <3>3. QED
      BY <1>1, <1>10, <2>2, <3>1, <3>2, NothingTold, OnePushed
  <2>4. CASE ~call.good
    <3>1. tasks' = tasks /\ TasksOf(call) = 0
      BY <1>10, <2>1, <2>4 DEF Http, TasksOf
    <3>2. QED
      BY <1>1, <2>2, <3>1, NothingTold, NonePushed
  <2>5. QED
    BY <2>3, <2>4
<1>11. CASE call.op \in {"mysql", "mysqlfunc", "redis", "timer"}
  <2>1. /\ tasks' = Append(tasks, Task(call.op, at + 1, 0, FALSE))
        /\ body' = body
    BY <1>1, <1>11 DEF Do, Query, Push, Null
  <2>2. /\ TasksOf(call) = 1 /\ AtOnce(call) = << >> /\ call.op = KindOf(call)
        /\ call.op \in TaskKinds
    BY <1>11 DEF TasksOf, AtOnce, KindOf, TaskKinds
  <2>3. QED
    BY <1>1, <1>11, <2>1, <2>2, NothingTold, OnePushed
<1>12. QED
  BY <1>2, <1>3, <1>4, <1>5, <1>6, <1>7, <1>8, <1>9, <1>10, <1>11 DEF Ops

(* A task ends.                                                            *)
Ends(r) ==
    /\ pc = "series" /\ tasks # << >> /\ tasks' = Tail(tasks)
    /\ outcome' = [outcome EXCEPT ![First.of] = Append(@, r)]
    /\ UNCHANGED <<calls, at, pc>>

(* The reply is the other server's, or the callback adds to it.            *)
Replaces(call, r) ==
    /\ call.op = "http" /\ r
    /\ body' = <<Piece(First.of, "remote", Null, "plain", 0)>>

Adds(call, r) ==
    /\ ~(call.op = "http" /\ r)
    /\ Says(First.of, InTheEnd(call, First.last, r))
    /\ call.op = "file" /\ r =>
           ~ReadFails(call) /\ body'[Len(body) + 1].len = ReadBytes(call)

(* The first task is one of a call made.                                   *)
LEMMA HeadQueued ==
    ASSUME IInv, Queue, tasks # << >>
    PROVE  /\ 1 \in 1 .. Len(tasks) /\ Len(tasks) \in Nat /\ Queued(1)
           /\ First.of \in 1 .. at /\ First.of \in 1 .. Len(calls)
           /\ First.kind = KindOf(calls[First.of]) /\ calls[First.of].op \in Ops
<1>1. ServerType /\ calls \in Programs /\ Len(calls) \in Nat /\ at \in 0 .. Len(calls)
  BY ProgramsAssumption DEF IInv, ServerType
<1>2. Len(tasks) \in Nat /\ Len(tasks) >= 1
  BY <1>1, OneLess DEF ServerType
<1>3. 1 \in 1 .. Len(tasks)
  BY <1>2
<1>4. Queued(1)
  BY <1>3 DEF Queue
<1>5. First.of \in 1 .. at /\ First.kind = KindOf(calls[First.of])
  BY <1>4 DEF Queued, First
<1>6. First.of \in 1 .. Len(calls)
  BY <1>1, <1>5
<1>7. calls[First.of].op \in Ops
  BY <1>1, <1>6, ProgramsAssumption
<1>8. QED
  BY <1>2, <1>3, <1>4, <1>5, <1>6, <1>7

(* The kind of a task tells which call added it.                           *)
LEMMA OpOfKind ==
    ASSUME NEW call, call.op \in Ops
    PROVE  /\ KindOf(call) = "pread" => call.op = "file"
           /\ KindOf(call) = "pwrite" => call.op \in {"save", "savemsg"}
           /\ KindOf(call) = "mpread" => call.op = "multipart"
           /\ KindOf(call) \in {"http", "mysql", "mysqlfunc", "redis", "timer"} =>
                  call.op = KindOf(call)
<1>1. CASE call.op = "file"
  BY <1>1 DEF KindOf
<1>2. CASE call.op \in {"save", "savemsg"}
  BY <1>2 DEF KindOf
<1>3. CASE call.op = "multipart"
  BY <1>3 DEF KindOf
<1>4. CASE call.op \notin {"file", "save", "savemsg", "multipart"}
  <2>1. KindOf(call) = call.op
    BY <1>4 DEF KindOf
  <2>2. call.op \notin {"pread", "pwrite", "mpread"}
    BY DEF Ops
  <2>3. QED
    BY <2>1, <2>2
<1>5. QED
  BY <1>1, <1>2, <1>3, <1>4

(* A task ends: it replaces the answer by a fetched one, or adds to it.    *)
LEMMA RunTaskGives ==
    ASSUME IInv, Queue, NEW ok \in BOOLEAN, RunTask(ok), NEW call, call = calls[First.of]
    PROVE  \E r \in BOOLEAN : Ends(r) /\ (Replaces(call, r) \/ Adds(call, r))
<1>1. ASSUME NEW kind, NEW r, Finish(kind, r)
      PROVE  /\ Ends(r) /\ KindOf(call) = kind /\ call.op \in Ops
             /\ IInv /\ ServerType
  <2>1. tasks # << >> /\ First.kind = kind
    BY <1>1 DEF Finish
  <2>2. KindOf(call) = kind /\ call.op \in Ops
    BY <2>1, HeadQueued
  <2>3. Ends(r)
    BY <1>1 DEF Finish, Ends
  <2>4. QED
    BY <2>2, <2>3 DEF IInv
<1>2. CASE pread_callback(ok)
  <2>1. Finish("pread", ok)
    BY <1>2 DEF pread_callback
  <2>2. Ends(ok) /\ call.op = "file" /\ ServerType
    BY <1>1, <2>1, OpOfKind
  <2>3. CASE ok
    <3>1. /\ ~ReadFails(call)
          /\ body' = Append(body, Piece(First.of, "data", First.obj, "plain",
                                        ReadBytes(call)))
      BY <1>2, <2>3 DEF pread_callback, Said
    <3>2. Says(First.of, <<"data">>) /\ body'[Len(body) + 1].len = ReadBytes(call)
      BY <2>2, <3>1, PieceTells
    <3>3. InTheEnd(call, First.last, ok) = <<"data">>
      BY <2>2, <2>3 DEF InTheEnd
    <3>4. QED
      BY <2>2, <3>1, <3>2, <3>3 DEF Adds
  <2>4. CASE ~ok
    <3>1. Says(First.of, <<"error">>)
      BY <1>2, <2>2, <2>4, StringTells DEF pread_callback, Error
    <3>2. InTheEnd(call, First.last, ok) = <<"error">>
      BY <2>2, <2>4 DEF InTheEnd
    <3>3. QED
      BY <2>2, <2>4, <3>1, <3>2 DEF Adds
  <2>5. QED
    BY <2>3, <2>4
<1>3. CASE pwrite_callback(ok)
  <2>1. Finish("pwrite", ok)
    BY <1>3 DEF pwrite_callback
  <2>2. Ends(ok) /\ call.op \in {"save", "savemsg"} /\ ServerType
    BY <1>1, <2>1, OpOfKind
  <2>3. CASE ok
    <3>1. PICK o : body' = Append(body, Piece(First.of, "saved", o, "plain", 0))
      BY <1>3, <2>3 DEF pwrite_callback, Said
    <3>2. Says(First.of, <<"saved">>)
      BY <2>2, <3>1, PieceTells
    <3>3. InTheEnd(call, First.last, ok) = <<"saved">>
      BY <2>2, <2>3 DEF InTheEnd
    <3>4. QED
      BY <2>2, <3>2, <3>3 DEF Adds
  <2>4. CASE ~ok
    <3>1. Says(First.of, <<"error">>)
      BY <1>3, <2>2, <2>4, StringTells DEF pwrite_callback, Error
    <3>2. InTheEnd(call, First.last, ok) = <<"error">>
      BY <2>2, <2>4 DEF InTheEnd
    <3>3. QED
      BY <2>2, <2>4, <3>1, <3>2 DEF Adds
  <2>5. QED
    BY <2>3, <2>4
<1>4. CASE multipart_callback(ok)
  <2>1. Finish("mpread", ok)
    BY <1>4 DEF multipart_callback
  <2>2. Ends(ok) /\ call.op = "multipart" /\ ServerType
    BY <1>1, <2>1, OpOfKind
  <2>3. CASE First.last
    <3>1. PICK len : body' = Append(body, Piece(First.of, "form", context, "plain", len))
      BY <1>4, <2>3 DEF multipart_callback
    <3>2. Says(First.of, <<"form">>)
      BY <2>2, <3>1, PieceTells
    <3>3. InTheEnd(call, First.last, ok) = <<"form">>
      BY <2>2, <2>3 DEF InTheEnd
    <3>4. QED
      BY <2>2, <3>2, <3>3 DEF Adds
  <2>4. CASE ~First.last
    <3>1. body' = body
      BY <1>4, <2>4 DEF multipart_callback
    <3>2. Says(First.of, << >>)
      BY <2>2, <3>1, NothingTold
    <3>3. InTheEnd(call, First.last, ok) = << >>
      BY <2>2, <2>4 DEF InTheEnd
    <3>4. QED
      BY <2>2, <3>2, <3>3 DEF Adds
  <2>5. QED
    BY <2>3, <2>4
<1>5. CASE mysql_callback(ok) \/ redis_callback(ok)
  <2>1. PICK kind \in {"mysql", "redis"} : Finish(kind, ok)
    BY <1>5 DEF mysql_callback, redis_callback
  <2>2. Ends(ok) /\ call.op \in {"mysql", "redis"} /\ ServerType
    BY <1>1, <2>1, OpOfKind
  <2>3. Says(First.of, <<"result">>)
    BY <1>5, <2>2, StringTells DEF mysql_callback, redis_callback
  <2>4. InTheEnd(call, First.last, ok) = <<"result">>
    BY <2>2 DEF InTheEnd
  <2>5. QED
    BY <2>2, <2>3, <2>4 DEF Adds
<1>6. CASE cursor_callback(ok)
  <2>1. Finish("mysqlfunc", ok)
    BY <1>6 DEF cursor_callback
  <2>2. Ends(ok) /\ call.op = "mysqlfunc" /\ ServerType
    BY <1>1, <2>1, OpOfKind
  <2>3. CASE ok
    <3>1. body' = body
      BY <1>6, <2>3 DEF cursor_callback
    <3>2. Says(First.of, << >>)
      BY <2>2, <3>1, NothingTold
    <3>3. InTheEnd(call, First.last, ok) = << >>
      BY <2>2, <2>3 DEF InTheEnd
    <3>4. QED
      BY <2>2, <3>2, <3>3 DEF Adds
  <2>4. CASE ~ok
    <3>1. Says(First.of, <<"result">>)
      BY <1>6, <2>2, <2>4, StringTells DEF cursor_callback
    <3>2. InTheEnd(call, First.last, ok) = <<"result">>
      BY <2>2, <2>4 DEF InTheEnd
    <3>3. QED
      BY <2>2, <3>1, <3>2 DEF Adds
  <2>5. QED
    BY <2>3, <2>4
<1>7. CASE timer_callback
  <2>1. Finish("timer", TRUE)
    BY <1>7 DEF timer_callback
  <2>2. Ends(TRUE) /\ call.op = "timer" /\ ServerType
    BY <1>1, <2>1, OpOfKind
  <2>3. Says(First.of, << >>)
    BY <1>7, <2>2, NothingTold DEF timer_callback
  <2>4. InTheEnd(call, First.last, TRUE) = << >>
    BY <2>2 DEF InTheEnd
  <2>5. Adds(call, TRUE)
    BY <2>2, <2>3, <2>4 DEF Adds
  <2>6. QED
    BY <2>2, <2>5
<1>8. CASE proxy_http_callback(ok)
  <2>1. Finish("http", ok)
    BY <1>8 DEF proxy_http_callback
  <2>2. Ends(ok) /\ call.op = "http" /\ ServerType
    BY <1>1, <2>1, OpOfKind
  <2>3. CASE ok
    BY <1>8, <2>2, <2>3 DEF proxy_http_callback, Replaces
  <2>4. CASE ~ok
    <3>1. Says(First.of, <<"error">>)
      BY <1>8, <2>2, <2>4, StringTells DEF proxy_http_callback, Error
    <3>2. InTheEnd(call, First.last, ok) = <<"error">>
      BY <2>2 DEF InTheEnd
    <3>3. QED
      BY <2>2, <2>4, <3>1, <3>2 DEF Adds
  <2>5. QED
    BY <2>3, <2>4
<1>9. QED
  BY <1>2, <1>3, <1>4, <1>5, <1>6, <1>7, <1>8 DEF RunTask

(* The call that is made: no task of it has run.                           *)
LEMMA NextCall ==
    ASSUME IInv, InCall
    PROVE  /\ at + 1 \in 1 .. Len(calls) /\ at \in Nat /\ Len(calls) \in Nat
           /\ outcome[at + 1] = << >> /\ calls[at + 1].op \in Ops
           /\ Len(tasks) \in Nat /\ TasksOf(calls[at + 1]) \in Nat
<1>1. /\ at \in Nat /\ calls \in Programs /\ Len(calls) \in Nat
      /\ at + 1 \in 1 .. Len(calls) /\ Len(tasks) \in Nat
  BY ProgramsAssumption DEF IInv, ServerType, InCall
<1>2. outcome[at + 1] = << >>
  BY <1>1 DEF IInv, InCall, Answering, Waiting
<1>3. /\ calls[at + 1].op \in Ops
      /\ calls[at + 1].op = "multipart" => calls[at + 1].files \in Seq(BOOLEAN)
  BY <1>1, ProgramsAssumption
<1>4. TasksOf(calls[at + 1]) \in Nat
  <2> DEFINE call == calls[at + 1]
  <2>1. CASE call.op = "multipart"
    <3>1. TasksOf(call) = Cardinality({j \in 1 .. Len(call.files) : call.files[j]})
      BY <2>1 DEF TasksOf
    <3>2. QED
      BY <1>3, <2>1, <3>1, FilesFinite
  <2>2. CASE call.op # "multipart"
    <3>1. TasksOf(call) \in {0, 1}
      BY <2>2 DEF TasksOf
    <3>2. QED
      BY <3>1
  <2>3. QED
    BY <2>1, <2>2
<1>5. QED
  BY <1>1, <1>2, <1>3, <1>4

(* A call keeps the queue.                                                 *)
LEMMA QueueCall ==
    ASSUME IInv, Queue, InCall, Pushes(calls[at + 1])
    PROVE  Queue'
<1> DEFINE call == calls[at + 1]
           u == TasksOf(call)
           n == Len(tasks)
<1>1. /\ at + 1 \in 1 .. Len(calls) /\ at \in Nat /\ Len(calls) \in Nat
      /\ outcome[at + 1] = << >> /\ n \in Nat /\ u \in Nat
  BY NextCall
<1>2. /\ Len(tasks') = n + u /\ calls' = calls /\ outcome' = outcome /\ at' = at + 1
      /\ pc = "handler" /\ pc' = "handler"
  BY DEF Pushes, InCall
<1>3. \A j \in 1 .. n : tasks'[j] = tasks[j] /\ Queued(j) /\ tasks[j].of \in 1 .. at
  BY DEF Pushes, Queue, Queued
<1>4. \A j \in 1 .. u :
          /\ tasks'[n + j].of = at + 1 /\ tasks'[n + j].kind = KindOf(call)
          /\ tasks'[n + j].last <=> /\ call.op = "multipart" /\ j = u
                                    /\ Closes(call.files)
  BY DEF Pushes
<1>5. \A k \in 1 .. Len(calls) : outcome[k] = << >>
  BY <1>2 DEF Queue
<1>6. u > 1 => call.op = "multipart"
  BY DEF TasksOf
<1> HIDE DEF u, n, call
<1>7. \A j \in 1 .. Len(tasks') : j \in 1 .. n \/ \E i \in 1 .. u : j = n + i
  BY <1>1, <1>2, Positions
<1>8. ASSUME NEW j \in 1 .. n PROVE Queued(j)'
  <2>1. tasks'[j] = tasks[j] /\ Queued(j) /\ tasks[j].of \in 1 .. at /\ tasks[j].of # at + 1
    BY <1>1, <1>3
  <2>2. \A i \in j + 1 .. Len(tasks') :
            \/ i \in j + 1 .. n /\ tasks'[i] = tasks[i]
            \/ tasks'[i].of = at + 1
    <3> SUFFICES ASSUME NEW i \in j + 1 .. Len(tasks'), i \notin j + 1 .. n
                 PROVE  tasks'[i].of = at + 1
      BY <1>1, <1>3
    <3>1. i \in 1 .. Len(tasks') /\ i \notin 1 .. n
      BY <1>1
    <3>2. QED
      BY <1>4, <1>7, <3>1
  <2>3. \A i \in j + 1 .. n : i \in j + 1 .. Len(tasks') /\ tasks'[i] = tasks[i]
    BY <1>1, <1>2, <1>3
  <2>4. tasks[j].of <= at + 1
    BY <1>1, <2>1
  <2>5. \A i \in j + 1 .. Len(tasks') :
            /\ tasks[j].of <= tasks'[i].of
            /\ tasks[j].of = tasks'[i].of => calls[tasks[j].of].op = "multipart"
    BY <2>1, <2>2, <2>4 DEF Queued, n
  <2>6. (\A i \in j + 1 .. Len(tasks') : tasks'[i].of # tasks[j].of)
            <=> \A i \in j + 1 .. n : tasks[i].of # tasks[j].of
    BY <2>1, <2>2, <2>3
  <2>7. tasks[j].of \in 1 .. at + 1
    BY <1>1, <2>1
  <2>8. QED
    BY <1>2, <2>1, <2>5, <2>6, <2>7 DEF Queued, n
<1>9. ASSUME NEW j \in 1 .. Len(tasks'), NEW i \in 1 .. u, j = n + i
      PROVE  Queued(j)'
  <2>1. \A k \in j + 1 .. Len(tasks') : \E m \in 1 .. u : k = n + m /\ m > i
    <3> SUFFICES ASSUME NEW k \in j + 1 .. Len(tasks')
                 PROVE  \E m \in 1 .. u : k = n + m /\ m > i
      OBVIOUS
    <3>1. k - n \in 1 .. u /\ k = n + (k - n) /\ k - n > i
      BY <1>1, <1>2, <1>9
    <3>2. QED
      BY <3>1
  <2>2. \A k \in j + 1 .. Len(tasks') : tasks'[k].of = at + 1
    BY <1>4, <2>1
  <2>3. (\A k \in j + 1 .. Len(tasks') : tasks'[k].of # at + 1) <=> i = u
    <3>1. CASE i = u
      <4>1. j + 1 .. Len(tasks') = {}
        BY <1>1, <1>2, <1>9, <3>1
      <4>2. QED
        BY <3>1, <4>1
    <3>2. CASE i # u
      <4>1. j + 1 \in j + 1 .. Len(tasks')
        BY <1>1, <1>2, <1>9, <3>2
      <4>2. QED
        BY <2>2, <3>2, <4>1
    <3>3. QED
      BY <3>1, <3>2
  <2>4. ASSUME NEW k \in j + 1 .. Len(tasks') PROVE call.op = "multipart"
    <3>1. u > 1
      BY <1>1, <2>1
    <3>2. QED
      BY <1>6, <3>1
  <2>5. at + 1 \in 1 .. at + 1 /\ at + 1 <= at + 1
    BY <1>1
  <2>6. tasks'[j].of = at + 1 /\ tasks'[j].kind = KindOf(call)
    BY <1>4, <1>9
  <2>7. tasks'[j].last <=>
            /\ call.op = "multipart" /\ Closes(call.files)
            /\ \A k \in j + 1 .. Len(tasks') : tasks'[k].of # at + 1
    BY <1>4, <1>9, <2>3
  <2>8. calls'[at + 1] = call
    BY <1>2 DEF call
  <2>9. QED
    BY <1>2, <1>5, <1>1, <2>2, <2>4, <2>5, <2>6, <2>7, <2>8 DEF Queued
<1>10. \A j \in 1 .. Len(tasks') : Queued(j)'
  BY <1>7, <1>8, <1>9
<1>11. ASSUME NEW k \in 1 .. at + 1
       PROVE  outcome[k] = << >> /\ ~Pending(k)' <=> TasksOf(calls[k]) = 0
  <2>1. CASE k = at + 1
    <3>1. Pending(k)' <=> u # 0
      <4>1. CASE u = 0
        <5>1. \A j \in 1 .. Len(tasks') : tasks'[j].of # k
          BY <1>1, <1>2, <1>3, <2>1, <4>1
        <5>2. QED
          BY <4>1, <5>1 DEF Pending
      <4>2. CASE u # 0
        <5>1. 1 \in 1 .. u /\ n + 1 \in 1 .. Len(tasks')
          BY <1>1, <1>2, <4>2
        <5>2. tasks'[n + 1].of = k
          BY <1>4, <2>1, <5>1
        <5>3. QED
          BY <4>2, <5>1, <5>2 DEF Pending
      <4>3. QED
        BY <4>1, <4>2
    <3>2. QED
      BY <1>1, <2>1, <3>1 DEF u, call
  <2>2. CASE k # at + 1
    <3>1. k \in 1 .. at
      BY <1>1, <2>2
    <3>2. Pending(k)' <=> Pending(k)
      <4>1. \A j \in 1 .. Len(tasks') :
                tasks'[j].of = k => j \in 1 .. n /\ tasks[j].of = k
        BY <1>3, <1>4, <1>7, <2>2
      <4>2. \A j \in 1 .. n : j \in 1 .. Len(tasks') /\ tasks'[j] = tasks[j]
        BY <1>1, <1>2, <1>3
      <4>3. QED
        BY <4>1, <4>2 DEF Pending, n
    <3>3. QED
      BY <3>1, <3>2 DEF Queue
  <2>3. QED
    BY <2>1, <2>2
<1>12. QED
  BY <1>2, <1>5, <1>10, <1>11 DEF Queue

(* What is pending when the head of the series has ended.                  *)
LEMMA PendingEnds ==
    ASSUME IInv, Queue, NEW r \in BOOLEAN, Ends(r)
    PROVE  /\ \A k : k # First.of => (Pending(k)' <=> Pending(k))
           /\ \A k : Pending(k)' <=> \E i \in 2 .. Len(tasks) : tasks[i].of = k
<1> DEFINE n == Len(tasks)
<1>1. tasks \in Seq(Subtask) /\ tasks # << >> /\ tasks' = Tail(tasks)
  BY DEF IInv, ServerType, Ends
<1>2. /\ n \in Nat /\ n >= 1 /\ Len(tasks') = n - 1
      /\ \A j \in 1 .. Len(tasks') : tasks'[j] = tasks[j + 1] /\ j + 1 \in 2 .. n
  BY <1>1, OneLess
<1> HIDE DEF n
<1>3. \A j \in 2 .. n : j - 1 \in 1 .. Len(tasks') /\ tasks'[j - 1] = tasks[j]
  <2> SUFFICES ASSUME NEW j \in 2 .. n
               PROVE  j - 1 \in 1 .. Len(tasks') /\ tasks'[j - 1] = tasks[j]
    OBVIOUS
  <2>1. j - 1 \in 1 .. Len(tasks') /\ (j - 1) + 1 = j
    BY <1>2
  <2>2. QED
    BY <1>2, <2>1
<1>4. ASSUME NEW k PROVE Pending(k)' <=> \E i \in 2 .. n : tasks[i].of = k
  <2>1. Pending(k)' <=> \E j \in 1 .. Len(tasks') : tasks'[j].of = k
    BY DEF Pending
  <2>2. QED
    BY <1>2, <1>3, <2>1
<1>5. ASSUME NEW k, k # First.of
      PROVE  Pending(k) <=> \E i \in 2 .. n : tasks[i].of = k
  <2>1. \A i \in 1 .. n : i = 1 \/ i \in 2 .. n
    BY <1>2
  <2>2. \A i \in 2 .. n : i \in 1 .. n
    BY <1>2
  <2>3. tasks[1].of # k
    BY <1>5 DEF First
  <2>4. QED
    BY <2>1, <2>2, <2>3 DEF Pending, n
<1>6. QED
  BY <1>4, <1>5 DEF n

(* A task that ends keeps the queue.                                       *)
LEMMA QueueEnds ==
    ASSUME IInv, Queue, NEW r \in BOOLEAN, Ends(r)
    PROVE  Queue'
<1> DEFINE k1 == First.of
           n == Len(tasks)
<1>1. tasks \in Seq(Subtask) /\ tasks # << >> /\ tasks' = Tail(tasks)
  BY DEF IInv, ServerType, Ends
<1>2. /\ n \in Nat /\ n >= 1 /\ Len(tasks') = n - 1
      /\ \A j \in 1 .. Len(tasks') : tasks'[j] = tasks[j + 1] /\ j + 1 \in 2 .. n
  BY <1>1, OneLess
<1>3. Queued(1) /\ k1 \in 1 .. at /\ k1 \in 1 .. Len(calls)
  BY <1>1, HeadQueued
<1>4. /\ outcome \in [1 .. Len(calls) -> Seq(BOOLEAN)] /\ Len(calls) \in Nat
      /\ at \in 0 .. Len(calls)
  BY ProgramsAssumption DEF IInv, ServerType
<1>5. /\ calls' = calls /\ at' = at /\ pc = "series" /\ pc' = "series"
      /\ outcome' = [outcome EXCEPT ![k1] = Append(@, r)]
  BY DEF Ends
<1>6. /\ outcome'[k1] # << >>
      /\ \A k \in 1 .. Len(calls) : k # k1 => outcome'[k] = outcome[k]
  <2>1. Append(outcome[k1], r) # << >>
    <3>1. outcome[k1] \in Seq(BOOLEAN)
      BY <1>3, <1>4
    <3>2. QED
      BY <3>1, AppendProperties
  <2>2. outcome'[k1] = Append(outcome[k1], r)
    BY <1>3, <1>4, <1>5
  <2>3. QED
    BY <1>3, <1>4, <1>5, <2>1, <2>2
<1>7. \A j \in 1 .. n : Queued(j)
  BY DEF Queue
<1>8. \A i \in 2 .. n :
          k1 <= tasks[i].of /\ (k1 = tasks[i].of => calls[k1].op = "multipart")
  BY <1>3 DEF Queued, First
<1> HIDE DEF k1, n
<1>9. ASSUME NEW j \in 1 .. Len(tasks') PROVE Queued(j)'
  <2> DEFINE t == tasks[j + 1]
  <2>1. j + 1 \in 1 .. n /\ j + 1 \in 2 .. n /\ tasks'[j] = t /\ Queued(j + 1)
    BY <1>2, <1>7
  <2>2. /\ t.of \in 1 .. at /\ t.kind = KindOf(calls[t.of])
        /\ \A i \in j + 2 .. n :
               /\ t.of <= tasks[i].of
               /\ t.of = tasks[i].of => calls[t.of].op = "multipart"
        /\ t.last <=> /\ calls[t.of].op = "multipart" /\ Closes(calls[t.of].files)
                      /\ \A i \in j + 2 .. n : tasks[i].of # t.of
        /\ \A k \in 1 .. Len(calls) : k > t.of => outcome[k] = << >>
        /\ calls[t.of].op # "multipart" => outcome[t.of] = << >>
    <3>1. j + 1 + 1 = j + 2
      BY <2>1
    <3>2. QED
      BY <2>1, <3>1 DEF Queued, n
  <2>3. k1 <= t.of /\ (k1 = t.of => calls[k1].op = "multipart")
    BY <1>8, <2>1
  <2> HIDE DEF t
  <2>4. \A i \in j + 1 .. Len(tasks') : i + 1 \in j + 2 .. n /\ tasks'[i] = tasks[i + 1]
    BY <1>2
  <2>5. \A i \in j + 2 .. n : i - 1 \in j + 1 .. Len(tasks') /\ tasks'[i - 1] = tasks[i]
    <3> SUFFICES ASSUME NEW i \in j + 2 .. n
                 PROVE  i - 1 \in j + 1 .. Len(tasks') /\ tasks'[i - 1] = tasks[i]
      OBVIOUS
    <3>1. i - 1 \in j + 1 .. Len(tasks') /\ i - 1 \in 1 .. Len(tasks') /\ (i - 1) + 1 = i
      BY <1>2
    <3>2. QED
      BY <1>2, <3>1
  <2>6. \A i \in j + 1 .. Len(tasks') :
            /\ t.of <= tasks'[i].of
            /\ t.of = tasks'[i].of => calls[t.of].op = "multipart"
    BY <2>2, <2>4
  <2>7. (\A i \in j + 1 .. Len(tasks') : tasks'[i].of # t.of)
            <=> \A i \in j + 2 .. n : tasks[i].of # t.of
    BY <2>4, <2>5
  <2>8. \A k \in 1 .. Len(calls) : k > t.of => outcome'[k] = << >>
    <3> SUFFICES ASSUME NEW k \in 1 .. Len(calls), k > t.of
                 PROVE  outcome'[k] = << >>
      OBVIOUS
    <3>1. k # k1
      BY <1>3, <1>4, <2>2, <2>3
    <3>2. QED
      BY <1>6, <2>2, <3>1
  <2>9. calls[t.of].op # "multipart" => outcome'[t.of] = << >>
    <3>1. t.of \in 1 .. Len(calls)
      BY <1>4, <2>2
    <3>2. QED
      BY <1>6, <2>2, <2>3, <3>1
  <2>10. QED
    BY <1>5, <2>1, <2>2, <2>6, <2>7, <2>8, <2>9 DEF Queued, t
<1>10. ASSUME NEW k \in 1 .. at
       PROVE  outcome'[k] = << >> /\ ~Pending(k)' <=> TasksOf(calls[k]) = 0
  <2>1. outcome[k] = << >> /\ ~Pending(k) <=> TasksOf(calls[k]) = 0
    BY DEF Queue
  <2>2. CASE k = k1
    <3>1. Pending(k)
      BY <1>1, <2>2, HeadQueued DEF Pending, k1, First
    <3>2. QED
      BY <1>6, <2>1, <2>2, <3>1
  <2>3. CASE k # k1
    <3>1. k \in 1 .. Len(calls)
      BY <1>4
    <3>2. Pending(k)' <=> Pending(k)
      BY <2>3, PendingEnds DEF k1
    <3>3. QED
      BY <1>6, <2>1, <2>3, <3>1, <3>2
  <2>4. QED
    BY <2>2, <2>3
<1>11. QED
  <2>1. at = Len(calls)
    BY <1>5 DEF Queue
  <2>2. QED
    BY <1>5, <1>9, <1>10, <2>1 DEF Queue

(* Neither the handler nor a task: the queue stays as it is.               *)
LEMMA QueueRests ==
    ASSUME Queue, UNCHANGED <<calls, at, tasks, outcome>>,
           pc' # "handler" => at = Len(calls), pc' = "handler" => pc = "handler",
           pc' \notin {"handler", "series"} => tasks = << >>
    PROVE  Queue'
<1>1. \A j \in 1 .. Len(tasks) : Queued(j)'
  BY DEF Queue, Queued
<1>2. \A k \in 1 .. at :
          outcome'[k] = << >> /\ ~Pending(k)' <=> TasksOf(calls'[k]) = 0
  BY DEF Queue, Pending
<1>3. QED
  BY <1>1, <1>2 DEF Queue

(* What is said at once, or by another callback, is not data.              *)
LEMMA DataKept ==
    ASSUME ServerType, DataRead, calls' = calls, NEW k, NEW S, Len(S) \in Nat,
           \A j \in 1 .. Len(S) : S[j] # "data", Says(k, S)
    PROVE  DataRead'
<1>1. Len(body) \in Nat /\ Len(S) \in Nat
  BY DEF ServerType, IsSeq
<1>2. \A j \in 1 .. Len(body') : j \in 1 .. Len(body) \/ \E i \in 1 .. Len(S) : j = Len(body) + i
  <2>1. Len(body') = Len(body) + Len(S)
    BY DEF Says
  <2>2. QED
    BY <1>1, <2>1, Positions
<1>3. \A j \in 1 .. Len(body') : body'[j].says = "data" =>
          j \in 1 .. Len(body) /\ body'[j] = body[j]
  BY <1>2 DEF Says
<1>4. QED
  BY <1>3 DEF DataRead

(* What a call can say at once ...                                         *)
LEMMA SaidAtOnce ==
    ASSUME NEW call
    PROVE  AtOnce(call) \in {<< >>, <<"text">>, <<"error">>}
  BY DEF AtOnce

(* ... and what the callback of a task can say.                            *)
LEMMA SaidInTheEnd ==
    ASSUME NEW call, NEW last, NEW r
    PROVE  /\ InTheEnd(call, last, r) \in
                  {<< >>, <<"data">>, <<"error">>, <<"saved">>, <<"form">>, <<"result">>}
           /\ InTheEnd(call, last, r) = <<"data">> => call.op = "file" /\ r
<1>1. CASE call.op = "file"
  BY <1>1 DEF InTheEnd
<1>2. CASE call.op # "file"
  BY <1>2 DEF InTheEnd
<1>3. QED
  BY <1>1, <1>2

(* Every step keeps the data in the body what was read of a range ...      *)
LEMMA DataStep ==
    ASSUME IInv, SInv, [Next]_vars
    PROVE  DataRead'
<1>1. ServerType /\ Queue /\ DataRead
  BY DEF IInv, SInv
<1>2. CASE Call
  <2>1. InCall /\ Says(at + 1, AtOnce(calls[at + 1]))
    BY <1>2, CallGives
  <2>2. PICK S : S = AtOnce(calls[at + 1])
    OBVIOUS
  <2>3. S \in {<< >>, <<"text">>, <<"error">>}
    BY <2>2, SaidAtOnce
  <2>4. \A j \in 1 .. Len(S) : S[j] # "data"
    BY <2>3
  <2>5. Len(S) \in Nat
    BY <2>3
  <2>6. QED
    BY <1>1, <2>1, <2>2, <2>4, <2>5, DataKept DEF InCall
<1>3. ASSUME NEW ok \in BOOLEAN, RunTask(ok) PROVE DataRead'
  <2> DEFINE call == calls[First.of]
  <2>1. PICK r \in BOOLEAN : Ends(r) /\ (Replaces(call, r) \/ Adds(call, r))
    BY <1>1, <1>3, RunTaskGives
  <2>2. calls' = calls /\ tasks # << >>
    BY <2>1 DEF Ends
  <2>3. First.of \in 1 .. Len(calls)
    BY <1>1, <2>2, HeadQueued
  <2>4. CASE Replaces(call, r)
    <3> DEFINE x == Piece(First.of, "remote", Null, "plain", 0)
    <3>1. body' = <<x>>
      BY <2>4 DEF Replaces
    <3>2. x.says = "remote"
      BY DEF Piece
    <3> HIDE DEF x
    <3>3. \A j \in 1 .. Len(body') : body'[j] = x
      BY <3>1
    <3>4. QED
      BY <3>2, <3>3 DEF DataRead
  <2>5. CASE Adds(call, r)
    <3> DEFINE last == First.last
               k == First.of
    <3>1. Says(k, InTheEnd(call, last, r))
      BY <2>5 DEF Adds
    <3>2. PICK S : S = InTheEnd(call, last, r)
      OBVIOUS
    <3>3. /\ S \in {<< >>, <<"data">>, <<"error">>, <<"saved">>, <<"form">>, <<"result">>}
          /\ S = <<"data">> => call.op = "file" /\ r
      BY <3>2, SaidInTheEnd
    <3> HIDE DEF k, last
    <3>4. CASE S # <<"data">>
      <4>1. Len(S) \in Nat /\ \A j \in 1 .. Len(S) : S[j] # "data"
        BY <3>3, <3>4
      <4>2. QED
        BY <1>1, <2>2, <3>1, <3>2, <4>1, DataKept
    <3>5. CASE S = <<"data">>
      <4>1. /\ call.op = "file" /\ ~ReadFails(call)
            /\ body'[Len(body) + 1].len = ReadBytes(call)
        BY <2>5, <3>3, <3>5 DEF Adds
      <4>2. Len(S) = 1 /\ Len(body) \in Nat
        BY <1>1, <3>5 DEF ServerType, IsSeq
      <4>3. /\ Len(body') = Len(body) + 1
            /\ \A j \in 1 .. Len(body) : body'[j] = body[j]
            /\ body'[Len(body) + 1].of = k
        BY <3>1, <3>2, <4>2 DEF Says
      <4>4. \A j \in 1 .. Len(body') : j \in 1 .. Len(body) \/ j = Len(body) + 1
        BY <4>2, <4>3
      <4>5. calls'[k] = call /\ k \in 1 .. Len(calls)
        BY <2>2, <2>3 DEF k
      <4> HIDE DEF call
      <4>6. QED
        BY <1>1, <2>2, <4>1, <4>3, <4>4, <4>5 DEF DataRead
    <3>6. QED
      BY <3>4, <3>5
  <2>6. QED
    BY <2>1, <2>4, <2>5
<1>4. CASE ProxyReplyFailed
  <2>1. calls' = calls
    BY <1>4 DEF ProxyReplyFailed
  <2>2. CASE body' = body
    BY <1>1, <2>1, <2>2 DEF DataRead
  <2>3. CASE \E coding \in compress :
               body' = Append(body, Piece(Proxied, "error", Len(heap) + 1, coding, 0))
    <3>1. Says(Proxied, <<"error">>)
      BY <1>1, <2>3, PieceTells
    <3>2. Len(<<"error">>) \in Nat /\ \A j \in 1 .. Len(<<"error">>) : <<"error">>[j] # "data"
      OBVIOUS
    <3>3. QED
      BY <1>1, <2>1, <3>1, <3>2, DataKept
  <2>4. QED
    BY <1>4, <2>2, <2>3 DEF ProxyReplyFailed
<1>5. CASE UNCHANGED <<calls, body>>
  BY <1>1, <1>5 DEF DataRead
<1>6. QED
  BY <1>2, <1>3, <1>4, <1>5
     DEF Next, vars, HandlerReturns, RunCallback, SeriesEnds, Reply

(* ... and the queue in the order of the calls.                            *)
LEMMA QueueStep ==
    ASSUME IInv, Queue, [Next]_vars
    PROVE  Queue'
<1>1. CASE Call
  BY <1>1, CallGives, QueueCall
<1>2. ASSUME NEW ok \in BOOLEAN, RunTask(ok) PROVE Queue'
  BY <1>2, RunTaskGives, QueueEnds
<1>3. ASSUME UNCHANGED <<calls, at, tasks, outcome>>,
             \/ pc = "handler" /\ pc' = "series" /\ at = Len(calls)
             \/ pc = "series" /\ pc' = "callbacks" /\ tasks = << >>
             \/ pc = "callbacks" /\ pc' \in {"callbacks", "done", "undefined"}
             \/ pc' = pc
      PROVE  Queue'
  BY <1>3, QueueRests DEF Queue
<1>4. CASE HandlerReturns
  BY <1>3, <1>4 DEF HandlerReturns
<1>5. ASSUME NEW ok \in BOOLEAN, Reply(ok) PROVE Queue'
  BY <1>3, <1>5 DEF Reply
<1>6. CASE RunCallback \/ SeriesEnds
  BY <1>3, <1>6 DEF RunCallback, SeriesEnds
<1>7. CASE ProxyReplyFailed
  BY <1>3, <1>7 DEF ProxyReplyFailed
<1>8. CASE UNCHANGED vars
  BY <1>3, <1>8 DEF vars
<1>9. QED
  BY <1>1, <1>2, <1>4, <1>5, <1>6, <1>7, <1>8 DEF Next

(* Both hold throughout.                                                   *)
LEMMA Scripted == Spec => [](IInv /\ SInv)
<1>1. ASSUME Init PROVE SInv
  <2>1. /\ pc = "handler" /\ body = << >> /\ tasks = << >> /\ at = 0
        /\ outcome = [k \in 1 .. Len(calls) |-> << >>]
    BY <1>1 DEF Init
  <2>2. Len(body) = 0 /\ Len(tasks) = 0
    BY <2>1
  <2>3. QED
    BY <2>1, <2>2 DEF SInv, Queue, DataRead
<1>2. IInv /\ SInv /\ [Next]_vars => SInv'
  BY QueueStep, DataStep DEF SInv
<1>3. QED
  BY <1>1, <1>2, Invariance, PTL DEF Spec

(* Of a file whose size and range an int can hold, File refuses at once    *)
(* exactly the empty and the reversed ranges, and what is sent of every    *)
(* other one is exactly its bytes: from start to before end, as far as the *)
(* file goes, through all the conversions between size_t, int and off_t of *)
(* HttpFile::send_file and whatever the width of int.                      *)
THEOREM RangesServed == Spec => []RangeRight
<1>1. ASSUME IInv, SInv PROVE RangeRight
  <2>1. SUFFICES ASSUME NEW k \in 1 .. Len(calls), calls[k].op = "file", calls[k].exists,
                        IsSmall(calls[k]), pc # "handler"
                 PROVE  /\ outcome[k] = << >> /\ (\A t \in Range(tasks) : t.of # k)
                               <=> EndOf(calls[k]) <= StartOf(calls[k])
                        /\ \A j \in 1 .. Len(body) :
                               body[j].of = k /\ body[j].says = "data" =>
                                   {b \in 0 .. calls[k].size - 1 :
                                        StartOf(calls[k]) <= b /\ b < EndOf(calls[k])}
                                     = body[j].len.from ..
                                           body[j].len.from + body[j].len.n - 1
    BY DEF RangeRight, IsSmall, Small, StartOf, EndOf
  <2> DEFINE f == calls[k]
  <2>2. ServerType /\ Queue /\ DataRead
    BY <1>1 DEF IInv, SInv
  <2>3. IsFile(f) /\ tasks \in Seq(Subtask)
    BY <2>1, <2>2, ProgramsAssumption DEF ServerType, IsFile
  <2>4. FileRange(f) = [start |-> StartOf(f), end |-> EndOf(f)]
    BY <2>1, <2>3, RangeIs
  <2>5. k \in 1 .. at /\ f.op = "file" /\ f.exists
    BY <2>1, <2>2 DEF Queue
  <2>6. (\A t \in Range(tasks) : t.of # k) <=> ~Pending(k)
    <3>1. Range(tasks) = {tasks[j] : j \in 1 .. Len(tasks)}
      BY <2>3 DEF Range
    <3>2. QED
      BY <3>1 DEF Pending
  <2>7. outcome[k] = << >> /\ ~Pending(k) <=> TasksOf(f) = 0
    BY <2>2, <2>5 DEF Queue
  <2>8. TasksOf(f) = 0 <=> Refused(f)
    BY <2>5 DEF TasksOf
  <2>9. Refused(f) <=> EndOf(f) <= StartOf(f)
    BY <2>4, <2>5 DEF Refused
  <2>10. ASSUME NEW j \in 1 .. Len(body), body[j].of = k, body[j].says = "data"
         PROVE  {b \in 0 .. f.size - 1 : StartOf(f) <= b /\ b < EndOf(f)}
                  = body[j].len.from .. body[j].len.from + body[j].len.n - 1
    <3>1. body[j].len = ReadBytes(f) /\ ~ReadFails(f)
      BY <2>2, <2>10 DEF DataRead
    <3>2. QED
      BY <2>1, <2>3, <3>1, BytesRight
  <2>11. QED
    BY <2>6, <2>7, <2>8, <2>9, <2>10
<1>2. QED
  BY <1>1, Scripted, PTL

-----------------------------------------------------------------------------
(* FlattenSeq                                                              *)

(* A non-empty set of naturals has a least element.                        *)
LEMMA Least ==
    ASSUME NEW T \in SUBSET Nat, T # {}
    PROVE  \E x \in T : \A y \in T : x <= y
<1> DEFINE R == OpToRel(<, Nat)
<1>1. IsWellFoundedOn(R, Nat)
  BY NatLessThanWellFounded
<1>2. R = {ss \in Nat \X Nat : ss[1] < ss[2]}
  BY DEF OpToRel
<1> HIDE DEF R
<1>3. PICK x \in T : \A y \in T : ~(<<y, x>> \in R)
  BY <1>1, WFMin
<1>4. ASSUME NEW y \in T PROVE x <= y
  <2>1. x \in Nat /\ y \in Nat /\ ~(<<y, x>> \in R)
    BY <1>3
  <2>2. <<y, x>> \in Nat \X Nat /\ <<y, x>>[1] = y /\ <<y, x>>[2] = x
    BY <2>1
  <2>3. ~(y < x)
    BY <1>2, <2>1, <2>2
  <2>4. QED
    BY <2>1, <2>3
<1>5. QED
  BY <1>4

(* f[i] is the concatenation of the first i lists, up to m.                *)
IsFlat(s, m, f) ==
    f = [i \in 1 .. m |-> IF i = 1 THEN s[i] ELSE f[i - 1] \o s[i]]

(* The recursive definition of FlattenSeq has a solution ...               *)
LEMMA FlatExists ==
    ASSUME NEW s, NEW n \in Nat \ {0}
    PROVE  \E f : IsFlat(s, n, f)
<1> DEFINE Bad == {m \in 1 .. n : ~\E f : IsFlat(s, m, f)}
<1>1. SUFFICES ASSUME Bad # {} PROVE FALSE
  OBVIOUS
<1>2. PICK m \in Bad : \A y \in Bad : m <= y
  <2>1. Bad \in SUBSET Nat
    OBVIOUS
  <2> HIDE DEF Bad
  <2>2. QED
    BY <1>1, <2>1, Least
<1>3. m \in 1 .. n
  OBVIOUS
<1>4. CASE m = 1
  <2> DEFINE f == [i \in 1 .. m |-> s[i]]
  <2>1. \A i \in 1 .. m : f[i] = IF i = 1 THEN s[i] ELSE f[i - 1] \o s[i]
    BY <1>4
  <2>2. f = [i \in 1 .. m |-> f[i]]
    OBVIOUS
  <2> HIDE DEF f
  <2>3. IsFlat(s, m, f)
    BY <2>1, <2>2 DEF IsFlat
  <2>4. QED
    BY <2>3
<1>5. CASE m # 1
  <2>1. m - 1 \in 1 .. n /\ m - 1 \notin Bad
    BY <1>2, <1>3, <1>5
  <2>2. PICK g : IsFlat(s, m - 1, g)
    BY <2>1
  <2>3. \A i \in 1 .. m - 1 : g[i] = IF i = 1 THEN s[i] ELSE g[i - 1] \o s[i]
    BY <2>2 DEF IsFlat
  <2> DEFINE f == [i \in 1 .. m |-> IF i < m THEN g[i] ELSE g[m - 1] \o s[m]]
  <2>4. \A i \in 1 .. m : f[i] = IF i = 1 THEN s[i] ELSE f[i - 1] \o s[i]
    <3> SUFFICES ASSUME NEW i \in 1 .. m
                 PROVE  f[i] = IF i = 1 THEN s[i] ELSE f[i - 1] \o s[i]
      OBVIOUS
    <3>1. CASE i = m
      <4>1. i # 1 /\ i - 1 \in 1 .. m /\ i - 1 < m /\ ~(i < m)
        BY <1>3, <1>5, <3>1
      <4>2. f[i] = g[m - 1] \o s[m] /\ f[i - 1] = g[i - 1]
        BY <4>1
      <4> HIDE DEF f
      <4>3. QED
        BY <3>1, <4>1, <4>2
    <3>2. CASE i # m
      <4>1. i \in 1 .. m - 1 /\ i < m
        BY <1>3, <3>2
      <4>2. i # 1 => i - 1 \in 1 .. m /\ i - 1 < m
        BY <1>3, <4>1
      <4>3. f[i] = g[i] /\ (i # 1 => f[i - 1] = g[i - 1])
        BY <4>1, <4>2
      <4> HIDE DEF f
      <4>4. QED
        BY <2>3, <4>1, <4>3
    <3>3. QED
      BY <3>1, <3>2
  <2>5. f = [i \in 1 .. m |-> f[i]]
    OBVIOUS
  <2> HIDE DEF f
  <2>6. IsFlat(s, m, f)
    BY <2>4, <2>5 DEF IsFlat
  <2>7. QED
    BY <2>6
<1>6. QED
  BY <1>4, <1>5

(* ... whose last value is the result ...                                  *)
LEMMA FlatIs ==
    ASSUME NEW s, Len(s) \in Nat \ {0}
    PROVE  \E f : IsFlat(s, Len(s), f) /\ FlattenSeq(s) = f[Len(s)]
<1> DEFINE h == CHOOSE f : IsFlat(s, Len(s), f)
<1>1. IsFlat(s, Len(s), h)
  BY FlatExists
<1>2. FlattenSeq(s) = h[Len(s)]
  BY DEF FlattenSeq, IsFlat
<1> HIDE DEF h
<1>3. QED
  BY <1>1, <1>2

(* ... and which adds one sequence after the other.                        *)
LEMMA FlatStep ==
    ASSUME NEW s, NEW n, NEW f, IsFlat(s, n, f), NEW i \in 1 .. n
    PROVE  f[i] = IF i = 1 THEN s[i] ELSE f[i - 1] \o s[i]
  BY DEF IsFlat

(* Its values are sequences.                                               *)
LEMMA FlatType ==
    ASSUME NEW T, NEW s \in Seq(Seq(T)), NEW f, IsFlat(s, Len(s), f)
    PROVE  \A i \in 1 .. Len(s) : f[i] \in Seq(T)
<1> DEFINE Bad == {i \in 1 .. Len(s) : f[i] \notin Seq(T)}
<1>1. SUFFICES ASSUME Bad # {} PROVE FALSE
  OBVIOUS
<1>2. PICK m \in Bad : \A y \in Bad : m <= y
  <2>1. Bad \in SUBSET Nat
    OBVIOUS
  <2> HIDE DEF Bad
  <2>2. QED
    BY <1>1, <2>1, Least
<1>3. m \in 1 .. Len(s) /\ s[m] \in Seq(T) /\ f[m] \notin Seq(T)
  OBVIOUS
<1>4. f[m] = IF m = 1 THEN s[m] ELSE f[m - 1] \o s[m]
  BY <1>3, FlatStep
<1>5. m # 1
  BY <1>3, <1>4
<1>6. m - 1 \in 1 .. Len(s) /\ ~(m <= m - 1)
  BY <1>3, <1>5
<1>7. f[m - 1] \in Seq(T)
  BY <1>2, <1>6
<1>8. f[m - 1] \o s[m] \in Seq(T)
  BY <1>3, <1>7, ConcatProperties
<1>9. QED
  BY <1>3, <1>4, <1>5, <1>8

(* Lists of which all are empty.                                           *)
LEMMA FlatNone ==
    ASSUME NEW s \in Seq({<< >>})
    PROVE  FlattenSeq(s) = << >>
<1>1. CASE Len(s) = 0
  <2>1. s = << >>
    BY <1>1
  <2>2. FlattenSeq(s) = s
    BY <1>1 DEF FlattenSeq
  <2>3. QED
    BY <2>1, <2>2
<1>2. CASE Len(s) # 0
  <2>1. PICK f : IsFlat(s, Len(s), f) /\ FlattenSeq(s) = f[Len(s)]
    BY <1>2, FlatIs
  <2> DEFINE Bad == {i \in 1 .. Len(s) : f[i] # << >>}
  <2>2. SUFFICES ASSUME Bad # {} PROVE FALSE
    BY <1>2, <2>1
  <2>3. PICK m \in Bad : \A y \in Bad : m <= y
    <3>1. Bad \in SUBSET Nat
      OBVIOUS
    <3> HIDE DEF Bad
    <3>2. QED
      BY <2>2, <3>1, Least
  <2>4. m \in 1 .. Len(s) /\ s[m] = << >> /\ f[m] # << >>
    OBVIOUS
  <2>5. f[m] = IF m = 1 THEN s[m] ELSE f[m - 1] \o s[m]
    <3> HIDE DEF Bad
    <3>1. IsFlat(s, Len(s), f) /\ m \in 1 .. Len(s)
      BY <2>1, <2>4
    <3>2. QED
      BY <3>1, FlatStep
  <2>6. m # 1
    BY <2>4, <2>5
  <2>7. m - 1 \in 1 .. Len(s) /\ ~(m <= m - 1)
    BY <2>4, <2>6
  <2>8. f[m - 1] = << >>
    BY <2>3, <2>7
  <2>9. << >> \o << >> = << >>
    OBVIOUS
  <2>10. QED
    BY <2>4, <2>5, <2>6, <2>8, <2>9
<1>3. QED
  BY <1>1, <1>2

(* From p on the lists were empty, and the one at p becomes x: it is       *)
(* appended.                                                               *)
Fills(s, t, p, x) ==
    /\ Len(t) = Len(s) /\ t[p] = x
    /\ \A i \in 1 .. Len(s) : i # p => t[i] = s[i]
    /\ \A i \in p .. Len(s) : s[i] = << >>

(* Filling the last place that is not empty appends to the result.         *)
LEMMA FlatAppends ==
    ASSUME NEW T, NEW s \in Seq(Seq(T)), NEW t \in Seq(Seq(T)),
           NEW p \in 1 .. Len(s), NEW x \in Seq(T), Fills(s, t, p, x)
    PROVE  FlattenSeq(s) \in Seq(T) /\ FlattenSeq(t) = FlattenSeq(s) \o x
<1> DEFINE n == Len(s)
<1>1. n \in Nat \ {0} /\ n \in 1 .. n
  OBVIOUS
<1>2. PICK f : IsFlat(s, n, f) /\ FlattenSeq(s) = f[n]
  BY <1>1, FlatIs
<1>3. PICK g : IsFlat(t, n, g) /\ FlattenSeq(t) = g[n]
  BY <1>1, FlatIs DEF Fills
<1>4. \A i \in 1 .. n : f[i] \in Seq(T)
  BY <1>2, FlatType
<1>5. ASSUME NEW a \in Seq(T) PROVE a \o << >> = a /\ << >> \o a = a
  BY <1>5, ConcatEmptySeq
<1> DEFINE Bad == {i \in 1 .. n : g[i] # IF i < p THEN f[i] ELSE f[i] \o x}
<1>6. ASSUME Bad # {} PROVE FALSE
  <2>1. PICK m \in Bad : \A y \in Bad : m <= y
    <3>1. Bad \in SUBSET Nat
      OBVIOUS
    <3> HIDE DEF Bad
    <3>2. QED
      BY <1>6, <3>1, Least
  <2>2. m \in 1 .. n /\ g[m] # IF m < p THEN f[m] ELSE f[m] \o x
    OBVIOUS
  <2>3. /\ f[m] = IF m = 1 THEN s[m] ELSE f[m - 1] \o s[m]
        /\ g[m] = IF m = 1 THEN t[m] ELSE g[m - 1] \o t[m]
    <3> HIDE DEF n, Bad
    <3>1. m \in 1 .. n
      BY <2>2
    <3>2. f[m] = IF m = 1 THEN s[m] ELSE f[m - 1] \o s[m]
      <4>1. IsFlat(s, n, f)
        BY <1>2
      <4>2. QED
        BY <3>1, <4>1, FlatStep
    <3>3. g[m] = IF m = 1 THEN t[m] ELSE g[m - 1] \o t[m]
      <4>1. IsFlat(t, n, g)
        BY <1>3
      <4>2. QED
        BY <3>1, <4>1, FlatStep
    <3>4. QED
      BY <3>2, <3>3
  <2>4. m # 1 => /\ m - 1 \in 1 .. n /\ f[m - 1] \in Seq(T)
                 /\ g[m - 1] = IF m - 1 < p THEN f[m - 1] ELSE f[m - 1] \o x
    <3> SUFFICES ASSUME m # 1
                 PROVE  /\ m - 1 \in 1 .. n /\ f[m - 1] \in Seq(T)
                        /\ g[m - 1] = IF m - 1 < p THEN f[m - 1] ELSE f[m - 1] \o x
      OBVIOUS
    <3>1. m - 1 \in 1 .. n /\ ~(m <= m - 1)
      BY <2>2
    <3>2. m - 1 \notin Bad
      BY <2>1, <3>1
    <3>3. QED
      BY <1>4, <3>1, <3>2
  <2> HIDE DEF Bad, n
  <2>5. CASE m < p
    <3>1. m # p /\ (m # 1 => m - 1 < p)
      BY <1>1, <2>2, <2>5
    <3>2. t[m] = s[m]
      BY <2>2, <3>1 DEF n, Fills
    <3>3. QED
      BY <2>2, <2>3, <2>4, <2>5, <3>1, <3>2
  <2>6. CASE m = p
    <3>1. s[m] = << >> /\ t[m] = x /\ ~(m < p) /\ (m # 1 => m - 1 < p)
      BY <1>1, <2>2, <2>6 DEF n, Fills
    <3>2. CASE m = 1
      BY <1>5, <2>2, <2>3, <3>1, <3>2
    <3>3. CASE m # 1
      <4>1. f[m] = f[m - 1] /\ g[m] = f[m - 1] \o x
        BY <1>5, <2>3, <2>4, <3>1, <3>3
      <4>2. QED
        BY <2>2, <3>1, <4>1
    <3>4. QED
      BY <3>2, <3>3
  <2>7. CASE m > p
    <3>1. /\ ~(m < p) /\ m # 1 /\ ~(m - 1 < p) /\ m # p
          /\ m \in 1 .. Len(s) /\ m \in p .. Len(s)
      BY <1>1, <2>2, <2>7 DEF n
    <3>2. s[m] = << >> /\ t[m] = << >>
      BY <3>1 DEF Fills
    <3>3. f[m] = f[m - 1]
      BY <1>5, <2>3, <2>4, <3>1, <3>2
    <3>4. g[m] = (f[m - 1] \o x) \o << >>
      BY <2>3, <2>4, <3>1, <3>2
    <3>5. f[m - 1] \o x \in Seq(T)
      BY <2>4, <3>1, <3>2, ConcatProperties
    <3>6. g[m] = f[m - 1] \o x
      BY <1>5, <3>4, <3>5
    <3>7. QED
      BY <2>2, <3>1, <3>2, <3>3, <3>6
  <2>8. QED
    BY <1>1, <2>2, <2>5, <2>6, <2>7
<1>7. g[n] = f[n] \o x
  <2>1. n \notin Bad
    BY <1>6
  <2>2. ~(n < p)
    OBVIOUS
  <2>3. QED
    BY <1>1, <2>1, <2>2
<1>8. QED
  BY <1>1, <1>2, <1>3, <1>4, <1>7

-----------------------------------------------------------------------------
(* The answer                                                              *)

(* What the tasks of a call say: nothing, if it is a form that is not sent. *)
Unsent(call) ==
    call.op = "multipart" /\ (call.files = << >> \/ ~Last(call.files))
Due(k) == IF Unsent(calls[k]) THEN << >> ELSE Deferred(k)

(* What the ended tasks of a call have said.                               *)
Told(k) ==
    IF outcome[k] = << >> \/ Pending(k) THEN << >> ELSE Due(k)

ToldAfter(p) ==
    FlattenSeq([j \in 1 .. Len(calls) |->
        IF j > p THEN AnswerOf(j, Told(j)) ELSE << >>])

ToldAtOnce ==
    FlattenSeq([k \in 1 .. Len(calls) |->
        IF k <= at THEN AnswerOf(k, AtOnce(calls[k])) ELSE << >>])

Answer == [j \in 1 .. Len(body) |-> <<body[j].of, body[j].says>>]

Answered ==
    pc \in {"handler", "series"} =>
        Answer = IF Fetches THEN <<<<Proxied, "remote">>>> \o ToldAfter(Proxied)
                            ELSE ToldAtOnce \o ToldAfter(0)

Sayings == {"text", "error", "data", "saved", "form", "result", "remote"}
AtMostOne == {<< >>} \cup {<<w>> : w \in Sayings}
Pairs == Nat \X Sayings

(* The answer of a call says what it is given, piece by piece.             *)
LEMMA AnswerType ==
    ASSUME NEW k \in Nat, NEW S \in AtMostOne
    PROVE  /\ AnswerOf(k, S) \in Seq(Pairs) /\ Len(AnswerOf(k, S)) = Len(S)
           /\ Len(S) \in Nat
           /\ \A j \in 1 .. Len(S) : AnswerOf(k, S)[j] = <<k, S[j]>>
           /\ AnswerOf(k, << >>) = << >>
<1>1. Len(S) \in Nat /\ \A j \in 1 .. Len(S) : S[j] \in Sayings
  BY DEF AtMostOne
<1>2. \A j \in 1 .. Len(S) : <<k, S[j]>> \in Pairs
  BY <1>1 DEF Pairs
<1>3. AnswerOf(k, S) \in [1 .. Len(S) -> Pairs]
  BY <1>2 DEF AnswerOf
<1>4. AnswerOf(k, << >>) = << >>
  <2>1. AnswerOf(k, << >>) = [j \in 1 .. 0 |-> <<k, << >>[j]>>]
    BY DEF AnswerOf
  <2>2. QED
    BY <2>1
<1>5. \A j \in 1 .. Len(S) : AnswerOf(k, S)[j] = <<k, S[j]>>
  BY DEF AnswerOf
<1>6. AnswerOf(k, S) \in Seq(Pairs) /\ Len(AnswerOf(k, S)) = Len(S)
  <2> DEFINE a == AnswerOf(k, S)
  <2>1. a \in [1 .. Len(S) -> Pairs]
    BY <1>3
  <2> HIDE DEF a
  <2>2. a \in Seq(Pairs) /\ Len(a) = Len(S)
    BY <1>1, <2>1
  <2>3. QED
    BY <2>2 DEF a
<1>7. QED
  BY <1>1, <1>4, <1>5, <1>6

(* What is said is appended to the answer.                                 *)
LEMMA AnswerGrows ==
    ASSUME ServerType, Answer \in Seq(Pairs), NEW k \in Nat, NEW S \in AtMostOne, Says(k, S)
    PROVE  Answer' = Answer \o AnswerOf(k, S) /\ Answer' \in Seq(Pairs)
<1> DEFINE a == Answer
           b == AnswerOf(k, S)
           n == Len(body)
           m == Len(S)
<1>1. n \in Nat /\ m \in Nat
  BY AnswerType DEF ServerType, IsSeq
<1>2. /\ a \in Seq(Pairs) /\ b \in Seq(Pairs) /\ Len(b) = m
      /\ \A j \in 1 .. m : b[j] = <<k, S[j]>>
  BY AnswerType
<1>3. Len(a) = n /\ \A j \in 1 .. n : a[j] = <<body[j].of, body[j].says>>
  BY <1>1 DEF Answer
<1>4. /\ Len(body') = n + m
      /\ \A j \in 1 .. n : body'[j] = body[j]
      /\ \A j \in 1 .. m : body'[n + j].of = k /\ body'[n + j].says = S[j]
  BY DEF Says
<1>5. Answer' = [j \in 1 .. n + m |-> <<body'[j].of, body'[j].says>>]
  BY <1>4 DEF Answer
<1> HIDE DEF a, b, n, m
<1>6. /\ a \o b \in Seq(Pairs) /\ Len(a \o b) = n + m
      /\ \A i \in 1 .. n + m : (a \o b)[i] = IF i <= n THEN a[i] ELSE b[i - n]
  BY <1>2, <1>3, ConcatProperties
<1>7. ASSUME NEW i \in 1 .. n + m
      PROVE  <<body'[i].of, body'[i].says>> = (a \o b)[i]
  <2>1. CASE i <= n
    <3>1. i \in 1 .. n
      BY <1>1, <2>1
    <3>2. QED
      BY <1>3, <1>4, <1>6, <2>1, <3>1
  <2>2. CASE ~(i <= n)
    <3>1. i - n \in 1 .. m /\ n + (i - n) = i
      BY <1>1, <2>2
    <3>2. body'[i].of = k /\ body'[i].says = S[i - n]
      BY <1>4, <3>1
    <3>3. (a \o b)[i] = <<k, S[i - n]>>
      BY <1>2, <1>6, <2>2, <3>1
    <3>4. QED
      BY <3>2, <3>3
  <2>3. QED
    BY <2>1, <2>2
<1>8. a \o b = [i \in 1 .. n + m |-> (a \o b)[i]]
  <2>1. ASSUME NEW c \in Seq(Pairs) PROVE c = [i \in 1 .. Len(c) |-> c[i]]
    OBVIOUS
  <2>2. QED
    BY <1>6, <2>1
<1>9. Answer' = a \o b
  BY <1>5, <1>7, <1>8
<1>10. QED
  BY <1>6, <1>9 DEF a, b

(* The words of a call.                                                    *)
LEMMA SayingsOf ==
    /\ \A call : AtOnce(call) \in AtMostOne
    /\ \A call, last, r : InTheEnd(call, last, r) \in AtMostOne
    /\ \A k : Due(k) \in AtMostOne
    /\ \A k : Told(k) \in AtMostOne
<1>1. /\ << >> \in AtMostOne /\ <<"text">> \in AtMostOne /\ <<"error">> \in AtMostOne
      /\ <<"data">> \in AtMostOne /\ <<"saved">> \in AtMostOne
      /\ <<"form">> \in AtMostOne /\ <<"result">> \in AtMostOne
  BY DEF AtMostOne, Sayings
<1>2. \A call : AtOnce(call) \in AtMostOne
  BY <1>1, SaidAtOnce
<1>3. \A call, last, r : InTheEnd(call, last, r) \in AtMostOne
  BY <1>1, SaidInTheEnd
<1>4. ASSUME NEW k PROVE Due(k) \in AtMostOne
  BY <1>1 DEF Due, Unsent, Deferred
<1>5. \A k : Told(k) \in AtMostOne
  BY <1>1, <1>4 DEF Told
<1>6. QED
  BY <1>2, <1>3, <1>4, <1>5

(* The lists that ToldAfter and ToldAtOnce put together.                   *)
AfterList(p) ==
    [j \in 1 .. Len(calls) |-> IF j > p THEN AnswerOf(j, Told(j)) ELSE << >>]
AtOnceList ==
    [k \in 1 .. Len(calls) |->
        IF k <= at THEN AnswerOf(k, AtOnce(calls[k])) ELSE << >>]

(* This and NothingLater hold in every state, so in the next one, too.     *)
ListTyped ==
    Len(calls) \in Nat => \A p :
        /\ AfterList(p) \in Seq(Seq(Pairs)) /\ Len(AfterList(p)) = Len(calls)
        /\ AtOnceList \in Seq(Seq(Pairs)) /\ Len(AtOnceList) = Len(calls)
        /\ \A j \in 1 .. Len(calls) :
               /\ AfterList(p)[j] = IF j > p THEN AnswerOf(j, Told(j)) ELSE << >>
               /\ AtOnceList[j] =
                      IF j <= at THEN AnswerOf(j, AtOnce(calls[j])) ELSE << >>

(* The answers of the calls, as lists of lists.                            *)
LEMMA ListTypes ==
    ASSUME Len(calls) \in Nat, NEW p
    PROVE  /\ AfterList(p) \in Seq(Seq(Pairs)) /\ Len(AfterList(p)) = Len(calls)
           /\ AtOnceList \in Seq(Seq(Pairs)) /\ Len(AtOnceList) = Len(calls)
           /\ \A j \in 1 .. Len(calls) :
                  /\ AfterList(p)[j] = IF j > p THEN AnswerOf(j, Told(j)) ELSE << >>
                  /\ AtOnceList[j] =
                         IF j <= at THEN AnswerOf(j, AtOnce(calls[j])) ELSE << >>
<1> DEFINE n == Len(calls)
           f(j) == IF j > p THEN AnswerOf(j, Told(j)) ELSE << >>
           g(j) == IF j <= at THEN AnswerOf(j, AtOnce(calls[j])) ELSE << >>
<1>1. ASSUME NEW j \in 1 .. n PROVE f(j) \in Seq(Pairs) /\ g(j) \in Seq(Pairs)
  <2>1. j \in Nat /\ << >> \in Seq(Pairs)
    OBVIOUS
  <2>2. AnswerOf(j, Told(j)) \in Seq(Pairs)
    BY <2>1, SayingsOf, AnswerType
  <2>3. AnswerOf(j, AtOnce(calls[j])) \in Seq(Pairs)
    BY <2>1, SayingsOf, AnswerType
  <2>4. QED
    BY <2>1, <2>2, <2>3
<1>2. AfterList(p) = [j \in 1 .. n |-> f(j)] /\ AtOnceList = [j \in 1 .. n |-> g(j)]
  BY DEF AfterList, AtOnceList
<1> HIDE DEF f, g
<1>3. [j \in 1 .. n |-> f(j)] \in [1 .. n -> Seq(Pairs)]
      /\ [j \in 1 .. n |-> g(j)] \in [1 .. n -> Seq(Pairs)]
  BY <1>1
<1>4. ASSUME NEW T, NEW h \in [1 .. n -> T]
      PROVE  h \in Seq(T) /\ Len(h) = n
  BY <1>4
<1>5. /\ AfterList(p) \in Seq(Seq(Pairs)) /\ Len(AfterList(p)) = n
      /\ AtOnceList \in Seq(Seq(Pairs)) /\ Len(AtOnceList) = n
  BY <1>2, <1>3, <1>4
<1>6. \A j \in 1 .. n : AfterList(p)[j] = f(j) /\ AtOnceList[j] = g(j)
  BY <1>2
<1>7. QED
  BY <1>5, <1>6 DEF f, g

(* They are such lists in the next state, too.                             *)
LEMMA ListTypesNext == ListTyped'
<1>1. ListTyped
  BY ListTypes DEF ListTyped
<1>2. QED
  BY <1>1, PTL

(* What the calls have said when a task ends.                              *)
LEMMA LaterSilent ==
    ASSUME IInv, Queue, tasks # << >>, NEW k1, k1 = First.of
    PROVE  /\ k1 \in 1 .. Len(calls) /\ Len(calls) \in Nat
           /\ \A k \in 1 .. Len(calls) : k > k1 => outcome[k] = << >>
           /\ \A k \in 1 .. Len(calls) : k >= k1 => Told(k) = << >>
<1>1. Queued(1) /\ k1 \in 1 .. Len(calls) /\ 1 \in 1 .. Len(tasks) /\ tasks[1].of = k1
  BY HeadQueued DEF First
<1>2. Len(calls) \in Nat
  BY ProgramsAssumption DEF IInv, ServerType
<1>3. \A k \in 1 .. Len(calls) : k > k1 => outcome[k] = << >>
  BY <1>1 DEF Queued
<1>4. Pending(k1)
  BY <1>1 DEF Pending
<1>5. \A k \in 1 .. Len(calls) : k >= k1 => k > k1 \/ k = k1
  BY <1>1, <1>2
<1>6. QED
  BY <1>1, <1>2, <1>3, <1>4, <1>5 DEF Told

(* A call none of whose tasks ended has said nothing new.                  *)
LEMMA ToldKept ==
    ASSUME NEW k, calls' = calls, outcome'[k] = outcome[k], Pending(k)' <=> Pending(k)
    PROVE  Told(k)' = Told(k)
<1>1. Due(k)' = Due(k)
  BY DEF Due, Unsent, Deferred
<1>2. QED
  BY <1>1 DEF Told

(* A form is read file by file, and says nothing before the last of them.  *)
LEMMA FormTold ==
    ASSUME IInv, Queue, NEW r \in BOOLEAN, Ends(r), NEW k1, k1 = First.of,
           NEW call, call = calls[k1], call.op = "multipart", outcome'[k1] # << >>
    PROVE  Told(k1)' = InTheEnd(call, First.last, r)
<1>1. tasks # << >> /\ calls' = calls
  BY DEF Ends
<1>2. /\ Queued(1) /\ k1 \in 1 .. at /\ 1 \in 1 .. Len(tasks) /\ tasks[1].of = k1
      /\ k1 \in 1 .. Len(calls)
  BY <1>1, HeadQueued DEF First
<1>3. Pending(k1)' <=> \E i \in 2 .. Len(tasks) : tasks[i].of = k1
  BY PendingEnds
<1>4. First.last <=> Closes(call.files) /\ ~Pending(k1)'
  <2>1. 1 + 1 = 2
    OBVIOUS
  <2>2. First.last <=> /\ Closes(call.files)
                       /\ \A i \in 2 .. Len(tasks) : tasks[i].of # k1
    BY <1>2, <2>1 DEF Queued, First
  <2>3. QED
    BY <1>3, <2>2
<1>5. call.files # << >>
  <2>1. Pending(k1)
    BY <1>2 DEF Pending
  <2>2. TasksOf(call) # 0
    BY <1>2, <2>1 DEF Queue
  <2>3. ASSUME call.files = << >> PROVE FALSE
    <3>1. {j \in 1 .. Len(call.files) : call.files[j]} = {}
      BY <2>3
    <3>2. TasksOf(call) = Cardinality({})
      BY <3>1 DEF TasksOf
    <3>3. QED
      BY <2>2, <3>2, FS_EmptySet
  <2>4. QED
    BY <2>3
<1>6. Last(call.files) = Closes(call.files)
  BY DEF Last, Closes
<1>7. InTheEnd(call, First.last, r) = IF First.last THEN <<"form">> ELSE << >>
  BY DEF InTheEnd
<1>8. Due(k1)' = IF Closes(call.files) THEN <<"form">> ELSE << >>
  <2>1. calls'[k1] = call
    BY <1>1
  <2>2. QED
    BY <1>5, <1>6, <2>1 DEF Due, Unsent, Deferred
<1>9. Told(k1)' = IF Pending(k1)' THEN << >> ELSE Due(k1)'
  BY DEF Told
<1>10. QED
  BY <1>4, <1>7, <1>8, <1>9

(* Every other call has one task.                                          *)
LEMMA OneTold ==
    ASSUME IInv, Queue, NEW r \in BOOLEAN, Ends(r), NEW k1, k1 = First.of,
           NEW call, call = calls[k1], call.op # "multipart",
           outcome'[k1] = Append(outcome[k1], r)
    PROVE  /\ outcome'[k1] = <<r>>
           /\ ~(call.op = "http" /\ r) => Told(k1)' = InTheEnd(call, First.last, r)
<1>1. tasks # << >> /\ calls' = calls
  BY DEF Ends
<1>2. Queued(1) /\ tasks[1].of = k1 /\ Len(tasks) \in Nat /\ call.op \in Ops
  BY <1>1, HeadQueued DEF First
<1>3. ~Pending(k1)'
  <2>1. 1 + 1 = 2
    OBVIOUS
  <2>2. \A i \in 2 .. Len(tasks) : tasks[i].of # k1
    BY <1>2, <2>1 DEF Queued
  <2>3. QED
    BY <2>2, PendingEnds
<1>4. outcome'[k1] = <<r>>
  <2>1. outcome[k1] = << >>
    BY <1>2 DEF Queued
  <2>2. Append(<< >>, r) = <<r>>
    OBVIOUS
  <2>3. QED
    BY <2>1, <2>2
<1>5. Range(outcome'[k1]) = {r}
  <2>1. Range(<<r>>) = {r}
    BY DEF Range
  <2>2. QED
    BY <1>4, <2>1
<1>6. outcome'[k1] # << >>
  BY <1>4
<1>7. Told(k1)' = Due(k1)'
  BY <1>3, <1>6 DEF Told
<1> DEFINE E(ok) == Range(outcome'[k1]) = {ok}
<1>8. (E(TRUE) <=> r) /\ (E(FALSE) <=> ~r)
  BY <1>5
<1>9. Due(k1)' =
          CASE call.op = "file" /\ E(TRUE) -> <<"data">>
            [] call.op \in {"save", "savemsg"} /\ E(TRUE) -> <<"saved">>
            [] call.op \in {"file", "save", "savemsg", "http"} /\ E(FALSE) -> <<"error">>
            [] call.op = "multipart" /\ call.files # << >> /\ Last(call.files) -> <<"form">>
            [] call.op \in {"mysql", "redis"} -> <<"result">>
            [] call.op = "mysqlfunc" /\ E(FALSE) -> <<"result">>
            [] OTHER -> << >>
  <2>1. calls'[k1] = call
    BY <1>1
  <2>2. QED
    BY <2>1 DEF Due, Unsent, Deferred
<1> HIDE DEF E
<1>10. ASSUME ~(call.op = "http" /\ r)
       PROVE  Due(k1)' = InTheEnd(call, First.last, r)
  <2>1. CASE call.op = "file"
    BY <1>8, <1>9, <2>1 DEF InTheEnd
  <2>2. CASE call.op \in {"save", "savemsg"}
    BY <1>8, <1>9, <2>2 DEF InTheEnd
  <2>3. CASE call.op \in {"mysql", "redis"}
    BY <1>8, <1>9, <2>3 DEF InTheEnd
  <2>4. CASE call.op = "mysqlfunc"
    BY <1>8, <1>9, <2>4 DEF InTheEnd
  <2>5. CASE call.op = "http"
    BY <1>8, <1>9, <1>10, <2>5 DEF InTheEnd
  <2>6. CASE call.op \notin {"file", "save", "savemsg", "mysql", "redis", "mysqlfunc", "http"}
    BY <1>8, <1>9, <2>6 DEF InTheEnd
  <2>7. QED
    BY <2>1, <2>2, <2>3, <2>4, <2>5, <2>6
<1>11. QED
  BY <1>4, <1>7, <1>10

(* Only the call of the task that ended has.                               *)
LEMMA ToldEnds ==
    ASSUME IInv, Queue, NEW r \in BOOLEAN, Ends(r), NEW k1, k1 = First.of,
           NEW call, call = calls[k1]
    PROVE  /\ \A k \in 1 .. Len(calls) :
                  k # k1 => outcome'[k] = outcome[k] /\ Told(k)' = Told(k)
           /\ call.op # "multipart" => outcome'[k1] = <<r>>
           /\ ~(call.op = "http" /\ r) => Told(k1)' = InTheEnd(call, First.last, r)
<1>1. tasks # << >> /\ calls' = calls /\ outcome' = [outcome EXCEPT ![k1] = Append(@, r)]
  BY DEF Ends
<1>2. k1 \in 1 .. Len(calls)
  BY <1>1, HeadQueued
<1>3. outcome \in [1 .. Len(calls) -> Seq(BOOLEAN)]
  BY DEF IInv, ServerType
<1>4. \A k \in 1 .. Len(calls) : k # k1 => outcome'[k] = outcome[k]
  BY <1>1, <1>3
<1>5. outcome'[k1] = Append(outcome[k1], r) /\ outcome[k1] \in Seq(BOOLEAN)
  BY <1>1, <1>2, <1>3
<1>6. outcome'[k1] # << >>
  BY <1>5, AppendProperties
<1>7. \A k \in 1 .. Len(calls) : k # k1 => Told(k)' = Told(k)
  <2> SUFFICES ASSUME NEW k \in 1 .. Len(calls), k # k1 PROVE Told(k)' = Told(k)
    OBVIOUS
  <2>1. Pending(k)' <=> Pending(k)
    BY PendingEnds
  <2>2. QED
    BY <1>1, <1>4, <2>1, ToldKept
<1>8. CASE call.op = "multipart"
  BY <1>4, <1>6, <1>7, <1>8, FormTold
<1>9. CASE call.op # "multipart"
  BY <1>4, <1>5, <1>7, <1>9, OneTold
<1>10. QED
  BY <1>8, <1>9

(* A flattened list of sequences is a sequence.                            *)
LEMMA FlatSeq ==
    ASSUME NEW T, NEW s \in Seq(Seq(T))
    PROVE  FlattenSeq(s) \in Seq(T)
<1>1. CASE Len(s) = 0
  <2>1. FlattenSeq(s) = s /\ s = << >>
    BY <1>1 DEF FlattenSeq
  <2>2. QED
    BY <2>1
<1>2. CASE Len(s) # 0
  <2>1. PICK f : IsFlat(s, Len(s), f) /\ FlattenSeq(s) = f[Len(s)]
    BY <1>2, FlatIs
  <2>2. Len(s) \in 1 .. Len(s)
    BY <1>2
  <2>3. QED
    BY <2>1, <2>2, FlatType
<1>3. QED
  BY <1>1, <1>2

(* What is told is a sequence of pieces.                                   *)
LEMMA ToldType ==
    ASSUME IInv, NEW p
    PROVE  /\ Len(calls) \in Nat /\ ToldAtOnce \in Seq(Pairs) /\ ToldAfter(p) \in Seq(Pairs)
           /\ ToldAfter(p) = FlattenSeq(AfterList(p)) /\ ToldAtOnce = FlattenSeq(AtOnceList)
<1>1. Len(calls) \in Nat
  BY ProgramsAssumption DEF IInv, ServerType
<1>2. AfterList(p) \in Seq(Seq(Pairs)) /\ AtOnceList \in Seq(Seq(Pairs))
  BY <1>1, ListTypes
<1>3. ToldAfter(p) = FlattenSeq(AfterList(p)) /\ ToldAtOnce = FlattenSeq(AtOnceList)
  BY DEF ToldAfter, ToldAtOnce, AfterList, AtOnceList
<1>4. QED
  BY <1>1, <1>2, <1>3, FlatSeq

(* There is at most one proxy call.                                        *)
LEMMA ProxiedIs ==
    ASSUME IInv, NEW k \in 1 .. Len(calls), calls[k].op = "http"
    PROVE  Proxied = k
<1>1. calls \in Programs
  BY DEF IInv, ServerType
<1>2. \A j \in 1 .. Len(calls) : calls[j].op = "http" => j = k
  BY <1>1, ProgramsAssumption
<1>3. QED
  BY <1>2 DEF Proxied

(* So is the answer.                                                       *)
LEMMA AnswerTyped ==
    ASSUME IInv, Answered, pc \in {"handler", "series"}
    PROVE  Answer \in Seq(Pairs)
<1>1. CASE Fetches
  <2>1. PICK k \in 1 .. Len(calls) : calls[k].op = "http"
    BY <1>1 DEF Fetches, Fetched
  <2>2. PICK p \in Nat : p = Proxied
    BY <2>1, ProxiedIs
  <2>3. ToldAfter(p) \in Seq(Pairs)
    BY ToldType
  <2>4. <<<<p, "remote">>>> \in Seq(Pairs)
    BY DEF Pairs, Sayings
  <2>5. Answer = <<<<p, "remote">>>> \o ToldAfter(p)
    BY <1>1, <2>2 DEF Answered
  <2>6. QED
    BY <2>3, <2>4, <2>5, ConcatProperties
<1>2. CASE ~Fetches
  <2>1. Answer = ToldAtOnce \o ToldAfter(0)
    BY <1>2 DEF Answered
  <2>2. QED
    BY <2>1, ToldType, ConcatProperties
<1>3. QED
  BY <1>1, <1>2

(* A list of nothing.                                                      *)
LEMMA AllEmpty ==
    ASSUME NEW t \in Seq(Seq(Pairs)),
           NEW n \in Nat, Len(t) = n,
           \A j \in 1 .. n : t[j] = << >>
    PROVE  t \in Seq({<< >>})
<1>1. \A j \in 1 .. Len(t) : t[j] \in {<< >>}
  OBVIOUS
<1>2. QED
  BY <1>1

(* While no task has ended, no callback has said anything.                 *)
LEMMA NothingLater ==
    ASSUME Len(calls) \in Nat, NEW p,
           \A k \in 1 .. Len(calls) : k > p => Told(k) = << >>
    PROVE  ToldAfter(p) = << >>
<1> DEFINE s == AfterList(p)
<1>1. s \in Seq(Seq(Pairs)) /\ Len(s) = Len(calls)
  BY ListTypes
<1>2. \A j \in 1 .. Len(calls) : s[j] = << >>
  <2> SUFFICES ASSUME NEW j \in 1 .. Len(calls) PROVE s[j] = << >>
    OBVIOUS
  <2>1. s[j] = IF j > p THEN AnswerOf(j, Told(j)) ELSE << >>
    BY ListTypes
  <2>2. AnswerOf(j, << >>) = << >>
    BY AnswerType DEF AtMostOne
  <2>3. QED
    BY <2>1, <2>2
<1>3. ToldAfter(p) = FlattenSeq(s)
  BY DEF ToldAfter, AfterList
<1> HIDE DEF s
<1>4. s \in Seq({<< >>})
  BY <1>1, <1>2, AllEmpty
<1>5. QED
  BY <1>3, <1>4, FlatNone

SilentLater ==
    Len(calls) \in Nat => \A p :
        (\A k \in 1 .. Len(calls) : k > p => Told(k) = << >>) => ToldAfter(p) = << >>

(* NothingLater holds in the next state, too.                              *)
LEMMA NothingLaterNext == SilentLater'
<1>1. SilentLater
  BY NothingLater DEF SilentLater
<1>2. QED
  BY <1>1, PTL

(* A call adds what it says at once.                                       *)
LEMMA CallAnswered ==
    ASSUME IInv, IInv', Queue, Answered, Call
    PROVE  Answered'
<1> DEFINE k == at + 1
           S == AtOnce(calls[k])
           x == AnswerOf(k, S)
<1>1. InCall /\ Says(k, S)
  BY CallGives
<1>2. /\ k \in 1 .. Len(calls) /\ at \in Nat /\ Len(calls) \in Nat
      /\ pc = "handler" /\ pc' = "handler" /\ calls' = calls /\ outcome' = outcome
      /\ at' = k
  BY <1>1, NextCall DEF InCall
<1>3. \A j \in 1 .. Len(calls) : outcome[j] = << >>
  BY <1>2 DEF Queue
<1>4. ~Fetches /\ ~Fetches'
  <2>1. << >> # <<TRUE>>
    OBVIOUS
  <2>2. \A j \in 1 .. Len(calls) : outcome[j] # <<TRUE>>
    BY <1>3, <2>1
  <2>3. QED
    BY <1>2, <2>2 DEF Fetches, Fetched
<1>5. ToldAfter(0) = << >>
  <2>1. \A j \in 1 .. Len(calls) : Told(j) = << >>
    BY <1>3 DEF Told
  <2>2. QED
    BY <1>2, <2>1, NothingLater
<1>6. ToldAfter(0)' = << >>
  <2>1. \A j \in 1 .. Len(calls') : Told(j)' = << >>
    BY <1>2, <1>3 DEF Told
  <2>2. Len(calls') \in Nat
    BY <1>2
  <2>3. QED
    BY <2>1, <2>2, NothingLaterNext DEF SilentLater
<1>7. S \in AtMostOne /\ k \in Nat
  BY <1>2, SayingsOf
<1>8. x \in Seq(Pairs)
  BY <1>7, AnswerType
<1>9. Answer' = Answer \o x
  <2>1. Answer \in Seq(Pairs) /\ ServerType
    BY <1>2, AnswerTyped DEF IInv
  <2> HIDE DEF k, S
  <2>2. QED
    BY <1>1, <1>7, <2>1, AnswerGrows
<1>10. ToldAtOnce' = ToldAtOnce \o x
  <2> DEFINE s == AtOnceList
             t == AtOnceList'
             n == Len(calls)
  <2>1. s \in Seq(Seq(Pairs)) /\ Len(s) = n
    BY <1>2, ListTypes
  <2>2. t \in Seq(Seq(Pairs)) /\ Len(t) = n
    BY <1>2, ListTypesNext DEF ListTyped
  <2>3. \A j \in 1 .. n : s[j] = IF j <= at THEN AnswerOf(j, AtOnce(calls[j])) ELSE << >>
    BY <1>2 DEF AtOnceList
  <2>4. \A j \in 1 .. n : t[j] = IF j <= k THEN AnswerOf(j, AtOnce(calls[j])) ELSE << >>
    BY <1>2 DEF AtOnceList
  <2>5. t[k] = x
    BY <1>2, <2>4
  <2> HIDE DEF s, t, n, x, S
  <2>6. \A j \in 1 .. n : j # k => t[j] = s[j]
    <3> SUFFICES ASSUME NEW j \in 1 .. n, j # k PROVE t[j] = s[j]
      OBVIOUS
    <3>1. j <= at <=> j <= k
      BY <1>2
    <3>2. QED
      BY <2>3, <2>4, <3>1
  <2>7. \A j \in k .. n : s[j] = << >>
    <3> SUFFICES ASSUME NEW j \in k .. n PROVE s[j] = << >>
      OBVIOUS
    <3>1. ~(j <= at) /\ j \in 1 .. n
      BY <1>2
    <3>2. QED
      BY <2>3, <3>1
  <2>8. k \in 1 .. Len(s)
    BY <1>2, <2>1 DEF n
  <2>9. Fills(s, t, k, x)
    BY <2>1, <2>2, <2>5, <2>6, <2>7 DEF Fills
  <2> HIDE DEF k
  <2>10. FlattenSeq(t) = FlattenSeq(s) \o x
    BY <1>8, <2>1, <2>2, <2>8, <2>9, FlatAppends
  <2>11. ToldAtOnce = FlattenSeq(s) /\ ToldAtOnce' = FlattenSeq(t)
    BY DEF ToldAtOnce, AtOnceList, s, t
  <2>12. QED
    BY <2>10, <2>11
<1> HIDE DEF k, S, x
<1>11. Answer = ToldAtOnce \o << >> /\ ToldAtOnce \in Seq(Pairs)
  BY <1>2, <1>4, <1>5, ToldType DEF Answered
<1>12. Answer' = ToldAtOnce' \o << >>
  <2>1. Answer' = ToldAtOnce \o x /\ ToldAtOnce \o x \in Seq(Pairs)
    BY <1>8, <1>9, <1>11, ConcatEmptySeq, ConcatProperties
  <2>2. (ToldAtOnce \o x) \o << >> = ToldAtOnce \o x
    BY <2>1, ConcatEmptySeq
  <2>3. QED
    BY <1>10, <2>1, <2>2
<1>13. QED
  BY <1>2, <1>4, <1>6, <1>12 DEF Answered

(* A callback adds what its call has to say.                               *)
LEMMA AfterGrows ==
    ASSUME IInv, Queue, NEW r \in BOOLEAN, Ends(r), NEW k1, k1 = First.of,
           NEW call, call = calls[k1], ~(call.op = "http" /\ r),
           NEW p \in Nat, p < k1, NEW x, x = AnswerOf(k1, InTheEnd(call, First.last, r))
    PROVE  ToldAfter(p)' = ToldAfter(p) \o x
<1> DEFINE s == AfterList(p)
           t == AfterList(p)'
           n == Len(calls)
<1>1. tasks # << >> /\ calls' = calls
  BY DEF Ends
<1>2. /\ k1 \in 1 .. n /\ n \in Nat
      /\ \A k \in 1 .. n : k >= k1 => Told(k) = << >>
  BY <1>1, LaterSilent
<1>3. /\ \A k \in 1 .. n : k # k1 => Told(k)' = Told(k)
      /\ Told(k1)' = InTheEnd(call, First.last, r)
  BY ToldEnds
<1>4. /\ s \in Seq(Seq(Pairs)) /\ Len(s) = n
      /\ \A j \in 1 .. n : s[j] = IF j > p THEN AnswerOf(j, Told(j)) ELSE << >>
  BY <1>2, ListTypes
<1>5. t \in Seq(Seq(Pairs)) /\ Len(t) = n
  BY <1>1, <1>2, ListTypesNext DEF ListTyped
<1>6. \A j \in 1 .. n : t[j] = IF j > p THEN AnswerOf(j, Told(j)') ELSE << >>
  BY <1>1 DEF AfterList, AnswerOf
<1>7. x \in Seq(Pairs)
  BY <1>2, SayingsOf, AnswerType
<1>8. ToldAfter(p) = FlattenSeq(s) /\ ToldAfter(p)' = FlattenSeq(t)
  BY DEF ToldAfter, AfterList
<1> HIDE DEF s, t, n
<1>9. t[k1] = x
  <2>1. k1 > p
    BY <1>2
  <2>2. QED
    BY <1>2, <1>3, <1>6, <2>1
<1>10. \A j \in 1 .. n : j # k1 => t[j] = s[j]
  BY <1>3, <1>4, <1>6
<1>11. \A j \in k1 .. n : s[j] = << >>
  <2> SUFFICES ASSUME NEW j \in k1 .. n PROVE s[j] = << >>
    OBVIOUS
  <2>1. j \in 1 .. n /\ j >= k1 /\ j \in Nat
    BY <1>2
  <2>2. AnswerOf(j, << >>) = << >>
    BY <2>1, AnswerType DEF AtMostOne
  <2>3. QED
    BY <1>2, <1>4, <2>1, <2>2
<1>12. Fills(s, t, k1, x) /\ k1 \in 1 .. Len(s)
  <2>1. Len(s) = n /\ Len(t) = n /\ k1 \in 1 .. n
    BY <1>2, <1>4, <1>5
  <2>2. /\ \A j \in 1 .. Len(s) : j # k1 => t[j] = s[j]
        /\ \A j \in k1 .. Len(s) : s[j] = << >>
    BY <1>10, <1>11, <2>1
  <2>3. QED
    BY <1>9, <2>1, <2>2 DEF Fills
<1>13. FlattenSeq(t) = FlattenSeq(s) \o x
  <2>1. s \in Seq(Seq(Pairs)) /\ t \in Seq(Seq(Pairs))
    BY <1>4, <1>5
  <2>2. QED
    BY <1>7, <1>12, <2>1, FlatAppends
<1>14. QED
  BY <1>8, <1>13

(* Only a fetch that succeeds changes Fetches, and what is pending then is *)
(* of later calls.                                                         *)
LEMMA FetchesEnds ==
    ASSUME IInv, Queue, NEW r \in BOOLEAN, Ends(r), NEW k1, k1 = First.of,
           NEW call, call = calls[k1]
    PROVE  /\ Fetches => Proxied < k1 /\ Proxied \in 1 .. Len(calls) /\ Fetches'
           /\ ~(call.op = "http" /\ r) => (Fetches' <=> Fetches)
           /\ call.op = "http" /\ r => Fetches' /\ Proxied = k1
<1>1. tasks # << >> /\ calls' = calls
  BY DEF Ends
<1>2. /\ k1 \in 1 .. Len(calls) /\ Len(calls) \in Nat
      /\ \A k \in 1 .. Len(calls) : k > k1 => outcome[k] = << >>
  BY <1>1, LaterSilent
<1>3. call.op # "multipart" => outcome[k1] = << >>
  <2>1. Queued(1) /\ tasks[1].of = k1
    BY <1>1, HeadQueued DEF First
  <2>2. QED
    BY <2>1 DEF Queued
<1>4. /\ \A k \in 1 .. Len(calls) : k # k1 => outcome'[k] = outcome[k]
      /\ call.op # "multipart" => outcome'[k1] = <<r>>
  BY ToldEnds
<1>5. << >> # <<TRUE>> /\ <<FALSE>> # <<TRUE>>
  OBVIOUS
<1>6. \A k \in 1 .. Len(calls) : k # k1 => (Fetched(k)' <=> Fetched(k))
  BY <1>1, <1>4 DEF Fetched
<1>7. ~Fetched(k1)
  <2>1. CASE call.op = "http"
    <3>1. outcome[k1] = << >>
      BY <1>3, <2>1
    <3>2. QED
      BY <1>5, <3>1 DEF Fetched
  <2>2. CASE call.op # "http"
    BY <2>2 DEF Fetched
  <2>3. QED
    BY <2>1, <2>2
<1>8. Fetched(k1)' <=> call.op = "http" /\ r
  <2>1. CASE call.op = "http"
    <3>1. outcome'[k1] = <<r>>
      BY <1>4, <2>1
    <3>2. <<r>> = <<TRUE>> <=> r
      BY <1>5
    <3>3. Fetched(k1)' <=> outcome'[k1] = <<TRUE>>
      BY <1>1, <2>1 DEF Fetched
    <3>4. QED
      BY <2>1, <3>1, <3>2, <3>3
  <2>2. CASE call.op # "http"
    BY <1>1, <2>2 DEF Fetched
  <2>3. QED
    BY <2>1, <2>2
<1>9. ASSUME Fetches PROVE Proxied < k1 /\ Proxied \in 1 .. Len(calls) /\ Fetches'
  <2>1. PICK k \in 1 .. Len(calls) : Fetched(k)
    BY <1>9 DEF Fetches
  <2>2. calls[k].op = "http" /\ outcome[k] # << >> /\ k # k1
    BY <1>5, <1>7, <2>1 DEF Fetched
  <2>3. Proxied = k
    BY <2>2, ProxiedIs
  <2>4. k < k1
    BY <1>2, <2>2
  <2>5. Fetched(k)'
    BY <1>6, <2>1, <2>2
  <2>6. QED
    BY <1>1, <2>3, <2>4, <2>5 DEF Fetches
<1>10. ASSUME call.op = "http", r PROVE Fetches' /\ Proxied = k1
  <2>1. Fetched(k1)' /\ Proxied = k1
    BY <1>2, <1>8, <1>10, ProxiedIs
  <2>2. QED
    BY <1>1, <1>2, <2>1 DEF Fetches
<1>11. ASSUME ~(call.op = "http" /\ r) PROVE Fetches' <=> Fetches
  <2>1. \A k \in 1 .. Len(calls) : Fetched(k)' <=> Fetched(k)
    BY <1>6, <1>7, <1>8, <1>11
  <2>2. QED
    BY <1>1, <2>1 DEF Fetches
<1>12. QED
  BY <1>9, <1>10, <1>11

(* A task that ends adds what its callback says.                           *)
LEMMA EndAnswered ==
    ASSUME IInv, Queue, Answered, NEW ok \in BOOLEAN, RunTask(ok)
    PROVE  Answered'
<1>1. PICK k1 : k1 = First.of
  OBVIOUS
<1>2. PICK call : call = calls[k1]
  OBVIOUS
<1>3. PICK r \in BOOLEAN : Ends(r) /\ (Replaces(call, r) \/ Adds(call, r))
  BY <1>1, <1>2, RunTaskGives
<1>4. tasks # << >> /\ calls' = calls /\ pc = "series" /\ pc' = "series"
  BY <1>3 DEF Ends
<1>5. /\ k1 \in 1 .. Len(calls) /\ Len(calls) \in Nat /\ ServerType
      /\ \A k \in 1 .. Len(calls) : k > k1 => outcome[k] = << >>
  BY <1>1, <1>4, LaterSilent DEF IInv
<1>6. Proxied' = Proxied
  BY <1>4 DEF Proxied
<1>7. CASE Replaces(call, r)
  <2>1. call.op = "http" /\ r /\ body' = <<Piece(k1, "remote", Null, "plain", 0)>>
    BY <1>1, <1>7 DEF Replaces
  <2>2. Fetches' /\ Proxied = k1
    BY <1>1, <1>2, <1>3, <2>1, FetchesEnds
  <2>3. Answer' = <<<<k1, "remote">>>>
    <3> DEFINE x == Piece(k1, "remote", Null, "plain", 0)
    <3>1. x.of = k1 /\ x.says = "remote"
      BY DEF Piece
    <3> HIDE DEF x
    <3>2. body' = <<x>>
      BY <2>1 DEF x
    <3>3. Len(body') = 1 /\ \A j \in 1 .. 1 : body'[j] = x
      BY <3>2
    <3>4. Answer' = [j \in 1 .. 1 |-> <<k1, "remote">>]
      BY <3>1, <3>3 DEF Answer
    <3>5. QED
      BY <3>4
  <2>4. ToldAfter(k1)' = << >>
    <3>1. \A k \in 1 .. Len(calls) : k > k1 => outcome'[k] = << >>
      <4> SUFFICES ASSUME NEW k \in 1 .. Len(calls), k > k1 PROVE outcome'[k] = << >>
        OBVIOUS
      <4>1. k # k1
        BY <1>5
      <4>2. QED
        BY <1>1, <1>2, <1>3, <1>5, <4>1, ToldEnds
    <3>2. \A k \in 1 .. Len(calls') : k > k1 => Told(k)' = << >>
      BY <1>4, <3>1 DEF Told
    <3>3. Len(calls') \in Nat
      BY <1>4, <1>5
    <3>4. QED
      BY <3>2, <3>3, NothingLaterNext DEF SilentLater
  <2>5. <<<<k1, "remote">>>> \o << >> = <<<<k1, "remote">>>>
    OBVIOUS
  <2>6. ToldAfter(Proxied)' = << >>
    BY <1>6, <2>2, <2>4 DEF ToldAfter, Told, Due, Unsent, Deferred
  <2>7. QED
    BY <1>6, <2>2, <2>3, <2>5, <2>6 DEF Answered
<1>8. CASE Adds(call, r)
  <2> DEFINE S == InTheEnd(call, First.last, r)
             x == AnswerOf(k1, S)
  <2>1. ~(call.op = "http" /\ r) /\ Says(k1, S)
    BY <1>1, <1>8 DEF Adds
  <2>2. S \in AtMostOne /\ k1 \in Nat
    BY <1>5, SayingsOf
  <2>3. x \in Seq(Pairs)
    BY <2>2, AnswerType
  <2>4. Answer \in Seq(Pairs)
    BY <1>4, AnswerTyped
  <2>5. Answer' = Answer \o x
    <3> HIDE DEF S
    <3>1. QED
      BY <1>5, <2>1, <2>2, <2>4, AnswerGrows
  <2>6. \A p \in Nat : p < k1 => ToldAfter(p)' = ToldAfter(p) \o x
    <3> SUFFICES ASSUME NEW p \in Nat, p < k1
                 PROVE  ToldAfter(p)' = ToldAfter(p) \o x
      OBVIOUS
    <3>1. Ends(r) /\ x = AnswerOf(k1, InTheEnd(call, First.last, r))
      BY <1>3
    <3> HIDE DEF x, S
    <3>2. QED
      BY <1>1, <1>2, <2>1, <3>1, AfterGrows
  <2> HIDE DEF S, x
  <2>7. Fetches' <=> Fetches
    BY <1>1, <1>2, <1>3, <2>1, FetchesEnds
  <2>8. CASE Fetches
    <3>1. PICK p \in Nat : p = Proxied /\ p < k1
      BY <1>1, <1>2, <1>3, <2>8, FetchesEnds
    <3> DEFINE a == <<<<p, "remote">>>>
               b == ToldAfter(p)
    <3>2. a \in Seq(Pairs) /\ b \in Seq(Pairs)
      BY ToldType DEF Pairs, Sayings
    <3>3. Answer = a \o b
      BY <1>4, <2>8, <3>1 DEF Answered
    <3>4. ToldAfter(p)' = b \o x
      BY <2>6, <3>1
    <3>5. ToldAfter(Proxied)' = ToldAfter(p)'
      BY <1>6, <3>1 DEF ToldAfter, Told, Due, Unsent, Deferred
    <3> HIDE DEF a, b
    <3>6. Answer' = a \o (b \o x)
      BY <2>3, <2>5, <3>2, <3>3, ConcatAssociative
    <3>7. Answer' = <<<<Proxied', "remote">>>> \o ToldAfter(Proxied)'
      BY <1>6, <3>1, <3>4, <3>5, <3>6 DEF a
    <3>8. QED
      BY <2>7, <2>8, <3>7 DEF Answered
  <2>9. CASE ~Fetches
    <3> DEFINE a == ToldAtOnce
               b == ToldAfter(0)
    <3>1. a \in Seq(Pairs) /\ b \in Seq(Pairs)
      BY ToldType
    <3>2. Answer = a \o b
      BY <1>4, <2>9 DEF Answered
    <3>3. ToldAfter(0)' = b \o x
      BY <1>5, <2>6
    <3>4. ToldAtOnce' = a
      <4>1. at' = at
        BY <1>3 DEF Ends
      <4>2. QED
        BY <1>4, <4>1 DEF ToldAtOnce, AtOnce, AnswerOf
    <3> HIDE DEF a, b
    <3>5. Answer' = a \o (b \o x)
      BY <2>3, <2>5, <3>1, <3>2, ConcatAssociative
    <3>6. QED
      BY <2>7, <2>9, <3>3, <3>4, <3>5 DEF Answered
  <2>10. QED
    BY <2>8, <2>9
<1>9. QED
  BY <1>3, <1>7, <1>8

(* A step that touches neither calls nor tasks keeps the answer.           *)
LEMMA AnswerRests ==
    ASSUME Answered, UNCHANGED <<calls, at, body, tasks, outcome>>,
           pc' \in {"handler", "series"} => pc \in {"handler", "series"}
    PROVE  Answered'
<1>1. Answer' = Answer /\ Proxied' = Proxied /\ (Fetches' <=> Fetches)
  BY DEF Answer, Proxied, Fetches, Fetched
<1>2. ASSUME NEW p PROVE ToldAfter(p)' = ToldAfter(p)
  <2>1. ASSUME NEW j PROVE Told(j)' = Told(j)
    BY DEF Told, Pending, Due, Unsent, Deferred
  <2>2. QED
    BY <2>1 DEF ToldAfter, AnswerOf
<1>3. ToldAtOnce' = ToldAtOnce
  BY DEF ToldAtOnce, AnswerOf, AtOnce
<1>4. ToldAfter(Proxied)' = ToldAfter(Proxied)
  <2>1. PICK p : p = Proxied
    OBVIOUS
  <2>2. ToldAfter(Proxied)' = ToldAfter(p)'
    BY <1>1, <2>1 DEF ToldAfter, Told, Due, Unsent, Deferred
  <2>3. QED
    BY <1>2, <2>1, <2>2
<1>5. ToldAfter(0)' = ToldAfter(0)
  BY <1>2
<1>6. QED
  BY <1>1, <1>3, <1>4, <1>5 DEF Answered

-----------------------------------------------------------------------------
(* The multipart form                                                      *)

(* The content of the one form.                                            *)
Reads(s) == Cardinality({i \in 1 .. Len(s) : s[i]})
Content(n, end) == <<"params">> \o [i \in 1 .. n |-> "file"] \o end

(* While files are to be read it has those read so far, and it is part of  *)
(* the body only when it is complete.                                      *)
FormPart(x) ==
    /\ pc = "series" /\ x.of \in 1 .. Len(calls) /\ calls[x.of].op = "multipart"
    /\ x.obj = context /\ context # Null
    /\ \A i \in 1 .. Len(tasks) : tasks[i].kind # "mpread"
    /\ heap[context].text = Content(Reads(outcome[x.of]), <<"end">>)

FormWritten ==
    pc \in {"handler", "series"} /\ OneForm =>
        /\ \A j \in 1 .. Len(tasks) : tasks[j].kind = "mpread" =>
               heap[context].text = Content(Reads(outcome[tasks[j].of]), << >>)
        /\ \A j \in 1 .. Len(body) : body[j].says = "form" => FormPart(body[j])

Files(n) == [i \in 1 .. n |-> "file"]

(* One more file of a form ...                                             *)
LEMMA FilesGrow ==
    ASSUME NEW n \in Nat
    PROVE  /\ Files(n) \in Seq(Words) /\ Files(n + 1) \in Seq(Words)
           /\ Files(n) \o <<"file">> = Files(n + 1)
<1>1. "file" \in Words
  BY DEF Words
<1>2. ASSUME NEW m \in Nat
      PROVE  /\ Files(m) \in Seq(Words) /\ Len(Files(m)) = m
             /\ \A i \in 1 .. m : Files(m)[i] = "file"
  BY <1>1, <1>2 DEF Files
<1> DEFINE a == Files(n)
           c == Append(a, "file")
<1>3. a \in Seq(Words) /\ Len(a) = n /\ \A i \in 1 .. n : a[i] = "file"
  BY <1>2
<1> HIDE DEF a
<1>4. /\ c \in Seq(Words) /\ Len(c) = n + 1 /\ a \o <<"file">> = c
      /\ \A i \in 1 .. n : c[i] = a[i]
      /\ c[n + 1] = "file"
  BY <1>1, <1>3
<1> HIDE DEF c
<1>5. \A i \in 1 .. n + 1 : i \in 1 .. n \/ i = n + 1
  OBVIOUS
<1>6. \A i \in 1 .. n + 1 : c[i] = "file"
  BY <1>3, <1>4, <1>5
<1>7. c = [i \in 1 .. n + 1 |-> c[i]]
  BY <1>4
<1>8. c = Files(n + 1)
  BY <1>6, <1>7 DEF Files
<1>9. n + 1 \in Nat
  OBVIOUS
<1>10. QED
  BY <1>2, <1>3, <1>4, <1>8, <1>9 DEF a

(* ... makes its content one longer; the end closes it.                    *)
LEMMA ContentGrows ==
    ASSUME NEW n \in Nat
    PROVE  /\ Content(n, << >>) \in Seq(Words)
           /\ Content(n, << >>) \o <<"file">> = Content(n + 1, << >>)
           /\ Content(n, << >>) \o << >> = Content(n, << >>)
           /\ Content(n, << >>) \o <<"end">> = Content(n, <<"end">>)
<1> DEFINE p == <<"params">>
           f == Files(n)
           g == Files(n + 1)
           w == <<"file">>
           e == <<"end">>
<1>1. /\ p \in Seq(Words) /\ w \in Seq(Words) /\ e \in Seq(Words)
      /\ f \in Seq(Words) /\ g \in Seq(Words) /\ f \o w = g
  <2>1. p \in Seq(Words) /\ w \in Seq(Words) /\ e \in Seq(Words)
    BY DEF Words
  <2>2. QED
    BY <2>1, FilesGrow
<1>2. /\ Content(n, << >>) = (p \o f) \o << >>
      /\ Content(n + 1, << >>) = (p \o g) \o << >>
      /\ Content(n, <<"end">>) = (p \o f) \o e
  BY DEF Content, Files
<1>3. <<"file">> = w /\ <<"end">> = e
  OBVIOUS
<1> HIDE DEF p, f, g, w, e
<1>4. p \o f \in Seq(Words) /\ p \o g \in Seq(Words)
  BY <1>1, ConcatProperties
<1>5. (p \o f) \o << >> = p \o f /\ (p \o g) \o << >> = p \o g
  BY <1>4, ConcatEmptySeq
<1>6. (p \o f) \o w = p \o g
  <2>1. p \in Seq(Words) /\ f \in Seq(Words) /\ w \in Seq(Words)
    BY <1>1
  <2>2. (p \o f) \o w = p \o (f \o w)
    BY <2>1, ConcatAssociative
  <2>3. QED
    BY <1>1, <2>2
<1>7. QED
  BY <1>2, <1>3, <1>4, <1>5, <1>6

(* One more file that was read, or could not be read.                      *)
LEMMA ReadsGrow ==
    ASSUME NEW s \in Seq(BOOLEAN), NEW r \in BOOLEAN, NEW t, t = Append(s, r)
    PROVE  /\ Cardinality({i \in 1 .. Len(s) : s[i]}) \in Nat
           /\ Cardinality({i \in 1 .. Len(t) : t[i]})
                  = Cardinality({i \in 1 .. Len(s) : s[i]}) + (IF r THEN 1 ELSE 0)
<1> DEFINE A == {i \in 1 .. Len(s) : s[i]}
           B == {i \in 1 .. Len(t) : t[i]}
           n == Len(s)
<1>1. IsFiniteSet(A) /\ Cardinality(A) \in Nat
  BY FilesFinite
<1>2. /\ n \in Nat /\ Len(t) = n + 1 /\ t[n + 1] = r
      /\ \A i \in 1 .. n : t[i] = s[i]
  BY OneMore
<1>3. \A i : i \in 1 .. n + 1 <=> i \in 1 .. n \/ i = n + 1
  BY <1>2
<1>4. n + 1 \notin A
  BY <1>2
<1>5. CASE r
  <2>1. B = A \cup {n + 1}
    BY <1>2, <1>3, <1>5
  <2> HIDE DEF A, B
  <2>2. Cardinality(B) = Cardinality(A) + 1
    BY <1>1, <1>4, <2>1, FS_AddElement
  <2>3. QED
    BY <1>1, <1>5, <2>2 DEF A, B
<1>6. CASE ~r
  <2>1. B = A
    BY <1>2, <1>3, <1>6
  <2> HIDE DEF A, B
  <2>2. Cardinality(B) = Cardinality(A) + 0
    BY <1>1, <2>1
  <2>3. QED
    BY <1>1, <1>6, <2>2 DEF A, B
<1>7. QED
  BY <1>5, <1>6

(* Only the calls and the reads of a form touch a content.                 *)
LEMMA TextsStay ==
    ASSUME ServerType,
           \/ heap' = heap
           \/ \E kind \in Kinds : heap' = Append(heap, Obj(kind))
    PROVE  TextsKept
<1>1. CASE heap' = heap
  BY <1>1 DEF TextsKept
<1>2. ASSUME NEW kind \in Kinds, heap' = Append(heap, Obj(kind)) PROVE TextsKept
  <2>1. heap \in Seq(Object) /\ Obj(kind) \in Object
    BY NewObject DEF ServerType
  <2>2. \A o \in 1 .. Len(heap) : Append(heap, Obj(kind))[o] = heap[o]
    BY <2>1, OneMore
  <2>3. QED
    BY <1>2, <2>2 DEF TextsKept
<1>3. QED
  BY <1>1, <1>2

(* A string leaves the content of a form alone.                            *)
LEMMA StringTexts ==
    ASSUME ServerType, NEW k, NEW says, NEW moved, String(k, says, moved)
    PROVE  TextsKept
<1>1. heap' = Append(heap, Obj("string")) /\ "string" \in Kinds
  BY DEF String, Kinds, Managed
<1>2. QED
  BY <1>1, TextsStay

(* So does every call but a form ...                                       *)
LEMMA CallTexts ==
    ASSUME IInv, Call, NEW call, call = calls[at + 1], call.op # "multipart"
    PROVE  context' = context /\ TextsKept
<1>1. InCall /\ Do(at + 1, call) /\ ServerType
  BY DEF Call, InCall, IInv
<1>2. call.op \in Ops
  BY <1>1, NextCall
<1>3. {"buf", "save", "proxy"} \subseteq Kinds
  BY DEF Kinds, Managed
<1>4. CASE call.op \in {"string", "move", "json", "badjson"}
  <2>1. Keep /\ \E says, moved : String(at + 1, says, moved)
    BY <1>1, <1>4 DEF Do, Error
  <2>2. QED
    BY <1>1, <2>1, StringTexts DEF Keep
<1>5. CASE call.op \in {"gzip", "br"}
  <2>1. heap' = heap /\ context' = context
    BY <1>1, <1>5 DEF Do
  <2>2. QED
    BY <1>1, <2>1, TextsStay
<1>6. CASE call.op = "file"
  <2>1. send_file(at + 1, call) /\ context' = context
    BY <1>1, <1>6 DEF Do
  <2>2. CASE heap' = Append(heap, Obj("buf"))
    BY <1>1, <1>3, <2>1, <2>2, TextsStay
  <2>3. CASE String(at + 1, "error", TRUE)
    BY <1>1, <2>1, <2>3, StringTexts
  <2>4. QED
    BY <2>1, <2>2, <2>3 DEF send_file, Error
<1>7. CASE call.op \in {"save", "savemsg"}
  <2>1. heap' = Append(heap, Obj("save")) /\ context' = context
    BY <1>1, <1>7 DEF Do, Save
  <2>2. QED
    BY <1>1, <1>3, <2>1, TextsStay
<1>8. CASE call.op = "http"
  <2>1. heap' = Append(heap, Obj("proxy")) /\ context' = context
    BY <1>1, <1>8 DEF Do, Http
  <2>2. QED
    BY <1>1, <1>3, <2>1, TextsStay
<1>9. CASE call.op \in {"mysql", "mysqlfunc", "redis", "timer"}
  <2>1. heap' = heap /\ context' = context
    BY <1>1, <1>9 DEF Do, Query
  <2>2. QED
    BY <1>1, <2>1, TextsStay
<1>10. QED
  BY <1>2, <1>4, <1>5, <1>6, <1>7, <1>8, <1>9 DEF Ops

(* ... which begins with its parameters.                                   *)
LEMMA FormStarts ==
    ASSUME IInv, Call, NEW call, call = calls[at + 1], call.op = "multipart"
    PROVE  heap'[context'].text = <<"params">>
<1> DEFINE u == Cardinality({j \in 1 .. Len(call.files) : call.files[j]})
<1>1. ServerType /\ InCall /\ Multipart(at + 1, call.files) /\ calls \in Programs
  BY DEF Call, Do, IInv, ServerType, InCall
<1>2. call.files \in Seq(BOOLEAN)
  BY <1>1, NextCall, ProgramsAssumption
<1>3. u \in Nat /\ Len(heap) \in Nat
  <2>1. u \in Nat
    BY <1>2, FilesFinite
  <2>2. QED
    BY <1>1, <2>1 DEF ServerType
<1>4. /\ heap' = heap \o [n \in 1 .. u |-> Obj("buf")]
                      \o <<Obj("encoder"), [Obj("content") EXCEPT !.text = <<"params">>]>>
      /\ cbs' = cbs \o [n \in 1 .. u |-> Len(heap) + n]
      /\ context' = Len(heap) + u + 1 + 1
  BY <1>1 DEF Multipart
<1> HIDE DEF u
<1>5. heap'[Len(heap) + u + 2].text = <<"params">>
  BY <1>1, <1>3, <1>4, AllocForm
<1>6. context' = Len(heap) + u + 2
  BY <1>3, <1>4
<1>7. QED
  BY <1>5, <1>6

(* And so does the end of a task that reads no file of a form.             *)
LEMMA EndTexts ==
    ASSUME IInv, NEW ok \in BOOLEAN, RunTask(ok), First.kind # "mpread"
    PROVE  context' = context /\ TextsKept
<1>1. ServerType /\ ~multipart_callback(ok)
  BY DEF IInv, multipart_callback, Finish
<1>2. context' = context
  BY DEF RunTask, pread_callback, pwrite_callback, multipart_callback, mysql_callback,
         redis_callback, cursor_callback, timer_callback, proxy_http_callback, Finish
<1>3. \/ heap' = heap
      \/ \E k, says, moved : String(k, says, moved)
  <2>1. CASE pread_callback(ok)
    BY <2>1 DEF pread_callback, Said, Error
  <2>2. CASE pwrite_callback(ok)
    BY <2>2 DEF pwrite_callback, Said, Error
  <2>3. CASE mysql_callback(ok) \/ redis_callback(ok)
    BY <2>3 DEF mysql_callback, redis_callback
  <2>4. CASE cursor_callback(ok)
    BY <2>4 DEF cursor_callback
  <2>5. CASE timer_callback
    BY <2>5 DEF timer_callback
  <2>6. CASE proxy_http_callback(ok)
    BY <2>6 DEF proxy_http_callback, Error
  <2>7. QED
    BY <1>1, <2>1, <2>2, <2>3, <2>4, <2>5, <2>6 DEF RunTask
<1>4. TextsKept
  BY <1>1, <1>3, StringTexts, TextsStay
<1>5. QED
  BY <1>2, <1>4

(* A task that reads a file of a form: its call is the one form.           *)
LEMMA FormTask ==
    ASSUME IInv, Queue, pc \in {"handler", "series"},
           NEW j \in 1 .. Len(tasks), tasks[j].kind = "mpread"
    PROVE  /\ tasks[j].of \in Multiparts /\ tasks[j].of \in 1 .. at
           /\ context \in 1 .. Len(heap)
<1>1. ServerType /\ Waiting /\ OfSeries
  BY DEF IInv, Answering
<1>2. TaskOk(tasks[j])
  BY <1>1 DEF Waiting
<1>3. tasks[j].of \in 1 .. at /\ calls[tasks[j].of].op = "multipart" /\ context # Null
  BY <1>2 DEF TaskOk
<1>4. context \in 1 .. Len(heap)
  BY <1>1, <1>3 DEF OfSeries
<1>5. at \in 0 .. Len(calls) /\ Len(calls) \in Nat
  BY <1>1, ProgramsAssumption DEF ServerType
<1>6. tasks[j].of \in 1 .. Len(calls)
  BY <1>3, <1>5
<1>7. QED
  BY <1>3, <1>4, <1>6 DEF Multiparts

(* A call keeps the form written as far as it is read.                     *)
LEMMA FormCall ==
    ASSUME IInv, Queue, FormWritten, Call
    PROVE  FormWritten'
<1> DEFINE call == calls[at + 1]
           u == TasksOf(call)
           n == Len(tasks)
<1>1. InCall /\ Pushes(call) /\ Says(at + 1, AtOnce(call))
  BY CallGives
<1>2. /\ at + 1 \in 1 .. Len(calls) /\ at \in Nat /\ Len(calls) \in Nat
      /\ outcome[at + 1] = << >> /\ n \in Nat /\ u \in Nat /\ call.op \in Ops
      /\ pc = "handler" /\ pc' = "handler" /\ calls' = calls /\ outcome' = outcome
  BY <1>1, NextCall DEF InCall
<1>3. SUFFICES ASSUME OneForm
               PROVE  /\ \A j \in 1 .. Len(tasks') : tasks'[j].kind = "mpread" =>
                             heap'[context'].text = Content(Reads(outcome'[tasks'[j].of]), << >>)
                      /\ \A j \in 1 .. Len(body') : body'[j].says # "form"
  <2>1. OneForm' <=> OneForm
    BY <1>2 DEF OneForm, Multiparts
  <2>2. QED
    BY <2>1 DEF FormWritten
<1>4. Len(tasks') = n + u /\ (\A j \in 1 .. n : tasks'[j] = tasks[j])
      /\ \A j \in 1 .. u : tasks'[n + j].of = at + 1 /\ tasks'[n + j].kind = KindOf(call)
  BY <1>1 DEF Pushes
<1>5. \A j \in 1 .. Len(body') : body'[j].says # "form"
  <2>1. \A j \in 1 .. Len(body) : body[j].says # "form"
    BY <1>2, <1>3 DEF FormWritten, FormPart
  <2>2. PICK S : S = AtOnce(call)
    OBVIOUS
  <2>3. S \in {<< >>, <<"text">>, <<"error">>}
    BY <2>2, SaidAtOnce
  <2>4. Len(S) \in Nat /\ Len(body) \in Nat /\ \A j \in 1 .. Len(S) : S[j] # "form"
    BY <2>3 DEF IInv, ServerType, IsSeq
  <2>5. /\ Len(body') = Len(body) + Len(S)
        /\ \A j \in 1 .. Len(body) : body'[j] = body[j]
        /\ \A j \in 1 .. Len(S) : body'[Len(body) + j].says = S[j]
    BY <1>1, <2>2 DEF Says
  <2>6. \A j \in 1 .. Len(body') :
            j \in 1 .. Len(body) \/ \E i \in 1 .. Len(S) : j = Len(body) + i
    <3>1. Len(body') = Len(body) + Len(S) /\ Len(S) \in Nat /\ Len(body) \in Nat
      BY <2>4, <2>5
    <3>2. QED
      BY <3>1, Positions, SMTT(30)
  <2>7. QED
    BY <2>1, <2>4, <2>5, <2>6
<1> HIDE DEF u, n, call
<1>6. \A j \in 1 .. Len(tasks') : j \in 1 .. n \/ \E i \in 1 .. u : j = n + i
  BY <1>2, <1>4, Positions
<1>7. \A j \in 1 .. n : tasks[j].kind = "mpread" =>
          /\ tasks[j].of \in Multiparts /\ tasks[j].of # at + 1
          /\ context \in 1 .. Len(heap)
          /\ heap[context].text = Content(Reads(outcome[tasks[j].of]), << >>)
  <2> SUFFICES ASSUME NEW j \in 1 .. n, tasks[j].kind = "mpread"
               PROVE  /\ tasks[j].of \in Multiparts /\ tasks[j].of # at + 1
                      /\ context \in 1 .. Len(heap)
                      /\ heap[context].text = Content(Reads(outcome[tasks[j].of]), << >>)
    OBVIOUS
  <2>1. /\ tasks[j].of \in Multiparts /\ tasks[j].of \in 1 .. at
        /\ context \in 1 .. Len(heap)
    BY <1>2, FormTask DEF n
  <2>2. tasks[j].of # at + 1
    BY <1>2, <2>1
  <2>3. heap[context].text = Content(Reads(outcome[tasks[j].of]), << >>)
    BY <1>2, <1>3 DEF FormWritten, n
  <2>4. QED
    BY <2>1, <2>2, <2>3
<1>8. CASE call.op = "multipart"
  <2>1. heap'[context'].text = <<"params">>
    BY <1>8, FormStarts DEF call
  <2>2. Content(Reads(outcome[at + 1]), << >>) = <<"params">>
    <3>1. {i \in 1 .. Len(outcome[at + 1]) : outcome[at + 1][i]} = {}
      BY <1>2
    <3>2. Reads(outcome[at + 1]) = 0
      BY <3>1, FS_EmptySet DEF Reads
    <3>3. Content(0, << >>) = <<"params">>
      <4>1. [i \in 1 .. 0 |-> "file"] = << >>
        OBVIOUS
      <4>2. <<"params">> \o << >> \o << >> = <<"params">>
        OBVIOUS
      <4>3. QED
        BY <4>1, <4>2 DEF Content
    <3>4. QED
      BY <3>2, <3>3
  <2>3. at + 1 \in Multiparts
    BY <1>2, <1>8 DEF Multiparts, call
  <2>4. \A j \in 1 .. n : tasks[j].kind # "mpread"
    BY <1>3, <1>7, <2>3 DEF OneForm
  <2>5. ASSUME NEW j \in 1 .. Len(tasks'), tasks'[j].kind = "mpread"
        PROVE  tasks'[j].of = at + 1
    BY <1>4, <1>6, <2>4, <2>5
  <2>6. QED
    BY <1>2, <1>5, <2>1, <2>2, <2>5
<1>9. CASE call.op # "multipart"
  <2>1. context' = context /\ TextsKept
    BY <1>9, CallTexts DEF call
  <2>2. KindOf(call) # "mpread"
    BY <1>2, <1>9, OpOfKind
  <2>3. \A j \in 1 .. Len(tasks') : tasks'[j].kind = "mpread" =>
            j \in 1 .. n /\ tasks'[j] = tasks[j]
    BY <1>4, <1>6, <2>2
  <2>4. QED
    BY <1>2, <1>5, <1>7, <2>1, <2>3 DEF TextsKept
<1>10. QED
  BY <1>8, <1>9

(* A task of another call ends.                                            *)
LEMMA FormLeft ==
    ASSUME IInv, Queue, FormWritten, NEW ok \in BOOLEAN, RunTask(ok),
           First.kind # "mpread"
    PROVE  FormWritten'
<1>1. PICK k1 : k1 = First.of
  OBVIOUS
<1>2. PICK call : call = calls[k1]
  OBVIOUS
<1>3. PICK r \in BOOLEAN : Ends(r) /\ (Replaces(call, r) \/ Adds(call, r))
  BY <1>1, <1>2, RunTaskGives
<1>4. /\ tasks # << >> /\ calls' = calls /\ pc = "series" /\ pc' = "series"
      /\ tasks' = Tail(tasks)
  BY <1>3 DEF Ends
<1>5. First.kind = KindOf(call) /\ call.op # "multipart"
  <2>1. First.kind = KindOf(call)
    BY <1>1, <1>2, <1>4, HeadQueued
  <2>2. call.op = "multipart" => KindOf(call) = "mpread"
    BY DEF KindOf
  <2>3. QED
    BY <2>1, <2>2
<1>6. \A k \in Multiparts : k # k1 /\ outcome'[k] = outcome[k]
  <2> SUFFICES ASSUME NEW k \in Multiparts PROVE k # k1 /\ outcome'[k] = outcome[k]
    OBVIOUS
  <2>1. k \in 1 .. Len(calls) /\ k # k1
    BY <1>2, <1>5 DEF Multiparts
  <2>2. QED
    BY <1>1, <1>2, <1>3, <2>1, ToldEnds
<1>7. context' = context /\ \A o \in 1 .. Len(heap) : heap'[o].text = heap[o].text
  BY EndTexts DEF TextsKept
<1>8. \A j \in 1 .. Len(tasks') : tasks'[j] = tasks[j + 1] /\ j + 1 \in 1 .. Len(tasks)
  <2>1. tasks \in Seq(Subtask)
    BY DEF IInv, ServerType
  <2>2. \A j \in 1 .. Len(tasks') : tasks'[j] = tasks[j + 1] /\ j + 1 \in 2 .. Len(tasks)
    BY <1>4, <2>1, OneLess
  <2>3. QED
    BY <2>2
<1>9. OneForm' <=> OneForm
  BY <1>4 DEF OneForm, Multiparts
<1>10. SUFFICES ASSUME OneForm
                PROVE  /\ \A j \in 1 .. Len(tasks') : tasks'[j].kind = "mpread" =>
                              heap'[context'].text = Content(Reads(outcome'[tasks'[j].of]), << >>)
                       /\ \A j \in 1 .. Len(body') : body'[j].says = "form" => FormPart(body[j])'
  BY <1>9 DEF FormWritten
<1>11. ASSUME NEW j \in 1 .. Len(tasks'), tasks'[j].kind = "mpread"
       PROVE  heap'[context'].text = Content(Reads(outcome'[tasks'[j].of]), << >>)
  <2>1. j + 1 \in 1 .. Len(tasks) /\ tasks'[j] = tasks[j + 1]
    BY <1>8
  <2>2. tasks[j + 1].of \in Multiparts /\ context \in 1 .. Len(heap)
    BY <1>4, <1>11, <2>1, FormTask
  <2>3. heap[context].text = Content(Reads(outcome[tasks[j + 1].of]), << >>)
    BY <1>4, <1>10, <1>11, <2>1 DEF FormWritten
  <2>4. QED
    BY <1>6, <1>7, <2>1, <2>2, <2>3
<1>12. ASSUME NEW j \in 1 .. Len(body'), body'[j].says = "form"
       PROVE  j \in 1 .. Len(body) /\ body'[j] = body[j]
  <2>1. CASE Replaces(call, r)
    <3> DEFINE x == Piece(First.of, "remote", Null, "plain", 0)
    <3>1. body' = <<x>>
      BY <2>1 DEF Replaces
    <3>2. x.says = "remote"
      BY DEF Piece
    <3> HIDE DEF x
    <3>3. \A i \in 1 .. Len(body') : body'[i] = x
      BY <3>1
    <3>4. QED
      BY <1>12, <3>2, <3>3
  <2>2. CASE Adds(call, r)
    <3>1. PICK S : S = InTheEnd(call, First.last, r)
      OBVIOUS
    <3>2. S \in {<< >>, <<"data">>, <<"error">>, <<"saved">>, <<"result">>}
      BY <1>5, <3>1 DEF InTheEnd
    <3>3. Len(S) \in Nat /\ Len(body) \in Nat /\ \A i \in 1 .. Len(S) : S[i] # "form"
      BY <3>2 DEF IInv, ServerType, IsSeq
    <3>4. /\ Len(body') = Len(body) + Len(S)
          /\ \A i \in 1 .. Len(body) : body'[i] = body[i]
          /\ \A i \in 1 .. Len(S) : body'[Len(body) + i].says = S[i]
      BY <2>2, <3>1 DEF Adds, Says
    <3>5. j \in 1 .. Len(body) \/ \E i \in 1 .. Len(S) : j = Len(body) + i
      <4>1. j \in 1 .. Len(body) + Len(S)
        BY <3>4
      <4>2. QED
        BY <3>3, <4>1, Positions
    <3>6. QED
      BY <1>12, <3>3, <3>4, <3>5
  <2>3. QED
    BY <1>3, <2>1, <2>2
<1>13. ASSUME NEW j \in 1 .. Len(body'), body'[j].says = "form"
       PROVE  FormPart(body[j])'
  <2> DEFINE x == body[j]
  <2>1. j \in 1 .. Len(body) /\ body'[j] = x /\ x.says = "form"
    BY <1>12, <1>13
  <2>2. FormPart(x)
    BY <1>4, <1>10, <2>1 DEF FormWritten
  <2>3. /\ x.of \in Multiparts /\ x.obj = context /\ context # Null
        /\ \A i \in 1 .. Len(tasks) : tasks[i].kind # "mpread"
        /\ heap[context].text = Content(Reads(outcome[x.of]), <<"end">>)
    BY <2>2 DEF FormPart, Multiparts
  <2>4. context \in 1 .. Len(heap)
    BY <1>4, <2>3 DEF IInv, OfSeries
  <2>5. heap'[context'].text = Content(Reads(outcome'[x.of]), <<"end">>)
    BY <1>6, <1>7, <2>3, <2>4
  <2>6. \A i \in 1 .. Len(tasks') : tasks'[i].kind # "mpread"
    BY <1>8, <2>3
  <2>7. x.of \in 1 .. Len(calls') /\ calls'[x.of].op = "multipart"
    BY <1>4, <2>3 DEF Multiparts
  <2> HIDE DEF x
  <2>8. QED
    BY <1>4, <1>7, <2>1, <2>3, <2>5, <2>6, <2>7 DEF FormPart
<1>14. QED
  BY <1>11, <1>13

(* A file of the form was read, or could not be.                           *)
LEMMA FormGrows ==
    ASSUME IInv, Queue, FormWritten, NEW ok \in BOOLEAN, multipart_callback(ok)
    PROVE  FormWritten'
<1> DEFINE last == First.last
           text == heap[context].text
           grown == text \o (IF ok THEN <<"file">> ELSE << >>)
                         \o (IF last THEN <<"end">> ELSE << >>)
<1>1. PICK k1 : k1 = First.of
  OBVIOUS
<1>2. /\ Finish("mpread", ok) /\ heap' = [heap EXCEPT ![context].text = grown]
      /\ body' = IF last
                 THEN Append(body, Piece(k1, "form", context, "plain", Len(grown)))
                 ELSE body
  BY <1>1 DEF multipart_callback
<1>3. /\ Ends(ok) /\ tasks # << >> /\ calls' = calls /\ pc = "series" /\ pc' = "series"
      /\ tasks' = Tail(tasks) /\ context' = context /\ First.kind = "mpread"
      /\ outcome' = [outcome EXCEPT ![k1] = Append(@, ok)]
  BY <1>1, <1>2 DEF Finish, Ends
<1>4. 1 \in 1 .. Len(tasks) /\ Queued(1) /\ tasks[1].of = k1 /\ tasks[1].kind = "mpread"
      /\ tasks[1].last = last
  BY <1>1, <1>3, HeadQueued DEF First
<1>5. k1 \in Multiparts /\ k1 \in 1 .. Len(calls) /\ context \in 1 .. Len(heap)
  BY <1>3, <1>4, FormTask DEF Multiparts
<1>6. last <=> /\ Closes(calls[k1].files)
               /\ \A i \in 2 .. Len(tasks) : tasks[i].of # k1
  <2>1. 1 + 1 = 2 /\ calls[k1].op = "multipart"
    BY <1>5 DEF Multiparts
  <2>2. QED
    BY <1>4, <2>1 DEF Queued
<1>7. heap'[context].text = grown
  <2> HIDE DEF grown
  <2>1. heap \in Seq(Object) /\ heap[context] \in Object
    BY <1>5 DEF IInv, ServerType
  <2>2. heap'[context] = [heap[context] EXCEPT !.text = grown]
    BY <1>2, <1>5, <2>1
  <2>3. QED
    BY <2>1, <2>2 DEF Object
<1>8. /\ outcome[k1] \in Seq(BOOLEAN) /\ outcome'[k1] = Append(outcome[k1], ok)
  BY <1>3, <1>5 DEF IInv, ServerType
<1> HIDE DEF last, text
<1>9. \A j \in 1 .. Len(tasks') : tasks'[j] = tasks[j + 1] /\ j + 1 \in 2 .. Len(tasks)
                                  /\ j + 1 \in 1 .. Len(tasks)
  <2>1. tasks \in Seq(Subtask)
    BY DEF IInv, ServerType
  <2>2. \A j \in 1 .. Len(tasks') : tasks'[j] = tasks[j + 1] /\ j + 1 \in 2 .. Len(tasks)
    BY <1>3, <2>1, OneLess
  <2>3. QED
    BY <2>2
<1>10. OneForm' <=> OneForm
  BY <1>3 DEF OneForm, Multiparts
<1>11. SUFFICES ASSUME OneForm
                PROVE  /\ \A j \in 1 .. Len(tasks') : tasks'[j].kind = "mpread" =>
                              heap'[context'].text = Content(Reads(outcome'[tasks'[j].of]), << >>)
                       /\ \A j \in 1 .. Len(body') : body'[j].says = "form" => FormPart(body[j])'
  BY <1>10 DEF FormWritten
<1>12. PICK n \in Nat : n = Reads(outcome[k1])
  BY <1>8, ReadsGrow DEF Reads
<1>13. Reads(outcome'[k1]) = n + (IF ok THEN 1 ELSE 0)
  BY <1>8, <1>12, ReadsGrow DEF Reads
<1>14. text = Content(n, << >>)
  BY <1>3, <1>4, <1>11, <1>12 DEF FormWritten, text
<1>15. PICK m \in Nat : m = Reads(outcome'[k1])
  BY <1>13
<1>16. text \o (IF ok THEN <<"file">> ELSE << >>) = Content(m, << >>)
  <2>1. CASE ok
    BY <1>13, <1>14, <1>15, <2>1, ContentGrows
  <2>2. CASE ~ok
    <3>1. m = n
      BY <1>13, <1>15, <2>2
    <3>2. QED
      BY <1>14, <2>2, <3>1, ContentGrows
  <2>3. QED
    BY <2>1, <2>2
<1>17. grown = Content(m, IF last THEN <<"end">> ELSE << >>)
  <2>1. grown = Content(m, << >>) \o (IF last THEN <<"end">> ELSE << >>)
    BY <1>16
  <2> HIDE DEF grown
  <2>2. CASE last
    BY <2>1, <2>2, ContentGrows
  <2>3. CASE ~last
    BY <2>1, <2>3, ContentGrows
  <2>4. QED
    BY <2>2, <2>3
<1> HIDE DEF grown
<1>18. ASSUME NEW j \in 1 .. Len(tasks'), tasks'[j].kind = "mpread"
       PROVE  tasks'[j].of = k1 /\ ~last
  <2>1. j + 1 \in 1 .. Len(tasks) /\ j + 1 \in 2 .. Len(tasks) /\ tasks'[j] = tasks[j + 1]
    BY <1>9
  <2>2. tasks[j + 1].of \in Multiparts
    BY <1>3, <1>18, <2>1, FormTask
  <2>3. tasks[j + 1].of = k1
    BY <1>5, <1>11, <2>2 DEF OneForm
  <2>4. QED
    BY <1>6, <2>1, <2>3
<1>19. \A j \in 1 .. Len(body) : body[j].says # "form"
  BY <1>3, <1>4, <1>11 DEF FormWritten, FormPart
<1>20. ASSUME NEW j \in 1 .. Len(body'), body'[j].says = "form"
       PROVE  FormPart(body[j])'
  <2>1. last
    BY <1>2, <1>19, <1>20
  <2> DEFINE x == Piece(k1, "form", context, "plain", Len(grown))
  <2>2. x.of = k1 /\ x.obj = context
    BY DEF Piece
  <2>3. body' = Append(body, x)
    BY <1>2, <2>1
  <2> HIDE DEF x
  <2>4. body'[j] = x
    <3>1. IsSeq(body)
      BY DEF IInv, ServerType
    <3>2. /\ Len(body) \in Nat /\ Len(body') = Len(body) + 1
          /\ \A i \in 1 .. Len(body) : body'[i] = body[i]
          /\ body'[Len(body) + 1] = x
      BY <2>3, <3>1, OneMorePiece
    <3>3. j \in 1 .. Len(body) \/ j = Len(body) + 1
      BY <3>2
    <3>4. QED
      BY <1>19, <1>20, <3>2, <3>3
  <2>5. \A i \in 1 .. Len(tasks') : tasks'[i].kind # "mpread"
    BY <1>18, <2>1
  <2>6. heap'[context'].text = Content(Reads(outcome'[k1]), <<"end">>)
    BY <1>3, <1>7, <1>15, <1>17, <2>1
  <2>7. k1 \in 1 .. Len(calls') /\ calls'[k1].op = "multipart" /\ context' # Null
    <3>1. context # Null
      BY <1>5 DEF Null
    <3>2. QED
      BY <1>3, <1>5, <3>1 DEF Multiparts
  <2>8. QED
    BY <1>3, <2>2, <2>4, <2>5, <2>6, <2>7 DEF FormPart
<1>21. ASSUME NEW j \in 1 .. Len(tasks'), tasks'[j].kind = "mpread"
       PROVE  heap'[context'].text = Content(Reads(outcome'[tasks'[j].of]), << >>)
  BY <1>3, <1>7, <1>15, <1>17, <1>18, <1>21
<1>22. QED
  BY <1>20, <1>21

(* So does the end of a task.                                              *)
LEMMA FormEnds ==
    ASSUME IInv, Queue, FormWritten, NEW ok \in BOOLEAN, RunTask(ok)
    PROVE  FormWritten'
<1>1. CASE First.kind = "mpread"
  <2>1. multipart_callback(ok)
    BY <1>1 DEF RunTask, pread_callback, pwrite_callback, mysql_callback,
                redis_callback, cursor_callback, timer_callback, proxy_http_callback, Finish
  <2>2. QED
    BY <2>1, FormGrows
<1>2. CASE First.kind # "mpread"
  BY <1>2, FormLeft
<1>3. QED
  BY <1>1, <1>2

(* So does a step that touches none of it.                                 *)
LEMMA FormRests ==
    ASSUME FormWritten, UNCHANGED <<calls, body, tasks, outcome, heap, context>>,
           pc' = pc \/ (pc = "handler" /\ pc' = "series") \/ pc' \notin {"handler", "series"}
    PROVE  FormWritten'
<1>1. OneForm' <=> OneForm
  BY DEF OneForm, Multiparts
<1>2. \A x : FormPart(x) /\ pc' \in {"handler", "series"} => FormPart(x)'
  BY DEF FormPart
<1>3. QED
  BY <1>1, <1>2 DEF FormWritten, FormPart

(* The answer and the form, in every state.                                *)
AInv == Answered /\ FormWritten

(* Every step keeps the answer and the form.                               *)
LEMMA AnswerStep ==
    ASSUME IInv, IInv', Queue, AInv, [Next]_vars
    PROVE  AInv'
<1>1. Answered /\ FormWritten
  BY DEF AInv
<1>2. CASE Call
  BY <1>1, <1>2, CallAnswered, FormCall DEF AInv
<1>3. ASSUME NEW ok \in BOOLEAN, RunTask(ok) PROVE AInv'
  BY <1>1, <1>3, EndAnswered, FormEnds DEF AInv
<1>4. ASSUME UNCHANGED <<calls, at, body, tasks, outcome, heap, context>>,
             pc' = pc \/ (pc = "handler" /\ pc' = "series") \/ pc' \notin {"handler", "series"}
      PROVE  AInv'
  BY <1>1, <1>4, AnswerRests, FormRests DEF AInv
<1>5. ASSUME pc' \notin {"handler", "series"} PROVE AInv'
  BY <1>5 DEF AInv, Answered, FormWritten
<1>6. CASE HandlerReturns
  BY <1>4, <1>6 DEF HandlerReturns
<1>7. ASSUME NEW ok \in BOOLEAN, Reply(ok) PROVE AInv'
  BY <1>5, <1>7 DEF Reply
<1>8. CASE RunCallback \/ SeriesEnds \/ ProxyReplyFailed
  BY <1>5, <1>8 DEF RunCallback, SeriesEnds, ProxyReplyFailed
<1>9. CASE UNCHANGED vars
  BY <1>4, <1>9 DEF vars
<1>10. QED
  BY <1>2, <1>3, <1>6, <1>7, <1>8, <1>9 DEF Next

(* At first nothing is told.                                               *)
LEMMA AnswerInit ==
    ASSUME Init
    PROVE  AInv
<1>1. /\ pc = "handler" /\ body = << >> /\ tasks = << >> /\ at = 0
      /\ outcome = [k \in 1 .. Len(calls) |-> << >>] /\ calls \in Programs
  BY DEF Init
<1>2. Len(body) = 0 /\ Len(tasks) = 0 /\ Len(calls) \in Nat
  BY <1>1, ProgramsAssumption
<1>3. FormWritten
  BY <1>2 DEF FormWritten
<1>4. \A k \in 1 .. Len(calls) : outcome[k] = << >>
  BY <1>1
<1>5. ~Fetches
  <2>1. << >> # <<TRUE>>
    OBVIOUS
  <2>2. QED
    BY <1>4, <2>1 DEF Fetches, Fetched
<1>6. ToldAfter(0) = << >>
  <2>1. \A k \in 1 .. Len(calls) : Told(k) = << >>
    BY <1>4 DEF Told
  <2>2. QED
    BY <1>2, <2>1, NothingLater
<1>7. ToldAtOnce = << >>
  <2> DEFINE s == AtOnceList
  <2>1. s \in Seq(Seq(Pairs)) /\ Len(s) = Len(calls)
    BY <1>2, ListTypes
  <2>2. \A j \in 1 .. Len(calls) : s[j] = << >>
    <3> SUFFICES ASSUME NEW j \in 1 .. Len(calls) PROVE s[j] = << >>
      OBVIOUS
    <3>1. ~(j <= at)
      BY <1>1, <1>2
    <3>2. QED
      BY <1>2, <3>1, ListTypes
  <2>3. ToldAtOnce = FlattenSeq(s)
    BY DEF ToldAtOnce, AtOnceList
  <2> HIDE DEF s
  <2>4. s \in Seq({<< >>})
    BY <1>2, <2>1, <2>2, AllEmpty
  <2>5. QED
    BY <2>3, <2>4, FlatNone
<1>8. Answer = << >>
  <2>1. Answer = [j \in 1 .. 0 |-> <<body[j].of, body[j].says>>]
    BY <1>2 DEF Answer
  <2>2. QED
    BY <2>1
<1>9. << >> \o << >> = << >>
  OBVIOUS
<1>10. Answered
  BY <1>5, <1>6, <1>7, <1>8, <1>9 DEF Answered
<1>11. QED
  BY <1>3, <1>10 DEF AInv

(* The three invariants hold throughout.                                   *)
LEMMA AnswerInvariance == Spec => [](IInv /\ SInv /\ AInv)
<1>1. Init => AInv
  BY AnswerInit
<1>2. IInv /\ IInv' /\ SInv /\ AInv /\ [Next]_vars => AInv'
  BY AnswerStep DEF SInv
<1>3. QED
  BY <1>1, <1>2, Scripted, PTL DEF Spec

(* When no task is left, every call has said what it had to say.           *)
LEMMA AllTold ==
    ASSUME IInv, Queue, pc = "series", tasks = << >>, NEW k \in 1 .. Len(calls)
    PROVE  Told(k) = Due(k) /\ AtOnce(calls[k]) = Direct(k) /\ k <= at
<1> DEFINE call == calls[k]
<1>1. /\ at = Len(calls) /\ Len(calls) \in Nat /\ calls \in Programs /\ call.op \in Ops
      /\ call.op = "multipart" => call.files \in Seq(BOOLEAN)
  BY ProgramsAssumption DEF IInv, ServerType, Queue
<1>2. ~Pending(k) /\ k \in 1 .. at /\ k <= at
  <2>1. Len(tasks) = 0
    OBVIOUS
  <2>2. QED
    BY <1>1, <2>1 DEF Pending
<1>3. outcome[k] = << >> <=> TasksOf(call) = 0
  BY <1>2 DEF Queue
<1>4. ASSUME outcome[k] = << >> PROVE Due(k) = << >>
  <2>1. Range(outcome[k]) = {} /\ {} # {TRUE} /\ {} # {FALSE}
    <3>1. Range(<< >>) = {}
      BY DEF Range
    <3>2. QED
      BY <1>4, <3>1
  <2>2. TasksOf(call) = 0
    BY <1>3, <1>4
  <2>3. CASE call.op \in {"mysql", "redis"}
    BY <2>2, <2>3 DEF TasksOf
  <2>4. CASE call.op = "multipart"
    <3> DEFINE S == {j \in 1 .. Len(call.files) : call.files[j]}
    <3>1. Cardinality(S) = 0 /\ IsFiniteSet(S)
      BY <1>1, <2>2, <2>4, FilesFinite DEF TasksOf
    <3>2. S = {}
      <4> HIDE DEF S
      <4>1. QED
        BY <3>1, FS_EmptySet
    <3>3. ASSUME call.files # << >> PROVE ~Last(call.files)
      <4>1. call.files \in Seq(BOOLEAN)
        BY <1>1, <2>4
      <4>2. Len(call.files) \in 1 .. Len(call.files)
        BY <3>3, <4>1, EmptySeq
      <4>3. QED
        BY <3>2, <4>2 DEF Last
    <3>4. QED
      BY <2>4, <3>3 DEF Due, Unsent, Deferred
  <2>5. CASE call.op \notin {"mysql", "redis", "multipart"}
    BY <2>1, <2>5 DEF Due, Unsent, Deferred
  <2>6. QED
    BY <2>3, <2>4, <2>5
<1>5. Told(k) = Due(k)
  BY <1>2, <1>4 DEF Told
<1>6. AtOnce(call) = Direct(k)
  <2>1. CASE call.op = "file"
    <3>1. outcome[k] = << >> <=> Refused(call)
      BY <1>3, <2>1 DEF TasksOf
    <3>2. QED
      BY <2>1, <3>1 DEF AtOnce, Direct
  <2>2. CASE call.op # "file"
    BY <2>2 DEF AtOnce, Direct
  <2>3. QED
    BY <2>1, <2>2
<1>7. QED
  BY <1>2, <1>5, <1>6

(* The task of a proxy call is there as long as its call waits for it.     *)
FetchInv == fetch = "live" =>
    \E k \in 1 .. at : calls[k].op = "http" /\ outcome[k] = << >>

(* A call of the handler: Http creates the task before anything ended.     *)
LEMMA FetchCall ==
    ASSUME IInv, FetchInv, Call
    PROVE  FetchInv'
<1> DEFINE call == calls[at + 1]
<1>1. /\ at + 1 \in 1 .. Len(calls) /\ at \in Nat /\ at' = at + 1
      /\ UNCHANGED <<calls, outcome>> /\ Do(at + 1, call) /\ pc = "handler"
  BY ProgramsAssumption DEF IInv, ServerType, Call
<1>2. CASE call.op = "http"
  <2>1. outcome[at + 1] = << >> /\ at + 1 \in 1 .. at'
    BY <1>1 DEF IInv, Answering, Waiting
  <2>2. QED
    BY <1>1, <1>2, <2>1 DEF FetchInv
<1>3. CASE call.op # "http"
  <2>1. call.op \in Ops
    BY <1>1, ProgramsAssumption DEF IInv, ServerType
  <2>2. fetch' = fetch
    BY <1>1, <1>3, <2>1 DEF Do, Keep, Save, Multipart, Query, Ops
  <2>3. QED
    BY <1>1, <2>2 DEF FetchInv
<1>4. QED
  BY <1>2, <1>3

(* A task that ends is that of the proxy call, or leaves it waiting.       *)
LEMMA FetchEnds ==
    ASSUME IInv, FetchInv, NEW r \in BOOLEAN, NEW kind, Finish(kind, r)
    PROVE  FetchInv'
<1>1. /\ UNCHANGED <<calls, at>> /\ tasks # << >> /\ First.kind = kind
      /\ outcome' = [outcome EXCEPT ![First.of] = Append(@, r)]
      /\ fetch' = IF kind = "http" THEN "deleted" ELSE fetch
      /\ pc \in {"handler", "series"}
  BY DEF Finish
<1>2. First.kind = "http" <=> calls[First.of].op = "http"
  <2>1. 1 \in 1 .. Len(tasks)
    BY <1>1 DEF IInv, ServerType
  <2>2. QED
    BY <1>1, <2>1 DEF IInv, Answering, Waiting, TaskOk, First
<1>3. CASE kind = "http"
  BY <1>1, <1>3 DEF FetchInv
<1>4. CASE kind # "http"
  <2> SUFFICES ASSUME fetch = "live" PROVE FetchInv'
    BY <1>1, <1>4 DEF FetchInv
  <2>1. PICK k \in 1 .. at : calls[k].op = "http" /\ outcome[k] = << >>
    BY DEF FetchInv
  <2>2. k # First.of
    BY <1>1, <1>2, <1>4, <2>1
  <2>3. outcome'[k] = outcome[k]
    BY <1>1, <2>2 DEF IInv, ServerType
  <2>4. QED
    BY <1>1, <2>1, <2>3 DEF FetchInv
<1>5. QED
  BY <1>3, <1>4

(* Every step.                                                             *)
LEMMA FetchStep == IInv /\ FetchInv /\ [Next]_vars => FetchInv'
<1> SUFFICES ASSUME IInv, FetchInv, [Next]_vars PROVE FetchInv'
  OBVIOUS
<1>1. CASE Call
  BY <1>1, FetchCall
<1>2. ASSUME NEW ok \in BOOLEAN, RunTask(ok) PROVE FetchInv'
  <2>1. \E kind, r : r \in BOOLEAN /\ Finish(kind, r)
    BY <1>2 DEF RunTask, pread_callback, pwrite_callback, multipart_callback,
                mysql_callback, redis_callback, cursor_callback, timer_callback,
                proxy_http_callback
  <2>2. QED
    BY <2>1, FetchEnds
<1>3. CASE UNCHANGED <<calls, at, outcome, fetch>>
  BY <1>3 DEF FetchInv
<1>4. CASE HandlerReturns \/ RunCallback \/ ProxyReplyFailed \/ SeriesEnds
           \/ (\E ok \in BOOLEAN : Reply(ok)) \/ UNCHANGED vars
  <2>1. UNCHANGED <<calls, at, outcome, fetch>>
    BY <1>4 DEF HandlerReturns, RunCallback, ProxyReplyFailed, SeriesEnds,
                Reply, vars
  <2>2. QED
    BY <1>3, <2>1
<1>5. QED
  BY <1>1, <1>2, <1>4 DEF Next

(* Nothing that an answer allocates is freed twice; and when the task is   *)
(* over, the texts of String, the buffers of File, the contexts of Save    *)
(* and Http, the encoder and content of a multipart form have been freed   *)
(* by a callback of cb_list_ or by that of the series, but for the leaks   *)
(* Forgotten names, and the task of a proxy call by workflow, unless its   *)
(* URL does not parse.                                                     *)
THEOREM FreedExactlyOnce == Spec => []FreedOnce
<1>1. ASSUME IInv PROVE Ledger
  <2>1. ServerType /\ pc \in {"handler", "series", "callbacks", "done", "undefined"}
    BY <1>1 DEF IInv, ServerType
  <2>2. CASE pc \in {"handler", "series"}
    BY <1>1, <2>2 DEF IInv, Answering, NothingFreed, Ledger
  <2>3. CASE pc = "callbacks"
    <3>1. \A o \in 1 .. Len(heap) : heap[o].frees \in {0, 1}
      BY <1>1, <2>1, <2>3, FreedAtMostOnce DEF IInv
    <3>2. QED
      BY <2>3, <3>1 DEF Ledger
  <2>4. CASE pc \in {"done", "undefined"}
    BY <1>1, <2>4 DEF IInv
  <2>5. QED
    BY <2>1, <2>2, <2>3, <2>4
<1>2. ASSUME IInv, Queue, FetchInv, pc = "done", fetch = "live" PROVE BadUrl
  <2>1. PICK k \in 1 .. at : calls[k].op = "http" /\ outcome[k] = << >>
    BY <1>2 DEF FetchInv
  <2>2. tasks = << >> /\ TasksOf(calls[k]) = 0
    <3>1. tasks = << >> /\ Len(tasks) = 0
      BY <1>2 DEF Queue
    <3>2. ~Pending(k)
      BY <3>1 DEF Pending
    <3>3. QED
      BY <1>2, <2>1, <3>1, <3>2 DEF Queue
  <2>3. ~calls[k].good
    BY <2>1, <2>2 DEF TasksOf
  <2>4. k \in 1 .. Len(calls)
    BY <1>2, ProgramsAssumption DEF IInv, ServerType
  <2>5. QED
    BY <2>1, <2>3, <2>4 DEF BadUrl
<1>3. ASSUME IInv, SInv, FetchInv PROVE FreedOnce
  <2>1. Ledger
    BY <1>1, <1>3
  <2>2. pc = "done" /\ fetch = "live" => BadUrl
    BY <1>2, <1>3 DEF SInv
  <2>3. QED
    BY <2>1, <2>2 DEF Ledger, FreedOnce
<1>4. Init => FetchInv
  BY DEF Init, FetchInv
<1>5. QED
  BY <1>3, <1>4, FetchStep, Scripted, PTL DEF Spec

-----------------------------------------------------------------------------
(* No text is lost                                                         *)

NothingLost == \A j \in 1 .. Len(body) : body[j].coding # "lost"

(* A handler that asks for no coding but gzip.                             *)
GzipOnly == \A k \in 1 .. Len(calls) : calls[k].op # "br"
Coded == GzipOnly => encoding \in {"none", "gzip"} /\ NothingLost

(* One more piece that is not lost.                                        *)
LEMMA PieceKept ==
    ASSUME IsSeq(body), NothingLost, NEW x, body' = Append(body, x), x.coding # "lost"
    PROVE  NothingLost'
<1>1. /\ Len(body) \in Nat /\ Len(body') = Len(body) + 1
      /\ \A j \in 1 .. Len(body) : body'[j] = body[j]
      /\ body'[Len(body) + 1] = x
  BY OneMorePiece
<1>2. \A j \in 1 .. Len(body') : j \in 1 .. Len(body) \/ j = Len(body) + 1
  BY <1>1
<1>3. QED
  BY <1>1, <1>2 DEF NothingLost

LEMMA StringKept ==
    ASSUME IsSeq(body), NothingLost, encoding \in {"none", "gzip"},
           NEW k, NEW says, NEW moved, String(k, says, moved)
    PROVE  NothingLost'
<1>1. PICK coding \in compress :
         body' = Append(body,
             Piece(k, says, IF moved \/ coding # "plain" THEN Len(heap) + 1 ELSE Null,
                   coding, 0))
  BY DEF String
<1>2. coding # "lost"
  BY <1>1 DEF compress
<1>3. QED
  BY <1>1, <1>2, PieceKept DEF Piece

(* A call of the handler.                                                  *)
LEMMA CodedCall ==
    ASSUME IInv, Coded, GzipOnly, Call
    PROVE  encoding' \in {"none", "gzip"} /\ NothingLost'
<1> DEFINE call == calls[at + 1]
<1>1. /\ at + 1 \in 1 .. Len(calls) /\ Do(at + 1, call) /\ IsSeq(body)
      /\ encoding \in {"none", "gzip"} /\ NothingLost
  BY ProgramsAssumption DEF IInv, ServerType, Call, Coded
<1>2. call.op \in Ops /\ call.op # "br"
  BY <1>1, ProgramsAssumption DEF IInv, ServerType, GzipOnly
<1>3. CASE UNCHANGED body
  <2>1. NothingLost'
    BY <1>1, <1>3 DEF NothingLost
  <2>2. encoding' \in {"none", "gzip"}
    BY <1>1, <1>2 DEF Do, Keep, Save, Multipart, Http, Query, Ops
  <2>3. QED
    BY <2>1, <2>2
<1>4. CASE UNCHANGED encoding /\ \E says, moved : String(at + 1, says, moved)
  BY <1>1, <1>4, StringKept
<1>5. UNCHANGED body
      \/ (UNCHANGED encoding /\ \E says, moved : String(at + 1, says, moved))
  <2>1. CASE call.op \in {"string", "move", "json", "badjson"}
    BY <1>1, <2>1 DEF Do, Keep, Error
  <2>2. CASE call.op = "gzip"
    BY <1>1, <2>2 DEF Do
  <2>3. CASE call.op = "file"
    BY <1>1, <2>3 DEF Do, send_file, Error
  <2>4. CASE call.op \in {"save", "savemsg"}
    BY <1>1, <2>4 DEF Do, Save
  <2>5. CASE call.op = "multipart"
    BY <1>1, <2>5 DEF Do, Multipart
  <2>6. CASE call.op = "http"
    BY <1>1, <2>6 DEF Do, Http
  <2>7. CASE call.op \in {"mysql", "mysqlfunc", "redis", "timer"}
    BY <1>1, <2>7 DEF Do, Query
  <2>8. QED
    BY <1>2, <2>1, <2>2, <2>3, <2>4, <2>5, <2>6, <2>7 DEF Ops
<1>6. QED
  BY <1>3, <1>4, <1>5

(* A task that ends.                                                       *)
LEMMA CodedEnds ==
    ASSUME IInv, Coded, GzipOnly, NEW ok \in BOOLEAN, RunTask(ok)
    PROVE  encoding' \in {"none", "gzip"} /\ NothingLost'
<1>1. /\ IsSeq(body) /\ encoding \in {"none", "gzip"} /\ NothingLost
  BY DEF IInv, ServerType, Coded
<1>2. CASE UNCHANGED <<encoding, body>>
  BY <1>1, <1>2 DEF NothingLost
<1>3. CASE UNCHANGED encoding /\ \E k, says, moved : String(k, says, moved)
  BY <1>1, <1>3, StringKept
<1>4. CASE UNCHANGED encoding
           /\ \E k, says, o, len : body' = Append(body, Piece(k, says, o, "plain", len))
  BY <1>1, <1>4, PieceKept DEF Piece
<1>5. CASE proxy_http_callback(ok) /\ ok
  <2>1. encoding' = "none" /\ body' = <<Piece(First.of, "remote", Null, "plain", 0)>>
    BY <1>5 DEF proxy_http_callback
  <2>2. Len(body') = 1 /\ body'[1].coding = "plain"
    BY <2>1 DEF Piece
  <2>3. NothingLost'
    BY <2>2 DEF NothingLost
  <2>4. QED
    BY <2>1, <2>3
<1>6. CASE proxy_http_callback(ok) /\ ~ok
  BY <1>3, <1>6 DEF proxy_http_callback, Error
<1>7. CASE pread_callback(ok) \/ pwrite_callback(ok)
  BY <1>3, <1>4, <1>7 DEF pread_callback, pwrite_callback, Said, Error
<1>8. CASE multipart_callback(ok)
  BY <1>2, <1>4, <1>8 DEF multipart_callback, Finish
<1>9. CASE mysql_callback(ok) \/ redis_callback(ok) \/ cursor_callback(ok)
           \/ timer_callback
  BY <1>2, <1>3, <1>9 DEF mysql_callback, redis_callback, cursor_callback,
                          timer_callback
<1>10. QED
  BY <1>5, <1>6, <1>7, <1>8, <1>9 DEF RunTask

(* Every step.                                                             *)
LEMMA CodedStep == IInv /\ Coded /\ [Next]_vars => Coded'
<1> SUFFICES ASSUME IInv, Coded, [Next]_vars, GzipOnly'
             PROVE  encoding' \in {"none", "gzip"} /\ NothingLost'
  BY DEF Coded
<1>1. calls' = calls
  BY DEF Next, Call, HandlerReturns, RunTask, pread_callback, pwrite_callback,
         multipart_callback, mysql_callback, redis_callback, cursor_callback,
         timer_callback, proxy_http_callback, Finish, Reply, RunCallback,
         ProxyReplyFailed, SeriesEnds, vars
<1>2. GzipOnly /\ encoding \in {"none", "gzip"} /\ NothingLost /\ IsSeq(body)
  BY <1>1 DEF GzipOnly, Coded, IInv, ServerType
<1>3. CASE UNCHANGED <<encoding, body>>
  BY <1>2, <1>3 DEF NothingLost
<1>4. CASE ProxyReplyFailed
  <2>1. UNCHANGED encoding
    BY <1>4 DEF ProxyReplyFailed
  <2>2. CASE UNCHANGED body
    BY <1>3, <2>1, <2>2
  <2>3. ASSUME NEW coding \in compress,
               body' = Append(body, Piece(Proxied, "error", Len(heap) + 1, coding, 0))
        PROVE  NothingLost'
    <3>1. coding # "lost"
      BY <1>2 DEF compress
    <3>2. QED
      BY <1>2, <2>3, <3>1, PieceKept DEF Piece
  <2>4. QED
    BY <1>2, <1>4, <2>1, <2>2, <2>3 DEF ProxyReplyFailed
<1>5. CASE HandlerReturns \/ RunCallback \/ SeriesEnds
           \/ (\E ok \in BOOLEAN : Reply(ok)) \/ UNCHANGED vars
  BY <1>3, <1>5 DEF HandlerReturns, RunCallback, SeriesEnds, Reply, vars
<1>6. QED
  BY <1>2, <1>4, <1>5, CodedCall, CodedEnds DEF Next

(* When the reply is sent to a handler that asked for no coding but gzip   *)
(* and whose forms list a last file that is there, it has an answer for    *)
(* every call, and none is lost: those given at once, then those of the    *)
(* tasks, both in the order of the calls, whatever the reads, writes,      *)
(* queries and fetches came to; after a fetch, the remote response and     *)
(* what comes after it.  A form has its parameters, one part for every     *)
(* file that could be read, and its end.                                   *)
THEOREM EveryCallAnswered == Spec => []AnswerComplete
<1>1. ASSUME IInv, SInv, AInv, Coded PROVE AnswerComplete
  <2>1. SUFFICES ASSUME pc = "series", tasks = << >>, Answerable
                 PROVE  /\ Answer = ExpectedBody
                        /\ NothingLost
                        /\ Cardinality(Multiparts) = 1 =>
                               \A j \in 1 .. Len(body) : body[j].says = "form" =>
                                   heap[body[j].obj].text =
                                       Content(Reads(outcome[body[j].of]), <<"end">>)
    BY DEF AnswerComplete, Answer, Content, Reads, NothingLost
  <2>2. Queue /\ Answered /\ FormWritten
    BY <1>1 DEF SInv, AInv
  <2>3. \A k \in 1 .. Len(calls) :
            Told(k) = Deferred(k) /\ AtOnce(calls[k]) = Direct(k) /\ k <= at
    <3>1. \A k \in 1 .. Len(calls) : Due(k) = Deferred(k)
      BY <2>1 DEF Due, Unsent, Answerable
    <3>2. QED
      BY <1>1, <2>1, <2>2, <3>1, AllTold
  <2>4. ASSUME NEW p
        PROVE  ToldAfter(p) = FlattenSeq([j \in 1 .. Len(calls) |->
                                  IF j > p THEN AnswerOf(j, Deferred(j)) ELSE << >>])
    BY <2>3 DEF ToldAfter
  <2>5. ToldAtOnce = FlattenSeq([k \in 1 .. Len(calls) |-> AnswerOf(k, Direct(k))])
    BY <2>3 DEF ToldAtOnce
  <2>6. Answer = IF Fetches THEN <<<<Proxied, "remote">>>> \o ToldAfter(Proxied)
                            ELSE ToldAtOnce \o ToldAfter(0)
    BY <2>1, <2>2 DEF Answered
  <2>7. Answer = ExpectedBody
    BY <2>4, <2>5, <2>6 DEF ExpectedBody, Fetches
  <2>8. ASSUME Cardinality(Multiparts) = 1 PROVE OneForm
    <3>1. Len(calls) \in Nat
      BY <1>1, ProgramsAssumption DEF IInv, ServerType
    <3>2. IsFiniteSet(1 .. Len(calls))
      BY <3>1, FS_Interval
    <3>3. IsFiniteSet(Multiparts)
      BY <3>2, FS_Subset DEF Multiparts
    <3>4. \E k : Multiparts = {k}
      BY <2>8, <3>3, FS_Singleton
    <3>5. QED
      BY <3>4 DEF OneForm
  <2>9. ASSUME OneForm, NEW j \in 1 .. Len(body), body[j].says = "form"
        PROVE  heap[body[j].obj].text = Content(Reads(outcome[body[j].of]), <<"end">>)
    <3>1. FormPart(body[j])
      BY <2>1, <2>2, <2>9 DEF FormWritten
    <3>2. QED
      BY <3>1 DEF FormPart
  <2>10. NothingLost
    BY <1>1, <2>1 DEF Coded, GzipOnly, Answerable
  <2>11. QED
    BY <2>7, <2>8, <2>9, <2>10
<1>2. Init => Coded
  BY DEF Init, Coded, NothingLost
<1>3. QED
  BY <1>1, <1>2, AnswerInvariance, CodedStep, PTL DEF Spec

=============================================================================
