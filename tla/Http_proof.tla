------------------------------ MODULE Http_proof ------------------------------
(***************************************************************************)
(* Proofs about HttpServer, HttpClient and SocketServer: for any body,     *)
(* window, channel capacity and order of calls, what a response or a       *)
(* request writes is what arrives, in order, and its events come once and  *)
(* in their order; a server counts and reports each of its connections.    *)
(*                                                                         *)
(* The first section counts in sequences: the properties speak of events   *)
(* that come once, and of an item that is either queued or said.           *)
(***************************************************************************)
EXTENDS MCNetwork, SequenceTheorems, FiniteSetTheorems, TLAPS

-----------------------------------------------------------------------------
(* Counting in sequences *)

\* Where s has e, and how often.
Spots(s, e) == {i \in 1..Len(s) : s[i] = e}
Tally(s, e) == Cardinality(Spots(s, e))
Has(s, e) == \E i \in 1..Len(s) : s[i] = e

LEMMA SpotsFinite ==
  ASSUME NEW S, NEW s \in Seq(S), NEW e
  PROVE  IsFiniteSet(Spots(s, e)) /\ Tally(s, e) \in Nat /\ Spots(s, e) \subseteq 1..Len(s)
<1>1. Len(s) \in Nat
  BY LenProperties
<1>2. Spots(s, e) \subseteq 1..Len(s)
  BY DEF Spots
<1>3. IsFiniteSet(1..Len(s))
  BY <1>1, FS_Interval
<1>4. QED BY <1>2, <1>3, FS_Subset, FS_CardinalityType DEF Tally

LEMMA TallyEmpty == ASSUME NEW e PROVE Tally(<<>>, e) = 0
<1>1. Spots(<<>>, e) = {}
  BY EmptySeq DEF Spots
<1>2. QED BY <1>1, FS_EmptySet, Zenon DEF Tally

\* Counts add up: the places of t move up by the length of s.
LEMMA TallyJoin ==
  ASSUME NEW S, NEW s \in Seq(S), NEW t \in Seq(S), NEW e
  PROVE  Tally(s \o t, e) = Tally(s, e) + Tally(t, e)
<1> DEFINE n == Len(s)
           A == Spots(s, e)
           B == Spots(t, e)
           up == {n + i : i \in B}
           f == [i \in B |-> n + i]
<1>1. /\ n \in Nat /\ Len(t) \in Nat /\ Len(s \o t) = n + Len(t)
      /\ \A i \in 1..Len(s \o t) : (s \o t)[i] = IF i <= n THEN s[i] ELSE t[i - n]
  BY LenProperties, ConcatProperties
<1>2. /\ IsFiniteSet(A) /\ Cardinality(A) \in Nat /\ A \subseteq 1..n
      /\ IsFiniteSet(B) /\ Cardinality(B) \in Nat /\ B \subseteq 1..Len(t)
  BY SpotsFinite DEF Tally
<1>3. f \in [B -> up] /\ \A x \in up : \E i \in B : f[i] = x
  OBVIOUS
<1>4. \A i, j \in B : f[i] = f[j] => i = j
  BY <1>1, <1>2
<1>5. f \in Bijection(B, up)
  <2> HIDE DEF f, up, B
  <2>1. QED BY <1>3, <1>4 DEF Bijection, Injection, Surjection, IsInjective
<1>6. ExistsBijection(B, up)
  BY <1>5 DEF ExistsBijection
<1>7. IsFiniteSet(up) /\ Cardinality(up) = Cardinality(B)
  <2> HIDE DEF up, B, f
  <2>1. QED BY <1>2, <1>6, FS_Bijection
<1>8. Spots(s \o t, e) = A \cup up
  <2>1. ASSUME NEW i \in Spots(s \o t, e) PROVE i \in A \cup up
    <3>1. i \in 1..(n + Len(t)) /\ (s \o t)[i] = e
      BY <1>1 DEF Spots
    <3>2. CASE i <= n
      BY <1>1, <3>1, <3>2 DEF Spots
    <3>3. CASE i > n
      <4>1. i - n \in B /\ i = n + (i - n)
        BY <1>1, <3>1, <3>3 DEF Spots
      <4>2. QED BY <4>1
    <3>4. QED BY <1>1, <3>1, <3>2, <3>3
  <2>2. ASSUME NEW i \in A PROVE i \in Spots(s \o t, e)
    BY <1>1 DEF Spots
  <2>3. ASSUME NEW i \in B PROVE n + i \in Spots(s \o t, e)
    BY <1>1 DEF Spots
  <2>4. QED BY <2>1, <2>2, <2>3
<1>9. A \cap up = {}
  BY <1>1, <1>2
<1>10. Cardinality(A \cup up) = Cardinality(A) + Cardinality(up)
  <2> HIDE DEF up, A
  <2>1. Cardinality(A \cup up) = Cardinality(A) + Cardinality(up) - Cardinality(A \cap up)
    BY <1>2, <1>7, FS_Union
  <2>2. Cardinality(A \cap up) = 0
    BY <1>9, FS_EmptySet, Zenon
  <2>3. Cardinality(A) \in Nat /\ Cardinality(up) \in Nat
    BY <1>2, <1>7
  <2>4. QED BY <2>1, <2>2, <2>3
<1>11. QED BY <1>7, <1>8, <1>10 DEF Tally

LEMMA TallyOne == ASSUME NEW x, NEW e PROVE Tally(<<x>>, e) = IF x = e THEN 1 ELSE 0
<1>1. CASE x = e
  <2>1. Spots(<<x>>, e) = {1}
    BY <1>1 DEF Spots
  <2>2. QED BY <1>1, <2>1, FS_Singleton, Zenon DEF Tally
<1>2. CASE x # e
  <2>1. Spots(<<x>>, e) = {}
    BY <1>2 DEF Spots
  <2>2. QED BY <1>2, <2>1, FS_EmptySet DEF Tally
<1>3. QED BY <1>1, <1>2

LEMMA TallyAppend ==
  ASSUME NEW S, NEW s \in Seq(S), NEW x \in S, NEW e
  PROVE  Tally(Append(s, x), e) = Tally(s, e) + (IF x = e THEN 1 ELSE 0)
<1>1. Append(s, x) = s \o <<x>> /\ <<x>> \in Seq(S)
  BY AppendIsConcat
<1>2. Tally(s \o <<x>>, e) = Tally(s, e) + Tally(<<x>>, e)
  BY <1>1, TallyJoin, Zenon
<1>3. Tally(<<x>>, e) = IF x = e THEN 1 ELSE 0
  BY TallyOne
<1>4. QED BY <1>1, <1>2, <1>3

LEMMA TallyTail ==
  ASSUME NEW S, NEW s \in Seq(S), s # <<>>, NEW e
  PROVE  Tally(s, e) = (IF Head(s) = e THEN 1 ELSE 0) + Tally(Tail(s), e)
<1>1. /\ Head(s) \in S /\ Tail(s) \in Seq(S) /\ <<Head(s)>> \in Seq(S)
      /\ s = <<Head(s)>> \o Tail(s)
  BY HeadTailProperties, ConcatProperties
<1>2. Tally(<<Head(s)>> \o Tail(s), e) = Tally(<<Head(s)>>, e) + Tally(Tail(s), e)
  BY <1>1, TallyJoin, Zenon
<1>3. Tally(<<Head(s)>>, e) = IF Head(s) = e THEN 1 ELSE 0
  BY TallyOne
<1>4. QED BY <1>1, <1>2, <1>3, Zenon

LEMMA TallyZero ==
  ASSUME NEW S, NEW s \in Seq(S), NEW e
  PROVE  Tally(s, e) = 0 <=> ~Has(s, e)
<1>1. IsFiniteSet(Spots(s, e))
  BY SpotsFinite
<1>2. Tally(s, e) = 0 <=> Spots(s, e) = {}
  BY <1>1, FS_EmptySet DEF Tally
<1>3. QED BY <1>2 DEF Spots, Has

\* As many e as s is long.
LEMMA TallyAll ==
  ASSUME NEW n \in Nat, NEW e, NEW d
  PROVE  Tally([i \in 1..n |-> d], e) = IF d = e THEN n ELSE 0
<1> DEFINE s == [i \in 1..n |-> d]
<1>1. Len(s) = n /\ \A i \in 1..n : s[i] = d
  BY LenProperties
<1>2. CASE d = e
  <2>1. Spots(s, e) = 1..n
    BY <1>1, <1>2 DEF Spots
  <2>2. Cardinality(1..n) = n
    BY FS_Interval
  <2>3. QED BY <1>2, <2>1, <2>2 DEF Tally
<1>3. CASE d # e
  <2>1. Spots(s, e) = {}
    BY <1>1, <1>3 DEF Spots
  <2>2. QED BY <1>3, <2>1, FS_EmptySet DEF Tally
<1>4. QED BY <1>2, <1>3

\* What Has says of sequences that grow and shrink.
LEMMA HasAppend ==
  ASSUME NEW S, NEW s \in Seq(S), NEW x \in S, NEW e
  PROVE  Has(Append(s, x), e) <=> Has(s, e) \/ x = e
<1>1. /\ Len(s) \in Nat /\ Len(Append(s, x)) = Len(s) + 1
      /\ \A i \in 1..Len(s) : Append(s, x)[i] = s[i]
      /\ Append(s, x)[Len(s) + 1] = x
  BY AppendProperties, LenProperties
<1>2. QED BY <1>1 DEF Has

LEMMA HasTail ==
  ASSUME NEW S, NEW s \in Seq(S), s # <<>>, NEW e
  PROVE  Has(s, e) <=> Head(s) = e \/ Has(Tail(s), e)
<1>1. /\ Len(s) \in Nat /\ Len(Tail(s)) = Len(s) - 1 /\ Head(s) = s[1] /\ Len(s) > 0
      /\ \A i \in 1..Len(Tail(s)) : Tail(s)[i] = s[i + 1]
  BY HeadTailProperties, LenProperties, EmptySeq
<1>2. ASSUME Has(s, e), Head(s) # e PROVE Has(Tail(s), e)
  <2>1. PICK i \in 1..Len(s) : s[i] = e
    BY <1>2 DEF Has
  <2>2. i - 1 \in 1..Len(Tail(s)) /\ (i - 1) + 1 = i
    BY <1>1, <1>2, <2>1
  <2>3. Tail(s)[i - 1] = e
    BY <1>1, <2>1, <2>2
  <2>4. QED BY <2>2, <2>3 DEF Has
<1>3. Head(s) = e => Has(s, e)
  BY <1>1 DEF Has
<1>4. ASSUME Has(Tail(s), e) PROVE Has(s, e)
  <2>1. PICK i \in 1..Len(Tail(s)) : Tail(s)[i] = e
    BY <1>4 DEF Has
  <2>2. i + 1 \in 1..Len(s) /\ s[i + 1] = e
    BY <1>1, <2>1
  <2>3. QED BY <2>2 DEF Has
<1>5. QED BY <1>2, <1>3, <1>4

LEMMA HasJoin ==
  ASSUME NEW S, NEW s \in Seq(S), NEW t \in Seq(S), NEW e
  PROVE  Has(s \o t, e) <=> Has(s, e) \/ Has(t, e)
<1>1. /\ Tally(s, e) \in Nat /\ Tally(t, e) \in Nat /\ s \o t \in Seq(S)
      /\ Tally(s \o t, e) = Tally(s, e) + Tally(t, e)
  BY SpotsFinite, TallyJoin, ConcatProperties
<1>2. /\ Tally(s, e) = 0 <=> ~Has(s, e)
      /\ Tally(t, e) = 0 <=> ~Has(t, e)
      /\ Tally(s \o t, e) = 0 <=> ~Has(s \o t, e)
  BY <1>1, TallyZero, Zenon
<1>3. QED BY <1>1, <1>2

-----------------------------------------------------------------------------
(* HttpServer: the types *)

HItems == [data : Seq(Nat), end : BOOLEAN]
HTicks == [op : {"error", "listening", "close", "closed", "request", "data", "end", "finish", "flush"},
           r : Nat]

ReqEvents == {"request", "data", "end", "finish"}
Requests ==
  [srv : Nat, done : BOOLEAN, cut : BOOLEAN, stalled : BOOLEAN, writeCh : Seq(HItems),
   headersSent : BOOLEAN, ended : BOOLEAN, said : Seq(Nat), wire : Seq(Nat), left : Nat,
   pumping : BOOLEAN, complete : BOOLEAN, chunks : Nat, bodyEnded : BOOLEAN, resumed : BOOLEAN,
   listener : BOOLEAN, heard : Seq(ReqEvents)]

HServers ==
  [unrefed : BOOLEAN, opHeld : BOOLEAN, listening : BOOLEAN, goSrv : Nat, accepting : SUBSET Nat,
   shutting : SUBSET Nat, ending : SUBSET Nat, exited : BOOLEAN, heard : Seq(HTicks), relisten : BOOLEAN]

-----------------------------------------------------------------------------
(* HttpServer: the response *)

\* The headers and the chunks in their order: the first n of them, and those
\* from a on up to b.
Upto(n) == [i \in 1..n |-> i - 1]
Stretch(a, b) == [i \in 1..(b - a) |-> a + i - 1]

\* The items of queue bring what lies between the wire and n, each from where
\* the one before it ends.
Flows(wire, queue, n) ==
  /\ wire = Upto(Len(wire))
  /\ \E pos \in [1..(Len(queue) + 1) -> 0..n] :
       /\ pos[1] = Len(wire) /\ pos[Len(queue) + 1] = n
       /\ \A i \in 1..Len(queue) :
            pos[i] <= pos[i + 1] /\ queue[i].data = Stretch(pos[i], pos[i + 1])

\* The channel with the item that waits for room in it.
Waiting(x, r, w) == IF w.r = r THEN Append(x.writeCh, w.item) ELSE x.writeCh

\* What was written is the headers and the chunks in order; the client has it
\* or it waits; the item with the end is the last, and the handler returns
\* behind it.
ResponseOK(x, queue) ==
  /\ x.said = Upto(Len(x.said))
  /\ x.headersSent <=> Len(x.said) > 0
  /\ x.cut \/ Flows(x.wire, queue, Len(x.said))
  /\ \A i \in 1..Len(queue) : queue[i].end => i = Len(queue) /\ x.ended
  /\ x.ended => x.done \/ (queue # <<>> /\ queue[Len(queue)].end)
  /\ x.done => x.ended /\ queue = <<>>

-----------------------------------------------------------------------------
(* HttpServer: the events *)

Asked(r) == HTick("request", r)
Chunk(r) == HTick("data", r)
Over(r) == HTick("end", r)
Finished(r) == HTick("finish", r)
\* The ticks that are about a request's body.
OfBody(r) == {Asked(r), Chunk(r), Over(r)}

\* 'request' is the first a request hears, or the first of its ticks.
Started(x) ==
  /\ x.heard # <<>> /\ x.heard[1] = "request"
  /\ \A i \in 2..Len(x.heard) : x.heard[i] # "request"

FirstIs(ticks, r) ==
  \E p \in 1..Len(ticks) :
    /\ ticks[p] = Asked(r)
    /\ \A i \in 1..Len(ticks) :
         ticks[i].r = r /\ ticks[i].op # "closed" => i >= p /\ (i > p => ticks[i].op # "request")

Begun(x, ticks, r) ==
  \/ Started(x) /\ ~Has(ticks, Asked(r))
  \/ x.heard = <<>> /\ x.chunks = 0 /\ ~x.bodyEnded /\ FirstIs(ticks, r)

\* A chunk that is not left was heard, or waits in the request or in a tick.
Pumped(x, ticks, r) ==
  Tally(x.heard, "data") + x.chunks + Tally(ticks, Chunk(r)) + x.left = BodyChunks

\* Where the end of the body is: not yet pumped, in a tick behind the chunks,
\* in the request, or heard, with nothing but 'finish' after it.
EndPumps(x, ticks, r) == x.pumping /\ ~Has(ticks, Over(r)) /\ ~x.bodyEnded /\ ~Has(x.heard, "end")
EndTicks(x, ticks, r) ==
  /\ ~x.pumping /\ ~x.bodyEnded /\ ~Has(x.heard, "end")
  /\ \E p \in 1..Len(ticks) :
       /\ ticks[p] = Over(r)
       /\ \A i \in 1..Len(ticks) : ticks[i] \in {Chunk(r), Over(r)} => i <= p /\ (i < p => ticks[i] = Chunk(r))

EndWaits(x, ticks, r) ==
  /\ ~x.pumping /\ x.bodyEnded /\ ~Has(x.heard, "end")
  /\ ~Has(ticks, Over(r)) /\ ~Has(ticks, Chunk(r))

EndHeard(x, ticks, r) ==
  /\ ~x.pumping /\ ~x.bodyEnded /\ x.chunks = 0
  /\ ~Has(ticks, Over(r)) /\ ~Has(ticks, Chunk(r))
  /\ \E p \in 1..Len(x.heard) :
       /\ x.heard[p] = "end"
       /\ \A i \in 1..Len(x.heard) :
            /\ i > p => x.heard[i] = "finish"
            /\ x.heard[i] = "end" => i = p

BodyEnd(x, ticks, r) ==
  EndPumps(x, ticks, r) \/ EndTicks(x, ticks, r) \/ EndWaits(x, ticks, r) \/ EndHeard(x, ticks, r)

\* 'finish' is said when the handler returns.
FinishOK(x, ticks, r) == x.done <=> Has(x.heard, "finish") \/ Has(ticks, Finished(r))

EventsOK(x, ticks, r) ==
  Begun(x, ticks, r) /\ Pumped(x, ticks, r) /\ BodyEnd(x, ticks, r) /\ FinishOK(x, ticks, r)

-----------------------------------------------------------------------------
(* HttpServer: the server *)

\* A server that was shut down takes no request any more, and the requests
\* it took have finished.
ClosedOK(s, reqs, ticks) ==
  /\ s.accepting \subseteq 1..s.goSrv /\ s.shutting \subseteq 1..s.goSrv
  /\ \A i \in 1..Len(ticks) : ticks[i].op = "closed" =>
       /\ ticks[i].r \in (1..s.goSrv) \ s.accepting
       /\ \A r \in 1..Len(reqs) : reqs[r].srv = ticks[i].r =>
            \/ Has(reqs[r].heard, "finish")
            \/ \E j \in 1..(i - 1) : ticks[j] = Finished(r)
  /\ \A i \in 1..Len(s.heard) : s.heard[i].op = "closed" =>
       /\ s.heard[i].r \in (1..s.goSrv) \ s.accepting
       /\ \A r \in 1..Len(reqs) : reqs[r].srv = s.heard[i].r => Has(reqs[r].heard, "finish")

\* The requests of a server whose 'close' is about to be put have returned.
EndingOK(s, reqs) ==
  /\ s.ending \subseteq (1..s.goSrv) \ s.accepting
  /\ \A r \in 1..Len(reqs) : reqs[r].srv \in s.ending => reqs[r].done

HoldOK(s) ==
  /\ s.listening => s.goSrv > 0
  /\ s.opHeld => ~s.unrefed /\ (s.listening \/ s.shutting # {})
  /\ s.listening /\ ~s.relisten => s.shutting = {}
  /\ s.listening /\ ~s.unrefed /\ ~s.relisten => s.opHeld

\* A tick is about the server, or about a request that arrived.
TicksOK(ticks, n) ==
  \A i \in 1..Len(ticks) :
    \/ ticks[i].op \in {"error", "listening", "close"} /\ ticks[i].r = 0
    \/ ticks[i].op \in {"request", "data", "end", "finish", "flush"} /\ ticks[i].r \in 1..n
    \/ ticks[i].op = "closed"

RequestOK(x, ticks, r, w) == ResponseOK(x, Waiting(x, r, w)) /\ EventsOK(x, ticks, r)
HttpOK(s, reqs, ticks, w) ==
  /\ s \in HServers /\ reqs \in Seq(Requests) /\ ticks \in Seq(HTicks)
  /\ w \in [r : Nat, item : HItems] /\ (w = NoSend \/ w.r \in 1..Len(reqs))
  /\ \A r \in 1..Len(reqs) : RequestOK(reqs[r], ticks, r, w)
  /\ TicksOK(ticks, Len(reqs)) /\ ClosedOK(s, reqs, ticks) /\ EndingOK(s, reqs) /\ HoldOK(s)

HttpInv == HttpOK(hs, rq, hticks, hsend)

-----------------------------------------------------------------------------
(* HttpServer: what is written and what arrives *)

LEMMA UptoFacts ==
  ASSUME NEW n \in Nat
  PROVE  Upto(n) \in Seq(Nat) /\ Len(Upto(n)) = n /\ \A i \in 1..n : Upto(n)[i] = i - 1
<1>1. \A i \in 1..n : i - 1 \in Nat
  OBVIOUS
<1>2. Upto(n) \in Seq(Nat) /\ Len(Upto(n)) = n
  BY <1>1, IsASeq, LenProperties DEF Upto
<1>3. QED BY <1>2 DEF Upto

LEMMA StretchFacts ==
  ASSUME NEW a \in Nat, NEW b \in Nat, a <= b
  PROVE  /\ Stretch(a, b) \in Seq(Nat) /\ Len(Stretch(a, b)) = b - a
         /\ \A i \in 1..(b - a) : Stretch(a, b)[i] = a + i - 1
<1>1. b - a \in Nat /\ \A i \in 1..(b - a) : a + i - 1 \in Nat
  OBVIOUS
<1>2. Stretch(a, b) \in Seq(Nat) /\ Len(Stretch(a, b)) = b - a
  BY <1>1, IsASeq, LenProperties DEF Stretch
<1>3. QED BY <1>2 DEF Stretch

LEMMA UptoJoin ==
  ASSUME NEW a \in Nat, NEW b \in Nat, a <= b
  PROVE  Upto(a) \o Stretch(a, b) = Upto(b)
<1> DEFINE s == Upto(a) \o Stretch(a, b)
<1>1. /\ Upto(a) \in Seq(Nat) /\ Len(Upto(a)) = a /\ \A i \in 1..a : Upto(a)[i] = i - 1
      /\ Upto(b) \in Seq(Nat) /\ Len(Upto(b)) = b /\ \A i \in 1..b : Upto(b)[i] = i - 1
  BY UptoFacts
<1>2. /\ Stretch(a, b) \in Seq(Nat) /\ Len(Stretch(a, b)) = b - a
      /\ \A i \in 1..(b - a) : Stretch(a, b)[i] = a + i - 1
  BY StretchFacts
<1>3. /\ s \in Seq(Nat) /\ Len(s) = Len(Upto(a)) + Len(Stretch(a, b))
      /\ \A i \in 1..Len(s) : s[i] = IF i <= Len(Upto(a)) THEN Upto(a)[i]
                                  ELSE Stretch(a, b)[i - Len(Upto(a))]
  <2>1. Upto(a) \in Seq(Nat) /\ Stretch(a, b) \in Seq(Nat)
    BY <1>1, <1>2
  <2>2. QED BY <2>1, ConcatProperties
<1> HIDE DEF s
<1>4. Len(s) = b /\ Len(Upto(a)) = a
  BY <1>1, <1>2, <1>3
<1>5. \A i \in 1..b : s[i] = i - 1
  <2>1. SUFFICES ASSUME NEW i \in 1..b PROVE s[i] = i - 1
    OBVIOUS
  <2>2. CASE i <= a
    BY <1>1, <1>3, <1>4, <2>2
  <2>3. CASE i > a
    <3>1. i - a \in 1..(b - a)
      BY <2>3
    <3>2. Stretch(a, b)[i - a] = i - 1
      BY <1>2, <3>1
    <3>3. i \in 1..Len(s) /\ ~(i <= a)
      BY <1>4, <2>3
    <3>4. s[i] = Stretch(a, b)[i - a]
      BY <1>3, <1>4, <3>3
    <3>5. QED BY <3>2, <3>4
  <2>4. QED BY <2>2, <2>3
<1>6. s = Upto(b)
  BY <1>1, <1>3, <1>4, <1>5, SeqEqual
<1>7. QED BY <1>6 DEF s

LEMMA StretchNone == ASSUME NEW a \in Nat PROVE Stretch(a, a) = <<>>
<1>1. Stretch(a, a) \in Seq(Nat) /\ Len(Stretch(a, a)) = 0
  BY StretchFacts
<1>2. QED BY <1>1, EmptySeq

LEMMA FlowsLength ==
  ASSUME NEW wire \in Seq(Nat), NEW queue \in Seq(HItems), NEW n \in Nat, Flows(wire, queue, n)
  PROVE  Len(wire) \in 0..n /\ (queue = <<>> => wire = Upto(n))
<1>1. PICK pos \in [1..(Len(queue) + 1) -> 0..n] : pos[1] = Len(wire) /\ pos[Len(queue) + 1] = n
  BY Zenon DEF Flows
<1>2. 1 \in 1..(Len(queue) + 1)
  BY LenProperties
<1>3. Len(wire) \in 0..n
  BY <1>1, <1>2, Zenon
<1>4. ASSUME queue = <<>> PROVE wire = Upto(n)
  <2>1. Len(queue) = 0
    BY <1>4, EmptySeq
  <2>2. Len(wire) = n
    BY <1>1, <2>1
  <2>3. QED BY <2>2 DEF Flows
<1>5. QED BY <1>3, <1>4

\* An item behind the others brings what was written last.
LEMMA FlowsAppend ==
  ASSUME NEW wire \in Seq(Nat), NEW queue \in Seq(HItems), NEW n \in Nat, Flows(wire, queue, n),
         NEW m \in Nat, n <= m, NEW item \in HItems, item.data = Stretch(n, m)
  PROVE  Flows(wire, Append(queue, item), m)
<1> DEFINE l == Len(queue)
           app == Append(queue, item)
<1>1. PICK pos \in [1..(l + 1) -> 0..n] :
        /\ pos[1] = Len(wire) /\ pos[l + 1] = n
        /\ \A i \in 1..l : pos[i] <= pos[i + 1] /\ queue[i].data = Stretch(pos[i], pos[i + 1])
  BY Zenon DEF Flows
<1>2. /\ l \in Nat /\ Len(app) = l + 1 /\ app[l + 1] = item
      /\ \A i \in 1..l : app[i] = queue[i]
  BY AppendProperties, LenProperties
<1> DEFINE new == [i \in 1..(Len(app) + 1) |-> IF i <= l + 1 THEN pos[i] ELSE m]
<1>3. new \in [1..(Len(app) + 1) -> 0..m]
  <2>1. \A i \in 1..(Len(app) + 1) : new[i] \in 0..m
    <3>1. SUFFICES ASSUME NEW i \in 1..(Len(app) + 1) PROVE new[i] \in 0..m
      OBVIOUS
    <3>2. CASE i <= l + 1
      <4>1. i \in 1..(l + 1) /\ new[i] = pos[i]
        BY <1>2, <3>2
      <4>2. pos[i] \in 0..n
        BY <4>1
      <4>3. QED BY <4>1, <4>2
    <3>3. CASE ~(i <= l + 1)
      BY <3>3
    <3>4. QED BY <3>2, <3>3
  <2>2. QED BY <2>1
<1>4. new[1] = Len(wire) /\ new[Len(app) + 1] = m
  BY <1>1, <1>2
<1>5. \A i \in 1..Len(app) : new[i] <= new[i + 1] /\ app[i].data = Stretch(new[i], new[i + 1])
  <2>1. SUFFICES ASSUME NEW i \in 1..Len(app)
                 PROVE  new[i] <= new[i + 1] /\ app[i].data = Stretch(new[i], new[i + 1])
    BY Zenon
  <2>2. CASE i <= l
    <3>1. new[i] = pos[i] /\ new[i + 1] = pos[i + 1]
      BY <1>2, <2>2
    <3>2. i \in 1..l
      BY <2>2
    <3>3. QED BY <1>1, <1>2, <3>1, <3>2
  <2>3. CASE i = l + 1
    <3>1. new[i] = n /\ new[i + 1] = m
      BY <1>1, <1>2, <2>3
    <3>2. QED BY <1>2, <2>3, <3>1
  <2>4. QED BY <1>2, <2>2, <2>3, SMTT(20)
<1>6. wire = Upto(Len(wire))
  BY DEF Flows
<1> HIDE DEF new, app
<1>7. Flows(wire, app, m)
  BY <1>3, <1>4, <1>5, <1>6, Zenon DEF Flows
<1>8. QED BY <1>7 DEF app

\* What the first item brings goes to the wire.
LEMMA FlowsTake ==
  ASSUME NEW wire \in Seq(Nat), NEW queue \in Seq(HItems), NEW n \in Nat, Flows(wire, queue, n),
         queue # <<>>
  PROVE  Flows(wire \o Head(queue).data, Tail(queue), n)
<1> DEFINE l == Len(queue)
           rest == Tail(queue)
<1>1. PICK pos \in [1..(l + 1) -> 0..n] :
        /\ pos[1] = Len(wire) /\ pos[l + 1] = n
        /\ \A i \in 1..l : pos[i] <= pos[i + 1] /\ queue[i].data = Stretch(pos[i], pos[i + 1])
  BY Zenon DEF Flows
<1>2. /\ l \in Nat /\ l > 0 /\ Len(rest) = l - 1 /\ Head(queue) = queue[1]
      /\ \A i \in 1..Len(rest) : rest[i] = queue[i + 1]
  BY HeadTailProperties, LenProperties, EmptySeq
<1>3. 1 \in 1..l /\ 1 \in 1..(l + 1) /\ 2 \in 1..(l + 1)
  BY <1>2
<1>4. /\ pos[1] \in Nat /\ pos[2] \in Nat /\ pos[1] <= pos[2]
      /\ Head(queue).data = Stretch(pos[1], pos[2])
  <2>1. pos[1] \in 0..n /\ pos[2] \in 0..n
    BY <1>1, <1>3, Zenon
  <2>2. pos[1] <= pos[1 + 1] /\ queue[1].data = Stretch(pos[1], pos[1 + 1])
    BY <1>1, <1>3
  <2>3. QED BY <1>2, <2>1, <2>2
<1>5. wire = Upto(pos[1])
  BY <1>1 DEF Flows
<1>6. wire \o Head(queue).data = Upto(pos[2]) /\ Len(Upto(pos[2])) = pos[2]
  BY <1>4, <1>5, UptoJoin, UptoFacts, Zenon
<1> DEFINE new == [i \in 1..(Len(rest) + 1) |-> pos[i + 1]]
<1>7. new \in [1..(Len(rest) + 1) -> 0..n] /\ new[1] = pos[2] /\ new[Len(rest) + 1] = n
  <2>1. \A i \in 1..(Len(rest) + 1) : i + 1 \in 1..(l + 1)
    BY <1>2
  <2>2. new \in [1..(Len(rest) + 1) -> 0..n]
    BY <1>1, <2>1, Zenon
  <2>3. 1 \in 1..(Len(rest) + 1) /\ Len(rest) + 1 \in 1..(Len(rest) + 1) /\ (Len(rest) + 1) + 1 = l + 1
    BY <1>2
  <2>4. QED BY <1>1, <2>2, <2>3
<1>8. \A i \in 1..Len(rest) : new[i] <= new[i + 1] /\ rest[i].data = Stretch(new[i], new[i + 1])
  <2>1. SUFFICES ASSUME NEW i \in 1..Len(rest)
                 PROVE  new[i] <= new[i + 1] /\ rest[i].data = Stretch(new[i], new[i + 1])
    BY Zenon
  <2>2. i + 1 \in 1..l /\ i \in 1..(Len(rest) + 1) /\ i + 1 \in 1..(Len(rest) + 1)
    BY <1>2
  <2>3. pos[i + 1] <= pos[(i + 1) + 1] /\ queue[i + 1].data = Stretch(pos[i + 1], pos[(i + 1) + 1])
    BY <1>1, <2>2
  <2>4. new[i] = pos[i + 1] /\ new[i + 1] = pos[(i + 1) + 1]
    BY <2>2
  <2>5. QED BY <1>2, <2>3, <2>4
<1> HIDE DEF new, rest
<1>9. Flows(Upto(pos[2]), rest, n)
  BY <1>6, <1>7, <1>8, Zenon DEF Flows
<1>10. QED BY <1>6, <1>9, Zenon DEF rest

\* The chunks among the first n of headers and chunks.
LEMMA ChunksOf ==
  ASSUME NEW n \in Nat
  PROVE  Cardinality({i \in DOMAIN Upto(n) : Upto(n)[i] # HeadItem}) = IF n = 0 THEN 0 ELSE n - 1
<1> DEFINE places == {i \in DOMAIN Upto(n) : Upto(n)[i] # HeadItem}
           most == Cardinality(2..n)
<1>1. DOMAIN Upto(n) = 1..n /\ \A i \in 1..n : Upto(n)[i] = i - 1
  BY DEF Upto
<1>2. places = 2..n
  BY <1>1 DEF HeadItem
<1>3. most = IF 2 > n THEN 0 ELSE n - 2 + 1
  BY FS_Interval
<1>4. Cardinality(places) = most
  BY <1>2, Zenon
<1> HIDE DEF places, most
<1>5. Cardinality(places) = IF n = 0 THEN 0 ELSE n - 1
  BY <1>3, <1>4
<1>6. QED BY <1>5 DEF places

\* A call that writes adds what comes next: the headers, if they have not
\* gone, and perhaps a chunk.
GoesOn(sofar, head, said) ==
  \E m \in Nat : /\ Len(sofar) <= m /\ m > 0 /\ head \o said = Stretch(Len(sofar), m)
                 /\ sofar \o head \o said = Upto(m)

LEMMA NextWritten ==
  ASSUME NEW x \in Requests, x.said = Upto(Len(x.said)), x.headersSent <=> Len(x.said) > 0,
         NEW head, head = IF x.headersSent THEN <<>> ELSE <<HeadItem>>,
         NEW said,
         \/ said = <<>>
         \/ said = <<(IF Len(x.said) = 0 THEN 0 ELSE Len(x.said) - 1) + 1>>
  PROVE  GoesOn(x.said, head, said)
<1> DEFINE n == Len(x.said)
           c == IF Len(x.said) = 0 THEN 0 ELSE Len(x.said) - 1
<1>1. x.said \in Seq(Nat) /\ n \in Nat /\ x.headersSent \in BOOLEAN
  BY LenProperties DEF Requests
<1>2. c = IF n = 0 THEN 0 ELSE n - 1
  OBVIOUS
<1>0. /\ x.said = Upto(n) /\ (x.headersSent <=> n > 0)
      /\ said = <<>> \/ said = <<c + 1>>
  OBVIOUS
<1> HIDE DEF n, c
<1>9. c \in Nat
  BY <1>1, <1>2
<1>3. head \in Seq(Nat) /\ said \in Seq(Nat)
  <2>1. <<HeadItem>> \in Seq(Nat) /\ <<>> \in Seq(Nat)
    BY EmptySeq DEF HeadItem
  <2>2. head \in Seq(Nat)
    BY <2>1
  <2>3. \A a \in Nat : <<a + 1>> \in Seq(Nat)
    OBVIOUS
  <2>4. said \in Seq(Nat)
    BY <1>0, <1>9, <2>1, <2>3, Zenon
  <2>5. QED BY <2>2, <2>4
<1>4. \E m \in Nat : n <= m /\ m > 0 /\ head \o said = Stretch(n, m)
  <2>1. CASE x.headersSent /\ said = <<>>
    <3>1. head \o said = <<>> /\ n > 0
      BY <1>0, <2>1, EmptySeq, ConcatEmptySeq
    <3>2. Stretch(n, n) = <<>>
      BY <1>1, StretchNone
    <3>3. n <= n /\ n > 0 /\ n \in Nat /\ head \o said = Stretch(n, n)
      BY <1>1, <3>1, <3>2
    <3>4. QED BY <3>3
  <2>2. CASE x.headersSent /\ said # <<>>
    <3>1. said = <<n>> /\ head = <<>> /\ n > 0
      <4>1. n > 0 /\ head = <<>> /\ said = <<c + 1>>
        BY <1>0, <2>2
      <4>2. c + 1 = n
        BY <1>1, <1>2, <4>1
      <4>3. QED BY <4>1, <4>2
    <3>2. head \o said = <<n>>
      BY <1>3, <3>1, ConcatEmptySeq, Zenon
    <3>3. Stretch(n, n + 1) = <<n>>
      BY <1>1 DEF Stretch
    <3>4. n + 1 \in Nat /\ n <= n + 1 /\ n + 1 > 0
      BY <1>1
    <3>5. QED BY <3>2, <3>3, <3>4, Zenon
  <2>3. CASE ~x.headersSent /\ said = <<>>
    <3>1. head = <<0>> /\ n = 0
      BY <1>0, <1>1, <2>3 DEF HeadItem
    <3>2. head \o said = <<0>>
      BY <1>3, <3>1, <2>3, ConcatEmptySeq
    <3>3. Stretch(0, 1) = <<0>>
      BY DEF Stretch
    <3>4. Stretch(n, 1) = head \o said
      BY <3>1, <3>2, <3>3, Zenon
    <3>5. n <= 1 /\ 1 > 0 /\ 1 \in Nat
      BY <3>1
    <3>6. QED BY <3>4, <3>5
  <2>4. CASE ~x.headersSent /\ said # <<>>
    <3>1. head = <<0>> /\ n = 0 /\ said = <<1>>
      <4>1. head = <<0>> /\ n = 0 /\ said = <<c + 1>>
        BY <1>0, <1>1, <2>4 DEF HeadItem
      <4>2. c + 1 = 1
        BY <1>2, <4>1
      <4>3. QED BY <4>1, <4>2
    <3>2. head \o said = <<0, 1>>
      <4>1. Append(<<0>>, 1) = <<0>> \o <<1>>
        BY AppendIsConcat
      <4>2. Append(<<0>>, 1) = <<0, 1>>
        <5>1. /\ <<0>> \in Seq(Nat) /\ Len(<<0>>) = 1 /\ <<0>>[1] = 0
              /\ <<0, 1>> \in Seq(Nat) /\ Len(<<0, 1>>) = 2 /\ <<0, 1>>[1] = 0 /\ <<0, 1>>[2] = 1
          OBVIOUS
        <5>2. /\ Append(<<0>>, 1) \in Seq(Nat) /\ Len(Append(<<0>>, 1)) = 2
              /\ Append(<<0>>, 1)[1] = 0 /\ Append(<<0>>, 1)[2] = 1
          BY <5>1, AppendProperties
        <5>3. \A i \in 1..2 : Append(<<0>>, 1)[i] = <<0, 1>>[i]
          <6>1. \A i \in 1..2 : i = 1 \/ i = 2
            OBVIOUS
          <6>2. QED BY <5>1, <5>2, <6>1
        <5> DEFINE a == Append(<<0>>, 1)
                   b == <<0, 1>>
        <5>4. /\ a \in Seq(Nat) /\ b \in Seq(Nat) /\ Len(a) = Len(b)
              /\ \A i \in 1..Len(a) : a[i] = b[i]
          BY <5>1, <5>2, <5>3
        <5> HIDE DEF a, b
        <5>5. a = b
          BY <5>4, SeqEqual, Zenon
        <5>6. QED BY <5>5 DEF a, b
      <4>3. QED BY <3>1, <4>1, <4>2, Zenon
    <3>3. Stretch(0, 2) = <<0, 1>>
      BY DEF Stretch
    <3>4. Stretch(n, 2) = head \o said
      BY <3>1, <3>2, <3>3, Zenon
    <3>5. n <= 2 /\ 2 > 0 /\ 2 \in Nat
      BY <3>1
    <3>6. QED BY <3>4, <3>5
  <2>5. QED BY <1>1, <2>1, <2>2, <2>3, <2>4, Zenon
<1>5. PICK m \in Nat : n <= m /\ m > 0 /\ head \o said = Stretch(n, m)
  BY <1>4
<1>6. x.said \o head \o said = x.said \o (head \o said)
  <2>1. \A a, b, d \in Seq(Nat) : (a \o b) \o d = a \o (b \o d)
    BY ConcatAssociative, SMTT(20)
  <2>2. QED BY <1>1, <1>3, <2>1, Zenon
<1>7. x.said \o (head \o said) = Upto(m)
  BY <1>0, <1>1, <1>5, UptoJoin, Zenon
<1>8. QED BY <1>5, <1>6, <1>7, Zenon DEF n, GoesOn

LEMMA EnqueueResponse ==
  ASSUME NEW x \in Requests, NEW queue \in Seq(HItems), ResponseOK(x, queue), ~x.ended,
         NEW item \in HItems, NEW m \in Nat, Len(x.said) <= m, m > 0,
         item.data = Stretch(Len(x.said), m),
         NEW y \in Requests, y.said = Upto(m), y.headersSent, y.ended = item.end,
         y.wire = x.wire, y.cut = x.cut, y.done = x.done
  PROVE  ResponseOK(y, Append(queue, item))
<1>1. /\ Len(queue) \in Nat /\ Len(Append(queue, item)) = Len(queue) + 1
      /\ \A i \in 1..Len(queue) : Append(queue, item)[i] = queue[i]
      /\ Append(queue, item)[Len(queue) + 1] = item /\ Append(queue, item) # <<>>
  BY AppendProperties, LenProperties
<1>2. x.said \in Seq(Nat) /\ Len(x.said) \in Nat /\ x.wire \in Seq(Nat)
  BY LenProperties DEF Requests
<1>3. Len(y.said) = m /\ y.said = Upto(Len(y.said)) /\ Len(y.said) > 0
  BY UptoFacts
<1>4. y.cut \/ Flows(y.wire, Append(queue, item), Len(y.said))
  BY <1>2, <1>3, FlowsAppend DEF ResponseOK
<1>5. ~x.done
  BY DEF ResponseOK
<1>6. \A i \in 1..Len(queue) : ~queue[i].end
  BY DEF ResponseOK
<1>7. \A i \in 1..(Len(queue) + 1) : Append(queue, item)[i].end => i = Len(queue) + 1 /\ y.ended
  BY <1>1, <1>6
<1>8. y.ended => Append(queue, item)[Len(queue) + 1].end
  BY <1>1
<1>9. QED BY <1>1, <1>3, <1>4, <1>5, <1>7, <1>8 DEF ResponseOK

LEMMA DrainResponse ==
  ASSUME NEW x \in Requests, NEW queue \in Seq(HItems), ResponseOK(x, queue), queue # <<>>,
         NEW y \in Requests, y.said = x.said, y.headersSent = x.headersSent, y.ended = x.ended,
         y.cut = x.cut, y.done = Head(queue).end,
         y.cut \/ y.wire = x.wire \o Head(queue).data
  PROVE  ResponseOK(y, Tail(queue))
<1>1. /\ Len(queue) \in Nat /\ Len(queue) > 0 /\ Head(queue) = queue[1]
      /\ Len(Tail(queue)) = Len(queue) - 1 /\ Tail(queue) \in Seq(HItems)
      /\ \A i \in 1..Len(Tail(queue)) : Tail(queue)[i] = queue[i + 1]
  BY HeadTailProperties, LenProperties, EmptySeq
<1>2. x.said \in Seq(Nat) /\ Len(x.said) \in Nat /\ x.wire \in Seq(Nat)
  BY LenProperties DEF Requests
<1>3. y.cut \/ Flows(y.wire, Tail(queue), Len(y.said))
  BY <1>2, FlowsTake, Zenon DEF ResponseOK
<1>4. Tail(queue) = <<>> <=> Len(queue) = 1
  <2>1. Tail(queue) = <<>> <=> Len(Tail(queue)) = 0
    BY <1>1, EmptySeq, Zenon
  <2>2. QED BY <1>1, <2>1
<1>5. ASSUME NEW i \in 1..Len(Tail(queue)), Tail(queue)[i].end
      PROVE  i = Len(Tail(queue)) /\ y.ended
  <2>1. i + 1 \in 1..Len(queue) /\ queue[i + 1].end
    BY <1>1, <1>5
  <2>2. i + 1 = Len(queue) /\ x.ended
    BY <2>1 DEF ResponseOK
  <2>3. i \in Nat
    OBVIOUS
  <2>4. i = Len(queue) - 1
    <3> DEFINE l == Len(queue)
    <3>1. l \in Nat /\ i + 1 = l
      BY <1>1, <2>2, Zenon
    <3> HIDE DEF l
    <3>2. i = l - 1
      BY <2>3, <3>1
    <3>3. QED BY <3>2 DEF l
  <2>5. QED BY <1>1, <2>2, <2>4
<1>6. 1 \in 1..Len(queue)
  BY <1>1
<1>7. y.done => y.ended /\ Tail(queue) = <<>>
  <2>1. queue[1].end => 1 = Len(queue) /\ x.ended
    BY <1>6, Zenon DEF ResponseOK
  <2>2. QED BY <1>1, <1>4, <2>1
<1>8. y.ended => y.done \/ (Tail(queue) # <<>> /\ Tail(queue)[Len(Tail(queue))].end)
  <2>1. SUFFICES ASSUME y.ended PROVE y.done \/ (Tail(queue) # <<>> /\ Tail(queue)[Len(Tail(queue))].end)
    OBVIOUS
  <2>2. ~x.done /\ queue[Len(queue)].end
    BY <2>1 DEF ResponseOK
  <2>3. CASE Len(queue) = 1
    BY <1>1, <2>2, <2>3
  <2>4. CASE Len(queue) # 1
    <3>1. Len(Tail(queue)) \in 1..Len(Tail(queue)) /\ Len(Tail(queue)) + 1 = Len(queue)
      BY <1>1, <2>4
    <3>2. QED BY <1>1, <1>4, <2>2, <2>4, <3>1
  <2>5. QED BY <2>3, <2>4
<1>9. QED BY <1>3, <1>5, <1>7, <1>8 DEF ResponseOK

LEMMA SameResponse ==
  ASSUME NEW x \in Requests, NEW queue, ResponseOK(x, queue),
         NEW y \in Requests, y.said = x.said, y.headersSent = x.headersSent, y.ended = x.ended,
         y.wire = x.wire, y.done = x.done, y.cut = x.cut \/ y.cut
  PROVE  ResponseOK(y, queue)
BY DEF ResponseOK

\* What the invariant says of a response.
LEMMA ResponseIs ==
  ASSUME NEW x \in Requests, NEW queue \in Seq(HItems), ResponseOK(x, queue)
  PROVE  /\ IsPrefix(x.wire, x.said) \/ x.cut
         /\ Cardinality({i \in DOMAIN x.said : x.said[i] = HeadItem}) <= 1
         /\ x.said # <<>> => Head(x.said) = HeadItem
         /\ x.done => x.ended /\ (x.cut \/ x.wire = x.said)
<1> DEFINE n == Len(x.said)
<1>1. /\ x.said \in Seq(Nat) /\ n \in Nat /\ x.wire \in Seq(Nat) /\ Len(x.wire) \in Nat
      /\ DOMAIN x.said = 1..n
  BY LenProperties DEF Requests
<1>2. x.said = Upto(n)
  BY DEF ResponseOK
<1>3. \A i \in 1..n : x.said[i] = i - 1
  BY <1>1, <1>2, UptoFacts, Zenon
<1>4. {i \in DOMAIN x.said : x.said[i] = HeadItem} \subseteq {1}
  BY <1>1, <1>3 DEF HeadItem
<1>5. Cardinality({i \in DOMAIN x.said : x.said[i] = HeadItem}) <= 1
  <2>1. IsFiniteSet({1}) /\ Cardinality({1}) = 1
    BY FS_Singleton, Zenon
  <2>2. QED BY <1>4, <2>1, FS_Subset
<1>6. x.said # <<>> => Head(x.said) = HeadItem
  <2>1. x.said # <<>> => n > 0 /\ Head(x.said) = x.said[1]
    BY <1>1, EmptySeq, HeadTailProperties
  <2>2. QED BY <1>1, <1>3, <2>1 DEF HeadItem
<1>7. ASSUME ~x.cut PROVE IsPrefix(x.wire, x.said) /\ (x.done => x.wire = x.said)
  <2>1. Flows(x.wire, queue, n)
    BY <1>7 DEF ResponseOK
  <2>2. Len(x.wire) \in 0..n /\ (queue = <<>> => x.wire = Upto(n))
    BY <1>1, <2>1, FlowsLength
  <2>3. x.wire = Upto(Len(x.wire))
    BY <2>1 DEF Flows
  <2>4. \A i \in 1..Len(x.wire) : x.wire[i] = x.said[i]
    <3>1. \A i \in 1..Len(x.wire) : x.wire[i] = i - 1
      BY <1>1, <2>3, UptoFacts, Zenon
    <3>2. \A i \in 1..Len(x.wire) : i \in 1..n
      BY <1>1, <2>2
    <3>3. QED BY <1>3, <3>1, <3>2
  <2>5. SubSeq(x.wire, 1, Len(x.wire)) = SubSeq(x.said, 1, Len(x.wire))
    <3>1. /\ SubSeq(x.wire, 1, Len(x.wire)) = [i \in 1..Len(x.wire) |-> x.wire[i]]
          /\ SubSeq(x.said, 1, Len(x.wire)) = [i \in 1..Len(x.wire) |-> x.said[i]]
      BY <1>1, <2>2
    <3>2. QED BY <2>4, <3>1
  <2>6. IsPrefix(x.wire, x.said)
    BY <2>2, <2>5 DEF IsPrefix
  <2>7. x.done => queue = <<>>
    BY DEF ResponseOK
  <2>8. QED BY <1>2, <2>2, <2>6, <2>7
<1>8. x.done => x.ended
  BY DEF ResponseOK
<1>9. QED BY <1>5, <1>6, <1>7, <1>8

-----------------------------------------------------------------------------
(* HttpServer: what is heard *)

LEMMA TicksDiffer ==
  ASSUME NEW r
  PROVE  /\ Asked(r) # Chunk(r) /\ Asked(r) # Over(r) /\ Asked(r) # Finished(r)
         /\ Chunk(r) # Over(r) /\ Chunk(r) # Finished(r) /\ Over(r) # Finished(r)
<1>1. /\ Asked(r).op = "request" /\ Chunk(r).op = "data"
      /\ Over(r).op = "end" /\ Finished(r).op = "finish"
  BY DEF Asked, Chunk, Over, Finished, HTick
<1>2. QED BY <1>1

LEMMA TickAt ==
  ASSUME NEW ticks \in Seq(HTicks), NEW t \in HTicks
  PROVE  /\ Len(ticks) \in Nat /\ Append(ticks, t) \in Seq(HTicks)
         /\ Len(Append(ticks, t)) = Len(ticks) + 1
         /\ \A i \in 1..Len(ticks) : Append(ticks, t)[i] = ticks[i]
         /\ Append(ticks, t)[Len(ticks) + 1] = t
BY AppendProperties, LenProperties

LEMMA RestAt ==
  ASSUME NEW ticks \in Seq(HTicks), ticks # <<>>
  PROVE  /\ Len(ticks) \in Nat /\ Len(ticks) > 0 /\ Tail(ticks) \in Seq(HTicks)
         /\ Len(Tail(ticks)) = Len(ticks) - 1
         /\ \A i \in 1..Len(Tail(ticks)) : Tail(ticks)[i] = ticks[i + 1]
         /\ Head(ticks) = ticks[1] /\ Head(ticks) \in HTicks
BY HeadTailProperties, LenProperties, EmptySeq

LEMMA FirstPut ==
  ASSUME NEW ticks \in Seq(HTicks), NEW t \in HTicks, NEW r \in Nat, FirstIs(ticks, r), t # Asked(r)
  PROVE  FirstIs(Append(ticks, t), r)
<1> DEFINE n == Len(ticks)
           app == Append(ticks, t)
<1>1. /\ n \in Nat /\ Len(app) = n + 1 /\ app[n + 1] = t /\ \A i \in 1..n : app[i] = ticks[i]
  BY TickAt
<1> HIDE DEF app
<1>2. PICK p \in 1..n :
        /\ ticks[p] = Asked(r)
        /\ \A i \in 1..n : ticks[i].r = r /\ ticks[i].op # "closed" => i >= p /\ (i > p => ticks[i].op # "request")
  BY DEF FirstIs
<1>3. t.r = r => t.op # "request"
  BY DEF HTicks, Asked, HTick
<1>4. p \in 1..Len(app) /\ app[p] = Asked(r)
  BY <1>1, <1>2
<1>5. ASSUME NEW i \in 1..Len(app), app[i].r = r, app[i].op # "closed"
      PROVE  i >= p /\ (i > p => app[i].op # "request")
  <2>1. CASE i \in 1..n
    BY <1>1, <1>2, <1>5, <2>1
  <2>2. CASE i = n + 1
    BY <1>1, <1>2, <1>3, <1>5, <2>2
  <2>3. QED BY <1>1, <2>1, <2>2
<1>6. FirstIs(app, r)
  BY <1>4, <1>5 DEF FirstIs
<1>7. QED BY <1>6 DEF app

LEMMA FirstRuns ==
  ASSUME NEW ticks \in Seq(HTicks), ticks # <<>>, NEW r \in Nat, FirstIs(ticks, r)
  PROVE  \/ Head(ticks) = Asked(r) /\ ~Has(Tail(ticks), Asked(r))
         \/ (Head(ticks).r = r => Head(ticks).op = "closed") /\ FirstIs(Tail(ticks), r)
<1> DEFINE n == Len(ticks)
           rest == Tail(ticks)
<1>1. /\ n \in Nat /\ n > 0 /\ Len(rest) = n - 1 /\ Head(ticks) = ticks[1]
      /\ \A i \in 1..Len(rest) : rest[i] = ticks[i + 1]
  BY RestAt
<1> HIDE DEF rest
<1>2. PICK p \in 1..n :
        /\ ticks[p] = Asked(r)
        /\ \A i \in 1..n : ticks[i].r = r /\ ticks[i].op # "closed" => i >= p /\ (i > p => ticks[i].op # "request")
  BY DEF FirstIs
<1>3. Asked(r).op = "request" /\ Asked(r).r = r
  BY DEF Asked, HTick
<1>4. CASE p = 1
  <2>1. ASSUME NEW i \in 1..Len(rest), rest[i] = Asked(r) PROVE FALSE
    <3>1. i + 1 \in 1..n /\ ticks[i + 1] = Asked(r) /\ i + 1 > p
      BY <1>1, <1>4, <2>1
    <3>2. QED BY <1>2, <1>3, <3>1
  <2>2. ~Has(rest, Asked(r))
    BY <2>1 DEF Has
  <2>3. QED BY <1>1, <1>2, <1>4, <2>2 DEF rest
<1>5. CASE p # 1
  <2>1. 1 \in 1..n /\ ~(1 >= p)
    BY <1>1, <1>2, <1>5
  <2>2. Head(ticks).r = r => Head(ticks).op = "closed"
    BY <1>1, <1>2, <2>1
  <2>3. p - 1 \in 1..Len(rest) /\ rest[p - 1] = Asked(r)
    <3>1. p - 1 \in 1..Len(rest) /\ (p - 1) + 1 = p
      BY <1>1, <1>2, <1>5
    <3>2. QED BY <1>1, <1>2, <3>1
  <2>4. ASSUME NEW i \in 1..Len(rest), rest[i].r = r, rest[i].op # "closed"
        PROVE  i >= p - 1 /\ (i > p - 1 => rest[i].op # "request")
    <3>1. i + 1 \in 1..n /\ rest[i] = ticks[i + 1]
      BY <1>1
    <3>2. i + 1 >= p /\ (i + 1 > p => rest[i].op # "request")
      BY <1>2, <2>4, <3>1
    <3>3. QED BY <3>2
  <2>5. FirstIs(rest, r)
    BY <2>3, <2>4, Zenon DEF FirstIs
  <2>6. QED BY <2>2, <2>5 DEF rest
<1>6. QED BY <1>4, <1>5

\* A tick of a request behind 'request' finds it heard.
LEMMA StartedFirst ==
  ASSUME NEW x \in Requests, NEW ticks \in Seq(HTicks), ticks # <<>>, NEW r \in Nat, Begun(x, ticks, r),
         Head(ticks).r = r, Head(ticks).op \notin {"closed", "request"}
  PROVE  Started(x)
<1>1. CASE Started(x)
  BY <1>1
<1>2. CASE FirstIs(ticks, r)
  <2>1. Head(ticks) # Asked(r)
    BY DEF Asked, HTick
  <2>2. QED BY <1>2, <2>1, FirstRuns
<1>3. QED BY <1>1, <1>2 DEF Begun

LEMMA StartedMore ==
  ASSUME NEW x \in Requests, Started(x), NEW y \in Requests,
         NEW more \in Seq({"data", "end", "finish"}), y.heard = x.heard \o more
  PROVE  Started(y)
<1>1. x.heard \in Seq(ReqEvents) /\ more \in Seq(ReqEvents) /\ Len(x.heard) \in Nat /\ Len(x.heard) > 0
  <2>1. x.heard \in Seq(ReqEvents)
    BY DEF Requests
  <2>2. more \in Seq(ReqEvents)
    BY SeqMonotonic DEF ReqEvents
  <2>3. QED BY <2>1, <2>2, LenProperties, EmptySeq DEF Started
<1>2. /\ Len(more) \in Nat /\ \A i \in 1..Len(more) : more[i] # "request"
  <2>1. \A i \in 1..Len(more) : more[i] \in {"data", "end", "finish"}
    BY ElementOfSeq
  <2>2. QED BY <2>1, LenProperties, Zenon
<1>3. /\ Len(y.heard) = Len(x.heard) + Len(more)
      /\ \A i \in 1..(Len(x.heard) + Len(more)) :
           y.heard[i] = IF i <= Len(x.heard) THEN x.heard[i] ELSE more[i - Len(x.heard)]
  BY <1>1, ConcatProperties
<1> DEFINE a == Len(x.heard)
           b == Len(more)
<1>4. a \in Nat /\ a > 0 /\ b \in Nat /\ Len(y.heard) = a + b
  BY <1>1, <1>2, <1>3
<1>5. /\ \A i \in 1..(a + b) : y.heard[i] = IF i <= a THEN x.heard[i] ELSE more[i - a]
      /\ \A i \in 1..b : more[i] # "request"
      /\ x.heard[1] = "request" /\ \A i \in 2..a : x.heard[i] # "request"
  BY <1>2, <1>3 DEF Started
<1> HIDE DEF a, b
<1>6. y.heard[1] = "request"
  BY <1>4, <1>5
<1>7. ASSUME NEW i \in 2..(a + b) PROVE y.heard[i] # "request"
  <2>1. CASE i <= a
    BY <1>4, <1>5, <2>1
  <2>2. CASE i > a
    <3>1. i - a \in 1..b
      BY <1>4, <2>2
    <3>2. i \in 1..(a + b) /\ ~(i <= a)
      BY <1>4, <2>2
    <3>3. y.heard[i] = more[i - a]
      BY <1>5, <3>2, Zenon
    <3>4. QED BY <1>5, <3>1, <3>3
  <2>3. QED BY <1>4, <2>1, <2>2
<1>8. y.heard # <<>>
  <2>1. Len(<<>>) = 0
    BY EmptySeq
  <2>2. Len(y.heard) > 0
    BY <1>4
  <2>3. QED BY <2>1, <2>2
<1>9. QED BY <1>4, <1>6, <1>7, <1>8 DEF Started

\* A tick about something else keeps everything as it is.
LEMMA OverPut ==
  ASSUME NEW x \in Requests, NEW ticks \in Seq(HTicks), NEW t \in HTicks, NEW r \in Nat,
         BodyEnd(x, ticks, r), t # Chunk(r), t # Over(r)
  PROVE  BodyEnd(x, Append(ticks, t), r)
<1> DEFINE n == Len(ticks)
           app == Append(ticks, t)
<1>1. /\ n \in Nat /\ Len(app) = n + 1 /\ app[n + 1] = t /\ \A i \in 1..n : app[i] = ticks[i]
  BY TickAt
<1>2. /\ Has(app, Chunk(r)) <=> Has(ticks, Chunk(r))
      /\ Has(app, Over(r)) <=> Has(ticks, Over(r))
  BY HasAppend
<1> HIDE DEF app
<1>3. ASSUME EndTicks(x, ticks, r) PROVE EndTicks(x, app, r)
  <2>1. PICK p \in 1..n :
          /\ ticks[p] = Over(r)
          /\ \A i \in 1..n : ticks[i] \in {Chunk(r), Over(r)} => i <= p /\ (i < p => ticks[i] = Chunk(r))
    BY <1>3 DEF EndTicks
  <2>2. p \in 1..Len(app) /\ app[p] = Over(r)
    BY <1>1, <2>1
  <2>3. ASSUME NEW i \in 1..Len(app), app[i] \in {Chunk(r), Over(r)}
        PROVE  i <= p /\ (i < p => app[i] = Chunk(r))
    <3>1. i \in 1..n /\ app[i] = ticks[i]
      BY <1>1, <2>3
    <3>2. QED BY <2>1, <2>3, <3>1
  <2>4. QED BY <1>3, <2>2, <2>3 DEF EndTicks
<1>4. BodyEnd(x, app, r)
  BY <1>2, <1>3 DEF BodyEnd, EndPumps, EndWaits, EndHeard
<1>5. QED BY <1>4 DEF app

LEMMA OverRest ==
  ASSUME NEW x \in Requests, NEW ticks \in Seq(HTicks), ticks # <<>>, NEW r \in Nat,
         EndTicks(x, ticks, r), Head(ticks) # Over(r)
  PROVE  EndTicks(x, Tail(ticks), r)
<1> DEFINE n == Len(ticks)
           rest == Tail(ticks)
<1>1. /\ n \in Nat /\ n > 0 /\ Len(rest) = n - 1 /\ Head(ticks) = ticks[1]
      /\ \A i \in 1..Len(rest) : rest[i] = ticks[i + 1]
  BY RestAt
<1> HIDE DEF rest
<1>2. PICK p \in 1..n :
        /\ ticks[p] = Over(r)
        /\ \A i \in 1..n : ticks[i] \in {Chunk(r), Over(r)} => i <= p /\ (i < p => ticks[i] = Chunk(r))
  BY DEF EndTicks
<1>3. p - 1 \in 1..Len(rest) /\ rest[p - 1] = Over(r)
  <2>1. p # 1
    BY <1>1, <1>2
  <2>2. p - 1 \in 1..Len(rest) /\ (p - 1) + 1 = p
    BY <1>1, <2>1
  <2>3. QED BY <1>1, <1>2, <2>2
<1>4. ASSUME NEW i \in 1..Len(rest), rest[i] \in {Chunk(r), Over(r)}
      PROVE  i <= p - 1 /\ (i < p - 1 => rest[i] = Chunk(r))
  <2>1. i + 1 \in 1..n /\ rest[i] = ticks[i + 1]
    BY <1>1
  <2>2. i + 1 <= p /\ (i + 1 < p => rest[i] = Chunk(r))
    BY <1>2, <1>4, <2>1
  <2>3. QED BY <2>2
<1>5. EndTicks(x, rest, r)
  BY <1>3, <1>4, Zenon DEF EndTicks
<1>6. QED BY <1>5 DEF rest

LEMMA OverRuns ==
  ASSUME NEW x \in Requests, NEW ticks \in Seq(HTicks), ticks # <<>>, NEW r \in Nat,
         BodyEnd(x, ticks, r), Head(ticks) # Over(r)
  PROVE  BodyEnd(x, Tail(ticks), r)
<1>1. /\ Has(Tail(ticks), Chunk(r)) => Has(ticks, Chunk(r))
      /\ Has(Tail(ticks), Over(r)) => Has(ticks, Over(r))
  BY HasTail
<1>2. EndTicks(x, ticks, r) => EndTicks(x, Tail(ticks), r)
  BY OverRest
<1>3. QED BY <1>1, <1>2 DEF BodyEnd, EndPumps, EndWaits, EndHeard

\* The tick of 'end' is the only one, and the chunks have come.
LEMMA OverComes ==
  ASSUME NEW x \in Requests, NEW ticks \in Seq(HTicks), ticks # <<>>, NEW r \in Nat,
         BodyEnd(x, ticks, r), Head(ticks) = Over(r)
  PROVE  /\ ~x.pumping /\ ~x.bodyEnded /\ ~Has(x.heard, "end")
         /\ ~Has(Tail(ticks), Over(r)) /\ ~Has(Tail(ticks), Chunk(r))
<1> DEFINE n == Len(ticks)
           rest == Tail(ticks)
<1>1. /\ n \in Nat /\ n > 0 /\ Len(rest) = n - 1 /\ Head(ticks) = ticks[1]
      /\ \A i \in 1..Len(rest) : rest[i] = ticks[i + 1]
  BY RestAt
<1>2. Has(ticks, Over(r))
  BY <1>1 DEF Has
<1>3. EndTicks(x, ticks, r)
  BY <1>2 DEF BodyEnd, EndPumps, EndWaits, EndHeard
<1> HIDE DEF rest
<1>4. PICK p \in 1..n :
        /\ ticks[p] = Over(r)
        /\ \A i \in 1..n : ticks[i] \in {Chunk(r), Over(r)} => i <= p /\ (i < p => ticks[i] = Chunk(r))
  BY <1>3 DEF EndTicks
<1>5. p = 1
  <2>1. 1 \in 1..n /\ (1 < p => ticks[1] = Chunk(r))
    BY <1>1, <1>4
  <2>2. QED BY <1>1, <1>4, <2>1, TicksDiffer
<1>6. ASSUME NEW i \in 1..Len(rest), rest[i] \in {Chunk(r), Over(r)} PROVE FALSE
  <2>1. i + 1 \in 1..n /\ ticks[i + 1] \in {Chunk(r), Over(r)}
    BY <1>1, <1>6
  <2>2. i + 1 <= 1
    BY <1>4, <1>5, <2>1
  <2>3. QED BY <2>2
<1>7. ~Has(rest, Over(r)) /\ ~Has(rest, Chunk(r))
  BY <1>6 DEF Has
<1>8. QED BY <1>3, <1>7 DEF EndTicks, rest

LEMMA CountsTyped ==
  ASSUME NEW x \in Requests, NEW ticks \in Seq(HTicks), NEW r \in Nat
  PROVE  /\ Tally(x.heard, "data") \in Nat /\ Tally(ticks, Chunk(r)) \in Nat
         /\ x.chunks \in Nat /\ x.left \in Nat /\ x.heard \in Seq(ReqEvents)
<1>1. x.chunks \in Nat /\ x.left \in Nat /\ x.heard \in Seq(ReqEvents)
  BY DEF Requests
<1>2. QED BY <1>1, SpotsFinite

LEMMA EventsPut ==
  ASSUME NEW x \in Requests, NEW ticks \in Seq(HTicks), NEW t \in HTicks, NEW r \in Nat,
         EventsOK(x, ticks, r), t \notin {Asked(r), Chunk(r), Over(r), Finished(r)}
  PROVE  EventsOK(x, Append(ticks, t), r)
<1>1. /\ Has(Append(ticks, t), Asked(r)) <=> Has(ticks, Asked(r))
      /\ Has(Append(ticks, t), Finished(r)) <=> Has(ticks, Finished(r))
      /\ Tally(Append(ticks, t), Chunk(r)) = Tally(ticks, Chunk(r)) + 0
  BY HasAppend, TallyAppend
<1>2. Begun(x, Append(ticks, t), r)
  BY <1>1, FirstPut DEF EventsOK, Begun
<1>3. Tally(ticks, Chunk(r)) + 0 = Tally(ticks, Chunk(r))
  BY CountsTyped
<1>4. Pumped(x, Append(ticks, t), r)
  BY <1>1, <1>3 DEF EventsOK, Pumped
<1>5. BodyEnd(x, Append(ticks, t), r)
  BY OverPut DEF EventsOK
<1>6. FinishOK(x, Append(ticks, t), r)
  BY <1>1 DEF EventsOK, FinishOK
<1>7. QED BY <1>2, <1>4, <1>5, <1>6 DEF EventsOK

LEMMA EventsRun ==
  ASSUME NEW x \in Requests, NEW ticks \in Seq(HTicks), ticks # <<>>, NEW r \in Nat,
         EventsOK(x, ticks, r), Head(ticks) \notin {Asked(r), Chunk(r), Over(r), Finished(r)}
  PROVE  EventsOK(x, Tail(ticks), r)
<1>1. /\ Has(Tail(ticks), Asked(r)) <=> Has(ticks, Asked(r))
      /\ Has(Tail(ticks), Finished(r)) <=> Has(ticks, Finished(r))
      /\ Tally(ticks, Chunk(r)) = 0 + Tally(Tail(ticks), Chunk(r))
  BY HasTail, TallyTail
<1>2. Begun(x, Tail(ticks), r)
  BY <1>1, FirstRuns DEF EventsOK, Begun
<1>3. 0 + Tally(Tail(ticks), Chunk(r)) = Tally(Tail(ticks), Chunk(r))
  <2>1. Tail(ticks) \in Seq(HTicks)
    BY RestAt
  <2>2. Tally(Tail(ticks), Chunk(r)) \in Nat
    BY <2>1, CountsTyped, Zenon
  <2>3. QED BY <2>2
<1>4. Pumped(x, Tail(ticks), r)
  BY <1>1, <1>3 DEF EventsOK, Pumped
<1>5. BodyEnd(x, Tail(ticks), r)
  BY OverRuns DEF EventsOK
<1>6. FinishOK(x, Tail(ticks), r)
  BY <1>1 DEF EventsOK, FinishOK
<1>7. QED BY <1>2, <1>4, <1>5, <1>6 DEF EventsOK

LEMMA SameEvents ==
  ASSUME NEW x \in Requests, NEW ticks, NEW r, EventsOK(x, ticks, r),
         NEW y \in Requests, y.heard = x.heard, y.chunks = x.chunks, y.left = x.left,
         y.bodyEnded = x.bodyEnded, y.pumping = x.pumping, y.done = x.done
  PROVE  EventsOK(y, ticks, r)
BY DEF EventsOK, Begun, Started, Pumped, BodyEnd, EndPumps, EndTicks, EndWaits, EndHeard, FinishOK

\* What Flush leaves of a request.
LEMMA FlushTypes ==
  ASSUME NEW x \in Requests
  PROVE  /\ Flush(x) \in Requests
         /\ \/ Flush(x) = x
            \/ /\ Flush(x).chunks = 0 /\ ~Flush(x).bodyEnded
               /\ Flush(x).heard = x.heard \o [i \in 1..x.chunks |-> "data"]
                                    \o (IF x.bodyEnded THEN <<"end">> ELSE <<>>)
         /\ Flush(x).srv = x.srv /\ Flush(x).done = x.done /\ Flush(x).cut = x.cut
         /\ Flush(x).stalled = x.stalled /\ Flush(x).writeCh = x.writeCh /\ Flush(x).headersSent = x.headersSent
         /\ Flush(x).ended = x.ended /\ Flush(x).said = x.said /\ Flush(x).wire = x.wire
         /\ Flush(x).left = x.left /\ Flush(x).pumping = x.pumping /\ Flush(x).complete = x.complete
         /\ Flush(x).resumed = x.resumed /\ Flush(x).listener = x.listener
<1> DEFINE more == [i \in 1..x.chunks |-> "data"]
           last == IF x.bodyEnded THEN <<"end">> ELSE <<>>
<1>1. x.heard \in Seq(ReqEvents) /\ x.chunks \in Nat
  BY DEF Requests
<1>2. more \in Seq(ReqEvents)
  <2>1. \A i \in 1..x.chunks : "data" \in ReqEvents
    BY DEF ReqEvents
  <2>2. QED BY <1>1, <2>1, IsASeq
<1>3. last \in Seq(ReqEvents)
  <2>1. <<"end">> \in Seq(ReqEvents) /\ <<>> \in Seq(ReqEvents)
    BY EmptySeq DEF ReqEvents
  <2>2. QED BY <2>1
<1> HIDE DEF more, last
<1>4. x.heard \o more \o last \in Seq(ReqEvents)
  BY <1>1, <1>2, <1>3, ConcatProperties
<1>5. CASE x.listener \/ x.resumed
  <2>1. Flush(x) = [x EXCEPT !.chunks = 0, !.bodyEnded = FALSE, !.heard = x.heard \o more \o last]
    BY <1>5 DEF Flush, more, last
  <2> DEFINE h == x.heard \o more \o last
  <2> HIDE DEF h
  <2>2. Flush(x) = [x EXCEPT !.chunks = 0, !.bodyEnded = FALSE, !.heard = h] /\ h \in Seq(ReqEvents)
    BY <1>4, <2>1 DEF h
  <2> DEFINE y == Flush(x)
  <2>0. y = [x EXCEPT !.chunks = 0, !.bodyEnded = FALSE, !.heard = h] /\ h \in Seq(ReqEvents)
    BY <2>2
  <2> HIDE DEF y
  <2>3. y \in Requests
    BY <2>0, Zenon DEF Requests
  <2>4. /\ y.chunks = 0 /\ y.bodyEnded = FALSE /\ y.heard = h
        /\ y.srv = x.srv /\ y.done = x.done /\ y.cut = x.cut
        /\ y.stalled = x.stalled /\ y.writeCh = x.writeCh /\ y.headersSent = x.headersSent
        /\ y.ended = x.ended /\ y.said = x.said /\ y.wire = x.wire
        /\ y.left = x.left /\ y.pumping = x.pumping /\ y.complete = x.complete
        /\ y.resumed = x.resumed /\ y.listener = x.listener
    BY <2>0 DEF Requests
  <2>5. QED BY <2>3, <2>4 DEF h, y, more, last
<1>6. CASE ~(x.listener \/ x.resumed)
  BY <1>6 DEF Flush
<1>7. QED BY <1>5, <1>6, Zenon

\* Chunks that wait are heard, and then the end.
LEMMA FlushKeeps ==
  ASSUME NEW x \in Requests, NEW ticks \in Seq(HTicks), NEW r \in Nat, EventsOK(x, ticks, r), Started(x)
  PROVE  EventsOK(Flush(x), ticks, r)
<1> DEFINE y == Flush(x)
           more == [i \in 1..x.chunks |-> "data"]
           last == IF x.bodyEnded THEN <<"end">> ELSE <<>>
           new == more \o last
           D == {"data", "end", "finish"}
<1>1. /\ y \in Requests
      /\ y = x \/ (y.chunks = 0 /\ ~y.bodyEnded /\ y.heard = x.heard \o more \o last)
      /\ y.left = x.left /\ y.pumping = x.pumping /\ y.done = x.done
  <2>1. Flush(x) \in Requests
    BY FlushTypes, Zenon
  <2>2. \/ Flush(x) = x
        \/ Flush(x).chunks = 0 /\ ~Flush(x).bodyEnded /\ Flush(x).heard = x.heard \o more \o last
    BY FlushTypes, Zenon
  <2>3. Flush(x).left = x.left /\ Flush(x).pumping = x.pumping /\ Flush(x).done = x.done
    BY FlushTypes, Zenon
  <2> HIDE DEF more, last
  <2>4. QED BY <2>1, <2>2, <2>3
<1>2. x.heard \in Seq(ReqEvents) /\ x.chunks \in Nat /\ Tally(x.heard, "data") \in Nat
  BY CountsTyped
<1>3. more \in Seq(D) /\ last \in Seq(D) /\ more \in Seq(ReqEvents) /\ last \in Seq(ReqEvents)
  <2>1. more \in Seq(D)
    BY <1>2, IsASeq
  <2>2. <<"end">> \in Seq(D) /\ <<>> \in Seq(D)
    BY EmptySeq
  <2>3. last \in Seq(D)
    BY <2>2, Zenon
  <2>4. D \subseteq ReqEvents
    BY DEF ReqEvents
  <2> HIDE DEF more, last, D
  <2>5. QED BY <2>1, <2>3, <2>4, SeqMonotonic
<1>4. /\ Tally(more, "data") = x.chunks /\ ~Has(more, "end") /\ ~Has(more, "finish")
  <2>1. Tally(more, "data") = x.chunks
    BY <1>2, TallyAll, Zenon
  <2>2. QED BY <2>1, <1>2, LenProperties DEF Has
<1>5. /\ Tally(last, "data") = 0 /\ ~Has(last, "finish")
      /\ Has(last, "end") <=> x.bodyEnded
  <2>1. CASE x.bodyEnded
    <3>1. last = <<"end">>
      BY <2>1
    <3>2. Tally(<<"end">>, "data") = 0
      BY TallyOne
    <3> HIDE DEF last
    <3>3. Len(last) = 1 /\ last[1] = "end"
      BY <3>1
    <3>4. QED BY <2>1, <3>1, <3>2, <3>3 DEF Has
  <2>2. CASE ~x.bodyEnded
    <3>1. last = <<>> /\ Len(<<>>) = 0
      BY <2>2, EmptySeq
    <3>2. Tally(<<>>, "data") = 0
      BY TallyEmpty
    <3> HIDE DEF last
    <3>3. ~Has(last, "end") /\ ~Has(last, "finish")
      BY <3>1 DEF Has
    <3>4. QED BY <2>2, <3>1, <3>2, <3>3
  <2>3. x.bodyEnded \in BOOLEAN
    BY DEF Requests
  <2>4. QED BY <2>1, <2>2, <2>3
<1> HIDE DEF y, more, last, D
<1>6. CASE y = x
  BY <1>6 DEF y
<1>7. CASE y # x
  <2>1. /\ new \in Seq(D) /\ new \in Seq(ReqEvents) /\ x.heard \o more \o last = x.heard \o new
    <3>1. \A a, b, d \in Seq(ReqEvents) : (a \o b) \o d = a \o (b \o d)
      BY ConcatAssociative, SMTT(20)
    <3>2. QED BY <1>2, <1>3, <3>1, ConcatProperties, Zenon
  <2>2. y.heard = x.heard \o new /\ y.chunks = 0 /\ ~y.bodyEnded
    BY <1>1, <1>7, <2>1, Zenon
  <2>3. /\ Tally(new, "data") = x.chunks + 0
        /\ Has(new, "end") <=> x.bodyEnded
        /\ ~Has(new, "finish")
    BY <1>3, <1>4, <1>5, TallyJoin, HasJoin
  <2>4. /\ Tally(y.heard, "data") = Tally(x.heard, "data") + (x.chunks + 0)
        /\ Has(y.heard, "end") <=> Has(x.heard, "end") \/ x.bodyEnded
        /\ Has(y.heard, "finish") <=> Has(x.heard, "finish")
    <3> HIDE DEF new
    <3>1. Tally(x.heard \o new, "data") = Tally(x.heard, "data") + Tally(new, "data")
      BY <1>2, <2>1, TallyJoin
    <3>2. /\ Has(x.heard \o new, "end") <=> Has(x.heard, "end") \/ Has(new, "end")
          /\ Has(x.heard \o new, "finish") <=> Has(x.heard, "finish") \/ Has(new, "finish")
      BY <1>2, <2>1, HasJoin
    <3>3. QED BY <2>2, <2>3, <3>1, <3>2
  <2> HIDE DEF new
  <2>5. Started(y)
    BY <1>1, <2>1, <2>2, StartedMore, Zenon DEF D
  <2>6. Begun(y, ticks, r)
    BY <2>5 DEF EventsOK, Begun, Started
  <2>7. Pumped(y, ticks, r)
    <3> DEFINE a == Tally(x.heard, "data")
               b == Tally(ticks, Chunk(r))
               c == Tally(y.heard, "data")
    <3>1. a \in Nat /\ b \in Nat /\ c = a + (x.chunks + 0) /\ a + x.chunks + b + x.left = BodyChunks
      BY <2>4, CountsTyped DEF EventsOK, Pumped
    <3>2. y.chunks = 0 /\ y.left = x.left /\ x.left \in Nat
      BY <1>1, <2>2, CountsTyped
    <3> HIDE DEF a, b, c
    <3>3. c + y.chunks + b + y.left = BodyChunks
      BY <1>2, <3>1, <3>2
    <3>4. QED BY <3>3 DEF a, b, c, Pumped
  <2>8. FinishOK(y, ticks, r)
    BY <1>1, <2>4 DEF EventsOK, FinishOK
  <2>9. BodyEnd(y, ticks, r)
    <3>1. CASE EndPumps(x, ticks, r) \/ EndTicks(x, ticks, r)
      <4>1. ~Has(y.heard, "end")
        BY <3>1, <2>4 DEF EndPumps, EndTicks
      <4>2. QED BY <1>1, <2>2, <3>1, <4>1 DEF BodyEnd, EndPumps, EndTicks
    <3>2. CASE EndWaits(x, ticks, r)
      <4>1. last = <<"end">>
        BY <3>2 DEF EndWaits, last
      <4>2. x.heard \o more \in Seq(ReqEvents) /\ y.heard = Append(x.heard \o more, "end")
        <5>1. x.heard \o more \in Seq(ReqEvents) /\ "end" \in ReqEvents
          BY <1>2, <1>3, ConcatProperties DEF ReqEvents
        <5>2. y.heard = (x.heard \o more) \o <<"end">>
          BY <1>1, <1>7, <4>1, Zenon
        <5>3. QED BY <5>1, <5>2, AppendIsConcat, Zenon
      <4> DEFINE h == x.heard \o more
      <4>3. ~Has(h, "end")
        BY <1>2, <1>3, <1>4, <3>2, HasJoin DEF EndWaits
      <4> HIDE DEF h
      <4>4. /\ Len(h) \in Nat /\ Len(y.heard) = Len(h) + 1 /\ y.heard[Len(h) + 1] = "end"
            /\ \A i \in 1..Len(h) : y.heard[i] = h[i]
        BY <4>2, AppendProperties, LenProperties DEF ReqEvents, h
      <4>5. \A i \in 1..Len(h) : y.heard[i] # "end"
        BY <4>3, <4>4 DEF Has
      <4>6. EndHeard(y, ticks, r)
        <5>1. Len(h) + 1 \in 1..Len(y.heard)
          BY <4>4
        <5>2. \A i \in 1..Len(y.heard) : ~(i > Len(h) + 1) /\ (y.heard[i] = "end" => i = Len(h) + 1)
          BY <4>4, <4>5
        <5>3. QED BY <1>1, <2>2, <3>2, <4>4, <5>1, <5>2, Zenon DEF EndHeard, EndWaits
      <4>7. QED BY <4>6 DEF BodyEnd
    <3>3. CASE EndHeard(x, ticks, r)
      <4>1. x.chunks = 0 /\ ~x.bodyEnded
        BY <3>3 DEF EndHeard
      <4>2. last = <<>> /\ more = <<>>
        <5>1. last = <<>>
          BY <4>1 DEF last
        <5>2. Len(more) = 0 /\ more \in Seq(ReqEvents)
          BY <1>3, <4>1, LenProperties DEF more
        <5>3. QED BY <5>1, <5>2, EmptySeq
      <4>3. y.heard = x.heard
        BY <1>1, <1>2, <1>7, <4>2, ConcatEmptySeq
      <4>4. QED BY <1>1, <2>2, <3>3, <4>1, <4>3 DEF BodyEnd, EndHeard
    <3>4. QED BY <3>1, <3>2, <3>3 DEF EventsOK, BodyEnd
  <2>10. EventsOK(y, ticks, r)
    BY <2>6, <2>7, <2>8, <2>9 DEF EventsOK
  <2>11. QED BY <2>10 DEF y
<1>8. QED BY <1>6, <1>7

\* pumpServerRequestBody: a chunk, or the end.
LEMMA PumpsChunk ==
  ASSUME NEW x \in Requests, NEW ticks \in Seq(HTicks), NEW r \in Nat, EventsOK(x, ticks, r),
         x.pumping, x.left > 0,
         NEW y \in Requests, y.heard = x.heard, y.chunks = x.chunks, y.left = x.left - 1,
         y.bodyEnded = x.bodyEnded, y.pumping = x.pumping, y.done = x.done
  PROVE  EventsOK(y, Append(ticks, Chunk(r)), r)
<1> DEFINE app == Append(ticks, Chunk(r))
<1>1. Chunk(r) \in HTicks
  BY DEF HTicks, Chunk, HTick
<1>2. /\ Has(app, Asked(r)) <=> Has(ticks, Asked(r))
      /\ Has(app, Finished(r)) <=> Has(ticks, Finished(r))
      /\ Has(app, Over(r)) <=> Has(ticks, Over(r))
      /\ Tally(app, Chunk(r)) = Tally(ticks, Chunk(r)) + 1
  BY <1>1, TicksDiffer, HasAppend, TallyAppend
<1>3. FirstIs(ticks, r) => FirstIs(app, r)
  BY <1>1, FirstPut, TicksDiffer
<1> HIDE DEF app
<1>4. Begun(y, app, r)
  BY <1>2, <1>3 DEF EventsOK, Begun, Started
<1>5. Pumped(y, app, r)
  <2> DEFINE a == Tally(x.heard, "data")
             b == Tally(ticks, Chunk(r))
             c == Tally(app, Chunk(r))
  <2>1. a \in Nat /\ b \in Nat /\ c = b + 1 /\ a + x.chunks + b + x.left = BodyChunks
    BY <1>2, CountsTyped DEF EventsOK, Pumped
  <2>2. x.chunks \in Nat /\ x.left \in Nat
    BY CountsTyped
  <2> HIDE DEF a, b, c
  <2>3. a + x.chunks + c + (x.left - 1) = BodyChunks
    BY <2>1, <2>2, SMTT(20)
  <2>4. QED BY <2>3 DEF a, c, Pumped
<1>6. EndPumps(y, app, r)
  BY <1>2 DEF EventsOK, BodyEnd, EndPumps, EndTicks, EndWaits, EndHeard
<1>7. FinishOK(y, app, r)
  BY <1>2 DEF EventsOK, FinishOK
<1>8. QED BY <1>4, <1>5, <1>6, <1>7 DEF EventsOK, BodyEnd, app

LEMMA PumpsEnd ==
  ASSUME NEW x \in Requests, NEW ticks \in Seq(HTicks), NEW r \in Nat, EventsOK(x, ticks, r),
         x.pumping,
         NEW y \in Requests, y.heard = x.heard, y.chunks = x.chunks, y.left = x.left,
         y.bodyEnded = x.bodyEnded, ~y.pumping, y.done = x.done
  PROVE  EventsOK(y, Append(ticks, Over(r)), r)
<1> DEFINE app == Append(ticks, Over(r))
           n == Len(ticks)
<1>1. Over(r) \in HTicks
  BY DEF HTicks, Over, HTick
<1>2. /\ Has(app, Asked(r)) <=> Has(ticks, Asked(r))
      /\ Has(app, Finished(r)) <=> Has(ticks, Finished(r))
      /\ Tally(app, Chunk(r)) = Tally(ticks, Chunk(r)) + 0
  BY <1>1, TicksDiffer, HasAppend, TallyAppend
<1>3. FirstIs(ticks, r) => FirstIs(app, r)
  BY <1>1, FirstPut, TicksDiffer
<1>4. /\ n \in Nat /\ Len(app) = n + 1 /\ app[n + 1] = Over(r) /\ \A i \in 1..n : app[i] = ticks[i]
  BY <1>1, TickAt
<1> HIDE DEF app
<1>5. Begun(y, app, r)
  BY <1>2, <1>3 DEF EventsOK, Begun, Started
<1>6. Pumped(y, app, r)
  <2>1. Tally(app, Chunk(r)) = Tally(ticks, Chunk(r))
    BY <1>2, CountsTyped
  <2>2. QED BY <2>1 DEF EventsOK, Pumped
<1>7. EndPumps(x, ticks, r)
  BY DEF EventsOK, BodyEnd, EndPumps, EndTicks, EndWaits, EndHeard
<1>8. EndTicks(y, app, r)
  <2>1. n + 1 \in 1..Len(app)
    BY <1>4
  <2>2. \A i \in 1..n : ticks[i] # Over(r)
    BY <1>7 DEF EndPumps, Has
  <2>3. ASSUME NEW i \in 1..Len(app), app[i] \in {Chunk(r), Over(r)}
        PROVE  i <= n + 1 /\ (i < n + 1 => app[i] = Chunk(r))
    BY <1>4, <2>2, <2>3
  <2>4. QED BY <1>4, <1>7, <2>1, <2>3 DEF EndTicks, EndPumps
<1>9. FinishOK(y, app, r)
  BY <1>2 DEF EventsOK, FinishOK
<1>10. QED BY <1>5, <1>6, <1>8, <1>9 DEF EventsOK, BodyEnd, app

\* The handler returns.
LEMMA HandlerReturns ==
  ASSUME NEW x \in Requests, NEW ticks \in Seq(HTicks), NEW r \in Nat, EventsOK(x, ticks, r),
         NEW y \in Requests, y.heard = x.heard, y.chunks = x.chunks, y.left = x.left,
         y.bodyEnded = x.bodyEnded, y.pumping = x.pumping, y.done
  PROVE  EventsOK(y, Append(ticks, Finished(r)), r)
<1> DEFINE app == Append(ticks, Finished(r))
<1>1. Finished(r) \in HTicks
  BY DEF HTicks, Finished, HTick
<1>2. /\ Has(app, Asked(r)) <=> Has(ticks, Asked(r))
      /\ Has(app, Finished(r))
      /\ Tally(app, Chunk(r)) = Tally(ticks, Chunk(r)) + 0
  BY <1>1, TicksDiffer, HasAppend, TallyAppend
<1>3. FirstIs(ticks, r) => FirstIs(app, r)
  BY <1>1, FirstPut, TicksDiffer
<1>4. BodyEnd(x, app, r)
  BY <1>1, TicksDiffer, OverPut DEF EventsOK
<1> HIDE DEF app
<1>5. Begun(y, app, r)
  BY <1>2, <1>3 DEF EventsOK, Begun, Started
<1>6. Pumped(y, app, r)
  <2>1. Tally(app, Chunk(r)) = Tally(ticks, Chunk(r))
    BY <1>2, CountsTyped
  <2>2. QED BY <2>1 DEF EventsOK, Pumped
<1>7. BodyEnd(y, app, r)
  BY <1>4 DEF BodyEnd, EndPumps, EndTicks, EndWaits, EndHeard
<1>8. FinishOK(y, app, r)
  BY <1>2 DEF FinishOK
<1>9. QED BY <1>5, <1>6, <1>7, <1>8 DEF EventsOK, app

\* A request that arrives.
LEMMA RequestArrives ==
  ASSUME NEW x \in Requests, NEW ticks \in Seq(HTicks), NEW r \in Nat,
         \A i \in 1..Len(ticks) : ticks[i].op # "closed" => ticks[i].r # r,
         x.heard = <<>>, x.chunks = 0, x.left = BodyChunks, ~x.bodyEnded, x.pumping, ~x.done
  PROVE  EventsOK(x, Append(ticks, Asked(r)), r)
<1> DEFINE app == Append(ticks, Asked(r))
           n == Len(ticks)
<1>1. Asked(r) \in HTicks /\ Asked(r).r = r
  BY DEF HTicks, Asked, HTick
<1>2. /\ n \in Nat /\ Len(app) = n + 1 /\ app[n + 1] = Asked(r) /\ \A i \in 1..n : app[i] = ticks[i]
  BY <1>1, TickAt
<1>3. \A i \in 1..n : ticks[i] \notin {Chunk(r), Over(r), Finished(r), Asked(r)}
  BY DEF Chunk, Over, Finished, Asked, HTick
<1>4. ~Has(ticks, Chunk(r)) /\ ~Has(ticks, Over(r)) /\ ~Has(ticks, Finished(r))
  BY <1>3 DEF Has
<1>5. ~Has(app, Chunk(r)) /\ ~Has(app, Over(r)) /\ ~Has(app, Finished(r)) /\ app \in Seq(HTicks)
  BY <1>1, <1>4, TicksDiffer, HasAppend, TickAt
<1> HIDE DEF app
<1>6. FirstIs(app, r)
  <2>1. n + 1 \in 1..Len(app)
    BY <1>2
  <2>2. ASSUME NEW i \in 1..Len(app), app[i].r = r, app[i].op # "closed"
        PROVE  i >= n + 1 /\ (i > n + 1 => app[i].op # "request")
    BY <1>2, <2>2
  <2>3. QED BY <1>2, <2>1, <2>2 DEF FirstIs
<1>7. Begun(x, app, r)
  BY <1>6 DEF Begun
<1>8. ~Has(x.heard, "end") /\ ~Has(x.heard, "finish") /\ Tally(x.heard, "data") = 0
  <2>1. Len(<<>>) = 0
    BY EmptySeq
  <2>2. QED BY <2>1, TallyEmpty DEF Has
<1>9. Tally(app, Chunk(r)) = 0
  BY <1>5, TallyZero
<1>10. Pumped(x, app, r)
  BY <1>8, <1>9, HttpServerAssumption DEF Pumped
<1>11. EndPumps(x, app, r)
  BY <1>5, <1>8 DEF EndPumps
<1>12. FinishOK(x, app, r)
  BY <1>5, <1>8 DEF FinishOK
<1>13. QED BY <1>7, <1>10, <1>11, <1>12 DEF EventsOK, BodyEnd, app

\* 'request' is emitted.
LEMMA HearsRequest ==
  ASSUME NEW x \in Requests, NEW ticks \in Seq(HTicks), ticks # <<>>, NEW r \in Nat,
         EventsOK(x, ticks, r), Head(ticks) = Asked(r),
         NEW y \in Requests, y.heard = Append(x.heard, "request"), y.chunks = x.chunks, y.left = x.left,
         y.bodyEnded = x.bodyEnded, y.pumping = x.pumping, y.done = x.done
  PROVE  EventsOK(y, Tail(ticks), r)
<1> DEFINE rest == Tail(ticks)
<1>1. Asked(r).op = "request" /\ Asked(r).r = r /\ rest \in Seq(HTicks)
  BY RestAt DEF Asked, HTick
<1>2. Has(ticks, Asked(r))
  BY HasTail
<1>3. x.heard = <<>> /\ ~Has(rest, Asked(r))
  BY <1>1, <1>2, FirstRuns DEF EventsOK, Begun
<1>4. /\ Has(rest, Finished(r)) <=> Has(ticks, Finished(r))
      /\ Tally(ticks, Chunk(r)) = 0 + Tally(rest, Chunk(r))
  BY TicksDiffer, HasTail, TallyTail
<1>5. BodyEnd(x, rest, r)
  BY TicksDiffer, OverRuns DEF EventsOK
<1>6. y.heard = <<"request">> /\ Len(y.heard) = 1 /\ y.heard[1] = "request" /\ y.heard # <<>>
  <2>1. Append(<<>>, "request") = <<"request">>
    OBVIOUS
  <2>2. y.heard = <<"request">>
    BY <1>3, <2>1
  <2>3. Len(<<"request">>) = 1 /\ <<"request">>[1] = "request" /\ <<"request">> # <<>>
    OBVIOUS
  <2>4. QED BY <2>2, <2>3, Zenon
<1>7. ~Has(y.heard, "end") /\ ~Has(y.heard, "finish") /\ Tally(y.heard, "data") = 0
  <2>1. Tally(<<"request">>, "data") = 0
    BY TallyOne
  <2>2. \A i \in 1..Len(y.heard) : y.heard[i] = "request"
    BY <1>6
  <2>3. ~Has(y.heard, "end") /\ ~Has(y.heard, "finish")
    BY <2>2 DEF Has
  <2>4. QED BY <1>6, <2>1, <2>3, Zenon
<1>8. ~Has(x.heard, "end") /\ ~Has(x.heard, "finish") /\ Tally(x.heard, "data") = 0
  <2>1. Len(<<>>) = 0
    BY EmptySeq
  <2>2. QED BY <1>3, <2>1, TallyEmpty DEF Has
<1> HIDE DEF rest
<1>9. Begun(y, rest, r)
  BY <1>3, <1>6 DEF Begun, Started
<1>10. Pumped(y, rest, r)
  <2> DEFINE b == Tally(ticks, Chunk(r))
             c == Tally(rest, Chunk(r))
  <2>1. b \in Nat /\ c \in Nat /\ b = 0 + c /\ 0 + x.chunks + b + x.left = BodyChunks
    BY <1>1, <1>4, <1>8, CountsTyped, Zenon DEF EventsOK, Pumped
  <2> HIDE DEF b, c
  <2>2. 0 + y.chunks + c + y.left = BodyChunks
    BY <2>1
  <2>3. QED BY <1>7, <2>2 DEF c, Pumped
<1>11. BodyEnd(y, rest, r)
  <2>1. ~EndHeard(x, rest, r)
    BY <1>8 DEF EndHeard, Has
  <2>2. QED BY <1>5, <1>7, <2>1 DEF BodyEnd, EndPumps, EndTicks, EndWaits
<1>12. FinishOK(y, rest, r)
  BY <1>4, <1>7, <1>8 DEF EventsOK, FinishOK
<1>13. QED BY <1>9, <1>10, <1>11, <1>12 DEF EventsOK, rest

\* 'finish' is emitted.
LEMMA HearsFinish ==
  ASSUME NEW x \in Requests, NEW ticks \in Seq(HTicks), ticks # <<>>, NEW r \in Nat,
         EventsOK(x, ticks, r), Head(ticks) = Finished(r),
         NEW y \in Requests, y.heard = Append(x.heard, "finish"), y.chunks = x.chunks, y.left = x.left,
         y.bodyEnded = x.bodyEnded, y.pumping = x.pumping, y.done = x.done
  PROVE  EventsOK(y, Tail(ticks), r)
<1> DEFINE rest == Tail(ticks)
           n == Len(x.heard)
<1>1. Finished(r).op = "finish" /\ Finished(r).r = r /\ rest \in Seq(HTicks)
  BY RestAt DEF Finished, HTick
<1>2. Started(x)
  BY <1>1, StartedFirst DEF EventsOK
<1>3. /\ x.heard \in Seq(ReqEvents) /\ "finish" \in ReqEvents
      /\ y.heard = x.heard \o <<"finish">> /\ <<"finish">> \in Seq({"data", "end", "finish"})
  <2>1. x.heard \in Seq(ReqEvents) /\ "finish" \in ReqEvents
    BY CountsTyped DEF ReqEvents
  <2>2. Append(x.heard, "finish") = x.heard \o <<"finish">>
    BY <2>1, AppendIsConcat
  <2>3. \A S : "finish" \in S => <<"finish">> \in Seq(S)
    OBVIOUS
  <2>4. QED BY <2>1, <2>2, <2>3
<1>4. Started(y)
  BY <1>2, <1>3, StartedMore, Zenon
<1>5. /\ Has(rest, Asked(r)) <=> Has(ticks, Asked(r))
      /\ Has(ticks, Finished(r))
      /\ Tally(ticks, Chunk(r)) = 0 + Tally(rest, Chunk(r))
  BY TicksDiffer, HasTail, TallyTail
<1>6. BodyEnd(x, rest, r)
  BY TicksDiffer, OverRuns DEF EventsOK
<1>7. /\ Has(y.heard, "end") <=> Has(x.heard, "end")
      /\ Has(y.heard, "finish")
      /\ Tally(y.heard, "data") = Tally(x.heard, "data") + 0
  BY <1>3, HasAppend, TallyAppend
<1>8. /\ n \in Nat /\ Len(y.heard) = n + 1 /\ y.heard[n + 1] = "finish"
      /\ \A i \in 1..n : y.heard[i] = x.heard[i]
  BY <1>3, AppendProperties, LenProperties
<1> HIDE DEF rest
<1>9. Begun(y, rest, r)
  <2>1. ~Has(ticks, Asked(r))
    BY <1>2 DEF EventsOK, Begun, Started
  <2>2. QED BY <1>4, <1>5, <2>1 DEF Begun
<1>10. Pumped(y, rest, r)
  <2> DEFINE a == Tally(x.heard, "data")
             b == Tally(ticks, Chunk(r))
             c == Tally(rest, Chunk(r))
             d == Tally(y.heard, "data")
  <2>1. a \in Nat /\ b \in Nat /\ c \in Nat /\ b = 0 + c /\ d = a + 0 /\ a + x.chunks + b + x.left = BodyChunks
    BY <1>1, <1>5, <1>7, CountsTyped DEF EventsOK, Pumped
  <2> HIDE DEF a, b, c, d
  <2>2. d + y.chunks + c + y.left = BodyChunks
    BY <2>1
  <2>3. QED BY <2>2 DEF c, d, Pumped
<1>11. BodyEnd(y, rest, r)
  <2>1. ASSUME EndHeard(x, rest, r) PROVE EndHeard(y, rest, r)
    <3>1. PICK p \in 1..n : x.heard[p] = "end" /\ \A i \in 1..n : (i > p => x.heard[i] = "finish")
                                                      /\ (x.heard[i] = "end" => i = p)
      BY <2>1 DEF EndHeard
    <3>2. p \in 1..Len(y.heard) /\ y.heard[p] = "end"
      BY <1>8, <3>1
    <3>3. ASSUME NEW i \in 1..Len(y.heard)
          PROVE  (i > p => y.heard[i] = "finish") /\ (y.heard[i] = "end" => i = p)
      <4>1. CASE i \in 1..n
        BY <1>8, <3>1, <4>1
      <4>2. CASE i = n + 1
        BY <1>8, <4>2
      <4>3. QED BY <1>8, <4>1, <4>2
    <3>4. QED BY <2>1, <3>2, <3>3 DEF EndHeard
  <2>2. QED BY <1>6, <1>7, <2>1 DEF BodyEnd, EndPumps, EndTicks, EndWaits
<1>12. FinishOK(y, rest, r)
  BY <1>5, <1>7 DEF EventsOK, FinishOK
<1>13. QED BY <1>9, <1>10, <1>11, <1>12 DEF EventsOK, rest

\* A chunk comes.
LEMMA ChunkComes ==
  ASSUME NEW x \in Requests, NEW ticks \in Seq(HTicks), ticks # <<>>, NEW r \in Nat,
         EventsOK(x, ticks, r), Head(ticks) = Chunk(r),
         NEW y \in Requests, y.heard = x.heard, y.chunks = x.chunks + 1, y.left = x.left,
         y.bodyEnded = x.bodyEnded, y.pumping = x.pumping, y.done = x.done
  PROVE  EventsOK(y, Tail(ticks), r) /\ Started(y)
<1> DEFINE rest == Tail(ticks)
<1>1. Chunk(r).op = "data" /\ Chunk(r).r = r /\ rest \in Seq(HTicks)
  BY RestAt DEF Chunk, HTick
<1>2. Started(x)
  BY <1>1, StartedFirst DEF EventsOK
<1>3. /\ Has(rest, Asked(r)) <=> Has(ticks, Asked(r))
      /\ Has(rest, Finished(r)) <=> Has(ticks, Finished(r))
      /\ Has(ticks, Chunk(r))
      /\ Has(rest, Over(r)) <=> Has(ticks, Over(r))
      /\ Tally(ticks, Chunk(r)) = 1 + Tally(rest, Chunk(r))
  BY TicksDiffer, HasTail, TallyTail
<1>4. EndTicks(x, ticks, r) => EndTicks(x, rest, r)
  BY TicksDiffer, OverRest
<1> HIDE DEF rest
<1>5. Started(y)
  BY <1>2 DEF Started
<1>6. Begun(y, rest, r)
  BY <1>2, <1>3, <1>5 DEF EventsOK, Begun, Started
<1>7. Pumped(y, rest, r)
  <2> DEFINE a == Tally(x.heard, "data")
             b == Tally(ticks, Chunk(r))
             c == Tally(rest, Chunk(r))
             d == x.chunks
             l == x.left
  <2>1. /\ a \in Nat /\ b \in Nat /\ c \in Nat /\ b = 1 + c /\ a + d + b + l = BodyChunks
        /\ d \in Nat /\ l \in Nat /\ y.chunks = d + 1 /\ y.left = l
    BY <1>1, <1>3, CountsTyped DEF EventsOK, Pumped
  <2>2. Tally(y.heard, "data") = a
    OBVIOUS
  <2> HIDE DEF a, b, c, d, l
  <2>3. a + (d + 1) + c + l = BodyChunks
    BY <2>1
  <2>4. a + y.chunks + c + y.left = BodyChunks
    BY <2>1, <2>3, Zenon
  <2>5. QED BY <2>2, <2>4 DEF c, Pumped
<1>8. BodyEnd(y, rest, r)
  <2>1. EndPumps(x, ticks, r) \/ EndTicks(x, rest, r)
    BY <1>3, <1>4 DEF EventsOK, BodyEnd, EndWaits, EndHeard
  <2>2. QED BY <1>3, <2>1 DEF BodyEnd, EndPumps, EndTicks
<1>9. FinishOK(y, rest, r)
  BY <1>3 DEF EventsOK, FinishOK
<1>10. QED BY <1>5, <1>6, <1>7, <1>8, <1>9 DEF EventsOK, rest

\* The end comes.
LEMMA EndComes ==
  ASSUME NEW x \in Requests, NEW ticks \in Seq(HTicks), ticks # <<>>, NEW r \in Nat,
         EventsOK(x, ticks, r), Head(ticks) = Over(r),
         NEW y \in Requests, y.heard = x.heard, y.chunks = x.chunks, y.left = x.left,
         y.bodyEnded, y.pumping = x.pumping, y.done = x.done
  PROVE  EventsOK(y, Tail(ticks), r) /\ Started(y)
<1> DEFINE rest == Tail(ticks)
<1>1. Over(r).op = "end" /\ Over(r).r = r /\ rest \in Seq(HTicks)
  BY RestAt DEF Over, HTick
<1>2. Started(x)
  BY <1>1, StartedFirst DEF EventsOK
<1>3. /\ Has(rest, Asked(r)) <=> Has(ticks, Asked(r))
      /\ Has(rest, Finished(r)) <=> Has(ticks, Finished(r))
      /\ Tally(ticks, Chunk(r)) = 0 + Tally(rest, Chunk(r))
  BY TicksDiffer, HasTail, TallyTail
<1>4. /\ ~x.pumping /\ ~x.bodyEnded /\ ~Has(x.heard, "end")
      /\ ~Has(rest, Over(r)) /\ ~Has(rest, Chunk(r))
  BY OverComes DEF EventsOK
<1> HIDE DEF rest
<1>5. Started(y)
  BY <1>2 DEF Started
<1>6. Begun(y, rest, r)
  BY <1>2, <1>3, <1>5 DEF EventsOK, Begun, Started
<1>7. Pumped(y, rest, r)
  <2> DEFINE a == Tally(x.heard, "data")
             b == Tally(ticks, Chunk(r))
             c == Tally(rest, Chunk(r))
  <2>1. a \in Nat /\ b \in Nat /\ c \in Nat /\ b = 0 + c /\ a + x.chunks + b + x.left = BodyChunks
    BY <1>1, <1>3, CountsTyped DEF EventsOK, Pumped
  <2> HIDE DEF a, b, c
  <2>2. a + y.chunks + c + y.left = BodyChunks
    BY <2>1
  <2>3. QED BY <2>2 DEF a, c, Pumped
<1>8. EndWaits(y, rest, r)
  BY <1>4 DEF EndWaits
<1>9. FinishOK(y, rest, r)
  BY <1>3 DEF EventsOK, FinishOK
<1>10. QED BY <1>5, <1>6, <1>7, <1>8, <1>9 DEF EventsOK, BodyEnd, rest

-----------------------------------------------------------------------------
(* HttpServer: the steps *)

\* The ticks but the first, and a tick more.
LEMMA TicksRun ==
  ASSUME NEW ticks \in Seq(HTicks), ticks # <<>>, NEW n \in Nat, TicksOK(ticks, n)
  PROVE  TicksOK(Tail(ticks), n)
<1> DEFINE rest == Tail(ticks)
<1>1. ASSUME NEW i \in 1..Len(rest) PROVE rest[i] = ticks[i + 1] /\ i + 1 \in 1..Len(ticks)
  BY RestAt
<1> HIDE DEF rest
<1>2. QED BY <1>1 DEF TicksOK, rest

LEMMA TicksPut ==
  ASSUME NEW ticks \in Seq(HTicks), NEW n \in Nat, TicksOK(ticks, n), NEW m \in Nat, n <= m, NEW t \in HTicks,
         \/ t.op \in {"error", "listening", "close"} /\ t.r = 0
         \/ t.op \in {"request", "data", "end", "finish", "flush"} /\ t.r \in 1..m
         \/ t.op = "closed"
  PROVE  TicksOK(Append(ticks, t), m)
<1> DEFINE more == Append(ticks, t)
           l == Len(ticks)
<1>1. /\ l \in Nat /\ Len(more) = l + 1 /\ more[l + 1] = t
      /\ \A i \in 1..l : more[i] = ticks[i]
  BY TickAt
<1> HIDE DEF more
<1>2. ASSUME NEW i \in 1..Len(more)
      PROVE  \/ more[i].op \in {"error", "listening", "close"} /\ more[i].r = 0
             \/ more[i].op \in {"request", "data", "end", "finish", "flush"} /\ more[i].r \in 1..m
             \/ more[i].op = "closed"
  <2>1. CASE i \in 1..l
    BY <1>1, <2>1 DEF TicksOK
  <2>2. CASE i = l + 1
    BY <1>1, <2>2
  <2>3. QED BY <1>1, <2>1, <2>2
<1> HIDE DEF l
<1>3. QED BY <1>2 DEF TicksOK, more

\* A tick that says nothing of a shutdown.
LEMMA ClosedPut ==
  ASSUME NEW s \in HServers, NEW reqs \in Seq(Requests), NEW ticks \in Seq(HTicks), ClosedOK(s, reqs, ticks),
         NEW t \in HTicks, t.op # "closed"
  PROVE  ClosedOK(s, reqs, Append(ticks, t))
<1> DEFINE more == Append(ticks, t)
           l == Len(ticks)
<1>1. /\ l \in Nat /\ Len(more) = l + 1 /\ more[l + 1] = t
      /\ \A i \in 1..l : more[i] = ticks[i]
  BY TickAt
<1> HIDE DEF more
<1>2. ASSUME NEW i \in 1..Len(more), more[i].op = "closed"
      PROVE  /\ more[i].r \in (1..s.goSrv) \ s.accepting
             /\ \A r \in 1..Len(reqs) : reqs[r].srv = more[i].r =>
                  \/ Has(reqs[r].heard, "finish")
                  \/ \E j \in 1..(i - 1) : more[j] = Finished(r)
  <2>1. i \in 1..l
    BY <1>1, <1>2
  <2>2. more[i] = ticks[i] /\ \A j \in 1..(i - 1) : j \in 1..l /\ more[j] = ticks[j]
    BY <1>1, <2>1
  <2>3. /\ ticks[i].r \in (1..s.goSrv) \ s.accepting
        /\ \A r \in 1..Len(reqs) : reqs[r].srv = ticks[i].r =>
             \/ Has(reqs[r].heard, "finish")
             \/ \E j \in 1..(i - 1) : ticks[j] = Finished(r)
    BY <1>2, <2>1, <2>2 DEF ClosedOK
  <2>4. ASSUME NEW r \in 1..Len(reqs), reqs[r].srv = more[i].r, ~Has(reqs[r].heard, "finish")
        PROVE  \E j \in 1..(i - 1) : more[j] = Finished(r)
    BY <2>2, <2>3, <2>4, Zenon
  <2>5. QED BY <2>2, <2>3, <2>4, Zenon
<1>3. QED BY <1>2, Zenon DEF ClosedOK, more

\* The first tick runs; if it is the 'finish' of a request, it is heard.
LEMMA ClosedRuns ==
  ASSUME NEW s \in HServers, NEW reqs \in Seq(Requests), NEW ticks \in Seq(HTicks), ticks # <<>>,
         ClosedOK(s, reqs, ticks),
         \A r \in 1..Len(reqs) : Head(ticks) = Finished(r) => Has(reqs[r].heard, "finish")
  PROVE  ClosedOK(s, reqs, Tail(ticks))
<1> DEFINE rest == Tail(ticks)
<1>1. /\ Len(rest) \in Nat /\ Head(ticks) = ticks[1]
      /\ \A i \in 1..Len(rest) : rest[i] = ticks[i + 1] /\ i + 1 \in 1..Len(ticks)
  BY RestAt
<1> HIDE DEF rest
<1>2. ASSUME NEW i \in 1..Len(rest), rest[i].op = "closed"
      PROVE  /\ rest[i].r \in (1..s.goSrv) \ s.accepting
             /\ \A r \in 1..Len(reqs) : reqs[r].srv = rest[i].r =>
                  \/ Has(reqs[r].heard, "finish")
                  \/ \E j \in 1..(i - 1) : rest[j] = Finished(r)
  <2>1. rest[i] = ticks[i + 1] /\ i + 1 \in 1..Len(ticks) /\ ticks[i + 1].op = "closed"
    BY <1>1, <1>2
  <2>2. ASSUME NEW r \in 1..Len(reqs), reqs[r].srv = rest[i].r, ~Has(reqs[r].heard, "finish")
        PROVE  \E j \in 1..(i - 1) : rest[j] = Finished(r)
    <3>1. PICK j \in 1..((i + 1) - 1) : ticks[j] = Finished(r)
      BY <2>1, <2>2 DEF ClosedOK
    <3>2. j # 1
      BY <1>1, <2>2, <3>1
    <3>3. j - 1 \in 1..(i - 1) /\ rest[j - 1] = ticks[j]
      <4>1. j - 1 \in 1..(i - 1) /\ j - 1 \in 1..Len(rest) /\ (j - 1) + 1 = j
        BY <1>1, <3>1, <3>2
      <4>2. QED BY <1>1, <4>1
    <3>4. QED BY <3>1, <3>3
  <2>3. QED BY <2>1, <2>2 DEF ClosedOK
<1>3. QED BY <1>2, Zenon DEF ClosedOK, rest

\* Requests that have heard no less.
LEMMA ClosedStays ==
  ASSUME NEW s, NEW reqs, NEW ticks, ClosedOK(s, reqs, ticks), NEW others, Len(others) = Len(reqs),
         \A r \in 1..Len(reqs) : /\ others[r].srv = reqs[r].srv
                                 /\ Has(reqs[r].heard, "finish") => Has(others[r].heard, "finish")
  PROVE  ClosedOK(s, others, ticks)
<1>1. ASSUME NEW i \in 1..Len(ticks), ticks[i].op = "closed"
      PROVE  /\ ticks[i].r \in (1..s.goSrv) \ s.accepting
             /\ \A r \in 1..Len(others) : others[r].srv = ticks[i].r =>
                  \/ Has(others[r].heard, "finish")
                  \/ \E j \in 1..(i - 1) : ticks[j] = Finished(r)
  BY <1>1 DEF ClosedOK
<1>2. ASSUME NEW i \in 1..Len(s.heard), s.heard[i].op = "closed"
      PROVE  /\ s.heard[i].r \in (1..s.goSrv) \ s.accepting
             /\ \A r \in 1..Len(others) : others[r].srv = s.heard[i].r => Has(others[r].heard, "finish")
  BY <1>2 DEF ClosedOK
<1>3. QED BY <1>1, <1>2 DEF ClosedOK

LEMMA EndingStays ==
  ASSUME NEW s, NEW reqs, EndingOK(s, reqs), NEW others, Len(others) = Len(reqs),
         \A r \in 1..Len(reqs) : others[r].srv = reqs[r].srv /\ (reqs[r].done => others[r].done)
  PROVE  EndingOK(s, others)
BY Zenon DEF EndingOK

\* A step about one request leaves the others what they are.
LEMMA OneChanges ==
  ASSUME NEW s, NEW reqs, NEW ticks, NEW w, HttpOK(s, reqs, ticks, w),
         NEW r \in 1..Len(reqs), NEW y \in Requests, y.srv = reqs[r].srv, y.heard = reqs[r].heard,
         NEW after, after = ticks \/ \E t \in HTicks : /\ after = Append(ticks, t) /\ t.r = r
                                                       /\ t.op \in {"data", "end", "finish", "flush"},
         NEW w2 \in [r : Nat, item : HItems], w2 = w \/ (w.r \in {0, r} /\ w2.r \in {0, r}),
         w2 = NoSend \/ w2.r \in 1..Len(reqs),
         RequestOK(y, after, r, w2)
  PROVE  HttpOK(s, [reqs EXCEPT ![r] = y], after, w2)
<1> DEFINE others == [reqs EXCEPT ![r] = y]
           n == Len(reqs)
<1>1. /\ reqs \in Seq(Requests) /\ ticks \in Seq(HTicks) /\ s \in HServers /\ n \in Nat
      /\ TicksOK(ticks, n) /\ ClosedOK(s, reqs, ticks) /\ EndingOK(s, reqs) /\ HoldOK(s)
      /\ \A j \in 1..n : RequestOK(reqs[j], ticks, j, w)
  BY LenProperties DEF HttpOK
<1>2. /\ others \in Seq(Requests) /\ Len(others) = n
      /\ \A j \in 1..n : others[j] = IF j = r THEN y ELSE reqs[j]
  BY <1>1, ExceptSeq
<1>3. \A j \in 1..n : reqs[j] \in Requests /\ j \in Nat
  BY <1>1, ElementOfSeq
<1> HIDE DEF others
<1>4. ClosedOK(s, others, ticks)
  BY <1>1, <1>2, ClosedStays, Zenon
<1>5. after \in Seq(HTicks) /\ TicksOK(after, n) /\ ClosedOK(s, others, after)
  <2>1. ASSUME NEW t \in HTicks, after = Append(ticks, t), t.r = r, t.op \in {"data", "end", "finish", "flush"}
        PROVE  after \in Seq(HTicks) /\ TicksOK(after, n) /\ ClosedOK(s, others, after)
    <3>1. t.op \in {"request", "data", "end", "finish", "flush"} /\ t.r \in 1..n /\ t.op # "closed" /\ n <= n
      BY <1>1, <2>1
    <3>2. TicksOK(after, n)
      BY <1>1, <2>1, <3>1, TicksPut
    <3>3. QED BY <1>1, <1>2, <1>4, <2>1, <3>1, <3>2, ClosedPut, TickAt
  <2>2. QED BY <1>1, <1>4, <2>1
<1>6. ASSUME NEW j \in 1..n PROVE RequestOK(others[j], after, j, w2)
  <2>1. CASE j = r
    BY <1>2, <2>1
  <2>2. CASE j # r
    <3>1. others[j] = reqs[j] /\ RequestOK(reqs[j], ticks, j, w)
      BY <1>1, <1>2, <2>2
    <3>2. Waiting(reqs[j], j, w2) = Waiting(reqs[j], j, w)
      BY <1>3, <2>2 DEF Waiting
    <3>3. EventsOK(reqs[j], after, j)
      <4>1. ASSUME NEW t \in HTicks, after = Append(ticks, t), t.r = r PROVE EventsOK(reqs[j], after, j)
        <5>1. t \notin {Asked(j), Chunk(j), Over(j), Finished(j)}
          BY <2>2, <4>1 DEF Asked, Chunk, Over, Finished, HTick
        <5>2. QED BY <1>1, <1>3, <3>1, <4>1, <5>1, EventsPut DEF RequestOK
      <4>2. QED BY <3>1, <4>1 DEF RequestOK
    <3>4. QED BY <3>1, <3>2, <3>3 DEF RequestOK
  <2>3. QED BY <2>1, <2>2
<1>7. reqs[r].done => y.done
  <2>1. FinishOK(reqs[r], ticks, r) /\ FinishOK(y, after, r)
    BY <1>1 DEF RequestOK, EventsOK
  <2>2. Has(ticks, Finished(r)) => Has(after, Finished(r))
    <3>1. ASSUME NEW t \in HTicks, after = Append(ticks, t) PROVE Has(ticks, Finished(r)) => Has(after, Finished(r))
      BY <1>1, <3>1, HasAppend
    <3>2. QED BY <3>1
  <2>3. QED BY <2>1, <2>2 DEF FinishOK
<1>8. EndingOK(s, others)
  <2>1. \A j \in 1..n : others[j].srv = reqs[j].srv /\ (reqs[j].done => others[j].done)
    BY <1>2, <1>7
  <2>2. QED BY <1>1, <1>2, <2>1, EndingStays, Zenon
<1>9. QED BY <1>1, <1>2, <1>5, <1>6, <1>8 DEF HttpOK, others

\* A request hears its tick.
LEMMA OneHears ==
  ASSUME NEW s, NEW reqs, NEW ticks, NEW w, HttpOK(s, reqs, ticks, w), ticks # <<>>,
         NEW r \in 1..Len(reqs), Head(ticks).r = r, Head(ticks).op # "closed",
         NEW y \in Requests, y.srv = reqs[r].srv,
         Has(reqs[r].heard, "finish") => Has(y.heard, "finish"),
         Head(ticks) = Finished(r) => Has(y.heard, "finish"),
         RequestOK(y, Tail(ticks), r, w)
  PROVE  HttpOK(s, [reqs EXCEPT ![r] = y], Tail(ticks), w)
<1> DEFINE others == [reqs EXCEPT ![r] = y]
           n == Len(reqs)
           rest == Tail(ticks)
<1>1. /\ reqs \in Seq(Requests) /\ ticks \in Seq(HTicks) /\ s \in HServers /\ n \in Nat
      /\ TicksOK(ticks, n) /\ ClosedOK(s, reqs, ticks) /\ EndingOK(s, reqs) /\ HoldOK(s)
      /\ \A j \in 1..n : RequestOK(reqs[j], ticks, j, w)
  BY LenProperties DEF HttpOK
<1>2. /\ others \in Seq(Requests) /\ Len(others) = n
      /\ \A j \in 1..n : others[j] = IF j = r THEN y ELSE reqs[j]
  BY <1>1, ExceptSeq
<1>3. \A j \in 1..n : reqs[j] \in Requests /\ j \in Nat
  BY <1>1, ElementOfSeq
<1> HIDE DEF others
<1>4. ClosedOK(s, others, ticks)
  BY <1>1, <1>2, ClosedStays
<1>5. \A j \in 1..Len(others) : Head(ticks) = Finished(j) => Has(others[j].heard, "finish")
  BY <1>2 DEF Finished, HTick
<1>6. rest \in Seq(HTicks) /\ TicksOK(rest, n) /\ ClosedOK(s, others, rest)
  BY <1>1, <1>2, <1>4, <1>5, TicksRun, ClosedRuns, RestAt
<1>7. ASSUME NEW j \in 1..n PROVE RequestOK(others[j], rest, j, w)
  <2>1. CASE j = r
    BY <1>2, <2>1
  <2>2. CASE j # r
    <3>1. others[j] = reqs[j] /\ RequestOK(reqs[j], ticks, j, w)
      BY <1>1, <1>2, <2>2
    <3>2. Head(ticks) \notin {Asked(j), Chunk(j), Over(j), Finished(j)}
      BY <2>2 DEF Asked, Chunk, Over, Finished, HTick
    <3>3. EventsOK(reqs[j], rest, j)
      BY <1>1, <1>3, <3>1, <3>2, EventsRun DEF RequestOK
    <3>4. QED BY <3>1, <3>3 DEF RequestOK
  <2>3. QED BY <2>1, <2>2
<1>8. reqs[r].done => y.done
  <2>1. FinishOK(reqs[r], ticks, r) /\ FinishOK(y, rest, r)
    BY <1>1 DEF RequestOK, EventsOK
  <2>2. Has(ticks, Finished(r)) => Has(rest, Finished(r)) \/ Head(ticks) = Finished(r)
    BY <1>1, HasTail
  <2>3. QED BY <2>1, <2>2 DEF FinishOK
<1>9. EndingOK(s, others)
  <2>1. \A j \in 1..n : others[j].srv = reqs[j].srv /\ (reqs[j].done => others[j].done)
    BY <1>2, <1>8
  <2>2. QED BY <1>1, <1>2, <2>1, EndingStays, Zenon
<1>10. QED BY <1>1, <1>2, <1>6, <1>7, <1>9 DEF HttpOK, others

\* A step of the server that adds at most a tick of its own.
LEMMA ServerSays ==
  ASSUME NEW s, NEW reqs, NEW ticks, NEW w, HttpOK(s, reqs, ticks, w),
         NEW after, \/ after = ticks
                    \/ \E t \in HTicks : /\ after = Append(ticks, t) /\ t.r = 0
                                         /\ t.op \in {"error", "listening", "close"},
         NEW s2 \in HServers, HoldOK(s2), s2.heard = s.heard, s2.goSrv >= s.goSrv,
         s2.accepting \subseteq 1..s2.goSrv, s2.shutting \subseteq 1..s2.goSrv,
         s2.accepting \cap 1..s.goSrv \subseteq s.accepting, s2.ending = s.ending \/ EndingOK(s2, reqs)
  PROVE  HttpOK(s2, reqs, after, w)
<1> DEFINE n == Len(reqs)
<1>1. /\ reqs \in Seq(Requests) /\ ticks \in Seq(HTicks) /\ s \in HServers /\ n \in Nat
      /\ TicksOK(ticks, n) /\ ClosedOK(s, reqs, ticks) /\ EndingOK(s, reqs) /\ HoldOK(s)
      /\ \A j \in 1..n : RequestOK(reqs[j], ticks, j, w)
      /\ s.goSrv \in Nat /\ s2.goSrv \in Nat
  BY LenProperties DEF HttpOK, HServers
<1>2. ClosedOK(s2, reqs, ticks)
  <2>1. ASSUME NEW m \in (1..s.goSrv) \ s.accepting PROVE m \in (1..s2.goSrv) \ s2.accepting
    BY <1>1
  <2>2. QED BY <1>1, <2>1, Zenon DEF ClosedOK
<1>e. EndingOK(s2, reqs)
  <2>1. ASSUME s2.ending = s.ending PROVE s2.ending \subseteq (1..s2.goSrv) \ s2.accepting
    BY <1>1, <2>1, SMTT(20) DEF EndingOK
  <2>2. QED BY <1>1, <2>1, Zenon DEF EndingOK
<1>3. CASE after = ticks
  BY <1>1, <1>2, <1>3, <1>e DEF HttpOK
<1>4. ASSUME NEW t \in HTicks, after = Append(ticks, t), t.r = 0, t.op \in {"error", "listening", "close"}
      PROVE  HttpOK(s2, reqs, after, w)
  <2>1. t.op # "closed" /\ n <= n
    BY <1>1, <1>4
  <2>2. after \in Seq(HTicks) /\ TicksOK(after, n) /\ ClosedOK(s2, reqs, after)
    BY <1>1, <1>2, <1>4, <2>1, TicksPut, ClosedPut, TickAt
  <2>3. ASSUME NEW j \in 1..n PROVE RequestOK(reqs[j], after, j, w)
    <3>1. reqs[j] \in Requests /\ j \in Nat
      BY <1>1, ElementOfSeq
    <3>2. t \notin {Asked(j), Chunk(j), Over(j), Finished(j)}
      BY <1>4 DEF Asked, Chunk, Over, Finished, HTick
    <3>3. QED BY <1>1, <1>4, <3>1, <3>2, EventsPut DEF RequestOK
  <2>4. QED BY <1>1, <1>e, <2>2, <2>3 DEF HttpOK
<1>5. QED BY <1>3, <1>4

LEMMA NoSendIs == NoSend.r = 0
BY DEF NoSend

LEMMA ServerTyped ==
  ASSUME HttpInv
  PROVE  /\ hs \in HServers /\ rq \in Seq(Requests) /\ hticks \in Seq(HTicks) /\ Len(rq) \in Nat
         /\ hsend \in [r : Nat, item : HItems] /\ (hsend = NoSend \/ hsend.r \in 1..Len(rq))
         /\ hs.goSrv \in Nat /\ hs.accepting \subseteq 1..hs.goSrv /\ hs.shutting \subseteq 1..hs.goSrv
         /\ HoldOK(hs) /\ EndingOK(hs, rq)
         /\ \A r \in 1..Len(rq) : rq[r] \in Requests /\ r \in Nat /\ RequestOK(rq[r], hticks, r, hsend)
  BY LenProperties, ElementOfSeq DEF HttpInv, HttpOK, HServers, ClosedOK

LEMMA HttpInit == HInit => HttpInv
<1> SUFFICES ASSUME HInit PROVE HttpInv
  OBVIOUS
<1>1. hs = NewHttpServer /\ rq = <<>> /\ hticks = <<>> /\ hsend = NoSend
  BY DEF HInit
<1>2. Len(<<>>) = 0 /\ \A S : <<>> \in Seq(S)
  BY EmptySeq
<1>3. hs \in HServers /\ HoldOK(hs)
  BY <1>1, <1>2 DEF NewHttpServer, HServers, HoldOK
<1>4. hsend \in [r : Nat, item : HItems]
  BY <1>1, <1>2 DEF NoSend, Item, HItems
<1>5. TicksOK(hticks, Len(rq))
  BY <1>1, <1>2 DEF TicksOK
<1>6. ClosedOK(hs, rq, hticks)
  BY <1>1, <1>2 DEF ClosedOK, NewHttpServer
<1>7. EndingOK(hs, rq)
  BY <1>1, <1>2 DEF EndingOK, NewHttpServer
<1>8. QED BY <1>1, <1>2, <1>3, <1>4, <1>5, <1>6, <1>7 DEF HttpInv, HttpOK

LEMMA DoListenStep == ASSUME HttpInv, DoListen PROVE HttpInv'
<1>1. rq' = rq /\ hsend' = hsend
  BY DEF DoListen
<1>2. CASE hticks' = Append(hticks, HTick("error", 0)) /\ hs' = hs
  <2>1. HTick("error", 0) \in HTicks /\ HTick("error", 0).r = 0 /\ HTick("error", 0).op = "error"
    BY DEF HTick, HTicks
  <2>2. hs.goSrv >= hs.goSrv
    BY ServerTyped
  <2>3. HttpOK(hs, rq, hticks', hsend)
    BY <1>2, <2>1, <2>2, ServerTyped, ServerSays, Zenon DEF HttpInv
  <2>4. QED BY <1>1, <1>2, <2>3 DEF HttpInv
<1>3. CASE /\ hs' = SetOp([hs EXCEPT !.goSrv = hs.goSrv + 1, !.accepting = @ \cup {hs.goSrv + 1}, !.listening = TRUE,
                              !.relisten = @ \/ hs.listening \/ hs.shutting # {}], ~hs.unrefed)
           /\ hticks' = Append(hticks, HTick("listening", 0))
  <2> DEFINE n == hs.goSrv + 1
  <2>1. /\ hs' \in HServers /\ hs'.heard = hs.heard /\ hs'.goSrv = n /\ hs'.accepting = hs.accepting \cup {n}
        /\ hs'.ending = hs.ending
        /\ hs'.shutting = hs.shutting /\ hs'.listening /\ hs'.unrefed = hs.unrefed /\ hs'.opHeld = ~hs.unrefed
        /\ hs'.relisten <=> hs.relisten \/ hs.listening \/ hs.shutting # {}
    <3> DEFINE b == (hs.relisten \/ hs.listening \/ hs.shutting # {})
    <3>1. hs' = [hs EXCEPT !.goSrv = n, !.accepting = hs.accepting \cup {n}, !.listening = TRUE, !.relisten = b,
                           !.opHeld = ~hs.unrefed]
      BY <1>3, ServerTyped DEF HServers, SetOp
    <3>2. b \in BOOLEAN /\ n \in Nat /\ hs.accepting \cup {n} \in SUBSET Nat
      BY ServerTyped DEF HServers
    <3> HIDE DEF b, n
    <3>3. hs' \in HServers
      BY <3>1, <3>2, ServerTyped, Zenon DEF HServers
    <3>4. /\ hs'.heard = hs.heard /\ hs'.goSrv = n /\ hs'.accepting = hs.accepting \cup {n}
          /\ hs'.ending = hs.ending
          /\ hs'.shutting = hs.shutting /\ hs'.listening /\ hs'.unrefed = hs.unrefed /\ hs'.opHeld = ~hs.unrefed
          /\ hs'.relisten = b
      BY <3>1, ServerTyped DEF HServers
    <3>5. QED BY <3>3, <3>4, Zenon DEF b
  <2>2. HoldOK(hs')
    BY <2>1, ServerTyped DEF HoldOK, HServers
  <2>3. /\ hs'.goSrv >= hs.goSrv /\ hs'.accepting \subseteq 1..hs'.goSrv /\ hs'.shutting \subseteq 1..hs'.goSrv
        /\ hs'.accepting \cap 1..hs.goSrv \subseteq hs.accepting
    BY <2>1, ServerTyped
  <2>4. HTick("listening", 0) \in HTicks /\ HTick("listening", 0).r = 0 /\ HTick("listening", 0).op = "listening"
    BY DEF HTick, HTicks
  <2>5. hticks' = Append(hticks, HTick("listening", 0))
    BY <1>3
  <2> HIDE DEF n
  <2>6. HttpOK(hs', rq, hticks', hsend)
    BY <2>1, <2>2, <2>3, <2>4, <2>5, ServerSays, Zenon DEF HttpInv
  <2>7. QED BY <1>1, <2>6 DEF HttpInv
<1>4. QED BY <1>2, <1>3 DEF DoListen

LEMMA DoCloseStep == ASSUME HttpInv, DoClose PROVE HttpInv'
<1>1. rq' = rq /\ hsend' = hsend
  BY DEF DoClose
<1>2. /\ hs' \in HServers /\ hs'.heard = hs.heard /\ hs'.goSrv = hs.goSrv /\ hs'.accepting = hs.accepting
      /\ hs'.shutting = (IF hs.listening THEN hs.shutting \cup {hs.goSrv} ELSE hs.shutting)
      /\ ~hs'.listening /\ hs'.unrefed = hs.unrefed /\ hs'.opHeld = hs.opHeld /\ hs'.relisten = hs.relisten
      /\ hs'.ending = hs.ending
  BY ServerTyped, Zenon DEF DoClose, HServers
<1>3. HoldOK(hs')
  BY <1>2, ServerTyped, Zenon DEF HoldOK, HServers
<1>4. hs'.goSrv >= hs.goSrv /\ hs'.accepting \cap 1..hs.goSrv \subseteq hs.accepting
  BY <1>2, ServerTyped
<1>5. hs'.accepting \subseteq 1..hs'.goSrv /\ hs'.shutting \subseteq 1..hs'.goSrv
  <2>1. hs.listening => hs.goSrv \in 1..hs.goSrv
    BY ServerTyped DEF HoldOK
  <2>2. QED BY <1>2, <2>1, ServerTyped
<1>6. hticks' = hticks \/ hticks' = Append(hticks, HTick("close", 0))
  BY DEF DoClose
<1>7. HTick("close", 0) \in HTicks /\ HTick("close", 0).r = 0 /\ HTick("close", 0).op = "close"
  BY DEF HTick, HTicks
<1>8. HttpOK(hs', rq, hticks', hsend)
  BY <1>2, <1>3, <1>4, <1>5, <1>6, <1>7, ServerTyped, ServerSays, Zenon DEF HttpInv
<1>9. QED BY <1>1, <1>8 DEF HttpInv

\* The server's state alone changes: ref, unref, Shutdown's first step,
\* and the process's end.
LEMMA HoldStep ==
  ASSUME HttpInv, HRef \/ HUnref \/ ProcessEnds \/ (\E n \in 1..hs.goSrv : StopListening(n))
  PROVE  HttpInv'
<1>1. rq' = rq /\ hsend' = hsend /\ hticks' = hticks
  BY Zenon DEF HRef, HUnref, ProcessEnds, StopListening
<1>2. /\ hs' \in HServers /\ hs'.heard = hs.heard /\ hs'.goSrv = hs.goSrv /\ hs'.accepting \subseteq hs.accepting
      /\ hs'.shutting = hs.shutting /\ hs'.listening = hs.listening /\ hs'.relisten = hs.relisten
      /\ hs'.ending = hs.ending
  BY ServerTyped, Zenon DEF HRef, HUnref, ProcessEnds, StopListening, HServers, SetOp
<1>3. \/ ~hs'.unrefed /\ hs'.opHeld = hs.listening
      \/ hs'.unrefed /\ ~hs'.opHeld
      \/ hs'.unrefed = hs.unrefed /\ hs'.opHeld = hs.opHeld
  BY ServerTyped, Zenon DEF HRef, HUnref, ProcessEnds, StopListening, HServers, SetOp
<1>4. HoldOK(hs')
  BY <1>2, <1>3, ServerTyped DEF HoldOK, HServers
<1>5. /\ hs'.goSrv >= hs.goSrv /\ hs'.accepting \cap 1..hs.goSrv \subseteq hs.accepting
      /\ hs'.accepting \subseteq 1..hs'.goSrv /\ hs'.shutting \subseteq 1..hs'.goSrv
  BY <1>2, ServerTyped
<1>6. HttpOK(hs', rq, hticks, hsend)
  BY <1>2, <1>4, <1>5, ServerTyped, ServerSays, Zenon DEF HttpInv
<1>7. QED BY <1>1, <1>6 DEF HttpInv

\* Shutdown returns: the requests of its server have returned.
LEMMA ShutdownStep == ASSUME HttpInv, NEW n \in 1..hs.goSrv, ShutdownReturns(n) PROVE HttpInv'
<1>1. /\ rq' = rq /\ hsend' = hsend /\ hticks' = hticks /\ n \in hs.shutting \ hs.accepting
      /\ \A r \in DOMAIN rq : rq[r].srv = n => rq[r].done
  BY DEF ShutdownReturns
<1>2. /\ hs' \in HServers /\ hs'.heard = hs.heard /\ hs'.goSrv = hs.goSrv /\ hs'.accepting = hs.accepting
      /\ hs'.shutting = hs.shutting \ {n} /\ hs'.listening = hs.listening /\ hs'.unrefed = hs.unrefed
      /\ hs'.relisten = hs.relisten /\ ~hs'.opHeld /\ hs'.ending = hs.ending \cup {n}
  <2> DEFINE e == hs.ending \cup {n}
             d == hs.shutting \ {n}
  <2>1. e \in SUBSET Nat /\ d \in SUBSET Nat
    BY ServerTyped DEF HServers
  <2>2. hs' = [hs EXCEPT !.shutting = d, !.ending = e, !.opHeld = FALSE]
    BY ServerTyped, Zenon DEF ShutdownReturns, SetOp, HServers
  <2> HIDE DEF e, d
  <2>3. hs' \in HServers
    BY <2>1, <2>2, ServerTyped, Zenon DEF HServers
  <2>4. /\ hs'.heard = hs.heard /\ hs'.goSrv = hs.goSrv /\ hs'.accepting = hs.accepting
        /\ hs'.shutting = d /\ hs'.listening = hs.listening /\ hs'.unrefed = hs.unrefed
        /\ hs'.relisten = hs.relisten /\ ~hs'.opHeld /\ hs'.ending = e
    BY <2>2, ServerTyped DEF HServers
  <2>5. QED BY <2>3, <2>4 DEF e, d
<1>3. HoldOK(hs')
  BY <1>1, <1>2, ServerTyped DEF HoldOK, HServers
<1>4. EndingOK(hs', rq)
  <2>1. DOMAIN rq = 1..Len(rq)
    BY ServerTyped, LenProperties
  <2>2. QED BY <1>1, <1>2, <2>1, ServerTyped DEF EndingOK
<1>5. /\ hs'.goSrv >= hs.goSrv /\ hs'.accepting \cap 1..hs.goSrv \subseteq hs.accepting
      /\ hs'.accepting \subseteq 1..hs'.goSrv /\ hs'.shutting \subseteq 1..hs'.goSrv
  BY <1>2, ServerTyped
<1>6. HttpOK(hs', rq, hticks, hsend)
  BY <1>2, <1>3, <1>4, <1>5, ServerTyped, ServerSays, Zenon DEF HttpInv
<1>7. QED BY <1>1, <1>6 DEF HttpInv

\* The tick of 'close' is put.
LEMMA PutsCloseStep == ASSUME HttpInv, NEW n \in 1..hs.goSrv, PutsClose(n) PROVE HttpInv'
<1> DEFINE t == HTick("closed", n)
           l == Len(hticks)
           m == Len(rq)
<1>1. rq' = rq /\ hsend' = hsend /\ hticks' = Append(hticks, t) /\ n \in hs.ending
      /\ n \notin hs.accepting
  BY ServerTyped DEF PutsClose, EndingOK
<1>2. /\ hs' \in HServers /\ hs'.heard = hs.heard /\ hs'.goSrv = hs.goSrv /\ hs'.accepting = hs.accepting
      /\ hs'.shutting = hs.shutting /\ hs'.listening = hs.listening /\ hs'.unrefed = hs.unrefed
      /\ hs'.relisten = hs.relisten /\ hs'.opHeld = hs.opHeld /\ hs'.ending = hs.ending \ {n}
  BY ServerTyped, Zenon DEF PutsClose, HServers
<1>3. HoldOK(hs')
  BY <1>1, <1>2, ServerTyped DEF HoldOK, HServers
<1>4. t \in HTicks /\ t.op = "closed" /\ t.r = n
  BY ServerTyped DEF HTick, HTicks
<1>5. /\ l \in Nat /\ hticks' \in Seq(HTicks) /\ Len(hticks') = l + 1 /\ hticks'[l + 1] = t
      /\ \A i \in 1..l : hticks'[i] = hticks[i]
  BY <1>1, <1>4, ServerTyped, TickAt
<1>6. ASSUME NEW r \in 1..m, rq[r].srv = n
      PROVE  Has(rq[r].heard, "finish") \/ \E j \in 1..l : hticks[j] = Finished(r)
  <2>1. rq[r].done
    BY <1>1, <1>6, ServerTyped DEF EndingOK
  <2>2. QED BY <2>1, ServerTyped DEF RequestOK, EventsOK, FinishOK, Has
<1> HIDE DEF t
<1>7. ClosedOK(hs', rq, hticks')
  <2>1. ASSUME NEW i \in 1..Len(hticks'), hticks'[i].op = "closed"
        PROVE  /\ hticks'[i].r \in (1..hs'.goSrv) \ hs'.accepting
               /\ \A r \in 1..Len(rq) : rq[r].srv = hticks'[i].r =>
                    \/ Has(rq[r].heard, "finish")
                    \/ \E j \in 1..(i - 1) : hticks'[j] = Finished(r)
    <3>1. CASE i \in 1..l
      <4>1. hticks'[i] = hticks[i] /\ \A j \in 1..(i - 1) : hticks'[j] = hticks[j]
        BY <1>5, <3>1
      <4>2. ClosedOK(hs, rq, hticks)
        BY DEF HttpInv, HttpOK
      <4>3. QED BY <1>2, <2>1, <3>1, <4>1, <4>2, ZenonT(40) DEF ClosedOK
    <3>2. CASE i = l + 1
      <4>1. hticks'[i] = t /\ i - 1 = l
        BY <1>5, <3>2
      <4>2. \A r \in 1..m : rq[r].srv = n => Has(rq[r].heard, "finish") \/ \E j \in 1..(i - 1) : hticks'[j] = Finished(r)
        BY <1>5, <1>6, <4>1, Zenon
      <4>3. QED BY <1>1, <1>2, <1>4, <4>1, <4>2
    <3>3. QED BY <1>5, <3>1, <3>2
  <2>2. \A i \in 1..Len(hs'.heard) : hs'.heard[i].op = "closed" =>
           /\ hs'.heard[i].r \in (1..hs'.goSrv) \ hs'.accepting
           /\ \A r \in 1..Len(rq) : rq[r].srv = hs'.heard[i].r => Has(rq[r].heard, "finish")
    BY <1>2 DEF HttpInv, HttpOK, ClosedOK
  <2>3. hs'.accepting \subseteq 1..hs'.goSrv /\ hs'.shutting \subseteq 1..hs'.goSrv
    BY <1>2, ServerTyped
  <2>4. QED BY <2>1, <2>2, <2>3 DEF ClosedOK
<1>8. TicksOK(hticks', m)
  <2>1. m <= m /\ TicksOK(hticks, m)
    BY ServerTyped DEF HttpInv, HttpOK
  <2>2. QED BY <1>1, <1>4, <2>1, ServerTyped, TicksPut
<1>9. ASSUME NEW j \in 1..m PROVE RequestOK(rq[j], hticks', j, hsend)
  <2>1. t \notin {Asked(j), Chunk(j), Over(j), Finished(j)}
    BY <1>4 DEF Asked, Chunk, Over, Finished, HTick
  <2>2. QED BY <1>1, <1>4, <2>1, ServerTyped, EventsPut DEF RequestOK
<1>e. EndingOK(hs', rq)
  BY <1>2, ServerTyped DEF EndingOK
<1>10. HttpOK(hs', rq, hticks', hsend)
  BY <1>2, <1>e, <1>3, <1>5, <1>7, <1>8, <1>9, ServerTyped DEF HttpOK
<1>11. QED BY <1>1, <1>10 DEF HttpInv

\* A request arrives at a server that accepts.
LEMMA ArrivesStep == ASSUME HttpInv, NEW n \in 1..hs.goSrv, HandleRequest(n) PROVE HttpInv'
<1> DEFINE x == NewRequest(n)
           m == Len(rq)
           t == HTick("request", m + 1)
<1>1. /\ rq' = Append(rq, x) /\ hticks' = Append(hticks, t) /\ hs' = hs /\ hsend' = hsend /\ n \in hs.accepting
      /\ m \in Nat
  BY ServerTyped DEF HandleRequest
<1>2. /\ x \in Requests /\ x.srv = n /\ x.heard = <<>> /\ x.chunks = 0 /\ x.left = BodyChunks /\ ~x.bodyEnded
      /\ x.pumping /\ ~x.done /\ x.said = <<>> /\ x.wire = <<>> /\ x.writeCh = <<>> /\ ~x.headersSent /\ ~x.ended
  <2>1. \A S : <<>> \in Seq(S)
    BY EmptySeq
  <2>2. QED BY <2>1, HttpServerAssumption, ServerTyped DEF NewRequest, Requests
<1> HIDE DEF x
<1>3. t \in HTicks /\ t.op = "request" /\ t.r = m + 1 /\ t = Asked(m + 1)
  BY <1>1 DEF Asked, HTick, HTicks
<1>4. /\ rq' \in Seq(Requests) /\ Len(rq') = m + 1 /\ rq'[m + 1] = x
      /\ \A i \in 1..m : rq'[i] = rq[i]
  BY <1>1, <1>2, ServerTyped, AppendProperties
<1>5. TicksOK(hticks, m) /\ ClosedOK(hs, rq, hticks)
  BY DEF HttpInv, HttpOK
<1> HIDE DEF t
<1>6. hticks' \in Seq(HTicks) /\ TicksOK(hticks', m + 1)
  <2>1. m + 1 \in Nat /\ m <= m + 1 /\ t.r \in 1..(m + 1)
    BY <1>1, <1>3
  <2>2. QED BY <1>1, <1>3, <1>5, <2>1, TicksPut, TickAt, ServerTyped
<1>7. EventsOK(x, hticks', m + 1)
  <2>1. \A i \in 1..Len(hticks) : hticks[i].op # "closed" => hticks[i].r # m + 1
    BY <1>1, <1>5 DEF TicksOK
  <2>2. m + 1 \in Nat
    BY <1>1
  <2>3. QED BY <1>1, <1>2, <1>3, <2>1, <2>2, RequestArrives, ServerTyped, Zenon
<1>8. ResponseOK(x, Waiting(x, m + 1, hsend))
  <2>1. hsend.r # m + 1
    <3>1. hsend.r = 0 \/ hsend.r \in 1..m
      BY NoSendIs, ServerTyped
    <3>2. QED BY <1>1, <3>1
  <2>2. Waiting(x, m + 1, hsend) = <<>> /\ Len(<<>>) = 0
    BY <1>2, <2>1, EmptySeq DEF Waiting
  <2>3. Upto(0) = <<>>
    BY UptoFacts, EmptySeq
  <2>4. Flows(<<>>, <<>>, 0)
    <3> DEFINE pos == [i \in 1..1 |-> 0]
    <3>1. pos \in [1..(0 + 1) -> 0..0] /\ pos[1] = 0
      OBVIOUS
    <3> HIDE DEF pos
    <3>2. QED BY <2>2, <2>3, <3>1 DEF Flows
  <2>5. QED BY <1>2, <2>2, <2>3, <2>4 DEF ResponseOK
<1>9. ASSUME NEW j \in 1..(m + 1) PROVE RequestOK(rq'[j], hticks', j, hsend)
  <2>1. CASE j = m + 1
    BY <1>4, <1>7, <1>8, <2>1 DEF RequestOK
  <2>2. CASE j \in 1..m
    <3>1. t \notin {Asked(j), Chunk(j), Over(j), Finished(j)}
      BY <1>1, <1>3, <2>2 DEF Asked, Chunk, Over, Finished, HTick
    <3>2. QED BY <1>1, <1>3, <1>4, <2>2, <3>1, ServerTyped, EventsPut DEF RequestOK
  <2>3. QED BY <1>1, <2>1, <2>2
<1>10. ClosedOK(hs, rq', hticks)
  <2>1. ASSUME NEW i \in 1..Len(hticks), hticks[i].op = "closed"
        PROVE  /\ hticks[i].r \in (1..hs.goSrv) \ hs.accepting
               /\ \A r \in 1..Len(rq') : rq'[r].srv = hticks[i].r =>
                    \/ Has(rq'[r].heard, "finish")
                    \/ \E j \in 1..(i - 1) : hticks[j] = Finished(r)
    <3>1. hticks[i].r \in (1..hs.goSrv) \ hs.accepting
      BY <1>5, <2>1 DEF ClosedOK
    <3>2. ASSUME NEW r \in 1..Len(rq'), rq'[r].srv = hticks[i].r PROVE r \in 1..m /\ rq'[r] = rq[r]
      BY <1>1, <1>2, <1>4, <3>1, <3>2
    <3>3. QED BY <1>5, <2>1, <3>1, <3>2, Zenon DEF ClosedOK
  <2>2. ASSUME NEW i \in 1..Len(hs.heard), hs.heard[i].op = "closed"
        PROVE  /\ hs.heard[i].r \in (1..hs.goSrv) \ hs.accepting
               /\ \A r \in 1..Len(rq') : rq'[r].srv = hs.heard[i].r => Has(rq'[r].heard, "finish")
    <3>1. hs.heard[i].r \in (1..hs.goSrv) \ hs.accepting
      BY <1>5, <2>2 DEF ClosedOK
    <3>2. ASSUME NEW r \in 1..Len(rq'), rq'[r].srv = hs.heard[i].r PROVE r \in 1..m /\ rq'[r] = rq[r]
      BY <1>1, <1>2, <1>4, <3>1, <3>2
    <3>3. QED BY <1>5, <2>2, <3>1, <3>2, Zenon DEF ClosedOK
  <2>3. QED BY <1>5, <2>1, <2>2 DEF ClosedOK
<1>11. ClosedOK(hs, rq', hticks')
  BY <1>1, <1>3, <1>4, <1>10, ClosedPut, ServerTyped, Zenon
<1>12. hsend = NoSend \/ hsend.r \in 1..Len(rq')
  BY <1>1, <1>4, ServerTyped
<1>e. EndingOK(hs, rq')
  <2>1. ASSUME NEW i \in 1..Len(rq'), rq'[i].srv \in hs.ending PROVE rq'[i].done
    <3>1. i \in 1..m /\ rq'[i] = rq[i]
      BY <1>1, <1>2, <1>4, <2>1, ServerTyped DEF EndingOK
    <3>2. QED BY <2>1, <3>1, ServerTyped DEF EndingOK
  <2>2. QED BY <2>1, ServerTyped DEF EndingOK
<1>13. HttpOK(hs, rq', hticks', hsend)
  BY <1>4, <1>6, <1>9, <1>11, <1>12, <1>e, ServerTyped DEF HttpOK
<1>14. QED BY <1>1, <1>13 DEF HttpInv

\* A request that changes in what is said of neither its response nor its
\* events.
LEMMA QuietChange ==
  ASSUME HttpInv, NEW r \in 1..Len(rq), NEW y \in Requests, y.srv = rq[r].srv, y.heard = rq[r].heard,
         y.said = rq[r].said, y.headersSent = rq[r].headersSent, y.ended = rq[r].ended, y.wire = rq[r].wire,
         y.done = rq[r].done, rq[r].cut => y.cut, y.writeCh = rq[r].writeCh, y.chunks = rq[r].chunks,
         y.left = rq[r].left, y.bodyEnded = rq[r].bodyEnded, y.pumping = rq[r].pumping
  PROVE  RequestOK(y, hticks, r, hsend) /\ HttpOK(hs, [rq EXCEPT ![r] = y], hticks, hsend)
<1>1. Waiting(y, r, hsend) = Waiting(rq[r], r, hsend)
  BY DEF Waiting
<1>2. rq[r] \in Requests /\ RequestOK(rq[r], hticks, r, hsend)
  BY ServerTyped
<1>3. y.cut = rq[r].cut \/ y.cut
  BY <1>2, Zenon DEF Requests
<1>4. ResponseOK(y, Waiting(y, r, hsend))
  BY <1>1, <1>2, <1>3, SameResponse DEF RequestOK
<1>5. EventsOK(y, hticks, r)
  BY <1>2, SameEvents DEF RequestOK
<1>6. RequestOK(y, hticks, r, hsend)
  BY <1>4, <1>5 DEF RequestOK
<1>7. QED BY <1>6, ServerTyped, OneChanges, Zenon DEF HttpInv

\* A client goes, stalls or reads, a reader pauses.
LEMMA QuietStep ==
  ASSUME HttpInv, NEW r \in DOMAIN rq, ClientGoes(r) \/ ClientStalls(r) \/ ClientReads(r) \/ ReqPause(r)
  PROVE  HttpInv'
<1>1. r \in 1..Len(rq) /\ rq[r] \in Requests
  BY ServerTyped, LenProperties
<1>2. hs' = hs /\ hticks' = hticks /\ hsend' = hsend
  BY DEF ClientGoes, ClientStalls, ClientReads, ReqPause, OnRequest
<1>3. ASSUME NEW c \in BOOLEAN, NEW b \in BOOLEAN, NEW d \in BOOLEAN, rq[r].cut => c,
             rq' = [rq EXCEPT ![r] = [rq[r] EXCEPT !.cut = c, !.stalled = b, !.resumed = d]]
      PROVE  HttpInv'
  <2> DEFINE y == [rq[r] EXCEPT !.cut = c, !.stalled = b, !.resumed = d]
  <2>1. /\ y \in Requests /\ y.cut = c /\ y.srv = rq[r].srv /\ y.heard = rq[r].heard
        /\ y.said = rq[r].said /\ y.headersSent = rq[r].headersSent /\ y.ended = rq[r].ended
        /\ y.wire = rq[r].wire /\ y.done = rq[r].done /\ y.writeCh = rq[r].writeCh
        /\ y.chunks = rq[r].chunks /\ y.left = rq[r].left /\ y.bodyEnded = rq[r].bodyEnded
        /\ y.pumping = rq[r].pumping
    BY <1>1, <1>3, ZenonT(40) DEF Requests
  <2>2. rq' = [rq EXCEPT ![r] = y]
    BY <1>3
  <2> HIDE DEF y
  <2>3. rq[r].cut => y.cut
    BY <1>3, <2>1
  <2>4. HttpOK(hs, [rq EXCEPT ![r] = y], hticks, hsend)
    BY <1>1, <2>1, <2>3, QuietChange
  <2>5. QED BY <1>2, <2>2, <2>4 DEF HttpInv
<1>4. \/ rq' = [rq EXCEPT ![r].cut = TRUE]
      \/ rq' = [rq EXCEPT ![r].stalled = TRUE] 
      \/ rq' = [rq EXCEPT ![r].stalled = FALSE]
      \/ rq' = [rq EXCEPT ![r].resumed = FALSE]
  BY DEF ClientGoes, ClientStalls, ClientReads, ReqPause
<1>5. rq[r].cut \in BOOLEAN /\ rq[r].stalled \in BOOLEAN /\ rq[r].resumed \in BOOLEAN
  BY <1>1 DEF Requests
<1>6. CASE rq' = [rq EXCEPT ![r].cut = TRUE]
  <2>1. rq' = [rq EXCEPT ![r] = [rq[r] EXCEPT !.cut = TRUE, !.stalled = rq[r].stalled, !.resumed = rq[r].resumed]]
    BY <1>1, <1>6, Zenon DEF Requests
  <2>2. QED BY <1>3, <1>5, <2>1, Zenon
<1>7. CASE rq' = [rq EXCEPT ![r].stalled = TRUE]
  <2>1. rq' = [rq EXCEPT ![r] = [rq[r] EXCEPT !.cut = rq[r].cut, !.stalled = TRUE, !.resumed = rq[r].resumed]]
    BY <1>1, <1>7, Zenon DEF Requests
  <2>2. QED BY <1>3, <1>5, <2>1, Zenon
<1>8. CASE rq' = [rq EXCEPT ![r].stalled = FALSE]
  <2>1. rq' = [rq EXCEPT ![r] = [rq[r] EXCEPT !.cut = rq[r].cut, !.stalled = FALSE, !.resumed = rq[r].resumed]]
    BY <1>1, <1>8, Zenon DEF Requests
  <2>2. QED BY <1>3, <1>5, <2>1, Zenon
<1>9. CASE rq' = [rq EXCEPT ![r].resumed = FALSE]
  <2>1. rq' = [rq EXCEPT ![r] = [rq[r] EXCEPT !.cut = rq[r].cut, !.stalled = rq[r].stalled, !.resumed = FALSE]]
    BY <1>1, <1>9, Zenon DEF Requests
  <2>2. QED BY <1>3, <1>5, <2>1, Zenon
<1>10. QED BY <1>4, <1>6, <1>7, <1>8, <1>9

\* Every connection is cut.
LEMMA CloseConnsStep == ASSUME HttpInv, CloseConns PROVE HttpInv'
<1> DEFINE m == Len(rq)
           y(r) == [rq[r] EXCEPT !.cut = TRUE]
<1>1. /\ hs' = hs /\ hticks' = hticks /\ hsend' = hsend /\ rq' = [r \in 1..m |-> y(r)] /\ m \in Nat
      /\ DOMAIN rq = 1..m
  BY ServerTyped, LenProperties DEF CloseConns
<1>2. ASSUME NEW r \in 1..m
      PROVE  /\ y(r) \in Requests /\ y(r).cut /\ y(r).srv = rq[r].srv /\ y(r).heard = rq[r].heard
             /\ y(r).done = rq[r].done /\ RequestOK(y(r), hticks, r, hsend)
  <2> DEFINE x == y(r)
  <2>1. rq[r] \in Requests
    BY ServerTyped
  <2>2. /\ x \in Requests /\ x.cut /\ x.srv = rq[r].srv /\ x.heard = rq[r].heard
        /\ x.said = rq[r].said /\ x.headersSent = rq[r].headersSent /\ x.ended = rq[r].ended
        /\ x.wire = rq[r].wire /\ x.done = rq[r].done /\ x.writeCh = rq[r].writeCh
        /\ x.chunks = rq[r].chunks /\ x.left = rq[r].left /\ x.bodyEnded = rq[r].bodyEnded
        /\ x.pumping = rq[r].pumping
    BY <2>1, Zenon DEF Requests
  <2> HIDE DEF x
  <2>3. RequestOK(x, hticks, r, hsend)
    BY <2>2, QuietChange, Zenon
  <2>4. QED BY <2>2, <2>3 DEF x
<1> HIDE DEF y
<1>3. rq' \in Seq(Requests) /\ Len(rq') = m
  BY <1>1, <1>2, IsASeq, LenProperties
<1>4. \A r \in 1..m : rq'[r] = y(r)
  BY <1>1
<1>5. ClosedOK(hs, rq', hticks)
  <2>1. ClosedOK(hs, rq, hticks)
    BY DEF HttpInv, HttpOK
  <2>2. \A r \in 1..m : rq'[r].srv = rq[r].srv /\ rq'[r].heard = rq[r].heard
    BY <1>2, <1>4
  <2>3. QED BY <1>3, <2>1, <2>2, ClosedStays
<1>6. TicksOK(hticks, m)
  BY DEF HttpInv, HttpOK
<1>e. EndingOK(hs, rq')
  <2>1. \A r \in 1..m : rq'[r].srv = rq[r].srv /\ rq'[r].done = rq[r].done
    BY <1>2, <1>4
  <2>2. QED BY <1>3, <2>1, EndingStays, ServerTyped
<1>7. HttpOK(hs, rq', hticks, hsend)
  BY <1>2, <1>3, <1>4, <1>5, <1>6, <1>e, ServerTyped DEF HttpOK
<1>8. QED BY <1>1, <1>7 DEF HttpInv

\* The handler takes an item.
LEMMA DrainStep == ASSUME HttpInv, NEW r \in DOMAIN rq, Drain(r) PROVE HttpInv'
<1> DEFINE x == rq[r]
           item == Head(x.writeCh)
           went == IF x.cut THEN <<>> ELSE item.data
           y == [x EXCEPT !.writeCh = Tail(x.writeCh), !.wire = x.wire \o went, !.done = item.end]
           queue == Waiting(x, r, hsend)
           after == IF item.end THEN Append(hticks, HTick("finish", r)) ELSE hticks
<1>1. r \in 1..Len(rq) /\ x \in Requests /\ r \in Nat /\ RequestOK(x, hticks, r, hsend)
  BY ServerTyped, LenProperties
<1>2. x.writeCh \in Seq(HItems) /\ x.writeCh # <<>> /\ ~x.done /\ x.wire \in Seq(Nat) /\ hsend.item \in HItems
  BY <1>1, ServerTyped DEF Drain, Requests
<1>3. item \in HItems /\ Tail(x.writeCh) \in Seq(HItems) /\ went \in Seq(Nat) /\ item.end \in BOOLEAN
  <2>1. item \in HItems /\ Tail(x.writeCh) \in Seq(HItems)
    BY <1>2, HeadTailProperties
  <2>2. <<>> \in Seq(Nat)
    BY EmptySeq
  <2>3. QED BY <2>1, <2>2 DEF HItems
<1>4. x.wire \o went \in Seq(Nat)
  BY <1>2, <1>3, ConcatProperties
<1>5. /\ queue \in Seq(HItems) /\ queue # <<>> /\ Head(queue) = item
      /\ Tail(queue) = (IF hsend.r = r THEN Append(Tail(x.writeCh), hsend.item) ELSE Tail(x.writeCh))
  <2> DEFINE ch == x.writeCh
             i == hsend.item
  <2>1. ch \in Seq(HItems) /\ ch # <<>> /\ i \in HItems
    BY <1>2
  <2> HIDE DEF ch, i
  <2>2. /\ Append(ch, i) \in Seq(HItems) /\ Append(ch, i) # <<>> /\ Head(Append(ch, i)) = Head(ch)
        /\ Tail(Append(ch, i)) = Append(Tail(ch), i)
    BY <2>1
  <2>3. QED BY <2>1, <2>2, Zenon DEF Waiting, ch, i
<1>6. /\ hs' = hs /\ hsend' = hsend /\ hticks' = after /\ rq' = [rq EXCEPT ![r] = y]
  BY <1>1, Zenon DEF Drain
<1> HIDE DEF went
<1>7. /\ y \in Requests /\ y.srv = x.srv /\ y.heard = x.heard /\ y.said = x.said
      /\ y.headersSent = x.headersSent /\ y.ended = x.ended /\ y.cut = x.cut /\ y.done = item.end
      /\ y.wire = x.wire \o went /\ y.writeCh = Tail(x.writeCh) /\ y.chunks = x.chunks /\ y.left = x.left
      /\ y.bodyEnded = x.bodyEnded /\ y.pumping = x.pumping
  <2> HIDE DEF item
  <2>1. QED BY <1>1, <1>3, <1>4, Zenon DEF Requests
<1> HIDE DEF y, queue
<1>8. Waiting(y, r, hsend) = Tail(queue)
  BY <1>5, <1>7, Zenon DEF Waiting
<1>9. y.cut \/ y.wire = x.wire \o Head(queue).data
  BY <1>5, <1>7, Zenon DEF went
<1>10. ResponseOK(x, queue)
  BY <1>1 DEF RequestOK, queue
<1>11. ResponseOK(y, Waiting(y, r, hsend))
  BY <1>1, <1>5, <1>7, <1>8, <1>9, <1>10, DrainResponse, Zenon
<1>12. EventsOK(y, after, r)
  <2>1. EventsOK(x, hticks, r)
    BY <1>1 DEF RequestOK
  <2>2. CASE item.end
    BY <1>1, <1>7, <2>1, <2>2, HandlerReturns, ServerTyped DEF Finished
  <2>3. CASE ~item.end
    <3>1. y.done = x.done
      BY <1>1, <1>2, <1>3, <1>7, <2>3, Zenon DEF Requests
    <3>2. QED BY <1>1, <1>7, <2>1, <2>3, <3>1, SameEvents
  <2>4. QED BY <2>2, <2>3
<1>13. RequestOK(y, after, r, hsend)
  BY <1>11, <1>12 DEF RequestOK
<1>14. after = hticks \/ \E t \in HTicks : /\ after = Append(hticks, t) /\ t.r = r
                                            /\ t.op \in {"data", "end", "finish", "flush"}
  <2>1. HTick("finish", r) \in HTicks /\ HTick("finish", r).r = r /\ HTick("finish", r).op = "finish"
    BY <1>1 DEF HTick, HTicks
  <2>2. QED BY <2>1
<1> HIDE DEF after, x, item
<1>15. HttpOK(hs, [rq EXCEPT ![r] = y], after, hsend)
  BY <1>1, <1>7, <1>13, <1>14, ServerTyped, OneChanges, Zenon DEF HttpInv, x
<1>16. QED BY <1>6, <1>15 DEF HttpInv

\* The blocked send goes on.
LEMMA UnblockStep == ASSUME HttpInv, Unblock PROVE HttpInv'
<1> DEFINE r == hsend.r
           x == rq[r]
           y == [x EXCEPT !.writeCh = Append(x.writeCh, hsend.item)]
<1>1. r \in 1..Len(rq) /\ x \in Requests /\ r \in Nat /\ RequestOK(x, hticks, r, hsend) /\ hsend.item \in HItems
  BY ServerTyped DEF Unblock, Free
<1>2. hs' = hs /\ hticks' = hticks /\ hsend' = NoSend /\ rq' = [rq EXCEPT ![r] = y]
  BY <1>1 DEF Unblock
<1>3. Append(x.writeCh, hsend.item) \in Seq(HItems)
  BY <1>1, AppendProperties DEF Requests
<1> HIDE DEF r
<1>4. /\ y \in Requests /\ y.srv = x.srv /\ y.heard = x.heard /\ y.said = x.said
      /\ y.headersSent = x.headersSent /\ y.ended = x.ended /\ y.cut = x.cut /\ y.done = x.done
      /\ y.wire = x.wire /\ y.writeCh = Append(x.writeCh, hsend.item) /\ y.chunks = x.chunks /\ y.left = x.left
      /\ y.bodyEnded = x.bodyEnded /\ y.pumping = x.pumping
  <2> HIDE DEF x
  <2>1. QED BY <1>1, <1>3, Zenon DEF Requests
<1> HIDE DEF y
<1>5. Waiting(y, r, NoSend) = Waiting(x, r, hsend)
  <2>1. NoSend.r # r
    BY <1>1, NoSendIs
  <2>2. QED BY <1>4, <2>1, Zenon DEF Waiting, r
<1>6. ResponseOK(y, Waiting(y, r, NoSend))
  <2>1. y.cut = x.cut \/ y.cut
    BY <1>4
  <2>2. QED BY <1>1, <1>4, <1>5, <2>1, SameResponse DEF RequestOK
<1>7. EventsOK(y, hticks, r)
  BY <1>1, <1>4, SameEvents DEF RequestOK
<1>8. RequestOK(y, hticks, r, NoSend)
  BY <1>6, <1>7 DEF RequestOK
<1>9. NoSend \in [r : Nat, item : HItems]
  <2>1. <<>> \in Seq(Nat)
    BY EmptySeq
  <2>2. QED BY <2>1 DEF NoSend, Item, HItems
<1>10. hsend.r \in {0, r} /\ NoSend.r \in {0, r}
  BY NoSendIs DEF r
<1> HIDE DEF x
<1>11. HttpOK(hs, [rq EXCEPT ![r] = y], hticks, NoSend)
  BY <1>1, <1>4, <1>8, <1>9, <1>10, OneChanges, Zenon DEF HttpInv, x
<1>12. QED BY <1>2, <1>11 DEF HttpInv

\* What is written goes to the channel, or waits for room in it.
LEMMA EnqueueStep ==
  ASSUME HttpInv, NEW r \in DOMAIN rq, OnRequest(r), ~rq[r].ended, NEW said, said = <<>> \/ said = NextChunk(r),
         NEW end \in BOOLEAN, Enqueue(r, said, end)
  PROVE  HttpInv'
<1> DEFINE x == rq[r]
           head == IF x.headersSent THEN <<>> ELSE <<HeadItem>>
           item == Item(head \o said, end)
           full == ~(Len(x.writeCh) < WriteCap)
           w == IF full THEN [r |-> r, item |-> item] ELSE NoSend
           ch == IF full THEN x.writeCh ELSE Append(x.writeCh, item)
           y == [x EXCEPT !.headersSent = TRUE, !.ended = end, !.said = x.said \o head \o said, !.writeCh = ch]
<1>1. r \in 1..Len(rq) /\ x \in Requests /\ r \in Nat /\ RequestOK(x, hticks, r, hsend)
  BY ServerTyped, LenProperties
<1>2. hsend = NoSend /\ hs' = hs /\ ~x.ended
  BY DEF OnRequest, Free
<1>3. x.writeCh \in Seq(HItems) /\ x.said \in Seq(Nat) /\ x.headersSent \in BOOLEAN
  BY <1>1 DEF Requests
<1>4. Waiting(x, r, hsend) = x.writeCh
  <2>1. hsend.r # r
    BY <1>1, <1>2, NoSendIs
  <2>2. QED BY <2>1 DEF Waiting
<1>5. ResponseOK(x, x.writeCh) /\ EventsOK(x, hticks, r)
  BY <1>1, <1>4 DEF RequestOK
<1>6. /\ rq' = [rq EXCEPT ![r] = y] /\ hsend' = w /\ hticks' = hticks
  <2> DEFINE b == x.ended \/ end
             c == x.said \o head \o said
             sent == [rq EXCEPT ![r].headersSent = TRUE, ![r].ended = b, ![r].said = c]
             z == [x EXCEPT !.headersSent = TRUE, !.ended = b, !.said = c]
  <2>1. r \in DOMAIN rq
    OBVIOUS
  <2>2. /\ ~full => rq' = [sent EXCEPT ![r].writeCh = Append(@, item)] /\ hsend' = hsend /\ hticks' = hticks
        /\ full => rq' = sent /\ hsend' = [r |-> r, item |-> item] /\ hticks' = hticks
    BY DEF Enqueue
  <2>3. b = end
    BY <1>2
  <2>4. sent = [rq EXCEPT ![r] = z]
    <3> HIDE DEF b, c
    <3>1. QED BY <2>1, Zenon
  <2>5. z.writeCh = x.writeCh
    <3> HIDE DEF b, c
    <3>1. QED BY <1>1 DEF Requests
  <2>6. y = [z EXCEPT !.writeCh = ch]
    <3> HIDE DEF ch, c, b
    <3>1. y = [x EXCEPT !.headersSent = TRUE, !.ended = b, !.said = c, !.writeCh = ch]
      BY <2>3 DEF c
    <3>2. QED BY <3>1
  <2> HIDE DEF z, item, b, c
  <2>7. CASE full
    <3>1. z = [z EXCEPT !.writeCh = x.writeCh]
      BY <1>1, <2>5, Zenon DEF Requests, z
    <3>2. QED BY <1>2, <2>2, <2>4, <2>6, <2>7, <3>1
  <2>8. CASE ~full
    <3>1. [[rq EXCEPT ![r] = z] EXCEPT ![r].writeCh = Append(@, item)] = [rq EXCEPT ![r] = [z EXCEPT !.writeCh = Append(z.writeCh, item)]]
      BY <2>1, Zenon
    <3>2. QED BY <1>2, <2>2, <2>4, <2>5, <2>6, <2>8, <3>1
  <2>9. QED BY <2>7, <2>8
<1> HIDE DEF head
<1>7. GoesOn(x.said, head, said)
  <2>1. x.said = Upto(Len(x.said)) /\ (x.headersSent <=> Len(x.said) > 0)
    BY <1>5 DEF ResponseOK
  <2>2. head = IF x.headersSent THEN <<>> ELSE <<HeadItem>>
    BY DEF head
  <2> DEFINE n == Len(x.said)
             u == Upto(n)
             c == Cardinality({i \in DOMAIN x.said : x.said[i] # HeadItem})
  <2>3. n \in Nat
    BY <1>3, LenProperties
  <2>4. Cardinality({i \in DOMAIN u : u[i] # HeadItem}) = IF n = 0 THEN 0 ELSE n - 1
    BY <2>3, ChunksOf
  <2>5. c = IF n = 0 THEN 0 ELSE n - 1
    <3>1. x.said = u
      BY <2>1
    <3> HIDE DEF u
    <3>2. QED BY <2>4, <3>1
  <2>6. said = <<>> \/ said = <<c + 1>>
    BY DEF NextChunk, Chunks
  <2>7. said = <<>> \/ said = <<(IF Len(x.said) = 0 THEN 0 ELSE Len(x.said) - 1) + 1>>
    BY <2>5, <2>6
  <2> HIDE DEF x, c, u, n
  <2>8. QED BY <1>1, <2>1, <2>2, <2>7, NextWritten, Zenon
<1>19. PICK m \in Nat : /\ Len(x.said) <= m /\ m > 0 /\ head \o said = Stretch(Len(x.said), m)
                       /\ x.said \o head \o said = Upto(m)
  BY <1>7 DEF GoesOn
<1>8. item \in HItems /\ item.data = Stretch(Len(x.said), m) /\ item.end = end
  <2>1. Len(x.said) \in Nat
    BY <1>3, LenProperties
  <2>2. Stretch(Len(x.said), m) \in Seq(Nat)
    BY <1>19, <2>1, StretchFacts, Zenon
  <2>3. QED BY <1>19, <2>2 DEF Item, HItems
<1>9. Upto(m) \in Seq(Nat)
  BY <1>19, UptoFacts
<1> HIDE DEF item
<1>10. ch \in Seq(HItems)
  BY <1>3, <1>8, AppendProperties
<1> HIDE DEF ch
<1>11. /\ y \in Requests /\ y.srv = x.srv /\ y.heard = x.heard /\ y.said = Upto(m)
       /\ y.headersSent /\ y.ended = end /\ y.cut = x.cut /\ y.done = x.done
       /\ y.wire = x.wire /\ y.writeCh = ch /\ y.chunks = x.chunks /\ y.left = x.left
       /\ y.bodyEnded = x.bodyEnded /\ y.pumping = x.pumping
  <2> DEFINE z == x.said \o head \o said
  <2>1. z = Upto(m)
    BY <1>19
  <2> HIDE DEF z
  <2>2. QED BY <1>1, <1>9, <1>10, <2>1, Zenon DEF Requests, z
<1> HIDE DEF y
<1>12. Waiting(y, r, w) = Append(x.writeCh, item)
  <2>1. CASE full
    BY <1>11, <2>1 DEF Waiting, ch
  <2>2. CASE ~full
    <3>1. w.r # r
      BY <1>1, <2>2, NoSendIs
    <3>2. QED BY <1>11, <2>2, <3>1 DEF Waiting, ch
  <2>3. QED BY <2>1, <2>2
<1>13. ResponseOK(y, Waiting(y, r, w))
  <2> HIDE DEF x
  <2>1. QED BY <1>1, <1>2, <1>3, <1>5, <1>19, <1>8, <1>11, <1>12, EnqueueResponse, Zenon
<1>14. EventsOK(y, hticks, r)
  BY <1>1, <1>5, <1>11, SameEvents
<1>15. /\ w \in [r : Nat, item : HItems] /\ w.r \in {0, r} /\ hsend.r \in {0, r}
       /\ w = NoSend \/ w.r \in 1..Len(rq)
  BY <1>1, <1>2, <1>8, NoSendIs, ServerTyped
<1>16. RequestOK(y, hticks, r, w)
  BY <1>13, <1>14 DEF RequestOK
<1> HIDE DEF w, x
<1>17. HttpOK(hs, [rq EXCEPT ![r] = y], hticks, w)
  BY <1>1, <1>11, <1>15, <1>16, OneChanges, Zenon DEF HttpInv, x
<1>18. QED BY <1>2, <1>6, <1>17 DEF HttpInv

LEMMA WritesStep ==
  ASSUME HttpInv, NEW r \in DOMAIN rq, WriteHead(r) \/ FlushHeaders(r) \/ ResWrite(r) \/ ResEnd(r)
  PROVE  HttpInv'
<1>1. OnRequest(r) /\ ~rq[r].ended
  BY Zenon DEF WriteHead, FlushHeaders, ResWrite, ResEnd
<1>2. PICK said \in {<<>>, NextChunk(r)}, end \in BOOLEAN : Enqueue(r, said, end)
  BY Zenon DEF WriteHead, FlushHeaders, ResWrite, ResEnd
<1>3. QED BY <1>1, <1>2, EnqueueStep

\* The body is pumped.
LEMMA PumpStep == ASSUME HttpInv, NEW r \in DOMAIN rq, Pump(r) PROVE HttpInv'
<1> DEFINE x == rq[r]
<1>1. r \in 1..Len(rq) /\ x \in Requests /\ r \in Nat /\ RequestOK(x, hticks, r, hsend) /\ x.pumping
  BY ServerTyped, LenProperties DEF Pump
<1>2. hs' = hs /\ hsend' = hsend
  BY DEF Pump
<1>3. CASE x.left > 0 /\ ~x.cut /\ ~x.done
  <2> DEFINE y == [x EXCEPT !.left = x.left - 1]
             t == HTick("data", r)
  <2>1. rq' = [rq EXCEPT ![r] = y] /\ hticks' = Append(hticks, t)
    BY <1>1, <1>3 DEF Pump
  <2>2. x.left - 1 \in Nat
    BY <1>1, <1>3 DEF Requests
  <2>3. /\ y \in Requests /\ y.srv = x.srv /\ y.heard = x.heard /\ y.said = x.said
        /\ y.headersSent = x.headersSent /\ y.ended = x.ended /\ y.cut = x.cut /\ y.done = x.done
        /\ y.wire = x.wire /\ y.writeCh = x.writeCh /\ y.chunks = x.chunks /\ y.left = x.left - 1
        /\ y.bodyEnded = x.bodyEnded /\ y.pumping = x.pumping
    BY <1>1, <2>2, Zenon DEF Requests
  <2> HIDE DEF y
  <2>4. Waiting(y, r, hsend) = Waiting(x, r, hsend)
    BY <2>3 DEF Waiting
  <2>5. ResponseOK(y, Waiting(y, r, hsend))
    <3>1. y.cut = x.cut \/ y.cut
      BY <2>3
    <3>2. QED BY <1>1, <2>3, <2>4, <3>1, SameResponse DEF RequestOK
  <2>6. EventsOK(y, Append(hticks, t), r)
    <3>1. EventsOK(x, hticks, r) /\ x.left > 0
      BY <1>1, <1>3 DEF RequestOK
    <3> HIDE DEF x
    <3>2. QED BY <1>1, <2>3, <3>1, PumpsChunk, ServerTyped, Zenon DEF Chunk
  <2>7. t \in HTicks /\ t.r = r /\ t.op = "data"
    BY <1>1 DEF HTick, HTicks
  <2> HIDE DEF x, t
  <2>8. HttpOK(hs, [rq EXCEPT ![r] = y], Append(hticks, t), hsend)
    BY <1>1, <2>3, <2>5, <2>6, <2>7, ServerTyped, OneChanges, Zenon DEF HttpInv, RequestOK, x
  <2>9. QED BY <1>2, <2>1, <2>8 DEF HttpInv
<1>4. CASE ~(x.left > 0 /\ ~x.cut /\ ~x.done)
  <2> DEFINE y == [x EXCEPT !.pumping = FALSE, !.complete = TRUE]
             t == HTick("end", r)
  <2>1. rq' = [rq EXCEPT ![r] = y] /\ hticks' = Append(hticks, t)
    BY <1>1, <1>4 DEF Pump
  <2>3. /\ y \in Requests /\ y.srv = x.srv /\ y.heard = x.heard /\ y.said = x.said
        /\ y.headersSent = x.headersSent /\ y.ended = x.ended /\ y.cut = x.cut /\ y.done = x.done
        /\ y.wire = x.wire /\ y.writeCh = x.writeCh /\ y.chunks = x.chunks /\ y.left = x.left
        /\ y.bodyEnded = x.bodyEnded /\ ~y.pumping
    BY <1>1, Zenon DEF Requests
  <2> HIDE DEF y
  <2>4. Waiting(y, r, hsend) = Waiting(x, r, hsend)
    BY <2>3 DEF Waiting
  <2>5. ResponseOK(y, Waiting(y, r, hsend))
    <3>1. y.cut = x.cut \/ y.cut
      BY <2>3
    <3>2. QED BY <1>1, <2>3, <2>4, <3>1, SameResponse DEF RequestOK
  <2>6. EventsOK(y, Append(hticks, t), r)
    <3>1. EventsOK(x, hticks, r)
      BY <1>1 DEF RequestOK
    <3> HIDE DEF x
    <3>2. QED BY <1>1, <2>3, <3>1, PumpsEnd, ServerTyped DEF Over
  <2>7. t \in HTicks /\ t.r = r /\ t.op = "end"
    BY <1>1 DEF HTick, HTicks
  <2> HIDE DEF x, t
  <2>8. HttpOK(hs, [rq EXCEPT ![r] = y], Append(hticks, t), hsend)
    BY <1>1, <2>3, <2>5, <2>6, <2>7, ServerTyped, OneChanges, Zenon DEF HttpInv, RequestOK, x
  <2>9. QED BY <1>2, <2>1, <2>8 DEF HttpInv
<1>5. QED BY <1>3, <1>4

\* A listener for the body's chunks comes.
LEMMA OnDataStep == ASSUME HttpInv, NEW r \in DOMAIN rq, OnData(r) PROVE HttpInv'
<1> DEFINE x == rq[r]
           y == [x EXCEPT !.listener = TRUE]
           t == HTick("flush", r)
<1>1. r \in 1..Len(rq) /\ x \in Requests /\ r \in Nat /\ RequestOK(x, hticks, r, hsend)
  BY ServerTyped, LenProperties
<1>2. hs' = hs /\ hsend' = hsend /\ rq' = [rq EXCEPT ![r] = y] /\ hticks' = Append(hticks, t)
  BY <1>1 DEF OnData, OnRequest
<1>3. /\ y \in Requests /\ y.srv = x.srv /\ y.heard = x.heard /\ y.said = x.said
      /\ y.headersSent = x.headersSent /\ y.ended = x.ended /\ y.cut = x.cut /\ y.done = x.done
      /\ y.wire = x.wire /\ y.writeCh = x.writeCh /\ y.chunks = x.chunks /\ y.left = x.left
      /\ y.bodyEnded = x.bodyEnded /\ y.pumping = x.pumping
  BY <1>1, Zenon DEF Requests
<1> HIDE DEF y
<1>4. RequestOK(y, hticks, r, hsend)
  BY <1>1, <1>3, QuietChange, Zenon
<1>5. t \in HTicks /\ t.r = r /\ t.op = "flush" /\ t \notin {Asked(r), Chunk(r), Over(r), Finished(r)}
  BY <1>1 DEF HTick, HTicks, Asked, Chunk, Over, Finished
<1>9. \E u \in HTicks : /\ Append(hticks, t) = Append(hticks, u) /\ u.r = r
                        /\ u.op \in {"data", "end", "finish", "flush"}
  BY <1>5
<1> HIDE DEF t, x
<1>6. RequestOK(y, Append(hticks, t), r, hsend)
  BY <1>1, <1>3, <1>4, <1>5, EventsPut, ServerTyped DEF RequestOK
<1>7. HttpOK(hs, [rq EXCEPT ![r] = y], Append(hticks, t), hsend)
  BY <1>1, <1>3, <1>6, <1>9, ServerTyped, OneChanges, Zenon DEF HttpInv, x
<1>8. QED BY <1>2, <1>7 DEF HttpInv

\* Flush keeps what is said of the response.
LEMMA FlushResponse ==
  ASSUME NEW x \in Requests, NEW r, NEW w, ResponseOK(x, Waiting(x, r, w))
  PROVE  ResponseOK(Flush(x), Waiting(Flush(x), r, w))
<1> DEFINE y == Flush(x)
<1>1. /\ y \in Requests /\ y.said = x.said /\ y.headersSent = x.headersSent /\ y.ended = x.ended
      /\ y.wire = x.wire /\ y.done = x.done /\ y.cut = x.cut /\ y.writeCh = x.writeCh
  BY FlushTypes, Zenon
<1> HIDE DEF y
<1>2. Waiting(y, r, w) = Waiting(x, r, w)
  BY <1>1 DEF Waiting
<1>3. y.cut = x.cut \/ y.cut
  BY <1>1
<1>4. ResponseOK(y, Waiting(y, r, w))
  BY <1>1, <1>2, <1>3, SameResponse
<1>5. QED BY <1>4 DEF y

\* What was heard is still heard.
LEMMA FlushHears ==
  ASSUME NEW x \in Requests, Has(x.heard, "finish")
  PROVE  Has(Flush(x).heard, "finish")
<1> DEFINE y == Flush(x)
           some == [i \in 1..x.chunks |-> "data"]
           last == IF x.bodyEnded THEN <<"end">> ELSE <<>>
<1>1. x.heard \in Seq(ReqEvents) /\ x.chunks \in Nat
  BY DEF Requests
<1>2. some \in Seq(ReqEvents)
  BY <1>1, IsASeq DEF ReqEvents
<1>3. last \in Seq(ReqEvents)
  <2>1. <<"end">> \in Seq(ReqEvents) /\ <<>> \in Seq(ReqEvents)
    BY EmptySeq DEF ReqEvents
  <2>2. QED BY <2>1
<1>4. y.heard = x.heard \/ y.heard = x.heard \o some \o last
  BY FlushTypes, Zenon
<1> HIDE DEF y, some, last
<1>5. x.heard \o some \in Seq(ReqEvents) /\ Has(x.heard \o some, "finish")
  BY <1>1, <1>2, HasJoin, ConcatProperties
<1>6. Has((x.heard \o some) \o last, "finish")
  BY <1>3, <1>5, HasJoin, Zenon
<1>7. QED BY <1>4, <1>6, Zenon DEF y

\* A reader resumes.
LEMMA ResumeStep == ASSUME HttpInv, NEW r \in DOMAIN rq, ReqResume(r) PROVE HttpInv'
<1> DEFINE x == rq[r]
           z == [x EXCEPT !.resumed = TRUE]
           y == Flush(z)
<1>1. r \in 1..Len(rq) /\ x \in Requests /\ r \in Nat /\ RequestOK(x, hticks, r, hsend)
  BY ServerTyped, LenProperties
<1>2. hs' = hs /\ hsend' = hsend /\ rq' = [rq EXCEPT ![r] = y] /\ hticks' = hticks /\ Has(x.heard, "request")
  BY <1>1 DEF ReqResume, OnRequest, Contains, Has
<1>3. /\ z \in Requests /\ z.srv = x.srv /\ z.heard = x.heard /\ z.said = x.said
      /\ z.headersSent = x.headersSent /\ z.ended = x.ended /\ z.cut = x.cut /\ z.done = x.done
      /\ z.wire = x.wire /\ z.writeCh = x.writeCh /\ z.chunks = x.chunks /\ z.left = x.left
      /\ z.bodyEnded = x.bodyEnded /\ z.pumping = x.pumping
  BY <1>1, Zenon DEF Requests
<1> HIDE DEF z
<1>4. RequestOK(z, hticks, r, hsend)
  BY <1>1, <1>3, QuietChange, Zenon
<1>5. Started(z)
  <2>1. x.heard # <<>>
    BY <1>2, EmptySeq DEF Has
  <2>2. Begun(z, hticks, r)
    BY <1>4 DEF RequestOK, EventsOK
  <2>3. QED BY <1>3, <2>1, <2>2 DEF Begun
<1>6. y \in Requests /\ y.srv = z.srv
  BY <1>3, FlushTypes, Zenon
<1>7. RequestOK(y, hticks, r, hsend)
  BY <1>1, <1>3, <1>4, <1>5, FlushKeeps, FlushResponse, ServerTyped DEF RequestOK
<1> HIDE DEF y
<1>8. HttpOK(hs, [rq EXCEPT ![r] = y], hticks, hsend)
  <2> DEFINE others == [rq EXCEPT ![r] = y]
             m == Len(rq)
  <2>1. others \in Seq(Requests) /\ Len(others) = m /\ \A j \in 1..m : others[j] = IF j = r THEN y ELSE rq[j]
    BY <1>1, <1>6, ExceptSeq, ServerTyped
  <2> HIDE DEF others
  <2>2. \A j \in 1..m : RequestOK(others[j], hticks, j, hsend)
    BY <1>7, <2>1, ServerTyped, Zenon
  <2>3. Has(rq[r].heard, "finish") => Has(y.heard, "finish")
    BY <1>3, FlushHears DEF y
  <2>4. \A j \in 1..m : others[j].srv = rq[j].srv /\ (Has(rq[j].heard, "finish") => Has(others[j].heard, "finish"))
    BY <1>3, <1>6, <2>1, <2>3
  <2>5. ClosedOK(hs, rq, hticks) /\ TicksOK(hticks, m)
    BY DEF HttpInv, HttpOK
  <2>6. ClosedOK(hs, others, hticks)
    BY <2>1, <2>4, <2>5, ClosedStays
  <2>e. EndingOK(hs, others)
    <3>1. rq[r].done => y.done
      BY <1>1, <1>7, <2>3 DEF RequestOK, EventsOK, FinishOK
    <3>2. \A j \in 1..m : others[j].srv = rq[j].srv /\ (rq[j].done => others[j].done)
      BY <1>3, <1>6, <2>1, <3>1
    <3>3. QED BY <2>1, <3>2, EndingStays, ServerTyped
  <2>7. QED BY <2>1, <2>2, <2>5, <2>6, <2>e, ServerTyped DEF HttpOK, others
<1>9. QED BY <1>2, <1>8 DEF HttpInv

\* A tick of the server runs.
LEMMA ServerHears ==
  ASSUME HttpInv, hticks # <<>>, HRunTick, Head(hticks).r = 0 \/ Head(hticks).op = "closed"
  PROVE  HttpInv'
<1> DEFINE t == Head(hticks)
           rest == Tail(hticks)
           l == Len(hs.heard)
           m == Len(rq)
<1>1. /\ hticks' = rest /\ hs' = [hs EXCEPT !.heard = Append(@, t)] /\ rq' = rq /\ hsend' = hsend
  BY DEF HRunTick
<1>2. t \in HTicks /\ t = hticks[1] /\ rest \in Seq(HTicks) /\ Len(hticks) \in Nat /\ 1 \in 1..Len(hticks)
  BY RestAt, ServerTyped
<1>3. hs.heard \in Seq(HTicks)
  BY ServerTyped DEF HServers
<1>4. /\ Append(hs.heard, t) \in Seq(HTicks) /\ Len(Append(hs.heard, t)) = l + 1 /\ l \in Nat
      /\ Append(hs.heard, t)[l + 1] = t /\ \A i \in 1..l : Append(hs.heard, t)[i] = hs.heard[i]
  BY <1>2, <1>3, TickAt
<1> HIDE DEF t
<1>5. /\ hs' \in HServers /\ hs'.heard = Append(hs.heard, t) /\ hs'.goSrv = hs.goSrv
      /\ hs'.accepting = hs.accepting /\ hs'.shutting = hs.shutting /\ hs'.listening = hs.listening
      /\ hs'.unrefed = hs.unrefed /\ hs'.opHeld = hs.opHeld /\ hs'.relisten = hs.relisten
      /\ hs'.ending = hs.ending
  <2> DEFINE h == Append(hs.heard, t)
  <2>1. h \in Seq(HTicks) /\ hs' = [hs EXCEPT !.heard = h]
    BY <1>1, <1>4
  <2> HIDE DEF h
  <2>2. hs' \in HServers /\ hs'.heard = h
    BY <2>1, ServerTyped, Zenon DEF HServers
  <2>3. /\ hs'.goSrv = hs.goSrv
        /\ hs'.accepting = hs.accepting /\ hs'.shutting = hs.shutting /\ hs'.listening = hs.listening
        /\ hs'.unrefed = hs.unrefed /\ hs'.opHeld = hs.opHeld /\ hs'.relisten = hs.relisten
        /\ hs'.ending = hs.ending
    BY <2>1, ServerTyped DEF HServers
  <2>4. QED BY <2>2, <2>3 DEF h
<1>6. HoldOK(hs')
  BY <1>5, ServerTyped DEF HoldOK
<1>7. /\ ClosedOK(hs, rq, hticks) /\ TicksOK(hticks, m) /\ m \in Nat
  BY ServerTyped DEF HttpInv, HttpOK
<1>8. \A j : (t # Asked(j) /\ t # Chunk(j) /\ t # Over(j) /\ t # Finished(j)) \/ j = 0
  BY DEF t, Asked, Chunk, Over, Finished, HTick
<1>9. TicksOK(rest, m) /\ ClosedOK(hs, rq, rest)
  <2>1. \A j \in 1..m : Head(hticks) = Finished(j) => Has(rq[j].heard, "finish")
    BY <1>7, <1>8 DEF t
  <2>2. QED BY <1>7, <2>1, TicksRun, ClosedRuns, ServerTyped
<1>10. ClosedOK(hs', rq, rest)
  <2>1. ASSUME NEW i \in 1..Len(hs'.heard), hs'.heard[i].op = "closed"
        PROVE  /\ hs'.heard[i].r \in (1..hs.goSrv) \ hs.accepting
               /\ \A r \in 1..m : rq[r].srv = hs'.heard[i].r => Has(rq[r].heard, "finish")
    <3>1. CASE i \in 1..l
      <4>1. hs'.heard[i] = hs.heard[i]
        BY <1>4, <1>5, <3>1
      <4>2. QED BY <1>7, <2>1, <3>1, <4>1 DEF ClosedOK
    <3>2. CASE i = l + 1
      <4>1. hs'.heard[i] = hticks[1] /\ hticks[1].op = "closed" /\ \A j : j \notin 1..(1 - 1)
        BY <1>2, <1>4, <1>5, <2>1, <3>2
      <4>2. /\ hticks[1].r \in (1..hs.goSrv) \ hs.accepting
            /\ \A r \in 1..m : rq[r].srv = hticks[1].r =>
                 \/ Has(rq[r].heard, "finish")
                 \/ \E j \in 1..(1 - 1) : hticks[j] = Finished(r)
        BY <1>2, <1>7, <4>1 DEF ClosedOK
      <4>3. QED BY <4>1, <4>2
    <3>3. QED BY <1>4, <1>5, <3>1, <3>2
  <2>2. QED BY <1>5, <1>9, <2>1, Zenon DEF ClosedOK
<1>11. ASSUME NEW j \in 1..m PROVE RequestOK(rq[j], rest, j, hsend)
  <2>1. Head(hticks) \notin {Asked(j), Chunk(j), Over(j), Finished(j)}
    BY <1>7, <1>8 DEF t
  <2>2. QED BY <2>1, EventsRun, ServerTyped, Zenon DEF RequestOK
<1>e. EndingOK(hs', rq)
  BY <1>5, ServerTyped DEF EndingOK
<1>12. HttpOK(hs', rq, rest, hsend)
  BY <1>2, <1>e, <1>5, <1>6, <1>9, <1>10, <1>11, ServerTyped DEF HttpOK
<1>13. QED BY <1>1, <1>12 DEF HttpInv

\* A tick of a request runs.
LEMMA RequestHears ==
  ASSUME HttpInv, hticks # <<>>, HRunTick, Head(hticks).r # 0, Head(hticks).op # "closed"
  PROVE  HttpInv'
<1> DEFINE t == Head(hticks)
           rest == Tail(hticks)
           r == t.r
           x == rq[r]
<1>1. t \in HTicks /\ t = hticks[1] /\ Len(hticks) \in Nat /\ 1 \in 1..Len(hticks)
  BY RestAt, ServerTyped
<1>2. /\ t.op \in {"request", "data", "end", "finish", "flush"} /\ r \in 1..Len(rq)
  <2>1. TicksOK(hticks, Len(rq))
    BY DEF HttpInv, HttpOK
  <2>2. QED BY <1>1, <2>1 DEF TicksOK
<1>3. x \in Requests /\ r \in Nat /\ RequestOK(x, hticks, r, hsend) /\ x.heard \in Seq(ReqEvents)
  BY <1>2, ServerTyped, Zenon DEF Requests
<1>4. ResponseOK(x, Waiting(x, r, hsend)) /\ EventsOK(x, hticks, r)
  BY <1>3 DEF RequestOK
<1>5. /\ hticks' = rest /\ hs' = hs /\ hsend' = hsend
      /\ rq' = CASE t.op \in {"request", "finish"} -> Hears(r, t.op)
                 [] t.op = "data" -> [rq EXCEPT ![r] = Flush([x EXCEPT !.chunks = @ + 1])]
                 [] t.op = "end" -> [rq EXCEPT ![r] = Flush([x EXCEPT !.bodyEnded = TRUE])]
                 [] t.op = "flush" -> [rq EXCEPT ![r] = Flush(x)]
  BY Zenon DEF HRunTick
<1>6. t = HTick(t.op, r)
  BY <1>1 DEF HTick, HTicks
<1>7. ASSUME NEW y \in Requests, rq' = [rq EXCEPT ![r] = y], y.srv = x.srv,
             Has(x.heard, "finish") => Has(y.heard, "finish"),
             t.op = "finish" => Has(y.heard, "finish"),
             ResponseOK(y, Waiting(y, r, hsend)), EventsOK(y, rest, r)
      PROVE  HttpInv'
  <2>1. Head(hticks) = Finished(r) => Has(y.heard, "finish")
    BY <1>6, <1>7 DEF Finished, HTick
  <2>2. RequestOK(y, rest, r, hsend)
    BY <1>7 DEF RequestOK
  <2>3. Head(hticks).r = r /\ Head(hticks).op # "closed"
    OBVIOUS
  <2> HIDE DEF r, t, rest
  <2>4. HttpOK(hs, [rq EXCEPT ![r] = y], Tail(hticks), hsend)
    BY <1>2, <1>7, <2>1, <2>2, <2>3, OneHears, Zenon DEF HttpInv, rest
  <2>5. QED BY <1>5, <1>7, <2>4, Zenon DEF HttpInv, rest
<1>8. CASE t.op \in {"request", "finish"}
  <2> DEFINE e == t.op
             y == [x EXCEPT !.heard = Append(x.heard, e)]
  <2>1. rq' = [rq EXCEPT ![r] = y]
    BY <1>5, <1>8 DEF Hears
  <2>2. e \in ReqEvents
    BY <1>8 DEF ReqEvents
  <2>3. Append(x.heard, e) \in Seq(ReqEvents)
    BY <1>3, <2>2, AppendProperties
  <2> HIDE DEF e, r
  <2>4. /\ y \in Requests /\ y.srv = x.srv /\ y.heard = Append(x.heard, e) /\ y.said = x.said
        /\ y.headersSent = x.headersSent /\ y.ended = x.ended /\ y.cut = x.cut /\ y.done = x.done
        /\ y.wire = x.wire /\ y.writeCh = x.writeCh /\ y.chunks = x.chunks /\ y.left = x.left
        /\ y.bodyEnded = x.bodyEnded /\ y.pumping = x.pumping
    <3> HIDE DEF x
    <3>1. QED BY <1>3, <2>3, Zenon DEF Requests
  <2> HIDE DEF y
  <2>5. Waiting(y, r, hsend) = Waiting(x, r, hsend)
    BY <2>4 DEF Waiting
  <2>6. ResponseOK(y, Waiting(y, r, hsend))
    <3>1. y.cut = x.cut \/ y.cut
      BY <2>4
    <3>2. QED BY <1>3, <1>4, <2>4, <2>5, <3>1, SameResponse
  <2>7. \A f : Has(y.heard, f) <=> Has(x.heard, f) \/ e = f
    BY <1>3, <2>2, <2>4, HasAppend
  <2>8. EventsOK(y, rest, r)
    <3>1. CASE t.op = "request"
      <4>1. Head(hticks) = Asked(r) /\ y.heard = Append(x.heard, "request")
        BY <1>6, <2>4, <3>1 DEF Asked, e
      <4> HIDE DEF t, x
      <4>2. QED BY <1>3, <1>4, <2>4, <4>1, HearsRequest, ServerTyped, Zenon
    <3>2. CASE t.op = "finish"
      <4>1. Head(hticks) = Finished(r) /\ y.heard = Append(x.heard, "finish")
        BY <1>6, <2>4, <3>2 DEF Finished, e
      <4> HIDE DEF t, x
      <4>2. QED BY <1>3, <1>4, <2>4, <4>1, HearsFinish, ServerTyped, Zenon
    <3>3. QED BY <1>8, <3>1, <3>2
  <2>9. t.op = "finish" => Has(y.heard, "finish")
    BY <2>7 DEF e
  <2> HIDE DEF x, t, rest
  <2>10. QED BY <1>7, <2>1, <2>4, <2>6, <2>7, <2>8, <2>9, Zenon
<1>9. ASSUME NEW z \in Requests, z.srv = x.srv, z.heard = x.heard, z.said = x.said,
             z.headersSent = x.headersSent, z.ended = x.ended, z.cut = x.cut, z.done = x.done,
             z.wire = x.wire, z.writeCh = x.writeCh,
             EventsOK(z, rest, r), Started(z), rq' = [rq EXCEPT ![r] = Flush(z)], t.op # "finish"
      PROVE  HttpInv'
  <2> DEFINE y == Flush(z)
  <2> HIDE DEF r, t, x
  <2>1. Waiting(z, r, hsend) = Waiting(x, r, hsend)
    BY <1>9 DEF Waiting
  <2>2. ResponseOK(z, Waiting(z, r, hsend))
    <3>1. z.cut = x.cut \/ z.cut
      BY <1>9
    <3>2. QED BY <1>3, <1>4, <1>9, <2>1, <3>1, SameResponse
  <2>3. ResponseOK(y, Waiting(y, r, hsend))
    BY <1>9, <2>2, FlushResponse
  <2>4. EventsOK(y, rest, r)
    <3>1. rest \in Seq(HTicks)
      BY RestAt, ServerTyped
    <3> HIDE DEF rest
    <3>2. QED BY <1>3, <1>9, <3>1, FlushKeeps
  <2>5. y \in Requests /\ y.srv = x.srv
    BY <1>9, FlushTypes, Zenon
  <2>6. Has(x.heard, "finish") => Has(y.heard, "finish")
    BY <1>9, FlushHears
  <2> HIDE DEF y, rest
  <2>7. rq' = [rq EXCEPT ![r] = y]
    BY <1>9 DEF y
  <2>8. QED BY <1>7, <1>9, <2>3, <2>4, <2>5, <2>6, <2>7, Zenon
<1>10. CASE t.op = "data"
  <2> DEFINE z == [x EXCEPT !.chunks = x.chunks + 1]
  <2>1. rq' = [rq EXCEPT ![r] = Flush(z)]
    BY <1>5, <1>10
  <2>2. x.chunks + 1 \in Nat
    BY <1>3 DEF Requests
  <2>3. /\ z \in Requests /\ z.srv = x.srv /\ z.heard = x.heard /\ z.said = x.said
        /\ z.headersSent = x.headersSent /\ z.ended = x.ended /\ z.cut = x.cut /\ z.done = x.done
        /\ z.wire = x.wire /\ z.writeCh = x.writeCh /\ z.chunks = x.chunks + 1 /\ z.left = x.left
        /\ z.bodyEnded = x.bodyEnded /\ z.pumping = x.pumping
    <3> HIDE DEF x
    <3>1. QED BY <1>3, <2>2, Zenon DEF Requests
  <2> HIDE DEF z
  <2>4. EventsOK(z, rest, r) /\ Started(z)
    <3>1. Head(hticks) = Chunk(r)
      BY <1>6, <1>10 DEF Chunk
    <3> HIDE DEF t, x, r
    <3>2. QED BY <1>3, <1>4, <2>3, <3>1, ChunkComes, ServerTyped
  <2>5. t.op # "finish"
    BY <1>10
  <2> HIDE DEF t, x, r, rest
  <2>6. QED BY <1>9, <2>1, <2>3, <2>4, <2>5, Zenon
<1>11. CASE t.op = "end"
  <2> DEFINE z == [x EXCEPT !.bodyEnded = TRUE]
  <2>1. rq' = [rq EXCEPT ![r] = Flush(z)]
    BY <1>5, <1>11
  <2>3. /\ z \in Requests /\ z.srv = x.srv /\ z.heard = x.heard /\ z.said = x.said
        /\ z.headersSent = x.headersSent /\ z.ended = x.ended /\ z.cut = x.cut /\ z.done = x.done
        /\ z.wire = x.wire /\ z.writeCh = x.writeCh /\ z.chunks = x.chunks /\ z.left = x.left
        /\ z.bodyEnded /\ z.pumping = x.pumping
    <3> HIDE DEF x
    <3>1. QED BY <1>3, Zenon DEF Requests
  <2> HIDE DEF z
  <2>4. EventsOK(z, rest, r) /\ Started(z)
    <3>1. Head(hticks) = Over(r)
      BY <1>6, <1>11 DEF Over
    <3> HIDE DEF t, x, r
    <3>2. QED BY <1>3, <1>4, <2>3, <3>1, EndComes, ServerTyped
  <2>5. t.op # "finish"
    BY <1>11
  <2> HIDE DEF t, x, r, rest
  <2>6. QED BY <1>9, <2>1, <2>3, <2>4, <2>5, Zenon
<1>12. CASE t.op = "flush"
  <2>1. rq' = [rq EXCEPT ![r] = Flush(x)]
    BY <1>5, <1>12
  <2>2. Started(x)
    <3>1. Begun(x, hticks, r) /\ Head(hticks).r = r /\ Head(hticks).op \notin {"closed", "request"}
      BY <1>4, <1>12 DEF EventsOK
    <3> HIDE DEF t, x, r
    <3>2. QED BY <1>3, <3>1, StartedFirst, ServerTyped
  <2>3. Head(hticks) \notin {Asked(r), Chunk(r), Over(r), Finished(r)}
    BY <1>12 DEF Asked, Chunk, Over, Finished, HTick
  <2>4. EventsOK(x, rest, r)
    <3> HIDE DEF t, x, r
    <3>1. QED BY <1>3, <1>4, <2>3, EventsRun, ServerTyped
  <2>5. t.op # "finish"
    BY <1>12
  <2> HIDE DEF t, x, r, rest
  <2>6. QED BY <1>3, <1>9, <2>1, <2>2, <2>4, <2>5, Zenon
<1>13. QED BY <1>2, <1>8, <1>10, <1>11, <1>12

LEMMA HttpStep == HttpInv /\ HNext => HttpInv'
<1> SUFFICES ASSUME HttpInv, HNext PROVE HttpInv'
  OBVIOUS
<1>1. CASE HRunTick
  <2>1. hticks # <<>>
    BY <1>1 DEF HRunTick
  <2>2. QED BY <1>1, <2>1, ServerHears, RequestHears
<1>2. CASE Unblock
  BY <1>2, UnblockStep
<1>3. CASE \E n \in 1..hs.goSrv : StopListening(n) \/ ShutdownReturns(n) \/ PutsClose(n)
  BY <1>3, HoldStep, ShutdownStep, PutsCloseStep
<1>4. CASE \E r \in DOMAIN rq : Drain(r) \/ Pump(r) \/ ClientReads(r)
  BY <1>4, DrainStep, PumpStep, QuietStep
<1>5. CASE ProcessEnds \/ DoListen \/ DoClose \/ HRef \/ HUnref \/ CloseConns
  BY <1>5, DoListenStep, DoCloseStep, HoldStep, CloseConnsStep
<1>6. CASE \E n \in 1..hs.goSrv : HandleRequest(n)
  BY <1>6, ArrivesStep
<1>7. CASE \E r \in DOMAIN rq : ClientGoes(r) \/ ClientStalls(r) \/ ReqPause(r)
  BY <1>7, QuietStep
<1>8. CASE \E r \in DOMAIN rq : WriteHead(r) \/ FlushHeaders(r) \/ ResWrite(r) \/ ResEnd(r)
  BY <1>8, WritesStep
<1>9. CASE \E r \in DOMAIN rq : OnData(r) \/ ReqResume(r)
  BY <1>9, OnDataStep, ResumeStep
<1>10. QED BY <1>1, <1>2, <1>3, <1>4, <1>5, <1>6, <1>7, <1>8, <1>9 DEF HNext, HWorks

LEMMA HttpStays == HttpInv /\ UNCHANGED hvars => HttpInv'
  BY DEF HttpInv, hvars

\* What the invariant says of a request's events.
LEMMA EventsAre ==
  ASSUME NEW x \in Requests, NEW ticks \in Seq(HTicks), NEW r \in Nat, EventsOK(x, ticks, r),
         NEW h, h = {i \in DOMAIN x.heard : x.heard[i] # "finish"}
  PROVE  /\ h # {} => Head(x.heard) = "request"
         /\ \A e \in h : x.heard[e] = "end" =>
              (\A i \in h : i <= e) /\ x.chunks = 0 /\ Cardinality(h) + x.left = BodyChunks + 2
<1> DEFINE n == Len(x.heard)
<1>1. /\ x.heard \in Seq(ReqEvents) /\ n \in Nat /\ DOMAIN x.heard = 1..n /\ x.left \in Nat /\ x.chunks \in Nat
      /\ \A i \in 1..n : x.heard[i] \in ReqEvents
  BY LenProperties, ElementOfSeq DEF Requests
<1>2. h # {} => Head(x.heard) = "request"
  <2>1. ASSUME NEW i \in h PROVE Head(x.heard) = "request"
    <3>1. x.heard # <<>>
      BY <1>1, EmptySeq
    <3>2. Started(x)
      BY <3>1 DEF EventsOK, Begun
    <3>3. QED BY <1>1, <3>1, <3>2, HeadTailProperties DEF Started
  <2>2. QED BY <2>1
<1>3. ASSUME NEW e \in h, x.heard[e] = "end"
      PROVE  (\A i \in h : i <= e) /\ x.chunks = 0 /\ Cardinality(h) + x.left = BodyChunks + 2
  <2>1. e \in 1..n /\ Has(x.heard, "end")
    BY <1>1, <1>3 DEF Has
  <2>2. EndHeard(x, ticks, r)
    BY <2>1 DEF EventsOK, BodyEnd, EndPumps, EndTicks, EndWaits
  <2>3. PICK p \in 1..n : /\ x.heard[p] = "end"
                          /\ \A i \in 1..n : (i > p => x.heard[i] = "finish") /\ (x.heard[i] = "end" => i = p)
    BY <2>2, Zenon DEF EndHeard
  <2>4. p = e
    BY <1>3, <2>1, <2>3
  <2>5. \A i \in h : i <= e
    BY <1>1, <2>1, <2>3, <2>4
  <2>6. Started(x)
    <3>1. x.heard # <<>>
      BY <2>1, EmptySeq
    <3>2. QED BY <3>1 DEF EventsOK, Begun
  <2> DEFINE A == Spots(x.heard, "data")
  <2>7. IsFiniteSet(A) /\ Cardinality(A) \in Nat /\ A \subseteq 1..n
    BY <1>1, SpotsFinite DEF Tally
  <2>8. h = (A \cup {1}) \cup {e} /\ 1 \notin A /\ e \notin A \cup {1}
    <3>1. \A i \in 1..n : i \in A <=> x.heard[i] = "data"
      BY DEF Spots
    <3> HIDE DEF A
    <3>2. x.heard[1] = "request" /\ 1 \in 1..n /\ \A i \in 1..n : i # 1 => x.heard[i] # "request"
      BY <1>1, <2>1, <2>6 DEF Started
    <3>3. \A i \in 1..n : i \in h <=> x.heard[i] \in {"request", "data", "end"}
      BY <1>1, Zenon DEF ReqEvents
    <3>4. \A i \in 1..n : x.heard[i] = "end" <=> i = e
      BY <1>3, <2>3, <2>4
    <3>5. h \subseteq 1..n
      BY <1>1
    <3>6. QED BY <2>1, <2>7, <3>1, <3>2, <3>3, <3>4, <3>5, ZenonT(40)
  <2> HIDE DEF A
  <2>9. Cardinality(A \cup {1}) = Cardinality(A) + 1 /\ IsFiniteSet(A \cup {1})
    BY <2>7, <2>8, FS_AddElement, Zenon
  <2>10. Cardinality(h) = Cardinality(A) + 1 + 1
    <3> DEFINE B == A \cup {1}
    <3>1. h = B \cup {e} /\ e \notin B /\ IsFiniteSet(B) /\ Cardinality(B) = Cardinality(A) + 1
      BY <2>8, <2>9
    <3> HIDE DEF B
    <3>2. Cardinality(B \cup {e}) = Cardinality(B) + 1
      BY <3>1, FS_AddElement, Zenon
    <3>3. QED BY <3>1, <3>2, Zenon
  <2>11. x.chunks = 0 /\ Tally(ticks, Chunk(r)) = 0
    <3>1. ~Has(ticks, Chunk(r))
      BY <2>2 DEF EndHeard
    <3>2. QED BY <2>2, <3>1, TallyZero DEF EndHeard
  <2>12. Cardinality(A) + 0 + 0 + x.left = BodyChunks
    BY <2>11 DEF EventsOK, Pumped, Tally, A
  <2> DEFINE d == Cardinality(A)
             l == x.left
  <2>13. d \in Nat /\ l \in Nat /\ d + 0 + 0 + l = BodyChunks /\ Cardinality(h) = d + 1 + 1
    BY <1>1, <2>7, <2>10, <2>12
  <2> HIDE DEF d, l
  <2>14. Cardinality(h) + l = BodyChunks + 2
    BY <2>13
  <2>15. QED BY <2>5, <2>11, <2>14 DEF l
<1>4. QED BY <1>2, <1>3, Zenon

LEMMA HttpIs == HttpInv => ResponseInOrder /\ RequestInOrder /\ CloseAfterFinish /\ HttpHeld
<1> SUFFICES ASSUME HttpInv PROVE ResponseInOrder /\ RequestInOrder /\ CloseAfterFinish /\ HttpHeld
  OBVIOUS
<1>1. DOMAIN rq = 1..Len(rq)
  BY ServerTyped, LenProperties
<1>2. ASSUME NEW r \in 1..Len(rq)
      PROVE  /\ IsPrefix(rq[r].wire, rq[r].said) \/ rq[r].cut
             /\ Cardinality({i \in DOMAIN rq[r].said : rq[r].said[i] = HeadItem}) <= 1
             /\ rq[r].said # <<>> => Head(rq[r].said) = HeadItem
             /\ Contains(rq[r].heard, "finish") => rq[r].ended /\ (rq[r].cut \/ rq[r].wire = rq[r].said)
  <2> DEFINE x == rq[r]
             queue == Waiting(x, r, hsend)
  <2>1. x \in Requests /\ RequestOK(x, hticks, r, hsend)
    BY ServerTyped
  <2>2. queue \in Seq(HItems)
    BY <2>1, ServerTyped, AppendProperties, Zenon DEF Waiting, Requests
  <2>3. ResponseOK(x, queue)
    BY <2>1 DEF RequestOK
  <2> HIDE DEF queue
  <2>4. /\ IsPrefix(x.wire, x.said) \/ x.cut
        /\ Cardinality({i \in DOMAIN x.said : x.said[i] = HeadItem}) <= 1
        /\ x.said # <<>> => Head(x.said) = HeadItem
        /\ x.done => x.ended /\ (x.cut \/ x.wire = x.said)
    BY <2>1, <2>2, <2>3, ResponseIs, Zenon
  <2>5. Contains(x.heard, "finish") => x.done
    BY <2>1 DEF RequestOK, EventsOK, FinishOK, Has, Contains
  <2>6. QED BY <2>4, <2>5
<1>3. ResponseInOrder
  BY <1>1, <1>2, Zenon DEF ResponseInOrder
<1>4. RequestInOrder
  <2>1. ASSUME NEW r \in 1..Len(rq)
        PROVE  LET x == rq[r]
                   h == {i \in DOMAIN x.heard : x.heard[i] # "finish"}
               IN  /\ h # {} => Head(x.heard) = "request"
                   /\ \A e \in h : x.heard[e] = "end" =>
                        (\A i \in h : i <= e) /\ x.chunks = 0 /\ Cardinality(h) + x.left = BodyChunks + 2
    <3> DEFINE x == rq[r]
               h == {i \in DOMAIN x.heard : x.heard[i] # "finish"}
    <3>1. x \in Requests /\ EventsOK(x, hticks, r) /\ r \in Nat /\ hticks \in Seq(HTicks)
      BY ServerTyped DEF RequestOK
    <3>2. h = {i \in DOMAIN x.heard : x.heard[i] # "finish"}
      OBVIOUS
    <3>3. /\ h # {} => Head(x.heard) = "request"
          /\ \A e \in h : x.heard[e] = "end" =>
               (\A i \in h : i <= e) /\ x.chunks = 0 /\ Cardinality(h) + x.left = BodyChunks + 2
      BY <3>1, <3>2, EventsAre, Zenon
    <3>4. QED BY <3>3, Zenon
  <2>2. QED BY <1>1, <2>1, Zenon DEF RequestInOrder
<1>5. CloseAfterFinish
  <2>1. ClosedOK(hs, rq, hticks) /\ DOMAIN hs.heard = 1..Len(hs.heard)
    BY ServerTyped, LenProperties DEF HttpInv, HttpOK, HServers
  <2>2. QED BY <1>1, <2>1, Zenon DEF ClosedOK, CloseAfterFinish, Has, Contains
<1>6. HttpHeld
  BY ServerTyped DEF HoldOK, HttpHeld
<1>7. QED BY <1>3, <1>4, <1>5, <1>6

-----------------------------------------------------------------------------
(* What comes once, and what comes before what *)

\* s has e at one place at the most.
Single(s, e) == \A i, j \in 1..Len(s) : s[i] = e /\ s[j] = e => i = j
\* What is a, once, in the queue t, or b, once, in the log s, and not both.
OnceIn(t, a, s, b) == Single(t, a) /\ Single(s, b) /\ ~(Has(t, a) /\ Has(s, b))
\* Behind an a there is no b.
NoLater(s, a, b) == \A i, j \in 1..Len(s) : i < j /\ s[i] = a => s[j] # b
\* Whatever is in A is before whatever is in B.
Ordered(s, A, B) == \A i, j \in 1..Len(s) : s[i] \in A /\ s[j] \in B => i < j

LEMMA AppendAt ==
  ASSUME NEW S, NEW s \in Seq(S), NEW x \in S
  PROVE  /\ Len(s) \in Nat /\ Append(s, x) \in Seq(S) /\ Len(Append(s, x)) = Len(s) + 1
         /\ Append(s, x)[Len(s) + 1] = x /\ \A i \in 1..Len(s) : Append(s, x)[i] = s[i]
         /\ \A i \in 1..Len(Append(s, x)) : i \in 1..Len(s) \/ i = Len(s) + 1
<1>1. /\ Len(s) \in Nat /\ Append(s, x) \in Seq(S) /\ Len(Append(s, x)) = Len(s) + 1
      /\ Append(s, x)[Len(s) + 1] = x /\ \A i \in 1..Len(s) : Append(s, x)[i] = s[i]
  BY AppendProperties, LenProperties
<1>2. QED BY <1>1

LEMMA TailAt ==
  ASSUME NEW S, NEW s \in Seq(S), s # <<>>
  PROVE  /\ Len(s) \in Nat /\ Tail(s) \in Seq(S) /\ Head(s) \in S /\ Head(s) = s[1] /\ 1 \in 1..Len(s)
         /\ \A i \in 1..Len(Tail(s)) : Tail(s)[i] = s[i + 1] /\ i + 1 \in 1..Len(s) /\ i + 1 # 1
BY HeadTailProperties, LenProperties, EmptySeq

LEMMA SingleAppend ==
  ASSUME NEW S, NEW s \in Seq(S), NEW x \in S, NEW e, Single(s, e), x = e => ~Has(s, e)
  PROVE  Single(Append(s, x), e)
<1> DEFINE y == Append(s, x)
           n == Len(s)
<1>1. /\ n \in Nat /\ y[n + 1] = x /\ \A i \in 1..n : y[i] = s[i]
      /\ \A i \in 1..Len(y) : i \in 1..n \/ i = n + 1
  BY AppendAt
<1> HIDE DEF y
<1>2. ASSUME NEW i \in 1..Len(y), NEW j \in 1..Len(y), y[i] = e, y[j] = e PROVE i = j
  <2>1. CASE i \in 1..n /\ j \in 1..n
    BY <1>1, <1>2, <2>1 DEF Single
  <2>2. CASE i \in 1..n /\ j = n + 1
    BY <1>1, <1>2, <2>2 DEF Has
  <2>3. CASE i = n + 1 /\ j \in 1..n
    BY <1>1, <1>2, <2>3 DEF Has
  <2>4. QED BY <1>1, <2>1, <2>2, <2>3
<1>3. QED BY <1>2 DEF Single, y

LEMMA SingleTail ==
  ASSUME NEW S, NEW s \in Seq(S), s # <<>>, NEW e, Single(s, e)
  PROVE  Single(Tail(s), e) /\ (Head(s) = e => ~Has(Tail(s), e))
<1> DEFINE y == Tail(s)
<1>1. /\ Len(s) \in Nat /\ Head(s) = s[1] /\ 1 \in 1..Len(s)
      /\ \A i \in 1..Len(y) : y[i] = s[i + 1] /\ i + 1 \in 1..Len(s) /\ i + 1 # 1
  BY TailAt
<1>2. Len(y) \in Nat
  BY TailAt, LenProperties
<1> HIDE DEF y
<1>3. ASSUME NEW i \in 1..Len(y), NEW j \in 1..Len(y), y[i] = e, y[j] = e PROVE i = j
  <2>1. i + 1 = j + 1
    BY <1>1, <1>3, Zenon DEF Single
  <2>2. QED BY <1>2, <2>1
<1>4. ASSUME Head(s) = e, NEW i \in 1..Len(y), y[i] = e PROVE FALSE
  <2>1. i + 1 = 1
    BY <1>1, <1>4 DEF Single
  <2>2. QED BY <1>1, <2>1
<1>5. QED BY <1>3, <1>4 DEF Single, Has, y

\* The queue gets something else; it gets an a; the log gets something else;
\* an a leaves the queue, and perhaps goes to the log as b; b is logged.
LEMMA OncePut ==
  ASSUME NEW S, NEW t \in Seq(S), NEW a, NEW s, NEW b, OnceIn(t, a, s, b), NEW x \in S,
         x = a => ~Has(t, a) /\ ~Has(s, b)
  PROVE  OnceIn(Append(t, x), a, s, b)
<1>1. Has(Append(t, x), a) <=> Has(t, a) \/ x = a
  BY HasAppend
<1>2. QED BY <1>1, SingleAppend DEF OnceIn

LEMMA OnceLog ==
  ASSUME NEW S, NEW s \in Seq(S), NEW a, NEW t, NEW b, OnceIn(t, a, s, b), NEW x \in S,
         x = b => ~Has(t, a) /\ ~Has(s, b)
  PROVE  OnceIn(t, a, Append(s, x), b)
<1>1. Has(Append(s, x), b) <=> Has(s, b) \/ x = b
  BY HasAppend
<1>2. QED BY <1>1, SingleAppend DEF OnceIn

LEMMA OnceRuns ==
  ASSUME NEW S, NEW t \in Seq(S), t # <<>>, NEW a, NEW s, NEW b, OnceIn(t, a, s, b)
  PROVE  /\ OnceIn(Tail(t), a, s, b)
         /\ Head(t) = a => ~Has(Tail(t), a) /\ ~Has(s, b)
<1>1. Has(t, a) <=> Head(t) = a \/ Has(Tail(t), a)
  BY HasTail
<1>2. QED BY <1>1, SingleTail DEF OnceIn

LEMMA NoLaterAppend ==
  ASSUME NEW S, NEW s \in Seq(S), NEW x \in S, NEW a, NEW b, NoLater(s, a, b), x = b => ~Has(s, a)
  PROVE  NoLater(Append(s, x), a, b)
<1> DEFINE y == Append(s, x)
           n == Len(s)
<1>1. /\ n \in Nat /\ y[n + 1] = x /\ \A i \in 1..n : y[i] = s[i]
      /\ \A i \in 1..Len(y) : i \in 1..n \/ i = n + 1
  BY AppendAt
<1> HIDE DEF y
<1>2. ASSUME NEW i \in 1..Len(y), NEW j \in 1..Len(y), i < j, y[i] = a PROVE y[j] # b
  <2>1. CASE i \in 1..n /\ j \in 1..n
    BY <1>1, <1>2, <2>1 DEF NoLater
  <2>2. CASE i \in 1..n /\ j = n + 1
    BY <1>1, <1>2, <2>2 DEF Has
  <2>3. QED BY <1>1, <1>2, <2>1, <2>2
<1>3. QED BY <1>2 DEF NoLater, y

LEMMA NoLaterJoin ==
  ASSUME NEW S, NEW s \in Seq(S), NEW t \in Seq(S), NEW a, NEW b, NoLater(s, a, b), ~Has(s, a), ~Has(t, a)
  PROVE  NoLater(s \o t, a, b)
<1>1. ~Has(s \o t, a)
  BY HasJoin
<1>2. QED BY <1>1 DEF NoLater, Has

LEMMA OrderedAppend ==
  ASSUME NEW S, NEW s \in Seq(S), NEW x \in S, NEW A, NEW B, Ordered(s, A, B),
         x \in A => x \notin B /\ \A i \in 1..Len(s) : s[i] \notin B
  PROVE  Ordered(Append(s, x), A, B)
<1> DEFINE y == Append(s, x)
           n == Len(s)
<1>1. /\ n \in Nat /\ y[n + 1] = x /\ \A i \in 1..n : y[i] = s[i]
      /\ \A i \in 1..Len(y) : i \in 1..n \/ i = n + 1
  BY AppendAt
<1> HIDE DEF y
<1>2. ASSUME NEW i \in 1..Len(y), NEW j \in 1..Len(y), y[i] \in A, y[j] \in B PROVE i < j
  <2>1. CASE i \in 1..n /\ j \in 1..n
    BY <1>1, <1>2, <2>1 DEF Ordered
  <2>2. CASE i = n + 1
    BY <1>1, <1>2, <2>2
  <2>3. CASE i \in 1..n /\ j = n + 1
    BY <1>1, <2>3
  <2>4. QED BY <1>1, <2>1, <2>2, <2>3
<1>3. QED BY <1>2 DEF Ordered, y

LEMMA OrderedTail ==
  ASSUME NEW S, NEW s \in Seq(S), s # <<>>, NEW A, NEW B, Ordered(s, A, B)
  PROVE  /\ Ordered(Tail(s), A, B)
         /\ Head(s) \in B => \A i \in 1..Len(s) : s[i] \notin A
<1> DEFINE y == Tail(s)
<1>1. /\ Len(s) \in Nat /\ Head(s) = s[1] /\ 1 \in 1..Len(s)
      /\ \A i \in 1..Len(y) : y[i] = s[i + 1] /\ i + 1 \in 1..Len(s) /\ i + 1 # 1
  BY TailAt
<1>2. Len(y) \in Nat
  BY TailAt, LenProperties
<1> HIDE DEF y
<1>3. ASSUME NEW i \in 1..Len(y), NEW j \in 1..Len(y), y[i] \in A, y[j] \in B PROVE i < j
  <2>1. i + 1 < j + 1
    BY <1>1, <1>3 DEF Ordered
  <2>2. QED BY <1>2, <2>1
<1>4. ASSUME Head(s) \in B, NEW i \in 1..Len(s), s[i] \in A PROVE FALSE
  <2>1. i < 1
    BY <1>1, <1>4 DEF Ordered
  <2>2. QED BY <1>1, <2>1
<1>5. QED BY <1>3, <1>4 DEF Ordered, y

-----------------------------------------------------------------------------
(* HttpClient *)

QTicks ==
  {"socket", "finish", "close", "abort", "errorAfterEnd", "destroyed", "nativeError", "response",
   "data", "bodyError", "end", "resume", "endReadable", "resClose"}

QEvents == {"socket", "finish", "close", "abort", "errorAfterEnd", "error", "response"}
RHeard == {"data", "end", "error", "close"}
ClientRequests ==
  [native : BOOLEAN, finished : BOOLEAN, destroyed : BOOLEAN, aborted : BOOLEAN, closed : BOOLEAN,
   said : Nat, bodyCh : Seq(Nat), chClosed : BOOLEAN, sending : Nat, feeder : {"idle", "run", "left", "closed"},
   pipeShut : BOOLEAN, wire : Seq(Nat), cancelled : BOOLEAN, do : {"no", "dial", "body", "done"}, left : Nat,
   res : {"no", "live", "destroyed"}, flowing : BOOLEAN, buffer : Nat, ended : BOOLEAN, complete : BOOLEAN,
   errored : BOOLEAN, err : {"none", "other", "reset"}, exited : BOOLEAN, late : Nat,
   ticks : Seq(QTicks), events : Seq(QEvents), heard : Seq(RHeard)]

\* The wire has the first chunks; as long as there is a feeder, the channel
\* has the next ones, and a send that waits has the last.  There are
\* goroutines when the native request is made.
BodyOK(s) ==
  /\ \A i \in 1..Len(s.wire) : s.wire[i] = i
  /\ Len(s.wire) <= s.said
  /\ s.feeder \in {"idle", "run"} =>
       /\ \A i \in 1..Len(s.bodyCh) : s.bodyCh[i] = Len(s.wire) + i
       /\ s.sending = 0 => Len(s.wire) + Len(s.bodyCh) = s.said
       /\ s.sending # 0 => s.sending = s.said /\ Len(s.wire) + Len(s.bodyCh) + 1 = s.said
  /\ s.native \/ (s.feeder = "idle" /\ s.do = "no")

\* What a tick that waits, or an event that was heard, says of the request.
SaysOK(s) ==
  /\ Has(s.ticks, "finish") \/ Has(s.events, "finish") => s.finished
  /\ Has(s.ticks, "close") \/ Has(s.events, "close") => s.closed
  /\ Has(s.ticks, "abort") \/ Has(s.events, "abort") => s.aborted
  /\ Has(s.ticks, "response") \/ Has(s.events, "response") => s.do \notin {"no", "dial"}
  /\ Has(s.ticks, "destroyed") \/ Has(s.events, "error") => s.destroyed
  /\ Has(s.ticks, "socket") => s.events = <<>> /\ s.ticks[1] = "socket"
  /\ Has(s.ticks, "nativeError") => s.res = "no" /\ s.do = "done" /\ ~Has(s.ticks, "response")
  /\ s.closed /\ ~s.destroyed => Has(s.heard, "end")
  /\ s.closed /\ Has(s.ticks, "destroyed") => Has(s.heard, "end")

\* What comes once.
OnceOK(s) ==
  /\ OnceIn(s.ticks, "socket", s.events, "socket") /\ OnceIn(s.ticks, "finish", s.events, "finish")
  /\ OnceIn(s.ticks, "close", s.events, "close") /\ OnceIn(s.ticks, "response", s.events, "response")
  /\ OnceIn(s.ticks, "destroyed", s.events, "error")
  /\ Single(s.ticks, "end")

\* What comes after what.
AfterOK(s) ==
  /\ NoLater(s.events, "close", "socket") /\ NoLater(s.events, "abort", "response")
  /\ Has(s.heard, "end") \/ NoLater(s.events, "close", "error")
  /\ NoLater(s.heard, "end", "data") /\ NoLater(s.heard, "close", "data")
  /\ Ordered(s.ticks, {"response"}, {"data", "bodyError", "end"})
  /\ Ordered(s.ticks, {"data", "bodyError"}, {"end"})

\* Where the response is.
ResponseAt(s) ==
  /\ s.res = "no" => /\ s.heard = <<>> /\ s.buffer = 0 /\ ~s.ended
                     /\ ~Has(s.ticks, "resume") /\ ~Has(s.ticks, "endReadable") /\ ~Has(s.ticks, "resClose")
  /\ Has(s.ticks, "response") => s.res = "no"
  /\ s.do \in {"no", "dial"} => /\ s.res = "no" /\ s.left = ResponseChunks /\ ~Has(s.ticks, "data")
  /\ s.do # "done" => ~Has(s.ticks, "bodyError") /\ ~Has(s.ticks, "end") /\ ~s.ended
  /\ s.ended => ~Has(s.ticks, "data") /\ ~Has(s.ticks, "bodyError") /\ ~Has(s.ticks, "end")
  /\ Has(s.ticks, "endReadable") => s.ended /\ s.left = 0
  /\ Has(s.ticks, "resClose") \/ Has(s.heard, "end") \/ Has(s.heard, "close") => s.res = "destroyed"

\* Every chunk is somewhere; a body that was cut says so.
AllChunks(s) == Tally(s.heard, "data") + s.buffer + Tally(s.ticks, "data") + s.left
SumsOK(s) ==
  /\ s.res # "no" \/ Has(s.ticks, "response") \/ s.do \in {"no", "dial"} => AllChunks(s) = ResponseChunks
  /\ Has(s.heard, "end") => Tally(s.heard, "data") = ResponseChunks

CutOK(s) ==
  s.do = "done" /\ s.left > 0 /\ (s.res = "live" \/ Has(s.ticks, "response")) => Has(s.ticks, "bodyError")

ChunksOK(s) == SumsOK(s) /\ CutOK(s)

ClientOK(s) ==
  s \in ClientRequests /\ BodyOK(s) /\ SaysOK(s) /\ OnceOK(s) /\ AfterOK(s) /\ ResponseAt(s) /\ ChunksOK(s)

ClientInv == ClientOK(q) /\ (q.aborted => q.destroyed)

LEMMA ClientFields ==
  ASSUME NEW s \in ClientRequests
  PROVE  /\ s.ticks \in Seq(QTicks) /\ s.events \in Seq(QEvents) /\ s.heard \in Seq(RHeard)
         /\ s.wire \in Seq(Nat) /\ s.bodyCh \in Seq(Nat)
         /\ s.said \in Nat /\ s.sending \in Nat /\ s.left \in Nat /\ s.buffer \in Nat
         /\ Len(s.ticks) \in Nat /\ Len(s.events) \in Nat /\ Len(s.heard) \in Nat
         /\ Len(s.wire) \in Nat /\ Len(s.bodyCh) \in Nat
         /\ s.do \in {"no", "dial", "body", "done"} /\ s.res \in {"no", "live", "destroyed"}
         /\ s.finished \in BOOLEAN /\ s.destroyed \in BOOLEAN /\ s.closed \in BOOLEAN /\ s.aborted \in BOOLEAN
         /\ s.ended \in BOOLEAN /\ s.native \in BOOLEAN /\ s.errored \in BOOLEAN /\ s.cancelled \in BOOLEAN
         /\ Tally(s.heard, "data") \in Nat /\ Tally(s.ticks, "data") \in Nat
<1>1. /\ s.ticks \in Seq(QTicks) /\ s.events \in Seq(QEvents) /\ s.heard \in Seq(RHeard)
      /\ s.wire \in Seq(Nat) /\ s.bodyCh \in Seq(Nat)
  BY DEF ClientRequests
<1>2. /\ Len(s.ticks) \in Nat /\ Len(s.events) \in Nat /\ Len(s.heard) \in Nat
      /\ Len(s.wire) \in Nat /\ Len(s.bodyCh) \in Nat
  BY <1>1, LenProperties
<1>3. Tally(s.heard, "data") \in Nat /\ Tally(s.ticks, "data") \in Nat
  BY <1>1, SpotsFinite
<1>4. QED BY <1>1, <1>2, <1>3 DEF ClientRequests

\* What a step leaves as it was.
SameBody(s, y) ==
  /\ y.wire = s.wire /\ y.said = s.said /\ y.bodyCh = s.bodyCh /\ y.sending = s.sending /\ y.feeder = s.feeder
  /\ y.native = s.native /\ y.do = s.do

SameFlags(s, y) ==
  y.finished = s.finished /\ y.closed = s.closed /\ y.aborted = s.aborted /\ y.destroyed = s.destroyed

SamePlace(s, y) ==
  y.res = s.res /\ y.buffer = s.buffer /\ y.ended = s.ended /\ y.left = s.left /\ y.do = s.do

SameLogs(s, y) == y.ticks = s.ticks /\ y.events = s.events /\ y.heard = s.heard
SameRest(s, y) ==
  /\ y.native = s.native /\ y.chClosed = s.chClosed /\ y.pipeShut = s.pipeShut /\ y.cancelled = s.cancelled
  /\ y.flowing = s.flowing /\ y.complete = s.complete /\ y.errored = s.errored

TickIs(s, x, y) ==
  /\ y \in ClientRequests /\ y.ticks = Append(s.ticks, x) /\ y.events = s.events /\ y.heard = s.heard
  /\ SameBody(s, y) /\ SameFlags(s, y) /\ SamePlace(s, y) /\ SameRest(s, y)

EmitIs(s, e, y) ==
  /\ y \in ClientRequests /\ y.events = Append(s.events, e) /\ y.ticks = s.ticks /\ y.heard = s.heard
  /\ SameBody(s, y) /\ SameFlags(s, y) /\ SamePlace(s, y) /\ SameRest(s, y)

HearsIs(s, e, y) ==
  /\ y \in ClientRequests /\ y.heard = Append(s.heard, e) /\ y.ticks = s.ticks /\ y.events = s.events
  /\ SameBody(s, y) /\ SameFlags(s, y) /\ SamePlace(s, y) /\ SameRest(s, y)

LEMMA QTickIs ==
  ASSUME NEW s \in ClientRequests, NEW x \in QTicks
  PROVE  TickIs(s, x, QTick(s, x))
<1> DEFINE h == Append(s.ticks, x)
           y == QTick(s, x)
<1>1. h \in Seq(QTicks) /\ y = [s EXCEPT !.ticks = h]
  BY ClientFields, AppendProperties DEF QTick
<1> HIDE DEF h, y
<1>2. y \in ClientRequests /\ y.ticks = h
  BY <1>1, ZenonT(40) DEF ClientRequests
<1>3. y.events = s.events /\ y.heard = s.heard
  BY <1>1 DEF ClientRequests
<1>4. SameBody(s, y) /\ SameFlags(s, y)
  BY <1>1 DEF ClientRequests, SameBody, SameFlags
<1>5. SamePlace(s, y) /\ SameRest(s, y)
  BY <1>1 DEF ClientRequests, SamePlace, SameRest
<1>6. TickIs(s, x, y)
  BY <1>2, <1>3, <1>4, <1>5 DEF TickIs, h
<1>7. QED BY <1>6 DEF y

LEMMA QEmitIs ==
  ASSUME NEW s \in ClientRequests, NEW x \in QEvents
  PROVE  EmitIs(s, x, QEmit(s, x))
<1> DEFINE h == Append(s.events, x)
           y == QEmit(s, x)
<1>1. h \in Seq(QEvents) /\ y = [s EXCEPT !.events = h]
  BY ClientFields, AppendProperties DEF QEmit
<1> HIDE DEF h, y
<1>2. y \in ClientRequests /\ y.events = h
  BY <1>1, ZenonT(40) DEF ClientRequests
<1>3. y.ticks = s.ticks /\ y.heard = s.heard
  BY <1>1 DEF ClientRequests
<1>4. SameBody(s, y) /\ SameFlags(s, y)
  BY <1>1 DEF ClientRequests, SameBody, SameFlags
<1>5. SamePlace(s, y) /\ SameRest(s, y)
  BY <1>1 DEF ClientRequests, SamePlace, SameRest
<1>6. EmitIs(s, x, y)
  BY <1>2, <1>3, <1>4, <1>5 DEF EmitIs, h
<1>7. QED BY <1>6 DEF y

LEMMA RHearsIs ==
  ASSUME NEW s \in ClientRequests, NEW x \in RHeard
  PROVE  HearsIs(s, x, RHears(s, x))
<1> DEFINE h == Append(s.heard, x)
           y == RHears(s, x)
<1>1. h \in Seq(RHeard) /\ y = [s EXCEPT !.heard = h]
  BY ClientFields, AppendProperties DEF RHears
<1> HIDE DEF h, y
<1>2. y \in ClientRequests /\ y.heard = h
  BY <1>1, ZenonT(40) DEF ClientRequests
<1>3. y.ticks = s.ticks /\ y.events = s.events
  BY <1>1 DEF ClientRequests
<1>4. SameBody(s, y) /\ SameFlags(s, y)
  BY <1>1 DEF ClientRequests, SameBody, SameFlags
<1>5. SamePlace(s, y) /\ SameRest(s, y)
  BY <1>1 DEF ClientRequests, SamePlace, SameRest
<1>6. HearsIs(s, x, y)
  BY <1>2, <1>3, <1>4, <1>5 DEF HearsIs, h
<1>7. QED BY <1>6 DEF y

LEMMA BodyStays == ASSUME NEW s, NEW y, BodyOK(s), SameBody(s, y) PROVE BodyOK(y)
BY Zenon DEF BodyOK, SameBody

\* What nobody looks at changes.
LEMMA Alike ==
  ASSUME NEW s, ClientOK(s), NEW y \in ClientRequests,
         SameBody(s, y), SameFlags(s, y), SamePlace(s, y), SameLogs(s, y)
  PROVE  ClientOK(y)
<1>1. BodyOK(y)
  BY Zenon DEF ClientOK, BodyOK, SameBody
<1>2. SaysOK(y) /\ OnceOK(y)
  BY DEF ClientOK, SaysOK, OnceOK, SameFlags, SamePlace, SameLogs
<1>3. AfterOK(y) /\ ResponseAt(y)
  BY DEF ClientOK, AfterOK, ResponseAt, SamePlace, SameLogs
<1>4. ChunksOK(y)
  BY DEF ClientOK, ChunksOK, SumsOK, CutOK, AllChunks, SamePlace, SameLogs
<1>5. QED BY <1>1, <1>2, <1>3, <1>4 DEF ClientOK

\* When a tick may be put.
TickMay(s, x) ==
  /\ x \in QTicks \ {"socket", "data", "bodyError"}
  /\ x = "finish" => s.finished /\ ~Has(s.ticks, "finish") /\ ~Has(s.events, "finish")
  /\ x = "close" => s.closed /\ ~Has(s.ticks, "close") /\ ~Has(s.events, "close")
  /\ x = "abort" => s.aborted
  /\ x = "destroyed" =>
       /\ s.destroyed /\ ~Has(s.ticks, "destroyed")
       /\ ~Has(s.events, "error") /\ (s.closed => Has(s.heard, "end"))
  /\ x = "nativeError" => s.res = "no" /\ s.do = "done" /\ ~Has(s.ticks, "response")
  /\ x = "response" =>
       /\ s.do = "body" /\ s.res = "no" /\ AllChunks(s) = ResponseChunks
       /\ ~Has(s.ticks, "response") /\ ~Has(s.events, "response")
       /\ ~Has(s.ticks, "data") /\ ~Has(s.ticks, "bodyError") /\ ~Has(s.ticks, "end")
       /\ ~Has(s.ticks, "nativeError")
  /\ x = "end" => s.do = "done" /\ ~s.ended /\ ~Has(s.ticks, "end")
  /\ x \in {"resume", "endReadable", "resClose"} => s.res # "no"
  /\ x = "endReadable" => s.ended /\ s.left = 0
  /\ x = "resClose" => s.res = "destroyed"

LEMMA PutTick ==
  ASSUME NEW s, ClientOK(s), NEW x, TickMay(s, x)
  PROVE  ClientOK(QTick(s, x)) /\ TickIs(s, x, QTick(s, x))
<1> DEFINE y == QTick(s, x)
<1>1. s \in ClientRequests /\ x \in QTicks /\ x \notin {"socket", "data", "bodyError"}
  BY DEF ClientOK, TickMay
<1>2. TickIs(s, x, y)
  BY <1>1, QTickIs
<1> HIDE DEF y
<1>3. y \in ClientRequests /\ SameFlags(s, y) /\ SamePlace(s, y) /\ y.ticks = Append(s.ticks, x)
      /\ y.events = s.events /\ y.heard = s.heard
  BY <1>2 DEF TickIs
<1>4. s.ticks \in Seq(QTicks) /\ y.ticks \in Seq(QTicks)
  BY <1>1, <1>3, ClientFields
<1>5. \A a : Has(y.ticks, a) <=> Has(s.ticks, a) \/ x = a
  BY <1>1, <1>3, <1>4, HasAppend
<1>6. Tally(y.ticks, "data") = Tally(s.ticks, "data")
  <2>1. Tally(y.ticks, "data") = Tally(s.ticks, "data") + (IF x = "data" THEN 1 ELSE 0) /\ Tally(s.ticks, "data") \in Nat
    BY <1>1, <1>3, <1>4, TallyAppend, SpotsFinite
  <2>2. QED BY <1>1, <2>1
<1>7. BodyOK(y)
  BY <1>2, Zenon DEF ClientOK, BodyOK, SameBody, TickIs
<1>8. Has(s.ticks, "socket") => y.ticks[1] = s.ticks[1]
  <2>1. SUFFICES ASSUME Has(s.ticks, "socket") PROVE y.ticks[1] = s.ticks[1]
    OBVIOUS
  <2>2. Len(s.ticks) \in Nat /\ 1 \in 1..Len(s.ticks)
    BY <1>1, <2>1, ClientFields DEF Has
  <2>3. QED BY <1>1, <1>3, <1>4, <2>2, AppendAt
<1>9. SaysOK(y)
  BY <1>1, <1>3, <1>5, <1>8 DEF ClientOK, SaysOK, TickMay, SameFlags, SamePlace
<1>10. OnceOK(y)
  <2>1. OnceOK(s)
    BY DEF ClientOK
  <2>2. OnceIn(y.ticks, "socket", y.events, "socket")
    BY <1>1, <1>3, <1>4, <2>1, OncePut DEF OnceOK
  <2>3. OnceIn(y.ticks, "finish", y.events, "finish")
    BY <1>1, <1>3, <1>4, <2>1, OncePut DEF OnceOK, TickMay
  <2>4. OnceIn(y.ticks, "close", y.events, "close")
    BY <1>1, <1>3, <1>4, <2>1, OncePut DEF OnceOK, TickMay
  <2>5. OnceIn(y.ticks, "response", y.events, "response")
    BY <1>1, <1>3, <1>4, <2>1, OncePut DEF OnceOK, TickMay
  <2>6. OnceIn(y.ticks, "destroyed", y.events, "error")
    BY <1>1, <1>3, <1>4, <2>1, OncePut DEF OnceOK, TickMay
  <2>7. Single(y.ticks, "end")
    BY <1>1, <1>3, <1>4, <2>1, SingleAppend DEF OnceOK, TickMay
  <2>8. QED BY <2>2, <2>3, <2>4, <2>5, <2>6, <2>7 DEF OnceOK
<1>11. AfterOK(y)
  <2>1. AfterOK(s)
    BY DEF ClientOK
  <2>2. Ordered(y.ticks, {"response"}, {"data", "bodyError", "end"})
    <3>1. x = "response" => \A i \in 1..Len(s.ticks) : s.ticks[i] \notin {"data", "bodyError", "end"}
      BY DEF TickMay, Has
    <3>2. QED BY <1>1, <1>3, <1>4, <2>1, <3>1, OrderedAppend, Zenon DEF AfterOK
  <2>3. Ordered(y.ticks, {"data", "bodyError"}, {"end"})
    BY <1>1, <1>3, <1>4, <2>1, OrderedAppend DEF AfterOK
  <2>4. QED BY <1>3, <2>1, <2>2, <2>3 DEF AfterOK
<1>12. ResponseAt(y)
  BY <1>1, <1>3, <1>5 DEF ClientOK, ResponseAt, TickMay, SamePlace
<1>13. ChunksOK(y)
  BY <1>1, <1>3, <1>5, <1>6 DEF ClientOK, ChunksOK, SumsOK, CutOK, AllChunks, TickMay, SamePlace
<1>14. ClientOK(y)
  BY <1>3, <1>7, <1>9, <1>10, <1>11, <1>12, <1>13 DEF ClientOK
<1>15. QED BY <1>2, <1>14 DEF y

\* When an event may be emitted.
EventMay(s, e) ==
  /\ e \in QEvents /\ ~Has(s.ticks, "socket")
  /\ e = "socket" => ~Has(s.events, "socket") /\ ~Has(s.events, "close")
  /\ e = "finish" => s.finished /\ ~Has(s.ticks, "finish") /\ ~Has(s.events, "finish")
  /\ e = "close" => s.closed /\ ~Has(s.ticks, "close") /\ ~Has(s.events, "close")
  /\ e = "abort" => s.aborted
  /\ e = "response" => /\ s.do \notin {"no", "dial"} /\ ~Has(s.ticks, "response")
                       /\ ~Has(s.events, "response") /\ ~Has(s.events, "abort")
  /\ e = "error" => /\ s.destroyed /\ ~Has(s.ticks, "destroyed") /\ ~Has(s.events, "error")
                    /\ Has(s.heard, "end") \/ ~Has(s.events, "close")

LEMMA PutEvent ==
  ASSUME NEW s, ClientOK(s), NEW x, EventMay(s, x)
  PROVE  ClientOK(QEmit(s, x)) /\ EmitIs(s, x, QEmit(s, x))
<1> DEFINE y == QEmit(s, x)
<1>1. s \in ClientRequests /\ x \in QEvents
  BY DEF ClientOK, EventMay
<1>2. EmitIs(s, x, y)
  BY <1>1, QEmitIs
<1> HIDE DEF y
<1>3. y \in ClientRequests /\ SameFlags(s, y) /\ SamePlace(s, y) /\ y.events = Append(s.events, x)
      /\ y.ticks = s.ticks /\ y.heard = s.heard
  BY <1>2 DEF EmitIs
<1>4. s.events \in Seq(QEvents) /\ y.events \in Seq(QEvents)
  BY <1>1, <1>3, ClientFields
<1>5. \A a : Has(y.events, a) <=> Has(s.events, a) \/ x = a
  BY <1>1, <1>3, <1>4, HasAppend
<1>6. BodyOK(y)
  BY <1>2, Zenon DEF ClientOK, BodyOK, SameBody, EmitIs
<1>7. SaysOK(y)
  BY <1>1, <1>3, <1>5 DEF ClientOK, SaysOK, EventMay, SameFlags, SamePlace
<1>8. OnceOK(y)
  <2>1. OnceOK(s)
    BY DEF ClientOK
  <2>2. OnceIn(y.ticks, "socket", y.events, "socket")
    BY <1>1, <1>3, <1>4, <2>1, OnceLog DEF OnceOK, EventMay
  <2>3. OnceIn(y.ticks, "finish", y.events, "finish")
    BY <1>1, <1>3, <1>4, <2>1, OnceLog DEF OnceOK, EventMay
  <2>4. OnceIn(y.ticks, "close", y.events, "close")
    BY <1>1, <1>3, <1>4, <2>1, OnceLog DEF OnceOK, EventMay
  <2>5. OnceIn(y.ticks, "response", y.events, "response")
    BY <1>1, <1>3, <1>4, <2>1, OnceLog DEF OnceOK, EventMay
  <2>6. OnceIn(y.ticks, "destroyed", y.events, "error")
    BY <1>1, <1>3, <1>4, <2>1, OnceLog DEF OnceOK, EventMay
  <2>7. QED BY <1>3, <2>1, <2>2, <2>3, <2>4, <2>5, <2>6 DEF OnceOK
<1>9. AfterOK(y)
  <2>1. AfterOK(s)
    BY DEF ClientOK
  <2>2. NoLater(y.events, "close", "socket")
    BY <1>1, <1>3, <1>4, <2>1, NoLaterAppend DEF AfterOK, EventMay
  <2>3. NoLater(y.events, "abort", "response")
    BY <1>1, <1>3, <1>4, <2>1, NoLaterAppend DEF AfterOK, EventMay
  <2>4. Has(y.heard, "end") \/ NoLater(y.events, "close", "error")
    BY <1>1, <1>3, <1>4, <2>1, NoLaterAppend DEF AfterOK, EventMay
  <2>5. QED BY <1>3, <2>1, <2>2, <2>3, <2>4 DEF AfterOK
<1>10. ResponseAt(y) /\ ChunksOK(y)
  BY <1>3 DEF ClientOK, ResponseAt, ChunksOK, SumsOK, CutOK, AllChunks, SamePlace
<1>11. ClientOK(y)
  BY <1>3, <1>6, <1>7, <1>8, <1>9, <1>10 DEF ClientOK
<1>12. QED BY <1>2, <1>11 DEF y

\* What the response may hear.
HearMay(s, e) ==
  /\ e \in RHeard /\ s.res # "no"
  /\ e = "end" => s.res = "destroyed" /\ Tally(s.heard, "data") = ResponseChunks
  /\ e = "close" => s.res = "destroyed"
  /\ e = "data" => ~Has(s.heard, "end") /\ ~Has(s.heard, "close")

LEMMA PutHeard ==
  ASSUME NEW s, ClientOK(s), NEW x, HearMay(s, x), x # "data"
  PROVE  ClientOK(RHears(s, x)) /\ HearsIs(s, x, RHears(s, x))
<1> DEFINE y == RHears(s, x)
<1>1. s \in ClientRequests /\ x \in RHeard
  BY DEF ClientOK, HearMay
<1>2. HearsIs(s, x, y)
  BY <1>1, RHearsIs
<1> HIDE DEF y
<1>3. y \in ClientRequests /\ SameFlags(s, y) /\ SamePlace(s, y) /\ y.heard = Append(s.heard, x)
      /\ y.ticks = s.ticks /\ y.events = s.events
  BY <1>2 DEF HearsIs
<1>4. s.heard \in Seq(RHeard) /\ y.heard \in Seq(RHeard)
  BY <1>1, <1>3, ClientFields
<1>5. \A a : Has(y.heard, a) <=> Has(s.heard, a) \/ x = a
  BY <1>1, <1>3, <1>4, HasAppend
<1>6. Tally(y.heard, "data") = Tally(s.heard, "data")
  <2>1. Tally(y.heard, "data") = Tally(s.heard, "data") + (IF x = "data" THEN 1 ELSE 0) /\ Tally(s.heard, "data") \in Nat
    BY <1>1, <1>3, <1>4, TallyAppend, SpotsFinite
  <2>2. QED BY <2>1
<1>7. BodyOK(y)
  BY <1>2, Zenon DEF ClientOK, BodyOK, SameBody, HearsIs
<1>8. SaysOK(y) /\ OnceOK(y)
  BY <1>1, <1>3, <1>5 DEF ClientOK, SaysOK, OnceOK, SameFlags, SamePlace
<1>9. AfterOK(y)
  <2>1. AfterOK(s)
    BY DEF ClientOK
  <2>2. NoLater(y.heard, "end", "data") /\ NoLater(y.heard, "close", "data")
    BY <1>1, <1>3, <1>4, <2>1, NoLaterAppend DEF AfterOK
  <2>3. QED BY <1>3, <1>5, <2>1, <2>2 DEF AfterOK
<1>10. ResponseAt(y)
  BY <1>1, <1>3, <1>5 DEF ClientOK, ResponseAt, HearMay, SamePlace
<1>11. ChunksOK(y)
  BY <1>1, <1>3, <1>5, <1>6 DEF ClientOK, ChunksOK, SumsOK, CutOK, AllChunks, HearMay, SamePlace
<1>12. ClientOK(y)
  BY <1>3, <1>7, <1>8, <1>9, <1>10, <1>11 DEF ClientOK
<1>13. QED BY <1>2, <1>12 DEF y

\* A tick is taken from the queue.
Taken(s) == [s EXCEPT !.ticks = Tail(@)]
TakenIs(s, y) ==
  /\ y \in ClientRequests /\ y.ticks = Tail(s.ticks) /\ y.events = s.events /\ y.heard = s.heard
  /\ SameBody(s, y) /\ SameFlags(s, y) /\ SamePlace(s, y) /\ SameRest(s, y)

LEMMA TakenFields ==
  ASSUME NEW s \in ClientRequests, s.ticks # <<>>
  PROVE  TakenIs(s, Taken(s))
<1> DEFINE h == Tail(s.ticks)
           y == Taken(s)
<1>1. h \in Seq(QTicks) /\ y = [s EXCEPT !.ticks = h]
  BY ClientFields, HeadTailProperties DEF Taken
<1> HIDE DEF h, y
<1>2. y \in ClientRequests /\ y.ticks = h
  BY <1>1, ZenonT(40) DEF ClientRequests
<1>3. y.events = s.events /\ y.heard = s.heard
  BY <1>1 DEF ClientRequests
<1>4. SameBody(s, y) /\ SameFlags(s, y)
  BY <1>1 DEF ClientRequests, SameBody, SameFlags
<1>5. SamePlace(s, y) /\ SameRest(s, y)
  BY <1>1 DEF ClientRequests, SamePlace, SameRest
<1>6. TakenIs(s, y)
  BY <1>2, <1>3, <1>4, <1>5 DEF TakenIs, h
<1>7. QED BY <1>6 DEF y

\* What the tick that is taken says.
HeadSays(h, y) ==
  /\ ~Has(y.ticks, "socket")
  /\ h \in {"socket", "finish", "close", "abort", "errorAfterEnd"} => EventMay(y, h)
  /\ h = "destroyed" =>
       y.destroyed /\ ~Has(y.ticks, "destroyed") /\ EventMay(y, "error") /\ (y.closed => Has(y.heard, "end"))
  /\ h = "nativeError" => y.res = "no" /\ y.do = "done" /\ ~Has(y.ticks, "response")
  /\ h = "response" =>
       /\ y.res = "no" /\ y.do \notin {"no", "dial"} /\ AllChunks(y) = ResponseChunks
       /\ ~Has(y.ticks, "response") /\ ~Has(y.events, "response") /\ ~Has(y.ticks, "nativeError")
       /\ y.do = "done" /\ y.left > 0 => Has(y.ticks, "bodyError")
  /\ h \in {"data", "bodyError", "end"} => ~Has(y.ticks, "response") /\ ~y.ended /\ y.do \notin {"no", "dial"}
  /\ h \in {"bodyError", "end"} => y.do = "done"
  /\ h = "end" => /\ ~Has(y.ticks, "data") /\ ~Has(y.ticks, "bodyError") /\ ~Has(y.ticks, "end")
                  /\ (y.left = 0 \/ y.res # "live")
  /\ h \in {"resume", "endReadable", "resClose"} => y.res # "no"
  /\ h = "endReadable" => y.ended /\ y.left = 0
  /\ h = "resClose" => y.res = "destroyed"

\* What stays when a tick is taken, whichever it is.
LEMMA TakenStays ==
  ASSUME NEW s, ClientOK(s), s.ticks # <<>>
  PROVE  /\ TakenIs(s, Taken(s)) /\ BodyOK(Taken(s)) /\ SaysOK(Taken(s)) /\ OnceOK(Taken(s))
         /\ AfterOK(Taken(s)) /\ ResponseAt(Taken(s)) /\ HeadSays(Head(s.ticks), Taken(s))
         /\ \A a : Has(s.ticks, a) <=> Head(s.ticks) = a \/ Has(Taken(s).ticks, a)
         /\ Tally(s.ticks, "data") = (IF Head(s.ticks) = "data" THEN 1 ELSE 0) + Tally(Taken(s).ticks, "data")
         /\ Head(s.ticks) \in QTicks
<1> DEFINE y == Taken(s)
           h == Head(s.ticks)
<1>1. s \in ClientRequests
  BY DEF ClientOK
<1>2. TakenIs(s, y)
  BY <1>1, TakenFields
<1> HIDE DEF y
<1>3. y \in ClientRequests /\ SameFlags(s, y) /\ SamePlace(s, y) /\ y.ticks = Tail(s.ticks)
      /\ y.events = s.events /\ y.heard = s.heard
  BY <1>2 DEF TakenIs
<1>4. s.ticks \in Seq(QTicks) /\ y.ticks \in Seq(QTicks) /\ h \in QTicks
  BY <1>1, <1>3, ClientFields, HeadTailProperties
<1>5. \A a : Has(s.ticks, a) <=> h = a \/ Has(y.ticks, a)
  BY <1>3, <1>4, HasTail
<1>6. Tally(s.ticks, "data") = (IF h = "data" THEN 1 ELSE 0) + Tally(y.ticks, "data")
  BY <1>3, <1>4, TallyTail
<1>7. /\ Tally(y.ticks, "data") \in Nat /\ Tally(s.ticks, "data") \in Nat /\ Tally(s.heard, "data") \in Nat
      /\ s.buffer \in Nat /\ s.left \in Nat
  BY <1>1, <1>3, ClientFields
<1>8. h = s.ticks[1] /\ 1 \in 1..Len(s.ticks)
  BY <1>4, TailAt
<1> HIDE DEF h
<1>9. BodyOK(y)
  BY <1>2, Zenon DEF ClientOK, BodyOK, SameBody, TakenIs
<1>10. ~Has(y.ticks, "socket")
  <2>1. Has(s.ticks, "socket") => h = "socket"
    BY <1>8 DEF ClientOK, SaysOK
  <2>2. h = "socket" => ~Has(y.ticks, "socket")
    BY <1>3, <1>4, SingleTail DEF ClientOK, OnceOK, OnceIn, h
  <2>3. QED BY <1>5, <2>1, <2>2
<1>11. SaysOK(y)
  BY <1>3, <1>5, <1>10 DEF ClientOK, SaysOK, SameFlags, SamePlace
<1>12. OnceOK(y)
  <2>1. OnceOK(s)
    BY DEF ClientOK
  <2>2. OnceIn(y.ticks, "socket", y.events, "socket") /\ OnceIn(y.ticks, "finish", y.events, "finish")
    BY <1>3, <1>4, <2>1, OnceRuns DEF OnceOK
  <2>3. OnceIn(y.ticks, "close", y.events, "close") /\ OnceIn(y.ticks, "response", y.events, "response")
    BY <1>3, <1>4, <2>1, OnceRuns DEF OnceOK
  <2>4. OnceIn(y.ticks, "destroyed", y.events, "error")
    BY <1>3, <1>4, <2>1, OnceRuns DEF OnceOK
  <2>5. Single(y.ticks, "end")
    BY <1>3, <1>4, <2>1, SingleTail DEF OnceOK
  <2>6. QED BY <1>5, <2>1, <2>2, <2>3, <2>4, <2>5 DEF OnceOK
<1>13. AfterOK(y)
  <2>1. AfterOK(s)
    BY DEF ClientOK
  <2>2. Ordered(y.ticks, {"response"}, {"data", "bodyError", "end"}) /\ Ordered(y.ticks, {"data", "bodyError"}, {"end"})
    BY <1>3, <1>4, <2>1, OrderedTail DEF AfterOK
  <2>3. QED BY <1>3, <2>1, <2>2 DEF AfterOK
<1>14. ResponseAt(y)
  BY <1>3, <1>5 DEF ClientOK, ResponseAt, SamePlace
<1>15. HeadSays(h, y)
  <2>1. OnceOK(s) /\ SaysOK(s) /\ ResponseAt(s) /\ ChunksOK(s) /\ AfterOK(s)
    BY DEF ClientOK
  <2>2. h = "finish" => ~Has(y.ticks, "finish") /\ ~Has(y.events, "finish")
    BY <1>3, <1>4, <2>1, OnceRuns DEF OnceOK, h
  <2>3. h = "close" => ~Has(y.ticks, "close") /\ ~Has(y.events, "close")
    BY <1>3, <1>4, <2>1, OnceRuns DEF OnceOK, h
  <2>4. h = "response" => ~Has(y.ticks, "response") /\ ~Has(y.events, "response")
    BY <1>3, <1>4, <2>1, OnceRuns DEF OnceOK, h
  <2>5. h = "destroyed" => ~Has(y.ticks, "destroyed") /\ ~Has(y.events, "error")
    BY <1>3, <1>4, <2>1, OnceRuns DEF OnceOK, h
  <2>6. h = "end" => ~Has(y.ticks, "end")
    BY <1>3, <1>4, <2>1, SingleTail DEF OnceOK, h
  <2>8. h = "socket" => EventMay(y, h)
    <3>1. h = "socket" => s.events = <<>>
      BY <1>5, <2>1 DEF SaysOK
    <3>2. \A e : ~Has(<<>>, e)
      BY EmptySeq DEF Has
    <3>3. QED BY <1>3, <1>10, <3>1, <3>2 DEF EventMay, QEvents
  <2>9. h \in {"finish", "close", "abort", "errorAfterEnd"} => EventMay(y, h)
    BY <1>3, <1>5, <1>10, <2>1, <2>2, <2>3 DEF EventMay, QEvents, SaysOK, SameFlags
  <2>10. h = "destroyed" => y.destroyed /\ (y.closed => Has(y.heard, "end"))
    BY <1>3, <1>5, <2>1 DEF SaysOK, SameFlags
  <2>11. h = "destroyed" => EventMay(y, "error")
    BY <1>3, <1>5, <1>10, <2>1, <2>5, <2>10 DEF EventMay, QEvents, SaysOK, SameFlags
  <2>12. h = "nativeError" => y.res = "no" /\ y.do = "done" /\ ~Has(y.ticks, "response")
    BY <1>3, <1>5, <2>1 DEF SaysOK, SamePlace
  <2>13. h = "response" => AllChunks(s) = ResponseChunks /\ y.res = "no" /\ y.do \notin {"no", "dial"}
    BY <1>3, <1>5, <2>1 DEF ChunksOK, SumsOK, CutOK, ResponseAt, SaysOK, SamePlace
  <2>14. h # "data" => AllChunks(y) = AllChunks(s)
    BY <1>3, <1>6, <1>7 DEF AllChunks, SamePlace
  <2>15. h = "response" => ~Has(y.ticks, "nativeError")
    BY <1>5, <2>1 DEF SaysOK
  <2>16. h = "response" => (y.do = "done" /\ y.left > 0 => Has(y.ticks, "bodyError"))
    BY <1>3, <1>5, <2>1 DEF ChunksOK, SumsOK, CutOK, SamePlace
  <2>17. h \in {"data", "bodyError", "end"} => ~Has(y.ticks, "response") /\ ~y.ended /\ y.do \notin {"no", "dial"}
    <3>1. h \in {"data", "bodyError", "end"} => ~Has(s.ticks, "response")
      <4>1. h \in {"data", "bodyError", "end"} => \A i \in 1..Len(s.ticks) : s.ticks[i] \notin {"response"}
        BY <1>4, <2>1, OrderedTail DEF AfterOK, h
      <4>2. QED BY <4>1 DEF Has
    <3>2. QED BY <1>3, <1>5, <2>1, <3>1 DEF ResponseAt, SamePlace
  <2>18. h \in {"bodyError", "end"} => y.do = "done"
    BY <1>3, <1>5, <2>1 DEF ResponseAt, SamePlace
  <2>19. h = "end" => ~Has(s.ticks, "data") /\ ~Has(s.ticks, "bodyError")
    <3>1. h = "end" => \A i \in 1..Len(s.ticks) : s.ticks[i] \notin {"data", "bodyError"}
      BY <1>4, <2>1, OrderedTail DEF AfterOK, h
    <3>2. QED BY <3>1 DEF Has
  <2>20. h = "end" => y.left = 0 \/ y.res # "live"
    BY <1>3, <1>5, <1>7, <2>1, <2>18, <2>19 DEF ChunksOK, SumsOK, CutOK, SamePlace
  <2>21. /\ h \in {"resume", "endReadable", "resClose"} => y.res # "no"
         /\ h = "endReadable" => y.ended /\ y.left = 0
         /\ h = "resClose" => y.res = "destroyed"
    BY <1>3, <1>5, <2>1 DEF ResponseAt, SamePlace
  <2>22. QED BY <1>5, <1>10, <2>4, <2>5, <2>6, <2>8, <2>9, <2>10, <2>11, <2>12, <2>13, <2>14, <2>15, <2>16, <2>17,
                <2>18, <2>19, <2>20, <2>21 DEF HeadSays
<1>16. QED BY <1>2, <1>4, <1>5, <1>6, <1>9, <1>11, <1>12, <1>13, <1>14, <1>15 DEF y, h

\* Only a chunk and the error of a body are missed.
LEMMA TakeTick ==
  ASSUME NEW s, ClientOK(s), s.ticks # <<>>, Head(s.ticks) \notin {"data", "bodyError"}
  PROVE  ClientOK(Taken(s)) /\ TakenIs(s, Taken(s)) /\ HeadSays(Head(s.ticks), Taken(s))
<1> DEFINE y == Taken(s)
<1>1. s \in ClientRequests /\ TakenIs(s, y)
  BY TakenStays DEF ClientOK
<1>2. /\ \A a : Has(s.ticks, a) <=> Head(s.ticks) = a \/ Has(y.ticks, a)
      /\ Tally(s.ticks, "data") = (IF Head(s.ticks) = "data" THEN 1 ELSE 0) + Tally(y.ticks, "data")
  BY TakenStays
<1>3. /\ BodyOK(y) /\ SaysOK(y) /\ OnceOK(y) /\ AfterOK(y) /\ ResponseAt(y) /\ HeadSays(Head(s.ticks), y)
  BY TakenStays
<1> HIDE DEF y
<1>4. y \in ClientRequests /\ SamePlace(s, y) /\ y.heard = s.heard
  BY <1>1 DEF TakenIs
<1>5. Tally(y.ticks, "data") = Tally(s.ticks, "data")
  <2>1. Tally(y.ticks, "data") \in Nat
    BY <1>4, ClientFields
  <2>2. QED BY <1>2, <2>1
<1>6. ChunksOK(y)
  BY <1>2, <1>4, <1>5 DEF ClientOK, ChunksOK, SumsOK, CutOK, AllChunks, SamePlace
<1>7. ClientOK(y)
  BY <1>3, <1>4, <1>6 DEF ClientOK
<1>8. QED BY <1>1, <1>3, <1>7 DEF y

-----------------------------------------------------------------------------
(* HttpClient: the operators *)

\* Flags that are set.
Marked(s, d, c, a, f) ==
  [s EXCEPT !.destroyed = @ \/ d = 1, !.closed = @ \/ c = 1, !.aborted = @ \/ a = 1, !.finished = @ \/ f = 1]

MarkedIs(s, d, c, a, f, y) ==
  /\ y \in ClientRequests /\ SameBody(s, y) /\ SamePlace(s, y) /\ SameLogs(s, y) /\ SameRest(s, y)
  /\ y.destroyed <=> s.destroyed \/ d = 1
  /\ y.closed <=> s.closed \/ c = 1
  /\ y.aborted <=> s.aborted \/ a = 1
  /\ y.finished <=> s.finished \/ f = 1

LEMMA Marks ==
  ASSUME NEW s, ClientOK(s), NEW y, NEW d \in 0..1, NEW c \in 0..1, NEW a \in 0..1, NEW f \in 0..1,
         MarkedIs(s, d, c, a, f, y),
         c = 1 => /\ d = 1 \/ s.destroyed \/ Has(s.heard, "end")
                  /\ Has(s.heard, "end") \/ ~Has(s.ticks, "destroyed")
  PROVE  ClientOK(y)
<1>1. y \in ClientRequests /\ SameBody(s, y) /\ SamePlace(s, y) /\ SameLogs(s, y)
  BY DEF MarkedIs
<1>2. BodyOK(y)
  BY <1>1, Zenon DEF ClientOK, BodyOK, SameBody
<1>3. OnceOK(y) /\ AfterOK(y)
  BY <1>1 DEF ClientOK, OnceOK, AfterOK, SameLogs
<1>4. ResponseAt(y) /\ ChunksOK(y)
  BY <1>1 DEF ClientOK, ResponseAt, ChunksOK, SumsOK, CutOK, AllChunks, SamePlace, SameLogs
<1>5. SaysOK(y)
  <2>1. SaysOK(s)
    BY DEF ClientOK
  <2>2. /\ s.destroyed => y.destroyed
        /\ s.aborted => y.aborted
        /\ s.finished => y.finished
        /\ s.closed => y.closed
        /\ y.closed => s.closed \/ c = 1
        /\ y.destroyed <=> s.destroyed \/ d = 1
    BY DEF MarkedIs
  <2>3. QED BY <1>1, <2>1, <2>2 DEF SaysOK, SamePlace, SameLogs
<1>6. QED BY <1>1, <1>2, <1>3, <1>4, <1>5 DEF ClientOK

\* The response is destroyed: an error of its body does that too.
ResDead(s, err) == [s EXCEPT !.res = "destroyed", !.errored = err]
ResGone(s, y) ==
  /\ y \in ClientRequests /\ SameBody(s, y) /\ SameFlags(s, y) /\ y.events = s.events /\ y.heard = s.heard
  /\ y.do = s.do /\ y.buffer = s.buffer /\ y.left = s.left /\ y.ended = s.ended /\ y.native = s.native
  /\ y.res = IF s.res = "live" THEN "destroyed" ELSE s.res
  /\ \A a : a # "resClose" => (Has(y.ticks, a) <=> Has(s.ticks, a))

ClientButCut(s) ==
  s \in ClientRequests /\ BodyOK(s) /\ SaysOK(s) /\ OnceOK(s) /\ AfterOK(s) /\ ResponseAt(s) /\ SumsOK(s)

LEMMA ResDeadIs ==
  ASSUME NEW s, ClientButCut(s), s.res = "live", NEW err \in BOOLEAN
  PROVE  /\ ClientOK(ResDead(s, err)) /\ ResGone(s, ResDead(s, err))
         /\ ResDead(s, err).ticks = s.ticks /\ ResDead(s, err).res = "destroyed"
<1> DEFINE z == ResDead(s, err)
<1>1. s \in ClientRequests
  BY DEF ClientButCut
<1>2. z \in ClientRequests /\ z.res = "destroyed"
  BY <1>1, ZenonT(40) DEF ClientRequests, ResDead
<1>3. /\ SameBody(s, z) /\ SameFlags(s, z) /\ SameLogs(s, z) /\ z.buffer = s.buffer /\ z.ended = s.ended
      /\ z.left = s.left /\ z.do = s.do /\ z.native = s.native
  BY <1>1 DEF ClientRequests, SameBody, SameFlags, SameLogs, ResDead
<1> HIDE DEF z
<1>4. BodyOK(z)
  BY <1>3, Zenon DEF ClientButCut, BodyOK, SameBody
<1>5. SaysOK(z) /\ OnceOK(z) /\ AfterOK(z)
  BY <1>3 DEF ClientButCut, SaysOK, OnceOK, AfterOK, SameFlags, SameLogs
<1>6. ResponseAt(z)
  BY <1>2, <1>3 DEF ClientButCut, ResponseAt, SameLogs
<1>7. ChunksOK(z)
  BY <1>2, <1>3 DEF ClientButCut, ResponseAt, ChunksOK, SumsOK, CutOK, AllChunks, SameLogs
<1>8. ClientOK(z)
  BY <1>2, <1>4, <1>5, <1>6, <1>7 DEF ClientOK
<1>9. ResGone(s, z)
  BY <1>2, <1>3 DEF ResGone, SameLogs
<1>10. QED BY <1>2, <1>3, <1>8, <1>9 DEF z, SameLogs

LEMMA ResDestroyIs ==
  ASSUME NEW s, ClientButCut(s), s.res # "live" => CutOK(s), NEW err \in BOOLEAN
  PROVE  ClientOK(ResDestroy(s, err)) /\ ResGone(s, ResDestroy(s, err))
<1>1. s \in ClientRequests
  BY DEF ClientButCut
<1>2. CASE s.res # "live"
  BY <1>1, <1>2 DEF ResDestroy, ResGone, SameBody, SameFlags, ClientOK, ClientButCut, ChunksOK
<1>3. CASE s.res = "live"
  <2> DEFINE z == ResDead(s, err)
             y == QTick(z, "resClose")
  <2>1. ResDestroy(s, err) = y
    BY <1>3 DEF ResDestroy, ResDead
  <2>2. ClientOK(z) /\ ResGone(s, z) /\ z.ticks = s.ticks /\ z.res = "destroyed"
    BY <1>3, ResDeadIs
  <2> HIDE DEF z
  <2>3. TickMay(z, "resClose")
    BY <2>2 DEF TickMay, QTicks
  <2>4. ClientOK(y) /\ TickIs(z, "resClose", y)
    BY <2>2, <2>3, PutTick
  <2> HIDE DEF y
  <2>5. \A a : a # "resClose" => (Has(y.ticks, a) <=> Has(z.ticks, a))
    BY <2>2, <2>4, HasAppend, ClientFields, SMTT(20) DEF TickIs, QTicks, ClientOK
  <2>6. SameBody(s, y) /\ SameFlags(s, y)
    BY <2>2, <2>4 DEF ResGone, TickIs, SameBody, SameFlags
  <2>7. /\ y \in ClientRequests /\ y.do = s.do /\ y.buffer = s.buffer /\ y.left = s.left /\ y.ended = s.ended
        /\ y.native = s.native /\ y.res = "destroyed" /\ y.events = s.events /\ y.heard = s.heard
    BY <2>2, <2>4 DEF ResGone, TickIs, SamePlace, SameRest
  <2>8. ResGone(s, y)
    BY <1>3, <2>2, <2>5, <2>6, <2>7 DEF ResGone
  <2>9. QED BY <2>1, <2>4, <2>8
<1>4. QED BY <1>2, <1>3

\* destroy().
LEMMA QDestroyIs ==
  ASSUME NEW s, ClientOK(s), NEW err \in {"none", "other", "reset"}
  PROVE  ClientOK(QDestroy(s, err)) /\ QDestroy(s, err).destroyed /\ QDestroy(s, err).aborted = s.aborted
<1>1. s \in ClientRequests
  BY DEF ClientOK
<1>2. CASE s.destroyed
  BY <1>1, <1>2 DEF QDestroy
<1>3. CASE ~s.destroyed
  <2> DEFINE z == [s EXCEPT !.destroyed = TRUE]
             w == ResDestroy(z, err # "none")
             b == w.cancelled \/ s.native
             c == IF err = "none" /\ s.res = "no" /\ ~s.aborted THEN "reset" ELSE err
             u == [w EXCEPT !.cancelled = b, !.err = c]
             x == "destroyed"
  <2>1. z \in ClientRequests
    BY <1>1, ZenonT(40) DEF ClientRequests
  <2>2. z.destroyed /\ z.finished = s.finished /\ z.closed = s.closed /\ z.aborted = s.aborted
    BY <1>1 DEF ClientRequests
  <2>3. SameBody(s, z) /\ SamePlace(s, z) /\ SameLogs(s, z) /\ SameRest(s, z)
    BY <1>1 DEF ClientRequests, SameBody, SamePlace, SameLogs, SameRest
  <2> HIDE DEF z
  <2>4. MarkedIs(s, 1, 0, 0, 0, z)
    BY <1>1, <2>1, <2>2, <2>3 DEF MarkedIs
  <2>5. ClientOK(z)
    BY <2>4, Marks
  <2>6. ClientOK(w) /\ ResGone(z, w)
    BY <2>5, ResDestroyIs DEF ClientOK, ClientButCut, ChunksOK
  <2>7. w \in ClientRequests
    BY <2>6 DEF ResGone
  <2> HIDE DEF w
  <2>8. b \in BOOLEAN /\ c \in {"none", "other", "reset"}
    OBVIOUS
  <2> HIDE DEF b, c
  <2>9. u \in ClientRequests
    BY <2>7, <2>8, ZenonT(40) DEF ClientRequests
  <2>10. SameBody(w, u) /\ SameFlags(w, u)
    BY <2>7 DEF ClientRequests, SameBody, SameFlags
  <2>11. SamePlace(w, u) /\ SameLogs(w, u)
    BY <2>7 DEF ClientRequests, SamePlace, SameLogs
  <2> HIDE DEF u
  <2>12. ClientOK(u)
    BY <2>6, <2>9, <2>10, <2>11, Alike
  <2>13. x = "destroyed"
    OBVIOUS
  <2>14. QDestroy(s, err) = QTick(u, x)
    BY <1>3, Zenon DEF QDestroy, u, b, c, w, z
  <2> HIDE DEF x
  <2>15. TickMay(u, x)
    <3>1. u.destroyed /\ u.closed = s.closed
      BY <2>2, <2>6, <2>10 DEF ResGone, SameFlags
    <3>2. u.heard = s.heard /\ u.events = s.events /\ \A a : a # "resClose" => (Has(u.ticks, a) <=> Has(s.ticks, a))
      BY <2>3, <2>6, <2>11 DEF ResGone, SameLogs
    <3>3. /\ ~Has(s.ticks, "destroyed") /\ ~Has(s.events, "error")
          /\ (s.closed => Has(s.heard, "end"))
      BY <1>3 DEF ClientOK, SaysOK
    <3>4. QED BY <2>13, <3>1, <3>2, <3>3 DEF TickMay, QTicks
  <2>16. ClientOK(QTick(u, x)) /\ TickIs(u, x, QTick(u, x))
    BY <2>12, <2>15, PutTick
  <2>17. QTick(u, x).destroyed /\ QTick(u, x).aborted = s.aborted
    <3>1. u.destroyed /\ u.aborted = s.aborted
      BY <2>2, <2>6, <2>10 DEF ResGone, SameFlags
    <3>2. QED BY <2>16, <3>1 DEF TickIs, SameFlags
  <2>18. QED BY <2>14, <2>16, <2>17
<1>4. QED BY <1>2, <1>3

\* abort().
LEMMA QAbortIs ==
  ASSUME NEW s, ClientOK(s), s.aborted => s.destroyed
  PROVE  ClientOK(QAbort(s)) /\ QAbort(s).destroyed
<1>1. s \in ClientRequests
  BY DEF ClientOK
<1>2. CASE s.aborted
  BY <1>2 DEF QAbort
<1>3. CASE ~s.aborted
  <2> DEFINE z == [s EXCEPT !.aborted = TRUE]
  <2>1. z \in ClientRequests
    BY <1>1, ZenonT(40) DEF ClientRequests
  <2>2. z.aborted /\ z.finished = s.finished /\ z.closed = s.closed /\ z.destroyed = s.destroyed
    BY <1>1 DEF ClientRequests
  <2>3. SameBody(s, z) /\ SamePlace(s, z) /\ SameLogs(s, z) /\ SameRest(s, z)
    BY <1>1 DEF ClientRequests, SameBody, SamePlace, SameLogs, SameRest
  <2>4. QAbort(s) = QDestroy(QTick(z, "abort"), "none")
    BY <1>3 DEF QAbort
  <2> HIDE DEF z
  <2>5. MarkedIs(s, 0, 0, 1, 0, z)
    BY <1>1, <2>1, <2>2, <2>3 DEF MarkedIs
  <2>6. ClientOK(z)
    BY <2>5, Marks
  <2>7. TickMay(z, "abort")
    BY <2>2 DEF TickMay, QTicks
  <2>8. ClientOK(QTick(z, "abort"))
    BY <2>6, <2>7, PutTick
  <2>9. QED BY <2>4, <2>8, QDestroyIs, Zenon
<1>4. QED BY <1>2, <1>3

\* The tick of destroy().
LEMMA DestroyTailIs ==
  ASSUME NEW s, ClientOK(s), s.destroyed, ~Has(s.ticks, "destroyed"), ~Has(s.ticks, "socket"),
         s.closed => Has(s.heard, "end"), EventMay(s, "error")
  PROVE  ClientOK(DestroyTail(s)) /\ DestroyTail(s).destroyed /\ DestroyTail(s).aborted = s.aborted
<1>1. s \in ClientRequests
  BY DEF ClientOK
<1> DEFINE silent == s.err = "none" \/ (s.err = "reset" /\ s.aborted)
           told == IF silent THEN s ELSE QEmit(s, "error")
           z == [told EXCEPT !.closed = TRUE]
<1>2. /\ ClientOK(told) /\ told \in ClientRequests /\ SameFlags(s, told) /\ told.ticks = s.ticks
      /\ (Has(told.events, "close") <=> Has(s.events, "close"))
  <2>1. CASE silent
    BY <1>1, <2>1, Zenon DEF SameFlags
  <2>2. CASE ~silent
    <3>1. ClientOK(QEmit(s, "error")) /\ EmitIs(s, "error", QEmit(s, "error"))
      BY <2>2, PutEvent
    <3>2. Has(Append(s.events, "error"), "close") <=> Has(s.events, "close")
      <4>1. s.events \in Seq(QEvents) /\ "error" \in QEvents
        BY <1>1, ClientFields DEF QEvents
      <4>2. QED BY <4>1, HasAppend
    <3>3. QED BY <2>2, <3>1, <3>2, Zenon DEF EmitIs
  <2>3. QED BY <2>1, <2>2
<1>3. DestroyTail(s) = IF s.closed THEN told ELSE QEmit(z, "close")
  BY DEF DestroyTail
<1> HIDE DEF silent, told
<1>4. CASE s.closed
  BY <1>2, <1>3, <1>4, Zenon DEF SameFlags
<1>5. CASE ~s.closed
  <2>1. z \in ClientRequests
    BY <1>2, ZenonT(40) DEF ClientRequests
  <2>2. z.closed /\ z.finished = told.finished /\ z.aborted = told.aborted /\ z.destroyed = told.destroyed
    BY <1>2 DEF ClientRequests
  <2>3. SameBody(told, z) /\ SamePlace(told, z) /\ SameLogs(told, z) /\ SameRest(told, z)
    BY <1>2 DEF ClientRequests, SameBody, SamePlace, SameLogs, SameRest
  <2> HIDE DEF z
  <2>4. MarkedIs(told, 0, 1, 0, 0, z)
    BY <1>2, <2>1, <2>2, <2>3 DEF MarkedIs, ClientRequests
  <2>5. ClientOK(z)
    <3>1. told.destroyed /\ ~Has(told.ticks, "destroyed")
      BY <1>2 DEF SameFlags
    <3>2. QED BY <1>2, <2>4, <3>1, Marks
  <2>6. ~Has(s.ticks, "close") /\ ~Has(s.events, "close")
    BY <1>5 DEF ClientOK, SaysOK
  <2>7. EventMay(z, "close")
    BY <1>2, <2>2, <2>3, <2>6 DEF EventMay, QEvents, SameLogs
  <2>8. ClientOK(QEmit(z, "close")) /\ EmitIs(z, "close", QEmit(z, "close"))
    BY <2>5, <2>7, PutEvent
  <2>9. QEmit(z, "close").destroyed /\ QEmit(z, "close").aborted = s.aborted
    BY <1>2, <2>2, <2>8, Zenon DEF EmitIs, SameFlags
  <2>10. QED BY <1>3, <1>5, <2>8, <2>9
<1>6. QED BY <1>4, <1>5

\* The native error.
LEMMA OnNativeErrorIs ==
  ASSUME NEW s, ClientOK(s), ~Has(s.ticks, "socket"), s.res = "no", s.do = "done", ~Has(s.ticks, "response")
  PROVE  ClientOK(OnNativeError(s)) /\ OnNativeError(s).destroyed
<1>1. s \in ClientRequests
  BY DEF ClientOK
<1>2. CASE s.destroyed
  BY <1>2 DEF OnNativeError
<1>3. CASE ~s.destroyed
  <2> DEFINE z == [s EXCEPT !.destroyed = TRUE, !.closed = TRUE]
             e == QEmit(z, "error")
  <2>1. OnNativeError(s) = QTick(e, "close")
    BY <1>3 DEF OnNativeError
  <2>2. z \in ClientRequests
    BY <1>1, ZenonT(40) DEF ClientRequests
  <2>3. z.closed /\ z.destroyed /\ z.finished = s.finished /\ z.aborted = s.aborted
    BY <1>1 DEF ClientRequests
  <2>4. SameBody(s, z) /\ SamePlace(s, z) /\ SameLogs(s, z) /\ SameRest(s, z)
    BY <1>1 DEF ClientRequests, SameBody, SamePlace, SameLogs, SameRest
  <2> HIDE DEF z
  <2>5. MarkedIs(s, 1, 1, 0, 0, z)
    BY <1>1, <2>2, <2>3, <2>4 DEF MarkedIs, ClientRequests
  <2>6. ~Has(s.heard, "end")
    BY EmptySeq DEF ClientOK, ResponseAt, Has
  <2>7. /\ ~Has(s.ticks, "destroyed") /\ ~Has(s.events, "error") /\ ~Has(s.ticks, "close")
        /\ ~Has(s.events, "close")
    BY <1>3, <2>6 DEF ClientOK, SaysOK
  <2>8. ClientOK(z)
    BY <2>5, <2>7, Marks
  <2>9. EventMay(z, "error")
    BY <2>3, <2>4, <2>7 DEF EventMay, QEvents, SameLogs
  <2>10. ClientOK(e) /\ EmitIs(z, "error", e)
    BY <2>8, <2>9, PutEvent
  <2>11. TickMay(e, "close") /\ e.destroyed
    <3>1. Has(Append(z.events, "error"), "close") <=> Has(z.events, "close")
      <4>1. z.events \in Seq(QEvents) /\ "error" \in QEvents
        BY <2>2, ClientFields DEF QEvents
      <4>2. QED BY <4>1, HasAppend
    <3>2. QED BY <2>3, <2>4, <2>7, <2>10, <3>1, Zenon DEF TickMay, QTicks, EmitIs, SameLogs, SameFlags
  <2> HIDE DEF e
  <2>12. ClientOK(QTick(e, "close")) /\ TickIs(e, "close", QTick(e, "close"))
    BY <2>10, <2>11, PutTick
  <2>13. QED BY <2>1, <2>11, <2>12, Zenon DEF TickIs, SameFlags
<1>4. QED BY <1>2, <1>3

\* The response arrives.
LEMMA OnResponseIs ==
  ASSUME NEW s, ClientOK(s), NEW reads \in BOOLEAN, HeadSays("response", s), s.aborted => s.destroyed
  PROVE  /\ ClientOK(OnResponse(s, reads)) /\ OnResponse(s, reads).destroyed = s.destroyed
         /\ OnResponse(s, reads).aborted = s.aborted
<1>1. s \in ClientRequests
  BY DEF ClientOK
<1>2. CASE s.destroyed /\ s.aborted
  BY <1>2, Zenon DEF OnResponse
<1>3. CASE ~(s.destroyed /\ s.aborted)
  <2> DEFINE z == [s EXCEPT !.res = "live", !.flowing = reads]
             made == QEmit(z, "response")
  <2>1. OnResponse(s, reads) = IF reads THEN QTick(made, "resume") ELSE made
    BY <1>3 DEF OnResponse
  <2>2. z \in ClientRequests /\ z.res = "live"
    BY <1>1, ZenonT(40) DEF ClientRequests
  <2>3. /\ SameBody(s, z) /\ SameFlags(s, z) /\ SameLogs(s, z) /\ z.buffer = s.buffer /\ z.ended = s.ended
        /\ z.left = s.left /\ z.do = s.do
    BY <1>1 DEF ClientRequests, SameBody, SameFlags, SameLogs
  <2> HIDE DEF z
  <2>4. BodyOK(z)
    <3>1. BodyOK(s)
      BY DEF ClientOK
    <3>2. SameBody(s, z)
      BY <2>3
    <3>3. QED BY <3>1, <3>2, BodyStays
  <2>5. SaysOK(z) /\ OnceOK(z) /\ AfterOK(z)
    BY <2>3 DEF ClientOK, SaysOK, OnceOK, AfterOK, SameFlags, SameLogs, HeadSays
  <2>6. ResponseAt(z)
    <3>1. \A a : ~Has(s.heard, a)
      BY EmptySeq DEF ClientOK, ResponseAt, Has, HeadSays
    <3>2. QED BY <2>2, <2>3, <3>1 DEF ClientOK, ResponseAt, SameLogs, HeadSays
  <2>7. ChunksOK(z)
    BY <2>2, <2>3 DEF ClientOK, HeadSays, ChunksOK, SumsOK, CutOK, AllChunks, SameLogs
  <2>8. ClientOK(z)
    BY <2>2, <2>4, <2>5, <2>6, <2>7 DEF ClientOK
  <2>9. ~Has(s.events, "abort")
    BY <1>3 DEF ClientOK, SaysOK
  <2>10. EventMay(z, "response")
    BY <2>3, <2>9 DEF EventMay, QEvents, HeadSays, SameLogs
  <2>11. ClientOK(made) /\ EmitIs(z, "response", made)
    BY <2>8, <2>10, PutEvent
  <2> HIDE DEF made
  <2>12. TickMay(made, "resume")
    BY <2>2, <2>11 DEF TickMay, QTicks, EmitIs, SamePlace
  <2>13. ClientOK(QTick(made, "resume")) /\ TickIs(made, "resume", QTick(made, "resume"))
    BY <2>11, <2>12, PutTick
  <2>14. made.destroyed = s.destroyed /\ made.aborted = s.aborted
    BY <2>3, <2>11 DEF EmitIs, SameFlags
  <2>15. QTick(made, "resume").destroyed = s.destroyed /\ QTick(made, "resume").aborted = s.aborted
    BY <2>13, <2>14 DEF TickIs, SameFlags
  <2>16. QED BY <2>1, <2>11, <2>13, <2>14, <2>15
<1>4. QED BY <1>2, <1>3

\* What the response holds is read.
LEMMA RFlowIs ==
  ASSUME NEW s, ClientOK(s), s.res # "no"
  PROVE  ClientOK(RFlow(s)) /\ RFlow(s).destroyed = s.destroyed /\ RFlow(s).aborted = s.aborted
<1>1. s \in ClientRequests
  BY DEF ClientOK
<1>2. CASE s.res = "destroyed" \/ ~s.flowing
  BY <1>2 DEF RFlow
<1>3. CASE s.res # "destroyed" /\ s.flowing
  <2> DEFINE m == [i \in 1..s.buffer |-> "data"]
             h == s.heard \o m
             z == [s EXCEPT !.buffer = 0, !.heard = h]
  <2>1. RFlow(s) = IF s.ended THEN QTick(z, "endReadable") ELSE z
    BY <1>3 DEF RFlow
  <2>2. s.res = "live" /\ s.buffer \in Nat /\ s.heard \in Seq(RHeard) /\ s.left \in Nat
    BY <1>1, <1>3, ClientFields
  <2>3. m \in Seq(RHeard) /\ Tally(m, "data") = s.buffer /\ \A a : a # "data" => ~Has(m, a)
    <3>1. "data" \in RHeard /\ Len(m) = s.buffer
      BY <2>2, LenProperties DEF RHeard
    <3>2. m \in Seq(RHeard)
      BY <2>2, <3>1, SeqDef
    <3>3. \A a : a # "data" => ~Has(m, a)
      BY <3>1, Zenon DEF Has
    <3>4. QED BY <2>2, <3>2, <3>3, TallyAll, Zenon
  <2> HIDE DEF m
  <2>4. h \in Seq(RHeard) /\ \A a : a # "data" => (Has(h, a) <=> Has(s.heard, a))
    BY <2>2, <2>3, HasJoin, ConcatProperties
  <2>5. Tally(h, "data") = Tally(s.heard, "data") + s.buffer /\ Tally(s.heard, "data") \in Nat
    BY <2>2, <2>3, TallyJoin, SpotsFinite
  <2>6. ~Has(s.heard, "end") /\ ~Has(s.heard, "close")
    BY <2>2 DEF ClientOK, ResponseAt
  <2>7. NoLater(h, "end", "data") /\ NoLater(h, "close", "data")
    BY <2>2, <2>3, <2>6, NoLaterJoin DEF ClientOK, AfterOK
  <2> HIDE DEF h
  <2>8. z \in ClientRequests /\ z.heard = h /\ z.buffer = 0
    BY <1>1, <2>4, ZenonT(40) DEF ClientRequests
  <2>9. /\ SameBody(s, z) /\ SameFlags(s, z) /\ z.ticks = s.ticks /\ z.events = s.events /\ z.ended = s.ended
        /\ z.left = s.left /\ z.do = s.do /\ z.res = s.res
    BY <1>1 DEF ClientRequests, SameBody, SameFlags
  <2> HIDE DEF z
  <2>10. BodyOK(z)
    BY <2>9, Zenon DEF ClientOK, BodyOK, SameBody
  <2>11. SaysOK(z) /\ OnceOK(z)
    BY <2>4, <2>8, <2>9 DEF ClientOK, SaysOK, OnceOK, SameFlags
  <2>12. AfterOK(z)
    BY <2>4, <2>7, <2>8, <2>9 DEF ClientOK, AfterOK
  <2>13. ResponseAt(z)
    BY <2>2, <2>4, <2>8, <2>9 DEF ClientOK, ResponseAt
  <2>14. AllChunks(z) = AllChunks(s)
    <3>1. Tally(s.ticks, "data") \in Nat
      BY <1>1, ClientFields
    <3>2. QED BY <2>2, <2>5, <2>8, <2>9, <3>1 DEF AllChunks
  <2>15. ChunksOK(z)
    BY <2>4, <2>6, <2>8, <2>9, <2>14 DEF ClientOK, ChunksOK, SumsOK, CutOK
  <2>16. ClientOK(z)
    BY <2>8, <2>10, <2>11, <2>12, <2>13, <2>15 DEF ClientOK
  <2>17. s.ended => TickMay(z, "endReadable")
    <3>1. s.ended => s.left = 0
      BY <2>2 DEF ClientOK, ResponseAt, ChunksOK, CutOK
    <3>2. QED BY <2>2, <2>9, <3>1 DEF TickMay, QTicks
  <2>18. s.ended => ClientOK(QTick(z, "endReadable")) /\ TickIs(z, "endReadable", QTick(z, "endReadable"))
    BY <2>16, <2>17, PutTick
  <2>19. s.ended => QTick(z, "endReadable").destroyed = s.destroyed /\ QTick(z, "endReadable").aborted = s.aborted
    BY <2>9, <2>18 DEF TickIs, SameFlags
  <2>20. QED BY <2>1, <2>9, <2>16, <2>18, <2>19 DEF SameFlags
<1>4. QED BY <1>1, <1>2, <1>3, ClientFields

\* The end of the response.
LEMMA ResEndsIs ==
  ASSUME NEW s, ClientOK(s), HeadSays("endReadable", s)
  PROVE  /\ ClientOK(ResEnds(s)) /\ ResEnds(s).destroyed = s.destroyed /\ ResEnds(s).aborted = s.aborted
<1>1. s \in ClientRequests /\ s.res # "no" /\ s.ended /\ s.left = 0
  BY DEF ClientOK, HeadSays
<1>2. CASE s.errored \/ Has(s.heard, "close") \/ Has(s.heard, "end") \/ s.buffer > 0
  BY <1>2, Zenon DEF ResEnds, Contains, Has
<1>3. CASE ~(s.errored \/ Has(s.heard, "close") \/ Has(s.heard, "end") \/ s.buffer > 0)
  <2> DEFINE r == IF s.res = "live" THEN ResDead(s, FALSE) ELSE s
             e == RHears(r, "end")
             c == IF s.closed THEN e ELSE QTick([e EXCEPT !.closed = TRUE], "close")
             y == IF s.res = "live" THEN QTick(c, "resClose") ELSE c
  <2>1. ResEnds(s) = y
    <3>1. ~(s.errored \/ Contains(s.heard, "close") \/ Contains(s.heard, "end") \/ s.buffer > 0)
      BY <1>3 DEF Contains, Has
    <3> DEFINE f == RHears(s, "end")
               once == IF s.closed THEN f ELSE QTick([f EXCEPT !.closed = TRUE], "close")
    <3>2. ResEnds(s) = ResDestroy(once, FALSE)
      BY <3>1 DEF ResEnds
    <3>3. f \in ClientRequests /\ f.closed = s.closed /\ f.res = s.res /\ f.ticks = s.ticks
      BY <1>1, RHearsIs DEF RHeard, HearsIs, SameFlags, SamePlace
    <3>4. CASE s.res # "live"
      <4>1. once.res # "live" /\ once = c
        BY <3>3, <3>4 DEF QTick, ClientRequests
      <4>2. QED BY <3>2, <3>4, <4>1 DEF ResDestroy
    <3>5. CASE s.res = "live"
      <4>1. once \in ClientRequests /\ once.res = "live"
        <5>1. CASE s.closed
          BY <3>3, <3>5, <5>1
        <5>2. CASE ~s.closed
          <6> DEFINE g == [f EXCEPT !.closed = TRUE]
          <6>1. g \in ClientRequests /\ g.res = "live"
            BY <3>3, <3>5, ZenonT(40) DEF ClientRequests
          <6> HIDE DEF f, g
          <6>2. TickIs(g, "close", QTick(g, "close"))
            BY <6>1, QTickIs DEF QTicks
          <6>3. QED BY <5>2, <6>1, <6>2 DEF TickIs, SamePlace, g
        <5>3. QED BY <5>1, <5>2
      <4>2. ResEnds(s) = QTick(ResDead(once, FALSE), "resClose")
        BY <3>2, <4>1 DEF ResDestroy, ResDead
      <4>3. ResDead(f, FALSE) = RHears(ResDead(s, FALSE), "end")
        BY <1>1, ZenonT(40) DEF ClientRequests, ResDead, RHears
      <4>4. ResDead(f, FALSE) = e
        BY <3>5, <4>3, Zenon
      <4>5. ResDead(once, FALSE) = c
        <5>1. CASE s.closed
          BY <4>4, <5>1, Zenon
        <5>2. CASE ~s.closed
          <6>1. ResDead(QTick([f EXCEPT !.closed = TRUE], "close"), FALSE)
                = QTick([ResDead(f, FALSE) EXCEPT !.closed = TRUE], "close")
            <7> HIDE DEF f
            <7>1. QED BY <3>3, ZenonT(40) DEF ClientRequests, ResDead, QTick
          <6>2. QED BY <4>4, <5>2, <6>1, Zenon
        <5>3. QED BY <5>1, <5>2, Zenon
      <4>6. QED BY <3>5, <4>2, <4>5, Zenon
    <3>6. QED BY <3>4, <3>5, Zenon
  <2>2. /\ ClientOK(r) /\ r.res = "destroyed" /\ r.ticks = s.ticks /\ r.heard = s.heard /\ r.events = s.events
        /\ SameFlags(s, r)
    <3>1. CASE s.res = "live"
      BY <3>1, ResDeadIs, Zenon DEF ResGone, ClientOK, ClientButCut, ChunksOK
    <3>2. CASE s.res # "live"
      BY <1>1, <3>2, ClientFields DEF SameFlags
    <3>3. QED BY <3>1, <3>2, Zenon
  <2>3. HearMay(r, "end")
    <3>1. ~Has(s.ticks, "data") /\ s.ticks \in Seq(QTicks)
      BY <1>1, ClientFields DEF ClientOK, ResponseAt
    <3>2. Tally(s.ticks, "data") = 0
      BY <3>1, TallyZero
    <3>3. s.buffer = 0 /\ s.left = 0 /\ Tally(s.heard, "data") \in Nat
      BY <1>1, <1>3, ClientFields
    <3>4. AllChunks(s) = ResponseChunks
      BY <1>1 DEF ClientOK, ChunksOK, SumsOK
    <3>5. Tally(s.heard, "data") = ResponseChunks
      BY <3>2, <3>3, <3>4 DEF AllChunks
    <3>6. QED BY <2>2, <3>5, Zenon DEF HearMay, RHeard
  <2>4. r \in ClientRequests
    BY <2>2, Zenon DEF ClientOK
  <2> HIDE DEF r
  <2>5. ClientOK(e) /\ HearsIs(r, "end", e) /\ e \in ClientRequests
    BY <2>2, <2>3, PutHeard DEF HearsIs, RHeard
  <2>6. Has(e.heard, "end")
    <3>1. e.heard = Append(r.heard, "end") /\ r.heard \in Seq(RHeard) /\ "end" \in RHeard
      BY <2>4, <2>5, ClientFields DEF HearsIs, RHeard
    <3>2. Has(Append(r.heard, "end"), "end")
      BY <3>1, HasAppend
    <3>3. QED BY <3>1, <3>2, Zenon
  <2>7. /\ e.ticks = s.ticks /\ e.events = s.events /\ e.res = "destroyed" /\ SameFlags(s, e)
    BY <2>2, <2>5 DEF HearsIs, SamePlace, SameFlags
  <2> HIDE DEF e
  <2>8. ClientOK(c) /\ c.res = "destroyed" /\ c.destroyed = s.destroyed /\ c.aborted = s.aborted
    <3>1. CASE s.closed
      BY <2>5, <2>7, <3>1 DEF SameFlags
    <3>2. CASE ~s.closed
      <4> DEFINE z == [e EXCEPT !.closed = TRUE]
      <4>1. z \in ClientRequests
        BY <2>5, ZenonT(40) DEF ClientRequests
      <4>2. z.closed /\ z.finished = e.finished /\ z.aborted = e.aborted /\ z.destroyed = e.destroyed
        BY <2>5 DEF ClientRequests
      <4>3. SameBody(e, z) /\ SamePlace(e, z) /\ SameLogs(e, z) /\ SameRest(e, z)
        BY <2>5 DEF ClientRequests, SameBody, SamePlace, SameLogs, SameRest
      <4>4. c = QTick(z, "close")
        BY <3>2
      <4> HIDE DEF z, c
      <4>5. MarkedIs(e, 0, 1, 0, 0, z)
        BY <2>5, <4>1, <4>2, <4>3 DEF MarkedIs, ClientRequests
      <4>6. ClientOK(z)
        BY <2>5, <2>6, <4>5, Marks
      <4>7. ~Has(s.ticks, "close") /\ ~Has(s.events, "close")
        BY <3>2 DEF ClientOK, SaysOK
      <4>8. TickMay(z, "close")
        BY <2>7, <4>2, <4>3, <4>7 DEF TickMay, QTicks, SameLogs
      <4>9. ClientOK(c) /\ TickIs(z, "close", c)
        BY <4>4, <4>6, <4>8, PutTick
      <4>10. QED BY <2>7, <4>2, <4>3, <4>9 DEF TickIs, SameFlags, SamePlace
    <3>3. QED BY <3>1, <3>2
  <2> HIDE DEF c
  <2>9. TickMay(c, "resClose")
    BY <2>8 DEF TickMay, QTicks
  <2>10. ClientOK(QTick(c, "resClose")) /\ TickIs(c, "resClose", QTick(c, "resClose"))
    BY <2>8, <2>9, PutTick
  <2>11. QTick(c, "resClose").destroyed = s.destroyed /\ QTick(c, "resClose").aborted = s.aborted
    BY <2>8, <2>10 DEF TickIs, SameFlags
  <2>12. QED BY <2>1, <2>8, <2>10, <2>11
<1>4. QED BY <1>1, <1>2, <1>3, ClientFields

\* null is pushed.
LEMMA RPushEndIs ==
  ASSUME NEW s, ClientOK(s), HeadSays("end", s), s.res # "no"
  PROVE  ClientOK(RPushEnd(s)) /\ RPushEnd(s).destroyed = s.destroyed /\ RPushEnd(s).aborted = s.aborted
<1> DEFINE z == [s EXCEPT !.complete = TRUE, !.ended = TRUE]
<1>1. s \in ClientRequests
  BY DEF ClientOK
<1>2. z \in ClientRequests /\ z.ended
  BY <1>1, ZenonT(40) DEF ClientRequests
<1>3. /\ SameBody(s, z) /\ SameFlags(s, z) /\ SameLogs(s, z) /\ z.buffer = s.buffer /\ z.res = s.res
      /\ z.left = s.left /\ z.do = s.do
  BY <1>1 DEF ClientRequests, SameBody, SameFlags, SameLogs
<1>4. RPushEnd(s) = RFlow(z)
  BY DEF RPushEnd
<1> HIDE DEF z
<1>5. BodyOK(z)
  <2>1. BodyOK(s)
    BY DEF ClientOK
  <2>2. QED BY <1>3, <2>1, Zenon DEF BodyOK, SameBody
<1>6. SaysOK(z) /\ OnceOK(z) /\ AfterOK(z)
  BY <1>3 DEF ClientOK, SaysOK, OnceOK, AfterOK, SameFlags, SameLogs
<1>7. ResponseAt(z)
  BY <1>2, <1>3 DEF ClientOK, ResponseAt, SameLogs, HeadSays
<1>8. ChunksOK(z)
  BY <1>3 DEF ClientOK, ChunksOK, SumsOK, CutOK, AllChunks, SameLogs
<1>9. ClientOK(z) /\ z.destroyed = s.destroyed /\ z.aborted = s.aborted
  BY <1>2, <1>3, <1>5, <1>6, <1>7, <1>8 DEF ClientOK, SameFlags
<1>10. QED BY <1>3, <1>4, <1>9, RFlowIs

\* A chunk is taken and pushed.
LEMMA TakesData ==
  ASSUME NEW s, ClientOK(s), s.ticks # <<>>, Head(s.ticks) = "data",
         NEW y, y = IF Taken(s).res = "no" THEN Taken(s) ELSE RPush(Taken(s))
  PROVE  ClientOK(y) /\ y.destroyed = s.destroyed /\ y.aborted = s.aborted
<1> DEFINE z == Taken(s)
<1>1. s \in ClientRequests /\ TakenIs(s, z)
  BY TakenStays DEF ClientOK
<1>2. Tally(s.ticks, "data") = 1 + Tally(z.ticks, "data") /\ \A a : a # "data" => (Has(s.ticks, a) <=> Has(z.ticks, a))
  BY TakenStays
<1>3. BodyOK(z) /\ SaysOK(z) /\ OnceOK(z) /\ AfterOK(z) /\ ResponseAt(z) /\ HeadSays("data", z)
  BY TakenStays
<1> HIDE DEF z
<1>4. z \in ClientRequests /\ SamePlace(s, z) /\ z.heard = s.heard /\ SameFlags(s, z)
  BY <1>1 DEF TakenIs
<1>5. /\ Tally(s.ticks, "data") \in Nat /\ Tally(z.ticks, "data") \in Nat /\ Tally(s.heard, "data") \in Nat
      /\ s.left \in Nat /\ s.buffer \in Nat /\ s.heard \in Seq(RHeard) /\ z.heard \in Seq(RHeard)
  BY <1>1, <1>4, ClientFields
<1>6. CutOK(z)
  BY <1>2, <1>4 DEF ClientOK, ChunksOK, CutOK, SamePlace
<1>7. CASE z.res = "no"
  <2>1. \A a : ~Has(z.heard, a)
    BY <1>3, <1>7, EmptySeq DEF ResponseAt, Has
  <2>2. SumsOK(z)
    BY <1>3, <1>7, <2>1 DEF SumsOK, HeadSays
  <2>3. y = z
    BY <1>7 DEF z
  <2>4. QED BY <1>3, <1>4, <1>6, <2>2, <2>3 DEF ClientOK, ChunksOK, SameFlags
<1>8. CASE z.res # "no"
  <2>1. AllChunks(s) = ResponseChunks
    BY <1>4, <1>8 DEF ClientOK, ChunksOK, SumsOK, SamePlace
  <2>2. ~Has(z.heard, "end")
    <3>1. SUFFICES ASSUME Has(s.heard, "end") PROVE FALSE
      BY <1>4
    <3>2. Tally(s.heard, "data") = ResponseChunks
      BY <3>1 DEF ClientOK, ChunksOK, SumsOK
    <3>3. QED BY <1>2, <1>5, <2>1, <3>2 DEF AllChunks
  <2>3. y = RPush(z)
    BY <1>8 DEF z
  <2>4. AllChunks(z) + 1 = ResponseChunks
    BY <1>2, <1>4, <1>5, <2>1, SMTT(20) DEF AllChunks, SamePlace
  <2>5. CASE z.flowing /\ z.buffer = 0 /\ z.res = "live"
    <3>1. HearsIs(z, "data", y)
      BY <1>4, <2>3, <2>5, RHearsIs DEF RPush, RHeard
    <3>2. /\ y \in ClientRequests /\ y.heard = Append(z.heard, "data") /\ y.ticks = z.ticks /\ y.events = z.events
          /\ SameBody(z, y) /\ SameFlags(z, y) /\ SamePlace(z, y)
      BY <3>1 DEF HearsIs
    <3>3. ~Has(z.heard, "close")
      BY <1>3, <2>5 DEF ResponseAt
    <3>4. NoLater(y.heard, "end", "data") /\ NoLater(y.heard, "close", "data")
      BY <1>3, <1>5, <2>2, <3>2, <3>3, NoLaterAppend, Zenon DEF AfterOK, RHeard
    <3>5. Tally(y.heard, "data") = Tally(z.heard, "data") + 1 /\ \A a : a # "data" => (Has(y.heard, a) <=> Has(z.heard, a))
      <4>1. "data" \in RHeard
        BY DEF RHeard
      <4>2. z.heard \in Seq(RHeard)
        BY <1>5
      <4>3. Tally(Append(z.heard, "data"), "data") = Tally(z.heard, "data") + (IF "data" = "data" THEN 1 ELSE 0)
        BY <4>1, <4>2, TallyAppend
      <4>4. \A a : Has(Append(z.heard, "data"), a) <=> Has(z.heard, a) \/ "data" = a
        BY <4>1, <4>2, HasAppend
      <4>5. QED BY <3>2, <4>3, <4>4, Zenon
    <3>6. BodyOK(y)
      BY <1>3, <3>2, Zenon DEF BodyOK, SameBody
    <3>7. SaysOK(y) /\ OnceOK(y)
      BY <1>3, <3>2, <3>5 DEF SaysOK, OnceOK, SameFlags, SamePlace
    <3>8. AfterOK(y)
      BY <1>3, <3>2, <3>4, <3>5 DEF AfterOK
    <3>9. ResponseAt(y)
      BY <1>3, <1>8, <3>2, <3>5 DEF ResponseAt, SamePlace
    <3>10. AllChunks(y) = AllChunks(z) + 1
      <4>1. y.buffer = z.buffer /\ y.left = z.left /\ y.ticks = z.ticks
        BY <3>2 DEF SamePlace
      <4>2. z.buffer \in Nat /\ z.left \in Nat /\ Tally(z.ticks, "data") \in Nat /\ Tally(z.heard, "data") \in Nat
        BY <1>4, ClientFields
      <4>3. QED BY <3>5, <4>1, <4>2 DEF AllChunks
    <3>11. ChunksOK(y)
      BY <1>6, <2>2, <2>4, <3>2, <3>5, <3>10 DEF ChunksOK, SumsOK, CutOK, SamePlace
    <3>12. QED BY <1>4, <3>2, <3>6, <3>7, <3>8, <3>9, <3>11 DEF ClientOK, SameFlags
  <2>6. CASE ~(z.flowing /\ z.buffer = 0 /\ z.res = "live")
    <3> DEFINE n == z.buffer + 1
    <3>1. y = [z EXCEPT !.buffer = n] /\ n \in Nat /\ z.buffer \in Nat
      <4>1. z.buffer \in Nat
        BY <1>4, ClientFields
      <4>2. RPush(z) = [z EXCEPT !.buffer = n]
        BY <2>6 DEF RPush
      <4>3. QED BY <2>3, <4>1, <4>2
    <3>2. n = z.buffer + 1
      OBVIOUS
    <3> HIDE DEF n
    <3>3. y \in ClientRequests /\ y.buffer = n
      BY <1>4, <3>1, ZenonT(60) DEF ClientRequests
    <3>4. SameBody(z, y) /\ SameFlags(z, y) /\ SameLogs(z, y)
      BY <1>4, <3>1 DEF ClientRequests, SameBody, SameFlags, SameLogs
    <3>5. y.res = z.res /\ y.ended = z.ended /\ y.left = z.left /\ y.do = z.do
      BY <1>4, <3>1 DEF ClientRequests
    <3>6. BodyOK(y)
      BY <1>3, <3>4, Zenon DEF BodyOK, SameBody
    <3>7. SaysOK(y) /\ OnceOK(y) /\ AfterOK(y)
      BY <1>3, <3>4, <3>5 DEF SaysOK, OnceOK, AfterOK, SameFlags, SameLogs
    <3>8. ResponseAt(y)
      BY <1>3, <1>8, <3>4, <3>5 DEF ResponseAt, SameLogs
    <3>9. AllChunks(y) = AllChunks(z) + 1
      BY <1>4, <1>5, <3>1, <3>2, <3>3, <3>4, <3>5, SMTT(20) DEF AllChunks, SameLogs, SamePlace
    <3>10. ChunksOK(y)
      BY <1>6, <2>2, <2>4, <3>4, <3>5, <3>9 DEF ChunksOK, SumsOK, CutOK, SameLogs
    <3>11. QED BY <1>4, <3>3, <3>4, <3>6, <3>7, <3>8, <3>10 DEF ClientOK, SameFlags
  <2>7. QED BY <2>5, <2>6
<1>9. QED BY <1>7, <1>8

\* The error of a body that was cut.
LEMMA TakesBodyError ==
  ASSUME NEW s, ClientOK(s), s.ticks # <<>>, Head(s.ticks) = "bodyError",
         NEW y, y = OnBodyError(Taken(s))
  PROVE  ClientOK(y) /\ y.destroyed = s.destroyed /\ y.aborted = s.aborted
<1> DEFINE z == Taken(s)
<1>1. s \in ClientRequests /\ TakenIs(s, z)
  BY TakenStays DEF ClientOK
<1>2. Tally(s.ticks, "data") = 0 + Tally(z.ticks, "data") /\ \A a : a # "bodyError" => (Has(s.ticks, a) <=> Has(z.ticks, a))
  BY TakenStays
<1>3. BodyOK(z) /\ SaysOK(z) /\ OnceOK(z) /\ AfterOK(z) /\ ResponseAt(z) /\ HeadSays("bodyError", z)
  BY TakenStays
<1> HIDE DEF z
<1>4. z \in ClientRequests /\ SamePlace(s, z) /\ z.heard = s.heard /\ SameFlags(s, z)
  BY <1>1 DEF TakenIs
<1>5. Tally(s.ticks, "data") = Tally(z.ticks, "data")
  BY <1>1, <1>2, <1>4, ClientFields
<1>6. SumsOK(z)
  BY <1>2, <1>4, <1>5 DEF ClientOK, ChunksOK, SumsOK, AllChunks, SamePlace
<1>7. ClientButCut(z)
  BY <1>3, <1>4, <1>6 DEF ClientButCut
<1>8. z.res # "live" => CutOK(z)
  BY <1>3 DEF CutOK, HeadSays
<1>9. CASE z.res = "no"
  <2>1. y = [z EXCEPT !.exited = TRUE]
    BY <1>9 DEF z, OnBodyError
  <2>2. y \in ClientRequests
    BY <1>4, <2>1, ZenonT(40) DEF ClientRequests
  <2>3. SameBody(z, y) /\ SameFlags(z, y)
    BY <1>4, <2>1 DEF ClientRequests, SameBody, SameFlags
  <2>4. SamePlace(z, y) /\ SameLogs(z, y)
    BY <1>4, <2>1 DEF ClientRequests, SamePlace, SameLogs
  <2>5. ClientOK(z)
    BY <1>7, <1>8, <1>9 DEF ClientOK, ClientButCut, ChunksOK
  <2>6. ClientOK(y)
    BY <2>2, <2>3, <2>4, <2>5, Alike
  <2>7. QED BY <1>4, <2>3, <2>6 DEF SameFlags
<1>10. CASE z.res # "no"
  <2>1. y = ResDestroy(z, TRUE)
    BY <1>10 DEF z, OnBodyError
  <2>2. ClientOK(y) /\ ResGone(z, y)
    BY <1>7, <1>8, <2>1, ResDestroyIs, Zenon
  <2>3. QED BY <1>4, <2>2, Zenon DEF ResGone, SameFlags
<1>11. QED BY <1>9, <1>10, Zenon

-----------------------------------------------------------------------------
(* HttpClient: the steps *)

LEMMA ClientInit == QInit => ClientInv
<1> SUFFICES ASSUME QInit PROVE ClientInv
  OBVIOUS
<1>1. q = NewClientRequest
  BY DEF QInit
<1>2. Len(<<>>) = 0 /\ (\A S : <<>> \in Seq(S)) /\ \A e : ~Has(<<>>, e)
  BY EmptySeq DEF Has
<1>3. <<"socket">> \in Seq(QTicks) /\ Len(<<"socket">>) = 1 /\ <<"socket">>[1] = "socket"
  <2>1. "socket" \in QTicks
    BY DEF QTicks
  <2>2. \A S : "socket" \in S => <<"socket">> \in Seq(S)
    OBVIOUS
  <2>3. QED BY <2>1, <2>2
<1>4. q \in ClientRequests
  BY <1>1, <1>2, <1>3, HttpClientAssumption DEF NewClientRequest, ClientRequests
<1>5. /\ q.ticks = <<"socket">> /\ q.events = <<>> /\ q.heard = <<>> /\ q.wire = <<>> /\ q.bodyCh = <<>>
      /\ q.said = 0 /\ q.sending = 0 /\ q.feeder = "idle" /\ q.do = "no" /\ q.res = "no" /\ q.left = ResponseChunks
      /\ q.buffer = 0 /\ ~q.native /\ ~q.ended /\ ~q.aborted /\ ~q.closed /\ ~q.destroyed /\ ~q.finished
  BY <1>1 DEF NewClientRequest
<1>6. \A a : Has(q.ticks, a) <=> a = "socket"
  BY <1>3, <1>5 DEF Has
<1>7. BodyOK(q)
  BY <1>2, <1>5 DEF BodyOK
<1>8. SaysOK(q)
  BY <1>2, <1>3, <1>5, <1>6 DEF SaysOK
<1>9. OnceOK(q)
  BY <1>2, <1>3, <1>5, <1>6 DEF OnceOK, OnceIn, Single
<1>10. AfterOK(q)
  BY <1>2, <1>3, <1>5, <1>6 DEF AfterOK, NoLater, Ordered
<1>11. ResponseAt(q)
  BY <1>2, <1>5, <1>6 DEF ResponseAt
<1>12. ChunksOK(q)
  <2>1. Tally(q.heard, "data") = 0
    BY <1>5, TallyEmpty
  <2>2. Tally(q.ticks, "data") = 0
    BY <1>3, <1>5, <1>6, TallyZero, Zenon
  <2>3. AllChunks(q) = ResponseChunks
    BY <1>5, <2>1, <2>2, HttpClientAssumption DEF AllChunks
  <2>4. QED BY <1>2, <1>5, <2>3 DEF ChunksOK, SumsOK, CutOK
<1>13. QED BY <1>4, <1>5, <1>7, <1>8, <1>9, <1>10, <1>11, <1>12 DEF ClientInv, ClientOK

\* Only the request's body changes.
LEMMA BodyChanges ==
  ASSUME NEW s, ClientOK(s), NEW y \in ClientRequests, SameFlags(s, y), SamePlace(s, y), SameLogs(s, y), BodyOK(y)
  PROVE  ClientOK(y)
<1>1. SaysOK(y) /\ OnceOK(y)
  BY DEF ClientOK, SaysOK, OnceOK, SameFlags, SamePlace, SameLogs
<1>2. AfterOK(y) /\ ResponseAt(y)
  BY DEF ClientOK, AfterOK, ResponseAt, SamePlace, SameLogs
<1>3. ChunksOK(y)
  BY DEF ClientOK, ChunksOK, SumsOK, CutOK, AllChunks, SamePlace, SameLogs
<1>4. QED BY <1>1, <1>2, <1>3 DEF ClientOK

LEMMA SendIs ==
  ASSUME NEW s, ClientOK(s)
  PROVE  /\ ClientOK(Send(s)) /\ SameFlags(s, Send(s)) /\ SameLogs(s, Send(s)) /\ Send(s).sending = s.sending
         /\ Send(s).said = s.said
<1>1. s \in ClientRequests
  BY DEF ClientOK
<1>2. CASE s.native \/ s.destroyed
  BY <1>2 DEF Send, SameFlags, SameLogs
<1>3. CASE ~(s.native \/ s.destroyed)
  <2> DEFINE y == Send(s)
  <2>1. y = [s EXCEPT !.native = TRUE, !.feeder = "run", !.do = "dial"]
    BY <1>3 DEF Send
  <2> HIDE DEF y
  <2>2. y \in ClientRequests /\ y.native /\ y.feeder = "run" /\ y.do = "dial"
    BY <1>1, <2>1, ZenonT(40) DEF ClientRequests
  <2>3. SameFlags(s, y) /\ SameLogs(s, y) /\ y.res = s.res /\ y.buffer = s.buffer /\ y.ended = s.ended /\ y.left = s.left
    BY <1>1, <2>1 DEF ClientRequests, SameFlags, SameLogs
  <2>4. y.wire = s.wire /\ y.said = s.said /\ y.bodyCh = s.bodyCh /\ y.sending = s.sending
    BY <1>1, <2>1 DEF ClientRequests
  <2>5. s.feeder = "idle" /\ s.do = "no" /\ BodyOK(s)
    BY <1>3, Zenon DEF ClientOK, BodyOK
  <2>6. BodyOK(y)
    BY <2>2, <2>4, <2>5, Zenon DEF BodyOK
  <2>7. SaysOK(y) /\ OnceOK(y) /\ AfterOK(y)
    BY <2>2, <2>3, <2>5 DEF ClientOK, SaysOK, OnceOK, AfterOK, SameFlags, SameLogs
  <2>8. ResponseAt(y)
    BY <2>2, <2>3, <2>5 DEF ClientOK, ResponseAt, SameLogs
  <2>9. ChunksOK(y)
    BY <2>2, <2>3, <2>5 DEF ClientOK, ChunksOK, SumsOK, CutOK, AllChunks, SameLogs
  <2>10. ClientOK(y)
    BY <2>2, <2>6, <2>7, <2>8, <2>9 DEF ClientOK
  <2>11. QED BY <2>3, <2>4, <2>10 DEF y
<1>4. QED BY <1>2, <1>3

\* The channel gets the number that is next.
LEMMA NextNumber ==
  ASSUME NEW ch \in Seq(Nat), NEW n \in Nat, NEW base \in Nat, \A i \in 1..Len(ch) : ch[i] = base + i,
         n = base + Len(ch) + 1
  PROVE  /\ Append(ch, n) \in Seq(Nat) /\ Len(Append(ch, n)) = Len(ch) + 1
         /\ \A i \in 1..Len(Append(ch, n)) : Append(ch, n)[i] = base + i
<1> DEFINE h == Append(ch, n)
<1>1. h \in Seq(Nat) /\ Len(h) = Len(ch) + 1 /\ h[Len(ch) + 1] = n /\ \A i \in 1..Len(ch) : h[i] = ch[i]
  BY AppendProperties
<1>2. Len(ch) \in Nat
  BY LenProperties
<1> HIDE DEF h
<1>3. ASSUME NEW i \in 1..Len(h) PROVE h[i] = base + i
  <2>1. CASE i \in 1..Len(ch)
    BY <1>1, <2>1
  <2>2. CASE i = Len(ch) + 1
    BY <1>1, <1>2, <2>2
  <2>3. QED BY <1>1, <1>2, <2>1, <2>2
<1>4. QED BY <1>1, <1>3 DEF h

\* A chunk goes to the channel, or waits for room in it.
SaidIs(s, n, ch, m, y) ==
  /\ y \in ClientRequests /\ SameFlags(s, y) /\ SamePlace(s, y) /\ SameLogs(s, y) /\ y.wire = s.wire
  /\ y.feeder = s.feeder /\ y.native = s.native /\ y.said = n /\ y.bodyCh = ch /\ y.sending = m

LEMMA SaidToChannel ==
  ASSUME NEW s \in ClientRequests, NEW n \in Nat, NEW ch \in Seq(Nat), NEW y,
         y = [s EXCEPT !.said = n, !.bodyCh = ch]
  PROVE  SaidIs(s, n, ch, s.sending, y)
<1>1. y \in ClientRequests /\ y.said = n /\ y.bodyCh = ch
  BY ZenonT(40) DEF ClientRequests
<1>2. SameFlags(s, y) /\ SamePlace(s, y) /\ SameLogs(s, y)
  BY DEF ClientRequests, SameFlags, SamePlace, SameLogs
<1>3. y.wire = s.wire /\ y.feeder = s.feeder /\ y.native = s.native /\ y.sending = s.sending
  BY DEF ClientRequests
<1>4. QED BY <1>1, <1>2, <1>3 DEF SaidIs

LEMMA SaidAndWaits ==
  ASSUME NEW s \in ClientRequests, NEW n \in Nat, NEW y, y = [s EXCEPT !.said = n, !.sending = n]
  PROVE  SaidIs(s, n, s.bodyCh, n, y)
<1>1. y \in ClientRequests /\ y.said = n /\ y.sending = n
  BY ZenonT(40) DEF ClientRequests
<1>2. SameFlags(s, y) /\ SamePlace(s, y) /\ SameLogs(s, y)
  BY DEF ClientRequests, SameFlags, SamePlace, SameLogs
<1>3. y.wire = s.wire /\ y.feeder = s.feeder /\ y.native = s.native /\ y.bodyCh = s.bodyCh
  BY DEF ClientRequests
<1>4. QED BY <1>1, <1>2, <1>3 DEF SaidIs

LEMMA NativeWriteIs ==
  ASSUME NEW s, ClientOK(s), s.sending = 0, s.native
  PROVE  /\ ClientOK(NativeWrite([s EXCEPT !.said = @ + 1], s.said + 1))
         /\ SameFlags(s, NativeWrite([s EXCEPT !.said = @ + 1], s.said + 1))
<1> DEFINE n == s.said + 1
           h == Append(s.bodyCh, n)
           y == NativeWrite([s EXCEPT !.said = @ + 1], s.said + 1)
<1>1. s \in ClientRequests /\ s.said \in Nat /\ s.bodyCh \in Seq(Nat) /\ Len(s.bodyCh) \in Nat /\ Len(s.wire) \in Nat
  BY ClientFields DEF ClientOK
<1>2. n \in Nat /\ n = s.said + 1 /\ n # 0
  BY <1>1
<1>3. BodyOK(s)
  BY DEF ClientOK
<1>4. y = [s EXCEPT !.said = n, !.bodyCh = h] \/ y = [s EXCEPT !.said = n, !.sending = n]
  BY <1>1 DEF NativeWrite, ClientRequests
<1> HIDE DEF n, y
<1>5. h \in Seq(Nat)
  BY <1>1, <1>2, AppendProperties
<1>6. s.feeder \in {"idle", "run"} =>
        (\A i \in 1..Len(s.bodyCh) : s.bodyCh[i] = Len(s.wire) + i) /\ Len(s.wire) + Len(s.bodyCh) = s.said
  BY <1>3, Zenon DEF BodyOK
<1>7. s.feeder \in {"idle", "run"} =>
        Len(h) = Len(s.bodyCh) + 1 /\ \A i \in 1..Len(h) : h[i] = Len(s.wire) + i
  <2>1. SUFFICES ASSUME s.feeder \in {"idle", "run"}
                 PROVE  Len(h) = Len(s.bodyCh) + 1 /\ \A i \in 1..Len(h) : h[i] = Len(s.wire) + i
    OBVIOUS
  <2>2. n = Len(s.wire) + Len(s.bodyCh) + 1
    BY <1>1, <1>2, <1>6, <2>1, Zenon
  <2>3. QED BY <1>1, <1>2, <1>6, <2>1, <2>2, NextNumber, ZenonT(40)
<1> HIDE DEF h
<1>8. SaidIs(s, n, h, 0, y) \/ SaidIs(s, n, s.bodyCh, n, y)
  <2>1. y = [s EXCEPT !.said = n, !.bodyCh = h] => SaidIs(s, n, h, 0, y)
    BY <1>1, <1>2, <1>5, SaidToChannel, Zenon
  <2>2. y = [s EXCEPT !.said = n, !.sending = n] => SaidIs(s, n, s.bodyCh, n, y)
    BY <1>1, <1>2, SaidAndWaits, Zenon
  <2>3. QED BY <1>4, <2>1, <2>2
<1>9. (\A i \in 1..Len(s.wire) : s.wire[i] = i) /\ Len(s.wire) <= n
  BY <1>1, <1>2, <1>3 DEF BodyOK
<1>10. CASE SaidIs(s, n, h, 0, y)
  <2>1. /\ y \in ClientRequests /\ SameFlags(s, y) /\ SamePlace(s, y) /\ SameLogs(s, y) /\ y.wire = s.wire
        /\ y.feeder = s.feeder /\ y.native = s.native /\ y.said = n /\ y.bodyCh = h /\ y.sending = 0
    BY <1>10 DEF SaidIs
  <2>2. y.feeder \in {"idle", "run"} => Len(y.wire) + Len(y.bodyCh) = y.said
    <3>1. SUFFICES ASSUME s.feeder \in {"idle", "run"} PROVE Len(s.wire) + Len(h) = n
      BY <2>1
    <3>2. Len(h) = Len(s.bodyCh) + 1 /\ Len(s.wire) + Len(s.bodyCh) = s.said
      BY <1>6, <1>7, <3>1, Zenon
    <3> DEFINE a == Len(s.wire)
               b == Len(s.bodyCh)
               m == s.said
               l == Len(h)
    <3>3. a \in Nat /\ b \in Nat /\ m \in Nat /\ n = m + 1 /\ l = b + 1 /\ a + b = m
      BY <1>1, <1>2, <3>2, Zenon
    <3> HIDE DEF a, b, m, l
    <3>4. a + l = n
      BY <3>3
    <3>5. QED BY <3>4 DEF a, l
  <2>3. BodyOK(y)
    BY <1>7, <1>9, <2>1, <2>2 DEF BodyOK
  <2>4. QED BY <2>1, <2>3, BodyChanges DEF y
<1>11. CASE SaidIs(s, n, s.bodyCh, n, y)
  <2>1. /\ y \in ClientRequests /\ SameFlags(s, y) /\ SamePlace(s, y) /\ SameLogs(s, y) /\ y.wire = s.wire
        /\ y.feeder = s.feeder /\ y.native = s.native /\ y.said = n /\ y.bodyCh = s.bodyCh /\ y.sending = n
    BY <1>11 DEF SaidIs
  <2>2. y.feeder \in {"idle", "run"} => Len(y.wire) + Len(y.bodyCh) + 1 = y.said
    BY <1>1, <1>2, <1>6, <2>1, Zenon
  <2>3. BodyOK(y)
    BY <1>2, <1>6, <1>9, <2>1, <2>2, Zenon DEF BodyOK
  <2>4. QED BY <2>1, <2>3, BodyChanges DEF y
<1>12. QED BY <1>8, <1>10, <1>11

LEMMA QWriteIs ==
  ASSUME NEW s, ClientOK(s), s.sending = 0
  PROVE  ClientOK(QWrite(s)) /\ QWrite(s).destroyed = s.destroyed /\ QWrite(s).aborted = s.aborted
<1> DEFINE w == Send(s)
<1>1. ClientOK(w) /\ SameFlags(s, w) /\ w.sending = 0 /\ w.said = s.said
  BY SendIs
<1>2. QWrite(s) = IF s.finished THEN QTick([s EXCEPT !.late = @ + 1], "errorAfterEnd") ELSE
                  IF ~w.native THEN s ELSE NativeWrite([w EXCEPT !.said = @ + 1], s.said + 1)
  BY DEF QWrite
<1> HIDE DEF w
<1>3. CASE s.finished
  <2> DEFINE n == s.late + 1
             z == [s EXCEPT !.late = n]
  <2>1. s \in ClientRequests
    BY DEF ClientOK
  <2>2. n \in Nat
    BY <2>1 DEF ClientRequests
  <2>3. QWrite(s) = QTick(z, "errorAfterEnd")
    BY <1>2, <1>3
  <2> HIDE DEF n
  <2>4. z \in ClientRequests
    BY <2>1, <2>2, ZenonT(40) DEF ClientRequests
  <2>5. SameBody(s, z) /\ SameFlags(s, z)
    BY <2>1 DEF ClientRequests, SameBody, SameFlags
  <2>6. SamePlace(s, z) /\ SameLogs(s, z)
    BY <2>1 DEF ClientRequests, SamePlace, SameLogs
  <2> HIDE DEF z
  <2>7. ClientOK(z)
    BY <2>4, <2>5, <2>6, Alike
  <2>8. TickMay(z, "errorAfterEnd")
    BY DEF TickMay, QTicks
  <2>9. ClientOK(QTick(z, "errorAfterEnd")) /\ TickIs(z, "errorAfterEnd", QTick(z, "errorAfterEnd"))
    BY <2>7, <2>8, PutTick
  <2>10. QED BY <2>3, <2>5, <2>9 DEF TickIs, SameFlags
<1>4. CASE ~s.finished /\ ~w.native
  BY <1>2, <1>4
<1>5. CASE ~s.finished /\ w.native
  <2>1. QWrite(s) = NativeWrite([w EXCEPT !.said = @ + 1], w.said + 1)
    BY <1>1, <1>2, <1>5
  <2>2. ClientOK(QWrite(s)) /\ SameFlags(w, QWrite(s))
    BY <1>1, <1>5, <2>1, NativeWriteIs
  <2>3. QED BY <1>1, <2>2 DEF SameFlags
<1>6. QED BY <1>3, <1>4, <1>5

LEMMA QEndIs ==
  ASSUME NEW s, ClientOK(s)
  PROVE  ClientOK(QEnd(s)) /\ QEnd(s).destroyed = s.destroyed /\ QEnd(s).aborted = s.aborted
<1> DEFINE w == Send(s)
           b == w.chClosed \/ w.native
           z == [w EXCEPT !.chClosed = b, !.finished = TRUE]
<1>1. ClientOK(w) /\ SameFlags(s, w) /\ SameLogs(s, w) /\ w \in ClientRequests
  BY SendIs DEF ClientOK
<1>2. CASE s.finished
  BY <1>2 DEF QEnd
<1>3. CASE ~s.finished
  <2>1. QEnd(s) = QTick(z, "finish")
    <3>1. QEnd(s) = QTick([(IF w.native THEN [w EXCEPT !.chClosed = TRUE] ELSE w) EXCEPT !.finished = TRUE], "finish")
      BY <1>3 DEF QEnd
    <3> HIDE DEF w
    <3>2. [(IF w.native THEN [w EXCEPT !.chClosed = TRUE] ELSE w) EXCEPT !.finished = TRUE] = z
      <4>1. CASE w.native
        BY <1>1, <4>1, ZenonT(40) DEF ClientRequests
      <4>2. CASE ~w.native
        BY <1>1, <4>2, ZenonT(40) DEF ClientRequests
      <4>3. QED BY <4>1, <4>2
    <3>3. QED BY <3>1, <3>2
  <2> HIDE DEF w
  <2>2. b \in BOOLEAN
    OBVIOUS
  <2> HIDE DEF b
  <2>3. z \in ClientRequests /\ z.finished
    BY <1>1, <2>2, ZenonT(40) DEF ClientRequests
  <2>4. z.destroyed = w.destroyed /\ z.closed = w.closed /\ z.aborted = w.aborted
    BY <1>1 DEF ClientRequests
  <2>5. SameBody(w, z) /\ SamePlace(w, z) /\ SameLogs(w, z)
    BY <1>1 DEF ClientRequests, SameBody, SamePlace, SameLogs
  <2> HIDE DEF z
  <2>6. BodyOK(z)
    BY <1>1, <2>5, BodyStays DEF ClientOK
  <2>7. SaysOK(z) /\ OnceOK(z) /\ AfterOK(z)
    BY <1>1, <2>3, <2>4, <2>5 DEF ClientOK, SaysOK, OnceOK, AfterOK, SamePlace, SameLogs
  <2>8. ResponseAt(z) /\ ChunksOK(z)
    BY <1>1, <2>5 DEF ClientOK, ResponseAt, ChunksOK, SumsOK, CutOK, AllChunks, SamePlace, SameLogs
  <2>9. ClientOK(z)
    BY <2>3, <2>6, <2>7, <2>8 DEF ClientOK
  <2>10. ~Has(s.ticks, "finish") /\ ~Has(s.events, "finish")
    BY <1>3 DEF ClientOK, SaysOK
  <2>11. TickMay(z, "finish")
    BY <1>1, <2>3, <2>5, <2>10 DEF TickMay, QTicks, SameLogs
  <2>12. ClientOK(QTick(z, "finish")) /\ TickIs(z, "finish", QTick(z, "finish"))
    BY <2>9, <2>11, PutTick
  <2>13. QED BY <1>1, <2>1, <2>4, <2>12 DEF TickIs, SameFlags
<1>4. QED BY <1>2, <1>3

\* The goroutine that feeds the pipe.
LEMMA FeedsStep ==
  ASSUME ClientInv, Feeds
  PROVE  ClientInv'
<1> DEFINE y == q'
           t == Tail(q.bodyCh)
           h == Append(q.wire, Head(q.bodyCh))
<1>1. ClientOK(q) /\ q \in ClientRequests /\ BodyOK(q) /\ q.feeder = "run" /\ q.native /\ (q.aborted => q.destroyed)
  BY Zenon DEF ClientInv, ClientOK, BodyOK, Feeds
<1>2. /\ q.bodyCh \in Seq(Nat) /\ q.wire \in Seq(Nat) /\ Len(q.bodyCh) \in Nat /\ Len(q.wire) \in Nat
      /\ q.said \in Nat /\ q.sending \in Nat
  BY <1>1, ClientFields
<1>3. /\ \A i \in 1..Len(q.wire) : q.wire[i] = i
      /\ Len(q.wire) <= q.said
      /\ \A i \in 1..Len(q.bodyCh) : q.bodyCh[i] = Len(q.wire) + i
      /\ q.sending = 0 => Len(q.wire) + Len(q.bodyCh) = q.said
      /\ q.sending # 0 => q.sending = q.said /\ Len(q.wire) + Len(q.bodyCh) + 1 = q.said
  BY <1>1, Zenon DEF BodyOK
<1>4. q.bodyCh # <<>> =>
        /\ t \in Seq(Nat) /\ Len(t) = Len(q.bodyCh) - 1 /\ Len(q.bodyCh) > 0 /\ Head(q.bodyCh) = Len(q.wire) + 1
        /\ \A i \in 1..Len(t) : t[i] = q.bodyCh[i + 1] /\ i + 1 \in 1..Len(q.bodyCh)
  <2>1. SUFFICES ASSUME q.bodyCh # <<>>
                 PROVE  /\ t \in Seq(Nat) /\ Len(t) = Len(q.bodyCh) - 1 /\ Len(q.bodyCh) > 0
                        /\ Head(q.bodyCh) = Len(q.wire) + 1
                        /\ \A i \in 1..Len(t) : t[i] = q.bodyCh[i + 1] /\ i + 1 \in 1..Len(q.bodyCh)
    OBVIOUS
  <2>2. /\ t \in Seq(Nat) /\ Len(t) = Len(q.bodyCh) - 1 /\ Head(q.bodyCh) = q.bodyCh[1] /\ 1 \in 1..Len(q.bodyCh)
        /\ \A i \in 1..Len(t) : t[i] = q.bodyCh[i + 1] /\ i + 1 \in 1..Len(q.bodyCh)
    BY <1>2, <2>1, TailAt, HeadTailProperties
  <2>3. q.bodyCh[1] = Len(q.wire) + 1
    BY <1>3, <2>2
  <2>4. Len(q.bodyCh) > 0
    BY <1>2, <2>2
  <2>5. QED BY <2>2, <2>3, <2>4
<1>5. q.bodyCh # <<>> =>
        /\ h \in Seq(Nat) /\ Len(h) = Len(q.wire) + 1 /\ h[Len(q.wire) + 1] = Len(q.wire) + 1
        /\ \A i \in 1..Len(q.wire) : h[i] = q.wire[i]
  BY <1>2, <1>4, AppendProperties
<1> HIDE DEF t, h
<1>6. CASE q.bodyCh # <<>> /\ q' = [q EXCEPT !.feeder = "left", !.bodyCh = t]
  <2>1. q' \in ClientRequests /\ q'.feeder = "left"
    BY <1>1, <1>4, <1>6, ZenonT(40) DEF ClientRequests
  <2>2. SameFlags(q, q') /\ SamePlace(q, q') /\ SameLogs(q, q')
    BY <1>1, <1>6 DEF ClientRequests, SameFlags, SamePlace, SameLogs
  <2>3. q'.wire = q.wire /\ q'.said = q.said /\ q'.native = q.native
    BY <1>1, <1>6, ZenonT(40) DEF ClientRequests
  <2>4. BodyOK(q')
    BY <1>1, <1>3, <2>1, <2>3 DEF BodyOK
  <2>5. QED BY <1>1, <2>1, <2>2, <2>4, BodyChanges DEF ClientInv, SameFlags
<1>7. CASE q.bodyCh # <<>> /\ q' = [q EXCEPT !.wire = h, !.bodyCh = t]
  <2>1. q' \in ClientRequests /\ q'.wire = h /\ q'.bodyCh = t
    BY <1>1, <1>4, <1>5, <1>7, ZenonT(40) DEF ClientRequests
  <2>2. SameFlags(q, q') /\ SamePlace(q, q') /\ SameLogs(q, q')
    BY <1>1, <1>7 DEF ClientRequests, SameFlags, SamePlace, SameLogs
  <2>3. q'.feeder = q.feeder /\ q'.said = q.said /\ q'.native = q.native /\ q'.sending = q.sending
    BY <1>1, <1>7, ZenonT(40) DEF ClientRequests
  <2>4. \A i \in 1..Len(h) : h[i] = i
    <3>1. ASSUME NEW i \in 1..Len(h) PROVE h[i] = i
      <4>1. i \in 1..Len(q.wire) \/ i = Len(q.wire) + 1
        BY <1>2, <1>5, <1>7
      <4>2. QED BY <1>3, <1>5, <1>7, <4>1, Zenon
    <3>2. QED BY <3>1
  <2>5. \A i \in 1..Len(t) : t[i] = Len(h) + i
    <3>1. ASSUME NEW i \in 1..Len(t) PROVE t[i] = Len(h) + i
      <4>1. t[i] = Len(q.wire) + (i + 1)
        BY <1>3, <1>4, <1>7, Zenon
      <4>2. Len(h) = Len(q.wire) + 1
        BY <1>5, <1>7
      <4> DEFINE a == Len(q.wire)
                 l == Len(h)
      <4>3. a \in Nat /\ i \in Nat /\ t[i] = a + (i + 1) /\ l = a + 1
        BY <1>2, <4>1, <4>2
      <4> HIDE DEF a, l
      <4>4. t[i] = l + i
        BY <4>3
      <4>5. QED BY <4>4 DEF l
    <3>2. QED BY <3>1
  <2>6. Len(h) + Len(t) = Len(q.wire) + Len(q.bodyCh) /\ Len(h) <= q.said
    <3>1. Len(h) = Len(q.wire) + 1 /\ Len(t) = Len(q.bodyCh) - 1 /\ Len(q.bodyCh) > 0
      BY <1>4, <1>5, <1>7
    <3> DEFINE a == Len(q.wire)
               b == Len(q.bodyCh)
               m == q.said
               l == Len(h)
               c == Len(t)
    <3>2. /\ a \in Nat /\ b \in Nat /\ m \in Nat /\ l = a + 1 /\ c = b - 1 /\ b > 0
          /\ a + b = m \/ a + b + 1 = m
      BY <1>2, <1>3, <3>1, Zenon
    <3> HIDE DEF a, b, m, l, c
    <3>3. l + c = a + b /\ l <= m
      BY <3>2
    <3>4. QED BY <3>3, Zenon DEF a, b, m, l, c
  <2>7. BodyOK(q')
    BY <1>1, <1>3, <2>1, <2>3, <2>4, <2>5, <2>6, Zenon DEF BodyOK
  <2>8. QED BY <1>1, <2>1, <2>2, <2>7, BodyChanges DEF ClientInv, SameFlags
<1>8. CASE q' = [q EXCEPT !.feeder = "closed"]
  <2>1. q' \in ClientRequests /\ q'.feeder = "closed"
    BY <1>1, <1>8, ZenonT(40) DEF ClientRequests
  <2>2. SameFlags(q, q') /\ SamePlace(q, q') /\ SameLogs(q, q')
    BY <1>1, <1>8 DEF ClientRequests, SameFlags, SamePlace, SameLogs
  <2>3. q'.wire = q.wire /\ q'.said = q.said /\ q'.native = q.native
    BY <1>1, <1>8, ZenonT(40) DEF ClientRequests
  <2>4. BodyOK(q')
    BY <1>1, <1>3, <2>1, <2>3 DEF BodyOK
  <2>5. QED BY <1>1, <2>1, <2>2, <2>4, BodyChanges DEF ClientInv, SameFlags
<1>9. QED BY <1>1, <1>6, <1>7, <1>8 DEF Feeds, t, h, ClientRequests

\* The send that waited goes on.
LEMMA UnblocksStep ==
  ASSUME ClientInv, Unblocks
  PROVE  ClientInv'
<1> DEFINE h == Append(q.bodyCh, q.sending)
<1>1. ClientOK(q) /\ q \in ClientRequests /\ BodyOK(q) /\ q.sending # 0 /\ (q.aborted => q.destroyed)
  BY DEF ClientInv, ClientOK, Unblocks
<1>2. /\ q.bodyCh \in Seq(Nat) /\ q.wire \in Seq(Nat) /\ Len(q.bodyCh) \in Nat /\ Len(q.wire) \in Nat
      /\ q.said \in Nat /\ q.sending \in Nat
  BY <1>1, ClientFields
<1>3. q' = [q EXCEPT !.bodyCh = h, !.sending = 0] /\ h \in Seq(Nat)
  BY <1>1, <1>2, AppendProperties DEF Unblocks
<1>4. q.feeder \in {"idle", "run"} =>
        /\ \A i \in 1..Len(h) : h[i] = Len(q.wire) + i
        /\ Len(q.wire) + Len(h) = q.said
  <2>1. SUFFICES ASSUME q.feeder \in {"idle", "run"}
                 PROVE  (\A i \in 1..Len(h) : h[i] = Len(q.wire) + i) /\ Len(q.wire) + Len(h) = q.said
    BY Zenon
  <2>2. /\ \A i \in 1..Len(q.bodyCh) : q.bodyCh[i] = Len(q.wire) + i
        /\ q.sending = q.said /\ Len(q.wire) + Len(q.bodyCh) + 1 = q.said
    BY <1>1, <2>1, Zenon DEF BodyOK
  <2> DEFINE a == Len(q.wire)
             b == Len(q.bodyCh)
             m == q.said
             l == Len(h)
             n == q.sending
  <2>3. a \in Nat /\ b \in Nat /\ m \in Nat /\ n \in Nat /\ n = m /\ a + b + 1 = m
    BY <1>2, <2>2, Zenon
  <2>4. n = a + b + 1
    <3> HIDE DEF a, b, m, n
    <3>1. QED BY <2>3
  <2>5. l = b + 1 /\ \A i \in 1..l : h[i] = a + i
    BY <1>2, <2>2, <2>4, NextNumber, Zenon
  <2>6. a + l = m
    <3> HIDE DEF a, b, m, n, l
    <3>1. QED BY <2>3, <2>5
  <2>7. QED BY <2>5, <2>6, Zenon
<1> HIDE DEF h
<1>5. q' \in ClientRequests /\ q'.bodyCh = h /\ q'.sending = 0
  BY <1>1, <1>3, ZenonT(40) DEF ClientRequests
<1>6. SameFlags(q, q') /\ SamePlace(q, q') /\ SameLogs(q, q')
  BY <1>1, <1>3 DEF ClientRequests, SameFlags, SamePlace, SameLogs
<1>7. q'.wire = q.wire /\ q'.said = q.said /\ q'.native = q.native /\ q'.feeder = q.feeder /\ q'.do = q.do
  BY <1>1, <1>3 DEF ClientRequests
<1>8. BodyOK(q')
  BY <1>1, <1>4, <1>5, <1>7 DEF BodyOK
<1>9. QED BY <1>1, <1>5, <1>6, <1>8, BodyChanges DEF ClientInv, SameFlags

\* client.Do returns.
LEMMA DoReturnsStep ==
  ASSUME ClientInv, DoReturns
  PROVE  ClientInv'
<1>1. ClientOK(q) /\ q \in ClientRequests /\ q.do = "dial" /\ (q.aborted => q.destroyed)
  BY Zenon DEF ClientInv, ClientOK, DoReturns
<1>2. q.res = "no" /\ ~Has(q.ticks, "response") /\ ~Has(q.events, "response") /\ ~Has(q.ticks, "nativeError")
  BY <1>1 DEF ClientOK, SaysOK, ResponseAt
<1>3. AllChunks(q) = ResponseChunks /\ ~Has(q.ticks, "data") /\ ~Has(q.ticks, "bodyError") /\ ~Has(q.ticks, "end") /\ ~q.ended
  BY <1>1 DEF ClientOK, ResponseAt, ChunksOK, SumsOK
<1>4. q.native
  BY <1>1 DEF ClientOK, BodyOK
<1>5. ASSUME NEW z \in ClientRequests, z.do \in {"body", "done"}, SameFlags(q, z), SameLogs(q, z),
             z.res = q.res, z.buffer = q.buffer, z.ended = q.ended, z.left = q.left,
             z.wire = q.wire, z.said = q.said, z.bodyCh = q.bodyCh, z.sending = q.sending,
             z.feeder = q.feeder, z.native = q.native
      PROVE  ClientOK(z)
  <2>1. BodyOK(z)
    <3>1. BodyOK(q)
      BY <1>1 DEF ClientOK
    <3>2. (\A i \in 1..Len(z.wire) : z.wire[i] = i) /\ Len(z.wire) <= z.said
      BY <1>5, <3>1 DEF BodyOK
    <3>3. z.feeder \in {"idle", "run"} =>
            /\ \A i \in 1..Len(z.bodyCh) : z.bodyCh[i] = Len(z.wire) + i
            /\ z.sending = 0 => Len(z.wire) + Len(z.bodyCh) = z.said
            /\ z.sending # 0 => z.sending = z.said /\ Len(z.wire) + Len(z.bodyCh) + 1 = z.said
      BY <1>5, <3>1, Zenon DEF BodyOK
    <3>4. QED BY <1>4, <1>5, <3>2, <3>3, Zenon DEF BodyOK
  <2>2. SaysOK(z)
    BY <1>1, <1>2, <1>5 DEF ClientOK, SaysOK, SameFlags, SameLogs
  <2>3. OnceOK(z) /\ AfterOK(z)
    BY <1>1, <1>5 DEF ClientOK, OnceOK, AfterOK, SameLogs
  <2>4. ResponseAt(z)
    BY <1>1, <1>2, <1>3, <1>5 DEF ClientOK, ResponseAt, SameLogs
  <2>5. ChunksOK(z)
    BY <1>1, <1>2, <1>5 DEF ClientOK, ChunksOK, SumsOK, CutOK, SameLogs
  <2>6. QED BY <1>5, <2>1, <2>2, <2>3, <2>4, <2>5 DEF ClientOK
<1>6. CASE q' = QTick([q EXCEPT !.do = "done", !.pipeShut = TRUE, !.cancelled = TRUE], "nativeError")
  <2> DEFINE z == [q EXCEPT !.do = "done", !.pipeShut = TRUE, !.cancelled = TRUE]
  <2>1. z \in ClientRequests /\ z.do = "done"
    BY <1>1, ZenonT(40) DEF ClientRequests
  <2>2. SameFlags(q, z) /\ SameLogs(q, z)
    BY <1>1 DEF ClientRequests, SameFlags, SameLogs
  <2>3. z.res = q.res /\ z.buffer = q.buffer /\ z.ended = q.ended /\ z.left = q.left
    BY <1>1 DEF ClientRequests
  <2>4. /\ z.wire = q.wire /\ z.said = q.said /\ z.bodyCh = q.bodyCh /\ z.sending = q.sending
        /\ z.feeder = q.feeder /\ z.native = q.native
    BY <1>1 DEF ClientRequests
  <2>5. q' = QTick(z, "nativeError")
    BY <1>6
  <2> HIDE DEF z
  <2>6. ClientOK(z)
    BY <1>5, <2>1, <2>2, <2>3, <2>4
  <2>7. TickMay(z, "nativeError")
    BY <1>2, <2>1, <2>2, <2>3 DEF TickMay, QTicks, SameLogs
  <2>8. ClientOK(q') /\ TickIs(z, "nativeError", q')
    BY <2>5, <2>6, <2>7, PutTick
  <2>9. QED BY <1>1, <2>2, <2>8 DEF ClientInv, TickIs, SameFlags
<1>7. ASSUME NEW shut \in BOOLEAN, q' = QTick([q EXCEPT !.do = "body", !.pipeShut = shut], "response")
      PROVE  ClientInv'
  <2> DEFINE z == [q EXCEPT !.do = "body", !.pipeShut = shut]
  <2>1. z \in ClientRequests /\ z.do = "body"
    BY <1>1, ZenonT(40) DEF ClientRequests
  <2>2. SameFlags(q, z) /\ SameLogs(q, z)
    BY <1>1 DEF ClientRequests, SameFlags, SameLogs
  <2>3. z.res = q.res /\ z.buffer = q.buffer /\ z.ended = q.ended /\ z.left = q.left
    BY <1>1 DEF ClientRequests
  <2>4. /\ z.wire = q.wire /\ z.said = q.said /\ z.bodyCh = q.bodyCh /\ z.sending = q.sending
        /\ z.feeder = q.feeder /\ z.native = q.native
    BY <1>1 DEF ClientRequests
  <2>5. q' = QTick(z, "response")
    BY <1>7
  <2> HIDE DEF z
  <2>6. ClientOK(z)
    BY <1>5, <2>1, <2>2, <2>3, <2>4
  <2>7. AllChunks(z) = AllChunks(q)
    BY <2>2, <2>3 DEF AllChunks, SameLogs
  <2>8. TickMay(z, "response")
    BY <1>2, <1>3, <2>1, <2>2, <2>3, <2>7 DEF TickMay, QTicks, SameLogs
  <2>9. ClientOK(q') /\ TickIs(z, "response", q')
    BY <2>5, <2>6, <2>8, PutTick
  <2>10. QED BY <1>1, <2>2, <2>9 DEF ClientInv, TickIs, SameFlags
<1>8. QED BY <1>6, <1>7, Zenon DEF DoReturns

LEMMA ClientKeeps ==
  ASSUME ClientInv, ClientOK(q'), SameFlags(q, q')
  PROVE  ClientInv'
BY DEF ClientInv, SameFlags

\* A chunk of the response's body.
IsLeft(s) == s.left > 0
PumpOne(s) == QTick([s EXCEPT !.left = @ - 1], "data")
LEMMA BodyPumpsChunk ==
  ASSUME ClientInv, q.do = "body", IsLeft(q), q' = PumpOne(q)
  PROVE  ClientInv'
<1> DEFINE n == q.left - 1
           z == [q EXCEPT !.left = n]
<1>1. ClientOK(q) /\ q \in ClientRequests /\ q.left \in Nat /\ (q.aborted => q.destroyed)
  BY ClientFields DEF ClientInv, ClientOK
<1>2. n \in Nat /\ n + 1 = q.left
  BY <1>1 DEF IsLeft
<1> HIDE DEF n
<1>3. z \in ClientRequests /\ z.left = n
  BY <1>1, <1>2, ZenonT(40) DEF ClientRequests
<1>4. SameBody(q, z) /\ SameFlags(q, z) /\ SameLogs(q, z)
  BY <1>1 DEF ClientRequests, SameBody, SameFlags, SameLogs
<1>5. z.res = q.res /\ z.buffer = q.buffer /\ z.ended = q.ended
  BY <1>1 DEF ClientRequests
<1>6. q' = QTick(z, "data")
  BY <1>1 DEF n, PumpOne, ClientRequests
<1> HIDE DEF z
<1>7. "data" \in QTicks
  BY DEF QTicks
<1>8. TickIs(z, "data", q')
  BY <1>3, <1>6, <1>7, QTickIs
<1>9. /\ q' \in ClientRequests /\ q'.ticks = Append(q.ticks, "data") /\ q'.events = q.events /\ q'.heard = q.heard
      /\ SameBody(q, q') /\ SameFlags(q, q') /\ q'.res = q.res /\ q'.buffer = q.buffer /\ q'.ended = q.ended
      /\ q'.left = n /\ q'.do = q.do
  <2>1. SameBody(q, q') /\ SameFlags(q, q')
    BY <1>4, <1>8 DEF TickIs, SameBody, SameFlags
  <2>2. q'.res = q.res /\ q'.buffer = q.buffer /\ q'.ended = q.ended /\ q'.left = n /\ q'.do = q.do
    BY <1>3, <1>4, <1>5, <1>8 DEF TickIs, SamePlace, SameBody
  <2>3. QED BY <1>4, <1>8, <2>1, <2>2 DEF TickIs, SameLogs
<1>10. q.ticks \in Seq(QTicks)
  BY <1>1, ClientFields
<1>11. \A a : Has(q'.ticks, a) <=> Has(q.ticks, a) \/ "data" = a
  <2>1. \A a : Has(Append(q.ticks, "data"), a) <=> Has(q.ticks, a) \/ "data" = a
    BY <1>7, <1>10, HasAppend
  <2>2. QED BY <1>9, <2>1
<1>12. Tally(q'.ticks, "data") = Tally(q.ticks, "data") + 1
  <2>1. Tally(Append(q.ticks, "data"), "data") = Tally(q.ticks, "data") + (IF "data" = "data" THEN 1 ELSE 0)
    BY <1>7, <1>10, TallyAppend
  <2>2. QED BY <1>9, <2>1
<1>13. BodyOK(q')
  BY <1>1, <1>9, BodyStays DEF ClientOK
<1>14. SaysOK(q')
  <2>1. Has(q.ticks, "socket") => q'.ticks[1] = q.ticks[1]
    <3>1. SUFFICES ASSUME Has(q.ticks, "socket") PROVE Append(q.ticks, "data")[1] = q.ticks[1]
      BY <1>9
    <3>2. Len(q.ticks) \in Nat /\ 1 \in 1..Len(q.ticks)
      BY <1>1, <3>1, ClientFields DEF Has
    <3>3. QED BY <1>7, <1>10, <3>2, AppendAt
  <2>2. QED BY <1>1, <1>9, <1>11, <2>1 DEF ClientOK, SaysOK, SameFlags
<1>15. OnceOK(q')
  <2>1. OnceOK(q)
    BY <1>1 DEF ClientOK
  <2>2. \A a, e : a # "data" /\ OnceIn(q.ticks, a, q.events, e) => OnceIn(Append(q.ticks, "data"), a, q.events, e)
    BY <1>7, <1>10, OncePut
  <2>3. \A a : a # "data" /\ Single(q.ticks, a) => Single(Append(q.ticks, "data"), a)
    BY <1>7, <1>10, SingleAppend
  <2>4. QED BY <1>9, <1>11, <2>1, <2>2, <2>3 DEF OnceOK
<1>16. AfterOK(q')
  <2>1. AfterOK(q) /\ ~Has(q.ticks, "end")
    BY <1>1 DEF ClientOK, ResponseAt
  <2>2. Ordered(Append(q.ticks, "data"), {"response"}, {"data", "bodyError", "end"})
    BY <1>7, <1>10, <2>1, OrderedAppend DEF AfterOK
  <2>3. \A i \in 1..Len(q.ticks) : q.ticks[i] \notin {"end"}
    BY <2>1 DEF Has
  <2>4. Ordered(Append(q.ticks, "data"), {"data", "bodyError"}, {"end"})
    BY <1>7, <1>10, <2>1, <2>3, OrderedAppend DEF AfterOK
  <2>5. QED BY <1>9, <2>1, <2>2, <2>4 DEF AfterOK
<1>17. ResponseAt(q')
  <2>1. ResponseAt(q)
    BY <1>1 DEF ClientOK
  <2>2. Has(q.ticks, "endReadable") => FALSE
    BY <2>1 DEF ResponseAt
  <2>3. ~q.ended
    BY <2>1 DEF ResponseAt
  <2>4. QED BY <1>9, <1>11, <2>1, <2>2, <2>3 DEF ResponseAt
<1>18. ChunksOK(q')
  <2>1. AllChunks(q') = AllChunks(q)
    <3> DEFINE a == Tally(q.heard, "data")
               b == Tally(q.ticks, "data")
               c == q.buffer
               m == q.left
    <3>1. /\ a \in Nat /\ b \in Nat /\ c \in Nat /\ m \in Nat /\ n \in Nat /\ n + 1 = m
          /\ AllChunks(q) = a + c + b + m /\ AllChunks(q') = a + c + (b + 1) + n
      BY <1>1, <1>2, <1>9, <1>12, ClientFields DEF AllChunks
    <3> HIDE DEF a, b, c, m
    <3>2. QED BY <3>1
  <2>2. QED BY <1>1, <1>9, <1>11, <2>1 DEF ClientOK, ChunksOK, SumsOK, CutOK
<1>19. ClientOK(q')
  BY <1>9, <1>13, <1>14, <1>15, <1>16, <1>17, <1>18 DEF ClientOK
<1>20. QED BY <1>9, <1>19, ClientKeeps

\* The body is over: with all of it, or cut.
PumpDone(s) == [s EXCEPT !.do = "done", !.cancelled = TRUE, !.pipeShut = TRUE]
LEMMA PumpDoneIs ==
  ASSUME NEW s, ClientOK(s), s.do = "body"
  PROVE  /\ PumpDone(s) \in ClientRequests /\ PumpDone(s).do = "done"
         /\ SameFlags(s, PumpDone(s)) /\ SameLogs(s, PumpDone(s))
         /\ PumpDone(s).res = s.res /\ PumpDone(s).buffer = s.buffer /\ PumpDone(s).ended = s.ended
         /\ PumpDone(s).left = s.left
         /\ BodyOK(PumpDone(s)) /\ SaysOK(PumpDone(s)) /\ OnceOK(PumpDone(s)) /\ AfterOK(PumpDone(s))
         /\ ResponseAt(PumpDone(s)) /\ SumsOK(PumpDone(s))
<1> DEFINE z == PumpDone(s)
<1>1. s \in ClientRequests
  BY DEF ClientOK
<1>2. z \in ClientRequests /\ z.do = "done"
  BY <1>1, ZenonT(40) DEF ClientRequests, PumpDone
<1>3. SameFlags(s, z) /\ SameLogs(s, z)
  BY <1>1 DEF ClientRequests, SameFlags, SameLogs, PumpDone
<1>4. z.res = s.res /\ z.buffer = s.buffer /\ z.ended = s.ended /\ z.left = s.left
  BY <1>1 DEF ClientRequests, PumpDone
<1>5. /\ z.wire = s.wire /\ z.said = s.said /\ z.bodyCh = s.bodyCh /\ z.sending = s.sending
      /\ z.feeder = s.feeder /\ z.native = s.native
  BY <1>1 DEF ClientRequests, PumpDone
<1> HIDE DEF z
<1>6. BodyOK(z)
  <2>1. BodyOK(s) /\ s.native
    BY Zenon DEF ClientOK, BodyOK
  <2>2. (\A i \in 1..Len(z.wire) : z.wire[i] = i) /\ Len(z.wire) <= z.said
    BY <1>5, <2>1 DEF BodyOK
  <2>3. z.feeder \in {"idle", "run"} =>
          /\ \A i \in 1..Len(z.bodyCh) : z.bodyCh[i] = Len(z.wire) + i
          /\ z.sending = 0 => Len(z.wire) + Len(z.bodyCh) = z.said
          /\ z.sending # 0 => z.sending = z.said /\ Len(z.wire) + Len(z.bodyCh) + 1 = z.said
    BY <1>5, <2>1, Zenon DEF BodyOK
  <2>4. QED BY <1>5, <2>1, <2>2, <2>3, Zenon DEF BodyOK
<1>7. SaysOK(z)
  BY <1>2, <1>3, <1>4 DEF ClientOK, SaysOK, SameFlags, SameLogs
<1>8. OnceOK(z) /\ AfterOK(z)
  BY <1>3 DEF ClientOK, OnceOK, AfterOK, SameLogs
<1>9. ResponseAt(z)
  BY <1>2, <1>3, <1>4 DEF ClientOK, ResponseAt, SameLogs
<1>10. SumsOK(z)
  BY <1>2, <1>3, <1>4 DEF ClientOK, ChunksOK, SumsOK, AllChunks, SameLogs
<1>11. QED BY <1>2, <1>3, <1>4, <1>6, <1>7, <1>8, <1>9, <1>10 DEF z

\* 'end' is the last tick the goroutine puts.
LEMMA PutEnd ==
  ASSUME NEW s, ClientOK(s), s.do = "done", ~s.ended, ~Has(s.ticks, "end")
  PROVE  ClientOK(QTick(s, "end")) /\ SameFlags(s, QTick(s, "end"))
<1>1. TickMay(s, "end")
  BY DEF TickMay, QTicks
<1>2. QED BY <1>1, PutTick DEF TickIs

LEMMA BodyPumpsEnd ==
  ASSUME ClientInv, q.do = "body", ~IsLeft(q), q' = QTick(PumpDone(q), "end")
  PROVE  ClientInv'
<1> DEFINE z == PumpDone(q)
<1>1. ClientOK(q) /\ q \in ClientRequests /\ (q.aborted => q.destroyed) /\ q.left = 0
  BY ClientFields DEF ClientInv, ClientOK, IsLeft
<1>2. /\ z \in ClientRequests /\ z.do = "done" /\ SameFlags(q, z) /\ SameLogs(q, z) /\ z.left = 0 /\ z.ended = q.ended
      /\ BodyOK(z) /\ SaysOK(z) /\ OnceOK(z) /\ AfterOK(z) /\ ResponseAt(z) /\ SumsOK(z)
  BY <1>1, PumpDoneIs
<1> HIDE DEF z
<1>3. ClientOK(z)
  BY <1>2 DEF ClientOK, ChunksOK, CutOK
<1>4. ~z.ended /\ ~Has(z.ticks, "end")
  BY <1>1, <1>2 DEF ClientOK, ResponseAt, SameLogs
<1>5. ClientOK(q') /\ SameFlags(z, q')
  BY <1>2, <1>3, <1>4, PutEnd DEF z
<1>6. SameFlags(q, q')
  BY <1>2, <1>5 DEF SameFlags
<1>7. QED BY <1>5, <1>6, ClientKeeps

LEMMA BodyPumpsCut ==
  ASSUME ClientInv, q.do = "body", q' = QTick(QTick(PumpDone(q), "bodyError"), "end")
  PROVE  ClientInv'
<1> DEFINE z == PumpDone(q)
           y == QTick(z, "bodyError")
<1>1. ClientOK(q) /\ q \in ClientRequests /\ (q.aborted => q.destroyed)
  BY DEF ClientInv, ClientOK
<1>2. /\ z \in ClientRequests /\ z.do = "done" /\ SameFlags(q, z) /\ SameLogs(q, z) /\ z.ended = q.ended
      /\ BodyOK(z) /\ SaysOK(z) /\ OnceOK(z) /\ AfterOK(z) /\ ResponseAt(z) /\ SumsOK(z)
  BY <1>1, PumpDoneIs
<1> HIDE DEF z
<1>3. ~z.ended /\ ~Has(z.ticks, "end") /\ z.ticks \in Seq(QTicks)
  BY <1>1, <1>2, ClientFields DEF ClientOK, ResponseAt, SameLogs
<1>4. "bodyError" \in QTicks
  BY DEF QTicks
<1>5. TickIs(z, "bodyError", y)
  BY <1>2, <1>4, QTickIs
<1>6. q' = QTick(y, "end")
  BY DEF z
<1> HIDE DEF y
<1>7. /\ y \in ClientRequests /\ SameBody(z, y) /\ SameFlags(z, y) /\ SamePlace(z, y) /\ y.events = z.events /\ y.heard = z.heard
      /\ y.ticks = Append(z.ticks, "bodyError") /\ y.do = "done" /\ ~y.ended
  BY <1>2, <1>3, <1>5 DEF TickIs, SamePlace
<1>8. \A a : Has(y.ticks, a) <=> Has(z.ticks, a) \/ "bodyError" = a
  <2>1. \A a : Has(Append(z.ticks, "bodyError"), a) <=> Has(z.ticks, a) \/ "bodyError" = a
    BY <1>3, <1>4, HasAppend
  <2>2. QED BY <1>7, <2>1
<1>9. Tally(y.ticks, "data") = Tally(z.ticks, "data")
  <2>1. Tally(Append(z.ticks, "bodyError"), "data") = Tally(z.ticks, "data") + (IF "bodyError" = "data" THEN 1 ELSE 0)
    BY <1>3, <1>4, TallyAppend
  <2>2. Tally(z.ticks, "data") \in Nat
    BY <1>2, ClientFields
  <2>3. QED BY <1>7, <2>1, <2>2
<1>10. BodyOK(y)
  BY <1>2, <1>7, BodyStays
<1>11. SaysOK(y)
  <2>1. Has(z.ticks, "socket") => y.ticks[1] = z.ticks[1]
    <3>1. SUFFICES ASSUME Has(z.ticks, "socket") PROVE Append(z.ticks, "bodyError")[1] = z.ticks[1]
      BY <1>7
    <3>2. Len(z.ticks) \in Nat /\ 1 \in 1..Len(z.ticks)
      BY <1>2, <3>1, ClientFields DEF Has
    <3>3. QED BY <1>3, <1>4, <3>2, AppendAt
  <2>2. QED BY <1>2, <1>7, <1>8, <2>1 DEF SaysOK, SameFlags, SamePlace
<1>12. OnceOK(y)
  <2>1. \A a, e : a # "bodyError" /\ OnceIn(z.ticks, a, z.events, e) => OnceIn(Append(z.ticks, "bodyError"), a, z.events, e)
    BY <1>3, <1>4, OncePut
  <2>2. \A a : a # "bodyError" /\ Single(z.ticks, a) => Single(Append(z.ticks, "bodyError"), a)
    BY <1>3, <1>4, SingleAppend
  <2>3. QED BY <1>2, <1>7, <1>8, <2>1, <2>2 DEF OnceOK
<1>13. AfterOK(y)
  <2>1. Ordered(Append(z.ticks, "bodyError"), {"response"}, {"data", "bodyError", "end"})
    BY <1>2, <1>3, <1>4, OrderedAppend DEF AfterOK
  <2>2. \A i \in 1..Len(z.ticks) : z.ticks[i] \notin {"end"}
    BY <1>3 DEF Has
  <2>3. Ordered(Append(z.ticks, "bodyError"), {"data", "bodyError"}, {"end"})
    BY <1>2, <1>3, <1>4, <2>2, OrderedAppend DEF AfterOK
  <2>4. QED BY <1>2, <1>7, <2>1, <2>3 DEF AfterOK
<1>14. ResponseAt(y)
  BY <1>2, <1>3, <1>7, <1>8 DEF ResponseAt, SamePlace
<1>15. ChunksOK(y)
  BY <1>2, <1>7, <1>8, <1>9 DEF ChunksOK, SumsOK, CutOK, AllChunks, SamePlace
<1>16. ClientOK(y)
  BY <1>7, <1>10, <1>11, <1>12, <1>13, <1>14, <1>15 DEF ClientOK
<1>17. ~Has(y.ticks, "end")
  BY <1>3, <1>8
<1>18. ClientOK(q') /\ SameFlags(y, q')
  BY <1>6, <1>7, <1>16, <1>17, PutEnd, Zenon
<1>19. QED BY <1>1, <1>2, <1>7, <1>18 DEF ClientInv, SameFlags

LEMMA PumpsBodyStep ==
  ASSUME ClientInv, PumpsBody
  PROVE  ClientInv'
<1>1. q.do = "body"
  BY DEF PumpsBody
<1>2. \/ IsLeft(q) /\ q' = PumpOne(q)
      \/ ~IsLeft(q) /\ q' = QTick(PumpDone(q), "end")
      \/ q' = QTick(QTick(PumpDone(q), "bodyError"), "end")
  BY DEF PumpsBody, PumpDone, PumpOne, IsLeft
<1>3. QED BY <1>1, <1>2, BodyPumpsChunk, BodyPumpsEnd, BodyPumpsCut

\* The calls of the user.
LEMMA CallsStep ==
  ASSUME ClientInv, RequestWrites \/ RequestEnds \/ RequestDestroyed \/ RequestAborts \/ ResponseFlows \/ ResponseDestroyed
  PROVE  ClientInv'
<1>1. ClientOK(q) /\ q \in ClientRequests /\ (q.aborted => q.destroyed)
  BY DEF ClientInv, ClientOK
<1>2. CASE RequestWrites
  <2>1. q.sending = 0 /\ q' = QWrite(q)
    BY <1>2 DEF RequestWrites, Calls
  <2>2. QED BY <1>1, <2>1, QWriteIs DEF ClientInv
<1>3. CASE RequestEnds
  <2>1. q' = QEnd(q)
    BY <1>3 DEF RequestEnds, Calls
  <2>2. QED BY <1>1, <2>1, QEndIs DEF ClientInv
<1>4. CASE RequestDestroyed
  <2>1. PICK err \in {"none", "other", "reset"} : q' = QDestroy(q, err)
    BY <1>4 DEF RequestDestroyed, Calls
  <2>2. QED BY <1>1, <2>1, QDestroyIs DEF ClientInv
<1>5. CASE RequestAborts
  <2>1. q' = QAbort(q)
    BY <1>5 DEF RequestAborts, Calls
  <2>2. QED BY <1>1, <2>1, QAbortIs DEF ClientInv
<1>6. CASE ResponseFlows
  <2> DEFINE z == [q EXCEPT !.flowing = TRUE]
  <2>1. q' = QTick(z, "resume") /\ q.res = "live"
    BY <1>6 DEF ResponseFlows, Calls
  <2>2. z \in ClientRequests
    BY <1>1, ZenonT(40) DEF ClientRequests
  <2>3. SameBody(q, z) /\ SameFlags(q, z)
    BY <1>1 DEF ClientRequests, SameBody, SameFlags
  <2>4. SamePlace(q, z) /\ SameLogs(q, z)
    BY <1>1 DEF ClientRequests, SamePlace, SameLogs
  <2> HIDE DEF z
  <2>5. ClientOK(z)
    BY <1>1, <2>2, <2>3, <2>4, Alike
  <2>6. TickMay(z, "resume")
    BY <2>1, <2>4 DEF TickMay, QTicks, SamePlace
  <2>7. ClientOK(q') /\ TickIs(z, "resume", q')
    BY <2>1, <2>5, <2>6, PutTick
  <2>8. q'.aborted = q.aborted /\ q'.destroyed = q.destroyed
    BY <2>3, <2>7 DEF TickIs, SameFlags
  <2>9. QED BY <1>1, <2>7, <2>8 DEF ClientInv
<1>7. CASE ResponseDestroyed
  <2>1. q' = ResDestroy(q, FALSE) /\ ClientButCut(q) /\ CutOK(q)
    BY <1>1, <1>7 DEF ResponseDestroyed, Calls, ClientOK, ClientButCut, ChunksOK
  <2>2. ClientOK(q') /\ ResGone(q, q')
    BY <2>1, ResDestroyIs, Zenon
  <2>3. q'.aborted = q.aborted /\ q'.destroyed = q.destroyed
    BY <2>2 DEF ResGone, SameFlags
  <2>4. QED BY <1>1, <2>2, <2>3 DEF ClientInv
<1>8. QED BY <1>2, <1>3, <1>4, <1>5, <1>6, <1>7

\* The events that are emitted as they were put.
LEMMA EmitsStep ==
  ASSUME NEW s, ClientOK(s), s.aborted => s.destroyed, NEW e, EventMay(s, e)
  PROVE  ClientOK(QEmit(s, e)) /\ (QEmit(s, e).aborted => QEmit(s, e).destroyed)
<1>1. ClientOK(QEmit(s, e)) /\ EmitIs(s, e, QEmit(s, e))
  BY PutEvent
<1>2. QEmit(s, e).aborted = s.aborted /\ QEmit(s, e).destroyed = s.destroyed
  BY <1>1 DEF EmitIs, SameFlags
<1>3. QED BY <1>1, <1>2

\* What the tick of s.ticks does.
LEMMA ResCloses ==
  ASSUME NEW s, ClientOK(s), HeadSays("resClose", s),
         NEW y, y = RHears(IF s.errored THEN RHears(s, "error") ELSE s, "close")
  PROVE  ClientOK(y) /\ y.destroyed = s.destroyed /\ y.aborted = s.aborted
<1> DEFINE z == IF s.errored THEN RHears(s, "error") ELSE s
<1>1. s.res = "destroyed"
  BY DEF HeadSays
<1>2. ClientOK(z) /\ z.res = "destroyed" /\ z.destroyed = s.destroyed /\ z.aborted = s.aborted
  <2>1. CASE s.errored
    <3>1. HearMay(s, "error")
      BY <1>1 DEF HearMay, RHeard
    <3>2. ClientOK(RHears(s, "error")) /\ HearsIs(s, "error", RHears(s, "error"))
      BY <3>1, PutHeard
    <3>3. QED BY <1>1, <2>1, <3>2 DEF HearsIs, SamePlace, SameFlags
  <2>2. CASE ~s.errored
    BY <1>1, <2>2
  <2>3. QED BY <2>1, <2>2
<1> HIDE DEF z
<1>3. HearMay(z, "close")
  BY <1>2 DEF HearMay, RHeard
<1>4. ClientOK(RHears(z, "close")) /\ HearsIs(z, "close", RHears(z, "close"))
  BY <1>2, <1>3, PutHeard
<1>5. y = RHears(z, "close")
  BY DEF z
<1>6. QED BY <1>2, <1>4, <1>5 DEF HearsIs, SameFlags

LEMMA RequestTickStep ==
  ASSUME ClientInv, RequestTick
  PROVE  ClientInv'
<1> DEFINE t == Head(q.ticks)
           s == Taken(q)
<1>1. ClientOK(q) /\ q \in ClientRequests /\ (q.aborted => q.destroyed) /\ q.ticks # <<>>
  BY DEF ClientInv, ClientOK, RequestTick
<1>2. t \in QTicks /\ TakenIs(q, s) /\ HeadSays(t, s)
  BY <1>1, TakenStays
<1>3. PICK reads \in BOOLEAN :
           q' = CASE t = "socket" -> IF s.destroyed THEN s ELSE QEmit(s, "socket")
                  [] t = "finish" -> QEmit(s, "finish")
                  [] t = "close" -> QEmit(s, "close")
                  [] t = "abort" -> QEmit(s, "abort")
                  [] t = "errorAfterEnd" -> QEmit(s, "errorAfterEnd")
                  [] t = "destroyed" -> DestroyTail(s)
                  [] t = "nativeError" -> OnNativeError(s)
                  [] t = "response" -> OnResponse(s, reads)
                  [] t = "data" -> IF s.res = "no" THEN s ELSE RPush(s)
                  [] t = "bodyError" -> OnBodyError(s)
                  [] t = "end" -> IF s.res = "no" THEN s ELSE RPushEnd(s)
                  [] t = "resume" -> RFlow(s)
                  [] t = "endReadable" -> ResEnds(s)
                  [] t = "resClose" ->
                       RHears(IF s.errored THEN RHears(s, "error") ELSE s, "close")
  BY Zenon DEF RequestTick, Taken
<1>4. t \notin {"data", "bodyError"} => ClientOK(s)
  BY <1>1, TakeTick
<1>5. (s.aborted => s.destroyed) /\ s.aborted = q.aborted /\ s.destroyed = q.destroyed
  BY <1>1, <1>2 DEF TakenIs, SameFlags
<1> HIDE DEF t, s
<1>6. CASE t = "socket"
  BY <1>2, <1>3, <1>4, <1>5, <1>6, EmitsStep DEF HeadSays, ClientInv
<1>7. CASE t \in {"finish", "close", "abort", "errorAfterEnd"}
  <2>1. q' = QEmit(s, t)
    BY <1>3, <1>7, Zenon
  <2>2. EventMay(s, t)
    BY <1>2, <1>7 DEF HeadSays
  <2>3. QED BY <1>4, <1>5, <1>7, <2>1, <2>2, EmitsStep DEF ClientInv
<1>8. CASE t = "destroyed"
  <2>1. /\ s.destroyed /\ ~Has(s.ticks, "destroyed") /\ ~Has(s.ticks, "socket")
        /\ (s.closed => Has(s.heard, "end")) /\ EventMay(s, "error")
    BY <1>2, <1>8 DEF HeadSays
  <2>2. q' = DestroyTail(s)
    BY <1>3, <1>8
  <2>3. QED BY <1>4, <1>8, <2>1, <2>2, DestroyTailIs, Zenon DEF ClientInv
<1>9. CASE t = "nativeError"
  <2>1. q' = OnNativeError(s)
    BY <1>3, <1>9
  <2>2. s.res = "no" /\ s.do = "done" /\ ~Has(s.ticks, "response") /\ ~Has(s.ticks, "socket")
    BY <1>2, <1>9 DEF HeadSays
  <2>3. QED BY <1>4, <1>9, <2>1, <2>2, OnNativeErrorIs DEF ClientInv
<1>10. CASE t = "response"
  <2>1. q' = OnResponse(s, reads)
    BY <1>3, <1>10
  <2>2. QED BY <1>2, <1>4, <1>5, <1>10, <2>1, OnResponseIs DEF ClientInv
<1>11. CASE t = "data"
  <2>1. q' = IF s.res = "no" THEN s ELSE RPush(s)
    BY <1>3, <1>11
  <2>2. QED BY <1>1, <1>11, <2>1, TakesData DEF ClientInv, s, t
<1>12. CASE t = "bodyError"
  <2>1. q' = OnBodyError(s)
    BY <1>3, <1>12
  <2>2. QED BY <1>1, <1>12, <2>1, TakesBodyError, Zenon DEF ClientInv, s, t
<1>13. CASE t = "end"
  <2>1. q' = IF s.res = "no" THEN s ELSE RPushEnd(s)
    BY <1>3, <1>13
  <2>2. QED BY <1>2, <1>4, <1>5, <1>13, <2>1, RPushEndIs DEF ClientInv
<1>14. CASE t = "resume"
  <2>1. q' = RFlow(s)
    BY <1>3, <1>14
  <2>2. s.res # "no"
    BY <1>2, <1>14 DEF HeadSays
  <2>3. QED BY <1>4, <1>5, <1>14, <2>1, <2>2, RFlowIs DEF ClientInv
<1>15. CASE t = "endReadable"
  <2>1. q' = ResEnds(s)
    BY <1>3, <1>15
  <2>2. QED BY <1>2, <1>4, <1>5, <1>15, <2>1, ResEndsIs DEF ClientInv
<1>16. CASE t = "resClose"
  <2>1. q' = RHears(IF s.errored THEN RHears(s, "error") ELSE s, "close")
    BY <1>3, <1>16
  <2>2. QED BY <1>2, <1>4, <1>5, <1>16, <2>1, ResCloses DEF ClientInv
<1>17. QED BY <1>2, <1>6, <1>7, <1>8, <1>9, <1>10, <1>11, <1>12, <1>13, <1>14, <1>15, <1>16 DEF QTicks

LEMMA ClientStep ==
  ASSUME ClientInv, QNext
  PROVE  ClientInv'
<1>1. CASE QWorks
  BY <1>1, RequestTickStep, FeedsStep, UnblocksStep, DoReturnsStep, PumpsBodyStep DEF QWorks
<1>2. QED BY <1>1, CallsStep DEF QNext

LEMMA ClientStays ==
  ASSUME ClientInv, UNCHANGED qvars
  PROVE  ClientInv'
BY DEF ClientInv, qvars

\* What the invariant says of what is heard and sent.
LEMMA ClientIs == ClientInv => RequestEvents /\ RequestBodyInOrder /\ ResponseWhole
<1> SUFFICES ASSUME ClientInv PROVE RequestEvents /\ RequestBodyInOrder /\ ResponseWhole
  OBVIOUS
<1>1. ClientOK(q) /\ q \in ClientRequests
  BY DEF ClientInv, ClientOK
<1>2. /\ q.events \in Seq(QEvents) /\ q.heard \in Seq(RHeard) /\ DOMAIN q.events = 1..Len(q.events)
      /\ DOMAIN q.heard = 1..Len(q.heard) /\ q.wire \in Seq(Nat) /\ Len(q.wire) \in Nat /\ q.said \in Nat
  <2>1. q.events \in Seq(QEvents) /\ q.heard \in Seq(RHeard) /\ q.wire \in Seq(Nat) /\ Len(q.wire) \in Nat /\ q.said \in Nat
    BY <1>1, ClientFields
  <2>2. QED BY <2>1, LenProperties
<1>3. RequestEvents
  <2>1. OnceOK(q) /\ AfterOK(q)
    BY <1>1 DEF ClientOK
  <2>2. \A e \in {"socket", "response", "error", "finish", "close"} : Single(q.events, e)
    BY <2>1 DEF OnceOK, OnceIn
  <2>3. \A e \in {"socket", "response", "error", "finish", "close"} : Once(e)
    BY <1>2, <2>2 DEF Once, Single
  <2>4. ASSUME NEW i \in DOMAIN q.events, NEW j \in DOMAIN q.events, i < j
        PROVE  /\ q.events[i] = "close" =>
                    q.events[j] # "socket" /\ (q.events[j] = "error" => Contains(q.heard, "end"))
               /\ q.events[i] = "abort" => q.events[j] # "response"
    BY <1>2, <2>1, <2>4, Zenon DEF AfterOK, NoLater, Has, Contains
  <2>5. QED BY <2>3, <2>4 DEF RequestEvents
<1>4. RequestBodyInOrder
  <2> DEFINE all == [i \in 1..q.said |-> i]
             n == Len(q.wire)
  <2>1. (\A i \in 1..n : q.wire[i] = i) /\ n <= q.said /\ n \in Nat /\ q.said \in Nat
    BY <1>1, <1>2 DEF ClientOK, BodyOK
  <2>2. Len(all) = q.said /\ \A i \in 1..q.said : all[i] = i
    BY <2>1, LenProperties
  <2>3. /\ SubSeq(q.wire, 1, n) = [i \in 1..n |-> q.wire[i]]
        /\ SubSeq(all, 1, n) = [i \in 1..n |-> all[i]]
    BY <2>1
  <2>4. \A i \in 1..n : q.wire[i] = all[i]
    BY <2>1, <2>2
  <2> HIDE DEF all
  <2>5. IsPrefix(q.wire, all)
    BY <2>1, <2>2, <2>3, <2>4 DEF IsPrefix
  <2>6. QED BY <2>5 DEF RequestBodyInOrder, all
<1>5. ResponseWhole
  <2>1. AfterOK(q) /\ SumsOK(q)
    BY <1>1 DEF ClientOK, ChunksOK
  <2>2. Contains(q.heard, "end") => Cardinality({i \in DOMAIN q.heard : q.heard[i] = "data"}) = ResponseChunks
    BY <1>2, <2>1 DEF SumsOK, Tally, Spots, Has, Contains
  <2>3. \A i, j \in DOMAIN q.heard : i < j /\ q.heard[i] \in {"end", "close"} => q.heard[j] # "data"
    BY <1>2, <2>1 DEF AfterOK, NoLater
  <2>4. QED BY <2>2, <2>3 DEF ResponseWhole
<1>6. QED BY <1>3, <1>4, <1>5

-----------------------------------------------------------------------------
(* SocketServer *)

ConnType ==
  [alive : BOOLEAN, shakes : BOOLEAN, timer : BOOLEAN,
   said : Seq({"drop", "secureConnection", "tlsClientError"})]

VMacros == [c : Nat, ok : BOOLEAN]
VTicks == {"error", "listening", "close"}
VEvents == {"error", "listening", "close", "connection", "drop"}
Servers ==
  [conf : [tls : BOOLEAN, max : Nat], handle : Nat, open : SUBSET Nat, made : Nat, looking : Nat,
   connections : Nat, conns : Seq(ConnType), ticks : Seq(VTicks), macros : Seq(VMacros),
   events : Seq(VEvents), owed : BOOLEAN, twice : BOOLEAN]

\* The connections that live are counted, up to the limit.
CountOK(n, conns, max) == n = Cardinality({c \in 1..Len(conns) : conns[c].alive}) /\ n <= max
\* 'close' is put when there is no connection, and none comes before it runs.
DrainOK(ticks, n) == \A i \in 1..Len(ticks) : ticks[i] = "close" => n = 0

\* A handshake runs, or its answer waits, or it is over; what was not yet
\* reported may be.
Answered(macros, c) == \E i \in 1..Len(macros) : macros[i].c = c
ConnOK(x, macros, c) ==
  /\ Len(x.said) <= 1
  /\ x.shakes => ~Answered(macros, c)
  /\ x.timer => x.said = <<>>
  /\ x.alive /\ (x.shakes \/ Answered(macros, c)) => x.said = <<>>

ConnsOK(conns, macros) ==
  /\ \A c \in 1..Len(conns) : ConnOK(conns[c], macros, c)
  /\ \A i \in 1..Len(macros) : macros[i].c \in 1..Len(conns)
  /\ \A i, j \in 1..Len(macros) : macros[i].c = macros[j].c => i = j

\* As ConnsOK, but for the report of c, which is going.
ConnsBut(conns, macros, c) ==
  /\ \A d \in 1..Len(conns) : d # c => ConnOK(conns[d], macros, d)
  /\ Len(conns[c].said) <= 1 /\ (conns[c].timer => conns[c].said = <<>>)
  /\ conns[c].shakes => ~Answered(macros, c)
  /\ \A i \in 1..Len(macros) : macros[i].c \in 1..Len(conns)
  /\ \A i, j \in 1..Len(macros) : macros[i].c = macros[j].c => i = j

OpenOK(s) == 0 \notin s.open /\ (s.twice \/ s.open \subseteq {s.handle})

ServerOK(s) ==
  /\ s \in Servers
  /\ CountOK(s.connections, s.conns, s.conf.max) /\ DrainOK(s.ticks, s.connections)
  /\ ConnsOK(s.conns, s.macros) /\ OpenOK(s)

ServerInv == ServerOK(v)

\* The fields.
LEMMA ServerFields ==
  ASSUME NEW s \in Servers
  PROVE  /\ s.conf.max \in Nat /\ s.conf.tls \in BOOLEAN /\ s.handle \in Nat /\ s.open \in SUBSET Nat
         /\ s.made \in Nat /\ s.looking \in Nat
         /\ s.connections \in Nat /\ s.conns \in Seq(ConnType) /\ s.ticks \in Seq(VTicks)
         /\ s.macros \in Seq(VMacros) /\ s.events \in Seq(VEvents) /\ s.owed \in BOOLEAN /\ s.twice \in BOOLEAN
         /\ Len(s.conns) \in Nat /\ Len(s.ticks) \in Nat /\ Len(s.macros) \in Nat /\ Len(s.events) \in Nat
         /\ DOMAIN s.conns = 1..Len(s.conns)
<1>1. s.conns \in Seq(ConnType) /\ s.ticks \in Seq(VTicks) /\ s.macros \in Seq(VMacros) /\ s.events \in Seq(VEvents)
  BY DEF Servers
<1>2. /\ Len(s.conns) \in Nat /\ Len(s.ticks) \in Nat /\ Len(s.macros) \in Nat /\ Len(s.events) \in Nat
      /\ DOMAIN s.conns = 1..Len(s.conns)
  BY <1>1, LenProperties
<1>3. QED BY <1>1, <1>2 DEF Servers

\* A tick is put, and an event emitted.
LEMMA VTickIs ==
  ASSUME NEW s \in Servers, NEW op \in VTicks
  PROVE  /\ VTick(s, op) \in Servers /\ VTick(s, op).ticks = Append(s.ticks, op)
         /\ VTick(s, op).conf = s.conf /\ VTick(s, op).handle = s.handle /\ VTick(s, op).open = s.open
         /\ VTick(s, op).connections = s.connections /\ VTick(s, op).conns = s.conns
         /\ VTick(s, op).macros = s.macros /\ VTick(s, op).twice = s.twice /\ VTick(s, op).events = s.events
<1> DEFINE h == Append(s.ticks, op)
<1>1. h \in Seq(VTicks) /\ VTick(s, op) = [s EXCEPT !.ticks = h]
  BY ServerFields, AppendProperties DEF VTick
<1> HIDE DEF h
<1>2. VTick(s, op) \in Servers /\ VTick(s, op).ticks = h
  BY <1>1, Zenon DEF Servers
<1>3. /\ VTick(s, op).conf = s.conf /\ VTick(s, op).handle = s.handle /\ VTick(s, op).open = s.open
      /\ VTick(s, op).connections = s.connections /\ VTick(s, op).conns = s.conns
      /\ VTick(s, op).macros = s.macros /\ VTick(s, op).twice = s.twice /\ VTick(s, op).events = s.events
  BY <1>1 DEF Servers
<1>4. QED BY <1>2, <1>3 DEF h

LEMMA VEmitIs ==
  ASSUME NEW s \in Servers, NEW e \in VEvents
  PROVE  /\ VEmit(s, e) \in Servers /\ VEmit(s, e).ticks = s.ticks /\ VEmit(s, e).events = Append(s.events, e)
         /\ VEmit(s, e).conf = s.conf /\ VEmit(s, e).handle = s.handle /\ VEmit(s, e).open = s.open
         /\ VEmit(s, e).connections = s.connections /\ VEmit(s, e).conns = s.conns
         /\ VEmit(s, e).macros = s.macros /\ VEmit(s, e).twice = s.twice
<1> DEFINE h == Append(s.events, e)
<1>1. h \in Seq(VEvents) /\ VEmit(s, e) = [s EXCEPT !.events = h]
  BY ServerFields, AppendProperties DEF VEmit
<1> HIDE DEF h
<1>2. VEmit(s, e) \in Servers /\ VEmit(s, e).events = h
  BY <1>1, Zenon DEF Servers
<1>3. /\ VEmit(s, e).conf = s.conf /\ VEmit(s, e).handle = s.handle /\ VEmit(s, e).open = s.open
      /\ VEmit(s, e).connections = s.connections /\ VEmit(s, e).conns = s.conns
      /\ VEmit(s, e).macros = s.macros /\ VEmit(s, e).twice = s.twice /\ VEmit(s, e).ticks = s.ticks
  BY <1>1 DEF Servers
<1>4. QED BY <1>2, <1>3 DEF h

LEMMA DrainPut ==
  ASSUME NEW ticks \in Seq(VTicks), NEW n, DrainOK(ticks, n), NEW op \in VTicks, op = "close" => n = 0
  PROVE  DrainOK(Append(ticks, op), n)
<1> DEFINE l == Len(ticks)
           more == Append(ticks, op)
<1>1. l \in Nat /\ Len(more) = l + 1 /\ more[l + 1] = op /\ \A i \in 1..l : more[i] = ticks[i]
  BY AppendProperties, LenProperties
<1> HIDE DEF more
<1>2. ASSUME NEW i \in 1..Len(more), more[i] = "close" PROVE n = 0
  <2>1. CASE i \in 1..l
    BY <1>1, <1>2, <2>1 DEF DrainOK
  <2>2. CASE i = l + 1
    BY <1>1, <1>2, <2>2
  <2>3. QED BY <1>1, <2>1, <2>2
<1>3. QED BY <1>2 DEF DrainOK, more

LEMMA TickPut ==
  ASSUME NEW s, ServerOK(s), NEW op \in VTicks, op = "close" => s.connections = 0
  PROVE  ServerOK(VTick(s, op))
<1> DEFINE y == VTick(s, op)
<1>1. /\ s \in Servers /\ y \in Servers /\ y.ticks = Append(s.ticks, op) /\ y.conf = s.conf /\ y.handle = s.handle
      /\ y.open = s.open /\ y.connections = s.connections /\ y.conns = s.conns /\ y.macros = s.macros
      /\ y.twice = s.twice
  BY VTickIs DEF ServerOK
<1>2. s.ticks \in Seq(VTicks)
  BY <1>1, ServerFields
<1> HIDE DEF y
<1>3. DrainOK(y.ticks, y.connections)
  BY <1>1, <1>2, DrainPut DEF ServerOK
<1>4. ServerOK(y)
  BY <1>1, <1>3 DEF ServerOK, OpenOK
<1>5. QED BY <1>4 DEF y

LEMMA EventPut ==
  ASSUME NEW s, ServerOK(s), NEW e \in VEvents
  PROVE  ServerOK(VEmit(s, e))
<1> DEFINE y == VEmit(s, e)
<1>1. /\ s \in Servers /\ y \in Servers /\ y.ticks = s.ticks /\ y.conf = s.conf /\ y.handle = s.handle
      /\ y.open = s.open /\ y.connections = s.connections /\ y.conns = s.conns /\ y.macros = s.macros
      /\ y.twice = s.twice
  BY VEmitIs DEF ServerOK
<1> HIDE DEF y
<1>2. ServerOK(y)
  BY <1>1 DEF ServerOK, OpenOK
<1>3. QED BY <1>2 DEF y

LEMMA MaybeDrained ==
  ASSUME NEW s, ServerOK(s)
  PROVE  ServerOK(EmitCloseIfDrained(s)) /\ EmitCloseIfDrained(s).events = s.events
<1>1. s \in Servers
  BY DEF ServerOK
<1>2. CASE s.handle # 0 \/ s.connections # 0
  BY <1>2 DEF EmitCloseIfDrained
<1>3. CASE s.handle = 0 /\ s.connections = 0
  <2>1. "close" \in VTicks
    BY DEF VTicks
  <2>2. EmitCloseIfDrained(s) = VTick(s, "close")
    BY <1>3 DEF EmitCloseIfDrained
  <2>3. QED BY <1>1, <1>3, <2>1, <2>2, TickPut, VTickIs
<1>4. QED BY <1>2, <1>3

\* listen() binds, or fails.
LEMMA Listens ==
  ASSUME NEW s, ServerOK(s), NEW ok \in BOOLEAN
  PROVE  ServerOK(Listen2(s, ok)) /\ Listen2(s, ok).events = s.events
<1>1. s \in Servers /\ "error" \in VTicks /\ "listening" \in VTicks
  BY DEF ServerOK, VTicks
<1>2. CASE ~ok
  BY <1>1, <1>2, TickPut, VTickIs DEF Listen2
<1>3. CASE ok
  <2> DEFINE n == s.made + 1
             o == s.open \cup {n}
             b == s.twice \/ s.handle # 0
             y == [s EXCEPT !.made = n, !.handle = n, !.open = o, !.twice = b]
  <2>1. Listen2(s, ok) = VTick(y, "listening")
    BY <1>1, <1>3 DEF Listen2, Servers
  <2>2. n \in Nat /\ n > 0 /\ o \in SUBSET Nat /\ b \in BOOLEAN
    BY <1>1, ServerFields
  <2> HIDE DEF n, o, b
  <2>3. y \in Servers
    BY <1>1, <2>2, Zenon DEF Servers
  <2>4. /\ y.ticks = s.ticks /\ y.conf = s.conf /\ y.handle = n /\ y.events = s.events
        /\ y.open = o /\ y.connections = s.connections /\ y.conns = s.conns /\ y.macros = s.macros
        /\ y.twice = b
    BY <1>1 DEF Servers
  <2> HIDE DEF y
  <2>5. OpenOK(y)
    <3>1. 0 \notin s.open /\ (s.twice \/ s.open \subseteq {s.handle})
      BY DEF ServerOK, OpenOK
    <3>2. b \/ s.open = {}
      BY <3>1 DEF b
    <3>3. QED BY <2>2, <2>4, <3>1, <3>2 DEF OpenOK, o
  <2>6. ServerOK(y)
    BY <2>3, <2>4, <2>5 DEF ServerOK
  <2>7. QED BY <1>1, <2>1, <2>3, <2>4, <2>6, TickPut, VTickIs
<1>4. QED BY <1>2, <1>3

\* The server's own state changes, but neither connections nor ticks.
LEMMA OtherFields ==
  ASSUME NEW s, ServerOK(s), NEW y \in Servers, y.ticks = s.ticks, y.conf = s.conf,
         y.connections = s.connections, y.conns = s.conns, y.macros = s.macros, OpenOK(y)
  PROVE  ServerOK(y)
BY DEF ServerOK

\* A connection ends, and the server may have drained.
LEMMA ConnGoes ==
  ASSUME NEW s \in Servers, CountOK(s.connections, s.conns, s.conf.max), DrainOK(s.ticks, s.connections),
         OpenOK(s), NEW c \in 1..Len(s.conns), ConnsBut(s.conns, s.macros, c)
  PROVE  ServerOK(Destroyed(s, c)) /\ Destroyed(s, c).events = s.events
<1>1. s \in Servers /\ s.conns[c] \in ConnType
  BY ServerFields, ElementOfSeq
<1>2. CASE ~s.conns[c].alive
  <2>1. Destroyed(s, c) = s
    BY <1>2 DEF Destroyed
  <2>2. \A d \in 1..Len(s.conns) : ConnOK(s.conns[d], s.macros, d)
    BY <1>2 DEF ConnsBut, ConnOK
  <2>3. ConnsOK(s.conns, s.macros)
    BY <2>2 DEF ConnsBut, ConnsOK
  <2>4. QED BY <2>1, <2>3 DEF ServerOK
<1>3. CASE s.conns[c].alive
  <2> DEFINE x == [s.conns[c] EXCEPT !.alive = FALSE]
             others == [s.conns EXCEPT ![c] = x]
             m == s.connections - 1
             y == [s EXCEPT !.conns = others, !.connections = m]
             A == {d \in 1..Len(s.conns) : s.conns[d].alive}
  <2>1. Destroyed(s, c) = EmitCloseIfDrained(y)
    BY <1>1, <1>3 DEF Destroyed, Servers
  <2>2. x \in ConnType /\ ~x.alive /\ x.shakes = s.conns[c].shakes /\ x.timer = s.conns[c].timer /\ x.said = s.conns[c].said
    BY <1>1, Zenon DEF ConnType
  <2> HIDE DEF x
  <2>3. /\ others \in Seq(ConnType) /\ Len(others) = Len(s.conns)
        /\ \A d \in 1..Len(s.conns) : others[d] = IF d = c THEN x ELSE s.conns[d]
    BY <1>1, <2>2, ExceptSeq, ServerFields
  <2> HIDE DEF others
  <2>4. IsFiniteSet(A) /\ s.connections = Cardinality(A) /\ c \in A /\ Cardinality(A) \in Nat
    <3>1. IsFiniteSet(1..Len(s.conns))
      BY <1>1, ServerFields, FS_Interval
    <3>2. A \subseteq 1..Len(s.conns)
      OBVIOUS
    <3>3. IsFiniteSet(A)
      BY <3>1, <3>2, FS_Subset
    <3>4. c \in A
      BY <1>3
    <3>5. s.connections = Cardinality(A)
      BY DEF CountOK
    <3>6. QED BY <3>3, <3>4, <3>5, FS_CardinalityType
  <2>5. {d \in 1..Len(others) : others[d].alive} = A \ {c}
    BY <2>2, <2>3
  <2> HIDE DEF A
  <2>6. Cardinality(A \ {c}) = Cardinality(A) - 1 /\ Cardinality(A \ {c}) \in Nat
    BY <2>4, FS_RemoveElement, FS_CardinalityType
  <2>7. m \in Nat /\ m = Cardinality(A \ {c}) /\ m <= s.conf.max
    <3>1. s.connections <= s.conf.max /\ s.conf.max \in Nat
      BY <1>1, ServerFields DEF CountOK
    <3>2. QED BY <2>4, <2>6, <3>1
  <2> HIDE DEF m
  <2>8. y \in Servers
    BY <1>1, <2>3, <2>7, Zenon DEF Servers
  <2>9. /\ y.ticks = s.ticks /\ y.conf = s.conf /\ y.handle = s.handle /\ y.open = s.open /\ y.twice = s.twice
        /\ y.connections = m /\ y.conns = others /\ y.macros = s.macros /\ y.events = s.events
    BY <1>1 DEF Servers
  <2> HIDE DEF y
  <2>10. CountOK(y.connections, y.conns, y.conf.max)
    BY <2>5, <2>7, <2>9, Zenon DEF CountOK
  <2>11. DrainOK(y.ticks, y.connections)
    <3>1. s.connections # 0
      BY <2>4, <2>6
    <3>2. QED BY <2>9, <3>1 DEF DrainOK
  <2>12. ConnsOK(y.conns, y.macros)
    <3>1. ASSUME NEW d \in 1..Len(s.conns) PROVE ConnOK(others[d], s.macros, d)
      <4>1. CASE d # c
        BY <2>3, <4>1 DEF ConnsBut
      <4>2. CASE d = c
        BY <2>2, <2>3, <4>2 DEF ConnOK, ConnsBut
      <4>3. QED BY <4>1, <4>2
    <3>2. QED BY <2>3, <2>9, <3>1 DEF ConnsOK, ConnsBut
  <2>13. ServerOK(y)
    BY <2>8, <2>9, <2>10, <2>11, <2>12 DEF ServerOK, OpenOK
  <2>14. QED BY <2>1, <2>9, <2>13, MaybeDrained
<1>4. QED BY <1>2, <1>3

\* One connection, the macrotasks and nothing else change.
Changed(s, c, x, ms) == [s EXCEPT !.conns = [s.conns EXCEPT ![c] = x], !.macros = ms]
ChangedIs(s, c, x, ms, y) ==
         /\ y \in Servers /\ y.ticks = s.ticks /\ y.conf = s.conf /\ y.handle = s.handle /\ y.open = s.open
         /\ y.twice = s.twice /\ y.connections = s.connections /\ y.macros = ms /\ y.events = s.events
         /\ Len(y.conns) = Len(s.conns) /\ y.conns[c] = x
         /\ \A d \in 1..Len(s.conns) : y.conns[d] = IF d = c THEN x ELSE s.conns[d]
         /\ DrainOK(y.ticks, y.connections) /\ OpenOK(y)
         /\ CountOK(y.connections, y.conns, y.conf.max)

LEMMA ConnChanges ==
  ASSUME NEW s, ServerOK(s), NEW c \in 1..Len(s.conns), NEW x \in ConnType, NEW ms \in Seq(VMacros),
         x.alive <=> s.conns[c].alive
  PROVE  ChangedIs(s, c, x, ms, Changed(s, c, x, ms))
<1> DEFINE others == [s.conns EXCEPT ![c] = x]
           y == Changed(s, c, x, ms)
<1>1. s \in Servers
  BY DEF ServerOK
<1>2. /\ others \in Seq(ConnType) /\ Len(others) = Len(s.conns)
      /\ \A d \in 1..Len(s.conns) : others[d] = IF d = c THEN x ELSE s.conns[d]
  BY <1>1, ExceptSeq, ServerFields
<1>3. y = [s EXCEPT !.conns = others, !.macros = ms]
  BY DEF Changed
<1> HIDE DEF others, y
<1>4. y \in Servers
  BY <1>1, <1>2, <1>3, Zenon DEF Servers
<1>5. /\ y.ticks = s.ticks /\ y.conf = s.conf /\ y.handle = s.handle /\ y.open = s.open
      /\ y.twice = s.twice /\ y.connections = s.connections /\ y.macros = ms /\ y.conns = others
      /\ y.events = s.events
  BY <1>1, <1>3 DEF Servers
<1>6. CountOK(y.connections, y.conns, y.conf.max)
  <2>1. {d \in 1..Len(others) : others[d].alive} = {d \in 1..Len(s.conns) : s.conns[d].alive}
    BY <1>2, Zenon
  <2>2. QED BY <1>5, <2>1, Zenon DEF ServerOK, CountOK
<1>7. DrainOK(y.ticks, y.connections) /\ OpenOK(y)
  BY <1>5 DEF ServerOK, OpenOK
<1>8. ChangedIs(s, c, x, ms, y)
  BY <1>2, <1>4, <1>5, <1>6, <1>7 DEF ChangedIs
<1>9. QED BY <1>8 DEF y

LEMMA ServerInit == VInit => ServerInv
<1> SUFFICES ASSUME VInit PROVE ServerInv
  OBVIOUS
<1>1. PICK c \in ServerConfs : v = NewServer(c)
  BY DEF VInit
<1>2. c \in [tls : BOOLEAN, max : Nat]
  BY ServerAssumption
<1>3. Len(<<>>) = 0 /\ \A S : <<>> \in Seq(S)
  BY EmptySeq
<1>4. v \in Servers
  BY <1>1, <1>2, <1>3 DEF NewServer, Servers
<1>5. /\ v.conf = c /\ v.connections = 0 /\ v.conns = <<>> /\ v.ticks = <<>> /\ v.macros = <<>> /\ v.open = {}
  BY <1>1 DEF NewServer
<1>6. CountOK(v.connections, v.conns, v.conf.max)
  <2>1. {d \in 1..Len(v.conns) : v.conns[d].alive} = {}
    BY <1>3, <1>5
  <2>2. 0 <= c.max
    BY <1>2
  <2>3. QED BY <1>5, <2>1, <2>2, FS_EmptySet DEF CountOK
<1>7. DrainOK(v.ticks, v.connections) /\ ConnsOK(v.conns, v.macros) /\ OpenOK(v)
  BY <1>3, <1>5 DEF DrainOK, ConnsOK, OpenOK
<1>8. QED BY <1>4, <1>6, <1>7 DEF ServerInv, ServerOK

\* listen() and close().
LEMMA ListensStep ==
  ASSUME ServerInv, ServerListens \/ ServerLooksUp
  PROVE  ServerInv' /\ (v'.events = v.events \/ \E e \in VEvents \ {"close"} : v'.events = Append(v.events, e))
<1>1. v \in Servers /\ ServerOK(v)
  BY DEF ServerInv, ServerOK
<1>2. CASE ServerListens
  <2>1. CASE \E ok \in BOOLEAN : v' = Listen2(v, ok)
    BY <1>1, <2>1, Listens DEF ServerInv
  <2>2. CASE v' = [v EXCEPT !.looking = @ + 1, !.twice = @ \/ v.looking > 0]
    <3> DEFINE n == v.looking + 1
               b == v.twice \/ v.looking > 0
    <3>1. v' = [v EXCEPT !.looking = n, !.twice = b] /\ n \in Nat /\ b \in BOOLEAN /\ (v.twice => b)
      BY <1>1, <2>2, ServerFields
    <3> HIDE DEF n, b
    <3>2. v' \in Servers
      BY <1>1, <3>1, Zenon DEF Servers
    <3>3. /\ v'.ticks = v.ticks /\ v'.conf = v.conf /\ v'.handle = v.handle /\ v'.open = v.open /\ v'.twice = b
          /\ v'.connections = v.connections /\ v'.conns = v.conns /\ v'.macros = v.macros
          /\ v'.events = v.events
      BY <1>1, <3>1 DEF Servers
    <3>4. OpenOK(v')
      BY <1>1, <3>1, <3>3 DEF ServerOK, OpenOK
    <3>5. QED BY <1>1, <3>2, <3>3, <3>4, OtherFields DEF ServerInv
  <2>3. QED BY <1>2, <2>1, <2>2 DEF ServerListens, ServerCalls
<1>3. CASE ServerLooksUp
  <2> DEFINE s == [v EXCEPT !.looking = @ - 1]
  <2>1. v.looking - 1 \in Nat
    BY <1>1, <1>3, ServerFields DEF ServerLooksUp
  <2>2. s \in Servers
    BY <1>1, <2>1, Zenon DEF Servers
  <2>3. /\ s.ticks = v.ticks /\ s.conf = v.conf /\ s.handle = v.handle /\ s.open = v.open /\ s.twice = v.twice
        /\ s.connections = v.connections /\ s.conns = v.conns /\ s.macros = v.macros /\ s.events = v.events
    BY <1>1 DEF Servers
  <2>4. v' = VEmit(s, "error") \/ \E ok \in BOOLEAN : v' = Listen2(s, ok)
    BY <1>3 DEF ServerLooksUp
  <2> HIDE DEF s
  <2>5. OpenOK(s)
    BY <1>1, <2>3 DEF ServerOK, OpenOK
  <2>6. ServerOK(s)
    BY <1>1, <2>2, <2>3, <2>5, OtherFields
  <2>7. "error" \in VEvents /\ "error" # "close"
    BY DEF VEvents
  <2>8. CASE v' = VEmit(s, "error")
    BY <2>2, <2>3, <2>6, <2>7, <2>8, EventPut, VEmitIs, SMTT(20) DEF ServerInv
  <2>9. CASE \E ok \in BOOLEAN : v' = Listen2(s, ok)
    BY <2>3, <2>6, <2>9, Listens DEF ServerInv
  <2>10. QED BY <2>4, <2>8, <2>9
<1>4. QED BY <1>2, <1>3

LEMMA ClosesStep ==
  ASSUME ServerInv, ServerCloses
  PROVE  ServerInv' /\ v'.events = v.events
<1>1. v \in Servers /\ ServerOK(v)
  BY DEF ServerInv, ServerOK
<1> DEFINE o == v.open \ {v.handle}
           s == [v EXCEPT !.open = o, !.handle = 0, !.owed = TRUE]
<1>2. v' = EmitCloseIfDrained(s) /\ o \in SUBSET Nat
  BY <1>1, ServerFields DEF ServerCloses, ServerCalls
<1>3. 0 \notin o /\ (v.twice \/ o = {})
  BY <1>1 DEF ServerOK, OpenOK
<1> HIDE DEF o
<1>4. s \in Servers
  BY <1>1, <1>2, Zenon DEF Servers
<1>5. /\ s.ticks = v.ticks /\ s.conf = v.conf /\ s.handle = 0 /\ s.open = o /\ s.twice = v.twice
      /\ s.connections = v.connections /\ s.conns = v.conns /\ s.macros = v.macros /\ s.events = v.events
  BY <1>1 DEF Servers
<1> HIDE DEF s
<1>6. OpenOK(s)
  BY <1>3, <1>5 DEF OpenOK
<1>7. ServerOK(s)
  BY <1>1, <1>4, <1>5, <1>6, OtherFields
<1>8. QED BY <1>2, <1>5, <1>7, MaybeDrained DEF ServerInv

\* A client connects, or is dropped at the limit.
LEMMA ConnectionStep ==
  ASSUME ServerInv, OnConnection
  PROVE  ServerInv' /\ \E e \in VEvents \ {"close"} : v'.events = Append(v.events, e)
<1>1. v \in Servers /\ ServerOK(v) /\ v.ticks = <<>>
  BY DEF ServerInv, ServerOK, OnConnection
<1>2. /\ v.conns \in Seq(ConnType) /\ Len(v.conns) \in Nat /\ v.connections \in Nat /\ v.conf.max \in Nat
      /\ v.conf.tls \in BOOLEAN
  BY <1>1, ServerFields
<1> DEFINE n == Len(v.conns)
           A == {c \in 1..n : v.conns[c].alive}
<1>3. IsFiniteSet(A) /\ n + 1 \notin A /\ A \subseteq 1..n /\ v.connections = Cardinality(A)
  <2>1. IsFiniteSet(1..n)
    <3>1. n \in Nat
      BY <1>2
    <3> HIDE DEF n
    <3>2. QED BY <3>1, FS_Interval
  <2>2. QED BY <1>1, <1>2, <2>1, FS_Subset DEF ServerOK, CountOK
<1>4. ASSUME NEW x \in ConnType, NEW m \in Nat, Len(x.said) <= 1, x.timer => x.said = <<>>,
             x.alive => x.said = <<>>,
             m <= v.conf.max, m = IF x.alive THEN v.connections + 1 ELSE v.connections
      PROVE  /\ [v EXCEPT !.connections = m, !.conns = Append(@, x)] \in Servers
             /\ ServerOK([v EXCEPT !.connections = m, !.conns = Append(@, x)])
             /\ [v EXCEPT !.connections = m, !.conns = Append(@, x)].events = v.events
  <2> DEFINE more == Append(v.conns, x)
             y == [v EXCEPT !.connections = m, !.conns = more]
  <2>1. /\ more \in Seq(ConnType) /\ Len(more) = n + 1 /\ more[n + 1] = x
        /\ \A c \in 1..n : more[c] = v.conns[c]
    BY <1>2, AppendProperties
  <2> HIDE DEF more
  <2>2. y \in Servers
    BY <1>1, <2>1, Zenon DEF Servers
  <2>3. /\ y.ticks = v.ticks /\ y.conf = v.conf /\ y.handle = v.handle /\ y.open = v.open /\ y.twice = v.twice
        /\ y.connections = m /\ y.conns = more /\ y.macros = v.macros /\ y.events = v.events
    BY <1>1 DEF Servers
  <2> HIDE DEF y
  <2>4. {c \in 1..Len(more) : more[c].alive} = IF x.alive THEN A \cup {n + 1} ELSE A
    BY <1>2, <2>1, SMTT(20)
  <2>5. CountOK(y.connections, y.conns, y.conf.max)
    <3> HIDE DEF A
    <3>1. Cardinality(A \cup {n + 1}) = Cardinality(A) + 1
      BY <1>3, FS_AddElement, Zenon
    <3>2. QED BY <1>3, <1>4, <2>3, <2>4, <3>1, Zenon DEF CountOK
  <2>6. DrainOK(y.ticks, y.connections)
    BY <1>1, <2>3, EmptySeq DEF DrainOK
  <2>7. ConnsOK(y.conns, y.macros)
    <3>1. ConnsOK(v.conns, v.macros)
      BY <1>1 DEF ServerOK
    <3>2. ~Answered(v.macros, n + 1)
      BY <1>2, <3>1 DEF ConnsOK, Answered
    <3>3. ASSUME NEW c \in 1..Len(more) PROVE ConnOK(more[c], v.macros, c)
      <4>1. CASE c \in 1..n
        BY <2>1, <3>1, <4>1 DEF ConnsOK
      <4>2. CASE c = n + 1
        BY <1>4, <2>1, <3>2, <4>2 DEF ConnOK
      <4>3. QED BY <1>2, <2>1, <4>1, <4>2
    <3>4. \A i \in 1..Len(v.macros) : v.macros[i].c \in 1..Len(more)
      BY <1>2, <2>1, <3>1 DEF ConnsOK
    <3>5. QED BY <2>3, <3>1, <3>3, <3>4 DEF ConnsOK
  <2>8. ServerOK(y)
    BY <1>1, <2>2, <2>3, <2>5, <2>6, <2>7 DEF ServerOK, OpenOK
  <2>9. QED BY <2>2, <2>3, <2>8 DEF y, more
<1>5. CASE v.connections >= v.conf.max
  <2> DEFINE x == [alive |-> FALSE, shakes |-> FALSE, timer |-> FALSE, said |-> <<"drop">>]
             y == [v EXCEPT !.connections = v.connections, !.conns = Append(@, x)]
  <2>1. v' = VEmit(y, "drop")
    <3>1. [v EXCEPT !.conns = Append(@, x)] = y
      BY <1>1, Zenon DEF Servers
    <3>2. QED BY <1>5, <3>1 DEF OnConnection
  <2>2. x \in ConnType /\ ~x.alive /\ ~x.timer /\ Len(x.said) <= 1
    BY DEF ConnType
  <2>3. v.connections <= v.conf.max
    BY <1>1 DEF ServerOK, CountOK
  <2> HIDE DEF x
  <2>4. ServerOK(y) /\ y.events = v.events /\ y \in Servers
    BY <1>2, <1>4, <2>2, <2>3, Zenon
  <2>5. "drop" \in VEvents \ {"close"}
    BY DEF VEvents
  <2> HIDE DEF y
  <2>6. QED BY <2>1, <2>4, <2>5, EventPut, VEmitIs, SMTT(20) DEF ServerInv
<1>6. CASE ~(v.connections >= v.conf.max)
  <2> DEFINE x == [alive |-> TRUE, shakes |-> v.conf.tls, timer |-> v.conf.tls, said |-> <<>>]
             m == v.connections + 1
             y == [v EXCEPT !.connections = m, !.conns = Append(@, x)]
  <2>1. v' = VEmit(y, "connection")
    BY <1>6 DEF OnConnection
  <2>2. x \in ConnType /\ x.alive /\ x.said = <<>> /\ Len(x.said) <= 1
    <3>1. Len(<<>>) = 0 /\ \A S : <<>> \in Seq(S)
      BY EmptySeq
    <3>2. QED BY <1>2, <3>1 DEF ConnType
  <2>3. m \in Nat /\ m <= v.conf.max /\ m = v.connections + 1
    BY <1>2, <1>6
  <2> HIDE DEF x, m
  <2>4. ServerOK(y) /\ y.events = v.events /\ y \in Servers
    BY <1>2, <1>4, <2>2, <2>3, Zenon
  <2>5. "connection" \in VEvents \ {"close"}
    BY DEF VEvents
  <2> HIDE DEF y
  <2>6. QED BY <2>1, <2>4, <2>5, EventPut, VEmitIs, SMTT(20) DEF ServerInv
<1>7. QED BY <1>5, <1>6

LEMMA GoesStep ==
  ASSUME ServerInv, NEW c \in DOMAIN v.conns, ConnectionGoes(c)
  PROVE  ServerInv' /\ v'.events = v.events
<1>1. v \in Servers /\ ServerOK(v) /\ c \in 1..Len(v.conns)
  BY ServerFields DEF ServerInv, ServerOK
<1>2. /\ CountOK(v.connections, v.conns, v.conf.max) /\ DrainOK(v.ticks, v.connections)
      /\ OpenOK(v) /\ ConnsOK(v.conns, v.macros)
  BY <1>1 DEF ServerOK
<1>3. ConnsBut(v.conns, v.macros, c)
  BY <1>1, <1>2, Zenon DEF ConnsOK, ConnsBut, ConnOK
<1>4. QED BY <1>1, <1>2, <1>3, ConnGoes DEF ConnectionGoes, ServerInv

\* The handshake's goroutine answers.
LEMMA HandshakeStep ==
  ASSUME ServerInv, NEW c \in DOMAIN v.conns, HandshakeEnds(c)
  PROVE  ServerInv' /\ v'.events = v.events
<1>1. v \in Servers /\ ServerOK(v) /\ c \in 1..Len(v.conns) /\ v.conns[c].shakes
  BY ServerFields DEF ServerInv, ServerOK, HandshakeEnds
<1>2. v.conns[c] \in ConnType /\ v.macros \in Seq(VMacros) /\ c \in Nat /\ Len(v.macros) \in Nat
  BY <1>1, ServerFields, ElementOfSeq
<1>3. PICK ok \in BOOLEAN : v' = [v EXCEPT !.conns[c].shakes = FALSE, !.macros = Append(@, [c |-> c, ok |-> ok])]
  BY Zenon DEF HandshakeEnds
<1> DEFINE x == [v.conns[c] EXCEPT !.shakes = FALSE]
           t == [c |-> c, ok |-> ok]
           ms == Append(v.macros, t)
           n == Len(v.macros)
<1>4. v' = Changed(v, c, x, ms)
  BY <1>1, <1>3 DEF Servers, Changed
<1>5. t \in VMacros /\ t.c = c
  BY <1>2 DEF VMacros
<1>6. x \in ConnType /\ ~x.shakes /\ x.alive = v.conns[c].alive /\ x.timer = v.conns[c].timer /\ x.said = v.conns[c].said
  BY <1>2, Zenon DEF ConnType
<1> HIDE DEF x, t
<1>7. ms \in Seq(VMacros) /\ Len(ms) = n + 1 /\ ms[n + 1] = t /\ \A i \in 1..n : ms[i] = v.macros[i]
  BY <1>2, <1>5, AppendProperties
<1> HIDE DEF ms
<1>8. /\ v' \in Servers /\ v'.ticks = v.ticks /\ v'.conf = v.conf /\ v'.handle = v.handle /\ v'.open = v.open
      /\ v'.twice = v.twice /\ v'.connections = v.connections /\ v'.macros = ms /\ v'.events = v.events
      /\ Len(v'.conns) = Len(v.conns) /\ v'.conns[c] = x
      /\ \A d \in 1..Len(v.conns) : v'.conns[d] = IF d = c THEN x ELSE v.conns[d]
      /\ DrainOK(v'.ticks, v'.connections) /\ OpenOK(v')
      /\ CountOK(v'.connections, v'.conns, v'.conf.max)
  <2>1. ChangedIs(v, c, x, ms, v')
    BY <1>1, <1>4, <1>6, <1>7, ConnChanges
  <2>2. QED BY <2>1 DEF ChangedIs
<1>9. ConnsOK(v.conns, v.macros)
  BY <1>1 DEF ServerOK
<1>10. ~Answered(v.macros, c)
  BY <1>1, <1>9 DEF ConnsOK, ConnOK
<1>11. \A d : Answered(ms, d) => Answered(v.macros, d) \/ d = c
  <2>1. ASSUME NEW d, NEW i \in 1..Len(ms), ms[i].c = d PROVE Answered(v.macros, d) \/ d = c
    <3>1. CASE i \in 1..n
      BY <1>7, <2>1, <3>1 DEF Answered
    <3>2. CASE i = n + 1
      BY <1>5, <1>7, <2>1, <3>2
    <3>3. QED BY <1>2, <1>7, <3>1, <3>2
  <2>2. QED BY <2>1, Zenon DEF Answered
<1>12. ASSUME NEW d \in 1..Len(v.conns) PROVE ConnOK(v'.conns[d], ms, d)
  <2>1. ConnOK(v.conns[d], v.macros, d)
    BY <1>9 DEF ConnsOK
  <2>2. CASE d = c
    BY <1>1, <1>6, <1>8, <2>1, <2>2 DEF ConnOK
  <2>3. CASE d # c
    BY <1>8, <1>11, <2>1, <2>3 DEF ConnOK
  <2>4. QED BY <2>2, <2>3
<1>13. \A i \in 1..Len(ms) : ms[i].c \in 1..Len(v.conns)
  <2>1. ASSUME NEW i \in 1..Len(ms) PROVE ms[i].c \in 1..Len(v.conns)
    <3>1. CASE i \in 1..n
      BY <1>7, <1>9, <3>1, Zenon DEF ConnsOK
    <3>2. CASE i = n + 1
      BY <1>1, <1>5, <1>7, <3>2
    <3>3. QED BY <1>2, <1>7, <3>1, <3>2
  <2>2. QED BY <2>1
<1>14. ASSUME NEW i \in 1..Len(ms), NEW j \in 1..Len(ms), ms[i].c = ms[j].c PROVE i = j
  <2>1. CASE i \in 1..n /\ j \in 1..n
    BY <1>7, <1>9, <1>14, <2>1, Zenon DEF ConnsOK
  <2>2. CASE i \in 1..n /\ j = n + 1
    BY <1>5, <1>7, <1>10, <1>14, <2>2 DEF Answered
  <2>3. CASE i = n + 1 /\ j \in 1..n
    BY <1>5, <1>7, <1>10, <1>14, <2>3 DEF Answered
  <2>4. QED BY <1>2, <1>7, <2>1, <2>2, <2>3
<1>15. ConnsOK(v'.conns, v'.macros)
  BY <1>8, <1>12, <1>13, <1>14 DEF ConnsOK
<1>16. QED BY <1>8, <1>15 DEF ServerInv, ServerOK

\* The answer of a handshake is taken, and the timer with it.
LEMMA AnswerTaken ==
  ASSUME ServerInv, v.macros # <<>>,
         NEW c, c = Head(v.macros).c,
         NEW s, s = [v EXCEPT !.macros = Tail(@), !.conns[c].timer = FALSE]
  PROVE  /\ c \in 1..Len(v.conns) /\ ServerOK(s) /\ s.events = v.events /\ Len(s.conns) = Len(v.conns)
         /\ ~s.conns[c].timer /\ ~s.conns[c].shakes /\ ~Answered(s.macros, c)
         /\ s.conns[c].alive => s.conns[c].said = <<>>
<1>1. v \in Servers /\ ServerOK(v) /\ ConnsOK(v.conns, v.macros) /\ v.macros \in Seq(VMacros)
  BY ServerFields DEF ServerInv, ServerOK
<1> DEFINE rest == Tail(v.macros)
           x == [v.conns[c] EXCEPT !.timer = FALSE]
<1>2. /\ rest \in Seq(VMacros) /\ Len(v.macros) \in Nat /\ Len(v.macros) > 0 /\ Len(rest) = Len(v.macros) - 1
      /\ Head(v.macros) = v.macros[1]
      /\ \A i \in 1..Len(rest) : rest[i] = v.macros[i + 1]
  BY <1>1, HeadTailProperties, LenProperties, EmptySeq
<1>3. c = v.macros[1].c /\ c \in 1..Len(v.conns) /\ Answered(v.macros, c)
  BY <1>1, <1>2 DEF ConnsOK, Answered
<1>4. v.conns[c] \in ConnType
  BY <1>1, <1>3, ServerFields, ElementOfSeq
<1>5. s = Changed(v, c, x, rest)
  BY <1>1, <1>3, Zenon DEF Servers, Changed
<1>6. x \in ConnType /\ ~x.timer /\ x.alive = v.conns[c].alive /\ x.shakes = v.conns[c].shakes /\ x.said = v.conns[c].said
  BY <1>4, Zenon DEF ConnType
<1> HIDE DEF x, rest
<1>7. /\ s \in Servers /\ s.ticks = v.ticks /\ s.conf = v.conf /\ s.handle = v.handle /\ s.open = v.open
      /\ s.twice = v.twice /\ s.connections = v.connections /\ s.macros = rest /\ s.events = v.events
      /\ Len(s.conns) = Len(v.conns) /\ s.conns[c] = x
      /\ \A d \in 1..Len(v.conns) : s.conns[d] = IF d = c THEN x ELSE v.conns[d]
      /\ DrainOK(s.ticks, s.connections) /\ OpenOK(s)
      /\ CountOK(s.connections, s.conns, s.conf.max)
  <2>1. ChangedIs(v, c, x, rest, s)
    BY <1>1, <1>2, <1>3, <1>5, <1>6, ConnChanges, SMTT(20)
  <2>2. QED BY <2>1, Zenon DEF ChangedIs
<1>8. \A i \in 1..Len(rest) : i + 1 \in 1..Len(v.macros) /\ i + 1 # 1
  BY <1>2
<1>9. ~Answered(rest, c)
  <2>1. ASSUME NEW i \in 1..Len(rest), rest[i].c = c PROVE FALSE
    <3>1. i + 1 \in 1..Len(v.macros) /\ 1 \in 1..Len(v.macros) /\ i + 1 # 1 /\ v.macros[i + 1].c = v.macros[1].c
      BY <1>2, <1>3, <1>8, <2>1, SMTT(20)
    <3>2. QED BY <1>1, <3>1, Zenon DEF ConnsOK
  <2>2. QED BY <2>1 DEF Answered
<1>10. \A d : Answered(rest, d) => Answered(v.macros, d)
  BY <1>2, <1>8 DEF Answered
<1>11. ASSUME NEW d \in 1..Len(v.conns) PROVE ConnOK(s.conns[d], rest, d)
  <2>1. ConnOK(v.conns[d], v.macros, d)
    BY <1>1 DEF ConnsOK
  <2>2. CASE d = c
    BY <1>3, <1>6, <1>7, <1>10, <2>1, <2>2, Zenon DEF ConnOK
  <2>3. CASE d # c
    BY <1>7, <1>10, <2>1, <2>3, ZenonT(40) DEF ConnOK
  <2>4. QED BY <2>2, <2>3
<1>12. \A i \in 1..Len(rest) : rest[i].c \in 1..Len(v.conns)
  BY <1>1, <1>2, <1>8, Zenon DEF ConnsOK
<1>13. ASSUME NEW i \in 1..Len(rest), NEW j \in 1..Len(rest), rest[i].c = rest[j].c PROVE i = j
  <2>1. i + 1 \in 1..Len(v.macros) /\ j + 1 \in 1..Len(v.macros) /\ v.macros[i + 1].c = v.macros[j + 1].c
    BY <1>2, <1>8, <1>13, Zenon
  <2>2. i + 1 = j + 1
    BY <1>1, <2>1 DEF ConnsOK
  <2>3. QED BY <1>2, <2>2
<1>14. ConnsOK(s.conns, s.macros)
  <2>1. s.macros = rest /\ Len(s.conns) = Len(v.conns)
    BY <1>7
  <2>2. ConnsOK(s.conns, rest)
    BY <1>11, <1>12, <1>13, <2>1, Zenon DEF ConnsOK
  <2>3. QED BY <2>1, <2>2, Zenon
<1>15. ServerOK(s)
  BY <1>7, <1>14 DEF ServerOK
<1>16. ConnOK(v.conns[c], v.macros, c)
  BY <1>1, <1>3 DEF ConnsOK
<1>17. ~s.conns[c].shakes /\ (s.conns[c].alive => s.conns[c].said = <<>>)
  BY <1>3, <1>6, <1>7, <1>16, Zenon DEF ConnOK
<1>18. QED BY <1>3, <1>6, <1>7, <1>9, <1>15, <1>17, Zenon

\* A connection is reported.
LEMMA SaysIs ==
  ASSUME NEW s, ServerOK(s), NEW c \in 1..Len(s.conns), s.conns[c].said = <<>>, ~s.conns[c].timer,
         NEW what \in {"secureConnection", "tlsClientError"},
         NEW y, y = Says(s, c, what)
  PROVE  /\ y \in Servers /\ CountOK(y.connections, y.conns, y.conf.max) /\ DrainOK(y.ticks, y.connections)
         /\ OpenOK(y) /\ ConnsBut(y.conns, y.macros, c) /\ y.events = s.events /\ c \in 1..Len(y.conns)
         /\ ~s.conns[c].shakes /\ ~Answered(s.macros, c) => ServerOK(y)
<1>1. s \in Servers /\ s.conns[c] \in ConnType /\ s.macros \in Seq(VMacros) /\ ConnsOK(s.conns, s.macros)
  BY ServerFields, ElementOfSeq DEF ServerOK
<1> DEFINE x == [s.conns[c] EXCEPT !.said = <<what>>]
<1>2. y = Changed(s, c, x, s.macros)
  <2>1. Append(<<>>, what) = <<what>>
    OBVIOUS
  <2>2. Append(s.conns[c].said, what) = <<what>>
    BY <2>1
  <2>3. y = [s EXCEPT !.conns[c].said = <<what>>]
    BY <1>1, <2>2 DEF Says, Servers
  <2>4. QED BY <1>1, <2>3, Zenon DEF Servers, Changed
<1>3. <<what>> \in Seq({"drop", "secureConnection", "tlsClientError"}) /\ Len(<<what>>) = 1
  OBVIOUS
<1>4. x \in ConnType /\ x.said = <<what>> /\ x.alive = s.conns[c].alive /\ x.shakes = s.conns[c].shakes /\ ~x.timer
  BY <1>1, <1>3, Zenon DEF ConnType
<1> HIDE DEF x
<1>5. /\ y \in Servers /\ y.ticks = s.ticks /\ y.conf = s.conf /\ y.handle = s.handle /\ y.open = s.open
      /\ y.twice = s.twice /\ y.connections = s.connections /\ y.macros = s.macros /\ y.events = s.events
      /\ Len(y.conns) = Len(s.conns) /\ y.conns[c] = x
      /\ \A d \in 1..Len(s.conns) : y.conns[d] = IF d = c THEN x ELSE s.conns[d]
      /\ DrainOK(y.ticks, y.connections) /\ OpenOK(y)
      /\ CountOK(y.connections, y.conns, y.conf.max)
  <2>1. ChangedIs(s, c, x, s.macros, y)
    BY <1>1, <1>2, <1>4, ConnChanges
  <2>2. QED BY <2>1 DEF ChangedIs
<1>6. \A d \in 1..Len(s.conns) : ConnOK(s.conns[d], s.macros, d)
  BY <1>1 DEF ConnsOK
<1>7. \A d \in 1..Len(s.conns) : d # c => ConnOK(y.conns[d], s.macros, d)
  BY <1>5, <1>6
<1>8. /\ Len(y.conns[c].said) <= 1 /\ (y.conns[c].timer => y.conns[c].said = <<>>)
      /\ y.conns[c].shakes => ~Answered(s.macros, c)
  <2>1. ConnOK(s.conns[c], s.macros, c) /\ y.conns[c] = x
    BY <1>5, <1>6
  <2>2. Len(x.said) = 1
    BY <1>3, <1>4
  <2>3. ~x.timer /\ (x.shakes => s.conns[c].shakes) /\ (s.conns[c].shakes => ~Answered(s.macros, c))
    BY <1>4, <2>1 DEF ConnOK
  <2>4. QED BY <2>1, <2>2, <2>3
<1>9. ConnsBut(y.conns, y.macros, c)
  BY <1>1, <1>5, <1>7, <1>8 DEF ConnsBut, ConnsOK
<1>10. ASSUME ~s.conns[c].shakes, ~Answered(s.macros, c) PROVE ServerOK(y)
  <2>1. ConnOK(y.conns[c], s.macros, c)
    BY <1>4, <1>5, <1>8, <1>10 DEF ConnOK
  <2>2. ConnsOK(y.conns, y.macros)
    BY <1>1, <1>5, <1>7, <2>1 DEF ConnsOK
  <2>3. QED BY <1>5, <2>2 DEF ServerOK
<1>11. QED BY <1>5, <1>9, <1>10

LEMMA AnswerStep ==
  ASSUME ServerInv, RunHandshake
  PROVE  ServerInv' /\ v'.events = v.events
<1> DEFINE m == Head(v.macros)
           c == m.c
           s == [v EXCEPT !.macros = Tail(@), !.conns[c].timer = FALSE]
<1>1. v.macros # <<>> /\ (v' = OnHandshake(c, m.ok) \/ v' = Destroyed(s, c))
  BY DEF RunHandshake
<1>2. /\ c \in 1..Len(v.conns) /\ ServerOK(s) /\ s.events = v.events /\ Len(s.conns) = Len(v.conns)
      /\ ~s.conns[c].timer /\ ~s.conns[c].shakes /\ ~Answered(s.macros, c)
      /\ s.conns[c].alive => s.conns[c].said = <<>>
  BY <1>1, AnswerTaken, Zenon
<1>3. v' \in {s, Says(s, c, "secureConnection"), Destroyed(Says(s, c, "tlsClientError"), c), Destroyed(s, c)}
      /\ (~s.conns[c].alive => v' \in {s, Destroyed(s, c)})
  BY <1>1 DEF OnHandshake
<1> HIDE DEF s, c
<1>4. CASE v' = s
  BY <1>2, <1>4 DEF ServerInv
<1>5. CASE v' = Destroyed(s, c)
  <2>1. /\ s \in Servers /\ CountOK(s.connections, s.conns, s.conf.max) /\ DrainOK(s.ticks, s.connections)
        /\ OpenOK(s) /\ ConnsOK(s.conns, s.macros)
    BY <1>2 DEF ServerOK
  <2>2. ConnsBut(s.conns, s.macros, c)
    BY <1>2, <2>1 DEF ConnsOK, ConnsBut, ConnOK
  <2>3. QED BY <1>2, <1>5, <2>1, <2>2, ConnGoes DEF ServerInv
<1>6. CASE s.conns[c].alive /\ v' = Says(s, c, "secureConnection")
  BY <1>2, <1>6, SaysIs DEF ServerInv
<1>7. CASE s.conns[c].alive /\ v' = Destroyed(Says(s, c, "tlsClientError"), c)
  <2> DEFINE y == Says(s, c, "tlsClientError")
  <2>1. /\ y \in Servers /\ CountOK(y.connections, y.conns, y.conf.max) /\ DrainOK(y.ticks, y.connections)
        /\ OpenOK(y) /\ ConnsBut(y.conns, y.macros, c) /\ y.events = s.events /\ c \in 1..Len(y.conns)
    BY <1>2, <1>7, SaysIs
  <2> HIDE DEF y
  <2>2. v' = Destroyed(y, c)
    BY <1>7 DEF y
  <2>3. QED BY <1>2, <2>1, <2>2, ConnGoes DEF ServerInv
<1>8. QED BY <1>3, <1>4, <1>5, <1>6, <1>7

\* The handshake takes too long.
LEMMA LateStep ==
  ASSUME ServerInv, NEW c \in DOMAIN v.conns, HandshakeLate(c)
  PROVE  ServerInv' /\ v'.events = v.events
<1>1. v \in Servers /\ ServerOK(v) /\ c \in 1..Len(v.conns) /\ v.conns[c].timer /\ ConnsOK(v.conns, v.macros)
  BY ServerFields, Zenon DEF ServerInv, ServerOK, HandshakeLate
<1>2. v.conns[c] \in ConnType /\ v.macros \in Seq(VMacros) /\ ConnOK(v.conns[c], v.macros, c)
  BY <1>1, ServerFields, ElementOfSeq DEF ConnsOK
<1> DEFINE s == [v EXCEPT !.conns[c].timer = FALSE]
           x == [v.conns[c] EXCEPT !.timer = FALSE]
           y == Says(s, c, "tlsClientError")
<1>3. v' = Destroyed(y, c)
  BY DEF HandshakeLate
<1>4. s = Changed(v, c, x, v.macros)
  BY <1>1, Zenon DEF Servers, Changed
<1>5. x \in ConnType /\ ~x.timer /\ x.alive = v.conns[c].alive /\ x.shakes = v.conns[c].shakes /\ x.said = v.conns[c].said
  BY <1>2, Zenon DEF ConnType
<1> HIDE DEF x, s
<1>6. /\ s \in Servers /\ s.ticks = v.ticks /\ s.conf = v.conf /\ s.handle = v.handle /\ s.open = v.open
      /\ s.twice = v.twice /\ s.connections = v.connections /\ s.macros = v.macros /\ s.events = v.events
      /\ Len(s.conns) = Len(v.conns) /\ s.conns[c] = x
      /\ \A d \in 1..Len(v.conns) : s.conns[d] = IF d = c THEN x ELSE v.conns[d]
      /\ DrainOK(s.ticks, s.connections) /\ OpenOK(s)
      /\ CountOK(s.connections, s.conns, s.conf.max)
  <2>1. ChangedIs(v, c, x, v.macros, s)
    BY <1>1, <1>2, <1>4, <1>5, ConnChanges
  <2>2. QED BY <2>1 DEF ChangedIs
<1>7. ASSUME NEW d \in 1..Len(v.conns) PROVE ConnOK(s.conns[d], v.macros, d)
  <2>1. ConnOK(v.conns[d], v.macros, d)
    BY <1>1 DEF ConnsOK
  <2>2. CASE d = c
    BY <1>5, <1>6, <2>1, <2>2 DEF ConnOK
  <2>3. CASE d # c
    BY <1>6, <2>1, <2>3
  <2>4. QED BY <2>2, <2>3
<1>8. ConnsOK(s.conns, s.macros)
  BY <1>1, <1>6, <1>7 DEF ConnsOK
<1>9. ServerOK(s) /\ s.conns[c].said = <<>> /\ ~s.conns[c].timer /\ c \in 1..Len(s.conns)
  BY <1>1, <1>2, <1>5, <1>6, <1>8 DEF ServerOK, ConnOK
<1>10. /\ y \in Servers /\ CountOK(y.connections, y.conns, y.conf.max) /\ DrainOK(y.ticks, y.connections)
       /\ OpenOK(y) /\ ConnsBut(y.conns, y.macros, c) /\ y.events = s.events /\ c \in 1..Len(y.conns)
  BY <1>9, SaysIs
<1> HIDE DEF y
<1>11. QED BY <1>3, <1>6, <1>10, ConnGoes DEF ServerInv

\* A tick runs: 'close' is emitted when no connection is left.
LEMMA ServerTickStep ==
  ASSUME ServerInv, ServerTick
  PROVE  /\ ServerInv'
         /\ \/ v'.events = v.events
            \/ \E e \in VEvents : v'.events = Append(v.events, e) /\ (e = "close" => v.connections = 0)
<1>1. v \in Servers /\ ServerOK(v) /\ v.ticks # <<>> /\ v.ticks \in Seq(VTicks) /\ DrainOK(v.ticks, v.connections)
  BY ServerFields DEF ServerInv, ServerOK, ServerTick
<1> DEFINE t == Head(v.ticks)
           rest == Tail(v.ticks)
           s == [v EXCEPT !.ticks = rest]
<1>2. /\ t \in VTicks /\ t = v.ticks[1] /\ 1 \in 1..Len(v.ticks) /\ rest \in Seq(VTicks)
      /\ \A i \in 1..Len(rest) : rest[i] = v.ticks[i + 1] /\ i + 1 \in 1..Len(v.ticks)
  BY <1>1, HeadTailProperties, LenProperties, EmptySeq
<1>3. v' = CASE t = "listening" /\ s.handle = 0 -> s
             [] t = "close" -> VEmit([s EXCEPT !.owed = FALSE], "close")
             [] OTHER -> VEmit(s, t)
  BY DEF ServerTick
<1> HIDE DEF t, rest
<1>4. s \in Servers /\ s.ticks = rest
  BY <1>1, <1>2, Zenon DEF Servers
<1>5. /\ s.conf = v.conf /\ s.handle = v.handle /\ s.open = v.open /\ s.twice = v.twice
      /\ s.connections = v.connections /\ s.conns = v.conns /\ s.macros = v.macros /\ s.events = v.events
  BY <1>1 DEF Servers
<1>6. DrainOK(rest, v.connections)
  BY <1>1, <1>2 DEF DrainOK
<1> HIDE DEF s
<1>7. ServerOK(s)
  BY <1>1, <1>4, <1>5, <1>6 DEF ServerOK, OpenOK
<1>8. t \in VEvents
  BY <1>2 DEF VTicks, VEvents
<1>9. CASE t = "close"
  <2> DEFINE y == [s EXCEPT !.owed = FALSE]
  <2>1. v' = VEmit(y, "close")
    BY <1>3, <1>9
  <2>2. y \in Servers
    BY <1>4, Zenon DEF Servers
  <2>3. /\ y.conf = s.conf /\ y.handle = s.handle /\ y.open = s.open /\ y.twice = s.twice /\ y.ticks = s.ticks
        /\ y.connections = s.connections /\ y.conns = s.conns /\ y.macros = s.macros /\ y.events = s.events
    BY <1>4 DEF Servers
  <2> HIDE DEF y
  <2>4. OpenOK(y)
    BY <1>7, <2>3 DEF ServerOK, OpenOK
  <2>5. ServerOK(y)
    BY <1>7, <2>2, <2>3, <2>4, OtherFields
  <2>6. v.connections = 0
    BY <1>1, <1>2, <1>9, Zenon DEF DrainOK
  <2>7. v'.events = Append(v.events, "close") /\ "close" \in VEvents
    BY <1>5, <1>8, <1>9, <2>1, <2>2, <2>3, VEmitIs
  <2>8. QED BY <1>8, <1>9, <2>1, <2>5, <2>6, <2>7, EventPut DEF ServerInv
<1>10. CASE t # "close"
  <2>1. v' = s \/ v' = VEmit(s, t)
    BY <1>3, <1>10
  <2>2. CASE v' = s
    BY <1>5, <1>7, <2>2 DEF ServerInv
  <2>3. CASE v' = VEmit(s, t)
    BY <1>4, <1>5, <1>7, <1>8, <1>10, <2>3, EventPut, VEmitIs, SMTT(20) DEF ServerInv
  <2>4. QED BY <2>1, <2>2, <2>3
<1>11. QED BY <1>9, <1>10

LEMMA ServerStep ==
  ASSUME ServerInv, VNext
  PROVE  /\ ServerInv'
         /\ \/ v'.events = v.events
            \/ \E e \in VEvents : v'.events = Append(v.events, e) /\ (e = "close" => v.connections = 0)
<1>1. CASE ServerTick
  BY <1>1, ServerTickStep
<1>2. CASE RunHandshake
  BY <1>2, AnswerStep
<1>3. CASE ServerLooksUp \/ ServerListens
  BY <1>3, ListensStep
<1>4. CASE \E c \in DOMAIN v.conns : HandshakeEnds(c) \/ ConnectionGoes(c)
  BY <1>4, HandshakeStep, GoesStep
<1>5. CASE ServerCloses
  BY <1>5, ClosesStep
<1>6. CASE OnConnection
  BY <1>6, ConnectionStep
<1>7. CASE \E c \in DOMAIN v.conns : HandshakeLate(c)
  BY <1>7, LateStep
<1>8. QED BY <1>1, <1>2, <1>3, <1>4, <1>5, <1>6, <1>7 DEF VNext, ServerWorks

LEMMA ServerStays == ServerInv /\ UNCHANGED vvars => ServerInv'
  BY DEF ServerInv, vvars

LEMMA ServerIs == ServerInv => ServerCounts /\ ReportedOnce /\ NoListenerLeaks
<1> SUFFICES ASSUME ServerInv PROVE ServerCounts /\ ReportedOnce /\ NoListenerLeaks
  OBVIOUS
<1>1. v \in Servers /\ ServerOK(v) /\ DOMAIN v.conns = 1..Len(v.conns)
  BY ServerFields DEF ServerInv, ServerOK
<1>2. ServerCounts
  <2>1. Live(v) = {c \in 1..Len(v.conns) : v.conns[c].alive}
    BY <1>1 DEF Live
  <2>2. QED BY <1>1, <2>1 DEF ServerOK, CountOK, ServerCounts
<1>3. ReportedOnce
  BY <1>1 DEF ServerOK, ConnsOK, ConnOK, ReportedOnce
<1>4. NoListenerLeaks
  BY <1>1 DEF ServerOK, OpenOK, NoListenerLeaks
<1>5. QED BY <1>2, <1>3, <1>4

\* 'close' is emitted by a tick that was put when the last connection was
\* gone, and none came since.
LEMMA ClosesDrained ==
  ASSUME ServerInv, VNext
  PROVE  CloseIsDrained
<1>1. v.events \in Seq(VEvents) /\ Len(v.events) \in Nat
  BY ServerFields DEF ServerInv, ServerOK
<1>2. CASE v'.events = v.events
  BY <1>1, <1>2 DEF CloseIsDrained
<1>3. ASSUME NEW e \in VEvents, v'.events = Append(v.events, e), e = "close" => v.connections = 0
      PROVE  CloseIsDrained
  <2> DEFINE h == Append(v.events, e)
  <2>1. Len(h) = Len(v.events) + 1 /\ h[Len(v.events) + 1] = e
    BY <1>1, AppendProperties
  <2> HIDE DEF h
  <2>2. Last(h) = e
    BY <2>1 DEF Last
  <2>3. v'.events = h
    BY <1>3 DEF h
  <2>4. QED BY <1>3, <2>2, <2>3 DEF CloseIsDrained
<1>4. QED BY <1>2, <1>3, ServerStep

===============================================================================
