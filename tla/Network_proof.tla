----------------------------- MODULE Network_proof -----------------------------
(***************************************************************************)
(* Proofs about Socket, and about MCNetwork, which runs it, SocketServer   *)
(* and the HTTP modules: for any number of addresses, any writes and any   *)
(* order of the event loop.                                                *)
(*                                                                         *)
(* Only one component is at work in a behaviour, so the invariant of each  *)
(* is claimed only of the behaviours it is at work in.                     *)
(***************************************************************************)
EXTENDS Http_proof

-----------------------------------------------------------------------------
(* Socket *)

HandleType ==
  [st : {"new", "dialing", "up", "down"}, closed : BOOLEAN, reading : BOOLEAN, queue : Seq(Nat),
   wire : Seq(Nat), in : Nat, over : BOOLEAN]

TickOps ==
  {"errorBuffer", "error", "close", "lookupFailed", "refuse", "finish", "endReadable", "endWritable", "resume"}

MacroOps == {"connected", "data", "eof", "written", "closed"}
STicks == {x \in [op : TickOps, id : Nat] : x.op = "refuse" => x.id # 0}
SMacros == [op : MacroOps, h : Nat, id : Nat, ok : BOOLEAN]
SEvents ==
  {"connect", "error", "end", "finish", "close", "lookup", "connectionAttemptFailed", "connectionAttemptTimeout"}

Sockets ==
  [conf : SocketConfType, connecting : BOOLEAN, destroyed : BOOLEAN, errored : BOOLEAN, handle : Nat,
   handles : Seq(HandleType), looking : BOOLEAN, current : Nat, attempt : BOOLEAN, cur : Nat, waits : BOOLEAN,
   buffer : Seq(Nat), ending : BOOLEAN, final : {"no", "called", "done"}, finalWaits : BOOLEAN,
   finished : BOOLEAN, flowing : BOOLEAN, readWaits : BOOLEAN, chunks : Nat, ended : BOOLEAN,
   endEmitted : BOOLEAN, ticks : Seq(STicks), macros : Seq(SMacros), events : Seq(SEvents),
   settled : Seq(Nat \X BOOLEAN), got : Nat, again : BOOLEAN]

\* What the ticks and macrotasks are; whose write a tick refuses and a
\* macrotask answers; whose attempt one reports; the writes called back.
Ops(s) == [i \in 1..Len(s) |-> s[i].op]
Refusals(s) == [i \in 1..Len(s) |-> IF s[i].op = "refuse" THEN s[i].id ELSE 0]
Answers(s) == [i \in 1..Len(s) |-> IF s[i].op = "written" THEN s[i].id ELSE 0]
Dials(s) == [i \in 1..Len(s) |-> IF s[i].op = "connected" THEN s[i].h ELSE 0]
Called(s) == [i \in 1..Len(s) |-> s[i][1]]
Newest(s) == s.handles[Len(s.handles)]

\* The last handle is the socket's, until the socket is destroyed; the others
\* are closed, and nothing went through them.
Blank(x) == x.queue = <<>> /\ x.wire = <<>> /\ x.in = 0 /\ ~x.over /\ ~x.reading
HandlesOK(s) ==
  /\ 1 \in 1..Len(s.handles)
  /\ s.handle = IF s.destroyed THEN 0 ELSE Len(s.handles)
  /\ \A h \in 1..Len(s.handles) : s.handles[h].closed <=> h # s.handle
  /\ \A h \in 1..Len(s.handles) : h # Len(s.handles) => Blank(s.handles[h])

\* Each attempt reports once; the report of the one under way finds the
\* socket connecting.
Reported(s) == ~s.destroyed /\ Has(Dials(s.macros), s.handle)
ReportOK(s) ==
  /\ \A m \in SMacros : Has(s.macros, m) =>
       m.h \in 1..Len(s.handles) /\ (m.op \in {"data", "eof", "written"} => m.h = Len(s.handles))
  /\ \A a \in Nat : Has(Dials(s.macros), a) => a <= Len(s.handles)
  /\ \A a \in Nat \ {0} : Single(Dials(s.macros), a)
  /\ Reported(s) => s.connecting /\ Newest(s).st \in {"up", "down"}

ConnectOK(s) ==
  /\ s.connecting => ~s.destroyed /\ ~Has(s.events, "connect")
  /\ ~s.destroyed => s.connecting \/ Has(s.events, "connect")
  /\ s.attempt => s.connecting /\ ~s.looking
  /\ ~s.destroyed /\ Newest(s).st \in {"new", "dialing"} => s.connecting
  /\ s.looking => Len(s.handles) = 1 /\ Newest(s).st = "new"

\* Before 'connect' nothing happens that needs a connection.
Untouched(s) ==
  /\ Blank(Newest(s)) /\ s.got = 0 /\ s.chunks = 0
  /\ ~s.ended /\ ~s.endEmitted /\ ~s.finished /\ s.final # "done"
  /\ ~Has(Ops(s.macros), "data") /\ ~Has(Ops(s.macros), "eof") /\ ~Has(Ops(s.macros), "written")
  /\ ~Has(Ops(s.ticks), "finish") /\ ~Has(Ops(s.ticks), "endReadable") /\ ~Has(Ops(s.ticks), "endWritable")

UntouchedOK(s) == Has(s.events, "connect") \/ Untouched(s)

\* What a tick or a macrotask that waits, or an event, says of the socket.
SaidOK(s) ==
  /\ Has(Ops(s.ticks), "error") \/ Has(s.events, "error") => s.destroyed
  /\ Has(Ops(s.ticks), "close") \/ Has(Ops(s.macros), "closed") \/ Has(s.events, "close") => s.destroyed
  /\ Has(Ops(s.ticks), "close") => ~Has(s.events, "connect")
  /\ Has(Ops(s.ticks), "finish") \/ Has(s.events, "finish") => s.final = "done" /\ Has(Newest(s).wire, Fin)
  /\ Has(Ops(s.ticks), "endReadable") \/ Has(s.events, "end") => s.ended
  /\ Has(s.events, "end") => s.endEmitted
  /\ Has(s.events, "close") =>
       /\ ~Has(Ops(s.ticks), "error") /\ ~Has(Ops(s.ticks), "finish")
       /\ ~Has(Ops(s.ticks), "endReadable") /\ ~Has(Ops(s.ticks), "resume")

\* What comes once, and last.
CloseLast(events) == \A e \in SEvents \ {"lookup"} : NoLater(events, "close", e)
ComesOnce(s) ==
  /\ Single(s.events, "connect") /\ Single(s.events, "end")
  /\ OnceIn(Ops(s.ticks), "error", s.events, "error")
  /\ OnceIn(Ops(s.ticks), "finish", s.events, "finish")
  /\ OnceIn(Ops(s.ticks), "close", s.events, "close")
  /\ OnceIn(Ops(s.macros), "closed", s.events, "close")
  /\ ~(Has(Ops(s.macros), "closed") /\ Has(Ops(s.ticks), "close"))
  /\ Ordered(Ops(s.ticks), {"error", "resume"}, {"close"})
  /\ CloseLast(s.events)

\* Every write is in one place.
Rising(s) == \A i, j \in 1..Len(s) : i < j => s[i] < s[j]
Unknown(s, a) == ~Has(Refusals(s.ticks), a) /\ ~Has(Called(s.settled), a)
IdsOK(s, n) ==
  /\ s.cur <= n /\ \A a \in Nat : Has(s.buffer, a) => s.cur < a /\ a <= n
  /\ Rising(s.buffer)
  /\ \A a \in Nat : Has(Called(s.settled), a) => a # 0 /\ a <= n
  /\ \A a \in Nat : Has(Refusals(s.ticks), a) => a <= n
  /\ \A a \in Nat \ {0} :
       /\ OnceIn(Refusals(s.ticks), a, Called(s.settled), a)
       /\ a = s.cur \/ Has(s.buffer, a) => Unknown(s, a)

\* The handle works on the write that is under way, once.
Idle(s, a) == ~Has(Newest(s).queue, a) /\ ~Has(Answers(s.macros), a)
PendingOK(s) ==
  /\ \A a \in Nat : Has(Newest(s).queue, a) \/ Has(Answers(s.macros), a) => a \in {Fin, s.cur}
  /\ s.cur # 0 => OnceIn(Newest(s).queue, s.cur, Answers(s.macros), s.cur)
  /\ s.waits => s.cur # 0 /\ Idle(s, s.cur)

\* What goes out is in order, before what is buffered.
Before(a, b) == a # Fin /\ (b = Fin \/ a < b)
InOrder(w) == \A i, j \in 1..Len(w) : i < j => Before(w[i], w[j])
Outgoing(w, t) ==
  InOrder(w) /\ InOrder(t) /\ \A a, b \in Nat : Has(w, a) /\ Has(t, b) => Before(a, b)

Sent(s, a) == Has(Newest(s).wire, a) \/ Has(Newest(s).queue, a)
WireOK(s, n) ==
  \/ s.again
  \/ /\ Outgoing(Newest(s).wire, Newest(s).queue)
     /\ \A a \in Nat : Sent(s, a) => a <= n /\ (a # Fin => \A b \in Nat : Has(s.buffer, b) => a < b)
     /\ Sent(s, Fin) => s.final # "no" /\ ~s.finalWaits
     /\ s.final # "no" => s.ending /\ s.cur = 0 /\ s.buffer = <<>>
     /\ s.finalWaits => s.final = "called"

FinOK(s) ==
  \A m \in SMacros :
    Has(s.macros, m) /\ m.op = "written" /\ m.id = Fin /\ m.ok => Has(Newest(s).wire, Fin)

\* Everything that was read is somewhere.
ReadOK(s) ==
  /\ ~s.destroyed => Newest(s).in = s.got + s.chunks + Tally(Ops(s.macros), "data")
  /\ ~s.destroyed /\ s.ended => Newest(s).over /\ ~Has(Ops(s.macros), "data")
  /\ Has(Ops(s.macros), "eof") => Newest(s).over
  /\ Ordered(Ops(s.macros), {"data"}, {"eof"})
  /\ Has(s.events, "end") => s.chunks = 0

SocketOK(s, n) ==
  /\ s \in Sockets /\ HandlesOK(s) /\ ReportOK(s) /\ ConnectOK(s) /\ UntouchedOK(s) /\ SaidOK(s) /\ ComesOnce(s)
  /\ IdsOK(s, n) /\ PendingOK(s) /\ WireOK(s, n) /\ FinOK(s) /\ ReadOK(s)

-----------------------------------------------------------------------------
(* Socket: sequences seen through a function *)

\* A sequence seen through a function.
Through(f, s) == [i \in 1..Len(s) |-> f[s[i]]]
Follows(f, T, S, s) ==
  /\ Through(f, s) \in Seq(S) /\ Len(Through(f, s)) = Len(s)
  /\ \A i \in 1..Len(s) : Through(f, s)[i] = f[s[i]]
  /\ \A x \in T : Through(f, Append(s, x)) = Append(Through(f, s), f[x])
  /\ s # <<>> => /\ Through(f, s) # <<>> /\ Head(Through(f, s)) = f[Head(s)]
                 /\ Through(f, Tail(s)) = Tail(Through(f, s))

LEMMA ThroughFacts == ASSUME NEW T, NEW S, NEW f \in [T -> S], NEW s \in Seq(T) PROVE Follows(f, T, S, s)
<1>1. \A t \in Seq(T) : /\ Through(f, t) \in Seq(S) /\ Len(Through(f, t)) = Len(t)
                        /\ \A i \in 1..Len(t) : Through(f, t)[i] = f[t[i]]
  <2> SUFFICES ASSUME NEW t \in Seq(T)
               PROVE  /\ Through(f, t) \in Seq(S) /\ Len(Through(f, t)) = Len(t)
                      /\ \A i \in 1..Len(t) : Through(f, t)[i] = f[t[i]]
    OBVIOUS
  <2>1. Len(t) \in Nat /\ \A i \in 1..Len(t) : t[i] \in T
    BY ElementOfSeq, LenProperties
  <2>2. Through(f, t) \in [1..Len(t) -> S]
    BY <2>1 DEF Through
  <2>3. Through(f, t) \in Seq(S)
    BY <2>1, <2>2, SeqDef
  <2>4. DOMAIN Through(f, t) = 1..Len(t)
    BY <2>2
  <2>5. Len(Through(f, t)) = Len(t)
    BY <2>1, <2>3, <2>4, LenProperties
  <2>6. QED BY <2>3, <2>5 DEF Through
<1>2. ASSUME NEW x \in T PROVE Through(f, Append(s, x)) = Append(Through(f, s), f[x])
  <2> DEFINE a == Append(s, x)
             b == Append(Through(f, s), f[x])
             n == Len(s)
  <2>1. /\ a \in Seq(T) /\ n \in Nat /\ Len(a) = n + 1 /\ a[n + 1] = x /\ \A i \in 1..n : a[i] = s[i]
        /\ \A i \in 1..Len(a) : i \in 1..n \/ i = n + 1
    BY AppendAt
  <2>2. f[x] \in S /\ Through(f, s) \in Seq(S) /\ Len(Through(f, s)) = n
    BY <1>1
  <2>3. /\ b \in Seq(S) /\ Len(b) = n + 1 /\ b[n + 1] = f[x] /\ \A i \in 1..n : b[i] = Through(f, s)[i]
    BY <2>2, AppendAt
  <2> HIDE DEF a, b
  <2>4. Through(f, a) \in Seq(S) /\ Len(Through(f, a)) = n + 1 /\ \A i \in 1..(n + 1) : Through(f, a)[i] = f[a[i]]
    BY <1>1, <2>1
  <2>5. \A i \in 1..(n + 1) : Through(f, a)[i] = b[i]
    BY <1>1, <2>1, <2>3, <2>4
  <2>6. Through(f, a) = b
    BY <2>3, <2>4, <2>5, SeqEqual
  <2>7. QED BY <2>6 DEF a, b
<1>3. ASSUME s # <<>>
      PROVE  Through(f, s) # <<>> /\ Head(Through(f, s)) = f[Head(s)] /\ Through(f, Tail(s)) = Tail(Through(f, s))
  <2> DEFINE a == Tail(s)
             c == Through(f, s)
             b == Tail(c)
  <2>1. /\ a \in Seq(T) /\ Len(a) = Len(s) - 1 /\ Len(s) \in Nat /\ Len(s) > 0 /\ Head(s) = s[1]
        /\ \A i \in 1..Len(a) : a[i] = s[i + 1]
    BY <1>3, HeadTailProperties, LenProperties, EmptySeq
  <2>2. c \in Seq(S) /\ Len(c) = Len(s) /\ \A i \in 1..Len(s) : c[i] = f[s[i]]
    BY <1>1
  <2>3. c # <<>>
    BY <2>1, <2>2, EmptySeq
  <2>4. b \in Seq(S) /\ Len(b) = Len(c) - 1 /\ Head(c) = c[1] /\ \A i \in 1..Len(b) : b[i] = c[i + 1]
    BY <2>2, <2>3, HeadTailProperties
  <2> HIDE DEF a, b, c
  <2>5. Through(f, a) \in Seq(S) /\ Len(Through(f, a)) = Len(a) /\ \A i \in 1..Len(a) : Through(f, a)[i] = f[a[i]]
    BY <1>1, <2>1
  <2>6. ASSUME NEW i \in 1..Len(a) PROVE Through(f, a)[i] = b[i]
    <3>1. i + 1 \in 1..Len(s) /\ i \in 1..Len(b)
      BY <2>1, <2>2, <2>4
    <3>2. b[i] = c[i + 1] /\ c[i + 1] = f[s[i + 1]]
      BY <2>2, <2>4, <3>1
    <3>3. Through(f, a)[i] = f[a[i]] /\ a[i] = s[i + 1]
      BY <2>1, <2>5
    <3>4. QED BY <3>2, <3>3
  <2>7. Len(b) = Len(a)
    BY <2>1, <2>2, <2>4
  <2>8. Through(f, a) = b
    BY <2>4, <2>5, <2>6, <2>7, SeqEqual
  <2>9. Head(c) = f[Head(s)]
    <3>1. 1 \in 1..Len(s)
      BY <2>1
    <3>2. QED BY <2>1, <2>2, <2>4, <3>1, Zenon
  <2>10. QED BY <2>3, <2>8, <2>9 DEF a, b, c
<1>4. QED BY <1>1, <1>2, <1>3 DEF Follows

LEMMA TicksSeen ==
  ASSUME NEW s \in Seq(STicks)
  PROVE  /\ Ops(s) \in Seq(TickOps) /\ Refusals(s) \in Seq(Nat) /\ Len(Ops(s)) = Len(s) /\ Len(Refusals(s)) = Len(s)
         /\ \A x \in STicks : /\ Append(s, x) \in Seq(STicks) /\ Ops(Append(s, x)) = Append(Ops(s), x.op)
                              /\ Refusals(Append(s, x)) = Append(Refusals(s), IF x.op = "refuse" THEN x.id ELSE 0)
         /\ s # <<>> => /\ Head(s) \in STicks /\ Tail(s) \in Seq(STicks)
                        /\ Ops(s) # <<>> /\ Head(Ops(s)) = Head(s).op /\ Ops(Tail(s)) = Tail(Ops(s))
                        /\ Refusals(s) # <<>> /\ Refusals(Tail(s)) = Tail(Refusals(s))
                        /\ Head(Refusals(s)) = IF Head(s).op = "refuse" THEN Head(s).id ELSE 0
<1> DEFINE f == [x \in STicks |-> x.op]
           g == [x \in STicks |-> IF x.op = "refuse" THEN x.id ELSE 0]
<1>1. f \in [STicks -> TickOps] /\ g \in [STicks -> Nat]
  BY DEF STicks
<1>2. \A x \in STicks : f[x] = x.op /\ g[x] = IF x.op = "refuse" THEN x.id ELSE 0
  OBVIOUS
<1>3. ASSUME NEW t \in Seq(STicks) PROVE Ops(t) = Through(f, t) /\ Refusals(t) = Through(g, t)
  <2>1. \A i \in 1..Len(t) : t[i] \in STicks
    BY ElementOfSeq
  <2>2. \A i \in 1..Len(t) : t[i].op = f[t[i]] /\ (IF t[i].op = "refuse" THEN t[i].id ELSE 0) = g[t[i]]
    BY <1>2, <2>1
  <2> HIDE DEF f, g
  <2>3. QED BY <2>2 DEF Ops, Refusals, Through
<1> HIDE DEF f, g
<1>4. \A x \in STicks : Append(s, x) \in Seq(STicks)
  BY AppendProperties
<1>5. s # <<>> => Head(s) \in STicks /\ Tail(s) \in Seq(STicks)
  BY HeadTailProperties
<1>6. /\ Ops(s) \in Seq(TickOps) /\ Len(Ops(s)) = Len(s)
      /\ \A x \in STicks : Ops(Append(s, x)) = Append(Ops(s), x.op)
      /\ s # <<>> => Ops(s) # <<>> /\ Head(Ops(s)) = Head(s).op /\ Ops(Tail(s)) = Tail(Ops(s))
  <2>1. /\ Through(f, s) \in Seq(TickOps) /\ Len(Through(f, s)) = Len(s)
        /\ \A x \in STicks : Through(f, Append(s, x)) = Append(Through(f, s), f[x])
        /\ s # <<>> => /\ Through(f, s) # <<>> /\ Head(Through(f, s)) = f[Head(s)]
                       /\ Through(f, Tail(s)) = Tail(Through(f, s))
    <3>1. Follows(f, STicks, TickOps, s)
      BY <1>1, ThroughFacts
    <3>2. QED BY <3>1 DEF Follows
  <2>2. Ops(s) = Through(f, s)
    BY <1>3
  <2>3. \A x \in STicks : Ops(Append(s, x)) = Through(f, Append(s, x))
    BY <1>3, <1>4, Zenon
  <2>4. s # <<>> => Ops(Tail(s)) = Through(f, Tail(s))
    BY <1>3, <1>5, Zenon
  <2>5. QED BY <1>2, <1>5, <2>1, <2>2, <2>3, <2>4
<1>7. /\ Refusals(s) \in Seq(Nat) /\ Len(Refusals(s)) = Len(s)
      /\ \A x \in STicks : Refusals(Append(s, x)) = Append(Refusals(s), g[x])
      /\ s # <<>> => Refusals(s) # <<>> /\ Head(Refusals(s)) = g[Head(s)] /\ Refusals(Tail(s)) = Tail(Refusals(s))
  <2>1. /\ Through(g, s) \in Seq(Nat) /\ Len(Through(g, s)) = Len(s)
        /\ \A x \in STicks : Through(g, Append(s, x)) = Append(Through(g, s), g[x])
        /\ s # <<>> => /\ Through(g, s) # <<>> /\ Head(Through(g, s)) = g[Head(s)]
                       /\ Through(g, Tail(s)) = Tail(Through(g, s))
    <3>1. Follows(g, STicks, Nat, s)
      BY <1>1, ThroughFacts
    <3>2. QED BY <3>1 DEF Follows
  <2>2. Refusals(s) = Through(g, s)
    BY <1>3
  <2>3. \A x \in STicks : Refusals(Append(s, x)) = Through(g, Append(s, x))
    BY <1>3, <1>4, Zenon
  <2>4. s # <<>> => Refusals(Tail(s)) = Through(g, Tail(s))
    BY <1>3, <1>5, Zenon
  <2>5. QED BY <1>2, <1>5, <2>1, <2>2, <2>3, <2>4, Zenon
<1>8. QED BY <1>2, <1>4, <1>5, <1>6, <1>7, Zenon

LEMMA MacrosSeen ==
  ASSUME NEW s \in Seq(SMacros)
  PROVE  /\ Ops(s) \in Seq(MacroOps) /\ Answers(s) \in Seq(Nat) /\ Len(Ops(s)) = Len(s) /\ Len(Answers(s)) = Len(s)
         /\ Dials(s) \in Seq(Nat) /\ Len(Dials(s)) = Len(s)
         /\ \A x \in SMacros : /\ Append(s, x) \in Seq(SMacros) /\ Ops(Append(s, x)) = Append(Ops(s), x.op)
                               /\ Answers(Append(s, x)) = Append(Answers(s), IF x.op = "written" THEN x.id ELSE 0)
                               /\ Dials(Append(s, x)) = Append(Dials(s), IF x.op = "connected" THEN x.h ELSE 0)
         /\ s # <<>> => /\ Head(s) \in SMacros /\ Tail(s) \in Seq(SMacros)
                        /\ Ops(s) # <<>> /\ Head(Ops(s)) = Head(s).op /\ Ops(Tail(s)) = Tail(Ops(s))
                        /\ Answers(s) # <<>> /\ Answers(Tail(s)) = Tail(Answers(s))
                        /\ Head(Answers(s)) = (IF Head(s).op = "written" THEN Head(s).id ELSE 0)
                        /\ Dials(s) # <<>> /\ Dials(Tail(s)) = Tail(Dials(s))
                        /\ Head(Dials(s)) = IF Head(s).op = "connected" THEN Head(s).h ELSE 0
<1> DEFINE f == [x \in SMacros |-> x.op]
           g == [x \in SMacros |-> IF x.op = "written" THEN x.id ELSE 0]
           d == [x \in SMacros |-> IF x.op = "connected" THEN x.h ELSE 0]
<1>1. f \in [SMacros -> MacroOps] /\ g \in [SMacros -> Nat] /\ d \in [SMacros -> Nat]
  BY DEF SMacros
<1>2. \A x \in SMacros : f[x] = x.op /\ g[x] = (IF x.op = "written" THEN x.id ELSE 0) /\ d[x] = IF x.op = "connected" THEN x.h ELSE 0
  OBVIOUS
<1>3. ASSUME NEW t \in Seq(SMacros) PROVE Ops(t) = Through(f, t) /\ Answers(t) = Through(g, t) /\ Dials(t) = Through(d, t)
  <2>1. \A i \in 1..Len(t) : t[i] \in SMacros
    BY ElementOfSeq
  <2>2. \A i \in 1..Len(t) : t[i].op = f[t[i]] /\ (IF t[i].op = "written" THEN t[i].id ELSE 0) = g[t[i]]
                              /\ (IF t[i].op = "connected" THEN t[i].h ELSE 0) = d[t[i]]
    BY <1>2, <2>1
  <2> HIDE DEF f, g, d
  <2>3. QED BY <2>2 DEF Ops, Answers, Dials, Through
<1> HIDE DEF f, g, d
<1>4. \A x \in SMacros : Append(s, x) \in Seq(SMacros)
  BY AppendProperties
<1>5. s # <<>> => Head(s) \in SMacros /\ Tail(s) \in Seq(SMacros)
  BY HeadTailProperties
<1>6. /\ Ops(s) \in Seq(MacroOps) /\ Len(Ops(s)) = Len(s)
      /\ \A x \in SMacros : Ops(Append(s, x)) = Append(Ops(s), x.op)
      /\ s # <<>> => Ops(s) # <<>> /\ Head(Ops(s)) = Head(s).op /\ Ops(Tail(s)) = Tail(Ops(s))
  <2>1. /\ Through(f, s) \in Seq(MacroOps) /\ Len(Through(f, s)) = Len(s)
        /\ \A x \in SMacros : Through(f, Append(s, x)) = Append(Through(f, s), f[x])
        /\ s # <<>> => /\ Through(f, s) # <<>> /\ Head(Through(f, s)) = f[Head(s)]
                       /\ Through(f, Tail(s)) = Tail(Through(f, s))
    <3>1. Follows(f, SMacros, MacroOps, s)
      BY <1>1, ThroughFacts
    <3>2. QED BY <3>1 DEF Follows
  <2>2. Ops(s) = Through(f, s)
    BY <1>3
  <2>3. \A x \in SMacros : Ops(Append(s, x)) = Through(f, Append(s, x))
    BY <1>3, <1>4, Zenon
  <2>4. s # <<>> => Ops(Tail(s)) = Through(f, Tail(s))
    BY <1>3, <1>5, Zenon
  <2>5. QED BY <1>2, <1>5, <2>1, <2>2, <2>3, <2>4
<1>7. /\ Answers(s) \in Seq(Nat) /\ Len(Answers(s)) = Len(s)
      /\ \A x \in SMacros : Answers(Append(s, x)) = Append(Answers(s), g[x])
      /\ s # <<>> => Answers(s) # <<>> /\ Head(Answers(s)) = g[Head(s)] /\ Answers(Tail(s)) = Tail(Answers(s))
  <2>1. /\ Through(g, s) \in Seq(Nat) /\ Len(Through(g, s)) = Len(s)
        /\ \A x \in SMacros : Through(g, Append(s, x)) = Append(Through(g, s), g[x])
        /\ s # <<>> => /\ Through(g, s) # <<>> /\ Head(Through(g, s)) = g[Head(s)]
                       /\ Through(g, Tail(s)) = Tail(Through(g, s))
    <3>1. Follows(g, SMacros, Nat, s)
      BY <1>1, ThroughFacts
    <3>2. QED BY <3>1 DEF Follows
  <2>2. Answers(s) = Through(g, s)
    BY <1>3
  <2>3. \A x \in SMacros : Answers(Append(s, x)) = Through(g, Append(s, x))
    BY <1>3, <1>4, Zenon
  <2>4. s # <<>> => Answers(Tail(s)) = Through(g, Tail(s))
    BY <1>3, <1>5, Zenon
  <2>5. QED BY <1>2, <1>5, <2>1, <2>2, <2>3, <2>4, Zenon
<1>8. /\ Dials(s) \in Seq(Nat) /\ Len(Dials(s)) = Len(s)
      /\ \A x \in SMacros : Dials(Append(s, x)) = Append(Dials(s), d[x])
      /\ s # <<>> => Dials(s) # <<>> /\ Head(Dials(s)) = d[Head(s)] /\ Dials(Tail(s)) = Tail(Dials(s))
  <2>1. /\ Through(d, s) \in Seq(Nat) /\ Len(Through(d, s)) = Len(s)
        /\ \A x \in SMacros : Through(d, Append(s, x)) = Append(Through(d, s), d[x])
        /\ s # <<>> => /\ Through(d, s) # <<>> /\ Head(Through(d, s)) = d[Head(s)]
                       /\ Through(d, Tail(s)) = Tail(Through(d, s))
    <3>1. Follows(d, SMacros, Nat, s)
      BY <1>1, ThroughFacts
    <3>2. QED BY <3>1 DEF Follows
  <2>2. Dials(s) = Through(d, s)
    BY <1>3
  <2>3. \A x \in SMacros : Dials(Append(s, x)) = Through(d, Append(s, x))
    BY <1>3, <1>4, Zenon
  <2>4. s # <<>> => Dials(Tail(s)) = Through(d, Tail(s))
    BY <1>3, <1>5, Zenon
  <2>5. QED BY <1>2, <1>5, <2>1, <2>2, <2>3, <2>4, Zenon
<1>9. QED BY <1>2, <1>4, <1>5, <1>6, <1>7, <1>8, ZenonT(40)

LEMMA NumberPut ==
  ASSUME NEW s \in Seq(Nat), NEW x \in Nat, NEW u, u = Append(s, x)
  PROVE  u \in Seq(Nat) /\ \A e : Has(u, e) <=> Has(s, e) \/ x = e
<1> DEFINE S == Nat
<1>1. s \in Seq(S) /\ x \in S
  OBVIOUS
<1>2. u \in Seq(S)
  BY <1>1, AppendProperties
<1> HIDE DEF S
<1>3. \A e : Has(u, e) <=> Has(s, e) \/ x = e
  BY <1>1, HasAppend
<1>4. QED BY <1>2, <1>3 DEF S

LEMMA STickPut ==
  ASSUME NEW t \in Seq(STicks), NEW x \in STicks, NEW u, u = Append(t, x)
  PROVE  /\ u \in Seq(STicks)
         /\ \A a : Has(Ops(u), a) <=> Has(Ops(t), a) \/ x.op = a
         /\ x.op # "refuse" => \A a : Has(Refusals(u), a) <=> Has(Refusals(t), a) \/ a = 0
<1>1. /\ u \in Seq(STicks) /\ Ops(t) \in Seq(TickOps) /\ Refusals(t) \in Seq(Nat)
      /\ Ops(u) = Append(Ops(t), x.op)
      /\ Refusals(u) = Append(Refusals(t), IF x.op = "refuse" THEN x.id ELSE 0)
  BY TicksSeen
<1>2. x.op \in TickOps /\ x.id \in Nat
  BY DEF STicks
<1>3. \A a : Has(Ops(u), a) <=> Has(Ops(t), a) \/ x.op = a
  BY <1>1, <1>2, HasAppend
<1>4. x.op # "refuse" => \A a : Has(Refusals(u), a) <=> Has(Refusals(t), a) \/ a = 0
  <2>1. ASSUME x.op # "refuse" PROVE \A a : Has(Refusals(u), a) <=> Has(Refusals(t), a) \/ 0 = a
    <3>1. Refusals(u) = Append(Refusals(t), 0)
      BY <1>1, <2>1
    <3>2. QED BY <1>1, <3>1, NumberPut, ZenonT(40)
  <2>2. QED BY <2>1
<1>5. QED BY <1>1, <1>3, <1>4

-----------------------------------------------------------------------------
(* Socket: what steps have in common *)

Adds(t, x, u) ==
  /\ \A a : Has(u, a) <=> Has(t, a) \/ x = a
  /\ \A a : Has(Ops(u), a) <=> Has(Ops(t), a) \/ x.op = a
  /\ \A a : Has(Answers(u), a) <=> Has(Answers(t), a) \/ (IF x.op = "written" THEN x.id ELSE 0) = a
  /\ \A a : Has(Dials(u), a) <=> Has(Dials(t), a) \/ (IF x.op = "connected" THEN x.h ELSE 0) = a
  /\ Tally(Ops(u), "data") = Tally(Ops(t), "data") + (IF x.op = "data" THEN 1 ELSE 0)
  /\ Tally(Ops(t), "data") \in Nat

LEMMA MacroPut ==
  ASSUME NEW t \in Seq(SMacros), NEW x \in SMacros, NEW u, u = Append(t, x)
  PROVE  u \in Seq(SMacros) /\ Adds(t, x, u)
<1>1. /\ u \in Seq(SMacros) /\ Ops(t) \in Seq(MacroOps) /\ Answers(t) \in Seq(Nat) /\ Dials(t) \in Seq(Nat)
      /\ Ops(u) = Append(Ops(t), x.op)
      /\ Answers(u) = Append(Answers(t), IF x.op = "written" THEN x.id ELSE 0)
      /\ Dials(u) = Append(Dials(t), IF x.op = "connected" THEN x.h ELSE 0)
  BY MacrosSeen
<1> DEFINE e == IF x.op = "written" THEN x.id ELSE 0
           d == IF x.op = "connected" THEN x.h ELSE 0
<1>2. x.op \in MacroOps /\ e \in Nat /\ d \in Nat
  BY DEF SMacros
<1>3. Answers(u) = Append(Answers(t), e) /\ Dials(u) = Append(Dials(t), d)
  BY <1>1
<1>4. \A a : Has(u, a) <=> Has(t, a) \/ x = a
  BY HasAppend
<1>5. \A a : Has(Ops(u), a) <=> Has(Ops(t), a) \/ x.op = a
  BY <1>1, <1>2, HasAppend
<1> HIDE DEF e, d
<1>6. \A a : Has(Answers(u), a) <=> Has(Answers(t), a) \/ e = a
  BY <1>1, <1>2, <1>3, NumberPut, Zenon
<1>7. \A a : Has(Dials(u), a) <=> Has(Dials(t), a) \/ d = a
  BY <1>1, <1>2, <1>3, NumberPut, Zenon
<1>8. Tally(Ops(u), "data") = Tally(Ops(t), "data") + (IF x.op = "data" THEN 1 ELSE 0) /\ Tally(Ops(t), "data") \in Nat
  BY <1>1, <1>2, TallyAppend, SpotsFinite
<1>9. QED BY <1>1, <1>4, <1>5, <1>6, <1>7, <1>8 DEF e, d, Adds

\* The fields, and what steps leave alone.
LEMMA SocketFields ==
  ASSUME NEW s \in Sockets
  PROVE  /\ s.handles \in Seq(HandleType) /\ s.ticks \in Seq(STicks) /\ s.macros \in Seq(SMacros)
         /\ s.events \in Seq(SEvents) /\ s.settled \in Seq(Nat \X BOOLEAN) /\ s.buffer \in Seq(Nat)
         /\ s.handle \in Nat /\ s.cur \in Nat /\ s.chunks \in Nat /\ s.got \in Nat /\ s.current \in Nat
         /\ s.connecting \in BOOLEAN /\ s.destroyed \in BOOLEAN /\ s.looking \in BOOLEAN /\ s.attempt \in BOOLEAN
         /\ s.waits \in BOOLEAN /\ s.ending \in BOOLEAN /\ s.finalWaits \in BOOLEAN /\ s.finished \in BOOLEAN
         /\ s.ended \in BOOLEAN /\ s.endEmitted \in BOOLEAN /\ s.again \in BOOLEAN
         /\ s.final \in {"no", "called", "done"} /\ s.conf \in SocketConfType
         /\ Len(s.handles) \in Nat /\ Len(s.events) \in Nat
         /\ Tally(Ops(s.macros), "data") \in Nat
<1>1. /\ s.handles \in Seq(HandleType) /\ s.macros \in Seq(SMacros) /\ s.events \in Seq(SEvents)
  BY DEF Sockets
<1>2. Len(s.handles) \in Nat /\ Len(s.events) \in Nat
  BY <1>1, LenProperties
<1>3. Tally(Ops(s.macros), "data") \in Nat
  BY <1>1, MacrosSeen, SpotsFinite
<1>4. QED BY <1>2, <1>3 DEF Sockets

LEMMA NewestFields ==
  ASSUME NEW s \in Sockets, HandlesOK(s)
  PROVE  /\ Newest(s) \in HandleType /\ Newest(s).queue \in Seq(Nat) /\ Newest(s).wire \in Seq(Nat)
         /\ Newest(s).in \in Nat /\ Newest(s).over \in BOOLEAN /\ Newest(s).reading \in BOOLEAN
         /\ Len(s.handles) \in 1..Len(s.handles) /\ Len(s.handles) \in Nat \ {0}
         /\ \A h \in 1..Len(s.handles) : s.handles[h] \in HandleType
<1>1. s.handles \in Seq(HandleType) /\ Len(s.handles) \in Nat
  BY SocketFields
<1>2. Len(s.handles) \in 1..Len(s.handles) /\ Len(s.handles) \in Nat \ {0}
  BY <1>1 DEF HandlesOK
<1>3. \A h \in 1..Len(s.handles) : s.handles[h] \in HandleType
  BY <1>1, ElementOfSeq
<1>4. Newest(s) \in HandleType
  BY <1>2, <1>3 DEF Newest
<1>5. QED BY <1>2, <1>3, <1>4 DEF HandleType

SameStage(s, y) ==
  /\ y.connecting = s.connecting /\ y.destroyed = s.destroyed /\ y.handle = s.handle
  /\ y.looking = s.looking /\ y.attempt = s.attempt

SameState(s, y) ==
  /\ y.connecting = s.connecting /\ y.destroyed = s.destroyed /\ y.handle = s.handle
  /\ y.looking = s.looking /\ y.attempt = s.attempt /\ y.errored = s.errored

SameWrites(s, y) ==
  /\ y.cur = s.cur /\ y.waits = s.waits /\ y.buffer = s.buffer /\ y.ending = s.ending
  /\ y.final = s.final /\ y.finalWaits = s.finalWaits /\ y.again = s.again

SameReads(s, y) ==
  /\ y.finished = s.finished /\ y.chunks = s.chunks /\ y.ended = s.ended /\ y.endEmitted = s.endEmitted
  /\ y.got = s.got

SameQueues(s, y) ==
  y.ticks = s.ticks /\ y.macros = s.macros /\ y.events = s.events /\ y.settled = s.settled

\* What nobody looks at changes.
LEMMA SocketAlike ==
  ASSUME NEW s, NEW n, SocketOK(s, n), NEW y \in Sockets, y.handles = s.handles,
         SameStage(s, y), SameWrites(s, y), SameReads(s, y), SameQueues(s, y)
  PROVE  SocketOK(y, n)
<1>0. Newest(y) = Newest(s)
  BY DEF Newest
<1>1. HandlesOK(y) /\ ReportOK(y) /\ ConnectOK(y)
  BY <1>0 DEF SocketOK, HandlesOK, ReportOK, Reported, ConnectOK, SameStage, SameQueues
<1>2. UntouchedOK(y) /\ SaidOK(y)
  BY <1>0 DEF SocketOK, UntouchedOK, Untouched, SaidOK, SameStage, SameWrites, SameReads, SameQueues
<1>3. ComesOnce(y)
  BY DEF SocketOK, ComesOnce, SameQueues
<1>4. IdsOK(y, n)
  BY DEF SocketOK, IdsOK, Unknown, SameWrites, SameQueues
<1>5. PendingOK(y) /\ WireOK(y, n)
  BY <1>0 DEF SocketOK, PendingOK, Idle, WireOK, Sent, SameStage, SameWrites, SameQueues
<1>6. FinOK(y) /\ ReadOK(y)
  BY <1>0 DEF SocketOK, FinOK, ReadOK, SameStage, SameReads, SameQueues
<1>7. QED BY <1>1, <1>2, <1>3, <1>4, <1>5, <1>6 DEF SocketOK

\* A tick is put.
PutIs(s, x, y) ==
  /\ y \in Sockets /\ y.ticks = Append(s.ticks, x)
  /\ y.macros = s.macros /\ y.events = s.events /\ y.settled = s.settled /\ y.handles = s.handles
  /\ SameState(s, y) /\ SameWrites(s, y) /\ SameReads(s, y) /\ y.conf = s.conf

LEMMA PutFields ==
  ASSUME NEW s \in Sockets, NEW x \in STicks, NEW y, y = [s EXCEPT !.ticks = Append(s.ticks, x)]
  PROVE  PutIs(s, x, y)
<1> DEFINE t == Append(s.ticks, x)
<1>1. t \in Seq(STicks) /\ y = [s EXCEPT !.ticks = t]
  BY SocketFields, AppendProperties
<1> HIDE DEF t
<1>2. y \in Sockets /\ y.ticks = t /\ y.conf = s.conf
  <2>1. y \in Sockets
    BY <1>1, ZenonT(40) DEF Sockets
  <2>2. y.ticks = t /\ y.conf = s.conf
    BY <1>1 DEF Sockets
  <2>3. QED BY <2>1, <2>2
<1>3. y.macros = s.macros /\ y.events = s.events /\ y.settled = s.settled /\ y.handles = s.handles
  BY <1>1 DEF Sockets
<1>4. SameState(s, y) /\ SameWrites(s, y) /\ SameReads(s, y)
  BY <1>1 DEF Sockets, SameState, SameWrites, SameReads
<1>5. QED BY <1>2, <1>3, <1>4 DEF PutIs, t

TickOK(s, op) ==
  /\ op \in TickOps \ {"refuse"}
  /\ op = "error" =>
       /\ s.destroyed /\ ~Has(Ops(s.ticks), "error") /\ ~Has(s.events, "error") /\ ~Has(s.events, "close")
       /\ ~Has(Ops(s.ticks), "close")
  /\ op = "close" =>
       /\ s.destroyed /\ ~Has(s.events, "connect") /\ ~Has(Ops(s.ticks), "close")
       /\ ~Has(Ops(s.macros), "closed") /\ ~Has(s.events, "close")
  /\ op = "finish" =>
       /\ Has(s.events, "connect") /\ s.final = "done" /\ Has(Newest(s).wire, Fin)
       /\ ~Has(Ops(s.ticks), "finish") /\ ~Has(s.events, "finish") /\ ~Has(s.events, "close")
  /\ op = "endReadable" => s.ended /\ ~Has(s.events, "close")
  /\ op = "endWritable" => Has(s.events, "connect")
  /\ op = "resume" => ~Has(s.events, "close") /\ ~Has(Ops(s.ticks), "close")

STickOf(op) == [op |-> op, id |-> 0]
LEMMA PutSTick ==
  ASSUME NEW s, NEW n \in Nat, SocketOK(s, n), NEW op, TickOK(s, op)
  PROVE  SocketOK(STick(s, op), n) /\ PutIs(s, STickOf(op), STick(s, op))
<1> DEFINE y == STick(s, op)
           x == STickOf(op)
<1>1. s \in Sockets /\ x \in STicks /\ x.op = op /\ op # "refuse" /\ op \in TickOps
  BY DEF SocketOK, TickOK, STickOf, STicks
<1>2. PutIs(s, x, y)
  BY <1>1, PutFields DEF STick, STickOf
<1> HIDE DEF y, x
<1>3. /\ y \in Sockets /\ y.ticks = Append(s.ticks, x)
      /\ y.macros = s.macros /\ y.events = s.events /\ y.settled = s.settled /\ y.handles = s.handles
      /\ SameState(s, y) /\ SameWrites(s, y) /\ SameReads(s, y) /\ Newest(y) = Newest(s)
  BY <1>2 DEF PutIs, Newest
<1>4. /\ s.ticks \in Seq(STicks) /\ Ops(s.ticks) \in Seq(TickOps) /\ Refusals(s.ticks) \in Seq(Nat)
      /\ Ops(y.ticks) = Append(Ops(s.ticks), op) /\ Refusals(y.ticks) = Append(Refusals(s.ticks), 0)
  BY <1>1, <1>3, SocketFields, TicksSeen, ZenonT(40)
<1>5. \A a : Has(Ops(y.ticks), a) <=> Has(Ops(s.ticks), a) \/ op = a
  BY <1>1, <1>4, HasAppend
<1>6. \A a : Has(Refusals(y.ticks), a) <=> Has(Refusals(s.ticks), a) \/ 0 = a
  BY <1>4, NumberPut, Zenon
<1>7. HandlesOK(y) /\ ReportOK(y) /\ ConnectOK(y) /\ FinOK(y) /\ ReadOK(y)
  BY <1>3, SMTT(20) DEF SocketOK, HandlesOK, ReportOK, Reported, ConnectOK, FinOK, ReadOK, SameState, SameReads
<1>8. PendingOK(y) /\ WireOK(y, n)
  BY <1>3 DEF SocketOK, PendingOK, Idle, WireOK, Sent, SameState, SameWrites
<1>9. UntouchedOK(y)
  BY <1>3, <1>5 DEF SocketOK, TickOK, UntouchedOK, Untouched, SameWrites, SameReads
<1>10. SaidOK(y)
  BY <1>3, <1>5 DEF SocketOK, TickOK, SaidOK, SameState, SameWrites, SameReads
<1>11. ComesOnce(y)
  <2>1. ComesOnce(s)
    BY DEF SocketOK
  <2>2. /\ OnceIn(Ops(y.ticks), "error", y.events, "error") /\ OnceIn(Ops(y.ticks), "finish", y.events, "finish")
        /\ OnceIn(Ops(y.ticks), "close", y.events, "close")
    BY <1>1, <1>3, <1>4, <2>1, OncePut DEF ComesOnce, TickOK
  <2>3. Ordered(Ops(y.ticks), {"error", "resume"}, {"close"})
    <3>1. op \in {"error", "resume"} => \A i \in 1..Len(Ops(s.ticks)) : Ops(s.ticks)[i] \notin {"close"}
      BY DEF TickOK, Has
    <3>2. QED BY <1>1, <1>4, <2>1, <3>1, OrderedAppend, Zenon DEF ComesOnce
  <2>4. ~(Has(Ops(y.macros), "closed") /\ Has(Ops(y.ticks), "close"))
    BY <1>3, <1>5, <2>1 DEF ComesOnce, TickOK
  <2>5. QED BY <1>3, <2>1, <2>2, <2>3, <2>4 DEF ComesOnce
<1>12. IdsOK(y, n)
  <2>1. IdsOK(s, n)
    BY DEF SocketOK
  <2>2. \A a \in Nat \ {0} : OnceIn(Refusals(y.ticks), a, Called(y.settled), a)
    <3> SUFFICES ASSUME NEW a \in Nat \ {0} PROVE OnceIn(Refusals(y.ticks), a, Called(y.settled), a)
      OBVIOUS
    <3>1. OnceIn(Refusals(s.ticks), a, Called(s.settled), a) /\ 0 # a
      BY <2>1 DEF IdsOK
    <3>2. QED BY <1>3, <1>4, <3>1, OncePut, Zenon
  <2>3. QED BY <1>3, <1>6, <2>1, <2>2 DEF IdsOK, Unknown, SameWrites
<1>13. SocketOK(y, n)
  BY <1>3, <1>7, <1>8, <1>9, <1>10, <1>11, <1>12 DEF SocketOK
<1>14. QED BY <1>2, <1>13 DEF y, x

\* A write is refused: a number that is nowhere else.
LEMMA PutRefusal ==
  ASSUME NEW s, NEW n \in Nat, SocketOK(s, n), NEW a \in Nat \ {0}, a <= n, Unknown(s, a), a # s.cur, ~Has(s.buffer, a),
         NEW y, y = [s EXCEPT !.ticks = Append(s.ticks, [op |-> "refuse", id |-> a])]
  PROVE  SocketOK(y, n)
<1> DEFINE x == [op |-> "refuse", id |-> a]
<1>1. s \in Sockets /\ x \in STicks /\ x.op = "refuse" /\ x.id = a /\ "refuse" \in TickOps
  BY DEF SocketOK, STicks, TickOps
<1>2. PutIs(s, x, y)
  BY <1>1, PutFields
<1> HIDE DEF x
<1>3. /\ y \in Sockets /\ y.ticks = Append(s.ticks, x)
      /\ y.macros = s.macros /\ y.events = s.events /\ y.settled = s.settled /\ y.handles = s.handles
      /\ SameState(s, y) /\ SameWrites(s, y) /\ SameReads(s, y) /\ Newest(y) = Newest(s)
  BY <1>2 DEF PutIs, Newest
<1>4. /\ s.ticks \in Seq(STicks) /\ Ops(s.ticks) \in Seq(TickOps) /\ Refusals(s.ticks) \in Seq(Nat)
      /\ Ops(y.ticks) = Append(Ops(s.ticks), "refuse") /\ Refusals(y.ticks) = Append(Refusals(s.ticks), a)
  <2>1. s.ticks \in Seq(STicks)
    BY <1>1, SocketFields
  <2>2. /\ Ops(s.ticks) \in Seq(TickOps) /\ Refusals(s.ticks) \in Seq(Nat)
        /\ Ops(y.ticks) = Append(Ops(s.ticks), x.op)
        /\ Refusals(y.ticks) = Append(Refusals(s.ticks), IF x.op = "refuse" THEN x.id ELSE 0)
    BY <1>1, <1>3, <2>1, TicksSeen, Zenon
  <2>3. QED BY <1>1, <2>1, <2>2, Zenon
<1>5. \A e : Has(Ops(y.ticks), e) <=> Has(Ops(s.ticks), e) \/ "refuse" = e
  <2>1. \A e : Has(Ops(y.ticks), e) <=> Has(Ops(s.ticks), e) \/ x.op = e
    BY <1>1, <1>3, <1>4, STickPut, Zenon
  <2>2. QED BY <1>1, <2>1
<1>6. \A e : Has(Refusals(y.ticks), e) <=> Has(Refusals(s.ticks), e) \/ a = e
  BY <1>4, NumberPut, Zenon
<1>7. HandlesOK(y) /\ ReportOK(y) /\ ConnectOK(y) /\ FinOK(y) /\ ReadOK(y)
  <2>1. HandlesOK(y) /\ ReportOK(y)
    BY <1>3 DEF SocketOK, HandlesOK, ReportOK, Reported, SameState
  <2>2. ConnectOK(y)
    BY <1>3 DEF SocketOK, ConnectOK, SameState
  <2>3. FinOK(y) /\ ReadOK(y)
    BY <1>3 DEF SocketOK, FinOK, ReadOK, SameState, SameReads
  <2>4. QED BY <2>1, <2>2, <2>3
<1>8. PendingOK(y) /\ WireOK(y, n)
  BY <1>3, Zenon DEF SocketOK, PendingOK, Idle, WireOK, Sent, SameState, SameWrites
<1>9. UntouchedOK(y) /\ SaidOK(y)
  BY <1>3, <1>5, Zenon DEF SocketOK, UntouchedOK, Untouched, SaidOK, SameState, SameWrites, SameReads
<1>10. ComesOnce(y)
  <2>1. ComesOnce(s)
    BY DEF SocketOK
  <2>2. /\ OnceIn(Ops(y.ticks), "error", y.events, "error") /\ OnceIn(Ops(y.ticks), "finish", y.events, "finish")
        /\ OnceIn(Ops(y.ticks), "close", y.events, "close")
    BY <1>1, <1>3, <1>4, <2>1, OncePut, ZenonT(40) DEF ComesOnce
  <2>3. Ordered(Ops(y.ticks), {"error", "resume"}, {"close"})
    BY <1>1, <1>4, <2>1, OrderedAppend, Zenon DEF ComesOnce
  <2>4. QED BY <1>3, <1>5, <2>1, <2>2, <2>3 DEF ComesOnce
<1>11. IdsOK(y, n)
  <2>1. IdsOK(s, n)
    BY DEF SocketOK
  <2>2. \A b \in Nat \ {0} : OnceIn(Refusals(y.ticks), b, Called(y.settled), b)
    <3> SUFFICES ASSUME NEW b \in Nat \ {0} PROVE OnceIn(Refusals(y.ticks), b, Called(y.settled), b)
      OBVIOUS
    <3>1. OnceIn(Refusals(s.ticks), b, Called(s.settled), b)
      BY <2>1 DEF IdsOK
    <3>2. QED BY <1>3, <1>4, <3>1, OncePut, Zenon DEF Unknown
  <2>3. QED BY <1>3, <1>6, <2>1, <2>2 DEF IdsOK, Unknown, SameWrites
<1>12. QED BY <1>3, <1>7, <1>8, <1>9, <1>10, <1>11 DEF SocketOK

\* An event is emitted.
LogIs(s, e, y) ==
  /\ y \in Sockets /\ y.events = Append(s.events, e)
  /\ y.ticks = s.ticks /\ y.macros = s.macros /\ y.settled = s.settled /\ y.handles = s.handles
  /\ SameState(s, y) /\ SameWrites(s, y) /\ SameReads(s, y) /\ y.conf = s.conf

Emitted(s, e) == [s EXCEPT !.events = Append(s.events, e)]
LEMMA LogFields == ASSUME NEW s \in Sockets, NEW e \in SEvents PROVE LogIs(s, e, Emitted(s, e))
<1> DEFINE t == Append(s.events, e)
           y == Emitted(s, e)
<1>1. t \in Seq(SEvents) /\ y = [s EXCEPT !.events = t]
  BY SocketFields, AppendProperties DEF Emitted
<1> HIDE DEF t, y
<1>2. y \in Sockets /\ y.events = t /\ y.conf = s.conf
  BY <1>1, ZenonT(40) DEF Sockets
<1>3. y.ticks = s.ticks /\ y.macros = s.macros /\ y.settled = s.settled /\ y.handles = s.handles
  BY <1>1 DEF Sockets
<1>4. SameState(s, y) /\ SameWrites(s, y) /\ SameReads(s, y)
  BY <1>1 DEF Sockets, SameState, SameWrites, SameReads
<1>5. LogIs(s, e, y)
  BY <1>2, <1>3, <1>4 DEF LogIs, t
<1>6. QED BY <1>5 DEF y

EmitOK(s, e) ==
  /\ e \in SEvents \ {"connect"}
  /\ e # "lookup" => ~Has(s.events, "close")
  /\ e = "error" => s.destroyed /\ ~Has(Ops(s.ticks), "error") /\ ~Has(s.events, "error")
  /\ e = "end" => s.ended /\ s.endEmitted /\ s.chunks = 0 /\ ~Has(s.events, "end")
  /\ e = "finish" => /\ s.final = "done" /\ Has(Newest(s).wire, Fin)
                     /\ ~Has(Ops(s.ticks), "finish") /\ ~Has(s.events, "finish")
  /\ e = "close" => /\ s.destroyed /\ ~Has(Ops(s.ticks), "close") /\ ~Has(Ops(s.macros), "closed")
                    /\ ~Has(Ops(s.ticks), "error") /\ ~Has(Ops(s.ticks), "finish")
                    /\ ~Has(Ops(s.ticks), "endReadable") /\ ~Has(Ops(s.ticks), "resume")

LEMMA CloseLastPut ==
  ASSUME NEW t \in Seq(SEvents), NEW e \in SEvents, CloseLast(t), e # "lookup" => ~Has(t, "close")
  PROVE  CloseLast(Append(t, e))
<1> SUFFICES ASSUME NEW x \in SEvents \ {"lookup"} PROVE NoLater(Append(t, e), "close", x)
  BY DEF CloseLast
<1>1. NoLater(t, "close", x) /\ (e = x => ~Has(t, "close"))
  BY DEF CloseLast
<1>2. QED BY <1>1, NoLaterAppend

LEMMA PutEmit ==
  ASSUME NEW s, NEW n \in Nat, SocketOK(s, n), NEW e, EmitOK(s, e)
  PROVE  SocketOK(Emitted(s, e), n) /\ LogIs(s, e, Emitted(s, e))
<1> DEFINE y == Emitted(s, e)
<1>1. s \in Sockets /\ e \in SEvents /\ e # "connect"
  BY DEF SocketOK, EmitOK
<1>2. LogIs(s, e, y)
  BY <1>1, LogFields
<1> HIDE DEF y
<1>3. /\ y \in Sockets /\ y.events = Append(s.events, e)
      /\ y.ticks = s.ticks /\ y.macros = s.macros /\ y.settled = s.settled /\ y.handles = s.handles
      /\ SameState(s, y) /\ SameWrites(s, y) /\ SameReads(s, y) /\ Newest(y) = Newest(s)
  BY <1>2 DEF LogIs, Newest
<1>4. s.events \in Seq(SEvents)
  BY <1>1, SocketFields
<1>5. \A a : Has(y.events, a) <=> Has(s.events, a) \/ e = a
  BY <1>1, <1>3, <1>4, HasAppend
<1>6. HandlesOK(y) /\ ReportOK(y)
  BY <1>3 DEF SocketOK, HandlesOK, ReportOK, Reported, SameState
<1>7. ConnectOK(y)
  BY <1>1, <1>3, <1>5 DEF SocketOK, ConnectOK, SameState
<1>8. UntouchedOK(y)
  BY <1>1, <1>3, <1>5 DEF SocketOK, UntouchedOK, Untouched, SameWrites, SameReads
<1>9. SaidOK(y)
  BY <1>1, <1>3, <1>5 DEF SocketOK, EmitOK, SaidOK, SameState, SameWrites, SameReads
<1>10. ComesOnce(y)
  <2>1. ComesOnce(s)
    BY DEF SocketOK
  <2>2. Single(y.events, "connect") /\ Single(y.events, "end")
    BY <1>1, <1>3, <1>4, <2>1, SingleAppend DEF ComesOnce, EmitOK
  <2>3. OnceIn(Ops(y.ticks), "error", y.events, "error") /\ OnceIn(Ops(y.ticks), "finish", y.events, "finish")
    BY <1>1, <1>3, <1>4, <2>1, OnceLog DEF ComesOnce, EmitOK
  <2>4. OnceIn(Ops(y.ticks), "close", y.events, "close") /\ OnceIn(Ops(y.macros), "closed", y.events, "close")
    BY <1>1, <1>3, <1>4, <2>1, OnceLog DEF ComesOnce, EmitOK
  <2>5. CloseLast(y.events)
    BY <1>1, <1>3, <1>4, <2>1, CloseLastPut DEF ComesOnce, EmitOK
  <2>6. QED BY <1>3, <2>1, <2>2, <2>3, <2>4, <2>5 DEF ComesOnce
<1>11. IdsOK(y, n) /\ PendingOK(y) /\ WireOK(y, n) /\ FinOK(y)
  <2>1. IdsOK(y, n)
    BY <1>3 DEF SocketOK, IdsOK, Unknown, SameWrites
  <2>2. PendingOK(y) /\ WireOK(y, n)
    BY <1>3 DEF SocketOK, PendingOK, Idle, WireOK, Sent, SameState, SameWrites
  <2>3. FinOK(y)
    BY <1>3 DEF SocketOK, FinOK
  <2>4. QED BY <2>1, <2>2, <2>3
<1>12. ReadOK(y)
  BY <1>1, <1>3, <1>5 DEF SocketOK, ReadOK, EmitOK, SameState, SameReads
<1>13. SocketOK(y, n)
  BY <1>3, <1>6, <1>7, <1>8, <1>9, <1>10, <1>11, <1>12 DEF SocketOK
<1>14. QED BY <1>2, <1>13 DEF y

-----------------------------------------------------------------------------
(* Socket: the newest handle *)

\* The newest handle changes.
NewestTo(s, x, y) == y.handles = [s.handles EXCEPT ![Len(s.handles)] = x]
LEMMA NewestChanges ==
  ASSUME NEW s \in Sockets, HandlesOK(s), NEW x \in HandleType, NEW y, NewestTo(s, x, y)
  PROVE  /\ y.handles \in Seq(HandleType) /\ Len(y.handles) = Len(s.handles) /\ Newest(y) = x
         /\ \A h \in 1..Len(s.handles) : h # Len(s.handles) => y.handles[h] = s.handles[h]
<1> DEFINE n == Len(s.handles)
<1>1. s.handles \in Seq(HandleType) /\ n \in 1..n
  BY SocketFields, NewestFields
<1>2. y.handles \in Seq(HandleType) /\ Len(y.handles) = n
  BY <1>1, ExceptSeq DEF NewestTo
<1>3. y.handles[n] = x /\ \A h \in 1..n : h # n => y.handles[h] = s.handles[h]
  <2>1. DOMAIN s.handles = 1..n
    BY <1>1, LenProperties
  <2>2. QED BY <1>1, <2>1 DEF NewestTo
<1>4. QED BY <1>2, <1>3 DEF Newest

Shut(x) == [x EXCEPT !.closed = TRUE]
LEMMA ShutHandle ==
  ASSUME NEW x \in HandleType
  PROVE  /\ Shut(x) \in HandleType /\ Shut(x).closed /\ Shut(x).queue = x.queue /\ Shut(x).wire = x.wire
         /\ Shut(x).in = x.in /\ Shut(x).over = x.over /\ Shut(x).reading = x.reading /\ Shut(x).st = x.st
BY Zenon DEF HandleType, Shut

\* The socket's handle is closed for good.
ClosedMacro(h) == [op |-> "closed", h |-> h, id |-> 0, ok |-> TRUE]
ShutIs(s, y) ==
  /\ y \in Sockets /\ NewestTo(s, Shut(Newest(s)), y)
  /\ y.destroyed /\ ~y.connecting /\ ~y.attempt /\ y.handle = 0 /\ y.looking = s.looking
  /\ y.macros = Append(s.macros, ClosedMacro(s.handle))
  /\ y.ticks = s.ticks /\ y.events = s.events /\ y.settled = s.settled
  /\ SameWrites(s, y) /\ SameReads(s, y) /\ y.conf = s.conf

LEMMA ShutKeeps ==
  ASSUME NEW s, NEW n \in Nat, SocketOK(s, n), ~s.destroyed, NEW y, ShutIs(s, y)
  PROVE  SocketOK(y, n)
<1>1. /\ s \in Sockets /\ y \in Sockets /\ HandlesOK(s) /\ NewestTo(s, Shut(Newest(s)), y)
      /\ y.ticks = s.ticks /\ y.events = s.events /\ y.settled = s.settled
      /\ SameWrites(s, y) /\ SameReads(s, y)
      /\ y.destroyed /\ ~y.connecting /\ ~y.attempt /\ y.handle = 0 /\ y.looking = s.looking
  BY DEF SocketOK, ShutIs
<1>2. /\ Newest(s) \in HandleType /\ Len(s.handles) \in 1..Len(s.handles) /\ Len(s.handles) \in Nat \ {0}
      /\ s.handle = Len(s.handles)
  BY <1>1, NewestFields DEF HandlesOK
<1>3. /\ Newest(y) = Shut(Newest(s)) /\ Len(y.handles) = Len(s.handles)
      /\ \A h \in 1..Len(s.handles) : h # Len(s.handles) => y.handles[h] = s.handles[h]
  BY <1>1, <1>2, ShutHandle, NewestChanges
<1>4. /\ Newest(y).closed /\ Newest(y).queue = Newest(s).queue /\ Newest(y).wire = Newest(s).wire
      /\ Newest(y).in = Newest(s).in /\ Newest(y).over = Newest(s).over /\ Newest(y).reading = Newest(s).reading
      /\ Newest(y).st = Newest(s).st
  BY <1>2, <1>3, ShutHandle
<1> DEFINE m == ClosedMacro(s.handle)
<1>5. m \in SMacros /\ m.op = "closed" /\ m.h = s.handle /\ m.h = Len(s.handles)
  BY <1>2 DEF ClosedMacro, SMacros, MacroOps
<1>6. y.macros = Append(s.macros, m) /\ s.macros \in Seq(SMacros)
  BY <1>1, SocketFields DEF ShutIs
<1> HIDE DEF m
<1>7. /\ \A a : Has(y.macros, a) <=> Has(s.macros, a) \/ m = a
      /\ \A a : Has(Ops(y.macros), a) <=> Has(Ops(s.macros), a) \/ "closed" = a
      /\ \A a : Has(Answers(y.macros), a) <=> Has(Answers(s.macros), a) \/ 0 = a
      /\ \A a : Has(Dials(y.macros), a) <=> Has(Dials(s.macros), a) \/ 0 = a
  <2>1. /\ \A a : Has(y.macros, a) <=> Has(s.macros, a) \/ m = a
        /\ \A a : Has(Ops(y.macros), a) <=> Has(Ops(s.macros), a) \/ m.op = a
        /\ \A a : Has(Answers(y.macros), a) <=> Has(Answers(s.macros), a) \/ (IF m.op = "written" THEN m.id ELSE 0) = a
        /\ \A a : Has(Dials(y.macros), a) <=> Has(Dials(s.macros), a) \/ (IF m.op = "connected" THEN m.h ELSE 0) = a
    <3>1. Adds(s.macros, m, y.macros)
      BY <1>5, <1>6, MacroPut, Zenon
    <3>2. QED BY <3>1 DEF Adds
  <2>2. QED BY <1>5, <2>1
<1>8. /\ Ops(s.macros) \in Seq(MacroOps) /\ Answers(s.macros) \in Seq(Nat) /\ Dials(s.macros) \in Seq(Nat)
      /\ Ops(y.macros) = Append(Ops(s.macros), "closed") /\ Answers(y.macros) = Append(Answers(s.macros), 0)
      /\ Dials(y.macros) = Append(Dials(s.macros), 0) /\ "closed" \in MacroOps
  <2>1. /\ Ops(y.macros) = Append(Ops(s.macros), m.op)
        /\ Answers(y.macros) = Append(Answers(s.macros), IF m.op = "written" THEN m.id ELSE 0)
        /\ Dials(y.macros) = Append(Dials(s.macros), IF m.op = "connected" THEN m.h ELSE 0)
        /\ Ops(s.macros) \in Seq(MacroOps) /\ Answers(s.macros) \in Seq(Nat) /\ Dials(s.macros) \in Seq(Nat)
    BY <1>5, <1>6, MacrosSeen
  <2>2. QED BY <1>5, <2>1 DEF MacroOps
<1>9. HandlesOK(y)
  <2>1. \A h \in 1..Len(s.handles) : h # Len(s.handles) => s.handles[h].closed /\ Blank(s.handles[h])
    BY <1>1, <1>2 DEF HandlesOK
  <2>2. \A h \in 1..Len(y.handles) : y.handles[h].closed
    BY <1>3, <1>4, <2>1 DEF Newest
  <2>3. QED BY <1>1, <1>2, <1>3, <2>1, <2>2 DEF HandlesOK
<1>10. ReportOK(y)
  <2>1. ReportOK(s)
    BY DEF SocketOK
  <2>2. \A a \in Nat \ {0} : Single(Dials(y.macros), a)
    <3> SUFFICES ASSUME NEW a \in Nat \ {0} PROVE Single(Dials(y.macros), a)
      OBVIOUS
    <3>1. Single(Dials(s.macros), a) /\ 0 # a
      BY <2>1 DEF ReportOK
    <3>2. QED BY <1>8, <3>1, SingleAppend, ZenonT(40)
  <2>3. QED BY <1>1, <1>2, <1>3, <1>5, <1>7, <2>1, <2>2 DEF ReportOK, Reported
<1>11. ConnectOK(y)
  BY <1>1, <1>3, <1>4 DEF SocketOK, ConnectOK
<1>12. UntouchedOK(y)
  BY <1>1, <1>4, <1>7 DEF SocketOK, UntouchedOK, Untouched, Blank, SameWrites, SameReads
<1>13. ~Has(Ops(s.ticks), "close") /\ ~Has(Ops(s.macros), "closed") /\ ~Has(s.events, "close")
  BY DEF SocketOK, SaidOK
<1>14. SaidOK(y)
  BY <1>1, <1>4, <1>7, <1>13 DEF SocketOK, SaidOK, SameWrites, SameReads
<1>15. ComesOnce(y)
  <2>1. ComesOnce(s)
    BY DEF SocketOK
  <2>2. OnceIn(Ops(y.macros), "closed", y.events, "close")
    BY <1>1, <1>8, <1>13, <2>1, OncePut DEF ComesOnce
  <2>3. QED BY <1>1, <1>13, <2>1, <2>2 DEF ComesOnce
<1>16. IdsOK(y, n)
  BY <1>1 DEF SocketOK, IdsOK, Unknown, SameWrites
<1>17. PendingOK(y)
  <2>1. PendingOK(s)
    BY DEF SocketOK
  <2>2. s.cur # 0 => OnceIn(Newest(s).queue, s.cur, Answers(y.macros), s.cur)
    <3> SUFFICES ASSUME s.cur # 0 PROVE OnceIn(Newest(s).queue, s.cur, Answers(y.macros), s.cur)
      OBVIOUS
    <3>1. OnceIn(Newest(s).queue, s.cur, Answers(s.macros), s.cur) /\ 0 # s.cur
      BY <2>1 DEF PendingOK
    <3>2. QED BY <1>8, <3>1, OnceLog
  <2>3. QED BY <1>1, <1>4, <1>7, <2>1, <2>2 DEF PendingOK, Idle, SameWrites, Fin
<1>18. WireOK(y, n)
  BY <1>1, <1>4 DEF SocketOK, WireOK, Sent, SameWrites
<1>19. FinOK(y)
  BY <1>4, <1>5, <1>7 DEF SocketOK, FinOK
<1>20. ReadOK(y)
  <2>1. Ordered(Ops(y.macros), {"data"}, {"eof"})
    BY <1>8, OrderedAppend DEF SocketOK, ReadOK
  <2>2. QED BY <1>1, <1>4, <1>7, <2>1 DEF SocketOK, ReadOK, SameReads
<1>21. QED BY <1>1, <1>9, <1>10, <1>11, <1>12, <1>14, <1>15, <1>16, <1>17, <1>18, <1>19, <1>20 DEF SocketOK

-----------------------------------------------------------------------------
(* Socket: destroy() *)

\* destroy()
Failing(s) == IF s.buffer # <<>> THEN STick(s, "errorBuffer") ELSE s
Doomed(f, err) == [f EXCEPT !.destroyed = TRUE, !.errored = @ \/ err, !.connecting = FALSE, !.attempt = FALSE]
LEMMA ClosesIs ==
  ASSUME NEW f \in Sockets, HandlesOK(f), ~f.destroyed, NEW err \in BOOLEAN
  PROVE  ShutIs(f, CloseHandle([Doomed(f, err) EXCEPT !.handle = 0], f.handle, TRUE))
<1> DEFINE x == Newest(f)
           hs1 == [f.handles EXCEPT ![Len(f.handles)] = Shut(x)]
           m == ClosedMacro(f.handle)
           ms == Append(f.macros, m)
           a == [Doomed(f, err) EXCEPT !.handle = 0]
           y == CloseHandle(a, f.handle, TRUE)
<1>1. /\ x \in HandleType /\ Len(f.handles) \in 1..Len(f.handles) /\ f.handle = Len(f.handles)
      /\ Shut(x) \in HandleType /\ f.handle \in Nat
  BY NewestFields, ShutHandle, SocketFields DEF HandlesOK
<1>2. hs1 \in Seq(HandleType)
  BY <1>1, ExceptSeq, SocketFields
<1>3. m \in SMacros /\ ms \in Seq(SMacros)
  <2>1. m \in SMacros
    BY <1>1 DEF ClosedMacro, SMacros, MacroOps
  <2>2. QED BY <2>1, SocketFields, AppendProperties
<1>4. (f.errored \/ err) \in BOOLEAN
  OBVIOUS
<1>5. a = [f EXCEPT !.destroyed = TRUE, !.errored = f.errored \/ err, !.connecting = FALSE, !.attempt = FALSE, !.handle = 0]
  BY DEF Doomed
<1>6. a.handles = f.handles /\ a.macros = f.macros /\ a \in Sockets
  BY <1>4, <1>5, ZenonT(40) DEF Sockets
<1>7. y = [a EXCEPT !.handles = hs1, !.macros = ms]
  <2>1. hs1 = [a.handles EXCEPT ![f.handle] = [a.handles[f.handle] EXCEPT !.closed = TRUE]]
    BY <1>1, <1>6, Zenon DEF Newest, Shut
  <2>2. [a EXCEPT !.handles[f.handle].closed = TRUE] = [a EXCEPT !.handles = hs1]
    BY <2>1, Zenon
  <2>3. y = Post([a EXCEPT !.handles[f.handle].closed = TRUE], m)
    BY DEF CloseHandle, ClosedMacro
  <2> HIDE DEF a, y, hs1, m
  <2>4. [a EXCEPT !.handles = hs1].macros = f.macros
    BY <1>6 DEF Sockets
  <2>5. y = [[a EXCEPT !.handles = hs1] EXCEPT !.macros = ms]
    BY <2>2, <2>3, <2>4, Zenon DEF Post
  <2>6. QED BY <1>6, <2>5 DEF Sockets
<1> HIDE DEF hs1, ms, a, y, x, m
<1>8. y = [f EXCEPT !.destroyed = TRUE, !.errored = f.errored \/ err, !.connecting = FALSE, !.attempt = FALSE,
                    !.handle = 0, !.handles = hs1, !.macros = ms]
  BY <1>5, <1>7
<1>9. y \in Sockets /\ y.handles = hs1 /\ y.macros = ms
  <2>1. y \in Sockets
    BY <1>2, <1>3, <1>6, <1>7, ZenonT(40) DEF Sockets
  <2>2. y.handles = hs1 /\ y.macros = ms
    BY <1>8 DEF Sockets
  <2>3. QED BY <2>1, <2>2
<1>10. y.destroyed /\ ~y.connecting /\ ~y.attempt /\ y.handle = 0 /\ y.looking = f.looking /\ y.conf = f.conf
  BY <1>8 DEF Sockets
<1>11. y.ticks = f.ticks /\ y.events = f.events /\ y.settled = f.settled
  BY <1>8 DEF Sockets
<1>12. SameWrites(f, y) /\ SameReads(f, y)
  BY <1>8 DEF Sockets, SameWrites, SameReads
<1>13. ShutIs(f, y)
  BY <1>9, <1>10, <1>11, <1>12 DEF ShutIs, NewestTo, hs1, ms, x, m
<1>14. QED BY <1>13, Zenon DEF y, a

Ruins(s, y) ==
  /\ y \in Sockets /\ y.destroyed /\ SameWrites(s, y) /\ SameReads(s, y) /\ y.conf = s.conf
  /\ y.events = s.events /\ y.settled = s.settled /\ y.looking = s.looking
  /\ s.destroyed => y = s

LEMMA Destroys ==
  ASSUME NEW s, NEW n \in Nat, SocketOK(s, n), NEW err \in BOOLEAN
  PROVE  SocketOK(SDestroy(s, err), n) /\ Ruins(s, SDestroy(s, err))
<1> DEFINE y == SDestroy(s, err)
           f == Failing(s)
           c == CloseHandle([Doomed(f, err) EXCEPT !.handle = 0], f.handle, TRUE)
<1>1. s \in Sockets /\ HandlesOK(s)
  BY DEF SocketOK
<1>2. CASE s.destroyed
  <2>1. y = s
    BY <1>2 DEF SDestroy
  <2>2. QED BY <1>1, <1>2, <2>1 DEF Ruins, SameWrites, SameReads
<1>3. CASE ~s.destroyed
  <2>1. SocketOK(f, n) /\ f \in Sockets /\ SameState(s, f) /\ SameWrites(s, f) /\ SameReads(s, f)
        /\ f.events = s.events /\ f.settled = s.settled /\ f.conf = s.conf
        /\ (\A a : a # "errorBuffer" => (Has(Ops(f.ticks), a) <=> Has(Ops(s.ticks), a)))
    <3>1. CASE s.buffer # <<>>
      <4>1. TickOK(s, "errorBuffer")
        BY DEF TickOK, TickOps
      <4>2. SocketOK(f, n) /\ PutIs(s, STickOf("errorBuffer"), f)
        BY <3>1, <4>1, PutSTick DEF Failing
      <4>3. \A a : Has(Ops(f.ticks), a) <=> Has(Ops(s.ticks), a) \/ "errorBuffer" = a
        <5>1. STickOf("errorBuffer") \in STicks /\ STickOf("errorBuffer").op = "errorBuffer"
          BY DEF STickOf, STicks, TickOps
        <5>2. s.ticks \in Seq(STicks) /\ f.ticks = Append(s.ticks, STickOf("errorBuffer"))
          BY <1>1, <4>2, SocketFields DEF PutIs
        <5> DEFINE x == STickOf("errorBuffer")
        <5> HIDE DEF x
        <5>3. \A a : Has(Ops(f.ticks), a) <=> Has(Ops(s.ticks), a) \/ x.op = a
          BY <5>1, <5>2, STickPut, Zenon DEF x
        <5>4. QED BY <5>1, <5>3 DEF x
      <4>4. QED BY <4>2, <4>3 DEF PutIs
    <3>2. CASE s.buffer = <<>>
      BY <1>1, <3>2 DEF Failing, SameState, SameWrites, SameReads
    <3>3. QED BY <3>1, <3>2
  <2>2. ~f.destroyed /\ f.handle = s.handle /\ s.handle # 0 /\ HandlesOK(f) /\ s.looking = f.looking
    <3>1. Len(s.handles) # 0
      BY <1>1, NewestFields
    <3>2. QED BY <1>1, <1>3, <2>1, <3>1 DEF HandlesOK, SameState, SocketOK
  <2> HIDE DEF f
  <2>3. ShutIs(f, c)
    BY <2>1, <2>2, ClosesIs, Zenon
  <2>4. SocketOK(c, n)
    BY <2>1, <2>2, <2>3, ShutKeeps, Zenon
  <2>5. y = IF err THEN STick(c, "error") ELSE c
    <3>1. y = LET closed == IF s.handle # 0 THEN CloseHandle([Doomed(f, err) EXCEPT !.handle = 0], s.handle, TRUE)
                           ELSE Doomed(f, err)
                  told == IF err THEN STick(closed, "error") ELSE closed
              IN  CASE s.destroyed -> s
                    [] ~s.destroyed /\ s.handle # 0 -> told
                    [] OTHER -> STick(told, "close")
      BY DEF SDestroy, Doomed, Failing, f
    <3>2. QED BY <1>3, <2>2, <3>1
  <2> HIDE DEF c, y
  <2>6. /\ c \in Sockets /\ c.destroyed /\ SameWrites(s, c) /\ SameReads(s, c) /\ c.conf = s.conf
        /\ c.events = s.events /\ c.settled = s.settled /\ c.looking = s.looking /\ c.ticks = f.ticks
    BY <2>1, <2>2, <2>3 DEF ShutIs, SameWrites, SameReads, SameState
  <2>7. CASE ~err
    <3>1. y = c
      BY <2>5, <2>7
    <3>2. Ruins(s, c)
      BY <1>3, <2>6 DEF Ruins
    <3>3. QED BY <2>4, <3>1, <3>2 DEF y
  <2>8. CASE err
    <3>1. ~Has(Ops(s.ticks), "error") /\ ~Has(s.events, "error") /\ ~Has(s.events, "close") /\ ~Has(Ops(s.ticks), "close")
      BY <1>3 DEF SocketOK, SaidOK
    <3>2. TickOK(c, "error")
      BY <2>1, <2>6, <3>1 DEF TickOK, TickOps
    <3>3. SocketOK(y, n) /\ PutIs(c, STickOf("error"), y)
      BY <2>4, <2>5, <2>8, <3>2, PutSTick
    <3>4. /\ y \in Sockets /\ y.destroyed /\ SameWrites(s, y) /\ SameReads(s, y) /\ y.conf = s.conf
          /\ y.events = s.events /\ y.settled = s.settled /\ y.looking = s.looking
      BY <2>6, <3>3 DEF PutIs, SameWrites, SameReads, SameState
    <3>5. Ruins(s, y)
      BY <1>3, <3>4 DEF Ruins
    <3>6. QED BY <3>3, <3>5 DEF y
  <2>9. QED BY <2>7, <2>8
<1>4. QED BY <1>2, <1>3

-----------------------------------------------------------------------------
(* Socket: the listeners *)

\* What is known when the listeners of e return.
HeardIs(s, e, y) ==
  /\ y \in Sockets /\ y.events = Append(s.events, e) /\ y.settled = s.settled /\ y.looking = s.looking
  /\ SameWrites(s, y) /\ SameReads(s, y) /\ y.conf = s.conf
  /\ y = Emitted(s, e) \/ (~s.destroyed /\ y.destroyed)

LEMMA Emits ==
  ASSUME NEW s, NEW n \in Nat, SocketOK(s, n), NEW e, EmitOK(s, e)
  PROVE  SocketOK(SEmit(s, e), n) /\ HeardIs(s, e, SEmit(s, e))
<1> DEFINE y == SEmit(s, e)
           t == Emitted(s, e)
<1>1. SocketOK(t, n) /\ LogIs(s, e, t)
  BY PutEmit
<1>2. y = IF s.conf.destroyOn = e THEN SDestroy(t, FALSE) ELSE t
  BY DEF SEmit, Emitted
<1> HIDE DEF y, t
<1>3. /\ t \in Sockets /\ t.events = Append(s.events, e) /\ t.settled = s.settled /\ t.looking = s.looking
      /\ SameWrites(s, t) /\ SameReads(s, t) /\ t.conf = s.conf /\ t.destroyed = s.destroyed
  BY <1>1 DEF LogIs, SameState
<1>4. SocketOK(SDestroy(t, FALSE), n) /\ Ruins(t, SDestroy(t, FALSE))
  BY <1>1, Destroys, Zenon
<1>5. CASE s.conf.destroyOn = e
  <2>1. SocketOK(y, n) /\ Ruins(t, y)
    BY <1>2, <1>4, <1>5, Zenon
  <2>2. y = t \/ (~s.destroyed /\ y.destroyed)
    BY <1>3, <2>1 DEF Ruins
  <2>3. /\ y \in Sockets /\ y.events = Append(s.events, e) /\ y.settled = s.settled /\ y.looking = s.looking
        /\ SameWrites(s, y) /\ SameReads(s, y) /\ y.conf = s.conf
    BY <1>3, <2>1 DEF Ruins, SameWrites, SameReads
  <2>4. QED BY <2>1, <2>2, <2>3 DEF HeardIs, t, y
<1>6. CASE s.conf.destroyOn # e
  <2>1. y = t
    BY <1>2, <1>6
  <2>2. HeardIs(s, e, y)
    BY <1>3, <2>1 DEF HeardIs, t
  <2>3. QED BY <1>1, <2>1, <2>2 DEF y
<1>7. QED BY <1>5, <1>6

\* The numbers of the writes.
LEMMA CalledSeen ==
  ASSUME NEW s \in Seq(Nat \X BOOLEAN)
  PROVE  /\ Called(s) \in Seq(Nat) /\ Len(Called(s)) = Len(s)
         /\ \A x \in Nat \X BOOLEAN : Called(Append(s, x)) = Append(Called(s), x[1])
<1> DEFINE T == Nat \X BOOLEAN
           N == Nat
           f == [x \in T |-> x[1]]
<1>1. f \in [T -> N] /\ s \in Seq(T) /\ \A x \in T : f[x] = x[1]
  OBVIOUS
<1>2. ASSUME NEW t \in Seq(T) PROVE Called(t) = Through(f, t)
  <2>1. \A i \in 1..Len(t) : t[i] \in T
    BY ElementOfSeq
  <2>2. \A i \in 1..Len(t) : t[i][1] = f[t[i]]
    BY <1>1, <2>1
  <2> HIDE DEF f, T
  <2>3. QED BY <2>2 DEF Called, Through
<1> HIDE DEF f, T, N
<1>3. Follows(f, T, N, s)
  BY <1>1, ThroughFacts
<1>4. \A x \in T : Append(s, x) \in Seq(T)
  BY <1>1, AppendProperties
<1>5. \A x \in T : Called(Append(s, x)) = Append(Called(s), x[1])
  BY <1>1, <1>2, <1>3, <1>4, Zenon DEF Follows
<1>6. QED BY <1>1, <1>2, <1>3, <1>5 DEF Follows, T, N

JoinsAs(S, s, t, u) ==
  /\ u \in Seq(S) /\ Len(u) = Len(s) + Len(t) /\ Len(s) \in Nat /\ Len(t) \in Nat
  /\ \A i \in 1..Len(s) : u[i] = s[i]
  /\ \A i \in 1..Len(t) : u[Len(s) + i] = t[i]
  /\ \A i \in 1..Len(u) : i \in 1..Len(s) \/ \E j \in 1..Len(t) : i = Len(s) + j

LEMMA JoinAt == ASSUME NEW S, NEW s \in Seq(S), NEW t \in Seq(S) PROVE JoinsAs(S, s, t, s \o t)
<1> DEFINE u == s \o t
<1>1. /\ u \in Seq(S) /\ Len(u) = Len(s) + Len(t) /\ Len(s) \in Nat /\ Len(t) \in Nat
      /\ \A i \in 1..Len(u) : u[i] = IF i <= Len(s) THEN s[i] ELSE t[i - Len(s)]
  BY ConcatProperties, LenProperties
<1>2. \A i \in 1..Len(s) : u[i] = s[i]
  BY <1>1
<1>3. ASSUME NEW i \in 1..Len(t) PROVE u[Len(s) + i] = t[i]
  <2>1. Len(s) + i \in 1..Len(u) /\ ~(Len(s) + i <= Len(s)) /\ (Len(s) + i) - Len(s) = i
    BY <1>1
  <2>2. QED BY <1>1, <2>1
<1>4. ASSUME NEW i \in 1..Len(u) PROVE i \in 1..Len(s) \/ \E j \in 1..Len(t) : i = Len(s) + j
  <2>1. CASE i > Len(s)
    <3>1. i - Len(s) \in 1..Len(t) /\ i = Len(s) + (i - Len(s))
      BY <1>1, <2>1
    <3>2. QED BY <3>1, Zenon
  <2>2. QED BY <1>1, <2>1
<1>5. QED BY <1>1, <1>2, <1>3, <1>4 DEF JoinsAs

LEMMA NumberJoin ==
  ASSUME NEW s \in Seq(Nat), NEW t \in Seq(Nat)
  PROVE  \A e : Has(s \o t, e) <=> Has(s, e) \/ Has(t, e)
<1> DEFINE S == Nat
<1>1. s \in Seq(S) /\ t \in Seq(S)
  OBVIOUS
<1> HIDE DEF S
<1>2. QED BY <1>1, HasJoin

LEMMA SingleJoin ==
  ASSUME NEW s \in Seq(Nat), NEW t \in Seq(Nat), NEW e, Single(s, e), Single(t, e), ~(Has(s, e) /\ Has(t, e))
  PROVE  Single(s \o t, e)
<1> DEFINE u == s \o t
           n == Len(s)
<1>1. /\ n \in Nat /\ Len(t) \in Nat /\ Len(u) = n + Len(t)
      /\ \A i \in 1..Len(u) : u[i] = IF i <= n THEN s[i] ELSE t[i - n]
  BY LenProperties, ConcatProperties
<1> HIDE DEF u
<1>2. ASSUME NEW i \in 1..Len(u), NEW j \in 1..Len(u), u[i] = e, u[j] = e PROVE i = j
  <2>1. CASE i <= n /\ j <= n
    <3>1. i \in 1..n /\ j \in 1..n /\ s[i] = e /\ s[j] = e
      BY <1>1, <1>2, <2>1
    <3>2. QED BY <3>1 DEF Single
  <2>2. CASE i > n /\ j > n
    <3>1. i - n \in 1..Len(t) /\ j - n \in 1..Len(t) /\ t[i - n] = e /\ t[j - n] = e
      BY <1>1, <1>2, <2>2
    <3>2. i - n = j - n
      BY <3>1, Zenon DEF Single
    <3>3. QED BY <1>1, <3>2
  <2>3. CASE i <= n /\ j > n
    <3>1. i \in 1..n /\ s[i] = e /\ j - n \in 1..Len(t) /\ t[j - n] = e
      BY <1>1, <1>2, <2>3
    <3>2. QED BY <3>1, ZenonT(40) DEF Has
  <2>4. CASE i > n /\ j <= n
    <3>1. j \in 1..n /\ s[j] = e /\ i - n \in 1..Len(t) /\ t[i - n] = e
      BY <1>1, <1>2, <2>4
    <3>2. QED BY <3>1, ZenonT(40) DEF Has
  <2>5. QED BY <1>1, <2>1, <2>2, <2>3, <2>4
<1>3. QED BY <1>2, Zenon DEF Single, u

LEMMA RisingOnce ==
  ASSUME NEW s \in Seq(Nat), Rising(s), NEW e PROVE Single(s, e)
<1>1. Len(s) \in Nat /\ \A i \in 1..Len(s) : s[i] \in Nat
  BY LenProperties, ElementOfSeq
<1>2. QED BY <1>1 DEF Single, Rising

LEMMA RisingPut ==
  ASSUME NEW s \in Seq(Nat), Rising(s), NEW x \in Nat, \A a \in Nat : Has(s, a) => a < x
  PROVE  Rising(Append(s, x))
<1> DEFINE y == Append(s, x)
           n == Len(s)
<1>1. /\ n \in Nat /\ Len(y) = n + 1 /\ y[n + 1] = x /\ \A i \in 1..n : y[i] = s[i] /\ s[i] \in Nat
  BY AppendProperties, LenProperties, ElementOfSeq
<1> HIDE DEF y
<1>2. ASSUME NEW i \in 1..Len(y), NEW j \in 1..Len(y), i < j PROVE y[i] < y[j]
  <2>1. CASE j <= n
    BY <1>1, <1>2, <2>1 DEF Rising
  <2>2. CASE j = n + 1
    BY <1>1, <1>2, <2>2, SMTT(20) DEF Has
  <2>3. QED BY <1>1, <1>2, <2>1, <2>2
<1>3. QED BY <1>2 DEF Rising, y

LEMMA RisingTail ==
  ASSUME NEW s \in Seq(Nat), s # <<>>, Rising(s)
  PROVE  /\ Tail(s) \in Seq(Nat) /\ Head(s) \in Nat /\ Rising(Tail(s))
         /\ \A a \in Nat : Has(s, a) <=> Head(s) = a \/ Has(Tail(s), a)
         /\ \A a \in Nat : Has(Tail(s), a) => Head(s) < a
<1> DEFINE y == Tail(s)
<1>1. /\ Len(s) \in Nat /\ Tail(s) \in Seq(Nat) /\ Head(s) \in Nat /\ Head(s) = s[1] /\ 1 \in 1..Len(s)
      /\ \A i \in 1..Len(y) : y[i] = s[i + 1] /\ i + 1 \in 1..Len(s) /\ i + 1 # 1
  BY HeadTailProperties, LenProperties, EmptySeq
<1>2. Len(y) \in Nat
  BY <1>1, LenProperties
<1> HIDE DEF y
<1>3. ASSUME NEW i \in 1..Len(y), NEW j \in 1..Len(y), i < j PROVE y[i] < y[j]
  <2>1. i + 1 < j + 1
    BY <1>2, <1>3
  <2>2. QED BY <1>1, <1>3, <2>1 DEF Rising
<1>4. \A i \in 1..Len(y) : Head(s) < y[i]
  <2> SUFFICES ASSUME NEW i \in 1..Len(y) PROVE Head(s) < y[i]
    OBVIOUS
  <2>1. 1 < i + 1 /\ i + 1 \in 1..Len(s)
    BY <1>1, <1>2
  <2>2. s[1] < s[i + 1]
    BY <1>1, <2>1 DEF Rising
  <2>3. QED BY <1>1, <2>2
<1>5. \A a \in Nat : Has(s, a) <=> Head(s) = a \/ Has(Tail(s), a)
  <2> DEFINE S == Nat
  <2>1. s \in Seq(S)
    OBVIOUS
  <2> HIDE DEF S
  <2>2. QED BY <2>1, HasTail
<1>6. QED BY <1>1, <1>3, <1>4, <1>5 DEF Rising, Has, y

-----------------------------------------------------------------------------
(* Socket: the writes *)

\* Only what became of the writes changes.
WritesIs(s, y) ==
  /\ y \in Sockets /\ y.ticks = s.ticks /\ y.macros = s.macros /\ y.events = s.events /\ y.handles = s.handles
  /\ SameState(s, y) /\ SameReads(s, y) /\ y.conf = s.conf

LEMMA WritesKeep ==
  ASSUME NEW s, NEW n \in Nat, SocketOK(s, n), NEW y, WritesIs(s, y), y.final = s.final,
         IdsOK(y, n), PendingOK(y), WireOK(y, n)
  PROVE  SocketOK(y, n)
<1>1. /\ y \in Sockets /\ y.ticks = s.ticks /\ y.macros = s.macros /\ y.events = s.events /\ y.handles = s.handles
      /\ SameState(s, y) /\ SameReads(s, y) /\ Newest(y) = Newest(s)
  BY DEF WritesIs, Newest
<1>2. HandlesOK(y) /\ ReportOK(y) /\ ConnectOK(y)
  BY <1>1 DEF SocketOK, HandlesOK, ReportOK, Reported, ConnectOK, SameState
<1>3. UntouchedOK(y) /\ SaidOK(y)
  BY <1>1 DEF SocketOK, UntouchedOK, Untouched, SaidOK, SameState, SameReads
<1>4. ComesOnce(y)
  BY <1>1 DEF SocketOK, ComesOnce
<1>5. FinOK(y) /\ ReadOK(y)
  BY <1>1 DEF SocketOK, FinOK, ReadOK, SameState, SameReads
<1>6. QED BY <1>1, <1>2, <1>3, <1>4, <1>5 DEF SocketOK

\* A number that is free: in no place.
FreeId(s, a, n) == a \in Nat \ {0} /\ a <= n /\ Unknown(s, a) /\ a # s.cur /\ ~Has(s.buffer, a)
SettleIs(s, y) == WritesIs(s, y) /\ SameWrites(s, y)
LEMMA SettleFields ==
  ASSUME NEW s \in Sockets, NEW a \in Nat, NEW ok \in BOOLEAN
  PROVE  /\ SettleIs(s, Settles(s, a, ok)) /\ Called(Settles(s, a, ok).settled) = Append(Called(s.settled), a)
         /\ Called(s.settled) \in Seq(Nat)
<1> DEFINE p == <<a, ok>>
           t == Append(s.settled, p)
           y == Settles(s, a, ok)
<1>1. p \in Nat \X BOOLEAN /\ p[1] = a
  OBVIOUS
<1>2. s.settled \in Seq(Nat \X BOOLEAN) /\ t \in Seq(Nat \X BOOLEAN) /\ y = [s EXCEPT !.settled = t]
  BY <1>1, SocketFields, AppendProperties DEF Settles
<1>3. Called(t) = Append(Called(s.settled), a) /\ Called(s.settled) \in Seq(Nat)
  BY <1>1, <1>2, CalledSeen
<1> HIDE DEF p, t, y
<1>4. y \in Sockets /\ y.settled = t /\ y.conf = s.conf
  BY <1>2, ZenonT(40) DEF Sockets
<1>5. y.ticks = s.ticks /\ y.macros = s.macros /\ y.events = s.events /\ y.handles = s.handles
  BY <1>2 DEF Sockets
<1>6. SameState(s, y) /\ SameReads(s, y) /\ SameWrites(s, y)
  BY <1>2 DEF Sockets, SameState, SameReads, SameWrites
<1>7. SettleIs(s, y) /\ Called(y.settled) = Append(Called(s.settled), a) /\ Called(s.settled) \in Seq(Nat)
  BY <1>3, <1>4, <1>5, <1>6 DEF WritesIs, SettleIs
<1>8. QED BY <1>7 DEF y

LEMMA SettleKeeps ==
  ASSUME NEW s, NEW n \in Nat, SocketOK(s, n), NEW a, FreeId(s, a, n), NEW ok \in BOOLEAN
  PROVE  SocketOK(Settles(s, a, ok), n) /\ SettleIs(s, Settles(s, a, ok))
<1> DEFINE y == Settles(s, a, ok)
<1>1. s \in Sockets /\ a \in Nat \ {0} /\ a \in Nat /\ a <= n
  BY DEF SocketOK, FreeId
<1>2. SettleIs(s, y) /\ Called(y.settled) = Append(Called(s.settled), a) /\ Called(s.settled) \in Seq(Nat)
  BY <1>1, SettleFields
<1> HIDE DEF y
<1>3. \A e : Has(Called(y.settled), e) <=> Has(Called(s.settled), e) \/ a = e
  BY <1>1, <1>2, NumberPut, Zenon
<1>4. /\ WritesIs(s, y) /\ SameWrites(s, y) /\ y.ticks = s.ticks /\ y.macros = s.macros /\ Newest(y) = Newest(s)
      /\ SameState(s, y)
  BY <1>2 DEF SettleIs, WritesIs, Newest
<1>5. IdsOK(y, n)
  <2>1. IdsOK(s, n)
    BY DEF SocketOK
  <2>2. \A b \in Nat \ {0} : OnceIn(Refusals(y.ticks), b, Called(y.settled), b)
    <3> SUFFICES ASSUME NEW b \in Nat \ {0} PROVE OnceIn(Refusals(y.ticks), b, Called(y.settled), b)
      OBVIOUS
    <3>1. OnceIn(Refusals(s.ticks), b, Called(s.settled), b)
      BY <2>1 DEF IdsOK
    <3>2. QED BY <1>1, <1>2, <1>4, <3>1, OnceLog DEF FreeId, Unknown
  <2>3. QED BY <1>1, <1>3, <1>4, <2>1, <2>2 DEF IdsOK, Unknown, FreeId, SameWrites
<1>6. PendingOK(y) /\ WireOK(y, n)
  BY <1>4 DEF SocketOK, PendingOK, Idle, WireOK, Sent, SameState, SameWrites
<1>7. SocketOK(y, n)
  BY <1>4, <1>5, <1>6, WritesKeep DEF SameWrites
<1>8. QED BY <1>2, <1>7 DEF y

\* The buffer fails as a whole.
SweptIs(s, y) ==
  /\ WritesIs(s, y) /\ y.cur = s.cur /\ y.waits = s.waits /\ y.ending = s.ending /\ y.final = s.final
  /\ y.finalWaits = s.finalWaits /\ y.again = s.again

LEMMA SweepKeeps ==
  ASSUME NEW s, NEW n \in Nat, SocketOK(s, n)
  PROVE  SocketOK(SErrorBuffer(s), n) /\ SweptIs(s, SErrorBuffer(s))
<1> DEFINE y == SErrorBuffer(s)
           b == s.buffer
           batch == [i \in DOMAIN b |-> <<b[i], FALSE>>]
           t == s.settled \o batch
<1>1. s \in Sockets /\ b \in Seq(Nat) /\ s.settled \in Seq(Nat \X BOOLEAN) /\ Len(b) \in Nat /\ DOMAIN b = 1..Len(b)
  BY SocketFields, LenProperties DEF SocketOK
<1>2. CASE s.cur # 0
  <2>1. y = s
    BY <1>2 DEF SErrorBuffer
  <2>2. QED BY <1>1, <2>1 DEF SweptIs, WritesIs, SameState, SameReads
<1>3. CASE s.cur = 0
  <2>1. \A i \in 1..Len(b) : b[i] \in Nat /\ <<b[i], FALSE>> \in Nat \X BOOLEAN /\ <<b[i], FALSE>>[1] = b[i]
    BY <1>1, ElementOfSeq, Zenon
  <2>2. batch \in [1..Len(b) -> Nat \X BOOLEAN]
    BY <1>1, <2>1, Zenon
  <2>3. batch \in Seq(Nat \X BOOLEAN) /\ Len(batch) = Len(b)
    <3>1. batch \in Seq(Nat \X BOOLEAN)
      BY <1>1, <2>2, SeqDef, ZenonT(40)
    <3>2. DOMAIN batch = 1..Len(b)
      BY <2>2
    <3> HIDE DEF batch
    <3>3. QED BY <1>1, <3>1, <3>2, LenProperties
  <2>4. \A i \in 1..Len(b) : batch[i][1] = b[i]
    BY <1>1, <2>1
  <2> DEFINE T == Nat \X BOOLEAN
             m == Len(s.settled)
  <2>5. /\ t \in Seq(T) /\ Len(t) = m + Len(b) /\ m \in Nat
        /\ \A i \in 1..m : t[i] = s.settled[i]
        /\ \A i \in 1..Len(b) : t[m + i] = batch[i]
        /\ \A i \in 1..Len(t) : i \in 1..m \/ \E j \in 1..Len(b) : i = m + j
    <3>1. s.settled \in Seq(T) /\ batch \in Seq(T) /\ Len(batch) = Len(b)
      BY <1>1, <2>3, Zenon
    <3> HIDE DEF batch, T, m
    <3>2. /\ t \in Seq(T) /\ Len(t) = Len(s.settled) + Len(batch) /\ Len(s.settled) \in Nat
          /\ \A i \in 1..Len(s.settled) : t[i] = s.settled[i]
          /\ \A i \in 1..Len(batch) : t[Len(s.settled) + i] = batch[i]
          /\ \A i \in 1..Len(t) : i \in 1..Len(s.settled) \/ \E j \in 1..Len(batch) : i = Len(s.settled) + j
      <4>1. JoinsAs(T, s.settled, batch, t)
        BY <3>1, JoinAt
      <4>2. QED BY <4>1 DEF JoinsAs
    <3>3. QED BY <3>1, <3>2, Zenon DEF m
  <2>6. Called(s.settled) \in Seq(Nat) /\ Len(Called(s.settled)) = m /\ Called(t) \in Seq(Nat) /\ Len(Called(t)) = Len(t)
    <3> HIDE DEF t
    <3>1. QED BY <1>1, <2>5, CalledSeen, Zenon
  <2>7. Called(t) = Called(s.settled) \o b
    <3> DEFINE N == Nat
               c == Called(s.settled)
               d == c \o b
    <3>1. c \in Seq(N) /\ b \in Seq(N) /\ Len(c) = m
      BY <1>1, <2>6
    <3>2. \A i \in 1..m : c[i] = s.settled[i][1]
      BY DEF Called
    <3>3. \A i \in 1..Len(t) : Called(t)[i] = t[i][1]
      BY DEF Called
    <3> HIDE DEF c, t, batch, b, N, m, T
    <3>4. /\ d \in Seq(N) /\ Len(d) = m + Len(b)
          /\ \A i \in 1..m : d[i] = c[i]
          /\ \A i \in 1..Len(b) : d[m + i] = b[i]
      <4>1. /\ d \in Seq(N) /\ Len(d) = Len(c) + Len(b)
            /\ \A i \in 1..Len(c) : d[i] = c[i]
            /\ \A i \in 1..Len(b) : d[Len(c) + i] = b[i]
        <5>1. JoinsAs(N, c, b, d)
          BY <3>1, JoinAt
        <5>2. QED BY <5>1 DEF JoinsAs
      <4>2. QED BY <3>1, <4>1, Zenon
    <3> HIDE DEF d
    <3>5. ASSUME NEW i \in 1..Len(t) PROVE Called(t)[i] = d[i]
      <4>1. CASE i \in 1..m
        BY <2>5, <3>2, <3>3, <3>4, <4>1, SMTT(20)
      <4>2. ASSUME NEW j \in 1..Len(b), i = m + j PROVE Called(t)[i] = d[i]
        <5>1. Called(t)[i] = t[i][1] /\ t[i] = batch[j] /\ d[i] = b[j]
          BY <2>5, <3>3, <3>4, <4>2
        <5>2. QED BY <2>4, <5>1
      <4>3. QED BY <2>5, <4>1, <4>2
    <3>6. Called(t) = d
      <4>1. Called(t) \in Seq(N)
        BY <2>6 DEF N
      <4>2. QED BY <2>5, <2>6, <3>4, <3>5, <4>1, SeqEqual
    <3>7. QED BY <3>6 DEF d, c
  <2>8. y = [s EXCEPT !.buffer = <<>>, !.settled = t]
    BY <1>3 DEF SErrorBuffer
  <2>9. <<>> \in Seq(Nat) /\ \A a : ~Has(<<>>, a)
    BY EmptySeq DEF Has
  <2> HIDE DEF y, t, batch, m
  <2>10. y \in Sockets /\ y.buffer = <<>> /\ y.settled = t /\ y.conf = s.conf
    BY <1>1, <2>5, <2>8, <2>9, ZenonT(40) DEF Sockets
  <2>11. y.ticks = s.ticks /\ y.macros = s.macros /\ y.events = s.events /\ y.handles = s.handles
    BY <1>1, <2>8 DEF Sockets
  <2>12. SameState(s, y) /\ SameReads(s, y)
    BY <1>1, <2>8 DEF Sockets, SameState, SameReads
  <2>13. /\ y.cur = s.cur /\ y.waits = s.waits /\ y.ending = s.ending /\ y.final = s.final
         /\ y.finalWaits = s.finalWaits /\ y.again = s.again
    BY <1>1, <2>8 DEF Sockets
  <2>14. WritesIs(s, y) /\ SweptIs(s, y) /\ Newest(y) = Newest(s)
    BY <2>10, <2>11, <2>12, <2>13 DEF WritesIs, SweptIs, Newest
  <2>15. \A a : Has(Called(y.settled), a) <=> Has(Called(s.settled), a) \/ Has(b, a)
    <3> HIDE DEF b
    <3>1. \A a : Has(Called(s.settled) \o b, a) <=> Has(Called(s.settled), a) \/ Has(b, a)
      BY <1>1, <2>6, NumberJoin
    <3>2. QED BY <2>7, <2>10, <3>1, Zenon
  <2>16. IdsOK(y, n)
    <3>1. IdsOK(s, n)
      BY DEF SocketOK
    <3>2. \A a \in Nat \ {0} : OnceIn(Refusals(y.ticks), a, Called(y.settled), a)
      <4> SUFFICES ASSUME NEW a \in Nat \ {0} PROVE OnceIn(Refusals(y.ticks), a, Called(y.settled), a)
        OBVIOUS
      <4>1. /\ OnceIn(Refusals(s.ticks), a, Called(s.settled), a)
            /\ Has(b, a) => ~Has(Refusals(s.ticks), a) /\ ~Has(Called(s.settled), a)
        BY <3>1 DEF IdsOK, Unknown
      <4>2. Single(b, a)
        BY <1>1, <3>1, RisingOnce DEF IdsOK
      <4>3. Single(Called(s.settled) \o b, a)
        BY <1>1, <2>6, <4>1, <4>2, SingleJoin DEF OnceIn
      <4>4. QED BY <2>7, <2>10, <2>11, <2>15, <4>1, <4>3, Zenon DEF OnceIn
    <3>3. Rising(<<>>)
      BY EmptySeq DEF Rising
    <3>4. \A a \in Nat : Has(b, a) => a # 0 /\ a <= n
      BY <1>3, <3>1 DEF IdsOK
    <3>5. y.cur <= n
      BY <2>13, <3>1 DEF IdsOK
    <3>6. \A a \in Nat : Has(Called(y.settled), a) => a # 0 /\ a <= n
      BY <2>15, <3>1, <3>4 DEF IdsOK
    <3>7. \A a \in Nat : Has(Refusals(y.ticks), a) => a <= n
      BY <2>11, <3>1 DEF IdsOK
    <3>8. QED BY <1>3, <2>9, <2>10, <2>13, <3>2, <3>3, <3>5, <3>6, <3>7 DEF IdsOK
  <2>17. PendingOK(y)
    BY <2>11, <2>12, <2>13, <2>14 DEF SocketOK, PendingOK, Idle, SameState
  <2>18. WireOK(y, n)
    BY <2>9, <2>10, <2>13, <2>14 DEF SocketOK, WireOK, Sent
  <2>19. SocketOK(y, n)
    BY <2>13, <2>14, <2>16, <2>17, <2>18, WritesKeep
  <2>20. QED BY <2>14, <2>19 DEF y
<1>4. QED BY <1>2, <1>3

\* A write is over, and free until it is called back.
OverOf(s) == [s EXCEPT !.cur = 0, !.waits = FALSE]
OverIs(s, y) ==
  /\ WritesIs(s, y) /\ y.cur = 0 /\ ~y.waits /\ y.buffer = s.buffer /\ y.settled = s.settled
  /\ y.ending = s.ending /\ y.final = s.final /\ y.finalWaits = s.finalWaits /\ y.again = s.again

LEMMA OverKeeps ==
  ASSUME NEW s, NEW n \in Nat, SocketOK(s, n), s.cur # 0, Idle(s, s.cur), NEW y, OverIs(s, y)
  PROVE  SocketOK(y, n) /\ FreeId(y, s.cur, n) /\ Idle(y, s.cur)
<1>1. s.cur \in Nat \ {0} /\ y \in Sockets
  BY SocketFields DEF SocketOK, OverIs, WritesIs
<1>2. /\ WritesIs(s, y) /\ y.cur = 0 /\ ~y.waits /\ y.buffer = s.buffer /\ y.settled = s.settled
      /\ y.ending = s.ending /\ y.final = s.final /\ y.finalWaits = s.finalWaits /\ y.again = s.again
      /\ y.ticks = s.ticks /\ y.macros = s.macros /\ Newest(y) = Newest(s)
  BY DEF OverIs, WritesIs, Newest
<1>3. IdsOK(s, n) /\ PendingOK(s) /\ WireOK(s, n)
  BY DEF SocketOK
<1>4. \A a \in Nat : Has(s.buffer, a) => 0 < a /\ a <= n /\ s.cur < a
  BY <1>1, <1>3 DEF IdsOK
<1>5. IdsOK(y, n)
  BY <1>2, <1>3, <1>4 DEF IdsOK, Unknown
<1>6. PendingOK(y)
  <2>1. \A a \in Nat : Has(Newest(y).queue, a) \/ Has(Answers(y.macros), a) => a \in {Fin, 0}
    BY <1>2, <1>3 DEF PendingOK, Idle
  <2>2. QED BY <1>2, <2>1 DEF PendingOK
<1>7. WireOK(y, n)
  BY <1>2, <1>3 DEF WireOK, Sent
<1>8. SocketOK(y, n)
  BY <1>2, <1>5, <1>6, <1>7, WritesKeep
<1>9. ~Has(s.buffer, s.cur)
  BY <1>1, <1>4
<1>10. FreeId(y, s.cur, n)
  BY <1>1, <1>2, <1>3, <1>9 DEF IdsOK, FreeId, Unknown
<1>11. Idle(y, s.cur)
  BY <1>2 DEF Idle
<1>12. QED BY <1>8, <1>10, <1>11

\* The handle is asked.
Queued(x, a) == [x EXCEPT !.queue = Append(@, a)]
LEMMA QueuedHandle ==
  ASSUME NEW x \in HandleType, NEW a \in Nat
  PROVE  /\ Queued(x, a) \in HandleType /\ Queued(x, a).closed = x.closed /\ Queued(x, a).queue = Append(x.queue, a)
         /\ Queued(x, a).wire = x.wire /\ Queued(x, a).in = x.in /\ Queued(x, a).over = x.over
         /\ Queued(x, a).reading = x.reading /\ Queued(x, a).st = x.st
<1> DEFINE t == Append(x.queue, a)
<1>1. t \in Seq(Nat)
  BY AppendProperties DEF HandleType
<1>2. Queued(x, a) = [x EXCEPT !.queue = t]
  BY DEF Queued
<1> HIDE DEF t
<1>3. QED BY <1>1, <1>2, Zenon DEF HandleType, t

\* Only the newest handle and the writes change.
AsksIs(s, a, y) ==
  /\ y \in Sockets /\ NewestTo(s, Queued(Newest(s), a), y)
  /\ y.ticks = s.ticks /\ y.macros = s.macros /\ y.events = s.events /\ y.settled = s.settled
  /\ SameState(s, y) /\ SameReads(s, y) /\ y.conf = s.conf

LEMMA AskKeeps ==
  ASSUME NEW s, NEW n \in Nat, SocketOK(s, n), Has(s.events, "connect"), NEW a \in Nat, NEW y, AsksIs(s, a, y),
         y.final = s.final, IdsOK(y, n), PendingOK(y), WireOK(y, n)
  PROVE  SocketOK(y, n)
<1>1. /\ s \in Sockets /\ HandlesOK(s) /\ y \in Sockets /\ NewestTo(s, Queued(Newest(s), a), y)
      /\ y.ticks = s.ticks /\ y.macros = s.macros /\ y.events = s.events /\ y.settled = s.settled
      /\ SameState(s, y) /\ SameReads(s, y)
  BY DEF SocketOK, AsksIs
<1>2. Newest(s) \in HandleType /\ Len(s.handles) \in 1..Len(s.handles) /\ Len(s.handles) \in Nat \ {0}
  BY <1>1, NewestFields
<1>3. /\ Newest(y) = Queued(Newest(s), a) /\ Len(y.handles) = Len(s.handles)
      /\ \A h \in 1..Len(s.handles) : h # Len(s.handles) => y.handles[h] = s.handles[h]
  BY <1>1, <1>2, QueuedHandle, NewestChanges, SMTT(20)
<1>4. /\ Newest(y).closed = Newest(s).closed /\ Newest(y).wire = Newest(s).wire /\ Newest(y).in = Newest(s).in
      /\ Newest(y).over = Newest(s).over /\ Newest(y).st = Newest(s).st
  BY <1>2, <1>3, QueuedHandle
<1>5. HandlesOK(y)
  <2>1. \A h \in 1..Len(s.handles) : y.handles[h].closed = s.handles[h].closed
    BY <1>3, <1>4, Zenon DEF Newest
  <2>2. QED BY <1>1, <1>3, <2>1, Zenon DEF HandlesOK, SameState
<1>6. ReportOK(y) /\ ConnectOK(y)
  BY <1>1, <1>3, <1>4 DEF SocketOK, ReportOK, Reported, ConnectOK, SameState
<1>7. UntouchedOK(y)
  BY <1>1 DEF UntouchedOK
<1>8. SaidOK(y) /\ ComesOnce(y)
  BY <1>1, <1>4 DEF SocketOK, SaidOK, ComesOnce, SameState, SameReads
<1>9. FinOK(y) /\ ReadOK(y)
  BY <1>1, <1>4 DEF SocketOK, FinOK, ReadOK, SameState, SameReads
<1>10. QED BY <1>1, <1>5, <1>6, <1>7, <1>8, <1>9 DEF SocketOK

LEMMA RequestIs ==
  ASSUME NEW s \in Sockets, HandlesOK(s), ~s.destroyed, NEW a \in Nat
  PROVE  AsksIs(s, a, Request(s, a)) /\ SameWrites(s, Request(s, a))
<1> DEFINE x == Newest(s)
           t == [s.handles EXCEPT ![Len(s.handles)] = Queued(x, a)]
           y == Request(s, a)
<1>1. /\ x \in HandleType /\ Len(s.handles) \in 1..Len(s.handles) /\ s.handle = Len(s.handles)
      /\ Queued(x, a) \in HandleType
  BY NewestFields, QueuedHandle DEF HandlesOK
<1>2. t \in Seq(HandleType)
  BY <1>1, ExceptSeq, SocketFields
<1>3. y = [s EXCEPT !.handles = t]
  BY <1>1 DEF Request, Newest, Queued
<1> HIDE DEF t, y, x
<1>4. y \in Sockets /\ y.handles = t /\ y.conf = s.conf
  BY <1>2, <1>3, ZenonT(40) DEF Sockets
<1>5. y.ticks = s.ticks /\ y.macros = s.macros /\ y.events = s.events /\ y.settled = s.settled
  BY <1>3 DEF Sockets
<1>6. SameState(s, y) /\ SameReads(s, y) /\ SameWrites(s, y)
  BY <1>3 DEF Sockets, SameState, SameReads, SameWrites
<1>7. AsksIs(s, a, y) /\ SameWrites(s, y)
  BY <1>4, <1>5, <1>6 DEF AsksIs, NewestTo, t, x
<1>8. QED BY <1>7 DEF y

LEMMA OnceNone ==
  ASSUME NEW t, NEW a, NEW u, NEW b, ~Has(t, a), ~Has(u, b) PROVE OnceIn(t, a, u, b)
BY DEF OnceIn, Single, Has

\* What may go out behind what is there.
Fits(w, t, x) == \A a \in Nat : Has(w, a) \/ Has(t, a) => Before(a, x)
LEMMA InOrderPut ==
  ASSUME NEW t \in Seq(Nat), InOrder(t), NEW x \in Nat, \A a \in Nat : Has(t, a) => Before(a, x)
  PROVE  InOrder(Append(t, x))
<1> DEFINE y == Append(t, x)
           n == Len(t)
<1>1. /\ n \in Nat /\ Len(y) = n + 1 /\ y[n + 1] = x /\ \A i \in 1..n : y[i] = t[i] /\ t[i] \in Nat
  BY AppendProperties, LenProperties, ElementOfSeq
<1> HIDE DEF y
<1>2. ASSUME NEW i \in 1..Len(y), NEW j \in 1..Len(y), i < j PROVE Before(y[i], y[j])
  <2>1. CASE j <= n
    <3>1. i \in 1..n /\ j \in 1..n
      BY <1>1, <1>2, <2>1
    <3>2. QED BY <1>1, <1>2, <3>1 DEF InOrder
  <2>2. CASE j = n + 1
    <3>1. i \in 1..n
      BY <1>1, <1>2, <2>2
    <3>2. Has(t, t[i]) /\ t[i] \in Nat
      BY <1>1, <3>1 DEF Has
    <3>3. QED BY <1>1, <2>2, <3>1, <3>2
  <2>3. QED BY <1>1, <1>2, <2>1, <2>2
<1>3. QED BY <1>2 DEF InOrder, y

LEMMA OutgoingPut ==
  ASSUME NEW w \in Seq(Nat), NEW t \in Seq(Nat), Outgoing(w, t), NEW x \in Nat, Fits(w, t, x)
  PROVE  Outgoing(w, Append(t, x))
<1>1. \A a : Has(Append(t, x), a) <=> Has(t, a) \/ x = a
  BY NumberPut, Zenon
<1>2. InOrder(Append(t, x))
  BY InOrderPut DEF Outgoing, Fits
<1>3. QED BY <1>1, <1>2 DEF Outgoing, Fits

\* _writeGeneric
MayWrite(s, a, n) ==
  /\ a \in Nat \ {0} /\ a <= n /\ Unknown(s, a) /\ \A b \in Nat : Has(s.buffer, b) => a < b
  /\ s.cur \in {0, a} /\ Idle(s, a) /\ ~s.destroyed
  /\ s.again \/ (s.final = "no" /\ \A b \in Nat : Sent(s, b) => b # Fin /\ b < a)

WroteIs(s, a, y) ==
  /\ y \in Sockets /\ y.cur = a /\ y.buffer = s.buffer /\ y.ending = s.ending /\ y.final = s.final
  /\ y.finalWaits = s.finalWaits /\ y.again = s.again
  /\ y.ticks = s.ticks /\ y.macros = s.macros /\ y.events = s.events /\ y.settled = s.settled
  /\ SameState(s, y) /\ SameReads(s, y) /\ y.conf = s.conf

LEMMA Writes ==
  ASSUME NEW s, NEW n \in Nat, SocketOK(s, n), NEW a, MayWrite(s, a, n)
  PROVE  SocketOK(WriteGeneric(s, a), n) /\ WroteIs(s, a, WriteGeneric(s, a))
<1> DEFINE y == WriteGeneric(s, a)
<1>1. s \in Sockets /\ HandlesOK(s) /\ a \in Nat /\ a # 0 /\ a <= n /\ ~s.destroyed
  BY DEF SocketOK, MayWrite
<1>2. IdsOK(s, n) /\ PendingOK(s) /\ WireOK(s, n)
  BY DEF SocketOK
<1>3. /\ s.buffer \in Seq(Nat) /\ Newest(s) \in HandleType /\ Newest(s).queue \in Seq(Nat) /\ Newest(s).wire \in Seq(Nat)
      /\ s.macros \in Seq(SMacros) /\ s.handle # 0
  <2>1. s.handle = Len(s.handles) /\ Len(s.handles) # 0
    BY <1>1, NewestFields DEF HandlesOK
  <2>2. QED BY <1>1, <2>1, SocketFields, NewestFields
<1>4. CASE s.connecting
  <2>1. y = [s EXCEPT !.cur = a, !.waits = TRUE]
    BY <1>4 DEF WriteGeneric
  <2> HIDE DEF y
  <2>2. /\ y \in Sockets /\ y.handles = s.handles /\ y.conf = s.conf /\ y.cur = a /\ y.buffer = s.buffer
        /\ y.ending = s.ending /\ y.final = s.final /\ y.finalWaits = s.finalWaits /\ y.again = s.again
    BY <1>1, <2>1, ZenonT(40) DEF Sockets
  <2>3. y.ticks = s.ticks /\ y.macros = s.macros /\ y.events = s.events /\ y.settled = s.settled
    BY <1>1, <2>1 DEF Sockets
  <2>4. SameState(s, y) /\ SameReads(s, y)
    BY <1>1, <2>1 DEF Sockets, SameState, SameReads
  <2>5. WroteIs(s, a, y) /\ WritesIs(s, y) /\ Newest(y) = Newest(s)
    BY <2>2, <2>3, <2>4 DEF WroteIs, WritesIs, Newest
  <2>6. IdsOK(y, n)
    BY <1>1, <1>2, <2>2, <2>3 DEF IdsOK, Unknown, MayWrite
  <2>7. PendingOK(y)
    <3>1. Idle(y, a)
      BY <2>3, <2>5 DEF Idle, MayWrite
    <3>2. OnceIn(Newest(y).queue, a, Answers(y.macros), a)
      BY <3>1, OnceNone DEF Idle
    <3>3. \A b \in Nat : Has(Newest(y).queue, b) \/ Has(Answers(y.macros), b) => b \in {Fin, a}
      BY <1>2, <2>3, <2>5 DEF PendingOK, MayWrite, Fin
    <3>4. QED BY <1>1, <2>2, <3>1, <3>2, <3>3 DEF PendingOK
  <2>8. WireOK(y, n)
    BY <1>2, <2>2, <2>5 DEF WireOK, Sent, MayWrite
  <2>9. SocketOK(y, n)
    BY <2>2, <2>5, <2>6, <2>7, <2>8, WritesKeep
  <2>10. QED BY <2>5, <2>9 DEF y
<1>5. CASE ~s.connecting
  <2> DEFINE z == [s EXCEPT !.cur = a, !.waits = FALSE]
  <2>1. y = Request(z, a)
    BY <1>3, <1>5 DEF WriteGeneric
  <2>2. /\ z \in Sockets /\ z.handles = s.handles /\ z.conf = s.conf /\ z.cur = a /\ z.buffer = s.buffer /\ ~z.waits
        /\ z.ending = s.ending /\ z.final = s.final /\ z.finalWaits = s.finalWaits /\ z.again = s.again
    BY <1>1, ZenonT(40) DEF Sockets
  <2>3. z.ticks = s.ticks /\ z.macros = s.macros /\ z.events = s.events /\ z.settled = s.settled
    BY <1>1 DEF Sockets
  <2>4. SameState(s, z) /\ SameReads(s, z)
    BY <1>1 DEF Sockets, SameState, SameReads
  <2> HIDE DEF z, y
  <2>5. HandlesOK(z) /\ ~z.destroyed /\ Newest(z) = Newest(s)
    BY <1>1, <2>2, <2>4 DEF HandlesOK, SameState, Newest
  <2>6. AsksIs(z, a, y) /\ SameWrites(z, y)
    BY <1>1, <2>1, <2>2, <2>5, RequestIs
  <2>7. AsksIs(s, a, y)
    BY <2>2, <2>3, <2>4, <2>5, <2>6 DEF AsksIs, NewestTo, SameState, SameReads
  <2>8. WroteIs(s, a, y) /\ ~y.waits
    BY <2>2, <2>6, <2>7 DEF AsksIs, WroteIs, SameWrites
  <2>9. Newest(y).queue = Append(Newest(s).queue, a) /\ Newest(y).wire = Newest(s).wire
    <3> DEFINE o == Newest(s)
               p == Newest(y)
    <3>1. p = Queued(o, a)
      BY <1>1, <1>3, <2>7, QueuedHandle, NewestChanges DEF AsksIs
    <3>2. o \in HandleType /\ a \in Nat
      BY <1>1, <1>3
    <3> HIDE DEF o, p
    <3>3. Queued(o, a).queue = Append(o.queue, a) /\ Queued(o, a).wire = o.wire
      BY <3>2, QueuedHandle
    <3>4. p.queue = Append(o.queue, a) /\ p.wire = o.wire
      BY <3>1, <3>3, Zenon
    <3>5. QED BY <3>4 DEF o, p
  <2>10. \A b : Has(Newest(y).queue, b) <=> Has(Newest(s).queue, b) \/ a = b
    <3> DEFINE t == Newest(s).queue
               u == Newest(y).queue
    <3>1. t \in Seq(Nat) /\ a \in Nat /\ u = Append(t, a)
      BY <1>1, <1>3, <2>9
    <3> HIDE DEF t, u
    <3>2. \A b : Has(u, b) <=> Has(t, b) \/ a = b
      BY <3>1, NumberPut, Zenon
    <3>3. QED BY <3>2 DEF t, u
  <2>11. /\ y.cur = a /\ y.buffer = s.buffer /\ y.ending = s.ending /\ y.final = s.final /\ y.settled = s.settled
         /\ y.finalWaits = s.finalWaits /\ y.again = s.again /\ y.ticks = s.ticks /\ y.macros = s.macros
    BY <2>8 DEF WroteIs
  <2>12. IdsOK(y, n)
    BY <1>1, <1>2, <2>11 DEF IdsOK, Unknown, MayWrite
  <2>13. PendingOK(y)
    <3>1. OnceIn(Newest(s).queue, a, Answers(s.macros), a) /\ ~Has(Newest(s).queue, a) /\ ~Has(Answers(s.macros), a)
      BY OnceNone DEF Idle, MayWrite
    <3>2. OnceIn(Newest(y).queue, a, Answers(y.macros), a)
      <4> DEFINE N == Nat
      <4>1. Newest(s).queue \in Seq(N) /\ a \in N
        BY <1>1, <1>3
      <4> HIDE DEF N
      <4>2. QED BY <2>9, <2>11, <3>1, <4>1, OncePut
    <3>3. \A b \in Nat : Has(Newest(y).queue, b) \/ Has(Answers(y.macros), b) => b \in {Fin, a}
      BY <1>2, <2>10, <2>11 DEF PendingOK, MayWrite, Fin
    <3>4. QED BY <1>1, <2>8, <2>11, <3>2, <3>3 DEF PendingOK
  <2>14. WireOK(y, n)
    <3>1. CASE s.again
      BY <2>11, <3>1 DEF WireOK
    <3>2. CASE ~s.again
      <4>1. s.final = "no" /\ \A b \in Nat : Sent(s, b) => b # Fin /\ b < a
        BY <3>2 DEF MayWrite
      <4>2. Fits(Newest(s).wire, Newest(s).queue, a)
        BY <4>1 DEF Fits, Sent, Before
      <4>3. Outgoing(Newest(y).wire, Newest(y).queue)
        BY <1>1, <1>2, <1>3, <2>9, <3>2, <4>2, OutgoingPut DEF WireOK
      <4>4. \A b \in Nat : Sent(y, b) => Sent(s, b) \/ b = a
        BY <2>9, <2>10 DEF Sent
      <4>5. \A b \in Nat : Has(s.buffer, b) => a < b
        BY DEF MayWrite
      <4>6. ~Sent(y, Fin) /\ y.final = "no" /\ ~y.finalWaits
        BY <1>1, <1>2, <2>11, <3>2, <4>1, <4>4 DEF Fin, WireOK
      <4>7. \A b \in Nat : Sent(y, b) => b <= n /\ (b # Fin => \A d \in Nat : Has(y.buffer, d) => b < d)
        BY <1>1, <1>2, <2>11, <3>2, <4>4, <4>5 DEF WireOK
      <4>8. QED BY <4>3, <4>6, <4>7 DEF WireOK
    <3>3. QED BY <3>1, <3>2
  <2>15. Has(s.events, "connect")
    BY <1>1, <1>5 DEF SocketOK, ConnectOK
  <2>16. SocketOK(y, n)
    BY <1>1, <2>7, <2>11, <2>12, <2>13, <2>14, <2>15, AskKeeps
  <2>17. QED BY <2>8, <2>16 DEF y
<1>6. QED BY <1>4, <1>5

-----------------------------------------------------------------------------
(* Socket: the end of the writes *)

\* _final goes one stage further.
FinalTo(s, f, y) ==
  /\ WritesIs(s, y) /\ y.settled = s.settled /\ y.cur = s.cur /\ y.waits = s.waits /\ y.buffer = s.buffer
  /\ y.ending = s.ending /\ y.finalWaits = s.finalWaits /\ y.again = s.again /\ y.final = f

LEMMA FinalKeeps ==
  ASSUME NEW s, NEW n \in Nat, SocketOK(s, n), s.final # "done", NEW f, NEW y, FinalTo(s, f, y),
         f = "done" => Has(s.events, "connect"), WireOK(y, n)
  PROVE  SocketOK(y, n)
<1>1. /\ WritesIs(s, y) /\ y.settled = s.settled /\ y.cur = s.cur /\ y.waits = s.waits /\ y.buffer = s.buffer
      /\ y.final = f /\ Newest(y) = Newest(s)
  BY DEF FinalTo, WritesIs, Newest
<1>2. /\ y \in Sockets /\ y.ticks = s.ticks /\ y.macros = s.macros /\ y.events = s.events /\ y.handles = s.handles
      /\ SameState(s, y) /\ SameReads(s, y)
  BY <1>1 DEF WritesIs
<1>3. HandlesOK(y) /\ ReportOK(y) /\ ConnectOK(y)
  BY <1>1, <1>2 DEF SocketOK, HandlesOK, ReportOK, Reported, ConnectOK, SameState
<1>4. UntouchedOK(y)
  BY <1>1, <1>2 DEF SocketOK, UntouchedOK, Untouched, SameReads
<1>5. SaidOK(y)
  BY <1>1, <1>2 DEF SocketOK, SaidOK, SameState, SameReads
<1>6. ComesOnce(y)
  BY <1>2 DEF SocketOK, ComesOnce
<1>7. IdsOK(y, n)
  BY <1>1, <1>2 DEF SocketOK, IdsOK, Unknown
<1>8. PendingOK(y)
  BY <1>1, <1>2 DEF SocketOK, PendingOK, Idle
<1>9. FinOK(y)
  BY <1>1, <1>2 DEF SocketOK, FinOK
<1>10. ReadOK(y)
  BY <1>1, <1>2 DEF SocketOK, ReadOK, SameState, SameReads
<1>11. QED BY <1>2, <1>3, <1>4, <1>5, <1>6, <1>7, <1>8, <1>9, <1>10 DEF SocketOK

FinalMay(s) == s.again \/ (s.final = "called" /\ ~Sent(s, Fin))
FinalIs(s, y) ==
  /\ y \in Sockets /\ y.cur = s.cur /\ y.waits = s.waits /\ y.buffer = s.buffer /\ y.ending = s.ending
  /\ y.final = s.final /\ y.again = s.again
  /\ y.ticks = s.ticks /\ y.macros = s.macros /\ y.events = s.events /\ y.settled = s.settled
  /\ SameState(s, y) /\ SameReads(s, y) /\ y.conf = s.conf

LEMMA Finals ==
  ASSUME NEW s, NEW n \in Nat, SocketOK(s, n), FinalMay(s)
  PROVE  SocketOK(Final(s), n) /\ FinalIs(s, Final(s))
<1> DEFINE y == Final(s)
<1>1. s \in Sockets /\ HandlesOK(s) /\ IdsOK(s, n) /\ PendingOK(s) /\ WireOK(s, n)
  BY DEF SocketOK
<1>2. CASE s.handle = 0 \/ s.connecting
  <2>1. y = [s EXCEPT !.finalWaits = TRUE]
    BY <1>2 DEF Final
  <2> HIDE DEF y
  <2>2. /\ y \in Sockets /\ y.handles = s.handles /\ y.conf = s.conf /\ y.cur = s.cur /\ y.buffer = s.buffer
        /\ y.waits = s.waits /\ y.ending = s.ending /\ y.final = s.final /\ y.again = s.again
    BY <1>1, <2>1, ZenonT(40) DEF Sockets
  <2>3. y.ticks = s.ticks /\ y.macros = s.macros /\ y.events = s.events /\ y.settled = s.settled
    BY <1>1, <2>1 DEF Sockets
  <2>4. SameState(s, y) /\ SameReads(s, y)
    BY <1>1, <2>1 DEF Sockets, SameState, SameReads
  <2>5. WritesIs(s, y) /\ FinalIs(s, y) /\ Newest(y) = Newest(s)
    BY <2>2, <2>3, <2>4 DEF WritesIs, FinalIs, Newest
  <2>6. IdsOK(y, n)
    BY <1>1, <2>2, <2>3 DEF IdsOK, Unknown
  <2>7. PendingOK(y)
    BY <1>1, <2>2, <2>3, <2>5 DEF PendingOK, Idle
  <2>8. WireOK(y, n)
    BY <1>1, <2>2, <2>5 DEF WireOK, Sent, FinalMay
  <2>9. SocketOK(y, n)
    BY <2>2, <2>5, <2>6, <2>7, <2>8, WritesKeep
  <2>10. QED BY <2>5, <2>9 DEF y
<1>3. CASE ~(s.handle = 0 \/ s.connecting)
  <2> DEFINE z == [s EXCEPT !.finalWaits = FALSE]
  <2>1. y = Request(z, 0)
    BY <1>3 DEF Final, Fin
  <2>2. /\ z \in Sockets /\ z.handles = s.handles /\ z.conf = s.conf /\ z.cur = s.cur /\ z.buffer = s.buffer
        /\ z.waits = s.waits /\ z.ending = s.ending /\ z.final = s.final /\ ~z.finalWaits /\ z.again = s.again
    BY <1>1, ZenonT(40) DEF Sockets
  <2>3. z.ticks = s.ticks /\ z.macros = s.macros /\ z.events = s.events /\ z.settled = s.settled
    BY <1>1 DEF Sockets
  <2>4. SameState(s, z) /\ SameReads(s, z)
    BY <1>1 DEF Sockets, SameState, SameReads
  <2> HIDE DEF z, y
  <2>5. HandlesOK(z) /\ ~z.destroyed /\ Newest(z) = Newest(s)
    BY <1>1, <1>3, <2>2, <2>4 DEF HandlesOK, SameState, Newest
  <2>6. AsksIs(z, 0, y) /\ SameWrites(z, y)
    BY <2>1, <2>2, <2>5, RequestIs
  <2>7. AsksIs(s, 0, y)
    BY <2>2, <2>3, <2>4, <2>5, <2>6 DEF AsksIs, NewestTo, SameState, SameReads
  <2>8. FinalIs(s, y) /\ ~y.finalWaits
    BY <2>2, <2>6, <2>7 DEF AsksIs, FinalIs, SameWrites
  <2> DEFINE w == Newest(s).wire
             t == Newest(s).queue
             u == Newest(y).queue
  <2>9. w \in Seq(Nat) /\ t \in Seq(Nat) /\ u = Append(t, 0) /\ Newest(y).wire = w
    <3>1. Newest(y) = Queued(Newest(s), 0)
      BY <1>1, <2>7, NewestFields, QueuedHandle, NewestChanges DEF AsksIs
    <3>2. QED BY <1>1, <3>1, NewestFields, QueuedHandle
  <2> HIDE DEF w, t, u
  <2>10. \A b : Has(u, b) <=> Has(t, b) \/ 0 = b
    BY <2>9, NumberPut, Zenon
  <2>11. /\ y.cur = s.cur /\ y.buffer = s.buffer /\ y.ending = s.ending /\ y.final = s.final /\ y.settled = s.settled
         /\ y.waits = s.waits /\ y.again = s.again /\ y.ticks = s.ticks /\ y.macros = s.macros
    BY <2>8 DEF FinalIs
  <2>12. IdsOK(y, n)
    BY <1>1, <2>11 DEF IdsOK, Unknown
  <2>13. PendingOK(y)
    <3>1. \A b \in Nat : Has(u, b) \/ Has(Answers(y.macros), b) => b \in {Fin, y.cur}
      BY <1>1, <2>10, <2>11 DEF PendingOK, Fin, t
    <3>2. ASSUME s.cur # 0 PROVE OnceIn(u, y.cur, Answers(y.macros), y.cur)
      <4>1. OnceIn(t, s.cur, Answers(s.macros), s.cur)
        BY <1>1, <3>2 DEF PendingOK, t
      <4>2. Single(u, s.cur)
        <5> DEFINE N == Nat
        <5>1. t \in Seq(N) /\ 0 \in N
          BY <2>9
        <5> HIDE DEF N
        <5>2. QED BY <2>9, <3>2, <4>1, <5>1, SingleAppend DEF OnceIn
      <4>3. QED BY <2>10, <2>11, <3>2, <4>1, <4>2 DEF OnceIn
    <3>3. s.waits => ~Has(u, s.cur) /\ ~Has(Answers(s.macros), s.cur) /\ s.cur # 0
      BY <1>1, <2>10 DEF PendingOK, Idle, t
    <3>4. QED BY <2>11, <3>1, <3>2, <3>3 DEF PendingOK, Idle, u
  <2>14. WireOK(y, n)
    <3>1. CASE s.again
      BY <2>11, <3>1 DEF WireOK
    <3>2. CASE ~s.again
      <4>1. s.final = "called" /\ ~Has(w, 0) /\ ~Has(t, 0)
        BY <3>2 DEF FinalMay, Sent, Fin, w, t
      <4>2. Fits(w, t, 0)
        BY <4>1 DEF Fits, Before, Fin
      <4>3. Outgoing(w, u)
        <5>1. Outgoing(w, t)
          BY <1>1, <3>2 DEF WireOK, w, t
        <5>2. QED BY <2>9, <4>2, <5>1, OutgoingPut
      <4>4. \A b \in Nat : Sent(y, b) => Sent(s, b) \/ b = 0
        BY <2>9, <2>10 DEF Sent, u, t, w
      <4>5. \A b \in Nat : Sent(y, b) => b <= n /\ (b # Fin => \A d \in Nat : Has(y.buffer, d) => b < d)
        BY <1>1, <2>11, <3>2, <4>4 DEF WireOK, Fin
      <4>6. y.ending /\ y.cur = 0 /\ y.buffer = <<>> /\ y.final = "called" /\ ~y.finalWaits
        BY <1>1, <2>8, <2>11, <3>2, <4>1 DEF WireOK
      <4>7. Outgoing(Newest(y).wire, Newest(y).queue)
        BY <2>9, <4>3 DEF u
      <4>8. QED BY <4>5, <4>6, <4>7 DEF WireOK
    <3>3. QED BY <3>1, <3>2
  <2>15. Has(s.events, "connect")
    BY <1>3 DEF SocketOK, ConnectOK, HandlesOK
  <2>16. SocketOK(y, n)
    BY <2>7, <2>11, <2>12, <2>13, <2>14, <2>15, AskKeeps
  <2>17. QED BY <2>8, <2>16 DEF y
<1>4. QED BY <1>2, <1>3

\* finishMaybe
FinishesIs(s, y) ==
  /\ y \in Sockets /\ y.cur = s.cur /\ y.waits = s.waits /\ y.buffer = s.buffer /\ y.ending = s.ending
  /\ y.again = s.again /\ y.ticks = s.ticks /\ y.macros = s.macros /\ y.events = s.events /\ y.settled = s.settled
  /\ SameState(s, y) /\ SameReads(s, y) /\ y.conf = s.conf

LEMMA Finishes ==
  ASSUME NEW s, NEW n \in Nat, SocketOK(s, n)
  PROVE  SocketOK(SFinishMaybe(s), n) /\ FinishesIs(s, SFinishMaybe(s))
<1> DEFINE y == [s EXCEPT !.final = "called"]
<1>1. s \in Sockets
  BY DEF SocketOK
<1>2. CASE SNeedFinish(s) /\ s.final = "no"
  <2>1. SFinishMaybe(s) = Final(y)
    BY <1>2 DEF SFinishMaybe
  <2>2. /\ y \in Sockets /\ y.handles = s.handles /\ y.conf = s.conf /\ y.cur = s.cur /\ y.buffer = s.buffer
        /\ y.waits = s.waits /\ y.ending = s.ending /\ y.final = "called" /\ y.again = s.again /\ y.finalWaits = s.finalWaits
    BY <1>1, ZenonT(40) DEF Sockets
  <2>3. y.ticks = s.ticks /\ y.macros = s.macros /\ y.events = s.events /\ y.settled = s.settled
    BY <1>1 DEF Sockets
  <2>4. SameState(s, y) /\ SameReads(s, y)
    BY <1>1 DEF Sockets, SameState, SameReads
  <2> HIDE DEF y
  <2>5. FinalTo(s, "called", y) /\ Newest(y) = Newest(s)
    BY <2>2, <2>3, <2>4 DEF FinalTo, WritesIs, Newest
  <2>6. s.ending /\ s.cur = 0 /\ s.buffer = <<>>
    BY <1>2 DEF SNeedFinish
  <2>7. WireOK(y, n) /\ FinalMay(y)
    BY <1>2, <2>2, <2>5, <2>6 DEF SocketOK, WireOK, FinalMay, Sent
  <2>8. SocketOK(y, n)
    BY <1>2, <2>5, <2>7, FinalKeeps
  <2>9. SocketOK(Final(y), n) /\ FinalIs(y, Final(y))
    BY <2>7, <2>8, Finals
  <2>10. FinishesIs(s, Final(y))
    BY <2>2, <2>3, <2>4, <2>9 DEF FinalIs, FinishesIs, SameState, SameReads
  <2>11. QED BY <2>1, <2>9, <2>10
<1>3. CASE ~(SNeedFinish(s) /\ s.final = "no")
  <2>1. SFinishMaybe(s) = s
    BY <1>3 DEF SFinishMaybe
  <2>2. QED BY <1>1, <2>1 DEF FinishesIs, SameState, SameReads
<1>4. QED BY <1>2, <1>3

\* What is buffered waits for a write, as long as the socket lives.
TidyOK(s) == ~s.destroyed => ~s.errored /\ (s.buffer # <<>> => s.cur # 0)
Sound(s, n) == SocketOK(s, n) /\ TidyOK(s)
\* The next of the buffer is written.
NextIs(s, y) == y.cur # 0 /\ y.errored = s.errored /\ y.destroyed = s.destroyed
LEMMA WritesNext ==
  ASSUME NEW s, NEW n \in Nat, SocketOK(s, n), s.cur # 0, Idle(s, s.cur), s.buffer # <<>>, ~s.destroyed,
         NEW z, z = [OverOf(s) EXCEPT !.buffer = Tail(s.buffer)]
  PROVE  SocketOK(WriteGeneric(z, Head(s.buffer)), n) /\ FreeId(WriteGeneric(z, Head(s.buffer)), s.cur, n)
         /\ NextIs(s, WriteGeneric(z, Head(s.buffer)))
<1> DEFINE o == OverOf(s)
           a == Head(s.buffer)
           y == WriteGeneric(z, a)
<1>1. /\ s \in Sockets /\ IdsOK(s, n) /\ PendingOK(s) /\ WireOK(s, n) /\ s.cur \in Nat \ {0} /\ s.buffer \in Seq(Nat)
  BY SocketFields DEF SocketOK
<1>2. /\ Tail(s.buffer) \in Seq(Nat) /\ a \in Nat /\ Rising(Tail(s.buffer))
      /\ \A b \in Nat : Has(s.buffer, b) <=> a = b \/ Has(Tail(s.buffer), b)
      /\ \A b \in Nat : Has(Tail(s.buffer), b) => a < b
  BY <1>1, RisingTail DEF IdsOK
<1>3. OverIs(s, o)
  <2>1. o = [s EXCEPT !.cur = 0, !.waits = FALSE]
    BY DEF OverOf
  <2> HIDE DEF o
  <2>2. /\ o \in Sockets /\ o.handles = s.handles /\ o.conf = s.conf /\ o.cur = 0 /\ o.buffer = s.buffer
        /\ ~o.waits /\ o.ending = s.ending /\ o.final = s.final /\ o.again = s.again /\ o.finalWaits = s.finalWaits
    BY <1>1, <2>1, ZenonT(40) DEF Sockets
  <2>3. o.ticks = s.ticks /\ o.macros = s.macros /\ o.events = s.events /\ o.settled = s.settled
    BY <1>1, <2>1 DEF Sockets
  <2>4. SameState(s, o) /\ SameReads(s, o)
    BY <1>1, <2>1 DEF Sockets, SameState, SameReads
  <2>5. QED BY <2>2, <2>3, <2>4 DEF OverIs, WritesIs
<1>4. SocketOK(o, n)
  BY <1>3, OverKeeps
<1>5. o \in Sockets /\ WritesIs(s, o) /\ o.cur = 0 /\ ~o.waits /\ o.buffer = s.buffer /\ o.settled = s.settled
      /\ o.ending = s.ending /\ o.final = s.final /\ o.finalWaits = s.finalWaits /\ o.again = s.again
  BY <1>3 DEF OverIs, WritesIs
<1>6. z = [o EXCEPT !.buffer = Tail(s.buffer)]
  OBVIOUS
<1> HIDE DEF o, a, y
<1>7. /\ z \in Sockets /\ z.handles = o.handles /\ z.conf = o.conf /\ z.cur = o.cur /\ z.buffer = Tail(s.buffer)
      /\ z.waits = o.waits /\ z.ending = o.ending /\ z.final = o.final /\ z.again = o.again /\ z.finalWaits = o.finalWaits
  <2> DEFINE t == Tail(s.buffer)
  <2>1. t \in Seq(Nat) /\ z = [o EXCEPT !.buffer = t]
    BY <1>2, <1>6, Zenon
  <2> HIDE DEF t
  <2>2. o \in Sockets
    BY <1>5
  <2>3. z \in Sockets /\ z.buffer = t
    BY <2>1, <2>2, ZenonT(40) DEF Sockets
  <2>4. /\ z.handles = o.handles /\ z.conf = o.conf /\ z.cur = o.cur
        /\ z.waits = o.waits /\ z.ending = o.ending /\ z.final = o.final /\ z.again = o.again /\ z.finalWaits = o.finalWaits
    BY <2>1, <2>2, Zenon DEF Sockets
  <2>5. QED BY <2>3, <2>4 DEF t
<1>8. z.ticks = o.ticks /\ z.macros = o.macros /\ z.events = o.events /\ z.settled = o.settled
  BY <1>5, <1>6, Zenon DEF Sockets
<1>9. SameState(o, z) /\ SameReads(o, z)
  BY <1>5, <1>6, ZenonT(40) DEF Sockets, SameState, SameReads
<1>10. WritesIs(o, z) /\ Newest(z) = Newest(s)
  BY <1>5, <1>7, <1>8, <1>9 DEF WritesIs, Newest
<1>11. /\ z.cur = 0 /\ ~z.waits /\ z.ending = s.ending /\ z.final = s.final /\ z.again = s.again
       /\ z.finalWaits = s.finalWaits /\ z.ticks = s.ticks /\ z.macros = s.macros /\ z.settled = s.settled
       /\ ~z.destroyed /\ z.errored = s.errored /\ z.destroyed = s.destroyed
  BY <1>5, <1>7, <1>8, <1>9 DEF WritesIs, SameState
<1>12. /\ \A b \in Nat : Has(s.buffer, b) => s.cur < b /\ b <= n
       /\ Has(s.buffer, a) /\ s.cur < a /\ a <= n
  BY <1>1, <1>2 DEF IdsOK
<1>13. IdsOK(z, n)
  <2>1. \A b \in Nat : Has(z.buffer, b) => Has(s.buffer, b)
    BY <1>2, <1>7
  <2>2. \A b \in Nat : Has(z.buffer, b) => 0 < b /\ b <= n
    BY <1>1, <1>12, <2>1
  <2>3. QED BY <1>1, <1>2, <1>7, <1>11, <2>1, <2>2 DEF IdsOK, Unknown
<1>14. PendingOK(z)
  BY <1>4, <1>5, <1>10, <1>11 DEF SocketOK, PendingOK, Idle, WritesIs, Newest
<1>15. WireOK(z, n)
  <2>1. CASE s.again
    BY <1>11, <2>1, Zenon DEF WireOK
  <2>2. CASE ~s.again
    <3>1. s.final = "no" /\ ~s.finalWaits
      BY <1>1, <2>2 DEF WireOK
    <3>2. \A b \in Nat : Sent(z, b) => b <= n /\ (b # Fin => \A d \in Nat : Has(z.buffer, d) => b < d)
      BY <1>1, <1>2, <1>7, <1>10, <2>2 DEF WireOK, Sent
    <3>3. QED BY <1>1, <1>10, <1>11, <2>2, <3>1, <3>2, Zenon DEF WireOK, Sent
  <2>3. QED BY <2>1, <2>2
<1>16. SocketOK(z, n)
  BY <1>4, <1>7, <1>10, <1>13, <1>14, <1>15, WritesKeep, Zenon
<1>17. MayWrite(z, a, n)
  <2>1. Unknown(z, a)
    BY <1>1, <1>2, <1>11, <1>12 DEF IdsOK, Unknown
  <2>2. Idle(z, a)
    BY <1>1, <1>2, <1>10, <1>11, <1>12 DEF PendingOK, Idle, Fin
  <2>3. s.again \/ (s.final = "no" /\ \A b \in Nat : Sent(z, b) => b # Fin /\ b < a)
    BY <1>1, <1>2, <1>10, <1>12 DEF WireOK, Sent
  <2>4. a \in Nat \ {0} /\ \A b \in Nat : Has(z.buffer, b) => a < b
    BY <1>1, <1>2, <1>7, <1>12
  <2>5. QED BY <1>11, <1>12, <2>1, <2>2, <2>3, <2>4, Zenon DEF MayWrite
<1>18. SocketOK(y, n) /\ WroteIs(z, a, y)
  BY <1>16, <1>17, Writes DEF y
<1>19. FreeId(y, s.cur, n)
  <2>1. y.cur = a /\ y.buffer = Tail(s.buffer) /\ y.ticks = s.ticks /\ y.settled = s.settled
    BY <1>7, <1>11, <1>18 DEF WroteIs
  <2>2. s.cur # a /\ s.cur <= n /\ ~Has(Tail(s.buffer), s.cur)
    BY <1>1, <1>2, <1>12 DEF IdsOK
  <2>3. Unknown(y, s.cur)
    BY <1>1, <2>1 DEF IdsOK, Unknown
  <2>4. QED BY <1>1, <2>1, <2>2, <2>3 DEF FreeId
<1>20. NextIs(s, y)
  <2>1. a # 0
    BY <1>1, <1>2, <1>12
  <2>2. y.cur = a /\ y.errored = z.errored /\ y.destroyed = z.destroyed
    BY <1>18 DEF WroteIs, SameState
  <2>3. QED BY <1>11, <2>1, <2>2 DEF NextIs
<1>21. QED BY <1>18, <1>19, <1>20 DEF y, a

\* The callback of a write.
LEMMA WriteReturns ==
  ASSUME NEW s, NEW n \in Nat, Sound(s, n), s.cur # 0, Idle(s, s.cur), NEW ok \in BOOLEAN
  PROVE  Sound(WriteAnswered(s, s.cur, ok), n)
<1>0. SocketOK(s, n) /\ TidyOK(s)
  BY DEF Sound
<1> DEFINE o == OverOf(s)
           z == [o EXCEPT !.buffer = Tail(s.buffer)]
<1>1. s \in Sockets /\ s.cur \in Nat \ {0} /\ s.destroyed \in BOOLEAN
  BY <1>0, SocketFields DEF SocketOK
<1>2. OverIs(s, o) /\ o = [s EXCEPT !.cur = 0, !.waits = FALSE]
  <2>1. o = [s EXCEPT !.cur = 0, !.waits = FALSE]
    BY DEF OverOf
  <2> HIDE DEF o
  <2>2. /\ o \in Sockets /\ o.handles = s.handles /\ o.conf = s.conf /\ o.cur = 0 /\ o.buffer = s.buffer
        /\ ~o.waits /\ o.ending = s.ending /\ o.final = s.final /\ o.again = s.again /\ o.finalWaits = s.finalWaits
    BY <1>1, <2>1, ZenonT(40) DEF Sockets
  <2>3. o.ticks = s.ticks /\ o.macros = s.macros /\ o.events = s.events /\ o.settled = s.settled
    BY <1>1, <2>1 DEF Sockets
  <2>4. SameState(s, o) /\ SameReads(s, o)
    BY <1>1, <2>1 DEF Sockets, SameState, SameReads
  <2>5. QED BY <2>1, <2>2, <2>3, <2>4 DEF OverIs, WritesIs
<1>3. SocketOK(o, n) /\ FreeId(o, s.cur, n) /\ o.buffer = s.buffer /\ o \in Sockets
      /\ o.errored = s.errored /\ o.destroyed = s.destroyed
  BY <1>0, <1>2, OverKeeps, Zenon DEF OverIs, WritesIs, SameState
<1>4. CASE ok
  <2> DEFINE y == IF s.buffer # <<>> /\ ~s.destroyed THEN WriteGeneric(z, Head(s.buffer)) ELSE o
             d == Settles(y, s.cur, TRUE)
             e == IF s.destroyed THEN SErrorBuffer(d) ELSE d
  <2>1. WriteAnswered(s, s.cur, ok) = SFinishMaybe(e)
    BY <1>2, <1>3, <1>4 DEF WriteAnswered
  <2>2. SocketOK(y, n) /\ FreeId(y, s.cur, n) /\ TidyOK(y) /\ y.destroyed = s.destroyed
    <3>1. CASE s.buffer # <<>> /\ ~s.destroyed
      <4>1. z = [OverOf(s) EXCEPT !.buffer = Tail(s.buffer)] /\ y = WriteGeneric(z, Head(s.buffer))
        BY <3>1
      <4> HIDE DEF z, y
      <4>2. SocketOK(y, n) /\ FreeId(y, s.cur, n) /\ NextIs(s, y)
        BY <1>0, <1>1, <3>1, <4>1, WritesNext, Zenon
      <4>3. QED BY <1>0, <4>2 DEF NextIs, TidyOK
    <3>2. CASE ~(s.buffer # <<>> /\ ~s.destroyed)
      BY <1>0, <1>3, <3>2 DEF TidyOK
    <3>3. QED BY <3>1, <3>2
  <2> HIDE DEF y
  <2>3. SocketOK(d, n) /\ TidyOK(d) /\ d.destroyed = s.destroyed
    <3>1. SocketOK(d, n) /\ SettleIs(y, d)
      BY <2>2, SettleKeeps, Zenon
    <3> HIDE DEF d
    <3>2. QED BY <2>2, <3>1 DEF SettleIs, WritesIs, SameWrites, SameState, TidyOK
  <2> HIDE DEF d
  <2>4. SocketOK(e, n) /\ TidyOK(e)
    <3>1. CASE s.destroyed
      <4>1. SocketOK(e, n) /\ SweptIs(d, e)
        BY <2>3, <3>1, SweepKeeps
      <4> HIDE DEF e
      <4>2. QED BY <2>3, <3>1, <4>1 DEF SweptIs, WritesIs, SameState, TidyOK
    <3>2. QED BY <2>3, <3>1
  <2> HIDE DEF e
  <2>5. SocketOK(SFinishMaybe(e), n) /\ FinishesIs(e, SFinishMaybe(e))
    BY <2>4, Finishes
  <2>6. TidyOK(SFinishMaybe(e))
    BY <2>4, <2>5 DEF FinishesIs, SameState, TidyOK
  <2>7. QED BY <2>1, <2>5, <2>6 DEF Sound
<1>5. CASE ~ok
  <2> DEFINE y == [o EXCEPT !.errored = TRUE]
             d == Settles(y, s.cur, FALSE)
  <2>1. WriteAnswered(s, s.cur, ok) = SDestroy(SErrorBuffer(d), TRUE)
    BY <1>2, <1>5 DEF WriteAnswered
  <2>2. y \in Sockets /\ y.handles = o.handles /\ SameStage(o, y) /\ SameWrites(o, y) /\ SameReads(o, y) /\ SameQueues(o, y)
    <3> HIDE DEF o
    <3>1. y \in Sockets /\ y.handles = o.handles
      BY <1>3, ZenonT(40) DEF Sockets
    <3>2. SameStage(o, y) /\ SameWrites(o, y)
      BY <1>3 DEF Sockets, SameStage, SameWrites
    <3>3. SameReads(o, y) /\ SameQueues(o, y)
      BY <1>3 DEF Sockets, SameReads, SameQueues
    <3>4. QED BY <3>1, <3>2, <3>3
  <2> HIDE DEF y, o
  <2>3. SocketOK(y, n)
    BY <1>3, <2>2, SocketAlike
  <2>4. FreeId(y, s.cur, n)
    BY <1>3, <2>2 DEF FreeId, Unknown, SameWrites, SameQueues
  <2>5. SocketOK(d, n)
    BY <2>3, <2>4, SettleKeeps, Zenon
  <2> HIDE DEF d
  <2>6. SocketOK(SErrorBuffer(d), n)
    BY <2>5, SweepKeeps
  <2> DEFINE e == SErrorBuffer(d)
  <2>7. SocketOK(e, n)
    BY <2>6
  <2> HIDE DEF e
  <2>8. SocketOK(SDestroy(e, TRUE), n) /\ Ruins(e, SDestroy(e, TRUE))
    BY <2>7, Destroys, Zenon
  <2>9. QED BY <2>1, <2>8, Zenon DEF Ruins, TidyOK, Sound, e
<1>6. QED BY <1>4, <1>5

\* 'close', and end().
LEMMA EmitsTidy ==
  ASSUME NEW s, NEW n \in Nat, Sound(s, n), NEW e, EmitOK(s, e)
  PROVE  Sound(SEmit(s, e), n) /\ HeardIs(s, e, SEmit(s, e))
<1>1. SocketOK(s, n) /\ TidyOK(s) /\ s \in Sockets
  BY DEF Sound, SocketOK
<1>2. SocketOK(SEmit(s, e), n) /\ HeardIs(s, e, SEmit(s, e))
  BY <1>1, Emits
<1>3. LogIs(s, e, Emitted(s, e))
  BY <1>1, LogFields DEF EmitOK
<1>4. TidyOK(Emitted(s, e))
  BY <1>1, <1>3 DEF LogIs, SameState, SameWrites, TidyOK
<1>5. TidyOK(SEmit(s, e))
  BY <1>2, <1>4 DEF HeardIs, TidyOK
<1>6. QED BY <1>2, <1>5 DEF Sound

LEMMA DestroysTidy ==
  ASSUME NEW s, NEW n \in Nat, Sound(s, n), NEW err \in BOOLEAN
  PROVE  Sound(SDestroy(s, err), n) /\ Ruins(s, SDestroy(s, err))
BY Destroys DEF Sound, Ruins, TidyOK

LEMMA FinishesTidy ==
  ASSUME NEW s, NEW n \in Nat, Sound(s, n)
  PROVE  Sound(SFinishMaybe(s), n) /\ FinishesIs(s, SFinishMaybe(s))
<1>1. SocketOK(SFinishMaybe(s), n) /\ FinishesIs(s, SFinishMaybe(s))
  BY Finishes DEF Sound
<1>2. QED BY <1>1 DEF FinishesIs, SameState, TidyOK, Sound

LEMMA Closes ==
  ASSUME NEW s, NEW n \in Nat, Sound(s, n), EmitOK(s, "close") PROVE Sound(EmitClose(s), n)
<1> DEFINE t == SEmit(s, "close")
<1>1. Sound(t, n)
  BY EmitsTidy
<1>2. EmitClose(s) = IF t.waits THEN WriteAnswered(t, t.cur, FALSE) ELSE t
  BY DEF EmitClose
<1> HIDE DEF t
<1>3. t.waits => t.cur # 0 /\ Idle(t, t.cur)
  BY <1>1 DEF SocketOK, PendingOK, Sound
<1>4. QED BY <1>1, <1>2, <1>3, WriteReturns, Zenon

LEMMA Ends ==
  ASSUME NEW s, NEW n \in Nat, Sound(s, n) PROVE Sound(SEnd(s), n)
<1> DEFINE y == [s EXCEPT !.ending = TRUE]
<1>1. s \in Sockets /\ SocketOK(s, n) /\ TidyOK(s)
  BY DEF SocketOK, Sound
<1>2. /\ y \in Sockets /\ y.handles = s.handles /\ y.conf = s.conf /\ y.cur = s.cur /\ y.buffer = s.buffer
      /\ y.waits = s.waits /\ y.ending /\ y.final = s.final /\ y.again = s.again /\ y.finalWaits = s.finalWaits
  BY <1>1, ZenonT(40) DEF Sockets
<1>3. y.ticks = s.ticks /\ y.macros = s.macros /\ y.events = s.events /\ y.settled = s.settled
  BY <1>1 DEF Sockets
<1>4. SameState(s, y) /\ SameReads(s, y)
  BY <1>1 DEF Sockets, SameState, SameReads
<1>5. SEnd(s) = IF s.ending \/ s.errored THEN s ELSE SFinishMaybe(y)
  BY DEF SEnd
<1> HIDE DEF y
<1>6. WritesIs(s, y) /\ Newest(y) = Newest(s)
  BY <1>2, <1>3, <1>4 DEF WritesIs, Newest
<1>7. IdsOK(y, n) /\ PendingOK(y) /\ WireOK(y, n)
  BY <1>1, <1>2, <1>3, <1>6 DEF SocketOK, IdsOK, Unknown, PendingOK, Idle, WireOK, Sent
<1>8. SocketOK(y, n)
  BY <1>1, <1>2, <1>6, <1>7, WritesKeep
<1>9. TidyOK(y)
  BY <1>1, <1>2, <1>4 DEF TidyOK, SameState
<1>10. QED BY <1>5, <1>8, <1>9, FinishesTidy DEF Sound

LEMMA TicksTidy ==
  ASSUME NEW s, NEW n \in Nat, Sound(s, n), NEW op, TickOK(s, op)
  PROVE  Sound(STick(s, op), n) /\ PutIs(s, STickOf(op), STick(s, op))
<1>1. SocketOK(STick(s, op), n) /\ PutIs(s, STickOf(op), STick(s, op))
  BY PutSTick DEF Sound
<1>2. QED BY <1>1 DEF Sound, TidyOK, PutIs, SameState, SameWrites

\* The callback of shutdown().
LEMMA Finaled ==
  ASSUME NEW s, NEW n \in Nat, Sound(s, n), Has(s.events, "connect"), NEW ok \in BOOLEAN,
         ok => Has(Newest(s).wire, Fin)
  PROVE  Sound(FinalAnswered(s, ok), n)
<1>1. s \in Sockets /\ SocketOK(s, n) /\ TidyOK(s)
  BY DEF SocketOK, Sound
<1>2. CASE ~s.destroyed /\ (~ok \/ s.final = "done")
  <2>1. FinalAnswered(s, ok) = SDestroy(s, TRUE)
    BY <1>2, Zenon DEF FinalAnswered
  <2>2. QED BY <2>1, DestroysTidy, Zenon
<1>3. CASE ok /\ SNeedFinish(s) /\ s.final = "called"
  <2> DEFINE y == [s EXCEPT !.final = "done"]
  <2>1. FinalAnswered(s, ok) = STick(y, "finish")
    BY <1>3 DEF FinalAnswered
  <2>2. /\ y \in Sockets /\ y.handles = s.handles /\ y.conf = s.conf /\ y.cur = s.cur /\ y.buffer = s.buffer
        /\ y.waits = s.waits /\ y.ending = s.ending /\ y.final = "done" /\ y.again = s.again /\ y.finalWaits = s.finalWaits
    BY <1>1, ZenonT(40) DEF Sockets
  <2>3. y.ticks = s.ticks /\ y.macros = s.macros /\ y.events = s.events /\ y.settled = s.settled
    BY <1>1 DEF Sockets
  <2>4. SameState(s, y) /\ SameReads(s, y)
    BY <1>1 DEF Sockets, SameState, SameReads
  <2> HIDE DEF y
  <2>5. FinalTo(s, "done", y) /\ Newest(y) = Newest(s)
    BY <2>2, <2>3, <2>4 DEF FinalTo, WritesIs, Newest
  <2>6. ~s.destroyed /\ Has(Newest(s).wire, Fin)
    BY <1>3 DEF SNeedFinish
  <2>7. WireOK(y, n)
    BY <1>1, <1>3, <2>2, <2>5, <2>6 DEF SocketOK, WireOK, Sent
  <2>8. SocketOK(y, n)
    BY <1>1, <1>3, <2>5, <2>7, FinalKeeps
  <2>9. TidyOK(y)
    BY <1>1, <2>2, <2>4 DEF TidyOK, SameState
  <2>10. ~Has(Ops(s.ticks), "finish") /\ ~Has(s.events, "finish") /\ ~Has(s.events, "close")
    BY <1>1, <1>3, <2>6 DEF SocketOK, SaidOK
  <2>11. TickOK(y, "finish")
    BY <2>2, <2>3, <2>5, <2>6, <2>10 DEF TickOK, TickOps
  <2>12. QED BY <2>1, <2>8, <2>9, <2>11, TicksTidy DEF Sound
<1>4. CASE ~(~s.destroyed /\ (~ok \/ s.final = "done")) /\ ~(ok /\ SNeedFinish(s) /\ s.final = "called")
  <2>1. FinalAnswered(s, ok) = s
    BY <1>4, Zenon DEF FinalAnswered
  <2>2. QED BY <2>1
<1>5. QED BY <1>2, <1>3, <1>4

\* write() of a new number.
LEMMA MoreWrites ==
  ASSUME NEW s, NEW n \in Nat, SocketOK(s, n)
  PROVE  /\ SocketOK(s, n + 1) /\ Unknown(s, n + 1) /\ s.cur # n + 1 /\ ~Has(s.buffer, n + 1) /\ Idle(s, n + 1)
         /\ \A b \in Nat : Has(s.buffer, b) => b < n + 1 /\ s.cur < b
         /\ s.cur < n + 1 /\ (s.again \/ \A b \in Nat : Sent(s, b) => b < n + 1)
<1>1. /\ IdsOK(s, n) /\ PendingOK(s) /\ WireOK(s, n) /\ s.cur \in Nat /\ n + 1 \in Nat
  BY SocketFields DEF SocketOK
<1> DEFINE m == n + 1
<1>2. \A a \in Nat : a <= n => a <= m /\ a < m /\ a # m
  OBVIOUS
<1>3. m \in Nat /\ m # 0
  OBVIOUS
<1> HIDE DEF m
<1>4. IdsOK(s, m)
  BY <1>1, <1>2 DEF IdsOK
<1>5. WireOK(s, m)
  BY <1>1, <1>2 DEF WireOK
<1>6. Unknown(s, m) /\ s.cur # m /\ ~Has(s.buffer, m)
  BY <1>1, <1>2, <1>3 DEF IdsOK, Unknown
<1>7. Idle(s, m)
  BY <1>1, <1>3, <1>6 DEF PendingOK, Idle, Fin
<1>8. /\ \A b \in Nat : Has(s.buffer, b) => b < m /\ s.cur < b
      /\ s.cur < m /\ (s.again \/ \A b \in Nat : Sent(s, b) => b < m)
  BY <1>1, <1>2 DEF IdsOK, WireOK
<1>9. QED BY <1>4, <1>5, <1>6, <1>7, <1>8 DEF SocketOK, m

LEMMA NewWrite ==
  ASSUME NEW s, NEW n \in Nat, Sound(s, n)
  PROVE  Sound(SWrite(s, n + 1), n + 1)
<1> DEFINE m == n + 1
<1>1. s \in Sockets /\ SocketOK(s, n) /\ TidyOK(s) /\ s.buffer \in Seq(Nat) /\ s.cur \in Nat
  BY SocketFields DEF SocketOK, Sound
<1>2. /\ SocketOK(s, m) /\ Unknown(s, m) /\ s.cur # m /\ ~Has(s.buffer, m) /\ Idle(s, m)
      /\ \A b \in Nat : Has(s.buffer, b) => b < m /\ s.cur < b
      /\ s.cur < m /\ (s.again \/ \A b \in Nat : Sent(s, b) => b < m)
  BY <1>1, MoreWrites
<1>3. m \in Nat \ {0} /\ m \in Nat /\ m <= m
  OBVIOUS
<1> HIDE DEF m
<1>4. CASE s.ending \/ s.destroyed
  <2> DEFINE y == [s EXCEPT !.ticks = Append(s.ticks, [op |-> "refuse", id |-> m])]
  <2>1. SWrite(s, m) = SDestroy(y, TRUE)
    BY <1>4, Zenon DEF SWrite
  <2>2. SocketOK(y, m)
    BY <1>2, <1>3, PutRefusal
  <2>3. SocketOK(SDestroy(y, TRUE), m) /\ Ruins(y, SDestroy(y, TRUE))
    <3> HIDE DEF y
    <3>1. QED BY <1>3, <2>2, Destroys, Zenon
  <2>4. QED BY <2>1, <2>3, Zenon DEF m, Ruins, TidyOK, Sound
<1>5. CASE ~(s.ending \/ s.destroyed) /\ (s.cur # 0 \/ s.errored)
  <2> DEFINE t == Append(s.buffer, m)
             y == SWrite(s, m)
  <2>1. /\ t \in Seq(Nat) /\ Rising(t) /\ \A b \in Nat : Has(t, b) <=> Has(s.buffer, b) \/ m = b
    <3> HIDE DEF t
    <3>1. t = Append(s.buffer, m) /\ Rising(s.buffer) /\ \A b \in Nat : Has(s.buffer, b) => b < m
      BY <1>2 DEF SocketOK, IdsOK, t
    <3>2. t \in Seq(Nat) /\ \A b : Has(t, b) <=> Has(s.buffer, b) \/ m = b
      <4> DEFINE w == s.buffer
      <4>1. w \in Seq(Nat) /\ m \in Nat /\ t = Append(w, m)
        BY <1>1, <1>3, <3>1
      <4> HIDE DEF w
      <4>2. t \in Seq(Nat) /\ \A b : Has(t, b) <=> Has(w, b) \/ m = b
        BY <4>1, NumberPut, Zenon
      <4>3. QED BY <4>2 DEF w
    <3>3. Rising(t)
      BY <1>1, <1>3, <3>1, RisingPut
    <3>4. QED BY <3>2, <3>3
  <2>2. y = [s EXCEPT !.buffer = t]
    BY <1>5 DEF SWrite
  <2> HIDE DEF t, y
  <2>3. /\ y \in Sockets /\ y.handles = s.handles /\ y.conf = s.conf /\ y.cur = s.cur /\ y.buffer = t
        /\ y.waits = s.waits /\ y.ending = s.ending /\ y.final = s.final /\ y.again = s.again /\ y.finalWaits = s.finalWaits
    BY <1>1, <2>1, <2>2, ZenonT(40) DEF Sockets
  <2>4. y.ticks = s.ticks /\ y.macros = s.macros /\ y.events = s.events /\ y.settled = s.settled
    BY <1>1, <2>2 DEF Sockets
  <2>5. SameState(s, y) /\ SameReads(s, y)
    BY <1>1, <2>2 DEF Sockets, SameState, SameReads
  <2>6. WritesIs(s, y) /\ Newest(y) = Newest(s)
    BY <2>3, <2>4, <2>5 DEF WritesIs, Newest
  <2>7. IdsOK(y, m)
    <3>1. \A a \in Nat : Has(t, a) => s.cur < a /\ a <= m
      BY <1>2, <1>3, <2>1 DEF SocketOK, IdsOK
    <3>2. QED BY <1>2, <2>1, <2>3, <2>4, <3>1 DEF SocketOK, IdsOK, Unknown
  <2>8. PendingOK(y)
    BY <1>2, <2>3, <2>4, <2>6 DEF SocketOK, PendingOK, Idle
  <2>9. WireOK(y, m)
    <3>1. CASE s.again
      BY <2>3, <3>1 DEF WireOK
    <3>2. CASE ~s.again
      <4>1. WireOK(s, m) /\ s.final = "no"
        BY <1>2, <1>5, <3>2 DEF SocketOK, WireOK
      <4>2. \A b \in Nat : Sent(y, b) => b <= m /\ (b # Fin => \A d \in Nat : Has(y.buffer, d) => b < d)
        BY <1>2, <2>1, <2>3, <2>6, <3>2, <4>1 DEF WireOK, Sent
      <4>3. QED BY <2>3, <2>6, <3>2, <4>1, <4>2 DEF WireOK, Sent
    <3>3. QED BY <3>1, <3>2
  <2>10. SocketOK(y, m)
    BY <1>2, <1>3, <2>3, <2>6, <2>7, <2>8, <2>9, WritesKeep
  <2>11. TidyOK(y)
    BY <1>1, <1>5, <2>3, <2>5 DEF TidyOK, SameState
  <2>12. QED BY <2>10, <2>11 DEF Sound, y, m
<1>6. CASE ~(s.ending \/ s.destroyed) /\ ~(s.cur # 0 \/ s.errored)
  <2> DEFINE y == WriteGeneric(s, m)
  <2>1. SWrite(s, m) = y
    BY <1>6 DEF SWrite
  <2>2. s.buffer = <<>> /\ s.cur = 0
    BY <1>1, <1>6 DEF TidyOK
  <2>3. s.again \/ (s.final = "no" /\ \A b \in Nat : Sent(s, b) => b # Fin /\ b < m)
    BY <1>2, <1>6 DEF SocketOK, WireOK
  <2>4. \A b \in Nat : ~Has(s.buffer, b)
    BY <2>2, EmptySeq DEF Has
  <2>5. MayWrite(s, m, m)
    BY <1>2, <1>3, <1>6, <2>2, <2>3, <2>4 DEF MayWrite
  <2>6. SocketOK(y, m) /\ WroteIs(s, m, y)
    BY <1>2, <1>3, <2>5, Writes
  <2> HIDE DEF y
  <2>7. TidyOK(y)
    BY <1>1, <1>3, <2>2, <2>6 DEF TidyOK, WroteIs, SameState
  <2>8. QED BY <2>1, <2>6, <2>7 DEF Sound, m
<1>7. QED BY <1>4, <1>5, <1>6

\* The look-up is over, or the attempt.
LessIs(s, y) ==
  /\ y \in Sockets /\ y.handles = s.handles /\ y.connecting = s.connecting /\ y.destroyed = s.destroyed
  /\ y.handle = s.handle /\ y.errored = s.errored /\ y.conf = s.conf
  /\ SameWrites(s, y) /\ SameReads(s, y) /\ SameQueues(s, y)
  /\ y.looking => s.looking /\ y.attempt = s.attempt
  /\ y.attempt => s.attempt

LEMMA LessKeeps ==
  ASSUME NEW s, NEW n \in Nat, Sound(s, n), NEW y, LessIs(s, y)
  PROVE  Sound(y, n)
<1>1. /\ y \in Sockets /\ y.handles = s.handles /\ y.connecting = s.connecting /\ y.destroyed = s.destroyed
      /\ y.handle = s.handle /\ y.errored = s.errored /\ Newest(y) = Newest(s)
      /\ SameWrites(s, y) /\ SameReads(s, y) /\ SameQueues(s, y)
  BY DEF LessIs, Newest
<1>2. SocketOK(s, n)
  BY DEF Sound
<1>3. HandlesOK(y) /\ ReportOK(y)
  BY <1>1, <1>2 DEF SocketOK, HandlesOK, ReportOK, Reported, SameQueues
<1>4. ConnectOK(y)
  BY <1>1, <1>2 DEF SocketOK, ConnectOK, SameQueues, LessIs
<1>5. UntouchedOK(y) /\ SaidOK(y)
  BY <1>1, <1>2 DEF SocketOK, UntouchedOK, Untouched, SaidOK, SameWrites, SameReads, SameQueues
<1>6. ComesOnce(y)
  BY <1>1, <1>2 DEF SocketOK, ComesOnce, SameQueues
<1>7. IdsOK(y, n)
  BY <1>1, <1>2 DEF SocketOK, IdsOK, Unknown, SameWrites, SameQueues
<1>8. PendingOK(y) /\ WireOK(y, n)
  BY <1>1, <1>2 DEF SocketOK, PendingOK, Idle, WireOK, Sent, SameWrites, SameQueues
<1>9. FinOK(y) /\ ReadOK(y)
  BY <1>1, <1>2 DEF SocketOK, FinOK, ReadOK, SameReads, SameQueues
<1>10. TidyOK(y)
  BY <1>1 DEF Sound, TidyOK, SameWrites
<1>11. QED BY <1>1, <1>3, <1>4, <1>5, <1>6, <1>7, <1>8, <1>9, <1>10 DEF Sound, SocketOK

-----------------------------------------------------------------------------
(* Socket: the attempts to connect *)

\* The first attempt, on the handle that is there.
Dialing(x) == [x EXCEPT !.st = "dialing"]
LEMMA DialingHandle ==
  ASSUME NEW x \in HandleType
  PROVE  /\ Dialing(x) \in HandleType /\ Dialing(x).closed = x.closed /\ Dialing(x).queue = x.queue
         /\ Dialing(x).wire = x.wire /\ Dialing(x).in = x.in /\ Dialing(x).over = x.over
         /\ Dialing(x).reading = x.reading /\ Dialing(x).st = "dialing"
BY Zenon DEF Dialing, HandleType

DialsIs(s, y) ==
  /\ y \in Sockets /\ NewestTo(s, Dialing(Newest(s)), y) /\ y.attempt
  /\ y.connecting = s.connecting /\ y.destroyed = s.destroyed /\ y.handle = s.handle /\ y.errored = s.errored
  /\ y.looking = s.looking /\ SameWrites(s, y) /\ SameReads(s, y) /\ SameQueues(s, y)

LEMMA DialKeeps ==
  ASSUME NEW s, NEW n \in Nat, Sound(s, n), s.connecting, ~s.looking, Newest(s).st = "new", NEW y, DialsIs(s, y)
  PROVE  Sound(y, n)
<1>1. /\ s \in Sockets /\ HandlesOK(s) /\ y \in Sockets /\ NewestTo(s, Dialing(Newest(s)), y)
      /\ y.connecting = s.connecting /\ y.destroyed = s.destroyed /\ y.handle = s.handle /\ y.errored = s.errored
      /\ y.looking = s.looking /\ SameWrites(s, y) /\ SameReads(s, y) /\ SameQueues(s, y) /\ SocketOK(s, n)
  BY DEF Sound, SocketOK, DialsIs
<1>2. Newest(s) \in HandleType /\ Len(s.handles) \in 1..Len(s.handles) /\ Len(s.handles) \in Nat \ {0}
  BY <1>1, NewestFields
<1>3. /\ Newest(y) = Dialing(Newest(s)) /\ Len(y.handles) = Len(s.handles)
      /\ \A h \in 1..Len(s.handles) : h # Len(s.handles) => y.handles[h] = s.handles[h]
  BY <1>1, <1>2, DialingHandle, NewestChanges
<1>4. /\ Newest(y).closed = Newest(s).closed /\ Newest(y).wire = Newest(s).wire /\ Newest(y).in = Newest(s).in
      /\ Newest(y).over = Newest(s).over /\ Newest(y).st = "dialing" /\ Newest(y).queue = Newest(s).queue
      /\ Newest(y).reading = Newest(s).reading
  BY <1>2, <1>3, DialingHandle
<1>5. HandlesOK(y)
  <2>1. \A h \in 1..Len(s.handles) : y.handles[h].closed = s.handles[h].closed
    BY <1>3, <1>4 DEF Newest
  <2>2. QED BY <1>1, <1>3, <2>1 DEF HandlesOK
<1>6. ReportOK(y)
  BY <1>1, <1>3, <1>4 DEF SocketOK, ReportOK, Reported, SameQueues
<1>7. ConnectOK(y)
  BY <1>1, <1>3 DEF SocketOK, ConnectOK, SameQueues
<1>8. UntouchedOK(y) /\ SaidOK(y)
  BY <1>1, <1>4 DEF SocketOK, UntouchedOK, Untouched, Blank, SaidOK, SameWrites, SameReads, SameQueues
<1>9. ComesOnce(y)
  BY <1>1 DEF SocketOK, ComesOnce, SameQueues
<1>10. IdsOK(y, n)
  BY <1>1 DEF SocketOK, IdsOK, Unknown, SameWrites, SameQueues
<1>11. PendingOK(y) /\ WireOK(y, n)
  BY <1>1, <1>4 DEF SocketOK, PendingOK, Idle, WireOK, Sent, SameWrites, SameQueues
<1>12. FinOK(y) /\ ReadOK(y)
  BY <1>1, <1>4 DEF SocketOK, FinOK, ReadOK, SameReads, SameQueues
<1>13. TidyOK(y)
  BY <1>1 DEF Sound, TidyOK, SameWrites
<1>14. QED BY <1>1, <1>5, <1>6, <1>7, <1>8, <1>9, <1>10, <1>11, <1>12, <1>13 DEF Sound, SocketOK

LEMMA FirstAttempt ==
  ASSUME NEW s, NEW n \in Nat, Sound(s, n), s.connecting, ~s.looking, Newest(s).st = "new"
  PROVE  Sound(InternalConnect(s), n)
<1>1. s \in Sockets /\ HandlesOK(s) /\ ConnectOK(s)
  BY DEF Sound, SocketOK
<1>2. /\ Newest(s) \in HandleType /\ Len(s.handles) \in 1..Len(s.handles) /\ s.handle = Len(s.handles) /\ s.handle # 0
      /\ ~s.destroyed /\ s.current \in Nat
  BY <1>1, NewestFields, SocketFields, Zenon DEF HandlesOK, ConnectOK
<1>3. CASE s.current = s.conf.addresses
  <2>1. InternalConnect(s) = SDestroy(s, TRUE)
    BY <1>2, <1>3 DEF InternalConnect
  <2>2. QED BY <2>1, DestroysTidy, Zenon
<1>4. CASE s.current # s.conf.addresses
  <2> DEFINE y == InternalConnect(s)
             t == [s.handles EXCEPT ![Len(s.handles)] = Dialing(Newest(s))]
  <2>1. y = [s EXCEPT !.current = s.current + 1, !.attempt = TRUE, !.handles = t]
    BY <1>2, <1>4, Zenon DEF InternalConnect, Dialing, Newest
  <2>2. t \in Seq(HandleType) /\ s.current + 1 \in Nat
    BY <1>1, <1>2, DialingHandle, ExceptSeq, SocketFields
  <2> HIDE DEF y, t
  <2>3. y \in Sockets /\ y.handles = t /\ y.attempt
    BY <1>1, <2>1, <2>2, ZenonT(40) DEF Sockets
  <2>4. /\ y.connecting = s.connecting /\ y.destroyed = s.destroyed /\ y.handle = s.handle
        /\ y.errored = s.errored /\ y.looking = s.looking
    BY <1>1, <2>1, Zenon DEF Sockets
  <2>5. SameWrites(s, y) /\ SameReads(s, y) /\ SameQueues(s, y)
    BY <1>1, <2>1 DEF Sockets, SameWrites, SameReads, SameQueues
  <2>6. DialsIs(s, y)
    BY <2>3, <2>4, <2>5 DEF DialsIs, NewestTo, t
  <2>7. QED BY <2>6, DialKeeps DEF y
<1>5. QED BY <1>3, <1>4

\* The attempt is given up, and there is no address left.
LostIs(s, y) ==
  /\ y \in Sockets /\ NewestTo(s, Shut(Newest(s)), y)
  /\ y.destroyed /\ ~y.connecting /\ ~y.attempt /\ y.handle = 0 /\ y.looking = s.looking
  /\ SameQueues(s, y) /\ SameWrites(s, y) /\ SameReads(s, y)

LEMMA LoseKeeps ==
  ASSUME NEW s, NEW n \in Nat, SocketOK(s, n), ~s.destroyed, NEW y, LostIs(s, y)
  PROVE  SocketOK(y, n)
<1>1. /\ s \in Sockets /\ y \in Sockets /\ HandlesOK(s) /\ NewestTo(s, Shut(Newest(s)), y)
      /\ y.ticks = s.ticks /\ y.events = s.events /\ y.settled = s.settled /\ y.macros = s.macros
      /\ SameWrites(s, y) /\ SameReads(s, y)
      /\ y.destroyed /\ ~y.connecting /\ ~y.attempt /\ y.handle = 0 /\ y.looking = s.looking
  BY DEF SocketOK, LostIs, SameQueues
<1>2. /\ Newest(s) \in HandleType /\ Len(s.handles) \in 1..Len(s.handles) /\ Len(s.handles) \in Nat \ {0}
      /\ s.handle = Len(s.handles)
  BY <1>1, NewestFields DEF HandlesOK
<1>3. /\ Newest(y) = Shut(Newest(s)) /\ Len(y.handles) = Len(s.handles)
      /\ \A h \in 1..Len(s.handles) : h # Len(s.handles) => y.handles[h] = s.handles[h]
  BY <1>1, <1>2, ShutHandle, NewestChanges
<1>4. /\ Newest(y).closed /\ Newest(y).queue = Newest(s).queue /\ Newest(y).wire = Newest(s).wire
      /\ Newest(y).in = Newest(s).in /\ Newest(y).over = Newest(s).over /\ Newest(y).reading = Newest(s).reading
      /\ Newest(y).st = Newest(s).st
  BY <1>2, <1>3, ShutHandle
<1>5. HandlesOK(y)
  <2>1. \A h \in 1..Len(s.handles) : h # Len(s.handles) => s.handles[h].closed /\ Blank(s.handles[h])
    BY <1>1, <1>2 DEF HandlesOK
  <2>2. \A h \in 1..Len(y.handles) : y.handles[h].closed
    BY <1>3, <1>4, <2>1 DEF Newest
  <2>3. QED BY <1>1, <1>2, <1>3, <2>1, <2>2 DEF HandlesOK
<1>6. ReportOK(y)
  BY <1>1, <1>3 DEF SocketOK, ReportOK, Reported
<1>7. ConnectOK(y)
  BY <1>1, <1>3, <1>4 DEF SocketOK, ConnectOK
<1>8. UntouchedOK(y)
  BY <1>1, <1>4 DEF SocketOK, UntouchedOK, Untouched, Blank, SameWrites, SameReads
<1>9. SaidOK(y)
  BY <1>1, <1>4 DEF SocketOK, SaidOK, SameWrites, SameReads
<1>10. ComesOnce(y)
  BY <1>1 DEF SocketOK, ComesOnce
<1>11. IdsOK(y, n)
  BY <1>1 DEF SocketOK, IdsOK, Unknown, SameWrites
<1>12. PendingOK(y) /\ WireOK(y, n)
  BY <1>1, <1>4 DEF SocketOK, PendingOK, Idle, WireOK, Sent, SameWrites
<1>13. FinOK(y) /\ ReadOK(y)
  BY <1>1, <1>4 DEF SocketOK, FinOK, ReadOK, SameReads
<1>14. QED BY <1>1, <1>5, <1>6, <1>7, <1>8, <1>9, <1>10, <1>11, <1>12, <1>13 DEF SocketOK

\* The attempt is given up, and a handle of its own is made for the next.
Dialed1 == [NewHandle EXCEPT !.st = "dialing"]
AgainIs(s, y) ==
  /\ y \in Sockets /\ y.handles = Append([s.handles EXCEPT ![Len(s.handles)] = Shut(Newest(s))], Dialed1)
  /\ y.handle = Len(s.handles) + 1 /\ y.attempt /\ y.connecting /\ ~y.destroyed /\ ~y.errored /\ ~y.looking
  /\ ~y.ending /\ y.final = "no" /\ ~y.finished /\ ~y.ended /\ ~y.endEmitted /\ y.again = (s.again \/ s.ending)
  /\ y.cur = s.cur /\ y.waits = s.waits /\ y.buffer = s.buffer /\ y.finalWaits = s.finalWaits
  /\ y.chunks = s.chunks /\ y.got = s.got /\ SameQueues(s, y)

LEMMA AgainKeeps ==
  ASSUME NEW s, NEW n \in Nat, Sound(s, n), s.connecting, NEW y, AgainIs(s, y)
  PROVE  Sound(y, n)
<1> DEFINE t == [s.handles EXCEPT ![Len(s.handles)] = Shut(Newest(s))]
<1>1. /\ s \in Sockets /\ y \in Sockets /\ HandlesOK(s) /\ ConnectOK(s) /\ UntouchedOK(s) /\ SocketOK(s, n) /\ ReportOK(s)
      /\ TidyOK(s) /\ SaidOK(s) /\ WireOK(s, n) /\ ReadOK(s)
  BY DEF Sound, SocketOK, AgainIs
<1>2. /\ Newest(s) \in HandleType /\ Len(s.handles) \in 1..Len(s.handles) /\ Len(s.handles) \in Nat \ {0}
      /\ s.handle = Len(s.handles) /\ ~s.destroyed /\ ~Has(s.events, "connect") /\ Untouched(s)
      /\ s.handles \in Seq(HandleType)
  BY <1>1, NewestFields, SocketFields, Zenon DEF HandlesOK, ConnectOK, UntouchedOK
<1>3. /\ y.handles = Append(t, Dialed1) /\ y.handle = Len(s.handles) + 1 /\ y.attempt /\ y.connecting
      /\ ~y.destroyed /\ ~y.errored /\ ~y.looking
      /\ ~y.ending /\ y.final = "no" /\ ~y.finished /\ ~y.ended /\ ~y.endEmitted /\ y.again = (s.again \/ s.ending)
      /\ y.cur = s.cur /\ y.waits = s.waits /\ y.buffer = s.buffer /\ y.finalWaits = s.finalWaits
      /\ y.chunks = s.chunks /\ y.got = s.got
      /\ y.ticks = s.ticks /\ y.macros = s.macros /\ y.events = s.events /\ y.settled = s.settled
  BY DEF AgainIs, SameQueues
<1>4. /\ Dialed1 \in HandleType /\ Blank(Dialed1) /\ ~Dialed1.closed /\ Dialed1.st = "dialing"
  <2>1. <<>> \in Seq(Nat)
    BY EmptySeq
  <2>2. QED BY <2>1, Zenon DEF Dialed1, NewHandle, HandleType, Blank
<1>5. /\ t \in Seq(HandleType) /\ Len(t) = Len(s.handles) /\ t[Len(s.handles)] = Shut(Newest(s))
      /\ \A h \in 1..Len(s.handles) : h # Len(s.handles) => t[h] = s.handles[h]
  <2>1. Shut(Newest(s)) \in HandleType
    BY <1>2, ShutHandle
  <2>2. t \in Seq(HandleType) /\ Len(t) = Len(s.handles)
    BY <1>2, <2>1, ExceptSeq
  <2>3. DOMAIN s.handles = 1..Len(s.handles)
    BY <1>2, LenProperties
  <2>4. QED BY <1>2, <2>2, <2>3
<1> HIDE DEF t
<1>6. /\ Len(y.handles) = Len(s.handles) + 1 /\ y.handles[Len(s.handles) + 1] = Dialed1
      /\ \A h \in 1..Len(s.handles) : y.handles[h] = t[h]
      /\ \A h \in 1..Len(y.handles) : h \in 1..Len(s.handles) \/ h = Len(s.handles) + 1
  BY <1>3, <1>4, <1>5, AppendAt
<1>7. Newest(y) = Dialed1 /\ Blank(Newest(y))
  BY <1>4, <1>6 DEF Newest
<1>8. \A h \in 1..Len(s.handles) : y.handles[h].closed /\ Blank(y.handles[h])
  <2>1. Blank(Newest(s))
    BY <1>2 DEF Untouched
  <2>2. Shut(Newest(s)).closed /\ Blank(Shut(Newest(s)))
    BY <1>2, <2>1, ShutHandle DEF Blank
  <2>3. \A h \in 1..Len(s.handles) : h # Len(s.handles) => s.handles[h].closed /\ Blank(s.handles[h])
    BY <1>1, <1>2 DEF HandlesOK
  <2>4. QED BY <1>5, <1>6, <2>2, <2>3, Zenon
<1>9. HandlesOK(y)
  <2>1. 1 \in 1..Len(y.handles) /\ y.handle = Len(y.handles)
    BY <1>2, <1>3, <1>6
  <2>2. \A h \in 1..Len(y.handles) : y.handles[h].closed <=> h # y.handle
    <3> SUFFICES ASSUME NEW h \in 1..Len(y.handles) PROVE y.handles[h].closed <=> h # y.handle
      OBVIOUS
    <3>1. CASE h \in 1..Len(s.handles)
      <4>1. h # y.handle
        BY <1>2, <1>3, <3>1
      <4>2. QED BY <1>8, <3>1, <4>1
    <3>2. CASE h = Len(s.handles) + 1
      BY <1>3, <1>4, <1>6, <3>2
    <3>3. QED BY <1>6, <3>1, <3>2
  <2>3. \A h \in 1..Len(y.handles) : h # Len(y.handles) => Blank(y.handles[h])
    BY <1>6, <1>8
  <2>4. QED BY <1>3, <2>1, <2>2, <2>3 DEF HandlesOK
<1>10. \A m \in SMacros : Has(s.macros, m) => ~(m.op \in {"data", "eof", "written"})
  <2> SUFFICES ASSUME NEW m \in SMacros, Has(s.macros, m), m.op \in {"data", "eof", "written"} PROVE FALSE
    OBVIOUS
  <2>1. PICK i \in 1..Len(s.macros) : s.macros[i] = m
    BY DEF Has
  <2>2. Len(Ops(s.macros)) = Len(s.macros) /\ Ops(s.macros)[i] = m.op
    BY <1>1, <2>1, SocketFields, MacrosSeen DEF Ops
  <2>3. Has(Ops(s.macros), m.op)
    BY <2>1, <2>2 DEF Has
  <2>4. QED BY <1>2, <2>3 DEF Untouched
<1>11. ReportOK(y)
  <2>1. \A m \in SMacros : Has(s.macros, m) => m.h \in 1..Len(s.handles)
    BY <1>1 DEF ReportOK
  <2>2. \A h \in Nat : h \in 1..Len(s.handles) => h \in 1..Len(y.handles)
    BY <1>2, <1>6
  <2>3. \A a \in Nat : Has(Dials(s.macros), a) => a <= Len(s.handles)
    BY <1>1 DEF ReportOK
  <2>4. \A a \in Nat : a <= Len(s.handles) => a <= Len(y.handles) /\ a # y.handle
    BY <1>2, <1>3, <1>6
  <2>5. \A m \in SMacros : m.h \in Nat
    BY DEF SMacros
  <2>6. ~Reported(y)
    BY <1>2, <1>3, <2>3, <2>4 DEF Reported
  <2>7. QED BY <1>1, <1>3, <1>10, <2>1, <2>2, <2>3, <2>4, <2>5, <2>6 DEF ReportOK
<1>12. ConnectOK(y)
  BY <1>2, <1>3 DEF ConnectOK
<1>13. ~Has(Ops(s.macros), "data") /\ ~Has(Ops(s.macros), "eof") /\ ~Has(Ops(s.ticks), "finish")
       /\ ~Has(Ops(s.ticks), "endReadable") /\ s.final # "done" /\ ~s.ended /\ s.got = 0 /\ s.chunks = 0
       /\ Newest(s).in = 0
  BY <1>2 DEF Untouched, Blank
<1>14. UntouchedOK(y)
  BY <1>2, <1>3, <1>7 DEF UntouchedOK, Untouched
<1>15. SaidOK(y)
  BY <1>1, <1>2, <1>3, <1>13 DEF SaidOK
<1>16. ComesOnce(y)
  BY <1>1, <1>3 DEF SocketOK, ComesOnce
<1>17. IdsOK(y, n)
  BY <1>1, <1>3 DEF SocketOK, IdsOK, Unknown
<1>18. \A a : ~Has(Newest(y).queue, a) /\ ~Has(Newest(y).wire, a)
  BY <1>7, EmptySeq DEF Blank, Has
<1>19. PendingOK(y)
  <2>1. PendingOK(s)
    BY <1>1 DEF SocketOK
  <2>2. s.cur # 0 => OnceIn(Newest(y).queue, s.cur, Answers(s.macros), s.cur)
    BY <1>18, <2>1, Zenon DEF PendingOK, OnceIn, Single, Has
  <2>3. QED BY <1>3, <1>18, <2>1, <2>2 DEF PendingOK, Idle
<1>20. WireOK(y, n)
  <2>1. CASE y.again
    BY <2>1 DEF WireOK
  <2>2. CASE ~y.again
    <3>1. ~s.again /\ ~s.ending
      BY <1>3, <2>2, Zenon
    <3>2. ~s.finalWaits
      BY <1>1, <3>1 DEF WireOK
    <3>3. Outgoing(Newest(y).wire, Newest(y).queue)
      BY <1>18, Zenon DEF Outgoing, InOrder, Has
    <3>4. \A a : ~Sent(y, a)
      BY <1>18 DEF Sent
    <3>5. y.final = "no" /\ ~y.finalWaits
      BY <1>3, <3>2
    <3>6. QED BY <3>3, <3>4, <3>5 DEF WireOK
  <2>3. QED BY <2>1, <2>2
<1>21. FinOK(y)
  BY <1>3, <1>10 DEF FinOK
<1>22. ReadOK(y)
  <2>1. Newest(y).in = 0
    BY <1>7 DEF Blank
  <2>2. Newest(s).in = s.got + s.chunks + Tally(Ops(s.macros), "data")
    BY <1>1, <1>2 DEF ReadOK
  <2>3. QED BY <1>1, <1>3, <1>13, <2>1, <2>2 DEF ReadOK
<1>23. TidyOK(y)
  BY <1>1, <1>2, <1>3 DEF TidyOK
<1>24. QED BY <1>1, <1>9, <1>11, <1>12, <1>14, <1>15, <1>16, <1>17, <1>19, <1>20, <1>21, <1>22, <1>23 DEF Sound, SocketOK

\* The socket whose attempt is given up, between two attempts.
ShutOf(s) == [s.handles EXCEPT ![Len(s.handles)] = Shut(Newest(s))]
BetweenOf(s) == [s EXCEPT !.handles = ShutOf(s), !.handle = 0]
BetweenIs(s, c) ==
  /\ c \in Sockets /\ c.handles = ShutOf(s) /\ c.handle = 0 /\ c.conf = s.conf /\ c.current = s.current
  /\ c.connecting = s.connecting /\ c.destroyed = s.destroyed /\ c.looking = s.looking /\ c.errored = s.errored
  /\ SameWrites(s, c) /\ SameReads(s, c) /\ SameQueues(s, c)

LEMMA BetweenFields ==
  ASSUME NEW s \in Sockets, HandlesOK(s)
  PROVE  BetweenIs(s, BetweenOf(s)) /\ ShutOf(s) \in Seq(HandleType) /\ Len(ShutOf(s)) = Len(s.handles)
<1> DEFINE t == ShutOf(s)
           c == BetweenOf(s)
<1>1. t \in Seq(HandleType) /\ Len(t) = Len(s.handles)
  BY NewestFields, ShutHandle, ExceptSeq, SocketFields DEF ShutOf
<1>2. c = [s EXCEPT !.handles = t, !.handle = 0]
  BY DEF BetweenOf
<1> HIDE DEF t, c
<1>3. c \in Sockets /\ c.handles = t /\ c.handle = 0 /\ c.conf = s.conf /\ c.current = s.current
  BY <1>1, <1>2, ZenonT(40) DEF Sockets
<1>4. c.connecting = s.connecting /\ c.destroyed = s.destroyed /\ c.looking = s.looking /\ c.errored = s.errored
  BY <1>2 DEF Sockets
<1>5. SameWrites(s, c) /\ SameReads(s, c) /\ SameQueues(s, c)
  BY <1>2 DEF Sockets, SameWrites, SameReads, SameQueues
<1>6. QED BY <1>1, <1>3, <1>4, <1>5 DEF BetweenIs, t, c

LEMMA LastAttempt ==
  ASSUME NEW s, NEW n \in Nat, Sound(s, n), s.connecting, NEW c, c = BetweenOf(s)
  PROVE  Sound(SDestroy(c, TRUE), n)
<1>1. s \in Sockets /\ HandlesOK(s) /\ ConnectOK(s) /\ SaidOK(s) /\ ComesOnce(s) /\ SocketOK(s, n)
  BY DEF Sound, SocketOK
<1>2. ~s.destroyed /\ ~Has(s.events, "connect")
  BY <1>1 DEF ConnectOK
<1>3. BetweenIs(s, c)
  BY <1>1, BetweenFields
<1>4. /\ c \in Sockets /\ c.handles = ShutOf(s) /\ c.handle = 0 /\ ~c.destroyed /\ c.buffer = s.buffer
      /\ SameWrites(s, c) /\ SameReads(s, c) /\ SameQueues(s, c) /\ c.looking = s.looking
  BY <1>2, <1>3 DEF BetweenIs, SameWrites
<1> DEFINE f == Failing(s)
           g == Failing(c)
           m == Doomed(g, TRUE)
           y == SDestroy(c, TRUE)
<1>5. SocketOK(f, n) /\ ~f.destroyed /\ ~Has(f.events, "connect") /\ HandlesOK(f) /\ SaidOK(f) /\ f \in Sockets
      /\ f.handles = s.handles /\ f.looking = s.looking /\ SameWrites(s, f) /\ SameReads(s, f)
      /\ f.macros = s.macros /\ f.events = s.events /\ f.settled = s.settled
  <2>1. CASE s.buffer # <<>>
    <3>1. TickOK(s, "errorBuffer")
      BY DEF TickOK, TickOps
    <3>2. SocketOK(f, n) /\ PutIs(s, STickOf("errorBuffer"), f)
      BY <1>1, <2>1, <3>1, PutSTick DEF Failing
    <3> HIDE DEF f
    <3>3. QED BY <1>2, <3>2 DEF PutIs, SameState, SocketOK
  <2>2. CASE s.buffer = <<>>
    <3>1. f = s
      BY <2>2 DEF Failing
    <3> HIDE DEF f
    <3>2. QED BY <1>1, <1>2, <3>1 DEF SameWrites, SameReads
  <2>3. QED BY <2>1, <2>2
<1>6. /\ g \in Sockets /\ g.ticks = f.ticks /\ g.handles = ShutOf(s) /\ g.handle = 0 /\ g.looking = s.looking
      /\ SameWrites(s, g) /\ SameReads(s, g) /\ g.macros = s.macros /\ g.events = s.events /\ g.settled = s.settled
  <2>1. CASE s.buffer # <<>>
    <3> DEFINE x == STickOf("errorBuffer")
               u == Append(s.ticks, x)
    <3>1. x \in STicks
      BY DEF STickOf, STicks, TickOps
    <3>2. u \in Seq(STicks) /\ s.ticks \in Seq(STicks)
      <4> HIDE DEF x
      <4>1. QED BY <1>1, <3>1, SocketFields, STickPut
    <3>3. c.ticks = s.ticks
      BY <1>4 DEF SameQueues
    <3>4. g = [c EXCEPT !.ticks = u] /\ f = [s EXCEPT !.ticks = u]
      BY <1>4, <2>1, <3>3 DEF Failing, STick, STickOf
    <3> HIDE DEF x, u, f, g
    <3>5. f.ticks = u
      BY <1>1, <3>4 DEF Sockets
    <3>6. g \in Sockets /\ g.ticks = u /\ g.handles = c.handles /\ g.handle = c.handle /\ g.looking = c.looking
      BY <1>4, <3>2, <3>4, ZenonT(40) DEF Sockets
    <3>7. SameWrites(c, g) /\ SameReads(c, g) /\ g.macros = c.macros /\ g.events = c.events /\ g.settled = c.settled
      BY <1>4, <3>4 DEF Sockets, SameWrites, SameReads
    <3>8. QED BY <1>4, <3>5, <3>6, <3>7 DEF SameWrites, SameReads, SameQueues
  <2>2. CASE s.buffer = <<>>
    <3>1. f = s /\ g = c
      BY <1>4, <2>2 DEF Failing
    <3> HIDE DEF f, g
    <3>2. QED BY <1>4, <3>1 DEF SameQueues
  <2>3. QED BY <2>1, <2>2
<1>7. y = STick(STick(m, "error"), "close")
  <2>1. g = IF c.buffer # <<>> THEN STick(c, "errorBuffer") ELSE c
    BY DEF Failing
  <2>2. m = [g EXCEPT !.destroyed = TRUE, !.errored = @ \/ TRUE, !.connecting = FALSE, !.attempt = FALSE]
    BY DEF Doomed
  <2> HIDE DEF g, m
  <2>3. QED BY <1>4, <2>1, <2>2 DEF SDestroy
<1> HIDE DEF f, g
<1>8. LostIs(f, m)
  <2>1. m = [g EXCEPT !.destroyed = TRUE, !.errored = TRUE, !.connecting = FALSE, !.attempt = FALSE]
    BY Zenon DEF Doomed
  <2> HIDE DEF m
  <2>2. g \in Sockets
    BY <1>6
  <2>3. m \in Sockets /\ m.handles = g.handles /\ m.handle = g.handle /\ m.looking = g.looking
    BY <2>1, <2>2, ZenonT(40) DEF Sockets
  <2>4. m.destroyed /\ ~m.connecting /\ ~m.attempt
    BY <2>1, <2>2 DEF Sockets
  <2>5. SameWrites(g, m) /\ SameReads(g, m) /\ SameQueues(g, m)
    BY <2>1, <2>2 DEF Sockets, SameWrites, SameReads, SameQueues
  <2>6. NewestTo(f, Shut(Newest(f)), m)
    BY <1>5, <1>6, <2>3 DEF NewestTo, Newest, ShutOf
  <2>7. SameQueues(f, m)
    BY <1>5, <1>6, <2>5 DEF SameQueues
  <2>8. SameWrites(f, m) /\ SameReads(f, m)
    BY <1>5, <1>6, <2>5 DEF SameWrites, SameReads
  <2>9. QED BY <1>5, <1>6, <2>3, <2>4, <2>6, <2>7, <2>8 DEF LostIs
<1> HIDE DEF m
<1>9. SocketOK(m, n) /\ m.destroyed /\ m.ticks = f.ticks /\ m.macros = f.macros /\ m.events = f.events
  BY <1>5, <1>8, LoseKeeps DEF LostIs, SameQueues
<1>10. TickOK(m, "error")
  BY <1>5, <1>9 DEF TickOK, TickOps, SaidOK
<1> DEFINE z == STick(m, "error")
           d == STick(z, "close")
<1>11. SocketOK(z, n) /\ PutIs(m, STickOf("error"), z)
  BY <1>9, <1>10, PutSTick
<1>12. TickOK(z, "close")
  <2> HIDE DEF z
  <2>1. z.destroyed /\ z.events = f.events /\ z.macros = f.macros /\ z.ticks = Append(f.ticks, STickOf("error"))
    BY <1>9, <1>11 DEF PutIs, SameState
  <2>2. ~Has(Ops(z.ticks), "close")
    <3> DEFINE e == STickOf("error")
    <3>1. e \in STicks /\ e.op = "error"
      BY DEF STickOf, STicks, TickOps
    <3> HIDE DEF e
    <3>2. f.ticks \in Seq(STicks) /\ z.ticks = Append(f.ticks, e)
      BY <1>5, <2>1, SocketFields DEF e
    <3>3. \A a : Has(Ops(z.ticks), a) <=> Has(Ops(f.ticks), a) \/ e.op = a
      BY <3>1, <3>2, STickPut, Zenon
    <3>4. ~Has(Ops(f.ticks), "close")
      BY <1>5 DEF SaidOK
    <3>5. QED BY <3>1, <3>3, <3>4
  <2>3. QED BY <1>5, <2>1, <2>2 DEF TickOK, TickOps, SaidOK
<1>13. SocketOK(d, n) /\ PutIs(z, STickOf("close"), d)
  <2> HIDE DEF z
  <2>1. QED BY <1>11, <1>12, PutSTick
<1>14. d.destroyed
  <2> HIDE DEF d, z
  <2>1. QED BY <1>9, <1>11, <1>13 DEF PutIs, SameState
<1>15. QED BY <1>7, <1>13, <1>14, Zenon DEF Sound, TidyOK

LEMMA LastOfAppend ==
  ASSUME NEW S, NEW t \in Seq(S), NEW x \in S, NEW z \in S, NEW j, j = Len(t) + 1
  PROVE  [Append(t, x) EXCEPT ![j] = z] = Append(t, z) /\ Append(t, x)[j] = x
<1> DEFINE u == Append(t, x)
           y == [u EXCEPT ![j] = z]
           w == Append(t, z)
<1>1. /\ u \in Seq(S) /\ Len(u) = Len(t) + 1 /\ u[j] = x /\ Len(t) \in Nat /\ \A i \in 1..Len(t) : u[i] = t[i]
      /\ \A i \in 1..Len(u) : i \in 1..Len(t) \/ i = j
  BY AppendAt
<1>2. w \in Seq(S) /\ Len(w) = Len(t) + 1 /\ w[j] = z /\ \A i \in 1..Len(t) : w[i] = t[i]
  BY AppendAt
<1> HIDE DEF u, w
<1>3. j \in 1..Len(u)
  BY <1>1
<1>4. y \in Seq(S) /\ Len(y) = Len(u)
  BY <1>1, <1>3, ExceptSeq
<1>5. DOMAIN u = 1..Len(u)
  BY <1>1, LenProperties
<1>6. \A i \in 1..Len(u) : y[i] = IF i = j THEN z ELSE u[i]
  BY <1>5
<1> HIDE DEF y
<1>7. \A i \in 1..Len(y) : y[i] = w[i]
  <2>1. \A i \in 1..Len(t) : i # j
    BY <1>1
  <2>2. QED BY <1>1, <1>2, <1>4, <1>6, <2>1
<1>8. y = w
  BY <1>1, <1>2, <1>4, <1>7, SeqEqual
<1>9. QED BY <1>1, <1>8 DEF u, y, w

LEMMA OtherAttempt ==
  ASSUME NEW s, NEW n \in Nat, Sound(s, n), s.connecting, ~s.looking, NEW c, c = BetweenOf(s),
         s.current # s.conf.addresses
  PROVE  Sound(InternalConnect(c), n)
<1> DEFINE m == Len(s.handles) + 1
           u == Append(ShutOf(s), NewHandle)
           w == Append(ShutOf(s), Dialed1)
           e == [c EXCEPT !.handles = u, !.handle = m]
           d == Undestroy(e)
           b == s.again \/ s.ending
           y == InternalConnect(c)
<1>1. s \in Sockets /\ HandlesOK(s) /\ ConnectOK(s) /\ SocketOK(s, n) /\ Len(s.handles) \in Nat /\ s.current \in Nat
  BY SocketFields DEF Sound, SocketOK
<1>2. ~s.destroyed
  BY <1>1 DEF ConnectOK
<1>3. BetweenIs(s, c) /\ ShutOf(s) \in Seq(HandleType) /\ Len(ShutOf(s)) = Len(s.handles)
  BY <1>1, BetweenFields
<1>4. /\ c \in Sockets /\ c.handles = ShutOf(s) /\ c.handle = 0 /\ ~c.destroyed /\ c.conf = s.conf /\ c.current = s.current
      /\ SameWrites(s, c) /\ SameReads(s, c) /\ SameQueues(s, c) /\ c.looking = s.looking /\ c.connecting = s.connecting
  BY <1>2, <1>3 DEF BetweenIs
<1>5. NewHandle \in HandleType /\ Dialed1 \in HandleType /\ Dialed1 = [NewHandle EXCEPT !.st = "dialing"]
  <2>1. <<>> \in Seq(Nat)
    BY EmptySeq
  <2>2. QED BY <2>1, Zenon DEF Dialed1, NewHandle, HandleType
<1>6. u \in Seq(HandleType) /\ w \in Seq(HandleType) /\ m \in Nat /\ m # 0 /\ [u EXCEPT ![m] = Dialed1] = w /\ u[m] = NewHandle
  <2>1. u \in Seq(HandleType) /\ w \in Seq(HandleType)
    BY <1>3, <1>5, AppendProperties
  <2>2. [u EXCEPT ![m] = Dialed1] = w /\ u[m] = NewHandle
    <3> DEFINE t == ShutOf(s)
               S == HandleType
    <3>1. t \in Seq(S) /\ m = Len(t) + 1 /\ NewHandle \in S /\ Dialed1 \in S /\ u = Append(t, NewHandle)
          /\ w = Append(t, Dialed1)
      BY <1>3, <1>5
    <3> HIDE DEF t, S, u, w, m
    <3>2. [Append(t, NewHandle) EXCEPT ![m] = Dialed1] = Append(t, Dialed1) /\ Append(t, NewHandle)[m] = NewHandle
      BY <3>1, LastOfAppend
    <3>3. QED BY <3>1, <3>2
  <2>3. QED BY <1>1, <2>1, <2>2
<1>7. e.handle = m /\ e.handles = u /\ e \in Sockets /\ e.ending = s.ending /\ e.again = s.again /\ e.current = s.current
  <2> HIDE DEF u, m
  <2>1. e.handle = m /\ e.handles = u /\ e \in Sockets
    BY <1>4, <1>6, ZenonT(40) DEF Sockets
  <2>2. e.ending = c.ending /\ e.again = c.again /\ e.current = c.current
    BY <1>4 DEF Sockets
  <2>3. QED BY <1>4, <2>1, <2>2 DEF SameWrites
<1> HIDE DEF u, w, m
<1>8. d = [e EXCEPT !.destroyed = FALSE, !.errored = FALSE, !.ending = FALSE, !.final = "no", !.finished = FALSE,
                    !.ended = FALSE, !.endEmitted = FALSE, !.again = b]
  <2> HIDE DEF e
  <2>1. QED BY <1>7 DEF Undestroy
<1>9. y = [d EXCEPT !.current = d.current + 1, !.attempt = TRUE, !.handles[d.handle].st = "dialing"]
  <2>1. e = [c EXCEPT !.handles = Append(c.handles, NewHandle), !.handle = Len(c.handles) + 1]
    BY <1>3, <1>4, Zenon DEF u, m
  <2> HIDE DEF e
  <2>2. QED BY <1>4, <2>1 DEF InternalConnect
<1> HIDE DEF e
<1>10. b \in BOOLEAN
  OBVIOUS
<1> HIDE DEF b, d
<1>11. d \in Sockets /\ d.handles = u /\ d.handle = m /\ d.current = s.current
  <2>1. e \in Sockets
    BY <1>7
  <2>2. d \in Sockets
    <3> DEFINE x == [e EXCEPT !.destroyed = FALSE, !.errored = FALSE, !.ending = FALSE, !.final = "no"]
               z == [x EXCEPT !.finished = FALSE, !.ended = FALSE, !.endEmitted = FALSE]
    <3>1. x \in Sockets
      BY <2>1, ZenonT(40) DEF Sockets
    <3> HIDE DEF x
    <3>2. z \in Sockets
      BY <3>1, ZenonT(40) DEF Sockets
    <3>3. d = [z EXCEPT !.again = b]
      BY <1>8 DEF x
    <3> HIDE DEF z
    <3>4. QED BY <1>10, <3>2, <3>3, ZenonT(40) DEF Sockets
  <2>3. d.handles = e.handles /\ d.handle = e.handle /\ d.current = e.current
    BY <1>8, <2>1 DEF Sockets
  <2>4. QED BY <1>7, <2>2, <2>3
<1>12. y = [d EXCEPT !.current = s.current + 1, !.attempt = TRUE, !.handles = w]
  <2>1. [u EXCEPT ![m].st = "dialing"] = w
    BY <1>5, <1>6
  <2> HIDE DEF y
  <2>2. QED BY <1>9, <1>11, <2>1, Zenon
<1>13. s.current + 1 \in Nat
  BY <1>1
<1> HIDE DEF y
<1>14. y \in Sockets /\ y.handles = w /\ y.attempt /\ y.handle = m
  BY <1>6, <1>11, <1>12, <1>13, ZenonT(40) DEF Sockets
<1>15. /\ y.connecting = d.connecting /\ y.destroyed = d.destroyed /\ y.errored = d.errored /\ y.looking = d.looking
       /\ y.ending = d.ending /\ y.final = d.final /\ y.finished = d.finished /\ y.ended = d.ended
       /\ y.endEmitted = d.endEmitted /\ y.again = d.again
  BY <1>11, <1>12 DEF Sockets
<1>16. /\ y.cur = d.cur /\ y.waits = d.waits /\ y.buffer = d.buffer /\ y.finalWaits = d.finalWaits
       /\ y.chunks = d.chunks /\ y.got = d.got /\ SameQueues(d, y)
  BY <1>11, <1>12 DEF Sockets, SameQueues
<1>17. ~d.destroyed /\ ~d.errored /\ ~d.ending /\ d.final = "no" /\ ~d.finished /\ ~d.ended /\ ~d.endEmitted /\ d.again = b
  BY <1>7, <1>8 DEF Sockets
<1>18. /\ d.connecting = e.connecting /\ d.looking = e.looking /\ d.cur = e.cur /\ d.waits = e.waits /\ d.buffer = e.buffer
       /\ d.finalWaits = e.finalWaits /\ d.chunks = e.chunks /\ d.got = e.got /\ SameQueues(e, d)
  BY <1>7, <1>8 DEF Sockets, SameQueues
<1>19. /\ e.connecting = c.connecting /\ e.looking = c.looking /\ e.cur = c.cur /\ e.waits = c.waits /\ e.buffer = c.buffer
       /\ e.finalWaits = c.finalWaits /\ e.chunks = c.chunks /\ e.got = c.got /\ SameQueues(c, e)
  BY <1>4, Zenon DEF Sockets, SameQueues, e
<1>20. /\ y.connecting /\ ~y.looking /\ y.cur = s.cur /\ y.waits = s.waits /\ y.buffer = s.buffer
       /\ y.finalWaits = s.finalWaits /\ y.chunks = s.chunks /\ y.got = s.got
  BY <1>4, <1>15, <1>16, <1>18, <1>19 DEF SameWrites, SameReads
<1>21. SameQueues(s, y)
  BY <1>4, <1>16, <1>18, <1>19 DEF SameQueues
<1>22. ~y.destroyed /\ ~y.errored /\ ~y.ending /\ y.final = "no" /\ ~y.finished /\ ~y.ended /\ ~y.endEmitted /\ y.again = b
  BY <1>15, <1>17
<1>23. AgainIs(s, y)
  BY <1>14, <1>20, <1>21, <1>22 DEF AgainIs, w, m, b, ShutOf
<1>24. QED BY <1>23, AgainKeeps DEF y

LEMMA GivesUp ==
  ASSUME NEW s, NEW n \in Nat, Sound(s, n), s.connecting, ~s.looking,
         NEW e \in {"connectionAttemptFailed", "connectionAttemptTimeout"}
  PROVE  Sound(NextAttempt(s, s.handle, e), n)
<1> DEFINE a == [s EXCEPT !.attempt = FALSE]
           t == SEmit(a, e)
           c == [CloseHandle(t, s.handle, FALSE) EXCEPT !.handle = 0]
<1>1. s \in Sockets /\ HandlesOK(s) /\ ConnectOK(s) /\ SaidOK(s)
  BY DEF Sound, SocketOK
<1>2. ~s.destroyed /\ ~Has(s.events, "close") /\ s.handle = Len(s.handles)
  BY <1>1 DEF ConnectOK, SaidOK, HandlesOK
<1>3. LessIs(s, a) /\ a.connecting /\ ~a.looking /\ ~a.destroyed /\ a.events = s.events
  <2>1. a \in Sockets /\ a.handles = s.handles /\ a.connecting = s.connecting /\ a.destroyed = s.destroyed
        /\ a.handle = s.handle /\ a.errored = s.errored /\ a.conf = s.conf
    BY <1>1, ZenonT(40) DEF Sockets
  <2>2. SameWrites(s, a) /\ SameReads(s, a) /\ SameQueues(s, a)
    BY <1>1 DEF Sockets, SameWrites, SameReads, SameQueues
  <2>3. a.looking = s.looking /\ ~a.attempt
    BY <1>1 DEF Sockets
  <2> HIDE DEF a
  <2>4. QED BY <1>2, <2>1, <2>2, <2>3 DEF LessIs, SameQueues
<1>4. NextAttempt(s, s.handle, e) = InternalConnect(c)
  BY DEF NextAttempt
<1>5. c = [t EXCEPT !.handles = [t.handles EXCEPT ![s.handle] = Shut(t.handles[s.handle])], !.handle = 0]
  BY DEF CloseHandle, Shut
<1> HIDE DEF c
<1>6. a.handles = s.handles /\ a.handle = s.handle
  BY <1>3 DEF LessIs
<1> HIDE DEF a
<1>7. Sound(a, n)
  BY <1>3, LessKeeps
<1>8. EmitOK(a, e)
  BY <1>2, <1>3 DEF EmitOK, SEvents
<1>9. Sound(t, n) /\ HeardIs(a, e, t)
  BY <1>7, <1>8, EmitsTidy
<1> HIDE DEF t
<1>10. t \in Sockets /\ HandlesOK(t) /\ t.handles \in Seq(HandleType)
  BY <1>9, SocketFields DEF Sound, SocketOK
<1>11. CASE t.destroyed
  <2> DEFINE u == [t.handles EXCEPT ![s.handle] = Shut(t.handles[s.handle])]
  <2>1. \A h \in 1..Len(t.handles) : t.handles[h].closed /\ t.handles[h] \in HandleType
    <3>1. t.handle = 0 /\ \A h \in 1..Len(t.handles) : h # 0
      BY <1>10, <1>11 DEF HandlesOK
    <3>2. QED BY <1>10, <3>1, NewestFields DEF HandlesOK
  <2>2. \A x \in HandleType : x.closed => Shut(x) = x
    BY DEF HandleType, Shut
  <2>3. u = t.handles
    <3>1. DOMAIN t.handles = 1..Len(t.handles)
      BY <1>10, LenProperties
    <3>2. \A h \in 1..Len(t.handles) : u[h] = t.handles[h]
      BY <2>1, <2>2, <3>1
    <3>3. u = [h \in 1..Len(t.handles) |-> t.handles[h]] /\ t.handles = [h \in 1..Len(t.handles) |-> t.handles[h]]
      BY <1>10, <3>1, <3>2
    <3>4. QED BY <3>3
  <2>4. c = [t EXCEPT !.handles = t.handles, !.handle = 0]
    BY <1>5, <2>3, Zenon
  <2>5. t.handle = 0
    BY <1>10, <1>11 DEF HandlesOK
  <2>6. c \in Sockets /\ c.handles = t.handles /\ c.connecting = t.connecting /\ c.destroyed = t.destroyed
        /\ c.handle = t.handle /\ c.errored = t.errored /\ c.conf = t.conf
    BY <1>10, <2>4, <2>5, ZenonT(40) DEF Sockets
  <2>7. SameWrites(t, c) /\ SameReads(t, c) /\ SameQueues(t, c) /\ c.looking = t.looking /\ c.attempt = t.attempt
    BY <1>10, <2>4 DEF Sockets, SameWrites, SameReads, SameQueues
  <2>8. Sound(c, n)
    BY <1>9, <2>6, <2>7, LessKeeps DEF LessIs
  <2>9. InternalConnect(c) = c
    BY <1>11, <2>6 DEF InternalConnect
  <2>10. QED BY <1>4, <2>8, <2>9
<1>12. CASE ~t.destroyed
  <2>1. t = Emitted(a, e)
    BY <1>9, <1>12 DEF HeardIs
  <2>2. LogIs(a, e, t)
    BY <1>7, <1>8, <2>1, LogFields DEF Sound, SocketOK, EmitOK
  <2>3. t.connecting /\ ~t.looking /\ t.handles = s.handles
    BY <1>3, <1>6, <2>2 DEF LogIs, SameState
  <2>4. c = BetweenOf(t)
    BY <1>2, <1>5, <2>3 DEF BetweenOf, ShutOf, Newest
  <2>5. c.current = t.current /\ c.conf = t.conf /\ ~c.destroyed
    BY <1>10, <1>12, <2>4, BetweenFields DEF BetweenIs
  <2>6. CASE t.current = t.conf.addresses
    <3>1. InternalConnect(c) = SDestroy(c, TRUE)
      BY <2>5, <2>6 DEF InternalConnect
    <3>2. QED BY <1>4, <1>9, <2>3, <2>4, <3>1, LastAttempt, Zenon
  <2>7. CASE t.current # t.conf.addresses
    BY <1>4, <1>9, <2>3, <2>4, <2>7, OtherAttempt
  <2>8. QED BY <2>6, <2>7
<1>13. QED BY <1>11, <1>12

-----------------------------------------------------------------------------
(* Socket: the reads *)

\* _read
Reading(x) == [x EXCEPT !.reading = TRUE]
LEMMA ReadingHandle ==
  ASSUME NEW x \in HandleType
  PROVE  /\ Reading(x) \in HandleType /\ Reading(x).closed = x.closed /\ Reading(x).queue = x.queue
         /\ Reading(x).wire = x.wire /\ Reading(x).in = x.in /\ Reading(x).over = x.over /\ Reading(x).st = x.st
BY Zenon DEF Reading, HandleType

LEMMA Reads ==
  ASSUME NEW s, NEW n \in Nat, Sound(s, n)
  PROVE  Sound(SRead(s), n)
<1>1. s \in Sockets /\ HandlesOK(s) /\ SocketOK(s, n) /\ ConnectOK(s)
  BY DEF Sound, SocketOK
<1>2. CASE s.connecting \/ s.handle = 0
  <2> DEFINE y == [s EXCEPT !.readWaits = TRUE]
  <2>1. SRead(s) = y
    BY <1>2 DEF SRead
  <2>2. y \in Sockets /\ y.handles = s.handles /\ y.connecting = s.connecting /\ y.destroyed = s.destroyed
        /\ y.handle = s.handle /\ y.errored = s.errored /\ y.conf = s.conf
    BY <1>1, ZenonT(40) DEF Sockets
  <2>3. SameWrites(s, y) /\ SameReads(s, y) /\ SameQueues(s, y) /\ y.looking = s.looking /\ y.attempt = s.attempt
    BY <1>1 DEF Sockets, SameWrites, SameReads, SameQueues
  <2> HIDE DEF y
  <2>4. QED BY <2>1, <2>2, <2>3, LessKeeps DEF LessIs
<1>3. CASE ~(s.connecting \/ s.handle = 0)
  <2> DEFINE y == SRead(s)
             t == [s.handles EXCEPT ![Len(s.handles)] = Reading(Newest(s))]
  <2>1. /\ Newest(s) \in HandleType /\ Len(s.handles) \in 1..Len(s.handles) /\ s.handle = Len(s.handles) /\ s.handle # 0
        /\ ~s.destroyed /\ Has(s.events, "connect") /\ Reading(Newest(s)) \in HandleType
    BY <1>1, <1>3, NewestFields, ReadingHandle DEF HandlesOK, ConnectOK
  <2>2. t \in Seq(HandleType)
    BY <1>1, <2>1, ExceptSeq, SocketFields
  <2>3. y = [s EXCEPT !.handles = t]
    BY <1>3, <2>1 DEF SRead, ReadStart, Reading, Newest
  <2> HIDE DEF y, t
  <2>4. y \in Sockets /\ y.handles = t
    BY <1>1, <2>2, <2>3, ZenonT(40) DEF Sockets
  <2>5. SameState(s, y) /\ SameWrites(s, y)
    BY <1>1, <2>3 DEF Sockets, SameState, SameWrites
  <2>6. SameReads(s, y) /\ SameQueues(s, y)
    BY <1>1, <2>3 DEF Sockets, SameReads, SameQueues
  <2>7. NewestTo(s, Reading(Newest(s)), y)
    BY <2>4 DEF NewestTo, t
  <2>8. /\ Newest(y) = Reading(Newest(s)) /\ Len(y.handles) = Len(s.handles)
        /\ \A h \in 1..Len(s.handles) : h # Len(s.handles) => y.handles[h] = s.handles[h]
    BY <1>1, <2>1, <2>7, NewestChanges
  <2>9. /\ Newest(y).closed = Newest(s).closed /\ Newest(y).wire = Newest(s).wire /\ Newest(y).in = Newest(s).in
        /\ Newest(y).over = Newest(s).over /\ Newest(y).st = Newest(s).st /\ Newest(y).queue = Newest(s).queue
    BY <2>1, <2>8, ReadingHandle
  <2>10. HandlesOK(y)
    <3>1. \A h \in 1..Len(s.handles) : y.handles[h].closed = s.handles[h].closed
      BY <2>8, <2>9 DEF Newest
    <3>2. QED BY <1>1, <2>5, <2>8, <3>1 DEF HandlesOK, SameState
  <2>11. ReportOK(y)
    BY <1>1, <2>5, <2>6, <2>8, <2>9 DEF SocketOK, ReportOK, Reported, SameState, SameQueues
  <2>12. ConnectOK(y)
    BY <1>1, <2>5, <2>6, <2>8, <2>9 DEF ConnectOK, SameState, SameQueues
  <2>13. UntouchedOK(y)
    BY <2>1, <2>6 DEF UntouchedOK, SameQueues
  <2>14. SaidOK(y)
    BY <1>1, <2>5, <2>6, <2>9 DEF SocketOK, SaidOK, SameState, SameWrites, SameReads, SameQueues
  <2>15. ComesOnce(y)
    BY <1>1, <2>6 DEF SocketOK, ComesOnce, SameQueues
  <2>16. IdsOK(y, n)
    BY <1>1, <2>5, <2>6 DEF SocketOK, IdsOK, Unknown, SameWrites, SameQueues
  <2>17. PendingOK(y) /\ WireOK(y, n)
    BY <1>1, <2>5, <2>6, <2>9 DEF SocketOK, PendingOK, Idle, WireOK, Sent, SameState, SameWrites, SameQueues
  <2>18. FinOK(y) /\ ReadOK(y)
    BY <1>1, <2>5, <2>6, <2>9 DEF SocketOK, FinOK, ReadOK, SameState, SameReads, SameQueues
  <2>19. TidyOK(y)
    BY <2>5 DEF Sound, TidyOK, SameWrites, SameState
  <2>20. QED BY <2>4, <2>10, <2>11, <2>12, <2>13, <2>14, <2>15, <2>16, <2>17, <2>18, <2>19 DEF Sound, SocketOK, y
<1>4. QED BY <1>2, <1>3

\* The connection is there: 'connect'.
Reached(s) == [s EXCEPT !.connecting = FALSE, !.attempt = FALSE, !.events = Append(s.events, "connect")]
ReachedIs(s, y) ==
  /\ y \in Sockets /\ y.events = Append(s.events, "connect") /\ ~y.connecting /\ ~y.attempt
  /\ y.ticks = s.ticks /\ y.macros = s.macros /\ y.settled = s.settled /\ y.handles = s.handles
  /\ y.destroyed = s.destroyed /\ y.handle = s.handle /\ y.looking = s.looking /\ y.errored = s.errored
  /\ SameWrites(s, y) /\ SameReads(s, y) /\ y.conf = s.conf

LEMMA ReachedFields == ASSUME NEW s \in Sockets PROVE ReachedIs(s, Reached(s))
<1> DEFINE t == Append(s.events, "connect")
           y == Reached(s)
<1>1. t \in Seq(SEvents)
  BY SocketFields, AppendProperties DEF SEvents
<1>2. y = [s EXCEPT !.connecting = FALSE, !.attempt = FALSE, !.events = t]
  BY DEF Reached
<1> HIDE DEF t, y
<1>3. y \in Sockets /\ y.events = t /\ ~y.connecting /\ ~y.attempt
  BY <1>1, <1>2, ZenonT(40) DEF Sockets
<1>4. /\ y.ticks = s.ticks /\ y.macros = s.macros /\ y.settled = s.settled /\ y.handles = s.handles /\ y.conf = s.conf
  BY <1>2 DEF Sockets
<1>5. y.destroyed = s.destroyed /\ y.handle = s.handle /\ y.looking = s.looking /\ y.errored = s.errored
  BY <1>2 DEF Sockets
<1>6. SameWrites(s, y) /\ SameReads(s, y)
  BY <1>2 DEF Sockets, SameWrites, SameReads
<1>7. QED BY <1>3, <1>4, <1>5, <1>6 DEF ReachedIs, t, y

LEMMA ReachedKeeps ==
  ASSUME NEW s, NEW n \in Nat, Sound(s, n), s.connecting, ~Reported(s), Newest(s).st \in {"up", "down"}
  PROVE  Sound(Reached(s), n) /\ ReachedIs(s, Reached(s))
<1> DEFINE y == Reached(s)
<1>1. s \in Sockets /\ SocketOK(s, n) /\ ConnectOK(s) /\ SaidOK(s) /\ s.events \in Seq(SEvents) /\ "connect" \in SEvents
  BY SocketFields DEF Sound, SocketOK, SEvents
<1>2. ReachedIs(s, y)
  BY <1>1, ReachedFields
<1> HIDE DEF y
<1>3. /\ y \in Sockets /\ y.events = Append(s.events, "connect") /\ ~y.connecting /\ ~y.attempt
      /\ y.ticks = s.ticks /\ y.macros = s.macros /\ y.settled = s.settled /\ y.handles = s.handles
      /\ y.destroyed = s.destroyed /\ y.handle = s.handle /\ y.looking = s.looking /\ y.errored = s.errored
      /\ SameWrites(s, y) /\ SameReads(s, y) /\ Newest(y) = Newest(s)
  BY <1>2 DEF ReachedIs, Newest
<1>4. \A a : Has(y.events, a) <=> Has(s.events, a) \/ "connect" = a
  BY <1>1, <1>3, HasAppend
<1>5. ~s.destroyed /\ ~Has(s.events, "connect") /\ ~Has(s.events, "close") /\ ~s.looking
  BY <1>1 DEF ConnectOK, SaidOK
<1>6. HandlesOK(y)
  BY <1>1, <1>3 DEF SocketOK, HandlesOK
<1>7. ReportOK(y)
  BY <1>1, <1>3 DEF SocketOK, ReportOK, Reported
<1>8. ConnectOK(y)
  BY <1>3, <1>4, <1>5 DEF ConnectOK
<1>9. UntouchedOK(y)
  BY <1>4 DEF UntouchedOK
<1>10. SaidOK(y)
  BY <1>1, <1>3, <1>4, <1>5 DEF SaidOK, SameWrites, SameReads
<1>11. ComesOnce(y)
  <2>1. ComesOnce(s)
    BY <1>1 DEF SocketOK
  <2>2. Single(y.events, "connect") /\ Single(y.events, "end")
    BY <1>1, <1>3, <1>5, <2>1, SingleAppend DEF ComesOnce
  <2>3. OnceIn(Ops(y.ticks), "error", y.events, "error") /\ OnceIn(Ops(y.ticks), "finish", y.events, "finish")
    BY <1>1, <1>3, <2>1, OnceLog DEF ComesOnce
  <2>4. OnceIn(Ops(y.ticks), "close", y.events, "close") /\ OnceIn(Ops(y.macros), "closed", y.events, "close")
    BY <1>1, <1>3, <2>1, OnceLog DEF ComesOnce
  <2>5. CloseLast(y.events)
    BY <1>1, <1>3, <1>5, <2>1, CloseLastPut DEF ComesOnce
  <2>6. QED BY <1>3, <2>1, <2>2, <2>3, <2>4, <2>5 DEF ComesOnce
<1>12. IdsOK(y, n) /\ PendingOK(y)
  BY <1>1, <1>3 DEF SocketOK, IdsOK, Unknown, PendingOK, Idle, SameWrites
<1>13. WireOK(y, n) /\ FinOK(y)
  BY <1>1, <1>3 DEF SocketOK, WireOK, Sent, FinOK, SameWrites
<1>14. ReadOK(y)
  BY <1>1, <1>3, <1>4 DEF SocketOK, ReadOK, SameReads
<1>15. TidyOK(y)
  BY <1>3 DEF Sound, TidyOK, SameWrites
<1>16. QED BY <1>2, <1>3, <1>6, <1>7, <1>8, <1>9, <1>10, <1>11, <1>12, <1>13, <1>14, <1>15 DEF Sound, SocketOK, y

LEMMA FinalWaiting ==
  ASSUME NEW s, NEW n \in Nat, Sound(s, n), s.finalWaits
  PROVE  Sound(Final(s), n)
<1>1. FinalMay(s)
  BY DEF Sound, SocketOK, WireOK, FinalMay, Fin
<1>2. SocketOK(Final(s), n) /\ FinalIs(s, Final(s))
  BY <1>1, Finals DEF Sound
<1>3. QED BY <1>2 DEF FinalIs, SameState, TidyOK, Sound

\* afterConnect
LEMMA AfterConnects ==
  ASSUME NEW s, NEW n \in Nat, Sound(s, n), s.connecting, ~Reported(s), Newest(s).st \in {"up", "down"}
  PROVE  Sound(AfterConnect(s), n)
<1> DEFINE m == Reached(s)
           told == SEmit([s EXCEPT !.connecting = FALSE, !.attempt = FALSE], "connect")
           wrote == CASE told.waits /\ told.handle = 0 -> WriteAnswered(told, told.cur, FALSE)
                      [] told.waits /\ told.handle # 0 -> WriteGeneric(told, told.cur)
                      [] OTHER -> told
           ends == IF wrote.finalWaits THEN Final(wrote) ELSE wrote
           quiet == [ends EXCEPT !.readWaits = FALSE]
           reads == IF ends.readWaits THEN SRead(quiet) ELSE ends
<1>1. AfterConnect(s) = IF reads.flowing /\ ~reads.destroyed THEN SRead(reads) ELSE reads
  BY DEF AfterConnect
<1> HIDE DEF reads
<1>2. Sound(m, n) /\ ReachedIs(s, m)
  BY ReachedKeeps
<1>3. told = IF s.conf.destroyOn = "connect" THEN SDestroy(m, FALSE) ELSE m
  <2>1. s \in Sockets
    BY DEF Sound, SocketOK
  <2> DEFINE x == [s EXCEPT !.connecting = FALSE, !.attempt = FALSE]
  <2>2. x.conf = s.conf /\ x.events = s.events
    BY <2>1 DEF Sockets
  <2>3. m = [x EXCEPT !.events = Append(x.events, "connect")]
    BY <2>1, <2>2 DEF Reached, Sockets
  <2> HIDE DEF x, m
  <2>4. QED BY <2>2, <2>3 DEF SEmit, x
<1> HIDE DEF m, told
<1>4. Sound(told, n) /\ (told = m \/ told.destroyed)
  BY <1>2, <1>3, DestroysTidy, Zenon DEF Ruins
<1>5. told \in Sockets /\ HandlesOK(told) /\ PendingOK(told) /\ IdsOK(told, n) /\ WireOK(told, n) /\ told.cur \in Nat
  BY <1>4, SocketFields DEF Sound, SocketOK
<1>6. Sound(wrote, n)
  <2>1. CASE told.waits /\ told.handle = 0
    <3>1. wrote = WriteAnswered(told, told.cur, FALSE)
      BY <2>1
    <3>2. told.cur # 0 /\ Idle(told, told.cur)
      BY <1>5, <2>1 DEF PendingOK
    <3>3. QED BY <1>4, <3>1, <3>2, WriteReturns, Zenon
  <2>2. CASE told.waits /\ told.handle # 0
    <3> DEFINE y == WriteGeneric(told, told.cur)
    <3>1. wrote = y
      BY <2>2
    <3>2. told.cur # 0 /\ Idle(told, told.cur) /\ ~told.destroyed
      BY <1>5, <2>2 DEF PendingOK, HandlesOK
    <3>3. \A b \in Nat : ~Sent(told, b)
      <4>1. told.handles = s.handles
        BY <1>2, <1>4, <3>2 DEF ReachedIs
      <4>2. Blank(Newest(s))
        BY DEF Sound, SocketOK, ConnectOK, UntouchedOK, Untouched
      <4>3. Newest(told).queue = <<>> /\ Newest(told).wire = <<>>
        BY <4>1, <4>2 DEF Newest, Blank
      <4>4. QED BY <4>3, EmptySeq DEF Sent, Has
    <3>4. Unknown(told, told.cur) /\ told.cur <= n /\ \A b \in Nat : Has(told.buffer, b) => told.cur < b
      BY <1>5, <3>2 DEF IdsOK
    <3>5. told.again \/ told.final = "no"
      BY <1>5, <3>2 DEF WireOK
    <3>6. MayWrite(told, told.cur, n)
      BY <1>5, <3>2, <3>3, <3>4, <3>5 DEF MayWrite
    <3>7. SocketOK(y, n) /\ WroteIs(told, told.cur, y)
      BY <1>4, <3>6, Writes DEF Sound
    <3> HIDE DEF y
    <3>8. TidyOK(y)
      BY <1>4, <3>2, <3>7 DEF Sound, TidyOK, WroteIs, SameState
    <3>9. QED BY <3>1, <3>7, <3>8, Zenon DEF Sound
  <2>3. CASE ~told.waits
    BY <1>4, <2>3
  <2>4. QED BY <2>1, <2>2, <2>3, Zenon
<1> HIDE DEF wrote
<1>7. Sound(ends, n)
  BY <1>6, FinalWaiting
<1> HIDE DEF ends
<1>8. Sound(quiet, n)
  <2>1. ends \in Sockets
    BY <1>7 DEF Sound, SocketOK
  <2>2. quiet \in Sockets /\ quiet.handles = ends.handles /\ quiet.connecting = ends.connecting /\ quiet.destroyed = ends.destroyed
        /\ quiet.handle = ends.handle /\ quiet.errored = ends.errored /\ quiet.conf = ends.conf
    BY <2>1, ZenonT(40) DEF Sockets
  <2>3. SameWrites(ends, quiet) /\ SameReads(ends, quiet) /\ SameQueues(ends, quiet)
        /\ quiet.looking = ends.looking /\ quiet.attempt = ends.attempt
    BY <2>1 DEF Sockets, SameWrites, SameReads, SameQueues
  <2> HIDE DEF quiet
  <2>4. QED BY <1>7, <2>2, <2>3, LessKeeps DEF LessIs
<1> HIDE DEF quiet
<1>9. Sound(reads, n)
  BY <1>7, <1>8, Reads DEF reads
<1>10. QED BY <1>1, <1>9, Reads

\* What was read changes.
FlowsOn(s, y) ==
  /\ y \in Sockets /\ y.handles = s.handles /\ SameState(s, y) /\ SameWrites(s, y) /\ SameQueues(s, y) /\ y.conf = s.conf

LEMMA FlowKeeps ==
  ASSUME NEW s, NEW n \in Nat, Sound(s, n), NEW y, FlowsOn(s, y), UntouchedOK(y), SaidOK(y), ReadOK(y)
  PROVE  Sound(y, n)
<1>1. /\ y \in Sockets /\ y.handles = s.handles /\ SameState(s, y) /\ SameWrites(s, y) /\ SameQueues(s, y)
      /\ Newest(y) = Newest(s) /\ SocketOK(s, n)
  BY DEF FlowsOn, Newest, Sound
<1>2. HandlesOK(y) /\ ReportOK(y)
  BY <1>1 DEF SocketOK, HandlesOK, ReportOK, Reported, SameState, SameQueues
<1>3. ConnectOK(y) /\ ComesOnce(y)
  BY <1>1 DEF SocketOK, ConnectOK, ComesOnce, SameState, SameQueues
<1>4. IdsOK(y, n)
  BY <1>1 DEF SocketOK, IdsOK, Unknown, SameWrites, SameQueues
<1>5. PendingOK(y) /\ WireOK(y, n) /\ FinOK(y)
  BY <1>1 DEF SocketOK, PendingOK, Idle, WireOK, Sent, FinOK, SameWrites, SameQueues
<1>6. TidyOK(y)
  BY <1>1 DEF Sound, TidyOK, SameWrites, SameState
<1>7. QED BY <1>1, <1>2, <1>3, <1>4, <1>5, <1>6 DEF Sound, SocketOK

\* endReadableNT
LEMMA EndsRead ==
  ASSUME NEW s, NEW n \in Nat, Sound(s, n), Has(s.events, "connect"), s.ended, ~Has(s.events, "close")
  PROVE  Sound(EndNT(s), n)
<1> DEFINE m == [s EXCEPT !.endEmitted = TRUE]
           e == SEmit(m, "end")
<1>1. s \in Sockets /\ SocketOK(s, n) /\ SaidOK(s) /\ ReadOK(s) /\ s.chunks \in Nat
  BY SocketFields DEF Sound, SocketOK
<1>2. m \in Sockets /\ m.handles = s.handles /\ m.conf = s.conf /\ SameState(s, m) /\ SameWrites(s, m)
  BY <1>1, ZenonT(40) DEF Sockets, SameState, SameWrites
<1>3. /\ SameQueues(s, m) /\ m.finished = s.finished /\ m.chunks = s.chunks /\ m.ended = s.ended /\ m.endEmitted
      /\ m.got = s.got
  BY <1>1, Zenon DEF Sockets, SameQueues
<1> HIDE DEF m, e
<1>4. FlowsOn(s, m) /\ Newest(m) = Newest(s)
  BY <1>2, <1>3 DEF FlowsOn, Newest
<1>5. UntouchedOK(m)
  BY <1>3 DEF UntouchedOK, SameQueues
<1>6. SaidOK(m)
  BY <1>1, <1>2, <1>3, <1>4 DEF SaidOK, SameState, SameWrites, SameQueues
<1>7. ReadOK(m)
  BY <1>1, <1>2, <1>3, <1>4 DEF ReadOK, SameState, SameQueues
<1>8. Sound(m, n)
  BY <1>4, <1>5, <1>6, <1>7, FlowKeeps
<1>9. CASE s.errored \/ s.endEmitted \/ s.chunks > 0
  <2>1. EndNT(s) = s
    BY <1>9, Zenon DEF EndNT
  <2>2. QED BY <2>1
<1>10. CASE ~(s.errored \/ s.endEmitted \/ s.chunks > 0)
  <2>1. s.chunks = 0 /\ ~Has(s.events, "end")
    BY <1>1, <1>10 DEF SaidOK
  <2>2. EmitOK(m, "end")
    BY <1>3, <2>1 DEF EmitOK, SEvents, SameQueues
  <2>3. Sound(e, n) /\ HeardIs(m, "end", e)
    BY <1>8, <2>2, EmitsTidy DEF e
  <2>4. Has(e.events, "connect")
    <3>1. e.events = Append(s.events, "end") /\ s.events \in Seq(SEvents) /\ "end" \in SEvents
      BY <1>1, <1>3, <2>3, SocketFields DEF HeardIs, SameQueues, SEvents
    <3>2. QED BY <3>1, HasAppend
  <2>5. TickOK(e, "endWritable")
    BY <2>4 DEF TickOK, TickOps
  <2>6. Sound(STick(e, "endWritable"), n)
    BY <2>3, <2>5, TicksTidy
  <2>7. Sound(SDestroy(e, FALSE), n)
    BY <2>3, DestroysTidy, Zenon
  <2>8. EndNT(s) = IF (~e.destroyed /\ ~e.errored /\ ~e.ending) /\ ~s.conf.halfOpen THEN STick(e, "endWritable")
                   ELSE IF e.finished THEN SDestroy(e, FALSE) ELSE e
    BY <1>10 DEF EndNT, e, m
  <2>9. QED BY <2>3, <2>6, <2>7, <2>8, Zenon
<1>11. QED BY <1>9, <1>10

\* Writable's finish.
LEMMA FinishSays ==
  ASSUME NEW s, NEW n \in Nat, Sound(s, n), Has(s.events, "connect"), s.final = "done", Has(Newest(s).wire, Fin),
         ~Has(Ops(s.ticks), "finish"), ~Has(s.events, "finish"), ~Has(s.events, "close")
  PROVE  Sound(SFinish(s), n)
<1> DEFINE m == [s EXCEPT !.finished = TRUE]
           f == SEmit(m, "finish")
<1>1. s \in Sockets /\ SocketOK(s, n) /\ SaidOK(s) /\ ReadOK(s)
  BY DEF Sound, SocketOK
<1>2. m \in Sockets /\ m.handles = s.handles /\ m.conf = s.conf /\ SameState(s, m) /\ SameWrites(s, m)
  BY <1>1, ZenonT(40) DEF Sockets, SameState, SameWrites
<1>3. /\ SameQueues(s, m) /\ m.finished /\ m.chunks = s.chunks /\ m.ended = s.ended /\ m.endEmitted = s.endEmitted
      /\ m.got = s.got
  BY <1>1 DEF Sockets, SameQueues
<1>4. SFinish(s) = IF f.endEmitted THEN SDestroy(f, FALSE) ELSE f
  BY DEF SFinish
<1> HIDE DEF m, f
<1>5. FlowsOn(s, m) /\ Newest(m) = Newest(s)
  BY <1>2, <1>3 DEF FlowsOn, Newest
<1>6. UntouchedOK(m)
  BY <1>3 DEF UntouchedOK, SameQueues
<1>7. SaidOK(m)
  BY <1>1, <1>2, <1>3, <1>5 DEF SaidOK, SameState, SameWrites, SameQueues
<1>8. ReadOK(m)
  BY <1>1, <1>2, <1>3, <1>5 DEF ReadOK, SameState, SameQueues
<1>9. Sound(m, n)
  BY <1>5, <1>6, <1>7, <1>8, FlowKeeps
<1>10. EmitOK(m, "finish")
  BY <1>2, <1>3, <1>5 DEF EmitOK, SEvents, SameQueues, SameWrites
<1>11. Sound(f, n)
  BY <1>9, <1>10, EmitsTidy DEF f
<1>12. QED BY <1>4, <1>11, DestroysTidy, Zenon

\* flow
LEMMA FlowsOut ==
  ASSUME NEW s, NEW n \in Nat, Sound(s, n), ~Has(s.events, "close")
  PROVE  Sound(SFlow(s), n)
<1> DEFINE g == s.got + s.chunks
           m == [s EXCEPT !.got = g, !.chunks = 0]
<1>1. s \in Sockets /\ SocketOK(s, n) /\ SaidOK(s) /\ ReadOK(s) /\ HandlesOK(s) /\ s.chunks \in Nat /\ s.got \in Nat
      /\ Tally(Ops(s.macros), "data") \in Nat /\ UntouchedOK(s)
  BY SocketFields DEF Sound, SocketOK
<1>2. g \in Nat /\ m = [s EXCEPT !.got = s.got + s.chunks, !.chunks = 0]
  BY <1>1
<1>3. SFlow(s) = IF ~s.flowing THEN s ELSE IF s.ended /\ s.chunks > 0 THEN STick(m, "endReadable")
                 ELSE IF s.ended \/ s.destroyed THEN m ELSE SRead(m)
  BY DEF SFlow
<1> HIDE DEF g
<1>4. m \in Sockets /\ m.handles = s.handles /\ m.conf = s.conf /\ SameState(s, m) /\ SameWrites(s, m)
  BY <1>1, <1>2, ZenonT(40) DEF Sockets, SameState, SameWrites
<1>5. /\ SameQueues(s, m) /\ m.finished = s.finished /\ m.chunks = 0 /\ m.ended = s.ended /\ m.endEmitted = s.endEmitted
      /\ m.got = g
  BY <1>1 DEF Sockets, SameQueues
<1> HIDE DEF m
<1>6. FlowsOn(s, m) /\ Newest(m) = Newest(s)
  BY <1>4, <1>5 DEF FlowsOn, Newest
<1>7. UntouchedOK(m)
  <2>1. s.got = 0 /\ s.chunks = 0 => g = 0
    BY DEF g
  <2>2. QED BY <1>1, <1>4, <1>5, <1>6, <2>1 DEF UntouchedOK, Untouched, SameQueues, SameWrites
<1>8. SaidOK(m)
  BY <1>1, <1>4, <1>5, <1>6 DEF SaidOK, SameState, SameWrites, SameQueues
<1>9. ReadOK(m)
  <2>1. ~m.destroyed => Newest(m).in = m.got + m.chunks + Tally(Ops(m.macros), "data")
    <3>1. Newest(s).in \in Nat
      BY <1>1, NewestFields
    <3>2. ~s.destroyed => Newest(s).in = g + Tally(Ops(s.macros), "data")
      BY <1>1, <3>1 DEF ReadOK, g
    <3>3. g + 0 = g
      BY <1>2
    <3>4. QED BY <1>4, <1>5, <1>6, <3>2, <3>3 DEF SameState, SameQueues
  <2>2. QED BY <1>1, <1>4, <1>5, <1>6, <2>1 DEF ReadOK, SameState, SameQueues
<1>10. Sound(m, n)
  BY <1>6, <1>7, <1>8, <1>9, FlowKeeps
<1>11. s.ended => TickOK(m, "endReadable")
  BY <1>5 DEF TickOK, TickOps, SameQueues
<1>12. s.ended => Sound(STick(m, "endReadable"), n)
  BY <1>10, <1>11, TicksTidy
<1>13. Sound(SRead(m), n)
  BY <1>10, Reads
<1>14. QED BY <1>3, <1>10, <1>12, <1>13

-----------------------------------------------------------------------------
(* Socket: the ticks *)

\* A tick is taken.
TookTick(s, y) ==
  /\ y \in Sockets /\ y.ticks = Tail(s.ticks)
  /\ y.macros = s.macros /\ y.events = s.events /\ y.settled = s.settled /\ y.handles = s.handles
  /\ SameState(s, y) /\ SameWrites(s, y) /\ SameReads(s, y) /\ y.conf = s.conf

LEMMA TookFields ==
  ASSUME NEW s \in Sockets, s.ticks # <<>> PROVE TookTick(s, [s EXCEPT !.ticks = Tail(s.ticks)])
<1> DEFINE t == Tail(s.ticks)
           y == [s EXCEPT !.ticks = t]
<1>1. t \in Seq(STicks)
  BY SocketFields, HeadTailProperties
<1> HIDE DEF t
<1>2. y \in Sockets /\ y.ticks = t /\ y.macros = s.macros /\ y.events = s.events /\ y.settled = s.settled
      /\ y.handles = s.handles /\ y.conf = s.conf
  BY <1>1, ZenonT(40) DEF Sockets
<1>3. SameState(s, y) /\ SameWrites(s, y)
  BY DEF Sockets, SameState, SameWrites
<1>4. SameReads(s, y)
  BY DEF Sockets, SameReads
<1>5. QED BY <1>2, <1>3, <1>4 DEF TookTick, t

LEMMA TickTaken ==
  ASSUME NEW s, NEW n \in Nat, Sound(s, n), s.ticks # <<>>, NEW y, TookTick(s, y)
  PROVE  Sound(y, n)
<1> DEFINE t == s.ticks
           u == y.ticks
<1>1. /\ s \in Sockets /\ SocketOK(s, n) /\ y \in Sockets /\ u = Tail(t) /\ t \in Seq(STicks) /\ t # <<>>
      /\ y.macros = s.macros /\ y.events = s.events /\ y.settled = s.settled /\ y.handles = s.handles
      /\ SameState(s, y) /\ SameWrites(s, y) /\ SameReads(s, y) /\ Newest(y) = Newest(s)
  BY SocketFields DEF Sound, SocketOK, TookTick, Newest
<1>2. /\ Ops(t) \in Seq(TickOps) /\ Ops(t) # <<>> /\ Ops(u) = Tail(Ops(t))
      /\ Refusals(t) \in Seq(Nat) /\ Refusals(t) # <<>> /\ Refusals(u) = Tail(Refusals(t))
  <2> HIDE DEF t, u
  <2>1. QED BY <1>1, TicksSeen
<1>3. \A a : Has(Ops(u), a) => Has(Ops(t), a)
  BY <1>2, HasTail
<1>4. \A a : Has(Refusals(u), a) => Has(Refusals(t), a)
  <2> DEFINE N == Nat
  <2>1. Refusals(t) \in Seq(N)
    BY <1>2
  <2> HIDE DEF N
  <2>2. QED BY <1>2, <2>1, HasTail
<1>5. HandlesOK(y) /\ ReportOK(y)
  BY <1>1 DEF SocketOK, HandlesOK, ReportOK, Reported, SameState
<1>6. ConnectOK(y)
  BY <1>1 DEF SocketOK, ConnectOK, SameState
<1>7. UntouchedOK(y)
  BY <1>1, <1>3 DEF SocketOK, UntouchedOK, Untouched, SameWrites, SameReads
<1>8. SaidOK(y)
  BY <1>1, <1>3 DEF SocketOK, SaidOK, SameState, SameWrites, SameReads
<1>9. ComesOnce(y)
  <2>1. ComesOnce(s)
    BY <1>1 DEF SocketOK
  <2> HIDE DEF t, u
  <2>2. OnceIn(Ops(u), "error", y.events, "error") /\ OnceIn(Ops(u), "finish", y.events, "finish")
        /\ OnceIn(Ops(u), "close", y.events, "close")
    BY <1>1, <1>2, <2>1, OnceRuns, Zenon DEF ComesOnce, t
  <2>3. Ordered(Ops(u), {"error", "resume"}, {"close"})
    <3> DEFINE f == Ops(t)
               g == Ops(u)
    <3>1. Ordered(f, {"error", "resume"}, {"close"})
      BY <2>1 DEF ComesOnce, t
    <3>2. f \in Seq(TickOps) /\ f # <<>> /\ g = Tail(f)
      BY <1>2
    <3> HIDE DEF f, g
    <3>3. Ordered(g, {"error", "resume"}, {"close"})
      BY <3>1, <3>2, OrderedTail
    <3>4. QED BY <3>3 DEF g
  <2>4. QED BY <1>1, <1>3, <2>1, <2>2, <2>3 DEF ComesOnce, t, u
<1>10. IdsOK(y, n)
  <2>1. IdsOK(s, n)
    BY <1>1 DEF SocketOK
  <2>2. \A a \in Nat \ {0} : OnceIn(Refusals(u), a, Called(y.settled), a)
    <3> DEFINE N == Nat
    <3>1. Refusals(t) \in Seq(N) /\ \A a \in Nat \ {0} : OnceIn(Refusals(t), a, Called(s.settled), a)
      BY <1>2, <2>1 DEF IdsOK
    <3> HIDE DEF N, t, u
    <3>2. QED BY <1>1, <1>2, <3>1, OnceRuns, Zenon
  <2>3. \A a \in Nat : Unknown(s, a) => Unknown(y, a)
    BY <1>1, <1>4 DEF Unknown
  <2>4. y.cur = s.cur /\ y.buffer = s.buffer
    BY <1>1 DEF SameWrites
  <2>5. QED BY <1>1, <1>4, <2>1, <2>2, <2>3, <2>4 DEF IdsOK
<1>11. PendingOK(y) /\ WireOK(y, n) /\ FinOK(y)
  BY <1>1 DEF SocketOK, PendingOK, Idle, WireOK, Sent, FinOK, SameWrites
<1>12. ReadOK(y)
  BY <1>1 DEF SocketOK, ReadOK, SameState, SameReads
<1>13. TidyOK(y)
  BY <1>1 DEF Sound, TidyOK, SameState, SameWrites
<1>14. QED BY <1>1, <1>5, <1>6, <1>7, <1>8, <1>9, <1>10, <1>11, <1>12, <1>13 DEF Sound, SocketOK

\* What the tick that runs says, when it is taken.
FinishMay(s) ==
  /\ Has(s.events, "connect") /\ s.final = "done" /\ Has(Newest(s).wire, Fin)
  /\ ~Has(Ops(s.ticks), "finish") /\ ~Has(s.events, "finish") /\ ~Has(s.events, "close")

EndMay(s) == Has(s.events, "connect") /\ s.ended /\ ~Has(s.events, "close")
LEMMA TickSays ==
  ASSUME NEW s, NEW n \in Nat, Sound(s, n), s.ticks # <<>>, NEW y, TookTick(s, y), NEW e, e = Head(s.ticks).op
  PROVE  /\ e \in TickOps
         /\ e = "error" => EmitOK(y, "error")
         /\ e = "close" => EmitOK(y, "close")
         /\ e = "finish" => FinishMay(y)
         /\ e = "endReadable" => EndMay(y)
         /\ e = "resume" => ~Has(y.events, "close")
         /\ e = "refuse" => FreeId(y, Head(s.ticks).id, n)
<1> DEFINE t == s.ticks
           u == y.ticks
           x == Head(t)
<1>1. /\ s \in Sockets /\ SocketOK(s, n) /\ y \in Sockets /\ u = Tail(t) /\ t \in Seq(STicks) /\ t # <<>>
      /\ y.macros = s.macros /\ y.events = s.events /\ y.settled = s.settled /\ y.handles = s.handles
      /\ SameState(s, y) /\ SameWrites(s, y) /\ SameReads(s, y) /\ Newest(y) = Newest(s)
  BY SocketFields DEF Sound, SocketOK, TookTick, Newest
<1>2. /\ Ops(t) \in Seq(TickOps) /\ Ops(t) # <<>> /\ Ops(u) = Tail(Ops(t)) /\ Head(Ops(t)) = e /\ x \in STicks
      /\ Refusals(t) \in Seq(Nat) /\ Refusals(t) # <<>> /\ Refusals(u) = Tail(Refusals(t))
      /\ Head(Refusals(t)) = IF e = "refuse" THEN x.id ELSE 0
  <2>1. e = x.op
    OBVIOUS
  <2> HIDE DEF t, u, x
  <2>2. QED BY <1>1, <2>1, TicksSeen DEF x
<1>3. \A a : Has(Ops(t), a) <=> e = a \/ Has(Ops(u), a)
  BY <1>2, HasTail
<1>4. /\ Has(Ops(t), e) /\ \A a : Has(Ops(u), a) => Has(Ops(t), a)
  BY <1>3
<1>5. e \in TickOps
  BY <1>2 DEF STicks, x
<1>6. UntouchedOK(s) /\ SaidOK(s) /\ ComesOnce(s) /\ IdsOK(s, n)
  BY <1>1 DEF SocketOK
<1>7. ASSUME e = "error" PROVE EmitOK(y, "error")
  <2>1. Has(Ops(t), "error")
    BY <1>4, <1>7
  <2>2. ~Has(Ops(u), "error") /\ ~Has(s.events, "error")
    <3>1. OnceIn(Ops(t), "error", s.events, "error") /\ Head(Ops(t)) = "error"
      BY <1>2, <1>6, <1>7 DEF ComesOnce
    <3> HIDE DEF t, u
    <3>2. QED BY <1>2, <3>1, OnceRuns
  <2>3. s.destroyed /\ ~Has(s.events, "close")
    BY <1>6, <2>1 DEF SaidOK
  <2>4. QED BY <1>1, <2>2, <2>3 DEF EmitOK, SameState, SEvents
<1>8. ASSUME e = "close" PROVE EmitOK(y, "close")
  <2>1. Has(Ops(t), "close")
    BY <1>4, <1>8
  <2>2. ~Has(Ops(u), "close") /\ ~Has(s.events, "close")
    <3>1. OnceIn(Ops(t), "close", s.events, "close") /\ Head(Ops(t)) = "close"
      BY <1>2, <1>6, <1>8 DEF ComesOnce
    <3> HIDE DEF t, u
    <3>2. QED BY <1>2, <3>1, OnceRuns
  <2>3. s.destroyed /\ ~Has(s.events, "connect") /\ ~Has(Ops(s.macros), "closed")
    BY <1>6, <2>1 DEF SaidOK, ComesOnce
  <2>4. ~Has(Ops(t), "finish") /\ ~Has(Ops(t), "endReadable")
    BY <1>6, <2>3 DEF UntouchedOK, Untouched
  <2>5. ~Has(Ops(t), "error") /\ ~Has(Ops(t), "resume")
    <3>1. Ordered(Ops(t), {"error", "resume"}, {"close"}) /\ Head(Ops(t)) \in {"close"}
      BY <1>2, <1>6, <1>8 DEF ComesOnce
    <3> HIDE DEF t, u
    <3>2. \A i \in 1..Len(Ops(t)) : Ops(t)[i] \notin {"error", "resume"}
      BY <1>2, <3>1, OrderedTail, Zenon
    <3>3. QED BY <3>2 DEF Has
  <2>6. QED BY <1>1, <1>4, <2>2, <2>3, <2>4, <2>5 DEF EmitOK, SameState, SEvents
<1>9. ASSUME e = "finish" PROVE FinishMay(y)
  <2>1. Has(Ops(t), "finish")
    BY <1>4, <1>9
  <2>2. ~Has(Ops(u), "finish") /\ ~Has(s.events, "finish")
    <3>1. OnceIn(Ops(t), "finish", s.events, "finish") /\ Head(Ops(t)) = "finish"
      BY <1>2, <1>6, <1>9 DEF ComesOnce
    <3> HIDE DEF t, u
    <3>2. QED BY <1>2, <3>1, OnceRuns
  <2>3. s.final = "done" /\ Has(Newest(s).wire, Fin) /\ ~Has(s.events, "close") /\ Has(s.events, "connect")
    BY <1>6, <2>1 DEF SaidOK, UntouchedOK, Untouched
  <2>4. QED BY <1>1, <2>2, <2>3 DEF FinishMay, SameWrites
<1>10. ASSUME e = "endReadable" PROVE EndMay(y)
  <2>1. Has(Ops(t), "endReadable")
    BY <1>4, <1>10
  <2>2. s.ended /\ ~Has(s.events, "close") /\ Has(s.events, "connect")
    BY <1>6, <2>1 DEF SaidOK, UntouchedOK, Untouched
  <2>3. QED BY <1>1, <2>2 DEF EndMay, SameReads
<1>11. ASSUME e = "resume" PROVE ~Has(y.events, "close")
  <2>1. Has(Ops(t), "resume")
    BY <1>4, <1>11
  <2>2. ~Has(s.events, "close")
    BY <1>6, <2>1 DEF SaidOK
  <2>3. QED BY <1>1, <2>2
<1>12. ASSUME e = "refuse" PROVE FreeId(y, x.id, n)
  <2> DEFINE N == Nat
             a == x.id
  <2>1. a \in Nat \ {0}
    BY <1>2, <1>12 DEF STicks
  <2>2. Refusals(t) \in Seq(N) /\ Head(Refusals(t)) = a
    BY <1>2, <1>12
  <2>3. OnceIn(Refusals(t), a, Called(s.settled), a)
    BY <1>6, <2>1 DEF IdsOK
  <2> HIDE DEF N, t, u, a
  <2>4. Has(Refusals(t), a)
    BY <1>2, <2>2, HasTail
  <2>5. ~Has(Refusals(u), a) /\ ~Has(Called(s.settled), a)
    BY <1>2, <2>2, <2>3, OnceRuns
  <2>6. a <= n /\ (a = s.cur \/ Has(s.buffer, a) => Unknown(s, a))
    BY <1>6, <2>1, <2>4 DEF IdsOK, t
  <2>7. ~Unknown(s, a)
    BY <2>4 DEF Unknown, t
  <2>8. Unknown(y, a)
    BY <1>1, <2>5 DEF Unknown, u
  <2>9. y.cur = s.cur /\ y.buffer = s.buffer
    BY <1>1 DEF SameWrites
  <2>10. FreeId(y, a, n)
    BY <2>1, <2>6, <2>7, <2>8, <2>9 DEF FreeId
  <2>11. QED BY <2>10 DEF a
<1>13. QED BY <1>5, <1>7, <1>8, <1>9, <1>10, <1>11, <1>12

LEMMA SettlesTidy ==
  ASSUME NEW s, NEW n \in Nat, Sound(s, n), NEW a, FreeId(s, a, n), NEW ok \in BOOLEAN
  PROVE  Sound(Settles(s, a, ok), n)
<1>1. SocketOK(Settles(s, a, ok), n) /\ SettleIs(s, Settles(s, a, ok))
  BY SettleKeeps DEF Sound
<1>2. QED BY <1>1 DEF Sound, TidyOK, SettleIs, WritesIs, SameState, SameWrites

LEMMA SweepsTidy ==
  ASSUME NEW s, NEW n \in Nat, Sound(s, n)
  PROVE  Sound(SErrorBuffer(s), n)
<1>1. SocketOK(SErrorBuffer(s), n) /\ SweptIs(s, SErrorBuffer(s))
  BY SweepKeeps DEF Sound
<1>2. ASSUME s.cur = 0, ~s.destroyed PROVE SErrorBuffer(s).buffer = <<>>
  <2>1. s.buffer = <<>>
    BY <1>2 DEF Sound, TidyOK
  <2>2. s \in Sockets
    BY DEF Sound, SocketOK
  <2>3. QED BY <1>2, <2>1, <2>2 DEF SErrorBuffer, Sockets
<1>3. s.cur # 0 => SErrorBuffer(s) = s
  BY DEF SErrorBuffer
<1>4. QED BY <1>1, <1>2, <1>3 DEF Sound, TidyOK, SweptIs, WritesIs, SameState

LEMMA TickRuns ==
  ASSUME NEW n \in Nat, Sound(k, n), SocketTick
  PROVE  Sound(k', n)
<1> DEFINE x == Head(k.ticks)
           y == [k EXCEPT !.ticks = Tail(k.ticks)]
           e == x.op
<1>1. k.ticks # <<>> /\ k \in Sockets
  BY DEF SocketTick, Sound, SocketOK
<1>2. TookTick(k, y)
  BY <1>1, TookFields
<1>3. Sound(y, n)
  <2> HIDE DEF y
  <2>1. QED BY <1>1, <1>2, TickTaken
<1>4. /\ e \in TickOps
      /\ e = "error" => EmitOK(y, "error")
      /\ e = "close" => EmitOK(y, "close")
      /\ e = "finish" => FinishMay(y)
      /\ e = "endReadable" => EndMay(y)
      /\ e = "resume" => ~Has(y.events, "close")
      /\ e = "refuse" => FreeId(y, x.id, n)
  <2> HIDE DEF y
  <2>1. QED BY <1>1, <1>2, TickSays
<1>5. k' = CASE e = "errorBuffer" -> SErrorBuffer(y)
             [] e = "error" -> SEmit(y, "error")
             [] e = "close" -> EmitClose(y)
             [] e = "lookupFailed" -> SDestroy(y, TRUE)
             [] e = "refuse" -> Settles(y, x.id, FALSE)
             [] e = "writeError" -> WriteAnswered(y, x.id, FALSE)
             [] e = "finish" -> SFinish(y)
             [] e = "endReadable" -> EndNT(y)
             [] e = "endWritable" -> IF y.destroyed THEN y ELSE SEnd(y)
             [] e = "resume" -> SFlow(y)
  BY DEF SocketTick
<1> HIDE DEF x, y, e
<1>6. CASE e = "errorBuffer"
  BY <1>3, <1>5, <1>6, SweepsTidy
<1>7. CASE e = "error"
  <2>1. k' = SEmit(y, "error")
    BY <1>5, <1>7
  <2>2. QED BY <1>3, <1>4, <1>7, <2>1, EmitsTidy
<1>8. CASE e = "close"
  <2>1. k' = EmitClose(y)
    BY <1>5, <1>8
  <2>2. QED BY <1>3, <1>4, <1>8, <2>1, Closes
<1>9. CASE e = "lookupFailed"
  <2>1. k' = SDestroy(y, TRUE)
    BY <1>5, <1>9
  <2>2. QED BY <1>3, <2>1, DestroysTidy, Zenon
<1>10. CASE e = "refuse"
  <2>1. k' = Settles(y, x.id, FALSE)
    BY <1>5, <1>10
  <2>2. QED BY <1>3, <1>4, <1>10, <2>1, SettlesTidy, Zenon
<1>11. CASE e = "finish"
  <2>1. k' = SFinish(y)
    BY <1>5, <1>11
  <2>2. FinishMay(y)
    BY <1>4, <1>11
  <2>3. Sound(SFinish(y), n)
    BY <1>3, <2>2, FinishSays DEF FinishMay
  <2>4. QED BY <2>1, <2>3
<1>12. CASE e = "endReadable"
  <2>1. k' = EndNT(y)
    BY <1>5, <1>12
  <2>2. EndMay(y)
    BY <1>4, <1>12
  <2>3. Sound(EndNT(y), n)
    BY <1>3, <2>2, EndsRead DEF EndMay
  <2>4. QED BY <2>1, <2>3
<1>13. CASE e = "endWritable"
  <2>1. k' = IF y.destroyed THEN y ELSE SEnd(y)
    BY <1>5, <1>13
  <2>2. QED BY <1>3, <2>1, Ends
<1>14. CASE e = "resume"
  <2>1. k' = SFlow(y)
    BY <1>5, <1>14
  <2>2. QED BY <1>3, <1>4, <1>14, <2>1, FlowsOut
<1>15. QED BY <1>4, <1>6, <1>7, <1>8, <1>9, <1>10, <1>11, <1>12, <1>13, <1>14 DEF TickOps

-----------------------------------------------------------------------------
(* Socket: the user *)

\* The bounds count; the socket is sound.
SocketInv == kcalls \in [ops : Nat, writes : Nat] /\ Sound(k, kcalls.writes)

LEMMA OpsLess ==
  ASSUME kcalls \in [ops : Nat, writes : Nat], kcalls' = [kcalls EXCEPT !.ops = @ + 1]
  PROVE  kcalls' \in [ops : Nat, writes : Nat] /\ kcalls'.writes = kcalls.writes
OBVIOUS

LEMMA LooksUpKeeps ==
  ASSUME NEW n \in Nat, Sound(k, n), LooksUp
  PROVE  Sound(k', n)
<1> DEFINE s == [k EXCEPT !.looking = FALSE]
           told == SEmit(s, "lookup")
<1>1. k \in Sockets /\ SocketOK(k, n) /\ k.looking
  BY DEF LooksUp, Sound, SocketOK
<1>2. s \in Sockets /\ LessIs(k, s) /\ ~s.looking /\ s.handles = k.handles /\ s.macros = k.macros
  <2>1. s \in Sockets
    BY <1>1, ZenonT(40) DEF Sockets
  <2>2. ~s.looking /\ s.handles = k.handles /\ s.macros = k.macros
    BY <1>1 DEF Sockets
  <2>3. LessIs(k, s)
    BY <1>1, <2>1 DEF LessIs, Sockets, SameWrites, SameReads, SameQueues
  <2>4. QED BY <2>1, <2>2, <2>3
<1>3. Newest(s).st = "new"
  BY <1>1, <1>2 DEF SocketOK, ConnectOK, Newest
<1>4. PICK ok \in BOOLEAN : k' = CASE ~told.connecting -> told
                                    [] told.connecting /\ ok -> InternalConnect(told)
                                    [] OTHER -> STick(told, "lookupFailed")
  BY DEF LooksUp
<1> HIDE DEF s, told
<1>5. Sound(s, n)
  BY <1>1, <1>2, LessKeeps
<1>6. Sound(told, n) /\ HeardIs(s, "lookup", told)
  <2>1. EmitOK(s, "lookup")
    BY DEF EmitOK, SEvents
  <2>2. QED BY <1>5, <2>1, EmitsTidy DEF told
<1>7. CASE ~told.connecting
  BY <1>4, <1>6, <1>7
<1>8. ASSUME told.connecting PROVE ~told.looking /\ Newest(told).st = "new"
  <2>1. ~told.destroyed
    BY <1>6, <1>8 DEF Sound, SocketOK, ConnectOK
  <2>2. told = Emitted(s, "lookup")
    BY <1>6, <2>1 DEF HeardIs
  <2>3. told.handles = s.handles
    BY <1>2, <2>2 DEF Emitted, Sockets
  <2>4. told.looking = s.looking
    BY <1>6 DEF HeardIs
  <2>5. QED BY <1>2, <1>3, <2>3, <2>4 DEF Newest
<1>9. CASE told.connecting /\ ok
  <2>1. k' = InternalConnect(told)
    BY <1>4, <1>9
  <2>2. QED BY <1>6, <1>8, <1>9, <2>1, FirstAttempt
<1>10. CASE told.connecting /\ ~ok
  <2>1. k' = STick(told, "lookupFailed")
    BY <1>4, <1>10
  <2>2. TickOK(told, "lookupFailed")
    BY DEF TickOK, TickOps
  <2>3. QED BY <1>6, <2>1, <2>2, TicksTidy
<1>11. QED BY <1>7, <1>9, <1>10

LEMMA TimesOutKeeps ==
  ASSUME NEW n \in Nat, Sound(k, n), AttemptTimesOut
  PROVE  Sound(k', n)
<1>1. k.connecting /\ ~k.looking
  BY DEF AttemptTimesOut, Sound, SocketOK, ConnectOK
<1>2. k' = NextAttempt(k, k.handle, "connectionAttemptTimeout")
  BY DEF AttemptTimesOut
<1>3. QED BY <1>1, <1>2, GivesUp

LEMMA FlowingKeeps ==
  ASSUME NEW n \in Nat, Sound(k, n), NEW b \in BOOLEAN
  PROVE  Sound([k EXCEPT !.flowing = b], n)
<1> DEFINE y == [k EXCEPT !.flowing = b]
<1>1. k \in Sockets
  BY DEF Sound, SocketOK
<1>2. y \in Sockets
  BY <1>1, ZenonT(40) DEF Sockets
<1>3. LessIs(k, y)
  BY <1>1, <1>2 DEF LessIs, Sockets, SameWrites, SameReads, SameQueues
<1> HIDE DEF y
<1>4. Sound(y, n)
  BY <1>3, LessKeeps
<1>5. QED BY <1>4 DEF y

LEMMA ResumesKeeps ==
  ASSUME NEW n \in Nat, Sound(k, n), SocketResumes
  PROVE  Sound(k', n)
<1> DEFINE y == [k EXCEPT !.flowing = TRUE]
<1>1. k \in Sockets
  BY DEF Sound, SocketOK
<1>2. Sound(y, n)
  BY FlowingKeeps, Zenon
<1>3. y.destroyed = k.destroyed
  BY <1>1 DEF Sockets
<1>4. k' = IF k.destroyed THEN y ELSE STick(y, "resume")
  BY DEF SocketResumes
<1> HIDE DEF y
<1>5. ASSUME ~k.destroyed PROVE TickOK(y, "resume")
  <2>1. ~Has(y.events, "close") /\ ~Has(Ops(y.ticks), "close")
    BY <1>2, <1>3, <1>5 DEF Sound, SocketOK, SaidOK
  <2>2. QED BY <2>1 DEF TickOK, TickOps
<1>6. QED BY <1>2, <1>4, <1>5, TicksTidy

\* The look-up, the attempts and the user.
LEMMA UserKeeps ==
  ASSUME SocketInv,
         LooksUp \/ AttemptTimesOut \/ SocketTick \/ SocketResumes
         \/ SocketWrites \/ SocketEnds \/ SocketDestroys \/ SocketPauses
  PROVE  SocketInv'
<1> DEFINE n == kcalls.writes
<1>1. n \in Nat /\ kcalls \in [ops : Nat, writes : Nat] /\ Sound(k, n)
  BY DEF SocketInv
<1>2. ASSUME UNCHANGED kcalls, Sound(k', n) PROVE SocketInv'
  BY <1>1, <1>2 DEF SocketInv
<1>3. ASSUME kcalls' = [kcalls EXCEPT !.ops = @ + 1], Sound(k', n) PROVE SocketInv'
  <2>1. kcalls' \in [ops : Nat, writes : Nat] /\ kcalls'.writes = n
    BY <1>1, <1>3, OpsLess
  <2>2. QED BY <1>3, <2>1 DEF SocketInv
<1> HIDE DEF n
<1>4. CASE LooksUp
  <2>1. UNCHANGED kcalls
    BY <1>4 DEF LooksUp
  <2>2. QED BY <1>1, <1>2, <1>4, <2>1, LooksUpKeeps
<1>5. CASE AttemptTimesOut
  <2>1. UNCHANGED kcalls
    BY <1>5 DEF AttemptTimesOut
  <2>2. QED BY <1>1, <1>2, <1>5, <2>1, TimesOutKeeps
<1>6. CASE SocketTick
  <2>1. UNCHANGED kcalls
    BY <1>6 DEF SocketTick
  <2>2. QED BY <1>1, <1>2, <1>6, <2>1, TickRuns
<1>7. CASE SocketResumes
  <2>1. UNCHANGED kcalls
    BY <1>7 DEF SocketResumes
  <2>2. QED BY <1>1, <1>2, <1>7, <2>1, ResumesKeeps
<1>8. CASE SocketWrites
  <2>1. k' = SWrite(k, n + 1) /\ kcalls' = [kcalls EXCEPT !.writes = @ + 1]
    BY <1>8 DEF SocketWrites, n
  <2>2. kcalls' \in [ops : Nat, writes : Nat] /\ kcalls'.writes = n + 1
    BY <1>1, <2>1 DEF n
  <2>3. Sound(SWrite(k, n + 1), n + 1)
    BY <1>1, NewWrite
  <2>4. QED BY <2>1, <2>2, <2>3 DEF SocketInv
<1>9. CASE SocketEnds
  <2>1. k' = SEnd(k) /\ kcalls' = [kcalls EXCEPT !.ops = @ + 1]
    BY <1>9 DEF SocketEnds, UsesSocket
  <2>2. Sound(k', n)
    BY <1>1, <2>1, Ends
  <2>3. QED BY <1>3, <2>1, <2>2
<1>10. CASE SocketDestroys
  <2>1. PICK err \in BOOLEAN : k' = SDestroy(k, err) /\ kcalls' = [kcalls EXCEPT !.ops = @ + 1]
    BY <1>10 DEF SocketDestroys, UsesSocket
  <2>2. Sound(SDestroy(k, err), n)
    BY <1>1, DestroysTidy
  <2>3. QED BY <1>3, <2>1, <2>2
<1>11. CASE SocketPauses
  <2>1. k' = [k EXCEPT !.flowing = FALSE] /\ kcalls' = [kcalls EXCEPT !.ops = @ + 1]
    BY <1>11 DEF SocketPauses, UsesSocket
  <2>2. Sound([k EXCEPT !.flowing = FALSE], n)
    BY <1>1, FlowingKeeps, Zenon
  <2>3. QED BY <1>3, <2>1, <2>2
<1>12. QED BY <1>4, <1>5, <1>6, <1>7, <1>8, <1>9, <1>10, <1>11

-----------------------------------------------------------------------------
(* Socket: the handle works *)

\* The handle has worked, and posts m: x is what became of it.
WorksIs(s, x, m, y) ==
  /\ y \in Sockets /\ NewestTo(s, x, y) /\ y.macros = Append(s.macros, m)
  /\ y.ticks = s.ticks /\ y.events = s.events /\ y.settled = s.settled
  /\ SameState(s, y) /\ SameWrites(s, y) /\ SameReads(s, y)

Dial(m) == IF m.op = "connected" THEN m.h ELSE 0
Answer(m) == IF m.op = "written" THEN m.id ELSE 0
PostIs(t, m, u) ==
  /\ Ops(t) \in Seq(MacroOps) /\ Answers(t) \in Seq(Nat) /\ Dials(t) \in Seq(Nat)
  /\ Ops(u) = Append(Ops(t), m.op) /\ Answers(u) = Append(Answers(t), Answer(m)) /\ Dials(u) = Append(Dials(t), Dial(m))
  /\ m.op \in MacroOps /\ Answer(m) \in Nat /\ Dial(m) \in Nat
  /\ Adds(t, m, u)

LEMMA Posting ==
  ASSUME NEW t \in Seq(SMacros), NEW m \in SMacros, NEW u, u = Append(t, m) PROVE PostIs(t, m, u)
<1>1. /\ Ops(u) = Append(Ops(t), m.op)
      /\ Answers(u) = Append(Answers(t), IF m.op = "written" THEN m.id ELSE 0)
      /\ Dials(u) = Append(Dials(t), IF m.op = "connected" THEN m.h ELSE 0)
      /\ Ops(t) \in Seq(MacroOps) /\ Answers(t) \in Seq(Nat) /\ Dials(t) \in Seq(Nat)
  BY MacrosSeen
<1>2. Adds(t, m, u)
  BY MacroPut, Zenon
<1>3. m.op \in MacroOps /\ Answer(m) \in Nat /\ Dial(m) \in Nat
  BY DEF SMacros, Answer, Dial
<1>4. QED BY <1>1, <1>2, <1>3 DEF PostIs, Answer, Dial

\* The facts that all four have in common.
WorkFacts(s, x, m, y) ==
  /\ s \in Sockets /\ HandlesOK(s) /\ Newest(s) \in HandleType /\ Newest(y) = x /\ Len(y.handles) = Len(s.handles)
  /\ Len(s.handles) \in Nat \ {0} /\ Len(s.handles) \in 1..Len(s.handles)
  /\ \A h \in 1..Len(s.handles) : h # Len(s.handles) => y.handles[h] = s.handles[h]
  /\ PostIs(s.macros, m, y.macros)

LEMMA WorksFacts ==
  ASSUME NEW s, NEW n, Sound(s, n), NEW x \in HandleType, NEW m \in SMacros, NEW y, WorksIs(s, x, m, y)
  PROVE  WorkFacts(s, x, m, y)
<1>1. s \in Sockets /\ HandlesOK(s) /\ NewestTo(s, x, y) /\ y.macros = Append(s.macros, m)
  BY DEF Sound, SocketOK, WorksIs
<1>2. /\ Newest(s) \in HandleType /\ Len(s.handles) \in 1..Len(s.handles) /\ Len(s.handles) \in Nat \ {0}
      /\ s.macros \in Seq(SMacros)
  BY <1>1, NewestFields, SocketFields
<1>3. /\ Newest(y) = x /\ Len(y.handles) = Len(s.handles)
      /\ \A h \in 1..Len(s.handles) : h # Len(s.handles) => y.handles[h] = s.handles[h]
  BY <1>1, NewestChanges
<1>4. PostIs(s.macros, m, y.macros)
  BY <1>1, <1>2, Posting, Zenon
<1>5. QED BY <1>1, <1>2, <1>3, <1>4 DEF WorkFacts

\* The report of an attempt is the first, and finds the socket connecting.
WorkReports(s, x, m) ==
  /\ m.h = Len(s.handles)
  /\ m.op = "connected" => ~s.destroyed /\ ~Reported(s) /\ s.connecting /\ ~s.looking /\ x.st \in {"up", "down"}
  /\ m.op # "connected" => x.st = Newest(s).st

LEMMA WorkReport ==
  ASSUME NEW s, NEW n, Sound(s, n), NEW x \in HandleType, NEW m \in SMacros, NEW y, WorksIs(s, x, m, y),
         WorkReports(s, x, m)
  PROVE  ReportOK(y) /\ ConnectOK(y)
<1>1. WorkFacts(s, x, m, y)
  BY WorksFacts
<1>2. /\ \A a : Has(y.macros, a) <=> Has(s.macros, a) \/ m = a
      /\ \A a : Has(Dials(y.macros), a) <=> Has(Dials(s.macros), a) \/ Dial(m) = a
      /\ Dials(y.macros) = Append(Dials(s.macros), Dial(m)) /\ Dials(s.macros) \in Seq(Nat) /\ Dial(m) \in Nat
  BY <1>1 DEF WorkFacts, PostIs, Adds, Dial
<1>3. /\ y.connecting = s.connecting /\ y.destroyed = s.destroyed /\ y.handle = s.handle /\ y.looking = s.looking
      /\ y.attempt = s.attempt /\ y.events = s.events
      /\ Newest(y) = x /\ Len(y.handles) = Len(s.handles) /\ Len(s.handles) \in Nat \ {0}
      /\ Len(s.handles) \in 1..Len(s.handles)
  BY <1>1 DEF WorksIs, SameState, WorkFacts
<1>4. ReportOK(s) /\ ConnectOK(s) /\ HandlesOK(s)
  BY DEF Sound, SocketOK
<1>5. Dial(m) \in {0, Len(s.handles)} /\ (Dial(m) # 0 => m.op = "connected")
  BY DEF Dial, WorkReports
<1>6. \A a \in Nat \ {0} : Single(Dials(y.macros), a)
  <2> SUFFICES ASSUME NEW a \in Nat \ {0} PROVE Single(Dials(y.macros), a)
    OBVIOUS
  <2> DEFINE N == Nat
  <2>1. Dials(s.macros) \in Seq(N) /\ Dial(m) \in N /\ Single(Dials(s.macros), a)
    BY <1>2, <1>4 DEF ReportOK
  <2>2. Dial(m) = a => ~Has(Dials(s.macros), a)
    <3>1. ASSUME Dial(m) = a PROVE ~Has(Dials(s.macros), a)
      <4>1. m.op = "connected" /\ a = Len(s.handles)
        BY <1>5, <3>1
      <4>2. ~s.destroyed /\ ~Reported(s) /\ s.handle = a
        BY <1>4, <4>1 DEF WorkReports, HandlesOK
      <4>3. QED BY <4>2 DEF Reported
    <3>2. QED BY <3>1
  <2> HIDE DEF N
  <2>3. QED BY <1>2, <2>1, <2>2, SingleAppend
<1>7. /\ \A w \in SMacros : Has(y.macros, w) =>
          w.h \in 1..Len(y.handles) /\ (w.op \in {"data", "eof", "written"} => w.h = Len(y.handles))
      /\ \A a \in Nat : Has(Dials(y.macros), a) => a <= Len(y.handles)
  BY <1>2, <1>3, <1>4, <1>5 DEF ReportOK, WorkReports
<1>8. Reported(y) => y.connecting /\ Newest(y).st \in {"up", "down"}
  <2>1. ASSUME Reported(y) PROVE y.connecting /\ Newest(y).st \in {"up", "down"}
    <3>1. ~s.destroyed /\ (Has(Dials(s.macros), s.handle) \/ Dial(m) = s.handle) /\ s.handle = Len(s.handles)
      BY <1>2, <1>3, <1>4, <2>1 DEF Reported, HandlesOK
    <3>2. CASE m.op = "connected"
      BY <1>3, <3>2 DEF WorkReports
    <3>3. CASE m.op # "connected"
      <4>1. Dial(m) = 0 /\ x.st = Newest(s).st
        BY <3>3 DEF Dial, WorkReports
      <4>2. Reported(s)
        BY <1>3, <3>1, <4>1 DEF Reported
      <4>3. QED BY <1>3, <1>4, <4>1, <4>2 DEF ReportOK
    <3>4. QED BY <3>2, <3>3
  <2>2. QED BY <2>1
<1>9. ReportOK(y)
  BY <1>6, <1>7, <1>8 DEF ReportOK
<1>10. ConnectOK(y)
  <2>1. CASE m.op = "connected"
    BY <1>3, <1>4, <2>1 DEF WorkReports, ConnectOK
  <2>2. CASE m.op # "connected"
    BY <1>3, <1>4, <2>2 DEF WorkReports, ConnectOK
  <2>3. QED BY <2>1, <2>2
<1>11. QED BY <1>9, <1>10

\* The rest of the invariant, when x does not lose what went out.
LEMMA WorkKeeps ==
  ASSUME NEW s, NEW n \in Nat, Sound(s, n), NEW x \in HandleType, NEW m \in SMacros, NEW y, WorksIs(s, x, m, y),
         WorkReports(s, x, m), x.closed = Newest(s).closed, m.op # "closed",
         Has(Newest(s).wire, Fin) => Has(x.wire, Fin),
         UntouchedOK(y), PendingOK(y), WireOK(y, n), FinOK(y), ReadOK(y)
  PROVE  Sound(y, n)
<1>1. WorkFacts(s, x, m, y)
  BY WorksFacts
<1>2. /\ Newest(y) = x /\ Len(y.handles) = Len(s.handles) /\ SocketOK(s, n) /\ y \in Sockets
      /\ y.ticks = s.ticks /\ y.events = s.events /\ y.settled = s.settled
      /\ SameState(s, y) /\ SameWrites(s, y) /\ SameReads(s, y)
      /\ \A h \in 1..Len(s.handles) : h # Len(s.handles) => y.handles[h] = s.handles[h]
  BY <1>1 DEF WorkFacts, WorksIs, Sound
<1>3. /\ \A a : Has(Ops(y.macros), a) <=> Has(Ops(s.macros), a) \/ m.op = a
      /\ Ops(y.macros) = Append(Ops(s.macros), m.op) /\ Ops(s.macros) \in Seq(MacroOps) /\ m.op \in MacroOps
  BY <1>1 DEF WorkFacts, PostIs, Adds
<1>4. Has(Ops(y.macros), "closed") <=> Has(Ops(s.macros), "closed")
  BY <1>3
<1>5. HandlesOK(y)
  <2>1. \A h \in 1..Len(s.handles) : y.handles[h].closed = s.handles[h].closed
    BY <1>2 DEF Newest
  <2>2. HandlesOK(s)
    BY <1>2 DEF SocketOK
  <2>3. QED BY <1>2, <2>1, <2>2 DEF HandlesOK, SameState
<1>6. ReportOK(y) /\ ConnectOK(y)
  BY WorkReport
<1>7. SaidOK(y)
  BY <1>2, <1>4 DEF SocketOK, SaidOK, SameState, SameWrites, SameReads
<1>8. ComesOnce(y)
  <2>1. ComesOnce(s)
    BY <1>2 DEF SocketOK
  <2>2. OnceIn(Ops(y.macros), "closed", y.events, "close")
    BY <1>2, <1>3, <2>1, OncePut DEF ComesOnce
  <2>3. QED BY <1>2, <1>4, <2>1, <2>2 DEF ComesOnce
<1>9. IdsOK(y, n)
  BY <1>2 DEF SocketOK, IdsOK, Unknown, SameWrites
<1>10. TidyOK(y)
  BY <1>2 DEF Sound, TidyOK, SameState, SameWrites
<1>11. QED BY <1>2, <1>5, <1>6, <1>7, <1>8, <1>9, <1>10 DEF Sound, SocketOK

\* The queue and the wire stay as they are.
LEMMA WorkPending ==
  ASSUME NEW s, NEW n \in Nat, Sound(s, n), NEW x \in HandleType, NEW m \in SMacros, NEW y, WorksIs(s, x, m, y),
         x.queue = Newest(s).queue, x.wire = Newest(s).wire, m.op # "written"
  PROVE  PendingOK(y) /\ WireOK(y, n) /\ FinOK(y)
<1>1. WorkFacts(s, x, m, y)
  BY WorksFacts
<1>2. /\ Newest(y) = x /\ SocketOK(s, n) /\ SameWrites(s, y)
  BY <1>1 DEF WorkFacts, WorksIs, Sound
<1>3. /\ \A a : Has(Answers(y.macros), a) <=> Has(Answers(s.macros), a) \/ 0 = a
      /\ Answers(y.macros) = Append(Answers(s.macros), 0) /\ Answers(s.macros) \in Seq(Nat)
      /\ \A a : Has(y.macros, a) <=> Has(s.macros, a) \/ m = a
  BY <1>1 DEF WorkFacts, PostIs, Adds, Answer
<1>4. PendingOK(y)
  <2>1. PendingOK(s) /\ y.cur = s.cur /\ y.waits = s.waits
    BY <1>2 DEF SocketOK, SameWrites
  <2>2. s.cur # 0 => OnceIn(Newest(s).queue, s.cur, Answers(y.macros), s.cur)
    <3> SUFFICES ASSUME s.cur # 0 PROVE OnceIn(Newest(s).queue, s.cur, Answers(y.macros), s.cur)
      OBVIOUS
    <3> DEFINE N == Nat
    <3>1. OnceIn(Newest(s).queue, s.cur, Answers(s.macros), s.cur) /\ 0 # s.cur
      BY <2>1 DEF PendingOK
    <3>2. Answers(s.macros) \in Seq(N) /\ 0 \in N
      BY <1>3
    <3> HIDE DEF N
    <3>3. QED BY <1>3, <3>1, <3>2, OnceLog
  <2>3. QED BY <1>2, <1>3, <2>1, <2>2 DEF PendingOK, Idle, Fin
<1>5. WireOK(y, n)
  BY <1>2 DEF SocketOK, WireOK, Sent, SameWrites
<1>6. FinOK(y)
  BY <1>2, <1>3 DEF SocketOK, FinOK
<1>7. QED BY <1>4, <1>5, <1>6

\* Nothing is read.
LEMMA WorkReads ==
  ASSUME NEW s, NEW n \in Nat, Sound(s, n), NEW x \in HandleType, NEW m \in SMacros, NEW y, WorksIs(s, x, m, y),
         x.in = Newest(s).in, x.over = Newest(s).over, m.op \notin {"data", "eof"}
  PROVE  ReadOK(y)
<1>1. WorkFacts(s, x, m, y)
  BY WorksFacts
<1>2. /\ Newest(y) = x /\ ReadOK(s) /\ SameReads(s, y) /\ SameState(s, y) /\ y.events = s.events
  BY <1>1 DEF WorkFacts, WorksIs, Sound, SocketOK
<1>3. /\ \A a : Has(Ops(y.macros), a) <=> Has(Ops(s.macros), a) \/ m.op = a
      /\ Ops(y.macros) = Append(Ops(s.macros), m.op) /\ Ops(s.macros) \in Seq(MacroOps) /\ m.op \in MacroOps
      /\ Tally(Ops(y.macros), "data") = Tally(Ops(s.macros), "data") + (IF m.op = "data" THEN 1 ELSE 0)
      /\ Tally(Ops(s.macros), "data") \in Nat
  BY <1>1 DEF WorkFacts, PostIs, Adds
<1>4. Tally(Ops(y.macros), "data") = Tally(Ops(s.macros), "data")
  BY <1>3
<1>5. Ordered(Ops(y.macros), {"data"}, {"eof"})
  <2>1. Ordered(Ops(s.macros), {"data"}, {"eof"}) /\ m.op \notin {"data"}
    BY <1>2 DEF ReadOK
  <2>2. QED BY <1>3, <2>1, OrderedAppend
<1>6. ~s.destroyed => Newest(y).in = y.got + y.chunks + Tally(Ops(y.macros), "data")
  BY <1>2, <1>4 DEF ReadOK, SameReads
<1>7. QED BY <1>2, <1>3, <1>5, <1>6 DEF ReadOK, SameReads, SameState

WorkOf(s, x, m) == [s EXCEPT !.handles = [s.handles EXCEPT ![Len(s.handles)] = x], !.macros = Append(s.macros, m)]
LEMMA WorkFields ==
  ASSUME NEW s \in Sockets, HandlesOK(s), NEW x \in HandleType, NEW m \in SMacros
  PROVE  WorksIs(s, x, m, WorkOf(s, x, m))
<1> DEFINE t == [s.handles EXCEPT ![Len(s.handles)] = x]
           u == Append(s.macros, m)
           y == [s EXCEPT !.handles = t, !.macros = u]
<1>1. t \in Seq(HandleType)
  BY NewestFields, ExceptSeq, SocketFields
<1>2. u \in Seq(SMacros)
  BY SocketFields, MacrosSeen
<1> HIDE DEF t, u
<1>3. y \in Sockets
  BY <1>1, <1>2, ZenonT(40) DEF Sockets
<1>4. y.handles = t /\ y.macros = u /\ y.ticks = s.ticks /\ y.events = s.events /\ y.settled = s.settled
  BY DEF Sockets
<1>5. SameState(s, y) /\ SameReads(s, y) /\ SameWrites(s, y)
  BY DEF Sockets, SameState, SameReads, SameWrites
<1> HIDE DEF y
<1>6. WorksIs(s, x, m, y)
  BY <1>3, <1>4, <1>5 DEF WorksIs, NewestTo, t, u
<1>7. QED BY <1>6 DEF y, t, u, WorkOf

\* The handle that works is the newest.
LEMMA WorkerIsNewest ==
  ASSUME NEW n, Sound(k, n), NEW h \in DOMAIN k.handles, ~H(h).closed \/ H(h).queue # <<>>
  PROVE  /\ h = Len(k.handles) /\ H(h) = Newest(k) /\ Newest(k) \in HandleType /\ h \in Nat
         /\ k \in Sockets /\ HandlesOK(k) /\ (~H(h).closed => ~k.destroyed)
<1>1. k \in Sockets /\ HandlesOK(k)
  BY DEF Sound, SocketOK
<1>2. h \in 1..Len(k.handles) /\ Newest(k) \in HandleType /\ Len(k.handles) \in Nat
  <2>1. k.handles \in Seq(HandleType) /\ DOMAIN k.handles = 1..Len(k.handles)
    BY <1>1, SocketFields, LenProperties
  <2>2. QED BY <1>1, <2>1, NewestFields
<1>3. ~H(h).closed => h = k.handle
  BY <1>1, <1>2 DEF HandlesOK, H
<1>4. ~H(h).closed => ~k.destroyed /\ h = Len(k.handles)
  BY <1>1, <1>2, <1>3 DEF HandlesOK
<1>5. H(h).queue # <<>> => h = Len(k.handles)
  BY <1>1, <1>2 DEF HandlesOK, H, Blank
<1>6. h = Len(k.handles)
  BY <1>4, <1>5
<1>7. QED BY <1>1, <1>2, <1>4, <1>6 DEF H, Newest

LEMMA DialedKeeps ==
  ASSUME NEW n \in Nat, Sound(k, n), NEW h \in DOMAIN k.handles, Dialed(h)
  PROVE  Sound(k', n)
<1>1. H(h).st = "dialing" /\ ~H(h).closed
  BY DEF Dialed
<1>2. PICK ok \in BOOLEAN :
        k' = Post([k EXCEPT !.handles[h].st = IF ok THEN "up" ELSE "down"],
                  [op |-> "connected", h |-> h, id |-> 0, ok |-> ok])
  BY DEF Dialed
<1> DEFINE to == IF ok THEN "up" ELSE "down"
           o == Newest(k)
           x == [o EXCEPT !.st = to]
           m == [op |-> "connected", h |-> h, id |-> 0, ok |-> ok]
<1>3. /\ h = Len(k.handles) /\ H(h) = o /\ o \in HandleType /\ h \in Nat
      /\ k \in Sockets /\ HandlesOK(k) /\ ~k.destroyed
  BY <1>1, WorkerIsNewest
<1>4. to \in {"up", "down"}
  OBVIOUS
<1> HIDE DEF to, o
<1>5. /\ x \in HandleType /\ x.st = to /\ x.closed = o.closed /\ x.queue = o.queue /\ x.wire = o.wire
      /\ x.in = o.in /\ x.over = o.over /\ x.reading = o.reading
  BY <1>3, <1>4, Zenon DEF HandleType
<1>6. m \in SMacros /\ m.op = "connected" /\ m.h = h
  BY <1>3 DEF SMacros, MacroOps
<1>7. k' = WorkOf(k, x, m)
  <2>1. k' = Post([k EXCEPT !.handles[h].st = to], m)
    BY <1>2 DEF to
  <2> HIDE DEF m
  <2>2. QED BY <1>3, <2>1 DEF Post, WorkOf, Sockets, H, o, Newest
<1> HIDE DEF x, m
<1>8. WorksIs(k, x, m, k')
  BY <1>3, <1>5, <1>6, <1>7, WorkFields
<1>9. WorkReports(k, x, m)
  <2>1. o.st = "dialing"
    BY <1>1, <1>3
  <2>2. k.connecting /\ ~Reported(k) /\ ~k.looking
    BY <1>3, <2>1 DEF Sound, SocketOK, ConnectOK, ReportOK, o
  <2>3. QED BY <1>3, <1>4, <1>5, <1>6, <2>2 DEF WorkReports
<1>10. WorkFacts(k, x, m, k')
  BY <1>5, <1>6, <1>8, WorksFacts
<1>11. PendingOK(k') /\ WireOK(k', n) /\ FinOK(k')
  BY <1>5, <1>6, <1>8, WorkPending DEF o
<1>12. ReadOK(k')
  <2>1. m.op \notin {"data", "eof"}
    BY <1>6
  <2>2. QED BY <1>5, <1>6, <1>8, <2>1, WorkReads DEF o
<1>13. UntouchedOK(k')
  <2>1. /\ Newest(k') = x /\ \A a : Has(Ops(k'.macros), a) <=> Has(Ops(k.macros), a) \/ "connected" = a
    BY <1>6, <1>10 DEF WorkFacts, PostIs, Adds
  <2>2. UntouchedOK(k)
    BY DEF Sound, SocketOK
  <2>3. Blank(x) <=> Blank(o)
    BY <1>5 DEF Blank
  <2>4. QED BY <1>8, <2>1, <2>2, <2>3 DEF UntouchedOK, Untouched, WorksIs, SameReads, SameWrites, o
<1>14. x.closed = Newest(k).closed /\ x.wire = Newest(k).wire /\ m.op # "closed"
  BY <1>5, <1>6 DEF o
<1>15. QED BY <1>5, <1>6, <1>8, <1>9, <1>11, <1>12, <1>13, <1>14, WorkKeeps

\* Reading and what is sent need the connection.
LEMMA TouchedOnce ==
  ASSUME NEW n, Sound(k, n), ~Blank(Newest(k)), NEW x \in HandleType, NEW m \in SMacros, NEW y, WorksIs(k, x, m, y)
  PROVE  UntouchedOK(y)
<1>1. Has(k.events, "connect")
  BY DEF Sound, SocketOK, UntouchedOK, Untouched
<1>2. QED BY <1>1 DEF UntouchedOK, WorksIs

LEMMA PeerDataKeeps ==
  ASSUME NEW n \in Nat, Sound(k, n), NEW h \in DOMAIN k.handles, PeerData(h)
  PROVE  Sound(k', n)
<1>1. ~H(h).closed /\ H(h).reading /\ ~H(h).over
  BY DEF PeerData
<1> DEFINE o == Newest(k)
           x == [o EXCEPT !.in = o.in + 1]
           m == [op |-> "data", h |-> h, id |-> 0, ok |-> TRUE]
<1>2. /\ h = Len(k.handles) /\ H(h) = o /\ o \in HandleType /\ h \in Nat
      /\ k \in Sockets /\ HandlesOK(k) /\ ~k.destroyed
  BY <1>1, WorkerIsNewest
<1> HIDE DEF o
<1>3. o.in \in Nat /\ o.in + 1 \in Nat
  BY <1>2 DEF HandleType
<1>4. /\ x \in HandleType /\ x.st = o.st /\ x.closed = o.closed /\ x.queue = o.queue /\ x.wire = o.wire
      /\ x.in = o.in + 1 /\ x.over = o.over /\ x.reading = o.reading
  BY <1>2, <1>3, Zenon DEF HandleType
<1>5. m \in SMacros /\ m.op = "data" /\ m.h = h
  BY <1>2 DEF SMacros, MacroOps
<1>6. k' = WorkOf(k, x, m)
  <2>1. k' = Post([k EXCEPT !.handles[h].in = @ + 1], m)
    BY DEF PeerData
  <2> HIDE DEF m
  <2>2. QED BY <1>2, <2>1 DEF Post, WorkOf, Sockets, H, o, Newest
<1> HIDE DEF x, m
<1>7. WorksIs(k, x, m, k')
  BY <1>2, <1>4, <1>5, <1>6, WorkFields
<1>8. WorkReports(k, x, m)
  BY <1>2, <1>4, <1>5 DEF WorkReports, o
<1>9. WorkFacts(k, x, m, k')
  BY <1>4, <1>5, <1>7, WorksFacts
<1>10. PendingOK(k') /\ WireOK(k', n) /\ FinOK(k')
  BY <1>4, <1>5, <1>7, WorkPending DEF o
<1>11. UntouchedOK(k')
  <2>1. ~Blank(o)
    BY <1>1, <1>2 DEF Blank
  <2>2. QED BY <2>1, <1>4, <1>5, <1>7, TouchedOnce DEF o
<1>12. ReadOK(k')
  <2>1. /\ \A a : Has(Ops(k'.macros), a) <=> Has(Ops(k.macros), a) \/ "data" = a
        /\ Ops(k'.macros) = Append(Ops(k.macros), "data") /\ Ops(k.macros) \in Seq(MacroOps) /\ "data" \in MacroOps
        /\ Tally(Ops(k'.macros), "data") = Tally(Ops(k.macros), "data") + 1
        /\ Tally(Ops(k.macros), "data") \in Nat /\ Newest(k') = x
    BY <1>5, <1>9 DEF WorkFacts, PostIs, Adds
  <2>2. ReadOK(k) /\ ~o.over
    BY <1>1, <1>2 DEF Sound, SocketOK
  <2>3. ~k.ended /\ ~Has(Ops(k.macros), "eof") /\ o.in = k.got + k.chunks + Tally(Ops(k.macros), "data")
    BY <1>2, <2>2 DEF ReadOK, o
  <2>4. Ordered(Ops(k'.macros), {"data"}, {"eof"})
    <3>1. Ordered(Ops(k.macros), {"data"}, {"eof"})
      BY <2>2 DEF ReadOK
    <3>2. \A i \in 1..Len(Ops(k.macros)) : Ops(k.macros)[i] \notin {"eof"}
      BY <2>3 DEF Has
    <3>3. QED BY <2>1, <3>1, <3>2, OrderedAppend, Zenon
  <2>5. /\ k'.got = k.got /\ k'.chunks = k.chunks /\ k'.ended = k.ended /\ k'.events = k.events
        /\ k.got \in Nat /\ k.chunks \in Nat
    BY <1>2, <1>7, SocketFields DEF WorksIs, SameReads
  <2>6. x.in = k'.got + k'.chunks + Tally(Ops(k'.macros), "data")
    <3> DEFINE a == k.got
               b == k.chunks
               c == Tally(Ops(k.macros), "data")
    <3>1. a \in Nat /\ b \in Nat /\ c \in Nat /\ x.in = (a + b + c) + 1
      BY <1>4, <2>1, <2>3, <2>5
    <3>2. k'.got + k'.chunks + Tally(Ops(k'.macros), "data") = a + b + (c + 1)
      BY <2>1, <2>5
    <3> HIDE DEF a, b, c
    <3>3. (a + b + c) + 1 = a + b + (c + 1)
      BY <3>1
    <3>4. QED BY <3>1, <3>2, <3>3
  <2>7. ~Has(Ops(k'.macros), "eof")
    BY <2>1, <2>3
  <2>8. Has(k'.events, "end") => k'.chunks = 0
    BY <2>2, <2>5 DEF ReadOK
  <2>9. QED BY <2>1, <2>3, <2>4, <2>5, <2>6, <2>7, <2>8 DEF ReadOK
<1>13. x.closed = Newest(k).closed /\ x.wire = Newest(k).wire /\ m.op # "closed"
  BY <1>4, <1>5 DEF o
<1>14. QED BY <1>4, <1>5, <1>7, <1>8, <1>10, <1>11, <1>12, <1>13, WorkKeeps

LEMMA PeerEndsKeeps ==
  ASSUME NEW n \in Nat, Sound(k, n), NEW h \in DOMAIN k.handles, PeerEnds(h)
  PROVE  Sound(k', n)
<1>1. ~H(h).closed /\ H(h).reading /\ ~H(h).over
  BY DEF PeerEnds
<1>2. PICK ok \in BOOLEAN :
        k' = Post([k EXCEPT !.handles[h].over = TRUE], [op |-> "eof", h |-> h, id |-> 0, ok |-> ok])
  BY DEF PeerEnds
<1> DEFINE o == Newest(k)
           x == [o EXCEPT !.over = TRUE]
           m == [op |-> "eof", h |-> h, id |-> 0, ok |-> ok]
<1>3. /\ h = Len(k.handles) /\ H(h) = o /\ o \in HandleType /\ h \in Nat
      /\ k \in Sockets /\ HandlesOK(k) /\ ~k.destroyed
  BY <1>1, WorkerIsNewest
<1> HIDE DEF o
<1>4. /\ x \in HandleType /\ x.st = o.st /\ x.closed = o.closed /\ x.queue = o.queue /\ x.wire = o.wire
      /\ x.in = o.in /\ x.over /\ x.reading = o.reading
  BY <1>3, Zenon DEF HandleType
<1>5. m \in SMacros /\ m.op = "eof" /\ m.h = h
  BY <1>3 DEF SMacros, MacroOps
<1>6. k' = WorkOf(k, x, m)
  <2>1. k' = Post([k EXCEPT !.handles[h].over = TRUE], m)
    BY <1>2
  <2> HIDE DEF m
  <2>2. QED BY <1>3, <2>1 DEF Post, WorkOf, Sockets, H, o, Newest
<1> HIDE DEF x, m
<1>7. WorksIs(k, x, m, k')
  BY <1>3, <1>4, <1>5, <1>6, WorkFields
<1>8. WorkReports(k, x, m)
  BY <1>3, <1>4, <1>5 DEF WorkReports, o
<1>9. WorkFacts(k, x, m, k')
  BY <1>4, <1>5, <1>7, WorksFacts
<1>10. PendingOK(k') /\ WireOK(k', n) /\ FinOK(k')
  BY <1>4, <1>5, <1>7, WorkPending DEF o
<1>11. UntouchedOK(k')
  <2>1. ~Blank(o)
    BY <1>1, <1>3 DEF Blank
  <2>2. QED BY <2>1, <1>4, <1>5, <1>7, TouchedOnce DEF o
<1>12. ReadOK(k')
  <2>1. /\ \A a : Has(Ops(k'.macros), a) <=> Has(Ops(k.macros), a) \/ "eof" = a
        /\ Ops(k'.macros) = Append(Ops(k.macros), "eof") /\ Ops(k.macros) \in Seq(MacroOps) /\ "eof" \in MacroOps
        /\ Tally(Ops(k'.macros), "data") = Tally(Ops(k.macros), "data") + 0
        /\ Tally(Ops(k.macros), "data") \in Nat /\ Newest(k') = x
    BY <1>5, <1>9 DEF WorkFacts, PostIs, Adds
  <2>2. ReadOK(k) /\ ~o.over
    BY <1>1, <1>3 DEF Sound, SocketOK
  <2>3. ~k.ended /\ o.in = k.got + k.chunks + Tally(Ops(k.macros), "data")
    BY <1>3, <2>2 DEF ReadOK, o
  <2>4. Ordered(Ops(k'.macros), {"data"}, {"eof"})
    <3>1. Ordered(Ops(k.macros), {"data"}, {"eof"})
      BY <2>2 DEF ReadOK
    <3>2. QED BY <2>1, <3>1, OrderedAppend
  <2>5. k'.got = k.got /\ k'.chunks = k.chunks /\ k'.ended = k.ended /\ k'.events = k.events
    BY <1>7 DEF WorksIs, SameReads
  <2>6. Tally(Ops(k'.macros), "data") = Tally(Ops(k.macros), "data")
    BY <2>1
  <2>7. QED BY <1>4, <2>1, <2>2, <2>3, <2>4, <2>5, <2>6 DEF ReadOK
<1>13. x.closed = Newest(k).closed /\ x.wire = Newest(k).wire /\ m.op # "closed"
  BY <1>4, <1>5 DEF o
<1>14. QED BY <1>4, <1>5, <1>7, <1>8, <1>10, <1>11, <1>12, <1>13, WorkKeeps

LEMMA InOrderTail ==
  ASSUME NEW t \in Seq(Nat), t # <<>>, InOrder(t)
  PROVE  InOrder(Tail(t)) /\ \A b \in Nat : Has(Tail(t), b) => Before(Head(t), b)
<1> DEFINE u == Tail(t)
           S == Nat
<1>1. /\ Len(t) \in Nat /\ Head(t) = t[1] /\ 1 \in 1..Len(t) /\ Len(u) \in Nat
      /\ \A i \in 1..Len(u) : u[i] = t[i + 1] /\ i + 1 \in 1..Len(t)
  <2>1. t \in Seq(S)
    OBVIOUS
  <2> HIDE DEF S
  <2>2. Len(t) \in Nat /\ Head(t) = t[1] /\ 1 \in 1..Len(t) /\ u \in Seq(S)
        /\ \A i \in 1..Len(u) : u[i] = t[i + 1] /\ i + 1 \in 1..Len(t)
    BY <2>1, TailAt
  <2>3. QED BY <2>2, LenProperties
<1> HIDE DEF u
<1>2. InOrder(u)
  <2> SUFFICES ASSUME NEW i \in 1..Len(u), NEW j \in 1..Len(u), i < j PROVE Before(u[i], u[j])
    BY DEF InOrder
  <2>1. i + 1 \in 1..Len(t) /\ j + 1 \in 1..Len(t) /\ i + 1 < j + 1 /\ u[i] = t[i + 1] /\ u[j] = t[j + 1]
    BY <1>1
  <2>2. QED BY <2>1 DEF InOrder
<1>3. ASSUME NEW b \in Nat, Has(u, b) PROVE Before(Head(t), b)
  <2>1. PICK j \in 1..Len(u) : u[j] = b
    BY <1>3 DEF Has
  <2>2. j + 1 \in 1..Len(t) /\ 1 < j + 1 /\ u[j] = t[j + 1]
    BY <1>1
  <2>3. QED BY <1>1, <2>1, <2>2 DEF InOrder
<1>4. QED BY <1>2, <1>3 DEF u

LEMMA OutgoingMoves ==
  ASSUME NEW w \in Seq(Nat), NEW t \in Seq(Nat), t # <<>>, Outgoing(w, t)
  PROVE  Outgoing(w, Tail(t)) /\ Outgoing(Append(w, Head(t)), Tail(t))
<1> DEFINE S == Nat
           u == Tail(t)
           x == Head(t)
           z == Append(w, x)
<1>1. t \in Seq(S)
  OBVIOUS
<1>2. u \in Seq(Nat) /\ x \in Nat
  BY HeadTailProperties
<1>3. InOrder(u) /\ \A b \in Nat : Has(u, b) => Before(x, b)
  BY InOrderTail DEF Outgoing
<1>4. \A a : Has(t, a) <=> x = a \/ Has(u, a)
  <2> HIDE DEF S
  <2>1. QED BY <1>1, HasTail
<1> HIDE DEF x, u
<1>5. \A a : Has(z, a) <=> Has(w, a) \/ x = a
  <2>1. z = Append(w, x)
    OBVIOUS
  <2> HIDE DEF z
  <2>2. QED BY <1>2, <2>1, NumberPut, ZenonT(40)
<1>6. InOrder(z)
  <2>1. \A a \in Nat : Has(w, a) => Before(a, x)
    BY <1>2, <1>4 DEF Outgoing
  <2>2. InOrder(w)
    BY DEF Outgoing
  <2>3. QED BY <1>2, <2>1, <2>2, InOrderPut
<1> HIDE DEF z
<1>7. Outgoing(w, u)
  BY <1>3, <1>4 DEF Outgoing
<1>8. Outgoing(z, u)
  BY <1>3, <1>4, <1>5, <1>6 DEF Outgoing
<1>9. QED BY <1>7, <1>8 DEF x, u, z

LEMMA RequestedKeeps ==
  ASSUME NEW n \in Nat, Sound(k, n), NEW h \in DOMAIN k.handles, Requested(h)
  PROVE  Sound(k', n)
<1> DEFINE o == Newest(k)
           a == Head(o.queue)
           t == Tail(o.queue)
<1>1. H(h).queue # <<>>
  BY DEF Requested
<1>2. /\ h = Len(k.handles) /\ H(h) = o /\ o \in HandleType /\ h \in Nat /\ k \in Sockets /\ HandlesOK(k)
  BY <1>1, WorkerIsNewest
<1>3. PICK ok \in BOOLEAN :
        k' = Post([k EXCEPT !.handles[h].queue = Tail(@),
                            !.handles[h].wire = IF ok THEN Append(@, Head(H(h).queue)) ELSE @],
                  [op |-> "written", h |-> h, id |-> Head(H(h).queue), ok |-> ok])
  BY Zenon DEF Requested
<1> DEFINE w == IF ok THEN Append(o.wire, a) ELSE o.wire
           x == [o EXCEPT !.queue = t, !.wire = w]
           m == [op |-> "written", h |-> h, id |-> a, ok |-> ok]
<1>4. o.queue \in Seq(Nat) /\ o.queue # <<>> /\ o.wire \in Seq(Nat)
  BY <1>1, <1>2 DEF HandleType
<1>5. a \in Nat /\ t \in Seq(Nat)
  <2>1. \A f \in Seq(Nat) : f # <<>> => Head(f) \in Nat /\ Tail(f) \in Seq(Nat)
    BY HeadTailProperties
  <2>2. QED BY <1>4, <2>1
<1>6. \A e : Has(o.queue, e) <=> a = e \/ Has(t, e)
  <2> DEFINE S == Nat
             f == o.queue
  <2>1. f \in Seq(S) /\ f # <<>>
    BY <1>4
  <2> HIDE DEF S, f
  <2>2. \A e : Has(f, e) <=> Head(f) = e \/ Has(Tail(f), e)
    BY <2>1, HasTail
  <2>3. QED BY <2>2 DEF f
<1>7. w \in Seq(Nat) /\ (\A e : Has(w, e) <=> Has(o.wire, e) \/ (ok /\ a = e))
  <2> DEFINE f == o.wire
             g == Append(f, a)
  <2>1. f \in Seq(Nat)
    BY <1>4
  <2> HIDE DEF f, a
  <2>2. g \in Seq(Nat) /\ \A e : Has(g, e) <=> Has(f, e) \/ a = e
    BY <1>5, <2>1, NumberPut, Zenon
  <2>3. w = IF ok THEN g ELSE f
    BY DEF f
  <2> HIDE DEF g, w
  <2>4. QED BY <2>1, <2>2, <2>3 DEF f
<1>8. Outgoing(o.wire, o.queue) => Outgoing(w, t)
  <2> DEFINE f == o.wire
             g == o.queue
  <2>1. f \in Seq(Nat) /\ g \in Seq(Nat) /\ g # <<>>
    BY <1>4
  <2> HIDE DEF f, g
  <2>2. Outgoing(f, g) => Outgoing(f, Tail(g)) /\ Outgoing(Append(f, Head(g)), Tail(g))
    BY <2>1, OutgoingMoves
  <2>3. QED BY <2>2 DEF f, g
<1>9. k' = Post([k EXCEPT !.handles[h].queue = Tail(@), !.handles[h].wire = IF ok THEN Append(@, a) ELSE @], m)
  <2>1. Head(H(h).queue) = a
    BY <1>2
  <2> HIDE DEF a
  <2>2. QED BY <1>3, <2>1, Zenon
<1> HIDE DEF a, t
<1>10. k' = WorkOf(k, x, m)
  <2> HIDE DEF m
  <2>1. k' = [k EXCEPT !.handles = [k.handles EXCEPT ![h] = [o EXCEPT !.queue = t, !.wire = w]],
                       !.macros = Append(k.macros, m)]
    <3> DEFINE f == k.handles
               f1 == [f EXCEPT ![h] = [o EXCEPT !.queue = t]]
               f2 == [f1 EXCEPT ![h] = [f1[h] EXCEPT !.wire = w]]
               g == [f EXCEPT ![h] = [o EXCEPT !.queue = t, !.wire = w]]
    <3>1. f[h] = o /\ h \in DOMAIN f /\ t = Tail(f[h].queue)
      BY <1>2 DEF H, t
    <3>2. f1[h] = [o EXCEPT !.queue = t]
      BY <3>1
    <3>3. f2 = g
      <4>1. [f1[h] EXCEPT !.wire = w] = [o EXCEPT !.queue = t, !.wire = w]
        BY <3>2, Zenon
      <4>2. DOMAIN f2 = DOMAIN f /\ DOMAIN g = DOMAIN f
        OBVIOUS
      <4>3. \A i \in DOMAIN f : f2[i] = g[i]
        BY <3>1, <4>1
      <4>4. QED BY <4>1
    <3>4. w = IF ok THEN Append(f[h].wire, a) ELSE f[h].wire
      BY <3>1 DEF w
    <3>5. [k EXCEPT !.handles[h].queue = Tail(@), !.handles[h].wire = IF ok THEN Append(@, a) ELSE @]
            = [k EXCEPT !.handles = f2]
      BY <1>2, <3>1, <3>2, <3>4, Zenon DEF Sockets
    <3> HIDE DEF f2, f1
    <3>6. k' = Post([k EXCEPT !.handles = g], m)
      BY <1>9, <3>3, <3>5
    <3>7. k' = [k EXCEPT !.handles = g, !.macros = Append(k.macros, m)]
      <4> HIDE DEF g
      <4>1. QED BY <1>2, <3>6 DEF Post, Sockets
    <3>8. QED BY <3>7
  <2>2. QED BY <1>2, <2>1 DEF WorkOf
<1> HIDE DEF w, o
<1>11. /\ x \in HandleType /\ x.st = o.st /\ x.closed = o.closed /\ x.queue = t /\ x.wire = w
       /\ x.in = o.in /\ x.over = o.over /\ x.reading = o.reading
  BY <1>2, <1>5, <1>7, Zenon DEF HandleType
<1>12. m \in SMacros /\ m.op = "written" /\ m.h = h /\ m.id = a /\ m.ok = ok
  BY <1>2, <1>5 DEF SMacros, MacroOps
<1> HIDE DEF x, m
<1>13. WorksIs(k, x, m, k')
  BY <1>2, <1>10, <1>11, <1>12, WorkFields
<1>14. WorkReports(k, x, m)
  BY <1>2, <1>11, <1>12 DEF WorkReports, o
<1>15. WorkFacts(k, x, m, k')
  BY <1>11, <1>12, <1>13, WorksFacts
<1>16. UntouchedOK(k')
  <2>1. ~Blank(o)
    BY <1>4 DEF Blank
  <2>2. QED BY <2>1, <1>11, <1>12, <1>13, TouchedOnce DEF o
<1>17. ReadOK(k')
  <2>1. m.op \notin {"data", "eof"}
    BY <1>12
  <2>2. QED BY <1>11, <1>12, <1>13, <2>1, WorkReads DEF o
<1>18. /\ \A e : Has(Answers(k'.macros), e) <=> Has(Answers(k.macros), e) \/ a = e
       /\ Answers(k'.macros) = Append(Answers(k.macros), a) /\ Answers(k.macros) \in Seq(Nat)
       /\ \A e : Has(k'.macros, e) <=> Has(k.macros, e) \/ m = e
       /\ Newest(k') = x
  BY <1>12, <1>15, Zenon DEF WorkFacts, PostIs, Adds, Answer
<1>19. SameWrites(k, k') /\ PendingOK(k) /\ WireOK(k, n) /\ FinOK(k) /\ k.cur \in Nat
  BY <1>2, <1>13, SocketFields DEF WorksIs, Sound, SocketOK
<1>20. PendingOK(k')
  <2>1. k.cur # 0 => OnceIn(t, k.cur, Answers(k'.macros), k.cur)
    <3> SUFFICES ASSUME k.cur # 0 PROVE OnceIn(t, k.cur, Answers(k'.macros), k.cur)
      OBVIOUS
    <3> DEFINE S == Nat
               f == o.queue
               g == Answers(k.macros)
               c == k.cur
    <3>1. f \in Seq(S) /\ f # <<>> /\ OnceIn(f, c, g, c) /\ g \in Seq(S) /\ a = Head(f) /\ t = Tail(f) /\ a \in S
      BY <1>4, <1>5, <1>18, <1>19 DEF PendingOK, o, a, t
    <3> HIDE DEF S, f, g
    <3>2. OnceIn(Tail(f), c, g, c) /\ (Head(f) = c => ~Has(Tail(f), c) /\ ~Has(g, c))
      BY <3>1, OnceRuns
    <3>3. OnceIn(Tail(f), c, Append(g, a), c)
      BY <3>1, <3>2, OnceLog
    <3>4. QED BY <1>18, <3>1, <3>3 DEF g
  <2>2. \A e \in Nat : Has(t, e) \/ Has(Answers(k'.macros), e) => e \in {Fin, k.cur}
    BY <1>5, <1>6, <1>18, <1>19 DEF PendingOK, o
  <2>3. k.waits => k.cur # 0 /\ ~Has(t, k.cur) /\ ~Has(Answers(k'.macros), k.cur)
    BY <1>5, <1>6, <1>18, <1>19 DEF PendingOK, Idle, o
  <2>4. k'.cur = k.cur /\ k'.waits = k.waits /\ Newest(k').queue = t
    BY <1>11, <1>18, <1>19 DEF SameWrites
  <2>5. QED BY <2>1, <2>2, <2>3, <2>4 DEF PendingOK, Idle
<1>21. WireOK(k', n)
  <2>1. \A e : Sent(k', e) => Sent(k, e)
    BY <1>6, <1>7, <1>11, <1>18 DEF Sent, o
  <2>2. ~k.again => Outgoing(Newest(k').wire, Newest(k').queue)
    BY <1>8, <1>11, <1>18, <1>19 DEF WireOK, o
  <2>3. QED BY <1>19, <2>1, <2>2 DEF WireOK, SameWrites
<1>22. FinOK(k')
  <2> SUFFICES ASSUME NEW r \in SMacros, Has(k'.macros, r), r.op = "written", r.id = Fin, r.ok
               PROVE  Has(Newest(k').wire, Fin)
    BY DEF FinOK
  <2>1. CASE Has(k.macros, r)
    <3>1. Has(o.wire, Fin)
      BY <1>19, <2>1 DEF FinOK, o
    <3>2. QED BY <1>7, <1>11, <1>18, <3>1
  <2>2. CASE r = m
    BY <1>7, <1>11, <1>12, <1>18, <2>2
  <2>3. QED BY <1>18, <2>1, <2>2
<1>23. x.closed = Newest(k).closed /\ m.op # "closed" /\ (Has(Newest(k).wire, Fin) => Has(x.wire, Fin))
  BY <1>7, <1>11, <1>12 DEF o
<1>24. QED BY <1>11, <1>12, <1>13, <1>14, <1>16, <1>17, <1>20, <1>21, <1>22, <1>23, WorkKeeps

-----------------------------------------------------------------------------
(* Socket: the macrotasks *)

\* A macrotask is taken.
TookMacro(s, y) ==
  /\ y \in Sockets /\ y.macros = Tail(s.macros)
  /\ y.ticks = s.ticks /\ y.events = s.events /\ y.settled = s.settled /\ y.handles = s.handles
  /\ SameState(s, y) /\ SameWrites(s, y) /\ SameReads(s, y) /\ y.conf = s.conf /\ y.flowing = s.flowing

LEMMA TookMacroFields ==
  ASSUME NEW s \in Sockets, s.macros # <<>> PROVE TookMacro(s, [s EXCEPT !.macros = Tail(s.macros)])
<1> DEFINE u == Tail(s.macros)
           y == [s EXCEPT !.macros = u]
<1>1. u \in Seq(SMacros)
  BY SocketFields, HeadTailProperties
<1> HIDE DEF u
<1>2. y \in Sockets
  BY <1>1, ZenonT(40) DEF Sockets
<1>3. /\ y.macros = u /\ y.ticks = s.ticks /\ y.events = s.events /\ y.settled = s.settled /\ y.handles = s.handles
      /\ y.conf = s.conf /\ y.flowing = s.flowing
  BY DEF Sockets
<1>4. SameState(s, y) /\ SameReads(s, y) /\ SameWrites(s, y)
  BY DEF Sockets, SameState, SameReads, SameWrites
<1> HIDE DEF y
<1>5. TookMacro(s, y)
  BY <1>2, <1>3, <1>4 DEF TookMacro, u
<1>6. QED BY <1>5 DEF y, u

\* What is left of the macrotasks.
LeftIs(t, m, u) ==
  /\ m \in SMacros /\ m = Head(t) /\ Has(t, m)
  /\ \A a : Has(u, a) => Has(t, a)
  /\ \A a : Has(Ops(t), a) <=> m.op = a \/ Has(Ops(u), a)
  /\ \A a : Has(Answers(t), a) <=> Answer(m) = a \/ Has(Answers(u), a)
  /\ \A a : Has(Dials(t), a) <=> Dial(m) = a \/ Has(Dials(u), a)
  /\ Ops(t) \in Seq(MacroOps) /\ Ops(t) # <<>> /\ Head(Ops(t)) = m.op /\ Ops(u) = Tail(Ops(t))
  /\ Answers(t) \in Seq(Nat) /\ Answers(t) # <<>> /\ Head(Answers(t)) = Answer(m) /\ Answers(u) = Tail(Answers(t))
  /\ Dials(t) \in Seq(Nat) /\ Dials(t) # <<>> /\ Head(Dials(t)) = Dial(m) /\ Dials(u) = Tail(Dials(t))

LEMMA NumberTail ==
  ASSUME NEW t \in Seq(Nat), t # <<>> PROVE \A e : Has(t, e) <=> Head(t) = e \/ Has(Tail(t), e)
<1> DEFINE N == Nat
<1>1. t \in Seq(N)
  OBVIOUS
<1> HIDE DEF N
<1>2. QED BY <1>1, HasTail

LEMMA MacroLeft ==
  ASSUME NEW t \in Seq(SMacros), t # <<>>, NEW u, u = Tail(t), NEW m, m = Head(t) PROVE LeftIs(t, m, u)
<1>1. /\ m \in SMacros /\ u \in Seq(SMacros)
      /\ Ops(t) \in Seq(MacroOps) /\ Ops(t) # <<>> /\ Head(Ops(t)) = m.op /\ Ops(u) = Tail(Ops(t))
      /\ Answers(t) \in Seq(Nat) /\ Answers(t) # <<>> /\ Answers(u) = Tail(Answers(t))
      /\ Head(Answers(t)) = (IF m.op = "written" THEN m.id ELSE 0)
      /\ Dials(t) \in Seq(Nat) /\ Dials(t) # <<>> /\ Dials(u) = Tail(Dials(t))
      /\ Head(Dials(t)) = IF m.op = "connected" THEN m.h ELSE 0
  BY MacrosSeen, Zenon
<1>2. Head(Answers(t)) = Answer(m) /\ Head(Dials(t)) = Dial(m)
  BY <1>1 DEF Answer, Dial
<1>3. \A a : Has(t, a) <=> m = a \/ Has(u, a)
  <2>1. \A a : Has(t, a) <=> Head(t) = a \/ Has(Tail(t), a)
    BY HasTail
  <2>2. QED BY <2>1
<1>4. \A a : Has(Ops(t), a) <=> m.op = a \/ Has(Ops(u), a)
  <2> DEFINE f == Ops(t)
             g == Ops(u)
  <2>1. f \in Seq(MacroOps) /\ f # <<>> /\ g = Tail(f) /\ Head(f) = m.op
    BY <1>1
  <2> HIDE DEF f, g
  <2>2. \A a : Has(f, a) <=> Head(f) = a \/ Has(Tail(f), a)
    BY <2>1, HasTail
  <2>3. QED BY <2>1, <2>2, Zenon DEF f, g
<1>5. \A a : Has(Answers(t), a) <=> Answer(m) = a \/ Has(Answers(u), a)
  <2> DEFINE f == Answers(t)
             g == Answers(u)
  <2>1. f \in Seq(Nat) /\ f # <<>> /\ g = Tail(f) /\ Head(f) = Answer(m)
    BY <1>1, <1>2
  <2> HIDE DEF f, g
  <2>2. \A a : Has(f, a) <=> Head(f) = a \/ Has(Tail(f), a)
    BY <2>1, NumberTail
  <2>3. QED BY <2>1, <2>2, Zenon DEF f, g
<1>6. \A a : Has(Dials(t), a) <=> Dial(m) = a \/ Has(Dials(u), a)
  <2> DEFINE f == Dials(t)
             g == Dials(u)
  <2>1. f \in Seq(Nat) /\ f # <<>> /\ g = Tail(f) /\ Head(f) = Dial(m)
    BY <1>1, <1>2
  <2> HIDE DEF f, g
  <2>2. \A a : Has(f, a) <=> Head(f) = a \/ Has(Tail(f), a)
    BY <2>1, NumberTail
  <2>3. QED BY <2>1, <2>2, Zenon DEF f, g
<1>7. QED BY <1>1, <1>2, <1>3, <1>4, <1>5, <1>6, Zenon DEF LeftIs

LEMMA OnceLogged ==
  ASSUME NEW S, NEW s \in Seq(S), s # <<>>, NEW a, NEW t, NEW b, OnceIn(t, a, s, b)
  PROVE  OnceIn(t, a, Tail(s), b)
<1>1. Single(Tail(s), b)
  BY SingleTail DEF OnceIn
<1>2. Has(Tail(s), b) => Has(s, b)
  BY HasTail
<1>3. QED BY <1>1, <1>2 DEF OnceIn

\* All of the invariant but what was read.
MostOK(s, n) ==
  /\ s \in Sockets /\ HandlesOK(s) /\ ReportOK(s) /\ ConnectOK(s) /\ UntouchedOK(s) /\ SaidOK(s) /\ ComesOnce(s)
  /\ IdsOK(s, n) /\ PendingOK(s) /\ WireOK(s, n) /\ FinOK(s) /\ TidyOK(s)

LEMMA TakeMacro ==
  ASSUME NEW s, NEW n \in Nat, Sound(s, n), s.macros # <<>>, NEW y, TookMacro(s, y)
  PROVE  MostOK(y, n) /\ LeftIs(s.macros, Head(s.macros), y.macros)
<1> DEFINE t == s.macros
           u == y.macros
           m == Head(t)
<1>1. /\ s \in Sockets /\ SocketOK(s, n) /\ y \in Sockets /\ u = Tail(t) /\ t \in Seq(SMacros) /\ t # <<>>
      /\ y.ticks = s.ticks /\ y.events = s.events /\ y.settled = s.settled /\ y.handles = s.handles
      /\ SameState(s, y) /\ SameWrites(s, y) /\ SameReads(s, y) /\ Newest(y) = Newest(s)
  BY SocketFields DEF Sound, SocketOK, TookMacro, Newest
<1>2. LeftIs(t, m, u)
  <2> HIDE DEF t, u
  <2>1. QED BY <1>1, MacroLeft, Zenon
<1>3. /\ \A a : Has(u, a) => Has(t, a)
      /\ \A a : Has(Ops(u), a) => Has(Ops(t), a)
      /\ \A a : Has(Answers(u), a) => Has(Answers(t), a)
      /\ \A a : Has(Dials(u), a) => Has(Dials(t), a)
  BY <1>2, Zenon DEF LeftIs
<1>4. HandlesOK(y) /\ ConnectOK(y)
  BY <1>1 DEF SocketOK, HandlesOK, ConnectOK, SameState
<1>5. ReportOK(y)
  <2>1. ReportOK(s)
    BY <1>1 DEF SocketOK
  <2>2. \A a \in Nat \ {0} : Single(Dials(u), a)
    <3> SUFFICES ASSUME NEW a \in Nat \ {0} PROVE Single(Dials(u), a)
      OBVIOUS
    <3> DEFINE N == Nat
    <3>1. Dials(t) \in Seq(N) /\ Dials(t) # <<>> /\ Dials(u) = Tail(Dials(t)) /\ Single(Dials(t), a)
      BY <1>2, <2>1 DEF LeftIs, ReportOK
    <3> HIDE DEF N, t, u
    <3>2. QED BY <3>1, SingleTail
  <2>3. Reported(y) => Reported(s)
    BY <1>1, <1>3 DEF Reported, SameState
  <2>4. QED BY <1>1, <1>3, <2>1, <2>2, <2>3 DEF ReportOK, SameState
<1>6. UntouchedOK(y)
  BY <1>1, <1>3 DEF SocketOK, UntouchedOK, Untouched, SameWrites, SameReads
<1>7. SaidOK(y)
  BY <1>1, <1>3 DEF SocketOK, SaidOK, SameState, SameWrites, SameReads
<1>8. ComesOnce(y)
  <2>1. ComesOnce(s)
    BY <1>1 DEF SocketOK
  <2>2. OnceIn(Ops(u), "closed", y.events, "close")
    <3>1. /\ Ops(t) \in Seq(MacroOps) /\ Ops(t) # <<>> /\ Ops(u) = Tail(Ops(t))
          /\ OnceIn(Ops(t), "closed", s.events, "close")
      BY <1>2, <2>1 DEF LeftIs, ComesOnce
    <3> HIDE DEF t, u
    <3>2. QED BY <1>1, <3>1, OnceRuns, Zenon
  <2>3. QED BY <1>1, <1>3, <2>1, <2>2 DEF ComesOnce
<1>9. IdsOK(y, n)
  BY <1>1 DEF SocketOK, IdsOK, Unknown, SameWrites
<1>10. PendingOK(y)
  <2>1. PendingOK(s) /\ y.cur = s.cur /\ y.waits = s.waits
    BY <1>1 DEF SocketOK, SameWrites
  <2>2. s.cur # 0 => OnceIn(Newest(s).queue, s.cur, Answers(u), s.cur)
    <3> SUFFICES ASSUME s.cur # 0 PROVE OnceIn(Newest(s).queue, s.cur, Answers(u), s.cur)
      OBVIOUS
    <3> DEFINE N == Nat
    <3>1. Answers(t) \in Seq(N) /\ Answers(t) # <<>> /\ Answers(u) = Tail(Answers(t))
          /\ OnceIn(Newest(s).queue, s.cur, Answers(t), s.cur)
      BY <1>2, <2>1 DEF LeftIs, PendingOK
    <3> HIDE DEF N, t, u
    <3>2. QED BY <3>1, OnceLogged
  <2>3. QED BY <1>1, <1>3, <2>1, <2>2 DEF PendingOK, Idle
<1>11. WireOK(y, n)
  BY <1>1 DEF SocketOK, WireOK, Sent, SameWrites
<1>12. FinOK(y)
  BY <1>1, <1>3 DEF SocketOK, FinOK
<1>13. TidyOK(y)
  BY <1>1 DEF Sound, TidyOK, SameState, SameWrites
<1>14. QED BY <1>1, <1>2, <1>4, <1>5, <1>6, <1>7, <1>8, <1>9, <1>10, <1>11, <1>12, <1>13 DEF MostOK

LEMMA TakesMacro ==
  ASSUME NEW s, NEW n \in Nat, Sound(s, n), s.macros # <<>>, NEW y, TookMacro(s, y),
         NEW e, e = Head(s.macros).op
  PROVE  /\ s.destroyed \/ e # "data" => Sound(y, n)
         /\ e \in MacroOps
         /\ Tally(Ops(s.macros), "data") = Tally(Ops(y.macros), "data") + (IF e = "data" THEN 1 ELSE 0)
         /\ Tally(Ops(y.macros), "data") \in Nat
         /\ Ordered(Ops(y.macros), {"data"}, {"eof"})
<1> DEFINE t == s.macros
           u == y.macros
           m == Head(t)
<1>1. MostOK(y, n) /\ LeftIs(t, m, u)
  BY TakeMacro
<1>2. /\ \A a : Has(Ops(u), a) => Has(Ops(t), a)
      /\ Ops(t) \in Seq(MacroOps) /\ Ops(t) # <<>> /\ Head(Ops(t)) = e /\ Ops(u) = Tail(Ops(t)) /\ e \in MacroOps
  BY <1>1, Zenon DEF LeftIs, SMacros
<1>3. ReadOK(s) /\ s \in Sockets /\ y \in Sockets /\ y.events = s.events /\ y.handles = s.handles /\ SameState(s, y) /\ SameReads(s, y)
  BY DEF Sound, SocketOK, TookMacro
<1> DEFINE a == Tally(Ops(t), "data")
           b == Tally(Ops(u), "data")
<1>4. a = b + (IF e = "data" THEN 1 ELSE 0) /\ b \in Nat
  <2>1. b \in Nat
    <3> HIDE DEF b
    <3>1. Tally(Ops(y.macros), "data") \in Nat
      BY <1>3, SocketFields
    <3>2. QED BY <3>1 DEF b
  <2>2. a = b + (IF e = "data" THEN 1 ELSE 0)
    <3> HIDE DEF t, u
    <3>1. Tally(Ops(t), "data") = (IF Head(Ops(t)) = "data" THEN 1 ELSE 0) + Tally(Tail(Ops(t)), "data")
      BY <1>2, TallyTail
    <3>2. a = (IF e = "data" THEN 1 ELSE 0) + b
      BY <1>2, <3>1
    <3> HIDE DEF a, b
    <3>3. QED BY <2>1, <3>2
  <2>3. QED BY <2>1, <2>2
<1>5. Ordered(Ops(u), {"data"}, {"eof"})
  <2>1. Ordered(Ops(t), {"data"}, {"eof"})
    BY <1>3 DEF ReadOK
  <2> HIDE DEF t, u
  <2>2. QED BY <1>2, <2>1, OrderedTail
<1>6. ASSUME s.destroyed \/ e # "data" PROVE Sound(y, n)
  <2>1. ~s.destroyed => a = b
    BY <1>4, <1>6
  <2>2. ReadOK(y)
    BY <1>2, <1>3, <1>5, <2>1 DEF ReadOK, SameReads, SameState, Newest
  <2>3. QED BY <1>1, <2>2 DEF MostOK, Sound, SocketOK
<1>7. QED BY <1>2, <1>4, <1>5, <1>6 DEF a, b

\* What was read is passed on or kept, and reading may stop.
Unread(x) == [x EXCEPT !.reading = FALSE]
SameHandle(o, x) ==
  /\ x \in HandleType /\ x.st = o.st /\ x.closed = o.closed /\ x.queue = o.queue /\ x.wire = o.wire
  /\ x.in = o.in /\ x.over = o.over

LEMMA UnreadHandle == ASSUME NEW x \in HandleType PROVE SameHandle(x, Unread(x))
BY Zenon DEF HandleType, Unread, SameHandle

OffIs(y, x, z) ==
  /\ z \in Sockets /\ NewestTo(y, x, z) /\ SameState(y, z) /\ SameWrites(y, z) /\ SameQueues(y, z)
  /\ z.finished = y.finished /\ z.endEmitted = y.endEmitted /\ (y.ended => z.ended)

LEMMA OffKeeps ==
  ASSUME NEW y, NEW n \in Nat, MostOK(y, n), Has(y.events, "connect"), NEW x, SameHandle(Newest(y), x),
         NEW z, OffIs(y, x, z), ReadOK(z)
  PROVE  Sound(z, n)
<1>1. /\ y \in Sockets /\ HandlesOK(y) /\ z \in Sockets /\ NewestTo(y, x, z) /\ x \in HandleType
      /\ z.ticks = y.ticks /\ z.macros = y.macros /\ z.events = y.events /\ z.settled = y.settled
      /\ SameState(y, z) /\ SameWrites(y, z)
  BY DEF MostOK, OffIs, SameQueues, SameHandle
<1>2. Len(y.handles) \in 1..Len(y.handles) /\ Len(y.handles) \in Nat \ {0}
  BY <1>1, NewestFields
<1>3. /\ Newest(z) = x /\ Len(z.handles) = Len(y.handles)
      /\ \A h \in 1..Len(y.handles) : h # Len(y.handles) => z.handles[h] = y.handles[h]
  BY <1>1, NewestChanges
<1>4. /\ Newest(z).closed = Newest(y).closed /\ Newest(z).wire = Newest(y).wire /\ Newest(z).in = Newest(y).in
      /\ Newest(z).over = Newest(y).over /\ Newest(z).st = Newest(y).st /\ Newest(z).queue = Newest(y).queue
  BY <1>3 DEF SameHandle
<1>5. HandlesOK(z)
  <2>1. \A h \in 1..Len(y.handles) : z.handles[h].closed = y.handles[h].closed
    BY <1>3, <1>4 DEF Newest
  <2>2. QED BY <1>1, <1>3, <2>1 DEF HandlesOK, SameState
<1>6. ReportOK(z) /\ ConnectOK(z)
  BY <1>1, <1>3, <1>4 DEF MostOK, ReportOK, Reported, ConnectOK, SameState
<1>7. UntouchedOK(z)
  BY <1>1 DEF UntouchedOK
<1>8. SaidOK(z) /\ ComesOnce(z)
  BY <1>1, <1>4 DEF MostOK, SaidOK, ComesOnce, SameState, SameWrites, OffIs
<1>9. IdsOK(z, n)
  BY <1>1 DEF MostOK, IdsOK, Unknown, SameWrites
<1>10. PendingOK(z) /\ WireOK(z, n) /\ FinOK(z)
  BY <1>1, <1>4 DEF MostOK, PendingOK, Idle, WireOK, Sent, FinOK, SameWrites
<1>11. TidyOK(z)
  BY <1>1 DEF MostOK, TidyOK, SameState, SameWrites
<1>12. QED BY <1>1, <1>5, <1>6, <1>7, <1>8, <1>9, <1>10, <1>11 DEF Sound, SocketOK

\* onStreamRead
LEMMA ReadRuns ==
  ASSUME NEW s, NEW n \in Nat, Sound(s, n), s.macros # <<>>, NEW y, TookMacro(s, y), Head(s.macros).op = "data",
         NEW h, h = Len(s.handles)
  PROVE  Sound(OnRead(y, h), n)
<1>1. /\ s \in Sockets /\ SocketOK(s, n) /\ y \in Sockets /\ HandlesOK(s) /\ ReadOK(s)
      /\ y.ticks = s.ticks /\ y.events = s.events /\ y.settled = s.settled /\ y.handles = s.handles
      /\ SameState(s, y) /\ SameWrites(s, y) /\ SameReads(s, y) /\ Newest(y) = Newest(s)
  BY DEF Sound, SocketOK, TookMacro, Newest
<1>2. MostOK(y, n) /\ LeftIs(s.macros, Head(s.macros), y.macros)
  BY TakeMacro
<1>3. /\ s.destroyed => Sound(y, n)
      /\ Tally(Ops(s.macros), "data") = Tally(Ops(y.macros), "data") + 1
      /\ Tally(Ops(y.macros), "data") \in Nat
      /\ Ordered(Ops(y.macros), {"data"}, {"eof"})
  <2> DEFINE e == Head(s.macros).op
  <2>1. e = "data"
    OBVIOUS
  <2> HIDE DEF e
  <2>2. /\ s.destroyed \/ e # "data" => Sound(y, n)
        /\ Tally(Ops(s.macros), "data") = Tally(Ops(y.macros), "data") + (IF e = "data" THEN 1 ELSE 0)
        /\ Tally(Ops(y.macros), "data") \in Nat
        /\ Ordered(Ops(y.macros), {"data"}, {"eof"})
    BY TakesMacro DEF e
  <2>3. QED BY <2>1, <2>2
<1>4. Has(Ops(s.macros), "data") /\ (Has(Ops(y.macros), "eof") => Has(Ops(s.macros), "eof"))
  BY <1>2, Zenon DEF LeftIs
<1>5. Has(s.events, "connect")
  BY <1>1, <1>4 DEF SocketOK, UntouchedOK, Untouched
<1>6. /\ Newest(y) \in HandleType /\ y.handles \in Seq(HandleType) /\ h \in 1..Len(y.handles) /\ h = Len(y.handles)
      /\ y.got \in Nat /\ y.chunks \in Nat /\ y.handles[h] = Newest(y) /\ DOMAIN y.handles = 1..Len(y.handles)
  BY <1>1, SocketFields, NewestFields, LenProperties DEF Newest
<1>7. CASE y.destroyed
  BY <1>1, <1>3, <1>7 DEF SameState, OnRead
<1>8. ASSUME ~y.destroyed
      PROVE  /\ ~s.destroyed /\ ~y.ended /\ (Has(Ops(y.macros), "eof") => Newest(y).over)
             /\ Newest(y).in = (y.got + y.chunks) + (Tally(Ops(y.macros), "data") + 1)
  <2>1. ~s.destroyed
    BY <1>1, <1>8 DEF SameState
  <2>2. ~s.ended
    BY <1>1, <1>4, <2>1 DEF ReadOK
  <2>3. QED BY <1>1, <1>3, <1>4, <2>1, <2>2 DEF ReadOK, SameReads
<1> DEFINE g == y.got
           c == y.chunks
           d == Tally(Ops(y.macros), "data")
<1>9. /\ g \in Nat /\ c \in Nat /\ d \in Nat /\ g + 1 \in Nat /\ c + 1 \in Nat
      /\ (g + 1) + c + d = (g + c) + (d + 1) /\ g + (c + 1) + d = (g + c) + (d + 1)
  <2>1. g \in Nat /\ c \in Nat /\ d \in Nat
    BY <1>3, <1>6
  <2> HIDE DEF g, c, d
  <2>2. QED BY <2>1
<1>10. CASE ~y.destroyed /\ y.flowing /\ y.chunks = 0
  <2> DEFINE z == [y EXCEPT !.got = g + 1]
  <2>1. OnRead(y, h) = z
    BY <1>10 DEF OnRead
  <2> HIDE DEF g
  <2>2. z \in Sockets /\ z.handles = y.handles /\ z.got = g + 1 /\ z.chunks = y.chunks /\ z.ended = y.ended
    BY <1>1, <1>9, ZenonT(40) DEF Sockets
  <2>3. SameState(y, z) /\ SameWrites(y, z) /\ SameQueues(y, z)
    BY <1>1 DEF Sockets, SameState, SameWrites, SameQueues
  <2>4. z.finished = y.finished /\ z.endEmitted = y.endEmitted
    BY <1>1 DEF Sockets
  <2> HIDE DEF z
  <2>5. OffIs(y, Newest(y), z)
    <3>1. y.handles = [y.handles EXCEPT ![h] = Newest(y)]
      BY <1>6
    <3>2. QED BY <1>6, <2>2, <2>3, <2>4, <3>1 DEF OffIs, NewestTo
  <2>6. ReadOK(z)
    <3>1. Newest(z) = Newest(y) /\ z.macros = y.macros /\ z.events = y.events
      BY <2>2, <2>3 DEF Newest, SameQueues
    <3>2. Newest(z).in = z.got + z.chunks + Tally(Ops(z.macros), "data")
      BY <1>8, <1>9, <1>10, <2>2, <3>1 DEF g
    <3>3. Has(z.events, "end") => z.chunks = 0
      BY <1>10, <2>2
    <3>4. QED BY <1>3, <1>8, <1>10, <2>2, <3>1, <3>2, <3>3 DEF ReadOK
  <2>7. SameHandle(Newest(y), Newest(y))
    BY <1>6 DEF SameHandle
  <2>8. Sound(z, n)
    BY <1>1, <1>2, <1>5, <2>5, <2>6, <2>7, OffKeeps
  <2>9. QED BY <2>1, <2>8
<1>11. CASE ~y.destroyed /\ ~(y.flowing /\ y.chunks = 0)
  <2> DEFINE f == [y.handles EXCEPT ![h] = Unread(Newest(y))]
             z == [y EXCEPT !.chunks = c + 1, !.handles = f]
  <2>1. OnRead(y, h) = z
    BY <1>1, <1>6, <1>11, Zenon DEF OnRead, Unread, Sockets
  <2>2. f \in Seq(HandleType) /\ SameHandle(Newest(y), Unread(Newest(y)))
    BY <1>6, UnreadHandle, ExceptSeq DEF SameHandle
  <2> HIDE DEF c, f
  <2>3. z \in Sockets /\ z.handles = f /\ z.got = y.got /\ z.chunks = c + 1 /\ z.ended = y.ended
    BY <1>1, <1>9, <2>2, ZenonT(40) DEF Sockets
  <2>4. SameState(y, z) /\ SameWrites(y, z) /\ SameQueues(y, z)
    BY <1>1 DEF Sockets, SameState, SameWrites, SameQueues
  <2>5. z.finished = y.finished /\ z.endEmitted = y.endEmitted
    BY <1>1 DEF Sockets
  <2> HIDE DEF z
  <2>6. OffIs(y, Unread(Newest(y)), z)
    BY <1>6, <2>3, <2>4, <2>5 DEF OffIs, NewestTo, f
  <2>7. ReadOK(z)
    <3>1. Newest(z) = Unread(Newest(y)) /\ z.macros = y.macros /\ z.events = y.events
      <4>1. HandlesOK(y)
        BY <1>2 DEF MostOK
      <4>2. QED BY <1>1, <2>2, <2>4, <2>6, <4>1, NewestChanges DEF OffIs, SameQueues, SameHandle
    <3>2. Newest(z).in = Newest(y).in /\ Newest(z).over = Newest(y).over
      BY <2>2, <3>1 DEF SameHandle
    <3>3. Newest(z).in = z.got + z.chunks + Tally(Ops(z.macros), "data")
      BY <1>8, <1>9, <1>11, <2>3, <3>1, <3>2 DEF c
    <3>4. ~Has(y.events, "end")
      BY <1>1, <1>8, <1>11 DEF SocketOK, SaidOK, SameReads
    <3>5. QED BY <1>3, <1>8, <1>11, <2>3, <3>1, <3>2, <3>3, <3>4 DEF ReadOK
  <2>8. Sound(z, n)
    BY <1>1, <1>2, <1>5, <2>2, <2>6, <2>7, OffKeeps
  <2>9. QED BY <2>1, <2>8
<1>12. QED BY <1>7, <1>10, <1>11

\* The end of what the peer sends.
LEMMA EndRuns ==
  ASSUME NEW s, NEW n \in Nat, Sound(s, n), s.macros # <<>>, NEW y, TookMacro(s, y), Head(s.macros).op = "eof",
         NEW h, h = Len(s.handles)
  PROVE  Sound(OnEOF(y, h), n)
<1>1. /\ s \in Sockets /\ SocketOK(s, n) /\ y \in Sockets /\ HandlesOK(s) /\ ReadOK(s)
      /\ y.ticks = s.ticks /\ y.events = s.events /\ y.settled = s.settled /\ y.handles = s.handles
      /\ SameState(s, y) /\ SameWrites(s, y) /\ SameReads(s, y) /\ Newest(y) = Newest(s)
  BY DEF Sound, SocketOK, TookMacro, Newest
<1>2. MostOK(y, n) /\ LeftIs(s.macros, Head(s.macros), y.macros)
  BY TakeMacro
<1>3. Sound(y, n)
  <2> DEFINE e == Head(s.macros).op
  <2>1. e = "eof"
    OBVIOUS
  <2> HIDE DEF e
  <2>2. s.destroyed \/ e # "data" => Sound(y, n)
    BY TakesMacro DEF e
  <2>3. QED BY <2>1, <2>2
<1>4. Has(Ops(s.macros), "eof") /\ ~Has(Ops(y.macros), "data")
  <2>1. Has(Ops(s.macros), "eof") /\ (Has(Ops(y.macros), "data") => Has(Ops(s.macros), "data"))
    BY <1>2, Zenon DEF LeftIs
  <2>2. /\ Ops(s.macros) \in Seq(MacroOps) /\ Ops(s.macros) # <<>> /\ Head(Ops(s.macros)) \in {"eof"}
        /\ Ordered(Ops(s.macros), {"data"}, {"eof"})
    BY <1>1, <1>2, Zenon DEF LeftIs, ReadOK
  <2>3. \A i \in 1..Len(Ops(s.macros)) : Ops(s.macros)[i] \notin {"data"}
    BY <2>2, OrderedTail, Zenon
  <2>4. QED BY <2>1, <2>3 DEF Has
<1>5. Has(s.events, "connect") /\ Newest(y).over
  BY <1>1, <1>4 DEF SocketOK, UntouchedOK, Untouched, ReadOK
<1>6. /\ Newest(y) \in HandleType /\ y.handles \in Seq(HandleType) /\ h \in 1..Len(y.handles) /\ h = Len(y.handles)
      /\ y.handles[h] = Newest(y)
  BY <1>1, SocketFields, NewestFields DEF Newest
<1> DEFINE f == [y.handles EXCEPT ![h] = Unread(Newest(y))]
           z == [y EXCEPT !.handles[h].reading = FALSE, !.ended = TRUE]
<1>7. z = [y EXCEPT !.handles = f, !.ended = TRUE]
  BY <1>1, <1>6 DEF Unread, Sockets
<1>8. f \in Seq(HandleType) /\ SameHandle(Newest(y), Unread(Newest(y)))
  BY <1>6, UnreadHandle, ExceptSeq DEF SameHandle
<1> HIDE DEF f, z
<1>9. z \in Sockets /\ z.handles = f /\ z.got = y.got /\ z.chunks = y.chunks /\ z.ended
  BY <1>1, <1>7, <1>8, ZenonT(40) DEF Sockets
<1>10. SameState(y, z) /\ SameWrites(y, z) /\ SameQueues(y, z)
  BY <1>1, <1>7 DEF Sockets, SameState, SameWrites, SameQueues
<1>11. z.finished = y.finished /\ z.endEmitted = y.endEmitted
  BY <1>1, <1>7 DEF Sockets
<1>12. OffIs(y, Unread(Newest(y)), z)
  BY <1>6, <1>9, <1>10, <1>11 DEF OffIs, NewestTo, f
<1>13. ReadOK(z)
  <2>1. Newest(z) = Unread(Newest(y)) /\ z.macros = y.macros /\ z.events = y.events /\ z.destroyed = y.destroyed
    <3>1. HandlesOK(y)
      BY <1>2 DEF MostOK
    <3>2. QED BY <1>1, <1>8, <1>10, <1>12, <3>1, NewestChanges DEF OffIs, SameQueues, SameHandle, SameState
  <2>2. Newest(z).in = Newest(y).in /\ Newest(z).over = Newest(y).over
    BY <1>8, <2>1 DEF SameHandle
  <2>3. ReadOK(y)
    BY <1>3 DEF Sound, SocketOK
  <2>4. QED BY <1>4, <1>5, <1>9, <2>1, <2>2, <2>3 DEF ReadOK
<1>14. Sound(z, n)
  BY <1>1, <1>2, <1>5, <1>8, <1>12, <1>13, OffKeeps
<1>15. OnEOF(y, h) = CASE y.destroyed -> y
                       [] ~y.destroyed /\ y.chunks = 0 /\ ~y.endEmitted -> STick(z, "endReadable")
                       [] OTHER -> z
  BY DEF OnEOF, z
<1>16. ASSUME ~y.destroyed PROVE TickOK(z, "endReadable")
  <2>1. ~Has(z.events, "close")
    BY <1>10, <1>14, <1>16 DEF Sound, SocketOK, SaidOK, SameState
  <2>2. QED BY <1>9, <2>1 DEF TickOK, TickOps
<1>17. CASE y.destroyed
  BY <1>3, <1>15, <1>17
<1>18. CASE ~y.destroyed /\ y.chunks = 0 /\ ~y.endEmitted
  <2>1. OnEOF(y, h) = STick(z, "endReadable")
    BY <1>15, <1>18
  <2>2. QED BY <1>14, <1>16, <1>18, <2>1, TicksTidy
<1>19. CASE ~y.destroyed /\ ~(y.chunks = 0 /\ ~y.endEmitted)
  BY <1>14, <1>15, <1>19
<1>20. QED BY <1>17, <1>18, <1>19

\* A macrotask runs.
LEMMA ConnectedRuns ==
  ASSUME NEW n \in Nat, Sound(k, n), k.macros # <<>>, NEW y, TookMacro(k, y), NEW m, m = Head(k.macros),
         m.op = "connected", ~H(m.h).closed
  PROVE  /\ Sound(y, n) /\ m.h = y.handle /\ y.connecting /\ ~y.looking /\ ~Reported(y)
         /\ Newest(y).st \in {"up", "down"}
<1>1. LeftIs(k.macros, m, y.macros)
  BY TakeMacro
<1>2. Sound(y, n)
  <2> DEFINE e == m.op
  <2>1. e = "connected"
    OBVIOUS
  <2> HIDE DEF e
  <2>2. k.destroyed \/ e # "data" => Sound(y, n)
    BY TakesMacro DEF e
  <2>3. QED BY <2>1, <2>2
<1>3. /\ k \in Sockets /\ HandlesOK(k) /\ ReportOK(k) /\ ConnectOK(k) /\ SameState(k, y) /\ Newest(y) = Newest(k)
  BY DEF Sound, SocketOK, TookMacro, Newest
<1>4. m.h \in 1..Len(k.handles)
  BY <1>1, <1>3, Zenon DEF LeftIs, ReportOK
<1>5. m.h = k.handle /\ ~k.destroyed
  BY <1>3, <1>4 DEF HandlesOK, H
<1>6. Dial(m) = m.h
  BY DEF Dial
<1>7. Reported(k)
  BY <1>1, <1>5, <1>6 DEF LeftIs, Reported
<1>8. k.connecting /\ Newest(k).st \in {"up", "down"} /\ ~k.looking
  BY <1>3, <1>7 DEF ReportOK, ConnectOK
<1>9. ~Has(Dials(y.macros), m.h)
  <2> DEFINE N == Nat
             f == Dials(k.macros)
             a == m.h
  <2>1. a \in Nat \ {0}
    <3>1. Len(k.handles) \in Nat
      BY <1>3, SocketFields
    <3>2. QED BY <1>4, <3>1
  <2>2. f \in Seq(N) /\ f # <<>> /\ Head(f) = a /\ Dials(y.macros) = Tail(f) /\ Single(f, a)
    BY <1>1, <1>3, <1>6, <2>1, Zenon DEF LeftIs, ReportOK
  <2> HIDE DEF N, f, a
  <2>3. ~Has(Tail(f), a)
    BY <2>2, SingleTail
  <2>4. QED BY <2>2, <2>3 DEF a
<1>10. ~Reported(y) /\ m.h = y.handle
  BY <1>3, <1>5, <1>9 DEF Reported, SameState
<1>11. QED BY <1>2, <1>3, <1>8, <1>10 DEF SameState

LEMMA WrittenRuns ==
  ASSUME NEW s, NEW n \in Nat, Sound(s, n), s.macros # <<>>, NEW y, TookMacro(s, y), NEW m, m = Head(s.macros),
         m.op = "written"
  PROVE  /\ Sound(y, n)
         /\ m.id = Fin => Has(y.events, "connect") /\ (m.ok => Has(Newest(y).wire, Fin))
         /\ m.id # Fin => y.cur # 0 /\ m.id = y.cur /\ Idle(y, y.cur)
<1>1. LeftIs(s.macros, m, y.macros)
  BY TakeMacro
<1>2. Sound(y, n)
  <2> DEFINE e == m.op
  <2>1. e = "written"
    OBVIOUS
  <2> HIDE DEF e
  <2>2. s.destroyed \/ e # "data" => Sound(y, n)
    BY TakesMacro DEF e
  <2>3. QED BY <2>1, <2>2
<1>3. /\ s \in Sockets /\ UntouchedOK(s) /\ PendingOK(s) /\ FinOK(s) /\ SameWrites(s, y)
      /\ Newest(y) = Newest(s) /\ y.events = s.events
  BY DEF Sound, SocketOK, TookMacro, Newest
<1>4. Has(Ops(s.macros), "written") /\ Answer(m) = m.id /\ Has(Answers(s.macros), m.id) /\ m \in SMacros
  BY <1>1, Zenon DEF LeftIs, Answer
<1>5. m.id \in Nat
  BY <1>4 DEF SMacros
<1>6. ASSUME m.id = Fin PROVE Has(y.events, "connect") /\ (m.ok => Has(Newest(y).wire, Fin))
  <2>1. Has(y.events, "connect")
    BY <1>3, <1>4 DEF UntouchedOK, Untouched
  <2>2. m.ok => Has(Newest(s).wire, Fin)
    BY <1>1, <1>3, <1>4, <1>6, Zenon DEF LeftIs, FinOK
  <2>3. QED BY <1>3, <2>1, <2>2
<1>7. ASSUME m.id # Fin PROVE y.cur # 0 /\ m.id = y.cur /\ Idle(y, y.cur)
  <2> DEFINE N == Nat
             f == Answers(s.macros)
             c == s.cur
  <2>1. m.id = c /\ c # 0
    BY <1>3, <1>4, <1>5, <1>7 DEF PendingOK, Fin
  <2>2. /\ f \in Seq(N) /\ f # <<>> /\ Head(f) = c /\ Answers(y.macros) = Tail(f)
        /\ OnceIn(Newest(s).queue, c, f, c) /\ Has(f, c)
    BY <1>1, <1>3, <1>4, <2>1 DEF LeftIs, PendingOK
  <2> HIDE DEF N, f
  <2>3. Single(f, c) /\ ~Has(Newest(s).queue, c)
    BY <2>2 DEF OnceIn
  <2>4. ~Has(Tail(f), c)
    BY <2>2, <2>3, SingleTail
  <2>5. QED BY <1>3, <2>1, <2>2, <2>3, <2>4 DEF SameWrites, Idle
<1>8. QED BY <1>2, <1>6, <1>7

LEMMA ClosedRunsNow ==
  ASSUME NEW s, NEW n \in Nat, Sound(s, n), s.ticks = <<>>, s.macros # <<>>, NEW y, TookMacro(s, y),
         NEW m, m = Head(s.macros), m.op = "closed"
  PROVE  Sound(y, n) /\ EmitOK(y, "close")
<1>1. LeftIs(s.macros, m, y.macros)
  BY TakeMacro
<1>2. Sound(y, n)
  <2> DEFINE e == m.op
  <2>1. e = "closed"
    OBVIOUS
  <2> HIDE DEF e
  <2>2. s.destroyed \/ e # "data" => Sound(y, n)
    BY TakesMacro DEF e
  <2>3. QED BY <2>1, <2>2
<1>3. SaidOK(s) /\ ComesOnce(s) /\ SameState(s, y) /\ y.events = s.events /\ y.ticks = <<>>
  BY DEF Sound, SocketOK, TookMacro
<1>4. s.destroyed
  BY <1>1, <1>3, Zenon DEF LeftIs, SaidOK
<1>5. ~Has(Ops(y.macros), "closed") /\ ~Has(s.events, "close")
  <2> DEFINE f == Ops(s.macros)
  <2>1. /\ f \in Seq(MacroOps) /\ f # <<>> /\ Head(f) = "closed" /\ Ops(y.macros) = Tail(f)
        /\ OnceIn(f, "closed", s.events, "close")
    BY <1>1, <1>3, Zenon DEF LeftIs, ComesOnce
  <2> HIDE DEF f
  <2>2. ~Has(Tail(f), "closed") /\ ~Has(s.events, "close")
    BY <2>1, OnceRuns
  <2>3. QED BY <2>1, <2>2
<1>6. \A a : ~Has(Ops(y.ticks), a)
  <2>1. Len(Ops(<<>>)) = 0
    <3>1. <<>> \in Seq(STicks) /\ Len(<<>>) = 0
      BY EmptySeq
    <3>2. QED BY <3>1, TicksSeen, Zenon
  <2>2. QED BY <1>3, <2>1 DEF Has
<1>7. QED BY <1>2, <1>3, <1>4, <1>5, <1>6 DEF EmitOK, SEvents, SameState

LEMMA MacroRuns ==
  ASSUME NEW n \in Nat, Sound(k, n), SocketMacro
  PROVE  Sound(k', n)
<1> DEFINE m == Head(k.macros)
           y == [k EXCEPT !.macros = Tail(k.macros)]
           e == m.op
           shut == H(m.h).closed
<1>1. k.macros # <<>> /\ k.ticks = <<>> /\ k \in Sockets /\ ReportOK(k)
  BY DEF SocketMacro, Sound, SocketOK
<1>2. TookMacro(k, y)
  BY <1>1, TookMacroFields
<1>3. k' = CASE e = "connected" /\ shut -> y
             [] e = "connected" /\ ~shut -> IF m.ok THEN AfterConnect(y) ELSE ConnectFails(y, m.h)
             [] e = "data" -> OnRead(y, m.h)
             [] e = "eof" -> IF m.ok THEN OnEOF(y, m.h) ELSE SDestroy(y, TRUE)
             [] e = "written" /\ m.id = Fin -> FinalAnswered(y, m.ok)
             [] e = "written" /\ m.id # Fin -> WriteAnswered(y, m.id, m.ok \/ y.destroyed)
             [] e = "closed" -> EmitClose(y)
  BY DEF SocketMacro
<1> HIDE DEF y
<1>4. LeftIs(k.macros, m, y.macros)
  BY <1>1, <1>2, TakeMacro
<1>5. e \in MacroOps /\ (k.destroyed \/ e # "data" => Sound(y, n))
  BY <1>1, <1>2, TakesMacro
<1>6. m \in SMacros /\ Has(k.macros, m) /\ m.ok \in BOOLEAN
  BY <1>4, Zenon DEF LeftIs, SMacros
<1>7. shut \in BOOLEAN
  <2>1. m.h \in 1..Len(k.handles)
    BY <1>1, <1>6 DEF ReportOK
  <2>2. k.handles[m.h] \in HandleType
    BY <1>1, <2>1, SocketFields, ElementOfSeq
  <2>3. QED BY <2>2 DEF H, HandleType
<1>8. e \in {"data", "eof"} => m.h = Len(k.handles)
  BY <1>1, <1>6 DEF ReportOK
<1> HIDE DEF e, shut, m
<1>9. CASE e = "connected" /\ shut
  <2>1. k' = y
    BY <1>3, <1>9
  <2>2. QED BY <1>5, <1>9, <2>1
<1>10. CASE e = "connected" /\ ~shut
  <2>1. k' = IF m.ok THEN AfterConnect(y) ELSE ConnectFails(y, m.h)
    BY <1>3, <1>10
  <2>2. m.op = "connected" /\ ~H(m.h).closed
    BY <1>10 DEF e, shut
  <2>3. /\ Sound(y, n) /\ m.h = y.handle /\ y.connecting /\ ~y.looking /\ ~Reported(y)
        /\ Newest(y).st \in {"up", "down"}
    BY <1>1, <1>2, <2>2, ConnectedRuns DEF m
  <2>4. Sound(AfterConnect(y), n)
    BY <2>3, AfterConnects
  <2>5. Sound(ConnectFails(y, m.h), n)
    <3>1. Sound(NextAttempt(y, y.handle, "connectionAttemptFailed"), n)
      BY <2>3, GivesUp
    <3>2. Sound(SDestroy(y, TRUE), n)
      BY <2>3, DestroysTidy, Zenon
    <3>3. QED BY <2>3, <3>1, <3>2, Zenon DEF ConnectFails
  <2>6. QED BY <2>1, <2>4, <2>5
<1>11. CASE e = "data"
  <2>1. k' = OnRead(y, m.h)
    BY <1>3, <1>11
  <2>2. Head(k.macros).op = "data" /\ m.h = Len(k.handles)
    BY <1>8, <1>11 DEF e, m
  <2>3. Sound(OnRead(y, m.h), n)
    BY <1>1, <1>2, <2>2, ReadRuns
  <2>4. QED BY <2>1, <2>3
<1>12. CASE e = "eof"
  <2>1. k' = IF m.ok THEN OnEOF(y, m.h) ELSE SDestroy(y, TRUE)
    BY <1>3, <1>12
  <2>2. Head(k.macros).op = "eof" /\ m.h = Len(k.handles)
    BY <1>8, <1>12 DEF e, m
  <2>3. Sound(OnEOF(y, m.h), n)
    BY <1>1, <1>2, <2>2, EndRuns
  <2>4. Sound(SDestroy(y, TRUE), n)
    BY <1>5, <1>12, DestroysTidy, Zenon
  <2>5. QED BY <2>1, <2>3, <2>4, Zenon
<1>13. ASSUME e = "written"
       PROVE  /\ Sound(y, n)
              /\ m.id = Fin => Has(y.events, "connect") /\ (m.ok => Has(Newest(y).wire, Fin))
              /\ m.id # Fin => y.cur # 0 /\ m.id = y.cur /\ Idle(y, y.cur)
  <2>1. m = Head(k.macros) /\ m.op = "written"
    BY <1>13 DEF e, m
  <2>2. QED BY <1>1, <1>2, <2>1, WrittenRuns
<1>14. CASE e = "written" /\ m.id = Fin
  <2>1. k' = FinalAnswered(y, m.ok)
    BY <1>3, <1>14
  <2>2. QED BY <1>6, <1>13, <1>14, <2>1, Finaled
<1>15. CASE e = "written" /\ m.id # Fin
  <2>1. k' = WriteAnswered(y, m.id, m.ok \/ y.destroyed)
    BY <1>3, <1>15
  <2>2. Sound(y, n) /\ y.cur # 0 /\ m.id = y.cur /\ Idle(y, y.cur)
    BY <1>13, <1>15
  <2>3. Sound(WriteAnswered(y, y.cur, m.ok \/ y.destroyed), n)
    <3>1. (m.ok \/ y.destroyed) \in BOOLEAN
      OBVIOUS
    <3>2. QED BY <2>2, <3>1, WriteReturns, Zenon
  <2>4. QED BY <2>1, <2>2, <2>3
<1>16. CASE e = "closed"
  <2>1. k' = EmitClose(y)
    BY <1>3, <1>16
  <2>2. m = Head(k.macros) /\ m.op = "closed"
    BY <1>16 DEF e, m
  <2>3. Sound(y, n) /\ EmitOK(y, "close")
    BY <1>1, <1>2, <2>2, ClosedRunsNow
  <2>4. QED BY <2>1, <2>3, Closes
<1>17. QED BY <1>5, <1>7, <1>9, <1>10, <1>11, <1>12, <1>14, <1>15, <1>16 DEF MacroOps

LEMMA NoneHas == \A a : ~Has(<<>>, a) /\ Single(<<>>, a)
<1>1. Len(<<>>) = 0
  BY EmptySeq
<1>2. QED BY <1>1 DEF Has, Single

LEMMA NothingYet ==
  ASSUME NEW s, s \in {Ops(<<>>), Refusals(<<>>), Answers(<<>>), Dials(<<>>), Called(<<>>)}
  PROVE  \A a : ~Has(s, a) /\ Single(s, a)
<1>1. Len(<<>>) = 0 /\ 1..0 = {}
  BY EmptySeq
<1>2. Len(s) = 0
  <2>1. <<>> \in Seq(STicks) /\ <<>> \in Seq(SMacros) /\ <<>> \in Seq(Nat \X BOOLEAN)
    BY EmptySeq
  <2>2. Len(Ops(<<>>)) = 0 /\ Len(Refusals(<<>>)) = 0
    BY <1>1, <2>1, TicksSeen, Zenon
  <2>3. Len(Answers(<<>>)) = 0 /\ Len(Dials(<<>>)) = 0
    BY <1>1, <2>1, MacrosSeen, Zenon
  <2>4. Len(Called(<<>>)) = 0
    BY <1>1, <2>1, CalledSeen, Zenon
  <2>5. QED BY <2>2, <2>3, <2>4
<1>3. QED BY <1>2 DEF Has, Single

LEMMA NewSocketSound ==
  ASSUME NEW c \in SocketConfType
  PROVE  Sound(NewSocket(c), 0)
<1> DEFINE s == NewSocket(c)
           o == NewHandle
<1>1. /\ <<>> \in Seq(Nat) /\ <<>> \in Seq(STicks) /\ <<>> \in Seq(SMacros) /\ <<>> \in Seq(SEvents)
      /\ <<>> \in Seq(Nat \X BOOLEAN) /\ Len(<<>>) = 0
  BY EmptySeq
<1>2. o \in HandleType
  BY <1>1 DEF NewHandle, HandleType
<1>3. <<o>> \in Seq(HandleType) /\ Len(<<o>>) = 1 /\ <<o>>[1] = o
  BY <1>2
<1>4. /\ s.handles = <<o>> /\ s.handle = 1 /\ s.connecting /\ ~s.destroyed /\ ~s.errored /\ s.looking /\ ~s.attempt
      /\ s.cur = 0 /\ ~s.waits /\ s.buffer = <<>> /\ ~s.ending /\ s.final = "no" /\ ~s.finalWaits /\ ~s.finished
      /\ s.chunks = 0 /\ ~s.ended /\ ~s.endEmitted /\ s.ticks = <<>> /\ s.macros = <<>> /\ s.events = <<>>
      /\ s.settled = <<>> /\ s.got = 0 /\ ~s.again
  BY DEF NewSocket
<1>5. s \in Sockets
  <2>1. <<o>> \in Seq(HandleType)
    BY <1>3
  <2> HIDE DEF o
  <2>2. QED BY <1>1, <2>1 DEF NewSocket, Sockets, o
<1>6. Newest(s) = o /\ Len(s.handles) = 1
  BY <1>3, <1>4 DEF Newest
<1>7. /\ o.st = "new" /\ ~o.closed /\ ~o.reading /\ o.queue = <<>> /\ o.wire = <<>> /\ o.in = 0 /\ ~o.over
  BY DEF NewHandle
<1> HIDE DEF s, o
<1>8. /\ \A a : ~Has(Ops(<<>>), a) /\ ~Has(Refusals(<<>>), a) /\ ~Has(Answers(<<>>), a) /\ ~Has(Dials(<<>>), a)
               /\ ~Has(Called(<<>>), a) /\ ~Has(<<>>, a)
      /\ \A a : Single(Ops(<<>>), a) /\ Single(Refusals(<<>>), a) /\ Single(Answers(<<>>), a)
                /\ Single(Dials(<<>>), a) /\ Single(Called(<<>>), a) /\ Single(<<>>, a)
  BY NoneHas, NothingYet
<1>9. Len(Ops(<<>>)) = 0 /\ Tally(Ops(<<>>), "data") = 0
  <2>1. Ops(<<>>) \in Seq(TickOps) /\ Len(Ops(<<>>)) = 0
    BY <1>1, TicksSeen, Zenon
  <2>2. Ops(<<>>) = <<>>
    BY <2>1, EmptySeq
  <2>3. QED BY <2>1, <2>2, TallyEmpty
<1>10. HandlesOK(s)
  BY <1>3, <1>4, <1>6, <1>7 DEF HandlesOK
<1>11. ReportOK(s)
  BY <1>4, <1>8 DEF ReportOK, Reported
<1>12. ConnectOK(s)
  BY <1>4, <1>6, <1>7, <1>8 DEF ConnectOK
<1>13. UntouchedOK(s)
  BY <1>4, <1>6, <1>7, <1>8 DEF UntouchedOK, Untouched, Blank
<1>14. SaidOK(s)
  BY <1>4, <1>8 DEF SaidOK
<1>15. ComesOnce(s)
  BY <1>1, <1>4, <1>8, <1>9 DEF ComesOnce, OnceIn, Ordered, CloseLast, NoLater
<1>16. IdsOK(s, 0)
  BY <1>1, <1>4, <1>8 DEF IdsOK, OnceIn, Unknown, Rising
<1>17. PendingOK(s) /\ FinOK(s)
  BY <1>4, <1>6, <1>7, <1>8 DEF PendingOK, FinOK
<1>18. WireOK(s, 0)
  BY <1>1, <1>4, <1>6, <1>7, <1>8 DEF WireOK, Outgoing, InOrder, Sent
<1>19. ReadOK(s)
  BY <1>4, <1>6, <1>7, <1>8, <1>9 DEF ReadOK, Ordered
<1>20. TidyOK(s)
  BY <1>4 DEF TidyOK
<1>21. QED BY <1>5, <1>10, <1>11, <1>12, <1>13, <1>14, <1>15, <1>16, <1>17, <1>18, <1>19, <1>20
           DEF Sound, SocketOK, s

LEMMA SocketBegins ==
  ASSUME NEW c \in SocketConfType, k = NewSocket(c), kcalls = [ops |-> 0, writes |-> 0]
  PROVE  SocketInv
<1>1. Sound(NewSocket(c), 0)
  BY NewSocketSound
<1>2. kcalls \in [ops : Nat, writes : Nat] /\ kcalls.writes = 0
  OBVIOUS
<1>3. QED BY <1>1, <1>2 DEF SocketInv

LEMMA SocketInit ==
  ASSUME SInit PROVE SocketInv
<1>1. PICK c \in SocketConfs : k = NewSocket(c)
  BY DEF SInit
<1>2. c \in SocketConfType /\ kcalls = [ops |-> 0, writes |-> 0]
  BY SocketAssumption DEF SInit
<1>3. QED BY <1>1, <1>2, SocketBegins

LEMMA SocketStep ==
  ASSUME SocketInv, SNext PROVE SocketInv'
<1> DEFINE n == kcalls.writes
<1>1. n \in Nat /\ kcalls \in [ops : Nat, writes : Nat] /\ Sound(k, n)
  BY DEF SocketInv
<1>2. ASSUME UNCHANGED kcalls, Sound(k', n) PROVE SocketInv'
  BY <1>1, <1>2 DEF SocketInv
<1> HIDE DEF n
<1>3. CASE SocketMacro
  <2>1. UNCHANGED kcalls
    BY <1>3 DEF SocketMacro
  <2>2. QED BY <1>1, <1>2, <1>3, <2>1, MacroRuns
<1>4. CASE NativeWorks
  <2>1. PICK h \in DOMAIN k.handles : Dialed(h) \/ Requested(h)
    BY <1>4 DEF NativeWorks
  <2>2. UNCHANGED kcalls
    BY <2>1, Zenon DEF Dialed, Requested
  <2>3. Sound(k', n)
    BY <1>1, <2>1, DialedKeeps, RequestedKeeps
  <2>4. QED BY <1>2, <2>2, <2>3
<1>5. CASE \E h \in DOMAIN k.handles : PeerData(h) \/ PeerEnds(h)
  <2>1. PICK h \in DOMAIN k.handles : PeerData(h) \/ PeerEnds(h)
    BY <1>5
  <2>2. UNCHANGED kcalls
    BY <2>1 DEF PeerData, PeerEnds, Posts
  <2>3. Sound(k', n)
    BY <1>1, <2>1, PeerDataKeeps, PeerEndsKeeps
  <2>4. QED BY <1>2, <2>2, <2>3
<1>6. CASE LooksUp \/ AttemptTimesOut \/ SocketTick \/ SocketResumes
           \/ SocketWrites \/ SocketEnds \/ SocketDestroys \/ SocketPauses
  BY <1>6, UserKeeps
<1>7. QED BY <1>3, <1>4, <1>5, <1>6 DEF SNext, SocketWorks

LEMMA SocketStays ==
  ASSUME SocketInv, UNCHANGED svars PROVE SocketInv'
BY DEF SocketInv, svars

LEMMA HasContains == ASSUME NEW s, NEW e PROVE Contains(s, e) <=> Has(s, e)
BY DEF Contains, Has

LEMMA SocketIs ==
  ASSUME SocketInv PROVE NoHandleLeaks /\ SocketEvents /\ WireInOrder /\ EndAfterData
<1> DEFINE n == kcalls.writes
<1>1. k \in Sockets /\ SocketOK(k, n) /\ n \in Nat
  BY DEF SocketInv, Sound, SocketOK
<1>2. /\ DOMAIN k.handles = 1..Len(k.handles) /\ DOMAIN k.events = 1..Len(k.events)
      /\ DOMAIN k.settled = 1..Len(k.settled) /\ \A h \in 1..Len(k.handles) : k.handles[h] \in HandleType
  BY <1>1, SocketFields, LenProperties, ElementOfSeq
<1>3. HandlesOK(k) /\ ComesOnce(k) /\ IdsOK(k, n) /\ WireOK(k, n) /\ SaidOK(k) /\ ReadOK(k)
  BY <1>1 DEF SocketOK
<1> HIDE DEF n
<1>4. NoHandleLeaks
  <2>1. Len(k.handles) \in Nat /\ (k.handle # 0 => k.handle \in 1..Len(k.handles))
    BY <1>1, <1>3, SocketFields, NewestFields DEF HandlesOK
  <2>2. QED BY <1>2, <1>3, <2>1 DEF NoHandleLeaks, HandlesOK, H
<1>5. SocketEvents
  <2>1. \A e \in {"connect", "error", "end", "finish", "close"} : Single(k.events, e)
    BY <1>3 DEF ComesOnce, OnceIn
  <2>2. \A e \in {"connect", "error", "end", "finish", "close"} : AtMostOnce(e)
    BY <1>2, <2>1 DEF AtMostOnce, Single
  <2>3. ASSUME NEW i \in 1..Len(k.events), NEW j \in 1..Len(k.events), i < j, k.events[i] = "close"
        PROVE  k.events[j] = "lookup"
    <3>1. k.events[j] \in SEvents
      BY <1>1, SocketFields, ElementOfSeq
    <3>2. CloseLast(k.events)
      BY <1>3 DEF ComesOnce
    <3>3. \A e \in SEvents \ {"lookup"} : k.events[j] # e
      BY <2>3, <3>2 DEF CloseLast, NoLater
    <3>4. QED BY <3>1, <3>3
  <2>4. QED BY <1>2, <2>2, <2>3 DEF SocketEvents
<1>6. WireInOrder
  <2>1. ASSUME NEW i \in 1..Len(k.settled), NEW j \in 1..Len(k.settled), k.settled[i][1] = k.settled[j][1]
        PROVE  i = j
    <3> DEFINE a == k.settled[i][1]
               f == Called(k.settled)
    <3>1. Len(f) = Len(k.settled)
      <4>1. k.settled \in Seq(Nat \X BOOLEAN)
        BY <1>1, SocketFields
      <4>2. QED BY <4>1, CalledSeen
    <3>2. i \in 1..Len(f) /\ j \in 1..Len(f) /\ f[i] = a /\ f[j] = a
      BY <2>1, <3>1 DEF Called
    <3>3. a \in Nat
      <4>1. k.settled[i] \in Nat \X BOOLEAN
        BY <1>1, SocketFields, ElementOfSeq
      <4>2. QED BY <4>1
    <3> HIDE DEF a, f
    <3>4. Has(f, a)
      BY <3>2 DEF Has
    <3>5. a \in Nat \ {0}
      BY <1>3, <3>3, <3>4 DEF IdsOK, f
    <3>6. Single(f, a)
      BY <1>3, <3>5 DEF IdsOK, OnceIn, f
    <3>7. QED BY <3>2, <3>6 DEF Single
  <2>2. ASSUME NEW h \in 1..Len(k.handles), NEW i \in DOMAIN H(h).wire, NEW j \in DOMAIN H(h).wire, i < j
        PROVE  k.again \/ (H(h).wire[i] # Fin /\ (H(h).wire[j] = Fin \/ H(h).wire[i] < H(h).wire[j]))
    <3>1. H(h).wire \in Seq(Nat)
      BY <1>2 DEF H, HandleType
    <3>2. DOMAIN H(h).wire = 1..Len(H(h).wire) /\ Len(H(h).wire) \in Nat
      BY <3>1, LenProperties
    <3>3. CASE h # Len(k.handles)
      <4>1. H(h).wire = <<>>
        BY <1>3, <3>3 DEF HandlesOK, Blank, H
      <4>2. 1..Len(H(h).wire) = {}
        BY <4>1, EmptySeq
      <4>3. QED BY <3>2, <4>2
    <3>4. CASE h = Len(k.handles)
      <4>1. H(h) = Newest(k)
        BY <3>4 DEF H, Newest
      <4>2. k.again \/ InOrder(H(h).wire)
        BY <1>3, <4>1 DEF WireOK, Outgoing
      <4>3. QED BY <2>2, <3>2, <4>2 DEF InOrder, Before
    <3>5. QED BY <3>3, <3>4
  <2>3. Heard("finish") => \E h \in 1..Len(k.handles) : Contains(H(h).wire, Fin)
    <3>1. ASSUME Heard("finish") PROVE \E h \in 1..Len(k.handles) : Contains(H(h).wire, Fin)
      <4>1. Has(k.events, "finish")
        BY <3>1, HasContains DEF Heard
      <4>2. Has(Newest(k).wire, Fin)
        BY <1>3, <4>1 DEF SaidOK
      <4>3. Contains(H(Len(k.handles)).wire, Fin) /\ Len(k.handles) \in 1..Len(k.handles)
        BY <1>1, <1>3, <4>2, HasContains, NewestFields DEF H, Newest
      <4>4. QED BY <4>3
    <3>2. QED BY <3>1
  <2>4. QED BY <1>2, <2>1, <2>2, <2>3 DEF WireInOrder
<1>7. EndAfterData
  <2> SUFFICES ASSUME Heard("end") PROVE k.chunks = 0 /\ \A h \in 1..Len(k.handles) : H(h).in = k.got \/ H(h).closed
    BY <1>2 DEF EndAfterData
  <2>1. Has(k.events, "end")
    BY HasContains DEF Heard
  <2>2. k.chunks = 0 /\ k.ended
    BY <1>3, <2>1 DEF ReadOK, SaidOK
  <2>3. ASSUME NEW h \in 1..Len(k.handles), ~H(h).closed PROVE H(h).in = k.got
    <3>1. h = k.handle
      BY <1>3, <2>3 DEF HandlesOK, H
    <3>2. ~k.destroyed /\ h = Len(k.handles)
      BY <1>1, <1>3, <3>1 DEF HandlesOK
    <3>3. H(h) = Newest(k)
      BY <3>2 DEF H, Newest
    <3> DEFINE f == Ops(k.macros)
               d == Tally(f, "data")
               g == k.got
               c == k.chunks
    <3>4. H(h).in = g + c + d /\ ~Has(f, "data") /\ f \in Seq(MacroOps) /\ c = 0 /\ g \in Nat
      BY <1>1, <1>3, <2>2, <3>2, <3>3, SocketFields, MacrosSeen DEF ReadOK
    <3> HIDE DEF f, g, c
    <3>5. d = 0
      BY <3>4, TallyZero DEF Has
    <3> HIDE DEF d
    <3>6. g + c + d = g
      BY <3>4, <3>5
    <3>7. QED BY <3>4, <3>6 DEF g
  <2>4. QED BY <2>2, <2>3
<1>8. QED BY <1>4, <1>5, <1>6, <1>7

-----------------------------------------------------------------------------
(* MCNetwork *)

NetworkInv ==
  /\ component = "socket" => SocketInv
  /\ component = "server" => ServerInv
  /\ component = "httpServer" => HttpInv
  /\ component = "httpClient" => ClientInv

LEMMA NetworkInit == Init => NetworkInv
<1> SUFFICES ASSUME Init PROVE NetworkInv
  OBVIOUS
<1>1. CASE component = "socket" /\ SInit
  BY <1>1, SocketInit DEF NetworkInv
<1>2. CASE component = "server" /\ VInit
  BY <1>2, ServerInit DEF NetworkInv
<1>3. CASE component = "httpServer" /\ HInit
  BY <1>3, HttpInit DEF NetworkInv
<1>4. CASE component = "httpClient" /\ QInit
  BY <1>4, ClientInit DEF NetworkInv
<1>5. QED BY <1>1, <1>2, <1>3, <1>4 DEF Init

LEMMA NetworkStep == NetworkInv /\ [Next]_vars => NetworkInv'
<1> SUFFICES ASSUME NetworkInv, [Next]_vars PROVE NetworkInv'
  OBVIOUS
<1>1. component' = component
  BY DEF Next, vars
<1>2. CASE component = "socket"
  <2>1. SocketInv /\ (SNext \/ UNCHANGED svars)
    BY <1>2 DEF NetworkInv, Next, vars
  <2>2. SocketInv'
    BY <2>1, SocketStep, SocketStays
  <2>3. QED BY <1>1, <1>2, <2>2 DEF NetworkInv
<1>3. CASE component = "server"
  <2>1. ServerInv /\ (VNext \/ UNCHANGED vvars)
    BY <1>3 DEF NetworkInv, Next, vars
  <2>2. ServerInv'
    BY <2>1, ServerStep, ServerStays
  <2>3. QED BY <1>1, <1>3, <2>2 DEF NetworkInv
<1>4. CASE component = "httpServer"
  <2>1. HttpInv /\ (HNext \/ UNCHANGED hvars)
    BY <1>4 DEF NetworkInv, Next, vars
  <2>2. HttpInv'
    BY <2>1, HttpStep, HttpStays
  <2>3. QED BY <1>1, <1>4, <2>2 DEF NetworkInv
<1>5. CASE component = "httpClient"
  <2>1. ClientInv /\ (QNext \/ UNCHANGED qvars)
    BY <1>5 DEF NetworkInv, Next, vars
  <2>2. ClientInv'
    BY <2>1, ClientStep, ClientStays
  <2>3. QED BY <1>1, <1>5, <2>2 DEF NetworkInv
<1>6. CASE component \notin {"socket", "server", "httpServer", "httpClient"}
  BY <1>1, <1>6 DEF NetworkInv
<1>7. QED BY <1>2, <1>3, <1>4, <1>5, <1>6

\* The invariant of the component at work holds in every reachable state.
THEOREM NetworkInvariance == Spec => []NetworkInv
BY NetworkInit, NetworkStep, PTL DEF Spec

\* Socket and SocketServer: whatever the order of lookups, answers, timeouts
\* and calls, a socket's handles are closed but for the one in use and its
\* events come once and in their order; a server counts the connections it
\* has, reports each once, and the only listener that is open is its own,
\* unless listen() was called while a look-up of the server was under way.
THEOREM SocketsAreKept == Spec => []SocketsKept
<1>1. NetworkInv => SocketsKept
  BY SocketIs, ServerIs DEF NetworkInv, SocketsKept
<1>2. QED BY <1>1, NetworkInvariance, PTL

\* Socket and HttpClient: what is on the wire is what was written, in that
\* order; the end of the writes comes behind them, except that an attempt
\* after end() sends it again (k.again); 'end' comes behind the data; a
\* request's 'socket', 'response', 'finish', 'close' and the 'error' of its
\* own come once, with one more 'error' for each write() after end(), which
\* is all that comes behind 'close'; a response that ends was heard whole.
THEOREM BytesStayInOrder == Spec => []BytesInOrder
<1>1. NetworkInv => BytesInOrder
  BY SocketIs, ClientIs DEF NetworkInv, BytesInOrder
<1>2. QED BY <1>1, NetworkInvariance, PTL

\* HttpServer: headers before chunks, chunks in order, 'finish' before
\* 'close', and the loop held by a ref'd server that listens, unless it
\* listens again before its close() is over (hs.relisten).
THEOREM HttpExchangeHolds == Spec => []HttpExchange
<1>1. NetworkInv => HttpExchange
  BY HttpIs DEF NetworkInv, HttpExchange
<1>2. QED BY <1>1, NetworkInvariance, PTL

\* SocketServer: no step says 'close' while a connection lives.
THEOREM ClosedWhenDrained == Spec => DrainedAtClose
<1>1. NetworkInv /\ [Next]_vars => [component = "server" => CloseIsDrained]_vars
  <2> SUFFICES ASSUME NetworkInv, Next, component = "server" PROVE CloseIsDrained
    OBVIOUS
  <2>1. ServerInv /\ VNext
    BY DEF NetworkInv, Next
  <2>2. QED BY <2>1, ClosesDrained
<1>2. QED BY <1>1, NetworkInvariance, PTL DEF Spec, DrainedAtClose

===============================================================================
