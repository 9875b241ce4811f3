------------------------- MODULE ChildProcess_proof -------------------------
(***************************************************************************)
(* Proofs about ChildProcess, for any finite set of children, any choice   *)
(* of pipes and any number of calls, of programs that leave a child that   *)
(* failed to start alone.                                                  *)
(***************************************************************************)
EXTENDS ChildProcess, SequenceTheorems, FiniteSetTheorems, TLAPS

TickType == [c : Children, s : {"none", "out", "err"}, n : Nat,
             kind : {"data", "end", "flush", "error", "close", "exit"}]
EventType == [kind : {"data", "end", "error", "close", "exit"}, s : {"none", "out", "err"}, n : Nat]

\* What the waiter has done is what the handle says: from "mark" on ref() and
\* unref() find a handle that is exited, and it stays ref'd until "release".
HandleOK == \A c \in Children :
  /\ waiter[c] = "off" <=> os[c] \in {"none", "failed"}
  /\ os[c] = "none" => ~handle[c].known
  /\ handle[c].exited <=> waiter[c] \in {"release", "forget", "done"}
  /\ waiter[c] = "release" => handle[c].refed

\* A tick is for a pipe's stream or for the child, and has the kind of it.
TickOK(t) == IF t.s = "none" THEN t.kind \in {"error", "close", "exit"}
                             ELSE <<t.c, t.s>> \in Pipes /\ t.kind \in {"data", "end", "flush"}
TicksOK == \A i \in 1..Len(tickQ) : TickOK(tickQ[i])

\* The tick that emits "exit" is queued.
Exiting(c) == \E i \in 1..Len(tickQ) : tickQ[i].c = c /\ tickQ[i].kind = "exit"
ExitKept == \A c \in Children :
  Has(c, "exit") \/ Exiting(c) <=> waiter[c] \in {"mark", "release", "forget", "done"}

\* A pump that has ended has read everything, and the waiter waits for it.
PumpOK ==
  /\ \A p \in Pipes : pump[p] \in {"ended", "done"} => ~pipe[p].open /\ pipe[p].read = pipe[p].sent
  /\ \A p \in Pipes : waiter[p[1]] \notin {"off", "pumps"} => pump[p] = "done"

\* No output of a child is queued behind its "exit".
Quiet(c, t) == t.c = c /\ t.s # "none" => t.kind = "flush"
ExitLast ==
  /\ \A i, k \in 1..Len(tickQ) : i < k /\ tickQ[i].kind = "exit" => Quiet(tickQ[i].c, tickQ[k])
  /\ \A c \in Children : Has(c, "exit") => \A k \in 1..Len(tickQ) : Quiet(c, tickQ[k])

\* Nothing is begun once the loop is left.
LeftOK == vm = "left" => tickQ = <<>> /\ ops <= 0

IInv == TypeOK /\ HandleOK /\ TicksOK /\ ExitKept /\ PumpOK /\ ExitLast /\ LeftOK

\* A pipe is a child and one of its streams.
LEMMA PipeFacts ==
  \A p \in Pipes : /\ p[1] \in Children /\ p[2] \in {"out", "err"}
                   /\ p = <<p[1], p[2]>>
BY ChildAssumption DEF ChildAssumption, Pipes

StreamType == [chunks : Seq(Nat), ended : BOOLEAN, resumed : BOOLEAN, listening : BOOLEAN]
KindIn(q, k) == \E i \in 1..Len(q) : q[i].kind = k

-----------------------------------------------------------------------------
(* Sequences *)

\* Where an element of a concatenation comes from.
LEMMA ConcatAt ==
  ASSUME NEW S, NEW q \in Seq(S), NEW r \in Seq(S)
  PROVE  /\ q \o r \in Seq(S) /\ Len(q \o r) = Len(q) + Len(r)
         /\ \A i \in 1..Len(q) : (q \o r)[i] = q[i]
         /\ \A i \in 1..Len(r) : (q \o r)[Len(q) + i] = r[i]
         /\ \A i \in 1..Len(q \o r) : i \in 1..Len(q) \/ (i - Len(q) \in 1..Len(r)
                                                         /\ (q \o r)[i] = r[i - Len(q)])
OBVIOUS

\* A kind that a concatenation has, one of its parts has.
LEMMA KindConcat ==
  ASSUME NEW S, NEW q \in Seq(S), NEW r \in Seq(S), NEW k
  PROVE  KindIn(q \o r, k) <=> KindIn(q, k) \/ KindIn(r, k)
<1>1. ASSUME KindIn(q \o r, k) PROVE KindIn(q, k) \/ KindIn(r, k)
  BY <1>1, ConcatAt DEF KindIn
<1>2. ASSUME KindIn(q, k) PROVE KindIn(q \o r, k)
  BY <1>2, ConcatAt DEF KindIn
<1>3. ASSUME KindIn(r, k) PROVE KindIn(q \o r, k)
  <2>1. PICK i \in 1..Len(r) : r[i].kind = k
    BY <1>3 DEF KindIn
  <2>2. Len(q) + i \in 1..Len(q \o r) /\ (q \o r)[Len(q) + i] = r[i]
    BY ConcatAt
  <2>3. QED BY <2>1, <2>2 DEF KindIn
<1>4. QED BY <1>1, <1>2, <1>3

\* What flushPendingStreamData emits are the stream's data and its end.
LEMMA FlushShape ==
  ASSUME NEW p \in Pipes, NEW st \in StreamType
  PROVE  /\ Flushed(st) \in StreamType
         /\ Emitted(p, st) \in Seq(EventType)
         /\ ~KindIn(Emitted(p, st), "exit")
<1> DEFINE data == [i \in 1..Len(st.chunks) |-> Event("data", p[2], st.chunks[i])]
           end == IF st.ended THEN <<Event("end", p[2], 0)>> ELSE <<>>
<1>1. st.chunks \in Seq(Nat)
  BY DEF StreamType
<1>2. Flushed(st) \in StreamType
  BY DEF Flushed, StreamType
<1>3. data \in Seq(EventType) /\ ~KindIn(data, "exit")
  <2>1. Len(st.chunks) \in Nat /\ \A i \in 1..Len(st.chunks) : st.chunks[i] \in Nat
    BY <1>1
  <2>2. \A i \in 1..Len(st.chunks) : data[i] \in EventType /\ data[i].kind = "data"
    BY <2>1, PipeFacts DEF Event, EventType
  <2>3. data \in [1..Len(st.chunks) -> EventType]
    BY <2>2
  <2> HIDE DEF data
  <2>4. data \in Seq(EventType)
    BY <2>1, <2>3, SeqDef
  <2>5. Len(data) = Len(st.chunks)
    BY <2>1, <2>3, <2>4, LenProperties
  <2>6. QED BY <2>2, <2>4, <2>5 DEF KindIn
<1>4. end \in Seq(EventType) /\ ~KindIn(end, "exit")
  <2>1. Event("end", p[2], 0) \in EventType /\ Event("end", p[2], 0).kind = "end"
    BY PipeFacts DEF Event, EventType
  <2>2. QED BY <2>1 DEF KindIn
<1> HIDE DEF data, end
<1>5. data \o end \in Seq(EventType) /\ ~KindIn(data \o end, "exit")
  BY <1>3, <1>4, KindConcat, ConcatAt
<1>6. <<>> \in Seq(EventType) /\ ~KindIn(<<>>, "exit")
  BY DEF KindIn
<1>7. Emitted(p, st) = IF st.listening \/ st.resumed THEN data \o end ELSE <<>>
  BY DEF Emitted, data, end
<1>8. QED BY <1>2, <1>5, <1>6, <1>7

-----------------------------------------------------------------------------
(* The initial state *)

\* Nothing was spawned and no op is held.
LEMMA InitInv == Init => IInv /\ OpsBalanced
<1> SUFFICES ASSUME Init PROVE IInv /\ OpsBalanced
  OBVIOUS
<1>1. TypeOK
  <2>1. tickQ \in Seq(TickType) /\ \A c \in Children : seen[c] \in Seq(EventType)
    BY DEF Init
  <2>2. \A p \in Pipes : stream[p] \in StreamType
    BY DEF Init, StreamType
  <2>3. QED BY <2>1, <2>2, ChildAssumption DEF Init, TypeOK, TickType, EventType, StreamType
<1>2. HandleOK
  BY DEF Init, HandleOK
<1>3. TicksOK /\ ExitKept /\ ExitLast
  BY DEF Init, TicksOK, ExitKept, ExitLast, Has, Exiting
<1>4. PumpOK
  BY PipeFacts DEF Init, PumpOK
<1>5. LeftOK
  BY DEF Init, LeftOK
<1>6. OpsBalanced
  <2>1. {c \in Children : Holds(c)} = {}
    BY DEF Init, Holds
  <2>2. QED BY <2>1, FS_EmptySet DEF Init, OpsBalanced
<1>7. QED BY <1>1, <1>2, <1>3, <1>4, <1>5, <1>6 DEF IInv

-----------------------------------------------------------------------------
(* Ticks *)

\* What is queued behind the other ticks, none of it output of a child whose
\* "exit" was queued before, leaves the queue in order.
LEMMA TicksAdded ==
  ASSUME TypeOK, TicksOK, ExitLast, NEW r \in Seq(TickType),
         tickQ' = tickQ \o r, seen' = seen,
         \A i \in 1..Len(r) : TickOK(r[i]),
         \A i \in 1..Len(r) : \A c \in Children : Has(c, "exit") \/ Exiting(c) => Quiet(c, r[i]),
         \A i, k \in 1..Len(r) : i < k /\ r[i].kind = "exit" => Quiet(r[i].c, r[k])
  PROVE  /\ tickQ' \in Seq(TickType) /\ TicksOK' /\ ExitLast'
         /\ \A c \in Children : Exiting(c)' <=>
              Exiting(c) \/ \E i \in 1..Len(r) : r[i].c = c /\ r[i].kind = "exit"
         /\ \A c \in Children : Has(c, "exit")' <=> Has(c, "exit")
<1>1. tickQ \in Seq(TickType)
  BY DEF TypeOK, TickType
<1> DEFINE q == tickQ  n == Len(tickQ)
<1>2. /\ tickQ' \in Seq(TickType) /\ Len(tickQ') = n + Len(r) /\ n \in Nat /\ Len(r) \in Nat
      /\ \A i \in 1..n : tickQ'[i] = tickQ[i]
      /\ \A i \in 1..Len(r) : tickQ'[n + i] = r[i]
  BY <1>1, ConcatAt
<1>3. \A i \in 1..Len(tickQ') :
        \/ i \in 1..n /\ tickQ'[i] = tickQ[i]
        \/ i > n /\ i - n \in 1..Len(r) /\ tickQ'[i] = r[i - n]
  BY <1>1, <1>2, ConcatAt
<1>4. TicksOK'
  <2>1. \A i \in 1..Len(tickQ') : TickOK(tickQ'[i])
    BY <1>3 DEF TicksOK
  <2>2. QED BY <2>1 DEF TicksOK, TickOK
<1>5. \A c \in Children : Has(c, "exit")' <=> Has(c, "exit")
  BY DEF Has
<1>6. \A c \in Children : Exiting(c)' <=>
        Exiting(c) \/ \E i \in 1..Len(r) : r[i].c = c /\ r[i].kind = "exit"
  <2> TAKE c \in Children
  <2>1. ASSUME Exiting(c) PROVE Exiting(c)'
    <3>1. PICK i \in 1..n : tickQ[i].c = c /\ tickQ[i].kind = "exit"
      BY <2>1 DEF Exiting
    <3>2. QED BY <1>2, <3>1 DEF Exiting
  <2>2. ASSUME NEW i \in 1..Len(r), r[i].c = c, r[i].kind = "exit" PROVE Exiting(c)'
    <3>1. n + i \in 1..Len(tickQ') /\ tickQ'[n + i] = r[i]
      BY <1>2
    <3>2. QED BY <2>2, <3>1 DEF Exiting
  <2>3. ASSUME Exiting(c)'
        PROVE  Exiting(c) \/ \E i \in 1..Len(r) : r[i].c = c /\ r[i].kind = "exit"
    <3>1. PICK i \in 1..Len(tickQ') : tickQ'[i].c = c /\ tickQ'[i].kind = "exit"
      BY <2>3 DEF Exiting
    <3>2. QED BY <1>3, <3>1 DEF Exiting
  <2>4. QED BY <2>1, <2>2, <2>3
<1>7. \A c \in Children : Has(c, "exit")' => \A k \in 1..Len(tickQ') : Quiet(c, tickQ'[k])
  BY <1>3, <1>5 DEF ExitLast
<1>8. ASSUME NEW i \in 1..Len(tickQ'), NEW k \in 1..Len(tickQ'), i < k, tickQ'[i].kind = "exit"
      PROVE  Quiet(tickQ'[i].c, tickQ'[k])
  <2>1. CASE k \in 1..n
    <3>1. i \in 1..n /\ tickQ'[i] = tickQ[i] /\ tickQ'[k] = tickQ[k]
      BY <1>2, <1>8, <2>1
    <3>2. QED BY <1>8, <2>1, <3>1 DEF ExitLast
  <2>2. CASE k \notin 1..n
    <3>1. k - n \in 1..Len(r) /\ tickQ'[k] = r[k - n]
      BY <1>3, <2>2
    <3>2. CASE i \in 1..n
      <4>1. tickQ'[i] = tickQ[i] /\ tickQ[i].kind = "exit"
        BY <1>2, <1>8, <3>2
      <4>2. tickQ[i] \in TickType
        BY <1>1, <3>2, ElementOfSeq
      <4>3. tickQ[i].c \in Children
        BY <4>2 DEF TickType
      <4>4. Exiting(tickQ[i].c)
        BY <3>2, <4>1 DEF Exiting
      <4>5. QED BY <3>1, <4>1, <4>3, <4>4
    <3>3. CASE i \notin 1..n
      <4>1. i - n \in 1..Len(r) /\ tickQ'[i] = r[i - n] /\ i - n < k - n
        BY <1>2, <1>3, <1>8, <3>3
      <4>2. r[i - n].kind = "exit"
        BY <1>8, <4>1
      <4>3. Quiet(r[i - n].c, r[k - n])
        BY <3>1, <4>1, <4>2
      <4>4. QED BY <3>1, <4>1, <4>3
    <3>4. QED BY <3>2, <3>3
  <2>3. QED BY <2>1, <2>2
<1>9. ExitLast'
  BY <1>7, <1>8 DEF ExitLast
<1>10. QED BY <1>2, <1>4, <1>5, <1>6, <1>9

-----------------------------------------------------------------------------
(* Types *)

HandleType == [refed : BOOLEAN, exited : BOOLEAN, known : BOOLEAN]
PipeType == [sent : 0..MaxData, read : 0..MaxData, open : BOOLEAN]

\* TypeOK with its record types named.
TypeParts ==
  /\ vm \in {"js", "loop", "left"} /\ ops \in Int /\ calls \in 0..MaxCalls
  /\ tickQ \in Seq(TickType)
  /\ os \in [Children -> {"none", "failed", "running", "exited"}]
  /\ handle \in [Children -> HandleType]
  /\ pipe \in [Pipes -> PipeType]
  /\ pump \in [Pipes -> {"off", "read", "ended", "done"}]
  /\ waiter \in [Children -> {"off", "pumps", "wait", "mark", "release", "forget", "done"}]
  /\ stream \in [Pipes -> StreamType]
  /\ seen \in [Children -> Seq(EventType)]

\* TypeParts says what TypeOK says.
LEMMA TypeFold == TypeOK <=> TypeParts
BY DEF TypeOK, TypeParts, TickType, StreamType, EventType, HandleType, PipeType

\* A handle, a pipe and a stream keep their types when a field is assigned.
LEMMA HandleTypes ==
  ASSUME NEW h \in HandleType, NEW b \in BOOLEAN
  PROVE  /\ [h EXCEPT !.refed = b] \in HandleType
         /\ [h EXCEPT !.exited = b] \in HandleType
         /\ [h EXCEPT !.known = b] \in HandleType
BY DEF HandleType

\* The same of a pipe.
LEMMA PipeTypes ==
  ASSUME NEW h \in PipeType
  PROVE  /\ \A b \in BOOLEAN : [h EXCEPT !.open = b] \in PipeType
         /\ \A n \in 0..MaxData : /\ [h EXCEPT !.sent = n] \in PipeType
                                 /\ [h EXCEPT !.read = n] \in PipeType
BY DEF PipeType

\* The same of a stream.
LEMMA StreamTypes ==
  ASSUME NEW st \in StreamType, NEW b \in BOOLEAN
  PROVE  /\ [st EXCEPT !.resumed = b] \in StreamType
         /\ [st EXCEPT !.listening = b] \in StreamType
         /\ [st EXCEPT !.ended = b] \in StreamType
         /\ \A n \in Nat : [st EXCEPT !.chunks = Append(@, n)] \in StreamType
<1>1. \A n \in Nat : Append(st.chunks, n) \in Seq(Nat)
  BY DEF StreamType
<1>2. QED BY <1>1 DEF StreamType

\* Every step keeps the types; a tick for the child is of a kind that is
\* emitted.
LEMMA StepTypes ==
  ASSUME TypeOK, TicksOK, [Next]_vars
  PROVE  TypeOK'
<1>0. TypeParts
  BY TypeFold
<1> SUFFICES TypeParts'
  BY DEF TypeOK, TypeParts, TickType, StreamType, EventType, HandleType, PipeType
<1> USE ChildAssumption
<1>1. ASSUME NEW c \in Children, SpawnStarts(c) PROVE TypeParts'
  <2>1. [refed |-> TRUE, exited |-> FALSE, known |-> TRUE] \in HandleType
    BY DEF HandleType
  <2>2. \A p \in Pipes : [pipe[p] EXCEPT !.open = TRUE] \in PipeType
    BY <1>0, PipeTypes DEF TypeParts
  <2>3. pipe' \in [Pipes -> PipeType]
    BY <1>0, <1>1, <2>2 DEF SpawnStarts, TypeParts
  <2>4. handle' \in [Children -> HandleType]
    BY <1>0, <1>1, <2>1 DEF SpawnStarts, TypeParts
  <2>5. QED BY <1>0, <1>1, <2>3, <2>4 DEF SpawnStarts, TypeParts
<1>2. ASSUME NEW c \in Children, SpawnFails(c) PROVE TypeParts'
  <2>1. Tick(c, "error", "none", 0) \in TickType /\ Tick(c, "close", "none", 0) \in TickType
    BY DEF Tick, TickType
  <2>2. QED BY <1>0, <1>2, <2>1 DEF SpawnFails, TypeParts, processes, HandleType
<1>3. ASSUME NEW c \in Children, Unref(c) PROVE TypeParts'
  <2>1. [handle[c] EXCEPT !.refed = FALSE] \in HandleType
    BY <1>0, HandleTypes DEF TypeParts
  <2>2. handle' \in [Children -> HandleType]
    BY <1>0, <1>3, <2>1 DEF Unref, TypeParts
  <2>3. QED BY <1>0, <1>3, <2>2 DEF Unref, Called, TypeParts, processes
<1>4. ASSUME NEW c \in Children, Ref(c) PROVE TypeParts'
  <2>1. [handle[c] EXCEPT !.refed = TRUE] \in HandleType
    BY <1>0, HandleTypes DEF TypeParts
  <2>2. handle' \in [Children -> HandleType]
    BY <1>0, <1>4, <2>1 DEF Ref, TypeParts
  <2>3. QED BY <1>0, <1>4, <2>2 DEF Ref, Called, TypeParts, processes
<1>5. ASSUME NEW c \in Children, Exits(c) PROVE TypeParts'
  BY <1>0, <1>5 DEF Exits, TypeParts
<1>6. ASSUME NEW c \in Children, PumpsWaited(c) PROVE TypeParts'
  BY <1>0, <1>6 DEF PumpsWaited, TypeParts, processes
<1>7. ASSUME NEW c \in Children, Reaps(c) PROVE TypeParts'
  <2>1. Tick(c, "error", "none", 0) \in TickType /\ Tick(c, "exit", "none", 0) \in TickType
    BY DEF Tick, TickType
  <2>2. tickQ' \in Seq(TickType)
    BY <1>0, <1>7, <2>1 DEF Reaps, TypeParts
  <2>3. QED BY <1>0, <1>7, <2>2 DEF Reaps, TypeParts, processes
<1>8. ASSUME NEW c \in Children, Marks(c) PROVE TypeParts'
  BY <1>0, <1>8, HandleTypes DEF Marks, TypeParts, processes
<1>9. ASSUME NEW c \in Children, Releases(c) PROVE TypeParts'
  BY <1>0, <1>9 DEF Releases, TypeParts, processes
<1>10. ASSUME NEW c \in Children, Forgets(c) PROVE TypeParts'
  BY <1>0, <1>10, HandleTypes DEF Forgets, TypeParts, processes
<1>11. ASSUME NEW p \in Pipes, Listen(p) PROVE TypeParts'
  <2>1. Tick(p[1], "flush", p[2], 0) \in TickType
    BY PipeFacts DEF Tick, TickType
  <2>2. tickQ' \in Seq(TickType)
    BY <1>0, <1>11, <2>1 DEF Listen, TypeParts
  <2>3. [stream[p] EXCEPT !.listening = TRUE] \in StreamType
    BY <1>0, StreamTypes DEF TypeParts
  <2>4. stream' \in [Pipes -> StreamType]
    BY <1>0, <1>11, <2>3 DEF Listen, TypeParts
  <2>5. QED BY <1>0, <1>11, <2>2, <2>4 DEF Listen, Called, TypeParts, processes
<1>12. ASSUME NEW p \in Pipes, Resume(p) PROVE TypeParts'
  <2> DEFINE st == [stream[p] EXCEPT !.resumed = TRUE]
  <2>1. st \in StreamType
    BY <1>0, StreamTypes DEF TypeParts
  <2>2. Flushed(st) \in StreamType /\ Emitted(p, st) \in Seq(EventType) /\ p[1] \in Children
    BY <2>1, FlushShape, PipeFacts
  <2>3. seen[p[1]] \o Emitted(p, st) \in Seq(EventType)
    BY <1>0, <2>2, ConcatAt DEF TypeParts
  <2>4. stream' \in [Pipes -> StreamType] /\ seen' \in [Children -> Seq(EventType)]
    BY <1>0, <1>12, <2>2, <2>3 DEF Resume, Flush, TypeParts
  <2>5. QED BY <1>0, <1>12, <2>4 DEF Resume, Called, TypeParts, processes
<1>13. ASSUME NEW p \in Pipes, Pause(p) PROVE TypeParts'
  <2>1. [stream[p] EXCEPT !.resumed = FALSE] \in StreamType
    BY <1>0, StreamTypes DEF TypeParts
  <2>2. stream' \in [Pipes -> StreamType]
    BY <1>0, <1>13, <2>1 DEF Pause, TypeParts
  <2>3. QED BY <1>0, <1>13, <2>2 DEF Pause, Called, TypeParts, processes
<1>14. ASSUME NEW p \in Pipes, Writes(p) PROVE TypeParts'
  <2>1. pipe[p] \in PipeType /\ pipe[p].sent + 1 \in 0..MaxData
    BY <1>0, <1>14 DEF Writes, TypeParts, PipeType
  <2>2. QED BY <1>0, <1>14, <2>1, PipeTypes DEF Writes, TypeParts
<1>15. ASSUME NEW p \in Pipes, Closes(p) PROVE TypeParts'
  <2>1. [pipe[p] EXCEPT !.open = FALSE] \in PipeType
    BY <1>0, PipeTypes DEF TypeParts
  <2>2. pipe' \in [Pipes -> PipeType]
    BY <1>0, <1>15, <2>1 DEF Closes, TypeParts
  <2>3. QED BY <1>0, <1>15, <2>2 DEF Closes, TypeParts
<1>16. ASSUME NEW p \in Pipes, PumpReads(p) PROVE TypeParts'
  <2>1. Tick(p[1], "data", p[2], pipe[p].read + 1) \in TickType
    BY <1>0, PipeFacts DEF Tick, TickType, TypeParts, PipeType
  <2>2. tickQ' \in Seq(TickType)
    BY <1>0, <1>16, <2>1 DEF PumpReads, TypeParts
  <2>3. pipe[p] \in PipeType /\ pipe[p].read + 1 \in 0..MaxData
    BY <1>0, <1>16 DEF PumpReads, TypeParts, PipeType
  <2>4. QED BY <1>0, <1>16, <2>2, <2>3, PipeTypes DEF PumpReads, TypeParts
<1>17. ASSUME NEW p \in Pipes, PumpEnds(p) PROVE TypeParts'
  <2>1. Tick(p[1], "end", p[2], 0) \in TickType
    BY PipeFacts DEF Tick, TickType
  <2>2. tickQ' \in Seq(TickType)
    BY <1>0, <1>17, <2>1 DEF PumpEnds, TypeParts
  <2>3. QED BY <1>0, <1>17, <2>2 DEF PumpEnds, TypeParts, processes
<1>18. ASSUME NEW p \in Pipes, PumpDone(p) PROVE TypeParts'
  BY <1>0, <1>18 DEF PumpDone, TypeParts, processes
<1>19. ASSUME RunTick PROVE TypeParts'
  <2> DEFINE t == Head(tickQ)  p == <<t.c, t.s>>
  <2>1. t \in TickType /\ TickOK(t) /\ Tail(tickQ) \in Seq(TickType)
    BY <1>0, <1>19 DEF RunTick, TypeParts, TicksOK
  <2>2. stream' \in [Pipes -> StreamType] /\ seen' \in [Children -> Seq(EventType)]
    <3>1. CASE p \in Pipes
      <4> DEFINE st == Received(stream[p], t)
      <4>1. stream[p] \in StreamType /\ t.n \in Nat
        BY <1>0, <2>1, <3>1 DEF TypeParts, TickType
      <4>2. st \in StreamType
        BY <4>1, StreamTypes DEF Received
      <4>3. Flushed(st) \in StreamType /\ Emitted(p, st) \in Seq(EventType) /\ p[1] \in Children
        BY <3>1, <4>2, FlushShape, PipeFacts
      <4>4. seen[p[1]] \o Emitted(p, st) \in Seq(EventType)
        BY <1>0, <4>3, ConcatAt DEF TypeParts
      <4>5. /\ stream' = [stream EXCEPT ![p] = Flushed(st)]
            /\ seen' = [seen EXCEPT ![p[1]] = seen[p[1]] \o Emitted(p, st)]
        BY <1>19, <3>1 DEF RunTick, Flush
      <4>6. QED BY <1>0, <4>3, <4>4, <4>5 DEF TypeParts
    <3>2. CASE p \notin Pipes
      <4> DEFINE es == IF t.kind = "exit"
                         THEN <<Event("exit", "none", 0), Event("close", "none", 0)>>
                         ELSE <<Event(t.kind, "none", 0)>>
      <4>1. t.kind \in {"error", "close", "exit"} /\ t.c \in Children
        BY <2>1, <3>2 DEF TickOK, TickType
      <4>2. es \in Seq(EventType)
        <5>1. Event("exit", "none", 0) \in EventType /\ Event("close", "none", 0) \in EventType
              /\ Event(t.kind, "none", 0) \in EventType
          BY <4>1 DEF Event, EventType
        <5>2. QED BY <5>1
      <4>3. seen[t.c] \o es \in Seq(EventType)
        BY <1>0, <4>1, <4>2, ConcatAt DEF TypeParts
      <4>4. stream' = stream /\ seen' = [seen EXCEPT ![t.c] = seen[t.c] \o es]
        BY <1>19, <3>2 DEF RunTick
      <4>5. QED BY <1>0, <4>1, <4>3, <4>4 DEF TypeParts
    <3>3. QED BY <3>1, <3>2
  <2>3. QED BY <1>0, <1>19, <2>1, <2>2 DEF RunTick, TypeParts, processes
<1>20. ASSUME Return \/ Leave \/ UNCHANGED vars PROVE TypeParts'
  BY <1>0, <1>20 DEF Return, Leave, vars, TypeParts, processes
<1>21. QED
  BY <1>1, <1>2, <1>3, <1>4, <1>5, <1>6, <1>7, <1>8, <1>9, <1>10, <1>11, <1>12, <1>13, <1>14,
     <1>15, <1>16, <1>17, <1>18, <1>19, <1>20 DEF Next

-----------------------------------------------------------------------------
(* Handles, pumps and the end of the loop *)

\* Every step keeps what is said of one child: the handle and its waiter, the
\* waiter and its pumps, and that nothing is begun once the loop is left.
LEMMA StepHandles ==
  ASSUME IInv, [Next]_vars
  PROVE  HandleOK' /\ PumpOK' /\ LeftOK'
<1>0. TypeParts /\ HandleOK /\ PumpOK /\ LeftOK
  BY TypeFold DEF IInv
<1> USE PipeFacts DEF TypeParts, HandleType, PipeType, Alive
<1> SUFFICES HandleOK' /\ PumpOK' /\ LeftOK'
  OBVIOUS
<1>1. ASSUME NEW c \in Children, SpawnStarts(c) PROVE HandleOK' /\ PumpOK' /\ LeftOK'
  <2>1. HandleOK'
    BY <1>0, <1>1 DEF SpawnStarts, HandleOK, processes
  <2>2. PumpOK'
    BY <1>0, <1>1 DEF SpawnStarts, HandleOK, PumpOK, processes, Of
  <2>3. LeftOK'
    BY <1>0, <1>1 DEF SpawnStarts, HandleOK, LeftOK, processes
  <2>4. QED BY <2>1, <2>2, <2>3
<1>2. ASSUME NEW c \in Children, SpawnFails(c) PROVE HandleOK' /\ PumpOK' /\ LeftOK'
  <2>1. HandleOK'
    BY <1>0, <1>2 DEF SpawnFails, HandleOK, processes
  <2>2. PumpOK'
    BY <1>0, <1>2 DEF SpawnFails, HandleOK, PumpOK, processes, Of
  <2>3. LeftOK'
    BY <1>0, <1>2 DEF SpawnFails, HandleOK, LeftOK, processes
  <2>4. QED BY <2>1, <2>2, <2>3
<1>3. ASSUME NEW c \in Children, Unref(c) PROVE HandleOK' /\ PumpOK' /\ LeftOK'
  <2>1. HandleOK'
    BY <1>0, <1>3 DEF Unref, Called, Reffable, HandleOK, processes
  <2>2. PumpOK'
    BY <1>0, <1>3 DEF Unref, Called, HandleOK, PumpOK, processes, Of
  <2>3. LeftOK'
    BY <1>0, <1>3 DEF Unref, Called, HandleOK, LeftOK, processes
  <2>4. QED BY <2>1, <2>2, <2>3
<1>4. ASSUME NEW c \in Children, Ref(c) PROVE HandleOK' /\ PumpOK' /\ LeftOK'
  <2>1. HandleOK'
    BY <1>0, <1>4 DEF Ref, Called, HandleOK, processes
  <2>2. PumpOK'
    BY <1>0, <1>4 DEF Ref, Called, HandleOK, PumpOK, processes, Of
  <2>3. LeftOK'
    BY <1>0, <1>4 DEF Ref, Called, HandleOK, LeftOK, processes
  <2>4. QED BY <2>1, <2>2, <2>3
<1>5. ASSUME NEW c \in Children, Exits(c) PROVE HandleOK' /\ PumpOK' /\ LeftOK'
  <2>1. HandleOK'
    BY <1>0, <1>5 DEF Exits, HandleOK, processes
  <2>2. PumpOK'
    BY <1>0, <1>5 DEF Exits, HandleOK, PumpOK, processes, Of
  <2>3. LeftOK'
    BY <1>0, <1>5 DEF Exits, HandleOK, LeftOK, processes
  <2>4. QED BY <2>1, <2>2, <2>3
<1>6. ASSUME NEW c \in Children, PumpsWaited(c) PROVE HandleOK' /\ PumpOK' /\ LeftOK'
  <2>1. HandleOK'
    BY <1>0, <1>6 DEF PumpsWaited, HandleOK, processes
  <2>2. PumpOK'
    BY <1>0, <1>6 DEF PumpsWaited, HandleOK, PumpOK, processes, Of
  <2>3. LeftOK'
    BY <1>0, <1>6 DEF PumpsWaited, HandleOK, LeftOK, processes
  <2>4. QED BY <2>1, <2>2, <2>3
<1>7. ASSUME NEW c \in Children, Reaps(c) PROVE HandleOK' /\ PumpOK' /\ LeftOK'
  <2>1. HandleOK'
    BY <1>0, <1>7 DEF Reaps, HandleOK, processes
  <2>2. PumpOK'
    BY <1>0, <1>7 DEF Reaps, HandleOK, PumpOK, processes, Of
  <2>3. LeftOK'
    BY <1>0, <1>7 DEF Reaps, HandleOK, LeftOK, processes
  <2>4. QED BY <2>1, <2>2, <2>3
<1>8. ASSUME NEW c \in Children, Marks(c) PROVE HandleOK' /\ PumpOK' /\ LeftOK'
  <2>1. HandleOK'
    BY <1>0, <1>8 DEF Marks, HandleOK, processes
  <2>2. PumpOK'
    BY <1>0, <1>8 DEF Marks, HandleOK, PumpOK, processes, Of
  <2>3. LeftOK'
    BY <1>0, <1>8 DEF Marks, HandleOK, LeftOK, processes
  <2>4. QED BY <2>1, <2>2, <2>3
<1>9. ASSUME NEW c \in Children, Releases(c) PROVE HandleOK' /\ PumpOK' /\ LeftOK'
  <2>1. HandleOK'
    BY <1>0, <1>9 DEF Releases, HandleOK, processes
  <2>2. PumpOK'
    BY <1>0, <1>9 DEF Releases, HandleOK, PumpOK, processes, Of
  <2>3. LeftOK'
    BY <1>0, <1>9 DEF Releases, HandleOK, LeftOK, processes
  <2>4. QED BY <2>1, <2>2, <2>3
<1>10. ASSUME NEW c \in Children, Forgets(c) PROVE HandleOK' /\ PumpOK' /\ LeftOK'
  <2>1. HandleOK'
    BY <1>0, <1>10 DEF Forgets, HandleOK, processes
  <2>2. PumpOK'
    BY <1>0, <1>10 DEF Forgets, HandleOK, PumpOK, processes, Of
  <2>3. LeftOK'
    BY <1>0, <1>10 DEF Forgets, HandleOK, LeftOK, processes
  <2>4. QED BY <2>1, <2>2, <2>3
<1>11. ASSUME NEW p \in Pipes, Listen(p) PROVE HandleOK' /\ PumpOK' /\ LeftOK'
  <2>1. HandleOK' /\ LeftOK'
    BY <1>0, <1>11 DEF Listen, Called, HandleOK, LeftOK, processes
  <2>2. PumpOK'
    BY <1>0, <1>11 DEF Listen, Called, PumpOK, processes
  <2>3. QED BY <2>1, <2>2
<1>12. ASSUME NEW p \in Pipes, Resume(p) PROVE HandleOK' /\ PumpOK' /\ LeftOK'
  <2>1. HandleOK' /\ LeftOK'
    BY <1>0, <1>12 DEF Resume, Called, HandleOK, LeftOK, processes
  <2>2. PumpOK'
    BY <1>0, <1>12 DEF Resume, Called, PumpOK, processes
  <2>3. QED BY <2>1, <2>2
<1>13. ASSUME NEW p \in Pipes, Pause(p) PROVE HandleOK' /\ PumpOK' /\ LeftOK'
  <2>1. HandleOK' /\ LeftOK'
    BY <1>0, <1>13 DEF Pause, Called, HandleOK, LeftOK, processes
  <2>2. PumpOK'
    BY <1>0, <1>13 DEF Pause, Called, PumpOK, processes
  <2>3. QED BY <2>1, <2>2
<1>14. ASSUME NEW p \in Pipes, Writes(p) PROVE HandleOK' /\ PumpOK' /\ LeftOK'
  <2>1. HandleOK' /\ LeftOK'
    BY <1>0, <1>14 DEF Writes, HandleOK, LeftOK, processes
  <2>2. PumpOK'
    BY <1>0, <1>14 DEF Writes, PumpOK, processes
  <2>3. QED BY <2>1, <2>2
<1>15. ASSUME NEW p \in Pipes, Closes(p) PROVE HandleOK' /\ PumpOK' /\ LeftOK'
  <2>1. HandleOK' /\ LeftOK'
    BY <1>0, <1>15 DEF Closes, HandleOK, LeftOK, processes
  <2>2. PumpOK'
    BY <1>0, <1>15 DEF Closes, PumpOK, processes
  <2>3. QED BY <2>1, <2>2
<1>16. ASSUME NEW p \in Pipes, PumpReads(p) PROVE HandleOK' /\ PumpOK' /\ LeftOK'
  <2>1. HandleOK' /\ LeftOK'
    BY <1>0, <1>16 DEF PumpReads, HandleOK, LeftOK, processes
  <2>2. PumpOK'
    BY <1>0, <1>16 DEF PumpReads, PumpOK, processes
  <2>3. QED BY <2>1, <2>2
<1>17. ASSUME NEW p \in Pipes, PumpEnds(p) PROVE HandleOK' /\ PumpOK' /\ LeftOK'
  <2>1. HandleOK' /\ LeftOK'
    BY <1>0, <1>17 DEF PumpEnds, HandleOK, LeftOK, processes
  <2>2. PumpOK'
    BY <1>0, <1>17 DEF PumpEnds, PumpOK, processes
  <2>3. QED BY <2>1, <2>2
<1>18. ASSUME NEW p \in Pipes, PumpDone(p) PROVE HandleOK' /\ PumpOK' /\ LeftOK'
  <2>1. HandleOK' /\ LeftOK'
    BY <1>0, <1>18 DEF PumpDone, HandleOK, LeftOK, processes
  <2>2. PumpOK'
    BY <1>0, <1>18 DEF PumpDone, PumpOK, processes
  <2>3. QED BY <2>1, <2>2
<1>19. ASSUME RunTick \/ Return \/ Leave \/ UNCHANGED vars PROVE HandleOK' /\ PumpOK' /\ LeftOK'
  <2>1. UNCHANGED <<handle, os, pipe, pump, waiter>>
    BY <1>19 DEF RunTick, Return, Leave, vars, processes
  <2>2. HandleOK' /\ PumpOK'
    BY <1>0, <2>1 DEF HandleOK, PumpOK
  <2>3. LeftOK'
    BY <1>0, <1>19 DEF RunTick, Return, Leave, vars, LeftOK
  <2>4. QED BY <2>2, <2>3
<1>20. QED
  BY <1>1, <1>2, <1>3, <1>4, <1>5, <1>6, <1>7, <1>8, <1>9, <1>10, <1>11, <1>12, <1>13, <1>14, <1>15, <1>16, <1>17, <1>18, <1>19 DEF Next

-----------------------------------------------------------------------------
(* The count of external ops *)

Holders == {c \in Children : Holds(c)}

\* The children that hold the loop can be counted.
LEMMA HoldersFinite == IsFiniteSet(Holders) /\ Cardinality(Holders) \in Nat
BY ChildAssumption, FS_Subset, FS_CardinalityType DEF Holders

\* No program calls ref() or unref() on a child that failed to start.
LEMMA StepOps ==
  ASSUME ~UnrefFailed, IInv, OpsBalanced, [Next]_vars
  PROVE  OpsBalanced'
<1>0. TypeParts /\ HandleOK
  BY TypeFold DEF IInv
<1> SUFFICES ops' = Cardinality(Holders')
  BY DEF OpsBalanced, Holders
<1>a. ops = Cardinality(Holders) /\ IsFiniteSet(Holders) /\ Cardinality(Holders) \in Nat
  BY HoldersFinite DEF OpsBalanced, Holders
<1>b. ASSUME ops' = ops, \A d \in Children : Holds(d)' <=> Holds(d)
      PROVE  ops' = Cardinality(Holders')
  <2>1. Holders' = Holders
    BY <1>b DEF Holders
  <2>2. QED BY <1>a, <1>b, <2>1
<1>c. ASSUME NEW c \in Children, ops' = ops + 1, ~Holds(c), Holds(c)',
             \A d \in Children : d # c => (Holds(d)' <=> Holds(d))
      PROVE  ops' = Cardinality(Holders')
  <2>1. Holders' = Holders \cup {c} /\ c \notin Holders
    BY <1>c DEF Holders
  <2>2. QED BY <1>a, <1>c, <2>1, FS_AddElement
<1>d. ASSUME NEW c \in Children, ops' = ops - 1, Holds(c), ~Holds(c)',
             \A d \in Children : d # c => (Holds(d)' <=> Holds(d))
      PROVE  ops' = Cardinality(Holders')
  <2>1. Holders' = Holders \ {c} /\ c \in Holders
    BY <1>d DEF Holders
  <2>2. QED BY <1>a, <1>d, <2>1, FS_RemoveElement
<1> DEFINE Goal == ops' = Cardinality(Holders')
<1>1. ASSUME NEW c \in Children, SpawnStarts(c) PROVE Goal
  <2>1. ops' = ops + 1 /\ ~Holds(c) /\ Holds(c)'
    BY <1>0, <1>1 DEF SpawnStarts, Holds, HandleOK, TypeParts
  <2>2. \A d \in Children : d # c => (Holds(d)' <=> Holds(d))
    BY <1>0, <1>1 DEF SpawnStarts, Holds, TypeParts
  <2>3. QED BY <1>c, <2>1, <2>2
<1>2. ASSUME NEW c \in Children, SpawnFails(c) PROVE Goal
  <2>1. ops' = ops /\ \A d \in Children : Holds(d)' <=> Holds(d)
    BY <1>0, <1>2 DEF SpawnFails, Holds, HandleOK, TypeParts
  <2>2. QED BY <1>b, <2>1
<1>3. ASSUME NEW c \in Children, Unref(c) PROVE Goal
  <2>1. waiter[c] \in {"pumps", "wait", "mark"}
    BY <1>0, <1>3 DEF Unref, Reffable, HandleOK, TypeParts
  <2>2. ops' = ops - 1 /\ Holds(c) /\ ~Holds(c)'
    BY <1>0, <1>3, <2>1 DEF Unref, Holds, TypeParts, HandleType
  <2>3. \A d \in Children : d # c => (Holds(d)' <=> Holds(d))
    BY <1>0, <1>3 DEF Unref, Holds, TypeParts
  <2>4. QED BY <1>d, <2>2, <2>3
<1>4. ASSUME NEW c \in Children, Ref(c) PROVE Goal
  <2>1. waiter[c] \in {"pumps", "wait", "mark"}
    BY <1>0, <1>4 DEF Ref, Reffable, HandleOK, TypeParts
  <2>2. ops' = ops + 1 /\ ~Holds(c) /\ Holds(c)'
    BY <1>0, <1>4, <2>1 DEF Ref, Holds, TypeParts, HandleType
  <2>3. \A d \in Children : d # c => (Holds(d)' <=> Holds(d))
    BY <1>0, <1>4 DEF Ref, Holds, TypeParts
  <2>4. QED BY <1>c, <2>2, <2>3
<1>5. ASSUME NEW c \in Children, PumpsWaited(c) \/ Reaps(c) PROVE Goal
  <2>1. ops' = ops /\ \A d \in Children : Holds(d)' <=> Holds(d)
    BY <1>0, <1>5 DEF PumpsWaited, Reaps, Holds, TypeParts
  <2>2. QED BY <1>b, <2>1
<1>6. ASSUME NEW c \in Children, Marks(c) PROVE Goal
  <2>1. ops' = ops /\ \A d \in Children : Holds(d)' <=> Holds(d)
    BY <1>0, <1>6 DEF Marks, Holds, TypeParts, HandleType
  <2>2. QED BY <1>b, <2>1
<1>7. ASSUME NEW c \in Children, Releases(c) PROVE Goal
  <2>1. ops' = ops - 1 /\ Holds(c) /\ ~Holds(c)'
    BY <1>0, <1>7 DEF Releases, Holds, TypeParts
  <2>2. \A d \in Children : d # c => (Holds(d)' <=> Holds(d))
    BY <1>0, <1>7 DEF Releases, Holds, TypeParts
  <2>3. QED BY <1>d, <2>1, <2>2
<1>8. ASSUME NEW c \in Children, Forgets(c) PROVE Goal
  <2>1. ops' = ops /\ \A d \in Children : Holds(d)' <=> Holds(d)
    BY <1>0, <1>8 DEF Forgets, Holds, TypeParts, HandleType
  <2>2. QED BY <1>b, <2>1
<1>9. ASSUME UNCHANGED <<ops, waiter, handle>> PROVE Goal
  <2>1. ops' = ops /\ \A d \in Children : Holds(d)' <=> Holds(d)
    BY <1>9 DEF Holds
  <2>2. QED BY <1>b, <2>1
<1>10. QED
  BY <1>1, <1>2, <1>3, <1>4, <1>5, <1>6, <1>7, <1>8, <1>9
  DEF Next, vars, processes, Exits, Listen, Resume, Pause, Writes, Closes, PumpReads, PumpEnds,
      PumpDone, RunTick, Return, Leave

-----------------------------------------------------------------------------
(* The queue and what is emitted *)

\* What is emitted on a child joins what was.
LEMMA HasAdded ==
  ASSUME TypeParts, NEW c \in Children, NEW es \in Seq(EventType),
         seen' = [seen EXCEPT ![c] = seen[c] \o es]
  PROVE  \A d \in Children : Has(d, "exit")' <=> Has(d, "exit") \/ (d = c /\ KindIn(es, "exit"))
<1>1. \A d \in Children : (Has(d, "exit") <=> KindIn(seen[d], "exit"))
                          /\ (Has(d, "exit")' <=> KindIn(seen'[d], "exit"))
  BY DEF Has, KindIn
<1>2. \A d \in Children : seen'[d] = IF d = c THEN seen[c] \o es ELSE seen[d]
  BY DEF TypeParts
<1>3. KindIn(seen[c] \o es, "exit") <=> KindIn(seen[c], "exit") \/ KindIn(es, "exit")
  BY KindConcat DEF TypeParts
<1>4. QED BY <1>1, <1>2, <1>3

\* The tick that runs is the first, and it is no longer queued.
LEMMA TickTaken ==
  ASSUME TypeParts, tickQ # <<>>, tickQ' = Tail(tickQ)
  PROVE  /\ Head(tickQ) = tickQ[1] /\ 1 \in 1..Len(tickQ) /\ Head(tickQ) \in TickType
         /\ \A i \in 1..Len(tickQ') : i + 1 \in 1..Len(tickQ) /\ tickQ'[i] = tickQ[i + 1]
         /\ \A i \in 1..Len(tickQ) : i = 1 \/ (i - 1 \in 1..Len(tickQ') /\ tickQ'[i - 1] = tickQ[i])
<1>1. tickQ \in Seq(TickType)
  BY DEF TypeParts
<1>2. QED BY <1>1

\* Those whose "exit" was queued.
Waited(c) == waiter[c] \in {"mark", "release", "forget", "done"}

\* Every step keeps the order of the queue, and an "exit" queued is one emitted
\* in the end.
LEMMA StepTicks ==
  ASSUME IInv, [Next]_vars
  PROVE  TicksOK' /\ ExitLast' /\ ExitKept'
<1>0. TypeParts /\ TypeOK /\ HandleOK /\ TicksOK /\ ExitKept /\ PumpOK /\ ExitLast
  BY TypeFold DEF IInv
<1> DEFINE Goal == TicksOK' /\ ExitLast' /\ ExitKept'
<1>a. ASSUME UNCHANGED <<tickQ, seen>>, \A d \in Children : Waited(d)' <=> Waited(d) PROVE Goal
  <2>1. TicksOK'
    BY <1>0, <1>a DEF TicksOK, TickOK
  <2>2. \A d \in Children : (Has(d, "exit")' <=> Has(d, "exit")) /\ (Exiting(d)' <=> Exiting(d))
    BY <1>a DEF Has, Exiting
  <2>3. ExitLast'
    BY <1>0, <1>a, <2>2 DEF ExitLast, Quiet
  <2>4. ExitKept'
    BY <1>0, <1>a, <2>2 DEF ExitKept, Waited
  <2>5. QED BY <2>1, <2>3, <2>4
<1>b. ASSUME NEW r \in Seq(TickType), tickQ' = tickQ \o r, seen' = seen,
             \A i \in 1..Len(r) : TickOK(r[i]),
             \A i \in 1..Len(r) : \A d \in Children : Waited(d) => Quiet(d, r[i]),
             \A i, k \in 1..Len(r) : i < k /\ r[i].kind = "exit" => Quiet(r[i].c, r[k]),
             \A d \in Children : Waited(d)' <=> Waited(d)
                                  \/ \E i \in 1..Len(r) : r[i].c = d /\ r[i].kind = "exit"
      PROVE  Goal
  <2>1. \A i \in 1..Len(r) : \A c \in Children : Has(c, "exit") \/ Exiting(c) => Quiet(c, r[i])
    BY <1>0, <1>b DEF ExitKept, Waited
  <2>2. /\ TicksOK' /\ ExitLast'
        /\ \A c \in Children : Exiting(c)' <=>
             Exiting(c) \/ \E i \in 1..Len(r) : r[i].c = c /\ r[i].kind = "exit"
        /\ \A c \in Children : Has(c, "exit")' <=> Has(c, "exit")
    BY <1>0, <1>b, <2>1, TicksAdded
  <2>3. ExitKept'
    BY <1>0, <1>b, <2>2 DEF ExitKept, Waited
  <2>4. QED BY <2>2, <2>3
<1>c. ASSUME NEW t \in TickType, tickQ' = Append(tickQ, t), seen' = seen, TickOK(t),
             t.kind # "exit", \A d \in Children : Waited(d) => Quiet(d, t),
             \A d \in Children : Waited(d)' <=> Waited(d)
      PROVE  Goal
  <2> DEFINE r == <<t>>
  <2>1. r \in Seq(TickType) /\ tickQ' = tickQ \o r
    BY <1>0, <1>c, AppendIsConcat DEF TypeParts
  <2>2. Len(r) = 1 /\ r[1] = t
    OBVIOUS
  <2> HIDE DEF r
  <2>3. \A i \in 1..Len(r) : r[i] = t
    BY <2>2
  <2>4. \A i \in 1..Len(r) : \A d \in Children : Waited(d) => Quiet(d, r[i])
    BY <1>c, <2>3
  <2>5. \A i \in 1..Len(r) : TickOK(r[i]) /\ r[i].kind # "exit"
    BY <1>c, <2>3
  <2>6. QED BY <1>b, <1>c, <2>1, <2>4, <2>5
<1>1. ASSUME NEW c \in Children, SpawnFails(c) PROVE Goal
  <2> DEFINE r == <<Tick(c, "error", "none", 0), Tick(c, "close", "none", 0)>>
  <2>1. r \in Seq(TickType) /\ Len(r) = 2
    BY DEF Tick, TickType
  <2>2. \A i \in 1..2 : r[i].s = "none" /\ r[i].kind \in {"error", "close"}
    BY DEF Tick
  <2>3. tickQ' = tickQ \o r /\ seen' = seen /\ waiter' = waiter
    BY <1>1 DEF SpawnFails
  <2> HIDE DEF r
  <2>4. \A i \in 1..Len(r) : TickOK(r[i]) /\ (\A d \in Children : Quiet(d, r[i])) /\ r[i].kind # "exit"
    BY <2>1, <2>2 DEF TickOK, Quiet
  <2>5. QED BY <1>b, <2>1, <2>3, <2>4 DEF Waited
<1>2. ASSUME NEW c \in Children, Reaps(c) PROVE Goal
  <2> DEFINE e == Tick(c, "error", "none", 0)
             x == Tick(c, "exit", "none", 0)
  <2>1. e \in TickType /\ x \in TickType /\ e.kind = "error" /\ x.kind = "exit"
        /\ e.s = "none" /\ x.s = "none" /\ e.c = c /\ x.c = c
    BY DEF Tick, TickType
  <2>2. PICK failed \in BOOLEAN : tickQ' = tickQ \o (IF failed THEN <<e>> ELSE <<>>) \o <<x>>
    BY <1>2 DEF Reaps
  <2> HIDE DEF e, x
  <2>3. seen' = seen /\ \A d \in Children : Waited(d)' <=> Waited(d) \/ d = c
    BY <1>0, <1>2 DEF Reaps, Waited, TypeParts
  <2>4. CASE failed
    <3> DEFINE r == <<e, x>>
    <3>a. r \in Seq(TickType) /\ Len(r) = 2 /\ r[1] = e /\ r[2] = x
      BY <2>1
    <3>b. tickQ \in Seq(TickType) /\ <<e>> \in Seq(TickType) /\ <<x>> \in Seq(TickType)
      BY <1>0, <2>1 DEF TypeParts
    <3>c. tickQ \o <<e>> \o <<x>> = tickQ \o r
      <4>1. (tickQ \o <<e>>) \o <<x>> = tickQ \o (<<e>> \o <<x>>)
        BY <3>b, ConcatAssociative
      <4>2. <<e>> \o <<x>> = r
        <5>1. <<e>> \o <<x>> \in Seq(TickType) /\ Len(<<e>> \o <<x>>) = 2
              /\ (<<e>> \o <<x>>)[1] = e /\ (<<e>> \o <<x>>)[2] = x
          BY <3>b, ConcatAt
        <5>2. \A i \in 1..2 : (<<e>> \o <<x>>)[i] = r[i]
          BY <3>a, <5>1
        <5> HIDE DEF r
        <5>3. QED BY <3>a, <5>1, <5>2, SeqEqual
      <4>3. QED BY <4>1, <4>2
    <3>1. r \in Seq(TickType) /\ Len(r) = 2 /\ r[1] = e /\ r[2] = x /\ tickQ' = tickQ \o r
      BY <2>2, <2>4, <3>a, <3>c
    <3> HIDE DEF r
    <3>2. \A i \in 1..Len(r) : i = 1 \/ i = 2
      BY <3>1
    <3>3. \A i \in 1..Len(r) : /\ TickOK(r[i]) /\ (\A d \in Children : Quiet(d, r[i]))
                              /\ r[i].c = c /\ (r[i].kind = "exit" <=> i = 2)
      BY <2>1, <3>1, <3>2 DEF TickOK, Quiet
    <3>4. \A d \in Children : Waited(d)' <=> Waited(d)
                              \/ \E i \in 1..Len(r) : r[i].c = d /\ r[i].kind = "exit"
      BY <2>3, <3>1, <3>3
    <3>5. \A i, k \in 1..Len(r) : i < k /\ r[i].kind = "exit" => Quiet(r[i].c, r[k])
      BY <3>3
    <3>6. QED BY <1>b, <2>3, <3>1, <3>3, <3>4, <3>5
  <2>5. CASE ~failed
    <3> DEFINE r == <<x>>
    <3>1. r \in Seq(TickType) /\ Len(r) = 1 /\ r[1] = x /\ tickQ' = tickQ \o r
      BY <1>0, <2>1, <2>2, <2>5 DEF TypeParts
    <3> HIDE DEF r
    <3>2. \A i \in 1..Len(r) : i = 1
      BY <3>1
    <3>3. \A i \in 1..Len(r) : /\ TickOK(r[i]) /\ (\A d \in Children : Quiet(d, r[i]))
                              /\ r[i].c = c /\ r[i].kind = "exit"
      BY <2>1, <3>1, <3>2 DEF TickOK, Quiet
    <3>4. \A d \in Children : Waited(d)' <=> Waited(d)
                              \/ \E i \in 1..Len(r) : r[i].c = d /\ r[i].kind = "exit"
      BY <2>3, <3>1, <3>3
    <3>5. QED BY <1>b, <2>3, <3>1, <3>2, <3>3, <3>4
  <2>6. QED BY <2>4, <2>5
<1>3. ASSUME NEW p \in Pipes, Listen(p) PROVE Goal
  <2> DEFINE t == Tick(p[1], "flush", p[2], 0)
  <2>1. t \in TickType /\ TickOK(t) /\ t.kind = "flush"
    BY PipeFacts DEF Tick, TickType, TickOK
  <2>2. tickQ' = Append(tickQ, t) /\ seen' = seen /\ waiter' = waiter
    BY <1>3 DEF Listen
  <2> HIDE DEF t
  <2>3. QED BY <1>c, <2>1, <2>2 DEF Quiet, Waited
<1>4. ASSUME NEW p \in Pipes, PumpReads(p) PROVE Goal
  <2> DEFINE t == Tick(p[1], "data", p[2], pipe[p].read + 1)
  <2>1. t \in TickType /\ TickOK(t) /\ t.kind = "data" /\ t.c = p[1]
    <3>1. pipe[p].read + 1 \in Nat
      BY <1>0 DEF TypeParts, PipeType
    <3>2. QED BY <3>1, PipeFacts DEF Tick, TickType, TickOK
  <2>2. tickQ' = Append(tickQ, t) /\ seen' = seen /\ waiter' = waiter /\ pump[p] = "read"
    BY <1>4 DEF PumpReads
  <2> HIDE DEF t
  <2>3. ~Waited(p[1])
    BY <1>0, <2>2 DEF PumpOK, Waited
  <2>4. QED BY <1>c, <2>1, <2>2, <2>3 DEF Quiet, Waited
<1>5. ASSUME NEW p \in Pipes, PumpEnds(p) PROVE Goal
  <2> DEFINE t == Tick(p[1], "end", p[2], 0)
  <2>1. t \in TickType /\ TickOK(t) /\ t.kind = "end" /\ t.c = p[1]
    BY PipeFacts DEF Tick, TickType, TickOK
  <2>2. tickQ' = Append(tickQ, t) /\ seen' = seen /\ waiter' = waiter /\ pump[p] = "read"
    BY <1>5 DEF PumpEnds
  <2> HIDE DEF t
  <2>3. ~Waited(p[1])
    BY <1>0, <2>2 DEF PumpOK, Waited
  <2>4. QED BY <1>c, <2>1, <2>2, <2>3 DEF Quiet, Waited
<1>6. ASSUME NEW p \in Pipes, Resume(p) PROVE Goal
  <2> DEFINE st == [stream[p] EXCEPT !.resumed = TRUE]
             es == Emitted(p, st)
  <2>1. st \in StreamType
    BY <1>0, StreamTypes DEF TypeParts
  <2>2. es \in Seq(EventType) /\ ~KindIn(es, "exit") /\ p[1] \in Children
    BY <2>1, FlushShape, PipeFacts
  <2>3. seen' = [seen EXCEPT ![p[1]] = seen[p[1]] \o es] /\ tickQ' = tickQ /\ waiter' = waiter
    BY <1>6 DEF Resume, Flush
  <2> HIDE DEF st, es
  <2>4. \A d \in Children : (Has(d, "exit")' <=> Has(d, "exit")) /\ (Exiting(d)' <=> Exiting(d))
    BY <1>0, <2>2, <2>3, HasAdded DEF Exiting
  <2>5. TicksOK'
    BY <1>0, <2>3 DEF TicksOK, TickOK
  <2>6. ExitLast'
    BY <1>0, <2>3, <2>4 DEF ExitLast, Quiet
  <2>7. ExitKept'
    BY <1>0, <2>3, <2>4 DEF ExitKept
  <2>8. QED BY <2>5, <2>6, <2>7
<1>7. ASSUME RunTick PROVE Goal
  <2> DEFINE t == Head(tickQ)  p == <<t.c, t.s>>
  <2>1. tickQ # <<>> /\ tickQ' = Tail(tickQ) /\ waiter' = waiter
    BY <1>7 DEF RunTick
  <2>2. /\ t = tickQ[1] /\ 1 \in 1..Len(tickQ) /\ t \in TickType
        /\ \A i \in 1..Len(tickQ') : i + 1 \in 1..Len(tickQ) /\ tickQ'[i] = tickQ[i + 1]
        /\ \A i \in 1..Len(tickQ) : i = 1 \/ (i - 1 \in 1..Len(tickQ') /\ tickQ'[i - 1] = tickQ[i])
    BY <1>0, <2>1, TickTaken
  <2>3. TickOK(t) /\ t.c \in Children
    BY <1>0, <2>2 DEF TicksOK, TickType
  <2>4. \A d \in Children : Has(d, "exit")' <=> Has(d, "exit") \/ (d = t.c /\ t.kind = "exit")
    <3>1. CASE p \in Pipes
      <4> DEFINE st == Received(stream[p], t)
                 es == Emitted(p, st)
      <4>1. stream[p] \in StreamType /\ t.n \in Nat
        BY <1>0, <2>2, <3>1 DEF TypeParts, TickType
      <4>2. st \in StreamType
        BY <4>1, StreamTypes DEF Received
      <4>3. es \in Seq(EventType) /\ ~KindIn(es, "exit") /\ p[1] \in Children /\ t.kind # "exit"
        BY <2>3, <3>1, <4>2, FlushShape, PipeFacts DEF TickOK
      <4>4. seen' = [seen EXCEPT ![p[1]] = seen[p[1]] \o es]
        BY <1>7, <3>1 DEF RunTick, Flush
      <4> HIDE DEF st, es, p
      <4>5. QED BY <1>0, <4>3, <4>4, HasAdded
    <3>2. CASE p \notin Pipes
      <4> DEFINE es == IF t.kind = "exit"
                         THEN <<Event("exit", "none", 0), Event("close", "none", 0)>>
                         ELSE <<Event(t.kind, "none", 0)>>
      <4>1. t.kind \in {"error", "close", "exit"}
        BY <2>3, <3>2 DEF TickOK
      <4>2. es \in Seq(EventType) /\ (KindIn(es, "exit") <=> t.kind = "exit")
        <5>1. Event("exit", "none", 0) \in EventType /\ Event("close", "none", 0) \in EventType
              /\ Event(t.kind, "none", 0) \in EventType
          BY <4>1 DEF Event, EventType
        <5>2. es \in Seq(EventType)
          BY <5>1
        <5>3. CASE t.kind = "exit"
          <6>1. es[1].kind = "exit" /\ 1 \in 1..Len(es)
            BY <5>3 DEF Event
          <6>2. QED BY <5>2, <5>3, <6>1 DEF KindIn
        <5>4. CASE t.kind # "exit"
          <6>1. es[1].kind # "exit" /\ Len(es) = 1
            BY <5>4 DEF Event
          <6>2. QED BY <5>2, <5>4, <6>1 DEF KindIn
        <5>5. QED BY <5>2, <5>3, <5>4
      <4>3. seen' = [seen EXCEPT ![t.c] = seen[t.c] \o es]
        BY <1>7, <3>2 DEF RunTick
      <4> HIDE DEF es
      <4>4. QED BY <1>0, <2>3, <4>2, <4>3, HasAdded
    <3>3. QED BY <3>1, <3>2
  <2> HIDE DEF t, p
  <2>5. \A d \in Children : Exiting(d) <=> Exiting(d)' \/ (d = t.c /\ t.kind = "exit")
    <3> TAKE d \in Children
    <3>1. ASSUME Exiting(d) PROVE Exiting(d)' \/ (d = t.c /\ t.kind = "exit")
      <4>1. PICK i \in 1..Len(tickQ) : tickQ[i].c = d /\ tickQ[i].kind = "exit"
        BY <3>1 DEF Exiting
      <4>2. QED BY <2>2, <4>1 DEF Exiting
    <3>2. ASSUME Exiting(d)' PROVE Exiting(d)
      <4>1. PICK i \in 1..Len(tickQ') : tickQ'[i].c = d /\ tickQ'[i].kind = "exit"
        BY <3>2 DEF Exiting
      <4>2. i + 1 \in 1..Len(tickQ) /\ tickQ[i + 1] = tickQ'[i]
        BY <2>2, <4>1
      <4>3. QED BY <4>1, <4>2 DEF Exiting
    <3>3. ASSUME d = t.c, t.kind = "exit" PROVE Exiting(d)
      BY <2>2, <3>3 DEF Exiting
    <3>4. QED BY <3>1, <3>2, <3>3
  <2>6. TicksOK'
    <3>1. \A i \in 1..Len(tickQ') : TickOK(tickQ'[i])
      BY <1>0, <2>2 DEF TicksOK
    <3>2. QED BY <3>1 DEF TicksOK, TickOK
  <2>7. ExitKept'
    BY <1>0, <2>1, <2>4, <2>5 DEF ExitKept
  <2>8. ExitLast'
    <3>1. ASSUME NEW i \in 1..Len(tickQ'), NEW k \in 1..Len(tickQ'), i < k, tickQ'[i].kind = "exit"
          PROVE  Quiet(tickQ'[i].c, tickQ'[k])
      <4>1. /\ i + 1 \in 1..Len(tickQ) /\ tickQ'[i] = tickQ[i + 1]
            /\ k + 1 \in 1..Len(tickQ) /\ tickQ'[k] = tickQ[k + 1] /\ i + 1 < k + 1
        BY <2>2, <3>1
      <4>2. Quiet(tickQ[i + 1].c, tickQ[k + 1])
        BY <1>0, <3>1, <4>1 DEF ExitLast
      <4>3. QED BY <4>1, <4>2
    <3>2. ASSUME NEW d \in Children, Has(d, "exit")', NEW k \in 1..Len(tickQ')
          PROVE  Quiet(d, tickQ'[k])
      <4>1. k + 1 \in 1..Len(tickQ) /\ tickQ'[k] = tickQ[k + 1] /\ 1 < k + 1
        BY <2>2, <3>2
      <4>2. CASE Has(d, "exit")
        BY <1>0, <4>1, <4>2 DEF ExitLast
      <4>3. CASE d = t.c /\ t.kind = "exit"
        <5>1. Quiet(tickQ[1].c, tickQ[k + 1])
          BY <1>0, <2>2, <4>1, <4>3 DEF ExitLast
        <5>2. QED BY <2>2, <4>1, <4>3, <5>1
      <4>4. QED BY <2>4, <3>2, <4>2, <4>3
    <3>3. QED BY <3>1, <3>2 DEF ExitLast
  <2>9. QED BY <2>6, <2>7, <2>8
<1>8. ASSUME NEW c \in Children, PumpsWaited(c) \/ Marks(c) \/ Releases(c) \/ Forgets(c)
             \/ SpawnStarts(c)
      PROVE  Goal
  <2>1. UNCHANGED <<tickQ, seen>>
    BY <1>8 DEF PumpsWaited, Marks, Releases, Forgets, SpawnStarts
  <2>2. \A d \in Children : Waited(d)' <=> Waited(d)
    BY <1>0, <1>8 DEF PumpsWaited, Marks, Releases, Forgets, SpawnStarts, Waited, HandleOK, TypeParts
  <2>3. QED BY <1>a, <2>1, <2>2
<1>9. ASSUME UNCHANGED <<tickQ, seen, waiter>> PROVE Goal
  BY <1>a, <1>9 DEF Waited
<1> HIDE DEF Goal
<1>10. Goal
  BY <1>1, <1>2, <1>3, <1>4, <1>5, <1>6, <1>7, <1>8, <1>9
  DEF Next, vars, processes, Unref, Ref, Exits, Pause, Writes, Closes, PumpDone, Return, Leave
<1>11. QED BY <1>10 DEF Goal

-----------------------------------------------------------------------------
(* Places in the output of a pipe *)

\* A set of positions is finite, and those up to one of them are fewer.
LEMMA Positions ==
  ASSUME NEW n \in Nat, NEW S, S \subseteq 1..n, NEW i
  PROVE  /\ IsFiniteSet(S) /\ Cardinality(S) \in Nat
         /\ IsFiniteSet(UpTo(S, i)) /\ Cardinality(UpTo(S, i)) \in Nat
         /\ UpTo(S, i) \subseteq S /\ Cardinality(UpTo(S, i)) <= Cardinality(S)
<1>1. IsFiniteSet(1..n) /\ UpTo(S, i) \subseteq S
  BY FS_Interval DEF UpTo
<1>2. IsFiniteSet(S) /\ IsFiniteSet(UpTo(S, i))
  BY <1>1, FS_Subset
<1>3. QED BY <1>1, <1>2, FS_Subset, FS_CardinalityType

Longer(S, n, m) == S \cup ((n + 1)..(n + m))

\* Positions behind the others come after them ...
LEMMA Behind ==
  ASSUME NEW n \in Nat, NEW S \in SUBSET (1..n), NEW m \in Nat
  PROVE  /\ Cardinality(Longer(S, n, m)) = Cardinality(S) + m
         /\ \A i \in S : UpTo(Longer(S, n, m), i) = UpTo(S, i)
         /\ \A j \in 1..m : Cardinality(UpTo(Longer(S, n, m), n + j)) = Cardinality(S) + j
<1> DEFINE T == Longer(S, n, m)
<1>1. IsFiniteSet(S) /\ Cardinality(S) \in Nat
  BY Positions
<1>2. ASSUME NEW j \in 0..m
      PROVE  Cardinality(S \cup ((n + 1)..(n + j))) = Cardinality(S) + j
  <2> DEFINE I == (n + 1)..(n + j)
  <2>1. IsFiniteSet(I) /\ Cardinality(I) = j
    <3>1. n + 1 \in Int /\ n + j \in Int
      OBVIOUS
    <3>2. IsFiniteSet(I) /\ Cardinality(I) = IF n + 1 > n + j THEN 0 ELSE (n + j) - (n + 1) + 1
      BY <3>1, FS_Interval
    <3>3. QED BY <3>2
  <2>2. S \cap I = {}
    OBVIOUS
  <2> HIDE DEF I
  <2>3. Cardinality(S \cap I) = 0
    BY <2>2, FS_EmptySet
  <2>4. Cardinality(S \cup I) = Cardinality(S) + j - 0
    BY <1>1, <2>1, <2>3, FS_Union
  <2>5. Cardinality(S \cup I) = Cardinality(S) + j
    BY <1>1, <2>4
  <2>6. QED BY <2>5 DEF I
<1>3. Cardinality(T) = Cardinality(S) + m
  BY <1>2 DEF Longer
<1>4. \A i \in S : UpTo(T, i) = UpTo(S, i)
  BY DEF UpTo, Longer
<1>5. \A j \in 1..m : UpTo(T, n + j) = S \cup ((n + 1)..(n + j)) /\ j \in 0..m
  <2> TAKE j \in 1..m
  <2>1. \A k \in S : k \in Int /\ k <= n + j /\ k \in T
    BY DEF Longer
  <2>2. \A k \in (n + 1)..(n + j) : k \in Int /\ k <= n + j /\ k \in T
    BY DEF Longer
  <2>3. \A k \in T : k <= n + j => k \in S \/ k \in (n + 1)..(n + j)
    BY DEF Longer
  <2>4. UpTo(T, n + j) = S \cup ((n + 1)..(n + j))
    BY <2>1, <2>2, <2>3, Zenon DEF UpTo
  <2>5. j \in 0..m
    OBVIOUS
  <2>6. QED BY <2>4, <2>5
<1>6. \A j \in 1..m : Cardinality(UpTo(T, n + j)) = Cardinality(S) + j
  BY <1>2, <1>5
<1>7. QED BY <1>3, <1>4, <1>6

Shorter(S, n) == {i \in 1..(n - 1) : i + 1 \in S}
AtFirst(S) == IF 1 \in S THEN 1 ELSE 0

\* ... and when the first position is gone the others move up.
LEMMA MovedUp ==
  ASSUME NEW n \in Nat \ {0}, NEW S \in SUBSET (1..n)
  PROVE  /\ Cardinality(S) = Cardinality(Shorter(S, n)) + AtFirst(S)
         /\ \A i \in Shorter(S, n) :
              Cardinality(UpTo(S, i + 1)) = Cardinality(UpTo(Shorter(S, n), i)) + AtFirst(S)
         /\ AtFirst(S) = 1 => Cardinality(UpTo(S, 1)) = 1
<1> DEFINE T == Shorter(S, n)
           h == AtFirst(S)
<1>h. h \in {0, 1} /\ (h = 1 <=> 1 \in S)
  BY DEF AtFirst
<1>1. T \subseteq 1..(n - 1) /\ n - 1 \in Nat
  BY DEF Shorter
<1>2. \A i \in T : i \in Nat /\ i > 0 /\ i + 1 \in S \ {1}
  BY DEF Shorter
<1>3. \A i \in S \ {1} : i \in Int /\ i - 1 \in T
  BY DEF Shorter
<1> HIDE DEF T, h
<1>4. ASSUME NEW A, NEW B, A \subseteq T, B \subseteq S \ {1},
             \A i \in A : i + 1 \in B, \A i \in B : i - 1 \in A
      PROVE  Cardinality(A) = Cardinality(B)
  <2> DEFINE f == [i \in A |-> i + 1]
  <2>1. f \in [A -> B]
    BY <1>4
  <2>2. \A i, k \in A : f[i] = f[k] => i = k
    BY <1>2, <1>4
  <2>3. \A k \in B : k - 1 \in A /\ f[k - 1] = k
    BY <1>3, <1>4
  <2>4. f \in Bijection(A, B)
    BY <2>1, <2>2, <2>3 DEF Bijection, Injection, Surjection, IsInjective
  <2>5. ExistsBijection(A, B)
    BY <2>4 DEF ExistsBijection
  <2>6. IsFiniteSet(A)
    BY <1>1, <1>4, Positions, FS_Subset
  <2>7. QED BY <2>5, <2>6, FS_Bijection
<1>5. ASSUME NEW A, A \subseteq S, h = 1 => 1 \in A
      PROVE  Cardinality(A) = Cardinality(A \ {1}) + h
  <2>1. IsFiniteSet(A) /\ Cardinality(A) \in Nat
    BY <1>5, Positions, FS_Subset, FS_CardinalityType
  <2>2. CASE h = 1
    <3>1. 1 \in A
      BY <1>5, <2>2
    <3>2. Cardinality(A \ {1}) = Cardinality(A) - 1
      BY <2>1, <3>1, FS_RemoveElement
    <3>3. QED BY <2>1, <2>2, <3>2
  <2>3. CASE h = 0
    <3>1. A \ {1} = A
      BY <1>h, <1>5, <2>3
    <3>2. Cardinality(A \ {1}) = Cardinality(A)
      BY <3>1, Zenon
    <3>3. QED BY <2>1, <2>3, <3>2
  <2>4. QED BY <1>h, <2>2, <2>3
<1>6. Cardinality(S) = Cardinality(T) + h
  <2>1. Cardinality(T) = Cardinality(S \ {1})
    BY <1>2, <1>3, <1>4
  <2>2. Cardinality(S) = Cardinality(S \ {1}) + h
    BY <1>5, <1>h
  <2>3. QED BY <2>1, <2>2
<1>7. ASSUME NEW i \in T
      PROVE  Cardinality(UpTo(S, i + 1)) = Cardinality(UpTo(T, i)) + h
  <2> DEFINE A == UpTo(T, i)
             B == UpTo(S, i + 1) \ {1}
  <2>1. A \subseteq T /\ B \subseteq S \ {1} /\ UpTo(S, i + 1) \subseteq S
    BY DEF UpTo
  <2>2. \A k \in A : k + 1 \in B
    BY <1>2 DEF UpTo
  <2>3. \A k \in B : k - 1 \in A
    <3>1. \A k \in B : k \in S \ {1} /\ k <= i + 1
      BY DEF UpTo
    <3>2. i \in Int /\ \A k \in S \ {1} : k \in Int /\ k - 1 \in T
      BY <1>2, <1>3
    <3>2a. \A k \in B : k - 1 \in T /\ k - 1 <= i
      <4> TAKE k \in B
      <4>1. k \in Int /\ k - 1 \in T /\ k <= i + 1
        BY <3>1, <3>2
      <4>2. QED BY <3>2, <4>1
    <3>3. QED BY <3>2a DEF UpTo
  <2>4. Cardinality(A) = Cardinality(B)
    BY <2>1, <2>2, <2>3, <1>4
  <2>5. h = 1 => 1 \in UpTo(S, i + 1)
    BY <1>2, <1>h DEF UpTo
  <2>6. Cardinality(UpTo(S, i + 1)) = Cardinality(B) + h
    BY <2>1, <2>5, <1>5
  <2>7. QED BY <2>4, <2>6
<1>8. h = 1 => Cardinality(UpTo(S, 1)) = 1
  <2> SUFFICES ASSUME h = 1 PROVE Cardinality(UpTo(S, 1)) = 1
    OBVIOUS
  <2>1. UpTo(S, 1) = {1}
    <3>1. 1 \in S /\ \A k \in S : k \in Int /\ k >= 1
      BY <1>h
    <3>2. \A k \in S : k <= 1 => k = 1
      BY <3>1
    <3>3. 1 <= 1
      OBVIOUS
    <3>4. QED BY <3>1, <3>2, <3>3, Zenon DEF UpTo
  <2>2. QED BY <2>1, FS_Singleton
<1>9. QED BY <1>6, <1>7, <1>8 DEF T, h

-----------------------------------------------------------------------------
(* The output of one pipe: what was emitted of it, what its stream keeps, e of *)
(* which is an "end", and what is queued; r were read, f is 1 if it has ended  *)

Nth(r, i) == IF i = r + 1 THEN 0 ELSE i
Outs(q, p) == {i \in 1..Len(q) : q[i].s = p[2] /\ q[i].kind \in Output}
Ins(v, p) == {i \in 1..Len(v) : <<v[i].c, v[i].s>> = p /\ v[i].kind \in Output}
Past(p, q, ch, e) == Cardinality(Outs(q, p)) + Len(ch) + e
Ordered(p, q, ch, e, v, r, f) ==
  /\ \A i \in Outs(q, p) : q[i].n = Nth(r, Cardinality(UpTo(Outs(q, p), i)))
  /\ \A k \in 1..Len(ch) : ch[k] = Nth(r, Cardinality(Outs(q, p)) + k)
  /\ e = 1 => Nth(r, Past(p, q, ch, e)) = 0
  /\ \A i \in Ins(v, p) : v[i].n = Nth(r, Past(p, q, ch, e) + Cardinality(UpTo(Ins(v, p), i)))
  /\ Past(p, q, ch, e) + Cardinality(Ins(v, p)) = r + f

Bit(b) == IF b THEN 1 ELSE 0
AllOrdered == \A p \in Pipes :
  Ordered(p, seen[p[1]], stream[p].chunks, Bit(stream[p].ended), tickQ, pipe[p].read,
          Bit(pump[p] \in {"ended", "done"}))

\* It is what InOrder says.
LEMMA InOrderIs == InOrder <=> AllOrdered
<1>1. ASSUME NEW p \in Pipes
      PROVE  /\ Heard(p) = Outs(seen[p[1]], p) /\ Coming(p) = Ins(tickQ, p)
             /\ \A i : Unit(p, i) = Nth(pipe[p].read, i)
             /\ Along(p) = Past(p, seen[p[1]], stream[p].chunks, Bit(stream[p].ended))
  <2>1. Heard(p) = Outs(seen[p[1]], p) /\ Coming(p) = Ins(tickQ, p)
    BY DEF Heard, Outs, Coming, Ins
  <2>2. \A i : Unit(p, i) = Nth(pipe[p].read, i)
    BY DEF Unit, Nth
  <2>3. Along(p) = Past(p, seen[p[1]], stream[p].chunks, Bit(stream[p].ended))
    BY <2>1 DEF Along, Past, Bit
  <2>4. QED BY <2>1, <2>2, <2>3
<1>2. \A p \in Pipes : Bit(stream[p].ended) = 1 <=> stream[p].ended
  BY DEF Bit
<1>3. \A p \in Pipes : Bit(pump[p] \in {"ended", "done"})
                         = IF pump[p] \in {"ended", "done"} THEN 1 ELSE 0
  BY DEF Bit
<1>4. ASSUME InOrder, NEW p \in Pipes
      PROVE  Ordered(p, seen[p[1]], stream[p].chunks, Bit(stream[p].ended), tickQ,
                     pipe[p].read, Bit(pump[p] \in {"ended", "done"}))
  BY <1>1, <1>2, <1>3, <1>4 DEF InOrder, Ordered
<1>5. ASSUME AllOrdered, NEW p \in Pipes
      PROVE  /\ \A i \in Heard(p) : seen[p[1]][i].n = Unit(p, Cardinality(UpTo(Heard(p), i)))
             /\ \A k \in 1..Len(stream[p].chunks) :
                  stream[p].chunks[k] = Unit(p, Cardinality(Heard(p)) + k)
             /\ stream[p].ended => Unit(p, Along(p)) = 0
             /\ \A i \in Coming(p) :
                  tickQ[i].n = Unit(p, Along(p) + Cardinality(UpTo(Coming(p), i)))
             /\ Along(p) + Cardinality(Coming(p))
                  = pipe[p].read + (IF pump[p] \in {"ended", "done"} THEN 1 ELSE 0)
  <2>1. Ordered(p, seen[p[1]], stream[p].chunks, Bit(stream[p].ended), tickQ,
                pipe[p].read, Bit(pump[p] \in {"ended", "done"}))
    BY <1>5 DEF AllOrdered
  <2>2. QED BY <1>1, <1>2, <1>3, <2>1 DEF Ordered
<1>6. AllOrdered => InOrder
  BY <1>5 DEF InOrder
<1>7. InOrder => AllOrdered
  BY <1>4 DEF AllOrdered
<1>8. QED BY <1>6, <1>7

\* The places of a pipe's output can be counted.
LEMMA CountTypes ==
  ASSUME NEW q, Len(q) \in Nat, NEW v, Len(v) \in Nat, NEW p, NEW i
  PROVE  /\ Outs(q, p) \subseteq 1..Len(q) /\ Cardinality(Outs(q, p)) \in Nat
         /\ Ins(v, p) \subseteq 1..Len(v) /\ Cardinality(Ins(v, p)) \in Nat
         /\ Cardinality(UpTo(Ins(v, p), i)) \in Nat
         /\ Cardinality(UpTo(Outs(q, p), i)) \in Nat
<1>1. Outs(q, p) \subseteq 1..Len(q) /\ Ins(v, p) \subseteq 1..Len(v)
  BY DEF Outs, Ins
<1>2. Cardinality(Outs(q, p)) \in Nat /\ Cardinality(UpTo(Outs(q, p), i)) \in Nat
  BY <1>1, Positions
<1>3. Cardinality(Ins(v, p)) \in Nat /\ Cardinality(UpTo(Ins(v, p), i)) \in Nat
  BY <1>1, Positions
<1>4. QED BY <1>1, <1>2, <1>3

\* What is emitted of other streams changes nothing ...
LEMMA OrderedElsewhere ==
  ASSUME NEW p, NEW q \in Seq(EventType), NEW ch, NEW e, NEW v, NEW r, NEW f,
         Ordered(p, q, ch, e, v, r, f), NEW x \in Seq(EventType),
         \A i \in 1..Len(x) : x[i].s # p[2] \/ x[i].kind \notin Output
  PROVE  Ordered(p, q \o x, ch, e, v, r, f)
<1> DEFINE w == q \o x
<1>1. /\ Len(q) \in Nat /\ Len(w) = Len(q) + Len(x)
      /\ \A i \in 1..Len(q) : i \in 1..Len(w) /\ w[i] = q[i]
      /\ \A i \in 1..Len(w) : i \in 1..Len(q) \/ (i - Len(q) \in 1..Len(x)
                                                   /\ w[i] = x[i - Len(q)])
  BY ConcatAt
<1> HIDE DEF w
<1>2. Outs(w, p) = Outs(q, p) /\ \A i \in Outs(q, p) : w[i] = q[i]
  <2>1. ASSUME NEW i \in Outs(w, p) PROVE i \in Outs(q, p)
    <3>1. i \in 1..Len(w) /\ w[i].s = p[2] /\ w[i].kind \in Output
      BY DEF Outs
    <3>2. i \in 1..Len(q)
      <4>1. ASSUME NEW k \in 1..Len(x), w[i] = x[k] PROVE FALSE
        BY <3>1, <4>1
      <4>2. QED BY <1>1, <3>1, <4>1
    <3>3. QED BY <1>1, <3>1, <3>2 DEF Outs
  <2>2. \A i \in Outs(q, p) : i \in Outs(w, p) /\ w[i] = q[i]
    BY <1>1 DEF Outs
  <2>3. QED BY <2>1, <2>2
<1>3. Past(p, w, ch, e) = Past(p, q, ch, e)
  BY <1>2 DEF Past
<1>4. Ordered(p, w, ch, e, v, r, f)
  BY <1>2, <1>3 DEF Ordered
<1>5. QED BY <1>4 DEF w

\* ... and neither do ticks of others.
LEMMA OrderedQueued ==
  ASSUME NEW p, NEW q, NEW ch, NEW e, NEW v \in Seq(TickType), NEW r, NEW f,
         Ordered(p, q, ch, e, v, r, f), NEW x \in Seq(TickType),
         \A i \in 1..Len(x) : <<x[i].c, x[i].s>> # p \/ x[i].kind \notin Output
  PROVE  Ordered(p, q, ch, e, v \o x, r, f)
<1> DEFINE w == v \o x
<1>1. /\ Len(v) \in Nat /\ Len(w) = Len(v) + Len(x)
      /\ \A i \in 1..Len(v) : i \in 1..Len(w) /\ w[i] = v[i]
      /\ \A i \in 1..Len(w) : i \in 1..Len(v) \/ (i - Len(v) \in 1..Len(x)
                                                   /\ w[i] = x[i - Len(v)])
  BY ConcatAt
<1> HIDE DEF w
<1>2. Ins(w, p) = Ins(v, p) /\ \A i \in Ins(v, p) : w[i] = v[i]
  <2>1. ASSUME NEW i \in Ins(w, p) PROVE i \in Ins(v, p)
    <3>1. i \in 1..Len(w) /\ <<w[i].c, w[i].s>> = p /\ w[i].kind \in Output
      BY DEF Ins
    <3>2. i \in 1..Len(v)
      <4>1. ASSUME NEW k \in 1..Len(x), w[i] = x[k] PROVE FALSE
        BY <3>1, <4>1
      <4>2. QED BY <1>1, <3>1, <4>1
    <3>3. QED BY <1>1, <3>1, <3>2 DEF Ins
  <2>2. \A i \in Ins(v, p) : i \in Ins(w, p) /\ w[i] = v[i]
    BY <1>1 DEF Ins
  <2>3. QED BY <2>1, <2>2
<1>3. Ordered(p, q, ch, e, w, r, f)
  BY <1>2 DEF Ordered
<1>4. QED BY <1>3 DEF w

AllOut(x, p) == \A i \in 1..Len(x) : x[i].s = p[2] /\ x[i].kind \in Output

\* Output that is emitted comes behind what was emitted before.
LEMMA OutsBehind ==
  ASSUME NEW p, NEW q \in Seq(EventType), NEW x \in Seq(EventType),
         AllOut(x, p)
  PROVE  /\ Len(q) \in Nat /\ Len(x) \in Nat /\ Cardinality(Outs(q, p)) \in Nat
         /\ \A i \in 1..Len(q) : (q \o x)[i] = q[i]
         /\ \A i \in 1..Len(x) : (q \o x)[Len(q) + i] = x[i]
         /\ Outs(q \o x, p) = Outs(q, p) \cup ((Len(q) + 1)..(Len(q) + Len(x)))
         /\ Cardinality(Outs(q \o x, p)) = Cardinality(Outs(q, p)) + Len(x)
         /\ \A i \in Outs(q, p) : UpTo(Outs(q \o x, p), i) = UpTo(Outs(q, p), i)
         /\ \A j \in 1..Len(x) :
              Cardinality(UpTo(Outs(q \o x, p), Len(q) + j)) = Cardinality(Outs(q, p)) + j
<1> DEFINE w == q \o x
           n == Len(q)
           m == Len(x)
           S == Outs(q, p)
           T == Outs(w, p)
<1>1. /\ n \in Nat /\ m \in Nat /\ Len(w) = n + m
      /\ \A i \in 1..n : w[i] = q[i]
      /\ \A i \in 1..m : w[n + i] = x[i]
  BY ConcatAt
<1>2. \A i \in 1..Len(w) : i \in 1..n \/ (i - n \in 1..m /\ w[i] = x[i - n])
  BY ConcatAt
<1>3. S \subseteq 1..n
  BY DEF Outs
<1> HIDE DEF w, n, m
<1>4. T = S \cup ((n + 1)..(n + m))
  <2>1. \A i \in T : i \in S \/ i \in (n + 1)..(n + m)
    BY <1>1, <1>2 DEF Outs, n
  <2>2. \A i \in S : i \in T
    BY <1>1 DEF Outs, n
  <2>3. \A i \in (n + 1)..(n + m) : i \in T
    <3> TAKE i \in (n + 1)..(n + m)
    <3>1. i \in 1..Len(w) /\ i - n \in 1..m /\ ~(i \in 1..n)
      BY <1>1
    <3>2. w[i] = x[i - n]
      BY <1>2, <3>1
    <3>3. QED BY <3>1, <3>2 DEF Outs, AllOut, m
  <2>4. QED BY <2>1, <2>2, <2>3, Zenon
<1> HIDE DEF S, T
<1>5. /\ Cardinality(T) = Cardinality(S) + m
      /\ \A i \in S : UpTo(T, i) = UpTo(S, i)
      /\ \A j \in 1..m : Cardinality(UpTo(T, n + j)) = Cardinality(S) + j
  <2>1. n \in Nat /\ m \in Nat
    BY <1>1
  <2> DEFINE I == Longer(S, n, m)
  <2>2. /\ Cardinality(I) = Cardinality(S) + m
        /\ \A i \in S : UpTo(I, i) = UpTo(S, i)
        /\ \A j \in 1..m : Cardinality(UpTo(I, n + j)) = Cardinality(S) + j
    <3>1. S \in SUBSET (1..n)
      BY <1>3
    <3>2. QED BY <2>1, <3>1, Behind
  <2>3. T = I
    BY <1>4 DEF Longer
  <2> HIDE DEF I
  <2>4. QED BY <2>2, <2>3, Zenon
<1>6. Cardinality(S) \in Nat
  BY <1>1, <1>3, Positions
<1>7. QED BY <1>1, <1>4, <1>5, <1>6 DEF w, n, m, S, T

\* The stream emits what it keeps: it comes behind what was emitted before.
LEMMA OrderedFlushed ==
  ASSUME NEW p, NEW q \in Seq(EventType), NEW ch \in Seq(Nat), NEW e \in {0, 1},
         NEW v \in Seq(TickType), NEW r \in Nat, NEW f, Ordered(p, q, ch, e, v, r, f),
         NEW x \in Seq(EventType), Len(x) = Len(ch) + e,
         AllOut(x, p),
         \A i \in 1..Len(ch) : x[i].n = ch[i],
         e = 1 => x[Len(ch) + 1].n = 0
  PROVE  Ordered(p, q \o x, <<>>, 0, v, r, f)
<1> DEFINE w == q \o x
           n == Len(q)
           m == Len(x)
           a == Cardinality(Outs(q, p))
<1>1. /\ n \in Nat /\ m \in Nat /\ Len(ch) \in Nat /\ a \in Nat
      /\ \A i \in 1..n : w[i] = q[i]
      /\ \A i \in 1..m : w[n + i] = x[i]
  <2>1. Len(ch) \in Nat
    OBVIOUS
  <2>2. QED BY <2>1, OutsBehind
<1>2. Outs(q, p) \subseteq 1..n
  BY DEF Outs
<1>3. Outs(w, p) = Outs(q, p) \cup ((n + 1)..(n + m))
  BY OutsBehind
<1>4. /\ Cardinality(Outs(w, p)) = a + m
      /\ \A i \in Outs(q, p) : UpTo(Outs(w, p), i) = UpTo(Outs(q, p), i)
      /\ \A j \in 1..m : Cardinality(UpTo(Outs(w, p), n + j)) = a + j
  BY OutsBehind
<1> HIDE DEF w, n, m, a
<1>5. Past(p, w, <<>>, 0) = Past(p, q, ch, e)
  BY <1>1, <1>2, <1>4 DEF Past, a, m
<1>6. \A j \in 1..m : x[j].n = Nth(r, a + j)
  <2> TAKE j \in 1..m
  <2>1. CASE j <= Len(ch)
    BY <1>1, <2>1 DEF Ordered, a
  <2>2. CASE j > Len(ch)
    <3>1. e = 1 /\ j = Len(ch) + 1
      BY <1>1, <2>2 DEF m
    <3>2. Past(p, q, ch, e) = a + j
      BY <1>1, <1>2, <3>1 DEF Past, a
    <3>3. Nth(r, a + j) = 0
      BY <3>1, <3>2 DEF Ordered
    <3>4. QED BY <3>1, <3>3
  <2>3. QED BY <1>1, <2>1, <2>2
<1>7. \A i \in Outs(w, p) : w[i].n = Nth(r, Cardinality(UpTo(Outs(w, p), i)))
  <2> TAKE i \in Outs(w, p)
  <2>1. CASE i \in Outs(q, p)
    <3>1. q[i].n = Nth(r, Cardinality(UpTo(Outs(q, p), i))) /\ i \in 1..n
      BY <1>2, <2>1 DEF Ordered
    <3>2. w[i] = q[i] /\ UpTo(Outs(w, p), i) = UpTo(Outs(q, p), i)
      BY <1>1, <1>4, <2>1, <3>1
    <3>3. QED BY <3>1, <3>2
  <2>2. CASE i \in (n + 1)..(n + m)
    <3>1. i - n \in 1..m /\ i = n + (i - n)
      BY <1>1, <2>2
    <3>2. PICK j \in 1..m : i = n + j
      BY <3>1
    <3>3. w[n + j] = x[j] /\ x[j].n = Nth(r, a + j)
      BY <1>1, <1>6
    <3>4. Cardinality(UpTo(Outs(w, p), n + j)) = a + j
      BY <1>4
    <3>5. QED BY <3>2, <3>3, <3>4, Zenon
  <2>3. QED BY <1>3, <2>1, <2>2
<1>8. Ordered(p, w, <<>>, 0, v, r, f)
  <2>1. \A k \in 1..Len(<<>>) : FALSE
    OBVIOUS
  <2>2. QED BY <1>5, <1>7, <2>1 DEF Ordered
<1>9. QED BY <1>8 DEF w

IsFor(t, p) == <<t.c, t.s>> = p /\ t.kind \in Output

\* A tick of this pipe is queued behind the others.
LEMMA InsBehind ==
  ASSUME NEW p, NEW v \in Seq(TickType), NEW t \in TickType, IsFor(t, p)
  PROVE  /\ Len(v) \in Nat /\ Cardinality(Ins(v, p)) \in Nat
         /\ Ins(Append(v, t), p) = Ins(v, p) \cup {Len(v) + 1}
         /\ Append(v, t)[Len(v) + 1] = t
         /\ \A i \in Ins(v, p) : Append(v, t)[i] = v[i]
         /\ Cardinality(Ins(Append(v, t), p)) = Cardinality(Ins(v, p)) + 1
         /\ \A i \in Ins(v, p) : UpTo(Ins(Append(v, t), p), i) = UpTo(Ins(v, p), i)
         /\ Cardinality(UpTo(Ins(Append(v, t), p), Len(v) + 1)) = Cardinality(Ins(v, p)) + 1
<1> DEFINE w == Append(v, t)
           n == Len(v)
           S == Ins(v, p)
           T == Ins(w, p)
<1>1. /\ n \in Nat /\ Len(w) = n + 1 /\ w[n + 1] = t
      /\ \A i \in 1..n : w[i] = v[i]
  OBVIOUS
<1>2. S \in SUBSET (1..n)
  BY DEF Ins
<1> HIDE DEF w
<1>3. T = S \cup {n + 1}
  BY <1>1 DEF Ins, IsFor
<1>4. \A i \in S : w[i] = v[i]
  BY <1>1, <1>2
<1> HIDE DEF n, S, T
<1>5. T = Longer(S, n, 1)
  <2>1. (n + 1)..(n + 1) = {n + 1}
    BY <1>1
  <2>2. QED BY <1>3, <2>1 DEF Longer
<1>6. /\ Cardinality(T) = Cardinality(S) + 1
      /\ \A i \in S : UpTo(T, i) = UpTo(S, i)
      /\ Cardinality(UpTo(T, n + 1)) = Cardinality(S) + 1
  <2>1. 1 \in Nat /\ 1 \in 1..1
    OBVIOUS
  <2>2. /\ Cardinality(Longer(S, n, 1)) = Cardinality(S) + 1
        /\ \A i \in S : UpTo(Longer(S, n, 1), i) = UpTo(S, i)
        /\ \A j \in 1..1 : Cardinality(UpTo(Longer(S, n, 1), n + j)) = Cardinality(S) + j
    BY <1>1, <1>2, <2>1, Behind
  <2>3. QED BY <1>5, <2>1, <2>2
<1>7. Cardinality(S) \in Nat
  BY <1>1, <1>2, Positions
<1>8. QED BY <1>1, <1>3, <1>4, <1>6, <1>7 DEF w, n, S, T

\* The pump queues the chunk it has read ...
LEMMA OrderedRead ==
  ASSUME NEW p, NEW q \in Seq(EventType), NEW ch \in Seq(Nat), NEW e \in {0, 1},
         NEW v \in Seq(TickType), NEW r \in Nat, Ordered(p, q, ch, e, v, r, 0),
         NEW t \in TickType, IsFor(t, p), t.n = r + 1
  PROVE  Ordered(p, q, ch, e, Append(v, t), r + 1, 0)
<1> DEFINE w == Append(v, t)
           n == Len(v)
           S == Ins(v, p)
           T == Ins(w, p)
           b == Past(p, q, ch, e)
           a == Cardinality(Outs(q, p))
<1>1. /\ n \in Nat /\ Cardinality(S) \in Nat /\ T = S \cup {n + 1} /\ w[n + 1] = t
      /\ \A i \in S : w[i] = v[i]
      /\ \A i \in S : UpTo(T, i) = UpTo(S, i)
      /\ Cardinality(T) = Cardinality(S) + 1
      /\ Cardinality(UpTo(T, n + 1)) = Cardinality(S) + 1
  <2>1. /\ Len(v) \in Nat /\ Cardinality(Ins(v, p)) \in Nat
        /\ Ins(Append(v, t), p) = Ins(v, p) \cup {Len(v) + 1}
        /\ Append(v, t)[Len(v) + 1] = t
        /\ \A i \in Ins(v, p) : Append(v, t)[i] = v[i]
        /\ Cardinality(Ins(Append(v, t), p)) = Cardinality(Ins(v, p)) + 1
        /\ \A i \in Ins(v, p) : UpTo(Ins(Append(v, t), p), i) = UpTo(Ins(v, p), i)
        /\ Cardinality(UpTo(Ins(Append(v, t), p), Len(v) + 1)) = Cardinality(Ins(v, p)) + 1
    BY InsBehind, Zenon
  <2>2. QED BY <2>1, Zenon
<1>2. a \in Nat /\ Len(ch) \in Nat /\ b = a + Len(ch) + e /\ b \in Nat
  <2>1. Len(q) \in Nat /\ Len(v) \in Nat /\ Len(ch) \in Nat
    OBVIOUS
  <2>2. Cardinality(Outs(q, p)) \in Nat
    BY <2>1, CountTypes
  <2>3. QED BY <2>1, <2>2 DEF Past
<1>3. b + Cardinality(S) = r
  <2>1. b + Cardinality(S) = r + 0
    BY DEF Ordered
  <2> HIDE DEF b, S
  <2>2. QED BY <2>1
<1>4. S \subseteq 1..n /\ \A i : Cardinality(UpTo(S, i)) \in Nat /\ Cardinality(UpTo(S, i)) <= Cardinality(S)
  <2>1. S \subseteq 1..n
    BY DEF Ins
  <2>2. QED BY <1>1, <2>1, Positions
<1>5. \A i : /\ Cardinality(UpTo(Outs(q, p), i)) \in Nat
             /\ Cardinality(UpTo(Outs(q, p), i)) <= a
  <2>1. Outs(q, p) \subseteq 1..Len(q) /\ Len(q) \in Nat
    BY DEF Outs
  <2>2. QED BY <2>1, Positions
<1>6. \A i \in 0..r : Nth(r, i) = i /\ Nth(r + 1, i) = i
  BY DEF Nth
<1>o. /\ \A i \in Outs(q, p) : q[i].n = Nth(r, Cardinality(UpTo(Outs(q, p), i)))
      /\ \A k \in 1..Len(ch) : ch[k] = Nth(r, a + k)
      /\ e = 1 => Nth(r, b) = 0
      /\ \A i \in S : v[i].n = Nth(r, b + Cardinality(UpTo(S, i)))
  BY DEF Ordered
<1> HIDE DEF w, n, S, T, b, a
<1>7. \A i \in Outs(q, p) : q[i].n = Nth(r + 1, Cardinality(UpTo(Outs(q, p), i)))
  <2> TAKE i \in Outs(q, p)
  <2> DEFINE c == Cardinality(UpTo(Outs(q, p), i))
             d == Cardinality(S)
  <2>1. /\ c \in Nat /\ c <= a /\ d \in Nat /\ a \in Nat /\ Len(ch) \in Nat
        /\ b = a + Len(ch) + e /\ b + d = r
    BY <1>1, <1>2, <1>3, <1>5
  <2> HIDE DEF c, d
  <2>2. c \in 0..r
    BY <2>1
  <2>3. q[i].n = Nth(r, c)
    BY <1>o DEF c
  <2>4. Nth(r, c) = c /\ Nth(r + 1, c) = c
    BY <1>6, <2>2
  <2>5. QED BY <2>3, <2>4 DEF c
<1>8. \A k \in 1..Len(ch) : ch[k] = Nth(r + 1, a + k)
  <2> TAKE k \in 1..Len(ch)
  <2>1. a + k \in 0..r
    <3> DEFINE d == Cardinality(S)
               l == Len(ch)
    <3>1. d \in Nat /\ a \in Nat /\ l \in Nat /\ k \in 1..l /\ b = a + l + e /\ b + d = r
      BY <1>1, <1>2, <1>3
    <3> HIDE DEF d, l
    <3>2. QED BY <3>1
  <2>2. Nth(r, a + k) = a + k /\ Nth(r + 1, a + k) = a + k
    BY <1>6, <2>1
  <2>3. QED BY <1>o, <2>2
<1>9. e = 1 => Nth(r + 1, b) = 0
  <2>1. b \in 0..r
    <3> DEFINE d == Cardinality(S)
    <3>1. d \in Nat /\ b \in Nat /\ b + d = r
      BY <1>1, <1>2, <1>3
    <3> HIDE DEF d
    <3>2. QED BY <3>1
  <2>2. Nth(r, b) = Nth(r + 1, b)
    BY <1>6, <2>1
  <2>3. QED BY <1>o, <2>2
<1>10. \A i \in T : w[i].n = Nth(r + 1, b + Cardinality(UpTo(T, i)))
  <2> TAKE i \in T
  <2>1. CASE i \in S
    <3>1. b + Cardinality(UpTo(S, i)) \in 0..r
      <4> DEFINE c == Cardinality(UpTo(S, i))
                 d == Cardinality(S)
      <4>1. b \in Nat /\ c \in Nat /\ d \in Nat /\ c <= d /\ b + d = r
        BY <1>1, <1>2, <1>3, <1>4
      <4> HIDE DEF c, d
      <4>2. b + c \in 0..r
        BY <4>1
      <4>3. QED BY <4>2 DEF c
    <3>2. v[i].n = b + Cardinality(UpTo(S, i))
      <4>1. v[i].n = Nth(r, b + Cardinality(UpTo(S, i)))
        BY <1>o, <2>1
      <4>2. QED BY <1>6, <3>1, <4>1
    <3>3. Nth(r + 1, b + Cardinality(UpTo(S, i))) = b + Cardinality(UpTo(S, i))
      BY <1>6, <3>1
    <3>4. w[i] = v[i] /\ UpTo(T, i) = UpTo(S, i)
      BY <1>1, <2>1
    <3>5. QED BY <3>2, <3>3, <3>4, Zenon
  <2>2. CASE i = n + 1
    <3>1. b + Cardinality(UpTo(T, n + 1)) = r + 1
      <4> DEFINE c == Cardinality(UpTo(T, n + 1))
                 d == Cardinality(S)
      <4>1. c = d + 1 /\ d \in Nat /\ b \in Nat /\ b + d = r
        BY <1>1, <1>2, <1>3
      <4> HIDE DEF c, d
      <4>2. b + c = r + 1
        BY <4>1
      <4>3. QED BY <4>2 DEF c
    <3>2. Nth(r + 1, r + 1) = r + 1
      BY DEF Nth
    <3>3. QED BY <1>1, <2>2, <3>1, <3>2
  <2>3. QED BY <1>1, <2>1, <2>2
<1>11. b + Cardinality(T) = r + 1 + 0
  BY <1>1, <1>2, <1>3
<1>12. QED BY <1>7, <1>8, <1>9, <1>10, <1>11 DEF Ordered, w, n, S, T, b, a

\* ... and at last that it has ended.
LEMMA OrderedEnd ==
  ASSUME NEW p, NEW q \in Seq(EventType), NEW ch \in Seq(Nat), NEW e \in {0, 1},
         NEW v \in Seq(TickType), NEW r \in Nat, Ordered(p, q, ch, e, v, r, 0),
         NEW t \in TickType, IsFor(t, p), t.n = 0
  PROVE  Ordered(p, q, ch, e, Append(v, t), r, 1)
<1> DEFINE w == Append(v, t)
           n == Len(v)
           S == Ins(v, p)
           T == Ins(w, p)
           b == Past(p, q, ch, e)
<1>1. /\ n \in Nat /\ Cardinality(S) \in Nat /\ T = S \cup {n + 1} /\ w[n + 1] = t
      /\ \A i \in S : w[i] = v[i]
      /\ \A i \in S : UpTo(T, i) = UpTo(S, i)
      /\ Cardinality(T) = Cardinality(S) + 1
      /\ Cardinality(UpTo(T, n + 1)) = Cardinality(S) + 1
  <2>1. /\ Len(v) \in Nat /\ Cardinality(Ins(v, p)) \in Nat
        /\ Ins(Append(v, t), p) = Ins(v, p) \cup {Len(v) + 1}
        /\ Append(v, t)[Len(v) + 1] = t
        /\ \A i \in Ins(v, p) : Append(v, t)[i] = v[i]
        /\ Cardinality(Ins(Append(v, t), p)) = Cardinality(Ins(v, p)) + 1
        /\ \A i \in Ins(v, p) : UpTo(Ins(Append(v, t), p), i) = UpTo(Ins(v, p), i)
        /\ Cardinality(UpTo(Ins(Append(v, t), p), Len(v) + 1)) = Cardinality(Ins(v, p)) + 1
    BY InsBehind, Zenon
  <2>2. QED BY <2>1, Zenon
<1>2. b \in Nat
  <2>1. Len(q) \in Nat /\ Len(v) \in Nat /\ Len(ch) \in Nat
    OBVIOUS
  <2>2. Cardinality(Outs(q, p)) \in Nat
    BY <2>1, CountTypes
  <2>3. QED BY <2>1, <2>2 DEF Past
<1>3. b + Cardinality(S) = r
  <2>1. b + Cardinality(S) = r + 0
    BY DEF Ordered
  <2> HIDE DEF b, S
  <2>2. QED BY <2>1
<1>o. \A i \in S : v[i].n = Nth(r, b + Cardinality(UpTo(S, i)))
  BY DEF Ordered
<1> HIDE DEF w, n, S, T, b
<1>4. \A i \in T : w[i].n = Nth(r, b + Cardinality(UpTo(T, i)))
  <2> TAKE i \in T
  <2>1. CASE i \in S
    BY <1>1, <1>o, <2>1
  <2>2. CASE i = n + 1
    <3>1. b + Cardinality(UpTo(T, n + 1)) = r + 1
      <4> DEFINE c == Cardinality(UpTo(T, n + 1))
                 d == Cardinality(S)
      <4>1. c = d + 1 /\ d \in Nat /\ b \in Nat /\ b + d = r
        BY <1>1, <1>2, <1>3
      <4> HIDE DEF c, d
      <4>2. b + c = r + 1
        BY <4>1
      <4>3. QED BY <4>2 DEF c
    <3>2. Nth(r, r + 1) = 0
      BY DEF Nth
    <3>3. QED BY <1>1, <2>2, <3>1, <3>2
  <2>3. QED BY <1>1, <2>1, <2>2
<1>5. b + Cardinality(T) = r + 1
  BY <1>1, <1>2, <1>3
<1>6. QED
  <2>1. /\ \A i \in Ins(w, p) :
             w[i].n = Nth(r, Past(p, q, ch, e) + Cardinality(UpTo(Ins(w, p), i)))
        /\ Past(p, q, ch, e) + Cardinality(Ins(w, p)) = r + 1
    BY <1>4, <1>5 DEF S, T, b
  <2>2. Ordered(p, q, ch, e, w, r, 1)
    BY <2>1 DEF Ordered
  <2>3. QED BY <2>2 DEF w

ForFirst(v, p) == IF IsFor(v[1], p) THEN 1 ELSE 0
\* The loop takes the first tick off.  The others move up ...
LEMMA InsRun ==
  ASSUME NEW p, NEW v \in Seq(TickType), v # <<>>
  PROVE  /\ Cardinality(Ins(v, p)) = Cardinality(Ins(Tail(v), p)) + ForFirst(v, p)
         /\ \A i \in Ins(Tail(v), p) :
              /\ i + 1 \in Ins(v, p) /\ Tail(v)[i] = v[i + 1]
              /\ Cardinality(UpTo(Ins(v, p), i + 1))
                   = Cardinality(UpTo(Ins(Tail(v), p), i)) + ForFirst(v, p)
              /\ Cardinality(UpTo(Ins(Tail(v), p), i)) \in Nat
         /\ Cardinality(Ins(Tail(v), p)) \in Nat
         /\ ForFirst(v, p) = 1 => 1 \in Ins(v, p) /\ Cardinality(UpTo(Ins(v, p), 1)) = 1
<1> DEFINE n == Len(v)
           w == Tail(v)
           S == Ins(v, p)
           T == Ins(w, p)
<1>1. /\ n \in Nat /\ n > 0 /\ Len(w) = n - 1
      /\ \A i \in 1..(n - 1) : w[i] = v[i + 1] /\ i + 1 \in 1..n
  OBVIOUS
<1> HIDE DEF w
<1>2. S \subseteq 1..n /\ T \subseteq 1..(n - 1)
  BY <1>1 DEF Ins
<1>3. T = Shorter(S, n)
  BY <1>1 DEF Ins, Shorter
<1>4. ForFirst(v, p) = AtFirst(S) /\ (AtFirst(S) = 1 => 1 \in S)
  <2>1. 1 \in 1..n
    BY <1>1
  <2>2. QED BY <2>1 DEF Ins, IsFor, ForFirst, AtFirst
<1>5. \A i \in T : i + 1 \in S /\ w[i] = v[i + 1]
  BY <1>1, <1>2, <1>3 DEF Shorter
<1>6. Cardinality(T) \in Nat /\ \A i : Cardinality(UpTo(T, i)) \in Nat
  <2>1. n - 1 \in Nat
    BY <1>1
  <2>2. QED BY <2>1, <1>2, Positions
<1> HIDE DEF n, S, T
<1>7. /\ Cardinality(S) = Cardinality(T) + AtFirst(S)
      /\ \A i \in T : Cardinality(UpTo(S, i + 1)) = Cardinality(UpTo(T, i)) + AtFirst(S)
      /\ AtFirst(S) = 1 => Cardinality(UpTo(S, 1)) = 1
  <2>1. n \in Nat \ {0} /\ S \in SUBSET (1..n)
    BY <1>1, <1>2
  <2>2. /\ Cardinality(S) = Cardinality(Shorter(S, n)) + AtFirst(S)
        /\ \A i \in Shorter(S, n) :
             Cardinality(UpTo(S, i + 1)) = Cardinality(UpTo(Shorter(S, n), i)) + AtFirst(S)
        /\ AtFirst(S) = 1 => Cardinality(UpTo(S, 1)) = 1
    BY <2>1, MovedUp
  <2>3. QED BY <2>2, <1>3, Zenon
<1>8. QED BY <1>4, <1>5, <1>6, <1>7 DEF S, T, w

\* ... and if it was not for this pipe, its output is as it was, ...
LEMMA OrderedPassed ==
  ASSUME NEW p, NEW q, NEW ch, NEW e, NEW v \in Seq(TickType), v # <<>>, NEW r, NEW f,
         Ordered(p, q, ch, e, v, r, f), ~IsFor(v[1], p)
  PROVE  Ordered(p, q, ch, e, Tail(v), r, f)
<1> DEFINE w == Tail(v)
           S == Ins(v, p)
           T == Ins(w, p)
<1>1. /\ Cardinality(S) = Cardinality(T) + 0
      /\ \A i \in T : /\ i + 1 \in S /\ w[i] = v[i + 1]
                      /\ Cardinality(UpTo(S, i + 1)) = Cardinality(UpTo(T, i)) + 0
                      /\ Cardinality(UpTo(T, i)) \in Nat
      /\ Cardinality(T) \in Nat
  <2>1. ForFirst(v, p) = 0
    BY DEF ForFirst
  <2>2. /\ Cardinality(S) = Cardinality(T) + ForFirst(v, p)
        /\ \A i \in T : /\ i + 1 \in S /\ w[i] = v[i + 1]
                        /\ Cardinality(UpTo(S, i + 1))
                             = Cardinality(UpTo(T, i)) + ForFirst(v, p)
                        /\ Cardinality(UpTo(T, i)) \in Nat
        /\ Cardinality(T) \in Nat
    BY InsRun, Zenon
  <2>3. QED BY <2>1, <2>2, Zenon
<1> HIDE DEF w
<1>2. Cardinality(S) = Cardinality(T)
  BY <1>1
<1>3. \A i \in T : Cardinality(UpTo(S, i + 1)) = Cardinality(UpTo(T, i))
  BY <1>1
<1>4. \A i \in T : w[i].n = Nth(r, Past(p, q, ch, e) + Cardinality(UpTo(T, i)))
  <2> TAKE i \in T
  <2>1. v[i + 1].n = Nth(r, Past(p, q, ch, e) + Cardinality(UpTo(S, i + 1)))
    BY <1>1 DEF Ordered
  <2>2. QED BY <1>1, <1>3, <2>1
<1>5. Ordered(p, q, ch, e, w, r, f)
  BY <1>2, <1>4 DEF Ordered
<1>6. QED BY <1>5 DEF w

\* ... or the stream now keeps the chunk, for nothing has ended before it, ...
LEMMA OrderedKept ==
  ASSUME NEW p, NEW q \in Seq(EventType), NEW ch \in Seq(Nat), NEW e \in {0, 1},
         NEW v \in Seq(TickType), v # <<>>, NEW r \in Nat, NEW f \in {0, 1},
         Ordered(p, q, ch, e, v, r, f), IsFor(v[1], p)
  PROVE  /\ e = 0
         /\ Ordered(p, q, Append(ch, v[1].n), 0, Tail(v), r, f)
         /\ v[1].n = 0 => Ordered(p, q, ch, 1, Tail(v), r, f)
<1> DEFINE w == Tail(v)
           S == Ins(v, p)
           T == Ins(w, p)
           b == Past(p, q, ch, e)
           a == Cardinality(Outs(q, p))
           x == v[1].n
           c == Append(ch, x)
           ctT == Cardinality(T)
<1>1. /\ Cardinality(S) = ctT + 1 /\ ctT \in Nat
      /\ \A i \in T : /\ i + 1 \in S /\ w[i] = v[i + 1]
                      /\ Cardinality(UpTo(S, i + 1)) = Cardinality(UpTo(T, i)) + 1
                      /\ Cardinality(UpTo(T, i)) \in Nat
      /\ 1 \in S /\ Cardinality(UpTo(S, 1)) = 1
  <2>1. ForFirst(v, p) = 1
    BY DEF ForFirst
  <2>2. /\ Cardinality(S) = Cardinality(T) + ForFirst(v, p)
        /\ \A i \in T : /\ i + 1 \in S /\ w[i] = v[i + 1]
                        /\ Cardinality(UpTo(S, i + 1))
                             = Cardinality(UpTo(T, i)) + ForFirst(v, p)
                        /\ Cardinality(UpTo(T, i)) \in Nat
        /\ Cardinality(T) \in Nat
        /\ ForFirst(v, p) = 1 => 1 \in S /\ Cardinality(UpTo(S, 1)) = 1
    BY InsRun, Zenon
  <2>3. QED BY <2>1, <2>2, Zenon
<1>2. Len(q) \in Nat /\ Len(v) \in Nat /\ Len(ch) \in Nat /\ x \in Nat
  <2>1. v[1] \in TickType /\ Len(q) \in Nat /\ Len(v) \in Nat /\ Len(ch) \in Nat
    OBVIOUS
  <2>2. QED BY <2>1 DEF TickType
<1>3. a \in Nat
  BY <1>2, CountTypes
<1>4. b = a + Len(ch) + e /\ b \in Nat
  BY <1>2, <1>3 DEF Past
<1>5. b + (ctT + 1) = r + f
  BY <1>1 DEF Ordered
<1>o. /\ \A i \in Outs(q, p) : q[i].n = Nth(r, Cardinality(UpTo(Outs(q, p), i)))
      /\ \A k \in 1..Len(ch) : ch[k] = Nth(r, a + k)
      /\ e = 1 => Nth(r, b) = 0
      /\ \A i \in S : v[i].n = Nth(r, b + Cardinality(UpTo(S, i)))
  BY DEF Ordered
<1> HIDE DEF w, S, T, b, a, ctT
<1>6. e = 0
  <2>1. ASSUME e = 1 PROVE FALSE
    <3>1. b = r + 1
      BY <1>o, <1>2, <1>3, <1>4, <2>1 DEF Nth
    <3>2. QED BY <1>1, <1>5, <3>1
  <2>2. QED BY <2>1
<1>7. x = Nth(r, b + 1)
  BY <1>o, <1>1
<1>8. \A i \in T : w[i].n = Nth(r, b + 1 + Cardinality(UpTo(T, i)))
  <2> TAKE i \in T
  <2>1. v[i + 1].n = Nth(r, b + Cardinality(UpTo(S, i + 1)))
    BY <1>1, <1>o
  <2>2. b + Cardinality(UpTo(S, i + 1)) = b + 1 + Cardinality(UpTo(T, i))
    BY <1>1, <1>4
  <2>3. QED BY <1>1, <2>1, <2>2
<1>9. b + 1 + ctT = r + f
  BY <1>1, <1>4, <1>5
<1>10. Ordered(p, q, c, 0, w, r, f)
  <2>1. Len(c) = Len(ch) + 1 /\ c[Len(ch) + 1] = x /\ \A k \in 1..Len(ch) : c[k] = ch[k]
    BY <1>2
  <2> HIDE DEF c
  <2>2. Past(p, q, c, 0) = b + 1
    BY <1>2, <1>3, <1>4, <1>6, <2>1 DEF Past, a
  <2>3. \A k \in 1..Len(c) : c[k] = Nth(r, a + k)
    <3> TAKE k \in 1..Len(c)
    <3>1. CASE k \in 1..Len(ch)
      BY <1>o, <2>1, <3>1
    <3>2. CASE k = Len(ch) + 1
      <4>1. a + k = b + 1
        BY <1>2, <1>3, <1>4, <1>6, <3>2
      <4>2. QED BY <1>7, <2>1, <3>2, <4>1
    <3>3. QED BY <1>2, <2>1, <3>1, <3>2
  <2>4. QED BY <1>o, <1>8, <1>9, <2>2, <2>3 DEF Ordered, a, T, ctT
<1>11. ASSUME x = 0 PROVE Ordered(p, q, ch, 1, w, r, f)
  <2>1. Past(p, q, ch, 1) = b + 1
    BY <1>2, <1>3, <1>4, <1>6 DEF Past, a
  <2>2. Nth(r, b + 1) = 0
    BY <1>7, <1>11
  <2>3. QED BY <1>o, <1>8, <1>9, <2>1, <2>2 DEF Ordered, a, T, ctT
<1>12. QED BY <1>6, <1>10, <1>11 DEF w


-----------------------------------------------------------------------------
(* Steps of the output *)

\* What flushPendingStreamData emits is what the stream keeps, in order.
LEMMA EmittedIs ==
  ASSUME NEW p \in Pipes, NEW st \in StreamType, st.listening \/ st.resumed
  PROVE  /\ Emitted(p, st) \in Seq(EventType)
         /\ Len(Emitted(p, st)) = Len(st.chunks) + Bit(st.ended)
         /\ AllOut(Emitted(p, st), p)
         /\ \A i \in 1..Len(st.chunks) : Emitted(p, st)[i].n = st.chunks[i]
         /\ Bit(st.ended) = 1 => Emitted(p, st)[Len(st.chunks) + 1].n = 0
<1> DEFINE n == Len(st.chunks)
           data == [i \in 1..n |-> Event("data", p[2], st.chunks[i])]
           end == IF st.ended THEN <<Event("end", p[2], 0)>> ELSE <<>>
           x == data \o end
<1>1. n \in Nat /\ \A i \in 1..n : st.chunks[i] \in Nat
  <2>1. st.chunks \in Seq(Nat)
    BY DEF StreamType
  <2>2. QED BY <2>1
<1>2. data \in Seq(EventType) /\ Len(data) = n
      /\ \A i \in 1..n : data[i].kind = "data" /\ data[i].s = p[2] /\ data[i].n = st.chunks[i]
  <2>1. \A i \in 1..n : data[i] \in EventType /\ data[i].kind = "data" /\ data[i].s = p[2]
                        /\ data[i].n = st.chunks[i]
    BY <1>1, PipeFacts DEF Event, EventType
  <2>2. data \in [1..n -> EventType]
    BY <2>1
  <2> HIDE DEF data, n
  <2>3. data \in Seq(EventType)
    BY <1>1, <2>2, SeqDef
  <2>4. Len(data) = n
    BY <1>1, <2>2, <2>3, LenProperties
  <2>5. QED BY <2>1, <2>3, <2>4
<1>3. end \in Seq(EventType) /\ Len(end) = Bit(st.ended) /\ Bit(st.ended) \in {0, 1}
      /\ (Bit(st.ended) = 1 => end[1].n = 0)
      /\ \A i \in 1..Len(end) : end[i].kind = "end" /\ end[i].s = p[2]
  <2>1. Event("end", p[2], 0) \in EventType
    BY PipeFacts DEF Event, EventType
  <2>2. CASE st.ended
    BY <2>1, <2>2 DEF Event, Bit
  <2>3. CASE ~st.ended
    <3>1. end = <<>> /\ Bit(st.ended) = 0
      BY <2>3 DEF Bit
    <3>2. QED BY <3>1, EmptySeq
  <2>4. QED BY <2>2, <2>3
<1> HIDE DEF data, end, n
<1>4. /\ x \in Seq(EventType) /\ Len(x) = n + Len(end)
      /\ \A i \in 1..n : x[i] = data[i]
      /\ \A i \in 1..Len(end) : x[n + i] = end[i]
      /\ \A i \in 1..Len(x) : i \in 1..n \/ (i - n \in 1..Len(end) /\ x[i] = end[i - n])
  BY <1>2, <1>3, ConcatAt
<1>5. Emitted(p, st) = x
  BY DEF Emitted, data, end, n
<1> HIDE DEF x
<1>6. AllOut(x, p)
  <2>1. \A i \in 1..Len(x) : x[i].s = p[2] /\ x[i].kind \in {"data", "end"}
    BY <1>2, <1>3, <1>4
  <2>2. QED BY <2>1 DEF AllOut, Output
<1>7. Bit(st.ended) = 1 => x[n + 1].n = 0
  <2>1. Bit(st.ended) = 1 => 1 \in 1..Len(end)
    BY <1>3
  <2>2. QED BY <1>3, <1>4, <2>1
<1>8. \A i \in 1..n : x[i].n = st.chunks[i]
  BY <1>2, <1>4
<1>9. /\ x \in Seq(EventType) /\ Len(x) = n + Bit(st.ended)
  BY <1>3, <1>4
<1>10. QED BY <1>5, <1>6, <1>7, <1>8, <1>9 DEF n

\* flushPendingStreamData moves output from the stream to what was emitted.
LEMMA OrderedFlush ==
  ASSUME NEW p \in Pipes, NEW st \in StreamType, NEW q \in Seq(EventType),
         NEW v \in Seq(TickType), NEW r \in Nat, NEW f,
         Ordered(p, q, st.chunks, Bit(st.ended), v, r, f)
  PROVE  Ordered(p, q \o Emitted(p, st), Flushed(st).chunks, Bit(Flushed(st).ended), v, r, f)
<1> DEFINE x == Emitted(p, st)
<1>1. CASE st.listening \/ st.resumed
  <2>1. Flushed(st).chunks = <<>> /\ Bit(Flushed(st).ended) = 0
    BY <1>1 DEF Flushed, Bit
  <2>2. /\ x \in Seq(EventType) /\ Len(x) = Len(st.chunks) + Bit(st.ended) /\ AllOut(x, p)
        /\ \A i \in 1..Len(st.chunks) : x[i].n = st.chunks[i]
        /\ Bit(st.ended) = 1 => x[Len(st.chunks) + 1].n = 0
    BY <1>1, EmittedIs, Zenon
  <2>3. st.chunks \in Seq(Nat) /\ Bit(st.ended) \in {0, 1}
    BY DEF StreamType, Bit
  <2> HIDE DEF x
  <2>4. Ordered(p, q \o x, <<>>, 0, v, r, f)
    BY <2>2, <2>3, OrderedFlushed
  <2>5. QED BY <2>1, <2>4 DEF x
<1>2. CASE ~(st.listening \/ st.resumed)
  <2>1. x = <<>> /\ Flushed(st) = st
    BY <1>2 DEF Emitted, Flushed
  <2>2. q \o <<>> = q
    OBVIOUS
  <2>3. QED BY <2>1, <2>2
<1>3. QED BY <1>1, <1>2

\* It is nothing to another pipe of the child.
LEMMA OrderedBeside ==
  ASSUME NEW p \in Pipes, NEW st \in StreamType, NEW o \in Pipes, o # p, o[1] = p[1],
         NEW q \in Seq(EventType), NEW ch, NEW e, NEW v, NEW r, NEW f,
         Ordered(o, q, ch, e, v, r, f)
  PROVE  Ordered(o, q \o Emitted(p, st), ch, e, v, r, f)
<1>1. o[2] # p[2]
  BY PipeFacts
<1>2. Emitted(p, st) \in Seq(EventType)
  BY FlushShape
<1>3. \A i \in 1..Len(Emitted(p, st)) : Emitted(p, st)[i].s # o[2]
  <2>1. CASE st.listening \/ st.resumed
    <3>1. AllOut(Emitted(p, st), p)
      BY <2>1, EmittedIs, Zenon
    <3>2. QED BY <1>1, <3>1 DEF AllOut
  <2>2. CASE ~(st.listening \/ st.resumed)
    BY <2>2 DEF Emitted
  <2>3. QED BY <2>1, <2>2
<1>4. QED BY <1>2, <1>3, OrderedElsewhere

\* A pipe is not read before its child is started, the tick for its end has no
\* number, and the output of every pipe is in order.
PumpsOff == \A p \in Pipes : waiter[p[1]] = "off" => pump[p] = "off"
EndsOK == \A i \in 1..Len(tickQ) : tickQ[i].kind = "end" => tickQ[i].n = 0
OutputOK == PumpsOff /\ EndsOK /\ AllOrdered

\* The pumps of a child are started with its waiter.
LEMMA StepPumps ==
  ASSUME TypeParts, PumpsOff, [Next]_vars
  PROVE  PumpsOff'
<1>1. ASSUME NEW c \in Children, SpawnStarts(c) PROVE PumpsOff'
  <2>1. \A p \in Pipes : p \in Of(c) \/ (pump'[p] = pump[p] /\ waiter'[p[1]] = waiter[p[1]])
    BY <1>1, PipeFacts DEF SpawnStarts, Of, TypeParts
  <2>2. \A p \in Of(c) : waiter'[p[1]] = "pumps"
    BY <1>1, PipeFacts DEF SpawnStarts, Of, TypeParts
  <2>3. QED BY <2>1, <2>2 DEF PumpsOff
<1>2. ASSUME NEW p \in Pipes, PumpEnds(p) \/ PumpDone(p) PROVE PumpsOff'
  <2>1. pump[p] # "off" /\ waiter' = waiter
    BY <1>2 DEF PumpEnds, PumpDone
  <2>2. \A o \in Pipes : o = p \/ pump'[o] = pump[o]
    BY <1>2 DEF PumpEnds, PumpDone, TypeParts
  <2>3. QED BY <2>1, <2>2 DEF PumpsOff
<1>3. ASSUME NEW c \in Children,
             PumpsWaited(c) \/ Reaps(c) \/ Marks(c) \/ Releases(c) \/ Forgets(c)
      PROVE  PumpsOff'
  <2>1. pump' = pump /\ \A d \in Children : waiter'[d] = "off" => waiter[d] = "off"
    BY <1>3 DEF PumpsWaited, Reaps, Marks, Releases, Forgets, TypeParts
  <2>2. QED BY <2>1, PipeFacts DEF PumpsOff
<1>4. ASSUME UNCHANGED <<pump, waiter>> PROVE PumpsOff'
  BY <1>4 DEF PumpsOff
<1>5. QED
  BY <1>1, <1>2, <1>3, <1>4
  DEF Next, vars, processes, SpawnFails, Unref, Ref, Exits, Listen, Resume, Pause, Writes, Closes,
      PumpReads, RunTick, Return, Leave

\* Ticks queued behind the others keep EndsOK.
LEMMA EndsAdded ==
  ASSUME TypeParts, EndsOK, NEW x \in Seq(TickType), tickQ' = tickQ \o x,
         \A i \in 1..Len(x) : x[i].kind = "end" => x[i].n = 0
  PROVE  EndsOK'
<1>1. \A i \in 1..Len(tickQ') : \/ i \in 1..Len(tickQ) /\ tickQ'[i] = tickQ[i]
                                \/ i - Len(tickQ) \in 1..Len(x) /\ tickQ'[i] = x[i - Len(tickQ)]
  BY ConcatAt DEF TypeParts
<1>2. QED BY <1>1 DEF EndsOK

\* Ticks that are no output, behind the others, keep the output in order.
LEMMA OutputAdded ==
  ASSUME TypeParts, EndsOK, AllOrdered, NEW x \in Seq(TickType), tickQ' = tickQ \o x,
         \A i \in 1..Len(x) : x[i].kind \notin Output,
         UNCHANGED <<seen, stream, pipe, pump>> 
  PROVE  EndsOK' /\ AllOrdered'
<1>1. EndsOK'
  BY EndsAdded DEF Output
<1>2. ASSUME NEW p \in Pipes
      PROVE  Ordered(p, seen'[p[1]], stream'[p].chunks, Bit(stream'[p].ended), tickQ',
                     pipe'[p].read, Bit(pump'[p] \in {"ended", "done"}))
  <2>1. Ordered(p, seen[p[1]], stream[p].chunks, Bit(stream[p].ended), tickQ, pipe[p].read,
                Bit(pump[p] \in {"ended", "done"}))
    BY DEF AllOrdered
  <2>2. tickQ \in Seq(TickType)
    BY DEF TypeParts
  <2>3. Ordered(p, seen[p[1]], stream[p].chunks, Bit(stream[p].ended), tickQ \o x,
                pipe[p].read, Bit(pump[p] \in {"ended", "done"}))
    BY <2>1, <2>2, OrderedQueued
  <2>4. QED BY <2>3
<1>3. AllOrdered'
  BY <1>2 DEF AllOrdered
<1>4. QED BY <1>1, <1>3

\* What a pump queues is output of its pipe, and of no other.
LEMMA OutputElsewhere ==
  ASSUME TypeParts, AllOrdered, NEW p \in Pipes, NEW t \in TickType, <<t.c, t.s>> = p,
         tickQ' = Append(tickQ, t), seen' = seen, stream' = stream, NEW o \in Pipes, o # p,
         pipe'[o] = pipe[o], pump'[o] = pump[o]
  PROVE  Ordered(o, seen'[o[1]], stream'[o].chunks, Bit(stream'[o].ended), tickQ',
                 pipe'[o].read, Bit(pump'[o] \in {"ended", "done"}))
<1>1. tickQ \in Seq(TickType) /\ <<t>> \in Seq(TickType) /\ tickQ' = tickQ \o <<t>>
  BY AppendIsConcat DEF TypeParts
<1>2. \A i \in 1..Len(<<t>>) : <<(<<t>>)[i].c, (<<t>>)[i].s>> # o
  OBVIOUS
<1>3. Ordered(o, seen[o[1]], stream[o].chunks, Bit(stream[o].ended), tickQ, pipe[o].read,
              Bit(pump[o] \in {"ended", "done"}))
  BY DEF AllOrdered
<1>4. Ordered(o, seen[o[1]], stream[o].chunks, Bit(stream[o].ended), tickQ \o <<t>>,
              pipe[o].read, Bit(pump[o] \in {"ended", "done"}))
  BY <1>1, <1>2, <1>3, OrderedQueued
<1>5. QED BY <1>1, <1>4

\* The types of what Ordered speaks of.
LEMMA OutputTypes ==
  ASSUME TypeParts
  PROVE  /\ tickQ \in Seq(TickType)
         /\ \A p \in Pipes : /\ seen[p[1]] \in Seq(EventType) /\ stream[p] \in StreamType
                             /\ stream[p].chunks \in Seq(Nat) /\ Bit(stream[p].ended) \in {0, 1}
                             /\ pipe[p].read \in Nat
                             /\ \A b : Bit(b) \in {0, 1}
<1>1. \A p \in Pipes : pipe[p].read \in Nat
  BY ChildAssumption DEF TypeParts, PipeType
<1>2. \A b : Bit(b) \in {0, 1}
  BY DEF Bit
<1>3. QED BY <1>1, <1>2, PipeFacts DEF TypeParts, StreamType

\* The pump queues what it reads, and its end.
LEMMA StepPumped ==
  ASSUME TypeParts, PumpOK, OutputOK, NEW p \in Pipes, PumpReads(p) \/ PumpEnds(p)
  PROVE  EndsOK' /\ AllOrdered'
<1> DEFINE r == pipe[p].read
           t == IF PumpReads(p) THEN Tick(p[1], "data", p[2], r + 1)
                                ELSE Tick(p[1], "end", p[2], 0)
           E == {"ended", "done"}
<1>1. /\ tickQ \in Seq(TickType) /\ seen[p[1]] \in Seq(EventType)
      /\ stream[p].chunks \in Seq(Nat) /\ Bit(stream[p].ended) \in {0, 1} /\ r \in Nat
  BY OutputTypes
<1>2. t \in TickType /\ <<t.c, t.s>> = p /\ t.kind \in Output /\ (t.kind = "end" => t.n = 0)
  <2>1. r + 1 \in Nat
    BY <1>1
  <2>2. QED BY <2>1, PipeFacts DEF Tick, TickType, Output
<1>3. tickQ' = Append(tickQ, t) /\ seen' = seen /\ stream' = stream /\ pump[p] = "read"
  BY DEF PumpReads, PumpEnds
<1>4. \A o \in Pipes : o # p => pipe'[o] = pipe[o] /\ pump'[o] = pump[o]
  BY DEF PumpReads, PumpEnds, processes, TypeParts
<1>5. Ordered(p, seen[p[1]], stream[p].chunks, Bit(stream[p].ended), tickQ, r, 0)
  <2>1. Bit(pump[p] \in E) = 0
    BY <1>3 DEF Bit
  <2>2. Ordered(p, seen[p[1]], stream[p].chunks, Bit(stream[p].ended), tickQ, r, Bit(pump[p] \in E))
    BY DEF OutputOK, AllOrdered
  <2>3. QED BY <2>1, <2>2, Zenon
<1>6. Ordered(p, seen'[p[1]], stream'[p].chunks, Bit(stream'[p].ended), tickQ',
              pipe'[p].read, Bit(pump'[p] \in E))
  <2>1. CASE PumpReads(p)
    <3>1. t.n = r + 1 /\ IsFor(t, p)
      BY <1>2, <2>1 DEF Tick, IsFor
    <3>2. pipe'[p].read = r + 1 /\ pump' = pump
      BY <2>1 DEF PumpReads, TypeParts, PipeType
    <3>3. Bit(pump'[p] \in E) = 0
      BY <1>3, <3>2 DEF Bit
    <3> HIDE DEF t, r, E
    <3>4. Ordered(p, seen[p[1]], stream[p].chunks, Bit(stream[p].ended), Append(tickQ, t), r + 1, 0)
      BY <1>1, <1>2, <1>5, <3>1, OrderedRead
    <3>5. QED BY <1>3, <3>2, <3>3, <3>4, Zenon
  <2>2. CASE ~PumpReads(p)
    <3>0. PumpEnds(p)
      BY <2>2
    <3>1. t.n = 0 /\ IsFor(t, p)
      BY <1>2, <2>2 DEF Tick, IsFor
    <3>2. pipe'[p].read = r /\ pump'[p] = "ended"
      BY <3>0 DEF PumpEnds, processes, TypeParts
    <3>3. Bit(pump'[p] \in E) = 1
      BY <3>2 DEF Bit
    <3> HIDE DEF t, r, E
    <3>4. Ordered(p, seen[p[1]], stream[p].chunks, Bit(stream[p].ended), Append(tickQ, t), r, 1)
      BY <1>1, <1>2, <1>5, <3>1, OrderedEnd
    <3>5. QED BY <1>3, <3>2, <3>3, <3>4, Zenon
  <2>3. QED BY <2>1, <2>2
<1>7. EndsOK'
  <2> HIDE DEF t
  <2>1. <<t>> \in Seq(TickType) /\ tickQ' = tickQ \o <<t>>
    BY <1>1, <1>2, <1>3, AppendIsConcat
  <2>2. \A i \in 1..Len(<<t>>) : (<<t>>)[i].kind = "end" => (<<t>>)[i].n = 0
    BY <1>2
  <2>3. QED BY <2>1, <2>2, EndsAdded DEF OutputOK
<1>8. ASSUME NEW o \in Pipes, o # p
      PROVE  Ordered(o, seen'[o[1]], stream'[o].chunks, Bit(stream'[o].ended), tickQ',
                     pipe'[o].read, Bit(pump'[o] \in E))
  <2> HIDE DEF t
  <2>1. QED BY <1>2, <1>3, <1>4, <1>8, OutputElsewhere DEF OutputOK
<1>9. AllOrdered'
  BY <1>6, <1>8 DEF AllOrdered
<1>10. QED BY <1>7, <1>9

\* resume() emits what the stream keeps.
LEMMA StepResumed ==
  ASSUME TypeParts, OutputOK, NEW p \in Pipes, Resume(p)
  PROVE  EndsOK' /\ AllOrdered'
<1> DEFINE st == [stream[p] EXCEPT !.resumed = TRUE]
           E == {"ended", "done"}
<1>1. st \in StreamType /\ st.chunks = stream[p].chunks /\ st.ended = stream[p].ended
  <2>1. stream[p] \in StreamType
    BY DEF TypeParts
  <2>2. st \in StreamType
    BY <2>1, StreamTypes
  <2>3. QED BY <2>1, <2>2 DEF StreamType
<1>2. /\ stream' = [stream EXCEPT ![p] = Flushed(st)]
      /\ seen' = [seen EXCEPT ![p[1]] = seen[p[1]] \o Emitted(p, st)]
      /\ UNCHANGED <<tickQ, pipe, pump>>
  BY DEF Resume, Flush, processes
<1> HIDE DEF st
<1>3. ASSUME NEW o \in Pipes
      PROVE  Ordered(o, seen'[o[1]], stream'[o].chunks, Bit(stream'[o].ended), tickQ',
                     pipe'[o].read, Bit(pump'[o] \in E))
  <2>0. Ordered(o, seen[o[1]], stream[o].chunks, Bit(stream[o].ended), tickQ, pipe[o].read,
                Bit(pump[o] \in E))
    BY DEF OutputOK, AllOrdered
  <2>1. /\ tickQ \in Seq(TickType) /\ seen[o[1]] \in Seq(EventType) /\ pipe[o].read \in Nat
    BY OutputTypes
  <2> HIDE DEF E
  <2>2. CASE o = p
    <3>1. Ordered(p, seen[p[1]], st.chunks, Bit(st.ended), tickQ, pipe[p].read, Bit(pump[p] \in E))
      BY <1>1, <2>0, <2>2
    <3>2. Ordered(p, seen[p[1]] \o Emitted(p, st), Flushed(st).chunks, Bit(Flushed(st).ended),
                  tickQ, pipe[p].read, Bit(pump[p] \in E))
      BY <1>1, <2>1, <2>2, <3>1, OrderedFlush
    <3>3. seen'[p[1]] = seen[p[1]] \o Emitted(p, st) /\ stream'[p] = Flushed(st)
      BY <1>2, PipeFacts DEF TypeParts
    <3>4. QED BY <1>2, <2>2, <3>2, <3>3
  <2>3. CASE o # p /\ o[1] = p[1]
    <3>1. Ordered(o, seen[o[1]] \o Emitted(p, st), stream[o].chunks, Bit(stream[o].ended),
                  tickQ, pipe[o].read, Bit(pump[o] \in E))
      BY <1>1, <2>0, <2>1, <2>3, OrderedBeside
    <3>2. seen'[o[1]] = seen[o[1]] \o Emitted(p, st) /\ stream'[o] = stream[o]
      BY <1>2, <2>3, PipeFacts DEF TypeParts
    <3>3. QED BY <1>2, <3>1, <3>2
  <2>4. CASE o # p /\ o[1] # p[1]
    <3>1. seen'[o[1]] = seen[o[1]] /\ stream'[o] = stream[o]
      BY <1>2, <2>4, PipeFacts DEF TypeParts
    <3>2. QED BY <1>2, <2>0, <3>1
  <2>5. QED BY <2>2, <2>3, <2>4
<1>4. AllOrdered'
  BY <1>3 DEF AllOrdered
<1>5. EndsOK'
  BY <1>2 DEF OutputOK, EndsOK
<1>6. QED BY <1>4, <1>5

TickOf(t) == <<t.c, t.s>>

\* The first tick is for the stream of p: it keeps what the tick brings.
LEMMA OrderedReceived ==
  ASSUME TypeParts, TicksOK, OutputOK, tickQ # <<>>, NEW p \in Pipes,
         p = TickOf(Head(tickQ))
  PROVE  /\ Received(stream[p], Head(tickQ)) \in StreamType
         /\ Ordered(p, seen[p[1]], Received(stream[p], Head(tickQ)).chunks,
                    Bit(Received(stream[p], Head(tickQ)).ended), Tail(tickQ), pipe[p].read,
                    Bit(pump[p] \in {"ended", "done"}))
<1> DEFINE t == Head(tickQ)
           st == stream[p]
           sr == Received(st, t)
           e == Bit(st.ended)
           r == pipe[p].read
           f == Bit(pump[p] \in {"ended", "done"})
<1>1. /\ tickQ \in Seq(TickType) /\ seen[p[1]] \in Seq(EventType) /\ st \in StreamType
      /\ st.chunks \in Seq(Nat) /\ e \in {0, 1} /\ r \in Nat /\ f \in {0, 1}
  BY OutputTypes
<1>2. t = tickQ[1] /\ t \in TickType /\ 1 \in 1..Len(tickQ)
  BY <1>1
<1>3. t.n \in Nat /\ t.kind \in {"data", "end", "flush"} /\ (t.kind = "end" => t.n = 0)
  <2>1. t.n \in Nat /\ TickOK(t) /\ (t.kind = "end" => t.n = 0)
    BY <1>2 DEF TickType, TicksOK, OutputOK, EndsOK
  <2>2. t.s # "none" /\ <<t.c, t.s>> = p
    BY PipeFacts DEF TickOf
  <2>3. QED BY <2>1, <2>2 DEF TickOK
<1>4. sr \in StreamType
  BY <1>1, <1>3, StreamTypes DEF Received
<1>5. Ordered(p, seen[p[1]], st.chunks, e, tickQ, r, f)
  BY DEF OutputOK, AllOrdered
<1>6. t.kind \in Output => IsFor(tickQ[1], p)
  BY <1>2 DEF IsFor, TickOf
<1>6a. IsFor(tickQ[1], p) => t.kind \in Output
  BY <1>2 DEF IsFor
<1> HIDE DEF e, f, r
<1>7. ASSUME IsFor(tickQ[1], p)
      PROVE  /\ e = 0
             /\ Ordered(p, seen[p[1]], Append(st.chunks, tickQ[1].n), 0, Tail(tickQ), r, f)
             /\ tickQ[1].n = 0 => Ordered(p, seen[p[1]], st.chunks, 1, Tail(tickQ), r, f)
  <2> DEFINE ch == st.chunks
             q == seen[p[1]]
  <2>1. /\ tickQ \in Seq(TickType) /\ tickQ # <<>> /\ q \in Seq(EventType) /\ ch \in Seq(Nat)
        /\ e \in {0, 1} /\ r \in Nat /\ f \in {0, 1} /\ Ordered(p, q, ch, e, tickQ, r, f)
    BY <1>1, <1>5
  <2> HIDE DEF ch, q
  <2>2. /\ e = 0
        /\ Ordered(p, q, Append(ch, tickQ[1].n), 0, Tail(tickQ), r, f)
        /\ tickQ[1].n = 0 => Ordered(p, q, ch, 1, Tail(tickQ), r, f)
    BY <1>7, <2>1, OrderedKept, ZenonT(60)
  <2>3. QED BY <2>2 DEF ch, q
<1>8. Ordered(p, seen[p[1]], sr.chunks, Bit(sr.ended), Tail(tickQ), r, f)
  <2>1. CASE t.kind = "data"
    <3>1. sr.chunks = Append(st.chunks, t.n) /\ sr.ended = st.ended
      BY <1>1, <2>1 DEF Received, StreamType
    <3>2. e = 0 /\ Ordered(p, seen[p[1]], Append(st.chunks, t.n), 0, Tail(tickQ), r, f)
      BY <1>2, <1>6, <1>7, <2>1 DEF Output
    <3>3. Bit(sr.ended) = e
      BY <3>1 DEF e
    <3> HIDE DEF sr, st, t
    <3>4. QED BY <3>1, <3>2, <3>3
  <2>2. CASE t.kind = "end"
    <3>1. sr.chunks = st.chunks /\ sr.ended = TRUE
      BY <1>1, <2>2 DEF Received, StreamType
    <3>2. Ordered(p, seen[p[1]], st.chunks, 1, Tail(tickQ), r, f)
      BY <1>2, <1>3, <1>6, <1>7, <2>2 DEF Output
    <3>3. Bit(sr.ended) = 1
      BY <3>1 DEF Bit
    <3> HIDE DEF sr, st, t
    <3>4. QED BY <3>1, <3>2, <3>3
  <2>3. CASE t.kind = "flush"
    <3>1. sr = st
      BY <2>3 DEF Received
    <3>2. ~IsFor(tickQ[1], p)
      BY <1>6a, <2>3 DEF Output
    <3>3. Ordered(p, seen[p[1]], st.chunks, e, Tail(tickQ), r, f)
      BY <1>1, <1>5, <3>2, OrderedPassed
    <3>4. QED BY <3>1, <3>3 DEF e
  <2>4. QED BY <1>3, <2>1, <2>2, <2>3
<1>9. QED BY <1>4, <1>8 DEF r, f

\* A tick that runs: its stream keeps it and is flushed, the others' output is
\* as before.
LEMMA StepTicked ==
  ASSUME TypeParts, TicksOK, OutputOK, RunTick
  PROVE  EndsOK' /\ AllOrdered'
<1> DEFINE t == Head(tickQ)
           E == {"ended", "done"}
<1>1. tickQ # <<>> /\ tickQ' = Tail(tickQ) /\ UNCHANGED <<pipe, pump>>
  BY DEF RunTick, processes
<1>2. /\ t = tickQ[1] /\ t \in TickType /\ TickOK(t) /\ tickQ \in Seq(TickType)
      /\ \A i \in 1..Len(tickQ') : i + 1 \in 1..Len(tickQ) /\ tickQ'[i] = tickQ[i + 1]
  <2>1. /\ t = tickQ[1] /\ t \in TickType /\ 1 \in 1..Len(tickQ)
        /\ \A i \in 1..Len(tickQ') : i + 1 \in 1..Len(tickQ) /\ tickQ'[i] = tickQ[i + 1]
    BY <1>1, TickTaken
  <2>2. TickOK(t) /\ tickQ \in Seq(TickType)
    BY <2>1 DEF TicksOK, TypeParts
  <2>3. QED BY <2>1, <2>2
<1>3. EndsOK'
  BY <1>2 DEF OutputOK, EndsOK
<1>p. \A o \in Pipes : o = <<o[1], o[2]>> /\ o[1] \in Children /\ o[2] # "none"
  BY PipeFacts
<1>4. ASSUME NEW o \in Pipes, o # TickOf(t)
      PROVE  Ordered(o, seen[o[1]], stream[o].chunks, Bit(stream[o].ended), Tail(tickQ),
                     pipe[o].read, Bit(pump[o] \in E))
  <2>1. Ordered(o, seen[o[1]], stream[o].chunks, Bit(stream[o].ended), tickQ, pipe[o].read,
                Bit(pump[o] \in E))
    BY DEF OutputOK, AllOrdered
  <2>2. ~IsFor(tickQ[1], o)
    BY <1>2, <1>4 DEF IsFor, TickOf
  <2> HIDE DEF E
  <2>3. QED BY <1>1, <1>2, <2>1, <2>2, OrderedPassed
<1>5. CASE TickOf(t) \in Pipes
  <2> DEFINE p == TickOf(t)
             st == Received(stream[p], t)
  <2>1. p \in Pipes /\ p[1] = t.c /\ p[2] = t.s
    BY <1>5 DEF TickOf
  <2>2. /\ stream' = [stream EXCEPT ![p] = Flushed(st)]
        /\ seen' = [seen EXCEPT ![p[1]] = seen[p[1]] \o Emitted(p, st)]
    BY <1>5 DEF RunTick, Flush, TickOf
  <2>3. /\ st \in StreamType
        /\ Ordered(p, seen[p[1]], st.chunks, Bit(st.ended), Tail(tickQ), pipe[p].read,
                   Bit(pump[p] \in E))
    BY <1>1, <2>1, OrderedReceived
  <2> HIDE DEF st, p, E
  <2>4. ASSUME NEW o \in Pipes
        PROVE  Ordered(o, seen'[o[1]], stream'[o].chunks, Bit(stream'[o].ended), tickQ',
                       pipe'[o].read, Bit(pump'[o] \in E))
    <3>1. seen[o[1]] \in Seq(EventType) /\ pipe[o].read \in Nat /\ Tail(tickQ) \in Seq(TickType)
      BY <1>1, <1>2, OutputTypes
    <3>2. CASE o = p
      <4>1. Ordered(p, seen[p[1]] \o Emitted(p, st), Flushed(st).chunks, Bit(Flushed(st).ended),
                    Tail(tickQ), pipe[p].read, Bit(pump[p] \in E))
        BY <2>1, <2>3, <3>1, <3>2, OrderedFlush
      <4>2. seen'[p[1]] = seen[p[1]] \o Emitted(p, st) /\ stream'[p] = Flushed(st)
        BY <1>p, <2>1, <2>2 DEF TypeParts
      <4>3. QED BY <1>1, <3>2, <4>1, <4>2
    <3>3. CASE o # p
      <4>1. Ordered(o, seen[o[1]], stream[o].chunks, Bit(stream[o].ended), Tail(tickQ),
                    pipe[o].read, Bit(pump[o] \in E))
        BY <1>4, <3>3 DEF p, E
      <4>2. stream'[o] = stream[o]
        BY <2>2, <3>3 DEF TypeParts
      <4>3. CASE o[1] = p[1]
        <5>1. Ordered(o, seen[o[1]] \o Emitted(p, st), stream[o].chunks, Bit(stream[o].ended),
                      Tail(tickQ), pipe[o].read, Bit(pump[o] \in E))
          BY <2>1, <2>3, <3>1, <3>3, <4>1, <4>3, OrderedBeside
        <5>2. seen'[o[1]] = seen[o[1]] \o Emitted(p, st)
          BY <1>p, <2>2, <4>3 DEF TypeParts
        <5>3. QED BY <1>1, <4>2, <5>1, <5>2
      <4>4. CASE o[1] # p[1]
        <5>1. seen'[o[1]] = seen[o[1]]
          BY <1>p, <2>2, <4>4 DEF TypeParts
        <5>2. QED BY <1>1, <4>1, <4>2, <5>1
      <4>5. QED BY <4>3, <4>4
    <3>4. QED BY <3>2, <3>3
  <2>5. AllOrdered'
    BY <2>4 DEF AllOrdered, E
  <2>6. QED BY <1>3, <2>5
<1>6. CASE TickOf(t) \notin Pipes
  <2> DEFINE x == IF t.kind = "exit"
                    THEN <<Event("exit", "none", 0), Event("close", "none", 0)>>
                    ELSE <<Event(t.kind, "none", 0)>>
  <2>1. t.kind \in {"error", "close", "exit"} /\ t.c \in Children
    BY <1>2, <1>6 DEF TickOK, TickOf, TickType
  <2>2. x \in Seq(EventType) /\ \A i \in 1..Len(x) : x[i].s = "none"
    <3>1. Event("exit", "none", 0) \in EventType /\ Event("close", "none", 0) \in EventType
          /\ Event(t.kind, "none", 0) \in EventType
      BY <2>1 DEF Event, EventType
    <3>2. CASE t.kind = "exit"
      <4>1. x \in Seq(EventType) /\ Len(x) = 2 /\ x[1].s = "none" /\ x[2].s = "none"
        BY <3>1, <3>2 DEF Event
      <4>2. \A i \in 1..2 : i = 1 \/ i = 2
        OBVIOUS
      <4> HIDE DEF x
      <4>3. QED BY <4>1, <4>2
    <3>3. CASE t.kind # "exit"
      <4>1. x \in Seq(EventType) /\ Len(x) = 1 /\ x[1].s = "none"
        BY <3>1, <3>3 DEF Event
      <4>2. \A i \in 1..1 : i = 1
        OBVIOUS
      <4> HIDE DEF x
      <4>3. QED BY <4>1, <4>2
    <3>4. QED BY <3>2, <3>3
  <2>3. seen' = [seen EXCEPT ![t.c] = seen[t.c] \o x] /\ stream' = stream
    BY <1>6 DEF RunTick, TickOf
  <2> HIDE DEF x, E
  <2>4. ASSUME NEW o \in Pipes
        PROVE  Ordered(o, seen'[o[1]], stream'[o].chunks, Bit(stream'[o].ended), tickQ',
                       pipe'[o].read, Bit(pump'[o] \in E))
    <3>1. Ordered(o, seen[o[1]], stream[o].chunks, Bit(stream[o].ended), Tail(tickQ),
                  pipe[o].read, Bit(pump[o] \in E))
      BY <1>4, <1>6 DEF E
    <3>2. seen[o[1]] \in Seq(EventType) /\ \A i \in 1..Len(x) : x[i].s # o[2]
      BY <1>p, <2>2, OutputTypes
    <3>3. CASE o[1] = t.c
      <4>1. seen'[o[1]] = seen[o[1]] \o x
        BY <2>1, <2>3, <3>3 DEF TypeParts
      <4>2. Ordered(o, seen[o[1]] \o x, stream[o].chunks, Bit(stream[o].ended), Tail(tickQ),
                    pipe[o].read, Bit(pump[o] \in E))
        BY <2>2, <3>1, <3>2, OrderedElsewhere
      <4>3. QED BY <1>1, <2>3, <4>1, <4>2
    <3>4. CASE o[1] # t.c
      <4>1. seen'[o[1]] = seen[o[1]]
        BY <1>p, <2>3, <3>4 DEF TypeParts
      <4>2. QED BY <1>1, <2>3, <3>1, <4>1
    <3>5. QED BY <3>3, <3>4
  <2>5. AllOrdered'
    BY <2>4 DEF AllOrdered, E
  <2>6. QED BY <1>3, <2>5
<1>7. QED BY <1>5, <1>6

\* Every step keeps the output of every pipe in order.
LEMMA StepOutput ==
  ASSUME IInv, OutputOK, [Next]_vars
  PROVE  OutputOK'
<1>0. TypeParts /\ TicksOK /\ PumpOK /\ HandleOK /\ PumpsOff /\ EndsOK /\ AllOrdered
  BY TypeFold DEF IInv, OutputOK
<1>1. PumpsOff'
  BY <1>0, StepPumps
<1> DEFINE Goal == EndsOK' /\ AllOrdered'
           E == {"ended", "done"}
<1>2. ASSUME NEW p \in Pipes, PumpReads(p) \/ PumpEnds(p) PROVE Goal
  BY <1>0, <1>2, StepPumped
<1>3. ASSUME NEW p \in Pipes, Resume(p) PROVE Goal
  BY <1>0, <1>3, StepResumed
<1>4. ASSUME RunTick PROVE Goal
  BY <1>0, <1>4, StepTicked
<1>5. ASSUME UNCHANGED <<seen, tickQ>>,
             \A p \in Pipes : /\ stream'[p].chunks = stream[p].chunks
                              /\ stream'[p].ended = stream[p].ended
                              /\ pipe'[p].read = pipe[p].read
                              /\ pump'[p] \in E <=> pump[p] \in E
      PROVE  Goal
  <2>1. EndsOK'
    BY <1>0, <1>5 DEF EndsOK
  <2>2. \A p \in Pipes : /\ Bit(stream'[p].ended) = Bit(stream[p].ended)
                         /\ Bit(pump'[p] \in E) = Bit(pump[p] \in E)
    BY <1>5 DEF Bit
  <2> HIDE DEF E
  <2>3. \A p \in Pipes : Ordered(p, seen[p[1]], stream[p].chunks, Bit(stream[p].ended), tickQ,
                                 pipe[p].read, Bit(pump[p] \in E))
    BY <1>0 DEF AllOrdered, E
  <2>4. \A p \in Pipes : Ordered(p, seen'[p[1]], stream'[p].chunks, Bit(stream'[p].ended),
                                 tickQ', pipe'[p].read, Bit(pump'[p] \in E))
    BY <1>5, <2>2, <2>3
  <2>5. QED BY <2>1, <2>4 DEF AllOrdered, E
<1>6. ASSUME NEW c \in Children, SpawnStarts(c) PROVE Goal
  <2>1. UNCHANGED <<seen, tickQ, stream>>
    BY <1>6 DEF SpawnStarts
  <2>2. \A p \in Pipes : pipe'[p].read = pipe[p].read
    BY <1>0, <1>6 DEF SpawnStarts, TypeParts, PipeType
  <2>3. \A p \in Pipes : pump'[p] \in E <=> pump[p] \in E
    <3>1. waiter[c] = "off"
      BY <1>0, <1>6 DEF SpawnStarts, HandleOK
    <3>2. \A p \in Of(c) : pump[p] = "off" /\ pump'[p] = "read"
      BY <1>0, <1>6, <3>1 DEF SpawnStarts, PumpsOff, Of
    <3>3. \A p \in Pipes : p \in Of(c) \/ pump'[p] = pump[p]
      BY <1>6 DEF SpawnStarts
    <3>4. QED BY <3>2, <3>3
  <2>4. QED BY <1>5, <2>1, <2>2, <2>3
<1>7. ASSUME NEW x \in Seq(TickType), tickQ' = tickQ \o x,
             \A i \in 1..Len(x) : x[i].kind \notin Output,
             UNCHANGED <<seen, stream, pipe, pump>>
      PROVE  Goal
  BY <1>0, <1>7, OutputAdded
<1>8. ASSUME NEW c \in Children, SpawnFails(c) PROVE Goal
  <2> DEFINE x == <<Tick(c, "error", "none", 0), Tick(c, "close", "none", 0)>>
  <2>1. x \in Seq(TickType) /\ Len(x) = 2 /\ x[1].kind = "error" /\ x[2].kind = "close"
    BY DEF Tick, TickType
  <2>2. tickQ' = tickQ \o x /\ UNCHANGED <<seen, stream, pipe, pump>>
    BY <1>8 DEF SpawnFails
  <2> HIDE DEF x
  <2>3. \A i \in 1..Len(x) : x[i].kind \notin Output
    BY <2>1 DEF Output
  <2>4. QED BY <1>7, <2>1, <2>2, <2>3
<1>9. ASSUME NEW c \in Children, Reaps(c) PROVE Goal
  <2> DEFINE e == Tick(c, "error", "none", 0)
             x == Tick(c, "exit", "none", 0)
  <2>1. e \in TickType /\ x \in TickType /\ e.kind = "error" /\ x.kind = "exit"
    BY DEF Tick, TickType
  <2>2. PICK failed \in BOOLEAN : tickQ' = tickQ \o (IF failed THEN <<e>> ELSE <<>>) \o <<x>>
    BY <1>9 DEF Reaps
  <2>3. UNCHANGED <<seen, stream, pipe, pump>>
    BY <1>9 DEF Reaps, processes
  <2> HIDE DEF e, x
  <2>4. /\ tickQ \in Seq(TickType) /\ <<e>> \in Seq(TickType) /\ <<x>> \in Seq(TickType)
        /\ <<e, x>> \in Seq(TickType)
    BY <1>0, <2>1 DEF TypeParts
  <2>5. CASE failed
    <3>1. (tickQ \o <<e>>) \o <<x>> = tickQ \o (<<e>> \o <<x>>)
      BY <2>4, ConcatAssociative
    <3>2. <<e>> \o <<x>> = <<e, x>>
      <4>1. <<e>> \o <<x>> \in Seq(TickType) /\ Len(<<e>> \o <<x>>) = 2
            /\ (<<e>> \o <<x>>)[1] = e /\ (<<e>> \o <<x>>)[2] = x
        BY <2>4, ConcatAt
      <4>2. Len(<<e, x>>) = 2 /\ \A k \in 1..2 : (<<e>> \o <<x>>)[k] = (<<e, x>>)[k]
        BY <4>1
      <4> DEFINE r == <<e, x>>
      <4> HIDE DEF r
      <4>3. r \in Seq(TickType) /\ Len(r) = 2 /\ \A k \in 1..2 : (<<e>> \o <<x>>)[k] = r[k]
        BY <2>4, <4>2 DEF r
      <4>4. <<e>> \o <<x>> = r
        BY <4>1, <4>3, SeqEqual
      <4>5. QED BY <4>4 DEF r
    <3>3. tickQ' = tickQ \o <<e, x>>
      BY <2>2, <2>5, <3>1, <3>2
    <3>4. \A k \in 1..Len(<<e, x>>) : (<<e, x>>)[k].kind \notin Output
      BY <2>1 DEF Output
    <3>5. QED BY <1>7, <2>3, <2>4, <3>3, <3>4
  <2>6. CASE ~failed
    <3>1. tickQ' = tickQ \o <<x>>
      BY <2>2, <2>4, <2>6
    <3>2. \A k \in 1..Len(<<x>>) : (<<x>>)[k].kind \notin Output
      BY <2>1 DEF Output
    <3>3. QED BY <1>7, <2>3, <2>4, <3>1, <3>2
  <2>7. QED BY <2>5, <2>6
<1>10. ASSUME NEW p \in Pipes, Listen(p) PROVE Goal
  <2> DEFINE t == Tick(p[1], "flush", p[2], 0)
             x == <<t>>
  <2>1. t \in TickType /\ t.kind = "flush"
    BY PipeFacts DEF Tick, TickType
  <2>2. tickQ' = Append(tickQ, t) /\ UNCHANGED <<seen, pipe, pump>>
    BY <1>10 DEF Listen, processes
  <2>3. \A o \in Pipes : stream'[o].chunks = stream[o].chunks /\ stream'[o].ended = stream[o].ended
    BY <1>0, <1>10 DEF Listen, TypeParts, StreamType
  <2> HIDE DEF t
  <2>4. x \in Seq(TickType) /\ tickQ' = tickQ \o x /\ tickQ \in Seq(TickType)
    BY <1>0, <2>1, <2>2, AppendIsConcat DEF TypeParts
  <2>5. \A i \in 1..Len(x) : x[i].kind = "flush"
    BY <2>1
  <2>6. EndsOK'
    BY <1>0, <2>4, <2>5, EndsAdded
  <2> HIDE DEF x, E
  <2>7. \A o \in Pipes : Ordered(o, seen[o[1]], stream[o].chunks, Bit(stream[o].ended), tickQ \o x,
                                 pipe[o].read, Bit(pump[o] \in E))
    <3> TAKE o \in Pipes
    <3>1. Ordered(o, seen[o[1]], stream[o].chunks, Bit(stream[o].ended), tickQ, pipe[o].read,
                  Bit(pump[o] \in E))
      BY <1>0 DEF AllOrdered, E
    <3>2. \A i \in 1..Len(x) : x[i].kind \notin Output
      BY <2>5 DEF Output
    <3>3. QED BY <2>4, <3>1, <3>2, OrderedQueued
  <2>8. \A o \in Pipes : Ordered(o, seen'[o[1]], stream'[o].chunks, Bit(stream'[o].ended), tickQ',
                                 pipe'[o].read, Bit(pump'[o] \in E))
    BY <2>2, <2>3, <2>4, <2>7
  <2>9. QED BY <2>6, <2>8 DEF AllOrdered, E
<1>11. ASSUME NEW p \in Pipes, Pause(p) PROVE Goal
  <2>1. UNCHANGED <<seen, tickQ, pipe, pump>>
    BY <1>11 DEF Pause, processes
  <2>2. \A o \in Pipes : stream'[o].chunks = stream[o].chunks /\ stream'[o].ended = stream[o].ended
    BY <1>0, <1>11 DEF Pause, TypeParts, StreamType
  <2>3. QED BY <1>5, <2>1, <2>2
<1>12. ASSUME NEW p \in Pipes, Writes(p) \/ Closes(p) PROVE Goal
  <2>1. UNCHANGED <<seen, tickQ, stream, pump>>
    BY <1>12 DEF Writes, Closes
  <2>2. \A o \in Pipes : pipe'[o].read = pipe[o].read
    <3>1. pipe \in [Pipes -> PipeType]
      BY <1>0 DEF TypeParts
    <3>2. CASE Writes(p)
      BY <3>1, <3>2 DEF Writes, PipeType
    <3>3. CASE Closes(p)
      BY <3>1, <3>3 DEF Closes, PipeType
    <3>4. QED BY <1>12, <3>2, <3>3
  <2>3. QED BY <1>5, <2>1, <2>2
<1>13. ASSUME NEW p \in Pipes, PumpDone(p) PROVE Goal
  <2>1. UNCHANGED <<seen, tickQ, stream, pipe>>
    BY <1>13 DEF PumpDone, processes
  <2>2. \A o \in Pipes : pump'[o] \in E <=> pump[o] \in E
    BY <1>0, <1>13 DEF PumpDone, TypeParts
  <2>3. QED BY <1>5, <2>1, <2>2
<1>14. ASSUME UNCHANGED <<seen, tickQ, stream, pipe, pump>> PROVE Goal
  BY <1>5, <1>14
<1> HIDE DEF Goal
<1>15. Goal
  BY <1>2, <1>3, <1>4, <1>6, <1>8, <1>9, <1>10, <1>11, <1>12, <1>13, <1>14
  DEF Next, vars, processes, Unref, Ref, Exits, PumpsWaited, Marks, Releases, Forgets, Return, Leave
<1>16. QED BY <1>1, <1>15 DEF Goal, OutputOK

\* Nothing was output and no pump was started.
LEMMA InitOutput == Init => OutputOK
<1> SUFFICES ASSUME Init PROVE OutputOK
  OBVIOUS
<1>1. PumpsOff /\ EndsOK
  BY DEF Init, PumpsOff, EndsOK
<1>2. ASSUME NEW p \in Pipes
      PROVE  Ordered(p, seen[p[1]], stream[p].chunks, Bit(stream[p].ended), tickQ, pipe[p].read,
                     Bit(pump[p] \in {"ended", "done"}))
  <2>1. /\ seen[p[1]] = <<>> /\ stream[p].chunks = <<>> /\ Bit(stream[p].ended) = 0 /\ tickQ = <<>>
        /\ pipe[p].read = 0 /\ Bit(pump[p] \in {"ended", "done"}) = 0
    BY PipeFacts DEF Init, Bit
  <2>2. Outs(<<>>, p) = {} /\ Ins(<<>>, p) = {}
    BY DEF Outs, Ins
  <2>3. Cardinality({}) = 0
    BY FS_EmptySet
  <2>4. Past(p, <<>>, <<>>, 0) = 0
    BY <2>2, <2>3 DEF Past
  <2>5. Ordered(p, <<>>, <<>>, 0, <<>>, 0, 0)
    <3>1. \A k \in 1..Len(<<>>) : FALSE
      OBVIOUS
    <3>2. Past(p, <<>>, <<>>, 0) + Cardinality(Ins(<<>>, p)) = 0 + 0
      BY <2>2, <2>3, <2>4
    <3>3. QED BY <2>2, <3>1, <3>2 DEF Ordered
  <2>6. QED BY <2>1, <2>5
<1>3. QED BY <1>1, <1>2 DEF OutputOK, AllOrdered

-----------------------------------------------------------------------------
(* Theorems *)

\* IInv is inductive.
LEMMA StepInv == IInv /\ [Next]_vars => IInv'
BY StepTypes, StepHandles, StepTicks DEF IInv

\* It holds in every state of every behaviour.
LEMMA Invariance == Spec => []IInv
<1>1. Init => IInv
  BY InitInv
<1>2. QED BY <1>1, StepInv, PTL DEF Spec

\* The queue, the pipes and the events have the shapes the code gives them.
THEOREM ChildTypes == Spec => []TypeOK
<1>1. IInv => TypeOK
  BY DEF IInv
<1>2. QED BY <1>1, Invariance, PTL

\* child_process.go:377-384: whatever the order of ref(), unref() and the exits,
\* the engine's count is the number of children that are held.
LEMMA ChildrenBalanced ==
  ASSUME ~UnrefFailed
  PROVE  Spec => []OpsBalanced
<1>1. Init => OpsBalanced
  BY InitInv
<1>2. IInv /\ OpsBalanced /\ [Next]_vars => OpsBalanced'
  BY StepOps
<1>3. QED BY <1>1, <1>2, Invariance, PTL DEF Spec

\* child_process.go:323-324 and 377-384: the engine's count is the number of
\* children that are held, and the loop is not left before a ref'd child's
\* "exit" is emitted.
THEOREM ChildrenAreHeld ==
  ASSUME ~UnrefFailed
  PROVE  Spec => []ChildrenHold
<1>1. IInv /\ OpsBalanced => KeptAlive
  <2> SUFFICES ASSUME IInv, OpsBalanced, vm = "left", NEW c \in Children,
                      os[c] \in {"running", "exited"}, handle[c].refed
               PROVE  Has(c, "exit")
    BY DEF KeptAlive
  <2>1. tickQ = <<>> /\ Cardinality(Holders) <= 0
    BY DEF IInv, LeftOK, OpsBalanced, Holders
  <2>2. Holders = {}
    BY <2>1, HoldersFinite, FS_EmptySet
  <2>3. waiter[c] \in {"forget", "done"}
    BY <2>2, TypeFold DEF IInv, HandleOK, Holders, Holds, TypeParts
  <2>4. ~Exiting(c)
    BY <2>1 DEF Exiting
  <2>5. QED BY <2>3, <2>4 DEF IInv, ExitKept
<1>2. IInv /\ OpsBalanced => ChildrenHold
  BY <1>1 DEF IInv, ChildrenHold
<1>3. QED BY <1>2, ChildrenBalanced, Invariance, PTL

\* child_process.go:424-440: all of a child's output comes before its "exit".
THEOREM OutputBeforeExit == Spec => []OutputFirst
<1>1. IInv => OutputFirst
  <2> SUFFICES ASSUME IInv, NEW c \in Children, Has(c, "exit"), NEW p \in Of(c)
               PROVE  /\ pipe[p].read = pipe[p].sent /\ ~pipe[p].open
                      /\ \A i \in 1..Len(tickQ) :
                           tickQ[i].c = c /\ tickQ[i].s = p[2] => tickQ[i].kind = "flush"
    BY DEF OutputFirst
  <2>1. p \in Pipes /\ p[1] = c /\ p[2] # "none"
    BY PipeFacts DEF Of
  <2>2. waiter[c] \in {"mark", "release", "forget", "done"}
    BY DEF IInv, ExitKept
  <2>3. pump[p] = "done"
    BY <2>1, <2>2 DEF IInv, PumpOK
  <2>4. pipe[p].read = pipe[p].sent /\ ~pipe[p].open
    BY <2>1, <2>3 DEF IInv, PumpOK
  <2>5. \A i \in 1..Len(tickQ) : Quiet(c, tickQ[i])
    BY DEF IInv, ExitLast
  <2>6. QED BY <2>1, <2>4, <2>5 DEF Quiet
<1>2. QED BY <1>1, Invariance, PTL
\* emitter.go:557-564 and child_process.go:424-440: whoever listens, pauses and
\* resumes when, what is emitted of a pipe, kept for it and queued for it are the
\* chunks that were read, in order, and then its "end"; and all of it comes
\* before "exit".
THEOREM OutputIsKept == Spec => []OutputKept
<1>1. IInv /\ OutputOK => InOrder
  BY InOrderIs DEF OutputOK
<1>2. Init => OutputOK
  BY InitOutput
<1>3. IInv /\ OutputOK /\ [Next]_vars => OutputOK'
  BY StepOutput
<1>4. IInv /\ OutputOK /\ OutputFirst => OutputKept
  BY <1>1 DEF OutputKept
<1>5. QED BY <1>2, <1>3, <1>4, Invariance, OutputBeforeExit, PTL DEF Spec
=============================================================================
