-------------------------- MODULE NetHandle_proof ---------------------------
(***************************************************************************)
(* Proofs about NetHandle, for any number of units, requests and calls of  *)
(* close().  Every step keeps each part of the inductive invariant IInv; a *)
(* lemma about a part has a step for each action that can disturb it and   *)
(* one for all the others.                                                 *)
(***************************************************************************)
EXTENDS NetHandle, SequenceTheorems, FiniteSetTheorems, TLAPS

(***************************************************************************)
(* The inductive invariant                                                 *)
(***************************************************************************)

\* h.inRead says that readLoop is between its two critical sections.
ReaderOK == /\ inRead <=> rd.pc \in {"read", "got"}
            /\ rd.pc \in {"got", "post"} => rd.what # "none"

\* While TLS takes the conn over nobody reads it, and nothing makes the handle
\* ready but the handshake.
UpgradeOK == /\ hs = "shake" => ~inRead /\ ~ready /\ conn = "tls"
             /\ vm = "upgrading" => ~ready /\ hs = "none" /\ conn # "nil"

\* A conn is there before anything is done with it, and only close() Closes it.
ConnOK == /\ dial \in {"none", "dialing", "checked"} => rd.pc = "off" /\ conn = "nil"
          /\ ready => conn # "nil"
          /\ rd.pc \in {"read", "got", "post"} => conn # "nil" /\ rd.conn # "nil"
          /\ wr.pc = "write" => conn # "nil"
          /\ conn # "nil" /\ ~open => closed
          /\ vm = "closing" => closed

\* Whose fault an error is, from the call that fails to the task that reports it.
ErrOK == /\ rd.pc = "got" /\ rd.what = "err" => closed \/ ~ready \/ peer = "reset"
         /\ rd.pc = "post" /\ rd.what = "err" => peer = "reset"
         /\ wr.pc = "write" => wr.what = "none"
         /\ wr.pc = "wrote" /\ wr.what = "err" => closed \/ peer = "reset"
         /\ wr.pc = "report" /\ wr.what = "err" => peer = "reset"

\* Each close() is about to queue its callback, has queued it, or had it called.
CloseTasks(q) == {i \in 1..Len(q) : q[i].kind = "close"}
ClosesCounted ==
  closes = closeCbs + Cardinality(CloseTasks(macroQ)) + (IF vm = "closing" THEN 1 ELSE 0)

\* A request is in one place: queued, with the writer, in a task, or answered.
Answer(t) == t.kind \in {"wrote", "writeErr"}
Writing == wr.pc \in {"write", "wrote", "report"}
Unanswered(w) == w \in 1..asked /\ called[w] = 0
QueuedOnce == \A i \in 1..Len(writeQ) :
                /\ Unanswered(writeQ[i])
                /\ Writing => wr.n # writeQ[i]
                /\ \A k \in 1..Len(writeQ) : writeQ[k] = writeQ[i] => k = i
PostedOnce == \A i \in 1..Len(macroQ) : Answer(macroQ[i]) =>
                /\ Unanswered(macroQ[i].n)
                /\ Writing => wr.n # macroQ[i].n
                /\ \A k \in 1..Len(writeQ) : writeQ[k] # macroQ[i].n
                /\ \A k \in 1..Len(macroQ) :
                     Answer(macroQ[k]) /\ macroQ[k].n = macroQ[i].n => k = i
RequestsOK == QueuedOnce /\ PostedOnce /\ (Writing => Unanswered(wr.n)) /\ CalledOnce

\* The loop is left with nothing queued, and nothing is queued afterwards.
LeftOK == vm = "left" => macroQ = <<>>

\* Without startTLS the conn is a raw one and the handle is ready once it has it;
\* readLoop asks for more only if it has not seen EOF.
RawOK == mode # "upgrade" => /\ hs = "none" /\ vm # "upgrading"
                             /\ conn # "tls" /\ rd.conn # "tls"
                             /\ conn # "nil" => ready
                             /\ rd.pc \in {"off", "top", "read"} => rd.what # "eof"

IInv == /\ TypeOK /\ HoldExact
        /\ ReaderOK /\ UpgradeOK /\ ConnOK /\ ErrOK /\ OneReader /\ ErrorsAreThePeers
        /\ ClosesCounted /\ RequestsOK /\ LeftOK
        /\ RawOK /\ InOrder

(***************************************************************************)
(* The tasks of the handle                                                 *)
(***************************************************************************)

LEMMA TaskType == ASSUME NEW k \in Kinds, NEW n \in Nat PROVE Task(k, n) \in Tasks
BY DEF Task, Tasks

\* Queueing a task: what is in the queue afterwards.
LEMMA Queueing ==
  ASSUME NEW q \in Seq(Tasks), NEW t \in Tasks
  PROVE  /\ Append(q, t) \in Seq(Tasks)
         /\ Len(Append(q, t)) = Len(q) + 1
         /\ \A i \in 1..Len(q) : Append(q, t)[i] = q[i]
         /\ Append(q, t)[Len(q) + 1] = t
OBVIOUS

\* Running a task: it was the first, and the others move up by one.
LEMMA Dequeueing ==
  ASSUME NEW S, NEW q \in Seq(S), q # <<>>
  PROVE  /\ Tail(q) \in Seq(S) /\ Head(q) \in S
         /\ Len(q) \in Nat /\ Len(q) > 0 /\ Head(q) = q[1]
         /\ Len(Tail(q)) = Len(q) - 1
         /\ \A i \in 1..Len(Tail(q)) : Tail(q)[i] = q[i + 1] /\ i + 1 \in 1..Len(q)
OBVIOUS

\* Reading a conn: the unit, and what is left.
LEMMA Taking ==
  ASSUME TypeOK, NEW c, Available(c)
  PROVE  /\ NextUnit(c) \in Nat
         /\ Take(c) => replay' \in Seq(Nat) /\ taken' \in 0..sent
<1>1. CASE c = "tls" /\ replay # <<>>
  <2>1. Head(replay) \in Nat /\ Tail(replay) \in Seq(Nat)
    BY <1>1, Dequeueing DEF TypeOK, QueuesOK
  <2>2. QED BY <1>1, <2>1 DEF TypeOK, CountsOK, Available, NextUnit, Take
<1>2. CASE ~(c = "tls" /\ replay # <<>>)
  BY <1>2 DEF TypeOK, QueuesOK, CountsOK, Available, NextUnit, Take
<1>3. QED BY <1>1, <1>2

\* startTLS hands back the last k units that JavaScript got.
LEMMA HandBack ==
  ASSUME NEW q \in Seq(Nat), NEW k \in 0..Len(q)
  PROVE  /\ SubSeq(q, 1, Len(q) - k) \in Seq(Nat)
         /\ SubSeq(q, Len(q) - k + 1, Len(q)) \in Seq(Nat)
<1>1. Len(q) \in Nat /\ \A i \in 1..Len(q) : q[i] \in Nat
  OBVIOUS
<1>2. \A i \in 1..(Len(q) - k) : q[i] \in Nat
  BY <1>1
<1>3. \A i \in (Len(q) - k + 1)..Len(q) : q[i] \in Nat
  BY <1>1
<1>4. QED BY <1>1, <1>2, <1>3, SubSeqProperties

\* Calling a request's callback.
LEMMA Calling ==
  ASSUME NEW D, NEW f \in [D -> Nat], NEW x
  PROVE  [f EXCEPT ![x] = @ + 1] \in [D -> Nat]
<1>1. CASE x \in D
  BY <1>1
<1>2. CASE x \notin D
  <2>1. [f EXCEPT ![x] = @ + 1] = f
    BY <1>2
  <2>2. QED BY <2>1
<1>3. QED BY <1>1, <1>2

LEMMA CloseTasksFinite ==
  ASSUME NEW q \in Seq(Tasks)
  PROVE  IsFiniteSet(CloseTasks(q)) /\ Cardinality(CloseTasks(q)) \in Nat
<1>1. IsFiniteSet(1..Len(q))
  BY FS_Interval
<1>2. CloseTasks(q) \in SUBSET (1..Len(q))
  BY DEF CloseTasks
<1>3. QED BY <1>1, <1>2, FS_Subset, FS_CardinalityType

\* Queueing a task counts it if it is the callback of a close() ...
LEMMA CountQueued ==
  ASSUME NEW q \in Seq(Tasks), NEW t \in Tasks
  PROVE  Cardinality(CloseTasks(Append(q, t)))
           = Cardinality(CloseTasks(q)) + (IF t.kind = "close" THEN 1 ELSE 0)
<1> DEFINE n == Len(q) + 1
<1>1. Len(q) \in Nat /\ n \notin CloseTasks(q)
  BY DEF CloseTasks
<1>2. CASE t.kind = "close"
  <2>1. CloseTasks(Append(q, t)) = CloseTasks(q) \cup {n}
    BY <1>1, <1>2, Queueing DEF CloseTasks
  <2>2. QED BY <1>1, <1>2, <2>1, CloseTasksFinite, FS_AddElement
<1>3. CASE t.kind # "close"
  <2>1. CloseTasks(Append(q, t)) = CloseTasks(q)
    BY <1>1, <1>3, Queueing DEF CloseTasks
  <2>2. QED BY <1>3, <2>1, CloseTasksFinite
<1>4. QED BY <1>2, <1>3

\* ... and running it takes it off the count.
LEMMA CountRun ==
  ASSUME NEW q \in Seq(Tasks), q # <<>>
  PROVE  Cardinality(CloseTasks(Tail(q)))
           = Cardinality(CloseTasks(q)) - (IF Head(q).kind = "close" THEN 1 ELSE 0)
<1> DEFINE S == CloseTasks(q) \ {1}
           T == CloseTasks(Tail(q))
           f == [i \in S |-> i - 1]
<1>1. \A i \in S : i \in Nat /\ i > 1 /\ i - 1 \in T
  BY Dequeueing DEF CloseTasks
<1>2. \A i \in T : i \in Nat /\ i + 1 \in S /\ f[i + 1] = i
  BY Dequeueing DEF CloseTasks
<1>3. f \in [S -> T]
  BY <1>1
<1>4. \A i, k \in S : f[i] = f[k] => i = k
  BY <1>1
<1>5. f \in Bijection(S, T)
  <2>1. f \in Injection(S, T)
    BY <1>3, <1>4 DEF Injection, IsInjective
  <2>2. \A i \in T : \E s \in S : f[s] = i
    BY <1>2
  <2>3. f \in Surjection(S, T)
    BY <1>3, <2>2 DEF Surjection
  <2>4. QED BY <2>1, <2>3 DEF Bijection
<1>6. IsFiniteSet(S) /\ Cardinality(S) = Cardinality(CloseTasks(q))
                          - (IF Head(q).kind = "close" THEN 1 ELSE 0)
  <2>1. IsFiniteSet(CloseTasks(q)) /\ Cardinality(CloseTasks(q)) \in Nat
    BY CloseTasksFinite
  <2>2. 1 \in CloseTasks(q) <=> Head(q).kind = "close"
    BY Dequeueing DEF CloseTasks
  <2>3. /\ IsFiniteSet(S)
        /\ Cardinality(S) = IF 1 \in CloseTasks(q) THEN Cardinality(CloseTasks(q)) - 1
                                                  ELSE Cardinality(CloseTasks(q))
    BY <2>1, FS_RemoveElement
  <2>4. QED BY <2>1, <2>2, <2>3
<1>7. Cardinality(T) = Cardinality(S)
  BY <1>5, <1>6, FS_Bijection DEF ExistsBijection
<1>8. QED BY <1>6, <1>7

(***************************************************************************)
(* What is on its way to onread                                            *)
(***************************************************************************)

Reads == {"raw", "tls", "eof"}

LEMMA InwardFinite ==
  ASSUME NEW q \in Seq(Tasks), NEW i
  PROVE  /\ Inward(q) \subseteq 1..Len(q) /\ UpTo(q, i) \subseteq Inward(q)
         /\ IsFiniteSet(Inward(q)) /\ Cardinality(Inward(q)) \in Nat
         /\ IsFiniteSet(UpTo(q, i)) /\ Cardinality(UpTo(q, i)) \in Nat
         /\ Cardinality(UpTo(q, i)) <= Cardinality(Inward(q))
<1>1. IsFiniteSet(1..Len(q)) /\ Len(q) \in Nat
  BY FS_Interval
<1>2. Inward(q) \subseteq 1..Len(q) /\ UpTo(q, i) \subseteq Inward(q)
  BY DEF Inward, UpTo
<1>3. IsFiniteSet(Inward(q)) /\ IsFiniteSet(UpTo(q, i))
  BY <1>1, <1>2, FS_Subset
<1>4. QED BY <1>2, <1>3, FS_Subset, FS_CardinalityType

\* Queueing a task that is not for onread changes nothing of what is ...
LEMMA InwardPosted ==
  ASSUME NEW q \in Seq(Tasks), NEW t \in Tasks, t.kind \notin Reads
  PROVE  /\ Inward(Append(q, t)) = Inward(q)
         /\ \A i \in Inward(q) : /\ Append(q, t)[i] = q[i]
                                 /\ UpTo(Append(q, t), i) = UpTo(q, i)
<1> DEFINE p == Append(q, t)
<1>1. /\ Len(p) = Len(q) + 1 /\ Len(q) \in Nat
      /\ \A i \in 1..Len(q) : p[i] = q[i]
      /\ p[Len(q) + 1] = t
  BY Queueing
<1> HIDE DEF p
<1>2. Inward(p) = Inward(q)
  BY <1>1 DEF Inward, Reads
<1>3. \A i \in Inward(q) : p[i] = q[i] /\ UpTo(p, i) = UpTo(q, i)
  BY <1>1, <1>2 DEF UpTo, Inward
<1>4. QED BY <1>2, <1>3 DEF p

\* ... one that is comes behind all the others ...
LEMMA InwardAdded ==
  ASSUME NEW q \in Seq(Tasks), NEW t \in Tasks, t.kind \in Reads
  PROVE  /\ Cardinality(Inward(Append(q, t))) = Cardinality(Inward(q)) + 1
         /\ Inward(Append(q, t)) = Inward(q) \cup {Len(q) + 1}
         /\ Append(q, t)[Len(q) + 1] = t
         /\ Cardinality(UpTo(Append(q, t), Len(q) + 1)) = Cardinality(Inward(q)) + 1
         /\ \A i \in Inward(q) : /\ Append(q, t)[i] = q[i]
                                 /\ UpTo(Append(q, t), i) = UpTo(q, i)
<1> DEFINE p == Append(q, t)
           n == Len(q) + 1
<1>1. /\ p \in Seq(Tasks) /\ Len(p) = n /\ Len(q) \in Nat
      /\ \A i \in 1..Len(q) : p[i] = q[i]
      /\ p[n] = t
  BY Queueing
<1> HIDE DEF p
<1>2. Inward(p) = Inward(q) \cup {n}
  BY <1>1 DEF Inward, Reads
<1>3. \A i \in Inward(q) : i \in Nat /\ i < n
  BY <1>1 DEF Inward
<1>4. UpTo(p, n) = Inward(p)
  BY <1>2, <1>3, <1>1 DEF UpTo
<1>5. Cardinality(Inward(q) \cup {n}) = Cardinality(Inward(q)) + 1
  <2>1. n \notin Inward(q)
    BY <1>3
  <2>2. IsFiniteSet(Inward(q))
    BY InwardFinite
  <2> HIDE DEF n
  <2>3. QED BY <2>1, <2>2, FS_AddElement
<1>6. \A i \in Inward(q) : p[i] = q[i] /\ UpTo(p, i) = UpTo(q, i)
  BY <1>1, <1>2, <1>3 DEF UpTo, Inward
<1>7. QED BY <1>1, <1>2, <1>4, <1>5, <1>6 DEF p

\* ... and running the first task moves the others up, behind it if it is
\* for onread.
LEMMA InwardRun ==
  ASSUME NEW q \in Seq(Tasks), q # <<>>, NEW h,
         h = IF Head(q).kind \in Reads THEN 1 ELSE 0
  PROVE  /\ Cardinality(Inward(q)) = Cardinality(Inward(Tail(q))) + h
         /\ \A i \in Inward(Tail(q)) :
              /\ i + 1 \in Inward(q) /\ Tail(q)[i] = q[i + 1]
              /\ Cardinality(UpTo(q, i + 1)) = Cardinality(UpTo(Tail(q), i)) + h
         /\ h = 1 => 1 \in Inward(q) /\ Cardinality(UpTo(q, 1)) = 1
<1> DEFINE t == Tail(q)
<1>1. /\ t \in Seq(Tasks) /\ Len(q) \in Nat /\ Len(q) > 0 /\ Head(q) = q[1]
      /\ Len(t) = Len(q) - 1
      /\ \A i \in 1..Len(t) : t[i] = q[i + 1] /\ i + 1 \in 1..Len(q)
  BY Dequeueing
<1> HIDE DEF t
<1>2. \A i \in Inward(t) :
        i \in Nat /\ i >= 1 /\ i + 1 \in Inward(q) /\ t[i] = q[i + 1]
  BY <1>1 DEF Inward
<1>3. \A i \in Inward(q) \ {1} : i \in Int /\ i - 1 \in Nat /\ i - 1 \in Inward(t)
  BY <1>1 DEF Inward
<1>4. 1 \in Inward(q) <=> h = 1
  BY <1>1 DEF Inward, Reads
<1>5. ASSUME NEW A, NEW B, A \subseteq Inward(t), B \subseteq Inward(q) \ {1},
             \A i \in A : i + 1 \in B, \A i \in B : i - 1 \in A
      PROVE  Cardinality(A) = Cardinality(B)
  <2> DEFINE f == [i \in A |-> i + 1]
  <2>1. f \in [A -> B]
    BY <1>5
  <2>2. \A i, k \in A : f[i] = f[k] => i = k
    BY <1>2, <1>5
  <2>3. \A k \in B : k - 1 \in A /\ f[k - 1] = k
    BY <1>3, <1>5
  <2>4. f \in Bijection(A, B)
    BY <2>1, <2>2, <2>3 DEF Bijection, Injection, Surjection, IsInjective
  <2>5. ExistsBijection(A, B)
    BY <2>4 DEF ExistsBijection
  <2>6. IsFiniteSet(A)
    BY <1>1, <1>5, InwardFinite, FS_Subset
  <2>7. QED BY <2>5, <2>6, FS_Bijection
<1>6. ASSUME NEW S, S \subseteq Inward(q), h = 1 => 1 \in S
      PROVE  Cardinality(S) = Cardinality(S \ {1}) + h
  <2>1. IsFiniteSet(S) /\ Cardinality(S) \in Nat
    BY <1>6, InwardFinite, FS_Subset, FS_CardinalityType
  <2>2. CASE h = 1
    <3>1. 1 \in S
      BY <1>6, <2>2
    <3>2. Cardinality(S \ {1}) = Cardinality(S) - 1
      BY <2>1, <3>1, FS_RemoveElement
    <3>3. QED BY <2>1, <2>2, <3>2
  <2>3. CASE h # 1
    <3>1. S \ {1} = S
      BY <1>4, <1>6, <2>3
    <3>2. h = 0
      BY <2>3
    <3>3. Cardinality(S \ {1}) = Cardinality(S)
      BY <3>1, Zenon
    <3>4. QED BY <2>1, <3>2, <3>3
  <2>4. QED BY <2>2, <2>3
<1>7. Cardinality(Inward(q)) = Cardinality(Inward(t)) + h
  <2>1. Cardinality(Inward(t)) = Cardinality(Inward(q) \ {1})
    <3>1. \A i \in Inward(t) : i + 1 \in Inward(q) \ {1}
      BY <1>2
    <3>2. \A i \in Inward(q) \ {1} : i - 1 \in Inward(t)
      BY <1>3
    <3>3. QED BY <3>1, <3>2, <1>5
  <2>2. Cardinality(Inward(q)) = Cardinality(Inward(q) \ {1}) + h
    BY <1>4, <1>6
  <2>3. QED BY <2>1, <2>2
<1>8. ASSUME NEW i \in Inward(t)
      PROVE  Cardinality(UpTo(q, i + 1)) = Cardinality(UpTo(t, i)) + h
  <2> DEFINE A == UpTo(t, i)
             B == UpTo(q, i + 1) \ {1}
  <2>1. A \subseteq Inward(t) /\ B \subseteq Inward(q) \ {1} /\ UpTo(q, i + 1) \subseteq Inward(q)
    BY DEF UpTo
  <2>2. \A k \in A : k + 1 \in B
    BY <1>2 DEF UpTo
  <2>3. \A k \in B : k - 1 \in A
    <3>1. \A k \in B : k \in Inward(q) \ {1} /\ k <= i + 1
      BY DEF UpTo
    <3>2. \A k \in B : k - 1 \in Inward(t) /\ k - 1 \in Nat /\ k \in Int
      BY <3>1, <1>3 DEF Inward
    <3>3. QED BY <3>1, <3>2, <1>2 DEF UpTo
  <2>4. Cardinality(A) = Cardinality(B)
    BY <2>1, <2>2, <2>3, <1>5
  <2>5. h = 1 => 1 \in UpTo(q, i + 1)
    BY <1>2, <1>4 DEF UpTo
  <2>6. Cardinality(UpTo(q, i + 1)) = Cardinality(B) + h
    BY <2>1, <2>5, <1>6
  <2>7. QED BY <2>4, <2>6
<1>9. h = 1 => 1 \in Inward(q) /\ Cardinality(UpTo(q, 1)) = 1
  <2>1. SUFFICES ASSUME h = 1 PROVE 1 \in Inward(q) /\ Cardinality(UpTo(q, 1)) = 1
    OBVIOUS
  <2>2. 1 \in Inward(q)
    BY <1>4, <2>1
  <2>3. UpTo(q, 1) = {1}
    BY <2>2, <1>1 DEF UpTo, Inward
  <2>4. QED BY <2>2, <2>3, FS_Singleton
<1>10. QED BY <1>2, <1>7, <1>8, <1>9 DEF t

(***************************************************************************)
(* Types                                                                   *)
(***************************************************************************)

\* The states of the threads and of the conn.
LEMMA StatesStep == StatesOK /\ [Next]_vars => StatesOK'
<1> SUFFICES ASSUME StatesOK, [Next]_vars PROVE StatesOK'
  OBVIOUS
<1> USE NetAssumption DEF handle, hold, wire, js, Post, UpdateOp, StatesOK, Conns
<1>1. CASE \E k \in 0..MaxIn[mode] : StartTLS(k)
  BY <1>1 DEF StartTLS, Swap
<1>2. CASE
  \/ Connect \/ DialFails \/ DialSucceeds \/ Attach \/ DialReports \/ ReadStart
  \/ ReadStop \/ Enqueue \/ (\E r \in BOOLEAN : SetRef(r))
  BY <1>2 DEF Connect, DialFails, DialSucceeds, Attach, DialReports, ReadStart, ReadStop, Enqueue,
     SetRef
<1>3. CASE
  \/ Close \/ CloseConn \/ CloseRelease \/ ReaderQuits \/ ReadBegins
  \/ ReadReturnsData \/ ReadReturnsEOF \/ ReadFails \/ ReadChecks
  BY <1>3 DEF Close, CloseConn, CloseRelease, ReaderQuits, ReadBegins, ReadReturnsData, Take,
     Available, NextUnit, ReadReturnsEOF, ReadFails, ReadChecks
<1>4. CASE
  \/ ReadPosts \/ WriteTakes \/ WriteSucceeds \/ WriteFails \/ WriteChecks
  \/ WriteReports \/ WriterFlushes \/ Upgrade \/ Handshakes
  BY <1>4 DEF ReadPosts, WriteTakes, WriteSucceeds, WriteFails, WriteChecks, WriteReports,
     WriterFlushes, Upgrade, Swap, Handshakes, Take, Available, NextUnit
<1>5. CASE
  \/ HandshakeFails \/ HandshakeReady \/ HandshakeReports \/ RunTask \/ PeerSends
  \/ (\E how \in {"eof", "reset"} : PeerStops(how)) \/ Leave
  BY <1>5 DEF HandshakeFails, HandshakeReady, HandshakeReports, RunTask, PeerSends, PeerStops,
     Leave
<1>6. CASE UNCHANGED vars
  BY <1>6 DEF vars
<1> HIDE DEF handle, hold, wire, js, Post, UpdateOp, StatesOK, Conns
<1>7. QED
  BY <1>1, <1>2, <1>3, <1>4, <1>5, <1>6 DEF Next

\* The handle's flags.
LEMMA FlagsStep == FlagsOK /\ [Next]_vars => FlagsOK'
<1> SUFFICES ASSUME FlagsOK, [Next]_vars PROVE FlagsOK'
  OBVIOUS
<1> USE DEF handle, hold, wire, js, UpdateOp, FlagsOK
<1>1. CASE Connect
  BY <1>1 DEF Connect
<1>2. CASE Attach
  BY <1>2 DEF Attach
<1>3. CASE ReadStart
  BY <1>3 DEF ReadStart
<1>4. CASE ReadStop
  BY <1>4 DEF ReadStop
<1>5. CASE \E r \in BOOLEAN : SetRef(r)
  BY <1>5 DEF SetRef
<1>6. CASE Close
  BY <1>6 DEF Close
<1>7. CASE CloseConn
  BY <1>7 DEF CloseConn
<1>8. CASE CloseRelease
  BY <1>8 DEF CloseRelease
<1>9. CASE ReadBegins
  BY <1>9 DEF ReadBegins
<1>10. CASE ReadChecks
  BY <1>10 DEF ReadChecks
<1>11. CASE \E k \in 0..MaxIn[mode] : StartTLS(k)
  <2>1. /\ ready' \in {ready, FALSE}
        /\ UNCHANGED <<saw, open, reading, inRead, closed, started, hold>>
    BY <1>11 DEF StartTLS, Swap
  <2>2. QED BY <2>1
<1>12. CASE HandshakeReady
  BY <1>12 DEF HandshakeReady
<1>13. CASE
  \/ DialFails \/ DialSucceeds \/ DialReports \/ Enqueue \/ ReaderQuits
  \/ ReadReturnsData \/ ReadReturnsEOF \/ ReadFails \/ ReadPosts
  <2>1. UNCHANGED <<saw, open, ready, reading, inRead, closed, started, hold>>
    BY <1>13 DEF DialFails, DialSucceeds, DialReports, Enqueue, ReaderQuits, ReadReturnsData, Take,
       Available, NextUnit, ReadReturnsEOF, ReadFails, ReadPosts
  <2>2. QED BY <2>1 DEF FlagsOK
<1>14. CASE
  \/ WriteTakes \/ WriteSucceeds \/ WriteFails \/ WriteChecks \/ WriteReports
  \/ WriterFlushes \/ Upgrade \/ Handshakes \/ HandshakeFails
  <2>1. UNCHANGED <<saw, open, ready, reading, inRead, closed, started, hold>>
    BY <1>14 DEF WriteTakes, WriteSucceeds, WriteFails, WriteChecks, WriteReports, WriterFlushes,
       Upgrade, Swap, Handshakes, Take, Available, NextUnit, HandshakeFails
  <2>2. QED BY <2>1 DEF FlagsOK
<1>15. CASE
  \/ HandshakeReports \/ RunTask \/ PeerSends
  \/ (\E how \in {"eof", "reset"} : PeerStops(how)) \/ Leave
  <2>1. UNCHANGED <<saw, open, ready, reading, inRead, closed, started, hold>>
    BY <1>15 DEF HandshakeReports, RunTask, PeerSends, PeerStops, Leave
  <2>2. QED BY <2>1 DEF FlagsOK
<1>16. CASE UNCHANGED vars
  BY <1>16 DEF vars, FlagsOK
<1> HIDE DEF handle, hold, wire, js, UpdateOp, FlagsOK
<1>17. QED
  BY <1>1, <1>2, <1>3, <1>4, <1>5, <1>6, <1>7, <1>8, <1>9, <1>10, <1>11, <1>12, <1>13,
     <1>14, <1>15, <1>16 DEF Next

\* The goroutines.
LEMMA ThreadsStep == TypeOK /\ [Next]_vars => ThreadsOK'
<1> SUFFICES ASSUME TypeOK, [Next]_vars PROVE ThreadsOK'
  OBVIOUS
<1> USE DEF handle, hold, wire, js, Post, UpdateOp, TypeOK, ThreadsOK, Thread, Conns,
        StatesOK, QueuesOK, CountsOK
<1>1. CASE ReadBegins
  BY <1>1 DEF ReadBegins
<1>2. CASE ReadReturnsData
  <2>1. NextUnit(rd.conn) \in Nat
    BY <1>2, Taking DEF ReadReturnsData
  <2>2. QED BY <1>2, <2>1 DEF ReadReturnsData
<1>3. CASE ReadChecks
  BY <1>3 DEF ReadChecks
<1>4. CASE ReadPosts
  BY <1>4 DEF ReadPosts
<1>5. CASE ReadReturnsEOF
  BY <1>5 DEF ReadReturnsEOF
<1>6. CASE ReadFails
  BY <1>6 DEF ReadFails
<1>7. CASE Attach
  BY <1>7 DEF Attach
<1>8. CASE ReaderQuits
  BY <1>8 DEF ReaderQuits
<1>9. CASE WriteTakes
  <2>1. Head(writeQ) \in Nat
    BY <1>9, Dequeueing DEF WriteTakes
  <2>2. QED BY <1>9, <2>1 DEF WriteTakes
<1>10. CASE WriteSucceeds
  BY <1>10 DEF WriteSucceeds
<1>11. CASE WriteFails
  BY <1>11 DEF WriteFails
<1>12. CASE WriteChecks
  BY <1>12 DEF WriteChecks
<1>13. CASE WriteReports
  BY <1>13 DEF WriteReports
<1>14. CASE WriterFlushes
  BY <1>14 DEF WriterFlushes
<1>15. CASE
  \/ Connect \/ DialFails \/ DialSucceeds \/ DialReports \/ ReadStart \/ ReadStop
  <2>1. UNCHANGED <<rd, wr>>
    BY <1>15 DEF Connect, DialFails, DialSucceeds, DialReports, ReadStart, ReadStop
  <2>2. QED BY <2>1 DEF ThreadsOK
<1>16. CASE
  \/ Enqueue \/ (\E r \in BOOLEAN : SetRef(r)) \/ Close \/ CloseConn
  \/ CloseRelease \/ (\E k \in 0..MaxIn[mode] : StartTLS(k))
  <2>1. UNCHANGED <<rd, wr>>
    BY <1>16 DEF Enqueue, SetRef, Close, CloseConn, CloseRelease, StartTLS, Swap
  <2>2. QED BY <2>1 DEF ThreadsOK
<1>17. CASE
  \/ Upgrade \/ Handshakes \/ HandshakeFails \/ HandshakeReady \/ HandshakeReports
  \/ RunTask
  <2>1. UNCHANGED <<rd, wr>>
    BY <1>17 DEF Upgrade, Swap, Handshakes, Take, Available, NextUnit, HandshakeFails,
       HandshakeReady, HandshakeReports, RunTask
  <2>2. QED BY <2>1 DEF ThreadsOK
<1>18. CASE
  \/ PeerSends \/ (\E how \in {"eof", "reset"} : PeerStops(how)) \/ Leave
  <2>1. UNCHANGED <<rd, wr>>
    BY <1>18 DEF PeerSends, PeerStops, Leave
  <2>2. QED BY <2>1 DEF ThreadsOK
<1>19. CASE UNCHANGED vars
  BY <1>19 DEF vars, ThreadsOK
<1> HIDE DEF handle, hold, wire, js, Post, UpdateOp, TypeOK, ThreadsOK, Thread, Conns,
         StatesOK, QueuesOK, CountsOK
<1>20. QED
  BY <1>1, <1>2, <1>3, <1>4, <1>5, <1>6, <1>7, <1>8, <1>9, <1>10, <1>11, <1>12, <1>13,
     <1>14, <1>15, <1>16, <1>17, <1>18, <1>19 DEF Next

\* The counts.
LEMMA CountsStep == TypeOK /\ [Next]_vars => CountsOK'
<1> SUFFICES ASSUME TypeOK, [Next]_vars PROVE CountsOK'
  OBVIOUS
<1> USE DEF handle, hold, wire, js, Post, UpdateOp, TypeOK, StatesOK, CountsOK, QueuesOK
<1>m. MaxWrites[mode] \in Nat /\ MaxCloses[mode] \in Nat
  BY NetAssumption
<1>1. CASE Enqueue
  <2>1. asked' = asked + 1 /\ asked < MaxWrites[mode]
        /\ UNCHANGED <<mode, sent, taken, called, closes, closeCbs>>
    BY <1>1 DEF Enqueue
  <2>2. QED BY <2>1, <1>m DEF CountsOK
<1>2. CASE Close
  <2>1. closes' = closes + 1 /\ closes < MaxCloses[mode]
        /\ UNCHANGED <<mode, sent, taken, asked, called, closeCbs>>
    BY <1>2 DEF Close
  <2>2. closes \in 0..MaxCloses[mode] /\ CountsOK
    OBVIOUS
  <2> HIDE DEF TypeOK, StatesOK, QueuesOK, handle, hold, wire, js, Post, UpdateOp
  <2>3. QED BY <2>1, <2>2, <1>m
<1>3. CASE ReadReturnsData
  <2>1. taken' \in 0..sent
    BY <1>3, Taking DEF ReadReturnsData
  <2>2. QED BY <1>3, <2>1 DEF ReadReturnsData
<1>4. CASE Handshakes
  <2>1. taken' \in 0..sent
    BY <1>4, Taking DEF Handshakes
  <2>2. QED BY <1>4, <2>1 DEF Handshakes
<1>5. CASE RunTask
  <2>1. called' \in [1..MaxWrites[mode] -> Nat]
    BY <1>5, Calling DEF RunTask
  <2>2. closeCbs' \in Nat
    BY <1>5 DEF RunTask
  <2>3. QED BY <1>5, <2>1, <2>2 DEF RunTask
<1>6. CASE PeerSends
  BY <1>6 DEF PeerSends
<1>7. CASE
  \/ Connect \/ DialFails \/ DialSucceeds \/ Attach \/ DialReports \/ ReadStart
  \/ ReadStop \/ (\E r \in BOOLEAN : SetRef(r)) \/ CloseConn
  <2>1. UNCHANGED <<sent, taken, asked, called, closes, closeCbs, mode>>
    BY <1>7 DEF Connect, DialFails, DialSucceeds, Attach, DialReports, ReadStart, ReadStop,
       SetRef, CloseConn
  <2>2. QED BY <2>1 DEF CountsOK
<1>8. CASE
  \/ CloseRelease \/ ReaderQuits \/ ReadBegins \/ ReadReturnsEOF \/ ReadFails
  \/ ReadChecks \/ ReadPosts \/ WriteTakes \/ WriteSucceeds
  <2>1. UNCHANGED <<sent, taken, asked, called, closes, closeCbs, mode>>
    BY <1>8 DEF CloseRelease, ReaderQuits, ReadBegins, ReadReturnsEOF, ReadFails, ReadChecks,
       ReadPosts, WriteTakes, WriteSucceeds
  <2>2. QED BY <2>1 DEF CountsOK
<1>9. CASE
  \/ WriteFails \/ WriteChecks \/ WriteReports \/ WriterFlushes
  \/ (\E k \in 0..MaxIn[mode] : StartTLS(k)) \/ Upgrade \/ HandshakeFails
  \/ HandshakeReady \/ HandshakeReports
  <2>1. UNCHANGED <<sent, taken, asked, called, closes, closeCbs, mode>>
    BY <1>9 DEF WriteFails, WriteChecks, WriteReports, WriterFlushes, StartTLS, Swap, Upgrade,
       HandshakeFails, HandshakeReady, HandshakeReports
  <2>2. QED BY <2>1 DEF CountsOK
<1>10. CASE
  \/ (\E how \in {"eof", "reset"} : PeerStops(how)) \/ Leave
  <2>1. UNCHANGED <<sent, taken, asked, called, closes, closeCbs, mode>>
    BY <1>10 DEF PeerStops, Leave
  <2>2. QED BY <2>1 DEF CountsOK
<1>11. CASE UNCHANGED vars
  BY <1>11 DEF vars, CountsOK
<1> HIDE DEF handle, hold, wire, js, Post, UpdateOp, TypeOK, StatesOK, CountsOK, QueuesOK
<1>12. QED
  BY <1>1, <1>2, <1>3, <1>4, <1>5, <1>6, <1>7, <1>8, <1>9, <1>10, <1>11 DEF Next

\* The sequences.
LEMMA QueuesStep == TypeOK /\ ReaderOK /\ ConnOK /\ [Next]_vars => QueuesOK'
<1> SUFFICES ASSUME TypeOK /\ ReaderOK /\ ConnOK, [Next]_vars PROVE QueuesOK'
  OBVIOUS
<1> USE DEF TypeOK, QueuesOK, ThreadsOK, Thread, CountsOK, StatesOK, Conns, handle, hold,
        wire, js, Post, UpdateOp
<1>1. CASE DialFails
  <2>1. Append(macroQ, Task("connectErr", 0)) \in Seq(Tasks)
    BY TaskType, Queueing DEF Kinds
  <2>2. QED BY <1>1, <2>1 DEF DialFails
<1>2. CASE DialReports
  <2>1. Append(macroQ, Task("connected", 0)) \in Seq(Tasks)
    BY TaskType, Queueing DEF Kinds
  <2>2. QED BY <1>2, <2>1 DEF DialReports
<1>3. CASE Enqueue
  <2>1. Append(macroQ, Task("wrote", asked + 1)) \in Seq(Tasks) /\ Append(writeQ,
     asked + 1) \in Seq(Nat)
    BY TaskType, asked + 1 \in Nat, Queueing DEF Kinds
  <2>2. macroQ' \in Seq(Tasks) /\ writeQ' \in Seq(Nat)
    BY <1>3, <2>1 DEF Enqueue
  <2>3. QED BY <1>3, <2>2 DEF Enqueue
<1>4. CASE Close
  <2>1. Append(macroQ, Task("close", 0)) \in Seq(Tasks)
    BY TaskType, Queueing DEF Kinds
  <2>2. QED BY <1>4, <2>1 DEF Close
<1>5. CASE CloseConn
  <2>1. Append(macroQ, Task("close", 0)) \in Seq(Tasks)
    BY TaskType, Queueing DEF Kinds
  <2>2. QED BY <1>5, <2>1 DEF CloseConn
<1>6. CASE ReadReturnsData
  <2>1. NextUnit(rd.conn) \in Nat /\ replay' \in Seq(Nat)
    BY <1>6, Taking DEF ReadReturnsData
  <2>2. QED BY <1>6, <2>1 DEF ReadReturnsData
<1>7. CASE ReadChecks
  <2>1. prefix' \in Seq(Nat)
    BY <1>7 DEF ReadChecks
  <2>2. QED BY <1>7, <2>1 DEF ReadChecks
<1>8. CASE ReadPosts
  <2>1. (IF rd.what = "data" THEN rd.conn ELSE rd.what) \in Kinds
    BY <1>8 DEF ReadPosts, Kinds, ReaderOK, ConnOK
  <2>2. Append(macroQ, Task(IF rd.what = "data" THEN rd.conn ELSE rd.what, rd.n)) \in Seq(Tasks)
    BY <2>1, TaskType, Queueing
  <2>3. QED BY <1>8, <2>2 DEF ReadPosts
<1>9. CASE WriteTakes
  BY <1>9 DEF WriteTakes
<1>10. CASE WriteSucceeds
  <2>1. [n |-> wr.n, conn |-> wr.conn] \in [n : Nat, conn : Conns]
    OBVIOUS
  <2>2. QED BY <1>10, <2>1 DEF WriteSucceeds
<1>11. CASE WriteReports
  <2>1. Append(macroQ, Task(IF wr.what = "err" THEN "writeErr" ELSE "wrote", wr.n)) \in Seq(Tasks)
    BY TaskType, Queueing DEF Kinds
  <2>2. QED BY <1>11, <2>1 DEF WriteReports
<1>12. CASE WriterFlushes
  <2>1. CASE writeQ = <<>>
    BY <1>12, <2>1 DEF WriterFlushes
  <2>2. CASE writeQ # <<>>
    <3>1. Head(writeQ) \in Nat /\ Tail(writeQ) \in Seq(Nat)
      BY <2>2, Dequeueing
    <3>2. Append(macroQ, Task("wrote", Head(writeQ))) \in Seq(Tasks)
      BY <3>1, TaskType, Queueing DEF Kinds
    <3>3. QED BY <1>12, <2>2, <3>1, <3>2 DEF WriterFlushes
  <2>3. QED BY <2>1, <2>2
<1>13. CASE \E k \in 0..MaxIn[mode] : StartTLS(k)
  <2> PICK k \in 0..MaxIn[mode] : StartTLS(k)
    BY <1>13
  <2>1. Append(macroQ, Task("tlsErr", 0)) \in Seq(Tasks)
    BY TaskType, Queueing DEF Kinds
  <2>2. /\ SubSeq(seen, 1, Len(seen) - k) \in Seq(Nat)
        /\ SubSeq(seen, Len(seen) - k + 1, Len(seen)) \in Seq(Nat)
    BY HandBack DEF StartTLS
  <2>3. SubSeq(seen, Len(seen) - k + 1, Len(seen)) \o prefix \in Seq(Nat)
    BY <2>2, ConcatProperties
  <2>4. macroQ' \in Seq(Tasks)
    BY <2>1 DEF StartTLS
  <2>5. seen' \in Seq(Nat)
    BY <2>2 DEF StartTLS
  <2>6. prefix' = prefix \/ prefix' = <<>>
    BY DEF StartTLS, Swap
  <2>7. replay' \in {replay, SubSeq(seen, Len(seen) - k + 1, Len(seen)),
                     SubSeq(seen, Len(seen) - k + 1, Len(seen)) \o prefix}
    BY DEF StartTLS, Swap
  <2>8. UNCHANGED <<writeQ, shook, out>>
    BY DEF StartTLS
  <2>9. replay' \in Seq(Nat)
    BY <2>2, <2>3, <2>7
  <2>10. prefix' \in Seq(Nat)
    <3>1. prefix \in Seq(Nat) /\ <<>> \in Seq(Nat)
      BY EmptySeq
    <3>2. QED BY ONLY <2>6, <3>1
  <2>11. writeQ' \in Seq(Nat) /\ shook' \in Seq(Nat) /\ out' \in Seq([n : Nat, conn : Conns])
    BY <2>8
  <2>12. QED BY <2>4, <2>5, <2>9, <2>10, <2>11
<1>14. CASE Upgrade
  <2>1. replay \o prefix \in Seq(Nat)
    BY ConcatProperties
  <2>2. QED BY <1>14, <2>1 DEF Upgrade, Swap
<1>15. CASE Handshakes
  <2>1. NextUnit("tls") \in Nat /\ replay' \in Seq(Nat)
    BY <1>15, Taking DEF Handshakes
  <2>2. QED BY <1>15, <2>1 DEF Handshakes
<1>16. CASE HandshakeFails
  <2>1. Append(macroQ, Task("tlsErr", 0)) \in Seq(Tasks)
    BY TaskType, Queueing DEF Kinds
  <2>2. QED BY <1>16, <2>1 DEF HandshakeFails
<1>17. CASE HandshakeReports
  <2>1. Append(macroQ, Task("secure", 0)) \in Seq(Tasks)
    BY TaskType, Queueing DEF Kinds
  <2>2. QED BY <1>17, <2>1 DEF HandshakeReports
<1>18. CASE RunTask
  <2>1. Head(macroQ) \in Tasks /\ Tail(macroQ) \in Seq(Tasks)
    BY <1>18, Dequeueing DEF RunTask
  <2>2. Head(macroQ).n \in Nat
    BY <2>1 DEF Tasks
  <2>3. Append(seen, Head(macroQ).n) \in Seq(Nat)
    BY <2>2
  <2>4. seen' \in Seq(Nat) /\ macroQ' \in Seq(Tasks)
    BY <1>18, <2>1, <2>3 DEF RunTask
  <2>5. QED BY <1>18, <2>4 DEF RunTask
<1>19. CASE
  \/ Connect \/ DialSucceeds \/ Attach \/ ReadStart \/ ReadStop
  \/ (\E r \in BOOLEAN : SetRef(r)) \/ CloseRelease \/ ReaderQuits \/ ReadBegins
  BY <1>19 DEF Connect, DialSucceeds, Attach, ReadStart, ReadStop, SetRef, CloseRelease,
     ReaderQuits, ReadBegins
<1>20. CASE
  \/ ReadReturnsEOF \/ ReadFails \/ WriteFails \/ WriteChecks \/ HandshakeReady
  \/ PeerSends \/ (\E how \in {"eof", "reset"} : PeerStops(how)) \/ Leave
  BY <1>20 DEF ReadReturnsEOF, ReadFails, WriteFails, WriteChecks, HandshakeReady, PeerSends,
     PeerStops, Leave
<1>21. CASE UNCHANGED vars
  BY <1>21 DEF vars
<1> HIDE DEF TypeOK, QueuesOK, ThreadsOK, Thread, CountsOK, StatesOK, Conns, handle, hold,
         wire, js, Post, UpdateOp
<1>22. QED
  BY <1>1, <1>2, <1>3, <1>4, <1>5, <1>6, <1>7, <1>8, <1>9, <1>10, <1>11, <1>12, <1>13,
     <1>14, <1>15, <1>16, <1>17, <1>18, <1>19, <1>20, <1>21 DEF Next

\* The inductive invariant starts out true.
LEMMA InitInv == Init => IInv
<1> SUFFICES ASSUME Init PROVE IInv
  OBVIOUS
<1>m. mode \in Modes /\ MaxWrites[mode] \in Nat /\ MaxCloses[mode] \in Nat /\ mode \in {"client",
   "accepted", "upgrade"}
  BY NetAssumption DEF Init
<1>1. StatesOK /\ FlagsOK
  BY <1>m DEF Init, StatesOK, FlagsOK, Conns, Accepted
<1>2. ThreadsOK
  BY DEF Init, ThreadsOK, Thread, Idle, Conns
<1>3. QueuesOK
  BY EmptySeq DEF Init, QueuesOK
<1>4. CountsOK
  BY <1>m DEF Init, CountsOK
<1>5. HoldExact /\ ReaderOK /\ UpgradeOK /\ ConnOK /\ ErrOK /\ OneReader
  BY DEF Init, HoldExact, ReaderOK, UpgradeOK, ConnOK, ErrOK, OneReader, Idle, Accepted
<1>6. ErrorsAreThePeers
  BY DEF Init, ErrorsAreThePeers
<1>7. ClosesCounted
  <2>1. CloseTasks(macroQ) = {}
    BY DEF Init, CloseTasks
  <2>2. Cardinality(CloseTasks(macroQ)) = 0
    BY <2>1, FS_EmptySet
  <2>3. QED BY <2>2 DEF Init, ClosesCounted
<1>8. RequestsOK
  <2>1. Len(writeQ) = 0 /\ Len(macroQ) = 0 /\ ~Writing
    BY DEF Init, Writing, Idle, Accepted
  <2>2. CalledOnce
    BY <1>m DEF Init, CalledOnce
  <2>3. QED BY <2>1, <2>2 DEF RequestsOK, QueuedOnce, PostedOnce
<1>9. LeftOK
  BY DEF Init, LeftOK
<1>10. RawOK
  BY DEF Init, RawOK, Idle, Accepted
<1>11. InOrder
  <2>1. macroQ = <<>> /\ seen = <<>> /\ taken = 0 /\ rd.what = "none" /\ ~InHand
    BY DEF Init, Idle, Accepted, InHand
  <2>2. Inward(macroQ) = {}
    BY <2>1 DEF Inward
  <2>3. Along = 0
    BY <2>1, <2>2, FS_EmptySet DEF Along
  <2>4. QED BY <2>1, <2>2, <2>3 DEF InOrder
<1>12. QED
  BY <1>1, <1>2, <1>3, <1>4, <1>5, <1>6, <1>7, <1>8, <1>9, <1>10, <1>11 DEF IInv, TypeOK

\* The hold follows active, refed and closed.
LEMMA HoldStep == HoldExact /\ [Next]_vars => HoldExact'
<1> SUFFICES ASSUME HoldExact, [Next]_vars PROVE HoldExact'
  OBVIOUS
<1> USE DEF handle, hold, wire, js, UpdateOp, HoldExact
<1>1. CASE Connect
  BY <1>1 DEF Connect
<1>2. CASE Attach
  BY <1>2 DEF Attach
<1>3. CASE \E r \in BOOLEAN : SetRef(r)
  BY <1>3 DEF SetRef
<1>4. CASE Close
  BY <1>4 DEF Close
<1>5. CASE CloseConn
  BY <1>5 DEF CloseConn
<1>6. CASE CloseRelease
  BY <1>6 DEF CloseRelease
<1>7. CASE \E k \in 0..MaxIn[mode] : StartTLS(k)
  BY <1>7 DEF StartTLS, Swap
<1>8. CASE Upgrade
  BY <1>8 DEF Upgrade, Swap
<1>9. CASE Leave
  BY <1>9 DEF Leave
<1>10. CASE
  \/ DialFails \/ DialSucceeds \/ DialReports \/ ReadStart \/ ReadStop \/ Enqueue
  \/ ReaderQuits \/ ReadBegins \/ ReadReturnsData
  BY <1>10 DEF DialFails, DialSucceeds, DialReports, ReadStart, ReadStop, Enqueue, ReaderQuits,
     ReadBegins, ReadReturnsData, Take, Available, NextUnit
<1>11. CASE
  \/ ReadReturnsEOF \/ ReadFails \/ ReadChecks \/ ReadPosts \/ WriteTakes
  \/ WriteSucceeds \/ WriteFails \/ WriteChecks \/ WriteReports
  BY <1>11 DEF ReadReturnsEOF, ReadFails, ReadChecks, ReadPosts, WriteTakes, WriteSucceeds,
     WriteFails, WriteChecks, WriteReports
<1>12. CASE
  \/ WriterFlushes \/ Handshakes \/ HandshakeFails \/ HandshakeReady
  \/ HandshakeReports \/ RunTask \/ PeerSends
  \/ (\E how \in {"eof", "reset"} : PeerStops(how))
  BY <1>12 DEF WriterFlushes, Handshakes, Take, Available, NextUnit, HandshakeFails,
     HandshakeReady, HandshakeReports, RunTask, PeerSends, PeerStops
<1>13. CASE UNCHANGED vars
  BY <1>13 DEF vars
<1> HIDE DEF handle, hold, wire, js, UpdateOp, HoldExact
<1>14. QED
  BY <1>1, <1>2, <1>3, <1>4, <1>5, <1>6, <1>7, <1>8, <1>9, <1>10, <1>11, <1>12, <1>13 DEF Next

\* readLoop's flag and what it got.
LEMMA ReaderStep == TypeOK /\ ReaderOK /\ UpgradeOK /\ ConnOK /\ [Next]_vars => ReaderOK'
<1> SUFFICES ASSUME TypeOK /\ ReaderOK /\ UpgradeOK /\ ConnOK, [Next]_vars PROVE ReaderOK'
  OBVIOUS
<1> USE DEF handle, hold, wire, js, ReaderOK
<1>1. CASE Attach
  BY <1>1 DEF Attach, TypeOK, ThreadsOK, Thread, ConnOK
<1>2. CASE ReaderQuits
  BY <1>2 DEF ReaderQuits, TypeOK, ThreadsOK, Thread, ConnOK
<1>3. CASE ReadBegins
  BY <1>3 DEF ReadBegins, TypeOK, ThreadsOK, Thread, ConnOK
<1>4. CASE ReadReturnsData
  BY <1>4 DEF ReadReturnsData, Take, Available, NextUnit, TypeOK, ThreadsOK, Thread, ConnOK
<1>5. CASE ReadReturnsEOF
  BY <1>5 DEF ReadReturnsEOF, TypeOK, ThreadsOK, Thread, ConnOK
<1>6. CASE ReadFails
  BY <1>6 DEF ReadFails, TypeOK, ThreadsOK, Thread, ConnOK
<1>7. CASE ReadChecks
  BY <1>7 DEF ReadChecks, TypeOK, ThreadsOK, Thread, ConnOK
<1>8. CASE ReadPosts
  BY <1>8 DEF ReadPosts, TypeOK, ThreadsOK, Thread, ConnOK
<1>9. CASE
  \/ Connect \/ DialFails \/ DialSucceeds \/ DialReports \/ ReadStart \/ ReadStop
  \/ Enqueue \/ (\E r \in BOOLEAN : SetRef(r)) \/ Close \/ CloseConn
  \/ CloseRelease \/ WriteTakes \/ WriteSucceeds \/ WriteFails
  <2>1. UNCHANGED <<inRead, rd>>
    BY <1>9 DEF Connect, DialFails, DialSucceeds, DialReports, ReadStart, ReadStop, Enqueue,
       SetRef, Close, CloseConn, CloseRelease, WriteTakes, WriteSucceeds, WriteFails
  <2>2. QED BY <2>1 DEF ReaderOK
<1>10. CASE
  \/ WriteChecks \/ WriteReports \/ WriterFlushes
  \/ (\E k \in 0..MaxIn[mode] : StartTLS(k)) \/ Upgrade \/ Handshakes
  \/ HandshakeFails \/ HandshakeReady \/ HandshakeReports \/ RunTask \/ PeerSends
  \/ (\E how \in {"eof", "reset"} : PeerStops(how)) \/ Leave
  <2>1. UNCHANGED <<inRead, rd>>
    BY <1>10 DEF WriteChecks, WriteReports, WriterFlushes, StartTLS, Swap, Upgrade, Handshakes,
       Take, Available, NextUnit, HandshakeFails, HandshakeReady, HandshakeReports,
       RunTask, PeerSends, PeerStops, Leave
  <2>2. QED BY <2>1 DEF ReaderOK
<1>11. CASE UNCHANGED vars
  BY <1>11 DEF vars, ReaderOK
<1> HIDE DEF handle, hold, wire, js, ReaderOK
<1>12. QED
  BY <1>1, <1>2, <1>3, <1>4, <1>5, <1>6, <1>7, <1>8, <1>9, <1>10, <1>11 DEF Next

\* Nothing but the handshake ends an upgrade.
LEMMA UpgradeStep == TypeOK /\ ReaderOK /\ UpgradeOK /\ ConnOK /\ [Next]_vars => UpgradeOK'
<1> SUFFICES ASSUME TypeOK /\ ReaderOK /\ UpgradeOK /\ ConnOK, [Next]_vars PROVE UpgradeOK'
  OBVIOUS
<1> USE DEF handle, hold, wire, js, UpgradeOK
<1>1. CASE Attach
  BY <1>1 DEF Attach, TypeOK, StatesOK, FlagsOK, ReaderOK, ConnOK
<1>2. CASE ReadBegins
  BY <1>2 DEF ReadBegins, TypeOK, StatesOK, FlagsOK, ReaderOK, ConnOK
<1>3. CASE ReadChecks
  BY <1>3 DEF ReadChecks, TypeOK, StatesOK, FlagsOK, ReaderOK, ConnOK
<1>4. CASE \E k \in 0..MaxIn[mode] : StartTLS(k)
  BY <1>4 DEF StartTLS, Swap, TypeOK, StatesOK, FlagsOK, ReaderOK, ConnOK
<1>5. CASE Upgrade
  BY <1>5 DEF Upgrade, Swap, TypeOK, StatesOK, FlagsOK, ReaderOK, ConnOK
<1>6. CASE HandshakeReady
  BY <1>6 DEF HandshakeReady, TypeOK, StatesOK, FlagsOK, ReaderOK, ConnOK
<1>7. CASE HandshakeFails
  BY <1>7 DEF HandshakeFails, TypeOK, StatesOK, FlagsOK, ReaderOK, ConnOK
<1>8. CASE HandshakeReports
  BY <1>8 DEF HandshakeReports, TypeOK, StatesOK, FlagsOK, ReaderOK, ConnOK
<1>9. CASE Close
  BY <1>9 DEF Close, TypeOK, StatesOK, FlagsOK, ReaderOK, ConnOK
<1>10. CASE CloseConn
  BY <1>10 DEF CloseConn, TypeOK, StatesOK, FlagsOK, ReaderOK, ConnOK
<1>11. CASE CloseRelease
  BY <1>11 DEF CloseRelease, TypeOK, StatesOK, FlagsOK, ReaderOK, ConnOK
<1>12. CASE Leave
  BY <1>12 DEF Leave, TypeOK, StatesOK, FlagsOK, ReaderOK, ConnOK
<1>13. CASE
  \/ Connect \/ DialFails \/ DialSucceeds \/ DialReports \/ ReadStart \/ ReadStop
  \/ Enqueue \/ (\E r \in BOOLEAN : SetRef(r)) \/ ReaderQuits \/ ReadReturnsData
  \/ ReadReturnsEOF \/ ReadFails \/ ReadPosts \/ WriteTakes
  <2>1. UNCHANGED <<vm, hs, inRead, ready, conn>>
    BY <1>13 DEF Connect, DialFails, DialSucceeds, DialReports, ReadStart, ReadStop, Enqueue,
       SetRef, ReaderQuits, ReadReturnsData, Take, Available, NextUnit, ReadReturnsEOF,
       ReadFails, ReadPosts, WriteTakes
  <2>2. QED BY <2>1 DEF UpgradeOK
<1>14. CASE
  \/ WriteSucceeds \/ WriteFails \/ WriteChecks \/ WriteReports \/ WriterFlushes
  \/ Handshakes \/ RunTask \/ PeerSends
  \/ (\E how \in {"eof", "reset"} : PeerStops(how))
  <2>1. UNCHANGED <<vm, hs, inRead, ready, conn>>
    BY <1>14 DEF WriteSucceeds, WriteFails, WriteChecks, WriteReports, WriterFlushes, Handshakes,
       Take, Available, NextUnit, RunTask, PeerSends, PeerStops
  <2>2. QED BY <2>1 DEF UpgradeOK
<1>15. CASE UNCHANGED vars
  BY <1>15 DEF vars, UpgradeOK
<1> HIDE DEF handle, hold, wire, js, UpgradeOK
<1>16. QED
  BY <1>1, <1>2, <1>3, <1>4, <1>5, <1>6, <1>7, <1>8, <1>9, <1>10, <1>11, <1>12, <1>13,
     <1>14, <1>15 DEF Next

\* What is known of the conn.
LEMMA ConnStep == TypeOK /\ ReaderOK /\ UpgradeOK /\ ConnOK /\ [Next]_vars => ConnOK'
<1> SUFFICES ASSUME TypeOK /\ ReaderOK /\ UpgradeOK /\ ConnOK, [Next]_vars PROVE ConnOK'
  OBVIOUS
<1> USE DEF handle, hold, wire, js, ConnOK
<1>1. CASE Connect
  BY <1>1 DEF Connect, TypeOK, ThreadsOK, Thread, FlagsOK, UpgradeOK
<1>2. CASE DialFails
  BY <1>2 DEF DialFails, TypeOK, ThreadsOK, Thread, FlagsOK, UpgradeOK
<1>3. CASE DialSucceeds
  BY <1>3 DEF DialSucceeds, TypeOK, ThreadsOK, Thread, FlagsOK, UpgradeOK
<1>4. CASE Attach
  BY <1>4 DEF Attach, TypeOK, ThreadsOK, Thread, FlagsOK, UpgradeOK
<1>5. CASE DialReports
  BY <1>5 DEF DialReports, TypeOK, ThreadsOK, Thread, FlagsOK, UpgradeOK
<1>6. CASE Close
  BY <1>6 DEF Close, TypeOK, ThreadsOK, Thread, FlagsOK, UpgradeOK
<1>7. CASE CloseConn
  BY <1>7 DEF CloseConn, TypeOK, ThreadsOK, Thread, FlagsOK, UpgradeOK
<1>8. CASE CloseRelease
  BY <1>8 DEF CloseRelease, TypeOK, ThreadsOK, Thread, FlagsOK, UpgradeOK
<1>9. CASE ReaderQuits
  BY <1>9 DEF ReaderQuits, TypeOK, ThreadsOK, Thread, FlagsOK, UpgradeOK
<1>10. CASE ReadBegins
  BY <1>10 DEF ReadBegins, TypeOK, ThreadsOK, Thread, FlagsOK, UpgradeOK
<1>11. CASE ReadReturnsData
  BY <1>11 DEF ReadReturnsData, Take, Available, NextUnit, TypeOK, ThreadsOK, Thread, FlagsOK,
     UpgradeOK
<1>12. CASE ReadReturnsEOF
  BY <1>12 DEF ReadReturnsEOF, TypeOK, ThreadsOK, Thread, FlagsOK, UpgradeOK
<1>13. CASE ReadFails
  BY <1>13 DEF ReadFails, TypeOK, ThreadsOK, Thread, FlagsOK, UpgradeOK
<1>14. CASE ReadChecks
  BY <1>14 DEF ReadChecks, TypeOK, ThreadsOK, Thread, FlagsOK, UpgradeOK
<1>15. CASE ReadPosts
  BY <1>15 DEF ReadPosts, TypeOK, ThreadsOK, Thread, FlagsOK, UpgradeOK
<1>16. CASE WriteTakes
  BY <1>16 DEF WriteTakes, TypeOK, ThreadsOK, Thread, FlagsOK, UpgradeOK
<1>17. CASE WriteSucceeds
  BY <1>17 DEF WriteSucceeds, TypeOK, ThreadsOK, Thread, FlagsOK, UpgradeOK
<1>18. CASE WriteFails
  BY <1>18 DEF WriteFails, TypeOK, ThreadsOK, Thread, FlagsOK, UpgradeOK
<1>19. CASE WriteChecks
  BY <1>19 DEF WriteChecks, TypeOK, ThreadsOK, Thread, FlagsOK, UpgradeOK
<1>20. CASE WriteReports
  BY <1>20 DEF WriteReports, TypeOK, ThreadsOK, Thread, FlagsOK, UpgradeOK
<1>21. CASE WriterFlushes
  BY <1>21 DEF WriterFlushes, TypeOK, ThreadsOK, Thread, FlagsOK, UpgradeOK
<1>22. CASE \E k \in 0..MaxIn[mode] : StartTLS(k)
  BY <1>22 DEF StartTLS, Swap, TypeOK, ThreadsOK, Thread, FlagsOK, UpgradeOK
<1>23. CASE Upgrade
  BY <1>23 DEF Upgrade, Swap, TypeOK, ThreadsOK, Thread, FlagsOK, UpgradeOK
<1>24. CASE HandshakeReady
  BY <1>24 DEF HandshakeReady, TypeOK, ThreadsOK, Thread, FlagsOK, UpgradeOK
<1>25. CASE Leave
  BY <1>25 DEF Leave, TypeOK, ThreadsOK, Thread, FlagsOK, UpgradeOK
<1>26. CASE
  \/ ReadStart \/ ReadStop \/ Enqueue \/ (\E r \in BOOLEAN : SetRef(r))
  \/ Handshakes \/ HandshakeFails \/ HandshakeReports \/ RunTask \/ PeerSends
  \/ (\E how \in {"eof", "reset"} : PeerStops(how))
  <2>1. UNCHANGED <<dial, rd, wr, ready, conn, open, closed, vm>>
    BY <1>26 DEF ReadStart, ReadStop, Enqueue, SetRef, Handshakes, Take, Available, NextUnit,
       HandshakeFails, HandshakeReports, RunTask, PeerSends, PeerStops
  <2>2. QED BY <2>1 DEF ConnOK
<1>27. CASE UNCHANGED vars
  BY <1>27 DEF vars, ConnOK
<1> HIDE DEF handle, hold, wire, js, ConnOK
<1>28. QED
  BY <1>1, <1>2, <1>3, <1>4, <1>5, <1>6, <1>7, <1>8, <1>9, <1>10, <1>11, <1>12, <1>13,
     <1>14, <1>15, <1>16, <1>17, <1>18, <1>19, <1>20, <1>21, <1>22, <1>23, <1>24, <1>25,
     <1>26, <1>27 DEF Next

\* Whose fault an error is.
LEMMA ErrStep == TypeOK /\ ReaderOK /\ UpgradeOK /\ ConnOK /\ ErrOK
        /\ [Next]_vars => ErrOK'
<1> SUFFICES ASSUME TypeOK /\ ReaderOK /\ UpgradeOK /\ ConnOK /\ ErrOK, [Next]_vars PROVE ErrOK'
  OBVIOUS
<1> USE DEF handle, hold, wire, js, ErrOK
<1>1. CASE Attach
  BY <1>1 DEF Attach, TypeOK, ThreadsOK, Thread, FlagsOK, ReaderOK, UpgradeOK, ConnOK
<1>2. CASE Close
  BY <1>2 DEF Close, TypeOK, ThreadsOK, Thread, FlagsOK, ReaderOK, UpgradeOK, ConnOK
<1>3. CASE ReadBegins
  BY <1>3 DEF ReadBegins, TypeOK, ThreadsOK, Thread, FlagsOK, ReaderOK, UpgradeOK, ConnOK
<1>4. CASE ReaderQuits
  BY <1>4 DEF ReaderQuits, TypeOK, ThreadsOK, Thread, FlagsOK, ReaderOK, UpgradeOK, ConnOK
<1>5. CASE ReadReturnsData
  BY <1>5 DEF ReadReturnsData, Take, Available, NextUnit, TypeOK, ThreadsOK, Thread, FlagsOK,
     ReaderOK, UpgradeOK, ConnOK
<1>6. CASE ReadReturnsEOF
  BY <1>6 DEF ReadReturnsEOF, TypeOK, ThreadsOK, Thread, FlagsOK, ReaderOK, UpgradeOK, ConnOK
<1>7. CASE ReadFails
  BY <1>7 DEF ReadFails, TypeOK, ThreadsOK, Thread, FlagsOK, ReaderOK, UpgradeOK, ConnOK
<1>8. CASE ReadChecks
  BY <1>8 DEF ReadChecks, TypeOK, ThreadsOK, Thread, FlagsOK, ReaderOK, UpgradeOK, ConnOK
<1>9. CASE ReadPosts
  BY <1>9 DEF ReadPosts, TypeOK, ThreadsOK, Thread, FlagsOK, ReaderOK, UpgradeOK, ConnOK
<1>10. CASE WriteTakes
  BY <1>10 DEF WriteTakes, TypeOK, ThreadsOK, Thread, FlagsOK, ReaderOK, UpgradeOK, ConnOK
<1>11. CASE WriteSucceeds
  BY <1>11 DEF WriteSucceeds, TypeOK, ThreadsOK, Thread, FlagsOK, ReaderOK, UpgradeOK, ConnOK
<1>12. CASE WriteFails
  BY <1>12 DEF WriteFails, TypeOK, ThreadsOK, Thread, FlagsOK, ReaderOK, UpgradeOK, ConnOK
<1>13. CASE WriteChecks
  BY <1>13 DEF WriteChecks, TypeOK, ThreadsOK, Thread, FlagsOK, ReaderOK, UpgradeOK, ConnOK
<1>14. CASE WriteReports
  BY <1>14 DEF WriteReports, TypeOK, ThreadsOK, Thread, FlagsOK, ReaderOK, UpgradeOK, ConnOK
<1>15. CASE WriterFlushes
  BY <1>15 DEF WriterFlushes, TypeOK, ThreadsOK, Thread, FlagsOK, ReaderOK, UpgradeOK, ConnOK
<1>16. CASE \E k \in 0..MaxIn[mode] : StartTLS(k)
  BY <1>16 DEF StartTLS, Swap, TypeOK, ThreadsOK, Thread, FlagsOK, ReaderOK, UpgradeOK, ConnOK
<1>17. CASE HandshakeReady
  BY <1>17 DEF HandshakeReady, TypeOK, ThreadsOK, Thread, FlagsOK, ReaderOK, UpgradeOK, ConnOK
<1>18. CASE \E how \in {"eof", "reset"} : PeerStops(how)
  BY <1>18 DEF PeerStops, TypeOK, ThreadsOK, Thread, FlagsOK, ReaderOK, UpgradeOK, ConnOK
<1>19. CASE
  \/ Connect \/ DialFails \/ DialSucceeds \/ DialReports \/ ReadStart \/ ReadStop
  \/ Enqueue \/ (\E r \in BOOLEAN : SetRef(r)) \/ CloseConn \/ CloseRelease
  \/ Upgrade \/ Handshakes \/ HandshakeFails \/ HandshakeReports
  <2>1. UNCHANGED <<rd, wr, closed, ready, peer>>
    BY <1>19 DEF Connect, DialFails, DialSucceeds, DialReports, ReadStart, ReadStop, Enqueue,
       SetRef, CloseConn, CloseRelease, Upgrade, Swap, Handshakes, Take, Available,
       NextUnit, HandshakeFails, HandshakeReports
  <2>2. QED BY <2>1 DEF ErrOK
<1>20. CASE
  \/ RunTask \/ PeerSends \/ Leave
  <2>1. UNCHANGED <<rd, wr, closed, ready, peer>>
    BY <1>20 DEF RunTask, PeerSends, Leave
  <2>2. QED BY <2>1 DEF ErrOK
<1>21. CASE UNCHANGED vars
  BY <1>21 DEF vars, ErrOK
<1> HIDE DEF handle, hold, wire, js, ErrOK
<1>22. QED
  BY <1>1, <1>2, <1>3, <1>4, <1>5, <1>6, <1>7, <1>8, <1>9, <1>10, <1>11, <1>12, <1>13,
     <1>14, <1>15, <1>16, <1>17, <1>18, <1>19, <1>20, <1>21 DEF Next

\* The raw conn is left alone once TLS has it.
LEMMA OneReaderStep == TypeOK /\ ReaderOK /\ UpgradeOK /\ ConnOK /\ OneReader
        /\ [Next]_vars => OneReader'
<1> SUFFICES ASSUME TypeOK /\ ReaderOK /\ UpgradeOK /\ ConnOK /\ OneReader,
   [Next]_vars PROVE OneReader'
  OBVIOUS
<1> USE DEF handle, hold, wire, js, OneReader
<1>1. CASE Attach
  BY <1>1 DEF Attach, TypeOK, ThreadsOK, Thread, FlagsOK, StatesOK, ReaderOK, ConnOK
<1>2. CASE ReadBegins
  BY <1>2 DEF ReadBegins, TypeOK, ThreadsOK, Thread, FlagsOK, StatesOK, ReaderOK, ConnOK
<1>3. CASE ReaderQuits
  BY <1>3 DEF ReaderQuits, TypeOK, ThreadsOK, Thread, FlagsOK, StatesOK, ReaderOK, ConnOK
<1>4. CASE ReadReturnsData
  BY <1>4 DEF ReadReturnsData, Take, Available, NextUnit, TypeOK, ThreadsOK, Thread, FlagsOK,
     StatesOK, ReaderOK, ConnOK
<1>5. CASE ReadReturnsEOF
  BY <1>5 DEF ReadReturnsEOF, TypeOK, ThreadsOK, Thread, FlagsOK, StatesOK, ReaderOK, ConnOK
<1>6. CASE ReadFails
  BY <1>6 DEF ReadFails, TypeOK, ThreadsOK, Thread, FlagsOK, StatesOK, ReaderOK, ConnOK
<1>7. CASE ReadChecks
  BY <1>7 DEF ReadChecks, TypeOK, ThreadsOK, Thread, FlagsOK, StatesOK, ReaderOK, ConnOK
<1>8. CASE ReadPosts
  BY <1>8 DEF ReadPosts, TypeOK, ThreadsOK, Thread, FlagsOK, StatesOK, ReaderOK, ConnOK
<1>9. CASE \E k \in 0..MaxIn[mode] : StartTLS(k)
  BY <1>9 DEF StartTLS, Swap, TypeOK, ThreadsOK, Thread, FlagsOK, StatesOK, ReaderOK, ConnOK
<1>10. CASE Upgrade
  BY <1>10 DEF Upgrade, Swap, TypeOK, ThreadsOK, Thread, FlagsOK, StatesOK, ReaderOK, ConnOK
<1>11. CASE
  \/ Connect \/ DialFails \/ DialSucceeds \/ DialReports \/ ReadStart \/ ReadStop
  \/ Enqueue \/ (\E r \in BOOLEAN : SetRef(r)) \/ Close \/ CloseConn
  \/ CloseRelease \/ WriteTakes \/ WriteSucceeds \/ WriteFails
  <2>1. UNCHANGED <<conn, inRead, rd>>
    BY <1>11 DEF Connect, DialFails, DialSucceeds, DialReports, ReadStart, ReadStop, Enqueue,
       SetRef, Close, CloseConn, CloseRelease, WriteTakes, WriteSucceeds, WriteFails
  <2>2. QED BY <2>1 DEF OneReader
<1>12. CASE
  \/ WriteChecks \/ WriteReports \/ WriterFlushes \/ Handshakes \/ HandshakeFails
  \/ HandshakeReady \/ HandshakeReports \/ RunTask \/ PeerSends
  \/ (\E how \in {"eof", "reset"} : PeerStops(how)) \/ Leave
  <2>1. UNCHANGED <<conn, inRead, rd>>
    BY <1>12 DEF WriteChecks, WriteReports, WriterFlushes, Handshakes, Take, Available, NextUnit,
       HandshakeFails, HandshakeReady, HandshakeReports, RunTask, PeerSends, PeerStops,
       Leave
  <2>2. QED BY <2>1 DEF OneReader
<1>13. CASE UNCHANGED vars
  BY <1>13 DEF vars, OneReader
<1> HIDE DEF handle, hold, wire, js, OneReader
<1>14. QED
  BY <1>1, <1>2, <1>3, <1>4, <1>5, <1>6, <1>7, <1>8, <1>9, <1>10, <1>11, <1>12, <1>13 DEF Next

\* Queueing a task reports no error but the peer's ...
LEMMA PostErrors ==
  ASSUME TypeOK, ErrorsAreThePeers, NEW k \in Kinds, NEW n \in Nat,
         macroQ' = Append(macroQ, Task(k, n)), peer' = peer,
         k \in {"err", "writeErr"} => peer = "reset"
  PROVE  ErrorsAreThePeers'
<1>1. macroQ \in Seq(Tasks) /\ Task(k, n) \in Tasks /\ Task(k, n).kind = k
  BY TaskType DEF TypeOK, QueuesOK, Task
<1>2. QED BY <1>1, Queueing DEF ErrorsAreThePeers

\* ... adds to the callbacks of close() only if it is one ...
LEMMA PostCloses ==
  ASSUME TypeOK, NEW k \in Kinds, NEW n \in Nat, macroQ' = Append(macroQ, Task(k, n))
  PROVE  Cardinality(CloseTasks(macroQ'))
           = Cardinality(CloseTasks(macroQ)) + (IF k = "close" THEN 1 ELSE 0)
<1>1. macroQ \in Seq(Tasks) /\ Task(k, n) \in Tasks /\ Task(k, n).kind = k
  BY TaskType DEF TypeOK, QueuesOK, Task
<1>2. QED BY <1>1, CountQueued

\* ... and leaves the requests where they are unless it answers one.
LEMMA PostOther ==
  ASSUME TypeOK, RequestsOK, NEW k \in Kinds, NEW n \in Nat,
         macroQ' = Append(macroQ, Task(k, n)), k \notin {"wrote", "writeErr"},
         UNCHANGED <<writeQ, wr, asked, called, mode>>
  PROVE  RequestsOK'
<1>1. /\ macroQ \in Seq(Tasks) /\ Task(k, n) \in Tasks /\ ~Answer(Task(k, n))
      /\ Len(macroQ) \in Nat
  BY TaskType DEF TypeOK, QueuesOK, Task, Answer
<1>2. QED
  BY <1>1, Queueing DEF RequestsOK, QueuedOnce, PostedOnce, CalledOnce, Unanswered, Writing, Answer

\* The errors that are queued.
LEMMA ErrorsStep == TypeOK /\ ReaderOK /\ UpgradeOK /\ ConnOK /\ ErrOK /\ ErrorsAreThePeers
        /\ [Next]_vars => ErrorsAreThePeers'
<1> SUFFICES ASSUME TypeOK /\ ReaderOK /\ UpgradeOK /\ ConnOK /\ ErrOK /\ ErrorsAreThePeers,
   [Next]_vars PROVE ErrorsAreThePeers'
  OBVIOUS
<1> USE DEF handle, hold, wire, js
<1>1. CASE DialFails
  <2>1. macroQ' = Append(macroQ, Task("connectErr", 0)) /\ peer' = peer
    BY <1>1 DEF DialFails, Post
  <2>2. QED BY <2>1, PostErrors DEF Kinds
<1>2. CASE DialReports
  <2>1. macroQ' = Append(macroQ, Task("connected", 0)) /\ peer' = peer
    BY <1>2 DEF DialReports, Post
  <2>2. QED BY <2>1, PostErrors DEF Kinds
<1>3. CASE Enqueue
  <2>1. macroQ' \in {macroQ, Append(macroQ, Task("wrote", asked + 1))} /\ peer' = peer
    BY <1>3 DEF Enqueue, Post
  <2>2. asked + 1 \in Nat
    BY DEF TypeOK, CountsOK
  <2>3. QED BY <2>1, <2>2, PostErrors DEF Kinds, ErrorsAreThePeers
<1>4. CASE Close
  <2>1. macroQ' \in {macroQ, Append(macroQ, Task("close", 0))} /\ peer' = peer
    BY <1>4 DEF Close, Post
  <2>2. QED BY <2>1, PostErrors DEF Kinds, ErrorsAreThePeers
<1>5. CASE CloseConn
  <2>1. macroQ' = Append(macroQ, Task("close", 0)) /\ peer' = peer
    BY <1>5 DEF CloseConn, Post
  <2>2. QED BY <2>1, PostErrors DEF Kinds
<1>6. CASE ReadPosts
  <2> DEFINE k == IF rd.what = "data" THEN rd.conn ELSE rd.what
  <2>1. macroQ' = Append(macroQ, Task(k, rd.n)) /\ peer' = peer
    BY <1>6 DEF ReadPosts, Post
  <2>2. k \in Kinds /\ k # "writeErr" /\ rd.n \in Nat
    BY <1>6 DEF ReadPosts, ReaderOK, ConnOK, TypeOK, ThreadsOK, Thread, Conns, Kinds
  <2>3. k = "err" => peer = "reset"
    BY <1>6 DEF ReadPosts, ErrOK, TypeOK, ThreadsOK, Thread, Conns
  <2>4. QED BY <2>1, <2>2, <2>3, PostErrors
<1>7. CASE WriteReports
  <2> DEFINE k == IF wr.what = "err" THEN "writeErr" ELSE "wrote"
  <2>1. macroQ' = Append(macroQ, Task(k, wr.n)) /\ peer' = peer
    BY <1>7 DEF WriteReports, Post
  <2>2. k \in Kinds /\ wr.n \in Nat
    BY DEF TypeOK, ThreadsOK, Thread, Kinds
  <2>3. k = "writeErr" \/ k = "err" => peer = "reset"
    BY <1>7 DEF WriteReports, ErrOK
  <2>4. QED BY <2>1, <2>2, <2>3, PostErrors
<1>8. CASE WriterFlushes
  <2>1. CASE writeQ = <<>>
    BY <1>8, <2>1 DEF WriterFlushes, ErrorsAreThePeers
  <2>2. CASE writeQ # <<>>
    <3>1. macroQ' = Append(macroQ, Task("wrote", Head(writeQ))) /\ peer' = peer
      BY <1>8, <2>2 DEF WriterFlushes, Post
    <3>2. Head(writeQ) \in Nat
      BY <2>2, Dequeueing DEF TypeOK, QueuesOK
    <3>3. QED BY <3>1, <3>2, PostErrors DEF Kinds
  <2>3. QED BY <2>1, <2>2
<1>9. CASE \E k \in 0..MaxIn[mode] : StartTLS(k)
  <2>1. macroQ' \in {macroQ, Append(macroQ, Task("tlsErr", 0))} /\ peer' = peer
    BY <1>9 DEF StartTLS, Swap, Post
  <2>2. QED BY <2>1, PostErrors DEF Kinds, ErrorsAreThePeers
<1>10. CASE HandshakeFails
  <2>1. macroQ' = Append(macroQ, Task("tlsErr", 0)) /\ peer' = peer
    BY <1>10 DEF HandshakeFails, Post
  <2>2. QED BY <2>1, PostErrors DEF Kinds
<1>11. CASE HandshakeReports
  <2>1. macroQ' = Append(macroQ, Task("secure", 0)) /\ peer' = peer
    BY <1>11 DEF HandshakeReports, Post
  <2>2. QED BY <2>1, PostErrors DEF Kinds
<1>12. CASE RunTask
  <2>1. macroQ' = Tail(macroQ) /\ macroQ # <<>> /\ macroQ \in Seq(Tasks) /\ peer' = peer
    BY <1>12 DEF RunTask, TypeOK, QueuesOK
  <2>2. QED BY <2>1, Dequeueing DEF ErrorsAreThePeers
<1>13. CASE \E how \in {"eof", "reset"} : PeerStops(how)
  <2>1. macroQ' = macroQ /\ peer # "reset"
    BY <1>13 DEF PeerStops
  <2>2. QED BY <2>1 DEF ErrorsAreThePeers
<1>14. CASE
  \/ Connect \/ DialSucceeds \/ Attach \/ ReadStart \/ ReadStop
  \/ (\E r \in BOOLEAN : SetRef(r)) \/ CloseRelease \/ ReaderQuits \/ ReadBegins
  \/ ReadReturnsData \/ ReadReturnsEOF \/ ReadFails \/ ReadChecks \/ WriteTakes
  <2>1. UNCHANGED <<macroQ, peer>>
    BY <1>14 DEF Connect, DialSucceeds, Attach, ReadStart, ReadStop, SetRef, CloseRelease,
       ReaderQuits, ReadBegins, ReadReturnsData, Take, Available, NextUnit,
       ReadReturnsEOF, ReadFails, ReadChecks, WriteTakes
  <2>2. QED BY <2>1 DEF ErrorsAreThePeers
<1>15. CASE
  \/ WriteSucceeds \/ WriteFails \/ WriteChecks \/ Upgrade \/ Handshakes
  \/ HandshakeReady \/ PeerSends \/ Leave
  <2>1. UNCHANGED <<macroQ, peer>>
    BY <1>15 DEF WriteSucceeds, WriteFails, WriteChecks, Upgrade, Swap, Handshakes, Take,
       Available, NextUnit, HandshakeReady, PeerSends, Leave
  <2>2. QED BY <2>1 DEF ErrorsAreThePeers
<1>16. CASE UNCHANGED vars
  BY <1>16 DEF vars, ErrorsAreThePeers
<1> HIDE DEF handle, hold, wire, js
<1>17. QED
  BY <1>1, <1>2, <1>3, <1>4, <1>5, <1>6, <1>7, <1>8, <1>9, <1>10, <1>11, <1>12, <1>13,
     <1>14, <1>15, <1>16 DEF Next

LEMMA Counted == TypeOK => /\ Cardinality(CloseTasks(macroQ)) \in Nat
                          /\ closes \in Nat /\ closeCbs \in Nat
BY CloseTasksFinite DEF TypeOK, QueuesOK, CountsOK

\* The callbacks of close().
LEMMA ClosesStep == TypeOK /\ ReaderOK /\ UpgradeOK /\ ConnOK /\ ClosesCounted
        /\ [Next]_vars => ClosesCounted'
<1> SUFFICES ASSUME TypeOK /\ ReaderOK /\ UpgradeOK /\ ConnOK /\ ClosesCounted,
   [Next]_vars PROVE ClosesCounted'
  OBVIOUS
<1> USE DEF handle, hold, wire, js
<1>1. CASE DialFails
  <2>1. macroQ' = Append(macroQ, Task("connectErr", 0)) /\ UNCHANGED <<vm, closes, closeCbs>>
    BY <1>1 DEF DialFails, Post
  <2>2. QED BY <2>1, PostCloses, Counted DEF Kinds, ClosesCounted
<1>2. CASE DialReports
  <2>1. macroQ' = Append(macroQ, Task("connected", 0)) /\ UNCHANGED <<vm, closes, closeCbs>>
    BY <1>2 DEF DialReports, Post
  <2>2. QED BY <2>1, PostCloses, Counted DEF Kinds, ClosesCounted
<1>3. CASE Enqueue
  <2>1. /\ UNCHANGED <<vm, closes, closeCbs>>
        /\ macroQ' = macroQ \/ macroQ' = Append(macroQ, Task("wrote", asked + 1))
    BY <1>3 DEF Enqueue, Post
  <2>2. asked + 1 \in Nat
    BY DEF TypeOK, CountsOK
  <2>3. QED BY <2>1, <2>2, PostCloses, Counted DEF Kinds, ClosesCounted
<1>4. CASE Close
  <2>1. /\ closes' = closes + 1 /\ closeCbs' = closeCbs /\ vm = "js"
        /\ \/ macroQ' = Append(macroQ, Task("close", 0)) /\ vm' = vm
           \/ macroQ' = macroQ /\ vm' = "closing"
    BY <1>4 DEF Close, Post
  <2>2. QED BY <2>1, PostCloses, Counted DEF Kinds, ClosesCounted
<1>5. CASE CloseConn
  <2>1. /\ macroQ' = Append(macroQ, Task("close", 0))
        /\ vm = "closing" /\ vm' = "released" /\ UNCHANGED <<closes, closeCbs>>
    BY <1>5 DEF CloseConn, Post
  <2>2. QED BY <2>1, PostCloses, Counted DEF Kinds, ClosesCounted
<1>6. CASE ReadPosts
  <2> DEFINE k == IF rd.what = "data" THEN rd.conn ELSE rd.what
  <2>1. macroQ' = Append(macroQ, Task(k, rd.n)) /\ UNCHANGED <<vm, closes, closeCbs>>
    BY <1>6 DEF ReadPosts, Post
  <2>2. k \in Kinds /\ k # "close" /\ rd.n \in Nat
    BY <1>6 DEF ReadPosts, ReaderOK, ConnOK, TypeOK, ThreadsOK, Thread, Conns, Kinds
  <2> HIDE DEF k
  <2>3. QED BY <2>1, <2>2, PostCloses, Counted DEF ClosesCounted
<1>7. CASE WriteReports
  <2> DEFINE k == IF wr.what = "err" THEN "writeErr" ELSE "wrote"
  <2>1. macroQ' = Append(macroQ, Task(k, wr.n)) /\ UNCHANGED <<vm, closes, closeCbs>>
    BY <1>7 DEF WriteReports, Post
  <2>2. k \in Kinds /\ k # "close" /\ wr.n \in Nat
    BY DEF TypeOK, ThreadsOK, Thread, Kinds
  <2> HIDE DEF k
  <2>3. QED BY <2>1, <2>2, PostCloses, Counted DEF ClosesCounted
<1>8. CASE WriterFlushes
  <2>1. CASE writeQ = <<>>
    BY <1>8, <2>1 DEF WriterFlushes, ClosesCounted
  <2>2. CASE writeQ # <<>>
    <3>1. /\ macroQ' = Append(macroQ, Task("wrote", Head(writeQ)))
          /\ UNCHANGED <<vm, closes, closeCbs>>
      BY <1>8, <2>2 DEF WriterFlushes, Post
    <3>2. Head(writeQ) \in Nat
      BY <2>2, Dequeueing DEF TypeOK, QueuesOK
    <3>3. QED BY <3>1, <3>2, PostCloses, Counted DEF Kinds, ClosesCounted
  <2>3. QED BY <2>1, <2>2
<1>9. CASE \E k \in 0..MaxIn[mode] : StartTLS(k)
  <2>1. /\ UNCHANGED <<closes, closeCbs>> /\ vm = "js" /\ vm' \in {"js", "upgrading"}
        /\ macroQ' = macroQ \/ macroQ' = Append(macroQ, Task("tlsErr", 0))
    BY <1>9 DEF StartTLS, Swap, Post
  <2>2. QED BY <2>1, PostCloses, Counted DEF Kinds, ClosesCounted
<1>10. CASE HandshakeFails
  <2>1. macroQ' = Append(macroQ, Task("tlsErr", 0)) /\ UNCHANGED <<vm, closes, closeCbs>>
    BY <1>10 DEF HandshakeFails, Post
  <2>2. QED BY <2>1, PostCloses, Counted DEF Kinds, ClosesCounted
<1>11. CASE HandshakeReports
  <2>1. macroQ' = Append(macroQ, Task("secure", 0)) /\ UNCHANGED <<vm, closes, closeCbs>>
    BY <1>11 DEF HandshakeReports, Post
  <2>2. QED BY <2>1, PostCloses, Counted DEF Kinds, ClosesCounted
<1>12. CASE RunTask
  <2>1. /\ macroQ' = Tail(macroQ) /\ macroQ # <<>> /\ vm' = vm /\ closes' = closes
        /\ closeCbs' = closeCbs + (IF Head(macroQ).kind = "close" THEN 1 ELSE 0)
    BY <1>12 DEF RunTask, TypeOK, CountsOK
  <2>2. Cardinality(CloseTasks(macroQ'))
          = Cardinality(CloseTasks(macroQ)) - (IF Head(macroQ).kind = "close" THEN 1 ELSE 0)
    BY <2>1, CountRun DEF TypeOK, QueuesOK
  <2>3. QED BY <2>1, <2>2, Counted DEF ClosesCounted
<1>13. CASE CloseRelease
  BY <1>13 DEF CloseRelease, ClosesCounted
<1>14. CASE Upgrade
  BY <1>14 DEF Upgrade, Swap, ClosesCounted
<1>15. CASE Leave
  BY <1>15 DEF Leave, ClosesCounted
<1>16. CASE
  \/ Connect \/ DialSucceeds \/ Attach \/ ReadStart \/ ReadStop
  \/ (\E r \in BOOLEAN : SetRef(r)) \/ ReaderQuits \/ ReadBegins
  \/ ReadReturnsData \/ ReadReturnsEOF \/ ReadFails \/ ReadChecks \/ WriteTakes
  \/ WriteSucceeds
  <2>1. UNCHANGED <<macroQ, vm, closes, closeCbs>>
    BY <1>16 DEF Connect, DialSucceeds, Attach, ReadStart, ReadStop, SetRef, ReaderQuits,
       ReadBegins, ReadReturnsData, Take, Available, NextUnit, ReadReturnsEOF, ReadFails,
       ReadChecks, WriteTakes, WriteSucceeds
  <2>2. QED BY <2>1 DEF ClosesCounted
<1>17. CASE
  \/ WriteFails \/ WriteChecks \/ Handshakes \/ HandshakeReady \/ PeerSends
  \/ (\E how \in {"eof", "reset"} : PeerStops(how))
  <2>1. UNCHANGED <<macroQ, vm, closes, closeCbs>>
    BY <1>17 DEF WriteFails, WriteChecks, Handshakes, Take, Available, NextUnit, HandshakeReady,
       PeerSends, PeerStops
  <2>2. QED BY <2>1 DEF ClosesCounted
<1>18. CASE UNCHANGED vars
  BY <1>18 DEF vars, ClosesCounted
<1> HIDE DEF handle, hold, wire, js
<1>19. QED
  BY <1>1, <1>2, <1>3, <1>4, <1>5, <1>6, <1>7, <1>8, <1>9, <1>10, <1>11, <1>12, <1>13,
     <1>14, <1>15, <1>16, <1>17, <1>18 DEF Next

\* The requests.
LEMMA RequestsStep == TypeOK /\ ReaderOK /\ UpgradeOK /\ ConnOK /\ RequestsOK
        /\ [Next]_vars => RequestsOK'
<1> SUFFICES ASSUME TypeOK /\ ReaderOK /\ UpgradeOK /\ ConnOK /\ RequestsOK,
   [Next]_vars PROVE RequestsOK'
  OBVIOUS
<1> USE DEF handle, hold, wire, js
<1>1. CASE DialFails
  <2>1. macroQ' = Append(macroQ, Task("connectErr", 0)) /\ UNCHANGED <<writeQ, wr, asked, called,
     mode>>
    BY <1>1 DEF DialFails, Post
  <2>2. QED BY <2>1, PostOther DEF Kinds
<1>2. CASE DialReports
  <2>1. macroQ' = Append(macroQ, Task("connected", 0)) /\ UNCHANGED <<writeQ, wr, asked, called,
     mode>>
    BY <1>2 DEF DialReports, Post
  <2>2. QED BY <2>1, PostOther DEF Kinds
<1>3. CASE Enqueue
  <2> DEFINE w == asked + 1
  <2>1. /\ asked \in Nat /\ w \in 1..MaxWrites[mode] /\ asked' = w
        /\ called[w] = 0 /\ UNCHANGED <<wr, called, mode>>
    BY <1>3, NetAssumption DEF Enqueue, RequestsOK, CalledOnce, TypeOK, CountsOK, StatesOK
  <2>2. CASE closed
    <3>1. macroQ' = Append(macroQ, Task("wrote", w)) /\ writeQ' = writeQ
      BY <1>3, <2>2 DEF Enqueue, Post
    <3>2. Task("wrote", w) \in Tasks /\ Task("wrote", w).n = w /\ macroQ \in Seq(Tasks)
      BY <2>1, TaskType DEF Kinds, Task, TypeOK, QueuesOK
    <3>3. QED BY <2>1, <3>1, <3>2, Queueing DEF RequestsOK, QueuedOnce, PostedOnce, CalledOnce,
       Unanswered, Writing, Answer
  <2>3. CASE ~closed
    <3>1. writeQ' = Append(writeQ, w) /\ macroQ' = macroQ /\ writeQ \in Seq(Nat)
      BY <1>3, <2>3 DEF Enqueue, TypeOK, QueuesOK
    <3>2. QED BY <2>1, <3>1 DEF RequestsOK, QueuedOnce, PostedOnce, CalledOnce, Unanswered,
       Writing, Answer
  <2>4. QED BY <2>2, <2>3
<1>4. CASE Close
  <2>1. UNCHANGED <<writeQ, wr, asked, called, mode>>
    BY <1>4 DEF Close
  <2>2. CASE macroQ' = macroQ
    BY <2>1, <2>2 DEF RequestsOK, QueuedOnce, PostedOnce, CalledOnce, Unanswered, Writing, Answer
  <2>3. CASE macroQ' = Append(macroQ, Task("close", 0))
    BY <2>1, <2>3, PostOther DEF Kinds
  <2>4. QED BY <1>4, <2>2, <2>3 DEF Close, Post
<1>5. CASE CloseConn
  <2>1. macroQ' = Append(macroQ, Task("close", 0)) /\ UNCHANGED <<writeQ, wr, asked, called, mode>>
    BY <1>5 DEF CloseConn, Post
  <2>2. QED BY <2>1, PostOther DEF Kinds
<1>6. CASE ReadPosts
  <2> DEFINE k == IF rd.what = "data" THEN rd.conn ELSE rd.what
  <2>1. macroQ' = Append(macroQ, Task(k, rd.n)) /\ UNCHANGED <<writeQ, wr, asked, called, mode>>
    BY <1>6 DEF ReadPosts, Post
  <2>2. k \in Kinds /\ k \notin {"wrote", "writeErr"} /\ rd.n \in Nat
    BY <1>6 DEF ReadPosts, ReaderOK, ConnOK, TypeOK, ThreadsOK, Thread, Conns, Kinds
  <2>3. QED BY <2>1, <2>2, PostOther
<1>7. CASE WriteTakes
  <2>1. /\ ~Writing /\ wr'.pc = "write" /\ wr'.n = Head(writeQ)
        /\ writeQ # <<>> /\ writeQ' = Tail(writeQ) /\ writeQ \in Seq(Nat)
        /\ UNCHANGED <<macroQ, asked, called, mode>>
    BY <1>7 DEF WriteTakes, Writing, TypeOK, QueuesOK
  <2>2. QED BY <2>1, Dequeueing DEF RequestsOK, QueuedOnce, PostedOnce, CalledOnce, Unanswered,
     Writing, Answer
<1>8. CASE WriteSucceeds
  <2>1. /\ Writing /\ Writing' /\ wr'.n = wr.n
        /\ UNCHANGED <<writeQ, macroQ, asked, called, mode>>
    BY <1>8 DEF WriteSucceeds, Writing, TypeOK, ThreadsOK, Thread
  <2>2. QED BY <2>1 DEF RequestsOK, QueuedOnce, PostedOnce, CalledOnce, Unanswered, Answer
<1>9. CASE WriteFails
  <2>1. /\ Writing /\ Writing' /\ wr'.n = wr.n
        /\ UNCHANGED <<writeQ, macroQ, asked, called, mode>>
    BY <1>9 DEF WriteFails, Writing, TypeOK, ThreadsOK, Thread
  <2>2. QED BY <2>1 DEF RequestsOK, QueuedOnce, PostedOnce, CalledOnce, Unanswered, Answer
<1>10. CASE WriteChecks
  <2>1. /\ Writing /\ Writing' /\ wr'.n = wr.n
        /\ UNCHANGED <<writeQ, macroQ, asked, called, mode>>
    BY <1>10 DEF WriteChecks, Writing, TypeOK, ThreadsOK, Thread
  <2>2. QED BY <2>1 DEF RequestsOK, QueuedOnce, PostedOnce, CalledOnce, Unanswered, Answer
<1>11. CASE WriteReports
  <2> DEFINE t == Task(IF wr.what = "err" THEN "writeErr" ELSE "wrote", wr.n)
  <2>1. /\ Writing /\ ~Writing' /\ macroQ' = Append(macroQ, t)
        /\ UNCHANGED <<writeQ, asked, called, mode>>
    BY <1>11 DEF WriteReports, Writing, Post, TypeOK, ThreadsOK, Thread
  <2>2. t \in Tasks /\ t.n = wr.n /\ macroQ \in Seq(Tasks)
    BY TaskType DEF Kinds, Task, TypeOK, QueuesOK, ThreadsOK, Thread
  <2>3. QED BY <2>1, <2>2, Queueing DEF RequestsOK, QueuedOnce, PostedOnce, CalledOnce,
     Unanswered, Answer
<1>12. CASE WriterFlushes
  <2>1. ~Writing /\ ~Writing' /\ UNCHANGED <<asked, called, mode>>
    BY <1>12 DEF WriterFlushes, Writing, TypeOK, ThreadsOK, Thread
  <2>2. CASE writeQ = <<>>
    BY <1>12, <2>1, <2>2 DEF WriterFlushes, RequestsOK, QueuedOnce, PostedOnce, CalledOnce,
       Unanswered, Answer
  <2>3. CASE writeQ # <<>>
    <3> DEFINE t == Task("wrote", Head(writeQ))
    <3>1. macroQ' = Append(macroQ, t) /\ writeQ' = Tail(writeQ)
      BY <1>12, <2>3 DEF WriterFlushes, Post
    <3>2. t \in Tasks /\ t.n = Head(writeQ) /\ macroQ \in Seq(Tasks) /\ writeQ \in Seq(Nat)
      BY <2>3, Dequeueing, TaskType DEF Kinds, Task, TypeOK, QueuesOK
    <3>3. /\ Len(writeQ) \in Nat /\ Len(writeQ) > 0 /\ t.n = writeQ[1]
          /\ Len(writeQ') = Len(writeQ) - 1
          /\ \A i \in 1..Len(writeQ') : writeQ'[i] = writeQ[i + 1] /\ i + 1 \in 1..Len(writeQ)
      BY <2>3, <3>1, <3>2, Dequeueing
    <3>4. /\ Len(macroQ) \in Nat /\ Len(macroQ') = Len(macroQ) + 1
          /\ \A i \in 1..Len(macroQ) : macroQ'[i] = macroQ[i]
          /\ macroQ'[Len(macroQ) + 1] = t
      BY <3>1, <3>2, Queueing
    <3> HIDE DEF t
    <3>5. \A w : Unanswered(w) => Unanswered(w)'
      BY <2>1 DEF Unanswered
    <3>6. QueuedOnce'
      <4>1. \A i \in 1..Len(writeQ) :
              /\ Unanswered(writeQ[i])
              /\ \A k \in 1..Len(writeQ) : writeQ[k] = writeQ[i] => k = i
        BY DEF RequestsOK, QueuedOnce
      <4>2. \A i \in 1..Len(writeQ') :
              /\ Unanswered(writeQ'[i])
              /\ \A k \in 1..Len(writeQ') : writeQ'[k] = writeQ'[i] => k = i
        <5> SUFFICES ASSUME NEW i \in 1..Len(writeQ')
                     PROVE  /\ Unanswered(writeQ'[i])
                            /\ \A k \in 1..Len(writeQ') : writeQ'[k] = writeQ'[i] => k = i
          OBVIOUS
        <5>1. i \in Int /\ writeQ'[i] = writeQ[i + 1] /\ i + 1 \in 1..Len(writeQ)
          BY <3>3
        <5>2. \A k \in 1..Len(writeQ') : writeQ'[k] = writeQ'[i] => k + 1 = i + 1
          BY <3>3, <4>1, <5>1
        <5>3. QED BY <4>1, <5>1, <5>2
      <4>3. QED BY <2>1, <3>5, <4>2 DEF QueuedOnce
    <3>7. Unanswered(t.n) /\ \A k \in 1..Len(writeQ') : writeQ'[k] # t.n
      BY <3>3 DEF RequestsOK, QueuedOnce
    <3>8. \A k \in 1..Len(macroQ) : Answer(macroQ[k]) => macroQ[k].n # t.n
      BY <3>3 DEF RequestsOK, PostedOnce
    <3>9. \A i \in 1..Len(macroQ) : Answer(macroQ[i]) =>
            /\ Unanswered(macroQ[i].n)
            /\ \A k \in 1..Len(writeQ') : writeQ'[k] # macroQ[i].n
            /\ \A k \in 1..Len(macroQ) :
                 Answer(macroQ[k]) /\ macroQ[k].n = macroQ[i].n => k = i
      BY <3>3 DEF RequestsOK, PostedOnce
    <3>10. PostedOnce'
      BY <2>1, <3>4, <3>5, <3>7, <3>8, <3>9 DEF PostedOnce, Answer
    <3>11. QED BY <2>1, <3>6, <3>10 DEF RequestsOK, CalledOnce
  <2>4. QED BY <2>2, <2>3
<1>13. CASE \E k \in 0..MaxIn[mode] : StartTLS(k)
  <2>1. UNCHANGED <<writeQ, wr, asked, called, mode>>
    BY <1>13 DEF StartTLS
  <2>2. CASE macroQ' = macroQ
    BY <2>1, <2>2 DEF RequestsOK, QueuedOnce, PostedOnce, CalledOnce, Unanswered, Writing, Answer
  <2>3. CASE macroQ' = Append(macroQ, Task("tlsErr", 0))
    BY <2>1, <2>3, PostOther DEF Kinds
  <2>4. QED BY <1>13, <2>2, <2>3 DEF StartTLS, Post
<1>14. CASE HandshakeFails
  <2>1. macroQ' = Append(macroQ, Task("tlsErr", 0)) /\ UNCHANGED <<writeQ, wr, asked, called, mode>>
    BY <1>14 DEF HandshakeFails, Post
  <2>2. QED BY <2>1, PostOther DEF Kinds
<1>15. CASE HandshakeReports
  <2>1. macroQ' = Append(macroQ, Task("secure", 0)) /\ UNCHANGED <<writeQ, wr, asked, called, mode>>
    BY <1>15 DEF HandshakeReports, Post
  <2>2. QED BY <2>1, PostOther DEF Kinds
<1>16. CASE RunTask
  <2> DEFINE t == Head(macroQ)
  <2>1. /\ macroQ' = Tail(macroQ) /\ macroQ # <<>> /\ macroQ \in Seq(Tasks)
        /\ UNCHANGED <<writeQ, wr, asked, mode>>
    BY <1>16 DEF RunTask, TypeOK, QueuesOK
  <2>n. /\ asked \in 0..MaxWrites[mode]
        /\ called \in [1..MaxWrites[mode] -> Nat]
        /\ called' = IF Answer(t) THEN [called EXCEPT ![t.n] = called[t.n] + 1] ELSE called
    BY <1>16 DEF RunTask, Answer, TypeOK, CountsOK
  <2>m. MaxWrites[mode] \in Nat
    BY NetAssumption DEF TypeOK, StatesOK
  <2>2. CASE ~Answer(t)
    BY <2>1, <2>n, <2>2, Dequeueing DEF RequestsOK, QueuedOnce, PostedOnce, CalledOnce,
       Unanswered, Writing
  <2>3. CASE Answer(t)
    <3>1. Unanswered(t.n) /\ t.n \in 1..MaxWrites[mode]
      BY <2>1, <2>m, <2>n, <2>3, Dequeueing DEF RequestsOK, PostedOnce, Unanswered
    <3>2. /\ called'[t.n] = 1
          /\ \A w \in 1..MaxWrites[mode] : w # t.n => called'[w] = called[w]
      <4>1. called[t.n] = 0
        BY <3>1 DEF Unanswered
      <4>2. called' = [called EXCEPT ![t.n] = called[t.n] + 1]
        BY <2>3, <2>n
      <4> HIDE DEF t
      <4>3. QED BY <2>n, <3>1, <4>1, <4>2
    <3>3. CalledOnce'
      BY <2>1, <3>1, <3>2 DEF RequestsOK, CalledOnce, Unanswered
    <3>4. \A w : Unanswered(w) /\ w # t.n => Unanswered(w)'
      BY <2>1, <2>m, <2>n, <3>2 DEF Unanswered
    <3>5. QueuedOnce' /\ (Writing => Unanswered(wr.n))'
      BY <2>1, <2>3, <3>4, Dequeueing DEF RequestsOK, QueuedOnce, PostedOnce, Writing
    <3>6. PostedOnce'
      BY <2>1, <2>3, <3>4, Dequeueing DEF RequestsOK, PostedOnce, Writing
    <3>7. QED BY <3>3, <3>5, <3>6 DEF RequestsOK
  <2>4. QED BY <2>2, <2>3
<1>17. CASE Attach
  <2>1. ~Writing' /\ UNCHANGED <<writeQ, macroQ, asked, called, mode>>
    BY <1>17 DEF Attach, Writing, TypeOK, ThreadsOK, Thread
  <2>2. QED BY <2>1 DEF RequestsOK, QueuedOnce, PostedOnce, CalledOnce, Unanswered, Answer
<1>18. CASE
  \/ Connect \/ DialSucceeds \/ ReadStart \/ ReadStop
  \/ (\E r \in BOOLEAN : SetRef(r)) \/ CloseRelease \/ ReaderQuits \/ ReadBegins
  \/ ReadReturnsData \/ ReadReturnsEOF \/ ReadFails \/ ReadChecks \/ Upgrade
  \/ Handshakes
  <2>1. UNCHANGED <<writeQ, wr, macroQ, asked, called, mode>>
    BY <1>18 DEF Connect, DialSucceeds, ReadStart, ReadStop, SetRef, CloseRelease, ReaderQuits,
       ReadBegins, ReadReturnsData, Take, Available, NextUnit, ReadReturnsEOF, ReadFails,
       ReadChecks, Upgrade, Swap, Handshakes
  <2>2. QED BY <2>1 DEF RequestsOK, QueuedOnce, PostedOnce, CalledOnce, Unanswered, Writing, Answer
<1>19. CASE
  \/ HandshakeReady \/ PeerSends \/ (\E how \in {"eof", "reset"} : PeerStops(how))
  \/ Leave
  <2>1. UNCHANGED <<writeQ, wr, macroQ, asked, called, mode>>
    BY <1>19 DEF HandshakeReady, PeerSends, PeerStops, Leave
  <2>2. QED BY <2>1 DEF RequestsOK, QueuedOnce, PostedOnce, CalledOnce, Unanswered, Writing, Answer
<1>20. CASE UNCHANGED vars
  BY <1>20 DEF vars, RequestsOK, QueuedOnce, PostedOnce, CalledOnce, Unanswered, Writing, Answer
<1> HIDE DEF handle, hold, wire, js
<1>21. QED
  BY <1>1, <1>2, <1>3, <1>4, <1>5, <1>6, <1>7, <1>8, <1>9, <1>10, <1>11, <1>12, <1>13,
     <1>14, <1>15, <1>16, <1>17, <1>18, <1>19, <1>20 DEF Next

\* Nothing happens to the queue after the loop is left.
LEMMA LeftStep == TypeOK /\ ReaderOK /\ UpgradeOK /\ ConnOK /\ LeftOK
        /\ [Next]_vars => LeftOK'
<1> SUFFICES ASSUME TypeOK /\ ReaderOK /\ UpgradeOK /\ ConnOK /\ LeftOK, [Next]_vars PROVE LeftOK'
  OBVIOUS
<1> USE DEF handle, hold, wire, js, LeftOK
<1>1. CASE DialFails
  BY <1>1 DEF DialFails, LeftOK, Alive
<1>2. CASE DialReports
  BY <1>2 DEF DialReports, LeftOK, Alive
<1>3. CASE Enqueue
  BY <1>3 DEF Enqueue, LeftOK, Alive
<1>4. CASE Close
  BY <1>4 DEF Close, LeftOK, Alive
<1>5. CASE CloseConn
  BY <1>5 DEF CloseConn, LeftOK, Alive
<1>6. CASE ReadPosts
  BY <1>6 DEF ReadPosts, LeftOK, Alive
<1>7. CASE WriteReports
  BY <1>7 DEF WriteReports, LeftOK, Alive
<1>8. CASE WriterFlushes
  BY <1>8 DEF WriterFlushes, LeftOK, Alive
<1>9. CASE \E k \in 0..MaxIn[mode] : StartTLS(k)
  BY <1>9 DEF StartTLS, Swap, LeftOK, Alive
<1>10. CASE HandshakeFails
  BY <1>10 DEF HandshakeFails, LeftOK, Alive
<1>11. CASE HandshakeReports
  BY <1>11 DEF HandshakeReports, LeftOK, Alive
<1>12. CASE RunTask
  BY <1>12 DEF RunTask, LeftOK, Alive
<1>13. CASE CloseRelease
  BY <1>13 DEF CloseRelease, LeftOK, Alive
<1>14. CASE Upgrade
  BY <1>14 DEF Upgrade, Swap, LeftOK, Alive
<1>15. CASE Leave
  BY <1>15 DEF Leave, LeftOK, Alive
<1>16. CASE
  \/ Connect \/ DialSucceeds \/ Attach \/ ReadStart \/ ReadStop
  \/ (\E r \in BOOLEAN : SetRef(r)) \/ ReaderQuits \/ ReadBegins
  \/ ReadReturnsData \/ ReadReturnsEOF \/ ReadFails \/ ReadChecks \/ WriteTakes
  \/ WriteSucceeds
  <2>1. UNCHANGED <<macroQ, vm>>
    BY <1>16 DEF Connect, DialSucceeds, Attach, ReadStart, ReadStop, SetRef, ReaderQuits,
       ReadBegins, ReadReturnsData, Take, Available, NextUnit, ReadReturnsEOF, ReadFails,
       ReadChecks, WriteTakes, WriteSucceeds
  <2>2. QED BY <2>1 DEF LeftOK
<1>17. CASE
  \/ WriteFails \/ WriteChecks \/ Handshakes \/ HandshakeReady \/ PeerSends
  \/ (\E how \in {"eof", "reset"} : PeerStops(how))
  <2>1. UNCHANGED <<macroQ, vm>>
    BY <1>17 DEF WriteFails, WriteChecks, Handshakes, Take, Available, NextUnit, HandshakeReady,
       PeerSends, PeerStops
  <2>2. QED BY <2>1 DEF LeftOK
<1>18. CASE UNCHANGED vars
  BY <1>18 DEF vars, LeftOK
<1> HIDE DEF handle, hold, wire, js, LeftOK
<1>19. QED
  BY <1>1, <1>2, <1>3, <1>4, <1>5, <1>6, <1>7, <1>8, <1>9, <1>10, <1>11, <1>12, <1>13,
     <1>14, <1>15, <1>16, <1>17, <1>18 DEF Next

(***************************************************************************)
(* Chunks in order                                                         *)
(***************************************************************************)

\* What is on its way is counted.
LEMMA AlongType ==
  ASSUME TypeOK
  PROVE  /\ Len(seen) \in Nat /\ Along \in Nat
         /\ Cardinality(Inward(macroQ)) \in Nat
         /\ \A i : /\ Cardinality(UpTo(macroQ, i)) \in Nat
                   /\ Cardinality(UpTo(macroQ, i)) <= Cardinality(Inward(macroQ))
<1>1. macroQ \in Seq(Tasks) /\ Len(seen) \in Nat
  BY DEF TypeOK, QueuesOK
<1>2. Cardinality(Inward(macroQ)) \in Nat
  BY <1>1, InwardFinite
<1>3. \A i : /\ Cardinality(UpTo(macroQ, i)) \in Nat
             /\ Cardinality(UpTo(macroQ, i)) <= Cardinality(Inward(macroQ))
  BY <1>1, InwardFinite
<1>4. Along \in Nat
  BY <1>1, <1>2 DEF Along
<1>5. QED BY <1>1, <1>2, <1>3, <1>4

\* A handle that is closed hands no more over.
LEMMA OrderClosed ==
  ASSUME InOrder, closed', UNCHANGED <<mode, seen>>
  PROVE  InOrder'
BY DEF InOrder

\* What readLoop has in hand, what is queued and what was read stay as they are.
LEMMA OrderKept ==
  ASSUME InOrder, closed => closed', UNCHANGED <<mode, seen, macroQ, taken>>,
         InHand' <=> InHand, rd'.what = "eof" <=> rd.what = "eof", rd'.n = rd.n
  PROVE  InOrder'
<1>1. Along' = Along
  BY DEF Along
<1>2. \A i : Unit(i)' = Unit(i)
  BY <1>1 DEF Unit
<1>3. QED BY <1>1, <1>2 DEF InOrder, Inward, UpTo

\* What readLoop has in hand does not count while it has nothing.
LEMMA OrderIdle ==
  ASSUME InOrder, UNCHANGED <<mode, seen, macroQ, closed, taken>>,
         ~InHand, ~InHand', rd.what # "eof", rd'.what # "eof"
  PROVE  InOrder'
<1>1. Along' = Along
  BY DEF Along
<1>2. \A i : Unit(i)' = Unit(i)
  BY <1>1 DEF Unit
<1>3. QED BY <1>1, <1>2 DEF InOrder, Inward, UpTo

\* A task that is not for onread comes behind those that are.
LEMMA OrderPosted ==
  ASSUME TypeOK, InOrder, closed => closed', NEW k \in Kinds \ Reads, NEW n \in Nat,
         macroQ' = Append(macroQ, Task(k, n)), UNCHANGED <<mode, seen, taken>>,
         InHand' <=> InHand, rd'.what = "eof" <=> rd.what = "eof", rd'.n = rd.n
  PROVE  InOrder'
<1>1. macroQ \in Seq(Tasks) /\ Task(k, n) \in Tasks /\ Task(k, n).kind \notin Reads
  BY TaskType DEF TypeOK, QueuesOK, Task
<1>2. /\ Inward(macroQ') = Inward(macroQ)
      /\ \A i \in Inward(macroQ) : /\ macroQ'[i] = macroQ[i]
                                   /\ UpTo(macroQ', i) = UpTo(macroQ, i)
  BY <1>1, InwardPosted
<1>3. Along' = Along
  BY <1>2 DEF Along
<1>4. \A i : Unit(i)' = Unit(i)
  BY <1>3 DEF Unit
<1>5. QED BY <1>2, <1>3, <1>4 DEF InOrder

\* A Read that returned data has the next unit in hand ...
LEMMA OrderRead ==
  ASSUME TypeOK, InOrder, mode # "upgrade", UNCHANGED <<mode, seen, macroQ>>, closed => closed',
         ~InHand, rd.what # "eof", taken' = taken + 1,
         InHand', rd'.what = "data", rd'.n = taken + 1
  PROVE  InOrder'
<1>1. CASE closed'
  BY <1>1 DEF InOrder
<1>2. CASE ~closed'
  <2>1. ~closed /\ taken = Along
    <3>1. taken = Along - 0
      BY <1>2 DEF InOrder
    <3>2. QED BY <1>2, <3>1, AlongType
  <2>2. Along' = Along + 1
    <3>1. Cardinality(Inward(macroQ)) \in Nat /\ Len(seen) \in Nat
      BY AlongType
    <3>2. QED BY <3>1 DEF Along
  <2>3. \A i : Unit(i)' = i /\ Unit(i) = i
    BY DEF Unit
  <2>4. QED BY <2>1, <2>2, <2>3, <1>2 DEF InOrder, Inward, UpTo
<1>3. QED BY <1>1, <1>2

\* ... one that returned EOF has that, which nothing comes after ...
LEMMA OrderEnds ==
  ASSUME TypeOK, InOrder, mode # "upgrade", UNCHANGED <<mode, seen, macroQ, taken>>,
         closed => closed', ~InHand, rd.what # "eof", InHand', rd'.what = "eof", rd'.n = 0
  PROVE  InOrder'
<1>1. CASE closed'
  BY <1>1 DEF InOrder
<1>2. CASE ~closed'
  <2>1. ~closed /\ taken = Along
    <3>1. taken = Along - 0
      BY <1>2 DEF InOrder
    <3>2. QED BY <1>2, <3>1, AlongType
  <2>2. Along' = Along + 1 /\ Along \in Nat
        /\ Along = Len(seen) + Cardinality(Inward(macroQ))
    <3>1. Cardinality(Inward(macroQ)) \in Nat /\ Len(seen) \in Nat
      BY AlongType
    <3>2. QED BY <3>1 DEF Along
  <2>3. \A i : /\ Unit(i) = i
               /\ i # Along' => Unit(i)' = i
               /\ i = Along' => Unit(i)' = 0
    BY DEF Unit
  <2>4. \A i \in 1..Len(seen) : Unit(i)' = Unit(i)
    <3>1. Len(seen) \in Nat /\ Cardinality(Inward(macroQ)) \in Nat
      BY AlongType
    <3>2. \A i \in 1..Len(seen) : i # Along'
      BY <2>2, <3>1
    <3>3. QED BY <3>2, <2>3
  <2>5. \A i \in Inward(macroQ) :
          Unit(Len(seen) + Cardinality(UpTo(macroQ, i)))'
            = Unit(Len(seen) + Cardinality(UpTo(macroQ, i)))
    <3> SUFFICES ASSUME NEW i \in Inward(macroQ)
                 PROVE  Unit(Len(seen) + Cardinality(UpTo(macroQ, i)))'
                          = Unit(Len(seen) + Cardinality(UpTo(macroQ, i)))
      OBVIOUS
    <3> DEFINE c == Cardinality(UpTo(macroQ, i))
               a == Cardinality(Inward(macroQ))
    <3>1. c \in Nat /\ a \in Nat /\ c <= a /\ Len(seen) \in Nat
      BY AlongType
    <3>2. c' = c /\ Len(seen)' = Len(seen)
      BY DEF UpTo, Inward
    <3>3. Along = Len(seen) + a
      BY <2>2
    <3> HIDE DEF c, a
    <3>4. Len(seen) + c # Along'
      BY <2>2, <3>1, <3>3
    <3>5. Unit(Len(seen) + c)' = Len(seen) + c
      BY <3>2, <3>4 DEF Unit
    <3>6. QED BY <3>5, <2>3 DEF c
  <2>6. Unit(Along)' = 0 /\ taken' = Along' - 1
    BY <2>1, <2>2, <2>3, AlongType
  <2>7. \A i \in 1..Len(seen) : seen'[i] = Unit(i)'
    BY <2>1, <2>4 DEF InOrder
  <2>8. \A i \in Inward(macroQ) :
          macroQ'[i].n = Unit(Len(seen) + Cardinality(UpTo(macroQ, i)))'
    BY <2>1, <2>5 DEF InOrder
  <2>9. \A i \in 1..Len(seen) : seen'[i] = i \/ (seen'[i] = 0 /\ i = Len(seen))
    BY DEF InOrder
  <2>10. Inward(macroQ)' = Inward(macroQ) /\ (1..Len(seen))' = 1..Len(seen)
    BY DEF Inward
  <2>11. QED BY <2>6, <2>7, <2>8, <2>9, <2>10, <1>2 DEF InOrder
<1>3. QED BY <1>1, <1>2

\* ... and readLoop's task for onread comes behind all the others.
LEMMA OrderHanded ==
  ASSUME TypeOK, InOrder, mode # "upgrade", UNCHANGED <<mode, seen, taken>>, closed => closed',
         InHand, ~InHand', rd'.what = rd.what, NEW k \in Reads,
         macroQ' = Append(macroQ, Task(k, rd.n))
  PROVE  InOrder'
<1>1. CASE closed'
  BY <1>1 DEF InOrder
<1>2. CASE ~closed'
  <2> DEFINE t == Task(k, rd.n)
             a == Cardinality(Inward(macroQ))
  <2>1. macroQ \in Seq(Tasks) /\ t \in Tasks /\ t.kind \in Reads /\ t.n = rd.n
    <3>1. k \in Kinds /\ rd.n \in Nat
      BY DEF Reads, Kinds, TypeOK, ThreadsOK, Thread
    <3>2. QED BY <3>1, TaskType DEF TypeOK, QueuesOK, Task
  <2>2. /\ Cardinality(Inward(macroQ')) = a + 1
        /\ Inward(macroQ') = Inward(macroQ) \cup {Len(macroQ) + 1}
        /\ macroQ'[Len(macroQ) + 1] = t
        /\ Cardinality(UpTo(macroQ', Len(macroQ) + 1)) = a + 1
        /\ \A i \in Inward(macroQ) : /\ macroQ'[i] = macroQ[i]
                                     /\ UpTo(macroQ', i) = UpTo(macroQ, i)
    BY <2>1, InwardAdded
  <2>3. a \in Nat /\ Len(seen) \in Nat
    BY AlongType
  <2> HIDE DEF a
  <2>4. Along' = Along /\ Along = Len(seen) + (a + 1)
    BY <2>2, <2>3 DEF Along, a
  <2>5. \A i : Unit(i)' = Unit(i)
    BY <2>4 DEF Unit
  <2>6. ~closed /\ rd.n = Unit(Along)
    BY <1>2 DEF InOrder
  <2>7. ASSUME NEW i \in Inward(macroQ')
        PROVE  macroQ'[i].n = Unit(Len(seen) + Cardinality(UpTo(macroQ, i)))'
    <3>1. CASE i \in Inward(macroQ)
      <4>1. macroQ[i].n = Unit(Len(seen) + Cardinality(UpTo(macroQ, i)))
        BY <2>6, <3>1 DEF InOrder
      <4>2. macroQ'[i].n = Unit(Len(seen) + Cardinality(UpTo(macroQ', i)))
        BY <2>2, <3>1, <4>1
      <4>3. Cardinality(UpTo(macroQ, i))' = Cardinality(UpTo(macroQ', i))
        BY DEF UpTo, Inward
      <4>4. QED BY <2>5, <4>2, <4>3 DEF Unit
    <3>2. CASE i = Len(macroQ) + 1
      <4>1. Cardinality(UpTo(macroQ', i)) = a + 1 /\ macroQ'[i] = t
        BY <2>2, <3>2
      <4>2. macroQ'[i].n = Unit(Len(seen) + (a + 1))
        BY <2>1, <2>4, <2>6, <4>1
      <4>3. Cardinality(UpTo(macroQ, i))' = a + 1
        BY <4>1 DEF UpTo, Inward
      <4>4. QED BY <2>5, <4>2, <4>3 DEF Unit
    <3>3. QED BY <2>2, <3>1, <3>2
  <2>8. QED BY <1>2, <2>4, <2>5, <2>6, <2>7 DEF InOrder
<1>3. QED BY <1>1, <1>2

\* onread gets the first of them.
LEMMA OrderRun ==
  ASSUME TypeOK, InOrder, mode # "upgrade", RunTask
  PROVE  InOrder'
<1> USE DEF handle, hold, wire, js
<1> DEFINE t == Head(macroQ)
           q == Tail(macroQ)
           h == IF t.kind \in Reads THEN 1 ELSE 0
<1>1. /\ macroQ \in Seq(Tasks) /\ macroQ # <<>> /\ macroQ' = q
      /\ UNCHANGED <<mode, closed, taken, rd>>
  BY DEF RunTask, TypeOK, QueuesOK
<1>2. /\ t.kind \in Reads /\ ~closed => seen' = Append(seen, t.n)
      /\ t.kind \notin Reads \/ closed => seen' = seen
  BY DEF RunTask, Reads
<1>3. CASE closed
  BY <1>1, <1>2, <1>3 DEF InOrder
<1>4. CASE ~closed
  <2> HIDE DEF t, q
  <2>1. /\ Cardinality(Inward(macroQ)) = Cardinality(Inward(q)) + h
        /\ \A i \in Inward(q) :
             /\ i + 1 \in Inward(macroQ) /\ q[i] = macroQ[i + 1]
             /\ Cardinality(UpTo(macroQ, i + 1)) = Cardinality(UpTo(q, i)) + h
        /\ h = 1 => 1 \in Inward(macroQ) /\ Cardinality(UpTo(macroQ, 1)) = 1
    BY <1>1, InwardRun DEF t, q
  <2>2. t = macroQ[1] /\ t.n \in Nat
    <3>1. Head(macroQ) \in Tasks /\ Head(macroQ) = macroQ[1]
      BY <1>1, Dequeueing
    <3>2. QED BY <3>1 DEF t, Tasks
  <2>3. q \in Seq(Tasks) /\ seen \in Seq(Nat) /\ h \in {0, 1}
    BY <1>1, Dequeueing DEF q, TypeOK, QueuesOK
  <2>4. /\ Len(seen) \in Nat /\ Cardinality(Inward(q)) \in Nat
        /\ \A i : Cardinality(UpTo(q, i)) \in Nat
    BY <2>3, InwardFinite
  <2>5. Len(seen') = Len(seen) + h
    BY <1>2, <1>4, <2>2, <2>3
  <2> HIDE DEF h
  <2>6. Along' = Along
    <3>1. Len(seen') + Cardinality(Inward(q)) = Len(seen) + Cardinality(Inward(macroQ))
      BY <2>1, <2>3, <2>4, <2>5
    <3>2. InHand' <=> InHand
      BY <1>1 DEF InHand
    <3>3. QED BY <1>1, <3>1, <3>2 DEF Along
  <2>7. \A i : Unit(i)' = Unit(i)
    BY <1>1, <2>6 DEF Unit
  <2>8. ASSUME NEW i \in Inward(q)
        PROVE  q[i].n = Unit(Len(seen') + Cardinality(UpTo(q, i)))
    <3>1. macroQ[i + 1].n = Unit(Len(seen) + Cardinality(UpTo(macroQ, i + 1)))
      BY <1>4, <2>1 DEF InOrder
    <3>2. Len(seen) + Cardinality(UpTo(macroQ, i + 1)) = Len(seen') + Cardinality(UpTo(q, i))
      BY <2>1, <2>3, <2>4, <2>5
    <3>3. QED BY <2>1, <3>1, <3>2
  <2>9. \A i \in Inward(macroQ)' : macroQ'[i].n = Unit(Len(seen) + Cardinality(UpTo(macroQ, i)))'
    <3> SUFFICES ASSUME NEW i \in Inward(q)
                 PROVE  q[i].n = Unit(Len(seen) + Cardinality(UpTo(macroQ, i)))'
      BY <1>1
    <3>1. Cardinality(UpTo(macroQ, i))' = Cardinality(UpTo(q, i))
      BY <1>1
    <3>2. QED BY <1>1, <2>6, <2>8, <3>1 DEF Unit
  <2>10. \A i \in 1..Len(seen') : seen'[i] = Unit(i)
    <3>1. \A i \in 1..Len(seen) : seen[i] = Unit(i)
      BY <1>4 DEF InOrder
    <3>2. CASE h = 0
      BY <1>2, <1>4, <3>1, <3>2 DEF h
    <3>3. CASE h = 1
      <4>1. /\ seen' = Append(seen, t.n) /\ Len(seen') = Len(seen) + 1
        BY <1>2, <1>4, <2>5, <3>3 DEF h
      <4>2. t.n = Unit(Len(seen) + 1)
        BY <1>4, <2>1, <2>2, <3>3 DEF InOrder
      <4>3. \A i \in 1..Len(seen) : seen'[i] = seen[i]
        BY <2>2, <2>3, <4>1
      <4>4. seen'[Len(seen) + 1] = t.n
        BY <2>2, <2>3, <4>1
      <4>5. QED BY <2>4, <3>1, <4>1, <4>2, <4>3, <4>4
    <3>4. QED BY <2>3, <3>2, <3>3
  <2>11. \A i \in 1..Len(seen') : seen'[i] = i \/ (seen'[i] = 0 /\ i = Len(seen'))
    <3> SUFFICES ASSUME NEW i \in 1..Len(seen'), seen'[i] # i
                 PROVE  seen'[i] = 0 /\ i = Len(seen')
      OBVIOUS
    <3>1. seen'[i] = 0 /\ i = Along
      BY <2>10 DEF Unit
    <3>2. Along >= Len(seen')
      <4>1. Along = Len(seen) + Cardinality(Inward(macroQ)) \/
            Along = Len(seen) + Cardinality(Inward(macroQ)) + 1
        BY <2>1, <2>3, <2>4 DEF Along
      <4>2. QED BY <2>1, <2>3, <2>4, <2>5, <4>1
    <3>3. QED BY <2>3, <2>4, <2>5, <3>1, <3>2
  <2>12. (InHand => rd.n = Unit(Along)) /\ taken = Along - (IF rd.what = "eof" THEN 1 ELSE 0)
    BY <1>4 DEF InOrder
  <2>13. QED
    <3>1. (InHand => rd.n = Unit(Along))'
      BY <1>1, <2>6, <2>7, <2>12 DEF InHand, Unit
    <3>2. (taken = Along - (IF rd.what = "eof" THEN 1 ELSE 0))'
      BY <1>1, <2>6, <2>12
    <3>3. (\A i \in 1..Len(seen) : seen[i] = Unit(i))'
      BY <2>10, <2>7, <2>6, <1>1 DEF Unit
    <3>4. QED BY <1>1, <2>9, <2>11, <3>1, <3>2, <3>3 DEF InOrder
<1>5. QED BY <1>3, <1>4

\* A handle is used in one way.
LEMMA ModeKept == [Next]_vars => mode' = mode
<1> SUFFICES ASSUME [Next]_vars PROVE mode' = mode
  OBVIOUS
<1>1. CASE
  \/ Connect \/ DialFails \/ DialSucceeds \/ Attach \/ DialReports \/ ReadStart \/ ReadStop
  \/ Enqueue \/ (\E r \in BOOLEAN : SetRef(r)) \/ Close \/ CloseConn \/ CloseRelease
  BY <1>1 DEF Connect, DialFails, DialSucceeds, Attach, DialReports, ReadStart, ReadStop, Enqueue,
     SetRef, Close, CloseConn, CloseRelease
<1>2. CASE
  \/ ReaderQuits \/ ReadBegins \/ ReadReturnsData \/ ReadReturnsEOF \/ ReadFails \/ ReadChecks
  \/ ReadPosts \/ WriteTakes \/ WriteSucceeds \/ WriteFails \/ WriteChecks \/ WriteReports
  \/ WriterFlushes
  BY <1>2 DEF ReaderQuits, ReadBegins, ReadReturnsData, ReadReturnsEOF, ReadFails, ReadChecks,
     ReadPosts, WriteTakes, WriteSucceeds, WriteFails, WriteChecks, WriteReports, WriterFlushes
<1>3. CASE
  \/ (\E k \in 0..MaxIn[mode] : StartTLS(k)) \/ Upgrade \/ Handshakes \/ HandshakeFails
  \/ HandshakeReady \/ HandshakeReports \/ RunTask \/ PeerSends
  \/ (\E how \in {"eof", "reset"} : PeerStops(how)) \/ Leave \/ UNCHANGED vars
  BY <1>3 DEF StartTLS, Upgrade, Handshakes, HandshakeFails, HandshakeReady, HandshakeReports,
     RunTask, PeerSends, PeerStops, Leave, vars
<1>4. QED BY <1>1, <1>2, <1>3 DEF Next

\* The conn stays raw as long as startTLS is not called.
LEMMA RawStep == TypeOK /\ ConnOK /\ RawOK /\ [Next]_vars => RawOK'
<1> SUFFICES ASSUME TypeOK, ConnOK, RawOK, [Next]_vars PROVE RawOK'
  OBVIOUS
<1>m. mode' = mode
  BY ModeKept
<1> SUFFICES ASSUME mode # "upgrade"
             PROVE  /\ hs' = "none" /\ vm' # "upgrading" /\ conn' # "tls" /\ rd'.conn # "tls"
                    /\ conn' # "nil" => ready'
                    /\ rd'.pc \in {"off", "top", "read"} => rd'.what # "eof"
  BY <1>m DEF RawOK
<1> USE DEF handle, hold, wire, js, RawOK
<1>1. CASE Attach
  BY <1>1 DEF Attach, TypeOK, ThreadsOK, Thread, ConnOK
<1>2. CASE ReadBegins
  BY <1>2 DEF ReadBegins, TypeOK, ThreadsOK, Thread
<1>3. CASE ReaderQuits \/ ReadReturnsEOF \/ ReadFails
  BY <1>3 DEF ReaderQuits, ReadReturnsEOF, ReadFails, TypeOK, ThreadsOK, Thread
<1>4. CASE ReadReturnsData
  BY <1>4 DEF ReadReturnsData, TypeOK, ThreadsOK, Thread
<1>5. CASE ReadChecks
  BY <1>5 DEF ReadChecks, TypeOK, ThreadsOK, Thread, ConnOK
<1>6. CASE ReadPosts
  BY <1>6 DEF ReadPosts, TypeOK, ThreadsOK, Thread
<1>7. CASE
  \/ (\E k \in 0..MaxIn[mode] : StartTLS(k)) \/ Upgrade \/ Handshakes \/ HandshakeFails
  \/ HandshakeReady \/ HandshakeReports
  BY <1>7 DEF StartTLS, Upgrade, Handshakes, HandshakeFails, HandshakeReady, HandshakeReports
<1>8. CASE
  \/ Connect \/ DialFails \/ DialSucceeds \/ DialReports \/ ReadStart \/ ReadStop \/ Enqueue
  \/ (\E r \in BOOLEAN : SetRef(r)) \/ Close \/ CloseConn \/ CloseRelease
  BY <1>8 DEF Connect, DialFails, DialSucceeds, DialReports, ReadStart, ReadStop, Enqueue,
     SetRef, Close, CloseConn, CloseRelease
<1>9. CASE
  \/ WriteTakes \/ WriteSucceeds \/ WriteFails \/ WriteChecks \/ WriteReports \/ WriterFlushes
  \/ RunTask \/ PeerSends \/ (\E how \in {"eof", "reset"} : PeerStops(how)) \/ Leave
  BY <1>9 DEF WriteTakes, WriteSucceeds, WriteFails, WriteChecks, WriteReports, WriterFlushes,
     RunTask, PeerSends, PeerStops, Leave
<1>10. CASE UNCHANGED vars
  BY <1>10 DEF vars
<1> HIDE DEF handle, hold, wire, js, RawOK
<1>11. QED
  BY <1>1, <1>2, <1>3, <1>4, <1>5, <1>6, <1>7, <1>8, <1>9, <1>10 DEF Next

\* Every step keeps the units in order.
LEMMA OrderStep == TypeOK /\ ReaderOK /\ ConnOK /\ RawOK /\ InOrder /\ [Next]_vars => InOrder'
<1> SUFFICES ASSUME TypeOK, ReaderOK, ConnOK, RawOK, InOrder, [Next]_vars PROVE InOrder'
  OBVIOUS
<1>m. mode' = mode
  BY ModeKept
<1> SUFFICES ASSUME mode # "upgrade" PROVE InOrder'
  BY <1>m DEF InOrder
<1>r. /\ hs = "none" /\ vm # "upgrading" /\ conn # "tls" /\ rd.conn # "tls"
      /\ conn # "nil" => ready
      /\ rd.pc \in {"off", "top", "read"} => rd.what # "eof"
  BY DEF RawOK
<1> USE DEF handle, hold, wire, js, Post
<1>1. CASE RunTask
  BY <1>1, OrderRun
<1>2. CASE ReadReturnsData
  <2>1. /\ ~InHand /\ rd.what # "eof" /\ taken' = taken + 1
        /\ InHand' /\ rd'.what = "data" /\ rd'.n = taken + 1
    BY <1>2, <1>r DEF ReadReturnsData, Take, NextUnit, InHand, TypeOK, ThreadsOK, Thread
  <2>2. UNCHANGED <<mode, seen, macroQ, closed>>
    BY <1>2 DEF ReadReturnsData
  <2>3. QED BY <2>1, <2>2, OrderRead
<1>3. CASE ReadReturnsEOF
  <2>1. ~InHand /\ rd.what # "eof" /\ InHand' /\ rd'.what = "eof" /\ rd'.n = 0
    BY <1>3, <1>r DEF ReadReturnsEOF, InHand, TypeOK, ThreadsOK, Thread
  <2>2. UNCHANGED <<mode, seen, macroQ, closed, taken>>
    BY <1>3 DEF ReadReturnsEOF
  <2>3. QED BY <2>1, <2>2, OrderEnds
<1>4. CASE ReadPosts
  <2>1. /\ rd'.what = rd.what /\ rd'.n = rd.n /\ ~InHand' /\ rd.n \in Nat
        /\ UNCHANGED <<mode, seen, closed, taken>>
    BY <1>4 DEF ReadPosts, InHand, TypeOK, ThreadsOK, Thread
  <2>2. CASE rd.what = "err"
    <3>1. ~InHand /\ macroQ' = Append(macroQ, Task("err", rd.n)) /\ "err" \in Kinds \ Reads
      BY <1>4, <2>2 DEF ReadPosts, InHand, Kinds, Reads
    <3>2. QED BY <2>1, <3>1, OrderPosted
  <2>3. CASE rd.what = "eof"
    <3>1. InHand /\ macroQ' = Append(macroQ, Task("eof", rd.n)) /\ "eof" \in Reads
      BY <1>4, <2>3 DEF ReadPosts, InHand, Reads
    <3>2. QED BY <2>1, <3>1, OrderHanded
  <2>4. CASE rd.what = "data"
    <3>1. rd.conn = "raw"
      BY <1>4, <1>r DEF ReadPosts, ConnOK, TypeOK, ThreadsOK, Thread, Conns
    <3>2. InHand /\ macroQ' = Append(macroQ, Task("raw", rd.n)) /\ "raw" \in Reads
      BY <1>4, <2>4, <3>1 DEF ReadPosts, InHand, Reads
    <3>3. QED BY <2>1, <3>2, OrderHanded
  <2>5. QED BY <1>4, <2>2, <2>3, <2>4 DEF ReadPosts, ReaderOK, TypeOK, ThreadsOK, Thread
<1>5. CASE ReadChecks
  <2>1. UNCHANGED <<mode, seen, macroQ, closed, taken>> /\ rd'.what = rd.what /\ rd'.n = rd.n
    BY <1>5 DEF ReadChecks, TypeOK, ThreadsOK, Thread
  <2>2. CASE closed
    BY <2>1, <2>2, OrderClosed
  <2>3. CASE ~closed
    <3>1. InHand' <=> InHand
      BY <1>5, <1>r, <2>3 DEF ReadChecks, InHand, ConnOK, TypeOK, ThreadsOK, Thread
    <3>2. QED BY <2>1, <3>1, OrderKept
  <2>4. QED BY <2>2, <2>3
<1>6. CASE Attach \/ ReaderQuits \/ ReadBegins \/ ReadFails
  <2>1. UNCHANGED <<mode, seen, macroQ, closed, taken>>
    BY <1>6 DEF Attach, ReaderQuits, ReadBegins, ReadFails
  <2>2. CASE closed
    BY <2>1, <2>2, OrderClosed
  <2>3. CASE ~closed
    <3>1. /\ ~InHand /\ ~InHand' /\ rd.what # "eof" /\ rd'.what # "eof"
      BY <1>6, <1>r, <2>3 DEF Attach, ReaderQuits, ReadBegins, ReadFails, InHand, ConnOK, TypeOK,
         ThreadsOK, Thread
    <3>2. QED BY <2>1, <2>3, <3>1, OrderIdle
  <2>4. QED BY <2>2, <2>3
<1>7. CASE DialFails \/ DialReports
  <2>1. UNCHANGED <<mode, seen, closed, taken, rd>> /\ {"connectErr", "connected"} \subseteq Kinds \ Reads
    BY <1>7 DEF DialFails, DialReports, Kinds, Reads
  <2>2. \E k \in {"connectErr", "connected"} : macroQ' = Append(macroQ, Task(k, 0))
    BY <1>7 DEF DialFails, DialReports
  <2>3. QED BY <2>1, <2>2, OrderPosted DEF InHand
<1>8. CASE Enqueue \/ WriteReports \/ WriterFlushes
  <2>1. UNCHANGED <<mode, seen, closed, taken, rd>> /\ {"wrote", "writeErr"} \subseteq Kinds \ Reads
    BY <1>8 DEF Enqueue, WriteReports, WriterFlushes, Kinds, Reads
  <2>2. \/ macroQ' = macroQ
        \/ \E k \in {"wrote", "writeErr"}, n \in Nat : macroQ' = Append(macroQ, Task(k, n))
    <3>1. asked + 1 \in Nat /\ wr.n \in Nat
      BY DEF TypeOK, CountsOK, ThreadsOK, Thread
    <3>2. writeQ # <<>> => Head(writeQ) \in Nat
      BY Dequeueing DEF TypeOK, QueuesOK
    <3>3. QED BY <1>8, <3>1, <3>2 DEF Enqueue, WriteReports, WriterFlushes
  <2>3. QED BY <2>1, <2>2, OrderPosted, OrderKept DEF InHand
<1>9. CASE Close \/ CloseConn
  <2>1. /\ UNCHANGED <<mode, seen, taken, rd>> /\ "close" \in Kinds \ Reads
        /\ closed => closed'
    BY <1>9 DEF Close, CloseConn, Kinds, Reads
  <2>2. macroQ' = macroQ \/ macroQ' = Append(macroQ, Task("close", 0))
    BY <1>9 DEF Close, CloseConn
  <2>3. QED BY <2>1, <2>2, OrderPosted, OrderKept DEF InHand
<1>10. CASE
  \/ (\E k \in 0..MaxIn[mode] : StartTLS(k)) \/ Upgrade \/ Handshakes \/ HandshakeFails
  \/ HandshakeReady \/ HandshakeReports
  BY <1>10, <1>r DEF StartTLS, Upgrade, Handshakes, HandshakeFails, HandshakeReady,
     HandshakeReports
<1>11. CASE
  \/ Connect \/ DialSucceeds \/ ReadStart \/ ReadStop \/ (\E r \in BOOLEAN : SetRef(r))
  \/ CloseRelease \/ WriteTakes \/ WriteSucceeds \/ WriteFails \/ WriteChecks
  \/ PeerSends \/ (\E how \in {"eof", "reset"} : PeerStops(how)) \/ Leave
  <2>1. UNCHANGED <<mode, seen, macroQ, closed, taken, rd>>
    BY <1>11 DEF Connect, DialSucceeds, ReadStart, ReadStop, SetRef, CloseRelease, WriteTakes,
       WriteSucceeds, WriteFails, WriteChecks, PeerSends, PeerStops, Leave
  <2>2. QED BY <2>1, OrderKept DEF InHand
<1>12. CASE UNCHANGED vars
  <2>1. UNCHANGED <<mode, seen, macroQ, closed, taken, rd>>
    BY <1>12 DEF vars
  <2>2. QED BY <2>1, OrderKept DEF InHand
<1> HIDE DEF handle, hold, wire, js, Post
<1>13. QED
  BY <1>1, <1>2, <1>3, <1>4, <1>5, <1>6, <1>7, <1>8, <1>9, <1>10, <1>11, <1>12 DEF Next

(***************************************************************************)
(* The theorems                                                            *)
(***************************************************************************)

\* Every step keeps the inductive invariant.
LEMMA Inductive == IInv /\ [Next]_vars => IInv'
BY StatesStep, FlagsStep, ThreadsStep, CountsStep, QueuesStep, HoldStep, ReaderStep, UpgradeStep,
   ConnStep, ErrStep, OneReaderStep, ErrorsStep, ClosesStep, RequestsStep, LeftStep,
   RawStep, OrderStep
   DEF IInv, TypeOK

LEMMA Invariance == Spec => []IInv
BY InitInv, Inductive, PTL DEF Spec

\* Every variable keeps its type, whatever the handle, its goroutines and the
\* peer do.
THEOREM TypeCorrect == Spec => []TypeOK
<1>1. IInv => TypeOK
  BY DEF IInv
<1>2. QED BY <1>1, Invariance, PTL

\* updateOpLocked leaves the hold exact in any order of dialing, attaching,
\* ref(), unref() and close().
THEOREM HoldIsExact == Spec => []HoldExact
<1>1. IInv => HoldExact
  BY DEF IInv
<1>2. QED BY <1>1, Invariance, PTL

\* The process does not leave before every close() has called back.
THEOREM ClosesAreHeard == Spec => []ClosedBeforeExit
<1>1. IInv => ClosedBeforeExit
  <2> SUFFICES ASSUME IInv, vm = "left" PROVE closeCbs = closes
    BY DEF ClosedBeforeExit
  <2>1. macroQ = <<>>
    BY DEF IInv, LeftOK
  <2>2. CloseTasks(macroQ) = {}
    BY <2>1 DEF CloseTasks
  <2>3. Cardinality(CloseTasks(macroQ)) = 0
    BY <2>2, FS_EmptySet
  <2>4. closes = closeCbs + 0 + 0
    BY <2>3 DEF IInv, ClosesCounted
  <2>5. QED BY <2>4 DEF IInv, TypeOK, CountsOK
<1>2. QED BY <1>1, Invariance, PTL

\* readLoop and writeLoop never report the error of a conn that close() or
\* startTLS pulled from under them.
THEOREM ErrorsAreReal == Spec => []ErrorsAreThePeers
<1>1. IInv => ErrorsAreThePeers
  BY DEF IInv
<1>2. QED BY <1>1, Invariance, PTL

\* A request moves from the queue to writeLoop to a macrotask without being
\* answered twice, also when close() flushes the queue.
THEOREM AnsweredOnce == Spec => []CalledOnce
<1>1. IInv => CalledOnce
  BY DEF IInv, RequestsOK
<1>2. QED BY <1>1, Invariance, PTL

\* startTLS has the raw conn to itself.
THEOREM RawConnIsFree == Spec => []OneReader
<1>1. IInv => OneReader
  BY DEF IInv
<1>2. QED BY <1>1, Invariance, PTL

\* Chunks reach onread in the order of the wire, none twice and none dropped, and
\* EOF last, however the dialing, the reading goroutine, readStart, readStop and
\* close() interleave.
THEOREM ChunksInOrder == Spec => []Inbound
<1>1. IInv => Inbound
  BY DEF IInv, Inbound
<1>2. QED BY <1>1, Invariance, PTL

=============================================================================
