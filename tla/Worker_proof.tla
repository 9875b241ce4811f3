---------------------------- MODULE Worker_proof ----------------------------
(***************************************************************************)
(* Proofs about Worker, for any number of messages either way and of calls *)
(* on parentPort, and for any exit codes.                                  *)
(***************************************************************************)
EXTENDS Worker, SequenceTheorems, FiniteSetTheorems, TLAPS

\* Where a sequence of mails has those of a kind, and EventOrder of it.
Kinds(u, k) == {i \in 1..Len(u) : u[i].kind = k}
Order(u, n, gone) ==
  /\ Kinds(u, "online") \subseteq {1} /\ Kinds(u, "exit") \subseteq {Len(u)}
  /\ Cardinality(Kinds(u, "error")) <= 1
  /\ (Kinds(u, "message") \cup Kinds(u, "error") # {}) => Kinds(u, "online") = {1}
  /\ \A i \in Kinds(u, "message") :
       u[i].n = Cardinality({k \in Kinds(u, "message") : k <= i})
  /\ Cardinality(Kinds(u, "message")) = n
  /\ gone <=> Kinds(u, "exit") # {}

Early == {"new", "init", "attached"}
Started == {"script", "callback", "loop", "reporting", "ending"}

\* What the child has pushed says where run() is.
Pushed(u, n, at, err) ==
  /\ Order(u, n, at = "gone")
  /\ at \in Early => u = <<>>
  /\ at \in Started => Kinds(u, "online") = {1}
  /\ Kinds(u, "error") # {} => err
  /\ at = "reporting" => err /\ Kinds(u, "error") = {}
  /\ Kinds(u, "error") # {} => \A i \in Kinds(u, "exit") : u[i].n = 1
UpOK == Pushed(Upward, up, child, errored)

\* An error is reported once and by a worker that was not told to exit; from
\* then on it runs no JavaScript.
ErrOK == errored => /\ ~exitRequested
                    /\ child \in {"reporting", "ending", "closing", "exiting", "gone"}
                    /\ child \in {"closing", "exiting"} => code = 1

\* The parent's mailbox is open, and held while ref'd, until "exit" is delivered,
\* and nothing was pushed behind that.
ParentOK ==
  /\ alive = ~exited
  /\ toParent.attached /\ toParent.closed = exited
  /\ toParent.held = (~exited /\ refed)
  /\ parent = "left" => (exited \/ ~refed)
  /\ exited => child = "gone" /\ inHand = <<>> /\ toParent.queue = <<>>

\* A message to the child is on its way once, and those that were not posted are
\* not; the child's mailbox is open until run() closes it.
Messages(q) == \A i \in 1..Len(q) : q[i] = Mail("message", q[i].n)
Way(heard, kept, taken, queue, n) ==
  On(heard, n) + On(kept, n) + On(taken, Mail("message", n)) + On(queue, Mail("message", n))
Route(heard, kept, taken, queue, posted) ==
  /\ Messages(taken) /\ Messages(queue)
  /\ \A n \in Nat : Way(heard, kept, taken, queue, n) <= 1
  /\ \A n \in Nat : n > posted => Way(heard, kept, taken, queue, n) = 0
AllThere(heard, kept, taken, queue, posted) ==
  \A n \in 1..posted : Way(heard, kept, taken, queue, n) # 0
ThreadEnded == child \in {"exiting", "gone"}
DownOK == /\ toChild.closed = ThreadEnded
          /\ Route(received, pending, batch, toChild.queue, down)
          /\ ~portClosed /\ ~ThreadEnded
               => AllThere(received, pending, batch, toChild.queue, down)

IInv == TypeOK /\ UpOK /\ ErrOK /\ ParentOK /\ DownOK

-----------------------------------------------------------------------------
(* Mailboxes *)

LEMMA PushFacts ==
  ASSUME NEW m \in Mailboxes(Mails), NEW x \in Mails
  PROVE  /\ Push(m, x) \in Mailboxes(Mails)
         /\ Push(m, x).attached = m.attached /\ Push(m, x).closed = m.closed
         /\ Push(m, x).refs = m.refs /\ Push(m, x).held = m.held
         /\ Push(m, x).queue = IF m.closed THEN m.queue ELSE Append(m.queue, x)
<1> DEFINE q == [m EXCEPT !.queue = Append(m.queue, x)]
<1>1. Append(m.queue, x) \in Seq(Mails)
  BY DEF Mailboxes
<1>2. /\ q \in Mailboxes(Mails) /\ q.attached = m.attached /\ q.closed = m.closed
      /\ q.refs = m.refs /\ q.held = m.held /\ q.queue = Append(m.queue, x)
  BY <1>1 DEF Mailboxes
<1>3. Push(m, x) = IF m.closed THEN m ELSE Schedule(q)
  BY DEF Push
<1> HIDE DEF q
<1>4. /\ Schedule(q) \in Mailboxes(Mails) /\ Schedule(q).attached = q.attached
      /\ Schedule(q).closed = q.closed /\ Schedule(q).refs = q.refs
      /\ Schedule(q).held = q.held /\ Schedule(q).queue = q.queue
  BY <1>2 DEF Schedule, Mailboxes
<1>5. QED BY <1>2, <1>3, <1>4

LEMMA DrainedFacts ==
  ASSUME NEW m \in Mailboxes(Mails)
  PROVE  /\ Drained(m) \in Mailboxes(Mails)
         /\ Drained(m).attached = m.attached /\ Drained(m).closed = m.closed
         /\ Drained(m).refs = m.refs /\ Drained(m).held = m.held
         /\ Drained(m).queue = <<>>
<1> DEFINE q == [m EXCEPT !.scheduled = FALSE]
<1>1. /\ q \in Mailboxes(Mails) /\ q.attached = m.attached /\ q.closed = m.closed
      /\ q.refs = m.refs /\ q.held = m.held
  BY DEF Mailboxes
<1>2. Drained(m) = [q EXCEPT !.queue = <<>>]
  BY DEF Drained, Mailboxes
<1> HIDE DEF q
<1>3. <<>> \in Seq(Mails)
  BY EmptySeq
<1>4. QED BY <1>1, <1>2, <1>3 DEF Mailboxes

LEMMA SetRefsFacts ==
  ASSUME NEW m \in Mailboxes(Mails), NEW n \in Nat
  PROVE  /\ SetRefs(m, n) \in Mailboxes(Mails)
         /\ SetRefs(m, n).attached = m.attached /\ SetRefs(m, n).closed = m.closed
         /\ SetRefs(m, n).queue = m.queue
         /\ SetRefs(m, n).held = (m.attached /\ n > 0 /\ ~m.closed)
<1> DEFINE q == [m EXCEPT !.refs = n]
<1>1. /\ q \in Mailboxes(Mails) /\ q.attached = m.attached /\ q.closed = m.closed
      /\ q.refs = n /\ q.queue = m.queue
  BY DEF Mailboxes
<1>2. SetRefs(m, n) = [q EXCEPT !.held = q.attached /\ q.refs > 0 /\ ~q.closed]
  BY DEF SetRefs, UpdateHold
<1> HIDE DEF q
<1>3. QED BY <1>1, <1>2 DEF Mailboxes

LEMMA ClosedFacts ==
  ASSUME NEW m \in Mailboxes(Mails)
  PROVE  /\ Closed(m) \in Mailboxes(Mails)
         /\ Closed(m).attached = m.attached /\ Closed(m).closed
         /\ Closed(m).queue = <<>> /\ ~Closed(m).held
<1> DEFINE p == [m EXCEPT !.closed = TRUE]
           q == [p EXCEPT !.queue = <<>>]
<1>1. p \in Mailboxes(Mails) /\ p.attached = m.attached /\ p.closed
  BY DEF Mailboxes
<1>2. Closed(m) = [q EXCEPT !.held = q.attached /\ q.refs > 0 /\ ~q.closed]
  BY DEF Closed, UpdateHold, Mailboxes
<1> HIDE DEF p
<1>a. <<>> \in Seq(Mails)
  BY EmptySeq
<1>3. q \in Mailboxes(Mails) /\ q.attached = m.attached /\ q.closed /\ q.queue = <<>>
  BY <1>1, <1>a DEF Mailboxes
<1> HIDE DEF q
<1>4. QED BY <1>2, <1>3 DEF Mailboxes

LEMMA AttachFacts ==
  ASSUME NEW m \in Mailboxes(Mails)
  PROVE  /\ Attach(m) \in Mailboxes(Mails)
         /\ Attach(m).attached /\ Attach(m).closed = m.closed /\ Attach(m).queue = m.queue
<1> DEFINE p == [m EXCEPT !.attached = TRUE]
           q == Schedule(p)
<1>1. /\ p \in Mailboxes(Mails) /\ p.attached /\ p.closed = m.closed /\ p.queue = m.queue
  BY DEF Mailboxes
<1>2. Attach(m) = [q EXCEPT !.held = q.attached /\ q.refs > 0 /\ ~q.closed]
  BY DEF Attach, UpdateHold
<1> HIDE DEF p
<1>3. q \in Mailboxes(Mails) /\ q.attached /\ q.closed = m.closed /\ q.queue = m.queue
  BY <1>1 DEF Schedule, Mailboxes
<1> HIDE DEF q
<1>4. QED BY <1>2, <1>3 DEF Mailboxes

LEMMA RefFacts ==
  ASSUME NEW m \in Mailboxes(Mails)
  PROVE  /\ Ref(m) \in Mailboxes(Mails) /\ Ref(m).queue = m.queue /\ Ref(m).closed = m.closed
         /\ Unref(m) \in Mailboxes(Mails) /\ Unref(m).queue = m.queue
         /\ Unref(m).closed = m.closed
<1>1. m.refs + 1 \in Nat /\ (IF m.refs > 0 THEN m.refs - 1 ELSE 0) \in Nat
  BY DEF Mailboxes
<1>2. QED BY <1>1, SetRefsFacts DEF Ref, Unref

-----------------------------------------------------------------------------
(* What has been pushed *)

LEMMA KindsFinite ==
  ASSUME NEW u \in Seq(Mails), NEW k
  PROVE  /\ IsFiniteSet(Kinds(u, k)) /\ Kinds(u, k) \subseteq 1..Len(u)
         /\ Cardinality(Kinds(u, k)) \in Nat
<1>1. Len(u) \in Nat
  BY LenProperties
<1>2. Kinds(u, k) \in SUBSET (1..Len(u))
  BY DEF Kinds
<1>3. IsFiniteSet(1..Len(u))
  BY <1>1, FS_Interval
<1>4. QED BY <1>2, <1>3, FS_Subset, FS_CardinalityType

\* A mail adds its place to the places of its kind.
LEMMA AppendKinds ==
  ASSUME NEW u \in Seq(Mails), NEW x \in Mails
  PROVE  /\ Append(u, x) \in Seq(Mails) /\ Len(Append(u, x)) = Len(u) + 1 /\ Len(u) \in Nat
         /\ \A i \in 1..Len(u) : Append(u, x)[i] = u[i]
         /\ Append(u, x)[Len(u) + 1] = x
         /\ Kinds(Append(u, x), x.kind) = Kinds(u, x.kind) \cup {Len(u) + 1}
         /\ \A k : k # x.kind => Kinds(Append(u, x), k) = Kinds(u, k)
<1>1. /\ Append(u, x) \in Seq(Mails) /\ Len(Append(u, x)) = Len(u) + 1 /\ Len(u) \in Nat
      /\ \A i \in 1..Len(u) : Append(u, x)[i] = u[i]
      /\ Append(u, x)[Len(u) + 1] = x
  BY AppendProperties, LenProperties
<1>2. 1..(Len(u) + 1) = 1..Len(u) \cup {Len(u) + 1}
  BY <1>1
<1>3. Kinds(Append(u, x), x.kind) = Kinds(u, x.kind) \cup {Len(u) + 1}
  BY <1>1, <1>2 DEF Kinds
<1>4. ASSUME NEW k, k # x.kind PROVE Kinds(Append(u, x), k) = Kinds(u, k)
  BY <1>1, <1>2, <1>4 DEF Kinds
<1>5. QED BY <1>1, <1>3, <1>4

LEMMA MailFacts ==
  ASSUME NEW k \in {"online", "message", "error", "exit"}, NEW n \in Nat
  PROVE  Mail(k, n) \in Mails /\ Mail(k, n).kind = k /\ Mail(k, n).n = n
BY DEF Mail, Mails

LEMMA EmptyOrder ==
  ASSUME NEW u \in Seq(Mails), u = <<>>
  PROVE  Order(u, 0, FALSE) /\ Len(u) = 0 /\ \A k : Kinds(u, k) = {}
<1>1. Len(u) = 0
  BY EmptySeq
<1>2. ASSUME NEW k PROVE Kinds(u, k) = {}
  BY <1>1 DEF Kinds
<1>3. Cardinality({}) = 0
  BY FS_EmptySet
<1>4. /\ Kinds(u, "online") = {} /\ Kinds(u, "exit") = {}
      /\ Kinds(u, "message") = {} /\ Kinds(u, "error") = {}
  BY <1>2
<1>5. Cardinality(Kinds(u, "error")) = 0 /\ Cardinality(Kinds(u, "message")) = 0
  BY <1>3, <1>4, Zenon
<1>6. Order(u, 0, FALSE)
  BY <1>4, <1>5 DEF Order
<1>7. QED BY <1>1, <1>2, <1>6

LEMMA AppendOnline ==
  ASSUME NEW u \in Seq(Mails), u = <<>>, NEW x \in Mails, x.kind = "online"
  PROVE  /\ Order(Append(u, x), 0, FALSE)
         /\ Kinds(Append(u, x), "online") = {1} /\ Kinds(Append(u, x), "error") = {}
         /\ Append(u, x) \in Seq(Mails)
<1> DEFINE v == Append(u, x)
<1>1. /\ Len(u) = 0 /\ \A k : Kinds(u, k) = {}
  BY EmptyOrder
<1>2. /\ Kinds(v, x.kind) = Kinds(u, x.kind) \cup {Len(u) + 1} /\ v \in Seq(Mails)
      /\ \A k : k # x.kind => Kinds(v, k) = Kinds(u, k)
  BY AppendKinds
<1>3. Kinds(v, "online") = {1}
  BY <1>1, <1>2
<1>4. Kinds(v, "message") = {} /\ Kinds(v, "error") = {} /\ Kinds(v, "exit") = {}
  BY <1>1, <1>2
<1>5. Cardinality(Kinds(v, "error")) = 0 /\ Cardinality(Kinds(v, "message")) = 0
  BY <1>4, FS_EmptySet, Zenon
<1> HIDE DEF v
<1>6. Order(v, 0, FALSE)
  BY <1>3, <1>4, <1>5 DEF Order
<1>7. QED BY <1>2, <1>3, <1>4, <1>6 DEF v

LEMMA AppendMessage ==
  ASSUME NEW u \in Seq(Mails), NEW n \in Nat, Order(u, n, FALSE), Kinds(u, "online") = {1}
  PROVE  LET v == Append(u, Mail("message", n + 1))
         IN  /\ Order(v, n + 1, FALSE) /\ v \in Seq(Mails)
             /\ \A k \in {"online", "error", "exit"} : Kinds(v, k) = Kinds(u, k)
<1> DEFINE x == Mail("message", n + 1)
           v == Append(u, x)
           ms == Kinds(u, "message")
<1>1. x \in Mails /\ x.kind = "message" /\ x.n = n + 1
  BY MailFacts
<1>2. /\ v \in Seq(Mails) /\ Len(v) = Len(u) + 1 /\ Len(u) \in Nat
      /\ \A i \in 1..Len(u) : v[i] = u[i]
      /\ v[Len(u) + 1] = x
      /\ Kinds(v, "message") = ms \cup {Len(u) + 1}
      /\ \A k \in {"online", "error", "exit"} : Kinds(v, k) = Kinds(u, k)
  BY <1>1, AppendKinds
<1>3. ms \subseteq 1..Len(u) /\ IsFiniteSet(ms)
  BY KindsFinite
<1>4. Cardinality(Kinds(v, "message")) = n + 1
  <2>1. Len(u) + 1 \notin ms /\ Cardinality(ms) = n
    BY <1>2, <1>3 DEF Order
  <2>2. Cardinality(ms \cup {Len(u) + 1}) = n + 1
    BY <2>1, <1>3, FS_AddElement
  <2>3. QED BY <2>2, <1>2
<1>5. ASSUME NEW i \in Kinds(v, "message")
      PROVE  v[i].n = Cardinality({k \in Kinds(v, "message") : k <= i})
  <2>1. CASE i = Len(u) + 1
    <3>1. {k \in Kinds(v, "message") : k <= i} = Kinds(v, "message")
      BY <1>2, <1>3, <2>1
    <3>2. QED BY <3>1, <2>1, <1>1, <1>2, <1>4
  <2>2. CASE i \in ms
    <3>1. {k \in Kinds(v, "message") : k <= i} = {k \in ms : k <= i}
      BY <1>2, <1>3, <2>2
    <3>2. QED BY <3>1, <2>2, <1>2, <1>3 DEF Order
  <2>3. QED BY <1>2, <2>1, <2>2
<1>6. Kinds(u, "exit") = {}
  BY DEF Order
<1> HIDE DEF v, x, ms
<1>7. Order(v, n + 1, FALSE)
  BY <1>2, <1>4, <1>5, <1>6 DEF Order
<1>8. QED BY <1>2, <1>7 DEF v, x

LEMMA AppendError ==
  ASSUME NEW u \in Seq(Mails), NEW n \in Nat, Order(u, n, FALSE), Kinds(u, "online") = {1},
         Kinds(u, "error") = {}, NEW x \in Mails, x.kind = "error"
  PROVE  LET v == Append(u, x)
         IN  /\ Order(v, n, FALSE) /\ v \in Seq(Mails)
             /\ Kinds(v, "online") = {1} /\ Kinds(v, "exit") = {}
<1> DEFINE v == Append(u, x)
           ms == Kinds(u, "message")
<1>1. /\ v \in Seq(Mails) /\ Len(v) = Len(u) + 1 /\ Len(u) \in Nat
      /\ \A i \in 1..Len(u) : v[i] = u[i]
      /\ Kinds(v, x.kind) = Kinds(u, x.kind) \cup {Len(u) + 1}
      /\ \A k : k # x.kind => Kinds(v, k) = Kinds(u, k)
  BY AppendKinds
<1>a. Kinds(v, "error") = {Len(u) + 1}
  BY <1>1
<1>b. \A k \in {"online", "message", "exit"} : Kinds(v, k) = Kinds(u, k)
  BY <1>1
<1>2. ms \subseteq 1..Len(u)
  BY KindsFinite
<1>3. Cardinality(Kinds(v, "error")) = 1
  BY <1>a, FS_Singleton
<1>4. Kinds(u, "exit") = {}
  BY DEF Order
<1>5. \A i \in Kinds(v, "message") : v[i] = u[i]
  BY <1>1, <1>2, <1>b
<1>c. Kinds(v, "online") = {1} /\ Kinds(v, "exit") = {} /\ Kinds(v, "message") = Kinds(u, "message")
  BY <1>b, <1>4
<1> HIDE DEF v, ms
<1>d. \A i \in Kinds(v, "message") : v[i].n = Cardinality({k \in Kinds(v, "message") : k <= i})
  BY <1>c, <1>5 DEF Order
<1>6. Order(v, n, FALSE)
  <2>1. Cardinality(Kinds(v, "error")) <= 1 /\ Cardinality(Kinds(v, "message")) = n
    BY <1>3, <1>c DEF Order
  <2>2. QED BY <2>1, <1>c, <1>d DEF Order
<1>7. QED BY <1>1, <1>c, <1>6 DEF v

LEMMA AppendExit ==
  ASSUME NEW u \in Seq(Mails), NEW n \in Nat, Order(u, n, FALSE),
         NEW x \in Mails, x.kind = "exit"
  PROVE  LET v == Append(u, x)
         IN  /\ Order(v, n, TRUE) /\ v \in Seq(Mails)
             /\ Kinds(v, "error") = Kinds(u, "error")
             /\ Kinds(v, "exit") = {Len(v)} /\ v[Len(v)] = x
<1> DEFINE v == Append(u, x)
           ms == Kinds(u, "message")
<1>1. /\ v \in Seq(Mails) /\ Len(v) = Len(u) + 1 /\ Len(u) \in Nat
      /\ \A i \in 1..Len(u) : v[i] = u[i] /\ v[Len(u) + 1] = x
      /\ Kinds(v, "exit") = Kinds(u, "exit") \cup {Len(u) + 1}
      /\ \A k \in {"online", "message", "error"} : Kinds(v, k) = Kinds(u, k)
  BY AppendKinds
<1>2. ms \subseteq 1..Len(u)
  BY KindsFinite
<1>3. Kinds(u, "exit") = {}
  BY DEF Order
<1>4. Kinds(v, "exit") = {Len(v)} /\ v[Len(v)] = x
  BY <1>1, <1>3, AppendProperties
<1>5. \A i \in Kinds(v, "message") : v[i] = u[i]
  BY <1>1, <1>2
<1> HIDE DEF v, ms
<1>6. Order(v, n, TRUE)
  BY <1>1, <1>4, <1>5 DEF Order
<1>7. QED BY <1>1, <1>4, <1>6 DEF v

-----------------------------------------------------------------------------
(* Types *)

LEMMA InitTypes == Init => TypeOK
<1> SUFFICES ASSUME Init PROVE TypeOK
  OBVIOUS
<1>1. NewMailbox \in Mailboxes(Mails) /\ <<>> \in Seq(Mails)
  BY EmptySeq DEF NewMailbox, Mailboxes
<1>2. Attach(NewMailbox) \in Mailboxes(Mails)
  BY <1>1, AttachFacts
<1>3. toParent \in Mailboxes(Mails)
  BY <1>2, SetRefsFacts DEF Init
<1>4. /\ <<>> \in Seq(Nat) /\ <<>> \in Seq({"drain", "flush"})
      /\ 0 \in 0..MaxUp /\ 0 \in 0..MaxDown /\ 0 \in 0..MaxCalls
  BY EmptySeq, WorkerAssumption
<1>5. /\ {alive, refed, exited, terminated, exitRequested, errored, cancelled, flushing,
          armed, portClosed} \subseteq BOOLEAN
      /\ portRefs \in [ref : Nat, unref : Nat] /\ toChild \in Mailboxes(Mails)
  BY <1>1 DEF Init
<1>6. QED BY <1>1, <1>3, <1>4, <1>5 DEF Init, TypeOK

\* What a step leaves alone keeps its type; one lemma for each thread.
LEMMA ParentTypes == TypeOK /\ ParentNext => TypeOK'
<1> SUFFICES ASSUME TypeOK, ParentNext PROVE TypeOK'
  OBVIOUS
<1> USE WorkerAssumption DEF TypeOK, flags, parentSide, port, counts, childLoop
<1>1. CASE PostMessage
  <2>1. down + 1 \in Nat /\ down' \in 0..MaxDown
    BY <1>1 DEF PostMessage
  <2>2. Mail("message", down + 1) \in Mails
    BY <2>1, MailFacts
  <2>3. toChild' \in Mailboxes(Mails)
    BY <1>1, <2>2, PushFacts DEF PostMessage
  <2>4. tasks' \in Seq({"drain", "flush"})
    BY <1>1 DEF PostMessage, QueueDrain
  <2>5. UNCHANGED <<parent, alive, refed, inHand, exited, events, toParent, child, terminated,
                    exitRequested, errored, exitCode, cancelled, code, batch, flushing, armed,
                    listening, pending, portClosed, calls, portRefs, up, received>>
    BY <1>1 DEF PostMessage
  <2>6. QED BY <2>1, <2>3, <2>4, <2>5
<1>2. CASE Terminate
  BY <1>2 DEF Terminate
<1>3. CASE CancelChild
  BY <1>3 DEF CancelChild
<1>4. ASSUME NEW r \in BOOLEAN, SetRef(r) PROVE TypeOK'
  <2>1. ParentHold(alive, r) \in Nat
    BY DEF ParentHold
  <2>2. toParent' \in Mailboxes(Mails)
    BY <1>4, <2>1, SetRefsFacts DEF SetRef
  <2>3. QED BY <1>4, <2>2 DEF SetRef
<1>5. CASE ParentReturns
  BY <1>5 DEF ParentReturns
<1>6. CASE Drain
  <2>1. toParent' \in Mailboxes(Mails) /\ toParent.queue \in Seq(Mails)
    BY <1>6, DrainedFacts DEF Drain, Mailboxes
  <2>2. QED BY <1>6, <2>1 DEF Drain
<1>7. CASE Deliver
  <2>1. Head(inHand) \in Mails /\ Tail(inHand) \in Seq(Mails)
    BY <1>7, HeadTailProperties DEF Deliver
  <2>2. Append(events, Head(inHand)) \in Seq(Mails)
    BY <2>1, AppendProperties
  <2>3. SetRefs(toParent, 0) \in Mailboxes(Mails)
    BY SetRefsFacts
  <2>4. Closed(SetRefs(toParent, 0)) \in Mailboxes(Mails)
    BY <2>3, ClosedFacts
  <2>5. toParent' \in Mailboxes(Mails) /\ events' \in Seq(Mails) /\ inHand' \in Seq(Mails)
    BY <1>7, <2>1, <2>2, <2>4 DEF Deliver
  <2>6. {alive', exited'} \subseteq BOOLEAN /\ parent' \in {"js", "terminating", "loop", "left"}
    BY <1>7 DEF Deliver
  <2>7. QED BY <1>7, <2>5, <2>6 DEF Deliver
<1>8. CASE Leave
  BY <1>8 DEF Leave
<1>9. QED
  BY <1>1, <1>2, <1>3, <1>4, <1>5, <1>6, <1>7, <1>8 DEF ParentNext

LEMMA RunTypes == TypeOK /\ RunNext => TypeOK'
<1> SUFFICES ASSUME TypeOK, RunNext PROVE TypeOK'
  OBVIOUS
<1> USE WorkerAssumption DEF TypeOK, flags, parentSide, port, counts, childLoop
<1>1. CASE Begin
  BY <1>1 DEF Begin
<1>2. CASE InitChild
  <2>1. toChild' \in Mailboxes(Mails)
    BY <1>2, AttachFacts DEF InitChild
  <2>2. tasks' \in Seq({"drain", "flush"})
    BY <1>2 DEF InitChild, QueueDrain
  <2>3. QED BY <1>2, <2>1, <2>2 DEF InitChild
<1>3. CASE Online
  <2>1. toParent' \in Mailboxes(Mails)
    BY <1>3, MailFacts, PushFacts DEF Online
  <2>2. QED BY <1>3, <2>1 DEF Online
<1>4. CASE Crash
  BY <1>4 DEF Crash
<1>5. CASE ComputeCode
  BY <1>5 DEF ComputeCode
<1>6. CASE CloseToChild
  <2>1. toChild' \in Mailboxes(Mails)
    BY <1>6, ClosedFacts DEF CloseToChild
  <2>2. QED BY <1>6, <2>1 DEF CloseToChild
<1>7. CASE PushExit
  <2>1. toParent' \in Mailboxes(Mails)
    BY <1>7, MailFacts, PushFacts DEF PushExit
  <2>2. QED BY <1>7, <2>1 DEF PushExit
<1>8. QED
  BY <1>1, <1>2, <1>3, <1>4, <1>5, <1>6, <1>7 DEF RunNext

\* One more call of ref() or unref().
LEMMA CountOne ==
  ASSUME NEW p \in [ref : Nat, unref : Nat]
  PROVE  /\ [p EXCEPT !.ref = p.ref + 1] \in [ref : Nat, unref : Nat]
         /\ [p EXCEPT !.unref = p.unref + 1] \in [ref : Nat, unref : Nat]
OBVIOUS

LEMMA JSTypes == TypeOK /\ JSNext => TypeOK'
<1> SUFFICES ASSUME TypeOK, JSNext PROVE TypeOK'
  OBVIOUS
<1> USE WorkerAssumption DEF TypeOK, flags, parentSide, port, counts, childLoop
<1>a. Ref(toChild) \in Mailboxes(Mails) /\ Unref(toChild) \in Mailboxes(Mails)
  BY RefFacts
<1>1. CASE ChildPosts
  <2>1. Mail("message", up + 1) \in Mails
    BY MailFacts
  <2>2. toParent' \in Mailboxes(Mails)
    BY <1>1, <2>1, PushFacts DEF ChildPosts
  <2>3. QED BY <1>1, <2>2 DEF ChildPosts
<1>2. ASSUME NEW c \in ExitCodes, Exit(c) PROVE TypeOK'
  BY <1>2 DEF Exit
<1>3. CASE Throw
  BY <1>3 DEF Throw, AfterJS, Stopping
<1>4. CASE ReportError
  <2>1. toParent' \in Mailboxes(Mails)
    BY <1>4, MailFacts, PushFacts DEF ReportError
  <2>2. QED BY <1>4, <2>1 DEF ReportError
<1>5. CASE ChildReturns
  BY <1>5 DEF ChildReturns
<1>6. CASE Arm
  BY <1>6 DEF Arm, Call
<1>7. CASE Listen
  <2>1. tasks' \in Seq({"drain", "flush"})
    BY <1>7 DEF Listen
  <2>2. QED BY <1>7, <1>a, <2>1 DEF Listen, Call
<1>8. CASE Unlisten
  BY <1>8, <1>a DEF Unlisten, Call
<1>9. CASE ClosePort
  BY <1>9, <1>a DEF ClosePort, Call
<1>10. CASE RefPort
  <2>1. portRefs' \in [ref : Nat, unref : Nat]
    BY <1>10, CountOne DEF RefPort
  <2>2. calls' \in 0..MaxCalls /\ toChild' \in Mailboxes(Mails)
    <3>1. calls < MaxCalls /\ calls' = calls + 1 /\ toChild' = Ref(toChild)
      BY <1>10 DEF RefPort, Call
    <3>2. calls' \in 0..MaxCalls
      BY <3>1
    <3>3. QED BY <1>a, <3>1, <3>2
  <2>3. UNCHANGED <<parent, alive, refed, inHand, exited, events, toParent, child, terminated,
                    exitRequested, errored, exitCode, cancelled, code, tasks, batch, flushing,
                    armed, listening, pending, portClosed, up, down, received>>
    BY <1>10 DEF RefPort
  <2>4. QED BY <2>1, <2>2, <2>3
<1>11. CASE UnrefPort
  <2>1. portRefs' \in [ref : Nat, unref : Nat]
    BY <1>11, CountOne DEF UnrefPort
  <2>2. calls' \in 0..MaxCalls /\ toChild' \in Mailboxes(Mails)
    <3>1. calls < MaxCalls /\ calls' = calls + 1 /\ toChild' = Unref(toChild)
      BY <1>11 DEF UnrefPort, Call
    <3>2. QED BY <1>a, <3>1
  <2>3. UNCHANGED <<parent, alive, refed, inHand, exited, events, toParent, child, terminated,
                    exitRequested, errored, exitCode, cancelled, code, tasks, batch, flushing,
                    armed, listening, pending, portClosed, up, down, received>>
    BY <1>11 DEF UnrefPort
  <2>4. QED BY <2>1, <2>2, <2>3
<1>12. QED
  BY <1>1, <1>2, <1>3, <1>4, <1>5, <1>6, <1>7, <1>8, <1>9, <1>10, <1>11 DEF JSNext

\* Mail on its way down carries a number.
LEMMA HeadNumber ==
  ASSUME TypeOK, batch # <<>>
  PROVE  /\ Head(batch) \in Mails /\ Tail(batch) \in Seq(Mails) /\ Head(batch).n \in Nat
<1>1. batch \in Seq(Mails)
  BY DEF TypeOK
<1>2. Head(batch) \in Mails /\ Tail(batch) \in Seq(Mails)
  BY <1>1, HeadTailProperties
<1>3. QED BY <1>2 DEF Mails

LEMMA LoopTypes == TypeOK /\ LoopNext => TypeOK'
<1> SUFFICES ASSUME TypeOK, LoopNext PROVE TypeOK'
  OBVIOUS
<1> USE WorkerAssumption DEF flags, parentSide, port, counts, childLoop
<1>1. CASE Fire
  BY <1>1 DEF Fire, TypeOK
<1>2. CASE RunDrain
  <2>1. toChild' \in Mailboxes(Mails) /\ toChild.queue \in Seq(Mails)
    BY <1>2, DrainedFacts DEF RunDrain, Mailboxes, TypeOK
  <2>2. Tail(tasks) \in Seq({"drain", "flush"})
    BY <1>2, HeadTailProperties DEF RunDrain, TypeOK
  <2>3. QED BY <1>2, <2>1, <2>2 DEF RunDrain, TypeOK
<1>3. CASE RunFlush
  <2>1. Tail(tasks) \in Seq({"drain", "flush"})
    BY <1>3, HeadTailProperties DEF RunFlush, TypeOK
  <2>2. QED BY <1>3, <2>1 DEF RunFlush, TypeOK
<1>4. CASE DeliverToPort
  <2>1. Tail(batch) \in Seq(Mails) /\ Head(batch).n \in Nat
    BY <1>4, HeadNumber DEF DeliverToPort
  <2>2. /\ Append(pending, Head(batch).n) \in Seq(Nat)
        /\ Append(received, Head(batch).n) \in Seq(Nat)
    BY <2>1, AppendProperties DEF TypeOK
  <2>3. ReceiveOne(Head(batch).n)
    BY <1>4 DEF DeliverToPort
  <2>4. pending' \in Seq(Nat) /\ received' \in Seq(Nat) /\ child' \in {child, "callback"}
    <3>1. CASE portClosed
      BY <2>3, <3>1 DEF ReceiveOne, TypeOK
    <3>2. CASE ~portClosed /\ listening = 0
      BY <2>2, <2>3, <3>2 DEF ReceiveOne, TypeOK
    <3>3. CASE ~portClosed /\ listening > 0
      BY <2>2, <2>3, <3>3 DEF ReceiveOne, TypeOK
    <3>4. QED BY <3>1, <3>2, <3>3 DEF TypeOK
  <2>5. QED BY <1>4, <2>1, <2>4 DEF DeliverToPort, TypeOK
<1>5. CASE FlushOne
  <2>1. Head(pending) \in Nat /\ Tail(pending) \in Seq(Nat)
    BY <1>5, HeadTailProperties DEF FlushOne, TypeOK
  <2>2. Append(received, Head(pending)) \in Seq(Nat)
    BY <2>1, AppendProperties DEF TypeOK
  <2>3. received' \in Seq(Nat) /\ child' \in {child, "callback"} /\ pending' \in Seq(Nat)
    BY <1>5, <2>1, <2>2 DEF FlushOne, TypeOK
  <2>4. QED BY <1>5, <2>3 DEF FlushOne, TypeOK
<1>6. CASE FlushEnds
  BY <1>6 DEF FlushEnds, TypeOK
<1>7. CASE LeaveLoop
  BY <1>7 DEF LeaveLoop, TypeOK
<1>8. QED
  BY <1>1, <1>2, <1>3, <1>4, <1>5, <1>6, <1>7 DEF LoopNext

LEMMA StepTypes == TypeOK /\ [Next]_vars => TypeOK'
<1>1. TypeOK /\ UNCHANGED vars => TypeOK'
  BY DEF TypeOK, vars, flags, parentSide, port, counts, childLoop
<1>2. QED BY <1>1, ParentTypes, RunTypes, JSTypes, LoopTypes DEF Next

-----------------------------------------------------------------------------
(* The way up *)

LEMMA UpwardType == TypeOK => Upward \in Seq(Mails)
<1> SUFFICES ASSUME TypeOK PROVE Upward \in Seq(Mails)
  OBVIOUS
<1>1. events \in Seq(Mails) /\ inHand \in Seq(Mails) /\ toParent.queue \in Seq(Mails)
  BY DEF TypeOK, Mailboxes
<1>2. events \o inHand \in Seq(Mails)
  BY <1>1, ConcatProperties
<1>3. QED BY <1>1, <1>2, ConcatProperties DEF Upward

\* What the child pushes is the last of what it has pushed.
LEMMA UpwardPush ==
  ASSUME TypeOK, ~toParent.closed, NEW x \in Mails, toParent' = Push(toParent, x),
         UNCHANGED <<events, inHand>>
  PROVE  Upward' = Append(Upward, x)
<1> DEFINE e == events \o inHand
           q == toParent.queue
<1>1. events \in Seq(Mails) /\ inHand \in Seq(Mails) /\ q \in Seq(Mails)
      /\ toParent \in Mailboxes(Mails)
  BY DEF TypeOK, Mailboxes
<1>2. e \in Seq(Mails)
  BY <1>1, ConcatProperties
<1>3. toParent'.queue = Append(q, x)
  BY <1>1, PushFacts
<1>4. Upward' = e \o Append(q, x) /\ Upward = e \o q
  BY <1>3 DEF Upward
<1> HIDE DEF e, q
<1>5. Append(q, x) = q \o <<x>> /\ <<x>> \in Seq(Mails)
  BY <1>1, AppendIsConcat
<1>6. e \o (q \o <<x>>) = (e \o q) \o <<x>>
  BY <1>1, <1>2, <1>5, ConcatAssociative
<1>7. e \o q \in Seq(Mails)
  BY <1>1, <1>2, ConcatProperties
<1>8. Append(e \o q, x) = (e \o q) \o <<x>>
  BY <1>7, AppendIsConcat
<1>9. QED BY <1>4, <1>5, <1>6, <1>8

\* A drain takes the queue into its hand ...
LEMMA UpwardDrain ==
  ASSUME TypeOK, Drain
  PROVE  Upward' = Upward
<1>1. events \in Seq(Mails) /\ toParent.queue \in Seq(Mails) /\ toParent \in Mailboxes(Mails)
  BY DEF TypeOK, Mailboxes
<1>2. events \o toParent.queue \in Seq(Mails)
  BY <1>1, ConcatProperties
<1>3. toParent'.queue = <<>> /\ inHand' = toParent.queue /\ inHand = <<>> /\ events' = events
  BY <1>1, DrainedFacts DEF Drain
<1>4. Upward' = (events \o toParent.queue) \o <<>>
  BY <1>3 DEF Upward
<1>5. Upward = events \o toParent.queue
  BY <1>1, <1>3, ConcatEmptySeq DEF Upward
<1>6. QED BY <1>2, <1>4, <1>5, ConcatEmptySeq

LEMMA Lengths ==
  \A a, b, c \in Nat : \A s : b >= 1 /\ s = a + b + c =>
    /\ s \in Nat /\ a + 1 <= s
    /\ a + 1 = s => b - 1 = 0 /\ c = 0
OBVIOUS

\* ... and delivers it; "exit" is the last of it, so that closing the mailbox
\* drops nothing.
LEMMA UpwardDeliver ==
  ASSUME TypeOK, UpOK, ParentOK, Deliver
  PROVE  /\ Upward' = Upward
         /\ Head(inHand).kind = "exit" =>
              child = "gone" /\ inHand' = <<>> /\ toParent'.queue = <<>>
<1> DEFINE h == Head(inHand)
           t == Tail(inHand)
           q == toParent.queue
<1>1. /\ events \in Seq(Mails) /\ inHand \in Seq(Mails) /\ q \in Seq(Mails)
      /\ toParent \in Mailboxes(Mails) /\ inHand # <<>>
  BY DEF TypeOK, Mailboxes, Deliver
<1>2. ~exited /\ ~toParent.closed
  BY <1>1 DEF ParentOK
<1>3. /\ h \in Mails /\ t \in Seq(Mails) /\ Len(t) = Len(inHand) - 1
      /\ \A i \in 1..Len(t) : t[i] = inHand[i + 1]
  BY <1>1, HeadTailProperties
<1>4. inHand' = t /\ events' = Append(events, h)
  BY <1>2 DEF Deliver
<1>5. Len(events) \in Nat /\ Len(inHand) \in Nat \ {0} /\ Len(q) \in Nat
  BY <1>1, EmptySeq, LenProperties
<1>a. h = inHand[1] /\ Len(inHand) >= 1
  BY <1>1, <1>5
<1>b. Len(events) \in Nat /\ Len(inHand) \in Nat /\ Len(q) \in Nat
  BY <1>5
<1>6. events \o inHand \in Seq(Mails) /\ Len(events \o inHand) = Len(events) + Len(inHand)
      /\ \A i \in 1..(Len(events) + Len(inHand)) :
           (events \o inHand)[i] = IF i <= Len(events) THEN events[i] ELSE inHand[i - Len(events)]
  BY <1>1, ConcatProperties
<1>7. Append(events, h) \o t = events \o inHand
  <2>1. /\ Append(events, h) \in Seq(Mails) /\ Len(Append(events, h)) = Len(events) + 1
        /\ \A i \in 1..Len(events) : Append(events, h)[i] = events[i]
        /\ Append(events, h)[Len(events) + 1] = h
    BY <1>1, <1>3, AppendProperties
  <2>2. /\ Append(events, h) \o t \in Seq(Mails)
        /\ Len(Append(events, h) \o t) = Len(events) + 1 + Len(t)
        /\ \A i \in 1..(Len(events) + 1 + Len(t)) : (Append(events, h) \o t)[i] =
             IF i <= Len(events) + 1 THEN Append(events, h)[i] ELSE t[i - (Len(events) + 1)]
    BY <1>3, <2>1, ConcatProperties
  <2>3. h = inHand[1]
    BY <1>a
  <2>4. ASSUME NEW i \in 1..(Len(events) + Len(inHand))
        PROVE  (Append(events, h) \o t)[i] = (events \o inHand)[i]
    <3>1. CASE i <= Len(events)
      BY <3>1, <1>5, <1>6, <1>3, <2>1, <2>2
    <3>2. CASE i = Len(events) + 1
      BY <3>2, <1>5, <1>6, <1>3, <2>1, <2>2, <2>3
    <3>3. CASE i > Len(events) + 1
      <4>1. i - (Len(events) + 1) \in 1..Len(t) /\ (i - (Len(events) + 1)) + 1 = i - Len(events)
        BY <3>3, <1>5, <1>3
      <4>2. t[i - (Len(events) + 1)] = inHand[i - Len(events)]
        BY <4>1, <1>3
      <4>3. QED BY <3>3, <4>1, <4>2, <1>5, <1>6, <1>3, <2>2
    <3>4. QED BY <3>1, <3>2, <3>3, <1>5
  <2>5. QED BY <2>2, <2>4, <1>3, <1>5, <1>6, SeqEqual
<1>8. ASSUME h.kind = "exit"
      PROVE  child = "gone" /\ t = <<>> /\ q = <<>>
  <2>1. Upward \in Seq(Mails) /\ Len(Upward) = Len(events) + Len(inHand) + Len(q)
    BY <1>1, <1>5, <1>6, ConcatProperties, UpwardType DEF Upward
  <2>2. Len(events) + 1 \in 1..Len(Upward)
    <3>1. Len(Upward) \in Nat /\ Len(events) + 1 <= Len(Upward)
      BY <2>1, <1>b, <1>a, Lengths, Zenon
    <3>2. QED BY <3>1, <1>5
  <2>3. Upward[Len(events) + 1] = inHand[1]
    <3>1. Upward = (events \o inHand) \o q
      BY DEF Upward
    <3>2. Len(events) + 1 \in 1..Len(events \o inHand)
      BY <1>5, <1>6
    <3>3. ((events \o inHand) \o q)[Len(events) + 1] = (events \o inHand)[Len(events) + 1]
      BY <3>2, <1>1, <1>5, <1>6, ConcatProperties
    <3>4. (events \o inHand)[Len(events) + 1] = inHand[1]
      BY <3>2, <1>5, <1>6
    <3>5. QED BY <3>1, <3>3, <3>4
  <2>4. Len(events) + 1 \in Kinds(Upward, "exit")
    BY <2>2, <2>3, <1>8, <1>a DEF Kinds
  <2>5. Len(events) + 1 = Len(Upward) /\ child = "gone"
    BY <2>4 DEF UpOK, Pushed, Order
  <2>6. Len(t) = 0 /\ Len(q) = 0
    <3>1. Len(inHand) - 1 = 0 /\ Len(q) = 0
      BY <2>1, <2>5, <1>b, <1>a, Lengths, Zenon
    <3>2. QED BY <3>1, <1>3
  <2>7. QED BY <2>5, <2>6, <1>1, <1>3, EmptySeq
<1>9. h.kind = "exit" => toParent'.queue = <<>>
  <2>1. SetRefs(toParent, 0) \in Mailboxes(Mails)
    BY <1>1, SetRefsFacts
  <2>2. h.kind = "exit" => toParent' = Closed(SetRefs(toParent, 0))
    BY <1>2 DEF Deliver
  <2>3. QED BY <2>1, <2>2, ClosedFacts
<1>10. toParent'.queue = q
  <2>1. h.kind # "exit" => toParent' = toParent
    BY <1>2 DEF Deliver
  <2>2. QED BY <2>1, <1>8, <1>9
<1>11. Upward' = Upward
  <2>1. Upward' = (Append(events, h) \o t) \o q
    BY <1>4, <1>10 DEF Upward
  <2>2. QED BY <2>1, <1>7 DEF Upward
<1>12. QED BY <1>4, <1>8, <1>9, <1>11

-----------------------------------------------------------------------------
(* The parent *)

LEMMA StepParent ==
  ASSUME TypeOK, UpOK, ParentOK, [Next]_vars
  PROVE  ParentOK'
<1> USE DEF flags, parentSide, port, counts, childLoop
<1>0. toParent \in Mailboxes(Mails)
  BY DEF TypeOK
<1>1. ASSUME UNCHANGED <<alive, refed, exited, parent, inHand, toParent>>,
             child = "gone" => child' = "gone"
      PROVE  ParentOK'
  BY <1>1 DEF ParentOK
<1>2. ASSUME UNCHANGED <<alive, refed, exited, parent, inHand>>, child # "gone",
             NEW x \in Mails, toParent' = Push(toParent, x)
      PROVE  ParentOK'
  <2>1. /\ toParent'.attached = toParent.attached /\ toParent'.closed = toParent.closed
        /\ toParent'.held = toParent.held
    BY <1>0, <1>2, PushFacts
  <2>2. QED BY <1>2, <2>1 DEF ParentOK
<1>3. CASE PostMessage
  BY <1>1, <1>3 DEF PostMessage
<1>4. CASE Terminate \/ CancelChild \/ ParentReturns \/ Leave
  <2>1. UNCHANGED <<alive, refed, exited, inHand, toParent, child>>
    BY <1>4 DEF Terminate, CancelChild, ParentReturns, Leave
  <2>2. parent' = "left" => ~toParent.held
    BY <1>4 DEF Terminate, CancelChild, ParentReturns, Leave
  <2>3. QED BY <2>1, <2>2 DEF ParentOK
<1>5. ASSUME NEW r \in BOOLEAN, SetRef(r) PROVE ParentOK'
  <2> DEFINE n == ParentHold(alive, r)
  <2>1. n \in Nat /\ (n > 0 <=> alive /\ r)
    BY DEF ParentHold
  <2>2. toParent' = SetRefs(toParent, n) /\ refed' = r
    BY <1>5 DEF SetRef
  <2> HIDE DEF n
  <2>3. /\ toParent'.attached = toParent.attached /\ toParent'.closed = toParent.closed
        /\ toParent'.queue = toParent.queue
        /\ toParent'.held = (toParent.attached /\ n > 0 /\ ~toParent.closed)
    BY <1>0, <2>1, <2>2, SetRefsFacts
  <2>4. UNCHANGED <<alive, exited, inHand, child, parent>> /\ parent = "js"
    BY <1>5 DEF SetRef
  <2>5. QED BY <2>1, <2>2, <2>3, <2>4 DEF ParentOK
<1>6. CASE Drain
  <2>1. /\ toParent'.attached = toParent.attached /\ toParent'.closed = toParent.closed
        /\ toParent'.held = toParent.held /\ toParent'.queue = <<>>
    BY <1>0, <1>6, DrainedFacts DEF Drain
  <2>2. UNCHANGED <<alive, exited, child, parent, refed>> /\ inHand' = toParent.queue
    BY <1>6 DEF Drain
  <2>3. QED BY <2>1, <2>2 DEF ParentOK
<1>7. CASE Deliver
  <2>1. ~exited /\ alive /\ ~toParent.closed /\ parent # "left"
    BY <1>7 DEF ParentOK, Deliver
  <2>2. UNCHANGED <<refed, child>> /\ parent' = "js"
    BY <1>7, <2>1 DEF Deliver
  <2>3. CASE Head(inHand).kind = "exit"
    <3>1. SetRefs(toParent, 0) \in Mailboxes(Mails) /\ SetRefs(toParent, 0).attached
      BY <1>0, SetRefsFacts DEF ParentOK
    <3>2. toParent' = Closed(SetRefs(toParent, 0)) /\ exited' /\ ~alive'
      BY <1>7, <2>1, <2>3 DEF Deliver
    <3>3. toParent'.attached /\ toParent'.closed /\ ~toParent'.held
      BY <3>1, <3>2, ClosedFacts
    <3>4. child = "gone" /\ inHand' = <<>> /\ toParent'.queue = <<>>
      BY <1>7, <2>3, UpwardDeliver
    <3>5. toParent' \in Mailboxes(Mails)
      BY <3>1, <3>2, ClosedFacts
    <3>6. toParent'.closed = TRUE /\ toParent'.held = FALSE /\ exited' = TRUE /\ alive' = FALSE
      BY <3>2, <3>3, <3>5, <1>7, <2>1, <2>3 DEF Mailboxes, Deliver
    <3>7. QED BY <2>2, <3>3, <3>4, <3>6 DEF ParentOK
  <2>4. CASE Head(inHand).kind # "exit"
    <3>1. toParent' = toParent /\ alive' = alive /\ exited' = exited
      BY <1>7, <2>1, <2>4 DEF Deliver, TypeOK
    <3>2. QED BY <2>1, <2>2, <3>1 DEF ParentOK
  <2>5. QED BY <2>3, <2>4
<1>8. CASE Online
  BY <1>2, <1>8, MailFacts DEF Online
<1>9. CASE PushExit
  <2>1. Mail("exit", code) \in Mails
    BY MailFacts DEF TypeOK
  <2>2. QED BY <1>2, <1>9, <2>1 DEF PushExit
<1>10. CASE ChildPosts
  <2>1. Mail("message", up + 1) \in Mails
    BY MailFacts DEF TypeOK
  <2>2. QED BY <1>2, <1>10, <2>1 DEF ChildPosts, InJS
<1>11. CASE ReportError
  BY <1>2, <1>11, MailFacts DEF ReportError
<1>12. CASE Begin \/ InitChild \/ Crash \/ ComputeCode \/ CloseToChild
  BY <1>1, <1>12 DEF Begin, InitChild, Crash, ComputeCode, CloseToChild
<1>13. CASE (\E c \in ExitCodes : Exit(c)) \/ Throw \/ ChildReturns \/ Arm \/ Listen \/ Unlisten
            \/ ClosePort \/ RefPort \/ UnrefPort
  BY <1>1, <1>13 DEF Exit, Throw, ChildReturns, Arm, Listen, Unlisten, ClosePort, RefPort,
       UnrefPort, Call, InJS
<1>14. CASE LoopNext
  BY <1>1, <1>14 DEF LoopNext, Fire, RunDrain, RunFlush, DeliverToPort, ReceiveOne, FlushOne,
       FlushEnds, LeaveLoop, InLoop
<1>15. CASE UNCHANGED vars
  BY <1>1, <1>15 DEF vars
<1>16. QED
  BY <1>3, <1>4, <1>5, <1>6, <1>7, <1>8, <1>9, <1>10, <1>11, <1>12, <1>13, <1>14, <1>15
  DEF Next, ParentNext, RunNext, JSNext

-----------------------------------------------------------------------------
(* The order of events *)

\* run() moves on and pushes nothing.
LEMMA PushedMoves ==
  ASSUME NEW u, NEW n, NEW a, NEW b, NEW e, Pushed(u, n, a, e),
         b = "gone" <=> a = "gone", b \in Early => a \in Early,
         b \in Started => a \in Started, b = "reporting" => a = "reporting"
  PROVE  Pushed(u, n, b, e)
BY DEF Pushed

LEMMA StepUp ==
  ASSUME TypeOK, UpOK, ErrOK, ParentOK, [Next]_vars
  PROVE  UpOK' /\ ErrOK'
<1> USE DEF flags, parentSide, port, counts, childLoop
<1> DEFINE Moves == /\ child' = "gone" <=> child = "gone"
                    /\ child' \in Early => child \in Early
                    /\ child' \in Started => child \in Started
                    /\ child' = "reporting" => child = "reporting"
<1>0. Upward \in Seq(Mails) /\ up \in Nat
  BY UpwardType, WorkerAssumption DEF TypeOK
<1>1. ASSUME Upward' = Upward, up' = up, errored' = errored, Moves
      PROVE  UpOK'
  BY <1>1, PushedMoves DEF UpOK
<1>2. ASSUME UNCHANGED <<events, inHand, toParent>> PROVE Upward' = Upward
  BY <1>2 DEF Upward
<1>3. ASSUME child # "gone", UNCHANGED <<events, inHand>>, NEW x \in Mails,
             toParent' = Push(toParent, x)
      PROVE  Upward' = Append(Upward, x)
  BY <1>3, UpwardPush DEF ParentOK
<1>4. CASE PostMessage \/ Terminate \/ CancelChild \/ ParentReturns \/ Leave
           \/ (\E r \in BOOLEAN : SetRef(r)) \/ Drain \/ Deliver
  <2>1. UNCHANGED <<up, exitRequested, errored, code, child>>
    BY <1>4 DEF PostMessage, Terminate, CancelChild, ParentReturns, Leave, SetRef, Drain, Deliver
  <2>2. Upward' = Upward
    <3>1. CASE PostMessage \/ Terminate \/ CancelChild \/ ParentReturns \/ Leave
      BY <1>2, <3>1 DEF PostMessage, Terminate, CancelChild, ParentReturns, Leave
    <3>2. ASSUME NEW r \in BOOLEAN, SetRef(r) PROVE Upward' = Upward
      <4>1. ParentHold(alive, r) \in Nat /\ toParent \in Mailboxes(Mails)
        BY DEF ParentHold, TypeOK
      <4>2. toParent'.queue = toParent.queue
        BY <3>2, <4>1, SetRefsFacts DEF SetRef
      <4>3. UNCHANGED <<events, inHand>>
        BY <3>2 DEF SetRef
      <4>4. QED BY <4>2, <4>3 DEF Upward
    <3>3. QED BY <1>4, <3>1, <3>2, UpwardDrain, UpwardDeliver
  <2>3. QED BY <1>1, <2>1, <2>2 DEF ErrOK
<1>5. CASE Begin \/ InitChild \/ Crash \/ ComputeCode \/ CloseToChild
  <2>1. UNCHANGED <<events, inHand, toParent, up, exitRequested, errored>> /\ Moves
    BY <1>5 DEF Begin, InitChild, Crash, ComputeCode, CloseToChild, Early, Started
  <2>2. UpOK'
    BY <1>1, <1>2, <2>1
  <2>3. ErrOK'
    BY <1>5, <2>1 DEF ErrOK, Begin, InitChild, Crash, ComputeCode, CloseToChild
  <2>4. QED BY <2>2, <2>3
<1>6. CASE Online
  <2> DEFINE x == Mail("online", 0)
  <2>1. x \in Mails /\ x.kind = "online"
    BY MailFacts
  <2>2. Upward' = Append(Upward, x) /\ Upward = <<>> /\ up = 0 /\ Kinds(Upward, "error") = {}
    <3>1. Upward' = Append(Upward, x)
      BY <1>3, <1>6, <2>1 DEF Online
    <3>2. Upward = <<>> /\ Order(Upward, up, FALSE)
      BY <1>6 DEF Online, UpOK, Pushed, Early
    <3>3. \A k : Kinds(Upward, k) = {}
      BY <3>2, <1>0, EmptyOrder
    <3>4. up = Cardinality({})
      BY <3>2, <3>3 DEF Order
    <3>5. QED BY <3>1, <3>2, <3>3, <3>4, FS_EmptySet
  <2> HIDE DEF x
  <2>3. /\ Order(Upward', 0, FALSE) /\ Kinds(Upward', "online") = {1}
        /\ Kinds(Upward', "error") = {}
    BY <2>1, <2>2, <1>0, AppendOnline
  <2>4. UNCHANGED <<up, exitRequested, errored, code>> /\ child = "attached" /\ child' = "script"
    BY <1>6 DEF Online
  <2>5. UpOK'
    BY <2>2, <2>3, <2>4 DEF UpOK, Pushed, Early
  <2>6. ErrOK'
    BY <2>4 DEF ErrOK
  <2>7. QED BY <2>5, <2>6
<1>7. CASE PushExit
  <2> DEFINE x == Mail("exit", code)
  <2>1. x \in Mails /\ x.kind = "exit" /\ x.n = code
    BY MailFacts DEF TypeOK
  <2>2. Upward' = Append(Upward, x)
    BY <1>3, <1>7, <2>1 DEF PushExit
  <2> HIDE DEF x
  <2>3. Order(Upward, up, FALSE) /\ (Kinds(Upward, "error") # {} => errored)
    BY <1>7 DEF PushExit, UpOK, Pushed
  <2>4. /\ Order(Upward', up, TRUE) /\ Kinds(Upward', "error") = Kinds(Upward, "error")
        /\ Kinds(Upward', "exit") = {Len(Upward')} /\ Upward'[Len(Upward')] = x
    BY <2>1, <2>2, <2>3, <1>0, AppendExit
  <2>5. UNCHANGED <<up, exitRequested, errored, code>> /\ child = "exiting" /\ child' = "gone"
    BY <1>7 DEF PushExit
  <2>6. errored => code = 1
    BY <2>5 DEF ErrOK
  <2>7. UpOK'
    BY <2>1, <2>3, <2>4, <2>5, <2>6 DEF UpOK, Pushed, Early, Started
  <2>8. ErrOK'
    BY <2>5 DEF ErrOK
  <2>9. QED BY <2>7, <2>8
<1>8. CASE ChildPosts
  <2> DEFINE x == Mail("message", up + 1)
  <2>1. x \in Mails
    BY <1>0, MailFacts
  <2>2. Upward' = Append(Upward, x)
    BY <1>3, <1>8, <2>1 DEF ChildPosts, InJS
  <2>3. /\ child \in Started /\ child \notin Early /\ child # "gone" /\ child # "reporting"
        /\ UNCHANGED <<child, errored, exitRequested, code>> /\ up' = up + 1
    BY <1>8 DEF ChildPosts, InJS, Started, Early
  <2>4. Order(Upward, up, FALSE) /\ Kinds(Upward, "online") = {1}
    BY <2>3 DEF UpOK, Pushed
  <2>5. /\ Order(Upward', up + 1, FALSE)
        /\ \A k \in {"online", "error", "exit"} : Kinds(Upward', k) = Kinds(Upward, k)
    BY <2>2, <2>4, <1>0, AppendMessage
  <2>6. Kinds(Upward', "exit") = {}
    BY <2>5 DEF Order
  <2>7. /\ Kinds(Upward', "online") = {1}
        /\ Kinds(Upward', "error") = Kinds(Upward, "error")
    BY <2>4, <2>5
  <2>8. UpOK'
    BY <2>3, <2>5, <2>6, <2>7 DEF UpOK, Pushed
  <2>9. QED BY <2>3, <2>8 DEF ErrOK
<1>9. ASSUME NEW c \in ExitCodes, Exit(c) PROVE UpOK' /\ ErrOK'
  <2>1. UNCHANGED <<events, inHand, toParent, up, errored, child>> /\ child \in {"script", "callback"}
    BY <1>9 DEF Exit, InJS
  <2>2. ~errored
    BY <2>1 DEF ErrOK
  <2>3. QED BY <1>1, <1>2, <2>1, <2>2 DEF ErrOK
<1>10. CASE Throw
  <2>1. /\ UNCHANGED <<events, inHand, toParent, up, exitRequested, code>>
        /\ child \in {"script", "callback"}
    BY <1>10 DEF Throw, InJS
  <2>2. ~errored
    BY <2>1 DEF ErrOK
  <2>3. Upward' = Upward
    BY <1>2, <2>1
  <2>4. CASE Stopping
    <3>1. child' \in {"ending", "loop"} /\ errored' = FALSE
      BY <1>10, <2>2, <2>4 DEF Throw, AfterJS
    <3>2. errored' = errored
      BY <2>2, <3>1 DEF TypeOK
    <3>3. Moves
      BY <2>1, <3>1 DEF Early, Started
    <3>4. QED BY <1>1, <2>1, <2>2, <2>3, <3>2, <3>3 DEF ErrOK
  <2>5. CASE ~Stopping
    <3>1. child' = "reporting" /\ errored' /\ ~exitRequested
      BY <1>10, <2>5 DEF Throw, Stopping
    <3>2. Pushed(Upward, up, child, FALSE)
      BY <2>2 DEF UpOK, Pushed
    <3>3. Kinds(Upward, "error") = {} /\ child \in Started /\ child # "gone"
      BY <2>1, <3>2 DEF Pushed, Started
    <3>4. Pushed(Upward, up, "reporting", TRUE)
      BY <3>2, <3>3 DEF Pushed, Started, Early
    <3>5. errored' = TRUE
      BY <1>10, <2>5 DEF Throw
    <3>6. UpOK'
      BY <2>1, <2>3, <3>1, <3>4, <3>5 DEF UpOK
    <3>7. QED BY <2>1, <3>1, <3>6 DEF ErrOK
  <2>6. QED BY <2>4, <2>5
<1>11. CASE ReportError
  <2> DEFINE x == Mail("error", 0)
  <2>1. x \in Mails /\ x.kind = "error"
    BY MailFacts
  <2>2. Upward' = Append(Upward, x)
    BY <1>3, <1>11, <2>1 DEF ReportError
  <2> HIDE DEF x
  <2>3. /\ child = "reporting" /\ child' = "ending"
        /\ UNCHANGED <<up, errored, exitRequested, code>>
    BY <1>11 DEF ReportError
  <2>4. /\ Order(Upward, up, FALSE) /\ Kinds(Upward, "online") = {1}
        /\ Kinds(Upward, "error") = {} /\ errored
    BY <2>3 DEF UpOK, Pushed, Started
  <2>5. /\ Order(Upward', up, FALSE)
        /\ Kinds(Upward', "online") = {1} /\ Kinds(Upward', "exit") = {}
    BY <2>1, <2>2, <2>4, <1>0, AppendError
  <2>6. UpOK'
    BY <2>3, <2>4, <2>5 DEF UpOK, Pushed, Early
  <2>7. ErrOK'
    BY <2>3 DEF ErrOK
  <2>8. QED BY <2>6, <2>7
<1>12. CASE ChildReturns \/ LoopNext
  <2>1. UNCHANGED <<events, inHand, toParent, up, errored, exitRequested, code>>
    BY <1>12 DEF ChildReturns, LoopNext, Fire, RunDrain, RunFlush, DeliverToPort, FlushOne,
         FlushEnds, LeaveLoop
  <2>2. \/ child \in {"script", "callback", "loop"} /\ child' \in {"loop", "ending", "callback"}
        \/ child' = child
    <3>1. CASE DeliverToPort
      <4>1. ReceiveOne(Head(batch).n) /\ child = "loop"
        BY <3>1 DEF DeliverToPort, InLoop
      <4>2. CASE portClosed
        BY <4>1, <4>2 DEF ReceiveOne
      <4>3. CASE ~portClosed /\ listening = 0
        BY <4>1, <4>3 DEF ReceiveOne
      <4>4. CASE ~portClosed /\ listening > 0
        BY <4>1, <4>4 DEF ReceiveOne
      <4>5. QED BY <4>2, <4>3, <4>4 DEF TypeOK
    <3>2. CASE FlushOne
      BY <3>2 DEF FlushOne, InLoop
    <3>3. CASE ChildReturns \/ Fire \/ RunDrain \/ RunFlush \/ FlushEnds \/ LeaveLoop
      BY <3>3 DEF ChildReturns, Fire, RunDrain, RunFlush, FlushEnds, LeaveLoop, InLoop
    <3>4. QED BY <1>12, <3>1, <3>2, <3>3 DEF LoopNext
  <2>3. UpOK'
    BY <1>1, <1>2, <2>1, <2>2 DEF Early, Started
  <2>4. ErrOK'
    BY <2>1, <2>2 DEF ErrOK
  <2>5. QED BY <2>3, <2>4
<1>13. CASE Arm \/ Listen \/ Unlisten \/ ClosePort \/ RefPort \/ UnrefPort
  <2>1. UNCHANGED <<events, inHand, toParent, up, errored, exitRequested, code, child>>
    BY <1>13 DEF Arm, Listen, Unlisten, ClosePort, RefPort, UnrefPort
  <2>2. QED BY <1>1, <1>2, <2>1 DEF ErrOK
<1>14. CASE UNCHANGED vars
  <2>1. UNCHANGED <<events, inHand, toParent, up, errored, exitRequested, code, child>>
    BY <1>14 DEF vars
  <2>2. QED BY <1>1, <1>2, <2>1 DEF ErrOK
<1>15. QED
  BY <1>4, <1>5, <1>6, <1>7, <1>8, <1>9, <1>10, <1>11, <1>12, <1>13, <1>14
  DEF Next, ParentNext, RunNext, JSNext

-----------------------------------------------------------------------------
(* The way down *)

\* Where seq has n.
At(seq, n) == {i \in 1..Len(seq) : seq[i] = n}

LEMMA OnType ==
  ASSUME NEW S, NEW seq \in Seq(S), NEW n
  PROVE  /\ On(seq, n) = Cardinality(At(seq, n)) /\ On(seq, n) \in Nat
         /\ IsFiniteSet(At(seq, n)) /\ At(seq, n) \subseteq 1..Len(seq)
<1>1. Len(seq) \in Nat
  BY LenProperties
<1>2. At(seq, n) \in SUBSET (1..Len(seq)) /\ On(seq, n) = Cardinality(At(seq, n))
  BY DEF At, On
<1>3. IsFiniteSet(1..Len(seq))
  BY <1>1, FS_Interval
<1>4. QED BY <1>2, <1>3, FS_Subset, FS_CardinalityType

LEMMA OnEmpty == \A n : On(<<>>, n) = 0
<1> SUFFICES ASSUME NEW n PROVE On(<<>>, n) = 0
  OBVIOUS
<1>1. {i \in 1..Len(<<>>) : <<>>[i] = n} = {}
  BY EmptySeq
<1>2. QED BY <1>1, FS_EmptySet, Zenon DEF On

LEMMA OnAppend ==
  ASSUME NEW S, NEW seq \in Seq(S), NEW x \in S, NEW n
  PROVE  On(Append(seq, x), n) = On(seq, n) + (IF x = n THEN 1 ELSE 0)
<1> DEFINE app == Append(seq, x)
<1>1. /\ app \in Seq(S) /\ Len(app) = Len(seq) + 1 /\ Len(seq) \in Nat
      /\ \A i \in 1..Len(seq) : app[i] = seq[i]
      /\ app[Len(seq) + 1] = x
  BY AppendProperties, LenProperties
<1>2. 1..(Len(seq) + 1) = 1..Len(seq) \cup {Len(seq) + 1}
  BY <1>1
<1>3. /\ On(seq, n) = Cardinality(At(seq, n)) /\ On(seq, n) \in Nat
      /\ IsFiniteSet(At(seq, n)) /\ At(seq, n) \subseteq 1..Len(seq)
  BY OnType
<1>4. On(app, n) = Cardinality(At(app, n))
  BY <1>1, OnType
<1>5. CASE x = n
  <2>1. At(app, n) = At(seq, n) \cup {Len(seq) + 1}
    BY <1>1, <1>2, <1>5 DEF At
  <2>2. Len(seq) + 1 \notin At(seq, n)
    BY <1>1, <1>3
  <2>3. Cardinality(At(seq, n) \cup {Len(seq) + 1}) = Cardinality(At(seq, n)) + 1
    BY <1>3, <2>2, FS_AddElement
  <2>4. QED BY <1>3, <1>4, <1>5, <2>1, <2>3
<1>6. CASE x # n
  <2>1. At(app, n) = At(seq, n)
    BY <1>1, <1>2, <1>6 DEF At
  <2>2. QED BY <1>3, <1>4, <1>6, <2>1
<1>7. QED BY <1>5, <1>6

LEMMA OnAppendNat ==
  ASSUME NEW seq \in Seq(Nat), NEW x \in Nat, NEW n
  PROVE  On(Append(seq, x), n) = On(seq, n) + (IF x = n THEN 1 ELSE 0)
BY OnAppend

\* The tail of a sequence has what the sequence has, one place further up.
LEMMA OnTail ==
  ASSUME NEW S, NEW seq \in Seq(S), seq # <<>>, NEW n
  PROVE  On(seq, n) = On(Tail(seq), n) + (IF Head(seq) = n THEN 1 ELSE 0)
<1> DEFINE t == Tail(seq)
           far == At(seq, n) \ {1}
           f == [i \in At(t, n) |-> i + 1]
<1>1. /\ Head(seq) \in S /\ t \in Seq(S) /\ Len(t) = Len(seq) - 1
      /\ \A i \in 1..Len(t) : t[i] = seq[i + 1]
      /\ Len(seq) \in Nat /\ Len(t) \in Nat
  BY HeadTailProperties, LenProperties
<1>2. Head(seq) = seq[1] /\ 1 \in 1..Len(seq)
  BY <1>1
<1>3. /\ On(seq, n) = Cardinality(At(seq, n)) /\ On(seq, n) \in Nat /\ IsFiniteSet(At(seq, n))
      /\ At(seq, n) \subseteq 1..Len(seq)
  BY OnType
<1>4. /\ On(t, n) = Cardinality(At(t, n)) /\ On(t, n) \in Nat /\ IsFiniteSet(At(t, n))
      /\ At(t, n) \subseteq 1..Len(t)
  BY <1>1, OnType
<1>5. Cardinality(far) = Cardinality(At(t, n))
  <2>1. \A i \in At(t, n) : i + 1 \in far
    BY <1>1, <1>4 DEF At
  <2>2. f \in [At(t, n) -> far]
    BY <2>1
  <2>3. \A i, k \in At(t, n) : f[i] = f[k] => i = k
    BY <1>4
  <2>4. ASSUME NEW k \in far PROVE \E i \in At(t, n) : f[i] = k
    <3>1. k - 1 \in 1..Len(t) /\ seq[(k - 1) + 1] = n /\ (k - 1) + 1 = k
      BY <1>1, <1>3 DEF At
    <3>2. k - 1 \in At(t, n)
      BY <3>1, <1>1 DEF At
    <3>3. QED BY <3>1, <3>2
  <2>5. f \in Bijection(At(t, n), far)
    BY <2>2, <2>3, <2>4 DEF Bijection, Injection, Surjection, IsInjective
  <2>6. ExistsBijection(At(t, n), far)
    BY <2>5 DEF ExistsBijection
  <2>7. QED BY <2>6, <1>4, FS_Bijection
<1>6. CASE Head(seq) = n
  <2>1. 1 \in At(seq, n)
    BY <1>2, <1>6 DEF At
  <2>2. Cardinality(far) = Cardinality(At(seq, n)) - 1
    BY <2>1, <1>3, FS_RemoveElement
  <2>3. QED BY <2>2, <1>3, <1>4, <1>5, <1>6
<1>7. CASE Head(seq) # n
  <2>1. far = At(seq, n)
    BY <1>2, <1>7 DEF At
  <2>2. On(seq, n) = On(t, n)
    BY <2>1, <1>3, <1>4, <1>5, Zenon
  <2>3. QED BY <2>2, <1>4, <1>7
<1>8. QED BY <1>6, <1>7

-----------------------------------------------------------------------------
(* The way down *)

LEMMA WayType ==
  ASSUME NEW h \in Seq(Nat), NEW p \in Seq(Nat), NEW b \in Seq(Mails), NEW q \in Seq(Mails),
         NEW n
  PROVE  /\ On(h, n) \in Nat /\ On(p, n) \in Nat
         /\ On(b, Mail("message", n)) \in Nat /\ On(q, Mail("message", n)) \in Nat
         /\ Way(h, p, b, q, n) \in Nat
<1>1. On(h, n) \in Nat /\ On(p, n) \in Nat
  BY OnType
<1>2. On(b, Mail("message", n)) \in Nat /\ On(q, Mail("message", n)) \in Nat
  BY OnType
<1>3. QED BY <1>1, <1>2 DEF Way

LEMMA MailsDiffer ==
  ASSUME NEW a, NEW b
  PROVE  Mail("message", a) = Mail("message", b) <=> a = b
<1>1. Mail("message", a).n = a /\ Mail("message", b).n = b
  BY DEF Mail
<1>2. QED BY <1>1

SameWay(h, p, b, q, h2, p2, b2, q2) ==
  \A n \in Nat : Way(h2, p2, b2, q2, n) = Way(h, p, b, q, n)
LessWay(h, p, b, q, h2, p2, b2, q2) ==
  \A n \in Nat : Way(h2, p2, b2, q2, n) <= Way(h, p, b, q, n)

\* A step that only moves messages on their way keeps them all ...
LEMMA RouteKept ==
  ASSUME NEW h \in Seq(Nat), NEW p \in Seq(Nat), NEW b \in Seq(Mails), NEW q \in Seq(Mails),
         NEW h2 \in Seq(Nat), NEW p2 \in Seq(Nat), NEW b2 \in Seq(Mails), NEW q2 \in Seq(Mails),
         NEW d \in Nat, Route(h, p, b, q, d), Messages(b2), Messages(q2),
         SameWay(h, p, b, q, h2, p2, b2, q2)
  PROVE  /\ Route(h2, p2, b2, q2, d)
         /\ AllThere(h, p, b, q, d) => AllThere(h2, p2, b2, q2, d)
<1>1. ASSUME NEW n \in Nat
      PROVE  /\ Way(h2, p2, b2, q2, n) = Way(h, p, b, q, n)
             /\ Way(h2, p2, b2, q2, n) <= 1 /\ (n > d => Way(h2, p2, b2, q2, n) = 0)
  BY DEF Route, SameWay
<1>2. Route(h2, p2, b2, q2, d)
  BY <1>1 DEF Route
<1>3. \A n \in 1..d : n \in Nat
  OBVIOUS
<1>4. QED BY <1>1, <1>2, <1>3 DEF AllThere

\* ... and one that loses some brings none back.
LEMMA RouteLost ==
  ASSUME NEW h \in Seq(Nat), NEW p \in Seq(Nat), NEW b \in Seq(Mails), NEW q \in Seq(Mails),
         NEW h2 \in Seq(Nat), NEW p2 \in Seq(Nat), NEW b2 \in Seq(Mails), NEW q2 \in Seq(Mails),
         NEW d \in Nat, Route(h, p, b, q, d), Messages(b2), Messages(q2),
         LessWay(h, p, b, q, h2, p2, b2, q2)
  PROVE  Route(h2, p2, b2, q2, d)
<1>1. ASSUME NEW n \in Nat
      PROVE  Way(h2, p2, b2, q2, n) <= 1 /\ (n > d => Way(h2, p2, b2, q2, n) = 0)
  <2> DEFINE w == Way(h, p, b, q, n)
             w2 == Way(h2, p2, b2, q2, n)
  <2>1. w \in Nat /\ w2 \in Nat
    BY WayType
  <2>2. w <= 1 /\ (n > d => w = 0) /\ w2 <= w
    BY DEF Route, LessWay
  <2> HIDE DEF w, w2
  <2>3. w2 <= 1 /\ (n > d => w2 = 0)
    BY <2>1, <2>2
  <2>4. QED BY <2>3 DEF w, w2
<1>2. QED BY <1>1 DEF Route

LEMMA RoutePost ==
  ASSUME NEW h \in Seq(Nat), NEW p \in Seq(Nat), NEW b \in Seq(Mails), NEW q \in Seq(Mails),
         NEW d \in Nat, Route(h, p, b, q, d), NEW q2, q2 = Append(q, Mail("message", d + 1))
  PROVE  /\ Route(h, p, b, q2, d + 1)
         /\ AllThere(h, p, b, q, d) => AllThere(h, p, b, q2, d + 1)
         /\ Route(h, p, b, q, d + 1)
<1> DEFINE x == Mail("message", d + 1)
<1>1. x \in Mails /\ x.n = d + 1
  BY DEF Mails, Mail
<1>2. /\ q2 \in Seq(Mails) /\ Len(q2) = Len(q) + 1 /\ Len(q) \in Nat
      /\ \A i \in 1..Len(q) : q2[i] = q[i]
      /\ q2[Len(q) + 1] = x
  BY <1>1, AppendProperties, LenProperties
<1>3. Messages(b) /\ Messages(q)
  BY DEF Route
<1>4. Messages(q2)
  BY <1>1, <1>2, <1>3 DEF Messages
<1>5. ASSUME NEW n \in Nat
      PROVE  /\ Way(h, p, b, q, n) \in Nat
             /\ Way(h, p, b, q2, n) = Way(h, p, b, q, n) + (IF n = d + 1 THEN 1 ELSE 0)
  <2>1. On(q2, Mail("message", n))
          = On(q, Mail("message", n)) + (IF x = Mail("message", n) THEN 1 ELSE 0)
    BY <1>1, OnAppend
  <2>2. x = Mail("message", n) <=> n = d + 1
    BY MailsDiffer
  <2>3. /\ On(h, n) \in Nat /\ On(p, n) \in Nat /\ On(b, Mail("message", n)) \in Nat
        /\ On(q, Mail("message", n)) \in Nat
    BY WayType
  <2> DEFINE a == On(h, n)
             c == On(p, n)
             e == On(b, Mail("message", n))
             g == On(q, Mail("message", n))
             one == IF n = d + 1 THEN 1 ELSE 0
  <2>4. On(q2, Mail("message", n)) = g + one /\ one \in Nat
    BY <2>1, <2>2
  <2>5. /\ Way(h, p, b, q, n) = a + c + e + g
        /\ Way(h, p, b, q2, n) = a + c + e + (g + one)
    BY <2>4, Zenon DEF Way
  <2>6. a \in Nat /\ c \in Nat /\ e \in Nat /\ g \in Nat
    BY <2>3
  <2> HIDE DEF a, c, e, g, one
  <2>7. a + c + e + g \in Nat /\ a + c + e + (g + one) = (a + c + e + g) + one
    BY <2>4, <2>6
  <2>8. QED BY <2>5, <2>7 DEF one
<1>6. ASSUME NEW n \in Nat
      PROVE  /\ Way(h, p, b, q2, n) <= 1
             /\ n > d + 1 => Way(h, p, b, q2, n) = 0
             /\ Way(h, p, b, q, n) <= 1
             /\ n > d + 1 => Way(h, p, b, q, n) = 0
             /\ n = d + 1 => Way(h, p, b, q2, n) # 0
             /\ n # d + 1 => Way(h, p, b, q2, n) = Way(h, p, b, q, n)
  <2> DEFINE w == Way(h, p, b, q, n)
             w2 == Way(h, p, b, q2, n)
  <2>1. w \in Nat /\ w2 = w + (IF n = d + 1 THEN 1 ELSE 0)
    BY <1>5
  <2>2. w <= 1 /\ (n > d => w = 0)
    BY DEF Route
  <2> HIDE DEF w, w2
  <2>3. /\ w2 <= 1 /\ (n > d + 1 => w2 = 0) /\ w <= 1 /\ (n > d + 1 => w = 0)
        /\ (n = d + 1 => w2 # 0) /\ (n # d + 1 => w2 = w)
    BY <2>1, <2>2
  <2>4. QED BY <2>3 DEF w, w2
<1>7. AllThere(h, p, b, q, d) => AllThere(h, p, b, q2, d + 1)
  <2>1. \A n \in 1..(d + 1) : n \in Nat /\ (n # d + 1 => n \in 1..d)
    OBVIOUS
  <2>2. QED BY <1>6, <2>1 DEF AllThere
<1>8. Route(h, p, b, q2, d + 1)
  BY <1>3, <1>4, <1>6 DEF Route
<1>9. Route(h, p, b, q, d + 1)
  BY <1>3, <1>6 DEF Route
<1>10. QED BY <1>7, <1>8, <1>9

LEMMA RouteDrain ==
  ASSUME NEW h \in Seq(Nat), NEW p \in Seq(Nat), NEW b \in Seq(Mails), NEW q \in Seq(Mails),
         NEW d \in Nat, Route(h, p, b, q, d), b = <<>>
  PROVE  /\ Route(h, p, q, b, d)
         /\ AllThere(h, p, b, q, d) => AllThere(h, p, q, b, d)
<1>1. ASSUME NEW n \in Nat
      PROVE  Way(h, p, q, b, n) = Way(h, p, b, q, n)
  <2>1. /\ On(h, n) \in Nat /\ On(p, n) \in Nat /\ On(b, Mail("message", n)) \in Nat
        /\ On(q, Mail("message", n)) \in Nat
    BY WayType
  <2>2. QED BY <2>1 DEF Way
<1>2. Messages(b) /\ Messages(q)
  BY DEF Route
<1>3. SameWay(h, p, b, q, h, p, q, b)
  BY <1>1 DEF SameWay
<1>4. QED BY <1>2, <1>3, RouteKept

\* Closing the child's mailbox loses what it has.
LEMMA RouteClose ==
  ASSUME NEW h \in Seq(Nat), NEW p \in Seq(Nat), NEW b \in Seq(Mails), NEW q \in Seq(Mails),
         NEW d \in Nat, Route(h, p, b, q, d), NEW q2, q2 = <<>>
  PROVE  Route(h, p, b, q2, d)
<1>1. q2 \in Seq(Mails)
  BY EmptySeq
<1>2. LessWay(h, p, b, q, h, p, b, q2)
  <2> SUFFICES ASSUME NEW n \in Nat PROVE Way(h, p, b, q2, n) <= Way(h, p, b, q, n)
    BY DEF LessWay
  <2>1. On(q2, Mail("message", n)) = 0
    BY OnEmpty
  <2>2. /\ On(h, n) \in Nat /\ On(p, n) \in Nat /\ On(b, Mail("message", n)) \in Nat
        /\ On(q, Mail("message", n)) \in Nat
    BY WayType
  <2>3. QED BY <2>1, <2>2 DEF Way
<1>3. Messages(b) /\ Messages(q2)
  BY DEF Route, Messages
<1>4. QED BY <1>1, <1>2, <1>3, RouteLost

\* _receive keeps the first message of a drain, emits it, or drops it.
LEMMA RouteReceive ==
  ASSUME NEW h \in Seq(Nat), NEW p \in Seq(Nat), NEW b \in Seq(Mails), NEW q \in Seq(Mails),
         NEW d \in Nat, Route(h, p, b, q, d), b # <<>>,
         NEW x, x = Head(b).n, NEW t, t = Tail(b)
  PROVE  /\ x \in Nat
         /\ Route(h, Append(p, x), t, q, d)
         /\ AllThere(h, p, b, q, d) => AllThere(h, Append(p, x), t, q, d)
         /\ Route(Append(h, x), p, t, q, d)
         /\ AllThere(h, p, b, q, d) => AllThere(Append(h, x), p, t, q, d)
         /\ Route(h, p, t, q, d)
<1> DEFINE h2 == Append(h, x)
           p2 == Append(p, x)
<1>1. /\ Head(b) \in Mails /\ t \in Seq(Mails) /\ Len(t) = Len(b) - 1
      /\ \A i \in 1..Len(t) : t[i] = b[i + 1]
      /\ Len(b) \in Nat /\ Len(b) > 0 /\ Head(b) = b[1]
  BY HeadTailProperties, LenProperties
<1>2. x \in Nat
  BY <1>1 DEF Mails
<1>3. Messages(b) /\ Messages(q)
  BY DEF Route
<1>4. Messages(t)
  BY <1>1, <1>3 DEF Messages
<1>5. Head(b) = Mail("message", x)
  BY <1>1, <1>3 DEF Messages
<1>6. h2 \in Seq(Nat) /\ p2 \in Seq(Nat)
  BY <1>2
<1>7. ASSUME NEW n \in Nat
      PROVE  /\ Way(h, p2, t, q, n) = Way(h, p, b, q, n)
             /\ Way(h2, p, t, q, n) = Way(h, p, b, q, n)
             /\ Way(h, p, t, q, n) <= Way(h, p, b, q, n)
  <2> DEFINE one == IF x = n THEN 1 ELSE 0
  <2>1. On(b, Mail("message", n))
          = On(t, Mail("message", n)) + (IF Head(b) = Mail("message", n) THEN 1 ELSE 0)
    BY OnTail
  <2>2. Head(b) = Mail("message", n) <=> x = n
    BY <1>5, MailsDiffer
  <2>3. On(b, Mail("message", n)) = On(t, Mail("message", n)) + one
    BY <2>1, <2>2
  <2>4. On(h2, n) = On(h, n) + one
    BY <1>2, OnAppendNat
  <2>5. On(p2, n) = On(p, n) + one
    BY <1>2, OnAppendNat
  <2>6. one \in Nat
    OBVIOUS
  <2> HIDE DEF one, h2, p2
  <2>7. /\ On(h, n) \in Nat /\ On(p, n) \in Nat /\ On(t, Mail("message", n)) \in Nat
        /\ On(q, Mail("message", n)) \in Nat
    BY <1>1, WayType
  <2>8. Way(h, p2, t, q, n) = Way(h, p, b, q, n)
    BY <2>3, <2>5, <2>6, <2>7 DEF Way
  <2>9. Way(h2, p, t, q, n) = Way(h, p, b, q, n)
    BY <2>3, <2>4, <2>6, <2>7 DEF Way
  <2>10. Way(h, p, t, q, n) <= Way(h, p, b, q, n)
    <3> DEFINE a == On(h, n)
               c == On(p, n)
               e == On(t, Mail("message", n))
               g == On(q, Mail("message", n))
    <3>1. /\ Way(h, p, t, q, n) = a + c + e + g
          /\ Way(h, p, b, q, n) = a + c + (e + one) + g
      BY <2>3, Zenon DEF Way
    <3>2. a \in Nat /\ c \in Nat /\ e \in Nat /\ g \in Nat
      BY <2>7
    <3> HIDE DEF a, c, e, g
    <3>3. QED BY <3>1, <3>2, <2>6
  <2>11. QED BY <2>8, <2>9, <2>10
<1> HIDE DEF h2, p2
<1>8. Route(h, p2, t, q, d) /\ (AllThere(h, p, b, q, d) => AllThere(h, p2, t, q, d))
  <2>1. SameWay(h, p, b, q, h, p2, t, q)
    BY <1>7 DEF SameWay
  <2>2. QED BY <2>1, <1>1, <1>3, <1>4, <1>6, RouteKept
<1>9. Route(h2, p, t, q, d) /\ (AllThere(h, p, b, q, d) => AllThere(h2, p, t, q, d))
  <2>1. SameWay(h, p, b, q, h2, p, t, q)
    BY <1>7 DEF SameWay
  <2>2. QED BY <2>1, <1>1, <1>3, <1>4, <1>6, RouteKept
<1>10. Route(h, p, t, q, d)
  <2>1. LessWay(h, p, b, q, h, p, t, q)
    BY <1>7 DEF LessWay
  <2>2. QED BY <2>1, <1>1, <1>3, <1>4, RouteLost
<1>11. QED BY <1>2, <1>8, <1>9, <1>10 DEF h2, p2

\* _flush emits the first message that was kept, or drops it.
LEMMA RouteFlush ==
  ASSUME NEW h \in Seq(Nat), NEW p \in Seq(Nat), NEW b \in Seq(Mails), NEW q \in Seq(Mails),
         NEW d \in Nat, Route(h, p, b, q, d), p # <<>>,
         NEW x, x = Head(p), NEW t, t = Tail(p)
  PROVE  /\ Route(Append(h, x), t, b, q, d)
         /\ AllThere(h, p, b, q, d) => AllThere(Append(h, x), t, b, q, d)
         /\ Route(h, t, b, q, d)
<1> DEFINE h2 == Append(h, x)
<1>1. x \in Nat /\ t \in Seq(Nat)
  BY HeadTailProperties
<1>2. h2 \in Seq(Nat)
  BY <1>1
<1>3. Messages(b) /\ Messages(q)
  BY DEF Route
<1>4. ASSUME NEW n \in Nat
      PROVE  /\ Way(h2, t, b, q, n) = Way(h, p, b, q, n)
             /\ Way(h, t, b, q, n) <= Way(h, p, b, q, n)
  <2> DEFINE one == IF x = n THEN 1 ELSE 0
  <2>1. On(p, n) = On(t, n) + one
    BY OnTail
  <2>2. On(h2, n) = On(h, n) + one
    BY <1>1, OnAppendNat
  <2>3. one \in Nat
    OBVIOUS
  <2> HIDE DEF one, h2
  <2>4. /\ On(h, n) \in Nat /\ On(t, n) \in Nat /\ On(b, Mail("message", n)) \in Nat
        /\ On(q, Mail("message", n)) \in Nat
    BY <1>1, WayType
  <2>5. Way(h2, t, b, q, n) = Way(h, p, b, q, n)
    BY <2>1, <2>2, <2>3, <2>4 DEF Way
  <2>6. Way(h, t, b, q, n) <= Way(h, p, b, q, n)
    <3>1. Way(h, p, b, q, n) = Way(h, t, b, q, n) + one /\ Way(h, t, b, q, n) \in Nat
      <4> DEFINE a == On(h, n)
                 c == On(t, n)
                 e == On(b, Mail("message", n))
                 g == On(q, Mail("message", n))
      <4>1. a \in Nat /\ c \in Nat /\ e \in Nat /\ g \in Nat
        BY <2>4
      <4>2. Way(h, p, b, q, n) = a + (c + one) + e + g /\ Way(h, t, b, q, n) = a + c + e + g
        BY <2>1, Zenon DEF Way
      <4> HIDE DEF a, c, e, g
      <4>3. QED BY <4>1, <4>2, <2>3
    <3>2. QED BY <3>1, <2>3
  <2>7. QED BY <2>5, <2>6
<1> HIDE DEF h2
<1>5. Route(h2, t, b, q, d) /\ (AllThere(h, p, b, q, d) => AllThere(h2, t, b, q, d))
  <2>1. SameWay(h, p, b, q, h2, t, b, q)
    BY <1>4 DEF SameWay
  <2>2. QED BY <2>1, <1>1, <1>2, <1>3, RouteKept
<1>6. Route(h, t, b, q, d)
  <2>1. LessWay(h, p, b, q, h, t, b, q)
    BY <1>4 DEF LessWay
  <2>2. QED BY <2>1, <1>1, <1>3, RouteLost
<1>7. QED BY <1>5, <1>6 DEF h2

LEMMA StepDown ==
  ASSUME TypeOK, DownOK, [Next]_vars
  PROVE  DownOK'
<1> USE DEF flags, parentSide, port, counts, childLoop
<1> DEFINE Here == AllThere(received, pending, batch, toChild.queue, down)
<1>0. /\ received \in Seq(Nat) /\ pending \in Seq(Nat) /\ batch \in Seq(Mails)
      /\ toChild \in Mailboxes(Mails) /\ toChild.queue \in Seq(Mails) /\ down \in Nat
      /\ portClosed \in BOOLEAN
  BY WorkerAssumption DEF TypeOK, Mailboxes
<1>a. /\ toChild.closed = ThreadEnded
      /\ Route(received, pending, batch, toChild.queue, down)
      /\ ~portClosed /\ ~ThreadEnded => Here
  BY DEF DownOK
<1>1. ASSUME UNCHANGED <<received, pending, batch, down, portClosed>>,
             toChild'.queue = toChild.queue, toChild'.closed = toChild.closed,
             ThreadEnded' = ThreadEnded
      PROVE  DownOK'
  BY <1>1, <1>a DEF DownOK
<1>2. CASE PostMessage
  <2> DEFINE x == Mail("message", down + 1)
             q == Append(toChild.queue, x)
  <2>1. x \in Mails
    BY <1>0 DEF Mail, Mails
  <2>2. /\ toChild'.closed = toChild.closed
        /\ toChild'.queue = IF toChild.closed THEN toChild.queue ELSE q
    BY <1>0, <1>2, <2>1, PushFacts DEF PostMessage
  <2>3. UNCHANGED <<received, pending, batch, portClosed, child>> /\ down' = down + 1
    BY <1>2 DEF PostMessage
  <2>4. /\ Route(received, pending, batch, q, down + 1)
        /\ Here => AllThere(received, pending, batch, q, down + 1)
        /\ Route(received, pending, batch, toChild.queue, down + 1)
    BY <1>0, <1>a, RoutePost
  <2> HIDE DEF q
  <2>5. QED BY <1>a, <2>2, <2>3, <2>4 DEF DownOK, ThreadEnded
<1>3. CASE Terminate \/ CancelChild \/ (\E r \in BOOLEAN : SetRef(r)) \/ ParentReturns
           \/ Drain \/ Deliver \/ Leave
  <2>1. UNCHANGED <<received, pending, batch, down, portClosed, toChild, child>>
    BY <1>3 DEF Terminate, CancelChild, SetRef, ParentReturns, Drain, Deliver, Leave
  <2>2. QED BY <1>1, <2>1 DEF ThreadEnded
<1>4. CASE Begin \/ Online \/ Crash \/ ComputeCode \/ PushExit
  <2>1. UNCHANGED <<received, pending, batch, down, portClosed, toChild>>
    BY <1>4 DEF Begin, Online, Crash, ComputeCode, PushExit
  <2>2. ThreadEnded' = ThreadEnded
    BY <1>4 DEF Begin, Online, Crash, ComputeCode, PushExit, ThreadEnded
  <2>3. QED BY <1>1, <2>1, <2>2
<1>5. CASE InitChild
  <2>1. toChild'.closed = toChild.closed /\ toChild'.queue = toChild.queue
    BY <1>0, <1>5, AttachFacts DEF InitChild
  <2>2. UNCHANGED <<received, pending, batch, down, portClosed>> /\ ThreadEnded' = ThreadEnded
    BY <1>5 DEF InitChild, ThreadEnded
  <2>3. QED BY <1>1, <2>1, <2>2
<1>6. CASE CloseToChild
  <2>1. toChild'.closed /\ toChild'.queue = <<>> /\ toChild'.closed \in BOOLEAN
    BY <1>0, <1>6, ClosedFacts DEF CloseToChild, Mailboxes
  <2>2. UNCHANGED <<received, pending, batch, down, portClosed>> /\ child' = "exiting"
    BY <1>6 DEF CloseToChild
  <2>3. Route(received, pending, batch, toChild'.queue, down)
    BY <1>0, <1>a, <2>1, RouteClose
  <2>4. QED BY <2>1, <2>2, <2>3 DEF DownOK, ThreadEnded
<1>7. CASE ChildPosts \/ (\E c \in ExitCodes : Exit(c)) \/ Throw \/ ReportError \/ ChildReturns
           \/ Arm
  <2>1. UNCHANGED <<received, pending, batch, down, portClosed, toChild>>
    BY <1>7 DEF ChildPosts, Exit, Throw, ReportError, ChildReturns, Arm, Call
  <2>2. ThreadEnded' = ThreadEnded
    BY <1>7 DEF ChildPosts, Exit, Throw, ReportError, ChildReturns, Arm, Call, InJS, AfterJS,
         ThreadEnded
  <2>3. QED BY <1>1, <2>1, <2>2
<1>8. CASE Listen \/ Unlisten \/ RefPort \/ UnrefPort
  <2>1. toChild' \in {toChild, Ref(toChild), Unref(toChild)}
    BY <1>8 DEF Listen, Unlisten, RefPort, UnrefPort
  <2>2. toChild'.closed = toChild.closed /\ toChild'.queue = toChild.queue
    BY <1>0, <2>1, RefFacts
  <2>3. UNCHANGED <<received, pending, batch, down, portClosed, child>>
    BY <1>8 DEF Listen, Unlisten, RefPort, UnrefPort, Call
  <2>4. QED BY <1>1, <2>2, <2>3 DEF ThreadEnded
<1>9. CASE ClosePort
  <2>1. toChild'.closed = toChild.closed /\ toChild'.queue = toChild.queue
    BY <1>0, <1>9, RefFacts DEF ClosePort
  <2>2. UNCHANGED <<received, pending, batch, down, child>> /\ portClosed'
    BY <1>9 DEF ClosePort, Call
  <2>3. QED BY <1>a, <2>1, <2>2 DEF DownOK, ThreadEnded
<1>10. CASE Fire \/ RunFlush \/ FlushEnds \/ LeaveLoop
  <2>1. UNCHANGED <<received, pending, batch, down, portClosed, toChild>>
    BY <1>10 DEF Fire, RunFlush, FlushEnds, LeaveLoop
  <2>2. ThreadEnded' = ThreadEnded
    BY <1>10 DEF Fire, RunFlush, FlushEnds, LeaveLoop, InLoop, ThreadEnded
  <2>3. QED BY <1>1, <2>1, <2>2
<1>11. CASE RunDrain
  <2>1. toChild'.closed = toChild.closed /\ toChild'.queue = <<>>
    BY <1>0, <1>11, DrainedFacts DEF RunDrain
  <2>2. UNCHANGED <<received, pending, down, portClosed, child>>
    BY <1>11 DEF RunDrain
  <2>3. batch = <<>> /\ batch' = toChild.queue
    BY <1>11 DEF RunDrain, Between
  <2>4. /\ Route(received, pending, batch', batch, down)
        /\ Here => AllThere(received, pending, batch', batch, down)
    BY <1>0, <1>a, <2>3, RouteDrain
  <2>5. QED BY <1>a, <2>1, <2>2, <2>3, <2>4 DEF DownOK, ThreadEnded
<1>12. CASE DeliverToPort
  <2> DEFINE x == Head(batch).n
             t == Tail(batch)
  <2>1. /\ Route(received, Append(pending, x), t, toChild.queue, down)
        /\ Here => AllThere(received, Append(pending, x), t, toChild.queue, down)
        /\ Route(Append(received, x), pending, t, toChild.queue, down)
        /\ Here => AllThere(Append(received, x), pending, t, toChild.queue, down)
        /\ Route(received, pending, t, toChild.queue, down)
    BY <1>0, <1>a, <1>12, RouteReceive DEF DeliverToPort
  <2>2. UNCHANGED <<toChild, down, portClosed>> /\ batch' = t /\ ReceiveOne(x)
    BY <1>12 DEF DeliverToPort
  <2>3. child = "loop" /\ listening \in Nat
    BY <1>12 DEF DeliverToPort, InLoop, TypeOK
  <2> HIDE DEF x, t
  <2>4. ThreadEnded' = ThreadEnded
    <3>1. CASE portClosed
      BY <2>2, <3>1 DEF ReceiveOne, ThreadEnded
    <3>2. CASE ~portClosed /\ listening > 0
      BY <2>2, <2>3, <3>2 DEF ReceiveOne, ThreadEnded
    <3>3. CASE ~portClosed /\ listening = 0
      BY <2>2, <3>3 DEF ReceiveOne, ThreadEnded
    <3>4. QED BY <1>0, <2>3, <3>1, <3>2, <3>3
  <2>5. CASE portClosed
    <3>1. UNCHANGED <<pending, received>>
      BY <2>2, <2>5 DEF ReceiveOne
    <3>2. QED BY <1>a, <2>1, <2>2, <2>4, <2>5, <3>1 DEF DownOK
  <2>6. CASE ~portClosed /\ listening = 0
    <3>1. pending' = Append(pending, x) /\ received' = received
      BY <2>2, <2>6 DEF ReceiveOne
    <3>2. QED BY <1>a, <2>1, <2>2, <2>4, <2>6, <3>1 DEF DownOK
  <2>7. CASE ~portClosed /\ listening > 0
    <3>1. received' = Append(received, x) /\ pending' = pending
      BY <2>2, <2>7 DEF ReceiveOne
    <3>2. QED BY <1>a, <2>1, <2>2, <2>4, <2>7, <3>1 DEF DownOK
  <2>8. QED BY <1>0, <2>3, <2>5, <2>6, <2>7
<1>13. CASE FlushOne
  <2> DEFINE x == Head(pending)
             t == Tail(pending)
  <2>1. /\ Route(Append(received, x), t, batch, toChild.queue, down)
        /\ Here => AllThere(Append(received, x), t, batch, toChild.queue, down)
        /\ Route(received, t, batch, toChild.queue, down)
    BY <1>0, <1>a, <1>13, RouteFlush DEF FlushOne
  <2>2. /\ UNCHANGED <<batch, toChild, down, portClosed>> /\ pending' = t
        /\ IF portClosed THEN UNCHANGED <<child, received>>
           ELSE received' = Append(received, x) /\ child' = "callback"
    BY <1>13 DEF FlushOne
  <2>3. child = "loop"
    BY <1>13 DEF FlushOne, InLoop
  <2> HIDE DEF x, t
  <2>4. ThreadEnded' = ThreadEnded
    BY <1>0, <2>2, <2>3 DEF ThreadEnded
  <2>5. QED BY <1>0, <1>a, <2>1, <2>2, <2>4 DEF DownOK
<1>14. CASE UNCHANGED vars
  BY <1>1, <1>14 DEF vars, ThreadEnded
<1>15. QED
  BY <1>2, <1>3, <1>4, <1>5, <1>6, <1>7, <1>8, <1>9, <1>10, <1>11, <1>12, <1>13, <1>14
  DEF Next, ParentNext, RunNext, JSNext, LoopNext

-----------------------------------------------------------------------------
(* The invariant *)

LEMMA InitInv == Init => IInv
<1> SUFFICES ASSUME Init PROVE IInv
  OBVIOUS
<1>1. TypeOK
  BY InitTypes
<1>2. NewMailbox \in Mailboxes(Mails)
  <2>1. <<>> \in Seq(Mails)
    BY EmptySeq
  <2>2. QED BY <2>1 DEF NewMailbox, Mailboxes
<1>3. /\ Attach(NewMailbox) \in Mailboxes(Mails) /\ Attach(NewMailbox).attached
      /\ Attach(NewMailbox).closed = FALSE /\ Attach(NewMailbox).queue = <<>>
  BY <1>2, AttachFacts DEF NewMailbox
<1>4. /\ toParent.attached = Attach(NewMailbox).attached /\ toParent.closed = FALSE
      /\ toParent.queue = <<>>
      /\ toParent.held = (Attach(NewMailbox).attached /\ 1 > 0 /\ ~Attach(NewMailbox).closed)
  BY <1>3, SetRefsFacts DEF Init
<1>5. ParentOK
  <2>1. toParent \in Mailboxes(Mails)
    BY <1>1 DEF TypeOK
  <2>2. toParent.attached = TRUE /\ toParent.held = TRUE
    BY <1>3, <1>4, <2>1 DEF Mailboxes
  <2>3. /\ alive = TRUE /\ refed = TRUE /\ exited = FALSE /\ parent = "js"
    BY DEF Init
  <2>4. QED BY <1>4, <2>2, <2>3 DEF ParentOK
<1>6. Upward = <<>> /\ up = 0 /\ child = "new"
  BY <1>4 DEF Init, Upward
<1>7. UpOK
  <2>1. Upward \in Seq(Mails)
    BY <1>6, EmptySeq
  <2>2. Order(Upward, 0, FALSE) /\ \A k : Kinds(Upward, k) = {}
    BY <1>6, <2>1, EmptyOrder
  <2>3. (child = "gone") = FALSE
    BY <1>6
  <2>4. QED BY <1>6, <2>2, <2>3 DEF UpOK, Pushed, Order, Early, Started
<1>8. ErrOK
  BY DEF Init, ErrOK
<1>9. /\ received = <<>> /\ pending = <<>> /\ batch = <<>> /\ toChild.queue = <<>> /\ down = 0
      /\ toChild.closed = FALSE
  BY DEF Init, NewMailbox
<1>10. ASSUME NEW n PROVE Way(received, pending, batch, toChild.queue, n) = 0
  BY <1>9, OnEmpty DEF Way
<1>11. DownOK
  <2>1. Messages(<<>>)
    BY DEF Messages
  <2>2. Route(received, pending, batch, toChild.queue, down)
    BY <1>9, <1>10, <2>1 DEF Route
  <2>3. AllThere(received, pending, batch, toChild.queue, down)
    BY <1>9 DEF AllThere
  <2>4. toChild.closed = ThreadEnded
    <3>1. ThreadEnded = FALSE
      BY <1>6 DEF ThreadEnded
    <3>2. QED BY <1>9, <3>1
  <2>5. QED BY <2>2, <2>3, <2>4 DEF DownOK
<1>12. QED BY <1>1, <1>5, <1>7, <1>8, <1>11 DEF IInv

LEMMA Invariance == Spec => []IInv
<1>1. IInv /\ [Next]_vars => IInv'
  BY StepTypes, StepUp, StepParent, StepDown DEF IInv
<1>2. QED BY <1>1, InitInv, PTL DEF Spec

\* What a Worker emits is, for any number of messages, "online", the messages as
\* they were posted, at most one "error", and one "exit" that nothing follows,
\* with code 1 behind an error (run and reportError of worker_runtime.go).
THEOREM EventsInOrder == Spec => []EventsTrue
<1>1. IInv => EventsTrue
  <2> SUFFICES ASSUME IInv PROVE EventsTrue
    OBVIOUS
  <2>1. Pushed(Upward, up, child, errored) /\ TypeOK
    BY DEF IInv, UpOK
  <2>2. \A k : Is(k) = Kinds(Upward, k)
    BY DEF Is, Kinds
  <2>3. EventOrder
    BY <2>1, <2>2 DEF Pushed, Order, EventOrder
  <2>4. ErrorMeansOne
    BY <2>1, <2>2 DEF Pushed, ErrorMeansOne
  <2>5. QED BY <2>1, <2>3, <2>4 DEF EventsTrue
<1>2. QED BY <1>1, Invariance, PTL

\* A ref'd Worker holds its parent until "exit" is delivered, and a message to
\* the worker is in one place until parentPort drops it or run() ends, for any
\* number of messages and of calls on parentPort (updateParentHold and the
\* mailbox of worker_runtime.go, _receive and _flush of worker_threads_shim.go).
THEOREM NothingIsLost == Spec => []NothingLost
<1>1. IInv => NothingLost
  <2> SUFFICES ASSUME IInv PROVE NothingLost
    OBVIOUS
  <2>1. ParentOK /\ DownOK
    BY DEF IInv
  <2>2. ParentStays
    BY <2>1 DEF ParentOK, ParentStays
  <2>3. /\ Route(received, pending, batch, toChild.queue, down)
        /\ ~portClosed /\ ~ThreadEnded
             => AllThere(received, pending, batch, toChild.queue, down)
    BY <2>1 DEF DownOK
  <2>4. \A n \in 1..down : n \in Nat
    OBVIOUS
  <2>5. NoneLost
    BY <2>3, <2>4 DEF NoneLost, Route, AllThere, OnWay, Way, ThreadEnded
  <2>6. QED BY <2>2, <2>5 DEF NothingLost
<1>2. QED BY <1>1, Invariance, PTL
=============================================================================
