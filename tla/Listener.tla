------------------------------ MODULE Listener ------------------------------
(***************************************************************************)
(* The listening half of net.go and the SNI callback of tls.go: a server   *)
(* handle, the goroutine that accepts, and handshakes that ask the VM      *)
(* thread for a context.  close() is on the VM thread, but its steps are   *)
(* taken one by one: the goroutine runs between them.                      *)
(***************************************************************************)
EXTENDS Integers, Sequences, SequencesExt, FiniteSets

CONSTANTS
  Conns,     \* the connections peers make
  MaxFaults, \* bound: accepts that fail for a moment
  MaxTurns   \* bound: calls of start, ref, unref and close

ASSUME ListenerAssumption == {MaxFaults, MaxTurns} \subseteq Nat /\ Conns # {}

VARIABLES
  srv,      \* netServerHandle: closed, refed, opHeld, started, open (the net.Listener)
  conn,     \* per connection: where it is
  inHand,   \* the connections the goroutine has accepted and not scheduled
  tasks,    \* the macrotasks scheduled on the VM's loop
  ask,      \* per connection: the SNI question of its handshake
  closing,  \* close() runs: "no", "mark" (closed is set), "shut" (ln is closed)
  calls,    \* observer: close() was called, and its callbacks that are due
  faults, turns, left

lvars == <<srv, conn, inHand, tasks, ask, closing, calls, faults, turns, left>>

\* netListen: the handle is ref'd, and holds the loop.  once and ch are
\* askSNI's sync.Once and channel, stuck is a VM thread that waits for room in
\* ch; answers is the observer's.
NoAsk ==
  [state |-> "none", once |-> FALSE, ch |-> <<>>, stuck |-> FALSE, answers |-> <<>>,
   result |-> "none"]
LInit ==
  /\ srv = [closed |-> FALSE, refed |-> TRUE, opHeld |-> TRUE, started |-> FALSE, open |-> TRUE]
  /\ conn = [c \in Conns |-> "away"]
  /\ inHand = {} /\ tasks = <<>>
  /\ ask = [c \in Conns |-> NoAsk]
  /\ closing = "no" /\ calls = [made |-> 0, heard |-> 0]
  /\ faults = 0 /\ turns = 0 /\ left = FALSE

Schedule(t) == tasks' = Append(tasks, t)
ServerOp(s) == [s EXCEPT !.opHeld = s.refed /\ ~s.closed]
Idle == ~left /\ closing = "no" /\ \A c \in Conns : ~ask[c].stuck
Turn == Idle /\ turns < MaxTurns /\ turns' = turns + 1

Start ==
  /\ Turn /\ srv' = [srv EXCEPT !.started = @ \/ ~srv.closed]
  /\ UNCHANGED <<conn, inHand, tasks, ask, closing, calls, faults, left>>
ServerRef(to) ==
  /\ Turn /\ srv' = ServerOp([srv EXCEPT !.refed = to])
  /\ UNCHANGED <<conn, inHand, tasks, ask, closing, calls, faults, left>>

\* close(cb), which may be called again.
CloseMarks ==
  /\ Turn /\ closing' = "mark" /\ srv' = [srv EXCEPT !.closed = TRUE]
  /\ calls' = [calls EXCEPT !.made = @ + 1]
  /\ UNCHANGED <<conn, inHand, tasks, ask, faults, left>>
\* ln.Close(): peers that were not accepted are refused.
CloseShuts ==
  /\ closing = "mark" /\ closing' = "shut"
  /\ srv' = [srv EXCEPT !.open = FALSE]
  /\ conn' = [c \in Conns |-> IF conn[c] = "backlog" THEN "refused" ELSE conn[c]]
  /\ UNCHANGED <<inHand, tasks, ask, calls, faults, turns, left>>
CloseEnds ==
  /\ closing = "shut" /\ closing' = "no"
  /\ Schedule([op |-> "closed", c |-> "none"])
  /\ srv' = ServerOp(srv)
  /\ UNCHANGED <<conn, inHand, ask, calls, faults, turns, left>>

PeerConnects(c) ==
  /\ conn[c] = "away"
  /\ conn' = [conn EXCEPT ![c] = IF srv.open /\ ~left THEN "backlog" ELSE "refused"]
  /\ UNCHANGED <<srv, inHand, tasks, ask, closing, calls, faults, turns, left>>

\* acceptLoop: Accept returns a connection, which is then scheduled.
Accepts(c) ==
  /\ ~left /\ srv.started /\ srv.open /\ inHand = {} /\ conn[c] = "backlog"
  /\ inHand' = {c} /\ conn' = [conn EXCEPT ![c] = "accepted"]
  /\ UNCHANGED <<srv, tasks, ask, closing, calls, faults, turns, left>>
Hands(c) ==
  /\ ~left /\ c \in inHand /\ inHand' = {}
  /\ Schedule([op |-> "accepted", c |-> c])
  /\ UNCHANGED <<srv, conn, ask, closing, calls, faults, turns, left>>
AcceptFails ==
  /\ ~left /\ srv.started /\ srv.open /\ inHand = {} /\ faults < MaxFaults
  /\ faults' = faults + 1 /\ Schedule([op |-> "onerror", c |-> "none"])
  /\ UNCHANGED <<srv, conn, inHand, ask, closing, calls, turns, left>>

\* The macrotask of an accepted connection looks at the server again.
RunAccepted(c) ==
  conn' = [conn EXCEPT ![c] = IF srv.closed THEN "dropped" ELSE "served"]
  /\ UNCHANGED <<calls, ask>>

\* askSNI's macrotask calls SNICallback: it answers now, later or never, and
\* may answer more than once, of which only the first counts.
RunTask ==
  /\ Idle /\ tasks # <<>> /\ tasks' = Tail(tasks)
  /\ LET t == Head(tasks) IN
     \/ t.op = "accepted" /\ RunAccepted(t.c)
     \/ t.op = "closed" /\ calls' = [calls EXCEPT !.heard = @ + 1] /\ UNCHANGED <<conn, ask>>
     \/ t.op = "onerror" /\ UNCHANGED <<conn, calls, ask>>
     \/ t.op = "onsni" /\ ask' = [ask EXCEPT ![t.c].state = "called"] /\ UNCHANGED <<conn, calls>>
  /\ UNCHANGED <<srv, inHand, closing, faults, turns, left>>

\* A handshake on its own goroutine.
AsksSNI(c) ==
  /\ ~left /\ conn[c] = "served" /\ ask[c].state = "none"
  /\ ask' = [ask EXCEPT ![c].state = "asked"]
  /\ Schedule([op |-> "onsni", c |-> c])
  /\ UNCHANGED <<srv, conn, inHand, closing, calls, faults, turns, left>>
\* Mutant: done() sends whenever it is called.
Done_Each(q, a) ==
  IF q.ch = <<>> THEN [q EXCEPT !.once = TRUE, !.ch = <<a>>] ELSE [q EXCEPT !.stuck = TRUE]
Done(q, a) ==
  CASE q.once -> q
    [] ~q.once /\ q.ch = <<>> -> [q EXCEPT !.once = TRUE, !.ch = <<a>>]
    [] OTHER -> [q EXCEPT !.stuck = TRUE]
Answers(c, a) ==
  /\ Idle /\ ask[c].state = "called" /\ Len(ask[c].answers) < 2
  /\ LET told == [ask[c] EXCEPT !.answers = Append(ask[c].answers, a)]
     IN  ask' = [ask EXCEPT ![c] = Done(told, a)]
  /\ UNCHANGED <<srv, conn, inHand, tasks, closing, calls, faults, turns, left>>
\* The goroutine takes the answer from the channel, or the 30 s are over.
HandshakeHears(c) ==
  /\ ~left /\ ask[c].ch # <<>> /\ ask[c].result = "none"
  /\ ask' = [ask EXCEPT ![c].result = Head(ask[c].ch), ![c].ch = Tail(@)]
  /\ UNCHANGED <<srv, conn, inHand, tasks, closing, calls, faults, turns, left>>
HandshakeTimesOut(c) ==
  /\ ~left /\ ask[c].state # "none" /\ ask[c].result = "none"
  /\ ask' = [ask EXCEPT ![c].result = "timeout"]
  /\ UNCHANGED <<srv, conn, inHand, tasks, closing, calls, faults, turns, left>>

Leave ==
  /\ Idle /\ ~srv.opHeld /\ tasks = <<>> /\ left' = TRUE
  /\ UNCHANGED <<srv, conn, inHand, tasks, ask, closing, calls, faults, turns>>

LWorks ==
  \/ CloseShuts \/ CloseEnds \/ RunTask
  \/ \E c \in Conns : Accepts(c) \/ Hands(c) \/ HandshakeHears(c) \/ HandshakeTimesOut(c)
LNext ==
  \/ LWorks \/ Start \/ CloseMarks \/ AcceptFails \/ Leave
  \/ \E to \in BOOLEAN : ServerRef(to)
  \/ \E c \in Conns : PeerConnects(c) \/ AsksSNI(c) \/ \E a \in {"ctx", "error"} : Answers(c, a)
LRests ==
  \/ left
  \/ /\ closing = "no" /\ tasks = <<>> /\ inHand = {}
     /\ \A c \in Conns : (conn[c] = "backlog" => ~srv.started \/ ~srv.open)
                         /\ (ask[c].state # "none" => ask[c].result # "none")

-----------------------------------------------------------------------------
\* The server holds the loop exactly while it is ref'd and open.
ServerHold == Idle => (srv.opHeld <=> srv.refed /\ ~srv.closed)

\* After close() no connection reaches JavaScript, in whatever order the
\* goroutine accepted and scheduled it.
NoneServedAfterClose ==
  srv.closed => \A c \in Conns : conn'[c] = "served" => conn[c] = "served"

\* A connection that was accepted is served or closed: none stays open and
\* forgotten while the process lives; and every close() calls back.
NoneForgotten ==
  /\ (\A c \in Conns : conn[c] # "accepted") \/ left
  /\ calls.heard = calls.made

\* However late and however often SNICallback answers, the VM thread does not
\* wait for a handshake to take the answer; and the result is the first one or
\* the timeout.
OneAnswer ==
  \A c \in Conns :
    /\ ~ask[c].stuck
    /\ ask[c].result # "none" => ask[c].result = "timeout" \/ ask[c].result = Head(ask[c].answers)
\* A handshake is never left waiting for JavaScript.
HandshakesEnd == \A c \in Conns : ask[c].state = "none" \/ ask[c].result # "none" \/ left
=============================================================================
