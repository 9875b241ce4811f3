----------------------------- MODULE NetHandle ------------------------------
(***************************************************************************)
(* One netHandle of net.go, the socket under net.Socket and tls.TLSSocket: *)
(* the VM thread, which calls the handle's methods and runs the macrotasks *)
(* the handle queues; the dialing, reading, writing and handshaking        *)
(* goroutines; the connection and its peer.  A step of a goroutine is a    *)
(* stretch of code that holds h.mu, or a blocking call outside it.         *)
(*                                                                         *)
(* The peer's bytes are units numbered in the order they are sent; write   *)
(* requests are numbered in the order JavaScript makes them.               *)
(***************************************************************************)
EXTENDS Naturals, Sequences, FiniteSets

CONSTANTS Modes,      \* of "client", "accepted" and "upgrade"
          MaxIn,      \* by mode: units the peer may send,
          MaxWrites,  \* write and shutdown requests,
          MaxCloses   \* and calls of close()

ASSUME NetAssumption == /\ Modes \subseteq {"client", "accepted", "upgrade"}
                        /\ MaxIn \in [Modes -> Nat]
                        /\ MaxWrites \in [Modes -> Nat]
                        /\ MaxCloses \in [Modes -> Nat]

VARIABLES
  mode,                  \* how this handle is used: connect()ed; from a server's
                         \* accept; accepted and perhaps handed to startTLS
  vm,                    \* "js": free to run JavaScript or a macrotask; inside
                         \* close() ("closing", then "released"), inside
                         \* startTLS() ("upgrading"); "left": the loop is over
  saw,                   \* the conn close() is about to Close was there
  macroQ,                \* what the handle has queued for the VM thread
  conn, open,            \* h.conn: "nil", "raw" or "tls"; not Closed locally
  ready, reading, inRead, closed, started, writeQ, prefix,
  refed, active, opHeld, \* netHandle's fields
  dial, rd, wr, hs,      \* the goroutines
  sent, taken, peer,     \* the wire: units sent, units read off, peer's state
  replay,                \* prefixConn.prefix
  shook,                 \* units the TLS handshake consumed
  seen,                  \* what onread was called with
  out,                   \* requests written, each with the conn it went to
  asked, called,         \* write requests made; times each one's cb was called
  closes, closeCbs       \* calls of close(cb), and of their callbacks

handle == <<conn, open, ready, reading, inRead, closed, started, writeQ, prefix>>
hold == <<refed, active, opHeld>>
wire == <<sent, taken, peer, replay, shook>>
js == <<seen, out, asked, called, closes, closeCbs>>
vars == <<mode, vm, saw, macroQ, handle, hold, dial, rd, wr, hs, wire, js>>

Task(k, n) == [kind |-> k, n |-> n]
Idle(pc) == [pc |-> pc, what |-> "none", n |-> 0, conn |-> "nil"]

Accepted == mode # "client"

Init == /\ mode \in Modes
        /\ vm = "js" /\ saw = FALSE /\ macroQ = <<>>
        /\ conn = (IF Accepted THEN "raw" ELSE "nil")
        /\ open = Accepted /\ ready = Accepted /\ active = Accepted
        /\ started = Accepted /\ opHeld = Accepted
        /\ reading = FALSE /\ inRead = FALSE /\ closed = FALSE
        /\ writeQ = <<>> /\ prefix = <<>> /\ refed = TRUE
        /\ dial = (IF Accepted THEN "done" ELSE "none")
        /\ rd = Idle(IF Accepted THEN "top" ELSE "off")
        /\ wr = Idle(IF Accepted THEN "top" ELSE "off")
        /\ hs = "none"
        /\ sent = 0 /\ taken = 0 /\ peer = "open" /\ replay = <<>> /\ shook = <<>>
        /\ seen = <<>> /\ out = <<>> /\ asked = 0
        /\ called = [w \in 1..MaxWrites[mode] |-> 0]
        /\ closes = 0 /\ closeCbs = 0

Alive == vm # "left"
Post(task) == macroQ' = Append(macroQ, task)

\* Mutant: unref() is forgotten.
UpdateOp_IgnoresRef == opHeld' = (active' /\ ~closed')

\* updateOpLocked: at most one external op, held while dialing or open, not
\* closed and ref'd.
UpdateOp == opHeld' = (refed' /\ active' /\ ~closed')

(***************************************************************************)
(* Connecting                                                              *)
(***************************************************************************)

\* connect(): the op is taken before the dialing goroutine starts.
Connect == /\ vm = "js" /\ dial = "none" /\ ~closed
           /\ active' = TRUE
           /\ UNCHANGED <<refed, closed>>
           /\ UpdateOp
           /\ dial' = "dialing"
           /\ UNCHANGED <<mode, vm, saw, macroQ, conn, open, ready, reading, inRead, started,
                          writeQ, prefix, rd, wr, hs, wire, js>>

DialFails == /\ Alive /\ dial = "dialing"
             /\ dial' = "done"
             /\ Post(Task("connectErr", 0))
             /\ UNCHANGED <<mode, vm, saw, handle, hold, rd, wr, hs, wire, js>>

\* The first critical section after a successful Dial: a handle closed in the
\* meantime never sees the conn.
DialSucceeds == /\ Alive /\ dial = "dialing"
                /\ dial' = IF closed THEN "done" ELSE "checked"
                /\ UNCHANGED <<mode, vm, saw, macroQ, handle, hold, rd, wr, hs, wire, js>>

\* attach(), a critical section of its own: close() may have run in between.
Attach == /\ Alive /\ dial = "checked"
          /\ conn' = "raw" /\ open' = TRUE /\ ready' = TRUE /\ active' = TRUE
          /\ UNCHANGED <<refed, closed>>
          /\ UpdateOp
          /\ started' = TRUE
          /\ rd' = [rd EXCEPT !.pc = "top"]
          /\ wr' = [wr EXCEPT !.pc = "top"]
          /\ dial' = "attached"
          /\ UNCHANGED <<mode, vm, saw, macroQ, reading, inRead, writeQ, prefix, hs, wire, js>>

DialReports == /\ Alive /\ dial = "attached"
               /\ dial' = "done"
               /\ Post(Task("connected", 0))
               /\ UNCHANGED <<mode, vm, saw, handle, hold, rd, wr, hs, wire, js>>

(***************************************************************************)
(* The methods JavaScript calls                                            *)
(***************************************************************************)

ReadStart == /\ vm = "js" /\ ~reading
             /\ reading' = TRUE
             /\ UNCHANGED <<mode, vm, saw, macroQ, conn, open, ready, inRead, closed, started, writeQ,
                            prefix, hold, dial, rd, wr, hs, wire, js>>

ReadStop == /\ vm = "js" /\ reading
            /\ reading' = FALSE
            /\ UNCHANGED <<mode, vm, saw, macroQ, conn, open, ready, inRead, closed, started, writeQ,
                           prefix, hold, dial, rd, wr, hs, wire, js>>

\* write() and shutdown() through enqueue().  net.Socket holds writes back
\* until it is connected.
Enqueue == /\ vm = "js" /\ asked < MaxWrites[mode] /\ started
           /\ asked' = asked + 1
           /\ IF closed
                THEN Post(Task("wrote", asked + 1)) /\ UNCHANGED writeQ
                ELSE writeQ' = Append(writeQ, asked + 1) /\ UNCHANGED macroQ
           /\ UNCHANGED <<mode, vm, saw, conn, open, ready, reading, inRead, closed, started, prefix,
                          hold, dial, rd, wr, hs, wire, seen, out, called, closes, closeCbs>>

SetRef(r) == /\ vm = "js" /\ refed # r
             /\ refed' = r
             /\ UNCHANGED <<active, closed>>
             /\ UpdateOp
             /\ UNCHANGED <<mode, vm, saw, macroQ, conn, open, ready, reading, inRead, started, writeQ,
                            prefix, dial, rd, wr, hs, wire, js>>

\* Mutant: a second close() returns early and drops its callback.
Close_EarlyReturn ==
  /\ vm = "js" /\ closes < MaxCloses[mode]
  /\ closes' = closes + 1
  /\ closed' = TRUE
  /\ saw' = (IF closed THEN saw ELSE conn # "nil")
  /\ vm' = (IF closed THEN "js" ELSE "closing")
  /\ UNCHANGED <<mode, macroQ, conn, open, ready, reading, inRead, started, writeQ, prefix, hold,
                 dial, rd, wr, hs, wire, seen, out, asked, called, closeCbs>>

\* close(): the flag first, under the lock.
Close == /\ vm = "js" /\ closes < MaxCloses[mode]
         /\ closes' = closes + 1
         /\ IF closed
              THEN Post(Task("close", 0)) /\ UNCHANGED <<vm, saw, closed>>
              ELSE /\ closed' = TRUE
                   /\ saw' = (conn # "nil")
                   /\ vm' = "closing"
                   /\ UNCHANGED macroQ
         /\ UNCHANGED <<mode, conn, open, ready, reading, inRead, started, writeQ, prefix, hold,
                        dial, rd, wr, hs, wire, seen, out, asked, called, closeCbs>>

\* Then conn.Close() on the conn it saw, and the callback is queued ...
CloseConn == /\ vm = "closing"
             /\ open' = (open /\ ~saw)
             /\ Post(Task("close", 0))
             /\ vm' = "released"
             /\ UNCHANGED <<mode, saw, conn, ready, reading, inRead, closed, started, writeQ, prefix,
                            hold, dial, rd, wr, hs, wire, js>>

\* ... and the op is released last.
CloseRelease == /\ vm = "released"
                /\ vm' = "js"
                /\ UNCHANGED <<refed, active, closed>>
                /\ UpdateOp
                /\ UNCHANGED <<mode, saw, macroQ, conn, open, ready, reading, inRead, started, writeQ,
                               prefix, dial, rd, wr, hs, wire, js>>

(***************************************************************************)
(* readLoop                                                                *)
(***************************************************************************)

ReaderQuits == /\ Alive /\ rd.pc = "top" /\ closed
               /\ rd' = [rd EXCEPT !.pc = "done"]
               /\ UNCHANGED <<mode, vm, saw, macroQ, handle, hold, dial, wr, hs, wire, js>>

ReadBegins == /\ Alive /\ rd.pc = "top" /\ ~closed /\ reading /\ ready
              /\ inRead' = TRUE
              /\ rd' = [rd EXCEPT !.pc = "read", !.conn = conn]
              /\ UNCHANGED <<mode, vm, saw, macroQ, conn, open, ready, reading, closed, started,
                             writeQ, prefix, hold, dial, wr, hs, wire, js>>

\* The next unit of a conn: what prefixConn replays, then the wire.
Available(c) == (c = "tls" /\ replay # <<>>) \/ taken < sent
NextUnit(c) == IF c = "tls" /\ replay # <<>> THEN Head(replay) ELSE taken + 1

Take(c) == IF c = "tls" /\ replay # <<>>
             THEN replay' = Tail(replay) /\ UNCHANGED taken
             ELSE taken' = taken + 1 /\ UNCHANGED replay

ReadReturnsData ==
  /\ Alive /\ rd.pc = "read" /\ open /\ Available(rd.conn)
  /\ Take(rd.conn)
  /\ rd' = [rd EXCEPT !.pc = "got", !.what = "data", !.n = NextUnit(rd.conn)]
  /\ UNCHANGED <<mode, vm, saw, macroQ, handle, hold, dial, wr, hs, sent, peer, shook, js>>

ReadReturnsEOF ==
  /\ Alive /\ rd.pc = "read" /\ open /\ peer = "eof" /\ ~Available(rd.conn)
  /\ rd' = [rd EXCEPT !.pc = "got", !.what = "eof", !.n = 0]
  /\ UNCHANGED <<mode, vm, saw, macroQ, handle, hold, dial, wr, hs, wire, js>>

\* A reset, the conn closed underneath, or startTLS's past read deadline.
ReadFails ==
  /\ Alive /\ rd.pc = "read" /\ (peer = "reset" \/ ~open \/ vm = "upgrading")
  /\ rd' = [rd EXCEPT !.pc = "got", !.what = "err", !.n = 0]
  /\ UNCHANGED <<mode, vm, saw, macroQ, handle, hold, dial, wr, hs, wire, js>>

\* Mutant: what a Read got is dropped if readStop() came in the meantime.
ReadChecks_DropsPaused ==
  /\ Alive /\ rd.pc = "got"
  /\ inRead' = FALSE
  /\ rd' = [rd EXCEPT !.pc = IF closed THEN "done" ELSE IF ~ready \/ ~reading THEN "top" ELSE "post"]
  /\ UNCHANGED <<mode, vm, saw, macroQ, conn, open, ready, reading, closed, started, writeQ, prefix,
                 hold, dial, wr, hs, wire, js>>

\* The critical section after Read: drop it all if closed, keep the bytes for
\* the TLS layer if startTLS is taking over, else go and queue the result.
ReadChecks ==
  /\ Alive /\ rd.pc = "got"
  /\ inRead' = FALSE
  /\ prefix' = IF ~ready /\ rd.what = "data" THEN Append(prefix, rd.n) ELSE prefix
  /\ rd' = [rd EXCEPT !.pc = IF closed THEN "done" ELSE IF ~ready THEN "top" ELSE "post"]
  /\ UNCHANGED <<mode, vm, saw, macroQ, conn, open, ready, reading, closed, started, writeQ,
                 hold, dial, wr, hs, wire, js>>

\* Outside the lock.  Data goes round the loop again; EOF and errors end it.
ReadPosts ==
  /\ Alive /\ rd.pc = "post"
  /\ Post(Task(IF rd.what = "data" THEN rd.conn ELSE rd.what, rd.n))
  /\ rd' = [rd EXCEPT !.pc = IF rd.what = "data" THEN "top" ELSE "done"]
  /\ UNCHANGED <<mode, vm, saw, handle, hold, dial, wr, hs, wire, js>>

(***************************************************************************)
(* writeLoop                                                               *)
(***************************************************************************)
\* Mutant: the request stays queued while it is written.
WriteTakes_Peek == /\ Alive /\ wr.pc = "top" /\ ~closed /\ ready /\ writeQ # <<>>
                   /\ wr' = [pc |-> "write", what |-> "none", n |-> Head(writeQ), conn |-> conn]
                   /\ UNCHANGED <<mode, vm, saw, macroQ, handle, hold, dial, rd, hs, wire, js>>

WriteTakes == /\ Alive /\ wr.pc = "top" /\ ~closed /\ ready /\ writeQ # <<>>
              /\ wr' = [pc |-> "write", what |-> "none", n |-> Head(writeQ), conn |-> conn]
              /\ writeQ' = Tail(writeQ)
              /\ UNCHANGED <<mode, vm, saw, macroQ, conn, open, ready, reading, inRead, closed,
                             started, prefix, hold, dial, rd, hs, wire, js>>

WriteSucceeds == /\ Alive /\ wr.pc = "write" /\ open /\ peer # "reset"
                 /\ out' = Append(out, [n |-> wr.n, conn |-> wr.conn])
                 /\ wr' = [wr EXCEPT !.pc = "wrote"]
                 /\ UNCHANGED <<mode, vm, saw, macroQ, handle, hold, dial, rd, hs, wire,
                                seen, asked, called, closes, closeCbs>>

WriteFails == /\ Alive /\ wr.pc = "write" /\ (~open \/ peer = "reset")
              /\ wr' = [wr EXCEPT !.pc = "wrote", !.what = "err"]
              /\ UNCHANGED <<mode, vm, saw, macroQ, handle, hold, dial, rd, hs, wire, js>>

\* Mutant: the error of a conn that close() closed is reported.
WriteChecks_NoClosedCheck ==
  /\ Alive /\ wr.pc = "wrote"
  /\ wr' = [wr EXCEPT !.pc = "report"]
  /\ UNCHANGED <<mode, vm, saw, macroQ, handle, hold, dial, rd, hs, wire, js>>

\* err != nil && !h.isClosed(): our own close() is not the writer's error.
WriteChecks == /\ Alive /\ wr.pc = "wrote"
               /\ wr' = [wr EXCEPT !.pc = "report", !.what = IF closed THEN "none" ELSE wr.what]
               /\ UNCHANGED <<mode, vm, saw, macroQ, handle, hold, dial, rd, hs, wire, js>>

WriteReports == /\ Alive /\ wr.pc = "report"
                /\ Post(Task(IF wr.what = "err" THEN "writeErr" ELSE "wrote", wr.n))
                /\ wr' = [wr EXCEPT !.pc = "top"]
                /\ UNCHANGED <<mode, vm, saw, handle, hold, dial, rd, hs, wire, js>>

\* Mutant: the writer of a closed handle just ends.
WriterFlushes_DropsQueue ==
  /\ Alive /\ wr.pc = "top" /\ closed
  /\ wr' = [wr EXCEPT !.pc = "done"]
  /\ UNCHANGED <<mode, vm, saw, macroQ, handle, hold, dial, rd, hs, wire, js>>

\* Closed: every request still queued is answered with cb(null), one by one.
WriterFlushes == /\ Alive /\ wr.pc = "top" /\ closed
                 /\ IF writeQ = <<>>
                      THEN wr' = [wr EXCEPT !.pc = "done"] /\ UNCHANGED <<writeQ, macroQ>>
                      ELSE /\ Post(Task("wrote", Head(writeQ)))
                           /\ writeQ' = Tail(writeQ)
                           /\ UNCHANGED wr
                 /\ UNCHANGED <<mode, vm, saw, conn, open, ready, reading, inRead, closed, started,
                                prefix, hold, dial, rd, hs, wire, js>>

(***************************************************************************)
(* startTLS and the handshake                                              *)
(***************************************************************************)

\* The conn becomes a *tls.Conn over what was read and not yet delivered.
Swap(back) == /\ replay' = back \o prefix
              /\ prefix' = <<>>
              /\ conn' = "tls"
              /\ hs' = "shake"

\* The last k units JavaScript got may still sit in the plain socket's
\* buffer; TLSSocket hands them back as the prefix option.
StartTLS(k) ==
  /\ vm = "js" /\ mode = "upgrade" /\ hs = "none" /\ k \in 0..Len(seen)
  /\ \A i \in 1..Len(seen) : seen[i] # 0
  /\ IF closed \/ conn = "nil"
       THEN /\ Post(Task("tlsErr", 0))
            /\ hs' = "done"
            /\ k = 0
            /\ UNCHANGED <<vm, conn, ready, prefix, replay, seen>>
       ELSE /\ ready' = FALSE
            /\ seen' = SubSeq(seen, 1, Len(seen) - k)
            /\ IF inRead
                 THEN /\ vm' = "upgrading"
                      /\ replay' = SubSeq(seen, Len(seen) - k + 1, Len(seen))
                      /\ UNCHANGED <<conn, prefix, hs>>
                 ELSE Swap(SubSeq(seen, Len(seen) - k + 1, Len(seen))) /\ UNCHANGED vm
            /\ UNCHANGED macroQ
  /\ UNCHANGED <<mode, saw, open, reading, inRead, closed, started, writeQ, hold, dial, rd, wr,
                 sent, taken, peer, shook, out, asked, called, closes, closeCbs>>

\* The VM thread waits on the condition until the interrupted Read is over.
Upgrade == /\ vm = "upgrading" /\ ~inRead
           /\ Swap(replay)
           /\ vm' = "js"
           /\ UNCHANGED <<mode, saw, macroQ, open, ready, reading, inRead, closed, started, writeQ,
                          hold, dial, rd, wr, sent, taken, peer, shook, js>>

\* The handshake takes one unit from the peer.
Handshakes == /\ Alive /\ hs = "shake" /\ shook = <<>> /\ open /\ Available("tls")
              /\ Take("tls")
              /\ shook' = <<NextUnit("tls")>>
              /\ UNCHANGED <<mode, vm, saw, macroQ, handle, hold, dial, rd, wr, hs, sent, peer, js>>

HandshakeFails == /\ Alive /\ hs = "shake"
                  /\ hs' = "done"
                  /\ Post(Task("tlsErr", 0))
                  /\ UNCHANGED <<mode, vm, saw, handle, hold, dial, rd, wr, wire, js>>

HandshakeReady == /\ Alive /\ hs = "shake" /\ shook # <<>>
                  /\ hs' = "ready"
                  /\ ready' = TRUE
                  /\ UNCHANGED <<mode, vm, saw, macroQ, conn, open, reading, inRead, closed, started,
                                 writeQ, prefix, hold, dial, rd, wr, wire, js>>

HandshakeReports == /\ Alive /\ hs = "ready"
                    /\ hs' = "done"
                    /\ Post(Task("secure", 0))
                    /\ UNCHANGED <<mode, vm, saw, handle, hold, dial, rd, wr, wire, js>>

(***************************************************************************)
(* The VM thread runs what the handle queued; the peer; the loop's exit.   *)
(***************************************************************************)

\* Every onread closure looks at isClosed() first.  0 stands for EOF.
RunTask ==
  /\ vm = "js" /\ macroQ # <<>>
  /\ macroQ' = Tail(macroQ)
  /\ LET task == Head(macroQ) IN
       /\ seen' = IF task.kind \in {"raw", "tls", "eof"} /\ ~closed
                    THEN Append(seen, task.n) ELSE seen
       /\ called' = IF task.kind \in {"wrote", "writeErr"}
                      THEN [called EXCEPT ![task.n] = @ + 1] ELSE called
       /\ closeCbs' = IF task.kind = "close" THEN closeCbs + 1 ELSE closeCbs
  /\ UNCHANGED <<mode, vm, saw, handle, hold, dial, rd, wr, hs, wire, out, asked, closes>>

PeerSends == /\ Alive /\ conn # "nil" /\ peer = "open" /\ sent < MaxIn[mode]
             /\ sent' = sent + 1
             /\ UNCHANGED <<mode, vm, saw, macroQ, handle, hold, dial, rd, wr, hs, taken, peer,
                            replay, shook, js>>

PeerStops(how) == /\ Alive /\ conn # "nil" /\ peer = "open"
                  /\ peer' = how
                  /\ UNCHANGED <<mode, vm, saw, macroQ, handle, hold, dial, rd, wr, hs, sent, taken,
                                 replay, shook, js>>

\* DrainUntilIdle returns: nothing queued, nothing held by this handle.
Leave == /\ vm = "js" /\ macroQ = <<>> /\ ~opHeld
         /\ vm' = "left"
         /\ UNCHANGED <<mode, saw, macroQ, handle, hold, dial, rd, wr, hs, wire, js>>

Next == \/ Connect \/ DialFails \/ DialSucceeds \/ Attach \/ DialReports
        \/ ReadStart \/ ReadStop \/ Enqueue \/ (\E r \in BOOLEAN : SetRef(r))
        \/ Close \/ CloseConn \/ CloseRelease
        \/ ReaderQuits \/ ReadBegins \/ ReadReturnsData \/ ReadReturnsEOF \/ ReadFails
        \/ ReadChecks \/ ReadPosts
        \/ WriteTakes \/ WriteSucceeds \/ WriteFails \/ WriteChecks \/ WriteReports
        \/ WriterFlushes
        \/ (\E k \in 0..MaxIn[mode] : StartTLS(k)) \/ Upgrade
        \/ Handshakes \/ HandshakeFails \/ HandshakeReady \/ HandshakeReports
        \/ RunTask \/ PeerSends \/ (\E how \in {"eof", "reset"} : PeerStops(how)) \/ Leave

\* The Go scheduler runs every goroutine that can run, blocking calls return
\* once they have a reason to, and callbacks return.  Nothing obliges the
\* program or the peer to act, a dial to succeed or a write to go through.
Fairness == /\ WF_vars(CloseConn) /\ WF_vars(CloseRelease) /\ WF_vars(Upgrade)
            /\ WF_vars(RunTask)
            /\ WF_vars(ReadFails) /\ WF_vars(ReadChecks) /\ WF_vars(ReadPosts)
            /\ WF_vars(ReadReturnsData \/ ReadReturnsEOF) /\ WF_vars(ReaderQuits)
            /\ WF_vars(WriteFails) /\ WF_vars(WriteChecks) /\ WF_vars(WriteReports)
            /\ WF_vars(WriterFlushes)

Spec == Init /\ [][Next]_vars /\ Fairness

(***************************************************************************)
(* Properties                                                              *)
(***************************************************************************)

Kinds == {"raw", "tls", "eof", "err", "wrote", "writeErr", "close",
          "connected", "connectErr", "secure", "tlsErr"}
Conns == {"nil", "raw", "tls"}
Thread == [pc : {"off", "top", "read", "got", "post", "write", "wrote", "report", "done"},
           what : {"none", "data", "eof", "err"}, n : Nat, conn : Conns]

Tasks == [kind : Kinds, n : Nat]

FlagsOK == /\ saw \in BOOLEAN /\ open \in BOOLEAN /\ ready \in BOOLEAN /\ reading \in BOOLEAN
           /\ inRead \in BOOLEAN /\ closed \in BOOLEAN /\ started \in BOOLEAN
           /\ refed \in BOOLEAN /\ active \in BOOLEAN /\ opHeld \in BOOLEAN
StatesOK == /\ mode \in Modes
            /\ vm \in {"js", "closing", "released", "upgrading", "left"}
            /\ conn \in Conns
            /\ dial \in {"none", "dialing", "checked", "attached", "done"}
            /\ hs \in {"none", "shake", "ready", "done"}
            /\ peer \in {"open", "eof", "reset"}
ThreadsOK == rd \in Thread /\ wr \in Thread
QueuesOK == /\ writeQ \in Seq(Nat) /\ prefix \in Seq(Nat) /\ replay \in Seq(Nat)
            /\ shook \in Seq(Nat) /\ seen \in Seq(Nat)
            /\ macroQ \in Seq(Tasks)
            /\ out \in Seq([n : Nat, conn : Conns])
CountsOK == /\ sent \in Nat /\ taken \in 0..sent
            /\ asked \in 0..MaxWrites[mode] /\ called \in [1..MaxWrites[mode] -> Nat]
            /\ closes \in 0..MaxCloses[mode] /\ closeCbs \in Nat

TypeOK == StatesOK /\ FlagsOK /\ ThreadsOK /\ QueuesOK /\ CountsOK

\* Whatever order dialing, attaching, ref(), unref() and close() come in, the
\* handle keeps the process alive exactly while it is dialing or open, not
\* closed and ref'd.  Only inside close() may the two disagree.
HoldExact == vm \notin {"closing", "released"} => opHeld = (refed /\ active /\ ~closed)

\* No callback of close() is lost: the process does not leave before it ran.
ClosedBeforeExit == vm = "left" => closeCbs = closes

\* What onread gets is the peer's stream from its first byte, without a gap, a
\* repetition or a swap, and EOF, if it comes, comes last: what was handed over,
\* what is queued and what readLoop has in hand are the units 1, 2, ... as the
\* wire gave them.  An upgraded socket is the subject of Replayed, below.
Inward(q) == {i \in 1..Len(q) : q[i].kind \in {"raw", "tls", "eof"}}
UpTo(q, i) == {k \in Inward(q) : k <= i}
InHand == rd.pc \in {"got", "post"} /\ rd.what \in {"data", "eof"}
Along == Len(seen) + Cardinality(Inward(macroQ)) + (IF InHand THEN 1 ELSE 0)
Unit(i) == IF rd.what = "eof" /\ i = Along THEN 0 ELSE i
InOrder == mode # "upgrade" =>
  /\ \A i \in 1..Len(seen) : seen[i] = i \/ (seen[i] = 0 /\ i = Len(seen))
  /\ ~closed =>
       /\ \A i \in 1..Len(seen) : seen[i] = Unit(i)
       /\ \A i \in Inward(macroQ) : macroQ[i].n = Unit(Len(seen) + Cardinality(UpTo(macroQ, i)))
       /\ InHand => rd.n = Unit(Along)
       /\ taken = Along - (IF rd.what = "eof" THEN 1 ELSE 0)

\* An error reported for a write or a read is the peer's doing: a conn that
\* close() pulls from under a blocked call is never reported as an error.
ErrorsAreThePeers == (\E i \in 1..Len(macroQ) : macroQ[i].kind \in {"err", "writeErr"})
                       => peer = "reset"

\* The callback of a request is called at most once, and only if it was made.
CalledOnce == \A w \in 1..MaxWrites[mode] : called[w] <= (IF w <= asked THEN 1 ELSE 0)

MostWrites == CHOOSE n \in {MaxWrites[m] : m \in Modes} : \A m \in Modes : MaxWrites[m] <= n

\* Once the handle is closed every request's callback is called, whichever of
\* queue, writer and macrotask held it, unless the process leaves first.
Flushed == \A w \in 1..MostWrites :
             (closed /\ w <= asked) ~> (vm = "left" \/ (w \in DOMAIN called /\ called[w] = 1))

\* After startTLS has the conn, readLoop is not in a Read of the raw one
\* (tls.go:336-339).
OneReader == conn = "tls" => ~(inRead /\ rd.conn = "raw")

\* The reading side: one reader of the raw conn at a time, and chunks reach
\* onread in the order of the wire, none twice and none dropped.
Inbound == TypeOK /\ OneReader /\ InOrder

\* The VM thread does not stay blocked in startTLS.
UpgradeReturns == (vm = "upgrading") ~> (vm # "upgrading")

\* tls.go:336-338: whatever a raw Read already got is replayed into the TLS
\* layer, so none of it reaches onread once the conn is a *tls.Conn.
Replayed == [][(seen' # seen /\ conn = "tls" /\ macroQ # <<>> /\ macroQ' = Tail(macroQ))
                 => Head(macroQ).kind # "raw"]_vars

\* Every request is answered in the end, and startTLS, which waits for a
\* blocked Read, returns to JavaScript.
Settles == Flushed /\ UpgradeReturns

-----------------------------------------------------------------------------
\* Small instances.  Two units and two requests are enough for one to be in
\* hand while another waits; an upgrade needs units but no requests, a
\* connect that races close() needs requests but no units.
ByMode(client, accepted, upgrade) ==
  [m \in Modes |-> CASE m = "client" -> client [] m = "accepted" -> accepted
                     [] m = "upgrade" -> upgrade]
MCMaxIn == ByMode(0, 2, 1)
MCMaxWrites == ByMode(2, 0, 0)
MCMaxCloses == ByMode(1, 2, 1)
=============================================================================
