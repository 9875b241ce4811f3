---------------------------- MODULE ForkChannel -----------------------------
(***************************************************************************)
(* child_process_ipc.go: the channel between a process and the child it    *)
(* forked.  Each end has a VM thread, a goroutine that writes what send()  *)
(* queued, and one that reads; between them is a socket pair that holds    *)
(* PipeCap messages.  A message is two units long, so that a read may tear *)
(* it or join it to the next; the messages of an end are numbered.  send() *)
(* is called without a callback.                                           *)
(***************************************************************************)
EXTENDS Integers, Sequences

CONSTANTS
  Parent, Child,  \* the two ends
  Budgets,        \* bound: how many messages send() accepts at each end, and how
                  \* many other calls and kills there are
  WritesCap,      \* the capacity of the writes channel (1024 in the code)
  PipeCap         \* the capacity of the socket, in messages

ASSUME ForkAssumption ==
  /\ Parent # Child
  /\ Budgets \subseteq [sends : [{Parent, Child} -> Nat], calls : Nat]
  /\ {WritesCap, PipeCap} \subseteq Nat \ {0}

Ends == {Parent, Child}
Peer(e) == IF e = Parent THEN Child ELSE Parent

VARIABLES
  chan,      \* per end: the ipcChannel, its goroutines and its process
  wire,      \* per end: the units on their way to it
  budget,    \* how many messages send() may still accept
  forkCalls  \* how many other calls and kills are left

kvars == <<chan, wire, budget, forkCalls>>

\* setupIPCChannel: the parent holds the loop and reads at once.  listening is
\* what listens for 'message': nothing, a listener, or one that once() added.
\* byOnce, heard, told and cut are the observer's: a once() listener was the
\* last to take itself off, the messages emitted, how many they were when
\* 'disconnect' was, and whether this end called disconnect().
NewEnd(e) ==
  [connected |-> TRUE, started |-> e = Parent, explicit |-> FALSE, refed |-> e = Parent,
   ops |-> IF e = Parent THEN 1 ELSE 0, listening |-> "none", byOnce |-> FALSE, queue |-> <<>>,
   blocked |-> 0, open |-> TRUE, reads |-> TRUE, pending |-> <<>>,
   ticks |-> <<>>, left |-> "no", sent |-> 0, heard |-> <<>>, told |-> -1,
   cut |-> FALSE]

KInit ==
  /\ chan = [e \in Ends |-> NewEnd(e)]
  /\ wire = [e \in Ends |-> <<>>]
  /\ \E b \in Budgets : budget = b.sends /\ forkCalls = b.calls

Units(m) == << [m |-> m, last |-> FALSE], [m |-> m, last |-> TRUE] >>
HasListener(s) == s.listening # "none"
Queued(s, t) == [s EXCEPT !.ticks = Append(@, t)]
\* The VM thread runs unless the process is gone or send() blocks it.
Runs(e) == chan[e].left = "no" /\ chan[e].blocked = 0
Gone(e) == chan[e].left # "no" \/ ~chan[e].open
Becomes(e, s) == chan' = [chan EXCEPT ![e] = s]
Calls(e, s) == Runs(e) /\ forkCalls > 0 /\ forkCalls' = forkCalls - 1 /\ Becomes(e, s)
               /\ UNCHANGED <<wire, budget>>

-----------------------------------------------------------------------------
(* keepAlive; release() is what shutdown does to it *)

Hold(s) ==
  IF s.refed \/ ~s.connected THEN s ELSE [s EXCEPT !.refed = TRUE, !.ops = @ + 1]
Unhold(s) ==
  IF s.refed /\ s.connected THEN [s EXCEPT !.refed = FALSE, !.ops = @ - 1] ELSE s
StartReader(s) == [s EXCEPT !.started = TRUE]

\* Mutant: shutdown leaves the hold as it is.
Shutdown_Holds(s) ==
  IF ~s.connected THEN s
  ELSE Queued([s EXCEPT !.connected = FALSE], [op |-> "disconnect"])
Shutdown(s) ==
  IF ~s.connected THEN s
  ELSE Queued([Unhold(s) EXCEPT !.connected = FALSE], [op |-> "disconnect"])

\* The hold follows the listeners until ref() or unref() was called.
UpdateRef(s) ==
  CASE s.explicit \/ ~s.connected -> s
    [] ~(s.explicit \/ ~s.connected) /\ HasListener(s) -> StartReader(Hold(s))
    [] OTHER -> Unhold(s)

-----------------------------------------------------------------------------
(* the VM thread *)

\* send(): the operation is begun, then the write waits for room.  The head
\* of queue is the write in the goroutine's hands, behind it is the channel.
Send(e) ==
  /\ Runs(e) /\ chan[e].connected /\ budget[e] > 0
  /\ LET m == chan[e].sent + 1
         begun == [chan[e] EXCEPT !.sent = m, !.ops = @ + 1]
     IN  Becomes(e, IF Len(begun.queue) <= WritesCap THEN [begun EXCEPT !.queue = Append(@, m)]
                    ELSE [begun EXCEPT !.blocked = m])
  /\ budget' = [budget EXCEPT ![e] = @ - 1]
  /\ UNCHANGED <<wire, forkCalls>>
SendRefused(e) == ~chan[e].connected /\ Calls(e, Queued(chan[e], [op |-> "error"]))

\* on, once and off; the child's are wrapped, and look at the hold afterwards.
Listen(e) ==
  \E how \in {"none", "on", "once"} \ {chan[e].listening} :
    LET s == [chan[e] EXCEPT !.listening = how, !.byOnce = FALSE]
    IN  Calls(e, IF e = Child THEN UpdateRef(s) ELSE s)
Ref(e) == Calls(e, StartReader(Hold([chan[e] EXCEPT !.explicit = TRUE])))
Unref(e) == Calls(e, Unhold([chan[e] EXCEPT !.explicit = TRUE]))
Disconnect(e) ==
  Calls(e, IF chan[e].connected THEN [Shutdown(chan[e]) EXCEPT !.cut = TRUE]
           ELSE Queued(chan[e], [op |-> "error"]))

\* A once() listener takes itself off with the emitter's own removeListener, so
\* that nothing looks at the hold.
OnceOff(s, whole) ==
  IF s.listening = "once" /\ whole > 0 THEN [s EXCEPT !.listening = "none", !.byOnce = TRUE] ELSE s

\* Mutant: what a read leaves of a message is dropped.
OnData_Tears(s, units) ==
  LET buffer == s.pending \o units
      whole == Len(buffer) \div 2
  IN  IF ~s.connected THEN s
      ELSE [OnceOff(s, whole) EXCEPT !.heard = @ \o [k \in 1..whole |-> buffer[2 * k].m], !.pending = <<>>]
\* onData: whatever is complete is emitted, whether or not anyone listens.
OnData(s, units) ==
  LET buffer == s.pending \o units
      whole == Len(buffer) \div 2
  IN  IF ~s.connected THEN s
      ELSE [OnceOff(s, whole) EXCEPT !.heard = @ \o [k \in 1..whole |-> buffer[2 * k].m],
                     !.pending = SubSeq(buffer, 2 * whole + 1, Len(buffer))]

Perform(s, t) ==
  CASE t.op = "data" -> OnData(s, t.units)
    [] t.op = "eof" -> Shutdown(s)
    [] t.op = "disconnect" -> [s EXCEPT !.told = Len(s.heard)]
    [] t.op = "error" -> s
RunTick(e) ==
  /\ Runs(e) /\ chan[e].ticks # <<>>
  /\ Becomes(e, Perform([chan[e] EXCEPT !.ticks = Tail(@)], Head(chan[e].ticks)))
  /\ UNCHANGED <<wire, budget, forkCalls>>
\* A listener that disconnects: the rest of its chunk is still emitted.
ListenerDisconnects(e) ==
  /\ chan[e].ticks # <<>> /\ Head(chan[e].ticks).op = "data" /\ chan[e].connected
  /\ HasListener(chan[e])
  /\ LET ran == Perform([chan[e] EXCEPT !.ticks = Tail(@)], Head(chan[e].ticks))
     IN  /\ Len(ran.heard) > Len(chan[e].heard)
         /\ Calls(e, [Shutdown(ran) EXCEPT !.cut = TRUE])

\* The loop leaves when nothing is queued and no operation is held; a kill,
\* or process.exit, does not wait for that.
Exit(e) ==
  /\ Runs(e) /\ chan[e].ticks = <<>> /\ chan[e].ops = 0
  /\ Becomes(e, [chan[e] EXCEPT !.left = "exited"])
  /\ UNCHANGED <<wire, budget, forkCalls>>
Kill(e) ==
  /\ chan[e].left = "no" /\ forkCalls > 0
  /\ forkCalls' = forkCalls - 1
  /\ Becomes(e, [chan[e] EXCEPT !.left = "killed"])
  /\ UNCHANGED <<wire, budget>>

-----------------------------------------------------------------------------
(* the goroutines *)

Writer(e) == chan[e].left = "no" /\ chan[e].open
\* A write is over: its operation ends, and a send() that waits for room has
\* it.
Written(s) ==
  LET rest == [s EXCEPT !.queue = Tail(@), !.ops = @ - 1]
  IN  IF s.blocked = 0 THEN rest
      ELSE [rest EXCEPT !.queue = Append(@, s.blocked), !.blocked = 0]
Room(e) == Len(wire[e]) <= 2 * (PipeCap - 1)
WriterWrites(e) ==
  /\ Writer(e) /\ chan[e].queue # <<>> /\ ~Gone(Peer(e)) /\ Room(Peer(e))
  /\ wire' = [wire EXCEPT ![Peer(e)] = @ \o Units(Head(chan[e].queue))]
  /\ Becomes(e, Written(chan[e]))
  /\ UNCHANGED <<budget, forkCalls>>
WriterFails(e) ==
  /\ Writer(e) /\ chan[e].queue # <<>> /\ Gone(Peer(e))
  /\ Becomes(e, Written(chan[e]))
  /\ UNCHANGED <<wire, budget, forkCalls>>

\* writes is closed and drained.
WriterCloses(e) ==
  /\ Writer(e) /\ ~chan[e].connected /\ chan[e].queue = <<>>
  /\ Becomes(e, [chan[e] EXCEPT !.open = FALSE])
  /\ UNCHANGED <<wire, budget, forkCalls>>

\* Mutant: a Read needs the VM thread, which send() may block.
Reader_OnVM(e) == Runs(e) /\ chan[e].started /\ chan[e].reads
Reader(e) == chan[e].left = "no" /\ chan[e].started /\ chan[e].reads
\* A Read returns one unit or all there are.
ReaderReads(e) ==
  /\ Reader(e) /\ chan[e].open /\ wire[e] # <<>>
  /\ \E n \in {1, Len(wire[e])} :
       /\ Becomes(e, Queued(chan[e], [op |-> "data", units |-> SubSeq(wire[e], 1, n)]))
       /\ wire' = [wire EXCEPT ![e] = SubSeq(@, n + 1, Len(@))]
  /\ UNCHANGED <<budget, forkCalls>>
ReaderEnds(e) ==
  /\ Reader(e) /\ (~chan[e].open \/ (wire[e] = <<>> /\ Gone(Peer(e))))
  /\ Becomes(e, Queued([chan[e] EXCEPT !.reads = FALSE], [op |-> "eof"]))
  /\ UNCHANGED <<wire, budget, forkCalls>>

KWorks == \E e \in Ends :
  \/ RunTick(e) \/ WriterWrites(e) \/ WriterFails(e) \/ WriterCloses(e)
  \/ ReaderReads(e) \/ ReaderEnds(e)
KNext ==
  \/ KWorks
  \/ \E e \in Ends :
       \/ Send(e) \/ SendRefused(e) \/ Listen(e) \/ Ref(e) \/ Unref(e) \/ Disconnect(e)
       \/ ListenerDisconnects(e) \/ Exit(e) \/ Kill(e)

\* KWorks is not enabled.
EndRests(e) ==
  LET s == chan[e] IN
  \/ s.left # "no"
  \/ /\ s.ticks = <<>> \/ s.blocked # 0
     /\ s.open => IF s.queue = <<>> THEN s.connected ELSE ~Gone(Peer(e)) /\ ~Room(Peer(e))
     /\ ~(Reader(e) /\ (~s.open \/ wire[e] # <<>> \/ Gone(Peer(e))))
KRests == \A e \in Ends : EndRests(e)

-----------------------------------------------------------------------------
\* Messages are emitted in the order they were sent, none torn or twice, and
\* none after 'disconnect'.
InSendOrder ==
  \A e \in Ends :
    /\ \A i \in DOMAIN chan[e].heard : chan[e].heard[i] = i
    /\ chan[e].told # -1 => chan[e].told = Len(chan[e].heard)

\* An end that is told 'disconnect' because its peer disconnected or left in
\* good order has emitted everything the peer's send() accepted.
NoneCutOff ==
  \A e \in Ends :
    chan[e].told # -1 /\ ~chan[e].cut /\ chan[Peer(e)].left # "killed" =>
      Len(chan[e].heard) = chan[Peer(e)].sent

\* The operations held are one for the channel while it is ref'd and
\* connected, and one for every write that is not done.
ForkOps ==
  \A e \in Ends :
    LET s == chan[e] IN
    s.ops = (IF s.refed THEN 1 ELSE 0) + Len(s.queue) + (IF s.blocked = 0 THEN 0 ELSE 1)
\* A ref'd channel is connected, and as long as neither ref() nor unref() was
\* called the parent's is ref'd, and the child's while it listens or has done
\* so until a once() listener took itself off.
ForkHold ==
  \A e \in Ends :
    LET s == chan[e] IN
    /\ s.refed => s.connected
    /\ s.connected /\ ~s.explicit => (s.refed <=> e = Parent \/ HasListener(s) \/ s.byOnce)
\* The child's channel is held only while it listens (violated: a once()
\* listener that took itself off leaves it held).
HeldByListeners ==
  LET s == chan[Child] IN s.connected /\ ~s.explicit => (s.refed <=> HasListener(s))

\* send() blocks the VM thread while the peer does not read; once the peer's
\* reader is started it returns, even if the peer is blocked in send() too.
SendReturned ==
  \A e \in Ends : chan[Peer(e)].started => chan[e].blocked = 0 \/ chan[e].left # "no"
\* What was sent is emitted in the end, by a peer whose reader was started
\* and that stays.
Unheard(e) == chan[e].cut \/ chan[e].left # "no" \/ chan[Peer(e)].left = "killed"
SentHeard ==
  \A e \in Ends :
    Len(chan[e].heard) >= chan[Peer(e)].sent
    \/ Unheard(e) \/ ~chan[e].started \/ chan[Peer(e)].blocked # 0 \/ ~Runs(e)

\* A child that listens hears what was sent to it (violated: after unref() a
\* listener does not start the reader).
ListenerHears ==
  []<>(\/ Len(chan[Child].heard) >= chan[Parent].sent
       \/ Unheard(Child) \/ ~HasListener(chan[Child]) \/ ~Runs(Child) \/ ~Runs(Parent))
=============================================================================
