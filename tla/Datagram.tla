------------------------------ MODULE Datagram ------------------------------
(***************************************************************************)
(* A UDP socket: the Socket of dgram_shim.go on the VM thread and the      *)
(* handle of dgram.go with the goroutine that receives.  Calls made before *)
(* the socket is bound wait in a queue; bind, connect and send look their  *)
(* address up first, and lookups answer in any order.  The user listens    *)
(* for 'error'.                                                            *)
(***************************************************************************)
EXTENDS Integers, Sequences

CONSTANTS
  Sends,  \* the calls of send()
  Loads   \* bound: how many of them are made, how many datagrams arrive, how many
          \* receive errors there are, and how many calls of bind, connect,
          \* disconnect, close, ref and unref

ASSUME DatagramAssumption ==
  Loads \subseteq [sends : Nat, dgrams : Nat, failures : Nat, ops : Nat]

VARIABLES
  so,       \* the Socket and its handle
  lookups,  \* dns lookups under way
  recv,     \* the goroutine: [pc, hand]
  net,      \* the datagrams that have arrived at the socket
  dtasks,   \* macrotasks of the goroutine
  heard,    \* observer: the datagrams emitted
  outcome,  \* observer: per send, what became of it
  waited,   \* observer: [queued, ran], the calls put in the queue that was last
            \* in use, and those of them that clearQueue ran
  failures, \* [posted, told]: receive errors that are macrotasks, and 'error' events
  load      \* what is left of Loads

dvars == <<so, lookups, recv, net, dtasks, heard, outcome, waited, failures, load>>

NoQueue == <<<<"undefined">>>>
NoneWaited == [queued |-> <<>>, ran |-> <<>>]
\* fd is h.conn; closes counts 'close' events asked for and emitted, failed
\* and thrown are the observer's: bind failed, a queued call threw.
DInit ==
  /\ so = [bind |-> "unbound", conn |-> "disconnected", queue |-> NoQueue, open |-> TRUE,
           receiving |-> FALSE, refed |-> TRUE, reading |-> FALSE, opHeld |-> FALSE,
           fd |-> FALSE, ticks |-> <<>>, asked |-> 0, closed |-> 0, arrived |-> 0,
           failed |-> FALSE, thrown |-> FALSE]
  /\ lookups = {}
  /\ recv = [pc |-> "none", hand |-> 0]
  /\ net = <<>> /\ dtasks = <<>> /\ heard = <<>>
  /\ outcome = [i \in Sends |-> "none"]
  /\ waited = NoneWaited /\ failures = [posted |-> 0, told |-> 0]
  /\ load \in Loads

DUpdateOp(s) == [s EXCEPT !.opHeld = s.refed /\ s.reading /\ s.open /\ s.fd]
DTick(s, t) == [s EXCEPT !.ticks = Append(@, t)]

\* A call's effect on these four.
State == [so |-> so, lookups |-> lookups, outcome |-> outcome, waited |-> waited]
DBecomes(x) ==
  so' = x.so /\ lookups' = x.lookups /\ outcome' = x.outcome /\ waited' = x.waited
LookUp(x, op) == [x EXCEPT !.lookups = @ \cup {op}]

StartBind(x) == LookUp([x EXCEPT !.so.bind = "binding"], <<"bind">>)
Bound(x) == IF x.so.bind = "unbound" THEN StartBind(x) ELSE x
Enqueue(x, op) ==
  IF x.so.queue = NoQueue
  THEN [x EXCEPT !.so.queue = <<op>>, !.waited = [queued |-> <<op>>, ran |-> <<>>]]
  ELSE [x EXCEPT !.so.queue = Append(@, op), !.waited.queued = Append(@, op)]

\* doSend; the handle's send succeeds or fails at once.
DoSend(x, i, ok) ==
  IF ~x.so.open THEN [x EXCEPT !.outcome[i] = "dropped"]
  ELSE [x EXCEPT !.so = DTick(@, <<IF ok THEN "sent" ELSE "failed", i>>)]
SendNow(x, i, ok) ==
  IF x.so.conn = "connected" THEN DoSend(x, i, ok) ELSE LookUp(x, <<"send", i>>)
DSend(x, i, ok) ==
  LET b == Bound(x) IN IF b.so.bind # "bound" THEN Enqueue(b, <<"send", i>>) ELSE SendNow(b, i, ok)

CloseNow(x) ==
  LET shut == [x.so EXCEPT !.receiving = FALSE, !.open = FALSE, !.reading = @ /\ ~x.so.receiving]
  IN  [x EXCEPT !.so = DTick(DUpdateOp(shut), <<"close">>)]
Close(x) ==
  LET asked == [x EXCEPT !.so.asked = @ + 1]
  IN  IF asked.so.queue # NoQueue THEN Enqueue(asked, <<"close">>) ELSE CloseNow(asked)

\* clearQueue: the calls run in order; one after close() throws, and those
\* behind it are lost.
Ran(x, op) == [x EXCEPT !.waited.ran = Append(@, op)]
Entry(x, op) ==
  CASE x.so.thrown \/ ~x.so.open ->
         [x EXCEPT !.so.thrown = TRUE, !.outcome = IF op[1] = "send" THEN [@ EXCEPT ![op[2]] = "dropped"] ELSE @]
    [] ~(x.so.thrown \/ ~x.so.open) /\ op[1] = "send" -> SendNow(Ran(x, op), op[2], TRUE)
    [] ~(x.so.thrown \/ ~x.so.open) /\ op[1] = "connect" -> LookUp(Ran(x, op), <<"connect">>)
    [] OTHER -> CloseNow(Ran(x, op))
\* Mutant: the queue is emptied from its end.
ClearQueue_FromEnd(x) ==
  LET q == x.so.queue
      after[k \in 0..Len(q)] ==
        IF k = 0 THEN [x EXCEPT !.so.queue = NoQueue] ELSE Entry(after[k - 1], q[Len(q) - k + 1])
  IN  after[Len(q)]
ClearQueue(x) ==
  LET q == x.so.queue
      after[k \in 0..Len(q)] ==
        IF k = 0 THEN [x EXCEPT !.so.queue = NoQueue] ELSE Entry(after[k - 1], q[k])
  IN  after[Len(q)]

\* The handle's bind and startListening, whose 'listening' clears the queue.
Listening(x) ==
  LET l == [x EXCEPT !.so = DUpdateOp([@ EXCEPT !.fd = TRUE, !.reading = TRUE,
                                               !.receiving = TRUE, !.bind = "bound"])]
  IN  IF l.so.queue = NoQueue THEN l ELSE ClearQueue(l)
\* 'error': onListenError gives the queue up.
BindFails(x) ==
  LET lost == {x.so.queue[k][2] : k \in {j \in DOMAIN x.so.queue : x.so.queue[j][1] = "send"}}
  IN  [x EXCEPT !.so.bind = "unbound", !.so.queue = NoQueue, !.so.failed = TRUE,
                !.waited = NoneWaited, !.outcome = [i \in Sends |-> IF i \in lost THEN "dropped" ELSE @[i]]]

\* A call that throws and changes nothing is left out: those of a closed
\* socket whose healthCheck or handle says so.
Spend(what) == load[what] > 0 /\ load' = [load EXCEPT ![what] = @ - 1]
Op == ~so.thrown /\ Spend("ops")
Rest == UNCHANGED <<recv, net, dtasks, heard, failures>>

UserBind == Op /\ so.open /\ so.bind = "unbound" /\ DBecomes(StartBind(State)) /\ Rest
UserSend(i) ==
  /\ so.open /\ ~so.thrown /\ outcome[i] = "none" /\ Spend("sends")
  /\ \E ok \in BOOLEAN : DBecomes(DSend([State EXCEPT !.outcome[i] = "pending"], i, ok))
  /\ Rest
\* connect() has no health check of its own: on a closed socket it throws out
\* of bind() or of the lookup, or, while the bind is under way, is queued.
Connect(x) ==
  LET asked == [x EXCEPT !.so.conn = "connecting"]
      b == Bound(asked)
  IN  CASE ~x.so.open /\ x.so.bind # "binding" -> asked
        [] (x.so.open \/ x.so.bind = "binding") /\ b.so.bind # "bound" -> Enqueue(b, <<"connect">>)
        [] OTHER -> LookUp(b, <<"connect">>)
UserConnect == Op /\ so.conn = "disconnected" /\ DBecomes(Connect(State)) /\ Rest
UserDisconnect ==
  /\ Op /\ so.open /\ so.conn = "connected"
  /\ DBecomes([State EXCEPT !.so.conn = "disconnected"]) /\ Rest
UserClose == Op /\ (so.open \/ so.queue # NoQueue) /\ DBecomes(Close(State)) /\ Rest
UserRef(to) == Op /\ so.open /\ DBecomes([State EXCEPT !.so = DUpdateOp([@ EXCEPT !.refed = to])]) /\ Rest

\* A lookup answers: with an address that works or not.
LookedUp(op) ==
  /\ op \in lookups /\ ~so.thrown
  /\ LET x == [State EXCEPT !.lookups = @ \ {op}] IN
     \E ok \in BOOLEAN :
       CASE op[1] = "bind" ->
              DBecomes(IF ~so.open THEN x ELSE IF ok THEN Listening(x) ELSE BindFails(x))
              /\ recv' = IF so.open /\ ok /\ recv.pc = "none" THEN [recv EXCEPT !.pc = "wait"] ELSE recv
         [] op[1] = "connect" ->
              DBecomes(IF ~so.open THEN x
                      ELSE IF ok THEN [x EXCEPT !.so = DTick([@ EXCEPT !.conn = "connected"], <<"connect">>)]
                      ELSE [x EXCEPT !.so = DTick([@ EXCEPT !.conn = "disconnected"], <<"error">>)])
              /\ UNCHANGED recv
         [] op[1] = "send" ->
              DBecomes(IF ok THEN DoSend(x, op[2], TRUE)
                      ELSE [x EXCEPT !.so = DTick(@, <<"failed", op[2]>>)])
              /\ UNCHANGED recv
  /\ UNCHANGED <<net, dtasks, heard, failures, load>>

NextTick ==
  /\ so.ticks # <<>> /\ ~so.thrown
  /\ LET t == Head(so.ticks)
         x == [State EXCEPT !.so.ticks = Tail(@)]
     IN  DBecomes(CASE t[1] \in {"sent", "failed"} -> [x EXCEPT !.outcome[t[2]] = t[1]]
                   [] t[1] = "close" -> [x EXCEPT !.so.closed = @ + 1]
                   [] OTHER -> x)
  /\ UNCHANGED load /\ Rest

-----------------------------------------------------------------------------
(* recvLoop *)

DatagramArrives ==
  /\ so.fd /\ so.open /\ Spend("dgrams")
  /\ so' = [so EXCEPT !.arrived = @ + 1] /\ net' = Append(net, so.arrived + 1)
  /\ UNCHANGED <<lookups, recv, dtasks, heard, outcome, waited, failures>>
RecvWaits ==
  /\ recv.pc = "wait" /\ (so.reading \/ ~so.open)
  /\ recv' = [recv EXCEPT !.pc = IF so.open THEN "read" ELSE "done"]
  /\ UNCHANGED <<so, lookups, net, dtasks, heard, outcome, waited, failures, load>>
RecvReads ==
  /\ recv.pc = "read"
  /\ \/ so.open /\ net # <<>> /\ net' = Tail(net) /\ recv' = [pc |-> "hold", hand |-> Head(net)]
     \/ ~so.open /\ recv' = [recv EXCEPT !.pc = "done"] /\ UNCHANGED net
  /\ UNCHANGED <<so, lookups, dtasks, heard, outcome, waited, failures, load>>
\* Read fails while the socket is open: a macrotask tells the handle's onerror,
\* and the goroutine goes on.
RecvFails ==
  /\ recv.pc = "read" /\ so.open /\ Spend("failures")
  /\ recv' = [recv EXCEPT !.pc = "wait"] /\ failures' = [failures EXCEPT !.posted = @ + 1]
  /\ UNCHANGED <<so, lookups, net, dtasks, heard, outcome, waited>>
FailureTold ==
  /\ failures.posted > 0 /\ ~so.thrown
  /\ failures' = [posted |-> failures.posted - 1,
                  told |-> IF so.open THEN failures.told + 1 ELSE failures.told]
  /\ UNCHANGED <<so, lookups, recv, net, dtasks, heard, outcome, waited, load>>
\* A datagram that was read is held while reading is stopped.
RecvHands ==
  /\ recv.pc = "hold" /\ (so.reading \/ ~so.open)
  /\ recv' = [pc |-> "wait", hand |-> 0] /\ dtasks' = Append(dtasks, recv.hand)
  /\ UNCHANGED <<so, lookups, net, heard, outcome, waited, failures, load>>
\* Mutant: the macrotask does not look whether the handle was closed.
Message_Late ==
  /\ dtasks # <<>> /\ dtasks' = Tail(dtasks) /\ ~so.thrown
  /\ heard' = Append(heard, Head(dtasks))
  /\ UNCHANGED <<so, lookups, recv, net, outcome, waited, failures, load>>
Message ==
  /\ dtasks # <<>> /\ dtasks' = Tail(dtasks) /\ ~so.thrown
  /\ heard' = IF so.open THEN Append(heard, Head(dtasks)) ELSE heard
  /\ UNCHANGED <<so, lookups, recv, net, outcome, waited, failures, load>>

DWorks ==
  \/ NextTick \/ RecvWaits \/ RecvReads \/ RecvHands \/ Message \/ FailureTold
  \/ \E op \in lookups : LookedUp(op)
DNext ==
  \/ DWorks \/ DatagramArrives \/ RecvFails
  \/ UserBind \/ UserConnect \/ UserDisconnect \/ UserClose \/ \E to \in BOOLEAN : UserRef(to)
  \/ \E i \in Sends : UserSend(i)
DRests ==
  /\ so.thrown \/ (lookups = {} /\ so.ticks = <<>> /\ dtasks = <<>> /\ failures.posted = 0)
  /\ CASE recv.pc = "wait" -> so.open /\ ~so.reading
       [] recv.pc = "read" -> so.open /\ net = <<>>
       [] recv.pc = "hold" -> so.open /\ ~so.reading
       [] OTHER -> TRUE

-----------------------------------------------------------------------------
\* A bound, receiving, ref'd and open socket holds the loop, and no other.
DgramHold == so.opHeld <=> so.refed /\ so.receiving /\ so.open /\ so.bind = "bound"

\* While the socket is open, calls wait in the queue only for a bind that is
\* under way: whatever its outcome, nothing is left waiting behind it.
QueueWaitsForBind ==
  so.queue # NoQueue => so.bind = "binding" /\ (so.open => <<"bind">> \in lookups)
\* Nor on a closed one (violated: connect() after a close() while the bind was
\* under way is queued behind a bind whose answer is not looked at).
NoneWaitsForNothing == so.queue # NoQueue => <<"bind">> \in lookups

\* The calls that waited are run once each, in the order they were made; only
\* one that throws, behind a close(), cuts them short.
CallsInOrder ==
  IF so.queue # NoQueue THEN waited = [queued |-> so.queue, ran |-> <<>>]
  ELSE /\ waited.ran = SubSeq(waited.queued, 1, Len(waited.ran))
       /\ so.thrown \/ Len(waited.ran) = Len(waited.queued)

\* Datagrams are emitted in the order they came, none twice, and after close()
\* none, and no receive error either.
DgramsInOrder ==
  /\ \A k \in DOMAIN heard : heard[k] = k
  /\ recv.hand # 0 => \A k \in DOMAIN dtasks : dtasks[k] < recv.hand
SilentAfterClose == ~so.open => heard' = heard /\ failures'.told = failures.told

\* Every send is called back, or given up because the bind failed, the
\* socket was closed or a queued call threw; and a close() is heard unless
\* the bind it waited for failed.
SendsSettled ==
  /\ (\A i \in Sends : outcome[i] # "pending") \/ so.thrown
  /\ so.asked > 0 => so.closed > 0 \/ so.failed \/ so.thrown
DroppedForCause ==
  /\ \A i \in Sends : outcome[i] = "dropped" => so.failed \/ ~so.open
  /\ so.thrown => ~so.open
=============================================================================
