------------------------------- MODULE Ports --------------------------------
(***************************************************************************)
(* Three ways in which code talks to code without a socket, each with a    *)
(* state of its own.                                                       *)
(*   mp  a MessageChannel (message_port_global.go): two ports of one VM,   *)
(*       whose queues are emptied by ticks or by receiveMessageOnPort.     *)
(*   bc  BroadcastChannels of several threads and postMessageToThread      *)
(*       (worker_runtime.go), both over the mailboxes of Mailbox.          *)
(*   wl  the Web Locks of one thread (worker_threads_shim.go).             *)
(* Messages are numbers; what cloning does to them is in Serdes.           *)
(***************************************************************************)
EXTENDS Integers, Sequences, FiniteSets, SequencesExt, Mailbox

CONSTANTS
  MaxPortOps,   \* bound: the user's calls on the two ports
  Subs,         \* the BroadcastChannels that may be opened
  MaxPosts,     \* bound: messages posted by all of them
  Requests,     \* the lock requests: number -> [name, mode, how, then]
  MaxAborts     \* bound: signals aborted

ASSUME PortsAssumption == {MaxPortOps, MaxPosts, MaxAborts} \subseteq Nat

VARIABLES mp, bc, wl

-----------------------------------------------------------------------------
(* MessagePort *)

Ends == {"a", "b"}
Peer(x) == IF x = "a" THEN "b" ELSE "a"
NewPort == [queue |-> <<>>, started |-> FALSE, closed |-> FALSE, refed |-> TRUE, held |-> FALSE,
            draining |-> FALSE, sent |-> 0, got |-> <<>>, closes |-> 0, late |-> FALSE]
\* ticks: what ScheduleNextTick and scheduleEmit queued; inDrain: the port
\* whose drain loop is running; ext: the runtime's external ops.
MPInit == mp = [p |-> [x \in Ends |-> NewPort], ticks |-> <<>>, inDrain |-> "none", ext |-> 0, ops |-> 0]

\* updateHold
PortHold(m, x) ==
  LET want == m.p[x].started /\ ~m.p[x].closed /\ m.p[x].refed
  IN  CASE want /\ ~m.p[x].held -> [m EXCEPT !.p[x].held = TRUE, !.ext = @ + 1]
        [] ~want /\ m.p[x].held -> [m EXCEPT !.p[x].held = FALSE, !.ext = @ - 1]
        [] OTHER -> m
ScheduleDrain(m, x) ==
  IF m.p[x].draining \/ ~m.p[x].started \/ m.p[x].queue = <<>> THEN m
  ELSE [m EXCEPT !.p[x].draining = TRUE, !.ticks = Append(@, <<"drain", x>>)]
StartPort(m, x) ==
  IF m.p[x].started \/ m.p[x].closed THEN m
  ELSE ScheduleDrain(PortHold([m EXCEPT !.p[x].started = TRUE], x), x)
\* close(): both ends.
CloseEnd(m, x) ==
  IF m.p[x].closed THEN m
  ELSE PortHold([m EXCEPT !.p[x].closed = TRUE, !.p[x].queue = <<>>,
                          !.ticks = Append(@, <<"close", x>>)], x)
ClosePort(m, x) == CloseEnd(CloseEnd(m, x), Peer(x))
PostMessagePort(m, x) ==
  IF m.p[x].closed \/ m.p[Peer(x)].closed THEN m
  ELSE ScheduleDrain([m EXCEPT !.p[x].sent = @ + 1,
                               !.p[Peer(x)].queue = Append(@, m.p[x].sent + 1)], Peer(x))
\* The next message of x goes to its listeners, or to receiveMessageOnPort.
TakeMessage(m, x) ==
  [m EXCEPT !.p[x].queue = Tail(@), !.p[x].got = Append(@, Head(m.p[x].queue)),
            !.p[x].late = @ \/ m.p[x].closes > 0]

\* The user's calls: at any time, within a listener or not.
PortCalls ==
  /\ mp.ops < MaxPortOps
  /\ \E x \in Ends :
       \/ mp' = [PostMessagePort(mp, x) EXCEPT !.ops = @ + 1]
       \/ mp' = [StartPort(mp, x) EXCEPT !.ops = @ + 1]
       \/ mp' = [ClosePort(mp, x) EXCEPT !.ops = @ + 1]
       \/ \E r \in BOOLEAN : mp' = [PortHold([mp EXCEPT !.p[x].refed = r], x) EXCEPT !.ops = @ + 1]
       \/ mp.p[x].queue # <<>> /\ mp' = [TakeMessage(mp, x) EXCEPT !.ops = @ + 1]
\* A tick: the drain loop begins, or 'close' is emitted.
PortTick ==
  /\ mp.inDrain = "none" /\ mp.ticks # <<>>
  /\ LET t == Head(mp.ticks)
     IN  mp' = IF t[1] = "drain"
               THEN [mp EXCEPT !.ticks = Tail(@), !.p[t[2]].draining = FALSE, !.inDrain = t[2]]
               ELSE [mp EXCEPT !.ticks = Tail(@), !.p[t[2]].closes = @ + 1]
\* One turn of the loop, or its end.
PortDrain ==
  /\ mp.inDrain # "none"
  /\ LET p == mp.p[mp.inDrain]
     IN  mp' = IF p.queue # <<>> /\ p.started /\ ~p.closed THEN TakeMessage(mp, mp.inDrain)
               ELSE [mp EXCEPT !.inDrain = "none"]
MPNext == PortCalls \/ PortTick \/ PortDrain

-----------------------------------------------------------------------------
(* BroadcastChannel and postMessageToThread *)

\* A sub is also a thread of its own, with the inbox of postMessageToThread.
NewSub == [phase |-> "new", mb |-> SetRefs(NewMailbox, 1), inHand |-> <<>>, targets |-> <<>>,
           posting |-> 0, got |-> <<>>, since |-> 0, inbox |-> Attach(NewMailbox), thread |-> "up",
           told |-> {}, heard |-> {}]
BCInit == bc = [s |-> [x \in Subs |-> NewSub], subs |-> <<>>, posts |-> 0]

\* The thread of x is not in the middle of post() or close().
Idle(x) == bc.s[x].targets = <<>> /\ bc.s[x].phase # "closing" /\ bc.s[x].thread = "up"

\* openBroadcast: the mailbox is attached, then the sub is listed.
OpenSub(x) ==
  /\ Idle(x) /\ bc.s[x].phase = "new"
  /\ bc' = [bc EXCEPT !.s[x].phase = "open", !.s[x].mb = Attach(@), !.subs = Append(@, x),
                      !.s[x].since = bc.posts]
\* post(): a copy of the list, then a push to each that is not itself.
BeginPost(x) ==
  /\ Idle(x) /\ bc.s[x].phase = "open" /\ bc.posts < MaxPosts
  /\ bc' = [bc EXCEPT !.posts = @ + 1, !.s[x].posting = bc.posts + 1,
                      !.s[x].targets = SelectSeq(bc.subs, LAMBDA t : t # x)]
PushPost(x) ==
  /\ bc.s[x].targets # <<>>
  /\ LET t == Head(bc.s[x].targets)
     IN  bc' = [bc EXCEPT !.s[x].targets = Tail(@),
                          !.s[t].mb = Push(@, [n |-> bc.s[x].posting, from |-> x])]
\* close(), on the thread of the channel: the list, then the mailbox.
Unlist(x) ==
  /\ Idle(x) /\ bc.s[x].phase = "open"
  /\ bc' = [bc EXCEPT !.s[x].phase = "closing", !.subs = SelectSeq(@, LAMBDA t : t # x)]
CloseSub(x) ==
  bc.s[x].phase = "closing" /\ bc' = [bc EXCEPT !.s[x].phase = "closed", !.s[x].mb = Closed(@)]
RefSub(x) ==
  /\ Idle(x) /\ bc.s[x].phase = "open"
  /\ \E n \in 0..1 : n # bc.s[x].mb.refs /\ bc' = [bc EXCEPT !.s[x].mb = SetRefs(@, n)]
\* drain: the whole queue, then one message after the other.
DrainSub(x) ==
  /\ Idle(x) /\ bc.s[x].inHand = <<>> /\ bc.s[x].mb.scheduled
  /\ bc' = [bc EXCEPT !.s[x].inHand = bc.s[x].mb.queue, !.s[x].mb = Drained(@)]
DeliverSub(x) ==
  /\ Idle(x) /\ bc.s[x].inHand # <<>>
  /\ bc' = [bc EXCEPT !.s[x].inHand = Tail(@),
                      !.s[x].got = IF bc.s[x].mb.closed THEN @ ELSE Append(@, Head(bc.s[x].inHand))]
\* postMessageToThread resolves when the push succeeds; the thread hears of
\* it when it drains, unless it ended before.
PostToThread(x, t) ==
  /\ x # t /\ Idle(x) /\ bc.posts < MaxPosts
  /\ bc' = [bc EXCEPT !.posts = @ + 1, !.s[t].inbox = Push(@, bc.posts + 1),
                      !.s[x].told = IF bc.s[t].inbox.closed THEN @ ELSE @ \cup {bc.posts + 1}]
HearThread(x) ==
  /\ Idle(x) /\ bc.s[x].inbox.scheduled
  /\ bc' = [bc EXCEPT !.s[x].heard = @ \cup ToSet(bc.s[x].inbox.queue), !.s[x].inbox = Drained(@)]
\* The end of a thread closes its inbox, after its channels.
EndThread(x) ==
  /\ Idle(x) /\ bc.s[x].phase \in {"new", "closed"}
  /\ bc' = [bc EXCEPT !.s[x].thread = "down", !.s[x].inbox = Closed(@)]

BCWorks(x) == PushPost(x) \/ CloseSub(x) \/ DrainSub(x) \/ DeliverSub(x) \/ HearThread(x)
BCNext ==
  \E x \in Subs : \/ OpenSub(x) \/ BeginPost(x) \/ Unlist(x) \/ RefSub(x) \/ EndThread(x)
                  \/ BCWorks(x)
                  \/ \E t \in Subs : PostToThread(x, t)

-----------------------------------------------------------------------------
(* Web Locks *)

\* held and pending are lists of requests; answer: what its promise got;
\* over: callbacks whose promise is settled and whose finally has not run.
WLInit ==
  wl = [held |-> <<>>, pending |-> <<>>, running |-> {}, over |-> {}, stolen |-> {}, aborts |-> 0,
        made |-> {}, order |-> <<>>, answer |-> [q \in DOMAIN Requests |-> "none"]]

Conflict(p, q) == Requests[p].name = Requests[q].name
                  /\ ~(Requests[p].mode = "shared" /\ Requests[q].mode = "shared")
Grantable(l, q) == \A i \in DOMAIN l.held : ~Conflict(l.held[i], q)
SameName(p, q) == Requests[p].name = Requests[q].name

\* grant() calls the callback, which may request another lock at once;
\* pump() grants what no earlier request of the name waits before.
RECURSIVE Grant(_, _), Pump(_, _), Request(_, _)
Grant(l, q) ==
  LET h == [l EXCEPT !.held = Append(@, q), !.running = @ \cup {q}, !.order = Append(@, q)]
  IN  IF Requests[q].then = 0 \/ Requests[q].then \in l.made THEN h ELSE Request(h, Requests[q].then)
Pump(l, i) ==
  IF i > Len(l.pending) THEN l
  ELSE LET q == l.pending[i]
           earlier == \E k \in 1..i - 1 : SameName(l.pending[k], q)
       IN  IF ~earlier /\ Grantable(l, q)
           THEN Pump(Grant([l EXCEPT !.pending = RemoveAt(@, i)], q), i)
           ELSE Pump(l, i + 1)
Request(l, q) ==
  LET m == [l EXCEPT !.made = @ \cup {q}]
      waits == \E i \in DOMAIN l.pending : SameName(l.pending[i], q)
      robbed == {l.held[i] : i \in {i \in DOMAIN l.held : SameName(l.held[i], q)}}
  IN  CASE Requests[q].how = "steal" ->
             Grant([m EXCEPT !.held = SelectSeq(@, LAMBDA p : ~SameName(p, q)), !.stolen = @ \cup robbed], q)
        [] Requests[q].how = "ifAvailable" ->
             IF Grantable(l, q) /\ ~waits THEN Grant(m, q) ELSE [m EXCEPT !.answer[q] = "null"]
        [] OTHER -> Pump([m EXCEPT !.pending = Append(@, q)], 1)

RequestLock == \E q \in DOMAIN Requests \ wl.made : wl' = Request(wl, q)
\* The callback's promise is settled, and then its finally runs.
LockDone ==
  \E q \in wl.running, how \in {"resolved", "rejected"} :
    wl' = [wl EXCEPT !.running = @ \ {q}, !.over = @ \cup {q}, !.answer[q] = how]
ReleaseLock ==
  \E q \in wl.over :
    wl' = Pump([wl EXCEPT !.over = @ \ {q}, !.held = SelectSeq(@, LAMBDA p : p # q)], 1)
\* A signal given with the request is aborted: nothing is pumped.
AbortLock ==
  /\ wl.aborts < MaxAborts
  /\ \E i \in DOMAIN wl.pending :
       wl' = [wl EXCEPT !.aborts = @ + 1, !.pending = RemoveAt(@, i), !.answer[wl.pending[i]] = "aborted"]
WLNext == RequestLock \/ LockDone \/ ReleaseLock \/ AbortLock

-----------------------------------------------------------------------------
\* MessagePort: messages arrive once and in order, by listener or by
\* receiveMessageOnPort, none is skipped while both ends are open, and none
\* comes after 'close', which each end emits once.
PortsInOrder ==
  \A x \in Ends :
    LET p == mp.p[x] q == mp.p[Peer(x)]
    IN  /\ p.got \o p.queue = [i \in 1..Len(p.got \o p.queue) |-> i]
        /\ ~p.closed => Len(p.got \o p.queue) = q.sent
        /\ ~p.late /\ p.closes <= 1
\* MessagePort: the event loop is held once for each port that is started,
\* ref'd and open; and a started port with messages has one drain queued.
PortsHold ==
  /\ mp.ext = Cardinality({x \in Ends : mp.p[x].started /\ mp.p[x].refed /\ ~mp.p[x].closed})
  /\ \A x \in Ends :
       /\ Cardinality({i \in DOMAIN mp.ticks : mp.ticks[i] = <<"drain", x>>}) <= 1
       /\ mp.p[x].started /\ mp.p[x].queue # <<>> => mp.p[x].draining \/ mp.inDrain = x

\* BroadcastChannel: nobody hears itself, one sender's messages come in
\* order and once, and none comes after close().
BroadcastInOrder ==
  \A x \in Subs :
    LET got == bc.s[x].got
    IN  /\ \A i \in DOMAIN got : got[i].from # x
        /\ \A i, j \in DOMAIN got : i < j /\ got[i].from = got[j].from => got[i].n < got[j].n
        /\ bc.s[x].mb.closed => ~bc.s[x].mb.held
\* A message that is pushed completely reached every channel that was open
\* before and is still: it was delivered, or it is on its way.
BroadcastToAll ==
  \A x, y \in Subs :
    x # y /\ bc.s[x].phase = "open" /\ bc.s[y].phase = "open" /\ bc.s[x].targets = <<>>
      /\ bc.s[x].posting > bc.s[y].since =>
      \E m \in ToSet(bc.s[y].got \o bc.s[y].inHand \o bc.s[y].mb.queue) : m.n = bc.s[x].posting

\* Web Locks: of the callbacks that run and were not robbed of their lock,
\* no two conflict; and requests of one name that wait are granted in turn.
LocksExclude ==
  /\ \A p, q \in wl.running \cup wl.over :
       p # q /\ p \notin wl.stolen /\ q \notin wl.stolen => ~Conflict(p, q)
  /\ \A i \in DOMAIN wl.pending :
       (\A k \in 1..i - 1 : ~SameName(wl.pending[k], wl.pending[i])) =>
         ~Grantable(wl, wl.pending[i]) \/ wl.aborts > 0
\* Not what the code does: after an abort too.
NoneWaitsInVain ==
  \A i \in DOMAIN wl.pending :
    (\A k \in 1..i - 1 : ~SameName(wl.pending[k], wl.pending[i])) => ~Grantable(wl, wl.pending[i])
\* Not what the code does: a message that was resolved is heard.
ThreadsHear ==
  \A x, t \in Subs : \A n \in bc.s[x].told :
    bc.s[t].thread = "down" => \E y \in Subs : n \in bc.s[y].heard
=============================================================================
