------------------------------- MODULE Worker -------------------------------
(***************************************************************************)
(* One Worker of worker_threads: the Worker object on the parent's thread, *)
(* the child VM on a goroutine of its own, and the two mailboxes between   *)
(* them.  Steps of the two threads interleave; a step is a critical        *)
(* section of ws.mu or of a mailbox, or a stretch that touches neither.    *)
(*                                                                         *)
(* A macrotask queued on a VM is always run in the end: when a parked VM   *)
(* wakes up is the subject of HostLoop.                                    *)
(***************************************************************************)
EXTENDS Mailbox, FiniteSets

CONSTANTS MaxUp, MaxDown,  \* messages the child and the parent may post
          MaxCalls,          \* calls the child makes on parentPort, and timers it sets
          ExitCodes        \* codes a worker passes to process.exit

ASSUME WorkerAssumption == /\ MaxUp \in Nat /\ MaxDown \in Nat /\ MaxCalls \in Nat
                           /\ ExitCodes \subseteq Nat

VARIABLES
  parent,    \* the parent VM: "js", inside terminate() ("terminating"), in its
             \* event loop ("loop"), or "left"
  alive, refed, toParent,  \* workerState, parent's side
  inHand,    \* what a drain of toParent took and has not delivered
  exited,    \* Worker.#exited
  child,     \* where run() is
  terminated, exitRequested, errored, exitCode,  \* workerState, under ws.mu
  cancelled, \* the child VM's cancelled flag
  code,      \* run()'s result
  toChild,   \* parentPort's mailbox
  tasks,     \* macrotasks of the child VM: "drain" or "flush"
  batch,     \* what a drain of toChild took and has not delivered
  flushing,  \* inside ParentPort._flush
  armed,     \* the child has a timer of its own
  listening, pending, portClosed, \* ParentPort
  up, down, calls,  \* messages posted by either side; calls made
  events,    \* what the Worker object emitted
  received,  \* messages parentPort's listeners got
  portRefs   \* explicit calls: [ref, unref]

flags == <<terminated, exitRequested, errored, exitCode>>
parentSide == <<parent, alive, refed, inHand, exited, events>>
port == <<listening, pending, portClosed, calls, portRefs>>
counts == <<up, down, received>>
childLoop == <<tasks, batch, flushing, armed>>
vars == <<parentSide, toParent, child, flags, cancelled, code, toChild, childLoop, port, counts>>

Mail(kind, n) == [kind |-> kind, n |-> n]

Init == /\ parent = "js" /\ alive = TRUE /\ refed = TRUE
        /\ toParent = SetRefs(Attach(NewMailbox), 1)
        /\ inHand = <<>> /\ exited = FALSE /\ child = "new"
        /\ terminated = FALSE /\ exitRequested = FALSE /\ errored = FALSE /\ exitCode = 0
        /\ cancelled = FALSE /\ code = 0 /\ toChild = NewMailbox
        /\ tasks = <<>> /\ batch = <<>> /\ flushing = FALSE /\ armed = FALSE
        /\ listening = 0 /\ pending = <<>> /\ portClosed = FALSE
        /\ up = 0 /\ down = 0 /\ calls = 0 /\ events = <<>> /\ received = <<>>
        /\ portRefs = [ref |-> 0, unref |-> 0]

\* ws.stopping()
Stopping == terminated \/ exitRequested \/ errored

\* A mailbox that becomes scheduled has queued its drain macrotask.
QueueDrain == tasks' = IF toChild'.scheduled /\ ~toChild.scheduled
                         THEN Append(tasks, "drain") ELSE tasks

(***************************************************************************)
(* The parent                                                              *)
(***************************************************************************)

PostMessage == /\ parent = "js" /\ ~exited /\ down < MaxDown
               /\ down' = down + 1
               /\ toChild' = Push(toChild, Mail("message", down + 1))
               /\ QueueDrain
               /\ UNCHANGED <<parentSide, toParent, child, flags, cancelled, code, batch,
                              flushing, armed, port, up, received>>

\* terminate() sets the flag in one critical section ...
Terminate == /\ parent = "js" /\ ~exited
             /\ terminated' = TRUE
             /\ parent' = "terminating"
             /\ UNCHANGED <<alive, refed, inHand, exited, events, toParent, child, exitRequested,
                            errored, exitCode, cancelled, code, toChild, childLoop, port, counts>>

\* ... and cancelChild reads ws.child in another.
CancelChild == /\ parent = "terminating"
               /\ cancelled' = (cancelled \/ child # "new")
               /\ parent' = "js"
               /\ UNCHANGED <<alive, refed, inHand, exited, events, toParent, child, flags, code,
                              toChild, childLoop, port, counts>>

\* Mutant: unref() is forgotten.
ParentHold_IgnoresRef(a, r) == IF a THEN 1 ELSE 0

\* updateParentHold
ParentHold(a, r) == IF a /\ r THEN 1 ELSE 0

SetRef(r) == /\ parent = "js" /\ refed # r
             /\ refed' = r
             /\ toParent' = SetRefs(toParent, ParentHold(alive, r))
             /\ UNCHANGED <<parent, alive, inHand, exited, events, child, flags, cancelled, code,
                            toChild, childLoop, port, counts>>

ParentReturns == /\ parent = "js"
                 /\ parent' = "loop"
                 /\ UNCHANGED <<alive, refed, inHand, exited, events, toParent, child, flags,
                                cancelled, code, toChild, childLoop, port, counts>>

Drain == /\ parent = "loop" /\ inHand = <<>> /\ toParent.scheduled
         /\ inHand' = toParent.queue
         /\ toParent' = Drained(toParent)
         /\ UNCHANGED <<parent, alive, refed, exited, events, child, flags, cancelled, code,
                        toChild, childLoop, port, counts>>

\* drain delivers one mail after the other; "exit" first drops the hold and
\* closes the mailbox, then becomes the Worker's last event.
Deliver == /\ parent = "loop" /\ inHand # <<>>
           /\ inHand' = Tail(inHand)
           /\ LET mail == Head(inHand) exit == mail.kind = "exit" IN
                IF toParent.closed /\ ~exit
                  THEN UNCHANGED <<parent, alive, exited, events, toParent>>
                  ELSE /\ events' = Append(events, mail)
                       /\ alive' = (alive /\ ~exit)
                       /\ exited' = (exited \/ exit)
                       /\ toParent' = IF exit THEN Closed(SetRefs(toParent, 0)) ELSE toParent
                       /\ parent' = "js"
           /\ UNCHANGED <<refed, child, flags, cancelled, code, toChild, childLoop, port, counts>>

\* Nothing queued and nothing held: the process ends, and its threads with it.
Leave == /\ parent = "loop" /\ inHand = <<>> /\ ~toParent.scheduled /\ ~toParent.held
         /\ parent' = "left"
         /\ UNCHANGED <<alive, refed, inHand, exited, events, toParent, child, flags, cancelled,
                        code, toChild, childLoop, port, counts>>

(***************************************************************************)
(* run(): the child's start and end                                        *)
(***************************************************************************)

Runs == parent # "left"

\* Mutant: a terminate() before the VM exists is not looked for.
Begin_NoCheck == /\ Runs /\ child = "new"
                 /\ child' = "init"
                 /\ UNCHANGED <<parentSide, toParent, flags, cancelled, code, toChild, childLoop,
                                port, counts>>

\* The VM exists: publish it and look at terminated, in one critical section.
Begin == /\ Runs /\ child = "new"
         /\ child' = IF terminated THEN "closing" ELSE "init"
         /\ code' = IF terminated THEN 1 ELSE code
         /\ UNCHANGED <<parentSide, toParent, flags, cancelled, toChild, childLoop, port, counts>>

\* initChild: setDeliver attaches the mailbox, which may have mail already.
InitChild == /\ Runs /\ child = "init"
             /\ toChild' = Attach(toChild)
             /\ QueueDrain
             /\ child' = "attached"
             /\ UNCHANGED <<parentSide, toParent, flags, cancelled, code, batch, flushing, armed, port,
                            counts>>

Online == /\ Runs /\ child = "attached"
          /\ toParent' = Push(toParent, Mail("online", 0))
          /\ child' = "script"
          /\ UNCHANGED <<parentSide, flags, cancelled, code, toChild, childLoop, port, counts>>

\* initChildModule fails, or the thread panics and the deferred function
\* recovers.
Crash == /\ Runs /\ child \in {"init", "attached", "script", "callback", "loop"}
         /\ code' = 1
         /\ child' = "closing"
         /\ UNCHANGED <<parentSide, toParent, flags, cancelled, toChild, childLoop, port, counts>>

ComputeCode == /\ Runs /\ child = "ending"
               /\ code' = IF exitRequested THEN exitCode ELSE IF errored \/ terminated THEN 1 ELSE 0
               /\ child' = "closing"
               /\ UNCHANGED <<parentSide, toParent, flags, cancelled, toChild, childLoop, port,
                              counts>>

CloseToChild == /\ Runs /\ child = "closing"
                /\ toChild' = Closed(toChild)
                /\ child' = "exiting"
                /\ UNCHANGED <<parentSide, toParent, flags, cancelled, code, childLoop, port,
                               counts>>

PushExit == /\ Runs /\ child = "exiting"
            /\ toParent' = Push(toParent, Mail("exit", code))
            /\ child' = "gone"
            /\ UNCHANGED <<parentSide, flags, cancelled, code, toChild, childLoop, port, counts>>

(***************************************************************************)
(* What JavaScript does in the child                                       *)
(***************************************************************************)

InJS == Runs /\ child \in {"script", "callback"} /\ ~cancelled
AfterJS == IF child = "script" THEN "ending" ELSE "loop"

ChildPosts == /\ InJS /\ up < MaxUp /\ ~portClosed
              /\ up' = up + 1
              /\ toParent' = Push(toParent, Mail("message", up + 1))
              /\ UNCHANGED <<parentSide, child, flags, cancelled, code, toChild, childLoop, port,
                             down, received>>

\* process.exit in a worker stops that thread only.
Exit(c) == /\ InJS
           /\ exitRequested' = TRUE
           /\ exitCode' = IF exitRequested THEN exitCode ELSE c
           /\ cancelled' = TRUE
           /\ UNCHANGED <<parentSide, toParent, child, terminated, errored, code, toChild,
                          childLoop, port, counts>>

\* An exception escapes the script or a callback: unless the worker is
\* stopping anyway, reportError marks it ...
Throw == /\ InJS
         /\ child' = IF Stopping THEN AfterJS ELSE "reporting"
         /\ errored' = (errored \/ ~Stopping)
         /\ UNCHANGED <<parentSide, toParent, terminated, exitRequested, exitCode, cancelled,
                        code, toChild, childLoop, port, counts>>

\* ... and then tells the parent and stops the VM.
ReportError == /\ Runs /\ child = "reporting"
               /\ toParent' = Push(toParent, Mail("error", 0))
               /\ cancelled' = TRUE
               /\ child' = "ending"
               /\ UNCHANGED <<parentSide, flags, code, toChild, childLoop, port, counts>>

\* The script or the callback returns, on its own or because the VM is
\* cancelled.  run() looks at stopping() before it drains the loop.
ChildReturns == /\ Runs /\ child \in {"script", "callback"}
                /\ child' = IF child = "script" /\ Stopping THEN "ending" ELSE "loop"
                /\ UNCHANGED <<parentSide, toParent, flags, cancelled, code, toChild, childLoop,
                               port, counts>>

(***************************************************************************)
(* The child's event loop, and ParentPort                                  *)
(***************************************************************************)

InLoop == Runs /\ child = "loop" /\ ~cancelled
Between == batch = <<>> /\ ~flushing

RunDrain == /\ InLoop /\ Between /\ tasks # <<>> /\ Head(tasks) = "drain"
            /\ tasks' = Tail(tasks)
            /\ batch' = toChild.queue
            /\ toChild' = Drained(toChild)
            /\ UNCHANGED <<parentSide, toParent, child, flags, cancelled, code, flushing, armed, port,
                           counts>>

RunFlush == /\ InLoop /\ Between /\ tasks # <<>> /\ Head(tasks) = "flush"
            /\ tasks' = Tail(tasks)
            /\ flushing' = TRUE
            /\ UNCHANGED <<parentSide, toParent, child, flags, cancelled, code, toChild, batch,
                           armed, port, counts>>

\* _receive: dropped on a closed port, kept while nobody listens, emitted
\* otherwise.
ReceiveOne(n) ==
  CASE portClosed -> UNCHANGED <<child, pending, received>>
    [] ~portClosed /\ listening = 0 -> /\ pending' = Append(pending, n)
                                       /\ UNCHANGED <<child, received>>
    [] ~portClosed /\ listening > 0 -> /\ received' = Append(received, n)
                                       /\ child' = "callback"
                                       /\ UNCHANGED pending

DeliverToPort == /\ InLoop /\ batch # <<>>
                 /\ batch' = Tail(batch)
                 /\ ReceiveOne(Head(batch).n)
                 /\ UNCHANGED <<parentSide, toParent, flags, cancelled, code, toChild, tasks,
                                flushing, armed, listening, portClosed, calls, portRefs, up, down>>

FlushOne == /\ InLoop /\ flushing /\ pending # <<>> /\ listening > 0
            /\ pending' = Tail(pending)
            /\ IF portClosed THEN UNCHANGED <<child, received>>
               ELSE received' = Append(received, Head(pending)) /\ child' = "callback"
            /\ UNCHANGED <<parentSide, toParent, flags, cancelled, code, toChild, childLoop,
                           listening, portClosed, calls, portRefs, up, down>>

FlushEnds == /\ InLoop /\ flushing /\ (pending = <<>> \/ listening = 0)
             /\ flushing' = FALSE
             /\ UNCHANGED <<parentSide, toParent, child, flags, cancelled, code, toChild, tasks,
                            batch, armed, port, counts>>

\* DrainUntilIdle returns: idle with nothing held, or cancelled.
LeaveLoop == /\ Runs /\ child = "loop"
             /\ cancelled \/ (Between /\ tasks = <<>> /\ ~toChild.held /\ ~armed)
             /\ child' = "ending"
             /\ UNCHANGED <<parentSide, toParent, flags, cancelled, code, toChild, childLoop,
                            port, counts>>

Call == InJS /\ calls < MaxCalls /\ calls' = calls + 1

\* setTimeout: the child's own reason to stay and to run JavaScript later.
Arm == /\ Call /\ ~armed
       /\ armed' = TRUE
       /\ UNCHANGED <<parentSide, toParent, child, flags, cancelled, code, toChild, tasks, batch,
                      flushing, listening, pending, portClosed, portRefs, counts>>

Fire == /\ InLoop /\ Between /\ armed
        /\ armed' = FALSE
        /\ child' = "callback"
        /\ UNCHANGED <<parentSide, toParent, flags, cancelled, code, toChild, tasks, batch,
                       flushing, port, counts>>

\* on("message"): the first listener refs the port and asks for a flush.
Listen == /\ Call
          /\ listening' = listening + 1
          /\ toChild' = IF listening = 0 THEN Ref(toChild) ELSE toChild
          /\ tasks' = IF listening = 0 /\ pending # <<>> THEN Append(tasks, "flush") ELSE tasks
          /\ UNCHANGED <<parentSide, toParent, child, flags, cancelled, code, batch, flushing, armed,
                         pending, portClosed, portRefs, counts>>

Unlisten == /\ Call /\ listening > 0
            /\ listening' = listening - 1
            /\ toChild' = IF listening = 1 THEN Unref(toChild) ELSE toChild
            /\ UNCHANGED <<parentSide, toParent, child, flags, cancelled, code, childLoop,
                           pending, portClosed, portRefs, counts>>

ClosePort == /\ Call /\ ~portClosed
             /\ portClosed' = TRUE
             /\ toChild' = Unref(toChild)
             /\ UNCHANGED <<parentSide, toParent, child, flags, cancelled, code, childLoop,
                            listening, pending, portRefs, counts>>

RefPort == /\ Call
           /\ toChild' = Ref(toChild)
           /\ portRefs' = [portRefs EXCEPT !.ref = @ + 1]
           /\ UNCHANGED <<parentSide, toParent, child, flags, cancelled, code, childLoop,
                          listening, pending, portClosed, counts>>

UnrefPort == /\ Call
             /\ toChild' = Unref(toChild)
             /\ portRefs' = [portRefs EXCEPT !.unref = @ + 1]
             /\ UNCHANGED <<parentSide, toParent, child, flags, cancelled, code, childLoop,
                            listening, pending, portClosed, counts>>

ParentNext == PostMessage \/ Terminate \/ CancelChild \/ (\E r \in BOOLEAN : SetRef(r))
              \/ ParentReturns \/ Drain \/ Deliver \/ Leave
RunNext == Begin \/ InitChild \/ Online \/ Crash \/ ComputeCode \/ CloseToChild \/ PushExit
JSNext == ChildPosts \/ (\E c \in ExitCodes : Exit(c)) \/ Throw \/ ReportError \/ ChildReturns
          \/ Arm \/ Listen \/ Unlisten \/ ClosePort \/ RefPort \/ UnrefPort
LoopNext == Fire \/ RunDrain \/ RunFlush \/ DeliverToPort \/ FlushOne \/ FlushEnds \/ LeaveLoop
Next == ParentNext \/ RunNext \/ JSNext \/ LoopNext

\* Both threads run and the parent's callbacks return.  The worker's JavaScript
\* need not: only a cancelled VM is sure to stop.
Fairness == /\ WF_vars(CancelChild) /\ SF_vars(ParentReturns) /\ WF_vars(Drain)
            /\ WF_vars(Deliver)
            /\ WF_vars(Begin) /\ WF_vars(InitChild) /\ WF_vars(Online)
            /\ WF_vars(ComputeCode) /\ WF_vars(CloseToChild) /\ WF_vars(PushExit)
            /\ WF_vars(ReportError) /\ WF_vars(cancelled /\ ChildReturns)
            /\ WF_vars(RunDrain) /\ WF_vars(RunFlush) /\ WF_vars(DeliverToPort)
            /\ WF_vars(Fire) /\ WF_vars(FlushOne) /\ WF_vars(FlushEnds) /\ WF_vars(LeaveLoop)

Spec == Init /\ [][Next]_vars /\ Fairness

(***************************************************************************)
(* Properties                                                              *)
(***************************************************************************)

Mails == [kind : {"online", "message", "error", "exit"}, n : Nat]

TypeOK == /\ parent \in {"js", "terminating", "loop", "left"}
          /\ child \in {"new", "init", "attached", "script", "callback", "reporting", "loop",
                        "ending", "closing", "exiting", "gone"}
          /\ {alive, refed, exited, terminated, exitRequested, errored, cancelled, flushing,
              armed, portClosed} \subseteq BOOLEAN
          /\ toParent \in Mailboxes(Mails) /\ toChild \in Mailboxes(Mails)
          /\ inHand \in Seq(Mails) /\ batch \in Seq(Mails) /\ events \in Seq(Mails)
          /\ tasks \in Seq({"drain", "flush"})
          /\ pending \in Seq(Nat) /\ received \in Seq(Nat)
          /\ code \in Nat /\ exitCode \in Nat /\ listening \in Nat
          /\ up \in 0..MaxUp /\ down \in 0..MaxDown /\ calls \in 0..MaxCalls
          /\ portRefs \in [ref : Nat, unref : Nat]

\* Everything the child pushed, delivered or not.
Upward == events \o inHand \o toParent.queue
Is(kind) == {i \in 1..Len(Upward) : Upward[i].kind = kind}

\* What the Worker emits is "online", then every message in the order it was
\* posted, at most one "error", and one "exit" that nothing follows - however
\* the worker ended, and whenever it was terminated.
EventOrder == /\ Is("online") \subseteq {1} /\ Is("exit") \subseteq {Len(Upward)}
              /\ Cardinality(Is("error")) <= 1
              /\ (Is("message") \cup Is("error") # {}) => Is("online") = {1}
              /\ \A i \in Is("message") :
                   Upward[i].n = Cardinality({k \in Is("message") : k <= i})
              /\ Cardinality(Is("message")) = up
              /\ child = "gone" <=> Is("exit") # {}

\* A worker whose error the parent was told of never exits with the code of
\* one that ended well or called process.exit.
ErrorMeansOne == Is("error") # {} => \A i \in Is("exit") : Upward[i].n = 1

\* While a worker is running and ref'd, its parent does not leave; once its
\* exit has been seen, ref() does not hold the parent any more.
ParentStays == /\ parent = "left" => (exited \/ ~refed)
               /\ toParent.held = (~exited /\ refed)

\* A message to the worker is in one place at a time and stays on its way until
\* it is received, unless the port is closed or the thread has ended.
On(seq, n) == Cardinality({i \in 1..Len(seq) : seq[i] = n})
OnWay(n) == On(received, n) + On(pending, n)
            + On(batch, Mail("message", n)) + On(toChild.queue, Mail("message", n))
NoneLost == \A n \in 1..down : /\ OnWay(n) <= 1
                               /\ OnWay(n) = 0 => portClosed \/ child \in {"exiting", "gone"}

\* A worker that listens on its open port, and has not called unref(), does
\* not end by itself.
ChildStays == [][(child = "loop" /\ child' = "ending" /\ ~cancelled)
                   => listening = 0 \/ portClosed \/ portRefs.unref > 0]_vars

\* Once terminate() is called, the worker's exit reaches the parent, wherever
\* the child was: not yet published, in its script, or in its loop.
TerminateEnds == terminated ~> (exited \/ parent = "left")

\* The worker's JavaScript does not run for ever.
JSReturns == []<>(child \notin {"script", "callback"})

\* A message that is on its way when somebody listens is heard: it does not
\* get stuck in pending.
Heard == JSReturns => \A n \in 1..MaxDown :
           (n <= down /\ listening > 0)
             ~> (On(received, n) = 1 \/ listening = 0 \/ portClosed \/ Stopping
                 \/ child \in {"ending", "closing", "exiting", "gone"} \/ parent = "left")

\* A child nothing keeps ends.
ChildEnds == JSReturns => (listening = 0 /\ portRefs.ref = 0 /\ child = "loop" /\ ~armed)
               ~> (listening > 0 \/ armed \/ portRefs.ref > 0 \/ child = "gone" \/ parent = "left")

\* worker_threads_shim.go:249-250: messages that arrive before anyone listens
\* wait, as on a port that has not been started: they are the first to be heard.
HeardInOrder == \A i, k \in 1..Len(received) : i < k => received[i] < received[k]

\* Events come in the order online, messages, error, exit, and the exit code
\* says what happened to the child.
EventsTrue == TypeOK /\ EventOrder /\ ErrorMeansOne
\* A worker that is ref'd holds its parent, and a message is in one place
\* until it is heard or the receiver is gone.
NothingLost == ParentStays /\ NoneLost
\* The child lives as long as something holds it, no longer, and not past a
\* terminate(); what it listens for it hears.
LivesAsHeld == ChildStays /\ TerminateEnds /\ Heard /\ ChildEnds
=============================================================================
