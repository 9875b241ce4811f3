------------------------------- MODULE Timers -------------------------------
(***************************************************************************)
(* setTimeout, setInterval and the Timeout objects of timeout_object.go,   *)
(* and setImmediate of immediate_object.go, on the engine's loop.  A       *)
(* Timeout keeps its own deadline; the engine only knows anonymous runtime *)
(* timers, each of which, when due, calls drainDue.  Timeouts and          *)
(* immediates are numbered in the order they are created.                  *)
(***************************************************************************)
EXTENDS Naturals, Sequences, FiniteSets

CONSTANTS MaxTimers, MaxImmediates,
          Delays,      \* delays a program asks for, in ms, already clamped
          MaxTime,     \* the clock stops here
          MaxOps,      \* ref, unref, refresh and clear calls
          SelfRearm    \* TRUE: an interval's callback may call ref, unref or
                       \* refresh on the interval itself

ASSUME TimersAssumption ==
         /\ MaxTimers \in Nat /\ MaxImmediates \in Nat /\ MaxTime \in Nat /\ MaxOps \in Nat
         /\ Delays \subseteq Nat \ {0} /\ SelfRearm \in BOOLEAN

VARIABLES
  now, checkAt,  \* the clock, and when the loop last came to its check phase
  vm,        \* "js" in the script, a callback or an immediate; "drain" inside
             \* drainDue; "timers" or "macro", a phase of the loop; "left"
  cur,       \* the Timeout whose callback runs, 0 if none
  timers,    \* the Timeouts: [live, repeat, refed, delay, start, deadline, id]
  rt,        \* the engine's armed timers: [owner, id, at, ref]
  due,       \* drainDue: collected and not run yet
  drainNow,  \* drainDue: the time it collected at
  immediates, cancelled,  \* the macrotask queue of Immediates; cleared ones
  nImm, ops, \* Immediates created; calls made
  fires      \* times each callback ran

loop == <<now, checkAt, vm, cur>>
imm == <<immediates, cancelled, nImm>>
vars == <<loop, timers, rt, due, drainNow, imm, ops, fires>>

Created == 1..Len(timers)
Live(t) == t \in Created /\ timers[t].live
Later(a, b) == IF a > b THEN a ELSE b

Init == /\ now = 0 /\ checkAt = 0 /\ vm = "js" /\ cur = 0
        /\ timers = <<>> /\ rt = {} /\ due = {} /\ drainNow = 0
        /\ immediates = <<>> /\ cancelled = {} /\ nImm = 0 /\ ops = 0
        /\ fires = [t \in 1..MaxTimers |-> 0]

(***************************************************************************)
(* What JavaScript calls                                                   *)
(***************************************************************************)

\* schedule(delay): a new runtime timer, whose id replaces the old one's.
\* armed is the record with the new deadline, from the record x.
Scheduled(x, delay) == [x EXCEPT !.start = now, !.deadline = now + delay, !.id = @ + 1]

RuntimeTimer(t, x, at) == [owner |-> t, id |-> x.id, at |-> at, ref |-> x.refed]
Cancel(t) == {r \in rt : ~(r.owner = t /\ r.id = timers[t].id)}

SetTimer(delay, repeat) ==
  /\ vm = "js" /\ Len(timers) < MaxTimers
  /\ LET t == Len(timers) + 1
         x == Scheduled([live |-> TRUE, repeat |-> repeat, refed |-> TRUE, delay |-> delay,
                         start |-> 0, deadline |-> 0, id |-> 0], delay)
     IN /\ timers' = Append(timers, x)
        /\ rt' = rt \cup {RuntimeTimer(t, x, x.deadline)}
  /\ UNCHANGED <<loop, due, drainNow, imm, ops, fires>>

\* A call on Timeout t; what a destroyed one ignores is no step.
Call(t) == /\ vm = "js" /\ ops < MaxOps /\ Live(t)
           /\ ops' = ops + 1
           /\ UNCHANGED <<loop, due, drainNow, imm, fires>>
Rearms(t) == SelfRearm \/ t # cur

\* Mutant: the runtime timer goes back to the queue it came from.
SetRef_WrongQueue(t, ref) ==
  /\ Call(t) /\ Rearms(t) /\ timers[t].refed # ref
  /\ LET x == [timers[t] EXCEPT !.id = @ + 1] IN
       /\ timers' = [timers EXCEPT ![t] = [x EXCEPT !.refed = ref]]
       /\ rt' = Cancel(t) \cup {RuntimeTimer(t, x, Later(now, x.start + x.delay))}

\* ref() and unref() move the runtime timer to the other queue, for the time
\* that remains.
SetRef(t, ref) ==
  /\ Call(t) /\ Rearms(t) /\ timers[t].refed # ref
  /\ LET x == [timers[t] EXCEPT !.refed = ref, !.id = @ + 1] IN
       /\ timers' = [timers EXCEPT ![t] = x]
       /\ rt' = Cancel(t) \cup {RuntimeTimer(t, x, Later(now, x.start + x.delay))}
\* Mutant: refresh() cancels and does not schedule.
Refresh_NoSchedule(t) ==
  /\ Call(t) /\ Rearms(t)
  /\ timers' = [timers EXCEPT ![t] = Scheduled(timers[t], timers[t].delay)]
  /\ rt' = Cancel(t)

Refresh(t) ==
  /\ Call(t) /\ Rearms(t)
  /\ LET x == Scheduled(timers[t], timers[t].delay) IN
       /\ timers' = [timers EXCEPT ![t] = x]
       /\ rt' = Cancel(t) \cup {RuntimeTimer(t, x, x.deadline)}

\* clearTimeout, clearInterval, close() and [Symbol.dispose]
Clear(t) == /\ Call(t)
            /\ timers' = [timers EXCEPT ![t].live = FALSE]
            /\ rt' = Cancel(t)

SetImmediate == /\ vm = "js" /\ nImm < MaxImmediates
                /\ nImm' = nImm + 1
                /\ immediates' = Append(immediates, nImm + 1)
                /\ UNCHANGED <<loop, timers, rt, due, drainNow, cancelled, ops, fires>>

\* clearImmediate only marks it: the macrotask stays queued.
ClearImmediate(i) == /\ vm = "js" /\ i \in 1..nImm /\ i \notin cancelled
                     /\ cancelled' = cancelled \cup {i}
                     /\ UNCHANGED <<loop, timers, rt, due, drainNow, immediates, nImm, ops, fires>>

(***************************************************************************)
(* The loop: RunDueTimers, then RunMacrotasks                              *)
(***************************************************************************)

\* A runtime timer is due: it is gone, and drainDue collects every live
\* Timeout whose own deadline has passed.
Wake(r) == /\ vm = "timers" /\ r \in rt /\ r.at <= now
           /\ rt' = rt \ {r}
           /\ due' = {t \in Created : timers[t].live /\ timers[t].deadline <= now}
           /\ drainNow' = now
           /\ vm' = "drain"
           /\ UNCHANGED <<now, checkAt, cur, timers, imm, ops, fires>>

StillDue(t) == timers[t].live /\ timers[t].deadline <= drainNow
\* Mutant: creation order whatever the deadlines.
Precedes_Creation(t, u) == t <= u

Precedes(t, u) == \/ timers[t].deadline < timers[u].deadline
                  \/ timers[t].deadline = timers[u].deadline /\ t <= u

\* The next of them in order, if an earlier callback has not cleared or
\* refreshed it: cancel its runtime timer and call back.
Fire(t) == /\ vm = "drain" /\ t \in due /\ StillDue(t)
           /\ \A u \in due : StillDue(u) => Precedes(t, u)
           /\ due' = due \ {t}
           /\ rt' = Cancel(t)
           /\ timers' = [timers EXCEPT ![t].live = timers[t].repeat]
           /\ fires' = [fires EXCEPT ![t] = @ + 1]
           /\ cur' = t /\ vm' = "js"
           /\ UNCHANGED <<now, checkAt, drainNow, imm, ops>>

\* The callback returns: an interval that is still alive is scheduled again.
Return == /\ vm = "js" /\ cur # 0
          /\ IF timers[cur].repeat /\ timers[cur].live
               THEN LET x == Scheduled(timers[cur], timers[cur].delay) IN
                      /\ timers' = [timers EXCEPT ![cur] = x]
                      /\ rt' = rt \cup {RuntimeTimer(cur, x, x.deadline)}
               ELSE UNCHANGED <<timers, rt>>
          /\ cur' = 0 /\ vm' = "drain"
          /\ UNCHANGED <<now, checkAt, due, drainNow, imm, ops, fires>>

DrainEnds == /\ vm = "drain" /\ \A t \in due : ~StillDue(t)
             /\ due' = {}
             /\ vm' = "timers"
             /\ UNCHANGED <<now, checkAt, cur, timers, rt, drainNow, imm, ops, fires>>

\* The script or an immediate returns; RunMacrotasks may go on to the next one.
ScriptEnds == /\ vm = "js" /\ cur = 0
              /\ vm' \in {"timers", "macro"}
              /\ UNCHANGED <<now, checkAt, cur, timers, rt, due, drainNow, imm, ops, fires>>

TimersDone == /\ vm = "timers" /\ \A r \in rt : r.at > now
              /\ vm' = "macro" /\ checkAt' = now
              /\ UNCHANGED <<now, cur, timers, rt, due, drainNow, imm, ops, fires>>

RunImmediate == /\ vm = "macro" /\ immediates # <<>>
                /\ immediates' = Tail(immediates)
                /\ vm' = IF Head(immediates) \in cancelled THEN "macro" ELSE "js"
                /\ UNCHANGED <<now, checkAt, cur, timers, rt, due, drainNow, cancelled, nImm, ops, fires>>

\* HasPendingWork does not count unref'd timers.
MacroDone == /\ vm = "macro" /\ immediates = <<>>
             /\ vm' = IF \E r \in rt : r.ref THEN "timers" ELSE "left"
             /\ UNCHANGED <<now, checkAt, cur, timers, rt, due, drainNow, imm, ops, fires>>

\* Only what JavaScript, RunDueTimers and drainDue's start do reads the clock.
Tick == /\ now < MaxTime /\ vm \in {"js", "timers"}
        /\ now' = now + 1
        /\ UNCHANGED <<checkAt, vm, cur, timers, rt, due, drainNow, imm, ops, fires>>

Next == \/ \E d \in Delays, repeat \in BOOLEAN : SetTimer(d, repeat)
        \/ \E t \in 1..MaxTimers :
             \/ \E ref \in BOOLEAN : SetRef(t, ref)
             \/ Refresh(t) \/ Clear(t) \/ Fire(t)
        \/ SetImmediate \/ (\E i \in 1..MaxImmediates : ClearImmediate(i))
        \/ (\E r \in rt : Wake(r))
        \/ Return \/ DrainEnds \/ ScriptEnds \/ TimersDone \/ RunImmediate \/ MacroDone \/ Tick

\* The loop runs, callbacks return and time passes.
Fairness == /\ \A t \in 1..MaxTimers : WF_vars(Fire(t))
            /\ WF_vars(\E r \in rt : Wake(r))
            /\ WF_vars(Return) /\ WF_vars(DrainEnds) /\ WF_vars(ScriptEnds)
            /\ WF_vars(TimersDone) /\ WF_vars(RunImmediate) /\ WF_vars(MacroDone)
            /\ SF_vars(Tick)

Spec == Init /\ [][Next]_vars /\ Fairness

(***************************************************************************)
(* Properties                                                              *)
(***************************************************************************)

TypeOK == /\ now \in 0..MaxTime /\ checkAt \in 0..now
          /\ vm \in {"js", "drain", "timers", "macro", "left"}
          /\ cur \in 0..Len(timers)
          /\ timers \in Seq([live : BOOLEAN, repeat : BOOLEAN, refed : BOOLEAN, delay : Delays,
                             start : Nat, deadline : Nat, id : Nat])
          /\ rt \subseteq [owner : Created, id : Nat, at : Nat, ref : BOOLEAN]
          /\ due \subseteq Created /\ drainNow \in 0..MaxTime
          /\ immediates \in Seq(1..nImm) /\ cancelled \subseteq 1..nImm
          /\ nImm \in 0..MaxImmediates /\ ops \in 0..MaxOps
          /\ fires \in [1..MaxTimers -> Nat]

\* However ref, unref, refresh and clear are called, from whichever callback, a
\* live Timeout that is not being run has its own runtime timer armed, in the
\* queue its ref state asks for and not before its deadline.
Armed == \A t \in Created : Live(t) /\ t # cur /\ t \notin due =>
           \E r \in rt : /\ r.owner = t /\ r.id = timers[t].id
                         /\ r.ref = timers[t].refed /\ r.at >= timers[t].deadline

\* timeout_object.go:113-115: timers fire earliest first and in creation order
\* among equal deadlines.  Across wakeups, and whatever the callbacks in between
\* did, the Timeout that fires is due and is the first of all that are live.
FiresInOrder == [][\A t \in Created : fires'[t] # fires[t] =>
                     /\ timers[t].live /\ timers[t].deadline <= now
                     /\ \A u \in Created : timers[u].live => Precedes(t, u)]_vars

\* timeout_object.go:24-27: only a live, ref'd Timeout keeps the process alive.
OnlyLiveHold == \A r \in rt : r.ref => timers[r.owner].live /\ timers[r.owner].refed

\* The process does not leave while a ref'd Timeout is to come.
NoneLeftBehind == vm = "left" => \A t \in Created : ~(timers[t].live /\ timers[t].refed)

\* A Timeout whose deadline comes fires, unless it is cleared or the process
\* leaves first: no drain and no re-arming loses it.
EventuallyFires == \A t \in 1..MaxTimers :
   (Live(t) /\ fires[t] = 0 /\ timers[t].deadline <= MaxTime)
     ~> (fires[t] > 0 \/ ~Live(t) \/ vm = "left" \/ timers[t].deadline > MaxTime)

\* immediate_object.go:26-29: an Immediate never runs before a Timeout that was
\* due when the loop reached the check phase.
CheckAfterTimers == [][Len(immediates') < Len(immediates) =>
                        \A t \in Created : Live(t) => timers[t].deadline > checkAt]_vars

\* immediate_object.go: the queue holds the Immediates that are to come, each
\* once and in the order they were made, cleared ones too, and the process
\* does not leave before the check phase has come to every one of them.
ImmediatesKept ==
  /\ \A i \in 1..Len(immediates) : immediates[i] = nImm - Len(immediates) + i
  /\ vm = "left" => immediates = <<>>

\* A live Timeout has its runtime timer armed in the queue that its ref says,
\* and the process leaves neither a ref'd one nor an Immediate behind.
TimersArmed == TypeOK /\ Armed /\ NoneLeftBehind /\ ImmediatesKept
\* Timeouts fire in the order of their deadlines, across wakeups of the
\* engine, and Immediates after the ones that were due.
TimersInOrder == FiresInOrder /\ CheckAfterTimers
=============================================================================
