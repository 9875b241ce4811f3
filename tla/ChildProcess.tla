---------------------------- MODULE ChildProcess ----------------------------
(***************************************************************************)
(* child_process.spawn(): the ChildProcess object, ref() and unref(), the  *)
(* goroutines that pump its pipes and wait for it, and the small Readable  *)
(* behind stdout and stderr, which keeps data until somebody listens.      *)
(*                                                                         *)
(* The chunks of a pipe are numbered in the order they are written.  A     *)
(* goroutine's tick is always run sooner or later: the wakeups of the loop *)
(* are the subject of HostLoop.                                            *)
(***************************************************************************)
EXTENDS Integers, Sequences, FiniteSets

CONSTANTS Children,     \* the calls of spawn()
          OutPiped,     \* those of which stdout is a pipe
          ErrPiped,     \* those of which stderr is a pipe
          MaxData,      \* chunks a child writes to a pipe
          MaxCalls,     \* calls of ref, unref, on("data"), resume and pause
          UnrefFailed   \* ref() and unref() are also called on a child that
                        \* failed to start

ASSUME ChildAssumption == /\ IsFiniteSet(Children)
                          /\ OutPiped \subseteq Children /\ ErrPiped \subseteq Children
                          /\ MaxData \in Nat /\ MaxCalls \in Nat
                          /\ UnrefFailed \in BOOLEAN

VARIABLES
  vm,       \* "js": in the script or a callback; "loop"; "left"
  tickQ,    \* ScheduleNextTick's queue
  ops,      \* the engine's count of external ops
  os,       \* os[c]: "none", "failed" to start, "running", "exited"
  handle,   \* handle[c]: spawnHandle, and whether spawnHandles has it
  pipe,     \* pipe[c][s]: chunks written and read; is a writer left
  pump,     \* pump[c][s]: pumpSpawnStream's goroutine
  waiter,   \* waiter[c]: waitSpawnProcess's goroutine
  stream,   \* stream[c][s]: pendingStreamData, and is there a "data" listener
  seen,     \* seen[c]: the events emitted on the child and on its streams
  calls     \* how many of MaxCalls were made

processes == <<os, pipe>>
vars == <<vm, tickQ, ops, handle, processes, pump, waiter, stream, seen, calls>>

Pipes == (OutPiped \X {"out"}) \cup (ErrPiped \X {"err"})
Event(k, s, n) == [kind |-> k, s |-> s, n |-> n]
Tick(c, k, s, n) == [c |-> c, kind |-> k, s |-> s, n |-> n]

Init == /\ vm = "js" /\ tickQ = <<>> /\ ops = 0 /\ calls = 0
        /\ os = [c \in Children |-> "none"]
        /\ handle = [c \in Children |-> [refed |-> FALSE, exited |-> FALSE, known |-> FALSE]]
        /\ pipe = [p \in Pipes |-> [sent |-> 0, read |-> 0, open |-> FALSE]]
        /\ pump = [p \in Pipes |-> "off"]
        /\ waiter = [c \in Children |-> "off"]
        /\ stream = [p \in Pipes |-> [chunks |-> <<>>, ended |-> FALSE, resumed |-> FALSE,
                                      listening |-> FALSE]]
        /\ seen = [c \in Children |-> <<>>]

Of(c) == {p \in Pipes : p[1] = c}

(***************************************************************************)
(* What JavaScript calls                                                   *)
(***************************************************************************)

\* The handle is stored, ref'd, and the op begun before cmd.Start().
SpawnStarts(c) ==
  /\ vm = "js" /\ os[c] = "none"
  /\ os' = [os EXCEPT ![c] = "running"]
  /\ handle' = [handle EXCEPT ![c] = [refed |-> TRUE, exited |-> FALSE, known |-> TRUE]]
  /\ ops' = ops + 1
  /\ pipe' = [p \in Pipes |-> IF p \in Of(c) THEN [pipe[p] EXCEPT !.open = TRUE] ELSE pipe[p]]
  /\ pump' = [p \in Pipes |-> IF p \in Of(c) THEN "read" ELSE pump[p]]
  /\ waiter' = [waiter EXCEPT ![c] = "pumps"]
  /\ UNCHANGED <<vm, tickQ, stream, seen, calls>>

\* cmd.Start() fails: the op is ended at once; the handle stays as it is.
SpawnFails(c) ==
  /\ vm = "js" /\ os[c] = "none"
  /\ os' = [os EXCEPT ![c] = "failed"]
  /\ handle' = [handle EXCEPT ![c] = [refed |-> TRUE, exited |-> FALSE, known |-> TRUE]]
  /\ tickQ' = tickQ \o <<Tick(c, "error", "none", 0), Tick(c, "close", "none", 0)>>
  /\ UNCHANGED <<vm, ops, pipe, pump, waiter, stream, seen, calls>>

Called == vm = "js" /\ calls < MaxCalls /\ calls' = calls + 1
Reffable(c) == handle[c].known /\ ~handle[c].exited /\ (os[c] = "failed" => UnrefFailed)

Unref(c) == /\ Called /\ Reffable(c) /\ handle[c].refed
            /\ handle' = [handle EXCEPT ![c].refed = FALSE]
            /\ ops' = ops - 1
            /\ UNCHANGED <<vm, tickQ, processes, pump, waiter, stream, seen>>

Ref(c) == /\ Called /\ Reffable(c) /\ ~handle[c].refed
          /\ handle' = [handle EXCEPT ![c].refed = TRUE]
          /\ ops' = ops + 1
          /\ UNCHANGED <<vm, tickQ, processes, pump, waiter, stream, seen>>

\* flushPendingStreamData: with somebody to hear it, all that is kept is
\* emitted, then "end" if the pipe has ended.
Flushed(st) ==
  IF st.listening \/ st.resumed
    THEN [chunks |-> <<>>, ended |-> FALSE, resumed |-> st.resumed, listening |-> st.listening]
    ELSE st
Emitted(p, st) ==
  IF st.listening \/ st.resumed
    THEN [i \in 1..Len(st.chunks) |-> Event("data", p[2], st.chunks[i])]
           \o (IF st.ended THEN <<Event("end", p[2], 0)>> ELSE <<>>)
    ELSE <<>>
Flush(p, st) == /\ stream' = [stream EXCEPT ![p] = Flushed(st)]
                /\ seen' = [seen EXCEPT ![p[1]] = @ \o Emitted(p, st)]

\* on("data"): what was kept for it comes in a tick of its own.
Listen(p) == /\ Called /\ os[p[1]] # "none" /\ ~stream[p].listening
             /\ stream' = [stream EXCEPT ![p].listening = TRUE]
             /\ tickQ' = Append(tickQ, Tick(p[1], "flush", p[2], 0))
             /\ UNCHANGED <<vm, ops, handle, processes, pump, waiter, seen>>

\* resume() flushes before it returns.
Resume(p) == /\ Called /\ os[p[1]] # "none" /\ ~stream[p].resumed
             /\ Flush(p, [stream[p] EXCEPT !.resumed = TRUE])
             /\ UNCHANGED <<vm, tickQ, ops, handle, processes, pump, waiter>>

Pause(p) == /\ Called /\ stream[p].resumed
            /\ stream' = [stream EXCEPT ![p].resumed = FALSE]
            /\ UNCHANGED <<vm, tickQ, ops, handle, processes, pump, waiter, seen>>

(***************************************************************************)
(* The child process                                                       *)
(***************************************************************************)

Writes(p) == /\ pipe[p].open /\ pipe[p].sent < MaxData
             /\ pipe' = [pipe EXCEPT ![p].sent = @ + 1]
             /\ UNCHANGED <<vm, tickQ, ops, handle, os, pump, waiter, stream, seen, calls>>

\* The last process that has the pipe's write end is gone or closed it.
Closes(p) == /\ pipe[p].open
             /\ pipe' = [pipe EXCEPT ![p].open = FALSE]
             /\ UNCHANGED <<vm, tickQ, ops, handle, os, pump, waiter, stream, seen, calls>>

Exits(c) == /\ os[c] = "running"
            /\ os' = [os EXCEPT ![c] = "exited"]
            /\ UNCHANGED <<vm, tickQ, ops, handle, pipe, pump, waiter, stream, seen, calls>>

(***************************************************************************)
(* pumpSpawnStream and waitSpawnProcess                                    *)
(***************************************************************************)
Alive == vm # "left"

PumpReads(p) == /\ Alive /\ pump[p] = "read" /\ pipe[p].read < pipe[p].sent
                /\ pipe' = [pipe EXCEPT ![p].read = @ + 1]
                /\ tickQ' = Append(tickQ, Tick(p[1], "data", p[2], pipe[p].read + 1))
                /\ UNCHANGED <<vm, ops, handle, os, pump, waiter, stream, seen, calls>>

\* A Read of the pipe ends with EOF.  That it fails otherwise is left out: only
\* the pump itself closes its end, once it is done.
\* Mutant: the pump returns without wg.Done().
PumpEnds_NoDone(p) ==
  /\ Alive /\ pump[p] = "read" /\ ~pipe[p].open /\ pipe[p].read = pipe[p].sent
  /\ tickQ' = Append(tickQ, Tick(p[1], "end", p[2], 0))
  /\ pump' = [pump EXCEPT ![p] = "off"]
  /\ UNCHANGED <<vm, ops, handle, processes, waiter, stream, seen, calls>>

PumpEnds(p) == /\ Alive /\ pump[p] = "read" /\ ~pipe[p].open /\ pipe[p].read = pipe[p].sent
               /\ tickQ' = Append(tickQ, Tick(p[1], "end", p[2], 0))
               /\ pump' = [pump EXCEPT ![p] = "ended"]
               /\ UNCHANGED <<vm, ops, handle, processes, waiter, stream, seen, calls>>

\* The deferred wg.Done().
PumpDone(p) == /\ Alive /\ pump[p] = "ended"
               /\ pump' = [pump EXCEPT ![p] = "done"]
               /\ UNCHANGED <<vm, tickQ, ops, handle, processes, waiter, stream, seen, calls>>

\* Mutant: the child is waited for while its pipes are still being read.
PumpsWaited_Not(c) == /\ Alive /\ waiter[c] = "pumps"
                      /\ waiter' = [waiter EXCEPT ![c] = "wait"]
                      /\ UNCHANGED <<vm, tickQ, ops, handle, processes, pump, stream, seen, calls>>

\* pumpDone.Wait()
PumpsWaited(c) == /\ Alive /\ waiter[c] = "pumps" /\ \A p \in Of(c) : pump[p] = "done"
                  /\ waiter' = [waiter EXCEPT ![c] = "wait"]
                  /\ UNCHANGED <<vm, tickQ, ops, handle, processes, pump, stream, seen, calls>>

\* cmd.Wait(), which may fail for a reason of its own, then the tick that
\* emits "exit" and "close".
Reaps(c) == /\ Alive /\ waiter[c] = "wait" /\ os[c] = "exited"
            /\ \E failed \in BOOLEAN :
                 tickQ' = tickQ \o (IF failed THEN <<Tick(c, "error", "none", 0)>> ELSE <<>>)
                                \o <<Tick(c, "exit", "none", 0)>>
            /\ waiter' = [waiter EXCEPT ![c] = "mark"]
            /\ UNCHANGED <<vm, ops, handle, processes, pump, stream, seen, calls>>

\* Mutant: the op is released whether or not unref() did so already.
Marks_Always(c) ==
  /\ Alive /\ waiter[c] = "mark"
  /\ handle' = [handle EXCEPT ![c].exited = TRUE]
  /\ waiter' = [waiter EXCEPT ![c] = "release"]
  /\ UNCHANGED <<vm, tickQ, ops, processes, pump, stream, seen, calls>>

\* Under the lock: from here on ref() and unref() do nothing.
Marks(c) == /\ Alive /\ waiter[c] = "mark"
            /\ handle' = [handle EXCEPT ![c].exited = TRUE]
            /\ waiter' = [waiter EXCEPT ![c] = IF handle[c].refed THEN "release" ELSE "forget"]
            /\ UNCHANGED <<vm, tickQ, ops, processes, pump, stream, seen, calls>>

Releases(c) == /\ Alive /\ waiter[c] = "release"
               /\ ops' = ops - 1
               /\ waiter' = [waiter EXCEPT ![c] = "forget"]
               /\ UNCHANGED <<vm, tickQ, handle, processes, pump, stream, seen, calls>>

Forgets(c) == /\ Alive /\ waiter[c] = "forget"
              /\ handle' = [handle EXCEPT ![c].known = FALSE]
              /\ waiter' = [waiter EXCEPT ![c] = "done"]
              /\ UNCHANGED <<vm, tickQ, ops, processes, pump, stream, seen, calls>>

(***************************************************************************)
(* The loop                                                                *)
(***************************************************************************)

\* scheduleEmit's tick for a stream, and on("data")'s: keep, then flush.
Received(st, t) == IF t.kind = "data" THEN [st EXCEPT !.chunks = Append(@, t.n)]
                   ELSE IF t.kind = "end" THEN [st EXCEPT !.ended = TRUE] ELSE st

RunTick == /\ vm = "loop" /\ tickQ # <<>>
           /\ tickQ' = Tail(tickQ)
           /\ vm' = "js"
           /\ LET t == Head(tickQ)  p == <<t.c, t.s>> IN
                IF p \in Pipes
                  THEN Flush(p, Received(stream[p], t))
                  ELSE /\ seen' = [seen EXCEPT ![t.c] = @ \o
                             (IF t.kind = "exit"
                                THEN <<Event("exit", "none", 0), Event("close", "none", 0)>>
                                ELSE <<Event(t.kind, "none", 0)>>)]
                       /\ UNCHANGED stream
           /\ UNCHANGED <<ops, handle, processes, pump, waiter, calls>>

Return == /\ vm = "js"
          /\ vm' = "loop"
          /\ UNCHANGED <<tickQ, ops, handle, processes, pump, waiter, stream, seen, calls>>

Leave == /\ vm = "loop" /\ tickQ = <<>> /\ ops <= 0
         /\ vm' = "left"
         /\ UNCHANGED <<tickQ, ops, handle, processes, pump, waiter, stream, seen, calls>>

Next == \/ \E c \in Children : SpawnStarts(c) \/ SpawnFails(c) \/ Unref(c) \/ Ref(c) \/ Exits(c)
                               \/ PumpsWaited(c) \/ Reaps(c) \/ Marks(c) \/ Releases(c) \/ Forgets(c)
        \/ \E p \in Pipes : Listen(p) \/ Resume(p) \/ Pause(p) \/ Writes(p) \/ Closes(p)
                            \/ PumpReads(p) \/ PumpEnds(p) \/ PumpDone(p)
        \/ RunTick \/ Return \/ Leave

\* The goroutines and the loop run, and callbacks return.  Nothing makes a
\* child exit or close its pipes.
Fairness == /\ \A p \in Pipes : WF_vars(PumpReads(p)) /\ WF_vars(PumpEnds(p)) /\ WF_vars(PumpDone(p))
            /\ \A c \in Children : /\ WF_vars(PumpsWaited(c)) /\ WF_vars(Reaps(c)) /\ WF_vars(Marks(c))
                                   /\ WF_vars(Releases(c)) /\ WF_vars(Forgets(c))
            /\ WF_vars(RunTick) /\ WF_vars(Return)

Spec == Init /\ [][Next]_vars /\ Fairness

(***************************************************************************)
(* Properties                                                              *)
(***************************************************************************)

TypeOK == /\ vm \in {"js", "loop", "left"} /\ ops \in Int /\ calls \in 0..MaxCalls
          /\ tickQ \in Seq([c : Children, s : {"none", "out", "err"}, n : Nat,
                            kind : {"data", "end", "flush", "error", "close", "exit"}])
          /\ os \in [Children -> {"none", "failed", "running", "exited"}]
          /\ handle \in [Children -> [refed : BOOLEAN, exited : BOOLEAN, known : BOOLEAN]]
          /\ pipe \in [Pipes -> [sent : 0..MaxData, read : 0..MaxData, open : BOOLEAN]]
          /\ pump \in [Pipes -> {"off", "read", "ended", "done"}]
          /\ waiter \in [Children -> {"off", "pumps", "wait", "mark", "release", "forget", "done"}]
          /\ stream \in [Pipes -> [chunks : Seq(Nat), ended : BOOLEAN, resumed : BOOLEAN,
                                   listening : BOOLEAN]]
          /\ seen \in [Children -> Seq([kind : {"data", "end", "error", "close", "exit"},
                                        s : {"none", "out", "err"}, n : Nat])]

\* child_process.go:377-384: ref() and unref() racing the exit leave the count
\* balanced.  An op is held for each started child that is ref'd and not marked,
\* and for one whose waiter is about to release it.
Holds(c) == \/ waiter[c] \in {"pumps", "wait", "mark"} /\ handle[c].refed
            \/ waiter[c] = "release"
OpsBalanced == ops = Cardinality({c \in Children : Holds(c)})

Has(c, kind) == \E i \in 1..Len(seen[c]) : seen[c][i].kind = kind

\* child_process.go:323-324: a child that is ref'd keeps the loop alive, until
\* its "exit" has been emitted.
KeptAlive == vm = "left" => \A c \in Children :
               os[c] \in {"running", "exited"} /\ handle[c].refed => Has(c, "exit")

\* child_process.go:424-440: "exit" is only emitted when all that the child wrote
\* has reached the streams, so that somebody who listens from the start has
\* heard it, and its end, before.
OutputFirst == \A c \in Children : Has(c, "exit") =>
                 \A p \in Of(c) :
                   /\ pipe[p].read = pipe[p].sent /\ ~pipe[p].open
                   /\ \A i \in 1..Len(tickQ) :
                        tickQ[i].c = c /\ tickQ[i].s = p[2] => tickQ[i].kind = "flush"

\* emitter.go:557-564: a listener that comes late, resume() and pause() in any
\* order, change when the chunks are emitted, not which nor in what order.
\* "end" comes once and last.  What was emitted, what the stream keeps and what
\* is queued for it are the units 1, 2, ... up to the last that the pump read,
\* and then, if the pump has ended, a 0 for "end".
Output == {"data", "end"}
Heard(p) == {i \in 1..Len(seen[p[1]]) : seen[p[1]][i].s = p[2] /\ seen[p[1]][i].kind \in Output}
Coming(p) == {i \in 1..Len(tickQ) : <<tickQ[i].c, tickQ[i].s>> = p /\ tickQ[i].kind \in Output}
UpTo(S, i) == {k \in S : k <= i}
Unit(p, i) == IF i = pipe[p].read + 1 THEN 0 ELSE i
Along(p) == Cardinality(Heard(p)) + Len(stream[p].chunks) + (IF stream[p].ended THEN 1 ELSE 0)
InOrder == \A p \in Pipes :
  /\ \A i \in Heard(p) : seen[p[1]][i].n = Unit(p, Cardinality(UpTo(Heard(p), i)))
  /\ \A k \in 1..Len(stream[p].chunks) : stream[p].chunks[k] = Unit(p, Cardinality(Heard(p)) + k)
  /\ stream[p].ended => Unit(p, Along(p)) = 0
  /\ \A i \in Coming(p) : tickQ[i].n = Unit(p, Along(p) + Cardinality(UpTo(Coming(p), i)))
  /\ Along(p) + Cardinality(Coming(p))
       = pipe[p].read + (IF pump[p] \in {"ended", "done"} THEN 1 ELSE 0)

\* Output comes before exit, and its chunks in the order they were written,
\* whoever listens, pauses and resumes when.
OutputKept == OutputFirst /\ InOrder

\* Once a child has exited and its pipes are closed, its "exit" is emitted.
ExitHeard == \A c \in Children :
               (os[c] = "exited" /\ \A p \in Of(c) : ~pipe[p].open) ~> (Has(c, "exit") \/ vm = "left")

\* The loop's count is the children that hold it, whatever order ref, unref
\* and the exit come in, and a ref'd child's exit is emitted before leaving.
ChildrenHold == TypeOK /\ OpsBalanced /\ KeptAlive
=============================================================================
