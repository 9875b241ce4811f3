------------------------------ MODULE HostLoop ------------------------------
(***************************************************************************)
(* The event loop as host code uses it, for operations that run on a       *)
(* goroutine and answer through a callback (dns.go lookup, lookupService   *)
(* and query, crypto_binding.go async): the VM thread registers an         *)
(* external op, the goroutine queues a macrotask, the macrotask calls back *)
(* and releases the op.                                                    *)
(*                                                                         *)
(* The loop itself belongs to the engine.  What is modelled of it is what  *)
(* net.go:117-126 records: DrainUntilIdle looks at the queue, then calls   *)
(* WaitForExternalOp, which waits on a condition variable without looking  *)
(* at the queue again.  scheduleIO works around the wakeup this can lose   *)
(* with a waker goroutine.                                                 *)
(***************************************************************************)
EXTENDS Naturals, Sequences, FiniteSets

CONSTANTS Jobs,      \* the operations a program may start
          Kicked,    \* those that answer through scheduleIO; the rest call
                     \* ScheduleMacrotask directly
          Script     \* stands for the main script: no operation

ASSUME JobsAssumption == IsFiniteSet(Jobs) /\ Kicked \subseteq Jobs /\ Script \notin Jobs

VARIABLES
  job,       \* job[j]: "new", "working", "posted", "running" or "done"
  kicks,     \* goroutines between ScheduleMacrotask and kickWaker
  macroQ,    \* the macrotask queue
  ops,       \* the engine's count of external ops
  vm,        \* "run" JavaScript, "check" the queue, "gap" (decided to wait,
             \* not waiting yet), "wait" on the condition, "left" the loop
  cur,       \* what "run" is running: a job's callback, or the script
  token,     \* the waker's channel, of capacity one, holds a signal
  waker,     \* "recv", "sleep" for 1 ms, "pulse" (between Begin and End)
  oldGap     \* the gap that was open when the sleep began is still open

vars == <<job, kicks, macroQ, ops, vm, cur, token, waker, oldGap>>

Owed == {j \in Jobs : job[j] \in {"working", "posted", "running"}}

Init == /\ job = [j \in Jobs |-> "new"]
        /\ kicks = {}
        /\ macroQ = <<>>
        /\ ops = 0
        /\ vm = "run"
        /\ cur = Script
        /\ token = FALSE
        /\ waker = "recv"
        /\ oldGap = FALSE

\* A broadcast on the loop's condition wakes the VM only if it waits already.
Woken == IF vm = "wait" THEN "check" ELSE vm

\* Mutant: the binding forgets BeginExternalOp.
Start_NoBegin(j) == /\ vm = "run" /\ job[j] = "new"
                    /\ job' = [job EXCEPT ![j] = "working"]
                    /\ UNCHANGED <<kicks, macroQ, ops, vm, cur, token, waker, oldGap>>

\* BeginExternalOp; go func() { work }
Start(j) == /\ vm = "run"
            /\ job[j] = "new"
            /\ job' = [job EXCEPT ![j] = "working"]
            /\ ops' = ops + 1
            /\ UNCHANGED <<kicks, macroQ, vm, cur, token, waker, oldGap>>

\* The goroutine has its answer: ScheduleMacrotask appends and broadcasts.
Post(j) == /\ job[j] = "working"
           /\ job' = [job EXCEPT ![j] = "posted"]
           /\ kicks' = IF j \in Kicked THEN kicks \cup {j} ELSE kicks
           /\ macroQ' = Append(macroQ, j)
           /\ vm' = Woken
           /\ UNCHANGED <<ops, cur, token, waker, oldGap>>

\* kickWaker: a send that never blocks, by when the VM may have run the
\* macrotask already.
Kick(j) == /\ j \in kicks
           /\ kicks' = kicks \ {j}
           /\ token' = TRUE
           /\ UNCHANGED <<job, macroQ, ops, vm, cur, waker, oldGap>>

\* for range ch { time.Sleep(time.Millisecond); ... }
WakerReceive == /\ waker = "recv"
                /\ token
                /\ token' = FALSE
                /\ waker' = "sleep"
                /\ oldGap' = (vm = "gap")
                /\ UNCHANGED <<job, kicks, macroQ, ops, vm, cur>>

\* Mutant: the waker does not sleep before its pulse.
WakerBegin_NoSleep == /\ waker = "sleep"
                      /\ ops' = ops + 1
                      /\ waker' = "pulse"
                      /\ UNCHANGED <<job, kicks, macroQ, vm, cur, token, oldGap>>

\* One millisecond is taken to be longer than the VM needs from looking at
\* the queue to waiting: a gap already open when the sleep began is over.
WakerBegin == /\ waker = "sleep"
              /\ ~oldGap
              /\ ops' = ops + 1
              /\ waker' = "pulse"
              /\ UNCHANGED <<job, kicks, macroQ, vm, cur, token, oldGap>>

WakerEnd == /\ waker = "pulse"
            /\ ops' = ops - 1
            /\ vm' = Woken
            /\ waker' = "recv"
            /\ UNCHANGED <<job, kicks, macroQ, cur, token, oldGap>>

\* DrainUntilIdle takes the next macrotask.
RunMacrotask == /\ vm = "check"
                /\ macroQ # <<>>
                /\ cur' = Head(macroQ)
                /\ macroQ' = Tail(macroQ)
                /\ job' = [job EXCEPT ![Head(macroQ)] = "running"]
                /\ vm' = "run"
                /\ UNCHANGED <<kicks, ops, token, waker, oldGap>>

\* Mutant: the macrotask does not release its op.
Return_NoEnd == /\ vm = "run"
                /\ vm' = "check"
                /\ job' = IF cur = Script THEN job ELSE [job EXCEPT ![cur] = "done"]
                /\ cur' = Script
                /\ UNCHANGED <<kicks, ops, macroQ, token, waker, oldGap>>

\* The callback returns and the deferred EndExternalOp releases the op; the
\* script returns and the loop starts.
Return == /\ vm = "run"
          /\ vm' = "check"
          /\ IF cur = Script
               THEN UNCHANGED <<job, kicks, ops>>
               ELSE /\ job' = [job EXCEPT ![cur] = "done"]
                    /\ ops' = ops - 1
          /\ cur' = Script
          /\ UNCHANGED <<kicks, macroQ, token, waker, oldGap>>

\* The queue is empty: wait if an external op is registered, else leave.
LookEmpty == /\ vm = "check"
             /\ macroQ = <<>>
             /\ vm' = IF ops > 0 THEN "gap" ELSE "left"
             /\ UNCHANGED <<job, kicks, macroQ, ops, cur, token, waker, oldGap>>

\* WaitForExternalOp looks at the count, never at the queue.
Wait == /\ vm = "gap"
        /\ vm' = IF ops > 0 THEN "wait" ELSE "check"
        /\ oldGap' = FALSE
        /\ UNCHANGED <<job, kicks, macroQ, ops, cur, token, waker>>

Next == \/ \E j \in Jobs : Start(j) \/ Post(j) \/ Kick(j)
        \/ WakerReceive \/ WakerBegin \/ WakerEnd
        \/ RunMacrotask \/ Return \/ LookEmpty \/ Wait

\* Every goroutine the Go scheduler can run gets to run, and callbacks return.
\* No program has to start an operation.
Fairness == /\ \A j \in Jobs : WF_vars(Post(j)) /\ WF_vars(Kick(j))
            /\ WF_vars(WakerReceive) /\ WF_vars(WakerBegin) /\ WF_vars(WakerEnd)
            /\ WF_vars(RunMacrotask) /\ WF_vars(Return)
            /\ WF_vars(LookEmpty) /\ WF_vars(Wait)

Spec == Init /\ [][Next]_vars /\ Fairness

(***************************************************************************)
(* Properties                                                              *)
(***************************************************************************)

TypeOK == /\ job \in [Jobs -> {"new", "working", "posted", "running", "done"}]
          /\ kicks \subseteq Jobs
          /\ macroQ \in Seq(Jobs)
          /\ ops \in Nat
          /\ vm \in {"run", "check", "gap", "wait", "left"}
          /\ cur \in Jobs \cup {Script}
          /\ token \in BOOLEAN
          /\ waker \in {"recv", "sleep", "pulse"}
          /\ oldGap \in BOOLEAN

\* The engine's count is the number of operations still owed a callback,
\* plus the waker's own pulse: the Begin of every binding is balanced by the
\* deferred End of its macrotask, and by nothing else.
OpsBalanced == ops = Cardinality(Owed) + (IF waker = "pulse" THEN 1 ELSE 0)

\* DrainUntilIdle never returns, and the process never exits, while an
\* operation that was started is still owed its callback.
NoneOwedAtExit == vm = "left" => Owed = {}

\* Whatever the order in which goroutines post, kick and pulse, an operation
\* that was started gets its callback: no wakeup is lost for good.
Delivered == \A j \in Jobs : (job[j] = "working") ~> (job[j] = "done")

\* When nothing is left to do the process exits; the waker's pulse, which
\* holds an op for a moment, does not keep it.
Leaves == <>(vm = "left")

\* The loop implements the promise made to callers.
PhaseOf(s) == IF s = "new" THEN "new"
              ELSE IF s = "done" THEN "delivered" ELSE "pending"

Promise == INSTANCE AsyncOps WITH phase <- [j \in Jobs |-> PhaseOf(job[j])],
                                  left <- (vm = "left")
Implements == Promise!ASpec

\* Every operation is called back although its macrotask may be
\* posted in the loop's gap, and the waker's pulse does not hold the process.
Settles == Delivered /\ Leaves
=============================================================================
