--------------------------- MODULE HostLoop_proof ---------------------------
(***************************************************************************)
(* Proofs about HostLoop, for any finite set of operations and any choice  *)
(* of which of them answer through scheduleIO.                             *)
(***************************************************************************)
EXTENDS HostLoop, FiniteSetTheorems, TLAPS

\* The queue holds each posted operation once, so the macrotask that is taken
\* is the one whose op it will release.
QueueOK == /\ \A i \in 1..Len(macroQ) : job[macroQ[i]] = "posted"
           /\ \A i, k \in 1..Len(macroQ) : macroQ[i] = macroQ[k] => i = k

\* What "run" runs is what is marked as running.
RunningOK == /\ cur \in Jobs => vm = "run"
             /\ \A j \in Jobs : job[j] = "running" <=> cur = j

IInv == /\ TypeOK
        /\ QueueOK
        /\ RunningOK
        /\ OpsBalanced
        /\ NoneOwedAtExit

LEMMA OwedFinite == TypeOK => IsFiniteSet(Owed) /\ Cardinality(Owed) \in Nat
<1>1. IsFiniteSet(Owed)
  BY JobsAssumption, FS_Subset DEF Owed
<1>2. QED BY <1>1, FS_CardinalityType

\* The initial state.
LEMMA InitInv == Init => IInv
<1> SUFFICES ASSUME Init PROVE IInv
  OBVIOUS
<1>1. TypeOK
  <2>1. job \in [Jobs -> {"new", "working", "posted", "running", "done"}]
    BY DEF Init
  <2>2. macroQ \in Seq(Jobs) /\ ops \in Nat
    BY DEF Init
  <2>3. QED BY <2>1, <2>2 DEF Init, TypeOK
<1>2. QueueOK
  BY DEF Init, QueueOK
<1>3. RunningOK
  BY JobsAssumption DEF Init, RunningOK
<1>4. Owed = {}
  BY DEF Init, Owed
<1>5. OpsBalanced
  BY <1>4, FS_EmptySet DEF Init, OpsBalanced
<1>6. NoneOwedAtExit
  BY DEF Init, NoneOwedAtExit
<1>7. QED BY <1>1, <1>2, <1>3, <1>5, <1>6 DEF IInv

\* Every step keeps the types, the queue and the running callback in order.
LEMMA StepShape == IInv /\ [Next]_vars => TypeOK' /\ QueueOK' /\ RunningOK'
<1> SUFFICES ASSUME IInv, [Next]_vars PROVE TypeOK' /\ QueueOK' /\ RunningOK'
  OBVIOUS
<1> USE JobsAssumption
<1>1. ASSUME NEW j \in Jobs, Start(j) PROVE TypeOK' /\ QueueOK' /\ RunningOK'
  <2>1. TypeOK'
    BY <1>1 DEF IInv, TypeOK, Start
  <2>2. QueueOK'
    BY <1>1 DEF IInv, TypeOK, QueueOK, Start
  <2>3. RunningOK'
    BY <1>1 DEF IInv, TypeOK, RunningOK, Start
  <2>4. QED BY <2>1, <2>2, <2>3
<1>2. ASSUME NEW j \in Jobs, Post(j) PROVE TypeOK' /\ QueueOK' /\ RunningOK'
  <2>1. TypeOK'
    BY <1>2 DEF IInv, TypeOK, Post, Woken
  <2>2. QueueOK'
    BY <1>2 DEF IInv, TypeOK, QueueOK, Post
  <2>3. RunningOK'
    BY <1>2 DEF IInv, TypeOK, RunningOK, Post, Woken
  <2>4. QED BY <2>1, <2>2, <2>3
<1>3. ASSUME NEW j \in Jobs, Kick(j) PROVE TypeOK' /\ QueueOK' /\ RunningOK'
  BY <1>3 DEF IInv, TypeOK, QueueOK, RunningOK, Kick
<1>4. CASE WakerReceive
  BY <1>4 DEF IInv, TypeOK, QueueOK, RunningOK, WakerReceive
<1>5. CASE WakerBegin
  BY <1>5 DEF IInv, TypeOK, QueueOK, RunningOK, WakerBegin
<1>6. CASE WakerEnd
  <2>1. ops' \in Nat
    BY <1>6, OwedFinite DEF IInv, TypeOK, OpsBalanced, WakerEnd
  <2>2. QED BY <1>6, <2>1 DEF IInv, TypeOK, QueueOK, RunningOK, WakerEnd, Woken
<1>7. CASE RunMacrotask
  <2> DEFINE h == Head(macroQ)
  <2>1. Len(macroQ) > 0 /\ h = macroQ[1] /\ h \in Jobs /\ job[h] = "posted"
    BY <1>7 DEF IInv, TypeOK, QueueOK, RunMacrotask
  <2>2. TypeOK'
    BY <1>7, <2>1 DEF IInv, TypeOK, RunMacrotask
  <2>3. /\ Len(macroQ') = Len(macroQ) - 1
        /\ \A i \in 1..Len(macroQ') : macroQ'[i] = macroQ[i + 1] /\ i + 1 \in 1..Len(macroQ)
    BY <1>7, <2>1 DEF IInv, TypeOK, RunMacrotask
  <2>4. QueueOK'
    BY <1>7, <2>1, <2>3 DEF IInv, TypeOK, QueueOK, RunMacrotask
  <2>5. RunningOK'
    BY <1>7, <2>1 DEF IInv, TypeOK, RunningOK, RunMacrotask
  <2>6. QED BY <2>2, <2>4, <2>5
<1>8. CASE Return
  <2>1. CASE cur = Script
    BY <1>8, <2>1 DEF IInv, TypeOK, QueueOK, RunningOK, Return
  <2>2. CASE cur # Script
    <3>1. cur \in Jobs /\ job[cur] = "running" /\ cur \in Owed
      BY <2>2 DEF IInv, TypeOK, RunningOK, Owed
    <3>2. Cardinality(Owed) > 0
      BY <3>1, OwedFinite, FS_EmptySet DEF IInv
    <3>3. ops' \in Nat
      BY <1>8, <2>2, <3>2, OwedFinite DEF IInv, TypeOK, OpsBalanced, Return
    <3>4. QED BY <1>8, <2>2, <3>1, <3>3 DEF IInv, TypeOK, QueueOK, RunningOK, Return
  <2>3. QED BY <2>1, <2>2
<1>9. CASE LookEmpty
  BY <1>9 DEF IInv, TypeOK, QueueOK, RunningOK, LookEmpty
<1>10. CASE Wait
  BY <1>10 DEF IInv, TypeOK, QueueOK, RunningOK, Wait
<1>11. CASE UNCHANGED vars
  BY <1>11 DEF IInv, TypeOK, QueueOK, RunningOK, vars
<1>12. QED
  BY <1>1, <1>2, <1>3, <1>4, <1>5, <1>6, <1>7, <1>8, <1>9, <1>10, <1>11 DEF Next

\* Every step keeps the count of external ops equal to what is owed.
LEMMA StepBalance == IInv /\ [Next]_vars => OpsBalanced'
<1> SUFFICES ASSUME IInv, [Next]_vars PROVE OpsBalanced'
  OBVIOUS
<1>f. IsFiniteSet(Owed) /\ Cardinality(Owed) \in Nat
  BY OwedFinite DEF IInv
<1>1. ASSUME NEW j \in Jobs, Start(j) PROVE OpsBalanced'
  <2>1. Owed' = Owed \cup {j} /\ j \notin Owed
    BY <1>1 DEF IInv, TypeOK, Owed, Start
  <2>2. Cardinality(Owed') = Cardinality(Owed) + 1
    BY <1>f, <2>1, FS_AddElement
  <2>3. QED BY <1>f, <1>1, <2>2 DEF IInv, OpsBalanced, Start
<1>2. CASE Return
  <2>1. CASE cur = Script
    BY <1>2, <2>1 DEF IInv, OpsBalanced, Owed, Return
  <2>2. CASE cur # Script
    <3>1. cur \in Owed /\ Owed' = Owed \ {cur}
      BY <1>2, <2>2 DEF IInv, TypeOK, RunningOK, Owed, Return
    <3>2. Cardinality(Owed') = Cardinality(Owed) - 1
      BY <1>f, <3>1, FS_RemoveElement
    <3>3. QED BY <1>f, <1>2, <2>2, <3>2 DEF IInv, OpsBalanced, Return
  <2>3. QED BY <2>1, <2>2
<1>3. CASE WakerBegin
  <2>1. Owed' = Owed
    BY <1>3 DEF Owed, WakerBegin
  <2>2. QED BY <1>f, <1>3, <2>1 DEF IInv, OpsBalanced, WakerBegin
<1>4. CASE WakerEnd
  <2>1. Owed' = Owed
    BY <1>4 DEF Owed, WakerEnd
  <2>2. QED BY <1>f, <1>4, <2>1 DEF IInv, OpsBalanced, WakerEnd
<1>5. CASE RunMacrotask
  <2>1. Head(macroQ) \in Jobs /\ job[Head(macroQ)] = "posted"
    BY <1>5 DEF IInv, TypeOK, QueueOK, RunMacrotask
  <2>2. Owed' = Owed
    BY <1>5, <2>1 DEF IInv, TypeOK, Owed, RunMacrotask
  <2>3. QED BY <1>5, <2>2 DEF IInv, OpsBalanced, RunMacrotask
<1>6. ASSUME NEW j \in Jobs, Post(j) PROVE OpsBalanced'
  <2>1. Owed' = Owed
    BY <1>6 DEF IInv, TypeOK, Owed, Post
  <2>2. QED BY <1>6, <2>1 DEF IInv, OpsBalanced, Post
<1>7. ASSUME NEW j \in Jobs, Kick(j) PROVE OpsBalanced'
  BY <1>7 DEF IInv, OpsBalanced, Owed, Kick
<1>8. CASE WakerReceive \/ LookEmpty \/ Wait \/ UNCHANGED vars
  <2>1. Owed' = Owed /\ ops' = ops
    BY <1>8 DEF Owed, WakerReceive, LookEmpty, Wait, vars
  <2>2. (waker' = "pulse") = (waker = "pulse")
    BY <1>8 DEF WakerReceive, LookEmpty, Wait, vars
  <2>3. QED BY <2>1, <2>2 DEF IInv, OpsBalanced
<1>9. QED
  BY <1>1, <1>2, <1>3, <1>4, <1>5, <1>6, <1>7, <1>8 DEF Next

\* The loop is left only when nothing is owed, and nothing is started after.
LEMMA StepExit == IInv /\ [Next]_vars => NoneOwedAtExit'
<1> SUFFICES ASSUME IInv, [Next]_vars, vm' = "left" PROVE Owed' = {}
  BY DEF NoneOwedAtExit
<1>1. CASE vm = "left"
  <2>1. Owed = {} /\ cur = Script
    BY <1>1 DEF IInv, TypeOK, NoneOwedAtExit, RunningOK
  <2>2. \A j \in Jobs : ~Start(j) /\ ~Post(j)
    BY <1>1, <2>1 DEF Start, Post, Owed
  <2>3. ~RunMacrotask /\ ~Return
    BY <1>1 DEF RunMacrotask, Return
  <2>4. job' = job
    BY <2>2, <2>3 DEF Next, vars, Kick, WakerReceive, WakerBegin, WakerEnd, LookEmpty, Wait
  <2>5. QED BY <2>1, <2>4 DEF Owed
<1>2. CASE vm # "left"
  <2>1. LookEmpty
    BY <1>2 DEF Next, vars, Start, Post, Kick, WakerReceive, WakerBegin, WakerEnd,
                Woken, RunMacrotask, Return, Wait
  <2>2. ops = 0
    BY <2>1 DEF IInv, TypeOK, LookEmpty
  <2>3. Cardinality(Owed) = 0
    BY <2>2, OwedFinite DEF IInv, OpsBalanced
  <2>4. Owed = {}
    BY <2>3, OwedFinite, FS_EmptySet DEF IInv
  <2>5. QED BY <2>1, <2>4 DEF Owed, LookEmpty
<1>3. QED BY <1>1, <1>2

LEMMA StepInv == IInv /\ [Next]_vars => IInv'
  BY StepShape, StepBalance, StepExit DEF IInv

LEMMA InvHolds == Spec => []IInv
  BY InitInv, StepInv, PTL DEF Spec

\* The variables keep their types.
THEOREM TypeCorrect == Spec => []TypeOK
<1>1. IInv => TypeOK
  BY DEF IInv
<1>2. QED BY <1>1, InvHolds, PTL

\* The engine's external-op count is always the operations owed a callback
\* plus the waker's pulse (net.go:141-148, dns.go:405-473).
THEOREM Balanced == Spec => []OpsBalanced
<1>1. IInv => OpsBalanced
  BY DEF IInv
<1>2. QED BY <1>1, InvHolds, PTL

\* The process never exits while a started operation is owed its callback.
THEOREM ExitSafe == Spec => []NoneOwedAtExit
<1>1. IInv => NoneOwedAtExit
  BY DEF IInv
<1>2. QED BY <1>1, InvHolds, PTL

\* Initially nothing is promised.
LEMMA RefinesInit == Init => Promise!AInit
  BY DEF Init, Promise!AInit, PhaseOf

\* Each step of the loop is a start, a delivery, the exit, or invisible.
LEMMA RefinesStep == IInv /\ [Next]_vars => [Promise!ANext]_(Promise!avars)
<1> SUFFICES ASSUME IInv, [Next]_vars PROVE Promise!ANext \/ UNCHANGED Promise!avars
  OBVIOUS
<1>1. ASSUME NEW j \in Jobs, Start(j) PROVE Promise!ANext
  <2>1. Promise!AStart(j)
    BY <1>1 DEF IInv, TypeOK, Start, Promise!AStart, PhaseOf
  <2>2. QED BY <2>1 DEF Promise!ANext
<1>2. ASSUME NEW j \in Jobs, Post(j) PROVE UNCHANGED Promise!avars
  BY <1>2 DEF IInv, TypeOK, Post, Woken, Promise!avars, PhaseOf
<1>3. ASSUME job' = job, (vm' = "left") = (vm = "left") PROVE UNCHANGED Promise!avars
  BY <1>3 DEF Promise!avars
<1>4. ASSUME NEW j \in Jobs, Kick(j) PROVE UNCHANGED Promise!avars
  BY <1>3, <1>4 DEF Kick
<1>5. CASE WakerReceive \/ WakerBegin \/ WakerEnd \/ Wait
  BY <1>3, <1>5 DEF WakerReceive, WakerBegin, WakerEnd, Wait, Woken
<1>6. CASE RunMacrotask
  <2>1. Head(macroQ) \in Jobs /\ job[Head(macroQ)] = "posted"
    BY <1>6 DEF IInv, TypeOK, QueueOK, RunMacrotask
  <2>2. \A k \in Jobs : PhaseOf(job'[k]) = PhaseOf(job[k])
    BY <1>6, <2>1 DEF IInv, TypeOK, RunMacrotask, PhaseOf
  <2>3. UNCHANGED Promise!avars
    BY <1>6, <2>2 DEF RunMacrotask, Promise!avars
  <2>4. QED BY <2>3
<1>7. CASE Return
  <2>1. CASE cur = Script
    BY <1>3, <1>7, <2>1 DEF Return
  <2>2. CASE cur # Script
    <3>1. cur \in Jobs /\ job[cur] = "running"
      BY <2>2 DEF IInv, TypeOK, RunningOK
    <3>2. Promise!ADeliver(cur)
      BY <1>7, <2>2, <3>1 DEF IInv, TypeOK, Return, Promise!ADeliver, PhaseOf
    <3>3. QED BY <3>1, <3>2 DEF Promise!ANext
  <2>3. QED BY <2>1, <2>2
<1>8. CASE LookEmpty
  <2>1. CASE ops = 0
    <3>1. Owed = {}
      BY <2>1, OwedFinite, FS_EmptySet DEF IInv, OpsBalanced, LookEmpty, TypeOK
    <3>2. \A j \in Jobs : PhaseOf(job[j]) # "pending"
      BY <3>1 DEF IInv, TypeOK, Owed, PhaseOf
    <3>3. Promise!ALeave
      BY <1>8, <2>1, <3>2 DEF LookEmpty, Promise!ALeave
    <3>4. QED BY <3>3 DEF Promise!ANext
  <2>2. CASE ops # 0
    <3>1. vm = "check" /\ vm' = "gap" /\ job' = job
      BY <1>8, <2>2 DEF IInv, TypeOK, LookEmpty
    <3>2. QED BY <1>3, <3>1
  <2>3. QED BY <2>1, <2>2
<1>9. CASE UNCHANGED vars
  BY <1>3, <1>9 DEF vars
<1>10. QED
  BY <1>1, <1>2, <1>4, <1>5, <1>6, <1>7, <1>8, <1>9 DEF Next

\* HostLoop implements AsyncOps: every operation a binding starts is delivered
\* at most once, and the loop is left only when none is pending.
THEOREM Refinement == Spec => Implements
<1>1. Init => Promise!AInit
  BY RefinesInit
<1>2. IInv /\ [Next]_vars => [Promise!ANext]_(Promise!avars)
  BY RefinesStep
<1>3. QED BY <1>1, <1>2, InvHolds, PTL DEF Spec, Implements, Promise!ASpec
=============================================================================
