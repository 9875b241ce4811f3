---------------------------- MODULE Timers_proof ----------------------------
(***************************************************************************)
(* Proofs about Timers, for any number of Timeouts, Immediates and calls,  *)
(* any delays and any clock, whether or not an interval's callback rearms  *)
(* the interval.                                                           *)
(***************************************************************************)
EXTENDS Timers, SequenceTheorems, TLAPS

TimerType == [live : BOOLEAN, repeat : BOOLEAN, refed : BOOLEAN, delay : Delays,
              start : Nat, deadline : Nat, id : Nat]

\* Which phases have a callback running and Timeouts collected; a Timeout whose
\* callback runs and that is still live is an interval.
PhaseOK ==
  /\ vm # "js" => cur = 0
  /\ vm # "drain" /\ cur = 0 => due = {}
  /\ cur # 0 /\ timers[cur].live => timers[cur].repeat
  /\ drainNow <= now

\* Deadlines are counted from start, and those of the live ones were to come
\* when the loop last reached its check phase.
DeadlineOK == \A t \in Created :
  /\ timers[t].deadline = timers[t].start + timers[t].delay
  /\ timers[t].live => timers[t].deadline > checkAt

\* The Timeout's runtime timer: armed for its deadline, or for a time that is past.
ArmedTimer(t) == \E r \in rt :
  /\ r.owner = t /\ r.id = timers[t].id /\ r.ref = timers[t].refed
  /\ r.at >= timers[t].deadline
  /\ r.at <= now \/ r.at = timers[t].deadline

\* A collected Timeout is armed again once a callback has refreshed it.
ArmedOK == \A t \in Created :
  timers[t].live /\ t # cur /\ ~(t \in due /\ timers[t].deadline <= drainNow) => ArmedTimer(t)

\* What is not collected is not due in this drain.
DrainOK == vm = "drain" \/ cur # 0 =>
  \A t \in Created : timers[t].live /\ t \notin due /\ t # cur => timers[t].deadline > drainNow

IInv == TypeOK /\ PhaseOK /\ DeadlineOK /\ ArmedOK /\ DrainOK /\ NoneLeftBehind /\ ImmediatesKept

RtType == [owner : Created, id : Nat, at : Nat, ref : BOOLEAN]

-----------------------------------------------------------------------------
(* Types *)

\* What the steps need of TypeOK.
LEMMA Types ==
  ASSUME TypeOK
  PROVE  /\ timers \in Seq(TimerType) /\ Len(timers) \in Nat /\ rt \subseteq RtType
         /\ now \in Nat /\ checkAt \in Nat /\ checkAt <= now /\ drainNow \in Nat
         /\ Created = 1..Len(timers) /\ due \subseteq Created
         /\ cur \in Nat /\ (cur # 0 => cur \in Created)
         /\ \A t \in Created :
              /\ t \in Nat /\ t # 0 /\ timers[t] \in TimerType
              /\ timers[t].start \in Nat /\ timers[t].deadline \in Nat /\ timers[t].id \in Nat
              /\ timers[t].delay \in Delays /\ timers[t].delay \in Nat /\ timers[t].delay > 0
              /\ timers[t].live \in BOOLEAN /\ timers[t].repeat \in BOOLEAN
              /\ timers[t].refed \in BOOLEAN
<1>1. timers \in Seq(TimerType) /\ Len(timers) \in Nat /\ rt \subseteq RtType
  <2>1. timers \in Seq(TimerType)
    BY DEF TypeOK, TimerType
  <2>2. rt \subseteq RtType
    BY DEF TypeOK, RtType
  <2>3. QED BY <2>1, <2>2, LenProperties
<1>2. /\ now \in Nat /\ checkAt \in Nat /\ checkAt <= now /\ drainNow \in Nat
      /\ Created = 1..Len(timers) /\ due \subseteq Created
      /\ cur \in Nat /\ (cur # 0 => cur \in Created)
  BY <1>1, TimersAssumption DEF TypeOK, Created
<1>3. \A t \in Created : timers[t] \in TimerType
  BY <1>1, <1>2, ElementOfSeq
<1>4. \A x \in TimerType :
        /\ x.start \in Nat /\ x.deadline \in Nat /\ x.id \in Nat
        /\ x.delay \in Delays /\ x.delay \in Nat /\ x.delay > 0
        /\ x.live \in BOOLEAN /\ x.repeat \in BOOLEAN /\ x.refed \in BOOLEAN
  <2> SUFFICES ASSUME NEW x \in TimerType PROVE /\ x.start \in Nat /\ x.deadline \in Nat /\ x.id \in Nat
        /\ x.delay \in Delays /\ x.delay \in Nat /\ x.delay > 0
        /\ x.live \in BOOLEAN /\ x.repeat \in BOOLEAN /\ x.refed \in BOOLEAN
    OBVIOUS
  <2>1. x.delay \in Delays
    BY DEF TimerType
  <2>2. x.delay \in Nat \ {0}
    BY <2>1, TimersAssumption
  <2>3. QED BY <2>1, <2>2 DEF TimerType
<1>5. \A t \in Created : t \in Nat /\ t # 0
  BY <1>1, <1>2
<1>6. QED BY <1>1, <1>2, <1>3, <1>4, <1>5

\* schedule() starts the delay now and gives the Timeout a new id.
LEMMA ScheduledIs ==
  ASSUME TypeOK, NEW x \in TimerType, NEW delay \in Delays
  PROVE  LET y == Scheduled(x, delay) IN
           /\ y \in TimerType /\ y.start = now /\ y.deadline = now + delay
           /\ y.live = x.live /\ y.repeat = x.repeat /\ y.refed = x.refed /\ y.delay = x.delay
<1>1. now \in Nat /\ delay \in Nat /\ x.id + 1 \in Nat
  <2>1. now \in Nat
    BY Types
  <2>2. delay \in Nat
    BY TimersAssumption
  <2>3. QED BY <2>1, <2>2 DEF TimerType
<1> DEFINE y1 == [x EXCEPT !.start = now]
           y2 == [y1 EXCEPT !.deadline = now + delay]
           y3 == [y2 EXCEPT !.id = x.id + 1]
<1>2. Scheduled(x, delay) = y3
  BY DEF Scheduled
<1>3. /\ y1 \in TimerType /\ y1.start = now
      /\ y1.live = x.live /\ y1.repeat = x.repeat /\ y1.refed = x.refed /\ y1.delay = x.delay
  BY <1>1 DEF TimerType
<1> HIDE DEF y1
<1>4. /\ y2 \in TimerType /\ y2.start = now /\ y2.deadline = now + delay
      /\ y2.live = x.live /\ y2.repeat = x.repeat /\ y2.refed = x.refed /\ y2.delay = x.delay
  BY <1>1, <1>3 DEF TimerType
<1> HIDE DEF y2
<1>5. /\ y3 \in TimerType /\ y3.start = now /\ y3.deadline = now + delay
      /\ y3.live = x.live /\ y3.repeat = x.repeat /\ y3.refed = x.refed /\ y3.delay = x.delay
  BY <1>1, <1>4 DEF TimerType
<1> HIDE DEF y3
<1>6. QED BY <1>2, <1>5

\* One Timeout's record is replaced.
LEMMA Replaced ==
  ASSUME TypeOK, NEW t \in Created, NEW x \in TimerType, timers' = [timers EXCEPT ![t] = x]
  PROVE  /\ timers' \in Seq(TimerType) /\ Len(timers') = Len(timers) /\ Created' = Created
         /\ timers'[t] = x /\ \A u \in Created : u # t => timers'[u] = timers[u]
<1>1. timers \in Seq(TimerType) /\ t \in 1..Len(timers)
  BY Types
<1>2. QED BY <1>1, ExceptSeq DEF Created

LEMMA RuntimeTimerType ==
  ASSUME NEW S, NEW t \in S, NEW x \in TimerType, NEW at \in Nat
  PROVE  /\ RuntimeTimer(t, x, at) \in [owner : S, id : Nat, at : Nat, ref : BOOLEAN]
         /\ RuntimeTimer(t, x, at).owner = t /\ RuntimeTimer(t, x, at).id = x.id
         /\ RuntimeTimer(t, x, at).at = at /\ RuntimeTimer(t, x, at).ref = x.refed
BY DEF RuntimeTimer, TimerType

\* A call replaces the Timeout's record and its runtime timer.
LEMMA RearmTypes ==
  ASSUME TypeOK, NEW t \in Created, NEW x \in TimerType, timers' = [timers EXCEPT ![t] = x],
         NEW rest \in SUBSET rt, NEW at \in Nat,
         rt' = rest \cup {RuntimeTimer(t, x, at)} \/ rt' = rest
  PROVE  /\ timers' \in Seq(TimerType) /\ rt' \subseteq RtType' /\ Created' = Created
         /\ Len(timers') = Len(timers)
<1>1. /\ timers' \in Seq(TimerType) /\ Created' = Created /\ Len(timers') = Len(timers)
  BY Replaced
<1>a. rt \subseteq RtType
  BY Types
<1>2. RuntimeTimer(t, x, at) \in RtType
  BY RuntimeTimerType DEF RtType
<1>3. QED BY <1>1, <1>a, <1>2 DEF RtType

\* The types of what is not a Timeout or a runtime timer.
RestTypes == /\ now \in 0..MaxTime /\ checkAt \in 0..now
             /\ vm \in {"js", "drain", "timers", "macro", "left"}
             /\ cur \in 0..Len(timers) /\ due \subseteq Created /\ drainNow \in 0..MaxTime
             /\ immediates \in Seq(1..nImm) /\ cancelled \subseteq 1..nImm
             /\ nImm \in 0..MaxImmediates /\ ops \in 0..MaxOps
             /\ fires \in [1..MaxTimers -> Nat]
LEMMA TypeFold ==
  TypeOK <=> RestTypes /\ timers \in Seq(TimerType) /\ rt \subseteq RtType
BY DEF TypeOK, RestTypes, TimerType, RtType

\* Every step keeps the types.
LEMMA StepTypes ==
  ASSUME TypeOK, PhaseOK, [Next]_vars
  PROVE  TypeOK'
<1> DEFINE Goal == RestTypes' /\ timers' \in Seq(TimerType) /\ rt' \subseteq RtType'
<1> SUFFICES Goal
  BY DEF TypeOK, RestTypes, TimerType, RtType
<1>0. RestTypes /\ timers \in Seq(TimerType) /\ rt \subseteq RtType
  BY TypeFold
<1>a. ASSUME UNCHANGED timers, rt' \subseteq rt
      PROVE  timers' \in Seq(TimerType) /\ rt' \subseteq RtType' /\ Created' = Created
  BY <1>0, <1>a DEF RtType, Created
<1>b. \A t : Cancel(t) \in SUBSET rt
  BY DEF Cancel
<1> USE TimersAssumption DEF loop, imm
<1>1. ASSUME NEW d \in Delays, NEW repeat \in BOOLEAN, SetTimer(d, repeat) PROVE Goal
  <2> DEFINE t == Len(timers) + 1
             b == [live |-> TRUE, repeat |-> repeat, refed |-> TRUE, delay |-> d,
                   start |-> 0, deadline |-> 0, id |-> 0]
             x == Scheduled(b, d)
  <2>1. b \in TimerType
    BY DEF TimerType
  <2> HIDE DEF b
  <2>2. x \in TimerType /\ x.deadline \in Nat
    BY <2>1, Types, ScheduledIs
  <2>3. timers' = Append(timers, x) /\ rt' = rt \cup {RuntimeTimer(t, x, x.deadline)}
    BY <1>1 DEF SetTimer, b
  <2> HIDE DEF x
  <2>4. timers' \in Seq(TimerType) /\ Len(timers') = t /\ Len(timers) \in Nat
    BY <1>0, <2>2, <2>3
  <2>5. Created \subseteq Created' /\ t \in Created' /\ t \in Nat
    BY <2>4 DEF Created
  <2>6. RuntimeTimer(t, x, x.deadline) \in RtType'
    BY <2>2, <2>5, RuntimeTimerType DEF RtType
  <2>7. RtType \subseteq RtType'
    BY <2>5 DEF RtType
  <2>8. RestTypes'
    BY <1>0, <1>1, <2>4, <2>5 DEF SetTimer, RestTypes
  <2>9. QED BY <1>0, <2>3, <2>4, <2>6, <2>7, <2>8
<1>2. ASSUME NEW t \in 1..MaxTimers, NEW ref \in BOOLEAN, SetRef(t, ref) PROVE Goal
  <2> DEFINE x1 == [timers[t] EXCEPT !.refed = ref]
             x == [x1 EXCEPT !.id = timers[t].id + 1]
             at == Later(now, x.start + x.delay)
  <2>1. t \in Created /\ timers[t] \in TimerType /\ timers[t].id + 1 \in Nat
    BY <1>2, Types DEF SetRef, Call, Live
  <2>2. x1 \in TimerType
    BY <2>1 DEF TimerType
  <2> HIDE DEF x1
  <2>3. x \in TimerType
    BY <2>1, <2>2 DEF TimerType
  <2> HIDE DEF x
  <2>4. at \in Nat
    <3>1. x.start \in Nat /\ x.delay \in Delays
      BY <2>3 DEF TimerType
    <3>2. x.delay \in Nat /\ now \in Nat
      BY <3>1, Types
    <3>3. QED BY <3>1, <3>2 DEF Later
  <2>5. timers' = [timers EXCEPT ![t] = x] /\ rt' = Cancel(t) \cup {RuntimeTimer(t, x, at)}
    BY <1>2 DEF SetRef, x, x1
  <2> HIDE DEF at
  <2>6. timers' \in Seq(TimerType) /\ rt' \subseteq RtType' /\ Created' = Created
        /\ Len(timers') = Len(timers)
    BY <1>b, <2>1, <2>3, <2>4, <2>5, RearmTypes
  <2>7. RestTypes'
    <3>1. /\ UNCHANGED <<now, checkAt, vm, cur, due, drainNow, immediates, cancelled, nImm, fires>>
          /\ ops' = ops + 1 /\ ops < MaxOps
      BY <1>2 DEF SetRef, Call
    <3>2. QED BY <1>0, <3>1, <2>6 DEF RestTypes
  <2>8. QED BY <2>6, <2>7
<1>3. ASSUME NEW t \in 1..MaxTimers, Refresh(t) PROVE Goal
  <2> DEFINE x == Scheduled(timers[t], timers[t].delay)
  <2>1. t \in Created /\ timers[t] \in TimerType /\ timers[t].delay \in Delays
    BY <1>3, Types DEF Refresh, Call, Live
  <2>2. x \in TimerType /\ x.deadline \in Nat
    BY <2>1, ScheduledIs, Types
  <2>3. timers' = [timers EXCEPT ![t] = x] /\ rt' = Cancel(t) \cup {RuntimeTimer(t, x, x.deadline)}
    BY <1>3 DEF Refresh
  <2> HIDE DEF x
  <2>4. timers' \in Seq(TimerType) /\ rt' \subseteq RtType' /\ Created' = Created
        /\ Len(timers') = Len(timers)
    BY <1>b, <2>1, <2>2, <2>3, RearmTypes
  <2>5. RestTypes'
    <3>1. /\ UNCHANGED <<now, checkAt, vm, cur, due, drainNow, immediates, cancelled, nImm, fires>>
          /\ ops' = ops + 1 /\ ops < MaxOps
      BY <1>3 DEF Refresh, Call
    <3>2. QED BY <1>0, <3>1, <2>4 DEF RestTypes
  <2>6. QED BY <2>4, <2>5
<1>4. ASSUME NEW t \in 1..MaxTimers, Clear(t) PROVE Goal
  <2> DEFINE x == [timers[t] EXCEPT !.live = FALSE]
  <2>1. t \in Created /\ timers[t] \in TimerType
    BY <1>4, Types DEF Clear, Call, Live
  <2>2. x \in TimerType
    BY <2>1 DEF TimerType
  <2>3. timers' = [timers EXCEPT ![t] = x] /\ rt' = Cancel(t)
    BY <1>4 DEF Clear
  <2> HIDE DEF x
  <2>4. timers' \in Seq(TimerType) /\ rt' \subseteq RtType' /\ Created' = Created
        /\ Len(timers') = Len(timers)
    BY <1>b, <2>1, <2>2, <2>3, RearmTypes
  <2>5. RestTypes'
    <3>1. /\ UNCHANGED <<now, checkAt, vm, cur, due, drainNow, immediates, cancelled, nImm, fires>>
          /\ ops' = ops + 1 /\ ops < MaxOps
      BY <1>4 DEF Clear, Call
    <3>2. QED BY <1>0, <3>1, <2>4 DEF RestTypes
  <2>6. QED BY <2>4, <2>5
<1>5. ASSUME NEW t \in 1..MaxTimers, Fire(t) PROVE Goal
  <2> DEFINE x == [timers[t] EXCEPT !.live = timers[t].repeat]
  <2>1. t \in Created /\ timers[t] \in TimerType
    BY <1>5, Types DEF Fire
  <2>2. x \in TimerType
    BY <2>1 DEF TimerType
  <2>3. timers' = [timers EXCEPT ![t] = x] /\ rt' = Cancel(t)
    BY <1>5 DEF Fire
  <2> HIDE DEF x
  <2>4. timers' \in Seq(TimerType) /\ rt' \subseteq RtType' /\ Created' = Created
        /\ Len(timers') = Len(timers)
    BY <1>b, <2>1, <2>2, <2>3, RearmTypes
  <2>5. RestTypes'
    <3>1. /\ UNCHANGED <<now, checkAt, drainNow, immediates, cancelled, nImm, ops>>
          /\ vm' = "js" /\ cur' = t /\ due' = due \ {t} /\ fires' = [fires EXCEPT ![t] = @ + 1]
      BY <1>5 DEF Fire
    <3>2. t \in 0..Len(timers') /\ due' \subseteq Created'
      BY <1>0, <2>1, <2>4, <3>1 DEF Created, RestTypes
    <3>3. fires' \in [1..MaxTimers -> Nat]
      BY <1>0, <3>1 DEF RestTypes
    <3>4. QED BY <1>0, <2>4, <3>1, <3>2, <3>3 DEF RestTypes
  <2>6. QED BY <2>4, <2>5
<1>6. ASSUME Return PROVE Goal
  <2> DEFINE x == Scheduled(timers[cur], timers[cur].delay)
  <2>1. cur \in Created /\ timers[cur] \in TimerType /\ timers[cur].delay \in Delays
    BY <1>6, Types DEF Return
  <2>2. x \in TimerType /\ x.deadline \in Nat
    BY <2>1, ScheduledIs, Types
  <2>3. \/ /\ timers' = [timers EXCEPT ![cur] = x]
           /\ rt' = rt \cup {RuntimeTimer(cur, x, x.deadline)}
        \/ UNCHANGED <<timers, rt>>
    BY <1>6 DEF Return
  <2> HIDE DEF x
  <2>4. timers' \in Seq(TimerType) /\ rt' \subseteq RtType' /\ Created' = Created
        /\ Len(timers') = Len(timers)
    BY <1>a, <2>1, <2>2, <2>3, RearmTypes
  <2>5. RestTypes'
    BY <1>0, <1>6, <2>4 DEF Return, RestTypes
  <2>6. QED BY <2>4, <2>5
<1>7. ASSUME NEW r \in rt, Wake(r) PROVE Goal
  BY <1>0, <1>7, <1>a DEF Wake, RestTypes
<1>8. ASSUME SetImmediate PROVE Goal
  <2>1. immediates' \in Seq(1..nImm')
    <3>1. nImm + 1 \in 1..nImm' /\ nImm \in Nat
      BY <1>0, <1>8 DEF SetImmediate, RestTypes
    <3>2. immediates \in Seq(1..nImm')
      <4>1. immediates \in Seq(1..nImm) /\ 1..nImm \subseteq 1..nImm'
        BY <1>0, <1>8 DEF SetImmediate, RestTypes
      <4>2. QED BY <4>1, SeqMonotonic
    <3>3. QED BY <1>8, <3>1, <3>2, AppendProperties DEF SetImmediate
  <2>2. QED BY <1>0, <1>8, <1>a, <2>1 DEF SetImmediate, RestTypes
<1>9. ASSUME NEW i \in 1..MaxImmediates, ClearImmediate(i) PROVE Goal
  BY <1>0, <1>9, <1>a DEF ClearImmediate, RestTypes
<1>10. ASSUME DrainEnds \/ ScriptEnds \/ TimersDone \/ MacroDone \/ Tick PROVE Goal
  <2>1. UNCHANGED <<timers, rt>>
    BY <1>10 DEF DrainEnds, ScriptEnds, TimersDone, MacroDone, Tick
  <2>2. RestTypes'
    <3>1. CASE DrainEnds \/ ScriptEnds \/ MacroDone
      BY <1>0, <2>1, <3>1 DEF DrainEnds, ScriptEnds, MacroDone, RestTypes, Created
    <3>2. CASE TimersDone
      BY <1>0, <3>2 DEF TimersDone, RestTypes, Created
    <3>3. CASE Tick
      BY <1>0, <3>3 DEF Tick, RestTypes, Created
    <3>4. QED BY <1>10, <3>1, <3>2, <3>3
  <2>3. QED BY <1>a, <2>1, <2>2
<1>11. ASSUME RunImmediate PROVE Goal
  <2>1. immediates' \in Seq(1..nImm)
    BY <1>0, <1>11 DEF RunImmediate, RestTypes
  <2>2. QED BY <1>0, <1>11, <1>a, <2>1 DEF RunImmediate, RestTypes
<1>12. ASSUME UNCHANGED vars PROVE Goal
  BY <1>0, <1>12, <1>a DEF vars, RestTypes
<1> HIDE DEF Goal
<1>13. QED
  BY <1>1, <1>2, <1>3, <1>4, <1>5, <1>6, <1>7, <1>8, <1>9, <1>10, <1>11, <1>12 DEF Next

-----------------------------------------------------------------------------
(* Armed and due *)

\* Nothing was created.
LEMMA InitInv == Init => IInv
<1> SUFFICES ASSUME Init PROVE IInv
  OBVIOUS
<1>1. TypeOK
  BY TimersAssumption DEF Init, TypeOK, Created
<1>2. Created = {}
  BY DEF Init, Created
<1>3. PhaseOK /\ DeadlineOK /\ ArmedOK /\ DrainOK /\ NoneLeftBehind
  BY <1>2 DEF Init, PhaseOK, DeadlineOK, ArmedOK, DrainOK, NoneLeftBehind
<1>4. ImmediatesKept
  BY DEF Init, ImmediatesKept
<1>5. QED BY <1>1, <1>3, <1>4 DEF IInv

\* Cancelling one Timeout's runtime timer leaves the others' armed.
LEMMA OthersArmed ==
  ASSUME TypeOK, NEW t, NEW u \in Created, u # t, ArmedTimer(u), Cancel(t) \subseteq rt',
         timers'[u] = timers[u], now' = now
  PROVE  ArmedTimer(u)'
BY DEF ArmedTimer, Cancel

\* A Timeout is armed when its new runtime timer is.
LEMMA NewlyArmed ==
  ASSUME NEW t \in Nat, NEW x \in TimerType, NEW at \in Nat, timers'[t] = x,
         RuntimeTimer(t, x, at) \in rt', at >= x.deadline, at <= now' \/ at = x.deadline
  PROVE  ArmedTimer(t)'
BY RuntimeTimerType DEF ArmedTimer

\* SetRef, Refresh and the callback's return: Timeout t gets a new runtime timer.
LEMMA RearmStep ==
  ASSUME IInv, NEW t \in Created, NEW x \in TimerType, NEW at \in Nat, vm = "js",
         UNCHANGED <<now, checkAt, due, drainNow>>,
         (cur' = cur /\ vm' = vm) \/ (cur' = 0 /\ cur = t /\ vm' = "drain"),
         timers' = [timers EXCEPT ![t] = x],
         Cancel(t) \subseteq rt', RuntimeTimer(t, x, at) \in rt',
         x.deadline = x.start + x.delay, x.live = timers[t].live, x.repeat = timers[t].repeat,
         x.live => x.deadline > checkAt, at >= x.deadline, at <= now \/ at = x.deadline,
         x.deadline > drainNow \/ (x.deadline = timers[t].deadline /\ cur' = cur)
  PROVE  PhaseOK' /\ DeadlineOK' /\ ArmedOK' /\ DrainOK' /\ NoneLeftBehind'
<1>1. /\ Created' = Created /\ timers'[t] = x /\ \A u \in Created : u # t => timers'[u] = timers[u]
      /\ t \in Nat /\ t # 0 /\ (cur # 0 => cur \in Created)
  BY Replaced, Types DEF IInv
<1>2. PhaseOK'
  BY <1>1 DEF IInv, PhaseOK
<1>3. DeadlineOK'
  BY <1>1 DEF IInv, DeadlineOK
<1>4. ArmedOK'
  <2>1. ArmedTimer(t)'
    BY <1>1, NewlyArmed
  <2>2. ASSUME NEW u \in Created, u # t, timers'[u].live, u # cur',
               ~(u \in due' /\ timers'[u].deadline <= drainNow')
        PROVE  ArmedTimer(u)'
    <3>1. timers'[u] = timers[u] /\ u # cur
      BY <1>1, <2>2
    <3>2. ArmedTimer(u)
      BY <2>2, <3>1 DEF IInv, ArmedOK
    <3>3. QED BY <2>2, <3>1, <3>2, OthersArmed DEF IInv
  <2>3. QED BY <1>1, <2>1, <2>2 DEF ArmedOK
<1>5. DrainOK'
  <2> SUFFICES ASSUME vm' = "drain" \/ cur' # 0, NEW u \in Created, timers'[u].live, u \notin due,
                      u # cur'
               PROVE  timers'[u].deadline > drainNow
    BY <1>1 DEF DrainOK
  <2>1. cur # 0
    BY <1>1
  <2>2. CASE u = t
    <3>1. timers'[u] = x /\ timers[u].live
      BY <1>1, <2>2
    <3>2. CASE x.deadline > drainNow
      BY <3>1, <3>2
    <3>3. CASE x.deadline = timers[t].deadline /\ cur' = cur
      <4>1. timers[u].deadline > drainNow
        BY <2>1, <2>2, <3>1, <3>3 DEF IInv, DrainOK
      <4>2. QED BY <2>2, <3>1, <3>3, <4>1
    <3>4. QED BY <3>2, <3>3
  <2>3. CASE u # t
    BY <1>1, <2>1, <2>3 DEF IInv, DrainOK
  <2>4. QED BY <2>2, <2>3
<1>6. NoneLeftBehind'
  BY DEF NoneLeftBehind
<1>7. QED BY <1>2, <1>3, <1>4, <1>5, <1>6

\* Every step keeps the rest of IInv.
LEMMA StepTimers ==
  ASSUME IInv, [Next]_vars
  PROVE  PhaseOK' /\ DeadlineOK' /\ ArmedOK' /\ DrainOK' /\ NoneLeftBehind'
<1> DEFINE Goal == PhaseOK' /\ DeadlineOK' /\ ArmedOK' /\ DrainOK' /\ NoneLeftBehind'
<1>0. TypeOK /\ PhaseOK /\ DeadlineOK /\ ArmedOK /\ DrainOK /\ NoneLeftBehind
  BY DEF IInv
<1>00. /\ now \in Nat /\ checkAt \in Nat /\ checkAt <= now /\ drainNow \in Nat /\ drainNow <= now
       /\ due \subseteq Created /\ cur \in Nat /\ (cur # 0 => cur \in Created)
       /\ \A t \in Created : t # 0
  BY <1>0, Types DEF PhaseOK
<1> USE DEF loop, imm
<1>a. ASSUME UNCHANGED <<timers, rt, due, drainNow, cur, checkAt, now, vm>> PROVE Goal
  BY <1>0, <1>a DEF PhaseOK, DeadlineOK, ArmedOK, ArmedTimer, DrainOK, NoneLeftBehind, Created
<1>1. ASSUME NEW d \in Delays, NEW repeat \in BOOLEAN, SetTimer(d, repeat) PROVE Goal
  <2> DEFINE t == Len(timers) + 1
             b == [live |-> TRUE, repeat |-> repeat, refed |-> TRUE, delay |-> d,
                   start |-> 0, deadline |-> 0, id |-> 0]
             x == Scheduled(b, d)
  <2>1. b \in TimerType /\ b.delay = d /\ d \in Nat /\ d > 0
    BY TimersAssumption DEF TimerType
  <2> HIDE DEF b
  <2>2. x \in TimerType /\ x.start = now /\ x.deadline = now + d /\ x.delay = d
    BY <1>0, <2>1, ScheduledIs
  <2>3. timers' = Append(timers, x) /\ rt' = rt \cup {RuntimeTimer(t, x, x.deadline)}
        /\ UNCHANGED <<now, checkAt, vm, cur, due, drainNow>> /\ vm = "js"
    BY <1>1 DEF SetTimer, b
  <2> HIDE DEF x
  <2>4. timers \in Seq(TimerType) /\ Len(timers) \in Nat /\ Created = 1..Len(timers)
    BY <1>0, Types
  <2>5. /\ Created' = Created \cup {t} /\ t \in Nat /\ t \notin Created /\ timers'[t] = x
        /\ \A u \in Created : timers'[u] = timers[u]
    BY <2>2, <2>3, <2>4, AppendProperties DEF Created
  <2> HIDE DEF t
  <2>6. PhaseOK'
    BY <1>0, <1>00, <2>3, <2>5 DEF PhaseOK
  <2>a. PICK n \in Nat : n = t
    BY <2>5
  <2>7. DeadlineOK'
    <3>1. x.deadline = x.start + x.delay /\ x.deadline > checkAt
      BY <1>00, <2>1, <2>2
    <3>2. QED BY <1>0, <2>3, <2>5, <3>1 DEF DeadlineOK
  <2>8. ArmedOK'
    <3>1. ArmedTimer(n)'
      <4>1. RuntimeTimer(n, x, x.deadline) \in rt' /\ x.deadline \in Nat /\ x.deadline >= x.deadline
        BY <1>00, <2>1, <2>2, <2>3, <2>a
      <4>2. QED BY <2>2, <2>5, <2>a, <4>1, NewlyArmed
    <3>2. ASSUME NEW u \in Created, ArmedTimer(u) PROVE ArmedTimer(u)'
      BY <2>3, <2>5, <3>2 DEF ArmedTimer
    <3>3. ASSUME NEW u \in Created, timers'[u].live, u # cur',
                 ~(u \in due' /\ timers'[u].deadline <= drainNow')
          PROVE  ArmedTimer(u)'
      BY <1>0, <2>3, <2>5, <3>2, <3>3 DEF ArmedOK
    <3>4. QED BY <2>5, <2>a, <3>1, <3>3 DEF ArmedOK
  <2>9. DrainOK'
    <3>1. x.deadline > drainNow
      BY <1>00, <2>1, <2>2
    <3>2. QED BY <1>0, <2>3, <2>5, <3>1 DEF DrainOK
  <2>10. NoneLeftBehind'
    BY <2>3 DEF NoneLeftBehind
  <2>11. QED BY <2>6, <2>7, <2>8, <2>9, <2>10
<1>2. ASSUME NEW t \in 1..MaxTimers, NEW ref \in BOOLEAN, SetRef(t, ref) PROVE Goal
  <2> DEFINE x1 == [timers[t] EXCEPT !.refed = ref]
             x == [x1 EXCEPT !.id = timers[t].id + 1]
             at == Later(now, x.start + x.delay)
  <2>1. /\ t \in Created /\ timers[t] \in TimerType /\ timers[t].id + 1 \in Nat
        /\ timers[t].deadline \in Nat
    BY <1>0, <1>2, Types DEF SetRef, Call, Live
  <2>2. /\ x1 \in TimerType /\ x1.live = timers[t].live /\ x1.repeat = timers[t].repeat
        /\ x1.start = timers[t].start /\ x1.delay = timers[t].delay
        /\ x1.deadline = timers[t].deadline
    BY <2>1 DEF TimerType
  <2> HIDE DEF x1
  <2>3. /\ x \in TimerType /\ x.live = timers[t].live /\ x.repeat = timers[t].repeat
        /\ x.start = timers[t].start /\ x.delay = timers[t].delay
        /\ x.deadline = timers[t].deadline
    BY <2>1, <2>2 DEF TimerType
  <2> HIDE DEF x
  <2>4. x.deadline = x.start + x.delay /\ (x.live => x.deadline > checkAt)
    BY <1>0, <2>1, <2>3 DEF DeadlineOK
  <2>5. at \in Nat /\ at >= x.deadline /\ (at <= now \/ at = x.deadline)
    BY <1>00, <2>1, <2>3, <2>4 DEF Later
  <2>6. timers' = [timers EXCEPT ![t] = x] /\ rt' = Cancel(t) \cup {RuntimeTimer(t, x, at)}
    BY <1>2 DEF SetRef, x, x1
  <2> HIDE DEF at
  <2>7. UNCHANGED <<now, checkAt, due, drainNow>> /\ vm = "js" /\ cur' = cur /\ vm' = vm
    BY <1>2 DEF SetRef, Call
  <2>8. Cancel(t) \subseteq rt' /\ RuntimeTimer(t, x, at) \in rt'
    BY <2>6
  <2>9. QED BY <2>1, <2>3, <2>4, <2>5, <2>6, <2>7, <2>8, RearmStep
<1>3. ASSUME NEW t \in 1..MaxTimers, Refresh(t) PROVE Goal
  <2> DEFINE x == Scheduled(timers[t], timers[t].delay)
  <2>1. /\ t \in Created /\ timers[t] \in TimerType /\ timers[t].delay \in Delays
        /\ timers[t].delay \in Nat /\ timers[t].delay > 0
    BY <1>0, <1>3, Types DEF Refresh, Call, Live
  <2>2. /\ x \in TimerType /\ x.live = timers[t].live /\ x.repeat = timers[t].repeat
        /\ x.start = now /\ x.delay = timers[t].delay /\ x.deadline = now + timers[t].delay
    BY <1>0, <2>1, ScheduledIs
  <2>3. timers' = [timers EXCEPT ![t] = x] /\ rt' = Cancel(t) \cup {RuntimeTimer(t, x, x.deadline)}
    BY <1>3 DEF Refresh
  <2> HIDE DEF x
  <2>4. UNCHANGED <<now, checkAt, due, drainNow>> /\ vm = "js" /\ cur' = cur /\ vm' = vm
    BY <1>3 DEF Refresh, Call
  <2>5. /\ x.deadline \in Nat /\ x.deadline > drainNow /\ x.deadline > checkAt
        /\ x.deadline >= x.deadline /\ x.deadline = x.start + x.delay
    BY <1>00, <2>1, <2>2
  <2>6. Cancel(t) \subseteq rt' /\ RuntimeTimer(t, x, x.deadline) \in rt'
    BY <2>3
  <2>7. QED BY <2>1, <2>2, <2>3, <2>4, <2>5, <2>6, RearmStep
<1>4. ASSUME NEW t \in 1..MaxTimers, Clear(t) PROVE Goal
  <2> DEFINE x == [timers[t] EXCEPT !.live = FALSE]
  <2>1. t \in Created /\ timers[t] \in TimerType
    BY <1>0, <1>4, Types DEF Clear, Call, Live
  <2>2. x \in TimerType /\ ~x.live /\ x.start = timers[t].start /\ x.delay = timers[t].delay
        /\ x.deadline = timers[t].deadline
    BY <2>1 DEF TimerType
  <2>3. timers' = [timers EXCEPT ![t] = x] /\ rt' = Cancel(t)
    BY <1>4 DEF Clear
  <2> HIDE DEF x
  <2>4. UNCHANGED <<now, checkAt, vm, cur, due, drainNow>> /\ vm = "js"
    BY <1>4 DEF Clear, Call
  <2>5. /\ Created' = Created /\ timers'[t] = x
        /\ \A u \in Created : u # t => timers'[u] = timers[u]
    BY <1>0, <2>1, <2>2, <2>3, Replaced
  <2>6. PhaseOK'
    BY <1>0, <1>00, <2>2, <2>4, <2>5 DEF PhaseOK
  <2>7. DeadlineOK'
    BY <1>0, <2>2, <2>4, <2>5 DEF DeadlineOK
  <2>8. ArmedOK'
    <3>1. \A u \in Created : u # t /\ ArmedTimer(u) => ArmedTimer(u)'
      BY <1>0, <2>3, <2>4, <2>5, OthersArmed
    <3>2. QED BY <1>0, <2>2, <2>4, <2>5, <3>1 DEF ArmedOK
  <2>9. DrainOK'
    BY <1>0, <2>2, <2>4, <2>5 DEF DrainOK
  <2>10. NoneLeftBehind'
    BY <2>4 DEF NoneLeftBehind
  <2>11. QED BY <2>6, <2>7, <2>8, <2>9, <2>10
<1>5. ASSUME NEW t \in 1..MaxTimers, Fire(t) PROVE Goal
  <2> DEFINE x == [timers[t] EXCEPT !.live = timers[t].repeat]
  <2>1. /\ t \in Created /\ timers[t] \in TimerType /\ t # 0 /\ t \in due /\ vm = "drain" /\ cur = 0
        /\ timers[t].live
    BY <1>0, <1>00, <1>5, Types DEF Fire, PhaseOK, StillDue
  <2>2. x \in TimerType /\ x.live = timers[t].repeat /\ x.repeat = timers[t].repeat
        /\ x.start = timers[t].start /\ x.delay = timers[t].delay
        /\ x.deadline = timers[t].deadline
    BY <2>1 DEF TimerType
  <2>3. timers' = [timers EXCEPT ![t] = x] /\ rt' = Cancel(t)
    BY <1>5 DEF Fire
  <2> HIDE DEF x
  <2>4. UNCHANGED <<now, checkAt, drainNow>> /\ vm' = "js" /\ cur' = t /\ due' = due \ {t}
    BY <1>5 DEF Fire
  <2>5. /\ Created' = Created /\ timers'[t] = x
        /\ \A u \in Created : u # t => timers'[u] = timers[u]
    BY <1>0, <2>1, <2>2, <2>3, Replaced
  <2>6. PhaseOK'
    BY <1>0, <2>1, <2>2, <2>4, <2>5 DEF PhaseOK
  <2>7. DeadlineOK'
    BY <1>0, <2>1, <2>2, <2>4, <2>5 DEF DeadlineOK
  <2>8. ArmedOK'
    <3>1. \A u \in Created : u # t /\ ArmedTimer(u) => ArmedTimer(u)'
      BY <1>0, <2>3, <2>4, <2>5, OthersArmed
    <3>2. ASSUME NEW u \in Created, timers'[u].live, u # t,
                 ~(u \in due' /\ timers'[u].deadline <= drainNow)
          PROVE  ArmedTimer(u)'
      BY <1>0, <1>00, <2>1, <2>4, <2>5, <3>1, <3>2 DEF ArmedOK
    <3>3. QED BY <2>4, <2>5, <3>2 DEF ArmedOK
  <2>9. DrainOK'
    BY <1>0, <1>00, <2>1, <2>4, <2>5 DEF DrainOK
  <2>10. NoneLeftBehind'
    BY <2>4 DEF NoneLeftBehind
  <2>11. QED BY <2>6, <2>7, <2>8, <2>9, <2>10
<1>6. ASSUME Return PROVE Goal
  <2>1. /\ vm = "js" /\ cur # 0 /\ cur \in Created /\ cur' = 0 /\ vm' = "drain"
        /\ UNCHANGED <<now, checkAt, due, drainNow>>
    BY <1>00, <1>6 DEF Return
  <2>2. CASE timers[cur].repeat /\ timers[cur].live
    <3> DEFINE x == Scheduled(timers[cur], timers[cur].delay)
    <3>1. /\ timers[cur] \in TimerType /\ timers[cur].delay \in Delays
          /\ timers[cur].delay \in Nat /\ timers[cur].delay > 0
      BY <1>0, <2>1, Types
    <3>2. /\ x \in TimerType /\ x.live = timers[cur].live /\ x.repeat = timers[cur].repeat
          /\ x.start = now /\ x.delay = timers[cur].delay /\ x.deadline = now + timers[cur].delay
      BY <1>0, <3>1, ScheduledIs
    <3>3. /\ timers' = [timers EXCEPT ![cur] = x]
          /\ rt' = rt \cup {RuntimeTimer(cur, x, x.deadline)}
      BY <1>6, <2>2 DEF Return
    <3> HIDE DEF x
    <3>4. Cancel(cur) \subseteq rt'
      BY <3>3 DEF Cancel
    <3>5. /\ x.deadline \in Nat /\ x.deadline > drainNow /\ x.deadline > checkAt
          /\ x.deadline >= x.deadline /\ x.deadline = x.start + x.delay
      BY <1>00, <3>1, <3>2
    <3>6. QED BY <2>1, <3>2, <3>3, <3>4, <3>5, RearmStep
  <2>3. CASE ~(timers[cur].repeat /\ timers[cur].live)
    <3>1. UNCHANGED <<timers, rt>> /\ ~timers[cur].live
      BY <1>0, <1>6, <2>1, <2>3 DEF Return, PhaseOK
    <3>2. Created' = Created /\ \A u \in Created : ArmedTimer(u)' <=> ArmedTimer(u)
      BY <2>1, <3>1 DEF Created, ArmedTimer
    <3>3. PhaseOK' /\ DeadlineOK' /\ NoneLeftBehind'
      BY <1>0, <2>1, <3>1, <3>2 DEF PhaseOK, DeadlineOK, NoneLeftBehind
    <3>4. ArmedOK'
      BY <1>0, <2>1, <3>1, <3>2 DEF ArmedOK
    <3>5. DrainOK'
      BY <1>0, <2>1, <3>1, <3>2 DEF DrainOK
    <3>6. QED BY <3>3, <3>4, <3>5
  <2>4. QED BY <2>2, <2>3
<1>7. ASSUME NEW r \in rt, Wake(r) PROVE Goal
  <2>1. /\ vm = "timers" /\ cur = 0 /\ due = {} /\ r.at <= now /\ rt' = rt \ {r}
        /\ vm' = "drain" /\ drainNow' = now /\ UNCHANGED <<now, checkAt, cur, timers>>
        /\ due' = {t \in Created : timers[t].live /\ timers[t].deadline <= now}
    BY <1>0, <1>7 DEF Wake, PhaseOK
  <2>2. Created' = Created
    BY <2>1 DEF Created
  <2>3. r.at \in Nat /\ \A u \in Created : timers[u].deadline \in Nat
    BY <1>0, Types DEF RtType
  <2>4. PhaseOK' /\ DeadlineOK' /\ NoneLeftBehind'
    BY <1>0, <1>00, <2>1, <2>2 DEF PhaseOK, DeadlineOK, NoneLeftBehind
  <2>5. DrainOK'
    BY <1>00, <2>1, <2>2, <2>3 DEF DrainOK
  <2>6. ArmedOK'
    <3>1. ASSUME NEW u \in Created, timers[u].live, timers[u].deadline > now PROVE ArmedTimer(u)'
      <4>1. ArmedTimer(u)
        BY <1>0, <1>00, <2>1, <3>1 DEF ArmedOK
      <4>2. PICK q \in rt : /\ q.owner = u /\ q.id = timers[u].id /\ q.ref = timers[u].refed
                            /\ q.at >= timers[u].deadline
                            /\ q.at <= now \/ q.at = timers[u].deadline
        BY <4>1 DEF ArmedTimer
      <4>3. q.at \in Nat
        BY <1>0, Types DEF RtType
      <4>4. q # r
        BY <1>00, <2>1, <2>3, <3>1, <4>2, <4>3
      <4>5. QED BY <2>1, <4>2, <4>4 DEF ArmedTimer
    <3>2. QED BY <1>00, <2>1, <2>2, <2>3, <3>1 DEF ArmedOK
  <2>7. QED BY <2>4, <2>5, <2>6
<1>8. ASSUME DrainEnds PROVE Goal
  <2>1. /\ vm = "drain" /\ cur = 0 /\ (\A t \in due : ~StillDue(t)) /\ due' = {} /\ vm' = "timers"
        /\ UNCHANGED <<now, checkAt, cur, timers, rt, drainNow>>
    BY <1>0, <1>8 DEF DrainEnds, PhaseOK
  <2>2. Created' = Created /\ \A u \in Created : ArmedTimer(u)' <=> ArmedTimer(u)
    BY <2>1 DEF Created, ArmedTimer
  <2>3. PhaseOK' /\ DeadlineOK' /\ NoneLeftBehind' /\ DrainOK'
    BY <1>0, <2>1, <2>2 DEF PhaseOK, DeadlineOK, NoneLeftBehind, DrainOK
  <2>4. ArmedOK'
    BY <1>0, <2>1, <2>2 DEF ArmedOK, StillDue
  <2>5. QED BY <2>3, <2>4
<1>9. ASSUME TimersDone PROVE Goal
  <2>1. /\ vm = "timers" /\ cur = 0 /\ due = {} /\ (\A r \in rt : r.at > now)
        /\ vm' = "macro" /\ checkAt' = now /\ UNCHANGED <<now, cur, timers, rt, due, drainNow>>
    BY <1>0, <1>9 DEF TimersDone, PhaseOK
  <2>2. Created' = Created /\ \A u \in Created : ArmedTimer(u)' <=> ArmedTimer(u)
    BY <2>1 DEF Created, ArmedTimer
  <2>3. PhaseOK' /\ NoneLeftBehind' /\ DrainOK' /\ ArmedOK'
    BY <1>0, <2>1, <2>2 DEF PhaseOK, NoneLeftBehind, DrainOK, ArmedOK
  <2>4. DeadlineOK'
    <3>1. ASSUME NEW u \in Created, timers[u].live PROVE timers[u].deadline > now
      <4>1. ArmedTimer(u) /\ rt \subseteq RtType
        BY <1>0, <1>00, <2>1, <3>1, Types DEF ArmedOK
      <4>2. PICK q \in rt : q.at <= now \/ q.at = timers[u].deadline
        BY <4>1 DEF ArmedTimer
      <4>3. q.at \in Nat /\ q.at > now
        BY <2>1, <4>1 DEF RtType
      <4>4. QED BY <1>00, <4>2, <4>3
    <3>2. QED BY <1>0, <2>1, <2>2, <3>1 DEF DeadlineOK
  <2>5. QED BY <2>3, <2>4
<1>10. ASSUME ScriptEnds PROVE Goal
  <2>1. /\ vm = "js" /\ cur = 0 /\ vm' \in {"timers", "macro"}
        /\ UNCHANGED <<now, checkAt, cur, timers, rt, due, drainNow>>
    BY <1>10 DEF ScriptEnds
  <2>2. QED BY <1>0, <2>1
        DEF PhaseOK, DeadlineOK, ArmedOK, ArmedTimer, DrainOK, NoneLeftBehind, Created
<1>11. ASSUME RunImmediate PROVE Goal
  <2>1. /\ vm = "macro" /\ cur = 0 /\ vm' \in {"js", "macro"}
        /\ UNCHANGED <<now, checkAt, cur, timers, rt, due, drainNow>>
    BY <1>0, <1>11 DEF RunImmediate, PhaseOK
  <2>2. QED BY <1>0, <2>1
        DEF PhaseOK, DeadlineOK, ArmedOK, ArmedTimer, DrainOK, NoneLeftBehind, Created
<1>12. ASSUME MacroDone PROVE Goal
  <2>1. /\ vm = "macro" /\ cur = 0 /\ due = {} /\ vm' \in {"timers", "left"}
        /\ (vm' = "left" => \A r \in rt : ~r.ref)
        /\ UNCHANGED <<now, checkAt, cur, timers, rt, due, drainNow>>
    BY <1>0, <1>12 DEF MacroDone, PhaseOK
  <2>2. Created' = Created /\ \A u \in Created : ArmedTimer(u)' <=> ArmedTimer(u)
    BY <2>1 DEF Created, ArmedTimer
  <2>3. PhaseOK' /\ DeadlineOK' /\ DrainOK' /\ ArmedOK'
    BY <1>0, <2>1, <2>2 DEF PhaseOK, DeadlineOK, DrainOK, ArmedOK
  <2>4. NoneLeftBehind'
    <3>1. ASSUME vm' = "left", NEW u \in Created, timers[u].live, timers[u].refed PROVE FALSE
      <4>1. ArmedTimer(u)
        BY <1>0, <1>00, <2>1, <3>1 DEF ArmedOK
      <4>2. QED BY <2>1, <3>1, <4>1 DEF ArmedTimer
    <3>2. QED BY <2>1, <2>2, <3>1 DEF NoneLeftBehind
  <2>5. QED BY <2>3, <2>4
<1>13. ASSUME Tick PROVE Goal
  <2>1. /\ vm \in {"js", "timers"} /\ now' = now + 1
        /\ UNCHANGED <<vm, checkAt, cur, timers, rt, due, drainNow>>
    BY <1>13 DEF Tick
  <2>2. Created' = Created /\ \A u \in Created : ArmedTimer(u) => ArmedTimer(u)'
    <3>1. \A q \in rt : q.at \in Nat
      BY <1>0, Types DEF RtType
    <3>2. QED BY <1>00, <2>1, <3>1 DEF Created, ArmedTimer
  <2>3. PhaseOK' /\ DeadlineOK' /\ NoneLeftBehind' /\ DrainOK'
    BY <1>0, <1>00, <2>1, <2>2 DEF PhaseOK, DeadlineOK, NoneLeftBehind, DrainOK
  <2>4. ArmedOK'
    BY <1>0, <2>1, <2>2 DEF ArmedOK
  <2>5. QED BY <2>3, <2>4
<1>14. ASSUME SetImmediate \/ (\E i \in 1..MaxImmediates : ClearImmediate(i)) \/ UNCHANGED vars
       PROVE  Goal
  BY <1>14, <1>a DEF SetImmediate, ClearImmediate, vars
<1> HIDE DEF Goal
<1>15. Goal
  BY <1>1, <1>2, <1>3, <1>4, <1>5, <1>6, <1>7, <1>8, <1>9, <1>10, <1>11, <1>12, <1>13, <1>14 DEF Next
<1>16. QED BY <1>15 DEF Goal

-----------------------------------------------------------------------------
(* Immediates *)

\* What is queued is numbered up to the last that was made: one more at the
\* end, or one less at the front.
LEMMA StepImmediates ==
  ASSUME TypeOK, ImmediatesKept, [Next]_vars
  PROVE  ImmediatesKept'
<1> DEFINE q == immediates
<1>0. q \in Seq(1..nImm) /\ nImm \in Nat /\ Len(q) \in Nat /\ DOMAIN q = 1..Len(q)
  <2>1. q \in Seq(1..nImm) /\ nImm \in Nat
    BY TimersAssumption DEF TypeOK
  <2>2. QED BY <2>1, LenProperties
<1>1. ASSUME SetImmediate PROVE ImmediatesKept'
  <2>1. immediates' = Append(q, nImm + 1) /\ nImm' = nImm + 1 /\ vm' # "left"
    BY <1>1 DEF SetImmediate, loop
  <2>2. /\ Len(immediates') = Len(q) + 1 /\ DOMAIN immediates' = 1..(Len(q) + 1)
        /\ \A i \in 1..Len(q) : immediates'[i] = q[i]
        /\ immediates'[Len(q) + 1] = nImm + 1
    BY <1>0, <2>1, AppendProperties
  <2>3. ASSUME NEW i \in 1..(Len(q) + 1)
        PROVE  immediates'[i] = nImm + 1 - (Len(q) + 1) + i
    <3>1. CASE i = Len(q) + 1
      BY <1>0, <2>2, <3>1
    <3>2. CASE i # Len(q) + 1
      <4>1. i \in 1..Len(q) /\ q[i] = nImm - Len(q) + i
        BY <1>0, <2>3, <3>2 DEF ImmediatesKept
      <4>2. QED BY <1>0, <2>2, <4>1
    <3>3. QED BY <3>1, <3>2
  <2>4. \A i \in 1..Len(immediates') : immediates'[i] = nImm' - Len(immediates') + i
    BY <1>0, <2>1, <2>2, <2>3
  <2>5. QED BY <2>1, <2>4 DEF ImmediatesKept
<1>2. ASSUME RunImmediate PROVE ImmediatesKept'
  <2>1. q # <<>> /\ immediates' = Tail(q) /\ nImm' = nImm /\ vm' # "left"
    BY <1>2 DEF RunImmediate, imm
  <2>2. /\ Len(immediates') = Len(q) - 1 /\ DOMAIN immediates' = 1..(Len(q) - 1)
        /\ \A i \in 1..(Len(q) - 1) : immediates'[i] = q[i + 1]
    BY <1>0, <2>1, HeadTailProperties
  <2>3. QED BY <1>0, <2>1, <2>2 DEF ImmediatesKept
<1>3. ASSUME MacroDone PROVE ImmediatesKept'
  BY <1>3 DEF MacroDone, ImmediatesKept, imm
<1>4. ASSUME \/ Return \/ DrainEnds \/ ScriptEnds \/ TimersDone \/ Tick \/ UNCHANGED vars
             \/ \E d \in Delays, repeat \in BOOLEAN : SetTimer(d, repeat)
             \/ \E i \in 1..MaxImmediates : ClearImmediate(i)
             \/ \E r \in rt : Wake(r)
             \/ \E t \in 1..MaxTimers : Refresh(t) \/ Clear(t) \/ Fire(t) \/ \E ref \in BOOLEAN : SetRef(t, ref)
      PROVE  ImmediatesKept'
  <2>1. immediates' = immediates /\ nImm' = nImm /\ (vm' = vm \/ vm' # "left")
    BY <1>4 DEF Return, DrainEnds, ScriptEnds, TimersDone, Tick, SetTimer, ClearImmediate, Wake,
                Refresh, Clear, Fire, SetRef, Call, vars, loop, imm
  <2>2. QED BY <2>1 DEF ImmediatesKept
<1>5. QED BY <1>1, <1>2, <1>3, <1>4 DEF Next

-----------------------------------------------------------------------------
(* Theorems *)

\* IInv is inductive.
LEMMA StepInv == IInv /\ [Next]_vars => IInv'
BY StepTypes, StepTimers, StepImmediates DEF IInv

\* It holds in every state of every behaviour.
LEMMA Invariance == Spec => []IInv
BY InitInv, StepInv, PTL DEF Spec

\* However ref, unref, refresh and clear are called, from whichever callback, a
\* live Timeout has its runtime timer armed in the right queue; the Immediates
\* to come are queued once each and in order; and the process leaves with
\* none of either to come, but Timeouts that are unref'd.
THEOREM TimersAreArmed == Spec => []TimersArmed
<1>1. IInv => TimersArmed
  <2> SUFFICES ASSUME IInv PROVE Armed
    BY DEF IInv, TimersArmed
  <2> SUFFICES ASSUME NEW t \in Created, Live(t), t # cur, t \notin due
               PROVE  \E r \in rt : /\ r.owner = t /\ r.id = timers[t].id
                                   /\ r.ref = timers[t].refed /\ r.at >= timers[t].deadline
    BY DEF Armed
  <2>1. ArmedTimer(t)
    BY DEF IInv, ArmedOK, Live
  <2>2. QED BY <2>1 DEF ArmedTimer
<1>2. QED BY <1>1, Invariance, PTL

\* timeout_object.go:113-115 and immediate_object.go:26-29: Timeouts fire earliest
\* first across wakeups and whatever the callbacks did, and an Immediate never
\* before a Timeout that was due when the loop reached its check phase.
THEOREM TimersAreInOrder == Spec => TimersInOrder
<1> DEFINE Fires == \A t \in Created : fires'[t] # fires[t] =>
                      /\ timers[t].live /\ timers[t].deadline <= now
                      /\ \A u \in Created : timers[u].live => Precedes(t, u)
           Checks == Len(immediates') < Len(immediates) =>
                       \A t \in Created : Live(t) => timers[t].deadline > checkAt
<1>1. IInv /\ [Next]_vars => [Fires]_vars
  <2> SUFFICES ASSUME IInv, [Next]_vars, NEW t \in Created, fires'[t] # fires[t]
               PROVE  /\ timers[t].live /\ timers[t].deadline <= now
                      /\ \A u \in Created : timers[u].live => Precedes(t, u)
    OBVIOUS
  <2>1. PICK v \in 1..MaxTimers : Fire(v)
    BY DEF Next, vars, SetTimer, SetRef, Refresh, Clear, Call, SetImmediate, ClearImmediate, Wake,
           Return, DrainEnds, ScriptEnds, TimersDone, RunImmediate, MacroDone, Tick
  <2>2. v = t
    BY <2>1 DEF Fire, IInv, TypeOK
  <2>3. /\ t \in due /\ timers[t].live /\ timers[t].deadline <= drainNow /\ vm = "drain" /\ cur = 0
        /\ \A u \in due : StillDue(u) => Precedes(t, u)
    BY <2>1, <2>2 DEF Fire, StillDue, IInv, PhaseOK
  <2>4. /\ drainNow \in Nat /\ now \in Nat /\ drainNow <= now
        /\ \A u \in Created : u # 0 /\ timers[u].deadline \in Nat
    BY Types DEF IInv, PhaseOK
  <2>5. ASSUME NEW u \in Created, timers[u].live PROVE Precedes(t, u)
    <3>1. CASE timers[u].deadline > drainNow
      BY <2>3, <2>4, <3>1 DEF Precedes
    <3>2. CASE ~(timers[u].deadline > drainNow)
      <4>1. u \in due
        BY <2>3, <2>4, <2>5, <3>2 DEF IInv, DrainOK
      <4>2. QED BY <2>3, <2>4, <2>5, <3>2, <4>1 DEF StillDue
    <3>3. QED BY <3>1, <3>2
  <2>6. QED BY <2>3, <2>4, <2>5
<1>2. IInv => [Checks]_vars
  BY DEF IInv, DeadlineOK, Live
<1>3. QED BY <1>1, <1>2, Invariance, PTL DEF Spec, TimersInOrder, FiresInOrder, CheckAfterTimers
=============================================================================
