--------------------------- MODULE Channels_proof ---------------------------
(***************************************************************************)
(* Proofs about MCChannels: the fork channel, signals, watchers, a         *)
(* listening server and a UDP socket, for any bounds and capacities.       *)
(*                                                                         *)
(* The components do not touch each other's variables and all begin in     *)
(* their first state, so the invariant of each holds whichever is at work. *)
(***************************************************************************)
EXTENDS MCChannels, SequenceTheorems, WellFoundedInduction, TLAPS

-----------------------------------------------------------------------------
(* Signals *)

Counts == [on : Nat, once : Nat]
SignalTypes ==
  /\ listeners \in [Sigs -> Counts]
  /\ active \subseteq Sigs /\ notified \subseteq Sigs /\ resyncing \in BOOLEAN
  /\ channel \in Seq(Sigs) /\ relayed \in Seq(Sigs)
  /\ caught \in Nat /\ emitted \in Nat
  /\ killed \in Sigs \cup {"none"} /\ stray \in BOOLEAN

\* Who listens is bridged, also while resync runs; what is bridged is what
\* the operating system delivers, but for the moment between Stop and Notify.
BridgeOK ==
  /\ notified = IF resyncing THEN {} ELSE active
  /\ \A g \in Sigs : Heard(listeners[g]) => g \in active
  /\ ~stray => \A g \in active : Heard(listeners[g])
SignalInv == SignalTypes /\ BridgeOK /\ KilledUnheard /\ TakenNotLost

\* The bridged set is changed and resync begun, or both stay: either way what
\* is delivered is what is bridged.
LEMMA BridgeStep ==
  ASSUME SignalTypes, BridgeOK, NEW bridged \in SUBSET Sigs, Bridge(bridged), ~resyncing
  PROVE  /\ active' = bridged /\ notified' \subseteq Sigs /\ resyncing' \in BOOLEAN
         /\ notified' = IF resyncing' THEN {} ELSE active'
BY DEF SignalTypes, BridgeOK, Bridge

\* A step of JavaScript leaves the bridge as its listeners ask for it.
LEMMA BridgeKept ==
  ASSUME SignalInv, Free, NEW bridged \in SUBSET Sigs, Bridge(bridged),
         listeners' \in [Sigs -> Counts], stray' = stray, killed' = killed,
         \A g \in Sigs : Heard(listeners'[g]) => g \in bridged,
         ~stray => \A g \in bridged : Heard(listeners'[g])
  PROVE  /\ listeners' \in [Sigs -> Counts]
         /\ active' \subseteq Sigs /\ notified' \subseteq Sigs /\ resyncing' \in BOOLEAN
         /\ stray' \in BOOLEAN /\ killed' \in Sigs \cup {"none"}
         /\ BridgeOK' /\ KilledUnheard'
<1>1. /\ active' = bridged /\ notified' \subseteq Sigs /\ resyncing' \in BOOLEAN
      /\ notified' = IF resyncing' THEN {} ELSE active'
  BY BridgeStep DEF SignalInv, Free
<1>2. BridgeOK'
  BY <1>1 DEF BridgeOK
<1>3. KilledUnheard'
  BY DEF Free, KilledUnheard
<1>4. QED BY <1>1, <1>2, <1>3 DEF SignalInv, SignalTypes

LEMMA CountUp ==
  ASSUME NEW count \in Counts, NEW kind \in {"on", "once"}
  PROVE  [count EXCEPT ![kind] = @ + 1] \in Counts /\ Heard([count EXCEPT ![kind] = @ + 1])
<1>1. CASE kind = "on"
  BY <1>1 DEF Counts, Heard
<1>2. CASE kind = "once"
  BY <1>2 DEF Counts, Heard
<1>3. QED BY <1>1, <1>2

LEMMA CountDown ==
  ASSUME NEW count \in Counts, NEW kind \in {"on", "once"}, count[kind] > 0
  PROVE  [count EXCEPT ![kind] = @ - 1] \in Counts /\ Heard(count)
<1>1. CASE kind = "on"
  BY <1>1 DEF Counts, Heard
<1>2. CASE kind = "once"
  BY <1>2 DEF Counts, Heard
<1>3. QED BY <1>1, <1>2

LEMMA SignalInit == ASSUME GInit PROVE SignalInv
<1>1. SignalTypes
  BY EmptySeq DEF GInit, SignalTypes, NoListeners, Counts
<1>2. \A g \in Sigs : ~Heard(listeners[g])
  BY DEF GInit, NoListeners, Heard
<1>3. BridgeOK /\ KilledUnheard /\ TakenNotLost
  BY <1>2 DEF GInit, BridgeOK, KilledUnheard, TakenNotLost
<1>4. QED BY <1>1, <1>3 DEF SignalInv

LEMMA SignalStep == ASSUME SignalInv, GNext PROVE SignalInv'
<1> USE DEF SignalInv
<1>1. CASE Resync
  BY <1>1 DEF Resync, SignalTypes, BridgeOK, KilledUnheard, TakenNotLost
<1>2. CASE Relay
  <2>1. channel' \in Seq(Sigs) /\ relayed' \in Seq(Sigs)
        /\ Len(relayed') + Len(channel') = Len(relayed) + Len(channel)
    BY <1>2, HeadTailProperties, AppendProperties DEF Relay, SignalTypes
  <2>2. QED BY <1>2, <2>1 DEF Relay, SignalTypes, BridgeOK, KilledUnheard, TakenNotLost
<1>3. CASE SignalTick
  <2> DEFINE g == Head(relayed)
             bridged == IF Heard(Emitted(g)[g]) THEN active ELSE active \ {g}
  <2>1. g \in Sigs /\ relayed' \in Seq(Sigs) /\ Len(relayed') = Len(relayed) - 1
    BY <1>3, HeadTailProperties DEF SignalTick, SignalTypes
  <2>2. /\ listeners' = Emitted(g) /\ emitted' = emitted + 1 /\ Bridge(bridged) /\ Free
        /\ UNCHANGED <<channel, caught, killed, stray>>
    BY <1>3 DEF SignalTick
  <2>3. listeners' \in [Sigs -> Counts] /\ \A h \in Sigs : h # g => listeners'[h] = listeners[h]
    BY <2>1, <2>2 DEF Emitted, SignalTypes, Counts
  <2>4. \A h \in Sigs : Heard(listeners'[h]) => h \in bridged
    <3>1. Heard(listeners'[g]) => g \in bridged
      <4>1. Heard(listeners'[g]) => Heard(listeners[g])
        BY <2>1, <2>2 DEF Emitted, Heard, SignalTypes, Counts
      <4>2. QED BY <2>1, <2>2, <4>1 DEF BridgeOK
    <3>2. QED BY <2>3, <3>1 DEF BridgeOK
  <2>5. ~stray => \A h \in bridged : Heard(listeners'[h])
    BY <2>1, <2>2, <2>3 DEF BridgeOK, SignalTypes
  <2>6. bridged \in SUBSET Sigs
    BY DEF SignalTypes
  <2> HIDE DEF g, bridged
  <2>7. /\ listeners' \in [Sigs -> Counts]
        /\ active' \subseteq Sigs /\ notified' \subseteq Sigs /\ resyncing' \in BOOLEAN
        /\ stray' \in BOOLEAN /\ killed' \in Sigs \cup {"none"}
        /\ BridgeOK' /\ KilledUnheard'
    BY <2>2, <2>3, <2>4, <2>5, <2>6, BridgeKept
  <2>8. SignalTypes' /\ TakenNotLost'
    BY <2>1, <2>2, <2>7 DEF SignalTypes, TakenNotLost
  <2>9. QED BY <2>7, <2>8
<1>4. ASSUME NEW g \in Sigs, RemoveListener(g) PROVE SignalInv'
  <2> DEFINE bridged == IF Heard(listeners'[g]) THEN active ELSE active \ {g}
  <2>1. Bridge(bridged) /\ Free /\ UNCHANGED <<channel, relayed, caught, emitted, killed, stray>>
    BY <1>4 DEF RemoveListener, Listens
  <2> DEFINE Fewer == /\ listeners' \in [Sigs -> Counts]
                      /\ \A h \in Sigs : h # g => listeners'[h] = listeners[h]
                      /\ Heard(listeners'[g]) => Heard(listeners[g])
  <2>2. Fewer
    <3>1. CASE UNCHANGED listeners
      BY <3>1 DEF SignalTypes
    <3>2. ASSUME NEW kind \in {"on", "once"}, listeners[g][kind] > 0,
                 listeners' = [listeners EXCEPT ![g][kind] = @ - 1]
          PROVE  Fewer
      <4>1. listeners[g] \in Counts
        BY DEF SignalTypes
      <4>2. [listeners[g] EXCEPT ![kind] = @ - 1] \in Counts /\ Heard(listeners[g])
        BY <3>2, <4>1, CountDown, Zenon
      <4>3. QED BY <3>2, <4>1, <4>2 DEF SignalTypes
    <3>3. QED BY <1>4, <3>1, <3>2 DEF RemoveListener
  <2>3. \A h \in Sigs : Heard(listeners'[h]) => h \in bridged
    BY <2>2 DEF BridgeOK
  <2>4. ~stray => \A h \in bridged : Heard(listeners'[h])
    BY <2>2 DEF BridgeOK, SignalTypes
  <2>5. bridged \in SUBSET Sigs
    BY DEF SignalTypes
  <2> HIDE DEF bridged
  <2>7. /\ listeners' \in [Sigs -> Counts]
        /\ active' \subseteq Sigs /\ notified' \subseteq Sigs /\ resyncing' \in BOOLEAN
        /\ stray' \in BOOLEAN /\ killed' \in Sigs \cup {"none"}
        /\ BridgeOK' /\ KilledUnheard'
    BY <2>1, <2>2, <2>3, <2>4, <2>5, BridgeKept
  <2>8. QED BY <2>1, <2>7 DEF SignalTypes, TakenNotLost
<1>5. ASSUME NEW g \in Sigs, EmitByHand(g) PROVE SignalInv'
  <2>1. listeners' \in [Sigs -> Counts] /\ (\A h \in Sigs : h # g => listeners'[h] = listeners[h])
        /\ listeners' = Emitted(g)
    BY <1>5 DEF EmitByHand, Emitted, SignalTypes, Counts
  <2>2. Heard(listeners'[g]) => Heard(listeners[g])
    BY <2>1 DEF Emitted, Heard, SignalTypes, Counts
  <2>3. BridgeOK'
    BY <1>5, <2>1, <2>2 DEF EmitByHand, BridgeOK, SignalTypes
  <2>4. QED BY <1>5, <2>1, <2>3 DEF EmitByHand, Listens, Free, SignalTypes, KilledUnheard, TakenNotLost
<1>6. ASSUME NEW g \in Sigs, SignalArrives(g) PROVE SignalInv'
  <2>1. /\ channel' \in Seq(Sigs) /\ caught' \in Nat
        /\ \/ channel' = channel /\ caught' = caught
           \/ Len(channel') = Len(channel) + 1 /\ caught' = caught + 1
    BY <1>6, AppendProperties DEF SignalArrives, SignalTypes
  <2>2. KilledUnheard'
    BY <1>6, SignalsAssumption DEF SignalsAssumption, SignalArrives, KilledUnheard, BridgeOK
  <2>3. SignalTypes'
    BY <1>6, <2>1 DEF SignalArrives, SignalTypes
  <2>4. TakenNotLost'
    <3>1. UNCHANGED <<emitted, relayed>> /\ Len(relayed) \in Nat /\ Len(channel) \in Nat
      BY <1>6 DEF SignalArrives, SignalTypes
    <3>2. CASE channel' = channel /\ caught' = caught
      BY <3>1, <3>2 DEF TakenNotLost
    <3>3. CASE Len(channel') = Len(channel) + 1 /\ caught' = caught + 1
      BY <3>1, <3>3 DEF SignalTypes, TakenNotLost
    <3>4. QED BY <2>1, <3>2, <3>3
  <2>5. BridgeOK'
    BY <1>6 DEF SignalArrives, BridgeOK
  <2>6. QED BY <2>2, <2>3, <2>4, <2>5
<1>7. ASSUME NEW g \in Sigs, NEW kind \in {"on", "once"}, AddListener(g, kind) PROVE SignalInv'
  <2> DEFINE bridged == IF Heard(listeners[g]) THEN active ELSE active \cup {g}
  <2>1. /\ Bridge(bridged) /\ Free /\ UNCHANGED <<channel, relayed, caught, emitted, killed, stray>>
        /\ listeners' = [listeners EXCEPT ![g][kind] = @ + 1]
    BY <1>7 DEF AddListener, Listens
  <2>2. [listeners[g] EXCEPT ![kind] = @ + 1] \in Counts /\ Heard([listeners[g] EXCEPT ![kind] = @ + 1])
    <3>1. listeners[g] \in Counts
      BY DEF SignalTypes
    <3>2. QED BY <3>1, CountUp, Zenon
  <2>3. /\ listeners' \in [Sigs -> Counts] /\ \A h \in Sigs : h # g => listeners'[h] = listeners[h]
        /\ Heard(listeners'[g])
    BY <2>1, <2>2 DEF SignalTypes
  <2>4. \A h \in Sigs : Heard(listeners'[h]) => h \in bridged
    BY <2>3 DEF BridgeOK
  <2>5. ~stray => \A h \in bridged : Heard(listeners'[h])
    BY <2>3 DEF BridgeOK, SignalTypes
  <2>6. bridged \in SUBSET Sigs
    BY DEF SignalTypes
  <2> HIDE DEF bridged
  <2>7. /\ listeners' \in [Sigs -> Counts]
        /\ active' \subseteq Sigs /\ notified' \subseteq Sigs /\ resyncing' \in BOOLEAN
        /\ stray' \in BOOLEAN /\ killed' \in Sigs \cup {"none"}
        /\ BridgeOK' /\ KilledUnheard'
    BY <2>1, <2>3, <2>4, <2>5, <2>6, BridgeKept
  <2>8. QED BY <2>1, <2>7 DEF SignalTypes, TakenNotLost
<1>8. ASSUME NEW gone \in SUBSET Sigs, RemoveAll(gone) PROVE SignalInv'
  <2>1. /\ Bridge(active \ gone) /\ Free /\ UNCHANGED <<channel, relayed, caught, emitted, killed, stray>>
        /\ listeners' = [g \in Sigs |-> IF g \in gone THEN NoListeners ELSE listeners[g]]
    BY <1>8 DEF RemoveAll, Listens
  <2>2. listeners' \in [Sigs -> Counts] /\ ~Heard(NoListeners)
    BY <2>1 DEF SignalTypes, Counts, NoListeners, Heard
  <2>3. \A h \in Sigs : Heard(listeners'[h]) => h \in active \ gone
    BY <2>1, <2>2 DEF BridgeOK
  <2>4. ~stray => \A h \in active \ gone : Heard(listeners'[h])
    BY <2>1 DEF BridgeOK, SignalTypes
  <2>5. active \ gone \in SUBSET Sigs
    BY DEF SignalTypes
  <2>7. /\ listeners' \in [Sigs -> Counts]
        /\ active' \subseteq Sigs /\ notified' \subseteq Sigs /\ resyncing' \in BOOLEAN
        /\ stray' \in BOOLEAN /\ killed' \in Sigs \cup {"none"}
        /\ BridgeOK' /\ KilledUnheard'
    BY <2>1, <2>2, <2>3, <2>4, <2>5, BridgeKept
  <2>8. QED BY <2>1, <2>7 DEF SignalTypes, TakenNotLost
<1>9. QED
  <2>1. \A gone \in {{g} : g \in Sigs} \cup {Sigs} : gone \in SUBSET Sigs
    OBVIOUS
  <2>2. QED BY <1>1, <1>2, <1>3, <1>4, <1>5, <1>6, <1>7, <1>8, <2>1 DEF GNext, GWorks

LEMMA SignalIs == ASSUME SignalInv PROVE BridgeExact /\ KilledUnheard /\ TakenNotLost
BY DEF SignalInv, SignalTypes, BridgeOK, Free, BridgeExact

-----------------------------------------------------------------------------
(* Listener *)

Places == {"away", "backlog", "refused", "accepted", "dropped", "served"}
Answered == {"ctx", "error"}
Questions == [state : {"none", "asked", "called"}, once : BOOLEAN, ch : Seq(Answered),
              stuck : BOOLEAN, answers : Seq(Answered),
              result : {"none", "timeout"} \cup Answered]
ListenerTypes ==
  /\ srv \in [closed : BOOLEAN, refed : BOOLEAN, opHeld : BOOLEAN, started : BOOLEAN,
             open : BOOLEAN]
  /\ conn \in [Conns -> Places]
  /\ ask \in [Conns -> Questions]
  /\ closing \in {"no", "mark", "shut"}

\* Between two steps of close() the operation is still held.
ServerOK == closing = "no" => (srv.opHeld <=> srv.refed /\ ~srv.closed)
\* Only the first answer is sent, so that there is room for it; and a result
\* that is not the timeout is that one.
AnswerOK(q) ==
  /\ ~q.stuck
  /\ ~q.once => q.answers = <<>> /\ q.ch = <<>>
  /\ q.ch # <<>> => Len(q.ch) = 1 /\ q.answers # <<>> /\ Head(q.ch) = Head(q.answers)
  /\ q.result \in Answered => q.answers # <<>> /\ q.result = Head(q.answers)
AnswersOK == \A c \in Conns : AnswerOK(ask[c])
ListenerInv == ListenerTypes /\ ServerOK /\ AnswersOK

LEMMA ListenerInit == ASSUME LInit PROVE ListenerInv
BY EmptySeq DEF LInit, NoAsk, ListenerInv, ListenerTypes, ServerOK, AnswersOK, AnswerOK, Questions,
                Places, Answered

LEMMA ListenerStep == ASSUME ListenerInv, LNext PROVE ListenerInv'
<1> USE DEF ListenerInv, ListenerTypes
<1>1. CASE Start
  BY <1>1 DEF Start, Turn, Idle, ServerOK, AnswersOK
<1>2. ASSUME NEW to \in BOOLEAN, ServerRef(to) PROVE ListenerInv'
  BY <1>2 DEF ServerRef, Turn, Idle, ServerOp, ServerOK, AnswersOK
<1>3. CASE CloseMarks
  BY <1>3 DEF CloseMarks, Turn, Idle, ServerOK, AnswersOK
<1>4. CASE CloseShuts
  BY <1>4 DEF CloseShuts, ServerOK, AnswersOK, Places
<1>5. CASE CloseEnds
  BY <1>5 DEF CloseEnds, ServerOp, ServerOK, AnswersOK
<1>6. ASSUME NEW c \in Conns, PeerConnects(c) \/ Accepts(c) \/ Hands(c) PROVE ListenerInv'
  <2>1. UNCHANGED <<srv, ask, closing>>
    BY <1>6 DEF PeerConnects, Accepts, Hands
  <2>2. conn' \in [Conns -> Places]
    BY <1>6 DEF PeerConnects, Accepts, Hands, Places
  <2>3. QED BY <2>1, <2>2 DEF ServerOK, AnswersOK
<1>7. CASE AcceptFails \/ Leave
  BY <1>7 DEF AcceptFails, Leave, ServerOK, AnswersOK
<1>8. ASSUME NEW c \in Conns, NEW q \in Questions, ask' = [ask EXCEPT ![c] = q], AnswerOK(q),
             UNCHANGED <<srv, conn, closing>>
      PROVE  ListenerInv'
  <2>1. AnswersOK'
    BY <1>8 DEF AnswersOK
  <2>2. QED BY <1>8, <2>1 DEF ServerOK
<1>9. CASE RunTask
  <2> DEFINE t == Head(tasks)
  <2>1. UNCHANGED <<srv, closing>>
    BY <1>9 DEF RunTask
  <2>2. conn' \in [Conns -> Places]
    BY <1>9 DEF RunTask, RunAccepted, Places
  <2>3. \/ UNCHANGED ask
        \/ ask' = [ask EXCEPT ![t.c].state = "called"]
    BY <1>9 DEF RunTask, RunAccepted
  <2> HIDE DEF t
  <2> DEFINE Asked == /\ ask' \in [Conns -> Questions]
                      /\ \A c \in Conns : /\ ask'[c].answers = ask[c].answers /\ ask'[c].result = ask[c].result
                                          /\ ask'[c].once = ask[c].once /\ ask'[c].ch = ask[c].ch
                                          /\ ask'[c].stuck = ask[c].stuck
  <2>4. Asked
    <3>1. CASE UNCHANGED ask
      BY <3>1
    <3>2. CASE ask' = [ask EXCEPT ![t.c].state = "called"] /\ t.c \in Conns
      <4>0. ask[t.c] \in Questions
        BY <3>2
      <4>1. [ask[t.c] EXCEPT !.state = "called"] \in Questions
        BY <4>0 DEF Questions
      <4>2. ask' = [ask EXCEPT ![t.c] = [ask[t.c] EXCEPT !.state = "called"]]
        BY <3>2
      <4> DEFINE q == [ask[t.c] EXCEPT !.state = "called"]
      <4>3. /\ q.answers = ask[t.c].answers /\ q.result = ask[t.c].result
            /\ q.once = ask[t.c].once /\ q.ch = ask[t.c].ch /\ q.stuck = ask[t.c].stuck
        BY <3>2 DEF Questions
      <4>4. q \in Questions /\ ask' = [ask EXCEPT ![t.c] = q]
        BY <4>1, <4>2
      <4> HIDE DEF q
      <4>5. ask' \in [Conns -> Questions]
        BY <4>4
      <4>6. ASSUME NEW c \in Conns
            PROVE  /\ ask'[c].answers = ask[c].answers /\ ask'[c].result = ask[c].result
                   /\ ask'[c].once = ask[c].once /\ ask'[c].ch = ask[c].ch
                   /\ ask'[c].stuck = ask[c].stuck
        <5>1. CASE c = t.c
          BY <3>2, <4>3, <4>4, <5>1
        <5>2. CASE c # t.c
          BY <4>4, <5>2
        <5>3. QED BY <5>1, <5>2
      <4>7. QED BY <4>5, <4>6
    <3>3. CASE ask' = [ask EXCEPT ![t.c].state = "called"] /\ t.c \notin Conns
      <4>1. ask' = ask
        BY <3>3
      <4>2. QED BY <4>1
    <3>4. QED BY <2>3, <3>1, <3>2, <3>3
  <2>6. AnswersOK'
    BY <2>4 DEF AnswersOK, AnswerOK
  <2>7. QED BY <2>1, <2>2, <2>4, <2>6 DEF ServerOK
<1>10. ASSUME NEW c \in Conns, AsksSNI(c) PROVE ListenerInv'
  <2> DEFINE q == [ask[c] EXCEPT !.state = "asked"]
  <2>1. q \in Questions /\ AnswerOK(q)
    BY DEF Questions, AnswersOK, AnswerOK
  <2>2. ask' = [ask EXCEPT ![c] = q] /\ UNCHANGED <<srv, conn, closing>>
    BY <1>10 DEF AsksSNI
  <2>3. QED BY <2>1, <2>2, <1>8
<1>11. ASSUME NEW c \in Conns, NEW a \in Answered, Answers(c, a) PROVE ListenerInv'
  <2> DEFINE new == Append(ask[c].answers, a)
             said == [ask[c] EXCEPT !.answers = new]
             q == Done(said, a)
  <2>1. ask[c] \in Questions /\ ask[c].answers \in Seq(Answered) /\ ask[c].ch \in Seq(Answered)
        /\ AnswerOK(ask[c])
    BY DEF Questions, AnswersOK
  <2>2. new \in Seq(Answered) /\ new # <<>> /\ (ask[c].answers = <<>> => Head(new) = a)
    BY <2>1, AppendProperties
  <2>3. ask[c].answers # <<>> => Head(new) = Head(ask[c].answers)
    BY <2>1, AppendProperties
  <2>4. ask' = [ask EXCEPT ![c] = q] /\ UNCHANGED <<srv, conn, closing>>
    <3>1. ask' = [ask EXCEPT ![c] = Done([ask[c] EXCEPT !.answers = new], a)]
      <4>1. ask' = [ask EXCEPT ![c] = Done([ask[c] EXCEPT !.answers = Append(ask[c].answers, a)], a)]
        BY <1>11, Zenon DEF Answers
      <4>2. QED BY <4>1
    <3>2. UNCHANGED <<srv, conn, closing>>
      BY <1>11 DEF Answers
    <3>3. QED BY <3>1, <3>2
  <2> HIDE DEF new
  <2>5. /\ said \in Questions /\ said.answers = new /\ said.once = ask[c].once
        /\ said.ch = ask[c].ch /\ said.stuck = ask[c].stuck /\ said.result = ask[c].result
    BY <2>1, <2>2 DEF Questions
  <2> HIDE DEF said
  <2>6. q \in Questions /\ AnswerOK(q)
    <3>1. CASE said.once
      <4>1. q = said
        BY <3>1 DEF Done
      <4>2. ask[c].once
        BY <2>5, <3>1
      <4>3. AnswerOK(said)
        BY <2>1, <2>2, <2>3, <2>5, <4>2 DEF AnswerOK
      <4>4. QED BY <2>5, <4>1, <4>3
    <3>2. CASE ~said.once
      <4>1. said.ch = <<>> /\ ask[c].answers = <<>> /\ ~said.stuck /\ said.result \notin Answered
        BY <2>1, <2>5, <3>2 DEF AnswerOK
      <4>2. q = [said EXCEPT !.once = TRUE, !.ch = <<a>>]
        BY <3>2, <4>1 DEF Done
      <4>3. <<a>> \in Seq(Answered) /\ Head(<<a>>) = a
        OBVIOUS
      <4>4. /\ q \in Questions /\ q.answers = new /\ q.once /\ q.ch = <<a>>
            /\ q.stuck = said.stuck /\ q.result = said.result
        BY <2>5, <4>2, <4>3 DEF Questions
      <4>5. QED BY <2>2, <4>1, <4>3, <4>4 DEF AnswerOK
    <3>3. QED BY <3>1, <3>2
  <2>7. QED BY <2>4, <2>6, <1>8
<1>12. ASSUME NEW c \in Conns, HandshakeHears(c) PROVE ListenerInv'
  <2> DEFINE rest == Tail(ask[c].ch)
             q == [ask[c] EXCEPT !.result = Head(ask[c].ch), !.ch = rest]
  <2>1. ask[c].ch # <<>> /\ ask' = [ask EXCEPT ![c] = q] /\ UNCHANGED <<srv, conn, closing>>
    BY <1>12 DEF HandshakeHears
  <2>2. ask[c] \in Questions /\ ask[c].ch \in Seq(Answered) /\ AnswerOK(ask[c])
    BY DEF Questions, AnswersOK
  <2>3. Head(ask[c].ch) \in Answered /\ rest \in Seq(Answered)
    BY <2>1, <2>2, HeadTailProperties
  <2>o. ask[c].once /\ ~ask[c].stuck /\ Len(ask[c].ch) = 1
        /\ ask[c].answers # <<>> /\ Head(ask[c].ch) = Head(ask[c].answers)
    BY <2>1, <2>2 DEF AnswerOK
  <2>e. rest = <<>>
    <3> DEFINE u == ask[c].ch
    <3>1. u \in Seq(Answered) /\ Len(u) = 1
      BY <2>2, <2>o
    <3> HIDE DEF u
    <3>2. Tail(u) \in Seq(Answered) /\ Len(Tail(u)) = 0
      <4>0. Len(<<>>) = 0
        OBVIOUS
      <4>1. u # <<>>
        <5>1. ASSUME u = <<>> PROVE FALSE
          <6>1. Len(u) = 0
            BY <4>0, <5>1, Zenon
          <6>2. QED BY <3>1, <6>1
        <5>2. QED BY <5>1
      <4>2. QED BY <3>1, <4>1, HeadTailProperties
    <3>3. Tail(u) = <<>>
      BY <3>2, EmptySeq
    <3>4. QED BY <3>3 DEF u
  <2> HIDE DEF rest
  <2>4. /\ q \in Questions /\ q.answers = ask[c].answers /\ q.result = Head(ask[c].ch)
        /\ q.ch = rest /\ q.once = ask[c].once /\ q.stuck = ask[c].stuck
    BY <2>2, <2>3 DEF Questions
  <2>5. AnswerOK(q)
    BY <2>4, <2>o, <2>e DEF AnswerOK
  <2>6. QED BY <2>1, <2>4, <2>5, <1>8
<1>13. ASSUME NEW c \in Conns, HandshakeTimesOut(c) PROVE ListenerInv'
  <2> DEFINE q == [ask[c] EXCEPT !.result = "timeout"]
  <2>0. ask[c] \in Questions /\ AnswerOK(ask[c])
    BY DEF AnswersOK
  <2>1. q \in Questions /\ AnswerOK(q)
    BY <2>0 DEF Questions, AnswerOK, Answered
  <2>2. ask' = [ask EXCEPT ![c] = q] /\ UNCHANGED <<srv, conn, closing>>
    BY <1>13 DEF HandshakeTimesOut
  <2>3. QED BY <2>1, <2>2, <1>8
<1>14. QED
  BY <1>1, <1>2, <1>3, <1>4, <1>5, <1>6, <1>7, <1>9, <1>10, <1>11, <1>12, <1>13
     DEF LNext, LWorks, Answered

LEMMA ListenerIs == ASSUME ListenerInv PROVE ServerHold /\ OneAnswer
<1>1. ServerHold
  BY DEF ListenerInv, ServerOK, ServerHold, Idle
<1>2. \A c \in Conns : ask[c].result \in {"none", "timeout"} \cup Answered
  BY DEF ListenerInv, ListenerTypes, Questions
<1>3. QED BY <1>1, <1>2 DEF ListenerInv, AnswersOK, AnswerOK, OneAnswer

\* Only a macrotask serves a connection, and it looks whether the server is closed.
LEMMA ListenerQuiet == ASSUME ListenerInv, LNext PROVE NoneServedAfterClose
<1> USE DEF ListenerInv, ListenerTypes
<1>1. ASSUME srv.closed, NEW c \in Conns, conn'[c] = "served" PROVE conn[c] = "served"
  <2>1. CASE CloseShuts
    BY <1>1, <2>1 DEF CloseShuts
  <2>2. ASSUME NEW d \in Conns, PeerConnects(d) \/ Accepts(d) PROVE conn[c] = "served"
    BY <1>1, <2>2 DEF PeerConnects, Accepts
  <2>3. CASE RunTask
    BY <1>1, <2>3 DEF RunTask, RunAccepted
  <2>4. CASE UNCHANGED conn
    BY <1>1, <2>4
  <2>5. UNCHANGED conn \/ CloseShuts \/ RunTask \/ \E d \in Conns : PeerConnects(d) \/ Accepts(d)
    BY DEF LNext, LWorks, Start, ServerRef, CloseMarks, CloseEnds, Hands, AcceptFails, AsksSNI, Answers,
           HandshakeHears, HandshakeTimesOut, Leave
  <2>6. QED BY <2>1, <2>2, <2>3, <2>4, <2>5
<1>2. QED BY <1>1 DEF NoneServedAfterClose

-----------------------------------------------------------------------------
(* Watch *)

Files == Versions \cup Errnos
Changes == [op : {"change"}, saw : Files, prev : Versions \cup {"nil"}]
WatchTicks == [op : {"stop"}] \cup Changes
Watchers == [kind : {"notify", "poll"}, refed : BOOLEAN, open : BOOLEAN, runs : BOOLEAN,
             listeners : Int, last : Versions \cup {"nil"}, busy : {"no", "ok"} \cup Errnos,
             queue : Seq(Files), ticks : Seq(WatchTicks), seen : Files \cup {"nil"},
             reports : Seq(Changes), stops : Nat]
WatchTypes == file \in Files /\ watchers \in Seq(Watchers) /\ shared \in 0..Len(watchers)

\* An open watcher has no 'stop' ahead of it, a closed one at most one, queued
\* or emitted.
Stops(s) == {i \in 1..Len(s.ticks) : s.ticks[i].op = "stop"}
StopOK(s) ==
  /\ s.refed => s.open
  /\ s.stops <= 1 /\ (s.stops = 1 => ~s.open)
  /\ s.open \/ s.stops = 1 => Stops(s) = {}
  /\ \A i, j \in Stops(s) : i = j

\* What a poll saw first and then reported, up to the k-th report; f is the last
\* good stat of these.
SawIn(first, u, k) == IF k = 0 THEN first ELSE u[k].saw
LastGood(f, first, u, n) ==
  \/ f = "nil" /\ \A j \in 0..n : SawIn(first, u, j) \in Errnos
  \/ \E j \in 0..n : /\ f = SawIn(first, u, j) /\ SawIn(first, u, j) \in Versions
                     /\ \A later \in (j + 1)..n : SawIn(first, u, later) \in Errnos
Differs(first, u, k) ==
  k > 1 \/ first \in Versions => SawIn(first, u, k) # SawIn(first, u, k - 1)
Told(first, u) ==
  \A k \in 1..Len(u) : Differs(first, u, k) /\ LastGood(u[k].prev, first, u, k - 1)

\* What the poll has reported, emitted or not, tells what it knows: busy is what
\* it saw last, and last the last good stat.
Story(s) == s.reports \o s.ticks
Knows(s) ==
  IF s.busy = "no" THEN Story(s) = <<>> /\ s.last = "nil"
  ELSE /\ s.seen \in Files
       /\ SawIn(s.seen, Story(s), Len(Story(s))) = IF s.busy = "ok" THEN s.last ELSE s.busy
       /\ s.busy = "ok" => s.last \in Versions
       /\ LastGood(s.last, s.seen, Story(s), Len(Story(s)))
PollOK(s) ==
  /\ Told(s.seen, s.reports)
  /\ s.busy = "no" => s.reports = <<>>
  /\ s.open => Told(s.seen, Story(s)) /\ Knows(s)

WatcherOK(s) == StopOK(s) /\ (Polls(s) => PollOK(s))
SharedOK == \A i \in 1..Len(watchers) : Polls(watchers[i]) => (watchers[i].open <=> shared = i)
WatchInv == WatchTypes /\ SharedOK /\ \A i \in 1..Len(watchers) : WatcherOK(watchers[i])

\* What the invariant reads of a watcher.
Alike(r, s) ==
  /\ r.kind = s.kind /\ r.open = s.open /\ r.refed = s.refed /\ r.last = s.last /\ r.busy = s.busy
  /\ r.ticks = s.ticks /\ r.seen = s.seen /\ r.reports = s.reports /\ r.stops = s.stops

LEMMA WatchInit == ASSUME HInit PROVE WatchInv
BY EmptySeq DEF HInit, WatchInv, WatchTypes, SharedOK, Files

-----------------------------------------------------------------------------

LEMMA ReportTypes ==
  ASSUME NEW s \in Watchers, NEW f \in Files, NEW prev \in Versions \cup {"nil"}
  PROVE  LET r == Report(s, f, prev)
             t == [op |-> "change", saw |-> f, prev |-> prev]
         IN  /\ r \in Watchers /\ t \in Changes
             /\ r = [s EXCEPT !.ticks = Append(s.ticks, t)]
             /\ StopOK(s) => StopOK(r)
<1> DEFINE t == [op |-> "change", saw |-> f, prev |-> prev]
           r == [s EXCEPT !.ticks = Append(s.ticks, t)]
<1>1. t \in Changes /\ t \in WatchTicks /\ t.op # "stop"
  BY DEF Changes, WatchTicks
<1>2. s.ticks \in Seq(WatchTicks)
  BY DEF Watchers
<1>3. Append(s.ticks, t) \in Seq(WatchTicks)
  BY <1>1, <1>2, AppendProperties
<1>4. r \in Watchers /\ r.ticks = Append(s.ticks, t) /\ r.open = s.open /\ r.refed = s.refed
      /\ r.stops = s.stops
  BY <1>3 DEF Watchers
<1>5. Stops(r) = Stops(s)
  <2>1. /\ Len(Append(s.ticks, t)) = Len(s.ticks) + 1 /\ Append(s.ticks, t)[Len(s.ticks) + 1] = t
        /\ \A i \in 1..Len(s.ticks) : Append(s.ticks, t)[i] = s.ticks[i]
    BY <1>1, <1>2, AppendProperties
  <2>2. QED BY <1>1, <1>2, <1>4, <2>1 DEF Stops
<1>6. StopOK(s) => StopOK(r)
  BY <1>4, <1>5 DEF StopOK
<1>7. QED BY <1>1, <1>4, <1>6 DEF Report

LEMMA ReleaseTypes ==
  ASSUME NEW s \in Watchers, WatcherOK(s)
  PROVE  /\ Release(s) \in Watchers /\ Release(s).kind = s.kind /\ ~Release(s).open
         /\ Release(s).reports = s.reports
         /\ WatcherOK(Release(s))
<1>1. CASE ~s.open
  BY <1>1 DEF Release
<1>2. CASE s.open
  <2> DEFINE t == [op |-> "stop"]
             r == [s EXCEPT !.open = FALSE, !.refed = FALSE, !.ticks = Append(s.ticks, t)]
  <2>1. t \in WatchTicks /\ s.ticks \in Seq(WatchTicks)
    BY DEF Watchers, WatchTicks
  <2>2. Append(s.ticks, t) \in Seq(WatchTicks)
    BY <2>1, AppendProperties
  <2>3. /\ r \in Watchers /\ r.kind = s.kind /\ ~r.open /\ ~r.refed /\ r.reports = s.reports
        /\ r.stops = s.stops /\ r.ticks = Append(s.ticks, t) /\ r.seen = s.seen /\ r.busy = s.busy
    BY <2>2 DEF Watchers
  <2>4. Stops(s) = {} /\ s.stops = 0
    BY <1>2 DEF WatcherOK, StopOK, Watchers
  <2>5. Stops(r) \subseteq {Len(s.ticks) + 1}
    <3>1. /\ Len(Append(s.ticks, t)) = Len(s.ticks) + 1
          /\ \A i \in 1..Len(s.ticks) : Append(s.ticks, t)[i] = s.ticks[i]
      BY <2>1, AppendProperties
    <3>2. QED BY <2>1, <2>3, <2>4, <3>1 DEF Stops
  <2>6. StopOK(r)
    BY <2>3, <2>4, <2>5 DEF StopOK
  <2>7. Polls(s) => PollOK(r)
    BY <2>3 DEF WatcherOK, PollOK
  <2>8. Release(s) = r
    BY <1>2 DEF Release
  <2>9. QED BY <2>3, <2>6, <2>7, <2>8 DEF WatcherOK, Polls
<1>3. QED BY <1>1, <1>2

\* A change of what the invariant does not read.
LEMMA SameWatcher ==
  ASSUME NEW s \in Watchers, NEW r \in Watchers, WatcherOK(s), r.kind = s.kind, r.open = s.open,
         r.refed => r.open, r.last = s.last, r.busy = s.busy, r.ticks = s.ticks, r.seen = s.seen,
         r.reports = s.reports, r.stops = s.stops
  PROVE  WatcherOK(r)
BY DEF WatcherOK, StopOK, Stops, Polls, PollOK, Knows, Story

LEMMA AlikeKeeps ==
  ASSUME NEW s \in Watchers, NEW r \in Watchers, WatcherOK(s), Alike(r, s)
  PROVE  WatcherOK(r)
<1>1. s.refed => s.open
  BY DEF WatcherOK, StopOK
<1>2. QED BY <1>1, SameWatcher DEF Alike

LEMMA SetListeners ==
  ASSUME NEW s \in Watchers, NEW n \in Int
  PROVE  [s EXCEPT !.listeners = n] \in Watchers /\ Alike([s EXCEPT !.listeners = n], s)
         /\ [s EXCEPT !.listeners = n].listeners = n
BY DEF Watchers, Alike

LEMMA SetQueue ==
  ASSUME NEW s \in Watchers, NEW queue \in Seq(Files)
  PROVE  [s EXCEPT !.queue = queue] \in Watchers /\ Alike([s EXCEPT !.queue = queue], s)
BY DEF Watchers, Alike

LEMMA SetRuns ==
  ASSUME NEW s \in Watchers
  PROVE  [s EXCEPT !.runs = FALSE] \in Watchers /\ Alike([s EXCEPT !.runs = FALSE], s)
BY DEF Watchers, Alike

LEMMA SetTicks ==
  ASSUME NEW s \in Watchers, NEW ticks \in Seq(WatchTicks)
  PROVE  LET r == [s EXCEPT !.ticks = ticks] IN
         r \in Watchers /\ r.ticks = ticks
         /\ r.kind = s.kind /\ r.open = s.open /\ r.refed = s.refed /\ r.last = s.last
         /\ r.busy = s.busy /\ r.seen = s.seen /\ r.reports = s.reports /\ r.stops = s.stops
BY DEF Watchers, Alike

LEMMA SetStops ==
  ASSUME NEW s \in Watchers, NEW n \in Nat
  PROVE  LET r == [s EXCEPT !.stops = n] IN
         r \in Watchers /\ r.stops = n
         /\ r.kind = s.kind /\ r.open = s.open /\ r.refed = s.refed /\ r.last = s.last
         /\ r.busy = s.busy /\ r.seen = s.seen /\ r.reports = s.reports /\ r.ticks = s.ticks
BY DEF Watchers

LEMMA SetReports ==
  ASSUME NEW s \in Watchers, NEW reports \in Seq(Changes)
  PROVE  LET r == [s EXCEPT !.reports = reports] IN
         r \in Watchers /\ r.reports = reports
         /\ r.kind = s.kind /\ r.open = s.open /\ r.refed = s.refed /\ r.last = s.last
         /\ r.busy = s.busy /\ r.seen = s.seen /\ r.stops = s.stops /\ r.ticks = s.ticks
BY DEF Watchers

\* One watcher takes a step.
LEMMA OneWatcher ==
  ASSUME WatchInv, NEW i \in 1..Len(watchers), NEW s \in Watchers, WatcherOK(s),
         s.kind = watchers[i].kind, watchers' = [watchers EXCEPT ![i] = s], file' = file,
         \/ s.open = watchers[i].open /\ shared' = shared
         \/ ~s.open /\ shared = i /\ shared' = 0
         \/ ~Polls(s) /\ shared' = shared
  PROVE  WatchInv'
<1>1. watchers' \in Seq(Watchers) /\ Len(watchers') = Len(watchers)
  BY DEF WatchInv, WatchTypes
<1>2. watchers'[i] = s /\ \A k \in 1..Len(watchers) : k # i => watchers'[k] = watchers[k]
  BY DEF WatchInv, WatchTypes
<1>3. WatchTypes'
  BY <1>1 DEF WatchInv, WatchTypes
<1>4. SharedOK'
  BY <1>1, <1>2 DEF WatchInv, WatchTypes, SharedOK, Polls
<1>5. QED BY <1>1, <1>2, <1>3, <1>4 DEF WatchInv

\* A new one is made.
LEMMA NewOne ==
  ASSUME WatchInv, NEW kind \in {"notify", "poll"}, NEW persistent \in BOOLEAN,
         watchers' = Append(watchers, NewWatcher(kind, persistent)), file' = file,
         \/ kind = "notify" /\ shared' = shared
         \/ kind = "poll" /\ shared = 0 /\ shared' = Len(watchers) + 1
  PROVE  WatchInv'
<1> DEFINE s == NewWatcher(kind, persistent)
<1>1. s \in Watchers /\ s.kind = kind /\ s.open
  BY EmptySeq DEF NewWatcher, Watchers, Files
<1>2. /\ s.ticks = <<>> /\ s.reports = <<>> /\ s.busy = "no" /\ s.last = "nil" /\ s.stops = 0
  BY DEF NewWatcher
<1>3. WatcherOK(s)
  <2>1. Stops(s) = {}
    BY <1>2 DEF Stops
  <2>2. Story(s) = <<>> /\ Len(<<>>) = 0
    BY <1>2 DEF Story
  <2>3. QED BY <1>1, <1>2, <2>1, <2>2 DEF WatcherOK, StopOK, PollOK, Told, Knows
<1>4. /\ watchers' \in Seq(Watchers) /\ Len(watchers') = Len(watchers) + 1
      /\ watchers'[Len(watchers) + 1] = s
      /\ \A i \in 1..Len(watchers) : watchers'[i] = watchers[i]
  BY <1>1, AppendProperties DEF WatchInv, WatchTypes
<1> HIDE DEF s
<1>5. WatchTypes'
  BY <1>4 DEF WatchInv, WatchTypes
<1>6. SharedOK'
  BY <1>1, <1>4 DEF WatchInv, WatchTypes, SharedOK, Polls
<1>7. QED BY <1>3, <1>4, <1>5, <1>6 DEF WatchInv, WatchTypes

\* A report more.
LEMMA SameSaw ==
  ASSUME NEW first, NEW u, NEW v, NEW n \in Nat, \A k \in 1..n : u[k] = v[k]
  PROVE  \A k \in 0..n : SawIn(first, u, k) = SawIn(first, v, k)
BY DEF SawIn

LEMMA SameGood ==
  ASSUME NEW first, NEW u, NEW v, NEW n \in Nat, \A k \in 1..n : u[k] = v[k],
         NEW f, LastGood(f, first, u, n)
  PROVE  LastGood(f, first, v, n)
<1>1. \A k \in 0..n : SawIn(first, u, k) = SawIn(first, v, k)
  BY SameSaw, Zenon
<1>2. CASE f = "nil" /\ \A j \in 0..n : SawIn(first, u, j) \in Errnos
  BY <1>1, <1>2 DEF LastGood
<1>3. ASSUME NEW j \in 0..n, f = SawIn(first, u, j), SawIn(first, u, j) \in Versions,
             \A later \in (j + 1)..n : SawIn(first, u, later) \in Errnos
      PROVE  LastGood(f, first, v, n)
  <2>1. \A later \in (j + 1)..n : SawIn(first, v, later) \in Errnos
    BY <1>1, <1>3
  <2>2. f = SawIn(first, v, j) /\ SawIn(first, v, j) \in Versions
    BY <1>1, <1>3
  <2>3. QED BY <2>1, <2>2 DEF LastGood
<1>4. QED BY <1>2, <1>3 DEF LastGood

LEMMA ToldPrefix ==
  ASSUME NEW first, NEW u, NEW v, NEW n \in Nat, Told(first, u), Len(u) \in Nat, n <= Len(u),
         Len(v) = n, \A k \in 1..n : u[k] = v[k]
  PROVE  Told(first, v)
<1>1. ASSUME NEW k \in 1..n PROVE Differs(first, v, k) /\ LastGood(v[k].prev, first, v, k - 1)
  <2>1. Differs(first, u, k) /\ LastGood(u[k].prev, first, u, k - 1)
    BY <1>1 DEF Told
  <2>2. k - 1 \in Nat /\ \A j \in 1..(k - 1) : u[j] = v[j]
    BY <1>1
  <2>3. LastGood(u[k].prev, first, v, k - 1)
    BY <2>1, <2>2, SameGood, Zenon
  <2>4. \A j \in 0..n : SawIn(first, u, j) = SawIn(first, v, j)
    BY SameSaw, Zenon
  <2>5. Differs(first, v, k)
    BY <1>1, <2>1, <2>4 DEF Differs
  <2>6. QED BY <1>1, <2>3, <2>5
<1>2. QED BY <1>1 DEF Told

LEMMA ToldMore ==
  ASSUME NEW first, NEW u \in Seq(Changes), NEW r \in Changes, Told(first, u),
         Len(u) > 0 \/ first \in Versions => r.saw # SawIn(first, u, Len(u)),
         LastGood(r.prev, first, u, Len(u))
  PROVE  Told(first, Append(u, r))
<1> DEFINE v == Append(u, r)
           n == Len(u)
<1>1. /\ n \in Nat /\ v \in Seq(Changes) /\ Len(v) = n + 1 /\ v[n + 1] = r
      /\ \A k \in 1..n : u[k] = v[k]
  BY AppendProperties
<1> HIDE DEF v, n
<1>2. ASSUME NEW k \in 1..n PROVE Differs(first, v, k) /\ LastGood(v[k].prev, first, v, k - 1)
  <2>1. Differs(first, u, k) /\ LastGood(u[k].prev, first, u, k - 1)
    BY <1>2 DEF Told, n
  <2>2. k - 1 \in Nat /\ \A j \in 1..(k - 1) : u[j] = v[j]
    BY <1>1, <1>2
  <2>3. LastGood(u[k].prev, first, v, k - 1)
    BY <2>1, <2>2, SameGood, Zenon
  <2>4. \A j \in 0..n : SawIn(first, u, j) = SawIn(first, v, j)
    BY <1>1, SameSaw, Zenon
  <2>5. Differs(first, v, k)
    BY <1>1, <1>2, <2>1, <2>4 DEF Differs
  <2>6. QED BY <1>1, <1>2, <2>3, <2>5
<1>3. LastGood(v[n + 1].prev, first, v, n)
  <2>1. LastGood(r.prev, first, u, n)
    BY DEF n
  <2>2. QED BY <1>1, <2>1, SameGood, Zenon
<1>4. Differs(first, v, n + 1)
  <2>1. SawIn(first, v, n) = SawIn(first, u, n)
    BY <1>1 DEF SawIn
  <2>2. SawIn(first, v, n + 1) = r.saw
    BY <1>1 DEF SawIn
  <2>3. n > 0 \/ first \in Versions => r.saw # SawIn(first, u, n)
    BY DEF n
  <2>4. QED BY <1>1, <2>1, <2>2, <2>3 DEF Differs
<1>5. \A k \in 1..(n + 1) : Differs(first, v, k) /\ LastGood(v[k].prev, first, v, k - 1)
  <2>1. \A k \in 1..(n + 1) : k \in 1..n \/ k = n + 1
    BY <1>1
  <2>2. (n + 1) - 1 = n
    BY <1>1
  <2>3. QED BY <1>2, <1>3, <1>4, <2>1, <2>2
<1>6. Told(first, v)
  BY <1>1, <1>5 DEF Told
<1>7. QED BY <1>6 DEF v

LEMMA GoodMore ==
  ASSUME NEW first, NEW u \in Seq(Changes), NEW r \in Changes, NEW f,
         \/ LastGood(f, first, u, Len(u)) /\ r.saw \in Errnos
         \/ f = r.saw /\ r.saw \in Versions
  PROVE  LastGood(f, first, Append(u, r), Len(Append(u, r)))
<1> DEFINE v == Append(u, r)
           n == Len(u)
<1>1. /\ n \in Nat /\ v \in Seq(Changes) /\ Len(v) = n + 1 /\ v[n + 1] = r
      /\ \A k \in 1..n : u[k] = v[k]
  BY AppendProperties
<1>2. \/ LastGood(f, first, u, n) /\ r.saw \in Errnos
      \/ f = r.saw /\ r.saw \in Versions
  OBVIOUS
<1> HIDE DEF v, n
<1>3. SawIn(first, v, n + 1) = r.saw
  BY <1>1 DEF SawIn
<1>4. ASSUME f = r.saw, r.saw \in Versions PROVE LastGood(f, first, v, n + 1)
  <2>1. n + 1 \in 0..(n + 1) /\ \A later \in ((n + 1) + 1)..(n + 1) : FALSE
    BY <1>1
  <2>2. LastGood(f, first, v, n + 1)
    BY <1>3, <1>4, <2>1 DEF LastGood
  <2>3. QED BY <2>2
<1>5. ASSUME LastGood(f, first, u, n), r.saw \in Errnos PROVE LastGood(f, first, v, n + 1)
  <2>1. LastGood(f, first, v, n)
    BY <1>1, <1>5, SameGood, Zenon
  <2>2. CASE f = "nil" /\ \A j \in 0..n : SawIn(first, v, j) \in Errnos
    <3>1. \A j \in 0..(n + 1) : j \in 0..n \/ j = n + 1
      BY <1>1
    <3>2. QED BY <1>1, <1>3, <1>5, <2>2, <3>1 DEF LastGood
  <2>3. ASSUME NEW j \in 0..n, f = SawIn(first, v, j), SawIn(first, v, j) \in Versions,
               \A later \in (j + 1)..n : SawIn(first, v, later) \in Errnos
        PROVE  LastGood(f, first, v, n + 1)
    <3>1. \A later \in (j + 1)..(n + 1) : later \in (j + 1)..n \/ later = n + 1
      BY <1>1
    <3>2. \A later \in (j + 1)..(n + 1) : SawIn(first, v, later) \in Errnos
      BY <1>3, <1>5, <2>3, <3>1
    <3>3. j \in 0..(n + 1)
      BY <1>1
    <3>4. QED BY <2>3, <3>2, <3>3 DEF LastGood
  <2>4. QED BY <1>1, <2>1, <2>2, <2>3 DEF LastGood
<1>6. LastGood(f, first, v, n + 1)
  BY <1>2, <1>4, <1>5
<1>7. QED BY <1>1, <1>6 DEF v

\* What is emitted and what is queued, as one sequence.
LEMMA QueueMore ==
  ASSUME NEW u \in Seq(Changes), NEW v \in Seq(Changes), NEW x \in Changes
  PROVE  u \o Append(v, x) = Append(u \o v, x)
OBVIOUS

LEMMA QueueMoves ==
  ASSUME NEW u \in Seq(Changes), NEW v \in Seq(Changes), v # <<>>
  PROVE  Append(u, Head(v)) \o Tail(v) = u \o v
OBVIOUS

LEMMA ConcatFront ==
  ASSUME NEW u \in Seq(Changes), NEW v \in Seq(Changes)
  PROVE  /\ Len(u \o v) = Len(u) + Len(v)
         /\ \A k \in 1..Len(u) : (u \o v)[k] = u[k]
OBVIOUS

\* While a watcher is open, its ticks are changes.
LEMMA OpenTicks ==
  ASSUME NEW s \in Watchers, s.open, StopOK(s)
  PROVE  s.ticks \in Seq(Changes) /\ s.reports \in Seq(Changes) /\ Story(s) \in Seq(Changes)
<1>1. s.ticks \in Seq(WatchTicks) /\ s.reports \in Seq(Changes) /\ Stops(s) = {}
  BY DEF Watchers, StopOK
<1>2. Len(s.ticks) \in Nat /\ s.ticks = [i \in 1..Len(s.ticks) |-> s.ticks[i]]
  BY <1>1
<1>3. \A i \in 1..Len(s.ticks) : s.ticks[i] \in WatchTicks /\ s.ticks[i].op # "stop"
  BY <1>1 DEF Stops
<1>4. \A i \in 1..Len(s.ticks) : s.ticks[i] \in Changes
  BY <1>3 DEF WatchTicks
<1>5. s.ticks \in [1..Len(s.ticks) -> Changes]
  BY <1>2, <1>4
<1>6. s.ticks \in Seq(Changes)
  BY <1>2, <1>5, SeqDef
<1>7. QED BY <1>1, <1>6, ConcatProperties DEF Story

\* Queueing a report of an open poll.
LEMMA PollReports ==
  ASSUME NEW s \in Watchers, s.open, StopOK(s), NEW first, Told(first, Story(s)),
         NEW f \in Files, NEW prev \in Versions \cup {"nil"},
         Len(Story(s)) > 0 \/ first \in Versions => f # SawIn(first, Story(s), Len(Story(s))),
         LastGood(prev, first, Story(s), Len(Story(s)))
  PROVE  LET r == Report(s, f, prev)
             t == [op |-> "change", saw |-> f, prev |-> prev]
         IN  /\ Told(first, Story(r)) /\ Story(r) = Append(Story(s), t) /\ Story(s) \in Seq(Changes)
             /\ t \in Changes /\ t.saw = f
<1> DEFINE r == Report(s, f, prev)
           t == [op |-> "change", saw |-> f, prev |-> prev]
<1>1. t \in Changes /\ r = [s EXCEPT !.ticks = Append(s.ticks, t)]
  BY ReportTypes
<1>2. r.reports = s.reports /\ r.ticks = Append(s.ticks, t)
  BY <1>1 DEF Watchers
<1>3. s.ticks \in Seq(Changes) /\ s.reports \in Seq(Changes) /\ Story(s) \in Seq(Changes)
  BY OpenTicks
<1>5. t.saw = f /\ t.prev = prev
  OBVIOUS
<1> HIDE DEF t, r
<1>4. Story(r) = Append(Story(s), t)
  <2>2. s.reports \o Append(s.ticks, t) = Append(s.reports \o s.ticks, t)
    BY <1>1, <1>3, QueueMore, Zenon
  <2>3. QED BY <1>2, <2>2 DEF Story
<1>6. Told(first, Append(Story(s), t))
  BY <1>1, <1>3, <1>5, ToldMore
<1>7. QED BY <1>1, <1>3, <1>4, <1>5, <1>6 DEF r, t

\* A sample of the file.
LEMMA SampleKeeps ==
  ASSUME NEW s \in Watchers, Polls(s), WatcherOK(s), file \in Files
  PROVE  /\ Sampled(s) \in Watchers /\ Sampled(s).kind = s.kind /\ Sampled(s).open = s.open
         /\ Sampled(s).reports = s.reports
         /\ WatcherOK(Sampled(s))
<1> DEFINE news == IF file \in Errnos THEN s.busy # file
                   ELSE s.busy \in Errnos \/ (s.busy # "no" /\ file # s.last)
           told == IF news THEN Report(s, file, s.last) ELSE s
           first == IF s.busy = "no" THEN [told EXCEPT !.seen = file] ELSE told
           r == IF file \in Errnos THEN [first EXCEPT !.busy = file]
                ELSE [first EXCEPT !.last = file, !.busy = "ok"]
           u == Story(s)
<1>0. Sampled(s) = r
  BY DEF Sampled
<1>1. /\ s.last \in Versions \cup {"nil"} /\ s.busy \in {"no", "ok"} \cup Errnos
      /\ s.seen \in Files \cup {"nil"} /\ StopOK(s)
  BY DEF Watchers, WatcherOK
<1>2. /\ told \in Watchers /\ StopOK(told)
      /\ told.kind = s.kind /\ told.open = s.open /\ told.reports = s.reports
      /\ told.last = s.last /\ told.busy = s.busy /\ told.seen = s.seen
  <2>1. CASE news
    <3>1. Report(s, file, s.last) \in Watchers /\ StopOK(Report(s, file, s.last))
      BY <1>1, ReportTypes
    <3>2. told = Report(s, file, s.last)
      BY <2>1
    <3>3. QED BY <1>1, <3>1, <3>2 DEF Report, Watchers
  <2>2. CASE ~news
    BY <1>1, <2>2
  <2>3. QED BY <2>1, <2>2
<1> DEFINE seen == IF s.busy = "no" THEN file ELSE s.seen
           last == IF file \in Errnos THEN s.last ELSE file
           busy == IF file \in Errnos THEN file ELSE "ok"
<1>3. /\ r \in Watchers /\ r.kind = s.kind /\ r.open = s.open /\ r.reports = s.reports
      /\ r.ticks = told.ticks /\ r.stops = told.stops /\ r.refed = told.refed
      /\ r.last = last /\ r.busy = busy /\ r.seen = seen
  <2> HIDE DEF told, seen
  <2>1. (file \in Errnos \/ file \in Versions) /\ file \in Files /\ seen \in Files \cup {"nil"}
    BY <1>1 DEF Files, seen
  <2>2. /\ first \in Watchers /\ first.kind = s.kind /\ first.open = s.open
        /\ first.reports = s.reports /\ first.ticks = told.ticks /\ first.stops = told.stops
        /\ first.refed = told.refed /\ first.last = s.last /\ first.busy = s.busy
        /\ first.seen = seen
    <3>1. CASE s.busy = "no"
      <4>1. seen = file
        BY <3>1 DEF seen
      <4>2. QED BY <1>2, <2>1, <3>1, <4>1 DEF Watchers
    <3>2. CASE s.busy # "no"
      <4>1. seen = s.seen /\ first = told
        BY <3>2 DEF seen
      <4>2. QED BY <1>2, <4>1
    <3>3. QED BY <3>1, <3>2
  <2> HIDE DEF first
  <2>3. CASE file \in Errnos
    <3>1. r = [first EXCEPT !.busy = file] /\ last = first.last /\ busy = file
      BY <2>2, <2>3
    <3> HIDE DEF r, last, busy
    <3>2. QED BY <2>2, <2>3, <3>1 DEF Watchers
  <2>4. CASE file \notin Errnos
    <3>1. r = [first EXCEPT !.last = file, !.busy = "ok"] /\ last = file /\ busy = "ok"
      BY <2>4
    <3> HIDE DEF r, last, busy
    <3>2. QED BY <2>1, <2>2, <2>4, <3>1 DEF Watchers
  <2>5. QED BY <2>3, <2>4
<1>4. StopOK(r)
  <2> HIDE DEF r, told
  <2>1. Stops(r) = Stops(told)
    BY <1>3 DEF Stops
  <2>2. r.open = told.open
    BY <1>2, <1>3, SMTT(20)
  <2>3. QED BY <1>2, <1>3, <2>1, <2>2 DEF StopOK
<1>5. Story(r) = Story(told)
  BY <1>2, <1>3 DEF Story
<1>6. r.busy # "no"
  BY <1>3, WatchAssumption DEF WatchAssumption
<1>7. Told(r.seen, r.reports)
  <2>1. Told(s.seen, s.reports) /\ (s.busy = "no" => s.reports = <<>>)
    BY DEF WatcherOK, PollOK
  <2>2. CASE s.busy = "no"
    BY <1>3, <2>1, <2>2 DEF Told
  <2>3. CASE s.busy # "no"
    BY <1>3, <2>1, <2>3
  <2>4. QED BY <2>2, <2>3
<1>8. ASSUME s.open PROVE Told(r.seen, Story(r)) /\ Knows(r)
  <2>1. Told(s.seen, u) /\ Knows(s)
    BY <1>8 DEF WatcherOK, PollOK
  <2>2. u \in Seq(Changes) /\ Len(u) \in Nat
    BY <1>1, <1>8, OpenTicks
  <2>f. (file \in Errnos) = (file \notin Versions)
    BY WatchAssumption DEF WatchAssumption, Files
  <2> DEFINE t == [op |-> "change", saw |-> file, prev |-> s.last]
  <2> HIDE DEF r, first
  <2>3. CASE s.busy = "no"
    <3>1. u = <<>> /\ Len(u) = 0 /\ s.last = "nil" /\ seen = file
      BY <2>1, <2>3 DEF Knows
    <3>2. Told(file, u)
      BY <3>1 DEF Told
    <3>3. CASE file \in Errnos
      <4>1. news
        BY <2>3, <3>3, WatchAssumption DEF WatchAssumption
      <4>2. LastGood("nil", file, u, Len(u))
        BY <3>1, <3>3 DEF LastGood, SawIn
      <4>3. ~(Len(u) > 0 \/ file \in Versions)
        BY <2>f, <3>1, <3>3
      <4>4. Told(file, Story(told)) /\ Story(told) = Append(u, t) /\ t \in Changes /\ t.saw = file
        <5> HIDE DEF u
        <5>1. told = Report(s, file, s.last)
          BY <4>1
        <5>2. s.last \in Versions \cup {"nil"} /\ s.last = "nil"
          BY <3>1
        <5> HIDE DEF news, told
        <5>3. QED BY <1>1, <1>8, <3>2, <4>2, <4>3, <5>1, <5>2, PollReports DEF u
      <4> HIDE DEF t, news, told, u
      <4>5. LastGood("nil", file, Append(u, t), Len(Append(u, t)))
        BY <2>2, <3>3, <4>2, <4>4, GoodMore
      <4>6. Len(Append(u, t)) = 1 /\ Append(u, t)[1] = t
        BY <2>2, <3>1, <4>4
      <4>7. Knows(r)
        BY <1>3, <1>5, <1>6, <3>1, <3>3, <4>4, <4>5, <4>6, WatchAssumption
           DEF WatchAssumption, Knows, SawIn
      <4>8. QED BY <1>3, <1>5, <3>1, <4>4, <4>7
    <3>4. CASE file \in Versions
      <4>1. Story(r) = <<>> /\ Len(<<>>) = 0 /\ r.last = file /\ r.busy = "ok" /\ r.seen = file
        BY <1>3, <1>5, <2>f, <2>3, <3>1, <3>4, WatchAssumption DEF WatchAssumption
      <4>2. LastGood(file, file, <<>>, 0) /\ SawIn(file, <<>>, 0) = file
        BY <3>4 DEF LastGood, SawIn
      <4>3. QED BY <3>1, <3>2, <3>4, <4>1, <4>2 DEF Knows
    <3>5. QED BY <3>3, <3>4 DEF Files
  <2>4. CASE s.busy # "no"
    <3> DEFINE n == Len(u)
    <3>1. /\ s.seen \in Files /\ seen = s.seen /\ (s.busy = "ok" => s.last \in Versions)
          /\ SawIn(s.seen, u, n) = IF s.busy = "ok" THEN s.last ELSE s.busy
          /\ LastGood(s.last, s.seen, u, n)
      BY <2>1, <2>4 DEF Knows
    <3>2. CASE news
      <4>1. file # SawIn(s.seen, u, n)
        BY <1>1, <2>f, <2>4, <3>1, <3>2, WatchAssumption DEF WatchAssumption
      <4>2. told = Report(s, file, s.last)
        BY <3>2
      <4>3. Told(s.seen, Story(told)) /\ Story(told) = Append(u, t) /\ t \in Changes /\ t.saw = file
        <5> HIDE DEF news, told
        <5>1. QED BY <1>1, <1>8, <2>1, <3>1, <4>1, <4>2, PollReports
      <4> HIDE DEF t, news, told, u
      <4>4. LastGood(last, s.seen, Append(u, t), Len(Append(u, t)))
        <5>1. CASE file \in Errnos
          <6>1. LastGood(s.last, s.seen, Append(u, t), Len(Append(u, t)))
            BY <2>2, <3>1, <4>3, <5>1, GoodMore
          <6>2. QED BY <5>1, <6>1
        <5>2. CASE file \in Versions
          <6>1. LastGood(file, s.seen, Append(u, t), Len(Append(u, t)))
            BY <2>2, <4>3, <5>2, GoodMore
          <6>2. QED BY <2>f, <5>2, <6>1
        <5>3. QED BY <5>1, <5>2 DEF Files
      <4>5. Len(Append(u, t)) = n + 1 /\ Append(u, t)[n + 1] = t /\ n \in Nat
        BY <2>2, <4>3
      <4>6. SawIn(s.seen, Append(u, t), Len(Append(u, t))) = file
        BY <4>3, <4>5 DEF SawIn
      <4>7. Knows(r)
        BY <1>3, <1>5, <1>6, <2>f, <3>1, <4>3, <4>4, <4>6, WatchAssumption
           DEF WatchAssumption, Knows, Files
      <4>8. QED BY <1>3, <1>5, <3>1, <4>3, <4>7
    <3>3. CASE ~news
      <4>1. Story(r) = u
        BY <1>5, <3>3
      <4>2. r.busy = s.busy /\ r.last = s.last /\ r.seen = s.seen
        BY <1>1, <1>3, <2>f, <2>4, <3>1, <3>3 DEF Files
      <4>3. QED BY <2>1, <4>1, <4>2 DEF Knows
    <3>4. QED BY <3>2, <3>3
  <2>5. QED BY <2>3, <2>4
<1>9. WatcherOK(r)
  BY <1>3, <1>4, <1>6, <1>7, <1>8 DEF WatcherOK, PollOK
<1>10. QED BY <1>0, <1>3, <1>9

\* A tick is run.
LEMMA TickKeeps ==
  ASSUME NEW s \in Watchers, WatcherOK(s), s.ticks # <<>>, NEW r,
         LET t == Head(s.ticks)
             rest == [s EXCEPT !.ticks = Tail(@)]
         IN  r = CASE t.op = "stop" -> [rest EXCEPT !.stops = @ + 1]
                   [] t.op = "change" /\ rest.open -> [rest EXCEPT !.reports = Append(@, t)]
                   [] OTHER -> rest
  PROVE  /\ r \in Watchers /\ r.kind = s.kind /\ r.open = s.open /\ WatcherOK(r)
         /\ ~s.open => r.reports = s.reports
<1> DEFINE t == Head(s.ticks)
           rest == [s EXCEPT !.ticks = Tail(s.ticks)]
<1>1. s.ticks \in Seq(WatchTicks) /\ s.reports \in Seq(Changes) /\ s.stops \in Nat
  BY DEF Watchers
<1>2. /\ t \in WatchTicks /\ Tail(s.ticks) \in Seq(WatchTicks) /\ t = s.ticks[1]
      /\ Len(Tail(s.ticks)) = Len(s.ticks) - 1 /\ Len(s.ticks) \in Nat /\ Len(s.ticks) > 0
      /\ \A i \in 1..Len(Tail(s.ticks)) : Tail(s.ticks)[i] = s.ticks[i + 1]
  BY <1>1, HeadTailProperties, EmptySeq
<1>3. /\ rest \in Watchers /\ rest.ticks = Tail(s.ticks) /\ rest.kind = s.kind /\ rest.open = s.open
      /\ rest.refed = s.refed /\ rest.reports = s.reports /\ rest.stops = s.stops
      /\ rest.seen = s.seen /\ rest.busy = s.busy /\ rest.last = s.last
  BY <1>2, SetTicks, Zenon
<1>4. \/ t.op = "stop" /\ r = [rest EXCEPT !.stops = rest.stops + 1]
      \/ t \in Changes /\ s.open /\ r = [rest EXCEPT !.reports = Append(rest.reports, t)]
      \/ t \in Changes /\ ~s.open /\ r = rest
  <2>1. t.op = "stop" \/ (t.op = "change" /\ t \in Changes)
    BY <1>2 DEF WatchTicks, Changes
  <2>2. QED BY <1>3, <2>1
<1> HIDE DEF t, rest
<1>5. \A i \in Stops(rest) : i + 1 \in Stops(s) /\ i \in Nat /\ i > 0
  BY <1>2, <1>3 DEF Stops
<1>6. t.op = "stop" => 1 \in Stops(s)
  BY <1>2 DEF Stops
<1>7. StopOK(s)
  BY DEF WatcherOK
<1>8. CASE t.op = "stop" /\ r = [rest EXCEPT !.stops = rest.stops + 1]
  <2>1. ~s.open /\ s.stops = 0
    BY <1>1, <1>6, <1>7, <1>8 DEF StopOK
  <2>2. /\ r \in Watchers /\ r.kind = s.kind /\ r.open = s.open /\ r.refed = s.refed /\ r.stops = 1
        /\ r.reports = s.reports /\ r.ticks = rest.ticks /\ r.seen = s.seen /\ r.busy = s.busy
    <3>1. rest.stops + 1 = 1 /\ 1 \in Nat
      BY <1>3, <2>1
    <3>2. r = [rest EXCEPT !.stops = 1]
      BY <1>8, <3>1
    <3>3. /\ r \in Watchers /\ r.kind = rest.kind /\ r.open = rest.open /\ r.refed = rest.refed
          /\ r.stops = 1 /\ r.reports = rest.reports /\ r.ticks = rest.ticks /\ r.seen = rest.seen
          /\ r.busy = rest.busy
      <4> DEFINE v == [rest EXCEPT !.stops = 1]
      <4>1. rest \in Watchers /\ 1 \in Nat
        BY <1>3
      <4>2. /\ v \in Watchers /\ v.kind = rest.kind /\ v.open = rest.open /\ v.refed = rest.refed
            /\ v.stops = 1 /\ v.reports = rest.reports /\ v.ticks = rest.ticks
            /\ v.seen = rest.seen /\ v.busy = rest.busy
        BY <4>1, SetStops, Zenon
      <4>3. r = v
        BY <3>2
      <4> HIDE DEF v
      <4>4. QED BY <4>2, <4>3
    <3>4. QED BY <1>3, <3>3
  <2>3. Stops(r) = Stops(rest)
    BY <2>2 DEF Stops
  <2>4. Stops(rest) = {}
    <3>1. ASSUME NEW i \in Stops(rest) PROVE FALSE
      <4>1. i + 1 = 1
        BY <1>5, <1>6, <1>7, <1>8 DEF StopOK
      <4>2. QED BY <1>5, <4>1
    <3>2. QED BY <3>1
  <2>5. StopOK(r)
    BY <1>7, <2>1, <2>2, <2>3, <2>4 DEF StopOK
  <2>6. QED BY <2>1, <2>2, <2>5 DEF WatcherOK, Polls, PollOK
<1>9. CASE t \in Changes /\ s.open /\ r = [rest EXCEPT !.reports = Append(rest.reports, t)]
  <2>1. Append(s.reports, t) \in Seq(Changes)
    BY <1>1, <1>9
  <2>2. /\ r \in Watchers /\ r.kind = s.kind /\ r.open = s.open /\ r.refed = s.refed
        /\ r.stops = s.stops /\ r.ticks = Tail(s.ticks) /\ r.reports = Append(s.reports, t)
        /\ r.seen = s.seen /\ r.busy = s.busy /\ r.last = s.last
    <3>1. r = [rest EXCEPT !.reports = Append(s.reports, t)]
      BY <1>3, <1>9
    <3>2. /\ r \in Watchers /\ r.kind = rest.kind /\ r.open = rest.open /\ r.refed = rest.refed
          /\ r.stops = rest.stops /\ r.reports = Append(s.reports, t) /\ r.ticks = rest.ticks
          /\ r.seen = rest.seen /\ r.busy = rest.busy /\ r.last = rest.last
      <4> DEFINE v == [rest EXCEPT !.reports = Append(s.reports, t)]
      <4>1. rest \in Watchers
        BY <1>3
      <4>2. /\ v \in Watchers /\ v.kind = rest.kind /\ v.open = rest.open /\ v.refed = rest.refed
            /\ v.stops = rest.stops /\ v.reports = Append(s.reports, t) /\ v.ticks = rest.ticks
            /\ v.seen = rest.seen /\ v.busy = rest.busy /\ v.last = rest.last
        BY <2>1, <4>1, SetReports, ZenonT(40)
      <4>3. r = v
        BY <3>1
      <4> HIDE DEF v
      <4>4. QED BY <4>2, <4>3
    <3>3. QED BY <1>3, <3>2
  <2>3. Stops(s) = {} /\ Stops(r) = Stops(rest)
    BY <1>3, <1>7, <1>9, <2>2 DEF StopOK, Stops
  <2>4. Stops(r) = {}
    BY <1>5, <2>3
  <2>5. StopOK(r)
    BY <1>7, <2>2, <2>4, SMTT(20) DEF StopOK
  <2>6. s.ticks \in Seq(Changes) /\ Story(s) \in Seq(Changes)
    BY <1>7, <1>9, OpenTicks
  <2>7. Story(r) = Story(s)
    <3>1. Append(s.reports, t) \o Tail(s.ticks) = s.reports \o s.ticks
      BY <1>1, <2>6, QueueMoves, Zenon DEF t
    <3>2. QED BY <2>2, <3>1 DEF Story
  <2>8. ASSUME Polls(s) PROVE PollOK(r)
    <3>1. Told(s.seen, Story(s)) /\ Knows(s)
      BY <1>9, <2>8 DEF WatcherOK, PollOK
    <3>2. Knows(r) /\ Told(r.seen, Story(r))
      BY <2>2, <2>7, <3>1, SMTT(20) DEF Knows
    <3>3. /\ Len(r.reports) = Len(s.reports) + 1 /\ Len(s.reports) \in Nat
          /\ Len(Story(r)) = Len(r.reports) + Len(r.ticks) /\ Len(r.ticks) \in Nat
          /\ \A k \in 1..Len(r.reports) : Story(r)[k] = r.reports[k]
      <4>1. r.reports \in Seq(Changes) /\ r.ticks \in Seq(Changes)
        BY <2>1, <2>2, <2>6
      <4>2. /\ Len(r.reports \o r.ticks) = Len(r.reports) + Len(r.ticks)
            /\ \A k \in 1..Len(r.reports) : (r.reports \o r.ticks)[k] = r.reports[k]
        BY <4>1, ConcatFront, Zenon
      <4>3. Len(Append(s.reports, t)) = Len(s.reports) + 1 /\ Len(s.reports) \in Nat
        BY <1>1
      <4>4. Len(r.ticks) \in Nat
        BY <4>1
      <4>5. QED BY <2>2, <4>2, <4>3, <4>4 DEF Story
    <3>4. Told(r.seen, r.reports)
      <4> DEFINE n == Len(r.reports)
      <4> DEFINE m == Len(r.ticks)
      <4>0. Len(Story(r)) = n + m /\ Len(s.reports) + 1 = n /\ Len(s.reports) \in Nat /\ m \in Nat
        BY <3>3
      <4>1. n \in Nat /\ Len(Story(r)) \in Nat /\ n <= Len(Story(r))
        <5> DEFINE j == Len(s.reports)
        <5>1. Len(Story(r)) = n + m /\ j + 1 = n /\ j \in Nat /\ m \in Nat
          BY <4>0
        <5> HIDE DEF n, m, j
        <5>2. QED BY <5>1
      <4>2. Told(r.seen, Story(r)) /\ \A k \in 1..n : Story(r)[k] = r.reports[k]
        BY <3>2, <3>3
      <4>3. Len(r.reports) = n
        OBVIOUS
      <4> HIDE DEF n
      <4>4. QED BY <4>1, <4>2, <4>3, ToldPrefix, Zenon
    <3>5. r.busy # "no"
      <4> DEFINE n == Len(s.reports)
                 m == Len(r.ticks)
      <4>0. Len(Story(r)) = n + 1 + m /\ n \in Nat /\ m \in Nat
        BY <3>3
      <4> HIDE DEF n, m
      <4>1. Len(Story(r)) # 0
        BY <4>0
      <4>2. Story(r) # <<>>
        BY <4>1
      <4>3. QED BY <3>2, <4>2 DEF Knows
    <3>6. QED BY <3>2, <3>4, <3>5 DEF PollOK
  <2>9. QED BY <1>9, <2>2, <2>5, <2>8 DEF WatcherOK, Polls
<1>10. CASE t \in Changes /\ ~s.open /\ r = rest
  <2>1. ASSUME NEW i \in Stops(rest), NEW j \in Stops(rest) PROVE i = j
    <3>1. i + 1 = j + 1
      BY <1>5, <1>7 DEF StopOK
    <3>2. QED BY <1>5, <3>1
  <2>2. s.stops = 1 => Stops(rest) = {}
    BY <1>5, <1>7 DEF StopOK
  <2>3. StopOK(r)
    BY <1>3, <1>7, <1>10, <2>1, <2>2 DEF StopOK
  <2>4. Polls(s) => PollOK(r)
    BY <1>3, <1>10 DEF WatcherOK, PollOK
  <2>5. QED BY <1>3, <1>10, <2>3, <2>4 DEF WatcherOK, Polls
<1>11. QED BY <1>4, <1>8, <1>9, <1>10

LEMMA WatchStep == ASSUME WatchInv, HNext PROVE WatchInv' /\ QuietWhenClosed
<1> DEFINE Goal == WatchInv' /\ QuietWhenClosed
<1>d. DOMAIN watchers = 1..Len(watchers) /\ Len(watchers) \in Nat
  BY DEF WatchInv, WatchTypes
<1>w. \A i \in 1..Len(watchers) : watchers[i] \in Watchers /\ WatcherOK(watchers[i])
  BY DEF WatchInv, WatchTypes
<1>1. ASSUME NEW i \in 1..Len(watchers), NEW s \in Watchers, WatcherOK(s), s.kind = watchers[i].kind,
             s.reports = watchers[i].reports \/ watchers[i].open, Step(i, s), file' = file,
             \/ s.open = watchers[i].open /\ shared' = shared
             \/ ~s.open /\ shared = i /\ shared' = 0
             \/ ~Polls(s) /\ shared' = shared
      PROVE  Goal
  <2>1. watchers' = [watchers EXCEPT ![i] = s]
    BY <1>1 DEF Step
  <2>2. WatchInv'
    BY <1>1, <2>1, OneWatcher
  <2>3. QuietWhenClosed
    BY <1>1, <1>d, <2>1 DEF QuietWhenClosed, WatchInv, WatchTypes
  <2>4. QED BY <2>2, <2>3
<1>2. CASE FileChanges
  <2>1. PICK f \in Files : /\ file' = f
          /\ watchers' = [i \in DOMAIN watchers |->
               IF watchers[i].kind = "notify" /\ watchers[i].open
               THEN [watchers[i] EXCEPT !.queue = Append(@, f)] ELSE watchers[i]]
    BY <1>2 DEF FileChanges, Files
  <2>2. ASSUME NEW i \in 1..Len(watchers)
        PROVE  /\ watchers'[i] \in Watchers /\ WatcherOK(watchers'[i])
               /\ watchers'[i].kind = watchers[i].kind /\ watchers'[i].open = watchers[i].open
               /\ watchers'[i].reports = watchers[i].reports
    <3> DEFINE s == watchers[i]
               r == [s EXCEPT !.queue = Append(s.queue, f)]
    <3>1. s \in Watchers /\ WatcherOK(s)
      BY <1>w
    <3>2. Append(s.queue, f) \in Seq(Files)
      BY <3>1 DEF Watchers
    <3>3. /\ r \in Watchers /\ r.kind = s.kind /\ r.open = s.open /\ r.refed = s.refed
          /\ r.last = s.last /\ r.busy = s.busy /\ r.ticks = s.ticks /\ r.seen = s.seen
          /\ r.reports = s.reports /\ r.stops = s.stops
      BY <3>1, <3>2 DEF Watchers
    <3>4. WatcherOK(r)
      <4>1. r.refed => r.open
        BY <3>1, <3>3 DEF WatcherOK, StopOK
      <4>2. QED BY <3>1, <3>3, <4>1, SameWatcher
    <3>5. watchers'[i] = s \/ watchers'[i] = r
      BY <1>d, <2>1
    <3>6. QED BY <3>1, <3>3, <3>4, <3>5
  <2>3. watchers' \in Seq(Watchers) /\ Len(watchers') = Len(watchers)
    <3>1. watchers' \in [1..Len(watchers) -> Watchers]
      BY <1>d, <2>1, <2>2
    <3>2. QED BY <1>d, <3>1, SeqDef
  <2>4. shared' = shared
    BY <1>2 DEF FileChanges
  <2>5. WatchInv'
    <3>1. WatchTypes'
      BY <2>1, <2>3, <2>4 DEF WatchInv, WatchTypes
    <3>2. SharedOK'
      BY <2>2, <2>3, <2>4 DEF WatchInv, SharedOK, Polls
    <3>3. \A i \in 1..Len(watchers') : WatcherOK(watchers'[i])
      BY <2>2, <2>3
    <3>4. QED BY <3>1, <3>2, <3>3 DEF WatchInv
  <2>6. QED BY <1>d, <2>2, <2>5 DEF QuietWhenClosed
<1>3. CASE FsWatch
  <2>1. PICK persistent \in BOOLEAN : watchers' = Append(watchers, NewWatcher("notify", persistent))
    BY <1>3 DEF FsWatch
  <2>2. file' = file /\ shared' = shared
    BY <1>3 DEF FsWatch, Uses
  <2>3. WatchInv'
    BY <2>1, <2>2, NewOne
  <2>4. QED BY <1>d, <2>1, <2>3 DEF QuietWhenClosed, WatchInv, WatchTypes
<1>4. CASE WatchFile
  <2>1. file' = file
    BY <1>4 DEF WatchFile, Uses
  <2>2. CASE shared # 0
    <3> DEFINE s == watchers[shared]
               n == s.listeners + 1
               r == [s EXCEPT !.listeners = n]
    <3>1. shared \in 1..Len(watchers)
      BY <2>2, <1>d DEF WatchInv, WatchTypes
    <3>2. s \in Watchers /\ WatcherOK(s)
      BY <1>w, <3>1
    <3>n. n \in Int
      BY <3>2 DEF Watchers
    <3>3. r \in Watchers /\ Alike(r, s)
      <4> HIDE DEF n, s
      <4>1. QED BY <3>2, <3>n, SetListeners
    <3>4. WatcherOK(r)
      BY <3>2, <3>3, AlikeKeeps
    <3>5. Step(shared, r) /\ shared' = shared
      BY <1>4, <2>2 DEF WatchFile
    <3> HIDE DEF r
    <3>6. QED BY <2>1, <3>1, <3>3, <3>4, <3>5, <1>1 DEF Alike
  <2>3. CASE shared = 0
    <3>1. PICK persistent \in BOOLEAN : watchers' = Append(watchers, NewWatcher("poll", persistent))
      BY <1>4, <2>3 DEF WatchFile
    <3>2. shared' = Len(watchers) + 1
      BY <1>4, <2>3 DEF WatchFile
    <3>3. WatchInv'
      BY <2>1, <2>3, <3>1, <3>2, NewOne
    <3>4. QED BY <1>d, <3>1, <3>3 DEF QuietWhenClosed, WatchInv, WatchTypes
  <2>4. QED BY <2>2, <2>3
<1>5. ASSUME NEW all \in BOOLEAN, UnwatchFile(all) PROVE Goal
  <2> DEFINE s == watchers[shared]
             n == IF all THEN 0 ELSE s.listeners - 1
             rest == [s EXCEPT !.listeners = n]
             r == IF rest.listeners = 0 THEN Release(rest) ELSE rest
  <2>1. shared # 0 /\ file' = file /\ Step(shared, r)
        /\ shared' = IF rest.listeners = 0 THEN 0 ELSE shared
    BY <1>5 DEF UnwatchFile, Uses
  <2>2. shared \in 1..Len(watchers)
    BY <2>1, <1>d DEF WatchInv, WatchTypes
  <2>3. s \in Watchers /\ WatcherOK(s)
    BY <1>w, <2>2
  <2>n. n \in Int
    BY <2>3 DEF Watchers
  <2>4. rest \in Watchers /\ Alike(rest, s)
    <3> HIDE DEF n, s
    <3>1. QED BY <2>3, <2>n, SetListeners
  <2>5. WatcherOK(rest)
    BY <2>3, <2>4, AlikeKeeps
  <2> HIDE DEF rest, s
  <2>6. CASE rest.listeners # 0
    BY <2>1, <2>2, <2>4, <2>5, <2>6, <1>1 DEF s, Alike
  <2>7. CASE rest.listeners = 0
    <3> DEFINE q == Release(rest)
    <3>1. /\ q \in Watchers /\ q.kind = rest.kind /\ ~q.open /\ q.reports = rest.reports
          /\ WatcherOK(q)
      BY <2>4, <2>5, ReleaseTypes
    <3>2. r = q /\ shared' = 0
      BY <2>1, <2>7
    <3> HIDE DEF q, r
    <3>k. q.kind = watchers[shared].kind /\ q.reports = watchers[shared].reports
      BY <2>4, <3>1 DEF s, Alike
    <3>5. Step(shared, q)
      BY <2>1, <3>2
    <3>6. QED BY <2>1, <2>2, <3>1, <3>2, <3>5, <3>k, <1>1
  <2>8. QED BY <2>6, <2>7
<1>6. ASSUME NEW i \in 1..Len(watchers), WatchRef(i) PROVE Goal
  <2> DEFINE s == watchers[i]
             r == [s EXCEPT !.refed = ~@]
  <2>1. Step(i, r) /\ file' = file /\ shared' = shared /\ s.open
    BY <1>6 DEF WatchRef, Uses
  <2>2. s \in Watchers /\ WatcherOK(s)
    BY <1>w
  <2>3. /\ r \in Watchers /\ r.kind = s.kind /\ r.open = s.open
        /\ r.last = s.last /\ r.busy = s.busy /\ r.ticks = s.ticks /\ r.seen = s.seen
        /\ r.reports = s.reports /\ r.stops = s.stops
    BY <2>2 DEF Watchers
  <2>4. WatcherOK(r)
    BY <2>1, <2>2, <2>3, SameWatcher
  <2>5. QED BY <2>1, <2>3, <2>4, <1>1
<1>7. ASSUME NEW i \in 1..Len(watchers), CloseWatch(i) PROVE Goal
  <2> DEFINE s == Release(watchers[i])
             r == [s EXCEPT !.queue = <<>>]
  <2>1. Step(i, r) /\ file' = file /\ shared' = shared /\ watchers[i].kind = "notify"
    BY <1>7 DEF CloseWatch, Uses
  <2>2. watchers[i] \in Watchers /\ WatcherOK(watchers[i])
    BY <1>w
  <2>3. /\ s \in Watchers /\ s.kind = watchers[i].kind /\ s.reports = watchers[i].reports
        /\ WatcherOK(s)
    BY <2>2, ReleaseTypes
  <2> HIDE DEF s
  <2>4. /\ r \in Watchers /\ r.kind = s.kind /\ r.open = s.open /\ r.refed = s.refed
        /\ r.last = s.last /\ r.busy = s.busy /\ r.ticks = s.ticks /\ r.seen = s.seen
        /\ r.reports = s.reports /\ r.stops = s.stops
    BY <2>3, EmptySeq DEF Watchers
  <2>5. WatcherOK(r)
    <3>1. r.refed => r.open
      BY <2>3, <2>4 DEF WatcherOK, StopOK
    <3>2. QED BY <2>3, <2>4, <3>1, SameWatcher
  <2>6. ~Polls(r)
    BY <2>1, <2>3, <2>4 DEF Polls
  <2>7. QED BY <2>1, <2>3, <2>4, <2>5, <2>6, <1>1
<1>8. ASSUME NEW i \in 1..Len(watchers), Sample(i) PROVE Goal
  <2>1. watchers[i] \in Watchers /\ WatcherOK(watchers[i]) /\ file \in Files
    BY <1>w DEF WatchInv, WatchTypes
  <2>2. Polls(watchers[i]) /\ Step(i, Sampled(watchers[i])) /\ file' = file /\ shared' = shared
    BY <1>8 DEF Sample, Alone, Polls
  <2>3. /\ Sampled(watchers[i]) \in Watchers /\ Sampled(watchers[i]).kind = watchers[i].kind
        /\ Sampled(watchers[i]).open = watchers[i].open
        /\ Sampled(watchers[i]).reports = watchers[i].reports /\ WatcherOK(Sampled(watchers[i]))
    BY <2>1, <2>2, SampleKeeps
  <2>4. QED BY <2>2, <2>3, <1>1
<1>9. ASSUME NEW i \in 1..Len(watchers), PollStops(i) PROVE Goal
  <2> DEFINE s == watchers[i]
             r == [s EXCEPT !.runs = FALSE]
  <2>1. Step(i, r) /\ file' = file /\ shared' = shared
    BY <1>9 DEF PollStops, Alone
  <2>2. s \in Watchers /\ WatcherOK(s)
    BY <1>w
  <2>3. /\ r \in Watchers /\ r.kind = s.kind /\ r.open = s.open /\ r.refed = s.refed
        /\ r.last = s.last /\ r.busy = s.busy /\ r.ticks = s.ticks /\ r.seen = s.seen
        /\ r.reports = s.reports /\ r.stops = s.stops
    BY <2>2 DEF Watchers
  <2>4. WatcherOK(r)
    <3>1. r.refed => r.open
      BY <2>2, <2>3 DEF WatcherOK, StopOK
    <3>2. QED BY <2>2, <2>3, <3>1, SameWatcher
  <2>5. QED BY <2>1, <2>3, <2>4, <1>1
<1>11. ASSUME NEW i \in 1..Len(watchers), WatchTick(i) PROVE Goal
  <2> DEFINE r == watchers'[i]
  <2>1. /\ watchers[i].ticks # <<>> /\ file' = file /\ shared' = shared
        /\ LET t == Head(watchers[i].ticks)
               rest == [watchers[i] EXCEPT !.ticks = Tail(@)]
           IN  Step(i, CASE t.op = "stop" -> [rest EXCEPT !.stops = @ + 1]
                         [] t.op = "change" /\ rest.open -> [rest EXCEPT !.reports = Append(@, t)]
                         [] OTHER -> rest)
    BY <1>11 DEF WatchTick, Alone
  <2>2. watchers[i] \in Watchers /\ WatcherOK(watchers[i])
    BY <1>w
  <2>3. LET t == Head(watchers[i].ticks)
            rest == [watchers[i] EXCEPT !.ticks = Tail(@)]
        IN  r = CASE t.op = "stop" -> [rest EXCEPT !.stops = @ + 1]
                  [] t.op = "change" /\ rest.open -> [rest EXCEPT !.reports = Append(@, t)]
                  [] OTHER -> rest
    BY <1>d, <2>1 DEF Step
  <2>4. Step(i, r)
    BY <1>d, <2>1, SMTT(20) DEF Step
  <2> HIDE DEF r
  <2>5. /\ r \in Watchers /\ r.kind = watchers[i].kind /\ r.open = watchers[i].open /\ WatcherOK(r)
        /\ ~watchers[i].open => r.reports = watchers[i].reports
    BY <2>1, <2>2, <2>3, TickKeeps
  <2>6. QED BY <2>1, <2>4, <2>5, <1>1
<1>10. ASSUME NEW i \in 1..Len(watchers), NotifyRelays(i) PROVE Goal
  <2> DEFINE s == watchers[i]
             rest == [s EXCEPT !.queue = Tail(s.queue)]
             r == Report(rest, Head(s.queue), "nil")
  <2>1. /\ s.kind = "notify" /\ s.queue # <<>> /\ Step(i, r)
        /\ file' = file /\ shared' = shared
    BY <1>10 DEF NotifyRelays, Alone
  <2>2. s \in Watchers /\ WatcherOK(s)
    BY <1>w
  <2>3. Head(s.queue) \in Files /\ Tail(s.queue) \in Seq(Files)
    BY <2>1, <2>2 DEF Watchers
  <2>4. rest \in Watchers /\ Alike(rest, s)
    BY <2>2, <2>3, SetQueue
  <2>5. WatcherOK(rest)
    BY <2>2, <2>4, AlikeKeeps
  <2> DEFINE t == [op |-> "change", saw |-> Head(s.queue), prev |-> "nil"]
  <2>6. /\ r \in Watchers /\ t \in Changes /\ r = [rest EXCEPT !.ticks = Append(rest.ticks, t)]
        /\ StopOK(rest) => StopOK(r)
    <3> HIDE DEF s, rest
    <3>1. QED BY <2>3, <2>4, ReportTypes
  <2>7. Append(rest.ticks, t) \in Seq(WatchTicks)
    <3>1. rest.ticks \in Seq(WatchTicks) /\ t \in WatchTicks
      BY <2>4, <2>6 DEF Watchers, WatchTicks
    <3>2. QED BY <3>1
  <2>8. r.kind = rest.kind /\ r.open = rest.open /\ r.reports = rest.reports
    <3> HIDE DEF rest, t, r
    <3>1. QED BY <2>4, <2>6, <2>7, SetTicks
  <2>9. ~Polls(r) /\ WatcherOK(r)
    BY <2>1, <2>4, <2>5, <2>6, <2>8 DEF Alike, WatcherOK, Polls
  <2> HIDE DEF r, rest
  <2>10. QED BY <2>1, <2>4, <2>6, <2>8, <2>9, <1>1 DEF Alike
<1>12. QED
  BY <1>d, <1>2, <1>3, <1>4, <1>5, <1>6, <1>7, <1>8, <1>9, <1>10, <1>11 DEF HNext, HWorks

LEMMA WatchIs == ASSUME WatchInv PROVE WatchersHeld /\ ReportsAreChanges
<1>1. DOMAIN watchers = 1..Len(watchers)
  BY DEF WatchInv, WatchTypes
<1>2. WatchersHeld
  BY <1>1 DEF WatchInv, SharedOK, WatcherOK, StopOK, WatchersHeld
<1>3. ASSUME NEW i \in 1..Len(watchers), Polls(watchers[i]), NEW k \in DOMAIN watchers[i].reports
      PROVE  /\ (k > 1 \/ watchers[i].seen \in Versions)
                => Saw(watchers[i], k) # Saw(watchers[i], k - 1)
             /\ \/ /\ watchers[i].reports[k].prev = "nil"
                   /\ \A j \in 0..(k - 1) : Saw(watchers[i], j) \in Errnos
                \/ \E j \in 0..(k - 1) :
                     /\ watchers[i].reports[k].prev = Saw(watchers[i], j)
                     /\ Saw(watchers[i], j) \in Versions
                     /\ \A later \in (j + 1)..(k - 1) : Saw(watchers[i], later) \in Errnos
  <2> DEFINE s == watchers[i]
  <2>1. s \in Watchers /\ Told(s.seen, s.reports)
    BY <1>3 DEF WatchInv, WatchTypes, WatcherOK, PollOK
  <2>2. k \in 1..Len(s.reports)
    <3>1. s.reports \in Seq(Changes)
      BY <2>1 DEF Watchers
    <3>2. QED BY <1>3, <3>1
  <2> HIDE DEF s
  <2>3. Differs(s.seen, s.reports, k) /\ LastGood(s.reports[k].prev, s.seen, s.reports, k - 1)
    BY <2>1, <2>2 DEF Told
  <2>4. \A j : Saw(s, j) = SawIn(s.seen, s.reports, j)
    BY DEF Saw, SawIn
  <2>5. (k > 1 \/ s.seen \in Versions) => Saw(s, k) # Saw(s, k - 1)
    BY <2>3, <2>4 DEF Differs
  <2>6. \/ s.reports[k].prev = "nil" /\ \A j \in 0..(k - 1) : Saw(s, j) \in Errnos
        \/ \E j \in 0..(k - 1) :
             /\ s.reports[k].prev = Saw(s, j) /\ Saw(s, j) \in Versions
             /\ \A later \in (j + 1)..(k - 1) : Saw(s, later) \in Errnos
    BY <2>3, <2>4 DEF LastGood
  <2>7. QED BY <2>5, <2>6 DEF s
<1>4. ReportsAreChanges
  BY <1>1, <1>3 DEF ReportsAreChanges
<1>5. QED BY <1>2, <1>4

-----------------------------------------------------------------------------
(* Datagram *)

LEMMA LeastElement ==
  ASSUME NEW T, T \subseteq Nat, T # {}
  PROVE  \E n \in T : \A m \in T : n <= m
<1>1. IsWellFoundedOn(OpToRel(<, Nat), Nat)
  BY NatLessThanWellFounded
<1>2. PICK n \in T : \A m \in T : ~(<<m, n>> \in OpToRel(<, Nat))
  BY <1>1, WFMin
<1>3. \A m \in T : ~(m < n)
  BY <1>2 DEF OpToRel
<1>4. QED BY <1>3

LEMMA SetInduction ==
  ASSUME NEW T, T \subseteq Nat, 0 \in T, \A n \in T : n + 1 \in T
  PROVE  T = Nat
<1>1. SUFFICES ASSUME T # Nat PROVE FALSE
  OBVIOUS
<1>2. PICK n \in Nat \ T : \A m \in Nat \ T : n <= m
  BY <1>1, LeastElement
<1>3. n - 1 \in T
  BY <1>2
<1>4. (n - 1) + 1 \in T
  BY <1>3
<1>5. QED BY <1>2, <1>4

\* The calls of a queue, one after the other.
RunsOf(f, a, q, n) == f = [k \in 0..n |-> IF k = 0 THEN a ELSE Entry(f[k - 1], q[k])]

LEMMA RunsExist ==
  ASSUME NEW a, NEW q, NEW n \in Nat
  PROVE  \E f : RunsOf(f, a, q, n)
<1> DEFINE T == {m \in Nat : \E f : RunsOf(f, a, q, m)}
<1>1. 0 \in T
  <2> DEFINE f == [k \in 0..0 |-> a]
  <2>1. RunsOf(f, a, q, 0)
    BY DEF RunsOf
  <2> HIDE DEF f
  <2>2. QED BY <2>1
<1>2. ASSUME NEW m \in T PROVE m + 1 \in T
  <2>1. PICK f : RunsOf(f, a, q, m)
    BY <1>2
  <2> DEFINE g == [k \in 0..(m + 1) |-> IF k = m + 1 THEN Entry(f[m], q[m + 1]) ELSE f[k]]
  <2>2. \A k \in 0..(m + 1) : g[k] = IF k = 0 THEN a ELSE Entry(g[k - 1], q[k])
    <3>1. ASSUME NEW k \in 0..(m + 1) PROVE g[k] = IF k = 0 THEN a ELSE Entry(g[k - 1], q[k])
      <4>1. CASE k = m + 1
        BY <1>2, <4>1
      <4>2. CASE k # m + 1
        <5>1. k \in 0..m /\ g[k] = f[k]
          BY <1>2, <4>2
        <5>2. f[k] = IF k = 0 THEN a ELSE Entry(f[k - 1], q[k])
          BY <2>1, <5>1 DEF RunsOf
        <5>3. k # 0 => g[k - 1] = f[k - 1]
          BY <1>2, <4>2
        <5>4. QED BY <5>1, <5>2, <5>3
      <4>3. QED BY <4>1, <4>2
    <3>2. QED BY <3>1
  <2>3. RunsOf(g, a, q, m + 1)
    <3>1. g = [k \in 0..(m + 1) |-> g[k]]
      OBVIOUS
    <3> HIDE DEF g
    <3>2. QED BY <2>2, <3>1 DEF RunsOf
  <2>4. QED BY <1>2, <2>3
<1>3. T = Nat
  <2> HIDE DEF T
  <2>1. T \subseteq Nat
    BY DEF T
  <2>2. QED BY <1>1, <1>2, <2>1, SetInduction
<1>4. QED BY <1>3

LEMMA ClearQueueRuns ==
  ASSUME NEW x, Len(x.so.queue) \in Nat
  PROVE  \E f : /\ RunsOf(f, [x EXCEPT !.so.queue = NoQueue], x.so.queue, Len(x.so.queue))
                /\ ClearQueue(x) = f[Len(x.so.queue)]
<1> DEFINE a == [x EXCEPT !.so.queue = NoQueue]
           q == x.so.queue
           n == Len(q)
           g == CHOOSE f : f = [k \in 0..n |-> IF k = 0 THEN a ELSE Entry(f[k - 1], q[k])]
<1>1. ClearQueue(x) = g[n]
  BY DEF ClearQueue
<1>2. RunsOf(g, a, q, n)
  <2> HIDE DEF a, q
  <2>1. \E f : RunsOf(f, a, q, n)
    BY RunsExist
  <2>2. \E f : f = [k \in 0..n |-> IF k = 0 THEN a ELSE Entry(f[k - 1], q[k])]
    BY <2>1 DEF RunsOf
  <2>3. g = [k \in 0..n |-> IF k = 0 THEN a ELSE Entry(g[k - 1], q[k])]
    BY <2>2
  <2>4. QED BY <2>3 DEF RunsOf
<1> HIDE DEF g
<1>3. QED BY <1>1, <1>2

-----------------------------------------------------------------------------
DCalls == {<<"undefined">>, <<"close">>, <<"connect">>} \cup ({"send"} \X Sends)
DTicks == {<<"close">>, <<"connect">>, <<"error">>} \cup ({"sent", "failed"} \X Sends)
DLookups == {<<"bind">>, <<"connect">>} \cup ({"send"} \X Sends)
Socks == [bind : {"unbound", "binding", "bound"}, conn : {"disconnected", "connecting", "connected"},
          queue : Seq(DCalls), open : BOOLEAN, receiving : BOOLEAN, refed : BOOLEAN,
          reading : BOOLEAN, opHeld : BOOLEAN, fd : BOOLEAN, ticks : Seq(DTicks), asked : Nat,
          closed : Nat, arrived : Nat, failed : BOOLEAN, thrown : BOOLEAN]
DWaits == [queued : Seq(DCalls), ran : Seq(DCalls)]
States == [so : Socks, lookups : SUBSET DLookups,
           outcome : [Sends -> {"none", "pending", "dropped", "sent", "failed"}],
           waited : DWaits]

\* The loop is held by a handle that reads; while the socket is open it reads
\* from bind() on.  Only a call on a closed socket throws.
SockOK(s) ==
  /\ s.opHeld <=> s.refed /\ s.reading /\ s.open /\ s.fd
  /\ s.open => (s.reading <=> s.fd) /\ (s.receiving <=> s.fd) /\ (s.fd <=> s.bind = "bound")
  /\ s.thrown => ~s.open
Dropped(x) == \A i \in Sends : x.outcome[i] = "dropped" => x.so.failed \/ ~x.so.open
\* While the socket is open a bind is under way exactly while its address is
\* looked up; and only while one is there is a queue.
Binding(x) ==
  /\ x.so.open => (x.so.bind = "binding" <=> <<"bind">> \in x.lookups)
  /\ x.so.queue # NoQueue => x.so.bind = "binding"
XOK(x) == SockOK(x.so) /\ Dropped(x) /\ Binding(x)

\* What waits is what was queued; what no longer waits was run, in its order.
Prefix(ran, queued, k) == Len(ran) = k /\ k <= Len(queued) /\ \A j \in 1..k : ran[j] = queued[j]
Ordered(x) ==
  IF x.so.queue # NoQueue THEN x.waited = [queued |-> x.so.queue, ran |-> <<>>]
  ELSE /\ Prefix(x.waited.ran, x.waited.queued, Len(x.waited.ran))
       /\ x.so.thrown \/ Len(x.waited.ran) = Len(x.waited.queued)
\* A call that leaves the queue alone.
Same(y, x) == y.waited = x.waited /\ y.so.queue = x.so.queue /\ y.so.thrown = x.so.thrown

LEMMA SameOrdered == ASSUME NEW x, NEW y, Same(y, x), Ordered(x) PROVE Ordered(y)
BY DEF Same, Ordered

\* What a call does not do.
Onward(y, x) == y.so.arrived = x.so.arrived /\ (y.so.open => x.so.open)

LEMMA SetSo ==
  ASSUME NEW x \in States, NEW s \in Socks
  PROVE  LET y == [x EXCEPT !.so = s] IN
         y \in States /\ y.so = s /\ y.lookups = x.lookups /\ y.outcome = x.outcome
         /\ y.waited = x.waited
BY DEF States

LEMMA SetLookups ==
  ASSUME NEW x \in States, NEW l \in SUBSET DLookups
  PROVE  LET y == [x EXCEPT !.lookups = l] IN
         y \in States /\ y.so = x.so /\ y.lookups = l /\ y.outcome = x.outcome
         /\ y.waited = x.waited
BY DEF States

LEMMA SetOutcome ==
  ASSUME NEW x \in States, NEW o \in [Sends -> {"none", "pending", "dropped", "sent", "failed"}]
  PROVE  LET y == [x EXCEPT !.outcome = o] IN
         y \in States /\ y.so = x.so /\ y.lookups = x.lookups /\ y.outcome = o
         /\ y.waited = x.waited
BY DEF States

LEMMA SetWaited ==
  ASSUME NEW x \in States, NEW w \in DWaits
  PROVE  LET y == [x EXCEPT !.waited = w] IN
         y \in States /\ y.so = x.so /\ y.lookups = x.lookups /\ y.outcome = x.outcome
         /\ y.waited = w
BY DEF States

LEMMA StateTypes ==
  ASSUME NEW x \in States
  PROVE  /\ x.so \in Socks /\ x.lookups \in SUBSET DLookups
         /\ x.outcome \in [Sends -> {"none", "pending", "dropped", "sent", "failed"}]
         /\ x.waited \in DWaits
BY DEF States

LEMMA LookUpTypes ==
  ASSUME NEW x \in States, NEW op \in DLookups
  PROVE  /\ LookUp(x, op) \in States /\ LookUp(x, op).so = x.so
         /\ LookUp(x, op).lookups = x.lookups \cup {op} /\ LookUp(x, op).outcome = x.outcome
         /\ LookUp(x, op).waited = x.waited
<1>1. x.lookups \cup {op} \in SUBSET DLookups
  BY StateTypes
<1>2. LookUp(x, op) = [x EXCEPT !.lookups = x.lookups \cup {op}]
  BY DEF LookUp
<1>3. QED BY <1>1, <1>2, SetLookups

LEMMA LookUpKeeps ==
  ASSUME NEW x \in States, XOK(x), NEW op \in DLookups, op # <<"bind">>
  PROVE  LookUp(x, op) \in States /\ XOK(LookUp(x, op)) /\ Onward(LookUp(x, op), x)
         /\ LookUp(x, op).so = x.so /\ Same(LookUp(x, op), x)
<1>1. /\ LookUp(x, op) \in States /\ LookUp(x, op).so = x.so
      /\ LookUp(x, op).lookups = x.lookups \cup {op} /\ LookUp(x, op).outcome = x.outcome
      /\ LookUp(x, op).waited = x.waited
  BY LookUpTypes
<1>2. QED BY <1>1 DEF XOK, Dropped, Binding, Onward, Same

LEMMA SendIsCall ==
  ASSUME NEW i \in Sends
  PROVE  /\ <<"send", i>> \in DCalls /\ <<"send", i>> # <<"undefined">> /\ <<"send", i>> \in DLookups /\ <<"send", i>> # <<"bind">>
         /\ <<"sent", i>> \in DTicks /\ <<"failed", i>> \in DTicks
<1>1. <<"send", i>>[1] # <<"bind">>[1] /\ <<"send", i>>[1] # <<"undefined">>[1]
  OBVIOUS
<1>2. QED BY <1>1 DEF DCalls, DLookups, DTicks

LEMMA ConnectIsCall ==
  /\ <<"connect">> \in DCalls /\ <<"connect">> \in DLookups /\ <<"connect">> # <<"bind">>
  /\ <<"close">> \in DCalls /\ <<"bind">> \in DLookups
  /\ <<"connect">> # <<"undefined">> /\ <<"close">> # <<"undefined">>
  /\ <<"connect">> \in DTicks /\ <<"close">> \in DTicks /\ <<"error">> \in DTicks
<1>1. /\ <<"connect">>[1] # <<"bind">>[1] /\ <<"connect">>[1] # <<"undefined">>[1]
      /\ <<"close">>[1] # <<"undefined">>[1]
  OBVIOUS
<1>2. QED BY <1>1 DEF DCalls, DLookups, DTicks

LEMMA BoundKeeps ==
  ASSUME NEW x \in States, XOK(x)
  PROVE  /\ Bound(x) \in States /\ XOK(Bound(x)) /\ Onward(Bound(x), x)
         /\ Bound(x).so.bind # "unbound" /\ Bound(x).so.open = x.so.open
         /\ Bound(x).so.bind = (IF x.so.bind = "unbound" THEN "binding" ELSE x.so.bind)
         /\ Same(Bound(x), x)
<1>1. CASE x.so.bind = "unbound"
  <2> DEFINE s == [x.so EXCEPT !.bind = "binding"]
             y == [x EXCEPT !.so = s]
  <2>1. Bound(x) = LookUp(y, <<"bind">>)
    BY <1>1 DEF Bound, StartBind
  <2>2. /\ s \in Socks /\ s.bind = "binding" /\ s.open = x.so.open /\ s.queue = x.so.queue
        /\ s.arrived = x.so.arrived /\ s.failed = x.so.failed /\ s.thrown = x.so.thrown
        /\ s.opHeld = x.so.opHeld /\ s.refed = x.so.refed /\ s.reading = x.so.reading
        /\ s.fd = x.so.fd /\ s.receiving = x.so.receiving
    BY StateTypes, SMTT(20) DEF Socks
  <2> HIDE DEF s
  <2>3. y \in States /\ y.so = s /\ y.lookups = x.lookups /\ y.outcome = x.outcome
        /\ y.waited = x.waited
    BY <2>2, SetSo
  <2> HIDE DEF y
  <2> DEFINE z == LookUp(y, <<"bind">>)
  <2>4. /\ z \in States /\ z.so = s /\ z.lookups = x.lookups \cup {<<"bind">>}
        /\ z.outcome = x.outcome /\ z.waited = x.waited
    BY <2>3, LookUpTypes, ConnectIsCall
  <2> HIDE DEF z
  <2>5. SockOK(s)
    BY <1>1, <2>2 DEF XOK, SockOK
  <2>6. Dropped(z) /\ Binding(z)
    BY <1>1, <2>2, <2>4 DEF XOK, Dropped, Binding
  <2>7. QED BY <1>1, <2>1, <2>2, <2>4, <2>5, <2>6 DEF XOK, Onward, Same, z
<1>2. CASE x.so.bind # "unbound"
  BY <1>2 DEF Bound, Onward, Same
<1>3. QED BY <1>1, <1>2

LEMMA EnqueueKeeps ==
  ASSUME NEW x \in States, XOK(x), x.so.bind = "binding", NEW op \in DCalls,
         op # <<"undefined">>
  PROVE  /\ Enqueue(x, op) \in States /\ XOK(Enqueue(x, op)) /\ Onward(Enqueue(x, op), x)
         /\ Ordered(x) => Ordered(Enqueue(x, op))
<1> DEFINE q == IF x.so.queue = NoQueue THEN <<op>> ELSE Append(x.so.queue, op)
           n == IF x.so.queue = NoQueue THEN <<op>> ELSE Append(x.waited.queued, op)
           w == [queued |-> n, ran |-> IF x.so.queue = NoQueue THEN <<>> ELSE x.waited.ran]
           s == [x.so EXCEPT !.queue = q]
           z == [x EXCEPT !.so = s]
           y == [z EXCEPT !.waited = w]
<1>t. x.so.queue \in Seq(DCalls) /\ x.waited \in DWaits /\ x.waited.queued \in Seq(DCalls)
      /\ x.waited.ran \in Seq(DCalls)
  BY StateTypes DEF Socks, DWaits
<1>1. Enqueue(x, op) = y
  <2>1. CASE x.so.queue = NoQueue
    BY <2>1 DEF Enqueue
  <2>2. CASE x.so.queue # NoQueue
    <3>1. x.waited = [queued |-> x.waited.queued, ran |-> x.waited.ran]
      BY <1>t DEF DWaits
    <3>0. w = [queued |-> n, ran |-> x.waited.ran]
      BY <2>2
    <3>2. [x.waited EXCEPT !.queued = n] = w
      <4> HIDE DEF n, w
      <4>1. QED BY <3>0, <3>1
    <3>3. Enqueue(x, op) = [[x EXCEPT !.so = s] EXCEPT !.waited = [x.waited EXCEPT !.queued = n]]
      BY <2>2 DEF Enqueue
    <3>4. QED BY <3>2, <3>3
  <2>3. QED BY <2>1, <2>2
<1>2. q \in Seq(DCalls) /\ w \in DWaits
  <2>1. n \in Seq(DCalls)
    BY <1>t
  <2> HIDE DEF n
  <2>2. <<>> \in Seq(DCalls)
    OBVIOUS
  <2>3. QED BY <1>t, <2>1, <2>2 DEF DWaits
<1>n. q # NoQueue
  <2>1. Len(q) \in Nat /\ Len(q) > 0 /\ q[Len(q)] = op
    BY <1>t
  <2>2. NoQueue[Len(NoQueue)] = <<"undefined">>
    BY DEF NoQueue
  <2> HIDE DEF q
  <2>3. QED BY <2>1, <2>2
<1>w. Ordered(x) => w = [queued |-> q, ran |-> <<>>]
  <2>1. CASE x.so.queue = NoQueue
    BY <2>1
  <2>2. CASE x.so.queue # NoQueue
    <3>1. SUFFICES ASSUME Ordered(x) PROVE w = [queued |-> q, ran |-> <<>>]
      OBVIOUS
    <3>2. x.waited = [queued |-> x.so.queue, ran |-> <<>>]
      BY <2>2, <3>1 DEF Ordered
    <3>3. x.waited.queued = x.so.queue /\ x.waited.ran = <<>>
      BY <3>2
    <3>4. QED BY <2>2, <3>3
  <2>3. QED BY <2>1, <2>2
<1> HIDE DEF q, w
<1>3. /\ s \in Socks /\ s.bind = x.so.bind /\ s.open = x.so.open
      /\ s.arrived = x.so.arrived /\ s.failed = x.so.failed /\ s.thrown = x.so.thrown
      /\ s.opHeld = x.so.opHeld /\ s.refed = x.so.refed /\ s.reading = x.so.reading
      /\ s.fd = x.so.fd /\ s.receiving = x.so.receiving
  BY <1>2, StateTypes, ZenonT(40) DEF Socks
<1>q. s.queue = q
  BY StateTypes DEF Socks
<1> HIDE DEF s
<1>z. z \in States /\ z.so = s /\ z.lookups = x.lookups /\ z.outcome = x.outcome
  BY <1>3, SetSo
<1> HIDE DEF z
<1>4. y \in States /\ y.so = s /\ y.lookups = x.lookups /\ y.outcome = x.outcome /\ y.waited = w
  BY <1>2, <1>z, SetWaited
<1> HIDE DEF y
<1>5. SockOK(s)
  BY <1>3 DEF XOK, SockOK
<1>6. Dropped(y) /\ Binding(y)
  BY <1>3, <1>4 DEF XOK, Dropped, Binding
<1>8. Ordered(x) => Ordered(y)
  BY <1>n, <1>w, <1>q, <1>4 DEF Ordered
<1>7. QED BY <1>1, <1>3, <1>4, <1>5, <1>6, <1>8 DEF XOK, Onward

\* A tick is queued.
LEMMA TickKeepsSock ==
  ASSUME NEW s \in Socks, NEW t \in DTicks
  PROVE  LET r == DTick(s, t) IN
         /\ r \in Socks /\ r.bind = s.bind /\ r.conn = s.conn /\ r.queue = s.queue
         /\ r.open = s.open /\ r.arrived = s.arrived /\ r.failed = s.failed /\ r.thrown = s.thrown
         /\ SockOK(s) => SockOK(r)
<1> DEFINE ticks == Append(s.ticks, t)
           r == [s EXCEPT !.ticks = ticks]
<1>1. ticks \in Seq(DTicks)
  <2>1. s.ticks \in Seq(DTicks)
    BY DEF Socks
  <2>2. QED BY <2>1
<1> HIDE DEF ticks
<1>2. /\ r \in Socks /\ r.bind = s.bind /\ r.conn = s.conn /\ r.queue = s.queue
      /\ r.open = s.open /\ r.arrived = s.arrived /\ r.failed = s.failed /\ r.thrown = s.thrown
      /\ r.opHeld = s.opHeld /\ r.refed = s.refed /\ r.reading = s.reading
      /\ r.fd = s.fd /\ r.receiving = s.receiving
  BY <1>1 DEF Socks
<1>3. DTick(s, t) = r
  BY DEF DTick, ticks
<1> HIDE DEF r
<1>4. SockOK(s) => SockOK(r)
  BY <1>2 DEF SockOK
<1>5. QED BY <1>2, <1>3, <1>4

LEMMA DoSendKeeps ==
  ASSUME NEW x \in States, XOK(x), NEW i \in Sends, NEW ok \in BOOLEAN
  PROVE  /\ DoSend(x, i, ok) \in States /\ XOK(DoSend(x, i, ok)) /\ Onward(DoSend(x, i, ok), x)
         /\ Same(DoSend(x, i, ok), x)
<1>1. CASE ~x.so.open
  <2> DEFINE o == [x.outcome EXCEPT ![i] = "dropped"]
             y == [x EXCEPT !.outcome = o]
  <2>1. DoSend(x, i, ok) = y
    BY <1>1 DEF DoSend
  <2>2. o \in [Sends -> {"none", "pending", "dropped", "sent", "failed"}]
    BY StateTypes
  <2> HIDE DEF o
  <2>3. y \in States /\ y.so = x.so /\ y.lookups = x.lookups /\ y.waited = x.waited
    BY <2>2, SetOutcome
  <2> HIDE DEF y
  <2>4. QED BY <1>1, <2>1, <2>3 DEF XOK, Dropped, Binding, Onward, Same
<1>2. CASE x.so.open
  <2> DEFINE t == <<IF ok THEN "sent" ELSE "failed", i>>
             s == DTick(x.so, t)
             y == [x EXCEPT !.so = s]
  <2>1. DoSend(x, i, ok) = y
    BY <1>2 DEF DoSend
  <2>2. t \in DTicks
    BY SendIsCall
  <2> HIDE DEF t
  <2>3. /\ s \in Socks /\ s.bind = x.so.bind /\ s.conn = x.so.conn /\ s.queue = x.so.queue
        /\ s.open = x.so.open /\ s.arrived = x.so.arrived /\ s.failed = x.so.failed
        /\ s.thrown = x.so.thrown /\ SockOK(s)
    BY <2>2, StateTypes, TickKeepsSock DEF XOK
  <2> HIDE DEF s
  <2>4. y \in States /\ y.so = s /\ y.lookups = x.lookups /\ y.outcome = x.outcome
        /\ y.waited = x.waited
    BY <2>3, SetSo
  <2> HIDE DEF y
  <2>5. QED BY <2>1, <2>3, <2>4 DEF XOK, Dropped, Binding, Onward, Same
<1>3. QED BY <1>1, <1>2

LEMMA SendNowKeeps ==
  ASSUME NEW x \in States, XOK(x), NEW i \in Sends, NEW ok \in BOOLEAN
  PROVE  /\ SendNow(x, i, ok) \in States /\ XOK(SendNow(x, i, ok)) /\ Onward(SendNow(x, i, ok), x)
         /\ Same(SendNow(x, i, ok), x)
<1>1. CASE x.so.conn = "connected"
  BY <1>1, DoSendKeeps DEF SendNow
<1>2. CASE x.so.conn # "connected"
  <2>1. SendNow(x, i, ok) = LookUp(x, <<"send", i>>)
    BY <1>2 DEF SendNow
  <2>2. <<"send", i>> \in DLookups /\ <<"send", i>> # <<"bind">>
    BY SendIsCall
  <2> DEFINE op == <<"send", i>>
  <2> HIDE DEF op
  <2>3. LookUp(x, op) \in States /\ XOK(LookUp(x, op)) /\ Onward(LookUp(x, op), x)
        /\ LookUp(x, op).so = x.so /\ Same(LookUp(x, op), x)
    BY <2>2, LookUpKeeps DEF op
  <2>4. QED BY <2>1, <2>3 DEF op
<1>3. QED BY <1>1, <1>2

LEMMA DSendKeeps ==
  ASSUME NEW x \in States, XOK(x), x.so.open, NEW i \in Sends, NEW ok \in BOOLEAN
  PROVE  /\ DSend(x, i, ok) \in States /\ XOK(DSend(x, i, ok)) /\ Onward(DSend(x, i, ok), x)
         /\ Ordered(x) => Ordered(DSend(x, i, ok))
<1> DEFINE b == Bound(x)
<1>1. /\ b \in States /\ XOK(b) /\ Onward(b, x) /\ b.so.bind # "unbound" /\ b.so.open
      /\ Ordered(x) => Ordered(b)
  BY BoundKeeps, SameOrdered
<1>2. DSend(x, i, ok) = IF b.so.bind # "bound" THEN Enqueue(b, <<"send", i>>) ELSE SendNow(b, i, ok)
  BY DEF DSend
<1> HIDE DEF b
<1>3. CASE b.so.bind # "bound"
  <2>1. b.so.bind = "binding"
    BY <1>1, <1>3, StateTypes DEF Socks
  <2>2. <<"send", i>> \in DCalls /\ <<"send", i>> # <<"undefined">>
    BY SendIsCall
  <2> DEFINE op == <<"send", i>>
  <2> HIDE DEF op
  <2>3. /\ Enqueue(b, op) \in States /\ XOK(Enqueue(b, op)) /\ Onward(Enqueue(b, op), b)
        /\ Ordered(b) => Ordered(Enqueue(b, op))
    BY <1>1, <2>1, <2>2, EnqueueKeeps DEF op
  <2>4. QED BY <1>1, <1>2, <1>3, <2>3 DEF op, Onward
<1>4. CASE b.so.bind = "bound"
  <2>1. /\ SendNow(b, i, ok) \in States /\ XOK(SendNow(b, i, ok)) /\ Onward(SendNow(b, i, ok), b)
        /\ Ordered(b) => Ordered(SendNow(b, i, ok))
    BY <1>1, SendNowKeeps, SameOrdered
  <2>2. QED BY <1>1, <1>2, <1>4, <2>1 DEF Onward
<1>5. QED BY <1>3, <1>4

LEMMA UpdateOpTypes ==
  ASSUME NEW s \in Socks
  PROVE  LET r == DUpdateOp(s) IN
         /\ r \in Socks /\ r.bind = s.bind /\ r.conn = s.conn /\ r.queue = s.queue
         /\ r.open = s.open /\ r.arrived = s.arrived /\ r.failed = s.failed /\ r.thrown = s.thrown
         /\ r.refed = s.refed /\ r.reading = s.reading /\ r.fd = s.fd /\ r.receiving = s.receiving
         /\ r.opHeld = (s.refed /\ s.reading /\ s.open /\ s.fd)
<1> DEFINE held == s.refed /\ s.reading /\ s.open /\ s.fd
           r == [s EXCEPT !.opHeld = held]
<1>1. held \in BOOLEAN
  OBVIOUS
<1>2. DUpdateOp(s) = r
  BY DEF DUpdateOp
<1> HIDE DEF held
<1>3. /\ r \in Socks /\ r.bind = s.bind /\ r.conn = s.conn /\ r.queue = s.queue
      /\ r.open = s.open /\ r.arrived = s.arrived /\ r.failed = s.failed /\ r.thrown = s.thrown
      /\ r.refed = s.refed /\ r.reading = s.reading /\ r.fd = s.fd /\ r.receiving = s.receiving
      /\ r.opHeld = held
  BY <1>1 DEF Socks
<1> HIDE DEF r
<1>4. QED BY <1>2, <1>3 DEF held

LEMMA CloseNowKeeps ==
  ASSUME NEW x \in States, XOK(x), x.so.queue = NoQueue
  PROVE  /\ CloseNow(x) \in States /\ XOK(CloseNow(x)) /\ ~CloseNow(x).so.open
         /\ CloseNow(x).so.queue = NoQueue /\ CloseNow(x).so.arrived = x.so.arrived
         /\ Same(CloseNow(x), x)
<1> DEFINE reads == x.so.reading /\ ~x.so.receiving
           s == [x.so EXCEPT !.receiving = FALSE, !.open = FALSE, !.reading = reads]
           u == DUpdateOp(s)
           r == DTick(u, <<"close">>)
           y == [x EXCEPT !.so = r]
<1>1. CloseNow(x) = y
  BY DEF CloseNow
<1>2. reads \in BOOLEAN
  OBVIOUS
<1> HIDE DEF reads
<1>3. /\ s \in Socks /\ s.bind = x.so.bind /\ s.queue = x.so.queue /\ ~s.open
      /\ s.arrived = x.so.arrived /\ s.failed = x.so.failed /\ s.thrown = x.so.thrown
  <2>1. x.so \in Socks
    BY StateTypes
  <2>2. QED BY <1>2, <2>1 DEF Socks
<1> HIDE DEF s
<1>4. /\ u \in Socks /\ u.bind = s.bind /\ u.queue = s.queue /\ u.open = s.open
      /\ u.arrived = s.arrived /\ u.failed = s.failed /\ u.thrown = s.thrown
      /\ u.opHeld = (s.refed /\ s.reading /\ s.open /\ s.fd)
  BY <1>3, UpdateOpTypes
<1> HIDE DEF u
<1>5. SockOK(u)
  BY <1>3, <1>4 DEF SockOK
<1>6. /\ r \in Socks /\ r.bind = u.bind /\ r.queue = u.queue /\ r.open = u.open
      /\ r.arrived = u.arrived /\ r.failed = u.failed /\ r.thrown = u.thrown /\ SockOK(r)
  BY <1>4, <1>5, ConnectIsCall, TickKeepsSock
<1> HIDE DEF r
<1>7. y \in States /\ y.so = r /\ y.waited = x.waited
  BY <1>6, SetSo
<1> HIDE DEF y
<1>8. QED BY <1>1, <1>3, <1>4, <1>6, <1>7 DEF XOK, Dropped, Binding, Same

LEMMA CloseKeeps ==
  ASSUME NEW x \in States, XOK(x)
  PROVE  /\ Close(x) \in States /\ XOK(Close(x)) /\ Onward(Close(x), x)
         /\ Ordered(x) => Ordered(Close(x))
<1> DEFINE n == x.so.asked + 1
           s == [x.so EXCEPT !.asked = n]
           y == [x EXCEPT !.so = s]
<1>1. Close(x) = IF y.so.queue # NoQueue THEN Enqueue(y, <<"close">>) ELSE CloseNow(y)
  BY DEF Close
<1>2. n \in Nat
  BY StateTypes DEF Socks
<1> HIDE DEF n
<1>3. /\ s \in Socks /\ s.bind = x.so.bind /\ s.queue = x.so.queue /\ s.open = x.so.open
      /\ s.arrived = x.so.arrived /\ s.failed = x.so.failed /\ s.thrown = x.so.thrown
      /\ s.opHeld = x.so.opHeld /\ s.refed = x.so.refed /\ s.reading = x.so.reading
      /\ s.fd = x.so.fd /\ s.receiving = x.so.receiving
  BY <1>2, StateTypes DEF Socks
<1> HIDE DEF s
<1>4. y \in States /\ y.so = s /\ y.lookups = x.lookups /\ y.outcome = x.outcome
      /\ y.waited = x.waited
  BY <1>3, SetSo
<1> HIDE DEF y
<1>5. SockOK(s)
  BY <1>3 DEF XOK, SockOK
<1>6. XOK(y) /\ Same(y, x)
  BY <1>3, <1>4, <1>5 DEF XOK, Dropped, Binding, Same
<1>o. Ordered(x) => Ordered(y)
  BY <1>6, SameOrdered
<1>7. CASE y.so.queue # NoQueue
  <2>1. y.so.bind = "binding"
    BY <1>6, <1>7 DEF XOK, Binding
  <2>2. <<"close">> \in DCalls /\ <<"close">> # <<"undefined">>
    BY ConnectIsCall
  <2> DEFINE op == <<"close">>
  <2> HIDE DEF op
  <2>3. /\ Enqueue(y, op) \in States /\ XOK(Enqueue(y, op)) /\ Onward(Enqueue(y, op), y)
        /\ Ordered(y) => Ordered(Enqueue(y, op))
    BY <1>4, <1>6, <2>1, <2>2, EnqueueKeeps DEF op
  <2>4. QED BY <1>1, <1>3, <1>4, <1>7, <1>o, <2>3 DEF op, Onward
<1>8. CASE y.so.queue = NoQueue
  <2>1. /\ CloseNow(y) \in States /\ XOK(CloseNow(y)) /\ ~CloseNow(y).so.open
        /\ CloseNow(y).so.arrived = y.so.arrived /\ Same(CloseNow(y), y)
    BY <1>4, <1>6, <1>8, CloseNowKeeps
  <2>2. QED BY <1>1, <1>3, <1>4, <1>8, <1>o, <2>1, SameOrdered DEF Onward
<1>9. QED BY <1>7, <1>8

\* A queued call is run; what came before it is in Entry's x.
Emptied(y, x) ==
  y \in States /\ XOK(y) /\ Onward(y, x) /\ y.so.queue = NoQueue

RanAlso(x, op) == [x.waited EXCEPT !.ran = Append(@, op)]
EntryWaits(z, x, op) ==
  IF x.so.thrown \/ ~x.so.open THEN z.waited = x.waited /\ z.so.thrown
  ELSE z.waited = RanAlso(x, op) /\ z.so.thrown = x.so.thrown

LEMMA EntryKeeps ==
  ASSUME NEW x, NEW y, Emptied(x, y), NEW op \in DCalls
  PROVE  Emptied(Entry(x, op), y) /\ EntryWaits(Entry(x, op), x, op)
<1>0. x \in States /\ XOK(x) /\ Onward(x, y) /\ x.so.queue = NoQueue
  BY DEF Emptied
<1>1. CASE x.so.thrown \/ ~x.so.open
  <2> DEFINE o == IF op[1] = "send" THEN [x.outcome EXCEPT ![op[2]] = "dropped"] ELSE x.outcome
             s == [x.so EXCEPT !.thrown = TRUE]
             z == [x EXCEPT !.so = s]
             w == [z EXCEPT !.outcome = o]
  <2>1. x.outcome \in [Sends -> {"none", "pending", "dropped", "sent", "failed"}]
    BY <1>0, StateTypes
  <2>2. op[1] = "send" => op[2] \in Sends
    BY DEF DCalls
  <2>3. o \in [Sends -> {"none", "pending", "dropped", "sent", "failed"}]
    BY <2>1, <2>2
  <2>4. Entry(x, op) = w
    BY <1>1 DEF Entry
  <2> HIDE DEF o
  <2>5. /\ s \in Socks /\ s.bind = x.so.bind /\ s.queue = x.so.queue /\ s.open = x.so.open
        /\ s.arrived = x.so.arrived /\ s.failed = x.so.failed
        /\ s.opHeld = x.so.opHeld /\ s.refed = x.so.refed /\ s.reading = x.so.reading
        /\ s.fd = x.so.fd /\ s.receiving = x.so.receiving /\ s.thrown
    BY <1>0, StateTypes DEF Socks
  <2> HIDE DEF s
  <2>6. z \in States /\ z.so = s /\ z.lookups = x.lookups /\ z.waited = x.waited
    BY <1>0, <2>5, SetSo
  <2> HIDE DEF z
  <2>7. w \in States /\ w.so = s /\ w.lookups = x.lookups /\ w.waited = x.waited
    BY <2>3, <2>6, SetOutcome
  <2> HIDE DEF w
  <2>8. ~x.so.open
    BY <1>0, <1>1 DEF XOK, SockOK
  <2>9. SockOK(s)
    BY <1>0, <2>5, <2>8 DEF XOK, SockOK
  <2>10. XOK(w)
    BY <1>0, <2>5, <2>7, <2>8, <2>9 DEF XOK, Dropped, Binding
  <2>12. EntryWaits(w, x, op)
    BY <1>1, <2>5, <2>7 DEF EntryWaits
  <2>11. QED BY <1>0, <2>4, <2>5, <2>7, <2>10, <2>12 DEF Emptied, Onward
<1>r. CASE ~(x.so.thrown \/ ~x.so.open)
  <2> DEFINE z == Ran(x, op)
             w == RanAlso(x, op)
  <2>1. w \in DWaits /\ z = [x EXCEPT !.waited = w]
    <3>1. x.waited \in DWaits /\ x.waited.ran \in Seq(DCalls)
      BY <1>0, StateTypes DEF DWaits
    <3>2. Append(x.waited.ran, op) \in Seq(DCalls)
      BY <3>1
    <3>3. QED BY <3>1, <3>2 DEF Ran, RanAlso, DWaits
  <2> HIDE DEF w, z
  <2>2. z \in States /\ z.so = x.so /\ z.lookups = x.lookups /\ z.outcome = x.outcome
        /\ z.waited = w
    BY <1>0, <2>1, SetWaited
  <2>3. XOK(z) /\ Emptied(z, y)
    BY <1>0, <2>2 DEF Emptied, XOK, Dropped, Binding, Onward
  <2>4. ASSUME NEW v, v \in States, XOK(v), Onward(v, z), Same(v, z), v.so.queue = NoQueue,
               Entry(x, op) = v
        PROVE  Emptied(Entry(x, op), y) /\ EntryWaits(Entry(x, op), x, op)
    BY <1>r, <2>2, <2>3, <2>4 DEF Emptied, Onward, Same, EntryWaits, w
  <2>5. z \in States /\ XOK(z) /\ z.so.queue = NoQueue
    BY <2>3 DEF Emptied
  <2>6. CASE op[1] = "send"
    <3>0. op[2] \in Sends
      BY <2>6 DEF DCalls
    <3>1. Entry(x, op) = SendNow(z, op[2], TRUE)
      BY <1>r, <2>6 DEF Entry, z
    <3> DEFINE v == SendNow(z, op[2], TRUE)
    <3>2. v \in States /\ XOK(v) /\ Onward(v, z) /\ Same(v, z)
      BY <2>5, <3>0, SendNowKeeps
    <3>3. Entry(x, op) = v
      BY <3>1
    <3> HIDE DEF v
    <3>4. v.so.queue = NoQueue
      BY <2>5, <3>2 DEF Same
    <3>5. QED BY <2>4, <3>2, <3>3, <3>4
  <2>7. CASE op[1] = "connect"
    <3>1. Entry(x, op) = LookUp(z, <<"connect">>)
      BY <1>r, <2>7 DEF Entry, z
    <3> DEFINE v == LookUp(z, <<"connect">>)
    <3>2. v \in States /\ XOK(v) /\ Onward(v, z) /\ Same(v, z)
      <4>1. <<"connect">> \in DLookups /\ <<"connect">> # <<"bind">>
        BY ConnectIsCall
      <4> DEFINE c == <<"connect">>
      <4> HIDE DEF c
      <4>2. LookUp(z, c) \in States /\ XOK(LookUp(z, c)) /\ Onward(LookUp(z, c), z)
            /\ Same(LookUp(z, c), z)
        BY <2>5, <4>1, LookUpKeeps DEF c
      <4>3. QED BY <4>2 DEF c
    <3>3. Entry(x, op) = v
      BY <3>1
    <3> HIDE DEF v
    <3>4. v.so.queue = NoQueue
      BY <2>5, <3>2 DEF Same
    <3>5. QED BY <2>4, <3>2, <3>3, <3>4
  <2>8. CASE op[1] # "send" /\ op[1] # "connect"
    <3>1. Entry(x, op) = CloseNow(z)
      BY <1>r, <2>8 DEF Entry, z
    <3> DEFINE v == CloseNow(z)
    <3>2. /\ v \in States /\ XOK(v) /\ ~v.so.open /\ v.so.queue = NoQueue
          /\ v.so.arrived = z.so.arrived /\ Same(v, z)
      BY <2>5, CloseNowKeeps
    <3>3. Entry(x, op) = v
      BY <3>1
    <3> HIDE DEF v
    <3>4. Onward(v, z)
      BY <3>2 DEF Onward
    <3>5. QED BY <2>4, <3>2, <3>3, <3>4
  <2>9. QED BY <2>6, <2>7, <2>8
<1>5. QED BY <1>1, <1>r

\* What was run stays a beginning of what was queued.
LEMMA PrefixGrows ==
  ASSUME NEW x, NEW k \in Nat, NEW q \in Seq(DCalls), k + 1 <= Len(q), x.waited \in DWaits,
         Prefix(x.waited.ran, q, k), x.waited.queued = q
  PROVE  LET w == RanAlso(x, q[k + 1]) IN Prefix(w.ran, q, k + 1) /\ w.queued = q
<1> DEFINE w == RanAlso(x, q[k + 1])
           ran == x.waited.ran
           new == Append(ran, q[k + 1])
<1>1. ran \in Seq(DCalls) /\ Len(ran) = k /\ \A j \in 1..k : ran[j] = q[j]
  BY DEF DWaits, Prefix
<1>2. w.ran = new /\ w.queued = q
  BY DEF RanAlso, DWaits
<1> HIDE DEF ran, w
<1>3. q[k + 1] \in DCalls
  BY DEF Prefix
<1>4. Len(new) = k + 1 /\ new[k + 1] = q[k + 1] /\ \A j \in 1..k : new[j] = ran[j]
  BY <1>1, <1>3
<1> HIDE DEF new
<1>5. \A j \in 1..(k + 1) : new[j] = q[j]
  <2>1. \A j \in 1..(k + 1) : j \in 1..k \/ j = k + 1
    OBVIOUS
  <2>2. QED BY <1>1, <1>4, <2>1
<1>6. Prefix(new, q, k + 1)
  BY <1>4, <1>5 DEF Prefix
<1>7. QED BY <1>2, <1>6 DEF w

LEMMA OrderedRun ==
  ASSUME NEW y, y.so.queue = NoQueue,
         Prefix(y.waited.ran, y.waited.queued, Len(y.waited.ran)),
         y.so.thrown \/ Len(y.waited.ran) = Len(y.waited.queued)
  PROVE  Ordered(y)
BY DEF Ordered

\* All of the queue is run.
LEMMA ClearQueueKeeps ==
  ASSUME NEW x \in States, SockOK(x.so), Dropped(x), x.so.open, x.so.bind # "binding",
         <<"bind">> \notin x.lookups, Ordered(x), x.so.queue # NoQueue
  PROVE  ClearQueue(x) \in States /\ XOK(ClearQueue(x)) /\ Onward(ClearQueue(x), x)
         /\ Ordered(ClearQueue(x))
<1> DEFINE q == x.so.queue
           n == Len(q)
           s == [x.so EXCEPT !.queue = NoQueue]
           a == [x EXCEPT !.so = s]
<1>1. q \in Seq(DCalls) /\ n \in Nat /\ \A k \in 1..n : q[k] \in DCalls
  BY StateTypes DEF Socks
<1>2. PICK f : RunsOf(f, [x EXCEPT !.so.queue = NoQueue], q, n) /\ ClearQueue(x) = f[n]
  BY <1>1, ClearQueueRuns
<1>3. RunsOf(f, a, q, n)
  BY <1>2
<1>4. Emptied(a, x)
  <2>1. NoQueue \in Seq(DCalls)
    BY DEF NoQueue, DCalls
  <2>2. /\ s \in Socks /\ s.bind = x.so.bind /\ s.queue = NoQueue /\ s.open = x.so.open
        /\ s.arrived = x.so.arrived /\ s.failed = x.so.failed /\ s.thrown = x.so.thrown
        /\ s.opHeld = x.so.opHeld /\ s.refed = x.so.refed /\ s.reading = x.so.reading
        /\ s.fd = x.so.fd /\ s.receiving = x.so.receiving
    BY <2>1, StateTypes, ZenonT(40) DEF Socks
  <2> HIDE DEF s
  <2>3. a \in States /\ a.so = s /\ a.lookups = x.lookups /\ a.outcome = x.outcome
    BY <2>2, SetSo
  <2> HIDE DEF a
  <2>4. SockOK(s)
    BY <2>2 DEF SockOK
  <2>5. XOK(a)
    BY <2>2, <2>3, <2>4 DEF XOK, Dropped, Binding
  <2>6. QED BY <2>2, <2>3, <2>5 DEF Emptied, Onward
<1>w. a.waited = [queued |-> q, ran |-> <<>>]
  <2>1. s \in Socks
    <3>1. NoQueue \in Seq(DCalls)
      BY DEF NoQueue, DCalls
    <3>2. QED BY <3>1, StateTypes, ZenonT(40) DEF Socks
  <2> HIDE DEF s
  <2>2. a.waited = x.waited
    BY <2>1, SetSo
  <2>3. QED BY <2>2 DEF Ordered
<1> HIDE DEF a, q, n
<1>d. \A k \in 0..n : f[k] = IF k = 0 THEN a ELSE Entry(f[k - 1], q[k])
  BY <1>3 DEF RunsOf
<1>e. n = Len(q)
  BY DEF n
<1> DEFINE Part(y, k) == /\ Emptied(y, x) /\ y.waited.queued = q
                         /\ IF y.so.thrown THEN Prefix(y.waited.ran, q, Len(y.waited.ran))
                            ELSE Prefix(y.waited.ran, q, k)
           T == {k \in Nat : k <= n => Part(f[k], k)}
<1>5. 0 \in T
  <2>1. f[0] = a
    BY <1>1, <1>d
  <2>2. Len(<<>>) = 0 /\ 0 <= Len(q)
    BY <1>1, <1>e
  <2>3. Prefix(<<>>, q, 0)
    BY <2>2 DEF Prefix
  <2>4. Part(a, 0)
    BY <1>4, <1>w, <2>2, <2>3
  <2> HIDE DEF Part
  <2>5. QED BY <2>1, <2>4
<1>6. ASSUME NEW k \in T PROVE k + 1 \in T
  <2>1. CASE k + 1 <= n
    <3>a. k \in Nat /\ n \in Nat
      BY <1>1
    <3>1. k \in Nat /\ k + 1 \in 0..n /\ k + 1 \in 1..n /\ k + 1 # 0 /\ (k + 1) - 1 = k
      <4> HIDE DEF T
      <4>1. QED BY <2>1, <3>a
    <3>2. f[k + 1] = Entry(f[k], q[k + 1])
      <4> HIDE DEF T
      <4>1. QED BY <1>d, <3>1
    <3> DEFINE y == f[k]
               z == Entry(y, q[k + 1])
    <3>3. Part(y, k) /\ q[k + 1] \in DCalls
      <4> HIDE DEF Part
      <4>1. QED BY <1>1, <2>1, <3>1
    <3> HIDE DEF T, y
    <3>4. Emptied(z, x) /\ EntryWaits(z, y, q[k + 1])
      BY <3>3, EntryKeeps
    <3>y. Emptied(y, x) /\ y.waited \in DWaits /\ y.waited.queued = q
      BY <3>3, StateTypes DEF Emptied
    <3> HIDE DEF z
    <3>5. Part(z, k + 1)
      <4>1. CASE y.so.thrown \/ ~y.so.open
        <5>1. z.waited = y.waited /\ z.so.thrown
          BY <3>4, <4>1 DEF EntryWaits
        <5>2. Prefix(y.waited.ran, q, Len(y.waited.ran))
          BY <3>3 DEF Prefix
        <5>3. QED BY <3>4, <3>y, <5>1, <5>2
      <4>2. CASE ~(y.so.thrown \/ ~y.so.open)
        <5>1. z.waited = RanAlso(y, q[k + 1]) /\ ~z.so.thrown
          BY <3>4, <4>2 DEF EntryWaits
        <5>2. Prefix(y.waited.ran, q, k)
          BY <3>3, <4>2
        <5>3. Prefix(z.waited.ran, q, k + 1) /\ z.waited.queued = q
          BY <1>1, <1>e, <2>1, <3>a, <3>y, <5>1, <5>2, PrefixGrows, SMTT(20)
        <5>4. QED BY <3>4, <5>1, <5>3
      <4>3. QED BY <4>1, <4>2
    <3>6. f[k + 1] = z
      BY <3>2 DEF z, y
    <3> HIDE DEF Part
    <3>7. QED BY <3>1, <3>5, <3>6 DEF T
  <2>2. k + 1 \in Nat
    BY <1>6
  <2> HIDE DEF Part
  <2>3. QED BY <2>1, <2>2
<1>7. n \in T
  <2> HIDE DEF T
  <2>1. T \subseteq Nat
    BY DEF T
  <2>2. T = Nat
    BY <1>5, <1>6, <2>1, SetInduction
  <2>3. QED BY <1>1, <2>2
<1>8. Part(f[n], n)
  <2> HIDE DEF Part
  <2>1. QED BY <1>1, <1>7
<1>9. Ordered(f[n])
  <2> DEFINE y == f[n]
  <2>1. Part(y, n)
    BY <1>8
  <2>y. SUFFICES Ordered(y)
    OBVIOUS
  <2> HIDE DEF y
  <2>2. y.so.queue = NoQueue
    BY <2>1 DEF Emptied
  <2>q. y.waited.queued = q
    BY <2>1
  <2>3. CASE y.so.thrown
    <3>1. Prefix(y.waited.ran, q, Len(y.waited.ran))
      BY <2>1, <2>3
    <3> HIDE DEF Part
    <3>2. Prefix(y.waited.ran, y.waited.queued, Len(y.waited.ran))
      BY <2>q, <3>1
    <3> HIDE DEF q
    <3>3. QED BY <2>2, <2>3, <3>2, OrderedRun
  <2>4. CASE ~y.so.thrown
    <3>1. Prefix(y.waited.ran, q, n) /\ y.waited.queued = q
      BY <2>1, <2>4
    <3>2. Len(y.waited.ran) = n
      BY <3>1 DEF Prefix
    <3>4. Prefix(y.waited.ran, y.waited.queued, Len(y.waited.ran))
      BY <3>1, <3>2
    <3>5. Len(y.waited.ran) = Len(y.waited.queued)
      BY <1>e, <3>1, <3>2
    <3> HIDE DEF Part
    <3>3. QED BY <2>2, <3>4, <3>5, OrderedRun
  <2>5. QED BY <2>3, <2>4
<1>10. QED BY <1>2, <1>8, <1>9 DEF Emptied

LEMMA ListeningKeeps ==
  ASSUME NEW x \in States, SockOK(x.so), Dropped(x), x.so.open, <<"bind">> \notin x.lookups,
         Ordered(x)
  PROVE  Listening(x) \in States /\ XOK(Listening(x)) /\ Onward(Listening(x), x)
         /\ Ordered(Listening(x))
<1> DEFINE s == [x.so EXCEPT !.fd = TRUE, !.reading = TRUE, !.receiving = TRUE, !.bind = "bound"]
           u == DUpdateOp(s)
           l == [x EXCEPT !.so = u]
<1>1. Listening(x) = IF l.so.queue = NoQueue THEN l ELSE ClearQueue(l)
  BY DEF Listening
<1>2. /\ s \in Socks /\ s.bind = "bound" /\ s.queue = x.so.queue /\ s.open = x.so.open
      /\ s.arrived = x.so.arrived /\ s.failed = x.so.failed /\ s.thrown = x.so.thrown
      /\ s.fd /\ s.reading /\ s.receiving
  <2>1. x.so \in Socks
    BY StateTypes
  <2>2. QED BY <2>1 DEF Socks
<1> HIDE DEF s
<1>3. /\ u \in Socks /\ u.bind = s.bind /\ u.queue = s.queue /\ u.open = s.open
      /\ u.arrived = s.arrived /\ u.failed = s.failed /\ u.thrown = s.thrown
      /\ u.refed = s.refed /\ u.reading = s.reading /\ u.fd = s.fd /\ u.receiving = s.receiving
      /\ u.opHeld = (s.refed /\ s.reading /\ s.open /\ s.fd)
  BY <1>2, UpdateOpTypes
<1> HIDE DEF u
<1>4. l \in States /\ l.so = u /\ l.lookups = x.lookups /\ l.outcome = x.outcome
      /\ l.waited = x.waited
  BY <1>3, SetSo
<1> HIDE DEF l
<1>o. Ordered(l)
  BY <1>2, <1>3, <1>4, SameOrdered DEF Same
<1>5. SockOK(u)
  BY <1>2, <1>3 DEF SockOK
<1>6. Dropped(l) /\ Onward(l, x)
  BY <1>2, <1>3, <1>4 DEF Dropped, Onward
<1>7. CASE l.so.queue = NoQueue
  BY <1>1, <1>2, <1>3, <1>4, <1>5, <1>6, <1>7, <1>o DEF XOK, Binding
<1>8. CASE l.so.queue # NoQueue
  <2>1. ClearQueue(l) \in States /\ XOK(ClearQueue(l)) /\ Onward(ClearQueue(l), l)
        /\ Ordered(ClearQueue(l))
    BY <1>2, <1>3, <1>4, <1>5, <1>6, <1>8, <1>o, ClearQueueKeeps
  <2>2. QED BY <1>1, <1>6, <1>8, <2>1 DEF Onward
<1>9. QED BY <1>7, <1>8

LEMMA BindFailsKeeps ==
  ASSUME NEW x \in States, SockOK(x.so), Dropped(x), x.so.open, x.so.bind = "binding",
         <<"bind">> \notin x.lookups
  PROVE  BindFails(x) \in States /\ XOK(BindFails(x)) /\ Onward(BindFails(x), x)
         /\ Ordered(BindFails(x))
<1> DEFINE lost == {x.so.queue[k][2] : k \in {j \in DOMAIN x.so.queue : x.so.queue[j][1] = "send"}}
           s == [x.so EXCEPT !.bind = "unbound", !.queue = NoQueue, !.failed = TRUE]
           o == [i \in Sends |-> IF i \in lost THEN "dropped" ELSE x.outcome[i]]
           z == [x EXCEPT !.so = s]
           v == [z EXCEPT !.waited = NoneWaited]
           w == [v EXCEPT !.outcome = o]
<1>1. BindFails(x) = w
  BY DEF BindFails
<1>n. NoneWaited \in DWaits /\ NoneWaited.ran = <<>> /\ NoneWaited.queued = <<>>
  <2>1. <<>> \in Seq(DCalls)
    OBVIOUS
  <2>2. QED BY <2>1 DEF NoneWaited, DWaits
<1>2. o \in [Sends -> {"none", "pending", "dropped", "sent", "failed"}]
  BY StateTypes
<1> HIDE DEF o
<1>3. NoQueue \in Seq(DCalls)
  BY DEF NoQueue, DCalls
<1>4. /\ s \in Socks /\ s.bind = "unbound" /\ s.queue = NoQueue /\ s.open = x.so.open
      /\ s.arrived = x.so.arrived /\ s.failed /\ s.thrown = x.so.thrown
      /\ s.opHeld = x.so.opHeld /\ s.refed = x.so.refed /\ s.reading = x.so.reading
      /\ s.fd = x.so.fd /\ s.receiving = x.so.receiving
  <2>1. x.so \in Socks
    BY StateTypes
  <2>2. QED BY <1>3, <2>1 DEF Socks
<1> HIDE DEF s
<1>5. z \in States /\ z.so = s /\ z.lookups = x.lookups
  BY <1>4, SetSo
<1> HIDE DEF z
<1>v. v \in States /\ v.so = s /\ v.lookups = x.lookups /\ v.waited = NoneWaited
  BY <1>5, <1>n, SetWaited
<1> HIDE DEF v
<1>6. w \in States /\ w.so = s /\ w.lookups = x.lookups /\ w.waited = NoneWaited
  BY <1>2, <1>v, SetOutcome
<1> HIDE DEF w
<1>7. SockOK(s)
  BY <1>4 DEF SockOK
<1>9. Ordered(w)
  <2>1. Len(<<>>) = 0
    OBVIOUS
  <2>2. Prefix(<<>>, <<>>, 0)
    BY <2>1 DEF Prefix
  <2>3. QED BY <1>4, <1>6, <1>n, <2>1, <2>2 DEF Ordered
<1>8. QED BY <1>1, <1>4, <1>6, <1>7, <1>9 DEF XOK, Dropped, Binding, Onward

-----------------------------------------------------------------------------
\* A change of what the invariant does not read.
LEMMA SockChange ==
  ASSUME NEW x \in States, XOK(x), NEW s \in Socks,
         s.bind = x.so.bind, s.queue = x.so.queue, s.open = x.so.open, s.arrived = x.so.arrived,
         s.failed = x.so.failed, s.thrown = x.so.thrown, s.opHeld = x.so.opHeld,
         s.refed = x.so.refed, s.reading = x.so.reading, s.fd = x.so.fd,
         s.receiving = x.so.receiving
  PROVE  LET y == [x EXCEPT !.so = s] IN
         y \in States /\ XOK(y) /\ Onward(y, x) /\ y.so = s /\ y.lookups = x.lookups
         /\ y.outcome = x.outcome /\ Same(y, x)
<1> DEFINE y == [x EXCEPT !.so = s]
<1>1. y \in States /\ y.so = s /\ y.lookups = x.lookups /\ y.outcome = x.outcome
      /\ y.waited = x.waited
  BY SetSo
<1> HIDE DEF y
<1>2. SockOK(s)
  BY DEF XOK, SockOK
<1>3. XOK(y) /\ Onward(y, x) /\ Same(y, x)
  BY <1>1, <1>2 DEF XOK, Dropped, Binding, Onward, Same
<1>4. QED BY <1>1, <1>3 DEF y

\* heard, the macrotasks, what the goroutine has in hand and what is at the
\* socket are the datagrams that have arrived, in their order; what was not
\* heard because of close() is the gap after heard.
Numbered(u, base) == \A k \in 1..Len(u) : u[k] = base + k
Held == IF recv.pc = "hold" THEN 1 ELSE 0
OrderFrom(base) ==
  /\ so.open => base = Len(heard)
  /\ Numbered(dtasks, base)
  /\ recv.pc = "hold" => recv.hand = base + Len(dtasks) + 1
  /\ Numbered(net, base + Len(dtasks) + Held)
  /\ so.arrived = base + Len(dtasks) + Held + Len(net)
OrderOK ==
  /\ Numbered(heard, 0)
  /\ recv.pc # "hold" => recv.hand = 0
  /\ \E base \in Nat : OrderFrom(base)
RecvTypes ==
  /\ recv \in [pc : {"none", "wait", "read", "hold", "done"}, hand : Nat]
  /\ net \in Seq(Nat) /\ dtasks \in Seq(Nat) /\ heard \in Seq(Nat)
DgramInv == State \in States /\ XOK(State) /\ Ordered(State) /\ RecvTypes /\ OrderOK

LEMMA DgramInit == ASSUME DInit PROVE DgramInv
<1>1. NoQueue \in Seq(DCalls) /\ <<>> \in Seq(DTicks) /\ <<>> \in Seq(Nat)
  BY EmptySeq DEF NoQueue, DCalls
<1>2. so \in Socks
  BY <1>1 DEF DInit, Socks
<1>w. waited \in DWaits /\ waited.ran = <<>> /\ waited.queued = <<>>
  <2>1. <<>> \in Seq(DCalls)
    OBVIOUS
  <2>2. QED BY <2>1 DEF DInit, NoneWaited, DWaits
<1>3. State \in States
  BY <1>2, <1>w DEF DInit, State, States
<1>o. Ordered(State)
  <2>1. Len(<<>>) = 0
    OBVIOUS
  <2>2. Prefix(<<>>, <<>>, 0)
    BY <2>1 DEF Prefix
  <2>3. so.queue = NoQueue
    BY DEF DInit
  <2>4. QED BY <1>w, <2>1, <2>2, <2>3 DEF Ordered, State
<1>4. XOK(State)
  BY DEF DInit, State, XOK, SockOK, Dropped, Binding
<1>5. RecvTypes
  BY <1>1 DEF DInit, RecvTypes
<1>6. OrderFrom(0)
  BY DEF DInit, OrderFrom, Numbered, Held
<1>7. OrderOK
  BY <1>6 DEF DInit, OrderOK, Numbered
<1>8. QED BY <1>3, <1>4, <1>5, <1>7, <1>o DEF DgramInv

LEMMA StateFields ==
  State.so = so /\ State.lookups = lookups /\ State.outcome = outcome /\ State.waited = waited
BY DEF State

\* A step of JavaScript leaves the datagrams where they are.
LEMMA CallStep ==
  ASSUME DgramInv, NEW y \in States, XOK(y), Ordered(y), Onward(y, State), DBecomes(y),
         UNCHANGED <<net, dtasks, heard, failures>>,
         recv' = recv \/ (recv.pc = "none" /\ recv' = [recv EXCEPT !.pc = "wait"])
  PROVE  DgramInv' /\ SilentAfterClose
<1>1. State' = y
  BY DEF DBecomes, State, States
<1>2. State' \in States /\ XOK(State)' /\ Ordered(State)'
  BY <1>1
<1>3. so'.arrived = so.arrived /\ (so'.open => so.open)
  BY StateFields DEF Onward, DBecomes
<1>4. RecvTypes'
  BY DEF DgramInv, RecvTypes
<1>5. /\ recv'.hand = recv.hand /\ (recv'.pc = "hold" <=> recv.pc = "hold")
  BY DEF DgramInv, RecvTypes
<1>6. OrderOK'
  <2>1. PICK base \in Nat : OrderFrom(base)
    BY DEF DgramInv, OrderOK
  <2>2. OrderFrom(base)'
    BY <1>3, <1>5, <2>1 DEF OrderFrom, Held, Numbered
  <2>3. QED BY <1>5, <2>2 DEF OrderOK, Numbered, DgramInv
<1>7. QED BY <1>2, <1>4, <1>6 DEF DgramInv, SilentAfterClose

LEMMA UserStep ==
  ASSUME DgramInv,
         \/ UserBind \/ UserConnect \/ UserDisconnect \/ UserClose
         \/ \E to \in BOOLEAN : UserRef(to)
         \/ \E i \in Sends : UserSend(i)
  PROVE  DgramInv' /\ SilentAfterClose
<1> DEFINE Goal == DgramInv' /\ SilentAfterClose
<1>s. State \in States /\ XOK(State) /\ Ordered(State) /\ so \in Socks /\ State.so = so
  BY StateFields, StateTypes DEF DgramInv
<1>c. ASSUME NEW y \in States, XOK(y), Ordered(y), Onward(y, State), DBecomes(y), Rest PROVE Goal
  BY <1>c, CallStep DEF Rest
<1>1. CASE UserBind
  <2>1. Bound(State) \in States /\ XOK(Bound(State)) /\ Onward(Bound(State), State)
        /\ Ordered(Bound(State))
    BY <1>s, BoundKeeps, SameOrdered
  <2>2. DBecomes(Bound(State)) /\ Rest
    BY <1>s, <1>1 DEF UserBind, Bound
  <2>3. QED BY <2>1, <2>2, <1>c
<1>2. CASE UserConnect
  <2> DEFINE s == [so EXCEPT !.conn = "connecting"]
             x == [State EXCEPT !.so = s]
             b == Bound(x)
  <2>1. /\ s \in Socks /\ s.bind = so.bind /\ s.queue = so.queue /\ s.open = so.open
        /\ s.arrived = so.arrived /\ s.failed = so.failed /\ s.thrown = so.thrown
        /\ s.opHeld = so.opHeld /\ s.refed = so.refed /\ s.reading = so.reading
        /\ s.fd = so.fd /\ s.receiving = so.receiving
    BY <1>s, SMTT(20) DEF Socks
  <2>2. [State EXCEPT !.so.conn = "connecting"] = x
    BY <1>s
  <2>3. Rest /\ DBecomes(Connect(State))
    BY <1>2 DEF UserConnect
  <2>c. Connect(State) =
          CASE ~so.open /\ so.bind # "binding" -> x
            [] (so.open \/ so.bind = "binding") /\ b.so.bind # "bound" -> Enqueue(b, <<"connect">>)
            [] OTHER -> LookUp(b, <<"connect">>)
    BY <1>s, <2>2 DEF Connect
  <2> HIDE DEF s
  <2>4. x \in States /\ XOK(x) /\ Onward(x, State) /\ x.so = s /\ Ordered(x)
    BY <1>s, <2>1, SockChange, SameOrdered
  <2> HIDE DEF x
  <2>5. /\ b \in States /\ XOK(b) /\ Onward(b, x) /\ b.so.bind # "unbound" /\ Ordered(b)
        /\ b.so.bind = (IF so.bind = "unbound" THEN "binding" ELSE so.bind)
    BY <2>1, <2>4, BoundKeeps, SameOrdered
  <2> HIDE DEF b
  <2>6. CASE ~so.open /\ so.bind # "binding"
    <3>1. DBecomes(x)
      BY <2>3, <2>6, <2>c
    <3>2. QED BY <2>3, <2>4, <3>1, <1>c
  <2>7. CASE (so.open \/ so.bind = "binding") /\ b.so.bind # "bound"
    <3>1. b.so.bind = "binding"
      BY <2>5, <2>7, StateTypes DEF Socks
    <3> DEFINE y == Enqueue(b, <<"connect">>)
    <3>2. y \in States /\ XOK(y) /\ Onward(y, b) /\ Ordered(y)
      BY <2>5, <3>1, EnqueueKeeps, ConnectIsCall
    <3>3. DBecomes(y)
      BY <2>3, <2>7, <2>c
    <3> HIDE DEF y
    <3>4. Onward(y, State)
      BY <2>4, <2>5, <3>2 DEF Onward
    <3>5. QED BY <2>3, <3>2, <3>3, <3>4, <1>c
  <2>8. CASE so.open /\ b.so.bind = "bound"
    <3> DEFINE y == LookUp(b, <<"connect">>)
    <3>2. y \in States /\ XOK(y) /\ Onward(y, b) /\ Ordered(y)
      BY <2>5, LookUpKeeps, ConnectIsCall, SameOrdered
    <3>3. DBecomes(y)
      BY <2>3, <2>8, <2>c
    <3> HIDE DEF y
    <3>4. Onward(y, State)
      BY <2>4, <2>5, <3>2 DEF Onward
    <3>5. QED BY <2>3, <3>2, <3>3, <3>4, <1>c
  <2>9. so.bind = "binding" => b.so.bind # "bound"
    BY <2>5
  <2>10. QED BY <2>6, <2>7, <2>8, <2>9
<1>3. CASE UserDisconnect
  <2> DEFINE s == [so EXCEPT !.conn = "disconnected"]
             y == [State EXCEPT !.so = s]
  <2>1. /\ s \in Socks /\ s.bind = so.bind /\ s.queue = so.queue /\ s.open = so.open
        /\ s.arrived = so.arrived /\ s.failed = so.failed /\ s.thrown = so.thrown
        /\ s.opHeld = so.opHeld /\ s.refed = so.refed /\ s.reading = so.reading
        /\ s.fd = so.fd /\ s.receiving = so.receiving
    BY <1>s, SMTT(20) DEF Socks
  <2>2. [State EXCEPT !.so.conn = "disconnected"] = y
    BY <1>s
  <2>3. Rest /\ DBecomes(y)
    BY <1>3, <2>2 DEF UserDisconnect
  <2> HIDE DEF s
  <2>4. y \in States /\ XOK(y) /\ Onward(y, State) /\ Ordered(y)
    BY <1>s, <2>1, SockChange, SameOrdered
  <2> HIDE DEF y
  <2>5. QED BY <2>3, <2>4, <1>c
<1>4. CASE UserClose
  <2>1. Close(State) \in States /\ XOK(Close(State)) /\ Onward(Close(State), State)
        /\ Ordered(Close(State))
    BY <1>s, <1>4, CloseKeeps
  <2>2. DBecomes(Close(State)) /\ Rest
    BY <1>4 DEF UserClose
  <2>3. QED BY <2>1, <2>2, <1>c
<1>5. ASSUME NEW to \in BOOLEAN, UserRef(to) PROVE Goal
  <2> DEFINE s == [so EXCEPT !.refed = to]
             u == DUpdateOp(s)
             y == [State EXCEPT !.so = u]
  <2>1. /\ s \in Socks /\ s.bind = so.bind /\ s.queue = so.queue /\ s.open = so.open
        /\ s.arrived = so.arrived /\ s.failed = so.failed /\ s.thrown = so.thrown
        /\ s.reading = so.reading /\ s.fd = so.fd /\ s.receiving = so.receiving
    BY <1>s DEF Socks
  <2>2. Rest /\ DBecomes(y)
    BY <1>s, <1>5 DEF UserRef
  <2> HIDE DEF s
  <2>3. /\ u \in Socks /\ u.bind = s.bind /\ u.queue = s.queue
        /\ u.open = s.open /\ u.arrived = s.arrived /\ u.failed = s.failed /\ u.thrown = s.thrown
        /\ u.refed = s.refed /\ u.reading = s.reading /\ u.fd = s.fd /\ u.receiving = s.receiving
        /\ u.opHeld = (s.refed /\ s.reading /\ s.open /\ s.fd)
    BY <2>1, UpdateOpTypes
  <2> HIDE DEF u
  <2>4. SockOK(u)
    BY <1>s, <2>1, <2>3 DEF XOK, SockOK
  <2>5. y \in States /\ y.so = u /\ y.lookups = State.lookups /\ y.outcome = State.outcome
        /\ y.waited = State.waited
    BY <1>s, <2>3, SetSo
  <2> HIDE DEF y
  <2>o. Ordered(y)
    BY <1>s, <2>1, <2>3, <2>5, SameOrdered DEF Same
  <2>6. XOK(y) /\ Onward(y, State) /\ Ordered(y)
    BY <1>s, <2>1, <2>3, <2>4, <2>5, <2>o DEF XOK, Dropped, Binding, Onward
  <2>7. QED BY <2>2, <2>5, <2>6, <1>c
<1>6. ASSUME NEW i \in Sends, UserSend(i) PROVE Goal
  <2> DEFINE o == [outcome EXCEPT ![i] = "pending"]
             x == [State EXCEPT !.outcome = o]
  <2>1. o \in [Sends -> {"none", "pending", "dropped", "sent", "failed"}]
    BY <1>s, StateTypes, StateFields
  <2>2. [State EXCEPT !.outcome[i] = "pending"] = x
    BY StateFields
  <2>3. PICK ok \in BOOLEAN : DBecomes(DSend(x, i, ok))
    BY <1>6, <2>2 DEF UserSend
  <2>4. so.open /\ Rest
    BY <1>6 DEF UserSend
  <2>o. \A k \in Sends : o[k] = "dropped" => outcome[k] = "dropped"
    BY <1>s, StateTypes, StateFields
  <2> HIDE DEF o
  <2>5. x \in States /\ x.so = so /\ x.lookups = State.lookups /\ x.outcome = o
        /\ x.waited = State.waited
    BY <1>s, <2>1, SetOutcome
  <2> HIDE DEF x
  <2>6. XOK(x)
    BY <1>s, <2>5, <2>o, StateFields DEF XOK, Dropped, Binding
  <2>x. Ordered(x)
    BY <1>s, <2>5, SameOrdered DEF Same
  <2> DEFINE y == DSend(x, i, ok)
  <2>7. y \in States /\ XOK(y) /\ Onward(y, x) /\ Ordered(y)
    BY <2>4, <2>5, <2>6, <2>x, DSendKeeps
  <2>8. DBecomes(y)
    BY <2>3
  <2> HIDE DEF y
  <2>9. Onward(y, State)
    BY <1>s, <2>5, <2>7 DEF Onward
  <2>10. QED BY <2>4, <2>7, <2>8, <2>9, <1>c
<1>7. QED BY <1>1, <1>2, <1>3, <1>4, <1>5, <1>6

\* A lookup answers.
LEMMA LookedUpStep ==
  ASSUME DgramInv, NEW op \in lookups, LookedUp(op) PROVE DgramInv' /\ SilentAfterClose
<1> DEFINE Goal == DgramInv' /\ SilentAfterClose
           l == lookups \ {op}
           x == [State EXCEPT !.lookups = l]
<1>s. State \in States /\ XOK(State) /\ so \in Socks /\ State.so = so /\ State.outcome = outcome
      /\ lookups \in SUBSET DLookups /\ State.lookups = lookups /\ Ordered(State)
  BY StateFields, StateTypes DEF DgramInv
<1>x. [State EXCEPT !.lookups = @ \ {op}] = x
  BY <1>s
<1>u. UNCHANGED <<net, dtasks, heard, failures>>
  BY DEF LookedUp
<1>1. x \in States /\ x.so = so /\ x.lookups = l /\ x.outcome = outcome
      /\ x.waited = State.waited
  <2>1. l \in SUBSET DLookups
    BY <1>s
  <2> HIDE DEF l
  <2>2. QED BY <1>s, <2>1, SetLookups
<1>2. SockOK(x.so) /\ Dropped(x)
  BY <1>s, <1>1 DEF XOK, Dropped
<1>o. Ordered(x)
  BY <1>s, <1>1, SameOrdered DEF Same
<1>3. (op[1] = "bind" <=> op = <<"bind">>) /\ (op[1] = "send" => op[2] \in Sends)
      /\ (op[1] = "bind" \/ op[1] = "connect" \/ op[1] = "send")
  BY <1>s DEF DLookups
<1>4. ASSUME op[1] # "bind" \/ ~so.open PROVE XOK(x)
  BY <1>s, <1>1, <1>2, <1>3, <1>4 DEF XOK, Binding
<1>5. CASE op[1] = "bind"
  <2>1. PICK ok \in BOOLEAN :
          /\ DBecomes(IF ~so.open THEN x ELSE IF ok THEN Listening(x) ELSE BindFails(x))
          /\ recv' = IF so.open /\ ok /\ recv.pc = "none" THEN [recv EXCEPT !.pc = "wait"] ELSE recv
    BY <1>5, <1>x DEF LookedUp
  <2> HIDE DEF x
  <2>r. recv' = recv \/ (recv.pc = "none" /\ recv' = [recv EXCEPT !.pc = "wait"])
    BY <2>1
  <2>2. CASE ~so.open
    <3>1. XOK(x) /\ Onward(x, State) /\ DBecomes(x)
      BY <1>1, <1>4, <1>s, <2>1, <2>2 DEF Onward
    <3>2. QED BY <1>1, <1>o, <1>u, <2>r, <3>1, CallStep
  <2>3. CASE so.open
    <3>1. <<"bind">> \notin x.lookups
      BY <1>1, <1>3, <1>5
    <3>2. CASE ok
      <4> DEFINE y == Listening(x)
      <4>1. y \in States /\ XOK(y) /\ Onward(y, x) /\ Ordered(y)
        BY <1>1, <1>2, <2>3, <3>1, <1>o, ListeningKeeps
      <4>2. DBecomes(y)
        BY <2>1, <2>3, <3>2
      <4> HIDE DEF y
      <4>3. Onward(y, State)
        BY <1>1, <1>s, <4>1 DEF Onward
      <4>4. QED BY <1>u, <2>r, <4>1, <4>2, <4>3, CallStep
    <3>3. CASE ~ok
      <4> DEFINE y == BindFails(x)
      <4>0. x.so.bind = "binding"
        BY <1>1, <1>3, <1>5, <1>s, <2>3 DEF XOK, Binding
      <4>1. y \in States /\ XOK(y) /\ Onward(y, x) /\ Ordered(y)
        BY <1>1, <1>2, <2>3, <3>1, <4>0, <1>o, BindFailsKeeps
      <4>2. DBecomes(y)
        BY <2>1, <2>3, <3>3
      <4> HIDE DEF y
      <4>3. Onward(y, State)
        BY <1>1, <1>s, <4>1 DEF Onward
      <4>4. QED BY <1>u, <2>r, <4>1, <4>2, <4>3, CallStep
    <3>4. QED BY <3>2, <3>3
  <2>4. QED BY <2>2, <2>3
<1>6. CASE op[1] = "connect"
  <2>0. recv' = recv
    BY <1>6 DEF LookedUp
  <2>1. PICK ok \in BOOLEAN :
          DBecomes(IF ~so.open THEN x
                   ELSE IF ok THEN [x EXCEPT !.so = DTick([@ EXCEPT !.conn = "connected"], <<"connect">>)]
                   ELSE [x EXCEPT !.so = DTick([@ EXCEPT !.conn = "disconnected"], <<"error">>)])
    BY <1>6, <1>x DEF LookedUp
  <2> HIDE DEF x
  <2>2. XOK(x) /\ Onward(x, State)
    BY <1>1, <1>4, <1>6, <1>s DEF Onward
  <2>3. ASSUME NEW c \in {"connected", "disconnected"}, NEW t \in DTicks,
               DBecomes([x EXCEPT !.so = DTick([x.so EXCEPT !.conn = c], t)])
        PROVE  Goal
    <3> DEFINE r == [x.so EXCEPT !.conn = c]
               u == DTick(r, t)
               y == [x EXCEPT !.so = u]
    <3>1. /\ r \in Socks /\ r.bind = so.bind /\ r.queue = so.queue /\ r.open = so.open
          /\ r.arrived = so.arrived /\ r.failed = so.failed /\ r.thrown = so.thrown
          /\ r.opHeld = so.opHeld /\ r.refed = so.refed /\ r.reading = so.reading
          /\ r.fd = so.fd /\ r.receiving = so.receiving
      BY <1>s, <1>1 DEF Socks
    <3>d. DBecomes(y)
      BY <2>3
    <3> HIDE DEF r
    <3>2. SockOK(r)
      BY <1>s, <3>1 DEF XOK, SockOK
    <3>3. /\ u \in Socks /\ u.bind = r.bind /\ u.queue = r.queue /\ u.open = r.open
          /\ u.arrived = r.arrived /\ u.failed = r.failed /\ u.thrown = r.thrown /\ SockOK(u)
      BY <3>1, <3>2, TickKeepsSock
    <3> HIDE DEF u
    <3>4. y \in States /\ y.so = u /\ y.lookups = x.lookups /\ y.outcome = x.outcome
          /\ y.waited = x.waited
      BY <1>1, <3>3, SetSo
    <3> HIDE DEF y
    <3>o. Ordered(y)
      BY <1>o, <1>1, <3>1, <3>3, <3>4, SameOrdered DEF Same
    <3>5. XOK(y) /\ Onward(y, State) /\ Ordered(y)
      BY <1>s, <1>1, <2>2, <3>1, <3>3, <3>4, <3>o DEF XOK, Dropped, Binding, Onward
    <3>6. QED BY <1>u, <2>0, <3>d, <3>4, <3>5, CallStep
  <2>4. CASE ~so.open
    BY <1>1, <1>o, <1>u, <2>0, <2>1, <2>2, <2>4, CallStep
  <2>5. CASE so.open /\ ok
    BY <2>1, <2>3, <2>5, ConnectIsCall
  <2>6. CASE so.open /\ ~ok
    BY <2>1, <2>3, <2>6, ConnectIsCall
  <2>7. QED BY <2>4, <2>5, <2>6
<1>7. CASE op[1] = "send"
  <2>0. recv' = recv
    BY <1>7 DEF LookedUp
  <2>1. PICK ok \in BOOLEAN :
          DBecomes(IF ok THEN DoSend(x, op[2], TRUE)
                   ELSE [x EXCEPT !.so = DTick(@, <<"failed", op[2]>>)])
    BY <1>7, <1>x DEF LookedUp
  <2> HIDE DEF x
  <2>2. XOK(x) /\ Onward(x, State) /\ op[2] \in Sends
    BY <1>1, <1>3, <1>4, <1>7, <1>s DEF Onward
  <2>3. CASE ok
    <3> DEFINE y == DoSend(x, op[2], TRUE)
    <3>1. y \in States /\ XOK(y) /\ Onward(y, x) /\ Ordered(y)
      BY <1>1, <1>o, <2>2, DoSendKeeps, SameOrdered
    <3>2. DBecomes(y)
      BY <2>1, <2>3
    <3> HIDE DEF y
    <3>3. Onward(y, State)
      BY <2>2, <3>1 DEF Onward
    <3>4. QED BY <1>u, <2>0, <3>1, <3>2, <3>3, CallStep
  <2>4. CASE ~ok
    <3> DEFINE t == <<"failed", op[2]>>
               u == DTick(x.so, t)
               y == [x EXCEPT !.so = u]
    <3>d. DBecomes(y)
      BY <2>1, <2>4
    <3>1. t \in DTicks
      BY <2>2, SendIsCall
    <3> HIDE DEF t
    <3>3. /\ u \in Socks /\ u.bind = x.so.bind /\ u.queue = x.so.queue /\ u.open = x.so.open
          /\ u.arrived = x.so.arrived /\ u.failed = x.so.failed /\ u.thrown = x.so.thrown /\ SockOK(u)
      BY <1>1, <1>2, <1>s, <3>1, TickKeepsSock
    <3> HIDE DEF u
    <3>4. y \in States /\ y.so = u /\ y.lookups = x.lookups /\ y.outcome = x.outcome
          /\ y.waited = x.waited
      BY <1>1, <3>3, SetSo
    <3> HIDE DEF y
    <3>o. Ordered(y)
      BY <1>o, <3>3, <3>4, SameOrdered DEF Same
    <3>5. XOK(y) /\ Onward(y, State) /\ Ordered(y)
      BY <2>2, <3>3, <3>4, <3>o DEF XOK, Dropped, Binding, Onward
    <3>6. QED BY <1>u, <2>0, <3>d, <3>4, <3>5, CallStep
  <2>5. QED BY <2>3, <2>4
<1>8. QED BY <1>3, <1>5, <1>6, <1>7

LEMMA NextTickStep == ASSUME DgramInv, NextTick PROVE DgramInv' /\ SilentAfterClose
<1> DEFINE t == Head(so.ticks)
           s == [so EXCEPT !.ticks = Tail(so.ticks)]
           x == [State EXCEPT !.so = s]
<1>s. State \in States /\ XOK(State) /\ so \in Socks /\ State.so = so /\ State.outcome = outcome
      /\ outcome \in [Sends -> {"none", "pending", "dropped", "sent", "failed"}] /\ Ordered(State)
  BY StateFields, StateTypes DEF DgramInv
<1>1. /\ Rest
      /\ DBecomes(CASE t[1] \in {"sent", "failed"} -> [x EXCEPT !.outcome[t[2]] = t[1]]
                    [] t[1] = "close" -> [x EXCEPT !.so.closed = @ + 1]
                    [] OTHER -> x)
  <2>1. [State EXCEPT !.so.ticks = Tail(@)] = x
    BY <1>s
  <2>2. QED BY <2>1 DEF NextTick
<1>2. t \in DTicks /\ Tail(so.ticks) \in Seq(DTicks)
  <2>1. so.ticks \in Seq(DTicks) /\ so.ticks # <<>>
    BY <1>s DEF Socks, NextTick
  <2>2. QED BY <2>1
<1>3. /\ s \in Socks /\ s.bind = so.bind /\ s.queue = so.queue /\ s.open = so.open
      /\ s.arrived = so.arrived /\ s.failed = so.failed /\ s.thrown = so.thrown
      /\ s.opHeld = so.opHeld /\ s.refed = so.refed /\ s.reading = so.reading
      /\ s.fd = so.fd /\ s.receiving = so.receiving
  BY <1>s, <1>2 DEF Socks
<1> HIDE DEF t, s
<1>4. x \in States /\ XOK(x) /\ Onward(x, State) /\ x.so = s /\ x.outcome = outcome
      /\ x.lookups = State.lookups /\ Ordered(x)
  BY <1>s, <1>3, SockChange, SameOrdered
<1> HIDE DEF x
<1>5. CASE t[1] \in {"sent", "failed"}
  <2> DEFINE o == [outcome EXCEPT ![t[2]] = t[1]]
             y == [x EXCEPT !.outcome = o]
  <2>1. [x EXCEPT !.outcome[t[2]] = t[1]] = y
    BY <1>4
  <2>2. DBecomes(y)
    BY <1>1, <1>5, <2>1
  <2>3. o \in [Sends -> {"none", "pending", "dropped", "sent", "failed"}]
    BY <1>s, <1>5
  <2>4. \A k \in Sends : o[k] = "dropped" => outcome[k] = "dropped"
    BY <1>s, <1>5
  <2> HIDE DEF o
  <2>5. y \in States /\ y.so = s /\ y.lookups = x.lookups /\ y.outcome = o /\ y.waited = x.waited
    BY <1>4, <2>3, SetOutcome
  <2> HIDE DEF y
  <2>o. Ordered(y)
    BY <1>4, <2>5, SameOrdered DEF Same
  <2>6. XOK(y) /\ Onward(y, State) /\ Ordered(y)
    BY <1>4, <2>4, <2>5, <2>o DEF XOK, Dropped, Binding, Onward
  <2>7. QED BY <1>1, <2>2, <2>5, <2>6, CallStep DEF Rest
<1>6. CASE t[1] = "close"
  <2> DEFINE n == s.closed + 1
             r == [s EXCEPT !.closed = n]
             y == [x EXCEPT !.so = r]
  <2>1. [x EXCEPT !.so.closed = @ + 1] = y
    BY <1>4
  <2>2. DBecomes(y)
    BY <1>1, <1>6, <2>1
  <2>3. n \in Nat
    BY <1>3 DEF Socks
  <2> HIDE DEF n
  <2>4. /\ r \in Socks /\ r.bind = s.bind /\ r.queue = s.queue /\ r.open = s.open
        /\ r.arrived = s.arrived /\ r.failed = s.failed /\ r.thrown = s.thrown
        /\ r.opHeld = s.opHeld /\ r.refed = s.refed /\ r.reading = s.reading
        /\ r.fd = s.fd /\ r.receiving = s.receiving
    BY <1>3, <2>3 DEF Socks
  <2> HIDE DEF r
  <2>5. y \in States /\ XOK(y) /\ Onward(y, x) /\ Ordered(y)
    BY <1>4, <2>4, SockChange, SameOrdered
  <2> HIDE DEF y
  <2>6. Onward(y, State)
    BY <1>4, <2>5 DEF Onward
  <2>7. QED BY <1>1, <2>2, <2>5, <2>6, CallStep DEF Rest
<1>7. CASE t[1] \notin {"sent", "failed"} /\ t[1] # "close"
  <2>1. DBecomes(x)
    BY <1>1, <1>7
  <2>2. QED BY <1>1, <1>4, <2>1, CallStep DEF Rest
<1>8. QED BY <1>5, <1>6, <1>7

\* The goroutine takes a step.
LEMMA RecvStep ==
  ASSUME DgramInv,
         DatagramArrives \/ RecvWaits \/ RecvReads \/ RecvFails \/ RecvHands \/ Message \/ FailureTold
  PROVE  DgramInv' /\ SilentAfterClose
<1>s. /\ State \in States /\ XOK(State) /\ Ordered(State) /\ so \in Socks /\ RecvTypes
      /\ Numbered(heard, 0) /\ (recv.pc # "hold" => recv.hand = 0)
  BY StateFields, StateTypes DEF DgramInv, OrderOK
<1>t. /\ Len(net) \in Nat /\ Len(dtasks) \in Nat /\ Len(heard) \in Nat /\ so.arrived \in Nat
      /\ recv \in [pc : {"none", "wait", "read", "hold", "done"}, hand : Nat]
  BY <1>s DEF RecvTypes, Socks
<1>o. PICK base \in Nat : OrderFrom(base)
  BY DEF DgramInv, OrderOK
<1>1. CASE DatagramArrives
  <2> DEFINE n == so.arrived + 1
             s == [so EXCEPT !.arrived = n]
  <2>1. /\ so.open /\ so' = s /\ net' = Append(net, n)
        /\ UNCHANGED <<lookups, recv, dtasks, heard, outcome, waited, failures>>
    BY <1>1 DEF DatagramArrives
  <2>2. n \in Nat
    BY <1>t
  <2>3. /\ s \in Socks /\ s.bind = so.bind /\ s.queue = so.queue /\ s.open = so.open
        /\ s.arrived = n /\ s.failed = so.failed /\ s.thrown = so.thrown
        /\ s.opHeld = so.opHeld /\ s.refed = so.refed /\ s.reading = so.reading
        /\ s.fd = so.fd /\ s.receiving = so.receiving
    <3> HIDE DEF n
    <3>1. QED BY <1>s, <2>2 DEF Socks
  <2> HIDE DEF s
  <2>4. State' = [State EXCEPT !.so = s]
    BY <2>1 DEF State
  <2> DEFINE y == [State EXCEPT !.so = s]
  <2>5. y \in States /\ y.so = s /\ y.lookups = State.lookups /\ y.outcome = State.outcome
        /\ y.waited = State.waited
    BY <1>s, <2>3, SetSo
  <2>6. State' = y
    BY <2>4
  <2> HIDE DEF y
  <2>7. SockOK(s)
    BY <1>s, <2>3, StateFields DEF XOK, SockOK
  <2>8. XOK(y)
    BY <1>s, <2>3, <2>5, <2>7, StateFields DEF XOK, Dropped, Binding
  <2>o. Ordered(y)
    BY <1>s, <2>3, <2>5, StateFields, SameOrdered DEF Same
  <2>9. State' \in States /\ XOK(State)' /\ Ordered(State)'
    BY <2>5, <2>6, <2>8, <2>o
  <2>10. /\ net' \in Seq(Nat) /\ Len(net') = Len(net) + 1 /\ net'[Len(net) + 1] = n
         /\ \A k \in 1..Len(net) : net'[k] = net[k]
    <3> HIDE DEF n
    <3>1. QED BY <1>s, <2>1, <2>2 DEF RecvTypes
  <2>11. RecvTypes'
    BY <1>s, <2>1, <2>10 DEF RecvTypes
  <2>12. OrderFrom(base)'
    <3> DEFINE d == Len(dtasks)
               m == Len(net)
               h == Held
    <3>1. d \in Nat /\ m \in Nat /\ h \in Nat /\ n = base + d + h + m + 1
      BY <1>o, <1>t DEF OrderFrom, Held
    <3>2. Numbered(net, base + d + h)
      BY <1>o DEF OrderFrom
    <3>3. Numbered(net', base + d + h)
      <4> HIDE DEF d, m, h, n
      <4>1. \A k \in 1..Len(net) : net[k] = base + d + h + k
        BY <3>2 DEF Numbered
      <4>2. \A k \in 1..Len(net') : k \in 1..Len(net) \/ k = Len(net) + 1
        BY <1>t, <2>10
      <4>3. n = base + d + h + (Len(net) + 1)
        BY <1>t, <3>1 DEF m
      <4>4. QED BY <2>10, <4>1, <4>2, <4>3 DEF Numbered
    <3>4. Held' = Held /\ dtasks' = dtasks
      BY <2>1 DEF Held
    <3>5. s.arrived = base + d + h + Len(net')
      <4> HIDE DEF d, h, n
      <4>1. QED BY <1>t, <2>3, <2>10, <3>1 DEF m
    <3> HIDE DEF n
    <3>6. QED BY <1>o, <2>1, <2>3, <3>3, <3>4, <3>5 DEF OrderFrom, Numbered
  <2>13. OrderOK'
    BY <1>s, <2>1, <2>12 DEF OrderOK, Numbered
  <2>14. QED BY <2>1, <2>9, <2>11, <2>13 DEF DgramInv, SilentAfterClose
<1>2. ASSUME UNCHANGED <<so, lookups, outcome, waited>>, RecvTypes', OrderOK'
      PROVE  DgramInv'
  <2>1. State' = State
    BY <1>2 DEF State
  <2>2. QED BY <1>s, <1>2, <2>1 DEF DgramInv
<1>3. CASE RecvWaits
  <2>1. /\ recv'.hand = recv.hand /\ recv.pc # "hold" /\ recv'.pc # "hold"
        /\ recv' \in [pc : {"none", "wait", "read", "hold", "done"}, hand : Nat]
        /\ UNCHANGED <<so, lookups, net, dtasks, heard, outcome, waited, failures>>
    BY <1>3, <1>t DEF RecvWaits
  <2>2. RecvTypes'
    BY <1>s, <2>1 DEF RecvTypes
  <2>3. OrderFrom(base)'
    BY <1>o, <2>1 DEF OrderFrom, Held, Numbered
  <2>4. OrderOK'
    BY <1>s, <2>1, <2>3 DEF OrderOK, Numbered
  <2>5. QED BY <1>2, <2>1, <2>2, <2>4 DEF SilentAfterClose
<1>8. CASE RecvFails
  <2>1. /\ recv'.hand = recv.hand /\ recv.pc # "hold" /\ recv'.pc # "hold"
        /\ recv' \in [pc : {"none", "wait", "read", "hold", "done"}, hand : Nat]
        /\ UNCHANGED <<so, lookups, net, dtasks, heard, outcome, waited>> /\ so.open
    BY <1>8, <1>t DEF RecvFails
  <2>2. RecvTypes'
    BY <1>s, <2>1 DEF RecvTypes
  <2>3. OrderFrom(base)'
    BY <1>o, <2>1 DEF OrderFrom, Held, Numbered
  <2>4. OrderOK'
    BY <1>s, <2>1, <2>3 DEF OrderOK, Numbered
  <2>5. QED BY <1>2, <2>1, <2>2, <2>4 DEF SilentAfterClose
<1>4. CASE RecvReads
  <2>0. UNCHANGED <<so, lookups, dtasks, heard, outcome, waited, failures>> /\ recv.pc = "read"
    BY <1>4 DEF RecvReads
  <2>1. CASE ~so.open /\ recv' = [recv EXCEPT !.pc = "done"] /\ UNCHANGED net
    <3>1. /\ recv'.hand = recv.hand /\ recv.pc # "hold" /\ recv'.pc # "hold"
          /\ recv' \in [pc : {"none", "wait", "read", "hold", "done"}, hand : Nat]
      BY <1>t, <2>0, <2>1
    <3>2. RecvTypes'
      BY <1>s, <2>0, <2>1, <3>1 DEF RecvTypes
    <3>3. OrderFrom(base)'
      BY <1>o, <2>0, <2>1, <3>1 DEF OrderFrom, Held, Numbered
    <3>4. OrderOK'
      BY <1>s, <2>0, <3>1, <3>3 DEF OrderOK, Numbered
    <3>5. QED BY <1>2, <2>0, <3>2, <3>4 DEF SilentAfterClose
  <2>2. CASE so.open /\ net # <<>> /\ net' = Tail(net) /\ recv' = [pc |-> "hold", hand |-> Head(net)]
    <3>1. /\ Head(net) \in Nat /\ Head(net) = net[1] /\ net' \in Seq(Nat) /\ Len(net') = Len(net) - 1
          /\ Len(net) > 0 /\ \A k \in 1..Len(net') : net'[k] = net[k + 1]
      <4>1. net \in Seq(Nat) /\ net # <<>>
        BY <1>s, <2>2 DEF RecvTypes
      <4>2. QED BY <2>2, <4>1
    <3>2. RecvTypes'
      BY <1>s, <2>0, <2>2, <3>1 DEF RecvTypes
    <3>3. OrderFrom(base)'
      <4>1. Held = 0 /\ Held' = 1
        BY <2>0, <2>2 DEF Held
      <4>2. \A k \in 1..Len(net) : net[k] = base + Len(dtasks) + 0 + k
        BY <1>o, <4>1 DEF OrderFrom, Numbered
      <4> DEFINE d == Len(dtasks)
      <4>3. recv'.hand = base + d + 1
        BY <1>t, <2>2, <3>1, <4>2
      <4>4. Numbered(net', base + d + 1)
        <5>1. \A k \in 1..Len(net') : k + 1 \in 1..Len(net) /\ k \in Nat
          BY <1>t, <3>1
        <5>2. \A k \in 1..Len(net') : net'[k] = base + d + 0 + (k + 1)
          BY <3>1, <4>2, <5>1
        <5>3. d \in Nat
          BY <1>t
        <5> HIDE DEF d
        <5>4. QED BY <5>1, <5>2, <5>3 DEF Numbered
      <4>5. so.arrived = base + d + 1 + Len(net')
        BY <1>o, <1>t, <3>1, <4>1 DEF OrderFrom
      <4>6. QED BY <1>o, <2>0, <4>1, <4>3, <4>4, <4>5 DEF OrderFrom, Numbered
    <3>4. OrderOK'
      BY <1>s, <2>0, <2>2, <3>3 DEF OrderOK, Numbered
    <3>5. QED BY <1>2, <2>0, <3>2, <3>4 DEF SilentAfterClose
  <2>3. QED BY <1>4, <2>1, <2>2 DEF RecvReads
<1>5. CASE RecvHands
  <2>1. /\ recv.pc = "hold" /\ recv' = [pc |-> "wait", hand |-> 0]
        /\ dtasks' = Append(dtasks, recv.hand)
        /\ UNCHANGED <<so, lookups, net, heard, outcome, waited, failures>>
    BY <1>5 DEF RecvHands
  <2>2. /\ dtasks' \in Seq(Nat) /\ Len(dtasks') = Len(dtasks) + 1
        /\ dtasks'[Len(dtasks) + 1] = recv.hand
        /\ \A k \in 1..Len(dtasks) : dtasks'[k] = dtasks[k]
    BY <1>s, <1>t, <2>1 DEF RecvTypes
  <2>3. RecvTypes'
    BY <1>s, <2>1, <2>2 DEF RecvTypes
  <2>4. OrderFrom(base)'
    <3> DEFINE d == Len(dtasks)
    <3>1. Held = 1 /\ Held' = 0
      BY <2>1 DEF Held
    <3>2. recv.hand = base + d + 1 /\ d \in Nat
      BY <1>o, <1>t, <2>1 DEF OrderFrom
    <3>3. Numbered(dtasks', base)
      <4>1. \A k \in 1..d : dtasks[k] = base + k
        BY <1>o DEF OrderFrom, Numbered
      <4>2. \A k \in 1..Len(dtasks') : k \in 1..d \/ k = d + 1
        BY <2>2, <3>2
      <4>3. dtasks'[d + 1] = base + (d + 1)
        BY <2>2, <3>2
      <4>4. QED BY <2>2, <4>1, <4>2, <4>3 DEF Numbered
    <3>4. base + Len(dtasks') + 0 = base + d + 1
      BY <2>2, <3>2
    <3>5. Numbered(net, base + d + 1) /\ so.arrived = base + d + 1 + Len(net)
      BY <1>o, <3>1 DEF OrderFrom
    <3> HIDE DEF d
    <3>6. QED BY <1>o, <2>1, <3>1, <3>3, <3>4, <3>5 DEF OrderFrom, Numbered
  <2>5. OrderOK'
    BY <1>s, <2>1, <2>4 DEF OrderOK, Numbered
  <2>6. QED BY <1>2, <2>1, <2>3, <2>5 DEF SilentAfterClose
<1>6. CASE Message
  <2>1. /\ dtasks # <<>> /\ dtasks' = Tail(dtasks)
        /\ heard' = IF so.open THEN Append(heard, Head(dtasks)) ELSE heard
        /\ UNCHANGED <<so, lookups, recv, net, outcome, waited, failures>>
    BY <1>6 DEF Message
  <2>2. /\ Head(dtasks) \in Nat /\ Head(dtasks) = dtasks[1] /\ dtasks' \in Seq(Nat)
        /\ Len(dtasks') = Len(dtasks) - 1 /\ Len(dtasks) > 0
        /\ \A k \in 1..Len(dtasks') : dtasks'[k] = dtasks[k + 1]
    <3>1. dtasks \in Seq(Nat) /\ dtasks # <<>>
      BY <1>s, <2>1 DEF RecvTypes
    <3>2. QED BY <2>1, <3>1
  <2>3. \A k \in 1..Len(dtasks) : dtasks[k] = base + k
    BY <1>o DEF OrderFrom, Numbered
  <2>4. Head(dtasks) = base + 1
    BY <1>t, <2>2, <2>3
  <2>5. /\ heard' \in Seq(Nat) /\ Numbered(heard', 0)
        /\ so.open => base + 1 = Len(heard')
    <3>1. CASE ~so.open
      BY <1>s, <2>1, <3>1 DEF RecvTypes
    <3>2. CASE so.open
      <4>1. base = Len(heard)
        BY <1>o, <3>2 DEF OrderFrom
      <4>2. /\ heard' \in Seq(Nat) /\ Len(heard') = Len(heard) + 1
            /\ heard'[Len(heard) + 1] = Head(dtasks)
            /\ \A k \in 1..Len(heard) : heard'[k] = heard[k]
        <5>1. heard \in Seq(Nat)
          BY <1>s DEF RecvTypes
        <5>2. heard' = Append(heard, Head(dtasks))
          BY <2>1, <3>2
        <5>3. QED BY <2>2, <5>1, <5>2
      <4>3. \A k \in 1..Len(heard) : heard[k] = 0 + k
        BY <1>s DEF Numbered
      <4>4. \A k \in 1..Len(heard') : k \in 1..Len(heard) \/ k = Len(heard) + 1
        BY <1>t, <4>2
      <4>5. heard'[Len(heard) + 1] = 0 + (Len(heard) + 1)
        BY <1>t, <2>4, <4>1, <4>2
      <4>6. Numbered(heard', 0)
        BY <4>2, <4>3, <4>4, <4>5 DEF Numbered
      <4>7. QED BY <4>1, <4>2, <4>6
    <3>3. QED BY <3>1, <3>2
  <2>6. RecvTypes'
    BY <1>s, <2>1, <2>2, <2>5 DEF RecvTypes
  <2>7. OrderFrom(base + 1)'
    <3> DEFINE d == Len(dtasks)
               e == Len(dtasks')
    <3>1. d \in Nat /\ e \in Nat /\ e = d - 1
      BY <1>t, <2>2
    <3>2. Numbered(dtasks', base + 1)
      <4>1. \A k \in 1..e : k + 1 \in 1..d /\ k \in Nat
        BY <3>1
      <4>2. \A k \in 1..e : dtasks'[k] = base + (k + 1)
        BY <2>2, <2>3, <4>1
      <4>3. QED BY <4>1, <4>2 DEF Numbered
    <3>3. (base + 1) + e = base + d
      <4> HIDE DEF d, e
      <4>1. QED BY <3>1
    <3>4. Held' = Held /\ recv' = recv /\ net' = net /\ so' = so
      BY <2>1 DEF Held
    <3>5. /\ recv.pc = "hold" => recv.hand = base + d + 1
          /\ Numbered(net, base + d + Held) /\ so.arrived = base + d + Held + Len(net)
      BY <1>o DEF OrderFrom
    <3> HIDE DEF d
    <3>6. /\ recv.pc = "hold" => recv.hand = (base + 1) + e + 1
          /\ Numbered(net, (base + 1) + e + Held) /\ so.arrived = (base + 1) + e + Held + Len(net)
      <4> HIDE DEF e
      <4>1. QED BY <3>3, <3>5
    <3>7. QED BY <2>5, <3>2, <3>4, <3>6 DEF OrderFrom, Numbered
  <2>8. OrderOK'
    <3>1. base + 1 \in Nat
      OBVIOUS
    <3>2. QED BY <1>s, <2>1, <2>5, <2>7, <3>1 DEF OrderOK, Numbered
  <2>9. QED BY <1>2, <2>1, <2>6, <2>8 DEF SilentAfterClose
<1>9. CASE FailureTold
  <2>1. /\ UNCHANGED <<so, lookups, recv, net, dtasks, heard, outcome, waited>>
        /\ failures'.told = IF so.open THEN failures.told + 1 ELSE failures.told
    BY <1>9 DEF FailureTold
  <2>2. RecvTypes'
    BY <1>s, <2>1 DEF RecvTypes
  <2>3. OrderFrom(base)'
    BY <1>o, <2>1 DEF OrderFrom, Held, Numbered
  <2>4. OrderOK'
    BY <1>s, <2>1, <2>3 DEF OrderOK, Numbered
  <2>5. QED BY <1>2, <2>1, <2>2, <2>4 DEF SilentAfterClose
<1>7. QED BY <1>1, <1>3, <1>4, <1>5, <1>6, <1>8, <1>9

LEMMA DgramStep == ASSUME DgramInv, DNext PROVE DgramInv' /\ SilentAfterClose
BY UserStep, LookedUpStep, NextTickStep, RecvStep DEF DNext, DWorks

LEMMA DgramIs ==
  ASSUME DgramInv
  PROVE  DgramHold /\ QueueWaitsForBind /\ CallsInOrder /\ DgramsInOrder /\ DroppedForCause
<1>1. XOK(State) /\ State.so = so /\ State.lookups = lookups /\ State.outcome = outcome
  BY StateFields DEF DgramInv
<1>2. DgramHold
  BY <1>1 DEF XOK, SockOK, DgramHold
<1>3. QueueWaitsForBind
  BY <1>1 DEF XOK, Binding, QueueWaitsForBind
<1>4. DroppedForCause
  BY <1>1 DEF XOK, SockOK, Dropped, DroppedForCause
<1>5. DgramsInOrder
  <2>1. RecvTypes /\ Numbered(heard, 0) /\ (recv.pc # "hold" => recv.hand = 0)
    BY DEF DgramInv, OrderOK
  <2>2. DOMAIN heard = 1..Len(heard) /\ DOMAIN dtasks = 1..Len(dtasks) /\ Len(dtasks) \in Nat
    BY <2>1 DEF RecvTypes
  <2>3. \A k \in DOMAIN heard : heard[k] = k
    BY <2>1, <2>2 DEF Numbered
  <2>4. PICK base \in Nat : OrderFrom(base)
    BY DEF DgramInv, OrderOK
  <2>5. ASSUME recv.hand # 0, NEW k \in 1..Len(dtasks) PROVE dtasks[k] < recv.hand
    <3>1. recv.hand = base + Len(dtasks) + 1 /\ dtasks[k] = base + k
      BY <2>1, <2>4, <2>5 DEF OrderFrom, Numbered
    <3>2. QED BY <2>2, <3>1
  <2>6. QED BY <2>2, <2>3, <2>5 DEF DgramsInOrder
<1>7. CallsInOrder
  <2>1. Ordered(State) /\ State.waited = waited /\ State.so = so
        /\ waited.ran \in Seq(DCalls) /\ waited.queued \in Seq(DCalls)
    BY StateFields, StateTypes DEF DgramInv, DWaits
  <2>2. CASE so.queue # NoQueue
    BY <2>1, <2>2 DEF Ordered, CallsInOrder
  <2>3. CASE so.queue = NoQueue
    <3> DEFINE ran == waited.ran
               queued == waited.queued
               sub == SubSeq(queued, 1, Len(ran))
    <3>1. Prefix(ran, queued, Len(ran)) /\ (so.thrown \/ Len(ran) = Len(queued))
      BY <2>1, <2>3 DEF Ordered
    <3>2. ran \in Seq(DCalls) /\ queued \in Seq(DCalls)
      BY <2>1
    <3>3. ran = sub
      <4> HIDE DEF ran, queued
      <4>1. Len(ran) \in Nat /\ Len(queued) \in Nat /\ Len(ran) <= Len(queued)
            /\ \A j \in 1..Len(ran) : ran[j] = queued[j]
        BY <3>1, <3>2 DEF Prefix
      <4>2. sub \in Seq(DCalls) /\ Len(sub) = Len(ran)
            /\ \A j \in 1..Len(ran) : sub[j] = queued[j]
        BY <3>2, <4>1
      <4> HIDE DEF sub
      <4>3. QED BY <3>2, <4>1, <4>2, SeqEqual
    <3>4. QED BY <2>3, <3>1, <3>3 DEF CallsInOrder
  <2>4. QED BY <2>2, <2>3
<1>6. QED BY <1>2, <1>3, <1>4, <1>5, <1>7

-----------------------------------------------------------------------------
(* ForkChannel *)

ForkUnits == [m : Nat, last : BOOLEAN]
DataTicks == [op : {"data"}, units : Seq(ForkUnits)]
ForkTicks == DataTicks \cup [op : {"disconnect", "eof", "error"}]
Chans == [connected : BOOLEAN, started : BOOLEAN, explicit : BOOLEAN, refed : BOOLEAN, ops : Int,
          listening : {"none", "on", "once"}, byOnce : BOOLEAN, queue : Seq(Nat),
          blocked : Nat, open : BOOLEAN, reads : BOOLEAN,
          pending : Seq(ForkUnits), ticks : Seq(ForkTicks), left : {"no", "exited", "killed"},
          sent : Nat, heard : Seq(Nat), told : Int, cut : BOOLEAN]
ForkTypes ==
  chan \in [Ends -> Chans] /\ wire \in [Ends -> Seq(ForkUnits)] /\ budget \in [Ends -> Nat]

Waits(s) == IF s.blocked = 0 THEN 0 ELSE 1
HoldOK(s) ==
  /\ s.ops = (IF s.refed THEN 1 ELSE 0) + Len(s.queue) + Waits(s)
  /\ s.refed => s.connected

\* How many messages an end has written; the queue holds those behind them,
\* and a send() that waits has the last.
Wrote(s) == s.sent - Len(s.queue) - Waits(s)
Left(s) == s.left # "no" \/ ~s.open
SendOK(s) ==
  /\ Wrote(s) \in Nat
  /\ \A k \in 1..Len(s.queue) : s.queue[k] = Wrote(s) + k
  /\ s.blocked # 0 => s.blocked = s.sent /\ s.queue # <<>>
  /\ ~s.open => ~s.connected
  /\ Left(s) /\ s.left # "killed" => s.queue = <<>> /\ s.blocked = 0

HearOK(s) ==
  /\ \A k \in 1..Len(s.heard) : s.heard[k] = k
  /\ s.told # -1 => s.told = Len(s.heard) /\ ~s.connected
  /\ \A k \in 1..Len(s.ticks) : s.ticks[k].op = "disconnect" => ~s.connected
  /\ \A k \in 1..Len(s.ticks) : s.ticks[k].op = "eof" =>
       ~s.reads /\ \A j \in (k + 1)..Len(s.ticks) : s.ticks[j].op # "data"

\* What a step leaves alone of what an end sends, and of what it hears.
SendPart(r, s) ==
  /\ r.sent = s.sent /\ r.queue = s.queue /\ r.blocked = s.blocked /\ r.open = s.open
  /\ r.left = s.left
HearPart(r, s) ==
  /\ r.ticks = s.ticks /\ r.pending = s.pending /\ r.heard = s.heard /\ r.told = s.told
  /\ r.reads = s.reads /\ r.cut = s.cut /\ r.connected = s.connected
Calm(r, s) == r \in Chans /\ HoldOK(r) /\ SendPart(r, s) /\ HearPart(r, s)

LEMMA HoldSame ==
  ASSUME NEW r, NEW s, HoldOK(s), r.ops = s.ops, r.queue = s.queue, r.blocked = s.blocked,
         r.refed <=> s.refed, r.refed => r.connected
  PROVE  HoldOK(r)
<1>1. Waits(r) = Waits(s)
  BY DEF Waits
<1>2. QED BY <1>1 DEF HoldOK

LEMMA HoldKeeps == ASSUME NEW s \in Chans, HoldOK(s) PROVE Calm(Hold(s), s)
<1>1. CASE s.refed \/ ~s.connected
  BY <1>1 DEF Hold, Calm, SendPart, HearPart
<1>2. CASE ~(s.refed \/ ~s.connected)
  <2> DEFINE n == s.ops + 1
             r == [s EXCEPT !.refed = TRUE, !.ops = n]
  <2>1. Hold(s) = r
    BY <1>2 DEF Hold
  <2>2. n \in Int
    BY DEF Chans
  <2> HIDE DEF n
  <2>3. r \in Chans /\ SendPart(r, s) /\ HearPart(r, s) /\ r.refed /\ r.ops = n
    BY <2>2 DEF Chans, SendPart, HearPart
  <2> HIDE DEF r
  <2>4. /\ r.ops = s.ops + 1 /\ r.queue = s.queue /\ r.blocked = s.blocked /\ r.connected
        /\ s.ops = 0 + Len(s.queue) + Waits(s) /\ s.ops \in Int
    BY <1>2, <2>3 DEF n, SendPart, HearPart, HoldOK, Chans
  <2>5. Len(s.queue) \in Nat /\ Waits(s) \in Nat /\ Waits(r) = Waits(s) /\ Len(r.queue) = Len(s.queue)
    <3>1. s.queue \in Seq(Nat)
      BY DEF Chans
    <3>2. QED BY <2>4, <3>1 DEF Waits
  <2>6. HoldOK(r)
    <3> DEFINE l == Len(s.queue)
               k == Waits(s)
    <3>1. s.ops = 0 + l + k /\ l \in Nat /\ k \in Nat /\ s.ops \in Int
      BY <2>4, <2>5
    <3> HIDE DEF l, k
    <3>2. s.ops + 1 = 1 + l + k
      BY <3>1
    <3>3. QED BY <2>3, <2>4, <2>5, <3>2 DEF HoldOK, l, k
  <2>7. QED BY <2>1, <2>3, <2>6 DEF Calm
<1>3. QED BY <1>1, <1>2

LEMMA UnholdKeeps ==
  ASSUME NEW s \in Chans, HoldOK(s) PROVE Calm(Unhold(s), s) /\ (s.connected => ~Unhold(s).refed)
<1>1. CASE ~(s.refed /\ s.connected)
  BY <1>1 DEF Unhold, Calm, SendPart, HearPart, Chans
<1>2. CASE s.refed /\ s.connected
  <2> DEFINE n == s.ops - 1
             r == [s EXCEPT !.refed = FALSE, !.ops = n]
  <2>1. Unhold(s) = r
    BY <1>2 DEF Unhold
  <2>2. n \in Int
    BY DEF Chans
  <2> HIDE DEF n
  <2>3. r \in Chans /\ SendPart(r, s) /\ HearPart(r, s) /\ ~r.refed /\ r.ops = n
    BY <2>2 DEF Chans, SendPart, HearPart
  <2> HIDE DEF r
  <2>4. /\ r.ops = s.ops - 1 /\ r.queue = s.queue /\ r.blocked = s.blocked
        /\ s.ops = 1 + Len(s.queue) + Waits(s) /\ s.ops \in Int
    BY <1>2, <2>3 DEF n, SendPart, HearPart, HoldOK, Chans
  <2>5. Len(s.queue) \in Nat /\ Waits(s) \in Nat /\ Waits(r) = Waits(s) /\ Len(r.queue) = Len(s.queue)
    <3>1. s.queue \in Seq(Nat)
      BY DEF Chans
    <3>2. QED BY <2>4, <3>1 DEF Waits
  <2>6. HoldOK(r)
    <3> DEFINE l == Len(s.queue)
               k == Waits(s)
    <3>1. s.ops = 1 + l + k /\ l \in Nat /\ k \in Nat /\ s.ops \in Int
      BY <2>4, <2>5
    <3> HIDE DEF l, k
    <3>2. s.ops - 1 = 0 + l + k
      BY <3>1
    <3>3. QED BY <2>3, <2>4, <2>5, <3>2 DEF HoldOK, l, k
  <2>7. QED BY <2>1, <2>3, <2>6 DEF Calm
<1>3. QED BY <1>1, <1>2

LEMMA FlagKeeps ==
  ASSUME NEW s \in Chans, HoldOK(s), NEW r \in Chans,
         \/ r = [s EXCEPT !.started = TRUE]
         \/ r = [s EXCEPT !.explicit = TRUE]
         \/ \E how \in {"none", "on", "once"} : r = [s EXCEPT !.listening = how, !.byOnce = FALSE]
  PROVE  Calm(r, s)
<1>1. SendPart(r, s) /\ HearPart(r, s) /\ r.ops = s.ops /\ r.refed = s.refed
  <2>1. CASE r = [s EXCEPT !.started = TRUE]
    BY <2>1 DEF Chans, SendPart, HearPart
  <2>2. CASE r = [s EXCEPT !.explicit = TRUE]
    BY <2>2 DEF Chans, SendPart, HearPart
  <2>3. ASSUME NEW how \in {"none", "on", "once"}, r = [s EXCEPT !.listening = how, !.byOnce = FALSE]
        PROVE  SendPart(r, s) /\ HearPart(r, s) /\ r.ops = s.ops /\ r.refed = s.refed
    BY <2>3 DEF Chans, SendPart, HearPart
  <2>4. QED BY <2>1, <2>2, <2>3
<1>2. HoldOK(r)
  <2>1. r.refed => r.connected
    BY <1>1 DEF HoldOK, HearPart
  <2>2. QED BY <1>1, <2>1, HoldSame DEF SendPart
<1>3. QED BY <1>1, <1>2 DEF Calm

LEMMA FlagTypes ==
  ASSUME NEW s \in Chans
  PROVE  /\ [s EXCEPT !.started = TRUE] \in Chans /\ [s EXCEPT !.explicit = TRUE] \in Chans
         /\ \A how \in {"none", "on", "once"} :
              [s EXCEPT !.listening = how, !.byOnce = FALSE] \in Chans
BY DEF Chans

LEMMA CalmCalm ==
  ASSUME NEW q, NEW r, NEW s, Calm(q, r), Calm(r, s) PROVE Calm(q, s)
BY DEF Calm, SendPart, HearPart

\* on, off, ref and unref.
LEMMA UpdateRefKeeps == ASSUME NEW s \in Chans, HoldOK(s) PROVE Calm(UpdateRef(s), s)
<1>1. CASE s.explicit \/ ~s.connected
  BY <1>1 DEF UpdateRef, Calm, SendPart, HearPart
<1>2. CASE ~(s.explicit \/ ~s.connected) /\ HasListener(s)
  <2> DEFINE h == Hold(s)
  <2>1. UpdateRef(s) = [h EXCEPT !.started = TRUE]
    BY <1>2 DEF UpdateRef, StartReader
  <2>2. Calm(h, s) /\ h \in Chans /\ HoldOK(h)
    BY HoldKeeps, SMTT(20) DEF Calm
  <2> HIDE DEF h
  <2>3. Calm(UpdateRef(s), h)
    BY <2>1, <2>2, FlagTypes, FlagKeeps
  <2>4. QED BY <2>2, <2>3, CalmCalm
<1>3. CASE ~(s.explicit \/ ~s.connected) /\ ~HasListener(s)
  BY <1>3, UnholdKeeps DEF UpdateRef
<1>4. QED BY <1>1, <1>2, <1>3

-----------------------------------------------------------------------------
\* The units of an end's peer, one after the other, are two of the first
\* message, two of the second and so on: k is the place of a unit among them.
AtPlace(u, k) == k = 2 * u.m - 1 \/ k = 2 * u.m
UnitsAt(u, from) == \A k \in 1..Len(u) : AtPlace(u[k], from + k)
TickAt(t, from, to) ==
  IF t.op = "data" THEN to = from + Len(t.units) /\ UnitsAt(t.units, from) ELSE to = from
TicksAt(t, from, to) ==
  \E b \in [0..Len(t) -> Nat] :
    /\ b[0] = from /\ b[Len(t)] = to
    /\ \A i \in 1..Len(t) : TickAt(t[i], b[i - 1], b[i])

\* What was emitted, the unit that is kept and the ticks are the units of the
\* peer up to place w.
Upto(s, w) ==
  /\ Len(s.pending) <= 1 /\ UnitsAt(s.pending, 2 * Len(s.heard))
  /\ TicksAt(s.ticks, 2 * Len(s.heard) + Len(s.pending), w)

LEMMA TicksMore ==
  ASSUME NEW t \in Seq(ForkTicks), NEW x \in ForkTicks, NEW from \in Nat, NEW mid, NEW to \in Nat,
         TicksAt(t, from, mid), TickAt(x, mid, to)
  PROVE  TicksAt(Append(t, x), from, to)
<1> DEFINE n == Len(t)
           v == Append(t, x)
<1>1. /\ n \in Nat /\ Len(v) = n + 1 /\ v[n + 1] = x /\ \A i \in 1..n : v[i] = t[i]
  BY AppendProperties
<1>2. PICK b \in [0..n -> Nat] : /\ b[0] = from /\ b[n] = mid
                                 /\ \A i \in 1..n : TickAt(t[i], b[i - 1], b[i])
  BY DEF TicksAt
<1> HIDE DEF n, v
<1> DEFINE c == [i \in 0..(n + 1) |-> IF i = n + 1 THEN to ELSE b[i]]
<1>3. /\ c \in [0..(n + 1) -> Nat] /\ c[n + 1] = to /\ \A i \in 0..n : c[i] = b[i]
  <2>1. \A i \in 0..(n + 1) : i = n + 1 \/ i \in 0..n
    BY <1>1
  <2>2. \A i \in 0..n : i \in 0..(n + 1) /\ i # n + 1
    BY <1>1
  <2>3. n + 1 \in 0..(n + 1)
    BY <1>1
  <2>4. QED BY <1>2, <2>1, <2>2, <2>3
<1> HIDE DEF c
<1>4. ASSUME NEW i \in 1..(n + 1) PROVE TickAt(v[i], c[i - 1], c[i])
  <2>1. CASE i = n + 1
    <3>1. i - 1 = n /\ n \in 0..n
      BY <1>1, <2>1
    <3>2. c[i - 1] = mid
      BY <1>2, <1>3, <3>1
    <3>3. QED BY <1>1, <1>3, <2>1, <3>2
  <2>2. CASE i # n + 1
    <3>1. i \in 1..n /\ i \in 0..n /\ i - 1 \in 0..n
      BY <1>1, <2>2
    <3>2. TickAt(t[i], b[i - 1], b[i])
      BY <1>2, <3>1
    <3>3. QED BY <1>1, <1>3, <3>1, <3>2
  <2>3. QED BY <2>1, <2>2
<1>5. c[0] = from
  BY <1>1, <1>2, <1>3
<1>6. TicksAt(v, from, to)
  BY <1>1, <1>3, <1>4, <1>5 DEF TicksAt
<1>7. QED BY <1>6 DEF v

LEMMA TicksFirst ==
  ASSUME NEW t \in Seq(ForkTicks), t # <<>>, NEW from \in Nat, NEW to, TicksAt(t, from, to)
  PROVE  \E mid \in Nat : TickAt(Head(t), from, mid) /\ TicksAt(Tail(t), mid, to)
<1> DEFINE n == Len(t)
           v == Tail(t)
<1>1. /\ n \in Nat /\ n > 0 /\ Len(v) = n - 1 /\ Head(t) = t[1]
      /\ \A i \in 1..(n - 1) : v[i] = t[i + 1]
  OBVIOUS
<1>2. PICK b \in [0..n -> Nat] : /\ b[0] = from /\ b[n] = to
                                 /\ \A i \in 1..n : TickAt(t[i], b[i - 1], b[i])
  BY DEF TicksAt
<1> HIDE DEF n, v
<1> DEFINE c == [i \in 0..(n - 1) |-> b[i + 1]]
<1>3. c \in [0..(n - 1) -> Nat] /\ \A i \in 0..(n - 1) : c[i] = b[i + 1]
  <2>1. \A i \in 0..(n - 1) : i + 1 \in 0..n
    BY <1>1
  <2>2. QED BY <1>2, <2>1
<1> HIDE DEF c
<1>4. ASSUME NEW i \in 1..(n - 1) PROVE TickAt(v[i], c[i - 1], c[i])
  <2>1. i + 1 \in 1..n /\ i \in 0..(n - 1) /\ i - 1 \in 0..(n - 1) /\ (i - 1) + 1 = i /\ (i + 1) - 1 = i
    BY <1>1
  <2>2. TickAt(t[i + 1], b[i], b[i + 1])
    BY <1>2, <2>1
  <2>3. c[i - 1] = b[i] /\ c[i] = b[i + 1]
    BY <1>3, <2>1
  <2>4. QED BY <1>1, <2>2, <2>3
<1>5. c[0] = b[1] /\ c[n - 1] = b[n] /\ b[1] \in Nat
  <2>1. 0 \in 0..(n - 1) /\ n - 1 \in 0..(n - 1) /\ (n - 1) + 1 = n /\ 1 \in 0..n
    BY <1>1
  <2>2. QED BY <1>2, <1>3, <2>1
<1>6. TicksAt(v, b[1], to)
  BY <1>1, <1>2, <1>3, <1>4, <1>5 DEF TicksAt
<1>7. TickAt(t[1], b[0], b[1])
  <2>1. 1 \in 1..n /\ 1 - 1 = 0
    BY <1>1
  <2>2. QED BY <1>2, <2>1
<1>8. QED BY <1>1, <1>2, <1>5, <1>6, <1>7 DEF v

\* Without data in the ticks they bring no unit.
LEMMA TicksDry ==
  ASSUME NEW t \in Seq(ForkTicks), NEW from \in Nat, NEW to, TicksAt(t, from, to),
         \A i \in 1..Len(t) : t[i].op # "data"
  PROVE  to = from
<1> DEFINE n == Len(t)
<1>1. n \in Nat
  OBVIOUS
<1>2. PICK b \in [0..n -> Nat] : /\ b[0] = from /\ b[n] = to
                                 /\ \A i \in 1..n : TickAt(t[i], b[i - 1], b[i])
  BY DEF TicksAt
<1> DEFINE T == {k \in Nat : k <= n => b[k] = from}
<1>3. 0 \in T
  BY <1>2
<1>4. ASSUME NEW k \in T PROVE k + 1 \in T
  <2>1. CASE k + 1 <= n
    <3>1. k + 1 \in 1..n /\ (k + 1) - 1 = k /\ k <= n
      BY <1>1, <2>1
    <3>2. b[k + 1] = b[k]
      BY <1>2, <3>1 DEF TickAt
    <3>3. QED BY <3>1, <3>2
  <2>2. QED BY <2>1
<1>5. n \in T
  <2> HIDE DEF T
  <2>1. T \subseteq Nat
    BY DEF T
  <2>2. T = Nat
    BY <1>3, <1>4, <2>1, SetInduction
  <2>3. QED BY <1>1, <2>2
<1>6. QED BY <1>1, <1>2, <1>5

LEMMA TicksEmpty == ASSUME NEW from \in Nat PROVE TicksAt(<<>>, from, from)
<1> DEFINE b == [i \in 0..0 |-> from]
<1>1. b \in [0..0 -> Nat] /\ b[0] = from
  OBVIOUS
<1>2. Len(<<>>) = 0
  OBVIOUS
<1> HIDE DEF b
<1>3. QED BY <1>1, <1>2 DEF TicksAt

\* Units that follow each other, and what a part of them is.
LEMMA UnitsJoin ==
  ASSUME NEW u \in Seq(ForkUnits), NEW v \in Seq(ForkUnits), NEW from \in Nat,
         UnitsAt(u, from), UnitsAt(v, from + Len(u))
  PROVE  UnitsAt(u \o v, from)
<1> DEFINE n == Len(u)
           m == Len(v)
           w == u \o v
<1>1. /\ n \in Nat /\ m \in Nat /\ Len(w) = n + m
      /\ \A k \in 1..n : w[k] = u[k]
      /\ \A k \in 1..Len(w) : k > n => w[k] = v[k - n]
  BY ConcatProperties
<1>2. \A k \in 1..n : AtPlace(u[k], from + k)
  BY DEF UnitsAt
<1>3. \A k \in 1..m : AtPlace(v[k], from + n + k)
  BY DEF UnitsAt
<1> HIDE DEF n, m, w
<1>4. ASSUME NEW k \in 1..Len(w) PROVE AtPlace(w[k], from + k)
  <2>1. CASE k <= n
    <3>1. k \in 1..n
      BY <1>1, <2>1
    <3>2. QED BY <1>1, <1>2, <3>1
  <2>2. CASE k > n
    <3>1. k - n \in 1..m /\ from + n + (k - n) = from + k
      BY <1>1, <2>2
    <3>2. AtPlace(v[k - n], from + n + (k - n))
      BY <1>3, <3>1
    <3>3. QED BY <1>1, <2>2, <3>1, <3>2
  <2>3. QED BY <1>1, <2>1, <2>2
<1>5. UnitsAt(w, from)
  BY <1>4 DEF UnitsAt
<1>6. QED BY <1>5 DEF w

LEMMA UnitsPart ==
  ASSUME NEW u \in Seq(ForkUnits), NEW from \in Nat, UnitsAt(u, from), NEW i \in 1..(Len(u) + 1),
         NEW j \in (i - 1)..Len(u)
  PROVE  /\ SubSeq(u, i, j) \in Seq(ForkUnits) /\ Len(SubSeq(u, i, j)) = j - i + 1
         /\ UnitsAt(SubSeq(u, i, j), from + i - 1)
<1> DEFINE n == Len(u)
           w == SubSeq(u, i, j)
<1>1. n \in Nat /\ i \in Nat /\ j \in Nat /\ j <= n /\ i <= j + 1 /\ i >= 1
  OBVIOUS
<1>2. /\ w \in Seq(ForkUnits) /\ Len(w) = j - i + 1
      /\ \A k \in 1..(j - i + 1) : w[k] = u[i + k - 1]
  <2>1. w = [k \in 1..(j - i + 1) |-> u[i + k - 1]]
    BY <1>1
  <2>2. \A k \in 1..(j - i + 1) : i + k - 1 \in 1..n
    BY <1>1
  <2>3. \A k \in 1..n : u[k] \in ForkUnits
    OBVIOUS
  <2>4. j - i + 1 \in Nat
    BY <1>1
  <2> HIDE DEF w, n
  <2> DEFINE l == j - i + 1
  <2>5. w \in [1..l -> ForkUnits]
    BY <2>1, <2>2, <2>3
  <2> HIDE DEF l
  <2>6. l \in Nat
    BY <2>4 DEF l
  <2>7. w \in Seq(ForkUnits) /\ Len(w) = l
    BY <2>5, <2>6
  <2>8. QED BY <2>1, <2>7 DEF l
<1>3. \A k \in 1..n : AtPlace(u[k], from + k)
  BY DEF UnitsAt
<1> HIDE DEF n, w
<1>4. ASSUME NEW k \in 1..Len(w) PROVE AtPlace(w[k], from + i - 1 + k)
  <2>0. k \in 1..(j - i + 1)
    BY <1>2
  <2>1. i + k - 1 \in 1..n /\ from + (i + k - 1) = from + i - 1 + k
    BY <1>1, <2>0
  <2>2. AtPlace(u[i + k - 1], from + (i + k - 1))
    BY <1>3, <2>1
  <2>3. QED BY <1>2, <2>0, <2>1, <2>2
<1>5. UnitsAt(w, from + i - 1)
  BY <1>4 DEF UnitsAt
<1>6. QED BY <1>2, <1>5 DEF w

-----------------------------------------------------------------------------
LEMMA QueuedTypes ==
  ASSUME NEW s \in Chans, NEW t \in ForkTicks
  PROVE  LET r == Queued(s, t) IN
         /\ r \in Chans /\ SendPart(r, s) /\ r.ticks = Append(s.ticks, t)
         /\ r.pending = s.pending /\ r.heard = s.heard /\ r.told = s.told /\ r.reads = s.reads
         /\ r.cut = s.cut /\ r.connected = s.connected /\ r.refed = s.refed /\ r.ops = s.ops
         /\ r.started = s.started
<1> DEFINE ticks == Append(s.ticks, t)
           r == [s EXCEPT !.ticks = ticks]
<1>1. ticks \in Seq(ForkTicks)
  <2>1. s.ticks \in Seq(ForkTicks)
    BY DEF Chans
  <2>2. QED BY <2>1
<1> HIDE DEF ticks
<1>2. /\ r \in Chans /\ SendPart(r, s) /\ r.ticks = ticks
      /\ r.pending = s.pending /\ r.heard = s.heard /\ r.told = s.told /\ r.reads = s.reads
      /\ r.cut = s.cut /\ r.connected = s.connected /\ r.refed = s.refed /\ r.ops = s.ops
      /\ r.started = s.started
  BY <1>1 DEF Chans, SendPart
<1>3. Queued(s, t) = r
  BY DEF Queued, ticks
<1> HIDE DEF r
<1>4. QED BY <1>2, <1>3 DEF ticks

LEMMA MarkTypes ==
  /\ [op |-> "error"] \in ForkTicks /\ [op |-> "eof"] \in ForkTicks
  /\ [op |-> "disconnect"] \in ForkTicks
  /\ [op |-> "error"].op = "error" /\ [op |-> "eof"].op = "eof"
  /\ [op |-> "disconnect"].op = "disconnect"
BY DEF ForkTicks

LEMMA DataTypes ==
  ASSUME NEW u \in Seq(ForkUnits)
  PROVE  [op |-> "data", units |-> u] \in ForkTicks
BY DEF ForkTicks, DataTicks

\* A tick is queued: after 'eof' no data, and 'disconnect' when the end is
\* not connected.
LEMMA QueuedHears ==
  ASSUME NEW s \in Chans, HearOK(s), NEW t \in ForkTicks,
         t.op = "disconnect" => ~s.connected, t.op = "data" => s.reads, t.op = "eof" => ~s.reads
  PROVE  HearOK(Queued(s, t))
<1> DEFINE r == Queued(s, t)
           n == Len(s.ticks)
<1>1. /\ r \in Chans /\ r.ticks = Append(s.ticks, t) /\ r.heard = s.heard /\ r.told = s.told
      /\ r.reads = s.reads /\ r.connected = s.connected
  BY QueuedTypes
<1>2. s.ticks \in Seq(ForkTicks)
  BY DEF Chans
<1>3. /\ n \in Nat /\ Len(Append(s.ticks, t)) = n + 1 /\ Append(s.ticks, t)[n + 1] = t
      /\ \A k \in 1..n : Append(s.ticks, t)[k] = s.ticks[k]
  BY <1>2, AppendProperties
<1> HIDE DEF r, n
<1>4. Len(r.ticks) = n + 1 /\ r.ticks[n + 1] = t /\ \A k \in 1..n : r.ticks[k] = s.ticks[k]
  BY <1>1, <1>3
<1>5. \A k \in 1..(n + 1) : k \in 1..n \/ k = n + 1
  BY <1>3
<1>6. \A k \in 1..Len(r.ticks) : r.ticks[k].op = "disconnect" => ~r.connected
  BY <1>1, <1>4, <1>5 DEF HearOK, n
<1>7. ASSUME NEW k \in 1..Len(r.ticks), r.ticks[k].op = "eof"
      PROVE  ~r.reads /\ \A j \in (k + 1)..Len(r.ticks) : r.ticks[j].op # "data"
  <2>1. CASE k = n + 1
    <3>1. \A j \in (k + 1)..Len(r.ticks) : FALSE
      BY <1>3, <1>4, <2>1
    <3>2. QED BY <1>1, <1>4, <1>7, <2>1, <3>1
  <2>2. CASE k \in 1..n
    <3>1. ~s.reads /\ \A j \in (k + 1)..n : s.ticks[j].op # "data"
      BY <1>4, <1>7, <2>2 DEF HearOK, n
    <3>2. \A j \in (k + 1)..(n + 1) : (j \in (k + 1)..n /\ j \in 1..n) \/ j = n + 1
      BY <1>3, <2>2
    <3>3. QED BY <1>1, <1>4, <3>1, <3>2
  <2>3. QED BY <1>4, <1>5, <2>1, <2>2
<1>8. HearOK(r)
  BY <1>1, <1>6, <1>7 DEF HearOK
<1>9. QED BY <1>8 DEF r

\* Its head is taken.
LEMMA TakenHears ==
  ASSUME NEW s \in Chans, HearOK(s), s.ticks # <<>>, NEW r \in Chans, r.ticks = Tail(s.ticks),
         r.heard = s.heard, r.told = s.told, r.reads = s.reads, r.connected = s.connected
  PROVE  HearOK(r)
<1> DEFINE n == Len(s.ticks)
<1>1. n \in Nat /\ n > 0 /\ Len(r.ticks) = n - 1 /\ \A k \in 1..(n - 1) : r.ticks[k] = s.ticks[k + 1]
  <2>1. s.ticks \in Seq(ForkTicks)
    BY DEF Chans
  <2>2. QED BY <2>1
<1>2. \A k \in 1..n : s.ticks[k].op = "disconnect" => ~s.connected
  BY DEF HearOK
<1>3. \A k \in 1..n : s.ticks[k].op = "eof" =>
        ~s.reads /\ \A j \in (k + 1)..n : s.ticks[j].op # "data"
  BY DEF HearOK
<1> HIDE DEF n
<1>4. \A k \in 1..Len(r.ticks) : r.ticks[k].op = "disconnect" => ~r.connected
  <2>1. \A k \in 1..(n - 1) : k + 1 \in 1..n
    BY <1>1
  <2>2. QED BY <1>1, <1>2, <2>1
<1>5. ASSUME NEW k \in 1..Len(r.ticks), r.ticks[k].op = "eof"
      PROVE  ~r.reads /\ \A j \in (k + 1)..Len(r.ticks) : r.ticks[j].op # "data"
  <2>1. k + 1 \in 1..n /\ s.ticks[k + 1].op = "eof"
    BY <1>1, <1>5
  <2>2. ~s.reads /\ \A j \in ((k + 1) + 1)..n : s.ticks[j].op # "data"
    BY <1>3, <2>1
  <2>3. \A j \in (k + 1)..(n - 1) : j + 1 \in ((k + 1) + 1)..n /\ j \in 1..(n - 1)
    BY <1>1, <2>1
  <2>4. QED BY <1>1, <2>2, <2>3
<1>6. QED BY <1>4, <1>5 DEF HearOK

\* once() changes the listeners, and nothing else.
Heeds(r, s) ==
  /\ SendPart(r, s) /\ HearPart(r, s) /\ r.refed = s.refed /\ r.ops = s.ops
  /\ r.started = s.started /\ r.explicit = s.explicit
LEMMA OnceOffKeeps ==
  ASSUME NEW s \in Chans, NEW whole
  PROVE  LET r == OnceOff(s, whole) IN r \in Chans /\ Heeds(r, s)
<1>1. CASE s.listening = "once" /\ whole > 0
  <2> DEFINE r == [s EXCEPT !.listening = "none", !.byOnce = TRUE]
  <2>1. OnceOff(s, whole) = r
    BY <1>1 DEF OnceOff
  <2>2. r \in Chans
    BY DEF Chans
  <2>3. SendPart(r, s) /\ HearPart(r, s) /\ r.refed = s.refed /\ r.ops = s.ops
        /\ r.started = s.started /\ r.explicit = s.explicit
    BY DEF Chans, SendPart, HearPart
  <2> HIDE DEF r
  <2>4. QED BY <2>1, <2>2, <2>3 DEF Heeds
<1>2. CASE ~(s.listening = "once" /\ whole > 0)
  BY <1>2 DEF OnceOff, Heeds, SendPart, HearPart
<1>3. QED BY <1>1, <1>2

\* A chunk is taken apart: the messages that are whole are emitted, and a
\* unit may be left.
LEMMA OnDataHears ==
  ASSUME NEW s \in Chans, s.connected, HearOK(s), NEW u \in Seq(ForkUnits),
         Len(s.pending) <= 1, UnitsAt(s.pending, 2 * Len(s.heard)),
         UnitsAt(u, 2 * Len(s.heard) + Len(s.pending))
  PROVE  LET r == OnData(s, u) IN
         /\ r \in Chans /\ HearOK(r) /\ SendPart(r, s) /\ r.ticks = s.ticks /\ r.told = s.told
         /\ r.reads = s.reads /\ r.cut = s.cut /\ r.connected = s.connected /\ r.refed = s.refed
         /\ r.ops = s.ops /\ r.started = s.started
         /\ Len(r.pending) <= 1 /\ UnitsAt(r.pending, 2 * Len(r.heard))
         /\ 2 * Len(r.heard) + Len(r.pending) = 2 * Len(s.heard) + Len(s.pending) + Len(u)
<1> DEFINE p == s.pending
           h == Len(s.heard)
           b == p \o u
           l == Len(b)
           whole == l \div 2
           new == [k \in 1..whole |-> b[2 * k].m]
           hears == s.heard \o new
           rest == SubSeq(b, 2 * whole + 1, l)
           o == OnceOff(s, whole)
           r == [o EXCEPT !.heard = hears, !.pending = rest]
<1>1. p \in Seq(ForkUnits) /\ s.heard \in Seq(Nat) /\ h \in Nat
  <2>1. p \in Seq(ForkUnits) /\ s.heard \in Seq(Nat)
    BY DEF Chans
  <2>2. QED BY <2>1
<1>2. b \in Seq(ForkUnits) /\ l = Len(p) + Len(u) /\ l \in Nat /\ Len(p) \in Nat /\ Len(u) \in Nat
  BY <1>1
<1>3. UnitsAt(b, 2 * h)
  <2>1. 2 * h \in Nat
    BY <1>1
  <2> HIDE DEF p, h
  <2>2. UnitsAt(p, 2 * h) /\ UnitsAt(u, 2 * h + Len(p))
    BY DEF p, h
  <2>3. QED BY <1>1, <2>1, <2>2, UnitsJoin
<1>f. o \in Chans /\ Heeds(o, s)
  <2> HIDE DEF whole
  <2>1. QED BY OnceOffKeeps
<1>h. /\ SendPart(o, s) /\ o.ticks = s.ticks /\ o.pending = s.pending /\ o.heard = s.heard
      /\ o.told = s.told /\ o.reads = s.reads /\ o.cut = s.cut /\ o.connected = s.connected
      /\ o.refed = s.refed /\ o.ops = s.ops /\ o.started = s.started
  <2> HIDE DEF o
  <2>1. QED BY <1>f DEF Heeds, HearPart
<1>o. OnData(s, u) = r
  <2>1. o.heard = s.heard
    BY <1>h
  <2> HIDE DEF o
  <2>2. [o EXCEPT !.heard = @ \o new, !.pending = rest] = r
    BY <2>1
  <2>3. QED BY <2>2 DEF OnData, o
<1> HIDE DEF o
<1> HIDE DEF p, h, b
<1>4. whole \in Nat /\ 2 * whole <= l /\ l <= 2 * whole + 1
  <2> HIDE DEF l
  <2>1. QED BY <1>2
<1> HIDE DEF l, whole
<1>5. \A k \in 1..whole : 2 * k \in 1..l /\ b[2 * k] \in ForkUnits
  <2>1. \A k \in 1..whole : 2 * k \in 1..l
    BY <1>2, <1>4
  <2>2. \A k \in 1..l : b[k] \in ForkUnits
    BY <1>2 DEF l
  <2>3. QED BY <2>1, <2>2
<1>6. ASSUME NEW k \in 1..whole PROVE b[2 * k].m = h + k
  <2>1. AtPlace(b[2 * k], 2 * h + 2 * k)
    BY <1>3, <1>5 DEF UnitsAt, l
  <2>2. b[2 * k].m \in Nat
    BY <1>5 DEF ForkUnits
  <2> DEFINE m == b[2 * k].m
  <2>3. (2 * h + 2 * k = 2 * m - 1 \/ 2 * h + 2 * k = 2 * m) /\ m \in Nat
    BY <2>1, <2>2 DEF AtPlace
  <2> HIDE DEF m
  <2>4. m = h + k
    BY <1>1, <1>4, <2>3
  <2>5. QED BY <2>4 DEF m
<1>7. new \in Seq(Nat) /\ Len(new) = whole /\ \A k \in 1..whole : new[k] = h + k
  <2>1. \A k \in 1..whole : b[2 * k].m \in Nat
    BY <1>5 DEF ForkUnits
  <2>2. new \in [1..whole -> Nat]
    BY <2>1
  <2>3. new \in Seq(Nat) /\ Len(new) = whole
    BY <1>4, <2>2
  <2>4. \A k \in 1..whole : new[k] = h + k
    BY <1>6
  <2>5. QED BY <2>3, <2>4
<1> HIDE DEF new
<1>8. /\ hears \in Seq(Nat) /\ Len(hears) = h + whole
      /\ \A k \in 1..Len(hears) : hears[k] = k
  <2>1. /\ hears \in Seq(Nat) /\ Len(hears) = h + whole
        /\ \A k \in 1..h : hears[k] = s.heard[k]
        /\ \A k \in 1..Len(hears) : k > h => hears[k] = new[k - h]
    BY <1>1, <1>7, ConcatProperties DEF h
  <2>2. \A k \in 1..h : s.heard[k] = k
    BY DEF HearOK, h
  <2> HIDE DEF hears
  <2>3. ASSUME NEW k \in 1..Len(hears) PROVE hears[k] = k
    <3>1. CASE k <= h
      <4>1. k \in 1..h
        BY <1>1, <3>1
      <4>2. QED BY <2>1, <2>2, <4>1
    <3>2. CASE k > h
      <4>1. k - h \in 1..whole /\ h + (k - h) = k
        BY <1>1, <1>4, <2>1, <3>2
      <4>2. QED BY <1>7, <2>1, <3>2, <4>1
    <3>3. QED BY <1>1, <3>1, <3>2
  <2>4. QED BY <2>1, <2>3
<1>9. rest \in Seq(ForkUnits) /\ Len(rest) = l - 2 * whole /\ UnitsAt(rest, 2 * h + 2 * whole)
  <2>1. 2 * whole + 1 \in 1..(l + 1) /\ l \in ((2 * whole + 1) - 1)..l /\ 2 * h \in Nat
    BY <1>1, <1>2, <1>4
  <2> DEFINE i == 2 * whole + 1
             q == 2 * h
  <2>2. /\ SubSeq(b, i, l) \in Seq(ForkUnits) /\ Len(SubSeq(b, i, l)) = l - i + 1
        /\ UnitsAt(SubSeq(b, i, l), q + i - 1)
    <3>1. i \in 1..(Len(b) + 1) /\ l \in (i - 1)..Len(b) /\ q \in Nat /\ UnitsAt(b, q)
      BY <1>3, <2>1 DEF l
    <3> HIDE DEF i, q, l
    <3>2. QED BY <1>2, <3>1, UnitsPart
  <2>3. l - i + 1 = l - 2 * whole /\ q + i - 1 = 2 * h + 2 * whole
    BY <1>1, <1>2, <1>4
  <2> HIDE DEF i, q
  <2>4. UnitsAt(SubSeq(b, i, l), 2 * h + 2 * whole) /\ Len(SubSeq(b, i, l)) = l - 2 * whole
    BY <2>2, <2>3
  <2>5. QED BY <2>2, <2>4 DEF i
<1> HIDE DEF hears, rest
<1>10. /\ r \in Chans /\ SendPart(r, s) /\ r.ticks = s.ticks /\ r.told = s.told
       /\ r.reads = s.reads /\ r.cut = s.cut /\ r.connected = s.connected /\ r.refed = s.refed
       /\ r.ops = s.ops /\ r.started = s.started /\ r.heard = hears /\ r.pending = rest
  <2>1. /\ r \in Chans /\ SendPart(r, o) /\ r.ticks = o.ticks /\ r.told = o.told
        /\ r.reads = o.reads /\ r.cut = o.cut /\ r.connected = o.connected /\ r.refed = o.refed
        /\ r.ops = o.ops /\ r.started = o.started /\ r.heard = hears /\ r.pending = rest
    BY <1>f, <1>8, <1>9 DEF Chans, SendPart
  <2> HIDE DEF r, o
  <2>2. QED BY <1>h, <2>1 DEF SendPart
<1> HIDE DEF r
<1>11. HearOK(r)
  BY <1>8, <1>10 DEF HearOK
<1>12. /\ Len(r.pending) <= 1 /\ UnitsAt(r.pending, 2 * Len(r.heard))
       /\ 2 * Len(r.heard) + Len(r.pending) = 2 * h + Len(p) + Len(u)
  <2>1. 2 * (h + whole) = 2 * h + 2 * whole
    BY <1>1, <1>4
  <2>2. UnitsAt(r.pending, 2 * Len(r.heard))
    BY <1>8, <1>9, <1>10, <2>1
  <2>3. Len(rest) <= 1
    BY <1>2, <1>4, <1>9
  <2>4. 2 * (h + whole) + (l - 2 * whole) = 2 * h + Len(p) + Len(u)
    BY <1>1, <1>2, <1>4
  <2>5. QED BY <1>8, <1>9, <1>10, <2>2, <2>3, <2>4
<1>13. QED BY <1>o, <1>10, <1>11, <1>12 DEF h, p

-----------------------------------------------------------------------------
EndOK(s) == s \in Chans /\ HoldOK(s) /\ SendOK(s) /\ HearOK(s)

\* A receiving end q, its peer p and what is on the wire between them.  While
\* q hears, the ticks and the wire are what p has written; an end that was
\* told of the peer's end, and did not disconnect itself, has heard it all.
Pair(q, p, u) ==
  /\ q.connected /\ q.left = "no" =>
       /\ Upto(q, 2 * Wrote(p) - Len(u)) /\ UnitsAt(u, 2 * Wrote(p) - Len(u))
       /\ ~q.reads => u = <<>> /\ Left(p)
  /\ ~q.connected /\ ~q.cut /\ p.left # "killed" => Left(p) /\ Len(q.heard) = p.sent
ForkInv ==
  ForkTypes /\ \A e \in Ends : EndOK(chan[e]) /\ Pair(chan[e], chan[Peer(e)], wire[e])

LEMMA PeerFacts ==
  ASSUME NEW e \in Ends
  PROVE  Peer(e) \in Ends /\ Peer(e) # e /\ Peer(Peer(e)) = e /\ \A d \in Ends : d = e \/ d = Peer(e)
BY ForkAssumption DEF ForkAssumption, Ends, Peer

LEMMA UptoPlace ==
  ASSUME NEW s \in Chans, NEW w, Upto(s, w)
  PROVE  /\ w \in Nat /\ 2 * Len(s.heard) + Len(s.pending) \in Nat
         /\ Len(s.heard) \in Nat /\ Len(s.pending) \in Nat
<1>1. s.heard \in Seq(Nat) /\ s.pending \in Seq(ForkUnits) /\ s.ticks \in Seq(ForkTicks)
  BY DEF Chans
<1>2. Len(s.heard) \in Nat /\ Len(s.pending) \in Nat /\ Len(s.ticks) \in Nat
  BY <1>1
<1>3. w \in Nat
  BY <1>2 DEF Upto, TicksAt
<1> DEFINE h == Len(s.heard)
           p == Len(s.pending)
<1>4. h \in Nat /\ p \in Nat
  BY <1>2
<1>5. 2 * h + p \in Nat
  <2> HIDE DEF h, p
  <2>1. QED BY <1>4
<1>6. QED BY <1>3, <1>4, <1>5

LEMMA SendKept ==
  ASSUME NEW s \in Chans, SendOK(s), NEW r, SendPart(r, s), r.connected => s.connected
  PROVE  SendOK(r) /\ Wrote(r) = Wrote(s) /\ (Left(r) <=> Left(s))
BY DEF SendPart, SendOK, Wrote, Waits, Left

\* A step of the end that sends, seen from the one that hears.
LEMMA PeerSteps ==
  ASSUME NEW q, NEW s, NEW u, Pair(q, s, u), NEW r, Wrote(r) = Wrote(s),
         Left(s) => Left(r) /\ r.sent = s.sent, s.left = "killed" => r.left = "killed"
  PROVE  Pair(q, r, u)
BY DEF Pair

\* A step of the end that hears which is none of its channel's.
LEMMA HearKept ==
  ASSUME NEW p, NEW s, NEW u, Pair(s, p, u), NEW r, HearPart(r, s), r.left = "no" => s.left = "no"
  PROVE  Pair(r, p, u)
BY DEF Pair, HearPart, Upto

\* A tick without data.
LEMMA MarkKept ==
  ASSUME NEW p, NEW s \in Chans, NEW u, Pair(s, p, u), NEW t \in ForkTicks, t.op # "data"
  PROVE  Pair(Queued(s, t), p, u)
<1> DEFINE r == Queued(s, t)
<1>1. /\ SendPart(r, s) /\ r.ticks = Append(s.ticks, t)
      /\ r.pending = s.pending /\ r.heard = s.heard /\ r.reads = s.reads
      /\ r.cut = s.cut /\ r.connected = s.connected
  BY QueuedTypes
<1> HIDE DEF r
<1>2. ASSUME NEW w, Upto(s, w) PROVE Upto(r, w)
  <2>1. s.ticks \in Seq(ForkTicks)
    BY DEF Chans
  <2>2. w \in Nat /\ 2 * Len(s.heard) + Len(s.pending) \in Nat
    BY <1>2, UptoPlace
  <2> DEFINE from == 2 * Len(s.heard) + Len(s.pending)
  <2>3. TicksAt(s.ticks, from, w) /\ TickAt(t, w, w)
    BY <1>2 DEF Upto, TickAt
  <2>4. TicksAt(Append(s.ticks, t), from, w)
    <3>1. from \in Nat
      BY <2>2
    <3> HIDE DEF from
    <3>2. QED BY <2>1, <2>2, <2>3, <3>1, TicksMore
  <2>5. QED BY <1>1, <1>2, <2>4 DEF Upto
<1>3. Pair(r, p, u)
  BY <1>1, <1>2 DEF Pair, SendPart
<1>4. QED BY <1>3 DEF r

\* An end takes a step.
LEMMA OneEnd ==
  ASSUME ForkInv, NEW e \in Ends, NEW r, EndOK(r), Becomes(e, r),
         wire' \in [Ends -> Seq(ForkUnits)], budget' \in [Ends -> Nat],
         Pair(r, chan[Peer(e)], wire'[e]), Pair(chan[Peer(e)], r, wire'[Peer(e)])
  PROVE  ForkInv'
<1>1. /\ chan' \in [Ends -> Chans] /\ chan'[e] = r /\ chan'[Peer(e)] = chan[Peer(e)]
  BY PeerFacts DEF ForkInv, ForkTypes, Becomes, EndOK
<1>2. ForkTypes'
  BY <1>1 DEF ForkTypes
<1>3. ASSUME NEW d \in Ends PROVE EndOK(chan'[d]) /\ Pair(chan'[d], chan'[Peer(d)], wire'[d])
  <2>1. CASE d = e
    BY <1>1, <2>1
  <2>2. CASE d = Peer(e)
    BY <1>1, <2>2, PeerFacts DEF ForkInv
  <2>3. QED BY <2>1, <2>2, PeerFacts
<1>4. QED BY <1>2, <1>3 DEF ForkInv

\* A step that leaves what it sends and its end of the wire alone.
LEMMA LocalStep ==
  ASSUME ForkInv, NEW e \in Ends, NEW r, r \in Chans, HoldOK(r), HearOK(r), SendPart(r, chan[e]),
         r.connected => chan[e].connected, Pair(r, chan[Peer(e)], wire[e]),
         Becomes(e, r), wire' = wire, budget' = budget
  PROVE  ForkInv'
<1> DEFINE s == chan[e]
<1>1. s \in Chans /\ SendOK(s) /\ Pair(chan[Peer(e)], s, wire[Peer(e)])
  BY PeerFacts DEF ForkInv, EndOK
<1>2. SendOK(r) /\ Wrote(r) = Wrote(s) /\ (Left(r) <=> Left(s))
  <2> HIDE DEF s
  <2>1. SendPart(r, s) /\ (r.connected => s.connected)
    BY DEF s
  <2>2. QED BY <1>1, <2>1, SendKept
<1>3. Pair(chan[Peer(e)], r, wire[Peer(e)])
  <2>1. r.sent = s.sent /\ r.left = s.left
    BY DEF SendPart
  <2> HIDE DEF s
  <2>2. QED BY <1>1, <1>2, <2>1, PeerSteps
<1>4. wire' \in [Ends -> Seq(ForkUnits)] /\ budget' \in [Ends -> Nat]
  BY DEF ForkInv, ForkTypes
<1>5. QED BY <1>2, <1>3, <1>4, OneEnd DEF EndOK

LEMMA CalmStep ==
  ASSUME ForkInv, NEW e \in Ends, NEW r, Calm(r, chan[e]), Becomes(e, r), wire' = wire,
         budget' = budget
  PROVE  ForkInv'
<1> DEFINE s == chan[e]
           p == chan[Peer(e)]
<1>1. EndOK(s) /\ Pair(s, p, wire[e])
  BY DEF ForkInv
<1>2. r \in Chans /\ HoldOK(r) /\ SendPart(r, s) /\ HearPart(r, s)
  BY DEF Calm
<1>3. HearOK(r)
  BY <1>1, <1>2 DEF EndOK, HearOK, HearPart
<1>4. Pair(r, p, wire[e])
  BY <1>1, <1>2, HearKept DEF SendPart
<1>5. QED BY <1>2, <1>3, <1>4, LocalStep DEF HearPart

\* shutdown(): the hold is let go and 'disconnect' queued.
LEMMA ShutdownTypes ==
  ASSUME NEW s \in Chans, HoldOK(s), HearOK(s), s.connected
  PROVE  LET r == Shutdown(s) IN
         /\ r \in Chans /\ HoldOK(r) /\ HearOK(r) /\ SendPart(r, s) /\ ~r.connected
         /\ r.heard = s.heard /\ r.cut = s.cut
<1> DEFINE h == Unhold(s)
           k == [h EXCEPT !.connected = FALSE]
           t == [op |-> "disconnect"]
           r == Queued(k, t)
<1>1. Shutdown(s) = r
  BY DEF Shutdown
<1>2. Calm(h, s) /\ h \in Chans /\ ~h.refed
  BY UnholdKeeps DEF Calm
<1> HIDE DEF h
<1>3. /\ k \in Chans /\ SendPart(k, h) /\ ~k.connected /\ ~k.refed /\ k.ops = h.ops
      /\ k.ticks = h.ticks /\ k.heard = h.heard /\ k.told = h.told /\ k.reads = h.reads
      /\ k.cut = h.cut
  BY <1>2 DEF Chans, SendPart
<1> HIDE DEF k
<1>t. t \in ForkTicks /\ t.op = "disconnect"
  BY MarkTypes
<1> HIDE DEF t
<1>4. HearOK(k)
  BY <1>2, <1>3 DEF Calm, HearPart, HearOK
<1>5. /\ r \in Chans /\ SendPart(r, k) /\ r.heard = k.heard /\ r.cut = k.cut /\ ~r.connected
      /\ ~r.refed /\ r.ops = k.ops
  BY <1>3, <1>t, QueuedTypes
<1>6. HearOK(r)
  BY <1>3, <1>4, <1>t, QueuedHears
<1> HIDE DEF r
<1>7. SendPart(r, s) /\ r.heard = s.heard /\ r.cut = s.cut
  BY <1>2, <1>3, <1>5 DEF Calm, HearPart, SendPart
<1>8. HoldOK(r)
  <2>1. r.queue = h.queue /\ r.blocked = h.blocked /\ r.ops = h.ops
    BY <1>3, <1>5 DEF SendPart
  <2>2. HoldOK(h) /\ (r.refed <=> h.refed)
    BY <1>2, <1>5 DEF Calm
  <2>3. QED BY <1>5, <2>1, <2>2, HoldSame
<1>9. QED BY <1>1, <1>5, <1>6, <1>7, <1>8

\* disconnect(): the end hears no more, and does not say that it heard all.
LEMMA CutStep ==
  ASSUME ForkInv, NEW e \in Ends, NEW s \in Chans, HoldOK(s), HearOK(s), s.connected,
         SendPart(s, chan[e]), chan[e].connected,
         Becomes(e, [Shutdown(s) EXCEPT !.cut = TRUE]), wire' = wire, budget' = budget
  PROVE  ForkInv'
<1> DEFINE d == Shutdown(s)
           r == [d EXCEPT !.cut = TRUE]
<1>1. /\ d \in Chans /\ HoldOK(d) /\ HearOK(d) /\ SendPart(d, s) /\ ~d.connected
  BY ShutdownTypes
<1>b. Becomes(e, r)
  OBVIOUS
<1> HIDE DEF d
<1>2. /\ r \in Chans /\ SendPart(r, d) /\ ~r.connected /\ r.cut /\ r.heard = d.heard
      /\ r.told = d.told /\ r.ticks = d.ticks /\ r.reads = d.reads /\ r.ops = d.ops
      /\ r.refed = d.refed
  BY <1>1 DEF Chans, SendPart
<1> HIDE DEF r
<1>3. HearOK(r) /\ HoldOK(r)
  <2>1. HearOK(r)
    BY <1>1, <1>2 DEF HearOK
  <2>2. ~r.refed /\ ~d.refed
    BY <1>1, <1>2 DEF HoldOK
  <2>3. HoldOK(r)
    BY <1>1, <1>2, <2>2, HoldSame DEF SendPart
  <2>4. QED BY <2>1, <2>3
<1>4. SendPart(r, chan[e])
  BY <1>1, <1>2 DEF SendPart
<1>5. Pair(r, chan[Peer(e)], wire[e])
  BY <1>2 DEF Pair
<1>6. QED BY <1>b, <1>2, <1>3, <1>4, <1>5, LocalStep

-----------------------------------------------------------------------------
LEMMA ForkInit == ASSUME KInit PROVE ForkInv
<1>1. ASSUME NEW e \in Ends PROVE NewEnd(e) \in Chans /\ EndOK(NewEnd(e))
  <2>1. NewEnd(e) \in Chans
    BY EmptySeq DEF NewEnd, Chans
  <2> DEFINE s == NewEnd(e)
  <2>2. /\ s.queue = <<>> /\ s.blocked = 0 /\ s.sent = 0 /\ s.heard = <<>> /\ s.ticks = <<>>
        /\ s.told = -1 /\ s.open /\ s.left = "no" /\ s.connected
        /\ s.ops = IF s.refed THEN 1 ELSE 0
    BY DEF NewEnd
  <2> HIDE DEF s
  <2>3. HoldOK(s) /\ SendOK(s) /\ HearOK(s)
    BY <2>2 DEF HoldOK, SendOK, HearOK, Waits, Wrote, Left
  <2>4. QED BY <2>1, <2>3 DEF EndOK, s
<1>2. ASSUME NEW e \in Ends, NEW d \in Ends PROVE Pair(NewEnd(e), NewEnd(d), <<>>)
  <2> DEFINE q == NewEnd(e)
             p == NewEnd(d)
  <2>1. /\ q.connected /\ q.reads /\ q.heard = <<>> /\ q.pending = <<>> /\ q.ticks = <<>>
        /\ p.sent = 0 /\ p.queue = <<>> /\ p.blocked = 0
    BY DEF NewEnd
  <2> HIDE DEF q, p
  <2>2. Wrote(p) = 0
    <3>1. Len(p.queue) = 0
      BY <2>1
    <3>2. Waits(p) = 0
      BY <2>1 DEF Waits
    <3>3. p.sent = 0
      BY <2>1
    <3>4. QED BY <3>1, <3>2, <3>3 DEF Wrote
  <2>3. TicksAt(<<>>, 0, 0)
    BY TicksEmpty
  <2>4. Pair(q, p, <<>>)
    BY <2>1, <2>2, <2>3 DEF Pair, Upto, UnitsAt
  <2>5. QED BY <2>4 DEF q, p
<1>3. chan \in [Ends -> Chans] /\ wire \in [Ends -> Seq(ForkUnits)] /\ budget \in [Ends -> Nat]
  <2>1. <<>> \in Seq(ForkUnits)
    BY EmptySeq
  <2>2. PICK b \in Budgets : budget = b.sends
    BY DEF KInit
  <2>3. b.sends \in [{Parent, Child} -> Nat]
    BY <2>2, ForkAssumption DEF ForkAssumption
  <2>4. QED BY <1>1, <2>1, <2>2, <2>3 DEF KInit, Ends
<1>4. ASSUME NEW e \in Ends PROVE EndOK(chan[e]) /\ Pair(chan[e], chan[Peer(e)], wire[e])
  BY <1>1, <1>2, PeerFacts DEF KInit
<1>5. QED BY <1>3, <1>4 DEF ForkInv, ForkTypes

LEMMA SendStep == ASSUME ForkInv, NEW e \in Ends, Send(e) PROVE ForkInv'
<1> DEFINE s == chan[e]
           m == s.sent + 1
           n == s.ops + 1
           begun == [s EXCEPT !.sent = m, !.ops = n]
           q == IF Len(s.queue) <= WritesCap THEN Append(s.queue, m) ELSE s.queue
           b == IF Len(s.queue) <= WritesCap THEN 0 ELSE m
           r == [s EXCEPT !.sent = m, !.ops = n, !.queue = q, !.blocked = b]
<1>1. EndOK(s) /\ Pair(s, chan[Peer(e)], wire[e]) /\ Pair(chan[Peer(e)], s, wire[Peer(e)])
  BY PeerFacts DEF ForkInv
<1>2. /\ s.left = "no" /\ s.blocked = 0 /\ s.connected /\ wire' = wire
      /\ budget' = [budget EXCEPT ![e] = @ - 1] /\ budget[e] > 0
      /\ Becomes(e, IF Len(begun.queue) <= WritesCap THEN [begun EXCEPT !.queue = Append(@, m)]
                    ELSE [begun EXCEPT !.blocked = m])
  BY DEF Send, Runs
<1>3. s \in Chans /\ s.sent \in Nat /\ s.ops \in Int /\ s.queue \in Seq(Nat)
  BY <1>1 DEF EndOK, Chans
<1>4. Becomes(e, r)
  <2>1. begun.queue = s.queue
    BY <1>3 DEF Chans
  <2>2. CASE Len(s.queue) <= WritesCap
    <3>1. [begun EXCEPT !.queue = Append(@, m)] = r
      BY <1>2, <1>3, <2>2 DEF Chans
    <3>2. QED BY <1>2, <2>1, <2>2, <3>1
  <2>3. CASE ~(Len(s.queue) <= WritesCap)
    <3>1. [begun EXCEPT !.blocked = m] = r
      BY <1>3, <2>3 DEF Chans
    <3>2. QED BY <1>2, <2>1, <2>3, <3>1
  <2>4. QED BY <2>2, <2>3
<1>5. m \in Nat /\ n \in Int /\ q \in Seq(Nat) /\ b \in Nat
  BY <1>3
<1> DEFINE l == Len(s.queue)
<1>6. \/ q = Append(s.queue, m) /\ b = 0
      \/ q = s.queue /\ b = m /\ q # <<>>
  <2>1. CASE l <= WritesCap
    BY <2>1
  <2>2. CASE ~(l <= WritesCap)
    <3>1. s.queue # <<>>
      <4>1. WritesCap \in Nat
        BY ForkAssumption DEF ForkAssumption
      <4>2. s.queue = <<>> => l = 0
        OBVIOUS
      <4> HIDE DEF l
      <4>3. QED BY <2>2, <4>1, <4>2
    <3>2. QED BY <2>2, <3>1
  <2>3. QED BY <2>1, <2>2
<1>7. m = s.sent + 1 /\ n = s.ops + 1 /\ l \in Nat /\ m # 0
  BY <1>3
<1>8. /\ r \in Chans /\ HearPart(r, s) /\ r.sent = m /\ r.ops = n /\ r.queue = q /\ r.blocked = b
      /\ r.open = s.open /\ r.left = s.left /\ r.refed = s.refed
  <2> HIDE DEF m, n, q, b
  <2>1. QED BY <1>3, <1>5 DEF Chans, HearPart
<1> HIDE DEF begun, r, q, b, m, n
<1>9. s.ops = (IF s.refed THEN 1 ELSE 0) + l /\ Wrote(s) = s.sent - l /\ Wrote(s) \in Nat
  <2>1. s.ops = (IF s.refed THEN 1 ELSE 0) + l + 0 /\ Waits(s) = 0
    BY <1>1, <1>2 DEF EndOK, HoldOK, Waits
  <2>2. Wrote(s) = s.sent - l - 0 /\ Wrote(s) \in Nat
    BY <1>1, <2>1 DEF EndOK, SendOK, Wrote
  <2> HIDE DEF l
  <2>3. QED BY <1>3, <1>7, <2>1, <2>2
<1>10. \A k \in 1..l : s.queue[k] = Wrote(s) + k
  BY <1>1 DEF EndOK, SendOK
<1> DEFINE w == Wrote(s)
<1>11. HoldOK(r) /\ Wrote(r) = w /\ \A k \in 1..Len(q) : q[k] = w + k
  <2>1. CASE q = Append(s.queue, m) /\ b = 0
    <3>1. Len(q) = l + 1 /\ q[l + 1] = m /\ \A k \in 1..l : q[k] = s.queue[k]
      BY <1>3, <1>5, <2>1
    <3>2. Waits(r) = 0
      BY <1>8, <2>1 DEF Waits
    <3>w. w = s.sent - l /\ w \in Nat
      BY <1>9
    <3> HIDE DEF l, w
    <3>3. Wrote(r) = w
      <4>1. Wrote(r) = m - (l + 1) - 0
        BY <1>8, <2>1, <3>1, <3>2 DEF Wrote
      <4>2. m - (l + 1) - 0 = w
        BY <1>3, <1>7, <3>w, SMTT(20)
      <4>3. QED BY <4>1, <4>2
    <3>4. r.ops = (IF r.refed THEN 1 ELSE 0) + Len(r.queue) + Waits(r)
      <4> DEFINE h == IF s.refed THEN 1 ELSE 0
      <4>1. n = h + (l + 1) + 0
        <5>1. s.ops = h + l /\ h \in Nat
          BY <1>9
        <5> HIDE DEF h
        <5>2. QED BY <1>7, <5>1
      <4>2. Len(r.queue) = l + 1
        BY <1>8, <3>1
      <4>3. QED BY <1>8, <3>2, <4>1, <4>2
    <3>5. m = w + (l + 1)
      BY <1>3, <1>7, <3>w, SMTT(20)
    <3>6. \A k \in 1..(l + 1) : k \in 1..l \/ k = l + 1
      BY <1>7
    <3>7. \A k \in 1..Len(q) : q[k] = w + k
      BY <1>10, <3>1, <3>5, <3>6 DEF l, w
    <3>8. HoldOK(r)
      BY <1>2, <1>8, <3>4 DEF HoldOK, HearPart
    <3>9. QED BY <3>3, <3>7, <3>8
  <2>2. CASE q = s.queue /\ b = m /\ q # <<>>
    <3>1. Len(q) = l
      BY <2>2
    <3>2. Waits(r) = 1
      BY <1>7, <1>8, <2>2 DEF Waits
    <3>w. w = s.sent - l /\ w \in Nat
      BY <1>9
    <3> HIDE DEF l, w
    <3>3. Wrote(r) = w
      BY <1>3, <1>7, <1>8, <3>1, <3>2, <3>w, SMTT(20) DEF Wrote
    <3>4. r.ops = (IF r.refed THEN 1 ELSE 0) + Len(r.queue) + Waits(r)
      <4>1. n = (IF s.refed THEN 1 ELSE 0) + l + 1
        BY <1>3, <1>7, <1>9
      <4>2. QED BY <1>8, <3>1, <3>2, <4>1
    <3>7. \A k \in 1..Len(q) : q[k] = w + k
      BY <1>10, <2>2, <3>1 DEF l, w
    <3>8. HoldOK(r)
      BY <1>2, <1>8, <3>4 DEF HoldOK, HearPart
    <3>9. QED BY <3>3, <3>7, <3>8
  <2>3. QED BY <1>6, <2>1, <2>2
<1>12. r.open /\ r.left = "no" /\ ~Left(s) /\ ~Left(r)
  BY <1>1, <1>2, <1>8 DEF EndOK, SendOK, Left
<1>13. SendOK(r)
  <2>1. r.blocked # 0 => r.blocked = r.sent /\ r.queue # <<>>
    BY <1>6, <1>8
  <2>2. QED BY <1>8, <1>9, <1>11, <1>12, <2>1 DEF SendOK
<1>14. HearOK(r)
  BY <1>1, <1>8 DEF EndOK, HearOK, HearPart
<1>15. Pair(r, chan[Peer(e)], wire[e])
  BY <1>1, <1>2, <1>8, HearKept
<1>16. Pair(chan[Peer(e)], r, wire[Peer(e)])
  <2>1. Wrote(r) = Wrote(s) /\ ~Left(s) /\ s.left # "killed"
    BY <1>2, <1>11, <1>12
  <2> HIDE DEF s
  <2>2. QED BY <1>1, <2>1, PeerSteps
<1>17. wire' \in [Ends -> Seq(ForkUnits)] /\ budget' \in [Ends -> Nat]
  BY <1>2 DEF ForkInv, ForkTypes
<1>18. QED BY <1>2, <1>4, <1>8, <1>11, <1>13, <1>14, <1>15, <1>16, <1>17, OneEnd DEF EndOK

LEMMA UserCalls ==
  ASSUME ForkInv, NEW e \in Ends, SendRefused(e) \/ Listen(e) \/ Ref(e) \/ Unref(e) \/ Disconnect(e)
  PROVE  ForkInv'
<1> DEFINE s == chan[e]
           p == chan[Peer(e)]
<1>1. s \in Chans /\ HoldOK(s) /\ HearOK(s) /\ Pair(s, p, wire[e])
  BY DEF ForkInv, EndOK
<1>2. ASSUME Becomes(e, Queued(s, [op |-> "error"])), wire' = wire, budget' = budget
      PROVE  ForkInv'
  <2> DEFINE t == [op |-> "error"]
             r == Queued(s, t)
  <2>1. t \in ForkTicks /\ t.op = "error"
    BY MarkTypes
  <2>b. Becomes(e, r)
    BY <1>2
  <2> HIDE DEF t
  <2>2. /\ r \in Chans /\ SendPart(r, s) /\ r.connected = s.connected /\ r.refed = s.refed
        /\ r.ops = s.ops
    BY <1>1, <2>1, QueuedTypes
  <2>3. HearOK(r) /\ Pair(r, p, wire[e])
    BY <1>1, <2>1, QueuedHears, MarkKept
  <2> HIDE DEF r
  <2>4. HoldOK(r)
    BY <1>1, <2>2 DEF HoldOK, SendPart, Waits
  <2>5. QED BY <1>2, <2>b, <2>2, <2>3, <2>4, LocalStep
<1>3. CASE SendRefused(e)
  BY <1>2, <1>3 DEF SendRefused, Calls
<1>4. CASE Listen(e)
  <2>h. PICK how \in {"none", "on", "once"} :
          LET k == [s EXCEPT !.listening = how, !.byOnce = FALSE] IN
          Becomes(e, IF e = Child THEN UpdateRef(k) ELSE k)
    BY <1>4 DEF Listen, Calls
  <2> DEFINE r == [s EXCEPT !.listening = how, !.byOnce = FALSE]
             u == IF e = Child THEN UpdateRef(r) ELSE r
  <2>1. Becomes(e, u) /\ wire' = wire /\ budget' = budget
    BY <1>4, <2>h DEF Listen, Calls
  <2>2. Calm(r, s) /\ r \in Chans /\ HoldOK(r)
    BY <1>1, FlagTypes, FlagKeeps DEF Calm
  <2> HIDE DEF r
  <2>3. Calm(u, s)
    <3>1. Calm(UpdateRef(r), s)
      BY <2>2, UpdateRefKeeps, CalmCalm
    <3>2. QED BY <2>2, <3>1
  <2> HIDE DEF u
  <2>4. QED BY <2>1, <2>3, CalmStep
<1>5. CASE Ref(e)
  <2> DEFINE r == [s EXCEPT !.explicit = TRUE]
             h == Hold(r)
             u == [h EXCEPT !.started = TRUE]
  <2>1. Becomes(e, u) /\ wire' = wire /\ budget' = budget
    BY <1>5, SMTT(20) DEF Ref, Calls, StartReader
  <2>2. Calm(r, s) /\ r \in Chans /\ HoldOK(r)
    BY <1>1, FlagTypes, FlagKeeps DEF Calm
  <2> HIDE DEF r
  <2>3. Calm(h, r) /\ h \in Chans /\ HoldOK(h)
    BY <2>2, HoldKeeps, SMTT(20) DEF Calm
  <2> HIDE DEF h
  <2>4. Calm(u, h)
    BY <2>3, FlagTypes, FlagKeeps
  <2> HIDE DEF u
  <2>5. Calm(u, s)
    BY <2>2, <2>3, <2>4, CalmCalm
  <2>6. QED BY <2>1, <2>5, CalmStep
<1>6. CASE Unref(e)
  <2> DEFINE r == [s EXCEPT !.explicit = TRUE]
             u == Unhold(r)
  <2>1. Becomes(e, u) /\ wire' = wire /\ budget' = budget
    BY <1>6 DEF Unref, Calls
  <2>2. Calm(r, s) /\ r \in Chans /\ HoldOK(r)
    BY <1>1, FlagTypes, FlagKeeps DEF Calm
  <2> HIDE DEF r
  <2>3. Calm(u, r)
    BY <2>2, UnholdKeeps
  <2> HIDE DEF u
  <2>4. Calm(u, s)
    BY <2>2, <2>3, CalmCalm
  <2>5. QED BY <2>1, <2>4, CalmStep
<1>7. CASE Disconnect(e)
  <2>1. CASE s.connected
    <3>1. Becomes(e, [Shutdown(s) EXCEPT !.cut = TRUE]) /\ wire' = wire /\ budget' = budget
      BY <1>7, <2>1 DEF Disconnect, Calls
    <3>2. SendPart(s, chan[e]) /\ chan[e].connected
      BY <2>1 DEF SendPart
    <3> HIDE DEF s
    <3>3. QED BY <1>1, <2>1, <3>1, <3>2, CutStep
  <2>2. CASE ~s.connected
    BY <1>2, <1>7, <2>2 DEF Disconnect, Calls
  <2>3. QED BY <2>1, <2>2
<1>8. QED BY <1>3, <1>4, <1>5, <1>6, <1>7

\* The head of the ticks is taken.
LEMMA TakenTypes ==
  ASSUME NEW s \in Chans, s.ticks # <<>>
  PROVE  LET r == [s EXCEPT !.ticks = Tail(@)] IN
         /\ r \in Chans /\ SendPart(r, s) /\ r.ticks = Tail(s.ticks)
         /\ r.pending = s.pending /\ r.heard = s.heard /\ r.told = s.told /\ r.reads = s.reads
         /\ r.cut = s.cut /\ r.connected = s.connected /\ r.refed = s.refed /\ r.ops = s.ops
         /\ Head(s.ticks) \in ForkTicks /\ Tail(s.ticks) \in Seq(ForkTicks)
         /\ Head(s.ticks) = s.ticks[1] /\ Len(s.ticks) \in Nat /\ Len(s.ticks) > 0
<1> DEFINE ticks == Tail(s.ticks)
           r == [s EXCEPT !.ticks = ticks]
<1>1. /\ Head(s.ticks) \in ForkTicks /\ ticks \in Seq(ForkTicks)
      /\ Head(s.ticks) = s.ticks[1] /\ Len(s.ticks) \in Nat /\ Len(s.ticks) > 0
  <2>1. s.ticks \in Seq(ForkTicks)
    BY DEF Chans
  <2>2. QED BY <2>1
<1> HIDE DEF ticks
<1>2. /\ r \in Chans /\ SendPart(r, s) /\ r.ticks = ticks
      /\ r.pending = s.pending /\ r.heard = s.heard /\ r.told = s.told /\ r.reads = s.reads
      /\ r.cut = s.cut /\ r.connected = s.connected /\ r.refed = s.refed /\ r.ops = s.ops
  BY <1>1 DEF Chans, SendPart
<1>3. QED BY <1>1, <1>2 DEF ticks

\* A data tick of an end that hears: what Perform makes of it.
LEMMA DataStep ==
  ASSUME NEW s \in Chans, HoldOK(s), HearOK(s), s.ticks # <<>>, Head(s.ticks).op = "data", s.connected,
         NEW w, Upto(s, w)
  PROVE  LET r == Perform([s EXCEPT !.ticks = Tail(@)], Head(s.ticks)) IN
         /\ r \in Chans /\ HoldOK(r) /\ HearOK(r) /\ SendPart(r, s) /\ r.connected
         /\ r.reads = s.reads /\ r.cut = s.cut /\ Upto(r, w)
<1> DEFINE t == Head(s.ticks)
           rest == [s EXCEPT !.ticks = Tail(@)]
           r == OnData(rest, t.units)
<1>1. Perform(rest, t) = r
  BY DEF Perform
<1>2. /\ rest \in Chans /\ SendPart(rest, s) /\ rest.ticks = Tail(s.ticks)
      /\ rest.pending = s.pending /\ rest.heard = s.heard /\ rest.told = s.told
      /\ rest.reads = s.reads /\ rest.cut = s.cut /\ rest.connected = s.connected
      /\ rest.refed = s.refed /\ rest.ops = s.ops /\ t \in ForkTicks
      /\ Tail(s.ticks) \in Seq(ForkTicks)
  BY TakenTypes, Zenon
<1>3. t.units \in Seq(ForkUnits)
  BY <1>2 DEF ForkTicks, DataTicks
<1> DEFINE from == 2 * Len(s.heard) + Len(s.pending)
<1>4. from \in Nat
  BY UptoPlace
<1>5. PICK mid \in Nat : TickAt(t, from, mid) /\ TicksAt(Tail(s.ticks), mid, w)
  <2>1. s.ticks \in Seq(ForkTicks) /\ TicksAt(s.ticks, from, w)
    BY DEF Chans, Upto
  <2> HIDE DEF from
  <2>2. QED BY <1>4, <2>1, TicksFirst
<1>6. mid = from + Len(t.units) /\ UnitsAt(t.units, from)
  BY <1>5 DEF TickAt
<1> HIDE DEF rest
<1>7. HearOK(rest)
  BY <1>2, TakenHears
<1>8. Len(rest.pending) <= 1 /\ UnitsAt(rest.pending, 2 * Len(rest.heard))
  BY <1>2 DEF Upto
<1> HIDE DEF t
<1>9. /\ r \in Chans /\ HearOK(r) /\ SendPart(r, rest) /\ r.ticks = rest.ticks
      /\ r.reads = rest.reads /\ r.cut = rest.cut /\ r.connected = rest.connected
      /\ r.refed = rest.refed /\ r.ops = rest.ops
      /\ Len(r.pending) <= 1 /\ UnitsAt(r.pending, 2 * Len(r.heard))
      /\ 2 * Len(r.heard) + Len(r.pending) = 2 * Len(rest.heard) + Len(rest.pending) + Len(t.units)
  <2>1. UnitsAt(t.units, 2 * Len(rest.heard) + Len(rest.pending)) /\ rest.connected
    BY <1>2, <1>6
  <2>2. QED BY <1>2, <1>3, <1>7, <1>8, <2>1, OnDataHears
<1> HIDE DEF r
<1>10. Upto(r, w)
  <2>1. 2 * Len(r.heard) + Len(r.pending) = mid
    BY <1>2, <1>6, <1>9
  <2>2. QED BY <1>2, <1>5, <1>9, <2>1 DEF Upto
<1>11. SendPart(r, s) /\ HoldOK(r)
  BY <1>2, <1>9 DEF SendPart, HoldOK, Waits
<1>12. QED BY <1>1, <1>2, <1>9, <1>10, <1>11 DEF r, rest, t

LEMMA ListenerCuts == ASSUME ForkInv, NEW e \in Ends, ListenerDisconnects(e) PROVE ForkInv'
<1> DEFINE s == chan[e]
           ran == Perform([s EXCEPT !.ticks = Tail(@)], Head(s.ticks))
<1>1. s \in Chans /\ HoldOK(s) /\ HearOK(s) /\ Pair(s, chan[Peer(e)], wire[e])
  BY DEF ForkInv, EndOK
<1>2. /\ s.ticks # <<>> /\ Head(s.ticks).op = "data" /\ s.connected
      /\ Becomes(e, [Shutdown(ran) EXCEPT !.cut = TRUE]) /\ wire' = wire /\ budget' = budget
      /\ s.left = "no"
  BY DEF ListenerDisconnects, Calls, Runs
<1>3. PICK w : Upto(s, w)
  BY <1>1, <1>2 DEF Pair
<1>4. ran \in Chans /\ HoldOK(ran) /\ HearOK(ran) /\ SendPart(ran, s) /\ ran.connected
  <2> HIDE DEF s
  <2>1. QED BY <1>1, <1>2, <1>3, DataStep
<1> HIDE DEF ran
<1>5. SendPart(ran, chan[e]) /\ chan[e].connected
  BY <1>2, <1>4
<1>6. QED BY <1>2, <1>4, <1>5, CutStep

LEMMA RunTickStep == ASSUME ForkInv, NEW e \in Ends, RunTick(e) PROVE ForkInv'
<1> DEFINE s == chan[e]
           p == chan[Peer(e)]
           u == wire[e]
           t == Head(s.ticks)
           rest == [s EXCEPT !.ticks = Tail(@)]
<1>1. /\ s \in Chans /\ HoldOK(s) /\ HearOK(s) /\ Pair(s, p, u) /\ SendOK(s)
      /\ p \in Chans /\ SendOK(p) /\ u \in Seq(ForkUnits)
  BY PeerFacts DEF ForkInv, EndOK, ForkTypes
<1>2. /\ s.left = "no" /\ s.ticks # <<>> /\ Becomes(e, Perform(rest, t))
      /\ wire' = wire /\ budget' = budget
  BY DEF RunTick, Runs
<1>3. /\ rest \in Chans /\ SendPart(rest, s) /\ rest.ticks = Tail(s.ticks)
      /\ rest.pending = s.pending /\ rest.heard = s.heard /\ rest.told = s.told
      /\ rest.reads = s.reads /\ rest.cut = s.cut /\ rest.connected = s.connected
      /\ rest.refed = s.refed /\ rest.ops = s.ops /\ t \in ForkTicks
      /\ Tail(s.ticks) \in Seq(ForkTicks) /\ t = s.ticks[1] /\ 1 \in 1..Len(s.ticks)
  <2> HIDE DEF s
  <2>1. /\ rest \in Chans /\ SendPart(rest, s) /\ rest.ticks = Tail(s.ticks)
        /\ rest.pending = s.pending /\ rest.heard = s.heard /\ rest.told = s.told
        /\ rest.reads = s.reads /\ rest.cut = s.cut /\ rest.connected = s.connected
        /\ rest.refed = s.refed /\ rest.ops = s.ops /\ t \in ForkTicks
        /\ Tail(s.ticks) \in Seq(ForkTicks) /\ t = s.ticks[1]
        /\ Len(s.ticks) \in Nat /\ Len(s.ticks) > 0
    BY <1>1, <1>2, TakenTypes, Zenon
  <2>2. 1 \in 1..Len(s.ticks)
    <3> DEFINE n == Len(s.ticks)
    <3>1. n \in Nat /\ n > 0
      BY <2>1
    <3> HIDE DEF n
    <3>2. 1 \in 1..n
      BY <3>1
    <3>3. QED BY <3>2 DEF n
  <2>3. QED BY <2>1, <2>2
<1> HIDE DEF rest
<1>4. HearOK(rest) /\ HoldOK(rest)
  <2>1. HearOK(rest)
    <3> HIDE DEF s
    <3>1. QED BY <1>1, <1>2, <1>3, TakenHears
  <2>2. HoldOK(rest)
    BY <1>1, <1>3 DEF HoldOK, SendPart, Waits
  <2>3. QED BY <2>1, <2>2
\* A tick without data, while the end hears or not.
<1>5. ASSUME t.op # "data" \/ ~s.connected PROVE Pair(rest, p, u)
  <2>1. CASE ~s.connected
    BY <1>1, <1>3, <2>1 DEF Pair
  <2>2. CASE s.connected /\ t.op # "data"
    <3> DEFINE from == 2 * Len(s.heard) + Len(s.pending)
    <3>1. ASSUME NEW w, Upto(s, w) PROVE Upto(rest, w)
      <4>1. from \in Nat /\ s.ticks \in Seq(ForkTicks) /\ TicksAt(s.ticks, from, w)
        BY <1>1, <3>1, UptoPlace DEF Chans, Upto
      <4>2. PICK mid \in Nat : TickAt(t, from, mid) /\ TicksAt(Tail(s.ticks), mid, w)
        <5> HIDE DEF from, s
        <5>1. QED BY <1>2, <4>1, TicksFirst
      <4>3. mid = from
        BY <2>2, <4>2 DEF TickAt
      <4>4. TicksAt(rest.ticks, 2 * Len(rest.heard) + Len(rest.pending), w)
        BY <1>3, <4>2, <4>3
      <4>5. QED BY <1>3, <3>1, <4>4 DEF Upto
    <3>2. QED BY <1>1, <1>2, <1>3, <2>2, <3>1 DEF Pair
  <2>3. QED BY <1>5, <2>1, <2>2
<1>6. ASSUME t.op # "data" \/ ~s.connected, Becomes(e, rest) PROVE ForkInv'
  <2>1. rest.connected => chan[e].connected
    BY <1>3
  <2>2. SendPart(rest, chan[e])
    BY <1>3
  <2>3. Pair(rest, chan[Peer(e)], wire[e])
    BY <1>5, <1>6
  <2>4. QED BY <1>2, <1>3, <1>4, <1>6, <2>1, <2>2, <2>3, LocalStep
<1>7. CASE t.op = "data" /\ s.connected
  <2> DEFINE r == Perform(rest, t)
             w == 2 * Wrote(p) - Len(u)
  <2>1. Upto(s, w)
    BY <1>1, <1>2, <1>7 DEF Pair
  <2>2. /\ r \in Chans /\ HoldOK(r) /\ HearOK(r) /\ SendPart(r, s) /\ r.connected
        /\ r.reads = s.reads /\ r.cut = s.cut /\ Upto(r, w)
    <3> HIDE DEF s, w
    <3>1. QED BY <1>1, <1>2, <1>7, <2>1, DataStep DEF rest
  <2>3. Becomes(e, r)
    BY <1>2
  <2> HIDE DEF r
  <2>4. Pair(r, p, u)
    BY <1>1, <1>2, <1>7, <2>2 DEF Pair
  <2>5. QED BY <1>2, <1>7, <2>2, <2>3, <2>4, LocalStep
<1>8. CASE t.op = "data" /\ ~s.connected
  <2>1. Perform(rest, t) = rest
    BY <1>3, <1>8 DEF Perform, OnData
  <2>2. QED BY <1>2, <1>6, <1>8, <2>1
<1>9. CASE t.op = "error"
  <2>1. Perform(rest, t) = rest
    BY <1>9 DEF Perform
  <2>2. QED BY <1>2, <1>6, <1>9, <2>1
<1>10. CASE t.op = "disconnect"
  <2> DEFINE n == Len(rest.heard)
             r == [rest EXCEPT !.told = n]
  <2>1. Becomes(e, r)
    BY <1>2, <1>10 DEF Perform
  <2>2. ~s.connected
    BY <1>1, <1>3, <1>10 DEF HearOK
  <2>3. n \in Int
    <3>1. rest.heard \in Seq(Nat)
      BY <1>3 DEF Chans
    <3>2. QED BY <3>1
  <2>4. /\ r \in Chans /\ SendPart(r, rest) /\ r.told = n /\ r.ticks = rest.ticks
        /\ r.heard = rest.heard /\ r.reads = rest.reads /\ r.connected = rest.connected
        /\ r.cut = rest.cut /\ r.refed = rest.refed /\ r.ops = rest.ops
    <3> HIDE DEF n
    <3>1. QED BY <1>3, <2>3 DEF Chans, SendPart
  <2> HIDE DEF r
  <2>5. HearOK(r)
    BY <1>3, <1>4, <2>2, <2>4 DEF HearOK
  <2>6. HoldOK(r) /\ SendPart(r, s)
    BY <1>3, <1>4, <2>4 DEF HoldOK, SendPart, Waits
  <2>7. Pair(r, p, u)
    BY <1>1, <1>3, <2>2, <2>4 DEF Pair
  <2>8. ~r.connected
    BY <1>3, <2>2, <2>4
  <2>9. QED BY <1>2, <2>1, <2>4, <2>5, <2>6, <2>7, <2>8, LocalStep
<1>11. CASE t.op = "eof" /\ ~s.connected
  <2>1. Perform(rest, t) = rest
    BY <1>3, <1>11 DEF Perform, Shutdown
  <2>2. QED BY <1>2, <1>6, <1>11, <2>1
<1>12. CASE t.op = "eof" /\ s.connected
  <2> DEFINE r == Shutdown(rest)
  <2>1. Becomes(e, r)
    BY <1>2, <1>12 DEF Perform
  <2>2. /\ r \in Chans /\ HoldOK(r) /\ HearOK(r) /\ SendPart(r, rest) /\ ~r.connected
        /\ r.heard = rest.heard /\ r.cut = rest.cut
    <3>1. rest.connected
      BY <1>3, <1>12
    <3>2. QED BY <1>3, <1>4, <3>1, ShutdownTypes
  <2> HIDE DEF r
  <2>3. ~s.reads /\ \A j \in 2..Len(s.ticks) : s.ticks[j].op # "data"
    BY <1>1, <1>3, <1>12 DEF HearOK
  <2>4. /\ u = <<>> /\ Left(p) /\ Upto(s, 2 * Wrote(p) - Len(u))
    BY <1>1, <1>2, <1>12, <2>3 DEF Pair
  <2>5. ASSUME p.left # "killed" PROVE Len(s.heard) = p.sent
    <3>1. p.queue = <<>> /\ p.blocked = 0 /\ p.sent \in Nat
      BY <1>1, <2>4, <2>5 DEF SendOK, Chans
    <3>2. Wrote(p) = p.sent
      <4>1. Len(p.queue) = 0
        BY <3>1
      <4>2. Waits(p) = 0
        BY <3>1 DEF Waits
      <4>3. QED BY <3>1, <4>1, <4>2 DEF Wrote
    <3>3. Len(u) = 0
      BY <2>4
    <3> DEFINE h == Len(s.heard)
               q == Len(s.pending)
               w == 2 * Wrote(p) - Len(u)
               n == Len(s.ticks)
    <3>4. h \in Nat /\ q \in Nat /\ q <= 1 /\ TicksAt(s.ticks, 2 * h + q, w) /\ 2 * h + q \in Nat
      BY <1>1, <2>4, UptoPlace DEF Upto
    <3>5. \A j \in 1..n : s.ticks[j].op # "data"
      <4>1. n \in Nat
        <5>1. s.ticks \in Seq(ForkTicks)
          BY <1>1 DEF Chans
        <5>2. QED BY <5>1
      <4>2. \A j \in 1..n : j = 1 \/ j \in 2..n
        BY <4>1
      <4>3. QED BY <1>3, <1>12, <2>3, <4>2
    <3>6. w = 2 * h + q
      <4>1. s.ticks \in Seq(ForkTicks)
        BY <1>1 DEF Chans
      <4> HIDE DEF h, q, w, s
      <4>2. QED BY <3>4, <3>5, <4>1, TicksDry
    <3>7. w = 2 * p.sent
      BY <3>1, <3>2, <3>3
    <3> HIDE DEF h, q, w
    <3>8. h = p.sent
      BY <3>1, <3>4, <3>6, <3>7
    <3>9. QED BY <3>8 DEF h
  <2>6. Pair(r, p, u)
    BY <1>3, <2>2, <2>4, <2>5 DEF Pair
  <2>7. SendPart(r, s)
    BY <1>3, <2>2 DEF SendPart
  <2>8. QED BY <1>2, <2>1, <2>2, <2>6, <2>7, LocalStep
<1>13. t.op \in {"data", "disconnect", "eof", "error"}
  BY <1>3 DEF ForkTicks, DataTicks
<1>14. QED BY <1>7, <1>8, <1>9, <1>10, <1>11, <1>12, <1>13

-----------------------------------------------------------------------------
\* An end leaves, or closes its side: an orderly one has written everything.
LEMMA LeaveStep ==
  ASSUME ForkInv, NEW e \in Ends, NEW r \in Chans, HearPart(r, chan[e]), r.sent = chan[e].sent,
         r.queue = chan[e].queue, r.blocked = chan[e].blocked, r.ops = chan[e].ops,
         r.refed = chan[e].refed, chan[e].left = "no", Left(r),
         r.left # "killed" => r.queue = <<>> /\ r.blocked = 0, ~r.open => ~r.connected,
         Becomes(e, r), wire' = wire, budget' = budget
  PROVE  ForkInv'
<1> DEFINE s == chan[e]
<1>1. EndOK(s) /\ Pair(s, chan[Peer(e)], wire[e]) /\ Pair(chan[Peer(e)], s, wire[Peer(e)])
  BY PeerFacts DEF ForkInv
<1>2. /\ HearPart(r, s) /\ r.sent = s.sent /\ r.queue = s.queue /\ r.blocked = s.blocked
      /\ r.ops = s.ops /\ r.refed = s.refed /\ s.left = "no" /\ r.connected = s.connected
  BY DEF HearPart
<1>b. Becomes(e, r)
  OBVIOUS
<1> HIDE DEF s
<1>3. Wrote(r) = Wrote(s)
  BY <1>2 DEF Wrote, Waits
<1>4. HoldOK(r) /\ HearOK(r)
  BY <1>1, <1>2 DEF EndOK, HoldOK, Waits, HearOK, HearPart
<1>5. SendOK(r)
  BY <1>1, <1>2, <1>3 DEF EndOK, SendOK
<1>6. Pair(r, chan[Peer(e)], wire[e])
  BY <1>1, <1>2, HearKept
<1>7. Pair(chan[Peer(e)], r, wire[Peer(e)])
  <2>1. s.left # "killed"
    BY <1>2
  <2>2. QED BY <1>1, <1>2, <1>3, <2>1, PeerSteps
<1>8. wire' \in [Ends -> Seq(ForkUnits)] /\ budget' \in [Ends -> Nat]
  BY DEF ForkInv, ForkTypes
<1>9. QED BY <1>b, <1>4, <1>5, <1>6, <1>7, <1>8, OneEnd DEF EndOK

LEMMA ExitStep == ASSUME ForkInv, NEW e \in Ends, Exit(e) PROVE ForkInv'
<1> DEFINE s == chan[e]
           r == [s EXCEPT !.left = "exited"]
<1>1. s \in Chans /\ HoldOK(s)
  BY DEF ForkInv, EndOK
<1>2. /\ s.left = "no" /\ s.blocked = 0 /\ s.ops = 0 /\ Becomes(e, r)
      /\ wire' = wire /\ budget' = budget
  BY DEF Exit, Runs
<1>3. s.queue = <<>>
  <2>1. s.queue \in Seq(Nat)
    BY <1>1 DEF Chans
  <2>2. Len(s.queue) = 0
    <3> DEFINE l == Len(s.queue)
               k == Waits(s)
    <3>1. l \in Nat /\ s.ops = (IF s.refed THEN 1 ELSE 0) + l + k
      BY <1>1, <2>1 DEF HoldOK
    <3>w. k = 0
      BY <1>2 DEF Waits
    <3> HIDE DEF l, k
    <3>2. l = 0
      BY <1>2, <3>1, <3>w
    <3>3. QED BY <3>2 DEF l
  <2>3. QED BY <2>1, <2>2
<1>4. /\ r \in Chans /\ HearPart(r, s) /\ r.sent = s.sent /\ r.queue = s.queue
      /\ r.blocked = s.blocked /\ r.ops = s.ops /\ r.refed = s.refed /\ r.left = "exited"
      /\ r.open = s.open /\ r.connected = s.connected
  BY <1>1 DEF Chans, HearPart
<1>5. ~r.open => ~r.connected
  BY <1>4 DEF ForkInv, EndOK, SendOK
<1> HIDE DEF r
<1>6. QED BY <1>2, <1>3, <1>4, <1>5, LeaveStep DEF Left

LEMMA KillStep == ASSUME ForkInv, NEW e \in Ends, Kill(e) PROVE ForkInv'
<1> DEFINE s == chan[e]
           r == [s EXCEPT !.left = "killed"]
<1>1. s \in Chans /\ SendOK(s)
  BY DEF ForkInv, EndOK
<1>2. s.left = "no" /\ Becomes(e, r) /\ wire' = wire /\ budget' = budget
  BY DEF Kill
<1>3. /\ r \in Chans /\ HearPart(r, s) /\ r.sent = s.sent /\ r.queue = s.queue
      /\ r.blocked = s.blocked /\ r.ops = s.ops /\ r.refed = s.refed /\ r.left = "killed"
      /\ r.open = s.open /\ r.connected = s.connected
  BY <1>1 DEF Chans, HearPart
<1>4. ~r.open => ~r.connected
  BY <1>1, <1>3 DEF SendOK
<1> HIDE DEF r
<1>5. QED BY <1>2, <1>3, <1>4, LeaveStep DEF Left

LEMMA CloseStep == ASSUME ForkInv, NEW e \in Ends, WriterCloses(e) PROVE ForkInv'
<1> DEFINE s == chan[e]
           r == [s EXCEPT !.open = FALSE]
<1>1. s \in Chans /\ SendOK(s)
  BY DEF ForkInv, EndOK
<1>2. /\ s.left = "no" /\ ~s.connected /\ s.queue = <<>> /\ Becomes(e, r)
      /\ wire' = wire /\ budget' = budget
  BY DEF WriterCloses, Writer
<1>3. /\ r \in Chans /\ HearPart(r, s) /\ r.sent = s.sent /\ r.queue = s.queue
      /\ r.blocked = s.blocked /\ r.ops = s.ops /\ r.refed = s.refed /\ ~r.open
      /\ r.connected = s.connected
  BY <1>1 DEF Chans, HearPart
<1>4. s.blocked = 0
  BY <1>1, <1>2 DEF SendOK
<1> HIDE DEF r
<1>5. QED BY <1>2, <1>3, <1>4, LeaveStep DEF Left

-----------------------------------------------------------------------------
\* A write is over: the messages behind it move up, and so does the one of a
\* send() that waited.
LEMMA WrittenKeeps ==
  ASSUME NEW s \in Chans, HoldOK(s), SendOK(s), s.queue # <<>>, ~Left(s)
  PROVE  LET r == Written(s) IN
         /\ r \in Chans /\ HoldOK(r) /\ SendOK(r) /\ HearPart(r, s) /\ r.left = s.left
         /\ Wrote(r) = Wrote(s) + 1 /\ Head(s.queue) = Wrote(s) + 1 /\ Wrote(s) \in Nat
<1> DEFINE l == Len(s.queue)
           n == s.ops - 1
           q == IF s.blocked = 0 THEN Tail(s.queue) ELSE Append(Tail(s.queue), s.blocked)
           r == [s EXCEPT !.queue = q, !.ops = n, !.blocked = 0]
<1>1. /\ s.queue \in Seq(Nat) /\ s.ops \in Int /\ s.blocked \in Nat /\ s.sent \in Nat
      /\ s.connected \in BOOLEAN /\ s.refed \in BOOLEAN
  BY DEF Chans
<1>2. l \in Nat /\ l > 0 /\ n \in Int
  BY <1>1
<1>3. /\ Tail(s.queue) \in Seq(Nat) /\ Len(Tail(s.queue)) = l - 1 /\ Head(s.queue) = s.queue[1]
      /\ \A k \in 1..(l - 1) : Tail(s.queue)[k] = s.queue[k + 1]
  BY <1>1
<1>4. Written(s) = r
  <2> DEFINE rest == [s EXCEPT !.queue = Tail(@), !.ops = @ - 1]
  <2>1. rest = [s EXCEPT !.queue = Tail(s.queue), !.ops = n]
    OBVIOUS
  <2>2. CASE s.blocked = 0
    <3>1. Written(s) = rest
      BY <2>2 DEF Written
    <3>2. q = Tail(s.queue)
      BY <2>2
    <3> HIDE DEF q, n
    <3>3. [s EXCEPT !.queue = Tail(s.queue), !.ops = n] = r
      BY <2>2, <3>2 DEF Chans
    <3>4. QED BY <2>1, <3>1, <3>3
  <2>3. CASE s.blocked # 0
    <3>1. Written(s) = [rest EXCEPT !.queue = Append(@, s.blocked), !.blocked = 0]
      BY <2>3 DEF Written
    <3>2. q = Append(Tail(s.queue), s.blocked)
      BY <2>3
    <3> DEFINE c == Tail(s.queue)
    <3>3. rest = [s EXCEPT !.queue = c, !.ops = n]
      BY <2>1
    <3>4. q = Append(c, s.blocked)
      BY <3>2
    <3> HIDE DEF q, n, c
    <3>5. [[s EXCEPT !.queue = c, !.ops = n] EXCEPT !.queue = Append(@, s.blocked), !.blocked = 0] = r
      BY <3>4 DEF Chans
    <3> HIDE DEF rest
    <3>6. QED BY <3>1, <3>3, <3>5
  <2>4. QED BY <2>2, <2>3
<1>5. /\ s.ops = (IF s.refed THEN 1 ELSE 0) + l + Waits(s) /\ (s.refed => s.connected)
      /\ Wrote(s) = s.sent - l - Waits(s) /\ Wrote(s) \in Nat
      /\ \A k \in 1..l : s.queue[k] = Wrote(s) + k
      /\ s.blocked # 0 => s.blocked = s.sent
      /\ ~s.open => ~s.connected
  BY DEF HoldOK, SendOK, Wrote
<1>6. Waits(s) = IF s.blocked = 0 THEN 0 ELSE 1
  BY DEF Waits
<1> DEFINE w == Wrote(s)
<1>7. /\ q \in Seq(Nat) /\ Len(q) = l - 1 + Waits(s)
      /\ \A k \in 1..Len(q) : q[k] = (w + 1) + k
  <2> HIDE DEF w, l
  <2> DEFINE c == Tail(s.queue)
  <2>0. /\ c \in Seq(Nat) /\ Len(c) = l - 1 /\ \A k \in 1..(l - 1) : c[k] = s.queue[k + 1]
        /\ q = IF s.blocked = 0 THEN c ELSE Append(c, s.blocked)
    BY <1>3
  <2> HIDE DEF c, q
  <2>1. \A k \in 1..(l - 1) : c[k] = (w + 1) + k
    <3>1. \A k \in 1..(l - 1) : k + 1 \in 1..l /\ w + (k + 1) = (w + 1) + k
      BY <1>2, <1>5, SMTT(20) DEF w
    <3>2. \A k \in 1..l : s.queue[k] = w + k
      BY <1>5 DEF w, l
    <3>3. QED BY <2>0, <3>1, <3>2
  <2>2. CASE s.blocked = 0
    BY <1>2, <1>6, <2>0, <2>1, <2>2
  <2>3. CASE s.blocked # 0
    <3>1. q \in Seq(Nat) /\ Len(q) = l /\ q[l] = s.blocked /\ \A k \in 1..(l - 1) : q[k] = c[k]
      <4>1. /\ Append(c, s.blocked) \in Seq(Nat) /\ Len(Append(c, s.blocked)) = Len(c) + 1
            /\ Append(c, s.blocked)[Len(c) + 1] = s.blocked
            /\ \A k \in 1..Len(c) : Append(c, s.blocked)[k] = c[k]
        BY <1>1, <2>0, AppendProperties
      <4>2. Len(c) = l - 1 /\ Len(c) + 1 = l /\ q = Append(c, s.blocked)
        BY <1>2, <2>0, <2>3
      <4>3. QED BY <4>1, <4>2
    <3>2. s.blocked = (w + 1) + l
      <4>1. s.blocked = s.sent /\ w = s.sent - l - 1 /\ w \in Nat /\ s.sent \in Nat
        BY <1>1, <1>5, <1>6, <2>3 DEF w, l
      <4>2. QED BY <1>2, <4>1
    <3>3. \A k \in 1..l : k = l \/ k \in 1..(l - 1)
      BY <1>2
    <3>4. Len(q) = l - 1 + Waits(s)
      BY <1>2, <1>6, <2>3, <3>1
    <3>5. QED BY <2>1, <3>1, <3>2, <3>3, <3>4
  <2>4. QED BY <2>2, <2>3
<1> HIDE DEF q, n
<1>8. /\ r \in Chans /\ HearPart(r, s) /\ r.left = s.left /\ r.queue = q /\ r.ops = n
      /\ r.blocked = 0 /\ r.sent = s.sent /\ r.open = s.open /\ r.refed = s.refed
      /\ r.connected = s.connected
  BY <1>2, <1>7 DEF Chans, HearPart
<1> HIDE DEF r
<1>9. Waits(r) = 0 /\ Waits(s) \in Nat
  BY <1>6, <1>8 DEF Waits
<1>10. HoldOK(r)
  <2> DEFINE h == IF s.refed THEN 1 ELSE 0
             k == Waits(s)
             m == Len(q)
  <2>1. s.ops = h + l + k /\ h \in Nat /\ k \in Nat /\ l \in Nat /\ m = l - 1 + k /\ n = s.ops - 1
    BY <1>2, <1>5, <1>7, <1>9 DEF n
  <2> HIDE DEF h, k, l, m
  <2>2. n = h + m + 0
    BY <2>1
  <2>3. r.ops = (IF r.refed THEN 1 ELSE 0) + Len(r.queue) + Waits(r)
    BY <1>8, <1>9, <2>2 DEF h, m
  <2>4. QED BY <1>5, <1>8, <2>3 DEF HoldOK
<1>11. Wrote(r) = w + 1
  <2> DEFINE k == Waits(s)
             m == Len(q)
  <2>1. w = s.sent - l - k /\ k \in Nat /\ l \in Nat /\ m = l - 1 + k /\ s.sent \in Nat
    BY <1>1, <1>2, <1>5, <1>7, <1>9
  <2>2. Wrote(r) = s.sent - m - 0
    BY <1>8, <1>9 DEF Wrote
  <2> HIDE DEF w, k, l, m
  <2>3. s.sent - m - 0 = w + 1
    BY <2>1
  <2>4. QED BY <2>2, <2>3
<1>12. SendOK(r)
  <2>1. Wrote(r) \in Nat
    BY <1>5, <1>11
  <2>2. \A k \in 1..Len(r.queue) : r.queue[k] = Wrote(r) + k
    BY <1>7, <1>8, <1>11
  <2>3. ~Left(r)
    BY <1>8 DEF Left
  <2>4. QED BY <1>5, <1>8, <2>1, <2>2, <2>3 DEF SendOK
<1>13. Head(s.queue) = Wrote(s) + 1
  <2>1. 1 \in 1..l
    BY <1>2
  <2>2. QED BY <1>3, <1>5, <2>1
<1>14. QED BY <1>4, <1>5, <1>8, <1>10, <1>11, <1>12, <1>13

LEMMA JoinTypes ==
  ASSUME NEW u \in Seq(ForkUnits), NEW y \in Seq(ForkUnits)
  PROVE  u \o y \in Seq(ForkUnits) /\ Len(u \o y) = Len(u) + Len(y) /\ Len(u) \in Nat
OBVIOUS

LEMMA WriteStep ==
  ASSUME ForkInv, NEW e \in Ends, WriterWrites(e) \/ WriterFails(e) PROVE ForkInv'
<1> DEFINE s == chan[e]
           p == Peer(e)
           q == chan[p]
           u == wire[p]
           r == Written(s)
           m == Head(s.queue)
<1>1. EndOK(s) /\ EndOK(q) /\ Pair(s, q, wire[e]) /\ Pair(q, s, u) /\ p \in Ends /\ p # e
  BY PeerFacts DEF ForkInv
<1>2. ~Left(s) /\ s.left = "no" /\ s.queue # <<>> /\ Becomes(e, r) /\ budget' = budget
  BY DEF WriterWrites, WriterFails, Writer, Left
<1>3. /\ r \in Chans /\ HoldOK(r) /\ SendOK(r) /\ HearPart(r, s) /\ r.left = s.left
      /\ Wrote(r) = Wrote(s) + 1 /\ m = Wrote(s) + 1 /\ Wrote(s) \in Nat
  BY <1>1, <1>2, WrittenKeeps DEF EndOK
<1> HIDE DEF r
<1>4. HearOK(r)
  BY <1>1, <1>3 DEF EndOK, HearOK, HearPart
<1>5. Pair(r, q, wire[e])
  BY <1>1, <1>2, <1>3, HearKept
<1>6. wire \in [Ends -> Seq(ForkUnits)] /\ budget' \in [Ends -> Nat]
  BY <1>2 DEF ForkInv, ForkTypes
<1>7. ~(~q.connected /\ ~q.cut /\ s.left # "killed")
  BY <1>1, <1>2 DEF Pair
<1>8. CASE WriterWrites(e)
  <2> DEFINE v == u \o Units(m)
             x == 2 * Wrote(s) - Len(u)
  <2>1. wire' = [wire EXCEPT ![p] = v]
    BY <1>8 DEF WriterWrites
  <2>2. u \in Seq(ForkUnits) /\ Units(m) \in Seq(ForkUnits) /\ Len(Units(m)) = 2
        /\ Units(m)[1].m = m /\ Units(m)[2].m = m
    <3>1. m \in Nat
      BY <1>3
    <3> HIDE DEF m
    <3>2. u \in Seq(ForkUnits)
      BY <1>1, <1>6
    <3>3. QED BY <3>1, <3>2 DEF Units, ForkUnits
  <2>3. v \in Seq(ForkUnits) /\ Len(v) = Len(u) + 2 /\ Len(u) \in Nat
    <3> DEFINE y == Units(m)
    <3>1. u \in Seq(ForkUnits) /\ y \in Seq(ForkUnits) /\ Len(y) = 2 /\ v = u \o y
      BY <2>2
    <3> HIDE DEF u, y, v
    <3>2. u \o y \in Seq(ForkUnits) /\ Len(u \o y) = Len(u) + Len(y) /\ Len(u) \in Nat
      BY <3>1, JoinTypes
    <3>3. Len(u \o y) = Len(u) + 2
      BY <3>1, <3>2
    <3>4. QED BY <3>1, <3>2, <3>3
  <2>4. /\ wire' \in [Ends -> Seq(ForkUnits)] /\ wire'[p] = v /\ wire'[e] = wire[e]
    <3> HIDE DEF v
    <3>1. QED BY <1>1, <1>6, <2>1, <2>3
  <2>5. ASSUME q.connected, q.left = "no"
        PROVE  Upto(q, x) /\ UnitsAt(v, x) /\ q.reads /\ 2 * Wrote(r) - Len(v) = x
    <3>1. Upto(q, x) /\ UnitsAt(u, x) /\ q.reads
      BY <1>1, <1>2, <2>5 DEF Pair
    <3>2. x \in Nat
      <4> HIDE DEF x, q
      <4>1. q \in Chans
        BY <1>1 DEF EndOK
      <4>2. QED BY <3>1, <4>1, UptoPlace
    <3> DEFINE w == Wrote(s)
               l == Len(u)
    <3>3. x + l = 2 * w /\ 2 * (w + 1) - (l + 2) = x /\ w \in Nat /\ l \in Nat
      <4>1. w \in Nat /\ l \in Nat /\ x = 2 * w - l
        BY <1>3, <2>3
      <4> HIDE DEF x, w, l
      <4>2. QED BY <4>1
    <3>4. UnitsAt(Units(m), x + l)
      <4>1. \A k \in 1..2 : k = 1 \/ k = 2
        OBVIOUS
      <4>2. AtPlace(Units(m)[1], x + l + 1) /\ AtPlace(Units(m)[2], x + l + 2)
        <5>1. m = w + 1
          BY <1>3
        <5> HIDE DEF x, l, w
        <5>2. x + l + 1 = 2 * m - 1 /\ x + l + 2 = 2 * m
          <6> HIDE DEF m
          <6>1. QED BY <3>3, <5>1
        <5>3. QED BY <2>2, <5>2 DEF AtPlace
      <4>3. QED BY <2>2, <4>1, <4>2 DEF UnitsAt
    <3>5. UnitsAt(v, x)
      <4> HIDE DEF x
      <4> DEFINE y == Units(m)
      <4>1. y \in Seq(ForkUnits) /\ UnitsAt(y, x + Len(u)) /\ v = u \o y
        BY <2>2, <3>4
      <4> HIDE DEF y, u, v
      <4>2. u \in Seq(ForkUnits) /\ UnitsAt(u, x)
        BY <2>2, <3>1
      <4>3. QED BY <3>2, <4>1, <4>2, UnitsJoin
    <3>6. 2 * Wrote(r) - Len(v) = x
      BY <1>3, <2>3, <3>3
    <3>7. QED BY <3>1, <3>5, <3>6
  <2> HIDE DEF x, v
  <2>6. Pair(q, r, v)
    BY <1>2, <1>3, <1>7, <2>5 DEF Pair
  <2>7. QED BY <1>2, <1>3, <1>4, <1>5, <1>6, <2>4, <2>6, OneEnd DEF EndOK
<1>9. CASE WriterFails(e)
  <2>1. Left(q) /\ wire' = wire
    BY <1>9 DEF WriterFails, Gone, Left
  <2>2. ~(q.connected /\ q.left = "no")
    BY <1>1, <2>1 DEF EndOK, SendOK, Left
  <2>3. Pair(q, r, u)
    BY <1>2, <1>3, <1>7, <2>2 DEF Pair
  <2>4. QED BY <1>2, <1>3, <1>4, <1>5, <1>6, <2>1, <2>3, OneEnd DEF EndOK
<1>10. QED BY <1>8, <1>9

\* A read: its units leave the wire and become a tick.
LEMMA ReadStep == ASSUME ForkInv, NEW e \in Ends, ReaderReads(e) PROVE ForkInv'
<1> DEFINE s == chan[e]
           p == chan[Peer(e)]
           u == wire[e]
           l == Len(u)
<1>1. EndOK(s) /\ Pair(s, p, u) /\ Pair(p, s, wire[Peer(e)]) /\ Peer(e) \in Ends /\ Peer(e) # e
  BY PeerFacts DEF ForkInv
<1>2. wire \in [Ends -> Seq(ForkUnits)] /\ u \in Seq(ForkUnits) /\ budget' \in [Ends -> Nat]
  BY DEF ForkInv, ForkTypes, ReaderReads
<1>3. s.reads /\ u # <<>> /\ l \in Nat /\ l > 0
  BY <1>2 DEF ReaderReads, Reader
<1>4. PICK n \in {1, l} :
        /\ Becomes(e, Queued(s, [op |-> "data", units |-> SubSeq(u, 1, n)]))
        /\ wire' = [wire EXCEPT ![e] = SubSeq(@, n + 1, Len(@))]
  BY DEF ReaderReads
<1>5. n \in 1..l
  BY <1>3
<1> DEFINE taken == SubSeq(u, 1, n)
           v == SubSeq(u, n + 1, l)
           t == [op |-> "data", units |-> taken]
           r == Queued(s, t)
<1> HIDE DEF u, l
<1>6. ASSUME NEW x \in Nat, UnitsAt(u, x)
      PROVE  UnitsAt(taken, x) /\ UnitsAt(v, x + n)
  <2>1. 1 \in 1..(l + 1) /\ n \in (1 - 1)..l /\ n + 1 \in 1..(l + 1) /\ l \in ((n + 1) - 1)..l
    BY <1>3, <1>5
  <2>2. UnitsAt(taken, x + 1 - 1) /\ UnitsAt(v, x + (n + 1) - 1)
    BY <1>2, <1>6, <2>1, UnitsPart DEF l
  <2>3. x + 1 - 1 = x /\ x + (n + 1) - 1 = x + n
    BY <1>5
  <2>4. QED BY <2>2, <2>3
<1>7. taken \in Seq(ForkUnits) /\ Len(taken) = n /\ v \in Seq(ForkUnits) /\ Len(v) = l - n
  <2>1. QED BY <1>2, <1>3, <1>5 DEF l
<1>8. wire' \in [Ends -> Seq(ForkUnits)] /\ wire'[e] = v /\ wire'[Peer(e)] = wire[Peer(e)]
  <2>1. wire' = [wire EXCEPT ![e] = v]
    BY <1>4 DEF u, l
  <2> HIDE DEF v
  <2>2. QED BY <1>1, <1>2, <1>7, <2>1
<1> HIDE DEF taken, v
<1>9. t \in ForkTicks /\ t.op = "data" /\ t.units = taken
  BY <1>7, DataTypes
<1>b. Becomes(e, r)
  BY <1>4 DEF taken
<1> HIDE DEF t
<1>10. /\ r \in Chans /\ SendPart(r, s) /\ r.ticks = Append(s.ticks, t)
       /\ r.pending = s.pending /\ r.heard = s.heard /\ r.told = s.told /\ r.reads = s.reads
       /\ r.cut = s.cut /\ r.connected = s.connected /\ r.refed = s.refed /\ r.ops = s.ops
  BY <1>1, <1>9, QueuedTypes DEF EndOK
<1>11. HearOK(r)
  BY <1>1, <1>3, <1>9, QueuedHears DEF EndOK
<1> HIDE DEF r
<1>12. HoldOK(r)
  BY <1>1, <1>10 DEF EndOK, HoldOK, SendPart, Waits
<1>13. SendOK(r) /\ Wrote(r) = Wrote(s) /\ (Left(r) <=> Left(s))
  <2> HIDE DEF s
  <2>1. QED BY <1>1, <1>10, SendKept DEF EndOK
<1>14. ASSUME s.connected, s.left = "no"
       PROVE  /\ Upto(r, 2 * Wrote(p) - Len(v)) /\ UnitsAt(v, 2 * Wrote(p) - Len(v))
  <2> DEFINE x == 2 * Wrote(p) - l
             from == 2 * Len(s.heard) + Len(s.pending)
  <2>1. Upto(s, x) /\ UnitsAt(u, x)
    BY <1>1, <1>14 DEF Pair, l
  <2>2. x \in Nat /\ from \in Nat
    <3> HIDE DEF x
    <3>1. QED BY <1>1, <2>1, UptoPlace DEF EndOK
  <2>3. 2 * Wrote(p) - Len(v) = x + n
    <3> DEFINE w == Wrote(p)
    <3>1. w \in Nat
      BY <1>1, PeerFacts DEF ForkInv, EndOK, SendOK
    <3>2. x = 2 * w - l /\ Len(v) = l - n /\ l \in Nat /\ n \in Nat
      BY <1>3, <1>5, <1>7
    <3> HIDE DEF w, x
    <3>3. 2 * w - Len(v) = x + n
      BY <3>1, <3>2
    <3>4. QED BY <3>3 DEF w
  <2> HIDE DEF x
  <2>4. UnitsAt(taken, x) /\ UnitsAt(v, x + n)
    BY <1>6, <2>1, <2>2
  <2>5. TickAt(t, x, x + n)
    BY <1>7, <1>9, <2>4 DEF TickAt
  <2>6. TicksAt(Append(s.ticks, t), from, x + n)
    <3>1. s.ticks \in Seq(ForkTicks)
      BY <1>1 DEF EndOK, Chans
    <3>2. TicksAt(s.ticks, from, x)
      BY <2>1 DEF Upto
    <3>3. x + n \in Nat
      BY <1>5, <2>2
    <3> HIDE DEF from
    <3>4. QED BY <1>9, <2>2, <2>5, <3>1, <3>2, <3>3, TicksMore
  <2>7. Upto(r, x + n)
    BY <1>10, <2>1, <2>6 DEF Upto
  <2>8. QED BY <2>3, <2>4, <2>7
<1>15. Pair(r, p, v)
  BY <1>1, <1>3, <1>10, <1>14 DEF Pair, SendPart
<1>16. Pair(p, r, wire[Peer(e)])
  <2>1. r.sent = s.sent /\ r.left = s.left
    BY <1>10 DEF SendPart
  <2> HIDE DEF s, p
  <2>2. QED BY <1>1, <1>13, <2>1, PeerSteps
<1>17. QED BY <1>b, <1>2, <1>8, <1>10, <1>11, <1>12, <1>13, <1>15, <1>16, OneEnd DEF EndOK

\* The reader is over: an end that is connected has then read all there is.
LEMMA EndsStep == ASSUME ForkInv, NEW e \in Ends, ReaderEnds(e) PROVE ForkInv'
<1> DEFINE s == chan[e]
           p == chan[Peer(e)]
           u == wire[e]
           k == [s EXCEPT !.reads = FALSE]
           t == [op |-> "eof"]
           r == Queued(k, t)
<1>1. EndOK(s) /\ Pair(s, p, u)
  BY DEF ForkInv
<1>2. /\ s.reads /\ (~s.open \/ (u = <<>> /\ Left(p))) /\ Becomes(e, r)
      /\ wire' = wire /\ budget' = budget
  BY DEF ReaderEnds, Reader, Gone, Left
<1>3. /\ k \in Chans /\ SendPart(k, s) /\ k.ticks = s.ticks /\ k.pending = s.pending
      /\ k.heard = s.heard /\ k.told = s.told /\ ~k.reads /\ k.cut = s.cut
      /\ k.connected = s.connected /\ k.refed = s.refed /\ k.ops = s.ops
  BY <1>1 DEF EndOK, Chans, SendPart
<1> HIDE DEF k
<1>4. HearOK(k)
  BY <1>1, <1>2, <1>3 DEF EndOK, HearOK
<1>5. Pair(k, p, u)
  <2>1. ASSUME s.connected, s.left = "no" PROVE u = <<>> /\ Left(p)
    BY <1>1, <1>2, <2>1 DEF EndOK, SendOK
  <2>2. \A w : Upto(s, w) => Upto(k, w)
    BY <1>3 DEF Upto
  <2>3. QED BY <1>1, <1>3, <2>1, <2>2 DEF Pair, SendPart
<1>6. t \in ForkTicks /\ t.op = "eof"
  BY MarkTypes
<1> HIDE DEF t
<1>7. /\ r \in Chans /\ SendPart(r, k) /\ r.connected = k.connected /\ r.refed = k.refed
      /\ r.ops = k.ops
  BY <1>3, <1>6, QueuedTypes
<1>8. HearOK(r)
  BY <1>3, <1>4, <1>6, QueuedHears
<1>9. Pair(r, p, u)
  BY <1>3, <1>5, <1>6, MarkKept
<1> HIDE DEF r
<1>10. SendPart(r, s) /\ HoldOK(r)
  BY <1>1, <1>3, <1>7 DEF EndOK, SendPart, HoldOK, Waits
<1>11. r.connected => s.connected
  BY <1>3, <1>7
<1>12. QED BY <1>2, <1>7, <1>8, <1>9, <1>10, <1>11, LocalStep

-----------------------------------------------------------------------------
\* What the hold goes by.
HoldPart(r, s) ==
  /\ r.refed = s.refed /\ r.connected = s.connected /\ r.explicit = s.explicit
  /\ r.listening = s.listening /\ r.byOnce = s.byOnce
RuleOK(e, s) ==
  s.connected /\ ~s.explicit => (s.refed <=> e = Parent \/ HasListener(s) \/ s.byOnce)
ForkRule == \A e \in Ends : RuleOK(e, chan[e])

LEMMA RuleSame == ASSUME NEW e, NEW r, NEW s, HoldPart(r, s), RuleOK(e, s) PROVE RuleOK(e, r)
BY DEF HoldPart, RuleOK, HasListener

\* One end changes.
LEMMA RuleOne ==
  ASSUME ForkInv, ForkRule, NEW e \in Ends, NEW r, Becomes(e, r), RuleOK(e, r) PROVE ForkRule'
<1>1. chan \in [Ends -> Chans] /\ chan' = [chan EXCEPT ![e] = r]
  BY DEF ForkInv, ForkTypes, Becomes
<1>2. ASSUME NEW d \in Ends PROVE RuleOK(d, chan[d])'
  <2>1. CASE d = e
    BY <1>1, <2>1 DEF RuleOK, HasListener
  <2>2. CASE d # e
    BY <1>1, <2>2 DEF ForkRule, RuleOK, HasListener
  <2>3. QED BY <2>1, <2>2
<1>3. QED BY <1>2 DEF ForkRule

LEMMA HoldTypes ==
  ASSUME NEW s \in Chans
  PROVE  LET r == Hold(s) IN
         /\ r \in Chans /\ r.explicit = s.explicit /\ r.listening = s.listening
         /\ r.connected = s.connected /\ r.byOnce = s.byOnce /\ (s.connected => r.refed)
<1>1. CASE s.refed \/ ~s.connected
  BY <1>1 DEF Hold
<1>2. CASE ~(s.refed \/ ~s.connected)
  <2> DEFINE n == s.ops + 1
             r == [s EXCEPT !.refed = TRUE, !.ops = n]
  <2>1. Hold(s) = r
    BY <1>2 DEF Hold
  <2>2. n \in Int
    BY DEF Chans
  <2> HIDE DEF n
  <2>3. /\ r \in Chans /\ r.explicit = s.explicit /\ r.listening = s.listening
        /\ r.connected = s.connected /\ r.byOnce = s.byOnce /\ r.refed
    BY <2>2 DEF Chans
  <2>4. QED BY <2>1, <2>3
<1>3. QED BY <1>1, <1>2

LEMMA UnholdTypes ==
  ASSUME NEW s \in Chans
  PROVE  LET r == Unhold(s) IN
         /\ r \in Chans /\ r.explicit = s.explicit /\ r.listening = s.listening
         /\ r.connected = s.connected /\ r.byOnce = s.byOnce /\ (s.connected => ~r.refed)
<1>1. CASE ~(s.refed /\ s.connected)
  BY <1>1 DEF Unhold
<1>2. CASE s.refed /\ s.connected
  <2> DEFINE n == s.ops - 1
             r == [s EXCEPT !.refed = FALSE, !.ops = n]
  <2>1. Unhold(s) = r
    BY <1>2 DEF Unhold
  <2>2. n \in Int
    BY DEF Chans
  <2> HIDE DEF n
  <2>3. /\ r \in Chans /\ r.explicit = s.explicit /\ r.listening = s.listening
        /\ r.connected = s.connected /\ r.byOnce = s.byOnce /\ ~r.refed
    BY <2>2 DEF Chans
  <2>4. QED BY <2>1, <2>3
<1>3. QED BY <1>1, <1>2

\* shutdown() ends the connection, and with it what the rule says.
LEMMA ShutdownRule ==
  ASSUME NEW e, NEW s \in Chans, RuleOK(e, s) PROVE RuleOK(e, Shutdown(s)) /\ Shutdown(s) \in Chans
<1>1. CASE ~s.connected
  BY <1>1 DEF Shutdown
<1>2. CASE s.connected
  <2> DEFINE k == [Unhold(s) EXCEPT !.connected = FALSE]
             t == [op |-> "disconnect"]
  <2>1. Unhold(s) \in Chans
    BY UnholdTypes
  <2>2. k \in Chans /\ ~k.connected
    BY <2>1 DEF Chans
  <2> HIDE DEF k
  <2>3. t \in ForkTicks
    BY MarkTypes
  <2> HIDE DEF t
  <2>4. Queued(k, t) \in Chans /\ ~Queued(k, t).connected
    BY <2>2, <2>3, QueuedTypes
  <2>5. QED BY <1>2, <2>4 DEF Shutdown, RuleOK, k, t
<1>3. QED BY <1>1, <1>2

\* on, once and off: the child's hold is looked at, the parent's stays.
LEMMA ListenRule ==
  ASSUME NEW e \in Ends, NEW s \in Chans, HoldOK(s), RuleOK(e, s), NEW how \in {"none", "on", "once"}
  PROVE  LET k == [s EXCEPT !.listening = how, !.byOnce = FALSE] IN
         RuleOK(e, IF e = Child THEN UpdateRef(k) ELSE k)
<1> DEFINE k == [s EXCEPT !.listening = how, !.byOnce = FALSE]
<1>1. /\ k \in Chans /\ k.refed = s.refed /\ k.connected = s.connected /\ k.explicit = s.explicit
      /\ k.listening = how /\ ~k.byOnce /\ k.ops = s.ops
  BY DEF Chans
<1> HIDE DEF k
<1>2. CASE e # Child
  <2>1. e = Parent
    BY <1>2 DEF Ends
  <2>2. RuleOK(e, k)
    BY <1>1, <2>1 DEF RuleOK
  <2>3. QED BY <1>2, <2>2 DEF k
<1>3. CASE e = Child
  <2>0. e # Parent
    BY <1>3, ForkAssumption DEF ForkAssumption
  <2>1. CASE k.explicit \/ ~k.connected
    BY <1>3, <2>1 DEF UpdateRef, RuleOK, k
  <2>2. CASE ~(k.explicit \/ ~k.connected) /\ HasListener(k)
    <3> DEFINE h == Hold(k)
               r == [h EXCEPT !.started = TRUE]
    <3>1. UpdateRef(k) = r
      BY <2>2 DEF UpdateRef, StartReader
    <3>2. h \in Chans /\ h.refed /\ h.listening = k.listening
      BY <1>1, <2>2, HoldTypes
    <3> HIDE DEF h
    <3>3. r.refed /\ r.listening = k.listening
      BY <3>2 DEF Chans
    <3> HIDE DEF r
    <3>4. RuleOK(e, r)
      BY <2>2, <3>3 DEF RuleOK, HasListener
    <3>5. QED BY <1>3, <3>1, <3>4 DEF k
  <2>3. CASE ~(k.explicit \/ ~k.connected) /\ ~HasListener(k)
    <3> DEFINE h == Unhold(k)
    <3>1. UpdateRef(k) = h
      BY <2>3 DEF UpdateRef
    <3>2. ~h.refed /\ h.listening = k.listening /\ h.byOnce = k.byOnce
      BY <1>1, <2>3 DEF Unhold, Chans
    <3> HIDE DEF h
    <3>3. RuleOK(e, h)
      BY <1>1, <2>0, <2>3, <3>2 DEF RuleOK, HasListener
    <3>4. QED BY <1>3, <3>1, <3>3 DEF k
  <2>4. QED BY <2>1, <2>2, <2>3
<1>4. QED BY <1>2, <1>3

\* A tick: messages may take a once() listener off, which leaves the hold.
LEMMA OnDataRule ==
  ASSUME NEW e, NEW s \in Chans, RuleOK(e, s), NEW u PROVE RuleOK(e, OnData(s, u))
<1> DEFINE b == s.pending \o u
           whole == Len(b) \div 2
           new == [k \in 1..whole |-> b[2 * k].m]
           rest == SubSeq(b, 2 * whole + 1, Len(b))
           o == OnceOff(s, whole)
           r == [o EXCEPT !.heard = @ \o new, !.pending = rest]
<1>1. OnData(s, u) = IF ~s.connected THEN s ELSE r
  BY DEF OnData
<1> HIDE DEF whole, new, rest
<1>2. /\ o \in Chans /\ o.refed = s.refed /\ o.connected = s.connected /\ o.explicit = s.explicit
      /\ (o.listening = s.listening /\ o.byOnce = s.byOnce)
         \/ (s.listening = "once" /\ o.byOnce)
  <2>1. CASE s.listening = "once" /\ whole > 0
    BY <2>1 DEF OnceOff, Chans
  <2>2. CASE ~(s.listening = "once" /\ whole > 0)
    BY <2>2 DEF OnceOff
  <2>3. QED BY <2>1, <2>2
<1> HIDE DEF o
<1>3. HoldPart(r, o)
  BY <1>2 DEF Chans, HoldPart
<1> HIDE DEF r
<1>4. RuleOK(e, o)
  BY <1>2 DEF RuleOK, HasListener
<1>5. QED BY <1>1, <1>3, <1>4, RuleSame

LEMMA PerformRule ==
  ASSUME NEW e, NEW s \in Chans, RuleOK(e, s), s.ticks # <<>>
  PROVE  RuleOK(e, Perform([s EXCEPT !.ticks = Tail(@)], Head(s.ticks)))
<1> DEFINE k == [s EXCEPT !.ticks = Tail(@)]
           t == Head(s.ticks)
<1>1. k \in Chans /\ t \in ForkTicks /\ HoldPart(k, s)
  <2>1. s.ticks \in Seq(ForkTicks)
    BY DEF Chans
  <2>2. t \in ForkTicks /\ Tail(s.ticks) \in Seq(ForkTicks)
    BY <2>1
  <2>3. QED BY <2>2 DEF Chans, HoldPart
<1> HIDE DEF k
<1>2. RuleOK(e, k)
  BY <1>1, RuleSame
<1>3. t.op \in {"data", "disconnect", "eof", "error"}
  BY <1>1 DEF ForkTicks, DataTicks
<1>4. CASE t.op = "data"
  <2>1. Perform(k, t) = OnData(k, t.units)
    BY <1>4 DEF Perform
  <2>2. QED BY <1>1, <1>2, <2>1, OnDataRule DEF k
<1>5. CASE t.op = "eof"
  <2>1. Perform(k, t) = Shutdown(k)
    BY <1>5 DEF Perform
  <2>2. QED BY <1>1, <1>2, <2>1, ShutdownRule DEF k
<1>6. CASE t.op = "disconnect"
  <2>1. Perform(k, t) = [k EXCEPT !.told = Len(k.heard)]
    BY <1>6 DEF Perform
  <2>2. HoldPart(Perform(k, t), k)
    BY <1>1, <2>1 DEF Chans, HoldPart
  <2>3. QED BY <1>2, <2>2, RuleSame DEF k
<1>7. CASE t.op = "error"
  <2>1. Perform(k, t) = k
    BY <1>7 DEF Perform
  <2>2. QED BY <1>2, <2>1 DEF k
<1>8. QED BY <1>3, <1>4, <1>5, <1>6, <1>7

LEMMA RuleCalls ==
  ASSUME ForkInv, ForkRule, NEW e \in Ends,
         \/ SendRefused(e) \/ Listen(e) \/ Ref(e) \/ Unref(e) \/ Disconnect(e)
         \/ ListenerDisconnects(e)
  PROVE  ForkRule'
<1> DEFINE s == chan[e]
<1>1. s \in Chans /\ HoldOK(s) /\ RuleOK(e, s)
  BY DEF ForkInv, EndOK, ForkRule
<1>2. ASSUME Becomes(e, Queued(s, [op |-> "error"])) PROVE ForkRule'
  <2>1. HoldPart(Queued(s, [op |-> "error"]), s)
    BY <1>1 DEF Queued, Chans, HoldPart
  <2>2. QED BY <1>1, <1>2, <2>1, RuleSame, RuleOne
<1>3. ASSUME NEW k \in Chans, RuleOK(e, k), Becomes(e, [Shutdown(k) EXCEPT !.cut = TRUE])
      PROVE  ForkRule'
  <2>1. RuleOK(e, Shutdown(k)) /\ Shutdown(k) \in Chans
    BY <1>3, ShutdownRule
  <2> DEFINE d == Shutdown(k)
             r == [d EXCEPT !.cut = TRUE]
  <2> HIDE DEF d
  <2>2. HoldPart(r, d)
    BY <2>1 DEF Chans, HoldPart, d
  <2>3. Becomes(e, r)
    BY <1>3 DEF d
  <2> HIDE DEF r
  <2>4. QED BY <2>1, <2>2, <2>3, RuleSame, RuleOne DEF d
<1>4. CASE SendRefused(e)
  BY <1>2, <1>4, SMTT(20) DEF SendRefused, Calls
<1>5. CASE Listen(e)
  <2>1. PICK how \in {"none", "on", "once"} :
          LET k == [s EXCEPT !.listening = how, !.byOnce = FALSE] IN
          Becomes(e, IF e = Child THEN UpdateRef(k) ELSE k)
    BY <1>5 DEF Listen, Calls
  <2> HIDE DEF s
  <2>2. QED BY <1>1, <2>1, ListenRule, RuleOne
<1>6. ASSUME NEW r, r.explicit, Becomes(e, r) PROVE ForkRule'
  BY <1>6, RuleOne DEF RuleOK
<1>7. CASE Ref(e)
  <2> DEFINE k == [s EXCEPT !.explicit = TRUE]
             h == Hold(k)
             r == [h EXCEPT !.started = TRUE]
  <2>1. k \in Chans /\ k.explicit
    BY <1>1 DEF Chans
  <2>b. Becomes(e, r)
    BY <1>7 DEF Ref, Calls, StartReader
  <2> HIDE DEF k
  <2>2. h \in Chans /\ h.explicit
    BY <2>1, HoldTypes
  <2> HIDE DEF h
  <2>3. r.explicit
    BY <2>2 DEF Chans
  <2> HIDE DEF r
  <2>4. QED BY <1>6, <2>b, <2>3
<1>8. CASE Unref(e)
  <2> DEFINE k == [s EXCEPT !.explicit = TRUE]
             h == Unhold(k)
  <2>1. k \in Chans /\ k.explicit
    BY <1>1 DEF Chans
  <2>b. Becomes(e, h)
    BY <1>8 DEF Unref, Calls
  <2> HIDE DEF k
  <2>2. h.explicit
    BY <2>1, UnholdTypes
  <2> HIDE DEF h
  <2>4. QED BY <1>6, <2>b, <2>2
<1>9. CASE Disconnect(e)
  <2>1. \/ Becomes(e, [Shutdown(s) EXCEPT !.cut = TRUE])
        \/ Becomes(e, Queued(s, [op |-> "error"]))
    BY <1>9 DEF Disconnect, Calls
  <2>2. QED BY <1>1, <1>2, <1>3, <2>1
<1>10. CASE ListenerDisconnects(e)
  <2> DEFINE ran == Perform([s EXCEPT !.ticks = Tail(@)], Head(s.ticks))
  <2>1. /\ s.ticks # <<>> /\ Head(s.ticks).op = "data" /\ s.connected
        /\ Becomes(e, [Shutdown(ran) EXCEPT !.cut = TRUE]) /\ s.left = "no"
    BY <1>10 DEF ListenerDisconnects, Calls, Runs
  <2>2. RuleOK(e, ran)
    BY <1>1, <2>1, PerformRule
  <2>3. ran \in Chans
    <3>1. Pair(s, chan[Peer(e)], wire[e]) /\ HearOK(s)
      BY DEF ForkInv, EndOK
    <3>2. PICK w : Upto(s, w)
      BY <2>1, <3>1 DEF Pair
    <3> HIDE DEF s
    <3>3. QED BY <1>1, <2>1, <3>1, <3>2, DataStep
  <2> HIDE DEF ran
  <2>4. QED BY <1>3, <2>1, <2>2, <2>3
<1>11. QED BY <1>4, <1>5, <1>7, <1>8, <1>9, <1>10

LEMMA RuleStep == ASSUME ForkInv, ForkRule, KNext PROVE ForkRule'
<1>1. ASSUME NEW e \in Ends, RunTick(e) PROVE ForkRule'
  <2>1. /\ chan[e] \in Chans /\ RuleOK(e, chan[e]) /\ chan[e].ticks # <<>>
        /\ Becomes(e, Perform([chan[e] EXCEPT !.ticks = Tail(@)], Head(chan[e].ticks)))
    BY <1>1 DEF ForkInv, EndOK, ForkRule, RunTick
  <2>2. QED BY <2>1, PerformRule, RuleOne
<1>2. ASSUME NEW e \in Ends, NEW r, HoldPart(r, chan[e]), Becomes(e, r) PROVE ForkRule'
  <2>1. RuleOK(e, r)
    BY <1>2, RuleSame DEF ForkRule
  <2>2. QED BY <1>2, <2>1, RuleOne
<1>3. ASSUME NEW e \in Ends, Send(e) PROVE ForkRule'
  <2> DEFINE s == chan[e]
             m == s.sent + 1
             begun == [s EXCEPT !.sent = m, !.ops = @ + 1]
             r == IF Len(begun.queue) <= WritesCap THEN [begun EXCEPT !.queue = Append(@, m)]
                  ELSE [begun EXCEPT !.blocked = m]
  <2>1. s \in Chans
    BY DEF ForkInv, EndOK
  <2>2. Becomes(e, r)
    BY <1>3 DEF Send
  <2> HIDE DEF s, m
  <2>3. HoldPart(begun, s) /\ DOMAIN begun = DOMAIN s
    BY <2>1 DEF Chans, HoldPart
  <2>4. {"refed", "connected", "explicit", "listening", "byOnce"} \subseteq DOMAIN begun
    BY <2>1, <2>3 DEF Chans
  <2> HIDE DEF begun
  <2>5. HoldPart(r, begun)
    BY <2>4 DEF HoldPart
  <2>6. HoldPart(r, s)
    BY <2>3, <2>5 DEF HoldPart
  <2> HIDE DEF r
  <2>7. QED BY <1>2, <2>2, <2>6 DEF s
<1>4. ASSUME NEW e \in Ends, Exit(e) \/ Kill(e) \/ WriterCloses(e) PROVE ForkRule'
  <2>1. chan[e] \in Chans
    BY DEF ForkInv, EndOK
  <2>2. PICK r : Becomes(e, r) /\ HoldPart(r, chan[e])
    <3>1. CASE Exit(e)
      <4>1. Becomes(e, [chan[e] EXCEPT !.left = "exited"])
        BY <3>1 DEF Exit
      <4>2. HoldPart([chan[e] EXCEPT !.left = "exited"], chan[e])
        BY <2>1 DEF Chans, HoldPart
      <4>3. QED BY <4>1, <4>2
    <3>2. CASE Kill(e)
      <4>1. Becomes(e, [chan[e] EXCEPT !.left = "killed"])
        BY <3>2 DEF Kill
      <4>2. HoldPart([chan[e] EXCEPT !.left = "killed"], chan[e])
        BY <2>1 DEF Chans, HoldPart
      <4>3. QED BY <4>1, <4>2
    <3>3. CASE WriterCloses(e)
      <4>1. Becomes(e, [chan[e] EXCEPT !.open = FALSE])
        BY <3>3 DEF WriterCloses
      <4>2. HoldPart([chan[e] EXCEPT !.open = FALSE], chan[e])
        BY <2>1 DEF Chans, HoldPart
      <4>3. QED BY <4>1, <4>2
    <3>4. QED BY <1>4, <3>1, <3>2, <3>3
  <2>3. QED BY <1>2, <2>2
<1>5. ASSUME NEW e \in Ends, WriterWrites(e) \/ WriterFails(e) PROVE ForkRule'
  <2> DEFINE s == chan[e]
             k == [s EXCEPT !.queue = Tail(@), !.ops = @ - 1]
             r == Written(s)
  <2>1. s \in Chans
    BY DEF ForkInv, EndOK
  <2>2. Becomes(e, r)
    BY <1>5 DEF WriterWrites, WriterFails
  <2>3. r = IF s.blocked = 0 THEN k ELSE [k EXCEPT !.queue = Append(@, s.blocked), !.blocked = 0]
    BY DEF Written
  <2> HIDE DEF s, r
  <2>4. /\ HoldPart(k, s)
        /\ {"refed", "connected", "explicit", "listening", "byOnce"} \subseteq DOMAIN k
    BY <2>1 DEF Chans, HoldPart
  <2> HIDE DEF k
  <2>5. HoldPart(r, k)
    BY <2>3, <2>4 DEF HoldPart
  <2>6. HoldPart(r, s)
    BY <2>4, <2>5 DEF HoldPart
  <2>7. QED BY <1>2, <2>2, <2>6 DEF s, r
<1>6. ASSUME NEW e \in Ends, ReaderReads(e) \/ ReaderEnds(e) PROVE ForkRule'
  <2> DEFINE s == chan[e]
  <2>1. s \in Chans
    BY DEF ForkInv, EndOK
  <2>2. ASSUME NEW k, HoldPart(k, s), {"refed", "connected", "explicit", "listening", "byOnce"} \subseteq DOMAIN k,
               NEW t, Becomes(e, Queued(k, t))
        PROVE  ForkRule'
    <3> DEFINE r == Queued(k, t)
    <3>1. HoldPart(r, k)
      BY <2>2 DEF Queued, HoldPart
    <3>2. HoldPart(r, s)
      BY <2>2, <3>1 DEF HoldPart
    <3>b. Becomes(e, r)
      BY <2>2
    <3> HIDE DEF r
    <3>3. QED BY <1>2, <3>b, <3>2
  <2>3. CASE ReaderReads(e)
    <3>1. PICK t : Becomes(e, Queued(s, t))
      BY <2>3 DEF ReaderReads
    <3>2. HoldPart(s, s) /\ {"refed", "connected", "explicit", "listening", "byOnce"} \subseteq DOMAIN s
      BY <2>1 DEF Chans, HoldPart
    <3> HIDE DEF s
    <3>3. QED BY <2>2, <3>1, <3>2
  <2>4. CASE ReaderEnds(e)
    <3> DEFINE k == [s EXCEPT !.reads = FALSE]
    <3>1. Becomes(e, Queued(k, [op |-> "eof"]))
      BY <2>4 DEF ReaderEnds
    <3>2. HoldPart(k, s) /\ {"refed", "connected", "explicit", "listening", "byOnce"} \subseteq DOMAIN k
      BY <2>1 DEF Chans, HoldPart
    <3> HIDE DEF k
    <3>3. QED BY <2>2, <3>1, <3>2
  <2>5. QED BY <1>6, <2>3, <2>4
<1>7. QED BY <1>1, <1>3, <1>4, <1>5, <1>6, RuleCalls DEF KNext, KWorks

LEMMA RuleInit == ASSUME KInit PROVE ForkRule
BY ForkAssumption DEF ForkAssumption, KInit, ForkRule, RuleOK, NewEnd, HasListener, Ends

LEMMA ForkStep == ASSUME ForkInv, KNext PROVE ForkInv'
<1>1. ASSUME NEW e \in Ends,
             \/ RunTick(e) \/ WriterWrites(e) \/ WriterFails(e) \/ WriterCloses(e)
             \/ ReaderReads(e) \/ ReaderEnds(e)
      PROVE  ForkInv'
  BY <1>1, RunTickStep, WriteStep, CloseStep, ReadStep, EndsStep
<1>2. ASSUME NEW e \in Ends,
             \/ Send(e) \/ SendRefused(e) \/ Listen(e) \/ Ref(e) \/ Unref(e) \/ Disconnect(e)
             \/ ListenerDisconnects(e) \/ Exit(e) \/ Kill(e)
      PROVE  ForkInv'
  BY <1>2, SendStep, UserCalls, ListenerCuts, ExitStep, KillStep
<1>3. QED BY <1>1, <1>2 DEF KNext, KWorks

LEMMA ForkIs == ASSUME ForkInv, ForkRule PROVE ForkOps /\ ForkHold /\ InSendOrder /\ NoneCutOff
<1>1. ASSUME NEW e \in Ends
      PROVE  LET s == chan[e] p == chan[Peer(e)] IN
             /\ s.ops = (IF s.refed THEN 1 ELSE 0) + Len(s.queue) + (IF s.blocked = 0 THEN 0 ELSE 1)
             /\ s.refed => s.connected
             /\ s.connected /\ ~s.explicit => (s.refed <=> e = Parent \/ HasListener(s) \/ s.byOnce)
             /\ \A i \in DOMAIN s.heard : s.heard[i] = i
             /\ s.told # -1 => s.told = Len(s.heard)
             /\ s.told # -1 /\ ~s.cut /\ p.left # "killed" => Len(s.heard) = p.sent
  <2> DEFINE s == chan[e]
             p == chan[Peer(e)]
  <2>1. s \in Chans /\ HoldOK(s) /\ HearOK(s) /\ Pair(s, p, wire[e])
    BY DEF ForkInv, EndOK
  <2> HIDE DEF s, p
  <2>2. DOMAIN s.heard = 1..Len(s.heard)
    <3>1. s.heard \in Seq(Nat)
      BY <2>1 DEF Chans
    <3>2. QED BY <3>1
  <2>3. \A i \in DOMAIN s.heard : s.heard[i] = i
    BY <2>1, <2>2 DEF HearOK
  <2>4. s.told # -1 => s.told = Len(s.heard) /\ ~s.connected
    BY <2>1 DEF HearOK
  <2>5. s.told # -1 /\ ~s.cut /\ p.left # "killed" => Len(s.heard) = p.sent
    BY <2>1, <2>4 DEF Pair
  <2>6. s.ops = (IF s.refed THEN 1 ELSE 0) + Len(s.queue) + (IF s.blocked = 0 THEN 0 ELSE 1)
    BY <2>1 DEF HoldOK, Waits
  <2>7. s.refed => s.connected
    BY <2>1 DEF HoldOK
  <2>r. s.connected /\ ~s.explicit => (s.refed <=> e = Parent \/ HasListener(s) \/ s.byOnce)
    BY DEF ForkRule, RuleOK, s
  <2>8. QED BY <2>3, <2>4, <2>5, <2>6, <2>7, <2>r DEF s, p
<1>2. QED BY <1>1 DEF ForkOps, ForkHold, InSendOrder, NoneCutOff

-----------------------------------------------------------------------------
(* The components together *)

ChannelInv == ForkInv /\ ForkRule /\ SignalInv /\ WatchInv /\ ListenerInv /\ DgramInv

\* Each stays as it is while another is at work.
LEMMA SignalStays == ASSUME SignalInv, UNCHANGED gvars PROVE SignalInv'
BY DEF SignalInv, SignalTypes, BridgeOK, KilledUnheard, TakenNotLost, Free, gvars
LEMMA ListenerStays == ASSUME ListenerInv, UNCHANGED lvars PROVE ListenerInv'
BY DEF ListenerInv, ListenerTypes, ServerOK, AnswersOK, lvars
LEMMA WatchStays == ASSUME WatchInv, UNCHANGED hvars PROVE WatchInv'
BY DEF WatchInv, WatchTypes, SharedOK, hvars
LEMMA DgramStays == ASSUME DgramInv, UNCHANGED dvars PROVE DgramInv'
<1>1. State' = State
  BY DEF State, dvars
<1>2. RecvTypes' /\ OrderOK'
  BY DEF DgramInv, RecvTypes, OrderOK, OrderFrom, Held, dvars
<1>3. QED BY <1>1, <1>2 DEF DgramInv
LEMMA ForkStays == ASSUME ForkInv, ForkRule, UNCHANGED kvars PROVE ForkInv' /\ ForkRule'
BY DEF ForkInv, ForkTypes, ForkRule, kvars

LEMMA ChannelInit == Init => ChannelInv
BY ForkInit, RuleInit, SignalInit, WatchInit, ListenerInit, DgramInit
   DEF Init, NoFork, NoSignals, NoWatch, NoListener, NoDatagram, ChannelInv

LEMMA ChannelStep == ASSUME ChannelInv, [Next]_vars PROVE ChannelInv'
<1> USE DEF ChannelInv
<1>1. CASE KNext /\ UNCHANGED <<gvars, hvars, lvars, dvars>>
  BY <1>1, ForkStep, RuleStep, SignalStays, WatchStays, ListenerStays, DgramStays
<1>2. CASE GNext /\ UNCHANGED <<kvars, hvars, lvars, dvars>>
  BY <1>2, SignalStep, ForkStays, WatchStays, ListenerStays, DgramStays
<1>3. CASE HNext /\ UNCHANGED <<kvars, gvars, lvars, dvars>>
  BY <1>3, WatchStep, ForkStays, SignalStays, ListenerStays, DgramStays
<1>4. CASE LNext /\ UNCHANGED <<kvars, gvars, hvars, dvars>>
  BY <1>4, ListenerStep, ForkStays, SignalStays, WatchStays, DgramStays
<1>5. CASE DNext /\ UNCHANGED <<kvars, gvars, hvars, lvars>>
  BY <1>5, DgramStep, ForkStays, SignalStays, WatchStays, ListenerStays
<1>6. CASE UNCHANGED vars
  BY <1>6, ForkStays, SignalStays, WatchStays, ListenerStays, DgramStays DEF vars
<1>7. QED BY <1>1, <1>2, <1>3, <1>4, <1>5, <1>6 DEF Next

LEMMA Invariance == Spec => []ChannelInv
<1>1. ChannelInv /\ [Next]_vars => ChannelInv'
  BY ChannelStep
<1>2. QED BY ChannelInit, <1>1, PTL DEF Spec

\* In whatever order its calls and goroutines run, a fork channel holds one
\* operation for each write that is not done, and one while it is ref'd and
\* connected; until ref() or unref() is called the parent's is ref'd, and the
\* child's exactly while it listens for messages or has done so until a once()
\* listener took itself off.  A server holds one while it is ref'd and not
\* closed, a socket while it is ref'd, bound and receives; a watcher that is
\* closed holds none.
THEOREM LoopIsHeld == Spec => []LoopHeld
<1>1. ChannelInv => LoopHeld
  BY ForkIs, WatchIs, ListenerIs, DgramIs DEF ChannelInv, LoopHeld
<1>2. QED BY <1>1, Invariance, PTL

\* Whatever pieces the reads cut the stream in, a message is emitted once,
\* whole and in the order it was sent; an end that is told 'disconnect' when
\* its peer disconnected or left in good order has emitted everything.
THEOREM ForkMessagesArrive == Spec => []MessagesArrive
<1>1. ChannelInv => MessagesArrive
  BY ForkIs DEF ChannelInv, MessagesArrive
<1>2. QED BY <1>1, Invariance, PTL

\* With any number of listeners per signal, added and removed also while a
\* signal is on its way, the signals that os/signal relays are those someone
\* listens for whenever resync is not at work, and a signal that was taken is
\* emitted or still on its way.
THEOREM SignalsAreBridged == Spec => []SignalsBridged
<1>1. ChannelInv => SignalsBridged
  BY SignalIs DEF ChannelInv, SignalsBridged
<1>2. QED BY <1>1, Invariance, PTL

\* What watchFile() reports differs from the report before it and names the
\* last good stat before it; however often SNICallback answers, the VM thread
\* does not wait, and a handshake's result is the first answer or the timeout;
\* while a UDP socket is open its calls wait only for a bind that is under way,
\* and those that waited are run once each in the order they were made, unless
\* one of them throws; datagrams are emitted in the order they came, and a send
\* is given up only after a failed bind or close().
THEOREM ReportsAreTrue == Spec => []ReportsTrue
<1>1. ChannelInv => ReportsTrue
  BY WatchIs, ListenerIs, DgramIs DEF ChannelInv, ReportsTrue
<1>2. QED BY <1>1, Invariance, PTL

\* After close() a watcher, a server and a socket emit nothing that a
\* goroutine had read before and was about to report.
THEOREM QuietOnceClosed == Spec => QuietAfterClose
<1> DEFINE Quiet == /\ component = "watch" => QuietWhenClosed
                    /\ component = "listener" => NoneServedAfterClose
                    /\ component = "datagram" => SilentAfterClose
<1>1. ChannelInv /\ [Next]_vars => [Quiet]_vars
  <2> SUFFICES ASSUME ChannelInv, Next PROVE Quiet
    OBVIOUS
  <2>1. CASE component = "watch"
    BY <2>1, WatchStep DEF Next, ChannelInv
  <2>2. CASE component = "listener"
    BY <2>2, ListenerQuiet DEF Next, ChannelInv
  <2>3. CASE component = "datagram"
    BY <2>3, DgramStep DEF Next, ChannelInv
  <2>4. QED BY <2>1, <2>2, <2>3
<1>2. QED BY <1>1, Invariance, PTL DEF Spec, QuietAfterClose
=============================================================================
