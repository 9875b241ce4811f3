----------------------------- MODULE MCChannels -----------------------------
(***************************************************************************)
(* What holds the loop and reports to the VM thread from goroutines of its *)
(* own: the channel to a forked process, the signals, the watchers of a    *)
(* file, a listening server and a UDP socket.  component says which one a  *)
(* behaviour is about.                                                     *)
(***************************************************************************)
EXTENDS ForkChannel, Signals, Watch, Listener, Datagram

VARIABLE component

\* The messages of the parent and the child, and the other calls.  The fourth
\* send() of an end blocks while its peer does not read: the first is in the
\* socket, the second in the writer's hands, the third in the channel.
MCBudgets ==
  {[sends |-> [e \in {"p", "c"} |-> IF e = "p" THEN b[1] ELSE b[2]], calls |-> b[3]] :
     b \in {<<1, 1, 2>>, <<4, 0, 2>>, <<4, 4, 1>>}}
\* Calls that wait for bind(), and datagrams.
MCLoads ==
  {[sends |-> b[1], dgrams |-> b[2], failures |-> b[3], ops |-> b[4]] :
     b \in {<<2, 0, 0, 2>>, <<1, 0, 0, 3>>, <<1, 1, 1, 2>>, <<0, 2, 1, 3>>}}
FewLoads == CHOOSE b \in Loads : TRUE

\* A component that is not at work stays as it began.
NoFork == KInit /\ budget = [e \in Ends |-> 1] /\ forkCalls = 2
NoSignals == GInit
NoWatch == HInit /\ file = "v1"
NoListener == LInit
NoDatagram == DInit /\ load = FewLoads

Init ==
  \/ component = "fork" /\ KInit /\ NoSignals /\ NoWatch /\ NoListener /\ NoDatagram
  \/ component = "signals" /\ NoFork /\ GInit /\ NoWatch /\ NoListener /\ NoDatagram
  \/ component = "watch" /\ NoFork /\ NoSignals /\ HInit /\ NoListener /\ NoDatagram
  \/ component = "listener" /\ NoFork /\ NoSignals /\ NoWatch /\ LInit /\ NoDatagram
  \/ component = "datagram" /\ NoFork /\ NoSignals /\ NoWatch /\ NoListener /\ DInit
Next ==
  /\ UNCHANGED component
  /\ \/ component = "fork" /\ KNext /\ UNCHANGED <<gvars, hvars, lvars, dvars>>
     \/ component = "signals" /\ GNext /\ UNCHANGED <<kvars, hvars, lvars, dvars>>
     \/ component = "watch" /\ HNext /\ UNCHANGED <<kvars, gvars, lvars, dvars>>
     \/ component = "listener" /\ LNext /\ UNCHANGED <<kvars, gvars, hvars, dvars>>
     \/ component = "datagram" /\ DNext /\ UNCHANGED <<kvars, gvars, hvars, lvars>>
vars == <<kvars, gvars, hvars, lvars, dvars, component>>

\* The fairness of the component at work.
Resting ==
  CASE component = "fork" -> KRests
    [] component = "signals" -> GRests
    [] component = "watch" -> HRests
    [] component = "listener" -> LRests
    [] component = "datagram" -> DRests
Working ==
  \/ component = "fork" /\ KWorks
  \/ component = "signals" /\ GWorks
  \/ component = "watch" /\ HWorks
  \/ component = "listener" /\ LWorks
  \/ component = "datagram" /\ DWorks
Spec == Init /\ [][Next]_vars /\ ([]<>Resting \/ []<><<Working>>_vars)

-----------------------------------------------------------------------------
\* Every component: the operations that hold the loop are those of its rule.  A
\* fork channel holds one per write that is not done and one while it is ref'd:
\* the parent's as long as it is connected, the child's while it listens (or
\* has, until a once() listener took itself off), and either as ref() and
\* unref() say once they are called.
LoopHeld ==
  /\ component = "fork" => ForkOps /\ ForkHold
  /\ component = "watch" => WatchersHeld
  /\ component = "listener" => ServerHold
  /\ component = "datagram" => DgramHold
\* ForkChannel: messages arrive in order, whole and once, and an orderly end
\* cuts none off.
MessagesArrive == component = "fork" => InSendOrder /\ NoneCutOff
\* Signals: what the operating system delivers is what someone listens for,
\* and nothing that was taken is lost.
SignalsBridged == component = "signals" => BridgeExact /\ KilledUnheard /\ TakenNotLost
\* Watch, Listener and Datagram: the reports of watchFile() are the changes of
\* the file; a handshake has one answer, and none makes the VM thread wait; the
\* calls queued on an open socket wait for a bind that is under way, and are
\* run once each in the order they were made.
ReportsTrue ==
  /\ component = "watch" => ReportsAreChanges
  /\ component = "listener" => OneAnswer
  /\ component = "datagram" => QueueWaitsForBind /\ CallsInOrder /\ DgramsInOrder /\ DroppedForCause
\* Watch, Listener and Datagram: after close() nothing more is heard, even
\* of what a goroutine had already read.
QuietAfterClose ==
  [][/\ component = "watch" => QuietWhenClosed
     /\ component = "listener" => NoneServedAfterClose
     /\ component = "datagram" => SilentAfterClose]_vars
\* Every component: what began comes to its end.
ChannelsSettle ==
  []<>(CASE component = "fork" -> SendReturned /\ SentHeard
         [] component = "signals" -> AllHeard
         [] component = "watch" -> Converged
         [] component = "listener" -> NoneForgotten /\ HandshakesEnd
         [] component = "datagram" -> SendsSettled)
=============================================================================
