--------------------------- MODULE WritableStream ---------------------------
(***************************************************************************)
(* One Writable of stream_writable.go, its user and its implementation: a  *)
(* bounded number of writes, of which the implementation answers each at   *)
(* once or later, cork, uncork, end and destroy at any moment, and         *)
(* process.nextTick's queue.                                               *)
(***************************************************************************)
EXTENDS Writable

CONSTANT MaxCalls  \* bound: calls of cork, end and destroy

VARIABLES
  w,        \* the stream: WritableState, its ticks and its environment
  written,  \* how many chunks were passed to write()
  ops       \* how many of MaxCalls are spent

wvars == <<w, written, ops>>

WInit ==
  /\ w \in {NewWritable(c) : c \in Configs}
  /\ written = 0
  /\ ops = 0

\* One of MaxCalls calls by the stream's user.
Call(s) == ops < MaxCalls /\ ops' = ops + 1 /\ w' = s /\ UNCHANGED written

UserWrite ==
  /\ written < MaxChunks
  /\ \E how \in Hows : w' = Write(w, [id |-> written + 1, how |-> how])
  /\ written' = written + 1
  /\ UNCHANGED ops
UserCork == Call([w EXCEPT !.corked = @ + 1])
UserUncork == w.corked > 0 /\ w' = Uncork(w) /\ UNCHANGED <<written, ops>>
UserEnd == Call(End(w))
UserDestroy == \E err \in BOOLEAN : Call(Destroy(w, err))

\* The implementation's callbacks, called when it likes.
WriteDone == w.writing /\ w' = Onwrite(w) /\ UNCHANGED <<written, ops>>
CalledTwice ==
  /\ ~w.writing /\ w.taken # <<>> /\ Call(ErrorOrDestroy(w, FALSE))
FinalDone ==
  /\ "final" \in w.waiting
  /\ \E err \in BOOLEAN : w' = OnFinish(w, err)
  /\ UNCHANGED <<written, ops>>
DestroyDone ==
  /\ "destroy" \in w.waiting
  /\ w' = OnDestroy(w, w.destroyErr)
  /\ UNCHANGED <<written, ops>>
ConstructDone ==
  /\ "construct" \in w.waiting
  /\ \E err \in BOOLEAN :
       w' = Tick([w EXCEPT !.waiting = @ \ {"construct"}], [op |-> "onConstruct", err |-> err])
  /\ UNCHANGED <<written, ops>>
NextTick == w.ticks # <<>> /\ w' = RunTick(w) /\ UNCHANGED <<written, ops>>

\* What happens without the user: the tick queue is drained, the
\* implementation answers, a corked stream is uncorked.
WProgress ==
  \/ NextTick \/ WriteDone \/ FinalDone \/ DestroyDone \/ ConstructDone \/ UserUncork
WNext == WProgress \/ UserWrite \/ UserCork \/ UserEnd \/ UserDestroy \/ CalledTwice

\* Weak fairness of WProgress, its ENABLED spelt out.  The user calls a bounded
\* number of times, so that fairness of the union is fairness of each.
Quiet == w.ticks = <<>> /\ ~w.writing /\ w.waiting = {} /\ w.corked = 0
Fairness == []<>Quiet \/ []<><<WProgress>>_wvars
WritableSpec == WInit /\ [][WNext]_wvars /\ Fairness

-----------------------------------------------------------------------------
Happened(e) == \E i \in DOMAIN w.events : w.events[i] = e
Settled(id) == \E i \in DOMAIN w.settled : w.settled[i][1] = id

\* The implementation gets every chunk once, in the order they were written,
\* and none is left out before an error: whatever was buffered, corked or
\* batched for _writev.
TakenInOrder ==
  /\ \A i \in 1..Len(w.taken) - 1 : w.taken[i] < w.taken[i + 1]
  /\ ~w.errored => \A i \in DOMAIN w.taken : w.taken[i] = i

\* A write's callback is called once; without an error only when the
\* implementation is done with its chunk.
CalledBackOnce ==
  /\ \A i, j \in DOMAIN w.settled : w.settled[i][1] = w.settled[j][1] => i = j
  /\ \A i \in DOMAIN w.settled :
       w.settled[i][2] =>
         /\ Contains(w.taken, w.settled[i][1])
         /\ ~Contains(w.current.ids, w.settled[i][1])

\* 'finish' says that every write that was not refused was taken and called
\* back without an error.
FinishMeansWritten ==
  Happened("finish") =>
    \A id \in 1..w.accepted : Contains(w.settled, <<id, TRUE>>)

\* 'error', 'finish' and 'close' are emitted once each at the most, and
\* 'close' comes after the others.
CloseIsLast ==
  \A i, j \in DOMAIN w.events :
    /\ i < j => w.events[i] # "close" \/ w.events[j] \in {"ended", "endFailed"}
    /\ w.events[i] = w.events[j] /\ w.events[i] \in {"error", "finish", "close"} => i = j

\* At rest: every write has been called back, on a stream that destroys itself
\* on an error: no path leaves a chunk in the buffer for ever.
EveryWriteSettles ==
  \A id \in 1..MaxChunks : written >= id /\ w.conf.autoDestroy => Settled(id)

\* At rest: after a write that returned false there was a 'drain', unless the stream
\* is ended or destroyed or has failed.
DrainComes == w.needDrain => w.ending \/ w.destroyed \/ w.errored
=============================================================================
