----------------------------- MODULE MCStreams ------------------------------
(***************************************************************************)
(* A Writable, a Readable with its pipes and pipeline, and a Transform,    *)
(* one at a time: component says which one a behaviour is about, and the   *)
(* state spaces add up instead of multiplying.                             *)
(***************************************************************************)
EXTENDS WritableStream, ReadableStream

VARIABLE component

Conf(hwm, writev, final, construct, autoDestroy, destroys, cb) ==
  [hwm |-> hwm, writev |-> writev, final |-> final, construct |-> construct,
   autoDestroy |-> autoDestroy, destroys |-> destroys, cb |-> cb]
Plain(hwm) == Conf(hwm, FALSE, "none", FALSE, TRUE, "sync", "nop")
MCConfigs ==
  {Conf(1, FALSE, "none", FALSE, TRUE, "sync", "one"),
   Conf(2, TRUE, "async", FALSE, TRUE, "async", "own"),
   Conf(2, FALSE, "sync", TRUE, TRUE, "sync", "nop"),
   Conf(1, FALSE, "fail", FALSE, FALSE, "sync", "one")}

Reads(source, hwm, auto) ==
  [hwm |-> hwm, source |-> source, autoDestroy |-> auto, destroys |-> "sync"]
Use(use, source, hwm, piped, how, first) ==
  [use |-> use, conf |-> Reads(source, hwm, TRUE), piped |-> piped, how |-> how,
   dests |-> [x \in Dests |-> IF x = "d1" THEN first ELSE Plain(2)]]
MCScenarios ==
  {Use("data", "sync", 1, <<>>, "sync", Plain(1)),
   Use("data", "async", 2, <<>>, "sync", Plain(1)),
   Use("readable", "sync", 1, <<>>, "sync", Plain(1)),
   Use("readable", "async", 2, <<>>, "sync", Plain(1)),
   Use("pipe", "sync", 2, <<"d1">>, "sync", Plain(1)),
   Use("pipe", "async", 1, <<"d1", "d2">>, "async", Plain(1)),
   Use("pipeline", "sync", 2, <<"d1">>, "async", Plain(1)),
   Use("pipeline", "async", 1, <<"d1">>, "async",
       Conf(2, FALSE, "async", FALSE, TRUE, "async", "nop"))}
MCTransforms ==
  {[r |-> Reads("async", hwm, FALSE), w |-> Conf(n, FALSE, "async", FALSE, FALSE, "sync", "nop")] :
     hwm \in 1..2, n \in 1..2}

\* A component that is not at work is idle in some initial state.
NoWritable == w = NewWritable(Plain(1)) /\ written = 0 /\ ops = 0
NoReadable ==
  s = Made(Use("data", "sync", 1, <<>>, "sync", Plain(1)))
  /\ calls = 0 /\ override = FALSE /\ cut = FALSE
NoTransform ==
  f = NewTransform([r |-> Reads("async", 1, FALSE), w |-> Plain(1)])
  /\ held = FALSE /\ pending = FALSE /\ given = 0 /\ pauses = 0

Init ==
  \/ component = "writable" /\ WInit /\ NoReadable /\ NoTransform
  \/ component = "readable" /\ NoWritable /\ RInit /\ NoTransform
  \/ component = "transform" /\ NoWritable /\ NoReadable /\ FInit
Next ==
  /\ UNCHANGED component
  /\ \/ component = "writable" /\ WNext /\ UNCHANGED <<rvars, fvars>>
     \/ component = "readable" /\ RNext /\ UNCHANGED <<wvars, fvars>>
     \/ component = "transform" /\ FNext /\ UNCHANGED <<wvars, rvars>>
vars == <<wvars, rvars, fvars, component>>

\* The fairness of the component at work.
Resting ==
  CASE component = "writable" -> Quiet
    [] component = "readable" -> Idle
    [] component = "transform" -> Rests
Working ==
  \/ component = "writable" /\ WProgress
  \/ component = "readable" /\ OnItsOwn
  \/ component = "transform" /\ Works
Spec == Init /\ [][Next]_vars /\ ([]<>Resting \/ []<><<Working>>_vars)

-----------------------------------------------------------------------------
\* WritableStream: chunks reach the implementation once and in order, every
\* callback is called once with the outcome of its own chunk, 'finish' says
\* that every accepted write succeeded, and 'close' comes last.
WritesKept ==
  component = "writable" => TakenInOrder /\ CalledBackOnce /\ FinishMeansWritten /\ CloseIsLast
\* ReadableStream, with its Transform: chunks leave in order, none lost,
\* 'end' comes after the last, and a slow receiver holds the sender back.
ReadInOrder ==
  /\ component = "readable" => DataInOrder /\ Backpressure
  /\ component = "transform" => TransformComplete /\ TransformBackpressure
\* ReadableStream: what pipeline()'s callback says is so.
PipelineIsTrue == component = "readable" => PipelineOutcome
\* All three: sender to receiver, a stream implements the conduit.
Ideal == INSTANCE Conduit WITH
  sent <- CASE component = "writable" -> w.accepted
            [] component = "readable" -> s.r.pushed
            [] component = "transform" -> f.r.pushed,
  received <- CASE component = "writable" -> Len(SelectSeq(w.settled, LAMBDA x : x[2]))
                [] component = "readable" -> Arrived
                [] component = "transform" -> Len(f.r.got),
  told <- CASE component = "writable" -> Happened("finish")
            [] component = "readable" -> Told
            [] component = "transform" -> Contains(f.r.events, "end"),
  broken <- CASE component = "writable" -> w.errored
              [] component = "readable" -> cut
              [] component = "transform" -> FALSE
StreamsAreConduits == Ideal!ConduitSpec
\* All three: every write is called back and a refused one is followed by
\* 'drain'; a reader, a pipe, a pipeline and a transform do not stall.
StreamsDeliver ==
  []<>(CASE component = "writable" -> EveryWriteSettles /\ DrainComes
         [] component = "readable" -> Delivers /\ PipelineSettles
         [] component = "transform" -> TransformEnds)
=============================================================================
