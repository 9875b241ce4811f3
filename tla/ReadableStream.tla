--------------------------- MODULE ReadableStream ---------------------------
(***************************************************************************)
(* A Readable read by its 'data' or 'readable' listener, piped to some     *)
(* Writables or joined to one by pipeline(): its source pushes chunks and  *)
(* the end when it likes, the dests take chunks at once or later, and the  *)
(* user pauses, resumes, reads, pipes, unpipes and destroys.  The ticks of *)
(* one stream run in order; those of different streams interleave freely,  *)
(* which is more than the one queue of the code allows.                    *)
(*                                                                         *)
(* The second part, with variables of its own, is a Transform.             *)
(***************************************************************************)
EXTENDS Readable

CONSTANT Scenarios  \* how it is used: see ScenarioType

ScenarioType ==
  [use: {"data", "readable", "pipe", "pipeline"}, conf: ReadableConfType,
   dests: [Dests -> Configs], piped: Seq(Dests), how: Hows]

VARIABLES
  s,        \* the readable, the dests and the pipeline
  calls,    \* how many of MaxOps are spent
  override, \* observer: a read(), a resume() or a later pipe() was the user's
  cut       \* observer: the user paused, unpiped or destroyed, or a source failed

rvars == <<s, calls, override, cut>>

Made(sc) ==
  LET fresh == [r |-> NewReadable(sc.conf), d |-> [x \in Dests |-> NewWritable(sc.dests[x])],
                p |-> NoPipeline, how |-> sc.how]
  IN  CASE sc.use = "data" -> Listened([fresh EXCEPT !.r.dataListener = TRUE])
        [] sc.use = "readable" -> OnReadable(fresh)
        [] sc.use = "pipe" -> FoldLeft(Pipe, fresh, sc.piped)
        [] sc.use = "pipeline" -> Pipeline(fresh, Head(sc.piped))

RInit ==
  /\ s \in {Made(sc) : sc \in Scenarios}
  /\ calls = 0
  /\ override = FALSE
  /\ cut = FALSE

\* A step that is not a call of the user's; one of MaxOps calls.
Goes(t) == s' = t /\ UNCHANGED <<calls, override, cut>>
Calls(t, overrides, cuts) ==
  /\ calls < MaxOps /\ calls' = calls + 1 /\ s' = t
  /\ override' = (override \/ overrides) /\ cut' = (cut \/ cuts)

\* The source: its answers to _read, or a push nobody asked for.
SourcePush ==
  /\ s.r.conf.source = "async" /\ s.r.asked /\ s.r.pushed < MaxChunks /\ ~s.r.ended
  /\ ~s.r.destroyed
  /\ Goes([PushChunk(s) EXCEPT !.r.asked = FALSE])
SourceEnd ==
  /\ s.r.conf.source = "async" /\ s.r.asked /\ ~s.r.ended /\ ~s.r.destroyed
  /\ Goes(AfterSource(PushEnd([s EXCEPT !.r.asked = FALSE]), s))
SourceFails ==
  ~s.r.destroyed /\ Calls([s EXCEPT !.r = ErrorOrDestroy(@, FALSE)], FALSE, TRUE)

SourceTick == s.r.ticks # <<>> /\ Goes(AfterSource(RunSourceTick(s), s))
SourceDestroyed ==
  /\ "destroy" \in s.r.waiting
  /\ Goes([s EXCEPT !.r = OnDestroy(@, s.r.destroyErr)])

\* The dests: their ticks, and the implementation's answers.
DestStep(x, t) == Goes(AfterDest([s EXCEPT !.d[x] = t], x, s))
DestTick(x) == s.d[x].ticks # <<>> /\ DestStep(x, RunTick(s.d[x]))
DestWritten(x) == s.d[x].writing /\ DestStep(x, Onwrite(s.d[x]))
DestFinal(x) == "final" \in s.d[x].waiting /\ DestStep(x, OnFinish(s.d[x], FALSE))
DestDestroyed(x) ==
  "destroy" \in s.d[x].waiting /\ DestStep(x, OnDestroy(s.d[x], s.d[x].destroyErr))

\* The user; of a pipeline, one that reads, resumes and destroys.
UserRead == \E n \in {NaN, 2} : Calls(Read(s, n)[1], TRUE, FALSE)
UserPause == ~s.p.on /\ Calls(Pause(s), FALSE, TRUE)
UserResume == Calls(Resume(s), TRUE, FALSE)
UserOffReadable ==
  /\ s.r.onReadable
  /\ Calls(RTick([s EXCEPT !.r.onReadable = FALSE], "updateReadableListening"), FALSE, TRUE)
UserPipe(x) ==
  s.r.pipes # <<>> /\ ~Contains(s.r.pipes, x) /\ Calls(Pipe(s, x), TRUE, FALSE)
UserUnpipe(x) ==
  ~s.p.on /\ Contains(s.r.pipes, x) /\ Calls(Unpipe(s, x), FALSE, TRUE)
UserDestroySource == Calls([s EXCEPT !.r = Destroy(@, FALSE)], FALSE, TRUE)
UserDestroyDest(x) ==
  \E err \in BOOLEAN : Calls([s EXCEPT !.d[x] = Destroy(@, err)], FALSE, TRUE)

OnItsOwn ==
  \/ SourcePush \/ SourceEnd \/ SourceTick \/ SourceDestroyed
  \/ \E x \in Dests : DestTick(x) \/ DestWritten(x) \/ DestFinal(x) \/ DestDestroyed(x)
RNext ==
  \/ OnItsOwn
  \/ SourceFails \/ UserRead \/ UserPause \/ UserResume \/ UserOffReadable \/ UserDestroySource
  \/ \E x \in Dests : UserPipe(x) \/ UserUnpipe(x) \/ UserDestroyDest(x)

\* Weak fairness of OnItsOwn, its ENABLED spelt out.
SourceIdle == s.r.conf.source = "sync" \/ ~s.r.asked \/ s.r.ended \/ s.r.destroyed
DestIdle(x) == s.d[x].ticks = <<>> /\ ~s.d[x].writing /\ s.d[x].waiting = {}
Idle == SourceIdle /\ s.r.ticks = <<>> /\ s.r.waiting = {} /\ \A x \in Dests : DestIdle(x)
RFairness == []<>Idle \/ []<><<OnItsOwn>>_rvars
ReadableSpec == RInit /\ [][RNext]_rvars /\ RFairness

-----------------------------------------------------------------------------
SourceEmitted(e) == Contains(s.r.events, e)
DestEmitted(x, e) == Contains(s.d[x].events, e)

\* Chunks leave the stream in the order they were pushed, none twice and
\* none left out, whichever of 'data', read() and pipe takes them; 'end'
\* says that all have left.
DataInOrder ==
  /\ \A i \in DOMAIN s.r.got : s.r.got[i] = i
  /\ SourceEmitted("end") => Len(s.r.got) = s.r.pushed /\ s.r.ended

\* Without a read(), a resume() or a second pipe() of the user's, pipe never
\* writes to a dest that asked it to wait: no dest holds more than its high
\* water mark, with one dest or with a slow one among several.  (A destroyed
\* source no longer pauses and empties its buffer until 'close'.)
Backpressure ==
  ~override /\ ~s.r.destroyed => \A x \in Dests : s.d[x].length <= s.d[x].conf.hwm

\* pipeline()'s callback is called once; without an error only when the
\* dest has taken every chunk and, unless it was destroyed meanwhile, finished;
\* and when it is called both streams are destroyed.
PipelineOutcome ==
  /\ Len(s.p.called) <= 1
  /\ s.p.called = <<"none">> =>
       /\ SourceEmitted("end")
       /\ cut \/ (DestEmitted(s.p.to, "finish") /\ Len(s.d[s.p.to].taken) = s.r.pushed)
  /\ s.p.called # <<>> => s.r.destroyed /\ s.d[s.p.to].destroyed

\* How many chunks the receiver has, and whether it was told of the end: the
\* reader of the source or, through pipeline(), the dest's implementation.
Arrived == IF s.p.on THEN Len(s.d[s.p.to].taken) ELSE Len(s.r.got)
Told == IF s.p.on THEN DestEmitted(s.p.to, "finish") ELSE SourceEmitted("end")

\* At rest, nothing has stalled: unless the user cuts it, the source ends, every dest it
\* was piped to from the start finishes, and a stray read(), resume() or
\* pipe() does not stop it.
Delivers ==
  cut \/ (SourceEmitted("end") /\ \A x \in Dests :
             s.d[x].accepted = s.r.pushed /\ s.d[x].accepted > 0 => DestEmitted(x, "finish"))

\* At rest pipeline()'s callback was called, however either stream is
\* destroyed: except when the source is destroyed without an error after its
\* last push, and before 'end', which then never comes.
EndNeverComes == s.r.destroyed /\ s.r.ended /\ ~s.r.errored /\ ~SourceEmitted("end")
PipelineSettles == s.p.on => s.p.called # <<>> \/ EndNeverComes

-----------------------------------------------------------------------------
(***************************************************************************)
(* A Transform of stream_duplex.go: a Readable and a Writable in one       *)
(* object.  Its _write gives a chunk to _transform and, when the readable  *)
(* side is full, keeps the callback until _read wants more; its _final     *)
(* flushes and pushes the end.                                             *)
(*                                                                         *)
(* f is a state of Readable whose only dest is the Writable side.          *)
(* _transform answers after it was called, with a chunk or with none.      *)
(* Neither side is destroyed here (autoDestroy is off): what destroy does  *)
(* is in WritableStream and above.                                         *)
(***************************************************************************)
CONSTANTS
  Side,       \* the name of the Writable side: Dests is {Side}
  Transforms  \* the options: records [r: ReadableConfType, w: Configs]

VARIABLES
  f,        \* both sides
  held,     \* this[kCallback] is set
  pending,  \* _transform was called and has not answered
  given,    \* how many chunks were written
  pauses    \* how many of MaxOps pauses are spent

fvars == <<f, held, pending, given, pauses>>

W(t) == t.d[Side]

\* The constructor: the readable side does not look synchronous.
NewTransform(c) ==
  Listened([r |-> [NewReadable(c.r) EXCEPT !.sync = FALSE, !.dataListener = TRUE],
            d |-> [x \in Dests |-> NewWritable(c.w)], p |-> NoPipeline, how |-> "async"])

FInit ==
  /\ f \in {NewTransform(c) : c \in Transforms}
  /\ held = FALSE /\ pending = FALSE /\ given = 0 /\ pauses = 0

\* What a step that leaves t does on its way: a _read that finds the
\* callback kept calls it; a write that begins calls _transform.
Leaves(t, kept, asked) ==
  LET released == IF kept /\ t.r.asked THEN [t EXCEPT !.d[Side] = Onwrite(@)] ELSE t
      began == Len(W(released).taken) > Len(W(f).taken)
  IN  /\ f' = [released EXCEPT !.r.asked = FALSE]
      /\ held' = (kept /\ ~t.r.asked)
      /\ pending' = (asked \/ began)

FWrite ==
  /\ given < MaxChunks /\ ~W(f).ending
  /\ Leaves([f EXCEPT !.d[Side] = Write(@, [id |-> given + 1, how |-> "async"])], held, pending)
  /\ given' = given + 1 /\ UNCHANGED pauses
FEnd ==
  /\ ~W(f).ending
  /\ Leaves([f EXCEPT !.d[Side] = End(@)], held, pending)
  /\ UNCHANGED <<given, pauses>>

\* The callback given to _transform: push(val), then the write's callback,
\* now, or when _read asks.
Transformed ==
  /\ pending
  /\ \E val \in BOOLEAN :
       LET pushed == IF val THEN PushChunk(f) ELSE f
           now == \/ W(f).ending \/ Length(pushed) = Length(f)
                  \/ Length(pushed) < pushed.r.hwm
       IN  IF now THEN Leaves([pushed EXCEPT !.d[Side] = Onwrite(@), !.r.asked = FALSE], FALSE, FALSE)
           ELSE Leaves([pushed EXCEPT !.r.asked = FALSE], TRUE, FALSE)
  /\ UNCHANGED <<given, pauses>>

\* transformFinal: _flush has answered; push(null), then _final's callback.
Flushed ==
  /\ "final" \in W(f).waiting
  /\ LET ended == PushEnd(f)
     IN  Leaves([ended EXCEPT !.d[Side] = OnFinish(@, FALSE)], held, pending)
  /\ UNCHANGED <<given, pauses>>

ReaderTick ==
  /\ f.r.ticks # <<>> /\ Leaves(RunSourceTick(f), held, pending) /\ UNCHANGED <<given, pauses>>
WriterTick ==
  /\ W(f).ticks # <<>> /\ Leaves([f EXCEPT !.d[Side] = RunTick(@)], held, pending)
  /\ UNCHANGED <<given, pauses>>
ReaderPauses ==
  /\ pauses < MaxOps /\ pauses' = pauses + 1
  /\ Leaves(Pause(f), held, pending) /\ UNCHANGED given
ReaderResumes ==
  /\ f.r.flowing = "no" /\ Leaves(Resume(f), held, pending) /\ UNCHANGED <<given, pauses>>

Works == Transformed \/ Flushed \/ ReaderTick \/ WriterTick \/ ReaderResumes
FNext == Works \/ FWrite \/ FEnd \/ ReaderPauses

\* Weak fairness of Works, its ENABLED spelt out: the reader resumes, and
\* _transform and _flush answer.
Rests ==
  /\ ~pending /\ W(f).waiting = {} /\ f.r.ticks = <<>> /\ W(f).ticks = <<>>
  /\ f.r.flowing # "no"
TransformSpec == FInit /\ [][FNext]_fvars /\ ([]<>Rests \/ []<><<Works>>_fvars)

\* What is written is transformed in order, what was pushed is read in
\* order, and the reader's 'end' comes when every write has been transformed
\* and everything pushed has been read.
TransformComplete ==
  /\ \A i \in DOMAIN W(f).taken : W(f).taken[i] = i
  /\ \A i \in DOMAIN f.r.got : f.r.got[i] = i
  /\ Contains(f.r.events, "end") =>
       Len(W(f).taken) = given /\ Len(f.r.got) = f.r.pushed /\ ~pending /\ ~held

\* The readable side holds one chunk more than its high water mark at the
\* most, however far the writer is ahead: the callback is kept meanwhile.
\* (Once end() was called the rest goes through without waiting.)
TransformBackpressure == W(f).ending \/ Length(f) <= f.r.hwm + 1

\* At rest a kept callback was called, and an ended Transform ends: reader
\* and writer never wait for each other.
TransformEnds == W(f).ending => Contains(f.r.events, "end") /\ Contains(W(f).events, "finish")
=============================================================================
