------------------------------ MODULE Readable ------------------------------
(***************************************************************************)
(* stream_readable.go: a Readable, its ReadableState and its source's      *)
(* _read, with pipe() and unpipe(), and pipeline() of stream_pipeline.go   *)
(* for a Readable and a Writable.  A state s has the readable s.r, the     *)
(* Writables s.d[x] it may be piped to, and the pipeline s.p; as in        *)
(* Writable, the operators are the source's functions.                     *)
(*                                                                         *)
(* Chunks are the numbers 1, 2, ... of length one, the stream has no       *)
(* decoder.  'data' and 'readable' listeners run where they are emitted;   *)
(* the listeners of pipe and pipeline on 'end', 'error', 'close', 'finish' *)
(* and 'drain' run at the end of the tick that emits: nothing the tick     *)
(* still does depends on them.                                             *)
(***************************************************************************)
EXTENDS Writable, FiniteSets

CONSTANTS
  Dests,  \* the Writables
  MaxOps  \* bound: the user's calls of read, pause, pipe, unpipe and destroy

ReadableConfType ==
  [hwm: Nat, source: {"sync", "async"}, autoDestroy: BOOLEAN, destroys: {"sync", "async"}]

\* r.got and r.events are the observer's: the chunks that left the stream,
\* and what it emitted.  Its destroy fields are those of Writable.
NewReadable(c) ==
  [conf |-> c, hwm |-> c.hwm, buffer |-> <<>>, flowing |-> "null", ended |-> FALSE,
   endEmitted |-> FALSE, reading |-> FALSE, sync |-> TRUE, needReadable |-> FALSE,
   emittedReadable |-> FALSE, readableListening |-> FALSE, resumeScheduled |-> FALSE,
   readingMore |-> FALSE, dataListener |-> FALSE, onReadable |-> FALSE, paused |-> "null",
   awaitDrain |-> {}, ondrain |-> {}, pipes |-> <<>>, pushed |-> 0, asked |-> FALSE,
   destroyed |-> FALSE, constructed |-> TRUE, errored |-> FALSE, errorEmitted |-> FALSE,
   closed |-> FALSE, closeEmitted |-> FALSE, waiting |-> {}, destroyErr |-> FALSE,
   buffered |-> <<>>, onFinished |-> 0, ticks |-> <<>>, events |-> <<>>, got |-> <<>>]

NoPipeline == [on |-> FALSE, to |-> "none", error |-> "none", count |-> 0, ended |-> FALSE,
               src |-> FALSE, dst |-> FALSE, over |-> FALSE, called |-> <<>>]

RTick(s, op) == [s EXCEPT !.r.ticks = Append(@, [op |-> op])]
DataListening(s) == s.r.dataListener \/ s.r.pipes # <<>>
Length(s) == Len(s.r.buffer)

-----------------------------------------------------------------------------
(* pause, resume *)

Resume(s) ==
  LET flowing == [s EXCEPT !.r.flowing = IF s.r.readableListening THEN "no" ELSE "yes"]
      scheduled == IF s.r.resumeScheduled THEN flowing
                   ELSE RTick([flowing EXCEPT !.r.resumeScheduled = TRUE], "resume")
  IN  CASE s.r.destroyed -> s
        [] ~s.r.destroyed /\ s.r.flowing = "yes" -> [s EXCEPT !.r.paused = "no"]
        [] OTHER -> [scheduled EXCEPT !.r.paused = "no"]

Pause(s) ==
  IF s.r.destroyed THEN s ELSE [s EXCEPT !.r.flowing = "no", !.r.paused = "yes"]

-----------------------------------------------------------------------------
(* pipe *)

\* ondrain of one dest.
PipeOnDrain(s, x) ==
  LET rest == [s EXCEPT !.r.awaitDrain = @ \ {x}]
  IN  IF rest.r.awaitDrain = {} /\ DataListening(rest) THEN Resume(rest) ELSE rest

\* Mutant: the source pauses but no 'drain' listener is added.
PipePause_NoDrain(s, x) == Pause([s EXCEPT !.r.awaitDrain = @ \cup {x}])
\* pause() of pipe: the source waits for x.
PipePause(s, x) ==
  LET waits == [s EXCEPT !.r.awaitDrain = IF Len(s.r.pipes) = 1 THEN {x} ELSE @ \cup {x},
                         !.r.ondrain = @ \cup {x}]
  IN  Pause(waits)

\* ondata of the dests, in the order they were piped.
PipeWrite(s, x, id) ==
  LET look(t) == IF WriteReturns(t.d[x]) THEN t ELSE PipePause(t, x)
  IN  look([s EXCEPT !.d[x] = Write(@, [id |-> id, how |-> s.how])])

EmitData(s, id) ==
  FoldLeft(LAMBDA t, x : PipeWrite(t, x, id), [s EXCEPT !.r.got = Append(@, id)], s.r.pipes)

\* unpipe(dest), with cleanup() in its 'unpipe' listener.
Unpipe(s, x) ==
  LET out == [s EXCEPT !.r.pipes = SelectSeq(@, LAMBDA y : y # x)]
      idle == IF out.r.pipes = <<>> THEN Pause(out) ELSE out
      clean == [idle EXCEPT !.r.ondrain = @ \ {x}]
  IN  CASE ~Contains(s.r.pipes, x) -> s
        [] Contains(s.r.pipes, x) /\ x \in s.r.ondrain
             /\ s.r.awaitDrain # {} /\ s.d[x].needDrain -> PipeOnDrain(clean, x)
        [] OTHER -> clean

\* on("data") resumes a stream that was not paused; then pipe looks at dest.
Listened(s) == IF s.r.flowing # "no" THEN Resume(s) ELSE s
Pipe(s, x) ==
  LET piped == Listened([s EXCEPT !.r.pipes = Append(@, x)])
      ended == IF s.r.endEmitted THEN [piped EXCEPT !.r.ticks = Append(@, [op |-> "endDest", to |-> x])]
               ELSE piped
      full == s.d[x].needDrain /\ ~s.d[x].destroyed /\ ~s.d[x].ending
  IN  CASE full -> PipePause(ended, x)
        [] ~full /\ ended.r.flowing # "yes" -> Resume(ended)
        [] OTHER -> ended

-----------------------------------------------------------------------------
(* push and read *)

EmitReadable(s) ==
  LET e == [s EXCEPT !.r.needReadable = FALSE]
  IN  IF s.r.emittedReadable THEN e
      ELSE RTick([e EXCEPT !.r.emittedReadable = TRUE], "emitReadable")

EndReadable(s) ==
  IF s.r.endEmitted THEN s ELSE RTick([s EXCEPT !.r.ended = TRUE], "endReadable")

MaybeReadMore(s) ==
  IF s.r.readingMore \/ s.r.reading THEN s
  ELSE RTick([s EXCEPT !.r.readingMore = TRUE], "maybeReadMore")

\* Mutant: a chunk is emitted although others wait in the buffer.
AddChunk_Overtakes(s, id) ==
  MaybeReadMore(
    IF s.r.flowing = "yes" /\ ~s.r.sync /\ DataListening(s) THEN EmitData(s, id)
    ELSE LET b == [s EXCEPT !.r.buffer = Append(@, id)]
         IN  IF b.r.needReadable THEN EmitReadable(b) ELSE b)
AddChunk(s, id) ==
  MaybeReadMore(
    IF s.r.flowing = "yes" /\ ~s.r.sync /\ DataListening(s) /\ s.r.buffer = <<>>
    THEN EmitData([s EXCEPT !.r.awaitDrain = {}], id)
    ELSE LET b == [s EXCEPT !.r.buffer = Append(@, id)]
         IN  IF b.r.needReadable THEN EmitReadable(b) ELSE b)

\* push(chunk), once the stream has not ended.
PushChunk(s) ==
  LET id == s.r.pushed + 1
  IN  IF s.r.destroyed \/ s.r.errored THEN s
      ELSE AddChunk([s EXCEPT !.r.reading = FALSE, !.r.pushed = id], id)

\* _read: the source pushes its next chunk at once, or its end; or later.
CallRead(s) ==
  LET begun == [s EXCEPT !.r.reading = TRUE, !.r.sync = TRUE,
                         !.r.needReadable = @ \/ s.r.buffer = <<>>]
      pushed == CASE s.r.conf.source = "async" -> [begun EXCEPT !.r.asked = TRUE]
                  [] s.r.conf.source = "sync" /\ s.r.pushed < MaxChunks -> PushChunk(begun)
                  [] OTHER -> EmitReadable([begun EXCEPT !.r.reading = FALSE, !.r.ended = TRUE])
  IN  [pushed EXCEPT !.r.sync = FALSE]

NaN == 100  \* the size of read()
HowMuchToRead(s, n) ==
  CASE n = 0 \/ (Length(s) = 0 /\ s.r.ended) -> 0
    [] n = NaN -> IF Length(s) > 0 THEN 1 ELSE 0
    [] n # NaN /\ n <= Length(s) -> n
    [] OTHER -> IF s.r.ended THEN Length(s) ELSE 0

\* read's tail: k chunks are taken off the buffer.
Take(s, n, k) ==
  LET ret == SubSeq(s.r.buffer, 1, k)
      taken == IF k = 0
               THEN [s EXCEPT !.r.needReadable = @ \/ Length(s) <= s.r.hwm]
               ELSE [s EXCEPT !.r.buffer = SubSeq(@, k + 1, Len(@)), !.r.awaitDrain = {}]
      empty == [taken EXCEPT !.r.needReadable = @ \/ (taken.r.buffer = <<>> /\ ~taken.r.ended)]
      ended == IF empty.r.buffer = <<>> /\ empty.r.ended /\ n # k THEN EndReadable(empty)
               ELSE empty
  IN  IF k = 0 \/ s.r.errorEmitted \/ s.r.closeEmitted THEN <<ended, ret>>
      ELSE <<FoldLeft(EmitData, ended, ret), ret>>

\* After _read: what is there now, when it answered at once.
ReadTail(s, n, k, called) ==
  Take(s, n, IF called /\ ~s.r.reading THEN HowMuchToRead(s, n) ELSE k)
\* read(n): the state it leaves and what it returns; <<>> is null.
Read(s, n) ==
  LET asked == [s EXCEPT !.r.hwm = IF n # NaN /\ n > @ THEN n ELSE @,
                         !.r.emittedReadable = @ /\ n = 0]
      k == HowMuchToRead(asked, n)
      enough == IF asked.r.hwm # 0 THEN Length(s) >= asked.r.hwm ELSE Length(s) > 0
      blocked == s.r.reading \/ s.r.ended \/ s.r.destroyed \/ s.r.errored
      doRead == s.r.needReadable \/ Length(s) = 0 \/ Length(s) - k < asked.r.hwm
      reads == ~blocked /\ doRead
  IN  CASE n = 0 /\ s.r.needReadable /\ (enough \/ s.r.ended) ->
             <<IF Length(s) = 0 /\ s.r.ended THEN EndReadable(asked) ELSE EmitReadable(asked), <<>>>>
        [] ~(n = 0 /\ s.r.needReadable /\ (enough \/ s.r.ended)) /\ k = 0 /\ s.r.ended ->
             <<IF Length(s) = 0 THEN EndReadable(asked) ELSE asked, <<>>>>
        [] OTHER -> ReadTail(IF reads THEN CallRead(asked) ELSE asked, n, k, reads)

\* while (go(state) && stream.read() !== null): every turn takes a chunk.
ReadWhile(s, go(_)) ==
  LET turned(x) == <<x[1], x[2] # <<>>>>
      turn(t, i) == IF ~t[2] \/ ~go(t[1]) THEN <<t[1], FALSE>> ELSE turned(Read(t[1], NaN))
  IN  FoldLeft(turn, <<s, TRUE>>, [i \in 1..MaxChunks + 1 |-> i])[1]
Flow(s) == ReadWhile(s, LAMBDA t : t.r.flowing = "yes")

\* emitReadable_; the 'readable' listener reads until it gets null.
EmitReadable_(s) ==
  LET live == ~s.r.destroyed /\ ~s.r.errored /\ (s.r.buffer # <<>> \/ s.r.ended)
      heard == IF live /\ s.r.onReadable THEN ReadWhile(s, LAMBDA t : TRUE) ELSE s
      need(t) == t.r.flowing # "yes" /\ ~t.r.ended /\ Length(t) <= t.r.hwm
      emitted(t) == [t EXCEPT !.r.emittedReadable = @ /\ ~live, !.r.needReadable = @ \/ need(t)]
  IN  Flow(emitted(heard))

\* push(null) outside _read.
PushEnd(s) ==
  LET e == [s EXCEPT !.r.reading = FALSE, !.r.ended = TRUE]
  IN  IF s.r.ended THEN e
      ELSE IF s.r.sync THEN EmitReadable(e)
      ELSE EmitReadable_([e EXCEPT !.r.needReadable = FALSE, !.r.emittedReadable = TRUE])

\* maybeReadMore_: read(0) until it adds nothing.
MaybeReadMore_(s) ==
  LET turned(t, x) == <<x, Length(x) # Length(t)>>
      wants(t) == ~t.r.reading /\ ~t.r.ended
                  /\ (Length(t) < t.r.hwm \/ (t.r.flowing = "yes" /\ t.r.buffer = <<>>))
      turn(t, i) == IF ~t[2] \/ ~wants(t[1]) THEN <<t[1], FALSE>>
                    ELSE turned(t[1], Read(t[1], 0)[1])
  IN  [FoldLeft(turn, <<s, TRUE>>, [i \in 1..MaxChunks + 1 |-> i])[1]
         EXCEPT !.r.readingMore = FALSE]

Resume_(s) ==
  LET first == IF s.r.reading THEN s ELSE Read(s, 0)[1]
      on(t) == IF t.r.flowing = "yes" /\ ~t.r.reading THEN Read(t, 0)[1] ELSE t
  IN  on(Flow([first EXCEPT !.r.resumeScheduled = FALSE]))

\* on("readable") and, a tick after removeListener, updateReadableListening.
OnReadable(s) ==
  LET on == [s EXCEPT !.r.onReadable = TRUE, !.r.readableListening = TRUE,
                      !.r.needReadable = TRUE, !.r.flowing = "no", !.r.emittedReadable = FALSE]
  IN  CASE s.r.endEmitted \/ s.r.readableListening -> [s EXCEPT !.r.onReadable = TRUE]
        [] ~(s.r.endEmitted \/ s.r.readableListening) /\ s.r.buffer # <<>> -> EmitReadable(on)
        [] OTHER -> IF s.r.reading THEN on ELSE RTick(on, "read0")

UpdateReadableListening(s) ==
  LET u == [s EXCEPT !.r.readableListening = s.r.onReadable]
  IN  CASE s.r.paused = "no" /\ s.r.resumeScheduled -> [u EXCEPT !.r.flowing = "yes"]
        [] ~(s.r.paused = "no" /\ s.r.resumeScheduled) /\ DataListening(s) -> Resume(u)
        [] OTHER -> IF u.r.readableListening THEN u ELSE [u EXCEPT !.r.flowing = "null"]

\* endReadableNT: 'end', then autoDestroy.
EndReadableNT(s) ==
  LET e == [s EXCEPT !.r = Emit([@ EXCEPT !.endEmitted = TRUE], "end")]
  IN  CASE s.r.errored \/ s.r.closeEmitted \/ s.r.endEmitted \/ s.r.buffer # <<>> -> s
        [] OTHER -> IF s.r.conf.autoDestroy THEN [e EXCEPT !.r = Destroy(@, FALSE)] ELSE e

-----------------------------------------------------------------------------
(* pipeline(src, dest, callback): src.pipe(dest, { end: false }) and eos on both *)

\* finishImpl; destroyer() does nothing to a stream that is destroyed, and
\* with autoDestroy a stream that is finished is.
FinishImpl(s, err, final, x) ==
  LET error == IF err # "none" /\ s.p.error \in {"none", "premature"} THEN err ELSE s.p.error
      noted == [s EXCEPT !.p.error = error]
      destroyed == IF s.p.over THEN noted
                   ELSE [noted EXCEPT !.r = Destroy(@, TRUE), !.d[x] = Destroy(@, TRUE),
                                      !.p.over = TRUE]
  IN  CASE error = "none" /\ ~final -> noted
        [] final -> RTick(destroyed, "pipelineCallback")
        [] OTHER -> destroyed

\* Mutant: the first stream that is done completes the pipeline.
PipelineFinish_First(s, err, x) ==
  LET c == [s EXCEPT !.p.count = @ - 1] IN FinishImpl(c, err, TRUE, x)
PipelineFinish(s, err, x) ==
  LET c == [s EXCEPT !.p.count = @ - 1] IN FinishImpl(c, err, c.p.count = 0, x)

\* getEosOnCloseError of the source and of the dest.
SrcCloseError(s) ==
  CASE s.r.errored -> "error"
    [] ~s.r.errored /\ ~s.r.endEmitted /\ ~(s.r.ended /\ s.r.buffer = <<>>) -> "premature"
    [] OTHER -> "none"
DstCloseError(s, x) ==
  CASE s.d[x].errored -> "error"
    [] ~s.d[x].errored /\ ~s.d[x].finished /\ ~(s.d[x].ending /\ s.d[x].length = 0) -> "premature"
    [] OTHER -> "none"

\* The callback of eos(src): a premature close of a stream that has ended
\* waits for its 'end'.
SrcDone(s, err, x) ==
  LET done == [s EXCEPT !.p.src = TRUE]
  IN  CASE s.p.src -> s
        [] ~s.p.src /\ err = "premature" /\ s.r.ended /\ ~s.r.errored -> done
        [] OTHER -> PipelineFinish(done, err, x)
DstDone(s, err, x) ==
  IF s.p.dst THEN s ELSE PipelineFinish([s EXCEPT !.p.dst = TRUE], err, x)

\* What the source's 'end', 'error' and 'close' start.
OnSource(s, e) ==
  LET x == s.p.to
      out == IF s.p.on THEN Unpipe(s, x) ELSE s
      ends == ToSet(out.r.pipes) \cup (IF s.p.on THEN {x} ELSE {})
  IN  CASE e = "end" ->
             [out EXCEPT !.d = [y \in Dests |-> IF y \in ends THEN End(@[y]) ELSE @[y]],
                         !.p.ended = TRUE]
        [] e = "error" /\ s.p.on -> SrcDone(FinishImpl(s, "error", FALSE, x), "error", x)
        [] e = "close" /\ s.p.on -> SrcDone(s, SrcCloseError(s), x)
        [] OTHER -> s

\* What a dest's events start: pipe's onerror, onfinish and onclose, then
\* the pipeline's.
OnDest(s, x, e) ==
  LET out == IF e \in {"error", "finish", "close"} THEN Unpipe(s, x) ELSE s
      early == IF e = "close" /\ ~out.p.ended THEN FinishImpl(out, "premature", FALSE, x) ELSE out
  IN  CASE s.p.to # x -> out
        [] s.p.to = x /\ e = "error" -> DstDone(FinishImpl(out, "error", FALSE, x), "error", x)
        [] s.p.to = x /\ e = "close" -> DstDone(early, DstCloseError(early, x), x)
        [] OTHER -> out

New(events, before) == SubSeq(events, Len(before) + 1, Len(events))
AfterSource(s, before) == FoldLeft(OnSource, s, New(s.r.events, before.r.events))
AfterDest(s, x, before) ==
  LET drained == IF before.d[x].needDrain /\ ~s.d[x].needDrain /\ x \in s.r.ondrain
                 THEN PipeOnDrain(s, x) ELSE s
  IN  FoldLeft(LAMBDA t, e : OnDest(t, x, e), drained, New(s.d[x].events, before.d[x].events))

\* src.pipe(dest, { end: false }), then src.once("end"); finishCount is two.
Pipeline(s, x) ==
  LET piped == Pipe(s, x)
  IN  [piped EXCEPT !.p = [NoPipeline EXCEPT !.on = TRUE, !.to = x, !.count = 2]]

\* A tick of the source's.
RunSourceTick(s) ==
  LET op == Head(s.r.ticks).op
      t == [s EXCEPT !.r.ticks = Tail(@)]
  IN  CASE op = "resume" -> Resume_(t)
        [] op = "emitReadable" -> EmitReadable_(t)
        [] op = "maybeReadMore" -> MaybeReadMore_(t)
        [] op = "endReadable" -> EndReadableNT(t)
        [] op = "read0" -> Read(t, 0)[1]
        [] op = "updateReadableListening" -> UpdateReadableListening(t)
        [] op = "pipelineCallback" -> [t EXCEPT !.p.called = Append(@, t.p.error)]
        [] op = "endDest" -> [t EXCEPT !.d[Head(s.r.ticks).to] = End(@)]
        [] OTHER -> [t EXCEPT !.r = RunTick(s.r)]
=============================================================================
