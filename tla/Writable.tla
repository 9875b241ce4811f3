------------------------------ MODULE Writable ------------------------------
(***************************************************************************)
(* stream_writable.go and the destroy half of stream_core.go: a Writable,  *)
(* its WritableState, and the implementation's _write, _writev, _final,    *)
(* _construct and _destroy as an environment that may answer at once or    *)
(* later, with success or an error.                                        *)
(*                                                                         *)
(* A stream is a record, and every function of the source is an operator   *)
(* from records to records: what it calls before it returns is composed    *)
(* into it.  ticks is the stream's part of process.nextTick's queue.  A    *)
(* chunk is [id, how]: its place in the order of the writes, and how the   *)
(* implementation will answer for it.  Every chunk has length one.  The    *)
(* caller passes write() the same callback every time ("one"), a new one   *)
(* ("own") or none ("nop").                                                *)
(***************************************************************************)
EXTENDS Integers, Sequences, SequencesExt

CONSTANTS
  MaxChunks,  \* bound: chunks written or pushed
  Configs     \* the options a Writable is made with: see ConfigType

ConfigType ==
  [hwm: Nat, writev: BOOLEAN, final: {"none", "sync", "async", "fail"},
   construct: BOOLEAN, autoDestroy: BOOLEAN, destroys: {"sync", "async"},
   cb: {"one", "own", "nop"}]

ASSUME WritableAssumption ==
  /\ MaxChunks \in Nat
  /\ Configs \subseteq ConfigType

Hows == {"sync", "async", "fail", "failLater"}
NoWrite == [fn |-> "nop", ids |-> <<>>, how |-> "sync"]

\* WritableState's constructor.  accepted, taken, settled and events are the
\* observer's: how many writes were not refused, the ids given to _write in
\* order, the callbacks called with their outcome, and the events emitted.
NewWritable(c) ==
  [conf |-> c, length |-> 0, needDrain |-> FALSE, ending |-> FALSE,
   finished |-> FALSE, destroyed |-> FALSE, writing |-> FALSE, corked |-> 0,
   sync |-> TRUE, current |-> NoWrite, info |-> "none", afterPending |-> FALSE,
   buffered |-> <<>>, pendingcb |-> 0, constructed |-> ~c.construct,
   prefinished |-> FALSE, finalCalled |-> FALSE, errored |-> FALSE,
   errorEmitted |-> FALSE, closed |-> FALSE, closeEmitted |-> FALSE,
   onFinished |-> 0, waiting |-> {}, destroyErr |-> FALSE,
   ticks |-> IF c.construct THEN <<[op |-> "constructNT"]>> ELSE <<>>,
   accepted |-> 0, taken |-> <<>>, settled |-> <<>>, events |-> <<>>]

Tick(s, t) == [s EXCEPT !.ticks = Append(@, t)]
Emit(s, e) == [s EXCEPT !.events = Append(@, e)]
Settle(s, ids, ok) ==
  [s EXCEPT !.settled = @ \o [i \in DOMAIN ids |-> <<ids[i], ok>>]]
IdsOf(buffer) == [i \in DOMAIN buffer |-> buffer[i].id]

-----------------------------------------------------------------------------
(* destroy.js *)

EmitErrorNT(s) ==
  IF s.errorEmitted THEN s ELSE Emit([s EXCEPT !.errorEmitted = TRUE], "error")

EmitCloseNT(s) == Emit([s EXCEPT !.closeEmitted = TRUE], "close")

\* _destroy's onDestroy.
OnDestroy(s, err) ==
  Tick([s EXCEPT !.errored = @ \/ err, !.closed = TRUE, !.waiting = @ \ {"destroy"}],
       [op |-> IF err THEN "errorCloseNT" ELSE "closeNT"])

CallDestroy(s, err) ==
  IF s.conf.destroys = "sync" THEN OnDestroy(s, err)
  ELSE [s EXCEPT !.waiting = @ \cup {"destroy"}, !.destroyErr = err]

\* Writable.prototype.destroy and destroyStream; kDestroy waits for onConstruct.
Destroy(s, err) ==
  LET queued == IF ~s.destroyed /\ (s.buffered # <<>> \/ s.onFinished > 0)
                THEN Tick(s, [op |-> "errorBuffer"]) ELSE s
      marked == [queued EXCEPT !.errored = @ \/ err, !.destroyed = TRUE]
  IN  CASE s.destroyed -> s
        [] ~s.destroyed /\ ~s.constructed -> [marked EXCEPT !.destroyErr = err]
        [] OTHER -> CallDestroy(marked, err)

ErrorOrDestroy(s, sync) ==
  CASE s.destroyed -> s
    [] ~s.destroyed /\ s.conf.autoDestroy -> Destroy(s, TRUE)
    [] OTHER -> LET e == [s EXCEPT !.errored = TRUE]
                IN  IF sync THEN Tick(e, [op |-> "errorNT"]) ELSE EmitErrorNT(e)

-----------------------------------------------------------------------------
(* finish *)

CallFinishedCallbacks(s, ok) ==
  [s EXCEPT !.onFinished = 0,
            !.events = @ \o [i \in 1..s.onFinished |-> IF ok THEN "ended" ELSE "endFailed"]]

Finish(s) ==
  LET f == Emit(CallFinishedCallbacks([s EXCEPT !.pendingcb = @ - 1, !.finished = TRUE], TRUE),
                "finish")
  IN  IF s.conf.autoDestroy THEN Destroy(f, FALSE) ELSE f

\* Mutant: finishMaybe does not look at a write that is still running.
NeedFinish_Running(s) ==
  s.ending /\ ~s.destroyed /\ s.constructed /\ ~s.finished /\ ~s.errored /\ s.buffered = <<>>
NeedFinish(s) ==
  /\ s.ending /\ ~s.destroyed /\ s.constructed /\ ~s.finished /\ ~s.writing
  /\ ~s.errorEmitted /\ ~s.closeEmitted /\ ~s.errored
  /\ s.buffered = <<>> /\ s.length = 0

\* The callback given to _final; sync is state.sync while it runs.
OnFinish(s, err) ==
  LET counted == [s EXCEPT !.pendingcb = @ - 1, !.waiting = @ \ {"final"}]
  IN  CASE s.prefinished -> ErrorOrDestroy(s, FALSE)
        [] ~s.prefinished /\ err ->
             ErrorOrDestroy(CallFinishedCallbacks(counted, FALSE), s.sync)
        [] ~s.prefinished /\ ~err /\ NeedFinish(counted) ->
             Tick([counted EXCEPT !.prefinished = TRUE, !.pendingcb = @ + 1], [op |-> "finish"])
        [] OTHER -> counted

Prefinish(s) ==
  LET called == [s EXCEPT !.finalCalled = TRUE, !.sync = TRUE, !.pendingcb = @ + 1]
      left(t) == [t EXCEPT !.sync = FALSE]
  IN  CASE s.prefinished \/ s.finalCalled -> s
        [] ~(s.prefinished \/ s.finalCalled) /\ (s.conf.final = "none" \/ s.destroyed) ->
             [s EXCEPT !.finalCalled = TRUE, !.prefinished = TRUE]
        [] OTHER -> CASE s.conf.final = "sync" -> left(OnFinish(called, FALSE))
                      [] s.conf.final = "fail" -> left(OnFinish(called, TRUE))
                      [] OTHER -> left([called EXCEPT !.waiting = @ \cup {"final"}])

FinishMaybe(s, sync) ==
  LET finishes(p) ==
        CASE p.pendingcb = 0 /\ sync ->
               Tick([p EXCEPT !.pendingcb = 1], [op |-> "finishIfNeeded"])
          [] p.pendingcb = 0 /\ ~sync /\ NeedFinish(p) -> Finish([p EXCEPT !.pendingcb = 1])
          [] OTHER -> p
  IN  IF NeedFinish(s) THEN finishes(Prefinish(s)) ELSE s

-----------------------------------------------------------------------------
(* write *)

\* errorBuffer: what is buffered fails, unless a write is still running.
ErrorBuffer(s) ==
  IF s.writing THEN s
  ELSE CallFinishedCallbacks(
         Settle([s EXCEPT !.length = @ - Len(s.buffered), !.buffered = <<>>],
                IdsOf(s.buffered), FALSE), FALSE)

OnwriteError(s, ids) ==
  ErrorOrDestroy(ErrorBuffer(Settle([s EXCEPT !.pendingcb = @ - 1], ids, FALSE)), FALSE)

DrainDue(s) == ~s.ending /\ ~s.destroyed /\ s.needDrain /\ s.length = 0
Drained(s) == [s EXCEPT !.needDrain = FALSE]

\* afterWrite from its callback loop on: ids are settled by count turns.
AfterDrain(s, ids, count) ==
  LET cleared(t) == IF t.destroyed THEN ErrorBuffer(t) ELSE t
      finished(t) == IF t.ending THEN FinishMaybe(t, TRUE) ELSE t
  IN  finished(cleared(Settle([s EXCEPT !.pendingcb = @ - count], ids, TRUE)))

AfterWrite(s, ids, count) ==
  LET reset == [s EXCEPT !.afterPending = FALSE]
  IN  AfterDrain(IF DrainDue(reset) THEN Drained(reset) ELSE reset, ids, count)

\* The current write is over: the lines of onwrite before its outcome.
Over(s) == [s EXCEPT !.writing = FALSE, !.current = NoWrite,
                     !.length = @ - Len(s.current.ids)]

\* The last afterWriteTick queued is afterWriteTickInfo's: count++ is on it.
Joined(s, ids) ==
  LET last == SelectLastInSeq(s.ticks, LAMBDA t : t.op = "afterWriteTick")
  IN  [s EXCEPT !.ticks[last].ids = @ \o ids, !.ticks[last].count = @ + 1]

\* onwrite after a synchronous success, the buffer already looked at.
SyncDone(s, cb) ==
  LET needTick == (s.needDrain /\ s.length = 0) \/ cb.fn # "nop"
      ended(t) == IF t.ending THEN FinishMaybe(t, TRUE) ELSE t
      direct == ended(Settle([s EXCEPT !.pendingcb = @ - 1], cb.ids, TRUE))
  IN  CASE cb.fn = "nop" /\ ~s.afterPending /\ needTick ->
             Tick([s EXCEPT !.afterPending = TRUE],
                  [op |-> "afterWrite", ids |-> cb.ids, count |-> 1])
        [] cb.fn = "nop" /\ ~(~s.afterPending /\ needTick) -> direct
        [] cb.fn = "one" /\ s.info = "one" -> Joined(s, cb.ids)
        [] OTHER -> Tick([s EXCEPT !.info = cb.fn, !.afterPending = TRUE],
                         [op |-> "afterWriteTick", ids |-> cb.ids, count |-> 1])

\* _write or _writev answers before it returns, or is left running.
Answered(s, how, cb) ==
  CASE how = "sync" -> SyncDone(Over(s), cb)
    [] how = "fail" -> Tick([Over(s) EXCEPT !.errored = TRUE],
                            [op |-> "onwriteError", ids |-> cb.ids])
    [] OTHER -> s

\* The call of _write or _writev in writeOrBuffer and doWrite.
DoWrite(s, ids, fn, how) ==
  LET cb == [fn |-> fn, ids |-> ids, how |-> how]
      started == [s EXCEPT !.writing = TRUE, !.current = cb, !.sync = TRUE,
                           !.taken = @ \o ids]
  IN  [Answered(started, how, cb) EXCEPT !.sync = FALSE]

\* Mutant: clearBuffer does not advance past a chunk it has written.
ClearOne_Again(s, c) ==
  IF s.writing THEN s ELSE DoWrite(s, <<c.id>>, s.conf.cb, c.how)
\* One turn of clearBuffer's loop, which goes on while no write is running.
ClearOne(s, c) ==
  IF s.writing THEN s
  ELSE DoWrite([s EXCEPT !.buffered = Tail(@)], <<c.id>>, s.conf.cb, c.how)

ClearBuffer(s) ==
  LET b == s.buffered
  IN  CASE s.corked > 0 \/ s.destroyed \/ ~s.constructed \/ b = <<>> -> s
        [] Len(b) > 1 /\ s.conf.writev ->
             DoWrite([s EXCEPT !.pendingcb = @ - (Len(b) - 1), !.buffered = <<>>],
                     IdsOf(b), IF s.conf.cb = "nop" THEN "nop" ELSE "own", b[1].how)
        [] OTHER -> FoldLeft(ClearOne, s, b)

WriteOrBuffer(s, c) ==
  LET counted == [s EXCEPT !.length = @ + 1]
      noted(t) == [t EXCEPT !.needDrain = @ \/ ~(t.length < s.conf.hwm \/ t.length = 0)]
  IN  noted(IF s.writing \/ s.errored \/ s.corked > 0 \/ ~s.constructed
            THEN [counted EXCEPT !.buffered = Append(@, c)]
            ELSE DoWrite(counted, <<c.id>>, s.conf.cb, c.how))

\* _write; its result is read off the state it leaves.
Write(s, c) ==
  IF s.ending \/ s.destroyed
  THEN ErrorOrDestroy(Tick(s, [op |-> "refuse", ids |-> <<c.id>>]), TRUE)
  ELSE WriteOrBuffer([s EXCEPT !.pendingcb = @ + 1, !.accepted = @ + 1], c)

WriteReturns(s) ==
  (s.length < s.conf.hwm \/ s.length = 0) /\ ~s.destroyed /\ ~s.errored /\ ~s.ending

\* onwrite when _write answers after it returned: the state in which
\* afterWrite, or onwriteError, then runs.
OnwriteLater(s) ==
  LET over == Over(s)
  IN  IF over.buffered # <<>> THEN ClearBuffer(over) ELSE over

Onwrite(s) ==
  IF s.current.how = "failLater"
  THEN OnwriteError([Over(s) EXCEPT !.errored = TRUE], s.current.ids)
  ELSE AfterWrite(OnwriteLater(s), s.current.ids, 1)

\* uncork; end() sets corked to one first.
Uncork(s) ==
  LET u == [s EXCEPT !.corked = @ - 1]
  IN  CASE s.corked = 0 -> s
        [] s.corked > 0 /\ ~s.writing -> ClearBuffer(u)
        [] OTHER -> u

\* end(cb); a chunk given to end is a write before it.
End(s) ==
  LET told(t, refused) == IF refused \/ t.errored THEN Tick(t, [op |-> "endCallback"])
                          ELSE [t EXCEPT !.onFinished = @ + 1]
      ends(u) == IF ~u.ending /\ ~u.errored
                 THEN told(FinishMaybe([u EXCEPT !.ending = TRUE], TRUE), FALSE)
                 ELSE told(u, u.finished \/ u.destroyed)
  IN  ends(IF s.corked > 0 THEN Uncork([s EXCEPT !.corked = 1]) ELSE s)

OnConstruct(s, err) ==
  LET c == [s EXCEPT !.constructed = TRUE]
      finished(t) == IF t.ending THEN FinishMaybe(t, FALSE) ELSE t
  IN  CASE s.destroyed -> CallDestroy(c, s.destroyErr \/ err)
        [] ~s.destroyed /\ err -> ErrorOrDestroy(c, TRUE)
        [] OTHER -> finished(IF c.writing THEN c ELSE ClearBuffer(c))

\* What a queued tick does when it runs.
Perform(s, t) ==
  CASE t.op = "afterWrite" -> AfterWrite(s, t.ids, t.count)
    [] t.op = "afterWriteTick" -> AfterWrite([s EXCEPT !.info = "none"], t.ids, t.count)
    [] t.op = "onwriteError" -> OnwriteError(s, t.ids)
    [] t.op = "refuse" -> Settle(s, t.ids, FALSE)
    [] t.op = "errorBuffer" -> ErrorBuffer(s)
    [] t.op = "errorNT" -> EmitErrorNT(s)
    [] t.op = "errorCloseNT" -> EmitCloseNT(EmitErrorNT(s))
    [] t.op = "closeNT" -> EmitCloseNT(s)
    [] t.op = "finish" -> Finish(s)
    [] t.op = "finishIfNeeded" ->
         IF NeedFinish(s) THEN Finish(s) ELSE [s EXCEPT !.pendingcb = @ - 1]
    [] t.op = "endCallback" -> Emit(s, "endFailed")
    [] t.op = "constructNT" -> [s EXCEPT !.waiting = @ \cup {"construct"}]
    [] t.op = "onConstruct" -> OnConstruct(s, t.err)
RunTick(s) == Perform([s EXCEPT !.ticks = Tail(@)], Head(s.ticks))
=============================================================================
