----------------------------- MODULE HttpClient -----------------------------
(***************************************************************************)
(* http_shim.go's ClientRequest and its response, over http.go's           *)
(* doHTTPRequest: the request body goes through a channel and a pipe that  *)
(* a goroutine feeds, a second goroutine runs client.Do and then reads the *)
(* response body, and what they report reaches JavaScript as ticks.        *)
(*                                                                         *)
(* client.Do, the transport and the server are external: Do fails or       *)
(* answers, before or after the body was sent, and closes its end of the   *)
(* pipe when it has no more use for it; a body ends, or is cut.            *)
(*                                                                         *)
(* q is the request; the operators are the methods and listeners of the    *)
(* source.  Headers, agents, proxies and idle timeouts are left out, and   *)
(* the request has a listener for 'error'.                                 *)
(***************************************************************************)
EXTENDS Integers, Sequences, FiniteSets, SequencesExt

CONSTANTS
  BodyCap,        \* capacity of bodyCh (64 in the source)
  ResponseChunks, \* chunks of the response
  MaxRequestOps   \* bound: calls of write, end, destroy, abort and on the response

ASSUME HttpClientAssumption ==
  BodyCap \in Nat \ {0} /\ ResponseChunks \in Nat /\ MaxRequestOps \in Nat

VARIABLES
  q,       \* the request, its goroutines, its response and the ticks
  qcalls   \* how many of MaxRequestOps are spent

qvars == <<q, qcalls>>

\* events is what the request's listeners hear, heard the response's.  An
\* 'error' is heard with its code: "errorAfterEnd" is the 'error' of a write()
\* after end() (ERR_STREAM_WRITE_AFTER_END), "error" any other.  err is the
\* code destroy() captured, exited says that the process is gone, and late,
\* the observer's, counts the writes after end().
NewClientRequest ==
  [native |-> FALSE, finished |-> FALSE, destroyed |-> FALSE, aborted |-> FALSE, closed |-> FALSE,
   said |-> 0, bodyCh |-> <<>>, chClosed |-> FALSE, sending |-> 0, feeder |-> "idle", pipeShut |-> FALSE,
   wire |-> <<>>, cancelled |-> FALSE, do |-> "no", left |-> ResponseChunks,
   res |-> "no", flowing |-> FALSE, buffer |-> 0, ended |-> FALSE, complete |-> FALSE, errored |-> FALSE,
   err |-> "none", exited |-> FALSE, late |-> 0,
   ticks |-> <<"socket">>, events |-> <<>>, heard |-> <<>>]

QTick(s, op) == [s EXCEPT !.ticks = Append(@, op)]
QEmit(s, e) == [s EXCEPT !.events = Append(@, e)]
RHears(s, e) == [s EXCEPT !.heard = Append(@, e)]

-----------------------------------------------------------------------------
(* The request *)

\* _sendImpl and doHTTPRequest: the goroutines start.
Send(s) ==
  IF s.native \/ s.destroyed THEN s
  ELSE [s EXCEPT !.native = TRUE, !.feeder = "run", !.do = "dial"]

\* The native write: a send on bodyCh that may wait (sending).
NativeWrite(s, id) ==
  IF Len(s.bodyCh) < BodyCap THEN [s EXCEPT !.bodyCh = Append(@, id)] ELSE [s EXCEPT !.sending = id]

QWrite(s) ==
  LET sent == Send(s)
  IN  CASE s.finished -> QTick([s EXCEPT !.late = @ + 1], "errorAfterEnd")
        [] ~s.finished /\ ~sent.native -> s
        [] OTHER -> NativeWrite([sent EXCEPT !.said = @ + 1], s.said + 1)
QEnd(s) ==
  LET sent == Send(s)
      shut == IF sent.native THEN [sent EXCEPT !.chClosed = TRUE] ELSE sent
  IN  IF s.finished THEN s ELSE QTick([shut EXCEPT !.finished = TRUE], "finish")

\* IncomingMessage.destroy: the transfer itself goes on.
ResDestroy(s, err) ==
  IF s.res # "live" THEN s
  ELSE QTick([s EXCEPT !.res = "destroyed", !.errored = err], "resClose")

\* Mutant: _destroyImpl does not look whether 'close' was emitted.
DestroyTail_Again(s) ==
  LET silent == s.err = "none" \/ (s.err = "reset" /\ s.aborted)
  IN  QEmit([(IF silent THEN s ELSE QEmit(s, "error")) EXCEPT !.closed = TRUE], "close")
\* The tick of _destroyImpl: it looks at aborted when it runs, so an abort()
\* behind destroy() silences an error with the code ECONNRESET.
DestroyTail(s) ==
  LET silent == s.err = "none" \/ (s.err = "reset" /\ s.aborted)
      told == IF silent THEN s ELSE QEmit(s, "error")
  IN  IF s.closed THEN told ELSE QEmit([told EXCEPT !.closed = TRUE], "close")
\* Without an error of the caller's it is "socket hang up", an ECONNRESET.
QDestroy(s, err) ==
  LET gone == ResDestroy([s EXCEPT !.destroyed = TRUE], err # "none")
      hangUp == err = "none" /\ s.res = "no" /\ ~s.aborted
  IN  IF s.destroyed THEN s
      ELSE QTick([gone EXCEPT !.cancelled = @ \/ s.native, !.err = IF hangUp THEN "reset" ELSE err],
                 "destroyed")
QAbort(s) ==
  IF s.aborted THEN s ELSE QDestroy(QTick([s EXCEPT !.aborted = TRUE], "abort"), "none")

-----------------------------------------------------------------------------
(* The response *)

\* flow and endReadable of the Readable.
RFlow(s) ==
  LET flown == [s EXCEPT !.buffer = 0, !.heard = @ \o [i \in 1..s.buffer |-> "data"]]
  IN  CASE s.res = "destroyed" \/ ~s.flowing -> s
        [] s.res # "destroyed" /\ s.flowing /\ s.ended -> QTick(flown, "endReadable")
        [] OTHER -> flown
\* push of a chunk, and of null.
RPush(s) ==
  IF s.flowing /\ s.buffer = 0 /\ s.res = "live" THEN RHears(s, "data") ELSE [s EXCEPT !.buffer = @ + 1]
RPushEnd(s) == RFlow([s EXCEPT !.complete = TRUE, !.ended = TRUE])

\* 'response': an aborted request does not make one; without a listener, or
\* with one that reads, it flows.
OnResponse(s, reads) ==
  LET made == QEmit([s EXCEPT !.res = "live", !.flowing = reads], "response")
  IN  CASE s.destroyed /\ s.aborted -> s
        [] ~(s.destroyed /\ s.aborted) /\ reads -> QTick(made, "resume")
        [] OTHER -> made
\* The native response's 'error': nobody listens to it when 'response' found
\* the request aborted, and an 'error' without a listener ends the process.
OnBodyError(s) == IF s.res = "no" THEN [s EXCEPT !.exited = TRUE] ELSE ResDestroy(s, TRUE)
\* The response's 'end' closes the request.
ResEnds(s) ==
  LET e == RHears(s, "end")
      once == IF s.closed THEN e ELSE QTick([e EXCEPT !.closed = TRUE], "close")
  IN  IF s.errored \/ Contains(s.heard, "close") \/ Contains(s.heard, "end") \/ s.buffer > 0 THEN s
      ELSE ResDestroy(once, FALSE)
OnNativeError(s) ==
  IF s.destroyed THEN s
  ELSE QTick(QEmit([s EXCEPT !.destroyed = TRUE, !.closed = TRUE], "error"), "close")

-----------------------------------------------------------------------------
(* The user; nothing runs while a send blocks the thread *)

Calls(s) == q.sending = 0 /\ qcalls < MaxRequestOps /\ qcalls' = qcalls + 1 /\ q' = s
RequestWrites == Calls(QWrite(q))
RequestEnds == Calls(QEnd(q))
RequestDestroyed == \E err \in {"none", "other", "reset"} : Calls(QDestroy(q, err))
RequestAborts == Calls(QAbort(q))
ResponseFlows == q.res = "live" /\ ~q.flowing /\ Calls(QTick([q EXCEPT !.flowing = TRUE], "resume"))
ResponseDestroyed == q.res = "live" /\ Calls(ResDestroy(q, FALSE))

RequestTick ==
  /\ q.ticks # <<>> /\ q.sending = 0
  /\ LET t == Head(q.ticks)
         s == [q EXCEPT !.ticks = Tail(@)]
     IN  \E reads \in IF t = "response" THEN BOOLEAN ELSE {TRUE} :
           q' = CASE t = "socket" -> IF s.destroyed THEN s ELSE QEmit(s, "socket")
                  [] t = "finish" -> QEmit(s, "finish")
                  [] t = "close" -> QEmit(s, "close")
                  [] t = "abort" -> QEmit(s, "abort")
                  [] t = "errorAfterEnd" -> QEmit(s, "errorAfterEnd")
                  [] t = "destroyed" -> DestroyTail(s)
                  [] t = "nativeError" -> OnNativeError(s)
                  [] t = "response" -> OnResponse(s, reads)
                  [] t = "data" -> IF s.res = "no" THEN s ELSE RPush(s)
                  [] t = "bodyError" -> OnBodyError(s)
                  [] t = "end" -> IF s.res = "no" THEN s ELSE RPushEnd(s)
                  [] t = "resume" -> RFlow(s)
                  [] t = "endReadable" -> ResEnds(s)
                  [] t = "resClose" ->
                       RHears(IF s.errored THEN RHears(s, "error") ELSE s, "close")
  /\ UNCHANGED qcalls

-----------------------------------------------------------------------------
(* The goroutines *)

\* The goroutine that feeds the pipe: it leaves its loop when the reader is
\* gone, and the channel with it.
Feeds ==
  /\ q.feeder = "run"
  /\ \/ /\ q.bodyCh # <<>>
        /\ q' = IF q.pipeShut THEN [q EXCEPT !.feeder = "left", !.bodyCh = Tail(@)]
                ELSE [q EXCEPT !.wire = Append(@, Head(q.bodyCh)), !.bodyCh = Tail(@)]
     \/ q.bodyCh = <<>> /\ q.chClosed /\ q' = [q EXCEPT !.feeder = "closed"]
  /\ UNCHANGED qcalls
\* A send that waited goes on when there is room.
Unblocks ==
  /\ q.sending # 0 /\ Len(q.bodyCh) < BodyCap
  /\ q' = [q EXCEPT !.bodyCh = Append(@, q.sending), !.sending = 0]
  /\ UNCHANGED qcalls
\* client.Do: fails, or answers, early perhaps.
DoReturns ==
  /\ q.do = "dial"
  /\ \/ q' = QTick([q EXCEPT !.do = "done", !.pipeShut = TRUE, !.cancelled = TRUE], "nativeError")
     \/ \E shut \in BOOLEAN :
          q' = QTick([q EXCEPT !.do = "body", !.pipeShut = shut], "response")
  /\ UNCHANGED qcalls
\* pumpHTTPResponseBody: a chunk, the end, or the error and the end.
PumpsBody ==
  /\ q.do = "body"
  /\ \/ q.left > 0 /\ ~q.cancelled /\ q' = QTick([q EXCEPT !.left = @ - 1], "data")
     \/ /\ q.left = 0 /\ ~q.cancelled
        /\ q' = QTick([q EXCEPT !.do = "done", !.cancelled = TRUE, !.pipeShut = TRUE], "end")
     \/ /\ q.left > 0 \/ q.cancelled
        /\ q' = QTick(QTick([q EXCEPT !.do = "done", !.cancelled = TRUE, !.pipeShut = TRUE], "bodyError"),
                      "end")
  /\ UNCHANGED qcalls

QInit == q = NewClientRequest /\ qcalls = 0
QWorks == RequestTick \/ Feeds \/ Unblocks \/ DoReturns \/ PumpsBody
\* Nothing runs any more once the process is gone.
QNext ==
  /\ ~q.exited
  /\ \/ QWorks \/ RequestWrites \/ RequestEnds \/ RequestDestroyed \/ RequestAborts
     \/ ResponseFlows \/ ResponseDestroyed
QIdle ==
  \/ q.exited
  \/ /\ q.do \in {"no", "done"}
     /\ q.sending # 0 => q.feeder # "run"
     /\ q.sending = 0 => q.ticks = <<>> /\ (q.feeder = "run" => q.bodyCh = <<>> /\ ~q.chClosed)
QSpec == QInit /\ [][QNext]_qvars /\ ([]<>QIdle \/ []<><<QWorks>>_qvars)

-----------------------------------------------------------------------------
QHeard(e) == Contains(q.events, e)
Once(e) == \A i, j \in DOMAIN q.events : q.events[i] = e /\ q.events[j] = e => i = j

\* 'socket', 'response', 'finish', 'close' and the request's own 'error' come
\* once at the most, whatever order destroy(), abort() and the ticks of the
\* goroutines come in; after 'close' that 'error' does not come (but of a
\* destroy(err) that comes when all is over), and an answer that crosses
\* abort() is not heard.  It is not so of the 'error' of a write() after
\* end(), which comes with each such call, behind 'close' too.
RequestEvents ==
  /\ \A e \in {"socket", "response", "error", "finish", "close"} : Once(e)
  /\ \A i, j \in DOMAIN q.events :
       /\ i < j /\ q.events[i] = "close" =>
            /\ q.events[j] # "socket"
            /\ q.events[j] = "error" => Contains(q.heard, "end")
       /\ i < j /\ q.events[i] = "abort" => q.events[j] # "response"
\* The same of every 'error' there is: not what the code does with a write()
\* after end().
NoErrorAfterClose ==
  \A i, j \in DOMAIN q.events :
    i < j /\ q.events[i] = "close" => q.events[j] \notin {"error", "errorAfterEnd"}

\* The server reads the chunks in the order of write(), none twice.
RequestBodyInOrder == IsPrefix(q.wire, [i \in 1..q.said |-> i])

\* The response's 'end' says that all of it was heard: a body that was cut
\* does not end, although the native stream says 'end' after its 'error'.
ResponseWhole ==
  /\ Contains(q.heard, "end") =>
       Cardinality({i \in DOMAIN q.heard : q.heard[i] = "data"}) = ResponseChunks
  /\ \A i, j \in DOMAIN q.heard : i < j /\ q.heard[i] \in {"end", "close"} => q.heard[j] # "data"

\* write() does not wait for a goroutine that is gone: not what the code
\* does, whose goroutine leaves the channel when the pipe's reader is gone.
NeverStalls == ~(q.sending # 0 /\ q.feeder = "left")

\* A request that was sent is answered or fails, one that failed or was
\* destroyed closes, a response that is read ends or closes, and each write()
\* after end() has its 'error'.  Two ways to end are not this: a write that
\* waits for a goroutine that is gone, and the exit of a process whose abort()
\* crossed the answer.
RequestSettled ==
  \/ q.sending # 0 /\ q.feeder = "left"
  \/ q.exited /\ q.aborted /\ ~QHeard("response")
  \/ /\ q.native => QHeard("response") \/ QHeard("error") \/ QHeard("close")
     /\ q.destroyed \/ Contains(q.heard, "end") => QHeard("close")
     /\ q.res # "no" /\ q.flowing => Contains(q.heard, "end") \/ Contains(q.heard, "close")
     /\ Cardinality({i \in DOMAIN q.events : q.events[i] = "errorAfterEnd"}) = q.late
\* The process does not end by itself: not what the code does when abort()
\* crosses the answer and the body is cut.
NeverExits == ~q.exited
=============================================================================
