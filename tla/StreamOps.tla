------------------------------- MODULE StreamOps -------------------------------
(***************************************************************************)
(* stream_ops.go: the operators of Readable, which are all built on map(), *)
(* and the adapters between Node's streams and the web's.  The web streams *)
(* are the engine's own and are modelled from what the adapters are told.  *)
(*                                                                         *)
(* A continuation of a promise is an action of its own: their order is     *)
(* left open, the code may not depend on it.                               *)
(***************************************************************************)
EXTENDS Integers, Sequences, FiniteSets, SequencesExt

CONSTANTS
  OpWorlds,  \* records [items, concurrency, room, first]: the fate of each
             \* item ("keep", "drop", "fail"), the options of map()
             \* and whether the consumer wants only the first result (find)
  Adapters,  \* of "toReadable", "fromReadable", "toWritable", "fromWritable"
  WebItems,  \* bound: chunks through an adapter
  WebRoom,   \* the high-water mark on both sides
  MaxText    \* bound: code units through a TextEncoderStream

ASSUME StreamOpsAssumption == {WebItems, MaxText} \subseteq Nat /\ WebRoom \in Nat \ {0}

VARIABLES mo, wa, te

-----------------------------------------------------------------------------
(* map(): a pump calls fn, at most concurrency at a time, and a consumer   *)
(* takes the results in the order of the items                             *)

\* given: items the source has given; queue: their promises (0 is kEof, -1
\* a rejection of the pump's own); settled: promises; cnt, next, resume and
\* done as in the code.
MOInit == \E w \in OpWorlds :
  mo = [w |-> w, given |-> 0, pump |-> "next", queue |-> <<>>, called |-> {}, settled |-> {}, cnt |-> 0, next |-> FALSE,
        resume |-> FALSE, done |-> FALSE, cons |-> "loop", out |-> <<>>, aborted |-> FALSE, source |-> "open"]

Fate(i) == mo.w.items[i]
\* map's own highWaterMark is added to the concurrency.
QueueRoom == mo.w.room + mo.w.concurrency
\* maybeResume.
Resumed(m) ==
  IF m.resume /\ ~m.done /\ m.cnt < m.w.concurrency /\ Len(m.queue) < m.w.room + m.w.concurrency
  THEN [m EXCEPT !.resume = FALSE, !.pump = "next"]
  ELSE m
Processed(m) == Resumed([m EXCEPT !.cnt = @ - 1])
Woken(m) == IF m.next THEN [m EXCEPT !.next = FALSE, !.cons = "loop"] ELSE m
\* The pump's finally, and the consumer's.
PumpOver(m) == [Woken([m EXCEPT !.done = TRUE]) EXCEPT !.pump = "over"]
ConsOver(m, how) ==
  LET over == [m EXCEPT !.done = TRUE, !.cons = how]
  IN  IF m.resume THEN [over EXCEPT !.resume = FALSE, !.pump = "next"] ELSE over

\* The source gives an item: the for await returns when nobody wants it, and
\* that destroys the source.
PumpTakes ==
  /\ mo.pump = "next" /\ mo.source = "open" /\ mo.given < Len(mo.w.items)
  /\ LET i == mo.given + 1
         m == [mo EXCEPT !.given = i]
         called == Woken([m EXCEPT !.cnt = @ + 1, !.called = @ \cup {i}, !.queue = Append(@, i)])
         full == Len(called.queue) >= QueueRoom \/ called.cnt >= mo.w.concurrency
     IN  mo' = IF mo.done THEN PumpOver([m EXCEPT !.source = "destroyed"])
               ELSE IF mo.aborted
                    THEN PumpOver([m EXCEPT !.queue = Append(@, -1), !.source = "destroyed"])
               ELSE IF ~called.done /\ full THEN [called EXCEPT !.pump = "room", !.resume = TRUE]
               ELSE called
PumpEnds ==
  /\ mo.pump = "next" /\ mo.source = "open" /\ mo.given = Len(mo.w.items)
  /\ \E fails \in BOOLEAN :
       mo' = PumpOver([mo EXCEPT !.queue = Append(@, IF fails THEN -1 ELSE 0),
                                 !.source = IF fails THEN "failed" ELSE "ended"])
\* fn's promise settles, and the reaction the pump has put on it runs.
ItemSettles ==
  \E i \in mo.called \ mo.settled :
    LET m == [mo EXCEPT !.settled = @ \cup {i}]
    IN  mo' = IF Fate(i) = "fail" THEN Processed([m EXCEPT !.done = TRUE]) ELSE Processed(m)

ConsumerLooks ==
  /\ mo.cons = "loop"
  /\ mo' = IF mo.queue = <<>> THEN [mo EXCEPT !.cons = "wait", !.next = TRUE]
           ELSE [mo EXCEPT !.cons = "head"]
\* await queue[0].
ConsumerTakes ==
  /\ mo.cons = "head"
  /\ LET head == mo.queue[1]
         shifted == Resumed([mo EXCEPT !.queue = Tail(@), !.cons = "loop"])
     IN  /\ head > 0 => head \in mo.settled
         /\ mo' = IF head = 0 THEN ConsOver(mo, "ended")
                  ELSE IF head = -1 \/ Fate(head) = "fail" \/ mo.aborted THEN ConsOver(mo, "failed")
                  ELSE IF Fate(head) = "keep" THEN [mo EXCEPT !.out = Append(@, head), !.cons = "yield"]
                  ELSE shifted
\* The user asks for more, or has seen enough.
ConsumerGoesOn ==
  /\ mo.cons = "yield" /\ ~mo.w.first
  /\ mo' = Resumed([mo EXCEPT !.queue = Tail(@), !.cons = "loop"])
ConsumerStops == mo.cons = "yield" /\ mo' = ConsOver(mo, "stopped")
OpAborts == ~mo.aborted /\ mo' = [mo EXCEPT !.aborted = TRUE]

MOWork ==
  PumpTakes \/ PumpEnds \/ ItemSettles \/ ConsumerLooks \/ ConsumerTakes \/ ConsumerGoesOn \/ ConsumerStops
MONext == MOWork \/ OpAborts
MOSettled == mo.cons \in {"ended", "failed", "stopped"}

-----------------------------------------------------------------------------
(* Adapters *)

\* node: Node's stream, flowing or with needDrain; web: the web stream;
\* left: chunks to come; buf, queue: what is buffered on Node's side and on
\* the web's; got: what came out; promise: of the write or close() the web
\* stream waits for; eos: it has called back.
WAInit == \E kind \in Adapters :
  wa = [kind |-> kind, left |-> [i \in 1 .. WebItems |-> i], node |-> "open", flowing |-> FALSE, buf |-> <<>>,
        queue |-> <<>>, web |-> "open", got |-> <<>>, promise |-> "none", eos |-> FALSE, canceled |-> FALSE,
        needDrain |-> FALSE, accepted |-> <<>>, failed |-> FALSE]
Is(kind) == wa.kind = kind

\* newReadableStreamFromStreamReadable: pull() resumes, 'data' enqueues and
\* pauses when the web stream is full.
WebPulls ==
  /\ Is("toReadable") /\ wa.web = "open" /\ Len(wa.queue) < WebRoom /\ ~wa.flowing
  /\ wa' = [wa EXCEPT !.flowing = TRUE]
NodeData ==
  /\ Is("toReadable") /\ wa.node = "open" /\ wa.flowing /\ wa.left # <<>> /\ wa.web = "open"
  /\ wa' = [wa EXCEPT !.left = Tail(@), !.queue = Append(@, Head(wa.left)),
                      !.flowing = Len(wa.queue) + 1 < WebRoom]
NodeEnds ==
  Is("toReadable") /\ wa.node = "open" /\ wa.flowing /\ wa.left = <<>> /\ wa' = [wa EXCEPT !.node = "ended"]
NodeFails ==
  /\ Is("toReadable") \/ Is("toWritable")
  /\ wa.node \in {"open", "ending"} /\ wa' = [wa EXCEPT !.node = "failed", !.failed = TRUE, !.buf = <<>>]
\* eos calls back: a close waits for what is queued, an error does not.
ReadableEos ==
  /\ Is("toReadable") /\ ~wa.eos /\ wa.node \in {"ended", "failed"}
  /\ wa' = IF wa.canceled THEN [wa EXCEPT !.eos = TRUE]
           ELSE IF wa.node = "failed" THEN [wa EXCEPT !.eos = TRUE, !.canceled = TRUE, !.web = "errored", !.queue = <<>>]
           ELSE [wa EXCEPT !.eos = TRUE, !.canceled = TRUE, !.web = IF wa.queue = <<>> THEN "closed" ELSE "closing"]
WebReads ==
  /\ Is("toReadable") /\ wa.queue # <<>>
  /\ wa' = [wa EXCEPT !.got = Append(@, Head(wa.queue)), !.queue = Tail(@),
                      !.web = IF @ = "closing" /\ Len(wa.queue) = 1 THEN "closed" ELSE @]
WebCancels ==
  /\ Is("toReadable") /\ wa.web \in {"open", "closing"}
  /\ wa' = [wa EXCEPT !.web = "cancelled", !.queue = <<>>, !.canceled = TRUE,
                      !.node = IF @ = "open" THEN "failed" ELSE @]

\* newStreamReadableFromReadableStream: _read asks the reader, one chunk at
\* a time.
NodeAsks ==
  /\ Is("fromReadable") /\ wa.node = "open" /\ wa.promise = "none" /\ Len(wa.buf) < WebRoom
  /\ wa' = [wa EXCEPT !.promise = "read"]
WebAnswers ==
  /\ Is("fromReadable") /\ wa.promise = "read" /\ wa.web = "open" /\ wa.left # <<>>
  /\ wa' = [wa EXCEPT !.promise = "none", !.left = Tail(@),
                      !.buf = IF wa.node = "open" THEN Append(@, Head(wa.left)) ELSE @]
WebSourceEnds ==
  /\ Is("fromReadable") /\ wa.web = "open" /\ wa.left = <<>>
  /\ wa' = [wa EXCEPT !.web = "closed", !.promise = "none",
                      !.node = IF @ = "open" /\ wa.promise = "read" THEN "ending" ELSE @]
WebSourceEnded ==
  /\ Is("fromReadable") /\ wa.web = "closed" /\ wa.promise = "read"
  /\ wa' = [wa EXCEPT !.promise = "none", !.node = IF @ = "open" THEN "ending" ELSE @]
WebSourceFails ==
  /\ Is("fromReadable") /\ wa.web = "open"
  /\ wa' = [wa EXCEPT !.web = "errored", !.promise = "none", !.failed = TRUE,
                      !.node = IF @ \in {"open", "ending"} THEN "failed" ELSE @]
NodeConsumes ==
  /\ Is("fromReadable") /\ wa.node \in {"open", "ending"}
  /\ IF wa.buf # <<>> THEN wa' = [wa EXCEPT !.got = Append(@, Head(wa.buf)), !.buf = Tail(@)]
     ELSE wa.node = "ending" /\ wa' = [wa EXCEPT !.node = "ended"]
\* destroy() cancels the reader, unless the web stream is closed.
NodeDestroys ==
  /\ Is("fromReadable") /\ wa.node \in {"open", "ending"}
  /\ wa' = [wa EXCEPT !.node = "destroyed", !.buf = <<>>,
                      !.web = IF @ = "open" THEN "cancelled" ELSE @,
                      !.promise = IF wa.web = "open" THEN "none" ELSE @]

\* newWritableStreamFromStreamWritable: a write waits for 'drain' when the
\* Node stream is full.
\* Mutant: the promise is not resolved by a 'drain'.
WebDrained_Not(w) == [w EXCEPT !.needDrain = FALSE]
WebDrained(w) == [w EXCEPT !.needDrain = FALSE, !.promise = IF @ = "write" THEN "none" ELSE @]
SinkWrites ==
  /\ Is("toWritable") /\ wa.web \in {"open", "closing"} /\ wa.promise = "none" /\ wa.queue # <<>>
  /\ LET full == Len(wa.buf) + 1 >= WebRoom
     IN  wa' = IF wa.node = "open"
               THEN [wa EXCEPT !.queue = Tail(@), !.accepted = Append(@, Head(wa.queue)),
                               !.buf = Append(@, Head(wa.queue)), !.needDrain = full,
                               !.promise = IF full THEN "write" ELSE "none"]
               ELSE [wa EXCEPT !.queue = Tail(@)]
WebWrites ==
  /\ Is("toWritable") /\ wa.web = "open" /\ wa.left # <<>> /\ Len(wa.queue) < WebRoom
  /\ wa' = [wa EXCEPT !.left = Tail(@), !.queue = Append(@, Head(wa.left))]
NodeWrites ==
  /\ Is("toWritable") /\ wa.node \in {"open", "ending"} /\ wa.buf # <<>>
  /\ LET w == [wa EXCEPT !.got = Append(@, Head(wa.buf)), !.buf = Tail(@)]
     IN  wa' = IF Len(wa.buf) = 1 /\ wa.needDrain THEN WebDrained(w) ELSE w
WebCloses == Is("toWritable") /\ wa.web = "open" /\ wa' = [wa EXCEPT !.web = "closing"]
\* The sink's close(): end(), unless the stream has ended already.
SinkCloses ==
  /\ Is("toWritable") /\ wa.web = "closing" /\ wa.queue = <<>> /\ wa.promise = "none"
  /\ wa' = IF wa.node = "open" THEN [wa EXCEPT !.node = "ending", !.promise = "close"]
           ELSE [wa EXCEPT !.web = "closed"]
WritableEos ==
  /\ Is("toWritable") /\ ~wa.eos
  /\ \/ /\ wa.node = "ending" /\ wa.buf = <<>>
        /\ wa' = [wa EXCEPT !.eos = TRUE, !.node = "ended", !.promise = "none", !.web = "closed"]
     \/ /\ wa.node = "failed"
        /\ wa' = [wa EXCEPT !.eos = TRUE, !.promise = "none", !.queue = <<>>,
                            !.web = IF @ \in {"open", "closing"} THEN "errored" ELSE @]
WebAborts ==
  /\ Is("toWritable") /\ wa.web \in {"open", "closing"}
  /\ wa' = [wa EXCEPT !.web = "errored", !.queue = <<>>, !.failed = TRUE, !.buf = <<>>,
                      !.node = IF @ \in {"open", "ending"} THEN "failed" ELSE @]

\* newStreamWritableFromWritableStream: a write calls back when the writer
\* has written.
NodeWritesTo ==
  /\ Is("fromWritable") /\ wa.node = "open" /\ wa.left # <<>> /\ Len(wa.buf) < WebRoom
  /\ wa' = [wa EXCEPT !.left = Tail(@), !.buf = Append(@, Head(wa.left))]
AdapterWrites ==
  /\ Is("fromWritable") /\ wa.node \in {"open", "ending"} /\ wa.buf # <<>> /\ wa.promise = "none" /\ wa.web = "open"
  /\ wa' = [wa EXCEPT !.promise = "write", !.queue = Append(@, Head(wa.buf))]
WebSinkWrites ==
  /\ Is("fromWritable") /\ wa.promise = "write" /\ wa.web \in {"open", "closing"} /\ wa.queue # <<>>
  /\ wa' = [wa EXCEPT !.promise = "none", !.got = Append(@, Head(wa.queue)), !.queue = Tail(@),
                      !.buf = IF wa.node \in {"open", "ending"} THEN Tail(@) ELSE @]
NodeIsEnded == Is("fromWritable") /\ wa.node = "open" /\ wa' = [wa EXCEPT !.node = "ending"]
\* final: the writer is closed, and 'finish' waits for it.
AdapterFinal ==
  /\ Is("fromWritable") /\ wa.node = "ending" /\ wa.buf = <<>> /\ wa.promise = "none" /\ wa.web = "open"
  /\ wa' = [wa EXCEPT !.promise = "close", !.web = "closing"]
WebSinkCloses ==
  /\ Is("fromWritable") /\ wa.web = "closing" /\ wa.queue = <<>>
  /\ wa' = [wa EXCEPT !.web = "closed", !.promise = "none", !.node = IF @ = "ending" THEN "ended" ELSE @]
WebSinkFails ==
  /\ Is("fromWritable") /\ wa.web \in {"open", "closing"}
  /\ wa' = [wa EXCEPT !.web = "errored", !.promise = "none", !.queue = <<>>, !.failed = TRUE,
                      !.node = IF @ \in {"open", "ending"} THEN "failed" ELSE @, !.buf = <<>>]
\* destroy(): with an error the writer is aborted, else closed.
NodeIsDestroyed ==
  /\ Is("fromWritable") /\ wa.node \in {"open", "ending"} /\ wa.web \in {"open", "closing"}
  /\ \E error \in BOOLEAN :
       wa' = IF error THEN [wa EXCEPT !.node = "destroyed", !.web = "errored", !.queue = <<>>, !.promise = "none",
                                      !.buf = <<>>, !.failed = TRUE]
             ELSE [wa EXCEPT !.node = "destroyed", !.web = "closing", !.buf = <<>>]

WAWork ==
  \/ WebPulls \/ NodeData \/ NodeEnds \/ ReadableEos \/ WebReads
  \/ NodeAsks \/ WebAnswers \/ WebSourceEnds \/ WebSourceEnded \/ NodeConsumes
  \/ SinkWrites \/ NodeWrites \/ SinkCloses \/ WritableEos
  \/ AdapterWrites \/ WebSinkWrites \/ AdapterFinal \/ WebSinkCloses
WANext ==
  \/ WAWork
  \/ NodeFails \/ WebCancels \/ WebSourceFails \/ NodeDestroys \/ WebWrites \/ WebCloses \/ WebAborts
  \/ NodeWritesTo \/ NodeIsEnded \/ WebSinkFails \/ NodeIsDestroyed
\* What was begun is over.
WASettled ==
  /\ Is("toReadable") \/ Is("fromReadable") => wa.web # "open" /\ wa.node # "open"
  /\ Is("toWritable") => wa.promise = "none" /\ wa.web # "closing"
  /\ Is("fromWritable") => wa.promise = "none" /\ wa.web # "closing" /\ wa.node # "ending"

-----------------------------------------------------------------------------
(* TextEncoderStream *)

\* Code units are "a", "high" and "low" surrogates.  A well-formed pair is
\* encoded as one character, any other surrogate as U+FFFD.
Encoded[u \in Seq({"a", "high", "low"})] ==
  IF u = <<>> THEN <<>>
  ELSE IF Len(u) > 1 /\ u[1] = "high" /\ u[2] = "low" THEN <<"pair">> \o Encoded[SubSeq(u, 3, Len(u))]
  ELSE <<IF u[1] = "a" THEN "a" ELSE "fffd">> \o Encoded[Tail(u)]
TEInit == te = [pending |-> <<>>, text |-> <<>>, out |-> <<>>, flushed |-> FALSE]
\* transform: a high surrogate at the end waits for the next chunk.
Carried(chunk) == IF chunk # <<>> /\ Last(chunk) = "high" THEN <<"high">> ELSE <<>>
TextTransform ==
  /\ ~te.flushed
  /\ \E chunk \in UNION {[1 .. n -> {"a", "high", "low"}] : n \in 0 .. MaxText - Len(te.text)} :
       LET whole == te.pending \o chunk
       IN  te' = [te EXCEPT !.text = @ \o chunk, !.pending = Carried(whole),
                            !.out = @ \o Encoded[SubSeq(whole, 1, Len(whole) - Len(Carried(whole)))]]
TextFlush ==
  /\ ~te.flushed
  /\ te' = [te EXCEPT !.flushed = TRUE, !.out = IF te.pending = <<>> THEN @ ELSE Append(@, "fffd")]
TENext == TextTransform \/ TextFlush

-----------------------------------------------------------------------------
\* The operators: results come in the order of the items, whichever settles
\* first; no more of fn's calls run than concurrency allows, and no more
\* results wait than there is room for; a source that nobody wants any more
\* is not read on.
ResultsInOrder ==
  LET kept == SelectSeq([i \in 1 .. Len(mo.w.items) |-> i], LAMBDA i : Fate(i) = "keep")
  IN  /\ IsPrefix(mo.out, kept)
      /\ Cardinality(mo.called \ mo.settled) <= mo.w.concurrency
      /\ Len(SelectSeq(mo.queue, LAMBDA i : i > 0)) <= QueueRoom
      /\ mo.cons = "ended" => mo.out = kept
      /\ mo.cons = "failed" => mo.aborted \/ mo.source = "failed" \/ \E i \in mo.settled : Fate(i) = "fail"

\* The adapters: chunks come out in order and none is lost when both ends
\* end well, a side is never given more than it has room for, a failure of
\* one side ends the other, and a web stream is closed only when the Node
\* stream has all it was given, and the other way round.
AdaptersKeep ==
  /\ wa.got = [i \in DOMAIN wa.got |-> i]
  /\ Len(wa.queue) <= WebRoom /\ Len(wa.buf) <= WebRoom
  /\ Is("toReadable") =>
       /\ wa.web = "closed" => wa.left = <<>> /\ wa.queue = <<>>
       /\ wa.web = "errored" => wa.node = "failed"
  /\ Is("fromReadable") =>
       /\ wa.node = "ended" => wa.left = <<>> /\ wa.buf = <<>>
       /\ wa.node \in {"failed", "destroyed"} => wa.web # "open"
  /\ Is("toWritable") /\ ~wa.failed =>
       /\ wa.got \o wa.buf = wa.accepted
       /\ wa.web = "closed" => Len(wa.got) + Len(wa.left) = WebItems
  /\ Is("fromWritable") =>
       /\ wa.node = "ended" => wa.web = "closed" /\ Len(wa.got) + Len(wa.left) = WebItems
       /\ wa.node \in {"failed", "destroyed"} => wa.web # "open"

\* TextEncoderStream: the bytes do not depend on how the text is cut into
\* chunks.
TextUncut == te.flushed => te.out = Encoded[te.text]
===============================================================================
