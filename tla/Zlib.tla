--------------------------------- MODULE Zlib ---------------------------------
(***************************************************************************)
(* node:zlib: a compression stream (zlib.go over the compressors of        *)
(* zlib_sync.go) and a decompressor, whose codec pulls its input on a      *)
(* goroutine while process() waits on the VM thread (zlib_sync.go).        *)
(*                                                                         *)
(* Compressed bytes are tokens: the bytes of a header, a datum, the marker *)
(* a flush leaves, the last block and the trailer with the checksum.  What *)
(* a codec writes before it is flushed stays in the codec.                 *)
(***************************************************************************)
EXTENDS Integers, Sequences, FiniteSets, SequencesExt

CONSTANTS
  ZlibWorlds, \* records [format, reader, fault]: what is written, the class
              \* that reads it, and what happens to the bytes in between
  MaxZlibOps, \* bound: the user's calls on the compression stream
  MaxFeeds    \* bound: the calls of process() on the decompressor

ASSUME ZlibAssumption == {MaxZlibOps, MaxFeeds} \subseteq Nat

VARIABLES zw, zs, zd

Token(t, v) == [t |-> t, v |-> v]
Untagged(names) == [i \in DOMAIN names |-> Token(names[i], <<>>)]
Header(format) ==
  CASE format = "gzip" -> Untagged(<<"1f", "8b", "rest">>)
    [] format = "zlib" -> Untagged(<<"78", "flags">>)
    [] format = "zstd" -> Untagged(<<"magic">>)
    [] OTHER -> <<>>
Trailer(format, sum) == IF format \in {"gzip", "zlib"} THEN <<Token("sum", sum)>> ELSE <<>>
Data(tokens) == FlattenSeq([i \in DOMAIN tokens |-> IF tokens[i].t = "datum" THEN tokens[i].v ELSE <<>>])

-----------------------------------------------------------------------------
(* Compressors *)

\* open: the header is in out before anything is written.  pend is what the
\* codec holds; dirty: since the last flush.
Opened(format) == [out |-> Header(format), pend |-> <<>>, sum |-> <<>>, dirty |-> FALSE, finished |-> FALSE]
Flushed(c) ==
  [c EXCEPT !.out = @ \o [i \in DOMAIN c.pend |-> Token("datum", <<c.pend[i]>>)] \o Untagged(<<"flush">>),
            !.pend = <<>>, !.dirty = FALSE]
HandleClosed(c, format) ==
  [c EXCEPT !.out = @ \o [i \in DOMAIN c.pend |-> Token("datum", <<c.pend[i]>>)]
                      \o Untagged(<<"last">>) \o Trailer(format, c.sum),
            !.pend = <<>>, !.finished = TRUE]
\* process() of a compressor: what has finished takes nothing more.
Compress(c, format, chunk, flush) ==
  LET fed == IF chunk = <<>> THEN c
             ELSE [c EXCEPT !.pend = @ \o chunk, !.sum = @ \o chunk, !.dirty = TRUE]
  IN  IF c.finished THEN c
      ELSE CASE flush = "finish" -> HandleClosed(fed, format)
             [] flush = "full" -> Flushed(fed)
             [] OTHER -> fed
\* params: a new raw writer continues the stream, after a flush of what the
\* old one holds.
Params(c) == IF c.finished \/ ~c.dirty THEN c ELSE Flushed(c)

-----------------------------------------------------------------------------
(* The compression stream *)

\* queue: written chunks; held: a write whose callback waits for a reader;
\* ticks: callbacks of params(); written: what write() accepted; late: an
\* empty chunk was in the queue when end() was called.
ZInit ==
  /\ zw \in ZlibWorlds
  /\ zs = [codec |-> Opened(zw.format), wire |-> <<>>, queue |-> <<>>, held |-> FALSE, ending |-> FALSE,
           ended |-> FALSE, ticks |-> 0, written |-> <<>>, flushedAt |-> 0, level |-> 0, late |-> FALSE, ops |-> 0]
  /\ zd = [feed |-> <<>>, call |-> FALSE, given |-> 0, got |-> <<>>, last |-> "none", fin |-> FALSE,
           closed |-> FALSE, orphans |-> 0, feeds |-> 0]

ZCalls == zs.ops < MaxZlibOps /\ ~zs.ending
ZDo(s) == zs' = [s EXCEPT !.ops = @ + 1] /\ UNCHANGED <<zw, zd>>
Chunk(v, flush, then) == [v |-> v, flush |-> flush, then |-> then]

ZWrite ==
  /\ ZCalls
  /\ \E v \in {<<>>, <<Len(zs.written) + 1>>} :
       ZDo([zs EXCEPT !.queue = Append(@, Chunk(v, "none", "none")), !.written = @ \o v])
ZFlush == ZCalls /\ ZDo([zs EXCEPT !.queue = Append(@, Chunk(<<>>, "full", "none"))])
\* params(): a flush first, unless the level is the one that is set.
ZParams ==
  /\ ZCalls /\ zw.format \in {"gzip", "zlib", "raw"} /\ zs.level = 0
  /\ ZDo([zs EXCEPT !.queue = Append(@, Chunk(<<>>, "full", "params"))])
ZEnd ==
  /\ ZCalls
  /\ ZDo([zs EXCEPT !.ending = TRUE,
                    !.late = \E i \in DOMAIN zs.queue : zs.queue[i] = Chunk(<<>>, "none", "none")])

\* _transform: an empty chunk finishes when end() was called.
FlushFlag(s, c) ==
  IF c.flush # "none" THEN c.flush ELSE IF c.v = <<>> /\ s.ending THEN "finish" ELSE "none"
\* What process() returned is pushed.
Pushed(s) == [s EXCEPT !.wire = @ \o s.codec.out, !.codec.out = <<>>]
Transformed(s, c) ==
  Pushed([s EXCEPT !.codec = Compress(s.codec, zw.format, c.v, FlushFlag(s, c)),
                   !.flushedAt = IF c.flush = "full" THEN Len(Data(s.wire)) + Len(s.codec.pend) ELSE @,
                   !.ticks = IF c.then = "params" THEN @ + 1 ELSE @])
\* One chunk of the queue; a push that fills the readable side holds the
\* write's callback, unless end() was called.
ZTransform ==
  /\ zs.queue # <<>> /\ ~zs.held
  /\ LET s == Transformed([zs EXCEPT !.queue = Tail(@)], Head(zs.queue))
     IN  \E held \in {FALSE, s.wire # zs.wire /\ ~zs.ending} : zs' = [s EXCEPT !.held = held]
  /\ UNCHANGED <<zw, zd>>
ZRead == zs.held /\ zs' = [zs EXCEPT !.held = FALSE] /\ UNCHANGED <<zw, zd>>
\* The callback of params()'s flush runs in a later tick.
ZParamsTick ==
  /\ zs.ticks > 0
  /\ zs' = Pushed([zs EXCEPT !.ticks = @ - 1, !.codec = Params(@), !.level = 1])
  /\ UNCHANGED <<zw, zd>>
\* _flush, then end of the readable side; the bytes may be spoilt on the way.
Spoilt(tokens) ==
  CASE zw.fault = "sum" -> [i \in DOMAIN tokens |-> IF tokens[i].t = "sum" THEN Token("sum", <<0>>) ELSE tokens[i]]
    [] zw.fault = "zeros" -> tokens \o Untagged(<<"zero">>)
    [] zw.fault = "garbage" -> tokens \o Untagged(<<"garbage">>)
    [] zw.fault = "member" -> tokens \o tokens
    [] OTHER -> tokens
ZFinal ==
  /\ zs.ending /\ zs.queue = <<>> /\ ~zs.held /\ ~zs.ended
  /\ LET s == Transformed(zs, Chunk(<<>>, "none", "none"))
     IN  zs' = [s EXCEPT !.ended = TRUE, !.wire = Spoilt(@)]
  /\ UNCHANGED <<zw, zd>>

-----------------------------------------------------------------------------
(* The decoder of a format, a token at a time *)

Fresh == [at |-> "head", n |-> 0, pend |-> <<>>, sum |-> <<>>, out |-> <<>>]
Format == CASE zw.reader = "Gunzip" -> "gzip" [] zw.reader = "Inflate" -> "zlib"
            [] zw.reader = "Unzip" -> "unzip" [] zw.reader = "Zstd" -> "zstd"
            [] zw.reader = "Brotli" -> "brotli" [] OTHER -> "raw"
InBody(d, format) == IF d.n = Len(Header(format)) THEN [d EXCEPT !.at = "body"] ELSE d
DecodeHead(d, tok, format) ==
  IF tok.t = Header(format)[d.n + 1].t THEN InBody([d EXCEPT !.n = @ + 1], format)
  ELSE [d EXCEPT !.at = "Z_DATA_ERROR"]
Emitted(d) == [d EXCEPT !.out = @ \o d.pend, !.sum = @ \o d.pend, !.pend = <<>>]
DecodeBody(d, tok, format) ==
  CASE tok.t = "datum" -> [d EXCEPT !.pend = @ \o tok.v]
    [] tok.t = "flush" -> Emitted(d)
    [] tok.t = "last" ->
         [Emitted(d) EXCEPT !.at = IF format \in {"gzip", "zlib"} THEN "trailer"
                                   ELSE IF format = "zstd" THEN "next" ELSE "tail"]
    [] OTHER -> [d EXCEPT !.at = "Z_DATA_ERROR"]
DecodeTrailer(d, tok, format) ==
  IF tok.t = "sum" /\ tok.v = d.sum
  THEN [d EXCEPT !.at = IF format = "gzip" THEN "next" ELSE "tail"]
  ELSE [d EXCEPT !.at = "Z_DATA_ERROR"]
\* decode: gzip members follow each other until a zero byte.
DecodeAs(d, tok, format) ==
  CASE d.at = "head" -> IF Header(format) = <<>> THEN DecodeBody([d EXCEPT !.at = "body"], tok, format)
                        ELSE DecodeHead(d, tok, format)
    [] d.at = "body" -> DecodeBody(d, tok, format)
    [] d.at = "trailer" -> DecodeTrailer(d, tok, format)
    [] d.at = "next" -> IF tok.t = "zero" /\ format = "gzip" THEN [d EXCEPT !.at = "tail"]
                        ELSE DecodeHead([Fresh EXCEPT !.out = d.out], tok, format)
    [] OTHER -> d
\* Unzip looks at the first byte.
Decode(d, tok) ==
  IF Format # "unzip" THEN DecodeAs(d.d, tok, Format)
  ELSE DecodeAs(d.d, tok, IF (d.first \o <<tok>>)[1].t = "1f" THEN "gzip" ELSE "zlib")
DecodeOne(tok, g) ==
  [g EXCEPT !.d = Decode(g, tok), !.first = IF @ = <<>> THEN <<tok>> ELSE @]
\* The end of the input: cut short is an error, but for zstd.
AtEof(d) ==
  IF d.at \in {"tail", "next"} THEN "ok" ELSE IF d.at = "Z_DATA_ERROR" THEN d.at
  ELSE IF Format = "zstd" THEN "ok" ELSE "Z_BUF_ERROR"

-----------------------------------------------------------------------------
(* The decompressor: process() and the goroutine share the feed *)

NewFeed == [buf |-> <<>>, taken |-> <<>>, eof |-> FALSE, starved |-> FALSE, out |-> <<>>, done |-> FALSE, err |-> "ok",
            d |-> Fresh, first |-> <<>>]
Feed == zd.feed[1]
SetFeed(f) == zd' = [zd EXCEPT !.feed = <<f>>] /\ UNCHANGED <<zw, zs>>
Decoding == zd.feed # <<>> /\ ~Feed.done

\* process(chunk, flush): the chunk is handed over, and the call waits.  (The
\* bytes are read once they are all written: their prefixes are the same.)
ZProcess ==
  /\ zs.ended /\ ~zd.call /\ ~zd.closed /\ zd.feeds < MaxFeeds
  /\ \E n \in 0 .. Len(zs.wire) - zd.given, fin \in BOOLEAN :
       LET f == IF zd.feed = <<>> THEN NewFeed ELSE Feed
           tokens == SubSeq(zs.wire, zd.given + 1, zd.given + n)
       IN  /\ zd.fin => n = 0 /\ ~fin
           /\ zd' = [zd EXCEPT !.call = TRUE, !.given = @ + n, !.fin = @ \/ fin, !.feeds = @ + 1,
                               !.feed = <<[f EXCEPT !.buf = IF f.done THEN @ ELSE @ \o tokens,
                                                    !.eof = @ \/ fin]>>]
  /\ UNCHANGED <<zw, zs>>
\* Until the decoder has ended or wants more; an error closes the handle.
ZReturn ==
  /\ zd.call
  /\ Feed.done \/ (Feed.starved /\ Feed.buf = <<>> /\ ~Feed.eof)
  /\ zd' = [zd EXCEPT !.call = FALSE, !.last = Feed.err,
                      !.got = IF Feed.err = "ok" THEN @ \o Feed.out ELSE @,
                      !.closed = Feed.err # "ok",
                      !.feed = <<[Feed EXCEPT !.out = <<>>, !.err = "ok"]>>]
  /\ UNCHANGED <<zw, zs>>
\* zlibFeed.Read: nothing is there, and the waiting call hears of it ...
FeedStarves ==
  /\ Decoding /\ Feed.buf = <<>> /\ Feed.taken = <<>> /\ ~Feed.eof /\ ~Feed.starved /\ Feed.d.at # "Z_DATA_ERROR"
  /\ SetFeed([Feed EXCEPT !.starved = TRUE])
\* ... or all that is there is read, and decoded as far as it goes.
\* Mutant: the mark that more is wanted stays set.
Taken_Starved(f) == [f EXCEPT !.buf = <<>>, !.starved = TRUE]
Taken(f) == [f EXCEPT !.buf = <<>>, !.starved = FALSE]
FeedReads ==
  Decoding /\ Feed.buf # <<>> /\ Feed.taken = <<>> /\ SetFeed([Taken(Feed) EXCEPT !.taken = Feed.buf])
FeedDecodes ==
  /\ Decoding /\ Feed.taken # <<>>
  /\ LET g == FoldLeft(LAMBDA f, tok : DecodeOne(tok, f), Feed, Feed.taken)
     IN  SetFeed([g EXCEPT !.taken = <<>>, !.out = @ \o g.d.out, !.d.out = <<>>])
\* run: the decoder has failed, or has met the end.
FeedFails ==
  Decoding /\ Feed.taken = <<>> /\ Feed.d.at = "Z_DATA_ERROR" /\ SetFeed([Feed EXCEPT !.done = TRUE, !.err = "Z_DATA_ERROR"])
FeedEnds ==
  /\ Decoding /\ Feed.buf = <<>> /\ Feed.taken = <<>> /\ Feed.eof /\ Feed.d.at # "Z_DATA_ERROR"
  /\ SetFeed([Feed EXCEPT !.done = TRUE, !.err = AtEof(Feed.d)])
\* reset() and close() leave the goroutine to end by itself.
ZReset ==
  /\ ~zd.call /\ zd.feed # <<>> /\ zd.feeds < MaxFeeds
  /\ \E closed \in BOOLEAN :
       zd' = [zd EXCEPT !.feed = <<>>, !.orphans = IF Feed.done THEN @ ELSE @ + 1, !.closed = closed,
                        !.got = <<>>, !.given = 0, !.fin = FALSE, !.last = "none", !.feeds = @ + 1]
  /\ UNCHANGED <<zw, zs>>
OrphanEnds == zd.orphans > 0 /\ zd' = [zd EXCEPT !.orphans = @ - 1] /\ UNCHANGED <<zw, zs>>

ZNext ==
  \/ ZWrite \/ ZFlush \/ ZParams \/ ZEnd \/ ZTransform \/ ZRead \/ ZParamsTick \/ ZFinal
  \/ ZProcess \/ ZReturn \/ FeedStarves \/ FeedReads \/ FeedDecodes \/ FeedFails \/ FeedEnds
  \/ ZReset \/ OrphanEnds
zvars == <<zw, zs, zd>>
\* What happens by itself.
ZWork ==
  \/ ZTransform \/ ZRead \/ ZParamsTick \/ ZFinal
  \/ ZReturn \/ FeedStarves \/ FeedReads \/ FeedDecodes \/ FeedFails \/ FeedEnds \/ OrphanEnds
\* None of it can: the state predicate of ~ENABLED ZWork.
ZRests ==
  /\ zs.queue = <<>> /\ ~zs.held /\ zs.ticks = 0 /\ (zs.ending => zs.ended) /\ zd.orphans = 0
  /\ zd.call => ~Feed.done /\ (Feed.starved => Feed.buf # <<>> \/ Feed.eof)
  /\ Decoding => Feed.buf = <<>> /\ Feed.taken = <<>> /\ Feed.starved /\ ~Feed.eof /\ Feed.d.at # "Z_DATA_ERROR"
ZSettled == zs.queue = <<>> /\ (zs.ending => zs.ended) /\ ~zd.call /\ zd.orphans = 0

-----------------------------------------------------------------------------
\* The compressor: every datum is in the output once and in order, what was
\* written before a flush is in it when the flush is done, and everything
\* when the stream ends, however writes, flushes and params() are queued.
\* (An empty chunk still queued when end() is called ends the stream there:
\* see NothingDropped.)
CompressedWhole ==
  LET data == Data(zs.wire)
  IN  zw.fault # "member" =>
        /\ IsPrefix(data, zs.written) /\ zs.flushedAt <= Len(data)
        /\ zs.ended /\ ~zs.late => data = zs.written
\* The same with no exception, which the code does not keep.
NothingDropped == zs.ended /\ zw.fault # "member" => Data(zs.wire) = zs.written

\* The decompressor: when process() returns it has handed over everything
\* that can be decoded from the chunks so far, whatever their boundaries and
\* however the goroutine was scheduled.
DecodedAtOnce ==
  LET given == SubSeq(zs.wire, 1, zd.given)
      whole == {i \in DOMAIN given : given[i].t \in {"flush", "last"}}
  IN  ~zd.call /\ zd.last = "ok" =>
        zd.got = Data(SubSeq(given, 1, CHOOSE n \in whole \cup {0} : \A i \in whole : i <= n))

\* A stream that was cut short, has a wrong checksum or is followed by
\* something else is reported when the input ends, as each format has it;
\* a good one never is.
FaultsReported ==
  LET given == SubSeq(zs.wire, 1, zd.given)
      has(t) == \E i \in DOMAIN given : given[i].t = t
      cut == ~has("last") \/ (zw.format \in {"gzip", "zlib"} /\ ~has("sum"))
      bad == \/ zw.fault = "sum" /\ zw.format \in {"gzip", "zlib"}
             \/ zw.fault = "garbage" /\ zw.format \in {"gzip", "zstd"}
             \/ zw.fault = "zeros" /\ zw.format = "zstd"
             \/ zw.reader = "Inflate" /\ zw.format = "gzip"
      all == zs.ended /\ zd.given = Len(zs.wire)
  IN  /\ zd.fin /\ ~zd.call /\ cut /\ zw.format # "zstd" => zd.last # "ok"
      /\ zd.fin /\ ~zd.call /\ all => (zd.last = "ok") = ~bad
      /\ zd.last # "ok" /\ ~zd.fin => zd.last = "none" \/ bad
===============================================================================
