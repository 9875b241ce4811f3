------------------------------- MODULE Observers -------------------------------
(***************************************************************************)
(* What hands on events a piece at a time: StringDecoder                   *)
(* (stringdecoder.go), readline's Interface (readline.go), the timeline of *)
(* perf_hooks, its observers and histograms (perfhooks.go), and the        *)
(* emitters and event targets made in Go (emitter.go, event_global.go).    *)
(***************************************************************************)
EXTENDS Integers, Sequences, FiniteSets, SequencesExt, FiniteSetsExt

CONSTANTS
  MaxBytes,      \* bound: bytes a decoder is given
  MaxChars,      \* bound: characters a readline input brings
  MaxLineCalls,  \* bound: calls of an Interface
  Watching,      \* the PerformanceObservers
  MaxEntries,    \* bound: entries of the timeline
  MaxObserving,  \* bound: calls of observers
  SubBuckets,    \* the values of a histogram's first bucket (2048)
  MaxValue,      \* bound: what is recorded
  MaxRecords,    \* bound: how much is recorded
  MaxEmitCalls,  \* bound: calls of an emitter
  Nested         \* a listener emits the event it listens for

ASSUME ObserversAssumption ==
  /\ {MaxBytes, MaxChars, MaxLineCalls, MaxEntries, MaxObserving, MaxRecords, MaxEmitCalls} \subseteq Nat
  /\ SubBuckets \in {2, 4, 8, 2048} /\ MaxValue \in Nat \ {0} /\ IsFiniteSet(Watching) /\ Nested \in BOOLEAN

VARIABLES sx, rl, po, hi, et

-----------------------------------------------------------------------------
(* StringDecoder *)

\* Bytes by their class: a lead byte is the length of its sequence, a
\* continuation byte 0, a byte UTF-8 never has -1.
ByteClasses == {-1, 0, 1, 2, 3, 4}
SXInit == sx \in [enc : {"utf8", "base64", "hex"}, fed : {<<>>}, pending : {<<>>}, out : {<<>>}, done : {FALSE}]
\* The characters of bytes: each is the bytes it was made of, or -1 for one
\* byte that belongs to none.
Encode(s) ==
  LET f[i \in 1 .. Len(s) + 1] ==
        IF i > Len(s) THEN <<>>
        ELSE LET n == s[i]
                 whole == n >= 1 /\ i + n - 1 <= Len(s) /\ \A k \in i + 1 .. i + n - 1 : s[k] = 0
             IN  IF whole THEN <<n>> \o f[i + n] ELSE <<-1>> \o f[i + 1]
  IN  f[1]
\* Threes of bytes, and what is left with its padding.
Threes(s) == [i \in 1 .. (Len(s) + 2) \div 3 |-> IF 3 * i <= Len(s) THEN 3 ELSE Len(s) % 3]
EncodeAs(enc, s) == IF enc = "utf8" THEN Encode(s) ELSE IF enc = "base64" THEN Threes(s) ELSE s
\* utf8SplitIncomplete: how many bytes at the end wait for the next chunk.
Incomplete(s) ==
  LET n == Len(s)
      leads == {back \in 1 .. Min({3, n}) : s[n - back + 1] # 0}
  IN  IF leads = {} THEN IF n < 3 THEN n ELSE 0
      ELSE IF s[n - Min(leads) + 1] > Min(leads) THEN Min(leads) ELSE 0
Kept(enc, s) == CASE enc = "utf8" -> Incomplete(s) [] enc = "base64" -> Len(s) % 3 [] OTHER -> 0
\* Write, End, process.
SXWrite ==
  /\ ~sx.done
  /\ \E chunk \in BoundedSeq(ByteClasses, 3) :
       /\ Len(sx.fed) + Len(chunk) <= MaxBytes /\ chunk # <<>>
       /\ LET data == sx.pending \o chunk emit == Len(data) - Kept(sx.enc, data)
          IN  sx' = [sx EXCEPT !.fed = @ \o chunk, !.pending = SubSeq(data, emit + 1, Len(data)),
                               !.out = @ \o EncodeAs(sx.enc, SubSeq(data, 1, emit))]
SXEnd == ~sx.done /\ sx' = [sx EXCEPT !.done = TRUE, !.out = @ \o EncodeAs(sx.enc, sx.pending), !.pending = <<>>]
SXNext == SXWrite \/ SXEnd
\* However the bytes are cut, the text is what they decode to at once, and
\* what is held back is less than a character.
DecodedWhole ==
  /\ sx.done => sx.out = EncodeAs(sx.enc, sx.fed)
  /\ sx.enc = "utf8" => \A i \in DOMAIN sx.pending : Encode(sx.pending)[i] = -1
  /\ Len(sx.pending) <= 3 /\ IsPrefix(sx.out, EncodeAs(sx.enc, sx.fed))

-----------------------------------------------------------------------------
(* readline: Interface *)

\* Characters: 1, CR and LF; 0 in text stands where crlfDelay went by.
\* buf: _lineBuffer.  todo: the lines of the chunk at hand that are still to
\* be delivered; out: those that were, with who got them.  q: the question
\* that waits, 0 if none.  it: the asynchronous iterator.
CR == 13
LF == 10
RLInit ==
  rl = [text |-> <<>>, late |-> FALSE, buf |-> <<>>, saw |-> FALSE, todo |-> <<>>, out |-> <<>>, q |-> 0, asked |-> <<>>,
        paused |-> FALSE, closed |-> FALSE, ended |-> FALSE, calls |-> 0,
        it |-> [from |-> -1, queue |-> <<>>, waiters |-> 0, done |-> FALSE, error |-> FALSE, got |-> <<>>]]

\* Where a line ends: after \r\n, \n, or a \r that no \n follows.
LineEnds(s) == SetToSortSeq({i \in DOMAIN s : s[i] = LF \/ (s[i] = CR /\ (i = Len(s) \/ s[i + 1] # LF))}, LAMBDA a, b : a < b)
LineOf(s, from, end) == SubSeq(s, from, IF s[end] = LF /\ end > from /\ s[end - 1] = CR THEN end - 2 ELSE end - 1)
LinesOf(s) == LET e == LineEnds(s) IN [k \in DOMAIN e |-> LineOf(s, IF k = 1 THEN 1 ELSE e[k - 1] + 1, e[k])]
RestOf(s) == IF LineEnds(s) = <<>> THEN s ELSE SubSeq(s, Last(LineEnds(s)) + 1, Len(s))
\* _normalWrite: a \n that follows the \r of the chunk before in time is no
\* line of its own.
NormalWrite(r, string, late) ==
  LET timely == r.saw /\ ~late
      s == IF timely /\ string[1] = LF THEN Tail(string) ELSE string
      full == r.buf \o s
  IN  IF LineEnds(s) # <<>>
      THEN [r EXCEPT !.saw = Last(full) = CR, !.late = FALSE, !.todo = @ \o LinesOf(full), !.buf = RestOf(full)]
      ELSE [r EXCEPT !.saw = @ /\ ~timely, !.late = late, !.buf = full]
NoLines == rl.todo = <<>>
RLData ==
  /\ NoLines /\ ~rl.ended /\ ~rl.closed
  /\ \E string \in BoundedSeq({1, CR, LF}, 3), late \in BOOLEAN :
       /\ string # <<>> /\ Len(SelectSeq(rl.text, LAMBDA c : c > 0)) + Len(string) <= MaxChars /\ (rl.late => late)
       /\ rl' = [NormalWrite(rl, string, late) EXCEPT !.text = @ \o (IF late /\ rl.saw THEN <<0>> ELSE <<>>) \o string]

\* The iterator's own listeners.
ToIterator(it, line) ==
  IF it.from < 0 THEN it
  ELSE IF it.waiters > 0 THEN [it EXCEPT !.waiters = @ - 1, !.got = Append(@, line)] ELSE [it EXCEPT !.queue = Append(@, line)]
Finish(it) == IF it.from < 0 THEN it
              ELSE [it EXCEPT !.done = TRUE, !.waiters = 0, !.got = @ \o [i \in 1 .. it.waiters |-> <<-1>>]]
EmitLine(r, line) == [r EXCEPT !.out = Append(@, [to |-> 0, line |-> line]), !.it = ToIterator(@, line)]
\* _onLine: the question that waits takes the line.
OnLine(r, line) ==
  IF r.q = 0 THEN EmitLine(r, line) ELSE [r EXCEPT !.q = 0, !.out = Append(@, [to |-> r.q, line |-> line])]
RLLine == rl.todo # <<>> /\ rl' = OnLine([rl EXCEPT !.todo = Tail(@)], Head(rl.todo))
Close(r) == IF r.closed THEN r ELSE [r EXCEPT !.paused = TRUE, !.closed = TRUE, !.it = Finish(@)]
RLEnd ==
  /\ NoLines /\ ~rl.ended /\ ~rl.closed
  /\ rl' = [Close(IF rl.buf = <<>> THEN rl ELSE EmitLine(rl, rl.buf)) EXCEPT !.ended = TRUE, !.buf = <<>>]
RLError ==
  /\ NoLines /\ ~rl.closed /\ rl.it.from >= 0 /\ ~rl.it.done
  /\ rl' = [rl EXCEPT !.it = Finish(IF @.waiters > 0 THEN [@ EXCEPT !.waiters = @ - 1, !.got = Append(@, <<-2>>)]
                                    ELSE [@ EXCEPT !.error = TRUE])]

RLCall(r) == rl.calls < MaxLineCalls /\ rl' = [r EXCEPT !.calls = rl.calls + 1]
\* question(): one at a time, the next is only prompted for.
RLQuestion ==
  /\ ~rl.closed
  /\ RLCall(IF rl.q # 0 THEN [rl EXCEPT !.paused = FALSE]
            ELSE [rl EXCEPT !.paused = FALSE, !.q = Len(rl.asked) + 1,
                            !.asked = Append(@, [at |-> Len(rl.out), aborted |-> FALSE])])
\* _questionCancel, by the signal of the question that waits.
RLAbort == rl.q # 0 /\ RLCall([rl EXCEPT !.q = 0, !.asked[rl.q].aborted = TRUE])
RLClose == RLCall(Close(rl))
RLPause == ~rl.paused /\ RLCall([rl EXCEPT !.paused = TRUE])
RLResume == rl.paused /\ RLCall([rl EXCEPT !.paused = FALSE])
\* [Symbol.asyncIterator], next, return.
RLIterate == rl.it.from < 0 /\ ~rl.closed /\ RLCall([rl EXCEPT !.it.from = Len(rl.out)])
RLIterNext ==
  /\ rl.it.from >= 0
  /\ LET it == rl.it
         answered(v) == [it EXCEPT !.got = Append(@, v)]
     IN  RLCall([rl EXCEPT !.it = IF it.queue # <<>> THEN [answered(Head(it.queue)) EXCEPT !.queue = Tail(@)]
                                  ELSE IF it.error THEN [answered(<<-2>>) EXCEPT !.error = FALSE]
                                  ELSE IF it.done THEN answered(<<-1>>)
                                  ELSE [it EXCEPT !.waiters = @ + 1]])
RLReturn == rl.it.from >= 0 /\ RLCall([Close(rl) EXCEPT !.it = Finish(@)])
RLNext ==
  \/ RLData \/ RLLine \/ RLEnd \/ RLError \/ RLQuestion \/ RLAbort \/ RLClose \/ RLPause \/ RLResume
  \/ RLIterate \/ RLIterNext \/ RLReturn

\* The lines of a text, a character at a time.
LineStep(acc, c) ==
  CASE c = 0 -> [acc EXCEPT !.cr = FALSE]
    [] c = LF /\ acc.cr -> [acc EXCEPT !.cr = FALSE]
    [] (c = LF /\ ~acc.cr) \/ c = CR -> [lines |-> Append(acc.lines, acc.line), line |-> <<>>, cr |-> c = CR]
    [] OTHER -> [acc EXCEPT !.line = Append(@, c), !.cr = FALSE]
Reference(text) == FoldLeft(LineStep, [lines |-> <<>>, line |-> <<>>, cr |-> FALSE], text)
Delivered == [i \in DOMAIN rl.out |-> rl.out[i].line]
\* However the input is cut, its lines are delivered whole and in order, the
\* last one at its end though nothing ends it.
LinesWhole ==
  LET ref == Reference(rl.text)
  IN  IF rl.ended THEN Delivered = ref.lines \o (IF ref.line = <<>> THEN <<>> ELSE <<ref.line>>)
      ELSE Delivered \o rl.todo = ref.lines /\ rl.buf = ref.line
\* A question is answered by the first line after it and by no other, unless
\* it was aborted.
QuestionsOwn ==
  \A k \in DOMAIN rl.asked :
    LET own == {i \in DOMAIN rl.out : rl.out[i].to = k}
    IN  IF rl.asked[k].aborted \/ rl.q = k THEN own = {}
        ELSE own = {rl.asked[k].at + 1}
\* An iterator yields the lines from its first, in order, but those that were
\* answers; the end comes after all of them.
IteratorYields ==
  LET it == rl.it
      lines == SelectSeq(SubSeq(rl.out, it.from + 1, Len(rl.out)), LAMBDA o : o.to = 0)
      items == SelectSeq(it.got, LAMBDA v : v \notin {<<-1>>, <<-2>>})
  IN  it.from >= 0 =>
        /\ items \o it.queue = [i \in DOMAIN lines |-> lines[i].line]
        /\ \A i \in DOMAIN it.got : it.got[i] = <<-1>> =>
             it.done /\ it.queue = <<>> /\ \A j \in i .. Len(it.got) : it.got[j] = <<-1>>
        /\ it.waiters > 0 => it.queue = <<>> /\ ~it.done
        /\ it.done => rl.closed \/ it.error \/ Contains(it.got, <<-2>>)

-----------------------------------------------------------------------------
(* The timeline and its observers *)

\* made counts the entries; kept: those of the timeline, [n, type].  buffer:
\* what each observer has not seen; pending: who waits for the next turn;
\* list: who this turn still calls; due: what each observer is owed.
POInit ==
  po = [made |-> 0, kept |-> <<>>, size |-> 1,
        types |-> [o \in Watching |-> {}], mode |-> [o \in Watching |-> ""], buffer |-> [o \in Watching |-> <<>>],
        pending |-> <<>>, queued |-> FALSE, list |-> <<>>,
        due |-> [o \in Watching |-> {}], calls |-> 0]
\* queuePending
QueuePending(p, o) ==
  [p EXCEPT !.pending = IF Contains(@, o) THEN @ ELSE Append(@, o), !.queued = TRUE]
\* enqueue, kMaybeBuffer
Enqueue(p, e) ==
  LET seen == {o \in Watching : e.type \in p.types[o]}
      q == [p EXCEPT !.made = e.n,
                     !.buffer = [o \in Watching |-> IF o \in seen THEN Append(@[o], e) ELSE @[o]],
                     !.due = [o \in Watching |-> IF o \in seen THEN @[o] \cup {e.n} ELSE @[o]]]
  IN  FoldLeft(QueuePending, q, SetToSeq(seen))
\* mark.  markResourceTiming: a buffer that is full keeps no more.
POMark ==
  LET e == [n |-> po.made + 1, type |-> "mark"] IN po.made < MaxEntries /\ po' = Enqueue([po EXCEPT !.kept = Append(@, e)], e)
POResource ==
  LET e == [n |-> po.made + 1, type |-> "resource"]
      held == Len(SelectSeq(po.kept, LAMBDA k : k.type = "resource"))
  IN  po.made < MaxEntries /\ po' = Enqueue([po EXCEPT !.kept = IF held < po.size THEN Append(@, e) ELSE @], e)
POCall(p) == po.calls < MaxObserving /\ po' = [p EXCEPT !.calls = po.calls + 1]
POClear == \E type \in {"mark", "resource"} : POCall([po EXCEPT !.kept = SelectSeq(@, LAMBDA e : e.type # type)])
POSize == \E n \in {0, 2} : n # po.size /\ POCall([po EXCEPT !.size = n])
\* disconnect, observe
Disconnected(p, o) ==
  [p EXCEPT !.types[o] = {}, !.mode[o] = "", !.buffer[o] = <<>>, !.due[o] = {}, !.pending = SelectSeq(@, LAMBDA x : x # o)]
POObserveMany(o) ==
  /\ po.mode[o] # "single"
  /\ \E types \in {{}, {"mark"}, {"mark", "resource"}} :
       POCall(IF types = {} THEN Disconnected(po, o) ELSE [po EXCEPT !.mode[o] = "multiple", !.types[o] = types])
POObserveOne(o) ==
  /\ po.mode[o] # "multiple"
  /\ \E type \in {"mark", "resource"}, buffered \in BOOLEAN :
       LET p == [po EXCEPT !.mode[o] = "single", !.types[o] = @ \cup {type}]
           existing == SelectSeq(po.kept, LAMBDA e : e.type = type)
       IN  POCall(IF buffered /\ existing # <<>>
                  THEN QueuePending([p EXCEPT !.buffer[o] = @ \o existing, !.due[o] = @ \cup {existing[i].n : i \in DOMAIN existing}], o)
                  ELSE p)
PODisconnect(o) == po.mode[o] # "" /\ POCall(Disconnected(po, o))
\* takeRecords
POTake(o) == po.buffer[o] # <<>> /\ POCall([po EXCEPT !.buffer[o] = <<>>, !.due[o] = {}])
\* The setImmediate, and each observer it calls.
POTurn == po.queued /\ po.list = <<>> /\ po' = [po EXCEPT !.queued = FALSE, !.list = @ \o po.pending, !.pending = <<>>]
PODispatch ==
  /\ po.list # <<>>
  /\ LET o == Head(po.list)
     IN  po' = [po EXCEPT !.list = Tail(@), !.buffer[o] = <<>>, !.due[o] = @ \ {po.buffer[o][i].n : i \in DOMAIN po.buffer[o]}]
PONext ==
  \/ POMark \/ POResource \/ POClear \/ POSize \/ POTurn \/ PODispatch
  \/ \E o \in Watching : POObserveMany(o) \/ POObserveOne(o) \/ PODisconnect(o) \/ POTake(o)
POWork == POTurn \/ PODispatch
PORests == ~po.queued /\ po.list = <<>>

\* What an observer is owed, and nothing else, waits where a turn finds it.
EntriesSeen ==
  \A o \in Watching :
    /\ po.due[o] = {po.buffer[o][i].n : i \in DOMAIN po.buffer[o]}
    /\ po.due[o] # {} => Contains(po.list, o) \/ (po.queued /\ Contains(po.pending, o))
\* What an observer is owed, it gets.
POSettled == \A o \in Watching : po.due[o] = {}

-----------------------------------------------------------------------------
(* Histograms *)

\* values: what was recorded, in order of size, of each of two histograms.
HIInit == hi = [h \in 1 .. 2 |-> [counts |-> [v \in 0 .. MaxValue |-> 0], count |-> 0, min |-> MaxValue + 1, max |-> 0, values |-> <<>>]]
\* Bucket b holds values of width 2^b.
BucketShift(v) == Min({b \in 0 .. 20 : v < SubBuckets * 2 ^ b})
EquivalentRange(v) == 2 ^ BucketShift(v)
LowestEquivalent(v) == (v \div EquivalentRange(v)) * EquivalentRange(v)
HighestEquivalent(v) == LowestEquivalent(v) + EquivalentRange(v) - 1
Less(a, b) == IF a < b THEN a ELSE b
Ordered(s) == SortSeq(s, LAMBDA a, b : a < b)
HIRecord(h, v) ==
  /\ Len(hi[1].values) + Len(hi[2].values) < MaxRecords
  /\ hi' = [hi EXCEPT ![h] = [counts |-> [@.counts EXCEPT ![LowestEquivalent(v)] = @ + 1], count |-> @.count + 1,
                              min |-> Less(@.min, v), max |-> Max({@.max, v}), values |-> Ordered(Append(@.values, v))]]
\* add: other may be the histogram itself.
HIAdd(h, o) ==
  /\ Len(hi[1].values) + Len(hi[2].values) + Len(hi[o].values) <= MaxRecords + 1 /\ hi[o].count > 0
  /\ hi' = [hi EXCEPT ![h] = [counts |-> [v \in DOMAIN @.counts |-> @.counts[v] + hi[o].counts[v]], count |-> @.count + hi[o].count,
                              min |-> Less(@.min, hi[o].min), max |-> Max({@.max, hi[o].max}), values |-> Ordered(@.values \o hi[o].values)]]
HIReset(h) == hi[h].count > 0 /\ hi' = [hi EXCEPT ![h] = [counts |-> [v \in 0 .. MaxValue |-> 0], count |-> 0, min |-> MaxValue + 1, max |-> 0, values |-> <<>>]]
HINext == \E h \in 1 .. 2 : (\E v \in 1 .. MaxValue : HIRecord(h, v)) \/ (\E o \in 1 .. 2 : HIAdd(h, o)) \/ HIReset(h)
\* percentile, in tenths
Rank(h, tenths) == Max({(tenths * h.count + 5) \div 10, 1})
Percentile(h, tenths) ==
  IF h.count = 0 THEN 0
  ELSE HighestEquivalent(Min({v \in 0 .. MaxValue : h.counts[v] > 0 /\ SumFunctionOnSet(h.counts, 0 .. v) >= Rank(h, tenths)}))
\* A percentile is the recorded value of its rank, but for the width of its
\* bucket; min and max are the least and the greatest.
RecordsCounted ==
  \A n \in 1 .. 2 :
    LET h == hi[n] sorted == h.values
    IN  /\ h.count = Len(h.values)
        /\ h.count > 0 =>
             /\ h.min = sorted[1] /\ h.max = Last(sorted)
             /\ \A tenths \in 1 .. 10 :
                  LET v == sorted[Rank(h, tenths)] p == Percentile(h, tenths)
                  IN  v <= p /\ p < v + EquivalentRange(v) /\ LowestEquivalent(v) = LowestEquivalent(p)

-----------------------------------------------------------------------------
(* Emitters made in Go, and event targets built on them *)

\* ls: the listeners, [l, at, once], at the number of the registration.
\* frames: the emits under way, innermost first, each what is left of its
\* copy of the listeners, and its number.  ran: how often each registration
\* was called; off: the emits that had begun when it was removed, -1 if it
\* was not; last: the last emit it was called by.
ETInit == et = [ls |-> <<>>, frames |-> <<>>, onces |-> <<>>, ran |-> <<>>, off |-> <<>>, last |-> <<>>, calls |-> 0, emits |-> 0]
ETCall(t) == et.calls < MaxEmitCalls /\ et' = [t EXCEPT !.calls = et.calls + 1]
\* addListener, addEventListener
ETAdd ==
  \E l \in {"f", "g"}, once \in BOOLEAN, prepend \in BOOLEAN :
    LET r == [l |-> l, at |-> Len(et.ran) + 1, once |-> once]
    IN  ETCall([et EXCEPT !.onces = Append(@, once), !.ran = Append(@, 0), !.off = Append(@, -1), !.last = Append(@, 0),
                          !.ls = IF prepend THEN <<r>> \o @ ELSE Append(@, r)])
\* removeListener: the first that is this function.  once() keeps a wrapper,
\* which is another one, and which takes itself out when it is called.
TakenOut(t, k) == [t EXCEPT !.ls = RemoveAt(@, k), !.off[t.ls[k].at] = t.emits]
ETRemove ==
  \E l \in {"f", "g"} :
    LET own == {i \in DOMAIN et.ls : et.ls[i].l = l /\ ~et.ls[i].once} IN own # {} /\ ETCall(TakenOut(et, Min(own)))
ETRemoveAll ==
  /\ et.ls # <<>>
  /\ ETCall([et EXCEPT !.ls = <<>>, !.off = [k \in DOMAIN @ |-> IF @[k] < 0 THEN et.emits ELSE @[k]]])
\* emitOnObject, dispatchEvent
ETEmit ==
  /\ et.frames = <<>> \/ Nested
  /\ ETCall([et EXCEPT !.frames = <<[left |-> et.ls, emit |-> et.emits + 1]>> \o @, !.emits = @ + 1])
ETStep ==
  /\ et.frames # <<>>
  /\ LET f == Head(et.frames)
         r == Head(f.left)
         own == {i \in DOMAIN et.ls : et.ls[i].at = r.at}
         t == IF r.once /\ own # {} THEN TakenOut(et, Min(own)) ELSE et
     IN  et' = IF f.left = <<>> THEN [et EXCEPT !.frames = Tail(@)]
               ELSE [t EXCEPT !.frames[1].left = Tail(@), !.ran[r.at] = @ + 1, !.last[r.at] = f.emit]
ETNext == ETAdd \/ ETRemove \/ ETRemoveAll \/ ETEmit \/ ETStep
\* A listener of once() is called once.
OnceIsOnce == \A k \in DOMAIN et.ran : et.onces[k] => et.ran[k] <= 1
\* No emit calls a listener that was removed before it began.
RemovedStays == \A k \in DOMAIN et.ran : et.off[k] >= 0 /\ ~et.onces[k] => et.last[k] <= et.off[k]
=============================================================================
