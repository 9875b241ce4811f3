------------------------------- MODULE Bytes -------------------------------
(***************************************************************************)
(* Buffer: views of shared memory, and the calls that read, write, copy,   *)
(* search and convert their bytes (buffer.go, buffer_methods.go).          *)
(*                                                                         *)
(* heap holds the ArrayBuffers, buffers the views made so far, and last    *)
(* the call just made with what it returned; before is the heap as it was. *)
(* A byte has ByteValues values, a word of uint64 WordBytes bytes; a       *)
(* string is the bytes it decodes to, and LeftOut an argument left out.    *)
(* Numbers to be written are counted in halves.                            *)
(***************************************************************************)
EXTENDS Integers, Sequences, SequencesExt, FiniteSets, TLC

CONSTANTS
  ByteValues, WordBytes,
  FirstBytes,      \* the first ArrayBuffer
  FirstBuffers,    \* the views of it, as <<offset, length>>
  Texts,           \* strings that are written, filled and searched
  ByteOffsets,     \* offsets, starts, ends and lengths that are passed
  WriteOffsets,    \* those passed to write(), and the lengths
  WriteLengths,
  Halves,          \* numbers that are written
  MaxBuffers,      \* bound: buffers made
  MaxByteCalls     \* bound: calls

VARIABLE bf

LeftOut == -99
Clamped(n, lo, hi) == IF n < lo THEN lo ELSE IF n > hi THEN hi ELSE n
OrElse(n, default) == IF n = LeftOut THEN default ELSE n
Least(a, b) == IF a < b THEN a ELSE b
Most(a, b) == IF a > b THEN a ELSE b

-----------------------------------------------------------------------------
(* Memory *)

LiveBytes(b) == SubSeq(bf.heap[b.ab], b.off + 1, b.off + b.len)
Range0(s, from, to) == SubSeq(s, from + 1, to)
\* copy(dst[at:], data), data as it was before.
Stored(heap, ab, at, data) ==
  [heap EXCEPT ![ab] = [i \in DOMAIN @ |-> IF at < i /\ i <= at + Len(data) THEN data[i - at] ELSE @[i]]]
\* An own ArrayBuffer for the bytes; kin tells buffers that are documented
\* to share memory with each other.
WrapBytes(data) ==
  [heap |-> Append(bf.heap, data),
   b |-> [ab |-> Len(bf.heap) + 1, off |-> 0, len |-> Len(data), kin |-> Len(bf.buffers) + 1]]
WrapView(of, off, len) ==
  [heap |-> bf.heap, b |-> [ab |-> of.ab, off |-> off, len |-> len, kin |-> of.kin]]

\* A call returns (ok) or throws; lo and hi bound what it was asked to write.
Call(op, b, ok) == [op |-> op, ab |-> b.ab, kin |-> b.kin, off |-> b.off, len |-> b.len, ok |-> ok, lo |-> 0, hi |-> 0]
Asked(call, lo, hi) == [call EXCEPT !.lo = lo, !.hi = hi]
Performed(call, heap) ==
  bf' = [bf EXCEPT !.before = bf.heap, !.heap = heap, !.last = call, !.calls = @ + 1]
Got(call) == Performed(call, bf.heap)
Made(call, made) ==
  /\ Len(bf.buffers) < MaxBuffers
  /\ bf' = [bf EXCEPT !.before = bf.heap, !.heap = made.heap, !.last = call, !.calls = @ + 1,
                      !.buffers = Append(@, made.b)]

-----------------------------------------------------------------------------
(* Numbers *)

Base(size) == ByteValues ^ size
\* An integer offset such that an access of size bytes is inside.
OffsetOK(length, off, size) == off >= 0 /\ off + size <= length
ReadUintN(bytes, little) ==
  FoldLeft(LAMBDA u, c : (u * ByteValues + c) % Base(WordBytes), 0, IF little THEN Reverse(bytes) ELSE bytes)
WriteUintN(u, size, little) ==
  LET digits == [i \in 1 .. size |-> (u \div Base(i - 1)) % ByteValues]
  IN  IF little THEN digits ELSE Reverse(digits)
\* Shifted up to the sign bit of the word, and down again with it.
Signed(u, size) ==
  LET up == (u * Base(WordBytes - size)) % Base(WordBytes)
  IN  (IF 2 * up >= Base(WordBytes) THEN up - Base(WordBytes) ELSE up) \div Base(WordBytes - size)
IntBounds(size, signed) ==
  IF signed THEN <<-(Base(size) \div 2), Base(size) \div 2 - 1>> ELSE <<0, Base(size) - 1>>
Trunc(half) == IF half >= 0 THEN half \div 2 ELSE -((-half) \div 2)

BFReadNumber ==
  \E b \in ToSet(bf.buffers), off \in ByteOffsets, size \in {1, 2}, little, signed \in BOOLEAN :
    LET ok == OffsetOK(b.len, off, size)
        bytes == Range0(LiveBytes(b), off, off + size)
        u == ReadUintN(bytes, little)
    IN  Got([n |-> IF ~ok THEN 0 ELSE IF signed THEN Signed(u, size) ELSE u, at |-> off, size |-> size,
             little |-> little, signed |-> signed, half |-> 0] @@ Call("readInt", b, ok))
BFWriteNumber ==
  \E b \in ToSet(bf.buffers), off \in ByteOffsets, size \in {1, 2}, little, signed \in BOOLEAN, half \in Halves :
    LET bounds == IntBounds(size, signed)
        ok == half >= 2 * bounds[1] /\ half <= 2 * bounds[2] /\ OffsetOK(b.len, off, size)
        call == [n |-> off + size, at |-> off, size |-> size, little |-> little, signed |-> signed, half |-> half]
                @@ Asked(Call("writeInt", b, ok), b.off + off, b.off + off + size)
    IN  IF ok THEN Performed(call, Stored(bf.heap, b.ab, b.off + off, WriteUintN(Trunc(half) % Base(WordBytes), size, little)))
        ELSE Got(call)

-----------------------------------------------------------------------------
(* write, copy, fill, swap *)

\* write(string, offset, length): the length is not looked at.
BFWrite ==
  \E b \in ToSet(bf.buffers), text \in Texts, offset \in WriteOffsets, length \in WriteLengths :
    LET off == OrElse(offset, 0)
        start == b.off + off
        n == Most(0, Least(Len(text), b.off + b.len - start))
        room == Least(OrElse(length, b.len), Least(Len(text), b.len - off))
        panics == n > 0 /\ start < 0
        call == [n |-> n] @@ Asked(Call("write", b, ~panics), start, IF off < 0 THEN start ELSE start + Most(0, room))
    IN  Performed(call, IF panics THEN bf.heap ELSE Stored(bf.heap, b.ab, start, Range0(text, 0, n)))
\* latin1Write and its like.
BFEncodingWrite ==
  \E b \in ToSet(bf.buffers), text \in Texts, offset, length \in ByteOffsets \cup {LeftOut} :
    LET off == OrElse(offset, 0)
        ok == off >= 0 /\ off <= b.len
        n == Least(Len(text), Clamped(OrElse(length, b.len - off), 0, b.len - off))
        call == [n |-> n] @@ Asked(Call("encodingWrite", b, ok), b.off + off,
                                   b.off + Most(off, Least(off + OrElse(length, b.len), b.len)))
    IN  IF ok THEN Performed(call, Stored(bf.heap, b.ab, b.off + off, Range0(text, 0, n))) ELSE Got(call)
BFCopy ==
  \E b, to \in ToSet(bf.buffers), targetStart \in ByteOffsets, sourceStart, sourceEnd \in ByteOffsets \cup {LeftOut} :
    LET from == OrElse(sourceStart, 0)
        end == Least(OrElse(sourceEnd, b.len), b.len)
        n == Least(end - from, to.len - targetStart)
        none == n <= 0 \/ from < 0 \/ targetStart < 0
        lo == to.off + targetStart
        call == [n |-> IF none THEN 0 ELSE n, from |-> b.ab, at |-> b.off + from]
                @@ Asked(Call("copy", to, TRUE), lo, IF none THEN lo ELSE Least(to.off + to.len, lo + (end - from)))
    IN  IF none THEN Got(call)
        ELSE Performed(call, Stored(bf.heap, to.ab, lo, Range0(bf.heap[b.ab], b.off + from, b.off + from + n)))

\* A start or end that is checked, not clamped.
RangeOK(n, max) == n = LeftOut \/ (n >= 0 /\ n <= max)
\* A pattern over and over, the last time cut short.
Repeated(pattern, n) == [i \in 1 .. n |-> pattern[((i - 1) % Len(pattern)) + 1]]
\* The bytes of a string, or of a buffer, which may be the one filled.
Patterns == {<<0, text>> : text \in Texts} \cup {<<i, LiveBytes(bf.buffers[i])>> : i \in DOMAIN bf.buffers}
BFFill ==
  \E b \in ToSet(bf.buffers), pattern \in Patterns, offset, end \in ByteOffsets \cup {LeftOut} :
    LET from == OrElse(offset, 0)
        to == OrElse(end, b.len)
        bytes == IF pattern[2] = <<>> THEN <<0>> ELSE pattern[2]
        ok == RangeOK(offset, b.len) /\ RangeOK(end, b.len) /\ (from < to => pattern[1] = 0 \/ pattern[2] # <<>>)
        call == [pattern |-> bytes] @@ Asked(Call("fill", b, ok), b.off + from, IF ok THEN b.off + Most(from, to) ELSE b.off + from)
    IN  IF ok /\ from < to THEN Performed(call, Stored(bf.heap, b.ab, b.off + from, Repeated(bytes, to - from))) ELSE Got(call)
BFSwap ==
  \E b \in ToSet(bf.buffers), width \in {2, 4} :
    LET ok == b.len % width = 0
        bytes == LiveBytes(b)
        swapped == [i \in 1 .. b.len |-> bytes[((i - 1) \div width) * width + width - ((i - 1) % width)]]
        call == [width |-> width] @@ Asked(Call("swap", b, ok), b.off, b.off + b.len)
    IN  IF ok THEN Performed(call, Stored(bf.heap, b.ab, b.off, swapped)) ELSE Got(call)

-----------------------------------------------------------------------------
(* Making buffers *)

\* from(ArrayBuffer, offset, length) is a view of it; from(buffer) copies.
BFFromArrayBuffer ==
  \E b \in ToSet(bf.buffers), offset, length \in ByteOffsets \cup {LeftOut} :
    LET total == Len(bf.heap[b.ab])
        off == Clamped(OrElse(offset, 0), 0, total)
        len == Clamped(OrElse(length, total - off), 0, total - off)
    IN  Made(Call("view", b, TRUE), WrapView(b, off, len))
BFFromBytes ==
  \E b \in ToSet(bf.buffers) : Made(Call("from", b, TRUE), WrapBytes(LiveBytes(b)))
BFSubarray ==
  \E b \in ToSet(bf.buffers), start, end \in ByteOffsets \cup {LeftOut} :
    LET Rel0(n) == IF n < 0 THEN Most(0, b.len + n) ELSE Least(n, b.len)
        from == Rel0(OrElse(start, 0))
        to == Most(from, Rel0(OrElse(end, b.len)))
    IN  Made(Call("subarray", b, TRUE), WrapView(b, b.off + from, to - from))
BFConcat ==
  \E b, c \in ToSet(bf.buffers), length \in ByteOffsets \cup {LeftOut} :
    LET all == LiveBytes(b) \o LiveBytes(c)
        total == Most(0, OrElse(length, Len(all)))
        out == [i \in 1 .. total |-> IF i <= Len(all) THEN all[i] ELSE 0]
    IN  Made(Call("concat", b, TRUE), WrapBytes(out))
BFAlloc ==
  \E n \in ByteOffsets, text \in Texts :
    LET size == Most(0, n)
        out == IF text = <<>> THEN [i \in 1 .. size |-> 0] ELSE Repeated(text, size)
    IN  Made(Call("alloc", bf.buffers[1], TRUE), WrapBytes(out))
\* The view's elements are size bytes wide; offset and length count them.
BFCopyBytesFrom ==
  \E b \in ToSet(bf.buffers), size \in {1, 2}, offset, length \in ByteOffsets \cup {LeftOut} :
    LET count == b.len \div size
        off == Clamped(OrElse(offset, 0), 0, count)
        n == Clamped(OrElse(length, count - off), 0, count - off)
        out == Range0(LiveBytes(b), off * size, (off + n) * size)
    IN  /\ b.len % size = 0
        /\ Made(Call("copyBytesFrom", b, TRUE), WrapBytes(out))

-----------------------------------------------------------------------------
(* Searching, comparing, slicing *)

OccursAt(bytes, needle, i) == i + Len(needle) <= Len(bytes) /\ Range0(bytes, i, i + Len(needle)) = needle
FirstFrom(bytes, needle, off) ==
  LET found == {i \in Most(0, off) .. Len(bytes) : OccursAt(bytes, needle, i)} IN
  IF off > Len(bytes) THEN IF needle = <<>> THEN Len(bytes) ELSE -1
  ELSE IF found = {} THEN -1 ELSE CHOOSE i \in found : \A j \in found : i <= j
\* Downward from the last place where the needle still fits.
LastFrom(bytes, needle, off) ==
  LET start == Least(Least(off, Len(bytes)), Len(bytes) - Len(needle))
      found == {i \in 0 .. start : Range0(bytes, i, i + Len(needle)) = needle}
  IN  IF off < 0 \/ found = {} THEN -1 ELSE CHOOSE i \in found : \A j \in found : j <= i
BFSearch ==
  \E b \in ToSet(bf.buffers), needle \in Texts, offset \in ByteOffsets \cup {LeftOut}, last \in BOOLEAN :
    LET given == OrElse(offset, IF last THEN b.len ELSE 0)
        off == IF given < 0 THEN given + b.len ELSE given
        bytes == LiveBytes(b)
    IN  Got([n |-> IF last THEN LastFrom(bytes, needle, off) ELSE FirstFrom(bytes, needle, off),
             needle |-> needle, offset |-> offset, last |-> last] @@ Call("search", b, TRUE))
\* Byte by byte, and the shorter one first.
CompareBytes(s, t) ==
  LET differ == {i \in 1 .. Least(Len(s), Len(t)) : s[i] # t[i]}
      i == CHOOSE j \in differ : \A k \in differ : j <= k
  IN  IF differ # {} THEN IF s[i] < t[i] THEN -1 ELSE 1
      ELSE IF Len(s) = Len(t) THEN 0 ELSE IF Len(s) < Len(t) THEN -1 ELSE 1
Compare(s, t) ==
  IF s = <<>> THEN IF t = <<>> THEN 0 ELSE -1 ELSE IF t = <<>> THEN 1 ELSE CompareBytes(s, t)
BFCompare ==
  \E b, c \in ToSet(bf.buffers), start \in ByteOffsets \cup {LeftOut} :
    LET ok == RangeOK(start, c.len)
        s == LiveBytes(b)
        t == Range0(LiveBytes(c), OrElse(start, 0), c.len)
    IN  Got([n |-> IF ok THEN Compare(s, t) ELSE 0, back |-> IF ok THEN Compare(t, s) ELSE 0, same |-> ok /\ s = t]
            @@ Call("compare", b, ok))
\* toString(encoding, start, end) clamps, latin1Slice(start, end) throws.
BFSlice ==
  \E b \in ToSet(bf.buffers), start, end \in ByteOffsets \cup {LeftOut}, throws \in BOOLEAN :
    LET from == Clamped(OrElse(start, 0), 0, b.len)
        to == Clamped(OrElse(end, b.len), IF throws THEN 0 ELSE from, b.len)
    IN  Got([data |-> IF to < from THEN <<>> ELSE Range0(LiveBytes(b), from, to), start |-> start, end |-> end]
            @@ Call("slice", b, from <= to))

BFInit ==
  bf = [heap |-> <<FirstBytes>>, before |-> <<FirstBytes>>, calls |-> 0,
        buffers |-> [i \in DOMAIN FirstBuffers |-> [ab |-> 1, off |-> FirstBuffers[i][1], len |-> FirstBuffers[i][2], kin |-> 1]],
        last |-> Call("none", [ab |-> 1, off |-> 0, len |-> 0, kin |-> 1], TRUE)]
BFNext ==
  /\ bf.calls < MaxByteCalls
  /\ \/ BFReadNumber \/ BFWriteNumber \/ BFWrite \/ BFEncodingWrite \/ BFCopy \/ BFFill \/ BFSwap
     \/ BFFromArrayBuffer \/ BFFromBytes \/ BFSubarray \/ BFConcat \/ BFAlloc \/ BFCopyBytesFrom
     \/ BFSearch \/ BFCompare \/ BFSlice

-----------------------------------------------------------------------------
\* A call changes no byte but those it was asked to write in the buffer it
\* is about, so no other buffer but one documented to share these bytes,
\* and none when it throws.
ChangesAsked ==
  LET call == bf.last IN
  \A c \in ToSet(bf.buffers) : c.ab \in DOMAIN bf.before =>
    \A i \in (c.off + 1) .. (c.off + c.len) :
      bf.heap[c.ab][i] # bf.before[c.ab][i] =>
        call.ok /\ c.kin = call.kin /\ call.lo < i /\ i <= call.hi
\* A number is read as its bytes are weighed, whoever wrote them, and one
\* that is written can be read: its integer part, in as many bytes.
Weighed(bytes, little, signed) ==
  LET ordered == IF little THEN bytes ELSE Reverse(bytes)
      top == Last(ordered) >= ByteValues \div 2
      sum == FoldLeft(LAMBDA n, i : n + ordered[i] * Base(i - 1), 0, [i \in DOMAIN ordered |-> i])
  IN  IF signed /\ top THEN sum - Base(Len(bytes)) ELSE sum
NumbersWeighed ==
  LET call == bf.last IN
  call.op \in {"readInt", "writeInt"} /\ call.ok =>
    LET n == Weighed(Range0(bf.heap[call.ab], call.off + call.at, call.off + call.at + call.size), call.little, call.signed)
    IN  IF call.op = "readInt" THEN call.n = n
        ELSE 2 * n - call.half \in {-1, 0, 1} /\ (n >= 0 => 2 * n <= Most(call.half, 0)) /\ (n < 0 => 2 * n >= call.half)
\* copy moves the bytes as they were, though the two overlap; fill repeats
\* the pattern as it was; swapping twice is nothing.
BytesMoved ==
  LET call == bf.last IN
  /\ call.op = "copy" =>
       \A k \in 1 .. call.n : bf.heap[call.ab][call.lo + k] = bf.before[call.from][call.at + k]
  /\ call.op = "fill" /\ call.ok =>
       \A k \in 1 .. (call.hi - call.lo) : bf.heap[call.ab][call.lo + k] = call.pattern[((k - 1) % Len(call.pattern)) + 1]
  /\ call.op = "swap" /\ call.ok =>
       \A k \in 0 .. (call.len - 1) :
         LET first == call.off + (k \div call.width) * call.width
             there == first + call.width - (k % call.width)
         IN  bf.heap[call.ab][there] = bf.before[call.ab][call.off + k + 1]
\* A search finds the first or last place there is, at or after (before) the
\* offset, a negative one counted from the end; comparing is an order.
PlacesFound ==
  LET call == bf.last
      bytes == Range0(bf.heap[call.ab], call.off, call.off + call.len)
      from == OrElse(call.offset, IF call.last THEN call.len ELSE 0)
      at == IF from < 0 THEN call.len + from ELSE from
      places == {i \in 0 .. (call.len - Len(call.needle)) :
                   /\ \A k \in DOMAIN call.needle : bytes[i + k] = call.needle[k]
                   /\ IF call.last THEN i <= at ELSE i >= at}
  IN  /\ call.op = "search" =>
           IF places = {} THEN call.n = IF call.needle = <<>> /\ at > call.len THEN call.len ELSE -1
           ELSE call.n \in places /\ \A i \in places : IF call.last THEN i <= call.n ELSE call.n <= i
      /\ call.op = "compare" /\ call.ok => call.n = -call.back /\ (call.n = 0 <=> call.same)
=============================================================================
