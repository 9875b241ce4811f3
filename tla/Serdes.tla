-------------------------------- MODULE Serdes --------------------------------
(***************************************************************************)
(* v8.serialize and deserialize (v8_serdes.go), the clone a MessagePort    *)
(* makes (structuredclone.go), and v8.GCProfiler.                          *)
(*                                                                         *)
(* A heap is a sequence of objects [kind, items, props].  A value is the   *)
(* number of an object, or a negative number: a primitive; Wide is a       *)
(* string of two-byte characters.  0 in items is a hole.  items are an     *)
(* array's elements, a Map's keys and values in turn, a Set's values, an   *)
(* error's cause, a view's buffer; props are pairs of a key and a value.   *)
(* Serialized bytes are tokens [t, v, at], at being the byte they begin    *)
(* at: a token's tag is one byte, and so is its number.                    *)
(***************************************************************************)
EXTENDS Integers, Sequences, FiniteSets, SequencesExt, FiniteSetsExt

CONSTANTS
  SerdesWorlds,  \* records [heap, root, views, transfers, marked]: views is
                 \* "host" or "plain", transfers the buffers and ports handed over
  MaxMutations,  \* bound: what getters change while a value is written
  Group,         \* how many values the low bits of a byte take (128)
  DigitBytes,    \* the bytes of a bigint's digit (8)
  Ring,          \* the runtime's pauses (256)
  MaxCollections \* bound: garbage collections

ASSUME SerdesAssumption ==
  {MaxMutations, MaxCollections} \subseteq Nat /\ {Group, DigitBytes, Ring} \subseteq Nat \ {0}

VARIABLES sd, nm, gc

Wide == -2
Null == -9
Obj(kind, items, props) == [kind |-> kind, items |-> items, props |-> props]
Uncloneable == {"function", "symbol", "promise", "shared", "boxedsymbol"}

-----------------------------------------------------------------------------
(* Serializer *)

\* todo: what is left to write, the next one first.  ids: the objects in the
\* order of their numbers.
SDInit == \E w \in SerdesWorlds :
  sd = [w |-> w, heap |-> w.heap, out |-> <<[t |-> "version", v |-> 15, at |-> 0]>>, len |-> 2, ids |-> <<>>,
        todo |-> <<[do |-> "value", v |-> w.root]>>, state |-> "writing", mutated |-> 0]

Written(s, t, v, size) ==
  [s EXCEPT !.out = Append(@, [t |-> t, v |-> v, at |-> s.len]), !.len = @ + size]
Before(s, tasks) == [s EXCEPT !.todo = tasks \o @]
Numbered(s, o) == [s EXCEPT !.ids = Append(@, o)]
WrittenAs(s, o) == CHOOSE i \in DOMAIN s.ids : s.ids[i] = o
\* _string: a two-byte string begins where its characters lie even.
Text(s, v) ==
  IF v # Wide THEN Written(s, "string", v, 3)
  ELSE IF (s.len + 1 + 1) % 2 = 1 THEN Written(Written(s, "padding", 0, 1), "wide", v, 4) ELSE Written(s, "wide", v, 4)

\* _writeObject of an object that has no number yet.
Dense(o) == \A i \in DOMAIN o.items : o.items[i] # 0
Keys(o) == [i \in DOMAIN o.props |-> o.props[i][1]]
Indices(o) == SelectSeq([i \in DOMAIN o.items |-> i], LAMBDA i : o.items[i] # 0)
ValueTasks(items) == [i \in DOMAIN items |-> [do |-> "value", v |-> items[i]]]
Tail2(t, v) == [do |-> "token", t |-> t, v |-> v]
WriteNew(s, n) ==
  LET o == s.heap[n] mine == Numbered(s, n)
  IN  CASE o.kind = "buffer" /\ n \in s.w.transfers -> Written(mine, "transfer", n, 2)
        [] o.kind = "buffer" /\ n \notin s.w.transfers -> Written(mine, "buffer", n, 3)
        [] o.kind = "view" /\ s.w.views = "host" -> Written(mine, "host", n, 4)
        [] o.kind = "view" /\ s.w.views = "plain" ->
             Before(s, <<[do |-> "value", v |-> o.items[1]], [do |-> "view", v |-> n]>>)
        [] o.kind = "array" /\ Dense(o) ->
             Before(Written(mine, "dense", Len(o.items), 2),
                  <<[do |-> "items", v |-> n, from |-> 1, length |-> Len(o.items)]>>)
        [] o.kind = "array" /\ ~Dense(o) ->
             Before(Written(mine, "sparse", Len(o.items), 2),
                  <<[do |-> "props", v |-> n, keys |-> [i \in DOMAIN Indices(o) |-> -100 - Indices(o)[i]] \o Keys(o),
                     count |-> 0, end |-> "endSparse"]>>)
        [] o.kind = "map" -> Before(Written(mine, "map", 0, 1), ValueTasks(o.items) \o <<Tail2("endMap", Len(o.items))>>)
        [] o.kind = "set" -> Before(Written(mine, "set", 0, 1), ValueTasks(o.items) \o <<Tail2("endSet", Len(o.items))>>)
        [] o.kind = "error" ->
             Before(Text(Written(mine, "error", 0, 2), Wide),
                  IF o.items = <<>> THEN <<Tail2("endError", 0)>>
                  ELSE <<Tail2("cause", 0), [do |-> "value", v |-> o.items[1]], Tail2("endError", 0)>>)
        [] o.kind = "regexp" -> Written(Text(Written(mine, "regexp", 0, 1), Wide), "flags", 0, 1)
        [] o.kind = "date" -> Written(mine, "date", n, 9)
        [] o.kind = "boxedstring" -> Text(Written(mine, "boxedstring", 0, 1), Wide)
        [] o.kind = "object" ->
             Before(Written(mine, "object", 0, 1), <<[do |-> "props", v |-> n, keys |-> Keys(o), count |-> 0, end |-> "endObject"]>>)
        [] OTHER -> [s EXCEPT !.state = "refused", !.todo = <<>>]
WriteValue(s, v) ==
  IF v = Wide THEN Text(s, v)
  ELSE IF v < 0 THEN Written(s, "primitive", v, 2)
  ELSE IF s.heap[v].kind \notin Uncloneable /\ \E i \in DOMAIN s.ids : s.ids[i] = v
       THEN Written(s, "reference", WrittenAs(s, v), 2)
  ELSE WriteNew(s, v)

\* A property that is gone is left out; an element that is gone is a hole.
PropOf(o, key) == {i \in DOMAIN o.props : o.props[i][1] = key}
ItemOf(o, i) == IF i \in DOMAIN o.items THEN o.items[i] ELSE 0
WriteProps(s, t) ==
  IF t.keys = <<>> THEN IF t.end = "endObject" THEN Written(s, t.end, <<t.count>>, 2)
                        ELSE Written(s, t.end, <<t.count, 0>>, 3)
  ELSE LET key == Head(t.keys) o == s.heap[t.v]
           index == key < -100
           value == IF index THEN ItemOf(o, -100 - key)
                    ELSE IF PropOf(o, key) = {} THEN 0 ELSE o.props[Min(PropOf(o, key))][2]
           next == [t EXCEPT !.keys = Tail(@), !.count = IF value = 0 THEN @ ELSE @ + 1]
           named == IF index THEN Written(s, "primitive", key, 2) ELSE Text(s, key)
       IN  IF value = 0 THEN Before(s, <<next>>) ELSE Before(named, <<[do |-> "value", v |-> value], next>>)
WriteItems(s, t) ==
  LET o == s.heap[t.v] next == [t EXCEPT !.from = @ + 1]
  IN  IF t.from > t.length
      THEN Before(s, <<[do |-> "props", v |-> t.v,
                      keys |-> [i \in 1 .. Len(SelectSeq(Indices(o), LAMBDA k : k > t.length)) |->
                                 -100 - SelectSeq(Indices(o), LAMBDA k : k > t.length)[i]] \o Keys(o),
                      count |-> 0, end |-> "endDense"]>>)
      ELSE IF ItemOf(o, t.from) = 0 THEN Before(Written(s, "hole", 0, 1), <<next>>)
      ELSE Before(s, <<[do |-> "value", v |-> o.items[t.from]], next>>)

SDWrite ==
  /\ sd.state = "writing" /\ sd.todo # <<>>
  /\ LET t == Head(sd.todo) s == [sd EXCEPT !.todo = Tail(@)]
     IN  sd' = CASE t.do = "value" -> WriteValue(s, t.v)
                 [] t.do = "props" -> WriteProps(s, t)
                 [] t.do = "items" -> WriteItems(s, t)
                 [] t.do = "view" -> Written(Numbered(s, t.v), "view", t.v, 5)
                 [] OTHER -> Written(s, t.t, t.v, 2)
SDWritten == sd.state = "writing" /\ sd.todo = <<>> /\ sd' = [sd EXCEPT !.state = "written"]
\* A getter that runs changes the object: a property goes, an array is cut,
\* grows or loses an element.
SDGetter ==
  /\ sd.state = "writing" /\ sd.mutated < MaxMutations /\ sd.out[Len(sd.out)].t \in {"string", "wide", "primitive", "reference", "dense"}
  /\ \E n \in DOMAIN sd.heap :
       LET o == sd.heap[n] change(p) == [sd EXCEPT !.heap[n] = p, !.mutated = @ + 1]
       IN  \/ \E i \in DOMAIN o.props : sd' = change([o EXCEPT !.props = RemoveAt(@, i)])
           \/ o.kind = "array" /\ o.items # <<>> /\ sd' = change([o EXCEPT !.items = Front(@)])
           \/ o.kind = "array" /\ \E i \in DOMAIN o.items : sd' = change([o EXCEPT !.items[i] = 0])
           \/ o.kind \in {"array", "set"} /\ sd' = change([o EXCEPT !.items = Append(@, -1)])
SDNext == SDWrite \/ SDWritten \/ SDGetter

-----------------------------------------------------------------------------
(* Deserializer *)

\* r: the place in toks, the objects read, and ok, FALSE when the data is bad.
Reading(toks) == [toks |-> toks, pos |-> 1, objects |-> <<>>, value |-> 0, ok |-> TRUE]
BadData(r) == [r EXCEPT !.ok = FALSE]
Peek(r) == IF r.ok /\ r.pos <= Len(r.toks) THEN r.toks[r.pos].t ELSE "end"
Here(r) == r.toks[r.pos]
Skip(r) == [r EXCEPT !.pos = @ + 1]
Place(r, o) == [r EXCEPT !.objects = Append(@, o)]
Value(r, v) == [r EXCEPT !.value = v]
\* _readString
ReadText(r) ==
  LET q == IF Peek(r) = "padding" THEN Skip(r) ELSE r
  IN  IF Peek(q) \in {"string", "wide"} THEN Value(Skip(q), Here(q).v) ELSE BadData(q)
Expect(r, t) == IF Peek(r) = t THEN Skip(r) ELSE BadData(r)

RECURSIVE ReadInternal(_), ReadObject(_), ReadItems(_, _, _), ReadUntil(_, _, _), ReadProps(_, _, _)
\* _readObject: a buffer may be followed by a view over it.
ReadObject(r) ==
  LET q == ReadInternal(r)
  IN  IF q.ok /\ q.value > 0 /\ q.objects[q.value].kind = "buffer" /\ Peek(q) = "view"
      THEN Value(Place(Skip(q), Obj("view", <<q.value>>, <<>>)), Len(q.objects) + 1)
      ELSE q
\* The elements of a dense array, holes left as they are.
ReadItems(r, n, left) ==
  IF ~r.ok \/ left = 0 THEN r
  ELSE LET q == IF Peek(r) = "hole" THEN Value(Skip(r), 0) ELSE ReadObject(r)
       IN  ReadItems(IF q.ok THEN [q EXCEPT !.objects[n].items = Append(@, q.value)] ELSE q, n, left - 1)
\* A Map or a Set, until its end.
ReadUntil(r, n, end) ==
  IF ~r.ok \/ Peek(r) = end THEN Expect(r, end)
  ELSE LET q == ReadObject(r)
       IN  ReadUntil(IF q.ok THEN [q EXCEPT !.objects[n].items = Append(@, q.value)] ELSE q, n, end)
\* _readProperties: an index is an element of the array.
WithProp(o, key, value) ==
  IF key < -100 /\ o.kind = "array"
  THEN [o EXCEPT !.items = [i \in 1 .. Max({Len(o.items), -100 - key}) |->
                             IF i = -100 - key THEN value ELSE IF i \in DOMAIN o.items THEN o.items[i] ELSE 0]]
  ELSE [o EXCEPT !.props = Append(@, <<key, value>>)]
ReadProps(r, n, end) ==
  IF ~r.ok \/ Peek(r) \in {end, "end"} THEN Expect(r, end)
  ELSE LET k == ReadObject(r)
           q == IF k.ok THEN ReadObject(k) ELSE k
       IN  ReadProps(IF q.ok THEN [q EXCEPT !.objects[n] = WithProp(@, k.value, q.value)] ELSE q, n, end)
\* Until it is read, an error's place holds null.
ReadError(r, n) ==
  LET m == ReadText(r)
      c == IF Peek(m) = "cause" THEN ReadObject(Skip(m)) ELSE m
      placed == IF c.ok /\ Peek(m) = "cause" THEN [c EXCEPT !.objects[n].items = <<c.value>>] ELSE c
  IN  Expect(IF placed.ok THEN [placed EXCEPT !.objects[n].kind = "error"] ELSE placed, "endError")
ReadInternal(r) ==
  LET t == Here(r) q == Skip(r) n == Len(r.objects) + 1
      new(kind, items) == Place(q, Obj(kind, items, <<>>))
      done(x) == Value(x, n)
  IN  IF Peek(r) = "end" THEN BadData(r)
      ELSE CASE t.t = "padding" -> ReadInternal(q)
             [] t.t \in {"primitive", "string", "wide"} -> Value(q, t.v)
             [] t.t = "reference" -> IF t.v > Len(r.objects) THEN BadData(q)
                                     ELSE Value(q, IF r.objects[t.v].kind = "pending" THEN Null ELSE t.v)
             [] t.t = "object" -> done(ReadProps(new("object", <<>>), n, "endObject"))
             [] t.t = "sparse" -> done(ReadProps(new("array", [i \in 1 .. t.v |-> 0]), n, "endSparse"))
             [] t.t = "dense" -> done(ReadProps(ReadItems(new("array", <<>>), n, t.v), n, "endDense"))
             [] t.t = "map" -> done(ReadUntil(new("map", <<>>), n, "endMap"))
             [] t.t = "set" -> done(ReadUntil(new("set", <<>>), n, "endSet"))
             [] t.t = "error" -> done(ReadError(new("pending", <<>>), n))
             [] t.t = "regexp" -> done(Expect(ReadText(new("regexp", <<>>)), "flags"))
             [] t.t = "boxedstring" -> done(ReadText(new("boxedstring", <<>>)))
             [] t.t \in {"buffer", "date"} -> done(new(t.t, <<>>))
             [] t.t = "transfer" -> done(new("buffer", <<>>))
             [] t.t = "host" -> done(new("view", <<>>))
             [] OTHER -> BadData(q)
ReadAll(toks) == LET h == Expect(Reading(toks), "version") IN IF h.ok THEN ReadObject(h) ELSE h

\* What was written reads back whole, whatever getters did meanwhile; unless
\* they did, as the same graph, each object once, but for an error inside its
\* own cause, null there; cut short, it does not read.
SameValue(v, ids, x) == IF v > 0 THEN x > 0 /\ ids[x] = v ELSE x = v
Reachable(h, ids) == \A i \in DOMAIN ids : h[ids[i]].kind \notin Uncloneable
SameObject(o, ids, p, host, errors) ==
  LET same(v, x) == SameValue(v, ids, x) \/ (v \in errors /\ x = Null)
  IN  /\ o.kind = p.kind
      /\ Len(o.props) = Len(p.props)
      /\ \A i \in DOMAIN o.props : o.props[i][1] = p.props[i][1] /\ same(o.props[i][2], p.props[i][2])
      /\ o.kind # "view" \/ ~host =>
           Len(o.items) = Len(p.items) /\ \A i \in DOMAIN o.items : same(o.items[i], p.items[i])
ReadsBack ==
  sd.state = "written" =>
    LET r == ReadAll(sd.out)
        errors == {n \in DOMAIN sd.heap : sd.heap[n].kind = "error"}
    IN  /\ r.ok /\ r.pos = Len(sd.out) + 1 /\ Len(r.objects) = Len(sd.ids)
        /\ sd.mutated = 0 =>
             /\ SameValue(sd.w.root, sd.ids, r.value) /\ Reachable(sd.heap, sd.ids)
             /\ \A i \in DOMAIN sd.ids : SameObject(sd.heap[sd.ids[i]], sd.ids, r.objects[i], sd.w.views = "host", errors)
        /\ sd.w.views = "host" => \A n \in 1 .. Len(sd.out) - 1 : ~ReadAll(SubSeq(sd.out, 1, n)).ok
WideEven == \A i \in DOMAIN sd.out : sd.out[i].t = "wide" => (sd.out[i].at + 2) % 2 = 0

-----------------------------------------------------------------------------
(* The clone of a MessagePort: structuredCloneValue, hasUncloneable *)

\* The walk is over arrays and what Go calls plain objects: a date and an
\* error are such, and come out as objects; a Map, a Set, a view or a buffer
\* is no plain object and is passed on as it is, and so is a port that is
\* transferred.  marked: the objects markAsUncloneable was called with.
Plain == {"object", "error", "date", "regexp", "boxedstring"}
Walked == Plain \cup {"array"}
Cloning(h, marked, kept) == [h |-> h, marked |-> marked, kept |-> kept, made |-> <<>>, from |-> <<>>, value |-> 0, ok |-> TRUE]
CopyOf(r, v) == CHOOSE i \in DOMAIN r.from : r.from[i] = v
RECURSIVE CloneValue(_, _), CloneItems(_, _, _, _), CloneProps(_, _, _, _)
CloneItems(r, v, n, i) ==
  IF ~r.ok \/ i > Len(r.h[v].items) THEN r
  ELSE LET q == IF r.h[v].items[i] = 0 THEN Value(r, Null) ELSE CloneValue(r, r.h[v].items[i])
       IN  CloneItems(IF q.ok THEN [q EXCEPT !.made[n].items = Append(@, q.value)] ELSE q, v, n, i + 1)
CloneProps(r, v, n, i) ==
  IF ~r.ok \/ i > Len(r.h[v].props) THEN r
  ELSE LET q == CloneValue(r, r.h[v].props[i][2])
       IN  CloneProps(IF q.ok THEN [q EXCEPT !.made[n].props = Append(@, <<r.h[v].props[i][1], q.value>>)] ELSE q, v, n, i + 1)
\* A copy is the number of the object made, a thing passed on 100 and its own.
CloneValue(r, v) ==
  IF v <= 0 THEN Value(r, v)
  ELSE LET o == r.h[v] n == Len(r.made) + 1
           new == [r EXCEPT !.made = Append(@, Obj(IF o.kind = "array" THEN "array" ELSE "object", <<>>, <<>>)),
                            !.from = Append(@, v)]
       IN  IF o.kind = "function" \/ (o.kind \in Plain /\ v \in r.marked) THEN BadData(r)
           ELSE IF o.kind \notin Walked \/ v \in r.kept THEN Value(r, 100 + v)
           ELSE IF \E i \in DOMAIN r.from : r.from[i] = v THEN Value(r, CopyOf(r, v))
           ELSE IF o.kind = "array" THEN Value(CloneItems(new, v, n, 1), n)
           ELSE Value(CloneProps(new, v, n, 1), n)
Cloned(w) == CloneValue(Cloning(w.heap, w.marked, w.transfers), w.root)

\* hasUncloneable: depth first, each object once.
RECURSIVE HasUncloneable(_, _, _)
HasUncloneable(w, left, seen) ==
  IF left = <<>> THEN FALSE
  ELSE LET v == Head(left) o == w.heap[v]
       IN  IF v <= 0 \/ v \in seen \/ o.kind \notin Walked THEN HasUncloneable(w, Tail(left), seen)
           ELSE IF o.kind # "array" /\ v \in w.marked THEN TRUE
           ELSE HasUncloneable(w, (IF o.kind = "array" THEN o.items ELSE [i \in DOMAIN o.props |-> o.props[i][2]]) \o Tail(left),
                               seen \cup {v})

\* Every object the walk can reach.
Leads(w, v) ==
  LET o == w.heap[v]
  IN  {x \in IF o.kind = "array" THEN ToSet(o.items) ELSE IF o.kind \in Plain THEN {o.props[i][2] : i \in DOMAIN o.props} ELSE {} :
         x > 0 /\ v \notin w.transfers /\ ~(v \in w.marked /\ o.kind \in Plain)}
Reach(w) ==
  LET step[n \in 0 .. Len(w.heap)] == IF n = 0 THEN {w.root} \cap DOMAIN w.heap
                                      ELSE step[n - 1] \cup UNION {Leads(w, v) : v \in step[n - 1]}
  IN  step[Len(w.heap)]
\* A clone is refused exactly for a function or a marked object inside;
\* otherwise it is the same graph, an object shared there shared here, and
\* holds none of the arrays and plain objects of the original.
ClonedValue(r, v, x) ==
  IF v <= 0 THEN x = (IF v = 0 THEN Null ELSE v)
  ELSE IF r.h[v].kind \in Walked /\ v \notin r.kept THEN x \in DOMAIN r.made /\ r.from[x] = v ELSE x = 100 + v
ClonesApart ==
  LET w == sd.w r == Cloned(w) marked == {v \in Reach(w) : w.heap[v].kind \in Plain /\ v \in w.marked}
  IN  Len(sd.out) = 1 /\ sd.mutated = 0 =>
        /\ r.ok <=> marked = {} /\ \A v \in Reach(w) : w.heap[v].kind # "function"
        /\ w.root > 0 => (HasUncloneable(w, <<w.root>>, {}) <=> marked # {})
        /\ r.ok => /\ ClonedValue(r, w.root, r.value)
                   /\ IsInjective(r.from)
                   /\ \A i \in DOMAIN r.made :
                        LET o == w.heap[r.from[i]] p == r.made[i]
                        IN  IF o.kind = "array"
                            THEN Len(p.items) = Len(o.items) /\ \A k \in DOMAIN o.items : ClonedValue(r, o.items[k], p.items[k])
                            ELSE /\ Len(p.props) = Len(o.props)
                                 /\ \A k \in DOMAIN o.props : p.props[k][1] = o.props[k][1] /\ ClonedValue(r, o.props[k][2], p.props[k][2])

-----------------------------------------------------------------------------
(* The numbers: zigzag, LEB128, the digits of a bigint *)

\* A byte holds Group values of a varint below its continuation bit, a digit
\* of a bigint DigitBytes bytes.
NMInit == nm \in [v : -(Group * Group) .. (Group * Group), kind : {"int", "bigint"}, left : {-1}, bytes : {<<>>}]
Zigzag(v) == IF v >= 0 THEN 2 * v ELSE -2 * v - 1
\* The digits of a magnitude, least first, to the byte.
Bytes(mag) == LET f[n \in 0 .. 8] == IF n = 0 THEN <<>> ELSE Append(f[n - 1], (mag \div ((2 * Group) ^ (n - 1))) % (2 * Group))
                  digits == IF mag = 0 THEN 0 ELSE Min({d \in 1 .. 4 : mag < (2 * Group) ^ (d * DigitBytes)})
              IN  f[digits * DigitBytes]
Magnitude(v) == IF v < 0 THEN -v ELSE v
\* _bigintContents, _zigzag: what the varint before the digits says.
NMStart ==
  /\ nm.left = -1 /\ nm.bytes = <<>>
  /\ nm' = [nm EXCEPT !.left = IF nm.kind = "int" THEN Zigzag(nm.v)
                               ELSE Len(Bytes(Magnitude(nm.v))) * 2 + IF nm.v < 0 THEN 1 ELSE 0]
\* _varint: one byte.
NMByte ==
  /\ nm.left >= 0
  /\ LET n == nm.left \div Group b == (nm.left % Group) + IF n > 0 THEN Group ELSE 0
         last == n = 0
     IN  nm' = [nm EXCEPT !.left = IF last THEN -2 ELSE n,
                          !.bytes = Append(@, b) \o IF last /\ nm.kind = "bigint" THEN Bytes(Magnitude(nm.v)) ELSE <<>>]
NMNext == NMStart \/ NMByte
\* _varint, _zigzag and _bigintContents of the Deserializer.
RECURSIVE ReadVarint(_, _, _)
ReadVarint(bytes, i, mul) ==
  LET rest == IF bytes[i] >= Group THEN ReadVarint(bytes, i + 1, mul * Group) ELSE [value |-> 0, pos |-> i + 1]
  IN  [rest EXCEPT !.value = @ + (bytes[i] % Group) * mul]
ReadNumber(kind, bytes) ==
  LET r == ReadVarint(bytes, 1, 1)
      mag == FoldRight(LAMBDA b, acc : acc * 2 * Group + b, SubSeq(bytes, r.pos, r.pos + r.value \div 2 - 1), 0)
  IN  IF kind = "int" THEN IF r.value % 2 = 0 THEN r.value \div 2 ELSE -((r.value + 1) \div 2)
      ELSE IF r.value % 2 = 1 THEN -mag ELSE mag
NumbersRead == nm.left = -2 => ReadNumber(nm.kind, nm.bytes) = nm.v

-----------------------------------------------------------------------------
(* GCProfiler: the pauses of the runtime's ring *)

\* ring: the numbers of the collections whose pauses the ring holds.
GCInit == gc = [num |-> 0, ring |-> [i \in 0 .. Ring - 1 |-> 0], start |-> -1, reported |-> <<>>, first |-> 0, last |-> 0]
Collect ==
  /\ gc.num < MaxCollections
  /\ gc' = [gc EXCEPT !.num = @ + 1, !.ring[(gc.num + 1 + Ring - 1) % Ring] = gc.num + 1]
GCStart == gc' = IF gc.start >= 0 THEN gc ELSE [gc EXCEPT !.start = gc.num]
\* gcPauses(since)
GcPauses(since) ==
  LET kept == SelectSeq([k \in 1 .. gc.num - since |-> since + k], LAMBDA n : gc.num - n < Ring)
  IN  [k \in DOMAIN kept |-> gc.ring[(kept[k] + Ring - 1) % Ring]]
GCStop ==
  gc' = IF gc.start < 0 THEN gc
        ELSE [gc EXCEPT !.reported = GcPauses(gc.start), !.first = gc.start, !.last = gc.num, !.start = -1]
GCNext == Collect \/ GCStart \/ GCStop
\* A profile names the collections since its start(), each once and in order,
\* as far as the ring still holds them.
PausesOwn ==
  LET kept == {n \in gc.first + 1 .. gc.last : gc.last - n < Ring}
  IN  gc.reported = SetToSortSeq(kept, LAMBDA a, b : a < b)
=============================================================================
