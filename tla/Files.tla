--------------------------------- MODULE Files ---------------------------------
(***************************************************************************)
(* Files as programs use them: fs.ReadStream and fs.WriteStream            *)
(* (fs_streams_shim.go) over the descriptors of fs_fd.go, a FileHandle or  *)
(* functions of the user's own; Utf8Stream, cp() and the events of         *)
(* fs.promises.watch (fs_shim.go).                                         *)
(*                                                                         *)
(* A descriptor is the lowest number that is free.  The stranger is any    *)
(* other code of the process: it opens a file when it likes, so that a     *)
(* number that was given up may be its next one.  Failures: a world names  *)
(* the operation that fails in it.                                         *)
(***************************************************************************)
EXTENDS Integers, Sequences, FiniteSets, TLC, SequencesExt, FiniteSetsExt

CONSTANTS
  ReadWorlds,   \* records [from, auto, start, end, fails]
  WriteWorlds,  \* records [from, auto, start, flush, fails]
  LogWorlds,    \* records [from, sync, min, fails]
  CopyWorlds,   \* records [tree, dest, force, strict, filter]
  FileLength,   \* of the file that is read
  ChunkLength,  \* highWaterMark
  Fds,          \* the descriptors: 1 .. n
  MaxFileCalls, \* bound: the user's calls
  Careless      \* the user calls what no program should: see Strays

ASSUME FilesAssumption == FileLength \in Nat /\ ChunkLength \in Nat \ {0} /\ MaxFileCalls \in Nat /\ Careless \in BOOLEAN

VARIABLES fr, fw, fu, fc, fp

-----------------------------------------------------------------------------
(* Descriptors *)

NoFds == [n \in Fds |-> "free"]
Lowest(t) == Min({n \in DOMAIN t : t[n] = "free"})
Given(t, who) == [t EXCEPT ![Lowest(t)] = who]
HasFree(t) == \E n \in DOMAIN t : t[n] = "free"
StrangerOpens(x) ==
  IF HasFree(x.t) /\ \A n \in DOMAIN x.t : x.t[n] # "stranger" THEN [x EXCEPT !.t = Given(@, "stranger")] ELSE x

-----------------------------------------------------------------------------
(* What the two streams share *)

\* from: "path", "fd", "handle" or "custom", functions of the user's that do
\* their work by the time they answer; the others have done it when they
\* return, and their answers come in order.
\* waits: listeners for the end of the open; ioWait: destroy waits for the
\* operation; ops: answers to come; file, flight: of a WriteStream.
StreamOf(w) ==
  [w |-> w, t |-> IF w.from \in {"fd", "handle"} THEN Given(NoFds, "mine") ELSE NoFds,
   fd |-> IF w.from \in {"fd", "handle"} THEN 1 ELSE 0, handle |-> w.from = "handle", opening |-> FALSE,
   pos |-> w.start, off |-> 0, io |-> FALSE, waits |-> <<>>, ioWait |-> FALSE,
   ops |-> IF w.from \in {"path", "custom"} THEN <<[op |-> "begin", fd |-> 0, n |-> 0, ok |-> TRUE]>> ELSE <<>>,
   destroyed |-> FALSE, closed |-> FALSE, foreign |-> FALSE, calls |-> 0, file |-> <<>>, flight |-> <<>>, bytes |-> 0]
Op(op, fd, n) == [op |-> op, fd |-> fd, n |-> n, ok |-> TRUE]
Failed(o) == [o EXCEPT !.ok = FALSE]

\* fdFile, and the check of a FileHandle that was closed.
Usable(s, o) == s.t[o.fd] # "free" /\ (s.w.from = "handle" => s.handle)
Used(s, o) == [s EXCEPT !.foreign = @ \/ s.t[o.fd] = "stranger"]
OpenFile(s, o) ==
  IF s.w.fails = "open" THEN <<s, Failed(o)>> ELSE <<[s EXCEPT !.t = Given(@, "mine")], [o EXCEPT !.fd = Lowest(s.t)]>>
\* A FileHandle that is closed is left alone.
CloseFd(s, o) ==
  IF s.w.from = "handle" /\ ~s.handle THEN <<s, o>>
  ELSE IF s.t[o.fd] = "free" THEN <<s, Failed(o)>>
  ELSE <<[Used(s, o) EXCEPT !.t[o.fd] = "free", !.handle = FALSE], IF s.w.fails = "close" THEN Failed(o) ELSE o>>

\* The bytes of a read: all that are asked for and there, or one by one.
ReadBytes(s, o) ==
  LET at == IF s.pos >= 0 THEN s.pos ELSE s.off
      there == Max({0, Min({o.n, FileLength - at})})
      n == IF s.w.from = "custom" THEN Min({1, there}) ELSE there
  IN  IF ~Usable(s, o) \/ s.w.fails = "read" THEN <<s, Failed(o)>>
      ELSE <<[Used(s, o) EXCEPT !.off = IF s.pos >= 0 THEN @ ELSE @ + n], [o EXCEPT !.n = n]>>
\* What is written lies where it was to lie, or at the end of what was.
Overwritten(file, at, ids) ==
  [i \in 1 .. Max({Len(file), at + Len(ids)}) |->
    IF i \in at + 1 .. at + Len(ids) THEN ids[i - at] ELSE IF i <= Len(file) THEN file[i] ELSE 0]
\* o.n is the position, or -1.
WriteBytes(s, o) ==
  LET at == IF o.n >= 0 THEN o.n ELSE s.off
  IN  IF ~Usable(s, o) \/ s.w.fails = "write" THEN <<s, Failed(o)>>
      ELSE <<[Used(s, o) EXCEPT !.file = Overwritten(@, at, s.flight), !.off = IF o.n >= 0 THEN @ ELSE at + Len(s.flight)], o>>
SyncFile(s, o) == IF ~Usable(s, o) \/ s.w.fails = "sync" THEN <<s, Failed(o)>> ELSE <<Used(s, o), [o EXCEPT !.n = Len(s.file)]>>
Perform(s, o) ==
  CASE o.op = "open" -> OpenFile(s, o) [] o.op = "close" -> CloseFd(s, o) [] o.op = "read" -> ReadBytes(s, o)
    [] o.op = "write" -> WriteBytes(s, o) [] o.op = "sync" -> SyncFile(s, o) [] OTHER -> <<s, o>>
Issue(s, o) ==
  IF s.w.from = "custom" THEN [s EXCEPT !.ops = Append(@, o)]
  ELSE LET p == Perform(s, o) IN [p[1] EXCEPT !.ops = Append(@, p[2])]

\* _read: as far as end, which is inclusive.
Wanted(s) == Min({s.w.end - (IF s.pos >= 0 THEN s.pos ELSE s.bytes) + 1, ChunkLength})
FileRead(s) == IF s.fd = 0 THEN [s EXCEPT !.waits = Append(@, "read")]
                  ELSE Issue([s EXCEPT !.io = TRUE], Op("read", s.fd, Wanted(s)))
\* _write and _writev; pos moves on when the write is asked for.
FileWrite(s) ==
  IF s.fd = 0 THEN [s EXCEPT !.waits = Append(@, "write")]
  ELSE [Issue([s EXCEPT !.io = TRUE], Op("write", s.fd, s.pos))
         EXCEPT !.pos = IF @ >= 0 THEN @ + Len(s.flight) ELSE @]
\* _final; without flush the finish is a tick away.
FileFinal(s) ==
  IF s.fd = 0 THEN [s EXCEPT !.waits = Append(@, "final")]
  ELSE IF s.w.flush THEN Issue(s, Op("sync", s.fd, 0))
  ELSE [s EXCEPT !.ops = Append(@, Op("finish", 0, 0))]
FileWaiting(s, what) ==
  CASE what = "final" -> FileFinal(s) [] what = "write" -> FileWrite(s) [] OTHER -> FileRead(s)
\* closeStream; the stream is closed when its answer comes.
CloseStream(s) ==
  IF s.fd = 0 THEN [s EXCEPT !.closed = TRUE]
  ELSE Issue([s EXCEPT !.fd = 0], Op("close", s.fd, 0))
DestroyImpl(s) ==
  LET d == [s EXCEPT !.destroyed = TRUE]
  IN  IF s.destroyed THEN s
      ELSE IF s.opening THEN [d EXCEPT !.waits = Append(@, "destroy")]
      ELSE IF s.io THEN [d EXCEPT !.ioWait = TRUE]
      ELSE CloseStream(d)
\* openStream, in a tick.
OpenStream(s) ==
  IF s.destroyed THEN s ELSE Issue([s EXCEPT !.opening = TRUE], Op("open", 0, 0))
\* Its answer: what waits runs in the order it came.  The listener of 'open'
\* may destroy the stream.
OpenDone(s, o, destroys) ==
  LET answered == [s EXCEPT !.opening = FALSE, !.waits = <<>>]
      opened == [answered EXCEPT !.fd = o.fd]
      told == IF destroys /\ ~s.destroyed THEN DestroyImpl(opened) ELSE opened
      run(x, what) == IF what = "destroy" THEN CloseStream(x) ELSE FileWaiting(x, what)
  IN  IF o.ok THEN FoldLeft(run, told, s.waits)
      ELSE [answered EXCEPT !.destroyed = TRUE, !.closed = TRUE]
\* The answer of a read or a write to a stream that was destroyed.
IoDone(s) ==
  IF s.ioWait THEN CloseStream([s EXCEPT !.io = FALSE, !.ioWait = FALSE]) ELSE [s EXCEPT !.io = FALSE]
\* Which answer may come next.
Answers(s) == IF s.w.from = "custom" THEN DOMAIN s.ops ELSE {1} \cap DOMAIN s.ops
\* A stream over functions of the user's is destroyed while what waits for the
\* open has yet to use the descriptor that destroy() will close, or while its
\* fsync runs, which destroy() does not wait for.
Early(s) == s.w.from = "custom" /\ ((s.opening /\ s.waits # <<>>) \/ \E i \in DOMAIN s.ops : s.ops[i].op = "sync")
MayDestroy(s) == s.calls < MaxFileCalls /\ (Early(s) => Careless)
\* The user closes the FileHandle himself.
HandleCloses(s) == [s EXCEPT !.handle = FALSE, !.t[1] = "free"]

-----------------------------------------------------------------------------
(* ReadStream *)

NoEnd == 99
FRInit == \E w \in ReadWorlds :
  fr = [s |-> StreamOf(w), reading |-> FALSE, ended |-> FALSE, got |-> <<>>, failed |-> FALSE]

\* At the end of the range, push(null).
FRWants ==
  /\ ~fr.reading /\ ~fr.ended /\ ~fr.s.destroyed /\ ~fr.failed
  /\ fr' = IF fr.s.fd # 0 /\ Wanted(fr.s) <= 0 THEN [fr EXCEPT !.ended = TRUE]
           ELSE [fr EXCEPT !.reading = TRUE, !.s = FileRead(@)]
\* The user: destroy() or close() at any time, and his handle.
FRDestroys ==
  MayDestroy(fr.s) /\ fr' = [fr EXCEPT !.s = DestroyImpl([@ EXCEPT !.calls = @ + 1])]
FRHandleCloses == fr.s.handle /\ fr.s.calls < MaxFileCalls /\ fr' = [fr EXCEPT !.s = HandleCloses([@ EXCEPT !.calls = @ + 1])]
FRStranger == fr.s.calls < MaxFileCalls /\ fr' = [fr EXCEPT !.s = StrangerOpens([@ EXCEPT !.calls = @ + 1])]
\* autoDestroy, once 'end' was emitted.
FREnds == fr.ended /\ fr.s.w.auto /\ ~fr.s.destroyed /\ fr' = [fr EXCEPT !.s = DestroyImpl(@)]

ReadDone(r, s, o) ==
  LET idle == [s EXCEPT !.io = FALSE]
  IN  IF s.destroyed THEN [r EXCEPT !.s = IoDone(s)]
      ELSE IF ~o.ok THEN [r EXCEPT !.failed = TRUE, !.s = IF s.w.auto THEN DestroyImpl(idle) ELSE idle]
      ELSE IF o.n = 0 THEN [r EXCEPT !.s = idle, !.reading = FALSE, !.ended = TRUE]
      ELSE LET from == IF s.pos >= 0 THEN s.pos ELSE s.bytes
           IN  [r EXCEPT !.s = [idle EXCEPT !.pos = IF @ >= 0 THEN @ + o.n ELSE @, !.bytes = @ + o.n], !.reading = FALSE,
                         !.got = @ \o [i \in 1 .. o.n |-> from + i - 1]]
FRAnswer ==
  \E i \in Answers(fr.s), destroys \in {FALSE, fr.s.calls < MaxFileCalls} :
    LET taken == [fr.s EXCEPT !.ops = RemoveAt(@, i)]
        p == IF taken.w.from = "custom" THEN Perform(taken, fr.s.ops[i]) ELSE <<taken, fr.s.ops[i]>>
        o == p[2]
    IN  fr' = CASE o.op = "begin" -> [fr EXCEPT !.s = OpenStream(p[1])]
                [] o.op = "open" ->
                     [fr EXCEPT !.s = OpenDone(p[1], o, destroys)]
                [] o.op = "read" -> ReadDone(fr, p[1], o)
                [] OTHER -> [fr EXCEPT !.s.closed = TRUE, !.s.t = p[1].t, !.s.foreign = p[1].foreign, !.s.ops = p[1].ops]
FRNext == FRWants \/ FRDestroys \/ FRHandleCloses \/ FRStranger \/ FREnds \/ FRAnswer
FRWork == FRAnswer \/ FREnds
FRSettled == fr.s.ops = <<>> /\ (fr.s.destroyed => fr.s.closed)

\* What is read is the file from start to end, in order, each byte once; at
\* the end of the stream all of it.
RangeRead ==
  LET w == fr.s.w first == Max({w.start, 0}) count == Max({0, Min({w.end, FileLength - 1}) - first + 1})
  IN  /\ fr.got = [i \in DOMAIN fr.got |-> first + i - 1] /\ Len(fr.got) <= count
      /\ fr.ended => Len(fr.got) = count
\* A descriptor is used and closed while it is the stream's own, and a closed
\* stream has given it up.
OwnDescriptor(s) == ~s.foreign /\ (s.closed => \A n \in DOMAIN s.t : s.t[n] # "mine")


-----------------------------------------------------------------------------
(* WriteStream, seen from its Writable: one _write or _writev at a time, of  *)
(* all that is buffered; _final when all is answered and end() was called    *)

\* Chunks are numbers in the order they are written, each one byte long.
FWInit == \E w \in WriteWorlds :
  fw = [s |-> StreamOf(w), next |-> 1, queue |-> <<>>, acked |-> <<>>, ending |-> FALSE, final |-> "no",
        finished |-> FALSE, synced |-> 0, failed |-> FALSE, onFinish |-> FALSE]

\* Nothing in flight: what is buffered, or the end.
GoOn(x) ==
  IF x.s.destroyed \/ x.failed \/ x.s.flight # <<>> THEN x
  ELSE IF x.queue # <<>> THEN [x EXCEPT !.queue = <<>>, !.s = FileWrite([@ EXCEPT !.flight = x.queue])]
  ELSE IF x.ending /\ x.final = "no" THEN [x EXCEPT !.final = "running", !.s = FileFinal(@)]
  ELSE x
\* errorOrDestroy
FWErrors(x) == [x EXCEPT !.failed = TRUE, !.queue = <<>>, !.s = IF x.s.w.auto THEN DestroyImpl(@) ELSE @]

FWCalls == fw.s.calls < MaxFileCalls
FWWrites ==
  /\ FWCalls /\ ~fw.ending /\ ~fw.s.destroyed /\ ~fw.failed
  /\ fw' = GoOn([fw EXCEPT !.next = @ + 1, !.queue = Append(@, fw.next), !.s.calls = @ + 1])
\* end(), destroySoon() and close(), which destroys at 'finish' if autoClose
\* does not.
FWEnds ==
  /\ FWCalls /\ ~fw.ending /\ ~fw.s.destroyed /\ ~fw.failed
  /\ \E close \in BOOLEAN :
       fw' = GoOn([fw EXCEPT !.ending = TRUE, !.onFinish = close /\ ~fw.s.w.auto, !.s.calls = @ + 1])
FWDestroys ==
  MayDestroy(fw.s) /\ fw' = [fw EXCEPT !.queue = <<>>, !.s = DestroyImpl([@ EXCEPT !.calls = @ + 1])]
FWHandleCloses == fw.s.handle /\ FWCalls /\ fw' = [fw EXCEPT !.s = HandleCloses([@ EXCEPT !.calls = @ + 1])]
FWStranger == FWCalls /\ fw' = [fw EXCEPT !.s = StrangerOpens([@ EXCEPT !.calls = @ + 1])]

\* done: the callback first, and then who waits to destroy.
WriteDone(x, s, o) ==
  LET idle == [x EXCEPT !.s = [s EXCEPT !.io = FALSE, !.flight = <<>>], !.acked = IF o.ok THEN @ \o s.flight ELSE @]
  IN  IF s.destroyed THEN [idle EXCEPT !.failed = @ \/ ~o.ok, !.s = IoDone([s EXCEPT !.flight = <<>>])]
      ELSE IF ~o.ok THEN FWErrors(idle)
      ELSE GoOn(idle)
SyncDone(x, s, o) ==
  IF ~o.ok THEN FWErrors([x EXCEPT !.s = s])
  ELSE IF s.destroyed THEN [x EXCEPT !.s = s]
  ELSE [x EXCEPT !.synced = o.n, !.s = [s EXCEPT !.ops = Append(@, Op("finish", 0, 0))]]
FinishEmitted(x, s) ==
  LET done == [x EXCEPT !.finished = TRUE, !.final = "done", !.s = s]
  IN  IF s.w.auto \/ x.onFinish THEN [done EXCEPT !.s = DestroyImpl(@)] ELSE done
FWAnswer ==
  \E i \in Answers(fw.s), destroys \in {FALSE, FWCalls} :
    LET taken == [fw.s EXCEPT !.ops = RemoveAt(@, i)]
        p == IF taken.w.from = "custom" THEN Perform(taken, fw.s.ops[i]) ELSE <<taken, fw.s.ops[i]>>
        o == p[2]
    IN  fw' = CASE o.op = "begin" -> [fw EXCEPT !.s = OpenStream(p[1])]
                [] o.op = "open" ->
                     [fw EXCEPT !.s = OpenDone(p[1], o, destroys),
                                !.queue = IF o.ok THEN @ ELSE <<>>]
                [] o.op = "write" -> WriteDone(fw, p[1], o)
                [] o.op = "sync" -> SyncDone(fw, p[1], o)
                [] o.op = "finish" -> FinishEmitted(fw, p[1])
                [] OTHER -> [fw EXCEPT !.s = [p[1] EXCEPT !.closed = TRUE]]
FWNext == FWWrites \/ FWEnds \/ FWDestroys \/ FWHandleCloses \/ FWStranger \/ FWAnswer
FWWork == FWAnswer
FWSettled == fw.s.ops = <<>> /\ (fw.s.destroyed => fw.s.closed)

\* A chunk that was acknowledged is in the file, at its place; 'finish' says
\* that all are, and on the disk if the stream flushes.
FileWritten ==
  LET first == Max({fw.s.w.start, 0}) there(n) == \A i \in 1 .. n : first + i <= Len(fw.s.file) /\ fw.s.file[first + i] = i
  IN  /\ fw.acked = [i \in DOMAIN fw.acked |-> i] /\ there(Len(fw.acked))
      /\ fw.finished => Len(fw.acked) = fw.next - 1 /\ (fw.s.w.flush => fw.synced = Len(fw.s.file))

-----------------------------------------------------------------------------
(* Utf8Stream *)

\* t: descriptors, "old" for files that reopen() left; ticks: what
\* process.nextTick holds; ready: listeners of 'ready'; wrong: a write went to
\* a descriptor that is not the stream's.
FUInit == \E w \in LogWorlds :
  fu = [w |-> w, t |-> IF w.from = "fd" THEN Given(NoFds, "mine") ELSE NoFds, fd |-> IF w.from = "fd" THEN 1 ELSE 0,
        buf |-> <<>>, file |-> <<>>, next |-> 1, lost |-> FALSE, ready |-> <<>>,
        ticks |-> <<IF w.from = "fd" THEN "ready" ELSE "open">>, ending |-> FALSE, finished |-> FALSE,
        destroyed |-> FALSE, wrong |-> FALSE, failed |-> FALSE, calls |-> 0]

\* _flushNow: what cannot be written is dropped.
FlushNow(u) ==
  IF u.fd = 0 \/ u.buf = <<>> THEN u
  ELSE LET mine == u.t[u.fd] = "mine"
           fails == u.w.fails = "write" /\ ~u.failed
       IN  [u EXCEPT !.buf = <<>>, !.wrong = @ \/ ~mine, !.failed = @ \/ fails, !.lost = @ \/ fails \/ ~mine,
                     !.file = IF fails \/ ~mine THEN @ ELSE @ \o u.buf]
CloseLog(u) ==
  IF u.destroyed THEN u
  ELSE [u EXCEPT !.destroyed = TRUE, !.t = IF u.fd # 0 /\ @[u.fd] = "mine" THEN [@ EXCEPT ![u.fd] = "free"] ELSE @]
FinishLog(u) == CloseLog([FlushNow(u) EXCEPT !.finished = TRUE])
\* 'ready': flush() and end() that came before the descriptor.
LogReady(u) ==
  FoldLeft(LAMBDA x, what : IF what = "finish" THEN FinishLog(x) ELSE FlushNow(x), [u EXCEPT !.ready = <<>>], u.ready)
OpenLog(u) ==
  IF u.w.fails = "open" \/ ~HasFree(u.t) THEN u ELSE LogReady([u EXCEPT !.t = Given(@, "mine"), !.fd = Lowest(u.t)])

\* What a program should leave alone: a stream that waits for its descriptor
\* or that has data it did not write is not destroyed, and one that waits, whose
\* first 'ready' is to come or that ends is not reopened.
Gentle(u) == u.fd # 0 /\ ~u.ending /\ u.buf = <<>> /\ u.ticks = <<>>
FUCalls == fu.calls < MaxFileCalls
FULog ==
  /\ FUCalls /\ ~fu.destroyed
  /\ fu' = LET more == [fu EXCEPT !.buf = Append(@, fu.next), !.next = @ + 1, !.calls = @ + 1]
           IN  IF more.fd # 0 /\ Len(more.buf) >= fu.w.min THEN FlushNow(more) ELSE more
FUFlush ==
  /\ FUCalls /\ (fu.destroyed => fu.buf = <<>> \/ Careless)
  /\ fu' = LET called == [fu EXCEPT !.calls = @ + 1]
           IN  IF fu.fd = 0 THEN [called EXCEPT !.ready = Append(@, "flush")] ELSE FlushNow(called)
FUReopen ==
  /\ FUCalls /\ ~fu.destroyed /\ (Gentle(FlushNow(fu)) \/ Careless)
  /\ fu' = LET flushed == FlushNow([fu EXCEPT !.calls = @ + 1])
               left == [flushed EXCEPT !.fd = 0, !.t = IF fu.fd = 0 THEN @ ELSE [@ EXCEPT ![fu.fd] = "free"]]
           IN  IF fu.w.sync THEN OpenLog(left) ELSE [left EXCEPT !.ticks = Append(@, "open")]
FUEnd ==
  /\ FUCalls /\ ~fu.destroyed /\ ~fu.ending
  /\ fu' = LET called == [fu EXCEPT !.ending = TRUE, !.calls = @ + 1]
           IN  IF fu.fd = 0 THEN [called EXCEPT !.ready = Append(@, "finish")]
               ELSE [called EXCEPT !.ticks = Append(@, "finish")]
FUDestroy == FUCalls /\ (Gentle(fu) \/ Careless) /\ fu' = CloseLog([fu EXCEPT !.calls = @ + 1])
FUStranger == FUCalls /\ fu' = [StrangerOpens(fu) EXCEPT !.calls = @ + 1]
FUTick ==
  /\ fu.ticks # <<>>
  /\ LET after == [fu EXCEPT !.ticks = Tail(@)]
     IN  fu' = CASE Head(fu.ticks) = "open" -> OpenLog(after)
                 [] Head(fu.ticks) = "finish" -> FinishLog(after)
                 [] OTHER -> LogReady(after)
FUNext == FULog \/ FUFlush \/ FUReopen \/ FUEnd \/ FUDestroy \/ FUStranger \/ FUTick
FUSettled ==
  fu.ticks = <<>> /\ (fu.ending /\ fu.w.fails # "open" => fu.finished \/ fu.destroyed)

\* What was logged is in the files in its order, each once; after 'finish'
\* all of it, unless a write failed; no write to what the stream does not own,
\* and no descriptor outlives it.
LogWritten ==
  LET all == fu.file \o fu.buf
  IN  /\ \A i, j \in DOMAIN all : i < j => all[i] < all[j]
      /\ ~fu.lost => all = [i \in 1 .. fu.next - 1 |-> i]
      /\ fu.finished => fu.buf = <<>>
      /\ ~fu.wrong /\ (fu.destroyed => \A n \in Fds : fu.t[n] # "mine") /\ Cardinality({n \in Fds : fu.t[n] = "mine"}) <= 1

-----------------------------------------------------------------------------
(* cp *)

\* A tree maps paths (sequences of names, which are numbers) to "dir", "link" or a file's
\* contents.  A filter that answers later lets other code run.
Unlinked(tree, p) == [q \in DOMAIN tree \ {p} |-> tree[q]]
Under(p, q) == Len(q) = Len(p) + 1 /\ Front(q) = p
Parent(tree, p) == p = <<>> \/ (Front(p) \in DOMAIN tree /\ tree[Front(p)] = "dir")
FCInit == \E w \in CopyWorlds :
  fc = [w |-> w, src |-> w.tree, dest |-> w.dest, todo |-> <<<<>>>>, asking |-> FALSE, state |-> "running", touched |-> FALSE]

\* readdir's order is the names'.
Children(tree, p) ==
  LET below == {q \in DOMAIN tree : Under(p, q)}
  IN  SetToSortSeq(below, LAMBDA a, b : Last(a) < Last(b))
Stop(c, how) == [c EXCEPT !.state = how, !.todo = <<>>]
\* cpGen's checks, of the first entry only; a path through what is no
\* directory cannot be looked up, and what is unlinked must be no directory.
Refused(c, p) ==
  LET s == c.src[p] d == c.dest[p] there == p \in DOMAIN c.dest
  IN  \/ p = <<>> /\ there /\ (s = "dir") # (d = "dir")
      \/ ~Parent(c.dest, p)
      \/ s # "dir" /\ there /\ d = "dir" /\ (c.w.force \/ s = "link")
      \/ s \notin {"dir", "link"} /\ there /\ ~c.w.force /\ c.w.strict
\* cpEntry: a directory, a link, a file.
CopyEntry(c, p) ==
  LET s == c.src[p] there == p \in DOMAIN c.dest
      rest == [c EXCEPT !.todo = Tail(@)]
      copied == [rest EXCEPT !.dest = p :> s @@ @]
  IN  IF Refused(c, p) THEN Stop(c, "failed")
      ELSE IF s = "dir" THEN [(IF there THEN rest ELSE copied) EXCEPT !.todo = Children(c.src, p) \o @]
      ELSE IF s = "link" \/ ~there \/ c.w.force THEN copied
      ELSE rest
\* One entry: the filter is asked, and when it has answered the entry is
\* copied, if it is still there.
FCAsk == fc.todo # <<>> /\ ~fc.asking /\ fc' = [fc EXCEPT !.asking = TRUE]
FCEntry ==
  /\ fc.asking
  /\ LET p == Head(fc.todo) answered == [fc EXCEPT !.asking = FALSE]
     IN  fc' = IF p \in fc.w.filter THEN [answered EXCEPT !.todo = Tail(@)]
               ELSE IF p \notin DOMAIN fc.src THEN Stop(answered, "failed")
               ELSE CopyEntry(answered, p)
FCDone == fc.todo = <<>> /\ fc.state = "running" /\ fc' = [fc EXCEPT !.state = "done"]
\* Other code, while the filter thinks: an entry that is no directory goes.
FCTouched ==
  /\ fc.asking /\ ~fc.touched
  /\ \E p \in DOMAIN fc.src : fc.src[p] # "dir" /\ fc' = [fc EXCEPT !.src = Unlinked(@, p), !.touched = TRUE]
FCNext == FCAsk \/ FCEntry \/ FCDone \/ FCTouched

\* What cp() leaves when nobody interferes: the entries that no filter stops,
\* over what was there; what the filter stops is not touched.
Passes(w, p) == \A n \in 0 .. Len(p) : SubSeq(p, 1, n) \notin w.filter
Copied(w) == {p \in DOMAIN w.tree : Passes(w, p) /\ (p \in DOMAIN w.dest /\ w.tree[p] \notin {"dir", "link"} => w.force)}
CopiedTree ==
  /\ \A p \in DOMAIN fc.dest : p \in Copied(fc.w) \/ (p \in DOMAIN fc.w.dest /\ fc.dest[p] = fc.w.dest[p])
  /\ \A p \in DOMAIN fc.dest : Parent(fc.dest, p)
  /\ fc.state = "done" /\ ~fc.touched =>
       fc.dest = [p \in Copied(fc.w) \cup DOMAIN fc.w.dest |-> IF p \in Copied(fc.w) THEN fc.w.tree[p] ELSE fc.w.dest[p]]

-----------------------------------------------------------------------------
(* fs.promises.watch *)

\* One generator: queue, wake (the promise it waits on), and its consumer,
\* which asks for the next event, or returns.
FPInit == fp = [queue |-> <<>>, wake |-> FALSE, runs |-> FALSE, error |-> FALSE, aborted |-> FALSE, seen |-> 0,
                got |-> <<>>, state |-> "open", returning |-> FALSE, calls |-> 0]
\* notify: who waits goes on in a later job.
WakeUp(x) == [x EXCEPT !.wake = FALSE, !.runs = @ \/ x.wake]
FPChange == fp.state = "open" /\ fp.calls > 0 /\ fp.seen < MaxFileCalls /\ fp' = WakeUp([fp EXCEPT !.seen = @ + 1, !.queue = Append(@, fp.seen + 1)])
FPError == fp.state = "open" /\ fp.calls > 0 /\ ~fp.error /\ fp' = WakeUp([fp EXCEPT !.error = TRUE])
FPAbort == fp.state = "open" /\ ~fp.aborted /\ fp' = WakeUp([fp EXCEPT !.aborted = TRUE])
FPAsks == fp.state = "open" /\ ~fp.runs /\ ~fp.wake /\ fp.calls < MaxFileCalls /\ fp' = [fp EXCEPT !.runs = TRUE, !.calls = @ + 1]
\* return() of a generator that is suspended at its yield.
FPReturns == fp.state = "open" /\ ~fp.runs /\ ~fp.wake /\ fp' = [fp EXCEPT !.state = "returned"]
\* The loop: an error first, an abort, an event, or to wait.
FPRuns ==
  /\ fp.runs
  /\ LET x == [fp EXCEPT !.runs = FALSE]
     IN  fp' = IF x.error THEN [x EXCEPT !.state = "failed"]
               ELSE IF x.aborted THEN [x EXCEPT !.state = "aborted"]
               ELSE IF x.queue # <<>> THEN [x EXCEPT !.queue = Tail(@), !.got = Append(@, Head(x.queue))]
               ELSE [x EXCEPT !.wake = TRUE]
FPNext == FPChange \/ FPError \/ FPAbort \/ FPAsks \/ FPReturns \/ FPRuns

\* Events in order, none twice; who waits has nothing to take.
EventsWatched ==
  /\ fp.got \o fp.queue = [i \in 1 .. fp.seen |-> i]
  /\ fp.wake => fp.queue = <<>> /\ ~fp.error /\ ~fp.aborted
FPSettled == ~fp.runs /\ (fp.error \/ fp.aborted => ~fp.wake)

-----------------------------------------------------------------------------
(* The calls below the streams *)

\* parseIOParams: what of a buffer a call may touch, or a range error.
IoParams(offset, length, size) ==
  LET count == IF length < 0 THEN size - offset ELSE length
      ok == offset \in 0 .. size /\ count >= 0 /\ offset + count <= size
  IN  [ok |-> ok, first |-> offset, count |-> count]
\* readv: one buffer after the other, until one is not filled; from a
\* position, or where the descriptor stands.
ReadV(sizes, position, length) ==
  FoldLeft(LAMBDA x, size :
             IF x.stop \/ size = 0 THEN x
             ELSE LET n == Min({size, Max({0, length - (position + x.total)})})
                  IN  [total |-> x.total + n, stop |-> n < size],
           [total |-> 0, stop |-> FALSE], sizes).total
\* mkdir with recursive: the missing directories from the top down; its
\* answer is the first of them.
MakeDirs(tree, p) ==
  LET missing == {n \in 1 .. Len(p) : SubSeq(p, 1, n) \notin DOMAIN tree}
      made == {SubSeq(p, 1, n) : n \in missing}
      blocked == \E n \in (1 .. Len(p)) \ missing : tree[SubSeq(p, 1, n)] # "dir"
  IN  IF blocked THEN [ok |-> FALSE, tree |-> tree, first |-> <<>>]
      ELSE [ok |-> TRUE, tree |-> [q \in made |-> "dir"] @@ tree,
            first |-> IF missing = {} THEN <<>> ELSE SubSeq(p, 1, Min(missing))]
\* rm: without recursive no directory, with force no complaint of what is
\* not there.
RemoveTree(tree, p, recursive, force) ==
  IF p \notin DOMAIN tree THEN [ok |-> force, tree |-> tree]
  ELSE IF tree[p] = "dir" /\ ~recursive THEN [ok |-> FALSE, tree |-> tree]
  ELSE [ok |-> TRUE, tree |-> [q \in {q \in DOMAIN tree : ~IsPrefix(p, q)} |-> tree[q]]]

\* Reads and writes stay inside the buffer; readv reads what one read of the
\* same size would; a tree stays a tree whatever is made or removed in it.
CallsWithin ==
  /\ \A offset \in -1 .. 3, length \in -2 .. 3, size \in 0 .. 2 :
       LET p == IoParams(offset, length, size) IN p.ok => p.first >= 0 /\ p.count >= 0 /\ p.first + p.count <= size
  /\ \A a, b, c \in 0 .. 2, position \in 0 .. 4 :
       ReadV(<<a, b, c>>, position, FileLength) = Min({a + b + c, Max({0, FileLength - position})})
  /\ LET trees == {w.dest : w \in CopyWorlds} \cup {w.tree : w \in CopyWorlds}
         paths == UNION {DOMAIN tree : tree \in trees} \cup {p \o <<4, 5>> : p \in UNION {DOMAIN tree : tree \in trees}}
         whole(tree) == \A q \in DOMAIN tree : Parent(tree, q)
     IN  \A tree \in trees, p \in paths :
           /\ LET m == MakeDirs(tree, p)
              IN  (<<>> \in DOMAIN tree /\ p # <<>>) =>
                    whole(m.tree) /\ (m.ok => m.tree[p] = "dir")
                    /\ (m.first # <<>> => m.first \notin DOMAIN tree /\ Front(m.first) \in DOMAIN tree)
           /\ \A recursive, force \in BOOLEAN :
                LET r == RemoveTree(tree, p, recursive, force)
                IN  whole(r.tree) /\ (r.ok => p \notin DOMAIN r.tree)


=============================================================================
