--------------------------------- MODULE Wasm ---------------------------------
(***************************************************************************)
(* WebAssembly over wazero (webassembly_global.go): the linear memory of   *)
(* an instance and the ArrayBuffers JavaScript sees it through, which are  *)
(* copies (wasmMemoryBridge), and the table whose JavaScript values live   *)
(* in a registry of handles (wasmTableBridge).                             *)
(*                                                                         *)
(* One cell stands for a page.  truth is what the standard says the        *)
(* memory, or the table, holds: every write by either side goes to it.     *)
(* The stack of calls alternates between wasm ("start", "export") and      *)
(* JavaScript ("import", and "convert" for a valueOf() that runs while an  *)
(* export's arguments are converted); JavaScript is at the bottom.         *)
(***************************************************************************)
EXTENDS Integers, Sequences, FiniteSets, TLC, SequencesExt

CONSTANTS
  MemoryNames,   \* the names one memory is exported under
  MaxPages,      \* bound: the memory's maximum
  MaxDepth,      \* bound: calls inside calls
  MaxMemoryOps,  \* bound: writes, grows and calls
  MaxSlots,      \* the table's maximum
  MaxTableOps,   \* bound: calls on the table
  Hasty          \* what the program does that the copies do not survive, see
                 \* below: a subset of {"grow", "convert", "failed", "fill"}

ASSUME WasmAssumption ==
  /\ {MaxPages, MaxDepth, MaxMemoryOps, MaxSlots, MaxTableOps} \subseteq Nat /\ MaxPages > 0
  /\ Hasty \subseteq {"grow", "convert", "failed", "fill"}

VARIABLES wm, wt

-----------------------------------------------------------------------------
(* wasmMemoryBridge *)

\* ab is the ArrayBuffer that was handed out, NoBuffer when there is none;
\* view says that JavaScript kept a view of it.
NoBuffer == <<>>
NewBridge == [ab |-> NoBuffer, view |-> FALSE, dirty |-> FALSE, size |-> 0]
WMInit == wm = [mem |-> <<0>>, truth |-> <<0>>, bridges |-> [n \in {} |-> NewBridge], stack |-> <<"start">>,
                instance |-> "starting", distrust |-> FALSE, ops |-> 0]

\* Bridges whose size is not the memory's lose their buffer, and with it
\* every view.
DetachIfGrown(b, size) ==
  IF size = b.size THEN b ELSE [b EXCEPT !.ab = NoBuffer, !.view = FALSE, !.size = size, !.dirty = TRUE]
ForceSyncIn(mem, b) == IF b.ab = NoBuffer THEN mem ELSE [i \in DOMAIN mem |-> IF i \in DOMAIN b.ab THEN b.ab[i] ELSE mem[i]]
SyncIn(mem, b) == IF b.dirty THEN mem ELSE ForceSyncIn(mem, b)
SyncOut(mem, b) ==
  LET d == DetachIfGrown(b, Len(mem))
  IN  IF d.ab = NoBuffer THEN d ELSE [d EXCEPT !.ab = mem, !.dirty = FALSE]
BufferValue(mem, b) ==
  LET d == DetachIfGrown(b, Len(mem))
  IN  IF d.ab # NoBuffer /\ ~d.dirty THEN d ELSE [d EXCEPT !.ab = mem, !.dirty = FALSE]

\* For every bridge, in the order of the exports.
AllIn(w, force) ==
  FoldSet(LAMBDA n, mem : IF force THEN ForceSyncIn(mem, w.bridges[n]) ELSE SyncIn(mem, w.bridges[n]), w.mem, DOMAIN w.bridges)
AllOut(w) == [w EXCEPT !.bridges = [n \in DOMAIN @ |-> SyncOut(w.mem, @[n])]]

-----------------------------------------------------------------------------
(* Calls *)

TopFrame(w) == IF w.stack = <<>> THEN "script" ELSE Last(w.stack)
InJS(w) == TopFrame(w) \in {"script", "import", "convert"}
InWasm(w) == TopFrame(w) \in {"start", "export"}
PushFrame(w, frame) == [w EXCEPT !.stack = Append(@, frame)]
Pop(w) == [w EXCEPT !.stack = Front(@)]
MemoryOp == wm.ops < MaxMemoryOps /\ wm.instance # "failed"
Did(w) == [w EXCEPT !.ops = @ + 1]
\* What JavaScript has written and wasm's memory does not hold yet.
Uncommitted(w) == \E n \in DOMAIN w.bridges : w.bridges[n].ab # NoBuffer /\ ~w.bridges[n].dirty /\ w.mem # w.truth

\* The start function runs before there are exports, and so before there is
\* a bridge; an exception out of it is a LinkError.
Instantiated ==
  /\ TopFrame(wm) = "start" /\ wm.instance = "starting"
  /\ wm' = [Pop(wm) EXCEPT !.instance = "made", !.bridges = [n \in MemoryNames |-> NewBridge]]

\* instance.exports.memory.buffer, and a Uint8Array of it that is kept.
Fetch(n) ==
  /\ MemoryOp /\ InJS(wm) /\ n \in DOMAIN wm.bridges
  /\ wm' = [Did(wm) EXCEPT !.bridges[n] = [BufferValue(wm.mem, @) EXCEPT !.view = TRUE]]
\* Each write is of a value of its own.
WriteView(n, i) ==
  /\ MemoryOp /\ InJS(wm) /\ n \in DOMAIN wm.bridges /\ wm.bridges[n].view /\ i \in DOMAIN wm.bridges[n].ab
  /\ ~wm.bridges[n].dirty \/ "failed" \in Hasty
  /\ TopFrame(wm) = "convert" => "convert" \in Hasty
  /\ wm' = [Did(wm) EXCEPT !.bridges[n].ab[i] = wm.ops + 1, !.truth[i] = wm.ops + 1]
\* memory.grow(1) from JavaScript drops the buffer as it is.
GrowView(n) ==
  /\ MemoryOp /\ InJS(wm) /\ n \in DOMAIN wm.bridges /\ Len(wm.mem) < MaxPages
  /\ ~Uncommitted(wm) \/ "grow" \in Hasty
  /\ LET mem == Append(wm.mem, 0)
     IN  wm' = [Did(wm) EXCEPT !.mem = mem, !.truth = Append(@, 0), !.bridges[n] = DetachIfGrown(@, Len(mem))]

\* wrapWasmExportedFunction: commit, then convert the arguments, which may
\* fail, and fail with user code.
CallExport ==
  /\ MemoryOp /\ InJS(wm) /\ wm.instance = "made" /\ Len(wm.stack) < MaxDepth
  /\ LET in == [wm EXCEPT !.mem = AllIn(wm, FALSE), !.bridges = [n \in DOMAIN @ |-> [@[n] EXCEPT !.dirty = TRUE]]]
     IN  wm' = PushFrame(Did(in), "convert")
Converted == TopFrame(wm) = "convert" /\ wm' = PushFrame(Pop(wm), "export")
\* A number for an i64: the bridges stay dirty.
NotConverted == TopFrame(wm) = "convert" /\ wm' = Pop(wm)
\* It returns, or it traps.
Leave(w) == AllOut(Pop(w))
WasmReturns == TopFrame(wm) = "export" /\ wm' = Leave(wm)

WriteWasm(i) ==
  /\ MemoryOp /\ InWasm(wm) /\ i \in DOMAIN wm.mem
  /\ wm' = [Did(wm) EXCEPT !.mem[i] = wm.ops + 1, !.truth[i] = wm.ops + 1]
GrowWasm ==
  /\ MemoryOp /\ InWasm(wm) /\ Len(wm.mem) < MaxPages
  /\ wm' = [Did(wm) EXCEPT !.mem = Append(@, 0), !.truth = Append(@, 0)]

\* makeHostImportTrampoline
CallImport == MemoryOp /\ InWasm(wm) /\ Len(wm.stack) < MaxDepth /\ wm' = PushFrame(Did(AllOut(wm)), "import")
ImportReturns == TopFrame(wm) = "import" /\ wm' = Pop([wm EXCEPT !.mem = AllIn(wm, TRUE)])
\* The exception unwinds the wasm below, to the JavaScript that called it.
ImportThrows ==
  /\ TopFrame(wm) = "import"
  /\ LET back == Pop([wm EXCEPT !.mem = AllIn(wm, TRUE)])
     IN  wm' = IF TopFrame(back) = "start" THEN [Pop(back) EXCEPT !.instance = "failed"] ELSE Leave(back)

WMNext ==
  \/ \E n \in MemoryNames : Fetch(n) \/ GrowView(n) \/ \E i \in 1 .. MaxPages : WriteView(n, i)
  \/ \E i \in 1 .. MaxPages : WriteWasm(i)
  \/ Instantiated \/ CallExport \/ Converted \/ NotConverted \/ WasmReturns \/ GrowWasm
  \/ CallImport \/ ImportReturns \/ ImportThrows

\* webassembly_global.go:416-441: the copies are exchanged wherever JavaScript
\* and wasm can observe each other's writes.  While wasm runs, its memory holds
\* all that was written, by either side, in whatever nesting of calls and
\* with whatever exceptions.
WasmSeesWrites == InWasm(wm) => wm.mem = wm.truth
\* While JavaScript runs, every view it kept shows all that was written, and
\* a view of a memory that has grown since is detached.
ViewsSeeWrites == InJS(wm) => \A n \in DOMAIN wm.bridges : wm.bridges[n].view => wm.bridges[n].ab = wm.truth

-----------------------------------------------------------------------------
(* wasmTableBridge *)

\* refs are wazero's references, 0 for null, else a handle; registry has the
\* values, a value being a number, 0 for undefined.  left are the handles
\* that wasm has overwritten, which nobody releases.
WTInit == wt = [refs |-> <<>>, registry |-> [h \in {} |-> 0], next |-> 1, truth |-> <<>>, left |-> {}, ops |-> 0]
TableOp == wt.ops < MaxTableOps
TableDid(t) == [t EXCEPT !.ops = @ + 1]
DecodeHandle(t, raw) == IF raw \in DOMAIN t.registry THEN t.registry[raw] ELSE 0
EncodeHandle(t, v) == [t EXCEPT !.registry = t.next :> v @@ @, !.next = @ + 1]
Release(t, raw) == [t EXCEPT !.registry = [h \in DOMAIN @ \ {raw} |-> @[h]]]

TableSet(i, v) ==
  /\ TableOp
  /\ LET t == EncodeHandle(TableDid(wt), v)
     IN  wt' = IF i \notin DOMAIN t.refs THEN Release(t, wt.next)
               ELSE Release([t EXCEPT !.refs[i] = wt.next, !.truth[i] = v], wt.refs[i])
\* New slots share one handle; the next set() of one of them releases it.
TableGrow(delta, v) ==
  /\ TableOp /\ (delta > 1 => "fill" \in Hasty \/ v = 0)
  /\ LET t == EncodeHandle(TableDid(wt), v)
     IN  wt' = IF delta = 0 THEN TableDid(wt)
               ELSE IF Len(t.refs) + delta > MaxSlots THEN Release(t, wt.next)
               ELSE [t EXCEPT !.refs = @ \o [k \in 1 .. delta |-> wt.next], !.truth = @ \o [k \in 1 .. delta |-> v]]
\* table.set and table.grow of null, by wasm: the bridge does not see them.
WasmNulls(i) ==
  /\ TableOp /\ i \in DOMAIN wt.refs
  /\ wt' = [TableDid(wt) EXCEPT !.refs[i] = 0, !.truth[i] = 0, !.left = @ \cup ({wt.refs[i]} \ {0})]
WasmAllocates ==
  /\ TableOp /\ Len(wt.refs) < MaxSlots
  /\ wt' = [TableDid(wt) EXCEPT !.refs = Append(@, 0), !.truth = Append(@, 0)]
WTNext ==
  \/ \E v \in 0 .. 2 : (\E i \in 1 .. MaxSlots : TableSet(i, v)) \/ (\E delta \in 0 .. 2 : TableGrow(delta, v))
  \/ (\E i \in 1 .. MaxSlots : WasmNulls(i)) \/ WasmAllocates

\* webassembly_global.go:826-846: get() gives back the very value that was put
\* in last, by either side.
TableHolds == \A i \in DOMAIN wt.refs : DecodeHandle(wt, wt.refs[i]) = wt.truth[i]
\* Only handles that wasm has overwritten outlive their slot.
HandlesReleased == \A h \in DOMAIN wt.registry : h \in wt.left \/ \E i \in DOMAIN wt.refs : wt.refs[i] = h
=============================================================================
