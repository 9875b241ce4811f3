----------------------------- MODULE MCPrograms -----------------------------
(***************************************************************************)
(* What runs on the VM thread alone, or nearly: modules and their loaders, *)
(* event emitters, message ports, broadcast channels and locks, the        *)
(* context of asynchronous calls, compression, what is built on streams,   *)
(* files, serialization, observers, WebAssembly's memories and tables,     *)
(* ciphers and digests, paths and Buffers.  component says which one a     *)
(* behaviour is about.                                                     *)
(***************************************************************************)
EXTENDS Modules, Events, Ports, AsyncContext, Zlib, StreamOps, Files, Serdes, Observers, Wasm, Ciphers,
  Paths, Bytes

VARIABLE component

-----------------------------------------------------------------------------
(* File systems for the loaders *)

File(dir, name, ext) == [at |-> dir, name |-> name, ext |-> ext]
Rel(up, dir, name, ext) == [up |-> up, at |-> dir, name |-> name, ext |-> ext]
ByPath(r) == [form |-> "path", pkg |-> "", key |-> ".", path |-> r]
ByName(p) == [form |-> "package", pkg |-> p, key |-> ".", path |-> NoEntry]
Within(p, key, r) == [form |-> "package", pkg |-> p, key |-> key, path |-> r]
ByHash(key) == [form |-> "#", pkg |-> "", key |-> key, path |-> NoEntry]
At(e) == [kind |-> "path", to |-> e, of |-> <<>>]
EitherOf(of) == [kind |-> "any", to |-> NoEntry, of |-> [i \in DOMAIN of |-> [key |-> "", then |-> of[i]]]]
When(of) == [kind |-> "when", to |-> NoEntry, of |-> [i \in DOMAIN of |-> [key |-> of[i][1], then |-> of[i][2]]]]
NotATarget == [kind |-> "bad", to |-> NoEntry, of |-> <<>>]
P == <<"node_modules", "p">>
JS(name) == Rel(0, <<>>, name, ".js")

\* Two files of a package require each other, and a link in node_modules
\* that leads to itself makes each hop a different path.
Cycle ==
  LET a == File(<<>>, "a", ".js") index == File(P, "index", ".js") b == File(P, "b", ".js")
  IN  [files |-> {a, index, b}, entry |-> a,
       links |-> <<"node_modules", "node_modules">> :> <<"node_modules">>,
       packages |-> P :> NoPackage,
       source |-> [f \in {a, index, b} |-> "cjs"],
       specs |-> {ByName("p"), Within("p", "./b", Rel(0, <<>>, "b", ""))}]
\* A package with two builds behind conditions, in lists, under null, and
\* under several active keys, the general one first or last.
Conditions ==
  LET a == File(<<>>, "a", ".mjs") c == File(P, "c", ".cjs") m == File(P, "m", ".mjs") d == File(P, "data", ".json")
      main == EitherOf(<<When(<<<<"browser", At(JS("x"))>>,
                                <<"default", When(<<<<"import", At(JS("m"))>>>>)>>,
                                <<"require", At(JS("c"))>>>>), NotATarget, At(JS("c"))>>)
      first == When(<<<<"default", At(JS("c"))>>, <<"require", At(JS("m"))>>, <<"node", At(JS("m"))>>>>)
      last == When(<<<<"import", At(JS("m"))>>, <<"node", When(<<<<"default", At(NoEntry)>>, <<"require", At(JS("m"))>>>>)>>,
                     <<"default", At(JS("c"))>>>>)
      data == When(<<<<"node", At(NoEntry)>>, <<"default", At(Rel(0, <<>>, "data", ".json"))>>>>)
  IN  [files |-> {a, c, m, d}, entry |-> a, links |-> [e \in {} |-> e],
       packages |-> P :> [NoPackage EXCEPT !.main = JS("c"),
                            !.exports = [shape |-> "map", map |-> "." :> main @@ "./data" :> data @@ "./first" :> first
                                                                @@ "./last" :> last]],
       source |-> [f \in {a, c, m, d} |-> CASE f = d -> "json" [] f = c -> "cjs" [] OTHER -> "esm"],
       specs |-> {ByName("p"), Within("p", "./data", Rel(0, <<>>, "data", "")), ByPath(Rel(0, P, "c", ".cjs"))}]
\* Imports by "#", a directory's index, JSON that does not parse, main.
Scoped ==
  LET a == File(<<"s">>, "a", ".mjs") b == File(<<"s", "lib">>, "index", ".js")
      q == File(<<"s", "node_modules", "q">>, "main", ".js") j == File(<<"s">>, "j", ".json")
      lib == When(<<<<"default", At(Rel(0, <<"lib">>, "index", ""))>>, <<"node", At(Rel(0, <<"lib">>, "index", ".js"))>>>>)
      worker == [shape |-> "target", target |-> When(<<<<"worker", At(JS("w"))>>>>)]
  IN  [files |-> {a, b, q, j}, entry |-> a, links |-> [e \in {} |-> e],
       packages |-> (<<"s">> :> [NoPackage EXCEPT !.imports = "lib" :> lib])
                    @@ (<<"s", "node_modules", "q">> :> [NoPackage EXCEPT !.main = JS("main"), !.exports = worker]),
       source |-> [f \in {a, b, q, j} |->
                    CASE f = a -> "esm" [] f = b -> "minified" [] f = q -> "commented" [] OTHER -> "badjson"],
       specs |-> {ByHash("lib"), ByPath(Rel(0, <<>>, "lib", "")), ByName("q"), ByPath(Rel(0, <<>>, "j", ".json"))}]
MCWorlds == {Cycle, Conditions, Scoped}

-----------------------------------------------------------------------------
(* Users of the other components *)

Conf(calls, adds, emits, cap) == [calls |-> calls, adds |-> adds, emits |-> emits, capture |-> cap]
MCEventConfs ==
  {Conf({"on", "once", "off", "emit", "throw"}, {"x"}, {"x"}, FALSE),
   Conf({"once", "prepend", "on", "removeAll"}, {"x", "removeListener"}, {"x"}, FALSE),
   Conf({"on", "emit", "once"}, {"x", "newListener"}, {"x"}, FALSE),
   Conf({"on", "emit", "reject", "throw"}, {"x", "error"}, {"x"}, TRUE),
   Conf({"on", "waiter", "throw"}, {"newListener"}, {}, FALSE),
   Conf({"on", "emit"}, {"monitor"}, {"error"}, FALSE),
   Conf({"waiter", "emit", "once", "abort"}, {"x", "removeListener"}, {"x", "error"}, FALSE),
   Conf({"iter", "emit", "abort", "on"}, {"x"}, {"x", "error", "close"}, FALSE)}

Asking(name, mode, how, then) == [name |-> name, mode |-> mode, how |-> how, then |-> then]
MCRequests ==
  <<Asking("n", "shared", "wait", 0), Asking("n", "exclusive", "wait", 3), Asking("n", "shared", "wait", 0),
    Asking("n", "exclusive", "steal", 0), Asking("m", "shared", "ifAvailable", 0)>>

Coded(format, reader, fault) == [format |-> format, reader |-> reader, fault |-> fault]
MCZlibWorlds ==
  {Coded("gzip", "Gunzip", fault) : fault \in {"none", "sum", "zeros", "garbage", "member"}}
  \cup {Coded("gzip", "Unzip", "none"), Coded("zlib", "Unzip", "none"), Coded("zlib", "Inflate", "sum"),
        Coded("gzip", "Inflate", "none"), Coded("raw", "InflateRaw", "garbage"), Coded("zstd", "Zstd", "garbage"),
        Coded("zstd", "Zstd", "member"), Coded("brotli", "Brotli", "none")}

Mapping(items, concurrency, room, first) ==
  [items |-> items, concurrency |-> concurrency, room |-> room, first |-> first]
MCOpWorlds ==
  {Mapping(<<"keep", "drop", "keep">>, 1, 0, FALSE), Mapping(<<"keep", "drop", "keep", "keep">>, 2, 1, FALSE),
   Mapping(<<"keep", "fail", "keep">>, 2, 0, FALSE), Mapping(<<"drop", "keep", "keep">>, 2, 1, TRUE)}

-----------------------------------------------------------------------------
(* Streams over files, and trees that are copied *)

ReadingFrom(from, auto, start, end, fails) ==
  [from |-> from, auto |-> auto, start |-> start, end |-> end, fails |-> fails]
MCReadWorlds ==
  {ReadingFrom("path", TRUE, 1, 2, "none"), ReadingFrom("path", TRUE, -1, NoEnd, "open"),
   ReadingFrom("path", FALSE, -1, 1, "read"),
   ReadingFrom("fd", TRUE, -1, NoEnd, "close"), ReadingFrom("handle", TRUE, 1, NoEnd, "none"),
   ReadingFrom("custom", TRUE, -1, NoEnd, "none"),
   ReadingFrom("custom", TRUE, 0, 1, "read")}
WritingTo(from, auto, start, flush, fails) ==
  [from |-> from, auto |-> auto, start |-> start, flush |-> flush, fails |-> fails]
MCWriteWorlds ==
  {WritingTo("path", TRUE, 1, TRUE, "none"), WritingTo("path", FALSE, -1, FALSE, "none"),
   WritingTo("path", TRUE, -1, TRUE, "sync"),
   WritingTo("fd", TRUE, 0, FALSE, "write"), WritingTo("handle", TRUE, -1, TRUE, "none"),
   WritingTo("custom", TRUE, 1, TRUE, "none"),
   WritingTo("custom", FALSE, -1, FALSE, "close"), WritingTo("path", TRUE, -1, FALSE, "open")}
LoggingTo(from, sync, min, fails) ==
  [from |-> from, sync |-> sync, min |-> min, fails |-> fails]
MCLogWorlds ==
  {LoggingTo("path", FALSE, 0, "none"), LoggingTo("path", TRUE, 2, "none"), LoggingTo("fd", FALSE, 2, "write"),
   LoggingTo("path", FALSE, 0, "open")}
Tree == <<>> :> "dir" @@ <<1>> :> "A" @@ <<2>> :> "dir" @@ <<2, 1>> :> "B" @@ <<2, 2>> :> "link" @@ <<3>> :> "dir"
There == <<>> :> "dir" @@ <<1>> :> "old" @@ <<2>> :> "dir" @@ <<2, 2>> :> "old" @@ <<2, 3>> :> "old"
Blocked == <<>> :> "dir" @@ <<2>> :> "old"
Copying(dest, force, strict, filter) ==
  [tree |-> Tree, dest |-> dest, force |-> force, strict |-> strict, filter |-> filter]
NoTree == [p \in {} |-> "dir"]
MCCopyWorlds ==
  {Copying(NoTree, TRUE, FALSE, {}), Copying(NoTree, TRUE, FALSE, {<<2>>}), Copying(There, TRUE, FALSE, {<<2, 1>>}),
   Copying(There, FALSE, FALSE, {}), Copying(There, FALSE, TRUE, {}), Copying(Blocked, TRUE, FALSE, {})}

-----------------------------------------------------------------------------
(* Graphs of objects that are written *)

Writ(heap, root) == [heap |-> heap, root |-> root, views |-> "host", transfers |-> {}, marked |-> {}]
Graph ==
  <<Obj("object", <<>>, <<<<-1, 2>>, <<-2, 1>>, <<-3, 3>>>>), Obj("array", <<-2, 3, 1>>, <<<<-1, 2>>>>),
    Obj("map", <<3, 1, -2, 3>>, <<>>)>>
MCSerdesWorlds ==
  LET sparse == <<Obj("array", <<0, 2, 0, -2>>, <<<<-2, 1>>>>), Obj("set", <<1, -2, 3>>, <<>>),
                  Obj("date", <<>>, <<>>)>>
      failed == <<Obj("error", <<2>>, <<>>), Obj("object", <<>>, <<<<-1, 1>>, <<-2, 3>>>>), Obj("regexp", <<>>, <<>>)>>
      views == <<Obj("array", <<2, 3, 4, 2>>, <<>>), Obj("view", <<4>>, <<>>), Obj("view", <<5>>, <<>>),
                 Obj("buffer", <<>>, <<>>), Obj("buffer", <<>>, <<>>)>>
      refused == <<Obj("array", <<-2, 2, 3>>, <<>>), Obj("object", <<>>, <<<<-1, 3>>>>), Obj("function", <<>>, <<>>)>>
      marked == <<Obj("object", <<>>, <<<<-1, 2>>, <<-2, 3>>>>), Obj("array", <<1, 3, 3>>, <<>>),
                  Obj("boxedstring", <<>>, <<>>)>>
  IN  {Writ(Graph, 1), Writ(Graph, 3), Writ(sparse, 1), Writ(failed, 1), Writ(failed, 2), Writ(views, 1),
       Writ(refused, 1), Writ(Graph, -2),
       [Writ(views, 1) EXCEPT !.views = "plain"], [Writ(views, 1) EXCEPT !.views = "plain", !.transfers = {4}],
       [Writ(marked, 1) EXCEPT !.marked = {3}], [Writ(marked, 1) EXCEPT !.marked = {2}],
       [Writ(Graph, 2) EXCEPT !.transfers = {1}]}

-----------------------------------------------------------------------------
(* Messages that are enciphered *)

Ciphering(impl, text, encPad, decPad, fault) ==
  [impl |-> impl, text |-> text, encPad |-> encPad, decPad |-> decPad, fault |-> fault,
   aad |-> IF impl \in Aead THEN <<1, 2>> ELSE <<>>, plen |-> Len(text), encTag |-> IF impl = "ccm" THEN 4 ELSE -1,
   decTag |-> IF impl = "ccm" THEN 4 ELSE -1]
MCCipherWorlds ==
  LET seven == <<3, 1, 4, 1, 5, 2, 6>> eight == Append(seven, 4) one == <<7, 0, 7>> IN
  {Ciphering(impl, seven, TRUE, TRUE, "none") : impl \in {"cbc", "ctr", "cfb8", "cfb1"} \cup Aead}
  \cup {Ciphering(impl, eight, encPad, decPad, fault) : impl \in {"cbc", "ecb"},
          encPad \in BOOLEAN, decPad \in BOOLEAN, fault \in {"none", "block"}}
  \cup {Ciphering("cbc", text, TRUE, TRUE, fault) : text \in {<<>>, seven}, fault \in {"none", "cut", "flip"}}
  \cup {Ciphering(impl, seven, TRUE, TRUE, fault) : impl \in Aead, fault \in {"flip", "cut", "tag", "short", "aad"}}
  \cup {[Ciphering("gcm", seven, TRUE, TRUE, "none") EXCEPT !.encTag = t[1], !.decTag = t[2]] :
          t \in {<<2, 2>>, <<2, -1>>, <<4, 4>>}}
  \cup {[Ciphering("ccm", seven, TRUE, TRUE, "none") EXCEPT !.plen = n] : n \in {-1, 6}}
  \cup {Ciphering("ccm", <<>>, TRUE, TRUE, "none"), Ciphering("cbc", one, FALSE, TRUE, "none")}
  \cup {Ciphering(impl, text, TRUE, TRUE, fault) : impl \in {"wrap", "wrappad"},
          text \in {<<>>, <<7, 1>>, one, SubSeq(eight, 1, 6)}, fault \in {"none", "flip", "cut"}}

-----------------------------------------------------------------------------
(* Paths, and a tree patterns are looked for in *)

Strings(chars, n) == UNION {[1 .. k -> chars] : k \in 0 .. n}
MCPosixPaths == Strings({"/", ".", "a"}, 5)
MCWinPaths ==
  Strings({"\\", "/", ".", "c", ":"}, 4) \cup {<<"\\", "/">> \o p : p \in Strings({"\\", "c"}, 5)}
MCPosixEnds ==
  Strings({"/", ".", "a"}, 3)
  \cup {<<"/", "a", "/", "b">>, <<".", ".", "/", "a">>, <<"b", "/", "a", "/">>, <<".", ".", "/", ".", ".">>}
MCWinEnds ==
  {drive \o p : drive \in {<<>>, <<"c", ":", "\\">>, <<"C", ":", "\\">>, <<"d", ":", "/">>},
                p \in Strings({"\\", ".", "a"}, 2)
                      \cup {<<"a", "\\", "C">>, <<"a", "/", "c">>, <<".", ".", "\\", "w">>}}
MCPosixCwd == <<"/", "w", "/", "a">>
MCWinCwd == <<"\\", "w", "\\", "a">>
MCBracePatterns ==
  {<<"{", "a", ",", "b", "}", "{", "b", ",", "}">>, <<"}", "a", ",", "b">>,
   <<"a", "{", "{", "a", ",", "b", "}", "b", ",", "c", "}">>,
   <<"{", "a", ",", "{", "b", ",", "{", "c", ",", "}", "}", "}">>,
   <<"{", "{", "a", ",", "b", "}", ",", "{", "b", ",", "c", "}", "}", ",">>}

NameA == <<"a">>
NameB == <<"b">>
NameD == <<".", "d">>
NameL == <<"l">>
AnyChar == Class({"a", "b", "l", ".", "d"}, TRUE)
OneChar == Class({"a", "b", "l", "d"}, FALSE)
AnyName == Starring(<<AnyChar>>)
AnyHidden == Starring(<<Class({"."}, FALSE), AnyChar>>)
GoUp == Naming(<<".", ".">>)
Deep == Naming(<<"*", "*">>)
Slash == Naming(<<>>)
Entry(kind, to) == [kind |-> kind, to |-> to]
\* Files in directories, hidden ones too, a link to a directory and one to
\* nothing.
MCTree ==
  LET dirs == {<<NameA>>, <<NameA, NameA>>, <<NameA, NameD>>}
      links == <<NameL>> :> <<NameA>> @@ <<NameA, NameL>> :> Lost
      files == {<<NameB>>, <<NameD>>, <<NameA, NameB>>, <<NameA, NameA, NameB>>, <<NameA, NameD, NameB>>}
  IN  [p \in dirs \cup files \cup DOMAIN links |->
        IF p \in dirs THEN Entry("dir", <<>>) ELSE IF p \in files THEN Entry("file", <<>>) ELSE Entry("link", links[p])]
MCParts ==
  {Naming(NameA), Naming(NameB), Naming(NameL), GoUp, Deep, AnyName, Starring(<<OneChar>>), AnyHidden, Slash}
MCPatterns ==
  {p \in UNION {[1 .. n -> MCParts] : n \in 1 .. 3} :
     p[1] \notin {Slash, GoUp} /\ \A i \in DOMAIN p : p[i] = GoUp => i = 2}
MCGlobWorlds ==
  {[tree |-> MCTree, patterns |-> <<p>>, exclude |-> {}] : p \in MCPatterns}
  \cup {[tree |-> MCTree, exclude |-> e,
         patterns |-> <<<<Deep, Naming(NameB)>>, <<Naming(NameA), Deep, Slash>>, <<AnyName>>>>] :
         e \in {{}, {<<Deep, Naming(NameA), Naming(NameB)>>}, {<<Naming(NameA), AnyName>>, <<Naming(NameL)>>},
                {<<AnyName>>}}}

-----------------------------------------------------------------------------
(* The first Buffers *)

MCFirstBytes == <<0, 1, 3, 1, 2>>
MCFirstBuffers == <<<<0, 4>>, <<1, 3>>>>
MCTexts == {<<>>, <<1>>, <<3, 1>>}
MCByteOffsets == {-1, 2}
MCHalves == {-17, -3, 7, 30, 31}

-----------------------------------------------------------------------------
\* A component that is not at work has not begun, and stays so.
Components ==
  {"modules", "events", "ports", "broadcast", "locks", "context", "tracing", "zlib", "map",
   "adapters", "text", "reads", "writes", "logs", "copies", "watched", "graphs", "numbers",
   "pauses", "decoder", "lines", "entries", "histogram", "emitter", "memory", "table", "cipher",
   "hash", "random", "output", "paths", "glob", "buffers"}
NotBegun == "idle"
Init ==
  /\ component \in Components
  /\ IF component = "modules" THEN MInit
     ELSE /\ world = NotBegun /\ mods = NotBegun /\ cache = NotBegun /\ frames = NotBegun /\ got = NotBegun
          /\ mops = NotBegun
  /\ IF component = "events" THEN EInit
     ELSE /\ econf = NotBegun /\ lists = NotBegun /\ made = NotBegun /\ fired = NotBegun /\ ran = NotBegun
          /\ todo = NotBegun /\ thrown = NotBegun /\ capture = NotBegun /\ rejected = NotBegun /\ waiter = NotBegun
          /\ iter = NotBegun /\ signal = NotBegun /\ cut = NotBegun /\ eops = NotBegun
  /\ IF component = "ports" THEN MPInit ELSE mp = NotBegun
  /\ IF component = "broadcast" THEN BCInit ELSE bc = NotBegun
  /\ IF component = "locks" THEN WLInit ELSE wl = NotBegun
  /\ IF component = "context" THEN ACInit ELSE ac = NotBegun
  /\ IF component = "tracing" THEN TRInit ELSE tr = NotBegun
  /\ IF component = "zlib" THEN ZInit
     ELSE zw = NotBegun /\ zs = NotBegun /\ zd = NotBegun
  /\ IF component = "map" THEN MOInit ELSE mo = NotBegun
  /\ IF component = "adapters" THEN WAInit ELSE wa = NotBegun
  /\ IF component = "text" THEN TEInit ELSE te = NotBegun
  /\ IF component = "reads" THEN FRInit ELSE fr = NotBegun
  /\ IF component = "writes" THEN FWInit ELSE fw = NotBegun
  /\ IF component = "logs" THEN FUInit ELSE fu = NotBegun
  /\ IF component = "copies" THEN FCInit ELSE fc = NotBegun
  /\ IF component = "watched" THEN FPInit ELSE fp = NotBegun
  /\ IF component = "graphs" THEN SDInit ELSE sd = NotBegun
  /\ IF component = "numbers" THEN NMInit ELSE nm = NotBegun
  /\ IF component = "pauses" THEN GCInit ELSE gc = NotBegun
  /\ IF component = "decoder" THEN SXInit ELSE sx = NotBegun
  /\ IF component = "lines" THEN RLInit ELSE rl = NotBegun
  /\ IF component = "entries" THEN POInit ELSE po = NotBegun
  /\ IF component = "histogram" THEN HIInit ELSE hi = NotBegun
  /\ IF component = "emitter" THEN ETInit ELSE et = NotBegun
  /\ IF component = "memory" THEN WMInit ELSE wm = NotBegun
  /\ IF component = "table" THEN WTInit ELSE wt = NotBegun
  /\ IF component = "cipher" THEN CPInit ELSE cp = NotBegun
  /\ IF component = "hash" THEN HSInit ELSE hs = NotBegun
  /\ IF component = "random" THEN RUInit ELSE ru = NotBegun
  /\ IF component = "output" THEN ODInit ELSE od = NotBegun
  /\ IF component = "paths" THEN PTInit ELSE pt = NotBegun
  /\ IF component = "glob" THEN GLInit ELSE gl = NotBegun
  /\ IF component = "buffers" THEN BFInit ELSE bf = NotBegun
Next ==
  /\ UNCHANGED component
  /\ component # "modules" => UNCHANGED mvars
  /\ component # "events" => UNCHANGED evars
  /\ component # "ports" => UNCHANGED mp
  /\ component # "broadcast" => UNCHANGED bc
  /\ component # "locks" => UNCHANGED wl
  /\ component # "context" => UNCHANGED ac
  /\ component # "tracing" => UNCHANGED tr
  /\ component # "zlib" => UNCHANGED zvars
  /\ component # "map" => UNCHANGED mo
  /\ component # "adapters" => UNCHANGED wa
  /\ component # "text" => UNCHANGED te
  /\ component # "reads" => UNCHANGED fr
  /\ component # "writes" => UNCHANGED fw
  /\ component # "logs" => UNCHANGED fu
  /\ component # "copies" => UNCHANGED fc
  /\ component # "watched" => UNCHANGED fp
  /\ component # "graphs" => UNCHANGED sd
  /\ component # "numbers" => UNCHANGED nm
  /\ component # "pauses" => UNCHANGED gc
  /\ component # "decoder" => UNCHANGED sx
  /\ component # "lines" => UNCHANGED rl
  /\ component # "entries" => UNCHANGED po
  /\ component # "histogram" => UNCHANGED hi
  /\ component # "emitter" => UNCHANGED et
  /\ component # "memory" => UNCHANGED wm
  /\ component # "table" => UNCHANGED wt
  /\ component # "cipher" => UNCHANGED cp
  /\ component # "hash" => UNCHANGED hs
  /\ component # "random" => UNCHANGED ru
  /\ component # "output" => UNCHANGED od
  /\ component # "paths" => UNCHANGED pt
  /\ component # "glob" => UNCHANGED gl
  /\ component # "buffers" => UNCHANGED bf
  /\ \/ component = "modules" /\ MNext
     \/ component = "events" /\ ENext
     \/ component = "ports" /\ MPNext
     \/ component = "broadcast" /\ BCNext
     \/ component = "locks" /\ WLNext
     \/ component = "context" /\ ACNext
     \/ component = "tracing" /\ TRNext
     \/ component = "zlib" /\ ZNext
     \/ component = "map" /\ MONext
     \/ component = "adapters" /\ WANext
     \/ component = "text" /\ TENext
     \/ component = "reads" /\ FRNext
     \/ component = "writes" /\ FWNext
     \/ component = "logs" /\ FUNext
     \/ component = "copies" /\ FCNext
     \/ component = "watched" /\ FPNext
     \/ component = "graphs" /\ SDNext
     \/ component = "numbers" /\ NMNext
     \/ component = "pauses" /\ GCNext
     \/ component = "decoder" /\ SXNext
     \/ component = "lines" /\ RLNext
     \/ component = "entries" /\ PONext
     \/ component = "histogram" /\ HINext
     \/ component = "emitter" /\ ETNext
     \/ component = "memory" /\ WMNext
     \/ component = "table" /\ WTNext
     \/ component = "cipher" /\ CPNext
     \/ component = "hash" /\ HSNext
     \/ component = "random" /\ RUNext
     \/ component = "output" /\ ODNext
     \/ component = "paths" /\ PTNext
     \/ component = "glob" /\ GLNext
     \/ component = "buffers" /\ BFNext
vars == <<component, mvars, evars, mp, bc, wl, ac, tr, zvars, mo, wa, te, fr, fw, fu, fc, fp, sd, nm, gc,
          sx, rl, po, hi, et, wm, wt, cp, hs, ru, od, pt, gl, bf>>

\* The fairness of the component at work.
Resting ==
  CASE component = "zlib" -> ZRests
    [] component = "map" -> ~ENABLED MOWork
    [] component = "adapters" -> ~ENABLED WAWork
    [] component = "reads" -> fr.s.ops = <<>> /\ ~ENABLED FREnds
    [] component = "writes" -> fw.s.ops = <<>>
    [] component = "logs" -> fu.ticks = <<>>
    [] component = "entries" -> PORests
    [] OTHER -> TRUE
Working ==
  \/ component = "zlib" /\ ZWork
  \/ component = "map" /\ MOWork
  \/ component = "adapters" /\ WAWork
  \/ component = "reads" /\ FRWork
  \/ component = "writes" /\ FWWork
  \/ component = "logs" /\ FUTick
  \/ component = "entries" /\ POWork
Spec == Init /\ [][Next]_vars /\ ([]<>Resting \/ []<><<Working>>_vars)

-----------------------------------------------------------------------------
\* Modules and Paths: each file is evaluated once and has one exports object,
\* which others see only as far as its own evaluation has come; a path names
\* the same place however it is taken apart, normalized or made relative,
\* and a pattern finds exactly the files it covers.
ModulesLoaded ==
  /\ component = "modules" => EvaluatedOnce /\ OneInstance /\ ExportsInOrder
  /\ component = "paths" => NamesTrue /\ PlaceKept /\ RelativeLeads /\ BracesExact
  /\ component = "glob" => GlobExact
\* Events, message ports, broadcast channels, locks, Observers and watch():
\* who listens is called once for what he listens to, in the order it was
\* sent, and a lock is held by those who may share it.
ListenersServed ==
  /\ component = "events" => OnceRunsOnce /\ IteratorInOrder /\ HelpersLeave /\ CaptureRestored
  /\ component = "ports" => PortsInOrder /\ PortsHold
  /\ component = "broadcast" => BroadcastInOrder /\ BroadcastToAll
  /\ component = "locks" => LocksExclude
  /\ component = "emitter" => OnceIsOnce /\ RemovedStays
  /\ component = "lines" => LinesWhole /\ QuestionsOwn /\ IteratorYields
  /\ component = "entries" => EntriesSeen
  /\ component = "watched" => EventsWatched
\* AsyncContext and Wasm: code runs with the context it was made in, hooks
\* and traces come in pairs; script and WebAssembly see each other's writes
\* of a memory, and a table's entries have the handles they were given.
ContextsKept ==
  /\ component = "context" => OwnContext /\ HooksNested
  /\ component = "tracing" => TracesBracketed
  /\ component = "memory" => WasmSeesWrites /\ ViewsSeeWrites
  /\ component = "table" => TableHolds /\ HandlesReleased
\* Zlib, StreamOps, Files, Serdes, Observers' text, Ciphers and Bytes: what
\* comes out is what was put in, in order and whole, or an error says that
\* it is not.
DataKept ==
  /\ component = "zlib" => CompressedWhole /\ DecodedAtOnce /\ FaultsReported
  /\ component = "map" => ResultsInOrder
  /\ component = "adapters" => AdaptersKeep
  /\ component = "text" => TextUncut
  /\ component = "reads" => RangeRead /\ OwnDescriptor(fr.s)
  /\ component = "writes" => FileWritten /\ OwnDescriptor(fw.s)
  /\ component = "logs" => LogWritten
  /\ component = "copies" => CopiedTree
  /\ component = "graphs" => ReadsBack /\ WideEven /\ ClonesApart
  /\ component = "numbers" => NumbersRead
  /\ component = "pauses" => PausesOwn
  /\ component = "decoder" => DecodedWhole
  /\ component = "histogram" => RecordsCounted
  /\ component = "cipher" => DecipheredTrue /\ DamageNoticed
  /\ component = "hash" => DigestsTrue
  /\ component = "random" => IntsEven /\ IdsRise
  /\ component = "output" => OutputWhole
  /\ component = "buffers" => ChangesAsked /\ NumbersWeighed /\ BytesMoved /\ PlacesFound
\* Zlib, StreamOps, Files and the performance observers: what began comes to
\* its end.
ProgramsSettle ==
  []<>(CASE component = "zlib" -> ZSettled
         [] component = "map" -> MOSettled
         [] component = "adapters" -> WASettled
         [] component = "reads" -> FRSettled
         [] component = "writes" -> FWSettled
         [] component = "logs" -> FUSettled
         [] component = "entries" -> POSettled
         [] OTHER -> TRUE)
=============================================================================
