------------------------------ MODULE Modules ------------------------------
(***************************************************************************)
(* How a program finds and runs its modules: require() with its cache      *)
(* (cjs.go), the resolution of packages (nodemodules.go, osresolver.go,    *)
(* packageimports.go), and import, whose registry is the engine's.  A      *)
(* module's body is any sequence of requires, imports, assignments to      *)
(* module.exports and throws.                                              *)
(*                                                                         *)
(* A file is its directory (a sequence of names), its name and its         *)
(* extension; a world is a file system with the specifiers used in it.     *)
(* Dynamic import(), which runs later, is left out.                        *)
(***************************************************************************)
EXTENDS Integers, Sequences, FiniteSets, SequencesExt

CONSTANTS
  Worlds,         \* the file systems a behaviour may start in
  MaxModuleOps    \* bound: statements run besides returns

ASSUME ModulesAssumption == MaxModuleOps \in Nat

VARIABLES
  world,    \* files, links, packages, source, specs, entry
  mods,     \* the modules that were begun, in this order
  cache,    \* cjsLoader.cache of both loaders, and the engine's registry
  frames,   \* the modules being evaluated, innermost last
  got,      \* what require() and import returned
  mops      \* how much of MaxModuleOps is spent

mvars == <<world, mods, cache, frames, got, mops>>

NoFile == [at |-> <<>>, name |-> "", ext |-> ""]
DirAsFile(d) == [at |-> Front(d), name |-> Last(d), ext |-> ""]
FileAsDir(f) == Append(f.at, f.name \o f.ext)

-----------------------------------------------------------------------------
(* The file system *)

\* canonicalPath: every link on the way is followed.
CanonDir(d) ==
  FoldLeft(LAMBDA acc, x : LET next == Append(acc, x)
                           IN  IF next \in DOMAIN world.links THEN world.links[next] ELSE next,
           <<>>, d)
Canonical(f) == [f EXCEPT !.at = CanonDir(@)]
IsFile(f) == Canonical(f) \in world.files
IsDir(d) == \E f \in world.files : IsPrefix(CanonDir(d), f.at)

WithExts(f, exts) == [i \in DOMAIN exts |-> [f EXCEPT !.ext = @ \o exts[i]]]
Indexes(f, exts) ==
  [i \in DOMAIN exts |-> [at |-> FileAsDir(f), name |-> "index", ext |-> exts[i]]]
FirstFile(candidates) ==
  LET there == SelectSeq(candidates, IsFile) IN IF there = <<>> THEN NoFile ELSE Head(there)

\* The three lists of candidates: require() of a path, a path in a package,
\* import of a path.
ExistingJSFile(f) ==
  FirstFile(WithExts(f, <<"", ".js", ".cjs", ".json">>) \o Indexes(f, <<".js", ".cjs", ".json">>))
TryExistingFile(f) ==
  FirstFile(WithExts(f, <<"", ".js", ".mjs", ".ts", ".json">>)
            \o Indexes(f, <<".js", ".mjs", ".ts", ".json">>))
OsTryFile(f) ==
  FirstFile(WithExts(f, <<"", ".js", ".mjs", ".cjs", ".ts">>)
            \o Indexes(f, <<".js", ".mjs", ".cjs", ".ts">>)
            \o (IF f.ext = ".js" THEN <<[f EXCEPT !.ext = ".ts"], [f EXCEPT !.ext = ".tsx"]>> ELSE <<>>))

\* filepath.Join of a directory and a relative path that goes up first.
Join(d, rel) ==
  LET base == SubSeq(d, 1, Len(d) - rel.up)
  IN  IF rel.name = "" THEN DirAsFile(base)
      ELSE [at |-> base \o rel.at, name |-> rel.name, ext |-> rel.ext]

-----------------------------------------------------------------------------
(* package.json *)

NoEntry == [up |-> 0, at |-> <<>>, name |-> "", ext |-> ""]   \* also JSON's null
Found(e) == [found |-> TRUE, bad |-> FALSE, to |-> e]
NotFound == [found |-> FALSE, bad |-> FALSE, to |-> NoEntry]
Bad == [found |-> FALSE, bad |-> TRUE, to |-> NoEntry]
Hit(r) == r.found /\ r.to # NoEntry

\* exportsCondition.active, without user conditions.
Active(cond) == {"node", "default", cond}

\* A target: a path, a list of alternatives, a conditions object, or
\* something else.  of lists [key, then] in source order.
\* Mutant: the conditions have an order of their own, as in "imports".
RECURSIVE ExportTarget_OwnOrder(_, _)
ExportTarget_OwnOrder(t, cond) ==
  LET Of(x) == ExportTarget_OwnOrder(x.then, cond)
      Try(r, x) == IF Hit(r) \/ r.bad THEN r ELSE Of(x)
      First(r) == IF Hit(r) \/ r.bad THEN r ELSE NotFound
      order == <<"node", cond, "default">>
  IN  CASE t.kind = "path" -> Found(t.to)
        [] t.kind = "any" -> First(FoldLeft(LAMBDA r, x : IF Of(x).bad THEN r ELSE Try(r, x), NotFound, t.of))
        [] t.kind = "when" ->
             First(FoldLeft(Try, NotFound,
                            FlattenSeq([i \in 1..3 |-> SelectSeq(t.of, LAMBDA x : x.key = order[i])])))
        [] OTHER -> Bad
RECURSIVE ExportTarget(_, _)
ExportTarget(t, cond) ==
  LET Of(x) == ExportTarget(x.then, cond)
      Try(r, x) == IF Hit(r) \/ r.bad THEN r ELSE Of(x)
      First(r) == IF Hit(r) \/ r.bad THEN r ELSE NotFound
  IN  CASE t.kind = "path" -> Found(t.to)
        [] t.kind = "any" -> First(FoldLeft(LAMBDA r, x : IF Of(x).bad THEN r ELSE Try(r, x), NotFound, t.of))
        [] t.kind = "when" ->
             First(FoldLeft(Try, NotFound, SelectSeq(t.of, LAMBDA x : x.key \in Active(cond))))
        [] OTHER -> Bad

\* Without subpath keys the whole field is the target of ".".
EntryFromExports(e, key, cond) ==
  CASE e.shape = "none" -> NotFound
    [] e.shape = "target" -> IF key = "." THEN ExportTarget(e.target, cond) ELSE NotFound
    [] e.shape = "map" -> IF key \in DOMAIN e.map THEN ExportTarget(e.map[key], cond) ELSE NotFound

\* "imports": no lists, and conditions in an order of its own.
RECURSIVE ImportTarget(_)
ImportTarget(t) ==
  CASE t.kind = "path" -> Found(t.to)
    [] t.kind = "when" ->
         LET of == FlattenSeq([i \in 1..4 |->
                     SelectSeq(t.of, LAMBDA x : x.key = <<"node", "import", "require", "default">>[i])])
         IN  FoldLeft(LAMBDA r, x : IF Hit(r) \/ r.bad THEN r ELSE ImportTarget(x.then), NotFound, of)
    [] OTHER -> Bad

ResolveRelativeEntry(dir, e) ==
  IF e # NoEntry /\ IsFile(Join(dir, e)) THEN Join(dir, e) ELSE TryExistingFile(Join(dir, e))

\* findPackageDir, findOwnerPackageDir: the nearest directory upwards.
Upwards(d) == [i \in 1..Len(d) + 1 |-> SubSeq(d, 1, Len(d) + 1 - i)]
FindPackageDir(d, pkg) ==
  SelectSeq([i \in 1..Len(d) + 1 |-> Upwards(d)[i] \o <<"node_modules", pkg>>], IsDir)
FindOwnerPackageDir(d) == SelectSeq(Upwards(d), LAMBDA x : CanonDir(x) \in DOMAIN world.packages)

\* resolvePackageEntry, of a package's main entry and of a path in it.
NoPackage == [main |-> NoEntry, exports |-> [shape |-> "none"], imports |-> <<>>]
PackageJSON(dir) ==
  IF CanonDir(dir) \in DOMAIN world.packages THEN world.packages[CanonDir(dir)] ELSE NoPackage
ResolveMainEntry(dir, cond) ==
  LET r == EntryFromExports(PackageJSON(dir).exports, ".", cond)
  IN  CASE r.bad -> NoFile
        [] r.found -> ResolveRelativeEntry(dir, r.to)
        [] PackageJSON(dir).main # NoEntry -> ResolveRelativeEntry(dir, PackageJSON(dir).main)
        [] OTHER -> FirstFile(Indexes(DirAsFile(dir), <<".js", ".mjs", ".ts">>))
ResolveSubpathEntry(dir, spec, cond) ==
  LET r == EntryFromExports(PackageJSON(dir).exports, spec.key, cond)
  IN  CASE r.bad -> NoFile
        [] r.found -> ResolveRelativeEntry(dir, r.to)
        [] OTHER -> TryExistingFile(Join(dir, spec.path))
ResolvePackage(d, spec, cond) ==
  LET dirs == FindPackageDir(d, spec.pkg)
  IN  IF dirs = <<>> THEN NoFile
      ELSE IF spec.key = "." THEN ResolveMainEntry(Head(dirs), cond)
      ELSE ResolveSubpathEntry(Head(dirs), spec, cond)

\* resolveFile, for require(); the resolvers of import.
ResolveRequire(spec, d) ==
  CASE spec.form = "path" -> ExistingJSFile(Join(d, spec.path))
    [] spec.form = "package" -> ResolvePackage(d, spec, "require")
    [] OTHER -> NoFile
ResolveImport(spec, d) ==
  CASE spec.form = "path" -> OsTryFile(Join(d, spec.path))
    [] spec.form = "package" -> Canonical(ResolvePackage(d, spec, "import"))
    [] spec.form = "#" ->
         LET dirs == FindOwnerPackageDir(d)
             imports == PackageJSON(Head(dirs)).imports
             r == ImportTarget(imports[spec.key])
         IN  IF dirs = <<>> \/ spec.key \notin DOMAIN imports THEN NoFile
             ELSE IF r.bad \/ ~r.found THEN NoFile
             ELSE ResolveRelativeEntry(Head(dirs), r.to)

\* A source is "cjs", "esm", "minified" (import and export are not the first
\* words of a line), "commented" (CommonJS with a comment line that begins
\* with export), "json" or "badjson".
Source(f) == world.source[Canonical(f)]
ShouldWrapCJS(f) ==
  CASE f.ext \in {".mjs", ".ts", ".json"} -> FALSE
    [] f.ext = ".cjs" -> TRUE
    [] OTHER -> Source(f) \notin {"esm", "minified"}
RunsAsESM(f) == f.ext \in {".ts", ".mjs"} \/ Source(f) \in {"esm", "commented"}

-----------------------------------------------------------------------------
(* Running them *)

\* loader: "main" of RunCJS, "interop" of __noderatiCJSRequire and
\* createRequire, or "esm", the engine.  exports counts the objects that
\* module.exports has been.
NewModule(loader, f) == [loader |-> loader, file |-> f, status |-> "running", exports |-> 0]
Frame(m) == [m |-> m, error |-> FALSE]
Top == Last(frames)
Self == mods[Top.m]
Dir(f) == f.at
CachedAs(loader, f) == {c.m : c \in {c \in cache : c.loader = loader /\ c.file = f}}

\* What a require or an import gives: the exports of m as they are now.
Gives(m) ==
  got' = got \cup {[m |-> m, loader |-> mods[m].loader, file |-> mods[m].file,
                    value |-> mods[m].exports, status |-> mods[m].status]}
Fails == frames' = [frames EXCEPT ![Len(frames)].error = TRUE]

\* Mutant: the path as it was resolved, links and all.
CacheKey_AsResolved(f) == f
CacheKey(f) == Canonical(f)
\* execFile: the cache knows the module before its body runs, and for good.
\* import and export do not compile in a function body.
ExecFile(loader, f) ==
  LET key == CacheKey(f)
      m == Len(mods) + 1
      compiles == Source(f) \notin {"esm", "minified"}
  IN  IF CachedAs(loader, key) # {}
      THEN Gives(CHOOSE i \in CachedAs(loader, key) : TRUE) /\ UNCHANGED <<mods, cache, frames>>
      ELSE /\ mods' = Append(mods, [NewModule(loader, key) EXCEPT
                                     !.status = IF compiles THEN "running" ELSE "failed"])
           /\ cache' = cache \cup {[loader |-> loader, file |-> key, m |-> m]}
           /\ IF compiles THEN frames' = Append(frames, Frame(m)) ELSE Fails
           /\ UNCHANGED got
\* requireJSON: cached when it parses.
RequireJSON(loader, f) ==
  IF Source(f) = "badjson" THEN Fails /\ UNCHANGED <<mods, cache, got>>
  ELSE /\ mods' = Append(mods, [NewModule(loader, CacheKey(f)) EXCEPT !.status = "done"])
       /\ cache' = cache \cup {[loader |-> loader, file |-> CacheKey(f), m |-> Len(mods) + 1]}
       /\ got' = got \cup {[m |-> Len(mods) + 1, loader |-> loader, file |-> CacheKey(f), value |-> 0,
                             status |-> "done"]}
       /\ UNCHANGED frames

Statement == frames # <<>> /\ ~Top.error /\ mops < MaxModuleOps /\ mops' = mops + 1 /\ UNCHANGED world

\* require() of a CommonJS module, or what createRequire made in an ES
\* module: every failure is the same error.
Require(spec) ==
  /\ Statement
  /\ LET loader == IF Self.loader = "esm" THEN "interop" ELSE Self.loader IN
     \E f \in {ResolveRequire(spec, Dir(Self.file))} :
         IF f = NoFile THEN Fails /\ UNCHANGED <<mods, cache, got>>
         ELSE IF CachedAs(loader, f) = {} /\ f.ext = ".json" /\ CachedAs(loader, CacheKey(f)) = {}
         THEN RequireJSON(loader, f)
         ELSE ExecFile(loader, f)

\* import: what openMaybeCJS wraps runs in the interop loader, the rest is
\* evaluated once for each path it was resolved to.
Import(spec) ==
  /\ Statement /\ Self.loader = "esm"
  /\ LET m == Len(mods) + 1 IN
     \E f \in {ResolveImport(spec, Dir(Self.file))} :
         IF f = NoFile \/ f.ext = ".json" THEN Fails /\ UNCHANGED <<mods, cache, got>>
         ELSE IF ShouldWrapCJS(f) THEN ExecFile("interop", f)
         ELSE IF CachedAs("esm", f) # {}
         THEN Gives(CHOOSE i \in CachedAs("esm", f) : TRUE) /\ UNCHANGED <<mods, cache, frames>>
         ELSE /\ mods' = Append(mods, NewModule("esm", f))
              /\ cache' = cache \cup {[loader |-> "esm", file |-> f, m |-> m]}
              /\ frames' = Append(frames, Frame(m)) /\ UNCHANGED got

\* module.exports = {}
Replace ==
  /\ Statement /\ Self.loader # "esm" /\ mods' = [mods EXCEPT ![Top.m].exports = @ + 1]
  /\ UNCHANGED <<cache, frames, got>>
\* The body ends; who required it gets its exports.
Return ==
  /\ frames # <<>> /\ ~Top.error
  /\ mods' = [mods EXCEPT ![Top.m].status = "done"]
  /\ frames' = Front(frames)
  /\ got' = got \cup {[m |-> Top.m, loader |-> Self.loader, file |-> Self.file,
                        value |-> Self.exports, status |-> "done"]}
  /\ UNCHANGED <<world, cache, mops>>
\* An exception leaves the body, its own or one that it does not catch; the
\* require() that ran it throws the same one.
Throw ==
  /\ frames # <<>> /\ (Top.error \/ mops < MaxModuleOps)
  /\ mops' = IF Top.error THEN mops ELSE mops + 1
  /\ mods' = [mods EXCEPT ![Top.m].status = "failed"]
  /\ frames' = LET rest == Front(frames)
               IN  IF rest = <<>> THEN rest ELSE [rest EXCEPT ![Len(rest)].error = TRUE]
  /\ UNCHANGED <<world, cache, got>>
Catch ==
  /\ frames # <<>> /\ Top.error /\ Self.loader # "esm"
  /\ frames' = [frames EXCEPT ![Len(frames)].error = FALSE]
  /\ UNCHANGED <<world, mods, cache, got, mops>>

\* runFile.
MInit ==
  /\ world \in Worlds
  /\ LET loader == IF RunsAsESM(world.entry) THEN "esm" ELSE "main"
     IN  /\ mods = <<NewModule(loader, world.entry)>>
         /\ cache = {[loader |-> loader, file |-> world.entry, m |-> 1]}
  /\ frames = <<Frame(1)>> /\ got = {} /\ mops = 0
MNext ==
  \/ \E spec \in world.specs : Require(spec) \/ Import(spec)
  \/ Replace \/ Return \/ Throw \/ Catch

-----------------------------------------------------------------------------
\* A loader evaluates a file once, however it is named, through whatever
\* links and cycles, and whether it failed or not; what is still running is
\* on the stack.
EvaluatedOnce ==
  /\ \A i, j \in DOMAIN mods :
       /\ mods[i].loader = mods[j].loader /\ mods[i].loader # "esm"
       /\ Canonical(mods[i].file) = Canonical(mods[j].file)
       => i = j
  /\ \A i \in DOMAIN mods : mods[i].status = "running" <=> \E k \in DOMAIN frames : frames[k].m = i

\* All who require a file of one loader after it was evaluated hold the same
\* object, and nobody holds an object that it never exported.
OneInstance ==
  \A g, h \in got :
    /\ g.value <= mods[g.m].exports
    /\ g.loader = h.loader /\ g.loader # "esm" /\ g.file = h.file /\ {g.status, h.status} = {"done"}
       => g.m = h.m /\ g.value = h.value

\* A target's entry is the first path in source order all of whose
\* conditions are active, whatever lists and conditions surround it, and
\* whichever condition the package names first; null and the members of a
\* list that are no target are passed over.
RECURSIVE Leaves(_)
Leaves(t) ==
  IF t.kind = "path" THEN <<[keys |-> {}, to |-> t.to]>>
  ELSE IF t.kind = "bad" THEN <<>>
  ELSE FlattenSeq([i \in DOMAIN t.of |->
         LET under == Leaves(t.of[i].then)
         IN  [k \in DOMAIN under |-> [under[k] EXCEPT !.keys = @ \cup {t.of[i].key}]]])
FirstActive(t, active) ==
  LET live == SelectSeq(Leaves(t), LAMBDA x : x.keys \subseteq active \cup {""} /\ x.to # NoEntry)
  IN  IF live = <<>> THEN NotFound ELSE Found(Head(live).to)
\* What is no target stands in lists only, where it is passed over.
RECURSIVE WellFormed(_)
WellFormed(t) ==
  \/ t.kind = "path"
  \/ /\ t.kind # "bad"
     /\ \A i \in DOMAIN t.of : WellFormed(t.of[i].then) \/ (t.kind = "any" /\ t.of[i].then.kind = "bad")
TargetsOf(e) ==
  CASE e.shape = "none" -> {} [] e.shape = "target" -> {e.target} [] e.shape = "map" -> {e.map[k] : k \in DOMAIN e.map}
ExportsInOrder ==
  \A d \in DOMAIN world.packages : \A t \in TargetsOf(world.packages[d].exports) :
    \A cond \in {"require", "import"} :
      WellFormed(t) /\ (t.kind = "path" => t.to # NoEntry) =>
        ExportTarget(t, cond) = FirstActive(t, Active(cond))

\* The same of "imports": not what the code does, whose order is its own.
ImportsInOrder ==
  \A d \in DOMAIN world.packages : \A k \in DOMAIN world.packages[d].imports :
    LET t == world.packages[d].imports[k]
    IN  WellFormed(t) => ImportTarget(t) = FirstActive(t, Active("import"))
\* The command line and import agree on what is an ES module: not of a
\* minified one, or when a comment's line begins with export.
EntryAgrees ==
  \A f \in world.files : f.ext = ".js" => (RunsAsESM(f) <=> ~ShouldWrapCJS(f))
\* A module that failed fails for whoever requires it next: not when the
\* first error was caught, since it stays in the cache.
FailuresAreTold == \A g \in got : g.status # "failed"
=============================================================================
