------------------------------- MODULE Paths -------------------------------
(***************************************************************************)
(* node:path's own parser and arithmetic for both styles of path, and the  *)
(* matcher behind fs.glob (path.go, fs_glob.go).                           *)
(*                                                                         *)
(* pt is one call of node:path on a path that is a sequence of characters; *)
(* gl is one fs.globSync over a small tree.                                *)
(*                                                                         *)
(* A pattern's part is the character classes of globSegmentRegexp: each    *)
(* stands for one character of a set, or, starred, for any number of       *)
(* them; groups such as @(a|b) are left out.                               *)
(***************************************************************************)
EXTENDS Integers, Sequences, SequencesExt, FiniteSets

CONSTANTS
  PosixPaths,     \* paths that are parsed and normalized
  WinPaths,
  PosixEnds,      \* paths one is made relative to another of
  WinEnds,
  PosixCwd,       \* the working directory, in each style
  WinCwd,
  BracePatterns,  \* patterns whose braces are expanded
  GlobWorlds,     \* trees with the patterns looked for in them
  RouteDepth      \* names on a route through a tree that are looked at

VARIABLES pt, gl

-----------------------------------------------------------------------------
(* Characters: positions count from 0, as in the source *)

PathSep(style) == IF style = "win32" THEN "\\" ELSE "/"
IsPathSep(style, c) == c = "/" \/ (style = "win32" /\ c = "\\")
IsDriveLetter(c) == c \in {"c", "d", "C"}
CharAt(p, i) == p[i + 1]
Slice(p, i, j) == SubSeq(p, i + 1, j)
SepAt(style, p, i) == i < Len(p) /\ IsPathSep(style, CharAt(p, i))

SplitNonEmpty(style, p) ==
  SelectSeq(FoldLeft(LAMBDA parts, c : IF IsPathSep(style, c) THEN Append(parts, <<>>)
                                       ELSE [parts EXCEPT ![Len(parts)] = Append(@, c)], <<<<>>>>, p),
            LAMBDA part : part # <<>>)
JoinParts(parts, sep) ==
  FoldLeft(LAMBDA p, part : IF p = <<>> THEN part ELSE p \o <<sep>> \o part, <<>>, parts)

-----------------------------------------------------------------------------
(* parse and format *)

\* The end of \\server\share\, when a path begins with it.
UncEnd(p) ==
  LET from(i, sep) == LET rest == {j \in i .. Len(p) : j = Len(p) \/ SepAt("win32", p, j) = sep}
                      IN  CHOOSE j \in rest : \A k \in rest : j <= k
      server == from(2, TRUE)
      gap == from(server, FALSE)
      share == from(gap, TRUE)
  IN  IF server = Len(p) \/ server = 2 \/ gap = Len(p) THEN 1
      ELSE IF share = Len(p) THEN share ELSE share + 1
WinRootEnd(p) ==
  CASE SepAt("win32", p, 0) -> IF SepAt("win32", p, 1) THEN UncEnd(p) ELSE 1
    [] Len(p) > 1 /\ IsDriveLetter(CharAt(p, 0)) /\ CharAt(p, 1) = ":" ->
         IF SepAt("win32", p, 2) THEN 3 ELSE 2
    [] OTHER -> 0

\* The walk from the end: where the last name starts and ends, its last dot,
\* and what stands before the dot (0 nothing, 1 dots only, -1 something).
Scan(style, p, start, part) ==
  LET Step(s, i) ==
        LET sep == IsPathSep(style, CharAt(p, i))
            dot == CharAt(p, i) = "."
        IN  CASE s.stop -> s
              [] ~s.stop /\ sep -> IF s.end = -1 THEN s ELSE [s EXCEPT !.part = i + 1, !.stop = TRUE]
              [] OTHER ->
                   [s EXCEPT !.end = IF @ = -1 THEN i + 1 ELSE @,
                             !.dot = IF dot /\ @ = -1 THEN i ELSE @,
                             !.before = IF s.dot = -1 THEN @ ELSE IF dot THEN 1 ELSE -1]
  IN  FoldLeft(Step, [dot |-> -1, part |-> part, end |-> -1, before |-> 0, stop |-> FALSE],
               [k \in 1 .. (Len(p) - start) |-> Len(p) - k])
NoExt(s) ==
  \/ s.dot = -1 \/ s.end = -1 \/ s.before = 0
  \/ s.before = 1 /\ s.dot = s.end - 1 /\ s.dot = s.part + 1
Parsed(p, s, first, root, dir) ==
  [root |-> root, dir |-> dir,
   base |-> IF s.end = -1 THEN <<>> ELSE Slice(p, first, s.end),
   name |-> IF s.end = -1 THEN <<>> ELSE Slice(p, first, IF NoExt(s) THEN s.end ELSE s.dot),
   ext |-> IF NoExt(s) THEN <<>> ELSE Slice(p, s.dot, s.end)]
PosixParse(p) ==
  LET abs == SepAt("posix", p, 0)
      s == Scan("posix", p, IF abs THEN 1 ELSE 0, 0)
      root == IF abs THEN <<"/">> ELSE <<>>
  IN  Parsed(p, s, IF s.part = 0 /\ abs THEN 1 ELSE s.part, root,
             IF s.part > 0 THEN Slice(p, 0, s.part - 1) ELSE root)
WinParse(p) ==
  LET rootEnd == WinRootEnd(p)
      s == Scan("win32", p, rootEnd, rootEnd)
      root == Slice(p, 0, rootEnd)
  IN  Parsed(p, s, s.part, root, IF s.part # rootEnd THEN Slice(p, 0, s.part - 1) ELSE root)
PathParse(style, p) == IF style = "win32" THEN WinParse(p) ELSE PosixParse(p)

FormatPath(style, o) ==
  LET dir == IF o.dir = <<>> THEN o.root ELSE o.dir
      base == IF o.base = <<>> THEN o.name \o o.ext ELSE o.base
  IN  IF dir = <<>> THEN base ELSE IF dir = o.root THEN dir \o base ELSE dir \o <<PathSep(style)>> \o base

-----------------------------------------------------------------------------
(* normalize, resolve, relative *)

Dot == <<".">>
DotDot == <<".", ".">>
\* "." goes, ".." takes the name before it, or stays where it cannot.
Squash(parts, rooted) ==
  LET Step(out, part) ==
        IF part = Dot THEN out
        ELSE IF part # DotDot THEN Append(out, part)
        ELSE IF out # <<>> /\ Last(out) # DotDot THEN Front(out)
        ELSE IF rooted THEN out ELSE Append(out, part)
  IN  FoldLeft(Step, <<>>, parts)
\* Go's path.Clean, and the middle of win32Normalize.
Clean(style, p) ==
  LET rooted == SepAt(style, p, 0)
      body == JoinParts(Squash(SplitNonEmpty(style, p), rooted), PathSep(style))
  IN  IF rooted THEN <<PathSep(style)>> \o body ELSE IF body = <<>> THEN Dot ELSE body
\* A trailing separator stays one.
Trailed(style, p, clean) ==
  IF Len(p) > 1 /\ SepAt(style, p, Len(p) - 1) /\ ~SepAt(style, clean, Len(clean) - 1)
    THEN Append(clean, PathSep(style)) ELSE clean
PosixNormalize(p) == IF p = <<>> THEN Dot ELSE Trailed("posix", p, Clean("posix", p))
WinNormalize(p) ==
  LET drive == IF Len(p) >= 2 /\ IsDriveLetter(CharAt(p, 0)) /\ CharAt(p, 1) = ":" THEN 2 ELSE 0
      rest == Slice(p, drive, Len(p))
  IN  IF p = <<>> THEN Dot ELSE Slice(p, 0, drive) \o Trailed("win32", rest, Clean("win32", rest))
Normalize(style, p) == IF style = "win32" THEN WinNormalize(p) ELSE PosixNormalize(p)

IsAbsolute(style, p) ==
  \/ SepAt(style, p, 0)
  \/ style = "win32" /\ Len(p) >= 3 /\ IsDriveLetter(CharAt(p, 0)) /\ CharAt(p, 1) = ":" /\ SepAt(style, p, 2)
PosixResolve(parts) ==
  Clean("posix", FoldLeft(LAMBDA to, part : IF part = <<>> THEN to ELSE IF IsAbsolute("posix", part) THEN part
                            ELSE Clean("posix", to \o <<"/">> \o part), PosixCwd, parts))
WinResolve(parts) ==
  WinNormalize(FoldLeft(LAMBDA to, part : IF part = <<>> THEN to ELSE IF IsAbsolute("win32", part) THEN part
                          ELSE to \o <<"\\">> \o part, WinCwd, parts))
PathResolve(style, parts) == IF style = "win32" THEN WinResolve(parts) ELSE PosixResolve(parts)

FoldCase(p) == [i \in DOMAIN p |-> IF p[i] = "C" THEN "c" ELSE p[i]]
SamePart(style, a, b) == IF style = "win32" THEN FoldCase(a) = FoldCase(b) ELSE a = b
\* As many ".." as names are left of the one, then what is left of the other.
UpAndDown(style, from, to) ==
  LET same == {n \in 0 .. Min({Len(from), Len(to)}) : \A i \in 1 .. n : SamePart(style, from[i], to[i])}
      n == CHOOSE k \in same : \A j \in same : j <= k
  IN  JoinParts([i \in 1 .. (Len(from) - n) |-> DotDot] \o SubSeq(to, n + 1, Len(to)), PathSep(style))
\* win32Relative takes two characters off each path, a drive or not, and
\* panics when there is only one.
Panicked == <<"panic">>
PathRelative(style, from, to) ==
  LET a == PathResolve(style, <<from>>)
      b == PathResolve(style, <<to>>)
      Names(p) == SplitNonEmpty(style, IF style = "win32" THEN Slice(p, 2, Len(p)) ELSE p)
  IN  IF SamePart(style, a, b) THEN <<>>
      ELSE IF style = "win32" /\ (Len(a) < 2 \/ Len(b) < 2) THEN Panicked
      ELSE UpAndDown(style, Names(a), Names(b))

-----------------------------------------------------------------------------
(* fs.glob: braces *)

\* One look at a pattern's characters: from position i, the group open at
\* depth d since start. A group with a comma makes one pattern of each of
\* its alternatives, and each of those is looked at anew.
RECURSIVE ExpandBraces(_)
ExpandBraces(p) ==
  LET Depth(i) == FoldLeft(LAMBDA d, c : IF c = "{" THEN d + 1 ELSE IF c = "}" /\ d > 0 THEN d - 1 ELSE d,
                           0, SubSeq(p, 1, i))
      opened(i) == Max({j \in 1 .. i : p[j] = "{" /\ Depth(j) = 1})
      groups == {<<opened(i), i>> : i \in {j \in DOMAIN p : Depth(j) = 0 /\ Depth(j - 1) = 1}}
      Commas(g) == {j \in g[1] .. g[2] : p[j] = "," /\ Depth(j) = 1}
      split == {g \in groups : Commas(g) # {}}
  IN  IF split = {} THEN {p}
      ELSE LET g == CHOOSE h \in split : \A k \in split : h[1] <= k[1]
               ends == Commas(g) \cup {g[1], g[2]}
               Next1(c) == Min({d \in ends : d > c})
           IN  UNION {ExpandBraces(SubSeq(p, 1, g[1] - 1) \o SubSeq(p, c + 1, Next1(c) - 1) \o SubSeq(p, g[2] + 1, Len(p)))
                        : c \in ends \ {g[2]}}

-----------------------------------------------------------------------------
(* fs.glob: segments *)

\* A part of a pattern: "**", a name, or classes with a star among them.
Starring(classes) == [kind |-> "magic", name |-> <<>>, classes |-> classes]
Naming(name) == [kind |-> IF name = <<"*", "*">> THEN "globs" ELSE "name", name |-> name, classes |-> <<>>]
Class(of, star) == [of |-> of, star |-> star]

RECURSIVE ClassesMatch(_, _)
ClassesMatch(classes, name) ==
  IF classes = <<>> THEN name = <<>>
  ELSE \/ Head(classes).star /\ ClassesMatch(Tail(classes), name)
       \/ /\ name # <<>> /\ Head(name) \in Head(classes).of
          /\ ClassesMatch(IF Head(classes).star THEN classes ELSE Tail(classes), Tail(name))
SegmentMatch(seg, name) == IF seg.kind = "magic" THEN ClassesMatch(seg.classes, name) ELSE seg.name = name
Dotted(name) == name # <<>> /\ Head(name) = "."
DotOK(seg) == seg.classes # <<>> /\ Head(seg.classes) = Class({"."}, FALSE)

DirOnly(parts) == Len(parts) > 1 /\ Last(parts) = Naming(<<>>)
\* An empty part goes, and of several "**" one stays.
GlobCompile(parts) ==
  FoldLeft(LAMBDA segs, part :
             IF segs # <<>> /\ part.name = <<>> /\ part.kind = "name" THEN segs
             ELSE IF segs # <<>> /\ part.kind = "globs" /\ Last(segs).kind = "globs" THEN segs
             ELSE Append(segs, part),
           <<>>, IF DirOnly(parts) THEN Front(parts) ELSE parts)
RECURSIVE GlobMatchParts(_, _)
GlobMatchParts(segs, parts) ==
  IF segs = <<>> THEN parts = <<>>
  ELSE IF Head(segs).kind = "globs"
    THEN \E i \in 0 .. Len(parts) : GlobMatchParts(Tail(segs), SubSeq(parts, i + 1, Len(parts)))
  ELSE parts # <<>> /\ SegmentMatch(Head(segs), Head(parts)) /\ GlobMatchParts(Tail(segs), Tail(parts))

-----------------------------------------------------------------------------
(* fs.glob: the walk over a tree of files, directories and links *)

Lost == <<<<"lost">>>>
\* The entry a path leads to, through the links on its way.
Followed(w, rel) ==
  FoldLeft(LAMBDA at, name :
             LET next == Append(at, name) IN
             IF at = Lost \/ next \notin DOMAIN w.tree THEN Lost
             ELSE IF w.tree[next].kind = "link" THEN w.tree[next].to ELSE next,
           <<>>, Squash(rel, TRUE))
IsDirectory(w, at) == at = <<>> \/ (at \in DOMAIN w.tree /\ w.tree[at].kind = "dir")
StatDir(w, rel) == IsDirectory(w, Followed(w, rel))
LinkThere(w, rel) ==
  LET p == Squash(rel, TRUE) IN
  p = <<>> \/ (Followed(w, Front(p)) # Lost /\ Append(Followed(w, Front(p)), Last(p)) \in DOMAIN w.tree)
DirEntries(w, rel) ==
  LET at == Followed(w, rel) IN
  IF IsDirectory(w, at) THEN {Last(p) : p \in {q \in DOMAIN w.tree : q # <<>> /\ Front(q) = at}} ELSE {}
EntryKind(w, rel, name) == w.tree[Append(Followed(w, rel), name)].kind

\* What is returned of a path: relative to the directory, and clean.
GlobResult(rel) == Squash(rel, FALSE)
Excluded(w, rel) == \E e \in w.exclude : GlobMatchParts(GlobCompile(e), GlobResult(rel))
\* g: the results in order, all seen, and the pairs visited.
Emit(w, g, parts, rel, isDir) ==
  IF (DirOnly(parts) /\ ~isDir) \/ GlobResult(rel) \in g.seen THEN g
  ELSE [g EXCEPT !.out = Append(@, GlobResult(rel)), !.seen = @ \cup {GlobResult(rel)}]

RECURSIVE Walk(_, _, _, _, _)
WalkGlobs(w, g, parts, rel, segs) ==
  IF <<rel, segs>> \in g.visited THEN g
  ELSE LET here == Walk(w, [g EXCEPT !.visited = @ \cup {<<rel, segs>>}], parts, rel, Tail(segs))
           Enter(h, name) ==
             LET child == Append(rel, name)
                 isDir == EntryKind(w, rel, name) = "dir"
             IN  IF Dotted(name) \/ (~isDir /\ Len(segs) > 1) \/ Excluded(w, child) THEN h
                 ELSE IF isDir THEN Walk(w, h, parts, child, segs)
                 ELSE Emit(w, h, parts, child, FALSE)
       IN  FoldLeft(Enter, here, SetToSeq(DirEntries(w, rel)))
\* A name or a match: the last segment is a result, another a way further.
Onward(w, g, parts, child, segs) ==
  IF Excluded(w, child) THEN g
  ELSE IF Len(segs) = 1 THEN Emit(w, g, parts, child, StatDir(w, child))
  ELSE IF StatDir(w, child) THEN Walk(w, g, parts, child, Tail(segs))
  ELSE g
Walk(w, g, parts, rel, segs) ==
  IF segs = <<>>
    THEN IF rel = <<>> \/ Followed(w, rel) # Lost THEN Emit(w, g, parts, rel, StatDir(w, rel)) ELSE g
  ELSE CASE Head(segs).kind = "globs" -> WalkGlobs(w, g, parts, rel, segs)
         [] Head(segs).kind = "name" ->
              LET child == Append(rel, Head(segs).name) IN
              IF Followed(w, child) = Lost /\ (Len(segs) > 1 \/ ~LinkThere(w, child)) THEN g
              ELSE Onward(w, g, parts, child, segs)
         [] OTHER ->
              LET names == {n \in DirEntries(w, rel) : (~Dotted(n) \/ DotOK(Head(segs))) /\ SegmentMatch(Head(segs), n)}
              IN  FoldLeft(LAMBDA h, n : Onward(w, h, parts, Append(rel, n), segs), g, SetToSeq(names))
FsGlob(w) ==
  FoldLeft(LAMBDA g, parts : Walk(w, [g EXCEPT !.visited = {}], parts, <<>>, GlobCompile(parts)),
           [out |-> <<>>, seen |-> {}, visited |-> {}], w.patterns)

-----------------------------------------------------------------------------
(* The calls *)

Uncalled == [call |-> "none", style |-> "posix", p |-> <<>>, q |-> <<>>, out |-> <<>>]
Called1(call, style, p, q, out) == [call |-> call, style |-> style, p |-> p, q |-> q, out |-> out]
PTParse ==
  \/ \E p \in PosixPaths : pt' = Called1("parse", "posix", p, <<>>, PosixParse(p))
  \/ \E p \in WinPaths : pt' = Called1("parse", "win32", p, <<>>, WinParse(p))
PTNormalize ==
  \/ \E p \in PosixPaths : pt' = Called1("normalize", "posix", p, <<>>, PosixNormalize(p))
  \/ \E p \in WinPaths : pt' = Called1("normalize", "win32", p, <<>>, WinNormalize(p))
PTRelative ==
  \/ \E p, q \in PosixEnds : pt' = Called1("relative", "posix", p, q, PathRelative("posix", p, q))
  \/ \E p, q \in WinEnds : pt' = Called1("relative", "win32", p, q, PathRelative("win32", p, q))
PTBraces == \E p \in BracePatterns : pt' = Called1("braces", "posix", p, <<>>, ExpandBraces(p))
PTInit == pt = Uncalled
PTNext == pt.call = "none" /\ (PTParse \/ PTNormalize \/ PTRelative \/ PTBraces)

GLInit == gl = [w |-> CHOOSE w \in GlobWorlds : TRUE, out |-> <<>>, called |-> FALSE]
GlobSync == \E w \in GlobWorlds : gl' = [w |-> w, out |-> FsGlob(w).out, called |-> TRUE]
GLNext == ~gl.called /\ GlobSync

-----------------------------------------------------------------------------
\* Parsing: the base is the last name of the path, name and extension are
\* the base cut before its last dot (a leading dot or ".." is no extension,
\* but for "/..", where Node's own parser finds one), and formatting the
\* parts gives the path again, but for separators that say nothing.
BodyParts(style, p) == SplitNonEmpty(style, Slice(p, IF style = "win32" THEN WinRootEnd(p) ELSE 0, Len(p)))
LastDot(base) == Max({0} \cup {i \in 2 .. Len(base) : base[i] = "."})
NamesTrue ==
  pt.call = "parse" =>
    LET o == pt.out
        body == BodyParts(pt.style, pt.p)
        again == FormatPath(pt.style, o)
        cut == LastDot(o.base)
    IN  /\ o.base = IF body = <<>> THEN <<>> ELSE Last(body)
        /\ o.name \o o.ext = o.base
        /\ (pt.style = "posix" /\ o.root # <<>> /\ body = <<DotDot>>)
           \/ o.ext = IF o.base = DotDot \/ cut = 0 THEN <<>> ELSE SubSeq(o.base, cut, Len(o.base))
        /\ BodyParts(pt.style, again) = body
        /\ IsAbsolute(pt.style, again) = IsAbsolute(pt.style, pt.p)
\* Normalizing leads to the same place and once is enough, but for Windows
\* paths with a colon elsewhere than in "c:\", which may turn into a drive.
ColonsAtRoot(p) == \A i \in DOMAIN p : p[i] = ":" => i = 2 /\ WinRootEnd(p) = 3
PlaceKept ==
  pt.call = "normalize" /\ (pt.style = "win32" => ColonsAtRoot(pt.p)) =>
    /\ Normalize(pt.style, pt.out) = pt.out
    /\ PathResolve(pt.style, <<pt.out>>) = PathResolve(pt.style, <<pt.p>>)
    /\ IsAbsolute(pt.style, pt.out) = IsAbsolute(pt.style, pt.p)
\* The relative path from one place to another leads from the one to the
\* other; on Windows only if both are on one drive, or below one directory.
OneDrive(a, b) ==
  /\ Len(a) >= 2 /\ Len(b) >= 2 /\ FoldCase(Slice(a, 0, 2)) = FoldCase(Slice(b, 0, 2))
  /\ CharAt(a, 1) = ":" \/ Head(SplitNonEmpty("win32", FoldCase(a))) = Head(SplitNonEmpty("win32", FoldCase(b)))
ArrivesThere ==
  LET led == PathResolve(pt.style, <<PathResolve(pt.style, <<pt.p>>), pt.out>>)
      to == PathResolve(pt.style, <<pt.q>>)
  IN  SamePart(pt.style, JoinParts(SplitNonEmpty(pt.style, led), "/"), JoinParts(SplitNonEmpty(pt.style, to), "/"))
RelativeLeads ==
  pt.call = "relative" /\ (pt.style = "posix" \/ OneDrive(PathResolve(pt.style, <<pt.p>>), PathResolve(pt.style, <<pt.q>>)))
  => ArrivesThere /\ ~IsAbsolute(pt.style, pt.out)
\* The same of any two Windows paths: not what the code does, which cuts a
\* letter of a name, answers nothing for two roots' names of one letter, goes
\* from one drive to a directory of the same one, and panics at a bare root.
RelativeLeadsAnywhere == pt.call = "relative" => pt.out # Panicked /\ ArrivesThere
\* Braces come to the same patterns in whatever order they are expanded:
\* here the innermost group is always next.
RECURSIVE Innermost(_)
Innermost(p) ==
  LET inner == {<<i, j>> \in (DOMAIN p) \X (DOMAIN p) :
                  i < j /\ p[i] = "{" /\ p[j] = "}" /\ \A k \in (i + 1) .. (j - 1) : p[k] \notin {"{", "}"}}
  IN  IF inner = {} THEN {p}
      ELSE LET g == CHOOSE h \in inner : TRUE
               Ends == {k \in g[1] .. g[2] : k \in {g[1], g[2]} \/ p[k] = ","}
           IN  UNION {Innermost(SubSeq(p, 1, g[1] - 1) \o SubSeq(p, c + 1, Min({d \in Ends : d > c}) - 1)
                                \o SubSeq(p, g[2] + 1, Len(p))) : c \in Ends \ {g[2]}}
BracesExact == pt.call = "braces" => pt.out = Innermost(pt.p)

\* A path is a result exactly if the pattern covers it part by part: "**"
\* any number of real directories without a dot, and at last anything in
\* them, a class only a leading dot it names itself. No path comes twice.
RECURSIVE Covers(_, _, _, _)
Covers(w, parts, rel, at) ==
  LET rest == Tail(parts)
      name == rel[at + 1]
      upTo(n) == SubSeq(rel, 1, n)
      final == \A i \in DOMAIN rest : rest[i].kind = "globs"
  IN  IF parts = <<>> THEN at = Len(rel)
      ELSE IF Head(parts) = Naming(<<>>) THEN Covers(w, rest, rel, at)
      ELSE IF Head(parts).kind = "globs"
        THEN /\ StatDir(w, upTo(at))
             /\ \/ Covers(w, rest, rel, at)
                \/ /\ at < Len(rel) /\ ~Dotted(name) /\ name \in DirEntries(w, upTo(at))
                   /\ IF EntryKind(w, upTo(at), name) = "dir" THEN Covers(w, parts, rel, at + 1)
                      ELSE final /\ at + 1 = Len(rel)
      ELSE /\ at < Len(rel) /\ StatDir(w, upTo(at))
           /\ SegmentMatch(Head(parts), name)
           /\ Head(parts).kind = "magic" =>
                name \in DirEntries(w, upTo(at)) /\ (Dotted(name) => DotOK(Head(parts)))
           /\ Covers(w, rest, rel, at + 1)
RECURSIVE Routes(_, _)
Routes(w, n) ==
  IF n = 0 THEN {<<>>}
  ELSE LET shorter == Routes(w, n - 1)
           given == UNION {{parts[i].name : i \in {j \in DOMAIN parts : parts[j].kind = "name"}}
                             : parts \in ToSet(w.patterns)}
       IN  shorter \cup {Append(rel, name) : rel \in {r \in shorter : StatDir(w, r)},
                                             name \in {Last(p) : p \in DOMAIN w.tree} \cup (given \ {<<>>})}
GlobExact ==
  gl.called =>
    LET found == {rel \in Routes(gl.w, RouteDepth) :
                    /\ rel = <<>> \/ LinkThere(gl.w, rel)
                    /\ \E parts \in ToSet(gl.w.patterns) :
                         Covers(gl.w, parts, rel, 0) /\ (DirOnly(parts) => StatDir(gl.w, rel))
                    /\ \A n \in 1 .. Len(rel) : ~Excluded(gl.w, SubSeq(rel, 1, n))}
    IN  /\ ToSet(gl.out) = {GlobResult(rel) : rel \in found}
        /\ IsInjective(gl.out)
=============================================================================
