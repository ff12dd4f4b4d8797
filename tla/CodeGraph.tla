------------------------------- MODULE CodeGraph -------------------------------
(***************************************************************************)
(* What a build says of its own code without running it: who imports whom  *)
(* (src/verify/import-graph.ts), cycles (architecture.ts), code nothing    *)
(* reaches (dead-code.ts), the order in which files deserve a look         *)
(* (review-units.ts), and the review that spends its budget along it       *)
(* (code-review.ts).                                                       *)
(*                                                                         *)
(* A path is its folders and name, an extension and whether it names a     *)
(* test; a specifier is the pieces between its slashes.  Of a file's text  *)
(* the analyses read what a Draft holds: its imports, exports, the names   *)
(* it mentions besides, its lines.  Comments are taken to be stripped, and *)
(* every import and export to be written the way the patterns look for.    *)
(***************************************************************************)
EXTENDS Integers, FiniteSets, SequencesExt

CONSTANTS Draft,     \* for each path a build may write, the texts it may get
          Baked,     \* TEMPLATE_OWNED: in every sandbox, in no build's files
          Entry,     \* ENTRY_FILES
          Order,     \* the paths in the order of their names
          MaxUnits, MaxCost  \* of one review, in which a unit costs 1

Path == DOMAIN Draft
CodeExt == <<"tsx", "ts", "jsx", "js", "mts", "mjs">>
IsCode(p) == p.ext \in ToSet(CodeExt)
IsSource(p) == IsCode(p) /\ ~p.test
Before(p, q) == \E i, j \in DOMAIN Order : i < j /\ Order[i] = p /\ Order[j] = q

None == [parts |-> <<>>, test |-> FALSE, ext |-> "none"]
File(parts, ext) == [parts |-> parts, test |-> FALSE, ext |-> ext]

\* What is looked up of the template, next to a path as written.
BakedExt == {"ts", "tsx", "js", "jsx", "css"}

\* None is no path, and a config.mjs of the template stands beside a config.js.
ASSUME GraphAssumption ==
  /\ IsFiniteSet(Path) /\ Path \cap Baked = {}
  /\ \A q \in Path \cup Baked : q.ext # None.ext
  /\ \A q \in Baked : IsCode(q) => \E ext \in BakedExt : File(q.parts, ext) \in Baked
  /\ Order \in Seq(Path) /\ IsInjective(Order) /\ ToSet(Order) = Path
  /\ MaxUnits \in Nat /\ MaxCost \in Nat

IsSpecifier(s) ==
  /\ s = [at |-> s.at, parts |-> s.parts, ext |-> s.ext, query |-> s.query]
  /\ s.at \in {"alias", "relative", "root", "package"} /\ s.query \in BOOLEAN
IsText(m) ==
  /\ m = [imports |-> m.imports, exports |-> m.exports, body |-> m.body, lines |-> m.lines]
  /\ \A x \in m.imports : x = [spec |-> x.spec, binds |-> x.binds] /\ IsSpecifier(x.spec)
  /\ m.lines \in Nat

ASSUME DraftAssumption == \A p \in Path : \A m \in Draft[p] : IsText(m)

VARIABLES code,    \* the files there are
          review   \* the review: units left, read and failed

graphVars == <<code, review>>

NoReview == [at |-> "none", left |-> <<>>, read |-> {}, failed |-> {},
             waited |-> FALSE, coverage |-> [total |-> 0, deep |-> 0,
                                             cheapOnly |-> 0, unreviewed |-> 0]]

GraphStart(files) == code = files /\ review = NoReview

Files == DOMAIN code
Sources == {p \in Files : IsSource(p)}

-----------------------------------------------------------------------------
(* Imports                                                                 *)

\* "." stays, ".." goes up, and nothing goes above the root.
JoinPath(dir, pieces) ==
  LET Step(d, x) == CASE x = "." -> d
                      [] x = ".." -> IF d = <<>> THEN d ELSE Front(d)
                      [] OTHER -> Append(d, x)
  IN  FoldLeft(Step, dir, pieces)

BaseOf(p, s) ==
  CASE s.at = "alias" -> <<"src">> \o s.parts
    [] s.at = "relative" -> JoinPath(Front(p.parts), s.parts)
    [] s.at = "root" -> s.parts

\* An import written without extension is of no file without one, and no code
\* of the template is an index file.
ASSUME ImportAssumption ==
  \A p \in Path : \A m \in Draft[p] : \A x \in {y \in m.imports : y.spec.at # "package"} :
    /\ x.spec.ext = "" => File(BaseOf(p, x.spec), "") \notin Path \cup Baked
    /\ \A ext \in ToSet(CodeExt) : File(Append(BaseOf(p, x.spec), "index"), ext) \notin Baked

\* What a specifier may stand for, in the order tried: the path as written,
\* with an extension, a folder's index, and a .js kept under another extension.
Candidates(p, s) ==
  LET base == BaseOf(p, s)
      WithExt(parts) == [i \in DOMAIN CodeExt |-> File(parts, CodeExt[i])]
  IN  <<File(base, s.ext)>>
        \o (IF s.ext \in {"", "js"} THEN WithExt(base) ELSE <<>>)
        \o (IF s.ext = "" THEN WithExt(Append(base, "index")) ELSE <<>>)

\* A package is no file of the project, and a query is part of no name.
ResolveSpecifier(p, s, files) ==
  LET found == SelectInSeq(Candidates(p, s), LAMBDA q : q \in files)
  IN  IF s.at = "package" \/ s.query \/ found = 0 THEN None ELSE Candidates(p, s)[found]

Specs(p) == {x.spec : x \in code[p].imports}
Imports(p) == {ResolveSpecifier(p, s, Files) : s \in Specs(p)} \ {None, p}
ImportedBy(p) == {q \in Files : p \in Imports(q)}

Bare(s) == [s EXCEPT !.query = FALSE]
InProject(s) == s.at # "package" /\ s.ext \in {""} \cup ToSet(CodeExt)

\* What the build has written for it before the preview is shown.
FindBrokenImports ==
  UNION {{<<p, Bare(s)>> : s \in {t \in Specs(p) :
             InProject(t) /\ ResolveSpecifier(p, Bare(t), Files) = None}}
         : p \in {q \in Files : IsCode(q)}}

Asset == {"css", "scss", "sass", "less", "svg", "png", "json"}

\* mutant of ExistsOutsideTheSet: only the path as written is looked up.
ExistsOutsideTheSet_Exact(p, s) ==
  /\ ~s.query
  /\ s.ext \in Asset \/ File(BaseOf(p, s), s.ext) \in Baked

\* A file the template wrote, or an asset, is not the build's to miss.
ExistsOutsideTheSet(p, s) ==
  /\ ~s.query
  /\ \/ s.ext \in Asset
     \/ File(BaseOf(p, s), s.ext) \in Baked
     \/ s.ext = "" /\ \E ext \in BakedExt : File(BaseOf(p, s), ext) \in Baked

\* The same question as a review's free pass asks it.
PrePassBroken ==
  UNION {{<<p, s>> : s \in {t \in Specs(p) :
             /\ t.at \in {"relative", "alias"} /\ ResolveSpecifier(p, t, Files) = None
             /\ ~ExistsOutsideTheSet(p, t)}} : p \in Files}

-----------------------------------------------------------------------------
(* Cycles                                                                  *)

\* mutant of Edges: the edges of the shared graph, which has none to itself.
Edges_Shared(p) == {q \in Imports(p) : IsSource(q)}

\* Among sources; an import of itself is an edge here.
Edges(p) == {ResolveSpecifier(p, s, Sources) : s \in Specs(p)} \ {None}

\* One step further: never before the first file of the walk in the order of
\* names, so that no rotation of a cycle is found twice, and nowhere twice.
Further(route) ==
  {Append(route, next) : next \in {q \in Edges(Last(route)) :
                                    ~Before(q, Head(route)) /\ q \notin ToSet(route)}}

\* The walks of n steps, and the cycles they find when they come back.
Walks[n \in Nat] ==
  IF n = 0 THEN {<<p>> : p \in Sources} ELSE UNION {Further(r) : r \in Walks[n - 1]}

CountCycles ==
  {Append(r, Head(r)) : r \in {w \in UNION {Walks[n] : n \in 0 .. Cardinality(Sources)} :
                                Head(w) \in Edges(Last(w))}}

-----------------------------------------------------------------------------
(* What nothing reaches                                                    *)

ExportNames(exports) == {x.name : x \in exports}

\* mutant of Mentions: an import is known by the name it is given.
Mentions_Locals(m) == m.body \cup UNION {{b.local : b \in x.binds} : x \in m.imports}

\* Every name in a text, its import statements included.
Mentions(m) == m.body \cup UNION {{b.name : b \in x.binds} \cup {b.local : b \in x.binds}
                                  : x \in m.imports}

UnusedImports(p) ==
  {b \in UNION {x.binds : x \in code[p].imports} : b.local \notin code[p].body}

DeadExports(p) ==
  {x \in code[p].exports :
     \A q \in Files \ {p} : IsCode(q) => x.name \notin Mentions(code[q])}

Reported(p) == IsSource(p) /\ p \notin Entry
UnreferencedExports(p) == IF Reported(p) THEN {x \in DeadExports(p) : x.kind # "component"} ELSE {}

OrphanFiles == {p \in Files : Reported(p) /\ ImportedBy(p) = {}}

-----------------------------------------------------------------------------
(* The order of a review                                                   *)

HasSiblingTest(p) == \E q \in Files : IsCode(q) /\ q.test /\ q.parts = p.parts
HasLogic(m) == \E x \in m.exports : x.kind = "function"
TypesOnly(m) == m.exports # {} /\ \A x \in m.exports : x.kind = "type"

\* In hundredths: a point for 50 lines, one and a half for an importer, three
\* for logic without a test.
Risk(p) ==
  LET m == code[p]
  IN  2 * m.lines
      + (IF TypesOnly(m) THEN 0 ELSE 150 * Cardinality(ImportedBy(p)))
      + (IF HasLogic(m) /\ ~HasSiblingTest(p) THEN 300 ELSE 0)

\* mutant of EnumerateUnits: the order is by name.
EnumerateUnits_ByName == SetToSortSeq(Sources, Before)

\* Riskiest first, ties by name: before the n-th there are n - 1.
Ahead(p, q) == Risk(p) > Risk(q) \/ (Risk(p) = Risk(q) /\ Before(p, q))
EnumerateUnits ==
  LET place == [p \in Sources |-> Cardinality({q \in Sources : Ahead(q, p)}) + 1]
  IN  [n \in 1 .. Cardinality(Sources) |-> CHOOSE p \in Sources : place[p] = n]

-----------------------------------------------------------------------------
(* The tools write and delete; a review reads                              *)

Write(p, m) ==
  /\ review.at = "none"
  /\ code' = [q \in Files \cup {p} |-> IF q = p THEN m ELSE code[q]]
  /\ UNCHANGED review

Delete(p) ==
  /\ review.at = "none" /\ p \in Files
  /\ code' = [q \in Files \ {p} |-> code[q]]
  /\ UNCHANGED review

BeginReview ==
  /\ review.at = "none" /\ Files # {}
  /\ review' = [NoReview EXCEPT !.at = "units", !.left = EnumerateUnits]
  /\ UNCHANGED code

\* A unit that failed counts neither as one of the units nor as money.
MayGoOn == review.left # <<>> /\ Cardinality(review.read) < Min({MaxUnits, MaxCost})

UnitIsRead ==
  /\ review.at = "units" /\ MayGoOn
  /\ review' = [review EXCEPT !.read = @ \cup {Head(review.left)},
                              !.left = Tail(@), !.waited = FALSE]
  /\ UNCHANGED code

\* A throttled dispatch is tried once more, any other error is final.
UnitIsThrottled ==
  /\ review.at = "units" /\ MayGoOn /\ ~review.waited
  /\ review' = [review EXCEPT !.waited = TRUE]
  /\ UNCHANGED code

UnitFails ==
  /\ review.at = "units" /\ MayGoOn
  /\ review' = [review EXCEPT !.failed = @ \cup {Head(review.left)},
                              !.left = Tail(@), !.waited = FALSE]
  /\ UNCHANGED code

ReviewEnds ==
  LET total == Len(EnumerateUnits)
      deep == Cardinality(review.read)
      unreviewed == Cardinality(review.failed)
  IN  /\ review.at = "units" /\ ~MayGoOn
      /\ review' = [review EXCEPT !.at = "told", !.coverage =
                      [total |-> total, deep |-> deep, unreviewed |-> unreviewed,
                       cheapOnly |-> Max({0, total - deep - unreviewed})]]
      /\ UNCHANGED code

GraphNext ==
  \/ \E p \in Path : Delete(p) \/ \E m \in Draft[p] : Write(p, m)
  \/ BeginReview \/ UnitIsRead \/ UnitIsThrottled \/ UnitFails \/ ReviewEnds

-----------------------------------------------------------------------------
(* Properties                                                              *)

GraphTypeOK ==
  /\ Files \subseteq Path /\ \A p \in Files : code[p] \in Draft[p]
  /\ review.at \in {"none", "units", "told"}

\* Every cycle of imports among the sources is reported, overlapping ones and
\* a file that imports itself included, and none under two rotations
\* (architecture.ts 62-112).
CyclesExact ==
  LET Closed(k) == /\ IsInjective(k)
                   /\ \A i \in DOMAIN k : k[(i % Len(k)) + 1] \in Imports(k[i])
                   /\ \A i \in 2 .. Len(k) : Before(k[1], k[i])
  IN  CountCycles =
        {Append(k, k[1]) : k \in {c \in UNION {[1 .. n -> Sources] : n \in 2 .. Cardinality(Sources)} :
                                    Closed(c)}}
        \cup {<<p, p>> : p \in {q \in Sources : \E s \in Specs(q) :
                                   ResolveSpecifier(q, s, Files) = q}}

\* What the compiler makes of files in a sandbox: every import of a file is
\* there, and exports the names it is asked for.
Compiles(files) ==
  \A p \in DOMAIN files : IsCode(p) => \A x \in files[p].imports :
    InProject(x.spec) =>
      LET q == ResolveSpecifier(p, Bare(x.spec), DOMAIN files \cup Baked)
      IN  /\ q # None
          /\ q \in DOMAIN files => {b.name : b \in x.binds} \subseteq ExportNames(files[q].exports)

\* The files after the cut did all it was told: the two kinds it may act on.
KeptImports(p) ==
  {[spec |-> x.spec, binds |-> x.binds \ UnusedImports(p)] :
     x \in {y \in code[p].imports : y.binds = {} \/ ~(y.binds \subseteq UnusedImports(p))}}
Cut ==
  [p \in Files |-> [imports |-> KeptImports(p), exports |-> code[p].exports \ UnreferencedExports(p),
                    body |-> code[p].body, lines |-> code[p].lines]]

\* What the analyses do not see: names a file imports from itself, and files
\* of the build that are imported by a specifier with a query.
Unseen ==
  \E p \in Files : IsCode(p) /\ \E x \in code[p].imports :
    LET q == ResolveSpecifier(p, Bare(x.spec), Files \cup Baked)
    IN  q \in Files /\ (x.spec.query \/ (q = p /\ x.binds # {}))

\* Doing what the free analyses say breaks nothing that compiles: the cut of
\* unused imports and unreferenced exports (build.ts 3320, whose compiler run
\* is a check on the model), and the removal of files nothing imports.
AdviceIsSafe ==
  Compiles(code) /\ ~Unseen =>
    /\ Compiles(Cut)
    /\ Compiles([p \in Files \ OrphanFiles |-> code[p]])

\* An import of code that no sandbox has is reported by the build's repair and
\* by the review's pass alike, but for one the pass takes for a stylesheet of
\* the template; and the pass reports none the template provides when it is
\* written without extension (review-units.ts 203-211).
ImportsJudged ==
  \A p \in Files : IsCode(p) => \A s \in Specs(p) :
    s.at \in {"relative", "alias"} /\ InProject(s) /\ ~s.query =>
      IF ResolveSpecifier(p, s, Files \cup Baked) = None
      THEN /\ <<p, s>> \in FindBrokenImports
           /\ \/ <<p, s>> \in PrePassBroken
              \/ s.ext = "" /\ File(BaseOf(p, s), "css") \in Baked
      ELSE s.ext = "" => <<p, s>> \notin PrePassBroken

\* The coverage a review tells adds up over the units, whatever failed or was
\* throttled, and what it leaves out is never riskier than what it looked at
\* (code-review.ts 226-310, "it was skipped, not cleared").
CoverageHonest ==
  LET skipped == ToSet(review.left)
      seen == review.read \cup review.failed
  IN  review.at = "told" =>
        /\ review.coverage.total = Cardinality(seen \cup skipped)
        /\ review.coverage.deep = Cardinality(review.read)
        /\ review.coverage.unreviewed = Cardinality(review.failed)
        /\ review.coverage.cheapOnly = Cardinality(skipped)
        /\ \A p \in skipped, q \in seen : Risk(p) <= Risk(q)

\* The free analyses are right of every set of files, and the coverage of
\* every review: no cycle missed, no safe-looking cut that breaks the code, no
\* import misjudged (architecture.ts, dead-code.ts, import-graph.ts,
\* review-units.ts, code-review.ts).
AnalysesExact ==
  /\ review.at = "none" => CyclesExact /\ AdviceIsSafe /\ ImportsJudged
  /\ CoverageHonest

\* Files of the template are deliberately absent from a build's files, so
\* importing them is not reported as broken (import-graph.ts 200-204).
BakedNotReported ==
  \A x \in FindBrokenImports : ResolveSpecifier(x[1], x[2], Baked) = None
=============================================================================
