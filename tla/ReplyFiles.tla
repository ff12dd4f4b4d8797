----------------------------- MODULE ReplyFiles -----------------------------
(***************************************************************************)
(* Files out of replies: how a model's reply becomes files                 *)
(* (src/agents/file-parser.ts) and how runFastBuild() applies the replies  *)
(* of one build, the first and those of its repair loops, to the file map  *)
(* (src/server/routes/build.ts).                                           *)
(*                                                                         *)
(* A reply is a sequence of lines.  A line is what the parser tells apart: *)
(* a fence and what follows it, a line that is nothing but a path, a       *)
(* comment that begins with one, an edit marker, prose, a blank, or code   *)
(* with the braces it opens and closes.  A path is the sequence of its     *)
(* segments.  What a check finds, and so which loop dispatches and for     *)
(* which files, is any choice.                                             *)
(***************************************************************************)
EXTENDS Integers, Sequences, SequencesExt, FiniteSets, FiniteSetsExt

CONSTANTS Said,       \* what a reply may state: sequences of blocks
          Existing,   \* the projects an edit may start from: path -> code
          MaxRepairs  \* dispatches of the repair loops of one build

VARIABLES
  buildKind, \* [edit, framework, fullstack]
  step,      \* of runFastBuild
  stated,    \* the paths the replies applied so far stated
  deleted,   \* result.deletedFiles: what the tools of the first reply deleted
  toWrite,   \* filesToWrite
  files,     \* allFiles
  database,  \* the user's own: its tables, and schemaApply
  repairs    \* dispatches made

replyVars == <<buildKind, step, stated, deleted, toWrite, files, database, repairs>>

App     == <<"src", "App.tsx">>
Index   == <<"src", "index.tsx">>
Schema  == <<"src", "db", "schema.sql">>
Types   == <<"src", "db", "types.ts">>
Server  == <<"src", "server", "index.ts">>
Routes  == <<"src", "server", "routes", "api.ts">>
Main    == <<"src", "server", "main.py">>
Page    == <<"app", "page.tsx">>
HomeRoute == <<"app", "routes", "index.tsx">>
Styles  == <<"src", "styles.css">>
NoPath  == <<>>
NoFiles == <<>>

ASSUME ProjectAssumption ==
  MaxRepairs \in Nat /\ \A fs \in Existing : NoPath \notin DOMAIN fs

-----------------------------------------------------------------------------
(* Lines                                                                   *)

FenceLine(says, path) == [is |-> "fence", says |-> says, path |-> path]
EndFence             == FenceLine("nothing", NoPath)
Heading(path)     == [is |-> "heading", path |-> path]
Comment(path)     == [is |-> "comment", path |-> path]
Mark(which)       == [is |-> "mark", which |-> which]
ProseLine             == [is |-> "prose"]
BlankLine             == [is |-> "blank"]
CodeLine(text, opens, closes) ==
  [is |-> "code", text |-> text, opens |-> opens, closes |-> closes]

DefaultIndex == <<CodeLine("the default entry", 1, 1)>>
AppLine      == CodeLine("export default function App", 0, 0)

trim(code) ==
  LET full == {i \in DOMAIN code : code[i].is # "blank"}
  IN  IF full = {} THEN <<>> ELSE SubSeq(code, Min(full), Max(full))

\* Blank, or comments only.
isEffectivelyEmpty(code) == \A i \in DOMAIN code : code[i].is # "code"

-----------------------------------------------------------------------------
(* parseFilesFromContent                                                   *)

\* mutant of extractFencePath: a language before the path is part of it
extractFencePath_Whole(line) ==
  IF line.says = "language:path" THEN <<"tsx:" \o line.path[1]>> \o Tail(line.path)
  ELSE IF line.says \in {"filename:", "path"} THEN line.path ELSE NoPath

\* A language alone names no file.
extractFencePath(line) ==
  IF line.says \in {"filename:", "language:path", "path"} THEN line.path ELSE NoPath

\* A leading slash or ./ goes; a bare source file lives in src.
RootFiles == {"package.json", "README.md"}
normalizePath(raw) ==
  LET path == IF raw[1] \in {"", "."} THEN Tail(raw) ELSE raw
  IN  IF Len(path) = 1 /\ path[1] \notin RootFiles THEN <<"src">> \o path ELSE path

\* The path a heading above the fence gives: past blank lines, and no further
\* than the first line above when that one is neither blank nor a path.
Above(lines, i) ==
  LET at(back)   == IF i - back \in DOMAIN lines THEN lines[i - back] ELSE BlankLine
      stops(back) == at(back).is = "fence" \/ (back = 1 /\ at(back).is # "blank")
      named == {b \in 1 .. 3 : /\ at(b).is = "heading"
                               /\ \A c \in 1 .. b - 1 : at(c).is # "heading" /\ ~stops(c)}
  IN  IF named = {} THEN NoPath ELSE at(Min(named)).path

\* Two maps in one, the first one's files winning.
Merged(new, old) ==
  [p \in DOMAIN new \cup DOMAIN old |-> IF p \in DOMAIN new THEN new[p] ELSE old[p]]
Put(path, code, fs) == Merged([p \in {path} |-> code], fs)

looksLikeApp(code) == AppLine \in Range(code)

\* What a closed block adds: under the path of its fence or heading, else of
\* its first line's comment, else as the app when it looks like one.
ClaimBlock(claimed, path, body) ==
  LET code  == trim(body)
      rest  == trim(Tail(body))
      under(p, c) == Put(normalizePath(p), c, claimed)
  IN  IF code = <<>> THEN claimed
      ELSE IF path # NoPath THEN under(path, code)
      ELSE IF body[1].is = "comment"
           THEN IF rest = <<>> THEN claimed ELSE under(body[1].path, rest)
      ELSE IF looksLikeApp(code) THEN under(App, code)
      ELSE claimed

\* The path of the block that opens at a fence.
PathAt(lines, i) ==
  IF extractFencePath(lines[i]) # NoPath THEN extractFencePath(lines[i]) ELSE Above(lines, i)

\* A fence opens or closes a block; a line between them is its own.
ReadLine(s, lines, i) ==
  IF lines[i].is # "fence"
  THEN IF s.open THEN [s EXCEPT !.body = Append(@, lines[i])] ELSE s
  ELSE IF s.open
       THEN [s EXCEPT !.open = FALSE, !.claimed = ClaimBlock(@, s.path, s.body)]
       ELSE [s EXCEPT !.open = TRUE, !.body = <<>>, !.path = PathAt(lines, i)]

NothingRead == [open |-> FALSE, path |-> NoPath, body |-> <<>>, claimed |-> NoFiles]

\* Fence by fence: a later block of the same path wins, an unclosed block is
\* taken as it is, and the entry point is added when the reply has none.
parseFilesFromContent(lines) ==
  LET read[n \in 0 .. Len(lines)] ==
        IF n = 0 THEN NothingRead ELSE ReadLine(read[n - 1], lines, n)
      end == read[Len(lines)]
      all == IF end.open THEN ClaimBlock(end.claimed, end.path, end.body) ELSE end.claimed
  IN  Merged(all, [p \in {Index} |-> DefaultIndex])

Summarise(s, line) ==
  IF line.is = "fence" THEN [s EXCEPT !.inFence = ~@]
  ELSE IF s.inFence \/ line.is \in {"heading", "blank"} THEN s
  ELSE [s EXCEPT !.out = Append(@, line)]

\* extractBuildSummary: what stands outside the fences and announces no file.
extractBuildSummary(lines) ==
  LET read[n \in 0 .. Len(lines)] ==
        IF n = 0 THEN [inFence |-> FALSE, out |-> <<>>] ELSE Summarise(read[n - 1], lines[n])
  IN  read[Len(lines)].out

-----------------------------------------------------------------------------
(* Edits inside a file                                                     *)

stripEditMarkers(code) == SelectSeq(code, LAMBDA line : line.is # "mark")

\* The blocks between BEGIN_EDIT and END_EDIT (or the end).
parseSurgicalEdits(code) ==
  LET Read(s, line) ==
        IF line = Mark("begin") /\ ~s.open THEN [s EXCEPT !.open = TRUE, !.block = <<>>]
        ELSE IF line = Mark("end") /\ s.open
             THEN [s EXCEPT !.open = FALSE, !.edits = Append(@, trim(s.block))]
        ELSE IF s.open THEN [s EXCEPT !.block = Append(@, line)] ELSE s
      end == FoldLeft(Read, [open |-> FALSE, block |-> <<>>, edits |-> <<>>], code)
      all == IF end.open THEN Append(end.edits, trim(end.block)) ELSE end.edits
  IN  SelectSeq(all, LAMBDA e : e # <<>>)

\* The last line of the block that begins at the anchor: where the braces
\* opened since are closed again; the anchor itself when neither it nor the
\* line after it opens one, or when they never close.
BlockEnd(code, anchor) ==
  LET upTo(i)  == anchor .. i
      opens(i) == MapThenSumSet(LAMBDA j : IF code[j].is = "code" THEN code[j].opens ELSE 0, upTo(i))
      shuts(i) == MapThenSumSet(LAMBDA j : IF code[j].is = "code" THEN code[j].closes ELSE 0, upTo(i))
      ends == {i \in anchor .. Len(code) : opens(i) > 0 /\ shuts(i) >= opens(i)}
  IN  IF anchor < Len(code) /\ opens(anchor + 1) = 0 THEN anchor
      ELSE IF ends = {} THEN anchor ELSE Min(ends)

\* The edit replaces the block its first line of code begins, else is added
\* at the end.
applySurgicalEdit(code, edit) ==
  LET lines == {i \in DOMAIN edit : edit[i].is = "code"}
      found == IF lines = {} THEN {} ELSE {i \in DOMAIN code : code[i] = edit[Min(lines)]}
  IN  IF lines = {} THEN code
      ELSE IF found = {} THEN code \o edit
      ELSE SubSeq(code, 1, Min(found) - 1) \o edit
             \o SubSeq(code, BlockEnd(code, Min(found)) + 1, Len(code))
-----------------------------------------------------------------------------
(* What a reply states                                                     *)

\* A reply is stated as blocks, [form, path, raw, gap, body, closed]: the file,
\* how its path is written and where, blank lines between a heading and its
\* fence, the code, and whether the reply got as far as the closing fence.
LeadIn(b) ==
  IF b.form = "heading"
  THEN <<Heading(b.raw)>> \o [i \in 1 .. b.gap |-> BlankLine] \o <<FenceLine("language", NoPath)>>
  ELSE IF b.form \in {"comment", "none"} THEN <<FenceLine("language", NoPath)>>
  ELSE <<FenceLine(b.form, b.raw)>>
Fenced(b) == IF b.form = "comment" THEN <<Comment(b.raw)>> \o b.body ELSE b.body
Rendered(b) ==
  <<ProseLine>> \o LeadIn(b) \o Fenced(b) \o (IF b.closed THEN <<EndFence>> ELSE <<>>)

Lines(blocks) == FlattenSeq([i \in DOMAIN blocks |-> Rendered(blocks[i])])

\* No fence is part of a file.
TextLine == [is : {"heading", "comment"}, path : Seq(STRING)]
              \cup [is : {"mark"}, which : {"begin", "end"}] \cup [is : {"prose", "blank"}]
              \cup [is : {"code"}, text : STRING, opens : Nat, closes : Nat]
StatedBlock ==
  [form : {"filename:", "language:path", "path", "heading", "comment", "none"},
   path : Seq(STRING), raw : Seq(STRING), gap : 0 .. 2, body : Seq(TextLine), closed : BOOLEAN]

\* The path is the one meant, and only the last block may be cut off.
ASSUME SaidAssumption ==
  /\ Said \subseteq Seq(StatedBlock)
  /\ \A blocks \in Said : \A i \in DOMAIN blocks :
       LET b == blocks[i]
       IN  /\ b.form # "none" => b.raw # NoPath /\ b.path # NoPath /\ normalizePath(b.raw) = b.path
           /\ b.form = "none" /\ b.body # <<>> => b.body[1].is # "comment"
           /\ i < Len(blocks) => b.closed

\* The files a reader sees in it.
AddStated(all, b) ==
  IF trim(b.body) = <<>> THEN all
  ELSE IF b.form # "none" THEN Put(b.path, trim(b.body), all)
  ELSE IF looksLikeApp(b.body) THEN Put(App, trim(b.body), all)
  ELSE all
Stated(blocks) ==
  LET seen[n \in 0 .. Len(blocks)] ==
        IF n = 0 THEN NoFiles ELSE AddStated(seen[n - 1], blocks[n])
  IN  seen[Len(blocks)]

Parsed(blocks) == parseFilesFromContent(Lines(blocks))

-----------------------------------------------------------------------------
(* The first reply                                                         *)

Among(fs, paths) == [p \in DOMAIN fs \cap paths |-> fs[p]]
Without(fs, paths) == [p \in DOMAIN fs \ paths |-> fs[p]]

EntryPoint ==
  [react |-> App, nextjs |-> Page, tanstack |-> HomeRoute][buildKind.framework]
isTemplateOwnedFile(path) == path \in {<<"package.json">>, <<"src", "lib", "utils.ts">>, Styles}

Marked(code) == \E i \in DOMAIN code : code[i].is = "mark"

\* result.generatedFiles: the tools write whole files, and not the template's.
generatedFiles(blocks) ==
  Among(Stated(blocks),
        {p \in DOMAIN Stated(blocks) : ~isTemplateOwnedFile(p) /\ ~Marked(Stated(blocks)[p])})

\* Written with the tools, or not at all, which on an edit is a decision and
\* on a new build calls the fix agent; else read out of the reply.
FirstFiles(blocks, how) ==
  CASE how = "tools"            -> generatedFiles(blocks)
    [] how = "reply"            -> Parsed(blocks)
    [] how = "none" /\ buildKind.edit -> NoFiles
    [] OTHER                    -> Parsed(blocks)

\* What a full-stack build must have; with FastAPI, its server is main.py.
Filled(fs, path) == path \in DOMAIN fs /\ ~isEffectivelyEmpty(fs[path])
Required(fs) ==
  CASE Filled(fs, Main)                -> {Types, Main}
    [] buildKind.framework = "react" -> {Types, Schema, Server, Routes}
    [] OTHER                        -> {Types, EntryPoint}
findMissingFullstackFiles(fs) == {p \in Required(fs) : ~Filled(fs, p)}

\* delete_file takes any file there is but the entry points and the template's;
\* one written again afterwards is no longer deleted.  Without a tool call
\* nothing is.  Of the files written first and then deleted: the required.
PROTECTED_ENTRY_POINTS == {App, Page, HomeRoute}
Deletable(blocks, how) ==
  LET known == {p \in DOMAIN files \cup Required(NoFiles) :
                  p \notin PROTECTED_ENTRY_POINTS /\ ~isTemplateOwnedFile(p)}
  IN  CASE how = "tools" -> known \ DOMAIN generatedFiles(blocks)
        [] how = "none"  -> known
        [] OTHER         -> {}

\* What the tools deleted goes from the copy of the project.  Boilerplate
\* another framework has no use for goes, and so do files with nothing in them;
\* a new build without its entry point has failed.
FirstReply ==
  /\ step = "first"
  /\ \E blocks \in Said, how \in {"tools", "reply", "none"} :
       LET boilerplate == IF buildKind.framework = "react" THEN {} ELSE {Index}
           parsed == Without(FirstFiles(blocks, how), boilerplate)
           full   == Among(parsed, {p \in DOMAIN parsed : ~isEffectivelyEmpty(parsed[p])})
       IN  /\ deleted' \in SUBSET Deletable(blocks, how)
           /\ step' = IF ~buildKind.edit /\ EntryPoint \notin DOMAIN full THEN "ended" ELSE "retry"
           /\ toWrite' = IF full = NoFiles THEN [p \in {<<"output.md">>} |-> <<ProseLine>>]
                          ELSE full
           /\ stated' = IF full = NoFiles THEN {<<"output.md">>} ELSE DOMAIN Stated(blocks)
  /\ files' = Without(files, deleted')
  /\ UNCHANGED <<buildKind, database, repairs>>

\* The user's cancel is seen before the reply is read, or among the files that
\* are written; or the reply was calls of connected services, and no files.
EndEarly ==
  /\ step \in {"first", "write"} /\ step' = "ended"
  /\ UNCHANGED <<buildKind, stated, deleted, toWrite, files, database, repairs>>

\* One dispatch of a repair: its reply is read, and so are its paths.
Dispatches(blocks) ==
  /\ repairs < MaxRepairs /\ repairs' = repairs + 1
  /\ stated' = stated \cup DOMAIN Stated(blocks)

Overlay(fs, fixed, allowed) == Merged(Among(fixed, allowed), fs)

\* The files a full-stack build must have, asked for once more.
RetryMissing ==
  /\ step = "retry" /\ buildKind.fullstack /\ findMissingFullstackFiles(toWrite) # {}
  /\ \E blocks \in Said :
       /\ Dispatches(blocks)
       /\ toWrite' = Overlay(toWrite, Parsed(blocks), findMissingFullstackFiles(toWrite))
  /\ step' = "syntax"
  /\ UNCHANGED <<buildKind, deleted, files, database>>

\* Files that do not parse, or exports nothing imports: then any file of the
\* set may come back.
FixSyntax ==
  /\ step = "syntax"
  /\ \E blocks \in Said, allowed \in SUBSET DOMAIN toWrite :
       /\ Dispatches(blocks)
       /\ toWrite' = Overlay(toWrite, Parsed(blocks), allowed)
  /\ UNCHANGED <<buildKind, step, deleted, files, database>>

-----------------------------------------------------------------------------
(* Writing                                                                 *)

validAppTsx(code) ==
  LET count(i) == IF code[i].is = "code" THEN code[i].opens - code[i].closes ELSE 0
  IN  /\ AppLine \in Range(code) /\ \A i \in DOMAIN code : code[i].is # "mark"
      /\ MapThenSumSet(count, DOMAIN code) \in -3 .. 3

\* Nothing but the block of tokens (and comments).
isRootOnlyCSS(code) ==
  LET lines == SelectSeq(code, LAMBDA line : line.is = "code")
  IN  lines = <<>> \/ (lines[1].text = ":root" /\ BlockEnd(lines, 1) = Len(lines))

\* What an edit asks for decides on the stylesheet: its tokens alone, the
\* theme, or something else.  A path out of the directory, the stylesheet on
\* an edit that is not about the theme and an App.tsx that does not look whole
\* are passed over.
PassedOver(path, asks) ==
  \/ path[1] = ".."
  \/ path = Styles /\ asks = "other"
  \/ path = App /\ ~validAppTsx(toWrite[path])

\* Marked edits, or the tokens alone, go into the file there is.
Final(path, asks) ==
  LET code  == toWrite[path]
      edits == parseSurgicalEdits(code)
      old   == IF path \in DOMAIN files THEN files[path] ELSE <<>>
  IN  stripEditMarkers(
        IF edits # <<>> THEN FoldLeft(applySurgicalEdit, old, edits)
        ELSE IF path = Styles /\ asks = "tokens" /\ isRootOnlyCSS(code) /\ old # <<>>
             THEN applySurgicalEdit(old, code)
        ELSE code)

Written(asks) ==
  [p \in {q \in DOMAIN toWrite : ~PassedOver(q, asks)} |-> Final(p, asks)]

\* mutant of WriteFiles: what an edit did not write is not carried over
WriteFiles_WrittenOnly ==
  /\ step = "write"
  /\ files' = Without(IF buildKind.edit THEN Written("theme") ELSE toWrite, deleted)
  /\ step' = "schema"
  /\ UNCHANGED <<buildKind, stated, deleted, toWrite, database, repairs>>

\* An edit starts from a copy of the project; a new build's map is what the
\* reply held.  What the tools deleted is in neither, whoever wrote it again.
WriteFiles ==
  /\ step = "write"
  /\ \E asks \in {"tokens", "theme", "other"} :
       /\ asks = "tokens" => Styles \in DOMAIN files
       /\ files' = Without(IF buildKind.edit THEN Merged(Written(asks), files) ELSE toWrite,
                           deleted)
  /\ step' = "schema"
  /\ UNCHANGED <<buildKind, stated, deleted, toWrite, database, repairs>>

-----------------------------------------------------------------------------
(* The repair loops over allFiles                                          *)

applyParsedFiles(target, parsed, allowNew, only) ==
  LET may == {p \in DOMAIN parsed \cap only : /\ trim(parsed[p]) # <<>>
                                              /\ allowNew \/ p \in DOMAIN target
                                              /\ ~isTemplateOwnedFile(p)}
  IN  Overlay(target, parsed, may)

declaredTables(fs) ==
  IF Schema \in DOMAIN fs THEN {line.text : line \in {l \in Range(fs[Schema]) : l.is = "code"}} ELSE {}

\* A schema that lost a table is put back.
Schemaed(parsed) ==
  LET new == applyParsedFiles(files, parsed, TRUE, {Schema, Types})
  IN  IF declaredTables(files) \subseteq declaredTables(new) THEN new ELSE files

\* The security loop also takes a path that is the end of a known one: of
\* the first there is.
EndsLike(path, known) == known = path \/ IsSuffix(path, known)
Target(path) ==
  IF path \in DOMAIN files THEN path ELSE CHOOSE k \in DOMAIN files : EndsLike(path, k)
Resolved(parsed) ==
  [k \in DOMAIN files |->
     LET here == {p \in DOMAIN parsed : EndsLike(p, k) /\ Target(p) = k}
     IN  IF k \in DOMAIN parsed THEN parsed[k]
         ELSE IF here # {} THEN parsed[CHOOSE p \in here : TRUE] ELSE files[k]]

\* Findings about stored fakes, broken imports and what the edits left behind:
\* the cut is undone when the types break, the audit's repair when it is judged
\* no better.
FakesTaken(parsed)    == applyParsedFiles(files, parsed, FALSE, DOMAIN parsed)
ImportsMended(parsed) == applyParsedFiles(files, parsed, TRUE, DOMAIN parsed)
CutOut(parsed)        == {files, applyParsedFiles(files, parsed, FALSE, DOMAIN parsed)}
Audited(parsed)       == {files, applyParsedFiles(files, parsed, TRUE, DOMAIN parsed)}

\* What renders but does nothing: of known files.  A backend that did not start:
\* of the server's.  Type errors, and a page that does not render: of those the
\* findings name.
Wired(parsed)       == Overlay(files, parsed, DOMAIN files)
ServerMended(parsed) ==
  Overlay(files, parsed, {p \in DOMAIN parsed : IsPrefix(<<"src", "server">>, p)})
TypesMended(parsed) ==
  {Overlay(files, parsed, affected) : affected \in SUBSET (DOMAIN files \cap DOMAIN parsed)}

NextStep == [retry |-> "syntax", syntax |-> "write", schema |-> "security", security |-> "fakes",
          fakes |-> "wiring", wiring |-> "imports", imports |-> "cut", cut |-> "apply",
          server |-> "types", types |-> "audit", audit |-> "done"]
Loops == {"schema", "security", "fakes", "wiring", "imports", "cut", "server", "types", "audit"}

Repair ==
  /\ step \in Loops
  /\ \E blocks \in Said :
       LET parsed == Parsed(blocks)
       IN  /\ Dispatches(blocks)
           /\ \/ step = "schema"   /\ files' = Schemaed(parsed)
              \/ step = "security" /\ files' = Resolved(parsed)
              \/ step = "fakes"    /\ files' = FakesTaken(parsed)
              \/ step = "wiring"   /\ files' = Wired(parsed)
              \/ step = "imports"  /\ files' = ImportsMended(parsed)
              \/ step = "cut"      /\ files' \in CutOut(parsed)
              \/ step = "server"   /\ files' = ServerMended(parsed)
              \/ step = "types"    /\ files' \in TypesMended(parsed)
              \/ step = "audit"    /\ files' \in Audited(parsed)
  /\ UNCHANGED <<buildKind, step, deleted, toWrite, database>>

\* Nothing (more) to repair, out of attempts or of money, or a dispatch failed.
GoOn ==
  /\ step \in DOMAIN NextStep
  /\ step' = NextStep[step]
  /\ UNCHANGED <<buildKind, stated, deleted, toWrite, files, database, repairs>>

\* The generated schema runs in the user's own database, before the preview
\* and the loops that drive it; a timeout is told as a failure.
ApplySchema ==
  /\ step = "apply" /\ step' = "server"
  /\ database' \in
       IF ~buildKind.fullstack \/ Schema \notin DOMAIN files THEN {database}
       ELSE {database,
             [tables |-> declaredTables(files), told |-> "applied"],
             [tables |-> declaredTables(files), told |-> "failed"],
             [database EXCEPT !.told = "failed"]}
  /\ UNCHANGED <<buildKind, stated, deleted, toWrite, files, repairs>>

ReplyStart(on) ==
  /\ buildKind \in [edit : BOOLEAN, framework : {"react", "nextjs", "tanstack"}, fullstack : BOOLEAN]
  /\ ~(buildKind.edit /\ buildKind.fullstack)
  /\ step = (IF on THEN "first" ELSE "off")
  /\ files \in (IF buildKind.edit THEN Existing ELSE {NoFiles})
  /\ stated = {} /\ deleted = {} /\ toWrite = NoFiles /\ repairs = 0
  /\ database = [tables |-> {}, told |-> "nothing"]

ReplyNext ==
  FirstReply \/ EndEarly \/ RetryMissing \/ FixSyntax \/ WriteFiles \/ Repair \/ GoOn \/ ApplySchema

-----------------------------------------------------------------------------
(* Properties                                                              *)

\* A file map never holds a file without code or comment, nor one without a path.
ReplyTypeOK ==
  /\ step \in {"off", "first", "ended", "write", "apply", "done"} \cup DOMAIN NextStep
  /\ \A p \in DOMAIN toWrite : p # NoPath /\ trim(toWrite[p]) # <<>>
  /\ \A p \in DOMAIN files : p # NoPath
  /\ repairs \in 0 .. MaxRepairs

\* What is read of a reply is what it states, and the entry point.
ReadsBack(blocks) ==
  /\ Parsed(blocks) = Merged(Stated(blocks), [p \in {Index} |-> DefaultIndex])
  /\ Range(extractBuildSummary(Lines(blocks))) \subseteq {ProseLine}

\* A reply in the forms the prompts ask for, or the ones models use instead,
\* gives exactly the files it states, whichever way each path is written,
\* the last block of a path winning and a cut-off one taken as it stands; no
\* line of them is repeated as the model's own words (file-parser.ts
\* 207-322, 613-660).
FilesReadBack == step = "first" => \A blocks \in Said : ReadsBack(blocks)

Covered(path) == \E p \in stated' : EndsLike(p, path)
Kept(paths) ==
  \A p \in DOMAIN files \cap paths :
    IF p \in DOMAIN files' THEN files'[p] # files[p] => Covered(p)
    ELSE step = "first" /\ p \in deleted'

\* Apart from the entry point, and what the security loop takes for it because
\* its path ends like it: a file the project has changes only where some reply
\* of this build stated it, and is lost only where the tools of the first reply
\* deleted it and before anything is written, through the parse, the writing of
\* an edit and every repair loop (build.ts 1826-4560).
OthersKept == [][Kept({p \in DOMAIN files : ~EndsLike(Index, p)})]_replyVars

\* The same of every file.  Not so: a reply without src/index.tsx is read as
\* one with the default entry point, and the loops that may change a known
\* file write that over the app's own (file-parser.ts 309-312).
EveryFileKept == [][Kept(DOMAIN files)]_replyVars

\* What the tools deleted stays away, so that the stored copy, from which its
\* path is taken once more (build.ts 3448), lacks nothing that is delivered.  Not
\* so: a loop may write it again.
DeletedStayAway == step = "apply" => DOMAIN files \cap deleted = {}

\* An app keeps an entry point with code in it.  Not so: a fix may bring it
\* back as nothing but a comment; only the first reply is looked at.
EntryStays ==
  step \in Loops \cup {"done"} /\ ~buildKind.edit =>
    EntryPoint \in DOMAIN files /\ ~isEffectivelyEmpty(files[EntryPoint])

\* A schema reported applied is the one delivered.  Not so: later loops may
\* rewrite it.
AppliedIsDelivered ==
  step = "done" /\ database.told = "applied" => database.tables = declaredTables(files)

\* An anchor that opens no block is replaced alone.  Not so when the line
\* after it opens one (file-parser.ts 397-405).
SingleLineStaysSingle ==
  \A p \in DOMAIN files : \A i \in DOMAIN files[p] :
    files[p][i].is = "code" /\ files[p][i].opens = 0 => BlockEnd(files[p], i) = i
=============================================================================
