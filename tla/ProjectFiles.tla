---------------------------- MODULE ProjectFiles ----------------------------
(***************************************************************************)
(* The copies of a project's files while a build's tools work on it: what  *)
(* the build knew at its start (projectFiles), what it wrote and what it   *)
(* deleted (generatedFiles, deletedFiles), the live copy in the sandbox,   *)
(* the stored copy, the checkpoints, and the output directory the next     *)
(* build starts from.  write_files, edit_file, delete_file, checkpoint and *)
(* revert of src/agents/tools, with the uploads of                         *)
(* src/storage/project-files.ts and the ends of a build in                 *)
(* src/server/routes/build.ts.                                             *)
(*                                                                         *)
(* Tool calls run one after the other.  An action is the code of a handler *)
(* from one await to the next; paths the tools refuse are no Path.         *)
(***************************************************************************)
EXTENDS Naturals, FiniteSets, SequencesExt

CONSTANTS Path, Content, None,
          Label, MaxCheckpoints,
          Faults \* "sandbox", "storage": a call fails, perhaps after it took
                 \* effect; "slow": an upload times out; "cut": a project is
                 \* larger than what a build is told of it

ASSUME ConstantsAssumption ==
  /\ None \notin Content
  /\ None \notin Path
  /\ MaxCheckpoints \in Nat \ {0}
  /\ Faults \subseteq {"sandbox", "storage", "slow", "cut"}

VARIABLES
  baseline, generated, deleted, checkpoints, \* the build's memory
  live, stored,       \* the copies in the sandbox and in storage
  late,               \* uploads that timed out and may still land
  succeeded, disk,    \* a build was recorded a success; the files in the
                      \* output directory of the last one
  place,              \* the await the handler at work has reached
  given,              \* the files a call writes, or those a revert restores
  todo, tried, cur,   \* paths ahead, paths a revert began, the path at hand
  \* observed only
  unsureLive, unsureStored, \* copies that were never in step, or that a reply
                            \* or a log line has called incomplete
  abandoned           \* paths with an upload that timed out

memory   == <<baseline, generated, deleted, checkpoints>>
handler  == <<place, given, todo, tried, cur>>
observed == <<unsureLive, unsureStored, abandoned>>
results  == <<succeeded, disk>>
vars == <<memory, live, stored, late, results, handler, observed>>

Files   == [Path -> Content \cup {None}]
Nothing == [p \in Path |-> None]

Has(f) == {p \in Path : f[p] # None}

\* f where it has something, else g.
Over(f, g) == [p \in Path |-> IF f[p] # None THEN f[p] ELSE g[p]]

\* f on the paths of S, else g.
On(S, f, g) == [p \in Path |-> IF p \in S THEN f[p] ELSE g[p]]

\* currentProjectFiles(): edits over the start of the build, then tombstones.
Current == On(deleted, Nothing, Over(generated, baseline))

Uploads == [path : Path, content : Content]

Places == {"idle", "push", "store", "delLive", "delStored", "putBack",
           "revLive", "revStored", "undoLive", "undoStored",
           "save", "verify", "over", "lost"}

TypeOK ==
  /\ baseline \in Files /\ generated \in Files /\ deleted \subseteq Path
  /\ checkpoints \in Seq([label : Label, files : Files])
  /\ Len(checkpoints) <= MaxCheckpoints
  /\ live \in Files /\ stored \in Files
  /\ late \subseteq Uploads
  /\ succeeded \in BOOLEAN /\ disk \in Files
  /\ place \in Places
  /\ given \in Files
  /\ todo \subseteq Path /\ tried \subseteq Path /\ cur \in Path \cup {None}
  /\ unsureLive \subseteq Path /\ unsureStored \subseteq Path
  /\ abandoned \subseteq Path

Differ(f, g) == {p \in Path : f[p] # g[p]}

\* The server has started: what earlier builds left is in storage.
Init ==
  /\ stored \in Files
  /\ succeeded \in BOOLEAN
  /\ disk = Nothing /\ live = Nothing /\ late = {}
  /\ baseline = Nothing /\ generated = Nothing /\ deleted = {} /\ checkpoints = <<>>
  /\ place = "lost"
  /\ given = Nothing
  /\ todo = {} /\ tried = {} /\ cur = None
  /\ unsureLive = {} /\ unsureStored = {} /\ abandoned = {}

-----------------------------------------------------------------------------
(* write_files and edit_file                                               *)

\* On to another place: the locals of the handler are gone.
Leave(next) ==
  /\ place' = next
  /\ given' = Nothing /\ todo' = {} /\ tried' = {} /\ cur' = None

Reply == Leave("idle")

\* The files of the call are recorded before anything is awaited.
Record(f) ==
  /\ place = "idle"
  /\ generated' = Over(f, generated)
  /\ deleted' = deleted \ Has(f)
  /\ given' = f
  /\ place' = "push"
  /\ UNCHANGED <<baseline, checkpoints, live, stored, late, results, todo, tried, cur,
                 observed>>

WriteFiles(f) ==
  /\ Has(f) # {}
  /\ Record(f)

\* Only of a file that is there, in memory or else in the sandbox.  The text has
\* to change, but c may be the same Content: one stands for many texts.
EditFile(p, c) ==
  LET read == IF Current[p] # None THEN Current[p] ELSE live[p]
  IN  /\ p \notin deleted
      /\ read # None
      /\ Record([Nothing EXCEPT ![p] = c])

\* mutant of Push: the sandbox gets the files of this call only
Push_GivenOnly ==
  /\ place = "push"
  /\ live' = Over(given, live)
  /\ unsureLive' = unsureLive \ Has(Current)
  /\ place' = "store"
  /\ UNCHANGED <<memory, stored, late, results, given, todo, tried, cur, unsureStored, abandoned>>

\* writeFilesToSandbox() of the whole project.
Push ==
  /\ place = "push"
  /\ live' = Over(Current, live)
  /\ unsureLive' = unsureLive \ Has(Current)
  /\ place' = "store"
  /\ UNCHANGED <<memory, stored, late, results, given, todo, tried, cur, unsureStored, abandoned>>

\* It throws, some files written: the reply will be an error.
PushFails ==
  /\ place = "push"
  /\ "sandbox" \in Faults
  /\ \E S \in SUBSET Has(Current) : live' = On(S, Current, live)
  /\ unsureLive' = unsureLive \cup Has(Current)
  /\ place' = "store"
  /\ UNCHANGED <<memory, stored, late, results, given, todo, tried, cur, unsureStored, abandoned>>

\* The uploads of F did not succeed: what the build knows of those of the other
\* files is stored.
Uploaded(F) ==
  /\ unsureStored' = (unsureStored \ (Has(given) \cap Has(Current))) \cup F
  /\ Leave(IF place = "save" THEN "verify" ELSE "idle")
  /\ UNCHANGED <<memory, live, results, unsureLive>>

\* persistFilesAsWritten(): the uploads of F fail, which is logged, some of
\* them after all.
Store(F) ==
  /\ place \in {"store", "save"}
  /\ F \subseteq Has(given)
  /\ F # {} => "storage" \in Faults
  /\ \E S \in SUBSET F : stored' = On((Has(given) \ F) \cup S, given, stored)
  /\ Uploaded(F)
  /\ UNCHANGED <<late, abandoned>>

\* ... or those of F have not ended when the race is lost.
StoreTimesOut(F) ==
  /\ place \in {"store", "save"}
  /\ "slow" \in Faults
  /\ F \subseteq Has(given) /\ F # {}
  /\ stored' = On(Has(given) \ F, given, stored)
  /\ late' = late \cup {[path |-> p, content |-> given[p]] : p \in F}
  /\ abandoned' = abandoned \cup F
  /\ Uploaded(F)

\* A request that was given up is carried out all the same.
LateUpload(u) ==
  /\ u \in late
  /\ late' = late \ {u}
  /\ stored' = [stored EXCEPT ![u.path] = u.content]
  /\ UNCHANGED <<memory, live, results, handler, observed>>

-----------------------------------------------------------------------------
(* delete_file                                                             *)

\* The paths that are not there are only reported.
DeleteFiles(D) ==
  /\ place = "idle"
  /\ D \subseteq Has(Current) /\ D # {}
  /\ todo' = D
  /\ place' = "delLive"
  /\ UNCHANGED <<memory, live, stored, late, results, given, tried, cur, observed>>

\* On to the other paths of the call, or its reply.
NextDelete(rest) ==
  \/ /\ rest # {}
     /\ place' = "delLive"
     /\ todo' = rest
     /\ UNCHANGED <<given, tried, cur>>
  \/ rest = {} /\ Reply

DeleteLive(p) ==
  /\ place = "delLive"
  /\ p \in todo
  /\ live' = [live EXCEPT ![p] = None]
  /\ todo' = todo \ {p}
  /\ cur' = p
  /\ place' = "delStored"
  /\ UNCHANGED <<memory, stored, late, results, given, tried, observed>>

DeleteLiveFails(p) ==
  /\ place = "delLive"
  /\ "sandbox" \in Faults
  /\ p \in todo
  /\ live' \in {live, [live EXCEPT ![p] = None]}
  /\ unsureLive' = unsureLive \cup {p}
  /\ NextDelete(todo \ {p})
  /\ UNCHANGED <<memory, stored, late, results, unsureStored, abandoned>>

\* Both copies are gone: commitFileDeletion().
DeleteStored ==
  /\ place = "delStored"
  /\ stored' = [stored EXCEPT ![cur] = None]
  /\ generated' = [generated EXCEPT ![cur] = None]
  /\ deleted' = deleted \cup {cur}
  /\ unsureLive' = unsureLive \ {cur}
  /\ unsureStored' = unsureStored \ {cur}
  /\ NextDelete(todo)
  /\ UNCHANGED <<baseline, checkpoints, live, late, results, abandoned>>

DeleteStoredFails ==
  /\ place = "delStored"
  /\ "storage" \in Faults
  /\ stored' \in {stored, [stored EXCEPT ![cur] = None]}
  /\ unsureStored' = unsureStored \cup {cur}
  /\ place' = "putBack"
  /\ UNCHANGED <<memory, live, late, results, given, todo, tried, cur, unsureLive, abandoned>>

\* The live copy is written again.
PutBack ==
  /\ place = "putBack"
  /\ live' = [live EXCEPT ![cur] = Current[cur]]
  /\ unsureLive' = unsureLive \ {cur}
  /\ NextDelete(todo)
  /\ UNCHANGED <<memory, stored, late, results, unsureStored, abandoned>>

PutBackFails ==
  /\ place = "putBack"
  /\ "sandbox" \in Faults
  /\ live' \in {live, [live EXCEPT ![cur] = Current[cur]]}
  /\ unsureLive' = unsureLive \cup {cur}
  /\ NextDelete(todo)
  /\ UNCHANGED <<memory, stored, late, results, unsureStored, abandoned>>

-----------------------------------------------------------------------------
(* checkpoint and revert                                                   *)

Snapshot(l) == [label |-> l, files |-> Current]

Labels == {checkpoints[i].label : i \in DOMAIN checkpoints}

\* A new label, in place of the oldest one when there are enough.
NewCheckpoint(l) ==
  /\ place = "idle"
  /\ l \notin Labels
  /\ checkpoints' = Append(IF Len(checkpoints) >= MaxCheckpoints
                           THEN Tail(checkpoints) ELSE checkpoints, Snapshot(l))
  /\ UNCHANGED <<baseline, generated, deleted, live, stored, late, results, handler, observed>>

\* The same label again becomes the newest.
ReplaceCheckpoint(i) ==
  /\ place = "idle"
  /\ i \in DOMAIN checkpoints
  /\ checkpoints' = Append(RemoveAt(checkpoints, i), Snapshot(checkpoints[i].label))
  /\ UNCHANGED <<baseline, generated, deleted, live, stored, late, results, handler, observed>>

\* restorePlan(): the paths that differ, those to write before those to delete.
ToWrite  == {p \in Has(given) : Current[p] # given[p]}
ToDelete == Has(Current) \ Has(given)

Revert(i) ==
  /\ place = "idle"
  /\ i \in DOMAIN checkpoints
  /\ Differ(checkpoints[i].files, Current) # {}
  /\ given' = checkpoints[i].files
  /\ todo' = Differ(checkpoints[i].files, Current)
  /\ place' = "revLive"
  /\ UNCHANGED <<memory, live, stored, late, results, tried, cur, observed>>

Turn(p) == p \in todo /\ (p \in ToWrite \/ todo \cap ToWrite = {})

RevertLive(p) ==
  /\ place = "revLive"
  /\ Turn(p)
  /\ live' = [live EXCEPT ![p] = given[p]]
  /\ tried' = tried \cup {p}
  /\ cur' = p
  /\ place' = "revStored"
  /\ UNCHANGED <<memory, stored, late, results, given, todo, observed>>

\* The rollback goes through the paths that were begun.
RevertLiveFails(p) ==
  /\ place = "revLive"
  /\ "sandbox" \in Faults
  /\ Turn(p)
  /\ live' \in {live, [live EXCEPT ![p] = given[p]]}
  /\ todo' = tried \cup {p}
  /\ place' = "undoLive"
  /\ UNCHANGED <<memory, stored, late, results, given, tried, cur, observed>>

\* mutant of RevertStored: an upload or a removal that fails goes unnoticed
RevertStored_Forgiving ==
  /\ place = "revStored"
  /\ todo # {cur}
  /\ stored' \in {stored, [stored EXCEPT ![cur] = given[cur]]}
  /\ todo' = todo \ {cur}
  /\ place' = "revLive"
  /\ UNCHANGED <<memory, live, late, results, given, tried, cur, observed>>

RevertStored ==
  /\ place = "revStored"
  /\ todo # {cur}
  /\ stored' = [stored EXCEPT ![cur] = given[cur]]
  /\ todo' = todo \ {cur}
  /\ place' = "revLive"
  /\ UNCHANGED <<memory, live, late, results, given, tried, cur, observed>>

\* mutant of ApplyCheckpoint: a file that is written again keeps its tombstone
ApplyCheckpoint_KeepsTombstones ==
  /\ generated' = [p \in Path |->
       IF p \in ToWrite THEN IF baseline[p] = given[p] THEN None ELSE given[p]
       ELSE IF p \in ToDelete THEN None ELSE generated[p]]
  /\ deleted' = (deleted \ ToDelete) \cup (ToDelete \cap Has(baseline))

\* applyCheckpointToState(): what is as it was at the start needs no entry.
ApplyCheckpoint ==
  /\ generated' = [p \in Path |->
       IF p \in ToWrite THEN IF baseline[p] = given[p] THEN None ELSE given[p]
       ELSE IF p \in ToDelete THEN None ELSE generated[p]]
  /\ deleted' = (deleted \ (ToWrite \cup ToDelete)) \cup (ToDelete \cap Has(baseline))

\* The last path: memory follows the copies.
RevertDone ==
  /\ place = "revStored"
  /\ todo = {cur}
  /\ stored' = [stored EXCEPT ![cur] = given[cur]]
  /\ ApplyCheckpoint
  /\ unsureLive' = unsureLive \ tried
  /\ unsureStored' = unsureStored \ tried
  /\ Reply
  /\ UNCHANGED <<baseline, checkpoints, live, late, results, abandoned>>

RevertStoredFails ==
  /\ place = "revStored"
  /\ "storage" \in Faults
  /\ stored' \in {stored, [stored EXCEPT ![cur] = given[cur]]}
  /\ todo' = tried
  /\ place' = "undoLive"
  /\ UNCHANGED <<memory, live, late, results, given, tried, cur, observed>>

UndoLive(p) ==
  /\ place = "undoLive"
  /\ p \in todo
  /\ live' = [live EXCEPT ![p] = Current[p]]
  /\ unsureLive' = unsureLive \ {p}
  /\ cur' = p
  /\ place' = "undoStored"
  /\ UNCHANGED <<memory, stored, late, results, given, todo, tried, unsureStored, abandoned>>

UndoLiveFails(p) ==
  /\ place = "undoLive"
  /\ "sandbox" \in Faults
  /\ p \in todo
  /\ live' \in {live, [live EXCEPT ![p] = Current[p]]}
  /\ unsureLive' = unsureLive \cup {p}
  /\ cur' = p
  /\ place' = "undoStored"
  /\ UNCHANGED <<memory, stored, late, results, given, todo, tried, unsureStored, abandoned>>

\* The next path of the rollback, or the reply that the revert is incomplete.
NextUndo(rest) ==
  \/ /\ rest # {}
     /\ place' = "undoLive"
     /\ todo' = rest
     /\ UNCHANGED <<given, tried, cur>>
  \/ rest = {} /\ Reply

UndoStored ==
  /\ place = "undoStored"
  /\ stored' = [stored EXCEPT ![cur] = Current[cur]]
  /\ unsureStored' = unsureStored \ {cur}
  /\ NextUndo(todo \ {cur})
  /\ UNCHANGED <<memory, live, late, results, unsureLive, abandoned>>

UndoStoredFails ==
  /\ place = "undoStored"
  /\ "storage" \in Faults
  /\ stored' \in {stored, [stored EXCEPT ![cur] = Current[cur]]}
  /\ unsureStored' = unsureStored \cup {cur}
  /\ NextUndo(todo \ {cur})
  /\ UNCHANGED <<memory, live, late, results, unsureLive, abandoned>>

-----------------------------------------------------------------------------
(* The build around the tools                                              *)

\* The build's output directory: that of the last success, copied when the
\* build was told of files, with its edits.
Output ==
  On(deleted, Nothing, Over(generated, IF Has(baseline) # {} THEN disk ELSE Nothing))

\* The dispatch has returned: the output is stored.
Finish ==
  /\ place = "idle"
  /\ Has(Output) # {}
  /\ given' = Output
  /\ unsureStored' = unsureStored \cup (Has(Output) \ Has(Current))
  /\ place' = "save"
  /\ UNCHANGED <<memory, live, stored, late, results, todo, tried, cur, unsureLive, abandoned>>

\* The build is delivered and recorded, a success or, when its page or its
\* types fail, only completed.
Outcome(success) ==
  /\ place = "verify"
  /\ succeeded' = (succeeded \/ success)
  /\ disk' = IF success THEN Output ELSE disk
  /\ place' = "over"
  /\ UNCHANGED <<memory, live, stored, late, given, todo, tried, cur, observed>>

\* The server is gone, with the disk and whatever was under way.
Restart ==
  /\ place # "lost"
  /\ disk' = Nothing
  /\ baseline' = Nothing /\ generated' = Nothing /\ deleted' = {} /\ checkpoints' = <<>>
  /\ Leave("lost")
  /\ UNCHANGED <<live, stored, late, succeeded, observed>>

\* loadProjectFiles() of the last success: its directory, or the stored files,
\* those that could be downloaded, when the directory is lost.
Loaded ==
  IF ~succeeded THEN {Nothing}
  ELSE IF Has(disk) # {} THEN {disk}
  ELSE {On(S, stored, Nothing) : S \in IF "storage" \in Faults THEN SUBSET Path ELSE {Path}}

\* The next build, after one that was delivered or failed between two tools,
\* with the sandbox as it was, a fresh one, or one restored from storage.
NextBuild ==
  /\ place \in {"idle", "verify", "over", "lost"}
  /\ disk' \in Loaded
  /\ \E beyond \in SUBSET Path :
       /\ beyond # {} => "cut" \in Faults
       /\ baseline' = On(beyond, Nothing, disk')
  /\ generated' = Nothing /\ deleted' = {} /\ checkpoints' = <<>>
  /\ live' \in {live, stored, Nothing}
  /\ unsureLive' = Differ(live', baseline')
  /\ unsureStored' = Differ(stored, baseline')
  /\ Reply
  /\ UNCHANGED <<stored, late, succeeded, abandoned>>

-----------------------------------------------------------------------------
Tool ==
  \/ \E f \in Files : WriteFiles(f)
  \/ \E p \in Path, c \in Content : EditFile(p, c)
  \/ \E D \in SUBSET Path : DeleteFiles(D)
  \/ \E l \in Label : NewCheckpoint(l)
  \/ \E i \in 1..MaxCheckpoints : ReplaceCheckpoint(i) \/ Revert(i)

Step ==
  \/ Push \/ PushFails
  \/ \E F \in SUBSET Path : Store(F) \/ StoreTimesOut(F)
  \/ \E p \in Path :
       \/ DeleteLive(p) \/ DeleteLiveFails(p)
       \/ RevertLive(p) \/ RevertLiveFails(p)
       \/ UndoLive(p) \/ UndoLiveFails(p)
  \/ DeleteStored \/ DeleteStoredFails \/ PutBack \/ PutBackFails
  \/ RevertStored \/ RevertDone \/ RevertStoredFails
  \/ UndoStored \/ UndoStoredFails

Next ==
  \/ Tool \/ Step
  \/ Finish \/ Restart \/ NextBuild
  \/ \E success \in BOOLEAN : Outcome(success)
  \/ \E u \in late : LateUpload(u)

Spec == Init /\ [][Next]_vars

-----------------------------------------------------------------------------
(* Properties                                                              *)

\* Paths whose live, or stored, copy the handler at work has yet to settle.
LiveBusy ==
  CASE place = "lost" -> Path
    [] place = "push" -> Has(given)
    [] place \in {"delStored", "putBack"} -> {cur}
    [] place \in {"revLive", "revStored"} -> tried
    [] place = "undoLive" -> todo
    [] place = "undoStored" -> todo \ {cur}
    [] OTHER -> {}

StoredBusy ==
  CASE place = "lost" -> Path
    [] place \in {"push", "store", "save"} -> Has(given)
    [] place \in {"revLive", "revStored"} -> tried
    [] place \in {"undoLive", "undoStored"} -> todo
    [] OTHER -> {}

\* What the build believes a file to be is what the sandbox has, whatever
\* writes, deletes and reverts failed half way, unless a reply has called the
\* live copy incomplete or the handler is still at work on it.
LiveInStep ==
  \A p \in Path \ (unsureLive \cup LiveBusy) : live[p] = Current[p]

\* The same of the stored copy; an upload given up after its time-out may undo
\* whatever was stored since, and nothing else may.
StoredInStep ==
  \A p \in Path \ (unsureStored \cup StoredBusy \cup abandoned) :
    stored[p] = Current[p]

\* The three places a file is kept in, the build's memory, the sandbox and the
\* object store, agree on every file no handler is still busy with.
CopiesInStep == LiveInStep /\ StoredInStep

Reverting == place \in {"revLive", "revStored", "undoLive", "undoStored"}

Restored ==
  /\ Current' = given
  /\ \A p \in Differ(Current, given) :
       /\ live'[p] = given[p]
       /\ p \notin abandoned => stored'[p] = given[p]

\* A revert changes what the build believes in one step, after its last path,
\* to the files of the checkpoint exactly, with both copies of every path it
\* touched in place; if it fails it changes nothing of it.
RevertAllOrNothing ==
  [][(Reverting /\ Current' # Current) => Restored \/ Restart]_vars

\* build.ts: every edit must "carry the project's prior files forward", and a
\* build that is only completed differs in its record alone: the build after a
\* delivered one starts from what that one left.
CarriesOn ==
  [][place = "over" /\ NextBuild =>
       \A p \in Path : baseline'[p] \in {Output[p], None}]_vars
=============================================================================
