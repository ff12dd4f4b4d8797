---------------------------- MODULE BuildEvidence ----------------------------
(***************************************************************************)
(* What a build does with the files its model has left it, and what it     *)
(* records about them: the repairs in memory, the cut of dead code, the    *)
(* preview with its repairs, the checks run again because a repair outran  *)
(* them, the audit against what was asked, its one repair, and the outcome *)
(* (runFastBuild() of src/server/routes/build.ts, from line 1817 on).      *)
(*                                                                         *)
(* The main run and the preview chain are two processes: the main run      *)
(* waits for the chain, and goes on without it after 240 s.                *)
(***************************************************************************)
EXTENDS ToolLoop

VARIABLES
  fix,       \* repairs landed in the loop the main run is in
  todo,      \* gates revalidateStaleGates() still has to run
  looking,   \* the version the check that is running looks at, or Idle
  before,    \* the version a cut or a repair would be reverted to, or 0
  audited,   \* the version the completion audit in the record is about, or 0
  chain,     \* where the preview chain is: "off", its stage, "done"
  chainFix,  \* repairs landed in the loop the chain is in
  pushing,   \* the chain's write to the sandbox is under way
  repaired,  \* repairedAfterCompletion
  overran,   \* postBuildOverran
  stored,    \* the version project storage holds
  syncing,   \* the version the sync in the background uploads, or 0
  late,      \* versions whose upload was given up and goes on; 0: part of one
  \* observed only
  unstored   \* why storage may hold another version in the end

main == <<fix, todo, looking, before, audited, overran>>
preview == <<chain, chainFix, pushing, repaired>>
storage == <<stored, syncing, late, unstored>>
vars == <<loopVars, main, preview, storage>>

Idle == MaxChanges + 2

Ends == {"done", "failed", "cancelled"}
Stage == {"parse", "missing", "syntax", "collect", "schema", "security", "scan", "fake",
          "wiring", "imports", "cut", "judge cut", "preview", "wait", "freshness",
          "rerun", "audit", "repair", "push repair", "judge", "push revert", "freshness again", "rerun again", "outcome"}

TypeOK ==
  /\ LoopTypeOK
  /\ pc \in {"reply", "tools"} \cup Stage \cup Ends
  /\ fix \in 0..2 /\ chainFix \in 0..2
  /\ todo \subseteq Gate
  /\ looking \in Version \cup {Idle} /\ before \in Version /\ audited \in Version
  /\ chain \in {"off", "write", "backend", "types", "browser", "persist", "done"}
  /\ pushing \in BOOLEAN /\ repaired \in BOOLEAN /\ overran \in BOOLEAN
  /\ stored \in Version /\ syncing \in Version
  /\ late \subseteq Version
  /\ unstored \subseteq {"lost", "late", "kept", "crossed"}

Init ==
  /\ LoopInit
  /\ fix = 0 /\ todo = {} /\ looking = Idle /\ before = 0 /\ audited = 0 /\ overran = FALSE
  /\ chain = "off" /\ chainFix = 0 /\ pushing = FALSE /\ repaired = FALSE
  /\ stored = 1 /\ syncing = 0 /\ late = {} /\ unstored = {}

-----------------------------------------------------------------------------
(* Repairs of the files in memory, one loop after the other                *)

At(stage) ==
  /\ pc = stage
  /\ UNCHANGED <<attempt, calls, verdicts, preview>>

MoveOn(stage) ==
  /\ pc' = stage /\ fix' = 0
  /\ UNCHANGED <<spent, files, events, todo, looking, before, audited, overran, storage>>

\* Nothing is found, nothing can be paid for, or the dispatch is of no use; such
\* a dispatch may reach the ceiling all the same.
Leave(stage) ==
  /\ pc' = stage /\ fix' = 0
  /\ spent' \in {spent, TRUE}
  /\ UNCHANGED <<files, events, todo, looking, before, audited, overran, storage>>

\* A dispatch returns files, and may have reached the ceiling.
Repair(limit) ==
  /\ ~spent /\ spent' \in BOOLEAN
  /\ fix < limit /\ fix' = fix + 1
  /\ NewVersion
  /\ lag' = TRUE
  /\ UNCHANGED <<pc, todo, looking, before, audited, overran, storage>>

Abort == MoveOn("failed")

\* The dispatch is over: cancelled meanwhile, nothing to write, or files.
Parse ==
  /\ At("parse")
  /\ MoveOn("cancelled") \/ MoveOn("failed") \/ MoveOn("done") \/ MoveOn("missing")

\* Files a full-stack build lacks, and syntax errors or components nobody imports:
\* neither loop records what it changes.
MissingFiles ==
  /\ At("missing")
  /\ \/ Leave("syntax")
     \/ spent /\ Abort
     \/ Repair(1) /\ Unwritten("unrecorded")

SyntaxFix ==
  /\ At("syntax")
  /\ \/ Leave("collect")
     \/ spent /\ Abort
     \/ Repair(2) /\ Unwritten("unrecorded")

\* All the files are uploaded, over whatever earlier uploads left.
Uploaded(version) ==
  /\ stored' = version
  /\ unstored' = IF late = {} THEN unstored \ {"lost"} ELSE unstored
  /\ UNCHANGED late

\* Storage refuses some of them; that is logged, and the build goes on.
Refused ==
  /\ May("storage")
  /\ stored' \in {stored, 0}
  /\ unstored' = unstored \cup {"lost"}
  /\ UNCHANGED late

\* persistFilesAsWritten() waits 15 s for an upload, which goes on all the same.
GivenUp(version) ==
  /\ May("storage")
  /\ stored' \in {stored, 0}
  /\ unstored' = unstored \cup {"lost"}
  /\ late' = late \cup {version}

Persist(version) == Uploaded(version) \/ Refused \/ GivenUp(version)

\* The files collected are stored.  The tools stored parts of them before; such an
\* upload may have been given up too.
Collect ==
  /\ At("collect")
  /\ pc' = "schema"
  /\ Persist(code) \/ GivenUp(0)
  /\ UNCHANGED <<spent, files, events, main, syncing>>

\* A schema that lost a table is put back before anything is recorded.
SchemaRepair ==
  /\ At("schema")
  /\ \/ Leave("security")
     \/ Repair(1) /\ Written

\* Neither does the loop that answers the security checks.
SecurityFix ==
  /\ At("security")
  /\ \/ Leave("scan")
     \/ Abort
     \/ Repair(2) /\ Unwritten("unrecorded")

FinalScan ==
  /\ At("scan")
  /\ MoveOn("fake") \/ Abort

FakePersistence ==
  /\ At("fake")
  /\ \/ Leave("wiring")
     \/ Repair(1) /\ Written

\* mutant of Wiring: the files are rewired and no event says so.
Wiring_Unrecorded ==
  /\ At("wiring")
  /\ \/ Leave("imports")
     \/ Repair(2) /\ UNCHANGED events

Wiring ==
  /\ At("wiring")
  /\ \/ Leave("imports")
     \/ Repair(2) /\ Written

BrokenImports ==
  /\ At("imports")
  /\ \/ Leave("cut")
     \/ Repair(1) /\ Written

\* Only with a sandbox whose types were green; recorded before it is judged.
DeadCodeCut ==
  /\ At("cut")
  /\ \/ Leave("preview")
     \/ /\ ~spent /\ spent' \in BOOLEAN
        /\ before' = code
        /\ NewVersion
        /\ WriteSandbox
        /\ Written
        /\ pc' = "judge cut"
        /\ UNCHANGED <<fix, todo, looking, audited, overran, storage>>

KeepCut ==
  /\ At("judge cut")
  /\ pc' = "preview" /\ before' = 0
  /\ UNCHANGED <<spent, files, events, fix, todo, looking, audited, overran, storage>>

RevertCut ==
  /\ At("judge cut")
  /\ code' = before /\ before' = 0
  /\ WriteSandbox
  /\ pc' = "preview"
  /\ UNCHANGED <<spent, made, events, fix, todo, looking, audited, overran, storage>>

-----------------------------------------------------------------------------
(* The preview chain: finishPreview() and what starts it                   *)

\* The sync is not awaited; it uploads the files as they are now.
StartPreview ==
  /\ pc = "preview" /\ pc' = "wait"
  /\ syncing' = code
  /\ chain' = "write"
  /\ UNCHANGED <<attempt, calls, spent, verdicts, files, events, main, chainFix, pushing,
                 repaired, stored, late, unstored>>

\* Once the chain stores its repairs, the two uploads mix.
SyncLands ==
  /\ syncing # 0 /\ syncing' = 0
  /\ IF repaired /\ chain = "done"
     THEN /\ stored' \in {syncing, stored, 0}
          /\ unstored' = unstored \cup {"late"} /\ UNCHANGED late
     ELSE Uploaded(syncing) \/ Refused
  /\ UNCHANGED <<loopVars, main, preview>>

\* An upload that was given up ends, one way or the other.
LateUploadEnds ==
  /\ \E version \in late :
       late' = late \ {version} /\ stored' \in {version, stored, 0}
  /\ UNCHANGED <<loopVars, main, preview, syncing, unstored>>

Chain(stage) ==
  /\ chain = stage /\ ~pushing
  /\ UNCHANGED <<pc, attempt, calls, verdicts, main>>

ChainTo(stage) ==
  /\ chain' = stage /\ chainFix' = 0
  /\ UNCHANGED <<spent, code, made, events, pushing, repaired, storage>>

\* The files go to the running sandbox, or a new one; or there is no preview.
WritePreview ==
  /\ Chain("write")
  /\ \/ ChainTo("backend") /\ lag' = FALSE
     \/ May("write") /\ ChainTo("done") /\ lag' = TRUE

ChainRepair(stage, next) ==
  /\ Chain(stage)
  /\ \/ ChainTo(next) /\ UNCHANGED lag
     \/ /\ ~spent /\ spent' \in BOOLEAN
        /\ chainFix < 2 /\ chainFix' = chainFix + 1
        /\ NewVersion
        /\ Written
        /\ repaired' = TRUE
        /\ pushing' = TRUE /\ lag' = TRUE
        /\ UNCHANGED <<chain, storage>>

\* The backend does not start, types do not check, the page does not render.
BackendRepair == ChainRepair("backend", "types")
TypesRepair == ChainRepair("types", "browser")
BrowserRepair == ChainRepair("browser", "persist")

Push ==
  /\ pushing /\ pushing' = FALSE
  /\ WriteSandbox
  /\ UNCHANGED <<pc, attempt, calls, spent, verdicts, code, made, events, main, chain,
                 chainFix, repaired, storage>>

\* mutant of PersistRepairs: storage is left to the sync.
PersistRepairs_Never ==
  /\ Chain("persist")
  /\ ChainTo("done")
  /\ UNCHANGED lag

PersistRepairs ==
  /\ Chain("persist")
  /\ chain' = "done"
  /\ IF repaired THEN Persist(code) ELSE UNCHANGED <<stored, late, unstored>>
  /\ UNCHANGED <<spent, files, events, chainFix, pushing, repaired, syncing>>

\* withTimeout(previewWork, POST_BUILD_WAIT_MS)
WaitOver ==
  /\ At("wait")
  /\ chain = "done" \/ May("slow")
  /\ overran' = (chain # "done")
  /\ pc' = "freshness"
  /\ UNCHANGED <<spent, files, events, fix, todo, looking, before, audited, storage>>

-----------------------------------------------------------------------------
(* revalidateStaleGates(), run twice                                       *)

Freshness(here, there) ==
  /\ At(here)
  /\ pc' = there
  /\ todo' \in {{}, {g \in Gate : seen[g].outrun}}
  /\ UNCHANGED <<spent, files, events, fix, looking, before, audited, overran, storage>>

NextGate(g) ==
  g \in todo /\ \A h \in todo : g = h \/ g = "types" \/ (g = "page" /\ h = "tests")

\* The check is started,
LookAgain(here, g) ==
  /\ At(here) /\ NextGate(g)
  /\ looking = Idle
  /\ looking' = Looked
  /\ UNCHANGED <<pc, spent, files, events, fix, todo, before, audited, overran, storage>>

\* and its verdict recorded, whatever was written meanwhile.
Record(here, g) ==
  /\ At(here) /\ NextGate(g) /\ looking # Idle
  /\ todo' = todo \ {g} /\ looking' = Idle
  /\ Verdict(g, "verdict", looking,
             IF looking = 0 THEN "unsynced"
             ELSE IF overran THEN "overtaken" ELSE "none")
  /\ UNCHANGED <<pc, spent, files, fix, before, audited, overran, storage>>

\* A check that cannot run leaves the gate stale.
CannotRun(here, g) ==
  /\ At(here) /\ NextGate(g)
  /\ May("check") /\ looking # Idle
  /\ todo' = todo \ {g} /\ looking' = Idle
  /\ UNCHANGED <<pc, spent, files, events, fix, before, audited, overran, storage>>

AllRun(here, there) ==
  /\ At(here) /\ todo = {}
  /\ MoveOn(there)

-----------------------------------------------------------------------------
(* The completion audit and its one repair                                 *)

Audit ==
  /\ At("audit")
  /\ pc' = "repair" /\ audited' \in {0, code}
  /\ spent' \in {spent, TRUE}
  /\ UNCHANGED <<files, events, fix, todo, looking, before, overran, storage>>

\* No plan, or a dispatch that returned no files.
NoRepair ==
  /\ At("repair")
  /\ \/ MoveOn("outcome")
     \/ audited # 0 /\ ~spent /\ Leave("freshness again")

\* The files are changed, written to the sandbox, and only then is that recorded.
AuditRepair ==
  /\ At("repair")
  /\ audited # 0 /\ ~spent /\ spent' \in BOOLEAN
  /\ before' = code
  /\ NewVersion
  /\ lag' = TRUE
  /\ pc' = "push repair"
  /\ UNCHANGED <<events, fix, todo, looking, audited, overran, storage>>

Pushed(here, there) ==
  /\ At(here) /\ pc' = there
  /\ WriteSandbox
  /\ Written
  /\ UNCHANGED <<spent, code, made, main, storage>>

RepairPushed == Pushed("push repair", "judge")

\* mutant of KeepRepair: the audit of before the repair is kept in the record.
KeepRepair_OldAudit ==
  /\ At("judge")
  /\ pc' = "freshness again" /\ before' = 0
  /\ unstored' = unstored \cup {"kept"}
  /\ UNCHANGED <<spent, files, events, fix, todo, looking, audited, overran, stored, syncing, late>>

\* The files are audited again, and the types, when they could be checked, recorded.
KeepRepair ==
  /\ At("judge")
  /\ audited' = code
  /\ \/ "types" \in Gate /\ Verdict("types", "verdict", Looked,
                                     IF lag THEN "unsynced" ELSE IF overran THEN "overtaken" ELSE "none")
     \/ May("check") /\ UNCHANGED events
  /\ pc' = "freshness again" /\ before' = 0
  /\ unstored' = unstored \cup {"kept"}
  /\ UNCHANGED <<spent, files, fix, todo, looking, overran, stored, syncing, late>>

RevertRepair ==
  /\ At("judge")
  /\ code' = before /\ before' = 0
  /\ lag' = TRUE
  /\ pc' = "push revert"
  /\ unstored' = IF overran THEN unstored \cup {"crossed"} ELSE unstored
  /\ UNCHANGED <<spent, made, events, fix, todo, looking, audited, overran, stored, syncing,
                 late>>

RevertPushed == Pushed("push revert", "freshness again")

\* build/end, projectOutcome(), and the row.
Outcome ==
  /\ At("outcome")
  /\ MoveOn("done")

-----------------------------------------------------------------------------
Loop == LoopNext /\ UNCHANGED <<main, preview, storage>>

InMemory ==
  \/ Parse \/ MissingFiles \/ SyntaxFix \/ Collect \/ SchemaRepair \/ SecurityFix \/ FinalScan
  \/ FakePersistence \/ Wiring \/ BrokenImports \/ DeadCodeCut \/ KeepCut \/ RevertCut

Rerun(start, here, there) ==
  \/ Freshness(start, here) \/ AllRun(here, there)
  \/ \E g \in Gate : LookAgain(here, g) \/ Record(here, g) \/ CannotRun(here, g)

Finish ==
  \/ StartPreview \/ WaitOver
  \/ Rerun("freshness", "rerun", "audit")
  \/ Audit \/ NoRepair \/ AuditRepair \/ RepairPushed
  \/ KeepRepair \/ RevertRepair \/ RevertPushed
  \/ Rerun("freshness again", "rerun again", "outcome")
  \/ Outcome

Preview ==
  \/ WritePreview
  \/ BackendRepair \/ TypesRepair \/ BrowserRepair
  \/ Push \/ PersistRepairs

Uploads == SyncLands \/ LateUploadEnds

Next == Loop \/ InMemory \/ Finish \/ Preview \/ Uploads

Spec == Init /\ [][Next]_vars

-----------------------------------------------------------------------------
(* Properties *)

Fresh(g) == seen[g].status = "verdict" /\ ~seen[g].outrun

\* A verdict that the events show as fresh is about the files as they are, at
\* every step of the build and so in the outcome it records, except where gap
\* says why not: a loop that records nothing, a revert that only takes generated
\* files away, a retry, an old verdict told again, a sandbox out of step, or the
\* chain overtaken.  While the audit's repair is written, its event is still to
\* come (projectOutcome(), and every loop that changes allFiles).
OutcomeHonest ==
  pc \notin {"push repair", "push revert"} =>
    \A g \in Gate : Fresh(g) => seenOf[g] = code \/ gap[g] # "none"

\* The audit in the record is about the files delivered, when the preview chain
\* ended in time: a kept repair is audited again, a bad one put back.
AuditHonest ==
  pc = "done" /\ ~overran /\ audited # 0 => audited = code

\* Once nothing is under way any more, storage holds the files delivered: an
\* upload that was refused or given up is made good by the next one.  Except when
\* none came after it or it was still going on then, when the sync of before the
\* preview landed after the chain's repairs, or when the audit's repair was kept
\* or put back across a chain still at work (persistFilesAsWritten(), the sync).
StoredIsShipped ==
  pc = "done" /\ chain = "done" /\ syncing = 0 /\ late = {} /\ unstored = {} => stored = code

\* No verdict is shown as fresh about other files than those delivered: violated
\* in each of the ways gap names.
NoGap == \A g \in Gate : Fresh(g) => seenOf[g] = code

\* "The gates must be green BEFORE the cut" (build.ts:3350): violated, the sandbox
\* the types are checked in has none of the repairs in memory yet.
CutKnowsTypes == [][pc = "cut" /\ pc' = "judge cut" => ~lag]_vars

\* What project storage holds is what was delivered: violated as unstored says.
AllStored == pc = "done" /\ chain = "done" /\ syncing = 0 /\ late = {} => stored = code
=============================================================================
