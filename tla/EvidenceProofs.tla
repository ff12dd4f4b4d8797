--------------------------- MODULE EvidenceProofs ---------------------------
(***************************************************************************)
(* Theorems about BuildEvidence, for any checks, attempts, rounds, calls   *)
(* and changes.                                                            *)
(***************************************************************************)
EXTENDS BuildEvidence, TLAPS

-----------------------------------------------------------------------------
(* The inductive invariant.                                                *)

\* The stages before the preview chain is started, and those that waited for it.
Early == {"reply", "tools", "parse", "missing", "syntax", "collect", "schema", "security",
          "scan", "fake", "wiring", "imports", "cut", "judge cut", "preview"}
Waited == {"freshness", "rerun", "audit", "repair", "push repair", "judge", "push revert",
           "freshness again", "rerun again", "outcome"}

\* The audit's repair is written, or put back, and not told of yet.
Untold == {"push repair", "push revert"}

\* Of the calls of a reply those that are still to run are the open ones.
CallsOpen ==
  /\ pc = "tools" => spinning = left /\ round < MaxRounds
  /\ pc # "tools" => spinning = 0

\* The chain is started once, with the files as they are, and the main run waits
\* for it or has run out of patience.
Phases ==
  /\ pc \in Early => chain = "off" /\ repaired = FALSE /\ overran = FALSE /\ audited = 0
  /\ pc = "wait" => overran = FALSE /\ audited = 0
  /\ chain = "write" => repaired = FALSE
  /\ pc \in Waited \/ audited # 0 => overran \/ chain = "done"

\* After a cut nothing is fresh until it is judged.
CutUnproven == pc = "judge cut" => \A g \in Gate : ~Fresh(g)

\* What is to be judged can be put back.
Revertible == pc \in {"judge cut", "push repair", "judge"} => before # 0

\* A check that runs again looks at the files as they are, or at a sandbox that was
\* out of step, unless the chain is still at work.
Looks ==
  looking # Idle =>
    /\ pc \in {"rerun", "rerun again"} /\ todo # {}
    /\ looking \in {0, code} \/ overran

\* The audit is about the files, or about those a repair may be put back to.
AuditedFiles ==
  ~overran /\ audited # 0 =>
    /\ pc \notin {"push repair", "judge"} => audited = code
    /\ pc \in {"push repair", "judge"} => audited = before
    /\ pc \in Untold \cup {"repair", "judge", "freshness again", "rerun again", "outcome", "done"}

\* The audit's repair is not judged yet.
Unjudged == pc \in {"push repair", "judge"}

\* The files that storage is to hold: not a repair that is not judged yet.
Kept == IF Unjudged THEN before ELSE code

\* The chain's repairs are in storage when it is done, unless their upload was
\* lost; without repairs the sync brings the files there, or has.
StoredOrSyncing ==
  chain # "off" /\ unstored \subseteq {"lost"} /\ ~(Unjudged /\ overran) =>
    IF repaired THEN chain = "done" /\ unstored = {} => stored = Kept
    ELSE syncing = Kept \/ (syncing = 0 /\ (unstored = {} => stored = Kept))

\* What an upload that goes on may undo is counted as lost.
LateLost == late # {} => "lost" \in unstored

IInv == /\ TypeOK /\ CallsOpen /\ VerdictsHonest /\ OutcomeHonest
        /\ Phases /\ CutUnproven /\ Revertible /\ Looks /\ AuditedFiles /\ StoredOrSyncing /\ LateLost

-----------------------------------------------------------------------------
(* What the steps of the parts leave alone.                                *)

\* The loop is the model's, and the rest of the build waits for it.
LEMMA InLoop ==
  ASSUME Loop
  PROVE  /\ pc \in {"reply", "tools"}
         /\ UNCHANGED <<main, preview, storage>>
<1>1. CASE Tool \/ ToolsDone
  BY <1>1 DEF Loop, Tool, ToolsDone, WriteFiles, EditFile, DeleteFile, RevertFiles, DeleteOrRevertFails,
      RefuseWrite, OtherTool, CheckTool, Result
<1>2. ASSUME NEW n \in 0..MaxCalls,
             \/ CeilingReached(n) \/ RunCalls(n) \/ LastRound(n) \/ LastReply(n)
             \/ Nudge(n, "typed") \/ Nudge(n, "empty")
             \/ RetryTier(n) \/ NextTier(n) \/ DispatchFails(n)
      PROVE  pc \in {"reply", "tools"}
  BY <1>2 DEF CeilingReached, RunCalls, LastRound, LastReply, Nudge, RetryTier, NextTier,
      DispatchFails, Reply, ReplyBreaksOff
<1> QED BY <1>1, <1>2 DEF Loop, LoopNext

\* The repairs in memory come before the preview.
LEMMA InMemoryDoes ==
  ASSUME InMemory
  PROVE  /\ pc \in Early \ {"reply", "tools", "preview"}
         /\ pc' \in Early \cup Ends /\ pc' \notin {"reply", "tools"}
         /\ UNCHANGED <<attempt, calls, verdicts, preview, todo, looking, audited, overran,
                        syncing>>
<1>1. CASE Parse \/ FinalScan
  BY <1>1 DEF Parse, FinalScan, At, MoveOn, Abort, Early, Ends, storage
<1>2. CASE MissingFiles \/ SyntaxFix \/ SecurityFix
  BY <1>2 DEF MissingFiles, SyntaxFix, SecurityFix, At, MoveOn, Leave, Repair, Abort,
      Early, Ends, storage
<1>3. CASE SchemaRepair \/ FakePersistence \/ Wiring \/ BrokenImports
  BY <1>3 DEF SchemaRepair, FakePersistence, Wiring, BrokenImports, At, Leave, Repair,
      Early, Ends, storage
<1>4. CASE Collect \/ DeadCodeCut \/ KeepCut \/ RevertCut
  BY <1>4 DEF Collect, DeadCodeCut, KeepCut, RevertCut, At, Leave, Early, Ends, storage, main
<1> QED BY <1>1, <1>2, <1>3, <1>4 DEF InMemory

\* The two times stale gates are run again.
Reruns(start, here, there) ==
  /\ \/ pc = start /\ pc' = here /\ looking' = looking
     \/ pc = here /\ pc' \in {here, there}
  /\ UNCHANGED <<attempt, calls, verdicts, preview, spent, files, before, audited, overran,
                 storage>>

\* Such a run moves on when nothing is left to run, and a check looks before it
\* records its verdict.
LEMMA RerunDoes ==
  ASSUME NEW start, NEW here, NEW there, Rerun(start, here, there)
  PROVE  /\ Reruns(start, here, there)
         /\ \/ Freshness(start, here) \/ AllRun(here, there)
            \/ \E g \in Gate : LookAgain(here, g) \/ Record(here, g) \/ CannotRun(here, g)
<1>1. CASE Freshness(start, here) \/ AllRun(here, there)
  BY <1>1 DEF Freshness, AllRun, At, MoveOn, Reruns
<1>2. ASSUME NEW g \in Gate, LookAgain(here, g) \/ Record(here, g) \/ CannotRun(here, g)
      PROVE  Reruns(start, here, there)
  BY <1>2 DEF LookAgain, Record, CannotRun, At, Reruns
<1> QED BY <1>1, <1>2 DEF Rerun

\* The chain and the sync change neither where the main run is nor what it knows.
LEMMA BesideMain ==
  ASSUME Preview \/ Uploads
  PROVE  UNCHANGED <<pc, attempt, calls, verdicts, main>>
<1>1. CASE WritePreview \/ BackendRepair \/ TypesRepair \/ BrowserRepair \/ PersistRepairs
  BY <1>1 DEF WritePreview, BackendRepair, TypesRepair, BrowserRepair, PersistRepairs,
      ChainRepair, Chain
<1>2. CASE Push \/ Uploads
  BY <1>2 DEF Push, Uploads, SyncLands, LateUploadEnds, loopVars
<1> QED BY <1>1, <1>2 DEF Preview

-----------------------------------------------------------------------------
(* Files and events.                                                       *)

\* What a step may do to the files.
FileStep ==
  \/ UNCHANGED <<code, made>>
  \/ NewVersion
  \/ code' = 1 /\ made' = made
  \/ pc \in {"judge cut", "judge"} /\ code' = before /\ made' = made

\* What a step may tell of it: nothing, while the files stay or nothing is fresh;
\* that they were written; nothing, and there is a gap; or a verdict about them.
EventStep ==
  \/ UNCHANGED events /\ (code' = code \/ pc = "judge cut" \/ pc' \in Untold)
  \/ Written
  \/ \E why \in {"unrecorded", "reverted", "retry"} : Unwritten(why)
  \/ /\ UNCHANGED code
     /\ \E g \in Gate, status \in Status, version \in Version, why \in Gap :
          /\ Verdict(g, status, version, why)
          /\ status = "verdict" => version = code \/ why # "none"

\* The sandbox has the files or not, and a check sees it.
LEMMA LookedAt ==
  ASSUME TypeOK
  PROVE  Looked \in Version /\ (Looked # 0 => Looked = code)
BY ConstantsAssumption DEF TypeOK, LoopTypeOK, Looked, Version

\* What the model's own steps do to the files and tell of them.
LEMMA LoopFiles ==
  ASSUME TypeOK, VerdictsHonest, Loop
  PROVE  FileStep /\ EventStep
<1>1. CASE WriteFiles \/ EditFile \/ DeleteFile \/ RevertFiles
  BY <1>1 DEF WriteFiles, EditFile, DeleteFile, RevertFiles, FileStep, EventStep
<1>2. CASE DeleteOrRevertFails \/ RefuseWrite \/ OtherTool \/ ToolsDone
  BY <1>2 DEF DeleteOrRevertFails, RefuseWrite, OtherTool, ToolsDone, FileStep, EventStep, files
<1>3. ASSUME NEW g \in Gate, CheckTool(g) PROVE FileStep /\ EventStep
  <2>1. UNCHANGED <<code, made>> /\ pc = "tools"
    BY <1>3 DEF CheckTool, Result, files
  <2>2. CASE Verdict(g, "verdict", Looked, IF lag THEN "unsynced" ELSE "none")
    <3>1. Looked = code \/ lag
      BY DEF Looked
    <3> QED BY <2>1, <2>2, <3>1, LookedAt DEF EventStep, FileStep, Status, Gap
  <2>3. CASE Verdict(g, "unavailable", 0, "none")
    <3>1. 0 \in Version
      BY ConstantsAssumption DEF Version
    <3> QED BY <2>1, <2>3, <3>1 DEF EventStep, FileStep, Status, Gap
  <2>4. CASE UNCHANGED events
    BY <2>1, <2>4 DEF EventStep, FileStep
  <2>5. CASE Verdict(g, gate[g].status, asOf[g],
                     IF gate[g].writes > 0 THEN "reread"
                     ELSE IF asOf[g] = 0 THEN "unsynced" ELSE "none")
    <3> DEFINE why == IF gate[g].writes > 0 THEN "reread"
                      ELSE IF asOf[g] = 0 THEN "unsynced" ELSE "none"
    <3>1. gate[g].status \in Status /\ gate[g].writes \in Nat /\ asOf[g] \in Version
      BY DEF TypeOK, LoopTypeOK
    <3>2. gate[g].status = "verdict" => asOf[g] = code \/ why # "none"
      BY <2>1, <3>1 DEF VerdictsHonest
    <3>3. why \in Gap
      BY DEF Gap
    <3> HIDE DEF why
    <3> QED BY <2>1, <2>5, <3>1, <3>2, <3>3 DEF EventStep, FileStep, why
  <2> QED BY <1>3, <2>2, <2>3, <2>4, <2>5 DEF CheckTool
<1>4. ASSUME NEW n \in 0..MaxCalls,
             \/ CeilingReached(n) \/ RunCalls(n) \/ LastRound(n) \/ LastReply(n)
             \/ Nudge(n, "typed") \/ Nudge(n, "empty") \/ DispatchFails(n)
      PROVE  FileStep /\ EventStep
  BY <1>4 DEF CeilingReached, RunCalls, LastRound, LastReply, Nudge, DispatchFails, Reply,
      files, FileStep, EventStep
<1>5. ASSUME NEW n \in 0..MaxCalls, RetryTier(n) \/ NextTier(n) PROVE FileStep /\ EventStep
  BY <1>5 DEF RetryTier, NextTier, Restart, FileStep, EventStep
<1> QED BY <1>1, <1>2, <1>3, <1>4, <1>5 DEF Loop, LoopNext, Tool

\* What the main run and the chain do to the files and tell of them.
LEMMA BuildFiles ==
  ASSUME TypeOK, Phases, Looks, InMemory \/ Finish \/ Preview \/ Uploads
  PROVE  FileStep /\ EventStep
<1>1. CASE InMemory
  <2>1. CASE Parse \/ FinalScan \/ Collect \/ KeepCut \/ RevertCut
    BY <2>1 DEF Parse, FinalScan, Collect, KeepCut, RevertCut, At, MoveOn, Abort,
        files, FileStep, EventStep
  <2>2. CASE MissingFiles \/ SyntaxFix \/ SecurityFix
    BY <2>2 DEF MissingFiles, SyntaxFix, SecurityFix, MoveOn, Leave, Repair, Abort,
        files, FileStep, EventStep
  <2>3. CASE SchemaRepair \/ FakePersistence \/ Wiring \/ BrokenImports \/ DeadCodeCut
    BY <2>3 DEF SchemaRepair, FakePersistence, Wiring, BrokenImports, DeadCodeCut,
        Leave, Repair, files, FileStep, EventStep
  <2> QED BY <1>1, <2>1, <2>2, <2>3 DEF InMemory
<1>2. ASSUME NEW start, NEW here, NEW there, Rerun(start, here, there)
      PROVE  FileStep /\ EventStep
  <2>1. UNCHANGED <<code, made>>
    BY <1>2, RerunDoes DEF Reruns, files
  <2>2. CASE UNCHANGED events
    BY <2>1, <2>2 DEF FileStep, EventStep
  <2>3. ASSUME NEW g \in Gate, Record(here, g) PROVE FileStep /\ EventStep
    <3> DEFINE why == IF looking = 0 THEN "unsynced"
                      ELSE IF overran THEN "overtaken" ELSE "none"
    <3>1. Verdict(g, "verdict", looking, why) /\ looking # Idle
      BY <2>3 DEF Record
    <3>2. looking \in Version /\ why \in Gap /\ (looking = code \/ why # "none")
      BY <3>1 DEF TypeOK, Looks, Gap
    <3> HIDE DEF why
    <3> QED BY <2>1, <3>1, <3>2 DEF FileStep, EventStep, Status
  <2> QED BY <1>2, <2>2, <2>3, RerunDoes
          DEF Freshness, AllRun, LookAgain, CannotRun, MoveOn
<1>3. CASE StartPreview \/ WaitOver \/ Audit \/ NoRepair \/ Outcome
  BY <1>3 DEF StartPreview, WaitOver, Audit, NoRepair, Outcome, MoveOn, Leave, At,
      files, FileStep, EventStep
<1>4. CASE AuditRepair \/ RevertRepair
  BY <1>4 DEF AuditRepair, RevertRepair, At, FileStep, EventStep, Untold
<1>9. CASE RepairPushed \/ RevertPushed
  BY <1>9 DEF RepairPushed, RevertPushed, Pushed, FileStep, EventStep
<1>5. CASE KeepRepair
  <2> DEFINE why == IF lag THEN "unsynced" ELSE IF overran THEN "overtaken" ELSE "none"
  <2>1. UNCHANGED <<code, made>>
    BY <1>5 DEF KeepRepair, files
  <2>2. \/ UNCHANGED events
        \/ /\ "types" \in Gate
           /\ Verdict("types", "verdict", Looked,
                      IF lag THEN "unsynced" ELSE IF overran THEN "overtaken" ELSE "none")
    BY <1>5 DEF KeepRepair
  <2>3. why \in Gap /\ (Looked = code \/ why # "none")
    BY DEF Gap, Looked
  <2>4. Looked \in Version /\ "verdict" \in Status
    BY LookedAt DEF Status
  <2>5. CASE UNCHANGED events
    BY <2>1, <2>5 DEF FileStep, EventStep
  <2>6. CASE "types" \in Gate /\ Verdict("types", "verdict", Looked, why)
    <3> HIDE DEF why
    <3> QED BY <2>1, <2>3, <2>4, <2>6 DEF FileStep, EventStep
  <2> QED BY <2>2, <2>5, <2>6
<1>6. CASE WritePreview \/ PersistRepairs
  BY <1>6 DEF WritePreview, PersistRepairs, ChainTo, files, FileStep, EventStep
<1>7. CASE BackendRepair \/ TypesRepair \/ BrowserRepair
  BY <1>7 DEF BackendRepair, TypesRepair, BrowserRepair, ChainRepair, ChainTo,
      FileStep, EventStep
<1>8. CASE Push \/ Uploads
  BY <1>8 DEF Push, Uploads, SyncLands, LateUploadEnds, loopVars, files, FileStep, EventStep
<1> QED BY <1>1, <1>2, <1>3, <1>4, <1>5, <1>6, <1>7, <1>8, <1>9 DEF Finish, Preview

\* Every step does one of these.
LEMMA FilesAndEvents ==
  ASSUME TypeOK, VerdictsHonest, Phases, Looks, [Next]_vars
  PROVE  FileStep /\ EventStep
<1>1. CASE UNCHANGED vars
  BY <1>1 DEF vars, loopVars, files, FileStep, EventStep
<1> QED BY <1>1, LoopFiles, BuildFiles DEF Next

\* What the three kinds of events leave in the fold.
LEMMA Folds ==
  ASSUME TypeOK, NEW h \in Gate
  PROVE  /\ Written => ~Fresh(h)'
         /\ \A why \in {"unrecorded", "reverted", "retry"} :
              Unwritten(why) => (Fresh(h)' => gap'[h] # "none")
         /\ \A g \in Gate, status \in Status, version \in Version, why \in Gap :
              Verdict(g, status, version, why) =>
                /\ g = h => /\ seen'[h].status = status /\ ~seen'[h].outrun
                            /\ seenOf'[h] = version /\ gap'[h] = why
                /\ g # h => /\ seen'[h] = seen[h]
                            /\ seenOf'[h] = seenOf[h] /\ gap'[h] = gap[h]
<1>1. /\ seen \in [Gate -> [status : Status, outrun : BOOLEAN]]
      /\ seenOf \in [Gate -> Version] /\ gap \in [Gate -> Gap]
      /\ seen[h].status \in Status /\ seen[h].outrun \in BOOLEAN
  BY DEF TypeOK, LoopTypeOK
<1>2. Written => ~Fresh(h)'
  <2> SUFFICES ASSUME Written PROVE ~Fresh(h)'
    OBVIOUS
  <2> DEFINE s == [seen[h] EXCEPT !.outrun = seen[h].outrun \/ seen[h].status # "never"]
  <2>1. s.status = seen[h].status /\ (s.outrun <=> seen[h].outrun \/ seen[h].status # "never")
    BY <1>1
  <2>2. seen'[h] = s
    BY DEF Written
  <2> HIDE DEF s
  <2> QED BY <2>1, <2>2 DEF Fresh
<1>3. ASSUME NEW why \in {"unrecorded", "reverted", "retry"}, Unwritten(why)
      PROVE  Fresh(h)' => gap'[h] # "none"
  BY <1>3 DEF Unwritten, Fresh
<1>4. ASSUME NEW g \in Gate, NEW status \in Status, NEW version \in Version, NEW why \in Gap,
             Verdict(g, status, version, why)
      PROVE  /\ g = h => /\ seen'[h].status = status /\ ~seen'[h].outrun
                         /\ seenOf'[h] = version /\ gap'[h] = why
             /\ g # h => /\ seen'[h] = seen[h]
                         /\ seenOf'[h] = seenOf[h] /\ gap'[h] = gap[h]
  BY <1>1, <1>4 DEF Verdict
<1> QED BY <1>2, <1>3, <1>4

\* What was not told is told when the build goes on.
LEMMA UntoldDoes ==
  ASSUME [Next]_vars, pc \in Untold, pc' \notin Untold
  PROVE  Written
<1> USE DEF Untold
<1>1. ~Loop /\ ~InMemory
  BY InLoop, InMemoryDoes DEF Early
<1>2. ASSUME NEW start \in {"freshness", "freshness again"}, NEW here \in {"rerun", "rerun again"},
             NEW there \in {"audit", "outcome"}, Rerun(start, here, there)
      PROVE  FALSE
  BY <1>2, RerunDoes DEF Reruns
<1>3. ~(StartPreview \/ WaitOver \/ Audit \/ NoRepair \/ AuditRepair \/ KeepRepair
        \/ RevertRepair \/ Outcome)
  BY DEF StartPreview, WaitOver, Audit, NoRepair, AuditRepair, KeepRepair, RevertRepair,
      Outcome, At
<1>4. RepairPushed \/ RevertPushed => Written
  BY DEF RepairPushed, RevertPushed, Pushed
<1>5. Preview \/ Uploads \/ UNCHANGED vars => UNCHANGED pc
  BY BesideMain DEF vars, loopVars
<1> QED BY <1>1, <1>2, <1>3, <1>4, <1>5 DEF Next, Finish

\* A fresh verdict stays about the files as they are, or its gap is known.
LEMMA OutcomeHonestPreserved ==
  ASSUME TypeOK, VerdictsHonest, Phases, Looks, CutUnproven, OutcomeHonest, [Next]_vars
  PROVE  OutcomeHonest'
<1> SUFFICES ASSUME NEW h \in Gate, Fresh(h)', pc' \notin Untold
             PROVE  seenOf'[h] = code' \/ gap'[h] # "none"
  BY DEF OutcomeHonest, Untold
<1>0. pc \notin Untold
  BY UntoldDoes, Folds
<1>1. CASE UNCHANGED events /\ (code' = code \/ pc = "judge cut")
  <2>1. UNCHANGED <<seen, seenOf, gap>>
    BY <1>1 DEF events
  <2>2. Fresh(h)
    BY <2>1 DEF Fresh
  <2> QED BY <1>0, <1>1, <2>1, <2>2 DEF OutcomeHonest, CutUnproven, Untold
<1>2. ~Written
  BY Folds
<1>3. ASSUME NEW why \in {"unrecorded", "reverted", "retry"}, Unwritten(why) PROVE gap'[h] # "none"
  BY <1>3, Folds
<1>4. ASSUME UNCHANGED code,
             NEW g \in Gate, NEW status \in Status, NEW version \in Version, NEW why \in Gap,
             Verdict(g, status, version, why),
             status = "verdict" => version = code \/ why # "none"
      PROVE  seenOf'[h] = code' \/ gap'[h] # "none"
  <2>1. CASE g = h
    <3>1. seen'[h].status = status /\ seenOf'[h] = version /\ gap'[h] = why
      BY <1>4, <2>1, Folds
    <3> QED BY <1>4, <3>1 DEF Fresh
  <2>2. CASE g # h
    <3>1. seen'[h] = seen[h] /\ seenOf'[h] = seenOf[h] /\ gap'[h] = gap[h]
      BY <1>4, <2>2, Folds
    <3> QED BY <1>0, <1>4, <3>1 DEF Fresh, OutcomeHonest, Untold
  <2> QED BY <2>1, <2>2
<1> QED BY <1>1, <1>2, <1>3, <1>4, FilesAndEvents DEF EventStep

\* Nothing is fresh when a cut is to be judged.
LEMMA CutUnprovenPreserved ==
  ASSUME TypeOK, CutUnproven, [Next]_vars
  PROVE  CutUnproven'
<1> SUFFICES ASSUME pc' = "judge cut", NEW h \in Gate PROVE ~Fresh(h)'
  BY DEF CutUnproven
<1>1. CASE pc = "judge cut" /\ UNCHANGED events
  BY <1>1 DEF CutUnproven, Fresh, events
<1>2. CASE Written
  BY <1>2, Folds
<1>3. ~Loop
  BY DEF Loop, LoopNext, Tool, WriteFiles, EditFile, DeleteFile, RevertFiles, DeleteOrRevertFails,
     RefuseWrite, OtherTool, CheckTool, Result, ToolsDone, CeilingReached, RunCalls, LastRound,
     LastReply, Nudge, RetryTier, NextTier, DispatchFails, Reply, ReplyBreaksOff, Return, Restart
<1>4. CASE InMemory
  <2>1. ~(Parse \/ MissingFiles \/ SyntaxFix \/ Collect \/ SchemaRepair \/ SecurityFix)
    BY DEF Parse, MissingFiles, SyntaxFix, Collect, SchemaRepair, SecurityFix, At, MoveOn,
        Leave, Repair, Abort
  <2>2. ~(FinalScan \/ FakePersistence \/ Wiring \/ BrokenImports \/ KeepCut \/ RevertCut)
    BY DEF FinalScan, FakePersistence, Wiring, BrokenImports, KeepCut, RevertCut, At, MoveOn,
        Leave, Repair, Abort
  <2>3. DeadCodeCut => Written
    BY DEF DeadCodeCut, Leave
  <2> QED BY <1>2, <1>4, <2>1, <2>2, <2>3 DEF InMemory
<1>5. ~Finish
  <2>1. ASSUME NEW start, NEW here \in {"rerun", "rerun again"},
               NEW there \in {"audit", "outcome"}, Rerun(start, here, there)
        PROVE  FALSE
    BY <2>1, RerunDoes DEF Reruns
  <2>2. ~(StartPreview \/ WaitOver \/ Audit \/ NoRepair \/ AuditRepair \/ RepairPushed \/ KeepRepair
          \/ RevertRepair \/ RevertPushed \/ Outcome)
    BY DEF StartPreview, WaitOver, Audit, NoRepair, AuditRepair, RepairPushed, KeepRepair,
        RevertRepair, RevertPushed, Pushed, Outcome, MoveOn, Leave
  <2> QED BY <2>1, <2>2 DEF Finish
<1>6. CASE Preview
  <2>1. pc = "judge cut"
    BY <1>6, BesideMain
  <2>2. UNCHANGED events \/ Written
    BY <1>6 DEF Preview, WritePreview, BackendRepair, TypesRepair, BrowserRepair, ChainRepair,
        ChainTo, Push, PersistRepairs
  <2> QED BY <1>1, <1>2, <2>1, <2>2
<1>7. CASE Uploads \/ UNCHANGED vars
  BY <1>1, <1>7 DEF Uploads, SyncLands, LateUploadEnds, vars, loopVars
<1> QED BY <1>3, <1>4, <1>5, <1>6, <1>7 DEF Next

-----------------------------------------------------------------------------
(* The model's loop.                                                       *)

\* After the preview was started the main run stays past it, and out of the loop.
LEMMA FinishDoes ==
  ASSUME Finish
  PROVE  /\ pc \in {"preview", "wait"} \cup Waited
         /\ pc' \in {"wait", "done"} \cup Waited
         /\ UNCHANGED <<attempt, calls, verdicts, chainFix, pushing, repaired>>
<1>1. ASSUME NEW start \in {"freshness", "freshness again"}, NEW here \in {"rerun", "rerun again"},
             NEW there \in {"audit", "outcome"}, Rerun(start, here, there)
      PROVE  /\ pc \in Waited /\ pc' \in Waited
             /\ UNCHANGED <<attempt, calls, verdicts, chainFix, pushing, repaired>>
  BY <1>1, RerunDoes DEF Reruns, Waited, preview
<1>2. CASE StartPreview \/ WaitOver \/ Audit \/ NoRepair \/ Outcome
  BY <1>2 DEF StartPreview, WaitOver, Audit, NoRepair, Outcome, At, MoveOn, Leave, Waited, preview
<1>3. CASE AuditRepair \/ RepairPushed \/ KeepRepair \/ RevertRepair \/ RevertPushed
  BY <1>3 DEF AuditRepair, RepairPushed, KeepRepair, RevertRepair, RevertPushed, Pushed, At,
      Waited, preview
<1> QED BY <1>1, <1>2, <1>3 DEF Finish

\* Only the loop's own steps lead back into it, and none beside it changes its files.
LEMMA OutOfLoop ==
  ASSUME Phases, [Next]_vars, ~Loop
  PROVE  /\ UNCHANGED <<attempt, calls, verdicts>>
         /\ pc' \in {"reply", "tools"} => pc' = pc /\ UNCHANGED <<code, events>>
<1>1. CASE InMemory
  BY <1>1, InMemoryDoes
<1>2. CASE Finish
  BY <1>2, FinishDoes DEF Waited
<1>3. CASE Preview
  <2>1. UNCHANGED <<pc, attempt, calls, verdicts>>
    BY <1>3, BesideMain
  <2>2. chain # "off" \/ pushing
    BY <1>3 DEF Preview, WritePreview, BackendRepair, TypesRepair, BrowserRepair, ChainRepair,
        Chain, Push, PersistRepairs
  <2>3. pc \notin {"reply", "tools"} \/ Push
    BY <1>3, <2>2 DEF Phases, Early, Preview, WritePreview, BackendRepair, TypesRepair,
        BrowserRepair, ChainRepair, Chain, PersistRepairs
  <2>4. Push => UNCHANGED <<code, events>>
    BY DEF Push
  <2> QED BY <2>1, <2>3, <2>4
<1>4. CASE Uploads \/ UNCHANGED vars
  BY <1>4 DEF Uploads, SyncLands, LateUploadEnds, vars, loopVars, files
<1> QED BY <1>1, <1>2, <1>3, <1>4 DEF Next

\* Every announced call is open until it is told its result.
LEMMA CallsOpenPreserved ==
  ASSUME TypeOK, Phases, CallsOpen, [Next]_vars
  PROVE  CallsOpen'
<1>1. CASE ~Loop
  <2>1. /\ UNCHANGED <<left, spinning, round>>
        /\ pc' = "tools" => pc = "tools"
    BY <1>1, OutOfLoop DEF attempt, calls
  <2>2. pc # "tools" \/ pc' = "tools"
    <3>1. pc = "tools" => ~InMemory /\ ~Finish
      BY InMemoryDoes, FinishDoes DEF Waited, Early
    <3>2. CASE Preview \/ Uploads
      BY <3>2, BesideMain
    <3>3. CASE UNCHANGED vars
      BY <3>3 DEF vars, loopVars
    <3> QED BY <1>1, <3>1, <3>2, <3>3 DEF Next
  <2> QED BY <2>1, <2>2 DEF CallsOpen
<1>2. CASE Loop
  <2>1. ASSUME Result PROVE CallsOpen'
    BY <2>1 DEF Result, CallsOpen, attempt, TypeOK, LoopTypeOK
  <2>2. CASE Tool
    BY <2>1, <2>2 DEF Tool, WriteFiles, EditFile, DeleteFile, RevertFiles, DeleteOrRevertFails,
        RefuseWrite, OtherTool, CheckTool
  <2>3. CASE ToolsDone
    BY <2>3 DEF ToolsDone, CallsOpen, calls
  <2>4. ASSUME NEW n \in 0..MaxCalls, CeilingReached(n) \/ LastRound(n) \/ LastReply(n)
        PROVE  CallsOpen'
    BY <2>4 DEF CeilingReached, LastRound, LastReply, Reply, Return, CallsOpen
  <2>5. ASSUME NEW n \in 0..MaxCalls, RunCalls(n) \/ Nudge(n, "typed") \/ Nudge(n, "empty")
        PROVE  CallsOpen'
    BY <2>5 DEF RunCalls, Nudge, Reply, CallsOpen
  <2>6. ASSUME NEW n \in 0..MaxCalls, RetryTier(n) \/ NextTier(n) \/ DispatchFails(n)
        PROVE  CallsOpen'
    BY <2>6 DEF RetryTier, NextTier, DispatchFails, ReplyBreaksOff, Restart, CallsOpen
  <2> QED BY <1>2, <2>2, <2>3, <2>4, <2>5, <2>6 DEF Loop, LoopNext
<1> QED BY <1>1, <1>2

\* The type of the verdicts the model is told.
GateTyped == /\ gate \in [Gate -> [status : Status, writes : 0..StaleWrites]]
             /\ asOf \in [Gate -> Version]

\* A write counts for every verdict there is.
LEMMA NotedDoes ==
  ASSUME TypeOK
  PROVE  /\ Noted \in [Gate -> [status : Status, writes : 0..StaleWrites]]
         /\ \A g \in Gate : Noted[g].status = "verdict" => Noted[g].writes > 0
<1>1. ASSUME NEW g \in Gate
      PROVE  /\ Noted[g] \in [status : Status, writes : 0..StaleWrites]
             /\ Noted[g].status = "verdict" => Noted[g].writes > 0
  <2> DEFINE w == IF gate[g].writes < StaleWrites THEN gate[g].writes + 1 ELSE gate[g].writes
  <2>1. gate[g] \in [status : Status, writes : 0..StaleWrites]
    BY DEF TypeOK, LoopTypeOK
  <2>2. CASE gate[g].status = "never"
    BY <2>1, <2>2 DEF Noted
  <2>3. CASE gate[g].status # "never"
    <3>1. Noted[g] = [gate[g] EXCEPT !.writes = w]
      BY <2>3 DEF Noted
    <3>2. w \in 0..StaleWrites /\ w > 0
      BY <2>1, ConstantsAssumption
    <3> HIDE DEF w
    <3>3. Noted[g] \in [status : Status, writes : 0..StaleWrites] /\ Noted[g].writes = w
      BY <2>1, <3>1, <3>2
    <3> QED BY <3>2, <3>3
  <2> QED BY <2>2, <2>3
<1>2. Noted \in [Gate -> [status : Status, writes : 0..StaleWrites]]
  <2>1. DOMAIN Noted = Gate /\ Noted = [g \in Gate |-> Noted[g]]
    BY DEF Noted
  <2> QED BY <1>1, <2>1
<1> QED BY <1>1, <1>2

\* What a step may do to the verdicts the model is told: nothing while the files
\* stay, a write for each, one on the files as they are, or all are forgotten.
VerdictStep ==
  \/ UNCHANGED <<verdicts, code>>
  \/ gate' = NoVerdicts /\ asOf' = Unseen
  \/ pc' \notin {"reply", "tools"} /\ UNCHANGED verdicts
  \/ gate' = Noted /\ UNCHANGED asOf
  \/ \E g \in Gate :
       /\ gate' = [Noted EXCEPT ![g] = [status |-> "verdict", writes |-> 0]]
       /\ asOf' = [asOf EXCEPT ![g] = code'] /\ NewVersion
  \/ \E g \in Gate, status \in {"verdict", "unavailable"}, version \in {0, Looked} :
       /\ gate' = [gate EXCEPT ![g] = [status |-> status, writes |-> 0]]
       /\ asOf' = [asOf EXCEPT ![g] = version] /\ UNCHANGED code

\* Every step does one of these.
LEMMA VerdictSteps ==
  ASSUME Phases, [Next]_vars
  PROVE  VerdictStep
<1>1. CASE ~Loop
  BY <1>1, OutOfLoop DEF VerdictStep
<1>2. CASE WriteFiles
  BY <1>2 DEF WriteFiles, VerdictStep
<1>3. CASE EditFile \/ DeleteFile \/ RevertFiles \/ RefuseWrite
  BY <1>3 DEF EditFile, DeleteFile, RevertFiles, RefuseWrite, VerdictStep
<1>4. CASE DeleteOrRevertFails \/ OtherTool \/ ToolsDone
  BY <1>4 DEF DeleteOrRevertFails, OtherTool, ToolsDone, VerdictStep, files
<1>5. ASSUME NEW g \in Gate, CheckTool(g) PROVE VerdictStep
  <2>1. UNCHANGED code
    BY <1>5 DEF CheckTool, files
  <2>2. \/ UNCHANGED verdicts
        \/ /\ gate' = [gate EXCEPT ![g] = [status |-> "verdict", writes |-> 0]]
           /\ asOf' = [asOf EXCEPT ![g] = Looked]
        \/ /\ gate' = [gate EXCEPT ![g] = [status |-> "unavailable", writes |-> 0]]
           /\ asOf' = [asOf EXCEPT ![g] = 0]
    BY <1>5 DEF CheckTool
  <2> QED BY <2>1, <2>2 DEF VerdictStep
<1>6. ASSUME NEW n \in 0..MaxCalls,
             \/ CeilingReached(n) \/ RunCalls(n) \/ LastRound(n) \/ LastReply(n)
             \/ Nudge(n, "typed") \/ Nudge(n, "empty")
             \/ RetryTier(n) \/ NextTier(n) \/ DispatchFails(n)
      PROVE  VerdictStep
  BY <1>6 DEF CeilingReached, RunCalls, LastRound, LastReply, Nudge, RetryTier, NextTier,
      DispatchFails, Reply, Continue, Return, Restart, files, verdicts, VerdictStep
<1> QED BY <1>1, <1>2, <1>3, <1>4, <1>5, <1>6 DEF Loop, LoopNext, Tool

\* A verdict with no write after it is about the files as they are.
LEMMA VerdictsPreserved ==
  ASSUME TypeOK, Phases, VerdictsHonest, [Next]_vars
  PROVE  VerdictsHonest'
<1> SUFFICES ASSUME NEW h \in Gate, pc' \in {"reply", "tools"},
                    gate'[h].status = "verdict", gate'[h].writes = 0
             PROVE  asOf'[h] \in {0, code'}
  BY DEF VerdictsHonest
<1>0. /\ gate \in [Gate -> [status : Status, writes : 0..StaleWrites]]
      /\ asOf \in [Gate -> Version]
      /\ Noted \in [Gate -> [status : Status, writes : 0..StaleWrites]]
  BY NotedDoes DEF TypeOK, LoopTypeOK
<1>1. CASE UNCHANGED <<verdicts, code>>
  <2>1. pc \in {"reply", "tools"}
    <3>1. CASE Loop
      BY <3>1, InLoop
    <3> QED BY <3>1, OutOfLoop
  <2> QED BY <1>1, <2>1 DEF VerdictsHonest, verdicts
<1>2. gate' # NoVerdicts
  BY DEF NoVerdicts
<1>3. gate' # Noted
  BY NotedDoes
<1>4. ASSUME NEW g \in Gate,
             gate' = [Noted EXCEPT ![g] = [status |-> "verdict", writes |-> 0]],
             asOf' = [asOf EXCEPT ![g] = code']
      PROVE  asOf'[h] \in {0, code'}
  <2>1. h = g
    <3>1. h # g => gate'[h] = Noted[h]
      BY <1>0, <1>4
    <3> QED BY <3>1, NotedDoes
  <2> QED BY <1>0, <1>4, <2>1
<1>5. ASSUME NEW g \in Gate, NEW status, NEW version \in {0, Looked}, UNCHANGED code,
             gate' = [gate EXCEPT ![g] = [status |-> status, writes |-> 0]],
             asOf' = [asOf EXCEPT ![g] = version]
      PROVE  asOf'[h] \in {0, code'}
  <2>1. CASE h = g
    BY <1>0, <1>5, <2>1 DEF Looked
  <2>2. CASE h # g
    <3>1. gate'[h] = gate[h] /\ asOf'[h] = asOf[h]
      BY <1>0, <1>5, <2>2
    <3>2. pc \in {"reply", "tools"}
      <4>1. CASE Loop
        BY <4>1, InLoop
      <4> QED BY <4>1, OutOfLoop
    <3> QED BY <1>5, <3>1, <3>2 DEF VerdictsHonest
  <2> QED BY <2>1, <2>2
<1> QED BY <1>1, <1>2, <1>3, <1>4, <1>5, VerdictSteps DEF VerdictStep

-----------------------------------------------------------------------------
(* Types.                                                                  *)

\* The types of the files, of the events, of the loop and of what the main run and
\* the chain know.
FilesTyped == code \in 1..MaxChanges + 1 /\ made \in 1..MaxChanges + 1
EventsTyped == /\ seen \in [Gate -> [status : Status, outrun : BOOLEAN]]
               /\ seenOf \in [Gate -> Version] /\ gap \in [Gate -> Gap]
LoopTyped ==
  /\ tier \in 1..Tiers /\ tries \in 0..Retries /\ round \in 1..MaxRounds
  /\ nudged \subseteq {"typed", "empty"}
  /\ left \in 0..MaxCalls /\ spinning \in 0..MaxCalls /\ leftOn \in BOOLEAN
Places == {"reply", "tools"} \cup Stage \cup Ends
FlagsTyped == /\ spent \in BOOLEAN /\ lag \in BOOLEAN /\ pushing \in BOOLEAN
              /\ repaired \in BOOLEAN /\ overran \in BOOLEAN
RestTyped ==
  /\ fix \in 0..2 /\ chainFix \in 0..2
  /\ todo \subseteq Gate
  /\ looking \in Version \cup {Idle} /\ before \in Version /\ audited \in Version
  /\ chain \in {"off", "write", "backend", "types", "browser", "persist", "done"}
StorageTyped ==
  /\ stored \in Version /\ syncing \in Version /\ late \subseteq Version
  /\ unstored \subseteq {"lost", "late", "kept", "crossed"}

\* Together they are the types of the variables.
LEMMA TypeParts ==
  /\ TypeOK <=> /\ FilesTyped /\ EventsTyped /\ GateTyped /\ LoopTyped
                /\ pc \in Places /\ FlagsTyped /\ RestTyped /\ StorageTyped
  /\ TypeOK' <=> /\ FilesTyped' /\ EventsTyped' /\ GateTyped' /\ LoopTyped'
                 /\ pc' \in Places /\ FlagsTyped' /\ RestTyped' /\ StorageTyped'
<1> USE DEF TypeOK, LoopTypeOK, FilesTyped, EventsTyped, GateTyped, LoopTyped, Places, FlagsTyped,
            RestTyped, StorageTyped
<1>1. TypeOK <=> /\ FilesTyped /\ EventsTyped /\ GateTyped /\ LoopTyped
                 /\ pc \in Places /\ FlagsTyped /\ RestTyped /\ StorageTyped
  OBVIOUS
<1>2. TypeOK' <=> /\ FilesTyped' /\ EventsTyped' /\ GateTyped' /\ LoopTyped'
                  /\ pc' \in Places /\ FlagsTyped' /\ RestTyped' /\ StorageTyped'
  OBVIOUS
<1> QED BY <1>1, <1>2

\* The files, the events and the verdicts keep their types.
LEMMA FoldsTyped ==
  ASSUME TypeOK, VerdictsHonest, Phases, Looks, Revertible, [Next]_vars
  PROVE  FilesTyped' /\ EventsTyped' /\ GateTyped'
<1>1. FilesTyped /\ EventsTyped /\ GateTyped /\ before \in Version
  BY TypeParts DEF TypeOK
<1>2. FilesTyped'
  <2>1. ASSUME before # 0 PROVE before \in 1..MaxChanges + 1
    BY <1>1, <2>1 DEF Version
  <2>2. MaxChanges \in Nat /\ made \in 1..MaxChanges + 1 /\ code \in 1..MaxChanges + 1
    BY <1>1, ConstantsAssumption DEF FilesTyped
  <2>3. CASE NewVersion
    <3>1. made' = made + 1 /\ code' = made + 1 /\ made <= MaxChanges
      BY <2>3 DEF NewVersion
    <3>2. made + 1 \in 1..MaxChanges + 1
      BY <2>2, <3>1
    <3> QED BY <3>1, <3>2 DEF FilesTyped
  <2>4. CASE code' = 1 /\ made' = made
    BY <2>2, <2>4 DEF FilesTyped
  <2>5. CASE pc \in {"judge cut", "judge"} /\ code' = before /\ made' = made
    BY <2>1, <2>2, <2>5 DEF FilesTyped, Revertible
  <2> QED BY <2>2, <2>3, <2>4, <2>5, FilesAndEvents DEF FileStep, FilesTyped
<1>3. EventsTyped'
  <2>1. CASE UNCHANGED events
    BY <1>1, <2>1 DEF EventsTyped, events
  <2>2. CASE Written
    <3>1. \A g \in Gate : [seen[g] EXCEPT !.outrun = @ \/ seen[g].status # "never"]
                            \in [status : Status, outrun : BOOLEAN]
      <4> SUFFICES ASSUME NEW g \in Gate
                   PROVE  [seen[g] EXCEPT !.outrun = seen[g].outrun \/ seen[g].status # "never"]
                            \in [status : Status, outrun : BOOLEAN]
        OBVIOUS
      <4>1. seen[g] \in [status : Status, outrun : BOOLEAN]
        BY <1>1 DEF EventsTyped
      <4>2. (seen[g].outrun \/ seen[g].status # "never") \in BOOLEAN
        OBVIOUS
      <4> QED BY <4>1, <4>2
    <3>2. seen' \in [Gate -> [status : Status, outrun : BOOLEAN]]
      BY <2>2, <3>1 DEF Written
    <3>3. seenOf' \in [Gate -> Version] /\ gap' \in [Gate -> Gap]
      BY <2>2, ConstantsAssumption DEF Written, Unseen, Unmarked, Version, Gap
    <3> QED BY <3>2, <3>3 DEF EventsTyped
  <2>3. ASSUME NEW why \in {"unrecorded", "reverted", "retry"}, Unwritten(why) PROVE EventsTyped'
    BY <1>1, <2>3 DEF Unwritten, EventsTyped, Gap
  <2>4. ASSUME NEW g \in Gate, NEW status \in Status, NEW version \in Version, NEW why \in Gap,
               Verdict(g, status, version, why)
        PROVE  EventsTyped'
    <3>1. [status |-> status, outrun |-> FALSE] \in [status : Status, outrun : BOOLEAN]
      OBVIOUS
    <3> QED BY <1>1, <2>4, <3>1 DEF Verdict, EventsTyped
  <2> QED BY <2>1, <2>2, <2>3, <2>4, FilesAndEvents DEF EventStep
<1>4. GateTyped'
  <2>1. CASE UNCHANGED verdicts
    BY <1>1, <2>1 DEF GateTyped, verdicts
  <2>2. CASE gate' = NoVerdicts /\ asOf' = Unseen
    BY <2>2, ConstantsAssumption DEF GateTyped, NoVerdicts, Unseen, Status, Version
  <2>3. CASE gate' = Noted /\ UNCHANGED asOf
    BY <1>1, <2>3, NotedDoes DEF GateTyped
  <2>4. ASSUME NEW g \in Gate, NEW status \in {"verdict", "unavailable"}, NEW version \in Version,
               \/ gate' = [Noted EXCEPT ![g] = [status |-> status, writes |-> 0]]
               \/ gate' = [gate EXCEPT ![g] = [status |-> status, writes |-> 0]],
               asOf' = [asOf EXCEPT ![g] = version]
        PROVE  GateTyped'
    <3>1. [status |-> status, writes |-> 0] \in [status : Status, writes : 0..StaleWrites]
      BY ConstantsAssumption DEF Status
    <3> QED BY <1>1, <2>4, <3>1, NotedDoes DEF GateTyped
  <2>5. 0 \in Version /\ Looked \in Version /\ code' \in Version
    BY <1>2, LookedAt, ConstantsAssumption DEF FilesTyped, Version
  <2>6. CASE \E g \in Gate :
               /\ gate' = [Noted EXCEPT ![g] = [status |-> "verdict", writes |-> 0]]
               /\ asOf' = [asOf EXCEPT ![g] = code'] /\ NewVersion
    BY <2>4, <2>5, <2>6
  <2>7. CASE \E g \in Gate, status \in {"verdict", "unavailable"}, version \in {0, Looked} :
               /\ gate' = [gate EXCEPT ![g] = [status |-> status, writes |-> 0]]
               /\ asOf' = [asOf EXCEPT ![g] = version] /\ UNCHANGED code
    BY <2>4, <2>5, <2>7
  <2> QED BY <2>1, <2>2, <2>3, <2>6, <2>7, VerdictSteps DEF VerdictStep, verdicts
<1> QED BY <1>2, <1>3, <1>4

\* What the loop counts stays within its limits.
LEMMA LoopTypedPreserved ==
  ASSUME TypeOK, Phases, CallsOpen, [Next]_vars
  PROVE  LoopTyped'
<1>1. LoopTyped
  BY TypeParts
<1>2. CASE ~Loop
  BY <1>1, <1>2, OutOfLoop DEF LoopTyped, attempt, calls
<1>3. ASSUME Result PROVE LoopTyped'
  <2>1. /\ spinning = left /\ left > 0 /\ left' = left - 1 /\ spinning' = spinning - 1
        /\ UNCHANGED <<tier, tries, round, nudged, leftOn>>
    BY <1>3 DEF Result, CallsOpen, attempt
  <2>2. left' \in 0..MaxCalls /\ spinning' \in 0..MaxCalls
    BY <1>1, <2>1, ConstantsAssumption DEF LoopTyped
  <2> QED BY <1>1, <2>1, <2>2 DEF LoopTyped
<1>4. CASE Tool
  BY <1>3, <1>4 DEF Tool, WriteFiles, EditFile, DeleteFile, RevertFiles, DeleteOrRevertFails,
      RefuseWrite, OtherTool, CheckTool
<1>5. CASE ToolsDone
  BY <1>1, <1>5, ConstantsAssumption DEF ToolsDone, CallsOpen, LoopTyped, calls
<1>6. ASSUME NEW n \in 0..MaxCalls, CeilingReached(n) \/ LastRound(n) \/ LastReply(n)
      PROVE  LoopTyped'
  <2>1. /\ tier' = 1 /\ tries' = 0 /\ round' = 1 /\ nudged' = {}
        /\ UNCHANGED <<left, spinning>> /\ leftOn' \in BOOLEAN
    BY <1>1, <1>6 DEF CeilingReached, LastRound, LastReply, Return, LeaveOn, LoopTyped
  <2> QED BY <1>1, <2>1, ConstantsAssumption DEF LoopTyped
<1>7. ASSUME NEW n \in 0..MaxCalls, RunCalls(n) PROVE LoopTyped'
  BY <1>1, <1>7 DEF RunCalls, Continue, LoopTyped
<1>8. ASSUME NEW n \in 0..MaxCalls, NEW why \in {"typed", "empty"}, Nudge(n, why)
      PROVE  LoopTyped'
  BY <1>1, <1>8, ConstantsAssumption DEF Nudge, Continue, LeaveOn, LoopTyped
<1>9. ASSUME NEW n \in 0..MaxCalls, RetryTier(n) \/ NextTier(n) PROVE LoopTyped'
  <2>1. /\ round' = 1 /\ nudged' = {} /\ left' = 0 /\ spinning' = 0 /\ leftOn' \in BOOLEAN
        /\ \/ tier' = tier /\ tries < Retries /\ tries' = tries + 1
           \/ tier < Tiers /\ tier' = tier + 1 /\ tries' = 0
    BY <1>1, <1>9 DEF RetryTier, NextTier, ReplyBreaksOff, LeaveOn, Restart, LoopTyped
  <2> QED BY <1>1, <2>1, ConstantsAssumption DEF LoopTyped
<1>10. ASSUME NEW n \in 0..MaxCalls, DispatchFails(n) PROVE LoopTyped'
  BY <1>1, <1>10 DEF DispatchFails, ReplyBreaksOff, LeaveOn, LoopTyped, attempt
<1> QED BY <1>2, <1>4, <1>5, <1>6, <1>7, <1>8, <1>9, <1>10 DEF Loop, LoopNext

\* What the loop does to where the build is.
LEMMA LoopMoves ==
  ASSUME Loop
  PROVE  pc' \in {"reply", "tools", "parse", "failed"}
<1>1. CASE Tool \/ ToolsDone
  BY <1>1 DEF Tool, WriteFiles, EditFile, DeleteFile, RevertFiles, DeleteOrRevertFails, RefuseWrite,
      OtherTool, CheckTool, Result, ToolsDone
<1>2. ASSUME NEW n \in 0..MaxCalls,
             \/ CeilingReached(n) \/ RunCalls(n) \/ LastRound(n) \/ LastReply(n)
             \/ Nudge(n, "typed") \/ Nudge(n, "empty")
             \/ RetryTier(n) \/ NextTier(n) \/ DispatchFails(n)
      PROVE  pc' \in {"reply", "tools", "parse", "failed"}
  BY <1>2 DEF CeilingReached, RunCalls, LastRound, LastReply, Nudge, RetryTier, NextTier,
      DispatchFails, Reply, ReplyBreaksOff, Return, Restart
<1> QED BY <1>1, <1>2 DEF Loop, LoopNext

\* Nor does anything else leave its type: where the build is, ...
LEMMA PlacesPreserved ==
  ASSUME TypeOK, [Next]_vars
  PROVE  pc' \in Places
<1> USE DEF Places, Stage, Ends, Early, Waited
<1>1. CASE Loop
  BY <1>1, LoopMoves
<1>2. CASE InMemory
  BY <1>2, InMemoryDoes
<1>3. CASE Finish
  BY <1>3, FinishDoes
<1>4. CASE UNCHANGED pc
  BY <1>4, TypeParts
<1> QED BY <1>1, <1>2, <1>3, <1>4, BesideMain DEF Next, vars, loopVars

\* ... what is so or not, ...
LEMMA FlagsPreserved ==
  ASSUME TypeOK, [Next]_vars
  PROVE  FlagsTyped'
<1>1. FlagsTyped
  BY TypeParts
<1>2. WriteSandbox => lag' \in BOOLEAN
  BY DEF WriteSandbox
<1> USE DEF FlagsTyped
<1>3. CASE Loop
  <2>1. UNCHANGED <<pushing, repaired, overran>>
    BY <1>3, InLoop DEF main, preview
  <2>2. spent' \in BOOLEAN /\ lag' \in BOOLEAN
    <3>1. CASE WriteFiles \/ EditFile \/ DeleteFile \/ RevertFiles \/ DeleteOrRevertFails
      BY <1>1, <1>2, <3>1 DEF WriteFiles, EditFile, DeleteFile, RevertFiles, DeleteOrRevertFails, Result
    <3>2. CASE RefuseWrite \/ OtherTool \/ ToolsDone
      BY <1>1, <3>2 DEF RefuseWrite, OtherTool, ToolsDone, Result, files
    <3>3. ASSUME NEW g \in Gate, CheckTool(g) PROVE spent' \in BOOLEAN /\ lag' \in BOOLEAN
      BY <1>1, <3>3 DEF CheckTool, Result, files
    <3>4. ASSUME NEW n \in 0..MaxCalls,
                 \/ CeilingReached(n) \/ RunCalls(n) \/ LastRound(n) \/ LastReply(n)
                 \/ Nudge(n, "typed") \/ Nudge(n, "empty") \/ DispatchFails(n)
          PROVE  spent' \in BOOLEAN /\ lag' \in BOOLEAN
      BY <1>1, <3>4 DEF CeilingReached, RunCalls, LastRound, LastReply, Nudge, DispatchFails,
          Reply, files
    <3>5. ASSUME NEW n \in 0..MaxCalls, RetryTier(n) \/ NextTier(n)
          PROVE  spent' \in BOOLEAN /\ lag' \in BOOLEAN
      BY <1>1, <3>5 DEF RetryTier, NextTier, Restart
    <3> QED BY <1>3, <3>1, <3>2, <3>3, <3>4, <3>5 DEF Loop, LoopNext, Tool
  <2> QED BY <2>1, <2>2, <1>1
<1>4. CASE InMemory
  <2>1. UNCHANGED <<pushing, repaired, overran>>
    BY <1>4, InMemoryDoes DEF preview
  <2>2. spent' \in BOOLEAN /\ lag' \in BOOLEAN
    <3>1. CASE Parse \/ FinalScan \/ Collect \/ KeepCut \/ RevertCut
      BY <1>1, <1>2, <3>1 DEF Parse, FinalScan, Collect, KeepCut, RevertCut, MoveOn, Abort, files
    <3>2. CASE MissingFiles \/ SyntaxFix \/ SecurityFix
      BY <1>1, <3>2 DEF MissingFiles, SyntaxFix, SecurityFix, MoveOn, Leave, Repair, Abort, files
    <3>3. CASE SchemaRepair \/ FakePersistence \/ Wiring \/ BrokenImports
      BY <1>1, <3>3 DEF SchemaRepair, FakePersistence, Wiring, BrokenImports, Leave, Repair, files
    <3>4. CASE DeadCodeCut
      BY <1>1, <1>2, <3>4 DEF DeadCodeCut, Leave, files
    <3> QED BY <1>4, <3>1, <3>2, <3>3, <3>4 DEF InMemory
  <2> QED BY <2>1, <2>2, <1>1
<1>5. ASSUME NEW start, NEW here, NEW there, Rerun(start, here, there) PROVE FlagsTyped'
  BY <1>1, <1>5, RerunDoes DEF Reruns, files, preview
<1>6. CASE StartPreview \/ WaitOver \/ Audit \/ NoRepair \/ Outcome
  BY <1>1, <1>6 DEF StartPreview, WaitOver, Audit, NoRepair, Outcome, At, MoveOn, Leave,
      main, preview, files
<1>7. CASE AuditRepair \/ RepairPushed \/ KeepRepair \/ RevertRepair \/ RevertPushed
  BY <1>1, <1>2, <1>7 DEF AuditRepair, RepairPushed, KeepRepair, RevertRepair, RevertPushed,
      Pushed, At, main, preview, files
<1>8. CASE Preview
  <2>1. overran' = overran
    BY <1>8, BesideMain DEF main
  <2>2. spent' \in BOOLEAN /\ lag' \in BOOLEAN /\ pushing' \in BOOLEAN /\ repaired' \in BOOLEAN
    BY <1>1, <1>2, <1>8 DEF Preview, WritePreview, BackendRepair, TypesRepair, BrowserRepair,
        ChainRepair, ChainTo, Push, PersistRepairs, files
  <2> QED BY <2>1, <2>2, <1>1
<1>9. CASE Uploads \/ UNCHANGED vars
  <2>1. UNCHANGED <<spent, lag, pushing, repaired, overran>>
    BY <1>9 DEF Uploads, SyncLands, LateUploadEnds, vars, loopVars, main, preview, files
  <2> QED BY <1>1, <2>1
<1> QED BY <1>3, <1>4, <1>5, <1>6, <1>7, <1>8, <1>9 DEF Next, Finish

\* ... how many repairs a loop has landed, ...
Counted(n, after) == after \in {0, n} \/ \E limit \in {1, 2} : n < limit /\ after = n + 1

\* (it lands two at the most)
LEMMA CountedTyped ==
  ASSUME NEW n \in 0..2, NEW after, Counted(n, after)
  PROVE  after \in 0..2
BY DEF Counted

\* ... what a repair in memory, ...
LEMMA InMemoryKeeps ==
  ASSUME InMemory
  PROVE  Counted(fix, fix') /\ before' \in {0, before, code}
<1> USE DEF Counted
<1>1. CASE Parse \/ FinalScan
  BY <1>1 DEF Parse, FinalScan, MoveOn, Abort
<1>2. CASE Collect
  BY <1>2 DEF Collect, main
<1>3. CASE KeepCut \/ RevertCut
  BY <1>3 DEF KeepCut, RevertCut
<1>4. CASE MissingFiles \/ SyntaxFix \/ SecurityFix
  BY <1>4 DEF MissingFiles, SyntaxFix, SecurityFix, MoveOn, Leave, Repair, Abort
<1>5. CASE SchemaRepair \/ FakePersistence \/ Wiring \/ BrokenImports
  BY <1>5 DEF SchemaRepair, FakePersistence, Wiring, BrokenImports, Leave, Repair
<1>6. CASE DeadCodeCut
  BY <1>6 DEF DeadCodeCut, Leave
<1> QED BY <1>1, <1>2, <1>3, <1>4, <1>5, <1>6 DEF InMemory

\* ... the chain and the sync leave, ...
LEMMA BesideKeeps ==
  ASSUME Preview \/ Uploads
  PROVE  /\ Counted(chainFix, chainFix')
         /\ \/ chain' = chain
            \/ chain' \in {"off", "write", "backend", "types", "browser", "persist", "done"}
<1> USE DEF Counted
<1>1. CASE WritePreview
  BY <1>1 DEF WritePreview, ChainTo
<1>2. CASE BackendRepair \/ TypesRepair \/ BrowserRepair
  BY <1>2 DEF BackendRepair, TypesRepair, BrowserRepair, ChainRepair, ChainTo
<1>3. CASE Push
  BY <1>3 DEF Push
<1>4. CASE PersistRepairs
  BY <1>4 DEF PersistRepairs
<1>5. CASE Uploads
  BY <1>5 DEF Uploads, SyncLands, LateUploadEnds, preview
<1> QED BY <1>1, <1>2, <1>3, <1>4, <1>5 DEF Preview

\* ... what the main run and the chain know, ...
LEMMA RestPreserved ==
  ASSUME TypeOK, [Next]_vars
  PROVE  RestTyped'
<1>1. /\ fix \in 0..2 /\ chainFix \in 0..2 /\ todo \subseteq Gate
      /\ looking \in Version \cup {Idle} /\ before \in Version /\ audited \in Version
      /\ chain \in {"off", "write", "backend", "types", "browser", "persist", "done"}
  BY DEF TypeOK
<1>2. code \in Version /\ 0 \in Version
  BY ConstantsAssumption DEF TypeOK, LoopTypeOK, Version
<1>3. CASE UNCHANGED <<main, preview>>
  BY <1>1, <1>3 DEF main, preview, RestTyped
<1>4. CASE InMemory
  <2>1. UNCHANGED <<chain, chainFix, todo, looking, audited>>
    BY <1>4, InMemoryDoes DEF preview
  <2>2. fix' \in 0..2
    BY <1>1, <1>4, InMemoryKeeps, CountedTyped
  <2>3. before' \in Version
    BY <1>1, <1>2, <1>4, InMemoryKeeps
  <2> QED BY <1>1, <2>1, <2>2, <2>3 DEF RestTyped
<1>5. ASSUME NEW start, NEW here, NEW there, Rerun(start, here, there) PROVE RestTyped'
  <2>1. UNCHANGED <<chain, chainFix, before, audited>>
    BY <1>5, RerunDoes DEF Reruns, preview
  <2>2. fix' \in {0, fix} /\ looking' \in {Idle, looking, Looked} /\ todo' \subseteq todo \cup Gate
    BY <1>5, RerunDoes DEF Freshness, AllRun, MoveOn, LookAgain, Record, CannotRun
  <2>3. fix' \in 0..2 /\ looking' \in Version \cup {Idle} /\ todo' \subseteq Gate
    BY <1>1, <2>2, LookedAt
  <2> QED BY <1>1, <2>1, <2>3 DEF RestTyped
<1>6. CASE StartPreview \/ WaitOver \/ Audit \/ NoRepair \/ Outcome
  <2>1. /\ fix' \in {0, fix} /\ before' = before /\ audited' \in {0, audited, code}
        /\ UNCHANGED <<chainFix, todo, looking>>
        /\ chain' \in {"write", chain}
    BY <1>6 DEF StartPreview, WaitOver, Audit, NoRepair, Outcome, At, MoveOn, Leave,
        main, preview
  <2> QED BY <1>1, <1>2, <2>1 DEF RestTyped
<1>7. CASE AuditRepair \/ RepairPushed \/ KeepRepair \/ RevertRepair \/ RevertPushed
  <2>1. /\ before' \in {0, before, code} /\ audited' \in {audited, code}
        /\ UNCHANGED <<fix, chain, chainFix, todo, looking>>
    BY <1>7 DEF AuditRepair, RepairPushed, KeepRepair, RevertRepair, RevertPushed, Pushed, At,
        main, preview
  <2> QED BY <1>1, <1>2, <2>1 DEF RestTyped
<1>8. CASE Preview \/ Uploads
  <2>1. UNCHANGED <<fix, todo, looking, before, audited>>
    BY <1>8, BesideMain DEF main
  <2>2. chainFix' \in 0..2
    BY <1>1, <1>8, BesideKeeps, CountedTyped
  <2>3. chain' \in {"off", "write", "backend", "types", "browser", "persist", "done"}
    BY <1>1, <1>8, BesideKeeps
  <2> QED BY <1>1, <2>1, <2>2, <2>3 DEF RestTyped
<1>9. CASE Loop \/ UNCHANGED vars
  BY <1>3, <1>9, InLoop DEF vars
<1> QED BY <1>4, <1>5, <1>6, <1>7, <1>8, <1>9 DEF Next, Finish

\* What a step may do to project storage: nothing, an upload of all the files, the
\* end of the sync or of an upload given up, or a reason more why it is behind.
StorageStep ==
  /\ syncing' \in {0, syncing, code}
  /\ \/ UNCHANGED <<stored, late, unstored>>
     \/ \E version \in {0, code, syncing} : GivenUp(version)
     \/ \E version \in {code, syncing} : Uploaded(version)
     \/ Refused
     \/ /\ stored' \in {syncing, stored, 0}
        /\ unstored' = unstored \cup {"late"} /\ UNCHANGED late
     \/ /\ \E version \in late : late' = late \ {version} /\ stored' \in {version, stored, 0}
        /\ UNCHANGED unstored
     \/ /\ unstored' \in {unstored \cup {"kept"}, unstored \cup {"crossed"}}
        /\ UNCHANGED <<stored, late>>

\* Every step does one of these.
LEMMA StorageSteps ==
  ASSUME [Next]_vars
  PROVE  StorageStep
<1> USE DEF StorageStep
<1>1. CASE UNCHANGED storage
  BY <1>1 DEF storage
<1>2. CASE Loop \/ UNCHANGED vars
  BY <1>1, <1>2, InLoop DEF vars
<1>3. CASE InMemory
  <2>1. CASE Collect
    BY <2>1 DEF Collect, Persist
  <2>2. CASE Parse \/ FinalScan \/ KeepCut \/ RevertCut \/ DeadCodeCut
    BY <1>1, <2>2 DEF Parse, FinalScan, KeepCut, RevertCut, DeadCodeCut, MoveOn, Leave, Abort
  <2>3. CASE MissingFiles \/ SyntaxFix \/ SecurityFix
    BY <1>1, <2>3 DEF MissingFiles, SyntaxFix, SecurityFix, MoveOn, Leave, Repair, Abort
  <2>4. CASE SchemaRepair \/ FakePersistence \/ Wiring \/ BrokenImports
    BY <1>1, <2>4 DEF SchemaRepair, FakePersistence, Wiring, BrokenImports, Leave, Repair
  <2> QED BY <1>3, <2>1, <2>2, <2>3, <2>4 DEF InMemory
<1>4. ASSUME NEW start, NEW here, NEW there, Rerun(start, here, there) PROVE StorageStep
  BY <1>1, <1>4, RerunDoes DEF Reruns
<1>5. CASE StartPreview
  BY <1>5 DEF StartPreview
<1>6. CASE WaitOver \/ Audit \/ NoRepair \/ Outcome \/ AuditRepair
  BY <1>1, <1>6 DEF WaitOver, Audit, NoRepair, Outcome, AuditRepair, MoveOn, Leave
<1>7. CASE RepairPushed \/ RevertPushed
  BY <1>1, <1>7 DEF RepairPushed, RevertPushed, Pushed
<1>8. CASE KeepRepair \/ RevertRepair
  BY <1>8 DEF KeepRepair, RevertRepair
<1>9. CASE WritePreview \/ Push
  BY <1>1, <1>9 DEF WritePreview, ChainTo, Push
<1>10. CASE BackendRepair \/ TypesRepair \/ BrowserRepair
  BY <1>1, <1>10 DEF BackendRepair, TypesRepair, BrowserRepair, ChainRepair, ChainTo
<1>11. CASE PersistRepairs
  BY <1>11 DEF PersistRepairs, Persist
<1>12. CASE SyncLands
  BY <1>12 DEF SyncLands
<1>13. CASE LateUploadEnds
  BY <1>13 DEF LateUploadEnds
<1> QED BY <1>2, <1>3, <1>4, <1>5, <1>6, <1>7, <1>8, <1>9, <1>10, <1>11, <1>12, <1>13
        DEF Next, Finish, Preview, Uploads

\* ... and what is in project storage or on its way there.
LEMMA StoragePreserved ==
  ASSUME TypeOK, [Next]_vars
  PROVE  StorageTyped'
<1>1. StorageTyped
  BY TypeParts
<1>2. code \in Version /\ 0 \in Version /\ syncing \in Version
  BY <1>1, ConstantsAssumption DEF StorageTyped, TypeOK, LoopTypeOK, Version
<1>3. syncing' \in Version
  BY <1>2, StorageSteps DEF StorageStep
<1>4. stored' \in Version /\ late' \subseteq Version
  BY <1>1, <1>2, StorageSteps DEF StorageStep, StorageTyped, GivenUp, Uploaded, Refused
<1>5. unstored' \subseteq {"lost", "late", "kept", "crossed"}
  BY <1>1, StorageSteps DEF StorageStep, StorageTyped, GivenUp, Uploaded, Refused
<1> QED BY <1>3, <1>4, <1>5 DEF StorageTyped

\* What goes on after it was given up stays counted as lost until it has ended and
\* all the files are uploaded again.
LEMMA LateLostPreserved ==
  ASSUME LateLost, [Next]_vars
  PROVE  LateLost'
BY StorageSteps DEF StorageStep, GivenUp, Uploaded, Refused, LateLost

-----------------------------------------------------------------------------
(* Where the main run, the chain and the sync are.                         *)

\* The chain goes on once it is started, until it is done.
LEMMA ChainDoes ==
  ASSUME Preview
  PROVE  /\ chain # "off" \/ pushing
         /\ chain' = chain \/ (chain \notin {"off", "done"} /\ chain' # "off")
         /\ chain = "done" => UNCHANGED <<chain, code, repaired, storage>>
         /\ UNCHANGED syncing
<1>1. CASE WritePreview
  BY <1>1 DEF WritePreview, Chain, ChainTo, storage
<1>2. CASE BackendRepair \/ TypesRepair \/ BrowserRepair
  BY <1>2 DEF BackendRepair, TypesRepair, BrowserRepair, ChainRepair, Chain, ChainTo, storage
<1>3. CASE Push
  <2>1. UNCHANGED <<chain, code, repaired, storage>> /\ pushing
    BY <1>3 DEF Push
  <2> QED BY <2>1 DEF storage
<1>4. CASE PersistRepairs
  BY <1>4 DEF PersistRepairs, Chain
<1> QED BY <1>1, <1>2, <1>3, <1>4 DEF Preview

\* The chain is at work only while the main run waits, or goes on without it.
LEMMA PhasesPreserved ==
  ASSUME Phases, [Next]_vars
  PROVE  Phases'
<1> USE DEF Phases, Early, Waited
<1>1. CASE Loop
  BY <1>1, InLoop, LoopMoves DEF main, preview
<1>2. CASE InMemory
  BY <1>2, InMemoryDoes DEF Ends, preview
<1>3. ASSUME NEW start \in {"freshness", "freshness again"}, NEW here \in {"rerun", "rerun again"},
             NEW there \in {"audit", "outcome"}, Rerun(start, here, there)
      PROVE  Phases'
  BY <1>3, RerunDoes DEF Reruns, preview
<1>4. CASE StartPreview \/ WaitOver
  BY <1>4 DEF StartPreview, WaitOver, At, main, preview
<1>5. CASE \/ Audit \/ NoRepair \/ Outcome \/ AuditRepair \/ RepairPushed
          \/ KeepRepair \/ RevertRepair \/ RevertPushed
  BY <1>5 DEF Audit, NoRepair, Outcome, AuditRepair, RepairPushed, KeepRepair, RevertRepair,
      RevertPushed, Pushed, At, MoveOn, Leave, main, preview
<1>6. CASE Preview
  <2>1. UNCHANGED <<pc, audited, overran>>
    BY <1>6, BesideMain DEF main
  <2>2. pc \in Early => chain' = chain /\ repaired' = repaired
    <3>1. CASE Push
      BY <3>1 DEF Push
    <3>2. CASE ~Push
      BY <1>6, <3>2 DEF Preview, WritePreview, BackendRepair, TypesRepair, BrowserRepair,
          ChainRepair, Chain, PersistRepairs
    <3> QED BY <3>1, <3>2
  <2>3. chain' = "write" => chain = "write" /\ repaired' = repaired
    <3>1. CASE Push
      BY <3>1 DEF Push
    <3>2. CASE WritePreview \/ PersistRepairs
      BY <3>2 DEF WritePreview, PersistRepairs, Chain, ChainTo
    <3>3. CASE BackendRepair \/ TypesRepair \/ BrowserRepair
      BY <3>3 DEF BackendRepair, TypesRepair, BrowserRepair, ChainRepair, Chain, ChainTo
    <3> QED BY <1>6, <3>1, <3>2, <3>3 DEF Preview
  <2>4. chain = "done" => chain' = "done"
    BY <1>6, ChainDoes
  <2>5. ASSUME pc \in Early PROVE chain' = "off" /\ repaired' = FALSE
    <3>1. chain = "off" /\ repaired = FALSE
      BY <2>5
    <3> QED BY <2>2, <2>5, <3>1
  <2>6. ASSUME chain' = "write" PROVE repaired' = FALSE
    <3>1. repaired = FALSE /\ repaired' = repaired
      BY <2>3, <2>6
    <3> QED BY <3>1
  <2> QED BY <2>1, <2>4, <2>5, <2>6
<1>7. CASE Uploads \/ UNCHANGED vars
  BY <1>7 DEF Uploads, SyncLands, LateUploadEnds, vars, loopVars, main, preview
<1> QED BY <1>1, <1>2, <1>3, <1>4, <1>5, <1>6, <1>7 DEF Next, Finish

\* What can be put back is remembered until it is judged.
LEMMA RevertiblePreserved ==
  ASSUME TypeOK, Revertible, [Next]_vars
  PROVE  Revertible'
<1>0. code # 0
  <2>1. code \in 1..MaxChanges + 1 /\ MaxChanges \in Nat
    BY ConstantsAssumption DEF TypeOK, LoopTypeOK
  <2> QED BY <2>1
<1> USE DEF Revertible
<1>1. CASE Loop
  BY <1>1, LoopMoves
<1>2. CASE Parse \/ FinalScan \/ Collect \/ KeepCut \/ RevertCut \/ DeadCodeCut
  BY <1>0, <1>2 DEF Parse, FinalScan, Collect, KeepCut, RevertCut, DeadCodeCut, MoveOn, Leave,
      Abort
<1>3. CASE MissingFiles \/ SyntaxFix \/ SecurityFix
  BY <1>3 DEF MissingFiles, SyntaxFix, SecurityFix, At, MoveOn, Leave, Repair, Abort
<1>4. CASE SchemaRepair \/ FakePersistence \/ Wiring \/ BrokenImports
  BY <1>4 DEF SchemaRepair, FakePersistence, Wiring, BrokenImports, At, Leave, Repair
<1>5. ASSUME NEW start, NEW here \in {"rerun", "rerun again"}, NEW there \in {"audit", "outcome"},
             Rerun(start, here, there)
      PROVE  Revertible'
  BY <1>5, RerunDoes DEF Reruns
<1>6. CASE StartPreview \/ WaitOver \/ Audit \/ NoRepair \/ Outcome
  BY <1>6 DEF StartPreview, WaitOver, Audit, NoRepair, Outcome, MoveOn, Leave
<1>7. CASE AuditRepair \/ RepairPushed \/ KeepRepair \/ RevertRepair \/ RevertPushed
  BY <1>0, <1>7 DEF AuditRepair, RepairPushed, KeepRepair, RevertRepair, RevertPushed, Pushed,
      At, main
<1>8. CASE Preview \/ Uploads
  BY <1>8, BesideMain DEF main
<1>9. CASE UNCHANGED vars
  BY <1>9 DEF vars, loopVars, main
<1> QED BY <1>1, <1>2, <1>3, <1>4, <1>5, <1>6, <1>7, <1>8, <1>9 DEF Next, InMemory, Finish

\* The files stay once the main run has waited, unless it gave up.
LEMMA WaitedFor ==
  ASSUME Phases, ~overran, pc \in Waited \/ audited # 0, Preview
  PROVE  UNCHANGED <<chain, code, repaired, storage>>
BY ChainDoes DEF Phases

\* A check that runs again looks at the files as they are.
LEMMA LooksPreserved ==
  ASSUME TypeOK, Phases, Looks, [Next]_vars
  PROVE  Looks'
<1>1. CASE Loop
  BY <1>1, InLoop DEF main, Looks
<1>2. CASE InMemory
  BY <1>2, InMemoryDoes DEF Looks, Early
<1>3. ASSUME NEW start \in {"freshness", "freshness again"}, NEW here \in {"rerun", "rerun again"},
             NEW there \in {"audit", "outcome"}, Rerun(start, here, there)
      PROVE  Looks'
  <2>1. CASE Freshness(start, here)
    BY <2>1 DEF Freshness, At, Looks
  <2>2. CASE AllRun(here, there)
    BY <2>2 DEF AllRun, At, MoveOn, Looks
  <2>3. ASSUME NEW g \in Gate, LookAgain(here, g) PROVE Looks'
    <3>1. /\ pc = here /\ pc' = pc /\ looking' = Looked
          /\ todo' = todo /\ g \in todo /\ code' = code
      BY <2>3 DEF LookAgain, At, NextGate, files
    <3> QED BY <3>1, LookedAt DEF Looks
  <2>4. ASSUME NEW g \in Gate, Record(here, g) \/ CannotRun(here, g) PROVE Looks'
    BY <2>4 DEF Record, CannotRun, Looks, Idle
  <2> QED BY <1>3, <2>1, <2>2, <2>3, <2>4, RerunDoes
<1>4. CASE StartPreview \/ WaitOver \/ Audit \/ NoRepair \/ Outcome
  BY <1>4 DEF StartPreview, WaitOver, Audit, NoRepair, Outcome, At, MoveOn, Leave, main, Looks
<1>5. CASE AuditRepair \/ RepairPushed \/ KeepRepair \/ RevertRepair \/ RevertPushed
  BY <1>5 DEF AuditRepair, RepairPushed, KeepRepair, RevertRepair, RevertPushed, Pushed, At,
      main, Looks
<1>6. CASE Preview
  <2>1. UNCHANGED <<pc, todo, looking, overran>>
    BY <1>6, BesideMain DEF main
  <2>2. CASE looking = Idle
    BY <2>1, <2>2 DEF Looks, Idle
  <2>3. CASE looking # Idle
    <3>1. pc \in Waited
      BY <2>3 DEF Looks, Waited
    <3>2. overran \/ code' = code
      BY <1>6, <3>1, WaitedFor
    <3> QED BY <2>1, <3>2 DEF Looks, Idle
  <2> QED BY <2>2, <2>3
<1>7. CASE Uploads \/ UNCHANGED vars
  BY <1>7 DEF Uploads, SyncLands, LateUploadEnds, vars, loopVars, main, files, Looks, Idle
<1> QED BY <1>1, <1>2, <1>3, <1>4, <1>5, <1>6, <1>7 DEF Next, Finish

\* The audit follows the files it is about.
LEMMA AuditedPreserved ==
  ASSUME TypeOK, Phases, AuditedFiles, [Next]_vars
  PROVE  AuditedFiles'
<1>1. CASE Loop \/ InMemory \/ StartPreview \/ WaitOver
  <2>1. CASE Loop
    BY <2>1, InLoop DEF main, Phases, Early, AuditedFiles
  <2>2. CASE InMemory
    BY <2>2, InMemoryDoes DEF Phases, Early, AuditedFiles
  <2>3. CASE StartPreview \/ WaitOver
    BY <2>3 DEF StartPreview, WaitOver, At, main, Phases, Early, AuditedFiles
  <2> QED BY <1>1, <2>1, <2>2, <2>3
<1>2. CASE Rerun("freshness", "rerun", "audit")
  <2>1. Reruns("freshness", "rerun", "audit")
    BY <1>2, RerunDoes
  <2> QED BY <2>1 DEF Reruns, AuditedFiles, Untold
<1>3. CASE Rerun("freshness again", "rerun again", "outcome")
  <2>1. Reruns("freshness again", "rerun again", "outcome")
    BY <1>3, RerunDoes
  <2> QED BY <2>1 DEF Reruns, files, AuditedFiles, Untold
<1>4. CASE Audit
  BY <1>4 DEF Audit, At, files, AuditedFiles
<1>5. CASE NoRepair \/ Outcome
  BY <1>5 DEF NoRepair, Outcome, At, MoveOn, Leave, files, AuditedFiles
<1>6. CASE AuditRepair
  BY <1>6 DEF AuditRepair, At, AuditedFiles, Untold
<1>7. CASE KeepRepair
  <2>1. audited' = code /\ code' = code /\ pc' = "freshness again"
    BY <1>7 DEF KeepRepair, files
  <2> QED BY <2>1 DEF AuditedFiles
<1>8. CASE RevertRepair
  BY <1>8 DEF RevertRepair, At, AuditedFiles, Untold
<1>11. CASE RepairPushed \/ RevertPushed
  BY <1>11 DEF RepairPushed, RevertPushed, Pushed, At, main, AuditedFiles, Untold
<1>9. CASE Preview
  <2>1. UNCHANGED <<pc, before, audited, overran>>
    BY <1>9, BesideMain DEF main
  <2>2. overran \/ audited = 0 \/ code' = code
    BY <1>9, WaitedFor
  <2> QED BY <2>1, <2>2 DEF AuditedFiles
<1>10. CASE Uploads \/ UNCHANGED vars
  BY <1>10 DEF Uploads, SyncLands, LateUploadEnds, vars, loopVars, main, files, AuditedFiles
<1> QED BY <1>1, <1>2, <1>3, <1>4, <1>5, <1>6, <1>7, <1>8, <1>9, <1>10, <1>11 DEF Next, Finish

\* Storage gets the files, from the sync or from the chain.
LEMMA StoredPreserved ==
  ASSUME TypeOK, Phases, LateLost, StoredOrSyncing, [Next]_vars
  PROVE  StoredOrSyncing'
<1> USE DEF Unjudged
<1>1. CASE Loop \/ InMemory
  <2>1. pc \in Early
    BY <1>1, InLoop, InMemoryDoes DEF Early
  <2>2. chain' = "off"
    BY <1>1, <2>1, InLoop, InMemoryDoes DEF preview, Phases
  <2> QED BY <2>2 DEF StoredOrSyncing
<1>2. CASE StartPreview
  BY <1>2 DEF StartPreview, files, Phases, Early, StoredOrSyncing, Kept
<1>3. ASSUME UNCHANGED <<code, preview, storage>>, ~Unjudged, ~Unjudged'
      PROVE  StoredOrSyncing'
  BY <1>3 DEF preview, storage, StoredOrSyncing, Kept
<1>4. ASSUME NEW start \in {"freshness", "freshness again"}, NEW here \in {"rerun", "rerun again"},
             NEW there \in {"audit", "outcome"}, Rerun(start, here, there)
      PROVE  StoredOrSyncing'
  BY <1>3, <1>4, RerunDoes DEF Reruns, files
<1>5. CASE WaitOver \/ Audit \/ NoRepair \/ Outcome \/ RevertPushed
  BY <1>3, <1>5 DEF WaitOver, Audit, NoRepair, Outcome, RevertPushed, Pushed, At, MoveOn, Leave,
      files, storage
<1>6. CASE AuditRepair \/ RepairPushed
  <2>1. /\ UNCHANGED <<overran, chain, repaired, stored, syncing, unstored>> /\ Unjudged'
        /\ \/ ~Unjudged /\ before' = code
           \/ Unjudged /\ before' = before
    BY <1>6 DEF AuditRepair, RepairPushed, Pushed, At, main, preview, storage
  <2> QED BY <2>1 DEF StoredOrSyncing, Kept
<1>7. CASE KeepRepair
  <2>1. "kept" \in unstored'
    BY <1>7 DEF KeepRepair
  <2> QED BY <2>1 DEF StoredOrSyncing
<1>8. CASE RevertRepair
  <2>1. UNCHANGED <<chain, repaired, stored, syncing>> /\ pc = "judge" /\ pc' = "push revert"
        /\ code' = before /\ unstored' = IF overran THEN unstored \cup {"crossed"} ELSE unstored
    BY <1>8 DEF RevertRepair, At, preview
  <2>2. CASE overran
    <3>1. "crossed" \in unstored'
      BY <2>1, <2>2
    <3> QED BY <3>1 DEF StoredOrSyncing
  <2>3. CASE ~overran
    BY <2>1, <2>3 DEF StoredOrSyncing, Kept
  <2> QED BY <2>2, <2>3
<1>9. CASE Preview
  <2>0. UNCHANGED <<pc, before, overran, syncing>>
    BY <1>9, BesideMain, ChainDoes DEF main
  <2>1. CASE Push
    BY <2>0, <2>1 DEF Push, storage, StoredOrSyncing, Kept
  <2>2. CASE WritePreview
    <3>1. UNCHANGED <<code, repaired, stored, unstored>> /\ chain = "write"
      BY <2>2 DEF WritePreview, Chain, ChainTo, storage
    <3> QED BY <2>0, <3>1 DEF Phases, StoredOrSyncing, Kept
  <2>3. CASE BackendRepair \/ TypesRepair \/ BrowserRepair
    <3>1. /\ chain # "off" /\ chain' # "done" /\ UNCHANGED <<stored, unstored>>
          /\ repaired' = TRUE \/ UNCHANGED <<code, repaired>>
      BY <2>3 DEF BackendRepair, TypesRepair, BrowserRepair, ChainRepair, Chain, ChainTo, storage
    <3>2. CASE repaired'
      BY <3>1, <3>2 DEF StoredOrSyncing
    <3>3. CASE ~repaired'
      <4>1. UNCHANGED <<code, repaired>> /\ ~repaired
        BY <3>1, <3>3
      <4>2. UNCHANGED <<Unjudged, Kept>>
        BY <2>0, <4>1 DEF Kept
      <4> QED BY <2>0, <3>1, <3>3, <4>1, <4>2 DEF StoredOrSyncing
    <3> QED BY <3>2, <3>3
  <2>4. CASE PersistRepairs
    <3>1. /\ UNCHANGED <<code, repaired>> /\ chain = "persist" /\ chain' = "done"
          /\ IF repaired THEN Persist(code) ELSE UNCHANGED <<stored, late, unstored>>
      BY <2>4 DEF PersistRepairs, Chain, files
    <3>2. Unjudged => overran
      BY <3>1 DEF Phases, Waited
    <3>3. CASE repaired
      <4>1. stored' = code \/ "lost" \in unstored'
        BY <3>1, <3>3 DEF Persist, Uploaded, Refused, GivenUp
      <4> QED BY <2>0, <3>1, <3>2, <3>3, <4>1 DEF StoredOrSyncing, Kept
    <3>4. CASE ~repaired
      BY <2>0, <3>1, <3>4 DEF StoredOrSyncing, Kept
    <3> QED BY <3>3, <3>4
  <2> QED BY <1>9, <2>1, <2>2, <2>3, <2>4 DEF Preview
<1>10. CASE SyncLands
  <2>1. /\ UNCHANGED <<pc, code, before, overran, chain, repaired>>
        /\ syncing # 0 /\ syncing' = 0
        /\ IF repaired /\ chain = "done" THEN "late" \in unstored'
           ELSE Uploaded(syncing) \/ Refused
    BY <1>10 DEF SyncLands, loopVars, files, main, preview
  <2>2. CASE repaired /\ chain = "done"
    BY <2>1, <2>2 DEF StoredOrSyncing
  <2>3. CASE ~(repaired /\ chain = "done")
    <3>1. /\ stored' = syncing \/ "lost" \in unstored'
          /\ unstored' \subseteq {"lost"} => unstored \subseteq {"lost"}
      BY <2>1, <2>3 DEF Uploaded, Refused
    <3> QED BY <2>1, <2>3, <3>1 DEF StoredOrSyncing, Kept
  <2> QED BY <2>2, <2>3
<1>11. CASE LateUploadEnds
  <2>1. /\ UNCHANGED <<pc, code, before, overran, chain, repaired, syncing, unstored>>
        /\ late # {}
    BY <1>11 DEF LateUploadEnds, loopVars, files, main, preview
  <2> QED BY <2>1 DEF LateLost, StoredOrSyncing, Kept
<1>12. CASE UNCHANGED vars
  BY <1>12 DEF vars, loopVars, files, main, preview, storage, StoredOrSyncing, Kept
<1> QED BY <1>1, <1>2, <1>4, <1>5, <1>6, <1>7, <1>8, <1>9, <1>10, <1>11, <1>12
        DEF Next, Finish, Uploads

-----------------------------------------------------------------------------
(* The theorems.                                                           *)

\* A build starts with nothing run, nothing written and nothing under way.
LEMMA Initially ==
  ASSUME Init
  PROVE  IInv
<1>1. FilesTyped /\ EventsTyped /\ GateTyped
  BY ConstantsAssumption DEF Init, LoopInit, FilesTyped, EventsTyped, GateTyped, NoVerdicts,
     Unseen, Unmarked, Status, Version, Gap
<1>2. LoopTyped
  <2>1. tier = 1 /\ tries = 0 /\ round = 1 /\ nudged = {} /\ left = 0 /\ spinning = 0
    BY DEF Init, LoopInit
  <2>2. leftOn \in BOOLEAN
    BY DEF Init, LoopInit
  <2> QED BY <2>1, <2>2, ConstantsAssumption DEF LoopTyped
<1>3. pc \in Places /\ FlagsTyped
  BY DEF Init, LoopInit, Places, FlagsTyped
<1>4. RestTyped /\ StorageTyped
  BY ConstantsAssumption DEF Init, RestTyped, StorageTyped, Version, Idle
<1>5. TypeOK
  BY <1>1, <1>2, <1>3, <1>4, TypeParts
<1>6. VerdictsHonest /\ OutcomeHonest /\ CutUnproven
  BY DEF Init, LoopInit, NoVerdicts, VerdictsHonest, OutcomeHonest, CutUnproven, Fresh
<1>7. CallsOpen /\ Revertible /\ Looks
  BY DEF Init, LoopInit, CallsOpen, Revertible, Looks
<1>8. Phases /\ AuditedFiles /\ StoredOrSyncing /\ LateLost
  BY DEF Init, LoopInit, Phases, Early, Waited, AuditedFiles, StoredOrSyncing, LateLost
<1> QED BY <1>5, <1>6, <1>7, <1>8 DEF IInv

\* Every step keeps the invariant.
LEMMA Step ==
  ASSUME IInv, [Next]_vars
  PROVE  IInv'
<1> USE DEF IInv
<1>1. TypeOK'
  BY FoldsTyped, LoopTypedPreserved, PlacesPreserved, FlagsPreserved, RestPreserved,
     StoragePreserved, TypeParts
<1>2. CallsOpen' /\ VerdictsHonest' /\ OutcomeHonest'
  BY CallsOpenPreserved, VerdictsPreserved, OutcomeHonestPreserved
<1>3. Phases' /\ CutUnproven' /\ Revertible'
  BY PhasesPreserved, CutUnprovenPreserved, RevertiblePreserved
<1>4. Looks' /\ AuditedFiles' /\ StoredOrSyncing' /\ LateLost'
  BY LooksPreserved, AuditedPreserved, StoredPreserved, LateLostPreserved
<1> QED BY <1>1, <1>2, <1>3, <1>4

\* What holds at every step of a build (runFastBuild()).
THEOREM Invariant == Spec => []IInv
<1>1. Init => IInv
  BY Initially
<1>2. IInv /\ [Next]_vars => IInv'
  BY Step
<1> QED BY <1>1, <1>2, PTL DEF Spec

\* Every variable keeps its type.
THEOREM TypeCorrect == Spec => []TypeOK
<1>1. IInv => TypeOK
  BY DEF IInv
<1> QED BY <1>1, Invariant, PTL

\* While the model works, the verdicts it is told are about the files as they are
\* unless a write was counted, and no call is open after the loop (noteWrite(),
\* gateResults and callModel() of dispatcher.ts).
THEOREM LoopToldAlways == Spec => []LoopTold
<1>1. IInv => LoopTold
  BY DEF IInv, CallsOpen, LoopTold, CallsEnd
<1> QED BY <1>1, Invariant, PTL

\* A verdict the events show as fresh is about the files as they are, but for the
\* gaps that are named (projectOutcome()).
THEOREM OutcomeHonestAlways == Spec => []OutcomeHonest
<1>1. IInv => OutcomeHonest
  BY DEF IInv
<1> QED BY <1>1, Invariant, PTL

\* The audit in the record is about the files delivered.
THEOREM AuditHonestAlways == Spec => []AuditHonest
<1>1. IInv => AuditHonest
  BY DEF IInv, AuditedFiles, AuditHonest
<1> QED BY <1>1, Invariant, PTL

\* Storage ends with the files delivered, whatever uploads were refused or given
\* up before the last one (the sync of before the preview, and the chain's own
\* write of what it repaired).
THEOREM StoredIsShippedAlways == Spec => []StoredIsShipped
<1>1. IInv => StoredIsShipped
  <2> SUFFICES ASSUME IInv, pc = "done", chain = "done", syncing = 0, unstored = {}
               PROVE  stored = code
    BY DEF StoredIsShipped
  <2>1. code # 0
    <3>1. code \in 1..MaxChanges + 1 /\ MaxChanges \in Nat
      BY ConstantsAssumption DEF IInv, TypeOK, LoopTypeOK
    <3> QED BY <3>1
  <2>2. Kept = code
    BY DEF Kept, Unjudged
  <2> QED BY <2>1, <2>2 DEF IInv, StoredOrSyncing, Unjudged
<1> QED BY <1>1, Invariant, PTL
=============================================================================
