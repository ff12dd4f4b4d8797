-------------------------- MODULE ProjectFilesProofs --------------------------
(***************************************************************************)
(* Theorems about ProjectFiles, for any paths, contents, labels and faults, *)
(* about the deployment of an app's files (Deploy) and about what a user   *)
(* keeps beside the code (Workspace).                                      *)
(***************************************************************************)
EXTENDS ProjectFiles, Deploy, Workspace, SequenceTheorems, TLAPS

-----------------------------------------------------------------------------
(* The inductive invariant.                                                *)

\* Paths a revert has written in both places.
Settled == IF place = "revStored" THEN tried \ {cur} ELSE tried

\* What the handler at work has done agrees with the await it has reached.
HandlerOK ==
  /\ place \notin {"revLive", "revStored", "undoLive", "undoStored"} => tried = {}
  /\ place \in {"push", "store"} => \A p \in Has(given) : Current[p] = given[p]
  /\ place = "save" =>
       \A p \in Has(given) : given[p] = Current[p] \/ (Current[p] = None /\ p \in unsureStored)
  /\ place \notin {"over", "lost"} => \A p \in Has(baseline) : disk[p] = baseline[p]
  /\ place \in {"delStored", "putBack"} => cur \in Path
  /\ place = "delStored" => live[cur] = None
  /\ place = "putBack" => cur \in unsureStored
  /\ place \in {"revLive", "revStored"} =>
       /\ Differ(Current, given) = todo \cup tried
       /\ \A p \in Settled :
            live[p] = given[p] /\ (p \notin abandoned => stored[p] = given[p])
  /\ place = "revStored" => cur \in tried /\ live[cur] = given[cur]
  /\ place = "undoStored" => cur \in todo

\* An upload that may still land was given up.
LateOK == \A u \in late : u.path \in abandoned

IInv == TypeOK /\ LateOK /\ HandlerOK /\ LiveInStep /\ StoredInStep

-----------------------------------------------------------------------------
(* Facts about the helpers.                                                *)

LEMMA OverFiles ==
  ASSUME NEW f \in Files, NEW g \in Files
  PROVE  Over(f, g) \in Files
BY DEF Over, Files

LEMMA OnFiles ==
  ASSUME NEW S, NEW f \in Files, NEW g \in Files
  PROVE  On(S, f, g) \in Files
BY DEF On, Files

LEMMA UpdatedFiles ==
  ASSUME NEW f \in Files, NEW g \in Files, NEW p
  PROVE  /\ [f EXCEPT ![p] = g[p]] \in Files
         /\ [f EXCEPT ![p] = None] \in Files
BY DEF Files

LEMMA NothingFiles == Nothing \in Files
BY DEF Nothing, Files

LEMMA CurrentFiles == TypeOK => Current \in Files
BY OverFiles, OnFiles, NothingFiles DEF Current, TypeOK

LEMMA OutputFiles == TypeOK => Output \in Files
BY OverFiles, OnFiles, NothingFiles DEF Output, TypeOK

LEMMA Member ==
  ASSUME NEW T, NEW s \in Seq(T), NEW i \in DOMAIN s
  PROVE  i \in 1..Len(s) /\ s[i] \in T
BY LenProperties, ElementOfSeq

LEMMA Removed ==
  ASSUME NEW T, NEW s \in Seq(T), NEW i \in 1..Len(s)
  PROVE  RemoveAt(s, i) \in Seq(T) /\ Len(RemoveAt(s, i)) = Len(s) - 1
<1> DEFINE a == SubSeq(s, 1, i - 1)
           b == SubSeq(s, i + 1, Len(s))
<1>1. a \in Seq(T) /\ Len(a) = i - 1
  BY SubSeqProperties
<1>2. b \in Seq(T) /\ Len(b) = Len(s) - i
  BY SubSeqProperties
<1>3. a \o b \in Seq(T) /\ Len(a \o b) = Len(s) - 1
  <2> HIDE DEF a, b
  <2>1. Len(a \o b) = Len(a) + Len(b) /\ a \o b \in Seq(T)
    BY <1>1, <1>2, ConcatProperties
  <2> QED BY <1>1, <1>2, <2>1
<1> QED BY <1>3 DEF RemoveAt

\* One path of the project as the build believes it to be.
LEMMA CurrentAt ==
  /\ Current = [p \in Path |->
       IF p \in deleted THEN None ELSE IF generated[p] # None THEN generated[p] ELSE baseline[p]]
  /\ Current' = [p \in Path |->
       IF p \in deleted' THEN None ELSE IF generated'[p] # None THEN generated'[p] ELSE baseline'[p]]
BY DEF Current, On, Over, Nothing

LEMMA CurrentKept == UNCHANGED <<baseline, generated, deleted>> => Current' = Current
BY DEF Current

\* What is stored at the end is what the build believes, where it believes anything.
LEMMA OutputAt ==
  ASSUME TypeOK, \A p \in Has(baseline) : disk[p] = baseline[p]
  PROVE  \A p \in Has(Current) : Output[p] = Current[p]
BY CurrentAt DEF Output, On, Over, Nothing, Has, TypeOK, Files

\* The memory after a revert is its checkpoint.
LEMMA CheckpointApplied ==
  ASSUME TypeOK, ApplyCheckpoint, baseline' = baseline
  PROVE  Current' = given
<1>1. given \in Files /\ baseline \in Files /\ generated \in Files /\ Current' = [p \in Path |-> Current'[p]]
  BY CurrentAt DEF TypeOK
<1>2. \A p \in Path : Current'[p] = given[p]
  <2> TAKE p \in Path
  <2>1. CASE p \in ToWrite
    BY <1>1, <2>1, CurrentAt DEF ApplyCheckpoint, ToWrite, ToDelete, Has
  <2>2. CASE p \in ToDelete
    BY <1>1, <2>2, CurrentAt DEF ApplyCheckpoint, ToWrite, ToDelete, Has
  <2>3. CASE p \notin ToWrite \cup ToDelete
    <3>1. Current[p] = given[p]
      BY <2>3 DEF ToWrite, ToDelete, Has
    <3>2. generated'[p] = generated[p] /\ (p \in deleted' <=> p \in deleted)
      BY <2>3 DEF ApplyCheckpoint
    <3> QED BY <3>1, <3>2, CurrentAt
  <2> QED BY <2>1, <2>2, <2>3
<1> QED BY <1>1, <1>2 DEF Files

-----------------------------------------------------------------------------
(* The steps.                                                              *)

\* Every step keeps the types.
LEMMA TypeStep ==
  ASSUME TypeOK, HandlerOK, [Next]_vars
  PROVE  TypeOK'
<1>1. ASSUME NEW f \in Files, WriteFiles(f) PROVE TypeOK'
  BY <1>1, OverFiles DEF WriteFiles, Record, TypeOK, Places, memory, handler, observed,
     results
<1>2. ASSUME NEW p \in Path, NEW c \in Content, EditFile(p, c) PROVE TypeOK'
  BY <1>2, OverFiles, NothingFiles DEF EditFile, Record, TypeOK, Places, memory,
     handler, observed, results, Files
<1>3. ASSUME NEW D \in SUBSET Path, DeleteFiles(D) PROVE TypeOK'
  BY <1>3 DEF DeleteFiles, TypeOK, Places, memory, handler, observed, results, Has
<1>4. ASSUME NEW l \in Label, NewCheckpoint(l) PROVE TypeOK'
  <2>1. Snapshot(l) \in [label : Label, files : Files]
    BY CurrentFiles DEF Snapshot
  <2>2. checkpoints' \in Seq([label : Label, files : Files]) /\ Len(checkpoints') <= MaxCheckpoints
    BY <1>4, <2>1, ConstantsAssumption DEF NewCheckpoint, TypeOK
  <2> QED BY <1>4, <2>2 DEF NewCheckpoint, TypeOK, memory, handler, observed, results
<1>5. ASSUME NEW i \in 1..MaxCheckpoints, ReplaceCheckpoint(i) PROVE TypeOK'
  <2>0. i \in 1..Len(checkpoints) /\ checkpoints[i] \in [label : Label, files : Files]
    BY <1>5, Member DEF ReplaceCheckpoint, TypeOK
  <2>1. Snapshot(checkpoints[i].label) \in [label : Label, files : Files]
    BY <2>0, CurrentFiles DEF Snapshot
  <2>2. checkpoints \in Seq([label : Label, files : Files]) /\ Len(checkpoints) <= MaxCheckpoints
    BY DEF TypeOK
  <2>3. /\ checkpoints' \in Seq([label : Label, files : Files])
        /\ Len(checkpoints') = Len(checkpoints)
    <3> DEFINE T == [label : Label, files : Files]
    <3>1. checkpoints \in Seq(T) /\ Snapshot(checkpoints[i].label) \in T
      BY <2>1, <2>2
    <3>2. RemoveAt(checkpoints, i) \in Seq(T) /\ Len(RemoveAt(checkpoints, i)) = Len(checkpoints) - 1
      <4> HIDE DEF T
      <4> QED BY <2>0, <3>1, Removed
    <3> QED BY <1>5, <2>0, <3>1, <3>2, AppendProperties DEF ReplaceCheckpoint
  <2> QED BY <1>5, <2>2, <2>3 DEF ReplaceCheckpoint, TypeOK, memory, handler, observed,
     results
<1>6. ASSUME NEW i \in 1..MaxCheckpoints, Revert(i) PROVE TypeOK'
  <2>1. checkpoints[i] \in [label : Label, files : Files]
    BY <1>6, Member DEF Revert, TypeOK
  <2> QED BY <1>6, <2>1 DEF Revert, TypeOK, Places, Differ, memory, handler, observed,
     results
<1>7. CASE Push
  BY <1>7, OverFiles, CurrentFiles DEF Push, TypeOK, Places, memory, handler, observed,
     results, Has
<1>8. CASE PushFails
  BY <1>8, OnFiles, CurrentFiles DEF PushFails, TypeOK, Places, memory, handler,
     observed, results, Has
<1>9. ASSUME NEW F \in SUBSET Path, Store(F) PROVE TypeOK'
  BY <1>9, OnFiles, NothingFiles DEF Store, Uploaded, Leave, TypeOK, Places, memory,
     handler, observed, results, Has
<1>10. ASSUME NEW F \in SUBSET Path, StoreTimesOut(F) PROVE TypeOK'
  <2>1. stored' \in Files
    BY <1>10, OnFiles DEF StoreTimesOut, TypeOK
  <2>2. \A p \in F : given[p] \in Content
    BY <1>10 DEF StoreTimesOut, TypeOK, Files, Has
  <2>3. late' \subseteq Uploads
    BY <1>10, <2>2 DEF StoreTimesOut, TypeOK, Uploads
  <2> QED BY <1>10, <2>1, <2>3, NothingFiles DEF StoreTimesOut, Uploaded, Leave,
     TypeOK, Places, memory, handler, observed, results
<1>11. ASSUME NEW p \in Path, DeleteLive(p) PROVE TypeOK'
  BY <1>11, UpdatedFiles, NothingFiles DEF DeleteLive, TypeOK, Places, memory, handler,
     observed, results
<1>12. ASSUME NEW p \in Path, DeleteLiveFails(p) PROVE TypeOK'
  BY <1>12, UpdatedFiles, NothingFiles DEF DeleteLiveFails, NextDelete, Reply, Leave,
     TypeOK, Places, memory, handler, observed, results
<1>13. CASE DeleteStored
  <2>1. stored' \in Files /\ generated' \in Files
    BY <1>13, UpdatedFiles DEF DeleteStored, TypeOK
  <2> QED BY <1>13, <2>1, NothingFiles DEF DeleteStored, NextDelete, Reply, Leave,
     TypeOK, HandlerOK, Places, memory, handler, observed, results
<1>14. CASE DeleteStoredFails
  <2>1. stored' \in Files
    BY <1>14, UpdatedFiles DEF DeleteStoredFails, TypeOK
  <2> QED BY <1>14, <2>1, NothingFiles DEF DeleteStoredFails, TypeOK, HandlerOK,
     Places, memory, handler, observed, results
<1>15. CASE PutBack
  BY <1>15, UpdatedFiles, CurrentFiles, NothingFiles DEF PutBack, NextDelete, Reply,
     Leave, TypeOK, Places, memory, handler, observed, results
<1>16. CASE PutBackFails
  <2>1. [live EXCEPT ![cur] = Current[cur]] \in Files
    BY UpdatedFiles, CurrentFiles DEF TypeOK
  <2>2. live' \in Files
    BY <1>16, <2>1 DEF PutBackFails, TypeOK
  <2> QED BY <1>16, <2>2, NothingFiles DEF PutBackFails, NextDelete, Reply, Leave,
     TypeOK, HandlerOK, Places, memory, handler, observed, results
<1>17. ASSUME NEW p \in Path, RevertLive(p) PROVE TypeOK'
  BY <1>17, UpdatedFiles, NothingFiles DEF RevertLive, TypeOK, Places, memory, handler,
     observed, results, Turn
<1>18. ASSUME NEW p \in Path, RevertLiveFails(p) PROVE TypeOK'
  <2>1. [live EXCEPT ![p] = given[p]] \in Files
    BY UpdatedFiles DEF TypeOK
  <2>2. live' \in Files
    BY <1>18, <2>1 DEF RevertLiveFails, TypeOK
  <2> QED BY <1>18, <2>2, NothingFiles DEF RevertLiveFails, TypeOK, HandlerOK, Places,
     memory, handler, observed, results, Turn
<1>19. CASE RevertStored
  BY <1>19, UpdatedFiles, NothingFiles DEF RevertStored, TypeOK, Places, memory,
     handler, observed, results
<1>20. CASE RevertDone
  <2>1. generated' \in Files /\ deleted' \subseteq Path
    BY <1>20 DEF RevertDone, ApplyCheckpoint, TypeOK, Files, ToDelete, ToWrite, Has
  <2>2. stored' \in Files
    BY <1>20, UpdatedFiles DEF RevertDone, TypeOK
  <2> QED BY <1>20, <2>1, <2>2, NothingFiles DEF RevertDone, Reply, Leave, TypeOK,
     Places, memory, handler, observed, results
<1>21. CASE RevertStoredFails
  <2>1. [stored EXCEPT ![cur] = given[cur]] \in Files
    BY UpdatedFiles DEF TypeOK
  <2>2. stored' \in Files
    BY <1>21, <2>1 DEF RevertStoredFails, TypeOK
  <2> QED BY <1>21, <2>2, NothingFiles DEF RevertStoredFails, TypeOK, HandlerOK,
     Places, memory, handler, observed, results
<1>22. ASSUME NEW p \in Path, UndoLive(p) PROVE TypeOK'
  BY <1>22, UpdatedFiles, CurrentFiles, NothingFiles DEF UndoLive, TypeOK, Places,
     memory, handler, observed, results
<1>23. ASSUME NEW p \in Path, UndoLiveFails(p) PROVE TypeOK'
  <2>1. [live EXCEPT ![p] = Current[p]] \in Files
    BY UpdatedFiles, CurrentFiles DEF TypeOK
  <2>2. live' \in Files
    BY <1>23, <2>1 DEF UndoLiveFails, TypeOK
  <2> QED BY <1>23, <2>2, NothingFiles DEF UndoLiveFails, TypeOK, HandlerOK, Places,
     memory, handler, observed, results
<1>24. CASE UndoStored
  BY <1>24, UpdatedFiles, CurrentFiles, NothingFiles DEF UndoStored, NextUndo, Reply,
     Leave, TypeOK, Places, memory, handler, observed, results
<1>25. CASE UndoStoredFails
  <2>1. [stored EXCEPT ![cur] = Current[cur]] \in Files
    BY UpdatedFiles, CurrentFiles DEF TypeOK
  <2>2. stored' \in Files
    BY <1>25, <2>1 DEF UndoStoredFails, TypeOK
  <2> QED BY <1>25, <2>2, NothingFiles DEF UndoStoredFails, NextUndo, Reply, Leave,
     TypeOK, HandlerOK, Places, memory, handler, observed, results
<1>26. CASE Finish
  BY <1>26, OutputFiles, CurrentFiles DEF Finish, TypeOK, Places, memory, handler,
     observed, results, Has
<1>27. ASSUME NEW success \in BOOLEAN, Outcome(success) PROVE TypeOK'
  BY <1>27, OutputFiles DEF Outcome, TypeOK, Places, memory, handler, observed, results
<1>28. CASE Restart
  BY <1>28, NothingFiles, ConstantsAssumption DEF Restart, Leave, TypeOK, Places,
     memory, handler, observed, results
<1>29. CASE NextBuild
  <2>0. disk' \in Files
    BY <1>29, OnFiles, NothingFiles DEF NextBuild, Loaded, TypeOK
  <2>1. baseline' \in Files /\ live' \in Files
    BY <1>29, <2>0, OnFiles, NothingFiles DEF NextBuild, TypeOK
  <2>2. checkpoints' \in Seq([label : Label, files : Files]) /\ Len(checkpoints') <= MaxCheckpoints
    BY <1>29, ConstantsAssumption DEF NextBuild
  <2>3. unsureLive' \subseteq Path /\ unsureStored' \subseteq Path
    BY <1>29 DEF NextBuild, Differ
  <2> QED BY <1>29, <2>0, <2>1, <2>2, <2>3, NothingFiles DEF NextBuild, Reply, Leave,
     TypeOK, Places, memory, handler, observed, results
<1>30. ASSUME NEW u \in late, LateUpload(u) PROVE TypeOK'
  <2>1. stored' \in Files
    BY <1>30 DEF LateUpload, TypeOK, Uploads, Files
  <2> QED BY <1>30, <2>1 DEF LateUpload, TypeOK, memory, handler, observed, results
<1>31. CASE UNCHANGED vars
  BY <1>31 DEF TypeOK, vars, memory, handler, observed, results
<1> QED
  BY <1>1, <1>2, <1>3, <1>4, <1>5, <1>6, <1>7, <1>8, <1>9, <1>10, <1>11, <1>12, <1>13,
     <1>14, <1>15, <1>16, <1>17, <1>18, <1>19, <1>20, <1>21, <1>22, <1>23, <1>24,
     <1>25, <1>26, <1>27, <1>28, <1>29, <1>30, <1>31 DEF Next, Tool, Step

\* Only an upload that timed out lands late.
LEMMA LateStep ==
  ASSUME LateOK, [Next]_vars
  PROVE  LateOK'
<1>1. ASSUME NEW f \in Files, WriteFiles(f) PROVE LateOK'
  BY <1>1 DEF WriteFiles, Record, LateOK, observed, memory, handler, results
<1>2. ASSUME NEW p \in Path, NEW c \in Content, EditFile(p, c) PROVE LateOK'
  BY <1>2 DEF EditFile, Record, LateOK, observed, memory, handler, results
<1>3. ASSUME NEW D \in SUBSET Path, DeleteFiles(D) PROVE LateOK'
  BY <1>3 DEF DeleteFiles, LateOK, observed, memory, handler, results
<1>4. ASSUME NEW l \in Label, NewCheckpoint(l) PROVE LateOK'
  BY <1>4 DEF NewCheckpoint, LateOK, observed, memory, handler, results
<1>5. ASSUME NEW i \in 1..MaxCheckpoints, ReplaceCheckpoint(i) PROVE LateOK'
  BY <1>5 DEF ReplaceCheckpoint, LateOK, observed, memory, handler, results
<1>6. ASSUME NEW i \in 1..MaxCheckpoints, Revert(i) PROVE LateOK'
  BY <1>6 DEF Revert, LateOK, observed, memory, handler, results
<1>7. CASE Push
  BY <1>7 DEF Push, LateOK, observed, memory, handler, results
<1>8. CASE PushFails
  BY <1>8 DEF PushFails, LateOK, observed, memory, handler, results
<1>9. ASSUME NEW F \in SUBSET Path, Store(F) PROVE LateOK'
  BY <1>9 DEF Store, Uploaded, Leave, LateOK, observed, memory, handler, results
<1>10. ASSUME NEW F \in SUBSET Path, StoreTimesOut(F) PROVE LateOK'
  BY <1>10 DEF StoreTimesOut, Uploaded, Leave, LateOK, observed, memory, handler, results
<1>11. ASSUME NEW p \in Path, DeleteLive(p) PROVE LateOK'
  BY <1>11 DEF DeleteLive, LateOK, observed, memory, handler, results
<1>12. ASSUME NEW p \in Path, DeleteLiveFails(p) PROVE LateOK'
  BY <1>12 DEF DeleteLiveFails, NextDelete, Reply, Leave, LateOK, observed, memory,
     handler, results
<1>13. CASE DeleteStored
  BY <1>13 DEF DeleteStored, NextDelete, Reply, Leave, LateOK, observed, memory,
     handler, results
<1>14. CASE DeleteStoredFails
  BY <1>14 DEF DeleteStoredFails, LateOK, observed, memory, handler, results
<1>15. CASE PutBack
  BY <1>15 DEF PutBack, NextDelete, Reply, Leave, LateOK, observed, memory, handler,
     results
<1>16. CASE PutBackFails
  BY <1>16 DEF PutBackFails, NextDelete, Reply, Leave, LateOK, observed, memory,
     handler, results
<1>17. ASSUME NEW p \in Path, RevertLive(p) PROVE LateOK'
  BY <1>17 DEF RevertLive, LateOK, observed, memory, handler, results
<1>18. ASSUME NEW p \in Path, RevertLiveFails(p) PROVE LateOK'
  BY <1>18 DEF RevertLiveFails, LateOK, observed, memory, handler, results
<1>19. CASE RevertStored
  BY <1>19 DEF RevertStored, LateOK, observed, memory, handler, results
<1>20. CASE RevertDone
  BY <1>20 DEF RevertDone, Reply, Leave, LateOK, observed, memory, handler, results
<1>21. CASE RevertStoredFails
  BY <1>21 DEF RevertStoredFails, LateOK, observed, memory, handler, results
<1>22. ASSUME NEW p \in Path, UndoLive(p) PROVE LateOK'
  BY <1>22 DEF UndoLive, LateOK, observed, memory, handler, results
<1>23. ASSUME NEW p \in Path, UndoLiveFails(p) PROVE LateOK'
  BY <1>23 DEF UndoLiveFails, LateOK, observed, memory, handler, results
<1>24. CASE UndoStored
  BY <1>24 DEF UndoStored, NextUndo, Reply, Leave, LateOK, observed, memory, handler,
     results
<1>25. CASE UndoStoredFails
  BY <1>25 DEF UndoStoredFails, NextUndo, Reply, Leave, LateOK, observed, memory,
     handler, results
<1>26. CASE Finish
  BY <1>26 DEF Finish, LateOK, observed, memory, handler, results
<1>27. ASSUME NEW success \in BOOLEAN, Outcome(success) PROVE LateOK'
  BY <1>27 DEF Outcome, LateOK, observed, memory, handler, results
<1>28. CASE Restart
  BY <1>28 DEF Restart, Leave, LateOK, observed, memory, handler, results
<1>29. CASE NextBuild
  BY <1>29 DEF NextBuild, Reply, Leave, LateOK, observed, memory, handler, results
<1>30. ASSUME NEW u \in late, LateUpload(u) PROVE LateOK'
  BY <1>30 DEF LateUpload, LateOK, observed, memory, handler, results
<1>31. CASE UNCHANGED vars
  BY <1>31 DEF LateOK, vars, memory, handler, observed, results
<1> QED
  BY <1>1, <1>2, <1>3, <1>4, <1>5, <1>6, <1>7, <1>8, <1>9, <1>10, <1>11, <1>12, <1>13,
     <1>14, <1>15, <1>16, <1>17, <1>18, <1>19, <1>20, <1>21, <1>22, <1>23, <1>24,
     <1>25, <1>26, <1>27, <1>28, <1>29, <1>30, <1>31 DEF Next, Tool, Step

\* Every step leaves the handler's locals in agreement with its place.
LEMMA HandlerStep ==
  ASSUME TypeOK, LateOK, HandlerOK, [Next]_vars
  PROVE  HandlerOK'
<1>1. ASSUME NEW f \in Files, WriteFiles(f) PROVE HandlerOK'
  BY <1>1, CurrentAt DEF WriteFiles, Record, HandlerOK, Settled, memory, handler,
     observed, results, TypeOK, Files, Has, Over, Differ
<1>2. ASSUME NEW p \in Path, NEW c \in Content, EditFile(p, c) PROVE HandlerOK'
  BY <1>2, CurrentAt DEF EditFile, Record, HandlerOK, Settled, memory, handler,
     observed, results, TypeOK, Files, Has, Over, Nothing, Differ
<1>3. ASSUME NEW D \in SUBSET Path, DeleteFiles(D) PROVE HandlerOK'
  BY <1>3, CurrentKept DEF DeleteFiles, HandlerOK, Settled, memory, handler, observed,
     results, TypeOK, Files, Has, Differ
<1>4. ASSUME NEW l \in Label, NewCheckpoint(l) PROVE HandlerOK'
  BY <1>4, CurrentKept DEF NewCheckpoint, HandlerOK, Settled, memory, handler,
     observed, results, TypeOK, Files, Has, Differ
<1>5. ASSUME NEW i \in 1..MaxCheckpoints, ReplaceCheckpoint(i) PROVE HandlerOK'
  BY <1>5, CurrentKept DEF ReplaceCheckpoint, HandlerOK, Settled, memory, handler,
     observed, results, TypeOK, Files, Has, Differ
<1>6. ASSUME NEW i \in 1..MaxCheckpoints, Revert(i) PROVE HandlerOK'
  BY <1>6, CurrentKept DEF Revert, HandlerOK, Settled, memory, handler, observed,
     results, TypeOK, Files, Has, Differ
<1>7. CASE Push
  BY <1>7, CurrentKept DEF Push, HandlerOK, Settled, memory, handler, observed,
     results, TypeOK, Files, Has, Over, Differ
<1>8. CASE PushFails
  BY <1>8, CurrentKept DEF PushFails, HandlerOK, Settled, memory, handler, observed,
     results, TypeOK, Files, Has, Over, On, Differ
<1>9. ASSUME NEW F \in SUBSET Path, Store(F) PROVE HandlerOK'
  BY <1>9, CurrentKept DEF Store, Uploaded, Leave, HandlerOK, Settled, memory, handler,
     observed, results, TypeOK, Files, Has, On, Differ
<1>10. ASSUME NEW F \in SUBSET Path, StoreTimesOut(F) PROVE HandlerOK'
  BY <1>10, CurrentKept DEF StoreTimesOut, Uploaded, Leave, HandlerOK, Settled, memory,
     handler, observed, results, TypeOK, Files, Has, On, Differ
<1>11. ASSUME NEW p \in Path, DeleteLive(p) PROVE HandlerOK'
  BY <1>11, CurrentKept DEF DeleteLive, HandlerOK, Settled, memory, handler, observed,
     results, TypeOK, Files, Has, Differ
<1>12. ASSUME NEW p \in Path, DeleteLiveFails(p) PROVE HandlerOK'
  BY <1>12, CurrentKept DEF DeleteLiveFails, NextDelete, Reply, Leave, HandlerOK,
     Settled, memory, handler, observed, results, TypeOK, Files, Has, Differ
<1>13. CASE DeleteStored
  BY <1>13, CurrentAt DEF DeleteStored, NextDelete, Reply, Leave, HandlerOK, Settled,
     memory, handler, observed, results, TypeOK, Files, Has, Differ
<1>14. CASE DeleteStoredFails
  BY <1>14, CurrentKept DEF DeleteStoredFails, HandlerOK, Settled, memory, handler,
     observed, results, TypeOK, Files, Has, Differ
<1>15. CASE PutBack
  BY <1>15, CurrentKept DEF PutBack, NextDelete, Reply, Leave, HandlerOK, Settled,
     memory, handler, observed, results, TypeOK, Files, Has, Differ
<1>16. CASE PutBackFails
  BY <1>16, CurrentKept DEF PutBackFails, NextDelete, Reply, Leave, HandlerOK, Settled,
     memory, handler, observed, results, TypeOK, Files, Has, Differ
<1>17. ASSUME NEW p \in Path, RevertLive(p) PROVE HandlerOK'
  BY <1>17, CurrentKept DEF RevertLive, HandlerOK, Settled, memory, handler, observed,
     results, TypeOK, Files, Has, Turn, Differ
<1>18. ASSUME NEW p \in Path, RevertLiveFails(p) PROVE HandlerOK'
  BY <1>18, CurrentKept DEF RevertLiveFails, HandlerOK, Settled, memory, handler,
     observed, results, TypeOK, Files, Has, Turn, Differ
<1>19. CASE RevertStored
  BY <1>19, CurrentKept DEF RevertStored, HandlerOK, Settled, memory, handler,
     observed, results, TypeOK, Files, Has, Differ
<1>20. CASE RevertDone
  BY <1>20, CheckpointApplied DEF RevertDone, Reply, Leave, HandlerOK, Settled, memory,
     handler, observed, results, TypeOK, Files, Has, Differ
<1>21. CASE RevertStoredFails
  BY <1>21, CurrentKept DEF RevertStoredFails, HandlerOK, Settled, memory, handler,
     observed, results, TypeOK, Files, Has, Differ
<1>22. ASSUME NEW p \in Path, UndoLive(p) PROVE HandlerOK'
  BY <1>22, CurrentKept DEF UndoLive, HandlerOK, Settled, memory, handler, observed,
     results, TypeOK, Files, Has, Differ
<1>23. ASSUME NEW p \in Path, UndoLiveFails(p) PROVE HandlerOK'
  BY <1>23, CurrentKept DEF UndoLiveFails, HandlerOK, Settled, memory, handler,
     observed, results, TypeOK, Files, Has, Differ
<1>24. CASE UndoStored
  BY <1>24, CurrentKept DEF UndoStored, NextUndo, Reply, Leave, HandlerOK, Settled,
     memory, handler, observed, results, TypeOK, Files, Has, Differ
<1>25. CASE UndoStoredFails
  BY <1>25, CurrentKept DEF UndoStoredFails, NextUndo, Reply, Leave, HandlerOK,
     Settled, memory, handler, observed, results, TypeOK, Files, Has, Differ
<1>26. CASE Finish
  BY <1>26, CurrentKept, OutputAt DEF Finish, HandlerOK, memory, results, Has
<1>27. ASSUME NEW success \in BOOLEAN, Outcome(success) PROVE HandlerOK'
  BY <1>27, CurrentKept DEF Outcome, HandlerOK, Settled, memory, handler, observed,
     results, TypeOK, Files, Has, Differ
<1>28. CASE Restart
  BY <1>28, CurrentAt DEF Restart, Leave, HandlerOK, Settled, memory, handler,
     observed, results, TypeOK, Files, Has, Differ
<1>29. CASE NextBuild
  BY <1>29, CurrentAt DEF NextBuild, Reply, Leave, HandlerOK, Settled, memory, handler,
     observed, results, TypeOK, Files, Has, On, Nothing, Differ
<1>30. ASSUME NEW u \in late, LateUpload(u) PROVE HandlerOK'
  BY <1>30, CurrentKept DEF LateUpload, LateOK, HandlerOK, Settled, memory, handler,
     observed, results, TypeOK, Files, Has, Differ
<1>31. CASE UNCHANGED vars
  BY <1>31, CurrentKept DEF HandlerOK, Settled, vars, memory, handler, observed, results
<1> QED
  BY <1>1, <1>2, <1>3, <1>4, <1>5, <1>6, <1>7, <1>8, <1>9, <1>10, <1>11, <1>12, <1>13,
     <1>14, <1>15, <1>16, <1>17, <1>18, <1>19, <1>20, <1>21, <1>22, <1>23, <1>24,
     <1>25, <1>26, <1>27, <1>28, <1>29, <1>30, <1>31 DEF Next, Tool, Step

\* Every step keeps the live copy in step.
LEMMA LiveStep ==
  ASSUME TypeOK, HandlerOK, LiveInStep, [Next]_vars
  PROVE  LiveInStep'
<1>1. ASSUME NEW f \in Files, WriteFiles(f) PROVE LiveInStep'
  BY <1>1, CurrentAt DEF WriteFiles, Record, LiveInStep, LiveBusy, memory, handler,
     observed, results, TypeOK, Files, HandlerOK, Has, Over
<1>2. ASSUME NEW p \in Path, NEW c \in Content, EditFile(p, c) PROVE LiveInStep'
  BY <1>2, CurrentAt DEF EditFile, Record, LiveInStep, LiveBusy, memory, handler,
     observed, results, TypeOK, Files, HandlerOK, Has, Over, Nothing
<1>3. ASSUME NEW D \in SUBSET Path, DeleteFiles(D) PROVE LiveInStep'
  BY <1>3, CurrentKept DEF DeleteFiles, LiveInStep, LiveBusy, memory, handler,
     observed, results, TypeOK, Files, HandlerOK, Has
<1>4. ASSUME NEW l \in Label, NewCheckpoint(l) PROVE LiveInStep'
  BY <1>4, CurrentKept DEF NewCheckpoint, LiveInStep, LiveBusy, memory, handler,
     observed, results, TypeOK, Files, HandlerOK, Has
<1>5. ASSUME NEW i \in 1..MaxCheckpoints, ReplaceCheckpoint(i) PROVE LiveInStep'
  BY <1>5, CurrentKept DEF ReplaceCheckpoint, LiveInStep, LiveBusy, memory, handler,
     observed, results, TypeOK, Files, HandlerOK, Has
<1>6. ASSUME NEW i \in 1..MaxCheckpoints, Revert(i) PROVE LiveInStep'
  BY <1>6, CurrentKept DEF Revert, LiveInStep, LiveBusy, memory, handler, observed,
     results, TypeOK, Files, HandlerOK, Has, Differ
<1>7. CASE Push
  BY <1>7, CurrentKept DEF Push, LiveInStep, LiveBusy, memory, handler, observed,
     results, TypeOK, Files, HandlerOK, Has, Over
<1>8. CASE PushFails
  BY <1>8, CurrentKept DEF PushFails, LiveInStep, LiveBusy, memory, handler, observed,
     results, TypeOK, Files, HandlerOK, Has, Over, On
<1>9. ASSUME NEW F \in SUBSET Path, Store(F) PROVE LiveInStep'
  BY <1>9, CurrentKept DEF Store, Uploaded, Leave, LiveInStep, LiveBusy, memory,
     handler, observed, results, TypeOK, Files, HandlerOK, Has, On
<1>10. ASSUME NEW F \in SUBSET Path, StoreTimesOut(F) PROVE LiveInStep'
  BY <1>10, CurrentKept DEF StoreTimesOut, Uploaded, Leave, LiveInStep, LiveBusy,
     memory, handler, observed, results, TypeOK, Files, HandlerOK, Has, On
<1>11. ASSUME NEW p \in Path, DeleteLive(p) PROVE LiveInStep'
  BY <1>11, CurrentKept DEF DeleteLive, LiveInStep, LiveBusy, memory, handler,
     observed, results, TypeOK, Files, HandlerOK, Has
<1>12. ASSUME NEW p \in Path, DeleteLiveFails(p) PROVE LiveInStep'
  BY <1>12, CurrentKept DEF DeleteLiveFails, NextDelete, Reply, Leave, LiveInStep,
     LiveBusy, memory, handler, observed, results, TypeOK, Files, HandlerOK, Has
<1>13. CASE DeleteStored
  BY <1>13, CurrentAt DEF DeleteStored, NextDelete, Reply, Leave, LiveInStep, LiveBusy,
     memory, handler, observed, results, TypeOK, Files, HandlerOK, Has
<1>14. CASE DeleteStoredFails
  BY <1>14, CurrentKept DEF DeleteStoredFails, LiveInStep, LiveBusy, memory, handler,
     observed, results, TypeOK, Files, HandlerOK, Has
<1>15. CASE PutBack
  BY <1>15, CurrentKept DEF PutBack, NextDelete, Reply, Leave, LiveInStep, LiveBusy,
     memory, handler, observed, results, TypeOK, Files, HandlerOK, Has
<1>16. CASE PutBackFails
  BY <1>16, CurrentKept DEF PutBackFails, NextDelete, Reply, Leave, LiveInStep,
     LiveBusy, memory, handler, observed, results, TypeOK, Files, HandlerOK, Has
<1>17. ASSUME NEW p \in Path, RevertLive(p) PROVE LiveInStep'
  BY <1>17, CurrentKept DEF RevertLive, LiveInStep, LiveBusy, memory, handler,
     observed, results, TypeOK, Files, HandlerOK, Has, Turn
<1>18. ASSUME NEW p \in Path, RevertLiveFails(p) PROVE LiveInStep'
  BY <1>18, CurrentKept DEF RevertLiveFails, LiveInStep, LiveBusy, memory, handler,
     observed, results, TypeOK, Files, HandlerOK, Has, Turn
<1>19. CASE RevertStored
  BY <1>19, CurrentKept DEF RevertStored, LiveInStep, LiveBusy, memory, handler,
     observed, results, TypeOK, Files, HandlerOK, Has
<1>20. CASE RevertDone
  <2>1. Current' = given
    BY <1>20, CheckpointApplied DEF RevertDone
  <2>2. \A p \in tried : live'[p] = given[p]
    BY <1>20 DEF RevertDone, HandlerOK, Settled, TypeOK, Files
  <2>3. \A p \in Path \ tried : Current[p] = given[p]
    BY <1>20 DEF RevertDone, HandlerOK, Differ
  <2>4. \A p \in Path \ tried : live'[p] = live[p]
    BY <1>20 DEF RevertDone, HandlerOK, TypeOK, Files
  <2> QED BY <1>20, <2>1, <2>2, <2>3, <2>4 DEF RevertDone, Reply, Leave, LiveInStep,
     LiveBusy
<1>21. CASE RevertStoredFails
  BY <1>21, CurrentKept DEF RevertStoredFails, LiveInStep, LiveBusy, memory, handler,
     observed, results, TypeOK, Files, HandlerOK, Has
<1>22. ASSUME NEW p \in Path, UndoLive(p) PROVE LiveInStep'
  BY <1>22, CurrentKept DEF UndoLive, LiveInStep, LiveBusy, memory, handler, observed,
     results, TypeOK, Files, HandlerOK, Has
<1>23. ASSUME NEW p \in Path, UndoLiveFails(p) PROVE LiveInStep'
  BY <1>23, CurrentKept DEF UndoLiveFails, LiveInStep, LiveBusy, memory, handler,
     observed, results, TypeOK, Files, HandlerOK, Has
<1>24. CASE UndoStored
  BY <1>24, CurrentKept DEF UndoStored, NextUndo, Reply, Leave, LiveInStep, LiveBusy,
     memory, handler, observed, results, TypeOK, Files, HandlerOK, Has
<1>25. CASE UndoStoredFails
  BY <1>25, CurrentKept DEF UndoStoredFails, NextUndo, Reply, Leave, LiveInStep,
     LiveBusy, memory, handler, observed, results, TypeOK, Files, HandlerOK, Has
<1>26. CASE Finish
  BY <1>26, CurrentKept DEF Finish, LiveInStep, LiveBusy, memory, handler, observed,
     results, TypeOK, Files, HandlerOK, Has
<1>27. ASSUME NEW success \in BOOLEAN, Outcome(success) PROVE LiveInStep'
  BY <1>27, CurrentKept DEF Outcome, LiveInStep, LiveBusy, memory, handler, observed,
     results, TypeOK, Files, HandlerOK, Has
<1>28. CASE Restart
  BY <1>28, CurrentAt DEF Restart, Leave, LiveInStep, LiveBusy, memory, handler,
     observed, results, TypeOK, Files, HandlerOK, Has
<1>29. CASE NextBuild
  BY <1>29, CurrentAt DEF NextBuild, Reply, Leave, LiveInStep, LiveBusy, memory,
     handler, observed, results, TypeOK, Files, HandlerOK, Has, On, Nothing, Differ
<1>30. ASSUME NEW u \in late, LateUpload(u) PROVE LiveInStep'
  BY <1>30, CurrentKept DEF LateUpload, LiveInStep, LiveBusy, memory, handler,
     observed, results, TypeOK, Files, HandlerOK, Has
<1>31. CASE UNCHANGED vars
  BY <1>31, CurrentKept DEF LiveInStep, LiveBusy, vars, memory, handler, observed, results
<1> QED
  BY <1>1, <1>2, <1>3, <1>4, <1>5, <1>6, <1>7, <1>8, <1>9, <1>10, <1>11, <1>12, <1>13,
     <1>14, <1>15, <1>16, <1>17, <1>18, <1>19, <1>20, <1>21, <1>22, <1>23, <1>24,
     <1>25, <1>26, <1>27, <1>28, <1>29, <1>30, <1>31 DEF Next, Tool, Step

\* Every step keeps the stored copy in step.
LEMMA StoredStep ==
  ASSUME TypeOK, LateOK, HandlerOK, StoredInStep, [Next]_vars
  PROVE  StoredInStep'
<1>1. ASSUME NEW f \in Files, WriteFiles(f) PROVE StoredInStep'
  BY <1>1, CurrentAt DEF WriteFiles, Record, StoredInStep, StoredBusy, memory, handler,
     observed, results, TypeOK, Files, HandlerOK, Has, Over
<1>2. ASSUME NEW p \in Path, NEW c \in Content, EditFile(p, c) PROVE StoredInStep'
  BY <1>2, CurrentAt DEF EditFile, Record, StoredInStep, StoredBusy, memory, handler,
     observed, results, TypeOK, Files, HandlerOK, Has, Over, Nothing
<1>3. ASSUME NEW D \in SUBSET Path, DeleteFiles(D) PROVE StoredInStep'
  BY <1>3, CurrentKept DEF DeleteFiles, StoredInStep, StoredBusy, memory, handler,
     observed, results, TypeOK, Files, HandlerOK, Has
<1>4. ASSUME NEW l \in Label, NewCheckpoint(l) PROVE StoredInStep'
  BY <1>4, CurrentKept DEF NewCheckpoint, StoredInStep, StoredBusy, memory, handler,
     observed, results, TypeOK, Files, HandlerOK, Has
<1>5. ASSUME NEW i \in 1..MaxCheckpoints, ReplaceCheckpoint(i) PROVE StoredInStep'
  BY <1>5, CurrentKept DEF ReplaceCheckpoint, StoredInStep, StoredBusy, memory,
     handler, observed, results, TypeOK, Files, HandlerOK, Has
<1>6. ASSUME NEW i \in 1..MaxCheckpoints, Revert(i) PROVE StoredInStep'
  BY <1>6, CurrentKept DEF Revert, StoredInStep, StoredBusy, memory, handler, observed,
     results, TypeOK, Files, HandlerOK, Has, Differ
<1>7. CASE Push
  BY <1>7, CurrentKept DEF Push, StoredInStep, StoredBusy, memory, handler, observed,
     results, TypeOK, Files, HandlerOK, Has, Over
<1>8. CASE PushFails
  BY <1>8, CurrentKept DEF PushFails, StoredInStep, StoredBusy, memory, handler,
     observed, results, TypeOK, Files, HandlerOK, Has, Over, On
<1>9. ASSUME NEW F \in SUBSET Path, Store(F) PROVE StoredInStep'
  BY <1>9, CurrentKept DEF Store, Uploaded, Leave, StoredInStep, StoredBusy, memory,
     handler, observed, results, TypeOK, Files, HandlerOK, Has, On
<1>10. ASSUME NEW F \in SUBSET Path, StoreTimesOut(F) PROVE StoredInStep'
  BY <1>10, CurrentKept DEF StoreTimesOut, Uploaded, Leave, StoredInStep, StoredBusy,
     memory, handler, observed, results, TypeOK, Files, HandlerOK, Has, On
<1>11. ASSUME NEW p \in Path, DeleteLive(p) PROVE StoredInStep'
  BY <1>11, CurrentKept DEF DeleteLive, StoredInStep, StoredBusy, memory, handler,
     observed, results, TypeOK, Files, HandlerOK, Has
<1>12. ASSUME NEW p \in Path, DeleteLiveFails(p) PROVE StoredInStep'
  BY <1>12, CurrentKept DEF DeleteLiveFails, NextDelete, Reply, Leave, StoredInStep,
     StoredBusy, memory, handler, observed, results, TypeOK, Files, HandlerOK, Has
<1>13. CASE DeleteStored
  BY <1>13, CurrentAt DEF DeleteStored, NextDelete, Reply, Leave, StoredInStep,
     StoredBusy, memory, handler, observed, results, TypeOK, Files, HandlerOK, Has
<1>14. CASE DeleteStoredFails
  BY <1>14, CurrentKept DEF DeleteStoredFails, StoredInStep, StoredBusy, memory,
     handler, observed, results, TypeOK, Files, HandlerOK, Has
<1>15. CASE PutBack
  BY <1>15, CurrentKept DEF PutBack, NextDelete, Reply, Leave, StoredInStep,
     StoredBusy, memory, handler, observed, results, TypeOK, Files, HandlerOK, Has
<1>16. CASE PutBackFails
  BY <1>16, CurrentKept DEF PutBackFails, NextDelete, Reply, Leave, StoredInStep,
     StoredBusy, memory, handler, observed, results, TypeOK, Files, HandlerOK, Has
<1>17. ASSUME NEW p \in Path, RevertLive(p) PROVE StoredInStep'
  BY <1>17, CurrentKept DEF RevertLive, StoredInStep, StoredBusy, memory, handler,
     observed, results, TypeOK, Files, HandlerOK, Has, Turn
<1>18. ASSUME NEW p \in Path, RevertLiveFails(p) PROVE StoredInStep'
  BY <1>18, CurrentKept DEF RevertLiveFails, StoredInStep, StoredBusy, memory, handler,
     observed, results, TypeOK, Files, HandlerOK, Has, Turn
<1>19. CASE RevertStored
  BY <1>19, CurrentKept DEF RevertStored, StoredInStep, StoredBusy, memory, handler,
     observed, results, TypeOK, Files, HandlerOK, Has
<1>20. CASE RevertDone
  <2>1. Current' = given
    BY <1>20, CheckpointApplied DEF RevertDone
  <2>2. \A p \in tried : (p \notin abandoned => stored'[p] = given[p])
    BY <1>20 DEF RevertDone, HandlerOK, Settled, TypeOK, Files
  <2>3. \A p \in Path \ tried : Current[p] = given[p]
    BY <1>20 DEF RevertDone, HandlerOK, Differ
  <2>4. \A p \in Path \ tried : stored'[p] = stored[p]
    BY <1>20 DEF RevertDone, HandlerOK, TypeOK, Files
  <2> QED BY <1>20, <2>1, <2>2, <2>3, <2>4 DEF RevertDone, Reply, Leave, StoredInStep,
     StoredBusy
<1>21. CASE RevertStoredFails
  BY <1>21, CurrentKept DEF RevertStoredFails, StoredInStep, StoredBusy, memory,
     handler, observed, results, TypeOK, Files, HandlerOK, Has
<1>22. ASSUME NEW p \in Path, UndoLive(p) PROVE StoredInStep'
  BY <1>22, CurrentKept DEF UndoLive, StoredInStep, StoredBusy, memory, handler,
     observed, results, TypeOK, Files, HandlerOK, Has
<1>23. ASSUME NEW p \in Path, UndoLiveFails(p) PROVE StoredInStep'
  BY <1>23, CurrentKept DEF UndoLiveFails, StoredInStep, StoredBusy, memory, handler,
     observed, results, TypeOK, Files, HandlerOK, Has
<1>24. CASE UndoStored
  BY <1>24, CurrentKept DEF UndoStored, NextUndo, Reply, Leave, StoredInStep,
     StoredBusy, memory, handler, observed, results, TypeOK, Files, HandlerOK, Has
<1>25. CASE UndoStoredFails
  BY <1>25, CurrentKept DEF UndoStoredFails, NextUndo, Reply, Leave, StoredInStep,
     StoredBusy, memory, handler, observed, results, TypeOK, Files, HandlerOK, Has
<1>26. CASE Finish
  BY <1>26, CurrentKept DEF Finish, StoredInStep, StoredBusy, memory, handler,
     observed, results, TypeOK, Files, HandlerOK, Has
<1>27. ASSUME NEW success \in BOOLEAN, Outcome(success) PROVE StoredInStep'
  BY <1>27, CurrentKept DEF Outcome, StoredInStep, StoredBusy, memory, handler,
     observed, results, TypeOK, Files, HandlerOK, Has
<1>28. CASE Restart
  BY <1>28, CurrentAt DEF Restart, Leave, StoredInStep, StoredBusy, memory, handler,
     observed, results, TypeOK, Files, HandlerOK, Has
<1>29. CASE NextBuild
  BY <1>29, CurrentAt DEF NextBuild, Reply, Leave, StoredInStep, StoredBusy, memory,
     handler, observed, results, TypeOK, Files, HandlerOK, Has, On, Nothing, Differ
<1>30. ASSUME NEW u \in late, LateUpload(u) PROVE StoredInStep'
  BY <1>30, CurrentKept DEF LateUpload, StoredInStep, StoredBusy, LateOK, memory,
     handler, observed, results, TypeOK, Files, HandlerOK, Has
<1>31. CASE UNCHANGED vars
  BY <1>31, CurrentKept DEF StoredInStep, StoredBusy, vars, memory, handler, observed,
     results
<1> QED
  BY <1>1, <1>2, <1>3, <1>4, <1>5, <1>6, <1>7, <1>8, <1>9, <1>10, <1>11, <1>12, <1>13,
     <1>14, <1>15, <1>16, <1>17, <1>18, <1>19, <1>20, <1>21, <1>22, <1>23, <1>24,
     <1>25, <1>26, <1>27, <1>28, <1>29, <1>30, <1>31 DEF Next, Tool, Step

-----------------------------------------------------------------------------
(* The theorems.                                                           *)

LEMMA InitInvariant == Init => IInv
<1> SUFFICES ASSUME Init PROVE IInv
  OBVIOUS
<1>1. TypeOK
  BY NothingFiles, ConstantsAssumption DEF Init, TypeOK, Places
<1>2. LateOK /\ HandlerOK
  BY DEF Init, LateOK, HandlerOK
<1>3. LiveInStep /\ StoredInStep
  BY DEF Init, LiveInStep, StoredInStep, LiveBusy, StoredBusy
<1> QED BY <1>1, <1>2, <1>3 DEF IInv

LEMMA InductiveInvariant == Spec => []IInv
<1>1. IInv /\ [Next]_vars => IInv'
  BY TypeStep, LateStep, HandlerStep, LiveStep, StoredStep DEF IInv
<1> QED BY <1>1, InitInvariant, PTL DEF Spec

\* The copies, the checkpoints and the handler's locals have their types.
THEOREM TypeCorrect == Spec => []TypeOK
<1>1. IInv => TypeOK
  BY DEF IInv
<1> QED BY <1>1, InductiveInvariant, PTL

\* The sandbox has what the build believes.
THEOREM LiveCopyCorrect == Spec => []LiveInStep
<1>1. IInv => LiveInStep
  BY DEF IInv
<1> QED BY <1>1, InductiveInvariant, PTL

\* The stored copy is what the build believes.
THEOREM StoredCopyCorrect == Spec => []StoredInStep
<1>1. IInv => StoredInStep
  BY DEF IInv
<1> QED BY <1>1, InductiveInvariant, PTL

\* The build's memory, the sandbox and the store agree.
THEOREM CopiesCorrect == Spec => []CopiesInStep
<1>1. IInv => CopiesInStep
  BY DEF IInv, CopiesInStep
<1> QED BY <1>1, InductiveInvariant, PTL

\* While a revert is at work, only its last step and the loss of the server change memory.
LEMMA RevertChanges ==
  ASSUME Reverting, [Next]_vars, ~RevertDone, ~Restart
  PROVE  Current' = Current
<1>1. UNCHANGED memory
  BY DEF Reverting, Next, Tool, Step, vars, memory, WriteFiles, EditFile, Record,
     DeleteFiles,
     NewCheckpoint, ReplaceCheckpoint, Revert, Push, PushFails, Store, StoreTimesOut,
     DeleteLive, DeleteLiveFails, RevertLive, RevertLiveFails, UndoLive, UndoLiveFails,
     DeleteStored, DeleteStoredFails, PutBack, PutBackFails, RevertStored, RevertStoredFails,
     UndoStored, UndoStoredFails, Finish, Outcome, NextBuild, LateUpload, results
<1> QED BY <1>1, CurrentKept DEF memory

\* A revert commits to its checkpoint exactly or not at all.
THEOREM RevertCorrect == Spec => RevertAllOrNothing
<1>1. IInv /\ [Next]_vars => [(Reverting /\ Current' # Current) => Restored \/ Restart]_vars
  <2> SUFFICES ASSUME IInv, [Next]_vars, Reverting, Current' # Current, ~Restart
               PROVE  Restored
    OBVIOUS
  <2>1. RevertDone
    BY RevertChanges
  <2>2. TypeOK /\ HandlerOK
    BY DEF IInv
  <2>3. Current' = given
    BY <2>1, <2>2, CheckpointApplied DEF RevertDone
  <2>4. Differ(Current, given) \subseteq tried
    BY <2>1, <2>2 DEF RevertDone, HandlerOK
  <2>5. \A p \in tried : live'[p] = given[p] /\ (p \notin abandoned => stored'[p] = given[p])
    BY <2>1, <2>2 DEF RevertDone, HandlerOK, Settled, TypeOK, Files
  <2> QED BY <2>3, <2>4, <2>5 DEF Restored
<1> QED BY <1>1, InductiveInvariant, PTL DEF Spec, RevertAllOrNothing

-----------------------------------------------------------------------------
(***************************************************************************)
(* Deployment (Deploy): the files that were read are the ones that are     *)
(* sent. For any app, versions, sizes and bounds.                          *)
(***************************************************************************)
\* The behaviours of deploy_app and Vercel, from any of these apps.
DeploySpec(apps) == DeployStart(apps) /\ [][DeployNext]_deployVars

\* A sequence, whatever its elements are.
Listed(v) ==
  Len(v) \in Nat /\ DOMAIN v = 1..Len(v) /\ v \in Seq({v[i] : i \in 1..Len(v)})

(***************************************************************************)
(* A sequence is one of its own elements.                                  *)
(***************************************************************************)
LEMMA SequenceIsListed ==
  ASSUME NEW S, NEW w \in Seq(S) PROVE Listed(w)
<1>1. Len(w) \in Nat /\ w \in [1..Len(w) -> S] BY LenProperties
<1>2. w \in [1..Len(w) -> {w[i] : i \in 1..Len(w)}] BY <1>1
<1>3. w \in Seq({w[i] : i \in 1..Len(w)}) BY <1>1, <1>2, SeqDef
<1> QED BY <1>1, <1>3 DEF Listed

(***************************************************************************)
(* What Append adds to a sequence, and what it keeps.                      *)
(***************************************************************************)
LEMMA ListAppend ==
  ASSUME NEW v, Listed(v), NEW d
  PROVE  /\ Listed(Append(v, d)) /\ Len(Append(v, d)) = Len(v) + 1
         /\ Append(v, d)[Len(v) + 1] = d
         /\ \A i \in 1..Len(v) : Append(v, d)[i] = v[i]
<1> DEFINE S == {v[i] : i \in 1..Len(v)} \cup {d}
           w == Append(v, d)
<1>1. v \in Seq(S)
  BY DEF Listed
<1>2. w \in Seq(S) /\ Len(w) = Len(v) + 1 /\ w[Len(v) + 1] = d
      /\ \A i \in 1..Len(v) : w[i] = v[i]
  BY <1>1
<1>3. Listed(w) BY <1>2, SequenceIsListed
<1> QED BY <1>2, <1>3

\* w is v but for its k-th element, d.
OneChanged(v, k, d, w) ==
  /\ Listed(w) /\ Len(w) = Len(v) /\ w[k] = d
  /\ \A i \in 1..Len(v) : i # k => w[i] = v[i]

(***************************************************************************)
(* Changing one element of a sequence keeps the others.                    *)
(***************************************************************************)
LEMMA ListExcept ==
  ASSUME NEW v, Listed(v), NEW k \in DOMAIN v, NEW d, NEW w, w = [v EXCEPT ![k] = d]
  PROVE  OneChanged(v, k, d, w)
<1> DEFINE S == {v[i] : i \in 1..Len(v)} \cup {d}
<1>1. v \in Seq(S)
  BY DEF Listed
<1>2. w \in Seq(S) /\ Len(w) = Len(v) /\ w[k] = d
      /\ \A i \in 1..Len(v) : i # k => w[i] = v[i]
  BY <1>1
<1>3. Listed(w) BY <1>2, SequenceIsListed
<1> QED BY <1>2, <1>3 DEF OneChanged

(***************************************************************************)
(* What is sent holds nothing but the files that were read: the budget, the*)
(* patterns passed over and the scaffold only leave some out.              *)
(***************************************************************************)
LEMMA SentIsOfFiles ==
  ASSUME NEW files PROVE Range(Sent(files).app) \subseteq Range(files)
<1> DEFINE scaffold == vercelScaffold(detectDeployShape(files))
           kept == (toInlinedFiles(DOMAIN files \cup scaffold) \cap DOMAIN files) \ scaffold
<1>1. Sent(files).app = [p \in kept |-> files[p]]
  BY DEF Sent
<1>2. kept \subseteq DOMAIN files OBVIOUS
<1> HIDE DEF kept
<1> QED BY <1>1, <1>2 DEF Range

\* A call of deploy_app is a record of its fields.
IsCall(d) ==
  d = [at |-> d.at, files |-> d.files, id |-> d.id, url |-> d.url, state |-> d.state,
       polls |-> d.polls, passed |-> d.passed, told |-> d.told]

\* Type invariant.
DeployTyped ==
  /\ IsCall(deploy)
  /\ deploy.at \in {"idle", "scan", "create", "wait", "built", "smoke"}
  /\ Listed(vercel)
  /\ \A i \in 1..Len(vercel) :
       /\ vercel[i] = [sent |-> vercel[i].sent, state |-> vercel[i].state]
       /\ vercel[i].state \in Done \cup {"BUILDING"}
  /\ deploy.id \in 0..Len(vercel)
  /\ deploy.polls \in 0..MaxPolls
  /\ DOMAIN deploy.passed \subseteq Checks

\* Whether the call follows a deployment.
Follows == deploy.at \in {"wait", "built", "smoke"}

\* The ends a deployment never comes back from.
Worse == {"ERROR", "CANCELED", "DELETED"}
\* What was read of the deployment it follows is still so.
StateHolds ==
  /\ Follows => deploy.id # NoDeployment
  /\ deploy.state \in Done => deploy.id # NoDeployment
  /\ deploy.state = "READY" => vercel[deploy.id].state \in {"READY", "DELETED"}
  /\ deploy.state \in Worse => vercel[deploy.id].state \in Worse

\* What a call knows where it is, what the checks found and what is told.
AnswersHold ==
  /\ deploy.at \in {"scan", "create"} => deploy.id = NoDeployment /\ deploy.state = "none"
  /\ deploy.at \in {"scan", "create", "wait", "built"} => DOMAIN deploy.passed = {}
  /\ deploy.at # "idle" => deploy.told = "running"
  /\ deploy.at = "smoke" => deploy.state = "READY"
  /\ DOMAIN deploy.passed # {} => deploy.id # NoDeployment
  /\ \A c \in DOMAIN deploy.passed :
       deploy.passed[c] = TRUE /\ c # "page" => HasFunction(vercel[deploy.id].sent)
  /\ deploy.told = "finished badly" => deploy.state \in Worse
  /\ deploy.told = "live" =>
       deploy.state = "READY" /\ DOMAIN deploy.passed = Checks /\ Answered(deploy.passed)

\* What is about to be sent, and all that was, has no finding that blocks.
Scanned ==
  /\ deploy.at = "create" => Range(deploy.files) \cap Leaky = {}
  /\ \A i \in 1..Len(vercel) : Range(vercel[i].sent.app) \cap Leaky = {}

\* The inductive invariant.
DeployInv == DeployTyped /\ StateHolds /\ AnswersHold /\ Scanned

(***************************************************************************)
(* A call that ends keeps all it knows of the deployment.                  *)
(***************************************************************************)
LEMMA SaysFacts ==
  ASSUME IsCall(deploy), NEW words, NEW d, d = Says(words)
  PROVE  /\ IsCall(d) /\ d.at = "idle" /\ d.told = words /\ d.files = deploy.files
         /\ d.id = deploy.id /\ d.url = deploy.url /\ d.state = deploy.state
         /\ d.polls = deploy.polls /\ d.passed = deploy.passed
BY DEF Says, IsCall

(***************************************************************************)
(* A call may always end with words that promise nothing.                  *)
(***************************************************************************)
LEMMA QuietStep ==
  ASSUME DeployInv, vercel' = vercel, NEW words,
         words \notin {"finished badly", "live"}, deploy' = Says(words)
  PROVE  DeployInv'
<1>1. IsCall(deploy) BY DEF DeployInv, DeployTyped
<1>2. /\ IsCall(deploy') /\ deploy'.at = "idle" /\ deploy'.told = words
      /\ deploy'.id = deploy.id /\ deploy'.state = deploy.state
      /\ deploy'.polls = deploy.polls /\ deploy'.passed = deploy.passed
  BY <1>1, SaysFacts
<1>3. DeployTyped' BY <1>2 DEF DeployInv, DeployTyped
<1>4. StateHolds' BY <1>2 DEF DeployInv, StateHolds, Follows
<1>5. AnswersHold' BY <1>2 DEF DeployInv, AnswersHold
<1>6. Scanned' BY <1>2 DEF DeployInv, Scanned
<1> QED BY <1>3, <1>4, <1>5, <1>6 DEF DeployInv

(***************************************************************************)
(* Every step of the call, of the app and of Vercel keeps the invariant:   *)
(* the state of a deployment only gets worse once it was read as final.    *)
(***************************************************************************)
LEMMA DeployStep ==
  ASSUME DeployInv, DeployNext PROVE DeployInv'
<1>t. IsCall(deploy) /\ Listed(vercel) /\ deploy.id \in 0..Len(vercel) BY DEF DeployInv, DeployTyped
<1>m. MaxPolls \in Nat BY DeployAssumption
<1>1. CASE DeployApp
  <2>1. /\ IsCall(deploy') /\ deploy'.id = NoDeployment /\ deploy'.state = "none"
        /\ deploy'.polls = 0 /\ DOMAIN deploy'.passed = {}
        /\ \/ deploy'.at = "idle" /\ deploy'.told \in {"nothing to deploy", "not connected"}
           \/ deploy'.at = "scan" /\ deploy'.told = "running"
    BY <1>1 DEF DeployApp, NotCalled, IsCall
  <2>2. vercel' = vercel BY <1>1 DEF DeployApp
  <2>3. DeployTyped'
    <3>1. 0 \in 0..Len(vercel) /\ 0 \in 0..MaxPolls BY <1>m, <1>t DEF Listed
    <3> QED BY <2>1, <2>2, <3>1 DEF DeployInv, DeployTyped, NoDeployment
  <2>4. StateHolds' BY <2>1 DEF StateHolds, Follows, Done, Worse
  <2>5. AnswersHold' BY <2>1 DEF AnswersHold
  <2>6. Scanned' BY <2>1, <2>2 DEF DeployInv, Scanned
  <2> QED BY <2>3, <2>4, <2>5, <2>6 DEF DeployInv
<1>2. CASE Scan
  <2>1. vercel' = vercel /\ deploy.at = "scan" BY <1>2 DEF Scan
  <2>2. CASE deploy' = Says("unknown security status") BY <2>1, <2>2, QuietStep
  <2>3. CASE deploy' = Says("blocked") BY <2>1, <2>3, QuietStep
  <2>4. CASE /\ Range(deploy.files) \cap Leaky = {}
             /\ deploy' = [deploy EXCEPT !.at = "create"]
    <3>1. /\ IsCall(deploy') /\ deploy'.at = "create" /\ deploy'.told = deploy.told
          /\ deploy'.id = deploy.id /\ deploy'.state = deploy.state
          /\ deploy'.polls = deploy.polls /\ deploy'.passed = deploy.passed
          /\ deploy'.files = deploy.files
      BY <1>t, <2>4 DEF IsCall
    <3>2. DeployTyped' BY <2>1, <3>1 DEF DeployInv, DeployTyped
    <3>3. StateHolds' BY <2>1, <3>1 DEF DeployInv, StateHolds, Follows
    <3>4. AnswersHold' BY <2>1, <3>1 DEF DeployInv, AnswersHold
    <3>5. Scanned' BY <2>1, <2>4, <3>1 DEF DeployInv, Scanned
    <3> QED BY <3>2, <3>3, <3>4, <3>5 DEF DeployInv
  <2> QED BY <1>2, <2>2, <2>3, <2>4 DEF Scan
<1>3. CASE NothingLeft BY <1>3, QuietStep DEF NothingLeft
<1>4. CASE Refused BY <1>4, QuietStep DEF Refused
<1>5. CASE Created
  <2>1. deploy.at = "create" /\ vercel' = Append(vercel, Deployment) BY <1>5 DEF Created
  <2>2. /\ Listed(vercel') /\ Len(vercel') = Len(vercel) + 1
        /\ vercel'[Len(vercel) + 1] = Deployment
        /\ \A i \in 1..Len(vercel) : vercel'[i] = vercel[i]
    BY <1>t, <2>1, ListAppend
  <2>3. \/ deploy' = Says("no deployment to follow")
        \/ \E url \in BOOLEAN :
             deploy' = [deploy EXCEPT !.at = "wait", !.id = Len(vercel'), !.url = url]
    BY <1>5 DEF Created
  <2>4. /\ IsCall(deploy') /\ deploy'.state = deploy.state
        /\ deploy'.polls = deploy.polls /\ deploy'.passed = deploy.passed
        /\ \/ deploy'.at = "idle" /\ deploy'.id = deploy.id
              /\ deploy'.told = "no deployment to follow"
           \/ deploy'.at = "wait" /\ deploy'.id = Len(vercel') /\ deploy'.told = deploy.told
    BY <1>t, <2>3 DEF Says, IsCall
  <2>5. /\ deploy.id = NoDeployment /\ deploy.state = "none" /\ deploy.told = "running"
        /\ DOMAIN deploy.passed = {}
    BY <2>1 DEF DeployInv, AnswersHold
  <2>6. Len(vercel) \in Nat BY <1>t DEF Listed
  <2>7. Deployment = [sent |-> Deployment.sent, state |-> Deployment.state]
        /\ Deployment.state = "BUILDING" /\ Deployment.sent = Sent(deploy.files)
    BY DEF Deployment
  <2>8. \A i \in 1..Len(vercel') :
          /\ vercel'[i] = [sent |-> vercel'[i].sent, state |-> vercel'[i].state]
          /\ vercel'[i].state \in Done \cup {"BUILDING"}
          /\ Range(vercel'[i].sent.app) \cap Leaky = {}
    <3> SUFFICES ASSUME NEW i \in 1..Len(vercel')
                 PROVE  /\ vercel'[i] = [sent |-> vercel'[i].sent, state |-> vercel'[i].state]
                        /\ vercel'[i].state \in Done \cup {"BUILDING"}
                        /\ Range(vercel'[i].sent.app) \cap Leaky = {}
      OBVIOUS
    <3>1. CASE i \in 1..Len(vercel)
      BY <2>2, <3>1 DEF DeployInv, DeployTyped, Scanned
    <3>2. CASE i \notin 1..Len(vercel)
      <4>1. i = Len(vercel) + 1 BY <2>2, <2>6, <3>2
      <4>2. vercel'[i] = Deployment BY <2>2, <4>1
      <4>3. Range(Deployment.sent.app) \cap Leaky = {}
        BY <2>1, <2>7, SentIsOfFiles DEF DeployInv, Scanned
      <4> QED BY <2>7, <4>2, <4>3
    <3> QED BY <3>1, <3>2
  <2>9. DeployTyped'
    <3>1. deploy'.id \in 0..Len(vercel')
      <4>1. deploy'.id = 0 \/ deploy'.id = Len(vercel') BY <2>4, <2>5 DEF NoDeployment
      <4>2. Len(vercel') \in Nat BY <2>2, <2>6
      <4> QED BY <4>1, <4>2
    <3>2. deploy'.at \in {"idle", "wait"} /\ deploy'.polls \in 0..MaxPolls
      BY <2>4 DEF DeployInv, DeployTyped
    <3> QED BY <2>2, <2>4, <2>5, <2>8, <3>1, <3>2 DEF DeployTyped
  <2>10. StateHolds'
    <3>1. deploy'.at = "wait" => deploy'.id # NoDeployment BY <2>2, <2>4, <2>6 DEF NoDeployment
    <3> QED BY <2>4, <2>5, <3>1 DEF StateHolds, Follows, Done, Worse
  <2>11. AnswersHold' BY <2>4, <2>5 DEF AnswersHold
  <2>12. Scanned' BY <2>4, <2>8 DEF Scanned
  <2> QED BY <2>9, <2>10, <2>11, <2>12 DEF DeployInv
<1>f. Follows => deploy.id \in 1..Len(vercel) /\ vercel[deploy.id].state \in Done \cup {"BUILDING"}
  BY <1>t DEF DeployInv, DeployTyped, StateHolds, NoDeployment, Listed
<1>6. CASE Poll
  <2> DEFINE asked == [deploy EXCEPT !.polls = deploy.polls + 1]
             now == vercel[deploy.id].state
  <2>1. deploy.at = "wait" /\ deploy.polls < MaxPolls /\ vercel' = vercel BY <1>6 DEF Poll
  <2>2. \/ deploy' = asked
        \/ \E url \in BOOLEAN :
             deploy' = [asked EXCEPT !.state = now, !.url = asked.url \/ url,
                                   !.at = IF now \in Done THEN "built" ELSE "wait"]
    BY <1>6, <1>t DEF Poll, IsCall
  <2>3. /\ IsCall(asked) /\ asked.at = deploy.at /\ asked.told = deploy.told
        /\ asked.id = deploy.id /\ asked.state = deploy.state
        /\ asked.polls = deploy.polls + 1 /\ asked.passed = deploy.passed
    BY <1>t DEF IsCall
  <2> HIDE DEF asked, now
  <2>4. /\ IsCall(deploy') /\ deploy'.told = deploy.told /\ deploy'.id = deploy.id
        /\ deploy'.polls = deploy.polls + 1 /\ deploy'.passed = deploy.passed
        /\ \/ deploy'.state = deploy.state /\ deploy'.at = "wait"
           \/ deploy'.state = now /\ deploy'.at \in {"built", "wait"}
    BY <2>1, <2>2, <2>3 DEF IsCall
  <2>5. deploy.polls + 1 \in 0..MaxPolls BY <1>m, <2>1 DEF DeployInv, DeployTyped
  <2>6. DeployTyped' BY <2>1, <2>4, <2>5 DEF DeployInv, DeployTyped
  <2>7. now \in Done \cup {"BUILDING"} /\ now = vercel[deploy.id].state
    BY <1>f, <2>1 DEF Follows, now
  <2>8. StateHolds' BY <2>1, <2>4, <2>7 DEF DeployInv, StateHolds, Follows, Done, Worse
  <2>9. AnswersHold' BY <2>1, <2>4 DEF DeployInv, AnswersHold
  <2>10. Scanned' BY <2>1, <2>4 DEF DeployInv, Scanned
  <2> QED BY <2>6, <2>8, <2>9, <2>10 DEF DeployInv
<1>v. ASSUME NEW next \in {"built", "smoke"}, deploy' = [deploy EXCEPT !.at = next], Follows,
             DOMAIN deploy.passed = {}, vercel' = vercel, deploy.told = "running",
             next = "smoke" => deploy.state = "READY"
      PROVE  DeployInv'
  <2>1. /\ IsCall(deploy') /\ deploy'.at = next /\ deploy'.told = deploy.told
        /\ deploy'.id = deploy.id /\ deploy'.state = deploy.state
        /\ deploy'.polls = deploy.polls /\ deploy'.passed = deploy.passed
    BY <1>t, <1>v DEF IsCall
  <2>2. DeployTyped' BY <1>v, <2>1 DEF DeployInv, DeployTyped
  <2>3. StateHolds' BY <1>v, <2>1 DEF DeployInv, StateHolds, Follows
  <2>4. AnswersHold' BY <1>v, <2>1 DEF DeployInv, AnswersHold
  <2>5. Scanned' BY <1>v, <2>1 DEF DeployInv, Scanned
  <2> QED BY <2>2, <2>3, <2>4, <2>5 DEF DeployInv
<1>p. deploy.at \in {"wait", "built"} => DOMAIN deploy.passed = {} /\ deploy.told = "running"
  BY DEF DeployInv, AnswersHold
<1>7. CASE GiveUp BY <1>7, <1>p, <1>v DEF GiveUp, Follows
\* The call ends with words that say what it knows.
<1>e. ASSUME NEW words, deploy' = Says(words), vercel' = vercel,
             words = "finished badly" => deploy.state \in Worse,
             words = "live" => /\ deploy.state = "READY" /\ DOMAIN deploy.passed = Checks
                               /\ Answered(deploy.passed)
      PROVE  DeployInv'
  <2>1. /\ IsCall(deploy') /\ deploy'.at = "idle" /\ deploy'.told = words
        /\ deploy'.id = deploy.id /\ deploy'.state = deploy.state
        /\ deploy'.polls = deploy.polls /\ deploy'.passed = deploy.passed
    BY <1>t, <1>e, SaysFacts
  <2>2. DeployTyped' BY <1>e, <2>1 DEF DeployInv, DeployTyped
  <2>3. StateHolds' BY <1>e, <2>1 DEF DeployInv, StateHolds, Follows
  <2>4. AnswersHold' BY <1>e, <2>1 DEF DeployInv, AnswersHold
  <2>5. Scanned' BY <1>e, <2>1 DEF DeployInv, Scanned
  <2> QED BY <2>2, <2>3, <2>4, <2>5 DEF DeployInv
<1>8. CASE Judge
  <2>1. deploy.at = "built" /\ vercel' = vercel BY <1>8 DEF Judge
  <2>2. CASE deploy.state # "READY"
    <3>1. CASE stillRunning(deploy.state)
      BY <1>8, <1>e, <2>1, <2>2, <3>1 DEF Judge
    <3>2. CASE ~stillRunning(deploy.state)
      <4>1. deploy.state \in Worse BY <2>2, <3>2 DEF stillRunning, Done, Worse
      <4> QED BY <1>8, <1>e, <2>1, <2>2, <3>2, <4>1 DEF Judge
    <3> QED BY <3>1, <3>2
  <2>3. CASE deploy.state = "READY"
    <3>1. \/ deploy' = Says("ready without URL")
          \/ deploy' = [deploy EXCEPT !.at = "smoke"]
      BY <1>8, <2>3 DEF Judge
    <3> QED BY <1>e, <1>p, <1>v, <2>1, <2>3, <3>1 DEF Follows
  <2> QED BY <2>2, <2>3
<1>9. CASE Ask
  <2>1. PICK c \in Checks \ DOMAIN deploy.passed : \E status \in Statuses(vercel[deploy.id], c) :
          deploy' = [deploy EXCEPT !.passed =
                       With(deploy.passed, c, status # 0 /\ status \in AcceptedCodes[c])]
    BY <1>9, <1>t DEF Ask, IsCall
  <2>2. PICK status \in Statuses(vercel[deploy.id], c) :
          deploy' = [deploy EXCEPT !.passed =
                       With(deploy.passed, c, status # 0 /\ status \in AcceptedCodes[c])]
    BY <2>1
  <2> DEFINE good == status # 0 /\ status \in AcceptedCodes[c]
             more == With(deploy.passed, c, good)
  <2>3. deploy.at = "smoke" /\ vercel' = vercel BY <1>9 DEF Ask
  <2>4. good /\ c # "page" => HasFunction(vercel[deploy.id].sent)
    BY DEF Statuses, AcceptedCodes, Checks
  <2>5. deploy' = [deploy EXCEPT !.passed = more] BY <2>2
  <2> HIDE DEF good
  <2>6. /\ DOMAIN more = DOMAIN deploy.passed \cup {c} /\ more[c] = good
        /\ \A x \in DOMAIN deploy.passed : more[x] = deploy.passed[x]
    BY DEF With
  <2> HIDE DEF more
  <2>7. /\ IsCall(deploy') /\ deploy'.at = deploy.at /\ deploy'.told = deploy.told
        /\ deploy'.id = deploy.id /\ deploy'.state = deploy.state
        /\ deploy'.polls = deploy.polls /\ deploy'.passed = more
    BY <1>t, <2>5 DEF IsCall
  <2>8. DeployTyped' BY <2>3, <2>6, <2>7 DEF DeployInv, DeployTyped
  <2>9. StateHolds' BY <2>3, <2>7 DEF DeployInv, StateHolds, Follows
  <2>10. AnswersHold'
    <3>1. \A x \in DOMAIN more :
            more[x] = TRUE /\ x # "page" => HasFunction(vercel[deploy.id].sent)
      BY <2>4, <2>6 DEF DeployInv, AnswersHold
    <3>2. deploy.id # NoDeployment /\ deploy.state = "READY" /\ deploy.told = "running"
      BY <2>3 DEF DeployInv, StateHolds, AnswersHold, Follows
    <3> QED BY <2>3, <2>7, <3>1, <3>2 DEF AnswersHold
  <2>11. Scanned' BY <2>3, <2>7 DEF DeployInv, Scanned
  <2> QED BY <2>8, <2>9, <2>10, <2>11 DEF DeployInv
<1>10. CASE Report
  <2>1. deploy.state = "READY" BY <1>10 DEF Report, DeployInv, AnswersHold
  <2> QED BY <1>10, <1>e, <2>1 DEF Report
<1>11. CASE ChangeApp
  BY <1>11 DEF ChangeApp, DeployInv, DeployTyped, StateHolds, Follows, AnswersHold, Scanned
\* Vercel goes on by itself.
<1>g. ASSUME NEW k \in DOMAIN vercel, NEW now \in Done, deploy' = deploy,
             vercel' = [vercel EXCEPT ![k].state = now],
             vercel[k].state = "BUILDING" \/ now = "DELETED"
      PROVE  DeployInv'
  <2> DEFINE d == [vercel[k] EXCEPT !.state = now]
  <2>1. vercel' = [vercel EXCEPT ![k] = d] BY <1>g
  <2>2. k \in 1..Len(vercel) BY <1>t DEF Listed
  <2>12. vercel[k] = [sent |-> vercel[k].sent, state |-> vercel[k].state]
    BY <2>2 DEF DeployInv, DeployTyped
  <2>3. d = [sent |-> vercel[k].sent, state |-> now] BY <2>12
  <2>4. d.sent = vercel[k].sent /\ d.state = now /\ d = [sent |-> d.sent, state |-> d.state]
    BY <2>3
  <2> HIDE DEF d
  <2>5. /\ Listed(vercel') /\ Len(vercel') = Len(vercel) /\ vercel'[k] = d
        /\ \A i \in 1..Len(vercel) : i # k => vercel'[i] = vercel[i]
    <3>1. OneChanged(vercel, k, d, vercel') BY <1>t, <2>1, ListExcept
    <3> QED BY <3>1 DEF OneChanged
  <2>6. \A i \in 1..Len(vercel) :
          /\ vercel'[i] = [sent |-> vercel'[i].sent, state |-> vercel'[i].state]
          /\ vercel'[i].state \in Done \cup {"BUILDING"}
          /\ vercel'[i].sent = vercel[i].sent
          /\ vercel'[i].state = vercel[i].state \/ vercel[i].state = "BUILDING"
             \/ vercel'[i].state = "DELETED"
    BY <1>g, <2>4, <2>5 DEF DeployInv, DeployTyped
  <2>7. DeployTyped' BY <1>g, <2>5, <2>6 DEF DeployInv, DeployTyped
  <2>8. deploy.id # NoDeployment => deploy.id \in 1..Len(vercel)
    BY <1>t DEF NoDeployment, Listed
  <2>9. StateHolds' BY <1>g, <2>6, <2>8 DEF DeployInv, StateHolds, Follows, Done, Worse
  <2>10. AnswersHold'
    <3>1. deploy.id # NoDeployment => vercel'[deploy.id].sent = vercel[deploy.id].sent
      BY <2>6, <2>8
    <3>2. \A c \in DOMAIN deploy.passed :
            deploy.passed[c] = TRUE /\ c # "page" => HasFunction(vercel'[deploy.id].sent)
      BY <3>1 DEF DeployInv, AnswersHold
    <3> QED BY <1>g, <3>2 DEF DeployInv, AnswersHold
  <2>11. Scanned' BY <1>g, <2>5, <2>6 DEF DeployInv, Scanned
  <2> QED BY <2>7, <2>9, <2>10, <2>11 DEF DeployInv
<1>12. CASE VercelEnds BY <1>12, <1>g DEF VercelEnds, Done
<1>13. CASE Deleted BY <1>13, <1>g DEF Deleted, Done
<1> QED BY <1>1, <1>2, <1>3, <1>4, <1>5, <1>6, <1>7, <1>8, <1>9, <1>10, <1>11, <1>12, <1>13
        DEF DeployNext

(***************************************************************************)
(* The invariant holds, whatever the app is at the start.                  *)
(***************************************************************************)
LEMMA DeployInvariant ==
  ASSUME NEW apps PROVE DeploySpec(apps) => []DeployInv
<1>1. DeployStart(apps) => DeployInv
  <2> SUFFICES ASSUME DeployStart(apps) PROVE DeployInv OBVIOUS
  <2>1. /\ IsCall(deploy) /\ deploy.at = "idle" /\ deploy.id = 0 /\ deploy.state = "none"
        /\ deploy.polls = 0 /\ DOMAIN deploy.passed = {} /\ deploy.told = "nothing yet"
    BY DEF DeployStart, NotCalled, IsCall, NoDeployment
  <2>2. vercel = <<>> /\ Len(vercel) = 0 /\ Listed(vercel) BY EmptySeq DEF DeployStart, Listed
  <2>3. DeployTyped
    <3>1. 0 \in 0..MaxPolls BY DeployAssumption
    <3>2. 0 \in 0..Len(vercel) /\ 1..Len(vercel) = {} BY <2>2
    <3> QED BY <2>1, <2>2, <3>1, <3>2 DEF DeployTyped
  <2>4. StateHolds BY <2>1 DEF StateHolds, Follows, Done, Worse
  <2>5. AnswersHold BY <2>1 DEF AnswersHold
  <2>6. Scanned
    <3>1. 1..Len(vercel) = {} BY <2>2
    <3> QED BY <2>1, <3>1 DEF Scanned
  <2> QED BY <2>3, <2>4, <2>5, <2>6 DEF DeployInv
<1>2. DeployInv /\ [DeployNext]_deployVars => DeployInv'
  <2>1. ASSUME DeployInv, UNCHANGED deployVars PROVE DeployInv'
    BY <2>1 DEF deployVars, DeployInv, DeployTyped, StateHolds, Follows, AnswersHold, Scanned
  <2> QED BY <2>1, DeployStep
<1> QED BY <1>1, <1>2, PTL DEF DeploySpec

(***************************************************************************)
(* Type correctness: where a call is and what it follows fit together.     *)
(***************************************************************************)
THEOREM DeployTypeCorrect ==
  ASSUME NEW apps PROVE DeploySpec(apps) => []DeployTypeOK
<1>1. DeployInv => DeployTypeOK
  BY DEF DeployInv, DeployTyped, StateHolds, Follows, Listed, DeployTypeOK
<1> QED BY <1>1, DeployInvariant, PTL

(***************************************************************************)
(* No version with a finding that blocks is ever at Vercel, and what the   *)
(* user heard of a deployment stays so (deploy-app.ts, deploy/vercel.ts,   *)
(* smoke.ts), for any app, sizes, budget and numbers of calls, polls and   *)
(* edits.                                                                  *)
(***************************************************************************)
THEOREM DeployedAsToldAlways ==
  ASSUME NEW apps PROVE DeploySpec(apps) => []DeployedAsTold
<1>1. DeployInv => OnlyScannedShips
  BY DEF DeployInv, DeployTyped, Listed, Scanned, OnlyScannedShips
<1>2. ASSUME DeployInv, deploy.told = "live" PROVE HasFunction(vercel[deploy.id].sent)
  <2>1. "health" \in DOMAIN deploy.passed /\ deploy.passed["health"] = TRUE
    BY <1>2 DEF DeployInv, AnswersHold, Answered, Checks
  <2>2. \A c \in DOMAIN deploy.passed :
          deploy.passed[c] = TRUE /\ c # "page" => HasFunction(vercel[deploy.id].sent)
    BY <1>2 DEF DeployInv, AnswersHold
  <2> QED BY <2>1, <2>2
<1>3. DeployInv => WordsHold
  BY <1>2 DEF DeployInv, StateHolds, AnswersHold, WordsHold, Worse
<1>4. DeployInv => DeployedAsTold BY <1>1, <1>3 DEF DeployedAsTold
<1> QED BY <1>4, DeployInvariant, PTL

-----------------------------------------------------------------------------
(***************************************************************************)
(* What a user keeps beside the code (Workspace), for any number of        *)
(* requests of any kinds, interleaved at their awaits.                     *)
(***************************************************************************)
\* The behaviours of the requests of these kinds.
WorkspaceSpec(kinds) == WorkspaceStart /\ [][WorkspaceNext(kinds)]_workspaceVars

\* What settings, variables and preferences are,
Settings == [Key -> Value \cup {Unset}]
\* and the rows of projects
ProjectRow == [slug : [base : Value, n : Nat, copy : {"none", "now", "later"}],
               settings : Settings, archived : BOOLEAN]
\* and versions.
VersionRow == [version : Nat, content : Value]
\* The versions there are.
Versions == {brain[i].version : i \in DOMAIN brain}

\* A request has the fields the steps write.
IsRequest(b) ==
  b = [at |-> b.at, kind |-> b.kind, on |-> b.on, key |-> b.key, value |-> b.value, n |-> b.n,
       seen |-> b.seen, stale |-> b.stale]

\* What every request under way has sent, and where it may stand.
Standing(b) ==
  /\ IsRequest(b) /\ b.stale \in BOOLEAN
  /\ b.at \in {"idle", "slug", "read", "write", "audit"}
  /\ b.at # "idle" => /\ b.kind \in DOMAIN Route /\ b.on = Route[b.kind][1]
                      /\ b.key \in Key /\ b.value \in Value
  /\ b.at = "slug" => b.kind = "create"
  /\ b.at = "read" => b.kind \in {"addVar", "prefer", "version", "rule"}
  /\ b.at = "write" /\ b.kind \in {"edit", "merge", "duplicate"} => b.seen \in Settings
  /\ b.at = "write" /\ b.kind = "rule" => b.seen \in Seq(Value)

\* The names looked up so far are taken.
LookedUp(b) ==
  b.kind = "create" /\ b.at \in {"slug", "write"} =>
    b.n \in Nat /\ \A k \in 0 .. b.n - 1 : Taken(Slug(b.value, k, "none"))

\* What was read was there, and still is unless another write overtook it.
ReadSo(b) ==
  b.at = "write" =>
    /\ b.kind = "version" => b.n = 0 \/ b.n \in Versions
    /\ b.stale = FALSE =>
         /\ b.on = "settings" => b.seen = projects[1].settings
         /\ b.kind = "version" /\ "brain" \notin lost => b.n = Len(brain)
         /\ b.kind = "rule" => b.seen = rules

\* What holds of every request.
RequestHolds(b) == Standing(b) /\ LookedUp(b) /\ ReadSo(b)

\* What the tables hold,
Tabled ==
  /\ projects \in Seq(ProjectRow) /\ projects # <<>>
  /\ envVars \in Settings /\ (prefs = NoRow \/ prefs \in Settings)
  /\ brain \in Seq(VersionRow) /\ rules \in Seq(Value)
  /\ inTurn = [x \in Resource |-> inTurn[x]] /\ lost \subseteq Resource

\* and the versions in them: without a hole, and in order while no write was
\* made from an overtaken read.
Numbered ==
  /\ \E m \in Nat : Versions = 1 .. m
  /\ "brain" \notin lost => \A i \in DOMAIN brain : brain[i].version = i

\* What holds of the tables.
TablesHold == Tabled /\ WritesInTurn /\ Numbered /\ NoSlugSkipped

\* The inductive invariant of the workspace.
WorkspaceInv ==
  /\ req = [r \in Request |-> req[r]] /\ \A r \in Request : RequestHolds(req[r])
  /\ TablesHold

\* Everything but the requests.
Tables == <<projects, envVars, prefs, brain, rules, inTurn, lost>>

(***************************************************************************)
(* What holds of the tables and of a request holds as long as the tables   *)
(* stay.                                                                   *)
(***************************************************************************)
LEMMA SameTables ==
  ASSUME UNCHANGED Tables
  PROVE  /\ TablesHold => TablesHold'
         /\ \A b : RequestHolds(b) => RequestHolds(b)'
<1>1. TablesHold => TablesHold'
  BY DEF Tables, TablesHold, Tabled, WritesInTurn, Numbered, Versions, NoSlugSkipped, Taken
<1>2. ASSUME NEW b PROVE RequestHolds(b) => RequestHolds(b)'
  BY DEF Tables, RequestHolds, Standing, LookedUp, ReadSo, Versions, Taken
<1> QED BY <1>1, <1>2

(***************************************************************************)
(* So a step of one request that leaves the tables alone is a matter of    *)
(* that request.                                                           *)
(***************************************************************************)
LEMMA OneRequest ==
  ASSUME WorkspaceInv, NEW r \in Request, NEW d, UNCHANGED Tables,
         req' = [req EXCEPT ![r] = d], RequestHolds(d)
  PROVE  WorkspaceInv'
<1>1. req' = [s \in Request |-> req'[s]] BY DEF WorkspaceInv
<1>2. \A s \in Request : req'[s] = IF s = r THEN d ELSE req[s] BY DEF WorkspaceInv
<1>3. TablesHold' BY SameTables DEF WorkspaceInv
<1>4. ASSUME NEW s \in Request PROVE RequestHolds(req[s])'
  <2>1. RequestHolds(req'[s]) BY <1>2 DEF WorkspaceInv
  <2> QED BY <2>1, SameTables
<1> QED BY <1>1, <1>3, <1>4 DEF WorkspaceInv

(***************************************************************************)
(* Where each kind of request goes, and whether it reads first.            *)
(***************************************************************************)
LEMMA RouteFacts ==
  ASSUME NEW kind \in DOMAIN Route
  PROVE  /\ Route[kind][2] \in {"slug", "read", "write"} /\ Route[kind][1] # Unset
         /\ Route[kind][2] = "slug" => kind = "create"
         /\ kind = "create" => Route[kind][2] = "slug"
         /\ Route[kind][2] = "read" => kind \in {"addVar", "prefer", "version", "rule"}
         /\ Route[kind][2] = "write" => kind \notin {"addVar", "prefer", "version", "rule"}
         /\ kind \in {"edit", "merge"} => Route[kind][1] = "settings"
         /\ Route[kind][1] = "settings" => kind \in {"edit", "merge"}
         /\ kind \in {"addVar", "setVar", "dropVar"} => Route[kind][1] = "vars"
         /\ kind = "prefer" => Route[kind][1] = "prefs"
         /\ kind = "version" => Route[kind][1] = "brain"
         /\ kind = "rule" => Route[kind][1] = "rules"
BY DEF Route, Unset

(***************************************************************************)
(* The fields of a request that begins.                                    *)
(***************************************************************************)
LEMMA NewRequest ==
  ASSUME NEW kind, NEW on, NEW at, NEW k, NEW v, NEW seen, NEW d,
         d = [at |-> at, kind |-> kind, on |-> on, key |-> k, value |-> v, n |-> 0, seen |-> seen,
              stale |-> FALSE]
  PROVE  /\ d.at = at /\ d.kind = kind /\ d.on = on /\ d.key = k /\ d.value = v
         /\ d.n = 0 /\ d.seen = seen /\ d.stale = FALSE /\ IsRequest(d)
BY DEF IsRequest

(***************************************************************************)
(* The same, from the record the step makes.                               *)
(***************************************************************************)
LEMMA Begun ==
  ASSUME NEW kind, NEW on, NEW at, NEW k, NEW v, NEW seen, NEW d,
         d = [Idle EXCEPT !.kind = kind, !.on = on, !.at = at, !.key = k, !.value = v,
                          !.seen = seen]
  PROVE  d = [at |-> at, kind |-> kind, on |-> on, key |-> k, value |-> v, n |-> 0, seen |-> seen,
              stale |-> FALSE]
BY DEF Idle

(***************************************************************************)
(* A request begins with the settings that came with the owner, and no     *)
(* read made yet.                                                          *)
(***************************************************************************)
LEMMA BeginStep ==
  ASSUME WorkspaceInv, NEW kinds \in SUBSET DOMAIN Route, NEW r \in Request,
         NEW kind \in kinds, NEW k \in Key, NEW v \in Value, Begin(r, kind, k, v)
  PROVE  WorkspaceInv'
<1> DEFINE d == [Idle EXCEPT !.kind = kind, !.on = Route[kind][1], !.at = Route[kind][2],
                             !.key = k, !.value = v, !.seen = projects[1].settings]
<1>1. /\ d.at = Route[kind][2] /\ d.kind = kind /\ d.on = Route[kind][1] /\ d.key = k
      /\ d.value = v /\ d.n = 0 /\ d.seen = projects[1].settings /\ d.stale = FALSE
      /\ IsRequest(d)
  <2>1. d = [at |-> Route[kind][2], kind |-> kind, on |-> Route[kind][1], key |-> k, value |-> v,
             n |-> 0, seen |-> projects[1].settings, stale |-> FALSE]
    <3>1. d = [Idle EXCEPT !.kind = kind, !.on = Route[kind][1], !.at = Route[kind][2],
                           !.key = k, !.value = v, !.seen = projects[1].settings]
      OBVIOUS
    <3> HIDE DEF d
    <3> QED BY <3>1, Begun
  <2> HIDE DEF d
  <2> QED BY <2>1, NewRequest
<1>2. req' = [req EXCEPT ![r] = d] /\ UNCHANGED Tables BY DEF Begin, Only, Tables
<1> HIDE DEF d
<1>3. projects[1].settings \in Settings
  <2>1. projects \in Seq(ProjectRow) /\ projects # <<>> BY DEF WorkspaceInv, TablesHold, Tabled
  <2>2. projects[1] \in ProjectRow BY <2>1, ElementOfSeq, EmptySeq
  <2> QED BY <2>2 DEF ProjectRow
<1>4. Standing(d) BY <1>1, <1>3, RouteFacts DEF Standing
<1>5. LookedUp(d) BY <1>1 DEF LookedUp
<1>6. ReadSo(d) BY <1>1, RouteFacts DEF ReadSo
<1> QED BY <1>2, <1>4, <1>5, <1>6, OneRequest DEF RequestHolds

(***************************************************************************)
(* A request that goes on to a step at which nothing is asked of it.       *)
(***************************************************************************)
LEMMA RequestGoes ==
  ASSUME WorkspaceInv, NEW r \in Request, NEW step \in {"idle", "audit"}, UNCHANGED Tables,
         req[r].at # "idle", Goes(r, step)
  PROVE  WorkspaceInv'
<1> DEFINE d == [req[r] EXCEPT !.at = step]
<1>1. RequestHolds(req[r]) BY DEF WorkspaceInv
<1>2. /\ d.at = step /\ d.kind = req[r].kind /\ d.on = req[r].on /\ d.key = req[r].key
      /\ d.value = req[r].value /\ d.stale = req[r].stale /\ IsRequest(d)
  BY <1>1 DEF RequestHolds, Standing, IsRequest
<1>3. req' = [req EXCEPT ![r] = d] BY DEF Goes
<1> HIDE DEF d
<1>4. RequestHolds(d) BY <1>1, <1>2 DEF RequestHolds, Standing, LookedUp, ReadSo
<1> QED BY <1>3, <1>4, OneRequest

(***************************************************************************)
(* A look at a name: it is free, or one more name is known to be taken.    *)
(***************************************************************************)
LEMMA UniqueSlugStep ==
  ASSUME WorkspaceInv, NEW r \in Request, UniqueSlug(r) PROVE WorkspaceInv'
<1> DEFINE name == Slug(req[r].value, req[r].n, "none")
<1>1. RequestHolds(req[r]) /\ req[r].at = "slug" /\ req[r].kind = "create" /\ UNCHANGED Tables
  BY DEF WorkspaceInv, UniqueSlug, At, Only, NoEffect, Tables
<1>2. CASE Taken(name)
  <2> DEFINE d == [req[r] EXCEPT !.n = req[r].n + 1]
  <2>1. /\ d.at = "slug" /\ d.kind = "create" /\ d.on = req[r].on /\ d.key = req[r].key
        /\ d.value = req[r].value /\ d.stale = req[r].stale /\ IsRequest(d)
        /\ d.n = req[r].n + 1
    BY <1>1 DEF RequestHolds, Standing, IsRequest
  <2>2. req' = [req EXCEPT ![r] = d] BY <1>2 DEF UniqueSlug
  <2> HIDE DEF d
  <2>3. LookedUp(d)
    <3>1. req[r].n \in Nat /\ \A k \in 0 .. req[r].n - 1 : Taken(Slug(req[r].value, k, "none"))
      BY <1>1 DEF RequestHolds, LookedUp
    <3>2. \A k \in 0 .. d.n - 1 : k \in 0 .. req[r].n - 1 \/ k = req[r].n BY <2>1, <3>1
    <3> QED BY <1>2, <2>1, <3>1, <3>2 DEF LookedUp
  <2>4. RequestHolds(d) BY <1>1, <2>1, <2>3 DEF RequestHolds, Standing, ReadSo
  <2> QED BY <1>1, <2>2, <2>4, OneRequest
<1>3. CASE ~Taken(name)
  <2> DEFINE d == [req[r] EXCEPT !.at = "write"]
  <2>1. /\ d.at = "write" /\ d.kind = "create" /\ d.on = req[r].on /\ d.key = req[r].key
        /\ d.value = req[r].value /\ d.stale = req[r].stale /\ IsRequest(d)
        /\ d.n = req[r].n
    BY <1>1 DEF RequestHolds, Standing, IsRequest
  <2>2. req' = [req EXCEPT ![r] = d] BY <1>3 DEF UniqueSlug
  <2> HIDE DEF d
  <2>3. d.on # "settings" BY <1>1, <2>1, RouteFacts DEF RequestHolds, Standing
  <2>4. RequestHolds(d) BY <1>1, <2>1, <2>3 DEF RequestHolds, Standing, LookedUp, ReadSo
  <2> QED BY <1>1, <2>2, <2>4, OneRequest
<1> QED BY <1>2, <1>3

(***************************************************************************)
(* A row whose smaller suffixes are taken joins the projects, or its name  *)
(* was taken meanwhile.                                                    *)
(***************************************************************************)
LEMMA InsertStep ==
  ASSUME WorkspaceInv, NEW r \in Request, NEW base \in Value, NEW n \in Nat,
         NEW copy \in {"none", "now", "later"}, NEW settings \in Settings,
         copy = "none" => \A k \in 0 .. n - 1 : Taken(Slug(base, k, "none")),
         req[r].at = "write", Insert(r, Slug(base, n, copy), settings), NoEffect
  PROVE  WorkspaceInv'
<1> DEFINE slug == Slug(base, n, copy)
<1>1. CASE Taken(slug)
  <2>1. Goes(r, "idle") /\ UNCHANGED Tables BY <1>1 DEF Insert, Only, NoEffect, Tables
  <2> QED BY <2>1, RequestGoes
<1>2. CASE ~Taken(slug)
  <2>1. /\ projects' = Append(projects, Row(slug, settings)) /\ Goes(r, "audit")
        /\ UNCHANGED <<envVars, prefs, brain, rules, inTurn, lost>>
    BY <1>2 DEF Insert, Only, NoEffect
  <2>2. projects \in Seq(ProjectRow) /\ projects # <<>> /\ Row(slug, settings) \in ProjectRow
    BY DEF WorkspaceInv, TablesHold, Tabled, Row, Slug, ProjectRow
  <2>3. /\ projects' \in Seq(ProjectRow) /\ projects' # <<>>
        /\ Len(projects') = Len(projects) + 1 /\ Len(projects) \in Nat \ {0}
        /\ \A i \in 1 .. Len(projects) : projects'[i] = projects[i]
        /\ projects'[Len(projects) + 1] = Row(slug, settings)
        /\ DOMAIN projects = 1 .. Len(projects) /\ DOMAIN projects' = 1 .. Len(projects')
    BY <2>1, <2>2, AppendProperties, EmptySeq, LenProperties
  <2>4. \A name : Taken(name) => Taken(name)' BY <2>3 DEF Taken
  <2>5. projects'[1] = projects[1] BY <2>3
  <2>6. NoSlugSkipped'
    <3>1. ASSUME NEW i \in DOMAIN projects', NEW k \in 0 .. projects'[i].slug.n - 1,
                 projects'[i].slug.copy = "none"
          PROVE  Taken(Slug(projects[i].slug.base, k, "none"))'
      <4>1. CASE i \in DOMAIN projects
        <5>1. projects'[i] = projects[i] BY <2>3, <4>1
        <5>2. Taken(Slug(projects[i].slug.base, k, "none"))
          BY <3>1, <4>1, <5>1 DEF WorkspaceInv, TablesHold, NoSlugSkipped
        <5> QED BY <2>4, <5>1, <5>2
      <4>2. CASE i = Len(projects) + 1
        <5>1. projects'[i].slug = slug BY <2>3, <4>2 DEF Row
        <5>2. Taken(Slug(base, k, "none")) BY <3>1, <5>1 DEF Slug
        <5>3. projects'[i].slug.base = base BY <5>1 DEF Slug
        <5> QED BY <2>4, <5>2, <5>3
      <4> QED BY <2>3, <4>1, <4>2
    <3> QED BY <3>1 DEF NoSlugSkipped
  <2>7. TablesHold'
    <3>1. Tabled' BY <2>1, <2>3 DEF WorkspaceInv, TablesHold, Tabled
    <3>2. WritesInTurn' BY <2>1, <2>5 DEF WorkspaceInv, TablesHold, WritesInTurn
    <3>3. Numbered' BY <2>1 DEF WorkspaceInv, TablesHold, Numbered, Versions
    <3> QED BY <2>6, <3>1, <3>2, <3>3 DEF TablesHold
  <2>8. ASSUME NEW s \in Request PROVE RequestHolds(req[s])'
    <3>1. RequestHolds(req[s]) BY DEF WorkspaceInv
    <3>2. req'[s] = IF s = r THEN [req[s] EXCEPT !.at = "audit"] ELSE req[s]
      BY <2>1 DEF Goes, WorkspaceInv
    <3>3. Standing(req[s])' /\ (req'[s].at = "write" => req'[s] = req[s])
          /\ (req'[s].at = "slug" => req'[s] = req[s])
      BY <3>1, <3>2 DEF RequestHolds, Standing, IsRequest
    <3>4. LookedUp(req[s])' BY <2>4, <3>1, <3>3 DEF RequestHolds, LookedUp
    <3>5. ReadSo(req[s])' BY <2>1, <2>5, <3>1, <3>3 DEF RequestHolds, ReadSo, Versions
    <3> QED BY <3>3, <3>4, <3>5 DEF RequestHolds
  <2>9. req' = [s \in Request |-> req'[s]] BY <2>1 DEF Goes, WorkspaceInv
  <2> QED BY <2>7, <2>8, <2>9 DEF WorkspaceInv
<1> QED BY <1>1, <1>2

\* What is left of a request b when a write on x may overtake it.
Behind(b, d, x) ==
  /\ IsRequest(d) /\ d.at = b.at /\ d.kind = b.kind /\ d.on = b.on /\ d.key = b.key
  /\ d.value = b.value /\ d.n = b.n /\ d.seen = b.seen /\ d.stale \in BOOLEAN
  /\ d.stale = FALSE => b.stale = FALSE /\ ~(b.on = x /\ b.at = "write")

(***************************************************************************)
(* A write of another request changes nothing but whether the read is      *)
(* overtaken.                                                              *)
(***************************************************************************)
LEMMA OvertakenFacts ==
  ASSUME NEW b, IsRequest(b), b.stale \in BOOLEAN, NEW x
  PROVE  Behind(b, Overtaken(b, x), x)
<1> DEFINE d == Overtaken(b, x)
           behind == b.stale \/ (b.on = x /\ b.at = "write")
<1>1. d = [b EXCEPT !.stale = behind] BY DEF Overtaken
<1>2. behind \in BOOLEAN /\ (behind = FALSE => b.stale = FALSE /\ ~(b.on = x /\ b.at = "write"))
  OBVIOUS
<1> HIDE DEF behind, d
<1>3. d = [at |-> b.at, kind |-> b.kind, on |-> b.on, key |-> b.key, value |-> b.value, n |-> b.n,
           seen |-> b.seen, stale |-> behind]
  BY <1>1 DEF IsRequest
<1>4. /\ d.at = b.at /\ d.kind = b.kind /\ d.on = b.on /\ d.key = b.key
      /\ d.value = b.value /\ d.n = b.n /\ d.seen = b.seen /\ d.stale = behind
  BY <1>3
<1>5. IsRequest(d) BY <1>3, <1>4, Zenon DEF IsRequest
<1>6. Behind(b, d, x) BY <1>2, <1>4, <1>5 DEF Behind
<1> QED BY <1>6 DEF d

(***************************************************************************)
(* A write that keeps the tables right keeps the other requests right:     *)
(* whoever read the same is overtaken by it.                               *)
(***************************************************************************)
LEMMA WrittenStep ==
  ASSUME WorkspaceInv, NEW r \in Request, NEW step \in {"idle", "audit"}, Wrote(r, step),
         req[r].at = "write", TablesHold', Versions \subseteq Versions',
         \A name : Taken(name) => Taken(name)',
         req[r].on # "settings" => projects'[1].settings = projects[1].settings,
         req[r].on # "brain" => UNCHANGED brain, req[r].on # "rules" => UNCHANGED rules
  PROVE  WorkspaceInv'
<1> DEFINE x == req[r].on
<1>1. /\ lost \subseteq lost'
      /\ req' = [s \in Request |-> IF s = r THEN [req[s] EXCEPT !.at = step]
                                   ELSE Overtaken(req[s], x)]
  BY DEF Wrote
<1>2. ASSUME NEW s \in Request PROVE RequestHolds(req[s])'
  <2>1. RequestHolds(req[s]) /\ IsRequest(req[s]) /\ req[s].stale \in BOOLEAN
    BY DEF WorkspaceInv, RequestHolds, Standing
  <2>2. CASE s = r
    <3>1. req'[s] = [req[s] EXCEPT !.at = step] BY <1>1, <2>2
    <3>2. /\ req'[s].at = step /\ req'[s].kind = req[s].kind /\ req'[s].on = req[s].on
          /\ req'[s].key = req[s].key /\ req'[s].value = req[s].value
          /\ req'[s].stale = req[s].stale /\ IsRequest(req'[s])
      BY <2>1, <3>1 DEF IsRequest
    <3>3. Standing(req[s])' BY <2>1, <2>2, <3>2 DEF RequestHolds, Standing
    <3> QED BY <3>2, <3>3 DEF RequestHolds, LookedUp, ReadSo
  <2>3. CASE s # r
    <3>1. Behind(req[s], req'[s], x)
      <4>1. req'[s] = Overtaken(req[s], x) BY <1>1, <2>3
      <4> HIDE DEF x
      <4>2. Behind(req[s], Overtaken(req[s], x), x) BY <2>1, OvertakenFacts
      <4> QED BY <4>1, <4>2, Zenon
    <3> HIDE DEF x
    <3>2. /\ IsRequest(req'[s]) /\ req'[s].at = req[s].at /\ req'[s].kind = req[s].kind
          /\ req'[s].on = req[s].on /\ req'[s].key = req[s].key
          /\ req'[s].value = req[s].value /\ req'[s].n = req[s].n
          /\ req'[s].seen = req[s].seen /\ req'[s].stale \in BOOLEAN
      BY <3>1 DEF Behind
    <3>3. Standing(req[s])' BY <2>1, <3>2 DEF RequestHolds, Standing
    <3>4. LookedUp(req[s])' BY <2>1, <3>2 DEF RequestHolds, LookedUp
    <3>5. ReadSo(req[s])'
      <4>1. /\ req[s].at = "write" /\ req[s].kind = "version" => req[s].on = "brain"
            /\ req[s].at = "write" /\ req[s].kind = "rule" => req[s].on = "rules"
        BY <2>1, RouteFacts DEF RequestHolds, Standing
      <4>2. ReadSo(req[s]) BY <2>1 DEF RequestHolds
      <4>3. ASSUME req'[s].at = "write", req'[s].kind = "version"
            PROVE  req'[s].n = 0 \/ req'[s].n \in Versions'
        BY <3>2, <4>2, <4>3 DEF ReadSo
      <4>4. ASSUME req'[s].at = "write", req'[s].stale = FALSE
            PROVE  req[s].at = "write" /\ req[s].stale = FALSE /\ req[s].on # x
        BY <3>1, <3>2, <4>4 DEF Behind
      <4>5. ASSUME req'[s].at = "write", req'[s].stale = FALSE, req'[s].on = "settings"
            PROVE  req'[s].seen = projects'[1].settings
        BY <3>2, <4>2, <4>4, <4>5 DEF ReadSo, x
      <4>6. ASSUME req'[s].at = "write", req'[s].stale = FALSE, req'[s].kind = "version",
                   "brain" \notin lost'
            PROVE  req'[s].n = Len(brain')
        BY <1>1, <3>2, <4>1, <4>2, <4>4, <4>6 DEF ReadSo, x
      <4>7. ASSUME req'[s].at = "write", req'[s].stale = FALSE, req'[s].kind = "rule"
            PROVE  req'[s].seen = rules'
        BY <3>2, <4>1, <4>2, <4>4, <4>7 DEF ReadSo, x
      <4> QED BY <4>3, <4>5, <4>6, <4>7 DEF ReadSo
    <3> QED BY <3>3, <3>4, <3>5 DEF RequestHolds
  <2> QED BY <2>2, <2>3
<1>3. req' = [s \in Request |-> req'[s]] BY <1>1
<1> QED BY <1>2, <1>3 DEF WorkspaceInv

(***************************************************************************)
(* What a write leaves in the ghosts.                                      *)
(***************************************************************************)
LEMMA WroteFacts ==
  ASSUME WorkspaceInv, NEW r \in Request, NEW step, Wrote(r, step),
         NEW x \in Resource, x = req[r].on
  PROVE  /\ inTurn' = [y \in Resource |-> inTurn'[y]] /\ lost' \subseteq Resource
         /\ inTurn'[x] = Applied(inTurn[x], req[r])
         /\ \A y \in Resource \ {x} : inTurn'[y] = inTurn[y] /\ (y \notin lost' => y \notin lost)
         /\ x \notin lost' => x \notin lost /\ req[r].stale = FALSE
<1>1. inTurn = [y \in Resource |-> inTurn[y]] /\ lost \subseteq Resource
      /\ req[r].stale \in BOOLEAN
  BY DEF WorkspaceInv, TablesHold, Tabled, RequestHolds, Standing
<1>2. /\ inTurn' = [inTurn EXCEPT ![x] = Applied(inTurn[x], req[r])]
      /\ lost' = IF req[r].stale THEN lost \cup {x} ELSE lost
  BY DEF Wrote
<1> QED BY <1>1, <1>2

(***************************************************************************)
(* The first project keeps its name when its other columns are written.    *)
(***************************************************************************)
LEMMA FirstRow ==
  ASSUME projects \in Seq(ProjectRow), projects # <<>>, NEW row \in ProjectRow,
         row.slug = projects[1].slug, projects' = [projects EXCEPT ![1] = row]
  PROVE  /\ projects' \in Seq(ProjectRow) /\ projects' # <<>> /\ projects'[1] = row
         /\ \A name : Taken(name) => Taken(name)'
         /\ NoSlugSkipped => NoSlugSkipped'
<1>1. /\ Len(projects) \in Nat \ {0} /\ DOMAIN projects = 1 .. Len(projects)
      /\ projects = [i \in 1 .. Len(projects) |-> projects[i]]
      /\ \A i \in 1 .. Len(projects) : projects[i] \in ProjectRow
  BY EmptySeq, LenProperties, ElementOfSeq
<1>2. /\ projects' = [i \in 1 .. Len(projects) |-> IF i = 1 THEN row ELSE projects[i]]
  BY <1>1
<1>3. projects' \in Seq(ProjectRow) /\ Len(projects') = Len(projects)
      /\ DOMAIN projects' = DOMAIN projects
  <2>1. projects' \in [1 .. Len(projects) -> ProjectRow] BY <1>1, <1>2
  <2> QED BY <1>1, <2>1, SeqDef, LenProperties
<1>4. \A i \in DOMAIN projects : projects'[i].slug = projects[i].slug BY <1>1, <1>2
<1>5. \A name : Taken(name) => Taken(name)' BY <1>3, <1>4 DEF Taken
<1>6. NoSlugSkipped => NoSlugSkipped' BY <1>3, <1>4, <1>5 DEF NoSlugSkipped
<1> QED BY <1>1, <1>2, <1>3, <1>5, <1>6, EmptySeq

(***************************************************************************)
(* The same when the settings are written.                                 *)
(***************************************************************************)
LEMMA SettingsPut ==
  ASSUME WorkspaceInv, NEW settings \in Settings,
         projects' = [projects EXCEPT ![1].settings = settings]
  PROVE  /\ projects' \in Seq(ProjectRow) /\ projects' # <<>>
         /\ projects'[1].settings = settings
         /\ \A name : Taken(name) => Taken(name)'
         /\ NoSlugSkipped'
<1> DEFINE row == [projects[1] EXCEPT !.settings = settings]
<1>1. projects \in Seq(ProjectRow) /\ projects # <<>> /\ NoSlugSkipped
  BY DEF WorkspaceInv, TablesHold, Tabled
<1>2. projects[1] \in ProjectRow BY <1>1, ElementOfSeq, EmptySeq
<1>3. row \in ProjectRow /\ row.slug = projects[1].slug /\ row.settings = settings
  BY <1>2 DEF ProjectRow
<1>4. projects' = [projects EXCEPT ![1] = row] OBVIOUS
<1> HIDE DEF row
<1> QED BY <1>1, <1>3, <1>4, FirstRow

(***************************************************************************)
(* A write of the settings that is what it would be in turn, unless its    *)
(* read was overtaken.                                                     *)
(***************************************************************************)
LEMMA WriteSettings ==
  ASSUME WorkspaceInv, NEW r \in Request, NEW step \in {"idle", "audit"}, Wrote(r, step),
         NEW settings \in Settings, req[r].at = "write", req[r].on = "settings",
         projects' = [projects EXCEPT ![1].settings = settings], Only("projects"),
         "settings" \notin lost /\ req[r].stale = FALSE =>
           settings = Applied(inTurn["settings"], req[r])
  PROVE  WorkspaceInv'
<1>1. /\ projects' \in Seq(ProjectRow) /\ projects' # <<>>
      /\ projects'[1].settings = settings
      /\ \A name : Taken(name) => Taken(name)'
      /\ NoSlugSkipped'
  BY SettingsPut
<1>2. UNCHANGED <<envVars, prefs, brain, rules>> BY DEF Only
<1>3. /\ inTurn' = [y \in Resource |-> inTurn'[y]] /\ lost' \subseteq Resource
      /\ inTurn'["settings"] = Applied(inTurn["settings"], req[r])
      /\ \A y \in Resource \ {"settings"} : inTurn'[y] = inTurn[y]
                                            /\ (y \notin lost' => y \notin lost)
      /\ "settings" \notin lost' => "settings" \notin lost /\ req[r].stale = FALSE
  BY WroteFacts DEF Resource
<1>4. Tabled' BY <1>1, <1>2, <1>3 DEF WorkspaceInv, TablesHold, Tabled
<1>5. WritesInTurn'
  <2>1. WritesInTurn BY DEF WorkspaceInv, TablesHold
  <2> QED BY <1>1, <1>2, <1>3, <2>1 DEF WritesInTurn, Resource
<1>6. Numbered' /\ Versions' = Versions
  BY <1>2, <1>3 DEF WorkspaceInv, TablesHold, Numbered, Versions, Resource
<1>7. TablesHold' BY <1>1, <1>4, <1>5, <1>6 DEF TablesHold
<1> QED BY <1>1, <1>2, <1>6, <1>7, WrittenStep

(***************************************************************************)
(* PATCH of a project: the body alone, in turn whatever was read.          *)
(***************************************************************************)
LEMMA EditStep ==
  ASSUME WorkspaceInv, NEW r \in Request, Edit(r) PROVE WorkspaceInv'
<1> DEFINE settings == [AllUnset EXCEPT ![req[r].key] = req[r].value]
<1>1. req[r].at = "write" /\ req[r].kind = "edit" /\ Wrote(r, "audit") /\ Only("projects")
      /\ projects' = [projects EXCEPT ![1].settings = settings]
  BY DEF Edit, At
<1>2. req[r].key \in Key /\ req[r].value \in Value /\ req[r].on = "settings"
  BY <1>1, RouteFacts DEF WorkspaceInv, RequestHolds, Standing
<1>3. settings \in Settings BY <1>2 DEF Settings, AllUnset
<1>4. settings = Applied(inTurn["settings"], req[r]) BY <1>1 DEF Applied
<1> HIDE DEF settings
<1> QED BY <1>1, <1>2, <1>3, <1>4, WriteSettings

(***************************************************************************)
(* PATCH of its settings: the body over what was read.                     *)
(***************************************************************************)
LEMMA MergeStep ==
  ASSUME WorkspaceInv, NEW r \in Request, Merge(r) PROVE WorkspaceInv'
<1> DEFINE settings == [req[r].seen EXCEPT ![req[r].key] = req[r].value]
<1>1. req[r].at = "write" /\ req[r].kind = "merge" /\ Wrote(r, "idle") /\ Only("projects")
      /\ projects' = [projects EXCEPT ![1].settings = settings]
  BY DEF Merge, At
<1>2. req[r].key \in Key /\ req[r].value \in Value /\ req[r].on = "settings"
      /\ req[r].seen \in Settings
  BY <1>1, RouteFacts DEF WorkspaceInv, RequestHolds, Standing
<1>3. settings \in Settings BY <1>2 DEF Settings
<1>4. ASSUME "settings" \notin lost, req[r].stale = FALSE
      PROVE  settings = Applied(inTurn["settings"], req[r])
  <2>1. req[r].seen = projects[1].settings
    BY <1>1, <1>2, <1>4 DEF WorkspaceInv, RequestHolds, ReadSo
  <2>2. projects[1].settings = inTurn["settings"]
    BY <1>4 DEF WorkspaceInv, TablesHold, WritesInTurn
  <2> QED BY <1>1, <2>1, <2>2 DEF Applied
<1> HIDE DEF settings
<1> QED BY <1>1, <1>2, <1>3, <1>4, WriteSettings

(***************************************************************************)
(* A write of a variable, which is always in turn.                         *)
(***************************************************************************)
LEMMA WriteVars ==
  ASSUME WorkspaceInv, NEW r \in Request, Wrote(r, "idle"), NEW after \in Settings,
         req[r].at = "write", req[r].on = "vars", envVars' = after, Only("vars"),
         after = Applied(envVars, req[r])
  PROVE  WorkspaceInv'
<1>1. UNCHANGED <<projects, prefs, brain, rules>> BY DEF Only
<1>2. /\ inTurn' = [y \in Resource |-> inTurn'[y]] /\ lost' \subseteq Resource
      /\ inTurn'["vars"] = Applied(inTurn["vars"], req[r])
      /\ \A y \in Resource \ {"vars"} : inTurn'[y] = inTurn[y]
                                        /\ (y \notin lost' => y \notin lost)
  BY WroteFacts DEF Resource
<1>3. Tabled' BY <1>1, <1>2 DEF WorkspaceInv, TablesHold, Tabled
<1>4. WritesInTurn'
  <2>1. WritesInTurn BY DEF WorkspaceInv, TablesHold
  <2> QED BY <1>1, <1>2, <2>1 DEF WritesInTurn, Resource
<1>5. Numbered' /\ Versions' = Versions
  BY <1>1, <1>2 DEF WorkspaceInv, TablesHold, Numbered, Versions, Resource
<1>6. NoSlugSkipped' /\ \A name : Taken(name) => Taken(name)'
  BY <1>1 DEF WorkspaceInv, TablesHold, NoSlugSkipped, Taken
<1>7. TablesHold' BY <1>3, <1>4, <1>5, <1>6 DEF TablesHold
<1> QED BY <1>1, <1>5, <1>6, <1>7, WrittenStep

(***************************************************************************)
(* The index, and the update that finds its row, make it so.               *)
(***************************************************************************)
LEMMA VarsSteps ==
  ASSUME WorkspaceInv, NEW r \in Request, AddVar(r) \/ SetVar(r) \/ DropVar(r)
  PROVE  WorkspaceInv'
<1>1. req[r].at = "write" /\ req[r].kind \in {"addVar", "setVar", "dropVar"}
  BY DEF AddVar, SetVar, DropVar, At
<1>2. req[r].key \in Key /\ req[r].value \in Value /\ req[r].on = "vars"
  BY <1>1, RouteFacts DEF WorkspaceInv, RequestHolds, Standing
<1>3. envVars \in Settings BY DEF WorkspaceInv, TablesHold, Tabled
<1>4. CASE Goes(r, "idle") /\ Only("none") /\ NoEffect
  <2>1. UNCHANGED Tables BY <1>4 DEF Only, NoEffect, Tables
  <2> QED BY <1>1, <1>4, <2>1, RequestGoes
<1>5. CASE ~(Goes(r, "idle") /\ Only("none") /\ NoEffect)
  <2> DEFINE value == IF req[r].kind = "dropVar" THEN Unset ELSE req[r].value
             after == [envVars EXCEPT ![req[r].key] = value]
  <2>1. Wrote(r, "idle") /\ Only("vars") /\ envVars' = after
        /\ (req[r].kind = "addVar" => envVars[req[r].key] = Unset)
    BY <1>5 DEF AddVar, SetVar, DropVar, At
  <2>2. after \in Settings BY <1>2, <1>3 DEF Settings
  <2>3. after = Applied(envVars, req[r])
    <3>1. CASE req[r].kind = "addVar"
      <4>1. Applied(envVars, req[r]) =
              [envVars EXCEPT ![req[r].key] = IF envVars[req[r].key] = Unset THEN req[r].value
                                              ELSE "two rows"]
        BY <3>1 DEF Applied
      <4> QED BY <2>1, <3>1, <4>1
    <3>2. CASE req[r].kind = "setVar" BY <3>2 DEF Applied
    <3>3. CASE req[r].kind = "dropVar" BY <3>3 DEF Applied
    <3> QED BY <1>1, <3>1, <3>2, <3>3
  <2> HIDE DEF after
  <2> QED BY <1>1, <1>2, <2>1, <2>2, <2>3, WriteVars
<1> QED BY <1>4, <1>5

(***************************************************************************)
(* A new project and a copy of one.                                        *)
(***************************************************************************)
LEMMA ProjectSteps ==
  ASSUME WorkspaceInv, NEW r \in Request, NEW ms \in {"now", "later"},
         Create(r) \/ Duplicate(r, ms)
  PROVE  WorkspaceInv'
<1>1. req[r].at = "write" /\ NoEffect BY DEF Create, Duplicate, At
<1>2. RequestHolds(req[r]) BY DEF WorkspaceInv
<1>3. CASE Create(r)
  <2>1. req[r].kind = "create" /\ Insert(r, Slug(req[r].value, req[r].n, "none"), AllUnset)
    BY <1>3 DEF Create, At
  <2>2. /\ req[r].value \in Value /\ req[r].n \in Nat
        /\ \A k \in 0 .. req[r].n - 1 : Taken(Slug(req[r].value, k, "none"))
    BY <1>1, <1>2, <2>1 DEF RequestHolds, Standing, LookedUp
  <2>3. AllUnset \in Settings BY DEF AllUnset, Settings
  <2> QED BY <1>1, <2>1, <2>2, <2>3, InsertStep
<1>4. CASE Duplicate(r, ms)
  <2>1. req[r].kind = "duplicate" /\ Insert(r, Slug(Home, 0, ms), req[r].seen)
    BY <1>4 DEF Duplicate, At
  <2>2. req[r].seen \in Settings BY <1>1, <1>2, <2>1 DEF RequestHolds, Standing
  <2>3. Home \in Value BY WorkspaceAssumption DEF Home
  <2>4. ms # "none" /\ ms \in {"none", "now", "later"} /\ 0 \in Nat OBVIOUS
  <2> QED BY <1>1, <2>1, <2>2, <2>3, <2>4, InsertStep
<1> QED BY <1>3, <1>4

(***************************************************************************)
(* An archived project keeps its name and its settings.                    *)
(***************************************************************************)
LEMMA ArchiveStep ==
  ASSUME WorkspaceInv, NEW r \in Request, Archive(r) PROVE WorkspaceInv'
<1> DEFINE row == [projects[1] EXCEPT !.archived = TRUE]
<1>1. req[r].at = "write" /\ Goes(r, "audit")
      /\ UNCHANGED <<envVars, prefs, brain, rules, inTurn, lost>>
      /\ projects' = [projects EXCEPT ![1] = row]
  BY DEF Archive, At, Only, NoEffect
<1>2. projects \in Seq(ProjectRow) /\ projects # <<>> /\ NoSlugSkipped
  BY DEF WorkspaceInv, TablesHold, Tabled
<1>3. projects[1] \in ProjectRow BY <1>2, ElementOfSeq, EmptySeq
<1>4. row \in ProjectRow /\ row.slug = projects[1].slug
      /\ row.settings = projects[1].settings
  BY <1>3 DEF ProjectRow
<1> HIDE DEF row
<1>5. /\ projects' \in Seq(ProjectRow) /\ projects' # <<>> /\ projects'[1] = row
      /\ \A name : Taken(name) => Taken(name)'
      /\ NoSlugSkipped'
  BY <1>1, <1>2, <1>4, FirstRow
<1>6. TablesHold'
  <2>1. Tabled' BY <1>1, <1>5 DEF WorkspaceInv, TablesHold, Tabled
  <2>2. WritesInTurn' BY <1>1, <1>4, <1>5 DEF WorkspaceInv, TablesHold, WritesInTurn
  <2>3. Numbered' BY <1>1 DEF WorkspaceInv, TablesHold, Numbered, Versions
  <2> QED BY <1>5, <2>1, <2>2, <2>3 DEF TablesHold
<1>7. ASSUME NEW s \in Request PROVE RequestHolds(req[s])'
  <2>1. RequestHolds(req[s]) BY DEF WorkspaceInv
  <2>2. req'[s] = IF s = r THEN [req[s] EXCEPT !.at = "audit"] ELSE req[s]
    BY <1>1 DEF Goes, WorkspaceInv
  <2>3. Standing(req[s])' /\ (req'[s].at \in {"write", "slug"} => req'[s] = req[s])
    <3>1. CASE s # r BY <2>1, <2>2, <3>1 DEF RequestHolds, Standing
    <3>2. CASE s = r
      <4>1. req'[s] = [req[s] EXCEPT !.at = "audit"] BY <2>2, <3>2
      <4>2. /\ req'[s].at = "audit" /\ req'[s].kind = req[s].kind /\ req'[s].on = req[s].on
            /\ req'[s].key = req[s].key /\ req'[s].value = req[s].value
            /\ req'[s].stale = req[s].stale /\ IsRequest(req'[s])
        BY <2>1, <4>1 DEF RequestHolds, Standing, IsRequest
      <4> QED BY <1>1, <2>1, <3>2, <4>2 DEF RequestHolds, Standing
    <3> QED BY <3>1, <3>2
  <2>4. LookedUp(req[s])' BY <1>5, <2>1, <2>3 DEF RequestHolds, LookedUp
  <2>5. ReadSo(req[s])' BY <1>1, <1>4, <1>5, <2>1, <2>3 DEF RequestHolds, ReadSo, Versions
  <2> QED BY <2>3, <2>4, <2>5 DEF RequestHolds
<1>8. req' = [s \in Request |-> req'[s]] BY <1>1 DEF Goes, WorkspaceInv
<1> QED BY <1>6, <1>7, <1>8 DEF WorkspaceInv

(***************************************************************************)
(* The audit of a write, or its failure, ends the request.                 *)
(***************************************************************************)
LEMMA AuditStep ==
  ASSUME WorkspaceInv, NEW r \in Request, WriteAudit(r) PROVE WorkspaceInv'
<1>1. UNCHANGED Tables /\ Goes(r, "idle") /\ req[r].at # "idle"
  BY DEF WriteAudit, Only, NoEffect, Tables
<1> QED BY <1>1, RequestGoes

(***************************************************************************)
(* After its read a request has what it needs of the table for its write.  *)
(***************************************************************************)
LEMMA ReadDone ==
  ASSUME WorkspaceInv, NEW r \in Request, req[r].at = "read", NEW d, IsRequest(d),
         d.at = "write", d.kind = req[r].kind, d.on = req[r].on, d.key = req[r].key,
         d.value = req[r].value, d.stale \in BOOLEAN,
         d.kind = "rule" => d.seen \in Seq(Value) /\ (d.stale = FALSE => d.seen = rules),
         d.kind = "version" => /\ d.n = 0 \/ d.n \in Versions
                               /\ "brain" \notin lost => d.n = Len(brain)
  PROVE  RequestHolds(d)
<1>1. Standing(req[r]) BY DEF WorkspaceInv, RequestHolds
<1>2. d.kind \in {"addVar", "prefer", "version", "rule"} /\ d.on # "settings"
  BY <1>1, RouteFacts DEF Standing
<1>3. Standing(d) BY <1>1, <1>2 DEF Standing
<1>4. LookedUp(d) BY <1>2 DEF LookedUp
<1>5. ReadSo(d) BY <1>2 DEF ReadSo
<1> QED BY <1>3, <1>4, <1>5 DEF RequestHolds

(***************************************************************************)
(* Two intervals from 1 that are the same end at the same number.          *)
(***************************************************************************)
LEMMA SameRange ==
  ASSUME NEW m \in Nat, NEW k \in Nat, 1 .. m = 1 .. k PROVE m = k
<1>1. m > 0 => m \in 1 .. k BY SMT
<1>2. k > 0 => k \in 1 .. m BY SMT
<1> QED BY <1>1, <1>2

(***************************************************************************)
(* The largest version is the number of versions, and of rows while none   *)
(* was written from an overtaken read.                                     *)
(***************************************************************************)
LEMMA VersionsRead ==
  ASSUME WorkspaceInv
  PROVE  /\ \E m \in Nat : Versions = 1 .. m /\ Max({0} \cup Versions) = m
         /\ "brain" \notin lost => Max({0} \cup Versions) = Len(brain)
<1>1. PICK m \in Nat : Versions = 1 .. m BY DEF WorkspaceInv, TablesHold, Numbered
<1>2. Max({0} \cup Versions) = m
  <2>1. m \in {0} \cup Versions /\ \A k \in {0} \cup Versions : m >= k BY <1>1
  <2>2. \A j \in {0} \cup Versions : (\A k \in {0} \cup Versions : j >= k) => j = m
    BY <1>1, <2>1
  <2>3. Max({0} \cup Versions) = CHOOSE j \in {0} \cup Versions :
                                    \A k \in {0} \cup Versions : j >= k
    BY DEF Max
  <2> QED BY <2>1, <2>2, <2>3
<1>3. ASSUME "brain" \notin lost PROVE m = Len(brain)
  <2>1. brain \in Seq(VersionRow) /\ \A i \in DOMAIN brain : brain[i].version = i
    BY <1>3 DEF WorkspaceInv, TablesHold, Tabled, Numbered
  <2>2. DOMAIN brain = 1 .. Len(brain) /\ Len(brain) \in Nat BY <2>1, LenProperties
  <2>3. Versions = 1 .. Len(brain) BY <2>1, <2>2 DEF Versions
  <2>4. 1 .. m = 1 .. Len(brain) BY <1>1, <2>3
  <2> QED BY <1>1, <2>2, <2>4, SameRange
<1> QED BY <1>1, <1>2, <1>3

(***************************************************************************)
(* The fields of a request after its read.                                 *)
(***************************************************************************)
LEMMA AfterRead ==
  ASSUME NEW b, IsRequest(b), NEW n, NEW seen, NEW stale \in BOOLEAN, NEW d,
         d = [at |-> "write", kind |-> b.kind, on |-> b.on, key |-> b.key, value |-> b.value,
              n |-> n, seen |-> seen, stale |-> stale]
  PROVE  /\ d.at = "write" /\ d.kind = b.kind /\ d.on = b.on /\ d.key = b.key
         /\ d.value = b.value /\ d.n = n /\ d.seen = seen /\ d.stale = stale /\ IsRequest(d)
<1>1. /\ d.at = "write" /\ d.kind = b.kind /\ d.on = b.on /\ d.key = b.key
      /\ d.value = b.value /\ d.n = n /\ d.seen = seen /\ d.stale = stale
  OBVIOUS
<1>2. IsRequest(d) BY <1>1, Zenon DEF IsRequest
<1> QED BY <1>1, <1>2

(***************************************************************************)
(* The record after a read of a table,                                     *)
(***************************************************************************)
LEMMA ReadSeen ==
  ASSUME NEW b, IsRequest(b), NEW seen, NEW d, d = [b EXCEPT !.at = "write", !.seen = seen]
  PROVE  d = [at |-> "write", kind |-> b.kind, on |-> b.on, key |-> b.key, value |-> b.value,
              n |-> b.n, seen |-> seen, stale |-> b.stale]
<1>1. b = [at |-> b.at, kind |-> b.kind, on |-> b.on, key |-> b.key, value |-> b.value,
           n |-> b.n, seen |-> b.seen, stale |-> b.stale]
  BY DEF IsRequest
<1> QED BY <1>1

(***************************************************************************)
(* after a read of the largest version,                                    *)
(***************************************************************************)
LEMMA ReadNumber ==
  ASSUME NEW b, IsRequest(b), NEW n, NEW d, d = [b EXCEPT !.at = "write", !.n = n]
  PROVE  d = [at |-> "write", kind |-> b.kind, on |-> b.on, key |-> b.key, value |-> b.value,
              n |-> n, seen |-> b.seen, stale |-> b.stale]
<1>1. b = [at |-> b.at, kind |-> b.kind, on |-> b.on, key |-> b.key, value |-> b.value,
           n |-> b.n, seen |-> b.seen, stale |-> b.stale]
  BY DEF IsRequest
<1> QED BY <1>1

(***************************************************************************)
(* and after a read that failed.                                           *)
(***************************************************************************)
LEMMA ReadFailed ==
  ASSUME NEW b, IsRequest(b), NEW seen, NEW stale, NEW d,
         d = [b EXCEPT !.at = "write", !.seen = seen, !.stale = stale]
  PROVE  d = [at |-> "write", kind |-> b.kind, on |-> b.on, key |-> b.key, value |-> b.value,
              n |-> b.n, seen |-> seen, stale |-> stale]
<1>1. b = [at |-> b.at, kind |-> b.kind, on |-> b.on, key |-> b.key, value |-> b.value,
           n |-> b.n, seen |-> b.seen, stale |-> b.stale]
  BY DEF IsRequest
<1> QED BY <1>1

(***************************************************************************)
(* The reads of variables, preferences and versions.                       *)
(***************************************************************************)
LEMMA ReadSteps ==
  ASSUME WorkspaceInv, NEW r \in Request, ReadVar(r) \/ ReadPrefs(r) \/ ReadVersion(r)
  PROVE  WorkspaceInv'
<1>1. Standing(req[r]) /\ IsRequest(req[r]) /\ req[r].stale \in BOOLEAN
  BY DEF WorkspaceInv, RequestHolds, Standing
<1>2. req[r].at = "read" /\ UNCHANGED Tables
  BY DEF ReadVar, ReadPrefs, ReadVersion, At, Only, NoEffect, Tables
<1>3. CASE ReadVar(r) /\ Goes(r, "idle") BY <1>2, <1>3, RequestGoes
<1>4. CASE ReadVar(r) /\ Goes(r, "write")
  <2> DEFINE d == [req[r] EXCEPT !.at = "write"]
  <2>1. /\ d.at = "write" /\ d.kind = req[r].kind /\ d.on = req[r].on /\ d.key = req[r].key
        /\ d.value = req[r].value /\ d.stale = req[r].stale /\ IsRequest(d)
    BY <1>1 DEF IsRequest
  <2>2. req' = [req EXCEPT ![r] = d] BY <1>4 DEF Goes
  <2>3. req[r].kind = "addVar" BY <1>4 DEF ReadVar, At
  <2> HIDE DEF d
  <2>4. RequestHolds(d) BY <1>1, <1>2, <2>1, <2>3, ReadDone
  <2> QED BY <1>2, <2>2, <2>4, OneRequest
<1>5. CASE ReadPrefs(r)
  <2> DEFINE b == req[r]
             d == [b EXCEPT !.at = "write", !.seen = prefs]
  <2>1. /\ d.at = "write" /\ d.kind = b.kind /\ d.on = b.on /\ d.key = b.key
        /\ d.value = b.value /\ d.stale = b.stale /\ IsRequest(d)
    <3>1. IsRequest(b) /\ b.stale \in BOOLEAN BY <1>1
    <3>2. d = [b EXCEPT !.at = "write", !.seen = prefs] OBVIOUS
    <3> HIDE DEF b, d
    <3>3. d = [at |-> "write", kind |-> b.kind, on |-> b.on, key |-> b.key, value |-> b.value,
               n |-> b.n, seen |-> prefs, stale |-> b.stale]
      BY <3>1, <3>2, ReadSeen
    <3> QED BY <3>1, <3>3, AfterRead
  <2>2. req' = [req EXCEPT ![r] = d] BY <1>5 DEF ReadPrefs
  <2>3. req[r].kind = "prefer" BY <1>5 DEF ReadPrefs, At
  <2> HIDE DEF d
  <2>4. RequestHolds(d) BY <1>1, <1>2, <2>1, <2>3, ReadDone
  <2> QED BY <1>2, <2>2, <2>4, OneRequest
<1>6. CASE ReadVersion(r)
  <2> DEFINE largest == Max({0} \cup Versions)
             b == req[r]
             d == [b EXCEPT !.at = "write", !.n = largest]
  <2>1. /\ d.at = "write" /\ d.kind = b.kind /\ d.on = b.on /\ d.key = b.key
        /\ d.value = b.value /\ d.stale = b.stale /\ IsRequest(d) /\ d.n = largest
    <3>1. IsRequest(b) /\ b.stale \in BOOLEAN BY <1>1
    <3>2. d = [b EXCEPT !.at = "write", !.n = largest] OBVIOUS
    <3> HIDE DEF largest, b, d
    <3>3. d = [at |-> "write", kind |-> b.kind, on |-> b.on, key |-> b.key, value |-> b.value,
               n |-> largest, seen |-> b.seen, stale |-> b.stale]
      BY <3>1, <3>2, ReadNumber
    <3> QED BY <3>1, <3>3, AfterRead
  <2>2. req' = [req EXCEPT ![r] = d] BY <1>6 DEF ReadVersion, Versions
  <2>3. req[r].kind = "version" BY <1>6 DEF ReadVersion, At
  <2>4. /\ largest = 0 \/ largest \in Versions
        /\ "brain" \notin lost => largest = Len(brain)
    <3>1. PICK m \in Nat : Versions = 1 .. m /\ largest = m BY VersionsRead
    <3>2. "brain" \notin lost => largest = Len(brain) BY VersionsRead
    <3> HIDE DEF largest
    <3> QED BY <3>1, <3>2
  <2> HIDE DEF d, largest
  <2>5. RequestHolds(d) BY <1>1, <1>2, <2>1, <2>3, <2>4, ReadDone
  <2> QED BY <1>2, <2>2, <2>5, OneRequest
<1>7. ReadVar(r) => Goes(r, "write") \/ Goes(r, "idle") BY DEF ReadVar
<1> QED BY <1>3, <1>4, <1>5, <1>6, <1>7

(***************************************************************************)
(* Rules that could not be read pass for none, and are overtaken from the  *)
(* start if there were any.                                                *)
(***************************************************************************)
LEMMA ReadRulesStep ==
  ASSUME WorkspaceInv, NEW r \in Request, ReadRules(r) PROVE WorkspaceInv'
<1>1. Standing(req[r]) /\ IsRequest(req[r]) /\ req[r].stale \in BOOLEAN /\ rules \in Seq(Value)
  BY DEF WorkspaceInv, RequestHolds, Standing, TablesHold, Tabled
<1>2. req[r].at = "read" /\ req[r].kind = "rule" /\ UNCHANGED Tables
  BY DEF ReadRules, At, Only, NoEffect, Tables
<1>3. CASE req' = [req EXCEPT ![r].at = "write", ![r].seen = rules]
  <2> DEFINE b == req[r]
             d == [b EXCEPT !.at = "write", !.seen = rules]
  <2>1. /\ d.at = "write" /\ d.kind = b.kind /\ d.on = b.on /\ d.key = b.key
        /\ d.value = b.value /\ d.stale = b.stale /\ d.seen = rules /\ IsRequest(d)
    <3>1. IsRequest(b) /\ b.stale \in BOOLEAN BY <1>1
    <3>2. d = [b EXCEPT !.at = "write", !.seen = rules] OBVIOUS
    <3> HIDE DEF b, d
    <3>3. d = [at |-> "write", kind |-> b.kind, on |-> b.on, key |-> b.key, value |-> b.value,
               n |-> b.n, seen |-> rules, stale |-> b.stale]
      BY <3>1, <3>2, ReadSeen
    <3> QED BY <3>1, <3>3, AfterRead
  <2>2. req' = [req EXCEPT ![r] = d] BY <1>3
  <2> HIDE DEF d
  <2>3. RequestHolds(d) BY <1>1, <1>2, <2>1, ReadDone
  <2> QED BY <1>2, <2>2, <2>3, OneRequest
<1>4. CASE req' = [req EXCEPT ![r].at = "write", ![r].seen = <<>>, ![r].stale = (rules # <<>>)]
  <2> DEFINE some == (rules # <<>>)
             b == req[r]
             d == [b EXCEPT !.at = "write", !.seen = <<>>, !.stale = some]
  <2>1. /\ d.at = "write" /\ d.kind = b.kind /\ d.on = b.on /\ d.key = b.key
        /\ d.value = b.value /\ d.seen = <<>> /\ IsRequest(d) /\ d.stale = some
    <3>1. IsRequest(b) /\ some \in BOOLEAN BY <1>1
    <3>2. d = [b EXCEPT !.at = "write", !.seen = <<>>, !.stale = some] OBVIOUS
    <3> HIDE DEF some, b, d
    <3>3. d = [at |-> "write", kind |-> b.kind, on |-> b.on, key |-> b.key, value |-> b.value,
               n |-> b.n, seen |-> <<>>, stale |-> some]
      BY <3>1, <3>2, ReadFailed
    <3> QED BY <3>1, <3>3, AfterRead
  <2>2. req' = [req EXCEPT ![r] = d] BY <1>4
  <2>3. some \in BOOLEAN /\ (some = FALSE => rules = <<>>) OBVIOUS
  <2> HIDE DEF d, some
  <2>4. <<>> \in Seq(Value) BY EmptySeq
  <2>5. RequestHolds(d) BY <1>1, <1>2, <2>1, <2>3, <2>4, ReadDone
  <2> QED BY <1>2, <2>2, <2>5, OneRequest
<1> QED BY <1>3, <1>4 DEF ReadRules

(***************************************************************************)
(* A row of preferences is inserted once and updated field by field:       *)
(* always in turn.                                                         *)
(***************************************************************************)
LEMMA PreferStep ==
  ASSUME WorkspaceInv, NEW r \in Request, Prefer(r) PROVE WorkspaceInv'
<1>1. req[r].at = "write" /\ req[r].kind = "prefer" BY DEF Prefer, At
<1>2. req[r].key \in Key /\ req[r].value \in Value /\ req[r].on = "prefs"
  BY <1>1, RouteFacts DEF WorkspaceInv, RequestHolds, Standing
<1>3. CASE Goes(r, "idle") /\ Only("none") /\ NoEffect
  <2>1. UNCHANGED Tables BY <1>3 DEF Only, NoEffect, Tables
  <2> QED BY <1>1, <1>3, <2>1, RequestGoes
<1>4. CASE ~(Goes(r, "idle") /\ Only("none") /\ NoEffect)
  <2> DEFINE before == IF prefs = NoRow THEN AllUnset ELSE prefs
             after == [before EXCEPT ![req[r].key] = req[r].value]
  <2>1. Wrote(r, "idle") /\ Only("prefs") /\ prefs' = after BY <1>4 DEF Prefer
  <2>2. before \in Settings BY DEF WorkspaceInv, TablesHold, Tabled, Settings, AllUnset
  <2>3. after \in Settings BY <1>2, <2>2 DEF Settings
  <2>4. after = Applied(prefs, req[r]) BY <1>1 DEF Applied
  <2> HIDE DEF before, after
  <2>5. UNCHANGED <<projects, envVars, brain, rules>> BY <2>1 DEF Only
  <2>6. /\ inTurn' = [y \in Resource |-> inTurn'[y]] /\ lost' \subseteq Resource
        /\ inTurn'["prefs"] = Applied(inTurn["prefs"], req[r])
        /\ \A y \in Resource \ {"prefs"} : inTurn'[y] = inTurn[y]
                                           /\ (y \notin lost' => y \notin lost)
    BY <1>2, <2>1, WroteFacts DEF Resource
  <2>7. Tabled' BY <2>1, <2>3, <2>5, <2>6 DEF WorkspaceInv, TablesHold, Tabled
  <2>8. WritesInTurn'
    <3>1. WritesInTurn BY DEF WorkspaceInv, TablesHold
    <3> QED BY <2>1, <2>4, <2>5, <2>6, <3>1 DEF WritesInTurn, Resource
  <2>9. Numbered' /\ Versions' = Versions
    BY <2>5, <2>6 DEF WorkspaceInv, TablesHold, Numbered, Versions, Resource
  <2>10. NoSlugSkipped' /\ \A name : Taken(name) => Taken(name)'
    BY <2>5 DEF WorkspaceInv, TablesHold, NoSlugSkipped, Taken
  <2>11. TablesHold' BY <2>7, <2>8, <2>9, <2>10 DEF TablesHold
  <2> QED BY <1>1, <2>1, <2>5, <2>9, <2>10, <2>11, WrittenStep
<1> QED BY <1>3, <1>4

(***************************************************************************)
(* A version after the largest one read leaves no hole, even when two      *)
(* agents read the same.                                                   *)
(***************************************************************************)
LEMMA AddVersionStep ==
  ASSUME WorkspaceInv, NEW r \in Request, AddVersion(r) PROVE WorkspaceInv'
<1> DEFINE row == [version |-> req[r].n + 1, content |-> req[r].value]
<1>1. req[r].at = "write" /\ req[r].kind = "version" /\ Wrote(r, "idle")
      /\ brain' = Append(brain, row) /\ UNCHANGED <<projects, envVars, prefs, rules>>
  BY DEF AddVersion, At, Only
<1>2. req[r].value \in Value /\ req[r].on = "brain" /\ ReadSo(req[r])
  BY <1>1, RouteFacts DEF WorkspaceInv, RequestHolds, Standing
<1>3. PICK m \in Nat : Versions = 1 .. m BY DEF WorkspaceInv, TablesHold, Numbered
<1>4. req[r].n = 0 \/ req[r].n \in 1 .. m BY <1>1, <1>2, <1>3 DEF ReadSo
<1>5. row \in VersionRow /\ row.version = req[r].n + 1 BY <1>2, <1>4 DEF VersionRow
<1>6. brain \in Seq(VersionRow) BY DEF WorkspaceInv, TablesHold, Tabled
<1> HIDE DEF row
<1>7. /\ brain' \in Seq(VersionRow) /\ Len(brain') = Len(brain) + 1 /\ Len(brain) \in Nat
      /\ \A i \in 1 .. Len(brain) : brain'[i] = brain[i]
      /\ brain'[Len(brain) + 1] = row
      /\ DOMAIN brain = 1 .. Len(brain) /\ DOMAIN brain' = 1 .. Len(brain')
  BY <1>1, <1>5, <1>6, AppendProperties, LenProperties
<1>8. Versions' = Versions \cup {req[r].n + 1}
  <2>1. \A i \in DOMAIN brain' : i \in DOMAIN brain \/ i = Len(brain) + 1 BY <1>7
  <2>2. \A i \in DOMAIN brain : i \in DOMAIN brain' /\ brain'[i] = brain[i] BY <1>7
  <2>3. Len(brain) + 1 \in DOMAIN brain' BY <1>7
  <2> QED BY <1>5, <1>7, <2>1, <2>2, <2>3 DEF Versions
<1>9. /\ inTurn' = [y \in Resource |-> inTurn'[y]] /\ lost' \subseteq Resource
      /\ inTurn'["brain"] = Applied(inTurn["brain"], req[r])
      /\ \A y \in Resource \ {"brain"} : inTurn'[y] = inTurn[y]
                                         /\ (y \notin lost' => y \notin lost)
      /\ "brain" \notin lost' => "brain" \notin lost /\ req[r].stale = FALSE
  BY <1>1, <1>2, WroteFacts DEF Resource
<1>10. ASSUME "brain" \notin lost'
       PROVE  req[r].n = Len(brain) /\ brain = inTurn["brain"]
              /\ \A i \in DOMAIN brain : brain[i].version = i
  BY <1>1, <1>2, <1>9, <1>10 DEF ReadSo, WorkspaceInv, TablesHold, Numbered, WritesInTurn
<1>11. Tabled' BY <1>1, <1>7, <1>9 DEF WorkspaceInv, TablesHold, Tabled
<1>12. WritesInTurn'
  <2>1. ASSUME "brain" \notin lost' PROVE brain' = inTurn'["brain"]
    <3>1. Applied(inTurn["brain"], req[r]) =
            Append(inTurn["brain"], [version |-> Len(inTurn["brain"]) + 1,
                                     content |-> req[r].value])
      BY <1>1 DEF Applied
    <3> QED BY <1>1, <1>9, <1>10, <2>1, <3>1 DEF row
  <2>2. WritesInTurn BY DEF WorkspaceInv, TablesHold
  <2> QED BY <1>1, <1>9, <2>1, <2>2 DEF WritesInTurn, Resource
<1>13. Numbered'
  <2>1. \E k \in Nat : Versions' = 1 .. k
    <3>1. CASE req[r].n + 1 \in 1 .. m BY <1>3, <1>8, <3>1
    <3>2. CASE req[r].n + 1 = m + 1
      <4>1. Versions' = 1 .. m + 1 BY <1>3, <1>8, <3>2
      <4> QED BY <4>1
    <3> QED BY <1>4, <3>1, <3>2
  <2>2. ASSUME "brain" \notin lost', NEW i \in DOMAIN brain' PROVE brain'[i].version = i
    BY <1>5, <1>7, <1>10, <2>2
  <2> QED BY <2>1, <2>2 DEF Numbered
<1>14. NoSlugSkipped' /\ \A name : Taken(name) => Taken(name)'
  BY <1>1 DEF WorkspaceInv, TablesHold, NoSlugSkipped, Taken
<1>15. TablesHold' BY <1>11, <1>12, <1>13, <1>14 DEF TablesHold
<1> QED BY <1>1, <1>2, <1>8, <1>14, <1>15, WrittenStep

(***************************************************************************)
(* A rule after the rules read.                                            *)
(***************************************************************************)
LEMMA AddRuleStep ==
  ASSUME WorkspaceInv, NEW r \in Request, AddRule(r) PROVE WorkspaceInv'
<1>1. req[r].at = "write" /\ req[r].kind = "rule" /\ Wrote(r, "idle")
      /\ rules' = Append(req[r].seen, req[r].value)
      /\ UNCHANGED <<projects, envVars, prefs, brain>>
  BY DEF AddRule, At, Only
<1>2. req[r].value \in Value /\ req[r].on = "rules" /\ ReadSo(req[r])
      /\ req[r].seen \in Seq(Value)
  BY <1>1, RouteFacts DEF WorkspaceInv, RequestHolds, Standing
<1>3. rules' \in Seq(Value) BY <1>1, <1>2, AppendProperties
<1>4. /\ inTurn' = [y \in Resource |-> inTurn'[y]] /\ lost' \subseteq Resource
      /\ inTurn'["rules"] = Applied(inTurn["rules"], req[r])
      /\ \A y \in Resource \ {"rules"} : inTurn'[y] = inTurn[y]
                                         /\ (y \notin lost' => y \notin lost)
      /\ "rules" \notin lost' => "rules" \notin lost /\ req[r].stale = FALSE
  BY <1>1, <1>2, WroteFacts DEF Resource
<1>5. Tabled' BY <1>1, <1>3, <1>4 DEF WorkspaceInv, TablesHold, Tabled
<1>6. WritesInTurn'
  <2>1. WritesInTurn BY DEF WorkspaceInv, TablesHold
  <2>2. ASSUME "rules" \notin lost' PROVE rules' = inTurn'["rules"]
    <3>1. Applied(inTurn["rules"], req[r]) = Append(inTurn["rules"], req[r].value)
      BY <1>1 DEF Applied
    <3>2. req[r].seen = rules /\ rules = inTurn["rules"]
      BY <1>1, <1>2, <1>4, <2>1, <2>2 DEF ReadSo, WritesInTurn
    <3> QED BY <1>1, <1>4, <3>1, <3>2
  <2> QED BY <1>1, <1>4, <2>1, <2>2 DEF WritesInTurn, Resource
<1>7. Numbered' /\ Versions' = Versions
  BY <1>1, <1>4 DEF WorkspaceInv, TablesHold, Numbered, Versions, Resource
<1>8. NoSlugSkipped' /\ \A name : Taken(name) => Taken(name)'
  BY <1>1 DEF WorkspaceInv, TablesHold, NoSlugSkipped, Taken
<1>9. TablesHold' BY <1>5, <1>6, <1>7, <1>8 DEF TablesHold
<1> QED BY <1>1, <1>2, <1>7, <1>8, <1>9, WrittenStep

(***************************************************************************)
(* It holds at the start.                                                  *)
(***************************************************************************)
LEMMA WorkspaceInit ==
  ASSUME WorkspaceStart PROVE WorkspaceInv
<1>1. Home \in Value BY WorkspaceAssumption DEF Home
<1>2. AllUnset \in Settings BY DEF AllUnset, Settings
<1> DEFINE row == Row(Slug(Home, 0, "none"), AllUnset)
<1>3. row \in ProjectRow /\ row.slug.n = 0 /\ row.settings = AllUnset
  BY <1>1, <1>2 DEF Row, Slug, ProjectRow
<1>4. /\ projects = <<row>> /\ envVars = AllUnset /\ prefs = NoRow /\ brain = <<>>
      /\ rules = <<>> /\ lost = {} /\ req = [r \in Request |-> Idle]
      /\ inTurn = [x \in Resource |-> IF x \in {"settings", "vars"} THEN AllUnset ELSE <<>>]
  BY DEF WorkspaceStart
<1> HIDE DEF row
<1>5. projects \in Seq(ProjectRow) /\ projects # <<>> /\ projects[1] = row
      /\ DOMAIN projects = {1}
  BY <1>3, <1>4
<1>6. brain \in Seq(VersionRow) /\ DOMAIN brain = {} /\ rules \in Seq(Value) BY <1>4
<1>7. Tabled BY <1>2, <1>4, <1>5, <1>6 DEF Tabled
<1>8. WritesInTurn BY <1>3, <1>4, <1>5 DEF WritesInTurn, Resource, NoRow
<1>9. Numbered
  <2>1. Versions = {} BY <1>6 DEF Versions
  <2>2. Versions = 1 .. 0 BY <2>1
  <2> QED BY <1>6, <2>2 DEF Numbered
<1>10. NoSlugSkipped BY <1>3, <1>5 DEF NoSlugSkipped
<1>11. ASSUME NEW r \in Request PROVE RequestHolds(req[r])
  <2>1. req[r] = Idle BY <1>4
  <2>2. Idle.at = "idle" /\ Idle.stale = FALSE /\ IsRequest(Idle) BY DEF Idle, IsRequest
  <2> QED BY <2>1, <2>2 DEF RequestHolds, Standing, LookedUp, ReadSo
<1>12. req = [r \in Request |-> req[r]] BY <1>4
<1> QED BY <1>7, <1>8, <1>9, <1>10, <1>11, <1>12 DEF WorkspaceInv, TablesHold

(***************************************************************************)
(* Every step keeps it.                                                    *)
(***************************************************************************)
LEMMA WorkspaceNextStep ==
  ASSUME WorkspaceInv, NEW kinds \in SUBSET DOMAIN Route,
         [WorkspaceNext(kinds)]_workspaceVars
  PROVE  WorkspaceInv'
<1>1. CASE UNCHANGED workspaceVars
  <2>1. UNCHANGED Tables /\ req' = req BY <1>1 DEF workspaceVars, Tables
  <2>2. TablesHold' BY <2>1, SameTables DEF WorkspaceInv
  <2>3. ASSUME NEW s \in Request PROVE RequestHolds(req[s])'
    BY <2>1, SameTables DEF WorkspaceInv
  <2> QED BY <2>1, <2>2, <2>3 DEF WorkspaceInv
<1>2. ASSUME NEW r \in Request, WorkspaceStep(r, kinds) PROVE WorkspaceInv'
  <2>1. CASE \E kind \in kinds, k \in Key, v \in Value : Begin(r, kind, k, v)
    BY <2>1, BeginStep
  <2>2. CASE UniqueSlug(r) BY <2>2, UniqueSlugStep
  <2>3. CASE Create(r)
    <3>1. "now" \in {"now", "later"} OBVIOUS
    <3> QED BY <2>3, <3>1, ProjectSteps
  <2>4. CASE \E ms \in {"now", "later"} : Duplicate(r, ms) BY <2>4, ProjectSteps
  <2>5. CASE Archive(r) BY <2>5, ArchiveStep
  <2>6. CASE WriteAudit(r) BY <2>6, AuditStep
  <2>7. CASE Edit(r) BY <2>7, EditStep
  <2>8. CASE Merge(r) BY <2>8, MergeStep
  <2>9. CASE ReadVar(r) \/ ReadPrefs(r) \/ ReadVersion(r) BY <2>9, ReadSteps
  <2>10. CASE AddVar(r) \/ SetVar(r) \/ DropVar(r) BY <2>10, VarsSteps
  <2>11. CASE Prefer(r) BY <2>11, PreferStep
  <2>12. CASE AddVersion(r) BY <2>12, AddVersionStep
  <2>13. CASE ReadRules(r) BY <2>13, ReadRulesStep
  <2>14. CASE AddRule(r) BY <2>14, AddRuleStep
  <2> QED BY <1>2, <2>1, <2>2, <2>3, <2>4, <2>5, <2>6, <2>7, <2>8, <2>9, <2>10, <2>11,
             <2>12, <2>13, <2>14 DEF WorkspaceStep
<1> QED BY <1>1, <1>2 DEF WorkspaceNext

(***************************************************************************)
(* So it holds always, whatever kinds of request come.                     *)
(***************************************************************************)
LEMMA WorkspaceInvariant ==
  ASSUME NEW kinds \in SUBSET DOMAIN Route
  PROVE  WorkspaceSpec(kinds) => []WorkspaceInv
<1>1. WorkspaceStart => WorkspaceInv BY WorkspaceInit
<1>2. WorkspaceInv /\ [WorkspaceNext(kinds)]_workspaceVars => WorkspaceInv'
  BY WorkspaceNextStep
<1> QED BY <1>1, <1>2, PTL DEF WorkspaceSpec

(***************************************************************************)
(* Type correctness: variables and preferences have a value for each key,  *)
(* and a request stands where a handler awaits.                            *)
(***************************************************************************)
THEOREM WorkspaceTypeCorrect ==
  ASSUME NEW kinds \in SUBSET DOMAIN Route
  PROVE  WorkspaceSpec(kinds) => []WorkspaceTypeOK
<1>1. WorkspaceInv => WorkspaceTypeOK
  BY DEF WorkspaceInv, RequestHolds, Standing, TablesHold, Tabled, Settings, WorkspaceTypeOK
<1> QED BY <1>1, WorkspaceInvariant, PTL

(***************************************************************************)
(* What the workspace stores is what its requests wrote, one after the     *)
(* other, except over an overtaken read; no version is missing and no      *)
(* suffix skipped, for any requests, keys and values (projects.ts, env.ts, *)
(* settings.ts, brain/manager.ts).                                         *)
(***************************************************************************)
THEOREM RequestsKeptAlways ==
  ASSUME NEW kinds \in SUBSET DOMAIN Route
  PROVE  WorkspaceSpec(kinds) => []RequestsKept
<1>1. ASSUME WorkspaceInv PROVE RequestsKept
  <2>1. NoVersionMissing
    <3>1. PICK m \in Nat : Versions = 1 .. m /\ Max({0} \cup Versions) = m
      BY <1>1, VersionsRead
    <3> QED BY <3>1 DEF NoVersionMissing, Versions
  <2> QED BY <1>1, <2>1 DEF WorkspaceInv, TablesHold, RequestsKept
<1> QED BY <1>1, WorkspaceInvariant, PTL
=============================================================================
