------------------------ MODULE BuildLifecycleProofs ------------------------
(***************************************************************************)
(* Proofs about BuildLifecycle, for any sets of sessions and projects, any *)
(* mix of prompts and any of the faults; then about one reply of a model   *)
(* (ModelStream), for any text, any calls and any cuts of its provider.    *)
(***************************************************************************)
EXTENDS BuildLifecycle, ModelStream, FiniteSetTheorems, SequenceTheorems,
        WellFoundedInduction, TLAPS

(***************************************************************************)
(* A write that rejects takes itself, and nothing else, off its session's  *)
(* writes under way.                                                       *)
(***************************************************************************)
LEMMA RejectEffect ==
  ASSUME TypeOK, NEW s \in Session, WriteRejects(s)
  PROVE  /\ pend' \in [Session -> SUBSET {"row", "proj"}]
         /\ pend[s] # {} /\ pend'[s] \subseteq pend[s]
         /\ \A u \in Session \ {s} : pend'[u] = pend[u]
  BY DEF TypeOK, WriteRejects

(***************************************************************************)
(* Type correctness: every handler leaves every variable in its range.     *)
(***************************************************************************)
LEMMA TypeStep == TypeOK /\ [Next]_vars => TypeOK'
<1> SUFFICES ASSUME TypeOK, [Next]_vars PROVE TypeOK'
  OBVIOUS
<1> USE DEF TypeOK, Alive, At, Goto, SetRow, SetProject, Tell, Leave,
            request, inMemory, process
<1>1. ASSUME NEW s \in Session, NEW p \in Project, NEW kind \in Prompts, FastCheck(s, p, kind)
      PROVE  TypeOK'
  BY <1>1, PromptsAssumption DEF FastCheck
<1>2. ASSUME NEW s \in Session, RequestStep(s) PROVE TypeOK'
  <2>1. CASE FastRefuse(s) BY <2>1 DEF FastRefuse
  <2>2. CASE FastInsert(s) BY <2>2 DEF FastInsert
  <2>3. CASE FastThrow(s) BY <2>3 DEF FastThrow
  <2>4. CASE FastSpawn(s) BY <2>4 DEF FastSpawn, Live
  <2> QED BY <1>2, <2>1, <2>2, <2>3, <2>4 DEF RequestStep
<1>3. ASSUME NEW s \in Session, RunnerStep(s) PROVE TypeOK'
  <2> USE DEF Live, InTry, Working, Writing, Failing, Over, Event, Terminal
  <2>1. CASE RunnerSetup(s)
    <3>1. proj' \in [Project -> {"idle", "building", "live", "failed"}]
      BY <2>1 DEF RunnerSetup
    <3>2. CASE prompt[s] = "unsupported" BY <2>1, <3>1, <3>2 DEF RunnerSetup
    <3>3. CASE prompt[s] # "unsupported" BY <2>1, <3>1, <3>3 DEF RunnerSetup
    <3> QED BY <3>2, <3>3
  <2>2. CASE RunnerSetupThrows(s) BY <2>2 DEF RunnerSetupThrows
  <2>3. CASE AnswerQuery(s) BY <2>3 DEF AnswerQuery
  <2>4. CASE StopAfterDispatch(s) BY <2>4 DEF StopAfterDispatch
  <2>5. CASE DispatchReturns(s) BY <2>5 DEF DispatchReturns
  <2>6. CASE ActionOnly(s) BY <2>6 DEF ActionOnly
  <2>7. CASE Abort(s) BY <2>7 DEF Abort
  <2>8. CASE AbortRow(s) BY <2>8 DEF AbortRow
  <2>9. CASE AbortProject(s) BY <2>9 DEF AbortProject
  <2>10. CASE AbortReturns(s) BY <2>10 DEF AbortReturns
  <2>11. CASE RejectThrows(s) BY <2>11, RejectEffect DEF RejectThrows
  <2>12. CASE WriteFiles(s) BY <2>12 DEF WriteFiles
  <2>13. CASE StopAfterWrites(s) BY <2>13 DEF StopAfterWrites
  <2>14. CASE Complete(s) BY <2>14 DEF Complete
  <2>15. CASE FinishRow(s) BY <2>15 DEF FinishRow
  <2>16. CASE FinishProject(s) BY <2>16 DEF FinishProject
  <2>17. CASE Throw(s)
    <3>1. pend' \in [Session -> SUBSET {"row", "proj"}]
      BY <2>17, RejectEffect DEF Throw
    <3>2. /\ runner' \in [Session -> {"none"} \cup Live \cup Over]
          /\ runningSessions' \subseteq Session /\ cancelledSessions' \subseteq Session
      BY <2>17 DEF Throw
    <3> QED BY <2>17, <3>1, <3>2 DEF Throw
  <2>18. CASE FailRow(s) BY <2>18 DEF FailRow
  <2>19. CASE FailProject(s) BY <2>19 DEF FailProject
  <2>20. CASE CatchThrows(s) BY <2>20 DEF CatchThrows
  <2> QED BY <1>3, <2>1, <2>2, <2>3, <2>4, <2>5, <2>6, <2>7, <2>8, <2>9, <2>10, <2>11,
             <2>12, <2>13, <2>14, <2>15, <2>16, <2>17, <2>18, <2>19, <2>20 DEF RunnerStep
<1>4. ASSUME NEW s \in Session, CancelRead(s) PROVE TypeOK'
  BY <1>4 DEF CancelRead
<1>5. ASSUME NEW s \in Session, CancelStep(s) PROVE TypeOK'
  <2>1. CASE CancelSignal(s) BY <2>1 DEF CancelSignal
  <2>2. CASE CancelRow(s) BY <2>2 DEF CancelRow, Terminal
  <2>3. CASE CancelProject(s) BY <2>3 DEF CancelProject, Event
  <2>4. CASE CancelThrows(s) BY <2>4 DEF CancelThrows
  <2> QED BY <1>5, <2>1, <2>2, <2>3, <2>4 DEF CancelStep
<1>6. ASSUME ProcessStep PROVE TypeOK'
  <2>1. CASE Sigterm BY <2>1 DEF Sigterm, Event
  <2>2. CASE CloseRows BY <2>2 DEF CloseRows, Terminal
  <2>3. CASE GoDown BY <2>3 DEF GoDown, Over
  <2>4. CASE Restart BY <2>4 DEF Restart
  <2> QED BY <1>6, <2>1, <2>2, <2>3, <2>4 DEF ProcessStep
<1>7. CASE UNCHANGED vars BY <1>7 DEF vars
<1> QED BY <1>1, <1>2, <1>3, <1>4, <1>5, <1>6, <1>7 DEF Next

(***************************************************************************)
(* Every reachable state is well typed.                                    *)
(***************************************************************************)
THEOREM TypeCorrect == Spec => []TypeOK
<1>1. Init => TypeOK
  BY SMTT(30) DEF Init, TypeOK, PromptKind
<1> QED BY <1>1, TypeStep, PTL DEF Spec
-----------------------------------------------------------------------------
(***************************************************************************)
(* The inductive invariant behind the safety properties: where a session's *)
(* handlers can be relative to each other, and what the flag in            *)
(* cancelledSessions says of the cancel handler.                           *)
(***************************************************************************)
Signalled == {"signalled", "rowDone", "done", "threw", "lost"}

\* Nothing of a session exists before its INSERT, its runner only after the
\* reply, and no success before the runner's last check.
Ordered(s) ==
  /\ fast[s] \in {"none", "checked", "refused"} => row[s] = "none" /\ cancel[s] = "none"
  /\ runner[s] # "none" \/ s \in runningSessions \cup closing => fast[s] = "replied"
  /\ cancel[s] = "none" => s \notin early /\ s \notin cancelledSessions
  /\ runner[s] \in Heeding => row[s] \notin {"success", "completed"}

\* A flag is raised by a cancel handler, and the row that handler closes does
\* not reopen.
Flagged(s) ==
  /\ s \in cancelledSessions => cancel[s] \in Signalled
  /\ cancel[s] \in {"rowDone", "done"} => row[s] # "running"
  /\ cancel[s] = "done" => told[s] # {}

\* An early flag stays up until a check consumes it, so the runner is never
\* past the checks.
Heeded(s) ==
  s \in early =>
    /\ prompt[s] # "query"
    /\ row[s] \notin {"success", "completed"}
    /\ runner[s] \notin {"queryRow", "queryProj", "verifying", "completeRow", "completeProj", "ok"}
    /\ fast[s] = "inserted" \/ runner[s] \in Heeding \ {"none"} => s \in cancelledSessions

\* The failure branches speak before they write.
Spoken(s) == runner[s] \in {"abort", "reject"} => told[s] # {}

\* Writes are under way only once a failure branch has sent them.
Landing(s) == pend[s] # {} =>
  runner[s] \in {"abort", "reject", "failRow", "failProj", "failed", "stopped", "threw"}

SessionInv(s) == Ordered(s) /\ Flagged(s) /\ Heeded(s) /\ Spoken(s) /\ Landing(s)
                 /\ EndIsTold(s) /\ RowHasOwner(s)

IInv == TypeOK /\ (\A s \in Session : SessionInv(s)) /\ BuildingAccountedFor

(***************************************************************************)
(* Each step keeps the invariant of every session.                         *)
(***************************************************************************)
LEMMA SessionStep ==
  TypeOK /\ (\A s \in Session : SessionInv(s)) /\ [Next]_vars
    => (\A s \in Session : SessionInv(s))'
<1> SUFFICES ASSUME TypeOK, \A s \in Session : SessionInv(s), [Next]_vars, NEW t \in Session
             PROVE  SessionInv(t)'
  OBVIOUS
<1>0. TypeOK' BY TypeStep
<1>t. SessionInv(t) OBVIOUS
<1> USE DEF SessionInv, Ordered, Flagged, Heeded, Spoken, Landing, EndIsTold, RowHasOwner,
            Signalled, Heeding, Working, Failing,
            Alive, At, Goto, SetRow, Tell, Leave, request, inMemory, process, TypeOK
<1>1. ASSUME NEW s \in Session, NEW p \in Project, NEW kind \in Prompts, FastCheck(s, p, kind)
      PROVE  SessionInv(t)'
  BY <1>t, <1>1 DEF FastCheck
<1>2. ASSUME NEW s \in Session, RequestStep(s) PROVE SessionInv(t)'
  <2>1. CASE FastRefuse(s) BY <1>t, <2>1 DEF FastRefuse
  <2>2. CASE FastInsert(s) BY <1>t, <2>2 DEF FastInsert
  <2>3. CASE FastThrow(s) BY <1>t, <2>3 DEF FastThrow
  <2>4. CASE FastSpawn(s) BY <1>t, <2>4 DEF FastSpawn
  <2> QED BY <1>2, <2>1, <2>2, <2>3, <2>4 DEF RequestStep
<1>3. ASSUME NEW s \in Session, RunnerStep(s) PROVE SessionInv(t)'
  <2>1. CASE RunnerSetup(s)
    <3>1. CASE t = s /\ prompt[s] = "unsupported"
      <4>1. /\ runner'[t] = "reject" /\ "error" \in told'[t] /\ pend'[t] = {"row", "proj"}
            /\ runner[t] = "start"
            /\ UNCHANGED <<row, prompt, fast, cancel, early, inMemory, closing>>
        BY <2>1, <3>1 DEF RunnerSetup
      <4> QED BY <1>t, <4>1
    <3>2. CASE t = s /\ prompt[s] # "unsupported" BY <1>t, <2>1, <3>2 DEF RunnerSetup
    <3>3. CASE t # s BY <1>t, <2>1, <3>3 DEF RunnerSetup
    <3> QED BY <3>1, <3>2, <3>3
  <2>2. CASE RunnerSetupThrows(s) BY <1>t, <2>2 DEF RunnerSetupThrows
  <2>3. CASE AnswerQuery(s) BY <1>t, <2>3 DEF AnswerQuery
  <2>4. CASE StopAfterDispatch(s) BY <1>t, <2>4 DEF StopAfterDispatch
  <2>5. CASE DispatchReturns(s) BY <1>t, <2>5 DEF DispatchReturns
  <2>6. CASE ActionOnly(s) BY <1>t, <2>6 DEF ActionOnly
  <2>7. CASE Abort(s) BY <1>t, <2>7 DEF Abort
  <2>8. CASE AbortRow(s) BY <1>t, <2>8 DEF AbortRow
  <2>9. CASE AbortProject(s) BY <1>t, <2>9 DEF AbortProject
  <2>10. CASE AbortReturns(s) BY <1>t, <2>10 DEF AbortReturns
  <2>11. CASE RejectThrows(s) BY <1>t, <2>11, RejectEffect DEF RejectThrows
  <2>12. CASE WriteFiles(s) BY <1>t, <2>12 DEF WriteFiles
  <2>13. CASE StopAfterWrites(s) BY <1>t, <2>13 DEF StopAfterWrites
  <2>14. CASE Complete(s) BY <1>t, <2>14 DEF Complete
  <2>15. CASE FinishRow(s) BY <1>t, <2>15 DEF FinishRow
  <2>16. CASE FinishProject(s) BY <1>t, <2>16 DEF FinishProject
  <2>17. CASE Throw(s)
    <3>0. /\ \A u \in Session \ {s} : pend'[u] = pend[u]
          /\ pend'[s] \subseteq pend[s]
      BY <2>17, RejectEffect DEF Throw
    <3>1. CASE t = s BY <1>t, <2>17, <3>0, <3>1 DEF Throw, Writing
    <3>2. CASE t # s BY <1>t, <2>17, <3>0, <3>2 DEF Throw, Writing
    <3> QED BY <3>1, <3>2
  <2>18. CASE FailRow(s) BY <1>t, <2>18 DEF FailRow
  <2>19. CASE FailProject(s)
    <3>1. CASE t = s
      <4>1. /\ runner[t] = "failProj" /\ runner'[t] = "failed" /\ "error" \in told'[t]
            /\ UNCHANGED <<row, prompt, fast, cancel, early, cancelledSessions, closing>>
            /\ t \notin runningSessions'
        BY <2>19, <3>1 DEF FailProject
      <4>2. row[t] # "running"
        BY <1>t, <2>19, <3>1 DEF FailProject
      <4> QED BY <1>t, <4>1, <4>2
    <3>2. CASE t # s BY <1>t, <2>19, <3>2 DEF FailProject
    <3> QED BY <3>1, <3>2
  <2>20. CASE CatchThrows(s) BY <1>t, <2>20 DEF CatchThrows
  <2> QED BY <1>3, <2>1, <2>2, <2>3, <2>4, <2>5, <2>6, <2>7, <2>8, <2>9, <2>10, <2>11,
             <2>12, <2>13, <2>14, <2>15, <2>16, <2>17, <2>18, <2>19, <2>20 DEF RunnerStep
<1>4. ASSUME NEW s \in Session, CancelRead(s) PROVE SessionInv(t)'
  BY <1>t, <1>4 DEF CancelRead
<1>5. ASSUME NEW s \in Session, CancelStep(s) PROVE SessionInv(t)'
  <2>1. CASE CancelSignal(s)
    <3>1. /\ UNCHANGED <<row, prompt, fast, runner, pend, told, runningSessions, closing>>
          /\ cancelledSessions \cup {s} = cancelledSessions'
          /\ cancel[s] = "read"
      BY <2>1 DEF CancelSignal
    <3>2. CASE t = s
      <4>1. cancel'[t] = "signalled" /\ t \in cancelledSessions'
        BY <2>1, <3>1, <3>2 DEF CancelSignal
      <4>2. t \in early' => t \in early \/ (prompt[t] # "query" /\ runner[t] \in Heeding)
        BY <2>1, <3>2 DEF CancelSignal
      <4> QED BY <1>t, <3>1, <3>2, <4>1, <4>2
    <3>3. CASE t # s
      <4>1. cancel'[t] = cancel[t] /\ (t \in early' <=> t \in early)
            /\ (t \in cancelledSessions' <=> t \in cancelledSessions)
        BY <2>1, <3>1, <3>3 DEF CancelSignal
      <4> QED BY <1>t, <3>1, <4>1
    <3> QED BY <3>2, <3>3
  <2>2. CASE CancelRow(s) BY <1>t, <2>2 DEF CancelRow
  <2>3. CASE CancelProject(s) BY <1>t, <2>3 DEF CancelProject
  <2>4. CASE CancelThrows(s) BY <1>t, <2>4 DEF CancelThrows
  <2> QED BY <1>5, <2>1, <2>2, <2>3, <2>4 DEF CancelStep
<1>6. ASSUME ProcessStep PROVE SessionInv(t)'
  <2>1. CASE Sigterm
    <3>1. /\ UNCHANGED <<row, prompt, fast, runner, pend, cancel, early, inMemory>>
          /\ closing' = runningSessions
          /\ told[t] # {} => told'[t] # {}
      BY <2>1 DEF Sigterm
    <3> QED BY <1>t, <3>1
  <2>2. CASE CloseRows
    <3>1. /\ UNCHANGED <<prompt, fast, runner, pend, cancel, early, told, inMemory>>
          /\ closing' = {}
          /\ row'[t] = row[t] \/ (row'[t] = "failed" /\ t \in closing)
      BY <2>2 DEF CloseRows
    <3>2. CASE row'[t] = row[t] BY <1>t, <3>1, <3>2
    <3>3. CASE row'[t] = "failed" /\ t \in closing BY <1>t, <3>1, <3>3
    <3> QED BY <3>1, <3>2, <3>3
  <2>3. CASE GoDown
    <3>1. /\ cancelledSessions' = {} /\ runningSessions' = {} /\ closing' = {}
          /\ UNCHANGED <<row, prompt, told, early>>
          /\ fast'[t] = IF fast[t] \in {"checked", "inserted"} THEN "lost" ELSE fast[t]
          /\ runner'[t] = IF runner[t] \in Live THEN "lost" ELSE runner[t]
          /\ cancel'[t] = IF cancel[t] \in {"read", "signalled", "rowDone"} THEN "lost" ELSE cancel[t]
      BY <2>3 DEF GoDown
    <3>2. runner'[t] \notin Live
      BY <3>1 DEF Live, InTry, Writing
    <3>3. Ordered(t)' /\ Flagged(t)' /\ Spoken(t)'
      BY <1>t, <3>1, <3>2 DEF Live, InTry, Writing
    <3>4. Heeded(t)'
      BY <1>t, <3>1, <3>2 DEF Live, InTry
    <3>5. EndIsTold(t)' /\ Landing(t)'
      <4>1. pend'[t] = {} BY <2>3 DEF GoDown
      <4> QED BY <1>t, <3>1, <4>1
    <3>6. RowHasOwner(t)'
      <4> SUFFICES ASSUME row[t] = "running" PROVE RowHasOwner(t)'
        BY <3>1
      <4>1. CASE fast[t] \in {"inserted", "threw", "lost"} BY <3>1, <4>1
      <4>2. CASE runner[t] \in Live
        <5>1. runner'[t] = "lost" BY <3>1, <4>2
        <5> QED BY <5>1
      <4>3. CASE runner[t] \in {"action", "threw", "lost"}
        <5>1. runner'[t] = runner[t] BY <3>1, <4>3 DEF Live, InTry, Writing
        <5> QED BY <4>3, <5>1
      <4>4. CASE runner[t] = "stopped" /\ cancel[t] \in {"signalled", "threw", "lost"}
        <5>1. runner'[t] = "stopped" BY <3>1, <4>4 DEF Live, InTry, Writing
        <5>2. cancel'[t] \in {"threw", "lost"} BY <3>1, <4>4
        <5> QED BY <5>1, <5>2
      <4> QED BY <1>t, <4>1, <4>2, <4>3, <4>4 DEF Live, InTry, Writing
    <3> QED BY <3>3, <3>4, <3>5, <3>6
  <2>4. CASE Restart BY <1>t, <2>4 DEF Restart
  <2> QED BY <1>6, <2>1, <2>2, <2>3, <2>4 DEF ProcessStep
<1>7. CASE UNCHANGED vars BY <1>t, <1>7 DEF vars
<1> QED BY <1>1, <1>2, <1>3, <1>4, <1>5, <1>6, <1>7 DEF Next

(***************************************************************************)
(* Each step keeps a holder for every project that says "building".        *)
(***************************************************************************)
LEMMA BuildingStep ==
  TypeOK /\ (\A s \in Session : SessionInv(s)) /\ BuildingAccountedFor /\ [Next]_vars
    => BuildingAccountedFor'
<1> SUFFICES ASSUME TypeOK, \A s \in Session : SessionInv(s), BuildingAccountedFor, [Next]_vars,
                    NEW q \in Project, proj'[q] = "building"
             PROVE  \E u \in Session : sproj'[u] = q /\ Holds(u)'
  BY DEF BuildingAccountedFor
<1> DEFINE Held == \E u \in Session : sproj'[u] = q /\ Holds(u)'
<1> SUFFICES Held OBVIOUS
<1> USE DEF Holds, InTry, Working, Writing, Failing, TypeOK,
            Alive, At, Goto, SetRow, SetProject, Tell, Leave, request, inMemory, process
\* A step that leaves the project alone and takes no holder from it.
<1>a. ASSUME proj'[q] = proj[q], UNCHANGED sproj, \A u \in Session : Holds(u) => Holds(u)'
      PROVE  Held
  <2>1. PICK u \in Session : sproj[u] = q /\ Holds(u)
    BY <1>a DEF BuildingAccountedFor
  <2> QED BY <1>a, <2>1
<1>b. ASSUME UNCHANGED <<proj, sproj, runner, pend>> PROVE Held
  BY <1>a, <1>b
\* A step of one runner that leaves the projects alone.
<1>c. ASSUME NEW s \in Session, UNCHANGED <<proj, sproj>>, Holds(s) => Holds(s)',
             \A u \in Session \ {s} : runner'[u] = runner[u] /\ pend'[u] = pend[u]
      PROVE  Held
  <2>1. \A u \in Session : Holds(u) => Holds(u)'
    BY <1>c
  <2> QED BY <1>a, <1>c, <2>1
\* A step of one session that takes another project off "building".
<1>d. ASSUME NEW s \in Session, UNCHANGED sproj, sproj[s] # q,
             \A u \in Session \ {s} : runner'[u] = runner[u] /\ pend'[u] = pend[u],
             proj'[q] = proj[q]
      PROVE  Held
  <2>1. PICK u \in Session : sproj[u] = q /\ Holds(u)
    BY <1>d DEF BuildingAccountedFor
  <2> QED BY <1>d, <2>1
<1>1. ASSUME NEW s \in Session, NEW p \in Project, NEW kind \in Prompts, FastCheck(s, p, kind)
      PROVE  Held
  <2>1. PICK u \in Session : sproj[u] = q /\ Holds(u)
    BY <1>1 DEF BuildingAccountedFor, FastCheck
  <2>2. runner[s] = "none"
    BY <1>1 DEF FastCheck, SessionInv, Ordered
  <2>3. u # s BY <2>1, <2>2
  <2> QED BY <1>1, <2>1, <2>3 DEF FastCheck
<1>2. ASSUME NEW s \in Session, RequestStep(s) PROVE Held
  <2>1. CASE FastRefuse(s) BY <1>b, <2>1 DEF FastRefuse
  <2>2. CASE FastInsert(s) BY <1>b, <2>2 DEF FastInsert
  <2>3. CASE FastThrow(s) BY <1>b, <2>3 DEF FastThrow
  <2>4. CASE FastSpawn(s)
    <3>1. runner[s] = "none"
      BY <2>4 DEF FastSpawn, SessionInv, Ordered
    <3> QED BY <1>c, <2>4, <3>1 DEF FastSpawn
  <2> QED BY <1>2, <2>1, <2>2, <2>3, <2>4 DEF RequestStep
<1>3. ASSUME NEW s \in Session, RunnerStep(s) PROVE Held
  <2>1. CASE RunnerSetup(s)
    <3>1. Holds(s)' BY <2>1 DEF RunnerSetup
    <3>2. CASE sproj[s] = q BY <2>1, <3>1, <3>2 DEF RunnerSetup
    <3>3. CASE sproj[s] # q
      <4>1. proj'[q] = proj[q] BY <2>1, <3>3 DEF RunnerSetup
      <4>2. /\ UNCHANGED sproj
            /\ \A u \in Session \ {s} : runner'[u] = runner[u] /\ pend'[u] = pend[u]
        BY <2>1 DEF RunnerSetup
      <4> QED BY <1>d, <3>3, <4>1, <4>2
    <3> QED BY <3>2, <3>3
  <2>2. CASE RunnerSetupThrows(s)
    <3>1. Holds(s)' BY <2>2 DEF RunnerSetupThrows
    <3>2. CASE sproj[s] = q BY <2>2, <3>1, <3>2 DEF RunnerSetupThrows
    <3>3. CASE sproj[s] # q
      <4>1. proj'[q] = proj[q] BY <2>2, <3>3 DEF RunnerSetupThrows
      <4>2. /\ UNCHANGED sproj
            /\ \A u \in Session \ {s} : runner'[u] = runner[u] /\ pend'[u] = pend[u]
        BY <2>2 DEF RunnerSetupThrows
      <4> QED BY <1>d, <3>3, <4>1, <4>2
    <3> QED BY <3>2, <3>3
  <2>3. CASE AnswerQuery(s) BY <1>c, <2>3 DEF AnswerQuery
  <2>4. CASE StopAfterDispatch(s) BY <1>c, <2>4 DEF StopAfterDispatch
  <2>5. CASE DispatchReturns(s) BY <1>c, <2>5 DEF DispatchReturns
  <2>6. CASE ActionOnly(s) BY <1>c, <2>6 DEF ActionOnly
  <2>7. CASE Abort(s) BY <1>c, <2>7 DEF Abort
  <2>8. CASE AbortRow(s) BY <1>c, <2>8 DEF AbortRow
  <2>9. CASE AbortProject(s)
    <3>1. sproj[s] # q BY <2>9 DEF AbortProject
    <3>2. /\ UNCHANGED sproj /\ proj'[q] = proj[q]
          /\ \A u \in Session \ {s} : runner'[u] = runner[u] /\ pend'[u] = pend[u]
      BY <2>9, <3>1 DEF AbortProject
    <3> QED BY <1>d, <3>1, <3>2
  <2>10. CASE AbortReturns(s) BY <1>c, <2>10 DEF AbortReturns
  <2>11. CASE RejectThrows(s) BY <1>c, <2>11, RejectEffect DEF RejectThrows
  <2>12. CASE WriteFiles(s) BY <1>c, <2>12 DEF WriteFiles
  <2>13. CASE StopAfterWrites(s) BY <1>c, <2>13 DEF StopAfterWrites
  <2>14. CASE Complete(s) BY <1>c, <2>14 DEF Complete
  <2>15. CASE FinishRow(s) BY <1>c, <2>15 DEF FinishRow
  <2>16. CASE FinishProject(s)
    <3>1. sproj[s] # q BY <2>16 DEF FinishProject
    <3>2. /\ UNCHANGED sproj /\ proj'[q] = proj[q]
          /\ \A u \in Session \ {s} : runner'[u] = runner[u] /\ pend'[u] = pend[u]
      BY <2>16, <3>1 DEF FinishProject
    <3> QED BY <1>d, <3>1, <3>2
  <2>17. CASE Throw(s)
    <3>1. \A u \in Session \ {s} : pend'[u] = pend[u]
      BY <2>17, RejectEffect DEF Throw
    <3>2. \A u \in Session \ {s} : runner'[u] = runner[u]
      BY <2>17 DEF Throw
    <3>3. Holds(s)' BY <2>17 DEF Throw
    <3> QED BY <1>c, <2>17, <3>1, <3>2, <3>3 DEF Throw
  <2>18. CASE FailRow(s) BY <1>c, <2>18 DEF FailRow
  <2>19. CASE FailProject(s)
    <3>1. sproj[s] # q BY <2>19 DEF FailProject
    <3>2. /\ UNCHANGED sproj /\ proj'[q] = proj[q]
          /\ \A u \in Session \ {s} : runner'[u] = runner[u] /\ pend'[u] = pend[u]
      BY <2>19, <3>1 DEF FailProject
    <3> QED BY <1>d, <3>1, <3>2
  <2>20. CASE CatchThrows(s) BY <1>c, <2>20 DEF CatchThrows
  <2> QED BY <1>3, <2>1, <2>2, <2>3, <2>4, <2>5, <2>6, <2>7, <2>8, <2>9, <2>10, <2>11,
             <2>12, <2>13, <2>14, <2>15, <2>16, <2>17, <2>18, <2>19, <2>20 DEF RunnerStep
<1>4. ASSUME NEW s \in Session, CancelRead(s) PROVE Held
  BY <1>b, <1>4 DEF CancelRead
<1>5. ASSUME NEW s \in Session, CancelStep(s) PROVE Held
  <2>1. CASE CancelSignal(s) BY <1>b, <2>1 DEF CancelSignal
  <2>2. CASE CancelRow(s) BY <1>b, <2>2 DEF CancelRow
  <2>3. CASE CancelProject(s)
    <3>1. sproj[s] # q BY <2>3 DEF CancelProject
    <3>2. UNCHANGED <<sproj, runner, pend>> /\ proj'[q] = proj[q]
      BY <2>3, <3>1 DEF CancelProject
    <3> QED BY <1>d, <3>1, <3>2
  <2>4. CASE CancelThrows(s) BY <1>b, <2>4 DEF CancelThrows
  <2> QED BY <1>5, <2>1, <2>2, <2>3, <2>4 DEF CancelStep
<1>6. ASSUME ProcessStep PROVE Held
  <2>1. CASE Sigterm BY <1>b, <2>1 DEF Sigterm
  <2>2. CASE CloseRows BY <1>b, <2>2 DEF CloseRows
  <2>3. CASE GoDown
    <3>1. \A u \in Session : runner'[u] = IF runner[u] \in Live THEN "lost" ELSE runner[u]
      BY <2>3 DEF GoDown
    <3>2. \A u \in Session : Holds(u) => Holds(u)'
      BY <3>1 DEF Live
    <3> QED BY <1>a, <2>3, <3>2 DEF GoDown
  <2>4. CASE Restart BY <1>b, <2>4 DEF Restart
  <2> QED BY <1>6, <2>1, <2>2, <2>3, <2>4 DEF ProcessStep
<1>7. CASE UNCHANGED vars BY <1>b, <1>7 DEF vars
<1> QED BY <1>1, <1>2, <1>3, <1>4, <1>5, <1>6, <1>7 DEF Next
-----------------------------------------------------------------------------
(***************************************************************************)
(* The invariant is inductive and holds initially.                         *)
(***************************************************************************)
LEMMA Inductive == Spec => []IInv
<1>1. Init => IInv
  <2> SUFFICES ASSUME Init PROVE IInv OBVIOUS
  <2>1. TypeOK BY SMTT(30) DEF Init, TypeOK, PromptKind
  <2>2. \A s \in Session : SessionInv(s)
    BY DEF Init, SessionInv, Ordered, Flagged, Heeded, Spoken, Landing,
           EndIsTold, RowHasOwner, Heeding
  <2>3. BuildingAccountedFor BY DEF Init, BuildingAccountedFor
  <2> QED BY <2>1, <2>2, <2>3 DEF IInv
<1>2. IInv /\ [Next]_vars => IInv'
  BY TypeStep, SessionStep, BuildingStep DEF IInv
<1> QED BY <1>1, <1>2, PTL DEF Spec

(***************************************************************************)
(* A build cancelled before the runner's last check of the flag is never   *)
(* recorded as delivered, under any interleaving and fault.                *)
(***************************************************************************)
THEOREM EarlyCancelCorrect == Spec => []EarlyCancelNeverDelivers
<1>1. IInv => EarlyCancelNeverDelivers
  BY DEF IInv, TypeOK, SessionInv, Heeded, EarlyCancelNeverDelivers
<1> QED BY <1>1, Inductive, PTL

(***************************************************************************)
(* No build's runner ends without its client having been told, or a cancel *)
(* handler that owes it the word.                                          *)
(***************************************************************************)
THEOREM NoSilentEndCorrect == Spec => []NoSilentEnd
<1>1. IInv => NoSilentEnd
  BY DEF IInv, SessionInv, NoSilentEnd
<1> QED BY <1>1, Inductive, PTL

(***************************************************************************)
(* A row left "running" is being worked on or ended in one of the known    *)
(* ways that never close it.                                               *)
(***************************************************************************)
THEOREM RunningRowCorrect == Spec => []RunningRowAccountedFor
<1>1. IInv => RunningRowAccountedFor
  BY DEF IInv, SessionInv, RunningRowAccountedFor
<1> QED BY <1>1, Inductive, PTL

(***************************************************************************)
(* A project that refuses builds as "building" is held by a build at work  *)
(* or by one that ended in one of the known ways that never release it.    *)
(***************************************************************************)
THEOREM BuildingCorrect == Spec => []BuildingAccountedFor
<1>1. IInv => BuildingAccountedFor
  BY DEF IInv
<1> QED BY <1>1, Inductive, PTL
-----------------------------------------------------------------------------
(***************************************************************************)
(* A runner registers as it starts and unregisters only as it ends.        *)
(***************************************************************************)
LEMMA ShutdownStep == TypeOK /\ ShutdownFindsBuilds /\ [Next]_vars => ShutdownFindsBuilds'
<1> SUFFICES ASSUME TypeOK, ShutdownFindsBuilds, [Next]_vars PROVE ShutdownFindsBuilds'
  OBVIOUS
<1> USE DEF TypeOK, Goto, At, Alive, Leave, inMemory
\* A step that moves one runner among its places, or takes it out of them.
<1>a. ASSUME UNCHANGED <<runner, runningSessions>> PROVE ShutdownFindsBuilds'
  BY <1>a DEF ShutdownFindsBuilds
<1>b. ASSUME NEW s \in Session, NEW place, runner[s] \in Live, Goto(s, place),
             UNCHANGED runningSessions
      PROVE  ShutdownFindsBuilds'
  BY <1>b DEF ShutdownFindsBuilds
<1>c. ASSUME NEW s \in Session, NEW place \in Over, Leave(s, place)
      PROVE  ShutdownFindsBuilds'
  <2>1. \A u \in Session : /\ u # s => runner'[u] = runner[u]
                           /\ runner'[s] = place
                           /\ runningSessions' = runningSessions \ {s}
    BY <1>c
  <2>2. place \notin Live BY DEF Over, Live, InTry, Working, Writing, Failing
  <2> QED BY <2>1, <2>2 DEF ShutdownFindsBuilds
<1>1. ASSUME NEW s \in Session, NEW p \in Project, NEW kind \in Prompts, FastCheck(s, p, kind)
      PROVE  ShutdownFindsBuilds'
  BY <1>a, <1>1 DEF FastCheck
<1>2. ASSUME NEW s \in Session, RequestStep(s) PROVE ShutdownFindsBuilds'
  <2>1. CASE FastSpawn(s) BY <2>1 DEF FastSpawn, ShutdownFindsBuilds
  <2>2. CASE ~FastSpawn(s)
    BY <1>2, <1>a, <2>2 DEF RequestStep, FastRefuse, FastInsert, FastThrow
  <2> QED BY <2>1, <2>2
<1>3. ASSUME NEW s \in Session, RunnerStep(s) PROVE ShutdownFindsBuilds'
  <2> USE DEF Live, InTry, Working, Writing, Failing
  <2>0. "ok" \in Over /\ "failed" \in Over /\ "stopped" \in Over /\ "action" \in Over /\ "threw" \in Over
    BY DEF Over
  <2> HIDE DEF Goto, Leave
  <2>1. CASE RunnerSetup(s) BY <1>b, <2>1 DEF RunnerSetup
  <2>2. CASE RunnerSetupThrows(s) BY <1>b, <2>2 DEF RunnerSetupThrows
  <2>3. CASE AnswerQuery(s) BY <1>b, <2>3 DEF AnswerQuery
  <2>4. CASE StopAfterDispatch(s) BY <1>c, <2>0, <2>4 DEF StopAfterDispatch
  <2>5. CASE DispatchReturns(s) BY <1>b, <2>5 DEF DispatchReturns
  <2>6. CASE ActionOnly(s) BY <1>c, <2>0, <2>6 DEF ActionOnly
  <2>7. CASE Abort(s) BY <1>b, <2>7 DEF Abort
  <2>8. CASE AbortRow(s) BY <1>a, <2>8 DEF AbortRow
  <2>9. CASE AbortProject(s) BY <1>a, <2>9 DEF AbortProject
  <2>10. CASE AbortReturns(s) BY <1>b, <1>c, <2>0, <2>10 DEF AbortReturns
  <2>11. CASE RejectThrows(s) BY <1>b, <2>11 DEF RejectThrows
  <2>12. CASE WriteFiles(s) BY <1>b, <2>12 DEF WriteFiles
  <2>13. CASE StopAfterWrites(s) BY <1>c, <2>0, <2>13 DEF StopAfterWrites
  <2>14. CASE Complete(s) BY <1>b, <2>14 DEF Complete
  <2>15. CASE FinishRow(s) BY <1>b, <2>15 DEF FinishRow
  <2>16. CASE FinishProject(s) BY <1>c, <2>0, <2>16 DEF FinishProject
  <2>17. CASE Throw(s) BY <1>b, <1>c, <2>0, <2>17 DEF Throw
  <2>18. CASE FailRow(s) BY <1>b, <2>18 DEF FailRow
  <2>19. CASE FailProject(s) BY <1>c, <2>0, <2>19 DEF FailProject
  <2>20. CASE CatchThrows(s) BY <1>c, <2>0, <2>20 DEF CatchThrows
  <2> QED BY <1>3, <2>1, <2>2, <2>3, <2>4, <2>5, <2>6, <2>7, <2>8, <2>9, <2>10, <2>11,
             <2>12, <2>13, <2>14, <2>15, <2>16, <2>17, <2>18, <2>19, <2>20 DEF RunnerStep
<1>4. ASSUME NEW s \in Session, CancelRead(s) \/ CancelStep(s) PROVE ShutdownFindsBuilds'
  BY <1>a, <1>4 DEF CancelRead, CancelStep, CancelSignal, CancelRow, CancelProject, CancelThrows
<1>5. ASSUME ProcessStep PROVE ShutdownFindsBuilds'
  <2>1. CASE GoDown
    <3>1. \A u \in Session : runner'[u] = IF runner[u] \in Live THEN "lost" ELSE runner[u]
      BY <2>1 DEF GoDown
    <3>2. "lost" \notin Live BY DEF Live, InTry, Working, Writing, Failing
    <3> QED BY <3>1, <3>2 DEF ShutdownFindsBuilds
  <2>2. CASE ~GoDown
    BY <1>5, <1>a, <2>2 DEF ProcessStep, Sigterm, CloseRows, Restart
  <2> QED BY <2>1, <2>2
<1>6. CASE UNCHANGED vars BY <1>a, <1>6 DEF vars
<1> QED BY <1>1, <1>2, <1>3, <1>4, <1>5, <1>6 DEF Next

(***************************************************************************)
(* A shutdown finds every build under way, at whichever await it is.       *)
(***************************************************************************)
THEOREM ShutdownFindsBuildsCorrect == Spec => []ShutdownFindsBuilds
<1>1. Init => ShutdownFindsBuilds
  BY DEF Init, ShutdownFindsBuilds, Live, InTry, Working, Writing, Failing
<1> QED BY <1>1, ShutdownStep, TypeCorrect, PTL DEF Spec

\* The row, the project and the shutdown's set count the same builds.
THEOREM AccountedForCorrect == Spec => []AccountedFor
<1>1. RunningRowAccountedFor /\ BuildingAccountedFor /\ ShutdownFindsBuilds => AccountedFor
  BY DEF AccountedFor
<1> QED BY <1>1, RunningRowCorrect, BuildingCorrect, ShutdownFindsBuildsCorrect, PTL
-----------------------------------------------------------------------------
(***************************************************************************)
(* A closed row stays as it is unless a cancellation or a shutdown of its  *)
(* session overlaps it, or a failure after it is still to be recorded.     *)
(***************************************************************************)
Overlapped(s) == cancel[s] # "none" \/ "interrupted" \in told[s]

\* Places from which a runner that closed its row writes it no more, unless a
\* statement fails.
Closed == {"queryProj", "completeProj", "failProj", "abort", "reject"} \cup Over

ClosedRow(s) == row[s] \in Terminal =>
  \/ Overlapped(s)
  \/ /\ runner[s] \in Closed \/ (runner[s] = "failRow" /\ "db" \in Faults)
     /\ "row" \in pend[s] => "db" \in Faults

ClosedInv(s) ==
  /\ s \in closing => Overlapped(s)
  /\ runner[s] = "failRow" /\ "row" \in pend[s] => "db" \in Faults
  /\ ClosedRow(s)

\* What a step may do to a closed row.
Rewrite(s) == row[s] \in Terminal /\ row'[s] # row[s]
  => Overlapped(s) \/ ("db" \in Faults /\ row'[s] = "failed")

LEMMA ClosedStep ==
  TypeOK /\ (\A s \in Session : Ordered(s) /\ Landing(s) /\ ClosedInv(s)) /\ [Next]_vars
    => \A s \in Session : ClosedInv(s)' /\ Rewrite(s)
<1> SUFFICES ASSUME TypeOK, \A s \in Session : Ordered(s) /\ Landing(s) /\ ClosedInv(s),
                    [Next]_vars, NEW t \in Session
             PROVE  ClosedInv(t)' /\ Rewrite(t)
  OBVIOUS
<1>t. Ordered(t) /\ Landing(t) /\ ClosedInv(t) OBVIOUS
<1> USE DEF ClosedInv, ClosedRow, Overlapped, Rewrite, Closed, Over, Terminal, Ordered, Landing,
            Working, Alive, At, Goto, SetRow, Tell, Leave, request, inMemory, process, TypeOK
<1>1. ASSUME NEW s \in Session, NEW p \in Project, NEW kind \in Prompts, FastCheck(s, p, kind)
      PROVE  ClosedInv(t)' /\ Rewrite(t)
  BY <1>t, <1>1 DEF FastCheck
<1>2. ASSUME NEW s \in Session, RequestStep(s) PROVE ClosedInv(t)' /\ Rewrite(t)
  <2>1. CASE FastRefuse(s) BY <1>t, <2>1 DEF FastRefuse
  <2>2. CASE FastInsert(s) BY <1>t, <2>2 DEF FastInsert
  <2>3. CASE FastThrow(s) BY <1>t, <2>3 DEF FastThrow
  <2>4. CASE FastSpawn(s) BY <1>t, <2>4 DEF FastSpawn
  <2> QED BY <1>2, <2>1, <2>2, <2>3, <2>4 DEF RequestStep
<1>3. ASSUME NEW s \in Session, RunnerStep(s) PROVE ClosedInv(t)' /\ Rewrite(t)
  <2>1. CASE RunnerSetup(s) BY <1>t, <2>1 DEF RunnerSetup
  <2>2. CASE RunnerSetupThrows(s) BY <1>t, <2>2 DEF RunnerSetupThrows
  <2>3. CASE AnswerQuery(s) BY <1>t, <2>3 DEF AnswerQuery
  <2>4. CASE StopAfterDispatch(s) BY <1>t, <2>4 DEF StopAfterDispatch
  <2>5. CASE DispatchReturns(s) BY <1>t, <2>5 DEF DispatchReturns
  <2>6. CASE ActionOnly(s) BY <1>t, <2>6 DEF ActionOnly
  <2>7. CASE Abort(s) BY <1>t, <2>7 DEF Abort
  <2>8. CASE AbortRow(s) BY <1>t, <2>8 DEF AbortRow
  <2>9. CASE AbortProject(s) BY <1>t, <2>9 DEF AbortProject
  <2>10. CASE AbortReturns(s) BY <1>t, <2>10 DEF AbortReturns
  <2>11. CASE RejectThrows(s) BY <1>t, <2>11, RejectEffect DEF RejectThrows
  <2>12. CASE WriteFiles(s) BY <1>t, <2>12 DEF WriteFiles
  <2>13. CASE StopAfterWrites(s) BY <1>t, <2>13 DEF StopAfterWrites
  <2>14. CASE Complete(s) BY <1>t, <2>14 DEF Complete
  <2>15. CASE FinishRow(s) BY <1>t, <2>15 DEF FinishRow
  <2>16. CASE FinishProject(s) BY <1>t, <2>16 DEF FinishProject
  <2>17. CASE Throw(s)
    <3>1. /\ \A u \in Session \ {s} : pend'[u] = pend[u]
          /\ pend'[s] \subseteq pend[s]
      BY <2>17, RejectEffect DEF Throw
    <3>2. "db" \in Faults \/ runner[s] \in Working
      BY <2>17 DEF Throw, WriteRejects
    <3> QED BY <1>t, <2>17, <3>1, <3>2 DEF Throw, Writing
  <2>18. CASE FailRow(s) BY <1>t, <2>18 DEF FailRow
  <2>19. CASE FailProject(s) BY <1>t, <2>19 DEF FailProject
  <2>20. CASE CatchThrows(s) BY <1>t, <2>20 DEF CatchThrows
  <2> QED BY <1>3, <2>1, <2>2, <2>3, <2>4, <2>5, <2>6, <2>7, <2>8, <2>9, <2>10, <2>11,
             <2>12, <2>13, <2>14, <2>15, <2>16, <2>17, <2>18, <2>19, <2>20 DEF RunnerStep
<1>4. ASSUME NEW s \in Session, CancelRead(s) \/ CancelStep(s) PROVE ClosedInv(t)' /\ Rewrite(t)
  <2>1. CASE CancelRead(s) BY <1>t, <2>1 DEF CancelRead
  <2>2. CASE CancelSignal(s) BY <1>t, <2>2 DEF CancelSignal
  <2>3. CASE CancelRow(s) BY <1>t, <2>3 DEF CancelRow
  <2>4. CASE CancelProject(s) BY <1>t, <2>4 DEF CancelProject
  <2>5. CASE CancelThrows(s) BY <1>t, <2>5 DEF CancelThrows
  <2> QED BY <1>4, <2>1, <2>2, <2>3, <2>4, <2>5 DEF CancelStep
<1>5. ASSUME ProcessStep PROVE ClosedInv(t)' /\ Rewrite(t)
  <2>1. CASE Sigterm
    <3>1. /\ UNCHANGED <<row, runner, pend, cancel>>
          /\ t \in closing' => "interrupted" \in told'[t]
          /\ "interrupted" \in told[t] => "interrupted" \in told'[t]
      BY <2>1 DEF Sigterm
    <3> QED BY <1>t, <3>1
  <2>2. CASE CloseRows
    <3>1. /\ UNCHANGED <<runner, pend, cancel, told>>
          /\ closing' = {}
          /\ row'[t] = row[t] \/ t \in closing
      BY <2>2 DEF CloseRows
    <3> QED BY <1>t, <3>1
  <2>3. CASE GoDown
    <3>1. /\ closing' = {} /\ UNCHANGED <<row, told>> /\ pend'[t] = {}
          /\ runner'[t] = IF runner[t] \in Live THEN "lost" ELSE runner[t]
          /\ cancel[t] # "none" => cancel'[t] # "none"
      BY <2>3 DEF GoDown
    <3>2. runner[t] \in Closed \cup {"failRow"} => runner'[t] \in Over
      BY <3>1 DEF Live, InTry, Writing, Failing
    <3> QED BY <1>t, <3>1, <3>2
  <2>4. CASE Restart BY <1>t, <2>4 DEF Restart
  <2> QED BY <1>5, <2>1, <2>2, <2>3, <2>4 DEF ProcessStep
<1>6. CASE UNCHANGED vars BY <1>t, <1>6 DEF vars
<1> QED BY <1>1, <1>2, <1>3, <1>4, <1>5, <1>6 DEF Next

(***************************************************************************)
(* A terminal status is final but for an overlapping cancellation or       *)
(* shutdown, and for the failure of a statement after it.                  *)
(***************************************************************************)
THEOREM RowClosedOnceCorrect == Spec => RowClosedOnce
<1>1. Init => \A s \in Session : ClosedInv(s)
  BY DEF Init, ClosedInv, ClosedRow, Terminal
<1>2. IInv /\ (\A s \in Session : ClosedInv(s)) /\ [Next]_vars
        => (\A s \in Session : ClosedInv(s))'
  BY ClosedStep DEF IInv, SessionInv
<1>3. IInv /\ (\A s \in Session : ClosedInv(s)) /\ [Next]_vars
        => [\A s \in Session : row[s] \in Terminal /\ row'[s] # row[s]
              => \/ cancel[s] # "none"
                 \/ "interrupted" \in told[s]
                 \/ "db" \in Faults /\ row'[s] = "failed"]_vars
  BY ClosedStep DEF IInv, SessionInv, Rewrite, Overlapped
<1> QED BY <1>1, <1>2, <1>3, Inductive, PTL DEF Spec, RowClosedOnce

-----------------------------------------------------------------------------
(***************************************************************************)
(* A set of numbers that is not empty has a least one.                     *)
(***************************************************************************)
LEMMA LeastOf ==
  ASSUME NEW T \in SUBSET Nat, T # {}
  PROVE  \E x \in T : \A y \in T : x <= y
<1> DEFINE R == OpToRel(<, Nat)
<1>1. IsWellFoundedOn(R, Nat)
  BY NatLessThanWellFounded
<1>2. \E x \in T : \A y \in T : ~ (<<y, x>> \in R)
  BY <1>1, WFMin
<1>3. \A x, y \in Nat : <<y, x>> \in R <=> y < x
  BY DEF OpToRel
<1> HIDE DEF R
<1>4. PICK x \in T : \A y \in T : ~ (<<y, x>> \in R)
  BY <1>2
<1>5. ASSUME NEW y \in T PROVE x <= y
  <2>1. x \in Nat /\ y \in Nat
    OBVIOUS
  <2>2. ~(y < x)
    BY <1>3, <1>4, <2>1
  <2> QED BY <2>1, <2>2
<1> QED BY <1>5

(***************************************************************************)
(* A set of numbers with 0 and the successor of each of its own is all.    *)
(***************************************************************************)
LEMMA ByInduction ==
  ASSUME NEW T \in SUBSET Nat, 0 \in T, \A n \in T : n + 1 \in T
  PROVE  T = Nat
<1>1. SUFFICES ASSUME Nat \ T # {} PROVE FALSE
  OBVIOUS
<1>2. PICK x \in Nat \ T : \A y \in Nat \ T : x <= y
  BY <1>1, LeastOf
<1>3. x # 0 /\ x - 1 \in Nat
  BY <1>2
<1>4. x - 1 \in T
  BY <1>2, <1>3
<1> QED BY <1>2, <1>3, <1>4

\* f begins with b and goes on by g.
Iterates(f, D, g, b) ==
  f \in [Nat -> D] /\ f[0] = b /\ \A n \in Nat : f[n + 1] = g[f[n]]

(***************************************************************************)
(* So a function over the numbers may be defined by a first value and a    *)
(* step.                                                                   *)
(***************************************************************************)
LEMMA IteratedExists ==
  ASSUME NEW D, NEW g \in [D -> D], NEW b \in D
  PROVE  \E f : Iterates(f, D, g, b)
<1> DEFINE Begun(n, a) == a \in [0 .. n -> D] /\ a[0] = b /\ \A i \in 0 .. n - 1 : a[i + 1] = g[a[i]]
<1> DEFINE T == {n \in Nat : \E a : Begun(n, a)}
<1>1. 0 \in T
  <2>1. Begun(0, [i \in 0 .. 0 |-> b])
    OBVIOUS
  <2> QED BY <2>1
<1>2. ASSUME NEW n \in T PROVE n + 1 \in T
  <2>1. n \in Nat
    OBVIOUS
  <2>2. PICK a : Begun(n, a)
    OBVIOUS
  <2> DEFINE c == [i \in 0 .. n + 1 |-> IF i = n + 1 THEN g[a[n]] ELSE a[i]]
  <2>3. c \in [0 .. n + 1 -> D] /\ c[0] = b
    BY <2>1, <2>2
  <2>4. ASSUME NEW i \in 0 .. n PROVE c[i + 1] = g[c[i]]
    <3>1. CASE i = n
      BY <3>1, <2>1, <2>2
    <3>2. CASE i # n
      BY <3>2, <2>1, <2>2
    <3> QED BY <3>1, <3>2
  <2> HIDE DEF c
  <2>5. Begun(n + 1, c)
    BY <2>1, <2>3, <2>4
  <2>6. n + 1 \in Nat
    BY <2>1
  <2> HIDE DEF Begun
  <2> QED BY <2>5, <2>6
<1> HIDE DEF T
<1>3. T = Nat
  <2>1. T \subseteq Nat
    BY DEF T
  <2> QED BY <1>1, <1>2, <2>1, ByInduction
<1>4. ASSUME NEW n \in Nat PROVE \E a : Begun(n, a)
  BY <1>3 DEF T
<1> HIDE DEF Begun
<1> DEFINE A == [n \in Nat |-> CHOOSE a : Begun(n, a)]
<1>5. ASSUME NEW n \in Nat PROVE Begun(n, A[n])
  BY <1>4
<1> HIDE DEF A
<1>6. ASSUME NEW n \in Nat, NEW i \in 0 .. n PROVE A[n][i] = A[i][i]
  <2> DEFINE S == {j \in Nat : j <= n => A[n][j] = A[j][j]}
  <2>1. 0 \in S
    BY <1>5 DEF Begun
  <2>2. ASSUME NEW j \in S PROVE j + 1 \in S
    <3>1. CASE j + 1 > n
      BY <3>1
    <3>2. CASE j + 1 <= n
      <4> DEFINE Q == {k \in Nat : k <= j + 1 => A[n][k] = A[j + 1][k]}
      <4>1. 0 \in Q
        BY <1>5 DEF Begun
      <4>2. ASSUME NEW k \in Q PROVE k + 1 \in Q
        <5>1. CASE k + 1 > j + 1
          BY <5>1
        <5>2. CASE k + 1 <= j + 1
          <6>1. A[n][k] = A[j + 1][k]
            BY <5>2
          <6>2. A[n][k + 1] = g[A[n][k]]
            BY <1>5, <3>2, <5>2 DEF Begun
          <6>3. A[j + 1][k + 1] = g[A[j + 1][k]]
            BY <1>5, <5>2 DEF Begun
          <6> QED BY <6>1, <6>2, <6>3
        <5> QED BY <5>1, <5>2
      <4>3. Q = Nat
        <5>1. Q \subseteq Nat
          OBVIOUS
        <5> HIDE DEF Q
        <5> QED BY <4>1, <4>2, <5>1, ByInduction
      <4> QED BY <4>3
    <3> QED BY <3>1, <3>2
  <2>3. S = Nat
    <3>1. S \subseteq Nat
      OBVIOUS
    <3> HIDE DEF S
    <3> QED BY <2>1, <2>2, <3>1, ByInduction
  <2> QED BY <2>3
<1> DEFINE f == [n \in Nat |-> A[n][n]]
<1>7. f \in [Nat -> D]
  BY <1>5 DEF Begun
<1>8. f[0] = b
  BY <1>5 DEF Begun
<1>9. ASSUME NEW n \in Nat PROVE f[n + 1] = g[f[n]]
  <2>1. A[n + 1][n + 1] = g[A[n + 1][n]]
    BY <1>5 DEF Begun
  <2>2. A[n + 1][n] = A[n][n]
    BY <1>6
  <2> QED BY <2>1, <2>2
<1> QED BY <1>7, <1>8, <1>9 DEF Iterates

\* f goes on from an argument in more to the next one, and stops at others.
GoesOn(f, X, Y, more, next, stop, step) ==
  /\ f \in [X -> Y]
  /\ \A x \in X : f[x] = IF x \in more THEN step[x][f[next[x]]] ELSE stop[x]

(***************************************************************************)
(* A function may be defined by going on from each argument to a smaller   *)
(* one, until there is no more to do.                                      *)
(***************************************************************************)
LEMMA GoingOn ==
  ASSUME NEW X, NEW Y, NEW m \in [X -> Nat], NEW more \in SUBSET X, NEW next \in [more -> X],
         NEW stop \in [X -> Y], NEW step \in [more -> [Y -> Y]],
         \A x \in more : m[next[x]] < m[x]
  PROVE  \E f : GoesOn(f, X, Y, more, next, stop, step)
<1> DEFINE D == [X -> Y]
           Body(f) == [x \in X |-> IF x \in more THEN step[x][f[next[x]]] ELSE stop[x]]
           g == [f \in D |-> Body(f)]
<1>1. ASSUME NEW f \in D PROVE Body(f) \in D
  <2>1. \A x \in more : step[x][f[next[x]]] \in Y
    OBVIOUS
  <2>2. \A x \in X : stop[x] \in Y
    OBVIOUS
  <2> QED BY <2>1, <2>2
<1>2. g \in [D -> D]
  BY <1>1
<1>3. \A f \in D : \A x \in X : g[f][x] = IF x \in more THEN step[x][f[next[x]]] ELSE stop[x]
  OBVIOUS
<1>4. stop \in D
  OBVIOUS
<1> HIDE DEF D, Body, g
<1>5. PICK F : Iterates(F, D, g, stop)
  BY <1>2, <1>4, IteratedExists
<1>6. F \in [Nat -> D] /\ \A n \in Nat : F[n + 1] = g[F[n]]
  BY <1>5 DEF Iterates
<1>7. \A n \in Nat : F[n] \in D /\ F[n] \in [X -> Y]
  BY <1>6 DEF D
\* After n steps the values of all arguments below n are right.
<1> DEFINE Right(n) == \A x \in X : m[x] < n => F[n + 1][x] = F[n][x]
<1>8. \A n \in Nat : Right(n)
  <2> DEFINE T == {n \in Nat : Right(n)}
  <2>1. 0 \in T
    OBVIOUS
  <2>2. ASSUME NEW n \in T PROVE n + 1 \in T
    <3>1. n \in Nat /\ n + 1 \in Nat /\ Right(n)
      OBVIOUS
    <3>2. ASSUME NEW x \in X, m[x] < n + 1 PROVE F[n + 1 + 1][x] = F[n + 1][x]
      <4>1. F[n + 1 + 1] = g[F[n + 1]] /\ F[n + 1] = g[F[n]]
        BY <1>6, <3>1
      <4>2. CASE x \notin more
        BY <4>1, <4>2, <1>3, <1>7, <3>1
      <4>3. CASE x \in more
        <5>1. next[x] \in X /\ m[next[x]] < m[x] /\ m[next[x]] \in Nat /\ m[x] \in Nat
          BY <4>3
        <5>2. m[next[x]] < n
          BY <5>1, <3>1, <3>2
        <5>3. F[n + 1][next[x]] = F[n][next[x]]
          BY <3>1, <5>1, <5>2
        <5>4. F[n + 1 + 1][x] = step[x][F[n + 1][next[x]]]
          BY <4>1, <4>3, <1>3, <1>7, <3>1
        <5>5. F[n + 1][x] = step[x][F[n][next[x]]]
          BY <4>1, <4>3, <1>3, <1>7, <3>1
        <5> QED BY <5>3, <5>4, <5>5
      <4> QED BY <4>2, <4>3
    <3> QED BY <3>1, <3>2
  <2>3. T = Nat
    <3>1. T \subseteq Nat
      OBVIOUS
    <3> HIDE DEF T
    <3> QED BY <2>1, <2>2, <3>1, ByInduction
  <2> QED BY <2>3
<1>9. ASSUME NEW x \in X, NEW k \in Nat PROVE F[m[x] + 1 + k][x] = F[m[x] + 1][x]
  <2> DEFINE T == {n \in Nat : F[m[x] + 1 + n][x] = F[m[x] + 1][x]}
  <2>0. m[x] \in Nat
    OBVIOUS
  <2>1. 0 \in T
    BY <2>0
  <2>2. ASSUME NEW n \in T PROVE n + 1 \in T
    <3>1. n \in Nat /\ F[m[x] + 1 + n][x] = F[m[x] + 1][x]
      OBVIOUS
    <3>2. m[x] + 1 + n \in Nat /\ m[x] < m[x] + 1 + n
      BY <2>0, <3>1
    <3>3. F[m[x] + 1 + n + 1][x] = F[m[x] + 1 + n][x]
      BY <3>2, <1>8
    <3>4. m[x] + 1 + n + 1 = m[x] + 1 + (n + 1)
      BY <2>0, <3>1
    <3> QED BY <3>1, <3>3, <3>4
  <2>3. T = Nat
    <3>1. T \subseteq Nat
      OBVIOUS
    <3> HIDE DEF T
    <3> QED BY <2>1, <2>2, <3>1, ByInduction
  <2> QED BY <2>3
<1> DEFINE f == [x \in X |-> F[m[x] + 1][x]]
<1>10. f \in [X -> Y]
  <2>1. \A x \in X : m[x] + 1 \in Nat
    OBVIOUS
  <2> QED BY <2>1, <1>7
<1>11. ASSUME NEW x \in X
       PROVE  f[x] = IF x \in more THEN step[x][f[next[x]]] ELSE stop[x]
  <2>1. m[x] \in Nat /\ m[x] + 1 \in Nat
    OBVIOUS
  <2>2. F[m[x] + 1] = g[F[m[x]]]
    BY <2>1, <1>6
  <2>3. CASE x \notin more
    BY <2>1, <2>2, <2>3, <1>3, <1>7
  <2>4. CASE x \in more
    <3> DEFINE y == next[x]
    <3>1. y \in X /\ m[y] \in Nat /\ m[y] < m[x]
      BY <2>4
    <3>2. F[m[x] + 1][x] = step[x][F[m[x]][y]]
      BY <2>1, <2>2, <2>4, <1>3, <1>7
    <3>3. m[x] - (m[y] + 1) \in Nat /\ m[x] = m[y] + 1 + (m[x] - (m[y] + 1))
      BY <2>1, <3>1
    <3>4. F[m[x]][y] = F[m[y] + 1][y]
      BY <3>1, <3>3, <1>9
    <3> QED BY <2>4, <3>1, <3>2, <3>4
  <2> QED BY <2>3, <2>4
<1> HIDE DEF f
<1> QED BY <1>10, <1>11 DEF GoesOn

\* f begins with y0 and makes its n-th value from the one before.
Steps(f, N, Y, y0, step) ==
  /\ f \in [0 .. N -> Y]
  /\ \A n \in 0 .. N : f[n] = IF n = 0 THEN y0 ELSE step[n][f[n - 1]]

(***************************************************************************)
(* The same for a sequence of values, each made from the one before.       *)
(***************************************************************************)
LEMMA StepByStep ==
  ASSUME NEW N \in Nat, NEW Y, NEW y0 \in Y, NEW step \in [1 .. N -> [Y -> Y]]
  PROVE  \E f : Steps(f, N, Y, y0, step)
<1> DEFINE X == 0 .. N
           more == 1 .. N
           m == [n \in X |-> n]
           next == [n \in more |-> n - 1]
           stop == [n \in X |-> y0]
<1>1. m \in [X -> Nat] /\ more \in SUBSET X /\ next \in [more -> X] /\ stop \in [X -> Y]
  OBVIOUS
<1>2. \A x \in more : m[next[x]] < m[x]
  OBVIOUS
<1>3. \A n \in X : n \in more <=> n # 0
  OBVIOUS
<1>4. \A n \in more : next[n] = n - 1
  OBVIOUS
<1>5. \A n \in X : stop[n] = y0
  OBVIOUS
<1>6. step \in [more -> [Y -> Y]]
  OBVIOUS
<1> HIDE DEF X, more, m, next, stop
<1>7. PICK f : GoesOn(f, X, Y, more, next, stop, step)
  BY <1>1, <1>2, <1>6, GoingOn
<1>8. \A n \in X : f[n] = IF n = 0 THEN y0 ELSE step[n][f[n - 1]]
  BY <1>3, <1>4, <1>5, <1>7 DEF GoesOn
<1>9. f \in [0 .. N -> Y]
  BY <1>7 DEF X, GoesOn
<1>10. Steps(f, N, Y, y0, step)
  BY <1>8, <1>9 DEF X, Steps
<1> QED BY <1>10
(***************************************************************************)
(* A text up to a place.                                                   *)
(***************************************************************************)
LEMMA UptoIs ==
  ASSUME NEW S, NEW s \in Seq(S), NEW n \in 0 .. Len(s)
  PROVE  /\ Upto(s, n) \in Seq(S) /\ Len(Upto(s, n)) = n
         /\ \A i \in 1 .. n : Upto(s, n)[i] = s[i]
<1>1. Len(s) \in Nat /\ \A i \in 1 .. n : s[i] \in S
  BY LenProperties, ElementOfSeq
<1>2. n \in Int /\ 1 \in Int
  BY <1>1
<1>3. Len(SubSeq(s, 1, n)) = (IF 1 <= n THEN n - 1 + 1 ELSE 0)
  BY <1>1, <1>2, SubSeqProperties
<1>4. SubSeq(s, 1, n) \in Seq(S)
  BY <1>1, <1>2, SubSeqProperties
<1>5. \A i \in 1 .. n - 1 + 1 : SubSeq(s, 1, n)[i] = s[1 + i - 1]
  BY <1>1, <1>2, SubSeqProperties
<1>6. n \in Nat /\ n - 1 + 1 = n /\ \A i \in 1 .. n : 1 + i - 1 = i
  BY <1>1
<1> QED BY <1>3, <1>4, <1>5, <1>6 DEF Upto

(***************************************************************************)
(* A text from a place.                                                    *)
(***************************************************************************)
LEMMA FromIs ==
  ASSUME NEW S, NEW s \in Seq(S), NEW m \in 1 .. Len(s) + 1
  PROVE  /\ From(s, m) \in Seq(S) /\ Len(From(s, m)) = Len(s) + 1 - m
         /\ \A i \in 1 .. Len(s) + 1 - m : From(s, m)[i] = s[m + i - 1]
<1>1. Len(s) \in Nat
  BY LenProperties
<1>2. \A i \in m .. Len(s) : s[i] \in S
  BY <1>1, ElementOfSeq
<1>3. m \in Int /\ Len(s) \in Int
  BY <1>1
<1>4. SubSeq(s, m, Len(s)) \in Seq(S)
  BY <1>2, <1>3, SubSeqProperties
<1>5. Len(SubSeq(s, m, Len(s))) = (IF m <= Len(s) THEN Len(s) - m + 1 ELSE 0)
  BY <1>2, <1>3, SubSeqProperties
<1>6. \A i \in 1 .. Len(s) - m + 1 : SubSeq(s, m, Len(s))[i] = s[m + i - 1]
  BY <1>2, <1>3, SubSeqProperties
<1>7. Len(s) - m + 1 = Len(s) + 1 - m /\ (m <= Len(s) \/ Len(s) + 1 - m = 0)
  BY <1>1
<1> QED BY <1>4, <1>5, <1>6, <1>7 DEF From

(***************************************************************************)
(* A text is its beginning and its rest.                                   *)
(***************************************************************************)
LEMMA UptoFrom ==
  ASSUME NEW S, NEW s \in Seq(S), NEW n \in 0 .. Len(s)
  PROVE  Upto(s, n) \o From(s, n + 1) = s
<1>1. Len(s) \in Nat /\ 1 \in 1 .. Len(s) + 1
  BY LenProperties
<1>2. n \in 1 - 1 .. Len(s) /\ Len(s) \in n .. Len(s)
  BY <1>1
<1>3. SubSeq(s, 1, n) \o SubSeq(s, n + 1, Len(s)) = SubSeq(s, 1, Len(s))
  BY <1>1, <1>2, ConcatAdjacentSubSeq
<1> QED BY <1>3, SubSeqFull DEF Upto, From

(***************************************************************************)
(* The whole is all of a text, and what begins after its end is nothing.   *)
(***************************************************************************)
LEMMA WholeAndNone ==
  ASSUME NEW S, NEW s \in Seq(S)
  PROVE  /\ Upto(s, Len(s)) = s /\ From(s, 1) = s
         /\ Upto(s, 0) = <<>> /\ From(s, Len(s) + 1) = <<>>
<1>1. Len(s) \in Nat
  BY LenProperties
<1>2. Len(s) + 1 \in Int /\ Len(s) \in Int /\ Len(s) < Len(s) + 1 /\ 1 \in Int /\ 0 \in Int /\ 0 < 1
  BY <1>1
<1>3. SubSeq(s, 1, 0) = <<>> /\ SubSeq(s, Len(s) + 1, Len(s)) = <<>>
  BY <1>2, SubSeqEmpty
<1> QED BY <1>3, SubSeqFull DEF Upto, From

(***************************************************************************)
(* The beginning of a joined text.                                         *)
(***************************************************************************)
LEMMA UptoJoined ==
  ASSUME NEW S, NEW u \in Seq(S), NEW v \in Seq(S)
  PROVE  /\ \A n \in 0 .. Len(u) : Upto(u \o v, n) = Upto(u, n)
         /\ \A n \in 0 .. Len(v) : Upto(u \o v, Len(u) + n) = u \o Upto(v, n)
<1>1. Len(u) \in Nat /\ Len(v) \in Nat
  BY LenProperties
<1>2. /\ u \o v \in Seq(S) /\ Len(u \o v) = Len(u) + Len(v)
      /\ \A i \in 1 .. Len(u) + Len(v) : (u \o v)[i] = IF i <= Len(u) THEN u[i] ELSE v[i - Len(u)]
  BY ConcatProperties
<1>3. ASSUME NEW n \in 0 .. Len(u) PROVE Upto(u \o v, n) = Upto(u, n)
  <2>1. n \in 0 .. Len(u \o v)
    BY <1>1, <1>2
  <2>2. Upto(u \o v, n) \in Seq(S) /\ Len(Upto(u \o v, n)) = n
        /\ \A i \in 1 .. n : Upto(u \o v, n)[i] = (u \o v)[i]
    BY <2>1, <1>2, UptoIs
  <2>3. Upto(u, n) \in Seq(S) /\ Len(Upto(u, n)) = n /\ \A i \in 1 .. n : Upto(u, n)[i] = u[i]
    BY UptoIs
  <2>4. \A i \in 1 .. n : (u \o v)[i] = u[i]
    BY <1>1, <1>2
  <2> QED BY <2>2, <2>3, <2>4, SeqEqual
<1>4. ASSUME NEW n \in 0 .. Len(v) PROVE Upto(u \o v, Len(u) + n) = u \o Upto(v, n)
  <2>1. Len(u) + n \in 0 .. Len(u \o v)
    BY <1>1, <1>2
  <2>2. Upto(u \o v, Len(u) + n) \in Seq(S) /\ Len(Upto(u \o v, Len(u) + n)) = Len(u) + n
        /\ \A i \in 1 .. Len(u) + n : Upto(u \o v, Len(u) + n)[i] = (u \o v)[i]
    BY <2>1, <1>2, UptoIs
  <2>3. Upto(v, n) \in Seq(S) /\ Len(Upto(v, n)) = n /\ \A i \in 1 .. n : Upto(v, n)[i] = v[i]
    BY UptoIs
  <2>4. /\ u \o Upto(v, n) \in Seq(S) /\ Len(u \o Upto(v, n)) = Len(u) + n
        /\ \A i \in 1 .. Len(u) + n :
             (u \o Upto(v, n))[i] = IF i <= Len(u) THEN u[i] ELSE Upto(v, n)[i - Len(u)]
    <3> DEFINE w == Upto(v, n)
    <3>1. w \in Seq(S) /\ Len(w) = n
      BY <2>3
    <3> HIDE DEF w
    <3>2. /\ u \o w \in Seq(S) /\ Len(u \o w) = Len(u) + Len(w)
          /\ \A i \in 1 .. Len(u) + Len(w) :
               (u \o w)[i] = IF i <= Len(u) THEN u[i] ELSE w[i - Len(u)]
      BY <3>1, ConcatProperties
    <3>3. /\ u \o w \in Seq(S) /\ Len(u \o w) = Len(u) + n
          /\ \A i \in 1 .. Len(u) + n :
               (u \o w)[i] = IF i <= Len(u) THEN u[i] ELSE w[i - Len(u)]
      BY <3>1, <3>2
    <3> QED BY <3>3 DEF w
  <2>5. ASSUME NEW i \in 1 .. Len(u) + n PROVE (u \o v)[i] = (u \o Upto(v, n))[i]
    <3>1. CASE i <= Len(u)
      BY <3>1, <1>1, <1>2, <2>4
    <3>2. CASE ~(i <= Len(u))
      <4>1. i - Len(u) \in 1 .. n
        BY <3>2, <1>1
      <4> QED BY <4>1, <3>2, <1>1, <1>2, <2>3, <2>4
    <3> QED BY <3>1, <3>2
  <2> QED BY <2>2, <2>4, <2>5, SeqEqual, ZenonT(40)
<1> QED BY <1>3, <1>4

(***************************************************************************)
(* The rest of a joined text.                                              *)
(***************************************************************************)
LEMMA FromJoined ==
  ASSUME NEW S, NEW u \in Seq(S), NEW v \in Seq(S)
  PROVE  /\ \A m \in 1 .. Len(u) + 1 : From(u \o v, m) = From(u, m) \o v
         /\ \A m \in 1 .. Len(v) + 1 : From(u \o v, Len(u) + m) = From(v, m)
<1>1. Len(u) \in Nat /\ Len(v) \in Nat
  BY LenProperties
<1>2. /\ u \o v \in Seq(S) /\ Len(u \o v) = Len(u) + Len(v)
      /\ \A i \in 1 .. Len(u) + Len(v) : (u \o v)[i] = IF i <= Len(u) THEN u[i] ELSE v[i - Len(u)]
  BY ConcatProperties
<1>3. ASSUME NEW m \in 1 .. Len(u) + 1 PROVE From(u \o v, m) = From(u, m) \o v
  <2>1. m \in 1 .. Len(u \o v) + 1
    BY <1>1, <1>2
  <2>2. From(u \o v, m) \in Seq(S) /\ Len(From(u \o v, m)) = Len(u \o v) + 1 - m
        /\ \A i \in 1 .. Len(u \o v) + 1 - m : From(u \o v, m)[i] = (u \o v)[m + i - 1]
    BY <2>1, <1>2, FromIs, ZenonT(40)
  <2>3. From(u, m) \in Seq(S) /\ Len(From(u, m)) = Len(u) + 1 - m
        /\ \A i \in 1 .. Len(u) + 1 - m : From(u, m)[i] = u[m + i - 1]
    BY FromIs
  <2> DEFINE k == Len(u) + 1 - m
             w == From(u, m)
  <2>4. k \in Nat /\ Len(w) = k /\ w \in Seq(S) /\ \A i \in 1 .. k : w[i] = u[m + i - 1]
    BY <1>1, <2>3
  <2>5. /\ w \o v \in Seq(S) /\ Len(w \o v) = k + Len(v)
        /\ \A i \in 1 .. k + Len(v) : (w \o v)[i] = IF i <= k THEN w[i] ELSE v[i - k]
    <3> HIDE DEF k, w
    <3>1. /\ w \o v \in Seq(S) /\ Len(w \o v) = Len(w) + Len(v)
          /\ \A i \in 1 .. Len(w) + Len(v) : (w \o v)[i] = IF i <= Len(w) THEN w[i] ELSE v[i - Len(w)]
      BY <2>4, ConcatProperties
    <3> QED BY <3>1, <2>4
  <2>6. Len(u \o v) + 1 - m = k + Len(v)
    BY <1>1, <1>2
  <2>7. ASSUME NEW i \in 1 .. k + Len(v) PROVE (u \o v)[m + i - 1] = (w \o v)[i]
    <3>1. m + i - 1 \in 1 .. Len(u) + Len(v)
      BY <1>1
    <3>2. CASE i <= k
      <4>1. i \in 1 .. k /\ m + i - 1 <= Len(u)
        BY <3>2, <1>1
      <4> QED BY <4>1, <3>1, <3>2, <1>2, <2>4, <2>5
    <3>3. CASE ~(i <= k)
      <4>1. ~(m + i - 1 <= Len(u)) /\ (m + i - 1) - Len(u) = i - k
        BY <3>3, <1>1
      <4> HIDE DEF k, w
      <4> QED BY <4>1, <3>1, <3>3, <1>2, <2>5
    <3> QED BY <3>2, <3>3
  <2> HIDE DEF k, w
  <2>8. From(u \o v, m) = w \o v
    BY <2>2, <2>5, <2>6, <2>7, SeqEqual
  <2> QED BY <2>8 DEF w
<1>4. ASSUME NEW m \in 1 .. Len(v) + 1 PROVE From(u \o v, Len(u) + m) = From(v, m)
  <2> DEFINE a == Len(u) + m
  <2>0. a \in 1 .. Len(u \o v) + 1
    BY <1>1, <1>2
  <2>1. From(u \o v, a) \in Seq(S) /\ Len(From(u \o v, a)) = Len(u \o v) + 1 - a
        /\ \A i \in 1 .. Len(u \o v) + 1 - a : From(u \o v, a)[i] = (u \o v)[a + i - 1]
    <3> HIDE DEF a
    <3> QED BY <2>0, <1>2, FromIs, ZenonT(40)
  <2>2. From(v, m) \in Seq(S) /\ Len(From(v, m)) = Len(v) + 1 - m
        /\ \A i \in 1 .. Len(v) + 1 - m : From(v, m)[i] = v[m + i - 1]
    BY FromIs
  <2>3. Len(u \o v) + 1 - a = Len(v) + 1 - m
    BY <1>1, <1>2
  <2>4. ASSUME NEW i \in 1 .. Len(v) + 1 - m PROVE (u \o v)[a + i - 1] = v[m + i - 1]
    <3>1. a + i - 1 \in 1 .. Len(u) + Len(v) /\ ~(a + i - 1 <= Len(u))
          /\ (a + i - 1) - Len(u) = m + i - 1
      BY <1>1
    <3> HIDE DEF a
    <3> QED BY <3>1, <1>2
  <2> HIDE DEF a
  <2>5. From(u \o v, a) = From(v, m)
    BY <2>1, <2>2, <2>3, <2>4, SeqEqual
  <2> QED BY <2>5 DEF a
<1> QED BY <1>3, <1>4

(***************************************************************************)
(* A rest of a rest is a rest, and a rest of a beginning one too.          *)
(***************************************************************************)
LEMMA FromFrom ==
  ASSUME NEW S, NEW s \in Seq(S), NEW m \in 1 .. Len(s) + 1, NEW n \in 1 .. Len(s) + 2 - m
  PROVE  From(From(s, m), n) = From(s, m + n - 1)
<1>1. Len(s) \in Nat
  BY LenProperties
<1>2. /\ From(s, m) \in Seq(S) /\ Len(From(s, m)) = Len(s) + 1 - m
      /\ \A i \in 1 .. Len(s) + 1 - m : From(s, m)[i] = s[m + i - 1]
  BY FromIs
<1> DEFINE t == From(s, m)
           a == m + n - 1
<1>3. t \in Seq(S) /\ n \in 1 .. Len(t) + 1 /\ a \in 1 .. Len(s) + 1
  BY <1>1, <1>2
<1> HIDE DEF t
<1>4. From(t, n) \in Seq(S) /\ Len(From(t, n)) = Len(t) + 1 - n
      /\ \A i \in 1 .. Len(t) + 1 - n : From(t, n)[i] = t[n + i - 1]
  BY <1>3, FromIs
<1>5. From(s, a) \in Seq(S) /\ Len(From(s, a)) = Len(s) + 1 - a
      /\ \A i \in 1 .. Len(s) + 1 - a : From(s, a)[i] = s[a + i - 1]
  <2> HIDE DEF a
  <2> QED BY <1>3, FromIs
<1>6. Len(t) + 1 - n = Len(s) + 1 - a
  BY <1>1, <1>2 DEF t
<1>7. ASSUME NEW i \in 1 .. Len(s) + 1 - a PROVE t[n + i - 1] = s[a + i - 1]
  <2>1. n + i - 1 \in 1 .. Len(s) + 1 - m /\ m + (n + i - 1) - 1 = a + i - 1
    BY <1>1
  <2> HIDE DEF a
  <2>2. t[n + i - 1] = s[m + (n + i - 1) - 1]
    BY <2>1, <1>2 DEF t
  <2> QED BY <2>1, <2>2
<1> HIDE DEF a
<1>8. From(t, n) = From(s, a)
  BY <1>4, <1>5, <1>6, <1>7, SeqEqual
<1> QED BY <1>8 DEF t, a
\* Joining, as a name of its own.
Cat(x, y) == x \o y

\* f[n] is what the first n sequences of ss are in one.
Flattens(f, ss, S) ==
  /\ f \in [0 .. Len(ss) -> Seq(S)] /\ f[0] = <<>>
  /\ \A n \in 1 .. Len(ss) : f[n] = f[n - 1] \o ss[n]

(***************************************************************************)
(* The next of these.                                                      *)
(***************************************************************************)
LEMMA FlattensNext ==
  ASSUME NEW S, NEW ss \in Seq(Seq(S)), NEW f, Flattens(f, ss, S),
         NEW n \in Nat, NEW i \in 1 .. Len(ss), i = n + 1
  PROVE  f[i] = f[n] \o ss[i]
<1>1. i - 1 = n
  OBVIOUS
<1>2. f[i] = f[i - 1] \o ss[i]
  BY Zenon DEF Flattens
<1> QED BY <1>1, <1>2, Zenon

(***************************************************************************)
(* It is the same for two sequences that begin alike.                      *)
(***************************************************************************)
LEMMA FlattensAlike ==
  ASSUME NEW S, NEW ss \in Seq(Seq(S)), NEW tt \in Seq(Seq(S)), NEW f, NEW g, NEW m \in Nat,
         Flattens(f, ss, S), Flattens(g, tt, S), m <= Len(ss), m <= Len(tt),
         \A n \in 1 .. m : ss[n] = tt[n]
  PROVE  f[m] = g[m]
<1> DEFINE T == {n \in Nat : n <= m => f[n] = g[n]}
<1>0. Len(ss) \in Nat /\ Len(tt) \in Nat
  BY LenProperties
<1>1. 0 \in T
  BY DEF Flattens
<1>2. ASSUME NEW n \in T PROVE n + 1 \in T
  <2>1. SUFFICES ASSUME n + 1 <= m PROVE f[n + 1] = g[n + 1]
    OBVIOUS
  <2>2. n \in Nat /\ n + 1 \in 1 .. m /\ n + 1 \in 1 .. Len(ss) /\ n + 1 \in 1 .. Len(tt)
    BY <1>0, <2>1
  <2>3. f[n] = g[n]
    BY <2>1, <2>2
  <2>4. f[n + 1] = f[n] \o ss[n + 1]
    BY <2>2, FlattensNext, ZenonT(40)
  <2>5. g[n + 1] = g[n] \o tt[n + 1]
    BY <2>2, FlattensNext, ZenonT(40)
  <2>6. ss[n + 1] = tt[n + 1]
    BY <2>2, Zenon
  <2> QED BY <2>3, <2>4, <2>5, <2>6, Zenon
<1>3. T = Nat
  <2>1. T \subseteq Nat
    OBVIOUS
  <2> HIDE DEF T
  <2> QED BY <1>1, <1>2, <2>1, ByInduction
<1> QED BY <1>3

(***************************************************************************)
(* There is such an f, and it ends with the whole.                         *)
(***************************************************************************)
LEMMA FlattenIs ==
  ASSUME NEW S, NEW ss \in Seq(Seq(S))
  PROVE  \E f : Flattens(f, ss, S) /\ FlattenSeq(ss) = f[Len(ss)]
<1> DEFINE N == Len(ss)
           step == [n \in 1 .. N |-> [y \in Seq(S) |-> y \o ss[n]]]
<1>1. N \in Nat /\ \A n \in 1 .. N : ss[n] \in Seq(S)
  BY LenProperties, ElementOfSeq
<1>2. \A n \in 1 .. N : \A y \in Seq(S) : y \o ss[n] \in Seq(S)
  BY <1>1, ConcatProperties
<1>3. step \in [1 .. N -> [Seq(S) -> Seq(S)]]
  BY <1>2
<1>4. \A n \in 1 .. N : \A y \in Seq(S) : step[n][y] = y \o ss[n]
  OBVIOUS
<1>5. <<>> \in Seq(S)
  BY EmptySeq
<1> HIDE DEF step, N
<1>6. PICK f : Steps(f, N, Seq(S), <<>>, step)
  BY <1>1, <1>3, <1>5, StepByStep, Zenon
<1>7. ASSUME NEW n \in 1 .. N PROVE f[n] = f[n - 1] \o ss[n]
  <2>1. n \in 0 .. N /\ n # 0 /\ n - 1 \in 0 .. N
    BY <1>1
  <2>2. f[n] = step[n][f[n - 1]] /\ f[n - 1] \in Seq(S)
    BY <1>6, <2>1 DEF Steps
  <2> QED BY <1>4, <2>2, Zenon
<1>8. f[0] = <<>> /\ f \in [0 .. N -> Seq(S)]
  <2>1. 0 \in 0 .. N
    BY <1>1
  <2> QED BY <1>6, <2>1 DEF Steps
<1>9. Flattens(f, ss, S)
  BY <1>7, <1>8, Zenon DEF Flattens, N
<1>10. CASE N = 0
  BY <1>8, <1>9, <1>10 DEF N, FlattenSeq, Flattens
<1>11. CASE N # 0
  <2> DEFINE Body(h_) == [i \in 1 .. Len(ss) |-> IF i = 1 THEN ss[i] ELSE h_[i - 1] \o ss[i]]
             c == CHOOSE h_ : h_ = Body(h_)
             d == [i \in 1 .. Len(ss) |-> f[i]]
  <2>1. d = Body(d)
    <3>1. ASSUME NEW i \in 1 .. Len(ss) PROVE d[i] = IF i = 1 THEN ss[i] ELSE d[i - 1] \o ss[i]
      <4>1. f[i] = f[i - 1] \o ss[i]
        BY <1>7 DEF N
      <4>2. CASE i = 1
        <5>0. i - 1 = 0
          BY <4>2
        <5>1. f[1] = <<>> \o ss[1] /\ ss[1] \in Seq(S)
          BY <4>1, <4>2, <5>0, <1>8, <1>1, Zenon DEF N
        <5>2. f[1] = ss[1]
          BY <5>1, ConcatEmptySeq
        <5> QED BY <4>2, <5>2
      <4>3. CASE i # 1
        <5>1. i - 1 \in 1 .. Len(ss)
          BY <4>3, <1>1 DEF N
        <5> QED BY <4>1, <4>3, <5>1
      <4> QED BY <4>2, <4>3
    <3> QED BY <3>1
  <2>2. c = Body(c)
    <3> HIDE DEF d
    <3> QED BY <2>1
  <2>3. FlattenSeq(ss) = c[Len(ss)]
    BY <1>11 DEF FlattenSeq, N
  <2>4. \A i \in 1 .. Len(ss) : c[i] = IF i = 1 THEN ss[i] ELSE c[i - 1] \o ss[i]
    <3> DEFINE k == Body(c)
    <3>1. \A i \in 1 .. Len(ss) : k[i] = IF i = 1 THEN ss[i] ELSE c[i - 1] \o ss[i]
      OBVIOUS
    <3>2. c = k
      BY <2>2
    <3> HIDE DEF c, k
    <3> QED BY <3>1, <3>2
  <2> HIDE DEF c
  <2> DEFINE T == {n \in Nat : n + 1 <= N => c[n + 1] = f[n + 1]}
  <2>5. 0 \in T
    <3>1. 1 \in 1 .. N /\ 1 \in 1 .. Len(ss)
      BY <1>1, <1>11 DEF N
    <3>2. f[1] = f[0] \o ss[1] /\ ss[1] \in Seq(S)
      <4>1. f[1] = f[1 - 1] \o ss[1]
        BY <1>7, <3>1, Zenon
      <4>2. 1 - 1 = 0
        OBVIOUS
      <4> QED BY <4>1, <4>2, <1>1, <3>1, Zenon
    <3>3. f[1] = ss[1]
      BY <1>8, <3>2, ConcatEmptySeq
    <3>4. c[1] = ss[1]
      BY <2>4, <3>1
    <3> QED BY <3>3, <3>4
  <2>6. ASSUME NEW n \in T PROVE n + 1 \in T
    <3>1. SUFFICES ASSUME n + 1 + 1 <= N PROVE c[n + 1 + 1] = f[n + 1 + 1]
      OBVIOUS
    <3>2. n \in Nat /\ n + 1 <= N /\ c[n + 1] = f[n + 1]
      BY <3>1, <1>1
    <3> DEFINE i == n + 1 + 1
    <3>3. i \in 1 .. N /\ i # 1 /\ i - 1 = n + 1
      BY <3>1, <3>2, <1>1
    <3>0. n + 1 + 1 = i
      OBVIOUS
    <3> HIDE DEF i
    <3>4. f[i] = f[i - 1] \o ss[i]
      BY <3>3, <1>7, Zenon
    <3>5. c[i] = c[i - 1] \o ss[i]
      BY <3>3, <2>4, Zenon DEF N
    <3> QED BY <3>0, <3>2, <3>3, <3>4, <3>5, Zenon
  <2>7. T = Nat
    <3>1. T \subseteq Nat
      OBVIOUS
    <3> HIDE DEF T
    <3> QED BY <2>5, <2>6, <3>1, ByInduction
  <2>8. N - 1 \in Nat /\ N - 1 + 1 = N /\ N <= N
    BY <1>1, <1>11
  <2>9. c[N] = f[N]
    <3>1. \A n \in Nat : n + 1 <= N => c[n + 1] = f[n + 1]
      BY <2>7
    <3>2. c[N - 1 + 1] = f[N - 1 + 1]
      BY <2>8, <3>1, Zenon
    <3> QED BY <2>8, <3>2, Zenon
  <2> QED BY <1>9, <2>3, <2>9 DEF N
<1> QED BY <1>10, <1>11

(***************************************************************************)
(* Sequences in one, appended and joined.                                  *)
(***************************************************************************)
LEMMA FlattenJoined ==
  ASSUME NEW S, NEW ss \in Seq(Seq(S)), NEW tt \in Seq(Seq(S))
  PROVE  /\ FlattenSeq(ss) \in Seq(S)
         /\ FlattenSeq(ss \o tt) = FlattenSeq(ss) \o FlattenSeq(tt)
<1>0. Len(ss) \in Nat /\ Len(tt) \in Nat
  BY LenProperties
<1>1. /\ ss \o tt \in Seq(Seq(S)) /\ Len(ss \o tt) = Len(ss) + Len(tt)
      /\ \A i \in 1 .. Len(ss) + Len(tt) : (ss \o tt)[i] = IF i <= Len(ss) THEN ss[i] ELSE tt[i - Len(ss)]
  BY ConcatProperties
<1>2. PICK f : Flattens(f, ss, S) /\ FlattenSeq(ss) = f[Len(ss)]
  BY FlattenIs
<1>3. PICK g : Flattens(g, tt, S) /\ FlattenSeq(tt) = g[Len(tt)]
  BY FlattenIs
<1>4. PICK k : Flattens(k, ss \o tt, S) /\ FlattenSeq(ss \o tt) = k[Len(ss \o tt)]
  BY <1>1, FlattenIs
<1>5. f[Len(ss)] \in Seq(S) /\ \A n \in 0 .. Len(tt) : g[n] \in Seq(S)
  <2>1. f \in [0 .. Len(ss) -> Seq(S)] /\ g \in [0 .. Len(tt) -> Seq(S)]
    BY <1>2, <1>3, Zenon DEF Flattens
  <2>2. Len(ss) \in 0 .. Len(ss)
    BY <1>0
  <2> HIDE <1>2, <1>3
  <2> QED BY <2>1, <2>2, Zenon
<1>6. k[Len(ss)] = f[Len(ss)]
  <2> DEFINE both == ss \o tt
  <2>1. \A n \in 1 .. Len(ss) : ss[n] = both[n]
    BY <1>0, <1>1
  <2>2. Len(ss) <= Len(both) /\ Len(ss) <= Len(ss) /\ both \in Seq(Seq(S))
    BY <1>0, <1>1
  <2>3. Flattens(f, ss, S) /\ Flattens(k, both, S)
    BY <1>2, <1>4
  <2> HIDE DEF both
  <2>4. f[Len(ss)] = k[Len(ss)]
    BY <1>0, <2>1, <2>2, <2>3, FlattensAlike, SMTT(30)
  <2> QED BY <2>4
<1> DEFINE T == {n \in Nat : n <= Len(tt) => k[Len(ss) + n] = f[Len(ss)] \o g[n]}
<1>7. 0 \in T
  <2>1. g[0] = <<>>
    BY <1>3 DEF Flattens
  <2>2. f[Len(ss)] \o <<>> = f[Len(ss)]
    BY <1>5, ConcatEmptySeq
  <2>3. Len(ss) + 0 = Len(ss)
    BY <1>0
  <2> QED BY <1>6, <2>1, <2>2, <2>3
<1>8. ASSUME NEW n \in T PROVE n + 1 \in T
  <2>0. n \in Nat /\ n + 1 \in Nat /\ (n <= Len(tt) => k[Len(ss) + n] = f[Len(ss)] \o g[n])
    <3>1. n \in Nat /\ (n <= Len(tt) => k[Len(ss) + n] = f[Len(ss)] \o g[n])
      BY Zenon
    <3> HIDE DEF T
    <3>2. \A j \in Nat : j + 1 \in Nat
      OBVIOUS
    <3> QED BY <3>1, <3>2, Zenon
  <2> DEFINE m == n + 1
             i == Len(ss) + m
             both == ss \o tt
             l == Len(ss) + n
  <2>1. ASSUME m <= Len(tt) PROVE k[i] = f[Len(ss)] \o g[m]
    <3>1. m \in 1 .. Len(tt) /\ n \in 0 .. Len(tt) /\ n <= Len(tt)
      BY <1>0, <2>0, <2>1
    <3>2. /\ i \in 1 .. Len(ss \o tt) /\ i = Len(ss) + n + 1 /\ Len(ss) + n \in Nat
          /\ ~(i <= Len(ss)) /\ i - Len(ss) = m /\ i \in 1 .. Len(ss) + Len(tt)
      BY <1>0, <1>1, <2>0, <2>1
    <3>3. g[m] = g[n] \o tt[m]
      <4>1. m = n + 1
        OBVIOUS
      <4> HIDE DEF m
      <4> QED BY <1>3, <2>0, <3>1, <4>1, FlattensNext, ZenonT(40)
    <3>4. k[Len(ss) + n] = f[Len(ss)] \o g[n]
      BY <2>0, <3>1
    <3>0. /\ l \in Nat /\ i = l + 1 /\ i \in 1 .. Len(both) /\ both \in Seq(Seq(S))
          /\ Flattens(k, both, S) /\ k[l] = k[Len(ss) + n] /\ both[i] = (ss \o tt)[i]
      BY <1>1, <1>4, <3>2
    <3> HIDE DEF m, i, both, l
    <3>10. k[i] = k[l] \o both[i]
      <4>1. l \in Nat /\ i = l + 1 /\ i \in 1 .. Len(both)
        BY <3>0, Zenon
      <4>2. Flattens(k, both, S)
        BY <3>0, Zenon
      <4>3. both \in Seq(Seq(S))
        BY <3>0, Zenon
      <4> HIDE <3>0
      <4> QED BY <4>1, <4>2, <4>3, FlattensNext, ZenonT(60)
    <3>5. k[i] = k[Len(ss) + n] \o (ss \o tt)[i]
      BY <3>0, <3>10, Zenon
    <3>6. (ss \o tt)[i] = tt[m]
      <4>1. (ss \o tt)[i] = IF i <= Len(ss) THEN ss[i] ELSE tt[i - Len(ss)]
        BY <1>1, <3>2, Zenon
      <4> QED BY <3>2, <4>1, Zenon
    <3>7. tt[m] \in Seq(S) /\ g[n] \in Seq(S) /\ f[Len(ss)] \in Seq(S)
      BY <1>5, <3>1, ElementOfSeq, Zenon
    <3>8. (f[Len(ss)] \o g[n]) \o tt[m] = f[Len(ss)] \o (g[n] \o tt[m])
      <4> DEFINE x == f[Len(ss)]
                 y == g[n]
                 z == tt[m]
      <4>1. x \in Seq(S) /\ y \in Seq(S) /\ z \in Seq(S)
        BY <3>7, Zenon
      <4> HIDE DEF x, y, z
      <4>2. (x \o y) \o z = x \o (y \o z)
        BY <4>1, ConcatAssociative
      <4> QED BY <4>2, Zenon DEF x, y, z
    <3> QED BY <3>3, <3>4, <3>5, <3>6, <3>8, Zenon
  <2> QED BY <2>0, <2>1
<1>9. T = Nat
  <2>1. T \subseteq Nat
    OBVIOUS
  <2> HIDE DEF T
  <2> QED BY <1>7, <1>8, <2>1, ByInduction
<1>10. k[Len(ss) + Len(tt)] = f[Len(ss)] \o g[Len(tt)]
  <2>1. \A n \in Nat : n <= Len(tt) => k[Len(ss) + n] = f[Len(ss)] \o g[n]
    BY <1>9
  <2>2. Len(tt) <= Len(tt)
    BY <1>0
  <2> QED BY <1>0, <2>1, <2>2, Zenon
<1> QED BY <1>1, <1>2, <1>3, <1>4, <1>5, <1>10, Zenon

(***************************************************************************)
(* One sequence, and none.                                                 *)
(***************************************************************************)
LEMMA FlattenOne ==
  ASSUME NEW S, NEW s \in Seq(S)
  PROVE  FlattenSeq(<<s>>) = s /\ FlattenSeq(<<>>) = <<>>
<1>1. <<s>> \in Seq(Seq(S)) /\ Len(<<s>>) = 1 /\ <<s>>[1] = s
  OBVIOUS
<1>2. PICK f : Flattens(f, <<s>>, S) /\ FlattenSeq(<<s>>) = f[Len(<<s>>)]
  BY <1>1, FlattenIs
<1>3. 1 \in 1 .. Len(<<s>>) /\ f[0] = <<>>
  BY <1>1, <1>2 DEF Flattens
<1>4. f[1] = f[1 - 1] \o <<s>>[1]
  BY <1>2, <1>3 DEF Flattens
<1>5. f[1] = <<>> \o s
  BY <1>1, <1>3, <1>4
<1>6. f[1] = s
  BY <1>5, ConcatEmptySeq
<1>7. FlattenSeq(<<>>) = <<>>
  BY DEF FlattenSeq
<1> QED BY <1>1, <1>2, <1>6, <1>7

\* The values of e, one for each element of p.
Mapped(e, p) == [i \in DOMAIN p |-> e[p[i]]]
\* e maps each element of P to a sequence of S.
Maps(e, P, S) == e \in [P -> Seq(S)]

(***************************************************************************)
(* What a value for each element amounts to, over sequences in one.        *)
(***************************************************************************)
LEMMA FlattenMapped ==
  ASSUME NEW S, NEW P, NEW e, Maps(e, P, S), NEW p \in Seq(P), NEW q \in Seq(P)
  PROVE  /\ FlattenSeq(Mapped(e, p)) \in Seq(S)
         /\ FlattenSeq(Mapped(e, Cat(p, q))) = Cat(FlattenSeq(Mapped(e, p)), FlattenSeq(Mapped(e, q)))
<1>0. e \in [P -> Seq(S)]
  BY DEF Maps
<1>1. ASSUME NEW r \in Seq(P)
      PROVE  /\ Mapped(e, r) \in Seq(Seq(S)) /\ Len(Mapped(e, r)) = Len(r)
             /\ \A i \in 1 .. Len(r) : Mapped(e, r)[i] = e[r[i]]
  <2>1. Len(r) \in Nat /\ DOMAIN r = 1 .. Len(r) /\ \A i \in 1 .. Len(r) : r[i] \in P
    BY LenProperties, ElementOfSeq
  <2>2. \A i \in 1 .. Len(r) : e[r[i]] \in Seq(S)
    BY <1>0, <2>1
  <2>3. Mapped(e, r) = [i \in 1 .. Len(r) |-> e[r[i]]]
    BY <2>1 DEF Mapped
  <2>4. [i \in 1 .. Len(r) |-> e[r[i]]] \in Seq(Seq(S))
    BY <2>1, <2>2
  <2>5. Len([i \in 1 .. Len(r) |-> e[r[i]]]) = Len(r)
    BY <2>1
  <2> QED BY <2>3, <2>4, <2>5
<1>2. /\ p \o q \in Seq(P) /\ Len(p \o q) = Len(p) + Len(q)
      /\ \A i \in 1 .. Len(p) + Len(q) : (p \o q)[i] = IF i <= Len(p) THEN p[i] ELSE q[i - Len(p)]
      /\ Len(p) \in Nat /\ Len(q) \in Nat
  BY ConcatProperties, LenProperties
<1> DEFINE a == Mapped(e, p)
           b == Mapped(e, q)
           c == Mapped(e, p \o q)
<1>3. /\ a \in Seq(Seq(S)) /\ Len(a) = Len(p) /\ \A i \in 1 .. Len(p) : a[i] = e[p[i]]
      /\ b \in Seq(Seq(S)) /\ Len(b) = Len(q) /\ \A i \in 1 .. Len(q) : b[i] = e[q[i]]
      /\ c \in Seq(Seq(S)) /\ Len(c) = Len(p \o q) /\ \A i \in 1 .. Len(p \o q) : c[i] = e[(p \o q)[i]]
  BY <1>1, <1>2
<1> HIDE DEF a, b, c
<1>4. /\ a \o b \in Seq(Seq(S)) /\ Len(a \o b) = Len(a) + Len(b)
      /\ \A i \in 1 .. Len(a) + Len(b) : (a \o b)[i] = IF i <= Len(a) THEN a[i] ELSE b[i - Len(a)]
  <2>1. a \in Seq(Seq(S)) /\ b \in Seq(Seq(S))
    BY <1>3, Zenon
  <2> QED BY <2>1, ConcatProperties, Zenon
<1>5. ASSUME NEW i \in 1 .. Len(p) + Len(q) PROVE c[i] = (a \o b)[i]
  <2>0. i \in 1 .. Len(p \o q) /\ i \in 1 .. Len(a) + Len(b)
    BY <1>2, <1>3, Zenon
  <2>1. CASE i <= Len(p)
    <3>1. i \in 1 .. Len(p) /\ i <= Len(a)
      BY <2>1, <1>2, <1>3
    <3>2. (p \o q)[i] = p[i]
      BY <2>1, <1>2, Zenon
    <3>3. (a \o b)[i] = a[i]
      BY <2>0, <3>1, <1>4, Zenon
    <3> QED BY <2>0, <3>1, <3>2, <3>3, <1>3, Zenon
  <2>2. CASE ~(i <= Len(p))
    <3>1. i - Len(p) \in 1 .. Len(q)
      BY <2>2, <1>2
    <3>2. (p \o q)[i] = q[i - Len(p)]
      BY <2>2, <1>2, Zenon
    <3>3. (a \o b)[i] = b[i - Len(p)]
      <4>1. ~(i <= Len(a)) /\ Len(a) = Len(p)
        BY <2>2, <1>3, Zenon
      <4>2. (a \o b)[i] = IF i <= Len(a) THEN a[i] ELSE b[i - Len(a)]
        BY <2>0, <1>4, Zenon
      <4> QED BY <4>1, <4>2, Zenon
    <3> QED BY <2>0, <3>1, <3>2, <3>3, <1>3, Zenon
  <2> QED BY <2>1, <2>2
<1>6. c = a \o b
  <2>1. /\ c \in Seq(Seq(S)) /\ a \o b \in Seq(Seq(S)) /\ Len(c) = Len(a \o b)
        /\ Len(c) = Len(p) + Len(q)
    BY <1>2, <1>3, <1>4, Zenon
  <2>2. \A i \in 1 .. Len(c) : c[i] = (a \o b)[i]
    BY <2>1, <1>5, Zenon
  <2> QED BY <2>1, <2>2, SeqEqual, Zenon
<1>7. FlattenSeq(a) \in Seq(S) /\ FlattenSeq(a \o b) = FlattenSeq(a) \o FlattenSeq(b)
  BY <1>3, FlattenJoined
<1> QED BY <1>6, <1>7 DEF a, b, c, Cat

(***************************************************************************)
(* The same of one element, and of none.                                   *)
(***************************************************************************)
LEMMA FlattenMappedOne ==
  ASSUME NEW S, NEW P, NEW e, Maps(e, P, S), NEW x \in P
  PROVE  FlattenSeq(Mapped(e, <<x>>)) = e[x] /\ FlattenSeq(Mapped(e, <<>>)) = <<>>
<1>1. e[x] \in Seq(S)
  BY DEF Maps
<1>2. Mapped(e, <<x>>) = <<e[x]>>
  BY DEF Mapped
<1>3. Mapped(e, <<>>) = <<>>
  BY DEF Mapped
<1>4. FlattenSeq(<<e[x]>>) = e[x] /\ FlattenSeq(<<>>) = <<>>
  BY <1>1, FlattenOne
<1> QED BY <1>2, <1>3, <1>4
\* "<k" at i, and a whole closing tag at i.
Opens(b, i) == i \in Nat \ {0} /\ i + 1 <= Len(b) /\ b[i] = "<" /\ b[i + 1] = "k"
\* The name of a closing tag at i, and a whole closing tag.
ClosesName(b, i) ==
  i \in Nat \ {0} /\ i + 2 <= Len(b) /\ b[i] = "<" /\ b[i + 1] = "/" /\ b[i + 2] = "k"
Closes(b, i) == ClosesName(b, i) /\ i + 3 <= Len(b) /\ b[i + 3] = ">"

\* b has a tag from i to j, in the mode in.
Tag(b, in, i, j) ==
  IF in THEN Closes(b, i) /\ j = i + 3
  ELSE /\ Opens(b, i) /\ j \in Nat /\ i + 2 <= j /\ j <= Len(b) /\ b[j] = ">"
       /\ \A x \in i + 2 .. j - 1 : b[x] # ">"
       /\ j = i + 2 \/ b[i + 2] = "s" \/ (j = i + 3 /\ b[i + 2] = "/")

\* The first of them.
FirstTag(b, in, i, j) == Tag(b, in, i, j) /\ \A x, y : Tag(b, in, x, y) => i <= x
\* A text without a tag of the mode.
NoTag(b, in) == \A x, y : ~Tag(b, in, x, y)

(***************************************************************************)
(* What HasAt() says, character by character.                              *)
(***************************************************************************)
LEMMA HasAtIs ==
  ASSUME NEW b \in Letters, NEW i \in Nat \ {0}, NEW t \in Letters
  PROVE  HasAt(b, i, t) <=> i + Len(t) - 1 <= Len(b) /\ \A x \in 1 .. Len(t) : b[i + x - 1] = t[x]
<1>0. Len(b) \in Nat /\ Len(t) \in Nat
  BY LenProperties DEF Letters
<1> DEFINE e == i + Len(t) - 1
<1>1. CASE ~(e <= Len(b))
  BY <1>1 DEF HasAt
<1>2. CASE e <= Len(b)
  <2>1. \A x \in i .. e : b[x] \in Letter
    BY <1>0, <1>2, ElementOfSeq DEF Letters
  <2>2. i \in Int /\ e \in Int /\ e - i + 1 = Len(t)
    BY <1>0
  <2> HIDE DEF e
  <2>3. /\ SubSeq(b, i, e) \in Seq(Letter) /\ Len(SubSeq(b, i, e)) = (IF i <= e THEN e - i + 1 ELSE 0)
        /\ \A x \in 1 .. e - i + 1 : SubSeq(b, i, e)[x] = b[i + x - 1]
    BY <2>1, <2>2, SubSeqProperties
  <2>4. Len(SubSeq(b, i, e)) = Len(t)
    BY <2>2, <2>3, <1>0
  <2>5. SubSeq(b, i, e) = t <=> \A x \in 1 .. Len(t) : b[i + x - 1] = t[x]
    <3>1. ASSUME SubSeq(b, i, e) = t, NEW x \in 1 .. Len(t) PROVE b[i + x - 1] = t[x]
      BY <3>1, <2>2, <2>3
    <3>2. ASSUME \A x \in 1 .. Len(t) : b[i + x - 1] = t[x] PROVE SubSeq(b, i, e) = t
      <4> DEFINE s == SubSeq(b, i, e)
      <4>1. s \in Seq(Letter) /\ t \in Seq(Letter) /\ Len(s) = Len(t)
        BY <2>3, <2>4 DEF Letters
      <4>2. \A x \in 1 .. Len(s) : s[x] = t[x]
        BY <3>2, <2>2, <2>3, <2>4
      <4> HIDE DEF s
      <4>3. s = t
        BY <4>1, <4>2, SeqEqual
      <4> QED BY <4>3 DEF s
    <3> QED BY <3>1, <3>2
  <2> QED BY <1>2, <2>5 DEF HasAt, e
<1> QED BY <1>1, <1>2

(***************************************************************************)
(* Short sequences.                                                        *)
(***************************************************************************)
LEMMA Tuples ==
  ASSUME NEW S, NEW a \in S, NEW b \in S, NEW c \in S, NEW d \in S
  PROVE  /\ <<a>> \in Seq(S) /\ <<a, b>> \in Seq(S)
         /\ <<a, b, c>> \in Seq(S) /\ <<a, b, c, d>> \in Seq(S)
<1>1. <<a>> \in Seq(S)
  OBVIOUS
<1>2. <<a, b>> \in Seq(S)
  OBVIOUS
<1>3. <<a, b, c>> \in Seq(S)
  OBVIOUS
<1>4. <<a, b, c, d>> \in Seq(S)
  OBVIOUS
<1> QED BY <1>1, <1>2, <1>3, <1>4

(***************************************************************************)
(* The characters of the literals of the splitter.                         *)
(***************************************************************************)
LEMMA LiteralsKnown ==
  /\ Opening \in Letters /\ Len(Opening) = 2 /\ Opening[1] = "<" /\ Opening[2] = "k"
  /\ Closing \in Letters /\ Len(Closing) = 3
  /\ Closing[1] = "<" /\ Closing[2] = "/" /\ Closing[3] = "k"
  /\ "<" \in Letter /\ "/" \in Letter /\ "k" \in Letter /\ ">" \in Letter
<1>7. "<" \in Letter /\ "/" \in Letter /\ "k" \in Letter /\ ">" \in Letter
  BY DEF Letter
<1>1. Opening \in Letters /\ Len(Opening) = 2 /\ Opening[1] = "<" /\ Opening[2] = "k"
  <2>1. Opening \in Letters
    BY <1>7, Tuples, Zenon DEF Opening, Letters
  <2>2. Len(Opening) = 2 /\ Opening[1] = "<" /\ Opening[2] = "k"
    BY DEF Opening
  <2> QED BY <2>1, <2>2
<1>2. Closing \in Letters /\ Len(Closing) = 3 /\ Closing[1] = "<" /\ Closing[2] = "/" /\ Closing[3] = "k"
  <2>1. Closing \in Letters
    BY <1>7, Tuples, Zenon DEF Closing, Letters
  <2>2. Len(Closing) = 3 /\ Closing[1] = "<" /\ Closing[2] = "/" /\ Closing[3] = "k"
    BY DEF Closing
  <2> QED BY <2>1, <2>2
<1> QED BY <1>1, <1>2, <1>7

(***************************************************************************)
(* The same for the literals of the splitter.                              *)
(***************************************************************************)
LEMMA LiteralsAre ==
  ASSUME NEW b \in Letters, NEW i \in Nat \ {0}
  PROVE  /\ HasAt(b, i, Opening) <=> Opens(b, i)
         /\ HasAt(b, i, Closing) <=> ClosesName(b, i)
         /\ HasAt(b, i, Append(Closing, ">")) <=> Closes(b, i)
<1>0. Len(b) \in Nat
  BY LenProperties DEF Letters
<1>1. Opening \in Letters /\ Len(Opening) = 2 /\ Opening[1] = "<" /\ Opening[2] = "k"
  BY LiteralsKnown
<1>2. Closing \in Letters /\ Len(Closing) = 3 /\ Closing[1] = "<" /\ Closing[2] = "/" /\ Closing[3] = "k"
  BY LiteralsKnown
<1>7. ">" \in Letter
  BY LiteralsKnown
<1> DEFINE c == Append(Closing, ">")
<1>3. c \in Letters /\ Len(c) = 4 /\ c[1] = "<" /\ c[2] = "/" /\ c[3] = "k" /\ c[4] = ">"
  <2>1. Closing \in Seq(Letter) /\ ">" \in Letter
    BY <1>2, <1>7 DEF Letters
  <2>2. c \in Seq(Letter) /\ Len(c) = Len(Closing) + 1 /\ c[Len(Closing) + 1] = ">"
        /\ \A x \in 1 .. Len(Closing) : c[x] = Closing[x]
    <3> DEFINE e == ">"
               s == Closing
    <3>1. s \in Seq(Letter) /\ e \in Letter
      BY <2>1
    <3> HIDE DEF e, s
    <3>2. Append(s, e) \in Seq(Letter) /\ Len(Append(s, e)) = Len(s) + 1 /\ Append(s, e)[Len(s) + 1] = e
          /\ \A x \in 1 .. Len(s) : Append(s, e)[x] = s[x]
      BY <3>1, AppendProperties
    <3> QED BY <3>2 DEF e, s
  <2> QED BY <1>2, <2>2 DEF Letters
<1>4. HasAt(b, i, Opening) <=> Opens(b, i)
  <2>1. HasAt(b, i, Opening) <=>
          i + Len(Opening) - 1 <= Len(b) /\ \A x \in 1 .. Len(Opening) : b[i + x - 1] = Opening[x]
    BY <1>1, HasAtIs
  <2>2. (\A x \in 1 .. 2 : b[i + x - 1] = Opening[x]) <=> b[i] = "<" /\ b[i + 1] = "k"
    <3>1. \A x \in 1 .. 2 : x = 1 \/ x = 2
      OBVIOUS
    <3>2. i + 1 - 1 = i /\ i + 2 - 1 = i + 1 /\ 1 \in 1 .. 2 /\ 2 \in 1 .. 2
      OBVIOUS
    <3> QED BY <3>1, <3>2, <1>1
  <2>3. i + 2 - 1 = i + 1
    OBVIOUS
  <2> QED BY <2>1, <2>2, <2>3, <1>1 DEF Opens
<1>5. HasAt(b, i, Closing) <=> ClosesName(b, i)
  <2>1. HasAt(b, i, Closing) <=>
          i + Len(Closing) - 1 <= Len(b) /\ \A x \in 1 .. Len(Closing) : b[i + x - 1] = Closing[x]
    BY <1>2, HasAtIs
  <2>2. (\A x \in 1 .. 3 : b[i + x - 1] = Closing[x]) <=> b[i] = "<" /\ b[i + 1] = "/" /\ b[i + 2] = "k"
    <3>1. \A x \in 1 .. 3 : x = 1 \/ x = 2 \/ x = 3
      OBVIOUS
    <3>2. /\ i + 1 - 1 = i /\ i + 2 - 1 = i + 1 /\ i + 3 - 1 = i + 2
          /\ 1 \in 1 .. 3 /\ 2 \in 1 .. 3 /\ 3 \in 1 .. 3
      OBVIOUS
    <3> QED BY <3>1, <3>2, <1>2
  <2>3. i + 3 - 1 = i + 2
    OBVIOUS
  <2> QED BY <2>1, <2>2, <2>3, <1>2 DEF ClosesName
<1>6. HasAt(b, i, c) <=> Closes(b, i)
  <2> HIDE DEF c
  <2>1. HasAt(b, i, c) <=> i + Len(c) - 1 <= Len(b) /\ \A x \in 1 .. Len(c) : b[i + x - 1] = c[x]
    BY <1>3, HasAtIs
  <2>2. (\A x \in 1 .. 4 : b[i + x - 1] = c[x])
          <=> b[i] = "<" /\ b[i + 1] = "/" /\ b[i + 2] = "k" /\ b[i + 3] = ">"
    <3>1. \A x \in 1 .. 4 : x = 1 \/ x = 2 \/ x = 3 \/ x = 4
      OBVIOUS
    <3>2. /\ i + 1 - 1 = i /\ i + 2 - 1 = i + 1 /\ i + 3 - 1 = i + 2 /\ i + 4 - 1 = i + 3
          /\ 1 \in 1 .. 4 /\ 2 \in 1 .. 4 /\ 3 \in 1 .. 4 /\ 4 \in 1 .. 4
      OBVIOUS
    <3> QED BY <3>1, <3>2, <1>3
  <2>3. i + 4 - 1 = i + 3 /\ (i + 3 <= Len(b) => i + 2 <= Len(b))
    BY <1>0
  <2> QED BY <2>1, <2>2, <2>3, <1>3 DEF Closes, ClosesName
<1> QED BY <1>4, <1>5, <1>6

(***************************************************************************)
(* The tags of a text.                                                     *)
(***************************************************************************)
LEMMA TagsAre ==
  ASSUME NEW b \in Letters, NEW in \in BOOLEAN, NEW t
  PROVE  t \in TagsOf(b, in) <=> \E i, j : t = <<i, j>> /\ Tag(b, in, i, j)
<1>0. Len(b) \in Nat /\ DOMAIN b = 1 .. Len(b)
  BY LenProperties DEF Letters
<1>1. \A i \in DOMAIN b : i \in Nat \ {0}
  BY <1>0
<1>2. CASE in
  <2>1. \A i : i \in Places(b, Append(Closing, ">")) <=> Closes(b, i)
    <3>1. \A i \in DOMAIN b : HasAt(b, i, Append(Closing, ">")) <=> Closes(b, i)
      BY <1>1, LiteralsAre
    <3>2. \A i : Closes(b, i) => i \in DOMAIN b
      BY <1>0 DEF Closes, ClosesName
    <3> QED BY <3>1, <3>2 DEF Places
  <2>2. t \in CloseTags(b) <=> \E i : Closes(b, i) /\ t = <<i, i + 3>>
    BY <2>1 DEF CloseTags
  <2>3. TagsOf(b, in) = CloseTags(b)
    BY <1>2 DEF TagsOf
  <2>4. \A i, j : Tag(b, in, i, j) <=> Closes(b, i) /\ j = i + 3
    BY <1>2 DEF Tag
  <2> QED BY <2>2, <2>3, <2>4
<1>3. CASE ~in
  <2>1. \A i : i \in Places(b, Opening) <=> Opens(b, i)
    <3>1. \A i \in DOMAIN b : HasAt(b, i, Opening) <=> Opens(b, i)
      BY <1>1, LiteralsAre
    <3>2. \A i : Opens(b, i) => i \in DOMAIN b
      BY <1>0 DEF Opens
    <3> QED BY <3>1, <3>2 DEF Places
  <2>2. TagsOf(b, in) = OpenTags(b)
    BY <1>3 DEF TagsOf
  <2>3. \A i, j : Tag(b, in, i, j) <=>
          /\ i \in Places(b, Opening) /\ j \in DOMAIN b
          /\ i + 2 <= j /\ b[j] = ">"
          /\ \A x \in i + 2 .. j - 1 : b[x] # ">"
          /\ j = i + 2 \/ b[i + 2] = "s" \/ (j = i + 3 /\ b[i + 2] = "/")
    <3>1. \A i, j : i \in Nat \ {0} /\ i + 2 <= j => (j \in DOMAIN b <=> j \in Nat /\ j <= Len(b))
      BY <1>0
    <3>2. \A i : Opens(b, i) => i \in Nat \ {0}
      BY DEF Opens
    <3> QED BY <3>1, <3>2, <2>1, <1>3 DEF Tag
  <2>4. t \in OpenTags(b) <=> \E i \in Places(b, Opening), j \in DOMAIN b :
          /\ t = <<i, j>>
          /\ i + 2 <= j /\ b[j] = ">"
          /\ \A x \in i + 2 .. j - 1 : b[x] # ">"
          /\ j = i + 2 \/ b[i + 2] = "s" \/ (j = i + 3 /\ b[i + 2] = "/")
    BY DEF OpenTags
  <2> QED BY <2>2, <2>3, <2>4
<1> QED BY <1>2, <1>3

(***************************************************************************)
(* Where a tag is, and that it has one end.                                *)
(***************************************************************************)
LEMMA TagWithin ==
  ASSUME NEW b \in Letters, NEW in \in BOOLEAN, NEW i, NEW j, Tag(b, in, i, j)
  PROVE  /\ i \in 1 .. Len(b) /\ j \in i + 2 .. Len(b) /\ Len(b) \in Nat
         /\ \A y : Tag(b, in, i, y) => y = j
<1>0. Len(b) \in Nat
  BY LenProperties DEF Letters
<1>1. CASE in
  BY <1>0, <1>1 DEF Tag, Closes, ClosesName
<1>2. CASE ~in
  <2>1. i \in 1 .. Len(b) /\ j \in i + 2 .. Len(b)
    BY <1>0, <1>2 DEF Tag, Opens
  <2>2. ASSUME NEW y, Tag(b, in, i, y) PROVE y = j
    <3>1. y \in i + 2 .. Len(b) /\ b[y] = ">" /\ b[j] = ">"
      BY <1>0, <1>2, <2>2 DEF Tag, Opens
    <3>2. (\A x \in i + 2 .. j - 1 : b[x] # ">") /\ (\A x \in i + 2 .. y - 1 : b[x] # ">")
      BY <1>2, <2>2 DEF Tag
    <3>3. ~(y < j)
      <4>1. y < j => y \in i + 2 .. j - 1
        BY <2>1, <3>1
      <4> QED BY <4>1, <3>1, <3>2
    <3>4. ~(j < y)
      <4>1. j < y => j \in i + 2 .. y - 1
        BY <2>1, <3>1
      <4> QED BY <4>1, <3>1, <3>2
    <3> QED BY <2>1, <3>1, <3>3, <3>4
  <2> QED BY <1>0, <2>1, <2>2
<1> QED BY <1>1, <1>2

(***************************************************************************)
(* First() is the first tag, if there is one.                              *)
(***************************************************************************)
LEMMA FirstIs ==
  ASSUME NEW b \in Letters, NEW in \in BOOLEAN
  PROVE  /\ \A i, j : FirstTag(b, in, i, j) => TagsOf(b, in) # {} /\ First(TagsOf(b, in)) = <<i, j>>
         /\ TagsOf(b, in) # {} => \E i, j : FirstTag(b, in, i, j)
         /\ TagsOf(b, in) = {} <=> NoTag(b, in)
<1> DEFINE tags == TagsOf(b, in)
<1>1. \A t : t \in tags <=> \E i, j : t = <<i, j>> /\ Tag(b, in, i, j)
  BY TagsAre
<1> HIDE DEF tags
<1>2. ASSUME NEW i, NEW j, FirstTag(b, in, i, j) PROVE tags # {} /\ First(tags) = <<i, j>>
  <2>1. <<i, j>> \in tags
    BY <1>1, <1>2 DEF FirstTag
  <2>2. \A u \in tags : i <= u[1]
    BY <1>1, <1>2 DEF FirstTag
  <2>3. ASSUME NEW t \in tags, \A u \in tags : t[1] <= u[1] PROVE t = <<i, j>>
    <3>1. PICK x, y : t = <<x, y>> /\ Tag(b, in, x, y)
      BY <1>1
    <3>2. x <= i
      <4>1. t[1] <= <<i, j>>[1]
        BY <2>1, <2>3
      <4> QED BY <3>1, <4>1
    <3>3. i <= x
      BY <2>2, <3>1
    <3>4. x \in Nat /\ i \in Nat
      BY <3>1, <1>2, TagWithin DEF FirstTag
    <3>5. x = i
      BY <3>2, <3>3, <3>4
    <3>6. y = j
      BY <3>1, <3>5, <1>2, TagWithin DEF FirstTag
    <3> QED BY <3>1, <3>5, <3>6
  <2>4. \A u \in tags : <<i, j>>[1] <= u[1]
    BY <2>2
  <2>5. First(tags) \in tags /\ \A u \in tags : First(tags)[1] <= u[1]
    BY <2>1, <2>4 DEF First
  <2> QED BY <2>1, <2>3, <2>5
<1>3. ASSUME tags # {} PROVE \E i, j : FirstTag(b, in, i, j)
  <2> DEFINE T == {i \in Nat : \E j : Tag(b, in, i, j)}
  <2>1. \A i, j : Tag(b, in, i, j) => i \in Nat
    BY TagWithin
  <2>2. T # {} /\ T \in SUBSET Nat
    BY <1>1, <1>3, <2>1
  <2>3. \A i, j : Tag(b, in, i, j) => i \in T
    BY <2>1
  <2>4. \A i \in T : \E j : Tag(b, in, i, j)
    OBVIOUS
  <2> HIDE DEF T
  <2>5. PICK i \in T : \A x \in T : i <= x
    BY <2>2, LeastOf
  <2>6. PICK j : Tag(b, in, i, j)
    BY <2>4
  <2> QED BY <2>3, <2>5, <2>6 DEF FirstTag
<1>4. tags = {} <=> NoTag(b, in)
  BY <1>1 DEF NoTag
<1> QED BY <1>2, <1>3, <1>4 DEF tags

(***************************************************************************)
(* Tags of a joined text.                                                  *)
(***************************************************************************)
LEMMA TagsJoined ==
  ASSUME NEW u \in Letters, NEW v \in Letters, NEW in \in BOOLEAN
  PROVE  /\ \A i, j : Tag(u, in, i, j) => Tag(u \o v, in, i, j)
         /\ \A i, j : Tag(u \o v, in, i, j) /\ j <= Len(u) => Tag(u, in, i, j)
         /\ \A i, j : i \in Nat /\ j \in Nat => (Tag(v, in, i, j) => Tag(u \o v, in, Len(u) + i, Len(u) + j))
         /\ \A i, j : Tag(u \o v, in, i, j) /\ i > Len(u) => Tag(v, in, i - Len(u), j - Len(u))
<1>0. Len(u) \in Nat /\ Len(v) \in Nat
  BY LenProperties DEF Letters
<1> DEFINE b == u \o v
<1>1. /\ b \in Letters /\ Len(b) = Len(u) + Len(v)
      /\ \A i \in 1 .. Len(u) + Len(v) : b[i] = IF i <= Len(u) THEN u[i] ELSE v[i - Len(u)]
  BY ConcatProperties DEF Letters
<1> HIDE DEF b
<1>2. \A i \in 1 .. Len(u) : b[i] = u[i]
  BY <1>0, <1>1
<1>3. \A i \in 1 .. Len(v) : b[Len(u) + i] = v[i]
  <2>1. ASSUME NEW i \in 1 .. Len(v) PROVE b[Len(u) + i] = v[i]
    <3>1. Len(u) + i \in 1 .. Len(u) + Len(v) /\ ~(Len(u) + i <= Len(u)) /\ Len(u) + i - Len(u) = i
      BY <1>0
    <3> QED BY <3>1, <1>1
  <2> QED BY <2>1
<1>4. ASSUME NEW i, NEW j, Tag(u, in, i, j) PROVE Tag(b, in, i, j)
  <2>1. i \in 1 .. Len(u) /\ j \in i + 2 .. Len(u)
    BY <1>4, TagWithin
  <2>2. \A x \in i .. j : b[x] = u[x]
    BY <1>0, <1>2, <2>1
  <2>3. CASE in
    BY <1>4, <2>1, <2>2, <2>3, <1>0, <1>1 DEF Tag, Closes, ClosesName
  <2>4. CASE ~in
    <3>1. \A x \in i + 2 .. j - 1 : b[x] # ">"
      BY <1>4, <2>1, <2>2, <2>4, <1>0 DEF Tag
    <3> QED BY <3>1, <1>4, <2>1, <2>2, <2>4, <1>0, <1>1 DEF Tag, Opens
  <2> QED BY <2>3, <2>4
<1>5. ASSUME NEW i, NEW j, Tag(b, in, i, j), j <= Len(u) PROVE Tag(u, in, i, j)
  <2>1. i \in 1 .. Len(b) /\ j \in i + 2 .. Len(b)
    BY <1>5, <1>1, TagWithin
  <2>2. \A x \in i .. j : b[x] = u[x]
    BY <1>0, <1>1, <1>2, <1>5, <2>1
  <2>3. CASE in
    BY <1>5, <2>1, <2>2, <2>3, <1>0, <1>1 DEF Tag, Closes, ClosesName
  <2>4. CASE ~in
    <3>1. \A x \in i + 2 .. j - 1 : u[x] # ">"
      BY <1>5, <2>1, <2>2, <2>4, <1>0 DEF Tag
    <3> QED BY <3>1, <1>5, <2>1, <2>2, <2>4, <1>0, <1>1 DEF Tag, Opens
  <2> QED BY <2>3, <2>4
<1>6. ASSUME NEW i \in Nat, NEW j \in Nat, Tag(v, in, i, j) PROVE Tag(b, in, Len(u) + i, Len(u) + j)
  <2>1. i \in 1 .. Len(v) /\ j \in i + 2 .. Len(v)
    BY <1>6, TagWithin
  <2>2. \A x \in i .. j : b[Len(u) + x] = v[x]
    BY <1>0, <1>3, <2>1
  <2>3. CASE in
    <3>0. j = i + 3 /\ i + 3 <= Len(v)
      BY <1>6, <2>3 DEF Tag, Closes
    <3>1. b[Len(u) + i] = v[i] /\ b[Len(u) + (i + 1)] = v[i + 1] /\ b[Len(u) + (i + 2)] = v[i + 2]
          /\ b[Len(u) + (i + 3)] = v[i + 3]
      <4>1. i \in i .. j /\ i + 1 \in i .. j /\ i + 2 \in i .. j /\ i + 3 \in i .. j
        BY <3>0
      <4> QED BY <4>1, <2>2
    <3>2. Len(u) + (i + 1) = Len(u) + i + 1 /\ Len(u) + (i + 2) = Len(u) + i + 2
          /\ Len(u) + (i + 3) = Len(u) + i + 3
      BY <1>0
    <3> QED BY <3>1, <3>2, <1>6, <2>1, <2>3, <1>0, <1>1 DEF Tag, Closes, ClosesName
  <2>4. CASE ~in
    <3>1. ASSUME NEW x \in Len(u) + i + 2 .. Len(u) + j - 1 PROVE b[x] # ">"
      <4>1. x - Len(u) \in i + 2 .. j - 1 /\ Len(u) + (x - Len(u)) = x
        BY <1>0
      <4>2. v[x - Len(u)] # ">"
        BY <4>1, <1>6, <2>4 DEF Tag
      <4>3. x - Len(u) \in i .. j
        BY <4>1, <2>1
      <4> QED BY <4>1, <4>2, <4>3, <2>2
    <3>2. b[Len(u) + i] = v[i] /\ b[Len(u) + (i + 1)] = v[i + 1] /\ b[Len(u) + (i + 2)] = v[i + 2]
          /\ b[Len(u) + j] = v[j]
      <4>1. i \in i .. j /\ i + 1 \in i .. j /\ i + 2 \in i .. j /\ j \in i .. j
        BY <2>1
      <4> QED BY <4>1, <2>2
    <3>3. Len(u) + (i + 1) = Len(u) + i + 1 /\ Len(u) + (i + 2) = Len(u) + i + 2
      BY <1>0
    <3>4. Opens(v, i) /\ v[j] = ">" /\ (j = i + 2 \/ v[i + 2] = "s" \/ (j = i + 3 /\ v[i + 2] = "/"))
      BY <1>6, <2>4 DEF Tag
    <3>5. Opens(b, Len(u) + i)
      <4>1. Len(u) + i \in Nat \ {0} /\ Len(u) + i + 1 <= Len(b)
        BY <2>1, <1>0, <1>1
      <4> QED BY <4>1, <3>2, <3>3, <3>4 DEF Opens
    <3>6. /\ Len(u) + i + 2 <= Len(u) + j /\ Len(u) + j <= Len(b) /\ Len(u) + j \in Nat
          /\ j = i + 2 => Len(u) + j = Len(u) + i + 2
          /\ j = i + 3 => Len(u) + j = Len(u) + i + 3
      BY <2>1, <1>0, <1>1
    <3>7. Len(u) + j = Len(u) + i + 2 \/ b[Len(u) + i + 2] = "s"
            \/ (Len(u) + j = Len(u) + i + 3 /\ b[Len(u) + i + 2] = "/")
      BY <3>2, <3>3, <3>4, <3>6
    <3> QED BY <3>1, <3>2, <3>4, <3>5, <3>6, <3>7, <2>4 DEF Tag
  <2> QED BY <2>3, <2>4
<1>7. ASSUME NEW i, NEW j, Tag(b, in, i, j), i > Len(u) PROVE Tag(v, in, i - Len(u), j - Len(u))
  <2>1. i \in 1 .. Len(b) /\ j \in i + 2 .. Len(b)
    BY <1>7, <1>1, TagWithin
  <2> DEFINE k == i - Len(u)
             l == j - Len(u)
  <2>2. k \in 1 .. Len(v) /\ l \in k + 2 .. Len(v) /\ i = Len(u) + k /\ j = Len(u) + l
    BY <1>0, <1>1, <1>7, <2>1
  <2> HIDE DEF k, l
  <2>3. \A x \in k .. l : b[Len(u) + x] = v[x]
    BY <1>0, <1>3, <2>2
  <2>4. CASE in
    <3>0. j = i + 3
      BY <1>7, <2>4 DEF Tag
    <3>1. b[Len(u) + k] = v[k] /\ b[Len(u) + (k + 1)] = v[k + 1] /\ b[Len(u) + (k + 2)] = v[k + 2]
          /\ b[Len(u) + (k + 3)] = v[k + 3] /\ l = k + 3
      <4>0. l = k + 3
        BY <1>0, <2>2, <3>0
      <4>1. k \in k .. l /\ k + 1 \in k .. l /\ k + 2 \in k .. l /\ k + 3 \in k .. l
        BY <4>0, <2>2
      <4> QED BY <4>0, <4>1, <2>3
    <3>2. Len(u) + (k + 1) = i + 1 /\ Len(u) + (k + 2) = i + 2 /\ Len(u) + (k + 3) = i + 3
      BY <1>0, <2>2
    <3>3. Tag(v, in, k, l)
      BY <3>1, <3>2, <1>7, <2>2, <2>4, <1>0, <1>1 DEF Tag, Closes, ClosesName
    <3> QED BY <3>3 DEF k, l
  <2>5. CASE ~in
    <3>1. ASSUME NEW x \in k + 2 .. l - 1 PROVE v[x] # ">"
      <4>1. Len(u) + x \in i + 2 .. j - 1 /\ x \in k .. l
        BY <1>0, <2>2
      <4>2. b[Len(u) + x] # ">"
        BY <4>1, <1>7, <2>5 DEF Tag
      <4> QED BY <4>1, <4>2, <2>3
    <3>2. b[Len(u) + k] = v[k] /\ b[Len(u) + (k + 1)] = v[k + 1] /\ b[Len(u) + (k + 2)] = v[k + 2]
          /\ b[Len(u) + l] = v[l]
      <4>1. k \in k .. l /\ k + 1 \in k .. l /\ k + 2 \in k .. l /\ l \in k .. l
        BY <2>2
      <4> QED BY <4>1, <2>3
    <3>3. Len(u) + (k + 1) = i + 1 /\ Len(u) + (k + 2) = i + 2
      BY <1>0, <2>2
    <3>4. Tag(v, in, k, l)
      BY <3>1, <3>2, <3>3, <1>7, <2>2, <2>5, <1>0, <1>1 DEF Tag, Opens
    <3> QED BY <3>4 DEF k, l
  <2> QED BY <2>4, <2>5
<1> QED BY <1>4, <1>5, <1>6, <1>7 DEF b
(***************************************************************************)
(* Joined texts.                                                           *)
(***************************************************************************)
LEMMA Joins ==
  ASSUME NEW x \in Letters, NEW y \in Letters, NEW z \in Letters
  PROVE  /\ x \o y \in Letters /\ Len(x \o y) = Len(x) + Len(y)
         /\ Len(x) \in Nat /\ Len(y) \in Nat
         /\ (x \o y) \o z = x \o (y \o z)
<1>1. x \in Seq(Letter) /\ y \in Seq(Letter) /\ z \in Seq(Letter)
  BY DEF Letters
<1>2. (x \o y) \o z = x \o (y \o z)
  BY <1>1, ConcatAssociative
<1>3. x \o y \in Seq(Letter) /\ Len(x \o y) = Len(x) + Len(y)
  BY <1>1, ConcatProperties
<1>4. Len(x) \in Nat /\ Len(y) \in Nat
  BY <1>1, LenProperties
<1> QED BY <1>2, <1>3, <1>4 DEF Letters

(***************************************************************************)
(* Nothing is joined by joining nothing.                                   *)
(***************************************************************************)
LEMMA JoinsNone ==
  ASSUME NEW x \in Letters
  PROVE  x \o <<>> = x /\ <<>> \o x = x /\ <<>> \in Letters /\ Len(<<>>) = 0
BY ConcatEmptySeq, EmptySeq DEF Letters


(***************************************************************************)
(* Joining texts.                                                          *)
(***************************************************************************)
LEMMA CatTyped ==
  ASSUME NEW x \in Letters, NEW y \in Letters
  PROVE  Cat(x, y) \in Letters /\ Len(Cat(x, y)) = Len(x) + Len(y)
BY Joins DEF Cat

(***************************************************************************)
(* Texts may be joined in any grouping.                                    *)
(***************************************************************************)
LEMMA CatCat ==
  ASSUME NEW x \in Letters, NEW y \in Letters, NEW z \in Letters
  PROVE  Cat(Cat(x, y), z) = Cat(x, Cat(y, z))
BY Joins DEF Cat

(***************************************************************************)
(* A text joined with nothing is itself.                                   *)
(***************************************************************************)
LEMMA CatNone ==
  ASSUME NEW x \in Letters
  PROVE  Cat(x, <<>>) = x /\ Cat(<<>>, x) = x
BY JoinsNone DEF Cat

(***************************************************************************)
(* The empty text is a text.                                               *)
(***************************************************************************)
LEMMA NoText == <<>> \in Letters /\ Len(<<>>) = 0
BY EmptySeq DEF Letters

\* What b ends in that may become a tag.
Lone(b) == Len(b) >= 1 /\ b[Len(b)] = "<"
Pair(b) == Len(b) >= 2 /\ b[Len(b) - 1] = "<" /\ b[Len(b)] = "/"
HeldIn(b, in) == IF in /\ Pair(b) THEN 2 ELSE IF Lone(b) THEN 1 ELSE 0

(***************************************************************************)
(* The last characters of a text are a literal's first.                    *)
(***************************************************************************)
LEMMA EndsWith ==
  ASSUME NEW b \in Letters, NEW t \in Letters, NEW n \in 1 .. Len(t), n <= Len(b)
  PROVE  HasAt(b, Len(b) - n + 1, Upto(t, n)) <=> \A x \in 1 .. n : b[Len(b) - n + x] = t[x]
<1>0. Len(b) \in Nat /\ Len(t) \in Nat
  BY LenProperties DEF Letters
<1> DEFINE s == Upto(t, n)
           i == Len(b) - n + 1
<1>1. s \in Letters /\ Len(s) = n /\ \A x \in 1 .. n : s[x] = t[x]
  BY <1>0, UptoIs DEF Letters
<1>2. i \in Nat \ {0} /\ i + n - 1 <= Len(b) /\ \A x \in 1 .. n : i + x - 1 = Len(b) - n + x
  BY <1>0
<1>3. HasAt(b, i, s) <=> i + Len(s) - 1 <= Len(b) /\ \A x \in 1 .. Len(s) : b[i + x - 1] = s[x]
  <2> HIDE DEF i, s
  <2> QED BY <1>1, <1>2, HasAtIs
<1> HIDE DEF i, s
<1>4. HasAt(b, i, s) <=> \A x \in 1 .. n : b[i + x - 1] = t[x]
  BY <1>1, <1>2, <1>3
<1>5. HasAt(b, i, s) <=> \A x \in 1 .. n : b[Len(b) - n + x] = t[x]
  BY <1>2, <1>4
<1> QED BY <1>5 DEF i, s

(***************************************************************************)
(* What is kept of a text is all but these.                                *)
(***************************************************************************)
LEMMA KeptIs ==
  ASSUME NEW b \in Letters, NEW in \in BOOLEAN
  PROVE  KeptOf(b, in) = Len(b) - HeldIn(b, in) /\ KeptOf(b, in) \in 0 .. Len(b)
<1>0. Len(b) \in Nat
  BY LenProperties DEF Letters
<1>1. /\ Opening \in Letters /\ Len(Opening) = 2 /\ Opening[1] = "<"
      /\ Closing \in Letters /\ Len(Closing) = 3 /\ Closing[1] = "<" /\ Closing[2] = "/"
  BY LiteralsKnown
<1>2. ASSUME NEW S, NEW m \in S, S \in SUBSET Nat, \A n \in S : n <= m PROVE Max(S) = m
  <2>1. \A n \in S : m >= n
    BY <1>2
  <2>2. Max(S) \in S /\ \A n \in S : Max(S) >= n
    BY <2>1 DEF Max
  <2>3. Max(S) \in Nat /\ m \in Nat /\ m >= Max(S) /\ Max(S) >= m
    BY <1>2, <2>1, <2>2
  <2> QED BY <2>3
<1>3. ASSUME ~in PROVE KeptOf(b, in) = Len(b) - HeldIn(b, in)
  <2> DEFINE S == {0} \cup {n \in 1 .. Len(Opening) - 1 :
                              n <= Len(b) /\ HasAt(b, Len(b) - n + 1, Upto(Opening, n))}
  <2>1. \A n : n \in S <=> n = 0 \/ (n = 1 /\ Lone(b))
    <3>1. \A n : n \in 1 .. Len(Opening) - 1 <=> n = 1
      BY <1>1
    <3>2. 1 <= Len(b) => (HasAt(b, Len(b) - 1 + 1, Upto(Opening, 1)) <=> Lone(b))
      <4>1. ASSUME 1 <= Len(b) PROVE HasAt(b, Len(b) - 1 + 1, Upto(Opening, 1)) <=> Lone(b)
        <5>1. HasAt(b, Len(b) - 1 + 1, Upto(Opening, 1)) <=>
                \A x \in 1 .. 1 : b[Len(b) - 1 + x] = Opening[x]
          <6>1. 1 \in 1 .. Len(Opening)
            BY <1>1
          <6> QED BY <1>1, <4>1, <6>1, EndsWith
        <5>2. Len(b) - 1 + 1 = Len(b) /\ \A x \in 1 .. 1 : x = 1
          BY <1>0
        <5>3. 1 \in 1 .. 1 /\ Len(b) >= 1
          BY <1>0, <4>1
        <5>4. (\A x \in 1 .. 1 : b[Len(b) - 1 + x] = Opening[x]) <=> b[Len(b)] = "<"
          BY <5>2, <5>3, <1>1
        <5> QED BY <5>1, <5>3, <5>4 DEF Lone
      <4> QED BY <4>1
    <3> QED BY <3>1, <3>2, <1>0 DEF Lone
  <2>2. KeptOf(b, in) = Len(b) - Max(S)
    BY <1>3 DEF KeptOf, trailingPartialTagLength
  <2> HIDE DEF S
  <2>3. Max(S) = HeldIn(b, in)
    <3>1. HeldIn(b, in) \in S /\ S \in SUBSET Nat /\ \A n \in S : n <= HeldIn(b, in)
      BY <1>3, <2>1 DEF HeldIn
    <3> QED BY <3>1, <1>2
  <2> QED BY <2>2, <2>3
<1>4. ASSUME in PROVE KeptOf(b, in) = Len(b) - HeldIn(b, in)
  <2> DEFINE S == {0} \cup {n \in 1 .. Len(Closing) - 1 :
                              n <= Len(b) /\ HasAt(b, Len(b) - n + 1, Upto(Closing, n))}
  <2>1. \A n : n \in S <=> n = 0 \/ (n = 1 /\ Lone(b)) \/ (n = 2 /\ Pair(b))
    <3>1. \A n : n \in 1 .. Len(Closing) - 1 <=> n = 1 \/ n = 2
      BY <1>1
    <3>2. ASSUME 1 <= Len(b) PROVE HasAt(b, Len(b) - 1 + 1, Upto(Closing, 1)) <=> Lone(b)
      <4>1. HasAt(b, Len(b) - 1 + 1, Upto(Closing, 1)) <=>
              \A x \in 1 .. 1 : b[Len(b) - 1 + x] = Closing[x]
        <5>1. 1 \in 1 .. Len(Closing)
          BY <1>1
        <5> QED BY <1>1, <3>2, <5>1, EndsWith
      <4>2. Len(b) - 1 + 1 = Len(b) /\ \A x \in 1 .. 1 : x = 1
        BY <1>0
      <4>3. 1 \in 1 .. 1 /\ Len(b) >= 1
        BY <1>0, <3>2
      <4>4. (\A x \in 1 .. 1 : b[Len(b) - 1 + x] = Closing[x]) <=> b[Len(b)] = "<"
        BY <4>2, <4>3, <1>1
      <4> QED BY <4>1, <4>3, <4>4 DEF Lone
    <3>3. ASSUME 2 <= Len(b) PROVE HasAt(b, Len(b) - 2 + 1, Upto(Closing, 2)) <=> Pair(b)
      <4>1. HasAt(b, Len(b) - 2 + 1, Upto(Closing, 2)) <=>
              \A x \in 1 .. 2 : b[Len(b) - 2 + x] = Closing[x]
        <5>1. 2 \in 1 .. Len(Closing)
          BY <1>1
        <5> QED BY <1>1, <3>3, <5>1, EndsWith
      <4>2. Len(b) - 2 + 1 = Len(b) - 1 /\ Len(b) - 2 + 2 = Len(b) /\ \A x \in 1 .. 2 : x = 1 \/ x = 2
        BY <1>0
      <4>3. 1 \in 1 .. 2 /\ 2 \in 1 .. 2 /\ Len(b) >= 2
        BY <1>0, <3>3
      <4>4. (\A x \in 1 .. 2 : b[Len(b) - 2 + x] = Closing[x]) <=> b[Len(b) - 1] = "<" /\ b[Len(b)] = "/"
        BY <4>2, <4>3, <1>1
      <4> QED BY <4>1, <4>3, <4>4 DEF Pair
    <3> QED BY <3>1, <3>2, <3>3, <1>0 DEF Lone, Pair
  <2>2. KeptOf(b, in) = Len(b) - Max(S)
    BY <1>4 DEF KeptOf, trailingPartialTagLength
  <2> HIDE DEF S
  <2>3. Max(S) = HeldIn(b, in)
    <3>1. HeldIn(b, in) \in S /\ S \in SUBSET Nat /\ \A n \in S : n <= HeldIn(b, in)
      BY <1>4, <2>1 DEF HeldIn
    <3> QED BY <3>1, <1>2
  <2> QED BY <2>2, <2>3
<1>5. HeldIn(b, in) \in 0 .. Len(b)
  BY <1>0 DEF HeldIn, Lone, Pair
<1> QED BY <1>0, <1>3, <1>4, <1>5

\* w is the end of u that is held, and p what is before it.
HoldsBack(p, w, u, in) == p \o w = u /\ Len(w) = HeldIn(u, in)

(***************************************************************************)
(* What was held decides, with what comes, what is held then.              *)
(***************************************************************************)
LEMMA HeldJoined ==
  ASSUME NEW u \in Letters, NEW v \in Letters, NEW p \in Letters, NEW w \in Letters,
         NEW in \in BOOLEAN, HoldsBack(p, w, u, in)
  PROVE  HeldIn(u \o v, in) = HeldIn(w \o v, in)
<1>0. Len(u) \in Nat /\ Len(v) \in Nat /\ Len(p) \in Nat /\ Len(w) \in Nat
  BY LenProperties DEF Letters
<1>4. p \o w = u /\ Len(w) = HeldIn(u, in)
  BY DEF HoldsBack
<1>1. /\ Len(u) = Len(p) + Len(w)
      /\ \A i \in 1 .. Len(p) + Len(w) : u[i] = IF i <= Len(p) THEN p[i] ELSE w[i - Len(p)]
  BY <1>4, ConcatProperties DEF Letters
<1> DEFINE b == u \o v
           c == w \o v
           k == Len(p)
<1>2. k \in Nat /\ Len(u) = k + Len(w)
  BY <1>0, <1>1
<1>3. \A i \in 1 .. Len(w) : w[i] = u[k + i]
  <2>1. ASSUME NEW i \in 1 .. Len(w) PROVE w[i] = u[k + i]
    <3>1. k + i \in 1 .. Len(p) + Len(w) /\ ~(k + i <= Len(p)) /\ k + i - Len(p) = i
      BY <1>0
    <3> QED BY <3>1, <1>1
  <2> QED BY <2>1
<1>6. /\ b \in Letters /\ Len(b) = Len(u) + Len(v)
      /\ \A i \in 1 .. Len(u) + Len(v) : b[i] = IF i <= Len(u) THEN u[i] ELSE v[i - Len(u)]
  BY ConcatProperties DEF Letters
<1>7. /\ c \in Letters /\ Len(c) = Len(w) + Len(v)
      /\ \A i \in 1 .. Len(w) + Len(v) : c[i] = IF i <= Len(w) THEN w[i] ELSE v[i - Len(w)]
  BY ConcatProperties DEF Letters
<1> HIDE DEF b, c, k
<1>8. ASSUME NEW i \in 1 .. Len(c) PROVE c[i] = b[k + i]
  <2>1. k + i \in 1 .. Len(u) + Len(v) /\ i \in 1 .. Len(w) + Len(v)
    BY <1>0, <1>2, <1>7
  <2>2. CASE i <= Len(w)
    <3>1. k + i <= Len(u) /\ i \in 1 .. Len(w)
      BY <2>1, <2>2, <1>0, <1>2
    <3> QED BY <3>1, <2>1, <2>2, <1>3, <1>6, <1>7
  <2>3. CASE ~(i <= Len(w))
    <3>1. ~(k + i <= Len(u)) /\ k + i - Len(u) = i - Len(w)
      BY <2>1, <2>3, <1>0, <1>2
    <3>2. c[i] = v[i - Len(w)]
      BY <2>1, <2>3, <1>7
    <3> DEFINE x == k + i
    <3>3. x \in 1 .. Len(u) + Len(v) /\ ~(x <= Len(u)) /\ x - Len(u) = i - Len(w)
      BY <2>1, <3>1, <1>0, <1>2
    <3>4. b[k + i] = b[x]
      OBVIOUS
    <3> HIDE DEF x
    <3>5. b[x] = v[x - Len(u)]
      BY <3>3, <1>6
    <3>6. b[x] = v[i - Len(w)]
      BY <3>3, <3>5
    <3> QED BY <3>2, <3>4, <3>6
  <2> QED BY <2>2, <2>3
<1>9. Len(b) = k + Len(c) /\ Len(c) \in Nat
  BY <1>0, <1>2, <1>6, <1>7
<1>10. CASE Len(c) >= 2
  <2>1. c[Len(c)] = b[Len(b)] /\ c[Len(c) - 1] = b[Len(b) - 1]
    <3>1. Len(c) \in 1 .. Len(c) /\ Len(c) - 1 \in 1 .. Len(c) /\ k + (Len(c) - 1) = Len(b) - 1
      BY <1>2, <1>9, <1>10
    <3> QED BY <3>1, <1>8, <1>9
  <2>2. Len(b) >= 2 /\ Len(c) >= 1 /\ Len(b) >= 1
    BY <1>2, <1>9, <1>10
  <2>3. HeldIn(b, in) = HeldIn(c, in)
    BY <1>10, <2>1, <2>2 DEF HeldIn, Lone, Pair
  <2> QED BY <2>3 DEF b, c
<1>11. CASE Len(v) = 0
  <2>0. Len(c) = HeldIn(u, in)
    BY <1>11, <1>0, <1>4, <1>7
  <2>1. Len(b) = Len(u) /\ Len(c) = HeldIn(u, in) /\ \A i \in 1 .. Len(u) : b[i] = u[i]
    BY <2>0, <1>11, <1>0, <1>6
  <2>2. HeldIn(b, in) = HeldIn(u, in)
    <3>1. Len(u) >= 1 => b[Len(b)] = u[Len(u)]
      BY <2>1, <1>0
    <3>2. Len(u) >= 2 => b[Len(b) - 1] = u[Len(u) - 1]
      BY <2>1, <1>0
    <3> QED BY <2>1, <3>1, <3>2 DEF HeldIn, Lone, Pair
  <2>4. CASE HeldIn(u, in) = 1
    <3>1. Lone(u) /\ ~(in /\ Pair(u)) /\ Len(w) = 1
      BY <2>4, <1>4 DEF HeldIn
    <3>2. c[1] = b[k + 1] /\ k + 1 = Len(u) /\ Len(c) = 1
      BY <2>1, <2>4, <3>1, <1>2, <1>8, <1>0
    <3>3. c[Len(c)] = "<"
      <4>1. u[Len(u)] = "<" /\ Len(u) \in 1 .. Len(u)
        BY <3>1, <1>0 DEF Lone
      <4>2. b[Len(u)] = "<"
        BY <4>1, <2>1
      <4> QED BY <4>2, <3>2
    <3>4. HeldIn(b, in) = HeldIn(c, in)
      BY <2>1, <2>2, <2>4, <3>2, <3>3 DEF HeldIn, Lone, Pair
    <3> QED BY <3>4 DEF b, c
  <2>5. CASE HeldIn(u, in) = 0
    <3>1. HeldIn(b, in) = HeldIn(c, in)
      BY <2>1, <2>2, <2>5 DEF HeldIn, Lone, Pair
    <3> QED BY <3>1 DEF b, c
  <2>6. CASE HeldIn(u, in) = 2
    <3>1. Len(c) >= 2
      BY <2>1, <2>6
    <3> QED BY <3>1, <1>10
  <2> QED BY <2>4, <2>5, <2>6 DEF HeldIn
<1>12. CASE Len(v) = 1 /\ Len(w) = 0
  <2>1. Len(c) = 1 /\ Len(b) = Len(u) + 1 /\ k = Len(u)
    BY <1>12, <1>0, <1>2, <1>6, <1>7
  <2>2. HeldIn(u, in) = 0
    BY <1>4, <1>12
  <2>3. ~Lone(u)
    BY <2>2 DEF HeldIn
  <2>4. c[1] = b[Len(b)]
    BY <2>1, <1>8
  <2>5. ~Pair(b)
    <3>1. Len(u) >= 1 => b[Len(b) - 1] = u[Len(u)]
      BY <2>1, <1>0, <1>6
    <3> QED BY <3>1, <2>1, <2>3, <1>0 DEF Pair, Lone
  <2>6. HeldIn(b, in) = HeldIn(c, in)
    BY <2>1, <2>4, <2>5, <1>0 DEF HeldIn, Lone, Pair
  <2> QED BY <2>6 DEF b, c
<1>13. Len(c) >= 2 \/ Len(v) = 0 \/ (Len(v) = 1 /\ Len(w) = 0)
  <2>1. Len(c) = Len(w) + Len(v)
    BY <1>7
  <2>2. \A x, y \in Nat : x + y >= 2 \/ y = 0 \/ (y = 1 /\ x = 0)
    OBVIOUS
  <2> QED BY <2>1, <2>2, <1>0
<1> QED BY <1>10, <1>11, <1>12, <1>13

(***************************************************************************)
(* A text that goes on keeps what it kept.                                 *)
(***************************************************************************)
LEMMA KeptJoined ==
  ASSUME NEW u \in Letters, NEW v \in Letters, NEW in \in BOOLEAN
  PROVE  \E p, w \in Letters :
           /\ Len(p) = KeptOf(u, in) /\ p = Upto(u, KeptOf(u, in)) /\ w = From(u, KeptOf(u, in) + 1)
           /\ Cat(p, w) = u /\ Cat(u, v) = Cat(p, Cat(w, v))
           /\ KeptOf(Cat(u, v), in) = Len(p) + KeptOf(Cat(w, v), in)
<1>0. Len(u) \in Nat /\ Len(v) \in Nat
  BY LenProperties DEF Letters
<1> DEFINE k == KeptOf(u, in)
           m == k + 1
           p == Upto(u, k)
           w == From(u, m)
<1>1. k = Len(u) - HeldIn(u, in) /\ k \in 0 .. Len(u) /\ HeldIn(u, in) \in Nat
  <2>1. HeldIn(u, in) \in Nat
    BY DEF HeldIn
  <2> QED BY <2>1, KeptIs
<1> HIDE DEF k
<1>2. m \in 1 .. Len(u) + 1 /\ m = k + 1
  BY <1>0, <1>1
<1> HIDE DEF m
<1>3. p \in Letters /\ Len(p) = k
  BY <1>1, UptoIs DEF Letters
<1>4. w \in Letters
  BY <1>2, FromIs DEF Letters
<1>5. p \o w = u
  BY <1>1, <1>2, UptoFrom DEF Letters
<1> HIDE DEF p, w
<1>6. Len(u) = Len(p) + Len(w) /\ Len(w) \in Nat
  BY <1>3, <1>4, <1>5, ConcatProperties, LenProperties DEF Letters
<1>7. Len(w) = HeldIn(u, in)
  BY <1>0, <1>1, <1>3, <1>6
<1>8. HeldIn(u \o v, in) = HeldIn(w \o v, in)
  <2>1. p \in Letters
    BY <1>3
  <2>2. HoldsBack(p, w, u, in)
    BY <1>5, <1>7 DEF HoldsBack
  <2> QED BY <2>1, <2>2, <1>4, HeldJoined
<1>9. Cat(u, v) = Cat(p, Cat(w, v))
  <2>1. Cat(p, w) = u
    BY <1>5 DEF Cat
  <2> QED BY <1>3, <1>4, <2>1, CatCat
<1>10. KeptOf(u \o v, in) = Len(p) + KeptOf(w \o v, in)
  <2> DEFINE b == u \o v
             c == w \o v
  <2>1. b \in Letters /\ Len(b) = Len(u) + Len(v) /\ c \in Letters /\ Len(c) = Len(w) + Len(v)
    BY <1>4, ConcatProperties DEF Letters
  <2>2. HeldIn(b, in) = HeldIn(c, in)
    BY <1>8
  <2> HIDE DEF b, c
  <2>3. KeptOf(b, in) = Len(b) - HeldIn(b, in) /\ KeptOf(c, in) = Len(c) - HeldIn(c, in)
    BY <2>1, KeptIs
  <2>4. HeldIn(c, in) \in Nat /\ Len(p) \in Nat
    BY <1>0, <1>1, <1>3 DEF HeldIn
  <2>5. KeptOf(b, in) = Len(p) + KeptOf(c, in)
    BY <2>1, <2>2, <2>3, <2>4, <1>0, <1>6
  <2> QED BY <2>5 DEF b, c
<1>11. KeptOf(Cat(u, v), in) = Len(p) + KeptOf(Cat(w, v), in) /\ Cat(p, w) = u
  BY <1>5, <1>10 DEF Cat
<1> QED BY <1>2, <1>3, <1>4, <1>9, <1>11 DEF p, w, k, m

(***************************************************************************)
(* Whether a text is cut in a tag, and that a rest of it that is, is.      *)
(***************************************************************************)
LEMMA CutIs ==
  ASSUME NEW t \in Letters
  PROVE  CutInTag(t) <=> \E i : /\ \A j \in i .. Len(t) : t[j] # ">"
                                /\ Opens(t, i) \/ ClosesName(t, i)
<1>0. Len(t) \in Nat /\ DOMAIN t = 1 .. Len(t)
  BY LenProperties DEF Letters
<1>1. \A i \in DOMAIN t : i \in Nat \ {0}
  BY <1>0
<1>2. \A i \in DOMAIN t : (HasAt(t, i, Opening) <=> Opens(t, i)) /\ (HasAt(t, i, Closing) <=> ClosesName(t, i))
  BY <1>1, LiteralsAre
<1>3. \A i : Opens(t, i) \/ ClosesName(t, i) => i \in DOMAIN t
  BY <1>0 DEF Opens, ClosesName
<1> QED BY <1>2, <1>3 DEF CutInTag

(***************************************************************************)
(* A cut in a tag of the end of a text is a cut in a tag of the text.      *)
(***************************************************************************)
LEMMA CutOfRest ==
  ASSUME NEW u \in Letters, NEW v \in Letters, CutInTag(v)
  PROVE  CutInTag(u \o v)
<1>0. Len(u) \in Nat /\ Len(v) \in Nat
  BY LenProperties DEF Letters
<1> DEFINE b == u \o v
<1>1. /\ b \in Letters /\ Len(b) = Len(u) + Len(v)
      /\ \A i \in 1 .. Len(u) + Len(v) : b[i] = IF i <= Len(u) THEN u[i] ELSE v[i - Len(u)]
  BY ConcatProperties DEF Letters
<1> HIDE DEF b
<1>2. ASSUME NEW i \in 1 .. Len(v) PROVE b[Len(u) + i] = v[i]
  <2>1. Len(u) + i \in 1 .. Len(u) + Len(v) /\ ~(Len(u) + i <= Len(u)) /\ Len(u) + i - Len(u) = i
    BY <1>0
  <2> QED BY <2>1, <1>1
<1>3. PICK i : (\A j \in i .. Len(v) : v[j] # ">") /\ (Opens(v, i) \/ ClosesName(v, i))
  BY CutIs
<1>4. i \in 1 .. Len(v)
  BY <1>0, <1>3 DEF Opens, ClosesName
<1>5. ASSUME NEW j \in Len(u) + i .. Len(b) PROVE b[j] # ">"
  <2>1. j - Len(u) \in i .. Len(v) /\ j - Len(u) \in 1 .. Len(v) /\ Len(u) + (j - Len(u)) = j
    BY <1>0, <1>1, <1>4
  <2> QED BY <2>1, <1>2, <1>3
<1>6. Opens(b, Len(u) + i) \/ ClosesName(b, Len(u) + i)
  <2>1. /\ Len(u) + (i + 1) = Len(u) + i + 1 /\ Len(u) + (i + 2) = Len(u) + i + 2
        /\ Len(u) + i \in Nat \ {0} /\ b[Len(u) + i] = v[i]
    BY <1>0, <1>2, <1>4
  <2>2. CASE Opens(v, i)
    <3>1. i + 1 \in 1 .. Len(v)
      BY <2>2, <1>0, <1>4 DEF Opens
    <3>2. b[Len(u) + (i + 1)] = v[i + 1] /\ Len(u) + i + 1 <= Len(b)
      <4>1. b[Len(u) + (i + 1)] = v[i + 1]
        BY <3>1, <1>2
      <4> QED BY <4>1, <3>1, <1>0, <1>1, <1>4
    <3> QED BY <2>1, <2>2, <3>2 DEF Opens
  <2>3. CASE ClosesName(v, i)
    <3>1. i + 1 \in 1 .. Len(v) /\ i + 2 \in 1 .. Len(v)
      BY <2>3, <1>0, <1>4 DEF ClosesName
    <3>2. b[Len(u) + (i + 1)] = v[i + 1] /\ b[Len(u) + (i + 2)] = v[i + 2] /\ Len(u) + i + 2 <= Len(b)
      <4>1. b[Len(u) + (i + 1)] = v[i + 1] /\ b[Len(u) + (i + 2)] = v[i + 2]
        BY <3>1, <1>2
      <4> QED BY <4>1, <3>1, <1>0, <1>1, <1>4
    <3> QED BY <2>1, <2>3, <3>2 DEF ClosesName
  <2> QED BY <1>3, <2>2, <2>3
<1>7. CutInTag(b)
  BY <1>1, <1>5, <1>6, CutIs
<1> QED BY <1>7 DEF b

(***************************************************************************)
(* A text without a tag that is not cut in one has a tag, when it goes on, *)
(* only in what it held.                                                   *)
(***************************************************************************)
LEMMA TagsAfterKept ==
  ASSUME NEW u \in Letters, NEW v \in Letters, NEW in \in BOOLEAN,
         NoTag(u, in), ~CutInTag(u), NEW i, NEW j, Tag(u \o v, in, i, j)
  PROVE  i > KeptOf(u, in)
<1>0. Len(u) \in Nat /\ Len(v) \in Nat
  BY LenProperties DEF Letters
<1> DEFINE b == u \o v
<1>1. /\ b \in Letters /\ Len(b) = Len(u) + Len(v)
      /\ \A x \in 1 .. Len(u) + Len(v) : b[x] = IF x <= Len(u) THEN u[x] ELSE v[x - Len(u)]
  BY ConcatProperties DEF Letters
<1>2. Tag(b, in, i, j)
  OBVIOUS
<1>3. ~(j <= Len(u))
  BY TagsJoined DEF NoTag
<1> HIDE DEF b
<1>4. i \in 1 .. Len(b) /\ j \in i + 2 .. Len(b)
  BY <1>1, <1>2, TagWithin
<1>5. \A x \in 1 .. Len(u) : b[x] = u[x]
  BY <1>0, <1>1
<1>6. KeptOf(u, in) = Len(u) - HeldIn(u, in)
  BY KeptIs
<1>7. \A x : (\A y \in x .. Len(u) : u[y] # ">") => ~Opens(u, x) /\ ~ClosesName(u, x)
  BY CutIs
<1>8. CASE ~in
  <2>1. Opens(b, i) /\ \A x \in i + 2 .. j - 1 : b[x] # ">"
    BY <1>2, <1>8 DEF Tag
  <2>2. ~(i + 1 <= Len(u))
    <3>1. SUFFICES ASSUME i + 1 <= Len(u) PROVE FALSE
      OBVIOUS
    <3>2. u[i] = "<" /\ u[i + 1] = "k"
      <4>1. i \in 1 .. Len(u) /\ i + 1 \in 1 .. Len(u)
        BY <3>1, <1>4, <1>0
      <4> QED BY <4>1, <2>1, <1>5 DEF Opens
    <3>3. Opens(u, i)
      BY <3>1, <3>2, <1>4 DEF Opens
    <3>4. ASSUME NEW y \in i .. Len(u) PROVE u[y] # ">"
      <4>1. y = i \/ y = i + 1 \/ y \in i + 2 .. j - 1
        BY <1>0, <1>1, <1>3, <1>4
      <4>2. y \in 1 .. Len(u)
        BY <1>4
      <4> QED BY <4>1, <4>2, <2>1, <3>2, <1>5
    <3> QED BY <3>3, <3>4, <1>7
  <2>3. CASE i > Len(u)
    BY <2>3, <1>0, <1>4, <1>6 DEF HeldIn
  <2>4. CASE i = Len(u)
    <3>1. Lone(u)
      BY <2>4, <2>1, <1>4, <1>5, <1>0 DEF Lone, Opens
    <3>2. HeldIn(u, in) = 1
      BY <3>1, <1>8 DEF HeldIn
    <3> QED BY <3>2, <2>4, <1>6, <1>0
  <2> QED BY <2>2, <2>3, <2>4, <1>0, <1>4
<1>9. CASE in
  <2>1. Closes(b, i) /\ j = i + 3
    BY <1>2, <1>9 DEF Tag
  <2>2. b[i] = "<" /\ b[i + 1] = "/" /\ b[i + 2] = "k"
    BY <2>1 DEF Closes, ClosesName
  <2>3. ~(i + 2 <= Len(u))
    <3>1. SUFFICES ASSUME i + 2 <= Len(u) PROVE FALSE
      OBVIOUS
    <3>2. u[i] = "<" /\ u[i + 1] = "/" /\ u[i + 2] = "k"
      <4>1. i \in 1 .. Len(u) /\ i + 1 \in 1 .. Len(u) /\ i + 2 \in 1 .. Len(u)
        BY <3>1, <1>4, <1>0
      <4> QED BY <4>1, <2>2, <1>5
    <3>3. ClosesName(u, i)
      BY <3>1, <3>2, <1>4 DEF ClosesName
    <3>4. ASSUME NEW y \in i .. Len(u) PROVE u[y] # ">"
      <4>1. y = i \/ y = i + 1 \/ y = i + 2
        BY <1>0, <1>1, <1>3, <1>4, <2>1
      <4> QED BY <4>1, <3>2
    <3> QED BY <3>3, <3>4, <1>7
  <2>4. CASE i > Len(u)
    BY <2>4, <1>0, <1>4, <1>6 DEF HeldIn
  <2>5. CASE i = Len(u)
    <3>1. Lone(u)
      BY <2>5, <2>2, <1>4, <1>5, <1>0 DEF Lone
    <3>2. HeldIn(u, in) >= 1
      BY <3>1 DEF HeldIn
    <3> QED BY <3>2, <2>5, <1>6, <1>0 DEF HeldIn
  <2>6. CASE i = Len(u) - 1
    <3>1. Pair(u)
      <4>1. i \in 1 .. Len(u) /\ i + 1 \in 1 .. Len(u) /\ i + 1 = Len(u) /\ Len(u) >= 2
        BY <2>6, <1>4, <1>0
      <4> QED BY <4>1, <2>6, <2>2, <1>5 DEF Pair
    <3>2. HeldIn(u, in) = 2
      BY <3>1, <1>9 DEF HeldIn
    <3> QED BY <3>2, <2>6, <1>6, <1>0
  <2> QED BY <2>3, <2>4, <2>5, <2>6, <1>0, <1>4
<1> QED BY <1>8, <1>9
\* The pieces and the readings of the splitter.
PieceSet == [kind : {"content", "reasoning"}, text : Letters]
FeedSet  == [pieces : Seq(PieceSet), buffer : Letters, inside : BOOLEAN]

\* p comes before what r says.
Fronted(p, r) == [r EXCEPT !.pieces = p \o @]
\* What a buffer without a tag gives.
Kept(b, in) == [pieces |-> Piece(KindOf(in), Upto(b, KeptOf(b, in))),
                buffer |-> From(b, KeptOf(b, in) + 1), inside |-> in]
\* What is before the first tag, and the buffer after it.
Before(b, in) == Piece(KindOf(in), Upto(b, First(TagsOf(b, in))[1] - 1))
\* What is read after the first tag of a buffer, in the other mode.
Rested(b, in) == <<From(b, First(TagsOf(b, in))[2] + 1), ~in>>

(***************************************************************************)
(* The type of the pieces.                                                 *)
(***************************************************************************)
LEMMA PieceIs ==
  ASSUME NEW in \in BOOLEAN, NEW t \in Letters
  PROVE  Piece(KindOf(in), t) \in Seq(PieceSet)
<1>1. KindOf(in) \in {"content", "reasoning"}
  BY DEF KindOf
<1>2. [kind |-> KindOf(in), text |-> t] \in PieceSet
  BY <1>1 DEF PieceSet
<1> DEFINE p == [kind |-> KindOf(in), text |-> t]
<1> HIDE DEF p
<1>3. <<p>> \in Seq(PieceSet) /\ <<>> \in Seq(PieceSet)
  BY <1>2, EmptySeq, Tuples DEF p
<1>4. <<p>> \in Seq(PieceSet)
  BY <1>3
<1> QED BY <1>3, <1>4 DEF Piece, p

(***************************************************************************)
(* The fields of a reading that something was put before.                  *)
(***************************************************************************)
LEMMA FrontedIs ==
  ASSUME NEW p \in Seq(PieceSet), NEW r \in FeedSet
  PROVE  /\ Fronted(p, r) \in FeedSet /\ Fronted(p, r).pieces = Cat(p, r.pieces)
         /\ Fronted(p, r).buffer = r.buffer /\ Fronted(p, r).inside = r.inside
<1>1. r.pieces \in Seq(PieceSet) /\ r.buffer \in Letters /\ r.inside \in BOOLEAN
  BY DEF FeedSet
<1> DEFINE q == p \o r.pieces
<1>2. q \in Seq(PieceSet)
  BY <1>1, ConcatProperties
<1>3. Fronted(p, r) = [r EXCEPT !.pieces = q]
  BY DEF Fronted
<1> HIDE DEF q
<1>4. /\ Fronted(p, r) \in FeedSet /\ Fronted(p, r).pieces = q
      /\ Fronted(p, r).buffer = r.buffer /\ Fronted(p, r).inside = r.inside
  BY <1>2, <1>3 DEF FeedSet
<1> QED BY <1>4 DEF q, Cat

(***************************************************************************)
(* What is certain of a buffer without a tag is a reading.                 *)
(***************************************************************************)
LEMMA KeptTyped ==
  ASSUME NEW b \in Letters, NEW in \in BOOLEAN
  PROVE  Kept(b, in) \in FeedSet
<1> DEFINE k == KeptOf(b, in)
           m == k + 1
<1>0. Len(b) \in Nat
  BY LenProperties DEF Letters
<1>1. k \in 0 .. Len(b)
  BY KeptIs
<1> HIDE DEF k
<1>2. m \in 1 .. Len(b) + 1
  BY <1>0, <1>1
<1>3. Upto(b, k) \in Letters
  BY <1>1, UptoIs DEF Letters
<1> HIDE DEF m
<1>4. From(b, m) \in Letters
  BY <1>2, FromIs DEF Letters
<1>5. Piece(KindOf(in), Upto(b, k)) \in Seq(PieceSet)
  BY <1>3, PieceIs
<1> DEFINE p == Piece(KindOf(in), Upto(b, k))
           f == From(b, m)
<1>6. p \in Seq(PieceSet) /\ f \in Letters
  BY <1>4, <1>5
<1> HIDE DEF p, f
<1>7. [pieces |-> p, buffer |-> f, inside |-> in] \in FeedSet
  BY <1>6 DEF FeedSet
<1> QED BY <1>7 DEF Kept, p, f, m, k

(***************************************************************************)
(* The buffer after a tag is shorter.                                      *)
(***************************************************************************)
LEMMA AfterTag ==
  ASSUME NEW b \in Letters, NEW in \in BOOLEAN, NEW i, NEW j, Tag(b, in, i, j)
  PROVE  /\ Upto(b, i - 1) \in Letters /\ From(b, j + 1) \in Letters
         /\ Len(Upto(b, i - 1)) = i - 1 /\ Len(From(b, j + 1)) = Len(b) - j
         /\ Len(From(b, j + 1)) < Len(b) /\ Len(From(b, j + 1)) \in Nat
<1>1. i \in 1 .. Len(b) /\ j \in i + 2 .. Len(b) /\ Len(b) \in Nat
  BY TagWithin
<1> DEFINE k == i - 1
           m == j + 1
<1>2. k \in 0 .. Len(b) /\ m \in 1 .. Len(b) + 1 /\ Len(b) + 1 - m = Len(b) - j
      /\ Len(b) - j < Len(b) /\ Len(b) - j \in Nat
  BY <1>1
<1> HIDE DEF k, m
<1>3. Upto(b, k) \in Letters /\ Len(Upto(b, k)) = k
  BY <1>2, UptoIs DEF Letters
<1>4. From(b, m) \in Letters /\ Len(From(b, m)) = Len(b) + 1 - m
  BY <1>2, FromIs DEF Letters
<1> QED BY <1>2, <1>3, <1>4 DEF k, m

(***************************************************************************)
(* What the first tag of a buffer leaves to be read is shorter than the    *)
(* buffer.                                                                 *)
(***************************************************************************)
LEMMA RestedIs ==
  ASSUME NEW b \in Letters, NEW in \in BOOLEAN, TagsOf(b, in) # {}
  PROVE  \E i, j : /\ FirstTag(b, in, i, j)
                   /\ Rested(b, in) = <<From(b, j + 1), ~in>>
                   /\ Before(b, in) = Piece(KindOf(in), Upto(b, i - 1))
                   /\ From(b, j + 1) \in Letters /\ Len(From(b, j + 1)) < Len(b)
                   /\ Len(From(b, j + 1)) \in Nat
                   /\ Before(b, in) \in Seq(PieceSet)
<1>1. PICK i, j : FirstTag(b, in, i, j)
  BY FirstIs
<1>2. First(TagsOf(b, in)) = <<i, j>>
  BY <1>1, FirstIs
<1>3. First(TagsOf(b, in))[1] = i /\ First(TagsOf(b, in))[2] = j
  BY <1>2
<1>4. Tag(b, in, i, j)
  BY <1>1 DEF FirstTag
<1>5. /\ Upto(b, i - 1) \in Letters /\ From(b, j + 1) \in Letters
      /\ Len(From(b, j + 1)) < Len(b) /\ Len(From(b, j + 1)) \in Nat
  BY <1>4, AfterTag
<1>6. Rested(b, in) = <<From(b, j + 1), ~in>> /\ Before(b, in) = Piece(KindOf(in), Upto(b, i - 1))
  BY <1>3, Zenon DEF Rested, Before
<1>7. Before(b, in) \in Seq(PieceSet)
  BY <1>5, <1>6, PieceIs
<1> QED BY <1>1, <1>5, <1>6, <1>7

(***************************************************************************)
(* The equation of the recursive function Feed.                            *)
(***************************************************************************)
FeedOnce(f, s) == IF TagsOf(s[1], s[2]) # {}
                  THEN Fronted(Before(s[1], s[2]), f[Rested(s[1], s[2])])
                  ELSE Kept(s[1], s[2])

(***************************************************************************)
(* So the splitter reads every buffer, in either mode, as its body says:   *)
(* each tag leaves a shorter buffer.                                       *)
(***************************************************************************)
LEMMA FeedDefined ==
  \A s \in Letters \X BOOLEAN : Feed[s] = FeedOnce(Feed, s)
<1> DEFINE X == Letters \X BOOLEAN
           Y == FeedSet
           m == [x \in X |-> Len(x[1])]
           more == {x \in X : TagsOf(x[1], x[2]) # {}}
           next == [x \in more |-> Rested(x[1], x[2])]
           stop == [x \in X |-> Kept(x[1], x[2])]
           step == [x \in more |-> [y \in Y |-> Fronted(Before(x[1], x[2]), y)]]
<1>1. \A x \in X : x[1] \in Letters /\ x[2] \in BOOLEAN /\ x = <<x[1], x[2]>>
  OBVIOUS
<1>2. m \in [X -> Nat]
  <2>1. \A x \in X : Len(x[1]) \in Nat
    BY <1>1, LenProperties DEF Letters
  <2> QED BY <2>1
<1>3. ASSUME NEW x \in more
      PROVE  /\ Rested(x[1], x[2]) \in X /\ Len(Rested(x[1], x[2])[1]) < Len(x[1])
             /\ Before(x[1], x[2]) \in Seq(PieceSet)
  <2> DEFINE b == x[1]
             in == x[2]
  <2>1. b \in Letters /\ in \in BOOLEAN /\ TagsOf(b, in) # {}
    BY <1>1
  <2> HIDE DEF b, in
  <2>2. PICK i, j : /\ Rested(b, in) = <<From(b, j + 1), ~in>>
                    /\ From(b, j + 1) \in Letters /\ Len(From(b, j + 1)) < Len(b)
                    /\ Before(b, in) \in Seq(PieceSet)
    BY <2>1, RestedIs
  <2>3. Rested(b, in) \in X /\ Rested(b, in)[1] = From(b, j + 1)
    <3> DEFINE f == From(b, j + 1)
               o == ~in
    <3>1. f \in Letters /\ o \in BOOLEAN /\ Rested(b, in) = <<f, o>>
      BY <2>1, <2>2
    <3> HIDE DEF f, o
    <3>2. <<f, o>> \in Letters \X BOOLEAN /\ <<f, o>>[1] = f
      BY <3>1
    <3> QED BY <3>1, <3>2 DEF f
  <2>4. Rested(b, in) \in X /\ Len(Rested(b, in)[1]) < Len(b) /\ Before(b, in) \in Seq(PieceSet)
    BY <2>2, <2>3
  <2> QED BY <2>4 DEF b, in
<1>4. next \in [more -> X]
  BY <1>3
<1>5. stop \in [X -> Y]
  BY <1>1, KeptTyped
<1>6. step \in [more -> [Y -> Y]]
  BY <1>3, FrontedIs
<1>7. \A x \in more : m[next[x]] < m[x]
  BY <1>3
<1>8. more \in SUBSET X
  OBVIOUS
<1>9. PICK f : GoesOn(f, X, Y, more, next, stop, step)
  <2> HIDE DEF X, Y, m, more, next, stop, step
  <2> QED BY <1>2, <1>4, <1>5, <1>6, <1>7, <1>8, GoingOn
<1>10. ASSUME NEW x \in X PROVE f[x] = FeedOnce(f, x)
  <2>1. f[x] = IF x \in more THEN step[x][f[next[x]]] ELSE stop[x]
    BY <1>9 DEF GoesOn
  <2>2. CASE x \in more
    <3>1. next[x] \in X /\ next[x] = Rested(x[1], x[2])
      BY <2>2, <1>4
    <3>2. f[next[x]] \in Y
      BY <3>1, <1>9 DEF GoesOn
    <3>3. step[x][f[next[x]]] = Fronted(Before(x[1], x[2]), f[next[x]])
      BY <2>2, <3>2
    <3> QED BY <2>1, <2>2, <3>1, <3>3, Zenon DEF FeedOnce
  <2>3. CASE x \notin more
    BY <2>1, <2>3 DEF FeedOnce
  <2> QED BY <2>2, <2>3
<1>11. f = [x \in X |-> FeedOnce(f, x)]
  <2>1. f \in [X -> Y]
    BY <1>9 DEF GoesOn
  <2> HIDE DEF X, Y
  <2> QED BY <2>1, <1>10
<1>12. Feed = CHOOSE g : g = [x \in X |-> FeedOnce(g, x)]
  BY Zenon DEF Feed, FeedOnce, Fronted, Before, Rested, Kept
<1>13. Feed = [x \in X |-> FeedOnce(Feed, x)]
  <2> HIDE DEF X
  <2> QED BY <1>11, <1>12
<1>14. ASSUME NEW x \in X PROVE Feed[x] = FeedOnce(Feed, x)
  <2> DEFINE g == Feed
             k == [y \in X |-> FeedOnce(g, y)]
  <2>1. k[x] = FeedOnce(g, x)
    OBVIOUS
  <2>2. g = k
    BY <1>13
  <2> HIDE DEF k
  <2>3. g[x] = FeedOnce(g, x)
    <3> HIDE DEF g
    <3> QED BY <2>1, <2>2
  <2> QED BY <2>3
<1> QED BY <1>14

\* The splitting of a buffer with a tag from i to j.
SplitAt(b, in, i, j) == Fronted(Piece(KindOf(in), Upto(b, i - 1)), Split(From(b, j + 1), ~in))

(***************************************************************************)
(* What the splitter does with a buffer without a tag and with one.        *)
(***************************************************************************)
LEMMA SplitKept ==
  ASSUME NEW b \in Letters, NEW in \in BOOLEAN, NoTag(b, in)
  PROVE  Split(b, in) = Kept(b, in)
<1>1. TagsOf(b, in) = {}
  BY FirstIs
<1>2. Feed[<<b, in>>] = FeedOnce(Feed, <<b, in>>)
  BY FeedDefined
<1>3. <<b, in>>[1] = b /\ <<b, in>>[2] = in
  OBVIOUS
<1> QED BY <1>1, <1>2, <1>3 DEF Split, FeedOnce

(***************************************************************************)
(* A buffer is split at its first tag.                                     *)
(***************************************************************************)
LEMMA SplitTag ==
  ASSUME NEW b \in Letters, NEW in \in BOOLEAN, NEW i, NEW j, FirstTag(b, in, i, j)
  PROVE  Split(b, in) = SplitAt(b, in, i, j)
<1>1. TagsOf(b, in) # {} /\ First(TagsOf(b, in)) = <<i, j>>
  BY FirstIs
<1>2. Feed[<<b, in>>] = FeedOnce(Feed, <<b, in>>)
  BY FeedDefined
<1>3. <<b, in>>[1] = b /\ <<b, in>>[2] = in
  OBVIOUS
<1>4. FeedOnce(Feed, <<b, in>>) = Fronted(Before(b, in), Feed[Rested(b, in)])
  BY <1>1, <1>3 DEF FeedOnce
<1>5. First(TagsOf(b, in))[1] = i /\ First(TagsOf(b, in))[2] = j
  BY <1>1
<1>6. Before(b, in) = Piece(KindOf(in), Upto(b, i - 1)) /\ Rested(b, in) = <<From(b, j + 1), ~in>>
  BY <1>5, Zenon DEF Before, Rested
<1> QED BY <1>2, <1>4, <1>6, Zenon DEF Split, SplitAt

(***************************************************************************)
(* What holds of every buffer without a tag, and of one with a tag when it *)
(* holds of what is after the tag, holds of every buffer.                  *)
(***************************************************************************)
LEMMA BySplitting ==
  ASSUME NEW G \in SUBSET (Letters \X BOOLEAN),
         \A b \in Letters, in \in BOOLEAN : NoTag(b, in) => <<b, in>> \in G,
         \A b \in Letters, in \in BOOLEAN : \A i, j :
           FirstTag(b, in, i, j) /\ <<From(b, j + 1), ~in>> \in G => <<b, in>> \in G
  PROVE  \A b \in Letters, in \in BOOLEAN : <<b, in>> \in G
<1> DEFINE T == {n \in Nat : \A b \in Letters, in \in BOOLEAN : Len(b) < n => <<b, in>> \in G}
<1>0. \A b \in Letters : Len(b) \in Nat
  BY LenProperties DEF Letters
<1>1. 0 \in T
  BY <1>0
<1>2. ASSUME NEW n \in T PROVE n + 1 \in T
  <2>1. n \in Nat
    OBVIOUS
  <2>2. ASSUME NEW b \in Letters, NEW in \in BOOLEAN, Len(b) < n + 1 PROVE <<b, in>> \in G
    <3>1. CASE NoTag(b, in)
      BY <3>1
    <3>2. CASE ~NoTag(b, in)
      <4>1. PICK i, j : FirstTag(b, in, i, j)
        BY <3>2, FirstIs
      <4>2. From(b, j + 1) \in Letters /\ Len(From(b, j + 1)) < Len(b) /\ Len(From(b, j + 1)) \in Nat
        BY <4>1, AfterTag DEF FirstTag
      <4>3. Len(From(b, j + 1)) < n /\ (~in) \in BOOLEAN
        <5>1. \A x, y \in Nat : x < y /\ y < n + 1 => x < n
          BY <2>1
        <5>2. Len(b) \in Nat /\ Len(b) < n + 1
          BY <1>0, <2>2
        <5>3. (~in) \in BOOLEAN
          OBVIOUS
        <5> QED BY <5>1, <5>2, <5>3, <4>2, Zenon
      <4>4. <<From(b, j + 1), ~in>> \in G
        BY <4>2, <4>3
      <4> QED BY <4>1, <4>4
    <3> QED BY <3>1, <3>2
  <2>3. n + 1 \in Nat
    BY <2>1
  <2> QED BY <2>2, <2>3
<1>3. T = Nat
  <2>1. T \subseteq Nat
    OBVIOUS
  <2> HIDE DEF T
  <2> QED BY <1>1, <1>2, <2>1, ByInduction
<1>4. ASSUME NEW b \in Letters, NEW in \in BOOLEAN PROVE <<b, in>> \in G
  <2>0. Len(b) \in Nat
    BY <1>0
  <2>1. Len(b) + 1 \in Nat /\ Len(b) < Len(b) + 1
    BY <2>0
  <2>2. Len(b) + 1 \in T
    <3> HIDE DEF T
    <3> QED BY <1>3, <2>1
  <2> QED BY <2>1, <2>2
<1> QED BY <1>4

(***************************************************************************)
(* The reading at a tag, from the texts before and after it.               *)
(***************************************************************************)
LEMMA SplitAtIs ==
  ASSUME NEW b, NEW in, NEW i, NEW j, NEW q, NEW f, Upto(b, i - 1) = q, From(b, j + 1) = f
  PROVE  SplitAt(b, in, i, j) = Fronted(Piece(KindOf(in), q), Split(f, ~in))
BY DEF SplitAt

(***************************************************************************)
(* What the splitter says of a buffer is a reading.                        *)
(***************************************************************************)
LEMMA SplitTyped ==
  ASSUME NEW b \in Letters, NEW in \in BOOLEAN
  PROVE  Split(b, in) \in FeedSet
<1> DEFINE G == {s \in Letters \X BOOLEAN : Split(s[1], s[2]) \in FeedSet}
<1>0. \A c \in Letters, d \in BOOLEAN : <<c, d>> \in G <=> Split(c, d) \in FeedSet
  OBVIOUS
<1>3. G \in SUBSET (Letters \X BOOLEAN)
  OBVIOUS
<1> HIDE DEF G
<1>1. ASSUME NEW c \in Letters, NEW d \in BOOLEAN, NoTag(c, d) PROVE <<c, d>> \in G
  BY <1>0, <1>1, SplitKept, KeptTyped
<1>2. ASSUME NEW c \in Letters, NEW d \in BOOLEAN, NEW i, NEW j, FirstTag(c, d, i, j),
             <<From(c, j + 1), ~d>> \in G
      PROVE  <<c, d>> \in G
  <2>1. Upto(c, i - 1) \in Letters /\ From(c, j + 1) \in Letters
    BY <1>2, AfterTag DEF FirstTag
  <2>2. Split(From(c, j + 1), ~d) \in FeedSet
    BY <2>1, <1>0, <1>2
  <2>3. Piece(KindOf(d), Upto(c, i - 1)) \in Seq(PieceSet)
    BY <2>1, PieceIs
  <2>4. Split(c, d) = Fronted(Piece(KindOf(d), Upto(c, i - 1)), Split(From(c, j + 1), ~d))
    BY <1>2, SplitTag DEF SplitAt
  <2>5. Split(c, d) \in FeedSet
    BY <2>2, <2>3, <2>4, FrontedIs
  <2> QED BY <2>5, <1>0
<1>4. \A c \in Letters, d \in BOOLEAN : <<c, d>> \in G
  BY <1>1, <1>2, <1>3, BySplitting
<1> QED BY <1>0, <1>4
\* The router's pieces, with what they came by.
OrderedSet == [kind : {"content", "reasoning"}, text : Letters, source : {"content", "tags", "field"}]

\* What the pieces of the splitter say, think, and replay as.
Con(p) == TextOf("content", p)
Thk(p) == TextOf("reasoning", p)
Rep(p) == historyText(Tracked(p, "tags"))

(***************************************************************************)
(* The texts of pieces, joined and of none.                                *)
(***************************************************************************)
LEMMA MappedIs ==
  ASSUME NEW P, NEW e, Maps(e, P, Letter), NEW p \in Seq(P), NEW q \in Seq(P)
  PROVE  /\ FlattenSeq(Mapped(e, p)) \in Letters
         /\ FlattenSeq(Mapped(e, Cat(p, q))) = Cat(FlattenSeq(Mapped(e, p)), FlattenSeq(Mapped(e, q)))
BY FlattenMapped DEF Letters

\* The text of one kind of a piece.
TextFrom(kind) == [x \in PieceSet |-> IF x.kind = kind THEN x.text ELSE <<>>]

(***************************************************************************)
(* The text of a kind is one of letters.                                   *)
(***************************************************************************)
LEMMA TextFromTyped ==
  ASSUME NEW kind
  PROVE  Maps(TextFrom(kind), PieceSet, Letter)
<1>1. \A x \in PieceSet : (IF x.kind = kind THEN x.text ELSE <<>>) \in Letters
  BY NoText DEF PieceSet
<1> QED BY <1>1 DEF TextFrom, Maps, Letters

(***************************************************************************)
(* The text of a kind of some pieces is that of each, one after the other. *)
(***************************************************************************)
LEMMA TextOfIs ==
  ASSUME NEW kind, NEW p \in Seq(PieceSet)
  PROVE  TextOf(kind, p) = FlattenSeq(Mapped(TextFrom(kind), p))
<1>1. \A i \in DOMAIN p : p[i] \in PieceSet
  BY ElementOfSeq, LenProperties
<1>2. \A i \in DOMAIN p : TextFrom(kind)[p[i]] = IF p[i].kind = kind THEN p[i].text ELSE <<>>
  BY <1>1 DEF TextFrom
<1>3. Mapped(TextFrom(kind), p) = [i \in DOMAIN p |-> IF p[i].kind = kind THEN p[i].text ELSE <<>>]
  BY <1>2 DEF Mapped
<1> QED BY <1>3 DEF TextOf

(***************************************************************************)
(* The text of a kind of joined pieces is the joined text.                 *)
(***************************************************************************)
LEMMA TextsJoined ==
  ASSUME NEW kind, NEW p \in Seq(PieceSet), NEW q \in Seq(PieceSet)
  PROVE  /\ TextOf(kind, p) \in Letters
         /\ TextOf(kind, Cat(p, q)) = Cat(TextOf(kind, p), TextOf(kind, q))
<1> DEFINE r == Cat(p, q)
<1>1. r \in Seq(PieceSet)
  BY ConcatProperties DEF Cat
<1>2. Maps(TextFrom(kind), PieceSet, Letter)
  BY TextFromTyped
<1>3. FlattenSeq(Mapped(TextFrom(kind), p)) \in Letters
      /\ FlattenSeq(Mapped(TextFrom(kind), r)) =
           Cat(FlattenSeq(Mapped(TextFrom(kind), p)), FlattenSeq(Mapped(TextFrom(kind), q)))
  BY <1>2, MappedIs
<1> HIDE DEF r
<1>4. TextOf(kind, r) = FlattenSeq(Mapped(TextFrom(kind), r))
  BY <1>1, TextOfIs
<1>5. TextOf(kind, p) = FlattenSeq(Mapped(TextFrom(kind), p))
      /\ TextOf(kind, q) = FlattenSeq(Mapped(TextFrom(kind), q))
  BY TextOfIs
<1>6. TextOf(kind, r) = Cat(TextOf(kind, p), TextOf(kind, q))
  BY <1>3, <1>4, <1>5
<1> QED BY <1>3, <1>5, <1>6 DEF r

(***************************************************************************)
(* The text of a kind of one piece is its own text, or nothing.            *)
(***************************************************************************)
LEMMA TextsOfPiece ==
  ASSUME NEW kind, NEW in \in BOOLEAN, NEW t \in Letters
  PROVE  TextOf(kind, Piece(KindOf(in), t)) = IF kind = KindOf(in) THEN t ELSE <<>>
<1>1. Maps(TextFrom(kind), PieceSet, Letter)
  BY TextFromTyped
<1> DEFINE x == [kind |-> KindOf(in), text |-> t]
<1>2. x \in PieceSet /\ x.kind = KindOf(in) /\ x.text = t
  BY DEF PieceSet, KindOf
<1>3. TextFrom(kind)[x] = IF kind = KindOf(in) THEN t ELSE <<>>
  BY <1>2 DEF TextFrom
<1> HIDE DEF x
<1>4. FlattenSeq(Mapped(TextFrom(kind), <<x>>)) = TextFrom(kind)[x]
      /\ FlattenSeq(Mapped(TextFrom(kind), <<>>)) = <<>>
  BY <1>1, <1>2, FlattenMappedOne
<1>5. <<x>> \in Seq(PieceSet) /\ <<>> \in Seq(PieceSet)
  BY <1>2, EmptySeq
<1>6. TextOf(kind, <<x>>) = (IF kind = KindOf(in) THEN t ELSE <<>>) /\ TextOf(kind, <<>>) = <<>>
  BY <1>3, <1>4, <1>5, TextOfIs
<1>7. CASE t = <<>>
  BY <1>6, <1>7 DEF Piece
<1>8. CASE t # <<>>
  BY <1>6, <1>8 DEF Piece, x
<1> QED BY <1>7, <1>8

(***************************************************************************)
(* Of the splitter's own.                                                  *)
(***************************************************************************)
LEMMA TextsOfSplit ==
  ASSUME NEW p \in Seq(PieceSet), NEW q \in Seq(PieceSet)
  PROVE  /\ Con(p) \in Letters /\ Con(Cat(p, q)) = Cat(Con(p), Con(q))
         /\ Thk(p) \in Letters /\ Thk(Cat(p, q)) = Cat(Thk(p), Thk(q))
BY TextsJoined DEF Con, Thk

(***************************************************************************)
(* Of a piece in either mode, what it says and what it thinks.             *)
(***************************************************************************)
LEMMA TextsOfOne ==
  ASSUME NEW in \in BOOLEAN, NEW t \in Letters
  PROVE  /\ Con(Piece(KindOf(in), t)) = IF in THEN <<>> ELSE t
         /\ Thk(Piece(KindOf(in), t)) = IF in THEN t ELSE <<>>
<1>1. TextOf("content", Piece(KindOf(in), t)) = IF "content" = KindOf(in) THEN t ELSE <<>>
  BY TextsOfPiece
<1>2. TextOf("reasoning", Piece(KindOf(in), t)) = IF "reasoning" = KindOf(in) THEN t ELSE <<>>
  BY TextsOfPiece
<1>3. ("content" = KindOf(in) <=> ~in) /\ ("reasoning" = KindOf(in) <=> in)
  BY DEF KindOf
<1> QED BY <1>1, <1>2, <1>3 DEF Con, Thk

-----------------------------------------------------------------------------

\* s reads as c and r, and then as s2.
Same(s, c, r, s2) ==
  /\ Con(s.pieces) = Cat(c, Con(s2.pieces)) /\ Thk(s.pieces) = Cat(r, Thk(s2.pieces))
  /\ s.buffer = s2.buffer /\ s.inside = s2.inside

(***************************************************************************)
(* The fields of a reading.                                                *)
(***************************************************************************)
LEMMA FeedTexts ==
  ASSUME NEW s \in FeedSet
  PROVE  /\ s.pieces \in Seq(PieceSet) /\ s.buffer \in Letters /\ s.inside \in BOOLEAN
         /\ Con(s.pieces) \in Letters /\ Thk(s.pieces) \in Letters
<1>1. s.pieces \in Seq(PieceSet) /\ s.buffer \in Letters /\ s.inside \in BOOLEAN
  BY DEF FeedSet
<1>2. \A p \in Seq(PieceSet) : Con(p) \in Letters /\ Thk(p) \in Letters
  BY TextsJoined DEF Con, Thk
<1> QED BY <1>1, <1>2

(***************************************************************************)
(* Readings may be compared one after the other.                           *)
(***************************************************************************)
LEMMA SameSame ==
  ASSUME NEW s \in FeedSet, NEW t \in FeedSet, NEW u \in FeedSet,
         NEW c \in Letters, NEW r \in Letters, NEW d \in Letters, NEW q \in Letters,
         Same(s, c, r, t), Same(t, d, q, u)
  PROVE  Same(s, Cat(c, d), Cat(r, q), u)
<1>1. Con(u.pieces) \in Letters /\ Thk(u.pieces) \in Letters
  BY FeedTexts
<1>2. Con(s.pieces) = Cat(c, Cat(d, Con(u.pieces))) /\ Thk(s.pieces) = Cat(r, Cat(q, Thk(u.pieces)))
  BY DEF Same
<1>3. /\ Cat(Cat(c, d), Con(u.pieces)) = Cat(c, Cat(d, Con(u.pieces)))
      /\ Cat(Cat(r, q), Thk(u.pieces)) = Cat(r, Cat(q, Thk(u.pieces)))
  BY <1>1, CatCat
<1> QED BY <1>2, <1>3 DEF Same

(***************************************************************************)
(* What is put before a reading is said and thought before it.             *)
(***************************************************************************)
LEMMA SameFronted ==
  ASSUME NEW p \in Seq(PieceSet), NEW s \in FeedSet
  PROVE  Same(Fronted(p, s), Con(p), Thk(p), s)
<1>1. Fronted(p, s).pieces = Cat(p, s.pieces)
      /\ Fronted(p, s).buffer = s.buffer /\ Fronted(p, s).inside = s.inside
  BY FrontedIs
<1>2. s.pieces \in Seq(PieceSet)
  BY FeedTexts
<1>3. Con(Cat(p, s.pieces)) = Cat(Con(p), Con(s.pieces)) /\ Thk(Cat(p, s.pieces)) = Cat(Thk(p), Thk(s.pieces))
  BY <1>2, TextsOfSplit
<1> QED BY <1>1, <1>3 DEF Same
(***************************************************************************)
(* The parts of texts again, joined by Cat.                                *)
(***************************************************************************)
LEMMA PartsOfCat ==
  ASSUME NEW u \in Letters, NEW v \in Letters
  PROVE  /\ \A n \in 0 .. Len(u) : Upto(Cat(u, v), n) = Upto(u, n)
         /\ \A n \in 0 .. Len(v) : Upto(Cat(u, v), Len(u) + n) = Cat(u, Upto(v, n))
         /\ \A m \in 1 .. Len(u) + 1 : From(Cat(u, v), m) = Cat(From(u, m), v)
         /\ \A m \in 1 .. Len(v) + 1 : From(Cat(u, v), Len(u) + m) = From(v, m)
<1>1. \A n \in 0 .. Len(u) : Upto(Cat(u, v), n) = Upto(u, n)
  BY UptoJoined DEF Letters, Cat
<1>2. \A n \in 0 .. Len(v) : Upto(Cat(u, v), Len(u) + n) = Cat(u, Upto(v, n))
  BY UptoJoined DEF Letters, Cat
<1>3. \A m \in 1 .. Len(u) + 1 : From(Cat(u, v), m) = Cat(From(u, m), v)
  BY FromJoined DEF Letters, Cat
<1>4. \A m \in 1 .. Len(v) + 1 : From(Cat(u, v), Len(u) + m) = From(v, m)
  BY FromJoined DEF Letters, Cat
<1> QED BY <1>1, <1>2, <1>3, <1>4

(***************************************************************************)
(* The tags of either half of a text are tags of the text, and those       *)
(* within a half are the half's own.                                       *)
(***************************************************************************)
LEMMA TagsOfCat ==
  ASSUME NEW u \in Letters, NEW v \in Letters, NEW in \in BOOLEAN
  PROVE  /\ \A i, j : Tag(u, in, i, j) => Tag(Cat(u, v), in, i, j)
         /\ \A i, j : Tag(Cat(u, v), in, i, j) /\ j <= Len(u) => Tag(u, in, i, j)
         /\ \A i, j : i \in Nat /\ j \in Nat =>
              (Tag(v, in, i, j) => Tag(Cat(u, v), in, Len(u) + i, Len(u) + j))
         /\ \A i, j : Tag(Cat(u, v), in, i, j) /\ i > Len(u) => Tag(v, in, i - Len(u), j - Len(u))
BY TagsJoined DEF Cat

(***************************************************************************)
(* When no tag of a text begins in its first part, the first tag of the    *)
(* second part is the text's, and if that has none the text has none.      *)
(***************************************************************************)
LEMMA FirstLater ==
  ASSUME NEW p \in Letters, NEW w \in Letters, NEW in \in BOOLEAN,
         \A i, j : Tag(Cat(p, w), in, i, j) => i > Len(p)
  PROVE  /\ NoTag(w, in) => NoTag(Cat(p, w), in)
         /\ \A i, j : FirstTag(w, in, i, j) => FirstTag(Cat(p, w), in, Len(p) + i, Len(p) + j)
<1>0. Len(p) \in Nat
  BY LenProperties DEF Letters
<1>1. NoTag(w, in) => NoTag(Cat(p, w), in)
  BY TagsOfCat DEF NoTag
<1>2. ASSUME NEW i, NEW j, FirstTag(w, in, i, j)
      PROVE  FirstTag(Cat(p, w), in, Len(p) + i, Len(p) + j)
  <2>1. i \in Nat /\ j \in Nat /\ Tag(w, in, i, j)
    BY <1>2, TagWithin DEF FirstTag
  <2>2. Tag(Cat(p, w), in, Len(p) + i, Len(p) + j)
    BY <2>1, TagsOfCat
  <2>3. ASSUME NEW x, NEW y, Tag(Cat(p, w), in, x, y) PROVE Len(p) + i <= x
    <3>1. x > Len(p)
      BY <2>3
    <3>2. Tag(w, in, x - Len(p), y - Len(p))
      BY <2>3, <3>1, TagsOfCat
    <3>3. i <= x - Len(p)
      BY <1>2, <3>2 DEF FirstTag
    <3>4. Cat(p, w) \in Letters
      BY CatTyped
    <3>5. x \in Nat
      BY <2>3, <3>4, TagWithin
    <3> QED BY <1>0, <2>1, <3>3, <3>5
  <2> QED BY <2>2, <2>3 DEF FirstTag
<1> QED BY <1>1, <1>2

(***************************************************************************)
(* A buffer without a tag, not cut in one, is read the same when it goes   *)
(* on after a delta.                                                       *)
(***************************************************************************)
LEMMA KeptReads ==
  ASSUME NEW u \in Letters, NEW v \in Letters, NEW in \in BOOLEAN, NoTag(u, in), ~CutInTag(u)
  PROVE  Same(Split(Cat(u, v), in), Con(Kept(u, in).pieces), Thk(Kept(u, in).pieces),
              Split(Cat(Kept(u, in).buffer, v), Kept(u, in).inside))
<1>1. PICK p \in Letters, w \in Letters :
           /\ Len(p) = KeptOf(u, in) /\ p = Upto(u, KeptOf(u, in)) /\ w = From(u, KeptOf(u, in) + 1)
           /\ Cat(p, w) = u /\ Cat(u, v) = Cat(p, Cat(w, v))
           /\ KeptOf(Cat(u, v), in) = Len(p) + KeptOf(Cat(w, v), in)
  BY KeptJoined
<1>2. Kept(u, in).pieces = Piece(KindOf(in), p) /\ Kept(u, in).buffer = w /\ Kept(u, in).inside = in
  BY <1>1 DEF Kept
<1> DEFINE b == Cat(u, v)
           c == Cat(w, v)
<1>3. b \in Letters /\ c \in Letters /\ b = Cat(p, c) /\ Len(b) = Len(p) + Len(c)
  <2>1. b \in Letters /\ c \in Letters
    BY CatTyped
  <2> HIDE DEF b, c
  <2>2. b = Cat(p, c)
    BY <1>1 DEF b, c
  <2> QED BY <2>1, <2>2, CatTyped
<1>4. Len(p) \in Nat /\ Len(c) \in Nat
  BY <1>3, LenProperties DEF Letters
<1>5. ASSUME NEW i, NEW j, Tag(b, in, i, j) PROVE i > Len(p)
  BY <1>1, <1>5, TagsAfterKept DEF Cat
<1> HIDE DEF b, c
<1>6. /\ NoTag(c, in) => NoTag(b, in)
      /\ \A i, j : FirstTag(c, in, i, j) => FirstTag(b, in, Len(p) + i, Len(p) + j)
  BY <1>3, <1>5, FirstLater
<1>7. Split(b, in) \in FeedSet /\ Split(c, in) \in FeedSet
  BY <1>3, SplitTyped
<1>8. Con(Piece(KindOf(in), p)) = (IF in THEN <<>> ELSE p)
      /\ Thk(Piece(KindOf(in), p)) = (IF in THEN p ELSE <<>>)
  BY TextsOfOne
<1>9. CASE NoTag(c, in)
  <2>1. Split(b, in) = Kept(b, in) /\ Split(c, in) = Kept(c, in)
    BY <1>3, <1>6, <1>9, SplitKept
  <2> DEFINE k == KeptOf(c, in)
             l == KeptOf(b, in)
             q == Upto(c, k)
  <2>2. k \in 0 .. Len(c) /\ l = Len(p) + k
    BY <1>1, <1>3, KeptIs DEF b, c
  <2> HIDE DEF k, l
  <2>3. q \in Letters
    BY <1>3, <2>2, UptoIs DEF Letters
  <2>4. Upto(b, l) = Cat(p, q)
    BY <1>3, <2>2, PartsOfCat
  <2>5. From(b, l + 1) = From(c, k + 1)
    <3> DEFINE m == k + 1
    <3>1. m \in 1 .. Len(c) + 1 /\ l + 1 = Len(p) + m
      BY <1>4, <2>2
    <3> HIDE DEF m
    <3>2. From(b, Len(p) + m) = From(c, m)
      BY <1>3, <3>1, PartsOfCat
    <3>3. From(b, l + 1) = From(c, m)
      BY <3>1, <3>2
    <3> QED BY <3>3 DEF m
  <2> HIDE DEF q
  <2>6. Kept(b, in).pieces = Piece(KindOf(in), Cat(p, q)) /\ Kept(c, in).pieces = Piece(KindOf(in), q)
    BY <2>4 DEF Kept, k, l, q
  <2>7. Kept(b, in).buffer = Kept(c, in).buffer /\ Kept(b, in).inside = in /\ Kept(c, in).inside = in
    BY <2>5 DEF Kept, k, l
  <2>8. Cat(p, q) \in Letters
    BY <2>3, CatTyped
  <2>9. /\ Con(Piece(KindOf(in), Cat(p, q))) = (IF in THEN <<>> ELSE Cat(p, q))
        /\ Thk(Piece(KindOf(in), Cat(p, q))) = (IF in THEN Cat(p, q) ELSE <<>>)
    BY <2>8, TextsOfOne
  <2>10. /\ Con(Piece(KindOf(in), q)) = (IF in THEN <<>> ELSE q)
         /\ Thk(Piece(KindOf(in), q)) = (IF in THEN q ELSE <<>>)
    BY <2>3, TextsOfOne
  <2>11. Cat(<<>>, <<>>) = <<>>
    BY NoText, CatNone
  <2> QED BY <1>2, <1>8, <2>1, <2>6, <2>7, <2>9, <2>10, <2>11 DEF Same, b, c
<1>10. CASE ~NoTag(c, in)
  <2>1. PICK i, j : FirstTag(c, in, i, j)
    BY <1>3, <1>10, FirstIs
  <2>2. FirstTag(b, in, Len(p) + i, Len(p) + j)
    BY <1>6, <2>1
  <2>3. i \in 1 .. Len(c) /\ j \in i + 2 .. Len(c)
    BY <1>3, <2>1, TagWithin DEF FirstTag
  <2> DEFINE q == Upto(c, i - 1)
             f == From(c, j + 1)
  <2>4. q \in Letters /\ f \in Letters
    BY <1>3, <2>1, AfterTag DEF FirstTag
  <2>5. Upto(b, (Len(p) + i) - 1) = Cat(p, q)
    <3> DEFINE n == i - 1
    <3>1. n \in 0 .. Len(c) /\ (Len(p) + i) - 1 = Len(p) + n
      BY <1>4, <2>3
    <3> HIDE DEF n
    <3>2. Upto(b, Len(p) + n) = Cat(p, Upto(c, n))
      BY <1>3, <3>1, PartsOfCat
    <3>3. Upto(b, (Len(p) + i) - 1) = Cat(p, Upto(c, n))
      BY <3>1, <3>2
    <3> QED BY <3>3 DEF n
  <2>6. From(b, Len(p) + j + 1) = f
    <3> DEFINE m == j + 1
    <3>1. m \in 1 .. Len(c) + 1 /\ Len(p) + j + 1 = Len(p) + m
      BY <1>4, <2>3
    <3> HIDE DEF m
    <3>2. From(b, Len(p) + m) = From(c, m)
      BY <1>3, <3>1, PartsOfCat
    <3>3. From(b, Len(p) + j + 1) = From(c, m)
      BY <3>1, <3>2
    <3> QED BY <3>3 DEF m
  <2>7. Split(c, in) = Fronted(Piece(KindOf(in), q), Split(f, ~in))
    BY <1>3, <2>1, SplitTag DEF SplitAt
  <2>8. Split(b, in) = Fronted(Piece(KindOf(in), Cat(p, q)), Split(f, ~in))
    <3>1. Split(b, in) = Fronted(Piece(KindOf(in), Cat(p, q)), Split(f, ~in))
      <4>1. Split(b, in) = SplitAt(b, in, Len(p) + i, Len(p) + j)
        BY <1>3, <2>2, SplitTag
      <4> DEFINE x == Len(p) + i
                 y == Len(p) + j
      <4>2. Upto(b, x - 1) = Cat(p, q) /\ From(b, y + 1) = f
        BY <2>5, <2>6
      <4> HIDE DEF x, y, q, f
      <4>3. SplitAt(b, in, x, y) = Fronted(Piece(KindOf(in), Cat(p, q)), Split(f, ~in))
        BY <4>2, SplitAtIs
      <4> QED BY <4>1, <4>3, Zenon DEF x, y
    <3> QED BY <3>1
  <2> HIDE DEF q, f
  <2>9. Split(f, ~in) \in FeedSet /\ Cat(p, q) \in Letters
    BY <2>4, SplitTyped, CatTyped
  <2>10. Piece(KindOf(in), q) \in Seq(PieceSet) /\ Piece(KindOf(in), Cat(p, q)) \in Seq(PieceSet)
    BY <2>4, <2>9, PieceIs
  <2> DEFINE s == Split(f, ~in)
             x == Con(s.pieces)
             y == Thk(s.pieces)
  <2>11. /\ Con(Split(c, in).pieces) = Cat(Con(Piece(KindOf(in), q)), x)
         /\ Thk(Split(c, in).pieces) = Cat(Thk(Piece(KindOf(in), q)), y)
         /\ Split(c, in).buffer = s.buffer /\ Split(c, in).inside = s.inside
    BY <2>7, <2>9, <2>10, SameFronted DEF Same
  <2>12. /\ Con(Split(b, in).pieces) = Cat(Con(Piece(KindOf(in), Cat(p, q))), x)
         /\ Thk(Split(b, in).pieces) = Cat(Thk(Piece(KindOf(in), Cat(p, q))), y)
         /\ Split(b, in).buffer = s.buffer /\ Split(b, in).inside = s.inside
    BY <2>8, <2>9, <2>10, SameFronted DEF Same
  <2>13. x \in Letters /\ y \in Letters
    BY <2>9, FeedTexts
  <2> HIDE DEF s, x, y
  <2>14. /\ Con(Piece(KindOf(in), Cat(p, q))) = (IF in THEN <<>> ELSE Cat(p, q))
         /\ Thk(Piece(KindOf(in), Cat(p, q))) = (IF in THEN Cat(p, q) ELSE <<>>)
    BY <2>9, TextsOfOne
  <2>15. /\ Con(Piece(KindOf(in), q)) = (IF in THEN <<>> ELSE q)
         /\ Thk(Piece(KindOf(in), q)) = (IF in THEN q ELSE <<>>)
    BY <2>4, TextsOfOne
  <2>16. /\ Cat(Cat(p, q), x) = Cat(p, Cat(q, x)) /\ Cat(Cat(p, q), y) = Cat(p, Cat(q, y))
    BY <2>4, <2>13, CatCat
  <2>17. Cat(<<>>, x) = x /\ Cat(<<>>, y) = y
    BY <2>13, CatNone
  <2>18. /\ Con(Split(b, in).pieces) = Cat(Con(Piece(KindOf(in), p)), Con(Split(c, in).pieces))
         /\ Thk(Split(b, in).pieces) = Cat(Thk(Piece(KindOf(in), p)), Thk(Split(c, in).pieces))
    BY <1>8, <2>11, <2>12, <2>14, <2>15, <2>16, <2>17
  <2> QED BY <1>2, <2>11, <2>12, <2>18 DEF Same, b, c
<1> QED BY <1>9, <1>10
(***************************************************************************)
(* The first tag of a buffer is the first one when it goes on.             *)
(***************************************************************************)
LEMMA FirstStays ==
  ASSUME NEW b \in Letters, NEW v \in Letters, NEW in \in BOOLEAN,
         NEW i, NEW j, FirstTag(b, in, i, j)
  PROVE  FirstTag(Cat(b, v), in, i, j)
<1> DEFINE c == Cat(b, v)
<1>1. c \in Letters /\ Len(c) = Len(b) + Len(v) /\ Len(b) \in Nat /\ Len(v) \in Nat
  BY CatTyped, LenProperties DEF Letters
<1>2. Tag(b, in, i, j) /\ \A x, y : Tag(b, in, x, y) => i <= x
  BY DEF FirstTag
<1>3. i \in 1 .. Len(b) /\ j \in i + 2 .. Len(b)
  BY <1>2, TagWithin
<1>4. Tag(c, in, i, j)
  BY <1>2, TagsOfCat
<1>5. \A x, y : Tag(c, in, x, y) /\ y <= Len(b) => Tag(b, in, x, y)
  BY TagsOfCat
<1> HIDE DEF c
<1>6. ASSUME NEW x, NEW y, Tag(c, in, x, y) PROVE i <= x
  <2>1. x \in 1 .. Len(c) /\ y \in x + 2 .. Len(c)
    BY <1>1, <1>6, TagWithin
  <2>2. CASE y <= Len(b)
    BY <1>2, <1>5, <1>6, <2>2
  <2>3. CASE ~(y <= Len(b)) /\ ~(i <= x)
    <3>1. CASE in
      <4>1. y = x + 3 /\ j = i + 3
        BY <1>2, <1>6, <3>1 DEF Tag
      <4> QED BY <4>1, <2>1, <2>3, <1>1, <1>3
    <3>2. CASE ~in
      <4>1. c[j] = ">" /\ \A z \in x + 2 .. y - 1 : c[z] # ">"
        BY <1>4, <1>6, <3>2 DEF Tag
      <4>2. j \in x + 2 .. y - 1
        BY <2>1, <2>3, <1>1, <1>3
      <4> QED BY <4>1, <4>2
    <3> QED BY <3>1, <3>2
  <2> QED BY <2>2, <2>3
<1>7. FirstTag(c, in, i, j)
  BY <1>4, <1>6 DEF FirstTag
<1> QED BY <1>7 DEF c

(***************************************************************************)
(* The parts of a text around its first tag, when it goes on too.          *)
(***************************************************************************)
LEMMA AroundTag ==
  ASSUME NEW b \in Letters, NEW v \in Letters, NEW in \in BOOLEAN,
         NEW i, NEW j, FirstTag(b, in, i, j)
  PROVE  /\ Upto(b, i - 1) \in Letters /\ From(b, j + 1) \in Letters /\ Upto(b, j) \in Letters
         /\ Cat(Upto(b, j), From(b, j + 1)) = b
         /\ Upto(Cat(b, v), i - 1) = Upto(b, i - 1)
         /\ From(Cat(b, v), j + 1) = Cat(From(b, j + 1), v)
         /\ Split(b, in) = Fronted(Piece(KindOf(in), Upto(b, i - 1)), Split(From(b, j + 1), ~in))
<1>1. Tag(b, in, i, j)
  BY DEF FirstTag
<1>2. i \in 1 .. Len(b) /\ j \in i + 2 .. Len(b) /\ Len(b) \in Nat
  BY <1>1, TagWithin
<1>3. Upto(b, i - 1) \in Letters /\ From(b, j + 1) \in Letters
  BY <1>1, AfterTag
<1>4. i - 1 \in 0 .. Len(b) /\ j + 1 \in 1 .. Len(b) + 1 /\ j \in 0 .. Len(b)
  BY <1>2
<1>5. Upto(Cat(b, v), i - 1) = Upto(b, i - 1) /\ From(Cat(b, v), j + 1) = Cat(From(b, j + 1), v)
  BY <1>4, PartsOfCat
<1>6. Upto(b, j) \in Letters
  BY <1>4, UptoIs DEF Letters
<1>7. Cat(Upto(b, j), From(b, j + 1)) = b
  BY <1>4, UptoFrom DEF Letters, Cat
<1>8. Split(b, in) = Fronted(Piece(KindOf(in), Upto(b, i - 1)), Split(From(b, j + 1), ~in))
  BY SplitTag DEF SplitAt
<1> QED BY <1>3, <1>5, <1>6, <1>7, <1>8

\* A buffer is read the same when it goes on after a delta, and what is held
\* of it is its end, without a tag.
ReadsOn(b, in) ==
  LET s == Split(b, in)
  IN  \A v \in Letters : Same(Split(Cat(b, v), in), Con(s.pieces), Thk(s.pieces),
                              Split(Cat(s.buffer, v), s.inside))
\* What is held of b in a mode is its end, has no tag and is all held.
Withholds(b, in) ==
  LET s == Split(b, in)
  IN  /\ NoTag(s.buffer, s.inside) /\ KeptOf(s.buffer, s.inside) = 0
      /\ \E p \in Letters : b = Cat(p, s.buffer)

(***************************************************************************)
(* Of a buffer that is not cut in a tag.                                   *)
(***************************************************************************)
LEMMA ReadOn ==
  ASSUME NEW b \in Letters, NEW in \in BOOLEAN, ~CutInTag(b)
  PROVE  ReadsOn(b, in)
<1> DEFINE G == {s \in Letters \X BOOLEAN : CutInTag(s[1]) \/ ReadsOn(s[1], s[2])}
<1>0. \A c \in Letters, d \in BOOLEAN : <<c, d>> \in G <=> CutInTag(c) \/ ReadsOn(c, d)
  OBVIOUS
<1>3. G \in SUBSET (Letters \X BOOLEAN)
  OBVIOUS
<1> HIDE DEF G
<1>1. ASSUME NEW c \in Letters, NEW d \in BOOLEAN, NoTag(c, d) PROVE <<c, d>> \in G
  <2>1. ASSUME ~CutInTag(c) PROVE ReadsOn(c, d)
    <3>1. Split(c, d) = Kept(c, d)
      BY <1>1, SplitKept
    <3>2. \A v \in Letters : Same(Split(Cat(c, v), d), Con(Kept(c, d).pieces), Thk(Kept(c, d).pieces),
              Split(Cat(Kept(c, d).buffer, v), Kept(c, d).inside))
      BY <1>1, <2>1, KeptReads
    <3> QED BY <3>1, <3>2, Zenon DEF ReadsOn
  <2> QED BY <1>0, <2>1
<1>2. ASSUME NEW c \in Letters, NEW d \in BOOLEAN, NEW i, NEW j, FirstTag(c, d, i, j),
             <<From(c, j + 1), ~d>> \in G
      PROVE  <<c, d>> \in G
  <2>1. ASSUME ~CutInTag(c), NEW v \in Letters
        PROVE  Same(Split(Cat(c, v), d), Con(Split(c, d).pieces), Thk(Split(c, d).pieces),
                    Split(Cat(Split(c, d).buffer, v), Split(c, d).inside))
    <3> DEFINE q == Upto(c, i - 1)
               f == From(c, j + 1)
               a == Upto(c, j)
               o == ~d
               e == Piece(KindOf(d), q)
    <3>1. /\ q \in Letters /\ f \in Letters /\ a \in Letters /\ Cat(a, f) = c
          /\ Upto(Cat(c, v), i - 1) = q /\ From(Cat(c, v), j + 1) = Cat(f, v)
          /\ Split(c, d) = Fronted(e, Split(f, o))
      BY <1>2, AroundTag
    <3>2. FirstTag(Cat(c, v), d, i, j) /\ Cat(c, v) \in Letters
      BY <1>2, FirstStays, CatTyped
    <3>3. Split(Cat(c, v), d) = SplitAt(Cat(c, v), d, i, j)
      BY <3>2, SplitTag
    <3>4. SplitAt(Cat(c, v), d, i, j) = Fronted(e, Split(Cat(f, v), o))
      BY <3>1, SplitAtIs
    <3>5. o \in BOOLEAN /\ <<f, o>> \in G
      BY <1>2
    <3>6. e \in Seq(PieceSet)
      BY <3>1, PieceIs
    <3> HIDE DEF q, f, a, o, e
    <3>7. ~CutInTag(f)
      BY <2>1, <3>1, CutOfRest DEF Cat
    <3>8. ReadsOn(f, o)
      BY <1>0, <3>1, <3>5, <3>7
    <3> DEFINE s == Split(f, o)
               t == Split(Cat(f, v), o)
               u == Split(Cat(s.buffer, v), s.inside)
    <3>9. Same(t, Con(s.pieces), Thk(s.pieces), u)
      BY <3>8 DEF ReadsOn
    <3>10. s \in FeedSet /\ t \in FeedSet
      BY <3>1, <3>5, CatTyped, SplitTyped
    <3>11. /\ s.pieces \in Seq(PieceSet) /\ s.buffer \in Letters /\ s.inside \in BOOLEAN
           /\ Con(s.pieces) \in Letters /\ Thk(s.pieces) \in Letters
      BY <3>10, FeedTexts
    <3>12. u \in FeedSet
      BY <3>11, CatTyped, SplitTyped
    <3>13. Split(c, d) = Fronted(e, s) /\ Split(Cat(c, v), d) = Fronted(e, t)
      BY <3>1, <3>3, <3>4
    <3>14. /\ Fronted(e, s).pieces = Cat(e, s.pieces)
           /\ Fronted(e, s).buffer = s.buffer /\ Fronted(e, s).inside = s.inside
      BY <3>6, <3>10, FrontedIs
    <3>15. u = Split(Cat(Split(c, d).buffer, v), Split(c, d).inside)
      BY <3>13, <3>14
    <3> HIDE DEF s, t, u
    <3>16. Same(Fronted(e, t), Con(e), Thk(e), t)
      BY <3>6, <3>10, SameFronted
    <3>17. Fronted(e, t) \in FeedSet /\ Con(e) \in Letters /\ Thk(e) \in Letters
      BY <3>6, <3>10, FrontedIs, TextsOfSplit
    <3>18. Same(Fronted(e, t), Cat(Con(e), Con(s.pieces)), Cat(Thk(e), Thk(s.pieces)), u)
      BY <3>9, <3>10, <3>11, <3>12, <3>16, <3>17, SameSame
    <3>19. Con(Cat(e, s.pieces)) = Cat(Con(e), Con(s.pieces))
           /\ Thk(Cat(e, s.pieces)) = Cat(Thk(e), Thk(s.pieces))
      BY <3>6, <3>11, TextsOfSplit
    <3>20. Same(Split(Cat(c, v), d), Con(Split(c, d).pieces), Thk(Split(c, d).pieces), u)
      BY <3>13, <3>14, <3>18, <3>19
    <3> QED BY <3>15, <3>20
  <2>2. ~CutInTag(c) => ReadsOn(c, d)
    BY <2>1 DEF ReadsOn
  <2> QED BY <1>0, <2>2
<1>4. \A c \in Letters, d \in BOOLEAN : <<c, d>> \in G
  BY <1>1, <1>2, <1>3, BySplitting
<1> QED BY <1>0, <1>4

(***************************************************************************)
(* What the splitter holds back is the end of its buffer, without a tag    *)
(* and itself all held back.                                               *)
(***************************************************************************)
LEMMA HoldsEnd ==
  ASSUME NEW b \in Letters, NEW in \in BOOLEAN
  PROVE  Withholds(b, in)
<1> DEFINE G == {s \in Letters \X BOOLEAN : Withholds(s[1], s[2])}
<1>0. \A c \in Letters, d \in BOOLEAN : <<c, d>> \in G <=> Withholds(c, d)
  OBVIOUS
<1>3. G \in SUBSET (Letters \X BOOLEAN)
  OBVIOUS
<1> HIDE DEF G
<1>1. ASSUME NEW c \in Letters, NEW d \in BOOLEAN, NoTag(c, d) PROVE <<c, d>> \in G
  <2>1. Split(c, d) = Kept(c, d)
    BY <1>1, SplitKept
  <2>2. PICK p \in Letters, w \in Letters :
           /\ Len(p) = KeptOf(c, d) /\ w = From(c, KeptOf(c, d) + 1)
           /\ Cat(p, w) = c
           /\ KeptOf(Cat(c, <<>>), d) = Len(p) + KeptOf(Cat(w, <<>>), d)
    BY NoText, KeptJoined
  <2>3. Split(c, d).buffer = w /\ Split(c, d).inside = d
    BY <2>1, <2>2 DEF Kept
  <2>4. KeptOf(w, d) = 0
    <3>1. Cat(c, <<>>) = c /\ Cat(w, <<>>) = w
      BY CatNone
    <3>2. Len(p) = Len(p) + KeptOf(w, d)
      BY <2>2, <3>1
    <3>3. Len(p) \in Nat /\ KeptOf(w, d) \in Nat
      BY LenProperties, KeptIs DEF Letters
    <3> QED BY <3>2, <3>3
  <2>5. NoTag(w, d)
    <3>1. \A i, j : Tag(w, d, i, j) => i \in Nat /\ j \in Nat
      BY TagWithin
    <3>2. \A i, j : i \in Nat /\ j \in Nat => (Tag(w, d, i, j) => Tag(c, d, Len(p) + i, Len(p) + j))
      BY <2>2, TagsOfCat
    <3> QED BY <1>1, <3>1, <3>2 DEF NoTag
  <2>6. Withholds(c, d)
    BY <2>2, <2>3, <2>4, <2>5 DEF Withholds
  <2> QED BY <1>0, <2>6
<1>2. ASSUME NEW c \in Letters, NEW d \in BOOLEAN, NEW i, NEW j, FirstTag(c, d, i, j),
             <<From(c, j + 1), ~d>> \in G
      PROVE  <<c, d>> \in G
  <2> DEFINE q == Upto(c, i - 1)
             f == From(c, j + 1)
             a == Upto(c, j)
             o == ~d
             e == Piece(KindOf(d), q)
  <2>1. /\ q \in Letters /\ f \in Letters /\ a \in Letters /\ Cat(a, f) = c
        /\ Split(c, d) = Fronted(e, Split(f, o))
    BY <1>2, NoText, AroundTag
  <2>2. o \in BOOLEAN /\ <<f, o>> \in G /\ e \in Seq(PieceSet)
    BY <1>2, <2>1, PieceIs
  <2> HIDE DEF q, f, a, o, e
  <2>3. Withholds(f, o)
    BY <1>0, <2>1, <2>2
  <2> DEFINE s == Split(f, o)
  <2>4. s \in FeedSet
    BY <2>1, <2>2, SplitTyped
  <2>5. NoTag(s.buffer, s.inside) /\ KeptOf(s.buffer, s.inside) = 0
        /\ \E p \in Letters : f = Cat(p, s.buffer)
    BY <2>3 DEF Withholds
  <2>6. s.buffer \in Letters
    BY <2>4, FeedTexts
  <2>7. Split(c, d).buffer = s.buffer /\ Split(c, d).inside = s.inside
    BY <2>1, <2>2, <2>4, FrontedIs
  <2> HIDE DEF s
  <2>8. PICK p \in Letters : f = Cat(p, s.buffer)
    BY <2>5
  <2>9. c = Cat(Cat(a, p), s.buffer) /\ Cat(a, p) \in Letters
    <3> DEFINE w == s.buffer
    <3>1. w \in Letters /\ c = Cat(a, Cat(p, w))
      BY <2>1, <2>6, <2>8
    <3> HIDE DEF w
    <3>2. Cat(Cat(a, p), w) = Cat(a, Cat(p, w))
      BY <2>1, <3>1, CatCat
    <3>3. Cat(a, p) \in Letters
      BY <2>1, CatTyped
    <3> QED BY <3>1, <3>2, <3>3 DEF w
  <2>10. Withholds(c, d)
    BY <2>5, <2>7, <2>9 DEF Withholds
  <2> QED BY <1>0, <2>10
<1>4. \A c \in Letters, d \in BOOLEAN : <<c, d>> \in G
  BY <1>1, <1>2, <1>3, BySplitting
<1> QED BY <1>0, <1>4
\* The characters of x are in y, in their order.
Within(x, y) ==
  \E g \in [1 .. Len(x) -> 1 .. Len(y)] :
    /\ \A i \in 1 .. Len(x) : y[g[i]] = x[i]
    /\ \A i, j \in 1 .. Len(x) : i < j => g[i] < g[j]

(***************************************************************************)
(* Every text is in itself, and the text without a character in each.      *)
(***************************************************************************)
LEMMA WithinSelf ==
  ASSUME NEW x \in Letters
  PROVE  Within(x, x) /\ Within(<<>>, x)
<1>1. Len(x) \in Nat
  BY LenProperties DEF Letters
<1>2. Within(x, x)
  <2> DEFINE g == [i \in 1 .. Len(x) |-> i]
  <2>1. g \in [1 .. Len(x) -> 1 .. Len(x)] /\ \A i \in 1 .. Len(x) : g[i] = i
    OBVIOUS
  <2>2. \A i, j \in 1 .. Len(x) : i < j => g[i] < g[j]
    BY <2>1
  <2> HIDE DEF g
  <2> QED BY <2>1, <2>2 DEF Within
<1>3. Within(<<>>, x)
  <2> DEFINE n == Len(<<>>)
             g == [i \in 1 .. n |-> i]
  <2>1. n = 0
    OBVIOUS
  <2>2. 1 .. n = {}
    BY <2>1
  <2>3. g \in [1 .. n -> 1 .. Len(x)]
    BY <2>2
  <2> HIDE DEF g, n
  <2>4. \E k \in [1 .. n -> 1 .. Len(x)] :
          /\ \A i \in 1 .. n : x[k[i]] = <<>>[i]
          /\ \A i, j \in 1 .. n : i < j => k[i] < k[j]
    BY <2>2, <2>3
  <2> QED BY <2>4 DEF Within, n
<1> QED BY <1>2, <1>3

(***************************************************************************)
(* What is within a text is within what that is within.                    *)
(***************************************************************************)
LEMMA WithinWithin ==
  ASSUME NEW x \in Letters, NEW y \in Letters, NEW z \in Letters, Within(x, y), Within(y, z)
  PROVE  Within(x, z)
<1>1. PICK g \in [1 .. Len(x) -> 1 .. Len(y)] :
        /\ \A i \in 1 .. Len(x) : y[g[i]] = x[i]
        /\ \A i, j \in 1 .. Len(x) : i < j => g[i] < g[j]
  BY DEF Within
<1>2. PICK k \in [1 .. Len(y) -> 1 .. Len(z)] :
        /\ \A i \in 1 .. Len(y) : z[k[i]] = y[i]
        /\ \A i, j \in 1 .. Len(y) : i < j => k[i] < k[j]
  BY DEF Within
<1> DEFINE m == [i \in 1 .. Len(x) |-> k[g[i]]]
<1>3. \A i \in 1 .. Len(x) : m[i] = k[g[i]] /\ g[i] \in 1 .. Len(y)
  OBVIOUS
<1>4. m \in [1 .. Len(x) -> 1 .. Len(z)]
  OBVIOUS
<1> HIDE DEF m
<1>5. \A i \in 1 .. Len(x) : z[m[i]] = x[i]
  BY <1>1, <1>2, <1>3
<1>6. \A i, j \in 1 .. Len(x) : i < j => m[i] < m[j]
  BY <1>1, <1>2, <1>3
<1> QED BY <1>4, <1>5, <1>6 DEF Within

(***************************************************************************)
(* The characters of two texts are within the two they are within.         *)
(***************************************************************************)
LEMMA WithinCat ==
  ASSUME NEW a \in Letters, NEW b \in Letters, NEW c \in Letters, NEW d \in Letters,
         Within(a, c), Within(b, d)
  PROVE  Within(Cat(a, b), Cat(c, d))
<1>1. PICK g \in [1 .. Len(a) -> 1 .. Len(c)] :
        /\ \A i \in 1 .. Len(a) : c[g[i]] = a[i]
        /\ \A i, j \in 1 .. Len(a) : i < j => g[i] < g[j]
  BY DEF Within
<1>2. PICK k \in [1 .. Len(b) -> 1 .. Len(d)] :
        /\ \A i \in 1 .. Len(b) : d[k[i]] = b[i]
        /\ \A i, j \in 1 .. Len(b) : i < j => k[i] < k[j]
  BY DEF Within
<1>0. Len(a) \in Nat /\ Len(b) \in Nat /\ Len(c) \in Nat /\ Len(d) \in Nat
  BY LenProperties DEF Letters
<1> DEFINE x == Cat(a, b)
           y == Cat(c, d)
<1>3. /\ Len(x) = Len(a) + Len(b)
      /\ \A i \in 1 .. Len(a) + Len(b) : x[i] = IF i <= Len(a) THEN a[i] ELSE b[i - Len(a)]
  BY ConcatProperties DEF Cat, Letters
<1>4. /\ Len(y) = Len(c) + Len(d)
      /\ \A i \in 1 .. Len(c) + Len(d) : y[i] = IF i <= Len(c) THEN c[i] ELSE d[i - Len(c)]
  BY ConcatProperties DEF Cat, Letters
<1> DEFINE m == [i \in 1 .. Len(x) |-> IF i <= Len(a) THEN g[i] ELSE Len(c) + k[i - Len(a)]]
<1>5. \A i \in 1 .. Len(a) : g[i] \in 1 .. Len(c)
  OBVIOUS
<1>6. \A i \in 1 .. Len(b) : k[i] \in 1 .. Len(d)
  OBVIOUS
<1> HIDE DEF x, y
<1>61. \A i \in 1 .. Len(x) : m[i] = IF i <= Len(a) THEN g[i] ELSE Len(c) + k[i - Len(a)]
  OBVIOUS
<1>62. ASSUME NEW i \in 1 .. Len(x), i <= Len(a)
       PROVE  i \in 1 .. Len(a) /\ m[i] = g[i] /\ m[i] \in 1 .. Len(c) /\ x[i] = a[i]
  BY <1>0, <1>3, <1>5, <1>61, <1>62
<1>63. ASSUME NEW i \in 1 .. Len(x), ~(i <= Len(a))
       PROVE  /\ i - Len(a) \in 1 .. Len(b) /\ m[i] = Len(c) + k[i - Len(a)]
              /\ k[i - Len(a)] \in 1 .. Len(d) /\ x[i] = b[i - Len(a)]
              /\ m[i] > Len(c) /\ m[i] - Len(c) = k[i - Len(a)]
  <2>1. i - Len(a) \in 1 .. Len(b) /\ x[i] = b[i - Len(a)]
    BY <1>0, <1>3, <1>63
  <2>2. k[i - Len(a)] \in 1 .. Len(d) /\ m[i] = Len(c) + k[i - Len(a)]
    BY <2>1, <1>6, <1>61, <1>63
  <2> QED BY <2>1, <2>2, <1>0
<1>7. \A i \in 1 .. Len(x) :
        /\ i <= Len(a) => i \in 1 .. Len(a) /\ m[i] = g[i] /\ m[i] \in 1 .. Len(c) /\ x[i] = a[i]
        /\ ~(i <= Len(a)) => /\ i - Len(a) \in 1 .. Len(b) /\ m[i] = Len(c) + k[i - Len(a)]
                             /\ k[i - Len(a)] \in 1 .. Len(d) /\ x[i] = b[i - Len(a)]
                             /\ m[i] > Len(c) /\ m[i] - Len(c) = k[i - Len(a)]
  BY <1>62, <1>63
<1>8. m \in [1 .. Len(x) -> 1 .. Len(y)]
  <2>1. \A i \in 1 .. Len(x) : m[i] \in 1 .. Len(y)
    BY <1>0, <1>4, <1>7
  <2> QED BY <2>1
<1> HIDE DEF m
<1>9. ASSUME NEW i \in 1 .. Len(x) PROVE y[m[i]] = x[i]
  <2>1. m[i] \in 1 .. Len(c) + Len(d)
    BY <1>4, <1>8
  <2>2. CASE i <= Len(a)
    BY <2>1, <2>2, <1>0, <1>1, <1>4, <1>7
  <2>3. CASE ~(i <= Len(a))
    <3> DEFINE n == i - Len(a)
    <3>1. n \in 1 .. Len(b) /\ x[i] = b[n] /\ ~(m[i] <= Len(c)) /\ m[i] - Len(c) = k[n]
      BY <2>3, <1>0, <1>7
    <3> HIDE DEF n
    <3>2. y[m[i]] = d[m[i] - Len(c)]
      BY <2>1, <3>1, <1>4
    <3> QED BY <3>1, <3>2, <1>2
  <2> QED BY <2>2, <2>3
<1>10. ASSUME NEW i \in 1 .. Len(x), NEW j \in 1 .. Len(x), i < j PROVE m[i] < m[j]
  <2>1. CASE j <= Len(a)
    <3>1. i <= Len(a)
      BY <1>10, <2>1, <1>0, <1>3
    <3> QED BY <2>1, <3>1, <1>1, <1>7, <1>10
  <2>2. CASE i <= Len(a) /\ ~(j <= Len(a))
    <3>1. m[i] \in 1 .. Len(c)
      BY <2>2, <1>7
    <3>2. m[j] = Len(c) + k[j - Len(a)] /\ k[j - Len(a)] \in 1 .. Len(d)
      BY <2>2, <1>7
    <3> QED BY <3>1, <3>2, <1>0
  <2>3. CASE ~(i <= Len(a))
    <3>1. ~(j <= Len(a))
      BY <1>10, <2>3, <1>0, <1>3
    <3>2. i - Len(a) < j - Len(a) /\ i - Len(a) \in 1 .. Len(b) /\ j - Len(a) \in 1 .. Len(b)
      BY <1>10, <2>3, <3>1, <1>0, <1>3, <1>7
    <3>3. k[i - Len(a)] < k[j - Len(a)]
      BY <3>2, <1>2
    <3> QED BY <2>3, <3>1, <3>2, <3>3, <1>0, <1>6, <1>7
  <2> QED BY <2>1, <2>2, <2>3
<1> QED BY <1>8, <1>9, <1>10 DEF Within, x, y

\* Where the n-th character of s is looked for in t.
Later(s, t, n, p) == {i \in DOMAIN t : p < i /\ t[i] = s[n]}

(***************************************************************************)
(* Of a set of numbers that is not empty, Least() is the least.            *)
(***************************************************************************)
LEMMA LeastIs ==
  ASSUME NEW T \in SUBSET Nat, T # {}
  PROVE  Least(T) \in T /\ \A y \in T : Least(T) <= y
<1>1. \E x \in T : \A y \in T : x <= y
  BY LeastOf
<1> QED BY <1>1 DEF Least

(***************************************************************************)
(* What is within a text is found in it.                                   *)
(***************************************************************************)
LEMMA WithinInOrder ==
  ASSUME NEW s \in Letters, NEW t \in Letters, Within(s, t)
  PROVE  InOrder(s, t)
<1> DEFINE N == Len(s)
           Next1(n, p) == IF Later(s, t, n, p) = {} THEN Len(t) + 1 ELSE Least(Later(s, t, n, p))
           step == [n \in 1 .. N |-> [p \in Nat |-> Next1(n, p)]]
           Body(f_) == [n \in 0 .. N |-> IF n = 0 THEN 0 ELSE Next1(n, f_[n - 1])]
           c == CHOOSE f_ : f_ = Body(f_)
<1>1. N \in Nat /\ Len(t) \in Nat /\ DOMAIN t = 1 .. Len(t)
  BY LenProperties DEF Letters
<1>2. \A n, p : Later(s, t, n, p) \subseteq 1 .. Len(t) /\ Later(s, t, n, p) \in SUBSET Nat
  BY <1>1 DEF Later
<1>3. ASSUME NEW n, NEW p PROVE Next1(n, p) \in Nat
  <2>1. CASE Later(s, t, n, p) = {}
    BY <1>1, <2>1
  <2>2. CASE Later(s, t, n, p) # {}
    BY <1>2, <2>2, LeastIs
  <2> QED BY <2>1, <2>2
<1> HIDE DEF Next1
<1>4. step \in [1 .. N -> [Nat -> Nat]]
  BY <1>3
<1>5. \A n \in 1 .. N : \A p \in Nat : step[n][p] = Next1(n, p)
  OBVIOUS
<1> HIDE DEF step, N
<1>6. PICK f : Steps(f, N, Nat, 0, step)
  BY <1>1, <1>4, StepByStep
<1>7. f = Body(f)
  <2>1. f \in [0 .. N -> Nat] /\ \A n \in 0 .. N : f[n] = IF n = 0 THEN 0 ELSE step[n][f[n - 1]]
    BY <1>6 DEF Steps
  <2>2. ASSUME NEW n \in 0 .. N PROVE f[n] = IF n = 0 THEN 0 ELSE Next1(n, f[n - 1])
    <3>1. n # 0 => n - 1 \in 0 .. N /\ n \in 1 .. N
      BY <1>1
    <3>2. n # 0 => f[n - 1] \in Nat
      BY <2>1, <3>1
    <3> QED BY <2>1, <3>1, <3>2, <1>5
  <2> QED BY <2>1, <2>2
<1>8. c = Body(c)
  BY <1>7
<1>9. \A n \in 0 .. N : c[n] = IF n = 0 THEN 0 ELSE Next1(n, c[n - 1])
  <2> DEFINE b == Body(c)
  <2>1. \A n \in 0 .. N : b[n] = IF n = 0 THEN 0 ELSE Next1(n, c[n - 1])
    OBVIOUS
  <2>2. c = b
    BY <1>8
  <2> HIDE DEF b, c
  <2> QED BY <2>1, <2>2
<1>11. InOrder(s, t) <=> c[N] <= Len(t)
  BY DEF N, Next1, Later, InOrder
<1> HIDE DEF c
<1>12. PICK g \in [1 .. N -> 1 .. Len(t)] :
        /\ \A i \in 1 .. N : t[g[i]] = s[i]
        /\ \A i, j \in 1 .. N : i < j => g[i] < g[j]
  BY DEF Within, N
<1> DEFINE T == {n \in Nat : n + 1 <= N => c[n + 1] \in Nat /\ c[n + 1] <= g[n + 1]}
<1>13. ASSUME NEW i \in 1 .. N, NEW p \in Nat, p < g[i]
       PROVE  Next1(i, p) \in Nat /\ Next1(i, p) <= g[i]
  <2>1. g[i] \in Later(s, t, i, p)
    BY <1>1, <1>12, <1>13 DEF Later
  <2>2. Next1(i, p) = Least(Later(s, t, i, p))
    BY <2>1 DEF Next1
  <2> QED BY <2>1, <2>2, <1>2, <1>3, LeastIs
<1>14. 0 \in T
  <2>1. 0 + 1 <= N => c[1] \in Nat /\ c[1] <= g[1]
    <3>1. SUFFICES ASSUME 1 <= N PROVE c[1] \in Nat /\ c[1] <= g[1]
      OBVIOUS
    <3>2. 1 \in 1 .. N /\ 0 \in 0 .. N /\ 1 \in 0 .. N /\ 1 - 1 = 0
      BY <3>1, <1>1
    <3>3. c[0] = 0 /\ c[1] = Next1(1, c[1 - 1])
      BY <3>2, <1>9
    <3>4. g[1] \in 1 .. Len(t) /\ 0 < g[1]
      BY <3>2, <1>1
    <3> QED BY <3>2, <3>3, <3>4, <1>13
  <2> QED BY <2>1
<1>15. ASSUME NEW n \in T PROVE n + 1 \in T
  <2>1. n \in Nat /\ (n + 1 <= N => c[n + 1] \in Nat /\ c[n + 1] <= g[n + 1])
    OBVIOUS
  <2> DEFINE i == (n + 1) + 1
  <2>2. ASSUME i <= N PROVE c[i] \in Nat /\ c[i] <= g[i]
    <3>1. /\ i \in 1 .. N /\ i \in 0 .. N /\ i # 0 /\ i - 1 = n + 1 /\ n + 1 <= N
          /\ n + 1 \in 1 .. N /\ n + 1 < i
      BY <2>1, <2>2, <1>1
    <3> HIDE DEF i
    <3>2. c[i] = Next1(i, c[n + 1]) /\ c[n + 1] \in Nat
      BY <2>1, <3>1, <1>9
    <3>3. g[n + 1] < g[i] /\ g[n + 1] \in Nat /\ g[i] \in Nat
      BY <3>1, <1>12, <1>1
    <3>4. c[n + 1] < g[i]
      BY <2>1, <3>1, <3>2, <3>3
    <3> QED BY <3>1, <3>2, <3>4, <1>13
  <2> QED BY <2>1, <2>2
<1>16. T = Nat
  <2>1. T \subseteq Nat
    OBVIOUS
  <2> HIDE DEF T
  <2> QED BY <1>14, <1>15, <2>1, ByInduction
<1>17. c[N] <= Len(t)
  <2>1. CASE N = 0
    BY <2>1, <1>1, <1>9
  <2>2. CASE N # 0
    <3>1. N - 1 \in Nat /\ (N - 1) + 1 = N /\ N \in 1 .. N
      BY <2>2, <1>1
    <3>2. N - 1 \in T
      BY <3>1, <1>16
    <3>3. c[N] \in Nat /\ c[N] <= g[N]
      BY <3>1, <3>2
    <3>4. g[N] \in 1 .. Len(t)
      BY <3>1
    <3> QED BY <3>3, <3>4, <1>1
  <2> QED BY <2>1, <2>2
<1> QED BY <1>11, <1>17
\* What was said, is to be said and is held back is in the content, in order.
Says(f, b, k, c) == Within(Cat(f, Cat(b, k)), c)

(***************************************************************************)
(* The beginning of what is to be said is said.                            *)
(***************************************************************************)
LEMMA SaysNext ==
  ASSUME NEW f \in Letters, NEW u \in Letters, NEW r \in Letters, NEW k \in Letters,
         NEW c \in Letters, Says(f, Cat(u, r), k, c)
  PROVE  Says(Cat(f, u), r, k, c)
<1>1. Cat(r, k) \in Letters
  BY CatTyped
<1>2. Cat(Cat(f, u), Cat(r, k)) = Cat(f, Cat(u, Cat(r, k)))
  BY <1>1, CatCat
<1>3. Cat(Cat(u, r), k) = Cat(u, Cat(r, k))
  BY CatCat
<1> QED BY <1>2, <1>3, Zenon DEF Says

(***************************************************************************)
(* What is to be said, or what is held back, may be dropped.               *)
(***************************************************************************)
LEMMA SaysLess ==
  ASSUME NEW f \in Letters, NEW b \in Letters, NEW k \in Letters, NEW c \in Letters,
         Says(f, b, k, c)
  PROVE  Says(f, <<>>, k, c) /\ Says(f, b, <<>>, c) /\ Says(f, <<>>, <<>>, c)
<1>1. <<>> \in Letters
  BY NoText
<1>2. /\ Within(f, f) /\ Within(b, b) /\ Within(k, k)
      /\ Within(<<>>, b) /\ Within(<<>>, k)
  BY WithinSelf
<1> DEFINE e == <<>>
<1>3. e \in Letters /\ Within(e, b) /\ Within(e, k)
  BY <1>1, <1>2
<1> HIDE DEF e
<1>4. /\ Cat(b, k) \in Letters /\ Cat(e, k) \in Letters
      /\ Cat(b, e) \in Letters /\ Cat(e, e) \in Letters
  BY <1>3, CatTyped
<1>5. /\ Within(Cat(e, k), Cat(b, k)) /\ Within(Cat(b, e), Cat(b, k))
      /\ Within(Cat(e, e), Cat(b, k))
  BY <1>2, <1>3, WithinCat
<1>6. /\ Within(Cat(f, Cat(e, k)), Cat(f, Cat(b, k))) /\ Within(Cat(f, Cat(b, e)), Cat(f, Cat(b, k)))
      /\ Within(Cat(f, Cat(e, e)), Cat(f, Cat(b, k)))
  BY <1>2, <1>4, <1>5, WithinCat
<1>7. /\ Cat(f, Cat(b, k)) \in Letters /\ Cat(f, Cat(e, k)) \in Letters
      /\ Cat(f, Cat(b, e)) \in Letters /\ Cat(f, Cat(e, e)) \in Letters
  BY <1>4, CatTyped
<1>8. Within(Cat(f, Cat(b, k)), c)
  BY DEF Says
<1>9. Says(f, e, k, c) /\ Says(f, b, e, c) /\ Says(f, e, e, c)
  <2>1. Within(Cat(f, Cat(e, k)), c)
    BY <1>6, <1>7, <1>8, WithinWithin
  <2>2. Within(Cat(f, Cat(b, e)), c)
    BY <1>6, <1>7, <1>8, WithinWithin
  <2>3. Within(Cat(f, Cat(e, e)), c)
    BY <1>6, <1>7, <1>8, WithinWithin
  <2> QED BY <2>1, <2>2, <2>3 DEF Says
<1> QED BY <1>9 DEF e

\* What was held back and t are u and what is held back now.
Regrouped(k, t, u, k2) == Cat(u, k2) = Cat(k, t)

(***************************************************************************)
(* The content goes on with t, and what is to be said with it.             *)
(***************************************************************************)
LEMMA SaysMore ==
  ASSUME NEW f \in Letters, NEW b \in Letters, NEW k \in Letters, NEW c \in Letters,
         NEW t \in Letters, NEW u \in Letters, NEW k2 \in Letters,
         Says(f, b, k, c), Regrouped(k, t, u, k2)
  PROVE  Says(f, Cat(b, u), k2, Cat(c, t))
<1> DEFINE bk == Cat(b, k)
           w  == Cat(f, bk)
<1>1. bk \in Letters /\ w \in Letters /\ Cat(k, t) \in Letters /\ Cat(c, t) \in Letters
      /\ Cat(bk, t) \in Letters
  BY CatTyped
<1>2. Within(w, c) /\ Within(t, t)
  BY WithinSelf DEF Says
<1>3. Within(Cat(w, t), Cat(c, t))
  BY <1>1, <1>2, WithinCat
<1>4. Cat(w, t) = Cat(f, Cat(bk, t)) /\ Cat(bk, t) = Cat(b, Cat(k, t))
  <2> HIDE DEF bk
  <2>1. Cat(Cat(f, bk), t) = Cat(f, Cat(bk, t))
    BY <1>1, CatCat
  <2>2. Cat(Cat(b, k), t) = Cat(b, Cat(k, t))
    BY CatCat
  <2> QED BY <2>1, <2>2, Zenon DEF bk
<1>5. Cat(k, t) = Cat(u, k2)
  BY Zenon DEF Regrouped
<1>6. Cat(Cat(b, u), k2) = Cat(b, Cat(u, k2))
  BY CatCat
<1>7. Cat(w, t) = Cat(f, Cat(Cat(b, u), k2))
  BY <1>4, <1>5, <1>6, Zenon
<1> QED BY <1>3, <1>7, Zenon DEF Says

(***************************************************************************)
(* The content goes on, and what is said of it stays in it.                *)
(***************************************************************************)
LEMMA SaysOn ==
  ASSUME NEW f \in Letters, NEW b \in Letters, NEW k \in Letters, NEW c \in Letters,
         NEW t \in Letters, Says(f, b, k, c)
  PROVE  Says(f, b, k, Cat(c, t))
<1> DEFINE e == <<>>
           w == Cat(f, Cat(b, k))
<1>1. e \in Letters /\ Within(e, t) /\ Within(c, c)
  BY NoText, WithinSelf
<1>2. w \in Letters /\ Within(w, c) /\ Cat(c, t) \in Letters
  BY CatTyped DEF Says
<1>3. Cat(w, e) = w
  BY <1>2, CatNone
<1> HIDE DEF w, e
<1>4. Within(Cat(w, e), Cat(c, t))
  BY <1>1, <1>2, WithinCat
<1> QED BY <1>3, <1>4, Zenon DEF Says, w

\* The file events, and the locals of the handler.
FileSet == [event : {"writing", "done"}, file : Letters]
HandlerSet ==
  [content : Letters, held : Letters, buf : Letters, emitting : BOOLEAN,
   suppressed : BOOLEAN, said : Seq(Letters), thoughts : Seq(Letters),
   named : Nat, writing : Letters, files : Seq(FileSet)]

\* No message looks like a structured plan.
AllPlain(said) == \A n \in DOMAIN said : ~looksStructured(said[n])

\* The handler says the content in order and each message is prose.
SaidInOrder(s) ==
  /\ Says(FlattenSeq(s.said), s.buf, s.held, s.content)
  /\ AllPlain(s.said) /\ Len(s.held) \in {0, 3}

\* What is to be said is prose too, between the pieces.
Plain(s) == ~s.suppressed => ~looksStructured(s.buf)

\* Each file that is begun is done before the next one.
Alternate(files) ==
  \A i \in DOMAIN files : files[i].event = IF i % 2 = 1 THEN "writing" ELSE "done"
\* Files are announced as written and done in turns; one is open if one is named.
Filed(s) == Alternate(s.files) /\ (s.writing = <<>> <=> Len(s.files) % 2 = 0)

(***************************************************************************)
(* The fields of the handler.                                              *)
(***************************************************************************)
LEMMA HandlerFields ==
  ASSUME NEW s \in HandlerSet
  PROVE  /\ s.content \in Letters /\ s.held \in Letters /\ s.buf \in Letters
         /\ s.emitting \in BOOLEAN /\ s.suppressed \in BOOLEAN
         /\ s.said \in Seq(Letters) /\ s.thoughts \in Seq(Letters)
         /\ s.named \in Nat /\ s.writing \in Letters /\ s.files \in Seq(FileSet)
BY DEF HandlerSet

(***************************************************************************)
(* A text without a character is not structured.                           *)
(***************************************************************************)
LEMMA NoneIsPlain == ~looksStructured(<<>>)
<1>1. DOMAIN <<>> = {}
  OBVIOUS
<1>2. TrimStart(<<>>) = <<>>
  BY <1>1 DEF TrimStart
<1>3. Places(<<>>, <<"{", "q">>) = {}
  BY <1>1 DEF Places
<1> QED BY <1>2, <1>3 DEF looksStructured

(***************************************************************************)
(* Another message.                                                        *)
(***************************************************************************)
LEMMA OneMore ==
  ASSUME NEW said \in Seq(Letters), NEW t \in Letters
  PROVE  /\ Append(said, t) \in Seq(Letters) /\ Len(Append(said, t)) = Len(said) + 1
         /\ FlattenSeq(said) \in Letters
         /\ FlattenSeq(Append(said, t)) = Cat(FlattenSeq(said), t)
         /\ AllPlain(said) /\ ~looksStructured(t) => AllPlain(Append(said, t))
         /\ \A n \in 1 .. Len(said) : Append(said, t)[n] = said[n]
         /\ Append(said, t)[Len(said) + 1] = t
<1>1. /\ Append(said, t) \in Seq(Letters) /\ Len(Append(said, t)) = Len(said) + 1
      /\ \A n \in 1 .. Len(said) : Append(said, t)[n] = said[n]
      /\ Append(said, t)[Len(said) + 1] = t
  BY AppendProperties
<1>2. FlattenSeq(said) \in Letters /\ FlattenSeq(Append(said, t)) = Cat(FlattenSeq(said), t)
  <2>1. said \in Seq(Seq(Letter)) /\ <<t>> \in Seq(Seq(Letter)) /\ t \in Seq(Letter)
    BY Tuples DEF Letters
  <2>2. Append(said, t) = said \o <<t>>
    BY AppendIsConcat
  <2>3. FlattenSeq(said) \in Seq(Letter) /\ FlattenSeq(said \o <<t>>) = FlattenSeq(said) \o FlattenSeq(<<t>>)
    BY <2>1, FlattenJoined, Zenon
  <2>4. FlattenSeq(<<t>>) = t
    BY <2>1, FlattenOne, Zenon
  <2> QED BY <2>2, <2>3, <2>4, Zenon DEF Cat, Letters
<1>3. ASSUME AllPlain(said), ~looksStructured(t) PROVE AllPlain(Append(said, t))
  <2>1. Len(said) \in Nat /\ DOMAIN said = 1 .. Len(said)
        /\ DOMAIN Append(said, t) = 1 .. Len(Append(said, t))
    BY <1>1, LenProperties
  <2>2. ASSUME NEW n \in DOMAIN Append(said, t) PROVE ~looksStructured(Append(said, t)[n])
    <3>1. n \in 1 .. Len(said) \/ n = Len(said) + 1
      BY <1>1, <2>1
    <3> HIDE DEF AllPlain
    <3>2. CASE n \in 1 .. Len(said)
      <4>1. Append(said, t)[n] = said[n] /\ n \in DOMAIN said
        BY <1>1, <2>1, <3>2
      <4> QED BY <4>1, <1>3, Zenon DEF AllPlain
    <3>3. CASE n = Len(said) + 1
      BY <1>1, <1>3, <3>3, Zenon
    <3> QED BY <3>1, <3>2, <3>3
  <2> QED BY <2>2, Zenon DEF AllPlain
<1> QED BY <1>1, <1>2, <1>3
(***************************************************************************)
(* What each step of a loop keeps, the loop keeps.                         *)
(***************************************************************************)
LEMMA LoopKeeps ==
  ASSUME NEW N \in Nat, NEW Y, NEW c, c[0] \in Y,
         \A n \in 1 .. N : c[n - 1] \in Y => c[n] \in Y
  PROVE  c[N] \in Y
<1> DEFINE T == {n \in Nat : n <= N => c[n] \in Y}
<1>1. 0 \in T
  OBVIOUS
<1>2. ASSUME NEW n \in T PROVE n + 1 \in T
  <2>1. n \in Nat /\ (n <= N => c[n] \in Y)
    OBVIOUS
  <2>2. ASSUME n + 1 <= N PROVE c[n + 1] \in Y
    <3>1. n <= N /\ n + 1 \in 1 .. N /\ (n + 1) - 1 = n
      BY <2>1, <2>2
    <3> QED BY <2>1, <3>1
  <2> QED BY <2>1, <2>2
<1>3. T = Nat
  <2>1. T \subseteq Nat
    OBVIOUS
  <2> HIDE DEF T
  <2> QED BY <1>1, <1>2, <2>1, ByInduction
<1> QED BY <1>3

\* Only what is said and to be said may differ.
Aside(s, r) ==
  /\ r.content = s.content /\ r.held = s.held /\ r.named = s.named
  /\ r.writing = s.writing /\ r.files = s.files

(***************************************************************************)
(* A message grows.                                                        *)
(***************************************************************************)
LEMMA SayIs ==
  ASSUME NEW s \in HandlerSet, NEW t \in Letters
  PROVE  /\ Say(s, t) \in HandlerSet /\ Aside(s, Say(s, t))
         /\ Say(s, t).said = Append(s.said, t) /\ Say(s, t).buf = s.buf
         /\ Say(s, t).suppressed = s.suppressed /\ Say(s, t).emitting = TRUE
<1>1. Append(s.said, t) \in Seq(Letters)
  BY HandlerFields, OneMore
<1> QED BY <1>1 DEF Say, HandlerSet, Aside

(***************************************************************************)
(* A handler that falls quiet says nothing, and forgets what it was about  *)
(* to say.                                                                 *)
(***************************************************************************)
LEMMA QuietIs ==
  ASSUME NEW s \in HandlerSet
  PROVE  /\ Quiet(s) \in HandlerSet /\ Aside(s, Quiet(s))
         /\ Quiet(s).said = s.said /\ Quiet(s).buf = <<>> /\ Quiet(s).suppressed
BY NoText DEF Quiet, HandlerSet, Aside

(***************************************************************************)
(* To close a message is to say an empty text, if one is open.             *)
(***************************************************************************)
LEMMA CloseIs ==
  ASSUME NEW s \in HandlerSet
  PROVE  /\ Close(s) \in HandlerSet /\ Aside(s, Close(s))
         /\ Close(s).said = IF s.emitting THEN Append(s.said, <<>>) ELSE s.said
         /\ Close(s).buf = s.buf /\ Close(s).suppressed = s.suppressed
<1>1. Append(s.said, <<>>) \in Seq(Letters)
  BY NoText, HandlerFields, OneMore
<1> QED BY <1>1 DEF Close, HandlerSet, Aside

\* Another buffer.
Rebuf(s, b) == [s EXCEPT !.buf = b]

(***************************************************************************)
(* Another buffer changes nothing else.                                    *)
(***************************************************************************)
LEMMA RebufIs ==
  ASSUME NEW s \in HandlerSet, NEW b \in Letters
  PROVE  /\ Rebuf(s, b) \in HandlerSet /\ Aside(s, Rebuf(s, b)) /\ Rebuf(s, b).said = s.said
         /\ Rebuf(s, b).buf = b /\ Rebuf(s, b).suppressed = s.suppressed
BY DEF Rebuf, HandlerSet, Aside

(***************************************************************************)
(* Steps that only say may follow each other.                              *)
(***************************************************************************)
LEMMA AsideAside ==
  ASSUME NEW s, NEW r, NEW q, Aside(s, r), Aside(r, q)
  PROVE  Aside(s, q)
BY DEF Aside

(***************************************************************************)
(* A sentence ends within the text.                                        *)
(***************************************************************************)
LEMMA EndsIs ==
  ASSUME NEW b \in Letters, Ends(b) # {}
  PROVE  /\ Least(Ends(b)) \in 1 .. Len(b)
         /\ Upto(b, Least(Ends(b))) \in Letters /\ From(b, Least(Ends(b)) + 1) \in Letters
         /\ Cat(Upto(b, Least(Ends(b))), From(b, Least(Ends(b)) + 1)) = b
<1>1. DOMAIN b = 1 .. Len(b) /\ Len(b) \in Nat
  BY LenProperties DEF Letters
<1>2. Ends(b) \subseteq 1 .. Len(b) /\ Ends(b) \in SUBSET Nat
  BY <1>1 DEF Ends
<1> DEFINE e == Least(Ends(b))
<1>3. e \in 1 .. Len(b)
  BY <1>2, LeastIs
<1> HIDE DEF e
<1>4. e \in 0 .. Len(b) /\ e + 1 \in 1 .. Len(b) + 1
  BY <1>1, <1>3
<1>5. Upto(b, e) \in Letters /\ From(b, e + 1) \in Letters
  BY <1>4, UptoIs, FromIs DEF Letters
<1>6. Cat(Upto(b, e), From(b, e + 1)) = b
  BY <1>4, UptoFrom DEF Letters, Cat
<1> QED BY <1>3, <1>5, <1>6 DEF e

(***************************************************************************)
(* The next sentence is said, or the message is a plan and none is.        *)
(***************************************************************************)
LEMMA SayNextIs ==
  ASSUME NEW s \in HandlerSet
  PROVE  SayNext(s) \in HandlerSet /\ Aside(s, SayNext(s)) /\ (SaidInOrder(s) => SaidInOrder(SayNext(s)))
<1> DEFINE e == Least(Ends(s.buf))
           u == Upto(s.buf, e)
           r == From(s.buf, e + 1)
<1>1. /\ s.content \in Letters /\ s.held \in Letters /\ s.buf \in Letters /\ s.said \in Seq(Letters)
      /\ FlattenSeq(s.said) \in Letters
  BY HandlerFields, NoText, OneMore
<1>2. CASE s.suppressed \/ Ends(s.buf) = {}
  BY <1>2 DEF SayNext, Aside
<1>3. CASE ~(s.suppressed \/ Ends(s.buf) = {}) /\ looksStructured(u)
  <2>1. SayNext(s) = Quiet(s)
    BY <1>3 DEF SayNext
  <2>2. SaidInOrder(s) => SaidInOrder(Quiet(s))
    <3>1. /\ Aside(s, Quiet(s)) /\ Quiet(s).said = s.said /\ Quiet(s).buf = <<>>
      BY QuietIs
    <3>2. SaidInOrder(s) => Says(FlattenSeq(s.said), <<>>, s.held, s.content)
      BY <1>1, SaysLess DEF SaidInOrder
    <3> QED BY <3>1, <3>2 DEF SaidInOrder, Aside
  <2> QED BY <2>1, <2>2, QuietIs
<1>4. CASE ~(s.suppressed \/ Ends(s.buf) = {}) /\ ~looksStructured(u)
  <2>1. u \in Letters /\ r \in Letters /\ Cat(u, r) = s.buf
    BY <1>1, <1>4, EndsIs
  <2> DEFINE m == Say(s, u)
  <2>2. /\ m \in HandlerSet /\ Aside(s, m) /\ m.said = Append(s.said, u) /\ m.buf = s.buf
    BY <2>1, SayIs
  <2>3. SayNext(s) = Rebuf(m, r)
    BY <1>4, <2>2 DEF SayNext, Rebuf
  <2> HIDE DEF m, u, r
  <2>4. /\ Rebuf(m, r) \in HandlerSet /\ Aside(m, Rebuf(m, r)) /\ Rebuf(m, r).said = m.said
        /\ Rebuf(m, r).buf = r
    BY <2>1, <2>2, RebufIs
  <2>5. Aside(s, Rebuf(m, r))
    BY <2>2, <2>4, AsideAside
  <2>6. ASSUME SaidInOrder(s) PROVE SaidInOrder(Rebuf(m, r))
    <3>1. Says(FlattenSeq(s.said), Cat(u, r), s.held, s.content)
      BY <2>1, <2>6 DEF SaidInOrder
    <3>2. Says(Cat(FlattenSeq(s.said), u), r, s.held, s.content)
      BY <1>1, <2>1, <3>1, SaysNext
    <3>3. /\ FlattenSeq(Append(s.said, u)) = Cat(FlattenSeq(s.said), u)
          /\ AllPlain(s.said) /\ ~looksStructured(u) => AllPlain(Append(s.said, u))
      BY <1>1, <2>1, OneMore
    <3>4. AllPlain(Append(s.said, u))
      BY <1>4, <2>6, <3>3 DEF SaidInOrder, u
    <3> QED BY <2>2, <2>4, <2>5, <2>6, <3>2, <3>3, <3>4 DEF SaidInOrder, Aside
  <2> QED BY <2>3, <2>4, <2>5, <2>6
<1> QED BY <1>2, <1>3, <1>4

(***************************************************************************)
(* The whole sentences are said.                                           *)
(***************************************************************************)
LEMMA SayWholeIs ==
  ASSUME NEW s \in HandlerSet
  PROVE  /\ SayWhole(s) \in HandlerSet /\ Aside(s, SayWhole(s))
         /\ SaidInOrder(s) => SaidInOrder(SayWhole(s)) /\ Plain(SayWhole(s))
<1> DEFINE N == Len(s.buf)
           step == [n \in 1 .. N |-> [y \in HandlerSet |-> SayNext(y)]]
           Body(f_) == [n \in 0 .. N |-> IF n = 0 THEN s ELSE SayNext(f_[n - 1])]
           c == CHOOSE f_ : f_ = Body(f_)
<1>1. N \in Nat
  BY HandlerFields, LenProperties DEF Letters
<1>2. step \in [1 .. N -> [HandlerSet -> HandlerSet]]
  BY SayNextIs
<1>3. \A n \in 1 .. N : \A y \in HandlerSet : step[n][y] = SayNext(y)
  OBVIOUS
<1> HIDE DEF step, N
<1>4. PICK f : Steps(f, N, HandlerSet, s, step)
  BY <1>1, <1>2, StepByStep
<1>5. f = Body(f)
  <2>1. f \in [0 .. N -> HandlerSet] /\ \A n \in 0 .. N : f[n] = IF n = 0 THEN s ELSE step[n][f[n - 1]]
    BY <1>4 DEF Steps
  <2>2. ASSUME NEW n \in 0 .. N PROVE f[n] = IF n = 0 THEN s ELSE SayNext(f[n - 1])
    <3>1. n # 0 => n - 1 \in 0 .. N /\ n \in 1 .. N
      BY <1>1
    <3>2. n # 0 => f[n - 1] \in HandlerSet
      BY <2>1, <3>1
    <3> QED BY <2>1, <3>1, <3>2, <1>3
  <2> QED BY <2>1, <2>2
<1>6. c = Body(c)
  BY <1>5
<1>7. \A n \in 0 .. N : c[n] = IF n = 0 THEN s ELSE SayNext(c[n - 1])
  <2> DEFINE b == Body(c)
  <2>1. \A n \in 0 .. N : b[n] = IF n = 0 THEN s ELSE SayNext(c[n - 1])
    OBVIOUS
  <2>2. c = b
    BY <1>6
  <2> HIDE DEF b, c
  <2> QED BY <2>1, <2>2
<1> DEFINE d == c[N]
<1>8. SayWhole(s) = IF d.suppressed \/ looksStructured(d.buf) THEN Quiet(d) ELSE d
  BY DEF SayWhole, N
<1> HIDE DEF c
<1> DEFINE Y == {y \in HandlerSet : Aside(s, y) /\ (SaidInOrder(s) => SaidInOrder(y))}
<1>9. \A y : y \in Y <=> y \in HandlerSet /\ Aside(s, y) /\ (SaidInOrder(s) => SaidInOrder(y))
  OBVIOUS
<1> HIDE DEF Y
<1>10. c[0] \in Y
  <2>1. 0 \in 0 .. N
    BY <1>1
  <2>2. c[0] = s
    BY <2>1, <1>7
  <2> QED BY <2>2, <1>9 DEF Aside
<1>11. ASSUME NEW n \in 1 .. N, c[n - 1] \in Y PROVE c[n] \in Y
  <2>1. n \in 0 .. N /\ n # 0
    OBVIOUS
  <2>2. c[n] = SayNext(c[n - 1])
    BY <2>1, <1>7
  <2> DEFINE y == c[n - 1]
  <2>3. y \in HandlerSet /\ Aside(s, y) /\ (SaidInOrder(s) => SaidInOrder(y))
    BY <1>9, <1>11
  <2> HIDE DEF y
  <2>4. SayNext(y) \in HandlerSet /\ Aside(y, SayNext(y)) /\ (SaidInOrder(y) => SaidInOrder(SayNext(y)))
    BY <2>3, SayNextIs
  <2>5. Aside(s, SayNext(y))
    BY <2>3, <2>4, AsideAside
  <2> QED BY <2>2, <2>3, <2>4, <2>5, <1>9 DEF y
<1>12. d \in Y
  BY <1>1, <1>10, <1>11, LoopKeeps
<1> HIDE DEF d
<1>13. d \in HandlerSet /\ Aside(s, d) /\ (SaidInOrder(s) => SaidInOrder(d))
  BY <1>9, <1>12
<1>14. CASE d.suppressed \/ looksStructured(d.buf)
  <2>1. /\ Quiet(d) \in HandlerSet /\ Aside(d, Quiet(d)) /\ Quiet(d).said = d.said
        /\ Quiet(d).buf = <<>> /\ Quiet(d).suppressed
    BY <1>13, QuietIs
  <2>2. Aside(s, Quiet(d))
    BY <1>13, <2>1, AsideAside
  <2>3. ASSUME SaidInOrder(s) PROVE SaidInOrder(Quiet(d))
    <3>1. /\ d.content \in Letters /\ d.held \in Letters /\ d.buf \in Letters
          /\ d.said \in Seq(Letters)
      BY <1>13, HandlerFields
    <3>2. FlattenSeq(d.said) \in Letters
      BY <3>1, NoText, OneMore
    <3>3. Says(FlattenSeq(d.said), <<>>, d.held, d.content)
      BY <3>1, <3>2, <1>13, <2>3, SaysLess DEF SaidInOrder
    <3> QED BY <2>1, <2>3, <3>3, <1>13 DEF SaidInOrder, Aside
  <2>4. Plain(Quiet(d))
    BY <2>1 DEF Plain
  <2> QED BY <2>1, <2>2, <2>3, <2>4, <1>8, <1>14
<1>15. CASE ~(d.suppressed \/ looksStructured(d.buf))
  BY <1>8, <1>13, <1>15 DEF Plain
<1> QED BY <1>14, <1>15
\* The content grew by t, and nothing of it is said yet.
Grown(s, t, r) ==
  /\ r.content = Cat(s.content, t) /\ r.held = s.held /\ r.buf = s.buf
  /\ r.said = s.said /\ r.suppressed = s.suppressed

\* Nothing of the files is touched, and none of the content.
Speaks(s, r) ==
  r.content = s.content /\ r.named = s.named /\ r.writing = s.writing /\ r.files = s.files

(***************************************************************************)
(* Of a text, the last three characters wait, if it has more.              *)
(***************************************************************************)
HeldOf(p) == IF Len(p) > 3 THEN From(p, Len(p) - 2) ELSE <<>>

(***************************************************************************)
(* What is held back of a text is its last three characters, or nothing.   *)
(***************************************************************************)
LEMMA HeldIs ==
  ASSUME NEW p \in Letters
  PROVE  /\ HeldOf(p) \in Letters /\ Upto(p, Len(p) - Len(HeldOf(p))) \in Letters
         /\ Len(HeldOf(p)) \in {0, 3}
         /\ Cat(Upto(p, Len(p) - Len(HeldOf(p))), HeldOf(p)) = p
<1>1. Len(p) \in Nat /\ p \in Seq(Letter)
  BY LenProperties DEF Letters
<1>2. CASE Len(p) > 3
  <2>1. Len(p) - 2 \in 1 .. Len(p) + 1 /\ Len(p) - 3 \in 0 .. Len(p)
        /\ (Len(p) + 1) - (Len(p) - 2) = 3 /\ (Len(p) - 3) + 1 = Len(p) - 2
    BY <1>1, <1>2
  <2> DEFINE k == From(p, Len(p) - 2)
  <2>2. HeldOf(p) = k
    BY <1>2 DEF HeldOf
  <2>3. k \in Seq(Letter) /\ Len(k) = (Len(p) + 1) - (Len(p) - 2)
    <3> DEFINE m == Len(p) - 2
    <3>1. m \in 1 .. Len(p) + 1
      BY <2>1
    <3> HIDE DEF m
    <3>2. From(p, m) \in Seq(Letter) /\ Len(From(p, m)) = Len(p) + 1 - m
      BY <1>1, <3>1, FromIs
    <3>3. Len(p) + 1 - m = (Len(p) + 1) - (Len(p) - 2)
      BY <1>1 DEF m
    <3> QED BY <3>2, <3>3 DEF m
  <2>4. Upto(p, Len(p) - 3) \in Seq(Letter)
    BY <1>1, <2>1, UptoIs
  <2>5. Upto(p, Len(p) - 3) \o From(p, (Len(p) - 3) + 1) = p
    BY <1>1, <2>1, UptoFrom
  <2>6. Cat(Upto(p, Len(p) - 3), k) = p
    BY <2>1, <2>5 DEF Cat
  <2> HIDE DEF k
  <2> QED BY <2>1, <2>2, <2>3, <2>4, <2>6 DEF Letters
<1>3. CASE ~(Len(p) > 3)
  <2> DEFINE e == <<>>
  <2>1. HeldOf(p) = e /\ e \in Letters /\ Len(e) = 0
    BY <1>3, NoText DEF HeldOf
  <2>2. Cat(p, e) = p
    BY CatNone
  <2>3. Upto(p, Len(p)) = p
    BY <1>1, WholeAndNone
  <2> HIDE DEF e
  <2>4. Len(p) - Len(e) = Len(p)
    BY <1>1, <2>1
  <2> QED BY <2>1, <2>2, <2>3, <2>4
<1> QED BY <1>2, <1>3

\* Another held text and buffer.
Reheld(s, k, b) == [s EXCEPT !.held = k, !.buf = b]

(***************************************************************************)
(* Another held text and another buffer change nothing else.               *)
(***************************************************************************)
LEMMA ReheldIs ==
  ASSUME NEW s \in HandlerSet, NEW k \in Letters, NEW b \in Letters
  PROVE  /\ Reheld(s, k, b) \in HandlerSet /\ Speaks(s, Reheld(s, k, b))
         /\ Reheld(s, k, b).held = k /\ Reheld(s, k, b).buf = b
         /\ Reheld(s, k, b).said = s.said /\ Reheld(s, k, b).suppressed = s.suppressed
BY DEF Reheld, HandlerSet, Speaks

(***************************************************************************)
(* A step that only says may follow one that speaks.                       *)
(***************************************************************************)
LEMMA SpeaksAside ==
  ASSUME NEW s, NEW r, NEW q, Speaks(s, r), Aside(r, q)
  PROVE  Speaks(s, q)
BY DEF Speaks, Aside

(***************************************************************************)
(* Prose is said in whole sentences, or held back.                         *)
(***************************************************************************)
LEMMA ProseIs ==
  ASSUME NEW s \in HandlerSet, NEW r \in HandlerSet, NEW t \in Letters, Grown(s, t, r)
  PROVE  /\ Prose(r, t) \in HandlerSet /\ Speaks(r, Prose(r, t))
         /\ SaidInOrder(s) => SaidInOrder(Prose(r, t)) /\ Plain(Prose(r, t))
<1> DEFINE p == Cat(r.held, t)
           k == HeldOf(p)
           u == Upto(p, Len(p) - Len(k))
           b == Cat(r.buf, u)
           m == Reheld(r, k, b)
<1>1. /\ r.held \in Letters /\ r.buf \in Letters /\ r.content \in Letters
      /\ s.content \in Letters /\ s.said \in Seq(Letters) /\ s.held \in Letters /\ s.buf \in Letters
  BY HandlerFields
<1>2. p \in Letters
  BY <1>1, CatTyped
<1>3. k \in Letters /\ u \in Letters /\ Len(k) \in {0, 3} /\ Cat(u, k) = p
  <2> HIDE DEF p
  <2> QED BY <1>2, HeldIs
<1>4. Prose(r, t) = SayWhole(m)
  BY DEF Prose, HeldOf, Cat, Reheld
<1>5. b \in Letters
  <2> HIDE DEF u
  <2> QED BY <1>1, <1>3, CatTyped
<1>6. Regrouped(r.held, t, u, k)
  BY <1>3 DEF Regrouped
<1> HIDE DEF u, k, p
<1>7. m \in HandlerSet /\ Speaks(r, m) /\ m.held = k /\ m.buf = b /\ m.said = r.said
  <2> HIDE DEF b
  <2> QED BY <1>3, <1>5, ReheldIs
<1>8. ASSUME SaidInOrder(s) PROVE SaidInOrder(m)
  <2>1. Says(FlattenSeq(s.said), s.buf, s.held, s.content)
    BY <1>8 DEF SaidInOrder
  <2>2. FlattenSeq(s.said) \in Letters
    BY <1>1, NoText, OneMore
  <2>3. Regrouped(s.held, t, u, k)
    BY <1>6 DEF Grown
  <2>4. Says(FlattenSeq(s.said), Cat(s.buf, u), k, Cat(s.content, t))
    BY <1>1, <1>3, <2>1, <2>2, <2>3, SaysMore
  <2>5. m.content = Cat(s.content, t) /\ m.said = s.said /\ m.buf = Cat(s.buf, u)
    BY <1>7 DEF Grown, Speaks, b
  <2> HIDE DEF m
  <2> QED BY <1>3, <1>7, <1>8, <2>4, <2>5 DEF SaidInOrder
<1> HIDE DEF m
<1>9. /\ SayWhole(m) \in HandlerSet /\ Aside(m, SayWhole(m))
      /\ SaidInOrder(m) => SaidInOrder(SayWhole(m)) /\ Plain(SayWhole(m))
  BY <1>7, SayWholeIs
<1> QED BY <1>4, <1>7, <1>8, <1>9, SpeaksAside

\* Nothing held, nothing buffered.
Hushed(s, q) == [s EXCEPT !.held = <<>>, !.buf = <<>>, !.suppressed = q]

(***************************************************************************)
(* Nothing held and nothing buffered: what was said stays.                 *)
(***************************************************************************)
LEMMA HushedIs ==
  ASSUME NEW s \in HandlerSet, NEW q \in BOOLEAN
  PROVE  /\ Hushed(s, q) \in HandlerSet /\ Speaks(s, Hushed(s, q))
         /\ Hushed(s, q).held = <<>> /\ Hushed(s, q).buf = <<>> /\ Hushed(s, q).said = s.said
BY NoText DEF Hushed, HandlerSet, Speaks


(***************************************************************************)
(* A message that closes says nothing more.                                *)
(***************************************************************************)
LEMMA NothingMore ==
  ASSUME NEW said \in Seq(Letters), AllPlain(said)
  PROVE  /\ Append(said, <<>>) \in Seq(Letters) /\ AllPlain(Append(said, <<>>))
         /\ FlattenSeq(Append(said, <<>>)) = FlattenSeq(said)
<1> DEFINE e == <<>>
<1>1. e \in Letters /\ ~looksStructured(e)
  BY NoText, NoneIsPlain
<1> HIDE DEF e
<1>2. /\ Append(said, e) \in Seq(Letters) /\ AllPlain(Append(said, e))
      /\ FlattenSeq(Append(said, e)) = Cat(FlattenSeq(said), e) /\ FlattenSeq(said) \in Letters
  BY <1>1, OneMore
<1>3. Cat(FlattenSeq(said), e) = FlattenSeq(said)
  BY <1>2, CatNone DEF e
<1> QED BY <1>2, <1>3 DEF e

(***************************************************************************)
(* The sentence before a fence is said, and nothing is held back.          *)
(***************************************************************************)
LEMMA CodeIs ==
  ASSUME NEW s \in HandlerSet
  PROVE  /\ Code(s) \in HandlerSet /\ Speaks(s, Code(s))
         /\ SaidInOrder(s) /\ Plain(s) => SaidInOrder(Code(s)) /\ Plain(Code(s))
<1> DEFINE spoken == IF ~s.suppressed /\ HasWords(s.buf) THEN Say(s, s.buf) ELSE s
           quiet  == IF spoken.emitting THEN FALSE ELSE s.suppressed
           closed == Close(spoken)
           e == <<>>
<1>1. Code(s) = Hushed(closed, quiet)
  BY DEF Code, Hushed
<1>2. /\ s.content \in Letters /\ s.held \in Letters /\ s.buf \in Letters
      /\ s.said \in Seq(Letters) /\ s.suppressed \in BOOLEAN
  BY HandlerFields
<1>3. FlattenSeq(s.said) \in Letters /\ e \in Letters /\ Len(e) = 0
  BY <1>2, NoText, OneMore
<1>4. spoken \in HandlerSet /\ Aside(s, spoken)
  <2>1. Aside(s, s)
    BY DEF Aside
  <2> QED BY <2>1, <1>2, SayIs
<1>5. ASSUME SaidInOrder(s), Plain(s)
      PROVE  AllPlain(spoken.said) /\ Says(FlattenSeq(spoken.said), e, e, s.content)
  <2>1. Says(FlattenSeq(s.said), s.buf, s.held, s.content) /\ AllPlain(s.said)
    BY <1>5 DEF SaidInOrder
  <2>2. CASE ~(~s.suppressed /\ HasWords(s.buf))
    <3>1. Says(FlattenSeq(s.said), e, e, s.content)
      BY <1>2, <1>3, <2>1, SaysLess
    <3> QED BY <2>1, <2>2, <3>1
  <2>3. CASE ~s.suppressed /\ HasWords(s.buf)
    <3>1. spoken.said = Append(s.said, s.buf) /\ ~looksStructured(s.buf)
      BY <1>2, <1>5, <2>3, SayIs DEF Plain
    <3>2. /\ FlattenSeq(Append(s.said, s.buf)) = Cat(FlattenSeq(s.said), s.buf)
          /\ AllPlain(Append(s.said, s.buf))
      BY <1>2, <2>1, <3>1, OneMore
    <3>3. Cat(s.buf, e) = s.buf
      BY <1>2, CatNone
    <3>4. Says(FlattenSeq(s.said), s.buf, e, s.content)
      BY <1>2, <1>3, <2>1, SaysLess
    <3>5. Says(FlattenSeq(s.said), Cat(s.buf, e), e, s.content)
      BY <3>3, <3>4
    <3> HIDE DEF e, spoken
    <3>6. Says(Cat(FlattenSeq(s.said), s.buf), e, e, s.content)
      BY <1>2, <1>3, <3>5, SaysNext
    <3> QED BY <3>1, <3>2, <3>6
  <2> QED BY <2>2, <2>3
<1>6. quiet \in BOOLEAN
  BY <1>2
<1> HIDE DEF spoken, e
<1>7. /\ closed \in HandlerSet /\ Aside(spoken, closed)
      /\ closed.said = IF spoken.emitting THEN Append(spoken.said, <<>>) ELSE spoken.said
  BY <1>4, CloseIs
<1>8. ASSUME AllPlain(spoken.said)
      PROVE  AllPlain(closed.said) /\ FlattenSeq(closed.said) = FlattenSeq(spoken.said)
  <2>1. spoken.said \in Seq(Letters)
    BY <1>4, HandlerFields
  <2>2. AllPlain(Append(spoken.said, <<>>))
        /\ FlattenSeq(Append(spoken.said, <<>>)) = FlattenSeq(spoken.said)
    BY <1>8, <2>1, NothingMore
  <2> HIDE DEF closed
  <2> QED BY <1>7, <1>8, <2>2
<1> HIDE DEF closed, quiet
<1>9. /\ Hushed(closed, quiet) \in HandlerSet /\ Speaks(closed, Hushed(closed, quiet))
      /\ Hushed(closed, quiet).held = e /\ Hushed(closed, quiet).buf = e
      /\ Hushed(closed, quiet).said = closed.said
  BY <1>6, <1>7, HushedIs DEF e
<1>10. Speaks(s, Hushed(closed, quiet)) /\ Hushed(closed, quiet).content = s.content
  BY <1>4, <1>7, <1>9 DEF Speaks, Aside
<1>11. Plain(Hushed(closed, quiet))
  BY <1>9, NoneIsPlain DEF Plain, e
<1>12. ASSUME SaidInOrder(s), Plain(s) PROVE SaidInOrder(Hushed(closed, quiet))
  BY <1>3, <1>5, <1>8, <1>9, <1>10, <1>12 DEF SaidInOrder
<1> QED BY <1>1, <1>9, <1>10, <1>11, <1>12
(***************************************************************************)
(* After an odd number comes an even one.                                  *)
(***************************************************************************)
LEMMA OddNext ==
  ASSUME NEW n \in Nat, ~(n % 2 = 0)
  PROVE  (n + 1) % 2 = 0
OBVIOUS

(***************************************************************************)
(* A set of numbers up to n has a greatest one.                            *)
(***************************************************************************)
LEMMA GreatestIs ==
  ASSUME NEW n \in Nat, NEW T \in SUBSET (1 .. n), T # {}
  PROVE  Max(T) \in T
<1> DEFINE B == {n - x : x \in T}
<1>1. B \in SUBSET Nat /\ B # {}
  <2>1. \A x \in T : x \in 1 .. n /\ n - x \in Nat
    OBVIOUS
  <2>2. PICK x : x \in T
    OBVIOUS
  <2>3. n - x \in B
    BY <2>2
  <2> QED BY <2>1, <2>3
<1>2. PICK b \in B : \A y \in B : b <= y
  BY <1>1, LeastOf
<1>3. PICK x \in T : b = n - x
  BY <1>2
<1>4. \A y \in T : x >= y
  <2>1. ASSUME NEW y \in T PROVE x >= y
    <3>1. n - y \in B
      OBVIOUS
    <3>2. n - x <= n - y
      BY <3>1, <1>2, <1>3
    <3>3. x \in Int /\ y \in Int
      OBVIOUS
    <3> QED BY <3>2, <3>3
  <2> QED BY <2>1
<1>5. \E m \in T : \A y \in T : m >= y
  BY <1>4
<1> QED BY <1>5 DEF Max

(***************************************************************************)
(* Another file event.                                                     *)
(***************************************************************************)
LEMMA FilesMore ==
  ASSUME NEW files \in Seq(FileSet), NEW x \in FileSet, Alternate(files),
         x.event = IF Len(files) % 2 = 0 THEN "writing" ELSE "done"
  PROVE  /\ Append(files, x) \in Seq(FileSet) /\ Alternate(Append(files, x))
         /\ Len(Append(files, x)) = Len(files) + 1
<1>1. /\ Append(files, x) \in Seq(FileSet) /\ Len(Append(files, x)) = Len(files) + 1
      /\ \A n \in 1 .. Len(files) : Append(files, x)[n] = files[n]
      /\ Append(files, x)[Len(files) + 1] = x
  BY AppendProperties
<1>2. Len(files) \in Nat /\ DOMAIN files = 1 .. Len(files)
      /\ DOMAIN Append(files, x) = 1 .. Len(Append(files, x))
  BY <1>1, LenProperties
<1>3. ASSUME NEW i \in DOMAIN Append(files, x)
      PROVE  Append(files, x)[i].event = IF i % 2 = 1 THEN "writing" ELSE "done"
  <2>1. i \in 1 .. Len(files) \/ i = Len(files) + 1
    BY <1>1, <1>2
  <2>2. CASE i \in 1 .. Len(files)
    <3>1. Append(files, x)[i] = files[i] /\ i \in DOMAIN files
      BY <1>1, <1>2, <2>2
    <3> QED BY <3>1 DEF Alternate
  <2>3. CASE i = Len(files) + 1
    <3>1. Append(files, x)[i] = x
      BY <1>1, <2>3
    <3>2. i % 2 = 1 <=> Len(files) % 2 = 0
      BY <1>2, <2>3
    <3> QED BY <3>1, <3>2
  <2> QED BY <2>1, <2>2, <2>3
<1> QED BY <1>1, <1>3 DEF Alternate

(***************************************************************************)
(* The name of a file is not empty.                                        *)
(***************************************************************************)
LEMMA NameIs ==
  ASSUME NEW c \in Letters, NEW i \in Names(c)
  PROVE  NameAt(c, i) \in Letters /\ NameAt(c, i) # <<>>
<1> DEFINE line == {j \in i + 4 .. Len(c) : c[j] = "n"}
           e == IF line = {} THEN Len(c) ELSE Least(line) - 1
<1>1. Len(c) \in Nat /\ DOMAIN c = 1 .. Len(c) /\ c \in Seq(Letter)
  BY LenProperties DEF Letters
<1>2. i \in 1 .. Len(c) /\ i + 4 <= Len(c) /\ c[i + 4] # "n"
  BY <1>1 DEF Names, Places
<1>3. e \in i + 4 .. Len(c)
  <2>1. CASE line = {}
    BY <2>1, <1>1, <1>2
  <2>2. CASE line # {}
    <3>1. line \in SUBSET Nat
      BY <1>2
    <3>2. Least(line) \in line
      BY <2>2, <3>1, LeastIs
    <3>3. Least(line) \in i + 4 .. Len(c) /\ c[Least(line)] = "n"
      BY <3>2
    <3>4. Least(line) # i + 4
      BY <3>3, <1>2
    <3>5. e = Least(line) - 1
      BY <2>2
    <3> HIDE DEF e
    <3> QED BY <3>3, <3>4, <3>5, <1>1, <1>2
  <2> QED BY <2>1, <2>2
<1>4. NameAt(c, i) = SubSeq(c, i + 4, e)
  BY DEF NameAt
<1> HIDE DEF e
<1> DEFINE a == i + 4
<1>5. a \in 1 .. Len(c) + 1 /\ e \in 0 .. Len(c) /\ e - a + 1 # 0 /\ a <= e
      /\ a \in Int /\ e \in Int
  BY <1>1, <1>2, <1>3
<1> HIDE DEF a
<1>6. SubSeq(c, a, e) \in Seq(Letter) /\ Len(SubSeq(c, a, e)) = e - a + 1
  <2>1. \A x \in a .. e : c[x] \in Letter
    <3>1. \A x \in a .. e : x \in 1 .. Len(c)
      BY <1>1, <1>5
    <3> QED BY <3>1, <1>1, ElementOfSeq
  <2> QED BY <1>1, <1>5, <2>1, SubSeqProperties
<1>7. Len(<<>>) = 0
  OBVIOUS
<1>8. SubSeq(c, a, e) # <<>>
  BY <1>5, <1>6, <1>7
<1> QED BY <1>4, <1>6, <1>8 DEF a, Letters

\* Nothing but the files differ.
Writes(s, r) ==
  /\ r.content = s.content /\ r.held = s.held /\ r.buf = s.buf
  /\ r.said = s.said /\ r.suppressed = s.suppressed

\* Another count of names, open file and events.
Refiled(s, n, w, files) == [s EXCEPT !.named = n, !.writing = w, !.files = files]

(***************************************************************************)
(* Other file events change nothing else.                                  *)
(***************************************************************************)
LEMMA RefiledIs ==
  ASSUME NEW s \in HandlerSet, NEW n \in Nat, NEW w \in Letters, NEW files \in Seq(FileSet)
  PROVE  /\ Refiled(s, n, w, files) \in HandlerSet /\ Writes(s, Refiled(s, n, w, files))
         /\ Refiled(s, n, w, files).writing = w /\ Refiled(s, n, w, files).files = files
BY DEF Refiled, HandlerSet, Writes

(***************************************************************************)
(* A file that is named is being written, and the one before is done.      *)
(***************************************************************************)
LEMMA NameFileIs ==
  ASSUME NEW s \in HandlerSet, Filed(s)
  PROVE  NameFile(s) \in HandlerSet /\ Writes(s, NameFile(s)) /\ Filed(NameFile(s))
<1>1. /\ s.content \in Letters /\ s.named \in Nat /\ s.writing \in Letters
      /\ s.files \in Seq(FileSet)
  BY HandlerFields
<1>2. CASE Cardinality(Names(s.content)) <= s.named
  BY <1>2 DEF NameFile, Writes
<1>3. CASE ~(Cardinality(Names(s.content)) <= s.named)
  <2> DEFINE c == s.content
             name == NameAt(c, Max(Names(c)))
             n == Cardinality(Names(c))
             done == [event |-> "done", file |-> s.writing]
             begun == [event |-> "writing", file |-> name]
  <2>1. Len(c) \in Nat /\ Names(c) \subseteq 1 .. Len(c)
    <3>1. Len(c) \in Nat /\ DOMAIN c = 1 .. Len(c)
      BY <1>1, LenProperties DEF Letters
    <3> QED BY <3>1 DEF Names, Places
  <2>2. IsFiniteSet(Names(c))
    <3>1. IsFiniteSet(1 .. Len(c))
      BY <2>1, FS_Interval
    <3> QED BY <3>1, <2>1, FS_Subset
  <2>3. n \in Nat
    BY <2>2, FS_CardinalityType
  <2>4. Names(c) # {}
    <3>1. SUFFICES ASSUME Names(c) = {} PROVE FALSE
      OBVIOUS
    <3>2. n = 0
      BY <3>1, FS_EmptySet
    <3> QED BY <3>2, <1>1, <1>3
  <2>5. Max(Names(c)) \in Names(c)
    BY <2>1, <2>4, GreatestIs
  <2>6. name \in Letters /\ name # <<>>
    BY <1>1, <2>5, NameIs
  <2>7. done \in FileSet /\ begun \in FileSet
    BY <1>1, <2>6 DEF FileSet
  <2>8. done.event = "done" /\ begun.event = "writing"
    OBVIOUS
  <2>9. CASE name = s.writing
    <3>1. NameFile(s) = Refiled(s, n, s.writing, s.files)
      BY <1>1, <1>3, <2>9 DEF NameFile, Refiled, HandlerSet
    <3> HIDE DEF n
    <3>2. /\ Refiled(s, n, s.writing, s.files) \in HandlerSet
          /\ Writes(s, Refiled(s, n, s.writing, s.files))
          /\ Refiled(s, n, s.writing, s.files).writing = s.writing
          /\ Refiled(s, n, s.writing, s.files).files = s.files
      BY <1>1, <2>3, RefiledIs
    <3> QED BY <3>1, <3>2 DEF Filed
  <2>10. CASE name # s.writing
    <3> DEFINE before == IF s.writing = <<>> THEN s.files ELSE Append(s.files, done)
               files == Append(before, begun)
    <3>1. NameFile(s) = Refiled(s, n, name, files)
      <4>1. s.files \o <<>> = s.files /\ s.files \o <<done>> = Append(s.files, done)
        BY <1>1, <2>7, AppendIsConcat, ConcatEmptySeq
      <4>2. before \in Seq(FileSet)
        BY <1>1, <2>7, AppendProperties
      <4>3. before \o <<begun>> = Append(before, begun)
        BY <2>7, <4>2, AppendIsConcat
      <4>4. NameFile(s) = Refiled(s, n, name, s.files \o (IF s.writing = <<>> THEN <<>> ELSE <<done>>) \o <<begun>>)
        BY <1>3, <2>10 DEF NameFile, Refiled
      <4>5. s.files \o (IF s.writing = <<>> THEN <<>> ELSE <<done>>) = before
        BY <4>1
      <4> HIDE DEF before, n, name, begun, done
      <4> QED BY <4>3, <4>4, <4>5
    <3> HIDE DEF n, name, done, begun
    <3>2. Alternate(s.files) /\ (s.writing = <<>> <=> Len(s.files) % 2 = 0)
      BY DEF Filed
    <3>3. before \in Seq(FileSet) /\ Alternate(before) /\ Len(before) % 2 = 0
      <4>1. CASE s.writing = <<>>
        BY <1>1, <3>2, <4>1
      <4>2. CASE s.writing # <<>>
        <5>1. ~(Len(s.files) % 2 = 0) /\ before = Append(s.files, done)
          BY <3>2, <4>2
        <5>2. /\ Append(s.files, done) \in Seq(FileSet) /\ Alternate(Append(s.files, done))
              /\ Len(Append(s.files, done)) = Len(s.files) + 1
          BY <1>1, <2>7, <2>8, <3>2, <5>1, FilesMore
        <5>3. Len(s.files) \in Nat
          BY <1>1, LenProperties
        <5>4. (Len(s.files) + 1) % 2 = 0
          BY <5>1, <5>3, OddNext, Zenon
        <5> HIDE DEF before
        <5> QED BY <5>1, <5>2, <5>4
      <4> QED BY <4>1, <4>2
    <3> HIDE DEF before
    <3>4. files \in Seq(FileSet) /\ Alternate(files) /\ Len(files) = Len(before) + 1
      BY <2>7, <2>8, <3>3, FilesMore
    <3>5. Len(before) \in Nat
      BY <3>3, LenProperties
    <3>6. ~(Len(files) % 2 = 0)
      BY <3>3, <3>4, <3>5
    <3> HIDE DEF files
    <3>7. /\ Refiled(s, n, name, files) \in HandlerSet
          /\ Writes(s, Refiled(s, n, name, files))
          /\ Refiled(s, n, name, files).writing = name
          /\ Refiled(s, n, name, files).files = files
      BY <2>3, <2>6, <3>4, RefiledIs
    <3> QED BY <3>1, <3>4, <3>6, <3>7, <2>6 DEF Filed
  <2> QED BY <2>9, <2>10
<1> QED BY <1>2, <1>3
\* The handler between the pieces.
Handled(s) == s \in HandlerSet /\ SaidInOrder(s) /\ Plain(s) /\ Filed(s)

\* Another content.
Recontent(s, c) == [s EXCEPT !.content = c]

(***************************************************************************)
(* Another content changes nothing else.                                   *)
(***************************************************************************)
LEMMA RecontentIs ==
  ASSUME NEW s \in HandlerSet, NEW c \in Letters
  PROVE  /\ Recontent(s, c) \in HandlerSet /\ Recontent(s, c).content = c
         /\ Recontent(s, c).held = s.held /\ Recontent(s, c).buf = s.buf
         /\ Recontent(s, c).said = s.said /\ Recontent(s, c).suppressed = s.suppressed
         /\ Recontent(s, c).files = s.files /\ Recontent(s, c).writing = s.writing
BY DEF Recontent, HandlerSet

(***************************************************************************)
(* A text of the answer.                                                   *)
(***************************************************************************)
LEMMA ContentTextIs ==
  ASSUME NEW s \in HandlerSet, NEW t \in Letters, Handled(s)
  PROVE  Handled(handleContentText(s, t)) /\ handleContentText(s, t).content = Cat(s.content, t)
<1> DEFINE m == Recontent(s, Cat(s.content, t))
           named == NameFile(m)
<1>1. /\ s.content \in Letters /\ s.held \in Letters /\ s.buf \in Letters
      /\ s.said \in Seq(Letters)
  BY HandlerFields
<1>2. Cat(s.content, t) \in Letters /\ FlattenSeq(s.said) \in Letters
  BY <1>1, CatTyped, OneMore
<1>3. /\ m \in HandlerSet /\ m.content = Cat(s.content, t) /\ m.held = s.held /\ m.buf = s.buf
      /\ m.said = s.said /\ m.suppressed = s.suppressed
      /\ m.files = s.files /\ m.writing = s.writing
  BY <1>2, RecontentIs
<1>4. handleContentText(s, t) = IF InCode(named.content) THEN Code(named) ELSE Prose(named, t)
  BY DEF handleContentText, Recontent, Cat
<1> HIDE DEF m
<1>5. Filed(m)
  BY <1>3 DEF Filed, Handled
<1>6. named \in HandlerSet /\ Writes(m, named) /\ Filed(named)
  BY <1>3, <1>5, NameFileIs
<1> HIDE DEF named
<1>7. named.content = Cat(s.content, t) /\ Grown(s, t, named)
  BY <1>3, <1>6 DEF Grown, Writes
<1>8. CASE InCode(named.content)
  <2>1. Says(FlattenSeq(s.said), s.buf, s.held, Cat(s.content, t))
    BY <1>1, <1>2, SaysOn DEF Handled, SaidInOrder
  <2>2. SaidInOrder(named) /\ Plain(named)
    BY <2>1, <1>7 DEF Grown, Handled, SaidInOrder, Plain
  <2>3. Code(named) \in HandlerSet /\ Speaks(named, Code(named)) /\ SaidInOrder(Code(named)) /\ Plain(Code(named))
    BY <1>6, <2>2, CodeIs
  <2>4. Filed(Code(named)) /\ Code(named).content = named.content
    BY <1>6, <2>3 DEF Filed, Speaks
  <2> QED BY <1>4, <1>7, <1>8, <2>3, <2>4 DEF Handled
<1>9. CASE ~InCode(named.content)
  <2>1. /\ Prose(named, t) \in HandlerSet /\ Speaks(named, Prose(named, t))
        /\ SaidInOrder(Prose(named, t)) /\ Plain(Prose(named, t))
    BY <1>6, <1>7, ProseIs DEF Handled
  <2>2. Filed(Prose(named, t)) /\ Prose(named, t).content = named.content
    BY <1>6, <2>1 DEF Filed, Speaks
  <2> QED BY <1>4, <1>7, <1>9, <2>1, <2>2 DEF Handled
<1> QED BY <1>8, <1>9

(***************************************************************************)
(* A piece, of the answer or of the thinking.                              *)
(***************************************************************************)
LEMMA PieceHandled ==
  ASSUME NEW s \in HandlerSet, NEW p \in PieceSet, Handled(s)
  PROVE  /\ Handled(handlePiece(s, p))
         /\ handlePiece(s, p).content = Cat(s.content, IF p.kind = "content" THEN p.text ELSE <<>>)
<1>1. p.text \in Letters
  BY DEF PieceSet
<1>2. CASE p.kind = "content"
  BY <1>1, <1>2, ContentTextIs DEF handlePiece
<1>3. CASE p.kind # "content"
  <2> DEFINE m == [s EXCEPT !.thoughts = Append(@, p.text)]
  <2>1. handlePiece(s, p) = m
    BY <1>3 DEF handlePiece
  <2>2. Append(s.thoughts, p.text) \in Seq(Letters)
    BY <1>1, HandlerFields, AppendProperties
  <2>3. /\ m \in HandlerSet /\ m.content = s.content /\ m.held = s.held /\ m.buf = s.buf
        /\ m.said = s.said /\ m.suppressed = s.suppressed
        /\ m.files = s.files /\ m.writing = s.writing
    BY <2>2 DEF HandlerSet
  <2> HIDE DEF m
  <2>4. Cat(s.content, <<>>) = s.content
    BY HandlerFields, CatNone
  <2>5. Handled(m)
    BY <2>3 DEF Handled, SaidInOrder, Plain, Filed
  <2> QED BY <1>3, <2>1, <2>3, <2>4, <2>5
<1> QED BY <1>2, <1>3

(***************************************************************************)
(* The answer and the thinking of one piece.                               *)
(***************************************************************************)
LEMMA TextsOfThis ==
  ASSUME NEW x \in PieceSet
  PROVE  /\ Con(<<x>>) = IF x.kind = "content" THEN x.text ELSE <<>>
         /\ Thk(<<x>>) = IF x.kind = "reasoning" THEN x.text ELSE <<>>
         /\ <<x>> \in Seq(PieceSet)
<1>1. <<x>> \in Seq(PieceSet)
  BY Tuples
<1>2. \A kind : TextOf(kind, <<x>>) = FlattenSeq(Mapped(TextFrom(kind), <<x>>))
  BY <1>1, TextOfIs
<1>3. \A kind : FlattenSeq(Mapped(TextFrom(kind), <<x>>)) = TextFrom(kind)[x]
  BY TextFromTyped, FlattenMappedOne
<1>4. \A kind : TextFrom(kind)[x] = IF x.kind = kind THEN x.text ELSE <<>>
  BY DEF TextFrom
<1> QED BY <1>1, <1>2, <1>3, <1>4 DEF Con, Thk

(***************************************************************************)
(* One piece more of a sequence.                                           *)
(***************************************************************************)
LEMMA UptoNext ==
  ASSUME NEW p \in Seq(PieceSet), NEW n \in 1 .. Len(p)
  PROVE  /\ Upto(p, n - 1) \in Seq(PieceSet) /\ p[n] \in PieceSet
         /\ Upto(p, n) = Cat(Upto(p, n - 1), <<p[n]>>)
<1> DEFINE m == n - 1
           u == Upto(p, m)
           v == Upto(p, n)
           w == u \o <<p[n]>>
<1>1. Len(p) \in Nat /\ m \in 0 .. Len(p) /\ n \in 0 .. Len(p) /\ m + 1 = n
  BY LenProperties
<1>2. p[n] \in PieceSet /\ <<p[n]>> \in Seq(PieceSet) /\ Len(<<p[n]>>) = 1 /\ <<p[n]>>[1] = p[n]
  BY ElementOfSeq, Tuples
<1> HIDE DEF m
<1>3. u \in Seq(PieceSet) /\ Len(u) = m /\ \A i \in 1 .. m : u[i] = p[i]
  BY <1>1, UptoIs
<1>4. v \in Seq(PieceSet) /\ Len(v) = n /\ \A i \in 1 .. n : v[i] = p[i]
  BY <1>1, UptoIs
<1> DEFINE o == <<p[n]>>
<1>5. o \in Seq(PieceSet) /\ Len(o) = 1 /\ o[1] = p[n]
  BY <1>2
<1> HIDE DEF u, v, o
<1>6. /\ u \o o \in Seq(PieceSet) /\ Len(u \o o) = Len(u) + Len(o)
      /\ \A i \in 1 .. Len(u) + Len(o) : (u \o o)[i] = IF i <= Len(u) THEN u[i] ELSE o[i - Len(u)]
  BY <1>3, <1>5, ConcatProperties
<1>7. Len(u \o o) = Len(v)
  BY <1>1, <1>3, <1>4, <1>5, <1>6
<1>8. ASSUME NEW i \in 1 .. Len(v) PROVE (u \o o)[i] = v[i]
  <2>1. i \in 1 .. Len(u) + Len(o) /\ (i <= m \/ i = m + 1)
    BY <1>1, <1>3, <1>4, <1>5
  <2>2. (u \o o)[i] = IF i <= Len(u) THEN u[i] ELSE o[i - Len(u)]
    BY <2>1, <1>6
  <2>3. CASE i <= m
    BY <2>2, <2>3, <1>1, <1>3, <1>4
  <2>4. CASE i = m + 1
    <3>1. ~(i <= Len(u)) /\ i - Len(u) = 1 /\ i = n
      BY <2>4, <1>1, <1>3
    <3> QED BY <2>2, <3>1, <1>1, <1>4, <1>5
  <2> QED BY <2>1, <2>3, <2>4
<1>9. u \o o = v
  BY <1>4, <1>6, <1>7, <1>8, SeqEqual
<1> QED BY <1>2, <1>3, <1>9 DEF m, u, v, o, Cat

(***************************************************************************)
(* The pieces of a delta.                                                  *)
(***************************************************************************)
LEMMA PiecesHandled ==
  ASSUME NEW s \in HandlerSet, NEW p \in Seq(PieceSet), Handled(s)
  PROVE  Handled(processPieces(s, p)) /\ processPieces(s, p).content = Cat(s.content, Con(p))
<1> DEFINE N == Len(p)
           H == {y \in HandlerSet : Handled(y)}
           step == [n \in 1 .. N |-> [y \in H |-> handlePiece(y, p[n])]]
           Body(f_) == [n \in 0 .. N |-> IF n = 0 THEN s ELSE handlePiece(f_[n - 1], p[n])]
           c == CHOOSE f_ : f_ = Body(f_)
<1>1. N \in Nat /\ \A n \in 1 .. N : p[n] \in PieceSet
  BY LenProperties, ElementOfSeq
<1>2. \A y \in H, n \in 1 .. N : handlePiece(y, p[n]) \in H
  BY <1>1, PieceHandled DEF Handled
<1>20. step \in [1 .. N -> [H -> H]]
  BY <1>2
<1>3. \A n \in 1 .. N : \A y \in H : step[n][y] = handlePiece(y, p[n])
  OBVIOUS
<1>31. s \in H
  OBVIOUS
<1> HIDE DEF step, N, H
<1>4. PICK f : Steps(f, N, H, s, step)
  BY <1>1, <1>20, <1>31, StepByStep
<1>5. f = Body(f)
  <2>1. f \in [0 .. N -> H] /\ \A n \in 0 .. N : f[n] = IF n = 0 THEN s ELSE step[n][f[n - 1]]
    BY <1>4 DEF Steps
  <2>2. ASSUME NEW n \in 0 .. N PROVE f[n] = IF n = 0 THEN s ELSE handlePiece(f[n - 1], p[n])
    <3>1. n # 0 => n - 1 \in 0 .. N /\ n \in 1 .. N
      BY <1>1
    <3>2. n # 0 => f[n - 1] \in H
      BY <2>1, <3>1
    <3> QED BY <2>1, <3>1, <3>2, <1>3
  <2> QED BY <2>1, <2>2
<1>6. c = Body(c)
  BY <1>5
<1>7. \A n \in 0 .. N : c[n] = IF n = 0 THEN s ELSE handlePiece(c[n - 1], p[n])
  <2> DEFINE b == Body(c)
  <2>1. \A n \in 0 .. N : b[n] = IF n = 0 THEN s ELSE handlePiece(c[n - 1], p[n])
    OBVIOUS
  <2>2. c = b
    BY <1>6
  <2> HIDE DEF b, c
  <2> QED BY <2>1, <2>2
<1>8. processPieces(s, p) = c[N]
  BY DEF processPieces, N
<1> HIDE DEF c
<1> DEFINE T == {n \in Nat : n <= N => c[n] \in H /\ c[n].content = Cat(s.content, Con(Upto(p, n)))}
<1>9. 0 \in T
  <2>1. 0 \in 0 .. N
    BY <1>1
  <2>2. c[0] = s
    BY <2>1, <1>7
  <2>3. Upto(p, 0) = <<>>
    BY WholeAndNone
  <2>4. Con(<<>>) = <<>>
    BY DEF Con, TextOf, FlattenSeq
  <2>5. Cat(s.content, <<>>) = s.content
    BY HandlerFields, CatNone
  <2>6. c[0].content = Cat(s.content, Con(Upto(p, 0)))
    BY <2>2, <2>3, <2>4, <2>5
  <2> QED BY <2>2, <2>6, <1>31
<1>10. ASSUME NEW n \in T PROVE n + 1 \in T
  <2>1. n \in Nat /\ (n <= N => c[n] \in H /\ c[n].content = Cat(s.content, Con(Upto(p, n))))
    OBVIOUS
  <2> DEFINE i == n + 1
  <2>2. ASSUME i <= N PROVE c[i] \in H /\ c[i].content = Cat(s.content, Con(Upto(p, i)))
    <3>1. n <= N /\ i \in 1 .. N /\ i - 1 = n /\ i \in 0 .. N /\ i # 0
      BY <2>1, <2>2, <1>1
    <3> HIDE DEF i
    <3> DEFINE y == c[n]
               x == p[i]
               t == IF x.kind = "content" THEN x.text ELSE <<>>
               u == Upto(p, n)
    <3>2. c[i] = handlePiece(y, x)
      BY <3>1, <1>7
    <3>3. x \in PieceSet /\ u \in Seq(PieceSet) /\ Upto(p, i) = Cat(u, <<x>>)
      BY <3>1, UptoNext DEF N
    <3>4. y \in H /\ y.content = Cat(s.content, Con(u))
      BY <2>1, <3>1
    <3>5. y \in HandlerSet /\ Handled(y)
      BY <3>4 DEF H
    <3> HIDE DEF y, x, u
    <3>6. Handled(handlePiece(y, x)) /\ handlePiece(y, x).content = Cat(y.content, t)
      BY <3>3, <3>5, PieceHandled
    <3>7. handlePiece(y, x) \in H
      BY <3>6 DEF H, Handled
    <3>8. Con(<<x>>) = t /\ <<x>> \in Seq(PieceSet)
      BY <3>3, TextsOfThis
    <3>9. Con(Cat(u, <<x>>)) = Cat(Con(u), Con(<<x>>)) /\ Con(u) \in Letters /\ Con(<<x>>) \in Letters
      BY <3>3, <3>8, TextsOfSplit
    <3>10. s.content \in Letters
      BY HandlerFields
    <3> DEFINE v == Con(<<x>>)
    <3>11. v \in Letters /\ v = t /\ Con(Upto(p, i)) = Cat(Con(u), v)
      BY <3>3, <3>8, <3>9
    <3> HIDE DEF v, t
    <3>12. Cat(Cat(s.content, Con(u)), v) = Cat(s.content, Cat(Con(u), v))
      BY <3>9, <3>10, <3>11, CatCat
    <3>13. c[i].content = Cat(s.content, Con(Upto(p, i)))
      BY <3>2, <3>4, <3>6, <3>11, <3>12
    <3> QED BY <3>2, <3>7, <3>13
  <2> QED BY <2>1, <2>2
<1>11. T = Nat
  <2>1. T \subseteq Nat
    OBVIOUS
  <2> HIDE DEF T
  <2> QED BY <1>9, <1>10, <2>1, ByInduction
<1>12. c[N] \in H /\ c[N].content = Cat(s.content, Con(Upto(p, N)))
  BY <1>1, <1>11
<1>13. Upto(p, N) = p
  BY WholeAndNone DEF N
<1> QED BY <1>8, <1>12, <1>13 DEF H
\* What the chat heard when the reply is over.
Heard(s) ==
  /\ s \in HandlerSet
  /\ InOrder(FlattenSeq(s.said), s.content)
  /\ \A n \in DOMAIN s.said :
       looksStructured(s.said[n]) => n >= Len(s.said) - 1 /\ Len(s.said[n]) = 3

(***************************************************************************)
(* What is said is in the content, in order.                               *)
(***************************************************************************)
LEMMA SaysInOrder ==
  ASSUME NEW f \in Letters, NEW b \in Letters, NEW k \in Letters, NEW c \in Letters,
         Says(f, b, k, c)
  PROVE  InOrder(f, c)
<1> DEFINE e == <<>>
<1>1. e \in Letters /\ Cat(e, e) = e /\ Cat(f, e) = f
  BY NoText, CatNone
<1>2. Says(f, e, e, c)
  BY SaysLess
<1>3. Within(f, c)
  <2> HIDE DEF e
  <2> QED BY <1>1, <1>2 DEF Says
<1> QED BY <1>3, WithinInOrder

(***************************************************************************)
(* Messages of which only the one that was held back may be structured.    *)
(***************************************************************************)
LEMMA PlainButLast ==
  ASSUME NEW said \in Seq(Letters), NEW k \in Letters, AllPlain(said), Len(k) = 3
  PROVE  /\ \A n \in DOMAIN Append(said, k) : looksStructured(Append(said, k)[n]) =>
              n >= Len(Append(said, k)) - 1 /\ Len(Append(said, k)[n]) = 3
         /\ \A n \in DOMAIN Append(Append(said, k), <<>>) :
              looksStructured(Append(Append(said, k), <<>>)[n]) =>
                n >= Len(Append(Append(said, k), <<>>)) - 1
                /\ Len(Append(Append(said, k), <<>>)[n]) = 3
<1> DEFINE a == Append(said, k)
           e == <<>>
           b == Append(a, e)
           N == Len(said)
<1>1. /\ a \in Seq(Letters) /\ Len(a) = N + 1
      /\ \A n \in 1 .. N : a[n] = said[n]
      /\ a[N + 1] = k
  BY OneMore
<1>2. e \in Letters /\ ~looksStructured(e)
  BY NoText, NoneIsPlain
<1> HIDE DEF a, e
<1>3. /\ b \in Seq(Letters) /\ Len(b) = Len(a) + 1
      /\ \A n \in 1 .. Len(a) : b[n] = a[n]
      /\ b[Len(a) + 1] = e
  BY <1>1, <1>2, OneMore
<1> HIDE DEF b
<1>4. /\ N \in Nat /\ DOMAIN said = 1 .. N /\ DOMAIN a = 1 .. Len(a) /\ DOMAIN b = 1 .. Len(b)
  BY <1>1, <1>3, LenProperties
<1>5. \A n \in 1 .. N : ~looksStructured(said[n])
  BY <1>4 DEF AllPlain
<1> HIDE DEF N
<1>6. ASSUME NEW n \in DOMAIN a, looksStructured(a[n])
      PROVE  n >= Len(a) - 1 /\ Len(a[n]) = 3 /\ n = N + 1
  <2>1. n \in 1 .. N \/ n = N + 1
    BY <1>1, <1>4
  <2>2. n \notin 1 .. N
    <3>1. n \in 1 .. N => a[n] = said[n]
      BY <1>1
    <3> QED BY <1>5, <1>6, <3>1
  <2> QED BY <2>1, <2>2, <1>1, <1>4
<1>7. ASSUME NEW n \in DOMAIN b, looksStructured(b[n])
      PROVE  n >= Len(b) - 1 /\ Len(b[n]) = 3
  <2>1. n \in 1 .. Len(a) \/ n = Len(a) + 1
    BY <1>1, <1>3, <1>4
  <2>2. n # Len(a) + 1
    BY <1>2, <1>3, <1>7
  <2>3. n \in DOMAIN a /\ b[n] = a[n]
    BY <2>1, <2>2, <1>3, <1>4
  <2>4. n = N + 1 /\ Len(a[n]) = 3
    BY <2>3, <1>6, <1>7
  <2> QED BY <2>3, <2>4, <1>1, <1>3, <1>4
<1> QED BY <1>6, <1>7 DEF a, b, e

(***************************************************************************)
(* The end of the prose.                                                   *)
(***************************************************************************)
LEMMA FlushIs ==
  ASSUME NEW s \in HandlerSet, Handled(s)
  PROVE  /\ Heard(flushProse(s)) /\ Filed(flushProse(s))
         /\ flushProse(s).content = s.content
<1> DEFINE e == <<>>
           tail == IF HasWords(s.buf) /\ ~looksStructured(s.buf) THEN Say(s, s.buf) ELSE s
<1>1. /\ s.content \in Letters /\ s.held \in Letters /\ s.buf \in Letters
      /\ s.said \in Seq(Letters)
  BY HandlerFields
<1>2. FlattenSeq(s.said) \in Letters /\ e \in Letters /\ Len(e) = 0
  BY <1>1, NoText, OneMore
<1>3. Says(FlattenSeq(s.said), s.buf, s.held, s.content) /\ AllPlain(s.said) /\ Len(s.held) \in {0, 3}
  BY DEF Handled, SaidInOrder
<1>4. CASE s.suppressed
  <2>1. flushProse(s) = Reheld(s, e, e)
    BY <1>4 DEF flushProse, Reheld, HandlerSet
  <2> HIDE DEF e
  <2>2. /\ Reheld(s, e, e) \in HandlerSet /\ Speaks(s, Reheld(s, e, e))
        /\ Reheld(s, e, e).said = s.said
    BY <1>2, ReheldIs
  <2>3. InOrder(FlattenSeq(s.said), s.content)
    BY <1>1, <1>2, <1>3, SaysInOrder
  <2>4. Heard(Reheld(s, e, e))
    BY <1>3, <2>2, <2>3 DEF Heard, Speaks, AllPlain
  <2>5. Filed(Reheld(s, e, e)) /\ Reheld(s, e, e).content = s.content
    BY <2>2 DEF Filed, Speaks, Handled
  <2> QED BY <2>1, <2>4, <2>5
<1>5. CASE ~s.suppressed
  <2>1. tail \in HandlerSet /\ Aside(s, tail)
    <3>1. Aside(s, s)
      BY DEF Aside
    <3> QED BY <3>1, <1>1, SayIs
  <2>2. AllPlain(tail.said) /\ Says(FlattenSeq(tail.said), e, s.held, s.content)
    <3>1. CASE ~(HasWords(s.buf) /\ ~looksStructured(s.buf))
      <4>1. Says(FlattenSeq(s.said), e, s.held, s.content)
        BY <1>1, <1>2, <1>3, SaysLess
      <4> QED BY <3>1, <4>1, <1>3
    <3>2. CASE HasWords(s.buf) /\ ~looksStructured(s.buf)
      <4>1. tail.said = Append(s.said, s.buf)
        BY <1>1, <3>2, SayIs
      <4>2. /\ FlattenSeq(Append(s.said, s.buf)) = Cat(FlattenSeq(s.said), s.buf)
            /\ AllPlain(Append(s.said, s.buf))
        BY <1>1, <1>3, <3>2, OneMore
      <4>3. Cat(s.buf, e) = s.buf
        BY <1>1, CatNone
      <4>4. Says(FlattenSeq(s.said), Cat(s.buf, e), s.held, s.content)
        BY <1>3, <4>3
      <4> HIDE DEF e, tail
      <4>5. Says(Cat(FlattenSeq(s.said), s.buf), e, s.held, s.content)
        BY <1>1, <1>2, <4>4, SaysNext
      <4> QED BY <4>1, <4>2, <4>5
    <3> QED BY <3>1, <3>2
  <2> DEFINE over == IF tail.held = <<>> THEN tail ELSE [tail EXCEPT !.said = Append(@, tail.held)]
  <2>3. flushProse(s) = Reheld(Close(over), e, e)
    BY <1>5 DEF flushProse, Reheld
  <2> HIDE DEF tail
  <2>4. /\ tail.said \in Seq(Letters) /\ tail.held = s.held /\ tail.content = s.content
    BY <2>1, HandlerFields DEF Aside
  <2>5. FlattenSeq(tail.said) \in Letters
    BY <2>4, <1>2, OneMore
  <2>6. /\ Append(tail.said, s.held) \in Seq(Letters)
        /\ FlattenSeq(Append(tail.said, s.held)) = Cat(FlattenSeq(tail.said), s.held)
    BY <2>4, <1>1, OneMore
  <2>7. /\ over \in HandlerSet /\ Aside(tail, over) /\ over.emitting = tail.emitting
        /\ over.said = IF s.held = <<>> THEN tail.said ELSE Append(tail.said, s.held)
    BY <2>1, <2>4, <2>6 DEF HandlerSet, Aside
  <2>8. Says(FlattenSeq(tail.said), s.held, e, s.content) /\ Says(FlattenSeq(tail.said), e, e, s.content)
    <3>1. Cat(e, s.held) = s.held /\ Cat(s.held, e) = s.held
      BY <1>1, CatNone
    <3>2. Says(FlattenSeq(tail.said), s.held, e, s.content)
      BY <3>1, <2>2 DEF Says
    <3>3. Says(FlattenSeq(tail.said), e, e, s.content)
      BY <2>5, <3>2, <1>1, NoText, SaysLess
    <3> QED BY <3>2, <3>3
  <2>9. over.said \in Seq(Letters) /\ FlattenSeq(over.said) \in Letters
        /\ Says(FlattenSeq(over.said), e, e, s.content)
    <3>1. CASE s.held = <<>>
      BY <3>1, <2>4, <2>5, <2>7, <2>8
    <3>2. CASE s.held # <<>>
      <4>1. over.said = Append(tail.said, s.held)
        BY <3>2, <2>7
      <4>2. Cat(s.held, e) = s.held
        BY <1>1, CatNone
      <4>3. Says(FlattenSeq(tail.said), Cat(s.held, e), e, s.content)
        BY <2>8, <4>2
      <4> HIDE DEF e, over
      <4>4. Says(Cat(FlattenSeq(tail.said), s.held), e, e, s.content)
        BY <1>1, <1>2, <2>5, <4>3, SaysNext
      <4>5. Cat(FlattenSeq(tail.said), s.held) \in Letters
        BY <1>1, <2>5, CatTyped
      <4> QED BY <2>6, <4>1, <4>4, <4>5
    <3> QED BY <3>1, <3>2
  <2> HIDE DEF over
  <2> DEFINE r == Close(over)
  <2>10. /\ r \in HandlerSet /\ Aside(over, r)
         /\ r.said = IF over.emitting THEN Append(over.said, e) ELSE over.said
    BY <2>7, CloseIs
  <2> HIDE DEF r
  <2>11. r.said \in Seq(Letters) /\ InOrder(FlattenSeq(r.said), s.content)
    <3>1. InOrder(FlattenSeq(over.said), s.content)
      <4> HIDE DEF e
      <4> QED BY <2>9, <1>1, <1>2, SaysInOrder
    <3>2. FlattenSeq(Append(over.said, e)) = FlattenSeq(over.said)
      <4>1. FlattenSeq(Append(over.said, e)) = Cat(FlattenSeq(over.said), e)
        <5> HIDE DEF e
        <5> QED BY <2>9, <1>2, OneMore
      <4>2. Cat(FlattenSeq(over.said), e) = FlattenSeq(over.said)
        BY <2>9, CatNone
      <4> QED BY <4>1, <4>2
    <3> QED BY <3>1, <3>2, <2>10, HandlerFields
  <2>12. \A n \in DOMAIN r.said : looksStructured(r.said[n]) => n >= Len(r.said) - 1 /\ Len(r.said[n]) = 3
    <3>1. CASE s.held = <<>>
      <4>1. over.said = tail.said
        BY <3>1, <2>7
      <4>2. AllPlain(Append(tail.said, e))
        BY <2>2, <2>4, NothingMore
      <4>3. AllPlain(r.said)
        BY <2>2, <2>10, <4>1, <4>2
      <4> QED BY <4>3 DEF AllPlain
    <3>2. CASE s.held # <<>>
      <4>1. over.said = Append(tail.said, s.held)
        BY <3>2, <2>7
      <4>2. Len(s.held) = 3
        BY <3>2, <1>1, <1>3, EmptySeq DEF Letters
      <4>3. CASE over.emitting
        <5>1. r.said = Append(Append(tail.said, s.held), e)
          BY <4>1, <4>3, <2>10
        <5> QED BY <5>1, <4>2, <1>1, <2>2, <2>4, PlainButLast
      <4>4. CASE ~over.emitting
        <5>1. r.said = Append(tail.said, s.held)
          BY <4>1, <4>4, <2>10
        <5> QED BY <5>1, <4>2, <1>1, <2>2, <2>4, PlainButLast
      <4> QED BY <4>3, <4>4
    <3> QED BY <3>1, <3>2
  <2> HIDE DEF e
  <2> DEFINE q == Reheld(r, e, e)
  <2>13. q \in HandlerSet /\ Speaks(r, q) /\ q.said = r.said
    BY <1>2, <2>10, ReheldIs
  <2>14. /\ q.content = s.content /\ q.files = s.files /\ q.writing = s.writing
    BY <2>1, <2>7, <2>10, <2>13 DEF Aside, Speaks
  <2> HIDE DEF q
  <2>15. Heard(q)
    BY <2>11, <2>12, <2>13, <2>14 DEF Heard
  <2>16. Filed(q)
    BY <2>14 DEF Filed, Handled
  <2> QED BY <2>3, <2>14, <2>15, <2>16 DEF q, r
<1> QED BY <1>4, <1>5

(***************************************************************************)
(* The last file is done at the end.                                       *)
(***************************************************************************)
LEMMA CloseFileIs ==
  ASSUME NEW s \in HandlerSet, Filed(s), Heard(s)
  PROVE  /\ Heard(CloseFile(s)) /\ CloseFile(s).content = s.content
         /\ Alternate(CloseFile(s).files) /\ Len(CloseFile(s).files) % 2 = 0
<1>1. s.writing \in Letters /\ s.files \in Seq(FileSet)
  BY HandlerFields
<1>2. CASE s.writing = <<>>
  BY <1>2 DEF CloseFile, Filed
<1>3. CASE s.writing # <<>>
  <2> DEFINE done == [event |-> "done", file |-> s.writing]
             files == Append(s.files, done)
             r == [s EXCEPT !.files = files]
  <2>1. done \in FileSet /\ done.event = "done"
    BY <1>1 DEF FileSet
  <2>2. CloseFile(s) = r
    BY <1>3 DEF CloseFile
  <2>3. Alternate(s.files) /\ ~(Len(s.files) % 2 = 0) /\ Len(s.files) \in Nat
    BY <1>1, <1>3, LenProperties DEF Filed
  <2> HIDE DEF done
  <2>4. files \in Seq(FileSet) /\ Alternate(files) /\ Len(files) = Len(s.files) + 1
    BY <1>1, <2>1, <2>3, FilesMore
  <2> HIDE DEF files
  <2>5. Len(files) % 2 = 0
    BY <2>3, <2>4, OddNext
  <2>6. /\ r \in HandlerSet /\ r.files = files /\ r.said = s.said /\ r.content = s.content
    BY <2>4 DEF HandlerSet
  <2> HIDE DEF r
  <2> QED BY <2>2, <2>4, <2>5, <2>6 DEF Heard
<1> QED BY <1>2, <1>3
\* A thought between its tags; what each piece hears and replays.
Think(t) == Cat(<<"<", "k", ">">>, Cat(t, <<"<", "/", "k", ">">>))
FromTag == [x \in OrderedSet |-> IF x.source = "tags" THEN x.text ELSE <<>>]
Replay  == [x \in OrderedSet |-> IF x.source = "content" THEN x.text
                                 ELSE IF x.source = "tags" THEN Think(x.text) ELSE <<>>]

(***************************************************************************)
(* The tags a thought is replayed in.                                      *)
(***************************************************************************)
LEMMA ThinkIs ==
  ASSUME NEW t \in Letters
  PROVE  /\ <<"<", "k", ">">> \in Letters /\ <<"<", "/", "k", ">">> \in Letters
         /\ Len(<<"<", "k", ">">>) = 3 /\ Len(<<"<", "/", "k", ">">>) = 4
         /\ Think(t) \in Letters
<1>1. <<"<", "k", ">">> \in Letters /\ <<"<", "/", "k", ">">> \in Letters
  BY LiteralsKnown, Tuples DEF Letters
<1>2. Len(<<"<", "k", ">">>) = 3 /\ Len(<<"<", "/", "k", ">">>) = 4
  OBVIOUS
<1> DEFINE a == <<"<", "k", ">">>
           b == <<"<", "/", "k", ">">>
<1>3. a \in Letters /\ b \in Letters
  BY <1>1
<1> HIDE DEF a, b
<1>4. Cat(a, Cat(t, b)) \in Letters
  BY <1>3, CatTyped
<1> QED BY <1>1, <1>2, <1>4 DEF Think, a, b

(***************************************************************************)
(* What is heard and replayed of a piece is a text.                        *)
(***************************************************************************)
LEMMA ReplayTyped == Maps(FromTag, OrderedSet, Letter) /\ Maps(Replay, OrderedSet, Letter)
<1>1. ASSUME NEW x \in OrderedSet
      PROVE  /\ (IF x.source = "tags" THEN x.text ELSE <<>>) \in Letters
             /\ (IF x.source = "content" THEN x.text
                 ELSE IF x.source = "tags" THEN Think(x.text) ELSE <<>>) \in Letters
  <2>1. x.text \in Letters
    BY DEF OrderedSet
  <2> QED BY <2>1, NoText, ThinkIs
<1>2. FromTag \in [OrderedSet -> Letters]
  BY <1>1, Zenon DEF FromTag
<1>3. Replay \in [OrderedSet -> Letters]
  BY <1>1, Zenon DEF Replay
<1> QED BY <1>2, <1>3, Zenon DEF Maps, Letters

(***************************************************************************)
(* What the router kept, as maps of its pieces.                            *)
(***************************************************************************)
LEMMA OrderedIs ==
  ASSUME NEW p \in Seq(OrderedSet)
  PROVE  /\ FromTags(p) = FlattenSeq(Mapped(FromTag, p))
         /\ historyText(p) = FlattenSeq(Mapped(Replay, p))
<1>1. \A i \in DOMAIN p : p[i] \in OrderedSet
  BY ElementOfSeq, LenProperties
<1>2. \A i \in DOMAIN p : FromTag[p[i]] = IF p[i].source = "tags" THEN p[i].text ELSE <<>>
  BY <1>1 DEF FromTag
<1>3. \A i \in DOMAIN p : Replay[p[i]] =
         CASE p[i].source = "content" -> p[i].text
           [] p[i].source = "tags" ->
                <<"<", "k", ">">> \o p[i].text \o <<"<", "/", "k", ">">>
           [] OTHER -> <<>>
  <2> SUFFICES ASSUME NEW i \in DOMAIN p
               PROVE  Replay[p[i]] =
                        CASE p[i].source = "content" -> p[i].text
                          [] p[i].source = "tags" ->
                               <<"<", "k", ">">> \o p[i].text \o <<"<", "/", "k", ">">>
                          [] OTHER -> <<>>
    OBVIOUS
  <2> DEFINE x == p[i]
             o == <<"<", "k", ">">>
             d == <<"<", "/", "k", ">">>
  <2>1. x \in OrderedSet /\ x.text \in Letters /\ x.source \in {"content", "tags", "field"}
    BY <1>1 DEF OrderedSet
  <2>2. Replay[x] = IF x.source = "content" THEN x.text
                    ELSE IF x.source = "tags" THEN Think(x.text) ELSE <<>>
    BY <2>1 DEF Replay
  <2>3. o \in Letters /\ d \in Letters
    BY ThinkIs, NoText
  <2>4. Think(x.text) = Cat(o, Cat(x.text, d))
    BY DEF Think
  <2> HIDE DEF x, o, d
  <2>5. Cat(o, Cat(x.text, d)) = Cat(Cat(o, x.text), d)
    BY <2>1, <2>3, CatCat
  <2>6. Think(x.text) = o \o x.text \o d
    BY <2>4, <2>5 DEF Cat
  <2>7. Replay[x] = CASE x.source = "content" -> x.text
                      [] x.source = "tags" -> o \o x.text \o d
                      [] OTHER -> <<>>
    BY <2>1, <2>2, <2>6
  <2> QED BY <2>7 DEF x, o, d
<1>4. Mapped(FromTag, p) = [i \in DOMAIN p |-> IF p[i].source = "tags" THEN p[i].text ELSE <<>>]
  BY <1>2, Zenon DEF Mapped
<1>5. Mapped(Replay, p) = [i \in DOMAIN p |->
         CASE p[i].source = "content" -> p[i].text
           [] p[i].source = "tags" ->
                <<"<", "k", ">">> \o p[i].text \o <<"<", "/", "k", ">">>
           [] OTHER -> <<>>]
  BY <1>3, Zenon DEF Mapped
<1> QED BY <1>4, <1>5, Zenon DEF FromTags, historyText

(***************************************************************************)
(* What joined pieces hear and replay is joined.                           *)
(***************************************************************************)
LEMMA OrderedJoined ==
  ASSUME NEW p \in Seq(OrderedSet), NEW q \in Seq(OrderedSet)
  PROVE  /\ Cat(p, q) \in Seq(OrderedSet)
         /\ FromTags(p) \in Letters /\ FromTags(Cat(p, q)) = Cat(FromTags(p), FromTags(q))
         /\ historyText(p) \in Letters
         /\ historyText(Cat(p, q)) = Cat(historyText(p), historyText(q))
<1>1. Cat(p, q) \in Seq(OrderedSet)
  BY ConcatProperties DEF Cat
<1> DEFINE r == Cat(p, q)
<1>2. r \in Seq(OrderedSet)
  BY <1>1
<1>3. /\ FlattenSeq(Mapped(FromTag, p)) \in Letters
      /\ FlattenSeq(Mapped(FromTag, r)) = Cat(FlattenSeq(Mapped(FromTag, p)), FlattenSeq(Mapped(FromTag, q)))
  BY ReplayTyped, MappedIs
<1>4. /\ FlattenSeq(Mapped(Replay, p)) \in Letters
      /\ FlattenSeq(Mapped(Replay, r)) = Cat(FlattenSeq(Mapped(Replay, p)), FlattenSeq(Mapped(Replay, q)))
  BY ReplayTyped, MappedIs
<1> HIDE DEF r
<1>5. /\ FromTags(r) = FlattenSeq(Mapped(FromTag, r))
      /\ historyText(r) = FlattenSeq(Mapped(Replay, r))
  BY <1>2, OrderedIs
<1>6. /\ FromTags(p) = FlattenSeq(Mapped(FromTag, p)) /\ historyText(p) = FlattenSeq(Mapped(Replay, p))
      /\ FromTags(q) = FlattenSeq(Mapped(FromTag, q)) /\ historyText(q) = FlattenSeq(Mapped(Replay, q))
  BY OrderedIs
<1>7. /\ FromTags(p) \in Letters /\ FromTags(r) = Cat(FromTags(p), FromTags(q))
      /\ historyText(p) \in Letters /\ historyText(r) = Cat(historyText(p), historyText(q))
  BY <1>3, <1>4, <1>5, <1>6
<1> QED BY <1>1, <1>7 DEF r

(***************************************************************************)
(* The splitter's pieces in the router.                                    *)
(***************************************************************************)
LEMMA TrackedIs ==
  ASSUME NEW p \in Seq(PieceSet), NEW source \in {"tags", "field"}
  PROVE  Tracked(p, source) \in Seq(OrderedSet) /\ Len(Tracked(p, source)) = Len(p)
<1>1. Len(p) \in Nat /\ DOMAIN p = 1 .. Len(p)
  BY LenProperties
<1>2. ASSUME NEW i \in DOMAIN p
      PROVE  [kind |-> p[i].kind, text |-> p[i].text,
              source |-> IF p[i].kind = "content" THEN "content" ELSE source] \in OrderedSet
  <2>1. p[i] \in PieceSet
    BY <1>1, ElementOfSeq
  <2> QED BY <2>1 DEF PieceSet, OrderedSet
<1>3. Tracked(p, source) \in [1 .. Len(p) -> OrderedSet]
  BY <1>1, <1>2 DEF Tracked
<1>4. Tracked(p, source) \in Seq(OrderedSet)
  BY <1>1, <1>3, IsASeq
<1>5. Len(Tracked(p, source)) = Len(p)
  BY <1>1, <1>3, <1>4, LenProperties
<1> QED BY <1>4, <1>5

(***************************************************************************)
(* Pieces are recorded one by one.                                         *)
(***************************************************************************)
LEMMA TrackedJoined ==
  ASSUME NEW p \in Seq(PieceSet), NEW q \in Seq(PieceSet)
  PROVE  Tracked(Cat(p, q), "tags") = Cat(Tracked(p, "tags"), Tracked(q, "tags"))
<1> DEFINE T(x) == [kind |-> x.kind, text |-> x.text,
                    source |-> IF x.kind = "content" THEN "content" ELSE "tags"]
           a == Tracked(p, "tags")
           b == Tracked(q, "tags")
           pq == Cat(p, q)
           r == Tracked(pq, "tags")
<1>1. /\ pq \in Seq(PieceSet) /\ Len(pq) = Len(p) + Len(q)
      /\ \A i \in 1 .. Len(p) + Len(q) : pq[i] = IF i <= Len(p) THEN p[i] ELSE q[i - Len(p)]
  BY ConcatProperties DEF Cat
<1>2. Len(p) \in Nat /\ Len(q) \in Nat /\ DOMAIN p = 1 .. Len(p) /\ DOMAIN q = 1 .. Len(q)
      /\ DOMAIN pq = 1 .. Len(pq)
  BY <1>1, LenProperties
<1>3. /\ a \in Seq(OrderedSet) /\ Len(a) = Len(p) /\ b \in Seq(OrderedSet) /\ Len(b) = Len(q)
  BY TrackedIs
<1>4. \A i \in DOMAIN p : a[i] = T(p[i])
  BY DEF Tracked
<1>5. \A i \in DOMAIN q : b[i] = T(q[i])
  BY DEF Tracked
<1>6. \A i \in DOMAIN pq : r[i] = T(pq[i])
  BY DEF Tracked
<1> HIDE DEF pq
<1>7. r \in Seq(OrderedSet) /\ Len(r) = Len(pq)
  BY <1>1, TrackedIs
<1> HIDE DEF a, b, r, T
<1>8. /\ Cat(a, b) \in Seq(OrderedSet) /\ Len(Cat(a, b)) = Len(a) + Len(b)
      /\ \A i \in 1 .. Len(a) + Len(b) : Cat(a, b)[i] = IF i <= Len(a) THEN a[i] ELSE b[i - Len(a)]
  BY <1>3, ConcatProperties DEF Cat
<1>9. ASSUME NEW i \in 1 .. Len(r) PROVE r[i] = Cat(a, b)[i]
  <2>1. i \in 1 .. Len(p) + Len(q) /\ i \in 1 .. Len(a) + Len(b) /\ i \in DOMAIN pq
    BY <1>1, <1>2, <1>3, <1>7
  <2>2. CASE i <= Len(p)
    <3>1. i \in DOMAIN p /\ pq[i] = p[i] /\ Cat(a, b)[i] = a[i]
      BY <2>1, <2>2, <1>1, <1>2, <1>3, <1>8
    <3> QED BY <3>1, <2>1, <1>4, <1>6
  <2>3. CASE ~(i <= Len(p))
    <3>1. i - Len(p) \in DOMAIN q /\ pq[i] = q[i - Len(p)] /\ Cat(a, b)[i] = b[i - Len(p)]
      BY <2>1, <2>3, <1>1, <1>2, <1>3, <1>8
    <3> QED BY <3>1, <2>1, <1>5, <1>6
  <2> QED BY <2>2, <2>3
<1>10. r = Cat(a, b)
  BY <1>1, <1>3, <1>7, <1>8, <1>9, SeqEqual
<1> QED BY <1>10 DEF r, a, b, pq

(***************************************************************************)
(* What the splitter's pieces think, and what they replay as.              *)
(***************************************************************************)
LEMMA TrackedThinks ==
  ASSUME NEW p \in Seq(PieceSet)
  PROVE  FromTags(Tracked(p, "tags")) = Thk(p) /\ Rep(p) \in Letters
<1> DEFINE t == Tracked(p, "tags")
<1>1. t \in Seq(OrderedSet) /\ \A i \in DOMAIN p : p[i] \in PieceSet
  BY TrackedIs, ElementOfSeq, LenProperties
<1>2. DOMAIN t = DOMAIN p
  BY DEF Tracked
<1>3. \A i \in DOMAIN p : /\ t[i].text = p[i].text
                          /\ t[i].source = "tags" <=> p[i].kind = "reasoning"
  BY <1>1 DEF Tracked, PieceSet
<1> HIDE DEF t
<1>4. [i \in DOMAIN t |-> IF t[i].source = "tags" THEN t[i].text ELSE <<>>]
      = [i \in DOMAIN p |-> IF p[i].kind = "reasoning" THEN p[i].text ELSE <<>>]
  BY <1>2, <1>3
<1>5. FromTags(t) = Thk(p)
  BY <1>4, Zenon DEF FromTags, Thk, TextOf
<1>6. historyText(t) \in Letters
  BY <1>1, OrderedJoined
<1> QED BY <1>5, <1>6 DEF t, Rep

(***************************************************************************)
(* The replay of joined pieces is the joined replay.                       *)
(***************************************************************************)
LEMMA RepJoined ==
  ASSUME NEW p \in Seq(PieceSet), NEW q \in Seq(PieceSet)
  PROVE  Rep(Cat(p, q)) = Cat(Rep(p), Rep(q))
<1> DEFINE a == Tracked(p, "tags")
           b == Tracked(q, "tags")
<1>1. Tracked(Cat(p, q), "tags") = Cat(a, b)
  BY TrackedJoined
<1>2. a \in Seq(OrderedSet) /\ b \in Seq(OrderedSet)
  BY TrackedIs
<1> HIDE DEF a, b
<1>3. historyText(Cat(a, b)) = Cat(historyText(a), historyText(b))
  BY <1>2, OrderedJoined
<1> QED BY <1>1, <1>3 DEF Rep, a, b

(***************************************************************************)
(* The replay of one piece: its text, between tags if it is a thought.     *)
(***************************************************************************)
LEMMA RepOfOne ==
  ASSUME NEW in \in BOOLEAN, NEW t \in Letters
  PROVE  Rep(Piece(KindOf(in), t)) = IF t = <<>> THEN <<>> ELSE IF in THEN Think(t) ELSE t
<1> DEFINE x == [kind |-> KindOf(in), text |-> t]
           y == [kind |-> KindOf(in), text |-> t, source |-> IF in THEN "tags" ELSE "content"]
<1>1. Maps(Replay, OrderedSet, Letter)
  BY ReplayTyped
<1>2. y \in OrderedSet /\ Replay[y] = IF in THEN Think(t) ELSE t
  BY DEF OrderedSet, Replay, KindOf
<1>3. Tracked(<<x>>, "tags") = <<y>>
  <2>1. x.kind = "content" <=> ~in
    BY DEF KindOf
  <2>2. DOMAIN <<x>> = {1} /\ <<x>>[1] = x /\ DOMAIN <<y>> = {1} /\ <<y>>[1] = y
    OBVIOUS
  <2>3. Tracked(<<x>>, "tags") = [i \in {1} |-> y]
    BY <2>1, <2>2 DEF Tracked
  <2>4. <<y>> = [i \in {1} |-> y]
    BY <2>2
  <2> QED BY <2>3, <2>4
<1>4. Tracked(<<>>, "tags") = <<>>
  <2>1. DOMAIN <<>> = {}
    OBVIOUS
  <2>2. Tracked(<<>>, "tags") = [i \in {} |-> FALSE] /\ <<>> = [i \in {} |-> FALSE]
    BY <2>1 DEF Tracked
  <2> QED BY <2>2
<1> HIDE DEF y
<1>5. /\ FlattenSeq(Mapped(Replay, <<y>>)) = Replay[y]
      /\ FlattenSeq(Mapped(Replay, <<>>)) = <<>>
  BY <1>1, <1>2, FlattenMappedOne
<1>6. <<y>> \in Seq(OrderedSet) /\ <<>> \in Seq(OrderedSet)
  BY <1>2, EmptySeq
<1>7. historyText(<<y>>) = Replay[y] /\ historyText(<<>>) = <<>>
  BY <1>5, <1>6, OrderedIs
<1>8. CASE t = <<>>
  BY <1>4, <1>7, <1>8 DEF Piece, Rep
<1>9. CASE t # <<>>
  BY <1>2, <1>3, <1>7, <1>9 DEF Piece, Rep
<1> QED BY <1>8, <1>9

(***************************************************************************)
(* A thought of the provider's own field is neither replayed nor split.    *)
(***************************************************************************)
FieldThought == <<[kind |-> "reasoning", text |-> <<"w">>]>>

(***************************************************************************)
(* A thought of the reasoning field is neither content, nor from a tag,    *)
(* nor replayed.                                                           *)
(***************************************************************************)
LEMMA FieldSilent ==
  /\ FieldThought \in Seq(PieceSet) /\ Con(FieldThought) = <<>>
  /\ Tracked(FieldThought, "field") \in Seq(OrderedSet)
  /\ FromTags(Tracked(FieldThought, "field")) = <<>>
  /\ historyText(Tracked(FieldThought, "field")) = <<>>
<1> DEFINE x == [kind |-> "reasoning", text |-> <<"w">>]
           y == [kind |-> "reasoning", text |-> <<"w">>, source |-> "field"]
<1>1. <<"w">> \in Letters
  <2>1. "w" \in Letter
    BY DEF Letter
  <2> QED BY <2>1, Tuples DEF Letters
<1>2. x \in PieceSet /\ y \in OrderedSet /\ x.kind = "reasoning"
  BY <1>1 DEF PieceSet, OrderedSet
<1>3. Tracked(<<x>>, "field") = <<y>>
  <2>2. DOMAIN <<x>> = {1} /\ <<x>>[1] = x /\ DOMAIN <<y>> = {1} /\ <<y>>[1] = y
    OBVIOUS
  <2>3. Tracked(<<x>>, "field") = [i \in {1} |-> y]
    BY <2>2 DEF Tracked
  <2>4. <<y>> = [i \in {1} |-> y]
    BY <2>2
  <2> QED BY <2>3, <2>4
<1>4. FromTag[y] = <<>> /\ Replay[y] = <<>>
  BY <1>2 DEF FromTag, Replay
<1>5. FieldThought = <<x>>
  BY DEF FieldThought
<1> HIDE DEF x, y
<1>6. /\ FlattenSeq(Mapped(Replay, <<y>>)) = Replay[y]
      /\ FlattenSeq(Mapped(FromTag, <<y>>)) = FromTag[y]
  BY <1>2, ReplayTyped, FlattenMappedOne
<1>7. <<y>> \in Seq(OrderedSet)
  BY <1>2
<1>8. historyText(<<y>>) = <<>> /\ FromTags(<<y>>) = <<>>
  BY <1>4, <1>6, <1>7, OrderedIs
<1>9. Con(<<x>>) = <<>> /\ <<x>> \in Seq(PieceSet)
  BY <1>2, TextsOfThis
<1> QED BY <1>3, <1>5, <1>7, <1>8, <1>9
\* The tags a thought is replayed in.
ThinkOpen  == <<"<", "k", ">">>
ThinkClose == <<"<", "/", "k", ">">>

\* Before x stands what reads as c and t.
Settled(q, c, t) == \A x \in Letters : Same(Split(Cat(q, x), FALSE), c, t, Split(x, FALSE))

\* No tag begins in seg when a thought follows it.
Leads(seg) == \A i, j : Tag(Cat(seg, ThinkOpen), FALSE, i, j) => i > Len(seg)

(***************************************************************************)
(* A text up to its first tag, and after it.                               *)
(***************************************************************************)
LEMMA ReadTag ==
  ASSUME NEW u \in Letters, NEW g \in Letters, NEW x \in Letters, NEW in \in BOOLEAN,
         FirstTag(Cat(u, Cat(g, x)), in, Len(u) + 1, Len(u) + Len(g))
  PROVE  /\ Split(Cat(u, Cat(g, x)), in) = Fronted(Piece(KindOf(in), u), Split(x, ~in))
         /\ Same(Split(Cat(u, Cat(g, x)), in), IF in THEN <<>> ELSE u, IF in THEN u ELSE <<>>,
                 Split(x, ~in))
<1> DEFINE gx == Cat(g, x)
           z == Cat(u, gx)
           i == Len(u) + 1
           j == Len(u) + Len(g)
<1>0. Len(u) \in Nat /\ Len(g) \in Nat /\ Len(x) \in Nat
  BY LenProperties DEF Letters
<1>1. gx \in Letters /\ Len(gx) = Len(g) + Len(x)
  BY CatTyped
<1> HIDE DEF gx
<1>2. z \in Letters
  BY <1>1, CatTyped
<1>3. Upto(z, i - 1) = u
  <2>1. i - 1 = Len(u) /\ Len(u) \in 0 .. Len(u)
    BY <1>0
  <2>2. Upto(z, Len(u)) = Upto(u, Len(u))
    BY <1>1, <2>1, PartsOfCat
  <2>3. Upto(u, Len(u)) = u
    BY WholeAndNone DEF Letters
  <2> QED BY <2>1, <2>2, <2>3
<1>4. From(z, j + 1) = x
  <2> DEFINE m == Len(g) + 1
  <2>1. m \in 1 .. Len(gx) + 1 /\ j + 1 = Len(u) + m
    BY <1>0, <1>1
  <2>2. m \in 1 .. Len(g) + 1 /\ Len(g) + 1 = m /\ 1 \in 1 .. Len(x) + 1
    BY <1>0
  <2>3. From(z, Len(u) + m) = From(gx, m)
    <3> HIDE DEF m
    <3> QED BY <1>1, <2>1, PartsOfCat
  <2>4. From(gx, Len(g) + 1) = From(x, 1)
    BY <2>2, PartsOfCat DEF gx
  <2>5. From(x, 1) = x
    BY WholeAndNone DEF Letters
  <2> QED BY <2>1, <2>2, <2>3, <2>4, <2>5
<1>5. FirstTag(z, in, i, j)
  BY DEF gx
<1> HIDE DEF z, i, j
<1>6. Split(z, in) = SplitAt(z, in, i, j)
  BY <1>2, <1>5, SplitTag
<1>7. SplitAt(z, in, i, j) = Fronted(Piece(KindOf(in), u), Split(x, ~in))
  BY <1>3, <1>4, SplitAtIs
<1> DEFINE e == Piece(KindOf(in), u)
           s == Split(x, ~in)
<1>8. e \in Seq(PieceSet) /\ Con(e) = (IF in THEN <<>> ELSE u) /\ Thk(e) = (IF in THEN u ELSE <<>>)
  BY PieceIs, TextsOfOne
<1>9. s \in FeedSet
  BY SplitTyped
<1> HIDE DEF e, s
<1>10. Same(Fronted(e, s), Con(e), Thk(e), s)
  BY <1>8, <1>9, SameFronted
<1>11. Split(z, in) = Fronted(e, s)
  BY <1>6, <1>7 DEF e, s
<1>12. Same(Split(z, in), IF in THEN <<>> ELSE u, IF in THEN u ELSE <<>>, s)
  BY <1>8, <1>10, <1>11
<1> QED BY <1>11, <1>12 DEF z, gx, e, s

(***************************************************************************)
(* The letters of the tags that a thought is replayed between.             *)
(***************************************************************************)
LEMMA ThinkTags ==
  /\ ThinkOpen \in Letters /\ Len(ThinkOpen) = 3
  /\ ThinkOpen[1] = "<" /\ ThinkOpen[2] = "k" /\ ThinkOpen[3] = ">"
  /\ ThinkClose \in Letters /\ Len(ThinkClose) = 4
  /\ ThinkClose[1] = "<" /\ ThinkClose[2] = "/" /\ ThinkClose[3] = "k" /\ ThinkClose[4] = ">"
<1>1. ThinkOpen \in Letters /\ ThinkClose \in Letters
  BY NoText, ThinkIs DEF ThinkOpen, ThinkClose
<1>2. /\ Len(ThinkOpen) = 3
      /\ ThinkOpen[1] = "<" /\ ThinkOpen[2] = "k" /\ ThinkOpen[3] = ">"
  BY DEF ThinkOpen
<1>3. /\ Len(ThinkClose) = 4
      /\ ThinkClose[1] = "<" /\ ThinkClose[2] = "/" /\ ThinkClose[3] = "k" /\ ThinkClose[4] = ">"
  BY DEF ThinkClose
<1> QED BY <1>1, <1>2, <1>3

(***************************************************************************)
(* The letters of a joined text.                                           *)
(***************************************************************************)
LEMMA CatAt ==
  ASSUME NEW u \in Letters, NEW v \in Letters
  PROVE  /\ Len(Cat(u, v)) = Len(u) + Len(v) /\ Len(u) \in Nat /\ Len(v) \in Nat
         /\ \A i \in 1 .. Len(u) : Cat(u, v)[i] = u[i]
         /\ \A i \in 1 .. Len(v) : Cat(u, v)[Len(u) + i] = v[i]
<1>0. Len(u) \in Nat /\ Len(v) \in Nat
  BY LenProperties DEF Letters
<1>1. /\ Len(Cat(u, v)) = Len(u) + Len(v)
      /\ \A i \in 1 .. Len(u) + Len(v) : Cat(u, v)[i] = IF i <= Len(u) THEN u[i] ELSE v[i - Len(u)]
  BY ConcatProperties DEF Cat, Letters
<1>2. ASSUME NEW i \in 1 .. Len(u) PROVE Cat(u, v)[i] = u[i]
  BY <1>0, <1>1
<1>3. ASSUME NEW i \in 1 .. Len(v) PROVE Cat(u, v)[Len(u) + i] = v[i]
  <2>1. Len(u) + i \in 1 .. Len(u) + Len(v) /\ ~(Len(u) + i <= Len(u)) /\ (Len(u) + i) - Len(u) = i
    BY <1>0
  <2> QED BY <1>1, <2>1
<1> QED BY <1>0, <1>1, <1>2, <1>3

(***************************************************************************)
(* A thought that follows the answer is read as one.                       *)
(***************************************************************************)
LEMMA OpensThere ==
  ASSUME NEW seg \in Letters, NEW w \in Letters, Leads(seg)
  PROVE  FirstTag(Cat(seg, Cat(ThinkOpen, w)), FALSE, Len(seg) + 1, Len(seg) + 3)
<1> DEFINE ow == Cat(ThinkOpen, w)
           z == Cat(seg, ow)
           so == Cat(seg, ThinkOpen)
<1>0. /\ ThinkOpen \in Letters /\ Len(ThinkOpen) = 3
      /\ ThinkOpen[1] = "<" /\ ThinkOpen[2] = "k" /\ ThinkOpen[3] = ">"
  BY ThinkTags
<1>1. ow \in Letters /\ so \in Letters /\ Cat(so, w) = z
  <2>1. ow \in Letters /\ so \in Letters
    BY <1>0, CatTyped
  <2>2. Cat(Cat(seg, ThinkOpen), w) = Cat(seg, Cat(ThinkOpen, w))
    BY <1>0, CatCat
  <2> QED BY <2>1, <2>2
<1>2. z \in Letters
  <2> HIDE DEF ow
  <2> QED BY <1>1, CatTyped
<1>3. /\ Len(so) = Len(seg) + 3 /\ Len(seg) \in Nat /\ Len(w) \in Nat
      /\ so[Len(seg) + 3] = ">" /\ Len(ow) = 3 + Len(w)
      /\ ow[1] = "<" /\ ow[2] = "k" /\ ow[3] = ">"
  <2>1. 1 \in 1 .. 3 /\ 2 \in 1 .. 3 /\ 3 \in 1 .. 3
    OBVIOUS
  <2>2. Len(so) = Len(seg) + 3 /\ Len(seg) \in Nat /\ so[Len(seg) + 3] = ">"
    <3>1. /\ Len(so) = Len(seg) + Len(ThinkOpen) /\ Len(seg) \in Nat
          /\ \A i \in 1 .. Len(ThinkOpen) : so[Len(seg) + i] = ThinkOpen[i]
      BY <1>0, CatAt
    <3> HIDE DEF so
    <3>2. 3 \in 1 .. Len(ThinkOpen)
      BY <1>0
    <3> QED BY <1>0, <3>1, <3>2
  <2>3. Len(w) \in Nat /\ Len(ow) = 3 + Len(w) /\ ow[1] = "<" /\ ow[2] = "k" /\ ow[3] = ">"
    <3>1. /\ Len(ow) = Len(ThinkOpen) + Len(w) /\ Len(w) \in Nat
          /\ \A i \in 1 .. Len(ThinkOpen) : ow[i] = ThinkOpen[i]
      BY <1>0, CatAt
    <3> HIDE DEF ow
    <3> QED BY <1>0, <2>1, <3>1
  <2> QED BY <2>2, <2>3
<1>4. Tag(ow, FALSE, 1, 3)
  <2>1. Opens(ow, 1)
    BY <1>3 DEF Opens
  <2> HIDE DEF ow
  <2> QED BY <2>1, <1>3 DEF Tag
<1>5. z[Len(seg) + 3] = ">"
  <2>1. Len(seg) + 3 \in 1 .. Len(so)
    BY <1>3
  <2>2. Cat(so, w)[Len(seg) + 3] = so[Len(seg) + 3]
    <3> HIDE DEF so, z
    <3> QED BY <1>1, <2>1, CatAt
  <2> QED BY <1>1, <1>3, <2>2
<1>6. \A i, j : Tag(so, FALSE, i, j) => i > Len(seg)
  BY DEF Leads
<1> HIDE DEF ow, so, z
<1>7. ASSUME NEW i, NEW j, Tag(z, FALSE, i, j) PROVE i > Len(seg)
  <2>1. i \in 1 .. Len(z) /\ j \in i + 2 .. Len(z) /\ Len(z) \in Nat
    BY <1>2, <1>7, TagWithin
  <2>2. CASE j <= Len(so)
    <3>1. Tag(so, FALSE, i, j)
      BY <1>1, <1>7, <2>2, TagsOfCat
    <3> QED BY <3>1, <1>6
  <2>3. CASE ~(j <= Len(so)) /\ ~(i > Len(seg))
    <3>1. Len(seg) + 3 \in i + 2 .. j - 1
      BY <2>1, <2>3, <1>3
    <3>2. \A x \in i + 2 .. j - 1 : z[x] # ">"
      BY <1>7 DEF Tag
    <3> QED BY <3>1, <3>2, <1>5
  <2> QED BY <2>2, <2>3
<1>8. FirstTag(ow, FALSE, 1, 3)
  <2>1. ASSUME NEW x, NEW y, Tag(ow, FALSE, x, y) PROVE 1 <= x
    <3>1. x \in 1 .. Len(ow)
      BY <1>1, <2>1, TagWithin
    <3> QED BY <3>1
  <2> QED BY <1>4, <2>1 DEF FirstTag
<1>9. FirstTag(Cat(seg, ow), FALSE, Len(seg) + 1, Len(seg) + 3)
  BY <1>1, <1>7, <1>8, FirstLater DEF z
<1> QED BY <1>9 DEF ow

(***************************************************************************)
(* And it ends where it is closed.                                         *)
(***************************************************************************)
LEMMA ClosesThere ==
  ASSUME NEW r \in Letters, NEW x \in Letters, NoTag(r, TRUE)
  PROVE  FirstTag(Cat(r, Cat(ThinkClose, x)), TRUE, Len(r) + 1, Len(r) + 4)
<1> DEFINE d == Cat(ThinkClose, x)
           z == Cat(r, d)
<1>0. /\ ThinkClose \in Letters /\ Len(ThinkClose) = 4
      /\ ThinkClose[1] = "<" /\ ThinkClose[2] = "/" /\ ThinkClose[3] = "k" /\ ThinkClose[4] = ">"
  BY ThinkTags
<1>1. d \in Letters
  BY <1>0, CatTyped
<1>2. /\ Len(d) = 4 + Len(x) /\ Len(x) \in Nat
      /\ d[1] = "<" /\ d[2] = "/" /\ d[3] = "k" /\ d[4] = ">"
  <2>1. 1 \in 1 .. 4 /\ 2 \in 1 .. 4 /\ 3 \in 1 .. 4 /\ 4 \in 1 .. 4
    OBVIOUS
  <2> QED BY <1>0, <2>1, CatAt, ZenonT(40)
<1>3. Tag(d, TRUE, 1, 4)
  <2> HIDE DEF d
  <2>1. ClosesName(d, 1)
    BY <1>2 DEF ClosesName
  <2> QED BY <2>1, <1>2 DEF Tag, Closes
<1> HIDE DEF d
<1>4. z \in Letters /\ Len(z) = Len(r) + Len(d) /\ Len(r) \in Nat /\ z[Len(r) + 1] = "<"
  <2>1. 1 \in 1 .. Len(d)
    BY <1>2
  <2>2. z \in Letters
    BY <1>1, CatTyped
  <2>3. Len(z) = Len(r) + Len(d) /\ Len(r) \in Nat /\ z[Len(r) + 1] = d[1]
    BY <1>1, <2>1, CatAt
  <2> QED BY <2>2, <2>3, <1>2
<1>5. \A i, j : Tag(z, TRUE, i, j) /\ j <= Len(r) => Tag(r, TRUE, i, j)
  BY <1>1, TagsOfCat
<1> HIDE DEF z
<1>6. ASSUME NEW i, NEW j, Tag(z, TRUE, i, j) PROVE i > Len(r)
  <2>1. i \in 1 .. Len(z) /\ j \in i + 2 .. Len(z) /\ Len(z) \in Nat
    BY <1>4, <1>6, TagWithin
  <2>2. j = i + 3 /\ z[i + 1] = "/" /\ z[i + 2] = "k" /\ z[i + 3] = ">"
    BY <1>6 DEF Tag, Closes, ClosesName
  <2>3. ~(j <= Len(r))
    BY <1>5, <1>6 DEF NoTag
  <2>4. Len(r) + 1 # i + 1 /\ Len(r) + 1 # i + 2 /\ Len(r) + 1 # i + 3
    BY <2>2, <1>4
  <2> QED BY <2>1, <2>2, <2>3, <2>4, <1>4
<1>7. FirstTag(d, TRUE, 1, 4)
  <2>2. ASSUME NEW a, NEW b, Tag(d, TRUE, a, b) PROVE 1 <= a
    <3>1. a \in 1 .. Len(d)
      BY <1>1, <2>2, TagWithin
    <3> QED BY <3>1
  <2> QED BY <1>3, <2>2 DEF FirstTag
<1>8. FirstTag(Cat(r, d), TRUE, Len(r) + 1, Len(r) + 4)
  BY <1>1, <1>6, <1>7, FirstLater DEF z
<1> QED BY <1>8 DEF d

(***************************************************************************)
(* So a thought is settled.                                                *)
(***************************************************************************)
LEMMA ThinkSettles ==
  ASSUME NEW q \in Letters, NEW seg \in Letters, NEW c0 \in Letters, NEW t \in Letters,
         NEW r \in Letters, Settled(q, c0, t), Leads(seg), NoTag(r, TRUE)
  PROVE  Settled(Cat(Cat(q, seg), Think(r)), Cat(c0, seg), Cat(t, r))
<1> SUFFICES ASSUME NEW x \in Letters
             PROVE  Same(Split(Cat(Cat(Cat(q, seg), Think(r)), x), FALSE),
                         Cat(c0, seg), Cat(t, r), Split(x, FALSE))
  BY DEF Settled
<1> DEFINE o == ThinkOpen
           d == ThinkClose
           dx == Cat(d, x)
           w == Cat(r, dx)
           ow == Cat(o, w)
           z == Cat(seg, ow)
           e == <<>>
<1>0. o \in Letters /\ d \in Letters /\ Len(o) = 3 /\ Len(d) = 4
  BY ThinkTags
<1>1. Think(r) = Cat(o, Cat(r, d))
  BY DEF Think, ThinkOpen, ThinkClose
<1> HIDE DEF o, d
<1>2. dx \in Letters /\ Cat(r, d) \in Letters
  BY <1>0, CatTyped
<1>3. w \in Letters /\ Cat(Cat(r, d), x) = w
  <2>1. Cat(Cat(r, d), x) = Cat(r, Cat(d, x))
    BY <1>0, CatCat
  <2> HIDE DEF dx
  <2>2. w \in Letters
    BY <1>2, CatTyped
  <2> QED BY <2>1, <2>2 DEF dx
<1>4. ow \in Letters /\ Think(r) \in Letters /\ Cat(Think(r), x) = ow
  <2> HIDE DEF w
  <2>1. ow \in Letters
    BY <1>0, <1>3, CatTyped
  <2> DEFINE rd == Cat(r, d)
  <2>2. rd \in Letters /\ Cat(rd, x) = w
    BY <1>2, <1>3
  <2> HIDE DEF rd
  <2>3. Cat(Cat(o, rd), x) = Cat(o, Cat(rd, x)) /\ Cat(o, rd) \in Letters
    BY <1>0, <2>2, CatCat, CatTyped
  <2> QED BY <1>1, <2>1, <2>2, <2>3 DEF rd
<1>5. Cat(Cat(Cat(q, seg), Think(r)), x) = Cat(q, z) /\ z \in Letters
  <2> HIDE DEF ow
  <2> DEFINE qs == Cat(q, seg)
             th == Think(r)
  <2>1. qs \in Letters /\ th \in Letters /\ Cat(th, x) = ow
    BY <1>4, CatTyped
  <2>2. Cat(qs, ow) = Cat(q, Cat(seg, ow))
    BY <1>4, CatCat
  <2>3. z \in Letters
    BY <1>4, CatTyped
  <2> HIDE DEF qs, th
  <2>4. Cat(Cat(qs, th), x) = Cat(qs, Cat(th, x))
    BY <2>1, CatCat
  <2> QED BY <2>1, <2>2, <2>3, <2>4 DEF qs, th
<1>6. Same(Split(Cat(q, z), FALSE), c0, t, Split(z, FALSE))
  <2> HIDE DEF z
  <2> QED BY <1>5 DEF Settled
<1>7. e \in Letters
  BY NoText
<1>8. Same(Split(z, FALSE), seg, e, Split(w, TRUE))
  <2>1. FirstTag(z, FALSE, Len(seg) + 1, Len(seg) + Len(o))
    BY <1>0, <1>3, OpensThere DEF o
  <2> HIDE DEF w
  <2>2. Same(Split(Cat(seg, Cat(o, w)), FALSE), IF FALSE THEN <<>> ELSE seg,
             IF FALSE THEN seg ELSE <<>>, Split(w, ~FALSE))
    BY <1>0, <1>3, <2>1, ReadTag
  <2>3. (~FALSE) = TRUE
    OBVIOUS
  <2> QED BY <2>2, <2>3
<1>9. Same(Split(w, TRUE), e, r, Split(x, FALSE))
  <2>1. FirstTag(w, TRUE, Len(r) + 1, Len(r) + Len(d))
    BY <1>0, ClosesThere DEF d
  <2>2. Same(Split(Cat(r, Cat(d, x)), TRUE), IF TRUE THEN <<>> ELSE r,
             IF TRUE THEN r ELSE <<>>, Split(x, ~TRUE))
    BY <1>0, <2>1, ReadTag
  <2>3. (~TRUE) = FALSE
    OBVIOUS
  <2> QED BY <2>2, <2>3
<1>10. /\ Split(Cat(q, z), FALSE) \in FeedSet /\ Split(z, FALSE) \in FeedSet
       /\ Split(w, TRUE) \in FeedSet /\ Split(x, FALSE) \in FeedSet
  <2>1. Cat(q, z) \in Letters
    <3> HIDE DEF z
    <3> QED BY <1>5, CatTyped
  <2> HIDE DEF z, w
  <2> QED BY <1>3, <1>5, <2>1, SplitTyped
<1>11. Cat(seg, e) = seg /\ Cat(e, r) = r
  BY CatNone
<1> DEFINE s1 == Split(Cat(q, z), FALSE)
           s2 == Split(z, FALSE)
           s3 == Split(w, TRUE)
           s4 == Split(x, FALSE)
<1>12. /\ s1 \in FeedSet /\ s2 \in FeedSet /\ s3 \in FeedSet /\ s4 \in FeedSet
       /\ Same(s1, c0, t, s2) /\ Same(s2, seg, e, s3) /\ Same(s3, e, r, s4)
  BY <1>6, <1>8, <1>9, <1>10
<1> HIDE DEF s1, s2, s3, s4, e
<1>13. Same(s2, Cat(seg, e), Cat(e, r), s4)
  BY <1>7, <1>12, SameSame
<1>14. Same(s2, seg, r, s4)
  BY <1>11, <1>13 DEF e
<1>15. Same(s1, Cat(c0, seg), Cat(t, r), s4)
  BY <1>12, <1>14, SameSame
<1> QED BY <1>5, <1>15 DEF s1, s4
\* The thought that b goes on with began after a part of the answer.
Begun(recv, b) ==
  \E p, g \in Letters : p # <<>> /\ recv = Cat(p, Cat(g, b)) /\ Tag(g, FALSE, 1, Len(g))

\* Nothing of seg is the beginning of a tag that b ends.
Ahead(seg, b) ==
  /\ \A i, j : Tag(Cat(seg, b), FALSE, i, j) => i > Len(seg)
  /\ KeptOf(Cat(seg, b), FALSE) = Len(seg) + KeptOf(b, FALSE)

\* What arrived ends with b, after the answer seg.
Standing(recv, seg, b, in) ==
  IF in THEN /\ \E p \in Letters : recv = Cat(p, b)
             /\ seg = <<>> \/ (Leads(seg) /\ Begun(recv, b))
  ELSE (\E p \in Letters : recv = Cat(p, Cat(seg, b))) /\ Ahead(seg, b)

\* The replay so far reads as the answer c and the thinking t so far.
Faithful(hist, c, t, recv, b, in) ==
  \E q, seg, c0 \in Letters :
    hist = Cat(q, seg) /\ c = Cat(c0, seg) /\ Settled(q, c0, t) /\ Standing(recv, seg, b, in)

(***************************************************************************)
(* After a settled replay, whatever stands in the buffer is replayed       *)
(* faithfully.                                                             *)
(***************************************************************************)
LEMMA Afresh ==
  ASSUME NEW hist \in Letters, NEW c \in Letters, NEW t \in Letters, NEW p \in Letters,
         NEW b \in Letters, NEW in \in BOOLEAN, Settled(hist, c, t)
  PROVE  Faithful(hist, c, t, Cat(p, b), b, in)
<1> DEFINE e == <<>>
<1>1. e \in Letters /\ Len(e) = 0 /\ Cat(hist, e) = hist /\ Cat(c, e) = c /\ Cat(e, b) = b
  BY NoText, CatNone
<1>2. Ahead(e, b)
  <2>1. \A i, j : Tag(b, FALSE, i, j) => i > 0
    <3>1. ASSUME NEW i, NEW j, Tag(b, FALSE, i, j) PROVE i > 0
      <4>1. i \in 1 .. Len(b)
        BY <3>1, TagWithin
      <4> QED BY <4>1
    <3> QED BY <3>1
  <2> DEFINE k == KeptOf(b, FALSE)
  <2>2. Len(b) \in Nat /\ k \in 0 .. Len(b)
    BY KeptIs, LenProperties DEF Letters
  <2> HIDE DEF k
  <2>3. k = 0 + k
    BY <2>2
  <2>4. KeptOf(b, FALSE) = 0 + KeptOf(b, FALSE)
    BY <2>3 DEF k
  <2> HIDE DEF e
  <2> QED BY <1>1, <2>1, <2>4 DEF Ahead
<1>3. Standing(Cat(p, b), e, b, in)
  <2>1. in => Standing(Cat(p, b), e, b, in)
    BY DEF Standing
  <2>2. ~in => Standing(Cat(p, b), e, b, in)
    <3> HIDE DEF e
    <3> QED BY <1>1, <1>2 DEF Standing
  <2> QED BY <2>1, <2>2
<1> HIDE DEF e
<1> QED BY <1>1, <1>3 DEF Faithful

(***************************************************************************)
(* A tag with what is before it and after it.                              *)
(***************************************************************************)
LEMMA TagParts ==
  ASSUME NEW b \in Letters, NEW in \in BOOLEAN, NEW i, NEW j, FirstTag(b, in, i, j)
  PROVE  \E u, g, f \in Letters :
           /\ u = Upto(b, i - 1) /\ f = From(b, j + 1) /\ b = Cat(u, Cat(g, f))
           /\ i = Len(u) + 1 /\ j = Len(u) + Len(g)
           /\ Tag(g, in, 1, Len(g)) /\ NoTag(u, in)
<1> DEFINE u == Upto(b, i - 1)
           f == From(b, j + 1)
           a == Upto(b, j)
           g == From(a, i)
<1>1. Tag(b, in, i, j) /\ \A x, y : Tag(b, in, x, y) => i <= x
  BY DEF FirstTag
<1>2. i \in 1 .. Len(b) /\ j \in i + 2 .. Len(b) /\ Len(b) \in Nat
  BY <1>1, TagWithin
<1>3. u \in Letters /\ f \in Letters /\ a \in Letters /\ Cat(a, f) = b
  BY NoText, AroundTag
<1>4. Len(u) = i - 1
  BY <1>1, AfterTag
<1>5. Len(a) = j
  <2>1. j \in 0 .. Len(b)
    BY <1>2
  <2> QED BY <2>1, UptoIs DEF Letters
<1> HIDE DEF f
<1>6. Upto(a, i - 1) = u
  <2>1. i - 1 \in 0 .. Len(a)
    BY <1>2, <1>5
  <2>2. Upto(Cat(a, f), i - 1) = Upto(a, i - 1)
    <3> HIDE DEF a
    <3> QED BY <1>3, <2>1, PartsOfCat
  <2> QED BY <1>3, <2>2
<1> HIDE DEF a
<1>7. g \in Letters /\ Cat(u, g) = a
  <2>1. i - 1 \in 0 .. Len(a) /\ (i - 1) + 1 = i /\ i \in 1 .. Len(a) + 1
    BY <1>2, <1>5
  <2>2. g \in Letters
    BY <1>3, <2>1, FromIs DEF Letters
  <2>3. Upto(a, i - 1) \o From(a, (i - 1) + 1) = a
    BY <1>3, <2>1, UptoFrom DEF Letters
  <2> QED BY <1>6, <2>1, <2>2, <2>3 DEF Cat
<1> HIDE DEF u, g
<1>8. b = Cat(u, Cat(g, f))
  <2>1. Cat(Cat(u, g), f) = Cat(u, Cat(g, f))
    BY <1>3, <1>7, CatCat
  <2> QED BY <2>1, <1>3, <1>7
<1>9. Len(a) = Len(u) + Len(g) /\ Len(u) \in Nat /\ Len(g) \in Nat
  BY <1>3, <1>7, CatAt
<1>10. Tag(g, in, 1, Len(g))
  <2>1. Tag(a, in, i, j)
    BY <1>1, <1>2, <1>3, <1>5, TagsOfCat
  <2>2. i > Len(u) /\ i - Len(u) = 1 /\ j - Len(u) = Len(g)
    BY <1>2, <1>4, <1>5, <1>9
  <2>3. Tag(g, in, i - Len(u), j - Len(u))
    BY <1>3, <1>7, <2>1, <2>2, TagsOfCat
  <2> QED BY <2>2, <2>3
<1>11. NoTag(u, in)
  <2>1. ASSUME NEW x, NEW y, Tag(u, in, x, y) PROVE FALSE
    <3> DEFINE gf == Cat(g, f)
    <3>1. gf \in Letters /\ b = Cat(u, gf)
      BY <1>3, <1>7, <1>8, CatTyped
    <3> HIDE DEF gf
    <3>2. Tag(b, in, x, y)
      BY <1>3, <2>1, <3>1, TagsOfCat
    <3>3. x \in 1 .. Len(u)
      BY <1>3, <2>1, TagWithin
    <3> QED BY <1>1, <1>2, <1>4, <3>2, <3>3
  <2> QED BY <2>1 DEF NoTag
<1>12. i = Len(u) + 1 /\ j = Len(u) + Len(g)
  BY <1>2, <1>4, <1>5, <1>9
<1> QED BY <1>3, <1>7, <1>8, <1>10, <1>11, <1>12 DEF u, f

(***************************************************************************)
(* An empty thought, by its places.                                        *)
(***************************************************************************)
LEMMA EmptyThoughtIs ==
  ASSUME NEW t \in Letters
  PROVE  HasEmptyThought(t) <=> \E i, j : Tag(t, FALSE, i, j) /\ i > 1 /\ Closes(t, j + 1)
<1>1. \A x : x \in OpenTags(t) <=> \E i, j : x = <<i, j>> /\ Tag(t, FALSE, i, j)
  <2>1. TagsOf(t, FALSE) = OpenTags(t)
    BY DEF TagsOf
  <2>2. \A x : x \in TagsOf(t, FALSE) <=> \E i, j : x = <<i, j>> /\ Tag(t, FALSE, i, j)
    BY TagsAre
  <2> QED BY <2>1, <2>2
<1>2. \A i, j : Tag(t, FALSE, i, j) => (HasAt(t, j + 1, Append(Closing, ">")) <=> Closes(t, j + 1))
  <2>1. ASSUME NEW i, NEW j, Tag(t, FALSE, i, j)
        PROVE  HasAt(t, j + 1, Append(Closing, ">")) <=> Closes(t, j + 1)
    <3>1. i \in 1 .. Len(t) /\ j \in i + 2 .. Len(t)
      BY <2>1, TagWithin
    <3> DEFINE m == j + 1
    <3>2. m \in Nat \ {0}
      BY <3>1
    <3> HIDE DEF m
    <3>3. HasAt(t, m, Append(Closing, ">")) <=> Closes(t, m)
      BY <3>2, LiteralsAre
    <3> QED BY <3>3 DEF m
  <2> QED BY <2>1
<1>3. ASSUME HasEmptyThought(t) PROVE \E i, j : Tag(t, FALSE, i, j) /\ i > 1 /\ Closes(t, j + 1)
  <2>1. PICK x \in OpenTags(t) : x[1] > 1 /\ HasAt(t, x[2] + 1, Append(Closing, ">"))
    BY <1>3 DEF HasEmptyThought
  <2>2. PICK i, j : x = <<i, j>> /\ Tag(t, FALSE, i, j)
    BY <1>1, <2>1
  <2>3. x[1] = i /\ x[2] = j
    BY <2>2
  <2> QED BY <1>2, <2>1, <2>2, <2>3
<1>4. ASSUME NEW i, NEW j, Tag(t, FALSE, i, j), i > 1, Closes(t, j + 1) PROVE HasEmptyThought(t)
  <2> DEFINE x == <<i, j>>
  <2>1. x \in OpenTags(t) /\ x[1] = i /\ x[2] = j
    BY <1>1, <1>4
  <2>2. HasAt(t, j + 1, Append(Closing, ">"))
    BY <1>2, <1>4
  <2> HIDE DEF x
  <2> QED BY <2>1, <2>2, <1>4 DEF HasEmptyThought
<1> QED BY <1>3, <1>4

(***************************************************************************)
(* A text that begins with one that has an empty thought has one.          *)
(***************************************************************************)
LEMMA EmptyThoughtStays ==
  ASSUME NEW u \in Letters, NEW v \in Letters, HasEmptyThought(u)
  PROVE  HasEmptyThought(Cat(u, v))
<1>1. PICK i, j : Tag(u, FALSE, i, j) /\ i > 1 /\ Closes(u, j + 1)
  BY EmptyThoughtIs
<1>2. Tag(Cat(u, v), FALSE, i, j) /\ Cat(u, v) \in Letters
  BY <1>1, TagsOfCat, CatTyped
<1>3. Closes(Cat(u, v), j + 1)
  <2>1. Tag(u, TRUE, j + 1, (j + 1) + 3)
    BY <1>1 DEF Tag
  <2>2. Tag(Cat(u, v), TRUE, j + 1, (j + 1) + 3)
    BY <2>1, TagsOfCat
  <2> QED BY <2>2 DEF Tag
<1> HIDE DEF Cat
<1> QED BY <1>1, <1>2, <1>3, EmptyThoughtIs

(***************************************************************************)
(* An opening tag and then a closing one, after a text, are an empty       *)
(* thought.                                                                *)
(***************************************************************************)
LEMMA EmptyThoughtFound ==
  ASSUME NEW p \in Letters, NEW g \in Letters, NEW b \in Letters, p # <<>>,
         Tag(g, FALSE, 1, Len(g)), Tag(b, TRUE, 1, 4)
  PROVE  HasEmptyThought(Cat(p, Cat(g, b)))
<1> DEFINE gb == Cat(g, b)
           r == Cat(p, gb)
<1>1. gb \in Letters
  BY CatTyped
<1>2. Len(p) \in Nat /\ Len(g) \in Nat /\ Len(p) # 0
  BY LenProperties, EmptySeq DEF Letters
<1>3. Tag(gb, FALSE, 1, Len(g)) /\ Tag(gb, TRUE, Len(g) + 1, Len(g) + 4)
  BY <1>2, TagsOfCat
<1> HIDE DEF gb
<1>4. r \in Letters
  BY <1>1, CatTyped
<1>5. Tag(r, FALSE, Len(p) + 1, Len(p) + Len(g))
      /\ Tag(r, TRUE, Len(p) + (Len(g) + 1), Len(p) + (Len(g) + 4))
  <2> DEFINE m == Len(g) + 1
             n == Len(g) + 4
  <2>1. m \in Nat /\ n \in Nat /\ Tag(gb, TRUE, m, n) /\ 1 \in Nat
    <3>1. m \in Nat /\ n \in Nat /\ 1 \in Nat
      BY <1>2
    <3>2. Tag(gb, TRUE, m, n)
      BY <1>3
    <3> QED BY <3>1, <3>2
  <2> HIDE DEF m, n
  <2>2. \A i, j : i \in Nat /\ j \in Nat => (Tag(gb, TRUE, i, j) => Tag(r, TRUE, Len(p) + i, Len(p) + j))
    BY <1>1, TagsOfCat
  <2>3. \A i, j : i \in Nat /\ j \in Nat => (Tag(gb, FALSE, i, j) => Tag(r, FALSE, Len(p) + i, Len(p) + j))
    BY <1>1, TagsOfCat
  <2> HIDE DEF r
  <2>4. Tag(r, TRUE, Len(p) + m, Len(p) + n)
    BY <2>1, <2>2
  <2>5. Tag(r, FALSE, Len(p) + 1, Len(p) + Len(g))
    BY <2>1, <2>3, <1>2, <1>3
  <2> QED BY <2>4, <2>5 DEF m, n
<1> HIDE DEF r
<1>6. Closes(r, Len(p) + (Len(g) + 1)) /\ Len(p) + (Len(g) + 1) = (Len(p) + Len(g)) + 1
  BY <1>2, <1>5 DEF Tag
<1>7. Len(p) + 1 > 1
  BY <1>2
<1>8. HasEmptyThought(r)
  BY <1>4, <1>5, <1>6, <1>7, EmptyThoughtIs
<1> QED BY <1>8 DEF r, gb

(***************************************************************************)
(* The answer before a tag leads to it.                                    *)
(***************************************************************************)
LEMMA LeadsTo ==
  ASSUME NEW s \in Letters, NEW g \in Letters, NEW f \in Letters,
         Tag(g, FALSE, 1, Len(g)),
         \A i, j : Tag(Cat(s, Cat(g, f)), FALSE, i, j) => i > Len(s)
  PROVE  Leads(s)
<1> DEFINE gf == Cat(g, f)
           z == Cat(s, gf)
           so == Cat(s, ThinkOpen)
<1>0. /\ ThinkOpen \in Letters /\ Len(ThinkOpen) = 3
      /\ ThinkOpen[1] = "<" /\ ThinkOpen[2] = "k" /\ ThinkOpen[3] = ">"
  BY ThinkTags
<1>1. /\ gf \in Letters /\ Len(gf) = Len(g) + Len(f) /\ Len(g) \in Nat /\ Len(f) \in Nat
      /\ \A i \in 1 .. Len(g) : gf[i] = g[i]
  BY CatTyped, CatAt
<1>2. \A i, j : Tag(z, FALSE, i, j) => i > Len(s)
  OBVIOUS
<1> HIDE DEF gf
<1>3. /\ z \in Letters /\ Len(z) = Len(s) + Len(gf) /\ Len(s) \in Nat
      /\ \A i \in 1 .. Len(s) : z[i] = s[i]
      /\ \A i \in 1 .. Len(gf) : z[Len(s) + i] = gf[i]
  BY <1>1, CatTyped, CatAt
<1>4. /\ so \in Letters /\ Len(so) = Len(s) + 3
      /\ \A i \in 1 .. Len(s) : so[i] = s[i]
      /\ so[Len(s) + 1] = "<" /\ so[Len(s) + 2] = "k" /\ so[Len(s) + 3] = ">"
  <2>1. so \in Letters /\ Len(so) = Len(s) + Len(ThinkOpen)
    BY <1>0, CatTyped
  <2>2. /\ \A i \in 1 .. Len(s) : so[i] = s[i]
        /\ \A i \in 1 .. Len(ThinkOpen) : so[Len(s) + i] = ThinkOpen[i]
    BY <1>0, CatAt
  <2> HIDE DEF so
  <2> QED BY <1>0, <2>1, <2>2
<1>5. /\ 3 <= Len(g) /\ g[1] = "<" /\ g[2] = "k" /\ g[Len(g)] = ">"
      /\ \A x \in 3 .. Len(g) - 1 : g[x] # ">"
  <2>1. Opens(g, 1) /\ 1 + 2 <= Len(g) /\ g[Len(g)] = ">" /\ \A x \in 1 + 2 .. Len(g) - 1 : g[x] # ">"
    BY DEF Tag
  <2> QED BY <2>1 DEF Opens
<1>6. \A x \in 1 .. Len(g) : z[Len(s) + x] = g[x]
  BY <1>1, <1>3
<1> HIDE DEF z, so
<1> SUFFICES ASSUME NEW i, NEW j, Tag(so, FALSE, i, j), ~(i > Len(s)) PROVE FALSE
  BY DEF Leads, so
<1>7. i \in 1 .. Len(so) /\ j \in i + 2 .. Len(so)
  BY <1>4, TagWithin
<1>8. /\ so[i] = "<" /\ so[i + 1] = "k" /\ so[j] = ">"
      /\ \A x \in i + 2 .. j - 1 : so[x] # ">"
      /\ j = i + 2 \/ so[i + 2] = "s" \/ (j = i + 3 /\ so[i + 2] = "/")
  BY DEF Tag, Opens
<1>9. i \in 1 .. Len(s) /\ i + 1 # Len(s) + 1
  BY <1>3, <1>4, <1>7, <1>8
<1>10. i + 1 \in 1 .. Len(s) /\ z[i] = "<" /\ z[i + 1] = "k"
  BY <1>3, <1>4, <1>8, <1>9
<1>11. Opens(z, i)
  BY <1>1, <1>3, <1>9, <1>10 DEF Opens
<1>12. CASE j <= Len(s)
  <2>1. \A x \in i + 2 .. j : z[x] = so[x]
    BY <1>3, <1>4, <1>7, <1>12
  <2>2. Tag(z, FALSE, i, j)
    <3>1. z[j] = ">" /\ \A x \in i + 2 .. j - 1 : z[x] # ">"
      BY <2>1, <1>7, <1>8
    <3>2. j = i + 2 \/ z[i + 2] = "s" \/ (j = i + 3 /\ z[i + 2] = "/")
      BY <2>1, <1>7, <1>8
    <3>3. j \in Nat /\ i + 2 <= j /\ j <= Len(z)
      BY <1>1, <1>3, <1>7, <1>12
    <3> QED BY <3>1, <3>2, <3>3, <1>11 DEF Tag
  <2> QED BY <2>2, <1>2, <1>3, <1>9
<1>13. CASE ~(j <= Len(s))
  <2>1. j = Len(s) + 3
    <3>1. j = Len(s) + 1 \/ j = Len(s) + 2 \/ j = Len(s) + 3
      <4>1. j \in Int /\ j <= Len(s) + 3 /\ Len(s) \in Nat
        BY <1>3, <1>4, <1>7
      <4> QED BY <4>1, <1>13
    <3> QED BY <3>1, <1>4, <1>8
  <2>2. so[i + 2] = "s"
    BY <2>1, <1>3, <1>4, <1>8, <1>9, <1>10
  <2>3. i + 2 \in 1 .. Len(s) /\ z[i + 2] = "s"
    <3>1. i + 2 # Len(s) + 1
      BY <2>2, <1>4
    <3>2. i + 2 \in 1 .. Len(s)
      <4>1. i + 1 \in 1 .. Len(s) /\ Len(s) \in Nat /\ i \in 1 .. Len(s)
        BY <1>3, <1>9, <1>10
      <4> QED BY <3>1, <4>1
    <3> QED BY <3>2, <2>2, <1>3, <1>4
  <2> DEFINE k == Len(s) + Len(g)
  <2>4. z[k] = ">"
    BY <1>1, <1>5, <1>6
  <2>5. ASSUME NEW x \in i + 2 .. k - 1 PROVE z[x] # ">"
    <3>1. CASE x <= Len(s)
      <4>1. x \in 1 .. Len(s) /\ x \in i + 2 .. j - 1
        BY <3>1, <2>1, <1>3, <1>9
      <4> QED BY <4>1, <1>3, <1>4, <1>8
    <3>2. CASE ~(x <= Len(s))
      <4> DEFINE y == x - Len(s)
      <4>1. y \in 1 .. Len(g) - 1 /\ x = Len(s) + y
        BY <3>2, <1>1, <1>3, <1>9
      <4>2. y \in 1 .. Len(g) /\ (y = 1 \/ y = 2 \/ y \in 3 .. Len(g) - 1)
        BY <4>1, <1>1
      <4> HIDE DEF y
      <4>3. z[x] = g[y]
        BY <4>1, <4>2, <1>6
      <4> QED BY <4>2, <4>3, <1>5
    <3> QED BY <3>1, <3>2
  <2>6. k \in Nat /\ i + 2 <= k /\ k <= Len(z)
    BY <2>3, <1>1, <1>3
  <2> HIDE DEF k
  <2>7. Tag(z, FALSE, i, k)
    BY <2>3, <2>4, <2>5, <2>6, <1>11 DEF Tag
  <2> QED BY <2>7, <1>2, <1>3, <1>9
<1> QED BY <1>12, <1>13
\* The replay is faithful while the splitter waits, no tag cut after its name.
FaithfulBefore(hist, c, t, recv, b, in) ==
  /\ hist \in Letters /\ c \in Letters /\ t \in Letters /\ recv \in Letters /\ b \in Letters
  /\ in \in BOOLEAN /\ Faithful(hist, c, t, recv, b, in)
  /\ NoTag(b, in) /\ KeptOf(b, in) = 0 /\ ~CutInTag(recv)

(***************************************************************************)
(* The replay stays faithful when more arrives.                            *)
(***************************************************************************)
LEMMA FaithfulOn ==
  ASSUME NEW hist, NEW c, NEW t, NEW recv, NEW b, NEW d \in Letters, NEW in,
         FaithfulBefore(hist, c, t, recv, b, in)
  PROVE  Faithful(hist, c, t, Cat(recv, d), Cat(b, d), in)
<1> SUFFICES ASSUME hist \in Letters, c \in Letters, t \in Letters, recv \in Letters,
                    b \in Letters, in \in BOOLEAN, Faithful(hist, c, t, recv, b, in),
                    NoTag(b, in), KeptOf(b, in) = 0, ~CutInTag(recv)
             PROVE  Faithful(hist, c, t, Cat(recv, d), Cat(b, d), in)
  BY DEF FaithfulBefore
<1>1. PICK q, seg, c0 \in Letters : hist = Cat(q, seg) /\ c = Cat(c0, seg) /\ Settled(q, c0, t)
                                    /\ Standing(recv, seg, b, in)
  BY DEF Faithful
<1> DEFINE bd == Cat(b, d)
           rd == Cat(recv, d)
<1>0. bd \in Letters
  BY CatTyped
<1>2. CASE in
  <2>1. PICK p \in Letters : recv = Cat(p, b)
    BY <1>1, <1>2 DEF Standing
  <2>2. rd = Cat(p, bd)
    <3>1. Cat(Cat(p, b), d) = Cat(p, Cat(b, d))
      BY <2>1, CatCat
    <3> QED BY <2>1, <3>1
  <2>3. CASE seg = <<>>
    <3> HIDE DEF bd, rd
    <3>1. Standing(rd, seg, bd, in)
      BY <2>1, <2>2, <2>3, <1>2 DEF Standing
    <3> QED BY <1>1, <3>1 DEF Faithful, bd, rd
  <2>4. CASE seg # <<>>
    <3>1. Leads(seg) /\ Begun(recv, b)
      BY <1>1, <1>2, <2>4 DEF Standing
    <3>2. PICK p2, g \in Letters : p2 # <<>> /\ recv = Cat(p2, Cat(g, b)) /\ Tag(g, FALSE, 1, Len(g))
      BY <3>1 DEF Begun
    <3> DEFINE gb == Cat(g, b)
    <3>3. gb \in Letters /\ recv = Cat(p2, gb)
      BY <3>2, CatTyped
    <3>4. Cat(gb, d) = Cat(g, Cat(b, d))
      BY <3>2, CatCat
    <3> HIDE DEF gb
    <3>5. Cat(Cat(p2, gb), d) = Cat(p2, Cat(gb, d))
      BY <3>2, <3>3, CatCat
    <3>6. rd = Cat(p2, Cat(g, bd))
      BY <3>3, <3>4, <3>5
    <3> HIDE DEF bd, rd
    <3>7. Begun(rd, bd)
      BY <3>2, <3>6 DEF Begun
    <3>8. Standing(rd, seg, bd, in)
      BY <1>2, <2>1, <2>2, <3>1, <3>7 DEF Standing
    <3> QED BY <1>1, <3>8 DEF Faithful, bd, rd
  <2> QED BY <2>3, <2>4
<1>3. CASE ~in
  <2>0. in = FALSE
    BY <1>3
  <2> DEFINE u == Cat(seg, b)
  <2>1. u \in Letters
    BY <1>1, CatTyped
  <2>2. (\E p \in Letters : recv = Cat(p, u)) /\ Ahead(seg, b)
    BY <1>1, <1>3 DEF Standing
  <2>3. PICK p \in Letters : recv = Cat(p, u)
    BY <2>2
  <2>4. Cat(u, d) = Cat(seg, bd)
    <3>1. Cat(Cat(seg, b), d) = Cat(seg, Cat(b, d))
      BY <1>1, CatCat
    <3> QED BY <3>1
  <2>5. \A i, j : Tag(u, FALSE, i, j) => i > Len(seg)
    BY <2>2 DEF Ahead
  <2>6. KeptOf(u, FALSE) = Len(seg)
    <3> DEFINE k == KeptOf(b, FALSE)
               n == KeptOf(u, FALSE)
    <3>1. k = 0 /\ n = Len(seg) + k /\ Len(seg) \in Nat
      BY <2>0, <2>2, <1>1, LenProperties DEF Ahead, Letters
    <3> HIDE DEF k, n
    <3>2. n = Len(seg)
      BY <3>1
    <3> QED BY <3>2 DEF n
  <2>7. NoTag(u, FALSE)
    <3>1. ASSUME NEW i, NEW j, Tag(u, FALSE, i, j) PROVE FALSE
      <4>1. i > Len(seg)
        BY <2>5, <3>1
      <4>2. Tag(b, FALSE, i - Len(seg), j - Len(seg))
        BY <1>1, <3>1, <4>1, TagsOfCat
      <4> QED BY <2>0, <4>2 DEF NoTag
    <3> QED BY <3>1 DEF NoTag
  <2>8. Upto(u, Len(seg)) = seg /\ From(u, Len(seg) + 1) = b
    <3>1. Len(seg) \in Nat /\ Len(b) \in Nat
      BY <1>1, LenProperties DEF Letters
    <3>2. Len(seg) \in 0 .. Len(seg) /\ 1 \in 1 .. Len(b) + 1
      BY <3>1
    <3>3. Upto(u, Len(seg)) = Upto(seg, Len(seg)) /\ From(u, Len(seg) + 1) = From(b, 1)
      BY <1>1, <3>2, PartsOfCat
    <3>4. Upto(seg, Len(seg)) = seg /\ From(b, 1) = b
      BY <1>1, WholeAndNone DEF Letters
    <3> QED BY <3>3, <3>4
  <2>9. Cat(recv, d) = Cat(p, Cat(u, d))
    <3> HIDE DEF u
    <3>1. Cat(Cat(p, u), d) = Cat(p, Cat(u, d))
      BY <2>1, CatCat
    <3> QED BY <2>3, <3>1
  <2>10. ~CutInTag(u)
    <3> HIDE DEF u
    <3>1. CutInTag(u) => CutInTag(p \o u)
      BY <2>1, <2>3, CutOfRest
    <3> QED BY <3>1, <2>3 DEF Cat
  <2>11. \A i, j : Tag(Cat(u, d), FALSE, i, j) => i > Len(seg)
    <3> HIDE DEF u
    <3>1. ASSUME NEW i, NEW j, Tag(Cat(u, d), FALSE, i, j) PROVE i > Len(seg)
      <4>1. i > KeptOf(u, FALSE)
        BY <2>1, <2>7, <2>10, <3>1, TagsAfterKept DEF Cat
      <4> QED BY <4>1, <2>6
    <3> QED BY <3>1
  <2>12. KeptOf(Cat(u, d), FALSE) = Len(seg) + KeptOf(bd, FALSE)
    <3> HIDE DEF u
    <3>1. PICK p2, w \in Letters :
            /\ Len(p2) = KeptOf(u, FALSE) /\ p2 = Upto(u, KeptOf(u, FALSE))
            /\ w = From(u, KeptOf(u, FALSE) + 1)
            /\ Cat(p2, w) = u /\ Cat(u, d) = Cat(p2, Cat(w, d))
            /\ KeptOf(Cat(u, d), FALSE) = Len(p2) + KeptOf(Cat(w, d), FALSE)
      <4>1. \A y \in BOOLEAN : \E p2, w \in Letters :
            /\ Len(p2) = KeptOf(u, y) /\ p2 = Upto(u, KeptOf(u, y))
            /\ w = From(u, KeptOf(u, y) + 1)
            /\ Cat(p2, w) = u /\ Cat(u, d) = Cat(p2, Cat(w, d))
            /\ KeptOf(Cat(u, d), y) = Len(p2) + KeptOf(Cat(w, d), y)
        BY <2>1, KeptJoined
      <4> QED BY <4>1, Zenon
    <3>2. p2 = seg /\ w = b
      BY <2>6, <2>8, <3>1
    <3> QED BY <3>1, <3>2
  <2>13. Ahead(seg, bd)
    <3> HIDE DEF u, bd
    <3> QED BY <2>4, <2>11, <2>12 DEF Ahead
  <2>14. rd = Cat(p, Cat(seg, bd))
    <3> HIDE DEF bd, u
    <3> QED BY <2>4, <2>9
  <2> HIDE DEF bd, rd
  <2>15. Standing(rd, seg, bd, in)
    BY <1>3, <2>3, <2>13, <2>14 DEF Standing
  <2> QED BY <1>1, <2>15 DEF Faithful, bd, rd
<1> QED BY <1>2, <1>3

(***************************************************************************)
(* The empty text leads to no tag.                                         *)
(***************************************************************************)
LEMMA NothingLeads == Leads(<<>>)
<1> DEFINE e == <<>>
           z == Cat(e, ThinkOpen)
<1>1. e \in Letters /\ Len(e) = 0
  BY NoText
<1> HIDE DEF e
<1>2. z \in Letters
  BY <1>1, ThinkTags, CatTyped
<1>3. ASSUME NEW i, NEW j, Tag(z, FALSE, i, j) PROVE i > Len(e)
  <2> HIDE DEF z
  <2>1. i \in 1 .. Len(z)
    BY <1>2, <1>3, TagWithin
  <2> QED BY <2>1, <1>1
<1> QED BY <1>3 DEF Leads, e

\* What may be in a thought, and what the text received ends with.
Unclosed(r) == NoTag(r, TRUE)
\* x is the end of what arrived.
EndsIn(recv, x) == \E p \in Letters : recv = Cat(p, x)

\* Within the thought r, with x to come.
Thinking(hist, c, t, recv, r, x) ==
  /\ hist \in Letters /\ c \in Letters /\ t \in Letters /\ recv \in Letters
  /\ r \in Letters /\ x \in Letters /\ Unclosed(r) /\ EndsIn(recv, x)
  /\ \E b \in Letters : Faithful(hist, c, t, recv, b, TRUE)

(***************************************************************************)
(* A thought is replayed, after the answer or none.                        *)
(***************************************************************************)
LEMMA FaithfulThought ==
  ASSUME NEW hist, NEW c, NEW t, NEW recv, NEW r, NEW x, NEW in \in BOOLEAN,
         Thinking(hist, c, t, recv, r, x)
  PROVE  Faithful(Cat(hist, Think(r)), c, Cat(t, r), recv, x, in)
<1>000. /\ hist \in Letters /\ c \in Letters /\ t \in Letters /\ recv \in Letters
        /\ r \in Letters /\ x \in Letters /\ Unclosed(r) /\ EndsIn(recv, x)
        /\ \E b \in Letters : Faithful(hist, c, t, recv, b, TRUE)
  BY DEF Thinking
<1>001. c \in Letters /\ x \in Letters
  BY DEF Thinking
<1>0. \A hh, tt, p \in Letters : Settled(hh, c, tt) => Faithful(hh, c, tt, Cat(p, x), x, in)
  BY <1>001, Afresh
<1>00. PICK p \in Letters : recv = Cat(p, x)
  BY <1>000 DEF EndsIn
<1>1. PICK q, seg, c0, b \in Letters : hist = Cat(q, seg) /\ c = Cat(c0, seg) /\ Settled(q, c0, t)
                                    /\ Standing(recv, seg, b, TRUE)
  BY <1>000 DEF Faithful
<1>2. Leads(seg)
  <2>1. seg = <<>> \/ Leads(seg)
    BY <1>1 DEF Standing
  <2> QED BY <2>1, NothingLeads
<1>3. Settled(Cat(Cat(q, seg), Think(r)), Cat(c0, seg), Cat(t, r))
  BY <1>000, <1>1, <1>2, ThinkSettles DEF Unclosed
<1> DEFINE th == Think(r)
           h2 == Cat(hist, th)
           t2 == Cat(t, r)
<1>4. th \in Letters
  BY <1>000, ThinkIs, NoText
<1>5. Settled(h2, c, t2)
  BY <1>1, <1>3
<1> HIDE DEF th
<1>6. h2 \in Letters /\ t2 \in Letters
  BY <1>000, <1>4, CatTyped
<1> HIDE DEF h2, t2
<1>7. Faithful(h2, c, t2, Cat(p, x), x, in)
  BY <1>000, <1>0, <1>00, <1>5, <1>6
<1> QED BY <1>00, <1>7 DEF h2, t2, th

(***************************************************************************)
(* What a buffer without a tag gives is replayed faithfully.               *)
(***************************************************************************)
LEMMA FaithfulKept ==
  ASSUME NEW hist \in Letters, NEW c \in Letters, NEW t \in Letters, NEW recv \in Letters,
         NEW b \in Letters, NEW in \in BOOLEAN,
         Faithful(hist, c, t, recv, b, in), NoTag(b, in)
  PROVE  Faithful(Cat(hist, Rep(Kept(b, in).pieces)), Cat(c, Con(Kept(b, in).pieces)),
                  Cat(t, Thk(Kept(b, in).pieces)), recv, Kept(b, in).buffer, Kept(b, in).inside)
<1>1. PICK k \in Letters, w \in Letters :
         /\ Len(k) = KeptOf(b, in) /\ k = Upto(b, KeptOf(b, in)) /\ w = From(b, KeptOf(b, in) + 1)
         /\ Cat(k, w) = b
         /\ KeptOf(Cat(b, <<>>), in) = Len(k) + KeptOf(Cat(w, <<>>), in)
  BY NoText, KeptJoined
<1> DEFINE e == Piece(KindOf(in), k)
<1>2. /\ Kept(b, in).pieces = e /\ Kept(b, in).buffer = w /\ Kept(b, in).inside = in
  BY <1>1 DEF Kept
<1>3. /\ Con(e) = (IF in THEN <<>> ELSE k) /\ Thk(e) = (IF in THEN k ELSE <<>>)
      /\ Rep(e) = (IF k = <<>> THEN <<>> ELSE IF in THEN Think(k) ELSE k)
  BY TextsOfOne, RepOfOne
<1> HIDE DEF e
<1>4. Cat(hist, <<>>) = hist /\ Cat(c, <<>>) = c /\ Cat(t, <<>>) = t
  BY CatNone
<1>5. NoTag(k, in)
  <2>1. \A i, j : Tag(k, in, i, j) => Tag(b, in, i, j)
    BY <1>1, TagsOfCat
  <2> QED BY <2>1 DEF NoTag
<1>6. CASE in /\ k = <<>>
  <2>1. w = b
    BY <1>1, <1>6, CatNone
  <2>2. Rep(e) = <<>> /\ Con(e) = <<>> /\ Thk(e) = <<>>
    BY <1>3, <1>6
  <2> QED BY <1>2, <1>4, <2>1, <2>2
<1>7. CASE in /\ k # <<>>
  <2>0. in = TRUE
    BY <1>7
  <2>1. PICK p \in Letters : recv = Cat(p, b)
    BY <2>0 DEF Faithful, Standing
  <2>2. Cat(p, k) \in Letters /\ Cat(p, Cat(k, w)) = Cat(Cat(p, k), w)
    BY CatTyped, CatCat
  <2>3. recv = Cat(Cat(p, k), w)
    BY <1>1, <2>1, <2>2
  <2>4. Faithful(Cat(hist, Think(k)), c, Cat(t, k), recv, w, in)
    <3>1. EndsIn(recv, w)
      BY <2>2, <2>3 DEF EndsIn
    <3>2. Thinking(hist, c, t, recv, k, w)
      BY <1>1, <1>5, <2>0, <3>1 DEF Thinking, Unclosed
    <3> QED BY <3>2, FaithfulThought
  <2>5. Rep(e) = Think(k) /\ Con(e) = <<>> /\ Thk(e) = k
    BY <1>3, <1>7
  <2> QED BY <1>2, <1>4, <2>4, <2>5
<1>8. CASE ~in
  <2>0. in = FALSE
    BY <1>8
  <2>1. PICK q, seg, c0 \in Letters : hist = Cat(q, seg) /\ c = Cat(c0, seg) /\ Settled(q, c0, t)
                                      /\ Standing(recv, seg, b, in)
    BY DEF Faithful
  <2>2. (\E p \in Letters : recv = Cat(p, Cat(seg, b))) /\ Ahead(seg, b)
    BY <2>0, <2>1 DEF Standing
  <2> DEFINE s2 == Cat(seg, k)
             u == Cat(seg, b)
  <2>3. s2 \in Letters /\ u \in Letters /\ Len(s2) = Len(seg) + Len(k) /\ Len(seg) \in Nat /\ Len(k) \in Nat
    BY <2>1, CatTyped, CatAt
  <2>4. /\ Cat(hist, k) = Cat(q, s2) /\ Cat(c, k) = Cat(c0, s2) /\ u = Cat(s2, w)
    <3>1. Cat(Cat(q, seg), k) = Cat(q, Cat(seg, k))
      BY <2>1, CatCat
    <3>2. Cat(Cat(c0, seg), k) = Cat(c0, Cat(seg, k))
      BY <2>1, CatCat
    <3>3. Cat(Cat(seg, k), w) = Cat(seg, Cat(k, w))
      BY <2>1, CatCat
    <3> QED BY <1>1, <2>1, <3>1, <3>2, <3>3
  <2>5. NoTag(u, FALSE)
    <3>1. ASSUME NEW i, NEW j, Tag(u, FALSE, i, j) PROVE FALSE
      <4>1. i > Len(seg)
        BY <2>2, <3>1 DEF Ahead
      <4>2. Tag(b, FALSE, i - Len(seg), j - Len(seg))
        BY <2>1, <3>1, <4>1, TagsOfCat
      <4> QED BY <2>0, <4>2 DEF NoTag
    <3> QED BY <3>1 DEF NoTag
  <2>6. KeptOf(w, FALSE) = 0 /\ KeptOf(u, FALSE) = Len(s2) + KeptOf(w, FALSE)
    <3> DEFINE kb == KeptOf(b, FALSE)
               ku == KeptOf(u, FALSE)
               kw == KeptOf(w, FALSE)
    <3>1. Cat(b, <<>>) = b /\ Cat(w, <<>>) = w
      BY <1>1, CatNone
    <3>2. kb = Len(k) /\ kb = Len(k) + kw /\ ku = Len(seg) + kb
      BY <1>1, <2>0, <2>2, <3>1 DEF Ahead
    <3>3. Len(w) \in Nat /\ kw \in 0 .. Len(w)
      BY <1>1, KeptIs, LenProperties DEF Letters
    <3> HIDE DEF kb, ku, kw
    <3>4. kw = 0 /\ ku = Len(s2) + kw
      BY <2>3, <3>2, <3>3
    <3> QED BY <3>4 DEF kw, ku
  <2> HIDE DEF s2, u
  <2>7. Ahead(s2, w)
    BY <2>4, <2>5, <2>6 DEF Ahead, NoTag
  <2>8. Standing(recv, s2, w, in)
    BY <2>0, <2>2, <2>4, <2>7 DEF Standing, u
  <2>9. Faithful(Cat(hist, k), Cat(c, k), t, recv, w, in)
    BY <2>1, <2>3, <2>4, <2>8 DEF Faithful
  <2>10. Rep(e) = k /\ Con(e) = k /\ Thk(e) = <<>>
    BY <1>3, <1>8
  <2> QED BY <1>2, <1>4, <2>9, <2>10
<1> QED BY <1>6, <1>7, <1>8
\* The tag g between u and f is the next one of the text, and opens a thought.
OpenedAt(hist, c, t, recv, u, g, f) ==
  /\ hist \in Letters /\ c \in Letters /\ t \in Letters /\ recv \in Letters
  /\ u \in Letters /\ g \in Letters /\ f \in Letters
  /\ Faithful(hist, c, t, recv, Cat(u, Cat(g, f)), FALSE) /\ Tag(g, FALSE, 1, Len(g))
  /\ \A i, j : Tag(Cat(u, Cat(g, f)), FALSE, i, j) => i > Len(u)

\* The same of a tag that closes one.
ClosedAt(hist, c, t, recv, u, g, f) ==
  /\ hist \in Letters /\ c \in Letters /\ t \in Letters /\ recv \in Letters
  /\ u \in Letters /\ g \in Letters /\ f \in Letters
  /\ Faithful(hist, c, t, recv, Cat(u, Cat(g, f)), TRUE) /\ Tag(g, TRUE, 1, Len(g))
  /\ NoTag(u, TRUE) /\ ~HasEmptyThought(recv)

(***************************************************************************)
(* The replay stays faithful past the tag that opens a thought.            *)
(***************************************************************************)
LEMMA FaithfulOpens ==
  ASSUME NEW hist, NEW c, NEW t, NEW recv, NEW u, NEW g, NEW f,
         OpenedAt(hist, c, t, recv, u, g, f)
  PROVE  Faithful(Cat(hist, u), Cat(c, u), t, recv, f, TRUE)
<1>0. /\ hist \in Letters /\ c \in Letters /\ t \in Letters /\ recv \in Letters
      /\ u \in Letters /\ g \in Letters /\ f \in Letters
  BY DEF OpenedAt
<1>01. Faithful(hist, c, t, recv, Cat(u, Cat(g, f)), FALSE) /\ Tag(g, FALSE, 1, Len(g))
  BY DEF OpenedAt
<1>02. \A i, j : Tag(Cat(u, Cat(g, f)), FALSE, i, j) => i > Len(u)
  BY DEF OpenedAt
<1> DEFINE gf == Cat(g, f)
           b == Cat(u, gf)
<1>1. PICK q, seg, c0 \in Letters : hist = Cat(q, seg) /\ c = Cat(c0, seg) /\ Settled(q, c0, t)
                                    /\ Standing(recv, seg, b, FALSE)
  BY <1>0, <1>01 DEF Faithful
<1>2. gf \in Letters
  BY <1>0, CatTyped
<1>3. b \in Letters /\ \A i, j : Tag(b, FALSE, i, j) => i > Len(u)
  <2>1. b \in Letters
    <3> HIDE DEF gf
    <3> QED BY <1>0, <1>2, CatTyped
  <2>2. \A i, j : Tag(b, FALSE, i, j) => i > Len(u)
    BY <1>02
  <2> QED BY <2>1, <2>2
<1>31. Cat(Cat(g, f), <<>>) = gf
  BY <1>2, CatNone
<1> DEFINE s2 == Cat(seg, u)
<1>4. s2 \in Letters /\ Len(s2) = Len(seg) + Len(u) /\ Len(seg) \in Nat /\ Len(u) \in Nat
  BY <1>0, <1>1, CatTyped, CatAt
<1>5. Cat(hist, u) = Cat(q, s2) /\ Cat(c, u) = Cat(c0, s2)
  <2>1. Cat(Cat(q, seg), u) = Cat(q, Cat(seg, u)) /\ Cat(Cat(c0, seg), u) = Cat(c0, Cat(seg, u))
    BY <1>0, <1>1, CatCat
  <2> QED BY <1>1, <2>1
<1>6. Cat(seg, b) = Cat(s2, gf)
  <2> HIDE DEF gf
  <2>1. Cat(Cat(seg, u), gf) = Cat(seg, Cat(u, gf))
    BY <1>0, <1>1, <1>2, CatCat
  <2> QED BY <2>1
<1>7. (\E p \in Letters : recv = Cat(p, Cat(seg, b))) /\ Ahead(seg, b)
  <2> HIDE DEF b
  <2> QED BY <1>1 DEF Standing
<1>8. PICK p \in Letters : recv = Cat(p, Cat(seg, b))
  BY <1>7
<1> HIDE DEF b, s2
<1>9. \A i, j : Tag(Cat(s2, gf), FALSE, i, j) => i > Len(s2)
  <2>1. ASSUME NEW i, NEW j, Tag(Cat(seg, b), FALSE, i, j) PROVE i > Len(s2)
    <3>1. i > Len(seg)
      BY <2>1, <1>7 DEF Ahead
    <3>2. Tag(b, FALSE, i - Len(seg), j - Len(seg))
      BY <1>1, <1>3, <2>1, <3>1, TagsOfCat
    <3>3. i - Len(seg) > Len(u)
      BY <1>3, <3>2
    <3>4. i \in 1 .. Len(Cat(seg, b))
      <4>1. Cat(seg, b) \in Letters
        BY <1>1, <1>3, CatTyped
      <4> QED BY <2>1, <4>1, TagWithin
    <3> QED BY <3>3, <3>4, <1>4
  <2> HIDE DEF gf
  <2> QED BY <2>1, <1>6
<1>10. Leads(s2)
  BY <1>0, <1>01, <1>4, <1>9, LeadsTo
<1> DEFINE ps == Cat(p, s2)
           pg == Cat(ps, g)
<1>11. ps \in Letters
  BY <1>4, <1>8, CatTyped
<1> HIDE DEF ps
<1>12. pg \in Letters /\ Cat(pg, f) = Cat(ps, gf)
  BY <1>0, <1>11, CatTyped, CatCat
<1> HIDE DEF pg
<1>13. recv = Cat(ps, gf)
  <2> HIDE DEF gf
  <2>1. Cat(Cat(p, s2), gf) = Cat(p, Cat(s2, gf))
    BY <1>2, <1>4, <1>8, CatCat
  <2> QED BY <2>1, <1>6, <1>8 DEF ps
<1>14. recv = Cat(pg, f)
  <2> HIDE DEF gf
  <2> QED BY <1>12, <1>13
<1>15. s2 = <<>> \/ Begun(recv, f)
  <2>1. CASE s2 # <<>>
    <3>1. ps # <<>>
      <4>1. Len(s2) # 0 /\ Len(p) \in Nat
        BY <1>4, <1>8, <2>1, EmptySeq, LenProperties DEF Letters
      <4>2. Len(ps) = Len(p) + Len(s2)
        BY <1>4, <1>8, CatTyped DEF ps
      <4>3. Len(ps) # 0
        BY <4>1, <4>2, <1>4
      <4> QED BY <4>3, EmptySeq
    <3> QED BY <1>0, <1>01, <1>11, <1>13, <3>1 DEF Begun
  <2> QED BY <2>1
<1>16. Standing(recv, s2, f, TRUE)
  BY <1>0, <1>10, <1>12, <1>14, <1>15 DEF Standing
<1> QED BY <1>0, <1>1, <1>4, <1>5, <1>16 DEF Faithful

(***************************************************************************)
(* The replay stays faithful past the tag that closes a thought.           *)
(***************************************************************************)
LEMMA FaithfulCloses ==
  ASSUME NEW hist, NEW c, NEW t, NEW recv, NEW u, NEW g, NEW f,
         ClosedAt(hist, c, t, recv, u, g, f)
  PROVE  Faithful(Cat(hist, IF u = <<>> THEN <<>> ELSE Think(u)), c, Cat(t, u), recv, f, FALSE)
<1>0. /\ hist \in Letters /\ c \in Letters /\ t \in Letters /\ recv \in Letters
      /\ u \in Letters /\ g \in Letters /\ f \in Letters
  BY DEF ClosedAt
<1>01. Faithful(hist, c, t, recv, Cat(u, Cat(g, f)), TRUE) /\ Tag(g, TRUE, 1, Len(g))
  BY DEF ClosedAt
<1>02. NoTag(u, TRUE) /\ ~HasEmptyThought(recv)
  BY DEF ClosedAt
<1>03. Unclosed(u)
  BY <1>02 DEF Unclosed
<1> DEFINE gf == Cat(g, f)
           b == Cat(u, gf)
<1>1. PICK q, seg, c0 \in Letters : hist = Cat(q, seg) /\ c = Cat(c0, seg) /\ Settled(q, c0, t)
                                    /\ Standing(recv, seg, b, TRUE)
  BY <1>0, <1>01 DEF Faithful
<1>2. gf \in Letters
  BY <1>0, CatTyped
<1>3. (\E p \in Letters : recv = Cat(p, b)) /\ (seg = <<>> \/ Begun(recv, b))
  <2> HIDE DEF b
  <2> QED BY <1>1 DEF Standing
<1>4. PICK p \in Letters : recv = Cat(p, b)
  BY <1>3
<1>5. Len(g) = 4 /\ Tag(gf, TRUE, 1, 4)
  <2>2. Len(g) = 4
    BY <1>01 DEF Tag
  <2>3. Tag(g, TRUE, 1, 4)
    BY <1>01, <2>2
  <2>4. Tag(Cat(g, f), TRUE, 1, 4)
    BY <1>0, <2>3, TagsOfCat
  <2> QED BY <2>2, <2>4
<1>6. CASE u = <<>>
  <2>1. b = gf
    <3> HIDE DEF gf
    <3> QED BY <1>0, <1>2, <1>6, CatNone
  <2> HIDE DEF b
  <2>2. seg = <<>>
    <3> SUFFICES ASSUME Begun(recv, b) PROVE FALSE
      BY <1>3
    <3>1. PICK p2, g2 \in Letters : p2 # <<>> /\ recv = Cat(p2, Cat(g2, b)) /\ Tag(g2, FALSE, 1, Len(g2))
      BY DEF Begun
    <3> HIDE DEF gf
    <3>2. HasEmptyThought(Cat(p2, Cat(g2, gf)))
      BY <1>2, <1>5, <3>1, EmptyThoughtFound
    <3> QED BY <1>02, <2>1, <3>1, <3>2
  <2>3. hist = q /\ c = c0
    BY <1>1, <2>2, CatNone
  <2> DEFINE pg == Cat(p, g)
  <2>4. pg \in Letters /\ Cat(pg, f) = Cat(p, gf)
    BY <1>0, <1>4, CatTyped, CatCat
  <2> HIDE DEF pg, gf
  <2>5. recv = Cat(pg, f)
    BY <1>4, <2>1, <2>4
  <2>6. Faithful(hist, c, t, Cat(pg, f), f, FALSE)
    <3>1. Settled(hist, c, t)
      BY <1>1, <2>3
    <3> QED BY <1>0, <2>4, <3>1, Afresh
  <2>7. Cat(hist, <<>>) = hist /\ Cat(t, u) = t
    BY <1>0, <1>6, CatNone
  <2> QED BY <1>6, <2>5, <2>6, <2>7
<1>7. CASE u # <<>>
  <2> DEFINE ug == Cat(u, g)
             pu == Cat(p, ug)
  <2>1. ug \in Letters /\ Cat(ug, f) = b
    BY <1>0, CatTyped, CatCat
  <2> HIDE DEF ug
  <2>2. pu \in Letters /\ Cat(pu, f) = Cat(p, Cat(ug, f))
    BY <1>0, <2>1, <1>4, CatTyped, CatCat
  <2> HIDE DEF pu, b
  <2>3. recv = Cat(pu, f)
    BY <1>4, <2>1, <2>2
  <2>4. Faithful(hist, c, t, recv, b, TRUE)
    BY <1>01 DEF b
  <2>5. b \in Letters
    <3> HIDE DEF gf
    <3> QED BY <1>0, <1>2, CatTyped DEF b
  <2>6. Thinking(hist, c, t, recv, u, f)
    BY <1>0, <1>03, <2>2, <2>3, <2>4, <2>5 DEF Thinking, EndsIn
  <2>7. Faithful(Cat(hist, Think(u)), c, Cat(t, u), recv, f, FALSE)
    BY <2>6, FaithfulThought
  <2> QED BY <1>7, <2>7
<1> QED BY <1>6, <1>7
\* The replay is faithful so far, and no thought of the reply is empty.
Given(hist, c, t, recv, b, in) ==
  /\ hist \in Letters /\ c \in Letters /\ t \in Letters /\ recv \in Letters
  /\ Faithful(hist, c, t, recv, b, in) /\ ~HasEmptyThought(recv)

\* The replay is faithful with the pieces p, and b is to be read next.
Taken(hist, c, t, recv, p, b, in) ==
  Faithful(Cat(hist, Rep(p)), Cat(c, Con(p)), Cat(t, Thk(p)), recv, b, in)

(***************************************************************************)
(* The replay stays faithful past a tag.                                   *)
(***************************************************************************)
LEMMA FaithfulTag ==
  ASSUME NEW hist, NEW c, NEW t, NEW recv, NEW b \in Letters, NEW in \in BOOLEAN, NEW i, NEW j,
         Given(hist, c, t, recv, b, in), FirstTag(b, in, i, j)
  PROVE  Taken(hist, c, t, recv, Piece(KindOf(in), Upto(b, i - 1)), From(b, j + 1), ~in)
<1>0. /\ hist \in Letters /\ c \in Letters /\ t \in Letters /\ recv \in Letters
      /\ Faithful(hist, c, t, recv, b, in) /\ ~HasEmptyThought(recv)
  BY DEF Given
<1>1. PICK u, g, f \in Letters :
         /\ u = Upto(b, i - 1) /\ f = From(b, j + 1) /\ b = Cat(u, Cat(g, f))
         /\ i = Len(u) + 1 /\ j = Len(u) + Len(g)
         /\ Tag(g, in, 1, Len(g)) /\ NoTag(u, in)
  BY TagParts
<1> DEFINE e == Piece(KindOf(in), u)
<1>2. /\ Con(e) = (IF in THEN <<>> ELSE u) /\ Thk(e) = (IF in THEN u ELSE <<>>)
      /\ Rep(e) = (IF u = <<>> THEN <<>> ELSE IF in THEN Think(u) ELSE u)
  BY TextsOfOne, RepOfOne
<1> HIDE DEF e
<1>3. Cat(c, <<>>) = c /\ Cat(t, <<>>) = t
  BY <1>0, CatNone
<1>4. \A x, y : Tag(b, in, x, y) => x > Len(u)
  <2>1. ASSUME NEW x, NEW y, Tag(b, in, x, y) PROVE x > Len(u)
    <3>1. i <= x
      BY <2>1 DEF FirstTag
    <3>2. x \in 1 .. Len(b) /\ Len(u) \in Nat
      BY <1>1, <2>1, TagWithin, LenProperties DEF Letters
    <3> QED BY <1>1, <3>1, <3>2
  <2> QED BY <2>1
<1>5. CASE in
  <2>0. in = TRUE
    BY <1>5
  <2>1. ClosedAt(hist, c, t, recv, u, g, f)
    BY <1>0, <1>1, <2>0 DEF ClosedAt
  <2>2. Faithful(Cat(hist, IF u = <<>> THEN <<>> ELSE Think(u)), c, Cat(t, u), recv, f, FALSE)
    BY <2>1, FaithfulCloses
  <2>3. Con(e) = <<>> /\ Thk(e) = u /\ Rep(e) = IF u = <<>> THEN <<>> ELSE Think(u)
    BY <1>2, <2>0
  <2>4. Taken(hist, c, t, recv, e, f, ~in)
    BY <1>3, <2>0, <2>2, <2>3 DEF Taken
  <2> QED BY <1>1, <2>4 DEF e
<1>6. CASE ~in
  <2>0. in = FALSE
    BY <1>6
  <2>1. OpenedAt(hist, c, t, recv, u, g, f)
    BY <1>0, <1>1, <1>4, <2>0 DEF OpenedAt
  <2>2. Faithful(Cat(hist, u), Cat(c, u), t, recv, f, TRUE)
    BY <2>1, FaithfulOpens
  <2>3. Con(e) = u /\ Thk(e) = <<>> /\ Rep(e) = u
    BY <1>2, <2>0
  <2>4. Taken(hist, c, t, recv, e, f, ~in)
    BY <1>3, <2>0, <2>2, <2>3 DEF Taken
  <2> QED BY <1>1, <2>4 DEF e
<1> QED BY <1>5, <1>6

\* The replay of whatever came before stays faithful while b is read.
Follows(b, in) ==
  \A hist, c, t, recv :
    Given(hist, c, t, recv, b, in) =>
      Taken(hist, c, t, recv, Split(b, in).pieces, Split(b, in).buffer, Split(b, in).inside)

(***************************************************************************)
(* Reading on past a tag.                                                  *)
(***************************************************************************)
LEMMA TakenOn ==
  ASSUME NEW hist \in Letters, NEW c \in Letters, NEW t \in Letters, NEW recv,
         NEW p \in Seq(PieceSet), NEW q \in Seq(PieceSet), NEW b, NEW in,
         Taken(Cat(hist, Rep(p)), Cat(c, Con(p)), Cat(t, Thk(p)), recv, q, b, in)
  PROVE  Taken(hist, c, t, recv, Cat(p, q), b, in)
<1>1. Rep(p) \in Letters /\ Rep(q) \in Letters /\ Con(p) \in Letters /\ Con(q) \in Letters
      /\ Thk(p) \in Letters /\ Thk(q) \in Letters
  BY TrackedThinks, TextsOfSplit
<1>2. Rep(Cat(p, q)) = Cat(Rep(p), Rep(q)) /\ Con(Cat(p, q)) = Cat(Con(p), Con(q))
      /\ Thk(Cat(p, q)) = Cat(Thk(p), Thk(q))
  BY RepJoined, TextsOfSplit
<1>3. /\ Cat(Cat(hist, Rep(p)), Rep(q)) = Cat(hist, Cat(Rep(p), Rep(q)))
      /\ Cat(Cat(c, Con(p)), Con(q)) = Cat(c, Cat(Con(p), Con(q)))
      /\ Cat(Cat(t, Thk(p)), Thk(q)) = Cat(t, Cat(Thk(p), Thk(q)))
  BY <1>1, CatCat
<1> QED BY <1>2, <1>3 DEF Taken

(***************************************************************************)
(* The replay stays faithful while a buffer is read.                       *)
(***************************************************************************)
LEMMA FaithfulFeed ==
  ASSUME NEW b \in Letters, NEW in \in BOOLEAN
  PROVE  Follows(b, in)
<1> DEFINE G == {s \in Letters \X BOOLEAN : Follows(s[1], s[2])}
<1>1. \A x \in Letters, y \in BOOLEAN : <<x, y>> \in G <=> Follows(x, y)
  OBVIOUS
<1>2. G \in SUBSET (Letters \X BOOLEAN)
  OBVIOUS
<1> HIDE DEF G
<1>3. ASSUME NEW x \in Letters, NEW y \in BOOLEAN, NoTag(x, y) PROVE <<x, y>> \in G
  <2>1. ASSUME NEW hist, NEW c, NEW t, NEW recv, Given(hist, c, t, recv, x, y)
        PROVE  Taken(hist, c, t, recv, Kept(x, y).pieces, Kept(x, y).buffer, Kept(x, y).inside)
    <3>1. /\ hist \in Letters /\ c \in Letters /\ t \in Letters /\ recv \in Letters
          /\ Faithful(hist, c, t, recv, x, y)
      BY <2>1 DEF Given
    <3> QED BY <1>3, <3>1, FaithfulKept DEF Taken
  <2>2. Split(x, y) = Kept(x, y)
    BY <1>3, SplitKept
  <2>3. Follows(x, y)
    BY <2>1, <2>2 DEF Follows
  <2> QED BY <1>1, <2>3
<1>4. ASSUME NEW x \in Letters, NEW y \in BOOLEAN, NEW i, NEW j, FirstTag(x, y, i, j),
             <<From(x, j + 1), ~y>> \in G
      PROVE  <<x, y>> \in G
  <2> DEFINE e == Piece(KindOf(y), Upto(x, i - 1))
             f == From(x, j + 1)
             z == ~y
             s == Split(f, z)
  <2>1. Tag(x, y, i, j)
    BY <1>4 DEF FirstTag
  <2>2. f \in Letters /\ Upto(x, i - 1) \in Letters /\ z \in BOOLEAN
    BY <2>1, AfterTag
  <2>3. e \in Seq(PieceSet)
    BY <2>2, PieceIs
  <2>4. Split(x, y) = Fronted(e, s)
    BY <1>4, SplitTag DEF SplitAt
  <2>5. \A hist, c, t, recv : Given(hist, c, t, recv, x, y) => Taken(hist, c, t, recv, e, f, z)
    BY <1>4, FaithfulTag
  <2>6. Follows(f, z)
    BY <1>1, <1>4, <2>2
  <2> HIDE DEF e, f, z
  <2>7. s \in FeedSet /\ s.pieces \in Seq(PieceSet)
    BY <2>2, SplitTyped, FeedTexts
  <2>8. /\ Split(x, y).pieces = Cat(e, s.pieces)
        /\ Split(x, y).buffer = s.buffer /\ Split(x, y).inside = s.inside
    BY <2>3, <2>4, <2>7, FrontedIs
  <2>9. ASSUME NEW hist, NEW c, NEW t, NEW recv, Given(hist, c, t, recv, x, y)
        PROVE  Taken(hist, c, t, recv, Cat(e, s.pieces), s.buffer, s.inside)
    <3>1. hist \in Letters /\ c \in Letters /\ t \in Letters /\ recv \in Letters /\ ~HasEmptyThought(recv)
      BY <2>9 DEF Given
    <3> DEFINE h2 == Cat(hist, Rep(e))
               c2 == Cat(c, Con(e))
               t2 == Cat(t, Thk(e))
    <3>2. h2 \in Letters /\ c2 \in Letters /\ t2 \in Letters
      <4>1. Rep(e) \in Letters /\ Con(e) \in Letters /\ Thk(e) \in Letters
        BY <2>3, TrackedThinks, TextsOfSplit
      <4> QED BY <3>1, <4>1, CatTyped
    <3>3. Faithful(h2, c2, t2, recv, f, z)
      BY <2>5, <2>9 DEF Taken
    <3>4. Taken(h2, c2, t2, recv, s.pieces, s.buffer, s.inside)
      <4> HIDE DEF h2, c2, t2, s
      <4>1. Given(h2, c2, t2, recv, f, z)
        BY <3>1, <3>2, <3>3 DEF Given
      <4> QED BY <2>6, <4>1 DEF Follows, s
    <3> HIDE DEF s
    <3> QED BY <2>3, <2>7, <3>1, <3>4, TakenOn
  <2>10. Follows(x, y)
    <3> HIDE DEF s
    <3> QED BY <2>8, <2>9 DEF Follows
  <2> QED BY <1>1, <2>10
<1>5. <<b, in>> \in G
  BY <1>2, <1>3, <1>4, BySplitting
<1> QED BY <1>1, <1>5
\* A buffer that waits for more: nothing of it is certain.
Waiting(b, in) == NoTag(b, in) /\ KeptOf(b, in) = 0

\* What arrived reads as the answer c, the thinking t and then the buffer.
InStep(recv, c, t, b, in) ==
  \A v \in Letters : Same(Split(Cat(recv, v), FALSE), c, t, Split(Cat(b, v), in))

(***************************************************************************)
(* What is given at the end.                                               *)
(***************************************************************************)
LEMMA RestIs ==
  ASSUME NEW b \in Letters, NEW in \in BOOLEAN
  PROVE  /\ Rest(b, in) \in Seq(PieceSet)
         /\ ~in => Rest(b, in) = Piece(KindOf(in), b)
         /\ Waiting(b, in) /\ in => Rest(b, in) = <<>>
<1>1. CASE in
  <2> DEFINE k == KeptOf(b, in)
  <2>1. Rest(b, in) = Piece(KindOf(in), Upto(b, k))
    BY <1>1 DEF Rest, KindOf, KeptOf
  <2>2. k \in 0 .. Len(b)
    BY KeptIs
  <2> HIDE DEF k
  <2>3. Upto(b, k) \in Letters
    BY <2>2, UptoIs DEF Letters
  <2>4. Piece(KindOf(in), Upto(b, k)) \in Seq(PieceSet)
    BY <2>3, PieceIs
  <2>5. k = 0 => Piece(KindOf(in), Upto(b, k)) = <<>>
    <3>1. Upto(b, 0) = <<>>
      BY WholeAndNone DEF Letters
    <3> QED BY <3>1 DEF Piece
  <2>6. Waiting(b, in) => k = 0
    BY DEF Waiting, k
  <2> QED BY <1>1, <2>1, <2>4, <2>5, <2>6
<1>2. CASE ~in
  <2>1. Rest(b, in) = Piece(KindOf(in), b)
    BY <1>2 DEF Rest, KindOf
  <2>2. Piece(KindOf(in), b) \in Seq(PieceSet)
    BY PieceIs
  <2> QED BY <1>2, <2>1, <2>2
<1> QED BY <1>1, <1>2

(***************************************************************************)
(* Nothing certain comes of a buffer that waits.                           *)
(***************************************************************************)
LEMMA WaitingSplit ==
  ASSUME NEW b \in Letters, NEW in \in BOOLEAN, Waiting(b, in)
  PROVE  /\ Split(b, in).pieces = <<>> /\ Split(b, in).buffer = b /\ Split(b, in).inside = in
         /\ Split(b, in) \in FeedSet
<1>1. Split(b, in) = Kept(b, in)
  BY SplitKept DEF Waiting
<1>2. Upto(b, 0) = <<>> /\ From(b, 1) = b
  BY WholeAndNone DEF Letters
<1> DEFINE k == KeptOf(b, in)
<1>3. k = 0
  BY DEF Waiting
<1>4. /\ Kept(b, in).pieces = Piece(KindOf(in), Upto(b, k)) /\ Kept(b, in).buffer = From(b, k + 1)
      /\ Kept(b, in).inside = in
  BY DEF Kept
<1> HIDE DEF k
<1>5. From(b, k + 1) = b /\ Piece(KindOf(in), Upto(b, k)) = <<>>
  <2>1. k + 1 = 1
    BY <1>3
  <2> QED BY <2>1, <1>2, <1>3 DEF Piece
<1> QED BY <1>1, <1>4, <1>5, SplitTyped

(***************************************************************************)
(* The texts of a reply that is read at once.                              *)
(***************************************************************************)
LEMMA AtOnceIs ==
  ASSUME NEW x \in Letters
  PROVE  LET s == Split(x, FALSE)
         IN  /\ s \in FeedSet /\ Rest(s.buffer, s.inside) \in Seq(PieceSet)
             /\ Con(AtOnce(x)) = Cat(Con(s.pieces), Con(Rest(s.buffer, s.inside)))
             /\ Thk(AtOnce(x)) = Cat(Thk(s.pieces), Thk(Rest(s.buffer, s.inside)))
<1> DEFINE s == Split(x, FALSE)
           r == Rest(s.buffer, s.inside)
<1>1. s \in FeedSet
  BY SplitTyped
<1>2. AtOnce(x) = Cat(s.pieces, r)
  BY DEF AtOnce, Cat
<1> HIDE DEF s
<1>3. s.pieces \in Seq(PieceSet) /\ s.buffer \in Letters /\ s.inside \in BOOLEAN
  BY <1>1, FeedTexts
<1>4. r \in Seq(PieceSet)
  BY <1>3, RestIs
<1> HIDE DEF r
<1>5. Con(AtOnce(x)) = Cat(Con(s.pieces), Con(r)) /\ Thk(AtOnce(x)) = Cat(Thk(s.pieces), Thk(r))
  BY <1>2, <1>3, <1>4, TextsOfSplit
<1> QED BY <1>1, <1>4, <1>5 DEF s, r

(***************************************************************************)
(* What is in step ends as the whole.                                      *)
(***************************************************************************)
LEMMA InStepEnds ==
  ASSUME NEW recv \in Letters, NEW c \in Letters, NEW t \in Letters, NEW b \in Letters,
         NEW in \in BOOLEAN, InStep(recv, c, t, b, in), Waiting(b, in)
  PROVE  /\ Con(AtOnce(recv)) = Cat(c, Con(Rest(b, in)))
         /\ Thk(AtOnce(recv)) = Cat(t, Thk(Rest(b, in)))
<1> DEFINE s == Split(recv, FALSE)
           s2 == Split(b, in)
<1>1. Same(s, c, t, s2)
  <2> DEFINE e == <<>>
  <2>1. e \in Letters /\ Cat(recv, e) = recv /\ Cat(b, e) = b
    BY NoText, CatNone
  <2> HIDE DEF e
  <2>2. Same(Split(Cat(recv, e), FALSE), c, t, Split(Cat(b, e), in))
    BY <2>1 DEF InStep
  <2> QED BY <2>1, <2>2
<1>2. s2.pieces = <<>> /\ s2.buffer = b /\ s2.inside = in
  BY WaitingSplit
<1>3. Con(<<>>) = <<>> /\ Thk(<<>>) = <<>>
  <2>1. Piece(KindOf(in), <<>>) = <<>>
    BY DEF Piece
  <2>2. Con(Piece(KindOf(in), <<>>)) = <<>> /\ Thk(Piece(KindOf(in), <<>>)) = <<>>
    BY NoText, TextsOfOne
  <2> QED BY <2>1, <2>2
<1>4. Cat(c, <<>>) = c /\ Cat(t, <<>>) = t
  BY CatNone
<1>5. /\ Con(AtOnce(recv)) = Cat(Con(s.pieces), Con(Rest(s.buffer, s.inside)))
      /\ Thk(AtOnce(recv)) = Cat(Thk(s.pieces), Thk(Rest(s.buffer, s.inside)))
  BY AtOnceIs
<1> HIDE DEF s, s2
<1>6. Con(s.pieces) = c /\ Thk(s.pieces) = t /\ s.buffer = b /\ s.inside = in
  BY <1>1, <1>2, <1>3, <1>4 DEF Same
<1> QED BY <1>5, <1>6

\* The answer x is the last of a reply.
Ending(q, c, t, x) ==
  /\ q \in Letters /\ c \in Letters /\ t \in Letters /\ x \in Letters
  /\ Settled(q, c, t) /\ NoTag(x, FALSE)

(***************************************************************************)
(* An answer without a tag ends the replay as itself.                      *)
(***************************************************************************)
LEMMA SettledEnds ==
  ASSUME NEW q, NEW c, NEW t, NEW x, Ending(q, c, t, x)
  PROVE  Con(AtOnce(Cat(q, x))) = Cat(c, x) /\ Thk(AtOnce(Cat(q, x))) = t
<1> DEFINE y == Cat(q, x)
           s == Split(y, FALSE)
           s2 == Split(x, FALSE)
           no == FALSE
<1>0. no \in BOOLEAN /\ ~no
  OBVIOUS
<1>01. q \in Letters /\ c \in Letters /\ t \in Letters /\ x \in Letters /\ NoTag(x, FALSE)
  BY DEF Ending
<1>1. Same(s, c, t, s2)
  BY <1>01 DEF Ending, Settled
<1>2. PICK k \in Letters, w \in Letters :
         /\ Len(k) = KeptOf(x, no) /\ k = Upto(x, KeptOf(x, no)) /\ w = From(x, KeptOf(x, no) + 1)
         /\ Cat(k, w) = x
  <2> HIDE DEF no
  <2> QED BY <1>0, <1>01, NoText, KeptJoined
<1>3. s2 = Kept(x, no)
  BY <1>0, <1>01, SplitKept
<1> DEFINE e == Piece(KindOf(no), k)
<1> HIDE DEF no, s2
<1>4. s2.pieces = e /\ s2.buffer = w /\ s2.inside = no
  <2>1. /\ Kept(x, no).pieces = Piece(KindOf(no), Upto(x, KeptOf(x, no)))
        /\ Kept(x, no).buffer = From(x, KeptOf(x, no) + 1) /\ Kept(x, no).inside = no
    BY DEF Kept
  <2> QED BY <2>1, <1>2, <1>3
<1>5. Con(e) = k /\ Thk(e) = <<>>
  BY <1>0, <1>2, TextsOfOne
<1>6. Rest(w, no) = Piece(KindOf(no), w)
  BY <1>0, <1>2, RestIs
<1>7. Con(Piece(KindOf(no), w)) = w /\ Thk(Piece(KindOf(no), w)) = <<>>
  BY <1>0, <1>2, TextsOfOne
<1> HIDE DEF e
<1>8. y \in Letters
  BY <1>01, CatTyped
<1> HIDE DEF y
<1>9. /\ Con(AtOnce(y)) = Cat(Con(s.pieces), Con(Rest(s.buffer, s.inside)))
      /\ Thk(AtOnce(y)) = Cat(Thk(s.pieces), Thk(Rest(s.buffer, s.inside)))
  BY <1>8, AtOnceIs
<1> HIDE DEF s
<1>10. /\ Con(s.pieces) = Cat(c, k) /\ Thk(s.pieces) = Cat(t, <<>>)
       /\ s.buffer = w /\ s.inside = no
  BY <1>1, <1>4, <1>5 DEF Same
<1>11. Con(AtOnce(y)) = Cat(Cat(c, k), w) /\ Thk(AtOnce(y)) = Cat(Cat(t, <<>>), <<>>)
  BY <1>6, <1>7, <1>9, <1>10
<1>12. Cat(Cat(c, k), w) = Cat(c, Cat(k, w)) /\ Cat(t, <<>>) = t
  BY <1>01, <1>2, CatCat, CatNone
<1> QED BY <1>2, <1>11, <1>12 DEF y

(***************************************************************************)
(* A faithful replay ends as the reply does.                               *)
(***************************************************************************)
LEMMA FaithfulEnds ==
  ASSUME NEW hist \in Letters, NEW c \in Letters, NEW t \in Letters, NEW recv \in Letters,
         NEW b \in Letters, NEW in \in BOOLEAN,
         Faithful(hist, c, t, recv, b, in), Waiting(b, in)
  PROVE  /\ Con(AtOnce(Cat(hist, Rep(Rest(b, in))))) = Cat(c, Con(Rest(b, in)))
         /\ Thk(AtOnce(Cat(hist, Rep(Rest(b, in))))) = Cat(t, Thk(Rest(b, in)))
<1>1. PICK q, seg, c0 \in Letters : hist = Cat(q, seg) /\ c = Cat(c0, seg) /\ Settled(q, c0, t)
                                    /\ Standing(recv, seg, b, in)
  BY DEF Faithful
<1>2. Cat(hist, <<>>) = hist /\ Cat(c, <<>>) = c /\ Cat(t, <<>>) = t
  BY CatNone
<1> DEFINE r == Rest(b, in)
<1>3. CASE in
  <2>0. in = TRUE
    BY <1>3
  <2>1. r = <<>>
    BY <1>3, RestIs
  <2>2. Rep(r) = <<>> /\ Con(r) = <<>> /\ Thk(r) = <<>>
    <3>1. Piece(KindOf(in), <<>>) = <<>>
      BY DEF Piece
    <3>2. /\ Con(Piece(KindOf(in), <<>>)) = <<>> /\ Thk(Piece(KindOf(in), <<>>)) = <<>>
          /\ Rep(Piece(KindOf(in), <<>>)) = <<>>
      BY NoText, TextsOfOne, RepOfOne
    <3> QED BY <2>1, <3>1, <3>2
  <2>3. Leads(seg)
    <3>1. seg = <<>> \/ Leads(seg)
      BY <1>1, <2>0 DEF Standing
    <3> QED BY <3>1, NothingLeads
  <2>4. NoTag(seg, FALSE)
    <3>1. ASSUME NEW i, NEW j, Tag(seg, FALSE, i, j) PROVE FALSE
      <4>1. Tag(Cat(seg, ThinkOpen), FALSE, i, j)
        BY <1>1, <3>1, ThinkTags, TagsOfCat
      <4>2. i > Len(seg)
        BY <2>3, <4>1 DEF Leads
      <4>3. i \in 1 .. Len(seg)
        BY <1>1, <3>1, TagWithin
      <4> QED BY <4>2, <4>3
    <3> QED BY <3>1 DEF NoTag
  <2>5. Con(AtOnce(Cat(q, seg))) = Cat(c0, seg) /\ Thk(AtOnce(Cat(q, seg))) = t
    <3>1. Ending(q, c0, t, seg)
      BY <1>1, <2>4 DEF Ending
    <3> QED BY <3>1, SettledEnds
  <2> HIDE DEF r
  <2>6. /\ Con(AtOnce(Cat(hist, Rep(r)))) = Cat(c, Con(r))
        /\ Thk(AtOnce(Cat(hist, Rep(r)))) = Cat(t, Thk(r))
    BY <1>1, <1>2, <2>2, <2>5
  <2> QED BY <2>6 DEF r
<1>4. CASE ~in
  <2>0. in = FALSE
    BY <1>4
  <2>1. r = Piece(KindOf(in), b)
    BY <1>4, RestIs
  <2>2. Rep(r) = b /\ Con(r) = b /\ Thk(r) = <<>>
    <3>1. /\ Con(Piece(KindOf(in), b)) = b /\ Thk(Piece(KindOf(in), b)) = <<>>
          /\ Rep(Piece(KindOf(in), b)) = b
      BY <1>4, TextsOfOne, RepOfOne
    <3> QED BY <2>1, <3>1
  <2> DEFINE x == Cat(seg, b)
  <2>3. x \in Letters
    BY <1>1, CatTyped
  <2>4. Ahead(seg, b)
    BY <1>1, <2>0 DEF Standing
  <2>5. NoTag(x, FALSE)
    <3>1. ASSUME NEW i, NEW j, Tag(x, FALSE, i, j) PROVE FALSE
      <4>1. i > Len(seg)
        BY <2>4, <3>1 DEF Ahead
      <4>2. Tag(b, FALSE, i - Len(seg), j - Len(seg))
        BY <1>1, <3>1, <4>1, TagsOfCat
      <4> QED BY <2>0, <4>2 DEF NoTag, Waiting
    <3> QED BY <3>1 DEF NoTag
  <2>6. Cat(hist, b) = Cat(q, x) /\ Cat(c, b) = Cat(c0, x)
    <3>1. Cat(Cat(q, seg), b) = Cat(q, Cat(seg, b)) /\ Cat(Cat(c0, seg), b) = Cat(c0, Cat(seg, b))
      BY <1>1, CatCat
    <3> QED BY <1>1, <3>1
  <2> HIDE DEF x, r
  <2>7. Con(AtOnce(Cat(q, x))) = Cat(c0, x) /\ Thk(AtOnce(Cat(q, x))) = t
    <3>1. Ending(q, c0, t, x)
      BY <1>1, <2>3, <2>5 DEF Ending
    <3> QED BY <3>1, SettledEnds
  <2>8. /\ Con(AtOnce(Cat(hist, Rep(r)))) = Cat(c, Con(r))
        /\ Thk(AtOnce(Cat(hist, Rep(r)))) = Cat(t, Thk(r))
    BY <1>2, <2>2, <2>6, <2>7
  <2> QED BY <2>8 DEF r
<1> QED BY <1>3, <1>4
\* The text recv arrived, and the splitter waits with its end b.
Awaits(recv, b, in) ==
  /\ recv \in Letters /\ b \in Letters /\ in \in BOOLEAN
  /\ Waiting(b, in) /\ EndsIn(recv, b)

\* What arrived, no tag of it cut after its name, was told apart as if at once
\* and would be replayed as it is.
ToldApart(recv, c, t, hist, b, in) ==
  /\ c \in Letters /\ t \in Letters /\ hist \in Letters
  /\ ~CutInTag(recv) /\ InStep(recv, c, t, b, in)
  /\ ~HasEmptyThought(recv) => Faithful(hist, c, t, recv, b, in)

(***************************************************************************)
(* The splitter waits again after each delta.                              *)
(***************************************************************************)
LEMMA AwaitsOn ==
  ASSUME NEW recv, NEW b, NEW in, NEW d \in Letters, Awaits(recv, b, in)
  PROVE  /\ Cat(b, d) \in Letters /\ Split(Cat(b, d), in) \in FeedSet /\ EndsIn(Cat(recv, d), Cat(b, d))
         /\ Awaits(Cat(recv, d), Split(Cat(b, d), in).buffer, Split(Cat(b, d), in).inside)
<1>0. recv \in Letters /\ b \in Letters /\ in \in BOOLEAN /\ EndsIn(recv, b)
  BY DEF Awaits
<1> DEFINE bd == Cat(b, d)
           rd == Cat(recv, d)
           s == Split(bd, in)
<1>1. bd \in Letters /\ rd \in Letters
  BY <1>0, CatTyped
<1>2. PICK p \in Letters : recv = Cat(p, b)
  BY <1>0 DEF EndsIn
<1>3. rd = Cat(p, bd)
  <2>1. Cat(Cat(p, b), d) = Cat(p, Cat(b, d))
    BY <1>0, <1>2, CatCat
  <2> QED BY <1>2, <2>1
<1> HIDE DEF bd, rd
<1>4. s \in FeedSet
  BY <1>0, <1>1, SplitTyped
<1>5. Waiting(s.buffer, s.inside) /\ \E p2 \in Letters : bd = Cat(p2, s.buffer)
  BY <1>0, <1>1, HoldsEnd DEF Withholds, Waiting
<1>6. PICK p2 \in Letters : bd = Cat(p2, s.buffer)
  BY <1>5
<1> HIDE DEF s
<1>7. s.buffer \in Letters /\ s.inside \in BOOLEAN
  BY <1>4, FeedTexts
<1>8. Cat(p, p2) \in Letters /\ rd = Cat(Cat(p, p2), s.buffer)
  <2>1. Cat(Cat(p, p2), s.buffer) = Cat(p, Cat(p2, s.buffer))
    BY <1>2, <1>6, <1>7, CatCat
  <2> QED BY <1>2, <1>3, <1>6, <2>1, CatTyped
<1>9. EndsIn(rd, s.buffer) /\ EndsIn(rd, bd)
  BY <1>2, <1>3, <1>8 DEF EndsIn
<1>10. Awaits(rd, s.buffer, s.inside)
  BY <1>1, <1>5, <1>7, <1>9 DEF Awaits
<1> QED BY <1>1, <1>4, <1>9, <1>10 DEF s, rd, bd

(***************************************************************************)
(* What is in step stays in step with what is read next.                   *)
(***************************************************************************)
LEMMA InStepOn ==
  ASSUME NEW recv \in Letters, NEW c \in Letters, NEW t \in Letters, NEW b \in Letters,
         NEW in \in BOOLEAN, NEW d \in Letters, InStep(recv, c, t, b, in), ReadsOn(Cat(b, d), in)
  PROVE  InStep(Cat(recv, d), Cat(c, Con(Split(Cat(b, d), in).pieces)),
                Cat(t, Thk(Split(Cat(b, d), in).pieces)),
                Split(Cat(b, d), in).buffer, Split(Cat(b, d), in).inside)
<1> DEFINE bd == Cat(b, d)
           s == Split(bd, in)
           rd == Cat(recv, d)
<1>1. bd \in Letters /\ rd \in Letters
  BY CatTyped
<1>2. \A v \in Letters : Same(Split(Cat(bd, v), in), Con(s.pieces), Thk(s.pieces),
                              Split(Cat(s.buffer, v), s.inside))
  BY DEF ReadsOn
<1>3. \A v \in Letters : Cat(rd, v) = Cat(recv, Cat(d, v)) /\ Cat(bd, v) = Cat(b, Cat(d, v))
                         /\ Cat(d, v) \in Letters
  BY CatCat, CatTyped
<1> HIDE DEF bd, rd
<1>4. s \in FeedSet
  BY <1>1, SplitTyped
<1> HIDE DEF s
<1>5. s.buffer \in Letters /\ s.inside \in BOOLEAN /\ Con(s.pieces) \in Letters /\ Thk(s.pieces) \in Letters
  BY <1>4, FeedTexts
<1>6. ASSUME NEW v \in Letters
      PROVE  Same(Split(Cat(rd, v), FALSE), Cat(c, Con(s.pieces)), Cat(t, Thk(s.pieces)),
                  Split(Cat(s.buffer, v), s.inside))
  <2> DEFINE s1 == Split(Cat(rd, v), FALSE)
             s2 == Split(Cat(bd, v), in)
             s3 == Split(Cat(s.buffer, v), s.inside)
  <2>1. s1 \in FeedSet /\ s2 \in FeedSet /\ s3 \in FeedSet
    <3>1. Cat(rd, v) \in Letters /\ Cat(bd, v) \in Letters /\ Cat(s.buffer, v) \in Letters
      BY <1>1, <1>5, CatTyped
    <3> QED BY <3>1, <1>5, SplitTyped
  <2>2. Same(s1, c, t, s2)
    <3> DEFINE dv == Cat(d, v)
    <3>1. dv \in Letters /\ Cat(rd, v) = Cat(recv, dv) /\ Cat(bd, v) = Cat(b, dv)
      BY <1>3
    <3> HIDE DEF dv
    <3>2. Same(Split(Cat(recv, dv), FALSE), c, t, Split(Cat(b, dv), in))
      BY <3>1 DEF InStep
    <3> QED BY <3>1, <3>2
  <2>3. Same(s2, Con(s.pieces), Thk(s.pieces), s3)
    BY <1>2
  <2> HIDE DEF s1, s2, s3
  <2>4. Same(s1, Cat(c, Con(s.pieces)), Cat(t, Thk(s.pieces)), s3)
    BY <1>5, <2>1, <2>2, <2>3, SameSame
  <2> QED BY <2>4 DEF s1, s3
<1> QED BY <1>6 DEF InStep, s, rd, bd

(***************************************************************************)
(* What was told apart stays so with the next delta.                       *)
(***************************************************************************)
LEMMA ToldApartOn ==
  ASSUME NEW recv, NEW c, NEW t, NEW hist, NEW b, NEW in, NEW d \in Letters,
         Awaits(recv, b, in), ToldApart(recv, c, t, hist, b, in), ~CutInTag(Cat(recv, d))
  PROVE  ToldApart(Cat(recv, d), Cat(c, Con(Split(Cat(b, d), in).pieces)),
                   Cat(t, Thk(Split(Cat(b, d), in).pieces)), Cat(hist, Rep(Split(Cat(b, d), in).pieces)),
                   Split(Cat(b, d), in).buffer, Split(Cat(b, d), in).inside)
<1>0. /\ recv \in Letters /\ b \in Letters /\ in \in BOOLEAN /\ Waiting(b, in)
      /\ c \in Letters /\ t \in Letters /\ hist \in Letters
      /\ ~CutInTag(recv) /\ InStep(recv, c, t, b, in)
      /\ ~HasEmptyThought(recv) => Faithful(hist, c, t, recv, b, in)
  BY DEF Awaits, ToldApart
<1> DEFINE bd == Cat(b, d)
           rd == Cat(recv, d)
           s == Split(bd, in)
           c2 == Cat(c, Con(s.pieces))
           t2 == Cat(t, Thk(s.pieces))
           h2 == Cat(hist, Rep(s.pieces))
<1>1. bd \in Letters /\ s \in FeedSet /\ EndsIn(rd, bd)
  BY AwaitsOn
<1>2. ReadsOn(bd, in)
  <2>1. ~CutInTag(bd)
    <3>1. PICK p \in Letters : rd = Cat(p, bd)
      BY <1>1 DEF EndsIn
    <3> HIDE DEF rd, bd
    <3>2. CutInTag(bd) => CutInTag(p \o bd)
      BY <1>1, <3>1, CutOfRest
    <3>3. ~CutInTag(rd)
      BY DEF rd
    <3> QED BY <3>1, <3>2, <3>3 DEF Cat
  <2> HIDE DEF bd
  <2> QED BY <1>0, <1>1, <2>1, ReadOn
<1>3. InStep(rd, c2, t2, s.buffer, s.inside)
  BY <1>0, <1>2, InStepOn
<1>4. c2 \in Letters /\ t2 \in Letters /\ h2 \in Letters
  <2> HIDE DEF s
  <2>1. s.pieces \in Seq(PieceSet) /\ Con(s.pieces) \in Letters /\ Thk(s.pieces) \in Letters
    BY <1>1, FeedTexts
  <2>2. Rep(s.pieces) \in Letters
    BY <2>1, TrackedThinks
  <2> QED BY <1>0, <2>1, <2>2, CatTyped
<1>5. ASSUME ~HasEmptyThought(rd) PROVE Faithful(h2, c2, t2, rd, s.buffer, s.inside)
  <2>1. ~HasEmptyThought(recv)
    BY <1>0, <1>5, EmptyThoughtStays
  <2>2. FaithfulBefore(hist, c, t, recv, b, in)
    BY <1>0, <2>1 DEF FaithfulBefore, Waiting
  <2>3. Faithful(hist, c, t, rd, bd, in)
    BY <2>2, FaithfulOn
  <2>4. rd \in Letters
    BY <1>0, CatTyped
  <2> HIDE DEF rd, bd
  <2>5. Given(hist, c, t, rd, bd, in)
    BY <1>0, <1>5, <2>3, <2>4 DEF Given
  <2>6. Follows(bd, in)
    BY <1>0, <1>1, FaithfulFeed
  <2>7. Taken(hist, c, t, rd, s.pieces, s.buffer, s.inside)
    BY <2>5, <2>6 DEF Follows
  <2> QED BY <2>7 DEF Taken
<1> HIDE DEF c2, t2, h2, rd, s
<1>6. ToldApart(rd, c2, t2, h2, s.buffer, s.inside)
  <2>1. ~CutInTag(rd)
    BY DEF rd
  <2> QED BY <1>3, <1>4, <1>5, <2>1 DEF ToldApart
<1> QED BY <1>6 DEF c2, t2, h2, rd, s, bd

(***************************************************************************)
(* What was told apart when the reply ends.                                *)
(***************************************************************************)
LEMMA ToldApartEnds ==
  ASSUME NEW recv, NEW c, NEW t, NEW hist, NEW b, NEW in,
         Awaits(recv, b, in), ToldApart(recv, c, t, hist, b, in)
  PROVE  /\ Con(AtOnce(recv)) = Cat(c, Con(Rest(b, in)))
         /\ Thk(AtOnce(recv)) = Cat(t, Thk(Rest(b, in)))
         /\ ~HasEmptyThought(recv) =>
              /\ Con(AtOnce(Cat(hist, Rep(Rest(b, in))))) = Con(AtOnce(recv))
              /\ Thk(AtOnce(Cat(hist, Rep(Rest(b, in))))) = Thk(AtOnce(recv))
<1>0. /\ recv \in Letters /\ b \in Letters /\ in \in BOOLEAN /\ Waiting(b, in)
      /\ c \in Letters /\ t \in Letters /\ hist \in Letters
      /\ InStep(recv, c, t, b, in)
      /\ ~HasEmptyThought(recv) => Faithful(hist, c, t, recv, b, in)
  BY DEF Awaits, ToldApart
<1>1. Con(AtOnce(recv)) = Cat(c, Con(Rest(b, in))) /\ Thk(AtOnce(recv)) = Cat(t, Thk(Rest(b, in)))
  BY <1>0, InStepEnds
<1>2. ASSUME ~HasEmptyThought(recv)
      PROVE  /\ Con(AtOnce(Cat(hist, Rep(Rest(b, in))))) = Cat(c, Con(Rest(b, in)))
             /\ Thk(AtOnce(Cat(hist, Rep(Rest(b, in))))) = Cat(t, Thk(Rest(b, in)))
  BY <1>0, <1>2, FaithfulEnds
<1> QED BY <1>1, <1>2
\* The first n fragments of call i.
ArgsUpto(i, n) == [k \in 1 .. n |-> <<i, k>>]

\* The arguments of a call, as fragments.
Fragments == Seq(Call \X Nat)

(***************************************************************************)
(* Fragment after fragment of a call.                                      *)
(***************************************************************************)
LEMMA ArgsNext ==
  ASSUME NEW i \in Call, NEW n \in Nat
  PROVE  /\ ArgsUpto(i, n) \in Fragments /\ Len(ArgsUpto(i, n)) = n
         /\ Append(ArgsUpto(i, n), <<i, n + 1>>) = ArgsUpto(i, n + 1)
         /\ ArgsUpto(i, n) = <<>> <=> n = 0
<1>1. \A m \in Nat : ArgsUpto(i, m) \in Fragments /\ Len(ArgsUpto(i, m)) = m
                     /\ \A k \in 1 .. m : ArgsUpto(i, m)[k] = <<i, k>>
  <2>1. ASSUME NEW m \in Nat
        PROVE  ArgsUpto(i, m) \in Fragments /\ Len(ArgsUpto(i, m)) = m
               /\ \A k \in 1 .. m : ArgsUpto(i, m)[k] = <<i, k>>
    <3> DEFINE a == ArgsUpto(i, m)
    <3>1. a \in [1 .. m -> Call \X Nat]
      BY DEF ArgsUpto
    <3>2. a \in Fragments /\ Len(a) = m
      BY <3>1 DEF Fragments
    <3> QED BY <3>2 DEF ArgsUpto
  <2> QED BY <2>1
<1> DEFINE a == ArgsUpto(i, n)
           b == Append(a, <<i, n + 1>>)
           c == ArgsUpto(i, n + 1)
<1>2. a \in Fragments /\ Len(a) = n /\ \A k \in 1 .. n : a[k] = <<i, k>>
  BY <1>1
<1>3. c \in Fragments /\ Len(c) = n + 1 /\ \A k \in 1 .. n + 1 : c[k] = <<i, k>>
  <2> DEFINE m == n + 1
  <2>1. m \in Nat
    OBVIOUS
  <2> HIDE DEF m
  <2>2. ArgsUpto(i, m) \in Fragments /\ Len(ArgsUpto(i, m)) = m
        /\ \A k \in 1 .. m : ArgsUpto(i, m)[k] = <<i, k>>
    BY <1>1, <2>1
  <2> QED BY <2>2 DEF m
<1>4. b = c
  <2> HIDE DEF a, c
  <2>1. b \in Fragments /\ Len(b) = n + 1 /\ (\A k \in 1 .. n : b[k] = a[k]) /\ b[n + 1] = <<i, n + 1>>
    <3>1. <<i, n + 1>> \in Call \X Nat
      OBVIOUS
    <3> QED BY <3>1, <1>2, AppendProperties DEF Fragments
  <2>2. \A k \in 1 .. n + 1 : b[k] = c[k]
    BY <1>2, <1>3, <2>1
  <2> HIDE DEF b
  <2> QED BY <1>3, <2>1, <2>2, SeqEqual DEF Fragments
<1>5. a = <<>> <=> n = 0
  <2> HIDE DEF a
  <2> QED BY <1>2, EmptySeq DEF Fragments
<1> QED BY <1>2, <1>4, <1>5

\* Each call has the first fragments of its own, and is in order once it has one.
ArgsOk(as, os) ==
  /\ as \in [Call -> Fragments] /\ os \in Seq(Call)
  /\ \A i \in Call : \E n \in 0 .. ArgLen : as[i] = ArgsUpto(i, n)
  /\ \A i \in Call : i \in Range(os) <=> as[i] # <<>>

\* The calls yielded are the complete ones, with all their fragments.
YieldsAll(cs, as) ==
  /\ cs \in Seq(Call \X Fragments)
  /\ \A n \in DOMAIN cs : Len(as[cs[n][1]]) = ArgLen /\ cs[n][2] = ArgsUpto(cs[n][1], ArgLen)
  /\ \A i \in Call : Len(as[i]) = ArgLen => \E n \in DOMAIN cs : cs[n][1] = i

(***************************************************************************)
(* A fragment keeps the arguments in order.                                *)
(***************************************************************************)
LEMMA RangeNext ==
  ASSUME NEW S, NEW s \in Seq(S), NEW x \in S
  PROVE  Append(s, x) \in Seq(S) /\ \A y : y \in Range(Append(s, x)) <=> y \in Range(s) \/ y = x
<1> DEFINE t == Append(s, x)
<1>1. t \in Seq(S) /\ Len(t) = Len(s) + 1 /\ (\A k \in 1 .. Len(s) : t[k] = s[k]) /\ t[Len(s) + 1] = x
      /\ Len(s) \in Nat
  BY AppendProperties, LenProperties
<1>2. DOMAIN t = 1 .. Len(s) + 1 /\ DOMAIN s = 1 .. Len(s)
  BY <1>1
<1> HIDE DEF t
<1>3. \A k \in 1 .. Len(s) + 1 : k \in 1 .. Len(s) \/ k = Len(s) + 1
  BY <1>1
<1>4. \A y : y \in Range(t) <=> y \in Range(s) \/ y = x
  <2>1. ASSUME NEW y, y \in Range(t) PROVE y \in Range(s) \/ y = x
    <3>1. PICK k \in 1 .. Len(s) + 1 : y = t[k]
      BY <2>1, <1>2 DEF Range
    <3> QED BY <3>1, <1>1, <1>2, <1>3 DEF Range
  <2>2. ASSUME NEW y, y \in Range(s) PROVE y \in Range(t)
    <3>1. PICK k \in 1 .. Len(s) : y = s[k]
      BY <2>2, <1>2 DEF Range
    <3>2. k \in 1 .. Len(s) + 1
      BY <1>1
    <3> QED BY <3>1, <3>2, <1>1, <1>2 DEF Range
  <2>3. x \in Range(t)
    <3>1. Len(s) + 1 \in DOMAIN t
      BY <1>1, <1>2
    <3> QED BY <3>1, <1>1 DEF Range
  <2> QED BY <2>1, <2>2, <2>3
<1> QED BY <1>1, <1>4 DEF t

(***************************************************************************)
(* A fragment more, and its call among those that came.                    *)
(***************************************************************************)
LEMMA ArgsGrow ==
  ASSUME NEW as, NEW os, NEW i \in Call, ArgsOk(as, os), Len(as[i]) < ArgLen
  PROVE  LET bs == [as EXCEPT ![i] = Append(@, <<i, Len(@) + 1>>)]
         IN  /\ ArgsOk(bs, IF i \in Range(os) THEN os ELSE Append(os, i))
             /\ bs[i] = ArgsUpto(i, Len(as[i]) + 1) /\ Len(bs[i]) = Len(as[i]) + 1
             /\ Len(as[i]) \in Nat /\ \A j \in Call \ {i} : bs[j] = as[j]
<1> DEFINE bs == [as EXCEPT ![i] = Append(@, <<i, Len(@) + 1>>)]
           qs == IF i \in Range(os) THEN os ELSE Append(os, i)
<1>0. ArgLen \in Nat \ {0}
  BY StreamAssumption
<1>1. /\ as \in [Call -> Fragments] /\ os \in Seq(Call)
      /\ \A j \in Call : \E n \in 0 .. ArgLen : as[j] = ArgsUpto(j, n)
      /\ \A j \in Call : j \in Range(os) <=> as[j] # <<>>
  BY DEF ArgsOk
<1>2. PICK n \in 0 .. ArgLen : as[i] = ArgsUpto(i, n)
  BY <1>1
<1>3. n \in Nat /\ Len(as[i]) = n /\ n < ArgLen
  <2>1. n \in Nat
    BY <1>0
  <2> QED BY <2>1, <1>2, ArgsNext
<1>4. bs[i] = ArgsUpto(i, n + 1) /\ \A j \in Call \ {i} : bs[j] = as[j]
  <2>1. bs[i] = Append(as[i], <<i, Len(as[i]) + 1>>)
    BY <1>1
  <2>2. bs[i] = Append(ArgsUpto(i, n), <<i, n + 1>>)
    BY <2>1, <1>2, <1>3
  <2>3. bs[i] = ArgsUpto(i, n + 1)
    BY <2>2, <1>3, ArgsNext
  <2>4. \A j \in Call \ {i} : bs[j] = as[j]
    BY <1>1
  <2> QED BY <2>3, <2>4
<1> DEFINE m == n + 1
<1>5. m \in 0 .. ArgLen /\ m \in Nat /\ m # 0
  BY <1>0, <1>3
<1>6. ArgsUpto(i, m) \in Fragments /\ Len(ArgsUpto(i, m)) = m /\ ArgsUpto(i, m) # <<>>
  <2> HIDE DEF m
  <2> QED BY <1>5, ArgsNext
<1>7. bs \in [Call -> Fragments]
  <2>1. Append(as[i], <<i, Len(as[i]) + 1>>) \in Fragments
    <3>1. bs[i] = Append(as[i], <<i, Len(as[i]) + 1>>)
      BY <1>1
    <3> QED BY <3>1, <1>4, <1>6
  <2> QED BY <2>1, <1>1
<1>8. qs \in Seq(Call) /\ \A j : j \in Range(qs) <=> j \in Range(os) \/ j = i
  BY <1>1, RangeNext
<1> HIDE DEF bs, qs
<1>9. \A j \in Call : \E k \in 0 .. ArgLen : bs[j] = ArgsUpto(j, k)
  BY <1>1, <1>4, <1>5
<1>10. \A j \in Call : j \in Range(qs) <=> bs[j] # <<>>
  BY <1>1, <1>4, <1>6, <1>8
<1>11. ArgsOk(bs, qs)
  BY <1>7, <1>8, <1>9, <1>10 DEF ArgsOk
<1>12. Len(bs[i]) = Len(as[i]) + 1 /\ bs[i] = ArgsUpto(i, Len(as[i]) + 1) /\ Len(as[i]) \in Nat
  BY <1>3, <1>4, <1>6
<1> QED BY <1>4, <1>11, <1>12 DEF bs, qs

(***************************************************************************)
(* A call is yielded when its last fragment came.                          *)
(***************************************************************************)
LEMMA CallYielded ==
  ASSUME NEW as, NEW bs, NEW cs, NEW i \in Call, YieldsAll(cs, as), Len(as[i]) \in Nat,
         bs[i] \in Fragments, Len(bs[i]) = Len(as[i]) + 1, Len(as[i]) < ArgLen,
         bs[i] = ArgsUpto(i, Len(as[i]) + 1), \A j \in Call \ {i} : bs[j] = as[j]
  PROVE  YieldsAll(IF Len(as[i]) = ArgLen - 1 THEN Append(cs, <<i, bs[i]>>) ELSE cs, bs)
<1>0. ArgLen \in Nat \ {0}
  BY StreamAssumption
<1>1. /\ cs \in Seq(Call \X Fragments)
      /\ \A n \in DOMAIN cs : Len(as[cs[n][1]]) = ArgLen /\ cs[n][2] = ArgsUpto(cs[n][1], ArgLen)
      /\ \A j \in Call : Len(as[j]) = ArgLen => \E n \in DOMAIN cs : cs[n][1] = j
  BY DEF YieldsAll
<1>2. \A n \in DOMAIN cs : cs[n] \in Call \X Fragments /\ cs[n][1] \in Call /\ cs[n][1] # i
  <2>1. ASSUME NEW n \in DOMAIN cs PROVE cs[n] \in Call \X Fragments
    BY <1>1, ElementOfSeq, LenProperties
  <2>2. Len(as[i]) # ArgLen
    <3> DEFINE m == Len(as[i])
    <3>1. m \in Nat /\ m < ArgLen
      OBVIOUS
    <3> HIDE DEF m
    <3>2. m # ArgLen
      BY <3>1, <1>0
    <3> QED BY <3>2 DEF m
  <2> QED BY <1>1, <2>1, <2>2
<1>3. \A n \in DOMAIN cs : Len(bs[cs[n][1]]) = ArgLen /\ cs[n][2] = ArgsUpto(cs[n][1], ArgLen)
  BY <1>1, <1>2
<1>4. CASE Len(as[i]) # ArgLen - 1
  <2>1. Len(bs[i]) # ArgLen
    <3> DEFINE m == Len(as[i])
               k == Len(bs[i])
    <3>1. m \in Nat /\ k = m + 1 /\ m # ArgLen - 1
      BY <1>4
    <3> HIDE DEF m, k
    <3>2. k # ArgLen
      BY <3>1, <1>0
    <3> QED BY <3>2 DEF k
  <2>2. \A j \in Call : Len(bs[j]) = ArgLen => \E n \in DOMAIN cs : cs[n][1] = j
    BY <1>1, <2>1
  <2> QED BY <1>1, <1>3, <1>4, <2>2 DEF YieldsAll
<1>5. CASE Len(as[i]) = ArgLen - 1
  <2> DEFINE x == <<i, bs[i]>>
             ds == Append(cs, x)
  <2>1. x \in Call \X Fragments /\ x[1] = i /\ x[2] = bs[i]
    OBVIOUS
  <2>2. Len(bs[i]) = ArgLen /\ bs[i] = ArgsUpto(i, ArgLen)
    <3>1. Len(as[i]) + 1 = ArgLen
      BY <1>0, <1>5
    <3> QED BY <3>1
  <2> HIDE DEF x
  <2>3. /\ ds \in Seq(Call \X Fragments) /\ Len(ds) = Len(cs) + 1 /\ Len(cs) \in Nat
        /\ (\A k \in 1 .. Len(cs) : ds[k] = cs[k]) /\ ds[Len(cs) + 1] = x
    BY <1>1, <2>1, AppendProperties, LenProperties
  <2>4. DOMAIN ds = 1 .. Len(cs) + 1 /\ DOMAIN cs = 1 .. Len(cs)
    BY <1>1, <2>3
  <2> HIDE DEF ds
  <2>5. ASSUME NEW n \in DOMAIN ds
        PROVE  Len(bs[ds[n][1]]) = ArgLen /\ ds[n][2] = ArgsUpto(ds[n][1], ArgLen)
    <3>1. n \in 1 .. Len(cs) \/ n = Len(cs) + 1
      BY <2>3, <2>4
    <3>2. CASE n \in 1 .. Len(cs)
      <4>1. ds[n] = cs[n] /\ n \in DOMAIN cs
        BY <2>3, <2>4, <3>2
      <4> QED BY <4>1, <1>3
    <3>3. CASE n = Len(cs) + 1
      BY <2>1, <2>2, <2>3, <3>3
    <3> QED BY <3>1, <3>2, <3>3
  <2>6. ASSUME NEW j \in Call, Len(bs[j]) = ArgLen PROVE \E n \in DOMAIN ds : ds[n][1] = j
    <3>1. CASE j = i
      <4>1. Len(cs) + 1 \in DOMAIN ds
        BY <2>3, <2>4
      <4> QED BY <2>1, <2>3, <3>1, <4>1
    <3>2. CASE j # i
      <4>1. PICK n \in DOMAIN cs : cs[n][1] = j
        BY <1>1, <2>6, <3>2
      <4>2. n \in DOMAIN ds /\ ds[n] = cs[n]
        BY <2>3, <2>4
      <4> QED BY <4>1, <4>2
    <3> QED BY <3>1, <3>2
  <2> QED BY <1>5, <2>3, <2>5, <2>6 DEF YieldsAll, ds, x
<1> QED BY <1>4, <1>5
\* The reply recv ends as the answer c, the thinking t and the buffer b.
EndsAs(recv, c, t, hist, b, in) ==
  /\ Con(AtOnce(recv)) = Cat(c, Con(Rest(b, in)))
  /\ Thk(AtOnce(recv)) = Cat(t, Thk(Rest(b, in)))
  /\ ~HasEmptyThought(recv) =>
       /\ Con(AtOnce(Cat(hist, Rep(Rest(b, in))))) = Con(AtOnce(recv))
       /\ Thk(AtOnce(Cat(hist, Rep(Rest(b, in))))) = Thk(AtOnce(recv))

(***************************************************************************)
(* An empty replay reads as nothing.                                       *)
(***************************************************************************)
LEMMA NothingSettles == Settled(<<>>, <<>>, <<>>)
<1> DEFINE e == <<>>
<1>1. ASSUME NEW v \in Letters PROVE Same(Split(Cat(e, v), FALSE), e, e, Split(v, FALSE))
  <2> DEFINE s1 == Split(v, FALSE)
  <2>1. s1 \in FeedSet /\ Cat(e, v) = v
    BY SplitTyped, CatNone
  <2> HIDE DEF s1
  <2>2. Con(s1.pieces) \in Letters /\ Thk(s1.pieces) \in Letters
    BY <2>1, FeedTexts
  <2>3. Cat(e, Con(s1.pieces)) = Con(s1.pieces) /\ Cat(e, Thk(s1.pieces)) = Thk(s1.pieces)
    BY <2>2, CatNone
  <2> HIDE DEF e
  <2>4. Same(s1, e, e, s1)
    BY <2>3 DEF Same
  <2> QED BY <2>1, <2>4 DEF s1
<1> QED BY <1>1 DEF Settled

(***************************************************************************)
(* A reply that is read at once.                                           *)
(***************************************************************************)
LEMMA WholeEnds ==
  ASSUME NEW x \in Letters
  PROVE  LET s == Split(x, FALSE)
         IN  /\ s \in FeedSet /\ Waiting(s.buffer, s.inside)
             /\ EndsAs(x, Con(s.pieces), Thk(s.pieces), Rep(s.pieces), s.buffer, s.inside)
<1> DEFINE s == Split(x, FALSE)
           r == Rest(s.buffer, s.inside)
           e == <<>>
           no == FALSE
<1>0. no \in BOOLEAN
  OBVIOUS
<1>1. s \in FeedSet
  BY SplitTyped
<1>2. Con(AtOnce(x)) = Cat(Con(s.pieces), Con(r)) /\ Thk(AtOnce(x)) = Cat(Thk(s.pieces), Thk(r))
  BY AtOnceIs
<1>3. Waiting(s.buffer, s.inside)
  <2>1. Withholds(x, no)
    <3> HIDE DEF no
    <3> QED BY <1>0, HoldsEnd
  <2> QED BY <2>1 DEF Withholds, Waiting
<1>4. e \in Letters /\ Cat(e, x) = x
  BY NoText, CatNone
<1>5. Settled(e, e, e)
  BY NothingSettles
<1>6. s.pieces \in Seq(PieceSet) /\ s.buffer \in Letters /\ s.inside \in BOOLEAN
      /\ Con(s.pieces) \in Letters /\ Thk(s.pieces) \in Letters
  <2> HIDE DEF s
  <2> QED BY <1>1, FeedTexts
<1>7. Rep(s.pieces) \in Letters
  <2> HIDE DEF s
  <2> QED BY <1>6, TrackedThinks
<1>8. ASSUME ~HasEmptyThought(x)
      PROVE  Faithful(Rep(s.pieces), Con(s.pieces), Thk(s.pieces), x, s.buffer, s.inside)
  <2>1. Faithful(e, e, e, x, x, no)
    <3> HIDE DEF e, no
    <3>1. Faithful(e, e, e, Cat(e, x), x, no)
      BY <1>0, <1>4, <1>5, Afresh
    <3> QED BY <3>1, <1>4
  <2>2. Cat(e, Rep(s.pieces)) = Rep(s.pieces) /\ Cat(e, Con(s.pieces)) = Con(s.pieces)
        /\ Cat(e, Thk(s.pieces)) = Thk(s.pieces)
    <3> HIDE DEF s
    <3> QED BY <1>6, <1>7, CatNone
  <2> HIDE DEF e
  <2>3. Given(e, e, e, x, x, no)
    BY <1>4, <1>8, <2>1 DEF Given
  <2>4. Follows(x, no)
    <3> HIDE DEF no
    <3> QED BY <1>0, FaithfulFeed
  <2>5. Taken(e, e, e, x, s.pieces, s.buffer, s.inside)
    BY <2>3, <2>4 DEF Follows
  <2> QED BY <2>2, <2>5 DEF Taken
<1> HIDE DEF s
<1>9. ASSUME ~HasEmptyThought(x)
      PROVE  /\ Con(AtOnce(Cat(Rep(s.pieces), Rep(r)))) = Cat(Con(s.pieces), Con(r))
             /\ Thk(AtOnce(Cat(Rep(s.pieces), Rep(r)))) = Cat(Thk(s.pieces), Thk(r))
  BY <1>3, <1>6, <1>7, <1>8, <1>9, FaithfulEnds
<1>10. EndsAs(x, Con(s.pieces), Thk(s.pieces), Rep(s.pieces), s.buffer, s.inside)
  BY <1>2, <1>9 DEF EndsAs
<1> QED BY <1>1, <1>3, <1>10 DEF s

\* The handler at the end of a reply.
Done(hd) == Heard(hd) /\ Alternate(hd.files) /\ Len(hd.files) % 2 = 0

\* The handler and the history have the reply recv.
Comes(recv, hd, od) ==
  /\ hd.content = Con(AtOnce(recv)) /\ FromTags(od) = Thk(AtOnce(recv))
  /\ ~HasEmptyThought(recv) =>
       /\ Con(AtOnce(historyText(od))) = Con(AtOnce(recv))
       /\ Thk(AtOnce(historyText(od))) = Thk(AtOnce(recv))

(***************************************************************************)
(* The end of a reply, for the handler and the history.                    *)
(***************************************************************************)
LEMMA EndComes ==
  ASSUME NEW recv, NEW b \in Letters, NEW in \in BOOLEAN, NEW hs, NEW os \in Seq(OrderedSet),
         Handled(hs)
  PROVE  LET r  == Rest(b, in)
             hd == CloseFile(flushProse(processPieces(hs, r)))
             od == Cat(os, Tracked(r, "tags"))
         IN  /\ Done(hd) /\ od \in Seq(OrderedSet)
             /\ EndsAs(recv, hs.content, FromTags(os), historyText(os), b, in) => Comes(recv, hd, od)
<1> DEFINE r  == Rest(b, in)
           hp == processPieces(hs, r)
           hf == flushProse(hp)
           hd == CloseFile(hf)
           tr == Tracked(r, "tags")
           od == Cat(os, tr)
<1>1. r \in Seq(PieceSet)
  BY RestIs
<1>2. hs \in HandlerSet
  BY DEF Handled
<1> HIDE DEF r
<1>3. Handled(hp) /\ hp.content = Cat(hs.content, Con(r))
  BY <1>1, <1>2, PiecesHandled
<1> HIDE DEF hp
<1>4. Heard(hf) /\ Filed(hf) /\ hf.content = hp.content
  <2>1. hp \in HandlerSet
    BY <1>3 DEF Handled
  <2> QED BY <1>3, <2>1, FlushIs
<1> HIDE DEF hf
<1>5. Done(hd) /\ hd.content = hf.content
  <2>1. hf \in HandlerSet
    BY <1>4 DEF Heard
  <2> QED BY <1>4, <2>1, CloseFileIs DEF Done
<1> HIDE DEF hd
<1>6. tr \in Seq(OrderedSet) /\ FromTags(tr) = Thk(r) /\ historyText(tr) = Rep(r)
  BY <1>1, TrackedIs, TrackedThinks DEF Rep
<1> HIDE DEF tr
<1>7. od \in Seq(OrderedSet) /\ FromTags(od) = Cat(FromTags(os), Thk(r))
      /\ historyText(od) = Cat(historyText(os), Rep(r))
  BY <1>6, OrderedJoined
<1> HIDE DEF od
<1>8. ASSUME EndsAs(recv, hs.content, FromTags(os), historyText(os), b, in) PROVE Comes(recv, hd, od)
  BY <1>3, <1>4, <1>5, <1>7, <1>8 DEF EndsAs, Comes, r
<1> QED BY <1>5, <1>7, <1>8 DEF r, hp, hf, hd, tr, od
(***************************************************************************)
(* A delta of content, for the handler and the history.                    *)
(***************************************************************************)
LEMMA DeltaComes ==
  ASSUME NEW recv, NEW b, NEW in, NEW hs, NEW os \in Seq(OrderedSet), NEW d \in Letters,
         Awaits(recv, b, in), Handled(hs)
  PROVE  LET s  == Split(Cat(b, d), in)
             hd == processPieces(hs, s.pieces)
             od == Cat(os, Tracked(s.pieces, "tags"))
         IN  /\ Awaits(Cat(recv, d), s.buffer, s.inside) /\ Handled(hd) /\ od \in Seq(OrderedSet)
             /\ ToldApart(recv, hs.content, FromTags(os), historyText(os), b, in)
                  /\ ~CutInTag(Cat(recv, d))
                => ToldApart(Cat(recv, d), hd.content, FromTags(od), historyText(od),
                             s.buffer, s.inside)
<1> DEFINE rd == Cat(recv, d)
           bd == Cat(b, d)
           s  == Split(bd, in)
           hd == processPieces(hs, s.pieces)
           tr == Tracked(s.pieces, "tags")
           od == Cat(os, tr)
<1>1. s \in FeedSet /\ Awaits(rd, s.buffer, s.inside)
  BY AwaitsOn
<1>2. ASSUME ToldApart(recv, hs.content, FromTags(os), historyText(os), b, in), ~CutInTag(rd)
      PROVE  ToldApart(rd, Cat(hs.content, Con(s.pieces)), Cat(FromTags(os), Thk(s.pieces)),
                       Cat(historyText(os), Rep(s.pieces)), s.buffer, s.inside)
  BY <1>2, ToldApartOn
<1> HIDE DEF s, rd
<1>3. s.pieces \in Seq(PieceSet)
  BY <1>1, FeedTexts
<1>4. Handled(hd) /\ hd.content = Cat(hs.content, Con(s.pieces))
  <2>1. hs \in HandlerSet
    BY DEF Handled
  <2> QED BY <1>3, <2>1, PiecesHandled
<1> HIDE DEF hd
<1>5. tr \in Seq(OrderedSet) /\ FromTags(tr) = Thk(s.pieces) /\ historyText(tr) = Rep(s.pieces)
  BY <1>3, TrackedIs, TrackedThinks DEF Rep
<1> HIDE DEF tr
<1>6. od \in Seq(OrderedSet) /\ FromTags(od) = Cat(FromTags(os), Thk(s.pieces))
      /\ historyText(od) = Cat(historyText(os), Rep(s.pieces))
  BY <1>5, OrderedJoined
<1> HIDE DEF od
<1>7. ASSUME ToldApart(recv, hs.content, FromTags(os), historyText(os), b, in), ~CutInTag(rd)
      PROVE  ToldApart(rd, hd.content, FromTags(od), historyText(od), s.buffer, s.inside)
  BY <1>2, <1>4, <1>6, <1>7
<1> QED BY <1>1, <1>4, <1>6, <1>7 DEF rd, bd, s, hd, tr, od

\* While a reply comes, and once it ended.
Telling(recv, b, in, hs, os, cut) ==
  /\ Awaits(recv, b, in) /\ Handled(hs)
  /\ cut = FALSE => ToldApart(recv, hs.content, FromTags(os), historyText(os), b, in)
\* Of an ended reply: all came through, unless a cut fell in a tag.
Told(recv, hs, os, cut) == Done(hs) /\ (cut = FALSE => Comes(recv, hs, os))

\* The texts of a reply: while it streams, what the splitter, the handler and the
\* history have agree with what arrived; once it ended, they have all of it.
TextInv ==
  /\ text \in Letters /\ read \in 0 .. Len(text) /\ ordered \in Seq(OrderedSet)
  /\ cutTag \in BOOLEAN
  /\ reply = "ended" => Told(Received, h, ordered, cutTag)
  /\ reply # "ended" => Telling(Received, buffer, inside, h, ordered, cutTag)

\* The calls of a reply: each has its own fragments in order, and those of an
\* Anthropic reply are yielded as soon as they are whole.
CallsInv ==
  /\ wanted \subseteq Call /\ gateway \in {"modal", "anthropic"}
  /\ ArgsOk(args, order) /\ Range(order) \subseteq wanted
  /\ gateway = "modal" /\ reply # "ended" => calls = <<>>
  /\ gateway = "anthropic" => YieldsAll(calls, args)
  /\ CallsWhole

\* The invariant of a reply.
StreamInv == TextInv /\ CallsInv

(***************************************************************************)
(* The invariant is as strong as what is promised.                         *)
(***************************************************************************)
LEMMA ComesThrough ==
  ASSUME StreamInv
  PROVE  ReplyComesThrough
<1>1. TextInv /\ CallsWhole
  BY DEF StreamInv, CallsInv
<1>2. cutTag \in BOOLEAN
  BY <1>1 DEF TextInv
<1>3. CASE reply = "ended"
  <2>1. Done(h) /\ (cutTag = FALSE => Comes(Received, h, ordered))
    BY <1>1, <1>3 DEF TextInv, Told
  <2>2. SplitAsWhole
    BY <1>2, <2>1 DEF SplitAsWhole, Comes, Con, Thk
  <2>3. HistoryReplays
    BY <1>2, <2>1 DEF HistoryReplays, Comes, Con, Thk
  <2>4. Heard(h) /\ Alternate(h.files) /\ Len(h.files) % 2 = 0
    BY <2>1 DEF Done
  <2>5. SpokenOnce
    BY <1>3, <2>4 DEF SpokenOnce, Heard
  <2>6. FilesClosed
    BY <2>4 DEF FilesClosed, Alternate
  <2> QED BY <1>1, <2>2, <2>3, <2>5, <2>6 DEF ReplyComesThrough
<1>4. CASE reply # "ended"
  <2>1. Handled(h)
    BY <1>1, <1>4 DEF TextInv, Telling
  <2>2. SplitAsWhole /\ HistoryReplays
    BY <1>4 DEF SplitAsWhole, HistoryReplays
  <2>3. SaidInOrder(h) /\ Filed(h) /\ h \in HandlerSet
    BY <2>1 DEF Handled
  <2>4. SpokenOnce
    <3>1. Says(FlattenSeq(h.said), h.buf, h.held, h.content) /\ AllPlain(h.said)
      BY <2>3 DEF SaidInOrder
    <3> DEFINE f == FlattenSeq(h.said)
    <3>2. f \in Letters
      <4>1. h.said \in Seq(Letters)
        BY <2>3, HandlerFields
      <4> QED BY <4>1, NoText, OneMore
    <3> HIDE DEF f
    <3>3. Says(f, h.buf, h.held, h.content)
      BY <3>1 DEF f
    <3>4. InOrder(f, h.content)
      <4>1. h.buf \in Letters /\ h.held \in Letters /\ h.content \in Letters
        BY <2>3, HandlerFields
      <4> QED BY <3>2, <3>3, <4>1, SaysInOrder
    <3>5. \A n \in DOMAIN h.said : ~looksStructured(h.said[n])
      BY <3>1 DEF AllPlain
    <3> QED BY <3>4, <3>5 DEF SpokenOnce, f
  <2>5. FilesClosed
    BY <1>4, <2>3 DEF FilesClosed, Filed, Alternate
  <2> QED BY <1>1, <2>2, <2>4, <2>5 DEF ReplyComesThrough
<1> QED BY <1>3, <1>4
(***************************************************************************)
(* What arrived, and the next delta.                                       *)
(***************************************************************************)
LEMMA UptoMore ==
  ASSUME NEW s \in Letters, NEW m \in 0 .. Len(s), NEW n \in 1 .. Len(s), m + n <= Len(s)
  PROVE  /\ SubSeq(s, m + 1, m + n) \in Letters /\ m + n \in 0 .. Len(s)
         /\ Upto(s, m + n) = Cat(Upto(s, m), SubSeq(s, m + 1, m + n))
<1> DEFINE k == m + n
           u == Upto(s, k)
           d == SubSeq(s, m + 1, k)
<1>0. Len(s) \in Nat /\ m \in Nat /\ n \in Nat /\ k \in 0 .. Len(s) /\ m \in 0 .. k
  BY LenProperties DEF Letters
<1>1. u \in Letters /\ Len(u) = k /\ \A i \in 1 .. k : u[i] = s[i]
  BY <1>0, UptoIs DEF Letters
<1>2. d \in Letters /\ Len(d) = n /\ \A i \in 1 .. n : d[i] = s[m + i]
  <2>1. m + 1 \in 1 .. Len(s) + 1 /\ k \in m .. Len(s)
    BY <1>0
  <2>2. d \in Letters
    BY <1>0, <2>1, SubSeqProperties DEF Letters
  <2>3. Len(d) = n
    BY <1>0, <2>1, SubSeqProperties DEF Letters
  <2>4. \A i \in 1 .. n : d[i] = s[m + i]
    <3>1. ASSUME NEW i \in 1 .. n PROVE d[i] = s[m + i]
      <4>1. i \in 1 .. Len(d)
        BY <2>3
      <4>2. d[i] = s[(m + 1) + i - 1]
        BY <1>0, <2>1, <2>3, SubSeqProperties DEF Letters
      <4>3. (m + 1) + i - 1 = m + i
        BY <1>0
      <4> QED BY <4>2, <4>3
    <3> QED BY <3>1
  <2> QED BY <2>2, <2>3, <2>4
<1> DEFINE v == Upto(s, m)
           w == Cat(v, d)
<1>3. v \in Letters /\ Len(v) = m /\ \A i \in 1 .. m : v[i] = s[i]
  BY UptoIs DEF Letters
<1> HIDE DEF d, v
<1>4. /\ w \in Letters /\ Len(w) = m + n
      /\ (\A i \in 1 .. m : w[i] = v[i]) /\ (\A i \in 1 .. n : w[m + i] = d[i])
  BY <1>2, <1>3, CatTyped, CatAt
<1> HIDE DEF u, w
<1>5. \A i \in 1 .. k : u[i] = w[i]
  <2>1. ASSUME NEW i \in 1 .. k PROVE u[i] = w[i]
    <3>1. CASE i \in 1 .. m
      BY <1>1, <1>3, <1>4, <3>1
    <3>2. CASE i \notin 1 .. m
      <4> DEFINE j == i - m
      <4>1. j \in 1 .. n /\ i = m + j
        BY <1>0, <3>2
      <4> HIDE DEF j
      <4>2. w[m + j] = d[j] /\ d[j] = s[m + j]
        BY <1>2, <1>4, <4>1
      <4> QED BY <1>1, <4>1, <4>2
    <3> QED BY <3>1, <3>2
  <2> QED BY <2>1
<1>6. u = w
  BY <1>1, <1>4, <1>5, SeqEqual DEF Letters
<1> QED BY <1>0, <1>2, <1>6 DEF u, v, w, d

(***************************************************************************)
(* The start of a reply.                                                   *)
(***************************************************************************)
LEMMA QuietlyHandled == Handled(Quietly) /\ Quietly.content = <<>>
<1> DEFINE e == <<>>
           qs == Quietly
<1>1. e \in Letters /\ Cat(e, e) = e
  BY NoText, CatNone
<1>2. /\ qs.content = e /\ qs.held = e /\ qs.buf = e /\ qs.emitting = FALSE
      /\ qs.suppressed = FALSE /\ qs.said = <<>> /\ qs.thoughts = <<>>
      /\ qs.named = 0 /\ qs.writing = e /\ qs.files = <<>>
  BY DEF Quietly
<1>3. qs \in HandlerSet
  <2>1. <<>> \in Seq(Letters) /\ <<>> \in Seq(FileSet)
    OBVIOUS
  <2> HIDE DEF e
  <2>2. e \in Letters /\ e = <<>>
    BY <1>1 DEF e
  <2> QED BY <2>1, <2>2 DEF Quietly, HandlerSet
<1>4. Says(e, e, e, e)
  <2>1. Within(e, e)
    BY <1>1, WithinSelf
  <2> HIDE DEF e
  <2> QED BY <1>1, <2>1 DEF Says
<1>5. FlattenSeq(<<>>) = <<>>
  BY <1>1, FlattenOne DEF Letters
<1>6. SaidInOrder(qs)
  <2>1. Says(FlattenSeq(qs.said), qs.buf, qs.held, qs.content)
    BY <1>2, <1>4, <1>5
  <2>2. AllPlain(qs.said)
    BY <1>2 DEF AllPlain
  <2>3. Len(qs.held) \in {0, 3}
    BY <1>2
  <2> QED BY <2>1, <2>2, <2>3 DEF SaidInOrder
<1>7. Plain(qs)
  BY <1>2, NoneIsPlain DEF Plain
<1>8. Filed(qs)
  <2>1. Alternate(qs.files)
    BY <1>2 DEF Alternate
  <2>2. Len(qs.files) % 2 = 0
    <3>1. Len(qs.files) = 0
      BY <1>2
    <3>2. 0 % 2 = 0
      OBVIOUS
    <3> QED BY <3>1, <3>2
  <2> QED BY <1>2, <2>1, <2>2 DEF Filed
<1> QED BY <1>2, <1>3, <1>6, <1>7, <1>8 DEF Handled

(***************************************************************************)
(* Before anything arrived, nothing is held and all is told apart.         *)
(***************************************************************************)
LEMMA NothingAwaits ==
  /\ Awaits(<<>>, <<>>, FALSE)
  /\ FromTags(<<>>) = <<>> /\ historyText(<<>>) = <<>> /\ <<>> \in Seq(OrderedSet)
  /\ ToldApart(<<>>, <<>>, <<>>, <<>>, <<>>, FALSE)
<1> DEFINE e == <<>>
           no == FALSE
<1>0. e \in Letters /\ Len(e) = 0 /\ Cat(e, e) = e /\ no \in BOOLEAN
  BY NoText, CatNone
<1>1. Waiting(e, no)
  <2> HIDE DEF e, no
  <2>1. ASSUME NEW i, NEW j, Tag(e, no, i, j) PROVE FALSE
    <3>1. i \in 1 .. Len(e)
      BY <1>0, <2>1, TagWithin
    <3> QED BY <3>1, <1>0
  <2>2. KeptOf(e, no) \in 0 .. Len(e)
    BY <1>0, KeptIs
  <2> DEFINE k == KeptOf(e, no)
  <2>3. k \in 0 .. 0
    BY <1>0, <2>2
  <2> HIDE DEF k
  <2>4. k = 0
    BY <2>3
  <2> QED BY <2>1, <2>4 DEF Waiting, NoTag, k
<1>2. EndsIn(e, e)
  <2> HIDE DEF e
  <2> QED BY <1>0 DEF EndsIn
<1>3. Awaits(e, e, no)
  <2> HIDE DEF e, no
  <2> QED BY <1>0, <1>1, <1>2 DEF Awaits
<1>4. FromTags(<<>>) = <<>> /\ historyText(<<>>) = <<>>
  <2>1. Mapped(FromTag, <<>>) = <<>> /\ Mapped(Replay, <<>>) = <<>>
    BY DEF Mapped
  <2>2. FlattenSeq(<<>>) = <<>>
    BY <1>0, FlattenOne DEF Letters
  <2>3. <<>> \in Seq(OrderedSet)
    OBVIOUS
  <2>4. FromTags(<<>>) = FlattenSeq(Mapped(FromTag, <<>>))
        /\ historyText(<<>>) = FlattenSeq(Mapped(Replay, <<>>))
    BY <2>3, OrderedIs
  <2> QED BY <2>1, <2>2, <2>4
<1>5. ~CutInTag(e)
  <2> HIDE DEF e
  <2>1. ASSUME NEW i, Opens(e, i) \/ ClosesName(e, i) PROVE FALSE
    BY <1>0, <2>1 DEF Opens, ClosesName
  <2> QED BY <1>0, <2>1, CutIs
<1>6. InStep(e, e, e, e, no)
  <2>1. ASSUME NEW v \in Letters PROVE Same(Split(Cat(e, v), FALSE), e, e, Split(Cat(e, v), FALSE))
    <3>1. Same(Split(Cat(e, v), FALSE), e, e, Split(v, FALSE))
      BY <2>1, NothingSettles DEF Settled
    <3>2. Cat(e, v) = v
      BY CatNone
    <3> QED BY <3>1, <3>2
  <2> QED BY <2>1 DEF InStep
<1>7. Faithful(e, e, e, e, e, no)
  <2>1. Settled(e, e, e)
    BY NothingSettles
  <2> HIDE DEF e, no
  <2>2. Faithful(e, e, e, Cat(e, e), e, no)
    BY <1>0, <2>1, Afresh
  <2> QED BY <1>0, <2>2
<1>8. ToldApart(e, e, e, e, e, no)
  <2> HIDE DEF e, no
  <2> QED BY <1>0, <1>5, <1>6, <1>7 DEF ToldApart
<1>9. <<>> \in Seq(OrderedSet)
  OBVIOUS
<1> QED BY <1>3, <1>4, <1>8, <1>9
\* The behaviours of one reply.
StreamSpec(on) == StreamStart(on) /\ [][StreamNext]_streamVars

(***************************************************************************)
(* A reply starts with nothing said and nothing called.                    *)
(***************************************************************************)
LEMMA StreamBegins ==
  ASSUME NEW on \in BOOLEAN, StreamStart(on)
  PROVE  StreamInv
<1>1. /\ gateway \in {"modal", "anthropic"} /\ read = 0 /\ buffer = <<>> /\ inside = FALSE
      /\ ordered = <<>> /\ h = Quietly /\ args = [i \in Call |-> <<>>] /\ order = <<>>
      /\ calls = <<>> /\ cutTag = FALSE /\ reply \in {"streaming", "idle"}
  BY DEF StreamStart
<1>2. text \in Letters /\ wanted \subseteq Call
  <2>1. PICK a \in IF on THEN Answer ELSE {[text |-> <<>>, calls |-> {}]} :
          text = a.text /\ wanted = a.calls
    BY DEF StreamStart
  <2>2. CASE on
    <3>1. a \in Answer
      BY <2>1, <2>2
    <3> QED BY <2>1, <3>1, StreamAssumption
  <2>3. CASE ~on
    <3>1. a = [text |-> <<>>, calls |-> {}]
      BY <2>1, <2>3
    <3> QED BY <2>1, <3>1, NoText
  <2> QED BY <2>2, <2>3
<1>3. TextInv
  <2>1. Received = <<>> /\ read \in 0 .. Len(text)
    <3>1. Upto(text, 0) = <<>>
      BY <1>2, WholeAndNone DEF Letters
    <3>2. Len(text) \in Nat
      BY <1>2, LenProperties DEF Letters
    <3> QED BY <1>1, <3>1, <3>2 DEF Received
  <2>2. Telling(<<>>, <<>>, FALSE, Quietly, <<>>, FALSE)
    BY QuietlyHandled, NothingAwaits DEF Telling
  <2>3. Telling(Received, buffer, inside, h, ordered, cutTag)
    BY <1>1, <2>1, <2>2
  <2>4. ordered \in Seq(OrderedSet) /\ cutTag \in BOOLEAN /\ reply # "ended"
    BY <1>1, NothingAwaits
  <2> QED BY <1>2, <2>1, <2>3, <2>4 DEF TextInv
<1>4. CallsInv
  <2>1. \A i \in Call : args[i] = <<>>
    BY <1>1
  <2>2. Range(order) = {}
    BY <1>1 DEF Range
  <2>3. \A i \in Call : args[i] = ArgsUpto(i, 0)
    BY <2>1, ArgsNext
  <2>4. ArgLen \in Nat \ {0} /\ 0 \in 0 .. ArgLen
    BY StreamAssumption
  <2>5. args \in [Call -> Fragments] /\ order \in Seq(Call)
    <3>1. <<>> \in Fragments
      BY DEF Fragments
    <3> QED BY <1>1, <3>1
  <2>6. ArgsOk(args, order)
    BY <2>1, <2>2, <2>3, <2>4, <2>5 DEF ArgsOk
  <2>7. YieldsAll(calls, args)
    <3>1. calls \in Seq(Call \X Fragments) /\ DOMAIN calls = {}
      BY <1>1
    <3>2. \A i \in Call : Len(args[i]) # ArgLen
      <4>1. Len(<<>>) = 0
        OBVIOUS
      <4> QED BY <2>1, <2>4, <4>1
    <3> QED BY <3>1, <3>2 DEF YieldsAll
  <2>8. CallsWhole
    BY <1>1 DEF CallsWhole
  <2> QED BY <1>1, <1>2, <2>2, <2>6, <2>7, <2>8 DEF CallsInv
<1> QED BY <1>3, <1>4 DEF StreamInv

(***************************************************************************)
(* The texts keep while only calls arrive, the calls while only texts do.  *)
(***************************************************************************)
LEMMA TextKeeps ==
  ASSUME TextInv, reply = "streaming", reply' # "ended",
         UNCHANGED <<text, read, ordered, cutTag, h, buffer, inside>>
  PROVE  TextInv'
BY DEF TextInv, Received

(***************************************************************************)
(* So do the calls while only texts arrive.                                *)
(***************************************************************************)
LEMMA CallsKeep ==
  ASSUME CallsInv, reply = "streaming", reply' # "ended",
         UNCHANGED <<wanted, gateway, args, order, calls>>
  PROVE  CallsInv'
BY DEF CallsInv, CallsWhole

(***************************************************************************)
(* A delta of content.                                                     *)
(***************************************************************************)
LEMMA ContentKeeps ==
  ASSUME StreamInv, NEW n \in 1 .. Len(text), Content(n)
  PROVE  StreamInv'
<1>1. /\ reply = "streaming" /\ reply' = "streaming"
      /\ read + n = Len(text) \/ (read + n < Len(text) /\ cuts < MaxCuts)
      /\ read' = read + n /\ text' = text
      /\ UNCHANGED <<wanted, gateway, args, order, calls>>
  BY DEF Content, tools
<1>2. TextInv /\ CallsInv
  BY DEF StreamInv
<1>3. /\ text \in Letters /\ read \in 0 .. Len(text) /\ ordered \in Seq(OrderedSet)
      /\ cutTag \in BOOLEAN /\ Telling(Received, buffer, inside, h, ordered, cutTag)
  BY <1>1, <1>2 DEF TextInv
<1> DEFINE d == SubSeq(text, read + 1, read + n)
           rd == Cat(Received, d)
           s == Split(Cat(buffer, d), inside)
           hd == processPieces(h, s.pieces)
           od == Cat(ordered, Tracked(s.pieces, "tags"))
           ct == cutTag \/ CutInTag(Upto(text, read + n))
<1>4. d \in Letters /\ read + n \in 0 .. Len(text) /\ Upto(text, read + n) = rd
  <2>1. read + n <= Len(text)
    <3>1. Len(text) \in Nat /\ read \in Nat /\ n \in Nat
      BY <1>3, LenProperties DEF Letters
    <3> QED BY <1>1, <3>1
  <2> QED BY <1>3, <2>1, UptoMore DEF Received
<1>5. /\ buffer' = s.buffer /\ inside' = s.inside /\ ordered' = od /\ h' = hd
      /\ cutTag' = ct
  BY DEF Content, Cat
<1>6. Received' = rd
  BY <1>1, <1>4 DEF Received
<1> HIDE DEF d
<1>7. Awaits(Received, buffer, inside) /\ Handled(h)
      /\ (cutTag = FALSE => ToldApart(Received, h.content, FromTags(ordered), historyText(ordered),
                                      buffer, inside))
  BY <1>3 DEF Telling
<1>8. /\ Awaits(rd, s.buffer, s.inside) /\ Handled(hd) /\ od \in Seq(OrderedSet)
      /\ ToldApart(Received, h.content, FromTags(ordered), historyText(ordered), buffer, inside)
           /\ ~CutInTag(rd)
         => ToldApart(rd, hd.content, FromTags(od), historyText(od), s.buffer, s.inside)
  BY <1>3, <1>4, <1>7, DeltaComes
<1>9. ct \in BOOLEAN /\ (ct = FALSE => cutTag = FALSE /\ ~CutInTag(rd))
  BY <1>3, <1>4
<1> HIDE DEF s, hd, od, ct
<1>10. Telling(rd, s.buffer, s.inside, hd, od, ct)
  BY <1>7, <1>8, <1>9 DEF Telling
<1>11. Telling(Received', buffer', inside', h', ordered', cutTag')
  BY <1>5, <1>6, <1>10
<1>12. TextInv'
  BY <1>1, <1>3, <1>4, <1>5, <1>8, <1>9, <1>11 DEF TextInv
<1>13. CallsInv'
  BY <1>1, <1>2, CallsKeep
<1> QED BY <1>12, <1>13 DEF StreamInv

(***************************************************************************)
(* A delta of the reasoning field.                                         *)
(***************************************************************************)
LEMMA ReasoningKeeps ==
  ASSUME StreamInv, Reasoning
  PROVE  StreamInv'
<1>1. /\ reply = "streaming" /\ reply' = "streaming"
      /\ UNCHANGED <<text, read, cutTag, buffer, inside, wanted, gateway, args, order, calls>>
      /\ ordered' = Cat(ordered, Tracked(FieldThought, "field"))
      /\ h' = processPieces(h, FieldThought)
  BY DEF Reasoning, wire, tools, Cat, FieldThought
<1>2. TextInv /\ CallsInv
  BY DEF StreamInv
<1>3. /\ text \in Letters /\ read \in 0 .. Len(text) /\ ordered \in Seq(OrderedSet)
      /\ cutTag \in BOOLEAN /\ Telling(Received, buffer, inside, h, ordered, cutTag)
  BY <1>1, <1>2 DEF TextInv
<1>4. Awaits(Received, buffer, inside) /\ Handled(h)
      /\ (cutTag = FALSE => ToldApart(Received, h.content, FromTags(ordered), historyText(ordered),
                                      buffer, inside))
  BY <1>3 DEF Telling
<1> DEFINE hd == processPieces(h, FieldThought)
           tr == Tracked(FieldThought, "field")
           od == Cat(ordered, tr)
<1>5. Handled(hd) /\ hd.content = h.content
  <2>1. h \in HandlerSet
    BY <1>4 DEF Handled
  <2>2. Handled(hd) /\ hd.content = Cat(h.content, Con(FieldThought))
    BY <1>4, <2>1, FieldSilent, PiecesHandled
  <2>3. h.content \in Letters
    BY <2>1, HandlerFields
  <2> HIDE DEF hd
  <2> QED BY <2>2, <2>3, FieldSilent, CatNone
<1>6. od \in Seq(OrderedSet) /\ FromTags(od) = FromTags(ordered)
      /\ historyText(od) = historyText(ordered)
  <2>1. tr \in Seq(OrderedSet) /\ FromTags(tr) = <<>> /\ historyText(tr) = <<>>
    BY FieldSilent
  <2> HIDE DEF tr
  <2>2. /\ od \in Seq(OrderedSet) /\ FromTags(ordered) \in Letters /\ historyText(ordered) \in Letters
        /\ FromTags(od) = Cat(FromTags(ordered), <<>>)
        /\ historyText(od) = Cat(historyText(ordered), <<>>)
    BY <1>3, <2>1, OrderedJoined
  <2> HIDE DEF od
  <2> QED BY <2>2, CatNone
<1>7. h' = hd /\ ordered' = od
  BY <1>1
<1>8. Received' = Received
  BY <1>1 DEF Received
<1> HIDE DEF hd, od
<1>9. Telling(Received, buffer, inside, hd, od, cutTag)
  BY <1>4, <1>5, <1>6 DEF Telling
<1>10. Telling(Received', buffer', inside', h', ordered', cutTag')
  BY <1>1, <1>7, <1>8, <1>9
<1>11. TextInv'
  BY <1>1, <1>3, <1>6, <1>7, <1>10 DEF TextInv
<1>12. CallsInv'
  BY <1>1, <1>2, CallsKeep
<1> QED BY <1>11, <1>12 DEF StreamInv
(***************************************************************************)
(* A fragment of a call, and a broken connection.                          *)
(***************************************************************************)
LEMMA FragmentKeeps ==
  ASSUME StreamInv, NEW i \in Call, Fragment(i)
  PROVE  StreamInv'
<1>1. /\ reply = "streaming" /\ reply' = reply /\ i \in wanted /\ Len(args[i]) < ArgLen
      /\ UNCHANGED <<text, read, ordered, cutTag, h, buffer, inside, gateway, wanted>>
  BY DEF Fragment, wire, split
<1>2. TextInv /\ CallsInv
  BY DEF StreamInv
<1>3. /\ wanted \subseteq Call /\ gateway \in {"modal", "anthropic"}
      /\ ArgsOk(args, order) /\ Range(order) \subseteq wanted
      /\ gateway = "modal" => calls = <<>>
      /\ gateway = "anthropic" => YieldsAll(calls, args)
  BY <1>1, <1>2 DEF CallsInv
<1> DEFINE as == [args EXCEPT ![i] = Append(@, <<i, Len(@) + 1>>)]
           os == IF i \in Range(order) THEN order ELSE Append(order, i)
           cs == IF Len(args[i]) = ArgLen - 1 THEN Append(calls, <<i, as[i]>>) ELSE calls
<1>4. /\ args' = as /\ order' = os
      /\ calls' = IF gateway = "anthropic" THEN cs ELSE calls
  BY DEF Fragment, Buffered
<1>5. /\ ArgsOk(as, os) /\ as[i] = ArgsUpto(i, Len(args[i]) + 1)
      /\ Len(as[i]) = Len(args[i]) + 1 /\ Len(args[i]) \in Nat
      /\ \A j \in Call \ {i} : as[j] = args[j]
  BY <1>1, <1>3, ArgsGrow
<1>6. Range(os) \subseteq wanted
  <2>1. order \in Seq(Call)
    BY <1>3 DEF ArgsOk
  <2> QED BY <1>1, <1>3, <2>1, RangeNext
<1> HIDE DEF as, os
<1>7. gateway = "anthropic" => YieldsAll(cs, as)
  <2>1. as[i] \in Fragments
    BY <1>5 DEF ArgsOk
  <2> QED BY <1>1, <1>3, <1>5, <2>1, CallYielded
<1> HIDE DEF cs
<1>8. CallsWhole'
  BY <1>1 DEF CallsWhole
<1>9. CallsInv'
  BY <1>1, <1>3, <1>4, <1>5, <1>6, <1>7, <1>8 DEF CallsInv
<1>10. TextInv'
  BY <1>1, <1>2, TextKeeps
<1> QED BY <1>9, <1>10 DEF StreamInv

(***************************************************************************)
(* A connection that breaks.                                               *)
(***************************************************************************)
LEMMA BrokenKeeps ==
  ASSUME StreamInv, Broken
  PROVE  StreamInv'
<1>1. /\ reply = "streaming" /\ reply' # "ended"
      /\ UNCHANGED <<text, read, ordered, cutTag, h, buffer, inside, gateway, wanted, args, order, calls>>
  BY DEF Broken, wire, split, tools
<1>2. TextInv /\ CallsInv
  BY DEF StreamInv
<1> QED BY <1>1, <1>2, TextKeeps, CallsKeep DEF StreamInv

(***************************************************************************)
(* The end of the body, for the texts.                                     *)
(***************************************************************************)
LEMMA EndKeepsText ==
  ASSUME StreamInv, NEW finish, EndOf(finish), reply = "streaming"
  PROVE  TextInv'
<1>1. /\ reply' = "ended" /\ UNCHANGED <<text, read, cutTag>>
  BY DEF EndOf
<1>2. /\ text \in Letters /\ read \in 0 .. Len(text) /\ ordered \in Seq(OrderedSet)
      /\ cutTag \in BOOLEAN /\ Telling(Received, buffer, inside, h, ordered, cutTag)
  BY DEF StreamInv, TextInv
<1>3. Awaits(Received, buffer, inside) /\ Handled(h)
      /\ (cutTag = FALSE => ToldApart(Received, h.content, FromTags(ordered), historyText(ordered),
                                      buffer, inside))
  BY <1>2 DEF Telling
<1>4. buffer \in Letters /\ inside \in BOOLEAN
  BY <1>3 DEF Awaits
<1> DEFINE r  == Rest(buffer, inside)
           hd == CloseFile(flushProse(processPieces(h, r)))
           od == Cat(ordered, Tracked(r, "tags"))
<1>5. h' = hd /\ ordered' = od
  BY DEF EndOf, Cat
<1>6. /\ Done(hd) /\ od \in Seq(OrderedSet)
      /\ EndsAs(Received, h.content, FromTags(ordered), historyText(ordered), buffer, inside)
           => Comes(Received, hd, od)
  BY <1>2, <1>3, <1>4, EndComes
<1>7. ToldApart(Received, h.content, FromTags(ordered), historyText(ordered), buffer, inside)
        => EndsAs(Received, h.content, FromTags(ordered), historyText(ordered), buffer, inside)
  BY <1>3, ToldApartEnds DEF EndsAs
<1> HIDE DEF hd, od
<1>8. Told(Received, hd, od, cutTag)
  BY <1>3, <1>6, <1>7 DEF Told
<1>9. Received' = Received
  BY <1>1 DEF Received
<1>10. Told(Received', h', ordered', cutTag')
  BY <1>1, <1>5, <1>8, <1>9
<1> QED BY <1>1, <1>2, <1>5, <1>6, <1>10 DEF TextInv

(***************************************************************************)
(* The end of the body, for the calls.                                     *)
(***************************************************************************)
LEMMA EndKeepsCalls ==
  ASSUME StreamInv, NEW finish, EndOf(finish), reply = "streaming", CallsWhole'
  PROVE  CallsInv'
<1>1. /\ reply' = "ended" /\ UNCHANGED <<wanted, gateway, args, order>> /\ calls' = Yielded
  BY DEF EndOf
<1>2. /\ wanted \subseteq Call /\ gateway \in {"modal", "anthropic"}
      /\ ArgsOk(args, order) /\ Range(order) \subseteq wanted
      /\ gateway = "anthropic" => YieldsAll(calls, args)
  BY DEF StreamInv, CallsInv
<1>3. gateway = "anthropic" => calls' = calls
  BY <1>1 DEF Yielded
<1> QED BY <1>1, <1>2, <1>3 DEF CallsInv

(***************************************************************************)
(* The end of a whole reply: every call has all its fragments.             *)
(***************************************************************************)
LEMMA EndedKeeps ==
  ASSUME StreamInv, NEW finish \in {"stop", "length", "tool_calls"}, Ended(finish)
  PROVE  StreamInv'
<1>1. /\ reply = "streaming" /\ EndOf(finish)
      /\ \A i \in wanted : Len(args[i]) = ArgLen
      /\ gateway = "anthropic" => (finish = "tool_calls" <=> calls # <<>>)
      /\ gateway = "modal" /\ finish = "tool_calls" => order # <<>>
  BY DEF Ended
<1>2. /\ calls' = Yielded /\ order' = order
      /\ stopReason' = IF gateway = "modal" /\ Yielded # <<>> THEN "tool_use"
                       ELSE toAnthropicStopReason(finish)
  BY <1>1 DEF EndOf
<1>3. /\ wanted \subseteq Call /\ gateway \in {"modal", "anthropic"}
      /\ ArgsOk(args, order) /\ Range(order) \subseteq wanted
      /\ gateway = "anthropic" => YieldsAll(calls, args)
  BY DEF StreamInv, CallsInv
<1>4. /\ order \in Seq(Call)
      /\ \A i \in Call : \E n \in 0 .. ArgLen : args[i] = ArgsUpto(i, n)
      /\ \A i \in Call : i \in Range(order) <=> args[i] # <<>>
  BY <1>3 DEF ArgsOk
<1>5. ArgLen \in Nat \ {0}
  BY StreamAssumption
<1>6. ASSUME NEW i \in Call, Len(args[i]) = ArgLen
      PROVE  args[i] = ArgsUpto(i, ArgLen) /\ args[i] # <<>>
  <2>1. PICK n \in 0 .. ArgLen : args[i] = ArgsUpto(i, n)
    BY <1>4
  <2>2. n \in Nat
    BY <1>5
  <2>3. Len(ArgsUpto(i, n)) = n /\ (ArgsUpto(i, n) = <<>> <=> n = 0)
    BY <2>2, ArgsNext
  <2> QED BY <1>5, <1>6, <2>1, <2>3
<1>7. finish = "tool_calls" <=> toAnthropicStopReason(finish) = "tool_use"
  BY DEF toAnthropicStopReason
<1>8. CASE gateway = "modal"
  <2> DEFINE ys == [n \in DOMAIN order |-> <<order[n], args[order[n]]>>]
  <2>1. calls' = ys
    BY <1>2, <1>8 DEF Yielded
  <2>2. DOMAIN ys = DOMAIN order /\ \A n \in DOMAIN order : ys[n][1] = order[n] /\ ys[n][2] = args[order[n]]
    OBVIOUS
  <2>3. ASSUME NEW n \in DOMAIN order PROVE args[order[n]] = ArgsUpto(order[n], ArgLen)
    <3>1. order[n] \in wanted
      BY <1>3 DEF Range
    <3> QED BY <1>1, <1>3, <1>6, <3>1
  <2>4. ys = <<>> <=> order = <<>>
    <3>1. Len(order) \in Nat /\ DOMAIN order = 1 .. Len(order)
      BY <1>4, LenProperties
    <3>2. ys \in Seq(Call \X Fragments) /\ Len(ys) = Len(order)
      <4>1. \A n \in 1 .. Len(order) : ys[n] \in Call \X Fragments
        <5>1. args \in [Call -> Fragments]
          BY <1>3 DEF ArgsOk
        <5> QED BY <1>4, <3>1, <5>1, ElementOfSeq
      <4>2. ys \in [1 .. Len(order) -> Call \X Fragments]
        BY <3>1, <4>1
      <4> HIDE DEF ys
      <4> QED BY <3>1, <4>2
    <3> HIDE DEF ys
    <3> QED BY <1>4, <3>2, EmptySeq
  <2>5. {ys[n][1] : n \in DOMAIN ys} = Range(order)
    BY <2>2 DEF Range
  <2> HIDE DEF ys
  <2>6. stopReason' = "tool_use" <=> ys # <<>>
    <3>1. Yielded = ys
      BY <1>2, <2>1
    <3> QED BY <1>1, <1>2, <1>7, <1>8, <2>4, <3>1
  <2>7. CallsWhole'
    BY <1>2, <2>1, <2>2, <2>3, <2>5, <2>6 DEF CallsWhole, ArgsUpto
  <2> QED BY <1>1, <2>7, EndKeepsText, EndKeepsCalls DEF StreamInv
<1>9. CASE gateway = "anthropic"
  <2>1. Yielded = calls /\ calls' = calls
    BY <1>2, <1>9 DEF Yielded
  <2>2. stopReason' = "tool_use" <=> calls # <<>>
    BY <1>1, <1>2, <1>7, <1>9
  <2>3. /\ calls \in Seq(Call \X Fragments)
        /\ \A n \in DOMAIN calls : Len(args[calls[n][1]]) = ArgLen /\ calls[n][2] = ArgsUpto(calls[n][1], ArgLen)
        /\ \A i \in Call : Len(args[i]) = ArgLen => \E n \in DOMAIN calls : calls[n][1] = i
    BY <1>3, <1>9 DEF YieldsAll
  <2>4. {calls[n][1] : n \in DOMAIN calls} = Range(order)
    <3>1. ASSUME NEW n \in DOMAIN calls PROVE calls[n][1] \in Range(order)
      <4>1. calls[n][1] \in Call
        <5>1. calls[n] \in Call \X Fragments
          BY <2>3, ElementOfSeq, LenProperties
        <5> QED BY <5>1
      <4>2. args[calls[n][1]] # <<>>
        BY <1>6, <2>3, <4>1
      <4> QED BY <1>4, <4>1, <4>2
    <3>2. ASSUME NEW i \in Range(order) PROVE \E n \in DOMAIN calls : calls[n][1] = i
      <4>1. i \in wanted /\ i \in Call
        BY <1>3
      <4> QED BY <1>1, <2>3, <4>1
    <3> QED BY <3>1, <3>2
  <2>5. CallsWhole'
    BY <1>2, <2>1, <2>2, <2>3, <2>4 DEF CallsWhole, ArgsUpto
  <2> QED BY <1>1, <2>5, EndKeepsText, EndKeepsCalls DEF StreamInv
<1> QED BY <1>3, <1>8, <1>9

(***************************************************************************)
(* The end of a body that was cut short: nothing is promised of its calls. *)
(***************************************************************************)
LEMMA EndedShortKeeps ==
  ASSUME StreamInv, NEW finish, EndedShort(finish)
  PROVE  StreamInv'
<1>1. reply = "streaming" /\ EndOf(finish) /\ cutShort' = TRUE
  BY DEF EndedShort
<1>2. CallsWhole'
  BY <1>1 DEF CallsWhole
<1> QED BY <1>1, <1>2, EndKeepsText, EndKeepsCalls DEF StreamInv
(***************************************************************************)
(* A reply that is not streamed.                                           *)
(***************************************************************************)
LEMMA WholeHeard ==
  ASSUME NEW x \in Letters
  PROVE  LET s  == Split(x, FALSE)
             hs == processPieces(processPieces(Quietly, s.pieces), FieldThought)
             os == Cat(Tracked(s.pieces, "tags"), Tracked(FieldThought, "field"))
             r  == Rest(s.buffer, s.inside)
             hd == CloseFile(flushProse(processPieces(hs, r)))
             od == Cat(os, Tracked(r, "tags"))
         IN  Done(hd) /\ od \in Seq(OrderedSet) /\ Comes(x, hd, od)
<1> DEFINE s  == Split(x, FALSE)
           p  == s.pieces
           h1 == processPieces(Quietly, p)
           hs == processPieces(h1, FieldThought)
           tp == Tracked(p, "tags")
           tf == Tracked(FieldThought, "field")
           os == Cat(tp, tf)
<1>1. /\ s \in FeedSet
      /\ EndsAs(x, Con(p), Thk(p), Rep(p), s.buffer, s.inside)
  BY WholeEnds
<1>2. p \in Seq(PieceSet) /\ s.buffer \in Letters /\ s.inside \in BOOLEAN
  <2> HIDE DEF s
  <2> QED BY <1>1 DEF FeedSet
<1> DEFINE b == s.buffer
           in == s.inside
<1> HIDE DEF s, p, b, in
<1>3. Con(p) \in Letters /\ FromTags(tp) = Thk(p) /\ historyText(tp) = Rep(p)
      /\ tp \in Seq(OrderedSet)
  BY <1>2, TextsOfSplit, TrackedIs, TrackedThinks DEF Rep
<1>4. Handled(h1) /\ h1.content = Con(p)
  <2>1. Quietly \in HandlerSet /\ Handled(Quietly) /\ Quietly.content = <<>>
    BY QuietlyHandled DEF Handled
  <2>2. Handled(h1) /\ h1.content = Cat(<<>>, Con(p))
    BY <1>2, <2>1, PiecesHandled
  <2> HIDE DEF h1
  <2> QED BY <1>3, <2>2, CatNone
<1> HIDE DEF h1
<1>5. Handled(hs) /\ hs.content = Con(p)
  <2>1. h1 \in HandlerSet
    BY <1>4 DEF Handled
  <2>2. Handled(hs) /\ hs.content = Cat(h1.content, Con(FieldThought))
    BY <1>4, <2>1, FieldSilent, PiecesHandled
  <2> HIDE DEF hs
  <2> QED BY <1>3, <1>4, <2>2, FieldSilent, CatNone
<1> HIDE DEF hs
<1>6. os \in Seq(OrderedSet) /\ FromTags(os) = Thk(p) /\ historyText(os) = Rep(p)
  <2>1. tf \in Seq(OrderedSet) /\ FromTags(tf) = <<>> /\ historyText(tf) = <<>>
    BY FieldSilent
  <2> HIDE DEF tf, tp
  <2>2. /\ os \in Seq(OrderedSet) /\ FromTags(tp) \in Letters /\ historyText(tp) \in Letters
        /\ FromTags(os) = Cat(FromTags(tp), <<>>) /\ historyText(os) = Cat(historyText(tp), <<>>)
    BY <1>3, <2>1, OrderedJoined
  <2> HIDE DEF os
  <2> QED BY <1>3, <2>2, CatNone
<1> HIDE DEF os
<1> DEFINE r  == Rest(b, in)
           hd == CloseFile(flushProse(processPieces(hs, r)))
           od == Cat(os, Tracked(r, "tags"))
<1>7. /\ Done(hd) /\ od \in Seq(OrderedSet)
      /\ EndsAs(x, hs.content, FromTags(os), historyText(os), b, in) => Comes(x, hd, od)
  <2>1. b \in Letters /\ in \in BOOLEAN
    BY <1>2 DEF b, in
  <2> QED BY <1>5, <1>6, <2>1, EndComes
<1>8. EndsAs(x, Con(p), Thk(p), Rep(p), b, in)
  BY <1>1 DEF b, in
<1>9. Done(hd) /\ od \in Seq(OrderedSet) /\ Comes(x, hd, od)
  BY <1>5, <1>6, <1>7, <1>8
<1> QED BY <1>9 DEF s, p, b, in, h1, hs, os

(***************************************************************************)
(* It has no calls: those of the reply are none.                           *)
(***************************************************************************)
LEMMA WholeKeeps ==
  ASSUME StreamInv, Whole
  PROVE  StreamInv'
<1>1. /\ gateway = "modal" /\ reply = "streaming" /\ wanted = {}
      /\ read' = Len(text) /\ reply' = "ended" /\ stopReason' = "end_turn"
      /\ UNCHANGED <<gateway, text, wanted, cutTag, args, order, calls>>
  BY DEF Whole, tools
<1>2. text \in Letters /\ cutTag \in BOOLEAN
  BY DEF StreamInv, TextInv
<1> DEFINE s  == Split(text, FALSE)
           hs == processPieces(processPieces(Quietly, s.pieces), FieldThought)
           os == Cat(Tracked(s.pieces, "tags"), Tracked(FieldThought, "field"))
           r  == Rest(s.buffer, s.inside)
           hd == CloseFile(flushProse(processPieces(hs, r)))
           od == Cat(os, Tracked(r, "tags"))
<1>3. h' = hd /\ ordered' = od
  BY DEF Whole, Cat, FieldThought
<1>4. Done(hd) /\ od \in Seq(OrderedSet) /\ Comes(text, hd, od)
  BY <1>2, WholeHeard
<1> HIDE DEF hd, od
<1>5. Received' = text /\ read' \in 0 .. Len(text)
  <2>1. Upto(text, Len(text)) = text /\ Len(text) \in Nat
    BY <1>2, WholeAndNone, LenProperties DEF Letters
  <2> QED BY <1>1, <2>1 DEF Received
<1>6. Told(Received', h', ordered', cutTag')
  BY <1>3, <1>4, <1>5 DEF Told
<1>7. TextInv'
  BY <1>1, <1>2, <1>3, <1>4, <1>5, <1>6 DEF TextInv
<1>8. CallsInv'
  <2>1. /\ wanted \subseteq Call /\ ArgsOk(args, order) /\ Range(order) \subseteq wanted
        /\ calls = <<>>
    BY <1>1 DEF StreamInv, CallsInv
  <2>2. Range(order) = {}
    BY <1>1, <2>1
  <2>3. CallsWhole'
    BY <1>1, <2>1, <2>2 DEF CallsWhole
  <2> QED BY <1>1, <2>1, <2>3 DEF CallsInv
<1> QED BY <1>7, <1>8 DEF StreamInv

(***************************************************************************)
(* Every step of a reply keeps its invariant.                              *)
(***************************************************************************)
LEMMA StreamStep ==
  ASSUME StreamInv, [StreamNext]_streamVars
  PROVE  StreamInv'
<1>1. ASSUME NEW n \in 1 .. Len(text), Content(n) PROVE StreamInv'
  BY <1>1, ContentKeeps
<1>2. CASE Reasoning
  BY <1>2, ReasoningKeeps
<1>3. CASE Broken
  BY <1>3, BrokenKeeps
<1>4. CASE Whole
  BY <1>4, WholeKeeps
<1>5. ASSUME NEW i \in Call, Fragment(i) PROVE StreamInv'
  BY <1>5, FragmentKeeps
<1>6. ASSUME NEW finish \in {"stop", "length", "tool_calls"}, Ended(finish) PROVE StreamInv'
  BY <1>6, EndedKeeps
<1>7. ASSUME NEW finish \in {"none", "length"}, EndedShort(finish) PROVE StreamInv'
  BY <1>7, EndedShortKeeps
<1>8. CASE UNCHANGED streamVars
  BY <1>8 DEF StreamInv, TextInv, CallsInv, CallsWhole, Received, streamVars, wire, split, tools
<1> QED BY <1>1, <1>2, <1>3, <1>4, <1>5, <1>6, <1>7, <1>8 DEF StreamNext

(***************************************************************************)
(* Whatever a model writes and however its provider cuts it up: thinking   *)
(* and answer are told apart as if the reply had come at once, the turn    *)
(* the next round replays reads as the turn the model wrote, the chat      *)
(* hears the prose in order and once, every file announced is announced    *)
(* as done, and the loop has the whole arguments of every call.            *)
(***************************************************************************)
THEOREM ReplyComesThroughAlways ==
  ASSUME NEW on \in BOOLEAN
  PROVE  StreamSpec(on) => []ReplyComesThrough
<1>1. StreamStart(on) => StreamInv
  BY StreamBegins
<1>2. StreamInv /\ [StreamNext]_streamVars => StreamInv'
  BY StreamStep
<1>3. StreamInv => ReplyComesThrough
  BY ComesThrough
<1> QED BY <1>1, <1>2, <1>3, PTL DEF StreamSpec

\* What the types of a reply rest on besides: one delta more than MaxCuts
\* is the last.
DeltasCounted ==
  /\ inside \in BOOLEAN /\ reply \in {"idle", "streaming", "ended", "failed"}
  /\ cuts \in 0 .. MaxCuts \/ (cuts = MaxCuts + 1 /\ read = Len(text))

(***************************************************************************)
(* The invariant and the count give the types.                             *)
(***************************************************************************)
LEMMA StreamTyped ==
  ASSUME StreamInv, DeltasCounted
  PROVE  StreamTypeOK
<1>1. MaxCuts \in Nat
  BY StreamAssumption
<1>2. h \in HandlerSet
  BY DEF StreamInv, TextInv, Told, Telling, Done, Heard, Handled
<1>3. h.emitting \in BOOLEAN /\ h.suppressed \in BOOLEAN
  BY <1>2 DEF HandlerSet
<1>4. cuts \in 0 .. MaxCuts + 1
  BY <1>1 DEF DeltasCounted
<1> QED BY <1>3, <1>4 DEF StreamTypeOK, StreamInv, TextInv, CallsInv, DeltasCounted

(***************************************************************************)
(* The steps count.                                                        *)
(***************************************************************************)
LEMMA DeltasStep ==
  ASSUME StreamInv, DeltasCounted, [StreamNext]_streamVars
  PROVE  DeltasCounted'
<1>1. StreamInv'
  BY StreamStep
<1>2. reply' # "ended" => inside' \in BOOLEAN
  BY <1>1 DEF StreamInv, TextInv, Telling, Awaits
<1>3. text \in Letters /\ read \in 0 .. Len(text) /\ MaxCuts \in Nat /\ Len(text) \in Nat
  BY StreamAssumption, LenProperties DEF StreamInv, TextInv, Letters
<1>4. ASSUME NEW n \in 1 .. Len(text), Content(n) PROVE DeltasCounted'
  <2>1. /\ reply' = "streaming" /\ text' = text /\ read' = read + n /\ cuts' = cuts + 1
        /\ read + n = Len(text) \/ (read + n < Len(text) /\ cuts < MaxCuts)
    BY <1>4 DEF Content
  <2>2. cuts \in 0 .. MaxCuts
    BY <1>3, <2>1 DEF DeltasCounted
  <2> QED BY <1>2, <1>3, <2>1, <2>2 DEF DeltasCounted
<1>5. CASE Reasoning \/ Broken \/ (\E i \in Call : Fragment(i)) \/ UNCHANGED streamVars
  BY <1>5 DEF DeltasCounted, Reasoning, Broken, Fragment, wire, split, streamVars
<1>6. CASE Whole
  <2>1. reply' = "ended" /\ read' = Len(text) /\ text' = text /\ cuts' = cuts
        /\ inside' = Split(text, FALSE).inside
    BY <1>6 DEF Whole
  <2>2. inside' \in BOOLEAN
    BY <1>3, <2>1, SplitTyped DEF FeedSet
  <2> QED BY <2>1, <2>2 DEF DeltasCounted
<1>7. CASE \/ \E finish \in {"stop", "length", "tool_calls"} : Ended(finish)
           \/ \E finish \in {"none", "length"} : EndedShort(finish)
  <2>1. reply' = "ended" /\ UNCHANGED <<text, read, cuts, inside>>
    BY <1>7 DEF Ended, EndedShort, EndOf
  <2> QED BY <2>1 DEF DeltasCounted
<1> QED BY <1>4, <1>5, <1>6, <1>7 DEF StreamNext

(***************************************************************************)
(* A reply and what reads it keep their types, for any text, calls, cuts   *)
(* and bounds; no more deltas come than counted.                           *)
(***************************************************************************)
THEOREM StreamTypeCorrect ==
  ASSUME NEW on \in BOOLEAN
  PROVE  StreamSpec(on) => []StreamTypeOK
<1>1. StreamStart(on) => StreamInv /\ DeltasCounted
  <2>1. MaxCuts \in Nat
    BY StreamAssumption
  <2>2. StreamStart(on) => DeltasCounted
    <3> SUFFICES ASSUME StreamStart(on) PROVE DeltasCounted
      OBVIOUS
    <3>1. inside \in BOOLEAN /\ cuts = 0 /\ reply \in {"idle", "streaming", "ended", "failed"}
      BY DEF StreamStart
    <3>2. cuts \in 0 .. MaxCuts
      BY <2>1, <3>1
    <3> QED BY <3>1, <3>2 DEF DeltasCounted
  <2> QED BY <2>2, StreamBegins
<1>2. StreamInv /\ DeltasCounted /\ [StreamNext]_streamVars => (StreamInv /\ DeltasCounted)'
  BY StreamStep, DeltasStep
<1>3. StreamInv /\ DeltasCounted => StreamTypeOK
  BY StreamTyped
<1> QED BY <1>1, <1>2, <1>3, PTL DEF StreamSpec
=============================================================================
