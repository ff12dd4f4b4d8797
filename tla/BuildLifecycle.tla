--------------------------- MODULE BuildLifecycle ---------------------------
(***************************************************************************)
(* The life of a build: POST /api/build/fast, the background runner        *)
(* runFastBuild(), POST /api/build/:sessionId/cancel and the SIGTERM       *)
(* handler failRunningBuildsOnShutdown(), as they interleave at every      *)
(* `await` of src/server/routes/build.ts.                                  *)
(*                                                                         *)
(* Two database rows outlive the process: build_sessions.status (row) and  *)
(* projects.status (proj).  Two in-process sets die with it:               *)
(* runningSessions and cancelledSessions.  Each handler keeps its place    *)
(* in a per-session program counter (fast, runner, cancel); one action is  *)
(* the code between two awaits, and a database write takes effect in the   *)
(* action that awaits it.                                                  *)
(***************************************************************************)
CONSTANTS Session,   \* ids drawn by randomUUID(), one per accepted request
          Project,
          Prompts,   \* what users ask for, see PromptKind
          Faults     \* what the environment may do, see FaultKind

\* "build": an app; "query": a question answered in chat; "action": a request
\* the model may serve with connected tools alone, writing no file;
\* "unsupported": a backend runtime the preview cannot run.
PromptKind == {"build", "query", "action", "unsupported"}

\* "db": a statement rejects; "sigterm": a redeploy; "crash": the process dies.
FaultKind == {"db", "sigterm", "crash"}

ASSUME PromptsAssumption == Prompts \subseteq PromptKind
ASSUME FaultsAssumption  == Faults \subseteq FaultKind

VARIABLES
  row,               \* build_sessions.status, "none" before the INSERT
  proj,              \* projects.status
  sproj, prompt,     \* the request of a session: its project and its kind
  fast,              \* place of the POST /fast handler
  runner,            \* place of runFastBuild()
  pend,              \* writes of a Promise.all() still under way in runner
  cancel,            \* place of the POST /cancel handler
  runningSessions,
  cancelledSessions,
  server,            \* "up", "draining" (after SIGTERM), "down"
  closing,           \* sessions whose rows the SIGTERM handler is closing
  told,              \* terminal events emitted to the session's room
  early              \* observed only: cancel raised its flag before the
                     \* runner's last look at cancelledSessions

vars == <<row, proj, sproj, prompt, fast, runner, pend, cancel, runningSessions,
          cancelledSessions, server, closing, told, early>>

request  == <<sproj, prompt>>
inMemory == <<runningSessions, cancelledSessions>>
process  == <<server, closing>>

NoProject == "no project"

Terminal == {"success", "completed", "failed", "cancelled"}
Event    == {"complete", "error", "cancelled", "interrupted"}

\* Places inside the try block of runFastBuild; only the last four await a
\* write of a row.
Working == {"generating", "parsed", "verifying"}
Writing == {"queryRow", "queryProj", "completeRow", "completeProj", "abort"}
InTry   == Working \cup Writing
Failing == {"failRow", "failProj"}
Live    == {"start", "reject"} \cup InTry \cup Failing
Over    == {"ok", "failed", "stopped", "action", "rejected", "threw", "lost"}

\* Places from which the runner still looks at cancelledSessions before it
\* delivers anything.  A query never looks.
Heeding == {"none", "start", "generating", "parsed"}

TypeOK ==
  /\ row \in [Session -> {"none", "running"} \cup Terminal]
  /\ proj \in [Project -> {"idle", "building", "live", "failed"}]
  /\ sproj \in [Session -> Project \cup {NoProject}]
  /\ prompt \in [Session -> PromptKind]
  /\ fast \in [Session -> {"none", "checked", "inserted", "replied", "refused", "threw", "lost"}]
  /\ runner \in [Session -> {"none"} \cup Live \cup Over]
  /\ pend \in [Session -> SUBSET {"row", "proj"}]
  /\ cancel \in [Session -> {"none", "read", "signalled", "rowDone", "done", "threw", "lost"}]
  /\ runningSessions \subseteq Session
  /\ cancelledSessions \subseteq Session
  /\ server \in {"up", "draining", "down"}
  /\ closing \subseteq Session
  /\ told \in [Session -> SUBSET Event]
  /\ early \subseteq Session

Init ==
  /\ row = [s \in Session |-> "none"]
  /\ proj = [p \in Project |-> "idle"]
  /\ sproj = [s \in Session |-> NoProject]
  /\ prompt = [s \in Session |-> "build"]
  /\ fast = [s \in Session |-> "none"]
  /\ runner = [s \in Session |-> "none"]
  /\ pend = [s \in Session |-> {}]
  /\ cancel = [s \in Session |-> "none"]
  /\ runningSessions = {}
  /\ cancelledSessions = {}
  /\ server = "up"
  /\ closing = {}
  /\ told = [s \in Session |-> {}]
  /\ early = {}

-----------------------------------------------------------------------------
(* Steps shared by the handlers.                                           *)

Alive == server # "down"
At(s, place) == Alive /\ runner[s] = place
Goto(s, place) == runner' = [runner EXCEPT ![s] = place]
SetRow(s, status) == row' = [row EXCEPT ![s] = status]
SetProject(s, status) == proj' = [proj EXCEPT ![sproj[s]] = status]
Tell(s, event) == told' = [told EXCEPT ![s] = @ \cup {event}]

\* `finally { runningSessions.delete(sessionId) }`
Leave(s, place) == /\ Goto(s, place)
                   /\ runningSessions' = runningSessions \ {s}

-----------------------------------------------------------------------------
(* POST /api/build/fast                                                    *)

\* The project row is read; "building" is refused with 409 here and nowhere
\* later.
FastCheck(s, p, kind) ==
  /\ Alive
  /\ fast[s] = "none"
  /\ proj[p] # "building"
  /\ fast' = [fast EXCEPT ![s] = "checked"]
  /\ sproj' = [sproj EXCEPT ![s] = p]
  /\ prompt' = [prompt EXCEPT ![s] = kind]
  /\ UNCHANGED <<row, proj, runner, pend, cancel, inMemory, process, told, early>>

\* assertHasBudget() throws 402, or the INSERT fails.
FastRefuse(s) ==
  /\ Alive
  /\ fast[s] = "checked"
  /\ fast' = [fast EXCEPT ![s] = "refused"]
  /\ UNCHANGED <<row, proj, request, runner, pend, cancel, inMemory, process, told, early>>

FastInsert(s) ==
  /\ Alive
  /\ fast[s] = "checked"
  /\ fast' = [fast EXCEPT ![s] = "inserted"]
  /\ SetRow(s, "running")
  /\ UNCHANGED <<proj, request, runner, pend, cancel, inMemory, process, told, early>>

\* Reading the project's memory throws after the INSERT: the catch rethrows.
FastThrow(s) ==
  /\ Alive
  /\ "db" \in Faults
  /\ fast[s] = "inserted"
  /\ fast' = [fast EXCEPT ![s] = "threw"]
  /\ UNCHANGED <<row, proj, request, runner, pend, cancel, inMemory, process, told, early>>

\* setImmediate(() => runFastBuild(...)): the runner registers itself and
\* starts looking up the user's plan.
FastSpawn(s) ==
  /\ Alive
  /\ fast[s] = "inserted"
  /\ fast' = [fast EXCEPT ![s] = "replied"]
  /\ Goto(s, "start")
  /\ runningSessions' = runningSessions \cup {s}
  /\ UNCHANGED <<row, proj, request, pend, cancel, cancelledSessions, process, told, early>>

-----------------------------------------------------------------------------
(* runFastBuild()                                                          *)

\* The project becomes "building"; an unsupported runtime is then refused
\* outside the try block, so its two writes have no finally behind them.
RunnerSetup(s) ==
  /\ At(s, "start")
  /\ SetProject(s, "building")
  /\ \/ /\ prompt[s] # "unsupported"
        /\ Goto(s, "generating")
        /\ UNCHANGED <<pend, told>>
     \/ /\ prompt[s] = "unsupported"
        /\ Goto(s, "reject")
        /\ Tell(s, "error")
        /\ pend' = [pend EXCEPT ![s] = {"row", "proj"}]
  /\ UNCHANGED <<row, request, fast, cancel, inMemory, process, early>>

\* One of the two set-up writes rejects: the throw is outside the try block.
RunnerSetupThrows(s) ==
  /\ At(s, "start")
  /\ "db" \in Faults
  /\ \/ SetProject(s, "building")
     \/ UNCHANGED proj
  /\ Goto(s, "threw")
  /\ UNCHANGED <<row, request, fast, pend, cancel, inMemory, process, told, early>>

\* A question is answered: build:complete first, the two rows after it.
AnswerQuery(s) ==
  /\ At(s, "generating")
  /\ prompt[s] = "query"
  /\ Tell(s, "complete")
  /\ Goto(s, "queryRow")
  /\ UNCHANGED <<row, proj, request, fast, pend, cancel, inMemory, process, early>>

\* The generation dispatch returns and finds the session cancelled.
StopAfterDispatch(s) ==
  /\ At(s, "generating")
  /\ prompt[s] # "query"
  /\ s \in cancelledSessions
  /\ cancelledSessions' = cancelledSessions \ {s}
  /\ Tell(s, "cancelled")
  /\ Leave(s, "stopped")
  /\ UNCHANGED <<row, proj, request, fast, pend, cancel, process, early>>

DispatchReturns(s) ==
  /\ At(s, "generating")
  /\ prompt[s] # "query"
  /\ s \notin cancelledSessions
  /\ Goto(s, "parsed")
  /\ UNCHANGED <<row, proj, request, fast, pend, cancel, inMemory, process, told, early>>

\* No file, but connected tools were used: delivered as a completion, and
\* neither row is written.
ActionOnly(s) ==
  /\ At(s, "parsed")
  /\ prompt[s] = "action"
  /\ Tell(s, "complete")
  /\ Leave(s, "action")
  /\ UNCHANGED <<row, proj, request, fast, pend, cancel, cancelledSessions, process, early>>

\* mutant of Abort: the `return` after the failure is forgotten
Abort_FallsThrough(s) ==
  /\ At(s, "parsed") \/ At(s, "verifying")
  /\ Tell(s, "error")
  /\ SetRow(s, "failed")
  /\ Goto(s, "verifying")
  /\ UNCHANGED <<proj, request, fast, pend, cancel, inMemory, process, early>>

\* mutant of Abort: only the project is failed
Abort_RowForgotten(s) ==
  /\ At(s, "parsed") \/ At(s, "verifying")
  /\ Tell(s, "error")
  /\ pend' = [pend EXCEPT ![s] = {"proj"}]
  /\ Goto(s, "abort")
  /\ UNCHANGED <<row, proj, request, fast, cancel, inMemory, process, early>>

\* mutant of Abort: only the session's row is failed
Abort_ProjectForgotten(s) ==
  /\ At(s, "parsed") \/ At(s, "verifying")
  /\ Tell(s, "error")
  /\ pend' = [pend EXCEPT ![s] = {"row"}]
  /\ Goto(s, "abort")
  /\ UNCHANGED <<row, proj, request, fast, cancel, inMemory, process, early>>

\* The cost ceiling or a security gate stops the build: build:error, then
\* both rows in one Promise.all().
Abort(s) ==
  /\ At(s, "parsed") \/ At(s, "verifying")
  /\ Tell(s, "error")
  /\ pend' = [pend EXCEPT ![s] = {"row", "proj"}]
  /\ Goto(s, "abort")
  /\ UNCHANGED <<row, proj, request, fast, cancel, inMemory, process, early>>

\* The writes of a Promise.all() land in either order, and one of them perhaps
\* only after the other has rejected and the runner has moved on ...
AbortRow(s) ==
  /\ Alive
  /\ "row" \in pend[s]
  /\ pend' = [pend EXCEPT ![s] = @ \ {"row"}]
  /\ SetRow(s, "failed")
  /\ UNCHANGED <<proj, request, fast, runner, cancel, inMemory, process, told, early>>

AbortProject(s) ==
  /\ Alive
  /\ "proj" \in pend[s]
  /\ pend' = [pend EXCEPT ![s] = @ \ {"proj"}]
  /\ SetProject(s, "failed")
  /\ UNCHANGED <<row, request, fast, runner, cancel, inMemory, process, told, early>>

\* ... and the function returns when both have: through the finally, unless
\* the return is the unsupported-runtime one before the try block.
AbortReturns(s) ==
  /\ pend[s] = {}
  /\ \/ At(s, "abort") /\ Leave(s, "failed")
     \/ At(s, "reject") /\ Goto(s, "rejected") /\ UNCHANGED runningSessions
  /\ UNCHANGED <<row, proj, request, fast, pend, cancel, cancelledSessions, process, told, early>>

\* One of them rejects, and with it the Promise.all().
WriteRejects(s) ==
  /\ "db" \in Faults
  /\ \E write \in pend[s] : pend' = [pend EXCEPT ![s] = @ \ {write}]

\* A write of the refusal rejects: nothing catches it.
RejectThrows(s) ==
  /\ At(s, "reject")
  /\ WriteRejects(s)
  /\ Goto(s, "threw")
  /\ UNCHANGED <<row, proj, request, fast, cancel, inMemory, process, told, early>>

\* The write loop ran to its end without seeing a cancellation.
WriteFiles(s) ==
  /\ At(s, "parsed")
  /\ s \notin cancelledSessions
  /\ Goto(s, "verifying")
  /\ UNCHANGED <<row, proj, request, fast, pend, cancel, inMemory, process, told, early>>

\* mutant of StopAfterWrites: the flag breaks the loop and the build goes on
StopAfterWrites_GoesOn(s) ==
  /\ At(s, "parsed")
  /\ s \in cancelledSessions
  /\ cancelledSessions' = cancelledSessions \ {s}
  /\ Goto(s, "verifying")
  /\ UNCHANGED <<row, proj, request, fast, pend, cancel, runningSessions, process, told, early>>

\* The loop broke on the flag: the runner returns without an event, leaving
\* the words to the cancel handler.
StopAfterWrites(s) ==
  /\ At(s, "parsed")
  /\ s \in cancelledSessions
  /\ cancelledSessions' = cancelledSessions \ {s}
  /\ Leave(s, "stopped")
  /\ UNCHANGED <<row, proj, request, fast, pend, cancel, process, told, early>>

\* Preview, repairs and audits are over; the outcome is about to be recorded.
Complete(s) ==
  /\ At(s, "verifying")
  /\ Goto(s, "completeRow")
  /\ UNCHANGED <<row, proj, request, fast, pend, cancel, inMemory, process, told, early>>

\* The row is closed by id alone, whatever it says by now.
FinishRow(s) ==
  /\ \/ At(s, "queryRow") /\ SetRow(s, "success") /\ Goto(s, "queryProj")
     \/ /\ At(s, "completeRow")
        /\ \E status \in {"success", "completed"} : SetRow(s, status)
        /\ Goto(s, "completeProj")
  /\ UNCHANGED <<proj, request, fast, pend, cancel, inMemory, process, told, early>>

FinishProject(s) ==
  /\ At(s, "queryProj") \/ At(s, "completeProj")
  /\ SetProject(s, "live")
  /\ Tell(s, "complete")
  /\ Leave(s, "ok")
  /\ UNCHANGED <<row, request, fast, pend, cancel, cancelledSessions, process, early>>

\* mutant of Throw: the session is unregistered before its failure is recorded
Throw_Unregisters(s) ==
  /\ Alive
  /\ runner[s] \in Working
  /\ s \notin cancelledSessions
  /\ Leave(s, "failRow")
  /\ UNCHANGED <<row, proj, request, fast, pend, cancel, cancelledSessions, process, told, early>>

\* Anything in the try block throws; a write only when the database does.
Throw(s) ==
  /\ Alive
  /\ \/ runner[s] \in Working /\ UNCHANGED pend
     \/ runner[s] \in Writing \ {"abort"} /\ "db" \in Faults /\ UNCHANGED pend
     \/ runner[s] = "abort" /\ WriteRejects(s)
  /\ \/ /\ s \in cancelledSessions
        /\ cancelledSessions' = cancelledSessions \ {s}
        /\ Leave(s, "stopped")
     \/ /\ s \notin cancelledSessions
        /\ Goto(s, "failRow")
        /\ UNCHANGED inMemory
  /\ UNCHANGED <<row, proj, request, fast, cancel, process, told, early>>

FailRow(s) ==
  /\ At(s, "failRow")
  /\ SetRow(s, "failed")
  /\ Goto(s, "failProj")
  /\ UNCHANGED <<proj, request, fast, pend, cancel, inMemory, process, told, early>>

\* mutant of FailProject: the rows are closed and nobody is told
FailProject_Silent(s) ==
  /\ At(s, "failProj")
  /\ SetProject(s, "failed")
  /\ Leave(s, "failed")
  /\ UNCHANGED <<row, request, fast, pend, cancel, cancelledSessions, process, told, early>>

FailProject(s) ==
  /\ At(s, "failProj")
  /\ SetProject(s, "failed")
  /\ Tell(s, "error")
  /\ Leave(s, "failed")
  /\ UNCHANGED <<row, request, fast, pend, cancel, cancelledSessions, process, early>>

\* A write inside the catch block rejects: the finally still runs.
CatchThrows(s) ==
  /\ At(s, "failRow") \/ At(s, "failProj")
  /\ "db" \in Faults
  /\ Leave(s, "threw")
  /\ UNCHANGED <<row, proj, request, fast, pend, cancel, cancelledSessions, process, told, early>>

-----------------------------------------------------------------------------
(* POST /api/build/:sessionId/cancel                                       *)

CancelRead(s) ==
  /\ Alive
  /\ cancel[s] = "none"
  /\ row[s] = "running"
  /\ cancel' = [cancel EXCEPT ![s] = "read"]
  /\ UNCHANGED <<row, proj, request, fast, runner, pend, inMemory, process, told, early>>

CancelSignal(s) ==
  /\ Alive
  /\ cancel[s] = "read"
  /\ cancel' = [cancel EXCEPT ![s] = "signalled"]
  /\ cancelledSessions' = cancelledSessions \cup {s}
  /\ early' = IF prompt[s] # "query" /\ runner[s] \in Heeding THEN early \cup {s} ELSE early
  /\ UNCHANGED <<row, proj, request, fast, runner, pend, runningSessions, process, told>>

\* The row is closed by id alone: the "running" read above may be history.
CancelRow(s) ==
  /\ Alive
  /\ cancel[s] = "signalled"
  /\ cancel' = [cancel EXCEPT ![s] = "rowDone"]
  /\ SetRow(s, "cancelled")
  /\ UNCHANGED <<proj, request, fast, runner, pend, inMemory, process, told, early>>

\* mutant of CancelProject: the client's event is left to the runner
CancelProject_Silent(s) ==
  /\ Alive
  /\ cancel[s] = "rowDone"
  /\ cancel' = [cancel EXCEPT ![s] = "done"]
  /\ SetProject(s, "live")
  /\ UNCHANGED <<row, request, fast, runner, pend, inMemory, process, told, early>>

CancelProject(s) ==
  /\ Alive
  /\ cancel[s] = "rowDone"
  /\ cancel' = [cancel EXCEPT ![s] = "done"]
  /\ SetProject(s, "live")
  /\ Tell(s, "error")
  /\ UNCHANGED <<row, request, fast, runner, pend, inMemory, process, early>>

CancelThrows(s) ==
  /\ Alive
  /\ "db" \in Faults
  /\ cancel[s] \in {"signalled", "rowDone"}
  /\ cancel' = [cancel EXCEPT ![s] = "threw"]
  /\ UNCHANGED <<row, proj, request, fast, runner, pend, inMemory, process, told, early>>

-----------------------------------------------------------------------------
(* The process                                                             *)

\* SIGTERM: failRunningBuildsOnShutdown() tells every registered session and
\* sends one UPDATE for all of them.
Sigterm ==
  /\ "sigterm" \in Faults
  /\ server = "up"
  /\ server' = "draining"
  /\ closing' = runningSessions
  /\ told' = [s \in Session |-> IF s \in runningSessions THEN told[s] \cup {"interrupted"} ELSE told[s]]
  /\ UNCHANGED <<row, proj, request, fast, runner, pend, cancel, inMemory, early>>

\* That UPDATE lands, or fails and is only logged.
CloseRows ==
  /\ server = "draining"
  /\ closing # {}
  /\ \/ row' = [s \in Session |-> IF s \in closing THEN "failed" ELSE row[s]]
     \/ "db" \in Faults /\ UNCHANGED row
  /\ closing' = {}
  /\ UNCHANGED <<proj, request, fast, runner, pend, cancel, inMemory, server, told, early>>

\* The process is gone, after the drain or by a crash; what it held in memory
\* and every handler in it are gone too.
GoDown ==
  /\ \/ server = "draining" /\ closing = {}
     \/ server # "down" /\ "crash" \in Faults
  /\ server' = "down"
  /\ closing' = {}
  /\ runningSessions' = {}
  /\ cancelledSessions' = {}
  /\ fast' = [s \in Session |-> IF fast[s] \in {"checked", "inserted"} THEN "lost" ELSE fast[s]]
  /\ runner' = [s \in Session |-> IF runner[s] \in Live THEN "lost" ELSE runner[s]]
  /\ cancel' = [s \in Session |-> IF cancel[s] \in {"read", "signalled", "rowDone"} THEN "lost" ELSE cancel[s]]
  /\ pend' = [s \in Session |-> {}]
  /\ UNCHANGED <<row, proj, request, told, early>>

\* Booting reads no build state.
Restart ==
  /\ server = "down"
  /\ server' = "up"
  /\ UNCHANGED <<row, proj, request, fast, runner, pend, cancel, inMemory, closing, told, early>>

-----------------------------------------------------------------------------
RequestStep(s) == FastRefuse(s) \/ FastInsert(s) \/ FastThrow(s) \/ FastSpawn(s)

RunnerStep(s) ==
  \/ RunnerSetup(s) \/ RunnerSetupThrows(s) \/ AnswerQuery(s)
  \/ StopAfterDispatch(s) \/ DispatchReturns(s) \/ ActionOnly(s)
  \/ Abort(s) \/ AbortRow(s) \/ AbortProject(s) \/ AbortReturns(s) \/ RejectThrows(s)
  \/ WriteFiles(s) \/ StopAfterWrites(s) \/ Complete(s)
  \/ FinishRow(s) \/ FinishProject(s)
  \/ Throw(s) \/ FailRow(s) \/ FailProject(s) \/ CatchThrows(s)

CancelStep(s) == CancelSignal(s) \/ CancelRow(s) \/ CancelProject(s) \/ CancelThrows(s)

ProcessStep == Sigterm \/ CloseRows \/ GoDown \/ Restart

Next ==
  \/ \E s \in Session :
       \/ \E p \in Project, kind \in Prompts : FastCheck(s, p, kind)
       \/ CancelRead(s)
       \/ RequestStep(s) \/ RunnerStep(s) \/ CancelStep(s)
  \/ ProcessStep

Spec == Init /\ [][Next]_vars

\* A handler that has begun is run to its end: every await in it is a
\* database call or a bounded wait (stream timeout, POST_BUILD_WAIT_MS).
\* Users are not fair, and neither is the environment.
Fairness == \A s \in Session : /\ WF_vars(RequestStep(s))
                               /\ WF_vars(RunnerStep(s))
                               /\ WF_vars(CancelStep(s))

FairSpec == Spec /\ Fairness

-----------------------------------------------------------------------------
(* Properties                                                              *)

\* A cancellation whose flag was up while the runner still had a check ahead
\* of it never ends in a delivered build: the flag survives until a check
\* consumes it, whichever of the three does (build.ts 1817, 2463, 5186).
EarlyCancelNeverDelivers ==
  \A s \in early : row[s] \notin {"success", "completed"}

\* No build ends without a word to its client.  The runner that returns
\* silently on a cancellation (build.ts 2463 and 5186) relies on the cancel
\* handler, so that handler is done, still going to speak, or has failed.
EndIsTold(s) ==
  /\ runner[s] \in {"ok", "failed", "action", "rejected"} => told[s] # {}
  /\ runner[s] = "stopped" =>
       told[s] # {} \/ cancel[s] \in {"signalled", "rowDone", "threw", "lost"}

NoSilentEnd == \A s \in Session : EndIsTold(s)

\* A row that says "running" is being worked on, or its build ended in one of
\* the ways that never close it: an action-only answer (build.ts 1907-1927), a
\* throw outside the try block or inside the catch, a dead process, or a
\* cancellation that failed half way.
RowHasOwner(s) == row[s] = "running" =>
  \/ fast[s] \in {"inserted", "threw", "lost"}
  \/ runner[s] \in Working \cup {"start", "queryRow", "completeRow", "failRow"}
  \/ runner[s] \in {"abort", "reject"} /\ "row" \in pend[s]
  \/ runner[s] \in {"action", "threw", "lost"}
  \/ runner[s] = "stopped" /\ cancel[s] \in {"signalled", "threw", "lost"}

RunningRowAccountedFor == \A s \in Session : RowHasOwner(s)

\* The build that answers for its project being "building".
Holds(s) ==
  \/ runner[s] \in (InTry \ {"abort"}) \cup Failing
  \/ runner[s] \in {"abort", "reject"} /\ "proj" \in pend[s]
  \/ runner[s] \in {"action", "threw", "lost", "stopped"}

\* A project that says "building", and so refuses every new build with 409
\* (build.ts 5354), is held by a build at work or by one that ended in one of
\* the ways that never release it.
BuildingAccountedFor ==
  \A p \in Project : proj[p] = "building" => \E s \in Session : sproj[s] = p /\ Holds(s)

\* A shutdown "at any point in between can still find and close it out"
\* (build.ts 812): every build under way is registered, whichever of its
\* awaits, failures and returns it has reached.
ShutdownFindsBuilds ==
  \A s \in Session : runner[s] \in Live => s \in runningSessions

\* What says that a build is under way, its row, its project and the set the
\* shutdown goes through, says so of the same builds: none is forgotten by one
\* of the three while another still counts it.
AccountedFor == RunningRowAccountedFor /\ BuildingAccountedFor /\ ShutdownFindsBuilds

\* A runner writes one terminal status: a closed row changes only when a
\* cancellation or a shutdown of that session overlaps it, or to "failed" once
\* a statement after it has failed.
RowClosedOnce ==
  [][\A s \in Session : row[s] \in Terminal /\ row'[s] # row[s]
       => \/ cancel[s] # "none"
          \/ "interrupted" \in told[s]
          \/ "db" \in Faults /\ row'[s] = "failed"]_vars

\* Every build that starts is told an outcome, whatever its prompt and whether
\* or not it is cancelled on the way, unless a write outside the try block, in
\* the catch block or of the cancel handler fails.
ClientHears ==
  \A s \in Session :
    runner[s] = "start" ~> told[s] # {} \/ "threw" \in {runner[s], cancel[s]}

\* Every accepted request leaves "running", except the action-only answers and
\* those one of whose handlers ended in such a failure.
RowSettles ==
  \A s \in Session :
    row[s] = "running" ~>
      row[s] # "running" \/ runner[s] = "action" \/ "threw" \in {fast[s], runner[s], cancel[s]}

-----------------------------------------------------------------------------
(* What the code says of itself and does not do.                           *)

\* "Nothing was saved -- please run it again" (build.ts 170): once the process
\* that interrupted a build is gone, its project accepts a new one.
RunAgainIsPossible ==
  server = "down" => \A s \in Session :
    "interrupted" \in told[s] => proj[sproj[s]] # "building"

\* "Deliver it as a completion" (build.ts 1904): a build whose client was told
\* it is complete does not stay "running" once its runner is gone.
CompletionClosesRow ==
  \A s \in Session : runner[s] \in {"ok", "action"} => row[s] # "running"
=============================================================================
