---------------------------- MODULE PreviewSandbox --------------------------
(***************************************************************************)
(* The E2B sandbox of one project's preview (src/preview/e2b-service.ts):  *)
(* warmed, created, resumed, written to, paused and killed by concurrent   *)
(* requests, with the pause timer of the websocket handlers                *)
(* (src/websocket/handlers/build-handler.ts).                              *)
(*                                                                         *)
(* The maps of the service hold at most one entry per project, and no two  *)
(* projects meet, so they are modelled for one project.  A request under   *)
(* way is a call: at[k] is the await it has reached, and an action is the  *)
(* code from there to the next.                                            *)
(***************************************************************************)
CONSTANTS Vm,     \* E2B's sandboxes; one is used once
          Call,   \* the requests that can be under way at once
          Tab,    \* the browser tabs of the project's sessions
          Goals,  \* what requests ask for, of AllGoals
          Faults, \* "e2b", "redis", "db": a request to it fails;
                  \* "expire": E2B reclaims a sandbox; "restart": the process ends
          None

AllGoals == {"prewarm", "create", "write", "open", "kill"}

ASSUME ConstantsAssumption ==
  /\ Goals \subseteq AllGoals
  /\ Faults \subseteq {"e2b", "redis", "db", "expire", "restart"}
  /\ None \notin Vm \cup Call

VARIABLES
  vm,       \* E2B's state of each sandbox
  live,     \* sandboxes.get(project)
  record,   \* the sandbox id in Redis
  warming,  \* the call whose promise is in warmingSandboxes
  at, goal, hand, \* per call: where it is, what for, the sandbox it holds
  connected, arriving, leaving, \* tabs: with a socket, in trackSession(), in the
                                \* disconnect handler's resolveProjectId()
  timer,    \* pendingPauseTimers.has(project)
  lost      \* observed only: the sandboxes a failure, a restart or another
            \* call's deletion of the record may have left to E2B's timeout

calls == <<at, goal, hand>>
tabs  == <<connected, arriving, leaving>>
vars  == <<vm, live, record, warming, calls, tabs, timer, lost>>

Acquiring == {"load", "connect", "forget", "create", "save", "boot", "unsave",
              "scrapNew", "ensure"}
Places == Acquiring \cup {"idle", "wait", "join", "check", "got", "use", "scrap", "probe",
                          "read", "decide", "kill", "unrecord", "pause"}

TypeOK ==
  /\ vm \in [Vm -> {"none", "running", "paused", "gone"}]
  /\ live \in Vm \cup {None}
  /\ record \in Vm \cup {None}
  /\ warming \in Call \cup {None}
  /\ at \in [Call -> Places]
  /\ goal \in [Call -> AllGoals \cup {"restore", "pause"}]
  /\ hand \in [Call -> Vm \cup {None}]
  /\ connected \subseteq Tab /\ arriving \subseteq Tab /\ leaving \subseteq Tab
  /\ timer \in BOOLEAN
  /\ lost \subseteq Vm

Init ==
  /\ vm = [v \in Vm |-> "none"]
  /\ live = None /\ record = None /\ warming = None
  /\ at = [k \in Call |-> "idle"]
  /\ goal = [k \in Call |-> "open"]
  /\ hand = [k \in Call |-> None]
  /\ connected = {} /\ arriving = {} /\ leaving = {}
  /\ timer = FALSE
  /\ lost = {}

-----------------------------------------------------------------------------
(* Helpers.                                                                *)

Exists(v) == vm[v] \in {"running", "paused"}
Goto(k, place) == at' = [at EXCEPT ![k] = place]
Hold(k, v) == hand' = [hand EXCEPT ![k] = v]

\* Nothing of the call is left but what it may have changed.
End(k) == /\ Goto(k, "idle")
          /\ Hold(k, None)

\* awaitWarming(): behind the acquisition in flight, if there is one.
FirstPlace == IF warming # None THEN "wait" ELSE "check"

\* The promise of warmingSandboxes is settled with v, or rejected with None: its
\* entry goes, and the owner and those who await it go on with that.
Settle(k, v) ==
  /\ warming' = None
  /\ at' = [j \in Call |-> IF j = k \/ at[j] = "join" THEN "got"
                           ELSE IF at[j] = "wait" THEN "check" ELSE at[j]]
  /\ hand' = [j \in Call |-> IF j = k \/ at[j] = "join" THEN v ELSE hand[j]]

\* A request of E2B may fail when its sandbox cannot answer or by itself.
Answers(v) == v # None /\ vm[v] = "running"
MayFail(v) == ~Answers(v) \/ "e2b" \in Faults

-----------------------------------------------------------------------------
(* Requests                                                                *)

\* prewarmSandbox(): nothing to do when a sandbox is live or being warmed.
Prewarm(k) ==
  /\ "prewarm" \in Goals
  /\ at[k] = "idle"
  /\ live = None /\ warming = None
  /\ warming' = k
  /\ goal' = [goal EXCEPT ![k] = "prewarm"]
  /\ Goto(k, "load")
  /\ UNCHANGED <<vm, live, record, hand, tabs, timer, lost>>

\* createPreviewSandbox(), writeFilesToSandbox()
Ask(k, g) ==
  /\ g \in Goals \cap {"create", "write"}
  /\ at[k] = "idle"
  /\ goal' = [goal EXCEPT ![k] = g]
  /\ Goto(k, FirstPlace)
  /\ UNCHANGED <<vm, live, record, warming, hand, tabs, timer, lost>>

\* killSandbox(): of a cancelled build, or of everything on SIGTERM.
Kill(k) ==
  /\ "kill" \in Goals
  /\ at[k] = "idle"
  /\ goal' = [goal EXCEPT ![k] = "kill"]
  /\ Goto(k, IF live # None THEN "kill" ELSE "unrecord")
  /\ Hold(k, live)
  /\ live' = None
  /\ UNCHANGED <<vm, record, warming, tabs, timer, lost>>

-----------------------------------------------------------------------------
(* acquireRunningSandbox()                                                 *)

\* mutant of Load: the record is ignored and every acquisition creates.
Load_Fresh(k) ==
  /\ at[k] = "load"
  /\ Goto(k, "create")
  /\ UNCHANGED <<vm, live, record, warming, goal, hand, tabs, timer, lost>>

\* loadSandboxId(): a failure is a cache miss.
Load(k) ==
  /\ at[k] = "load"
  /\ \/ Hold(k, record) /\ Goto(k, IF record # None THEN "connect" ELSE "create")
        /\ UNCHANGED lost
     \/ "redis" \in Faults /\ Hold(k, None) /\ Goto(k, "create")
        /\ lost' = lost \cup ({record} \ {None})
  /\ UNCHANGED <<vm, live, record, warming, goal, tabs, timer>>

\* tryResumeSandbox(): connecting resumes; the sandbox is registered.
Resume(k) ==
  /\ at[k] = "connect"
  /\ Exists(hand[k])
  /\ vm' = [vm EXCEPT ![hand[k]] = "running"]
  /\ live' = hand[k]
  /\ Goto(k, "ensure")
  /\ UNCHANGED <<record, warming, goal, hand, tabs, timer, lost>>

ResumeFails(k) ==
  /\ at[k] = "connect"
  /\ \/ ~Exists(hand[k]) /\ UNCHANGED lost
     \/ "e2b" \in Faults /\ lost' = lost \cup {hand[k]}
  /\ Goto(k, "forget")
  /\ UNCHANGED <<vm, live, record, warming, goal, hand, tabs, timer>>

\* deleteSandboxId(), whose failure is only logged: whichever id is there goes.
Unrecord(k) ==
  \/ record' = None /\ lost' = lost \cup ({record} \ {hand[k], None})
  \/ "redis" \in Faults /\ UNCHANGED <<record, lost>>

\* The snapshot is gone: a fresh one, unless only a resume was asked for.
Forget(k) ==
  /\ at[k] = "forget"
  /\ Unrecord(k)
  /\ \/ /\ goal[k] \in {"open", "restore"}
        /\ Settle(k, None)
     \/ /\ goal[k] \in {"prewarm", "create"}
        /\ Goto(k, "create")
        /\ Hold(k, None)
        /\ UNCHANGED warming
  /\ UNCHANGED <<vm, live, goal, tabs, timer>>

\* ensureDevServer() of the resumed sandbox; it stays registered when it throws.
Ensured(k) ==
  /\ at[k] = "ensure"
  /\ Answers(hand[k])
  /\ Settle(k, hand[k])
  /\ UNCHANGED <<vm, live, record, goal, tabs, timer, lost>>

EnsureFails(k) ==
  /\ at[k] = "ensure"
  /\ MayFail(hand[k])
  /\ Settle(k, None)
  /\ UNCHANGED <<vm, live, record, goal, tabs, timer, lost>>

\* Sandbox.create(), registered at once.
Create(k, v) ==
  /\ at[k] = "create"
  /\ vm[v] = "none"
  /\ vm' = [vm EXCEPT ![v] = "running"]
  /\ live' = v
  /\ Hold(k, v)
  /\ Goto(k, "save")
  /\ UNCHANGED <<record, warming, goal, tabs, timer, lost>>

CreateFails(k) ==
  /\ at[k] = "create"
  /\ "e2b" \in Faults
  /\ Settle(k, None)
  /\ UNCHANGED <<vm, live, record, goal, tabs, timer, lost>>

\* saveSandboxId(), whose failure is only logged.
Save(k) ==
  /\ at[k] = "save"
  /\ \/ record' = hand[k] /\ UNCHANGED lost
     \/ "redis" \in Faults /\ lost' = lost \cup {hand[k]} /\ UNCHANGED record
  /\ Goto(k, "boot")
  /\ UNCHANGED <<vm, live, warming, goal, hand, tabs, timer>>

\* The preview environment is written and the dev server is up ...
Boot(k) ==
  /\ at[k] = "boot"
  /\ Answers(hand[k])
  /\ Settle(k, hand[k])
  /\ UNCHANGED <<vm, live, record, goal, tabs, timer, lost>>

\* ... or not, and nothing of the sandbox may stay.
BootFails(k) ==
  /\ at[k] = "boot"
  /\ MayFail(hand[k])
  /\ live' = None
  /\ Goto(k, "unsave")
  /\ UNCHANGED <<vm, record, warming, goal, hand, tabs, timer, lost>>

\* mutant of Unsave: the sandbox that did not boot is not killed.
Unsave_NoKill(k) ==
  /\ at[k] = "unsave"
  /\ Unrecord(k)
  /\ Settle(k, None)
  /\ UNCHANGED <<vm, live, goal, tabs, timer>>

Unsave(k) ==
  /\ at[k] = "unsave"
  /\ Unrecord(k)
  /\ Goto(k, "scrapNew")
  /\ UNCHANGED <<vm, live, warming, goal, hand, tabs, timer>>

\* sandbox.kill(), whose failure is swallowed.
KillVm(v) ==
  \/ vm' = [vm EXCEPT ![v] = "gone"] /\ UNCHANGED lost
  \/ "e2b" \in Faults /\ lost' = lost \cup {v} /\ UNCHANGED vm

ScrapNew(k) ==
  /\ at[k] = "scrapNew"
  /\ KillVm(hand[k])
  /\ Settle(k, None)
  /\ UNCHANGED <<live, record, goal, tabs, timer>>

-----------------------------------------------------------------------------
(* createPreviewSandbox() and writeFilesToSandbox()                        *)

\* The live sandbox, or the one being acquired, or one acquired here.
GetOrAcquire(k) ==
  /\ at[k] = "check" /\ goal[k] = "create"
  /\ \/ live # None /\ Hold(k, live) /\ Goto(k, "use") /\ UNCHANGED warming
     \/ live = None /\ warming # None /\ Goto(k, "join") /\ UNCHANGED <<warming, hand>>
     \/ live = None /\ warming = None /\ warming' = k /\ Goto(k, "load") /\ UNCHANGED hand
  /\ UNCHANGED <<vm, live, record, goal, tabs, timer, lost>>

\* writeFilesToSandbox() throws without a live sandbox.
GetLive(k) ==
  /\ at[k] = "check" /\ goal[k] = "write"
  /\ \/ live # None /\ Hold(k, live) /\ Goto(k, "use")
     \/ live = None /\ End(k)
  /\ UNCHANGED <<vm, live, record, warming, goal, tabs, timer, lost>>

\* What the promise of warmingSandboxes came to.
Acquired(k) ==
  /\ at[k] = "got"
  /\ hand[k] # None \/ goal[k] = "prewarm"
  /\ \/ goal[k] = "create" /\ Goto(k, "use") /\ UNCHANGED hand
     \/ goal[k] # "create" /\ End(k)
  /\ UNCHANGED <<vm, live, record, warming, goal, tabs, timer, lost>>

\* The catch block of createPreviewSandbox(), with no sandbox of its own.
AcquireFailed(k) ==
  /\ at[k] = "got" /\ hand[k] = None
  /\ goal[k] = "create"
  /\ live' = None
  /\ End(k)
  /\ UNCHANGED <<vm, record, warming, goal, tabs, timer, lost>>

\* The files are written and the dev server is up: the URL is returned.
Use(k) ==
  /\ at[k] = "use"
  /\ Answers(hand[k])
  /\ End(k)
  /\ UNCHANGED <<vm, live, record, warming, goal, tabs, timer, lost>>

\* writeFilesToSandbox() throws; createPreviewSandbox() unregisters first ...
UseFails(k) ==
  /\ at[k] = "use"
  /\ MayFail(hand[k])
  /\ \/ goal[k] = "write" /\ End(k) /\ UNCHANGED live
     \/ goal[k] = "create" /\ live' = None /\ Goto(k, "scrap") /\ UNCHANGED hand
  /\ UNCHANGED <<vm, record, warming, goal, tabs, timer, lost>>

\* ... and kills.
Scrap(k) ==
  /\ at[k] = "scrap"
  /\ KillVm(hand[k])
  /\ End(k)
  /\ UNCHANGED <<live, record, warming, goal, tabs, timer>>

-----------------------------------------------------------------------------
(* ensurePreviewForProject() and restorePreviewForProject()                *)

Opens(k) == goal[k] \in {"open", "restore"}

Look(k) ==
  /\ at[k] = "check" /\ Opens(k)
  /\ \/ live # None /\ Hold(k, live) /\ Goto(k, "probe")
     \/ live = None /\ Goto(k, "read") /\ UNCHANGED hand
  /\ UNCHANGED <<vm, live, record, warming, goal, tabs, timer, lost>>

\* ensureDevServer() of the live sandbox.
Probe(k) ==
  /\ at[k] = "probe"
  /\ Answers(hand[k])
  /\ End(k)
  /\ UNCHANGED <<vm, live, record, warming, goal, tabs, timer, lost>>

\* "live ref is dead": whatever is registered by now is dropped.
ProbeFails(k) ==
  /\ at[k] = "probe"
  /\ MayFail(hand[k])
  /\ live' = None
  /\ Goto(k, "read")
  /\ UNCHANGED <<vm, record, warming, goal, hand, tabs, timer, lost>>

\* Nothing to resume: the client is told, or the preview is restored, which
\* looks once more and then creates a sandbox from the stored files, if any.
NoPreview(k) ==
  \/ /\ goal[k] = "open"
     /\ goal' = [goal EXCEPT ![k] = "restore"]
     /\ Goto(k, FirstPlace)
     /\ Hold(k, None)
  \/ /\ goal[k] = "restore"
     /\ goal' = [goal EXCEPT ![k] = "create"]
     /\ Goto(k, FirstPlace)
     /\ Hold(k, None)
  \/ goal[k] = "restore" /\ End(k) /\ UNCHANGED goal

\* loadSandboxId()
ReadRecord(k) ==
  /\ at[k] = "read"
  /\ record # None
  /\ Hold(k, record)
  /\ Goto(k, "decide")
  /\ UNCHANGED <<vm, live, record, warming, goal, tabs, timer, lost>>

NoRecord(k) ==
  /\ at[k] = "read"
  /\ record = None \/ "redis" \in Faults
  /\ NoPreview(k)
  /\ UNCHANGED <<vm, live, record, warming, tabs, timer, lost>>

\* mutant of Decide: a reopened tab does not look for an acquisition in flight.
Decide_Alone(k) ==
  /\ at[k] = "decide"
  /\ warming' = k
  /\ Goto(k, "connect")
  /\ UNCHANGED <<vm, live, record, goal, hand, tabs, timer, lost>>

\* After loadFramework(): behind an acquisition in flight, or one of its own.
Decide(k) ==
  /\ at[k] = "decide"
  /\ \/ warming # None /\ Goto(k, "join") /\ UNCHANGED warming
     \/ warming = None /\ warming' = k /\ Goto(k, "connect")
  /\ UNCHANGED <<vm, live, record, goal, hand, tabs, timer, lost>>

OpenFailed(k) ==
  /\ at[k] = "got" /\ hand[k] = None
  /\ Opens(k)
  /\ NoPreview(k)
  /\ UNCHANGED <<vm, live, record, warming, tabs, timer, lost>>

-----------------------------------------------------------------------------
(* killSandbox() and pauseSandbox()                                        *)

KillLive(k) ==
  /\ at[k] = "kill"
  /\ KillVm(hand[k])
  /\ Goto(k, "unrecord")
  /\ UNCHANGED <<live, record, warming, goal, hand, tabs, timer>>

KillRecord(k) ==
  /\ at[k] = "unrecord"
  /\ Unrecord(k)
  /\ End(k)
  /\ UNCHANGED <<vm, live, warming, goal, tabs, timer>>

\* The grace period is over; without a live sandbox there is nothing to do.
TimerFires(k) ==
  /\ timer
  /\ at[k] = "idle"
  /\ timer' = FALSE
  /\ \/ live = None /\ UNCHANGED calls
     \/ /\ live # None
        /\ goal' = [goal EXCEPT ![k] = "pause"]
        /\ Goto(k, "pause")
        /\ Hold(k, live)
  /\ UNCHANGED <<vm, live, record, warming, tabs, lost>>

\* Only now is the sandbox unregistered, whichever it is.
Pause(k) ==
  /\ at[k] = "pause"
  /\ Answers(hand[k])
  /\ vm' = [vm EXCEPT ![hand[k]] = "paused"]
  /\ live' = None
  /\ End(k)
  /\ UNCHANGED <<record, warming, goal, tabs, timer, lost>>

PauseFails(k) ==
  /\ at[k] = "pause"
  /\ MayFail(hand[k])
  /\ End(k)
  /\ UNCHANGED <<vm, live, record, warming, goal, tabs, timer, lost>>

-----------------------------------------------------------------------------
(* The tabs                                                                *)

\* A socket has joined a session of the project: trackSession() begins.
Connect(t) ==
  /\ t \notin connected \cup arriving
  /\ connected' = connected \cup {t}
  /\ arriving' = arriving \cup {t}
  /\ UNCHANGED <<vm, live, record, warming, calls, leaving, timer, lost>>

\* The project is known: its pending pause is cancelled and its preview opened.
Arrive(t, k) ==
  /\ t \in arriving
  /\ at[k] = "idle"
  /\ arriving' = arriving \ {t}
  /\ timer' = FALSE
  /\ goal' = [goal EXCEPT ![k] = "open"]
  /\ Goto(k, FirstPlace)
  /\ UNCHANGED <<vm, live, record, warming, hand, connected, leaving, lost>>

\* resolveProjectId() returns null after a failed SELECT.
ArriveFails(t) ==
  /\ "db" \in Faults
  /\ t \in arriving
  /\ arriving' = arriving \ {t}
  /\ UNCHANGED <<vm, live, record, warming, calls, connected, leaving, timer, lost>>

Disconnect(t) ==
  /\ t \in connected
  /\ t \notin leaving
  /\ connected' = connected \ {t}
  /\ leaving' = leaving \cup {t}
  /\ UNCHANGED <<vm, live, record, warming, calls, arriving, timer, lost>>

\* schedulePause() replaces the timer of the project.
Leave(t) ==
  /\ t \in leaving
  /\ leaving' = leaving \ {t}
  /\ timer' = TRUE
  /\ UNCHANGED <<vm, live, record, warming, calls, connected, arriving, lost>>

LeaveFails(t) ==
  /\ "db" \in Faults
  /\ t \in leaving
  /\ leaving' = leaving \ {t}
  /\ UNCHANGED <<vm, live, record, warming, calls, connected, arriving, timer, lost>>

-----------------------------------------------------------------------------
(* E2B and the process                                                     *)

Expire(v) ==
  /\ "expire" \in Faults
  /\ Exists(v)
  /\ vm' = [vm EXCEPT ![v] = "gone"]
  /\ UNCHANGED <<live, record, warming, calls, tabs, timer, lost>>

\* The process is replaced; Redis and E2B keep what they have.
Restart ==
  /\ "restart" \in Faults
  /\ live' = None /\ warming' = None
  /\ at' = [k \in Call |-> "idle"]
  /\ hand' = [k \in Call |-> None]
  /\ connected' = {} /\ arriving' = {} /\ leaving' = {}
  /\ timer' = FALSE
  /\ lost' = lost \cup {v \in Vm : Exists(v) /\ record # v}
  /\ UNCHANGED <<vm, record, goal>>

-----------------------------------------------------------------------------
Acquire(k) ==
  \/ Load(k) \/ Resume(k) \/ ResumeFails(k) \/ Forget(k) \/ Ensured(k) \/ EnsureFails(k)
  \/ CreateFails(k) \/ Save(k) \/ Boot(k) \/ BootFails(k) \/ Unsave(k) \/ ScrapNew(k)
  \/ \E v \in Vm : Create(k, v)

Continue(k) ==
  \/ GetOrAcquire(k) \/ GetLive(k) \/ Acquired(k) \/ AcquireFailed(k)
  \/ Use(k) \/ UseFails(k) \/ Scrap(k)
  \/ Look(k) \/ Probe(k) \/ ProbeFails(k) \/ ReadRecord(k) \/ NoRecord(k)
  \/ Decide(k) \/ OpenFailed(k)
  \/ KillLive(k) \/ KillRecord(k) \/ Pause(k) \/ PauseFails(k)

Next ==
  \/ \E k \in Call : \/ Acquire(k) \/ Continue(k)
                     \/ Prewarm(k) \/ Kill(k) \/ TimerFires(k)
                     \/ \E g \in Goals : Ask(k, g)
                     \/ \E t \in Tab : Arrive(t, k)
  \/ \E t \in Tab : Connect(t) \/ ArriveFails(t) \/ Disconnect(t) \/ Leave(t) \/ LeaveFails(t)
  \/ \E v \in Vm : Expire(v)
  \/ Restart

Spec == Init /\ [][Next]_vars

Fairness == \A k \in Call : WF_vars(Acquire(k)) /\ WF_vars(Continue(k))
FairSpec == Spec /\ Fairness

-----------------------------------------------------------------------------
(* Properties                                                              *)

\* warmingSandboxes makes acquisitions exclusive: of the prewarm of a build, its
\* completion, a double build and a reopened tab, only one at a time resumes,
\* creates or boots a sandbox for the project.
OneAcquisition ==
  \A j, k \in Call : at[j] \in Acquiring /\ at[k] \in Acquiring => j = k

Held(v)  == \E k \in Call : hand[k] = v
Known(v) == live = v \/ record = v \/ Held(v)

\* No sandbox is left running or paused at E2B that nobody can reach: while it
\* exists it is registered, recorded in Redis or held by a request, unless a
\* failure, a restart or another request's deletion of the record cut it loose.
Findable == \A v \in Vm : Exists(v) => Known(v) \/ v \in lost

\* To be killed by one of the next statements of a call that has it.
Doomed(v) == \E k \in Call : hand[k] = v /\ at[k] \in {"kill", "scrap", "unsave", "scrapNew"}
Standing  == {v \in Vm : Exists(v) /\ ~Doomed(v)}

\* A project has one sandbox: a second one exists only beside one that is being
\* killed or that was cut loose as above.
OneSandbox == \A v, w \in Standing \ lost : v = w

\* A project's calls share one sandbox, while it is acquired and after.
OnePerProject == OneAcquisition /\ OneSandbox

\* "concurrent callers (prewarm vs completion, double builds) always share ONE
\* sandbox instead of leaking a second one" (createPreviewSandbox).
NoSecondSandbox == \A v, w \in Standing : v = w
=============================================================================
