------------------------------- MODULE Deploy -------------------------------
(***************************************************************************)
(* deploy_app: the app as it stands is scanned, sent to the user's own     *)
(* Vercel, followed until its build ends and then asked four questions     *)
(* (src/agents/tools/deploy-app.ts, src/deploy/vercel.ts and smoke.ts).    *)
(* Every await is a step: Vercel builds on meanwhile, and between two      *)
(* calls the model changes the app.                                        *)
(*                                                                         *)
(* Vercel is external: it refuses, accepts, or accepts and has its answer  *)
(* lost; a build ends well, in error or cancelled, and may be deleted.     *)
(* A file is a path with a version, and the scan's verdict on a version    *)
(* is given: Leaky versions have a finding that must block.                *)
(***************************************************************************)
EXTENDS Naturals, Sequences, SequencesExt, FiniteSets

CONSTANTS AppFile,    \* the paths, in the order they sort, the template's among them
          Version,    \* what a file may hold
          Leaky,      \* the versions with a high or critical finding
          Size,       \* of each path, in the unit of MaxBytes
          MaxBytes,   \* MAX_TOTAL_BYTES
          MaxPolls,   \* reads that fit in maxWaitMs
          MaxDeploys, \* calls of deploy_app
          MaxEdits

\* The build set-up the template owns in the sandbox, and the function that
\* every /api path reaches.
buildFiles == {"package.json", "vite.config.ts", "tsconfig.json", "index.html"}
Function   == "api/[...route].ts"

\* What the model's tools may write.
AppPath == Range(AppFile) \ buildFiles

ASSUME DeployAssumption ==
  /\ {"src/server/main.py", "src/server/app.ts", Function} \cup buildFiles \subseteq Range(AppFile)
  /\ Leaky \subseteq Version
  /\ Size \in [Range(AppFile) -> Nat] /\ {MaxBytes, MaxPolls, MaxDeploys, MaxEdits} \subseteq Nat

VARIABLES
  project,   \* the current files: path -> version
  connected, \* ctx.deploy: the user has a Vercel token
  edits,
  deploy,      \* deploy_app: where it is and what it knows
  vercel     \* the deployments Vercel made

deployVars == <<project, connected, edits, deploy, vercel>>

Done == {"READY", "ERROR", "CANCELED", "DELETED"}
NoDeployment == 0
Checks == {"page", "health", "login", "database"}
NotCalled == [at |-> "idle", files |-> <<>>, id |-> NoDeployment, url |-> FALSE,
         state |-> "none", polls |-> 0, passed |-> [c \in {} |-> FALSE], told |-> "nothing yet"]

\* A record with one entry more, or another one.
With(record, key, value) ==
  [k \in DOMAIN record \cup {key} |-> IF k = key THEN value ELSE record[k]]

-----------------------------------------------------------------------------
(* What is sent                                                            *)

detectDeployShape(files) ==
  IF "src/server/main.py" \in DOMAIN files THEN "fastapi"
  ELSE IF DOMAIN files \cap {"src/server/app.ts", "src/server/index.ts"} # {} THEN "hono"
  ELSE "static"

\* SKIP_RE: build output, dependencies, local state.
Skipped(path) == path \in {".env", "node_modules/react/index.js", "dist/index.html"}

\* In the order of the paths, as long as the budget lasts; a file over what
\* is left is passed over and a later, smaller one may still go.
toInlinedFiles(paths) ==
  LET Take(taken, path) ==
        IF /\ path \in paths /\ ~Skipped(path)
           /\ Size[path] <= MaxBytes - taken.used
        THEN [used |-> taken.used + Size[path], paths |-> taken.paths \cup {path}]
        ELSE taken
  IN  paths \cap FoldLeft(Take, [used |-> 0, paths |-> {}], AppFile).paths

\* Added before the budget is spent: they replace the app's own files of the
\* same name (package.json keeps its dependencies), and may be passed over.
vercelScaffold(shape) ==
  CASE shape = "hono"    -> buildFiles \cup {Function}
    [] shape = "fastapi" -> {}
    [] OTHER             -> buildFiles

Sent(files) ==
  LET scaffold == vercelScaffold(detectDeployShape(files))
      inlined  == toInlinedFiles(DOMAIN files \cup scaffold)
  IN  [app      |-> [p \in (inlined \cap DOMAIN files) \ scaffold |-> files[p]],
       scaffold |-> inlined \cap scaffold,
       shape    |-> detectDeployShape(files)]

\* Something answers at /api: FastAPI's main.py, or the function, whoever wrote
\* it.
HasFunction(sent) ==
  "src/server/main.py" \in DOMAIN sent.app \/ Function \in DOMAIN sent.app \cup sent.scaffold

-----------------------------------------------------------------------------
(* The call                                                                *)

Says(words) == [deploy EXCEPT !.at = "idle", !.told = words]

\* deployAppHandler up to its first await: the files are read here, once.
DeployApp ==
  /\ deploy.at = "idle" /\ Len(vercel) < MaxDeploys
  /\ deploy' = LET new == [NotCalled EXCEPT !.files = project]
             IN  IF project = <<>> THEN [new EXCEPT !.told = "nothing to deploy"]
                 ELSE IF ~connected THEN [new EXCEPT !.told = "not connected"]
                 ELSE [new EXCEPT !.at = "scan", !.told = "running"]
  /\ UNCHANGED <<project, connected, edits, vercel>>

\* mutant of Scan: the verdict of an earlier deployment is kept
Scan_Remembered ==
  /\ deploy.at = "scan"
  /\ \/ deploy' = Says("unknown security status")
     \/ deploy' = IF vercel = <<>> /\ Range(deploy.files) \cap Leaky # {} THEN Says("blocked")
                ELSE [deploy EXCEPT !.at = "create"]
  /\ UNCHANGED <<project, connected, edits, vercel>>

\* The scan of exactly these files: it cannot complete, it blocks, or it passes.
Scan ==
  /\ deploy.at = "scan"
  /\ \/ deploy' = Says("unknown security status")
     \/ deploy' = IF Range(deploy.files) \cap Leaky # {} THEN Says("blocked")
                ELSE [deploy EXCEPT !.at = "create"]
  /\ UNCHANGED <<project, connected, edits, vercel>>

Deployment == [sent |-> Sent(deploy.files), state |-> "BUILDING"]

\* Nothing of the app itself is left to send.
NothingLeft ==
  /\ deploy.at = "create" /\ toInlinedFiles(DOMAIN deploy.files) = {}
  /\ deploy' = Says("no files")
  /\ UNCHANGED <<project, connected, edits, vercel>>

\* create_deployment.  callMcpTool answers a failure as text, so a refusal and
\* an answer lost after Vercel acted both come back as "no deployment".
Refused ==
  /\ deploy.at = "create" /\ toInlinedFiles(DOMAIN deploy.files) # {}
  /\ deploy' = Says("no deployment to follow")
  /\ UNCHANGED <<project, connected, edits, vercel>>

Created ==
  /\ deploy.at = "create" /\ toInlinedFiles(DOMAIN deploy.files) # {}
  /\ vercel' = Append(vercel, Deployment)
  /\ \/ deploy' = Says("no deployment to follow")
     \/ \E url \in BOOLEAN :
          deploy' = [deploy EXCEPT !.at = "wait", !.id = Len(vercel'), !.url = url]
  /\ UNCHANGED <<project, connected, edits>>

\* One get_deployment: its answer may be unreadable (the state last seen
\* stays) and may or may not name the URL.
Poll ==
  /\ deploy.at = "wait" /\ deploy.polls < MaxPolls
  /\ LET asked == [deploy EXCEPT !.polls = @ + 1]
         now   == vercel[deploy.id].state
     IN  \/ deploy' = asked
         \/ \E url \in BOOLEAN :
              deploy' = [asked EXCEPT !.state = now, !.url = @ \/ url,
                                    !.at = IF now \in Done THEN "built" ELSE "wait"]
  /\ UNCHANGED <<project, connected, edits, vercel>>

GiveUp ==
  /\ deploy.at = "wait" /\ deploy.polls = MaxPolls
  /\ deploy' = [deploy EXCEPT !.at = "built"]
  /\ UNCHANGED <<project, connected, edits, vercel>>

\* mutant of stillRunning: only a state never read counts as running
stillRunning_Unread(state) == state = "none"

\* A state that is not terminal when the time is up is no verdict.
stillRunning(state) == state \notin Done

Judge ==
  /\ deploy.at = "built"
  /\ deploy' = IF deploy.state # "READY"
             THEN Says(IF stillRunning(deploy.state) THEN "may still be building" ELSE "finished badly")
             ELSE IF ~deploy.url THEN Says("ready without URL")
             ELSE [deploy EXCEPT !.at = "smoke"]
  /\ UNCHANGED <<project, connected, edits, vercel>>

-----------------------------------------------------------------------------
(* The four questions                                                      *)

\* What the deployed site can answer: only what it is made of.  An app with
\* no function has nothing at /api.
Statuses(deployment, check) ==
  IF deployment.state # "READY" THEN {0, 404}
  ELSE IF check # "page" /\ ~HasFunction(deployment.sent) THEN {0, 404}
  ELSE {0, 200, 302, 401, 404, 500}

AcceptedCodes == [page |-> {200, 302}, health |-> {200}, login |-> {200, 401}, database |-> {200}]

\* smokeCheck: one request; they run side by side, in any order.
Ask ==
  /\ deploy.at = "smoke"
  /\ \E c \in Checks \ DOMAIN deploy.passed : \E status \in Statuses(vercel[deploy.id], c) :
       deploy' = [deploy EXCEPT !.passed = With(@, c, status # 0 /\ status \in AcceptedCodes[c])]
  /\ UNCHANGED <<project, connected, edits, vercel>>

Answered(passed) == \A c \in Checks : passed[c]

\* runSmokeTests' verdict, and formatDeployForUser.
Report ==
  /\ deploy.at = "smoke" /\ DOMAIN deploy.passed = Checks
  /\ deploy' = Says(IF Answered(deploy.passed) THEN "live" ELSE "deployed, not answering")
  /\ UNCHANGED <<project, connected, edits, vercel>>

-----------------------------------------------------------------------------
(* Meanwhile                                                               *)

\* The model's tool calls come one at a time: the app changes between two
\* calls of deploy_app, never during one.
ChangeApp ==
  /\ deploy.at = "idle" /\ edits < MaxEdits
  /\ \E p \in AppPath, v \in Version : project' = With(project, p, v)
  /\ edits' = edits + 1
  /\ UNCHANGED <<connected, deploy, vercel>>

VercelEnds ==
  /\ \E i \in DOMAIN vercel, state \in {"READY", "ERROR", "CANCELED"} :
       /\ vercel[i].state = "BUILDING"
       /\ vercel' = [vercel EXCEPT ![i].state = state]
  /\ UNCHANGED <<project, connected, edits, deploy>>

Deleted ==
  /\ \E i \in DOMAIN vercel :
       vercel[i].state # "DELETED" /\ vercel' = [vercel EXCEPT ![i].state = "DELETED"]
  /\ UNCHANGED <<project, connected, edits, deploy>>

DeployStart(apps) ==
  /\ project \in apps /\ connected \in BOOLEAN
  /\ edits = 0 /\ deploy = NotCalled /\ vercel = <<>>

DeployNext ==
  \/ DeployApp \/ Scan \/ NothingLeft \/ Refused \/ Created
  \/ Poll \/ GiveUp \/ Judge \/ Ask \/ Report
  \/ ChangeApp \/ VercelEnds \/ Deleted

-----------------------------------------------------------------------------
(* Properties                                                              *)

\* Where a call is, what it follows and what it was told fit together.
DeployTypeOK ==
  /\ deploy.at \in {"idle", "scan", "create", "wait", "built", "smoke"}
  /\ deploy.id \in 0 .. Len(vercel) /\ deploy.polls \in 0 .. MaxPolls
  /\ deploy.at \in {"wait", "built", "smoke"} => deploy.id # NoDeployment
  /\ DOMAIN deploy.passed \subseteq Checks
  /\ \A i \in DOMAIN vercel : vercel[i].state \in Done \cup {"BUILDING"}

\* No code with a finding that blocks is at Vercel, however often the app was
\* changed and deployed again after a scan that passed: each call scans the
\* files it read and sends those (deploy-app.ts 21-46).
OnlyScannedShips ==
  \A i \in DOMAIN vercel : Range(vercel[i].sent.app) \cap Leaky = {}

\* What the user hears of a deployment is so and stays so: one that finished
\* badly is never served later, and one called live has answered on every
\* count, which an app without a function cannot (deploy/vercel.ts 496-537,
\* smoke.ts 93-116).
WordsHold ==
  /\ deploy.told = "finished badly" => vercel[deploy.id].state \in {"ERROR", "CANCELED", "DELETED"}
  /\ deploy.told = "live" =>
       /\ vercel[deploy.id].state \in {"READY", "DELETED"}
       /\ HasFunction(vercel[deploy.id].sent)
       /\ Answered(deploy.passed)

\* What is served was scanned, and what is said of it is so (deploy-app.ts,
\* deploy/vercel.ts, smoke.ts).
DeployedAsTold == OnlyScannedShips /\ WordsHold

\* "Nothing was changed", "Tell me and I'll try again": said only where Vercel
\* has no deployment of this call (vercel.ts 560-563).  Not so: an answer
\* lost, and a build that takes long, are both told in these words.
NothingWasDeployed ==
  deploy.told \in {"no deployment to follow", "may still be building"} =>
    \A i \in DOMAIN vercel : vercel[i].sent # Sent(deploy.files)

\* Everything the app needs to build goes with it.  Not so for an app whose
\* backend is src/server/index.ts alone: the function imports app.ts.
FunctionHasItsApp ==
  \A i \in DOMAIN vercel :
    Function \in vercel[i].sent.scaffold
      => "src/server/app.ts" \in DOMAIN vercel[i].sent.app
=============================================================================
