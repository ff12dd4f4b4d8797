# Lampcode in TLA+

Lampcode is a server that turns prompts into running web applications: a Hono
HTTP API, a Socket.IO server, a long background runner per build that talks to
model providers, an E2B sandbox per project for the preview, a Postgres database
(Drizzle), Supabase storage, Redis, and connected services reached over MCP.
Everything runs in one Node process, so the interesting interleavings are those
of `async` functions at their `await`s, of timers and sockets, of the process
with its own restart, and of the process with services that fail half way.

Paths below are relative to `src/` of the repository, whose code is itself under
`src/src/`. `PROJECT.json` holds the runs, the mutants, the lines every
definition models, the finding, the hazards and the theorems.

Each section on a module ends with what was "also seen": disagreements between the
code and its own words that were met while modelling. Where one names a definition, TLC
finds it violated on an instance like that of the module's run; the definition stands in
the module, without a run of its own. The others were seen by reading.

## 1. Inventory

For each part: the state it keeps, its operations, whom it meets, and what makes it
correct. The list of hazards, each with its line, is in `PROJECT.json`.

| Part | State | Operations | Meets | What makes it correct |
|---|---|---|---|---|
| Build lifecycle, `server/routes/build.ts`, `server/index.ts` | `build_sessions.status`, `projects.status` (database); `runningSessions`, `cancelledSessions` (process) | POST /fast, `runFastBuild()`, POST /:id/cancel, `failRunningBuildsOnShutdown()`, boot | everything below | one terminal status per build; a cancelled build stays cancelled; no row and no project stuck; the client always hears an ending; all of it across a redeploy |
| Write approvals, `agents/pending-approvals.ts`, `agents/tools.ts`, `agents/tools/shell.ts` | map id -> waiting call; a denial flag per round; armed timers | register, prompt, decide, time out, sweep, run | dispatcher, sockets | nothing runs without a yes to it; one denial ends the round; no call waits for ever |
| Questions and the app's database, `agents/pending-answers.ts`, `agents/tools/ask-user.ts`, `server/database-prompt.ts`, `mcp/supabase-mcp.ts`, `verify/data-layer.ts` | map id -> question; two stored credentials; preview environment; the tables in the user's Supabase | ask, answer, time out, sweep; connect, disconnect; apply schema; close | build, sockets, Supabase | the build goes on without its user; an accepted answer is used; what is said of database and tables is so |
| Websocket server, `websocket/server.ts`, `websocket/handlers/build-handler.ts` | rooms, the session of each socket, Redis replay buffer, pending pause timers | join, track, leave, replay, settle, pause | builds, approvals, sandboxes | a reconnecting client sees every event once, in order, and an ending |
| Message recorder, `websocket/message-recorder.ts` | next number, open text, chat rows | record, flush, load | websocket server | rows are numbered in the order the user saw; none is turned away |
| Event recorder, `server/build-events.ts`, `verify/outcome-projection.ts` | events of a build, pending batch, flush in flight | record, flush, project | builds, dispatcher | a verdict shown as fresh is about the files delivered |
| Dispatcher, `agents/dispatcher.ts`, `agents/retry-policy.ts` | tiers, tries, rounds, messages, verdicts of checks, cumulative cost | dispatch, retry, tool loop, cost guard | gateways, tools, billing | bounded rounds and retries; each announced call is told its end |
| Model streams, `agents/model-gateway.ts`, `agents/modal-gateway.ts`, `agents/reasoning-*.ts`, `agents/stream-handler.ts` | held-back text, fragments of calls, fences and file events | delta to chunk, split, route, handle | dispatcher, sockets | thinking, answer, files and calls do not depend on how the reply was cut up |
| Reply parsing, `agents/file-parser.ts`, `agents/file-diff.ts` | file maps of a build | parse, splice an edit, merge | build, repair loops | a reply gives the files it states; other files stay |
| File tools, `agents/file-deletion.ts`, `agents/tools/{write-files,edit-file,delete-file,revert,checkpoint}.ts`, `storage/project-files.ts` | baseline, generated files, tombstones, checkpoints; sandbox copy; stored copy | write, edit, delete, checkpoint, revert, persist, restore | sandbox, storage | what a reply claims is true of all copies |
| Code analyses, `verify/{architecture,dead-code,import-graph,review-units,code-review}.ts` | none; a review's budget | resolve, cycles, orphans, cut, review | build | no cycle missed, no cut that breaks the code, coverage told honestly |
| Completion audit, `verify/completion-audit.ts`, `verify/audit-repair.ts` | criteria, audit, snapshot | extract, judge, repair, judge again | build, dispatcher | the record is borne out by the files delivered; a repair does no harm |
| Billing, `build/credits.ts`, `billing/paddle.ts`, `server/routes/{billing,webhooks}.ts` | plan, limit, usage, rollover, top-up, period; claimed keys | lazy rollover, deduct, activate, downgrade, top up, claim | dispatcher, webhooks | money is credited once and spent only by usage; the limit is a plan's |
| Preview sandboxes, `preview/e2b-service.ts`, `lib/redis.ts` | live sandboxes, warming promises, Redis record | warm, acquire, resume, write, pause, kill, restore | builds, sockets | one sandbox per project; none out of reach |
| Connected services, `mcp/*`, `server/routes/integrations.ts` | OAuth transactions, connection rows, sessions being refreshed | start, callback, connect, call, disconnect | tools, providers | a code is redeemed once; a row keeps its own, newest token; a call runs at most once |
| Service tools, `agents/mcp-tool-classifier.ts`, `agents/tools/{github,vercel,rest,supabase}-*.ts` | registries of a dispatch, denial flag | discover, classify, offer, call | dispatcher, approvals, services | what runs unasked reads; what is listed can be called; done means done |
| Deployment, `agents/tools/deploy-app.ts`, `deploy/*` | none here; deployments at Vercel | scan, send, poll, smoke | service | only scanned code is served; the words about it are so |
| Projects, brain, memory, env, settings, users | rows, one file of rules | create, update, archive, version | - | unique slugs and versions; writes add up |
| Prompt building, classification, other checks | none | text to text, files or pages to findings | dispatcher | total; only their verdicts reach the state modelled here |
| Auth, limits, configuration | rate-limit windows, freeze flag | guards before handlers | - | guards hold at window boundaries |

How they interact, in one build: POST /fast reads the project row, checks the
budget, inserts the session row and hands over to the runner with
`setImmediate`. The runner registers itself, marks the project, asks about the
database, dispatches to a model (whose tool calls write files, ask the user, or wait
for approval over the websocket), parses and writes files, previews and repairs them in
the sandbox, reviews and audits them, and finally closes both rows and emits the ending.
The cancel handler and the SIGTERM handler act on the same rows and sets at any point in
between.

## 2. Plan

In order of importance; all but the last item is done.

1. **BuildLifecycle** with **BuildLifecycleProofs**.
2. **PendingEntries**, **Approvals**, the abstract **WriteConsent** and
   **ApprovalsProofs**. Approvals implements WriteConsent.
3. **Billing**, the abstract **TopUpLedger** and **BillingProofs**. Billing
   implements TopUpLedger.
4. **ProjectFiles** and **ProjectFilesProofs**: memory, sandbox and storage copies
   under writes, deletes, checkpoints and reverts that fail half way.
5. **PreviewSandbox** and **PreviewSandboxProofs**: warming, resuming, pausing,
   killing, with the pause timers of the websocket handlers.
6. **ChatHistory** and **ChatHistoryProofs**: broadcast, replay buffer, chat rows,
   settling.
7. **ToolLoop**, **BuildEvidence** on top of it, and **EvidenceProofs**: the dispatch,
   and from its end to the recorded outcome.
8. **Connections** and **ConnectionsProofs**: OAuth, rows, refresh, calls.
9. Eight smaller modules around a build, checked together by **MCWorkbench**:
   **ModelStream**, **Workspace**, **CodeGraph**, **CompletionAudit**, **ServiceTools**,
   **Deploy**, **ReplyFiles**, **AppDatabase**. The proofs about AppDatabase and
   ServiceTools are at the end of **ApprovalsProofs**, since questions and write tools
   wait in the maps that it is about; those about Deploy are at the end of
   **ProjectFilesProofs**, whose files a deployment sends, with those about Workspace;
   those about ReplyFiles at the end of **ChatHistoryProofs**, since its replies are those
   of a chat; those about ModelStream are at the end of **BuildLifecycleProofs**, whose
   builds are made of replies, and those about CompletionAudit and CodeGraph at the end of
   **ConnectionsProofs**, with which they share nothing but a file.
10. Left: an abstract file map with atomic
    operations, which ProjectFiles implements; the rate limiter's window; liveness of
    PreviewSandbox's requests, whose fairness (`FairSpec`) it already states.

The runs are few and each asks a question of its own; a later module replaces a
run that has said what it had to say rather than adding variants of it.

Each module keeps to these rules so that it can be proved about: parameters are
CONSTANTS with named assumptions, one action per operation, invariants are
conjunctions of named parts, no RECURSIVE operator in a module with theorems. A checked
property is often a conjunction of named parts (`AccountedFor`, `ReplyComesThrough`, ...);
each part has a comment of its own in the module, and mutants of its own.

## 3. BuildLifecycle

**What is modelled.** `row` and `proj` are `build_sessions.status` and
`projects.status`. `runningSessions` and `cancelledSessions` are the two sets of
`build.ts:146-150`. `fast`, `runner` and `cancel` hold, for each session, the await
its handler has reached; an action is the code from one await to the next, and a
database write takes effect in the action that awaits it. `pend` holds the writes
of a `Promise.all()` that have neither landed nor rejected: they land in either
order, and the second may land after the first has rejected and the runner has
gone on. `server` and `closing` are the process and the UPDATE of its SIGTERM
handler; `told` collects the terminal events emitted to the session's room.
`early` observes, and changes nothing: the sessions whose cancellation was
flagged while the runner still had a check of the flag ahead.

| Place of `runner` | Code |
|---|---|
| `start` | from the registration at 813 to the first `Promise.all` |
| `reject` | the unsupported-runtime refusal, 887-911, before the try block |
| `generating` | the query branch and the generation dispatch, up to the check at 1818 |
| `parsed` | parsing, retries, gates and the write loop, up to the check at 2463 |
| `verifying` | preview, repairs, audits, up to the outcome |
| `queryRow`, `queryProj`, `completeRow`, `completeProj` | the terminal writes |
| `abort` | a cost ceiling or gate inside the try block closing both rows |
| `failRow`, `failProj` | the catch block |
| `ok`, `failed`, `stopped`, `action`, `rejected`, `threw`, `lost` | how it ended |

**Environment.** `Faults` chooses what may go wrong: a statement rejects (`db`), a
redeploy (`sigterm`: the handler runs, its UPDATE may fail, then the process is
gone), a crash (`crash`). Restarting reads no build state, because the code reads
none. `Prompts` chooses the kinds of request.

**Abstractions.** The stages between checks are single steps that may throw; what
they do to files, sandboxes and money belongs to other modules. The write loop's
check per file (2331) and the check after it (2463) are one look, since a loop that
breaks goes straight to 2463. All the cost and security aborts (2046, 2222, 2641,
2674, 2716, 2846, 2871) have the shape of the first and are one action. The
attributes of rows other than the status, and archived projects, are left out.

**Runs.** Every conflict in this code is between two handlers of one session, two
sessions of one project, or a handler and the process, so two sessions on one project
is the smallest instance that has them all. No counter needs a bound: each session is
requested once. Sessions are symmetric except under fairness, where no symmetry is
used. Deadlock is not checked: when the requests are over the system rests.

- `build_process`: two sessions, shutdown, crash and restart, every safety property.
  Its prompts are an app and an unsupported runtime: they have all the writes, the
  cancellation checks and the refusal outside the try block.
- `build_fair`: one session, all four kinds of prompt, failing statements, under
  fairness. No handler of a session waits for another session, so one is enough for
  liveness. Failing statements and two sessions together are beyond TLC's minutes;
  the safety properties under all faults and any sessions are proved.

**Fairness.** Weak fairness of each started handler: every await in them is a
database call with a pool timeout, a stream with a timeout, or a wait bounded by
`POST_BUILD_WAIT_MS`; `setImmediate` always runs. No fairness is assumed of
users (a request or a cancellation need never come) nor of faults. A redeploy or a
crash is off in the fair run: what it interrupts does stay open, and
AccountedFor says exactly when.

**What is proved**, for any sets of sessions and projects, every kind of prompt
and all faults: TypeOK, EarlyCancelNeverDelivers, NoSilentEnd, RowClosedOnce, and
AccountedFor with its three parts (RunningRowAccountedFor, BuildingAccountedFor,
ShutdownFindsBuilds). Only ShutdownFindsBuilds and the types are inductive alone. `IInv` adds: a flag that was raised
early is still in `cancelledSessions` or the runner has stopped; a session's row is
"none" exactly until its INSERT; a runner exists only for a session that was
accepted, and a cancellation only for an inserted row; writes are pending only in
the places that start them or after a rejection; what `told` already holds in each
place. The step lemmas (SessionStep, BuildingStep, ShutdownStep) take one action
at a time. `ClosedInv`, on top of it, says where a runner that closed its row can be:
past its terminal write, or, a statement having failed, before the one that records it.

**Only model-checked:** ClientHears and RowSettles (liveness).

**Also seen.** An action-only answer (1904-1927) tells the client that the
build is complete and returns without closing row or project (`CompletionClosesRow`);
SIGTERM closes the rows of running builds and not their projects (170-188), so that
after a redeploy a project may refuse every build (`RunAgainIsPossible`);
a cancellation after the check at 2463 is answered with 200, and 4973-4984 then
write the success by id, so a cancelled build is delivered, against the comment at
5552 ("Signal the background runner to stop before writing the next file");
two requests may both pass the 409 check before either runner marks the
project; a cancellation that lands before the runner has marked its project is
followed by that mark, so the project stays "building" although the row says
"cancelled"; a build interrupted by SIGTERM can still be recorded as a success
while the process drains ("Nothing was saved"); the refusal at 910 returns before
the try block and so never leaves `runningSessions`, against the comment at
811-812; a build accepted and not yet registered when SIGTERM arrives keeps its
row "running".

## 4. Approvals

**What is modelled.** `PendingEntries` is the map of `pending-approvals.ts` as pure
operators: `Register` is `Map.set` (and so replaces), `Settle` compares the stored
session, `Sweep` deletes a session's entries. `Approvals` is the gate around it. A
session runs the calls of one model response in sequence, so its calls are numbered
and the last is the only one that can wait; `ident` gives each the id the provider
sent. `roundStart` and `writeDenied` are the dispatcher's round and its flag;
`timers` are the `setTimeout`s still armed, which nothing clears; `joined`,
`tracking` and `active` are, per socket, its rooms, the replay it is awaiting, and
`activeSessionId`. `yes` observes which calls' prompts were answered yes.

`UniqueIds` says whether the provider never repeats an id. The code relies on it
nowhere explicitly, so the theorems are split: what holds with unique ids, and
what still holds when calls share one (`OwnSessionConsent`, `EntriesWait`, `FailAll`).

**Abstractions.** A decision answers some prompt of a session in whose room the
socket is, at any time, however late. A call that needs no approval is not a
call here. One replay at a time per socket. `Disconnect` ends a socket; the
code's reconnect makes a new one, and the model reuses the name.
The tool's execution is the single step `Run`: what it does is external.

**WriteConsent** is what the gate promises, without map, timers or sockets: a write
is asked for, then approved or refused once, runs at most once and only when
approved. `KeepsPromise` is the refinement under
`stage <- Stage(state)`, checked by TLC and proved.

**Run.** `approvals`: one session with two tabs and three calls (enough for
two rounds, a denial in the middle of a round, and a timer of an earlier call
meeting a later one), under fairness. `MaxCalls` is the only bound. Deadlock is checked:
sockets can always come and go. Ids are unique in the run, so no entry replaces another's in it,
nor in any other run (see the end of this section).

**Fairness.** Timers fire and approved tools return (30 s race in
`mcp/call-tool.ts`, command timeout in the shell); users, models and sockets owe
nothing.

**What is proved.** For any sessions, sockets, ids and `MaxCalls`: TypeOK,
EntriesWait, FailAll and OwnSessionConsent; with unique ids Consent, EntriesMatchCalls
(EntriesWait and Answerable), TimersEndTheirOwn, and that Spec implements WriteConsent!Spec. The invariant
behind them relates the three places a waiting call is recorded: only the last
call of a session waits; its entry, if the map still has it under its session,
is that call's; calls beyond the counter have no id, and with unique ids no two
calls share one; a call that is approved or ran has a yes recorded under its own
id. `Decided` is liveness and stays with TLC.

**By design, and worth knowing:** one tab's disconnect denies a call that another
tab of the same user could still answer (the comment at `build-handler.ts:468`
assumes "the user is gone"); with repeated ids a stale timer denies a later call.
Also with repeated ids, seen with TLC by checking `Answerable` without `UniqueIds`:
a second session's `Map.set` (`pending-approvals.ts:19-23`) replaces the first one's
entry, whose call then waits for its timer alone, against the header of that file
("Each entry lives until the user decides, the 120 s timeout fires, or the
session's WS disconnects").

## 5. Billing

**What is modelled.** The columns of one user's `user_billing` row are variables;
`periodOver` is `now > currentPeriodEnd`. The code runs SQL statements without
transactions, so a statement is the unit of interleaving: a request that reads the
row before it writes it is a call, `at[k]` the statement call `k` is about to send,
and `job`, `event`, `seen` and `left` its locals (what it applies, for which webhook
event, what it read, which items of a top-up are still to be added). A request of one
statement (Stripe's webhooks, the admin's grant) is one action. `claims` are the
unique keys of `paddle_processed_events`. `content` and `acked` are Paddle's side: what
an event says, and whether it got its 200. `credited` and `dropped` observe.

| Place | Statement |
|---|---|
| `claimEvent`, `claimTxn` | the inserts of `claim()`, `paddle.ts:91-98` |
| `period` | the read of `ensureCurrentPeriod()`, `credits.ts:51-76` |
| `roll` | its write, 81-94, computed from that read |
| `apply` | `deductUsage()`'s UPDATE, `addTopUp()`'s, or a read for a page or a check |
| `readPlan`, `activate`, `downgrade` | `applyPaddleSubscription()`, `paddle.ts:160-229` |

**Abstractions.** One user: the rows of two users meet in no statement. Money is
counted in natural numbers, as multiples of one unit; the items of one transaction
have one price. Events carry what Paddle's payload parses to. `cancelAtPeriodEnd`,
past-due subscriptions, payloads without a user id, checkout and invoices are left
out. A sync of a transaction and a sync of a subscription are two requests.

**Runs.** `billing_account`: two calls, a free and a paid plan with a rollover, one
top-up, two events, a Stripe sale, a grant and crashes: any two requests may
interleave at every statement. `billing_topups`: a transaction of two items, three
calls (a delivery, its retry and a sync), failing statements and crashes, with
fairness. Allotments of 1 and 2, a cost of 1 and
grants of 3 make every comparison of the code go both ways. Counters need no bound:
usage stops at the ceiling and top-ups are finite. Symmetry (calls, events) is used
in the safety run only.

**Fairness.** A request under way goes on; Paddle retries an event until it is
answered with 200 (its documented behaviour, on which `webhooks.ts` relies); and the
claim of an event that is delivered again and again is not rejected every time.

**What is proved**, for any plans, prices, transactions, events, calls and faults:
TypeOK, CreditedOnce, AllotmentKept (AllotmentOfOnePlan and OverrunOnlyAfterDowngrade),
TopUpIsSpentLast and that Billing implements TopUpLedger. `IInv` adds what a call is doing in each
place (`CallsOK`), that the one call crediting a transaction has left exactly what
is still to be credited and nobody credits an unclaimed one (`CreditsOK`), and that a
rollover still to be written fits the plan it was computed for (`SeenOK`).
PaidIsCredited is liveness and only model-checked. It allows for `dropped`: the claim
is inserted first (`paddle.ts:258-261`), so a call that fails after it leaves money
that no retry will credit.

**Also seen.** Top-up money does not survive a cancelled subscription whose usage
exceeds the lower limit (`TopUpPersists`: `db/schema.ts:1015` against
`paddle.ts:128-142`). A rollover computed from an old read may be
written after an activation and put the old plan's limit on the new plan; the second
of two concurrent activations resets the usage again; Stripe's renewal moves
`currentPeriodEnd` before the lazy reset has seen the old end pass, so the usage of
the ended period is never reset; after a downgrade the page shows top-up money that
`assertHasBudget()` refuses to count. Webhooks delivered out of order leave an older
plan in place, which the code does not claim to prevent.

## 6. ProjectFiles

**What is modelled.** A project has several copies while a build works on it:
`baseline` (`projectFiles`, what the build loaded), `generated` and `deleted` (its
edits and tombstones), the files in the sandbox (`live`), the objects in storage
(`stored`), the checkpoints, and the output directory of the last successful build
(`disk`), from which the next one loads. `Current` is `currentProjectFiles()`. Tool
calls run one after the other (the loop of `agents/dispatcher.ts:871`), so one handler
is at work: `place` is the await it has reached, `given`, `todo`, `tried` and `cur` are
its locals. Every await may fail, and a call that fails may have taken effect or not.
`late` holds the uploads that lost the 15 s race of `persistFilesAsWritten()` and may
still land, at any time later, in later builds too.

Around the tools, `Finish` stores the build's output when the dispatch has returned
(place "save"), `Outcome` delivers it (from "verify" to "over") and records it a
success or, when a gate failed, only completed; `NextBuild` loads what `loadProjectFiles()`
finds for the last success: its directory, or the stored files when the directory is
gone. It may follow a delivered build, one that failed between two tools or in its
verification, or a `Restart` ("lost"), which takes the memory and the directories.

`unsureLive`, `unsureStored` and `abandoned` observe: a path is in the first two when
the copy did not agree at the start of the build (a fresh sandbox, a file beyond the
context cap), or a reply or a log line has since said that its copy is incomplete,
and leaves them when the copy is written again. So CopiesInStep (LiveInStep and StoredInStep) says
that a handler never leaves a copy out of step without saying so. `abandoned` is
never reduced, because an abandoned upload has no deadline.

**Abstractions.** A file's content is a model value; paths that the tools refuse
(template-owned, entry points for `delete_file`, unsafe) are no path of the model.
`edit_file` may turn a file into any other content. What a build knows of the
project is, with the fault "cut", any subset of it: the cap `MAX_EDIT_CONTEXT_CHARS`
cuts by size. The files the repair loops change after the store of `Finish` are left out,
so what is delivered is what was stored; a build that writes no file does not finish. A
build told of no file starts its directory empty (`preserveExistingFiles`). The push to
the sandbox writes its files at once; when it fails, any of them. The background sync
at the end of a build uploads the same files as the store after the dispatch and is
one action with it; an upload still under way at the next build is a `late` one.

**Run.** `files_faults`: two paths, one content, one checkpoint with two labels (so
that one is evicted and one replaced), the sandbox and the storage failing anywhere,
uploads that time out, and the context cap. Two paths are a revert that fails on its
second path and rolls back its first, and a delete that succeeds for one and fails for
the other; a path is there or not, which with one content is the difference a copy can
show. The proofs are for any contents. No counter is unbounded.

**Fairness.** None is assumed and no liveness is claimed: a tool call is
bounded by the timeouts of the two services, which are not in this code.

**What is proved**, for any paths, contents, labels and faults: TypeOK, CopiesInStep
with its two parts, and RevertAllOrNothing. `IInv` adds `LateOK` (an upload that may land
was abandoned) and `HandlerOK`: in each place, what the handler has already
done; that what a build was told of is what its directory starts from, so that the
store at its end agrees with what it believes; and above all that during a revert the paths ahead and the paths begun are
together exactly those that differ from the checkpoint, and that those finished have
the checkpoint's content in both copies. The lemma behind the commit is
`CheckpointApplied`: `applyCheckpointToState()` makes the current project equal to the
checkpoint, baseline, tombstones and all.

**Also seen.** What the next build knows of a file is not always what the last delivered
one left (`CarriesOn`): a build recorded "completed" is shown to the user, and 921 looks
for the last "success" only, against 936-937 and 4961-4967. A build that failed after its tools stored their files, or was cut off by
a restart before any success, leaves them in storage, where no later build looks while a
success is on disk, though `project-files.ts` stores them to be recoverable. An upload
that times out in the store after the dispatch, followed
by `delete_file` and then the upload's landing, brings the deleted file back in
storage: TLC finds it with the property "a deleted path has no stored copy", which is
what `project-files.ts:152` says the deletion is for. By reading: `delete_file` reports
a file beyond the context cap as "already absent"; a revert may delete an entry point
that `delete_file` protects.

## 7. PreviewSandbox

**What is modelled.** No two projects meet in `preview/e2b-service.ts`, so it is modelled
for one. `vm` is E2B's view of each sandbox (none, running, paused, gone); `live` is the
entry of `sandboxes`, `record` the id in Redis, `warming` the call whose promise is in
`warmingSandboxes`, `timer` the pending pause. A request under way is a call: `at[k]` is
the await it has reached (`load`, `connect`, `create`, `save`, `boot`, `wait`, ...),
`goal[k]` what for, `hand[k]` the sandbox it holds. Tabs connect, are restored, disconnect
and arm the timer as `build-handler.ts` does. Requests are prewarm, create, write, open
and kill.

**Environment.** `Faults`: a request to E2B, Redis or the database fails; E2B reclaims a
sandbox (`expire`); the process ends (`restart`). `lost` observes the sandboxes that one of
these, or another request's deletion of the record, may have cut loose; the properties say
that nothing else does.

**Run.** `preview_shared`: two sandboxes, two requests at a time, one tab, every fault.
Two of each are enough for a second acquisition, a second sandbox and a record that names
another sandbox than the map. No fairness is assumed and no liveness claimed.

**What is proved**, for any sandboxes, requests, tabs and faults: TypeOK, OnePerProject
(OneAcquisition and OneSandbox) and Findable. OneAcquisition needs that the acquiring call
is the one in `warming` (`Exclusive`). `IInv` adds who may hold a sandbox (`HandThere`),
that a sandbox just created is held or recorded (`Created`, `Recorded`), what a call holds
in each place (`Given`, `Opening`), and that map, record and hands name one sandbox unless
it is in `lost` or about to be killed (`Clear`, `Same`).

**Also seen.** With three sandboxes and `expire` alone a second one exists beside the first
(`NoSecondSandbox`), against "double builds always share ONE sandbox": a reopened tab reads
the record of v1 and awaits E2B; a prewarm finds v1 gone, creates v2 and records it; the
tab's stale resume fails and deletes the record it did not read (against 2237-2241); after
a pause the next prewarm finds no record and creates v3.

## 8. ChatHistory

**What is modelled.** What the clients of one session see of its events, and who tells
them. `runner` is `runFastBuild()`, `cancel` each request of POST /:sessionId/cancel,
`stopping` the shutdown: all three close the row and tell an end, and none waits for
another. The runner does not look at the row: after a cancel or a shutdown it goes on
emitting until it reaches a check of the flag (1817, 2331, 2463, 5186). `emitted` is the list
of events by kind; `pushing` and `buffer` the pushes on their way to Redis and the list there;
`seq`, `open`, `inserts` and `stored` the message recorder's entry and its rows, and `first`
says whether that entry is still the one made when the build began: an error and an end drop
it, and whatever is recorded next makes another, which counts from 0
(`message-recorder.ts:238-243`). Per socket, `place` is the await of `join_session`,
`reply` what Redis answered, and `view` what the client shows. `missed`, `unpushed`,
`unkept`, `taken` (every row there ever was, with its number) and `restarted` (the messages
numbered from 0 again) observe.

**Run.** `chat_replay`: one socket that joins, reloads and leaves, and `MaxEvents = 3`: an event
before, during and after the replay, or a text, what closes it and what comes after an end. A
behaviour has one fault (`MaxFaults = 1`) of any kind: a Redis or database failure, an expired
buffer, a retried attempt, a restart; or its end is told by a request to cancel or by a
shutdown, which the process may or may not survive, while the runner goes on. In those the socket
is in the room and stays, or is out and joins when all is at rest (`MCNext`): a replay that a
cancel interrupts is one that any event interrupts. No fairness.

MessagesKept says when a row may be missing: its INSERT failed, a restart came first, or it
shares its number with another and one of the two was numbered from 0 again. So a message
recorded while the first entry lasts is turned away only for one that came after an error, an
end or a restart.

**What is proved**, for any sockets, requests to cancel, number of events and all faults:
TypeOK, ViewInOrder, NothingElseIsMissed and MessagesKept. Three arguments meet in `IInv`.
*Redis:* `buffer` followed by `pushing` rises (`BufferRises`), for there is one connection, and
the two with `unpushed`, to which an expired buffer goes, hold every event (`BufferHolds`).
*Sockets:* one in the room has every event in what it shows or in `missed`; while an answer waits
to be handled the events are in the answer instead (`NobodyLeftOut`), so whatever the replay
drops is named. *Rows:* as long as the recorder has its first entry, `seq` is above every
number taken and the open text is later than every message written (`NextIsFree`); so the numbers
of what it recorded are distinct (`NumbersDiffer`) and follow the events (`RowsOrdered`), and the
index turns a row away only for one of those restarted. That the history read back is in that
order rests on `Ranks`: rows with distinct numbers have distinct ranks, and every rank from 0 on
is some row's, a counting argument over finite sets.

**Also seen.** `SeqIsOrderSeen`: the numbers are the order in which the user saw the messages
(`db/schema.ts:1127`). It takes a cancel and no fault to violate it: the first end that is told
drops the entry, and what is told after it, by the runner on its way to the flag or by the other
of the two, is numbered from 0, where the index turns it away or it sorts before the build's own
first messages. A shutdown, and an attempt that fails and is followed by another, do the same.
By reading: an event emitted while the list is being read is shown live and
then dropped by `build:replay_start` (`build-handler.ts:85-90`); a terminal event that Redis
never got, with a non-empty buffer, leaves the client without an ending; a failed LRANGE
returns 0, and so a live build may be settled as finished; the eviction at
`MAX_TRACKED_SESSIONS` restarts the numbers; what is told after a buffer has expired makes a new
one with that event alone, which is all that a reopened tab is shown.

## 9. ToolLoop and BuildEvidence

**What is modelled.** ToolLoop is the dispatch: models to try and retries, rounds of a
reply and its tool calls, corrections, the cost ceiling, the checks a model may run, and
the events told of it. BuildEvidence extends it from `build.ts:1817` to the recorded
outcome: the repairs in memory, the cut of dead code, the preview chain (a second process,
given up after 240 s), the checks run again, the audit, its repair and the outcome. The
files are a version number: every change makes a new one, and every verdict keeps the
version it is about (0 for a sandbox out of step). Events are kept folded, as
`projectOutcome()` folds them (`seen`, `seenOf`). `gap[g]` observes why a verdict that reads
as fresh may be about another version, `unstored` why storage may hold one.

A revert tells of `files/written` only for a generated file that changed or a path that is
newly deleted (`dispatcher.ts:940-954`); one that merely takes generated files away
(`checkpoints.ts:118-132`) tells of nothing, which is the gap "reverted". The audit's repair, and
its being put back, are written to the sandbox before the event is recorded (4542-4550,
4596-4600); OutcomeHonest does not speak of those two awaits ("push repair", "push revert").

Storage fails too. An upload is refused, which is only logged, or given up after 15 s and goes
on (`project-files.ts:88-120`; `late`), to land whenever it likes; the sync of 3443-3454 may
fail. Nothing is tried again: only the next upload of everything makes good an earlier one.

**Run.** `evidence_outcome`: two checks, two models with one retry, two rounds of two calls, three
changes, and all faults (a reply breaks off, the sandbox refuses a write, a check cannot run, the
preview takes too long, storage fails). A verdict, a change that outruns it and one more make
three changes; two checks suffice to confuse one with the other. Storage fails in behaviours of
their own (`MCNext`), in which one reply comes without calls: what is stored depends on no verdict,
and the first upload of everything comes after the dispatch. `MaxCalls`, `MaxChanges` and the
code's own limits are the bounds. No fairness.

**What the run shows.** A fresh verdict is about the files delivered except for the gaps
named; the audit in the record is about the files delivered when the chain ended in time; once
nothing is under way, storage holds the files delivered but for four listed cases: a failed
upload that no later one made good ("lost"), a sync landing after the chain's repairs ("late"), an
audit's repair that was kept ("kept"), or put back across a chain still at work ("crossed").

**What is proved**, for any checks, models, retries, rounds, calls and changes: TypeOK,
LoopTold, OutcomeHonest, AuditHonest and StoredIsShipped. `IInv` adds when the preview chain
can be at work and what the main run may assume of it (`Phases`: nothing of the chain happens
before it is started, and who waited for it either saw it end or has given up); that a cut
makes every verdict stale until it is judged (`CutUnproven`) and that what is judged can be
put back (`Revertible`); that a check run again looks at the files as they are, unless the
chain overran (`Looks`); which version the audit is about at each stage, the one before the
repair while the repair is written and judged (`AuditedFiles`); that storage has, or the sync
is bringing, the files that will be kept, unless an upload was lost (`StoredOrSyncing`); and that
an upload which may still land is counted as lost (`LateLost`). AuditedFiles and StoredOrSyncing
are why the audit's repair is harmless: both speak of the version that a refused repair returns
to.

**Also seen**, with `NoGap`, `CutKnowsTypes`, `AllStored` and `AllCallsEnd` where they
apply: a check that throws has its old verdict recorded again as a new one
(`dispatcher.ts:924-935`); three repair loops record nothing of what they change (2065-2110,
2245-2290, 2770-2826), against 4306-4310; the types are checked before the cut in a sandbox
that lacks the repairs in memory (3333-3360); repairs after the last security scan are not
scanned (2831-2834); a kept repair of the audit is never stored, a path that the tools deleted
and a repair loop wrote again is taken out of storage by the sync (3448; `DeletedStayAway` of
ReplyFiles, for versions do not tell paths apart), a late sync (3443) may
overwrite repaired files, and an overrun chain writes after the outcome; a reply that
reaches the ceiling, breaks off or stops for another reason leaves its announced calls
without a result. By reading: the verdict of the check inside `write_files` reaches no
event; "Error writing files: ..." does not start with "Error:" and is shown as a success;
a retry starts the cumulative cost again at 0, and failed attempts are never charged;
several returns (abort, cancel, security block) record no terminal event; the audit's
words on gates use only the loop's own counters (4400-4407); a lost batch of events leaves
a gap in the stored stream.

## 10. Connections

**What is modelled.** One service of one user: its row in `user_mcp_connections`, OAuth round
trips (`txn`), requests at an await, builds with the copy of the credential they read
(`session`), their connections (`attempt`) over one transport after the other, and the
latest tool call. A credential is a grant and, for OAuth, the generation of its rotating
refresh token; `valid` is the generation the service takes. `redeemed`, `owner` and
`spoiled` observe.

**Run.** `connections`: one round trip beside keys, one request at a time, a build with two
connections under way and another with one, two grants, two rows, two refreshes of a grant;
writes may be lost, timers win, round trips expire, the process restart. Two grants and two
rows are needed for a build that outlives a disconnect and a reconnect, and two refreshes for
two writes of one grant under way at once. The first build's connections are symmetric. The
SDK and the service are external and modelled from how the code uses them.

**What is proved**, for any round trips, requests, builds and connections and any bounds:
TypeOK, OnceEach, OwnCredential and TokensKept. OnceEach needs that a redeemed transaction is
gone (`RedeemedGone`) and that of the connections of a call at most one was not given up
(`OneCurrent`, `SentOnce`). OwnCredential needs to know whose every grant is, in sessions and
requests too (`Owned`, `OfSession`, `Held`). TokensKept needs, of a grant that is not in
`spoiled`: nobody is ahead of the service (`NotAhead`), one refresh is under way at a time and
with the newest token (`OneRefresh`), and the newest token is on its way to the row or in it
(`Stored`). The proof of `Stored` fails where two writes of one grant are under way, which no
instance with one refresh reaches: that is the overtaken write below, which `Overtakes`
now names.

**Also seen.** Nothing orders the UPDATEs of a refreshed session
(`integrations.ts:1609-1621`, `oauth-client.ts:80`): two connections of one build may refresh
one after the other and the older token's write land last, so that the row keeps a token the
service no longer takes; `Persist` puts such a grant into `spoiled`. A build that began before a reconnect overwrites the new credential of the
same row (`NewestKept`). By reading: the callback of a custom server always fails
(`integrations.ts:1250` against 987-991); deleting a connection leaves its legacy row, which
resurfaces; two builds that refresh one rotating token: the second gets `invalid_grant` and
deletes the stored tokens; `custom/connect` accepts reserved slugs; `POST /:id/test` writes
a status after an await (378-419).

## 11. The workbench: eight modules

These modules share no state with each other. **MCWorkbench** extends all of them; `part`,
chosen in Init, says whose behaviour it is, and the others rest in one initial state. So the
run `workbench` is the union of thirteen explorations (the topics of Workspace are parts of
their own), and a violated property is one part's. None has fairness. The sizes below are
distinct states.

| Part | States | What the instance has |
|---|---|---|
| stream | 40 949 | six texts of up to 23 characters with thinking (an empty thought too), fences and plans, each cut in two places anywhere; one or two tool calls of two fragments; both gateways |
| projects, settings, vars, prefs, brain, rules | 91 629, 64 629, 15 869, 2 869, 3 545, 5 321 | two requests at once, three in all, two keys and values, failing audit writes and reads |
| graph | 9 310 | six paths with up to three texts each, every set of them; reviews of two units |
| audit | 253 049 | three extractions, eight claims, three deliveries, a cap of two, one repairable |
| tools | 225 409 | nine local services; four shelves of a server that may list another; a cap of one |
| deploy | 139 937 | six apps, two versions of a file, two polls, two deployments, one edit |
| reply | 477 074 | eleven replies in all forms of a path, two projects and new builds in three frameworks, deletions, a stylesheet, one repair |
| database | 497 386 | one project, one table, one change of connections, one build, one restart |

**ModelStream** models what a model sends, character class by character class, from the
gateways' deltas (`modal-gateway.ts`, `model-gateway.ts`) through the tag splitter and the
reasoning router to the stream handler. `ReplyComesThrough`: however the provider cuts the
reply, thinking and answer are those of a reply that came at once, the history replays
as it was written, the chat hears no text twice and no plan, announced files are
closed, and each call has the whole of its own arguments. *Also seen:* a delta that ends
exactly after a tag's name leaks thinking or swallows the answer (against
`reasoning-tag-splitter.ts:13-16`); three held characters are flushed unchecked after `{"`,
or dropped when the next chunk opens a fence; prose in the chunk of an opening fence is lost,
and a closing fence may reach the chat (`stream-handler.ts:132-134`); what
PseudoToolFilter keeps back is discarded (179, 286; `pseudo-tools.ts:25`); an end of the
body is read as the end of the reply; after an error no file is closed; an empty thought in
the middle of a reply leaves no piece, so the answer around it is joined in the replay and may
read as a tag there (`HasEmptyThought`; `reasoning-tag-splitter.ts:105-107`,
`reasoning-router.ts:104-119`), which the proof found and `HistoryReplays` excepts. Not
modelled: PseudoToolFilter, narration, usage numbers.

*Proved* (`ReplyComesThroughAlways`) for any text and calls, any cuts, either gateway, with and
without a stream. The invariant `StreamInv` has three parts, each an induction over what has
arrived (`TextInv`) or over the fragments (`CallsInv`):

- *Told apart.* `InStep` relates the splitter in mid-reply to one that reads everything at
  once: whatever comes next, what arrived and it read from the beginning as the answer and the
  thinking so far and then as the buffer and it. That holds from one delta to the next
  (`ToldApartOn`) unless a cut fell in a tag after its name (`CutInTag`, the code's own gap):
  the splitter holds every end that may still become a tag (`Waiting`), so no tag straddles
  what it let go.
- *Faithful replay.* `Faithful` takes the history for a part that reads as itself whatever
  follows (`Settled`) and an answer after it in which no tag begins (`Standing`), kept through
  every piece by an induction over the tags of a delta (`FaithfulFeed`). A thought settles
  what precedes it; an empty one leaves no piece, whence the exception.
- *Said, named and called.* `Handled`: what was said, what is to be said and what is held back
  are in the content in this order, and no message is structured (`SaidInOrder`), nor is what
  waits to be said (`Plain`); files are announced as written and done in turns (`Filed`).
  `ArgsOk` and `YieldsAll`: each call has the first of its own fragments and no other's, and an
  Anthropic call is yielded once it has all.

That `Feed` and the loops are what their recursive bodies say, for every text, is itself proved
(`FeedDefined`, `GoingOn`): each tag leaves a shorter buffer.

**Workspace** models projects, settings, variables, preferences, brain versions and
`MEMORY_RULES.md`, one statement per action. `RequestsKept`: every write that took effect
is there as if requests came one after the other, except those made from a read that
another write had overtaken; versions have no hole; a slug's suffix is given only when
needed. *Also seen:* those overtaken writes are lost (project settings, rules, and two
agents' brain versions get one number); a failing audit write answers 500 for a project
that exists; a read error of `MEMORY_RULES.md` overwrites all rules; two racing inserts of a
variable answer 500; `ContextManager.invalidate()` is never called, and pinned files exceed
its budget; `parseFileType()` upper-cases (`brain.ts:44`) what the enum has in lower case.
*Proved* (`WorkspaceTypeCorrect`, `RequestsKeptAlways`) for any number of requests of any
kinds, keys and values, however they interleave. The invariant says what each request
knows of the table it read: that is still there unless a write has overtaken it (`ReadSo`),
so a write either is what it would be in turn or is counted in `lost`; a version read is one
there is, so the next leaves no hole; and every name `uniqueSlug()` looked up stays taken
(`LookedUp`), since projects are never removed.

**CodeGraph** resolves imports over the files a build may write and states cycles, orphans,
unused imports and exports, broken imports, units, risk and the review with its budget.
`AnalysesExact` compares them with reference definitions: the cycles are the closed paths
through distinct files, the cut and the removal of orphans break nothing that compiles, broken
imports are judged as the sandbox would, the coverage adds up and what is left out is never
riskier. *Also seen:* `findBrokenImports(allFiles)` (3204, 3256) reports the template's own
`@/lib/utils` as broken, which the repair may not touch (`BakedNotReported`; against
`import-graph.ts:200-204`); the pre-pass reports `./x.css?url` and `./lib/utils.js`; imports in
markdown count; an unparsable review counts as `deep`; failing units count against neither
budget; the resolver tries `.tsx` first, Vite `.ts`; a type check that could not run
answers ok (`e2b-service.ts:1462`, 1736). Not modelled: layers, large files, duplicate
bodies, orphan stylesheets.

*Proved* (`GraphTypeCorrect`, `AnalysesExactAlways`) for any files, texts, template, entry
points, order and budgets. That a graph has exactly the cycles its depth-first walks reach is an
induction over the length of a walk (`Walks` is the recursive function of the search, and the
lemmas tie its n-th set to the routes of n files). That removing what is unused breaks nothing
rests on lemmas about resolution: a specifier names the same file whoever asks, and names one
that is left if it named one that is not an orphan. The order of the units is a count of those
ahead (`Ahead`), so that each rank is taken once; the invariant of the review says which ranks
were read, failed or left out so far. The proof found what the instance had been too small
to show, and the properties now say:

- `AdviceIsSafe` does not hold of a file that imports a name from itself, or of a build file
  imported with a query (`Unseen`): `dead-code.ts` does not look for a name's use in its own
  file, and the import graph resolves a specifier with its `?` attached.
- `ImportsJudged`: `existsOutsideTheSet` of `review-units.ts` takes `./styles` for the
  template's `src/styles.css`, since it tries that extension too; the sandbox does not. The
  instance now has such a stylesheet and such an import.
- `ImportAssumption`: an import without an extension does not name a file without one (nobody
  imports a Dockerfile). `GraphAssumption` and `DraftAssumption` say what else the analyses
  take of paths and texts.

**CompletionAudit** models extraction, the checks of every verdict, the one repair, its
judgement and the second audit. `AuditBorneOut`: a proof cites a delivered file or a gate,
a complaint a line that is there or a name that is not; a repair costs nothing the build
had; "finished" means all listed requirements proven. *Also seen:* a kept repair's audit
loses the discount for faked evidence and `criteriaDropped` (`NotProvenByAFake`,
`DroppedIsStored`; 4434-4438 against 4591); an exception after files changed is recorded
"no-files" (4603-4606). *Proved* (`AuditTypeCorrect`, `AuditBorneOutAlways`) for any lists of
requirements, claims, files and caps. The invariant carries an audit from the files it was
made over to the ones a repair may put back: `Recorded` says whose files the audit is of,
`Undoable` that a repair under way still knows those of before. "Finished" needs what the
code counts: the requirements are numbered from 1 without a hole (a lemma about
`ParseCriteria`, by cardinality), so that as many proofs as requirements means all of them.

**ServiceTools** models the classification of a server's tools, the registries and
definitions of a dispatch, and a call through `executeTool()` to the requests and reply of its
handler. `CallsAsTold`: what was not asked for only reads; a listed tool can be called and a
capped one does not vanish; done means everything asked for happened, refused means nothing
did. *Also seen:* "failed" does not mean nothing happened (`FailedMeansNothing`); a chat offers
no write tools (`dispatcher.ts:661-683`) although its prompt (`build.ts:1029`) and
`integrations_status` say that writes work; the comment of `buildWriteProxyDefinitions` (308-313)
contradicts its code; escalated reads are offered nowhere; a failed credential read makes a
query say "not connected" while `integrations_status` says connected; an answer of 200 that is
no JSON is told as "No products found"; errors of services do not start with "Error:" and are
recorded as ok; `github-writes` encodes the slash of a path. *Proved* (`CallsAsToldAlways`)
for any lists of tools, cap, services and answers. The invariant ties the registries to the
list of the dispatch, whatever the server lists later, and the requests done so far to the
step of the call; that every handler's table asks, accepts and fails as the steps need is a
lemma over the tables, handler by handler.

**Deploy** models `deploy_app` from its scan to the smoke test. `DeployedAsTold`: no code
with a blocking finding is ever at Vercel, however often the app changes; one called live
answers on every count, and one that finished badly is never served later. *Also seen:* "nothing was
changed" is said of deployments that exist (`NothingWasDeployed`, `vercel.ts:560-563`); a
backend without `app.ts` is sent without it (`FunctionHasItsApp`); app and scaffold share one
budget, so a part of the scaffold that sorts late may be left out (`vercel.ts:410-411`); a
static app has no `/api`, unless it brings a function of its own, and so never passes the smoke
test; files owned by the template are not sent (102-128); a
deployment that takes over 30 s to create is reported failed. *Proved* (`DeployTypeCorrect`,
`DeployedAsToldAlways`) for any app, budget and number of calls, polls and edits. The
invariant says what a call knows at each stage: after the scan its files have no blocking
finding, and nothing it sends later comes from anywhere else; a state it was told is that
of the deployment or an earlier one; a check that passed saw a function.

**ReplyFiles** models replies as sequences of blocks and runs the parser's rules over their
lines: the forms of a path, repetition, cut-offs, edits spliced by markers, the default entry
point; then one build: what the tools wrote and deleted (1840-1846, 2502), the files each
framework and FastAPI require, what the write loop passes over (a path out of the directory, the
stylesheet on an edit that is not about the theme, half an App.tsx) or splices (edits, tokens),
the early ends (a cancel, an action-only answer), and each repair loop with the paths it may
change: schema (`Schemaed`), security (`Resolved`), fakes (`FakesTaken`), wiring (`Wired`),
imports (`ImportsMended`), the cut (`CutOut`), server (`ServerMended`), types and page
(`TypesMended`), audit (`Audited`). `FilesReadBack` compares the parse with what the reply
states; `OthersKept` (an action property) says that a file of the project changes only where a
reply stated it, and is lost only where the first reply's tools deleted it. *Also seen:* a file
that the tools deleted may come back by a later loop (`DeletedStayAway`), and the sync then takes
it out of storage (3448); every parse of a React reply adds a
default `src/index.tsx` (309-312), which the repair loops write over the app's own
(`EveryFileKept`; against `build.ts:2958-2976`) and which keeps "no files" and the rescue at 1938
from ever firing, and which the security loop, where a path also stands for the first file that
ends like it (2808-2816), writes over a file such as `client/src/index.tsx`; an anchor that opens no block takes the block after it
(`SingleLineStaysSingle`); a fix may leave the entry point a comment (`EntryStays`); later
loops rewrite a schema that was applied (`AppliedIsDelivered`); a nested fence ends a file
early; security and wiring loops do not refuse paths of the template. *Proved* (`FilesReadBackAlways`,
`OthersKeptAlways`) for any well-formed replies (`SaidAssumption`), any project and any number of
repairs: no fence stands in a file's text, the path written is the one meant and no empty one, a block without a
path does not begin with a comment (which may name one), only the last block may be cut off, and
at most two blank lines stand between a heading and its fence. Parser and summary are recursive
functions over the lines. The lines of a reply are those of its blocks, joined, and each block
keeps its order (`JoinedInOrder`, `StandingLines`); above a fence stands the block's own heading
or prose, so the search finds its path or none (`PathFound`); read up to a block, the reader is
outside a fence and has what the blocks before it state, read through it, it has
that block too (`BlockIsRead`), and the summary has gained its prose at most (`BlockIsSummed`);
so by induction over the blocks `RepliesAreRead`. For `OthersKept`, each loop's new map is shown
to follow its reply (`Follows`: it loses nothing and changes only what the reply stated, or the
file it stands for); the invariant adds that what will be written was stated, that what was
deleted is gone from the map when the files are written, so that they lose nothing more, and that a
new build has nothing to lose before then.

**AppDatabase** models the credentials a user stores, the question before a full-stack build
and those the model asks, both over the map of `pending-answers.ts`, the schema with its
migration in flight, and the closing words. `DatabaseAsTold`: tables called created are in the
project the migration went to, "no database" means that nothing was sent or arrives later, and
an accepted answer to `ask_user` is the one used, however close timer and closing tab come.

**The finding.** `database_edits` checks `NotConnectedIsSo` with two builds and credentials
that are always read: an edit of an app with a backend is told that no database is
connected while the user's Supabase is.

*Also seen:* OAuth or a token for another project creates tables where the preview does not
look, and a restart forgets the preview's environment (`RunsOnItsTables`); a "real backend" may
query tables that do not exist (`RealHasTables`); an answer that is neither yes nor no builds
without a database in silence (`NoSilentSkip`, against 1243-1245); the gate's timer leaves its
entry, and a late answer is accepted and dropped (`NoEntryLeft`); a migration that timed out
is told "could NOT create" and may land; deleting the MCP row alone gives "connected" and "no
database to create it in" at once; a service key connects without the anon key that builds
look for.

*Proved* (`DatabaseTypeCorrect`, `DatabaseAsToldAlways`) for any projects, tables, numbers of
builds, questions, changes and restarts, from anything that may be stored at the start. The
invariant says who may answer a question (`Waiting`, `Asking`: an entry that is still in the map
belongs to the build that waits for it, so an answer taken from the map reaches it) and where
the tables are at each stage (`Migrated`, `ToldOnce`: nothing is sent before the schema step,
and the closing words follow the migration's fate once).

## 12. What is proved, what is model-checked, what is assumed

Proved by TLAPS for all values of the constants: sections 3 to 10, every invariant and
action property that the runs of BuildLifecycle, Approvals, Billing, ProjectFiles,
PreviewSandbox, ChatHistory, BuildEvidence and Connections check, and two refinements
(Approvals of WriteConsent, Billing of TopUpLedger); of section 11, all of
ModelStream, Workspace, CodeGraph, CompletionAudit, ServiceTools, Deploy, ReplyFiles and
AppDatabase. The type invariant of each module is proved there too (`StreamTypeCorrect`,
`ReplyTypeCorrect` and the others). Each proof
has one shape: an inductive invariant, a lemma that Init gives it and that every step keeps it,
with one lemma per conjunct and one case per action, and the theorem from the two by temporal
logic. `FilesReadBack` alone speaks of no step: it holds of every reply that may be given.

The library's induction theorems take an operator, which the provers cannot instantiate. Where
a proof needs induction it states it of sets of numbers, which they can: `LeastOf`,
`ByInduction` (a set with 0 that is closed under successor is `Nat`) and `IteratedExists` (so a
recursive function is what its definition says) are proved in ConnectionsProofs, where they carry
the walks of CodeGraph, and in BuildLifecycleProofs, where `GoingOn` (a function that goes on to
a smaller argument) and `StepByStep` (one that goes on for so many steps) follow from them and
carry the splitter, the loops of the handler and the joined texts of ModelStream. In
ChatHistoryProofs they carry the parser of ReplyFiles, line by line and block by block. TLC cannot
evaluate `StreamInv`, whose quantifiers range over all texts.

Only model-checked: liveness (ClientHears, RowSettles, Decided, PaidIsCredited), which with
ENABLED is beyond the prover, and the violation of NotConnectedIsSo.

All proofs assume only the ASSUMEs of the modules, which TLC evaluates in every run:
`PromptsAssumption` and `FaultsAssumption` (BuildLifecycle: drawn from their kinds);
`ConstantsAssumption` (Approvals: `Nobody` is no session or id, `MayJoin` is a function into
sets of sessions, `MaxCalls` is a natural number; Billing: "free" is a plan and every plan
and transaction has natural amounts; ProjectFiles: `None` is no path or content,
`MaxCheckpoints` is positive; PreviewSandbox: `None` is no sandbox or call, goals and faults
are drawn from their kinds; ChatHistory and ToolLoop: bounds are natural numbers, kinds of
faults and checks those of the code; Connections: bounds are natural numbers, custom round
trips are round trips, `SlotsOf` gives each build its connections); `ToolsAssumption`
(ServiceTools: a tool is what the classifier sees of it, a capability has the name its
pattern asks for, and the services without a server are those that the code has); `AuditAssumption`
(CompletionAudit: a list of requirements is a sequence, caps are natural numbers, the status
of a claim is one of the code's, and an exact claim cites one thing);
`WorkspaceAssumption` (there is a value, and none is the mark of a missing one);
`StreamAssumption` (ModelStream: what models write are texts and sets of calls, a call is a
number and has a fragment at least, bounds are natural numbers);
`SaidAssumption` and `ProjectAssumption` (ReplyFiles: replies are well-formed, as section 11
says, no file of a project has an empty path, and the bound on repairs is a natural number);
`GraphAssumption`, `DraftAssumption` and `ImportAssumption` (CodeGraph: finitely many paths, none
of them the template's, each with its place in an order; texts are what the analyses see of
them; no import names a file without an extension or an index of the template). Those of
the other modules bound what their instances enumerate.

## 13. Not modelled

- Prompt building, classification, planning, manifests, vision and web search: text to text.
- The analyses behind the other checks (wiring, render, interactions, journeys, security,
  threat model, hollow tests): stateless functions of files or of a page; their verdicts are
  free choices of ToolLoop and BuildEvidence.
- Authentication, ownership checks, rate limits, configuration, logging, metrics.
- The interview, project and user namespaces of the websocket server, which join and leave
  rooms.
- Checkout, invoices, the price map; routes that only read.
- What is written into a sandbox, E2B's own behaviour beyond its answers, and the browser.
