---------------------------- MODULE ServiceTools ----------------------------
(***************************************************************************)
(* The tools of connected services in one dispatch: a server's tools are   *)
(* listed, classified and offered (src/agents/mcp-tool-classifier.ts, with *)
(* src/mcp/tiers.ts, capabilities.ts and agents/mcp-relevance.ts), a write *)
(* waits for the user (executeTool() in src/agents/tools.ts), and the      *)
(* handlers of the services that have no server talk to their API          *)
(* (src/agents/tools/*-query.ts, *-writes.ts, rest-*.ts).                  *)
(*                                                                         *)
(* An API is external: it may refuse, fail, act and answer, or act and     *)
(* have its answer lost.  A handler is a table: its actions, the requests  *)
(* each makes and the status codes it takes for success.                   *)
(***************************************************************************)
EXTENDS Integers, FiniteSets, FiniteSetsExt, Sequences

CONSTANTS Shelf,    \* the tools a server may list: sets of Tool
          Tool,     \* [name, hint, capability, safe, mentioned]
          Local,    \* the services modelled without a server
          MaxTools, \* MAX_MCP_TOOLS
          MaxRounds

ASSUME ToolsAssumption ==
  /\ MaxTools \in Nat \ {0} /\ MaxRounds \in Nat
  /\ Shelf \subseteq SUBSET Tool
  /\ Tool \subseteq [name : {"reads", "plain", "destroys"},
                     hint : {"none", "readOnly", "destructive"},
                     capability : {"none", "repo.read", "issue.write"},
                     safe : BOOLEAN, mentioned : BOOLEAN]
  /\ \A t \in Tool :
       /\ t.capability = "repo.read" => t.name = "reads"
       /\ t.capability = "issue.write" => t.name = "plain"
  /\ Local \subseteq {"shopify", "wordpress", "twilio", "sendgrid", "mailchimp", "netlify",
                      "supabase", "vercel", "github"}

VARIABLES
  server,   \* the tools it would list now
  discovered,   \* those it listed when the dispatch began
  account,  \* the local service's credentials
  registry, \* readMcpRegistry and writeMcpRegistry
  offered,  \* the names sent to the model
  round,    \* of the dispatch, and writeDenied
  call      \* the tool call under way

toolVars == <<server, discovered, account, registry, offered, round, call>>

-----------------------------------------------------------------------------
(* Which tools are reads                                                   *)

TierRank == [read |-> 0, sandbox |-> 1, approval |-> 2, strong |-> 3]
strongestTier(a, b) == IF TierRank[a] >= TierRank[b] THEN a ELSE b
needsApproval(tier) == tier \in {"approval", "strong"}
destructiveByName(t) == t.name = "destroys"

tierFor(t) ==
  CASE t.capability = "none"      -> "approval"
    [] destructiveByName(t)       -> "strong"
    [] t.capability = "repo.read" -> "read"
    [] OTHER                      -> "approval"

\* mutant of Classify: the provider's own hint is believed
Classify_HintBelieved(t) ==
  IF t.hint = "destructive" THEN "annotation-destructive"
  ELSE IF t.hint = "readOnly" THEN "annotation-read-only"
  ELSE IF t.name = "reads" THEN "name-pattern-match"
  ELSE "name-pattern-no-match"

Classify(t) ==
  IF t.hint = "destructive" THEN "annotation-destructive"
  ELSE IF t.capability = "repo.read" /\ ~destructiveByName(t) THEN "capability-read-only"
  ELSE IF t.name = "reads" THEN "name-pattern-match"
  ELSE IF destructiveByName(t) THEN "annotation-destructive"
  ELSE "name-pattern-no-match"

ReadReasons == {"annotation-read-only", "capability-read-only", "name-pattern-match"}

\* A read the tiers call dangerous goes to neither registry.
ReadTools(tools) ==
  {t \in tools :
     /\ Classify(t) \in ReadReasons
     /\ LET mapped == IF t.capability = "none" THEN "read" ELSE tierFor(t)
            named  == IF destructiveByName(t) THEN "strong" ELSE "read"
        IN  ~needsApproval(strongestTier(mapped, named))}

\* mutant of WriteTools: only what was recognised as a write
WriteTools_Recognised(tools) == {t \in tools : Classify(t) = "annotation-destructive"}

WriteTools(tools) == {t \in tools : Classify(t) \notin ReadReasons}

\* The tools the prompt speaks of first, and no more than the cap.
Capped(tools, kept) ==
  /\ kept \subseteq tools
  /\ Cardinality(kept) = Min({MaxTools, Cardinality(tools)})
  /\ \A k \in kept, t \in tools \ kept : k.mentioned \/ ~t.mentioned

-----------------------------------------------------------------------------
(* The services without a server.  A request of an action:                 *)

Get      == [acts |-> FALSE, takes |-> {200}, extra |-> FALSE, failed |-> "error"]
Try(c)   == [acts |-> TRUE, takes |-> c, extra |-> FALSE, failed |-> "error"]
Maybe(r) == [r EXCEPT !.extra = TRUE]     \* made when an argument asks for it

shopifyQueryHandler == [list_products |-> <<Get>>, get_product |-> <<Get>>,
                        list_orders |-> <<Get>>]
wordpressQueryHandler == [list_posts |-> <<Get>>, list_pages |-> <<Get>>, get_post |-> <<Get>>]
twilioQueryHandler == [list_messages |-> <<Get>>, list_calls |-> <<Get>>,
                       get_message |-> <<Get>>]
sendgridQueryHandler == [list_templates |-> <<Get>>, list_contacts |-> <<Get>>,
                         list_lists |-> <<Get>>]
mailchimpQueryHandler == [list_campaigns |-> <<Get>>, get_lists |-> <<Get>>,
                          list_members |-> <<Get>>]
netlifyQueryHandler == [list_sites |-> <<Get>>, list_deploys |-> <<Get>>,
                        get_deploy |-> <<Get>>]
supabaseQueryHandler == [list_tables |-> <<Get>>, run_sql |-> <<Get>>, get_logs |-> <<Get>>,
                         get_advisors |-> <<Get>>, list_edge_functions |-> <<Get>>]
vercelQueryHandler == [list_deployments |-> <<Get>>, list_projects |-> <<Get>>,
                       get_deployment |-> <<Get>>, get_deployment_logs |-> <<Get>>,
                       get_runtime_logs |-> <<Get>>]

\* What comes with the first answer and may be missing from it.
Aside == [Get EXCEPT !.failed = "next"]
githubRepos  == [list_repos |-> <<Get>>, get_repo |-> <<Get>>, list_commits |-> <<Get>>,
                 list_branches |-> <<Get>>, get_file_contents |-> <<Get>>,
                 search_code |-> <<Get>>]
githubIssues == [list_issues |-> <<Get>>, search_issues |-> <<Get>>,
                 get_issue |-> <<Get, Aside>>]
githubPulls  == [list_pull_requests |-> <<Get>>, get_pull_request |-> <<Get>>,
                 get_pull_request_files |-> <<Get>>,
                 get_pull_request_status |-> <<Get, Aside, Aside>>]
githubRuns   == [list_workflow_runs |-> <<Get>>, get_workflow_run_jobs |-> <<Get>>,
                 get_job_logs |-> <<Get>>]

shopifyWriteHandler == [create_product |-> <<Try({201})>>, update_product |-> <<Try({200})>>]
wordpressWriteHandler == [create_post |-> <<Try({201})>>, update_post |-> <<Try({200})>>]
twilioWriteHandler == [send_sms |-> <<Try({200, 201})>>]
sendgridWriteHandler == [send_email |-> <<Try({202})>>, add_contact |-> <<Try({200, 201, 202})>>]

\* The content is set with a second request, whose failure is told as such.
mailchimpWriteHandler ==
  [add_member |-> <<Try({200, 201})>>,
   create_campaign |-> <<Try({200}), Maybe([Try({200}) EXCEPT !.failed = "partly"])>>]

\* A branch needs its commit, looked up with one request or two, whose
\* rejection nobody catches.
githubWriteHandler ==
  [create_issue |-> <<Try({201})>>, comment_on_issue |-> <<Try({201})>>,
   close_issue |-> <<Maybe(Try({201})), Try({200})>>,
   create_branch |-> <<Get, Maybe(Get), Try({201})>>,
   create_pull_request |-> <<Try({201})>>]
githubMergeHandler == [merge |-> <<Try({200})>>]
vercelWriteHandler == [rollback |-> <<Try({200, 201})>>, cancel_deployment |-> <<Try({200})>>]

Both(f, g) == [x \in DOMAIN f \cup DOMAIN g |-> IF x \in DOMAIN f THEN f[x] ELSE g[x]]
githubQueryHandler == Both(Both(githubRepos, githubIssues), Both(githubPulls, githubRuns))

\* Those the static registry knows ...
Queries ==
  [shopify |-> shopifyQueryHandler, wordpress |-> wordpressQueryHandler,
   twilio |-> twilioQueryHandler, sendgrid |-> sendgridQueryHandler,
   mailchimp |-> mailchimpQueryHandler, netlify |-> netlifyQueryHandler,
   supabase |-> supabaseQueryHandler, vercel |-> vercelQueryHandler,
   github |-> githubQueryHandler]

\* ... and those that join the write registry when something is stored.
RestWrites ==
  [shopify |-> shopifyWriteHandler, wordpress |-> wordpressWriteHandler,
   twilio |-> twilioWriteHandler, sendgrid |-> sendgridWriteHandler,
   mailchimp |-> mailchimpWriteHandler]
GithubWrites == [github |-> Both(githubWriteHandler, githubMergeHandler)]
VercelWrites == [vercel |-> vercelWriteHandler]
Writes == Both(Both(RestWrites, GithubWrites), VercelWrites)

\* A token is found in the stored row, or an older one, or not; the fields of
\* a REST service may be there in part.
Tokens == {"github", "vercel", "supabase"}
credsFor(slug) == {"none", "whole"} \cup (IF slug \in Tokens THEN {} ELSE {"lacking"})

LocalWrite(slug) == [local |-> slug, kind |-> "write"]
LocalQuery(slug) == [local |-> slug, kind |-> "query"]
LocalWrites(acc) == IF acc.slug \in DOMAIN Writes /\ acc.creds # "none"
                    THEN {LocalWrite(acc.slug)} ELSE {}

-----------------------------------------------------------------------------
(* A dispatch                                                              *)

NoCall == [at |-> "idle", tool |-> "none", action |-> "none", complete |-> FALSE,
           extra |-> FALSE, step |-> 0, asked |-> FALSE, did |-> {}, reply |-> "none"]
Called(tool, action, complete, extra) ==
  [NoCall EXCEPT !.tool = tool, !.action = action, !.complete = complete, !.extra = extra]
Nothing == [reads |-> {}, writes |-> {}]

ToolsStart(on) ==
  /\ server = {} /\ discovered = {} /\ registry = Nothing /\ offered = {}
  /\ account = [slug |-> "none", creds |-> "none"]
  /\ round = [at |-> IF on THEN "new" ELSE "off", denied |-> FALSE, number |-> 0]
  /\ call = NoCall

\* The registries of a dispatch, and the definitions sent to the model: a chat
\* is offered what reads.
Prepare(shelf, tools, acc, chat) ==
  /\ server' = shelf
  /\ discovered' = tools
  /\ account' = acc
  /\ registry' = [reads |-> ReadTools(tools), writes |-> WriteTools(tools) \cup LocalWrites(acc)]
  /\ \E r, w \in SUBSET tools :
       /\ Capped(ReadTools(tools), r) /\ Capped(WriteTools(tools), w)
       /\ offered' = r \cup {LocalQuery(acc.slug)}
                       \cup (IF chat THEN {} ELSE w \cup LocalWrites(acc))

\* serversForPrompt: what the prompt names, or is about, is attached.  A
\* server that cannot be reached lists nothing and the room is warned.
Dispatch ==
  /\ round.at = "new"
  /\ \E shelf \in Shelf, attached, chat \in BOOLEAN, slug \in Local : \E creds \in credsFor(slug) :
       Prepare(shelf, IF attached THEN {t \in shelf : t.safe} ELSE {},
               [slug |-> slug, creds |-> creds], chat)
  /\ round' = [round EXCEPT !.at = "model"]
  /\ UNCHANGED call

\* The server may describe its tools differently from now on.
Redescribe ==
  /\ round.at = "model"
  /\ \E shelf \in Shelf : shelf # server /\ server' = shelf
  /\ UNCHANGED <<discovered, account, registry, offered, round, call>>

NextRound ==
  /\ round.at = "model" /\ call.at = "idle" /\ round.number < MaxRounds
  /\ round' = [round EXCEPT !.denied = FALSE, !.number = @ + 1]
  /\ UNCHANGED <<server, discovered, account, registry, offered, call>>

-----------------------------------------------------------------------------
(* A call of the model                                                     *)

IsLocal(tool) == "local" \in DOMAIN tool
HandlerOf(tool) == IF tool.kind = "query" THEN Queries[tool.local] ELSE Writes[tool.local]
Requests(c) == IF IsLocal(c.tool) THEN HandlerOf(c.tool)[c.action] ELSE <<Try({200})>>

\* What a handler answers before it asks the service for anything.
Missing(c) ==
  IF ~IsLocal(c.tool) THEN "none"
  ELSE IF account.creds = "none" THEN "not connected"
  ELSE IF account.creds = "lacking" THEN "missing"
  ELSE IF ~c.complete THEN "incomplete"
  ELSE "none"

Told(c, reply) == [c EXCEPT !.at = "told", !.reply = reply]
Begun(c) == IF Missing(c) = "none" THEN [c EXCEPT !.at = "sending", !.step = 1]
            ELSE Told(c, Missing(c))

\* Static handlers first, then what writes, then what reads; anything else is
\* an unknown tool.
Dispatched(c) ==
  IF IsLocal(c.tool) /\ c.tool.kind = "query" THEN Begun(c)
  ELSE IF c.tool \in registry.writes
       THEN IF round.denied THEN Told(c, "cancelled") ELSE [c EXCEPT !.at = "asking"]
  ELSE IF c.tool \in registry.reads THEN Begun(c)
  ELSE Told(c, "unknown tool")

\* The model may name a tool it saw in another round, or made up.
executeTool ==
  /\ round.at = "model" /\ call.at = "idle"
  /\ \E tool \in server \cup discovered \cup {LocalQuery(account.slug)} \cup
                 (IF account.slug \in DOMAIN Writes THEN {LocalWrite(account.slug)} ELSE {}),
        complete, extra \in BOOLEAN :
       \E action \in IF IsLocal(tool) THEN DOMAIN HandlerOf(tool) ELSE {"none"} :
          call' = Dispatched(Called(tool, action, complete, extra))
  /\ UNCHANGED <<server, discovered, account, registry, offered, round>>

\* The user, or the timer.
Approve ==
  /\ call.at = "asking"
  /\ call' = Begun([call EXCEPT !.asked = TRUE])
  /\ UNCHANGED <<server, discovered, account, registry, offered, round>>

DenyWrite ==
  /\ call.at = "asking"
  /\ call' = Told(call, "denied")
  /\ round' = [round EXCEPT !.denied = TRUE]
  /\ UNCHANGED <<server, discovered, account, registry, offered>>

\* What an API may do of a request.  Status 0 is an answer that never came.
Effects(r) ==
  {e \in [status : {0, 200, 201, 202, 401, 500}, acted : BOOLEAN] :
     /\ e.acted => r.acts /\ e.status # 401
     /\ e.status \in 200..299 => (e.acted <=> r.acts)}

\* The status decides, one list of codes for each request.
\* mutant of Accepted: everything below 400 is an answer
Accepted_Below400(r, status) == status < 400
Accepted(r, status) == status \in r.takes

\* After a request: on to the next one, or the reply.  An answer that never
\* comes is a status like another to what writes, and the end of a query; the
\* lookups for a branch throw.
AfterRequest(c, e) ==
  LET r    == Requests(c)[c.step]
      done == [c EXCEPT !.did = IF e.acted THEN @ \cup {c.step} ELSE @]
      next == IF c.step = Len(Requests(c)) THEN Told(done, "done")
              ELSE [done EXCEPT !.step = @ + 1]
  IN  IF Accepted(r, e.status) THEN next
      ELSE IF e.status = 0 /\ ~r.acts
           THEN Told(done, IF c.action = "create_branch" THEN "threw" ELSE "error")
      ELSE IF r.failed = "next" THEN next
      ELSE Told(done, r.failed)

Send ==
  /\ call.at = "sending"
  /\ LET r == Requests(call)[call.step]
     IN  IF r.extra /\ ~call.extra
         THEN call' = IF call.step = Len(Requests(call)) THEN Told(call, "done")
                      ELSE [call EXCEPT !.step = @ + 1]
         ELSE \E e \in Effects(r) : call' = AfterRequest(call, e)
  /\ UNCHANGED <<server, discovered, account, registry, offered, round>>

\* The reply goes to the model, which may call again.
Reply ==
  /\ call.at = "told"
  /\ call' = NoCall
  /\ UNCHANGED <<server, discovered, account, registry, offered, round>>

ToolsNext ==
  \/ Dispatch \/ Redescribe \/ NextRound
  \/ executeTool \/ Approve \/ DenyWrite \/ Send \/ Reply

-----------------------------------------------------------------------------
(* Properties                                                              *)

ToolsTypeOK ==
  /\ discovered \subseteq Tool /\ server \subseteq Tool
  /\ call.at \in {"idle", "asking", "sending", "told"}
  /\ call.reply \in {"none", "not connected", "missing", "incomplete", "cancelled", "denied",
                     "unknown tool", "done", "partly", "error", "threw"}

\* What reaches a service and was not approved reads: by a name or a mapping of
\* the app's own, of a tool the service had not called dangerous when it was
\* listed.  What a provider says of its tools can only make the app more
\* careful (the comment on ClassifiedTool in mcp-tool-classifier.ts), also when
\* it says something else later (executeTool).
UnaskedReads ==
  (call.at = "sending" /\ ~call.asked) =>
     IF IsLocal(call.tool) THEN ~Requests(call)[call.step].acts
     ELSE /\ call.tool \in discovered /\ call.tool.hint # "destructive"
          /\ call.tool.name = "reads" \/ call.tool.capability = "repo.read"

\* A listed tool can be called, asking the user or not but never both, capped
\* or not, and the model is offered nothing that cannot be called
\* (buildWriteProxyDefinitions: "Vanishing is not a safer default than asking";
\* the registries and definitions of dispatch()).
NothingVanishes ==
  LET callable == registry.reads \cup registry.writes
  IN  /\ discovered \subseteq callable
      /\ registry.reads \cap registry.writes = {}
      /\ \A t \in offered : t \in callable \/ (IsLocal(t) /\ t.kind = "query")

\* Done is said when everything that was asked for happened, one request or
\* two; and what was refused, cancelled or lacked something left the service
\* as it was (the replies of the write handlers).
SaidMeansDone ==
  call.at = "told" =>
    /\ call.reply = "done" =>
         \A i \in 1..Len(Requests(call)) :
           (Requests(call)[i].acts /\ (Requests(call)[i].extra => call.extra)) => i \in call.did
    /\ call.reply \notin {"done", "partly", "error", "threw"} => call.did = {}

\* From the list of a server to the words about a call: what runs unasked
\* reads, what is listed can be called, and what is called done was done
\* (mcp-tool-classifier.ts, dispatcher.ts, tools.ts and the write handlers).
CallsAsTold == UnaskedReads /\ NothingVanishes /\ SaidMeansDone

\* Not so: what is said to have failed may have happened, once its answer was
\* lost or a second request failed.
FailedMeansNothing == call.reply = "error" => call.did = {}
=============================================================================
