----------------------------- MODULE AppDatabase -----------------------------
(***************************************************************************)
(* The database of an app, over the builds of one project: the Supabase    *)
(* connections the user stores (src/server/routes/integrations.ts,         *)
(* src/mcp/supabase-mcp.ts), the question a full-stack build asks before   *)
(* it starts (src/server/database-prompt.ts) and those the model asks      *)
(* (src/agents/tools/ask-user.ts, src/agents/pending-answers.ts), the      *)
(* schema it runs in the user's own project, and what it says about all    *)
(* that at the end (src/verify/data-layer.ts, src/server/routes/build.ts). *)
(*                                                                         *)
(* A build is a sequence of awaits; requests, answers, timers, a socket    *)
(* that goes and a restart of the process fall between any two.  Supabase  *)
(* is external: a migration is refused, or lands, before or after the      *)
(* build stopped waiting for it.  What the model writes is any choice.     *)
(***************************************************************************)
EXTENDS Naturals, FiniteSets, TLC

CONSTANTS Supabase,   \* the user's Supabase projects
          Table,
          MaxChanges, \* requests that change what is connected
          MaxBuilds,
          MaxAsks,    \* calls of ask_user in one build
          MaxRestarts,
          Unread      \* whether a read of the stored credentials may fail

Nowhere  == "nowhere"   \* no project: nothing stored, or not read
Unscoped == "unscoped"  \* a token that names no project

ASSUME AppDatabaseAssumption ==
  /\ {Nowhere, Unscoped} \cap Supabase = {}
  /\ {MaxChanges, MaxBuilds, MaxAsks, MaxRestarts} \subseteq Nat /\ Unread \in BOOLEAN

VARIABLES
  stored,  \* user_integrations' row, and whose token user_mcp_connections has
  tables,  \* in each Supabase project
  process, \* what this server process remembers: [asked, env, entries]
  tab,     \* whether a socket is in the session's room
  app,     \* the project's files: [exists, backend, fake, declared, queried]
  build,
  flight,  \* the migration sent: [to, what], or none
  spent    \* [changes, builds, restarts]

databaseVars == <<stored, tables, process, tab, app, build, flight, spent>>

NothingStored     == [project |-> Nowhere, anon |-> FALSE, token |-> FALSE]
NoApp     == [exists |-> FALSE, backend |-> FALSE, fake |-> FALSE, declared |-> {}, queried |-> {}]
NotSent   == [to |-> Nowhere, what |-> {}]
NotRun    == [ran |-> FALSE, ok |-> TRUE]
NoBuild   == [at |-> "idle", kind |-> "none", had |-> FALSE, own |-> FALSE, waits |-> "nothing",
              asks |-> 0, got |-> [ask |-> "nothing", gate |-> "nothing"], accepted |-> {},
              schema |-> NotRun, sent |-> NotSent, said |-> {}]
Remembers == [asked |-> FALSE, env |-> Nowhere, entries |-> {}]

BuildAt(place) == build.at = place
Move(place) == [build EXCEPT !.at = place]

-----------------------------------------------------------------------------
(* What is connected                                                       *)

\* getUserSupabasePreviewCreds reads the one row, getUserSupabaseMcpAuth the
\* other and, for older connections, the first.
previewCreds == IF stored.row.anon THEN stored.row.project ELSE Nowhere
mcpAuth == IF stored.mcp # Nowhere THEN stored.mcp
           ELSE IF stored.row.token THEN stored.row.project ELSE Nowhere
Read(credential) == {credential} \cup (IF Unread THEN {Nowhere} ELSE {})

Changes(new) ==
  /\ spent.changes < MaxChanges /\ spent' = [spent EXCEPT !.changes = @ + 1]
  /\ stored' = new
  /\ UNCHANGED <<tables, process, tab, app, build, flight>>

\* POST /supabase: a URL and a service key, which the preview has no use for.
ConnectServiceKey ==
  \E p \in Supabase :
    Changes([stored EXCEPT !.row = [project |-> p, anon |-> FALSE, token |-> FALSE]])

\* POST /supabase/mcp: refused unless the project's URL and anon key were read.
ConnectToken ==
  \E p \in Supabase :
    Changes([row |-> [project |-> p, anon |-> TRUE, token |-> FALSE], mcp |-> p])

\* The OAuth callback knows no project.
ConnectOAuth == Changes([stored EXCEPT !.mcp = Unscoped])

\* DELETE /:id takes both away, DELETE /mcp/supabase only its own.
DisconnectSupabase == Changes([row |-> NothingStored, mcp |-> Nowhere])
DisconnectMcp == Changes([stored EXCEPT !.mcp = Nowhere])

-----------------------------------------------------------------------------
(* Questions                                                               *)

\* resolveAnswer: the entry goes and whoever still waits for it has its answer.
\* done() of the gate and the race of ask_user take the first that comes.
Given(question, answer, accepted) ==
  LET heard == build.waits = question
  IN  [build EXCEPT !.got = IF heard THEN [@ EXCEPT ![question] = answer] ELSE @,
                    !.waits = IF heard THEN "nothing" ELSE @,
                    !.accepted = @ \cup accepted]

Opened(question) == process' = [process EXCEPT !.entries = @ \cup {question}]
Closed(question) == process' = [process EXCEPT !.entries = @ \ {question}]

\* build:answer from a socket in the room.
PersonAnswers ==
  /\ tab
  /\ \E q \in process.entries, words \in {"connect", "decline", "something else"} :
       /\ Closed(q)
       /\ build' = Given(q, words, {<<q, words>>})
  /\ UNCHANGED <<stored, tables, tab, app, flight, spent>>

\* The gate's timer ends its wait and nothing else.
GateTimesOut ==
  /\ build.waits = "gate"
  /\ build' = Given("gate", "no answer", {})
  /\ UNCHANGED <<stored, tables, process, tab, app, flight, spent>>

\* mutant of AskTimesOut: the timer ends the wait and leaves the entry
AskTimesOut_LeavesEntry ==
  /\ "ask" \in process.entries /\ build.waits = "ask"
  /\ build' = Given("ask", "no answer", {})
  /\ UNCHANGED <<stored, tables, process, tab, app, flight, spent>>

\* ask_user's resolves its entry first.
AskTimesOut ==
  /\ "ask" \in process.entries /\ build.waits = "ask"
  /\ Closed("ask") /\ build' = Given("ask", "no answer", {})
  /\ UNCHANGED <<stored, tables, tab, app, flight, spent>>

\* A socket of the session goes: every question of it is answered with nothing.
TabGoes ==
  /\ tab /\ tab' = FALSE
  /\ process' = [process EXCEPT !.entries = {}]
  /\ build' = IF build.waits \in process.entries THEN Given(build.waits, "no answer", {}) ELSE build
  /\ UNCHANGED <<stored, tables, app, flight, spent>>

TabComes ==
  /\ ~tab /\ tab' = TRUE
  /\ UNCHANGED <<stored, tables, process, app, build, flight, spent>>

-----------------------------------------------------------------------------
(* The start of a build                                                    *)

Starting(kind, place) ==
  [NoBuild EXCEPT !.at = place, !.kind = kind, !.had = previewCreds # Nowhere /\ mcpAuth # Nowhere]

\* A follow-up edit is never "full-stack", nor is a build not classified so:
\* ownSupabaseConnected stays as it was declared, false.
BeginOther ==
  /\ build.at \in {"idle", "done"} /\ spent.builds < MaxBuilds
  /\ build' = Starting(IF app.exists THEN "edit" ELSE "frontend", "generate")
  /\ spent' = [spent EXCEPT !.builds = @ + 1]
  /\ UNCHANGED <<stored, tables, process, tab, app, flight>>

\* A new full-stack build reads the credentials and, where there are none, asks
\* the person: once in the life of this process.
BeginFullstack ==
  /\ build.at \in {"idle", "done"} /\ spent.builds < MaxBuilds /\ ~app.exists
  /\ spent' = [spent EXCEPT !.builds = @ + 1]
  /\ \E creds \in Read(previewCreds) :
       IF creds = Nowhere /\ ~process.asked
       THEN /\ build' = [Starting("fullstack", "gate") EXCEPT !.waits = "gate"]
            /\ process' = [process EXCEPT !.asked = TRUE, !.entries = @ \cup {"gate"}]
       ELSE /\ build' = [Starting("fullstack", "generate") EXCEPT !.own = creds # Nowhere]
            /\ process' = [process EXCEPT !.env = creds]
  /\ UNCHANGED <<stored, tables, tab, app, flight>>

\* interpretDatabaseAnswer only ends the wait; for "connect" the row decides.
GateEnds ==
  /\ BuildAt("gate") /\ build.waits = "nothing"
  /\ \E creds \in (IF build.got.gate = "connect" THEN Read(previewCreds) ELSE {Nowhere}) :
       /\ build' = [Move("generate") EXCEPT
                      !.own  = creds # Nowhere,
                      !.said = @ \cup (IF build.got.gate = "no answer" THEN {"building without one"} ELSE {})
                                 \cup (IF build.got.gate = "connect" /\ creds = Nowhere
                                       THEN {"could not see it"} ELSE {})]
       /\ process' = [process EXCEPT !.env = creds]
  /\ UNCHANGED <<stored, tables, tab, app, flight, spent>>

-----------------------------------------------------------------------------
(* The code, and the schema                                                *)

AskUser ==
  /\ BuildAt("generate") /\ build.waits = "nothing" /\ build.asks < MaxAsks
  /\ Opened("ask")
  /\ build' = [build EXCEPT !.waits = "ask", !.asks = @ + 1, !.got.ask = "nothing",
                           !.accepted = {a \in @ : a[1] # "ask"}]
  /\ UNCHANGED <<stored, tables, tab, app, flight, spent>>

Generate ==
  /\ BuildAt("generate") /\ build.waits = "nothing"
  /\ \E backend, fake \in BOOLEAN, declared, queried \in SUBSET Table :
       app' = [exists |-> TRUE, backend |-> backend, fake |-> fake,
               declared |-> declared, queried |-> queried]
  /\ build' = Move("schema")
  /\ UNCHANGED <<stored, tables, process, tab, flight, spent>>

\* Queried tables nobody declares are asked for; an answer that lost one of
\* the declared is put back.
undeclaredTables == app.queried \ app.declared
RepairSchema ==
  /\ BuildAt("schema") /\ undeclaredTables # {}
  /\ \E declared \in SUBSET Table :
       app' = IF app.declared \subseteq declared THEN [app EXCEPT !.declared = declared] ELSE app
  /\ build' = Move("apply")
  /\ UNCHANGED <<stored, tables, process, tab, flight, spent>>

SchemaStands ==
  /\ BuildAt("schema") /\ build' = Move("apply")
  /\ UNCHANGED <<stored, tables, process, tab, app, flight, spent>>

\* Only a new full-stack build with a schema runs it, in whatever project the
\* stored token is for by now.
ApplySkipped ==
  /\ BuildAt("apply") /\ (build.kind # "fullstack" \/ app.declared = {})
  /\ build' = Move("repairs")
  /\ UNCHANGED <<stored, tables, process, tab, app, flight, spent>>

\* mutant of ApplySent: nobody waits for the migration to be answered
ApplySent_Unawaited ==
  /\ BuildAt("apply") /\ build.kind = "fullstack" /\ app.declared # {}
  /\ \E auth \in Read(mcpAuth) :
       IF auth = Nowhere
       THEN build' = [Move("repairs") EXCEPT !.schema = [ran |-> FALSE, ok |-> FALSE]] /\ flight' = flight
       ELSE /\ flight' = [to |-> auth, what |-> app.declared]
            /\ build' = [Move("repairs") EXCEPT !.sent = flight', !.schema = [ran |-> TRUE, ok |-> TRUE]]
  /\ UNCHANGED <<stored, tables, process, tab, app, spent>>

ApplySent ==
  /\ BuildAt("apply") /\ build.kind = "fullstack" /\ app.declared # {}
  /\ \E auth \in Read(mcpAuth) :
       IF auth = Nowhere
       THEN build' = [Move("repairs") EXCEPT !.schema = [ran |-> FALSE, ok |-> FALSE]] /\ flight' = flight
       ELSE /\ flight' = [to |-> auth, what |-> app.declared]
            /\ build' = [Move("applying") EXCEPT !.sent = flight']
  /\ UNCHANGED <<stored, tables, process, tab, app, spent>>

\* The migration lands, and its answer arrives if the build still waits for it
\* and the connection holds.
Lands ==
  /\ flight.to \in Supabase /\ flight' = NotSent
  /\ tables' = [tables EXCEPT ![flight.to] = @ \cup flight.what]
  /\ \E heard \in BOOLEAN :
       build' = IF BuildAt("applying") THEN [Move("repairs") EXCEPT !.schema = [ran |-> TRUE, ok |-> heard]]
                ELSE build
  /\ UNCHANGED <<stored, process, tab, app, spent>>

\* Refused: by Supabase, or for want of a project.
Refuses ==
  /\ flight # NotSent /\ flight' = NotSent
  /\ build' = IF BuildAt("applying") THEN [Move("repairs") EXCEPT !.schema = [ran |-> TRUE, ok |-> FALSE]]
              ELSE build
  /\ UNCHANGED <<stored, tables, process, tab, app, spent>>

ApplyTimesOut ==
  /\ BuildAt("applying")
  /\ build' = [Move("repairs") EXCEPT !.schema = [ran |-> TRUE, ok |-> FALSE]]
  /\ UNCHANGED <<stored, tables, process, tab, app, flight, spent>>

\* The repair loops after it may rewrite any file.
LaterRepair ==
  /\ BuildAt("repairs")
  /\ \E fake \in BOOLEAN, declared, queried \in SUBSET Table :
       app' = [app EXCEPT !.fake = fake, !.declared = declared, !.queried = queried]
  /\ build' = Move("close")
  /\ UNCHANGED <<stored, tables, process, tab, flight, spent>>

-----------------------------------------------------------------------------
(* What is said                                                            *)

\* findDataLayerGaps, with the flag of the start of the build.
findDataLayerGaps ==
  {gap \in {"fake-persistence", "table-never-declared", "schema-never-applied"} :
     CASE gap = "fake-persistence"     -> app.fake
       [] gap = "table-never-declared" -> undeclaredTables # {}
       [] gap = "schema-never-applied" -> app.queried # {} /\ app.declared # {} /\ ~build.own}

\* fullstackEvidence: a schema that applied proves a connection.
databaseConnected == build.own \/ (build.schema.ran /\ build.schema.ok)
real == app.backend /\ databaseConnected /\ app.queried # {} /\ ~app.fake /\ build.schema.ok
\* A prompt that asks for sign-in counts as a request for a backend.
closingLines(signIn) ==
  IF build.kind # "fullstack" /\ ~app.backend /\ ~signIn THEN {}
  ELSE IF real THEN {"real backend"}
  ELSE {IF databaseConnected THEN "database: connected" ELSE "database: not connected"}
       \cup (IF ~build.schema.ran /\ ~build.schema.ok THEN {"tables: no database to create them in"}
             ELSE IF ~build.schema.ok THEN {"tables: could not create them"}
             ELSE IF build.schema.ran THEN {"tables: created"} ELSE {})

Finish ==
  /\ build.at \in {"repairs", "close"}
  /\ \E signIn \in BOOLEAN :
       build' = [Move("done") EXCEPT !.said = @ \cup findDataLayerGaps \cup closingLines(signIn)]
  /\ UNCHANGED <<stored, tables, process, tab, app, flight, spent>>

\* The process ends: its maps are gone, and so is the build.
Restart ==
  /\ spent.restarts < MaxRestarts /\ spent' = [spent EXCEPT !.restarts = @ + 1]
  /\ process' = Remembers /\ build' = NoBuild /\ tab' = FALSE
  /\ UNCHANGED <<stored, tables, app, flight>>

DatabaseStart(rows) ==
  /\ stored \in rows
  /\ tables = [p \in Supabase |-> {}] /\ process = Remembers /\ tab = TRUE
  /\ app = NoApp /\ build = NoBuild /\ flight = NotSent
  /\ spent = [changes |-> 0, builds |-> 0, restarts |-> 0]

DatabaseNext ==
  \/ ConnectServiceKey \/ ConnectToken \/ ConnectOAuth \/ DisconnectSupabase \/ DisconnectMcp
  \/ PersonAnswers \/ GateTimesOut \/ AskTimesOut \/ TabGoes \/ TabComes
  \/ BeginOther \/ BeginFullstack \/ GateEnds \/ AskUser \/ Generate
  \/ RepairSchema \/ SchemaStands \/ ApplySkipped \/ ApplySent \/ Lands \/ Refuses \/ ApplyTimesOut
  \/ LaterRepair \/ Finish \/ Restart

-----------------------------------------------------------------------------
(* Properties                                                              *)

\* A build waits for at most one question, and what is stored names projects.
DatabaseTypeOK ==
  /\ stored.row.project \in Supabase \cup {Nowhere}
  /\ stored.mcp \in Supabase \cup {Nowhere, Unscoped}
  /\ build.waits \in {"nothing", "gate", "ask"}
  /\ build.waits # "nothing" => build.at \in {"gate", "generate"}
  /\ process.entries \subseteq {"gate", "ask"}

\* What the build says of the tables is so: those called created are in the
\* project the migration went to, whatever later repairs made of the schema,
\* and where there was no database to create them in nothing was sent, nor
\* arrives later (build.ts 3495-3533, 5071-5083).
TablesToldTruly ==
  BuildAt("done") =>
    /\ build.said \cap {"tables: created", "real backend"} # {} /\ build.schema.ran =>
         build.sent.to \in Supabase /\ build.sent.what \subseteq tables[build.sent.to]
    /\ "tables: no database to create them in" \in build.said => build.sent = NotSent

\* An answer to ask_user that was accepted is the one the model goes on with,
\* however close the timer and a closing tab came to it: an answer that comes
\* too late is refused (pending-answers.ts 35-54, ask-user.ts 42-54).
AcceptedIsUsed ==
  \A words \in {"connect", "decline", "something else"} :
    <<"ask", words>> \in build.accepted => build.got.ask = words

\* What a build says of the app's database, and what it makes of the person's
\* answer, is what happened, however late answers and migrations come.
DatabaseAsTold == TablesToldTruly /\ AcceptedIsUsed

\* "Database: not connected" is said at the end of an edit only where the
\* user has none connected.  Not so: a follow-up edit never looks, and says it
\* of every app with a backend (build.ts 1183, 1195-1196, 4856, 5065-5068).
NotConnectedIsSo ==
  build.kind = "edit" /\ "database: not connected" \in build.said =>
    ~(build.had /\ previewCreds # Nowhere /\ mcpAuth # Nowhere)

\* A build that goes on without the database it asked for says so, unless
\* the person declined (build.ts 1236-1266).  Not so of an answer that is
\* neither.
NoSilentSkip ==
  ~BuildAt("gate") /\ build.got.gate \notin {"nothing", "decline"} /\ ~build.own
    => build.said \cap {"building without one", "could not see it"} # {}

\* An app with tables in the user's own project is previewed on that project.
\* Not so: two rows may name two projects, and a restart forgets the setting.
RunsOnItsTables ==
  "tables: created" \in build.said => process.env = build.sent.to

\* A real backend has the tables it queries.  Not so where no schema was run.
RealHasTables ==
  "real backend" \in build.said =>
    process.env \in Supabase /\ app.queried \subseteq tables[process.env]

\* No question is left behind once nobody waits for it.  Not so of the gate's.
NoEntryLeft == process.entries \subseteq {build.waits}
=============================================================================
