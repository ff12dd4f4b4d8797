------------------------------- MODULE Workspace -------------------------------
(***************************************************************************)
(* What a user keeps beside the code of a project: the projects and their  *)
(* settings (src/server/routes/projects.ts, settings.ts), the environment  *)
(* variables (env.ts), the preferences (settings.ts), the versions of the  *)
(* brain's files (brain/manager.ts) and the memory rules (build.ts).       *)
(*                                                                         *)
(* Each handler is a few awaits: it checks the owner, reads, and writes    *)
(* what it makes of what it read; a transaction covers none of them, so    *)
(* two requests interleave at the awaits.  The ghost "inTurn" is what the  *)
(* writes so far would leave, each made after the one before, and "lost"   *)
(* the resources on which a write was made from a read that another write  *)
(* had overtaken.                                                          *)
(***************************************************************************)
EXTENDS Integers, FiniteSets, SequencesExt

CONSTANTS Request,      \* requests under way at once
          Key, Value,   \* of settings, variables and preferences
          MaxOps,       \* requests in all
          WorkspaceFaults \* "db": an audit write fails; "disk": a read fails

Unset == "unset"  \* no such setting or variable, a preference's default

ASSUME WorkspaceAssumption ==
  /\ IsFiniteSet(Request) /\ Key # {} /\ Value # {} /\ Unset \notin Value
  /\ MaxOps \in Nat
  /\ WorkspaceFaults \subseteq {"db", "disk"}

VARIABLES
  projects,     \* rows, oldest first: slug, settings, archived
  auditLog,     \* actions of audit_log
  envVars,      \* project_env_vars of the first project
  prefs,        \* user_preferences of its owner: no row, or values
  brain,        \* shared_brain_files of one type, in order of insertion
  rules,        \* MEMORY_RULES.md
  req, ops,     \* the requests, and how many have begun
  inTurn, lost  \* ghosts

workspaceVars == <<projects, auditLog, envVars, prefs, brain, rules, req, ops, inTurn, lost>>

Resource == {"settings", "vars", "prefs", "brain", "rules"}
AllUnset == [k \in Key |-> Unset]
NoRow == <<>>
Home == CHOOSE v \in Value : TRUE  \* the name of the first project

Slug(base, n, copy) == [base |-> base, n |-> n, copy |-> copy]
Row(slug, settings) == [slug |-> slug, settings |-> settings, archived |-> FALSE]
Taken(slug) == \E i \in DOMAIN projects : projects[i].slug = slug

Idle == [at |-> "idle", kind |-> "none", on |-> "none", key |-> Unset,
         value |-> Unset, n |-> 0, seen |-> <<>>, stale |-> FALSE]

WorkspaceStart ==
  /\ projects = <<Row(Slug(Home, 0, "none"), AllUnset)>>
  /\ auditLog = <<>> /\ envVars = AllUnset /\ prefs = NoRow /\ brain = <<>> /\ rules = <<>>
  /\ req = [r \in Request |-> Idle] /\ ops = 0
  /\ inTurn = [x \in Resource |-> IF x \in {"settings", "vars"} THEN AllUnset ELSE <<>>]
  /\ lost = {}

\* Every table but x stays as it is.
Only(x) ==
  /\ x # "projects" => UNCHANGED projects
  /\ x # "audit" => UNCHANGED auditLog
  /\ x # "vars" => UNCHANGED envVars
  /\ x # "prefs" => UNCHANGED prefs
  /\ x # "brain" => UNCHANGED brain
  /\ x # "rules" => UNCHANGED rules

Goes(r, step) == req' = [req EXCEPT ![r].at = step]
NoEffect == UNCHANGED <<ops, inTurn, lost>>

\* What a write makes of a value, when it comes after all before it.
Applied(value, w) ==
  CASE w.kind = "edit" -> [AllUnset EXCEPT ![w.key] = w.value]
    [] w.kind \in {"merge", "setVar"} -> [value EXCEPT ![w.key] = w.value]
    [] w.kind = "addVar" -> [value EXCEPT ![w.key] = IF @ = Unset THEN w.value ELSE "two rows"]
    [] w.kind = "dropVar" -> [value EXCEPT ![w.key] = Unset]
    [] w.kind = "prefer" -> [(IF value = NoRow THEN AllUnset ELSE value) EXCEPT ![w.key] = w.value]
    [] w.kind = "version" -> Append(value, [version |-> Len(value) + 1, content |-> w.value])
    [] w.kind = "rule" -> Append(value, w.value)

\* A request whose read a write on x overtakes.
Overtaken(b, x) == [b EXCEPT !.stale = @ \/ (b.on = x /\ b.at = "write")]

\* A write on a resource took effect: the reads others made are overtaken.
Wrote(r, step) ==
  LET x == req[r].on
  IN  /\ inTurn' = [inTurn EXCEPT ![x] = Applied(@, req[r])]
      /\ lost' = IF req[r].stale THEN lost \cup {x} ELSE lost
      /\ req' = [s \in Request |-> IF s = r THEN [req[s] EXCEPT !.at = step]
                                   ELSE Overtaken(req[s], x)]
      /\ UNCHANGED ops

-----------------------------------------------------------------------------
(* A request begins                                                        *)

\* Where its value goes, and where it stands once the owner is known: at the
\* slug, at its own read, or at the write; settings come with the owner's row.
Route ==
  [create |-> <<"projects", "slug">>, duplicate |-> <<"projects", "write">>,
   archive |-> <<"projects", "write">>, edit |-> <<"settings", "write">>,
   merge |-> <<"settings", "write">>, addVar |-> <<"vars", "read">>,
   setVar |-> <<"vars", "write">>, dropVar |-> <<"vars", "write">>,
   prefer |-> <<"prefs", "read">>, version |-> <<"brain", "read">>,
   rule |-> <<"rules", "read">>]

\* Whoever is not the owner, or sends a body that is not valid, gets 403, 404
\* or 400 here and nothing happens: such a request is none.
Begin(r, kind, k, v) ==
  /\ req[r].at = "idle" /\ ops < MaxOps
  /\ ops' = ops + 1
  /\ req' = [req EXCEPT ![r] =
       [Idle EXCEPT !.kind = kind, !.on = Route[kind][1], !.at = Route[kind][2],
                    !.key = k, !.value = v, !.seen = projects[1].settings]]
  /\ Only("none") /\ UNCHANGED <<inTurn, lost>>

\* Read and write of one kind of request.
At(r, step, kind) == req[r].at = step /\ req[r].kind = kind

-----------------------------------------------------------------------------
(* Projects                                                                *)

\* mutant of UniqueSlug: the suffix grows before the candidate is looked up.
UniqueSlug_Early(r) ==
  LET free == ~Taken(Slug(req[r].value, req[r].n + 1, "none"))
  IN  /\ At(r, "slug", "create")
      /\ req' = [req EXCEPT ![r].n = @ + 1, ![r].at = IF free THEN "write" ELSE "slug"]
      /\ Only("none") /\ NoEffect

\* One look of uniqueSlug(): the candidate is free, or the suffix grows.
UniqueSlug(r) ==
  /\ At(r, "slug", "create")
  /\ req' = IF Taken(Slug(req[r].value, req[r].n, "none"))
            THEN [req EXCEPT ![r].n = @ + 1] ELSE [req EXCEPT ![r].at = "write"]
  /\ Only("none") /\ NoEffect

\* The insert: slugs are unique, and one taken meanwhile makes it fail.
Insert(r, slug, settings) ==
  IF Taken(slug) THEN Goes(r, "idle") /\ Only("none")
  ELSE /\ projects' = Append(projects, Row(slug, settings))
       /\ Goes(r, "audit") /\ Only("projects")

Create(r) ==
  /\ At(r, "write", "create")
  /\ Insert(r, Slug(req[r].value, req[r].n, "none"), AllUnset)
  /\ NoEffect

\* A copy has the time in its slug; two copies may share a millisecond.
Duplicate(r, ms) ==
  /\ At(r, "write", "duplicate")
  /\ Insert(r, Slug(Home, 0, ms), req[r].seen)
  /\ NoEffect

Archive(r) ==
  /\ At(r, "write", "archive")
  /\ projects' = [projects EXCEPT ![1].archived = TRUE]
  /\ Goes(r, "audit") /\ Only("projects") /\ NoEffect

\* writeAudit() comes after the write: if it fails, so does the request.
WriteAudit(r) ==
  /\ req[r].at = "audit"
  /\ \/ auditLog' = Append(auditLog, req[r].kind) /\ Only("audit")
     \/ "db" \in WorkspaceFaults /\ Only("none")
  /\ Goes(r, "idle") /\ NoEffect

\* PATCH of a project: the settings of the body replace what there was.
Edit(r) ==
  /\ At(r, "write", "edit")
  /\ projects' = [projects EXCEPT ![1].settings =
                    [AllUnset EXCEPT ![req[r].key] = req[r].value]]
  /\ Only("projects") /\ Wrote(r, "audit")

\* PATCH of its settings: the body over the settings read with the owner.
Merge(r) ==
  /\ At(r, "write", "merge")
  /\ projects' = [projects EXCEPT ![1].settings =
                    [req[r].seen EXCEPT ![req[r].key] = req[r].value]]
  /\ Only("projects") /\ Wrote(r, "idle")
-----------------------------------------------------------------------------
(* Variables and preferences                                               *)

\* The keys that exist: a second one is a 409.
ReadVar(r) ==
  /\ At(r, "read", "addVar")
  /\ Goes(r, IF envVars[req[r].key] = Unset THEN "write" ELSE "idle")
  /\ Only("none") /\ NoEffect

\* The index on project, environment and key makes a late insert fail.
AddVar(r) ==
  /\ At(r, "write", "addVar")
  /\ IF envVars[req[r].key] # Unset THEN Goes(r, "idle") /\ Only("none") /\ NoEffect
     ELSE /\ envVars' = [envVars EXCEPT ![req[r].key] = req[r].value]
          /\ Only("vars") /\ Wrote(r, "idle")

\* An update finds its row or answers 404; a delete as well.
SetVar(r) ==
  /\ At(r, "write", "setVar")
  /\ IF envVars[req[r].key] = Unset THEN Goes(r, "idle") /\ Only("none") /\ NoEffect
     ELSE /\ envVars' = [envVars EXCEPT ![req[r].key] = req[r].value]
          /\ Only("vars") /\ Wrote(r, "idle")

DropVar(r) ==
  /\ At(r, "write", "dropVar")
  /\ IF envVars[req[r].key] = Unset THEN Goes(r, "idle") /\ Only("none") /\ NoEffect
     ELSE /\ envVars' = [envVars EXCEPT ![req[r].key] = Unset]
          /\ Only("vars") /\ Wrote(r, "idle")

\* Whether the user has a row yet.
ReadPrefs(r) ==
  /\ At(r, "read", "prefer")
  /\ req' = [req EXCEPT ![r].at = "write", ![r].seen = prefs]
  /\ Only("none") /\ NoEffect

\* mutant of Prefer: an update writes the defaults of what it does not set.
Prefer_Defaults(r) ==
  /\ At(r, "write", "prefer")
  /\ IF req[r].seen = NoRow /\ prefs # NoRow
     THEN Goes(r, "idle") /\ Only("none") /\ NoEffect
     ELSE /\ prefs' = [AllUnset EXCEPT ![req[r].key] = req[r].value]
          /\ Only("prefs") /\ Wrote(r, "idle")

\* An insert with the defaults, which fails when there is a row by now, or an
\* update of the fields the body names.
Prefer(r) ==
  /\ At(r, "write", "prefer")
  /\ IF req[r].seen = NoRow /\ prefs # NoRow
     THEN Goes(r, "idle") /\ Only("none") /\ NoEffect
     ELSE /\ prefs' = [(IF prefs = NoRow THEN AllUnset ELSE prefs)
                          EXCEPT ![req[r].key] = req[r].value]
          /\ Only("prefs") /\ Wrote(r, "idle")

-----------------------------------------------------------------------------
(* The brain and the rules                                                 *)

\* mutant of ReadVersion: the rows are counted.
ReadVersion_Counts(r) ==
  /\ At(r, "read", "version")
  /\ req' = [req EXCEPT ![r].at = "write", ![r].n = Len(brain)]
  /\ Only("none") /\ NoEffect

\* createVersion() reads the largest version there is ...
ReadVersion(r) ==
  /\ At(r, "read", "version")
  /\ req' = [req EXCEPT ![r].at = "write",
                        ![r].n = Max({0} \cup {brain[i].version : i \in DOMAIN brain})]
  /\ Only("none") /\ NoEffect

\* ... and inserts the next; no index keeps two rows from having it.
AddVersion(r) ==
  /\ At(r, "write", "version")
  /\ brain' = Append(brain, [version |-> req[r].n + 1, content |-> req[r].value])
  /\ Only("brain") /\ Wrote(r, "idle")

\* The rules so far; a file that cannot be read passes for none.
ReadRules(r) ==
  /\ At(r, "read", "rule")
  /\ \/ req' = [req EXCEPT ![r].at = "write", ![r].seen = rules]
     \/ /\ "disk" \in WorkspaceFaults
        /\ req' = [req EXCEPT ![r].at = "write", ![r].seen = <<>>,
                              ![r].stale = (rules # <<>>)]
  /\ Only("none") /\ NoEffect

AddRule(r) ==
  /\ At(r, "write", "rule")
  /\ rules' = Append(req[r].seen, req[r].value)
  /\ Only("rules") /\ Wrote(r, "idle")

WorkspaceStep(r, kinds) ==
  \/ \E kind \in kinds, k \in Key, v \in Value : Begin(r, kind, k, v)
  \/ UniqueSlug(r) \/ Create(r) \/ Archive(r) \/ WriteAudit(r) \/ Edit(r) \/ Merge(r)
  \/ \E ms \in {"now", "later"} : Duplicate(r, ms)
  \/ ReadVar(r) \/ AddVar(r) \/ SetVar(r) \/ DropVar(r)
  \/ ReadPrefs(r) \/ Prefer(r)
  \/ ReadVersion(r) \/ AddVersion(r) \/ ReadRules(r) \/ AddRule(r)

WorkspaceNext(kinds) == \E r \in Request : WorkspaceStep(r, kinds)

-----------------------------------------------------------------------------
(* Properties                                                              *)

WorkspaceTypeOK ==
  /\ envVars \in [Key -> Value \cup {Unset}]
  /\ prefs = NoRow \/ prefs \in [Key -> Value \cup {Unset}]
  /\ lost \subseteq Resource
  /\ \A r \in Request : req[r].at \in {"idle", "slug", "read", "write", "audit"}

\* Every write that took effect is there as if the requests had come one
\* after the other, except where a write was made from an overtaken read;
\* variables and preferences are protected even then, by the index and by
\* updates that name their fields (env.ts 113-135, settings.ts 148-186).
WritesInTurn ==
  /\ envVars = inTurn["vars"] /\ prefs = inTurn["prefs"]
  /\ "settings" \notin lost => projects[1].settings = inTurn["settings"]
  /\ "brain" \notin lost => brain = inTurn["brain"]
  /\ "rules" \notin lost => rules = inTurn["rules"]

\* The versions of a file are 1 to the largest with none missing, even when
\* two agents wrote at once (brain/manager.ts 47-92; compareVersions answers
\* 404 for a hole).
NoVersionMissing ==
  {brain[i].version : i \in DOMAIN brain} =
    1 .. Max({0} \cup {brain[i].version : i \in DOMAIN brain})

\* A suffix is given only when the name without it, and every smaller suffix,
\* is another project's (projects.ts 79-92).
NoSlugSkipped ==
  \A i \in DOMAIN projects : \A n \in 0 .. projects[i].slug.n - 1 :
    projects[i].slug.copy = "none" => Taken(Slug(projects[i].slug.base, n, "none"))

\* What the workspace stores is what its requests wrote, one after the other:
\* no write, version or name is passed over (projects.ts, env.ts, settings.ts,
\* brain/manager.ts).
RequestsKept == WritesInTurn /\ NoVersionMissing /\ NoSlugSkipped
=============================================================================
