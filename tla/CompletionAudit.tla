--------------------------- MODULE CompletionAudit ---------------------------
(***************************************************************************)
(* Did the build do what the user asked?  One model lists the requirements *)
(* of the prompt, another says of each whether the delivered files show    *)
(* it, and what it says counts only as far as the files bear it out        *)
(* (src/verify/completion-audit.ts, corroborate.ts).  A short list of gaps *)
(* gets one repair, which is kept or put back (audit-repair.ts and         *)
(* runFastBuild() in src/server/routes/build.ts).                          *)
(*                                                                         *)
(* The two models and the compiler are nondeterministic.  A file is what   *)
(* the audit can look up in it: lines to quote, names it mentions, and     *)
(* whether it stands in for a missing backend.                             *)
(***************************************************************************)
EXTENDS Integers, FiniteSets, SequencesExt

CONSTANTS Extraction,    \* what the first model may list: sequences of wishes
          Blank,         \* an entry without text
          Claim,         \* what the second may say of a requirement
          Delivery,      \* the files a build or its repair may have written
          MaxCriteria,   \* MAX_CRITERIA
          MaxRepairable  \* MAX_REPAIRABLE

\* Gates whose verdicts stand as evidence, and a requirement left out.
GateEvidence == {"check_page", "check_types", "run_tests"}
Uncovered == [status |-> "none", cites |-> {}, exact |-> FALSE, quote |-> "", missing |-> ""]

ASSUME AuditAssumption ==
  /\ MaxCriteria \in Nat \ {0} /\ MaxRepairable \in Nat /\ Uncovered \notin Claim
  /\ \A list \in Extraction : list \in Seq(ToSet(list))
  /\ \A c \in Claim : c.status \in {"proven", "contradicted", "other"}
  /\ \A c \in Claim : c.exact => Cardinality(c.cites) = 1

VARIABLES
  stage,      \* "off", "prompt", "built", "audited", "fix", "types", "again", "done"
  listed,     \* ghost: what the first model listed
  criteria,   \* the requirements kept, in order; their ids are 1, 2, ...
  delivered,  \* the files
  audit,      \* a verdict for each requirement, or none
  dropped,    \* criteriaDropped of the stored audit
  repair,     \* the repair under way or done
  finished    \* the user was told that everything is there

auditVars == <<stage, listed, criteria, delivered, audit, dropped, repair, finished>>

NoRepair == [outcome |-> "not-attempted", green |-> "none", after |-> "none",
             audit |-> <<>>, files |-> <<>>, dropped |-> 0]

AuditStart(on) ==
  /\ stage = IF on THEN "prompt" ELSE "off"
  /\ listed = <<>> /\ criteria = <<>> /\ delivered = <<>> /\ audit = <<>>
  /\ dropped = 0 /\ repair = NoRepair /\ finished = FALSE

-----------------------------------------------------------------------------
(* Requirements                                                            *)

Wishes(list) == SelectSeq(list, LAMBDA w : w # Blank)

\* Where a text is asked for that is neither blank nor asked for before.
Firsts(list) == {i \in DOMAIN list : list[i] # Blank /\ \A j \in 1 .. i - 1 : list[j] # list[i]}
\* The place of the n-th of them.
Nth(places, n) == CHOOSE i \in places : Cardinality({j \in places : j <= i}) = n

\* No text is asked for twice, and the list ends at the cap ...
ParseCriteria(list) ==
  LET places == Firsts(list)
  IN  [n \in 1 .. Min({Cardinality(places), MaxCriteria}) |-> list[Nth(places, n)]]

\* ... behind which what is new is counted, each time it is said.
Dropped(list) ==
  LET kept == ParseCriteria(list)
  IN  IF Len(kept) < MaxCriteria THEN 0
      ELSE Len(SelectSeq(Wishes(list), LAMBDA w : w \notin ToSet(kept)))

\* The extraction fails, or gives nothing: the build is not audited.
Extract ==
  /\ stage = "prompt"
  /\ \E list \in Extraction \cup {<<>>}, files \in Delivery :
       /\ listed' = list /\ criteria' = ParseCriteria(list)
       /\ delivered' = files
       /\ stage' = IF criteria' = <<>> THEN "done" ELSE "built"
  /\ UNCHANGED <<audit, dropped, repair, finished>>

-----------------------------------------------------------------------------
(* Verdicts                                                                *)

Cited(c, files) == c.cites \cap DOMAIN files

QuoteIsInCitedFile(c, files) == \E p \in Cited(c, files) : c.quote \in files[p].lines
SymbolIsAbsent(c, files) ==
  c.missing # "" /\ \E p \in Cited(c, files) : c.missing \notin files[p].names

Unverified(c) == [status |-> "unverified", claim |-> c]

\* mutant of Verdict: what the audit leaves out passes for proven.
Verdict_FailOpen(c, files) ==
  IF c.status \in {"proven", "none"} THEN [status |-> "proven", claim |-> c]
  ELSE IF c.status = "contradicted" /\ (QuoteIsInCitedFile(c, files) \/ SymbolIsAbsent(c, files))
  THEN [status |-> "contradicted", claim |-> c]
  ELSE Unverified(c)

\* A complaint needs a line that is there or a name that is not, a proof a
\* file or a gate that exists; whatever else was said, or not, is unverified.
Verdict(c, files) ==
  IF \/ c.status = "proven" /\ (Cited(c, files) # {} \/ c.cites \cap GateEvidence # {})
     \/ c.status = "contradicted" /\ (QuoteIsInCitedFile(c, files) \/ SymbolIsAbsent(c, files))
  THEN [status |-> c.status, claim |-> c] ELSE Unverified(c)

\* One reply: what is said last of each requirement; nothing at all when the
\* dispatch failed, the money was spent or the reply cannot be read.
Replies == [DOMAIN criteria -> Claim \cup {Uncovered}]
ParseVerdicts(reply, files) == [i \in DOMAIN reply |-> Verdict(reply[i], files)]

FakePersistence(files) == {p \in DOMAIN files : files[p].fake}

\* Of a proof whose evidence is, to the letter, a file that fakes it.
DiscountFakedEvidence(verdicts, files) ==
  [i \in DOMAIN verdicts |->
     LET v == verdicts[i]
     IN  IF v.status = "proven" /\ v.claim.exact /\ v.claim.cites \subseteq FakePersistence(files)
         THEN Unverified(v.claim) ELSE v]

Count(status, verdicts) == Cardinality({i \in DOMAIN verdicts : verdicts[i].status = status})
AllThere(verdicts) == Count("proven", verdicts) = Len(verdicts)

\* The audit, over the files as they are after every loop before it.
AuditBuild ==
  /\ stage = "built"
  /\ \E reply \in Replies :
       audit' = DiscountFakedEvidence(ParseVerdicts(reply, delivered), delivered)
  /\ dropped' = Dropped(listed)
  /\ finished' = AllThere(audit')
  /\ stage' = "audited"
  /\ UNCHANGED <<listed, criteria, delivered, repair>>

-----------------------------------------------------------------------------
(* One repair                                                              *)

\* A check that could not run answers "ok" all the same; none is a failed call.
TypeCheck == {"pass", "fail", "unavailable", "none"}
Green == {"pass", "unavailable"}

Unmet == Len(audit) - Count("proven", audit)

\* Nothing to repair, too much, no sandbox, or the money is spent.
LeaveAlone ==
  /\ stage = "audited"
  /\ stage' = "done"
  /\ UNCHANGED <<listed, criteria, delivered, audit, dropped, repair, finished>>

BeginRepair ==
  /\ stage = "audited" /\ Unmet \in 1 .. MaxRepairable
  /\ \E types \in TypeCheck :
       repair' = [outcome |-> "no-files", green |-> types, after |-> "none",
                  audit |-> audit, files |-> delivered, dropped |-> dropped]
  /\ stage' = "fix"
  /\ UNCHANGED <<listed, criteria, delivered, audit, dropped, finished>>

\* The dispatch failed, or every file it wrote is empty or the template's.
NothingWritten ==
  /\ stage = "fix" /\ stage' = "done"
  /\ UNCHANGED <<listed, criteria, delivered, audit, dropped, repair, finished>>

\* Files are changed or added, never removed; the sandbox gets them all.
RepairWrites ==
  /\ stage = "fix"
  /\ \E files \in Delivery :
       /\ DOMAIN delivered \subseteq DOMAIN files /\ files # delivered
       /\ delivered' = files
  /\ stage' = "types"
  /\ UNCHANGED <<listed, criteria, audit, dropped, repair, finished>>

CheckTypesAgain ==
  /\ stage = "types"
  /\ \E types \in TypeCheck : repair' = [repair EXCEPT !.after = types]
  /\ stage' = "again"
  /\ UNCHANGED <<listed, criteria, delivered, audit, dropped, finished>>

\* mutant of JudgeRepair: a repair is worse only if it proves less by more
\* than what was left to do.
JudgeRepair_Lenient(before, after) ==
  IF repair.green \in Green /\ repair.after = "fail" THEN "reverted-types"
  ELSE IF after + Unmet < before THEN "reverted-worse" ELSE "kept"

\* Put back when it no longer compiles, or proves less than before.
JudgeRepair(before, after) ==
  IF repair.green \in Green /\ repair.after = "fail" THEN "reverted-types"
  ELSE IF after < before THEN "reverted-worse" ELSE "kept"

\* mutant of Reaudit: the record keeps the audit it had.
Reaudit_OldAudit ==
  /\ stage = "again"
  /\ \E reply \in Replies :
       LET after == ParseVerdicts(reply, delivered)
           outcome == JudgeRepair(Count("proven", audit), Count("proven", after))
       IN  /\ repair' = [repair EXCEPT !.outcome = outcome]
           /\ delivered' = IF outcome = "kept" THEN delivered ELSE repair.files
           /\ finished' = (finished \/ (outcome = "kept" /\ AllThere(after)))
  /\ stage' = "done"
  /\ UNCHANGED <<listed, criteria, audit, dropped>>

\* The audit again, over the repaired files.  Kept, it replaces the one in
\* the record, with neither the discount nor the count of what was dropped.
Reaudit ==
  /\ stage = "again"
  /\ \E reply \in Replies :
       LET after == ParseVerdicts(reply, delivered)
           outcome == JudgeRepair(Count("proven", audit), Count("proven", after))
           kept == outcome = "kept"
       IN  /\ repair' = [repair EXCEPT !.outcome = outcome]
           /\ audit' = IF kept THEN after ELSE audit
           /\ dropped' = IF kept THEN 0 ELSE dropped
           /\ delivered' = IF kept THEN delivered ELSE repair.files
           /\ finished' = (finished \/ (kept /\ AllThere(after)))
  /\ stage' = "done"
  /\ UNCHANGED <<listed, criteria>>

AuditNext ==
  \/ Extract \/ AuditBuild \/ LeaveAlone \/ BeginRepair
  \/ NothingWritten \/ RepairWrites \/ CheckTypesAgain \/ Reaudit

-----------------------------------------------------------------------------
(* Properties                                                              *)

AuditTypeOK ==
  /\ stage \in {"off", "prompt", "built", "audited", "fix", "types", "again", "done"}
  /\ audit = <<>> \/ DOMAIN audit = DOMAIN criteria
  /\ repair.outcome \in {"not-attempted", "no-files", "kept", "reverted-types", "reverted-worse"}

\* What the record says of a requirement is borne out by the files the user
\* gets, whether a repair was kept or put back: a proof cites one of them or a
\* gate, a complaint a line that is there or a name that is not
\* (completion-audit.ts 187-292, build.ts 4578-4616).
VerdictsBacked ==
  stage = "done" => \A i \in DOMAIN audit :
    LET c == audit[i].claim
    IN  /\ audit[i].status = "proven" => Cited(c, delivered) # {} \/ c.cites \cap GateEvidence # {}
        /\ audit[i].status = "contradicted" =>
             QuoteIsInCitedFile(c, delivered) \/ SymbolIsAbsent(c, delivered)

\* A repair costs nothing the build had: put back, the files and the record
\* are those of before; kept, no fewer requirements are proven, and code that
\* compiled is not known to have stopped (audit-repair.ts 186-216).
RepairDoesNoHarm ==
  stage = "done" /\ repair.outcome # "not-attempted" =>
    IF repair.outcome = "kept"
    THEN /\ Count("proven", audit) >= Count("proven", repair.audit)
         /\ ~(repair.green = "pass" /\ repair.after = "fail")
    ELSE delivered = repair.files /\ audit = repair.audit /\ dropped = repair.dropped

\* A build is called finished only when each of the requirements listed
\* first, up to the cap, is proven in the record (completion-audit.ts 46-63).
FinishedMeansProven ==
  finished => \A i \in DOMAIN ParseCriteria(listed) : audit[i].status = "proven"

\* What the audit makes of a build is borne out by its files, its repair
\* included (completion-audit.ts, audit-repair.ts, build.ts 4394-4616).
AuditBorneOut == VerdictsBacked /\ RepairDoesNoHarm /\ FinishedMeansProven

\* A requirement is not proven by a file that fakes it: the verdict is
\* downgraded wherever its evidence is such a file (completion-audit.ts
\* 311-330).
NotProvenByAFake ==
  stage \in {"audited", "done"} => \A i \in DOMAIN audit :
    audit[i].status = "proven" => ~(audit[i].claim.cites \subseteq FakePersistence(delivered))

\* The stored audit cannot read as full coverage when the cap dropped
\* requirements (build.ts 4434-4438).
DroppedIsStored ==
  stage = "done" /\ audit # <<>> => dropped = Dropped(listed)
=============================================================================
