------------------------------ MODULE ToolLoop ------------------------------
(***************************************************************************)
(* The generation dispatch of a build: attempts at models, rounds of       *)
(* replies and tool calls, the verdicts of the checks the model asks for,  *)
(* and the events told of all that (src/agents/dispatcher.ts,              *)
(* agents/tools/*.ts, verify/outcome-projection.ts).                       *)
(*                                                                         *)
(* The files of the build are a version: 1 is what the build started from, *)
(* every change makes a new one.  A verdict keeps the version it is about; *)
(* 0 stands for a sandbox that is out of step with the files.  The events  *)
(* are kept folded, as projectOutcome() folds them.  The cost ceiling is   *)
(* reached or not: how much a reply costs is left open.                    *)
(***************************************************************************)
EXTENDS Naturals

CONSTANTS Gate,        \* the checks: "page", "types", "tests"
          MaxRounds,   \* AGENTIC_MAX_TURNS
          MaxCalls,    \* bound on the tool calls of one reply
          Tiers,       \* models to try, MODEL_TIERS
          Retries,     \* RETRIES_PER_TIER
          StaleWrites, \* MAX_WRITES_BEFORE_AUTO_CHECK
          MaxChanges,  \* bound on the changes to the files of one build
          Faults       \* "model": a reply breaks off; "write": the sandbox refuses a write;
                       \* "check": a check cannot run; "slow": the preview takes over 240 s;
                       \* "storage": project storage refuses an upload or is slow

ASSUME ConstantsAssumption ==
  /\ Gate \subseteq {"page", "types", "tests"}
  /\ MaxRounds \in Nat \ {0} /\ MaxCalls \in Nat /\ Tiers \in Nat \ {0}
  /\ Retries \in Nat /\ StaleWrites \in Nat \ {0} /\ MaxChanges \in Nat

VARIABLES
  pc,           \* "reply", "tools", then the stages of BuildEvidence
  tier, tries,  \* dispatch(), callModelWithRetry()
  round, nudged, \* callModel(): the round and the corrections made
  left,         \* calls of the reply that are still to run
  spinning,     \* announced calls without a result
  spent,        \* the cost ceiling is reached
  gate, asOf,   \* gateResults, and the version each verdict is about
  code, made,   \* the version of the files, and how many there were
  lag,          \* the sandbox does not hold that version
  seen, seenOf, \* projectOutcome() of the events so far, and the versions
  \* observed only
  gap,          \* per gate: why seen may be fresh and about another version
  leftOn        \* a reply was cut short with calls announced

attempt == <<tier, tries, round, nudged>>
verdicts == <<gate, asOf>>
files == <<code, made, lag>>
events == <<seen, seenOf, gap>>
calls == <<left, spinning, leftOn>>
loopVars == <<pc, attempt, calls, spent, verdicts, files, events>>

Status == {"never", "verdict", "unavailable"}
Version == 0..MaxChanges + 1
Gap == {"none", "reread", "unrecorded", "reverted", "retry", "unsynced", "overtaken"}

LoopTypeOK ==
  /\ tier \in 1..Tiers /\ tries \in 0..Retries /\ round \in 1..MaxRounds
  /\ nudged \subseteq {"typed", "empty"}
  /\ left \in 0..MaxCalls /\ spinning \in 0..MaxCalls /\ spent \in BOOLEAN
  /\ gate \in [Gate -> [status : Status, writes : 0..StaleWrites]]
  /\ asOf \in [Gate -> Version] /\ seenOf \in [Gate -> Version]
  /\ code \in 1..MaxChanges + 1 /\ made \in 1..MaxChanges + 1 /\ lag \in BOOLEAN
  /\ seen \in [Gate -> [status : Status, outrun : BOOLEAN]]
  /\ gap \in [Gate -> Gap]
  /\ leftOn \in BOOLEAN

NoVerdicts == [g \in Gate |-> [status |-> "never", writes |-> 0]]
Unseen == [g \in Gate |-> 0]
Unmarked == [g \in Gate |-> "none"]

LoopInit ==
  /\ pc = "reply" /\ tier = 1 /\ tries = 0 /\ round = 1 /\ nudged = {}
  /\ left = 0 /\ spinning = 0 /\ leftOn = FALSE /\ spent = FALSE
  /\ gate = NoVerdicts /\ asOf = Unseen
  /\ code = 1 /\ made = 1 /\ lag = FALSE
  /\ seen = [g \in Gate |-> [status |-> "never", outrun |-> FALSE]]
  /\ seenOf = Unseen
  /\ gap = Unmarked

May(f) == f \in Faults

-----------------------------------------------------------------------------
(* What a check finds, and the fold of the events                          *)

\* A check looks at the sandbox.
Looked == IF lag THEN 0 ELSE code

\* verification/result
Verdict(g, status, version, why) ==
  /\ seen' = [seen EXCEPT ![g] = [status |-> status, outrun |-> FALSE]]
  /\ seenOf' = [seenOf EXCEPT ![g] = version]
  /\ gap' = [gap EXCEPT ![g] = why]

\* files/written outruns every verdict given; what they were about is of no
\* interest then.
Written ==
  /\ seen' = [g \in Gate |-> [seen[g] EXCEPT !.outrun = @ \/ seen[g].status # "never"]]
  /\ seenOf' = Unseen /\ gap' = Unmarked

\* The files change and no event says so.
Unwritten(why) ==
  /\ gap' = [g \in Gate |-> IF seen[g].status # "never" /\ ~seen[g].outrun
                            THEN why ELSE gap[g]]
  /\ UNCHANGED <<seen, seenOf>>

NewVersion ==
  /\ made <= MaxChanges
  /\ made' = made + 1
  /\ code' = made + 1

\* writeFilesToSandbox() of all the files: a failure is told to the model or
\* swallowed.
WriteSandbox == lag' \in IF May("write") THEN BOOLEAN ELSE {FALSE}

-----------------------------------------------------------------------------
(* The tools, one call at a time                                           *)

\* The dispatcher emits the result of the call and goes to the next one.
Result ==
  /\ pc = "tools" /\ left > 0
  /\ left' = left - 1 /\ spinning' = spinning - 1
  /\ UNCHANGED <<pc, attempt, leftOn, spent>>

\* mutant of Noted: a write forgets one of the three counters.
Noted_OneForgotten ==
  [g \in Gate |-> IF gate[g].status = "never" \/ g = "types" THEN gate[g]
                  ELSE [gate[g] EXCEPT !.writes = IF @ < StaleWrites THEN @ + 1 ELSE @]]

\* noteWrite(); counted no further than anyone asks.
Noted ==
  [g \in Gate |-> IF gate[g].status = "never" THEN gate[g]
                  ELSE [gate[g] EXCEPT !.writes = IF @ < StaleWrites THEN @ + 1 ELSE @]]

\* autoCheckReason()
AutoCheck(g) == gate[g].status = "never" \/ Noted[g].writes >= StaleWrites

\* write_files: the version is taken whether or not the sandbox takes it too, and
\* the page is looked at unless a verdict on it is recent.  No event tells of that.
WriteFiles ==
  /\ Result
  /\ NewVersion
  /\ \/ /\ lag' = FALSE
        /\ \/ /\ "page" \in Gate /\ AutoCheck("page")
              /\ gate' = [Noted EXCEPT !["page"] = [status |-> "verdict", writes |-> 0]]
              /\ asOf' = [asOf EXCEPT !["page"] = code']
           \/ /\ "page" \in Gate /\ AutoCheck("page") => May("check")
              /\ gate' = Noted /\ UNCHANGED asOf
     \/ /\ May("write") /\ lag' = TRUE
        /\ gate' = Noted /\ UNCHANGED asOf
  /\ Written

\* edit_file
EditFile ==
  /\ Result
  /\ NewVersion
  /\ WriteSandbox
  /\ gate' = Noted /\ UNCHANGED asOf
  /\ Written

\* delete_file: every path it removes is told; another may be left half removed.
DeleteFile ==
  /\ Result
  /\ NewVersion
  /\ UNCHANGED lag \/ (May("write") /\ lag' = TRUE)
  /\ gate' = Noted /\ UNCHANGED asOf
  /\ Written

\* revert: a path that was only generated in this build, or that goes back to what
\* the project started from, just leaves generatedFiles.  The dispatcher tells of
\* what is still there and of new tombstones, and so may tell of nothing.
RevertFiles ==
  /\ Result
  /\ NewVersion
  /\ gate' = Noted /\ UNCHANGED <<lag, asOf>>
  /\ Written \/ Unwritten("reverted")

\* Their failure leaves the version; the sandbox may keep part of the change.
DeleteOrRevertFails ==
  /\ Result
  /\ May("write") /\ lag' = TRUE
  /\ UNCHANGED <<verdicts, code, made, events>>

\* write_files and edit_file count a write before they refuse it.
RefuseWrite ==
  /\ Result
  /\ gate' = Noted
  /\ UNCHANGED <<asOf, files, events>>

\* check_page, check_types, run_tests; then the dispatcher reports what gateResults
\* holds, which is the last verdict when the check threw.
CheckTool(g) ==
  /\ Result
  /\ \/ /\ gate' = [gate EXCEPT ![g] = [status |-> "verdict", writes |-> 0]]
        /\ asOf' = [asOf EXCEPT ![g] = Looked]
        /\ Verdict(g, "verdict", Looked, IF lag THEN "unsynced" ELSE "none")
     \/ /\ May("check")
        /\ gate' = [gate EXCEPT ![g] = [status |-> "unavailable", writes |-> 0]]
        /\ asOf' = [asOf EXCEPT ![g] = 0]
        /\ Verdict(g, "unavailable", 0, "none")
     \/ /\ May("check")
        /\ UNCHANGED verdicts
        /\ IF gate[g].status = "never" THEN UNCHANGED events
           ELSE Verdict(g, gate[g].status, asOf[g],
                        IF gate[g].writes > 0 THEN "reread"
                        ELSE IF asOf[g] = 0 THEN "unsynced" ELSE "none")
  /\ UNCHANGED files

\* Any tool that changes nothing, and any that throws.
OtherTool ==
  /\ Result
  /\ UNCHANGED <<verdicts, files, events>>

ToolsDone ==
  /\ pc = "tools" /\ left = 0
  /\ pc' = "reply" /\ round' = round + 1
  /\ UNCHANGED <<tier, tries, nudged, calls, spent, verdicts, files, events>>

Tool ==
  \/ WriteFiles \/ EditFile \/ DeleteFile \/ RevertFiles \/ DeleteOrRevertFails
  \/ RefuseWrite \/ OtherTool
  \/ \E g \in Gate : CheckTool(g)

-----------------------------------------------------------------------------
(* callModel(): a reply that announces n calls                             *)

Reply ==
  /\ pc = "reply"
  /\ UNCHANGED <<files, events>>

Continue == UNCHANGED <<tier, tries, verdicts>>

\* The loop is over, and what it counted goes out of scope.
Return ==
  /\ pc' = "parse"
  /\ tier' = 1 /\ tries' = 0 /\ round' = 1 /\ nudged' = {}
  /\ gate' = NoVerdicts /\ asOf' = Unseen

LeaveOn(n) == leftOn' = (leftOn \/ n > 0)

\* The reply that reaches the ceiling ends the loop.
CeilingReached(n) ==
  /\ Reply
  /\ spent' = TRUE
  /\ LeaveOn(n)
  /\ Return
  /\ UNCHANGED <<left, spinning>>

RunCalls(n) ==
  /\ Reply /\ Continue
  /\ n > 0 /\ round < MaxRounds
  /\ left' = n /\ spinning' = n
  /\ pc' = "tools"
  /\ UNCHANGED <<round, nudged, leftOn, spent>>

\* mutant of LastRound: the calls of the last reply are not closed.
LastRound_LeftOpen(n) ==
  /\ Reply
  /\ n > 0 /\ round = MaxRounds
  /\ spinning' = n
  /\ Return
  /\ UNCHANGED <<left, leftOn, spent>>

\* No round is left: the calls are closed without being run.
LastRound(n) ==
  /\ Reply
  /\ n > 0 /\ round = MaxRounds
  /\ Return
  /\ UNCHANGED <<left, spinning, leftOn, spent>>

\* A reply that typed a call or said nothing is corrected once.
Nudge(n, why) ==
  /\ Reply /\ Continue
  /\ why \notin nudged /\ round < MaxRounds
  /\ nudged' = nudged \cup {why}
  /\ round' = round + 1
  /\ LeaveOn(n)
  /\ UNCHANGED <<pc, left, spinning, spent>>

\* The model is done, or stopped for another reason than its calls.
LastReply(n) ==
  /\ Reply
  /\ LeaveOn(n)
  /\ Return
  /\ UNCHANGED <<left, spinning, spent>>

-----------------------------------------------------------------------------
(* dispatch() and callModelWithRetry()                                     *)

\* callModel() starts from nothing again; the events and the sandbox do not.
Restart ==
  /\ pc' = "reply" /\ round' = 1 /\ nudged' = {}
  /\ left' = 0 /\ spinning' = 0
  /\ gate' = NoVerdicts /\ asOf' = Unseen
  /\ code' = 1 /\ lag' = (lag \/ code # 1)
  /\ IF code # 1 THEN Unwritten("retry") ELSE UNCHANGED events
  /\ UNCHANGED <<made, spent>>

ReplyBreaksOff(n) ==
  /\ pc = "reply" /\ May("model")
  /\ LeaveOn(n)

\* NETWORK
RetryTier(n) ==
  /\ ReplyBreaksOff(n)
  /\ tries < Retries /\ tries' = tries + 1
  /\ Restart
  /\ UNCHANGED tier

\* RATE_LIMIT, MODEL_DOWN, UNKNOWN
NextTier(n) ==
  /\ ReplyBreaksOff(n)
  /\ tier < Tiers /\ tier' = tier + 1
  /\ tries' = 0
  /\ Restart

\* The last tier, the last retry, or any other error.
DispatchFails(n) ==
  /\ ReplyBreaksOff(n)
  /\ pc' = "failed"
  /\ UNCHANGED <<attempt, left, spinning, spent, verdicts, files, events>>

LoopNext ==
  \/ Tool \/ ToolsDone
  \/ \E n \in 0..MaxCalls :
       \/ CeilingReached(n) \/ RunCalls(n) \/ LastRound(n) \/ LastReply(n)
       \/ Nudge(n, "typed") \/ Nudge(n, "empty")
       \/ RetryTier(n) \/ NextTier(n) \/ DispatchFails(n)

-----------------------------------------------------------------------------
(* Properties of the loop *)

\* While the model works, a verdict with no write counted after it is about the
\* files as they are, or about a sandbox that was out of step with them: every
\* tool that changes them counts its write, and a check that only re-reports
\* does not start the count again (noteWrite(), gateResults).
VerdictsHonest ==
  pc \in {"reply", "tools"} => \A g \in Gate :
    gate[g].status = "verdict" /\ gate[g].writes = 0 => asOf[g] \in {0, code}

\* Every announced call is told its result before the loop is over, the last
\* reply's included.  Those of a reply that reaches the ceiling, breaks off or
\* stops for another reason are not: see AllCallsEnd (callModel()).
CallsEnd ==
  pc \notin {"reply", "tools"} => spinning = 0

\* What the loop leaves in the record is so: the last verdict of each check is
\* about the files it says, and no call is left open.
LoopTold == VerdictsHonest /\ CallsEnd

\* "these emits are the only thing that ends that spinner" (dispatcher.ts:838):
\* violated by a reply that announces calls and reaches the ceiling, breaks off
\* or stops for another reason than its calls.
AllCallsEnd == CallsEnd /\ ~leftOn
=============================================================================
