---------------------------- MODULE BillingProofs ----------------------------
(***************************************************************************)
(* Theorems about Billing, for any plans, transactions, events, requests   *)
(* under way at once and faults.                                           *)
(***************************************************************************)
EXTENDS Billing, TLAPS

-----------------------------------------------------------------------------
(* The inductive invariant.                                                *)

\* Call k is adding the items of transaction t.
Crediting(k, t) ==
  /\ at[k] \in {"period", "roll", "apply"}
  /\ job[k] = [kind |-> "topup", txn |-> t]

\* What a call is doing agrees with where it is.
CallsOK ==
  \A k \in Call :
    /\ at[k] = "claimEvent" => /\ event[k] \in Event
                               /\ job[k] \in TopUps \cup Subscriptions
    /\ at[k] = "claimTxn" => job[k] \in TopUps
    /\ at[k] \in {"readPlan", "activate", "downgrade"} => job[k] \in Subscriptions
    /\ at[k] \in {"period", "roll", "apply"} => job[k] \notin Subscriptions

\* A transaction not claimed is not credited; one call at most credits it, and
\* what it has left completes what is credited.
CreditsOK ==
  \A t \in Txn :
    /\ credited[t] <= Items[t]
    /\ t \notin claims.txn => credited[t] = 0 /\ \A k \in Call : ~Crediting(k, t)
    /\ \A k \in Call : Crediting(k, t) => left[k] > 0 /\ credited[t] + left[k] = Items[t]
    /\ \A k, l \in Call : Crediting(k, t) /\ Crediting(l, t) => k = l

\* A rollover computed from a read fits the plan it was computed for.
SeenOK == \A k \in Call : seen[k].rollover <= RolloverCap[seen[k].plan]

AccountOK == SeenOK /\ AllotmentOfOnePlan /\ OverrunOnlyAfterDowngrade

IInv == TypeOK /\ CallsOK /\ CreditsOK /\ AccountOK

-----------------------------------------------------------------------------
(* Facts about the helpers.                                                *)

\* A job of a kind has the fields of that kind.
LEMMA JobFields ==
  ASSUME NEW j \in Jobs
  PROVE  /\ j.kind = "topup" => j \in TopUps /\ j.txn \in Txn
         /\ j.kind = "charge" => j.cost \in Nat
         /\ j \in TopUps => j.kind = "topup" /\ j = [kind |-> "topup", txn |-> j.txn]
         /\ j \in Subscriptions => j.kind = "subscription" /\ j.plan \in Plan
         /\ j = Look => j \notin TopUps \cup Subscriptions
<1>1. CASE j \in TopUps
  <2>1. j.kind = "topup" /\ j.txn \in Txn /\ j = [kind |-> "topup", txn |-> j.txn]
    BY <1>1 DEF TopUps
  <2>2. j \notin Subscriptions /\ j # Look
    BY <2>1 DEF Subscriptions, Look
  <2> QED BY <1>1, <2>1, <2>2
<1>2. CASE j \in Subscriptions
  <2>1. j.kind = "subscription" /\ j.plan \in Plan
    BY <1>2 DEF Subscriptions
  <2>2. j \notin TopUps /\ j # Look
    BY <2>1 DEF TopUps, Look
  <2> QED BY <1>2, <2>1, <2>2
<1>3. CASE j = Look
  <2>1. j.kind = "look"
    BY <1>3 DEF Look
  <2> QED BY <2>1 DEF TopUps, Subscriptions
<1>4. CASE j \in [kind : {"charge"}, cost : Cost]
  <2>1. j.kind = "charge" /\ j.cost \in Nat
    BY <1>4, ConstantsAssumption
  <2> QED BY <2>1 DEF TopUps, Subscriptions, Look
<1> QED BY <1>1, <1>2, <1>3, <1>4 DEF Jobs

\* Least() and Over() stay in the natural numbers.
LEMMA Amounts ==
  ASSUME NEW a \in Nat, NEW b \in Nat
  PROVE  /\ Least(a, b) \in Nat /\ Least(a, b) <= a /\ Least(a, b) <= b
         /\ Over(a, b) \in Nat /\ Over(a, b) <= a
  BY DEF Least, Over

\* An event's content leads to a place that fits it.
LEMMA FirstPlaceFits ==
  ASSUME NEW j \in TopUps \cup Subscriptions
  PROVE  /\ FirstPlace(j) \in Places
         /\ FirstPlace(j) = "claimTxn" => j \in TopUps
         /\ FirstPlace(j) \in {"claimTxn", "readPlan", "downgrade"}
         /\ FirstPlace(j) # "claimTxn" => j \in Subscriptions
  BY DEF FirstPlace, TopUps, Subscriptions, Places

\* The shapes of a call's move: to a place, to an answer, to a new job.
LEMMA GotoTypes ==
  ASSUME TypeOK, NEW k \in Call, NEW place \in Places, Goto(k, place)
  PROVE  at' \in [Call -> Places]
  BY DEF TypeOK, Goto

LEMMA AnswerTypes ==
  ASSUME TypeOK, NEW k \in Call, Answer(k)
  PROVE  /\ at' \in [Call -> Places]
         /\ job' \in [Call -> Jobs]
         /\ event' \in [Call -> Event \cup {None}]
         /\ acked' \subseteq Event
<1>1. at' \in [Call -> Places]
  BY DEF TypeOK, Answer, Goto, Places
<1>2. job' \in [Call -> Jobs]
  BY DEF TypeOK, Answer, Jobs
<1>3. event' \in [Call -> Event \cup {None}] /\ acked' \subseteq Event
  BY DEF TypeOK, Answer
<1> QED BY <1>1, <1>2, <1>3

LEMMA StartTypes ==
  ASSUME TypeOK, NEW k \in Call, NEW place \in Places, NEW j \in Jobs,
         NEW e \in Event \cup {None}, Start(k, place, j, e)
  PROVE  TypeOK'
<1>1. at' \in [Call -> Places]
  BY GotoTypes DEF Start
<1>2. job' \in [Call -> Jobs] /\ event' \in [Call -> Event \cup {None}]
  BY DEF TypeOK, Start
<1> QED BY <1>1, <1>2 DEF TypeOK, Start, account, provider, observed

-----------------------------------------------------------------------------
(* Type correctness.                                                       *)

LEMMA RequestTypes ==
  ASSUME TypeOK, NEW k \in Call, Request(k)
  PROVE  TypeOK'
<1> USE DEF Places
<1>1. ASSUME NEW e \in Event, Deliver(k, e) PROVE TypeOK'
  <2>1. content[e] \in Jobs
    BY <1>1 DEF Deliver, TypeOK, Jobs
  <2> QED BY <1>1, <2>1, StartTypes DEF Deliver
<1>2. ASSUME NEW t \in Txn, SyncTransaction(k, t) PROVE TypeOK'
  <2>1. [kind |-> "topup", txn |-> t] \in Jobs
    BY DEF Jobs, TopUps
  <2> QED BY <1>2, <2>1, StartTypes DEF SyncTransaction
<1>3. CASE SyncSubscription(k)
  <2> DEFINE j == [kind |-> "subscription", plan |-> subscription]
  <2>1. j \in Subscriptions
    BY DEF TypeOK, Subscriptions
  <2>2. j \in Jobs /\ FirstPlace(j) \in Places
    BY <2>1, FirstPlaceFits DEF Jobs
  <2>3. Start(k, FirstPlace(j), j, None)
    BY <1>3 DEF SyncSubscription
  <2> HIDE DEF j
  <2> QED BY <2>2, <2>3, StartTypes
<1>4. CASE Read(k)
  <2>1. Look \in Jobs
    BY DEF Jobs
  <2> QED BY <1>4, <2>1, StartTypes DEF Read
<1>5. ASSUME NEW c \in Cost, Spend(k, c) PROVE TypeOK'
  <2>1. [kind |-> "charge", cost |-> c] \in Jobs
    BY DEF Jobs
  <2> QED BY <1>5, <2>1, StartTypes DEF Spend
<1> QED BY <1>1, <1>2, <1>3, <1>4, <1>5 DEF Request

LEMMA StepTypes ==
  ASSUME TypeOK, CallsOK, NEW k \in Call, Step(k)
  PROVE  TypeOK'
<1> USE DEF account, provider, observed
<1>1. CASE ClaimEvent(k)
  <2>1. FirstPlace(job[k]) \in Places
    BY <1>1, FirstPlaceFits DEF ClaimEvent, CallsOK
  <2>2. claims' \in [event : SUBSET Event, txn : SUBSET Txn]
    BY <1>1 DEF ClaimEvent, CallsOK, TypeOK
  <2> QED BY <1>1, <2>1, <2>2, GotoTypes DEF ClaimEvent, TypeOK
<1>2. CASE EventKnown(k)
  BY <1>2, AnswerTypes DEF EventKnown, TypeOK
<1>3. CASE ClaimTxn(k)
  <2>1. job[k].txn \in Txn
    BY <1>3, JobFields DEF ClaimTxn, CallsOK, TypeOK
  <2>2. claims' \in [event : SUBSET Event, txn : SUBSET Txn]
    BY <1>3, <2>1 DEF ClaimTxn, TypeOK
  <2>3. left' \in [Call -> Nat]
    BY <1>3, <2>1, ConstantsAssumption DEF ClaimTxn, TypeOK
  <2>4. at' \in [Call -> Places]
    BY <1>3, GotoTypes DEF ClaimTxn, Places
  <2> QED BY <1>3, <2>2, <2>3, <2>4 DEF ClaimTxn, TypeOK
<1>4. CASE TxnKnown(k)
  BY <1>4, AnswerTypes DEF TxnKnown, TypeOK
<1>5. CASE PeriodCurrent(k)
  <2>1. at' \in [Call -> Places]
    BY <1>5, GotoTypes DEF PeriodCurrent, Places
  <2> QED BY <1>5, <2>1 DEF PeriodCurrent, TypeOK
<1>6. CASE PeriodStale(k)
  <2>1. at' \in [Call -> Places]
    BY <1>6, GotoTypes DEF PeriodStale, Places
  <2>2. Over(Ceiling, usage) \in Nat /\ RolloverCap[plan] \in Nat
    <3>1. Ceiling \in Nat /\ usage \in Nat
      BY DEF TypeOK, Ceiling
    <3> QED BY <3>1, Amounts, ConstantsAssumption DEF TypeOK
  <2>3. Least(Over(Ceiling, usage), RolloverCap[plan]) \in Nat
    BY <2>2, Amounts
  <2>4. seen' \in [Call -> [plan : Plan, rollover : Nat]]
    BY <1>6, <2>3 DEF PeriodStale, TypeOK
  <2> QED BY <1>6, <2>1, <2>4 DEF PeriodStale, TypeOK
<1>7. CASE RollOver(k)
  <2>1. at' \in [Call -> Places]
    BY <1>7, GotoTypes DEF RollOver, Places
  <2>2. seen' \in [Call -> [plan : Plan, rollover : Nat]]
    BY <1>7, ConstantsAssumption DEF RollOver, TypeOK, NoRead
  <2>3. /\ seen[k].rollover \in Nat
        /\ PlanUsage[seen[k].plan] \in Nat
    BY ConstantsAssumption DEF TypeOK
  <2> QED BY <1>7, <2>1, <2>2, <2>3 DEF RollOver, TypeOK
<1>8. CASE LookUp(k)
  <2>1. at' \in [Call -> Places]
    BY <1>8, GotoTypes DEF LookUp, Places
  <2> QED BY <1>8, <2>1 DEF LookUp, TypeOK
<1>9. CASE DeductUsage(k)
  <2> DEFINE after == usage + job[k].cost
  <2>1. at' \in [Call -> Places]
    BY <1>9, GotoTypes DEF DeductUsage, Places
  <2>2. job' \in [Call -> Jobs]
    BY <1>9 DEF DeductUsage, TypeOK, Jobs
  <2>3. after \in Nat /\ Ceiling \in Nat
    BY <1>9, JobFields DEF DeductUsage, TypeOK, Ceiling
  <2>4. usage' = Least(Ceiling, after) /\ topUp' = Over(topUp, Over(after, Ceiling))
    BY <1>9 DEF DeductUsage
  <2>5. usage' \in Nat
    <3> HIDE DEF after
    <3> QED BY <2>3, <2>4, Amounts
  <2>6. Over(after, Ceiling) \in Nat
    <3> HIDE DEF after
    <3> QED BY <2>3, Amounts
  <2>7. topUp' \in Nat
    <3> HIDE DEF after
    <3> QED BY <2>4, <2>6, Amounts DEF TypeOK
  <2> QED BY <1>9, <2>1, <2>2, <2>5, <2>7 DEF DeductUsage, TypeOK
<1>10. CASE AddTopUp(k) \/ AddLastTopUp(k)
  <2>1. AddItem(k) /\ left[k] >= 1
    BY <1>10 DEF AddTopUp, AddLastTopUp, TypeOK
  <2>2. job[k].txn \in Txn
    BY <2>1, JobFields DEF AddItem, TypeOK
  <2>3. topUp' \in Nat /\ credited' \in [Txn -> Nat] /\ left' \in [Call -> Nat]
    <3>1. topUp' \in Nat /\ credited' \in [Txn -> Nat]
      <4> DEFINE t == job[k].txn
      <4>1. topUp' = topUp + Amount[t] /\ credited' = [credited EXCEPT ![t] = @ + 1]
        BY <2>1 DEF AddItem
      <4>2. t \in Txn
        BY <2>2
      <4> HIDE DEF t
      <4>3. Amount[t] \in Nat /\ credited[t] + 1 \in Nat
        BY <4>2, ConstantsAssumption DEF TypeOK
      <4> QED BY <4>1, <4>2, <4>3 DEF TypeOK
    <3>2. left[k] - 1 \in Nat /\ left' = [left EXCEPT ![k] = left[k] - 1]
      BY <2>1 DEF AddItem, TypeOK
    <3>3. left' \in [Call -> Nat]
      BY <3>2 DEF TypeOK
    <3> QED BY <3>1, <3>3
  <2>4. /\ at' \in [Call -> Places]
        /\ job' \in [Call -> Jobs]
        /\ event' \in [Call -> Event \cup {None}]
        /\ acked' \subseteq Event
    <3>1. CASE AddTopUp(k)
      BY <3>1, GotoTypes DEF AddTopUp, Places, TypeOK
    <3>2. CASE AddLastTopUp(k)
      BY <3>2, AnswerTypes DEF AddLastTopUp
    <3> QED BY <1>10, <3>1, <3>2
  <2> QED BY <2>1, <2>3, <2>4 DEF AddItem, TypeOK
<1>11. CASE SamePlan(k)
  BY <1>11, AnswerTypes DEF SamePlan, TypeOK
<1>12. CASE NewPlan(k)
  <2>1. at' \in [Call -> Places]
    BY <1>12, GotoTypes DEF NewPlan, Places
  <2> QED BY <1>12, <2>1 DEF NewPlan, TypeOK
<1>13. CASE Activate(k)
  <2>1. job[k].plan \in Plan
    BY <1>13, JobFields DEF Activate, CallsOK, TypeOK
  <2> QED BY <1>13, <2>1, AnswerTypes, ConstantsAssumption DEF Activate, Allot, TypeOK
<1>14. CASE DowngradeToFree(k)
  BY <1>14, AnswerTypes, ConstantsAssumption DEF DowngradeToFree, ToFree, TypeOK
<1>15. CASE DowngradeNobody(k)
  BY <1>15, AnswerTypes DEF DowngradeNobody, TypeOK
<1> QED BY <1>1, <1>2, <1>3, <1>4, <1>5, <1>6, <1>7, <1>8, <1>9, <1>10, <1>11,
           <1>12, <1>13, <1>14, <1>15, Step(k) DEF Step

LEMMA OutsideTypes ==
  ASSUME TypeOK, Outside
  PROVE  TypeOK'
<1> USE DEF call, observed
<1>1. CASE PeriodPasses
  BY <1>1 DEF PeriodPasses, TypeOK, provider
<1>2. ASSUME NEW e \in Event, NEW p \in Plan, Subscribe(e, p) PROVE TypeOK'
  BY <1>2 DEF Subscribe, TypeOK, account, Subscriptions
<1>3. ASSUME NEW e \in Event, Unsubscribe(e) PROVE TypeOK'
  BY <1>3, ConstantsAssumption DEF Unsubscribe, TypeOK, account, Subscriptions
<1>4. ASSUME NEW e \in Event, NEW t \in Txn, Purchase(e, t) PROVE TypeOK'
  BY <1>4 DEF Purchase, TypeOK, account, TopUps
<1>5. ASSUME NEW p \in Stripe, StripeCheckout(p) PROVE TypeOK'
  BY <1>5, ConstantsAssumption DEF StripeCheckout, Allot, TypeOK
<1>6. CASE StripeCanceled
  BY <1>6, ConstantsAssumption DEF StripeCanceled, ToFree, TypeOK, provider
<1>7. ASSUME NEW over \in BOOLEAN, StripeUpdated(over) PROVE TypeOK'
  BY <1>7 DEF StripeUpdated, TypeOK, provider
<1>8. ASSUME NEW g \in Grant, AdminGrant(g) PROVE TypeOK'
  BY <1>8, ConstantsAssumption DEF AdminGrant, Allot, TypeOK, provider
<1> QED BY <1>1, <1>2, <1>3, <1>4, <1>5, <1>6, <1>7, <1>8, Outside DEF Outside

LEMMA AbandonTypes ==
  ASSUME TypeOK, NEW K \in SUBSET Call, Abandon(K)
  PROVE  TypeOK'
<1>1. at' \in [Call -> Places] /\ job' \in [Call -> Jobs]
  BY DEF TypeOK, Abandon, Places, Jobs
<1>2. /\ event' \in [Call -> Event \cup {None}]
      /\ left' \in [Call -> Nat]
      /\ dropped' \subseteq Txn
  BY DEF TypeOK, Abandon
<1>3. seen' \in [Call -> [plan : Plan, rollover : Nat]]
  BY ConstantsAssumption DEF TypeOK, Abandon, NoRead
<1> QED BY <1>1, <1>2, <1>3 DEF TypeOK, Abandon, account, provider

\* Which step a step is.
LEMMA NextCases ==
  ASSUME Next
  PROVE  \/ \E k \in Call : Step(k) \/ Request(k)
         \/ Outside
         \/ \E K \in SUBSET Call : Abandon(K)
BY DEF Next, Reject, Crash

LEMMA TypeStep ==
  ASSUME TypeOK, CallsOK, [Next]_vars
  PROVE  TypeOK'
<1>1. CASE UNCHANGED vars
  BY <1>1 DEF TypeOK, vars, account, provider, call, observed
<1>2. CASE Next
  BY <1>2, NextCases, StepTypes, RequestTypes, OutsideTypes, AbandonTypes
<1> QED BY <1>1, <1>2

-----------------------------------------------------------------------------
(* What a call is doing agrees with where it is.                           *)

\* An answered call is at rest or goes on to look at the balance.
LEMMA AnswerCalls ==
  ASSUME TypeOK, CallsOK, NEW k \in Call, Answer(k)
  PROVE  CallsOK'
<1>1. Look \notin Subscriptions
  BY DEF Look, Subscriptions
<1>2. at'[k] \in {"period", "idle"} /\ job'[k] = Look
  BY DEF Answer, Goto, TypeOK
<1>3. \A l \in Call : l # k => at'[l] = at[l] /\ job'[l] = job[l] /\ event'[l] = event[l]
  BY DEF Answer, Goto, TypeOK
<1> QED BY <1>1, <1>2, <1>3 DEF CallsOK

\* A call that goes on with its job goes to a place that fits the job.
LEMMA GotoCalls ==
  ASSUME TypeOK, CallsOK, NEW k \in Call, NEW place \in Places, Goto(k, place),
         UNCHANGED <<job, event>>,
         place # "claimEvent",
         place = "claimTxn" => job[k] \in TopUps,
         place \in {"readPlan", "activate", "downgrade"} => job[k] \in Subscriptions,
         place \in {"period", "roll", "apply"} => job[k] \notin Subscriptions
  PROVE  CallsOK'
<1>1. at'[k] = place /\ \A l \in Call : l # k => at'[l] = at[l]
  BY DEF Goto, TypeOK
<1> QED BY <1>1 DEF CallsOK

\* A new call starts where its job begins.
LEMMA StartCalls ==
  ASSUME TypeOK, CallsOK, NEW k \in Call, NEW place \in Places, NEW j \in Jobs,
         NEW e \in Event \cup {None}, Start(k, place, j, e),
         place = "claimEvent" => e \in Event /\ j \in TopUps \cup Subscriptions,
         place = "claimTxn" => j \in TopUps,
         place \in {"readPlan", "activate", "downgrade"} => j \in Subscriptions,
         place \in {"period", "roll", "apply"} => j \notin Subscriptions
  PROVE  CallsOK'
<1>1. at'[k] = place /\ job'[k] = j /\ event'[k] = e
  BY DEF Start, Goto, TypeOK
<1>2. \A l \in Call : l # k => at'[l] = at[l] /\ job'[l] = job[l] /\ event'[l] = event[l]
  BY DEF Start, Goto, TypeOK
<1> QED BY <1>1, <1>2 DEF CallsOK

LEMMA RequestCalls ==
  ASSUME TypeOK, CallsOK, NEW k \in Call, Request(k)
  PROVE  CallsOK'
<1> USE DEF Places
<1>1. ASSUME NEW e \in Event, Deliver(k, e) PROVE CallsOK'
  <2>1. content[e] \in TopUps \cup Subscriptions
    BY <1>1 DEF Deliver, TypeOK
  <2>2. content[e] \in Jobs
    BY <2>1 DEF Jobs
  <2> QED BY <1>1, <2>1, <2>2, StartCalls DEF Deliver
<1>2. ASSUME NEW t \in Txn, SyncTransaction(k, t) PROVE CallsOK'
  <2>1. [kind |-> "topup", txn |-> t] \in TopUps
    BY DEF TopUps
  <2>2. [kind |-> "topup", txn |-> t] \in Jobs
    BY <2>1 DEF Jobs
  <2> QED BY <1>2, <2>1, <2>2, StartCalls DEF SyncTransaction
<1>3. CASE SyncSubscription(k)
  <2> DEFINE j == [kind |-> "subscription", plan |-> subscription]
  <2>1. j \in Subscriptions
    BY DEF TypeOK, Subscriptions
  <2>2. /\ j \in Jobs /\ FirstPlace(j) \in Places
        /\ FirstPlace(j) \in {"claimTxn", "readPlan", "downgrade"}
        /\ FirstPlace(j) = "claimTxn" => j \in TopUps
    BY <2>1, FirstPlaceFits DEF Jobs
  <2>3. Start(k, FirstPlace(j), j, None)
    BY <1>3 DEF SyncSubscription
  <2> HIDE DEF j
  <2> QED BY <2>1, <2>2, <2>3, StartCalls
<1>4. CASE Read(k)
  <2>1. Look \in Jobs /\ Look \notin Subscriptions
    BY DEF Jobs, Look, Subscriptions
  <2> QED BY <1>4, <2>1, StartCalls DEF Read
<1>5. ASSUME NEW c \in Cost, Spend(k, c) PROVE CallsOK'
  <2> DEFINE j == [kind |-> "charge", cost |-> c]
  <2>1. j \in Jobs /\ j \notin Subscriptions
    BY DEF Jobs, Subscriptions
  <2>2. Start(k, "period", j, None)
    BY <1>5 DEF Spend
  <2> HIDE DEF j
  <2> QED BY <2>1, <2>2, StartCalls
<1> QED BY <1>1, <1>2, <1>3, <1>4, <1>5 DEF Request

LEMMA StepCalls ==
  ASSUME TypeOK, CallsOK, NEW k \in Call, Step(k)
  PROVE  CallsOK'
<1> USE DEF Places
<1>1. CASE ClaimEvent(k)
  <2>1. job[k] \in TopUps \cup Subscriptions
    BY <1>1 DEF ClaimEvent, CallsOK
  <2> QED BY <1>1, <2>1, FirstPlaceFits, GotoCalls DEF ClaimEvent
<1>2. CASE ClaimTxn(k)
  <2>1. job[k] \in TopUps /\ job[k] \notin Subscriptions
    BY <1>2 DEF ClaimTxn, CallsOK, TopUps, Subscriptions
  <2> QED BY <1>2, <2>1, GotoCalls DEF ClaimTxn
<1>3. CASE PeriodCurrent(k) \/ PeriodStale(k) \/ RollOver(k)
  <2>1. job[k] \notin Subscriptions
    BY <1>3 DEF PeriodCurrent, PeriodStale, RollOver, CallsOK
  <2> QED BY <1>3, <2>1, GotoCalls DEF PeriodCurrent, PeriodStale, RollOver
<1>4. CASE LookUp(k)
  BY <1>4, GotoCalls DEF LookUp
<1>5. CASE DeductUsage(k)
  <2>1. at'[k] = "idle" /\ \A l \in Call : l # k => at'[l] = at[l] /\ job'[l] = job[l]
    BY <1>5 DEF DeductUsage, Goto, TypeOK
  <2>2. UNCHANGED event
    BY <1>5 DEF DeductUsage
  <2> QED BY <2>1, <2>2 DEF CallsOK
<1>6. CASE AddTopUp(k)
  <2>1. job[k] \notin Subscriptions
    BY <1>6 DEF AddTopUp, AddItem, CallsOK
  <2> QED BY <1>6, <2>1, GotoCalls DEF AddTopUp
<1>7. CASE NewPlan(k)
  <2>1. job[k] \in Subscriptions
    BY <1>7 DEF NewPlan, CallsOK
  <2> QED BY <1>7, <2>1, GotoCalls DEF NewPlan
<1>8. CASE Answer(k)
  BY <1>8, AnswerCalls
<1> QED BY <1>1, <1>2, <1>3, <1>4, <1>5, <1>6, <1>7, <1>8, Step(k)
    DEF Step, EventKnown, TxnKnown, AddLastTopUp, SamePlan, Activate,
        DowngradeToFree, DowngradeNobody

LEMMA CallsStep ==
  ASSUME TypeOK, CallsOK, [Next]_vars
  PROVE  CallsOK'
<1>1. CASE UNCHANGED call
  BY <1>1 DEF CallsOK, call
<1>2. CASE Outside
  <2>1. UNCHANGED call
    BY <1>2 DEF Outside, PeriodPasses, Subscribe, Unsubscribe, Purchase, StripeCheckout,
       StripeCanceled, StripeUpdated, AdminGrant
  <2> QED BY <1>1, <2>1
<1>3. ASSUME NEW K \in SUBSET Call, Abandon(K) PROVE CallsOK'
  <2>1. \A k \in Call : IF k \in K THEN at'[k] = "idle"
                        ELSE at'[k] = at[k] /\ job'[k] = job[k] /\ event'[k] = event[k]
    BY <1>3 DEF Abandon
  <2> QED BY <2>1 DEF CallsOK
<1>4. CASE Next
  BY <1>2, <1>3, <1>4, NextCases, StepCalls, RequestCalls
<1> QED BY <1>1, <1>4 DEF vars

-----------------------------------------------------------------------------
(* The row.                                                                *)

\* Nothing about the row changes when neither it nor a rollover read does.
LEMMA SameAccount ==
  ASSUME AccountOK, UNCHANGED <<plan, monthlyLimit, usage, rollover, seen>>
  PROVE  AccountOK'
BY DEF AccountOK, SeenOK, AllotmentOfOnePlan, OverrunOnlyAfterDowngrade, Ceiling

\* Setting a plan's or a grant's limit and nothing else available.
LEMMA AllotAccount ==
  ASSUME TypeOK, AccountOK, NEW p \in Plan, NEW limit \in Nat, Allot(p, limit),
         limit \in Grant \/ \E q \in Plan : limit = PlanUsage[q],
         UNCHANGED seen
  PROVE  AccountOK'
<1>1. SeenOK'
  BY DEF AccountOK, SeenOK
<1>2. AllotmentOfOnePlan'
  <2>1. monthlyLimit' = limit /\ rollover' = 0
    BY DEF Allot
  <2>2. \A q \in Plan : 0 <= RolloverCap[q]
    BY ConstantsAssumption
  <2> QED BY <2>1, <2>2 DEF AllotmentOfOnePlan
<1>3. OverrunOnlyAfterDowngrade'
  BY DEF Allot, OverrunOnlyAfterDowngrade, Ceiling
<1> QED BY <1>1, <1>2, <1>3 DEF AccountOK

LEMMA FreeAccount ==
  ASSUME TypeOK, AccountOK, ToFree, UNCHANGED seen
  PROVE  AccountOK'
<1>1. AllotmentOfOnePlan'
  BY ConstantsAssumption DEF ToFree, AllotmentOfOnePlan
<1> QED BY <1>1 DEF ToFree, AccountOK, SeenOK, OverrunOnlyAfterDowngrade

LEMMA StepAccount ==
  ASSUME TypeOK, CallsOK, AccountOK, NEW k \in Call, Step(k)
  PROVE  AccountOK'
<1>1. CASE UNCHANGED <<plan, monthlyLimit, usage, rollover, seen>>
  BY <1>1, SameAccount
<1>2. CASE PeriodStale(k)
  <2> DEFINE carried == Least(Over(Ceiling, usage), RolloverCap[plan])
  <2>1. Over(Ceiling, usage) \in Nat /\ RolloverCap[plan] \in Nat
    <3>1. Ceiling \in Nat /\ usage \in Nat
      BY DEF TypeOK, Ceiling
    <3> QED BY <3>1, Amounts, ConstantsAssumption DEF TypeOK
  <2>2. carried <= RolloverCap[plan]
    BY <2>1, Amounts
  <2>3. seen' = [seen EXCEPT ![k] = [plan |-> plan, rollover |-> carried]]
    BY <1>2 DEF PeriodStale
  <2> HIDE DEF carried
  <2>4. SeenOK'
    BY <2>2, <2>3 DEF AccountOK, SeenOK, TypeOK
  <2> QED BY <1>2, <2>4
      DEF PeriodStale, account, AccountOK, AllotmentOfOnePlan, OverrunOnlyAfterDowngrade,
          Ceiling
<1>3. CASE RollOver(k)
  <2> DEFINE r == seen[k]
  <2>1. r.plan \in Plan /\ r.rollover \in Nat /\ r.rollover <= RolloverCap[r.plan]
    BY DEF AccountOK, SeenOK, TypeOK
  <2>2. usage' = 0 /\ rollover' = r.rollover /\ monthlyLimit' = PlanUsage[r.plan]
    BY <1>3 DEF RollOver
  <2> HIDE DEF r
  <2>3. AllotmentOfOnePlan' /\ OverrunOnlyAfterDowngrade'
    BY <2>1, <2>2, ConstantsAssumption DEF AllotmentOfOnePlan, OverrunOnlyAfterDowngrade,
       Ceiling
  <2>4. SeenOK'
    BY <1>3, ConstantsAssumption DEF RollOver, AccountOK, SeenOK, TypeOK, NoRead
  <2> QED BY <2>3, <2>4 DEF AccountOK
<1>4. CASE DeductUsage(k)
  <2> DEFINE after == usage + job[k].cost
  <2>1. after \in Nat /\ Ceiling \in Nat
    BY <1>4, JobFields DEF DeductUsage, TypeOK, Ceiling
  <2>2. usage' = Least(Ceiling, after) /\ UNCHANGED <<plan, monthlyLimit, rollover, seen>>
    BY <1>4 DEF DeductUsage
  <2> HIDE DEF after
  <2>3. usage' <= Ceiling
    BY <2>1, <2>2, Amounts
  <2>4. OverrunOnlyAfterDowngrade'
    <3>1. usage' \in Nat /\ Ceiling' = Ceiling
      BY <2>1, <2>2, Amounts DEF Ceiling
    <3> QED BY <2>1, <2>3, <3>1 DEF OverrunOnlyAfterDowngrade
  <2> QED BY <2>2, <2>4 DEF AccountOK, SeenOK, AllotmentOfOnePlan
<1>5. CASE Activate(k)
  <2>1. job[k].plan \in Plan
    BY <1>5, JobFields DEF Activate, CallsOK, TypeOK
  <2> QED BY <1>5, <2>1, AllotAccount, ConstantsAssumption DEF Activate
<1>6. CASE DowngradeToFree(k)
  BY <1>6, FreeAccount DEF DowngradeToFree
<1> QED BY <1>1, <1>2, <1>3, <1>4, <1>5, <1>6, Step(k)
    DEF Step, ClaimEvent, EventKnown, ClaimTxn, TxnKnown, PeriodCurrent, LookUp,
        AddTopUp, AddLastTopUp, AddItem, SamePlan, NewPlan, DowngradeNobody, account

LEMMA OutsideAccount ==
  ASSUME TypeOK, AccountOK, Outside
  PROVE  AccountOK'
<1> USE DEF call
<1>1. CASE UNCHANGED <<plan, monthlyLimit, usage, rollover, seen>>
  BY <1>1, SameAccount
<1>2. ASSUME NEW p \in Stripe, StripeCheckout(p) PROVE AccountOK'
  BY <1>2, AllotAccount, ConstantsAssumption DEF StripeCheckout
<1>3. CASE StripeCanceled
  BY <1>3, FreeAccount DEF StripeCanceled
<1>4. ASSUME NEW g \in Grant, AdminGrant(g) PROVE AccountOK'
  BY <1>4, AllotAccount, ConstantsAssumption DEF AdminGrant, TypeOK
<1> QED BY <1>1, <1>2, <1>3, <1>4, Outside
    DEF Outside, PeriodPasses, Subscribe, Unsubscribe, Purchase, StripeUpdated, account

LEMMA AccountStep ==
  ASSUME TypeOK, CallsOK, AccountOK, [Next]_vars
  PROVE  AccountOK'
<1>1. CASE UNCHANGED vars
  BY <1>1, SameAccount DEF vars, account, call
<1>2. ASSUME NEW k \in Call, Request(k) PROVE AccountOK'
  BY <1>2, SameAccount DEF Request, Deliver, SyncTransaction, SyncSubscription, Read,
     Spend, Start, account
<1>3. ASSUME NEW K \in SUBSET Call, Abandon(K) PROVE AccountOK'
  <2>1. \A k \in Call : seen'[k] = seen[k] \/ seen'[k] = NoRead
    BY <1>3 DEF Abandon
  <2>2. SeenOK'
    BY <2>1, ConstantsAssumption DEF AccountOK, SeenOK, NoRead
  <2> QED BY <1>3, <2>2 DEF Abandon, account, AccountOK, AllotmentOfOnePlan,
             OverrunOnlyAfterDowngrade, Ceiling
<1>4. CASE Next
  BY <1>2, <1>3, <1>4, NextCases, StepAccount, OutsideAccount
<1> QED BY <1>1, <1>4

-----------------------------------------------------------------------------
(* Claims and credits.                                                     *)

\* Nothing about the credits changes when no call begins or advances one.
LEMMA SameCredits ==
  ASSUME CreditsOK, credited' = credited, claims'.txn = claims.txn,
         \A k \in Call, t \in Txn :
           Crediting(k, t)' => Crediting(k, t) /\ left'[k] = left[k]
  PROVE  CreditsOK'
BY DEF CreditsOK

\* A call that answers credits nothing any more; the others do what they did.
LEMMA AnswerCredits ==
  ASSUME TypeOK, NEW k \in Call, Answer(k), NEW l \in Call, NEW t \in Txn
  PROVE  Crediting(l, t)' <=> l # k /\ Crediting(l, t)
<1>1. job'[k] = Look /\ Look # [kind |-> "topup", txn |-> t]
  BY DEF Answer, TypeOK, Look
<1>2. l # k => at'[l] = at[l] /\ job'[l] = job[l]
  BY DEF Answer, Goto, TypeOK
<1> QED BY <1>1, <1>2 DEF Crediting

\* A call that moves with its job credits what it did, if it was crediting.
LEMMA GotoCredits ==
  ASSUME TypeOK, NEW k \in Call, NEW place \in Places, Goto(k, place), job' = job,
         place \in {"period", "roll", "apply"} => at[k] \in {"period", "roll", "apply"},
         NEW l \in Call, NEW t \in Txn, Crediting(l, t)'
  PROVE  Crediting(l, t)
<1>1. at'[k] = place /\ (l # k => at'[l] = at[l])
  BY DEF Goto, TypeOK
<1> QED BY <1>1 DEF Crediting

LEMMA RequestCredits ==
  ASSUME TypeOK, CreditsOK, NEW k \in Call, Request(k)
  PROVE  CreditsOK'
<1>1. ASSUME NEW place \in Places, NEW j, NEW e, Start(k, place, j, e),
             place \in {"period", "roll", "apply"} => \A t \in Txn : j # [kind |-> "topup", txn |-> t]
      PROVE  CreditsOK'
  <2>1. at'[k] = place /\ job'[k] = j
    BY <1>1 DEF Start, Goto, TypeOK
  <2>2. \A l \in Call : l # k => at'[l] = at[l] /\ job'[l] = job[l]
    BY <1>1 DEF Start, Goto, TypeOK
  <2>3. \A l \in Call, t \in Txn : Crediting(l, t)' => Crediting(l, t)
    BY <1>1, <2>1, <2>2 DEF Crediting
  <2> QED BY <1>1, <2>3, SameCredits DEF Start, observed
<1> USE DEF Places
<1>2. CASE \E e \in Event : Deliver(k, e)
  BY <1>1, <1>2 DEF Deliver
<1>3. CASE \E t \in Txn : SyncTransaction(k, t)
  BY <1>1, <1>3 DEF SyncTransaction
<1>4. CASE SyncSubscription(k)
  <2> DEFINE j == [kind |-> "subscription", plan |-> subscription]
  <2>1. j \in Subscriptions
    BY DEF TypeOK, Subscriptions
  <2>2. FirstPlace(j) \in {"claimTxn", "readPlan", "downgrade"}
    BY <2>1, FirstPlaceFits
  <2>3. Start(k, FirstPlace(j), j, None)
    BY <1>4 DEF SyncSubscription
  <2> HIDE DEF j
  <2> QED BY <1>1, <2>2, <2>3
<1>5. CASE Read(k)
  <2>1. \A t \in Txn : Look # [kind |-> "topup", txn |-> t]
    BY DEF Look
  <2> QED BY <1>1, <1>5, <2>1 DEF Read
<1>6. ASSUME NEW c \in Cost, Spend(k, c) PROVE CreditsOK'
  <2>1. \A t \in Txn : [kind |-> "charge", cost |-> c] # [kind |-> "topup", txn |-> t]
    OBVIOUS
  <2>2. Start(k, "period", [kind |-> "charge", cost |-> c], None)
    BY <1>6 DEF Spend
  <2> QED BY <1>1, <2>1, <2>2
<1> QED BY <1>2, <1>3, <1>4, <1>5, <1>6 DEF Request

\* The call that inserts the claim is the only one to credit the transaction.
LEMMA ClaimCredits ==
  ASSUME TypeOK, CallsOK, CreditsOK, NEW k \in Call, ClaimTxn(k)
  PROVE  CreditsOK'
<1> DEFINE u == job[k].txn
<1>1. u \in Txn /\ job[k] = [kind |-> "topup", txn |-> u]
  BY JobFields DEF ClaimTxn, CallsOK, TypeOK
<1>2. /\ u \notin claims.txn /\ claims'.txn = claims.txn \cup {u}
      /\ credited' = credited
      /\ left'[k] = Items[u] /\ \A l \in Call : l # k => left'[l] = left[l]
  BY DEF ClaimTxn, TypeOK, observed
<1>3. \A l \in Call, t \in Txn :
        Crediting(l, t)' <=> (l = k /\ t = u) \/ (l # k /\ Crediting(l, t))
  <2>1. /\ at[k] = "claimTxn" /\ at'[k] = "period" /\ job' = job
        /\ \A l \in Call : l # k => at'[l] = at[l]
    BY DEF ClaimTxn, Goto, TypeOK
  <2> HIDE DEF u
  <2>2. \A t \in Txn : [kind |-> "topup", txn |-> u] = [kind |-> "topup", txn |-> t] <=> t = u
    BY <1>1
  <2> QED BY <1>1, <2>1, <2>2 DEF Crediting
<1>4. Items[u] > 0 /\ credited[u] = 0 /\ \A l \in Call : ~Crediting(l, u)
  BY <1>1, <1>2, ConstantsAssumption DEF CreditsOK
<1> HIDE DEF u
<1>5. ASSUME NEW t \in Txn
      PROVE  /\ credited'[t] <= Items[t]
             /\ t \notin claims'.txn =>
                  credited'[t] = 0 /\ \A l \in Call : ~(Crediting(l, t)')
             /\ \A l \in Call : Crediting(l, t)' =>
                  left'[l] > 0 /\ credited'[t] + left'[l] = Items[t]
             /\ \A l, m \in Call : Crediting(l, t)' /\ Crediting(m, t)' => l = m
  <2>1. CASE t = u
    BY <1>1, <1>2, <1>3, <1>4, <2>1, ConstantsAssumption DEF CreditsOK
  <2>2. CASE t # u
    BY <1>1, <1>2, <1>3, <2>2 DEF CreditsOK
  <2> QED BY <2>1, <2>2
<1> QED BY <1>5 DEF CreditsOK

\* An item moves from what is left to what is credited.
LEMMA AddCredits ==
  ASSUME TypeOK, CreditsOK, NEW k \in Call, AddTopUp(k) \/ AddLastTopUp(k)
  PROVE  /\ CreditsOK'
         /\ job[k].txn \in Txn
         /\ credited[job[k].txn] < Items[job[k].txn]
<1> DEFINE u == job[k].txn
<1>1. u \in Txn /\ job[k] = [kind |-> "topup", txn |-> u]
  BY JobFields DEF AddTopUp, AddLastTopUp, AddItem, TypeOK
<1>2. /\ credited' = [credited EXCEPT ![u] = credited[u] + 1]
      /\ left' = [left EXCEPT ![k] = left[k] - 1]
      /\ UNCHANGED claims
  BY DEF AddTopUp, AddLastTopUp, AddItem
<1>3. Crediting(k, u)
  BY <1>1 DEF AddTopUp, AddLastTopUp, AddItem, Crediting
<1>4. \A l \in Call, t \in Txn : Crediting(l, t)' => Crediting(l, t) /\ (l = k => left[k] > 1)
  <2>1. CASE AddTopUp(k)
    BY <2>1, GotoCredits DEF AddTopUp, AddItem, Places
  <2>2. CASE AddLastTopUp(k)
    BY <2>2, AnswerCredits DEF AddLastTopUp
  <2> QED BY <2>1, <2>2
<1> HIDE DEF u
<1>5. credited[u] \in Nat /\ left[k] \in Nat /\ Items[u] \in Nat
  BY <1>1, ConstantsAssumption DEF TypeOK
<1>6. left[k] > 0 /\ credited[u] + left[k] = Items[u] /\ u \in claims.txn
  BY <1>1, <1>3 DEF CreditsOK
<1>7. credited'[u] = credited[u] + 1 /\ \A t \in Txn : t # u => credited'[t] = credited[t]
  BY <1>1, <1>2 DEF TypeOK
<1>8. left'[k] = left[k] - 1 /\ \A l \in Call : l # k => left'[l] = left[l]
  BY <1>2 DEF TypeOK
<1>9. ASSUME NEW t \in Txn
      PROVE  /\ credited'[t] <= Items[t]
             /\ t \notin claims'.txn =>
                  credited'[t] = 0 /\ \A l \in Call : ~(Crediting(l, t)')
             /\ \A l \in Call : Crediting(l, t)' =>
                  left'[l] > 0 /\ credited'[t] + left'[l] = Items[t]
             /\ \A l, m \in Call : Crediting(l, t)' /\ Crediting(m, t)' => l = m
  <2>1. CASE t = u
    <3>1. \A l \in Call : Crediting(l, t)' => l = k /\ left[k] > 1
      BY <1>1, <1>3, <1>4, <2>1 DEF CreditsOK
    <3> QED BY <1>2, <1>5, <1>6, <1>7, <1>8, <2>1, <3>1
  <2>2. CASE t # u
    <3>1. \A l \in Call : Crediting(l, t)' => l # k /\ Crediting(l, t)
      <4>1. ~Crediting(k, t)
        BY <1>1, <2>2 DEF Crediting
      <4> QED BY <1>4, <4>1
    <3> QED BY <1>2, <1>7, <1>8, <2>2, <3>1 DEF CreditsOK
  <2> QED BY <2>1, <2>2
<1>10. CreditsOK'
  BY <1>9 DEF CreditsOK
<1>11. credited[u] < Items[u]
  BY <1>5, <1>6
<1> QED BY <1>1, <1>10, <1>11 DEF u

LEMMA StepCredits ==
  ASSUME TypeOK, CallsOK, CreditsOK, NEW k \in Call, Step(k)
  PROVE  CreditsOK'
<1> USE DEF Places, observed
<1>1. CASE ClaimEvent(k)
  <2>1. FirstPlace(job[k]) \in {"claimTxn", "readPlan", "downgrade"}
    BY <1>1, FirstPlaceFits DEF ClaimEvent, CallsOK
  <2>2. \A l \in Call, t \in Txn : Crediting(l, t)' => Crediting(l, t)
    BY <1>1, <2>1, GotoCredits DEF ClaimEvent
  <2>3. claims'.txn = claims.txn
    BY <1>1 DEF ClaimEvent, TypeOK
  <2> QED BY <1>1, <2>2, <2>3, SameCredits DEF ClaimEvent
<1>2. CASE ClaimTxn(k)
  BY <1>2, ClaimCredits
<1>3. CASE AddTopUp(k) \/ AddLastTopUp(k)
  BY <1>3, AddCredits
<1>4. CASE PeriodCurrent(k) \/ PeriodStale(k) \/ RollOver(k) \/ LookUp(k) \/ NewPlan(k)
  <2>1. \A l \in Call, t \in Txn : Crediting(l, t)' => Crediting(l, t)
    BY <1>4, GotoCredits DEF PeriodCurrent, PeriodStale, RollOver, LookUp, NewPlan
  <2> QED BY <1>4, <2>1, SameCredits
      DEF PeriodCurrent, PeriodStale, RollOver, LookUp, NewPlan
<1>5. CASE DeductUsage(k)
  <2>1. at'[k] = "idle" /\ \A l \in Call : l # k => at'[l] = at[l] /\ job'[l] = job[l]
    BY <1>5 DEF DeductUsage, Goto, TypeOK
  <2>2. \A l \in Call, t \in Txn : Crediting(l, t)' => Crediting(l, t)
    BY <2>1 DEF Crediting
  <2> QED BY <1>5, <2>2, SameCredits DEF DeductUsage
<1>6. CASE Answer(k) /\ UNCHANGED <<claims, left, credited>>
  <2>1. \A l \in Call, t \in Txn : Crediting(l, t)' => Crediting(l, t)
    BY <1>6, AnswerCredits
  <2> QED BY <1>6, <2>1, SameCredits
<1> QED BY <1>1, <1>2, <1>3, <1>4, <1>5, <1>6, Step(k)
    DEF Step, EventKnown, TxnKnown, SamePlan, Activate, DowngradeToFree, DowngradeNobody

LEMMA CreditsStep ==
  ASSUME TypeOK, CallsOK, CreditsOK, [Next]_vars
  PROVE  CreditsOK'
<1>1. CASE UNCHANGED <<claims, call, credited>>
  <2>1. \A k \in Call, t \in Txn : Crediting(k, t)' => Crediting(k, t)
    BY <1>1 DEF Crediting, call
  <2> QED BY <1>1, <2>1, SameCredits DEF call
<1>2. CASE Outside
  BY <1>1, <1>2 DEF Outside, PeriodPasses, Subscribe, Unsubscribe, Purchase, StripeCheckout,
     StripeCanceled, StripeUpdated, AdminGrant, observed
<1>3. ASSUME NEW K \in SUBSET Call, Abandon(K) PROVE CreditsOK'
  <2>1. \A k \in Call : IF k \in K THEN at'[k] = "idle"
                        ELSE at'[k] = at[k] /\ job'[k] = job[k] /\ left'[k] = left[k]
    BY <1>3 DEF Abandon
  <2>2. \A k \in Call, t \in Txn :
          Crediting(k, t)' => Crediting(k, t) /\ left'[k] = left[k]
    BY <2>1 DEF Crediting
  <2> QED BY <1>3, <2>2, SameCredits DEF Abandon
<1>4. CASE Next
  BY <1>2, <1>3, <1>4, NextCases, StepCredits, RequestCredits
<1> QED BY <1>1, <1>4 DEF vars, observed

-----------------------------------------------------------------------------
(* The theorems.                                                           *)

LEMMA InitIInv == Init => IInv
<1> SUFFICES ASSUME Init PROVE IInv
  OBVIOUS
<1>1. TypeOK
  BY ConstantsAssumption
  DEF Init, TypeOK, Places, Jobs, NoRead
<1>2. CallsOK /\ SeenOK
  BY ConstantsAssumption DEF Init, CallsOK, SeenOK, NoRead
<1>3. CreditsOK
  <2>1. \A k \in Call, t \in Txn : ~Crediting(k, t)
    BY DEF Init, Crediting
  <2> QED BY <2>1, ConstantsAssumption DEF Init, CreditsOK
<1>4. AllotmentOfOnePlan /\ OverrunOnlyAfterDowngrade
  BY ConstantsAssumption DEF Init, AllotmentOfOnePlan, OverrunOnlyAfterDowngrade, Ceiling
<1> QED BY <1>1, <1>2, <1>3, <1>4 DEF IInv, AccountOK

LEMMA NextIInv == IInv /\ [Next]_vars => IInv'
BY TypeStep, CallsStep, CreditsStep, AccountStep DEF IInv

THEOREM InductiveInvariant == Spec => []IInv
BY InitIInv, NextIInv, PTL DEF Spec

\* Every variable keeps its type; in particular no amount of the row is ever
\* negative.
THEOREM TypeCorrect == Spec => []TypeOK
BY InductiveInvariant, PTL DEF IInv

\* claim() credits every item of a transaction once, however the deliveries of
\* its event, the sync requests and their failures interleave.
THEOREM TopUpsCreditedOnce == Spec => []CreditedOnce
<1>1. IInv => CreditedOnce
  BY DEF IInv, CreditsOK, CreditedOnce
<1> QED BY <1>1, InductiveInvariant, PTL

\* The limit and the rollover of the row always belong to one plan, or to a
\* grant, even when ensureCurrentPeriod() writes what it computed from an old
\* read of the row.
THEOREM LimitAndRolloverOfOnePlan == Spec => []AllotmentOfOnePlan
<1>1. IInv => AllotmentOfOnePlan
  BY DEF IInv, AccountOK
<1> QED BY <1>1, InductiveInvariant, PTL

\* Off the free plan the usage never exceeds the plan's ceiling.
THEOREM UsageWithinPaidPlan == Spec => []OverrunOnlyAfterDowngrade
<1>1. IInv => OverrunOnlyAfterDowngrade
  BY DEF IInv, AccountOK
<1> QED BY <1>1, InductiveInvariant, PTL

\* What an account may spend and has spent is one plan's.
THEOREM AllotmentIsKept == Spec => []AllotmentKept
<1>1. IInv => AllotmentKept
  BY DEF IInv, AccountOK, AllotmentKept
<1> QED BY <1>1, InductiveInvariant, PTL

\* Only deductUsage() lowers the top-up balance.
LEMMA WhoLowersTopUp ==
  ASSUME TypeOK, [Next]_vars, topUp' # topUp
  PROVE  \E k \in Call : DeductUsage(k) \/ AddTopUp(k) \/ AddLastTopUp(k)
<1> USE DEF account, call, observed
<1>1. Next
  BY DEF vars
<1>2. ASSUME Outside PROVE FALSE
  BY <1>2 DEF Outside, PeriodPasses, Subscribe, Unsubscribe, Purchase, StripeCheckout,
     StripeCanceled, StripeUpdated, AdminGrant, Allot, ToFree
<1>3. ASSUME NEW K \in SUBSET Call, Abandon(K) PROVE FALSE
  BY <1>3 DEF Abandon
<1>4. ASSUME NEW k \in Call, Request(k) PROVE FALSE
  BY <1>4 DEF Request, Deliver, SyncTransaction, SyncSubscription, Read, Spend, Start
<1>5. ASSUME NEW k \in Call, Step(k)
      PROVE  DeductUsage(k) \/ AddTopUp(k) \/ AddLastTopUp(k)
  BY <1>5 DEF Step, ClaimEvent, EventKnown, ClaimTxn, TxnKnown, PeriodCurrent, PeriodStale,
     RollOver, LookUp, SamePlan, NewPlan, Activate, Allot, DowngradeToFree, ToFree,
     DowngradeNobody
<1> QED BY <1>1, <1>2, <1>3, <1>4, <1>5, NextCases

\* What a deduction does to the two balances.
LEMMA Deduction ==
  ASSUME TypeOK, NEW k \in Call, DeductUsage(k)
  PROVE  /\ topUp' # topUp => \E n \in 1..topUp : topUp' = topUp - n
         /\ topUp' < topUp => /\ usage' = Ceiling'
                              /\ usage <= Ceiling => topUp' >= topUp - job[k].cost
<1> DEFINE rest == topUp'
           c == job[k].cost
           m == Ceiling
<1>1. c \in Nat /\ usage \in Nat /\ m \in Nat /\ topUp \in Nat
  BY JobFields DEF DeductUsage, TypeOK, Ceiling
<1>2. usage' = Least(m, usage + c) /\ rest = Over(topUp, Over(usage + c, m)) /\ Ceiling' = m
  BY DEF DeductUsage, Ceiling
<1> HIDE DEF rest, c, m
<1>3. /\ rest # topUp => \E n \in 1..topUp : rest = topUp - n
      /\ rest < topUp => Least(m, usage + c) = m
      /\ rest < topUp => (usage <= m => rest >= topUp - c)
  <2>1. CASE usage + c <= m
    <3>1. Over(usage + c, m) = 0
      BY <1>1, <2>1 DEF Over
    <3>2. rest = topUp
      BY <1>1, <1>2, <3>1 DEF Over
    <3> QED BY <1>1, <3>2
  <2>2. CASE usage + c > m
    <3> DEFINE n == IF topUp > usage + c - m THEN usage + c - m ELSE topUp
    <3>1. Over(usage + c, m) = usage + c - m /\ Least(m, usage + c) = m
      BY <1>1, <2>2 DEF Over, Least
    <3>2. rest = topUp - n /\ n \in 0..topUp /\ n <= usage + c - m
      BY <1>1, <1>2, <2>2, <3>1 DEF Over
    <3> HIDE DEF n
    <3>3. usage <= m => n <= c
      BY <1>1, <3>2
    <3>4. rest # topUp => n \in 1..topUp
      BY <1>1, <3>2
    <3>5. usage <= m => rest >= topUp - c
      BY <1>1, <3>2, <3>3
    <3> QED BY <3>1, <3>2, <3>4, <3>5
  <2> QED BY <1>1, <2>1, <2>2
<1>5. topUp' # topUp => \E n \in 1..topUp : topUp' = topUp - n
  BY <1>3 DEF rest
<1>6. topUp' < topUp => usage' = Ceiling'
  BY <1>2, <1>3 DEF rest, m
<1>7. topUp' < topUp => (usage <= Ceiling => topUp' >= topUp - job[k].cost)
  BY <1>3 DEF rest, c, m
<1> QED BY <1>5, <1>6, <1>7

\* A top-up does not lower the balance.
LEMMA TopUpAdds ==
  ASSUME TypeOK, NEW k \in Call, AddItem(k)
  PROVE  ~(topUp' < topUp)
<1>1. \A a, b \in Nat : ~(a + b < a)
  OBVIOUS
<1>2. job[k].txn \in Txn
  BY JobFields DEF AddItem, TypeOK
<1>3. topUp' = topUp + Amount[job[k].txn] /\ Amount[job[k].txn] \in Nat /\ topUp \in Nat
  BY <1>2, ConstantsAssumption DEF AddItem, TypeOK
<1> QED BY <1>1, <1>3

\* Paid money goes down only by a charge that has used up the allotment, and
\* by no more than the charge unless the account was downgraded.
THEOREM PaidMoneyIsSpentLast == Spec => TopUpIsSpentLast
<1>1. IInv /\ [Next]_vars =>
        [topUp' < topUp =>
           /\ usage' = Ceiling'
           /\ \E k \in Call :
                /\ at[k] = "apply" /\ job[k].kind = "charge"
                /\ usage <= Ceiling => topUp' >= topUp - job[k].cost]_vars
  <2> SUFFICES ASSUME IInv, [Next]_vars, topUp' < topUp
               PROVE  /\ usage' = Ceiling'
                      /\ \E k \in Call :
                           /\ at[k] = "apply" /\ job[k].kind = "charge"
                           /\ usage <= Ceiling => topUp' >= topUp - job[k].cost
    OBVIOUS
  <2>1. TypeOK
    BY DEF IInv
  <2>2. PICK k \in Call : DeductUsage(k) \/ AddTopUp(k) \/ AddLastTopUp(k)
    <3>1. \A a \in Nat : ~(a < a)
      OBVIOUS
    <3>2. topUp' # topUp
      BY <2>1, <3>1 DEF TypeOK
    <3> QED BY <2>1, <3>2, WhoLowersTopUp
  <2>3. ~AddTopUp(k) /\ ~AddLastTopUp(k)
    BY <2>1, TopUpAdds DEF AddTopUp, AddLastTopUp
  <2>4. DeductUsage(k)
    BY <2>2, <2>3
  <2>5. at[k] = "apply" /\ job[k].kind = "charge"
    BY <2>4 DEF DeductUsage
  <2>6. usage' = Ceiling' /\ (usage <= Ceiling => topUp' >= topUp - job[k].cost)
    BY <2>1, <2>4, Deduction
  <2> QED BY <2>5, <2>6
<1> QED BY <1>1, InductiveInvariant, PTL DEF Spec, TopUpIsSpentLast

\* The billing code implements the top-up ledger.
THEOREM ImplementsLedger == Spec => KeepsLedger
<1>1. Init => Ledger!Init
  BY DEF Init, Ledger!Init
<1>2. IInv /\ [Next]_vars => [Ledger!Next]_<<topUp, credited>>
  <2> SUFFICES ASSUME IInv, [Next]_vars, UNCHANGED <<topUp, credited>> => FALSE
               PROVE  Ledger!Next
    OBVIOUS
  <2>1. TypeOK /\ CreditsOK /\ topUp \in Nat
    BY DEF IInv, TypeOK
  <2>2. PICK k \in Call : DeductUsage(k) \/ AddTopUp(k) \/ AddLastTopUp(k)
    <3>1. CASE topUp' # topUp
      BY <2>1, <3>1, WhoLowersTopUp
    <3>2. CASE credited' # credited
      BY <3>2 DEF Next, Step, Request, Outside, Reject, Crash, Abandon, vars, call, observed,
         Deliver, SyncTransaction, SyncSubscription, Read, Spend, Start,
         PeriodPasses, Subscribe, Unsubscribe, Purchase, StripeCheckout, StripeCanceled,
         StripeUpdated, AdminGrant, ClaimEvent, EventKnown, ClaimTxn, TxnKnown,
         PeriodCurrent, PeriodStale, RollOver, LookUp, SamePlan, NewPlan, Activate,
         DowngradeToFree, DowngradeNobody
    <3> QED BY <3>1, <3>2
  <2>3. CASE DeductUsage(k)
    <3>1. credited' = credited
      BY <2>3 DEF DeductUsage, observed
    <3>2. \E n \in 1..topUp : topUp' = topUp - n
      BY <2>1, <2>3, <3>1, Deduction
    <3> QED BY <3>1, <3>2 DEF Ledger!Next, Ledger!Spend
  <2>4. CASE AddTopUp(k) \/ AddLastTopUp(k)
    <3> DEFINE t == job[k].txn
    <3>1. t \in Txn /\ credited[t] < Items[t]
      BY <2>1, <2>4, AddCredits
    <3>2. /\ credited' = [credited EXCEPT ![t] = @ + 1]
          /\ topUp' = topUp + Amount[t]
      BY <2>4 DEF AddTopUp, AddLastTopUp, AddItem
    <3> HIDE DEF t
    <3> QED BY <3>1, <3>2 DEF Ledger!Next, Ledger!Credit
  <2> QED BY <2>2, <2>3, <2>4
<1> QED BY <1>1, <1>2, InductiveInvariant, PTL DEF Spec, KeepsLedger, Ledger!Spec, Ledger!ledger
=============================================================================
