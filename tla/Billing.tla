------------------------------- MODULE Billing -------------------------------
(***************************************************************************)
(* One user's row of user_billing: the lazy monthly reset and the metering *)
(* of src/build/credits.ts, Paddle's subscriptions and top-ups arriving by *)
(* webhook and by the sync endpoint (src/billing/paddle.ts,                *)
(* src/server/routes/webhooks.ts, src/server/routes/billing.ts), Stripe's  *)
(* webhooks and the admin's grant.  Money is counted in natural numbers.   *)
(*                                                                         *)
(* A request that reads the row before it writes it is a call: at[k] is    *)
(* the SQL statement call k is about to send, and an action is one         *)
(* statement with the code up to the next await.  A request that is one    *)
(* statement is one action.                                                *)
(***************************************************************************)
EXTENDS Naturals, FiniteSets

CONSTANTS Plan, PlanUsage, RolloverCap, \* the plans and their allotments
          Txn, Items, Amount, \* top-up transactions: their items, each one's price
          Event,    \* ids of Paddle's webhook events
          Call,     \* the requests that can be under way at once
          Cost,     \* what a dispatch may cost, margin included
          Grant,    \* what an admin may grant
          Stripe,   \* the plans sold through Stripe
          Faults,   \* "db": a statement rejects, "crash": the process is lost
          None

ASSUME ConstantsAssumption ==
  /\ "free" \in Plan
  /\ PlanUsage \in [Plan -> Nat]
  /\ RolloverCap \in [Plan -> Nat]
  /\ Items \in [Txn -> Nat \ {0}]
  /\ Amount \in [Txn -> Nat]
  /\ Cost \subseteq Nat
  /\ Grant \subseteq Nat
  /\ Stripe \subseteq Plan
  /\ Faults \subseteq {"db", "crash"}
  /\ None \notin Event

VARIABLES
  \* the row
  plan, monthlyLimit, usage, rollover, topUp,
  periodOver,   \* now > currentPeriodEnd
  customer,     \* paddleCustomerId is set
  claims,       \* paddle_processed_events: claimed events and transactions
  \* Paddle and Stripe
  subscription, \* the plan Paddle's subscription pays for, or "free"
  content,      \* what each event says, or None while it is not sent
  acked,        \* the events that were answered with 200
  stripeSold,   \* a Stripe checkout was completed
  \* the calls
  at, job, event, seen, left,
  \* observed only
  credited,     \* the items of each transaction added so far
  dropped       \* transactions a call had claimed something for and failed

account  == <<plan, monthlyLimit, usage, rollover, topUp, periodOver, customer>>
provider == <<subscription, content, stripeSold>>
call     == <<at, job, event, seen, left>>
observed == <<credited, dropped>>
vars == <<account, claims, provider, acked, call, observed>>

TopUps        == [kind : {"topup"}, txn : Txn]
Subscriptions == [kind : {"subscription"}, plan : Plan]
Look          == [kind |-> "look"]
Jobs == TopUps \cup Subscriptions \cup {Look} \cup [kind : {"charge"}, cost : Cost]

Places == {"idle", "claimEvent", "claimTxn", "period", "roll", "apply",
           "readPlan", "activate", "downgrade"}

NoRead == [plan |-> "free", rollover |-> 0]

TypeOK ==
  /\ plan \in Plan
  /\ monthlyLimit \in Nat /\ usage \in Nat /\ rollover \in Nat /\ topUp \in Nat
  /\ periodOver \in BOOLEAN /\ customer \in BOOLEAN
  /\ claims \in [event : SUBSET Event, txn : SUBSET Txn]
  /\ subscription \in Plan
  /\ content \in [Event -> TopUps \cup Subscriptions \cup {None}]
  /\ acked \subseteq Event
  /\ stripeSold \in BOOLEAN
  /\ at \in [Call -> Places]
  /\ job \in [Call -> Jobs]
  /\ event \in [Call -> Event \cup {None}]
  /\ seen \in [Call -> [plan : Plan, rollover : Nat]]
  /\ left \in [Call -> Nat]
  /\ credited \in [Txn -> Nat]
  /\ dropped \subseteq Txn

\* ensureBillingRow() has inserted the row of a new user.
Init ==
  /\ plan = "free"
  /\ monthlyLimit = PlanUsage["free"]
  /\ usage = 0 /\ rollover = 0 /\ topUp = 0
  /\ periodOver = FALSE /\ customer = FALSE
  /\ claims = [event |-> {}, txn |-> {}]
  /\ subscription = "free"
  /\ content = [e \in Event |-> None]
  /\ acked = {}
  /\ stripeSold = FALSE
  /\ at = [k \in Call |-> "idle"]
  /\ job = [k \in Call |-> Look]
  /\ event = [k \in Call |-> None]
  /\ seen = [k \in Call |-> NoRead]
  /\ left = [k \in Call |-> 0]
  /\ credited = [t \in Txn |-> 0]
  /\ dropped = {}

-----------------------------------------------------------------------------
(* Helpers.                                                                *)

Least(a, b) == IF a <= b THEN a ELSE b
Over(a, b)  == IF a > b THEN a - b ELSE 0  \* GREATEST(0, a - b)

Ceiling == monthlyLimit + rollover

Goto(k, place) == at' = [at EXCEPT ![k] = place]

Sold(t) == \E e \in Event : content[e] = [kind |-> "topup", txn |-> t]

\* Call k starts with job j, for webhook event e or for None.
Start(k, place, j, e) ==
  /\ at[k] = "idle"
  /\ Goto(k, place)
  /\ job' = [job EXCEPT ![k] = j]
  /\ event' = [event EXCEPT ![k] = e]
  /\ UNCHANGED <<account, claims, provider, acked, seen, left, observed>>

\* Where applying a Paddle event or a fetched entity begins.
FirstPlace(j) ==
  IF j.kind = "topup" THEN "claimTxn"
  ELSE IF j.plan = "free" THEN "downgrade" ELSE "readPlan"

\* A webhook is answered with 200; a sync goes on to getRemainingBudget().
Answer(k) ==
  /\ Goto(k, IF event[k] = None THEN "period" ELSE "idle")
  /\ job' = [job EXCEPT ![k] = Look]
  /\ event' = [event EXCEPT ![k] = None]
  /\ acked' = acked \cup ({event[k]} \ {None})

-----------------------------------------------------------------------------
(* The provider, the user and the clock                                    *)

PeriodPasses ==
  /\ ~periodOver
  /\ periodOver' = TRUE
  /\ UNCHANGED <<plan, monthlyLimit, usage, rollover, topUp, customer, claims,
                 provider, acked, call, observed>>

\* Paddle emits an event: a plan bought, changed or renewed.
Subscribe(e, p) ==
  /\ content[e] = None
  /\ p # "free"
  /\ subscription' = p
  /\ content' = [content EXCEPT ![e] = [kind |-> "subscription", plan |-> p]]
  /\ UNCHANGED <<account, claims, stripeSold, acked, call, observed>>

Unsubscribe(e) ==
  /\ content[e] = None
  /\ subscription # "free"
  /\ subscription' = "free"
  /\ content' = [content EXCEPT ![e] = [kind |-> "subscription", plan |-> "free"]]
  /\ UNCHANGED <<account, claims, stripeSold, acked, call, observed>>

Purchase(e, t) ==
  /\ content[e] = None
  /\ ~Sold(t)
  /\ content' = [content EXCEPT ![e] = [kind |-> "topup", txn |-> t]]
  /\ UNCHANGED <<account, claims, subscription, stripeSold, acked, call, observed>>

\* Paddle delivers an event, again and again if it likes.
Deliver(k, e) ==
  /\ content[e] # None
  /\ Start(k, "claimEvent", content[e], e)

\* POST /paddle/sync of a transaction or of the subscription as it is now.
SyncTransaction(k, t) ==
  /\ Sold(t)
  /\ Start(k, "claimTxn", [kind |-> "topup", txn |-> t], None)

SyncSubscription(k) ==
  LET j == [kind |-> "subscription", plan |-> subscription]
  IN  /\ \E e \in Event : content[e] \in Subscriptions
      /\ Start(k, FirstPlace(j), j, None)

\* A balance is read: the budget check of a build, its plan, a page.
Read(k) == Start(k, "period", Look, None)

\* A dispatch is over and costs c.
Spend(k, c) == Start(k, "period", [kind |-> "charge", cost |-> c], None)

-----------------------------------------------------------------------------
(* The claims of paddle.ts                                                 *)

\* claim() of the event, new: applied next.
ClaimEvent(k) ==
  /\ at[k] = "claimEvent"
  /\ event[k] \notin claims.event
  /\ claims' = [claims EXCEPT !.event = @ \cup {event[k]}]
  /\ Goto(k, FirstPlace(job[k]))
  /\ UNCHANGED <<account, provider, acked, job, event, seen, left, observed>>

\* claim() of the event, old: nothing to do.
EventKnown(k) ==
  /\ at[k] = "claimEvent"
  /\ event[k] \in claims.event
  /\ Answer(k)
  /\ UNCHANGED <<account, claims, provider, seen, left, observed>>

\* mutant of ClaimTxn: a webhook relies on the claim of its event
ClaimTxn_ByEvent(k) ==
  LET t == job[k].txn
  IN  /\ at[k] = "claimTxn"
      /\ event[k] = None => t \notin claims.txn
      /\ claims' = IF event[k] = None THEN [claims EXCEPT !.txn = @ \cup {t}] ELSE claims
      /\ left' = [left EXCEPT ![k] = Items[t]]
      /\ Goto(k, "period")
      /\ UNCHANGED <<account, provider, acked, job, event, seen, observed>>

ClaimTxn(k) ==
  LET t == job[k].txn
  IN  /\ at[k] = "claimTxn"
      /\ t \notin claims.txn
      /\ claims' = [claims EXCEPT !.txn = @ \cup {t}]
      /\ left' = [left EXCEPT ![k] = Items[t]]
      /\ Goto(k, "period")
      /\ UNCHANGED <<account, provider, acked, job, event, seen, observed>>

TxnKnown(k) ==
  /\ at[k] = "claimTxn"
  /\ job[k].txn \in claims.txn
  /\ Answer(k)
  /\ UNCHANGED <<account, claims, provider, seen, left, observed>>

-----------------------------------------------------------------------------
(* credits.ts                                                              *)

\* ensureCurrentPeriod() reads the row: still within the period.
PeriodCurrent(k) ==
  /\ at[k] = "period"
  /\ ~periodOver
  /\ Goto(k, "apply")
  /\ UNCHANGED <<account, claims, provider, acked, job, event, seen, left, observed>>

\* ... or past it: what is carried over is computed from this read.
PeriodStale(k) ==
  /\ at[k] = "period"
  /\ periodOver
  /\ seen' = [seen EXCEPT ![k] =
               [plan |-> plan, rollover |-> Least(Over(Ceiling, usage), RolloverCap[plan])]]
  /\ Goto(k, "roll")
  /\ UNCHANGED <<account, claims, provider, acked, job, event, left, observed>>

\* ... and written whatever the row is by now.
RollOver(k) ==
  /\ at[k] = "roll"
  /\ usage' = 0
  /\ rollover' = seen[k].rollover
  /\ monthlyLimit' = PlanUsage[seen[k].plan]
  /\ periodOver' = FALSE
  /\ seen' = [seen EXCEPT ![k] = NoRead]
  /\ Goto(k, "apply")
  /\ UNCHANGED <<plan, topUp, customer, claims, provider, acked, job, event, left,
                 observed>>

\* assertHasBudget(), getUserPlan() and getRemainingBudget() only read.
LookUp(k) ==
  /\ at[k] = "apply"
  /\ job[k] = Look
  /\ Goto(k, "idle")
  /\ UNCHANGED <<account, claims, provider, acked, job, event, seen, left, observed>>

\* mutant of DeductUsage: usageUsd without LEAST()
DeductUsage_Uncapped(k) ==
  LET after == usage + job[k].cost
  IN  /\ at[k] = "apply"
      /\ job[k].kind = "charge"
      /\ usage' = after
      /\ topUp' = Over(topUp, Over(after, Ceiling))
      /\ Goto(k, "idle")
      /\ job' = [job EXCEPT ![k] = Look]
      /\ UNCHANGED <<plan, monthlyLimit, rollover, periodOver, customer, claims,
                     provider, acked, event, seen, left, observed>>

\* mutant of DeductUsage: paid money is drawn before the allotment
DeductUsage_TopUpFirst(k) ==
  LET cost == job[k].cost
  IN  /\ at[k] = "apply"
      /\ job[k].kind = "charge"
      /\ usage' = Least(Ceiling, usage + Over(cost, topUp))
      /\ topUp' = Over(topUp, cost)
      /\ Goto(k, "idle")
      /\ job' = [job EXCEPT ![k] = Look]
      /\ UNCHANGED <<plan, monthlyLimit, rollover, periodOver, customer, claims,
                     provider, acked, event, seen, left, observed>>

\* The one UPDATE of deductUsage().
DeductUsage(k) ==
  LET after == usage + job[k].cost
  IN  /\ at[k] = "apply"
      /\ job[k].kind = "charge"
      /\ usage' = Least(Ceiling, after)
      /\ topUp' = Over(topUp, Over(after, Ceiling))
      /\ Goto(k, "idle")
      /\ job' = [job EXCEPT ![k] = Look]
      /\ UNCHANGED <<plan, monthlyLimit, rollover, periodOver, customer, claims,
                     provider, acked, event, seen, left, observed>>

\* addTopUp() of one item; the next item begins with ensureCurrentPeriod().
AddItem(k) ==
  LET t == job[k].txn
  IN  /\ at[k] = "apply"
      /\ job[k].kind = "topup"
      /\ topUp' = topUp + Amount[t]
      /\ credited' = [credited EXCEPT ![t] = @ + 1]
      /\ left' = [left EXCEPT ![k] = @ - 1]
      /\ UNCHANGED <<plan, monthlyLimit, usage, rollover, periodOver, customer,
                     claims, provider, seen, dropped>>

\* mutant of AddTopUp: only the first item is added
AddTopUp_FirstOnly(k) ==
  /\ left[k] > 1
  /\ AddItem(k)
  /\ Answer(k)

AddTopUp(k) ==
  /\ left[k] > 1
  /\ AddItem(k)
  /\ Goto(k, "period")
  /\ UNCHANGED <<acked, job, event>>

AddLastTopUp(k) ==
  /\ left[k] = 1
  /\ AddItem(k)
  /\ Answer(k)

-----------------------------------------------------------------------------
(* applyPaddleSubscription()                                               *)

\* The plan is the stored one: the usage and its period stay as they are.
SamePlan(k) ==
  /\ at[k] = "readPlan"
  /\ customer
  /\ plan = job[k].plan
  /\ Answer(k)
  /\ UNCHANGED <<account, claims, provider, seen, left, observed>>

NewPlan(k) ==
  /\ at[k] = "readPlan"
  /\ customer => plan # job[k].plan
  /\ Goto(k, "activate")
  /\ UNCHANGED <<account, claims, provider, acked, job, event, seen, left, observed>>

\* mutant of Allot: what is unused of the old allotment is kept as paid money
Allot_KeepsUnused(p, limit) ==
  /\ plan' = p
  /\ monthlyLimit' = limit
  /\ usage' = 0
  /\ rollover' = 0
  /\ periodOver' = FALSE
  /\ topUp' = topUp + Over(Ceiling, usage)

Allot(p, limit) ==
  /\ plan' = p
  /\ monthlyLimit' = limit
  /\ usage' = 0
  /\ rollover' = 0
  /\ periodOver' = FALSE
  /\ UNCHANGED topUp

Activate(k) ==
  /\ at[k] = "activate"
  /\ Allot(job[k].plan, PlanUsage[job[k].plan])
  /\ customer' = TRUE
  /\ Answer(k)
  /\ UNCHANGED <<claims, provider, seen, left, observed>>

\* mutant of ToFree: the rollover of the old plan stays
ToFree_KeepsRollover ==
  /\ plan' = "free"
  /\ monthlyLimit' = PlanUsage["free"]
  /\ UNCHANGED <<usage, rollover, topUp, periodOver, customer>>

\* The usage of the period is kept.
ToFree ==
  /\ plan' = "free"
  /\ monthlyLimit' = PlanUsage["free"]
  /\ rollover' = 0
  /\ UNCHANGED <<usage, topUp, periodOver, customer>>

DowngradeToFree(k) ==
  /\ at[k] = "downgrade"
  /\ customer
  /\ ToFree
  /\ Answer(k)
  /\ UNCHANGED <<claims, provider, seen, left, observed>>

\* No row has the customer's id: the UPDATE matches nothing.
DowngradeNobody(k) ==
  /\ at[k] = "downgrade"
  /\ ~customer
  /\ Answer(k)
  /\ UNCHANGED <<account, claims, provider, seen, left, observed>>

-----------------------------------------------------------------------------
(* Requests of one statement                                               *)

\* Stripe's checkout.session.completed, delivered at least once.
StripeCheckout(p) ==
  /\ Allot(p, PlanUsage[p])
  /\ stripeSold' = TRUE
  /\ UNCHANGED <<customer, claims, subscription, content, acked, call, observed>>

StripeCanceled ==
  /\ stripeSold
  /\ ToFree
  /\ UNCHANGED <<claims, provider, acked, call, observed>>

\* customer.subscription.updated of a renewal moves the end of the period.
StripeUpdated(over) ==
  /\ stripeSold
  /\ periodOver' = over
  /\ UNCHANGED <<plan, monthlyLimit, usage, rollover, topUp, customer, claims,
                 provider, acked, call, observed>>

AdminGrant(g) ==
  /\ Allot(plan, g)
  /\ UNCHANGED <<customer, claims, provider, acked, call, observed>>

-----------------------------------------------------------------------------
(* Failures                                                                *)

\* Call k has inserted a claim and not finished what it was for.
HasClaimed(k) ==
  \/ at[k] = "claimTxn" /\ event[k] # None
  \/ at[k] \in {"period", "roll", "apply"}

\* The calls of K end here; a claim they inserted stays.
Abandon(K) ==
  /\ at' = [k \in Call |-> IF k \in K THEN "idle" ELSE at[k]]
  /\ job' = [k \in Call |-> IF k \in K THEN Look ELSE job[k]]
  /\ event' = [k \in Call |-> IF k \in K THEN None ELSE event[k]]
  /\ seen' = [k \in Call |-> IF k \in K THEN NoRead ELSE seen[k]]
  /\ left' = [k \in Call |-> IF k \in K THEN 0 ELSE left[k]]
  /\ dropped' = dropped \cup
       {t \in Txn : \E k \in K : /\ HasClaimed(k)
                                 /\ job[k] = [kind |-> "topup", txn |-> t]}
  /\ UNCHANGED <<account, claims, provider, acked, credited>>

\* A statement rejects: 500, or a warning in deductUsage().
Reject(k) ==
  /\ "db" \in Faults
  /\ at[k] # "idle"
  /\ Abandon({k})

Crash ==
  /\ "crash" \in Faults
  /\ \E k \in Call : at[k] # "idle"
  /\ Abandon(Call)

-----------------------------------------------------------------------------
Step(k) ==
  \/ ClaimEvent(k) \/ EventKnown(k) \/ ClaimTxn(k) \/ TxnKnown(k)
  \/ PeriodCurrent(k) \/ PeriodStale(k) \/ RollOver(k)
  \/ LookUp(k) \/ DeductUsage(k) \/ AddTopUp(k) \/ AddLastTopUp(k)
  \/ SamePlan(k) \/ NewPlan(k) \/ Activate(k)
  \/ DowngradeToFree(k) \/ DowngradeNobody(k)

Request(k) ==
  \/ \E e \in Event : Deliver(k, e)
  \/ \E t \in Txn : SyncTransaction(k, t)
  \/ SyncSubscription(k)
  \/ Read(k)
  \/ \E c \in Cost : Spend(k, c)

Outside ==
  \/ PeriodPasses
  \/ \E e \in Event :
       \/ \E p \in Plan : Subscribe(e, p)
       \/ Unsubscribe(e)
       \/ \E t \in Txn : Purchase(e, t)
  \/ \E p \in Stripe : StripeCheckout(p)
  \/ StripeCanceled
  \/ \E over \in BOOLEAN : StripeUpdated(over)
  \/ \E g \in Grant : AdminGrant(g)

Next ==
  \/ \E k \in Call : Step(k) \/ Request(k) \/ Reject(k)
  \/ Outside
  \/ Crash

Spec == Init /\ [][Next]_vars

\* A call under way goes on, Paddle retries an event until it is answered, and
\* the claim of an event delivered again and again is not rejected every time.
FairSpec ==
  /\ Spec
  /\ \A k \in Call : WF_vars(Step(k))
  /\ \A e \in Event :
       /\ SF_vars(e \notin acked /\ \E k \in Call : Deliver(k, e))
       /\ SF_vars(\E k \in Call : event[k] = e /\ (ClaimEvent(k) \/ EventKnown(k)))

-----------------------------------------------------------------------------
(* Properties                                                              *)

\* An item of a transaction is credited at most once, by whichever of the
\* webhook's deliveries and the sync requests comes first.
CreditedOnce == \A t \in Txn : credited[t] <= Items[t]

\* The limit and what was carried over come from one plan, or the limit is a
\* grant and nothing was carried over: however rollovers, plan changes and
\* cancellations interleave, no month has one plan's limit and another's rollover.
AllotmentOfOnePlan ==
  \/ \E p \in Plan : monthlyLimit = PlanUsage[p] /\ rollover <= RolloverCap[p]
  \/ monthlyLimit \in Grant /\ rollover = 0

\* Only an account that was downgraded to the free plan can have used more
\* than its allotment.
OverrunOnlyAfterDowngrade == usage > Ceiling => plan = "free"

\* What an account may spend, and has spent, is one plan's: no interleaving of
\* rollovers, plan changes and charges mixes two of them.
AllotmentKept == AllotmentOfOnePlan /\ OverrunOnlyAfterDowngrade

\* Top-up money goes down only when a charge has used up the plan's allotment,
\* and by no more than the charge unless the account was downgraded.
TopUpIsSpentLast ==
  [][topUp' < topUp =>
       /\ usage' = Ceiling'
       /\ \E k \in Call :
            /\ at[k] = "apply" /\ job[k].kind = "charge"
            /\ usage <= Ceiling => topUp' >= topUp - job[k].cost]_vars

\* schema.ts: top-up money "is already-paid", "drawn down only after the plan
\* allotment is exhausted" and "persists until spent": a charge takes no more
\* than it costs.
TopUpPersists ==
  [][topUp' < topUp =>
       \E k \in Call : /\ at[k] = "apply" /\ job[k].kind = "charge"
                       /\ topUp' >= topUp - job[k].cost]_vars

\* Money paid is credited in full in the end, unless a call that had claimed
\* the event or the transaction failed before it was done.
PaidIsCredited ==
  \A t \in Txn : Sold(t) ~> (credited[t] = Items[t] \/ t \in dropped)

\* The top-up balance is a ledger that is credited once per item and debited
\* only by spending: rollovers, plan changes and grants leave it alone.
Ledger == INSTANCE TopUpLedger WITH balance <- topUp
KeepsLedger == Ledger!Spec

=============================================================================
