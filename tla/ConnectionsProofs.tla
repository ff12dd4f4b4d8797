--------------------------- MODULE ConnectionsProofs ---------------------------
(***************************************************************************)
(* Theorems about Connections, for any round trips, requests, builds and   *)
(* connections, and any number of grants, rows and refreshes; then about   *)
(* the audit of a build (CompletionAudit), and at the end about what a     *)
(* build says of its own code (CodeGraph).                                 *)
(***************************************************************************)
EXTENDS Connections, CompletionAudit, CodeGraph, FiniteSetTheorems, SequenceTheorems,
        WellFoundedInduction, TLAPS

-----------------------------------------------------------------------------
(* What holds of round trips and calls.                                    *)

\* A round trip whose transaction is there was not redeemed.
RedeemedGone == \A t \in Txn : redeemed[t] <= 1 /\ (redeemed[t] = 1 => txn[t] = "gone")

\* A call that still connects was not sent, and one that is not idle was sent once.
SentOnce ==
  \A b \in Build :
    /\ call[b].at \in {"idle", "connecting"} => call[b].sent = 0 /\ call[b].runs = 0
    /\ call[b].at \in {"calling", "late"} => call[b].sent = 1
    /\ call[b].runs <= call[b].sent

\* A connection was given up only while it does something for the session, and a
\* call has one connection that was not, while it connects.
OneCurrent ==
  \A b \in Build, k \in Slot :
    /\ attempt[b][k].left => attempt[b][k].at \in {"refresh", "save", "authorize"}
    /\ attempt[b][k].at = "save" => attempt[b][k].next # "none"
    /\ Current(b, k) => /\ call[b].at = "connecting"
                        /\ \A j \in Slot : Current(b, j) => j = k

-----------------------------------------------------------------------------
(* What holds of grants.                                                   *)

Holds(cred) == cred.grant <= issued /\ (cred.grant = 0 /\ cred.oauth => cred.gen = NoTokens)

\* A credential somebody holds was issued; without a grant it has no tokens.
Held ==
  /\ Holds(row.cred)
  /\ \A r \in Request : Holds(request[r].cred)
  /\ \A b \in Build : Holds(session[b].cred)
  /\ \A g \in 1..MaxGrants : valid[g] # NoTokens <=> g <= issued

\* A call and a connection belong to a session, and a connection writes back that
\* session's grant.
OfSession ==
  \A b \in Build :
    /\ session[b].at = "none" => session[b] = NoSession
    /\ call[b].at # "idle" => session[b].at = "ready"
    /\ \A k \in Slot :
         /\ attempt[b][k].at # "none" => session[b].at # "none"
         /\ attempt[b][k].at = "refresh" => session[b].cred.grant # 0
         /\ attempt[b][k].at = "save" =>
              /\ attempt[b][k].save.grant = session[b].cred.grant
              /\ Holds(attempt[b][k].save)

\* A grant in the row or in a session was saved to that row or to the session's,
\* and one that a request is about to save is new and that request's alone.
Owned ==
  /\ row.id = Gone => row = NoRow
  /\ OwnCredential
  /\ \A b \in Build :
       /\ session[b].at # "none" => session[b].id # Gone
       /\ session[b].at # "none" /\ session[b].cred.grant # 0 =>
            owner[session[b].cred.grant] = session[b].id
  /\ \A r \in Request :
       request[r].cred.grant # 0 =>
         /\ request[r].at = "save"
         /\ owner[request[r].cred.grant] = Gone
         /\ request[r].cred.gen = 0
         /\ \A s \in Request : request[s].cred.grant = request[r].cred.grant => s = r
  /\ \A g \in 1..MaxGrants :
       /\ g > issued => owner[g] = Gone
       /\ owner[g] = Gone => valid[g] <= 0 /\ g \notin spoiled

-----------------------------------------------------------------------------
(* What holds of tokens.                                                   *)

\* Nobody holds a token that was not given out yet.
NotAhead ==
  /\ row.cred.grant # 0 => row.cred.gen <= valid[row.cred.grant]
  /\ \A b \in Build :
       session[b].cred.grant # 0 =>
         /\ session[b].cred.gen <= valid[session[b].cred.grant]
         /\ \A k \in Slot : attempt[b][k].at = "save" =>
              attempt[b][k].save.gen <= valid[session[b].cred.grant]

\* One refresh of a sound grant is under way at a time, with its newest token, and
\* no authorization is started for it.
OneRefresh ==
  \A b \in Build, k \in Slot :
    LET g == session[b].cred.grant
    IN  g \notin spoiled \cup {0} =>
          /\ attempt[b][k].at = "refresh" =>
               /\ attempt[b][k].gen = valid[g]
               /\ \A c \in Build, j \in Slot :
                    session[c].cred.grant = g /\ attempt[c][j].at = "refresh"
                      => c = b /\ j = k
          /\ attempt[b][k].at # "authorize"
          /\ attempt[b][k].at = "save" => attempt[b][k].next # "authorize"

\* A connection is about to write what its session has of a grant.
Saving(g, b, k) == session[b].cred.grant = g /\ attempt[b][k].at = "save"

\* The newest token of a sound grant is on its way to the row, or nothing is and
\* the row has it.
Stored ==
  \A g \in 1..MaxGrants \ spoiled :
    \/ \E b \in Build, k \in Slot : Saving(g, b, k) /\ attempt[b][k].save.gen = valid[g]
    \/ /\ \A b \in Build, k \in Slot : ~Saving(g, b, k)
       /\ row.cred.grant = g => row.cred.gen = valid[g]

\* The inductive invariant.
IInv == /\ TypeOK /\ RedeemedGone /\ SentOnce /\ OneCurrent
        /\ Held /\ OfSession /\ Owned /\ NotAhead /\ OneRefresh /\ Stored

-----------------------------------------------------------------------------
(* What a step leaves alone.                                               *)

\* Round trips and handlers do not touch the builds, and round trips only the
\* transactions and the requests.
LEMMA Elsewhere ==
  /\ \A t \in Txn : RoundTrip(t) => UNCHANGED <<tables, service, builds, owner, spoiled>>
  /\ \A r \in Request : Handler(r) => UNCHANGED <<txn, builds, redeemed, spoiled>>
  /\ Disconnect => UNCHANGED <<rows, txn, service, request, builds, observed>>
<1>1. ASSUME NEW t \in Txn, RoundTrip(t)
      PROVE  UNCHANGED <<tables, service, builds, owner, spoiled>>
  BY <1>1 DEF RoundTrip, StartOAuth, SaveState, Expire, Answer, StartEnds, Callback, observed
<1>2. ASSUME NEW r \in Request, Handler(r)
      PROVE  UNCHANGED <<txn, builds, redeemed, spoiled>>
  BY <1>2 DEF Handler, Exchange, RequestFails, Save, ConnectKey, observed
<1> QED BY <1>1, <1>2 DEF Disconnect

\* A build touches neither the round trips nor the requests, what is issued or
\* who owns it.
LEMMA ByBuilds ==
  ASSUME NEW b \in Build, Agent(b)
  PROVE  UNCHANGED <<rows, txn, issued, request, redeemed, owner>>
<1>1. CASE Load(b) \/ EndBuild(b) \/ StartCall(b) \/ Run(b) \/ Returned(b) \/ CallFails(b)
  BY <1>1 DEF Load, EndBuild, StartCall, Run, Returned, CallFails, tables, service, observed
<1>2. ASSUME NEW k \in Slot, Connection(b, k)
      PROVE  UNCHANGED <<rows, txn, issued, request, redeemed, owner>>
  BY <1>2 DEF Connection, Open, Accepted, Fails, Refused, Refreshed, RefreshLost, Authorize,
      Persist, PersistFails, ConnectTimesOut, tables, service, observed
<1> QED BY <1>1, <1>2 DEF Agent

\* A connection that fails, or is lost in a refresh or a write, ends.
LEMMA Ends ==
  ASSUME NEW b \in Build, NEW k \in Slot,
         Fails(b, k) \/ RefreshLost(b, k) \/ PersistFails(b, k)
  PROVE  EndAttempt(b, k)
  BY DEF Fails, RefreshLost, PersistFails

\* After a write it ends or goes on.
LEMMA GoesOn ==
  ASSUME NEW b \in Build, NEW k \in Slot, Persist(b, k)
  PROVE  EndAttempt(b, k) \/ UNCHANGED <<session, call>>
  BY DEF Persist, Saved

-----------------------------------------------------------------------------
(* Calls.                                                                  *)

\* What the steps make of a call is a call.
LEMMA CallKinds ==
  /\ NoCall \in Calls
  /\ Connecting \in Calls
  /\ \A c \in Calls : Over(c) \in Calls /\ NextTransport(c) \in Calls
<1>1. NoCall \in Calls /\ Connecting \in Calls
  BY DEF Calls, NoCall, Connecting
<1>2. ASSUME NEW c \in Calls PROVE Over(c) \in Calls
  BY <1>1 DEF Over, Calls
<1>3. ASSUME NEW c \in Calls PROVE NextTransport(c) \in Calls
  BY <1>2 DEF NextTransport, Calls
<1> QED BY <1>1, <1>2, <1>3

\* A connection the service accepts is the current one of its call.
LEMMA AcceptedIsCurrent ==
  ASSUME OneCurrent, SentOnce, NEW b \in Build, NEW k \in Slot, Accepted(b, k)
  PROVE  /\ Current(b, k)
         /\ call[b].at = "connecting" /\ call[b].sent = 0 /\ call[b].runs = 0
  BY DEF OneCurrent, SentOnce, Accepted, Current

\* What a step may do to the latest call of a build.
CallStep(b, c) ==
  \/ c = NoCall
  \/ session[b].at = "ready" /\ c = Connecting
  \/ call[b].at = "calling" /\ c = Over(call[b])
  \/ call[b].at = "connecting" /\ call[b].tried < 2 /\ c = [call[b] EXCEPT !.tried = @ + 1]
  \/ call[b].at = "connecting" /\ call[b].sent = 0 /\ call[b].runs = 0
       /\ c = Sent(call[b])
  \/ call[b].at = "connecting" /\ c = NextTransport(call[b])
  \/ call[b].runs < call[b].sent /\ ~(call[b].at = "late" /\ call[b].runs = 0)
       /\ c = [call[b] EXCEPT !.runs = call[b].runs + 1]

\* What a step may do to the calls.
CallsStep == \/ call' = [b \in Build |-> NoCall]
             \/ UNCHANGED call
             \/ \E b \in Build : \E c : CallStep(b, c) /\ call' = [call EXCEPT ![b] = c]

\* Every step forgets all calls, leaves them alone, or does one of these to one.
LEMMA CallSteps ==
  ASSUME TypeOK, SentOnce, OneCurrent, [Next]_vars
  PROVE  CallsStep
<1>1. ASSUME NEW b \in Build, NEW k \in Slot, EndAttempt(b, k) PROVE CallsStep
  BY <1>1 DEF EndAttempt, CallStep, CallsStep, OneCurrent
<1>2. ASSUME NEW b \in Build, NEW k \in Slot, Accepted(b, k) PROVE CallsStep
  <2>1. call[b].at = "connecting" /\ call[b].sent = 0 /\ call[b].runs = 0
    BY <1>2, AcceptedIsCurrent
  <2>2. CASE call' = [call EXCEPT ![b] = NoCall]
    BY <2>2 DEF CallStep, CallsStep
  <2>3. CASE call' = [call EXCEPT ![b] = Sent(@)]
    BY <2>1, <2>3 DEF CallStep, CallsStep
  <2> QED BY <1>2, <2>2, <2>3 DEF Accepted
<1>3. ASSUME NEW b \in Build, NEW k \in Slot, Open(b, k) PROVE CallsStep
  BY <1>3 DEF Open, CallStep, CallsStep
<1>4. ASSUME NEW b \in Build, NEW k \in Slot, ConnectTimesOut(b, k) PROVE CallsStep
  BY <1>4 DEF ConnectTimesOut, CallStep, CallsStep, OneCurrent
<1>5. ASSUME NEW b \in Build, NEW k \in Slot,
             Refused(b, k) \/ Refreshed(b, k) \/ Authorize(b, k)
      PROVE  CallsStep
  BY <1>5 DEF Refused, Refreshed, Authorize, CallsStep
<1>6. ASSUME NEW b \in Build, NEW k \in Slot, Connection(b, k) PROVE CallsStep
  BY <1>1, <1>2, <1>3, <1>4, <1>5, <1>6, Ends, GoesOn DEF Connection, CallsStep
<1>7. ASSUME NEW b \in Build, Run(b) PROVE CallsStep
  <2>1. CASE call[b].at = "late" /\ call[b].runs = 0
    <3>1. call' = [call EXCEPT ![b] = NoCall]
      BY <1>7, <2>1 DEF Run
    <3> QED BY <3>1 DEF CallStep, CallsStep
  <2>2. CASE ~(call[b].at = "late" /\ call[b].runs = 0)
    <3>1. call' = [call EXCEPT ![b] = [call[b] EXCEPT !.runs = call[b].runs + 1]]
      BY <1>7, <2>2 DEF Run
    <3> QED BY <1>7, <2>2, <3>1 DEF CallStep, CallsStep, Run
  <2> QED BY <2>1, <2>2
<1>8. ASSUME NEW b \in Build, Load(b) \/ EndBuild(b) \/ StartCall(b) PROVE CallsStep
  BY <1>8 DEF Load, EndBuild, StartCall, CallStep, CallsStep
<1>9. ASSUME NEW b \in Build, Returned(b) \/ CallFails(b) PROVE CallsStep
  BY <1>9 DEF Returned, CallFails, CallStep, CallsStep
<1>10. CASE Restart
  BY <1>10 DEF Restart, CallsStep
<1>11. CASE UNCHANGED vars \/ Disconnect \/ (\E t \in Txn : RoundTrip(t))
              \/ (\E r \in Request : Handler(r))
  BY <1>11, Elsewhere DEF vars, builds, CallsStep
<1>12. ASSUME NEW b \in Build, Agent(b) PROVE CallsStep
  BY <1>6, <1>7, <1>8, <1>9, <1>12 DEF Agent
<1> QED BY <1>10, <1>11, <1>12 DEF Next

\* Every call is sent, and carried out, twice at most.
LEMMA CallsTyped ==
  ASSUME TypeOK, SentOnce, OneCurrent, [Next]_vars
  PROVE  call' \in [Build -> Calls]
<1>1. ASSUME NEW b \in Build, NEW c, CallStep(b, c) PROVE c \in Calls
  <2>1. call[b] \in Calls /\ call[b].runs <= call[b].sent
    BY DEF TypeOK, SentOnce
  <2>2. call[b].runs \in 0..2 /\ call[b].sent \in 0..2
    BY <2>1 DEF Calls
  <2>3. CASE call[b].tried < 2 /\ c = [call[b] EXCEPT !.tried = @ + 1]
    BY <2>1, <2>3 DEF Calls
  <2>4. CASE call[b].sent = 0 /\ c = Sent(call[b])
    BY <2>1, <2>2, <2>4 DEF Sent, Calls
  <2>5. CASE call[b].runs < call[b].sent /\ c = [call[b] EXCEPT !.runs = call[b].runs + 1]
    <3>1. call[b].runs + 1 \in 0..2
      BY <2>1, <2>2, <2>5
    <3> QED BY <2>1, <2>5, <3>1 DEF Calls
  <2> QED BY <1>1, <2>1, <2>3, <2>4, <2>5, CallKinds DEF CallStep
<1> QED BY <1>1, CallSteps, CallKinds DEF CallsStep, TypeOK

\* A call is sent once, and carried out no more than that.
LEMMA SentOncePreserved ==
  ASSUME TypeOK, SentOnce, OneCurrent, [Next]_vars
  PROVE  SentOnce'
<1> DEFINE Once(c) == /\ c.at \in {"idle", "connecting"} => c.sent = 0 /\ c.runs = 0
                      /\ c.at \in {"calling", "late"} => c.sent = 1
                      /\ c.runs <= c.sent
<1>1. ASSUME NEW b \in Build, NEW c, CallStep(b, c) PROVE Once(c)
  <2>1. call[b] \in Calls /\ Once(call[b])
    BY DEF TypeOK, SentOnce
  <2>2. CASE c \in {NoCall, Connecting}
    BY <2>2 DEF NoCall, Connecting
  <2>3. CASE call[b].at = "calling" /\ c = Over(call[b])
    BY <2>1, <2>3 DEF Over, NoCall, Calls
  <2>4. CASE call[b].at = "connecting" /\ c = [call[b] EXCEPT !.tried = @ + 1]
    BY <2>1, <2>4 DEF Calls
  <2>5. CASE /\ call[b].at = "connecting"
             /\ c = Sent(call[b])
    BY <2>1, <2>5 DEF Sent, Calls
  <2>6. CASE call[b].at = "connecting" /\ c = NextTransport(call[b])
    BY <2>1, <2>6 DEF NextTransport, Over, NoCall, Calls
  <2>7. CASE /\ call[b].runs < call[b].sent
             /\ c = [call[b] EXCEPT !.runs = call[b].runs + 1]
    <3>1. call[b].sent = 1 /\ call[b].runs = 0 /\ call[b].at \in {"calling", "late"}
      BY <2>1, <2>7 DEF Calls
    <3>2. c.at = call[b].at /\ c.sent = call[b].sent /\ c.runs = call[b].runs + 1
      BY <2>1, <2>7 DEF Calls
    <3> QED BY <3>1, <3>2
  <2> QED BY <1>1, <2>2, <2>3, <2>4, <2>5, <2>6, <2>7 DEF CallStep
<1>2. Once(NoCall)
  BY DEF NoCall
<1>3. ASSUME NEW b \in Build PROVE Once(call'[b])
  BY <1>1, <1>2, CallSteps DEF CallsStep, TypeOK, SentOnce
<1> QED BY <1>3 DEF SentOnce

-----------------------------------------------------------------------------
(* Round trips.                                                            *)

\* The transactions and what was exchanged of them.
TripsOK ==
  /\ txn \in [Txn -> {"none", "inserted", "waiting", "code", "denied", "gone"}]
  /\ redeemed \in [Txn -> 0..2]
  /\ RedeemedGone

\* The transaction is gone before the code is exchanged, and never comes back.
LEMMA TripsPreserved ==
  ASSUME TripsOK, [Next]_vars
  PROVE  TripsOK'
<1> USE DEF TripsOK, RedeemedGone
<1>1. ASSUME NEW t \in Txn, StartOAuth(t) \/ SaveState(t) \/ Expire(t) PROVE TripsOK'
  BY <1>1 DEF StartOAuth, SaveState, Expire, observed
<1>2. ASSUME NEW t \in Txn, NEW d \in {"code", "denied"}, Answer(t, d) PROVE TripsOK'
  BY <1>2 DEF Answer, observed
<1>3. ASSUME NEW t \in Txn, NEW r \in Request, StartEnds(t, r) PROVE TripsOK'
  BY <1>3 DEF StartEnds, observed
<1>4. ASSUME NEW t \in Txn, NEW r \in Request, Callback(t, r) PROVE TripsOK'
  BY <1>4 DEF Callback, Redeem
<1>5. CASE UNCHANGED <<txn, redeemed>>
  BY <1>5
<1>6. CASE Restart \/ Disconnect \/ UNCHANGED vars
  BY <1>5, <1>6 DEF Restart, Disconnect, observed, vars
<1> QED
  BY <1>1, <1>2, <1>3, <1>4, <1>5, <1>6, Elsewhere, ByBuilds DEF Next, RoundTrip

-----------------------------------------------------------------------------
(* Requests and grants.                                                    *)

\* Whatever the steps make a credential of.
LEMMA CredentialKinds ==
  /\ NoCred \in Credentials /\ Free \in Requests /\ NoRow \in Rows
  /\ NoSession \in Sessions /\ Unused \in Attempts
  /\ [grant |-> 0, oauth |-> TRUE, gen |-> NoTokens] \in Credentials
  /\ \A g \in 0..MaxGrants, o \in BOOLEAN : [grant |-> g, oauth |-> o, gen |-> 0] \in Credentials
<1>1. NoCred \in Credentials
  BY ConstantsAssumption DEF NoCred, Credentials, NoTokens
<1>2. [grant |-> 0, oauth |-> TRUE, gen |-> NoTokens] \in Credentials
  BY ConstantsAssumption DEF Credentials, NoTokens
<1>3. ASSUME NEW g \in 0..MaxGrants, NEW o \in BOOLEAN
      PROVE  [grant |-> g, oauth |-> o, gen |-> 0] \in Credentials
  BY ConstantsAssumption DEF Credentials, NoTokens
<1>4. Free \in Requests /\ NoRow \in Rows /\ NoSession \in Sessions /\ Unused \in Attempts
  BY <1>1, ConstantsAssumption
     DEF Free, Requests, NoRow, Rows, NoSession, Sessions, Unused, Attempts, Gone
<1> QED BY <1>1, <1>2, <1>3, <1>4

\* What a request holds is a credential.
LEMMA RequestsTyped ==
  ASSUME TypeOK, [Next]_vars
  PROVE  request' \in [Request -> Requests]
<1>1. ASSUME NEW t \in Txn, NEW r \in Request, StartEnds(t, r)
      PROVE  request' \in [Request -> Requests]
  <2>1. [at |-> "save", cred |-> [grant |-> 0, oauth |-> TRUE, gen |-> NoTokens]] \in Requests
    BY CredentialKinds DEF Requests
  <2> QED BY <1>1, <2>1 DEF StartEnds, TypeOK
<1>2. ASSUME NEW t \in Txn, NEW r \in Request, Callback(t, r)
      PROVE  request' \in [Request -> Requests]
  <2>1. [at |-> "exchange", cred |-> NoCred] \in Requests
    BY CredentialKinds DEF Requests
  <2> QED BY <1>2, <2>1 DEF Callback, Redeem, TypeOK
<1>3. ASSUME NEW r \in Request, NEW oauth \in BOOLEAN, NewGrant(r, oauth)
      PROVE  request' \in [Request -> Requests]
  <2>1. issued + 1 \in 0..MaxGrants
    BY <1>3, ConstantsAssumption DEF NewGrant, TypeOK
  <2>2. [grant |-> issued + 1, oauth |-> oauth, gen |-> 0] \in Credentials
    BY <2>1, CredentialKinds
  <2>3. [at |-> "save", cred |-> [grant |-> issued + 1, oauth |-> oauth, gen |-> 0]] \in Requests
    BY <2>2 DEF Requests
  <2> QED BY <1>3, <2>3 DEF NewGrant, TypeOK
<1>4. ASSUME NEW r \in Request, Exchange(r) \/ ConnectKey(r)
      PROVE  request' \in [Request -> Requests]
  BY <1>3, <1>4 DEF Exchange, ConnectKey
<1>5. ASSUME NEW r \in Request, Save(r) \/ RequestFails(r)
      PROVE  request' \in [Request -> Requests]
  BY <1>5, CredentialKinds DEF Save, RequestFails, TypeOK
<1>6. CASE Restart
  BY <1>6, CredentialKinds DEF Restart
<1>7. CASE UNCHANGED request
  BY <1>7 DEF TypeOK
<1>8. ASSUME NEW t \in Txn, RoundTrip(t) PROVE request' \in [Request -> Requests]
  BY <1>1, <1>2, <1>7, <1>8
     DEF RoundTrip, StartOAuth, SaveState, Expire, Answer
<1> QED
  BY <1>3, <1>4, <1>5, <1>6, <1>7, <1>8, ByBuilds DEF Next, Handler, Disconnect, vars

\* The types of the grants and of what is known of them.
GrantsTyped ==
  /\ rows \in 0..MaxRows
  /\ issued \in 0..MaxGrants
  /\ valid \in [1..MaxGrants -> NoTokens..MaxRefresh]
  /\ owner \in [1..MaxGrants -> 0..MaxRows]
  /\ spoiled \subseteq 1..MaxGrants

\* A credential without a grant is never refreshed.
LEMMA GrantsTypedPreserved ==
  ASSUME TypeOK, OfSession, Owned, [Next]_vars
  PROVE  GrantsTyped'
<1> USE ConstantsAssumption DEF GrantsTyped
<1>0. /\ \A b \in Build : session[b].cred.grant \in 0..MaxGrants
      /\ \A r \in Request : request[r].cred.grant \in 0..MaxGrants
      /\ row.id \in 0..MaxRows
      /\ GrantsTyped
  BY DEF TypeOK, Requests, Sessions, Credentials, Rows
<1>1. ASSUME NEW r \in Request, NEW oauth \in BOOLEAN, NewGrant(r, oauth),
             UNCHANGED <<rows, owner, spoiled>>
      PROVE  GrantsTyped'
  BY <1>0, <1>1 DEF NewGrant, NoTokens
<1>2. ASSUME NEW r \in Request, Save(r) PROVE GrantsTyped'
  <2> DEFINE id == IF row.id = Gone THEN rows + 1 ELSE row.id
             g  == request[r].cred.grant
  <2>1. /\ id <= MaxRows
        /\ rows' = IF row.id = Gone THEN id ELSE rows
        /\ owner' = IF g # 0 THEN [owner EXCEPT ![g] = id] ELSE owner
        /\ UNCHANGED <<issued, valid, spoiled>>
    BY <1>2 DEF Save, service
  <2>2. g \in 0..MaxGrants
    BY <1>0
  <2>3. id \in 0..MaxRows
    <3>1. rows + 1 \in Nat /\ row.id \in 0..MaxRows
      BY <1>0
    <3>2. CASE row.id = Gone
      BY <2>1, <3>1, <3>2
    <3>3. CASE row.id # Gone
      BY <3>1, <3>3
    <3> QED BY <3>2, <3>3
  <2> HIDE DEF id, g
  <2> QED BY <1>0, <2>1, <2>2, <2>3
<1>3. ASSUME NEW b \in Build, NEW k \in Slot, Refused(b, k) PROVE GrantsTyped'
  <2>1. \/ spoiled' = spoiled
        \/ session[b].cred.grant # 0 /\ spoiled' = spoiled \cup {session[b].cred.grant}
    BY <1>3 DEF Refused
  <2>2. UNCHANGED <<rows, issued, valid, owner>>
    BY <1>3 DEF Refused, tables, service
  <2>3. spoiled' \subseteq 1..MaxGrants
    <3>1. session[b].cred.grant # 0 => session[b].cred.grant \in 1..MaxGrants
      BY <1>0
    <3> QED BY <1>0, <2>1, <3>1
  <2> QED BY <1>0, <2>2, <2>3
<1>4. ASSUME NEW b \in Build, NEW k \in Slot, Refreshed(b, k) \/ RefreshLost(b, k)
      PROVE GrantsTyped'
  <2> DEFINE g == session[b].cred.grant
  <2>1. g \in 1..MaxGrants
    BY <1>0, <1>4 DEF OfSession, Refreshed, RefreshLost
  <2>2. \/ valid' = valid
        \/ valid[g] < MaxRefresh /\ valid' = [valid EXCEPT ![g] = @ + 1]
    BY <1>4 DEF Refreshed, RefreshLost
  <2>3. spoiled' = spoiled \/ spoiled' = spoiled \cup {g}
    BY <1>4 DEF Refreshed, RefreshLost, observed
  <2>4. UNCHANGED <<rows, issued, owner>>
    BY <1>4 DEF Refreshed, RefreshLost, tables, observed
  <2>5. valid[g] \in NoTokens..MaxRefresh
    BY <1>0, <2>1
  <2> HIDE DEF g
  <2>6. valid' \in [1..MaxGrants -> NoTokens..MaxRefresh]
    <3>1. CASE valid[g] < MaxRefresh /\ valid' = [valid EXCEPT ![g] = @ + 1]
      <4>1. valid[g] + 1 \in NoTokens..MaxRefresh
        BY <2>5, <3>1 DEF NoTokens
      <4> QED BY <1>0, <3>1, <4>1
    <3> QED BY <1>0, <2>2, <3>1
  <2>7. spoiled' \subseteq 1..MaxGrants
    BY <1>0, <2>1, <2>3
  <2> QED BY <1>0, <2>4, <2>6, <2>7
<1>5. ASSUME NEW b \in Build, NEW k \in Slot, Persist(b, k) \/ PersistFails(b, k)
      PROVE  GrantsTyped'
  <2>1. \/ spoiled' = spoiled
        \/ spoiled' = spoiled \cup ({session[b].cred.grant} \ {0})
    BY <1>5 DEF Persist, PersistFails
  <2>2. UNCHANGED <<rows, issued, valid, owner>>
    BY <1>5 DEF Persist, PersistFails, tables, service
  <2>3. spoiled' \subseteq 1..MaxGrants
    <3>1. {session[b].cred.grant} \ {0} \subseteq 1..MaxGrants
      BY <1>0
    <3> QED BY <1>0, <2>1, <3>1
  <2> QED BY <1>0, <2>2, <2>3
<1>6. CASE Restart
  <2>1. spoiled' \subseteq spoiled \cup ({session[b].cred.grant : b \in Build} \ {0})
    BY <1>6 DEF Restart
  <2>2. UNCHANGED <<rows, issued, valid, owner>>
    BY <1>6 DEF Restart, tables, service
  <2>3. spoiled' \subseteq 1..MaxGrants
    <3>1. {session[b].cred.grant : b \in Build} \ {0} \subseteq 1..MaxGrants
      BY <1>0
    <3> QED BY <1>0, <2>1, <3>1
  <2> QED BY <1>0, <2>2, <2>3
<1>7. CASE UNCHANGED <<rows, issued, valid, owner, spoiled>>
  BY <1>0, <1>7
<1>8. ASSUME NEW r \in Request, Handler(r) PROVE GrantsTyped'
  BY <1>1, <1>2, <1>7, <1>8
     DEF Handler, Exchange, RequestFails, ConnectKey, tables, service, observed
<1>9. ASSUME NEW b \in Build, Agent(b) PROVE GrantsTyped'
  <2>1. ASSUME NEW k \in Slot, Connection(b, k) PROVE GrantsTyped'
    BY <1>3, <1>4, <1>5, <1>7, <2>1
       DEF Connection, Open, Accepted, Fails, Authorize, ConnectTimesOut, tables, service, observed
  <2> QED BY <1>7, <1>9, <2>1
          DEF Agent, Load, EndBuild, StartCall, Run, Returned, CallFails, tables, service, observed
<1>10. CASE Disconnect \/ UNCHANGED vars
  BY <1>7, <1>10 DEF Disconnect, vars, tables, service, observed
<1> QED
  BY <1>6, <1>7, <1>8, <1>9, <1>10, Elsewhere DEF Next, tables, service

\* The row holds a credential, and so does what connections write to it.
LEMMA RowTyped ==
  ASSUME TypeOK, [Next]_vars
  PROVE  row' \in Rows
<1>1. ASSUME NEW r \in Request, Save(r) PROVE row' \in Rows
  <2> DEFINE id == IF row.id = Gone THEN rows + 1 ELSE row.id
  <2>1. row' = [id |-> id, cred |-> request[r].cred] /\ id <= MaxRows
    BY <1>1 DEF Save
  <2>2. request[r].cred \in Credentials /\ row.id \in 0..MaxRows /\ rows \in 0..MaxRows
    BY DEF TypeOK, Requests, Rows
  <2>3. id \in 0..MaxRows
    <3>1. CASE row.id = Gone
      BY <2>1, <2>2, <3>1, ConstantsAssumption
    <3>2. CASE row.id # Gone
      BY <2>2, <3>2
    <3> QED BY <3>1, <3>2
  <2> HIDE DEF id
  <2> QED BY <2>1, <2>2, <2>3 DEF Rows
<1>2. ASSUME NEW b \in Build, NEW k \in Slot, Persist(b, k) PROVE row' \in Rows
  <2>1. attempt[b][k].save \in Credentials /\ row \in Rows
    BY DEF TypeOK, Attempts
  <2>2. [row EXCEPT !.cred = attempt[b][k].save] \in Rows
    BY <2>1 DEF Rows
  <2>3. row' \in {row, [row EXCEPT !.cred = attempt[b][k].save]}
    BY <1>2 DEF Persist
  <2> QED BY <2>1, <2>2, <2>3
<1>3. CASE Disconnect
  BY <1>3, CredentialKinds DEF Disconnect
<1>4. CASE UNCHANGED row
  BY <1>4 DEF TypeOK
<1>5. ASSUME NEW r \in Request, Handler(r) PROVE row' \in Rows
  BY <1>1, <1>4, <1>5 DEF Handler, Exchange, RequestFails, ConnectKey, tables
<1>6. ASSUME NEW b \in Build, Agent(b) PROVE row' \in Rows
  <2>1. ASSUME NEW k \in Slot, Connection(b, k) PROVE row' \in Rows
    BY <1>2, <1>4, <2>1
       DEF Connection, Open, Accepted, Fails, Refused, Refreshed, RefreshLost, Authorize,
           PersistFails, ConnectTimesOut, tables
  <2> QED BY <1>4, <1>6, <2>1
          DEF Agent, Load, EndBuild, StartCall, Run, Returned, CallFails, tables
<1> QED
  BY <1>3, <1>4, <1>5, <1>6, Elsewhere DEF Next, Restart, tables, vars

-----------------------------------------------------------------------------
(* Sessions and connections.                                               *)

\* Every connection but one is as it was.
Others(b, k) == \A c \in Build, j \in Slot : c # b \/ j # k => attempt'[c][j] = attempt[c][j]

\* What a step makes of one connection.
LEMMA OneAttempt ==
  ASSUME TypeOK, NEW b \in Build, NEW k \in Slot, NEW a,
         attempt' = [attempt EXCEPT ![b][k] = a]
  PROVE  attempt'[b][k] = a /\ Others(b, k)
         /\ (a \in Attempts => attempt' \in [Build -> [Slot -> Attempts]])
  BY DEF TypeOK, Others

\* A connection ends, and with the last one of a build that is over its copy goes.
LEMMA DropDoes ==
  ASSUME TypeOK, NEW b \in Build, NEW k \in Slot, Drop(b, k)
  PROVE  /\ attempt' \in [Build -> [Slot -> Attempts]] /\ session' \in [Build -> Sessions]
         /\ attempt'[b][k] = Unused /\ Others(b, k)
         /\ \/ session' = session
            \/ /\ session[b].at = "over"
               /\ session' = [session EXCEPT ![b] = NoSession]
               /\ \A j \in Slot : attempt'[b][j].at = "none"
<1>1. attempt' = [attempt EXCEPT ![b][k] = Unused]
  BY DEF Drop
<1>2. attempt'[b][k] = Unused /\ Others(b, k) /\ attempt' \in [Build -> [Slot -> Attempts]]
  BY <1>1, OneAttempt, CredentialKinds
<1>3. \/ session' = session
      \/ /\ session[b].at = "over"
         /\ session' = [session EXCEPT ![b] = NoSession]
         /\ \A j \in Slot \ {k} : attempt[b][j].at = "none"
  BY DEF Drop
<1>4. Unused.at = "none"
  BY DEF Unused
<1>5. ASSUME \A j \in Slot \ {k} : attempt[b][j].at = "none"
      PROVE  \A j \in Slot : attempt'[b][j].at = "none"
  BY <1>2, <1>4, <1>5 DEF Others
<1>6. session' \in [Build -> Sessions]
  BY <1>3, CredentialKinds DEF TypeOK
<1> QED BY <1>2, <1>3, <1>5, <1>6

\* A connection is opened.
LEMMA OpenDoes ==
  ASSUME TypeOK, NEW b \in Build, NEW k \in Slot, Open(b, k)
  PROVE  /\ attempt' \in [Build -> [Slot -> Attempts]] /\ session' = session
         /\ attempt'[b][k].at = "request" /\ ~attempt'[b][k].left
         /\ Others(b, k)
<1>1. attempt' = [attempt EXCEPT ![b][k] = [Unused EXCEPT !.at = "request"]]
  BY DEF Open
<1>2. /\ [Unused EXCEPT !.at = "request"] \in Attempts
      /\ [Unused EXCEPT !.at = "request"].at = "request"
      /\ ~[Unused EXCEPT !.at = "request"].left
  BY CredentialKinds DEF Unused, Attempts
<1>3. session' = session
  BY DEF Open
<1> QED BY <1>1, <1>2, <1>3, OneAttempt

\* The service refuses the token: a refresh, or an authorization.
LEMMA RefusedDoes ==
  ASSUME TypeOK, NEW b \in Build, NEW k \in Slot, Refused(b, k)
  PROVE  /\ attempt' \in [Build -> [Slot -> Attempts]] /\ session' = session
         /\ attempt'[b][k].left = attempt[b][k].left
         /\ \/ attempt'[b][k].at = "authorize" /\ session[b].cred.gen = NoTokens
            \/ /\ attempt'[b][k].at = "refresh" /\ session[b].cred.gen # NoTokens
               /\ attempt'[b][k].gen = session[b].cred.gen
         /\ Others(b, k)
<1> DEFINE a == IF session[b].cred.gen = NoTokens THEN [attempt[b][k] EXCEPT !.at = "authorize"]
                ELSE [attempt[b][k] EXCEPT !.at = "refresh", !.gen = session[b].cred.gen]
<1>1. attempt' = [attempt EXCEPT ![b][k] = a]
  BY DEF Refused
<1>2. attempt[b][k] \in Attempts /\ session[b].cred.gen \in NoTokens..MaxRefresh
  BY DEF TypeOK, Sessions, Credentials
<1>3. session' = session
  BY DEF Refused
<1>4. CASE session[b].cred.gen = NoTokens
  <2>1. a \in Attempts /\ a.at = "authorize" /\ a.left = attempt[b][k].left
    BY <1>2, <1>4 DEF Attempts
  <2> HIDE DEF a
  <2> QED BY <1>1, <1>3, <1>4, <2>1, OneAttempt
<1>5. CASE session[b].cred.gen # NoTokens
  <2>1. session[b].cred.gen \in 0..MaxRefresh
    BY <1>2, <1>5 DEF NoTokens
  <2>2. /\ a \in Attempts /\ a.at = "refresh" /\ a.left = attempt[b][k].left
        /\ a.gen = session[b].cred.gen
    BY <1>2, <1>5, <2>1 DEF Attempts
  <2> HIDE DEF a
  <2> QED BY <1>1, <1>3, <1>5, <2>2, OneAttempt
<1> QED BY <1>4, <1>5

\* The answer to a refresh is in the session, and about to be written.
LEMMA RefreshedDoes ==
  ASSUME TypeOK, OfSession, NEW b \in Build, NEW k \in Slot, Refreshed(b, k)
  PROVE  LET g == session[b].cred.grant
             newest == attempt[b][k].gen = valid[g]
             n == IF newest THEN valid[g] + 1 ELSE NoTokens
             cred == [session[b].cred EXCEPT !.gen = n]
         IN  /\ attempt' \in [Build -> [Slot -> Attempts]] /\ session' \in [Build -> Sessions]
             /\ g \in 1..MaxGrants /\ n \in NoTokens..MaxRefresh
             /\ valid' = IF newest THEN [valid EXCEPT ![g] = valid[g] + 1] ELSE valid
             /\ session' = [session EXCEPT ![b] = [session[b] EXCEPT !.cred = cred]]
             /\ session'[b].cred = cred /\ session'[b].at = session[b].at
             /\ session'[b].id = session[b].id
             /\ cred.grant = g /\ cred.oauth = session[b].cred.oauth /\ cred.gen = n
             /\ attempt'[b][k].at = "save" /\ attempt'[b][k].save = cred
             /\ attempt'[b][k].left = attempt[b][k].left
             /\ attempt'[b][k].next = IF newest THEN "request" ELSE "authorize"
             /\ Others(b, k)
<1> DEFINE g == session[b].cred.grant
           newest == attempt[b][k].gen = valid[g]
           n == IF newest THEN valid[g] + 1 ELSE NoTokens
           cred == [session[b].cred EXCEPT !.gen = n]
           next == IF newest THEN "request" ELSE "authorize"
           a == [at |-> "save", gen |-> 0, save |-> cred, left |-> attempt[b][k].left,
                 next |-> next]
<1>1. g \in 1..MaxGrants
  BY DEF TypeOK, Sessions, Credentials, OfSession, Refreshed
<1>2. valid[g] \in NoTokens..MaxRefresh /\ (newest => valid[g] < MaxRefresh)
  BY <1>1 DEF TypeOK, Refreshed
<1>3. n \in NoTokens..MaxRefresh
  BY <1>2, ConstantsAssumption DEF NoTokens
<1>4. session[b] \in Sessions /\ session[b].cred \in Credentials /\ attempt[b][k] \in Attempts
  BY DEF TypeOK, Sessions
<1>5. /\ cred \in Credentials
      /\ cred.grant = g /\ cred.oauth = session[b].cred.oauth /\ cred.gen = n
  BY <1>3, <1>4 DEF Credentials
<1>6. /\ session' = [session EXCEPT ![b] = [session[b] EXCEPT !.cred = cred]]
      /\ attempt' = [attempt EXCEPT ![b][k] = a]
      /\ valid' = IF newest THEN [valid EXCEPT ![g] = valid[g] + 1] ELSE valid
  BY DEF Refreshed
<1>7. attempt[b][k].left \in BOOLEAN
  BY <1>4 DEF Attempts
<1>8. next \in {"none", "request", "authorize", "fail"}
  OBVIOUS
<1>9. a \in Attempts
  <2> HIDE DEF cred, next
  <2> QED BY <1>5, <1>7, <1>8, ConstantsAssumption DEF Attempts
<1> HIDE DEF cred, n, g, newest, next
<1>10. LET s == [session[b] EXCEPT !.cred = cred]
       IN  s \in Sessions /\ s.cred = cred /\ s.at = session[b].at /\ s.id = session[b].id
  BY <1>4, <1>5 DEF Sessions
<1>11. /\ session' \in [Build -> Sessions]
       /\ session'[b].cred = cred /\ session'[b].at = session[b].at
       /\ session'[b].id = session[b].id
  BY <1>6, <1>10 DEF TypeOK
<1>12. /\ attempt'[b][k] = a /\ Others(b, k) /\ attempt' \in [Build -> [Slot -> Attempts]]
  <2> HIDE DEF a
  <2> QED BY <1>6, <1>9, OneAttempt
<1>13. /\ attempt'[b][k].at = "save" /\ attempt'[b][k].save = cred
       /\ attempt'[b][k].left = attempt[b][k].left /\ attempt'[b][k].next = next
  BY <1>12
<1> HIDE DEF a
<1> QED BY <1>1, <1>3, <1>5, <1>6, <1>11, <1>12, <1>13 DEF cred, n, g, newest, next

\* Whose session it is does not change.
LEMMA RefreshedKeeps ==
  ASSUME TypeOK, OfSession, NEW b \in Build, NEW k \in Slot, Refreshed(b, k)
  PROVE  /\ session'[b].at = session[b].at /\ session'[b].id = session[b].id
         /\ session'[b].cred.grant = session[b].cred.grant
         /\ session[b].cred.grant \in 1..MaxGrants
         /\ \A c \in Build \ {b} : session'[c] = session[c]
         /\ attempt'[b][k].at = "save" /\ attempt'[b][k].save = session'[b].cred
<1> DEFINE n == IF attempt[b][k].gen = valid[session[b].cred.grant]
                THEN valid[session[b].cred.grant] + 1 ELSE NoTokens
           cred == [session[b].cred EXCEPT !.gen = n]
<1>1. /\ session[b].cred.grant \in 1..MaxGrants
      /\ session' = [session EXCEPT ![b] = [session[b] EXCEPT !.cred = cred]]
      /\ session'[b].cred = cred /\ session'[b].at = session[b].at
      /\ session'[b].id = session[b].id
      /\ cred.grant = session[b].cred.grant
      /\ attempt'[b][k].at = "save" /\ attempt'[b][k].save = cred
  BY RefreshedDoes
<1> HIDE DEF n, cred
<1> QED BY <1>1 DEF TypeOK

\* The verifier of an authorization is about to be written with the session.
LEMMA AuthorizeDoes ==
  ASSUME TypeOK, NEW b \in Build, NEW k \in Slot, Authorize(b, k)
  PROVE  /\ attempt' \in [Build -> [Slot -> Attempts]] /\ session' = session
         /\ attempt'[b][k].at = "save" /\ attempt'[b][k].save = session[b].cred
         /\ attempt'[b][k].next = "fail" /\ attempt'[b][k].left = attempt[b][k].left
         /\ Others(b, k)
<1> DEFINE a == [attempt[b][k] EXCEPT !.at = "save", !.save = session[b].cred, !.next = "fail"]
<1>1. attempt' = [attempt EXCEPT ![b][k] = a] /\ session' = session
  BY DEF Authorize
<1>2. attempt[b][k] \in Attempts /\ session[b].cred \in Credentials
  BY DEF TypeOK, Sessions
<1>3. /\ a \in Attempts /\ a.at = "save" /\ a.save = session[b].cred /\ a.next = "fail"
      /\ a.left = attempt[b][k].left
  BY <1>2 DEF Attempts
<1> HIDE DEF a
<1> QED BY <1>1, <1>3, OneAttempt

\* After its write a connection is asked for again, or authorizes.
LEMMA GoesOnDoes ==
  ASSUME TypeOK, NEW b \in Build, NEW k \in Slot, Persist(b, k), ~EndAttempt(b, k)
  PROVE  /\ attempt' \in [Build -> [Slot -> Attempts]] /\ session' = session
         /\ attempt[b][k].next \in {"none", "request", "authorize"}
         /\ attempt'[b][k].at = attempt[b][k].next
         /\ attempt'[b][k].left = attempt[b][k].left
         /\ attempt[b][k].next = "request" => ~attempt[b][k].left
         /\ Others(b, k)
<1> DEFINE a == [at |-> attempt[b][k].next, gen |-> 0, save |-> NoCred,
                 left |-> attempt[b][k].left, next |-> "none"]
<1>1. /\ attempt' = [attempt EXCEPT ![b][k] = a] /\ session' = session
      /\ attempt[b][k].next # "fail"
      /\ attempt[b][k].next = "request" => ~attempt[b][k].left
  BY DEF Persist, Saved
<1>2. /\ attempt[b][k].next \in {"none", "request", "authorize", "fail"}
      /\ attempt[b][k].left \in BOOLEAN
  BY DEF TypeOK, Attempts
<1>3. a \in Attempts
  BY <1>1, <1>2, CredentialKinds, ConstantsAssumption DEF Attempts
<1>4. a.at = attempt[b][k].next /\ a.left = attempt[b][k].left
  OBVIOUS
<1> HIDE DEF a
<1> QED BY <1>1, <1>2, <1>3, <1>4, OneAttempt

\* A connection is given up and does what it was doing.
LEMMA TimesOutDoes ==
  ASSUME TypeOK, NEW b \in Build, NEW k \in Slot, ConnectTimesOut(b, k)
  PROVE  /\ attempt' \in [Build -> [Slot -> Attempts]] /\ session' = session
         /\ attempt'[b][k].at = attempt[b][k].at /\ attempt'[b][k].gen = attempt[b][k].gen
         /\ attempt'[b][k].save = attempt[b][k].save
         /\ attempt'[b][k].next = attempt[b][k].next
         /\ attempt'[b][k].left
         /\ attempt[b][k].at \in {"refresh", "save", "authorize"}
         /\ Others(b, k)
<1> DEFINE a == [attempt[b][k] EXCEPT !.left = TRUE]
<1>1. /\ attempt' = [attempt EXCEPT ![b][k] = a] /\ session' = session
      /\ attempt[b][k].at # "none" /\ attempt[b][k].at # "request"
  BY DEF ConnectTimesOut, Current
<1>2. attempt[b][k] \in Attempts
  BY DEF TypeOK
<1>3. attempt[b][k].at \in {"refresh", "save", "authorize"}
  BY <1>1, <1>2 DEF Attempts
<1>4. /\ a \in Attempts /\ a.at = attempt[b][k].at /\ a.gen = attempt[b][k].gen
      /\ a.save = attempt[b][k].save /\ a.next = attempt[b][k].next /\ a.left
  BY <1>2 DEF Attempts
<1> HIDE DEF a
<1> QED BY <1>1, <1>3, <1>4, OneAttempt

\* A build reads the row, or is over.
LEMMA LoadDoes ==
  ASSUME TypeOK, NEW b \in Build, Load(b)
  PROVE  /\ session' \in [Build -> Sessions]
         /\ session' = [session EXCEPT ![b] = [at |-> "ready", id |-> row.id, cred |-> row.cred]]
         /\ row.id # Gone
         /\ UNCHANGED <<row, rows, txn, issued, valid, request, attempt, call, redeemed,
                        owner, spoiled>>
<1>1. [at |-> "ready", id |-> row.id, cred |-> row.cred] \in Sessions
  BY DEF TypeOK, Rows, Sessions
<1> QED BY <1>1 DEF Load, TypeOK, tables, service, observed

\* A build that ends keeps its session until its last connection has ended.
LEMMA EndBuildDoes ==
  ASSUME TypeOK, NEW b \in Build, EndBuild(b)
  PROVE  /\ session' \in [Build -> Sessions]
         /\ session[b].at = "ready" /\ call[b].at \in {"idle", "late"}
         /\ call' = [call EXCEPT ![b] = NoCall]
         /\ \/ /\ session' = [session EXCEPT ![b] = [session[b] EXCEPT !.at = "over"]]
               /\ session'[b].at = "over" /\ session'[b].id = session[b].id
               /\ session'[b].cred = session[b].cred
            \/ /\ session' = [session EXCEPT ![b] = NoSession]
               /\ \A k \in Slot : attempt[b][k].at = "none"
         /\ UNCHANGED <<row, rows, txn, issued, valid, request, attempt, redeemed, owner,
                        spoiled>>
<1>1. /\ [session[b] EXCEPT !.at = "over"] \in Sessions
      /\ [session[b] EXCEPT !.at = "over"].at = "over"
      /\ [session[b] EXCEPT !.at = "over"].id = session[b].id
      /\ [session[b] EXCEPT !.at = "over"].cred = session[b].cred
  BY DEF TypeOK, Sessions
<1>2. CASE Busy(b)
  <2>1. session' = [session EXCEPT ![b] = [session[b] EXCEPT !.at = "over"]]
    BY <1>2 DEF EndBuild
  <2>2. session' \in [Build -> Sessions] /\ session'[b] = [session[b] EXCEPT !.at = "over"]
    BY <1>1, <2>1 DEF TypeOK
  <2>3. /\ session[b].at = "ready" /\ call[b].at \in {"idle", "late"}
        /\ call' = [call EXCEPT ![b] = NoCall]
        /\ UNCHANGED <<row, rows, txn, issued, valid, request, attempt, redeemed, owner, spoiled>>
    BY DEF EndBuild, tables, service, observed
  <2> QED BY <1>1, <2>1, <2>2, <2>3
<1>3. CASE ~Busy(b)
  <2>1. session' = [session EXCEPT ![b] = NoSession]
    BY <1>3 DEF EndBuild
  <2>2. \A k \in Slot : attempt[b][k].at = "none"
    BY <1>3 DEF Busy
  <2>3. session' \in [Build -> Sessions]
    BY <2>1, CredentialKinds DEF TypeOK
  <2> QED BY <2>1, <2>2, <2>3 DEF EndBuild, tables, service, observed
<1> QED BY <1>2, <1>3

\* Nothing is left of the builds after a restart.
LEMMA RestartDoes ==
  ASSUME Restart
  PROVE  /\ session' \in [Build -> Sessions] /\ attempt' \in [Build -> [Slot -> Attempts]]
         /\ \A b \in Build : session'[b] = NoSession /\ call'[b] = NoCall
         /\ \A b \in Build, k \in Slot : attempt'[b][k] = Unused
         /\ \A r \in Request : request'[r] = Free
         /\ UNCHANGED <<row, rows, txn, issued, valid, redeemed, owner>>
  BY CredentialKinds DEF Restart, tables, service

\* Every value keeps its type.
LEMMA TypePreserved ==
  ASSUME TypeOK, TripsOK, SentOnce, OneCurrent, OfSession, Owned, [Next]_vars
  PROVE  TypeOK'
<1> DEFINE Typed == session' \in [Build -> Sessions] /\ attempt' \in [Build -> [Slot -> Attempts]]
<1>1. ASSUME UNCHANGED <<session, attempt>> PROVE Typed
  BY <1>1 DEF TypeOK
<1>2. ASSUME NEW b \in Build, Agent(b) PROVE Typed
  <2>1. ASSUME NEW k \in Slot, Drop(b, k) PROVE Typed
    BY <2>1, DropDoes
  <2>2. ASSUME NEW k \in Slot, Connection(b, k) PROVE Typed
    <3>1. CASE Drop(b, k)
      BY <2>1, <3>1
    <3>2. CASE Open(b, k) \/ Refused(b, k) \/ Authorize(b, k) \/ ConnectTimesOut(b, k)
      BY <3>2, OpenDoes, RefusedDoes, AuthorizeDoes, TimesOutDoes DEF TypeOK
    <3>3. CASE Refreshed(b, k)
      BY <3>3, RefreshedDoes
    <3>4. CASE Persist(b, k) /\ ~Drop(b, k)
      BY <3>4, GoesOnDoes DEF EndAttempt, TypeOK
    <3> QED BY <2>2, <3>1, <3>2, <3>3, <3>4, Ends DEF Connection, Accepted, EndAttempt
  <2>3. CASE Load(b) \/ EndBuild(b)
    BY <2>3, LoadDoes, EndBuildDoes DEF TypeOK
  <2> QED BY <1>1, <1>2, <2>2, <2>3 DEF Agent, StartCall, Run, Returned, CallFails
<1>3. Typed
  BY <1>1, <1>2, RestartDoes, Elsewhere DEF Next, vars, builds
<1>4. GrantsTyped' /\ TripsOK'
  BY GrantsTypedPreserved, TripsPreserved
<1> QED BY <1>3, <1>4, RowTyped, RequestsTyped, CallsTyped DEF TypeOK, GrantsTyped, TripsOK

-----------------------------------------------------------------------------
(* Who waits for a connection, and whose it is.                            *)

\* A call waits for one connection, until it gives it up or it ends.
LEMMA OneCurrentPreserved ==
  ASSUME TypeOK, SentOnce, OneCurrent, OfSession, [Next]_vars
  PROVE  OneCurrent'
<1> USE DEF OneCurrent, Current
<1>1. ASSUME NEW b \in Build, NEW k \in Slot, EndAttempt(b, k) PROVE OneCurrent'
  <2>1. attempt'[b][k] = Unused /\ Others(b, k)
    BY <1>1, DropDoes DEF EndAttempt
  <2>2. Unused.at = "none" /\ ~Unused.left
    BY DEF Unused
  <2>3. CASE Current(b, k)
    <3>1. call' = [call EXCEPT ![b] = NextTransport(call[b])]
      BY <1>1, <2>3 DEF EndAttempt
    <3>2. \A j \in Slot : ~Current(b, j)'
      BY <2>1, <2>2, <2>3 DEF Others
    <3>3. \A c \in Build \ {b} : call'[c] = call[c]
      BY <3>1 DEF TypeOK
    <3> QED BY <2>1, <2>2, <3>2, <3>3 DEF Others
  <2>4. CASE ~Current(b, k)
    <3>1. call' = call
      BY <1>1, <2>4 DEF EndAttempt
    <3> QED BY <2>1, <2>2, <3>1 DEF Others
  <2> QED BY <2>3, <2>4
<1>2. ASSUME NEW b \in Build, NEW k \in Slot, Accepted(b, k) PROVE OneCurrent'
  <2>1. attempt'[b][k] = Unused /\ Others(b, k)
    BY <1>2, DropDoes DEF Accepted
  <2>2. Unused.at = "none" /\ ~Unused.left
    BY DEF Unused
  <2>3. Current(b, k)
    BY <1>2, AcceptedIsCurrent
  <2>4. \A j \in Slot : ~Current(b, j)'
    BY <2>1, <2>2, <2>3 DEF Others
  <2>5. \A c \in Build \ {b} : call'[c] = call[c]
    BY <1>2 DEF Accepted, TypeOK
  <2> QED BY <2>1, <2>2, <2>4, <2>5 DEF Others
<1>3. ASSUME NEW b \in Build, NEW k \in Slot, Open(b, k) PROVE OneCurrent'
  <2>1. attempt'[b][k].at = "request" /\ ~attempt'[b][k].left /\ Others(b, k)
    BY <1>3, OpenDoes
  <2>2. call[b].at = "connecting" /\ \A j \in Slot : ~Current(b, j)
    BY <1>3 DEF Open
  <2>3. \A c \in Build : call'[c].at = call[c].at
    <3>1. call' = [call EXCEPT ![b] = [call[b] EXCEPT !.tried = call[b].tried + 1]]
      BY <1>3 DEF Open
    <3> QED BY <3>1 DEF TypeOK, Calls
  <2> QED BY <2>1, <2>2, <2>3 DEF Others
<1>4. ASSUME NEW b \in Build, NEW k \in Slot,
             Refused(b, k) \/ Refreshed(b, k) \/ Authorize(b, k)
      PROVE  OneCurrent'
  <2>1. /\ Others(b, k) /\ attempt'[b][k].left = attempt[b][k].left
        /\ attempt'[b][k].at \in {"refresh", "save", "authorize"}
        /\ attempt'[b][k].at = "save" => attempt'[b][k].next # "none"
    <3>1. CASE Refused(b, k)
      BY <3>1, RefusedDoes
    <3>2. CASE Refreshed(b, k)
      BY <3>2, RefreshedDoes
    <3>3. CASE Authorize(b, k)
      BY <3>3, AuthorizeDoes
    <3> QED BY <1>4, <3>1, <3>2, <3>3
  <2>2. attempt[b][k].at # "none" /\ call' = call
    BY <1>4 DEF Refused, Refreshed, Authorize
  <2> QED BY <2>1, <2>2 DEF Others
<1>5. ASSUME NEW b \in Build, NEW k \in Slot, Persist(b, k), ~EndAttempt(b, k)
      PROVE  OneCurrent'
  <2>1. /\ attempt'[b][k].at = attempt[b][k].next /\ Others(b, k)
        /\ attempt[b][k].next \in {"none", "request", "authorize"}
        /\ attempt'[b][k].left = attempt[b][k].left
        /\ attempt[b][k].next = "request" => ~attempt[b][k].left
    BY <1>5, GoesOnDoes
  <2>2. call' = call /\ attempt[b][k].at = "save"
    BY <1>5, GoesOn DEF Persist
  <2> QED BY <2>1, <2>2 DEF Others
<1>6. ASSUME NEW b \in Build, NEW k \in Slot, ConnectTimesOut(b, k) PROVE OneCurrent'
  <2>1. /\ attempt'[b][k].at = attempt[b][k].at /\ attempt'[b][k].left /\ Others(b, k)
        /\ attempt'[b][k].next = attempt[b][k].next
        /\ attempt[b][k].at \in {"refresh", "save", "authorize"}
    BY <1>6, TimesOutDoes
  <2>2. \A c \in Build \ {b} : call'[c] = call[c]
    BY <1>6 DEF ConnectTimesOut, TypeOK
  <2>3. \A j \in Slot : ~Current(b, j)'
    BY <1>6, <2>1 DEF ConnectTimesOut, Others
  <2> QED BY <2>1, <2>2, <2>3 DEF Others
<1>7. ASSUME NEW b \in Build,
             StartCall(b) \/ EndBuild(b) \/ Run(b) \/ Returned(b) \/ CallFails(b)
      PROVE  OneCurrent'
  <2>1. attempt' = attempt /\ \A c \in Build \ {b} : call'[c] = call[c]
    BY <1>7 DEF StartCall, EndBuild, Run, Returned, CallFails, TypeOK
  <2>2. CASE call[b].at # "connecting"
    BY <2>1, <2>2
  <2>3. CASE call[b].at = "connecting"
    BY <1>7, <2>3 DEF StartCall, EndBuild, Run, Returned, CallFails, SentOnce
  <2> QED BY <2>2, <2>3
<1>8. CASE Restart
  <2>1. \A b \in Build, k \in Slot : attempt'[b][k].at = "none" /\ ~attempt'[b][k].left
    BY <1>8, RestartDoes DEF Unused
  <2> QED BY <2>1
<1>9. CASE UNCHANGED <<attempt, call>>
  BY <1>9
<1>10. ASSUME NEW b \in Build, Agent(b) PROVE OneCurrent'
  <2>1. ASSUME NEW k \in Slot, Connection(b, k) PROVE OneCurrent'
    BY <1>1, <1>2, <1>3, <1>4, <1>5, <1>6, <2>1, Ends DEF Connection
  <2> QED BY <1>7, <1>9, <1>10, <2>1 DEF Agent, Load
<1> QED
  BY <1>8, <1>9, <1>10, Elsewhere DEF Next, vars, builds

\* Grants are given out one after the other, and used from then on.
LEMMA Issuing ==
  ASSUME TypeOK, Held, OfSession, [Next]_vars
  PROVE  /\ issued <= issued'
         /\ \A g \in 1..MaxGrants : valid'[g] # NoTokens <=> g <= issued'
<1> DEFINE Goal == /\ issued <= issued'
                   /\ \A g \in 1..MaxGrants : valid'[g] # NoTokens <=> g <= issued'
<1>1. issued \in 0..MaxGrants /\ valid \in [1..MaxGrants -> NoTokens..MaxRefresh]
  BY DEF TypeOK
<1>2. ASSUME NEW r \in Request, NEW oauth \in BOOLEAN, NewGrant(r, oauth) PROVE Goal
  BY <1>1, <1>2, ConstantsAssumption DEF NewGrant, Held, NoTokens
<1>3. ASSUME NEW b \in Build, NEW k \in Slot, Refreshed(b, k) \/ RefreshLost(b, k) PROVE Goal
  <2> DEFINE g == session[b].cred.grant
  <2>1. \/ valid' = valid
        \/ valid' = [valid EXCEPT ![g] = valid[g] + 1]
    BY <1>3 DEF Refreshed, RefreshLost
  <2>2. issued' = issued
    BY <1>3 DEF Refreshed, RefreshLost
  <2>3. g \in 1..MaxGrants /\ g <= issued
    BY <1>3 DEF OfSession, Refreshed, RefreshLost, TypeOK, Sessions, Credentials, Held, Holds
  <2>4. valid[g] \in 0..MaxRefresh
    BY <1>1, <2>3 DEF Held, NoTokens
  <2> HIDE DEF g
  <2>5. valid[g] + 1 # NoTokens /\ valid[g] # NoTokens
    BY <2>4 DEF NoTokens
  <2>6. ASSUME NEW h \in 1..MaxGrants PROVE valid'[h] # NoTokens <=> valid[h] # NoTokens
    <3>1. CASE h = g
      BY <1>1, <2>1, <2>5, <3>1
    <3>2. CASE h # g
      BY <1>1, <2>1, <3>2
    <3> QED BY <3>1, <3>2
  <2> QED BY <1>1, <2>2, <2>6 DEF Held
<1>4. ASSUME UNCHANGED <<issued, valid>> PROVE Goal
  BY <1>1, <1>4 DEF Held
<1>5. ASSUME NEW r \in Request, Handler(r) PROVE Goal
  BY <1>2, <1>4, <1>5 DEF Handler, Exchange, ConnectKey, RequestFails, Save, service
<1>6. ASSUME NEW b \in Build, Agent(b) PROVE Goal
  <2>1. ASSUME NEW k \in Slot, Connection(b, k) PROVE Goal
    BY <1>3, <1>4, <2>1
       DEF Connection, Open, Accepted, Fails, Refused, Authorize, Persist, PersistFails,
           ConnectTimesOut, service
  <2> QED BY <1>4, <1>6, <2>1
          DEF Agent, Load, EndBuild, StartCall, Run, Returned, CallFails, service
<1>7. CASE Restart \/ Disconnect \/ UNCHANGED vars \/ \E t \in Txn : RoundTrip(t)
  BY <1>4, <1>7, Elsewhere DEF Restart, Disconnect, vars, service
<1> QED BY <1>5, <1>6, <1>7 DEF Next

\* A step stores one request's credential in the row, or what one connection
\* writes to the row its session read, or deletes the row.
LEMMA RowSteps ==
  ASSUME [Next]_vars
  PROVE  \/ row' = row
         \/ row' = NoRow
         \/ \E r \in Request : Save(r)
         \/ \E b \in Build, k \in Slot :
              /\ Persist(b, k) /\ row.id = session[b].id
              /\ row' = [row EXCEPT !.cred = attempt[b][k].save]
<1> DEFINE Goal == \/ row' = row
                   \/ row' = NoRow
                   \/ \E r \in Request : Save(r)
                   \/ \E b \in Build, k \in Slot :
                        /\ Persist(b, k) /\ row.id = session[b].id
                        /\ row' = [row EXCEPT !.cred = attempt[b][k].save]
<1>1. ASSUME NEW r \in Request, Handler(r) PROVE Goal
  BY <1>1 DEF Handler, Exchange, RequestFails, ConnectKey, tables
<1>2. ASSUME NEW b \in Build, Agent(b) PROVE Goal
  <2>1. ASSUME NEW k \in Slot, Persist(b, k) PROVE Goal
    BY <2>1 DEF Persist
  <2>2. ASSUME NEW k \in Slot, Connection(b, k) PROVE Goal
    BY <2>1, <2>2
       DEF Connection, Open, Accepted, Fails, Refused, Refreshed, RefreshLost, Authorize,
           PersistFails, ConnectTimesOut, tables
  <2> QED BY <1>2, <2>2
          DEF Agent, Load, EndBuild, StartCall, Run, Returned, CallFails, tables
<1>3. CASE Disconnect \/ Restart \/ UNCHANGED vars \/ \E t \in Txn : RoundTrip(t)
  BY <1>3, Elsewhere DEF Disconnect, Restart, vars, tables
<1> QED BY <1>1, <1>2, <1>3 DEF Next

\* A step gives one request a new grant, or something without a grant.
RequestStep(r) ==
  \/ request'[r] = request[r]
  \/ request'[r].cred = NoCred
  \/ request'[r] = [at |-> "save", cred |-> [grant |-> 0, oauth |-> TRUE, gen |-> NoTokens]]
  \/ /\ \E oauth \in BOOLEAN : NewGrant(r, oauth)
     /\ UNCHANGED <<row, session, attempt, owner, spoiled>>

\* Every step does one of these to every request.
LEMMA RequestSteps ==
  ASSUME TypeOK, [Next]_vars, NEW r \in Request
  PROVE  RequestStep(r)
<1> USE DEF RequestStep
<1>1. ASSUME NEW t \in Txn, NEW s \in Request, StartEnds(t, s) PROVE RequestStep(r)
  BY <1>1 DEF StartEnds, TypeOK
<1>2. ASSUME NEW t \in Txn, NEW s \in Request, Callback(t, s) PROVE RequestStep(r)
  <2>1. \/ request' = request
        \/ request' = [request EXCEPT ![s] = [at |-> "exchange", cred |-> NoCred]]
    BY <1>2 DEF Callback, Redeem
  <2> QED BY <2>1 DEF TypeOK
<1>3. ASSUME NEW s \in Request, Exchange(s) \/ ConnectKey(s) PROVE RequestStep(r)
  <2>1. CASE s = r
    BY <1>3, <2>1 DEF Exchange, ConnectKey, tables, builds, observed
  <2>2. CASE s # r
    BY <1>3, <2>2 DEF Exchange, ConnectKey, NewGrant, TypeOK
  <2> QED BY <2>1, <2>2
<1>4. ASSUME NEW s \in Request, RequestFails(s) \/ Save(s) PROVE RequestStep(r)
  <2>1. request' = [request EXCEPT ![s] = Free]
    BY <1>4 DEF RequestFails, Save
  <2> QED BY <2>1 DEF TypeOK, Free
<1>5. CASE Restart
  BY <1>5, RestartDoes DEF Free
<1>6. ASSUME UNCHANGED request PROVE RequestStep(r)
  BY <1>6
<1>7. ASSUME NEW t \in Txn, RoundTrip(t) PROVE RequestStep(r)
  BY <1>1, <1>2, <1>6, <1>7 DEF RoundTrip, StartOAuth, SaveState, Expire, Answer
<1> QED
  BY <1>3, <1>4, <1>5, <1>6, <1>7, ByBuilds DEF Next, Handler, Disconnect, vars

\* A build reads the row when it has nothing, and from then on its session keeps
\* its row and its grant until it is gone.
LEMMA SessionSteps ==
  ASSUME TypeOK, OfSession, [Next]_vars, NEW b \in Build
  PROVE  \/ session'[b] = session[b]
         \/ /\ session'[b] = NoSession /\ \A k \in Slot : attempt'[b][k].at = "none"
            /\ session[b].at # "ready" \/ call'[b] = NoCall
         \/ /\ session[b].at = "none" /\ row.id # Gone
            /\ session'[b] = [at |-> "ready", id |-> row.id, cred |-> row.cred]
            /\ UNCHANGED <<row, attempt, call, issued, valid, owner, spoiled>>
         \/ /\ session[b].at = "ready" /\ session'[b].at = "over" /\ call'[b] = NoCall
            /\ session'[b].id = session[b].id /\ session'[b].cred = session[b].cred
         \/ /\ \E k \in Slot : Refreshed(b, k)
            /\ session'[b].at = session[b].at /\ session'[b].id = session[b].id
            /\ session'[b].cred.grant = session[b].cred.grant /\ session[b].cred.grant # 0
<1> DEFINE Goal ==
         \/ session'[b] = session[b]
         \/ /\ session'[b] = NoSession /\ \A k \in Slot : attempt'[b][k].at = "none"
            /\ session[b].at # "ready" \/ call'[b] = NoCall
         \/ /\ session[b].at = "none" /\ row.id # Gone
            /\ session'[b] = [at |-> "ready", id |-> row.id, cred |-> row.cred]
            /\ UNCHANGED <<row, attempt, call, issued, valid, owner, spoiled>>
         \/ /\ session[b].at = "ready" /\ session'[b].at = "over" /\ call'[b] = NoCall
            /\ session'[b].id = session[b].id /\ session'[b].cred = session[b].cred
         \/ /\ \E k \in Slot : Refreshed(b, k)
            /\ session'[b].at = session[b].at /\ session'[b].id = session[b].id
            /\ session'[b].cred.grant = session[b].cred.grant /\ session[b].cred.grant # 0
<1>1. ASSUME NEW c \in Build, NEW k \in Slot, Drop(c, k) PROVE Goal
  BY <1>1, DropDoes DEF TypeOK
<1>2. ASSUME NEW c \in Build, NEW k \in Slot, Refreshed(c, k) PROVE Goal
  <2>1. CASE c = b
    <3>1. /\ session'[b].at = session[b].at /\ session'[b].id = session[b].id
          /\ session'[b].cred.grant = session[b].cred.grant /\ session[b].cred.grant # 0
      BY <1>2, <2>1, RefreshedKeeps
    <3> QED BY <1>2, <2>1, <3>1
  <2>2. CASE c # b
    BY <1>2, <2>2, RefreshedKeeps
  <2> QED BY <2>1, <2>2
<1>3. ASSUME NEW c \in Build, Load(c) PROVE Goal
  <2>1. CASE c # b
    BY <1>3, <2>1, LoadDoes DEF TypeOK
  <2>2. CASE c = b
    <3>1. session'[b] = [at |-> "ready", id |-> row.id, cred |-> row.cred]
      BY <1>3, <2>2, LoadDoes DEF TypeOK
    <3>2. session[b].at = "none"
      BY <1>3, <2>2 DEF Load
    <3> QED BY <1>3, <2>2, <3>1, <3>2, LoadDoes
  <2> QED BY <2>1, <2>2
<1>4. ASSUME NEW c \in Build, EndBuild(c) PROVE Goal
  <2>1. CASE c # b
    BY <1>4, <2>1, EndBuildDoes DEF TypeOK
  <2>2. CASE c = b
    <3>1. call'[b] = NoCall /\ session[b].at = "ready" /\ attempt' = attempt
      BY <1>4, <2>2, EndBuildDoes DEF TypeOK
    <3>2. \/ /\ session'[b].at = "over" /\ session'[b].id = session[b].id
             /\ session'[b].cred = session[b].cred
          \/ session'[b] = NoSession /\ \A k \in Slot : attempt[b][k].at = "none"
      BY <1>4, <2>2, EndBuildDoes DEF TypeOK
    <3> QED BY <3>1, <3>2
  <2> QED BY <2>1, <2>2
<1>5. CASE Restart
  BY <1>5, RestartDoes DEF Unused
<1>6. ASSUME UNCHANGED session PROVE Goal
  BY <1>6
<1>7. ASSUME NEW c \in Build, NEW k \in Slot, Connection(c, k) PROVE Goal
  BY <1>1, <1>2, <1>6, <1>7, Ends, GoesOn
     DEF Connection, Open, Accepted, Refused, Authorize, ConnectTimesOut, EndAttempt
<1>8. ASSUME NEW c \in Build, Agent(c) PROVE Goal
  BY <1>3, <1>4, <1>6, <1>7, <1>8 DEF Agent, StartCall, Run, Returned, CallFails
<1> QED BY <1>5, <1>6, <1>8, Elsewhere DEF Next, vars, builds

\* A step of a connection leaves the others as they are.
LEMMA OthersKept ==
  ASSUME TypeOK, OfSession, NEW b \in Build, NEW k \in Slot, Connection(b, k)
  PROVE  Others(b, k)
<1>1. CASE Drop(b, k)
  BY <1>1, DropDoes
<1>2. CASE Open(b, k) \/ Refused(b, k) \/ Authorize(b, k) \/ ConnectTimesOut(b, k)
  BY <1>2, OpenDoes, RefusedDoes, AuthorizeDoes, TimesOutDoes
<1>3. CASE Refreshed(b, k)
  BY <1>3, RefreshedDoes
<1>4. CASE Persist(b, k) /\ ~Drop(b, k)
  BY <1>4, GoesOnDoes DEF EndAttempt
<1> QED BY <1>1, <1>2, <1>3, <1>4, Ends DEF Connection, Accepted, EndAttempt

\* What a step may do to one connection.  One that was about to write is gone
\* after its write, or its grant is spoiled.
AttemptStep(b, k) ==
  \/ attempt'[b][k] = attempt[b][k]
  \/ /\ attempt'[b][k] = Unused
     /\ attempt[b][k].at = "save" =>
          Persist(b, k) \/ session[b].cred.grant \in spoiled' \cup {0}
  \/ Open(b, k) \/ Refused(b, k) \/ Authorize(b, k) \/ ConnectTimesOut(b, k)
  \/ Refreshed(b, k)
  \/ Persist(b, k) /\ ~EndAttempt(b, k)

\* Every step does one of these to every connection.
LEMMA AttemptSteps ==
  ASSUME TypeOK, OfSession, [Next]_vars, NEW b \in Build, NEW k \in Slot
  PROVE  AttemptStep(b, k)
<1>1. ASSUME NEW c \in Build, NEW j \in Slot, Connection(c, j) PROVE AttemptStep(b, k)
  <2>1. CASE c = b /\ j = k
    <3>1. ASSUME Drop(b, k), attempt[b][k].at # "save" PROVE AttemptStep(b, k)
      BY <3>1, DropDoes DEF AttemptStep
    <3>2. CASE Accepted(b, k) \/ Fails(b, k) \/ RefreshLost(b, k)
      BY <3>1, <3>2 DEF Accepted, Fails, RefreshLost, EndAttempt
    <3>3. CASE PersistFails(b, k)
      <4>1. session[b].cred.grant \in spoiled' \cup {0} /\ Drop(b, k)
        BY <3>3 DEF PersistFails, EndAttempt
      <4> QED BY <4>1, DropDoes DEF AttemptStep
    <3>4. CASE Persist(b, k)
      BY <3>4, DropDoes DEF AttemptStep, EndAttempt
    <3> QED BY <1>1, <2>1, <3>2, <3>3, <3>4 DEF Connection, AttemptStep
  <2>2. CASE c # b \/ j # k
    <3>1. attempt'[b][k] = attempt[b][k]
      BY <1>1, <2>2, OthersKept DEF Others
    <3> QED BY <3>1 DEF AttemptStep
  <2> QED BY <2>1, <2>2
<1>2. ASSUME UNCHANGED attempt PROVE AttemptStep(b, k)
  BY <1>2 DEF AttemptStep
<1>3. ASSUME NEW c \in Build, Agent(c) PROVE AttemptStep(b, k)
  BY <1>1, <1>2, <1>3 DEF Agent, Load, EndBuild, StartCall, Run, Returned, CallFails
<1>4. CASE Restart
  <2>1. attempt'[b][k] = Unused
    BY <1>4, RestartDoes
  <2>2. ASSUME attempt[b][k].at = "save" PROVE session[b].cred.grant \in spoiled' \cup {0}
    BY <1>4, <2>2 DEF Restart
  <2> QED BY <2>1, <2>2 DEF AttemptStep
<1> QED BY <1>2, <1>3, <1>4, Elsewhere DEF Next, vars, builds

\* What somebody holds was issued.
LEMMA HeldPreserved ==
  ASSUME TypeOK, TypeOK', Held, OfSession, [Next]_vars
  PROVE  Held'
<1> DEFINE Keeps(cred) ==
      cred.grant <= issued' /\ (cred.grant = 0 /\ cred.oauth => cred.gen = NoTokens)
<1>1. /\ issued <= issued' /\ issued \in Nat /\ issued' \in Nat
      /\ \A g \in 1..MaxGrants : valid'[g] # NoTokens <=> g <= issued'
  BY Issuing DEF TypeOK
<1>2. /\ row.cred.grant \in Nat
      /\ \A r \in Request : request[r].cred.grant \in Nat
      /\ \A b \in Build : session[b].cred.grant \in Nat
      /\ \A b \in Build, k \in Slot : attempt[b][k].save.grant \in Nat
  <2>1. row.cred \in Credentials /\ \A r \in Request : request[r].cred \in Credentials
    BY DEF TypeOK, Rows, Requests
  <2>2. ASSUME NEW b \in Build, NEW k \in Slot
        PROVE  session[b].cred \in Credentials /\ attempt[b][k].save \in Credentials
    BY DEF TypeOK, Sessions, Attempts
  <2>3. \A b \in Build : session[b].cred \in Credentials
    BY DEF TypeOK, Sessions
  <2>4. \A cred \in Credentials : cred.grant \in Nat
    BY DEF Credentials
  <2> QED BY <2>1, <2>2, <2>3, <2>4
<1>3. /\ Keeps(row.cred)
      /\ \A r \in Request : Keeps(request[r].cred)
      /\ \A b \in Build : Keeps(session[b].cred)
      /\ \A b \in Build, k \in Slot : attempt[b][k].at = "save" => Keeps(attempt[b][k].save)
  BY <1>1, <1>2 DEF Held, Holds, OfSession
<1>4. Keeps(NoCred)
  BY <1>1 DEF NoCred
<1>5. Keeps([grant |-> 0, oauth |-> TRUE, gen |-> NoTokens])
  BY <1>1
<1>6. Keeps(row'.cred)
  <2>1. CASE row' = NoRow
    BY <1>4, <2>1 DEF NoRow
  <2>2. ASSUME NEW r \in Request, Save(r) PROVE Keeps(row'.cred)
    <3>1. row'.cred = request[r].cred
      BY <2>2 DEF Save
    <3> QED BY <1>3, <3>1
  <2>3. ASSUME NEW b \in Build, NEW k \in Slot, Persist(b, k),
               row' = [row EXCEPT !.cred = attempt[b][k].save]
        PROVE  Keeps(row'.cred)
    <3>1. row'.cred = attempt[b][k].save /\ attempt[b][k].at = "save"
      BY <2>3 DEF Persist, TypeOK, Rows
    <3> QED BY <1>3, <3>1
  <2> HIDE DEF Keeps
  <2> QED BY <1>3, <2>1, <2>2, <2>3, RowSteps
<1>7. ASSUME NEW r \in Request PROVE Keeps(request'[r].cred)
  <2>1. ASSUME NEW oauth \in BOOLEAN, NewGrant(r, oauth) PROVE Keeps(request'[r].cred)
    <3>1. request'[r].cred = [grant |-> issued + 1, oauth |-> oauth, gen |-> 0]
      BY <2>1 DEF NewGrant, TypeOK
    <3>2. issued' = issued + 1
      BY <2>1 DEF NewGrant
    <3> QED BY <1>1, <3>1, <3>2
  <2>2. CASE request'[r] = [at |-> "save",
                            cred |-> [grant |-> 0, oauth |-> TRUE, gen |-> NoTokens]]
    <3>1. request'[r].cred = [grant |-> 0, oauth |-> TRUE, gen |-> NoTokens]
      BY <2>2
    <3> QED BY <1>5, <3>1
  <2>3. CASE request'[r].cred = NoCred
    BY <1>4, <2>3
  <2>4. CASE request'[r] = request[r]
    BY <1>3, <2>4
  <2> HIDE DEF Keeps
  <2> QED BY <2>1, <2>2, <2>3, <2>4, RequestSteps DEF RequestStep
<1>8. ASSUME NEW b \in Build PROVE Keeps(session'[b].cred)
  <2>1. CASE session'[b] = NoSession
    BY <1>4, <2>1 DEF NoSession
  <2>2. CASE session'[b].cred.grant = session[b].cred.grant /\ session[b].cred.grant # 0
    BY <1>3, <2>2
  <2> HIDE DEF Keeps
  <2> QED BY <1>3, <2>1, <2>2, SessionSteps
<1> QED BY <1>1, <1>6, <1>7, <1>8 DEF Held, Holds

\* Calls and connections stay with their session.
LEMMA OfSessionPreserved ==
  ASSUME TypeOK, TypeOK', SentOnce, OneCurrent, Held, Held', OfSession, [Next]_vars
  PROVE  OfSession'
<1>1. ASSUME NEW b \in Build PROVE session'[b].at = "none" => session'[b] = NoSession
  <2>1. NoSession.at = "none" /\ NoSession.cred.grant = 0
    BY DEF NoSession, NoCred
  <2> QED BY <2>1, SessionSteps DEF OfSession
<1>2. ASSUME NEW b \in Build PROVE call'[b].at # "idle" => session'[b].at = "ready"
  <2>1. NoCall.at = "idle" /\ NoSession.at = "none"
    BY DEF NoCall, NoSession
  <2>2. ASSUME NEW c, CallStep(b, c), c.at # "idle" PROVE session[b].at = "ready"
    BY <2>1, <2>2 DEF CallStep, OfSession, SentOnce, TypeOK, Calls
  <2>3. call'[b].at # "idle" => session[b].at = "ready"
    <3>1. CASE call' = [c \in Build |-> NoCall]
      BY <2>1, <3>1
    <3>2. CASE UNCHANGED call
      BY <3>2 DEF OfSession
    <3>3. ASSUME NEW d \in Build, NEW c, CallStep(d, c), call' = [call EXCEPT ![d] = c]
          PROVE  call'[b].at # "idle" => session[b].at = "ready"
      <4>1. CASE d = b
        BY <2>2, <3>3, <4>1 DEF TypeOK
      <4>2. CASE d # b
        BY <3>3, <4>2 DEF TypeOK, OfSession
      <4> QED BY <4>1, <4>2
    <3> QED BY <3>1, <3>2, <3>3, CallSteps DEF CallsStep
  <2>4. session[b].at = "ready" => session'[b].at = "ready" \/ call'[b] = NoCall
    BY SessionSteps
  <2> QED BY <2>1, <2>3, <2>4
<1>3. ASSUME NEW b \in Build, NEW k \in Slot
      PROVE  /\ attempt'[b][k].at # "none" => session'[b].at # "none"
             /\ attempt'[b][k].at = "refresh" => session'[b].cred.grant # 0
             /\ attempt'[b][k].at = "save" =>
                  /\ attempt'[b][k].save.grant = session'[b].cred.grant
                  /\ Holds(attempt[b][k].save)'
  <2>1. CASE attempt'[b][k] = attempt[b][k] /\ attempt[b][k].at # "none"
    <3>1. session[b].at # "none" /\ session'[b].at # "none"
      BY <2>1, SessionSteps DEF OfSession
    <3>2. session'[b].cred.grant = session[b].cred.grant
      BY <2>1, <3>1, SessionSteps
    <3>3. issued <= issued' /\ issued \in Nat /\ issued' \in Nat
      BY Issuing DEF TypeOK
    <3>4. attempt[b][k].save.grant \in Nat
      BY DEF TypeOK, Attempts, Credentials
    <3> QED BY <2>1, <3>1, <3>2, <3>3, <3>4 DEF OfSession, Holds
  <2>2. CASE attempt'[b][k].at = "none"
    BY <2>2
  <2>3. CASE Open(b, k)
    <3>1. session' = session /\ attempt'[b][k].at = "request"
      BY <2>3, OpenDoes
    <3>2. session[b].at = "ready"
      BY <2>3 DEF Open, OfSession
    <3> QED BY <3>1, <3>2
  <2>4. CASE Refused(b, k)
    <3>1. /\ session' = session /\ session[b].at # "none"
          /\ session[b].cred.oauth
      BY <2>4, RefusedDoes DEF OfSession, Refused
    <3>2. \/ attempt'[b][k].at = "authorize"
          \/ attempt'[b][k].at = "refresh" /\ session[b].cred.gen # NoTokens
      BY <2>4, RefusedDoes
    <3>3. session[b].cred.grant = 0 => session[b].cred.gen = NoTokens
      BY <3>1 DEF Held, Holds
    <3> QED BY <3>1, <3>2, <3>3
  <2>5. CASE Authorize(b, k)
    <3>1. /\ session' = session /\ session[b].at # "none"
          /\ attempt'[b][k].at = "save" /\ attempt'[b][k].save = session[b].cred
      BY <2>5, AuthorizeDoes DEF OfSession, Authorize
    <3>2. Holds(session[b].cred)'
      BY DEF Held
    <3> QED BY <3>1, <3>2 DEF Holds
  <2>6. CASE ConnectTimesOut(b, k)
    <3>1. /\ session' = session /\ attempt'[b][k].at = attempt[b][k].at
          /\ attempt'[b][k].save = attempt[b][k].save /\ attempt[b][k].at # "none"
      BY <2>6, TimesOutDoes
    <3>2. issued' = issued
      BY <2>6 DEF ConnectTimesOut, service
    <3> QED BY <3>1, <3>2 DEF OfSession, Holds
  <2>7. CASE Refreshed(b, k)
    <3>1. session'[b].at # "none" /\ session'[b].cred.grant # 0
      BY <2>7, RefreshedKeeps DEF OfSession, Refreshed
    <3>2. attempt'[b][k].at = "save" /\ attempt'[b][k].save = session'[b].cred
      BY <2>7, RefreshedKeeps
    <3>3. Holds(session[b].cred)'
      BY DEF Held
    <3> QED BY <3>1, <3>2, <3>3 DEF Holds
  <2>8. CASE Persist(b, k) /\ ~EndAttempt(b, k)
    <3>1. /\ session' = session /\ session[b].at # "none"
          /\ attempt'[b][k].at \in {"none", "request", "authorize"}
      BY <2>8, GoesOnDoes DEF OfSession, Persist
    <3> QED BY <3>1
  <2>9. Unused.at = "none"
    BY DEF Unused
  <2> QED BY <2>1, <2>2, <2>3, <2>4, <2>5, <2>6, <2>7, <2>8, <2>9, AttemptSteps
     DEF AttemptStep
<1> QED BY <1>1, <1>2, <1>3 DEF OfSession

-----------------------------------------------------------------------------
(* Grants and tokens.                                                      *)

\* What a step may do to the tokens of one grant.
TokenStep(g) ==
  \/ valid'[g] = valid[g]
  \/ g > issued /\ valid'[g] = 0
  \/ /\ valid'[g] = valid[g] + 1 /\ g <= issued
     /\ \E b \in Build, k \in Slot :
          /\ attempt[b][k].at = "refresh" /\ session[b].cred.grant = g
          /\ Refreshed(b, k) \/ g \in spoiled'

\* Every step does one of these to every grant.
LEMMA TokenSteps ==
  ASSUME TypeOK, Held, OfSession, [Next]_vars, NEW g \in 1..MaxGrants
  PROVE  TokenStep(g)
<1>1. issued \in 0..MaxGrants /\ valid \in [1..MaxGrants -> NoTokens..MaxRefresh]
  BY DEF TypeOK
<1>2. ASSUME NEW r \in Request, NEW oauth \in BOOLEAN, NewGrant(r, oauth) PROVE TokenStep(g)
  <2>1. valid' = [valid EXCEPT ![issued + 1] = 0]
    BY <1>2 DEF NewGrant
  <2>2. CASE g = issued + 1
    BY <1>1, <2>1, <2>2 DEF TokenStep
  <2>3. CASE g # issued + 1
    BY <1>1, <2>1, <2>3 DEF TokenStep
  <2> QED BY <2>2, <2>3
<1>3. ASSUME NEW b \in Build, NEW k \in Slot, Refreshed(b, k) \/ RefreshLost(b, k)
      PROVE  TokenStep(g)
  <2> DEFINE h == session[b].cred.grant
  <2>1. \/ valid' = valid
        \/ valid' = [valid EXCEPT ![h] = valid[h] + 1] /\ (Refreshed(b, k) \/ h \in spoiled')
    BY <1>3 DEF Refreshed, RefreshLost
  <2>2. h <= issued /\ attempt[b][k].at = "refresh"
    BY <1>3 DEF Refreshed, RefreshLost, Held, Holds
  <2>3. CASE valid' = valid \/ g # h
    BY <1>1, <2>1, <2>3 DEF TokenStep
  <2>4. CASE g = h /\ valid' = [valid EXCEPT ![h] = valid[h] + 1]
    <3>1. valid'[g] = valid[g] + 1
      BY <1>1, <2>4
    <3>2. Refreshed(b, k) \/ g \in spoiled'
      <4>1. CASE valid' = valid
        BY <1>1, <3>1, <4>1 DEF NoTokens
      <4> QED BY <2>1, <2>4, <4>1
    <3> QED BY <2>2, <2>4, <3>1, <3>2 DEF TokenStep
  <2> QED BY <2>1, <2>3, <2>4
<1>4. ASSUME UNCHANGED valid PROVE TokenStep(g)
  BY <1>4 DEF TokenStep
<1>5. ASSUME NEW r \in Request, Handler(r) PROVE TokenStep(g)
  BY <1>2, <1>4, <1>5 DEF Handler, Exchange, RequestFails, Save, ConnectKey, service
<1>6. ASSUME NEW b \in Build, Agent(b) PROVE TokenStep(g)
  <2>1. ASSUME NEW k \in Slot, Connection(b, k) PROVE TokenStep(g)
    BY <1>3, <1>4, <2>1
       DEF Connection, Open, Accepted, Fails, Refused, Authorize, Persist, PersistFails,
           ConnectTimesOut, service
  <2> QED BY <1>4, <1>6, <2>1
          DEF Agent, Load, EndBuild, StartCall, Run, Returned, CallFails, service
<1> QED BY <1>4, <1>5, <1>6, Elsewhere DEF Next, Disconnect, Restart, service, vars

\* A grant is spoiled by a build that has it, and stays so.
LEMMA Spoiling ==
  ASSUME OfSession, [Next]_vars
  PROVE  /\ spoiled \subseteq spoiled'
         /\ \A g \in spoiled' : \/ g \in spoiled
                                \/ \E b \in Build : session[b].at # "none"
                                                    /\ session[b].cred.grant = g /\ g # 0
<1> DEFINE Goal ==
      /\ spoiled \subseteq spoiled'
      /\ \A g \in spoiled' : \/ g \in spoiled
                             \/ \E b \in Build : session[b].at # "none"
                                                 /\ session[b].cred.grant = g /\ g # 0
<1>1. ASSUME NEW b \in Build, NEW k \in Slot, attempt[b][k].at # "none",
             spoiled' = spoiled \/ spoiled' = spoiled \cup ({session[b].cred.grant} \ {0})
      PROVE  Goal
  BY <1>1 DEF OfSession
<1>2. ASSUME UNCHANGED spoiled PROVE Goal
  BY <1>2
<1>3. ASSUME NEW b \in Build, NEW k \in Slot, Connection(b, k) PROVE Goal
  <2>1. CASE Refused(b, k)
    <3>1. spoiled' = spoiled \/ spoiled' = spoiled \cup ({session[b].cred.grant} \ {0})
      BY <2>1 DEF Refused
    <3> QED BY <1>1, <2>1, <3>1 DEF Refused
  <2>2. CASE RefreshLost(b, k)
    <3>1. spoiled' = spoiled \/ spoiled' = spoiled \cup ({session[b].cred.grant} \ {0})
      BY <2>2 DEF RefreshLost, OfSession
    <3> QED BY <1>1, <2>2, <3>1 DEF RefreshLost
  <2>3. CASE Persist(b, k) \/ PersistFails(b, k)
    BY <1>1, <2>3 DEF Persist, PersistFails
  <2> QED BY <1>2, <1>3, <2>1, <2>2, <2>3
          DEF Connection, Open, Accepted, Fails, Refreshed, Authorize, ConnectTimesOut, observed
<1>4. ASSUME NEW b \in Build, Agent(b) PROVE Goal
  BY <1>2, <1>3, <1>4
     DEF Agent, Load, EndBuild, StartCall, Run, Returned, CallFails, observed
<1>5. CASE Restart
  BY <1>5 DEF Restart, OfSession
<1> QED BY <1>2, <1>4, <1>5, Elsewhere DEF Next, Disconnect, observed, vars

\* The row a grant was saved to is known once.
LEMMA OwnerSteps ==
  ASSUME [Next]_vars
  PROVE  UNCHANGED owner \/ \E r \in Request : Save(r)
<1>1. ASSUME NEW r \in Request, Handler(r) PROVE UNCHANGED owner \/ Save(r)
  BY <1>1 DEF Handler, Exchange, RequestFails, ConnectKey, observed
<1> QED BY <1>1, ByBuilds, Elsewhere DEF Next, Disconnect, Restart, observed, vars

\* The types the proofs below need of the parts of the state.
LEMMA Parts ==
  ASSUME TypeOK
  PROVE  /\ issued \in 0..MaxGrants /\ rows \in 0..MaxRows /\ row.id \in 0..MaxRows
         /\ valid \in [1..MaxGrants -> NoTokens..MaxRefresh]
         /\ owner \in [1..MaxGrants -> 0..MaxRows]
         /\ row.cred.grant \in 0..MaxGrants /\ row.cred.gen \in NoTokens..MaxRefresh
         /\ \A r \in Request : /\ request[r].cred.grant \in 0..MaxGrants
                               /\ request[r].cred.gen \in NoTokens..MaxRefresh
         /\ \A b \in Build : /\ session[b].cred.grant \in 0..MaxGrants
                             /\ session[b].cred.gen \in NoTokens..MaxRefresh
         /\ \A b \in Build, k \in Slot :
              /\ attempt[b][k].save.grant \in 0..MaxGrants
              /\ attempt[b][k].save.gen \in NoTokens..MaxRefresh
<1>1. \A cred \in Credentials : cred.grant \in 0..MaxGrants /\ cred.gen \in NoTokens..MaxRefresh
  BY DEF Credentials
<1>2. row.cred \in Credentials /\ row.id \in 0..MaxRows
  BY DEF TypeOK, Rows
<1>3. \A r \in Request : request[r].cred \in Credentials
  BY DEF TypeOK, Requests
<1>4. \A b \in Build : session[b].cred \in Credentials
  BY DEF TypeOK, Sessions
<1>5. \A b \in Build, k \in Slot : attempt[b][k].save \in Credentials
  BY DEF TypeOK, Attempts
<1> QED BY <1>1, <1>2, <1>3, <1>4, <1>5 DEF TypeOK

\* A row, a session and a request have a grant that was issued before.
LEMMA IssuedBefore ==
  ASSUME TypeOK, Held, OfSession, [Next]_vars
  PROVE  /\ row'.cred.grant <= issued
         /\ \A b \in Build : session'[b].cred.grant <= issued
<1>1. issued \in Nat /\ row.cred.grant <= issued
  BY Parts DEF Held, Holds
<1>2. row'.cred.grant <= issued
  <2>1. CASE row' = NoRow
    BY <1>1, <2>1 DEF NoRow, NoCred
  <2>2. ASSUME NEW r \in Request, Save(r) PROVE row'.cred.grant <= issued
    <3>1. row'.cred = request[r].cred
      BY <2>2 DEF Save
    <3> QED BY <3>1 DEF Held, Holds
  <2>3. ASSUME NEW b \in Build, NEW k \in Slot, Persist(b, k),
               row' = [row EXCEPT !.cred = attempt[b][k].save]
        PROVE  row'.cred.grant <= issued
    <3>1. row'.cred = attempt[b][k].save /\ attempt[b][k].at = "save"
      BY <2>3 DEF Persist, TypeOK, Rows
    <3> QED BY <3>1 DEF OfSession, Holds
  <2> QED BY <1>1, <2>1, <2>2, <2>3, RowSteps
<1>3. ASSUME NEW b \in Build PROVE session'[b].cred.grant <= issued
  <2>1. CASE session'[b] = NoSession
    BY <1>1, <2>1 DEF NoSession, NoCred
  <2>2. CASE session'[b] = [at |-> "ready", id |-> row.id, cred |-> row.cred]
    <3>1. session'[b].cred = row.cred
      BY <2>2
    <3> QED BY <1>1, <3>1
  <2>3. CASE session'[b].cred.grant = session[b].cred.grant
    BY <2>3 DEF Held, Holds
  <2> QED BY <2>1, <2>2, <2>3, SessionSteps
<1> QED BY <1>2, <1>3

\* What the row holds and what sessions hold was saved to the row they are of; a
\* request's grant is its own.
LEMMA OwnedPreserved ==
  ASSUME TypeOK, TypeOK', Held, Held', OfSession, OfSession', Owned, [Next]_vars
  PROVE  Owned'
<1> USE DEF Gone
<1>1. row'.id = Gone => row' = NoRow
  <2>1. ASSUME NEW r \in Request, Save(r) PROVE row'.id # Gone
    <3>1. row'.id = IF row.id = Gone THEN rows + 1 ELSE row.id
      BY <2>1 DEF Save
    <3> QED BY <3>1, Parts
  <2>2. ASSUME NEW b \in Build, NEW k \in Slot, Persist(b, k), row.id = session[b].id,
               row' = [row EXCEPT !.cred = attempt[b][k].save]
        PROVE  row'.id # Gone
    <3>1. row'.id = row.id
      BY <2>2 DEF TypeOK, Rows
    <3>2. session[b].id # Gone
      BY <2>2 DEF Persist, OfSession, Owned
    <3> QED BY <2>2, <3>1, <3>2
  <2> QED BY <2>1, <2>2, RowSteps DEF Owned
<1>2. ASSUME NEW r \in Request, Save(r) PROVE Owned'
  <2> DEFINE g == request[r].cred.grant
             id == IF row.id = Gone THEN rows + 1 ELSE row.id
  <2>1. /\ row' = [id |-> id, cred |-> request[r].cred]
        /\ owner' = IF g # 0 THEN [owner EXCEPT ![g] = id] ELSE owner
        /\ request' = [request EXCEPT ![r] = Free]
        /\ UNCHANGED <<issued, valid, session, spoiled>>
    BY <1>2 DEF Save, service, builds
  <2>2. id # Gone /\ id \in Nat
    BY Parts
  <2>3. g \in 0..MaxGrants /\ g <= issued /\ (g # 0 => owner[g] = Gone)
    BY Parts DEF Held, Holds, Owned
  <2>4. row'.cred.grant = g /\ row'.id = id
    BY <2>1
  <2> HIDE DEF id, g
  <2>5. /\ g # 0 => owner'[g] = id
        /\ \A h \in 1..MaxGrants \ {g} : owner'[h] = owner[h]
    BY <2>1, <2>3, Parts
  <2>6. OwnCredential'
    BY <2>4, <2>5 DEF OwnCredential
  <2>7. ASSUME NEW b \in Build, session[b].at # "none"
        PROVE  /\ session[b].id # Gone
               /\ session[b].cred.grant # 0 => owner'[session[b].cred.grant] = session[b].id
    <3>1. session[b].cred.grant # 0 => session[b].cred.grant # g
      BY <2>3, <2>7 DEF Owned
    <3> QED BY <2>5, <2>7, <3>1, Parts DEF Owned
  <2>8. ASSUME NEW s \in Request, request'[s].cred.grant # 0
        PROVE  /\ s # r /\ request'[s] = request[s]
               /\ request[s].cred.grant # g
    <3>1. s # r
      BY <2>1, <2>8 DEF TypeOK, Free, NoCred
    <3>2. request'[s] = request[s]
      BY <2>1, <3>1 DEF TypeOK
    <3> QED BY <2>8, <3>1, <3>2 DEF Owned, g
  <2>9. ASSUME NEW s \in Request, request'[s].cred.grant # 0
        PROVE  /\ request'[s].at = "save"
               /\ owner'[request'[s].cred.grant] = Gone
               /\ request'[s].cred.gen = 0
               /\ \A t \in Request : request'[t].cred.grant = request'[s].cred.grant => t = s
    <3>1. owner'[request[s].cred.grant] = owner[request[s].cred.grant]
      BY <2>5, <2>8, <2>9, Parts
    <3> QED BY <2>8, <2>9, <3>1 DEF Owned
  <2>10. ASSUME NEW h \in 1..MaxGrants
         PROVE  /\ h > issued => owner'[h] = Gone
                /\ owner'[h] = Gone => valid[h] <= 0 /\ h \notin spoiled
    <3>1. CASE h = g
      BY <2>2, <2>3, <2>5, <3>1, Parts
    <3>2. CASE h # g
      BY <2>5, <3>2 DEF Owned
    <3> QED BY <3>1, <3>2
  <2> QED BY <1>1, <2>1, <2>6, <2>7, <2>9, <2>10 DEF Owned
<1>3. CASE UNCHANGED owner /\ ~\E r \in Request : Save(r)
  <2>1. OwnCredential'
    <3>1. CASE row' = NoRow
      BY <3>1 DEF OwnCredential, NoRow
    <3>2. ASSUME NEW b \in Build, NEW k \in Slot, Persist(b, k), row.id = session[b].id,
                 row' = [row EXCEPT !.cred = attempt[b][k].save]
          PROVE  OwnCredential'
      <4>1. row'.cred = attempt[b][k].save /\ row'.id = row.id
        BY <3>2 DEF TypeOK, Rows
      <4>2. attempt[b][k].save.grant = session[b].cred.grant /\ session[b].at # "none"
        BY <3>2 DEF Persist, OfSession
      <4> QED BY <1>3, <3>2, <4>1, <4>2 DEF OwnCredential, Owned
    <3> QED BY <1>3, <3>1, <3>2, RowSteps DEF Owned, OwnCredential
  <2>2. ASSUME NEW b \in Build, session'[b].at # "none"
        PROVE  /\ session'[b].id # Gone
               /\ session'[b].cred.grant # 0 =>
                    owner[session'[b].cred.grant] = session'[b].id
    <3>1. CASE session'[b] = [at |-> "ready", id |-> row.id, cred |-> row.cred] /\ row.id # Gone
      <4>1. session'[b].id = row.id /\ session'[b].cred = row.cred
        BY <3>1
      <4> QED BY <3>1, <4>1 DEF Owned, OwnCredential
    <3>2. CASE /\ session[b].at # "none" /\ session'[b].id = session[b].id
               /\ session'[b].cred.grant = session[b].cred.grant
      BY <3>2 DEF Owned
    <3>3. NoSession.at = "none"
      BY DEF NoSession
    <3> QED BY <2>2, <3>1, <3>2, <3>3, SessionSteps
  <2>3. ASSUME NEW r \in Request, request'[r].cred.grant # 0
        PROVE  /\ request'[r].at = "save" /\ request'[r].cred.gen = 0
               /\ \/ request'[r] = request[r]
                  \/ request'[r].cred.grant = issued + 1
                     /\ \A s \in Request \ {r} : request'[s] = request[s]
    <3>1. CASE request'[r] = request[r]
      BY <2>3, <3>1 DEF Owned
    <3>2. ASSUME NEW oauth \in BOOLEAN, NewGrant(r, oauth)
          PROVE  /\ request'[r].at = "save" /\ request'[r].cred.gen = 0
                 /\ request'[r].cred.grant = issued + 1
                 /\ \A s \in Request \ {r} : request'[s] = request[s]
      BY <3>2 DEF NewGrant, TypeOK
    <3>3. CASE request'[r].cred = NoCred
      BY <2>3, <3>3 DEF NoCred
    <3>4. CASE request'[r] = [at |-> "save",
                              cred |-> [grant |-> 0, oauth |-> TRUE, gen |-> NoTokens]]
      BY <2>3, <3>4
    <3> QED BY <3>1, <3>2, <3>3, <3>4, RequestSteps DEF RequestStep
  <2>4. ASSUME NEW r \in Request, request'[r].cred.grant # 0
        PROVE  /\ owner[request'[r].cred.grant] = Gone
               /\ \A s \in Request : request'[s].cred.grant = request'[r].cred.grant => s = r
    <3>1. \A s \in Request : request[s].cred.grant <= issued
      BY DEF Held, Holds
    <3>2. issued \in Nat /\ \A s \in Request : request[s].cred.grant \in Nat
      BY Parts
    <3>3. CASE request'[r].cred.grant = issued + 1
                 /\ \A s \in Request \ {r} : request'[s] = request[s]
      <4>1. request'[r].cred.grant \in 1..MaxGrants
        BY <2>4, Parts, (TypeOK)' DEF TypeOK, Requests, Credentials
      <4> QED BY <3>1, <3>2, <3>3, <4>1 DEF Owned
    <3>4. CASE request'[r] = request[r]
      <4>1. ASSUME NEW s \in Request, request'[s].cred.grant = request'[r].cred.grant
            PROVE  s = r
        <5>1. request'[s] = request[s] \/ request'[s].cred.grant = issued + 1
          BY <2>3, <2>4, <4>1
        <5> QED BY <2>4, <3>1, <3>2, <3>4, <4>1, <5>1 DEF Owned
      <4> QED BY <2>4, <3>4, <4>1 DEF Owned
    <3> QED BY <2>3, <2>4, <3>3, <3>4
  <2>5. ASSUME NEW g \in 1..MaxGrants
        PROVE  /\ g > issued' => owner[g] = Gone
               /\ owner[g] = Gone => valid'[g] <= 0 /\ g \notin spoiled'
    <3>1. \A b \in Build : session[b].at # "none" /\ session[b].cred.grant = g
                             => owner[g] # Gone
      BY DEF Owned
    <3>2. owner[g] = Gone => valid'[g] <= 0
      BY <3>1, TokenSteps DEF TokenStep, OfSession, Owned
    <3>3. owner[g] = Gone => g \notin spoiled'
      BY <3>1, Spoiling DEF Owned
    <3>4. issued <= issued' /\ issued \in Nat /\ issued' \in Nat
      BY Issuing, Parts, (TypeOK)' DEF TypeOK
    <3> QED BY <3>2, <3>3, <3>4 DEF Owned
  <2> QED BY <1>1, <1>3, <2>1, <2>2, <2>3, <2>4, <2>5 DEF Owned
<1> QED BY <1>2, <1>3, OwnerSteps

\* The service's newest generation of a grant only grows.
LEMMA Newer ==
  ASSUME TypeOK, Held, OfSession, [Next]_vars, NEW g \in 1..MaxGrants
  PROVE  valid[g] <= valid'[g]
<1>1. valid[g] \in NoTokens..MaxRefresh /\ (g > issued => valid[g] = NoTokens)
      /\ issued \in Nat
  BY Parts DEF Held
<1> QED BY <1>1, TokenSteps DEF TokenStep, NoTokens

\* What the answer to a refresh is, and what the session has of it.
LEMMA RefreshedIs ==
  ASSUME TypeOK, OfSession, NEW b \in Build, NEW k \in Slot, Refreshed(b, k)
  PROVE  LET g == session[b].cred.grant
         IN  /\ g \in 1..MaxGrants /\ session'[b].cred.grant = g
             /\ attempt'[b][k].at = "save" /\ attempt'[b][k].save = session'[b].cred
             /\ attempt[b][k].gen = valid[g] =>
                  /\ valid'[g] = valid[g] + 1 /\ session'[b].cred.gen = valid'[g]
                  /\ attempt'[b][k].next = "request"
             /\ session'[b].cred.gen \in {NoTokens, valid'[g]}
             /\ session'[b].cred.gen <= valid'[g]
<1> DEFINE g == session[b].cred.grant
           newest == attempt[b][k].gen = valid[g]
           n == IF newest THEN valid[g] + 1 ELSE NoTokens
           cred == [session[b].cred EXCEPT !.gen = n]
<1>1. /\ g \in 1..MaxGrants
      /\ valid' = IF newest THEN [valid EXCEPT ![g] = valid[g] + 1] ELSE valid
      /\ session'[b].cred = cred /\ cred.grant = g /\ cred.gen = n
      /\ attempt'[b][k].at = "save" /\ attempt'[b][k].save = cred
      /\ attempt'[b][k].next = IF newest THEN "request" ELSE "authorize"
  BY RefreshedDoes
<1>2. valid[g] \in NoTokens..MaxRefresh /\ valid \in [1..MaxGrants -> NoTokens..MaxRefresh]
  BY <1>1 DEF TypeOK
<1> HIDE DEF cred, g
<1>3. CASE newest
  <2>1. valid'[g] = valid[g] + 1 /\ n = valid[g] + 1
    BY <1>1, <1>2, <1>3
  <2>2. n <= valid'[g]
    BY <1>2, <2>1 DEF NoTokens
  <2> QED BY <1>1, <1>3, <2>1, <2>2 DEF g
<1>4. CASE ~newest
  <2>1. valid'[g] = valid[g] /\ n = NoTokens
    BY <1>1, <1>2, <1>4
  <2>2. n <= valid'[g]
    BY <1>2, <2>1 DEF NoTokens
  <2> QED BY <1>1, <1>4, <2>1, <2>2 DEF g
<1> QED BY <1>3, <1>4

\* Nobody ever holds a token that was not given out.
LEMMA NotAheadPreserved ==
  ASSUME TypeOK, TypeOK', Held, OfSession, OfSession', Owned, NotAhead, [Next]_vars
  PROVE  NotAhead'
<1>1. \A g \in 1..MaxGrants : /\ valid[g] <= valid'[g]
                              /\ valid[g] \in Int /\ valid'[g] \in Int
  BY Newer DEF TypeOK, NoTokens
<1>2. /\ row.cred.grant \in 0..MaxGrants /\ row.cred.gen \in Int
      /\ \A b \in Build : session[b].cred.grant \in 0..MaxGrants /\ session[b].cred.gen \in Int
      /\ \A b \in Build, k \in Slot : attempt[b][k].save.gen \in Int
  BY Parts DEF NoTokens
<1>3. row'.cred.grant # 0 => row'.cred.gen <= valid'[row'.cred.grant]
  <2>1. CASE row' = NoRow
    BY <2>1 DEF NoRow, NoCred
  <2>2. CASE row' = row
    BY <1>1, <1>2, <2>2 DEF NotAhead
  <2>3. ASSUME NEW r \in Request, Save(r), row'.cred.grant # 0
        PROVE  row'.cred.gen <= valid'[row'.cred.grant]
    <3>1. row'.cred = request[r].cred
      BY <2>3 DEF Save
    <3>2. /\ row'.cred.grant \in 1..MaxGrants /\ row'.cred.grant <= issued
          /\ row'.cred.gen = 0
      BY <2>3, <3>1, Parts DEF Held, Holds, Owned
    <3>3. valid[row'.cred.grant] # NoTokens
      BY <3>2 DEF Held
    <3>4. valid[row'.cred.grant] \in 0..MaxRefresh
      BY <3>2, <3>3, Parts DEF NoTokens
    <3> QED BY <1>1, <3>2, <3>4
  <2>4. ASSUME NEW b \in Build, NEW k \in Slot, Persist(b, k),
               row' = [row EXCEPT !.cred = attempt[b][k].save], row'.cred.grant # 0
        PROVE  row'.cred.gen <= valid'[row'.cred.grant]
    <3>1. row'.cred = attempt[b][k].save /\ attempt[b][k].at = "save"
      BY <2>4 DEF Persist, TypeOK, Rows
    <3>2. attempt[b][k].save.grant = session[b].cred.grant
      BY <3>1 DEF OfSession
    <3>3. attempt[b][k].save.gen <= valid[session[b].cred.grant]
      BY <2>4, <3>1, <3>2 DEF NotAhead
    <3> QED BY <1>1, <1>2, <2>4, <3>1, <3>2, <3>3
  <2> QED BY <2>1, <2>2, <2>3, <2>4, RowSteps
<1>4. ASSUME NEW b \in Build, session'[b].cred.grant # 0
      PROVE  session'[b].cred.gen <= valid'[session'[b].cred.grant]
  <2>1. CASE session'[b].cred = session[b].cred
    BY <1>1, <1>2, <1>4, <2>1 DEF NotAhead
  <2>2. CASE session'[b] = [at |-> "ready", id |-> row.id, cred |-> row.cred]
    <3>1. session'[b].cred = row.cred
      BY <2>2
    <3> QED BY <1>1, <1>2, <1>4, <3>1 DEF NotAhead
  <2>3. ASSUME NEW k \in Slot, Refreshed(b, k)
        PROVE  session'[b].cred.gen <= valid'[session'[b].cred.grant]
    BY <2>3, RefreshedIs, <1>1
  <2>4. CASE session'[b] = NoSession
    BY <1>4, <2>4 DEF NoSession, NoCred
  <2>5. CASE session'[b] = session[b]
    BY <2>1, <2>5
  <2> QED BY <2>1, <2>2, <2>3, <2>4, <2>5, SessionSteps
<1>5. ASSUME NEW b \in Build, NEW k \in Slot, session'[b].cred.grant # 0,
             attempt'[b][k].at = "save"
      PROVE  attempt'[b][k].save.gen <= valid'[session'[b].cred.grant]
  <2>1. session'[b].at # "none"
    BY <1>5 DEF OfSession
  <2>2. ASSUME attempt[b][k].at = "save", attempt'[b][k].save = attempt[b][k].save
        PROVE  attempt'[b][k].save.gen <= valid'[session'[b].cred.grant]
    <3>1. session'[b].cred.grant = session[b].cred.grant
      BY <1>5, <2>2 DEF OfSession
    <3>2. attempt[b][k].save.gen <= valid[session[b].cred.grant]
      BY <1>5, <2>2, <3>1 DEF NotAhead
    <3> QED BY <1>1, <1>2, <1>5, <2>2, <3>1, <3>2
  <2>3. ASSUME attempt'[b][k].save = session'[b].cred
        PROVE  attempt'[b][k].save.gen <= valid'[session'[b].cred.grant]
    BY <1>4, <1>5, <2>3
  <2>4. CASE attempt'[b][k] = attempt[b][k]
    BY <1>5, <2>2, <2>4
  <2>5. CASE Authorize(b, k) \/ Refreshed(b, k)
    BY <2>3, <2>5, AuthorizeDoes, RefreshedKeeps
  <2>6. CASE ConnectTimesOut(b, k)
    BY <1>5, <2>2, <2>6, TimesOutDoes
  <2>7. ~Open(b, k) /\ ~Refused(b, k) /\ attempt'[b][k] # Unused
    BY <1>5, OpenDoes, RefusedDoes DEF Unused
  <2>8. ~(Persist(b, k) /\ ~EndAttempt(b, k))
    BY <1>5, GoesOnDoes
  <2> QED BY <2>4, <2>5, <2>6, <2>7, <2>8, AttemptSteps DEF AttemptStep
<1> QED BY <1>3, <1>4, <1>5 DEF NotAhead

\* Where a session had a connection, its grant stays while the connection does.
LEMMA SameGrant ==
  ASSUME TypeOK, OfSession, OfSession', [Next]_vars, NEW b \in Build, NEW k \in Slot,
         attempt[b][k].at # "none", attempt'[b][k].at # "none"
  PROVE  session'[b].cred.grant = session[b].cred.grant
<1>1. session[b].at # "none" /\ session'[b].at # "none" /\ NoSession.at = "none"
  BY DEF OfSession, NoSession
<1> QED BY <1>1, SessionSteps

\* What starts or keeps a refresh of a sound grant.
LEMMA RefreshSteps ==
  ASSUME TypeOK, OfSession, OfSession', [Next]_vars, NEW b \in Build, NEW k \in Slot,
         attempt'[b][k].at = "refresh"
  PROVE  /\ session'[b].cred.grant = session[b].cred.grant
         /\ \/ attempt[b][k].at = "refresh" /\ attempt'[b][k].gen = attempt[b][k].gen
            \/ Refused(b, k)
<1>1. CASE attempt'[b][k] = attempt[b][k]
  BY <1>1, SameGrant
<1>2. CASE ConnectTimesOut(b, k)
  BY <1>2, TimesOutDoes
<1>3. CASE Refused(b, k)
  BY <1>3, RefusedDoes
<1>4. attempt'[b][k] # Unused /\ ~Open(b, k) /\ ~Authorize(b, k) /\ ~Refreshed(b, k)
      /\ ~(Persist(b, k) /\ ~EndAttempt(b, k))
  BY OpenDoes, AuthorizeDoes, RefreshedKeeps, GoesOnDoes DEF Unused
<1> QED BY <1>1, <1>2, <1>3, <1>4, AttemptSteps DEF AttemptStep

\* A sound grant is refreshed with its newest token, if at all, once at a time.
LEMMA RefusedSound ==
  ASSUME TypeOK, Held, OneRefresh, NEW b \in Build, NEW k \in Slot, Refused(b, k),
         session[b].cred.grant \notin spoiled' \cup {0}
  PROVE  /\ attempt'[b][k].at = "refresh"
         /\ attempt'[b][k].gen = valid[session[b].cred.grant]
         /\ valid' = valid
         /\ \A c \in Build, j \in Slot :
              session[c].cred.grant = session[b].cred.grant => attempt[c][j].at # "refresh"
<1> DEFINE g == session[b].cred.grant
<1>1. /\ session[b].cred.gen = valid[g] /\ valid' = valid
      /\ ~ \E c \in Build, j \in Slot :
             attempt[c][j].at = "refresh" /\ session[c].cred.grant = g
  BY DEF Refused, service
<1>2. g \in 1..MaxGrants /\ g <= issued
  BY Parts DEF Held, Holds
<1>3. valid[g] # NoTokens
  BY <1>2 DEF Held
<1> QED BY <1>1, <1>3, RefusedDoes

\* One refresh of a sound grant at a time.
LEMMA OneRefreshPreserved ==
  ASSUME TypeOK, TypeOK', Held, OfSession, OfSession', OneRefresh, [Next]_vars
  PROVE  OneRefresh'
<1>1. spoiled \subseteq spoiled'
  BY Spoiling
<1>2. ASSUME NEW b \in Build, NEW k \in Slot, attempt'[b][k].at = "refresh",
             session'[b].cred.grant \notin spoiled' \cup {0}
      PROVE  /\ attempt'[b][k].gen = valid'[session'[b].cred.grant]
             /\ \A c \in Build, j \in Slot :
                  session'[c].cred.grant = session'[b].cred.grant
                    /\ attempt'[c][j].at = "refresh" => c = b /\ j = k
  <2> DEFINE g == session[b].cred.grant
  <2>1. session'[b].cred.grant = g /\ g \notin spoiled' \cup {0} /\ g \notin spoiled \cup {0}
    BY <1>1, <1>2, RefreshSteps
  <2>2. CASE Refused(b, k)
    <3>1. /\ attempt'[b][k].gen = valid[g] /\ valid' = valid /\ attempt[b][k].at = "request"
          /\ \A c \in Build, j \in Slot :
               session[c].cred.grant = g => attempt[c][j].at # "refresh"
      BY <2>1, <2>2, RefusedSound DEF Refused
    <3>2. ASSUME NEW c \in Build, NEW j \in Slot, c # b \/ j # k,
                 session'[c].cred.grant = g, attempt'[c][j].at = "refresh"
          PROVE  FALSE
      <4>1. attempt'[c][j] = attempt[c][j] /\ session'[c].cred.grant = session[c].cred.grant
        BY <2>2, <3>2, RefusedDoes DEF Others
      <4> QED BY <3>1, <3>2, <4>1
    <3> QED BY <2>1, <3>1, <3>2
  <2>3. CASE attempt[b][k].at = "refresh" /\ attempt'[b][k].gen = attempt[b][k].gen
    <3>1. /\ attempt[b][k].gen = valid[g]
          /\ \A c \in Build, j \in Slot :
               session[c].cred.grant = g /\ attempt[c][j].at = "refresh" => c = b /\ j = k
      BY <2>1, <2>3 DEF OneRefresh
    <3>2. g \in 1..MaxGrants /\ g <= issued /\ issued \in Nat
      BY <2>1, Parts DEF Held, Holds
    <3>3. ~Refreshed(b, k)
      BY <1>2, RefreshedKeeps
    <3>4. valid'[g] = valid[g]
      BY <2>1, <3>1, <3>2, <3>3, TokenSteps DEF TokenStep
    <3>5. ASSUME NEW c \in Build, NEW j \in Slot,
                 session'[c].cred.grant = g, attempt'[c][j].at = "refresh"
          PROVE  c = b /\ j = k
      <4>1. session[c].cred.grant = g
        BY <3>5, RefreshSteps
      <4>2. CASE attempt[c][j].at = "refresh"
        BY <3>1, <4>1, <4>2
      <4>3. CASE Refused(c, j)
        BY <2>1, <2>3, <4>1, <4>3, RefusedSound
      <4> QED BY <3>5, <4>2, <4>3, RefreshSteps
    <3> QED BY <2>1, <2>3, <3>1, <3>4, <3>5
  <2> QED BY <1>2, <2>2, <2>3, RefreshSteps
<1>3. ASSUME NEW b \in Build, NEW k \in Slot,
             session'[b].cred.grant \notin spoiled' \cup {0}
      PROVE  /\ attempt'[b][k].at # "authorize"
             /\ attempt'[b][k].at = "save" => attempt'[b][k].next # "authorize"
  <2>1. CASE attempt[b][k].at = "none" \/ attempt'[b][k].at = "none"
    <3>1. attempt'[b][k].at \notin {"authorize", "save"}
      <4>1. \/ attempt'[b][k].at = "none"
            \/ /\ ~Refused(b, k) /\ ~Authorize(b, k) /\ ~ConnectTimesOut(b, k)
               /\ ~Refreshed(b, k) /\ ~Persist(b, k)
        BY <2>1 DEF Refused, Authorize, ConnectTimesOut, Current, Refreshed, Persist
      <4> QED BY <2>1, <4>1, OpenDoes, AttemptSteps DEF AttemptStep, Unused
    <3> QED BY <3>1
  <2>2. CASE attempt[b][k].at # "none" /\ attempt'[b][k].at # "none"
    <3> DEFINE g == session[b].cred.grant
    <3>1. /\ session'[b].cred.grant = g /\ g \notin spoiled' \cup {0}
          /\ g \notin spoiled \cup {0}
      BY <1>1, <1>3, <2>2, SameGrant
    <3>2. /\ attempt[b][k].at # "authorize"
          /\ attempt[b][k].at = "save" => attempt[b][k].next # "authorize"
          /\ attempt[b][k].at = "refresh" => attempt[b][k].gen = valid[g]
      BY <3>1 DEF OneRefresh
    <3>3. CASE Refused(b, k)
      BY <3>1, <3>3, RefusedSound
    <3>4. CASE Refreshed(b, k)
      <4>1. attempt[b][k].gen = valid[g]
        BY <3>2, <3>4 DEF Refreshed
      <4> QED BY <3>4, <4>1, RefreshedIs
    <3>5. CASE Persist(b, k) /\ ~EndAttempt(b, k)
      BY <3>2, <3>5, GoesOnDoes DEF Persist
    <3>6. CASE ConnectTimesOut(b, k)
      BY <3>2, <3>6, TimesOutDoes
    <3>7. CASE attempt'[b][k] = attempt[b][k]
      BY <3>2, <3>7
    <3>8. ~Authorize(b, k) /\ attempt'[b][k] # Unused
      BY <2>2, <3>2 DEF Authorize, Unused
    <3>9. CASE Open(b, k)
      BY <3>9, OpenDoes
    <3> QED BY <3>3, <3>4, <3>5, <3>6, <3>7, <3>8, <3>9, AttemptSteps DEF AttemptStep
  <2> QED BY <2>1, <2>2
<1> QED BY <1>2, <1>3 DEF OneRefresh

\* What is on its way to the row of a sound grant stays so, but for its own write.
LEMMA SavingKept ==
  ASSUME TypeOK, TypeOK', OfSession, OfSession', OneRefresh, [Next]_vars,
         NEW g \in 1..MaxGrants, g \notin spoiled',
         NEW b \in Build, NEW k \in Slot,
         ~(session[b].cred.grant = g /\ (Persist(b, k) \/ Refreshed(b, k)))
  PROVE  /\ Saving(g, b, k)' <=> Saving(g, b, k)
         /\ Saving(g, b, k) => attempt'[b][k].save = attempt[b][k].save
<1>1. g \notin spoiled \cup {0}
  BY Spoiling
<1>2. ASSUME Saving(g, b, k)
      PROVE  Saving(g, b, k)' /\ attempt'[b][k].save = attempt[b][k].save
  <2>1. session[b].cred.grant = g /\ attempt[b][k].at = "save"
    BY <1>2 DEF Saving
  <2>2. attempt'[b][k].at = "save" /\ attempt'[b][k].save = attempt[b][k].save
    <3>1. ~Persist(b, k) /\ ~Refreshed(b, k) /\ g \notin spoiled' \cup {0}
      BY <1>1, <2>1
    <3>2. ~Open(b, k) /\ ~Refused(b, k) /\ ~Authorize(b, k)
      BY <2>1 DEF Open, Refused, Authorize
    <3> QED BY <2>1, <3>1, <3>2, AttemptSteps, TimesOutDoes DEF AttemptStep
  <2> QED BY <2>1, <2>2, SameGrant DEF Saving
<1>3. ASSUME Saving(g, b, k)' PROVE Saving(g, b, k)
  <2>1. session'[b].cred.grant = g /\ attempt'[b][k].at = "save"
    BY <1>3 DEF Saving
  <2>2. attempt[b][k].at # "none"
    <3>1. attempt[b][k].at = "none" => /\ ~Refused(b, k) /\ ~Authorize(b, k)
                                       /\ ~ConnectTimesOut(b, k)
                                       /\ ~Refreshed(b, k) /\ ~Persist(b, k)
      BY DEF Refused, Authorize, ConnectTimesOut, Current, Refreshed, Persist
    <3> QED BY <2>1, <3>1, OpenDoes, AttemptSteps DEF AttemptStep, Unused
  <2>3. session[b].cred.grant = g
    BY <2>1, <2>2, SameGrant
  <2>4. ~Persist(b, k) /\ ~Refreshed(b, k) /\ attempt[b][k].at # "authorize"
    BY <1>1, <2>3 DEF OneRefresh
  <2>5. ~Open(b, k) /\ ~Refused(b, k) /\ ~Authorize(b, k) /\ attempt'[b][k] # Unused
    BY <2>1, <2>4, OpenDoes, RefusedDoes DEF Authorize, Unused
  <2>6. attempt[b][k].at = "save"
    BY <2>1, <2>4, <2>5, AttemptSteps, TimesOutDoes DEF AttemptStep
  <2> QED BY <2>3, <2>6 DEF Saving
<1> QED BY <1>2, <1>3

\* The newest token of a sound grant gets to the row.
LEMMA StoredPreserved ==
  ASSUME TypeOK, TypeOK', Held, OfSession, OfSession', Owned, NotAhead, OneRefresh, Stored,
         [Next]_vars
  PROVE  Stored'
<1> SUFFICES ASSUME NEW g \in 1..MaxGrants, g \notin spoiled'
             PROVE  \/ \E b \in Build, k \in Slot :
                         Saving(g, b, k)' /\ attempt'[b][k].save.gen = valid'[g]
                    \/ /\ \A b \in Build, k \in Slot : ~Saving(g, b, k)'
                       /\ row'.cred.grant = g => row'.cred.gen = valid'[g]
  BY DEF Stored
<1>1. g \notin spoiled \cup {0}
  BY Spoiling
<1>2. \/ \E b \in Build, k \in Slot : Saving(g, b, k) /\ attempt[b][k].save.gen = valid[g]
      \/ /\ \A b \in Build, k \in Slot : ~Saving(g, b, k)
         /\ row.cred.grant = g => row.cred.gen = valid[g]
  BY <1>1 DEF Stored
<1>3. ASSUME NEW b \in Build, NEW k \in Slot, Refreshed(b, k), session[b].cred.grant = g
      PROVE  Saving(g, b, k)' /\ attempt'[b][k].save.gen = valid'[g]
  <2>1. attempt[b][k].gen = valid[g]
    BY <1>1, <1>3 DEF OneRefresh, Refreshed
  <2> QED BY <1>3, <2>1, RefreshedIs DEF Saving
<1>4. CASE \A b \in Build, k \in Slot : ~(Refreshed(b, k) /\ session[b].cred.grant = g)
  <2>1. CASE g > issued
    <3>1. issued \in Nat /\ row'.cred.grant \in Nat
          /\ \A b \in Build : session'[b].cred.grant \in Nat
      BY Parts, (TypeOK)' DEF TypeOK, Rows, Sessions, Credentials
    <3>2. row'.cred.grant # g /\ \A b \in Build : session'[b].cred.grant # g
      BY <2>1, <3>1, IssuedBefore
    <3> QED BY <3>2 DEF Saving
  <2>2. CASE g <= issued
    <3>1. valid'[g] = valid[g]
      <4>1. issued \in Nat
        BY Parts
      <4> QED BY <1>4, <2>2, <4>1, TokenSteps DEF TokenStep
    <3>2. ASSUME NEW b \in Build, NEW k \in Slot, Persist(b, k), session[b].cred.grant = g
          PROVE  \/ \E c \in Build, j \in Slot :
                      Saving(g, c, j)' /\ attempt'[c][j].save.gen = valid'[g]
                 \/ /\ \A c \in Build, j \in Slot : ~Saving(g, c, j)'
                    /\ row'.cred.grant = g => row'.cred.gen = valid'[g]
      <4>1. /\ Saving(g, b, k) /\ ~Overtakes(b, k) /\ attempt'[b][k].at # "save"
            /\ Others(b, k)
        <5>1. attempt[b][k].at = "save" /\ ~Overtakes(b, k)
          BY <1>1, <3>2 DEF Persist
        <5>2. attempt'[b][k].at # "save" /\ Others(b, k)
          BY <3>2, GoesOnDoes, DropDoes DEF EndAttempt, Unused
        <5> QED BY <3>2, <5>1, <5>2 DEF Saving
      <4>2. \A c \in Build, j \in Slot : c # b \/ j # k =>
              /\ Saving(g, c, j)' <=> Saving(g, c, j)
              /\ Saving(g, c, j) => attempt'[c][j].save = attempt[c][j].save
        <5>1. ASSUME NEW c \in Build, NEW j \in Slot, c # b \/ j # k,
                     Saving(g, c, j) \/ Saving(g, c, j)'
              PROVE  /\ Saving(g, c, j)' <=> Saving(g, c, j)
                     /\ Saving(g, c, j) => attempt'[c][j].save = attempt[c][j].save
          <6>1. attempt'[c][j] = attempt[c][j]
            BY <4>1, <5>1 DEF Others
          <6>2. attempt[c][j].at = "save"
            BY <5>1, <6>1 DEF Saving
          <6> QED BY <6>1, <6>2, SameGrant DEF Saving
        <5> QED BY <5>1
      <4>3. CASE \E c \in Build, j \in Slot : (c # b \/ j # k) /\ Saving(g, c, j)
        <5>1. PICK c \in Build, j \in Slot : (c # b \/ j # k) /\ Saving(g, c, j)
          BY <4>3
        <5>2. /\ attempt[c][j].save.gen \in Int /\ attempt[b][k].save.gen \in Int
              /\ valid[g] \in Int
          BY Parts DEF NoTokens
        <5>3. attempt[c][j].save.gen >= attempt[b][k].save.gen
          BY <3>2, <4>1, <5>1, <5>2 DEF Overtakes, Saving
        <5>4. attempt[c][j].save.gen <= valid[g]
          BY <1>1, <5>1 DEF NotAhead, Saving
        <5>5. CASE attempt[b][k].save.gen = valid[g]
          <6>1. attempt[c][j].save.gen = valid[g]
            BY <5>2, <5>3, <5>4, <5>5
          <6> QED BY <3>1, <4>2, <5>1, <6>1
        <5>6. CASE attempt[b][k].save.gen # valid[g]
          <6>1. PICK d \in Build, i \in Slot :
                  Saving(g, d, i) /\ attempt[d][i].save.gen = valid[g]
            BY <1>2, <5>1
          <6> QED BY <3>1, <4>2, <5>6, <6>1
        <5> QED BY <5>5, <5>6
      <4>4. CASE \A c \in Build, j \in Slot : c # b \/ j # k => ~Saving(g, c, j)
        <5>1. attempt[b][k].save.gen = valid[g]
          BY <1>2, <4>1, <4>4
        <5>2. \A c \in Build, j \in Slot : ~Saving(g, c, j)'
          BY <4>1, <4>2, <4>4 DEF Saving
        <5>3. ASSUME row'.cred.grant = g PROVE row'.cred.gen = valid[g]
          <6>1. CASE row.id = session[b].id
            <7>1. row'.cred = attempt[b][k].save
              BY <3>2, <6>1 DEF Persist, TypeOK, Rows
            <7> QED BY <5>1, <7>1
          <6>2. CASE row.id # session[b].id
            <7>1. row' = row
              BY <3>2, <6>2 DEF Persist
            <7>2. row.id # Gone
              BY <1>1, <5>3, <7>1 DEF Owned, NoRow, NoCred
            <7>3. owner[g] = row.id /\ owner[g] = session[b].id
              BY <1>1, <3>2, <5>3, <7>1, <7>2 DEF Owned, OwnCredential, OfSession, Persist
            <7> QED BY <6>2, <7>3
          <6> QED BY <6>1, <6>2
        <5> QED BY <3>1, <5>2, <5>3
      <4> QED BY <4>3, <4>4
    <3>3. CASE \A b \in Build, k \in Slot : ~(Persist(b, k) /\ session[b].cred.grant = g)
      <4>1. \A b \in Build, k \in Slot :
              /\ Saving(g, b, k)' <=> Saving(g, b, k)
              /\ Saving(g, b, k) => attempt'[b][k].save = attempt[b][k].save
        BY <1>4, <3>3, SavingKept
      <4>2. CASE \E b \in Build, k \in Slot : Saving(g, b, k) /\ attempt[b][k].save.gen = valid[g]
        BY <3>1, <4>1, <4>2
      <4>3. CASE /\ \A b \in Build, k \in Slot : ~Saving(g, b, k)
                 /\ row.cred.grant = g => row.cred.gen = valid[g]
        <5>1. CASE row' = row
          BY <3>1, <4>1, <4>3, <5>1
        <5>2. CASE row' = NoRow
          BY <1>1, <4>1, <4>3, <5>2 DEF NoRow, NoCred
        <5>3. ASSUME NEW r \in Request, Save(r), row'.cred.grant = g
              PROVE  row'.cred.gen = valid[g]
          <6>1. row'.cred = request[r].cred
            BY <5>3 DEF Save
          <6>2. row'.cred.gen = 0 /\ owner[g] = Gone
            BY <1>1, <5>3, <6>1 DEF Owned
          <6>3. valid[g] <= 0 /\ valid[g] # NoTokens /\ valid[g] \in NoTokens..MaxRefresh
            BY <2>2, <6>2, Parts DEF Owned, Held
          <6>4. valid[g] = 0
            BY <6>3, ConstantsAssumption DEF NoTokens
          <6> QED BY <6>2, <6>4
        <5>4. ASSUME NEW b \in Build, NEW k \in Slot, Persist(b, k),
                     row' = [row EXCEPT !.cred = attempt[b][k].save]
              PROVE  row'.cred.grant # g
          <6>1. row'.cred = attempt[b][k].save /\ attempt[b][k].at = "save"
            BY <5>4 DEF Persist, TypeOK, Rows
          <6>2. attempt[b][k].save.grant = session[b].cred.grant
            BY <6>1 DEF OfSession
          <6> QED BY <3>3, <5>4, <6>1, <6>2
        <5> QED BY <3>1, <4>1, <4>3, <5>1, <5>2, <5>3, <5>4, RowSteps
      <4> QED BY <1>2, <4>2, <4>3
    <3> QED BY <3>2, <3>3
  <2>3. g <= issued \/ g > issued
    BY Parts
  <2> QED BY <2>1, <2>2, <2>3
<1> QED BY <1>3, <1>4

-----------------------------------------------------------------------------
(* Theorems of the specification.                                          *)

\* Before anything happens the invariant holds.
LEMMA InitInvariant == Init => IInv
<1> SUFFICES ASSUME Init PROVE IInv
  OBVIOUS
<1>1. TypeOK
  BY CredentialKinds, CallKinds, ConstantsAssumption DEF Init, TypeOK, Gone, NoTokens
<1>2. RedeemedGone /\ SentOnce
  BY DEF Init, RedeemedGone, SentOnce, NoCall
<1>3. OneCurrent
  BY DEF Init, OneCurrent, Current, Unused
<1>4. Held
  BY ConstantsAssumption DEF Init, Held, Holds, NoRow, Free, NoSession, NoCred, NoTokens
<1>5. OfSession
  BY DEF Init, OfSession, NoSession, NoCall, Unused
<1>6. Owned
  BY ConstantsAssumption
     DEF Init, Owned, OwnCredential, NoRow, NoSession, Free, NoCred, Gone, NoTokens
<1>7. NotAhead /\ OneRefresh
  BY DEF Init, NotAhead, OneRefresh, NoRow, NoSession, NoCred
<1>8. Stored
  <2>1. \A g \in 1..MaxGrants : g # 0
    OBVIOUS
  <2> QED BY <2>1 DEF Init, Stored, Saving, Unused, NoRow, NoCred
<1> QED BY <1>1, <1>2, <1>3, <1>4, <1>5, <1>6, <1>7, <1>8 DEF IInv

\* Every step keeps it.
LEMMA StepInvariant == IInv /\ [Next]_vars => IInv'
<1> SUFFICES ASSUME IInv, [Next]_vars PROVE IInv'
  OBVIOUS
<1>1. TripsOK
  BY DEF IInv, TripsOK, TypeOK
<1>2. TypeOK' /\ TripsOK'
  BY <1>1, TypePreserved, TripsPreserved DEF IInv
<1>3. SentOnce' /\ OneCurrent' /\ Held'
  BY <1>2, SentOncePreserved, OneCurrentPreserved, HeldPreserved DEF IInv
<1>4. OfSession'
  BY <1>2, <1>3, OfSessionPreserved DEF IInv
<1>5. Owned' /\ NotAhead' /\ OneRefresh'
  BY <1>2, <1>3, <1>4, OwnedPreserved, NotAheadPreserved, OneRefreshPreserved DEF IInv
<1>6. Stored'
  BY <1>2, <1>4, StoredPreserved DEF IInv
<1> QED BY <1>2, <1>3, <1>4, <1>5, <1>6 DEF IInv, TripsOK

\* The inductive invariant holds in every reachable state.
THEOREM Invariant == Spec => []IInv
BY InitInvariant, StepInvariant, PTL DEF Spec

\* Every variable keeps its type, for any round trips, requests, builds and
\* connections.
THEOREM TypeCorrect == Spec => []TypeOK
<1>1. IInv => TypeOK
  BY DEF IInv
<1> QED BY <1>1, Invariant, PTL

\* A round trip's code is exchanged once, however many callbacks of it there are,
\* and a call is carried out once, whichever transport was tried and whatever timer
\* ran out (integrations.ts, call-tool.ts).
THEOREM OnceEachAlways == Spec => []OnceEach
<1>1. IInv => OnceEach
  <2> SUFFICES ASSUME IInv PROVE OnceEach
    OBVIOUS
  <2>1. \A t \in Txn : redeemed[t] \in 0..2
    BY DEF IInv, TypeOK
  <2>2. RedeemedOnce
    BY <2>1 DEF IInv, RedeemedGone, RedeemedOnce
  <2>3. ASSUME NEW b \in Build PROVE call[b].runs <= 1
    <3>1. /\ call[b].at \in {"idle", "connecting", "calling", "late"}
          /\ call[b].runs \in 0..2 /\ call[b].sent \in 0..2
      BY DEF IInv, TypeOK, Calls
    <3> QED BY <3>1 DEF IInv, SentOnce
  <2> QED BY <2>2, <2>3 DEF OnceEach, CalledOnce
<1> QED BY <1>1, Invariant, PTL

\* A row holds a credential that was saved to that row: no build brings a credential
\* back after its row was deleted, or into another one (integrations.ts).
THEOREM OwnCredentialAlways == Spec => []OwnCredential
<1>1. IInv => OwnCredential
  BY DEF IInv, Owned
<1> QED BY <1>1, Invariant, PTL

\* With no refresh under way the row of a sound grant has the token that the service
\* takes, whatever order the builds refresh and write in.
THEOREM TokensKeptAlways == Spec => []TokensKept
<1>1. IInv => TokensKept
  <2> SUFFICES ASSUME IInv, row.cred.grant \notin spoiled \cup {0},
                      \A b \in Build, k \in Slot :
                        ~(session[b].cred.grant = row.cred.grant
                          /\ attempt[b][k].at \in {"refresh", "save"})
               PROVE  row.cred.gen = valid[row.cred.grant]
    BY DEF TokensKept
  <2>1. row.cred.grant \in 1..MaxGrants \ spoiled
    BY Parts DEF IInv
  <2> QED BY <2>1 DEF IInv, Stored, Saving
<1> QED BY <1>1, Invariant, PTL

-----------------------------------------------------------------------------
(***************************************************************************)
(* The audit of a build (CompletionAudit), for any lists, claims, files.   *)
(***************************************************************************)
\* The behaviours of the audit of one build.
AuditSpec(on) == AuditStart(on) /\ [][AuditNext]_auditVars

\* What the files bear out.
Backed(verdicts, files) ==
  \A i \in DOMAIN verdicts :
    LET c == verdicts[i].claim
    IN  /\ verdicts[i].status = "proven" => Cited(c, files) # {} \/ c.cites \cap GateEvidence # {}
        /\ verdicts[i].status = "contradicted" =>
             QuoteIsInCitedFile(c, files) \/ SymbolIsAbsent(c, files)

\* The requirements are numbered, and an audit has a verdict for each.
Counted ==
  /\ DOMAIN criteria = DOMAIN ParseCriteria(listed)
  /\ \E n \in Nat : DOMAIN criteria = 1 .. n
  /\ audit = <<>> \/ DOMAIN audit = DOMAIN criteria
  /\ stage \in {"audited", "fix", "types", "again"} =>
       DOMAIN audit = DOMAIN criteria /\ audit = [i \in DOMAIN criteria |-> audit[i]]

\* The audit is that of the files, or of those a repair would put back.
Recorded ==
  /\ stage \in {"audited", "fix", "done"} => Backed(audit, delivered)
  /\ stage \in {"types", "again"} => Backed(audit, repair.files)

\* A repair under way knows the audit and files of before.
Undoable ==
  /\ stage \in {"off", "prompt", "built"} => audit = <<>>
  /\ stage \in {"off", "prompt", "built", "audited"} => repair.outcome = "not-attempted"
  /\ stage \in {"fix", "types", "again"} =>
       /\ repair.outcome = "no-files" /\ repair.audit = audit /\ repair.dropped = dropped
       /\ stage = "fix" => repair.files = delivered

\* A build called finished has all its requirements proven.
Finished ==
  /\ finished \in BOOLEAN
  /\ stage \in {"off", "prompt", "built", "fix", "types", "again"} => finished = FALSE
  /\ finished = TRUE => /\ DOMAIN audit = DOMAIN criteria
                        /\ \A i \in DOMAIN audit : audit[i].status = "proven"

\* The inductive invariant of the audit.
AuditInv ==
  /\ stage \in {"off", "prompt", "built", "audited", "fix", "types", "again", "done"}
  /\ repair = [outcome |-> repair.outcome, green |-> repair.green, after |-> repair.after,
               audit |-> repair.audit, files |-> repair.files, dropped |-> repair.dropped]
  /\ repair.outcome \in {"not-attempted", "no-files", "kept", "reverted-types", "reverted-worse"}
  /\ Counted /\ Recorded /\ Undoable /\ Finished /\ RepairDoesNoHarm

(***************************************************************************)
(* The smaller of two numbers.                                             *)
(***************************************************************************)
LEMMA MinFacts ==
  ASSUME NEW m \in Nat, NEW n \in Nat
  PROVE  Min({m, n}) = IF m <= n THEN m ELSE n
BY DEF Min

(***************************************************************************)
(* However the first model repeats itself, the requirements are numbered   *)
(* from 1 without a hole (parseCriteria).                                  *)
(***************************************************************************)
LEMMA CriteriaCounted ==
  ASSUME NEW list \in Extraction \cup {<<>>}
  PROVE  \E n \in Nat : DOMAIN ParseCriteria(list) = 1 .. n
<1> DEFINE places == Firsts(list)
<1>1. DOMAIN list \in SUBSET Nat /\ IsFiniteSet(DOMAIN list)
  <2>1. CASE list \in Extraction
    <3>1. list \in Seq(ToSet(list)) BY <2>1, AuditAssumption
    <3>2. Len(list) \in Nat /\ DOMAIN list = 1 .. Len(list) BY <3>1
    <3> QED BY <3>2, FS_Interval
  <2>2. CASE list = <<>> BY <2>2, FS_EmptySet
  <2> QED BY <2>1, <2>2
<1>2. IsFiniteSet(places) /\ Cardinality(places) \in Nat
  BY <1>1, FS_Subset, FS_CardinalityType DEF Firsts
<1>3. Min({Cardinality(places), MaxCriteria}) \in Nat
  <2> HIDE DEF places
  <2> QED BY <1>2, MinFacts, AuditAssumption
<1> QED BY <1>3 DEF ParseCriteria

(***************************************************************************)
(* As many proven as there are requirements: then each of them is.         *)
(***************************************************************************)
LEMMA CountFacts ==
  ASSUME NEW verdicts, NEW n \in Nat, DOMAIN verdicts = 1 .. n
  PROVE  /\ Count("proven", verdicts) \in 0 .. n
         /\ Count("proven", verdicts) = n <=> \A i \in 1 .. n : verdicts[i].status = "proven"
<1> DEFINE proven == {i \in DOMAIN verdicts : verdicts[i].status = "proven"}
<1>1. IsFiniteSet(1 .. n) /\ Cardinality(1 .. n) = n BY FS_Interval
<1>2. IsFiniteSet(proven) /\ Cardinality(proven) \in Nat /\ Cardinality(proven) <= n
  BY <1>1, FS_Subset, FS_CardinalityType
<1>3. Cardinality(proven) = n => proven = 1 .. n BY <1>1, FS_Subset
<1>4. Count("proven", verdicts) = Cardinality(proven) BY DEF Count
<1> HIDE DEF proven
<1>5. Cardinality(proven) \in 0 .. n BY <1>2
<1>6. (\A i \in 1 .. n : verdicts[i].status = "proven") <=> proven = 1 .. n
  BY DEF proven
<1> QED BY <1>1, <1>3, <1>4, <1>5, <1>6

(***************************************************************************)
(* The same of a list of verdicts, as the code says it.                    *)
(***************************************************************************)
LEMMA AllThereFacts ==
  ASSUME NEW verdicts, NEW n \in Nat, verdicts = [i \in 1 .. n |-> verdicts[i]]
  PROVE  /\ Len(verdicts) = n
         /\ AllThere(verdicts) <=> \A i \in DOMAIN verdicts : verdicts[i].status = "proven"
<1>1. verdicts \in Seq({verdicts[i] : i \in 1 .. n}) OBVIOUS
<1>2. DOMAIN verdicts = 1 .. n OBVIOUS
<1>3. Len(verdicts) = n BY <1>1, <1>2
<1> QED BY <1>2, <1>3, CountFacts DEF AllThere

(***************************************************************************)
(* A verdict is borne out by the files it was made over.                   *)
(***************************************************************************)
LEMMA VerdictFacts ==
  ASSUME NEW c, NEW files
  PROVE  LET v == Verdict(c, files)
         IN  /\ v.claim = c
             /\ v.status = "proven" => Cited(c, files) # {} \/ c.cites \cap GateEvidence # {}
             /\ v.status = "contradicted" => QuoteIsInCitedFile(c, files) \/ SymbolIsAbsent(c, files)
BY DEF Verdict, Unverified

(***************************************************************************)
(* So are the verdicts of a reply, one for each requirement.               *)
(***************************************************************************)
LEMMA ParsedBacked ==
  ASSUME NEW reply, NEW files, NEW n \in Nat, DOMAIN reply = 1 .. n
  PROVE  LET verdicts == ParseVerdicts(reply, files)
         IN  /\ Backed(verdicts, files) /\ DOMAIN verdicts = 1 .. n
             /\ verdicts = [i \in 1 .. n |-> verdicts[i]]
BY VerdictFacts DEF ParseVerdicts, Backed

(***************************************************************************)
(* The discount of faked evidence takes none of that away.                 *)
(***************************************************************************)
LEMMA DiscountedBacked ==
  ASSUME NEW verdicts, NEW files, NEW n \in Nat, DOMAIN verdicts = 1 .. n, Backed(verdicts, files)
  PROVE  LET kept == DiscountFakedEvidence(verdicts, files)
         IN  /\ Backed(kept, files) /\ DOMAIN kept = 1 .. n
             /\ kept = [i \in 1 .. n |-> kept[i]]
<1> DEFINE kept == DiscountFakedEvidence(verdicts, files)
<1>1. DOMAIN kept = 1 .. n /\ kept = [i \in 1 .. n |-> kept[i]] BY DEF DiscountFakedEvidence
<1>2. \A i \in 1 .. n : kept[i] = verdicts[i] \/ kept[i].status = "unverified"
  BY DEF DiscountFakedEvidence, Unverified
<1> QED BY <1>1, <1>2 DEF Backed

(***************************************************************************)
(* The requirements are listed, once.                                      *)
(***************************************************************************)
LEMMA ExtractStep == AuditInv /\ Extract => AuditInv'
<1> SUFFICES ASSUME AuditInv, Extract PROVE AuditInv' OBVIOUS
<1>1. PICK list \in Extraction \cup {<<>>} :
        listed' = list /\ criteria' = ParseCriteria(list)
  BY DEF Extract
<1>2. PICK n \in Nat : DOMAIN ParseCriteria(list) = 1 .. n BY CriteriaCounted
<1>3. /\ stage' \in {"done", "built"} /\ UNCHANGED <<audit, dropped, repair, finished>>
      /\ audit = <<>> /\ repair.outcome = "not-attempted" /\ finished = FALSE
  BY DEF Extract, AuditInv, Undoable, Finished
<1>4. Counted' BY <1>1, <1>2, <1>3 DEF Counted
<1>5. Recorded' BY <1>3 DEF Recorded, Backed
<1>6. Undoable' BY <1>3 DEF Undoable
<1>7. Finished' BY <1>3 DEF Finished
<1>8. RepairDoesNoHarm' BY <1>3 DEF RepairDoesNoHarm
<1> QED BY <1>3, <1>4, <1>5, <1>6, <1>7, <1>8 DEF AuditInv

(***************************************************************************)
(* The audit is over the files as they are.                                *)
(***************************************************************************)
LEMMA AuditBuildStep == AuditInv /\ AuditBuild => AuditInv'
<1> SUFFICES ASSUME AuditInv, AuditBuild PROVE AuditInv' OBVIOUS
<1>1. PICK n \in Nat : DOMAIN criteria = 1 .. n BY DEF AuditInv, Counted
<1>2. PICK reply \in Replies :
        audit' = DiscountFakedEvidence(ParseVerdicts(reply, delivered), delivered)
  BY DEF AuditBuild
<1>3. DOMAIN reply = 1 .. n BY <1>1 DEF Replies
<1>4. /\ Backed(audit', delivered) /\ DOMAIN audit' = 1 .. n
      /\ audit' = [i \in 1 .. n |-> audit'[i]]
  BY <1>2, <1>3, ParsedBacked, DiscountedBacked
<1>5. /\ stage' = "audited" /\ UNCHANGED <<listed, criteria, delivered, repair>>
      /\ finished' = AllThere(audit') /\ repair.outcome = "not-attempted"
  BY DEF AuditBuild, AuditInv, Undoable
<1>6. Counted'
  <2>1. DOMAIN criteria' = 1 .. n /\ DOMAIN ParseCriteria(listed') = 1 .. n
    BY <1>1, <1>5 DEF AuditInv, Counted
  <2> QED BY <1>4, <2>1 DEF Counted
<1>7. Recorded' BY <1>4, <1>5 DEF Recorded, Backed
<1>8. Undoable' BY <1>5 DEF Undoable
<1>9. Finished'
  <2>1. finished' \in BOOLEAN BY <1>5 DEF AllThere
  <2>2. finished' = TRUE => \A i \in DOMAIN audit' : audit'[i].status = "proven"
    BY <1>4, <1>5, AllThereFacts
  <2> QED BY <1>1, <1>4, <1>5, <2>1, <2>2 DEF Finished
<1>10. RepairDoesNoHarm' BY <1>5 DEF RepairDoesNoHarm
<1> QED BY <1>5, <1>6, <1>7, <1>8, <1>9, <1>10 DEF AuditInv

(***************************************************************************)
(* A repair begins when something is left to do, so the build was not      *)
(* called finished.                                                        *)
(***************************************************************************)
LEMMA BeginRepairStep == AuditInv /\ BeginRepair => AuditInv'
<1> SUFFICES ASSUME AuditInv, BeginRepair PROVE AuditInv' OBVIOUS
<1>1. PICK types \in TypeCheck :
        repair' = [outcome |-> "no-files", green |-> types, after |-> "none",
                   audit |-> audit, files |-> delivered, dropped |-> dropped]
  BY DEF BeginRepair
<1>2. /\ stage = "audited" /\ stage' = "fix" /\ Unmet \in 1 .. MaxRepairable
      /\ UNCHANGED <<listed, criteria, delivered, audit, dropped, finished>>
  BY DEF BeginRepair
<1>3. PICK n \in Nat : DOMAIN criteria = 1 .. n BY DEF AuditInv, Counted
<1>4. finished = FALSE
  <2>1. audit = [i \in 1 .. n |-> audit[i]] BY <1>2, <1>3 DEF AuditInv, Counted
  <2>2. Len(audit) = n /\ Count("proven", audit) # n
    <3>1. Len(audit) = n BY <2>1, AllThereFacts
    <3>2. DOMAIN audit = 1 .. n BY <2>1
    <3>3. Count("proven", audit) \in 0 .. n BY <3>2, CountFacts
    <3> QED BY <1>2, <3>1, <3>3 DEF Unmet
  <2>3. ~(\A i \in DOMAIN audit : audit[i].status = "proven")
    BY <2>1, <2>2, CountFacts
  <2> QED BY <2>3 DEF AuditInv, Finished
<1>5. Counted' BY <1>2 DEF AuditInv, Counted
<1>6. Recorded' BY <1>2 DEF AuditInv, Recorded, Backed
<1>7. Undoable' BY <1>1, <1>2 DEF Undoable
<1>8. Finished' BY <1>2, <1>4 DEF Finished
<1>9. RepairDoesNoHarm' BY <1>2 DEF RepairDoesNoHarm
<1> QED BY <1>1, <1>2, <1>5, <1>6, <1>7, <1>8, <1>9 DEF AuditInv

(***************************************************************************)
(* Nothing to repair, or a repair that writes: the audit stays that of the *)
(* files before it.                                                        *)
(***************************************************************************)
LEMMA SimpleSteps ==
  AuditInv /\ (LeaveAlone \/ NothingWritten \/ RepairWrites \/ CheckTypesAgain) => AuditInv'
<1>1. ASSUME AuditInv, LeaveAlone PROVE AuditInv'
  BY <1>1 DEF LeaveAlone, AuditInv, Counted, Recorded, Undoable, Finished, RepairDoesNoHarm, Backed
<1>2. ASSUME AuditInv, NothingWritten PROVE AuditInv'
  BY <1>2 DEF NothingWritten, AuditInv, Counted, Recorded, Undoable, Finished, RepairDoesNoHarm,
              Backed
<1>3. ASSUME AuditInv, RepairWrites PROVE AuditInv'
  BY <1>3 DEF RepairWrites, AuditInv, Counted, Recorded, Undoable, Finished, RepairDoesNoHarm,
              Backed
<1>4. ASSUME AuditInv, CheckTypesAgain PROVE AuditInv'
  <2>1. PICK types \in TypeCheck : repair' = [repair EXCEPT !.after = types]
    BY <1>4 DEF CheckTypesAgain
  <2>2. /\ repair'.outcome = repair.outcome /\ repair'.green = repair.green
        /\ repair'.after = types /\ repair'.audit = repair.audit
        /\ repair'.files = repair.files /\ repair'.dropped = repair.dropped
        /\ repair' = [outcome |-> repair'.outcome, green |-> repair'.green,
                      after |-> repair'.after, audit |-> repair'.audit,
                      files |-> repair'.files, dropped |-> repair'.dropped]
    BY <1>4, <2>1 DEF AuditInv
  <2>3. /\ stage = "types" /\ stage' = "again"
        /\ UNCHANGED <<listed, criteria, delivered, audit, dropped, finished>>
    BY <1>4 DEF CheckTypesAgain
  <2> QED BY <1>4, <2>2, <2>3 DEF AuditInv, Counted, Recorded, Undoable, Finished,
                                  RepairDoesNoHarm, Backed
<1> QED BY <1>1, <1>2, <1>3, <1>4

(***************************************************************************)
(* A repair is kept with the audit of its own files, or put back with the  *)
(* files of the old one.                                                   *)
(***************************************************************************)
LEMMA ReauditStep == AuditInv /\ Reaudit => AuditInv'
<1> SUFFICES ASSUME AuditInv, Reaudit PROVE AuditInv' OBVIOUS
<1>1. PICK n \in Nat : DOMAIN criteria = 1 .. n BY DEF AuditInv, Counted
<1>2. PICK reply \in Replies :
        LET after == ParseVerdicts(reply, delivered)
            outcome == JudgeRepair(Count("proven", audit), Count("proven", after))
            kept == outcome = "kept"
        IN  /\ repair' = [repair EXCEPT !.outcome = outcome]
            /\ audit' = IF kept THEN after ELSE audit
            /\ dropped' = IF kept THEN 0 ELSE dropped
            /\ delivered' = IF kept THEN delivered ELSE repair.files
            /\ finished' = (finished \/ (kept /\ AllThere(after)))
  BY Zenon DEF Reaudit
<1> DEFINE after == ParseVerdicts(reply, delivered)
           outcome == JudgeRepair(Count("proven", audit), Count("proven", after))
<1>3. /\ repair' = [repair EXCEPT !.outcome = outcome]
      /\ audit' = IF outcome = "kept" THEN after ELSE audit
      /\ dropped' = IF outcome = "kept" THEN 0 ELSE dropped
      /\ delivered' = IF outcome = "kept" THEN delivered ELSE repair.files
      /\ finished' = (finished \/ (outcome = "kept" /\ AllThere(after)))
  BY <1>2, Zenon
<1>4. DOMAIN reply = 1 .. n BY <1>1 DEF Replies
<1>5. Backed(after, delivered) /\ DOMAIN after = 1 .. n /\ after = [i \in 1 .. n |-> after[i]]
  BY <1>4, ParsedBacked
<1>6. /\ stage = "again" /\ stage' = "done" /\ UNCHANGED <<listed, criteria>>
      /\ Backed(audit, repair.files) /\ DOMAIN audit = 1 .. n /\ finished = FALSE
      /\ repair.audit = audit /\ repair.dropped = dropped
  BY <1>1 DEF Reaudit, AuditInv, Counted, Recorded, Undoable, Finished
<1>7. /\ outcome \in {"kept", "reverted-types", "reverted-worse"}
      /\ outcome = "kept" => /\ Count("proven", after) >= Count("proven", audit)
                             /\ ~(repair.green = "pass" /\ repair.after = "fail")
  <2>1. Count("proven", after) \in 0 .. n /\ Count("proven", audit) \in 0 .. n
    BY <1>5, <1>6, CountFacts
  <2> QED BY <2>1 DEF JudgeRepair, Green
<1>8. outcome = "kept" =>
        (AllThere(after) <=> \A i \in DOMAIN after : after[i].status = "proven")
  BY <1>5, AllThereFacts
<1> HIDE DEF after, outcome
<1>9. /\ repair'.outcome = outcome /\ repair'.green = repair.green
      /\ repair'.after = repair.after /\ repair'.audit = repair.audit
      /\ repair'.files = repair.files /\ repair'.dropped = repair.dropped
      /\ repair' = [outcome |-> repair'.outcome, green |-> repair'.green,
                    after |-> repair'.after, audit |-> repair'.audit,
                    files |-> repair'.files, dropped |-> repair'.dropped]
  BY <1>3 DEF AuditInv
<1>10. CASE outcome = "kept"
  <2>1. audit' = after /\ delivered' = delivered /\ finished' = AllThere(after)
    <3>1. finished' = (finished \/ AllThere(after)) BY <1>3, <1>10, Zenon
    <3>2. finished' = AllThere(after) BY <1>6, <3>1 DEF AllThere
    <3> QED BY <1>3, <1>10, <3>2
  <2>2. Counted' BY <1>1, <1>5, <1>6, <2>1 DEF AuditInv, Counted
  <2>3. Recorded' BY <1>5, <1>6, <2>1 DEF Recorded, Backed
  <2>4. Undoable' BY <1>6 DEF Undoable
  <2>5. Finished'
    <3>1. finished' \in BOOLEAN BY <2>1 DEF AllThere
    <3> QED BY <1>1, <1>5, <1>6, <1>8, <1>10, <2>1, <3>1 DEF Finished
  <2>6. RepairDoesNoHarm' BY <1>6, <1>7, <1>9, <1>10, <2>1 DEF RepairDoesNoHarm
  <2> QED BY <1>6, <1>7, <1>9, <2>2, <2>3, <2>4, <2>5, <2>6 DEF AuditInv
<1>11. CASE outcome # "kept"
  <2>1. /\ audit' = audit /\ delivered' = repair.files /\ finished' = FALSE
        /\ dropped' = dropped
    BY <1>3, <1>6, <1>11
  <2>2. Counted' BY <1>6, <2>1 DEF AuditInv, Counted
  <2>3. Recorded' BY <1>6, <2>1 DEF Recorded, Backed
  <2>4. Undoable' BY <1>6 DEF Undoable
  <2>5. Finished' BY <2>1 DEF Finished
  <2>6. RepairDoesNoHarm' BY <1>6, <1>7, <1>9, <1>11, <2>1 DEF RepairDoesNoHarm
  <2> QED BY <1>6, <1>7, <1>9, <2>2, <2>3, <2>4, <2>5, <2>6 DEF AuditInv
<1> QED BY <1>10, <1>11

(***************************************************************************)
(* The invariant holds, whether the build is audited or not.               *)
(***************************************************************************)
LEMMA AuditInvariant == ASSUME NEW on \in BOOLEAN PROVE AuditSpec(on) => []AuditInv
<1>1. AuditStart(on) => AuditInv
  <2> SUFFICES ASSUME AuditStart(on) PROVE AuditInv OBVIOUS
  <2>1. /\ stage \in {"off", "prompt"} /\ listed = <<>> /\ criteria = <<>> /\ audit = <<>>
        /\ finished = FALSE /\ repair.outcome = "not-attempted"
        /\ repair = [outcome |-> repair.outcome, green |-> repair.green, after |-> repair.after,
                     audit |-> repair.audit, files |-> repair.files, dropped |-> repair.dropped]
    BY DEF AuditStart, NoRepair
  <2>2. DOMAIN ParseCriteria(<<>>) = {}
    <3>1. Firsts(<<>>) = {} BY DEF Firsts
    <3>2. Cardinality(Firsts(<<>>)) = 0 BY <3>1, FS_EmptySet
    <3>3. Min({0, MaxCriteria}) = 0 BY MinFacts, AuditAssumption
    <3>4. DOMAIN ParseCriteria(<<>>) = 1 .. Min({Cardinality(Firsts(<<>>)), MaxCriteria})
      BY DEF ParseCriteria
    <3>5. DOMAIN ParseCriteria(<<>>) = 1 .. 0
      <4> HIDE DEF Firsts
      <4>1. Min({Cardinality(Firsts(<<>>)), MaxCriteria}) = 0 BY <3>2, <3>3, Zenon
      <4> QED BY <3>4, <4>1, Zenon
    <3> QED BY <3>5
  <2>3. Counted BY <2>1, <2>2 DEF Counted
  <2> QED BY <2>1, <2>3 DEF AuditInv, Recorded, Undoable, Finished, RepairDoesNoHarm
<1>2. AuditInv /\ [AuditNext]_auditVars => AuditInv'
  <2>1. ASSUME AuditInv, UNCHANGED auditVars PROVE AuditInv'
    BY <2>1 DEF auditVars, AuditInv, Counted, Recorded, Undoable, Finished, RepairDoesNoHarm,
                Backed, Count
  <2> QED BY <2>1, ExtractStep, AuditBuildStep, BeginRepairStep, SimpleSteps, ReauditStep
          DEF AuditNext
<1> QED BY <1>1, <1>2, PTL DEF AuditSpec

(***************************************************************************)
(* Type correctness: there is no audit, or one verdict for each            *)
(* requirement, and a repair ends in one of its outcomes.                  *)
(***************************************************************************)
THEOREM AuditTypeCorrect == ASSUME NEW on \in BOOLEAN PROVE AuditSpec(on) => []AuditTypeOK
<1>1. AuditInv => AuditTypeOK BY DEF AuditInv, Counted, AuditTypeOK
<1> QED BY <1>1, AuditInvariant, PTL

(***************************************************************************)
(* What the audit makes of a build is borne out by its files, its repair   *)
(* included (completion-audit.ts, audit-repair.ts, build.ts 4394-4616),    *)
(* for any lists of requirements, claims, files and caps.                  *)
(***************************************************************************)
THEOREM AuditBorneOutAlways == ASSUME NEW on \in BOOLEAN PROVE AuditSpec(on) => []AuditBorneOut
<1>1. AuditInv => VerdictsBacked BY DEF AuditInv, Recorded, Backed, VerdictsBacked
<1>2. AuditInv => FinishedMeansProven BY DEF AuditInv, Counted, Finished, FinishedMeansProven
<1>3. AuditInv => AuditBorneOut BY <1>1, <1>2 DEF AuditInv, AuditBorneOut
<1> QED BY <1>3, AuditInvariant, PTL

-----------------------------------------------------------------------------
(***************************************************************************)
(* What a build says of its own code (CodeGraph), for any files.           *)
(***************************************************************************)
(***************************************************************************)
(* A set of numbers that is not empty has a least one.                     *)
(***************************************************************************)
LEMMA LeastOf ==
  ASSUME NEW T \in SUBSET Nat, T # {}
  PROVE  \E x \in T : \A y \in T : x <= y
<1> DEFINE R == OpToRel(<, Nat)
<1>1. IsWellFoundedOn(R, Nat)
  BY NatLessThanWellFounded
<1>2. \E x \in T : \A y \in T : ~ (<<y, x>> \in R)
  BY <1>1, WFMin
<1>3. \A x, y \in Nat : <<y, x>> \in R <=> y < x
  BY DEF OpToRel
<1> HIDE DEF R
<1>4. PICK x \in T : \A y \in T : ~ (<<y, x>> \in R)
  BY <1>2
<1>5. ASSUME NEW y \in T PROVE x <= y
  <2>1. x \in Nat /\ y \in Nat
    OBVIOUS
  <2>2. ~(y < x)
    BY <1>3, <1>4, <2>1
  <2> QED BY <2>1, <2>2
<1> QED BY <1>5

\* s, read in p, stands for the i-th of the paths tried.
Stands(p, s, files, i) ==
  /\ s.at # "package" /\ ~s.query
  /\ i \in 1 .. Len(Candidates(p, s)) /\ Candidates(p, s)[i] \in files
  /\ \A j \in 1 .. i - 1 : Candidates(p, s)[j] \notin files

\* A path with every extension of code.
Extensions(parts) == {File(parts, e) : e \in ToSet(CodeExt)}
\* All that may be tried.
Guess(p, s) ==
  {File(BaseOf(p, s), s.ext)}
    \cup Extensions(BaseOf(p, s)) \cup Extensions(Append(BaseOf(p, s), "index"))

(***************************************************************************)
(* The six extensions of code.                                             *)
(***************************************************************************)
LEMMA ExtsAre == /\ DOMAIN CodeExt = 1 .. 6
                 /\ ToSet(CodeExt) = {"tsx", "ts", "jsx", "js", "mts", "mjs"}
<1>1. DOMAIN CodeExt = 1 .. 6
  BY DEF CodeExt
<1>2. ToSet(CodeExt) \subseteq {"tsx", "ts", "jsx", "js", "mts", "mjs"}
  BY <1>1 DEF CodeExt, ToSet
<1>3. CodeExt[1] = "tsx" /\ CodeExt[2] = "ts" /\ CodeExt[3] = "jsx" /\ CodeExt[4] = "js"
        /\ CodeExt[5] = "mts" /\ CodeExt[6] = "mjs"
  BY DEF CodeExt
<1>4. {"tsx", "ts", "jsx", "js", "mts", "mjs"} \subseteq ToSet(CodeExt)
  BY <1>1, <1>3 DEF ToSet
<1> QED BY <1>1, <1>2, <1>4

(***************************************************************************)
(* A function over the first n numbers is a sequence of length n.          *)
(***************************************************************************)
LEMMA FunctionIsSeq ==
  ASSUME NEW S, NEW n \in Nat, NEW f \in [1 .. n -> S]
  PROVE  f \in Seq(S) /\ Len(f) = n
<1>1. f \in UNION {[1 .. m -> S] : m \in Nat}
  OBVIOUS
<1>2. f \in Seq(S)
  BY <1>1, SeqDef
<1>3. DOMAIN f = 1 .. Len(f) /\ Len(f) \in Nat
  BY <1>2, LenProperties
<1>4. 1 .. Len(f) = 1 .. n
  BY <1>3
<1> QED BY <1>2, <1>3, <1>4

(***************************************************************************)
(* A path with each of the extensions, as the sequence Candidates makes of *)
(* it.                                                                     *)
(***************************************************************************)
LEMMA ExtSeq ==
  ASSUME NEW parts
  PROVE  LET w == [i \in DOMAIN CodeExt |-> File(parts, CodeExt[i])]
         IN  /\ w \in Seq(Extensions(parts)) /\ Len(w) = 6
             /\ \A i \in 1 .. 6 : w[i] = File(parts, CodeExt[i])
             /\ \A q \in Extensions(parts) : \E i \in 1 .. 6 : w[i] = q
<1> DEFINE w == [i \in DOMAIN CodeExt |-> File(parts, CodeExt[i])]
<1>1. \A i \in 1 .. 6 : CodeExt[i] \in ToSet(CodeExt)
  BY ExtsAre DEF ToSet
<1>2. w \in [1 .. 6 -> Extensions(parts)]
  BY <1>1, ExtsAre DEF Extensions
<1>3. w \in Seq(Extensions(parts)) /\ Len(w) = 6
  <2> HIDE DEF w
  <2>1. \A n \in Nat : w \in [1 .. n -> Extensions(parts)] =>
          w \in Seq(Extensions(parts)) /\ Len(w) = n
    BY FunctionIsSeq
  <2> QED BY <1>2, <2>1
<1>4. \A i \in 1 .. 6 : w[i] = File(parts, CodeExt[i])
  BY ExtsAre
<1>5. ASSUME NEW q \in Extensions(parts) PROVE \E i \in 1 .. 6 : w[i] = q
  <2>1. PICK e \in ToSet(CodeExt) : q = File(parts, e)
    BY DEF Extensions
  <2>2. PICK i \in 1 .. 6 : e = CodeExt[i]
    BY <2>1, ExtsAre DEF ToSet
  <2> QED BY <1>4, <2>1, <2>2
<1> QED BY <1>3, <1>4, <1>5

\* From behind the n-th on, c has parts with every extension of code.
Lists(c, n, parts) == \A i \in 1 .. 6 : c[i + n] = File(parts, CodeExt[i])

(***************************************************************************)
(* What resolveSpecifier() tries, at its places: the path as written; with *)
(* an extension, if it has none or is a .js; and a folder's index, if it   *)
(* has none.                                                               *)
(***************************************************************************)
LEMMA CandidatesAre ==
  ASSUME NEW p, NEW s
  PROVE  /\ Candidates(p, s) \in Seq(Guess(p, s))
         /\ Candidates(p, s)[1] = File(BaseOf(p, s), s.ext)
         /\ s.ext \notin {"", "js"} => Len(Candidates(p, s)) = 1
         /\ s.ext = "js" =>
              Len(Candidates(p, s)) = 7 /\ Lists(Candidates(p, s), 1, BaseOf(p, s))
         /\ s.ext = "" =>
              /\ Len(Candidates(p, s)) = 13 /\ Lists(Candidates(p, s), 1, BaseOf(p, s))
              /\ Lists(Candidates(p, s), 7, Append(BaseOf(p, s), "index"))
<1> DEFINE base == BaseOf(p, s)
           c == Candidates(p, s)
           G == Guess(p, s)
           one == <<File(base, s.ext)>>
           w == [i \in DOMAIN CodeExt |-> File(base, CodeExt[i])]
           x == [i \in DOMAIN CodeExt |-> File(Append(base, "index"), CodeExt[i])]
           two == IF s.ext \in {"", "js"} THEN w ELSE <<>>
           three == IF s.ext = "" THEN x ELSE <<>>
<1>1. c = one \o two \o three
  BY DEF Candidates
<1>2. one \in Seq(G) /\ Len(one) = 1 /\ one[1] = File(base, s.ext)
  BY DEF Guess
<1>3. w \in Seq(G) /\ Len(w) = 6 /\ \A i \in 1 .. 6 : w[i] = File(base, CodeExt[i])
  <2>1. w \in Seq(Extensions(base)) /\ Len(w) = 6 /\ \A i \in 1 .. 6 : w[i] = File(base, CodeExt[i])
    BY ExtSeq
  <2>2. Extensions(base) \subseteq G
    BY DEF Guess
  <2> HIDE DEF w, G
  <2> QED BY <2>1, <2>2, SeqMonotonic
<1>4. x \in Seq(G) /\ Len(x) = 6 /\ \A i \in 1 .. 6 : x[i] = File(Append(base, "index"), CodeExt[i])
  <2>1. /\ x \in Seq(Extensions(Append(base, "index"))) /\ Len(x) = 6
        /\ \A i \in 1 .. 6 : x[i] = File(Append(base, "index"), CodeExt[i])
    BY ExtSeq
  <2>2. Extensions(Append(base, "index")) \subseteq G
    BY DEF Guess
  <2> HIDE DEF x, G
  <2> QED BY <2>1, <2>2, SeqMonotonic
<1> HIDE DEF base, c, G, one, w, x
<1>5. two \in Seq(G) /\ three \in Seq(G)
  BY <1>3, <1>4, EmptySeq
<1> HIDE DEF two, three
<1>6. /\ one \o two \in Seq(G) /\ Len(one \o two) = 1 + Len(two)
      /\ \A i \in 1 .. 1 + Len(two) : (one \o two)[i] = IF i <= 1 THEN one[i] ELSE two[i - 1]
  <2>1. /\ one \o two \in Seq(G) /\ Len(one \o two) = Len(one) + Len(two)
        /\ \A i \in 1 .. Len(one) + Len(two) :
             (one \o two)[i] = IF i <= Len(one) THEN one[i] ELSE two[i - Len(one)]
    BY <1>2, <1>5, ConcatProperties, Zenon
  <2> QED BY <1>2, <2>1
<1>7. /\ c \in Seq(G) /\ Len(c) = 1 + Len(two) + Len(three)
      /\ \A i \in 1 .. 1 + Len(two) + Len(three) :
           c[i] = IF i <= 1 + Len(two) THEN (one \o two)[i] ELSE three[i - (1 + Len(two))]
  <2> DEFINE ab == one \o two
  <2>1. ab \in Seq(G) /\ Len(ab) = 1 + Len(two) /\ c = ab \o three
    BY <1>1, <1>6
  <2> HIDE DEF ab
  <2>2. /\ c \in Seq(G) /\ Len(c) = 1 + Len(two) + Len(three)
        /\ \A i \in 1 .. 1 + Len(two) + Len(three) :
             c[i] = IF i <= 1 + Len(two) THEN ab[i] ELSE three[i - (1 + Len(two))]
    <3>1. /\ c \in Seq(G) /\ Len(c) = Len(ab) + Len(three)
          /\ \A i \in 1 .. Len(ab) + Len(three) :
               c[i] = IF i <= Len(ab) THEN ab[i] ELSE three[i - Len(ab)]
      <4>1. /\ ab \o three \in Seq(G) /\ Len(ab \o three) = Len(ab) + Len(three)
            /\ \A i \in 1 .. Len(ab) + Len(three) :
                 (ab \o three)[i] = IF i <= Len(ab) THEN ab[i] ELSE three[i - Len(ab)]
        BY <1>5, <2>1, ConcatProperties, Zenon
      <4> QED BY <2>1, <4>1, Zenon
    <3> QED BY <2>1, <3>1
  <2> QED BY <2>2 DEF ab
<1>8. Len(two) \in Nat /\ Len(three) \in Nat
  BY <1>5, LenProperties
<1>9. \A i \in 1 .. Len(two) : c[i + 1] = two[i]
  <2> QED BY <1>6, <1>7, <1>8
<1>10. \A i \in 1 .. Len(three) : c[i + 1 + Len(two)] = three[i]
  <2>1. ASSUME NEW i \in 1 .. Len(three) PROVE c[i + 1 + Len(two)] = three[i]
    <3> DEFINE k == i + 1 + Len(two)
    <3>1. k \in 1 .. 1 + Len(two) + Len(three) /\ ~(k <= 1 + Len(two)) /\ k - (1 + Len(two)) = i
      BY <1>8
    <3> QED BY <1>7, <3>1
  <2> QED BY <2>1
<1>11. c[1] = File(base, s.ext)
  <2> QED BY <1>2, <1>6, <1>7, <1>8
<1>12. CASE s.ext \notin {"", "js"}
  <2>1. two = <<>> /\ three = <<>>
    BY <1>12 DEF two, three
  <2>2. Len(c) = 1
    BY <1>7, <2>1, EmptySeq
  <2> QED BY <1>7, <1>11, <1>12, <2>2 DEF base, c, G
<1>13. CASE s.ext = "js"
  <2>1. two = w /\ three = <<>>
    BY <1>13 DEF two, three
  <2>3. Len(two) = 6 /\ Len(three) = 0
    BY <1>3, <2>1, EmptySeq
  <2>2. Len(c) = 7 /\ Lists(c, 1, base)
    <3>1. Len(c) = 7
      BY <1>7, <2>3
    <3>2. \A i \in 1 .. 6 : c[i + 1] = w[i]
      BY <1>9, <2>1, <2>3
    <3> QED BY <1>3, <3>1, <3>2 DEF Lists
  <2> QED BY <1>7, <1>11, <1>13, <2>2 DEF base, c, G
<1>14. CASE s.ext = ""
  <2>1. two = w /\ three = x
    BY <1>14 DEF two, three
  <2>4. Len(two) = 6 /\ Len(three) = 6
    BY <1>3, <1>4, <2>1
  <2>2. Len(c) = 13 /\ Lists(c, 1, base)
    <3>1. Len(c) = 13
      BY <1>7, <2>4
    <3>2. \A i \in 1 .. 6 : c[i + 1] = w[i]
      BY <1>9, <2>1, <2>4
    <3> QED BY <1>3, <3>1, <3>2 DEF Lists
  <2>3. Lists(c, 7, Append(base, "index"))
    <3>1. ASSUME NEW i \in 1 .. 6 PROVE c[i + 7] = x[i]
      <4>1. i + 1 + Len(two) = i + 7 /\ i \in 1 .. Len(three)
        BY <2>4
      <4> QED BY <1>10, <2>1, <4>1
    <3> QED BY <3>1, <1>4 DEF Lists
  <2> QED BY <1>7, <1>11, <1>14, <2>2, <2>3 DEF base, c, G
<1> QED BY <1>12, <1>13, <1>14

(***************************************************************************)
(* What is resolved is the first of them that is there, and None if none   *)
(* is.                                                                     *)
(***************************************************************************)
LEMMA Resolution ==
  ASSUME NEW p, NEW s, NEW files
  PROVE  /\ (\A i \in 1 .. Len(Candidates(p, s)) : ~Stands(p, s, files, i))
              => ResolveSpecifier(p, s, files) = None
         /\ \A i \in Nat : Stands(p, s, files, i) =>
              ResolveSpecifier(p, s, files) = Candidates(p, s)[i]
<1> DEFINE c == Candidates(p, s)
           I == {i \in 1 .. Len(c) : c[i] \in files}
           found == SelectInSeq(c, LAMBDA q : q \in files)
<1>1. Len(c) \in Nat
  BY CandidatesAre, LenProperties
<1>2. found = IF I # {} THEN Min(I) ELSE 0
  BY DEF SelectInSeq
<1>3. I # {} => Min(I) \in I /\ \A j \in I : Min(I) <= j
  <2>1. ASSUME I # {} PROVE \E x \in I : \A y \in I : x <= y
    <3>1. I \in SUBSET Nat
      BY <1>1
    <3> HIDE DEF I
    <3> QED BY <2>1, <3>1, LeastOf
  <2> HIDE DEF I
  <2> QED BY <2>1 DEF Min
<1>4. ResolveSpecifier(p, s, files) =
        IF s.at = "package" \/ s.query \/ found = 0 THEN None ELSE c[found]
  BY DEF ResolveSpecifier
<1> HIDE DEF found, c
<1>5. \A i \in Nat : Stands(p, s, files, i) <=>
        s.at # "package" /\ ~s.query /\ i \in I /\ \A j \in 1 .. i - 1 : j \notin I
  BY <1>1 DEF Stands, c
<1>6. ASSUME NEW i \in Nat, Stands(p, s, files, i)
      PROVE  ResolveSpecifier(p, s, files) = c[i]
  <2>1. i \in I /\ Min(I) \in I /\ Min(I) <= i
    BY <1>3, <1>5, <1>6
  <2>5. i \in Nat /\ Min(I) \in Nat /\ Min(I) # 0
    BY <1>1, <2>1
  <2>2. I \subseteq Nat /\ 0 \notin I
    BY <1>1
  <2>3. \A j \in 1 .. i - 1 : j \notin I
    BY <1>5, <1>6
  <2> HIDE DEF I
  <2>4. Min(I) = i
    BY <2>1, <2>3, <2>5
  <2> QED BY <1>2, <1>4, <1>5, <1>6, <2>1, <2>2, <2>4
<1>7. ASSUME \A i \in 1 .. Len(c) : ~Stands(p, s, files, i)
      PROVE  ResolveSpecifier(p, s, files) = None
  <2>1. CASE I = {}
    BY <1>2, <1>4, <2>1
  <2>2. CASE I # {} /\ s.at # "package" /\ ~s.query
    <3>1. Min(I) \in I /\ Min(I) \in Nat /\ Min(I) \in 1 .. Len(c)
      BY <1>1, <1>3, <2>2
    <3>2. \A j \in I : Min(I) <= j /\ j \in Nat
      BY <1>1, <1>3, <2>2
    <3> HIDE DEF I
    <3>3. \A j \in 1 .. Min(I) - 1 : j \notin I
      BY <3>1, <3>2
    <3> QED BY <1>5, <1>7, <2>2, <3>1, <3>3
  <2>3. CASE s.at = "package" \/ s.query
    BY <1>4, <2>3
  <2> QED BY <2>1, <2>2, <2>3
<1> QED BY <1>6, <1>7 DEF c

(***************************************************************************)
(* Induction over the numbers, as a fact about sets, which the provers can *)
(* instantiate.                                                            *)
(***************************************************************************)
LEMMA ByInduction ==
  ASSUME NEW T \in SUBSET Nat, 0 \in T, \A n \in T : n + 1 \in T
  PROVE  T = Nat
<1>1. SUFFICES ASSUME Nat \ T # {} PROVE FALSE
  OBVIOUS
<1>2. PICK x \in Nat \ T : \A y \in Nat \ T : x <= y
  BY <1>1, LeastOf
<1>3. x # 0 /\ x - 1 \in Nat
  BY <1>2
<1>4. x - 1 \in T
  BY <1>2, <1>3
<1> QED BY <1>2, <1>3, <1>4

\* f begins with b and goes on by g.
Iterates(f, D, g, b) ==
  f \in [Nat -> D] /\ f[0] = b /\ \A n \in Nat : f[n + 1] = g[f[n]]

(***************************************************************************)
(* So a function over the numbers may be defined by a first value and a    *)
(* step.                                                                   *)
(***************************************************************************)
LEMMA IteratedExists ==
  ASSUME NEW D, NEW g \in [D -> D], NEW b \in D
  PROVE  \E f : Iterates(f, D, g, b)
<1> DEFINE Upto(n, a) == a \in [0 .. n -> D] /\ a[0] = b /\ \A i \in 0 .. n - 1 : a[i + 1] = g[a[i]]
<1> DEFINE T == {n \in Nat : \E a : Upto(n, a)}
<1>1. 0 \in T
  <2>1. Upto(0, [i \in 0 .. 0 |-> b])
    OBVIOUS
  <2> QED BY <2>1
<1>2. ASSUME NEW n \in T PROVE n + 1 \in T
  <2>1. n \in Nat
    OBVIOUS
  <2>2. PICK a : Upto(n, a)
    OBVIOUS
  <2> DEFINE c == [i \in 0 .. n + 1 |-> IF i = n + 1 THEN g[a[n]] ELSE a[i]]
  <2>3. c \in [0 .. n + 1 -> D] /\ c[0] = b
    BY <2>1, <2>2
  <2>4. ASSUME NEW i \in 0 .. n PROVE c[i + 1] = g[c[i]]
    <3>1. CASE i = n
      BY <3>1, <2>1, <2>2
    <3>2. CASE i # n
      BY <3>2, <2>1, <2>2
    <3> QED BY <3>1, <3>2
  <2> HIDE DEF c
  <2>5. Upto(n + 1, c)
    BY <2>1, <2>3, <2>4
  <2>6. n + 1 \in Nat
    BY <2>1
  <2> HIDE DEF Upto
  <2> QED BY <2>5, <2>6
<1> HIDE DEF T
<1>3. T = Nat
  <2>1. T \subseteq Nat
    BY DEF T
  <2> QED BY <1>1, <1>2, <2>1, ByInduction
<1>4. ASSUME NEW n \in Nat PROVE \E a : Upto(n, a)
  BY <1>3 DEF T
<1> HIDE DEF Upto
<1> DEFINE A == [n \in Nat |-> CHOOSE a : Upto(n, a)]
<1>5. ASSUME NEW n \in Nat PROVE Upto(n, A[n])
  BY <1>4
<1> HIDE DEF A
<1>6. ASSUME NEW n \in Nat, NEW i \in 0 .. n PROVE A[n][i] = A[i][i]
  <2> DEFINE S == {j \in Nat : j <= n => A[n][j] = A[j][j]}
  <2>1. 0 \in S
    BY <1>5 DEF Upto
  <2>2. ASSUME NEW j \in S PROVE j + 1 \in S
    <3>1. CASE j + 1 > n
      BY <3>1
    <3>2. CASE j + 1 <= n
      <4> DEFINE Q == {k \in Nat : k <= j + 1 => A[n][k] = A[j + 1][k]}
      <4>1. 0 \in Q
        BY <1>5 DEF Upto
      <4>2. ASSUME NEW k \in Q PROVE k + 1 \in Q
        <5>1. CASE k + 1 > j + 1
          BY <5>1
        <5>2. CASE k + 1 <= j + 1
          <6>1. A[n][k] = A[j + 1][k]
            BY <5>2
          <6>2. A[n][k + 1] = g[A[n][k]]
            BY <1>5, <3>2, <5>2 DEF Upto
          <6>3. A[j + 1][k + 1] = g[A[j + 1][k]]
            BY <1>5, <5>2 DEF Upto
          <6> QED BY <6>1, <6>2, <6>3
        <5> QED BY <5>1, <5>2
      <4>3. Q = Nat
        <5>1. Q \subseteq Nat
          OBVIOUS
        <5> HIDE DEF Q
        <5> QED BY <4>1, <4>2, <5>1, ByInduction
      <4> QED BY <4>3
    <3> QED BY <3>1, <3>2
  <2>3. S = Nat
    <3>1. S \subseteq Nat
      OBVIOUS
    <3> HIDE DEF S
    <3> QED BY <2>1, <2>2, <3>1, ByInduction
  <2> QED BY <2>3
<1> DEFINE f == [n \in Nat |-> A[n][n]]
<1>7. f \in [Nat -> D]
  BY <1>5 DEF Upto
<1>8. f[0] = b
  BY <1>5 DEF Upto
<1>9. ASSUME NEW n \in Nat PROVE f[n + 1] = g[f[n]]
  <2>1. A[n + 1][n + 1] = g[A[n + 1][n]]
    BY <1>5 DEF Upto
  <2>2. A[n + 1][n] = A[n][n]
    BY <1>6
  <2> QED BY <2>1, <2>2
<1> QED BY <1>7, <1>8, <1>9 DEF Iterates

(***************************************************************************)
(* Either nothing is found, or the one it stands for.                      *)
(***************************************************************************)
LEMMA ResolveCases ==
  ASSUME NEW p, NEW s, NEW files
  PROVE  \/ /\ ResolveSpecifier(p, s, files) = None
            /\ \A i \in 1 .. Len(Candidates(p, s)) : ~Stands(p, s, files, i)
         \/ \E i \in 1 .. Len(Candidates(p, s)) :
              /\ Stands(p, s, files, i) /\ ResolveSpecifier(p, s, files) = Candidates(p, s)[i]
              /\ ResolveSpecifier(p, s, files) \in files
<1>1. CASE \A i \in 1 .. Len(Candidates(p, s)) : ~Stands(p, s, files, i)
  BY <1>1, Resolution
<1>2. ASSUME NEW i \in 1 .. Len(Candidates(p, s)), Stands(p, s, files, i)
      PROVE  /\ ResolveSpecifier(p, s, files) = Candidates(p, s)[i]
             /\ ResolveSpecifier(p, s, files) \in files
  <2>1. Len(Candidates(p, s)) \in Nat
    BY CandidatesAre, LenProperties
  <2>2. i \in Nat
    BY <2>1
  <2>3. Candidates(p, s)[i] \in files
    BY <1>2 DEF Stands
  <2> QED BY <1>2, <2>2, <2>3, Resolution
<1> QED BY <1>1, <1>2

(***************************************************************************)
(* What is found is one of the files.                                      *)
(***************************************************************************)
LEMMA ResolveIn ==
  ASSUME NEW p, NEW s, NEW files, ResolveSpecifier(p, s, files) # None
  PROVE  /\ ResolveSpecifier(p, s, files) \in files
         /\ s.at # "package" /\ s.query # TRUE
         /\ \E i \in 1 .. Len(Candidates(p, s)) :
              Stands(p, s, files, i) /\ ResolveSpecifier(p, s, files) = Candidates(p, s)[i]
<1>1. PICK i \in 1 .. Len(Candidates(p, s)) :
        /\ Stands(p, s, files, i) /\ ResolveSpecifier(p, s, files) = Candidates(p, s)[i]
        /\ ResolveSpecifier(p, s, files) \in files
  BY ResolveCases
<1>2. s.at # "package" /\ s.query # TRUE
  BY <1>1 DEF Stands
<1> QED BY <1>1, <1>2

(***************************************************************************)
(* Among fewer files a specifier stands for what it stood for, if that is  *)
(* still there, and for nothing if it stood for nothing.                   *)
(***************************************************************************)
LEMMA ResolveFewer ==
  ASSUME NEW p, NEW s, NEW B, NEW A \in SUBSET B, None \notin B,
         ResolveSpecifier(p, s, B) \in A \/ ResolveSpecifier(p, s, B) = None
  PROVE  ResolveSpecifier(p, s, A) = ResolveSpecifier(p, s, B)
<1> DEFINE c == Candidates(p, s)
<1>0. Len(c) \in Nat
  BY CandidatesAre, LenProperties
<1>1. CASE ResolveSpecifier(p, s, B) \in A
  <2>1. PICK i \in 1 .. Len(c) : Stands(p, s, B, i) /\ ResolveSpecifier(p, s, B) = c[i]
    BY <1>1, ResolveIn
  <2>2. Stands(p, s, A, i)
    BY <1>1, <2>1 DEF Stands
  <2>3. i \in Nat
    BY <1>0
  <2> QED BY <2>1, <2>2, <2>3, Resolution
<1>2. CASE ResolveSpecifier(p, s, B) = None
  <2>1. \A i \in 1 .. Len(c) : ~Stands(p, s, B, i)
    BY <1>2, ResolveCases
  <2>2. s.at = "package" \/ s.query \/ \A i \in 1 .. Len(c) : c[i] \notin B
    <3> DEFINE T == {i \in 1 .. Len(c) : c[i] \in B}
    <3>1. CASE T = {}
      BY <3>1
    <3>2. CASE T # {}
      <4>1. T \in SUBSET Nat
        BY <1>0
      <4> HIDE DEF T, c
      <4>2. PICK i \in T : \A j \in T : i <= j
        BY <3>2, <4>1, LeastOf
      <4>3. i \in 1 .. Len(c) /\ c[i] \in B /\ \A j \in 1 .. i - 1 : c[j] \notin B
        BY <1>0, <4>2 DEF T
      <4> QED BY <2>1, <4>3 DEF Stands, c
    <3> QED BY <3>1, <3>2
  <2>3. \A i \in 1 .. Len(c) : ~Stands(p, s, A, i)
    BY <2>2 DEF Stands
  <2> QED BY <1>2, <2>3, Resolution
<1> QED BY <1>1, <1>2

(***************************************************************************)
(* None is no path.                                                        *)
(***************************************************************************)
LEMMA PathsAre == None \notin Path \cup Baked
<1>1. \A q \in Path \cup Baked : q.ext # None.ext
  BY GraphAssumption
<1> QED BY <1>1

(***************************************************************************)
(* What is tried beyond the path as written is source, and no test.        *)
(***************************************************************************)
LEMMA GuessesAre ==
  ASSUME NEW p, NEW s, NEW i \in 1 .. Len(Candidates(p, s))
  PROVE  /\ Candidates(p, s)[i] = File(BaseOf(p, s), s.ext) \/ IsSource(Candidates(p, s)[i])
         /\ ~Candidates(p, s)[i].test
<1> DEFINE c == Candidates(p, s)
<1>1. c \in Seq(Guess(p, s))
  BY CandidatesAre
<1>2. c[i] \in Guess(p, s)
  BY <1>1, ElementOfSeq
<1>3. \A parts : \A q \in Extensions(parts) : IsSource(q) /\ ~q.test
  BY DEF Extensions, IsSource, IsCode, File
<1>4. ~File(BaseOf(p, s), s.ext).test
  BY DEF File
<1> HIDE DEF c
<1> QED BY <1>2, <1>3, <1>4 DEF Guess, c

\* s, if written without extension, means no file without one.
Extended(p, s) ==
  s.at # "package" /\ s.ext = "" => File(BaseOf(p, s), "") \notin Files \cup Baked

(***************************************************************************)
(* Among the sources alone (architecture.ts) a specifier stands for what   *)
(* it stands for among all files, if that is a source: no file that is no  *)
(* source hides one.                                                       *)
(***************************************************************************)
LEMMA ResolveSources ==
  ASSUME NEW p, NEW s, Files \subseteq Path, Extended(p, s)
  PROVE  ResolveSpecifier(p, s, Sources) =
           IF ResolveSpecifier(p, s, Files) \in Sources
           THEN ResolveSpecifier(p, s, Files) ELSE None
<1> DEFINE c == Candidates(p, s)
<1>0. Len(c) \in Nat /\ c[1] = File(BaseOf(p, s), s.ext)
  BY CandidatesAre, LenProperties
<1>1. Sources \subseteq Files /\ None \notin Files /\ None \notin Sources
  BY PathsAre DEF Sources
<1>2. CASE ResolveSpecifier(p, s, Files) \in Sources
  BY <1>1, <1>2, ResolveFewer
<1>3. CASE ResolveSpecifier(p, s, Files) \notin Sources
  <2>1. SUFFICES ASSUME ResolveSpecifier(p, s, Sources) # None PROVE FALSE
    BY <1>3
  <2>2. PICK i \in 1 .. Len(c) : Stands(p, s, Sources, i) /\ ResolveSpecifier(p, s, Sources) = c[i]
    BY <2>1, ResolveIn
  <2>3. ASSUME NEW j \in 1 .. i - 1 PROVE c[j] \notin Files
    <3>1. j \in 1 .. Len(c)
      BY <1>0
    <3>2. c[j] \notin Sources
      BY <2>2, <2>3 DEF Stands
    <3>3. CASE IsSource(c[j])
      BY <3>2, <3>3 DEF Sources
    <3>4. CASE c[j] = File(BaseOf(p, s), s.ext) /\ ~IsSource(c[j])
      <4>1. s.ext \notin ToSet(CodeExt)
        BY <3>4 DEF IsSource, IsCode, File
      <4>2. s.ext # "js"
        BY <4>1, ExtsAre
      <4>3. s.ext # "" => Len(c) = 1
        BY <4>2, CandidatesAre
      <4>7. Len(c) # 1
        <5> HIDE DEF c
        <5> QED BY <1>0, <2>2, <3>1
      <4>4. s.ext = ""
        BY <4>3, <4>7
      <4>5. c[j] = File(BaseOf(p, s), "")
        BY <3>4, <4>4
      <4>6. s.at # "package"
        BY <2>2 DEF Stands
      <4> QED BY <4>4, <4>5, <4>6 DEF Extended
    <3> QED BY <3>1, <3>3, <3>4, GuessesAre
  <2>4. Stands(p, s, Files, i)
    BY <1>1, <2>2, <2>3 DEF Stands
  <2>5. ResolveSpecifier(p, s, Files) = c[i] /\ c[i] \in Sources
    <3>1. i \in Nat
      BY <1>0
    <3> QED BY <2>2, <2>4, <3>1, Resolution DEF Stands
  <2> QED BY <1>3, <2>5
<1> QED BY <1>2, <1>3

(***************************************************************************)
(* A specifier without its query differs in nothing else.                  *)
(***************************************************************************)
LEMMA BareRecord ==
  ASSUME NEW s, s = [at |-> s.at, parts |-> s.parts, ext |-> s.ext, query |-> s.query],
         NEW b, b = [s EXCEPT !.query = FALSE]
  PROVE  b = [at |-> s.at, parts |-> s.parts, ext |-> s.ext, query |-> FALSE]
  OBVIOUS

(***************************************************************************)
(* The fields of a specifier without its query.                            *)
(***************************************************************************)
LEMMA BareIs ==
  ASSUME NEW s, IsSpecifier(s)
  PROVE  /\ Bare(s).at = s.at /\ Bare(s).parts = s.parts /\ Bare(s).ext = s.ext
         /\ Bare(s).query = FALSE /\ (s.query = FALSE => Bare(s) = s)
<1>2. s = [at |-> s.at, parts |-> s.parts, ext |-> s.ext, query |-> s.query]
  BY DEF IsSpecifier
<1>3. Bare(s) = [at |-> s.at, parts |-> s.parts, ext |-> s.ext, query |-> FALSE]
  BY <1>2, BareRecord DEF Bare
<1> QED BY <1>2, <1>3

(***************************************************************************)
(* A query does not count in what is tried.                                *)
(***************************************************************************)
LEMMA BareStands ==
  ASSUME NEW p, NEW s, IsSpecifier(s)
  PROVE  Candidates(p, Bare(s)) = Candidates(p, s) /\ BaseOf(p, Bare(s)) = BaseOf(p, s)
<1>1. BaseOf(p, Bare(s)) = BaseOf(p, s)
  BY BareIs DEF BaseOf
<1> QED BY <1>1, BareIs DEF Candidates

(***************************************************************************)
(* What the assumptions say of a file that was written.                    *)
(***************************************************************************)
LEMMA SpecsAre ==
  ASSUME GraphTypeOK, NEW p \in Files
  PROVE  /\ \A s \in Specs(p) : Extended(p, s)
         /\ p \in Path /\ IsText(code[p]) /\ \A s \in Specs(p) : IsSpecifier(s)
         /\ \A x \in code[p].imports :
              x = [spec |-> x.spec, binds |-> x.binds] /\ IsSpecifier(x.spec)
<1>1. p \in Path /\ IsText(code[p])
  BY DraftAssumption DEF GraphTypeOK
<1>2. Files \subseteq Path /\ code[p] \in Draft[p]
  BY DEF GraphTypeOK
<1>3. ASSUME NEW s \in Specs(p) PROVE Extended(p, s)
  <2>1. PICK x \in code[p].imports : x.spec = s
    BY DEF Specs
  <2>2. s.at # "package" => x \in {y \in code[p].imports : y.spec.at # "package"}
    BY <2>1
  <2> QED BY <1>1, <1>2, <2>1, <2>2, ImportAssumption DEF Extended
<1> QED BY <1>1, <1>3 DEF IsText, Specs

(***************************************************************************)
(* What stands for nothing is nowhere.                                     *)
(***************************************************************************)
LEMMA ResolveNone ==
  ASSUME NEW p, NEW s, NEW files, None \notin files, s.at # "package", s.query = FALSE,
         ResolveSpecifier(p, s, files) = None
  PROVE  \A i \in 1 .. Len(Candidates(p, s)) : Candidates(p, s)[i] \notin files
<1> DEFINE c == Candidates(p, s)
           T == {i \in 1 .. Len(c) : c[i] \in files}
<1>1. \A i \in 1 .. Len(c) : ~Stands(p, s, files, i)
  BY ResolveCases
<1>2. SUFFICES ASSUME T # {} PROVE FALSE
  BY Zenon
<1>3. T \in SUBSET Nat
  <2>1. Len(c) \in Nat
    BY CandidatesAre, LenProperties
  <2> HIDE DEF c
  <2> QED BY <2>1
<1> HIDE DEF T, c
<1>4. PICK i \in T : \A j \in T : i <= j
  BY <1>2, <1>3, LeastOf
<1>5. i \in 1 .. Len(c) /\ c[i] \in files /\ \A j \in 1 .. i - 1 : c[j] \notin files
  <2>1. Len(c) \in Nat
    BY CandidatesAre, LenProperties DEF c
  <2> QED BY <1>4, <2>1 DEF T
<1> QED BY <1>1, <1>5 DEF Stands, c

(***************************************************************************)
(* What is tried for a specifier without extension, at its places.         *)
(***************************************************************************)
LEMMA Without ==
  ASSUME NEW p, NEW s, s.ext = ""
  PROVE  /\ Len(Candidates(p, s)) = 13 /\ Candidates(p, s)[1] = File(BaseOf(p, s), "")
         /\ Lists(Candidates(p, s), 1, BaseOf(p, s))
         /\ Lists(Candidates(p, s), 7, Append(BaseOf(p, s), "index"))
<1>1. Candidates(p, s)[1] = File(BaseOf(p, s), s.ext)
  BY CandidatesAre, Zenon
<1>2. /\ Len(Candidates(p, s)) = 13 /\ Lists(Candidates(p, s), 1, BaseOf(p, s))
      /\ Lists(Candidates(p, s), 7, Append(BaseOf(p, s), "index"))
  BY CandidatesAre, Zenon
<1> QED BY <1>1, <1>2, Zenon

(***************************************************************************)
(* The path as written is tried, and with every extension of code if it    *)
(* has none.                                                               *)
(***************************************************************************)
LEMMA LooksFor ==
  ASSUME NEW p, NEW s
  PROVE  /\ \E i \in 1 .. Len(Candidates(p, s)) : Candidates(p, s)[i] = File(BaseOf(p, s), s.ext)
         /\ s.ext = "" => \A e \in ToSet(CodeExt) :
              \E i \in 1 .. Len(Candidates(p, s)) : Candidates(p, s)[i] = File(BaseOf(p, s), e)
<1> DEFINE c == Candidates(p, s)
<1>1. c[1] = File(BaseOf(p, s), s.ext) /\ 1 \in 1 .. Len(c)
  <2>1. c[1] = File(BaseOf(p, s), s.ext)
    BY CandidatesAre
  <2>2. Len(c) = 1 \/ Len(c) = 7 \/ Len(c) = 13
    <3>1. CASE s.ext = ""
      BY <3>1, CandidatesAre
    <3>2. CASE s.ext = "js"
      BY <3>2, CandidatesAre
    <3>3. CASE s.ext \notin {"", "js"}
      BY <3>3, CandidatesAre
    <3> QED BY <3>1, <3>2, <3>3
  <2> QED BY <2>1, <2>2
<1>2. ASSUME s.ext = "", NEW e \in ToSet(CodeExt)
      PROVE  \E i \in 1 .. Len(c) : c[i] = File(BaseOf(p, s), e)
  <2>1. PICK k \in 1 .. 6 : e = CodeExt[k]
    BY ExtsAre DEF ToSet
  <2>2. Len(c) = 13 /\ c[k + 1] = File(BaseOf(p, s), CodeExt[k])
    <3>0. s.ext = ""
      BY <1>2
    <3>1. Lists(c, 1, BaseOf(p, s)) /\ Len(c) = 13
      BY <3>0, Without, Zenon
    <3> HIDE DEF c
    <3> QED BY <3>1 DEF Lists
  <2>3. k + 1 \in 1 .. Len(c)
    BY <2>2
  <2> QED BY <2>1, <2>2, <2>3
<1> QED BY <1>1, <1>2

(***************************************************************************)
(* Broken imports are reported by both passes, and none the template       *)
(* provides (import-graph.ts 169-203, review-units.ts 203-318).            *)
(***************************************************************************)
LEMMA ImportsAreJudged ==
  ASSUME GraphTypeOK PROVE ImportsJudged
<1> DEFINE B == Files \cup Baked
<1>0. None \notin B /\ None \notin Files
  BY PathsAre DEF GraphTypeOK
<1> SUFFICES ASSUME NEW p \in Files, IsCode(p), NEW s \in Specs(p),
                    s.at \in {"relative", "alias"}, InProject(s), ~s.query
             PROVE  IF ResolveSpecifier(p, s, B) = None
                    THEN /\ <<p, s>> \in FindBrokenImports
                         /\ \/ <<p, s>> \in PrePassBroken
                            \/ s.ext = "" /\ File(BaseOf(p, s), "css") \in Baked
                    ELSE s.ext = "" => <<p, s>> \notin PrePassBroken
  BY DEF ImportsJudged
<1>1. IsSpecifier(s) /\ s.query = FALSE /\ Bare(s) = s
  BY SpecsAre, BareIs DEF IsSpecifier
<1>2. s.at # "package"
  OBVIOUS
<1>3. CASE ResolveSpecifier(p, s, B) = None
  <2>1. ResolveSpecifier(p, s, Files) = None
    BY <1>0, <1>3, ResolveFewer
  <2>2. <<p, s>> \in FindBrokenImports
    BY <1>1, <2>1 DEF FindBrokenImports
  <2>3. \A i \in 1 .. Len(Candidates(p, s)) : Candidates(p, s)[i] \notin B
    BY <1>0, <1>1, <1>2, <1>3, ResolveNone
  <2>4. s.ext \notin Asset
    BY ExtsAre DEF InProject, Asset
  <2>5. File(BaseOf(p, s), s.ext) \notin Baked
    BY <2>3, LooksFor
  <2>6. ASSUME s.ext = "", NEW e \in BakedExt, File(BaseOf(p, s), e) \in Baked
        PROVE  File(BaseOf(p, s), "css") \in Baked
    <3>1. CASE e = "css"
      BY <2>6, <3>1
    <3>2. CASE e # "css"
      <4>1. e \in ToSet(CodeExt)
        BY <3>2, ExtsAre DEF BakedExt
      <4>2. PICK i \in 1 .. Len(Candidates(p, s)) : Candidates(p, s)[i] = File(BaseOf(p, s), e)
        BY <2>6, <4>1, LooksFor
      <4>3. File(BaseOf(p, s), e) \notin B
        BY <2>3, <4>2
      <4> QED BY <2>6, <4>3
    <3> QED BY <3>1, <3>2
  <2>7. ExistsOutsideTheSet(p, s) => s.ext = "" /\ File(BaseOf(p, s), "css") \in Baked
    BY <2>4, <2>5, <2>6 DEF ExistsOutsideTheSet
  <2>8. ~ExistsOutsideTheSet(p, s) => <<p, s>> \in PrePassBroken
    BY <2>1 DEF PrePassBroken
  <2> QED BY <1>3, <2>2, <2>7, <2>8
<1>4. CASE ResolveSpecifier(p, s, B) # None /\ s.ext = ""
  <2> DEFINE c == Candidates(p, s)
  <2>1. PICK i \in 1 .. Len(c) : Stands(p, s, B, i) /\ ResolveSpecifier(p, s, B) = c[i]
    BY <1>4, ResolveIn
  <2>2. c[i] \in B
    BY <2>1 DEF Stands
  <2>3. CASE c[i] \in Files
    <3>1. ResolveSpecifier(p, s, Files) = c[i] /\ c[i] # None
      BY <1>0, <2>1, <2>3, ResolveFewer
    <3>2. ASSUME <<p, s>> \in PrePassBroken PROVE FALSE
      <4>1. ResolveSpecifier(p, s, Files) = None
        BY <3>2 DEF PrePassBroken
      <4> QED BY <3>1, <4>1
    <3> QED BY <1>4, <3>2
  <2>4. CASE c[i] \in Baked
    <3>1. /\ Len(c) = 13 /\ c[1] = File(BaseOf(p, s), "")
          /\ Lists(c, 1, BaseOf(p, s)) /\ Lists(c, 7, Append(BaseOf(p, s), "index"))
      BY <1>4, Without, Zenon
    <3> HIDE DEF c
    <3>2. \A parts, e : File(parts, e).ext = e /\ File(parts, e).parts = parts
      BY DEF File
    <3>3. i # 1
      <4>1. File(BaseOf(p, s), "") \notin Files \cup Baked
        BY <1>2, <1>4, SpecsAre DEF Extended
      <4> QED BY <2>4, <3>1, <4>1
    <3>4. ASSUME NEW k \in 1 .. 6, i = k + 7 PROVE FALSE
      <4>1. c[i] = File(Append(BaseOf(p, s), "index"), CodeExt[k])
        BY <3>1, <3>4 DEF Lists
      <4>2. CodeExt[k] \in ToSet(CodeExt)
        BY ExtsAre DEF ToSet
      <4>3. PICK m \in Draft[p] : \E x \in m.imports : x.spec = s
        BY DEF GraphTypeOK, Specs
      <4>4. p \in Path
        BY DEF GraphTypeOK
      <4> QED BY <1>2, <2>4, <4>1, <4>2, <4>3, <4>4, ImportAssumption
    <3>5. ASSUME NEW k \in 1 .. 6, i = k + 1 PROVE ExistsOutsideTheSet(p, s)
      <4>1. c[i] = File(BaseOf(p, s), CodeExt[k]) /\ CodeExt[k] \in ToSet(CodeExt)
        BY <3>1, <3>5, ExtsAre DEF ToSet, Lists
      <4>2. IsCode(c[i]) /\ c[i].parts = BaseOf(p, s)
        BY <3>2, <4>1 DEF IsCode
      <4>3. PICK ext \in BakedExt : File(BaseOf(p, s), ext) \in Baked
        BY <2>4, <4>2, GraphAssumption
      <4> QED BY <1>1, <1>4, <4>3 DEF ExistsOutsideTheSet
    <3>6. ExistsOutsideTheSet(p, s)
      <4>1. i = 1 \/ (\E k \in 1 .. 6 : i = k + 1) \/ (\E k \in 1 .. 6 : i = k + 7)
        <5>1. i \in 1 .. 13
          BY <3>1
        <5>2. CASE i \in 2 .. 7
          <6>1. i - 1 \in 1 .. 6 /\ i = (i - 1) + 1
            BY <5>2
          <6> QED BY <6>1
        <5>3. CASE i \in 8 .. 13
          <6>1. i - 7 \in 1 .. 6 /\ i = (i - 7) + 7
            BY <5>3
          <6> QED BY <6>1
        <5>4. i = 1 \/ i \in 2 .. 7 \/ i \in 8 .. 13
          BY <5>1
        <5> QED BY <5>2, <5>3, <5>4
      <4> QED BY <3>3, <3>4, <3>5, <4>1
    <3>7. ASSUME <<p, s>> \in PrePassBroken PROVE FALSE
      <4>1. PICK q \in Files : \E t \in Specs(q) : ~ExistsOutsideTheSet(q, t) /\ <<p, s>> = <<q, t>>
        BY <3>7 DEF PrePassBroken
      <4> QED BY <3>6, <4>1
    <3> QED BY <1>4, <3>7
  <2> QED BY <2>2, <2>3, <2>4
<1> QED BY <1>3, <1>4

\* What Compiles asks of one import x of p.
Served(files, p, x) ==
  LET q == ResolveSpecifier(p, Bare(x.spec), DOMAIN files \cup Baked)
  IN  /\ q # None
      /\ q \in DOMAIN files => {b.name : b \in x.binds} \subseteq ExportNames(files[q].exports)

(***************************************************************************)
(* A set of files compiles if each import of its code is served.           *)
(***************************************************************************)
LEMMA CompilesIs ==
  ASSUME NEW files
  PROVE  Compiles(files) <=>
           \A p \in DOMAIN files : IsCode(p) => \A x \in files[p].imports :
             InProject(x.spec) => Served(files, p, x)
  BY DEF Compiles, Served

(***************************************************************************)
(* An export another file imports by its name is no unreferenced one.      *)
(***************************************************************************)
LEMMA ImportedIsReferenced ==
  ASSUME NEW p \in Files, IsCode(p), NEW q, p # q,
         NEW x \in code[p].imports, NEW b \in x.binds,
         NEW e \in code[q].exports, e.name = b.name
  PROVE  e \notin UnreferencedExports(q)
<1>1. SUFFICES ASSUME e \in UnreferencedExports(q) PROVE FALSE
  OBVIOUS
<1>2. e \in DeadExports(q)
  BY <1>1 DEF UnreferencedExports
<1>3. e.name \notin Mentions(code[p])
  BY <1>2 DEF DeadExports
<1>4. b.name \in Mentions(code[p])
  <2>1. b.name \in {c.name : c \in x.binds} \cup {c.local : c \in x.binds}
    OBVIOUS
  <2> QED BY <2>1 DEF Mentions
<1> QED BY <1>3, <1>4

(***************************************************************************)
(* What Unseen excludes, of one import.                                    *)
(***************************************************************************)
LEMMA SeenImport ==
  ASSUME ~Unseen, NEW p \in Files, IsCode(p), NEW x \in code[p].imports,
         ResolveSpecifier(p, Bare(x.spec), Files \cup Baked) \in Files
  PROVE  /\ ~x.spec.query
         /\ x.binds # {} => ResolveSpecifier(p, Bare(x.spec), Files \cup Baked) # p
  BY DEF Unseen

(***************************************************************************)
(* So the cut of unused imports and unreferenced exports breaks nothing    *)
(* (dead-code.ts 249-326, build.ts 3320),                                  *)
(***************************************************************************)
LEMMA CutCompiles ==
  ASSUME GraphTypeOK, Compiles(code), ~Unseen
  PROVE  Compiles(Cut)
<1>1. DOMAIN Cut = Files
  BY DEF Cut
<1>2. ASSUME NEW p \in Files
      PROVE  /\ Cut[p].imports = KeptImports(p)
             /\ Cut[p].exports = code[p].exports \ UnreferencedExports(p)
  BY DEF Cut
<1>3. ASSUME NEW p \in Files, IsCode(p), NEW y \in KeptImports(p), InProject(y.spec)
      PROVE  Served(Cut, p, y)
  <2>1. PICK x \in code[p].imports :
          y = [spec |-> x.spec, binds |-> x.binds \ UnusedImports(p)]
    BY DEF KeptImports
  <2>2. y.spec = x.spec /\ y.binds \subseteq x.binds
    BY <2>1
  <2>3. Served(code, p, x)
    BY <1>3, <2>2, CompilesIs DEF Files
  <2> DEFINE q == ResolveSpecifier(p, Bare(x.spec), Files \cup Baked)
  <2>4. q # None /\ (q \in Files => {b.name : b \in x.binds} \subseteq ExportNames(code[q].exports))
    BY <2>3 DEF Served, Files
  <2>5. (q \in Files /\ x.binds # {}) => q # p
    BY <1>3, SeenImport
  <2>6. ASSUME q \in Files, NEW b \in y.binds
        PROVE  b.name \in ExportNames(Cut[q].exports)
    <3>1. b \in x.binds /\ p # q
      BY <2>2, <2>5, <2>6
    <3>2. b.name \in ExportNames(code[q].exports)
      <4> HIDE DEF q
      <4> QED BY <2>4, <2>6, <3>1
    <3> HIDE DEF q
    <3>3. PICK e \in code[q].exports : e.name = b.name
      BY <3>2 DEF ExportNames
    <3>4. e \notin UnreferencedExports(q)
      BY <1>3, <3>1, <3>3, ImportedIsReferenced
    <3>5. e \in Cut[q].exports
      BY <1>2, <2>6, <3>3, <3>4
    <3> QED BY <3>3, <3>5 DEF ExportNames
  <2>7. ResolveSpecifier(p, Bare(y.spec), DOMAIN Cut \cup Baked) = q
    BY <1>1, <2>2
  <2> HIDE DEF q
  <2>8. q \in Files => {b.name : b \in y.binds} \subseteq ExportNames(Cut[q].exports)
    BY <2>6
  <2> QED BY <1>1, <2>4, <2>7, <2>8 DEF Served
<1> QED BY <1>1, <1>2, <1>3, CompilesIs

(***************************************************************************)
(* nor does the removal of what no file imports (review-units.ts 318-345). *)
(***************************************************************************)
LEMMA WithoutOrphansCompiles ==
  ASSUME GraphTypeOK, Compiles(code), ~Unseen
  PROVE  Compiles([p \in Files \ OrphanFiles |-> code[p]])
<1> DEFINE A == Files \ OrphanFiles
           f == [p \in A |-> code[p]]
<1>1. DOMAIN f = A /\ \A p \in A : f[p] = code[p]
  OBVIOUS
<1> HIDE DEF f
<1>2. ASSUME NEW p \in A, IsCode(p), NEW x \in code[p].imports, InProject(x.spec)
      PROVE  Served(f, p, x)
  <2> DEFINE B == Files \cup Baked
             q == ResolveSpecifier(p, Bare(x.spec), B)
  <2>1. Served(code, p, x)
    BY <1>2, CompilesIs DEF Files
  <2>2. q # None /\ (q \in Files => {b.name : b \in x.binds} \subseteq ExportNames(code[q].exports))
    BY <2>1 DEF Served, Files
  <2>3. q \in B
    BY <2>2, ResolveIn
  <2>4. None \notin B /\ A \cup Baked \subseteq B /\ Files \subseteq B
    BY PathsAre DEF GraphTypeOK
  <2>5. ASSUME q \in Files PROVE q \in A
    <3>1. ~x.spec.query
      BY <1>2, <2>5, SeenImport
    <3>2. Bare(x.spec) = x.spec
      <4>1. IsSpecifier(x.spec)
        BY SpecsAre
      <4> QED BY <3>1, <4>1, BareIs DEF IsSpecifier
    <3>3. ResolveSpecifier(p, x.spec, Files) = q
      BY <2>4, <2>5, <3>2, ResolveFewer
    <3>4. x.spec \in Specs(p)
      BY DEF Specs
    <3>5. q = p \/ q \in Imports(p)
      <4> HIDE DEF q
      <4> QED BY <2>2, <3>3, <3>4 DEF Imports
    <3>6. q \in Imports(p) => q \notin OrphanFiles
      BY DEF OrphanFiles, ImportedBy
    <3> HIDE DEF q
    <3> QED BY <2>5, <3>5, <3>6
  <2>6. q \in A \cup Baked
    <3> HIDE DEF q
    <3> QED BY <2>3, <2>5
  <2>7. ResolveSpecifier(p, Bare(x.spec), A \cup Baked) = q
    BY <2>4, <2>6, ResolveFewer
  <2> HIDE DEF q
  <2>8. q \in A => {b.name : b \in x.binds} \subseteq ExportNames(f[q].exports)
    BY <1>1, <2>2
  <2> QED BY <1>1, <2>2, <2>7, <2>8 DEF Served
<1>3. Compiles(f)
  BY <1>1, <1>2, CompilesIs
<1> QED BY <1>3 DEF f

(***************************************************************************)
(* Both pieces of advice are safe.                                         *)
(***************************************************************************)
LEMMA AdviceSafe ==
  ASSUME GraphTypeOK PROVE AdviceIsSafe
  BY CutCompiles, WithoutOrphansCompiles DEF AdviceIsSafe

(***************************************************************************)
(* The order of names is a strict total order of the paths.                *)
(***************************************************************************)
LEMMA OrderOfNames ==
  /\ \A p : ~Before(p, p)
  /\ \A p, q \in Path : p # q => Before(p, q) \/ Before(q, p)
  /\ \A p, q : Before(p, q) => ~Before(q, p)
  /\ \A p, q, r : Before(p, q) /\ Before(q, r) => Before(p, r)
<1>1. DOMAIN Order = 1 .. Len(Order) /\ Len(Order) \in Nat
  BY GraphAssumption, LenProperties
<1>2. \A i, j \in DOMAIN Order : Order[i] = Order[j] => i = j
  BY GraphAssumption DEF IsInjective
<1>3. \A p \in Path : \E i \in DOMAIN Order : Order[i] = p
  BY GraphAssumption DEF ToSet
<1>4. \A i \in DOMAIN Order : i \in Int
  BY <1>1
<1>5. \A p : ~Before(p, p)
  BY <1>2, <1>4 DEF Before
<1>6. ASSUME NEW p \in Path, NEW q \in Path, p # q PROVE Before(p, q) \/ Before(q, p)
  <2>1. PICK i \in DOMAIN Order : Order[i] = p
    BY <1>3
  <2>2. PICK j \in DOMAIN Order : Order[j] = q
    BY <1>3
  <2>3. i < j \/ j < i
    BY <1>4, <1>6, <2>1, <2>2
  <2> QED BY <2>1, <2>2, <2>3 DEF Before
<1>7. ASSUME NEW p, NEW q, NEW r, Before(p, q), Before(q, r) PROVE Before(p, r)
  <2>1. PICK i, j \in DOMAIN Order : i < j /\ Order[i] = p /\ Order[j] = q
    BY <1>7 DEF Before
  <2>2. PICK k, l \in DOMAIN Order : k < l /\ Order[k] = q /\ Order[l] = r
    BY <1>7 DEF Before
  <2>3. i < l
    BY <1>2, <1>4, <2>1, <2>2
  <2> QED BY <2>1, <2>2, <2>3 DEF Before
<1>8. ASSUME NEW p, NEW q, Before(p, q) PROVE ~Before(q, p)
  BY <1>5, <1>7, <1>8
<1> QED BY <1>5, <1>6, <1>7, <1>8

(***************************************************************************)
(* Among sources an edge is an import, or a file's import of itself.       *)
(***************************************************************************)
LEMMA EdgesAre ==
  ASSUME GraphTypeOK, NEW p \in Sources
  PROVE  /\ \A q : q \in Edges(p) => q \in Sources
         /\ \A q \in Sources : q # p => (q \in Edges(p) <=> q \in Imports(p))
         /\ p \in Edges(p) <=> \E s \in Specs(p) : ResolveSpecifier(p, s, Files) = p
<1>1. \A s \in Specs(p) : ResolveSpecifier(p, s, Sources) =
                              IF ResolveSpecifier(p, s, Files) \in Sources
                              THEN ResolveSpecifier(p, s, Files) ELSE None
  <2>1. p \in Files /\ Files \subseteq Path
    BY DEF GraphTypeOK, Sources
  <2> QED BY <2>1, SpecsAre, ResolveSources
<1>2. None \notin Sources
  BY PathsAre DEF GraphTypeOK, Sources
<1>3. \A q : q \in Edges(p) <=>
               q \in Sources /\ \E s \in Specs(p) : ResolveSpecifier(p, s, Files) = q
  BY <1>1, <1>2 DEF Edges
<1>4. \A q \in Sources : q \in Imports(p) <=>
               q # p /\ \E s \in Specs(p) : ResolveSpecifier(p, s, Files) = q
  BY <1>2 DEF Imports
<1> QED BY <1>3, <1>4

(***************************************************************************)
(* A walk goes on among the sources.                                       *)
(***************************************************************************)
LEMMA FurtherIs ==
  ASSUME GraphTypeOK, NEW w \in Seq(Sources)
  PROVE  Further(w) \subseteq Seq(Sources)
<1>1. \A q : q \in Edges(Last(w)) => q \in Sources
  <2>1. \A s : ResolveSpecifier(Last(w), s, Sources) # None =>
                 ResolveSpecifier(Last(w), s, Sources) \in Sources
    BY ResolveIn
  <2> QED BY <2>1 DEF Edges
<1> QED BY <1>1, AppendProperties DEF Further

(***************************************************************************)
(* The walks of no steps are the sources, and those of one step more go    *)
(* further: the function the definition chooses exists.                    *)
(***************************************************************************)
LEMMA WalksAre ==
  ASSUME GraphTypeOK
  PROVE  /\ Walks[0] = {<<p>> : p \in Sources}
         /\ \A n \in Nat : Walks[n + 1] = UNION {Further(w) : w \in Walks[n]}
<1> DEFINE D == SUBSET Seq(Sources)
           g == [W \in D |-> UNION {Further(w) : w \in W}]
           b == {<<p>> : p \in Sources}
           Body(f) == [n \in Nat |-> IF n = 0 THEN b ELSE UNION {Further(w) : w \in f[n - 1]}]
<1>1. g \in [D -> D]
  BY FurtherIs
<1>2. b \in D
  <2>1. ASSUME NEW p \in Sources PROVE <<p>> \in Seq(Sources)
    BY <2>1
  <2> QED BY <2>1, Zenon
<1>3. \A W \in D : g[W] = UNION {Further(w) : w \in W}
  OBVIOUS
<1> HIDE DEF g, b, D
<1>4. PICK f : Iterates(f, D, g, b)
  BY <1>1, <1>2, IteratedExists, Zenon
<1> HIDE DEF Body
<1>9. f \in [Nat -> D] /\ f[0] = b /\ \A n \in Nat : f[n + 1] = g[f[n]]
  BY <1>4 DEF Iterates
<1>5. f = Body(f)
  <2> USE DEF Body
  <2>1. ASSUME NEW n \in Nat PROVE f[n] = Body(f)[n]
    <3>1. CASE n = 0
      BY <1>9, <3>1
    <3>2. CASE n # 0
      <4>1. n - 1 \in Nat /\ (n - 1) + 1 = n
        BY <3>2
      <4>2. f[n] = g[f[n - 1]] /\ f[n - 1] \in D
        BY <1>9, <4>1
      <4> QED BY <1>3, <3>2, <4>2
    <3> QED BY <3>1, <3>2
  <2> QED BY <1>9, <2>1
<1>6. Walks = Body(Walks)
  BY <1>5 DEF Walks, b, Body
<1>7. Walks[0] = b
  BY <1>6 DEF Body
<1>8. ASSUME NEW n \in Nat PROVE Walks[n + 1] = UNION {Further(w) : w \in Walks[n]}
  <2>1. n + 1 \in Nat /\ n + 1 # 0 /\ (n + 1) - 1 = n
    OBVIOUS
  <2> QED BY <1>6, <2>1 DEF Body
<1> QED BY <1>7, <1>8 DEF b

\* A walk of n steps among the sources that comes nowhere twice and before its
\* first file in the order of names nowhere.
Route(r, n) ==
  /\ r \in [1 .. n + 1 -> Sources]
  /\ \A i \in 1 .. n : r[i + 1] \in Edges(r[i])
  /\ \A i, j \in 1 .. n + 1 : r[i] = r[j] => i = j
  /\ \A i \in 1 .. n + 1 : ~Before(r[i], r[1])

(***************************************************************************)
(* A route is a sequence, with its first and its last file.                *)
(***************************************************************************)
LEMMA RouteIsSeq ==
  ASSUME NEW n \in Nat, NEW r, Route(r, n)
  PROVE  r \in Seq(Sources) /\ Len(r) = n + 1 /\ r # <<>> /\ Head(r) = r[1] /\ Last(r) = r[n + 1]
<1>1. r \in [1 .. n + 1 -> Sources] /\ n + 1 \in Nat
  BY DEF Route
<1>2. r \in Seq(Sources) /\ Len(r) = n + 1
  BY <1>1, FunctionIsSeq, Zenon
<1>3. r # <<>>
  BY <1>2, EmptySeq
<1> QED BY <1>2, <1>3 DEF Last

(***************************************************************************)
(* A route that goes further is a route,                                   *)
(***************************************************************************)
LEMMA RouteGoesOn ==
  ASSUME GraphTypeOK, NEW n \in Nat, NEW w, Route(w, n), NEW q \in Edges(w[n + 1]),
         ~Before(q, w[1]), q \notin ToSet(w)
  PROVE  Route(Append(w, q), n + 1)
<1> DEFINE r == Append(w, q)
<1>1. w \in Seq(Sources) /\ Len(w) = n + 1 /\ w \in [1 .. n + 1 -> Sources]
  BY RouteIsSeq DEF Route
<1>2. q \in Sources
  <2>1. w[n + 1] \in Sources
    BY <1>1
  <2> QED BY <2>1, EdgesAre
<1>3. r \in Seq(Sources) /\ Len(r) = n + 2 /\ (\A i \in 1 .. n + 1 : r[i] = w[i]) /\ r[n + 2] = q
  BY <1>1, <1>2, AppendProperties
<1> HIDE DEF r
<1>4. r \in [1 .. n + 2 -> Sources]
  BY <1>3, LenProperties
<1>5. \A i \in 1 .. n + 1 : w[i] # q
  BY <1>1 DEF ToSet
<1>6. \A i \in 1 .. n + 1 : r[i + 1] \in Edges(r[i])
  <2>1. ASSUME NEW i \in 1 .. n PROVE r[i + 1] \in Edges(r[i])
    <3>1. r[i + 1] = w[i + 1] /\ r[i] = w[i]
      BY <1>3
    <3> QED BY <3>1 DEF Route
  <2>2. r[n + 2] \in Edges(r[n + 1])
    BY <1>3
  <2> QED BY <2>1, <2>2
<1>7. ASSUME NEW i \in 1 .. n + 2, NEW j \in 1 .. n + 2, r[i] = r[j] PROVE i = j
  <2>1. CASE i \in 1 .. n + 1 /\ j \in 1 .. n + 1
    <3>1. w[i] = w[j]
      BY <1>3, <1>7, <2>1
    <3> QED BY <2>1, <3>1 DEF Route
  <2>2. CASE i = n + 2 /\ j \in 1 .. n + 1
    BY <1>3, <1>5, <1>7, <2>2
  <2>3. CASE j = n + 2 /\ i \in 1 .. n + 1
    BY <1>3, <1>5, <1>7, <2>3
  <2> QED BY <2>1, <2>2, <2>3
<1>8. ASSUME NEW i \in 1 .. n + 2 PROVE ~Before(r[i], r[1])
  <2>1. r[1] = w[1]
    BY <1>3
  <2>2. CASE i \in 1 .. n + 1
    BY <1>3, <2>1, <2>2 DEF Route
  <2>3. CASE i = n + 2
    BY <1>3, <2>1, <2>3
  <2> QED BY <2>2, <2>3
<1>9. (n + 1) + 1 = n + 2
  OBVIOUS
<1>10. Route(r, n + 1)
  BY <1>4, <1>6, <1>7, <1>8, <1>9 DEF Route
<1> QED BY <1>10 DEF r

(***************************************************************************)
(* and every longer route comes about so.                                  *)
(***************************************************************************)
LEMMA RouteCameFrom ==
  ASSUME GraphTypeOK, NEW n \in Nat, NEW r, Route(r, n + 1)
  PROVE  \E w : Route(w, n) /\ r = Append(w, r[n + 2]) /\ r[n + 2] \in Edges(w[n + 1])
                /\ ~Before(r[n + 2], w[1]) /\ r[n + 2] \notin ToSet(w)
<1> DEFINE w == [i \in 1 .. n + 1 |-> r[i]]
           q == r[n + 2]
<1>1. r \in [1 .. n + 2 -> Sources] /\ r \in Seq(Sources) /\ Len(r) = n + 2
  <2>1. (n + 1) + 1 = n + 2 /\ n + 1 \in Nat
    OBVIOUS
  <2>2. r \in Seq(Sources) /\ Len(r) = (n + 1) + 1
    BY <2>1, RouteIsSeq, Zenon
  <2> QED BY <2>1, <2>2 DEF Route
<1>2. w \in [1 .. n + 1 -> Sources] /\ \A i \in 1 .. n + 1 : w[i] = r[i]
  BY <1>1
<1>3. q \in Sources
  BY <1>1
<1> HIDE DEF w
<1>4. /\ \A i \in 1 .. n + 1 : r[i + 1] \in Edges(r[i])
      /\ \A i, j \in 1 .. n + 2 : r[i] = r[j] => i = j
      /\ \A i \in 1 .. n + 2 : ~Before(r[i], r[1])
  BY DEF Route
<1>5. Route(w, n)
  <2>1. \A i \in 1 .. n : w[i + 1] \in Edges(w[i])
    BY <1>2, <1>4
  <2>2. \A i, j \in 1 .. n + 1 : w[i] = w[j] => i = j
    BY <1>2, <1>4
  <2>3. \A i \in 1 .. n + 1 : ~Before(w[i], w[1])
    BY <1>2, <1>4
  <2> QED BY <1>2, <2>1, <2>2, <2>3 DEF Route
<1>6. w \in Seq(Sources) /\ Len(w) = n + 1
  BY <1>5, RouteIsSeq
<1>7. r = Append(w, q)
  <2> DEFINE v == Append(w, q)
  <2>1. v \in Seq(Sources) /\ Len(v) = n + 2 /\ (\A i \in 1 .. n + 1 : v[i] = w[i]) /\ v[n + 2] = q
    BY <1>3, <1>6, AppendProperties
  <2> HIDE DEF v
  <2>2. v \in [1 .. n + 2 -> Sources]
    BY <2>1, LenProperties
  <2>3. \A i \in 1 .. n + 2 : v[i] = r[i]
    BY <1>2, <2>1
  <2>4. v = r
    BY <1>1, <2>2, <2>3
  <2> QED BY <2>4 DEF v
<1>8. q \in Edges(w[n + 1])
  BY <1>2, <1>4
<1>9. ~Before(q, w[1])
  BY <1>2, <1>4
<1>10. q \notin ToSet(w)
  <2>1. DOMAIN w = 1 .. n + 1
    BY <1>2
  <2>2. \A i \in 1 .. n + 1 : w[i] # q
    BY <1>2, <1>4
  <2> QED BY <2>1, <2>2 DEF ToSet
<1> QED BY <1>5, <1>7, <1>8, <1>9, <1>10, Zenon

(***************************************************************************)
(* By induction over the steps, the walks are the routes.                  *)
(***************************************************************************)
LEMMA WalksAreRoutes ==
  ASSUME GraphTypeOK, NEW n \in Nat
  PROVE  \A r : r \in Walks[n] <=> Route(r, n)
<1> DEFINE T == {k \in Nat : \A r : r \in Walks[k] <=> Route(r, k)}
<1>1. 0 \in T
  <2>1. ASSUME NEW p \in Sources PROVE Route(<<p>>, 0)
    <3> DEFINE r == <<p>>
    <3>1. r \in [1 .. 0 + 1 -> Sources] /\ r[1] = p
      OBVIOUS
    <3> HIDE DEF r
    <3>2. Route(r, 0)
      BY <3>1, OrderOfNames DEF Route
    <3> QED BY <3>2 DEF r
  <2>2. ASSUME NEW r, Route(r, 0) PROVE r \in {<<p>> : p \in Sources}
    <3>1. r \in Seq(Sources) /\ Len(r) = 1 /\ r[1] \in Sources
      <4>1. 0 \in Nat /\ 0 + 1 = 1
        OBVIOUS
      <4>2. r \in Seq(Sources) /\ Len(r) = 0 + 1
        BY <2>2, <4>1, RouteIsSeq, Zenon
      <4> QED BY <2>2, <4>1, <4>2 DEF Route
    <3>2. r = <<r[1]>>
      BY <3>1
    <3> QED BY <3>1, <3>2, Zenon
  <2> QED BY <2>1, <2>2, WalksAre
<1>2. ASSUME NEW k \in T PROVE k + 1 \in T
  <2>1. k \in Nat /\ \A r : r \in Walks[k] <=> Route(r, k)
    OBVIOUS
  <2> HIDE DEF T
  <2>2. Walks[k + 1] = UNION {Further(w) : w \in Walks[k]}
    BY <2>1, WalksAre
  <2>3. ASSUME NEW w, Route(w, k), NEW r \in Further(w) PROVE Route(r, k + 1)
    <3>1. Head(w) = w[1] /\ Last(w) = w[k + 1]
      BY <2>1, <2>3, RouteIsSeq
    <3>2. PICK q \in Edges(Last(w)) : ~Before(q, Head(w)) /\ q \notin ToSet(w) /\ r = Append(w, q)
      BY DEF Further
    <3> QED BY <2>1, <2>3, <3>1, <3>2, RouteGoesOn
  <2>4. ASSUME NEW r, Route(r, k + 1) PROVE \E w : Route(w, k) /\ r \in Further(w)
    <3>1. PICK w : /\ Route(w, k) /\ r = Append(w, r[k + 2]) /\ r[k + 2] \in Edges(w[k + 1])
                   /\ ~Before(r[k + 2], w[1]) /\ r[k + 2] \notin ToSet(w)
      BY <2>1, <2>4, RouteCameFrom
    <3>2. Head(w) = w[1] /\ Last(w) = w[k + 1]
      BY <2>1, <3>1, RouteIsSeq
    <3>3. r \in Further(w)
      BY <3>1, <3>2, Zenon DEF Further
    <3> QED BY <3>1, <3>3
  <2>5. \A r : r \in Walks[k + 1] <=> Route(r, k + 1)
    BY <2>1, <2>2, <2>3, <2>4
  <2>6. k + 1 \in Nat
    BY <2>1
  <2> QED BY <2>5, <2>6 DEF T
<1>3. T = Nat
  <2>1. T \subseteq Nat
    OBVIOUS
  <2> HIDE DEF T
  <2> QED BY <1>1, <1>2, <2>1, ByInduction
<1> QED BY <1>3

\* n sources, each of which imports the next, and the last the first.
Circle(k, n) ==
  /\ k \in [1 .. n -> Sources] /\ IsInjective(k)
  /\ \A i \in 1 .. n - 1 : k[i + 1] \in Imports(k[i])
  /\ k[1] \in Imports(k[n])
  /\ \A i \in 2 .. n : Before(k[1], k[i])

(***************************************************************************)
(* The indices of a cycle go round.                                        *)
(***************************************************************************)
LEMMA NextInCircle ==
  ASSUME NEW n \in Nat, n >= 2
  PROVE  (n % n) + 1 = 1 /\ \A i \in 1 .. n - 1 : (i % n) + 1 = i + 1
  OBVIOUS

(***************************************************************************)
(* There are finitely many files.                                          *)
(***************************************************************************)
LEMMA SourcesFinite ==
  ASSUME GraphTypeOK
  PROVE  /\ IsFiniteSet(Files) /\ IsFiniteSet(Sources) /\ Cardinality(Sources) \in Nat
         /\ Sources \subseteq Path /\ Sources \subseteq Files
<1>1. Files \subseteq Path /\ Sources \subseteq Files
  BY DEF GraphTypeOK, Sources
<1>2. IsFiniteSet(Files)
  BY <1>1, GraphAssumption, FS_Subset
<1>3. IsFiniteSet(Sources)
  BY <1>1, <1>2, FS_Subset
<1> QED BY <1>1, <1>2, <1>3, FS_CardinalityType

(***************************************************************************)
(* What comes nowhere twice is no longer than there are sources, so that   *)
(* the bound on the steps leaves no walk out.                              *)
(***************************************************************************)
LEMMA RouteIsShort ==
  ASSUME GraphTypeOK, NEW n \in Nat, NEW r \in [1 .. n -> Sources], IsInjective(r)
  PROVE  n <= Cardinality(Sources)
<1>1. r \in Injection(1 .. n, Sources)
  BY DEF Injection
<1>2. Cardinality(1 .. n) <= Cardinality(Sources)
  BY <1>1, SourcesFinite, FS_Injection
<1>3. Cardinality(1 .. n) = n
  BY FS_Interval
<1> QED BY <1>2, <1>3

(***************************************************************************)
(* A route whose last file imports the first is a circle, and every circle *)
(* is one.                                                                 *)
(***************************************************************************)
LEMMA RouteBackIsCircle ==
  ASSUME GraphTypeOK, NEW n \in Nat, n # 0, NEW r
  PROVE  Route(r, n) /\ r[1] \in Edges(r[n + 1]) <=> Circle(r, n + 1)
<1> DEFINE m == n + 1
<1>0. m \in Nat /\ m - 1 = n /\ m >= 2
  OBVIOUS
<1>1. SUFFICES ASSUME r \in [1 .. m -> Sources]
               PROVE  Route(r, n) /\ r[1] \in Edges(r[n + 1]) <=> Circle(r, n + 1)
  BY DEF Route, Circle
<1>2. IsInjective(r) <=> \A i, j \in 1 .. m : r[i] = r[j] => i = j
  BY <1>1 DEF IsInjective
<1>3. ASSUME IsInjective(r)
      PROVE  /\ \A i \in 1 .. n : r[i + 1] \in Edges(r[i]) <=> r[i + 1] \in Imports(r[i])
             /\ r[1] \in Edges(r[m]) <=> r[1] \in Imports(r[m])
             /\ \A i \in 1 .. m : i # 1 => (~Before(r[i], r[1]) <=> Before(r[1], r[i]))
  <2>1. \A i, j \in 1 .. m : i # j => (r[j] \in Edges(r[i]) <=> r[j] \in Imports(r[i]))
    <3>1. ASSUME NEW i \in 1 .. m, NEW j \in 1 .. m, i # j
          PROVE  r[j] \in Edges(r[i]) <=> r[j] \in Imports(r[i])
      <4>1. r[i] \in Sources /\ r[j] \in Sources /\ r[i] # r[j]
        BY <1>1, <1>2, <1>3, <3>1
      <4> QED BY <4>1, EdgesAre
    <3> QED BY <3>1
  <2>2. \A i \in 1 .. n : i \in 1 .. m /\ i + 1 \in 1 .. m /\ i # i + 1
    OBVIOUS
  <2>3. 1 \in 1 .. m /\ m \in 1 .. m /\ 1 # m
    OBVIOUS
  <2>4. ASSUME NEW i \in 1 .. m, i # 1 PROVE ~Before(r[i], r[1]) <=> Before(r[1], r[i])
    <3>1. r[i] \in Path /\ r[1] \in Path /\ r[i] # r[1]
      BY <1>1, <1>2, <1>3, <2>3, <2>4, SourcesFinite
    <3> QED BY <3>1, OrderOfNames
  <2> HIDE DEF m
  <2>5. \A i \in 1 .. n : r[i + 1] \in Edges(r[i]) <=> r[i + 1] \in Imports(r[i])
    BY <2>1, <2>2
  <2>6. r[1] \in Edges(r[m]) <=> r[1] \in Imports(r[m])
    BY <2>1, <2>3
  <2> QED BY <2>4, <2>5, <2>6
<1>4. ~Before(r[1], r[1])
  BY OrderOfNames
<1>5. (\A i \in 1 .. m : ~Before(r[i], r[1])) <=> (\A i \in 2 .. m : ~Before(r[i], r[1]))
  <2>1. \A i : i \in 1 .. m <=> i = 1 \/ i \in 2 .. m
    OBVIOUS
  <2> QED BY <1>4, <2>1, Zenon
<1>6. Route(r, n) <=> /\ \A i \in 1 .. n : r[i + 1] \in Edges(r[i])
                      /\ IsInjective(r) /\ \A i \in 2 .. m : ~Before(r[i], r[1])
  BY <1>1, <1>2, <1>5 DEF Route
<1>7. Circle(r, m) <=> /\ IsInjective(r) /\ \A i \in 1 .. n : r[i + 1] \in Imports(r[i])
                       /\ r[1] \in Imports(r[m]) /\ \A i \in 2 .. m : Before(r[1], r[i])
  BY <1>0, <1>1 DEF Circle
<1>8. CASE IsInjective(r)
  <2>1. (\A i \in 2 .. m : ~Before(r[i], r[1])) <=> (\A i \in 2 .. m : Before(r[1], r[i]))
    <3>1. \A i \in 2 .. m : i \in 1 .. m /\ i # 1
      OBVIOUS
    <3> QED BY <1>3, <1>8, <3>1
  <2>2. (\A i \in 1 .. n : r[i + 1] \in Edges(r[i]))
          <=> (\A i \in 1 .. n : r[i + 1] \in Imports(r[i]))
    BY <1>3, <1>8
  <2>3. r[1] \in Edges(r[m]) <=> r[1] \in Imports(r[m])
    BY <1>3, <1>8
  <2> QED BY <1>6, <1>7, <1>8, <2>1, <2>2, <2>3, Zenon
<1>9. CASE ~IsInjective(r)
  BY <1>6, <1>7, <1>9, Zenon
<1> QED BY <1>8, <1>9

(***************************************************************************)
(* A circle is what CyclesExact calls closed.                              *)
(***************************************************************************)
LEMMA CirclesAre ==
  ASSUME NEW n \in Nat, n >= 2, NEW k \in [1 .. n -> Sources]
  PROVE  Circle(k, n) <=>
           /\ IsInjective(k)
           /\ \A i \in DOMAIN k : k[(i % Len(k)) + 1] \in Imports(k[i])
           /\ \A i \in 2 .. Len(k) : Before(k[1], k[i])
<1>1. Len(k) = n /\ DOMAIN k = 1 .. n
  BY FunctionIsSeq
<1>2. (\A i \in 1 .. n : k[(i % n) + 1] \in Imports(k[i])) <=>
        /\ \A i \in 1 .. n - 1 : k[i + 1] \in Imports(k[i])
        /\ k[1] \in Imports(k[n])
  <2>1. (n % n) + 1 = 1 /\ \A i \in 1 .. n - 1 : (i % n) + 1 = i + 1
    BY NextInCircle
  <2>2. \A i : i \in 1 .. n <=> i = n \/ i \in 1 .. n - 1
    OBVIOUS
  <2>3. k[(n % n) + 1] = k[1] /\ \A i \in 1 .. n - 1 : k[(i % n) + 1] = k[i + 1]
    BY <2>1, Zenon
  <2> QED BY <2>2, <2>3, Zenon
<1> QED BY <1>1, <1>2, Zenon DEF Circle

(***************************************************************************)
(* countCycles() finds every cycle of imports among the sources once, and  *)
(* the files that import themselves (architecture.ts 59-104).              *)
(***************************************************************************)
LEMMA CyclesAreExact ==
  ASSUME GraphTypeOK PROVE CyclesExact
<1> DEFINE N == Cardinality(Sources)
           Found == {w \in UNION {Walks[n] : n \in 0 .. N} : Head(w) \in Edges(Last(w))}
           Rounds(k) == /\ IsInjective(k)
                        /\ \A i \in DOMAIN k : k[(i % Len(k)) + 1] \in Imports(k[i])
                        /\ \A i \in 2 .. Len(k) : Before(k[1], k[i])
           Round == {c \in UNION {[1 .. n -> Sources] : n \in 2 .. N} : Rounds(c)}
           Own == {q \in Sources : \E s \in Specs(q) : ResolveSpecifier(q, s, Files) = q}
<1>0. N \in Nat
  BY SourcesFinite
<1>1. ASSUME NEW r
      PROVE  r \in Found <=> \E n \in 0 .. N : Route(r, n) /\ r[1] \in Edges(r[n + 1])
  <2>1. ASSUME NEW n \in 0 .. N
        PROVE  r \in Walks[n] /\ Head(r) \in Edges(Last(r))
                 <=> Route(r, n) /\ r[1] \in Edges(r[n + 1])
    <3>1. n \in Nat
      BY <1>0
    <3>2. r \in Walks[n] <=> Route(r, n)
      BY <3>1, WalksAreRoutes
    <3>3. Route(r, n) => Head(r) = r[1] /\ Last(r) = r[n + 1]
      BY <3>1, RouteIsSeq
    <3> QED BY <3>2, <3>3
  <2>2. r \in Found <=> \E n \in 0 .. N : r \in Walks[n] /\ Head(r) \in Edges(Last(r))
    OBVIOUS
  <2> QED BY <2>1, <2>2, Zenon
<1>2. ASSUME NEW r
      PROVE  r \in Round <=> \E n \in 2 .. N : Circle(r, n)
  <2>1. ASSUME NEW n \in 2 .. N
        PROVE  r \in [1 .. n -> Sources] /\ Rounds(r) <=> Circle(r, n)
    <3>1. n \in Nat /\ n >= 2
      BY <1>0
    <3>2. Circle(r, n) => r \in [1 .. n -> Sources]
      BY DEF Circle
    <3>3. r \in [1 .. n -> Sources] => (Circle(r, n) <=> Rounds(r))
      BY <3>1, CirclesAre, Zenon
    <3> QED BY <3>2, <3>3, Zenon
  <2>2. r \in Round <=> \E n \in 2 .. N : r \in [1 .. n -> Sources] /\ Rounds(r)
    <3> HIDE DEF Rounds
    <3> QED OBVIOUS
  <2> QED BY <2>1, <2>2, Zenon
<1>3. ASSUME NEW r PROVE Route(r, 0) /\ r[1] \in Edges(r[0 + 1]) <=> \E p \in Own : r = <<p>>
  <2>1. ASSUME Route(r, 0), r[1] \in Edges(r[0 + 1]) PROVE \E p \in Own : r = <<p>>
    <3>1. 0 \in Nat /\ 0 + 1 = 1
      OBVIOUS
    <3>2. r \in Seq(Sources) /\ Len(r) = 0 + 1
      BY <2>1, <3>1, RouteIsSeq, Zenon
    <3>3. r = <<r[1]>> /\ r[1] \in Sources
      BY <3>1, <3>2
    <3>4. r[1] \in Own
      BY <2>1, <3>1, <3>3, EdgesAre
    <3> QED BY <3>3, <3>4, Zenon
  <2>2. ASSUME NEW p \in Own, r = <<p>> PROVE Route(r, 0) /\ r[1] \in Edges(r[0 + 1])
    <3>1. p \in Sources /\ p \in Edges(p)
      BY EdgesAre
    <3>2. r \in [1 .. 0 + 1 -> Sources] /\ r[1] = p /\ r[0 + 1] = p
      BY <2>2, <3>1
    <3>3. \A i \in 1 .. 0 : FALSE
      OBVIOUS
    <3>4. \A i \in 1 .. 0 + 1 : i = 1
      OBVIOUS
    <3>5. Route(r, 0)
      BY <3>2, <3>3, <3>4, OrderOfNames DEF Route
    <3> QED BY <3>1, <3>2, <3>5
  <2> QED BY <2>1, <2>2
<1>4. ASSUME NEW r PROVE r \in Found <=> r \in Round \/ \E p \in Own : r = <<p>>
  <2>1. ASSUME NEW n \in 0 .. N, n # 0, Route(r, n), r[1] \in Edges(r[n + 1])
        PROVE  r \in Round
    <3>1. n \in Nat
      BY <1>0
    <3>2. Circle(r, n + 1)
      BY <2>1, <3>1, RouteBackIsCircle
    <3>3. n + 1 <= N
      <4>1. r \in [1 .. n + 1 -> Sources] /\ IsInjective(r)
        BY <3>2 DEF Circle
      <4>2. n + 1 \in Nat
        BY <3>1
      <4> QED BY <4>1, <4>2, RouteIsShort
    <3>4. n + 1 \in 2 .. N
      BY <1>0, <2>1, <3>1, <3>3
    <3> QED BY <1>2, <3>2, <3>4
  <2>2. ASSUME NEW m \in 2 .. N, Circle(r, m) PROVE r \in Found
    <3> DEFINE n == m - 1
    <3>1. n \in Nat /\ n # 0 /\ n \in 0 .. N /\ m = n + 1
      BY <1>0
    <3> HIDE DEF n
    <3>2. Route(r, n) /\ r[1] \in Edges(r[n + 1])
      BY <2>2, <3>1, RouteBackIsCircle
    <3> QED BY <1>1, <3>1, <3>2
  <2>3. 0 \in 0 .. N
    BY <1>0
  <2> HIDE DEF Found, Round, Own, N
  <2>4. ASSUME r \in Found PROVE r \in Round \/ \E p \in Own : r = <<p>>
    <3>1. PICK n \in 0 .. N : Route(r, n) /\ r[1] \in Edges(r[n + 1])
      BY <1>1, <2>4
    <3>2. CASE n = 0
      BY <1>3, <3>1, <3>2
    <3>3. CASE n # 0
      BY <2>1, <3>1, <3>3
    <3> QED BY <3>2, <3>3
  <2>5. ASSUME NEW p \in Own, r = <<p>> PROVE r \in Found
    <3>1. Route(r, 0) /\ r[1] \in Edges(r[0 + 1])
      BY <1>3, <2>5
    <3> QED BY <1>1, <2>3, <3>1
  <2>6. r \in Round => r \in Found
    BY <1>2, <2>2
  <2> QED BY <2>4, <2>5, <2>6
<1>5. ASSUME NEW p PROVE Append(<<p>>, p) = <<p, p>> /\ <<p>>[1] = p
  <2> DEFINE v == Append(<<p>>, p)
  <2>1. <<p>> \in Seq({p}) /\ p \in {p} /\ Len(<<p>>) = 1 /\ <<p>>[1] = p
    OBVIOUS
  <2>2. v \in Seq({p}) /\ Len(v) = 2 /\ v[1] = p /\ v[2] = p
    BY <2>1, AppendProperties
  <2> HIDE DEF v
  <2>3. v = <<p, p>>
    BY <2>2
  <2> QED BY <2>1, <2>3 DEF v
<1>6. \A r \in Found : Head(r) = r[1]
  <2>1. ASSUME NEW r \in Found PROVE Head(r) = r[1]
    <3>1. PICK n \in 0 .. N : Route(r, n)
      BY <1>1
    <3>2. n \in Nat
      BY <1>0
    <3> QED BY <3>1, <3>2, RouteIsSeq
  <2> QED BY <2>1
<1>7. CountCycles = {Append(r, Head(r)) : r \in Found}
  BY DEF CountCycles
<1>8. CyclesExact <=> CountCycles = {Append(k, k[1]) : k \in Round} \cup {<<p, p>> : p \in Own}
  BY Zenon DEF CyclesExact
<1> HIDE DEF Found, Round, Own, N
<1>9. {Append(r, Head(r)) : r \in Found} = {Append(r, r[1]) : r \in Found}
  BY <1>6
<1>10. {Append(r, r[1]) : r \in Found} = {Append(k, k[1]) : k \in Round} \cup {<<p, p>> : p \in Own}
  <2>1. ASSUME NEW r \in Found
        PROVE  Append(r, r[1]) \in {Append(k, k[1]) : k \in Round} \cup {<<p, p>> : p \in Own}
    <3>1. CASE r \in Round
      BY <3>1
    <3>2. CASE \E p \in Own : r = <<p>>
      BY <1>5, <3>2
    <3> QED BY <1>4, <3>1, <3>2
  <2>2. ASSUME NEW k \in Round PROVE Append(k, k[1]) \in {Append(r, r[1]) : r \in Found}
    BY <1>4
  <2>3. ASSUME NEW p \in Own PROVE <<p, p>> \in {Append(r, r[1]) : r \in Found}
    <3>1. <<p>> \in Found
      BY <1>4, Zenon
    <3> QED BY <1>5, <3>1, Zenon
  <2> QED BY <2>1, <2>2, <2>3
<1> QED BY <1>7, <1>8, <1>9, <1>10

(***************************************************************************)
(* The risk of a file is a number.                                         *)
(***************************************************************************)
LEMMA RiskIsNat ==
  ASSUME GraphTypeOK, NEW p \in Files PROVE Risk(p) \in Nat
<1>1. code[p].lines \in Nat
  BY SpecsAre DEF IsText
<1>2. Cardinality(ImportedBy(p)) \in Nat
  <2>1. ImportedBy(p) \subseteq Files
    BY DEF ImportedBy
  <2>2. IsFiniteSet(ImportedBy(p))
    BY <2>1, SourcesFinite, FS_Subset
  <2> QED BY <2>2, FS_CardinalityType
<1> QED BY <1>1, <1>2 DEF Risk

(***************************************************************************)
(* Riskiest first, ties by name, is a strict total order of the sources.   *)
(***************************************************************************)
LEMMA AheadOrders ==
  ASSUME GraphTypeOK, NEW p \in Sources, NEW q \in Sources
  PROVE  /\ ~Ahead(p, p)
         /\ p # q => Ahead(p, q) \/ Ahead(q, p)
         /\ \A r \in Sources : Ahead(p, q) /\ Ahead(q, r) => Ahead(p, r)
<1>1. \A r \in Sources : Risk(r) \in Nat /\ r \in Path
  BY RiskIsNat, SourcesFinite
<1>2. ~Ahead(p, p)
  BY <1>1, OrderOfNames DEF Ahead
<1>3. p # q => Ahead(p, q) \/ Ahead(q, p)
  BY <1>1, OrderOfNames DEF Ahead
<1>4. ASSUME NEW r \in Sources, Ahead(p, q), Ahead(q, r) PROVE Ahead(p, r)
  <2>1. Before(p, q) /\ Before(q, r) => Before(p, r)
    BY OrderOfNames
  <2> QED BY <1>1, <1>4, <2>1 DEF Ahead
<1> QED BY <1>2, <1>3, <1>4

\* How many sources are ahead of p.
Place(p) == Cardinality({q \in Sources : Ahead(q, p)})

(***************************************************************************)
(* Who is ahead of another has fewer ahead.                                *)
(***************************************************************************)
LEMMA PlacesAre ==
  ASSUME GraphTypeOK, NEW p \in Sources
  PROVE  /\ Place(p) \in 0 .. Cardinality(Sources) - 1
         /\ \A q \in Sources : Ahead(p, q) => Place(p) < Place(q)
<1> DEFINE N == Cardinality(Sources)
           A(q) == {r \in Sources : Ahead(r, q)}
<1>1. ASSUME NEW q \in Sources PROVE IsFiniteSet(A(q)) /\ Cardinality(A(q)) \in Nat /\ q \notin A(q)
  <2>1. A(q) \subseteq Sources
    OBVIOUS
  <2>2. IsFiniteSet(A(q))
    BY <2>1, SourcesFinite, FS_Subset
  <2>3. q \notin A(q)
    BY AheadOrders
  <2> QED BY <2>2, <2>3, FS_CardinalityType
<1>2. Place(p) <= N - 1
  <2>1. IsFiniteSet(Sources \ {p}) /\ Cardinality(Sources \ {p}) = N - 1
    BY SourcesFinite, FS_RemoveElement
  <2>2. A(p) \in SUBSET (Sources \ {p})
    BY <1>1
  <2>3. Cardinality(A(p)) <= Cardinality(Sources \ {p})
    <3> HIDE DEF A
    <3> QED BY <2>1, <2>2, FS_Subset
  <2> QED BY <2>1, <2>3 DEF Place
<1>3. ASSUME NEW q \in Sources, Ahead(p, q) PROVE Place(p) < Place(q)
  <2>1. A(p) \subseteq A(q)
    BY <1>3, AheadOrders
  <2>2. p \in A(q) /\ p \notin A(p)
    BY <1>1, <1>3
  <2>3. /\ IsFiniteSet(A(p)) /\ Cardinality(A(p)) \in Nat
        /\ IsFiniteSet(A(q)) /\ Cardinality(A(q)) \in Nat
    BY <1>1
  <2>4. Cardinality(A(p)) <= Cardinality(A(q)) /\ Cardinality(A(p)) # Cardinality(A(q))
    <3> HIDE DEF A
    <3> QED BY <2>1, <2>2, <2>3, FS_Subset
  <2>5. Cardinality(A(p)) < Cardinality(A(q))
    BY <2>3, <2>4
  <2> QED BY <2>5 DEF Place
<1>4. Place(p) \in Nat
  BY <1>1 DEF Place
<1>5. N \in Nat
  BY SourcesFinite
<1> QED BY <1>2, <1>3, <1>4, <1>5

\* All the sources, each once, none riskier than the one before.
Ranked(u) ==
  /\ u \in [1 .. Cardinality(Sources) -> Sources]
  /\ \A i, j \in 1 .. Cardinality(Sources) : u[i] = u[j] => i = j
  /\ \A p \in Sources : \E i \in 1 .. Cardinality(Sources) : u[i] = p
  /\ \A i, j \in 1 .. Cardinality(Sources) : i < j => Risk(u[j]) <= Risk(u[i])

(***************************************************************************)
(* The units of a review are all the sources, each once, and none is       *)
(* riskier than the one before (review-units.ts 153-196).                  *)
(***************************************************************************)
LEMMA UnitsAreRanked ==
  ASSUME GraphTypeOK PROVE Ranked(EnumerateUnits)
<1> DEFINE N == Cardinality(Sources)
           place == [p \in Sources |-> Place(p) + 1]
           u == EnumerateUnits
<1>1. u = [n \in 1 .. N |-> CHOOSE p \in Sources : place[p] = n]
  BY DEF EnumerateUnits, Place
<1>2. N \in Nat /\ IsFiniteSet(Sources)
  BY SourcesFinite
<1>3. place \in [Sources -> 1 .. N]
  <2>1. \A p \in Sources : Place(p) + 1 \in 1 .. N
    BY <1>2, PlacesAre
  <2> QED BY <2>1
<1>4. \A p, q \in Sources : Ahead(p, q) => place[p] < place[q]
  <2>1. \A p \in Sources : Place(p) \in Int
    BY <1>2, PlacesAre
  <2>2. \A p, q \in Sources : Ahead(p, q) => Place(p) < Place(q)
    BY PlacesAre
  <2> QED BY <2>1, <2>2
<1> HIDE DEF place
<1>5. \A p \in Sources : place[p] \in Int
  BY <1>2, <1>3
<1>6. \A p, q \in Sources : place[p] = place[q] => p = q
  <2>1. \A p, q \in Sources : p # q => Ahead(p, q) \/ Ahead(q, p)
    BY AheadOrders
  <2> QED BY <1>4, <1>5, <2>1
<1>7. place \in Injection(Sources, 1 .. N)
  BY <1>3, <1>6 DEF Injection, IsInjective
<1>8. IsFiniteSet(1 .. N) /\ Cardinality(1 .. N) = N
  BY <1>2, FS_Interval
<1>9. \A n \in 1 .. N : \E p \in Sources : place[p] = n
  <2>1. place \in Surjection(Sources, 1 .. N)
    BY <1>7, <1>8, FS_Injection
  <2> QED BY <2>1 DEF Surjection
<1>10. \A n \in 1 .. N : u[n] \in Sources /\ place[u[n]] = n
  BY <1>1, <1>9
<1>11. u \in [1 .. N -> Sources]
  BY <1>1, <1>10
<1> HIDE DEF u
<1>12. \A i, j \in 1 .. N : u[i] = u[j] => i = j
  BY <1>10
<1>13. ASSUME NEW p \in Sources PROVE \E i \in 1 .. N : u[i] = p
  <2>1. place[p] \in 1 .. N
    BY <1>3
  <2>2. u[place[p]] \in Sources /\ place[u[place[p]]] = place[p]
    BY <1>10, <2>1
  <2>3. u[place[p]] = p
    BY <1>6, <2>2
  <2> QED BY <2>1, <2>3
<1>14. ASSUME NEW i \in 1 .. N, NEW j \in 1 .. N, i < j PROVE Risk(u[j]) <= Risk(u[i])
  <2>1. u[i] \in Sources /\ u[j] \in Sources /\ place[u[i]] = i /\ place[u[j]] = j
    BY <1>10
  <2>2. ~Ahead(u[j], u[i])
    BY <1>2, <1>4, <1>14, <2>1
  <2>3. u[i] # u[j]
    BY <1>2, <1>14, <2>1
  <2>4. Ahead(u[i], u[j])
    BY <2>1, <2>2, <2>3, AheadOrders
  <2>5. Risk(u[i]) \in Nat /\ Risk(u[j]) \in Nat
    BY <2>1, RiskIsNat, SourcesFinite
  <2> QED BY <2>4, <2>5 DEF Ahead
<1> QED BY <1>11, <1>12, <1>13, <1>14 DEF Ranked, u

\* l is what is left of u, of length N, without its first n.
After(n, l, u, N) == Len(l) = N - n /\ \A i \in 1 .. N - n : l[i] = u[i + n]

\* The units a review has been through are the first n, each either read or
\* failed, and the others are left.
Spent(u, n) ==
  /\ review.left \in Seq(Sources) /\ After(n, review.left, u, Cardinality(Sources))
  /\ review.read \cup review.failed = {u[i] : i \in 1 .. n}
  /\ review.read \cap review.failed = {}

\* The coverage of a review that read d and failed on f.
ToldOf(d, f) ==
  [total |-> Len(EnumerateUnits), deep |-> Cardinality(d), unreviewed |-> Cardinality(f),
   cheapOnly |-> Max({0, Len(EnumerateUnits) - Cardinality(d) - Cardinality(f)})]
\* A review that has told has told that.
Told == review.coverage = ToldOf(review.read, review.failed)

\* The review is a record, goes through its units in their order, and tells
\* what it did.
ReviewOK ==
  /\ review = [at |-> review.at, left |-> review.left, read |-> review.read,
               failed |-> review.failed, waited |-> review.waited, coverage |-> review.coverage]
  /\ review.at # "none" => \E n \in 0 .. Cardinality(Sources) : Spent(EnumerateUnits, n)
  /\ review.at = "told" => Told

\* The inductive invariant.
GraphOK == GraphTypeOK /\ ReviewOK

(***************************************************************************)
(* What is left of a sequence without its first n, and without one more.   *)
(***************************************************************************)
LEMMA LeftAre ==
  ASSUME NEW N \in Nat, NEW n \in 0 .. N, NEW S, NEW u \in [1 .. N -> S],
         NEW l \in Seq(S), After(n, l, u, N)
  PROVE  /\ ToSet(l) = {u[i] : i \in n + 1 .. N}
         /\ l # <<>> => /\ n + 1 \in 1 .. N /\ Head(l) = u[n + 1] /\ Tail(l) \in Seq(S)
                        /\ After(n + 1, Tail(l), u, N)
<1>0. Len(l) = N - n /\ \A i \in 1 .. N - n : l[i] = u[i + n]
  BY DEF After
<1>1. DOMAIN l = 1 .. N - n /\ Len(l) \in Nat
  BY <1>0, LenProperties
<1>2. ToSet(l) = {u[i] : i \in n + 1 .. N}
  <2>1. ASSUME NEW i \in 1 .. N - n PROVE l[i] \in {u[k] : k \in n + 1 .. N}
    <3>1. i + n \in n + 1 .. N /\ l[i] = u[i + n]
      BY <1>0
    <3> QED BY <3>1
  <2>2. ASSUME NEW k \in n + 1 .. N PROVE u[k] \in {l[i] : i \in 1 .. N - n}
    <3>1. k - n \in 1 .. N - n /\ (k - n) + n = k
      OBVIOUS
    <3>2. l[k - n] = u[k]
      BY <1>0, <3>1
    <3> QED BY <3>1, <3>2
  <2> QED BY <1>1, <2>1, <2>2 DEF ToSet
<1>3. ASSUME l # <<>>
      PROVE  /\ n + 1 \in 1 .. N /\ Head(l) = u[n + 1] /\ Tail(l) \in Seq(S)
             /\ After(n + 1, Tail(l), u, N)
  <2>1. Len(l) # 0
    BY <1>3, EmptySeq
  <2>2. n + 1 \in 1 .. N /\ 1 \in 1 .. N - n
    BY <1>1, <2>1
  <2>3. /\ Head(l) \in S /\ Tail(l) \in Seq(S) /\ Len(Tail(l)) = Len(l) - 1
        /\ Head(l) = l[1] /\ \A i \in 1 .. Len(Tail(l)) : Tail(l)[i] = l[i + 1]
    BY <1>3, HeadTailProperties
  <2>4. Head(l) = u[n + 1]
    BY <1>0, <2>2, <2>3
  <2>5. Len(Tail(l)) = N - (n + 1)
    BY <1>0, <2>3
  <2>6. ASSUME NEW i \in 1 .. N - (n + 1) PROVE Tail(l)[i] = u[i + (n + 1)]
    <3>1. i + 1 \in 1 .. N - n /\ (i + 1) + n = i + (n + 1)
      OBVIOUS
    <3>2. l[i + 1] = u[(i + 1) + n]
      BY <1>0, <3>1
    <3>3. Tail(l)[i] = l[i + 1]
      BY <2>3, <2>5
    <3> QED BY <3>1, <3>2, <3>3
  <2> QED BY <2>2, <2>3, <2>4, <2>5, <2>6 DEF After
<1> QED BY <1>2, <1>3

(***************************************************************************)
(* While the files stay, so do the units and their order.                  *)
(***************************************************************************)
LEMMA UnitsStay ==
  ASSUME code' = code
  PROVE  /\ EnumerateUnits' = EnumerateUnits /\ Sources' = Sources
         /\ Cardinality(Sources)' = Cardinality(Sources)
<1>1. Files' = Files /\ Sources' = Sources
  BY DEF Files, Sources
<1>2. \A p : ImportedBy(p)' = ImportedBy(p)
  BY DEF Files, ImportedBy, Imports, Specs
<1>3. \A p : Risk(p)' = Risk(p)
  BY <1>1, <1>2 DEF Risk, HasSiblingTest
<1>4. \A p, q : Ahead(p, q)' = Ahead(p, q)
  BY <1>3 DEF Ahead
<1>5. EnumerateUnits' = EnumerateUnits
  BY DEF EnumerateUnits, Ahead, Risk, HasSiblingTest, ImportedBy, Imports, Specs, Files, Sources
<1> QED BY <1>1, <1>5

(***************************************************************************)
(* The coverage told adds up over the sources, and what was skipped is no  *)
(* riskier than what was looked at (code-review.ts 302-316).               *)
(***************************************************************************)
LEMMA CoverageIsHonest ==
  ASSUME GraphOK PROVE CoverageHonest
<1> SUFFICES ASSUME review.at = "told" PROVE CoverageHonest
  BY DEF CoverageHonest
<1> DEFINE N == Cardinality(Sources)
           u == EnumerateUnits
           skipped == ToSet(review.left)
           seen == review.read \cup review.failed
<1>1. GraphTypeOK /\ Ranked(u)
  BY UnitsAreRanked DEF GraphOK
<1>2. N \in Nat /\ IsFiniteSet(Sources)
  BY <1>1, SourcesFinite
<1>3. u \in [1 .. N -> Sources] /\ Len(u) = N
  BY <1>1, <1>2, FunctionIsSeq DEF Ranked
<1>4. PICK n \in 0 .. N : Spent(u, n)
  BY DEF GraphOK, ReviewOK
<1>5. Told
  BY DEF GraphOK, ReviewOK
<1> HIDE DEF u, N
<1>6. skipped = {u[i] : i \in n + 1 .. N}
  <2> DEFINE l == review.left
  <2>1. l \in Seq(Sources) /\ After(n, l, u, N)
    BY <1>4 DEF Spent, N
  <2>2. skipped = ToSet(l)
    OBVIOUS
  <2> HIDE DEF l, skipped
  <2> QED BY <1>2, <1>3, <2>1, <2>2, LeftAre
<1>7. seen = {u[i] : i \in 1 .. n}
  BY <1>4 DEF Spent
<1> HIDE DEF skipped, seen
<1>8. /\ skipped \subseteq Sources /\ seen \subseteq Sources
      /\ IsFiniteSet(skipped) /\ IsFiniteSet(seen)
  <2>1. skipped \subseteq Sources /\ seen \subseteq Sources
    BY <1>2, <1>3, <1>6, <1>7
  <2> QED BY <1>2, <2>1, FS_Subset
<1>9. seen \cup skipped = Sources
  <2>1. ASSUME NEW p \in Sources PROVE p \in seen \cup skipped
    <3>1. PICK i \in 1 .. N : u[i] = p
      BY <1>1 DEF Ranked, N
    <3>2. i \in 1 .. n \/ i \in n + 1 .. N
      BY <1>2
    <3> QED BY <1>6, <1>7, <3>1, <3>2
  <2> QED BY <1>8, <2>1
<1>10. seen \cap skipped = {}
  <2>1. \A i \in 1 .. n : \A j \in n + 1 .. N : u[i] # u[j]
    <3>1. \A i, j \in 1 .. N : u[i] = u[j] => i = j
      BY <1>1 DEF Ranked, N
    <3>2. \A i \in 1 .. n : \A j \in n + 1 .. N : i \in 1 .. N /\ j \in 1 .. N /\ i # j
      BY <1>2
    <3> QED BY <3>1, <3>2
  <2> QED BY <1>6, <1>7, <2>1
<1>11. /\ Cardinality(seen) \in Nat /\ Cardinality(skipped) \in Nat
       /\ Cardinality(seen) + Cardinality(skipped) = N
  <2>1. Cardinality(seen \cup skipped) =
          Cardinality(seen) + Cardinality(skipped) - Cardinality(seen \cap skipped)
    BY <1>8, FS_Union
  <2>2. Cardinality(seen) \in Nat /\ Cardinality(skipped) \in Nat
    BY <1>8, FS_CardinalityType
  <2>3. Cardinality(seen \cap skipped) = 0
    BY <1>10, FS_EmptySet
  <2>4. Cardinality(seen \cup skipped) = N
    BY <1>9 DEF N
  <2> QED BY <2>1, <2>2, <2>3, <2>4
<1>12. Cardinality(seen) = Cardinality(review.read) + Cardinality(review.failed)
       /\ Cardinality(review.read) \in Nat /\ Cardinality(review.failed) \in Nat
  <2> DEFINE a == review.read
             b == review.failed
  <2>1. seen = a \cup b /\ a \cap b = {}
    BY <1>4 DEF seen, Spent
  <2> HIDE DEF a, b
  <2>2. a \subseteq seen /\ b \subseteq seen
    BY <2>1
  <2>3. IsFiniteSet(a) /\ IsFiniteSet(b)
    BY <1>8, <2>2, FS_Subset
  <2>4. Cardinality(seen) = Cardinality(a) + Cardinality(b) - Cardinality(a \cap b)
    BY <2>1, <2>3, FS_Union
  <2>5. Cardinality(a) \in Nat /\ Cardinality(b) \in Nat
    BY <2>3, FS_CardinalityType
  <2>6. Cardinality(a \cap b) = 0
    BY <2>1, FS_EmptySet
  <2>7. Cardinality(seen) = Cardinality(a) + Cardinality(b)
    BY <2>4, <2>5, <2>6
  <2> QED BY <2>5, <2>7 DEF a, b
<1>13. review.coverage = [total |-> N, deep |-> Cardinality(review.read),
                          unreviewed |-> Cardinality(review.failed),
                          cheapOnly |-> Max({0, N - Cardinality(review.read)
                                                  - Cardinality(review.failed)})]
  BY <1>3, <1>5 DEF Told, ToldOf, u
<1>14. Max({0, N - Cardinality(review.read) - Cardinality(review.failed)}) = Cardinality(skipped)
  <2>1. N - Cardinality(review.read) - Cardinality(review.failed) = Cardinality(skipped)
    BY <1>2, <1>11, <1>12
  <2>2. \A k \in Nat : Max({0, k}) = k
    BY DEF Max
  <2> QED BY <1>11, <2>1, <2>2
<1>15. ASSUME NEW p \in skipped, NEW q \in seen PROVE Risk(p) <= Risk(q)
  <2>1. PICK i \in n + 1 .. N : p = u[i]
    BY <1>6
  <2>2. PICK j \in 1 .. n : q = u[j]
    BY <1>7
  <2>3. i \in 1 .. N /\ j \in 1 .. N /\ j < i
    BY <1>2
  <2> QED BY <1>1, <2>1, <2>2, <2>3 DEF Ranked, N
<1>16. /\ review.coverage.total = Cardinality(seen \cup skipped)
       /\ review.coverage.deep = Cardinality(review.read)
       /\ review.coverage.unreviewed = Cardinality(review.failed)
       /\ review.coverage.cheapOnly = Cardinality(skipped)
  BY <1>9, <1>13, <1>14 DEF N
<1> QED BY <1>15, <1>16 DEF CoverageHonest, seen, skipped

(***************************************************************************)
(* What a review becomes when it begins,                                   *)
(***************************************************************************)
LEMMA ReviewBegun ==
  ASSUME NEW r, r = [at |-> r.at, left |-> r.left, read |-> r.read, failed |-> r.failed,
                     waited |-> r.waited, coverage |-> r.coverage],
         NEW a, NEW l,
         NEW v, v = [r EXCEPT !.at = a, !.left = l]
  PROVE  v = [at |-> a, left |-> l, read |-> r.read, failed |-> r.failed,
              waited |-> r.waited, coverage |-> r.coverage]
  OBVIOUS

(***************************************************************************)
(* with one more unit read,                                                *)
(***************************************************************************)
LEMMA ReviewWithRead ==
  ASSUME NEW r, r = [at |-> r.at, left |-> r.left, read |-> r.read, failed |-> r.failed,
                     waited |-> r.waited, coverage |-> r.coverage],
         NEW d, NEW l,
         NEW v, v = [r EXCEPT !.read = d, !.left = l, !.waited = FALSE]
  PROVE  v = [at |-> r.at, left |-> l, read |-> d, failed |-> r.failed,
              waited |-> FALSE, coverage |-> r.coverage]
  OBVIOUS

(***************************************************************************)
(* with one more that failed,                                              *)
(***************************************************************************)
LEMMA ReviewWithFailed ==
  ASSUME NEW r, r = [at |-> r.at, left |-> r.left, read |-> r.read, failed |-> r.failed,
                     waited |-> r.waited, coverage |-> r.coverage],
         NEW d, NEW l,
         NEW v, v = [r EXCEPT !.failed = d, !.left = l, !.waited = FALSE]
  PROVE  v = [at |-> r.at, left |-> l, read |-> r.read, failed |-> d,
              waited |-> FALSE, coverage |-> r.coverage]
  OBVIOUS

(***************************************************************************)
(* while it waits after a throttled dispatch,                              *)
(***************************************************************************)
LEMMA ReviewWaited ==
  ASSUME NEW r, r = [at |-> r.at, left |-> r.left, read |-> r.read, failed |-> r.failed,
                     waited |-> r.waited, coverage |-> r.coverage],
         NEW v, v = [r EXCEPT !.waited = TRUE]
  PROVE  v = [at |-> r.at, left |-> r.left, read |-> r.read, failed |-> r.failed,
              waited |-> TRUE, coverage |-> r.coverage]
  OBVIOUS

(***************************************************************************)
(* and when it tells its coverage.                                         *)
(***************************************************************************)
LEMMA ReviewTold ==
  ASSUME NEW r, r = [at |-> r.at, left |-> r.left, read |-> r.read, failed |-> r.failed,
                     waited |-> r.waited, coverage |-> r.coverage],
         NEW a, NEW c,
         NEW v, v = [r EXCEPT !.at = a, !.coverage = c]
  PROVE  v = [at |-> a, left |-> r.left, read |-> r.read, failed |-> r.failed,
              waited |-> r.waited, coverage |-> c]
  OBVIOUS

(***************************************************************************)
(* What the steps of a review have to show.                                *)
(***************************************************************************)
LEMMA ReviewAfter ==
  ASSUME GraphOK, code' = code,
         NEW a \in {"units", "told"}, NEW l \in Seq(Sources), NEW d, NEW f, NEW w, NEW c,
         review' = [at |-> a, left |-> l, read |-> d, failed |-> f, waited |-> w, coverage |-> c],
         NEW n \in 0 .. Cardinality(Sources),
         After(n, l, EnumerateUnits, Cardinality(Sources)),
         d \cup f = {EnumerateUnits[i] : i \in 1 .. n}, d \cap f = {},
         a = "told" => c = ToldOf(d, f)
  PROVE  GraphOK'
<1>1. /\ EnumerateUnits' = EnumerateUnits /\ Sources' = Sources
      /\ Cardinality(Sources)' = Cardinality(Sources)
  BY UnitsStay
<1>2. /\ review'.at = a /\ review'.left = l /\ review'.read = d /\ review'.failed = f
      /\ review'.waited = w /\ review'.coverage = c
  OBVIOUS
<1>3. GraphTypeOK'
  BY <1>2 DEF GraphOK, GraphTypeOK, Files
<1>4. Spent(EnumerateUnits, n)'
  BY <1>1, <1>2 DEF Spent, After
<1>5. review' = [at |-> review'.at, left |-> review'.left, read |-> review'.read,
                 failed |-> review'.failed, waited |-> review'.waited,
                 coverage |-> review'.coverage]
  BY <1>2
<1>6. a = "told" => Told'
  BY <1>1, <1>2 DEF Told, ToldOf
<1>7. ReviewOK'
  BY <1>1, <1>2, <1>4, <1>5, <1>6 DEF ReviewOK
<1> QED BY <1>3, <1>7 DEF GraphOK

(***************************************************************************)
(* What the invariant says of the record and of the units.                 *)
(***************************************************************************)
LEMMA ReviewNow ==
  ASSUME GraphOK
  PROVE  /\ review = [at |-> review.at, left |-> review.left, read |-> review.read,
                      failed |-> review.failed, waited |-> review.waited,
                      coverage |-> review.coverage]
         /\ Cardinality(Sources) \in Nat /\ Ranked(EnumerateUnits)
         /\ EnumerateUnits \in Seq(Sources) /\ Len(EnumerateUnits) = Cardinality(Sources)
<1>1. GraphTypeOK /\ ReviewOK
  BY DEF GraphOK
<1>2. Cardinality(Sources) \in Nat
  BY <1>1, SourcesFinite
<1>3. Ranked(EnumerateUnits)
  BY <1>1, UnitsAreRanked
<1>4. EnumerateUnits \in [1 .. Cardinality(Sources) -> Sources]
  BY <1>3 DEF Ranked
<1>5. EnumerateUnits \in Seq(Sources) /\ Len(EnumerateUnits) = Cardinality(Sources)
  BY <1>2, <1>4, FunctionIsSeq
<1> QED BY <1>1, <1>2, <1>3, <1>5 DEF ReviewOK

(***************************************************************************)
(* The unit a review comes to is the next of its order, and new.           *)
(***************************************************************************)
LEMMA NextUnit ==
  ASSUME GraphOK, review.at = "units", review.left # <<>>
  PROVE  \E n \in 0 .. Cardinality(Sources) :
           /\ n + 1 \in 0 .. Cardinality(Sources)
           /\ Tail(review.left) \in Seq(Sources)
           /\ After(n + 1, Tail(review.left), EnumerateUnits, Cardinality(Sources))
           /\ Head(review.left) \notin review.read \cup review.failed
           /\ review.read \cap review.failed = {}
           /\ review.read \cup review.failed \cup {Head(review.left)} =
                {EnumerateUnits[i] : i \in 1 .. n + 1}
<1> DEFINE N == Cardinality(Sources)
           u == EnumerateUnits
           l == review.left
           seen == review.read \cup review.failed
<1>1. PICK n \in 0 .. N : Spent(u, n)
  BY DEF GraphOK, ReviewOK
<1>2. N \in Nat /\ u \in [1 .. N -> Sources] /\ \A i, j \in 1 .. N : u[i] = u[j] => i = j
  BY ReviewNow DEF Ranked
<1>3. /\ l \in Seq(Sources) /\ After(n, l, u, N) /\ l # <<>>
      /\ seen = {u[i] : i \in 1 .. n} /\ review.read \cap review.failed = {}
  BY <1>1 DEF Spent
<1> HIDE DEF u, l, N, seen
<1>4. /\ n + 1 \in 1 .. N /\ Head(l) = u[n + 1] /\ Tail(l) \in Seq(Sources)
      /\ After(n + 1, Tail(l), u, N)
  BY <1>2, <1>3, LeftAre
<1>5. Head(l) \notin seen
  <2>1. \A i \in 1 .. n : i \in 1 .. N /\ i # n + 1
    BY <1>2
  <2> QED BY <1>2, <1>3, <1>4, <2>1
<1>6. seen \cup {Head(l)} = {u[i] : i \in 1 .. n + 1}
  <2>1. \A i : i \in 1 .. n + 1 <=> i \in 1 .. n \/ i = n + 1
    BY <1>2
  <2> QED BY <1>3, <1>4, <2>1
<1>7. n + 1 \in 0 .. N
  BY <1>2, <1>4
<1> QED BY <1>3, <1>4, <1>5, <1>6, <1>7, Zenon DEF N, u, l, seen

(***************************************************************************)
(* The beginning of a review establishes what the invariant says of it,    *)
(***************************************************************************)
LEMMA BeginsKeep ==
  ASSUME GraphOK, BeginReview PROVE GraphOK'
<1> DEFINE u == EnumerateUnits
<1>1. code' = code /\ review' = [NoReview EXCEPT !.at = "units", !.left = EnumerateUnits]
  BY DEF BeginReview
<1>2. NoReview = [at |-> NoReview.at, left |-> NoReview.left, read |-> NoReview.read,
                  failed |-> NoReview.failed, waited |-> NoReview.waited,
                  coverage |-> NoReview.coverage]
      /\ NoReview.read = {} /\ NoReview.failed = {}
  BY DEF NoReview
<1>3. review' = [at |-> "units", left |-> u, read |-> NoReview.read, failed |-> NoReview.failed,
                 waited |-> NoReview.waited, coverage |-> NoReview.coverage]
  BY <1>1, <1>2, ReviewBegun
<1>4. u \in Seq(Sources) /\ Len(u) = Cardinality(Sources) /\ Cardinality(Sources) \in Nat
  BY ReviewNow
<1>5. After(0, u, u, Cardinality(Sources)) /\ 0 \in 0 .. Cardinality(Sources)
  BY <1>4 DEF After
<1>6. NoReview.read \cup NoReview.failed = {u[i] : i \in 1 .. 0}
  BY <1>2
<1>7. NoReview.read \cap NoReview.failed = {}
  BY <1>2
<1> QED BY <1>1, <1>3, <1>4, <1>5, <1>6, <1>7, ReviewAfter

(***************************************************************************)
(* a unit that is read keeps it,                                           *)
(***************************************************************************)
LEMMA ReadsKeep ==
  ASSUME GraphOK, UnitIsRead PROVE GraphOK'
<1> DEFINE l == Tail(review.left)
           d == review.read \cup {Head(review.left)}
<1>1. /\ code' = code /\ review.at = "units" /\ review.left # <<>>
      /\ review' = [review EXCEPT !.read = d, !.left = l, !.waited = FALSE]
  BY DEF UnitIsRead, MayGoOn
<1>2. review' = [at |-> "units", left |-> l, read |-> d, failed |-> review.failed,
                 waited |-> FALSE, coverage |-> review.coverage]
  BY <1>1, ReviewNow, ReviewWithRead
<1>3. PICK n \in 0 .. Cardinality(Sources) :
        /\ n + 1 \in 0 .. Cardinality(Sources) /\ l \in Seq(Sources)
        /\ After(n + 1, l, EnumerateUnits, Cardinality(Sources))
        /\ Head(review.left) \notin review.read \cup review.failed
        /\ review.read \cap review.failed = {}
        /\ review.read \cup review.failed \cup {Head(review.left)} =
             {EnumerateUnits[i] : i \in 1 .. n + 1}
  BY <1>1, NextUnit
<1>4. /\ d \cup review.failed = {EnumerateUnits[i] : i \in 1 .. n + 1}
      /\ d \cap review.failed = {}
  <2>1. d \cup review.failed = review.read \cup review.failed \cup {Head(review.left)}
    OBVIOUS
  <2> QED BY <1>3, <2>1
<1> HIDE DEF l, d
<1> QED BY <1>1, <1>2, <1>3, <1>4, ReviewAfter

(***************************************************************************)
(* as does one that fails,                                                 *)
(***************************************************************************)
LEMMA FailsKeep ==
  ASSUME GraphOK, UnitFails PROVE GraphOK'
<1> DEFINE l == Tail(review.left)
           f == review.failed \cup {Head(review.left)}
<1>1. /\ code' = code /\ review.at = "units" /\ review.left # <<>>
      /\ review' = [review EXCEPT !.failed = f, !.left = l, !.waited = FALSE]
  BY DEF UnitFails, MayGoOn
<1>2. review' = [at |-> "units", left |-> l, read |-> review.read, failed |-> f,
                 waited |-> FALSE, coverage |-> review.coverage]
  BY <1>1, ReviewNow, ReviewWithFailed
<1>3. PICK n \in 0 .. Cardinality(Sources) :
        /\ n + 1 \in 0 .. Cardinality(Sources) /\ l \in Seq(Sources)
        /\ After(n + 1, l, EnumerateUnits, Cardinality(Sources))
        /\ Head(review.left) \notin review.read \cup review.failed
        /\ review.read \cap review.failed = {}
        /\ review.read \cup review.failed \cup {Head(review.left)} =
             {EnumerateUnits[i] : i \in 1 .. n + 1}
  BY <1>1, NextUnit
<1>4. /\ review.read \cup f = {EnumerateUnits[i] : i \in 1 .. n + 1}
      /\ review.read \cap f = {}
  <2>1. review.read \cup f = review.read \cup review.failed \cup {Head(review.left)}
    OBVIOUS
  <2> QED BY <1>3, <2>1
<1> HIDE DEF l, f
<1> QED BY <1>1, <1>2, <1>3, <1>4, ReviewAfter

(***************************************************************************)
(* a throttled dispatch,                                                   *)
(***************************************************************************)
LEMMA WaitsKeep ==
  ASSUME GraphOK, UnitIsThrottled PROVE GraphOK'
<1>1. /\ code' = code /\ review.at = "units"
      /\ review' = [review EXCEPT !.waited = TRUE]
  BY DEF UnitIsThrottled
<1>2. review' = [at |-> "units", left |-> review.left, read |-> review.read,
                 failed |-> review.failed, waited |-> TRUE, coverage |-> review.coverage]
  BY <1>1, ReviewNow, ReviewWaited
<1>3. PICK n \in 0 .. Cardinality(Sources) : Spent(EnumerateUnits, n)
  BY <1>1 DEF GraphOK, ReviewOK
<1> DEFINE l == review.left
           d == review.read
           f == review.failed
           c == review.coverage
<1>4. /\ l \in Seq(Sources) /\ After(n, l, EnumerateUnits, Cardinality(Sources))
      /\ d \cup f = {EnumerateUnits[i] : i \in 1 .. n} /\ d \cap f = {}
  BY <1>3 DEF Spent
<1>5. review' = [at |-> "units", left |-> l, read |-> d, failed |-> f, waited |-> TRUE,
                 coverage |-> c]
  BY <1>2
<1> HIDE DEF l, d, f, c
<1> QED BY <1>1, <1>4, <1>5, ReviewAfter

(***************************************************************************)
(* the end of the review,                                                  *)
(***************************************************************************)
LEMMA TellsKeep ==
  ASSUME GraphOK, ReviewEnds PROVE GraphOK'
<1> DEFINE c == ToldOf(review.read, review.failed)
<1>1. /\ code' = code /\ review.at = "units"
      /\ review' = [review EXCEPT !.at = "told", !.coverage = c]
  BY DEF ReviewEnds, ToldOf
<1> HIDE DEF c
<1>2. review' = [at |-> "told", left |-> review.left, read |-> review.read,
                 failed |-> review.failed, waited |-> review.waited, coverage |-> c]
  BY <1>1, ReviewNow, ReviewTold
<1>3. PICK n \in 0 .. Cardinality(Sources) : Spent(EnumerateUnits, n)
  BY <1>1 DEF GraphOK, ReviewOK
<1>4. c = ToldOf(review.read, review.failed)
  BY DEF c
<1> QED BY <1>1, <1>2, <1>3, <1>4, ReviewAfter DEF Spent

(***************************************************************************)
(* a file that is written,                                                 *)
(***************************************************************************)
LEMMA WritesKeep ==
  ASSUME GraphOK, NEW p \in Path, NEW m \in Draft[p], Write(p, m) PROVE GraphOK'
<1>1. /\ review.at = "none" /\ review' = review
      /\ code' = [q \in Files \cup {p} |-> IF q = p THEN m ELSE code[q]]
  BY DEF Write
<1>2. GraphTypeOK'
  <2>1. Files' = Files \cup {p} /\ Files \subseteq Path
    BY <1>1 DEF Files, GraphOK, GraphTypeOK
  <2>2. \A q \in Files \cup {p} : code'[q] \in Draft[q]
    BY <1>1 DEF GraphOK, GraphTypeOK
  <2> QED BY <1>1, <2>1, <2>2 DEF GraphTypeOK
<1>3. ReviewOK'
  BY <1>1, ReviewNow DEF ReviewOK
<1> QED BY <1>2, <1>3 DEF GraphOK

(***************************************************************************)
(* one that is deleted,                                                    *)
(***************************************************************************)
LEMMA DeletesKeep ==
  ASSUME GraphOK, NEW p \in Path, Delete(p) PROVE GraphOK'
<1>1. review.at = "none" /\ review' = review /\ code' = [q \in Files \ {p} |-> code[q]]
  BY DEF Delete
<1>2. GraphTypeOK'
  <2>1. Files' = Files \ {p} /\ Files \subseteq Path
    BY <1>1 DEF Files, GraphOK, GraphTypeOK
  <2>2. \A q \in Files \ {p} : code'[q] \in Draft[q]
    BY <1>1 DEF GraphOK, GraphTypeOK
  <2> QED BY <1>1, <2>1, <2>2 DEF GraphTypeOK
<1>3. ReviewOK'
  BY <1>1, ReviewNow DEF ReviewOK
<1> QED BY <1>2, <1>3 DEF GraphOK

(***************************************************************************)
(* and a step that does nothing.                                           *)
(***************************************************************************)
LEMMA IdleKeeps ==
  ASSUME GraphOK, UNCHANGED graphVars PROVE GraphOK'
<1>1. code' = code /\ review' = review
  BY DEF graphVars
<1>2. GraphTypeOK'
  BY <1>1 DEF GraphOK, GraphTypeOK, Files
<1>3. /\ EnumerateUnits' = EnumerateUnits /\ Sources' = Sources
      /\ Cardinality(Sources)' = Cardinality(Sources)
  BY <1>1, UnitsStay
<1>4. ReviewOK'
  <2>1. \A n : Spent(EnumerateUnits, n)' <=> Spent(EnumerateUnits, n)
    BY <1>1, <1>3 DEF Spent
  <2>2. Told' <=> Told
    BY <1>1, <1>3 DEF Told, ToldOf
  <2> QED BY <1>1, <1>3, <2>1, <2>2 DEF GraphOK, ReviewOK
<1> QED BY <1>2, <1>4 DEF GraphOK

\* The behaviours of the files and a review of them.
GraphSpec == GraphStart(<<>>) /\ [][GraphNext]_graphVars

(***************************************************************************)
(* So the invariant always holds.                                          *)
(***************************************************************************)
LEMMA GraphHolds == GraphSpec => []GraphOK
<1>1. GraphStart(<<>>) => GraphOK
  <2> SUFFICES ASSUME GraphStart(<<>>) PROVE GraphOK
    OBVIOUS
  <2>1. Files = {} /\ review = NoReview
    BY DEF GraphStart, Files
  <2>2. GraphTypeOK
    BY <2>1 DEF GraphTypeOK, NoReview
  <2>3. ReviewOK
    BY <2>1 DEF ReviewOK, NoReview
  <2> QED BY <2>2, <2>3 DEF GraphOK
<1>2. GraphOK /\ [GraphNext]_graphVars => GraphOK'
  BY BeginsKeep, ReadsKeep, FailsKeep, WaitsKeep, TellsKeep, WritesKeep, DeletesKeep, IdleKeeps
     DEF GraphNext
<1> QED BY <1>1, <1>2, PTL DEF GraphSpec

(***************************************************************************)
(* Type correctness, and the files are ones that were written, whatever    *)
(* the texts and the template.                                             *)
(***************************************************************************)
THEOREM GraphTypeCorrect == GraphSpec => []GraphTypeOK
<1>1. GraphOK => GraphTypeOK
  BY DEF GraphOK
<1> QED BY <1>1, GraphHolds, PTL

(***************************************************************************)
(* The free analyses are right of every set of files, and the coverage of  *)
(* every review: every cycle of imports is found once, the advice breaks   *)
(* nothing that compiles, imports are judged rightly, and a review skips   *)
(* nothing riskier than what it looked at. For any paths, any texts, any   *)
(* files of the template and any budget.                                   *)
(***************************************************************************)
THEOREM AnalysesExactAlways == GraphSpec => []AnalysesExact
<1>1. GraphOK => AnalysesExact
  <2> SUFFICES ASSUME GraphOK PROVE AnalysesExact
    OBVIOUS
  <2>1. GraphTypeOK
    BY DEF GraphOK
  <2> QED BY <2>1, CyclesAreExact, AdviceSafe, ImportsAreJudged, CoverageIsHonest DEF AnalysesExact
<1> QED BY <1>1, GraphHolds, PTL
=============================================================================
