----------------------------- MODULE Connections -----------------------------
(***************************************************************************)
(* One service a user connects: its row in user_mcp_connections, the OAuth *)
(* round trips and keys that end in a row, and the builds that read the    *)
(* row, refresh its tokens and call the service's tools.                   *)
(* src/server/routes/integrations.ts with src/mcp (oauth-client, client,   *)
(* health, call-tool) and the discovery of                                 *)
(* src/agents/mcp-tool-classifier.ts.                                      *)
(*                                                                         *)
(* A credential is a grant, one consent or one key a user typed, and for   *)
(* OAuth the refresh token's generation: the service takes the newest one  *)
(* only.  The MCP SDK and the service are not under src/; they are         *)
(* modelled from how the code uses them.                                   *)
(***************************************************************************)
EXTENDS Integers, FiniteSets

CONSTANTS Txn,         \* OAuth round trips
          Custom,      \* those for a server the user added by its address
          Request,     \* requests under way at a time
          Build, Slot, \* builds, and their connections under way at a time
          SlotsOf,
          MaxGrants, MaxRows, MaxRefresh,
          Faults       \* "db": a write rejects, "restart", "slow": a timer wins
                       \* its race, "expire": a round trip takes 10 minutes

ASSUME ConstantsAssumption ==
  /\ Custom \subseteq Txn
  /\ SlotsOf \in [Build -> SUBSET Slot]
  /\ MaxGrants \in Nat /\ MaxRows \in Nat /\ MaxRefresh \in Nat
  /\ Faults \subseteq {"db", "restart", "slow", "expire"}

VARIABLES
  row, rows,         \* the tables row, and the ids given out
  txn,               \* mcp_oauth_transactions, with what the user decided
  issued, valid,     \* grants, and the generation the service takes of each
  request,           \* handlers at an await
  session, attempt, call, \* a build's copy of the credential, its
                          \* connections, its latest call
  \* observed only
  redeemed,          \* how often a round trip's code was exchanged
  owner,             \* the row a grant was saved to
  spoiled            \* grants refreshed with a token that was used up, or
                     \* whose refresh was not stored, or was stored too early

tables   == <<row, rows>>
service  == <<issued, valid>>
builds   == <<session, attempt, call>>
observed == <<redeemed, owner, spoiled>>
vars == <<tables, txn, service, request, builds, observed>>

Gone == 0
NoTokens == -1

Credentials == [grant : 0..MaxGrants, oauth : BOOLEAN, gen : NoTokens..MaxRefresh]
Rows == [id : 0..MaxRows, cred : Credentials]
Requests == [at : {"idle", "exchange", "save"}, cred : Credentials]
Sessions == [at : {"none", "ready", "over"}, id : 0..MaxRows, cred : Credentials]
Attempts == [at : {"none", "request", "refresh", "save", "authorize"},
             gen : 0..MaxRefresh, save : Credentials,
             next : {"none", "request", "authorize", "fail"}, left : BOOLEAN]
Calls == [at : {"idle", "connecting", "calling", "late"},
          tried : 0..2, sent : 0..2, runs : 0..2]

NoCred == [grant |-> 0, oauth |-> FALSE, gen |-> 0]
NoRow  == [id |-> Gone, cred |-> NoCred]
Free   == [at |-> "idle", cred |-> NoCred]
Unused == [at |-> "none", gen |-> 0, save |-> NoCred, next |-> "none", left |-> FALSE]
NoCall == [at |-> "idle", tried |-> 0, sent |-> 0, runs |-> 0]
Connecting == [NoCall EXCEPT !.at = "connecting"]
NoSession == [at |-> "none", id |-> Gone, cred |-> NoCred]

TypeOK ==
  /\ row \in Rows
  /\ rows \in 0..MaxRows
  /\ txn \in [Txn -> {"none", "inserted", "waiting", "code", "denied", "gone"}]
  /\ issued \in 0..MaxGrants
  /\ valid \in [1..MaxGrants -> NoTokens..MaxRefresh]
  /\ request \in [Request -> Requests]
  /\ session \in [Build -> Sessions]
  /\ attempt \in [Build -> [Slot -> Attempts]]
  /\ call \in [Build -> Calls]
  /\ redeemed \in [Txn -> 0..2]
  /\ owner \in [1..MaxGrants -> 0..MaxRows]
  /\ spoiled \subseteq 1..MaxGrants

Init ==
  /\ row = NoRow /\ rows = 0
  /\ txn = [t \in Txn |-> "none"]
  /\ issued = 0 /\ valid = [g \in 1..MaxGrants |-> NoTokens]
  /\ request = [r \in Request |-> Free]
  /\ session = [b \in Build |-> NoSession]
  /\ attempt = [b \in Build |-> [k \in Slot |-> Unused]]
  /\ call = [b \in Build |-> NoCall]
  /\ redeemed = [t \in Txn |-> 0]
  /\ owner = [g \in 1..MaxGrants |-> Gone]
  /\ spoiled = {}

-----------------------------------------------------------------------------
(* The OAuth round trip                                                    *)

\* POST /mcp/:slug/oauth/start, or its custom form: the transaction is
\* inserted under a placeholder before the SDK is asked for anything.
StartOAuth(t) ==
  /\ txn[t] = "none"
  /\ txn' = [txn EXCEPT ![t] = "inserted"]
  /\ UNCHANGED <<tables, service, request, builds, observed>>

\* The SDK has its client, state and verifier: the page can be opened.
SaveState(t) ==
  /\ txn[t] = "inserted"
  /\ txn' = [txn EXCEPT ![t] = "waiting"]
  /\ UNCHANGED <<tables, service, request, builds, observed>>

\* No authorization page: the transaction is deleted.  A server that needs no
\* authorization is connected, without tokens.
StartEnds(t, r) ==
  /\ txn[t] \in {"inserted", "waiting"}
  /\ txn' = [txn EXCEPT ![t] = "gone"]
  /\ \/ UNCHANGED request
     \/ /\ request[r].at = "idle"
        /\ txn[t] = "inserted"
        /\ request' = [request EXCEPT ![r] =
             [at |-> "save", cred |-> [grant |-> 0, oauth |-> TRUE, gen |-> NoTokens]]]
  /\ UNCHANGED <<tables, service, builds, observed>>

\* The user answers at the service, which sends the browser to the callback;
\* that address can be opened any number of times.
Answer(t, decision) ==
  /\ txn[t] = "waiting"
  /\ txn' = [txn EXCEPT ![t] = decision]
  /\ UNCHANGED <<tables, service, request, builds, observed>>

\* The row stays and no callback finds it any more.
Expire(t) ==
  /\ "expire" \in Faults
  /\ txn[t] \in {"waiting", "code", "denied"}
  /\ txn' = [txn EXCEPT ![t] = "gone"]
  /\ UNCHANGED <<tables, service, request, builds, observed>>

\* What follows for the one request that got the transaction: a denied one and
\* a custom one, whose session has no tokens yet, end there.
Redeem(t, r) ==
  IF txn[t] = "code" /\ t \notin Custom
  THEN /\ request' = [request EXCEPT ![r] = [at |-> "exchange", cred |-> NoCred]]
       /\ redeemed' = [redeemed EXCEPT ![t] = @ + 1]
  ELSE UNCHANGED <<request, redeemed>>

\* mutant of Callback: the transaction is read here and deleted later
Callback_ReadOnly(t, r) ==
  /\ request[r].at = "idle"
  /\ txn[t] \in {"code", "denied"} /\ redeemed[t] < 2
  /\ Redeem(t, r)
  /\ UNCHANGED <<tables, txn, service, builds, owner, spoiled>>

\* GET /mcp/oauth/callback: DELETE ... RETURNING of the unexpired transaction.
Callback(t, r) ==
  /\ request[r].at = "idle"
  /\ txn[t] \in {"code", "denied"}
  /\ txn' = [txn EXCEPT ![t] = "gone"]
  /\ Redeem(t, r)
  /\ UNCHANGED <<tables, service, builds, owner, spoiled>>

\* The service grants; what the request has of it is to be tried before it is saved.
NewGrant(r, oauth) ==
  /\ issued < MaxGrants
  /\ issued' = issued + 1
  /\ valid' = [valid EXCEPT ![issued + 1] = 0]
  /\ request' = [request EXCEPT ![r] =
       [at |-> "save", cred |-> [grant |-> issued + 1, oauth |-> oauth, gen |-> 0]]]

\* finishAuth(): the code becomes a grant.
Exchange(r) ==
  /\ request[r].at = "exchange"
  /\ NewGrant(r, TRUE)
  /\ UNCHANGED <<tables, txn, builds, observed>>

-----------------------------------------------------------------------------
(* Keys, and what every way to connect ends in                             *)

\* A key is posted.
ConnectKey(r) ==
  /\ request[r].at = "idle"
  /\ NewGrant(r, FALSE)
  /\ UNCHANGED <<tables, txn, builds, observed>>

\* The exchange, the check that at least one tool is listed, or the insert
\* fails: nothing was saved.
RequestFails(r) ==
  /\ request[r].at \in {"exchange", "save"}
  /\ request' = [request EXCEPT ![r] = Free]
  /\ UNCHANGED <<tables, txn, service, builds, observed>>

\* INSERT ... ON CONFLICT DO UPDATE: a row that is there keeps its id.
Save(r) ==
  LET id == IF row.id = Gone THEN rows + 1 ELSE row.id
      g  == request[r].cred.grant
  IN  /\ request[r].at = "save"
      /\ id <= MaxRows
      /\ row' = [id |-> id, cred |-> request[r].cred]
      /\ rows' = IF row.id = Gone THEN id ELSE rows
      /\ owner' = IF g # 0 THEN [owner EXCEPT ![g] = id] ELSE owner
      /\ request' = [request EXCEPT ![r] = Free]
      /\ UNCHANGED <<txn, service, builds, redeemed, spoiled>>

\* DELETE /mcp/:slug, the same of a custom one, and DELETE /:id of Supabase.
Disconnect ==
  /\ row.id # Gone
  /\ row' = NoRow
  /\ UNCHANGED <<rows, txn, service, request, builds, observed>>

-----------------------------------------------------------------------------
(* A build's copy of the credential                                        *)

Busy(b) == \E k \in Slot : attempt[b][k].at # "none"

\* getConnectedMcpServers(): the build keeps what the row was.
Load(b) ==
  /\ session[b].at = "none"
  /\ row.id # Gone
  /\ session' = [session EXCEPT ![b] = [at |-> "ready", id |-> row.id, cred |-> row.cred]]
  /\ UNCHANGED <<tables, txn, service, request, attempt, call, observed>>

\* The build is over; a connection it gave up may still be at work.
EndBuild(b) ==
  /\ session[b].at = "ready" /\ call[b].at \in {"idle", "late"}
  /\ session' = [session EXCEPT ![b] =
       IF Busy(b) THEN [@ EXCEPT !.at = "over"]
       ELSE NoSession]
  /\ call' = [call EXCEPT ![b] = NoCall]
  /\ UNCHANGED <<tables, txn, service, request, attempt, observed>>

\* The connection in k ends; with the last one of a build that is over goes its
\* copy.
Drop(b, k) ==
  /\ attempt' = [attempt EXCEPT ![b][k] = Unused]
  /\ session' = IF session[b].at = "over" /\ \A j \in Slot \ {k} : attempt[b][j].at = "none"
                THEN [session EXCEPT ![b] = NoSession]
                ELSE session

\* A call that is over, or will never be carried out, is forgotten.
Over(c) == IF c.runs < c.sent THEN [c EXCEPT !.at = "late"] ELSE NoCall

\* connectMcpClient() tries the next transport, or gives up.
NextTransport(c) == IF c.tried < 2 THEN [c EXCEPT !.at = "connecting"] ELSE Over(c)

Current(b, k) == attempt[b][k].at # "none" /\ ~attempt[b][k].left

\* The connection ends without a client, for the call that was waiting for it or,
\* given up, for nobody.
EndAttempt(b, k) ==
  /\ Drop(b, k)
  /\ call' = IF Current(b, k) THEN [call EXCEPT ![b] = NextTransport(@)] ELSE call

\* A tool is called, or the tools are listed for the model: both connect first.
StartCall(b) ==
  /\ session[b].at = "ready" /\ call[b].at \in {"idle", "late"}
  /\ call' = [call EXCEPT ![b] = Connecting]
  /\ UNCHANGED <<tables, txn, service, request, session, attempt, observed>>

Open(b, k) ==
  /\ call[b].at = "connecting" /\ call[b].tried < 2
  /\ \A j \in Slot : ~Current(b, j)
  /\ k \in SlotsOf[b] /\ attempt[b][k].at = "none"
  /\ attempt' = [attempt EXCEPT ![b][k] = [Unused EXCEPT !.at = "request"]]
  /\ call' = [call EXCEPT ![b].tried = @ + 1]
  /\ UNCHANGED <<tables, txn, service, request, session, observed>>

\* What the service takes: any token of a grant that stands, and nothing at all
\* when it asks for none.
Takes(cred) == cred.grant = 0 \/ (cred.gen # NoTokens /\ valid[cred.grant] # NoTokens)

Sent(c) == [at |-> "calling", tried |-> 0, sent |-> c.sent + 1, runs |-> c.runs]

\* It lists its tools: that was all, or the one to call is among them and is
\* called at once.
Accepted(b, k) ==
  /\ attempt[b][k].at = "request"
  /\ Takes(session[b].cred)
  /\ Drop(b, k)
  /\ \/ call' = [call EXCEPT ![b] = NoCall]
     \/ call' = [call EXCEPT ![b] = Sent(@)]
  /\ UNCHANGED <<tables, txn, service, request, observed>>

\* It does not answer, refuses the key, does not know the tool, or the race of 5
\* or 8 seconds is lost, which aborts what the connection was waiting for.
Fails(b, k) ==
  /\ attempt[b][k].at = "request"
  /\ EndAttempt(b, k)
  /\ UNCHANGED <<tables, txn, service, request, observed>>

\* 401: the SDK takes the refresh token, or starts an authorization nobody is
\* there to finish.
Refused(b, k) ==
  LET cred  == session[b].cred
      again == \E c \in Build, j \in Slot :
                 attempt[c][j].at = "refresh" /\ session[c].cred.grant = cred.grant
  IN  /\ attempt[b][k].at = "request"
      /\ cred.oauth
      /\ attempt' = [attempt EXCEPT ![b][k] =
           IF cred.gen = NoTokens THEN [@ EXCEPT !.at = "authorize"]
           ELSE [@ EXCEPT !.at = "refresh", !.gen = cred.gen]]
      /\ spoiled' = IF cred.grant # 0 /\ (again \/ cred.gen # valid[cred.grant])
                    THEN spoiled \cup {cred.grant} ELSE spoiled
      /\ UNCHANGED <<tables, txn, service, request, session, call, redeemed, owner>>

\* The service answers the refresh: a newer token, which makes the old one
\* useless, or that the token is not the newest.  The session has it at once.
Refreshed(b, k) ==
  LET g      == session[b].cred.grant
      newest == attempt[b][k].gen = valid[g]
      cred   == [session[b].cred EXCEPT !.gen = IF newest THEN valid[g] + 1 ELSE NoTokens]
  IN  /\ attempt[b][k].at = "refresh"
      /\ newest => valid[g] < MaxRefresh
      /\ valid' = IF newest THEN [valid EXCEPT ![g] = @ + 1] ELSE valid
      /\ session' = [session EXCEPT ![b].cred = cred]
      /\ attempt' = [attempt EXCEPT ![b][k] =
           [at |-> "save", gen |-> 0, save |-> cred, left |-> attempt[b][k].left,
            next |-> IF newest THEN "request" ELSE "authorize"]]
      /\ UNCHANGED <<tables, txn, issued, request, call, observed>>

\* The request or its answer is lost: the token may have been used up.
RefreshLost(b, k) ==
  LET g == session[b].cred.grant
  IN  /\ attempt[b][k].at = "refresh"
      /\ "slow" \in Faults
      /\ \/ valid' = valid /\ spoiled' = spoiled
         \/ /\ attempt[b][k].gen = valid[g] /\ valid[g] < MaxRefresh
            /\ valid' = [valid EXCEPT ![g] = @ + 1]
            /\ spoiled' = spoiled \cup {g}
      /\ EndAttempt(b, k)
      /\ UNCHANGED <<tables, txn, issued, request, redeemed, owner>>

\* The code verifier of an authorization is saved, with what the session has.
Authorize(b, k) ==
  /\ attempt[b][k].at = "authorize"
  /\ attempt' = [attempt EXCEPT ![b][k].at = "save", ![b][k].save = session[b].cred,
                                ![b][k].next = "fail"]
  /\ UNCHANGED <<tables, txn, service, request, session, call, observed>>

\* After a refresh the request goes out again, unless its connection was closed;
\* after tokens were dropped an authorization starts, and with that it fails.
Saved(b, k) ==
  LET a == attempt[b][k]
  IN  IF a.next = "fail" \/ (a.next = "request" /\ a.left) THEN EndAttempt(b, k)
      ELSE /\ attempt' = [attempt EXCEPT ![b][k] =
                [at |-> a.next, gen |-> 0, save |-> NoCred, left |-> a.left, next |-> "none"]]
           /\ UNCHANGED <<session, call>>

\* The writes of one grant reach the database in any order: this one before that
\* of an older token, which will overwrite it.
Overtakes(b, k) ==
  \E c \in Build, j \in Slot :
    /\ session[c].cred.grant = session[b].cred.grant
    /\ attempt[c][j].at = "save"
    /\ attempt[c][j].save.gen < attempt[b][k].save.gen

\* mutant of Persist: the row is found by its user and service
Persist_BySlug(b, k) ==
  /\ attempt[b][k].at = "save"
  /\ row' = IF row.id # Gone THEN [row EXCEPT !.cred = attempt[b][k].save] ELSE row
  /\ Saved(b, k)
  /\ UNCHANGED <<rows, txn, service, request, observed>>

\* mutant of Persist: the refreshed session is kept in memory only
Persist_Nowhere(b, k) ==
  /\ attempt[b][k].at = "save"
  /\ Saved(b, k)
  /\ UNCHANGED <<tables, txn, service, request, observed>>

\* persistOAuthSession(): an UPDATE of the row the build had read.
Persist(b, k) ==
  /\ attempt[b][k].at = "save"
  /\ row' = IF row.id = session[b].id THEN [row EXCEPT !.cred = attempt[b][k].save] ELSE row
  /\ spoiled' = IF Overtakes(b, k) THEN spoiled \cup ({session[b].cred.grant} \ {0})
                ELSE spoiled
  /\ Saved(b, k)
  /\ UNCHANGED <<rows, txn, service, request, redeemed, owner>>

\* It rejects, and the connection with it.
PersistFails(b, k) ==
  /\ attempt[b][k].at = "save" /\ "db" \in Faults
  /\ spoiled' = spoiled \cup ({session[b].cred.grant} \ {0})
  /\ EndAttempt(b, k)
  /\ UNCHANGED <<tables, txn, service, request, redeemed, owner>>

\* The race is lost meanwhile: what the connection is about to do for the
\* session it does all the same.
ConnectTimesOut(b, k) ==
  /\ "slow" \in Faults
  /\ Current(b, k) /\ attempt[b][k].at # "request"
  /\ attempt' = [attempt EXCEPT ![b][k].left = TRUE]
  /\ call' = [call EXCEPT ![b] = NextTransport(@)]
  /\ UNCHANGED <<tables, txn, service, request, session, observed>>

-----------------------------------------------------------------------------
(* The call                                                                *)

\* The service carries a call out that it was sent, given up by now or not.
Run(b) ==
  /\ call[b].runs < call[b].sent
  /\ call' = [call EXCEPT ![b] = IF @.at = "late" /\ @.runs = 0 THEN NoCall
                                 ELSE [@ EXCEPT !.runs = call[b].runs + 1]]
  /\ UNCHANGED <<tables, txn, service, request, session, attempt, observed>>

\* callMcpTool() returns what the tool returned, ...
Returned(b) ==
  /\ call[b].at = "calling"
  /\ call[b].runs = call[b].sent
  /\ call' = [call EXCEPT ![b] = NoCall]
  /\ UNCHANGED <<tables, txn, service, request, session, attempt, observed>>

\* mutant of CallFails: the other transport is tried
CallFails_TriesAgain(b) ==
  /\ call[b].at = "calling"
  /\ call' = [call EXCEPT ![b].at = "connecting"]
  /\ UNCHANGED <<tables, txn, service, request, session, attempt, observed>>

\* ... or an error: the tool's, the connection's, or its own after 30 seconds.
CallFails(b) ==
  /\ call[b].at = "calling"
  /\ call' = [call EXCEPT ![b] = Over(@)]
  /\ UNCHANGED <<tables, txn, service, request, session, attempt, observed>>

\* The server is gone with everything under way.
Restart ==
  /\ "restart" \in Faults
  /\ request' = [r \in Request |-> Free]
  /\ session' = [b \in Build |-> NoSession]
  /\ attempt' = [b \in Build |-> [k \in Slot |-> Unused]]
  /\ call' = [b \in Build |-> NoCall]
  /\ spoiled' = spoiled \cup ({session[b].cred.grant :
       b \in {c \in Build : \E k \in Slot : attempt[c][k].at \in {"refresh", "save"}}} \ {0})
  /\ UNCHANGED <<tables, txn, service, redeemed, owner>>

-----------------------------------------------------------------------------
RoundTrip(t) ==
  \/ StartOAuth(t) \/ SaveState(t) \/ Expire(t)
  \/ \E decision \in {"code", "denied"} : Answer(t, decision)
  \/ \E r \in Request : StartEnds(t, r) \/ Callback(t, r)

Handler(r) ==
  \/ Exchange(r) \/ RequestFails(r) \/ Save(r)
  \/ ConnectKey(r)

Connection(b, k) ==
  \/ Open(b, k) \/ Accepted(b, k) \/ Fails(b, k) \/ Refused(b, k)
  \/ Refreshed(b, k) \/ RefreshLost(b, k) \/ Authorize(b, k)
  \/ Persist(b, k) \/ PersistFails(b, k) \/ ConnectTimesOut(b, k)

Agent(b) ==
  \/ Load(b) \/ EndBuild(b)
  \/ StartCall(b)
  \/ \E k \in Slot : Connection(b, k)
  \/ Run(b) \/ Returned(b) \/ CallFails(b)

Next ==
  \/ \E t \in Txn : RoundTrip(t)
  \/ \E r \in Request : Handler(r)
  \/ \E b \in Build : Agent(b)
  \/ Disconnect \/ Restart

Spec == Init /\ [][Next]_vars

-----------------------------------------------------------------------------
(* Properties                                                              *)

\* However often its address is opened, and by however many requests at once,
\* a round trip's code is exchanged once, and its transaction is gone by then
\* (the DELETE ... RETURNING of the callback).
RedeemedOnce ==
  \A t \in Txn : redeemed[t] > 0 => redeemed[t] = 1 /\ txn[t] = "gone"

\* A row holds a credential that was saved to that very row.  A build that has
\* read a row and refreshes its tokens after the user disconnected, and perhaps
\* connected again, brings nothing back and changes nothing of the new row.
OwnCredential ==
  row.id # Gone /\ row.cred.grant # 0 => owner[row.cred.grant] = row.id

\* The rotated refresh token is the stored one, through any number of refreshes
\* by builds one after another or side by side, unless one of them refreshed with
\* a token another had used up, or a write or an answer was lost, or one write was
\* overtaken by a later one (the persist of createMcpOAuthProvider() and of
\* getConnectedMcpServers(), an UPDATE that nothing puts in order).
TokensKept ==
  LET g == row.cred.grant
      underWay == \E b \in Build, k \in Slot :
                    session[b].cred.grant = g /\ attempt[b][k].at \in {"refresh", "save"}
  IN  row.id # Gone /\ row.cred.oauth /\ g \notin spoiled \cup {0} /\ ~underWay
        => row.cred.gen = valid[g]

\* Whatever timers ran out and whichever transport was tried, the service
\* carries one call of the model out at most once.
CalledOnce == \A b \in Build : call[b].runs <= 1

\* Nothing that may happen once happens twice: neither the exchange of a code
\* nor a call of a service, whoever retries (integrations.ts, call-tool.ts).
OnceEach == RedeemedOnce /\ CalledOnce

\* A newer consent is not overwritten by a build that began before it.
NewestKept ==
  [][row.id # Gone /\ row'.id = row.id /\ row'.cred.grant # row.cred.grant
       => row'.cred.grant = 0 \/ row'.cred.grant > row.cred.grant]_vars
=============================================================================
