----------------------------- MODULE ChatHistory -----------------------------
(***************************************************************************)
(* What the clients of one build see of its events: the live broadcast,    *)
(* the replay buffer in Redis (src/websocket/server.ts), the messages kept *)
(* in the database (src/websocket/message-recorder.ts) and what a socket   *)
(* that joins is sent (src/websocket/handlers/build-handler.ts).           *)
(*                                                                         *)
(* Event n is the n-th of emitted.  A text is a piece of streamed output,  *)
(* a tool the end of a tool call, an error the failure of one attempt at a *)
(* model, after which the dispatcher may try the next one.  The end may be *)
(* told more than once: the runner, a request to cancel and a shutdown     *)
(* each close the row and tell it, and none of them waits for another.  A  *)
(* message is known by the last event it was made of.                      *)
(***************************************************************************)
EXTENDS Naturals, Sequences, FiniteSets

CONSTANTS Socket,    \* a client's sockets
          Cancel,    \* requests to cancel the build
          MaxEvents, \* bound on the events of the build
          MaxFaults, \* bound on the faults of a behaviour
          Faults     \* "redis", "db": a request to it fails; "expire": the buffer's hour is over;
                     \* "restart": the process is replaced; "retry": an attempt at a model fails
                     \* and another is made

ASSUME ConstantsAssumption ==
  /\ MaxEvents \in Nat /\ MaxFaults \in Nat
  /\ Faults \subseteq {"redis", "db", "expire", "restart", "retry"}

VARIABLES
  emitted,  \* the kinds of the events
  row,      \* build_sessions.status: "running", "cancelled", "failed", "success"
  runner,   \* runFastBuild(): at work, its row closed ("success", "failed"), or gone
  cancel,   \* per request: "none", the flag is up, the row is closed, or "done"
  stopping, \* the shutdown: "no", "told", "closed"
  pushing, buffer, \* events on their way to Redis, and in the list there
  first,           \* the recorder still has the entry it made when the build began
  seq, open,       \* the entry: next number, last piece of the open text or 0
  inserts, stored, \* rows on their way to build_messages, and there
  place,    \* per socket: "out", the await of join_session it is at, or "in"
  reply,    \* per socket: what Redis answered, until it is handled
  view,     \* per socket: what the client shows
  faults,   \* how many faults there were
  \* observed only
  unpushed, \* events that never reached Redis, or are no longer there
  unkept,   \* messages whose row a failure or a restart lost
  taken,    \* the rows there ever were, with their numbers
  restarted, \* messages numbered from 0 again, after the recorder dropped its entry
  missed    \* per socket: events it is not sent when it joins, nor later

redis == <<pushing, buffer, unpushed>>
recorder == <<first, seq, open, inserts, stored, unkept, taken, restarted>>
sockets == <<place, reply, view, missed>>
actors == <<row, runner, cancel, stopping>>
vars == <<emitted, actors, redis, recorder, sockets, faults>>

\* An error and a failed are both build:error: an attempt's, and the build's.
Kind == {"text", "tool", "error", "failed", "cancelled", "complete"}
Events == DOMAIN emitted

\* The user's prompt, recorded first and never sent as an event, and the ending
\* that is made up for a client that reopens a finished session.
Prompt == 0
Ending == MaxEvents + 1

Row == [seq : Nat, msg : Nat]
Place == {"out", "ask", "answered", "row", "failed", "finished", "files", "in"}

TypeOK ==
  /\ emitted \in Seq(Kind) /\ Len(emitted) <= MaxEvents
  /\ row \in {"running", "cancelled", "failed", "success"}
  /\ runner \in {"working", "success", "failed", "gone"}
  /\ cancel \in [Cancel -> {"none", "flag", "row", "done"}]
  /\ stopping \in {"no", "told", "closed"}
  /\ pushing \in Seq(Events) /\ buffer \in Seq(Events)
  /\ first \in BOOLEAN /\ seq \in Nat /\ open \in Nat
  /\ inserts \subseteq Row /\ stored \subseteq Row /\ taken \subseteq Row
  /\ place \in [Socket -> Place]
  /\ reply \in [Socket -> Seq(Events)]
  /\ view \in [Socket -> Seq(Events \cup {Prompt, Ending})]
  /\ unpushed \subseteq Events /\ unkept \subseteq Nat /\ restarted \subseteq Nat
  /\ missed \in [Socket -> SUBSET Events]

Init ==
  /\ emitted = <<>>
  /\ row = "running" /\ runner = "working" /\ stopping = "no"
  /\ cancel = [c \in Cancel |-> "none"]
  /\ pushing = <<>> /\ buffer = <<>>
  /\ first = TRUE /\ seq = 1 /\ open = 0
  /\ inserts = {[seq |-> 0, msg |-> Prompt]} /\ stored = {} /\ taken = inserts
  /\ place = [s \in Socket |-> "out"]
  /\ reply = [s \in Socket |-> <<>>]
  /\ view = [s \in Socket |-> <<>>]
  /\ unpushed = {} /\ unkept = {} /\ restarted = {}
  /\ missed = [s \in Socket |-> {}]
  /\ faults = 0

Fault(f) ==
  /\ f \in Faults /\ faults < MaxFaults
  /\ faults' = faults + 1

-----------------------------------------------------------------------------
(* emitToRoom()                                                            *)

\* mutant of InRoom: the room is joined once the replay is done.
InRoom_Late(s) == place[s] = "in"

InRoom(s) == place[s] # "out"

\* closeThinking(), then the message itself.
Messages(n) == IF open # 0 THEN <<open, n>> ELSE <<n>>

\* write(): the numbers are taken at once, the INSERTs are not awaited.
Write(msgs) ==
  LET rows == {[seq |-> seq + i - 1, msg |-> msgs[i]] : i \in DOMAIN msgs} IN
  /\ inserts' = inserts \cup rows
  /\ taken' = taken \cup rows
  /\ restarted' = IF first THEN restarted ELSE restarted \cup {msgs[i] : i \in DOMAIN msgs}

\* mutant of Record: a tool call that closes a text takes one number for both.
Record_OneNumber(n, kind) ==
  IF kind = "text"
  THEN open' = n /\ UNCHANGED <<first, seq, inserts, stored, unkept, taken, restarted>>
  ELSE /\ Write(Messages(n))
       /\ first' = (first /\ kind = "tool")
       /\ seq' = IF kind = "tool" THEN seq + 1 ELSE 0
       /\ open' = 0
       /\ UNCHANGED <<stored, unkept>>

\* recordEvent(): an error or an end drops the session's entry, and whatever is
\* recorded next makes another, which counts from 0.
Record(n, kind) ==
  IF kind = "text"
  THEN open' = n /\ UNCHANGED <<first, seq, inserts, stored, unkept, taken, restarted>>
  ELSE /\ Write(Messages(n))
       /\ first' = (first /\ kind = "tool")
       /\ seq' = IF kind = "tool" THEN seq + Len(Messages(n)) ELSE 0
       /\ open' = 0
       /\ UNCHANGED <<stored, unkept>>

\* io.to().emit() reaches the sockets of the room at once; the push is not awaited.
Emit(kind) ==
  LET n == Len(emitted) + 1 IN
  /\ Len(emitted) < MaxEvents
  /\ emitted' = Append(emitted, kind)
  /\ view' = [s \in Socket |-> IF InRoom(s) THEN Append(view[s], n) ELSE view[s]]
  /\ Record(n, kind)
  /\ \/ pushing' = Append(pushing, n) /\ UNCHANGED <<unpushed, faults>>
     \/ Fault("redis") /\ unpushed' = unpushed \cup {n} /\ UNCHANGED pushing
  /\ missed' = [s \in Socket |-> IF place[s] = "answered" /\ reply[s] # <<>>
                                 THEN missed[s] \cup {n} ELSE missed[s]]
  /\ UNCHANGED <<buffer, place, reply>>

-----------------------------------------------------------------------------
(* The runner, requests to cancel, the shutdown                            *)

Silent == UNCHANGED <<emitted, redis, recorder, sockets>>

\* cancelledSessions.has()
Flagged == \E c \in Cancel : cancel[c] # "none"

\* handleAgentStream() and the phases of the runner.  It does not look at the row,
\* and goes on after the end was told by another, until it looks at the flag.
Go(kind) ==
  /\ kind \in {"text", "tool"}
  /\ runner = "working"
  /\ Emit(kind)
  /\ UNCHANGED actors

\* The stream fails and the next tier is tried.
AttemptFails ==
  /\ "retry" \in Faults
  /\ runner = "working"
  /\ Emit("error")
  /\ UNCHANGED actors

\* After the dispatch the flag is told, later it is not.
NoticeCancel ==
  /\ runner = "working" /\ Flagged
  /\ \/ Emit("cancelled") \/ (Silent /\ UNCHANGED faults)
  /\ runner' = "gone"
  /\ UNCHANGED <<row, cancel, stopping>>

\* The row is closed first, the end is told later.  A row that cannot be closed
\* as a success is closed as a failure, unless there is a flag.
CloseRow(status) ==
  /\ runner \in {"working", "success"}
  /\ runner = "success" => status = "failed"
  /\ \/ row' = status /\ runner' = status /\ UNCHANGED faults
     \/ Fault("db") /\ status = "failed" /\ runner' = "gone" /\ UNCHANGED row
  /\ Silent /\ UNCHANGED <<cancel, stopping>>

TellEnd ==
  /\ runner \in {"success", "failed"}
  /\ \/ Emit(IF runner = "success" THEN "complete" ELSE "failed")
     \/ runner = "success" /\ Flagged /\ Silent /\ UNCHANGED faults
  /\ runner' = "gone"
  /\ UNCHANGED <<row, cancel, stopping>>

SetCancel(c, at) == cancel' = [cancel EXCEPT ![c] = at]

\* POST /:sessionId/cancel
AskCancel(c) ==
  /\ cancel[c] = "none" /\ row = "running"
  /\ SetCancel(c, "flag")
  /\ Silent /\ UNCHANGED <<row, runner, stopping, faults>>

CloseCancelled(c) ==
  /\ cancel[c] = "flag"
  /\ \/ row' = "cancelled" /\ SetCancel(c, "row") /\ UNCHANGED faults
     \/ Fault("db") /\ SetCancel(c, "done") /\ UNCHANGED row
  /\ Silent /\ UNCHANGED <<runner, stopping>>

TellCancel(c) ==
  /\ cancel[c] = "row"
  /\ Emit("failed") \/ (Fault("db") /\ Silent)
  /\ SetCancel(c, "done")
  /\ UNCHANGED <<row, runner, stopping>>

\* failRunningBuildsOnShutdown(): here the end is told first.
Stop ==
  /\ "restart" \in Faults
  /\ runner # "gone" /\ stopping = "no"
  /\ Emit("failed")
  /\ stopping' = "told"
  /\ UNCHANGED <<row, runner, cancel>>

StopRow ==
  /\ stopping = "told"
  /\ stopping' = "closed"
  /\ \/ row' = "failed" /\ UNCHANGED faults
     \/ Fault("db") /\ UNCHANGED row
  /\ Silent /\ UNCHANGED <<runner, cancel>>

-----------------------------------------------------------------------------
(* Redis and the database                                                  *)

\* One connection, commands in order.
Push ==
  /\ pushing # <<>>
  /\ buffer' = Append(buffer, Head(pushing))
  /\ pushing' = Tail(pushing)
  /\ UNCHANGED <<emitted, actors, recorder, sockets, unpushed, faults>>

\* The buffer's key expires an hour after the last event.
Expire ==
  /\ Fault("expire")
  /\ runner = "gone" /\ pushing = <<>> /\ buffer # <<>>
  /\ buffer' = <<>>
  /\ unpushed' = unpushed \cup {buffer[i] : i \in DOMAIN buffer}
  /\ UNCHANGED <<emitted, actors, pushing, recorder, sockets>>

\* build_messages has a unique index on the session and the number.
Insert(r) ==
  /\ r \in inserts
  /\ inserts' = inserts \ {r}
  /\ stored' = IF \E t \in stored : t.seq = r.seq THEN stored ELSE stored \cup {r}
  /\ UNCHANGED <<emitted, actors, redis, first, seq, open, unkept, taken, restarted, sockets, faults>>

InsertFails(r) ==
  /\ r \in inserts
  /\ Fault("db")
  /\ inserts' = inserts \ {r}
  /\ unkept' = unkept \cup {r.msg}
  /\ UNCHANGED <<emitted, actors, redis, first, seq, open, stored, taken, restarted, sockets>>

-----------------------------------------------------------------------------
(* A socket: connection or join_session, replayBuffer() and                *)
(* settleFinishedSession()                                                 *)

Goto(s, p) == place' = [place EXCEPT ![s] = p]

\* The room is joined and LRANGE is sent, on another connection than the pushes.
Join(s) ==
  /\ place[s] = "out"
  /\ Goto(s, "ask")
  /\ missed' = [missed EXCEPT ![s] = Events]
  /\ UNCHANGED <<emitted, actors, redis, recorder, reply, view, faults>>

Answer(s) ==
  /\ place[s] = "ask"
  /\ \/ reply' = [reply EXCEPT ![s] = buffer] /\ UNCHANGED faults
     \/ Fault("redis") /\ reply' = [reply EXCEPT ![s] = <<>>]
  /\ missed' = [missed EXCEPT ![s] = IF reply'[s] = <<>> THEN @
                                    ELSE {pushing[i] : i \in DOMAIN pushing}]
  /\ Goto(s, "answered")
  /\ UNCHANGED <<emitted, actors, redis, recorder, view>>

\* mutant of Replay: no build:replay_start.
Replay_Append(s) ==
  /\ place[s] = "answered"
  /\ \/ /\ reply[s] # <<>>
        /\ view' = [view EXCEPT ![s] = @ \o reply[s]]
        /\ reply' = [reply EXCEPT ![s] = <<>>]
        /\ Goto(s, "in")
     \/ reply[s] = <<>> /\ Goto(s, "row") /\ UNCHANGED <<view, reply>>
  /\ UNCHANGED <<emitted, actors, redis, recorder, missed, faults>>

\* build:replay_start drops what the client has; then the buffered events.
Replay(s) ==
  /\ place[s] = "answered"
  /\ \/ /\ reply[s] # <<>>
        /\ view' = [view EXCEPT ![s] = reply[s]]
        /\ reply' = [reply EXCEPT ![s] = <<>>]
        /\ Goto(s, "in")
     \/ reply[s] = <<>> /\ Goto(s, "row") /\ UNCHANGED <<view, reply>>
  /\ UNCHANGED <<emitted, actors, redis, recorder, missed, faults>>

ReadRow(s) ==
  /\ place[s] = "row"
  /\ \/ /\ row # "running"
        /\ Goto(s, IF row = "success" THEN "finished" ELSE "failed")
        /\ UNCHANGED faults
     \/ /\ IF row = "running" THEN UNCHANGED faults ELSE Fault("db")
        /\ Goto(s, "in")
  /\ UNCHANGED <<emitted, actors, redis, recorder, reply, view, missed>>

\* loadMessages(), which orders by number.
History ==
  [i \in 1..Cardinality(stored) |->
    (CHOOSE r \in stored : Cardinality({t \in stored : t.seq < r.seq}) = i - 1).msg]

\* build:history drops what the client has; a failed build's end comes at once,
\* a finished one's when its files are loaded.
Settle(s) ==
  /\ place[s] \in {"failed", "finished"}
  /\ \E h \in {History, <<>>} :
       /\ IF h = History THEN UNCHANGED faults ELSE Fault("db")
       /\ view' = [view EXCEPT ![s] = IF place[s] = "failed" THEN Append(h, Ending) ELSE h]
  /\ Goto(s, IF place[s] = "failed" THEN "in" ELSE "files")
  /\ UNCHANGED <<emitted, actors, redis, recorder, reply, missed>>

SettleComplete(s) ==
  /\ place[s] = "files"
  /\ view' = [view EXCEPT ![s] = Append(@, Ending)]
  /\ Goto(s, "in")
  /\ UNCHANGED <<emitted, actors, redis, recorder, reply, missed, faults>>

Leave(s) ==
  /\ place[s] = "in"
  /\ Goto(s, "out")
  /\ missed' = [missed EXCEPT ![s] = {}]
  /\ view' = [view EXCEPT ![s] = <<>>]
  /\ UNCHANGED <<emitted, actors, redis, recorder, reply, faults>>

\* The process is gone, at any moment; Redis and the database keep what has
\* reached them, and the next process knows no session.
Restart ==
  /\ Fault("restart")
  /\ runner' = "gone" /\ stopping' = "no"
  /\ cancel' = [c \in Cancel |-> IF cancel[c] = "none" THEN "none" ELSE "done"]
  /\ pushing' = <<>>
  /\ unpushed' = unpushed \cup {pushing[i] : i \in DOMAIN pushing}
  /\ first' = FALSE /\ seq' = 0 /\ open' = 0
  /\ inserts' = {} /\ unkept' = unkept \cup {r.msg : r \in inserts}
  /\ place' = [s \in Socket |-> "out"]
  /\ reply' = [s \in Socket |-> <<>>] /\ missed' = [s \in Socket |-> {}]
  /\ UNCHANGED <<emitted, row, buffer, stored, taken, restarted, view>>

Next ==
  \/ \E kind \in Kind : Go(kind)
  \/ AttemptFails \/ NoticeCancel \/ TellEnd
  \/ \E status \in {"failed", "success"} : CloseRow(status)
  \/ \E c \in Cancel : AskCancel(c) \/ CloseCancelled(c) \/ TellCancel(c)
  \/ Stop \/ StopRow
  \/ Push \/ Expire
  \/ \E r \in inserts : Insert(r) \/ InsertFails(r)
  \/ \E s \in Socket : \/ Join(s) \/ Answer(s) \/ Replay(s) \/ ReadRow(s)
                       \/ Settle(s) \/ SettleComplete(s) \/ Leave(s)
  \/ Restart

Spec == Init /\ [][Next]_vars

-----------------------------------------------------------------------------
(* Properties *)

Shown(s) == {view[s][i] : i \in DOMAIN view[s]}

\* A client shows every event once and in the order of the build, whatever it
\* had before, whatever was broadcast while its replay was being read, and
\* however the rows of a finished build reached the database (replayBuffer(),
\* settleFinishedSession(), loadMessages()).  Messages numbered from 0 again
\* are the exception, see SeqIsOrderSeen.
ViewInOrder ==
  \A s \in Socket : \A i, j \in DOMAIN view[s] :
    LET m == view[s][i]  n == view[s][j] IN
    i < j /\ Ending \notin {m, n} /\ {m, n} \cap restarted = {} => m < n

\* A client that joined misses no event but those still on their way to Redis
\* when the list was read or broadcast before the answer was handled, those
\* Redis never got or has let expire, and what preceded its joining when the
\* list was empty or could not be read; a finished build it knows to be
\* finished (emitToRoom(), join_session).
NothingElseIsMissed ==
  \A s \in Socket : place[s] = "in" /\ Ending \notin Shown(s) =>
    Events \subseteq Shown(s) \cup missed[s] \cup unpushed

\* A row is there or on its way, its INSERT failed, a restart lost it, or it shares
\* its number with another, one of the two numbered from 0 again.
RowKept(r) ==
  \/ r \in stored \cup inserts
  \/ r.msg \in unkept
  \/ \E t \in taken : t # r /\ t.seq = r.seq /\ {r.msg, t.msg} \cap restarted # {}

\* Every message but the open text has a row, and the row is kept: of what is
\* recorded before the recorder drops its entry no two ever claim one number, so
\* the index on the numbers turns a message away only for one that came after an
\* error, after the end was told, or after a restart, or because it is such a one
\* itself (write(), recordEvent(), db/schema.ts).
MessagesKept ==
  /\ \A n \in Events : emitted[n] # "text" => \E r \in taken : r.msg = n
  /\ \A r \in taken : RowKept(r)

\* The numbers are the order the user saw (db/schema.ts).  They are not once the
\* entry is dropped: after an attempt that fails, a cancel or a shutdown, what is
\* still told is numbered from 0 again.
SeqIsOrderSeen == \A r, t \in taken : r.msg < t.msg => r.seq < t.seq
=============================================================================
