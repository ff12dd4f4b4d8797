------------------------------ MODULE Approvals ------------------------------
(***************************************************************************)
(* The approval gate for writes: executeTool() and the shell tool register *)
(* a pending entry, prompt the session's room and race the entry against a *)
(* 120 s timer (src/agents/tools.ts, src/agents/tools/shell.ts); sockets   *)
(* decide or disconnect (src/websocket/handlers/build-handler.ts).         *)
(*                                                                         *)
(* A session runs the tool calls of a model's response one after another,  *)
(* so the calls of a session are numbered and the last one is the current. *)
(* The id of a call is whatever the model's provider sent.                 *)
(***************************************************************************)
EXTENDS Naturals, PendingEntries

CONSTANTS Session, Socket, Id,
          MayJoin,   \* the sessions each socket's user owns
          MaxCalls,  \* bound on the writes a session asks for
          UniqueIds  \* whether the provider never repeats an id

ASSUME ConstantsAssumption ==
  /\ Nobody \notin Session \cup Id
  /\ MayJoin \in [Socket -> SUBSET Session]
  /\ MaxCalls \in Nat
  /\ UniqueIds \in BOOLEAN

Num  == 1..MaxCalls
Call == Session \X Num

VARIABLES
  pending,      \* the Map
  n,            \* calls so far, per session
  ident, state, \* per session and number
  roundStart,   \* number of the first call of the current round
  writeDenied,  \* ctx.writeDenied.value of the current round
  timers,       \* numbers of the calls whose setTimeout is still armed
  joined,       \* socket.rooms
  tracking,     \* the session whose trackSession() is still to come
  active,       \* activeSessionId of a socket
  yes           \* observed only: the calls some prompt of which got a yes

vars == <<pending, n, ident, state, roundStart, writeDenied, timers, joined,
          tracking, active, yes>>
calls   == <<n, ident, roundStart>>
sockets == <<joined, tracking, active>>

States == {"none", "waiting", "approved", "denied", "cancelled", "unheard", "ran"}

TypeOK ==
  /\ pending \in [Id -> Session \cup {Nobody}]
  /\ n \in [Session -> 0..MaxCalls]
  /\ ident \in [Session -> [Num -> Id \cup {Nobody}]]
  /\ state \in [Session -> [Num -> States]]
  /\ roundStart \in [Session -> 1..(MaxCalls + 1)]
  /\ writeDenied \in [Session -> BOOLEAN]
  /\ timers \in [Session -> SUBSET Num]
  /\ joined \in [Socket -> SUBSET Session]
  /\ tracking \in [Socket -> Session \cup {Nobody}]
  /\ active \in [Socket -> Session \cup {Nobody}]
  /\ yes \subseteq Call

Init ==
  /\ pending = [i \in Id |-> Nobody]
  /\ n = [s \in Session |-> 0]
  /\ ident = [s \in Session |-> [k \in Num |-> Nobody]]
  /\ state = [s \in Session |-> [k \in Num |-> "none"]]
  /\ roundStart = [s \in Session |-> 1]
  /\ writeDenied = [s \in Session |-> FALSE]
  /\ timers = [s \in Session |-> {}]
  /\ joined = [c \in Socket |-> {}]
  /\ tracking = [c \in Socket |-> Nobody]
  /\ active = [c \in Socket |-> Nobody]
  /\ yes = {}

-----------------------------------------------------------------------------
(* Helpers.                                                                *)

Current(s) == n[s]
SetState(s, k, st) == state' = [state EXCEPT ![s][k] = st]

\* executeTool() returns a denial: the rest of the round is denied with it.
Deny(s) == /\ SetState(s, Current(s), "denied")
           /\ writeDenied' = [writeDenied EXCEPT ![s] = TRUE]

\* Nothing of the session's calls is under way.
Idle(s) == n[s] > 0 => state[s][Current(s)] \notin {"waiting", "approved"}

Fresh(i) == UniqueIds => \A s \in Session : \A k \in 1..n[s] : ident[s][k] # i

\* The dispatcher hands the next call of the round to executeTool().
Begin(s, i, st) ==
  /\ Idle(s)
  /\ n[s] < MaxCalls
  /\ Fresh(i)
  /\ n' = [n EXCEPT ![s] = @ + 1]
  /\ ident' = [ident EXCEPT ![s][n[s] + 1] = i]
  /\ SetState(s, n[s] + 1, st)
  /\ UNCHANGED <<roundStart, sockets, yes>>

-----------------------------------------------------------------------------
(* The dispatcher and executeTool()                                        *)

\* The model answered again: a fresh writeDenied for the new round.
NewRound(s) ==
  /\ Idle(s)
  /\ roundStart[s] <= n[s]
  /\ roundStart' = [roundStart EXCEPT ![s] = n[s] + 1]
  /\ writeDenied' = [writeDenied EXCEPT ![s] = FALSE]
  /\ UNCHANGED <<pending, n, ident, state, timers, sockets, yes>>

\* mutant of Request: a denied round asks again
Request_IgnoresDenial(s, i) ==
  /\ Begin(s, i, "waiting")
  /\ pending' = Register(pending, i, s)
  /\ timers' = [timers EXCEPT ![s] = @ \cup {n[s] + 1}]
  /\ UNCHANGED writeDenied

\* The prompt went out; its timer is armed and the call waits.
Request(s, i) ==
  /\ ~writeDenied[s]
  /\ Begin(s, i, "waiting")
  /\ pending' = Register(pending, i, s)
  /\ timers' = [timers EXCEPT ![s] = @ \cup {n[s] + 1}]
  /\ UNCHANGED writeDenied

\* The prompt could not be emitted: registered, settled and denied at once.
RequestUnheard(s, i) ==
  /\ ~writeDenied[s]
  /\ Begin(s, i, "unheard")
  /\ pending' = Settle(Register(pending, i, s), i, s)
  /\ writeDenied' = [writeDenied EXCEPT ![s] = TRUE]
  /\ UNCHANGED timers

\* An earlier write of the round was denied: cancelled without asking.
RequestCancelled(s, i) ==
  /\ writeDenied[s]
  /\ Begin(s, i, "cancelled")
  /\ UNCHANGED <<pending, writeDenied, timers>>

\* mutant of TimerFires: the race is lost, the entry stays in the map
TimerFires_LeavesEntry(s, k) ==
  /\ k \in timers[s]
  /\ \A j \in timers[s] : k <= j
  /\ timers' = [timers EXCEPT ![s] = @ \ {k}]
  /\ IF state[s][k] = "waiting" THEN Deny(s) ELSE UNCHANGED <<state, writeDenied>>
  /\ UNCHANGED <<pending, calls, sockets, yes>>

\* mutant of TimerFires: the entry is deleted, its promise never resolved
TimerFires_MapOnly(s, k) ==
  /\ k \in timers[s]
  /\ \A j \in timers[s] : k <= j
  /\ timers' = [timers EXCEPT ![s] = @ \ {k}]
  /\ pending' = Settle(pending, ident[s][k], s)
  /\ UNCHANGED <<state, writeDenied, calls, sockets, yes>>

\* mutant of TimerFires: it sweeps the session instead of its own entry
TimerFires_Sweeps(s, k) ==
  /\ k \in timers[s]
  /\ \A j \in timers[s] : k <= j
  /\ timers' = [timers EXCEPT ![s] = @ \ {k}]
  /\ pending' = Sweep(pending, s)
  /\ IF pending' # pending \/ state[s][k] = "waiting"
       THEN Deny(s) ELSE UNCHANGED <<state, writeDenied>>
  /\ UNCHANGED <<calls, sockets, yes>>

\* mutant of TimerFires: silence counts as a yes
TimerFires_FailsOpen(s, k) ==
  /\ k \in timers[s]
  /\ \A j \in timers[s] : k <= j
  /\ timers' = [timers EXCEPT ![s] = @ \ {k}]
  /\ pending' = Settle(pending, ident[s][k], s)
  /\ IF MaySettle(pending, ident[s][k], s)
       THEN SetState(s, Current(s), "approved") ELSE UNCHANGED state
  /\ UNCHANGED <<calls, writeDenied, sockets, yes>>

\* What a timer settles: the entry of its id, whichever call that belongs to by
\* now, and the race of its own call.
EndsWith(s, k) == MaySettle(pending, ident[s][k], s) \/ state[s][k] = "waiting"

\* 120 s after the prompt of call k, decided or not: nothing clears the timer.
\* Timers of one length fire in the order they were armed.
TimerFires(s, k) ==
  /\ k \in timers[s]
  /\ \A j \in timers[s] : k <= j
  /\ timers' = [timers EXCEPT ![s] = @ \ {k}]
  /\ pending' = Settle(pending, ident[s][k], s)
  /\ \/ EndsWith(s, k) /\ Deny(s)
     \/ ~EndsWith(s, k) /\ UNCHANGED <<state, writeDenied>>
  /\ UNCHANGED <<calls, sockets, yes>>

\* callApprovedMcpTool(), localExecute() or runShellCommand()
Run(s) ==
  /\ n[s] > 0 /\ state[s][Current(s)] = "approved"
  /\ SetState(s, Current(s), "ran")
  /\ UNCHANGED <<pending, calls, writeDenied, timers, sockets, yes>>

-----------------------------------------------------------------------------
(* The websocket handlers                                                  *)

\* mutant of Decide: the answer goes to the call whether or not it still waits
Decide_Late(c, s, k, approved) ==
  /\ s \in joined[c]
  /\ k <= n[s] /\ state[s][k] \notin {"cancelled", "unheard"}
  /\ yes' = IF approved THEN yes \cup {<<s, k>>} ELSE yes
  /\ pending' = Settle(pending, ident[s][k], s)
  /\ IF approved THEN SetState(s, k, "approved") /\ UNCHANGED writeDenied ELSE Deny(s)
  /\ UNCHANGED <<calls, timers, sockets>>

\* build:write_action_decision, in answer to the prompt of call k, which may
\* have been decided long since.  The payload holds the call's id only.
Decide(c, s, k, approved) ==
  /\ s \in joined[c]
  /\ k <= n[s] /\ state[s][k] \notin {"cancelled", "unheard"}
  /\ yes' = IF approved THEN yes \cup {<<s, k>>} ELSE yes
  /\ pending' = Settle(pending, ident[s][k], s)
  /\ \/ /\ ~MaySettle(pending, ident[s][k], s)
        /\ UNCHANGED <<state, writeDenied>>
     \/ /\ MaySettle(pending, ident[s][k], s)
        /\ approved
        /\ SetState(s, Current(s), "approved")
        /\ UNCHANGED writeDenied
     \/ /\ MaySettle(pending, ident[s][k], s)
        /\ ~approved
        /\ Deny(s)
  /\ UNCHANGED <<calls, timers, sockets>>

\* The handshake, "join" or "join_session", once the owner is verified: in the
\* room first ...
Join(c, s) ==
  /\ s \in MayJoin[c]
  /\ tracking[c] = Nobody
  /\ s \notin joined[c]
  /\ joined' = [joined EXCEPT ![c] = @ \cup {s}]
  /\ tracking' = [tracking EXCEPT ![c] = s]
  /\ UNCHANGED <<pending, calls, state, writeDenied, timers, active, yes>>

\* ... and the session to sweep only after the replay was awaited.
Track(c) ==
  /\ tracking[c] # Nobody
  /\ active' = [active EXCEPT ![c] = tracking[c]]
  /\ tracking' = [tracking EXCEPT ![c] = Nobody]
  /\ UNCHANGED <<pending, calls, state, writeDenied, timers, joined, yes>>

LeaveSession(c, s) ==
  /\ s \in joined[c]
  /\ joined' = [joined EXCEPT ![c] = @ \ {s}]
  /\ UNCHANGED <<pending, calls, state, writeDenied, timers, tracking, active, yes>>

\* mutant of Disconnect: entries are deleted, their promises not resolved
Disconnect_Forgets(c) ==
  /\ joined[c] # {} \/ active[c] # Nobody
  /\ joined' = [joined EXCEPT ![c] = {}]
  /\ tracking' = [tracking EXCEPT ![c] = Nobody]
  /\ active' = [active EXCEPT ![c] = Nobody]
  /\ pending' = IF active[c] # Nobody THEN Sweep(pending, active[c]) ELSE pending
  /\ UNCHANGED <<calls, state, writeDenied, timers, yes>>

\* The entries of the session joined last are swept; a socket that joined none
\* leaves the map alone.  Reconnecting makes a new socket.
Disconnect(c) ==
  /\ joined[c] # {} \/ active[c] # Nobody
  /\ joined' = [joined EXCEPT ![c] = {}]
  /\ tracking' = [tracking EXCEPT ![c] = Nobody]
  /\ active' = [active EXCEPT ![c] = Nobody]
  /\ \/ /\ active[c] = Nobody
        /\ UNCHANGED <<pending, state, writeDenied>>
     \/ /\ active[c] # Nobody
        /\ \E i \in Id : MaySettle(pending, i, active[c])
        /\ pending' = Sweep(pending, active[c])
        /\ Deny(active[c])
     \/ /\ active[c] # Nobody
        /\ \A i \in Id : ~MaySettle(pending, i, active[c])
        /\ UNCHANGED <<pending, state, writeDenied>>
  /\ UNCHANGED <<calls, timers, yes>>

-----------------------------------------------------------------------------
GateStep(s) ==
  \/ Run(s) \/ NewRound(s)
  \/ \E i \in Id : Request(s, i) \/ RequestUnheard(s, i) \/ RequestCancelled(s, i)
  \/ \E k \in Num : TimerFires(s, k)

SocketStep(c) ==
  \/ Track(c) \/ Disconnect(c)
  \/ \E s \in Session : \/ Join(c, s) \/ LeaveSession(c, s)
                        \/ \E k \in Num, approved \in BOOLEAN : Decide(c, s, k, approved)

Next == \/ \E s \in Session : GateStep(s)
        \/ \E c \in Socket : SocketStep(c)

Spec == Init /\ [][Next]_vars

\* Timers fire and approved tools run; users and models owe nothing.
Fairness == \A s \in Session : /\ WF_vars(Run(s))
                              /\ \A k \in Num : WF_vars(TimerFires(s, k))

FairSpec == Spec /\ Fairness

-----------------------------------------------------------------------------
(* Properties                                                              *)

\* A write runs only after the user said yes to the prompt of that very call.
Consent == \A s \in Session, k \in Num :
  state[s][k] \in {"approved", "ran"} => <<s, k>> \in yes

\* Even when ids repeat, within a session or between two, what runs had a yes
\* from a client in its own session's room to a prompt with its id.
OwnSessionConsent == \A s \in Session, k \in Num :
  state[s][k] \in {"approved", "ran"} =>
    \E j \in Num : <<s, j>> \in yes /\ ident[s][j] = ident[s][k]

\* One denial ends the round: no write after it runs or is even asked about
\* ("partial execution of a write sequence is unsafe", tools.ts 1038).
FailAll == \A s \in Session : \A j, k \in roundStart[s]..n[s] :
  j < k /\ state[s][j] \in {"denied", "unheard", "cancelled"} => state[s][k] = "cancelled"

\* The map holds nothing but the call that waits: "the map stays clean even
\* when the user doesn't respond in time" (tools.ts 1097), whatever the order
\* of decisions, timers, disconnects and calls with the same id.
EntriesWait == \A i \in Id : pending[i] # Nobody =>
  LET s == pending[i] IN /\ n[s] > 0
                         /\ state[s][Current(s)] = "waiting"
                         /\ ident[s][Current(s)] = i

\* While a call waits its user can still answer it.
Answerable == \A s \in Session, k \in Num :
  state[s][k] = "waiting" => pending[ident[s][k]] = s

\* The map of open questions and the calls that wait are the same set, and so
\* nothing waits that cannot be answered and nothing can be answered that does
\* not wait (tools.ts 1040-1100).
EntriesMatchCalls == EntriesWait /\ Answerable

\* A timer ends no call but the one it was armed for.
TimersEndTheirOwn ==
  [][\A s \in Session, j, k \in Num :
       j # k /\ j \in timers[s] /\ j \notin timers'[s] /\ state[s][k] = "waiting"
         => state'[s][k] = "waiting"]_vars

\* No build waits on its user for ever, whoever answers, leaves or disconnects.
Decided == \A s \in Session, k \in Num : state[s][k] = "waiting" ~> state[s][k] # "waiting"

\* The gate implements what it promises.
Stage(st) == CASE st = "waiting" -> "asked"
               [] st \in {"denied", "cancelled", "unheard"} -> "refused"
               [] OTHER -> st

Promise == INSTANCE WriteConsent WITH
  stage <- [c \in Call |-> Stage(state[c[1]][c[2]])]
KeepsPromise == Promise!Spec

=============================================================================
