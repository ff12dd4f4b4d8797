--------------------------- MODULE ApprovalsProofs ---------------------------
(***************************************************************************)
(* Proofs about Approvals, for any sessions, sockets, ids and number of    *)
(* calls; those that need the provider's ids to be unique say so.  At the  *)
(* end, about the database of an app and its questions (AppDatabase) and   *)
(* about the tools of connected services (ServiceTools).                   *)
(***************************************************************************)
EXTENDS Approvals, AppDatabase, ServiceTools, TLAPS

Map == [Id -> Session \cup {Nobody}]

(***************************************************************************)
(* The map keeps its type, whatever is done to it.                         *)
(***************************************************************************)
LEMMA MapType ==
  \A map \in Map, s \in Session :
    /\ Sweep(map, s) \in Map
    /\ \A i : Register(map, i, s) \in Map /\ Settle(map, i, s) \in Map
  BY DEF Map, Register, Settle, MaySettle, Sweep

(***************************************************************************)
(* Type correctness: every handler leaves every variable in its range.     *)
(***************************************************************************)
LEMMA TypeStep == TypeOK /\ [Next]_vars => TypeOK'
<1> SUFFICES ASSUME TypeOK, [Next]_vars PROVE TypeOK'
  OBVIOUS
<1>m. \A map \in [Id -> Session \cup {Nobody}], s \in Session :
        /\ Sweep(map, s) \in [Id -> Session \cup {Nobody}]
        /\ \A i : /\ Register(map, i, s) \in [Id -> Session \cup {Nobody}]
                  /\ Settle(map, i, s) \in [Id -> Session \cup {Nobody}]
  BY MapType DEF Map
<1> USE ConstantsAssumption
    DEF TypeOK, States, Num, Call, Current, SetState, Deny, Begin, Idle, calls, sockets
<1>d. ASSUME NEW s \in Session, Deny(s)
      PROVE  state' \in [Session -> [Num -> States]] /\ writeDenied' \in [Session -> BOOLEAN]
  BY <1>d
<1>a. ASSUME NEW s \in Session, SetState(s, Current(s), "approved"), UNCHANGED writeDenied
      PROVE  state' \in [Session -> [Num -> States]] /\ writeDenied' \in [Session -> BOOLEAN]
  BY <1>a
<1>u. ASSUME UNCHANGED <<state, writeDenied>>
      PROVE  state' \in [Session -> [Num -> States]] /\ writeDenied' \in [Session -> BOOLEAN]
  BY <1>u
<1>1. ASSUME NEW s \in Session, GateStep(s) PROVE TypeOK'
  <2>1. CASE NewRound(s) BY <2>1 DEF NewRound
  <2>2. CASE Run(s) BY <2>2 DEF Run
  <2>3. ASSUME NEW i \in Id, Request(s, i) PROVE TypeOK'
    <3>1. pending' \in [Id -> Session \cup {Nobody}] BY <2>3, <1>m DEF Request
    <3>2. state' \in [Session -> [Num -> States]] /\ writeDenied' \in [Session -> BOOLEAN]
      BY <2>3 DEF Request
    <3> QED BY <2>3, <3>1, <3>2 DEF Request
  <2>4. ASSUME NEW i \in Id, RequestUnheard(s, i) PROVE TypeOK'
    <3>1. pending' \in [Id -> Session \cup {Nobody}] BY <2>4, <1>m DEF RequestUnheard
    <3>2. state' \in [Session -> [Num -> States]] /\ writeDenied' \in [Session -> BOOLEAN]
      BY <2>4 DEF RequestUnheard
    <3> QED BY <2>4, <3>1, <3>2 DEF RequestUnheard
  <2>5. ASSUME NEW i \in Id, RequestCancelled(s, i) PROVE TypeOK'
    BY <2>5 DEF RequestCancelled
  <2>6. ASSUME NEW k \in Num, TimerFires(s, k) PROVE TypeOK'
    <3>1. pending' \in [Id -> Session \cup {Nobody}] BY <2>6, <1>m DEF TimerFires, EndsWith
    <3>2. state' \in [Session -> [Num -> States]] /\ writeDenied' \in [Session -> BOOLEAN]
      <4>1. \/ Deny(s)
            \/ UNCHANGED <<state, writeDenied>>
        <5> HIDE DEF Deny, SetState
        <5> QED BY <2>6 DEF TimerFires
      <4> QED BY <1>d, <1>u, <4>1
    <3> QED BY <2>6, <3>1, <3>2 DEF TimerFires, EndsWith
  <2> QED BY <1>1, <2>1, <2>2, <2>3, <2>4, <2>5, <2>6 DEF GateStep
<1>2. ASSUME NEW c \in Socket, SocketStep(c) PROVE TypeOK'
  <2>1. CASE Track(c) BY <2>1 DEF Track
  <2>2. CASE Disconnect(c)
    <3>1. pending' \in [Id -> Session \cup {Nobody}]
      <4>0. active[c] \in Session \cup {Nobody} OBVIOUS
      <4>1. pending' = pending \/ (active[c] # Nobody /\ pending' = Sweep(pending, active[c]))
        BY <2>2, ZenonT(60) DEF Disconnect
      <4>2. pending \in [Id -> Session \cup {Nobody}] OBVIOUS
      <4> HIDE DEF TypeOK
      <4>3. active[c] # Nobody => Sweep(pending, active[c]) \in [Id -> Session \cup {Nobody}]
        BY <1>m, <4>0, <4>2
      <4> QED BY <4>1, <4>2, <4>3
    <3>2. state' \in [Session -> [Num -> States]] /\ writeDenied' \in [Session -> BOOLEAN]
      <4>1. \/ Deny(active[c]) /\ active[c] \in Session
            \/ UNCHANGED <<state, writeDenied>>
        <5> HIDE DEF Deny, SetState
        <5> QED BY <2>2 DEF Disconnect
      <4> QED BY <1>d, <1>u, <4>1
    <3> QED BY <2>2, <3>1, <3>2 DEF Disconnect
  <2>3. ASSUME NEW s \in Session, Join(c, s) PROVE TypeOK' BY <2>3 DEF Join
  <2>4. ASSUME NEW s \in Session, LeaveSession(c, s) PROVE TypeOK' BY <2>4 DEF LeaveSession
  <2>5. ASSUME NEW s \in Session, NEW k \in Num, NEW approved \in BOOLEAN, Decide(c, s, k, approved)
        PROVE  TypeOK'
    <3>1. pending' \in [Id -> Session \cup {Nobody}] BY <2>5, <1>m DEF Decide
    <3>2. state' \in [Session -> [Num -> States]] /\ writeDenied' \in [Session -> BOOLEAN]
      <4>1. \/ Deny(s)
            \/ UNCHANGED <<state, writeDenied>>
            \/ SetState(s, Current(s), "approved") /\ UNCHANGED writeDenied
        <5> HIDE DEF Deny, SetState
        <5> QED BY <2>5 DEF Decide
      <4> HIDE DEF Deny, SetState
      <4> QED BY <1>a, <1>d, <1>u, <4>1
    <3> QED BY <2>5, <3>1, <3>2 DEF Decide
  <2> QED BY <1>2, <2>1, <2>2, <2>3, <2>4, <2>5 DEF SocketStep
<1>3. CASE UNCHANGED vars BY <1>3 DEF vars
<1> QED BY <1>1, <1>2, <1>3 DEF Next

(***************************************************************************)
(* Every reachable state is well typed.                                    *)
(***************************************************************************)
THEOREM TypeCorrect == Spec => []TypeOK
<1>1. Init => TypeOK
  BY ConstantsAssumption DEF Init, TypeOK, States, Num, Call
<1> QED BY <1>1, TypeStep, PTL DEF Spec
-----------------------------------------------------------------------------
(***************************************************************************)
(* The inductive invariant.  The first part holds for any ids: calls are   *)
(* numbered without gaps, only the last one is under way, and the round    *)
(* remembers its denials.                                                  *)
(***************************************************************************)
Refused == {"denied", "unheard", "cancelled"}

Numbered == \A s \in Session, k \in Num :
  /\ state[s][k] = "none" <=> k > n[s]
  /\ k <= n[s] => ident[s][k] \in Id

OnlyCurrent == \A s \in Session, k \in Num :
  state[s][k] \in {"waiting", "approved"} => k = n[s]

Armed == \A s \in Session : timers[s] \subseteq 1..n[s]

DenialNoted == \A s \in Session :
  /\ roundStart[s] <= n[s] + 1
  /\ \A k \in roundStart[s]..n[s] : state[s][k] \in Refused => writeDenied[s]

CallInv == Numbered /\ OnlyCurrent /\ Armed /\ EntriesWait

RoundInv == DenialNoted /\ FailAll

\* A prompt that got a yes is the prompt of some call.
YesAsked == \A s \in Session, k \in Num : <<s, k>> \in yes => k <= n[s]

IInv == TypeOK /\ CallInv /\ RoundInv /\ YesAsked /\ OwnSessionConsent

\* The second part needs unique ids.
Distinct == \A s, t \in Session, j, k \in Num :
  j <= n[s] /\ k <= n[t] /\ ident[s][j] = ident[t][k] => s = t /\ j = k

UniqueInv == Distinct /\ Answerable /\ Consent

(***************************************************************************)
(* Whoever ends the wait of a call -- its user, a timer, its own or not,   *)
(* or a disconnect -- ends it in one of two ways and takes its entry out   *)
(* of the map; whoever does not end it leaves every call as it was.        *)
(***************************************************************************)
Resolved(s, st) ==
  /\ n[s] \in Num /\ state[s][n[s]] = "waiting"
  /\ state' = [state EXCEPT ![s][n[s]] = st]
  /\ pending' = Sweep(pending, s)
  /\ UNCHANGED calls
  /\ \A t \in Session : timers'[t] \subseteq timers[t]

Denied(s) == /\ Resolved(s, "denied")
             /\ writeDenied' = [writeDenied EXCEPT ![s] = TRUE]
             /\ UNCHANGED yes

Approved(s) == /\ Resolved(s, "approved")
               /\ UNCHANGED writeDenied
               /\ \E j \in Num : /\ j <= n[s]
                                 /\ ident[s][j] = ident[s][n[s]]
                                 /\ yes' = yes \cup {<<s, j>>}

Quiet == /\ UNCHANGED <<pending, calls, state, writeDenied>>
         /\ \A t \in Session : timers'[t] \subseteq timers[t]
         /\ \/ UNCHANGED yes
            \/ \E s \in Session, k \in Num :
                 /\ k <= n[s] /\ pending[ident[s][k]] # s
                 /\ yes' = yes \cup {<<s, k>>}

LEMMA SoleEntry ==
  ASSUME TypeOK, EntriesWait, NEW s \in Session, NEW i \in Id,
         pending[i] = s \/ \A j \in Id : pending[j] # s
  PROVE  Settle(pending, i, s) = Sweep(pending, s)
<1>1. \A j \in Id : pending[j] = s => ident[s][n[s]] = j
  BY ConstantsAssumption DEF EntriesWait, Current
<1>2. \A j \in Id : Settle(pending, i, s)[j] = Sweep(pending, s)[j]
  BY <1>1 DEF TypeOK, Settle, MaySettle, Sweep
<1>3. /\ Settle(pending, i, s) = [j \in Id |-> Settle(pending, i, s)[j]]
      /\ Sweep(pending, s) = [j \in Id |-> Sweep(pending, s)[j]]
  BY DEF TypeOK, Settle, MaySettle, Sweep
<1> QED BY <1>2, <1>3

LEMMA Waits ==
  ASSUME TypeOK, EntriesWait, NEW s \in Session, NEW i \in Id, pending[i] = s
  PROVE  /\ n[s] \in Num
         /\ state[s][n[s]] = "waiting"
         /\ ident[s][n[s]] = i
  BY ConstantsAssumption DEF TypeOK, EntriesWait, Current, Num

LEMMA TimerShape ==
  ASSUME TypeOK, CallInv, NEW s \in Session, NEW k \in Num, TimerFires(s, k)
  PROVE  Denied(s) \/ Quiet
<1> USE DEF CallInv
<1>1. /\ k <= n[s] /\ ident[s][k] \in Id /\ n[s] \in 0..MaxCalls
      /\ pending' = Settle(pending, ident[s][k], s)
      /\ UNCHANGED <<calls, yes>>
  BY DEF TimerFires, Armed, Numbered, TypeOK
<1>2. \A t \in Session : timers'[t] \subseteq timers[t]
  BY DEF TimerFires, TypeOK
<1>3. CASE EndsWith(s, k)
  <2>1. Deny(s) BY <1>3, Zenon DEF TimerFires
  <2>2. CASE pending[ident[s][k]] = s
    <3>1. n[s] \in Num /\ state[s][n[s]] = "waiting" BY <1>1, <2>2, Waits
    <3> QED BY <1>1, <1>2, <2>1, <2>2, <3>1, SoleEntry
            DEF Denied, Resolved, Deny, SetState, Current
  <2>3. CASE pending[ident[s][k]] # s
    <3>1. state[s][k] = "waiting" BY <1>3, <2>3 DEF EndsWith, MaySettle
    <3>2. k = n[s] BY <3>1 DEF OnlyCurrent
    <3>3. \A j \in Id : pending[j] # s BY <2>3, <3>2, Waits
    <3> QED BY <1>1, <1>2, <2>1, <3>1, <3>2, <3>3, SoleEntry
            DEF Denied, Resolved, Deny, SetState, Current
  <2> QED BY <2>2, <2>3
<1>4. CASE ~EndsWith(s, k)
  <2>1. UNCHANGED <<state, writeDenied>> BY <1>4, Zenon DEF TimerFires
  <2>2. pending' = pending BY <1>1, <1>4 DEF EndsWith, MaySettle, Settle
  <2> QED BY <1>1, <1>2, <2>1, <2>2 DEF Quiet
<1> QED BY <1>3, <1>4

LEMMA DecideShape ==
  ASSUME TypeOK, CallInv, NEW c \in Socket, NEW s \in Session, NEW k \in Num,
         NEW approved \in BOOLEAN, Decide(c, s, k, approved)
  PROVE  Denied(s) \/ Approved(s) \/ Quiet
<1> USE DEF CallInv
<1>1. /\ k <= n[s] /\ ident[s][k] \in Id
      /\ pending' = Settle(pending, ident[s][k], s)
      /\ yes' = IF approved THEN yes \cup {<<s, k>>} ELSE yes
      /\ UNCHANGED <<calls, timers>>
  BY DEF Decide, Numbered, sockets
<1>2. CASE pending[ident[s][k]] = s
  <2>1. /\ n[s] \in Num /\ state[s][n[s]] = "waiting"
        /\ ident[s][n[s]] = ident[s][k]
    BY <1>1, <1>2, Waits
  <2>2. pending' = Sweep(pending, s) BY <1>1, <1>2, SoleEntry
  <2>3. CASE approved
    <3>1. SetState(s, n[s], "approved") /\ UNCHANGED writeDenied
      BY <1>2, <2>3, Zenon DEF Decide, MaySettle, Current
    <3> QED BY <1>1, <2>1, <2>2, <2>3, <3>1 DEF Approved, Resolved, SetState
  <2>4. CASE ~approved
    <3>1. Deny(s) BY <1>2, <2>4, Zenon DEF Decide, MaySettle
    <3> QED BY <1>1, <2>1, <2>2, <2>4, <3>1 DEF Denied, Resolved, Deny, SetState, Current
  <2> QED BY <2>3, <2>4
<1>3. CASE pending[ident[s][k]] # s
  <2>1. UNCHANGED <<state, writeDenied>> BY <1>3, Zenon DEF Decide, MaySettle
  <2>2. pending' = pending BY <1>1, <1>3 DEF MaySettle, Settle
  <2>3. yes' = yes \/ yes' = yes \cup {<<s, k>>} BY <1>1
  <2> QED BY <1>1, <1>3, <2>1, <2>2, <2>3 DEF Quiet
<1> QED BY <1>2, <1>3

LEMMA DisconnectShape ==
  ASSUME TypeOK, CallInv, NEW c \in Socket, Disconnect(c)
  PROVE  (active[c] \in Session /\ Denied(active[c])) \/ Quiet
<1> USE DEF CallInv
<1>1. UNCHANGED <<calls, timers, yes>> /\ active[c] \in Session \cup {Nobody}
  BY DEF Disconnect, TypeOK
<1>2. CASE active[c] # Nobody /\ \E i \in Id : pending[i] = active[c]
  <2>1. Deny(active[c]) /\ pending' = Sweep(pending, active[c])
    BY <1>2, ZenonT(30) DEF Disconnect, MaySettle
  <2>2. n[active[c]] \in Num /\ state[active[c]][n[active[c]]] = "waiting"
    BY <1>1, <1>2, Waits
  <2> QED BY <1>1, <1>2, <2>1, <2>2 DEF Denied, Resolved, Deny, SetState, Current
<1>3. CASE active[c] = Nobody \/ \A i \in Id : pending[i] # active[c]
  <2>1. UNCHANGED <<pending, state, writeDenied>>
    BY <1>3, ZenonT(30) DEF Disconnect, MaySettle
  <2> QED BY <1>1, <2>1 DEF Quiet
<1> QED BY <1>2, <1>3

(***************************************************************************)
(* So a step is one of these, and the invariants need no other case.       *)
(***************************************************************************)
Asks(s, i) == Request(s, i) \/ RequestUnheard(s, i) \/ RequestCancelled(s, i)

LEMMA Shapes ==
  ASSUME TypeOK, CallInv, [Next]_vars
  PROVE  \/ \E s \in Session : \/ NewRound(s) \/ Run(s) \/ Denied(s) \/ Approved(s)
                              \/ \E i \in Id : Asks(s, i)
         \/ Quiet
<1>1. ASSUME NEW s \in Session, GateStep(s)
      PROVE  \/ NewRound(s) \/ Run(s) \/ Denied(s) \/ Quiet
             \/ \E i \in Id : Asks(s, i)
  BY <1>1, TimerShape DEF GateStep, Asks
<1>2. ASSUME NEW c \in Socket, SocketStep(c)
      PROVE  Quiet \/ \E s \in Session : Denied(s) \/ Approved(s)
  <2>1. CASE Track(c) BY <2>1 DEF Track, Quiet
  <2>2. CASE Disconnect(c) BY <2>2, DisconnectShape
  <2>3. ASSUME NEW s \in Session, Join(c, s) PROVE Quiet BY <2>3 DEF Join, Quiet
  <2>4. ASSUME NEW s \in Session, LeaveSession(c, s) PROVE Quiet
    BY <2>4 DEF LeaveSession, Quiet
  <2>5. ASSUME NEW s \in Session, NEW k \in Num, NEW approved \in BOOLEAN,
               Decide(c, s, k, approved)
        PROVE  Denied(s) \/ Approved(s) \/ Quiet
    BY <2>5, DecideShape
  <2> QED BY <1>2, <2>1, <2>2, <2>3, <2>4, <2>5 DEF SocketStep
<1>3. CASE UNCHANGED vars BY <1>3 DEF vars, Quiet, calls
<1> QED BY <1>1, <1>2, <1>3 DEF Next

(***************************************************************************)
(* What a step does to the call with one number.                           *)
(***************************************************************************)
LEMMA AskEffect ==
  ASSUME TypeOK, NEW s \in Session, NEW i \in Id, Asks(s, i)
  PROVE  /\ n[s] < MaxCalls /\ n[s] + 1 \in Num /\ Idle(s) /\ Fresh(i)
         /\ \A t \in Session : n'[t] = IF t = s THEN n[t] + 1 ELSE n[t]
         /\ \A t \in Session, k \in Num :
              ident'[t][k] = IF t = s /\ k = n[s] + 1 THEN i ELSE ident[t][k]
         /\ UNCHANGED <<roundStart, yes>>
<1> USE ConstantsAssumption DEF TypeOK, Num, Begin
<1>1. CASE Request(s, i) BY <1>1 DEF Request
<1>2. CASE RequestUnheard(s, i) BY <1>2 DEF RequestUnheard
<1>3. CASE RequestCancelled(s, i) BY <1>3 DEF RequestCancelled
<1> QED BY <1>1, <1>2, <1>3 DEF Asks

AskedAs(s, st) == \A t \in Session, k \in Num :
  state'[t][k] = IF t = s /\ k = n[s] + 1 THEN st ELSE state[t][k]

LEMMA RequestEffect ==
  ASSUME TypeOK, NEW s \in Session, NEW i \in Id, Request(s, i)
  PROVE  /\ AskedAs(s, "waiting") /\ ~writeDenied[s] /\ UNCHANGED writeDenied
         /\ \A j \in Id : pending'[j] = IF j = i THEN s ELSE pending[j]
         /\ \A t \in Session :
              timers'[t] = IF t = s THEN timers[t] \cup {n[s] + 1} ELSE timers[t]
  BY ConstantsAssumption
     DEF TypeOK, Num, Begin, SetState, Request, Register, AskedAs

LEMMA UnheardEffect ==
  ASSUME TypeOK, NEW s \in Session, NEW i \in Id, RequestUnheard(s, i)
  PROVE  /\ AskedAs(s, "unheard") /\ ~writeDenied[s] /\ UNCHANGED timers
         /\ writeDenied'[s] /\ \A t \in Session \ {s} : writeDenied'[t] = writeDenied[t]
         /\ \A j \in Id : pending'[j] = IF j = i THEN Nobody ELSE pending[j]
  BY ConstantsAssumption
     DEF TypeOK, Num, Begin, SetState, RequestUnheard, Register, Settle, MaySettle, AskedAs

LEMMA CancelledEffect ==
  ASSUME TypeOK, NEW s \in Session, NEW i \in Id, RequestCancelled(s, i)
  PROVE  AskedAs(s, "cancelled") /\ writeDenied[s] /\ UNCHANGED <<pending, writeDenied, timers>>
  BY ConstantsAssumption DEF TypeOK, Num, Begin, SetState, RequestCancelled, AskedAs

LEMMA ResolvedEffect ==
  ASSUME TypeOK, NEW s \in Session, NEW st, Resolved(s, st)
  PROVE  /\ n[s] \in Num /\ state[s][n[s]] = "waiting"
         /\ \A t \in Session, k \in Num :
              state'[t][k] = IF t = s /\ k = n[s] THEN st ELSE state[t][k]
         /\ \A j \in Id : pending'[j] = IF pending[j] = s THEN Nobody ELSE pending[j]
         /\ UNCHANGED calls
         /\ \A t \in Session : timers'[t] \subseteq timers[t]
  BY DEF TypeOK, Resolved, Sweep

LEMMA RunEffect ==
  ASSUME TypeOK, NEW s \in Session, Run(s)
  PROVE  /\ n[s] \in Num /\ state[s][n[s]] = "approved"
         /\ \A t \in Session, k \in Num :
              state'[t][k] = IF t = s /\ k = n[s] THEN "ran" ELSE state[t][k]
         /\ UNCHANGED <<pending, calls, writeDenied, timers, yes>>
  BY ConstantsAssumption DEF TypeOK, Num, Run, SetState, Current

(***************************************************************************)
(* Calls stay numbered, one at a time is under way, and the map holds      *)
(* nothing else.                                                           *)
(***************************************************************************)
LEMMA CallStep == TypeOK /\ CallInv /\ [Next]_vars => CallInv'
<1> SUFFICES ASSUME TypeOK, CallInv, [Next]_vars PROVE CallInv'
  OBVIOUS
<1>t. TypeOK' BY TypeStep
<1>n. MaxCalls \in Nat /\ \A t \in Session : n[t] \in 0..MaxCalls
  BY ConstantsAssumption DEF TypeOK
<1>p. /\ Nobody \notin Session
      /\ \A j \in Id : pending[j] \in Session \cup {Nobody} /\ pending'[j] \in Session \cup {Nobody}
  BY <1>t, ConstantsAssumption DEF TypeOK
<1>1. ASSUME NEW s \in Session, NewRound(s) PROVE CallInv'
  BY <1>1 DEF NewRound, CallInv, Numbered, OnlyCurrent, Armed, EntriesWait, Current
<1>2. ASSUME NEW s \in Session, Run(s) PROVE CallInv'
  <2>1. /\ n[s] \in Num /\ state[s][n[s]] = "approved"
        /\ \A t \in Session, k \in Num :
              state'[t][k] = IF t = s /\ k = n[s] THEN "ran" ELSE state[t][k]
        /\ UNCHANGED <<pending, calls, timers>>
    BY <1>2, RunEffect
  <2>2. Numbered' BY <1>n, <2>1 DEF CallInv, Numbered, Num, calls
  <2>3. OnlyCurrent' BY <1>n, <2>1 DEF CallInv, OnlyCurrent, Numbered, Num, calls
  <2>4. Armed' BY <1>n, <2>1 DEF CallInv, Armed, calls
  <2>5. EntriesWait' BY <1>n, <1>p, <2>1 DEF CallInv, EntriesWait, OnlyCurrent, Numbered, Current, Num, calls
  <2> QED BY <2>2, <2>3, <2>4, <2>5 DEF CallInv
<1>3. ASSUME NEW s \in Session, NEW st \in {"approved", "denied"}, Resolved(s, st) PROVE CallInv'
  <2>1. /\ n[s] \in Num /\ state[s][n[s]] = "waiting"
        /\ \A t \in Session, k \in Num :
              state'[t][k] = IF t = s /\ k = n[s] THEN st ELSE state[t][k]
        /\ \A j \in Id : pending'[j] = IF pending[j] = s THEN Nobody ELSE pending[j]
        /\ UNCHANGED calls
        /\ \A t \in Session : timers'[t] \subseteq timers[t]
    BY <1>3, ResolvedEffect
  <2>2. Numbered' BY <1>n, <2>1 DEF CallInv, Numbered, Num, calls
  <2>3. OnlyCurrent' BY <1>n, <2>1 DEF CallInv, OnlyCurrent, Numbered, Num, calls
  <2>4. Armed' BY <1>n, <2>1 DEF CallInv, Armed, calls
  <2>5. EntriesWait' BY <1>n, <1>p, <2>1 DEF CallInv, EntriesWait, OnlyCurrent, Numbered, Current, Num, calls
  <2> QED BY <2>2, <2>3, <2>4, <2>5 DEF CallInv
<1>4. ASSUME NEW s \in Session, NEW i \in Id, Request(s, i) PROVE CallInv'
  <2>1. /\ n[s] < MaxCalls /\ n[s] + 1 \in Num /\ Idle(s)
        /\ \A t \in Session : n'[t] = IF t = s THEN n[t] + 1 ELSE n[t]
        /\ \A t \in Session, k \in Num :
              ident'[t][k] = IF t = s /\ k = n[s] + 1 THEN i ELSE ident[t][k]
        /\ AskedAs(s, "waiting")
        /\ \A j \in Id : pending'[j] = IF j = i THEN s ELSE pending[j]
        /\ \A t \in Session :
              timers'[t] = IF t = s THEN timers[t] \cup {n[s] + 1} ELSE timers[t]
    <3>1. Asks(s, i) BY <1>4 DEF Asks
    <3>2. /\ n[s] < MaxCalls /\ n[s] + 1 \in Num /\ Idle(s)
          /\ \A t \in Session : n'[t] = IF t = s THEN n[t] + 1 ELSE n[t]
          /\ \A t \in Session, k \in Num :
                ident'[t][k] = IF t = s /\ k = n[s] + 1 THEN i ELSE ident[t][k]
      BY <3>1, AskEffect
    <3> QED BY <1>4, <3>2, RequestEffect
  <2>2. Numbered' BY <1>n, <2>1 DEF CallInv, Numbered, Num, AskedAs, Idle
  <2>3. OnlyCurrent' BY <1>n, <2>1 DEF CallInv, OnlyCurrent, Numbered, Num, AskedAs, Idle, Current
  <2>4. Armed'
    <3> SUFFICES ASSUME NEW t \in Session, NEW k \in timers'[t] PROVE k \in 1..n'[t]
      BY DEF Armed
    <3>1. CASE t = s /\ k = n[s] + 1 BY <1>n, <2>1, <3>1
    <3>2. CASE k \in timers[t]
      <4>1. k \in 1..n[t] BY <3>2 DEF CallInv, Armed
      <4> QED BY <1>n, <2>1, <4>1
    <3> QED BY <2>1, <3>1, <3>2
  <2>5. EntriesWait' BY <1>n, <1>p, <2>1 DEF CallInv, EntriesWait, OnlyCurrent, Numbered, Current, Num, AskedAs, Idle
  <2> QED BY <2>2, <2>3, <2>4, <2>5 DEF CallInv
<1>5. ASSUME NEW s \in Session, NEW i \in Id, RequestUnheard(s, i) PROVE CallInv'
  <2>1. /\ n[s] < MaxCalls /\ n[s] + 1 \in Num /\ Idle(s)
        /\ \A t \in Session : n'[t] = IF t = s THEN n[t] + 1 ELSE n[t]
        /\ \A t \in Session, k \in Num :
              ident'[t][k] = IF t = s /\ k = n[s] + 1 THEN i ELSE ident[t][k]
        /\ AskedAs(s, "unheard") /\ UNCHANGED timers
        /\ \A j \in Id : pending'[j] = IF j = i THEN Nobody ELSE pending[j]
    <3>1. Asks(s, i) BY <1>5 DEF Asks
    <3>2. /\ n[s] < MaxCalls /\ n[s] + 1 \in Num /\ Idle(s)
          /\ \A t \in Session : n'[t] = IF t = s THEN n[t] + 1 ELSE n[t]
          /\ \A t \in Session, k \in Num :
                ident'[t][k] = IF t = s /\ k = n[s] + 1 THEN i ELSE ident[t][k]
      BY <3>1, AskEffect
    <3> QED BY <1>5, <3>2, UnheardEffect
  <2>2. Numbered' BY <1>n, <2>1 DEF CallInv, Numbered, Num, AskedAs, Idle
  <2>3. OnlyCurrent' BY <1>n, <2>1 DEF CallInv, OnlyCurrent, Numbered, Num, AskedAs, Idle, Current
  <2>4. Armed' BY <1>n, <2>1 DEF CallInv, Armed, AskedAs, Idle
  <2>5. EntriesWait' BY <1>n, <1>p, <2>1 DEF CallInv, EntriesWait, OnlyCurrent, Numbered, Current, Num, AskedAs, Idle
  <2> QED BY <2>2, <2>3, <2>4, <2>5 DEF CallInv
<1>6. ASSUME NEW s \in Session, NEW i \in Id, RequestCancelled(s, i) PROVE CallInv'
  <2>1. /\ n[s] < MaxCalls /\ n[s] + 1 \in Num /\ Idle(s)
        /\ \A t \in Session : n'[t] = IF t = s THEN n[t] + 1 ELSE n[t]
        /\ \A t \in Session, k \in Num :
              ident'[t][k] = IF t = s /\ k = n[s] + 1 THEN i ELSE ident[t][k]
        /\ AskedAs(s, "cancelled") /\ UNCHANGED <<pending, timers>>
    <3>1. Asks(s, i) BY <1>6 DEF Asks
    <3>2. /\ n[s] < MaxCalls /\ n[s] + 1 \in Num /\ Idle(s)
          /\ \A t \in Session : n'[t] = IF t = s THEN n[t] + 1 ELSE n[t]
          /\ \A t \in Session, k \in Num :
                ident'[t][k] = IF t = s /\ k = n[s] + 1 THEN i ELSE ident[t][k]
      BY <3>1, AskEffect
    <3> QED BY <1>6, <3>2, CancelledEffect
  <2>2. Numbered' BY <1>n, <2>1 DEF CallInv, Numbered, Num, AskedAs, Idle
  <2>3. OnlyCurrent' BY <1>n, <2>1 DEF CallInv, OnlyCurrent, Numbered, Num, AskedAs, Idle, Current
  <2>4. Armed' BY <1>n, <2>1 DEF CallInv, Armed, AskedAs, Idle
  <2>5. EntriesWait' BY <1>n, <1>p, <2>1 DEF CallInv, EntriesWait, OnlyCurrent, Numbered, Current, Num, AskedAs, Idle
  <2> QED BY <2>2, <2>3, <2>4, <2>5 DEF CallInv
<1>7. CASE Quiet
  BY <1>7 DEF Quiet, calls, CallInv, Numbered, OnlyCurrent, Armed, EntriesWait, Current
<1> QED BY <1>1, <1>2, <1>3, <1>4, <1>5, <1>6, <1>7, Shapes DEF Asks, Denied, Approved

(***************************************************************************)
(* The round remembers its denials, and a denied round asks no more.       *)
(***************************************************************************)
LEMMA RoundStep == TypeOK /\ CallInv /\ RoundInv /\ [Next]_vars => RoundInv'
<1> SUFFICES ASSUME TypeOK, CallInv, RoundInv, [Next]_vars PROVE RoundInv'
  OBVIOUS
<1>n. MaxCalls \in Nat /\ \A t \in Session : n[t] \in 0..MaxCalls /\ roundStart[t] \in 1..(MaxCalls + 1)
  BY ConstantsAssumption DEF TypeOK
<1>i. \A t \in Session, k \in Num : state[t][k] = "none" <=> k > n[t]
  BY DEF CallInv, Numbered
<1>w. \A t \in Session : writeDenied[t] \in BOOLEAN
  BY DEF TypeOK
<1>1. ASSUME NEW s \in Session, NewRound(s) PROVE RoundInv'
  <2>1. /\ \A t \in Session : /\ roundStart'[t] = IF t = s THEN n[s] + 1 ELSE roundStart[t]
                              /\ t # s => writeDenied'[t] = writeDenied[t]
        /\ UNCHANGED <<n, state>>
    BY <1>1 DEF NewRound, TypeOK
  <2> QED BY <1>n, <2>1 DEF RoundInv, DenialNoted, FailAll
<1>2. ASSUME NEW s \in Session, Run(s) PROVE RoundInv'
  <2>1. /\ n[s] \in Num /\ state[s][n[s]] = "approved"
        /\ \A t \in Session, k \in Num :
              state'[t][k] = IF t = s /\ k = n[s] THEN "ran" ELSE state[t][k]
        /\ UNCHANGED <<calls, writeDenied>>
    BY <1>2, RunEffect
  <2> QED BY <1>n, <2>1 DEF RoundInv, DenialNoted, FailAll, Refused, calls, Num
<1>3. ASSUME NEW s \in Session, Denied(s) PROVE RoundInv'
  <2>1. /\ n[s] \in Num /\ state[s][n[s]] = "waiting"
        /\ \A t \in Session, k \in Num :
              state'[t][k] = IF t = s /\ k = n[s] THEN "denied" ELSE state[t][k]
        /\ UNCHANGED calls
    BY <1>3, ResolvedEffect DEF Denied
  <2>2. writeDenied'[s] /\ \A t \in Session \ {s} : writeDenied'[t] = writeDenied[t]
    BY <1>3 DEF Denied, TypeOK
  <2>3. DenialNoted' BY <1>n, <2>1, <2>2 DEF RoundInv, DenialNoted, Refused, calls, Num
  <2>4. FailAll'
    <3> SUFFICES ASSUME NEW t \in Session,
                        NEW j \in roundStart[t]..n[t], NEW k \in roundStart[t]..n[t],
                        j < k, state'[t][j] \in {"denied", "unheard", "cancelled"}
                 PROVE  state'[t][k] = "cancelled"
      BY <2>1 DEF FailAll, calls
    <3>1. j \in Num /\ k \in Num /\ j # n[t] BY <1>n DEF Num
    <3>2. state[t][k] = "cancelled" BY <2>1, <3>1 DEF RoundInv, FailAll
    <3> QED BY <2>1, <3>1, <3>2
  <2> QED BY <2>3, <2>4 DEF RoundInv
<1>4. ASSUME NEW s \in Session, Approved(s) PROVE RoundInv'
  <2>1. /\ n[s] \in Num /\ state[s][n[s]] = "waiting"
        /\ \A t \in Session, k \in Num :
              state'[t][k] = IF t = s /\ k = n[s] THEN "approved" ELSE state[t][k]
        /\ UNCHANGED calls
    BY <1>4, ResolvedEffect DEF Approved
  <2>2. UNCHANGED writeDenied BY <1>4 DEF Approved
  <2> QED BY <1>n, <2>1, <2>2 DEF RoundInv, DenialNoted, FailAll, Refused, calls, Num
<1>5. ASSUME NEW s \in Session, NEW i \in Id, Asks(s, i) PROVE RoundInv'
  <2>0. /\ n[s] < MaxCalls /\ n[s] + 1 \in Num
        /\ \A t \in Session : n'[t] = IF t = s THEN n[t] + 1 ELSE n[t]
        /\ UNCHANGED roundStart
    BY <1>5, AskEffect
  <2>1. CASE Request(s, i)
    <3>1. AskedAs(s, "waiting") /\ ~writeDenied[s] /\ UNCHANGED writeDenied
      BY <2>1, RequestEffect
    <3>2. DenialNoted'
      BY <1>n, <2>0, <3>1 DEF RoundInv, DenialNoted, AskedAs, Refused, Num
    <3>3. FailAll'
      BY <1>n, <2>0, <3>1 DEF RoundInv, DenialNoted, FailAll, AskedAs, Refused, Num
    <3> QED BY <3>2, <3>3 DEF RoundInv
  <2>2. CASE RequestUnheard(s, i)
    <3>1. AskedAs(s, "unheard") /\ ~writeDenied[s]
          /\ writeDenied'[s] /\ \A t \in Session \ {s} : writeDenied'[t] = writeDenied[t]
      BY <2>2, UnheardEffect
    <3>2. DenialNoted'
      BY <1>n, <2>0, <3>1 DEF RoundInv, DenialNoted, AskedAs, Refused, Num
    <3>3. FailAll'
      <4> SUFFICES ASSUME NEW t \in Session,
                          NEW j \in roundStart[t]..n'[t], NEW k \in roundStart[t]..n'[t],
                          j < k, state'[t][j] \in {"denied", "unheard", "cancelled"}
                   PROVE  state'[t][k] = "cancelled"
        BY <2>0 DEF FailAll
      <4>1. n'[t] \in 0..MaxCalls BY <1>n, <2>0 DEF Num
      <4>2. j \in Num /\ k \in Num BY <1>n, <4>1 DEF Num
      <4>3. j \in roundStart[t]..n[t] BY <1>n, <2>0, <4>1
      <4>4. state[t][j] \in {"denied", "unheard", "cancelled"}
        BY <1>n, <3>1, <4>2, <4>3 DEF AskedAs
      <4>5. t # s BY <3>1, <4>3, <4>4 DEF RoundInv, DenialNoted, Refused
      <4> QED BY <2>0, <3>1, <4>2, <4>3, <4>4, <4>5 DEF RoundInv, FailAll, AskedAs
    <3> QED BY <3>2, <3>3 DEF RoundInv
  <2>3. CASE RequestCancelled(s, i)
    <3>1. AskedAs(s, "cancelled") /\ writeDenied[s] /\ UNCHANGED writeDenied
      BY <2>3, CancelledEffect
    <3>2. DenialNoted'
      BY <1>n, <2>0, <3>1 DEF RoundInv, DenialNoted, AskedAs, Refused, Num
    <3>3. FailAll'
      BY <1>n, <2>0, <3>1 DEF RoundInv, FailAll, AskedAs, Num
    <3> QED BY <3>2, <3>3 DEF RoundInv
  <2> QED BY <1>5, <2>1, <2>2, <2>3 DEF Asks
<1>6. CASE Quiet
  BY <1>6 DEF Quiet, calls, RoundInv, DenialNoted, FailAll
<1> QED BY <1>1, <1>2, <1>3, <1>4, <1>5, <1>6, Shapes

(***************************************************************************)
(* What runs had a yes under its id from its own session's room.           *)
(***************************************************************************)
LEMMA YesStep == TypeOK /\ CallInv /\ YesAsked /\ [Next]_vars => YesAsked'
<1> SUFFICES ASSUME TypeOK, CallInv, YesAsked, [Next]_vars,
                    NEW t \in Session, NEW k \in Num, <<t, k>> \in yes'
             PROVE  k <= n'[t]
  BY DEF YesAsked
<1>n. \A s \in Session : n[s] \in Nat
  BY ConstantsAssumption DEF TypeOK
<1>1. ASSUME NEW s \in Session, NewRound(s) PROVE k <= n'[t]
  BY <1>1 DEF NewRound, YesAsked
<1>2. ASSUME NEW s \in Session, Run(s) PROVE k <= n'[t]
  BY <1>2 DEF Run, YesAsked, calls
<1>3. ASSUME NEW s \in Session, Denied(s) PROVE k <= n'[t]
  BY <1>3 DEF Denied, Resolved, YesAsked, calls
<1>4. ASSUME NEW s \in Session, Approved(s) PROVE k <= n'[t]
  BY <1>4 DEF Approved, Resolved, YesAsked, calls
<1>5. ASSUME NEW s \in Session, NEW i \in Id, Asks(s, i) PROVE k <= n'[t]
  <2>1. n'[t] \in {n[t], n[t] + 1} /\ UNCHANGED yes
    BY <1>5, AskEffect
  <2> QED BY <1>n, <2>1 DEF YesAsked, Num
<1>6. CASE Quiet
  BY <1>6 DEF Quiet, YesAsked, calls
<1> QED BY <1>1, <1>2, <1>3, <1>4, <1>5, <1>6, Shapes

LEMMA ConsentStep ==
  TypeOK /\ CallInv /\ YesAsked /\ OwnSessionConsent /\ [Next]_vars => OwnSessionConsent'
<1> SUFFICES ASSUME TypeOK, CallInv, YesAsked, OwnSessionConsent, [Next]_vars,
                    NEW t \in Session, NEW k \in Num, state'[t][k] \in {"approved", "ran"}
             PROVE  \E j \in Num : <<t, j>> \in yes' /\ ident'[t][j] = ident'[t][k]
  BY DEF OwnSessionConsent
<1> DEFINE Had == \E j \in Num : <<t, j>> \in yes' /\ ident'[t][j] = ident'[t][k]
<1>h. ASSUME state[t][k] \in {"approved", "ran"}, yes \subseteq yes', ident' = ident PROVE Had
  BY <1>h DEF OwnSessionConsent
<1>1. ASSUME NEW s \in Session, NewRound(s) PROVE Had
  BY <1>1, <1>h DEF NewRound
<1>2. ASSUME NEW s \in Session, Run(s) PROVE Had
  BY <1>2, <1>h, RunEffect DEF calls
<1>3. ASSUME NEW s \in Session, Denied(s) PROVE Had
  BY <1>3, <1>h, ResolvedEffect DEF Denied, calls
<1>4. ASSUME NEW s \in Session, Approved(s) PROVE Had
  <2>1. CASE t = s /\ k = n[s]
    BY <1>4, <2>1 DEF Approved, Resolved, calls
  <2>2. CASE ~(t = s /\ k = n[s])
    <3>1. state[t][k] = state'[t][k] BY <1>4, <2>2, ResolvedEffect DEF Approved
    <3> QED BY <1>4, <1>h, <3>1 DEF Approved, Resolved, calls
  <2> QED BY <2>1, <2>2
<1>5. ASSUME NEW s \in Session, NEW i \in Id, Asks(s, i) PROVE Had
  <2>1. /\ n[s] \in Nat /\ UNCHANGED yes
        /\ \A u \in Session, j \in Num :
              ident'[u][j] = IF u = s /\ j = n[s] + 1 THEN i ELSE ident[u][j]
    BY <1>5, AskEffect, ConstantsAssumption DEF TypeOK
  <2>2. \E st \in {"waiting", "unheard", "cancelled"} : AskedAs(s, st)
    BY <1>5, RequestEffect, UnheardEffect, CancelledEffect DEF Asks
  <2>3. state[t][k] \in {"approved", "ran"} /\ ~(t = s /\ k = n[s] + 1)
    BY <2>2 DEF AskedAs
  <2>4. PICK j \in Num : <<t, j>> \in yes /\ ident[t][j] = ident[t][k]
    BY <2>3 DEF OwnSessionConsent
  <2>5. j <= n[t] BY <2>4 DEF YesAsked
  <2>6. ident'[t][j] = ident[t][j] /\ ident'[t][k] = ident[t][k]
    BY <2>1, <2>3, <2>5 DEF Num
  <2> QED BY <2>1, <2>4, <2>6
<1>6. CASE Quiet
  BY <1>6, <1>h DEF Quiet, calls
<1> QED BY <1>1, <1>2, <1>3, <1>4, <1>5, <1>6, Shapes

\* A call that waits was asked for, under an id.
LEMMA WaitingAsked ==
  ASSUME TypeOK, CallInv, NEW t \in Session, NEW k \in Num, state[t][k] = "waiting"
  PROVE  k <= n[t] /\ ident[t][k] \in Id
<1>1. n[t] \in Nat /\ k \in Nat BY ConstantsAssumption DEF TypeOK, Num
<1>2. state[t][k] # "none" OBVIOUS
<1>3. ~(k > n[t]) BY <1>2 DEF CallInv, Numbered
<1>4. k <= n[t] BY <1>1, <1>3
<1> QED BY <1>4 DEF CallInv, Numbered

(***************************************************************************)
(* With unique ids: an id is one call's, a waiting call has its entry, and *)
(* a yes is a yes to the call that runs.                                   *)
(***************************************************************************)
LEMMA UniqueStep ==
  ASSUME UniqueIds, TypeOK, CallInv, UniqueInv, [Next]_vars
  PROVE  UniqueInv'
<1>t. TypeOK' BY TypeStep
<1>n. MaxCalls \in Nat /\ \A s \in Session : n[s] \in 0..MaxCalls
  BY ConstantsAssumption DEF TypeOK
<1>1. ASSUME NEW s \in Session, NewRound(s) PROVE UniqueInv'
  BY <1>1 DEF NewRound, UniqueInv, Distinct, Answerable, Consent
<1>2. ASSUME NEW s \in Session, Run(s) PROVE UniqueInv'
  <2>1. /\ n[s] \in Num /\ state[s][n[s]] = "approved"
        /\ \A t \in Session, k \in Num :
              state'[t][k] = IF t = s /\ k = n[s] THEN "ran" ELSE state[t][k]
        /\ UNCHANGED <<pending, calls, yes>>
    BY <1>2, RunEffect
  <2> QED BY <2>1 DEF UniqueInv, Distinct, Answerable, Consent, calls
<1>3. ASSUME NEW s \in Session, NEW st \in {"approved", "denied"}, Resolved(s, st),
             yes \subseteq yes', st = "approved" => <<s, n[s]>> \in yes'
      PROVE  UniqueInv'
  <2>1. /\ n[s] \in Num /\ state[s][n[s]] = "waiting"
        /\ \A t \in Session, k \in Num :
              state'[t][k] = IF t = s /\ k = n[s] THEN st ELSE state[t][k]
        /\ \A j \in Id : pending'[j] = IF pending[j] = s THEN Nobody ELSE pending[j]
        /\ UNCHANGED calls
    BY <1>3, ResolvedEffect
  <2>2. Distinct' BY <2>1 DEF UniqueInv, Distinct, calls
  <2>3. Answerable'
    <3> SUFFICES ASSUME NEW t \in Session, NEW k \in Num, state'[t][k] = "waiting"
                 PROVE  pending'[ident'[t][k]] = t
      BY DEF Answerable
    <3>1. state[t][k] = "waiting" /\ ~(t = s /\ k = n[s]) BY <1>3, <2>1
    <3>2. t # s BY <3>1 DEF CallInv, OnlyCurrent
    <3>3. ident[t][k] \in Id BY <3>1, WaitingAsked
    <3>4. pending[ident[t][k]] = t BY <3>1 DEF UniqueInv, Answerable
    <3> QED BY <2>1, <3>2, <3>3, <3>4 DEF calls
  <2>4. Consent' BY <1>3, <2>1 DEF UniqueInv, Consent
  <2> QED BY <2>2, <2>3, <2>4 DEF UniqueInv
<1>4. ASSUME NEW s \in Session, Approved(s) PROVE UniqueInv'
  <2>1. PICK j \in Num : /\ j <= n[s] /\ ident[s][j] = ident[s][n[s]]
                        /\ yes' = yes \cup {<<s, j>>}
    BY <1>4 DEF Approved
  <2>2. n[s] \in Num /\ n[s] <= n[s] BY <1>4, <1>n DEF Approved, Resolved
  <2>3. j = n[s] BY <2>1, <2>2 DEF UniqueInv, Distinct
  <2> QED BY <1>3, <1>4, <2>1, <2>3 DEF Approved
<1>5. ASSUME NEW s \in Session, NEW i \in Id, Asks(s, i) PROVE UniqueInv'
  <2>0. /\ n[s] + 1 \in Num /\ Fresh(i) /\ UNCHANGED yes
        /\ \A t \in Session : n'[t] = IF t = s THEN n[t] + 1 ELSE n[t]
        /\ \A t \in Session, k \in Num :
              ident'[t][k] = IF t = s /\ k = n[s] + 1 THEN i ELSE ident[t][k]
    BY <1>5, AskEffect
  <2>1. \A t \in Session, k \in Num : k <= n[t] => ident[t][k] # i
    BY <1>n, <2>0 DEF Fresh, Num
  <2>2. Distinct'
    <3> SUFFICES ASSUME NEW t \in Session, NEW u \in Session, NEW j \in Num, NEW k \in Num,
                        j <= n'[t], k <= n'[u], ident'[t][j] = ident'[u][k]
                 PROVE  t = u /\ j = k
      BY DEF Distinct
    <3>1. j <= n[t] \/ (t = s /\ j = n[s] + 1) BY <1>n, <2>0 DEF Num
    <3>2. k <= n[u] \/ (u = s /\ k = n[s] + 1) BY <1>n, <2>0 DEF Num
    <3>3. CASE j <= n[t] /\ k <= n[u]
      <4>1. ident[t][j] = ident[u][k] BY <1>n, <2>0, <3>3 DEF Num
      <4> QED BY <3>3, <4>1 DEF UniqueInv, Distinct
    <3>4. CASE j <= n[t] /\ u = s /\ k = n[s] + 1
      <4>1. ident[t][j] = i BY <1>n, <2>0, <3>4 DEF Num
      <4> QED BY <2>1, <3>4, <4>1
    <3>5. CASE t = s /\ j = n[s] + 1 /\ k <= n[u]
      <4>1. ident[u][k] = i BY <1>n, <2>0, <3>5 DEF Num
      <4> QED BY <2>1, <3>5, <4>1
    <3> QED BY <3>1, <3>2, <3>3, <3>4, <3>5
  <2>3. \E st \in {"waiting", "unheard", "cancelled"} :
          /\ AskedAs(s, st)
          /\ \A j \in Id : j # i => pending'[j] = pending[j]
          /\ st = "waiting" => pending'[i] = s
    <3>1. CASE Request(s, i)
      <4>1. AskedAs(s, "waiting") /\ \A j \in Id : pending'[j] = IF j = i THEN s ELSE pending[j]
        BY <3>1, RequestEffect
      <4> QED BY <4>1
    <3>2. CASE RequestUnheard(s, i)
      <4>1. AskedAs(s, "unheard") /\ \A j \in Id : pending'[j] = IF j = i THEN Nobody ELSE pending[j]
        BY <3>2, UnheardEffect
      <4> QED BY <4>1
    <3>3. CASE RequestCancelled(s, i)
      <4>1. AskedAs(s, "cancelled") /\ UNCHANGED pending BY <3>3, CancelledEffect
      <4> QED BY <4>1
    <3> QED BY <1>5, <3>1, <3>2, <3>3 DEF Asks
  <2>4. Answerable'
    <3> SUFFICES ASSUME NEW t \in Session, NEW k \in Num, state'[t][k] = "waiting"
                 PROVE  pending'[ident'[t][k]] = t
      BY DEF Answerable
    <3>1. CASE t = s /\ k = n[s] + 1
      BY <2>0, <2>3, <3>1 DEF AskedAs
    <3>2. CASE ~(t = s /\ k = n[s] + 1)
      <4>1. state[t][k] = "waiting" /\ ident'[t][k] = ident[t][k]
        BY <2>0, <2>3, <3>2 DEF AskedAs
      <4>2. k <= n[t] /\ ident[t][k] \in Id BY <4>1, WaitingAsked
      <4>3. ident[t][k] # i BY <2>1, <4>2
      <4>4. pending[ident[t][k]] = t BY <4>1 DEF UniqueInv, Answerable
      <4> QED BY <2>3, <4>1, <4>2, <4>3, <4>4
    <3> QED BY <3>1, <3>2
  <2>5. Consent'
    <3>1. \A t \in Session, k \in Num :
            state'[t][k] \in {"approved", "ran"} => state[t][k] \in {"approved", "ran"}
      BY <2>3 DEF AskedAs
    <3> QED BY <2>0, <3>1 DEF UniqueInv, Consent
  <2> QED BY <2>2, <2>4, <2>5 DEF UniqueInv
<1>6. CASE Quiet
  BY <1>6 DEF Quiet, calls, UniqueInv, Distinct, Answerable, Consent
<1>7. ASSUME NEW s \in Session, Denied(s) PROVE UniqueInv'
  BY <1>3, <1>7 DEF Denied
<1> QED BY <1>1, <1>2, <1>4, <1>5, <1>6, <1>7, Shapes
-----------------------------------------------------------------------------
(***************************************************************************)
(* Both parts of the invariant hold throughout.                            *)
(***************************************************************************)
LEMMA Inductive == Spec => []IInv
<1>1. Init => IInv
  <2> SUFFICES ASSUME Init PROVE IInv OBVIOUS
  <2>1. TypeOK BY ConstantsAssumption DEF Init, TypeOK, States, Num, Call
  <2>2. CallInv
    BY ConstantsAssumption DEF Init, CallInv, Numbered, OnlyCurrent, Armed, EntriesWait, Num
  <2>3. RoundInv BY DEF Init, RoundInv, DenialNoted, FailAll
  <2>4. YesAsked /\ OwnSessionConsent BY DEF Init, YesAsked, OwnSessionConsent
  <2> QED BY <2>1, <2>2, <2>3, <2>4 DEF IInv
<1>2. IInv /\ [Next]_vars => IInv'
  BY TypeStep, CallStep, RoundStep, YesStep, ConsentStep DEF IInv
<1> QED BY <1>1, <1>2, PTL DEF Spec

LEMMA UniqueInductive == UniqueIds => (Spec => []UniqueInv)
<1> SUFFICES ASSUME UniqueIds PROVE Spec => []UniqueInv
  OBVIOUS
<1>1. Init => UniqueInv
  BY ConstantsAssumption DEF Init, UniqueInv, Distinct, Answerable, Consent, Num
<1>2. IInv /\ UniqueInv /\ [Next]_vars => UniqueInv'
  BY UniqueStep DEF IInv
<1> QED BY <1>1, <1>2, Inductive, PTL DEF Spec

(***************************************************************************)
(* Whatever the ids, the map holds nothing but calls that wait.            *)
(***************************************************************************)
THEOREM EntriesWaitCorrect == Spec => []EntriesWait
<1>1. IInv => EntriesWait BY DEF IInv, CallInv
<1> QED BY <1>1, Inductive, PTL

(***************************************************************************)
(* After a denial no write of the round runs or is asked about.            *)
(***************************************************************************)
THEOREM FailAllCorrect == Spec => []FailAll
<1>1. IInv => FailAll BY DEF IInv, RoundInv
<1> QED BY <1>1, Inductive, PTL

(***************************************************************************)
(* Whatever the ids, a write runs only after its own session's user said   *)
(* yes to a prompt with its id.                                            *)
(***************************************************************************)
THEOREM OwnSessionConsentCorrect == Spec => []OwnSessionConsent
<1>1. IInv => OwnSessionConsent BY DEF IInv
<1> QED BY <1>1, Inductive, PTL

(***************************************************************************)
(* With unique ids a write runs only after a yes to its own prompt.        *)
(***************************************************************************)
THEOREM ConsentCorrect == UniqueIds => (Spec => []Consent)
<1> SUFFICES ASSUME UniqueIds PROVE Spec => []Consent
  OBVIOUS
<1>1. UniqueInv => Consent BY DEF UniqueInv
<1> QED BY <1>1, UniqueInductive, PTL

(***************************************************************************)
(* With unique ids a call that waits can be answered.                      *)
(***************************************************************************)
THEOREM AnswerableCorrect == UniqueIds => (Spec => []Answerable)
<1> SUFFICES ASSUME UniqueIds PROVE Spec => []Answerable
  OBVIOUS
<1>1. UniqueInv => Answerable BY DEF UniqueInv
<1> QED BY <1>1, UniqueInductive, PTL

(***************************************************************************)
(* With unique ids the map and the calls that wait are the same.           *)
(***************************************************************************)
THEOREM EntriesMatchCallsCorrect == UniqueIds => (Spec => []EntriesMatchCalls)
<1> SUFFICES ASSUME UniqueIds PROVE Spec => []EntriesMatchCalls
  OBVIOUS
<1>1. IInv /\ UniqueInv => EntriesMatchCalls
  BY DEF IInv, CallInv, UniqueInv, EntriesMatchCalls
<1> QED BY <1>1, Inductive, UniqueInductive, PTL

-----------------------------------------------------------------------------
(***************************************************************************)
(* The gate implements WriteConsent.  Bar is the stage of each call.       *)
(***************************************************************************)
Bar == [c \in Call |-> Stage(state[c[1]][c[2]])]

LEMMA StageOf ==
  /\ Stage("none") = "none" /\ Stage("waiting") = "asked"
  /\ Stage("approved") = "approved" /\ Stage("ran") = "ran"
  /\ \A st \in Refused : Stage(st) = "refused"
  /\ \A st \in States : /\ Stage(st) = "none" <=> st = "none"
                        /\ Stage(st) = "asked" <=> st = "waiting"
  BY DEF Stage, Refused, States

\* One call changes its state: its stage changes, and no other.
LEMMA BarMove ==
  ASSUME NEW s \in Session, NEW k \in Num, NEW st,
         \A t \in Session, j \in Num :
           state'[t][j] = IF t = s /\ j = k THEN st ELSE state[t][j]
  PROVE  /\ Bar' = [Bar EXCEPT ![<<s, k>>] = Stage(st)]
         /\ Bar[<<s, k>>] = Stage(state[s][k])
         /\ <<s, k>> \in Call
<1> HIDE DEF Stage
<1>1. <<s, k>> \in Call BY DEF Call
<1>2. Bar' = [c \in Call |-> Stage(state'[c[1]][c[2]])] BY DEF Bar
<1>3. ASSUME NEW c \in Call
      PROVE  Stage(state'[c[1]][c[2]]) =
               IF c = <<s, k>> THEN Stage(st) ELSE Stage(state[c[1]][c[2]])
  <2>1. c[1] \in Session /\ c[2] \in Num /\ c = <<c[1], c[2]>> BY DEF Call
  <2>2. CASE c = <<s, k>> BY <2>1, <2>2
  <2>3. CASE c # <<s, k>>
    <3>1. ~(c[1] = s /\ c[2] = k) BY <2>1, <2>3
    <3>2. state'[c[1]][c[2]] = state[c[1]][c[2]] BY <2>1, <3>1
    <3> QED BY <2>3, <3>2
  <2> QED BY <2>2, <2>3
<1> QED BY <1>1, <1>2, <1>3 DEF Bar

LEMMA BarSame == UNCHANGED state => Bar' = Bar
  BY DEF Bar

LEMMA PromiseStep ==
  ASSUME UniqueIds, TypeOK, CallInv, UniqueInv, [Next]_vars
  PROVE  [Promise!Next]_Promise!vars
<1> DEFINE Kept == [Promise!Next]_Promise!vars
<1>0. ASSUME UNCHANGED <<state, yes>> PROVE Kept
  BY <1>0 DEF Promise!vars
<1>1. ASSUME NEW s \in Session, NewRound(s) PROVE Kept
  BY <1>0, <1>1 DEF NewRound
<1>2. ASSUME NEW s \in Session, Run(s) PROVE Kept
  <2>1. /\ n[s] \in Num /\ state[s][n[s]] = "approved" /\ UNCHANGED yes
        /\ \A t \in Session, j \in Num :
              state'[t][j] = IF t = s /\ j = n[s] THEN "ran" ELSE state[t][j]
    BY <1>2, RunEffect
  <2>2. /\ Bar' = [Bar EXCEPT ![<<s, n[s]>>] = "ran"]
        /\ Bar[<<s, n[s]>>] = "approved" /\ <<s, n[s]>> \in Call
    BY <2>1, BarMove, StageOf
  <2>3. Promise!Run(<<s, n[s]>>)
    BY <2>1, <2>2 DEF Promise!Run, Promise!Move, Bar
  <2> QED BY <2>2, <2>3 DEF Promise!Next
<1>3. ASSUME NEW s \in Session, Denied(s) PROVE Kept
  <2>1. /\ n[s] \in Num /\ state[s][n[s]] = "waiting" /\ UNCHANGED yes
        /\ \A t \in Session, j \in Num :
              state'[t][j] = IF t = s /\ j = n[s] THEN "denied" ELSE state[t][j]
    BY <1>3, ResolvedEffect DEF Denied
  <2>2. /\ Bar' = [Bar EXCEPT ![<<s, n[s]>>] = "refused"]
        /\ Bar[<<s, n[s]>>] = "asked" /\ <<s, n[s]>> \in Call
    BY <2>1, BarMove, StageOf DEF Refused
  <2>3. Promise!Refuse(<<s, n[s]>>)
    BY <2>1, <2>2 DEF Promise!Refuse, Promise!Move, Bar
  <2> QED BY <2>2, <2>3 DEF Promise!Next
<1>4. ASSUME NEW s \in Session, Approved(s) PROVE Kept
  <2>1. /\ n[s] \in Num /\ state[s][n[s]] = "waiting"
        /\ \A t \in Session, j \in Num :
              state'[t][j] = IF t = s /\ j = n[s] THEN "approved" ELSE state[t][j]
    BY <1>4, ResolvedEffect DEF Approved
  <2>2. /\ Bar' = [Bar EXCEPT ![<<s, n[s]>>] = "approved"]
        /\ Bar[<<s, n[s]>>] = "asked" /\ <<s, n[s]>> \in Call
    BY <2>1, BarMove, StageOf
  <2>3. PICK j \in Num : /\ j <= n[s] /\ ident[s][j] = ident[s][n[s]]
                        /\ yes' = yes \cup {<<s, j>>}
    BY <1>4 DEF Approved
  <2>4. j = n[s]
    <3>1. n[s] <= n[s] BY <2>1 DEF Num
    <3> QED BY <2>1, <2>3, <3>1 DEF UniqueInv, Distinct
  <2>5. Promise!Approve(<<s, n[s]>>)
    BY <2>2, <2>3, <2>4 DEF Promise!Approve, Promise!Move, Bar
  <2> QED BY <2>2, <2>5 DEF Promise!Next
<1>5. ASSUME NEW s \in Session, NEW i \in Id, Asks(s, i) PROVE Kept
  <2>1. n[s] + 1 \in Num /\ UNCHANGED yes BY <1>5, AskEffect
  <2>2. state[s][n[s] + 1] = "none"
    <3>1. n[s] + 1 > n[s] BY ConstantsAssumption DEF TypeOK
    <3> QED BY <2>1, <3>1 DEF CallInv, Numbered
  <2>3. PICK st \in {"waiting", "unheard", "cancelled"} : AskedAs(s, st)
    BY <1>5, RequestEffect, UnheardEffect, CancelledEffect DEF Asks
  <2>4. /\ Bar' = [Bar EXCEPT ![<<s, n[s] + 1>>] = Stage(st)]
        /\ Bar[<<s, n[s] + 1>>] = "none" /\ <<s, n[s] + 1>> \in Call
    BY <2>1, <2>2, <2>3, BarMove, StageOf DEF AskedAs
  <2>5. CASE st = "waiting"
    <3>1. Promise!Ask(<<s, n[s] + 1>>)
      BY <2>1, <2>4, <2>5, StageOf DEF Promise!Ask, Promise!Move, Bar
    <3> QED BY <2>4, <3>1 DEF Promise!Next
  <2>6. CASE st \in {"unheard", "cancelled"}
    <3>1. Promise!Dismiss(<<s, n[s] + 1>>)
      BY <2>1, <2>4, <2>6, StageOf DEF Promise!Dismiss, Promise!Move, Bar, Refused
    <3> QED BY <2>4, <3>1 DEF Promise!Next
  <2> QED BY <2>5, <2>6
<1>6. CASE Quiet
  <2>1. CASE UNCHANGED yes BY <1>0, <1>6, <2>1 DEF Quiet
  <2>2. ASSUME NEW s \in Session, NEW k \in Num, k <= n[s], pending[ident[s][k]] # s,
               yes' = yes \cup {<<s, k>>}
        PROVE  Kept
    <3>1. n[s] \in Nat /\ k \in Nat /\ state[s][k] \in States
      BY ConstantsAssumption DEF TypeOK, Num
    <3>2. state[s][k] # "waiting" BY <2>2 DEF UniqueInv, Answerable
    <3>3. ~(k > n[s]) BY <2>2, <3>1
    <3>4. state[s][k] # "none" BY <3>3 DEF CallInv, Numbered
    <3>5. <<s, k>> \in Call /\ Bar[<<s, k>>] \notin {"none", "asked"}
      BY <3>1, <3>2, <3>4, StageOf DEF Bar, Call
    <3>6. Bar' = Bar BY <1>6, BarSame DEF Quiet
    <3>7. Promise!TooLate(<<s, k>>) BY <2>2, <3>5, <3>6 DEF Promise!TooLate, Bar
    <3> QED BY <3>5, <3>7 DEF Promise!Next
  <2> QED BY <1>6, <2>1, <2>2 DEF Quiet
<1> QED BY <1>1, <1>2, <1>3, <1>4, <1>5, <1>6, Shapes

(***************************************************************************)
(* With unique ids the gate keeps the whole promise: every write is        *)
(* asked about at most once, runs at most once and only once the user said *)
(* yes, and is never asked about or run again once refused.                *)
(***************************************************************************)
THEOREM Refinement == UniqueIds => (Spec => KeepsPromise)
<1> SUFFICES ASSUME UniqueIds PROVE Spec => KeepsPromise
  OBVIOUS
<1>1. Init => Promise!Init
  BY StageOf, ConstantsAssumption DEF Init, Promise!Init, Call
<1>2. IInv /\ UniqueInv /\ [Next]_vars => [Promise!Next]_Promise!vars
  BY PromiseStep DEF IInv
<1> QED BY <1>1, <1>2, Inductive, UniqueInductive, PTL DEF Spec, KeepsPromise, Promise!Spec
-----------------------------------------------------------------------------
(***************************************************************************)
(* A timer that fires for a call already decided meets, with unique ids,   *)
(* no entry of its id: it settles nothing and denies nothing.              *)
(***************************************************************************)
LEMMA TimerStep ==
  ASSUME TypeOK, CallInv, UniqueInv, [Next]_vars,
         NEW s \in Session, NEW j \in Num, NEW k \in Num,
         j # k, j \in timers[s], j \notin timers'[s], state[s][k] = "waiting"
  PROVE  state'[s][k] = "waiting"
<1>n. /\ n[s] \in Nat /\ k = n[s] /\ j \in 1..n[s]
      /\ j <= n[s] /\ k <= n[s] /\ ident[s][j] \in Id
  BY ConstantsAssumption DEF TypeOK, CallInv, OnlyCurrent, Armed, Numbered, Num
<1>1. ASSUME timers' = timers PROVE FALSE BY <1>1
<1>2. PICK u \in Session : GateStep(u)
  <2>1. ASSUME NEW c \in Socket, SocketStep(c) PROVE FALSE
    BY <1>1, <2>1 DEF SocketStep, Track, Disconnect, Join, LeaveSession, Decide
  <2> QED BY <1>1, <2>1 DEF Next, vars
<1>3. ASSUME NEW i \in Id, Request(u, i) PROVE FALSE
  <2>1. \A t \in Session :
          timers'[t] = IF t = u THEN timers[t] \cup {n[u] + 1} ELSE timers[t]
    BY <1>3, RequestEffect
  <2> QED BY <2>1
<1>4. PICK m \in Num : TimerFires(u, m)
  BY <1>1, <1>2, <1>3 DEF GateStep, Run, NewRound, RequestUnheard, RequestCancelled
<1>5. timers' = [timers EXCEPT ![u] = @ \ {m}] BY <1>4 DEF TimerFires
<1>6. u = s /\ m = j BY <1>5 DEF TypeOK
<1>7. state[s][j] # "waiting" BY <1>n DEF CallInv, OnlyCurrent
<1>8. pending[ident[s][j]] # s
  <2> SUFFICES ASSUME pending[ident[s][j]] = s PROVE FALSE OBVIOUS
  <2>1. ident[s][n[s]] = ident[s][j] BY <1>n, Waits DEF CallInv
  <2> QED BY <1>n, <2>1 DEF UniqueInv, Distinct
<1>9. ~EndsWith(s, j) BY <1>7, <1>8 DEF EndsWith, MaySettle
<1>10. UNCHANGED <<state, writeDenied>> BY <1>4, <1>6, <1>9, Zenon DEF TimerFires
<1> QED BY <1>10

(***************************************************************************)
(* With unique ids a timer ends no call but its own.                       *)
(***************************************************************************)
THEOREM TimersEndTheirOwnCorrect == UniqueIds => (Spec => TimersEndTheirOwn)
<1> SUFFICES ASSUME UniqueIds PROVE Spec => TimersEndTheirOwn
  OBVIOUS
<1>1. IInv /\ UniqueInv /\ [Next]_vars =>
        [\A s \in Session, j, k \in Num :
           j # k /\ j \in timers[s] /\ j \notin timers'[s] /\ state[s][k] = "waiting"
             => state'[s][k] = "waiting"]_vars
  BY TimerStep DEF IInv
<1> QED BY <1>1, Inductive, UniqueInductive, PTL DEF Spec, TimersEndTheirOwn

-----------------------------------------------------------------------------
(***************************************************************************)
(* The database of an app (AppDatabase), whose questions to the person are *)
(* pending entries like the approvals, for any projects, tables and bounds.*)
(* A behaviour starts from anything that may be stored.                    *)
(***************************************************************************)
\* What a token may be for, and what the two rows may hold.
Credential == Supabase \cup {Nowhere, Unscoped}
Storable   == [row : [project : Supabase \cup {Nowhere}, anon : BOOLEAN, token : BOOLEAN],
               mcp : Credential]
\* The behaviours of the app's database, from any of these rows.
DatabaseSpec(rows) == DatabaseStart(rows) /\ [][DatabaseNext]_databaseVars

\* A migration, or none.
Migration == [to : Credential, what : SUBSET Table]
\* A build is a record of its fields, with the types the steps need.
IsBuild(b) ==
  /\ b = [at |-> b.at, kind |-> b.kind, had |-> b.had, own |-> b.own, waits |-> b.waits,
          asks |-> b.asks, got |-> b.got, accepted |-> b.accepted, schema |-> b.schema,
          sent |-> b.sent, said |-> b.said]
  /\ b.got = [ask |-> b.got.ask, gate |-> b.got.gate]
  /\ b.waits \in {"nothing", "gate", "ask"}
  /\ b.schema \in [ran : BOOLEAN, ok : BOOLEAN]
  /\ b.sent \in Migration

\* Type invariant.
DatabaseTyped ==
  /\ stored \in Storable
  /\ tables \in [Supabase -> SUBSET Table]
  /\ process = [asked |-> process.asked, env |-> process.env, entries |-> process.entries]
  /\ process.entries \subseteq {"gate", "ask"}
  /\ app = [exists |-> app.exists, backend |-> app.backend, fake |-> app.fake,
            declared |-> app.declared, queried |-> app.queried]
  /\ app.declared \subseteq Table
  /\ IsBuild(build)
  /\ flight \in Migration

(***************************************************************************)
(* What is read of the stored rows names a project, or none.               *)
(***************************************************************************)
LEMMA CredentialsType ==
  ASSUME DatabaseTyped
  PROVE  previewCreds \in Supabase \cup {Nowhere} /\ mcpAuth \in Credential
BY DEF DatabaseTyped, Storable, Credential, previewCreds, mcpAuth

\* What an answer changes of a build.
HasAnswer(b, question, answer, accepted) ==
  /\ b.at = build.at /\ b.schema = build.schema /\ b.sent = build.sent /\ b.said = build.said
  /\ b.waits = IF build.waits = question THEN "nothing" ELSE build.waits
  /\ b.accepted = build.accepted \cup accepted
  /\ b.got.ask = IF question = "ask" /\ build.waits = "ask" THEN answer ELSE build.got.ask

(***************************************************************************)
(* An answer ends the wait of whoever waits for it, and changes nothing of *)
(* the schema.                                                             *)
(***************************************************************************)
LEMMA GivenFacts ==
  ASSUME IsBuild(build), NEW question \in {"gate", "ask"}, NEW answer, NEW accepted,
         NEW b, b = Given(question, answer, accepted)
  PROVE  IsBuild(b) /\ HasAnswer(b, question, answer, accepted)
<1> DEFINE heard == build.waits = question
<1>2. DOMAIN build.got = {"ask", "gate"}
  BY DEF IsBuild
<1>3. b.got = IF heard THEN [build.got EXCEPT ![question] = answer] ELSE build.got
  BY DEF Given, IsBuild
<1>4. /\ b.got = [ask |-> b.got.ask, gate |-> b.got.gate]
      /\ b.got.ask = IF question = "ask" /\ heard THEN answer ELSE build.got.ask
  <2>1. CASE heard
    <3>1. b.got = [build.got EXCEPT ![question] = answer] BY <1>3, <2>1
    <3>2. CASE question = "ask"
      <4>1. b.got = [build.got EXCEPT !.ask = answer] BY <3>1, <3>2
      <4>2. b.got = [ask |-> answer, gate |-> build.got.gate] BY <4>1 DEF IsBuild
      <4> QED BY <2>1, <3>2, <4>2
    <3>3. CASE question = "gate"
      <4>1. b.got = [build.got EXCEPT !.gate = answer] BY <3>1, <3>3
      <4>2. b.got = [ask |-> build.got.ask, gate |-> answer] BY <4>1 DEF IsBuild
      <4> QED BY <2>1, <3>3, <4>2
    <3> QED BY <3>2, <3>3
  <2>2. CASE ~heard
    <3>1. b.got = build.got BY <1>3, <2>2
    <3> QED BY <2>2, <3>1 DEF IsBuild
  <2> QED BY <2>1, <2>2
<1>5. /\ b.at = build.at /\ b.schema = build.schema /\ b.sent = build.sent
      /\ b.said = build.said /\ b.accepted = build.accepted \cup accepted
      /\ b.waits = IF heard THEN "nothing" ELSE build.waits
  BY DEF Given, IsBuild
<1>6. b = [at |-> b.at, kind |-> b.kind, had |-> b.had, own |-> b.own, waits |-> b.waits,
           asks |-> b.asks, got |-> b.got, accepted |-> b.accepted, schema |-> b.schema,
           sent |-> b.sent, said |-> b.said]
  <2> DEFINE got == IF heard THEN [build.got EXCEPT ![question] = answer] ELSE build.got
  <2>1. b = [build EXCEPT !.got = got, !.waits = IF heard THEN "nothing" ELSE build.waits,
                          !.accepted = build.accepted \cup accepted]
    BY DEF Given, IsBuild
  <2> HIDE DEF got, heard
  <2> QED BY <2>1 DEF IsBuild
<1>7. IsBuild(b) BY <1>4, <1>5, <1>6 DEF IsBuild, heard
<1> QED BY <1>4, <1>5, <1>7 DEF heard, HasAnswer
\* A build that moves on with what became of its schema.
RanSo(b, place, ran, ok) ==
  /\ b.at = place /\ b.schema.ran = ran /\ b.schema.ok = ok
  /\ b.waits = build.waits /\ b.got = build.got /\ b.accepted = build.accepted
  /\ b.sent = build.sent /\ b.said = build.said

(***************************************************************************)
(* Telling what became of the schema changes nothing else.                 *)
(***************************************************************************)
LEMMA RanFacts ==
  ASSUME IsBuild(build), NEW place, NEW ran \in BOOLEAN, NEW ok \in BOOLEAN, NEW b,
         b = [Move(place) EXCEPT !.schema = [ran |-> ran, ok |-> ok]]
  PROVE  IsBuild(b) /\ RanSo(b, place, ran, ok)
<1> DEFINE m == Move(place)
           schema == [ran |-> ran, ok |-> ok]
<1>0. schema \in [ran : BOOLEAN, ok : BOOLEAN] OBVIOUS
<1>b. b = [m EXCEPT !.schema = schema] OBVIOUS
<1>1. /\ IsBuild(m) /\ m.at = place
      /\ m.waits = build.waits /\ m.got = build.got /\ m.accepted = build.accepted
      /\ m.sent = build.sent /\ m.said = build.said
  BY DEF Move, IsBuild
<1> HIDE DEF m, schema
<1>2. b = [at |-> m.at, kind |-> m.kind, had |-> m.had, own |-> m.own, waits |-> m.waits,
           asks |-> m.asks, got |-> m.got, accepted |-> m.accepted, schema |-> schema,
           sent |-> m.sent, said |-> m.said]
  BY <1>b, <1>1 DEF IsBuild
<1>3. /\ b.at = place /\ b.schema = schema /\ b.waits = m.waits /\ b.got = m.got
      /\ b.accepted = m.accepted /\ b.sent = m.sent /\ b.said = m.said
  BY <1>1, <1>2
<1>4. b = [at |-> b.at, kind |-> b.kind, had |-> b.had, own |-> b.own, waits |-> b.waits,
           asks |-> b.asks, got |-> b.got, accepted |-> b.accepted, schema |-> b.schema,
           sent |-> b.sent, said |-> b.said]
  BY <1>2
<1>5. IsBuild(b) BY <1>0, <1>1, <1>3, <1>4 DEF IsBuild
<1>6. b.schema.ran = ran /\ b.schema.ok = ok BY <1>3 DEF schema
<1> QED BY <1>1, <1>3, <1>5, <1>6 DEF RanSo

(***************************************************************************)
(* Going on to another place changes nothing else.                         *)
(***************************************************************************)
LEMMA MoveFacts ==
  ASSUME IsBuild(build), NEW place
  PROVE  LET b == Move(place)
         IN  /\ b.at = place /\ b.schema = build.schema /\ b.waits = build.waits
             /\ b.got = build.got /\ b.accepted = build.accepted
             /\ b.sent = build.sent /\ b.said = build.said
BY DEF Move, IsBuild

-----------------------------------------------------------------------------
\* A question is waited for only where it is asked.
Waiting ==
  /\ build.waits = "gate" => build.at = "gate"
  /\ build.waits = "ask" => build.at = "generate"

\* An entry of ask_user is one that is waited for, and so unanswered; an
\* accepted answer is the one that was got.
Asking ==
  /\ "ask" \in process.entries => build.waits = "ask"
  /\ build.waits = "ask" => \A words : <<"ask", words>> \notin build.accepted
  /\ \A words : <<"ask", words>> \in build.accepted => build.got.ask = words

\* The places of a build before its schema is run.
BeforeApply == {"idle", "gate", "generate", "schema", "apply"}
\* The migration a build waits for is the one in flight; what was called
\* successful is in the tables; where there was no database nothing was sent.
Migrated ==
  /\ build.at = "applying" => flight = build.sent
  /\ build.at \in BeforeApply => build.sent = NotSent
  /\ build.at \in BeforeApply \cup {"applying"} => build.schema = NotRun
  /\ build.schema.ran /\ build.schema.ok =>
       build.sent.to \in Supabase /\ build.sent.what \subseteq tables[build.sent.to]
  /\ ~build.schema.ran /\ ~build.schema.ok => build.sent = NotSent

\* What is said of tables that are there, and of none.
Made == {"tables: created", "real backend"}
NoneToUse == "tables: no database to create them in"
\* Words about the tables come at the end, and fit the schema's outcome.
ToldOnce ==
  /\ build.at # "done" => build.said \cap (Made \cup {NoneToUse}) = {}
  /\ build.said \cap Made # {} => build.schema.ok
  /\ NoneToUse \in build.said => ~build.schema.ran /\ ~build.schema.ok

\* The inductive invariant.
DatabaseInv == DatabaseTyped /\ Waiting /\ Asking /\ Migrated /\ ToldOnce

(***************************************************************************)
(* Every step keeps the types.                                             *)
(***************************************************************************)
LEMMA DatabaseTypeStep == DatabaseTyped /\ [DatabaseNext]_databaseVars => DatabaseTyped'
<1> SUFFICES ASSUME DatabaseTyped, DatabaseNext PROVE DatabaseTyped'
  BY DEF databaseVars, DatabaseTyped
<1> USE DEF DatabaseTyped
<1>c. ASSUME NEW new \in Storable, Changes(new) PROVE DatabaseTyped'
  BY <1>c DEF Changes
<1>1. CASE ConnectServiceKey
  BY <1>1, <1>c DEF ConnectServiceKey, Storable
<1>2. CASE ConnectToken BY <1>2, <1>c DEF ConnectToken, Storable, Credential
<1>3. CASE ConnectOAuth BY <1>3, <1>c DEF ConnectOAuth, Storable, Credential
<1>4. CASE DisconnectSupabase
  BY <1>4, <1>c DEF DisconnectSupabase, NothingStored, Storable, Credential
<1>5. CASE DisconnectMcp BY <1>5, <1>c DEF DisconnectMcp, Storable, Credential
<1>6. CASE PersonAnswers
  <2>1. PICK q \in process.entries, words \in {"connect", "decline", "something else"} :
          Closed(q) /\ build' = Given(q, words, {<<q, words>>})
    BY <1>6 DEF PersonAnswers
  <2>2. q \in {"gate", "ask"} OBVIOUS
  <2>3. IsBuild(build') BY <2>1, <2>2, GivenFacts
  <2> QED BY <1>6, <2>1, <2>3 DEF PersonAnswers, Closed
<1>7. CASE GateTimesOut
  <2>1. IsBuild(build') BY <1>7, GivenFacts DEF GateTimesOut
  <2> QED BY <1>7, <2>1 DEF GateTimesOut
<1>8. CASE AskTimesOut
  <2>1. IsBuild(build') BY <1>8, GivenFacts DEF AskTimesOut
  <2> QED BY <1>8, <2>1 DEF AskTimesOut, Closed
<1>9. CASE TabGoes
  <2>1. build.waits \in process.entries => build.waits \in {"gate", "ask"} OBVIOUS
  <2>2. IsBuild(build') BY <1>9, <2>1, GivenFacts DEF TabGoes
  <2> QED BY <1>9, <2>2 DEF TabGoes
<1>10. CASE TabComes BY <1>10 DEF TabComes
<1>n. NotSent \in Migration BY DEF NotSent, Migration, Credential
<1>11. CASE BeginOther
  <2>1. IsBuild(build') BY <1>11, <1>n DEF BeginOther, Starting, NoBuild, IsBuild, NotRun
  <2> QED BY <1>11, <2>1 DEF BeginOther
<1>12. CASE BeginFullstack
  <2>1. IsBuild(build')
    <3>1. PICK creds \in Read(previewCreds) :
            \/ build' = [Starting("fullstack", "gate") EXCEPT !.waits = "gate"]
            \/ build' = [Starting("fullstack", "generate") EXCEPT !.own = creds # Nowhere]
      BY <1>12 DEF BeginFullstack
    <3>2. build'.schema = NotRun /\ build'.sent = NotSent
      BY <3>1 DEF Starting, NoBuild
    <3>3. build'.got = [ask |-> "nothing", gate |-> "nothing"]
          /\ build'.waits \in {"nothing", "gate"}
      BY <3>1 DEF Starting, NoBuild
    <3>4. build' = [at |-> build'.at, kind |-> build'.kind, had |-> build'.had, own |-> build'.own,
                    waits |-> build'.waits, asks |-> build'.asks, got |-> build'.got,
                    accepted |-> build'.accepted, schema |-> build'.schema,
                    sent |-> build'.sent, said |-> build'.said]
      BY <3>1 DEF Starting, NoBuild
    <3> QED BY <1>n, <3>2, <3>3, <3>4 DEF IsBuild, NotRun
  <2>2. /\ process' = [asked |-> process'.asked, env |-> process'.env, entries |-> process'.entries]
        /\ process'.entries \subseteq {"gate", "ask"}
    BY <1>12 DEF BeginFullstack
  <2> QED BY <1>12, <2>1, <2>2 DEF BeginFullstack
<1>13. CASE GateEnds
  <2>1. IsBuild(build') BY <1>13 DEF GateEnds, Move, IsBuild
  <2>2. /\ process' = [asked |-> process'.asked, env |-> process'.env, entries |-> process'.entries]
        /\ process'.entries \subseteq {"gate", "ask"}
    BY <1>13 DEF GateEnds
  <2> QED BY <1>13, <2>1, <2>2 DEF GateEnds
<1>14. CASE AskUser
  <2>1. IsBuild(build') BY <1>14 DEF AskUser, IsBuild
  <2> QED BY <1>14, <2>1 DEF AskUser, Opened
<1>15. CASE Generate
  <2>1. IsBuild(build') BY <1>15 DEF Generate, Move, IsBuild
  <2> QED BY <1>15, <2>1 DEF Generate
<1>16. CASE RepairSchema
  <2>1. IsBuild(build') BY <1>16 DEF RepairSchema, Move, IsBuild
  <2> QED BY <1>16, <2>1 DEF RepairSchema
<1>17. CASE SchemaStands BY <1>17 DEF SchemaStands, Move, IsBuild
<1>18. CASE ApplySkipped BY <1>18 DEF ApplySkipped, Move, IsBuild
<1>19. CASE ApplySent
  <2>1. PICK auth \in Read(mcpAuth) :
          IF auth = Nowhere
          THEN /\ build' = [Move("repairs") EXCEPT !.schema = [ran |-> FALSE, ok |-> FALSE]]
               /\ flight' = flight
          ELSE /\ flight' = [to |-> auth, what |-> app.declared]
               /\ build' = [Move("applying") EXCEPT !.sent = flight']
    BY <1>19 DEF ApplySent
  <2>2. auth \in Credential BY CredentialsType DEF Read, Credential
  <2>3. flight' \in Migration BY <2>1, <2>2 DEF Migration
  <2>4. CASE auth = Nowhere
    <3>2. IsBuild(build') BY <2>1, <2>4, RanFacts
    <3> QED BY <1>19, <2>3, <3>2 DEF ApplySent
  <2>5. CASE auth # Nowhere
    <3>1. IsBuild(build') BY <2>1, <2>3, <2>5 DEF Move, IsBuild
    <3> QED BY <1>19, <2>3, <3>1 DEF ApplySent
  <2> QED BY <2>4, <2>5
<1>20. CASE Lands
  <2>1. IsBuild(build')
    <3>1. PICK heard \in BOOLEAN :
            \/ build' = [Move("repairs") EXCEPT !.schema = [ran |-> TRUE, ok |-> heard]]
            \/ build' = build
      BY <1>20 DEF Lands
    <3> QED BY <3>1, RanFacts
  <2>2. tables' \in [Supabase -> SUBSET Table] BY <1>20 DEF Lands, Migration
  <2> QED BY <1>20, <1>n, <2>1, <2>2 DEF Lands
<1>21. CASE Refuses
  <2>1. IsBuild(build') BY <1>21 DEF Refuses, Move, IsBuild
  <2> QED BY <1>21, <1>n, <2>1 DEF Refuses
<1>22. CASE ApplyTimesOut BY <1>22 DEF ApplyTimesOut, Move, IsBuild
<1>23. CASE LaterRepair
  <2>1. IsBuild(build') BY <1>23 DEF LaterRepair, Move, IsBuild
  <2> QED BY <1>23, <2>1 DEF LaterRepair
<1>24. CASE Finish
  <2>1. IsBuild(build') BY <1>24 DEF Finish, Move, IsBuild
  <2> QED BY <1>24, <2>1 DEF Finish
<1>25. CASE Restart
  <2>1. IsBuild(build') BY <1>25, <1>n DEF Restart, NoBuild, IsBuild, NotRun
  <2> QED BY <1>25, <2>1 DEF Restart, Remembers
<1> QED BY <1>1, <1>2, <1>3, <1>4, <1>5, <1>6, <1>7, <1>8, <1>9, <1>10, <1>11, <1>12, <1>13,
           <1>14, <1>15, <1>16, <1>17, <1>18, <1>19, <1>20, <1>21, <1>22, <1>23, <1>24, <1>25
        DEF DatabaseNext

(***************************************************************************)
(* Every step keeps the entries and the answers together: an entry is      *)
(* closed with the wait it belongs to, so no answer is accepted after the  *)
(* timer or a closing tab gave one.                                        *)
(***************************************************************************)
LEMMA AskingStep ==
  ASSUME DatabaseTyped, Waiting, Asking, DatabaseNext
  PROVE  Waiting' /\ Asking'
<1> USE DEF Waiting, Asking
<1>t. IsBuild(build) /\ process.entries \subseteq {"gate", "ask"} BY DEF DatabaseTyped
<1>p. DOMAIN process = {"asked", "env", "entries"} BY DEF DatabaseTyped
<1>s. ASSUME build'.at = build.at, build'.waits = build.waits, build'.got = build.got,
             build'.accepted = build.accepted,
             process'.entries \subseteq process.entries \cup {"gate"}
      PROVE  Waiting' /\ Asking'
  BY <1>s
<1>m. ASSUME build'.waits = "nothing", "ask" \notin process'.entries,
             build'.got = build.got, build'.accepted = build.accepted
      PROVE  Waiting' /\ Asking'
  BY <1>m
<1>n. ASSUME build'.waits = "nothing" \/ (build'.waits = "gate" /\ build'.at = "gate"),
             "ask" \notin process'.entries, build'.accepted = {}
      PROVE  Waiting' /\ Asking'
  BY <1>n
<1>1. CASE ConnectServiceKey BY <1>1, <1>s DEF ConnectServiceKey, Changes
<1>2. CASE ConnectToken BY <1>2, <1>s DEF ConnectToken, Changes
<1>3. CASE ConnectOAuth BY <1>3, <1>s DEF ConnectOAuth, Changes
<1>4. CASE DisconnectSupabase BY <1>4, <1>s DEF DisconnectSupabase, Changes
<1>5. CASE DisconnectMcp BY <1>5, <1>s DEF DisconnectMcp, Changes
<1>6. CASE PersonAnswers
  <2>1. PICK q \in process.entries, words \in {"connect", "decline", "something else"} :
          Closed(q) /\ build' = Given(q, words, {<<q, words>>})
    BY <1>6 DEF PersonAnswers
  <2>2. process'.entries = process.entries \ {q} BY <2>1, <1>p DEF Closed
  <2>3. /\ build'.at = build.at
        /\ build'.waits = IF build.waits = q THEN "nothing" ELSE build.waits
        /\ build'.accepted = build.accepted \cup {<<q, words>>}
        /\ build'.got.ask = IF q = "ask" /\ build.waits = "ask" THEN words ELSE build.got.ask
    <3>1. HasAnswer(build', q, words, {<<q, words>>}) BY <1>t, <2>1, GivenFacts
    <3> QED BY <3>1 DEF HasAnswer
  <2>4. CASE q = "ask" BY <2>2, <2>3, <2>4
  <2>5. CASE q = "gate" BY <2>2, <2>3, <2>5
  <2> QED BY <1>t, <2>4, <2>5
<1>7. CASE GateTimesOut
  <2>1. /\ build'.at = build.at /\ build'.waits = "nothing"
        /\ build'.accepted = build.accepted /\ build'.got.ask = build.got.ask
    <3>1. HasAnswer(build', "gate", "no answer", {}) BY <1>t, <1>7, GivenFacts DEF GateTimesOut
    <3> QED BY <1>7, <3>1 DEF HasAnswer, GateTimesOut
  <2> QED BY <1>7, <2>1 DEF GateTimesOut
<1>8. CASE AskTimesOut
  <2>1. /\ build'.waits = "nothing" /\ build'.accepted = build.accepted
    <3>1. HasAnswer(build', "ask", "no answer", {}) BY <1>t, <1>8, GivenFacts DEF AskTimesOut
    <3> QED BY <1>8, <3>1 DEF HasAnswer, AskTimesOut
  <2>2. process'.entries = process.entries \ {"ask"} BY <1>8, <1>p DEF AskTimesOut, Closed
  <2>3. build.waits = "ask" BY <1>8 DEF AskTimesOut
  <2> QED BY <2>1, <2>2, <2>3
<1>9. CASE TabGoes
  <2>1. process'.entries = {} BY <1>9, <1>p DEF TabGoes
  <2>2. CASE build.waits \in process.entries
    <3>1. build.waits \in {"gate", "ask"} BY <1>t, <2>2
    <3>2. /\ build'.waits = "nothing" /\ build'.accepted = build.accepted
          /\ build.waits # "ask" => build'.got.ask = build.got.ask
      <4>1. HasAnswer(build', build.waits, "no answer", {})
        BY <1>t, <1>9, <2>2, <3>1, GivenFacts DEF TabGoes
      <4> QED BY <3>1, <4>1 DEF HasAnswer
    <3> QED BY <2>1, <3>2
  <2>3. CASE build.waits \notin process.entries
    <3>1. build' = build BY <1>9, <2>3 DEF TabGoes
    <3> QED BY <2>1, <3>1
  <2> QED BY <2>2, <2>3
<1>10. CASE TabComes BY <1>10, <1>s DEF TabComes
<1>w. build.at \notin {"gate", "generate"} => build.waits = "nothing" BY <1>t DEF IsBuild
<1>11. CASE BeginOther
  <2>1. build'.waits = "nothing" /\ build'.accepted = {}
    BY <1>11 DEF BeginOther, Starting, NoBuild
  <2> QED BY <1>11, <1>n, <1>w, <2>1 DEF BeginOther
<1>12. CASE BeginFullstack
  <2>1. /\ build'.accepted = {}
        /\ build'.waits = "nothing" \/ (build'.waits = "gate" /\ build'.at = "gate")
    <3>1. PICK creds \in Read(previewCreds) :
            \/ build' = [Starting("fullstack", "gate") EXCEPT !.waits = "gate"]
            \/ build' = [Starting("fullstack", "generate") EXCEPT !.own = creds # Nowhere]
      BY <1>12 DEF BeginFullstack
    <3> QED BY <3>1 DEF Starting, NoBuild
  <2>2. process'.entries \subseteq process.entries \cup {"gate"}
    BY <1>12, <1>p DEF BeginFullstack
  <2> QED BY <1>12, <1>n, <1>w, <2>1, <2>2 DEF BeginFullstack
<1>13. CASE GateEnds
  <2>1. /\ build'.waits = build.waits /\ build'.got = build.got
        /\ build'.accepted = build.accepted /\ build.waits = "nothing"
    BY <1>t, <1>13 DEF GateEnds, Move, IsBuild
  <2>2. process'.entries = process.entries BY <1>13, <1>p DEF GateEnds
  <2> QED BY <1>m, <2>1, <2>2
<1>14. CASE AskUser
  <2>1. /\ build'.at = "generate" /\ build'.waits = "ask"
        /\ build'.accepted = {a \in build.accepted : a[1] # "ask"}
    BY <1>t, <1>14 DEF AskUser, BuildAt, IsBuild
  <2>2. \A words : <<"ask", words>> \notin build'.accepted BY <2>1
  <2> QED BY <2>1, <2>2
<1>v. ASSUME NEW place, build' = Move(place), build.waits = "nothing", process' = process
      PROVE  Waiting' /\ Asking'
  BY <1>m, <1>t, <1>v, MoveFacts
<1>15. CASE Generate BY <1>15, <1>v DEF Generate
<1>16. CASE RepairSchema BY <1>16, <1>v, <1>w DEF RepairSchema, BuildAt
<1>17. CASE SchemaStands BY <1>17, <1>v, <1>w DEF SchemaStands, BuildAt
<1>18. CASE ApplySkipped BY <1>18, <1>v, <1>w DEF ApplySkipped, BuildAt
<1>19. CASE ApplySent
  <2>1. build'.waits = build.waits /\ build'.got = build.got /\ build'.accepted = build.accepted
    BY <1>t, <1>19 DEF ApplySent, Move, IsBuild
  <2> QED BY <1>19, <1>m, <1>w, <2>1 DEF ApplySent, BuildAt
<1>20. CASE Lands
  <2>1. /\ build'.waits = build.waits /\ build'.got = build.got /\ build'.accepted = build.accepted
        /\ build' # build => BuildAt("applying")
    BY <1>t, <1>20 DEF Lands, Move, IsBuild
  <2>2. CASE build' = build BY <1>20, <1>s, <2>2 DEF Lands
  <2>3. CASE build' # build BY <1>20, <1>m, <1>w, <2>1, <2>3 DEF Lands, BuildAt
  <2> QED BY <2>2, <2>3
<1>21. CASE Refuses
  <2>1. /\ build'.waits = build.waits /\ build'.got = build.got /\ build'.accepted = build.accepted
        /\ build' # build => BuildAt("applying")
    BY <1>t, <1>21 DEF Refuses, Move, IsBuild
  <2>2. CASE build' = build BY <1>21, <1>s, <2>2 DEF Refuses
  <2>3. CASE build' # build BY <1>21, <1>m, <1>w, <2>1, <2>3 DEF Refuses, BuildAt
  <2> QED BY <2>2, <2>3
<1>22. CASE ApplyTimesOut
  <2>1. build'.waits = build.waits /\ build'.got = build.got /\ build'.accepted = build.accepted
    BY <1>t, <1>22 DEF ApplyTimesOut, Move, IsBuild
  <2> QED BY <1>22, <1>m, <1>w, <2>1 DEF ApplyTimesOut, BuildAt
<1>23. CASE LaterRepair BY <1>23, <1>v, <1>w DEF LaterRepair, BuildAt
<1>24. CASE Finish
  <2>1. build'.waits = build.waits /\ build'.got = build.got /\ build'.accepted = build.accepted
    BY <1>t, <1>24 DEF Finish, Move, IsBuild
  <2> QED BY <1>24, <1>m, <1>w, <2>1 DEF Finish
<1>25. CASE Restart
  <2>1. build'.waits = "nothing" /\ build'.accepted = {} BY <1>25 DEF Restart, NoBuild
  <2> QED BY <1>25, <1>n, <2>1 DEF Restart, Remembers
<1> QED BY <1>1, <1>2, <1>3, <1>4, <1>5, <1>6, <1>7, <1>8, <1>9, <1>10, <1>11, <1>12, <1>13,
           <1>14, <1>15, <1>16, <1>17, <1>18, <1>19, <1>20, <1>21, <1>22, <1>23, <1>24, <1>25
        DEF DatabaseNext

(***************************************************************************)
(* Every step keeps the schema, the migration and the words together: a    *)
(* migration that lands late changes the tables but not what was said.     *)
(***************************************************************************)
LEMMA MigratedStep ==
  ASSUME DatabaseTyped, Migrated, ToldOnce, DatabaseNext
  PROVE  Migrated' /\ ToldOnce'
<1>t. IsBuild(build) /\ IsBuild(build') BY DatabaseTypeStep DEF DatabaseTyped
<1>b. /\ build.schema.ran \in BOOLEAN /\ build.schema.ok \in BOOLEAN
      /\ build'.schema.ran \in BOOLEAN /\ build'.schema.ok \in BOOLEAN
  BY <1>t DEF IsBuild
<1>o. NotRun.ran = FALSE /\ NotRun.ok = TRUE BY DEF NotRun
<1> USE DEF Migrated, ToldOnce, Made, NoneToUse
<1>s. ASSUME build'.at = build.at, build'.schema = build.schema, build'.sent = build.sent,
             build'.said = build.said, UNCHANGED <<tables, flight>>
      PROVE  Migrated' /\ ToldOnce'
  BY <1>s
\* From a place before the schema is run to another.
<1>e. ASSUME build.at \in BeforeApply, build'.at \in BeforeApply \cup {"repairs", "close"},
             build'.schema = build.schema, build'.sent = build.sent,
             build'.said \cap (Made \cup {NoneToUse}) = build.said \cap (Made \cup {NoneToUse})
      PROVE  Migrated' /\ ToldOnce'
  <2>1. build.schema = NotRun /\ build.sent = NotSent /\ build'.at \notin {"applying", "done"}
    BY <1>e DEF BeforeApply
  <2> QED BY <1>e, <1>o, <2>1 DEF BeforeApply
\* A build that starts, or none.
<1>n. ASSUME build'.at \in BeforeApply, build'.schema = NotRun, build'.sent = NotSent,
             build'.said = {}
      PROVE  Migrated' /\ ToldOnce'
  <2>1. build'.at \notin {"applying", "done"} BY <1>n DEF BeforeApply
  <2> QED BY <1>n, <1>o, <2>1
<1>c. ASSUME NEW new, Changes(new) PROVE Migrated' /\ ToldOnce'
  BY <1>c, <1>s DEF Changes
<1>1. CASE ConnectServiceKey BY <1>1, <1>c DEF ConnectServiceKey
<1>2. CASE ConnectToken BY <1>2, <1>c DEF ConnectToken
<1>3. CASE ConnectOAuth BY <1>3, <1>c DEF ConnectOAuth
<1>4. CASE DisconnectSupabase BY <1>4, <1>c DEF DisconnectSupabase
<1>5. CASE DisconnectMcp BY <1>5, <1>c DEF DisconnectMcp
<1>g. ASSUME NEW question \in {"gate", "ask"}, NEW answer, NEW accepted,
             build' = Given(question, answer, accepted), UNCHANGED <<tables, flight>>
      PROVE  Migrated' /\ ToldOnce'
  <2>1. HasAnswer(build', question, answer, accepted) BY <1>g, <1>t, GivenFacts
  <2> QED BY <1>g, <1>s, <2>1 DEF HasAnswer
<1>q. process.entries \subseteq {"gate", "ask"} BY DEF DatabaseTyped
<1>6. CASE PersonAnswers BY <1>6, <1>g, <1>q DEF PersonAnswers
<1>7. CASE GateTimesOut BY <1>7, <1>g DEF GateTimesOut
<1>8. CASE AskTimesOut BY <1>8, <1>g DEF AskTimesOut
<1>9. CASE TabGoes
  <2>1. CASE build.waits \in process.entries
    <3>1. build.waits \in {"gate", "ask"} BY <1>q, <2>1
    <3>2. build' = Given(build.waits, "no answer", {}) BY <1>9, <2>1 DEF TabGoes
    <3>3. UNCHANGED <<tables, flight>> BY <1>9 DEF TabGoes
    <3> QED BY <1>g, <3>1, <3>2, <3>3
  <2>2. CASE build.waits \notin process.entries BY <1>9, <1>s, <2>2 DEF TabGoes
  <2> QED BY <2>1, <2>2
<1>10. CASE TabComes BY <1>10, <1>s DEF TabComes
<1>11. CASE BeginOther
  <2>1. /\ build'.at = "generate" /\ build'.schema = NotRun /\ build'.sent = NotSent
        /\ build'.said = {}
    BY <1>11 DEF BeginOther, Starting, NoBuild
  <2> QED BY <1>n, <2>1 DEF BeforeApply
<1>12. CASE BeginFullstack
  <2>1. PICK creds \in Read(previewCreds) :
          \/ build' = [Starting("fullstack", "gate") EXCEPT !.waits = "gate"]
          \/ build' = [Starting("fullstack", "generate") EXCEPT !.own = creds # Nowhere]
    BY <1>12 DEF BeginFullstack
  <2>2. /\ build'.at \in {"gate", "generate"} /\ build'.schema = NotRun
        /\ build'.sent = NotSent /\ build'.said = {}
    BY <2>1 DEF Starting, NoBuild
  <2> QED BY <1>n, <2>2 DEF BeforeApply
<1>13. CASE GateEnds
  <2>1. /\ build.at = "gate" /\ build'.at = "generate"
        /\ build'.schema = build.schema /\ build'.sent = build.sent
    BY <1>t, <1>13 DEF GateEnds, BuildAt, Move, IsBuild
  <2>2. build'.said \subseteq build.said \cup {"building without one", "could not see it"}
        /\ build.said \subseteq build'.said
    <3>1. PICK creds \in (IF build.got.gate = "connect" THEN Read(previewCreds) ELSE {Nowhere}) :
            build' = [Move("generate") EXCEPT
                        !.own  = creds # Nowhere,
                        !.said = @ \cup (IF build.got.gate = "no answer"
                                        THEN {"building without one"} ELSE {})
                                   \cup (IF build.got.gate = "connect" /\ creds = Nowhere
                                         THEN {"could not see it"} ELSE {})]
      BY <1>13 DEF GateEnds
    <3> DEFINE A == IF build.got.gate = "no answer" THEN {"building without one"} ELSE {}
               B == IF build.got.gate = "connect" /\ creds = Nowhere
                    THEN {"could not see it"} ELSE {}
               m == Move("generate")
    <3>2. build' = [m EXCEPT !.own = creds # Nowhere, !.said = m.said \cup A \cup B]
      BY <3>1
    <3>3. A \cup B \subseteq {"building without one", "could not see it"} OBVIOUS
    <3>4. "said" \in DOMAIN m /\ m.said = build.said BY <1>t DEF Move, IsBuild
    <3> HIDE DEF A, B, m
    <3>5. build'.said = build.said \cup A \cup B BY <3>2, <3>4
    <3> QED BY <3>3, <3>5
  <2>3. build'.said \cap (Made \cup {NoneToUse}) = build.said \cap (Made \cup {NoneToUse})
    BY <2>2
  <2> QED BY <1>e, <2>1, <2>3 DEF BeforeApply
<1>14. CASE AskUser
  <2>1. /\ build'.at = build.at /\ build'.schema = build.schema /\ build'.sent = build.sent
        /\ build'.said = build.said
    BY <1>t, <1>14 DEF AskUser, IsBuild
  <2> QED BY <1>14, <1>s, <2>1 DEF AskUser
<1>v. ASSUME NEW place \in BeforeApply \cup {"repairs", "close"}, build.at \in BeforeApply,
             build' = Move(place)
      PROVE  Migrated' /\ ToldOnce'
  BY <1>e, <1>t, <1>v, MoveFacts
<1>15. CASE Generate BY <1>15, <1>v DEF Generate, BuildAt, BeforeApply
<1>16. CASE RepairSchema BY <1>16, <1>v DEF RepairSchema, BuildAt, BeforeApply
<1>17. CASE SchemaStands BY <1>17, <1>v DEF SchemaStands, BuildAt, BeforeApply
<1>18. CASE ApplySkipped BY <1>18, <1>v DEF ApplySkipped, BuildAt, BeforeApply
<1>19. CASE ApplySent
  <2>1. PICK auth \in Read(mcpAuth) :
          IF auth = Nowhere
          THEN /\ build' = [Move("repairs") EXCEPT !.schema = [ran |-> FALSE, ok |-> FALSE]]
               /\ flight' = flight
          ELSE /\ flight' = [to |-> auth, what |-> app.declared]
               /\ build' = [Move("applying") EXCEPT !.sent = flight']
    BY <1>19 DEF ApplySent
  <2>2. build.at = "apply" BY <1>19 DEF ApplySent, BuildAt
  <2>3. CASE auth = Nowhere
    <3>1. build' = [Move("repairs") EXCEPT !.schema = [ran |-> FALSE, ok |-> FALSE]]
      BY <2>1, <2>3
    <3>2. RanSo(build', "repairs", FALSE, FALSE) BY <3>1, <1>t, RanFacts
    <3>3. build.sent = NotSent BY <2>2 DEF BeforeApply
    <3> QED BY <2>2, <3>2, <3>3 DEF BeforeApply, RanSo
  <2>4. CASE auth # Nowhere
    <3>1. build' = [Move("applying") EXCEPT !.sent = flight'] BY <2>1, <2>4
    <3>2. /\ build'.at = "applying" /\ build'.sent = flight' /\ build'.said = build.said
          /\ build'.schema = build.schema
      BY <3>1, <1>t DEF Move, IsBuild
    <3>3. build.schema = NotRun BY <2>2 DEF BeforeApply
    <3> QED BY <1>o, <2>2, <3>2, <3>3 DEF BeforeApply
  <2> QED BY <2>3, <2>4
\* The end of the wait for a migration.
<1>r. ASSUME BuildAt("applying"), NEW ok \in BOOLEAN,
             build' = [Move("repairs") EXCEPT !.schema = [ran |-> TRUE, ok |-> ok]],
             ok => build.sent.to \in Supabase /\ build.sent.what \subseteq tables'[build.sent.to]
      PROVE  Migrated' /\ ToldOnce'
  <2>1. RanSo(build', "repairs", TRUE, ok) BY <1>r, <1>t, RanFacts
  <2> QED BY <1>r, <2>1 DEF BeforeApply, BuildAt, RanSo
<1>20. CASE Lands
  <2>1. PICK heard \in BOOLEAN :
          build' = IF BuildAt("applying")
                   THEN [Move("repairs") EXCEPT !.schema = [ran |-> TRUE, ok |-> heard]]
                   ELSE build
    BY <1>20 DEF Lands
  <2>2. /\ flight.to \in Supabase
        /\ \A p \in Supabase : tables[p] \subseteq tables'[p]
        /\ flight.what \subseteq tables'[flight.to]
    BY <1>20 DEF Lands, DatabaseTyped
  <2>3. CASE BuildAt("applying")
    <3>1. build' = [Move("repairs") EXCEPT !.schema = [ran |-> TRUE, ok |-> heard]]
      BY <2>1, <2>3
    <3>2. flight = build.sent BY <2>3 DEF BuildAt
    <3> QED BY <1>r, <2>2, <2>3, <3>1, <3>2
  <2>4. CASE ~BuildAt("applying")
    <3>1. build' = build BY <2>1, <2>4
    <3>2. build.at # "applying" BY <2>4 DEF BuildAt
    <3> QED BY <2>2, <3>1, <3>2
  <2> QED BY <2>3, <2>4
<1>21. CASE Refuses
  <2>1. tables' = tables BY <1>21 DEF Refuses
  <2>2. CASE BuildAt("applying")
    <3>1. build' = [Move("repairs") EXCEPT !.schema = [ran |-> TRUE, ok |-> FALSE]]
      BY <1>21, <2>2 DEF Refuses
    <3> QED BY <1>r, <2>2, <3>1
  <2>3. CASE ~BuildAt("applying")
    <3>1. build' = build BY <1>21, <2>3 DEF Refuses
    <3>2. build.at # "applying" BY <2>3 DEF BuildAt
    <3> QED BY <2>1, <3>1, <3>2
  <2> QED BY <2>2, <2>3
<1>22. CASE ApplyTimesOut BY <1>22, <1>r DEF ApplyTimesOut
<1>l. ASSUME build'.at \in {"close", "done"}, build.at \in {"repairs", "close"},
             build'.schema = build.schema, build'.sent = build.sent, tables' = tables
      PROVE  Migrated'
  BY <1>l DEF BeforeApply
<1>23. CASE LaterRepair
  <2>1. /\ build.at = "repairs" /\ build'.at = "close" /\ build'.schema = build.schema
        /\ build'.sent = build.sent /\ build'.said = build.said
    BY <1>23, <1>t, MoveFacts DEF LaterRepair, BuildAt
  <2> QED BY <1>23, <1>l, <2>1 DEF LaterRepair
<1>24. CASE Finish
  <2>1. PICK signIn \in BOOLEAN :
          build' = [Move("done") EXCEPT !.said = @ \cup findDataLayerGaps \cup closingLines(signIn)]
    BY <1>24 DEF Finish
  <2>2. /\ build'.at = "done" /\ build'.schema = build.schema /\ build'.sent = build.sent
        /\ build'.said = build.said \cup findDataLayerGaps \cup closingLines(signIn)
    BY <1>t, <2>1 DEF Move, IsBuild
  <2>3. build.at \in {"repairs", "close"} /\ tables' = tables BY <1>24 DEF Finish
  <2>4. findDataLayerGaps \cap (Made \cup {NoneToUse}) = {} BY DEF findDataLayerGaps
  <2>5. build.said \cap (Made \cup {NoneToUse}) = {} BY <2>3
  <2>6. closingLines(signIn) \cap Made # {} => build.schema.ok BY <1>b DEF closingLines, real
  <2>7. NoneToUse \in closingLines(signIn) => ~build.schema.ran /\ ~build.schema.ok
    BY <1>b DEF closingLines, real
  <2>8. /\ build'.said \cap Made # {} => build.schema.ok
        /\ NoneToUse \in build'.said => ~build.schema.ran /\ ~build.schema.ok
    BY <2>2, <2>4, <2>5, <2>6, <2>7
  <2>9. Migrated' BY <1>l, <2>2, <2>3
  <2> QED BY <2>2, <2>8, <2>9
<1>25. CASE Restart
  <2>1. /\ build'.at = "idle" /\ build'.schema = NotRun /\ build'.sent = NotSent
        /\ build'.said = {}
    BY <1>25 DEF Restart, NoBuild
  <2> QED BY <1>n, <2>1 DEF BeforeApply
<1> QED BY <1>1, <1>2, <1>3, <1>4, <1>5, <1>6, <1>7, <1>8, <1>9, <1>10, <1>11, <1>12, <1>13,
           <1>14, <1>15, <1>16, <1>17, <1>18, <1>19, <1>20, <1>21, <1>22, <1>23, <1>24, <1>25
        DEF DatabaseNext

(***************************************************************************)
(* The invariant holds, whatever was stored at the start.                  *)
(***************************************************************************)
LEMMA DatabaseInvariant ==
  ASSUME NEW rows \in SUBSET Storable
  PROVE  DatabaseSpec(rows) => []DatabaseInv
<1>1. DatabaseStart(rows) => DatabaseInv
  <2> SUFFICES ASSUME DatabaseStart(rows) PROVE DatabaseInv OBVIOUS
  <2>1. DatabaseTyped
    BY DEF DatabaseStart, DatabaseTyped, Remembers, NoApp, NoBuild, IsBuild, NotRun, NotSent,
           Migration, Credential
  <2>2. /\ build.at = "idle" /\ build.waits = "nothing" /\ build.accepted = {}
        /\ build.schema = NotRun /\ build.sent = NotSent /\ build.said = {}
        /\ process.entries = {}
    BY DEF DatabaseStart, NoBuild, Remembers
  <2> QED BY <2>1, <2>2 DEF DatabaseInv, Waiting, Asking, Migrated, ToldOnce, BeforeApply, NotRun
<1>2. DatabaseInv /\ [DatabaseNext]_databaseVars => DatabaseInv'
  <2>1. ASSUME DatabaseInv, DatabaseNext PROVE DatabaseInv'
    BY <2>1, DatabaseTypeStep, AskingStep, MigratedStep DEF DatabaseInv
  <2>2. ASSUME DatabaseInv, UNCHANGED databaseVars PROVE DatabaseInv'
    BY <2>2 DEF databaseVars, DatabaseInv, DatabaseTyped, Waiting, Asking, Migrated, ToldOnce
  <2> QED BY <2>1, <2>2
<1> QED BY <1>1, <1>2, PTL DEF DatabaseSpec

(***************************************************************************)
(* Type correctness: a build waits for at most one question, and only      *)
(* where it asks one; what is stored names projects.                       *)
(***************************************************************************)
THEOREM DatabaseTypeCorrect ==
  ASSUME NEW rows \in SUBSET Storable
  PROVE  DatabaseSpec(rows) => []DatabaseTypeOK
<1>1. DatabaseInv => DatabaseTypeOK
  <2> SUFFICES ASSUME DatabaseInv PROVE DatabaseTypeOK OBVIOUS
  <2>1. stored.row.project \in Supabase \cup {Nowhere} /\ stored.mcp \in Credential
    BY DEF DatabaseInv, DatabaseTyped, Storable
  <2>2. build.waits \in {"nothing", "gate", "ask"} /\ process.entries \subseteq {"gate", "ask"}
    BY DEF DatabaseInv, DatabaseTyped, IsBuild
  <2> QED BY <2>1, <2>2 DEF DatabaseInv, Waiting, DatabaseTypeOK, Credential
<1> QED BY <1>1, DatabaseInvariant, PTL

(***************************************************************************)
(* What a build says of the app's database, and what it makes of an        *)
(* accepted answer, is what happened (build.ts, ask-user.ts, pending-      *)
(* answers.ts), for any projects, tables and numbers of builds, questions, *)
(* changes and restarts.                                                   *)
(***************************************************************************)
THEOREM DatabaseAsToldAlways ==
  ASSUME NEW rows \in SUBSET Storable
  PROVE  DatabaseSpec(rows) => []DatabaseAsTold
<1>1. DatabaseInv => TablesToldTruly
  BY DEF DatabaseInv, Migrated, ToldOnce, TablesToldTruly, Made, NoneToUse
<1>2. DatabaseInv => AcceptedIsUsed
  BY DEF DatabaseInv, Asking, AcceptedIsUsed
<1>3. DatabaseInv => DatabaseAsTold BY <1>1, <1>2 DEF DatabaseAsTold
<1> QED BY <1>3, DatabaseInvariant, PTL

-----------------------------------------------------------------------------
(***************************************************************************)
(* The tools of connected services (ServiceTools), whose writes wait in    *)
(* the same map of approvals, for any lists of tools, cap and services.    *)
(***************************************************************************)
\* The behaviours of the service tools, in a room that has them or not.
ToolsSpec(on) == ToolsStart(on) /\ [][ToolsNext]_toolVars

\* A request of a handler, a plan of requests, one of reads, and the tables of them.
RequestOK(r) ==
  /\ r.acts \in BOOLEAN /\ r.extra \in BOOLEAN
  /\ r.takes \subseteq {200, 201, 202}
  /\ r.failed \in {"error", "next", "partly"}
  /\ r.failed = "next" => r.acts = FALSE
PlanOK(plan) ==
  Len(plan) \in Nat \ {0} /\ \A i \in 1..Len(plan) : RequestOK(plan[i])
ReadPlan(plan) == PlanOK(plan) /\ \A i \in 1..Len(plan) : plan[i].acts = FALSE
WritesOK(handler) == \A action \in DOMAIN handler : PlanOK(handler[action])
ReadsOK(handler) == \A action \in DOMAIN handler : ReadPlan(handler[action])

(***************************************************************************)
(* The requests the handlers are made of take answers of 2xx only, and a   *)
(* request whose failure is passed over does nothing.                      *)
(***************************************************************************)
LEMMA RequestFacts ==
  /\ RequestOK(Get) /\ Get.acts = FALSE
  /\ RequestOK(Aside) /\ Aside.acts = FALSE
  /\ RequestOK(Maybe(Get))
  /\ \A codes \in SUBSET {200, 201, 202} :
       /\ RequestOK(Try(codes)) /\ RequestOK(Maybe(Try(codes)))
       /\ RequestOK(Maybe([Try(codes) EXCEPT !.failed = "partly"]))
BY DEF RequestOK, Get, Aside, Maybe, Try

(***************************************************************************)
(* Up to three requests make a plan.                                       *)
(***************************************************************************)
LEMMA PlanFacts ==
  /\ \A r : RequestOK(r) => PlanOK(<<r>>)
  /\ \A r, s : RequestOK(r) /\ RequestOK(s) => PlanOK(<<r, s>>)
  /\ \A r, s, t : RequestOK(r) /\ RequestOK(s) /\ RequestOK(t) => PlanOK(<<r, s, t>>)
BY DEF PlanOK

(***************************************************************************)
(* The plans of the queries do nothing to a service.                       *)
(***************************************************************************)
LEMMA ReadPlanFacts ==
  ReadPlan(<<Get>>) /\ ReadPlan(<<Get, Aside>>) /\ ReadPlan(<<Get, Aside, Aside>>)
BY RequestFacts, PlanFacts DEF ReadPlan

(***************************************************************************)
(* Two tables of handlers make one.                                        *)
(***************************************************************************)
LEMMA BothFacts ==
  ASSUME NEW f, NEW g
  PROVE  /\ WritesOK(f) /\ WritesOK(g) => WritesOK(Both(f, g))
         /\ ReadsOK(f) /\ ReadsOK(g) => ReadsOK(Both(f, g))
BY DEF Both, WritesOK, ReadsOK

(***************************************************************************)
(* Every query of every service without a server reads (the *-query.ts     *)
(* handlers).                                                              *)
(***************************************************************************)
LEMMA QueriesRead ==
  ASSUME NEW slug \in DOMAIN Queries PROVE ReadsOK(Queries[slug])
<1> USE ReadPlanFacts DEF ReadsOK
<1>1. ReadsOK(shopifyQueryHandler) BY DEF shopifyQueryHandler
<1>2. ReadsOK(wordpressQueryHandler) BY DEF wordpressQueryHandler
<1>3. ReadsOK(twilioQueryHandler) BY DEF twilioQueryHandler
<1>4. ReadsOK(sendgridQueryHandler) BY DEF sendgridQueryHandler
<1>5. ReadsOK(mailchimpQueryHandler) BY DEF mailchimpQueryHandler
<1>6. ReadsOK(netlifyQueryHandler) BY DEF netlifyQueryHandler
<1>7. ReadsOK(supabaseQueryHandler) BY DEF supabaseQueryHandler
<1>8. ReadsOK(vercelQueryHandler) BY DEF vercelQueryHandler
<1>9. ReadsOK(githubQueryHandler)
  <2>1. ReadsOK(githubRepos) BY DEF githubRepos
  <2>2. ReadsOK(githubIssues) BY DEF githubIssues
  <2>3. ReadsOK(githubPulls) BY DEF githubPulls
  <2>4. ReadsOK(githubRuns) BY DEF githubRuns
  <2> QED BY <2>1, <2>2, <2>3, <2>4, BothFacts DEF githubQueryHandler
<1> HIDE DEF ReadsOK
<1> QED BY <1>1, <1>2, <1>3, <1>4, <1>5, <1>6, <1>7, <1>8, <1>9 DEF Queries

(***************************************************************************)
(* Every write of these services, one request or several, is a plan (the   *)
(* *-writes.ts, rest-*.ts and github handlers).                            *)
(***************************************************************************)
LEMMA WritesFollowPlans ==
  ASSUME NEW slug \in DOMAIN Writes PROVE WritesOK(Writes[slug])
<1>t. \A codes \in SUBSET {200, 201, 202} : PlanOK(<<Try(codes)>>)
  <2> SUFFICES ASSUME NEW codes \in SUBSET {200, 201, 202} PROVE PlanOK(<<Try(codes)>>) OBVIOUS
  <2>1. RequestOK(Try(codes)) BY RequestFacts
  <2> QED BY <2>1, PlanFacts
<1>c. /\ {200} \in SUBSET {200, 201, 202} /\ {201} \in SUBSET {200, 201, 202}
      /\ {202} \in SUBSET {200, 201, 202} /\ {200, 201} \in SUBSET {200, 201, 202}
      /\ {200, 201, 202} \in SUBSET {200, 201, 202}
  OBVIOUS
<1>p. /\ PlanOK(<<Try({200})>>) /\ PlanOK(<<Try({201})>>) /\ PlanOK(<<Try({202})>>)
      /\ PlanOK(<<Try({200, 201})>>) /\ PlanOK(<<Try({200, 201, 202})>>)
  BY <1>t, <1>c
<1>q. /\ PlanOK(<<Try({200}), Maybe([Try({200}) EXCEPT !.failed = "partly"])>>)
      /\ PlanOK(<<Maybe(Try({201})), Try({200})>>)
      /\ PlanOK(<<Get, Maybe(Get), Try({201})>>)
  <2>1. ASSUME NEW codes \in SUBSET {200, 201, 202}
        PROVE  /\ RequestOK(Try(codes)) /\ RequestOK(Maybe(Try(codes)))
               /\ RequestOK(Maybe([Try(codes) EXCEPT !.failed = "partly"]))
    BY RequestFacts
  <2>2. RequestOK(Get) /\ RequestOK(Maybe(Get)) BY RequestFacts
  <2>3. RequestOK(Try({200})) /\ RequestOK(Try({201})) BY <1>c, <2>1
  <2>4. RequestOK(Maybe(Try({201}))) BY <1>c, <2>1
  <2>5. RequestOK(Maybe([Try({200}) EXCEPT !.failed = "partly"])) BY <1>c, <2>1
  <2>6. PlanOK(<<Try({200}), Maybe([Try({200}) EXCEPT !.failed = "partly"])>>)
    BY <2>3, <2>5, PlanFacts
  <2>7. PlanOK(<<Maybe(Try({201})), Try({200})>>) BY <2>3, <2>4, PlanFacts
  <2>8. PlanOK(<<Get, Maybe(Get), Try({201})>>) BY <2>2, <2>3, PlanFacts
  <2> QED BY <2>6, <2>7, <2>8
<1> USE <1>p, <1>q DEF WritesOK
<1>1. WritesOK(shopifyWriteHandler) BY DEF shopifyWriteHandler
<1>2. WritesOK(wordpressWriteHandler) BY DEF wordpressWriteHandler
<1>3. WritesOK(twilioWriteHandler) BY DEF twilioWriteHandler
<1>4. WritesOK(sendgridWriteHandler) BY DEF sendgridWriteHandler
<1>5. WritesOK(mailchimpWriteHandler) BY DEF mailchimpWriteHandler
<1>6. WritesOK(githubWriteHandler) BY DEF githubWriteHandler
<1>7. WritesOK(githubMergeHandler) BY DEF githubMergeHandler
<1>8. WritesOK(vercelWriteHandler) BY DEF vercelWriteHandler
<1>9. WritesOK(Both(githubWriteHandler, githubMergeHandler)) BY <1>6, <1>7, BothFacts
<1> HIDE DEF WritesOK
<1>10. \A s \in DOMAIN RestWrites : WritesOK(RestWrites[s])
  BY <1>1, <1>2, <1>3, <1>4, <1>5 DEF RestWrites
<1>11. \A s \in DOMAIN GithubWrites : WritesOK(GithubWrites[s]) BY <1>9 DEF GithubWrites
<1>12. \A s \in DOMAIN VercelWrites : WritesOK(VercelWrites[s]) BY <1>8 DEF VercelWrites
<1> QED BY <1>10, <1>11, <1>12 DEF Writes, Both

(***************************************************************************)
(* The classification of a list: each tool is a read or a write and not    *)
(* both, and a read is none the server calls destructive and has the name  *)
(* of one, or the capability (mcp-tool-classifier.ts, tiers.ts).           *)
(***************************************************************************)
LEMMA ReadToolsFacts ==
  ASSUME NEW tools \in SUBSET Tool
  PROVE  /\ ReadTools(tools) \subseteq tools /\ WriteTools(tools) \subseteq tools
         /\ ReadTools(tools) \cup WriteTools(tools) = tools
         /\ ReadTools(tools) \cap WriteTools(tools) = {}
         /\ \A t \in ReadTools(tools) :
              t.hint # "destructive" /\ (t.name = "reads" \/ t.capability = "repo.read")
<1>1. \A t \in Tool : Classify(t) \in ReadReasons =>
        /\ t.hint # "destructive" /\ t.name = "reads"
        /\ t.capability \in {"none", "repo.read"}
  BY ToolsAssumption DEF Classify, ReadReasons, destructiveByName
<1>2. \A t \in Tool : t.name = "reads" /\ t.capability \in {"none", "repo.read"} =>
        LET mapped == IF t.capability = "none" THEN "read" ELSE tierFor(t)
            named  == IF destructiveByName(t) THEN "strong" ELSE "read"
        IN  ~needsApproval(strongestTier(mapped, named))
  BY DEF tierFor, destructiveByName, strongestTier, needsApproval
<1>3. \A t \in tools : t \in ReadTools(tools) <=> Classify(t) \in ReadReasons
  BY <1>1, <1>2 DEF ReadTools
<1> QED BY <1>1, <1>3 DEF ReadTools, WriteTools

(***************************************************************************)
(* A tool of a server is none of those without a server.                   *)
(***************************************************************************)
LEMMA LocalFacts ==
  /\ \A t \in Tool : ~IsLocal(t)
  /\ \A slug : /\ IsLocal(LocalQuery(slug)) /\ IsLocal(LocalWrite(slug))
               /\ LocalQuery(slug).kind = "query" /\ LocalQuery(slug).local = slug
               /\ LocalWrite(slug).kind = "write" /\ LocalWrite(slug).local = slug
<1>1. \A t \in Tool : DOMAIN t = {"name", "hint", "capability", "safe", "mentioned"}
  BY ToolsAssumption
<1> QED BY <1>1 DEF IsLocal, LocalQuery, LocalWrite

\* A tool call is a record of its fields.
IsToolCall(c) ==
  c = [at |-> c.at, tool |-> c.tool, action |-> c.action, complete |-> c.complete,
       extra |-> c.extra, step |-> c.step, asked |-> c.asked, did |-> c.did, reply |-> c.reply]

\* What a call may be of, and what its requests are then.
Callable(tool, action) ==
  \/ tool \in Tool /\ action = "none"
  \/ account.slug \in DOMAIN Queries /\ tool = LocalQuery(account.slug)
     /\ action \in DOMAIN Queries[account.slug]
  \/ account.slug \in DOMAIN Writes /\ tool = LocalWrite(account.slug)
     /\ action \in DOMAIN Writes[account.slug]

\* Lists, registries and offer of a dispatch agree.
Registered ==
  /\ discovered \subseteq Tool /\ server \subseteq Tool
  /\ registry.reads = ReadTools(discovered)
  /\ registry.writes \subseteq WriteTools(discovered) \cup {LocalWrite(account.slug)}
  /\ WriteTools(discovered) \subseteq registry.writes
  /\ round.at = "model" => account.slug \in DOMAIN Queries
  /\ round.at # "model" => call = NoCall
  /\ \A t \in offered :
       t \in registry.reads \cup registry.writes \/ (IsLocal(t) /\ t.kind = "query")

\* A call that runs unasked is of a query or a read.
Unasked(tool) ==
  \/ tool = LocalQuery(account.slug)
  \/ tool \in ReadTools(discovered)

\* What is asked for, of the first requests.
DoneBefore(c, last) ==
  \A i \in 1..last : Requests(c)[i].acts /\ (Requests(c)[i].extra => c.extra) => i \in c.did

\* What was done so far is what the requests up to the current one ask for.
CallHolds ==
  /\ IsToolCall(call)
  /\ call.at \in {"idle", "asking", "sending", "told"}
  /\ call.at # "idle" => Callable(call.tool, call.action)
  /\ call.at = "asking" => call.did = {}
  /\ call.at = "sending" =>
       /\ call.step \in 1..Len(Requests(call))
       /\ DoneBefore(call, call.step - 1)
       /\ call.asked = FALSE => Unasked(call.tool)
  /\ call.at = "told" =>
       /\ call.reply = "done" => DoneBefore(call, Len(Requests(call)))
       /\ call.reply \notin {"done", "partly", "error", "threw"} => call.did = {}

\* The inductive invariant of the service tools.
ToolsInv == Registered /\ CallHolds

(***************************************************************************)
(* What a call asks for is a plan, and one that reads when it is a query.  *)
(***************************************************************************)
LEMMA CallableFacts ==
  ASSUME NEW c, Callable(c.tool, c.action)
  PROVE  PlanOK(Requests(c)) /\ (c.tool = LocalQuery(account.slug) => ReadPlan(Requests(c)))
<1>1. CASE c.tool \in Tool
  <2>1. Requests(c) = <<Try({200})>> /\ c.tool # LocalQuery(account.slug)
    BY <1>1, LocalFacts DEF Requests
  <2>2. RequestOK(Try({200})) BY RequestFacts
  <2> QED BY <2>1, <2>2, PlanFacts
<1>2. CASE /\ account.slug \in DOMAIN Queries /\ c.tool = LocalQuery(account.slug)
           /\ c.action \in DOMAIN Queries[account.slug]
  <2>1. Requests(c) = Queries[account.slug][c.action]
    BY <1>2, LocalFacts DEF Requests, HandlerOf
  <2> QED BY <1>2, <2>1, QueriesRead DEF ReadsOK, ReadPlan
<1>3. CASE /\ account.slug \in DOMAIN Writes /\ c.tool = LocalWrite(account.slug)
           /\ c.action \in DOMAIN Writes[account.slug]
  <2>1. Requests(c) = Writes[account.slug][c.action] /\ c.tool # LocalQuery(account.slug)
    BY <1>3, LocalFacts DEF Requests, HandlerOf
  <2> QED BY <1>3, <2>1, WritesFollowPlans DEF WritesOK
<1> QED BY <1>1, <1>2, <1>3 DEF Callable

(***************************************************************************)
(* The requests of a call are those of its tool and action.                *)
(***************************************************************************)
LEMMA SameRequests ==
  ASSUME NEW c, NEW d, d.tool = c.tool, d.action = c.action PROVE Requests(d) = Requests(c)
BY DEF Requests

\* A call that has not asked the service for anything yet.
Unsent(c) == IsToolCall(c) /\ Callable(c.tool, c.action) /\ c.did = {}

(***************************************************************************)
(* An answer leaves the rest of the call as it was.                        *)
(***************************************************************************)
LEMMA ToldFacts ==
  ASSUME NEW c, IsToolCall(c), NEW reply, NEW d, d = Told(c, reply)
  PROVE  /\ IsToolCall(d) /\ d.at = "told" /\ d.reply = reply /\ d.tool = c.tool
         /\ d.action = c.action /\ d.extra = c.extra /\ d.did = c.did
BY DEF Told, IsToolCall

\* c calls an action of a tool, with some arguments or others.
Calls(c, tool, action) == \E complete, extra : c = Called(tool, action, complete, extra)

(***************************************************************************)
(* A call that begins has done nothing, and nobody was asked.              *)
(***************************************************************************)
LEMMA NewCall ==
  ASSUME NEW tool, NEW action, NEW c, Calls(c, tool, action)
  PROVE  /\ IsToolCall(c) /\ c.tool = tool /\ c.action = action /\ c.did = {}
         /\ c.asked = FALSE
BY DEF Calls, Called, NoCall, IsToolCall

(***************************************************************************)
(* The approval leaves the rest of the call as it was.                     *)
(***************************************************************************)
LEMMA CallAsked ==
  ASSUME NEW c, IsToolCall(c), NEW d, d = [c EXCEPT !.asked = TRUE]
  PROVE  /\ IsToolCall(d) /\ d.tool = c.tool /\ d.action = c.action
         /\ d.did = c.did /\ d.asked = TRUE
<1>1. /\ d.at = c.at /\ d.tool = c.tool /\ d.action = c.action /\ d.complete = c.complete
      /\ d.extra = c.extra /\ d.step = c.step /\ d.asked = TRUE /\ d.did = c.did
      /\ d.reply = c.reply
  BY DEF IsToolCall
<1>2. d = [at |-> d.at, tool |-> d.tool, action |-> d.action, complete |-> d.complete,
           extra |-> d.extra, step |-> d.step, asked |-> d.asked, did |-> d.did,
           reply |-> d.reply]
  BY <1>1 DEF IsToolCall
<1> QED BY <1>1, <1>2 DEF IsToolCall

(***************************************************************************)
(* A call that is answered keeps the invariant when the answer is true of  *)
(* it.                                                                     *)
(***************************************************************************)
LEMMA CallTold ==
  ASSUME NEW c, IsToolCall(c), Callable(c.tool, c.action), NEW reply, UNCHANGED account,
         call' = Told(c, reply), reply = "done" => DoneBefore(c, Len(Requests(c))),
         reply \notin {"done", "partly", "error", "threw"} => c.did = {}
  PROVE  CallHolds'
<1>1. /\ IsToolCall(call') /\ call'.at = "told" /\ call'.reply = reply /\ call'.tool = c.tool
      /\ call'.action = c.action /\ call'.extra = c.extra /\ call'.did = c.did
  BY ToldFacts
<1>2. Requests(call') = Requests(c) BY <1>1, SameRequests
<1>3. Requests(call)' = Requests(call') BY DEF Requests, HandlerOf
<1>4. Callable(call.tool, call.action)' BY <1>1 DEF Callable
<1>5. reply = "done" => DoneBefore(call, Len(Requests(call)))'
  BY <1>1, <1>2, <1>3 DEF DoneBefore
<1> QED BY <1>1, <1>4, <1>5 DEF CallHolds

(***************************************************************************)
(* A call that begins keeps the invariant when it was asked for, or reads; *)
(* one that lacks something is answered before any request.                *)
(***************************************************************************)
LEMMA CallBegun ==
  ASSUME NEW c, Unsent(c), UNCHANGED <<account, discovered>>, call' = Begun(c),
         c.asked = FALSE => Unasked(c.tool)
  PROVE  CallHolds'
<1>1. CASE Missing(c) = "none"
  <2>1. call' = [c EXCEPT !.at = "sending", !.step = 1] BY <1>1 DEF Begun
  <2>2. /\ IsToolCall(call') /\ call'.at = "sending" /\ call'.tool = c.tool /\ call'.step = 1
        /\ call'.action = c.action /\ call'.asked = c.asked
    BY <2>1 DEF Unsent, IsToolCall
  <2>3. Requests(call') = Requests(c) BY <2>2, SameRequests
  <2>4. Requests(call)' = Requests(call') BY DEF Requests, HandlerOf
  <2>5. call'.step \in 1..Len(Requests(call))'
    BY <2>2, <2>3, <2>4, CallableFacts DEF Unsent, PlanOK
  <2>6. Callable(call.tool, call.action)' BY <2>2 DEF Unsent, Callable
  <2>7. DoneBefore(call, call.step - 1)' BY <2>2 DEF DoneBefore
  <2>8. call'.asked = FALSE => Unasked(call.tool)' BY <2>2 DEF Unasked
  <2> QED BY <2>2, <2>5, <2>6, <2>7, <2>8 DEF CallHolds
<1>2. CASE Missing(c) # "none"
  <2>1. call' = Told(c, Missing(c)) BY <1>2 DEF Begun
  <2>2. Missing(c) # "done" BY DEF Missing
  <2> QED BY <2>1, <2>2, CallTold DEF Unsent
<1> QED BY <1>1, <1>2

(***************************************************************************)
(* After a request, acted on or not and answered or not: the call goes on, *)
(* or its reply is true.                                                   *)
(***************************************************************************)
LEMMA AfterSending ==
  ASSUME CallHolds, call.at = "sending", NEW e, UNCHANGED <<account, discovered>>,
         e.acted \in BOOLEAN,
         e.status \in {200, 201, 202} => (e.acted = TRUE <=> Requests(call)[call.step].acts = TRUE),
         call' = AfterRequest(call, e)
  PROVE  CallHolds'
<1> DEFINE plan == Requests(call)
           r == plan[call.step]
           did == IF e.acted THEN call.did \cup {call.step} ELSE call.did
           done == [call EXCEPT !.did = did]
<1>1. /\ IsToolCall(call) /\ Callable(call.tool, call.action) /\ PlanOK(plan)
      /\ call.step \in 1..Len(plan) /\ DoneBefore(call, call.step - 1)
      /\ call.asked = FALSE => Unasked(call.tool)
  BY CallableFacts DEF CallHolds
<1>2. RequestOK(r) BY <1>1 DEF PlanOK
<1> HIDE DEF did
<1>d. IsToolCall(call) BY <1>1
<1>3. /\ IsToolCall(done) /\ done.tool = call.tool /\ done.action = call.action
      /\ done.at = "sending" /\ done.step = call.step /\ done.asked = call.asked
      /\ done.extra = call.extra
      /\ done.did = did
  <2>1. /\ done.tool = call.tool /\ done.action = call.action
        /\ done.at = call.at /\ done.step = call.step /\ done.asked = call.asked
        /\ done.extra = call.extra /\ done.complete = call.complete
        /\ done.reply = call.reply /\ done.did = did
    BY <1>d DEF IsToolCall
  <2>2. done = [at |-> done.at, tool |-> done.tool, action |-> done.action,
                complete |-> done.complete, extra |-> done.extra, step |-> done.step,
                asked |-> done.asked, did |-> done.did, reply |-> done.reply]
    BY <1>d, <2>1 DEF IsToolCall
  <2> HIDE DEF done
  <2> QED BY <2>1, <2>2 DEF IsToolCall
<1>4. Requests(done) = plan BY <1>3, SameRequests
<1>5. \/ call' = Told(done, "done") /\ call.step = Len(plan)
         /\ (Accepted(r, e.status) \/ r.failed = "next")
      \/ call' = [done EXCEPT !.step = done.step + 1] /\ call.step # Len(plan)
         /\ (Accepted(r, e.status) \/ r.failed = "next")
      \/ call' = Told(done, "threw") \/ call' = Told(done, "error")
      \/ call' = Told(done, r.failed) /\ r.failed # "next"
  <2>1. AfterRequest(call, e) =
          LET next == IF call.step = Len(plan) THEN Told(done, "done")
                      ELSE [done EXCEPT !.step = done.step + 1]
          IN  IF Accepted(r, e.status) THEN next
              ELSE IF e.status = 0 /\ ~r.acts
                   THEN Told(done, IF call.action = "create_branch" THEN "threw" ELSE "error")
              ELSE IF r.failed = "next" THEN next
              ELSE Told(done, r.failed)
    BY <1>1 DEF AfterRequest, IsToolCall, did
  <2> HIDE DEF plan, r, done
  <2> QED BY <2>1
<1> HIDE DEF done
<1>6. Accepted(r, e.status) \/ r.failed = "next" => DoneBefore(done, call.step)
  <2>1. Accepted(r, e.status) \/ r.failed = "next" => (r.acts = TRUE => call.step \in done.did)
    <3>1. Accepted(r, e.status) => e.status \in {200, 201, 202}
      BY <1>2 DEF Accepted, RequestOK
    <3>2. r.failed = "next" => r.acts = FALSE BY <1>2 DEF RequestOK
    <3> QED BY <1>3, <3>1, <3>2 DEF did
  <2>2. call.did \subseteq done.did BY <1>3 DEF did
  <2>3. \A i \in 1..call.step : i \in 1..(call.step - 1) \/ i = call.step BY <1>1 DEF PlanOK
  <2>4. r.acts \in BOOLEAN BY <1>2 DEF RequestOK
  <2> QED BY <1>1, <1>3, <1>4, <2>1, <2>2, <2>3, <2>4 DEF DoneBefore
<1>7. Callable(done.tool, done.action) BY <1>1, <1>3
<1>8. CASE call' = Told(done, "done") /\ call.step = Len(plan)
           /\ (Accepted(r, e.status) \/ r.failed = "next")
  BY <1>3, <1>4, <1>6, <1>7, <1>8, CallTold
<1>9. CASE call' = [done EXCEPT !.step = done.step + 1] /\ call.step # Len(plan)
           /\ (Accepted(r, e.status) \/ r.failed = "next")
  <2>1. /\ IsToolCall(call') /\ call'.tool = call.tool /\ call'.action = call.action
        /\ call'.at = "sending" /\ call'.step = call.step + 1 /\ call'.asked = call.asked
        /\ call'.extra = done.extra /\ call'.did = done.did
    BY <1>3, <1>9 DEF IsToolCall
  <2>2. Requests(call') = plan BY <2>1, SameRequests
  <2>3. Requests(call)' = Requests(call') BY DEF Requests, HandlerOf
  <2>4. /\ call.step + 1 \in 1..Len(plan) /\ call'.step - 1 = call.step
    BY <1>1, <1>9, <2>1 DEF PlanOK
  <2>5. DoneBefore(call', call.step) BY <1>4, <1>6, <1>9, <2>1, <2>2 DEF DoneBefore
  <2>6. DoneBefore(call, call.step - 1)' BY <2>3, <2>4, <2>5 DEF DoneBefore
  <2>7. Callable(call.tool, call.action)' BY <1>1, <2>1 DEF Callable
  <2>8. call'.asked = FALSE => Unasked(call.tool)' BY <1>1, <2>1 DEF Unasked
  <2> QED BY <2>1, <2>2, <2>3, <2>4, <2>6, <2>7, <2>8 DEF CallHolds
<1>10. CASE call' = Told(done, "threw") BY <1>3, <1>7, <1>10, CallTold
<1>11. CASE call' = Told(done, "error") BY <1>3, <1>7, <1>11, CallTold
<1>12. CASE call' = Told(done, r.failed) /\ r.failed # "next"
  <2>1. r.failed \in {"error", "partly"} BY <1>2, <1>12 DEF RequestOK
  <2> QED BY <1>3, <1>7, <1>12, <2>1, CallTold
<1> QED BY <1>5, <1>8, <1>9, <1>10, <1>11, <1>12

(***************************************************************************)
(* A request is made, or one nobody asked for is left out.                 *)
(***************************************************************************)
LEMMA SendStep ==
  ASSUME CallHolds, Send PROVE CallHolds'
<1> DEFINE plan == Requests(call)
           r == plan[call.step]
<1>1. /\ IsToolCall(call) /\ Callable(call.tool, call.action) /\ PlanOK(plan)
      /\ call.at = "sending" /\ UNCHANGED <<account, discovered>>
      /\ call.step \in 1..Len(plan) /\ DoneBefore(call, call.step - 1)
      /\ call.asked = FALSE => Unasked(call.tool)
  BY CallableFacts DEF CallHolds, Send
<1>2. RequestOK(r) BY <1>1 DEF PlanOK
<1>3. CASE r.extra /\ ~call.extra
  <2>1. DoneBefore(call, call.step)
    <3>1. \A i \in 1..call.step : i \in 1..(call.step - 1) \/ i = call.step BY <1>1 DEF PlanOK
    <3> QED BY <1>1, <1>3, <3>1 DEF DoneBefore
  <2>2. CASE call.step = Len(plan)
    <3>1. call' = Told(call, "done") BY <1>3, <2>2 DEF Send
    <3> QED BY <1>1, <2>1, <2>2, <3>1, CallTold
  <2>3. CASE call.step # Len(plan)
    <3>1. call' = [call EXCEPT !.step = call.step + 1] BY <1>1, <1>3, <2>3 DEF Send, IsToolCall
    <3>2. /\ IsToolCall(call') /\ call'.tool = call.tool /\ call'.action = call.action
          /\ call'.at = "sending" /\ call'.step = call.step + 1 /\ call'.asked = call.asked
          /\ call'.extra = call.extra /\ call'.did = call.did
      BY <1>1, <3>1 DEF IsToolCall
    <3>3. Requests(call') = plan BY <3>2, SameRequests
    <3>4. Requests(call)' = Requests(call') BY DEF Requests, HandlerOf
    <3>5. call.step + 1 \in 1..Len(plan) /\ call'.step - 1 = call.step
      BY <1>1, <2>3, <3>2 DEF PlanOK
    <3>6. DoneBefore(call, call.step - 1)'
      BY <2>1, <3>2, <3>3, <3>4, <3>5 DEF DoneBefore
    <3>7. Callable(call.tool, call.action)' BY <1>1, <3>2 DEF Callable
    <3>8. call'.asked = FALSE => Unasked(call.tool)' BY <1>1, <3>2 DEF Unasked
    <3> QED BY <3>2, <3>3, <3>4, <3>5, <3>6, <3>7, <3>8 DEF CallHolds
  <2> QED BY <2>2, <2>3
<1>4. CASE ~(r.extra /\ ~call.extra)
  <2>1. PICK e \in Effects(r) : call' = AfterRequest(call, e) BY <1>4 DEF Send
  <2>2. e.acted \in BOOLEAN /\ (e.status \in {200, 201, 202} => (e.acted <=> r.acts))
    BY DEF Effects
  <2>3. e.status \in {200, 201, 202} => (e.acted = TRUE <=> r.acts = TRUE)
    BY <1>2, <2>2 DEF RequestOK
  <2> QED BY <1>1, <2>1, <2>2, <2>3, AfterSending
<1> QED BY <1>3, <1>4

(***************************************************************************)
(* A call that nothing touches keeps its invariant.                        *)
(***************************************************************************)
LEMMA CallKept ==
  ASSUME CallHolds, UNCHANGED <<account, discovered, call>> PROVE CallHolds'
BY DEF CallHolds, Callable, DoneBefore, Requests, HandlerOf, Unasked

(***************************************************************************)
(* The registries hold the list of the dispatch and no other, whatever the *)
(* server lists later; and what is offered can be called.                  *)
(***************************************************************************)
LEMMA RegisteredStep ==
  ASSUME ToolsInv, ToolsNext PROVE Registered'
<1>1. CASE Dispatch
  <2>1. PICK shelf \in Shelf, attached \in BOOLEAN, chat \in BOOLEAN, slug \in Local :
          \E creds \in credsFor(slug) :
            Prepare(shelf, IF attached THEN {t \in shelf : t.safe} ELSE {},
                    [slug |-> slug, creds |-> creds], chat)
    BY <1>1, Zenon DEF Dispatch
  <2> DEFINE tools == IF attached THEN {t \in shelf : t.safe} ELSE {}
  <2>8. PICK creds \in credsFor(slug) :
          Prepare(shelf, tools, [slug |-> slug, creds |-> creds], chat)
    BY <2>1, Zenon
  <2> DEFINE acc == [slug |-> slug, creds |-> creds]
             own == LocalWrites(acc)
  <2>2. shelf \subseteq Tool /\ tools \subseteq Tool BY ToolsAssumption
  <2>9. acc.slug = slug OBVIOUS
  <2> HIDE DEF tools, acc
  <2>3. own \subseteq {LocalWrite(slug)} BY <2>9 DEF LocalWrites
  <2>4. /\ server' = shelf /\ discovered' = tools /\ account'.slug = slug
        /\ registry'.reads = ReadTools(tools) /\ registry'.writes = WriteTools(tools) \cup own
        /\ offered' \subseteq ReadTools(tools) \cup {LocalQuery(slug)}
                              \cup WriteTools(tools) \cup own
    <3>1. Prepare(shelf, tools, acc, chat) BY <2>8 DEF acc
    <3>2. PICK r \in SUBSET tools, w \in SUBSET tools :
            /\ Capped(ReadTools(tools), r) /\ Capped(WriteTools(tools), w)
            /\ offered' = r \cup {LocalQuery(acc.slug)} \cup (IF chat THEN {} ELSE w \cup own)
      BY <3>1, Zenon DEF Prepare
    <3>3. r \subseteq ReadTools(tools) /\ w \subseteq WriteTools(tools) BY <3>2 DEF Capped
    <3> HIDE DEF own
    <3>4. offered' \subseteq ReadTools(tools) \cup {LocalQuery(slug)}
                             \cup WriteTools(tools) \cup own
      BY <2>9, <3>2, <3>3
    <3>5. /\ server' = shelf /\ discovered' = tools /\ account' = acc
          /\ registry' = [reads |-> ReadTools(tools), writes |-> WriteTools(tools) \cup own]
      BY <3>1, Zenon DEF Prepare, own
    <3> QED BY <2>9, <3>4, <3>5
  <2> HIDE DEF tools, own
  <2>5. slug \in DOMAIN Queries BY ToolsAssumption DEF Queries
  <2>6. call' = call /\ call = NoCall
    BY <1>1 DEF Dispatch, ToolsInv, Registered
  <2>7. \A t \in offered' : t \in registry'.reads \cup registry'.writes
                            \/ (IsLocal(t) /\ t.kind = "query")
    BY <2>4, LocalFacts
  <2> QED BY <2>2, <2>3, <2>4, <2>5, <2>6, <2>7 DEF Registered
<1>2. CASE Redescribe
  <2>1. server' \subseteq Tool BY <1>2, ToolsAssumption DEF Redescribe
  <2> QED BY <1>2, <2>1 DEF Redescribe, ToolsInv, Registered
<1>3. CASE NextRound
  BY <1>3 DEF NextRound, ToolsInv, Registered
<1>4. CASE executeTool BY <1>4 DEF executeTool, ToolsInv, Registered
<1>5. CASE Approve
  BY <1>5 DEF Approve, ToolsInv, Registered, NoCall
<1>6. CASE DenyWrite BY <1>6 DEF DenyWrite, ToolsInv, Registered, NoCall
<1>7. CASE Send BY <1>7 DEF Send, ToolsInv, Registered, NoCall
<1>8. CASE Reply BY <1>8 DEF Reply, ToolsInv, Registered
<1> QED BY <1>1, <1>2, <1>3, <1>4, <1>5, <1>6, <1>7, <1>8 DEF ToolsNext

(***************************************************************************)
(* Every step keeps the invariant of the call.                             *)
(***************************************************************************)
LEMMA ToolCallStep ==
  ASSUME ToolsInv, ToolsNext PROVE CallHolds'
<1> USE DEF ToolsInv
<1>1. CASE Dispatch
  <2>1. call' = call /\ call.at = "idle" BY <1>1 DEF Dispatch, Registered, NoCall
  <2> QED BY <2>1 DEF CallHolds
<1>2. CASE Redescribe BY <1>2, CallKept DEF Redescribe
<1>3. CASE NextRound BY <1>3, CallKept DEF NextRound
<1>4. CASE executeTool
  <2> DEFINE callable == server \cup discovered \cup {LocalQuery(account.slug)} \cup
               (IF account.slug \in DOMAIN Writes THEN {LocalWrite(account.slug)} ELSE {})
             actions(tool) == IF IsLocal(tool) THEN DOMAIN HandlerOf(tool) ELSE {"none"}
  <2>1. PICK tool \in callable : \E action \in actions(tool) :
          \E complete, extra \in BOOLEAN :
             call' = Dispatched(Called(tool, action, complete, extra))
    BY <1>4, Zenon DEF executeTool
  <2>11. PICK action \in actions(tool) : \E complete, extra \in BOOLEAN :
           call' = Dispatched(Called(tool, action, complete, extra))
    BY <2>1, Zenon
  <2>12. PICK c : Calls(c, tool, action) /\ call' = Dispatched(c)
    BY <2>11, Zenon DEF Calls
  <2>2. /\ IsToolCall(c) /\ c.tool = tool /\ c.action = action /\ c.did = {} /\ c.asked = FALSE
    BY <2>12, NewCall
  <2>3. account.slug \in DOMAIN Queries BY <1>4 DEF executeTool, Registered
  <2>4. Callable(tool, action)
    <3>1. CASE tool \in Tool BY <3>1, LocalFacts DEF Callable
    <3>2. CASE tool = LocalQuery(account.slug)
      BY <2>3, <3>2, LocalFacts DEF Callable, HandlerOf
    <3>3. CASE account.slug \in DOMAIN Writes /\ tool = LocalWrite(account.slug)
      BY <3>3, LocalFacts DEF Callable, HandlerOf
    <3> QED BY <3>1, <3>2, <3>3 DEF Registered
  <2>5. call' = Dispatched(c) /\ UNCHANGED <<account, discovered>>
    BY <1>4, <2>12 DEF executeTool
  <2>6. Unsent(c) BY <2>2, <2>4 DEF Unsent
  <2>7. CASE IsLocal(tool) /\ tool.kind = "query"
    <3>1. tool = LocalQuery(account.slug) BY <2>7, LocalFacts DEF Registered
    <3>2. call' = Begun(c) BY <2>2, <2>5, <2>7 DEF Dispatched
    <3> QED BY <2>2, <2>5, <2>6, <3>1, <3>2, CallBegun DEF Unasked
  <2>8. CASE ~(IsLocal(tool) /\ tool.kind = "query") /\ tool \in registry.writes
    <3>1. call' = Told(c, "cancelled") \/ call' = [c EXCEPT !.at = "asking"]
      BY <2>2, <2>5, <2>8 DEF Dispatched
    <3>2. CASE call' = Told(c, "cancelled") BY <2>2, <2>4, <2>5, <3>2, CallTold
    <3>3. CASE call' = [c EXCEPT !.at = "asking"]
      <4>1. /\ IsToolCall(call') /\ call'.at = "asking" /\ call'.tool = tool
            /\ call'.action = action /\ call'.did = {}
        BY <2>2, <3>3 DEF IsToolCall
      <4>2. Callable(call.tool, call.action)' BY <2>4, <2>5, <4>1 DEF Callable
      <4> QED BY <4>1, <4>2 DEF CallHolds
    <3> QED BY <3>1, <3>2, <3>3
  <2>9. CASE ~(IsLocal(tool) /\ tool.kind = "query") /\ tool \notin registry.writes
             /\ tool \in registry.reads
    <3>1. call' = Begun(c) BY <2>2, <2>5, <2>9 DEF Dispatched
    <3>2. Unasked(tool) BY <2>9 DEF Unasked, Registered
    <3> QED BY <2>2, <2>5, <2>6, <3>1, <3>2, CallBegun
  <2>10. CASE ~(IsLocal(tool) /\ tool.kind = "query") /\ tool \notin registry.writes
              /\ tool \notin registry.reads
    <3>1. call' = Told(c, "unknown tool") BY <2>2, <2>5, <2>10 DEF Dispatched
    <3> QED BY <2>2, <2>4, <2>5, <3>1, CallTold
  <2> QED BY <2>7, <2>8, <2>9, <2>10
<1>5. CASE Approve
  <2> DEFINE c == [call EXCEPT !.asked = TRUE]
  <2>1. /\ IsToolCall(c) /\ c.tool = call.tool /\ c.action = call.action
        /\ c.did = call.did /\ c.asked = TRUE
    <3>1. IsToolCall(call) BY DEF CallHolds
    <3>2. c = [call EXCEPT !.asked = TRUE] OBVIOUS
    <3> HIDE DEF c
    <3> QED BY <3>1, <3>2, CallAsked
  <2>2. call.at = "asking" /\ call' = Begun(c) /\ UNCHANGED <<account, discovered>>
    BY <1>5 DEF Approve
  <2> HIDE DEF c
  <2>3. Unsent(c) BY <2>1, <2>2 DEF CallHolds, Unsent
  <2> QED BY <2>1, <2>2, <2>3, CallBegun
<1>6. CASE DenyWrite BY <1>6, CallTold DEF DenyWrite, CallHolds
<1>7. CASE Send BY <1>7, SendStep
<1>8. CASE Reply
  <2>1. IsToolCall(call') /\ call'.at = "idle" BY <1>8 DEF Reply, NoCall, IsToolCall
  <2> QED BY <2>1 DEF CallHolds
<1> QED BY <1>1, <1>2, <1>3, <1>4, <1>5, <1>6, <1>7, <1>8 DEF ToolsNext

(***************************************************************************)
(* The invariant holds, with the service tools on or off.                  *)
(***************************************************************************)
LEMMA ToolsInvariant ==
  ASSUME NEW on \in BOOLEAN PROVE ToolsSpec(on) => []ToolsInv
<1>1. ToolsStart(on) => ToolsInv
  <2> SUFFICES ASSUME ToolsStart(on) PROVE ToolsInv OBVIOUS
  <2>1. /\ server = {} /\ discovered = {} /\ registry.reads = {} /\ registry.writes = {}
        /\ offered = {} /\ round.at # "model" /\ call = NoCall
    BY DEF ToolsStart, Nothing
  <2>2. ReadTools({}) = {} /\ WriteTools({}) = {} BY DEF ReadTools, WriteTools
  <2>3. IsToolCall(NoCall) /\ NoCall.at = "idle" BY DEF NoCall, IsToolCall
  <2> QED BY <2>1, <2>2, <2>3 DEF ToolsInv, Registered, CallHolds
<1>2. ToolsInv /\ [ToolsNext]_toolVars => ToolsInv'
  <2>1. ASSUME ToolsInv, UNCHANGED toolVars PROVE ToolsInv'
    <3>1. CallHolds' BY <2>1, CallKept DEF ToolsInv, toolVars
    <3> QED BY <2>1, <3>1 DEF ToolsInv, toolVars, Registered
  <2> QED BY <2>1, RegisteredStep, ToolCallStep DEF ToolsInv
<1> QED BY <1>1, <1>2, PTL DEF ToolsSpec

(***************************************************************************)
(* From the list of a server to the words about a call: what runs unasked  *)
(* reads, what is listed can be called, and what is called done was done   *)
(* (mcp-tool-classifier.ts, dispatcher.ts, tools.ts and the write          *)
(* handlers), for any lists of tools, cap, services, arguments and         *)
(* answers.                                                                *)
(***************************************************************************)
THEOREM CallsAsToldAlways ==
  ASSUME NEW on \in BOOLEAN PROVE ToolsSpec(on) => []CallsAsTold
<1>1. ToolsInv => UnaskedReads
  <2> SUFFICES ASSUME ToolsInv, call.at = "sending", ~call.asked PROVE UnaskedReads
    BY DEF UnaskedReads
  <2>1. Unasked(call.tool) /\ Callable(call.tool, call.action)
        /\ call.step \in 1..Len(Requests(call))
    BY DEF ToolsInv, CallHolds
  <2>2. CASE call.tool = LocalQuery(account.slug)
    <3>1. ReadPlan(Requests(call)) BY <2>1, <2>2, CallableFacts
    <3> QED BY <2>1, <2>2, <3>1, LocalFacts DEF UnaskedReads, ReadPlan
  <2>3. CASE call.tool \in ReadTools(discovered)
    <3>1. discovered \in SUBSET Tool BY DEF ToolsInv, Registered
    <3>2. /\ call.tool \in discovered /\ call.tool.hint # "destructive"
          /\ call.tool.name = "reads" \/ call.tool.capability = "repo.read"
      BY <2>3, <3>1, ReadToolsFacts
    <3>3. ~IsLocal(call.tool) BY <3>1, <3>2, LocalFacts
    <3> QED BY <3>2, <3>3 DEF UnaskedReads
  <2> QED BY <2>1, <2>2, <2>3 DEF Unasked
<1>2. ToolsInv => NothingVanishes
  <2> SUFFICES ASSUME ToolsInv PROVE NothingVanishes OBVIOUS
  <2>1. discovered \in SUBSET Tool BY DEF ToolsInv, Registered
  <2>2. LocalWrite(account.slug) \notin ReadTools(discovered)
    BY <2>1, ReadToolsFacts, LocalFacts
  <2> QED BY <2>1, <2>2, ReadToolsFacts DEF ToolsInv, Registered, NothingVanishes
<1>3. ToolsInv => SaidMeansDone
  BY DEF ToolsInv, CallHolds, DoneBefore, SaidMeansDone
<1>4. ToolsInv => CallsAsTold BY <1>1, <1>2, <1>3 DEF CallsAsTold
<1> QED BY <1>4, ToolsInvariant, PTL
=============================================================================
