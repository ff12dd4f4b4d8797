-------------------------- MODULE ChatHistoryProofs --------------------------
(***************************************************************************)
(* Theorems about ChatHistory, for any sockets, events and faults, and, at *)
(* the end, about the files of the replies in a chat (ReplyFiles).         *)
(***************************************************************************)
EXTENDS ChatHistory, ReplyFiles, FiniteSetTheorems, SequenceTheorems, WellFoundedInduction, TLAPS

-----------------------------------------------------------------------------
(* The inductive invariant.                                                *)

\* What is in a list, and a list of events in their order.
Members(q) == {q[i] : i \in DOMAIN q}
Rising(q) == \A i, j \in DOMAIN q : i < j => q[i] < q[j]

\* The list in Redis and what is on its way there are in order, one after the
\* other, and hold every event but those that Redis never got or let expire.
BufferRises ==
  /\ Rising(buffer) /\ Rising(pushing)
  /\ \A i \in DOMAIN buffer, j \in DOMAIN pushing : buffer[i] < pushing[j]

BufferHolds == Events \subseteq Members(buffer) \cup Members(pushing) \cup unpushed

\* An answer of Redis is in order.
RepliesRise == \A s \in Socket : Rising(reply[s])

\* A socket in the room has every event, but those that missed and unpushed name;
\* one whose answer is not handled yet has them in the answer.
Complete(s) ==
  /\ place[s] \in {"ask", "row"} \/ (place[s] = "answered" /\ reply[s] = <<>>) =>
       Events \subseteq Shown(s) \cup missed[s]
  /\ place[s] = "answered" /\ reply[s] # <<>> =>
       Events \subseteq Members(reply[s]) \cup missed[s] \cup unpushed
  /\ place[s] = "in" /\ Ending \notin Shown(s) =>
       Events \subseteq Shown(s) \cup missed[s] \cup unpushed

NobodyLeftOut == \A s \in Socket : Complete(s)

\* The rows are rows that were written, each for an event or the prompt, no two in
\* the table have one number, and but for what was numbered from 0 again the numbers
\* follow the events.
RowsOrdered ==
  /\ IsFiniteSet(stored) /\ stored \cup inserts \subseteq taken
  /\ \A r \in taken : r.msg \in Events \cup {Prompt}
  /\ \A r, t \in stored : r.seq = t.seq => r = t
  /\ \A r, t \in taken :
       r.seq < t.seq /\ {r.msg, t.msg} \cap restarted = {} => r.msg < t.msg

\* The next number is above those taken, and the open text is not recorded yet, as
\* long as the recorder has its first entry.
NextIsFree ==
  /\ open \in Events \cup {0}
  /\ first => /\ restarted = {}
              /\ \A r \in taken : r.seq < seq /\ (open # 0 => r.msg < open)

\* No two rows of that entry have one number.
NumbersDiffer ==
  \A r, t \in taken : r.seq = t.seq /\ {r.msg, t.msg} \cap restarted = {} => r = t

IInv == /\ TypeOK /\ BufferRises /\ BufferHolds /\ RepliesRise /\ NobodyLeftOut
        /\ RowsOrdered /\ NextIsFree /\ NumbersDiffer /\ ViewInOrder /\ MessagesKept

-----------------------------------------------------------------------------
(* Lists of events.                                                        *)

\* A list of type Seq(S) is a function on 1..Len.
LEMMA ListIs ==
  ASSUME NEW S, NEW q \in Seq(S)
  PROVE  /\ Len(q) \in Nat /\ DOMAIN q = 1..Len(q) /\ \A i \in DOMAIN q : q[i] \in S
         /\ Members(q) \subseteq S /\ (q = <<>> <=> Len(q) = 0)
         /\ Members(<<>>) = {} /\ Rising(<<>>)
<1>1. Len(q) \in Nat /\ DOMAIN q = 1..Len(q) /\ \A i \in DOMAIN q : q[i] \in S
  BY LenProperties, ElementOfSeq
<1>2. q = <<>> <=> Len(q) = 0
  BY EmptySeq
<1>3. DOMAIN <<>> = {}
  OBVIOUS
<1>4. Members(<<>>) = {} /\ Rising(<<>>)
  BY <1>3 DEF Members, Rising
<1> QED BY <1>1, <1>2, <1>4 DEF Members

\* What is appended to a list is its last member.
LEMMA Appended ==
  ASSUME NEW S, NEW q \in Seq(S), NEW e \in S
  PROVE  /\ Append(q, e) \in Seq(S) /\ DOMAIN Append(q, e) = 1..Len(q) + 1
         /\ \A i \in 1..Len(q) : Append(q, e)[i] = q[i]
         /\ Append(q, e)[Len(q) + 1] = e
         /\ Members(Append(q, e)) = Members(q) \cup {e}
<1>1. /\ Append(q, e) \in Seq(S) /\ Len(Append(q, e)) = Len(q) + 1
      /\ \A i \in 1..Len(q) : Append(q, e)[i] = q[i]
      /\ Append(q, e)[Len(q) + 1] = e
  BY AppendProperties
<1>2. Len(q) \in Nat /\ DOMAIN q = 1..Len(q) /\ DOMAIN Append(q, e) = 1..Len(q) + 1
  BY <1>1, LenProperties
<1>3. Members(Append(q, e)) = Members(q) \cup {e}
  <2> DEFINE a == Append(q, e)
  <2>1. DOMAIN a = (DOMAIN q) \cup {Len(q) + 1}
    BY <1>2
  <2>2. a[Len(q) + 1] = e /\ \A i \in DOMAIN q : a[i] = q[i]
    BY <1>1, <1>2
  <2> HIDE DEF a
  <2>3. {a[i] : i \in DOMAIN a} = {q[i] : i \in DOMAIN q} \cup {e}
    BY <2>1, <2>2
  <2> QED BY <2>3 DEF Members, a
<1> QED BY <1>1, <1>2, <1>3

\* A list that is in order stays so when something later is appended.
LEMMA RisingAppended ==
  ASSUME NEW S \in SUBSET Nat, NEW q \in Seq(S), NEW e \in S, Rising(q),
         \A i \in DOMAIN q : q[i] < e
  PROVE  Rising(Append(q, e))
<1> DEFINE a == Append(q, e)
<1>1. /\ Len(q) \in Nat /\ DOMAIN q = 1..Len(q) /\ DOMAIN a = 1..Len(q) + 1
      /\ \A i \in 1..Len(q) : a[i] = q[i]
      /\ a[Len(q) + 1] = e
  BY Appended, ListIs
<1> HIDE DEF a
<1>2. ASSUME NEW i \in DOMAIN a, NEW j \in DOMAIN a, i < j PROVE a[i] < a[j]
  <2>1. i \in DOMAIN q
    BY <1>1, <1>2
  <2>2. CASE j \in DOMAIN q
    BY <1>1, <1>2, <2>1, <2>2 DEF Rising
  <2>3. CASE j = Len(q) + 1
    BY <1>1, <2>1, <2>3
  <2> QED BY <1>1, <2>2, <2>3
<1>3. Rising(a)
  BY <1>2 DEF Rising
<1> QED BY <1>3 DEF a

\* A list is its head and the rest.
LEMMA HeadAndTail ==
  ASSUME NEW S, NEW q \in Seq(S), q # <<>>
  PROVE  /\ Head(q) \in S /\ Tail(q) \in Seq(S) /\ Head(q) = q[1]
         /\ DOMAIN Tail(q) = 1..Len(q) - 1 /\ DOMAIN q = 1..Len(q) /\ Len(q) \in Nat \ {0}
         /\ \A i \in 1..Len(q) - 1 : Tail(q)[i] = q[i + 1]
         /\ Members(q) = Members(Tail(q)) \cup {Head(q)}
<1> DEFINE t == Tail(q)
<1>1. /\ Head(q) \in S /\ t \in Seq(S) /\ Len(t) = Len(q) - 1
      /\ \A i \in 1..Len(t) : t[i] = q[i + 1]
  BY HeadTailProperties
<1>2. /\ Len(q) \in Nat \ {0} /\ DOMAIN q = 1..Len(q) /\ DOMAIN t = 1..Len(q) - 1
      /\ Head(q) = q[1]
  BY <1>1, ListIs, LenProperties, EmptySeq
<1> HIDE DEF t
<1>3. Members(q) = Members(t) \cup {q[1]}
  <2>1. ASSUME NEW x \in Members(q) PROVE x \in Members(t) \cup {q[1]}
    <3>1. PICK i \in DOMAIN q : x = q[i]
      BY <2>1 DEF Members
    <3>2. CASE i = 1
      BY <3>1, <3>2
    <3>3. CASE i # 1
      <4>1. i - 1 \in DOMAIN t /\ t[i - 1] = x
        BY <1>1, <1>2, <3>1, <3>3
      <4> QED BY <4>1 DEF Members
    <3> QED BY <3>2, <3>3
  <2>2. ASSUME NEW x \in Members(t) PROVE x \in Members(q)
    <3>1. PICK i \in DOMAIN t : x = t[i]
      BY <2>2 DEF Members
    <3>2. i + 1 \in DOMAIN q /\ q[i + 1] = x
      BY <1>1, <1>2, <3>1
    <3> QED BY <3>2 DEF Members
  <2>3. q[1] \in Members(q)
    BY <1>2 DEF Members
  <2> QED BY <2>1, <2>2, <2>3
<1> QED BY <1>1, <1>2, <1>3 DEF t

\* The rest of a list is in order too, and after its head.
LEMMA RisingTail ==
  ASSUME NEW S \in SUBSET Nat, NEW q \in Seq(S), q # <<>>, Rising(q)
  PROVE  /\ Head(q) \in S /\ Tail(q) \in Seq(S) /\ Rising(Tail(q))
         /\ Members(q) = Members(Tail(q)) \cup {Head(q)}
         /\ \A j \in DOMAIN Tail(q) : Head(q) < Tail(q)[j]
<1> DEFINE t == Tail(q)
<1>1. /\ Head(q) \in S /\ t \in Seq(S) /\ Head(q) = q[1]
      /\ DOMAIN t = 1..Len(q) - 1 /\ DOMAIN q = 1..Len(q) /\ Len(q) \in Nat \ {0}
      /\ \A i \in 1..Len(q) - 1 : t[i] = q[i + 1]
      /\ Members(q) = Members(t) \cup {Head(q)}
  BY HeadAndTail
<1> HIDE DEF t
<1>2. \A i \in DOMAIN t : i \in Nat /\ i + 1 \in DOMAIN q /\ t[i] = q[i + 1]
  BY <1>1
<1>3. Rising(t)
  BY <1>2 DEF Rising
<1>4. 1 \in DOMAIN q /\ \A i \in DOMAIN t : 1 < i + 1
  BY <1>1
<1>5. \A j \in DOMAIN t : q[1] < t[j]
  BY <1>2, <1>4 DEF Rising
<1> QED BY <1>1, <1>3, <1>5 DEF t

-----------------------------------------------------------------------------
(* The history, read back by number.                                       *)

\* How many rows come before one.
Rank(S, r) == Cardinality({t \in S : t.seq < r.seq})

\* Rows with different numbers have different ranks, in the order of the numbers,
\* and every rank is some row's.
LEMMA Ranks ==
  ASSUME NEW S \in SUBSET Row, IsFiniteSet(S), \A r, t \in S : r.seq = t.seq => r = t
  PROVE  /\ Cardinality(S) \in Nat
         /\ \A r, t \in S : Rank(S, r) < Rank(S, t) => r.seq < t.seq
         /\ \A i \in 1..Cardinality(S) : \E r \in S : Rank(S, r) = i - 1
<1> DEFINE N == Cardinality(S)
           Below(r) == {t \in S : t.seq < r.seq}
<1>0. N \in Nat
  BY FS_CardinalityType
<1>1. ASSUME NEW r \in S
      PROVE  /\ IsFiniteSet(Below(r)) /\ Rank(S, r) = Cardinality(Below(r))
             /\ Rank(S, r) \in 0..N - 1 /\ Rank(S, r) \in Nat
  <2>1. IsFiniteSet(S \ {r}) /\ Cardinality(S \ {r}) = N - 1
    BY FS_RemoveElement
  <2>2. Below(r) \in SUBSET (S \ {r})
    <3>1. ~(r.seq < r.seq)
      BY DEF Row
    <3> QED BY <3>1
  <2>3. IsFiniteSet(Below(r)) /\ Cardinality(Below(r)) <= N - 1
    BY <2>1, <2>2, FS_Subset
  <2>4. Cardinality(Below(r)) \in Nat
    BY <2>3, FS_CardinalityType
  <2>5. Rank(S, r) = Cardinality(Below(r))
    BY DEF Rank
  <2> QED BY <1>0, <2>3, <2>4, <2>5
<1>2. ASSUME NEW r \in S, NEW t \in S, r.seq < t.seq PROVE Rank(S, r) < Rank(S, t)
  <2>1. Below(r) \cup {r} \in SUBSET Below(t)
    BY <1>2 DEF Row
  <2>2. r \notin Below(r)
    BY DEF Row
  <2>3. Cardinality(Below(r) \cup {r}) = Cardinality(Below(r)) + 1
    BY <1>1, <2>2, FS_AddElement
  <2>4. Cardinality(Below(r) \cup {r}) <= Cardinality(Below(t))
    BY <1>1, <2>1, FS_Subset
  <2>5. Rank(S, r) + 1 <= Rank(S, t)
    BY <1>1, <2>3, <2>4
  <2>6. Rank(S, r) \in Nat /\ Rank(S, t) \in Nat
    BY <1>0, <1>1
  <2> HIDE DEF Below
  <2> QED BY <2>5, <2>6
<1>3. ASSUME NEW r \in S, NEW t \in S, Rank(S, r) < Rank(S, t) PROVE r.seq < t.seq
  <2>1. r.seq \in Nat /\ t.seq \in Nat /\ Rank(S, r) \in Nat /\ Rank(S, t) \in Nat
    BY <1>0, <1>1 DEF Row
  <2>2. r.seq = t.seq => r = t
    OBVIOUS
  <2>3. ~(t.seq < r.seq)
    BY <1>2, <1>3, <2>1
  <2>4. r # t
    BY <1>3, <2>1
  <2> QED BY <2>1, <2>2, <2>3, <2>4
<1>4. ASSUME NEW i \in 1..N PROVE \E r \in S : Rank(S, r) = i - 1
  <2> DEFINE f == [r \in S |-> Rank(S, r)]
  <2>1. f \in Injection(S, 0..N - 1)
    <3>1. f \in [S -> 0..N - 1]
      BY <1>1
    <3>2. ASSUME NEW r \in S, NEW t \in S, f[r] = f[t] PROVE r = t
      <4>1. Rank(S, r) = Rank(S, t) /\ Rank(S, r) \in Nat
        BY <1>0, <1>1, <3>2
      <4>2. r.seq \in Nat /\ t.seq \in Nat
        BY DEF Row
      <4>3. ~(r.seq < t.seq) /\ ~(t.seq < r.seq)
        BY <1>2, <4>1
      <4>4. r.seq = t.seq
        BY <4>2, <4>3
      <4> QED BY <4>4
    <3> QED BY <3>1, <3>2 DEF Injection, IsInjective
  <2>2. IsFiniteSet(0..N - 1) /\ Cardinality(0..N - 1) = N
    <3>1. 0 \in Int /\ N - 1 \in Int
      BY <1>0
    <3>2. IsFiniteSet(0..N - 1) /\ Cardinality(0..N - 1) = IF 0 > N - 1 THEN 0 ELSE (N - 1) - 0 + 1
      BY <3>1, FS_Interval
    <3> QED BY <1>0, <3>2
  <2>3. f \in Surjection(S, 0..N - 1)
    BY <2>1, <2>2, FS_Injection
  <2>4. i - 1 \in 0..N - 1
    BY <1>0
  <2>5. \E r \in S : f[r] = i - 1
    BY <2>3, <2>4 DEF Surjection
  <2> QED BY <2>5
<1> QED BY <1>0, <1>3, <1>4

-----------------------------------------------------------------------------
(* An event is told.                                                       *)

\* The number of the event that is told next.
Coming == Len(emitted) + 1

\* The events are numbered from 1 on, and the made-up ending is none of them.
LEMMA EventsAre ==
  ASSUME TypeOK
  PROVE  /\ Len(emitted) \in Nat /\ Events = 1..Len(emitted) /\ Events \subseteq Nat \ {0}
         /\ Prompt \notin Events /\ Ending \notin Events /\ Ending # Prompt
<1>1. emitted \in Seq(Kind) /\ Len(emitted) <= MaxEvents
  BY DEF TypeOK
<1>2. Len(emitted) \in Nat /\ DOMAIN emitted = 1..Len(emitted)
  BY <1>1, LenProperties
<1>3. MaxEvents \in Nat
  BY ConstantsAssumption
<1> QED BY <1>1, <1>2, <1>3 DEF Events, Prompt, Ending

\* The kinds of the earlier events stay.
LEMMA EmitAdds ==
  ASSUME TypeOK, NEW kind \in Kind, Emit(kind)
  PROVE  /\ Coming \in Nat \ {0} /\ Coming <= MaxEvents
         /\ Events' = Events \cup {Coming} /\ Events' = 1..Coming
         /\ \A m \in Events : m < Coming /\ m \in Nat \ {0} /\ emitted'[m] = emitted[m]
         /\ emitted'[Coming] = kind
         /\ emitted' \in Seq(Kind) /\ Len(emitted') <= MaxEvents
<1>1. emitted \in Seq(Kind) /\ Len(emitted) \in Nat /\ Events = 1..Len(emitted) /\ MaxEvents \in Nat
  BY EventsAre, ConstantsAssumption DEF TypeOK
<1>2. Len(emitted) < MaxEvents /\ emitted' = Append(emitted, kind)
  BY DEF Emit
<1>3. /\ emitted' \in Seq(Kind) /\ DOMAIN emitted' = 1..Len(emitted) + 1
      /\ \A m \in 1..Len(emitted) : emitted'[m] = emitted[m]
      /\ emitted'[Len(emitted) + 1] = kind
  BY <1>1, <1>2, Appended
<1>4. Len(emitted') = Len(emitted) + 1
  BY <1>1, <1>2, AppendProperties
<1>5. Events' = 1..Len(emitted) + 1
  BY <1>3 DEF Events
<1> QED BY <1>1, <1>2, <1>3, <1>4, <1>5 DEF Coming

\* The rows of an event, and the messages they are for.
NewMessages(n) == IF open # 0 THEN {open, n} ELSE {n}
NewRows(n) == IF open # 0 THEN {[seq |-> seq, msg |-> open], [seq |-> seq + 1, msg |-> n]}
              ELSE {[seq |-> seq, msg |-> n]}

\* What the recorder does with an event.
LEMMA RecordDoes ==
  ASSUME TypeOK, NEW n \in Nat, NEW kind, Record(n, kind)
  PROVE  /\ UNCHANGED <<stored, unkept>>
         /\ kind = "text" => open' = n /\ UNCHANGED <<first, seq, inserts, taken, restarted>>
         /\ kind # "text" =>
              /\ open' = 0 /\ inserts' = inserts \cup NewRows(n) /\ taken' = taken \cup NewRows(n)
              /\ first' = (first /\ kind = "tool")
              /\ seq' = IF kind = "tool" THEN IF open # 0 THEN seq + 2 ELSE seq + 1 ELSE 0
              /\ restarted' = IF first THEN restarted ELSE restarted \cup NewMessages(n)
<1>1. CASE kind = "text"
  BY <1>1 DEF Record
<1>2. CASE kind # "text"
  <2>0. seq \in Nat /\ open \in Nat
    BY DEF TypeOK
  <2>1. /\ UNCHANGED <<stored, unkept>> /\ open' = 0 /\ Write(Messages(n))
        /\ first' = (first /\ kind = "tool")
        /\ seq' = IF kind = "tool" THEN seq + Len(Messages(n)) ELSE 0
    BY <1>2 DEF Record
  <2>2. /\ {[seq |-> seq + i - 1, msg |-> Messages(n)[i]] : i \in DOMAIN Messages(n)} = NewRows(n)
        /\ {Messages(n)[i] : i \in DOMAIN Messages(n)} = NewMessages(n)
        /\ Len(Messages(n)) = IF open # 0 THEN 2 ELSE 1
    <3>1. CASE open # 0
      <4> DEFINE q == <<open, n>>
      <4>1. Messages(n) = q /\ NewMessages(n) = {open, n}
            /\ NewRows(n) = {[seq |-> seq, msg |-> open], [seq |-> seq + 1, msg |-> n]}
        BY <3>1 DEF Messages, NewMessages, NewRows
      <4>2. DOMAIN q = {1, 2} /\ q[1] = open /\ q[2] = n /\ Len(q) = 2
        OBVIOUS
      <4>3. seq + 1 - 1 = seq /\ seq + 2 - 1 = seq + 1
        BY <2>0
      <4> HIDE DEF q
      <4>4. {q[i] : i \in {1, 2}} = {q[1], q[2]}
        OBVIOUS
      <4>5. {[seq |-> seq + i - 1, msg |-> q[i]] : i \in {1, 2}} =
            {[seq |-> seq + 1 - 1, msg |-> q[1]], [seq |-> seq + 2 - 1, msg |-> q[2]]}
        OBVIOUS
      <4> QED BY <3>1, <4>1, <4>2, <4>3, <4>4, <4>5
    <3>2. CASE open = 0
      <4> DEFINE q == <<n>>
      <4>1. Messages(n) = q /\ NewMessages(n) = {n} /\ NewRows(n) = {[seq |-> seq, msg |-> n]}
        BY <3>2 DEF Messages, NewMessages, NewRows
      <4>2. DOMAIN q = {1} /\ q[1] = n /\ Len(q) = 1
        OBVIOUS
      <4>3. seq + 1 - 1 = seq
        BY <2>0
      <4> HIDE DEF q
      <4>4. {q[i] : i \in {1}} = {q[1]}
        OBVIOUS
      <4>5. {[seq |-> seq + i - 1, msg |-> q[i]] : i \in {1}} =
            {[seq |-> seq + 1 - 1, msg |-> q[1]]}
        OBVIOUS
      <4> QED BY <3>2, <4>1, <4>2, <4>3, <4>4, <4>5
    <3> QED BY <3>1, <3>2
  <2>3. /\ inserts' = inserts \cup NewRows(n) /\ taken' = taken \cup NewRows(n)
        /\ restarted' = IF first THEN restarted ELSE restarted \cup NewMessages(n)
    <3>1. LET rows == {[seq |-> seq + i - 1, msg |-> Messages(n)[i]] : i \in DOMAIN Messages(n)} IN
          /\ inserts' = inserts \cup rows /\ taken' = taken \cup rows
          /\ restarted' = IF first THEN restarted
                          ELSE restarted \cup {Messages(n)[i] : i \in DOMAIN Messages(n)}
      BY <2>1 DEF Write
    <3> QED BY <2>2, <3>1
  <2> QED BY <1>2, <2>1, <2>2, <2>3
<1> QED BY <1>1, <1>2

\* Its rows are rows of the table.
LEMMA NewRowsAre ==
  ASSUME seq \in Nat, open \in Nat, NEW n \in Nat
  PROVE  /\ NewRows(n) \subseteq Row /\ IsFiniteSet(NewRows(n))
         /\ \E r \in NewRows(n) : r.msg = n
         /\ \A r \in NewRows(n) : r.msg \in NewMessages(n) /\ r.seq >= seq
<1>1. CASE open # 0
  <2> DEFINE a == [seq |-> seq, msg |-> open]
             b == [seq |-> seq + 1, msg |-> n]
  <2>1. NewRows(n) = {a, b} /\ NewMessages(n) = {open, n}
    BY <1>1 DEF NewRows, NewMessages
  <2>2. a \in Row /\ b \in Row /\ a.seq = seq /\ b.seq = seq + 1 /\ a.msg = open /\ b.msg = n
    BY DEF Row
  <2> HIDE DEF a, b
  <2>3. IsFiniteSet({a, b})
    <3>1. IsFiniteSet({a}) /\ {a, b} = {a} \cup {b}
      BY FS_Singleton
    <3> QED BY <3>1, FS_AddElement
  <2> QED BY <2>1, <2>2, <2>3
<1>2. CASE open = 0
  <2> DEFINE b == [seq |-> seq, msg |-> n]
  <2>1. NewRows(n) = {b} /\ NewMessages(n) = {n}
    BY <1>2 DEF NewRows, NewMessages
  <2>2. b \in Row /\ b.seq = seq /\ b.msg = n
    BY DEF Row
  <2> HIDE DEF b
  <2>3. IsFiniteSet({b})
    BY FS_Singleton
  <2> QED BY <2>1, <2>2, <2>3
<1> QED BY <1>1, <1>2

\* Every event is told by Emit.
Tells == \E kind \in Kind : Emit(kind)

\* Every step tells an event, or is one of Redis, of the database, of a socket, of
\* the process, or of none of them.
Meets(s) == \/ Join(s) \/ Answer(s) \/ Replay(s) \/ ReadRow(s)
            \/ Settle(s) \/ SettleComplete(s) \/ Leave(s)

\* The steps of those that build, cancel and stop.
Acts == \/ (\E kind \in Kind : Go(kind)) \/ AttemptFails \/ NoticeCancel \/ TellEnd
        \/ \E status \in {"failed", "success"} : CloseRow(status)
        \/ \E c \in Cancel : AskCancel(c) \/ CloseCancelled(c) \/ TellCancel(c)
        \/ Stop \/ StopRow

\* Each of them tells an event or is seen by nobody.
LEMMA ActsAre ==
  ASSUME Acts
  PROVE  Tells \/ Silent
<1>1. CASE (\E kind \in Kind : Go(kind)) \/ AttemptFails \/ Stop
  BY <1>1 DEF Go, AttemptFails, Stop, Tells, Kind
<1>2. CASE NoticeCancel
  BY <1>2 DEF NoticeCancel, Tells, Kind
<1>3. CASE TellEnd
  <2>1. Silent \/ \E kind \in {"complete", "failed"} : Emit(kind)
    BY <1>3 DEF TellEnd
  <2> QED BY <2>1 DEF Tells, Kind
<1>4. CASE (\E status \in {"failed", "success"} : CloseRow(status)) \/ StopRow
  BY <1>4 DEF CloseRow, StopRow
<1>5. ASSUME NEW c \in Cancel, AskCancel(c) \/ CloseCancelled(c) \/ TellCancel(c)
      PROVE  Tells \/ Silent
  BY <1>5 DEF AskCancel, CloseCancelled, TellCancel, Tells, Kind
<1> QED BY <1>1, <1>2, <1>3, <1>4, <1>5 DEF Acts

\* The steps of Next, by what they change.
LEMMA Steps ==
  ASSUME [Next]_vars
  PROVE  \/ Tells
         \/ UNCHANGED <<emitted, redis, recorder, sockets>>
         \/ Push \/ Expire \/ Restart
         \/ \E r \in inserts : Insert(r) \/ InsertFails(r)
         \/ \E s \in Socket : Meets(s)
<1>1. CASE Acts
  BY <1>1, ActsAre DEF Silent
<1>2. CASE UNCHANGED vars
  BY <1>2 DEF vars
<1> QED BY <1>1, <1>2 DEF Next, Meets, Acts

-----------------------------------------------------------------------------
(* Types.                                                                  *)

\* The types of Redis' lists, of the rows and of the sockets.
RedisTyped == pushing \in Seq(Events) /\ buffer \in Seq(Events) /\ unpushed \subseteq Events
RowsTyped == /\ first \in BOOLEAN /\ seq \in Nat /\ open \in Nat
             /\ inserts \subseteq Row /\ stored \subseteq Row /\ taken \subseteq Row
             /\ unkept \subseteq Nat /\ restarted \subseteq Nat
SocketsTyped ==
  /\ place \in [Socket -> Place]
  /\ reply \in [Socket -> Seq(Events)]
  /\ view \in [Socket -> Seq(Events \cup {Prompt, Ending})]
  /\ missed \in [Socket -> SUBSET Events]

\* Once known, an event stays one.
LEMMA EventsStay ==
  ASSUME TypeOK, [Next]_vars
  PROVE  /\ Events \subseteq Events' /\ emitted' \in Seq(Kind) /\ Len(emitted') <= MaxEvents
         /\ \A n \in Events : emitted'[n] = emitted[n]
         /\ ~Tells => UNCHANGED emitted /\ Events' = Events
<1>1. CASE Tells
  BY <1>1, EmitAdds DEF Tells
<1>2. CASE ~Tells
  <2>1. UNCHANGED emitted
    BY <1>2, Steps DEF Push, Expire, Restart, Insert, InsertFails, Meets, Join, Answer, Replay,
       ReadRow, Settle, SettleComplete, Leave
  <2>2. Events' = Events
    BY <2>1 DEF Events
  <2> QED BY <2>1, <2>2, <1>2 DEF TypeOK
<1> QED BY <1>1, <1>2

\* A list of events stays one.
LEMMA ListsStay ==
  ASSUME TypeOK, [Next]_vars
  PROVE  /\ \A q \in Seq(Events) : q \in Seq(Events')
         /\ \A q \in Seq(Events \cup {Prompt, Ending}) : q \in Seq(Events' \cup {Prompt, Ending})
<1>1. Events \subseteq Events'
  BY EventsStay
<1>2. ASSUME NEW q \in Seq(Events) PROVE q \in Seq(Events')
  BY <1>1, SeqMonotonic
<1>3. ASSUME NEW q \in Seq(Events \cup {Prompt, Ending})
      PROVE  q \in Seq(Events' \cup {Prompt, Ending})
  <2>1. Events \cup {Prompt, Ending} \subseteq Events' \cup {Prompt, Ending}
    BY <1>1
  <2> QED BY <2>1, SeqMonotonic
<1> QED BY <1>2, <1>3

\* Redis' lists hold events.
LEMMA RedisTypedPreserved ==
  ASSUME TypeOK, [Next]_vars
  PROVE  RedisTyped'
<1>0. RedisTyped /\ RedisTyped' = (/\ pushing' \in Seq(Events') /\ buffer' \in Seq(Events')
                                   /\ unpushed' \subseteq Events')
  BY DEF TypeOK, RedisTyped
<1>1. Events \subseteq Events' /\ \A q \in Seq(Events) : q \in Seq(Events')
  BY EventsStay, ListsStay
<1>2. pushing \in Seq(Events') /\ buffer \in Seq(Events') /\ unpushed \subseteq Events'
  BY <1>0, <1>1 DEF RedisTyped
<1>3. CASE Tells
  <2>1. PICK kind \in Kind : Emit(kind)
    BY <1>3 DEF Tells
  <2>2. Coming \in Events'
    BY <2>1, EmitAdds
  <2>3. /\ buffer' = buffer
        /\ \/ pushing' = Append(pushing, Coming) /\ unpushed' = unpushed
           \/ pushing' = pushing /\ unpushed' = unpushed \cup {Coming}
    BY <2>1 DEF Emit, Coming
  <2>4. Append(pushing, Coming) \in Seq(Events')
    BY <1>2, <2>2, Appended
  <2> QED BY <1>0, <1>2, <2>2, <2>3, <2>4
<1>4. CASE Push
  <2>1. pushing # <<>> /\ buffer' = Append(buffer, Head(pushing)) /\ pushing' = Tail(pushing)
        /\ unpushed' = unpushed
    BY <1>4 DEF Push
  <2>2. Head(pushing) \in Events' /\ Tail(pushing) \in Seq(Events')
    BY <1>2, <2>1, HeadTailProperties
  <2>3. Append(buffer, Head(pushing)) \in Seq(Events')
    BY <1>2, <2>2, Appended
  <2> QED BY <1>0, <1>2, <2>1, <2>2, <2>3
<1>5. <<>> \in Seq(Events')
  BY EmptySeq
<1>6. CASE Expire
  <2>1. pushing' = pushing /\ buffer' = <<>> /\ unpushed' = unpushed \cup Members(buffer)
    BY <1>6 DEF Expire, Members
  <2>2. Members(buffer) \subseteq Events'
    BY <1>2, ListIs
  <2> QED BY <1>0, <1>2, <1>5, <2>1, <2>2
<1>7. CASE Restart
  <2>1. pushing' = <<>> /\ buffer' = buffer /\ unpushed' = unpushed \cup Members(pushing)
    BY <1>7 DEF Restart, Members
  <2>2. Members(pushing) \subseteq Events'
    BY <1>2, ListIs
  <2> QED BY <1>0, <1>2, <1>5, <2>1, <2>2
<1>8. CASE \/ UNCHANGED <<emitted, redis, recorder, sockets>>
           \/ \E r \in inserts : Insert(r) \/ InsertFails(r)
           \/ \E s \in Socket : Meets(s)
  <2>1. UNCHANGED redis
    BY <1>8 DEF Insert, InsertFails, Meets, Join, Answer, Replay, ReadRow, Settle,
        SettleComplete, Leave
  <2> QED BY <1>0, <1>2, <2>1 DEF redis
<1> QED BY <1>3, <1>4, <1>6, <1>7, <1>8, Steps

\* Rows have numbers.
LEMMA RowsTypedPreserved ==
  ASSUME TypeOK, [Next]_vars
  PROVE  RowsTyped'
<1>1. RowsTyped
  BY DEF TypeOK, RowsTyped
<1>2. CASE Tells
  <2>1. PICK kind \in Kind : Emit(kind)
    BY <1>2 DEF Tells
  <2>2. Coming \in Nat /\ Record(Coming, kind)
    BY <2>1, EmitAdds DEF Emit, Coming
  <2>3. CASE kind = "text"
    BY <1>1, <2>2, <2>3, RecordDoes DEF RowsTyped
  <2>4. CASE kind # "text"
    <3>1. NewRows(Coming) \subseteq Row
      BY <1>1, <2>2, NewRowsAre DEF RowsTyped
    <3>2. NewMessages(Coming) \subseteq Nat
      BY <1>1, <2>2 DEF RowsTyped, NewMessages
    <3>3. /\ UNCHANGED <<stored, unkept>> /\ open' = 0 /\ inserts' = inserts \cup NewRows(Coming)
          /\ taken' = taken \cup NewRows(Coming) /\ first' = (first /\ kind = "tool")
          /\ seq' = IF kind = "tool" THEN IF open # 0 THEN seq + 2 ELSE seq + 1 ELSE 0
          /\ restarted' = IF first THEN restarted ELSE restarted \cup NewMessages(Coming)
      BY <2>2, <2>4, RecordDoes
    <3>4. seq' \in Nat
      BY <1>1, <3>3 DEF RowsTyped
    <3>5. inserts' \subseteq Row /\ taken' \subseteq Row /\ restarted' \subseteq Nat
      BY <1>1, <3>1, <3>2, <3>3 DEF RowsTyped
    <3> QED BY <1>1, <3>3, <3>4, <3>5 DEF RowsTyped
  <2> QED BY <2>3, <2>4
<1>3. ASSUME NEW r \in inserts, Insert(r) \/ InsertFails(r) PROVE RowsTyped'
  <2>1. r \in Row /\ r.msg \in Nat
    BY <1>1 DEF RowsTyped, Row
  <2>2. /\ inserts' = inserts \ {r} /\ UNCHANGED <<first, seq, open, taken, restarted>>
        /\ stored' \in {stored, stored \cup {r}} /\ unkept' \in {unkept, unkept \cup {r.msg}}
    BY <1>3 DEF Insert, InsertFails
  <2> QED BY <1>1, <2>1, <2>2 DEF RowsTyped
<1>4. CASE Restart
  <2>1. /\ first' = FALSE /\ seq' = 0 /\ open' = 0 /\ inserts' = {}
        /\ stored' = stored /\ taken' = taken /\ restarted' = restarted
        /\ unkept' = unkept \cup {r.msg : r \in inserts}
    BY <1>4 DEF Restart
  <2>2. {r.msg : r \in inserts} \subseteq Nat
    BY <1>1 DEF RowsTyped, Row
  <2> QED BY <1>1, <2>1, <2>2 DEF RowsTyped
<1>5. CASE \/ UNCHANGED <<emitted, redis, recorder, sockets>> \/ Push \/ Expire
           \/ \E s \in Socket : Meets(s)
  <2>1. UNCHANGED recorder
    BY <1>5 DEF Push, Expire, Meets, Join, Answer, Replay, ReadRow, Settle, SettleComplete, Leave
  <2> QED BY <1>1, <2>1 DEF RowsTyped, recorder
<1> QED BY <1>2, <1>3, <1>4, <1>5, Steps

\* A list in the order of the build, but for the ending and what is in R.
InOrder(q, R) ==
  \A i, j \in DOMAIN q :
    i < j /\ Ending \notin {q[i], q[j]} /\ {q[i], q[j]} \cap R = {} => q[i] < q[j]

\* The history is in that order.
LEMMA HistoryIs ==
  ASSUME TypeOK, RowsOrdered
  PROVE  History \in Seq(Events \cup {Prompt}) /\ InOrder(History, restarted)
<1> DEFINE N == Cardinality(stored)
           c(i) == CHOOSE r \in stored : Cardinality({t \in stored : t.seq < r.seq}) = i - 1
<1>1. stored \in SUBSET Row /\ IsFiniteSet(stored) /\ \A r, t \in stored : r.seq = t.seq => r = t
  BY DEF TypeOK, RowsOrdered
<1>2. N \in Nat
  BY <1>1, Ranks
<1>3. ASSUME NEW i \in 1..N
      PROVE  c(i) \in stored /\ Rank(stored, c(i)) = i - 1 /\ c(i).msg \in Events \cup {Prompt}
  <2>1. \E r \in stored : Cardinality({t \in stored : t.seq < r.seq}) = i - 1
    BY <1>1, Ranks DEF Rank
  <2>2. c(i) \in stored /\ Rank(stored, c(i)) = i - 1
    BY <2>1 DEF Rank
  <2>3. c(i).msg \in Events \cup {Prompt}
    BY <2>2 DEF RowsOrdered
  <2> QED BY <2>2, <2>3
<1>4. History = [i \in 1..N |-> c(i).msg]
  BY DEF History
<1> HIDE DEF c
<1>5. History \in [1..N -> Events \cup {Prompt}] /\ DOMAIN History = 1..N
      /\ \A i \in 1..N : History[i] = c(i).msg
  BY <1>3, <1>4
<1>6. History \in Seq(Events \cup {Prompt})
  BY <1>2, <1>5, SeqDef
<1>7. ASSUME NEW i \in 1..N, NEW j \in 1..N, i < j,
             {History[i], History[j]} \cap restarted = {}
      PROVE  History[i] < History[j]
  <2>1. Rank(stored, c(i)) < Rank(stored, c(j))
    BY <1>2, <1>3, <1>7
  <2>2. c(i).seq < c(j).seq
    BY <1>1, <1>3, <2>1, Ranks
  <2>3. {c(i).msg, c(j).msg} \cap restarted = {}
    BY <1>5, <1>7
  <2>4. c(i) \in taken /\ c(j) \in taken
    BY <1>3 DEF RowsOrdered
  <2>5. c(i).msg < c(j).msg
    BY <2>2, <2>3, <2>4 DEF RowsOrdered
  <2> QED BY <1>5, <2>5
<1>8. InOrder(History, restarted)
  BY <1>5, <1>7 DEF InOrder
<1> QED BY <1>6, <1>8

\* The order is kept by what comes later, and by less of an order.
LEMMA InOrderAppended ==
  ASSUME TypeOK, NEW q \in Seq(Events \cup {Prompt, Ending}), NEW R, NEW e \in Nat, InOrder(q, R),
         e = Ending \/ \A m \in Events \cup {Prompt} : m < e
  PROVE  InOrder(Append(q, e), R)
<1>1. q \in Seq(Nat)
  <2>1. Ending \in Nat /\ Prompt \in Nat
    BY ConstantsAssumption DEF Ending, Prompt
  <2>2. Events \cup {Prompt, Ending} \subseteq Nat
    BY <2>1, EventsAre
  <2> QED BY <2>2, SeqMonotonic
<1> DEFINE a == Append(q, e)
<1>2. /\ Len(q) \in Nat /\ DOMAIN q = 1..Len(q) /\ DOMAIN a = 1..Len(q) + 1
      /\ \A i \in 1..Len(q) : a[i] = q[i]
      /\ a[Len(q) + 1] = e
  BY <1>1, Appended, ListIs
<1>3. \A i \in DOMAIN q : q[i] \in Events \cup {Prompt, Ending}
  BY ListIs
<1> HIDE DEF a
<1>4. ASSUME NEW i \in DOMAIN a, NEW j \in DOMAIN a, i < j, Ending \notin {a[i], a[j]},
             {a[i], a[j]} \cap R = {}
      PROVE  a[i] < a[j]
  <2>1. i \in DOMAIN q /\ a[i] = q[i]
    BY <1>2, <1>4
  <2>2. CASE j \in DOMAIN q
    <3>1. a[j] = q[j]
      BY <1>2, <2>2
    <3> QED BY <1>4, <2>1, <2>2, <3>1 DEF InOrder
  <2>3. CASE j = Len(q) + 1
    <3>1. a[j] = e /\ e # Ending
      BY <1>2, <1>4, <2>3
    <3>2. a[i] \in Events \cup {Prompt}
      BY <1>3, <1>4, <2>1
    <3> QED BY <3>1, <3>2
  <2> QED BY <1>2, <2>2, <2>3
<1>5. InOrder(a, R)
  BY <1>4 DEF InOrder
<1> QED BY <1>5 DEF a

\* What is numbered again is excepted.
LEMMA LessOrder ==
  ASSUME NEW q, NEW R, NEW T, R \subseteq T, InOrder(q, R)
  PROVE  InOrder(q, T)
BY DEF InOrder

\* A list of events that rises is in order.
LEMMA RisingInOrder ==
  ASSUME NEW q, NEW R, Rising(q)
  PROVE  InOrder(q, R)
BY DEF InOrder, Rising

\* A socket that settles shows the history, or nothing when it cannot be read, and
\* of a failed build its ending.
LEMMA SettleDoes ==
  ASSUME TypeOK, RowsOrdered, NEW s \in Socket, Settle(s)
  PROVE  /\ view'[s] \in Seq(Events \cup {Prompt, Ending})
         /\ InOrder(view'[s], restarted)
         /\ place[s] \in {"failed", "finished"}
         /\ place' = [place EXCEPT ![s] = IF place[s] = "failed" THEN "in" ELSE "files"]
         /\ place[s] = "failed" => Ending \in Shown(s)'
         /\ \A z \in Socket \ {s} : view'[z] = view[z]
         /\ view' = [view EXCEPT ![s] = view'[s]]
         /\ UNCHANGED <<emitted, redis, recorder, reply, missed>>
<1>1. PICK h \in {History, <<>>} :
        view' = [view EXCEPT ![s] = IF place[s] = "failed" THEN Append(h, Ending) ELSE h]
  BY DEF Settle
<1>2. view \in [Socket -> Seq(Events \cup {Prompt, Ending})]
  BY DEF TypeOK
<1>3. view'[s] = IF place[s] = "failed" THEN Append(h, Ending) ELSE h
  BY <1>1, <1>2
<1>4. h \in Seq(Events \cup {Prompt, Ending}) /\ InOrder(h, restarted)
  <2>1. CASE h = History
    <3>1. Events \cup {Prompt} \subseteq Events \cup {Prompt, Ending}
      OBVIOUS
    <3> QED BY <2>1, <3>1, HistoryIs, SeqMonotonic
  <2>2. CASE h = <<>>
    BY <2>2, EmptySeq DEF InOrder
  <2> QED BY <2>1, <2>2
<1>5. Ending \in Events \cup {Prompt, Ending} /\ Ending \in Nat
  BY ConstantsAssumption DEF Ending
<1>6. /\ Append(h, Ending) \in Seq(Events \cup {Prompt, Ending})
      /\ InOrder(Append(h, Ending), restarted)
      /\ Ending \in Members(Append(h, Ending))
  <2>1. InOrder(Append(h, Ending), restarted)
    BY <1>4, <1>5, InOrderAppended
  <2> DEFINE V == Events \cup {Prompt, Ending}
  <2>2. h \in Seq(V) /\ Ending \in V
    BY <1>4
  <2> HIDE DEF V
  <2>3. /\ Append(h, Ending) \in Seq(V)
        /\ Members(Append(h, Ending)) = Members(h) \cup {Ending}
    BY <2>2, Appended
  <2> QED BY <2>1, <2>3 DEF V
<1>7. view'[s] \in Seq(Events \cup {Prompt, Ending}) /\ InOrder(view'[s], restarted)
  BY <1>3, <1>4, <1>6
<1>8. place[s] = "failed" => Ending \in Shown(s)'
  BY <1>3, <1>6 DEF Shown, Members
<1>9. \A z \in Socket \ {s} : view'[z] = view[z]
  BY <1>1, <1>2
<1>10. view' = [view EXCEPT ![s] = view'[s]]
  BY <1>1, <1>3
<1>11. /\ place[s] \in {"failed", "finished"}
       /\ place' = [place EXCEPT ![s] = IF place[s] = "failed" THEN "in" ELSE "files"]
       /\ UNCHANGED <<emitted, redis, recorder, reply, missed>>
  BY DEF Settle, Goto
<1> QED BY <1>7, <1>8, <1>9, <1>10, <1>11

\* Sockets are where the code has awaits, and show events.
LEMMA SocketsTypedPreserved ==
  ASSUME TypeOK, RowsOrdered, [Next]_vars
  PROVE  SocketsTyped'
<1> DEFINE V == Events \cup {Prompt, Ending}
           W == Events' \cup {Prompt, Ending}
<1>0. /\ place \in [Socket -> Place]
      /\ reply \in [Socket -> Seq(Events)]
      /\ view \in [Socket -> Seq(V)]
      /\ missed \in [Socket -> SUBSET Events]
  BY DEF TypeOK
<1>1. /\ Events \subseteq Events' /\ \A q \in Seq(Events) : q \in Seq(Events')
      /\ \A q \in Seq(V) : q \in Seq(W)
  BY EventsStay, ListsStay
<1>2. /\ reply \in [Socket -> Seq(Events')] /\ view \in [Socket -> Seq(W)]
      /\ missed \in [Socket -> SUBSET Events']
  BY <1>0, <1>1
<1>3. <<>> \in Seq(Events') /\ <<>> \in Seq(W) /\ Ending \in W
  BY EmptySeq
<1>4. Ending' = Ending /\ Prompt' = Prompt
  BY DEF Ending, Prompt
<1>5. ASSUME /\ place' \in [Socket -> Place]
             /\ reply' \in [Socket -> Seq(Events')]
             /\ view' \in [Socket -> Seq(W)]
             /\ missed' \in [Socket -> SUBSET Events']
      PROVE  SocketsTyped'
  BY <1>4, <1>5 DEF SocketsTyped
<1>6. CASE Tells
  <2>1. PICK kind \in Kind : Emit(kind)
    BY <1>6 DEF Tells
  <2>2. Coming \in Events'
    BY <2>1, EmitAdds
  <2>3. /\ view' = [s \in Socket |-> IF InRoom(s) THEN Append(view[s], Coming) ELSE view[s]]
        /\ missed' = [s \in Socket |-> IF place[s] = "answered" /\ reply[s] # <<>>
                                       THEN missed[s] \cup {Coming} ELSE missed[s]]
        /\ UNCHANGED <<place, reply>>
    BY <2>1 DEF Emit, Coming
  <2>4. \A s \in Socket : Append(view[s], Coming) \in Seq(W)
    <3> TAKE s \in Socket
    <3>1. view[s] \in Seq(W) /\ Coming \in W
      BY <1>2, <2>2
    <3> HIDE DEF W
    <3> QED BY <3>1, Appended
  <2> HIDE DEF W, V
  <2>5. view' \in [Socket -> Seq(W)]
    BY <1>2, <2>3, <2>4
  <2>6. missed' \in [Socket -> SUBSET Events']
    BY <1>2, <2>2, <2>3
  <2> QED BY <1>0, <1>2, <1>5, <2>3, <2>5, <2>6
<1>7. ASSUME NEW s \in Socket, Meets(s) PROVE SocketsTyped'
  <2> HIDE DEF W
  <2>1. CASE Join(s)
    BY <1>0, <1>1, <1>2, <1>5, <2>1 DEF Join, Goto, Place
  <2>2. CASE Answer(s)
    <3>1. buffer \in Seq(Events') /\ {pushing[i] : i \in DOMAIN pushing} \subseteq Events'
      <4>1. pushing \in Seq(Events) /\ buffer \in Seq(Events)
        BY DEF TypeOK
      <4>2. Members(pushing) \subseteq Events
        BY <4>1, ListIs
      <4> QED BY <1>1, <4>1, <4>2 DEF Members
    <3>2. reply' = [reply EXCEPT ![s] = buffer] \/ reply' = [reply EXCEPT ![s] = <<>>]
      BY <2>2 DEF Answer
    <3>3. reply' \in [Socket -> Seq(Events')]
      BY <1>2, <1>3, <3>1, <3>2
    <3>4. missed' = [missed EXCEPT ![s] = IF reply'[s] = <<>> THEN missed[s]
                                          ELSE {pushing[i] : i \in DOMAIN pushing}]
      BY <2>2 DEF Answer
    <3>5. missed' \in [Socket -> SUBSET Events']
      BY <1>2, <3>1, <3>4
    <3>6. view' = view /\ place' = [place EXCEPT ![s] = "answered"]
      BY <2>2 DEF Answer, Goto
    <3> QED BY <1>0, <1>2, <1>5, <3>3, <3>5, <3>6 DEF Place
  <2>3. CASE Replay(s)
    <3>1. \/ view' = [view EXCEPT ![s] = reply[s]] /\ reply' = [reply EXCEPT ![s] = <<>>]
          \/ UNCHANGED <<view, reply>>
      BY <2>3 DEF Replay
    <3>2. missed' = missed /\ place' \in {[place EXCEPT ![s] = "in"], [place EXCEPT ![s] = "row"]}
      BY <2>3 DEF Replay, Goto
    <3>3. reply[s] \in Seq(W)
      <4>1. reply[s] \in Seq(Events') /\ Events' \subseteq W
        BY <1>2 DEF W
      <4> QED BY <4>1, SeqMonotonic
    <3> QED BY <1>0, <1>2, <1>3, <1>5, <3>1, <3>2, <3>3 DEF Place
  <2>4. CASE ReadRow(s)
    BY <1>0, <1>2, <1>5, <2>4 DEF ReadRow, Goto, Place
  <2>5. CASE Settle(s)
    <3>1. view'[s] \in Seq(W)
      BY <1>1, <2>5, SettleDoes DEF V
    <3>2. /\ view' = [view EXCEPT ![s] = view'[s]] /\ UNCHANGED <<reply, missed>>
          /\ place' = [place EXCEPT ![s] = IF place[s] = "failed" THEN "in" ELSE "files"]
      BY <2>5, SettleDoes
    <3> DEFINE w == view'[s]
    <3>3. w \in Seq(W) /\ view' = [view EXCEPT ![s] = w]
      BY <3>1, <3>2
    <3> HIDE DEF w
    <3>4. view' \in [Socket -> Seq(W)]
      BY <1>2, <3>3
    <3> QED BY <1>0, <1>2, <1>5, <3>2, <3>4 DEF Place
  <2>6. CASE SettleComplete(s)
    <3>1. view' = [view EXCEPT ![s] = Append(view[s], Ending)]
      BY <2>6 DEF SettleComplete
    <3>2. Append(view[s], Ending) \in Seq(W)
      BY <1>2, <1>3, Appended
    <3>3. view' \in [Socket -> Seq(W)]
      BY <1>2, <3>1, <3>2
    <3> QED BY <1>0, <1>2, <1>5, <2>6, <3>3 DEF SettleComplete, Goto, Place
  <2>7. CASE Leave(s)
    BY <1>0, <1>2, <1>3, <1>5, <2>7 DEF Leave, Goto, Place
  <2> QED BY <1>7, <2>1, <2>2, <2>3, <2>4, <2>5, <2>6, <2>7 DEF Meets
<1>8. CASE Restart
  <2> HIDE DEF W
  <2> QED BY <1>0, <1>2, <1>3, <1>5, <1>8 DEF Restart, Place
<1>9. CASE \/ UNCHANGED <<emitted, redis, recorder, sockets>> \/ Push \/ Expire
           \/ \E r \in inserts : Insert(r) \/ InsertFails(r)
  <2> HIDE DEF W
  <2>1. UNCHANGED sockets
    BY <1>9 DEF Push, Expire, Insert, InsertFails
  <2> QED BY <1>0, <1>2, <1>5, <2>1 DEF sockets
<1> QED BY <1>6, <1>7, <1>8, <1>9, Steps

\* Those that build, cancel and stop are where the code has awaits.
ActorsTyped ==
  /\ row \in {"running", "cancelled", "failed", "success"}
  /\ runner \in {"working", "success", "failed", "gone"}
  /\ cancel \in [Cancel -> {"none", "flag", "row", "done"}]
  /\ stopping \in {"no", "told", "closed"}

LEMMA ActorsTypedPreserved ==
  ASSUME TypeOK, [Next]_vars
  PROVE  ActorsTyped'
<1>0. ActorsTyped
  BY DEF TypeOK, ActorsTyped
<1>1. ASSUME UNCHANGED actors PROVE ActorsTyped'
  BY <1>0, <1>1 DEF ActorsTyped, actors
<1>2. CASE (\E kind \in Kind : Go(kind)) \/ AttemptFails
  BY <1>1, <1>2 DEF Go, AttemptFails
<1>3. CASE NoticeCancel \/ TellEnd
  BY <1>0, <1>3 DEF NoticeCancel, TellEnd, ActorsTyped
<1>4. ASSUME NEW status \in {"failed", "success"}, CloseRow(status) PROVE ActorsTyped'
  BY <1>0, <1>4 DEF CloseRow, ActorsTyped
<1>5. ASSUME NEW c \in Cancel, AskCancel(c) \/ CloseCancelled(c) \/ TellCancel(c)
      PROVE  ActorsTyped'
  BY <1>0, <1>5 DEF AskCancel, CloseCancelled, TellCancel, SetCancel, ActorsTyped
<1>6. CASE Stop \/ StopRow
  BY <1>0, <1>6 DEF Stop, StopRow, ActorsTyped
<1>7. CASE Restart
  BY <1>0, <1>7 DEF Restart, ActorsTyped
<1>8. CASE \/ Push \/ Expire \/ (\E r \in inserts : Insert(r) \/ InsertFails(r))
           \/ (\E s \in Socket : Meets(s)) \/ UNCHANGED vars
  BY <1>1, <1>8 DEF Push, Expire, Insert, InsertFails, Meets, Join, Answer, Replay, ReadRow,
     Settle, SettleComplete, Leave, vars
<1> QED BY <1>2, <1>3, <1>4, <1>5, <1>6, <1>7, <1>8 DEF Next, Meets

\* The types are kept.
LEMMA TypePreserved ==
  ASSUME TypeOK, RowsOrdered, [Next]_vars
  PROVE  TypeOK'
<1>1. emitted' \in Seq(Kind) /\ Len(emitted') <= MaxEvents
  BY EventsStay
<1>2. ActorsTyped'
  BY ActorsTypedPreserved
<1>3. RedisTyped' /\ RowsTyped' /\ SocketsTyped'
  BY RedisTypedPreserved, RowsTypedPreserved, SocketsTypedPreserved
<1> QED BY <1>1, <1>2, <1>3 DEF TypeOK, ActorsTyped, RedisTyped, RowsTyped, SocketsTyped

-----------------------------------------------------------------------------
(* The list in Redis.                                                      *)

\* What an event that is told adds to the list.
LEMMA TellsPushes ==
  ASSUME Tells
  PROVE  /\ buffer' = buffer
         /\ \/ pushing' = Append(pushing, Coming) /\ unpushed' = unpushed
            \/ pushing' = pushing /\ unpushed' = unpushed \cup {Coming}
BY DEF Tells, Emit, Coming

\* The steps that leave Redis alone.
LEMMA RedisRests ==
  ASSUME [Next]_vars, ~Tells, ~Push, ~Expire, ~Restart
  PROVE  UNCHANGED <<pushing, buffer, unpushed>>
<1>1. CASE UNCHANGED <<emitted, redis, recorder, sockets>>
  BY <1>1 DEF redis
<1>2. CASE \E r \in inserts : Insert(r) \/ InsertFails(r)
  BY <1>2 DEF Insert, InsertFails, redis
<1>3. CASE \E s \in Socket : Meets(s)
  BY <1>3 DEF Meets, Join, Answer, Replay, ReadRow, Settle, SettleComplete, Leave, redis
<1> QED BY <1>1, <1>2, <1>3, Steps

\* The pushes come in order.
LEMMA BufferRisesPreserved ==
  ASSUME TypeOK, BufferRises, [Next]_vars
  PROVE  BufferRises'
<1>0. /\ pushing \in Seq(Events) /\ buffer \in Seq(Events) /\ Events \in SUBSET Nat
      /\ Rising(buffer) /\ Rising(pushing)
      /\ \A i \in DOMAIN buffer, j \in DOMAIN pushing : buffer[i] < pushing[j]
  BY EventsAre DEF TypeOK, BufferRises
<1>1. BufferRises' = (/\ Rising(buffer') /\ Rising(pushing')
                      /\ \A i \in DOMAIN buffer', j \in DOMAIN pushing' : buffer'[i] < pushing'[j])
  BY DEF BufferRises, Rising
<1>2. CASE Tells
  <2>1. PICK kind \in Kind : Emit(kind)
    BY <1>2 DEF Tells
  <2>2. Coming \in Nat /\ \A m \in Events : m < Coming
    BY <2>1, EmitAdds
  <2>3. /\ \A i \in DOMAIN buffer : buffer[i] < Coming
        /\ \A i \in DOMAIN pushing : pushing[i] < Coming
    BY <1>0, <2>2, ListIs
  <2>4. pushing \in Seq(Nat) /\ DOMAIN pushing = 1..Len(pushing) /\ Len(pushing) \in Nat
    BY <1>0, ListIs, SeqMonotonic
  <2>5. /\ Rising(Append(pushing, Coming)) /\ DOMAIN Append(pushing, Coming) = 1..Len(pushing) + 1
        /\ \A i \in 1..Len(pushing) : Append(pushing, Coming)[i] = pushing[i]
        /\ Append(pushing, Coming)[Len(pushing) + 1] = Coming
    <3>1. Nat \in SUBSET Nat
      OBVIOUS
    <3> QED BY <1>0, <2>2, <2>3, <2>4, <3>1, Appended, RisingAppended
  <2>6. CASE pushing' = Append(pushing, Coming)
    <3>1. \A i \in DOMAIN buffer, j \in DOMAIN pushing' : buffer[i] < pushing'[j]
      <4> TAKE i \in DOMAIN buffer, j \in DOMAIN pushing'
      <4>1. CASE j \in DOMAIN pushing
        BY <1>0, <2>4, <2>5, <2>6, <4>1
      <4>2. CASE j = Len(pushing) + 1
        BY <2>3, <2>5, <2>6, <4>2
      <4> QED BY <2>4, <2>5, <2>6, <4>1, <4>2
    <3> QED BY <1>0, <1>1, <1>2, <2>5, <2>6, <3>1, TellsPushes
  <2>7. CASE pushing' = pushing
    BY <1>0, <1>1, <1>2, <2>7, TellsPushes
  <2> QED BY <1>2, <2>6, <2>7, TellsPushes
<1>3. CASE Push
  <2>1. pushing # <<>> /\ buffer' = Append(buffer, Head(pushing)) /\ pushing' = Tail(pushing)
    BY <1>3 DEF Push
  <2>2. /\ Head(pushing) \in Events /\ Rising(Tail(pushing)) /\ Tail(pushing) \in Seq(Events)
        /\ Members(pushing) = Members(Tail(pushing)) \cup {Head(pushing)}
        /\ \A j \in DOMAIN Tail(pushing) : Head(pushing) < Tail(pushing)[j]
    BY <1>0, <2>1, RisingTail
  <2>3. /\ \A i \in DOMAIN buffer : \A m \in Members(pushing) : buffer[i] < m
        /\ \A j \in DOMAIN Tail(pushing) : Tail(pushing)[j] \in Members(pushing)
    BY <1>0, <2>2 DEF Members
  <2>4. \A i \in DOMAIN buffer : buffer[i] < Head(pushing)
    BY <2>2, <2>3
  <2>5. /\ Rising(buffer') /\ DOMAIN buffer' = 1..Len(buffer) + 1
        /\ \A i \in 1..Len(buffer) : buffer'[i] = buffer[i]
        /\ buffer'[Len(buffer) + 1] = Head(pushing)
    <3>1. Rising(buffer')
      BY <1>0, <2>1, <2>2, <2>4, RisingAppended
    <3> QED BY <1>0, <2>1, <2>2, <3>1, Appended
  <2>6. \A i \in DOMAIN buffer', j \in DOMAIN pushing' : buffer'[i] < pushing'[j]
    <3> TAKE i \in DOMAIN buffer', j \in DOMAIN pushing'
    <3>1. Len(buffer) \in Nat /\ DOMAIN buffer = 1..Len(buffer)
      BY <1>0, ListIs
    <3>2. CASE i \in DOMAIN buffer
      BY <2>1, <2>3, <2>5, <3>1, <3>2
    <3>3. CASE i = Len(buffer) + 1
      BY <2>1, <2>2, <2>5, <3>3
    <3> QED BY <2>5, <3>1, <3>2, <3>3
  <2> QED BY <1>1, <2>1, <2>2, <2>5, <2>6
<1>4. Rising(<<>>) /\ DOMAIN <<>> = {}
  BY DEF Rising
<1>5. CASE Expire
  <2>1. buffer' = <<>> /\ pushing' = pushing
    BY <1>5 DEF Expire
  <2> QED BY <1>0, <1>1, <1>4, <2>1
<1>6. CASE Restart
  <2>1. pushing' = <<>> /\ buffer' = buffer
    BY <1>6 DEF Restart
  <2> QED BY <1>0, <1>1, <1>4, <2>1
<1>7. CASE UNCHANGED <<pushing, buffer, unpushed>>
  BY <1>0, <1>1, <1>7
<1> QED BY <1>2, <1>3, <1>5, <1>6, <1>7, RedisRests

\* No event is lost unseen.
LEMMA BufferHoldsPreserved ==
  ASSUME TypeOK, BufferHolds, [Next]_vars
  PROVE  BufferHolds'
<1>0. /\ pushing \in Seq(Events) /\ buffer \in Seq(Events) /\ Events \in SUBSET Nat
      /\ Events \subseteq Members(buffer) \cup Members(pushing) \cup unpushed
  BY EventsAre DEF TypeOK, BufferHolds
<1>1. ASSUME Events' \subseteq Members(buffer') \cup Members(pushing') \cup unpushed'
      PROVE  BufferHolds'
  BY <1>1 DEF BufferHolds, Members
<1>2. CASE Tells
  <2>1. PICK kind \in Kind : Emit(kind)
    BY <1>2 DEF Tells
  <2>2. Coming \in Nat /\ Events' = Events \cup {Coming}
    BY <2>1, EmitAdds
  <2>3. /\ buffer' = buffer
        /\ \/ pushing' = Append(pushing, Coming) /\ unpushed' = unpushed
           \/ pushing' = pushing /\ unpushed' = unpushed \cup {Coming}
    BY <1>2, TellsPushes
  <2>4. Members(Append(pushing, Coming)) = Members(pushing) \cup {Coming}
    <3>1. pushing \in Seq(Nat)
      BY <1>0, SeqMonotonic
    <3> QED BY <2>2, <3>1, Appended
  <2> QED BY <1>0, <1>1, <2>2, <2>3, <2>4
<1>3. CASE ~Tells
  <2>1. Events' = Events
    BY <1>3, EventsStay
  <2>2. CASE Push
    <3>1. pushing # <<>> /\ buffer' = Append(buffer, Head(pushing)) /\ pushing' = Tail(pushing)
          /\ unpushed' = unpushed
      BY <2>2 DEF Push
    <3>2. Head(pushing) \in Events /\ Members(pushing) = Members(Tail(pushing)) \cup {Head(pushing)}
      <4>1. Head(pushing) \in Events /\ Tail(pushing) \in Seq(Events)
        BY <1>0, <3>1, HeadTailProperties
      <4>2. Members(pushing) = Members(Tail(pushing)) \cup {Head(pushing)}
        BY <1>0, <3>1, HeadAndTail
      <4> QED BY <4>1, <4>2
    <3>3. Members(buffer') = Members(buffer) \cup {Head(pushing)}
      BY <1>0, <3>1, <3>2, Appended
    <3> QED BY <1>0, <1>1, <2>1, <3>1, <3>2, <3>3
  <2>3. CASE Expire
    <3>1. pushing' = pushing /\ unpushed' = unpushed \cup Members(buffer)
      BY <2>3 DEF Expire, Members
    <3> QED BY <1>0, <1>1, <2>1, <3>1
  <2>4. CASE Restart
    <3>1. pushing' = <<>> /\ buffer' = buffer /\ unpushed' = unpushed \cup Members(pushing)
      BY <2>4 DEF Restart, Members
    <3> QED BY <1>0, <1>1, <2>1, <3>1
  <2>5. CASE UNCHANGED <<pushing, buffer, unpushed>>
    BY <1>0, <1>1, <2>1, <2>5
  <2> QED BY <1>3, <2>2, <2>3, <2>4, <2>5, RedisRests
<1> QED BY <1>2, <1>3

-----------------------------------------------------------------------------
(* The sockets.                                                            *)

\* A step of one socket leaves the others alone.
LEMMA OthersRest ==
  ASSUME TypeOK, RowsOrdered, NEW s \in Socket, Meets(s)
  PROVE  /\ UNCHANGED <<emitted, pushing, buffer, unpushed, restarted>>
         /\ \A z \in Socket \ {s} : /\ place'[z] = place[z] /\ reply'[z] = reply[z]
                                    /\ view'[z] = view[z] /\ missed'[z] = missed[z]
<1>0. /\ DOMAIN place = Socket /\ DOMAIN reply = Socket /\ DOMAIN view = Socket
      /\ DOMAIN missed = Socket
  BY DEF TypeOK
<1>1. UNCHANGED <<emitted, pushing, buffer, unpushed, restarted>>
  BY DEF Meets, Join, Answer, Replay, ReadRow, Settle, SettleComplete, Leave, redis, recorder
<1>2. CASE Join(s)
  BY <1>0, <1>1, <1>2 DEF Join, Goto
<1>3. CASE Answer(s)
  <2>1. reply' = [reply EXCEPT ![s] = buffer] \/ reply' = [reply EXCEPT ![s] = <<>>]
    BY <1>3 DEF Answer
  <2>2. missed' = [missed EXCEPT ![s] = IF reply'[s] = <<>> THEN missed[s]
                                        ELSE {pushing[i] : i \in DOMAIN pushing}]
    BY <1>3 DEF Answer
  <2>3. view' = view /\ place' = [place EXCEPT ![s] = "answered"]
    BY <1>3 DEF Answer, Goto
  <2> QED BY <1>0, <1>1, <2>1, <2>2, <2>3
<1>4. CASE Replay(s)
  BY <1>0, <1>1, <1>4 DEF Replay, Goto
<1>5. CASE ReadRow(s)
  BY <1>0, <1>1, <1>5 DEF ReadRow, Goto
<1>6. CASE Settle(s)
  <2>1. /\ \A z \in Socket \ {s} : view'[z] = view[z]
        /\ place' = [place EXCEPT ![s] = IF place[s] = "failed" THEN "in" ELSE "files"]
        /\ reply' = reply /\ missed' = missed
    BY <1>6, SettleDoes
  <2> QED BY <1>0, <1>1, <2>1
<1>7. CASE SettleComplete(s)
  BY <1>0, <1>1, <1>7 DEF SettleComplete, Goto
<1>8. CASE Leave(s)
  BY <1>0, <1>1, <1>8 DEF Leave, Goto
<1> QED BY <1>2, <1>3, <1>4, <1>5, <1>6, <1>7, <1>8 DEF Meets

\* Answers keep the order of the list they copy.
LEMMA RepliesRisePreserved ==
  ASSUME TypeOK, RowsOrdered, BufferRises, RepliesRise, [Next]_vars
  PROVE  RepliesRise'
<1>0. /\ reply \in [Socket -> Seq(Events)] /\ \A z \in Socket : Rising(reply[z])
      /\ Rising(buffer) /\ Rising(<<>>)
  BY DEF TypeOK, RepliesRise, BufferRises, Rising
<1>1. ASSUME \A z \in Socket : Rising(reply'[z]) PROVE RepliesRise'
  BY <1>1 DEF RepliesRise, Rising
<1>2. CASE Tells \/ UNCHANGED <<emitted, redis, recorder, sockets>> \/ Push \/ Expire
           \/ \E r \in inserts : Insert(r) \/ InsertFails(r)
  <2>1. reply' = reply
    BY <1>2 DEF Tells, Emit, Push, Expire, Insert, InsertFails, sockets
  <2> QED BY <1>0, <1>1, <2>1
<1>3. CASE Restart
  <2>1. \A z \in Socket : reply'[z] = <<>>
    BY <1>3 DEF Restart
  <2> QED BY <1>0, <1>1, <2>1
<1>4. ASSUME NEW s \in Socket, Meets(s) PROVE RepliesRise'
  <2>1. reply'[s] \in {reply[s], buffer, <<>>}
    BY <1>0, <1>4, SettleDoes DEF Meets, Join, Answer, Replay, ReadRow, SettleComplete, Leave
  <2>2. \A z \in Socket \ {s} : reply'[z] = reply[z]
    BY <1>4, OthersRest
  <2> QED BY <1>0, <1>1, <2>1, <2>2
<1> QED BY <1>2, <1>3, <1>4, Steps

\* What a client shows of an event that is told, and what it misses.
LEMMA TellsShows ==
  ASSUME TypeOK, Tells, NEW s \in Socket
  PROVE  /\ place'[s] = place[s] /\ reply'[s] = reply[s] /\ unpushed \subseteq unpushed'
         /\ Events' = Events \cup {Coming} /\ Coming # Ending
         /\ place[s] # "out" => view'[s] = Append(view[s], Coming)
                                /\ Shown(s)' = Shown(s) \cup {Coming}
         /\ place[s] = "out" => view'[s] = view[s]
         /\ missed'[s] = IF place[s] = "answered" /\ reply[s] # <<>>
                         THEN missed[s] \cup {Coming} ELSE missed[s]
<1>1. PICK kind \in Kind : Emit(kind)
  BY DEF Tells
<1>2. Coming \in Nat \ {0} /\ Coming <= MaxEvents /\ Events' = Events \cup {Coming}
  BY <1>1, EmitAdds
<1>3. Coming # Ending
  BY <1>2, ConstantsAssumption DEF Ending
<1>4. /\ view' = [z \in Socket |-> IF InRoom(z) THEN Append(view[z], Coming) ELSE view[z]]
      /\ missed' = [z \in Socket |-> IF place[z] = "answered" /\ reply[z] # <<>>
                                     THEN missed[z] \cup {Coming} ELSE missed[z]]
      /\ place' = place /\ reply' = reply
      /\ (unpushed' = unpushed \/ unpushed' = unpushed \cup {Coming})
  BY <1>1 DEF Emit, Coming
<1>5. ASSUME place[s] # "out"
      PROVE  view'[s] = Append(view[s], Coming) /\ Shown(s)' = Shown(s) \cup {Coming}
  <2>1. view'[s] = Append(view[s], Coming)
    BY <1>4, <1>5 DEF InRoom
  <2> DEFINE W == Events' \cup {Prompt, Ending}
  <2>2. view[s] \in Seq(Events \cup {Prompt, Ending})
    BY DEF TypeOK
  <2>3. Events \cup {Prompt, Ending} \subseteq W /\ Coming \in W
    BY <1>2
  <2> HIDE DEF W
  <2>4. view[s] \in Seq(W)
    BY <2>2, <2>3, SeqMonotonic
  <2>5. Members(Append(view[s], Coming)) = Members(view[s]) \cup {Coming}
    BY <2>3, <2>4, Appended
  <2>6. Shown(s) = Members(view[s]) /\ Shown(s)' = Members(view'[s])
    BY DEF Shown, Members
  <2> QED BY <2>1, <2>5, <2>6
<1>6. place[s] = "out" => view'[s] = view[s]
  BY <1>4 DEF InRoom
<1> QED BY <1>2, <1>3, <1>4, <1>5, <1>6

\* A socket that does nothing keeps what it has.
LEMMA CompleteKept ==
  ASSUME NEW s \in Socket, Complete(s), Events' = Events, unpushed \subseteq unpushed',
         place'[s] = place[s], reply'[s] = reply[s], view'[s] = view[s], missed'[s] = missed[s]
  PROVE  Complete(s)'
<1>1. Shown(s)' = Shown(s)
  BY DEF Shown
<1>2. Members(reply[s])' = Members(reply[s])
  BY DEF Members
<1> QED BY <1>1, <1>2 DEF Complete

\* Whoever joins has every event in what it shows, in the answer on its way, or
\* named as missed.
LEMMA NobodyLeftOutPreserved ==
  ASSUME TypeOK, RowsOrdered, BufferHolds, NobodyLeftOut, [Next]_vars
  PROVE  NobodyLeftOut'
<1>0. /\ place \in [Socket -> Place]
      /\ reply \in [Socket -> Seq(Events)]
      /\ view \in [Socket -> Seq(Events \cup {Prompt, Ending})]
      /\ missed \in [Socket -> SUBSET Events]
      /\ \A z \in Socket : Complete(z)
  BY DEF TypeOK, NobodyLeftOut
<1>1. ASSUME \A z \in Socket : Complete(z)' PROVE NobodyLeftOut'
  BY <1>1 DEF NobodyLeftOut
<1>2. CASE Tells
  <2>1. ASSUME NEW z \in Socket PROVE Complete(z)'
    <3>1. /\ place'[z] = place[z] /\ reply'[z] = reply[z] /\ unpushed \subseteq unpushed'
          /\ Events' = Events \cup {Coming} /\ Coming # Ending
          /\ place[z] # "out" => Shown(z)' = Shown(z) \cup {Coming}
          /\ missed'[z] = IF place[z] = "answered" /\ reply[z] # <<>>
                          THEN missed[z] \cup {Coming} ELSE missed[z]
      BY <1>2, TellsShows
    <3>2. Members(reply[z])' = Members(reply[z])
      BY <3>1 DEF Members
    <3>3. CASE place[z] = "out"
      BY <3>1, <3>3 DEF Complete
    <3>4. CASE place[z] # "out"
      BY <1>0, <3>1, <3>2, <3>4 DEF Complete
    <3> QED BY <3>3, <3>4
  <2> QED BY <1>1, <2>1
<1>3. CASE UNCHANGED <<emitted, redis, recorder, sockets>> \/ Push \/ Expire
           \/ \E r \in inserts : Insert(r) \/ InsertFails(r)
  <2>1. UNCHANGED <<emitted, place, reply, view, missed>> /\ unpushed \subseteq unpushed'
    BY <1>3 DEF Push, Expire, Insert, InsertFails, sockets, redis
  <2>2. Events' = Events
    BY <2>1 DEF Events
  <2> QED BY <1>0, <1>1, <2>1, <2>2, CompleteKept
<1>4. CASE Restart
  <2>1. \A z \in Socket : place'[z] = "out"
    BY <1>4 DEF Restart
  <2> QED BY <1>1, <2>1 DEF Complete
<1>5. ASSUME NEW s \in Socket, Meets(s) PROVE NobodyLeftOut'
  <2>0. /\ UNCHANGED <<emitted, pushing, buffer, unpushed>>
        /\ \A z \in Socket \ {s} : /\ place'[z] = place[z] /\ reply'[z] = reply[z]
                                   /\ view'[z] = view[z] /\ missed'[z] = missed[z]
    BY <1>5, OthersRest
  <2>1. Events' = Events
    BY <2>0 DEF Events
  <2>2. \A z \in Socket \ {s} : Complete(z)'
    BY <1>0, <2>0, <2>1, CompleteKept
  <2>3. Complete(s)'
    <3>0. Shown(s) = Members(view[s]) /\ Shown(s)' = Members(view'[s])
      BY DEF Shown, Members
    <3>1. CASE Join(s)
      <4>1. place'[s] = "ask" /\ missed'[s] = Events
        BY <1>0, <3>1 DEF Join, Goto
      <4> QED BY <2>1, <4>1 DEF Complete
    <3>2. CASE Answer(s)
      <4>1. /\ place[s] = "ask" /\ place'[s] = "answered" /\ view' = view
            /\ reply'[s] = <<>> \/ reply'[s] = buffer
        BY <1>0, <3>2 DEF Answer, Goto
      <4>2. missed'[s] = IF reply'[s] = <<>> THEN missed[s] ELSE Members(pushing)
        <5>1. missed' = [missed EXCEPT ![s] = IF reply'[s] = <<>> THEN missed[s]
                                        ELSE {pushing[i] : i \in DOMAIN pushing}]
          BY <3>2 DEF Answer
        <5> QED BY <1>0, <5>1 DEF Members
      <4>3. Shown(s)' = Shown(s) /\ Events \subseteq Shown(s) \cup missed[s]
        BY <1>0, <3>0, <4>1 DEF Complete
      <4>4. CASE reply'[s] = <<>>
        BY <2>1, <4>1, <4>2, <4>3, <4>4 DEF Complete
      <4>5. CASE reply'[s] # <<>>
        <5>1. Events \subseteq Members(buffer) \cup Members(pushing) \cup unpushed
          BY <4>1, <4>5 DEF BufferHolds
        <5>2. Events' \subseteq Members(reply'[s]) \cup missed'[s] \cup unpushed'
          BY <2>0, <2>1, <4>1, <4>2, <4>5, <5>1
        <5>3. Members(reply[s])' = Members(reply'[s])
          BY DEF Members
        <5> QED BY <4>1, <4>5, <5>2, <5>3 DEF Complete
      <4> QED BY <4>4, <4>5
    <3>3. CASE Replay(s)
      <4>1. /\ place[s] = "answered" /\ missed'[s] = missed[s]
            /\ \/ reply[s] # <<>> /\ view'[s] = reply[s] /\ place'[s] = "in"
               \/ reply[s] = <<>> /\ view'[s] = view[s] /\ place'[s] = "row"
        BY <1>0, <3>3 DEF Replay, Goto
      <4>2. CASE reply[s] # <<>>
        <5>1. Shown(s)' = Members(reply[s])
          BY <3>0, <4>1, <4>2
        <5>2. Events \subseteq Members(reply[s]) \cup missed[s] \cup unpushed
          BY <1>0, <4>1, <4>2 DEF Complete
        <5> QED BY <2>0, <2>1, <4>1, <4>2, <5>1, <5>2 DEF Complete
      <4>3. CASE reply[s] = <<>>
        <5>1. Shown(s)' = Shown(s) /\ Events \subseteq Shown(s) \cup missed[s]
          BY <1>0, <3>0, <4>1, <4>3 DEF Complete
        <5> QED BY <2>1, <4>1, <4>3, <5>1 DEF Complete
      <4> QED BY <4>2, <4>3
    <3>4. CASE ReadRow(s)
      <4>1. /\ place[s] = "row" /\ place'[s] \in {"failed", "finished", "in"}
            /\ view' = view /\ missed' = missed
        BY <1>0, <3>4 DEF ReadRow, Goto
      <4>2. Shown(s)' = Shown(s) /\ Events \subseteq Shown(s) \cup missed[s]
        BY <1>0, <3>0, <4>1 DEF Complete
      <4> QED BY <2>1, <4>1, <4>2 DEF Complete
    <3>5. CASE Settle(s)
      <4>1. /\ place' = [place EXCEPT ![s] = IF place[s] = "failed" THEN "in" ELSE "files"]
            /\ place[s] = "failed" => Ending \in Shown(s)'
        BY <3>5, SettleDoes
      <4>2. place'[s] = IF place[s] = "failed" THEN "in" ELSE "files"
        BY <1>0, <4>1
      <4>3. Ending' = Ending
        BY DEF Ending
      <4> QED BY <4>1, <4>2, <4>3 DEF Complete
    <3>6. CASE SettleComplete(s)
      <4>1. view'[s] = Append(view[s], Ending) /\ place'[s] = "in"
        BY <1>0, <3>6 DEF SettleComplete, Goto
      <4> DEFINE V == Events \cup {Prompt, Ending}
      <4>2. view[s] \in Seq(V) /\ Ending \in V
        BY <1>0
      <4> HIDE DEF V
      <4>3. Ending \in Shown(s)' /\ Ending' = Ending
        BY <3>0, <4>1, <4>2, Appended DEF Ending
      <4> QED BY <4>1, <4>3 DEF Complete
    <3>7. CASE Leave(s)
      <4>1. place'[s] = "out"
        BY <1>0, <3>7 DEF Leave, Goto
      <4> QED BY <4>1 DEF Complete
    <3> QED BY <1>5, <3>1, <3>2, <3>3, <3>4, <3>5, <3>6, <3>7 DEF Meets
  <2> QED BY <1>1, <2>2, <2>3
<1> QED BY <1>2, <1>3, <1>4, <1>5, Steps

\* Once numbered again, a message stays so.
LEMMA RestartedStays ==
  ASSUME TypeOK, RowsOrdered, [Next]_vars
  PROVE  restarted \subseteq restarted'
<1>1. CASE Tells
  <2>1. PICK kind \in Kind : Emit(kind)
    BY <1>1 DEF Tells
  <2>2. Coming \in Nat /\ Record(Coming, kind)
    BY <2>1, EmitAdds DEF Emit, Coming
  <2> QED BY <2>2, RecordDoes
<1>2. CASE UNCHANGED <<emitted, redis, recorder, sockets>> \/ Push \/ Expire \/ Restart
           \/ \E r \in inserts : Insert(r) \/ InsertFails(r)
  BY <1>2 DEF Push, Expire, Restart, Insert, InsertFails, recorder
<1>3. ASSUME NEW s \in Socket, Meets(s) PROVE restarted \subseteq restarted'
  BY <1>3, OthersRest
<1> QED BY <1>1, <1>2, <1>3, Steps

\* A client shows the build in its order.
LEMMA ViewInOrderPreserved ==
  ASSUME TypeOK, RowsOrdered, RepliesRise, ViewInOrder, [Next]_vars
  PROVE  ViewInOrder'
<1>0. /\ reply \in [Socket -> Seq(Events)]
      /\ view \in [Socket -> Seq(Events \cup {Prompt, Ending})]
      /\ \A z \in Socket : Rising(reply[z])
      /\ \A z \in Socket : InOrder(view[z], restarted)
  BY DEF TypeOK, RepliesRise, ViewInOrder, InOrder
<1>1. ASSUME \A z \in Socket : InOrder(view'[z], restarted') PROVE ViewInOrder'
  BY <1>1 DEF ViewInOrder, InOrder, Ending
<1>2. restarted \subseteq restarted'
  BY RestartedStays
<1>3. CASE Tells
  <2>1. PICK kind \in Kind : Emit(kind)
    BY <1>3 DEF Tells
  <2>2. Coming \in Nat \ {0} /\ \A m \in Events : m < Coming
    BY <2>1, EmitAdds
  <2>3. \A m \in Events \cup {Prompt} : m < Coming
    BY <2>2 DEF Prompt
  <2>4. ASSUME NEW z \in Socket PROVE InOrder(view'[z], restarted')
    <3>1. InOrder(Append(view[z], Coming), restarted)
      BY <1>0, <2>2, <2>3, InOrderAppended
    <3>2. view'[z] = view[z] \/ view'[z] = Append(view[z], Coming)
      BY <1>3, TellsShows
    <3>3. InOrder(view'[z], restarted)
      BY <1>0, <3>1, <3>2
    <3> QED BY <1>2, <3>3, LessOrder
  <2> QED BY <1>1, <2>4
<1>4. CASE UNCHANGED <<emitted, redis, recorder, sockets>> \/ Push \/ Expire \/ Restart
           \/ \E r \in inserts : Insert(r) \/ InsertFails(r)
  <2>1. view' = view
    BY <1>4 DEF Push, Expire, Restart, Insert, InsertFails, sockets
  <2> QED BY <1>0, <1>1, <1>2, <2>1, LessOrder
<1>5. ASSUME NEW s \in Socket, Meets(s) PROVE ViewInOrder'
  <2>1. restarted' = restarted /\ \A z \in Socket \ {s} : view'[z] = view[z]
    BY <1>5, OthersRest
  <2>2. InOrder(view'[s], restarted)
    <3>1. CASE Settle(s)
      BY <3>1, SettleDoes
    <3>2. CASE SettleComplete(s)
      <4>1. view'[s] = Append(view[s], Ending)
        BY <1>0, <3>2 DEF SettleComplete
      <4>2. Ending \in Nat
        BY ConstantsAssumption DEF Ending
      <4> QED BY <1>0, <4>1, <4>2, InOrderAppended
    <3>3. CASE Replay(s)
      <4>1. view'[s] = reply[s] \/ view'[s] = view[s]
        BY <1>0, <3>3 DEF Replay
      <4> QED BY <1>0, <4>1, RisingInOrder
    <3>4. CASE Leave(s)
      <4>1. view'[s] = <<>>
        BY <1>0, <3>4 DEF Leave
      <4> QED BY <4>1 DEF InOrder
    <3>5. CASE Join(s) \/ Answer(s) \/ ReadRow(s)
      <4>1. view'[s] = view[s]
        BY <3>5 DEF Join, Answer, ReadRow
      <4> QED BY <1>0, <4>1
    <3> QED BY <1>5, <3>1, <3>2, <3>3, <3>4, <3>5 DEF Meets
  <2> QED BY <1>0, <1>1, <2>1, <2>2
<1> QED BY <1>3, <1>4, <1>5, Steps

-----------------------------------------------------------------------------
(* The rows.                                                               *)

\* The rows of one event have numbers of their own, in the order of its messages.
LEMMA NewRowsDiffer ==
  ASSUME seq \in Nat, open \in Nat, NEW n \in Nat, open < n
  PROVE  /\ \A r, t \in NewRows(n) : /\ r.seq = t.seq => r = t
                                     /\ r.seq < t.seq => r.msg < t.msg
         /\ \A r \in NewRows(n) : r.seq < IF open # 0 THEN seq + 2 ELSE seq + 1
<1>1. CASE open # 0
  <2> DEFINE a == [seq |-> seq, msg |-> open]
             b == [seq |-> seq + 1, msg |-> n]
  <2>1. NewRows(n) = {a, b}
    BY <1>1 DEF NewRows
  <2>2. a.seq = seq /\ b.seq = seq + 1 /\ a.msg = open /\ b.msg = n
    OBVIOUS
  <2> HIDE DEF a, b
  <2> QED BY <1>1, <2>1, <2>2
<1>2. CASE open = 0
  <2> DEFINE b == [seq |-> seq, msg |-> n]
  <2>1. NewRows(n) = {b}
    BY <1>2 DEF NewRows
  <2>2. b.seq = seq /\ b.msg = n
    OBVIOUS
  <2> HIDE DEF b
  <2> QED BY <1>2, <2>1, <2>2
<1> QED BY <1>1, <1>2

\* What the rows need beyond those of the invariant to be kept.
LEMMA KeptStays ==
  ASSUME UNCHANGED emitted, taken' = taken, restarted \subseteq restarted', unkept \subseteq unkept',
         MessagesKept,
         \A r \in stored \cup inserts :
           \/ r \in stored' \cup inserts' \/ r.msg \in unkept'
           \/ \E t \in taken : t # r /\ t.seq = r.seq /\ {r.msg, t.msg} \cap restarted' # {}
  PROVE  MessagesKept'
<1>1. Events' = Events
  BY DEF Events
<1>2. \A r \in taken : RowKept(r)'
  BY DEF MessagesKept, RowKept
<1> QED BY <1>1, <1>2 DEF MessagesKept

\* The invariant of the rows is about those written, which nothing takes away.
LEMMA SameRows ==
  ASSUME RowsOrdered, NextIsFree, NumbersDiffer,
         UNCHANGED <<emitted, taken, restarted>>,
         IsFiniteSet(stored'), stored' \cup inserts' \subseteq taken,
         \A r, t \in stored' : r.seq = t.seq => r = t,
         UNCHANGED <<first, seq, open>> \/ (open' = 0 /\ ~first')
  PROVE  RowsOrdered' /\ NextIsFree' /\ NumbersDiffer'
<1>1. Events' = Events /\ Prompt' = Prompt
  BY DEF Events, Prompt
<1>2. RowsOrdered'
  BY <1>1 DEF RowsOrdered
<1>3. NextIsFree'
  BY <1>1 DEF NextIsFree
<1>4. NumbersDiffer'
  BY DEF NumbersDiffer
<1> QED BY <1>2, <1>3, <1>4

\* An event that is told gets numbers of its own, as long as the entry is the first.
LEMMA TellsRows ==
  ASSUME TypeOK, RowsOrdered, NextIsFree, NumbersDiffer, MessagesKept, Tells
  PROVE  RowsOrdered' /\ NextIsFree' /\ NumbersDiffer' /\ MessagesKept'
<1>1. PICK kind \in Kind : Emit(kind)
  BY DEF Tells
<1> DEFINE n == Coming
<1>2. /\ n \in Nat \ {0} /\ Events' = Events \cup {n}
      /\ \A m \in Events : m < n /\ m \in Nat \ {0} /\ emitted'[m] = emitted[m]
      /\ emitted'[n] = kind /\ n \in Events'
  BY <1>1, EmitAdds
<1>3. Record(n, kind)
  BY <1>1 DEF Emit, Coming
<1> HIDE DEF n
<1>4. stored' = stored /\ unkept' = unkept
  BY <1>2, <1>3, RecordDoes
<1>5. /\ seq \in Nat /\ open \in Nat /\ open < n /\ open \in Events \cup {0} /\ Prompt = 0
      /\ IsFiniteSet(stored) /\ stored \cup inserts \subseteq taken
      /\ \A r \in taken : r.msg \in Events \cup {0} /\ r.msg < n
      /\ \A r \in taken : r.seq \in Nat /\ r.msg \in Nat
  BY <1>2 DEF TypeOK, RowsOrdered, NextIsFree, Prompt, Row
<1>6. restarted \subseteq restarted'
  BY <1>2, <1>3, RecordDoes
<1>7. Prompt' = Prompt
  BY DEF Prompt
<1>8. CASE kind = "text"
  <2>1. open' = n /\ UNCHANGED <<first, seq, inserts, taken, restarted>>
    BY <1>2, <1>3, <1>8, RecordDoes
  <2>2. RowsOrdered'
    BY <1>2, <1>4, <1>5, <2>1 DEF RowsOrdered, Prompt
  <2>3. NextIsFree'
    BY <1>2, <1>5, <2>1 DEF NextIsFree
  <2>4. NumbersDiffer'
    BY <2>1 DEF NumbersDiffer
  <2>5. MessagesKept'
    <3>1. ASSUME NEW m \in Events', emitted'[m] # "text" PROVE \E r \in taken' : r.msg = m
      <4>1. m \in Events /\ emitted[m] # "text"
        BY <1>2, <1>8, <3>1
      <4> QED BY <2>1, <4>1 DEF MessagesKept
    <3>2. \A r \in taken' : RowKept(r)'
      BY <1>4, <2>1 DEF MessagesKept, RowKept
    <3> QED BY <3>1, <3>2 DEF MessagesKept
  <2> QED BY <2>2, <2>3, <2>4, <2>5
<1>9. CASE kind # "text"
  <2>1. /\ open' = 0 /\ inserts' = inserts \cup NewRows(n) /\ taken' = taken \cup NewRows(n)
        /\ first' = (first /\ kind = "tool")
        /\ seq' = IF kind = "tool" THEN IF open # 0 THEN seq + 2 ELSE seq + 1 ELSE 0
        /\ restarted' = IF first THEN restarted ELSE restarted \cup NewMessages(n)
    BY <1>2, <1>3, <1>9, RecordDoes
  <2>2. /\ \E r \in NewRows(n) : r.msg = n
        /\ \A r \in NewRows(n) : r.msg \in NewMessages(n) /\ r.seq >= seq /\ r.seq \in Nat
    BY <1>2, <1>5, NewRowsAre DEF Row
  <2>3. /\ \A r, t \in NewRows(n) : /\ r.seq = t.seq => r = t
                                    /\ r.seq < t.seq => r.msg < t.msg
        /\ \A r \in NewRows(n) : r.seq < IF open # 0 THEN seq + 2 ELSE seq + 1
    BY <1>2, <1>5, NewRowsDiffer
  <2>4. /\ n \in NewMessages(n) /\ \A m \in NewMessages(n) : m \in Events' \cup {0}
        /\ \A r \in NewRows(n) : (open # 0 => r.msg \in {open, n}) /\ (open = 0 => r.msg = n)
    BY <1>2, <1>5, <2>2 DEF NewMessages
  <2>5. IsFiniteSet(stored') /\ stored' \cup inserts' \subseteq taken'
    BY <1>4, <1>5, <2>1
  <2>6. \A r \in taken' : r.msg \in Events' \cup {0}
    BY <1>2, <1>5, <2>1, <2>2, <2>4
  <2>7. \A r, t \in stored' : r.seq = t.seq => r = t
    BY <1>4 DEF RowsOrdered
  <2>8. \A r, t \in taken : r.seq < t.seq /\ {r.msg, t.msg} \cap restarted = {} => r.msg < t.msg
    BY DEF RowsOrdered
  <2>9. MessagesKept'
    <3>1. ASSUME NEW m \in Events', emitted'[m] # "text" PROVE \E r \in taken' : r.msg = m
      <4>1. CASE m = n
        BY <2>1, <2>2, <4>1
      <4>2. CASE m \in Events
        <5>1. emitted[m] # "text"
          BY <1>2, <3>1, <4>2
        <5> QED BY <2>1, <4>2, <5>1 DEF MessagesKept
      <4> QED BY <1>2, <4>1, <4>2
    <3>2. ASSUME NEW r \in taken' PROVE RowKept(r)'
      <4>1. CASE r \in taken
        <5>1. RowKept(r)
          BY <4>1 DEF MessagesKept
        <5> QED BY <1>4, <1>6, <2>1, <5>1 DEF RowKept
      <4>2. CASE r \in NewRows(n)
        BY <2>1, <4>2 DEF RowKept
      <4> QED BY <2>1, <4>1, <4>2
    <3> QED BY <3>1, <3>2 DEF MessagesKept
  <2>10. CASE first
    <3>1. restarted' = {} /\ restarted = {}
      BY <2>1, <2>10 DEF NextIsFree
    <3>2. \A r \in taken : r.seq < seq /\ (open # 0 => r.msg < open)
      BY <2>10 DEF NextIsFree
    <3>3. \A r, t \in taken' : r.seq < t.seq => r.msg < t.msg
      <4> TAKE r, t \in taken'
      <4>1. CASE r \in taken /\ t \in taken
        BY <2>8, <3>1, <4>1
      <4>2. CASE r \in taken /\ t \in NewRows(n)
        BY <1>5, <2>4, <3>2, <4>2
      <4>3. CASE r \in NewRows(n) /\ t \in taken
        <5>1. ~(r.seq < t.seq)
          BY <1>5, <2>2, <3>2, <4>3
        <5> QED BY <5>1
      <4>4. CASE r \in NewRows(n) /\ t \in NewRows(n)
        BY <2>3, <4>4
      <4> QED BY <2>1, <4>1, <4>2, <4>3, <4>4
    <3>4. \A r, t \in taken' : r.seq = t.seq => r = t
      <4> TAKE r, t \in taken'
      <4>1. CASE r \in taken /\ t \in taken
        BY <3>1, <4>1 DEF NumbersDiffer
      <4>2. CASE r \in taken /\ t \in NewRows(n)
        <5>1. r.seq # t.seq
          BY <1>5, <2>2, <3>2, <4>2
        <5> QED BY <5>1
      <4>3. CASE r \in NewRows(n) /\ t \in taken
        <5>1. r.seq # t.seq
          BY <1>5, <2>2, <3>2, <4>3
        <5> QED BY <5>1
      <4>4. CASE r \in NewRows(n) /\ t \in NewRows(n)
        BY <2>3, <4>4
      <4> QED BY <2>1, <4>1, <4>2, <4>3, <4>4
    <3>5. RowsOrdered'
      BY <2>5, <2>6, <2>7, <3>3 DEF RowsOrdered, Prompt
    <3>6. NextIsFree'
      <4>1. ASSUME first', NEW r \in taken' PROVE r.seq < seq'
        <5>1. seq' = IF open # 0 THEN seq + 2 ELSE seq + 1
          BY <2>1, <4>1
        <5>2. r.seq \in Nat /\ seq' \in Nat
          BY <1>5, <2>1, <2>2, <5>1
        <5>3. CASE r \in taken
          BY <1>5, <3>2, <5>1, <5>2, <5>3
        <5>4. CASE r \in NewRows(n)
          BY <2>3, <5>1, <5>4
        <5> QED BY <2>1, <5>3, <5>4
      <4> QED BY <2>1, <3>1, <4>1 DEF NextIsFree
    <3>7. NumbersDiffer'
      BY <3>4 DEF NumbersDiffer
    <3> QED BY <2>9, <3>5, <3>6, <3>7
  <2>11. CASE ~first
    <3>1. restarted' = restarted \cup NewMessages(n)
      BY <2>1, <2>11
    <3>2. \A r \in NewRows(n) : r.msg \in restarted'
      BY <2>2, <3>1
    <3>3. \A r, t \in taken' : {r.msg, t.msg} \cap restarted' = {} =>
            /\ r.seq < t.seq => r.msg < t.msg
            /\ r.seq = t.seq => r = t
      <4> TAKE r, t \in taken'
      <4>1. CASE r \in taken /\ t \in taken
        BY <2>8, <3>1, <4>1 DEF NumbersDiffer
      <4>2. CASE r \in NewRows(n) \/ t \in NewRows(n)
        BY <3>2, <4>2
      <4> QED BY <2>1, <4>1, <4>2
    <3>4. RowsOrdered'
      BY <2>5, <2>6, <2>7, <3>3 DEF RowsOrdered, Prompt
    <3>5. NextIsFree'
      BY <2>1, <2>11 DEF NextIsFree
    <3>6. NumbersDiffer'
      BY <3>3 DEF NumbersDiffer
    <3> QED BY <2>9, <3>4, <3>5, <3>6
  <2> QED BY <2>10, <2>11
<1> QED BY <1>8, <1>9

\* Only a row's own INSERT, a restart, or a number taken again takes it away.
LEMMA RowsPreserved ==
  ASSUME TypeOK, RowsOrdered, NextIsFree, NumbersDiffer, MessagesKept, [Next]_vars
  PROVE  RowsOrdered' /\ NextIsFree' /\ NumbersDiffer' /\ MessagesKept'
<1>0. /\ IsFiniteSet(stored) /\ stored \cup inserts \subseteq taken
      /\ \A r, t \in stored : r.seq = t.seq => r = t
  BY DEF RowsOrdered
<1>1. CASE Tells
  BY <1>1, TellsRows
<1>2. ASSUME NEW r \in inserts, Insert(r)
      PROVE  RowsOrdered' /\ NextIsFree' /\ NumbersDiffer' /\ MessagesKept'
  <2>1. /\ inserts' = inserts \ {r}
        /\ UNCHANGED <<emitted, first, seq, open, unkept, taken, restarted>>
        /\ stored' = IF \E t \in stored : t.seq = r.seq THEN stored ELSE stored \cup {r}
    BY <1>2 DEF Insert
  <2>2. IsFiniteSet(stored') /\ stored' \cup inserts' \subseteq taken
    <3>1. IsFiniteSet(stored \cup {r})
      BY <1>0, FS_AddElement
    <3> QED BY <1>0, <2>1, <3>1
  <2>3. \A q, t \in stored' : q.seq = t.seq => q = t
    BY <1>0, <2>1
  <2>4. RowsOrdered' /\ NextIsFree' /\ NumbersDiffer'
    BY <2>1, <2>2, <2>3, SameRows
  <2>5. r \in stored' \/ \E t \in taken : t # r /\ t.seq = r.seq /\ {r.msg, t.msg} \cap restarted # {}
    <3>1. CASE \E t \in stored : t.seq = r.seq
      <4>1. PICK t \in stored : t.seq = r.seq
        BY <3>1
      <4>2. CASE t = r
        BY <2>1, <4>1, <4>2
      <4>3. CASE t # r
        BY <1>0, <4>1, <4>3 DEF NumbersDiffer
      <4> QED BY <4>2, <4>3
    <3>2. CASE ~ \E t \in stored : t.seq = r.seq
      BY <2>1, <3>2
    <3> QED BY <3>1, <3>2
  <2>6. \A q \in stored \cup inserts : q = r \/ q \in stored' \cup inserts'
    BY <2>1
  <2>7. MessagesKept'
    BY <2>1, <2>5, <2>6, KeptStays
  <2> QED BY <2>4, <2>7
<1>3. ASSUME NEW r \in inserts, InsertFails(r)
      PROVE  RowsOrdered' /\ NextIsFree' /\ NumbersDiffer' /\ MessagesKept'
  <2>1. /\ inserts' = inserts \ {r}
        /\ UNCHANGED <<emitted, first, seq, open, stored, taken, restarted>>
        /\ unkept' = unkept \cup {r.msg}
    BY <1>3 DEF InsertFails
  <2>2. RowsOrdered' /\ NextIsFree' /\ NumbersDiffer'
    BY <1>0, <2>1, SameRows
  <2>3. MessagesKept'
    BY <2>1, KeptStays
  <2> QED BY <2>2, <2>3
<1>4. CASE Restart
  <2>1. /\ inserts' = {} /\ UNCHANGED <<emitted, stored, taken, restarted>>
        /\ open' = 0 /\ ~first'
        /\ unkept' = unkept \cup {r.msg : r \in inserts}
    BY <1>4 DEF Restart
  <2>2. RowsOrdered' /\ NextIsFree' /\ NumbersDiffer'
    BY <1>0, <2>1, SameRows
  <2>3. MessagesKept'
    BY <2>1, KeptStays
  <2> QED BY <2>2, <2>3
<1>5. CASE \/ UNCHANGED <<emitted, redis, recorder, sockets>> \/ Push \/ Expire
           \/ \E s \in Socket : Meets(s)
  <2>1. UNCHANGED <<emitted, first, seq, open, inserts, stored, unkept, taken, restarted>>
    BY <1>5 DEF Push, Expire, Meets, Join, Answer, Replay, ReadRow, Settle, SettleComplete,
       Leave, recorder
  <2>2. RowsOrdered' /\ NextIsFree' /\ NumbersDiffer'
    BY <1>0, <2>1, SameRows
  <2>3. MessagesKept'
    BY <2>1, KeptStays
  <2> QED BY <2>2, <2>3
<1> QED BY <1>1, <1>2, <1>3, <1>4, <1>5, Steps

-----------------------------------------------------------------------------
(* Theorems.                                                               *)

\* Nothing has happened yet: the prompt is on its way to the table.
LEMMA Initially ==
  ASSUME Init
  PROVE  IInv
<1>0. /\ emitted = <<>> /\ row = "running" /\ pushing = <<>> /\ buffer = <<>>
      /\ seq = 1 /\ open = 0 /\ inserts = {[seq |-> 0, msg |-> Prompt]} /\ stored = {}
      /\ unpushed = {} /\ unkept = {} /\ restarted = {} /\ taken = inserts /\ first = TRUE
      /\ runner = "working" /\ stopping = "no" /\ cancel = [c \in Cancel |-> "none"]
  BY DEF Init
<1>1. Events = {} /\ Len(emitted) = 0 /\ emitted \in Seq(Kind)
  BY <1>0, EmptySeq DEF Events
<1>2. <<>> \in Seq(Events) /\ <<>> \in Seq(Events \cup {Prompt, Ending}) /\ DOMAIN <<>> = {}
  BY EmptySeq
<1>3. [seq |-> 0, msg |-> Prompt] \in Row
  BY DEF Row, Prompt
<1>4. TypeOK
  <2>1. Len(emitted) <= MaxEvents
    BY <1>1, ConstantsAssumption
  <2>2. /\ place \in [Socket -> Place]
        /\ reply \in [Socket -> Seq(Events)]
        /\ view \in [Socket -> Seq(Events \cup {Prompt, Ending})]
        /\ missed \in [Socket -> SUBSET Events]
    BY <1>2 DEF Init, Place
  <2> QED BY <1>0, <1>1, <1>2, <1>3, <2>1, <2>2 DEF TypeOK
<1>5. BufferRises /\ BufferHolds
  BY <1>0, <1>1, <1>2 DEF BufferRises, BufferHolds, Rising
<1>6. \A s \in Socket : place[s] = "out" /\ reply[s] = <<>> /\ view[s] = <<>>
  BY DEF Init
<1>7. RepliesRise /\ NobodyLeftOut /\ ViewInOrder
  BY <1>2, <1>6 DEF RepliesRise, Rising, NobodyLeftOut, Complete, ViewInOrder
<1>8. taken = {[seq |-> 0, msg |-> Prompt]} /\ IsFiniteSet(stored)
  BY <1>0, FS_EmptySet
<1>9. RowsOrdered /\ NextIsFree /\ NumbersDiffer /\ MessagesKept
  BY <1>0, <1>1, <1>8 DEF RowsOrdered, NextIsFree, NumbersDiffer, MessagesKept, RowKept, Prompt
<1> QED BY <1>4, <1>5, <1>7, <1>9 DEF IInv

\* Every step keeps the invariant.
LEMMA Step ==
  ASSUME IInv, [Next]_vars
  PROVE  IInv'
<1>1. /\ TypeOK /\ BufferRises /\ BufferHolds /\ RepliesRise /\ NobodyLeftOut
      /\ RowsOrdered /\ NextIsFree /\ NumbersDiffer /\ ViewInOrder /\ MessagesKept
  BY DEF IInv
<1>2. TypeOK' /\ BufferRises' /\ BufferHolds' /\ RepliesRise'
  BY <1>1, TypePreserved, BufferRisesPreserved, BufferHoldsPreserved, RepliesRisePreserved
<1>3. NobodyLeftOut' /\ ViewInOrder'
  BY <1>1, NobodyLeftOutPreserved, ViewInOrderPreserved
<1>4. RowsOrdered' /\ NextIsFree' /\ NumbersDiffer' /\ MessagesKept'
  BY <1>1, RowsPreserved
<1> QED BY <1>2, <1>3, <1>4 DEF IInv

\* The invariant always holds.
THEOREM Invariant == Spec => []IInv
BY Initially, Step, PTL DEF Spec

\* The types are always those of TypeOK.
THEOREM TypeCorrect == Spec => []TypeOK
<1>1. IInv => TypeOK
  BY DEF IInv
<1> QED BY <1>1, Invariant, PTL

\* A client always shows every event once and in the order of the build, whatever it
\* had before and however the rows of a finished build reached the database, but for
\* messages numbered from 0 again (replayBuffer(), settleFinishedSession()).
THEOREM ViewInOrderAlways == Spec => []ViewInOrder
<1>1. IInv => ViewInOrder
  BY DEF IInv
<1> QED BY <1>1, Invariant, PTL

\* A client that joined never misses an event but those its missed and unpushed name
\* (emitToRoom(), join_session).
THEOREM NothingElseIsMissedAlways == Spec => []NothingElseIsMissed
<1>1. IInv => NothingElseIsMissed
  BY DEF IInv, NobodyLeftOut, Complete, NothingElseIsMissed
<1> QED BY <1>1, Invariant, PTL

\* Every message but the open text always has a row, there or on its way, unless its
\* own INSERT failed, a restart lost it, or its number was taken again after the
\* recorder dropped the session's entry: at an error, at an end told by the runner, a
\* cancel or a shutdown, or with the process (write(), recordEvent()).
THEOREM MessagesKeptAlways == Spec => []MessagesKept
<1>1. IInv => MessagesKept
  BY DEF IInv
<1> QED BY <1>1, Invariant, PTL

-----------------------------------------------------------------------------
(***************************************************************************)
(* The files of the replies of a build (ReplyFiles), for any replies.      *)
(***************************************************************************)
(***************************************************************************)
(* A set of numbers that is not empty has a least one.                     *)
(***************************************************************************)
LEMMA LeastOf ==
  ASSUME NEW T \in SUBSET Nat, T # {}
  PROVE  \E x \in T : \A y \in T : x <= y
<1> DEFINE R == OpToRel(<, Nat)
<1>1. IsWellFoundedOn(R, Nat)
  BY NatLessThanWellFounded
<1>2. \E x \in T : \A y \in T : ~ (<<y, x>> \in R)
  BY <1>1, WFMin
<1>3. \A x, y \in Nat : <<y, x>> \in R <=> y < x
  BY DEF OpToRel
<1> HIDE DEF R
<1>4. PICK x \in T : \A y \in T : ~ (<<y, x>> \in R)
  BY <1>2
<1>5. ASSUME NEW y \in T PROVE x <= y
  <2>1. x \in Nat /\ y \in Nat
    OBVIOUS
  <2>2. ~(y < x)
    BY <1>3, <1>4, <2>1
  <2> QED BY <2>1, <2>2
<1> QED BY <1>5

(***************************************************************************)
(* A set of numbers with 0 and the successor of each of its own is all.    *)
(***************************************************************************)
LEMMA ByInduction ==
  ASSUME NEW T \in SUBSET Nat, 0 \in T, \A n \in T : n + 1 \in T
  PROVE  T = Nat
<1>1. SUFFICES ASSUME Nat \ T # {} PROVE FALSE
  OBVIOUS
<1>2. PICK x \in Nat \ T : \A y \in Nat \ T : x <= y
  BY <1>1, LeastOf
<1>3. x # 0 /\ x - 1 \in Nat
  BY <1>2
<1>4. x - 1 \in T
  BY <1>2, <1>3
<1> QED BY <1>2, <1>3, <1>4

\* What is read of the first n lines, of one n after the other.
Reads(r, lines) ==
  /\ r[0] = NothingRead
  /\ \A n \in 1 .. Len(lines) : r[n] = ReadLine(r[n - 1], lines, n)

\* The entry point that is there without one, and what a reader has in the end.
Entry == [p \in {Index} |-> DefaultIndex]
Held(s) == IF s.open THEN ClaimBlock(s.claimed, s.path, s.body) ELSE s.claimed

(***************************************************************************)
(* The parser reads line by line, whatever the lines.                      *)
(***************************************************************************)
LEMMA ParserReads ==
  ASSUME NEW lines, Len(lines) \in Nat
  PROVE  \E r : /\ Reads(r, lines)
                /\ parseFilesFromContent(lines) = Merged(Held(r[Len(lines)]), Entry)
<1> DEFINE N == Len(lines)
           Begun(n, r) == r = [i \in 0 .. n |-> IF i = 0 THEN NothingRead
                                                ELSE ReadLine(r[i - 1], lines, i)]
           T == {n \in Nat : \E r : Begun(n, r)}
<1>1. 0 \in T
  <2> DEFINE r == [i \in 0 .. 0 |-> NothingRead]
  <2>1. r = [i \in 0 .. 0 |-> IF i = 0 THEN NothingRead ELSE ReadLine(r[i - 1], lines, i)]
    OBVIOUS
  <2> QED BY <2>1
<1>2. ASSUME NEW n \in T PROVE n + 1 \in T
  <2>1. n \in Nat
    OBVIOUS
  <2>2. PICK r : Begun(n, r)
    OBVIOUS
  <2> DEFINE q == [i \in 0 .. n + 1 |-> IF i = n + 1 THEN ReadLine(r[n], lines, n + 1) ELSE r[i]]
  <2>3. ASSUME NEW i \in 0 .. n + 1
        PROVE  q[i] = IF i = 0 THEN NothingRead ELSE ReadLine(q[i - 1], lines, i)
    <3>1. CASE i = n + 1
      <4>1. i # 0 /\ i - 1 = n /\ n \in 0 .. n + 1 /\ n # n + 1
        BY <2>1, <3>1
      <4>2. q[n] = r[n]
        BY <4>1
      <4>3. q[i] = ReadLine(r[n], lines, n + 1)
        BY <3>1
      <4> HIDE DEF q
      <4> QED BY <3>1, <4>1, <4>2, <4>3
    <3>2. CASE i # n + 1
      <4>1. i \in 0 .. n /\ q[i] = r[i]
        BY <2>1, <3>2
      <4>2. i # 0 => i - 1 \in 0 .. n /\ q[i - 1] = r[i - 1]
        BY <2>1, <4>1
      <4>3. r[i] = IF i = 0 THEN NothingRead ELSE ReadLine(r[i - 1], lines, i)
        BY <2>2, <4>1
      <4> HIDE DEF q
      <4> QED BY <4>1, <4>2, <4>3
    <3> QED BY <3>1, <3>2
  <2>4. q = [i \in 0 .. n + 1 |-> q[i]]
    OBVIOUS
  <2>5. Begun(n + 1, q)
    <3> HIDE DEF q
    <3> QED BY <2>3, <2>4
  <2>6. n + 1 \in Nat
    BY <2>1
  <2> HIDE DEF q, Begun
  <2> QED BY <2>5, <2>6, Zenon
<1>3. T = Nat
  <2>1. T \subseteq Nat
    OBVIOUS
  <2> HIDE DEF T
  <2> QED BY <1>1, <1>2, <2>1, ByInduction
<1>4. \E r : Begun(N, r)
  BY <1>3
<1> DEFINE Body(r_) == [n \in 0 .. Len(lines) |-> IF n = 0 THEN NothingRead
                                                  ELSE ReadLine(r_[n - 1], lines, n)]
           c == CHOOSE r_ : r_ = Body(r_)
<1>5. c = Body(c)
  BY <1>4
<1>6. parseFilesFromContent(lines) = Merged(Held(c[Len(lines)]), Entry)
  BY DEF parseFilesFromContent, Held, Entry
<1>7. Reads(c, lines)
  <2> DEFINE k == Body(c)
  <2>1. \A n \in 0 .. Len(lines) : k[n] = IF n = 0 THEN NothingRead
                                          ELSE ReadLine(c[n - 1], lines, n)
    OBVIOUS
  <2>2. c = k
    BY <1>5
  <2> HIDE DEF c, k
  <2>3. \A n \in 0 .. Len(lines) : c[n] = IF n = 0 THEN NothingRead
                                          ELSE ReadLine(c[n - 1], lines, n)
    BY <2>1, <2>2
  <2> QED BY <2>3 DEF Reads
<1> HIDE DEF c
<1> QED BY <1>6, <1>7

NoneSummed == [inFence |-> FALSE, out |-> <<>>]
Sums(r, lines) ==
  /\ r[0] = NoneSummed
  /\ \A n \in 1 .. Len(lines) : r[n] = Summarise(r[n - 1], lines[n])

(***************************************************************************)
(* So does the summary.                                                    *)
(***************************************************************************)
LEMMA SummaryReads ==
  ASSUME NEW lines, Len(lines) \in Nat
  PROVE  \E r : /\ Sums(r, lines)
                /\ extractBuildSummary(lines) = r[Len(lines)].out
<1> DEFINE N == Len(lines)
           Begun(n, r) == r = [i \in 0 .. n |-> IF i = 0 THEN NoneSummed
                                                ELSE Summarise(r[i - 1], lines[i])]
           T == {n \in Nat : \E r : Begun(n, r)}
<1>1. 0 \in T
  <2> DEFINE r == [i \in 0 .. 0 |-> NoneSummed]
  <2>1. r = [i \in 0 .. 0 |-> IF i = 0 THEN NoneSummed ELSE Summarise(r[i - 1], lines[i])]
    OBVIOUS
  <2> QED BY <2>1
<1>2. ASSUME NEW n \in T PROVE n + 1 \in T
  <2>1. n \in Nat
    OBVIOUS
  <2>2. PICK r : Begun(n, r)
    OBVIOUS
  <2> DEFINE q == [i \in 0 .. n + 1 |-> IF i = n + 1 THEN Summarise(r[n], lines[n + 1]) ELSE r[i]]
  <2>3. ASSUME NEW i \in 0 .. n + 1
        PROVE  q[i] = IF i = 0 THEN NoneSummed ELSE Summarise(q[i - 1], lines[i])
    <3>1. CASE i = n + 1
      <4>1. i # 0 /\ i - 1 = n /\ n \in 0 .. n + 1 /\ n # n + 1
        BY <2>1, <3>1
      <4>2. q[n] = r[n]
        BY <4>1
      <4>3. q[i] = Summarise(r[n], lines[n + 1])
        BY <3>1
      <4> HIDE DEF q
      <4> QED BY <3>1, <4>1, <4>2, <4>3
    <3>2. CASE i # n + 1
      <4>1. i \in 0 .. n /\ q[i] = r[i]
        BY <2>1, <3>2
      <4>2. i # 0 => i - 1 \in 0 .. n /\ q[i - 1] = r[i - 1]
        BY <2>1, <4>1
      <4>3. r[i] = IF i = 0 THEN NoneSummed ELSE Summarise(r[i - 1], lines[i])
        BY <2>2, <4>1
      <4> HIDE DEF q
      <4> QED BY <4>1, <4>2, <4>3
    <3> QED BY <3>1, <3>2
  <2>4. q = [i \in 0 .. n + 1 |-> q[i]]
    OBVIOUS
  <2>5. Begun(n + 1, q)
    <3> HIDE DEF q
    <3> QED BY <2>3, <2>4
  <2>6. n + 1 \in Nat
    BY <2>1
  <2> HIDE DEF q, Begun
  <2> QED BY <2>5, <2>6, Zenon
<1>3. T = Nat
  <2>1. T \subseteq Nat
    OBVIOUS
  <2> HIDE DEF T
  <2> QED BY <1>1, <1>2, <2>1, ByInduction
<1>4. \E r : Begun(N, r)
  BY <1>3
<1> DEFINE Body(r_) == [n \in 0 .. Len(lines) |-> IF n = 0 THEN NoneSummed
                                                  ELSE Summarise(r_[n - 1], lines[n])]
           c == CHOOSE r_ : r_ = Body(r_)
<1>5. c = Body(c)
  BY <1>4
<1>6. extractBuildSummary(lines) = c[Len(lines)].out
  BY DEF extractBuildSummary, NoneSummed
<1>7. Sums(c, lines)
  <2> DEFINE k == Body(c)
  <2>1. \A n \in 0 .. Len(lines) : k[n] = IF n = 0 THEN NoneSummed
                                          ELSE Summarise(c[n - 1], lines[n])
    OBVIOUS
  <2>2. c = k
    BY <1>5
  <2> HIDE DEF c, k
  <2>3. \A n \in 0 .. Len(lines) : c[n] = IF n = 0 THEN NoneSummed
                                          ELSE Summarise(c[n - 1], lines[n])
    BY <2>1, <2>2
  <2> QED BY <2>3 DEF Sums
<1> HIDE DEF c
<1> QED BY <1>6, <1>7

Adds(r, blocks) ==
  /\ r[0] = NoFiles
  /\ \A n \in 1 .. Len(blocks) : r[n] = AddStated(r[n - 1], blocks[n])

(***************************************************************************)
(* What a reader sees is added block by block.                             *)
(***************************************************************************)
LEMMA StatedAdds ==
  ASSUME NEW blocks, Len(blocks) \in Nat
  PROVE  \E r : /\ Adds(r, blocks)
                /\ Stated(blocks) = r[Len(blocks)]
<1> DEFINE N == Len(blocks)
           Begun(n, r) == r = [i \in 0 .. n |-> IF i = 0 THEN NoFiles
                                                ELSE AddStated(r[i - 1], blocks[i])]
           T == {n \in Nat : \E r : Begun(n, r)}
<1>1. 0 \in T
  <2> DEFINE r == [i \in 0 .. 0 |-> NoFiles]
  <2>1. r = [i \in 0 .. 0 |-> IF i = 0 THEN NoFiles ELSE AddStated(r[i - 1], blocks[i])]
    OBVIOUS
  <2> QED BY <2>1
<1>2. ASSUME NEW n \in T PROVE n + 1 \in T
  <2>1. n \in Nat
    OBVIOUS
  <2>2. PICK r : Begun(n, r)
    OBVIOUS
  <2> DEFINE q == [i \in 0 .. n + 1 |-> IF i = n + 1 THEN AddStated(r[n], blocks[n + 1]) ELSE r[i]]
  <2>3. ASSUME NEW i \in 0 .. n + 1
        PROVE  q[i] = IF i = 0 THEN NoFiles ELSE AddStated(q[i - 1], blocks[i])
    <3>1. CASE i = n + 1
      <4>1. i # 0 /\ i - 1 = n /\ n \in 0 .. n + 1 /\ n # n + 1
        BY <2>1, <3>1
      <4>2. q[n] = r[n]
        BY <4>1
      <4>3. q[i] = AddStated(r[n], blocks[n + 1])
        BY <3>1
      <4> HIDE DEF q
      <4> QED BY <3>1, <4>1, <4>2, <4>3
    <3>2. CASE i # n + 1
      <4>1. i \in 0 .. n /\ q[i] = r[i]
        BY <2>1, <3>2
      <4>2. i # 0 => i - 1 \in 0 .. n /\ q[i - 1] = r[i - 1]
        BY <2>1, <4>1
      <4>3. r[i] = IF i = 0 THEN NoFiles ELSE AddStated(r[i - 1], blocks[i])
        BY <2>2, <4>1
      <4> HIDE DEF q
      <4> QED BY <4>1, <4>2, <4>3
    <3> QED BY <3>1, <3>2
  <2>4. q = [i \in 0 .. n + 1 |-> q[i]]
    OBVIOUS
  <2>5. Begun(n + 1, q)
    <3> HIDE DEF q
    <3> QED BY <2>3, <2>4
  <2>6. n + 1 \in Nat
    BY <2>1
  <2> HIDE DEF q, Begun
  <2> QED BY <2>5, <2>6, Zenon
<1>3. T = Nat
  <2>1. T \subseteq Nat
    OBVIOUS
  <2> HIDE DEF T
  <2> QED BY <1>1, <1>2, <2>1, ByInduction
<1>4. \E r : Begun(N, r)
  BY <1>3
<1> DEFINE Body(r_) == [n \in 0 .. Len(blocks) |-> IF n = 0 THEN NoFiles
                                                  ELSE AddStated(r_[n - 1], blocks[n])]
           c == CHOOSE r_ : r_ = Body(r_)
<1>5. c = Body(c)
  BY <1>4
<1>6. Stated(blocks) = c[Len(blocks)]
  BY DEF Stated
<1>7. Adds(c, blocks)
  <2> DEFINE k == Body(c)
  <2>1. \A n \in 0 .. Len(blocks) : k[n] = IF n = 0 THEN NoFiles
                                          ELSE AddStated(c[n - 1], blocks[n])
    OBVIOUS
  <2>2. c = k
    BY <1>5
  <2> HIDE DEF c, k
  <2>3. \A n \in 0 .. Len(blocks) : c[n] = IF n = 0 THEN NoFiles
                                          ELSE AddStated(c[n - 1], blocks[n])
    BY <2>1, <2>2
  <2> QED BY <2>3 DEF Adds
<1> HIDE DEF c
<1> QED BY <1>6, <1>7

\* The first n sequences of ss in one.
Joins(f, ss) ==
  /\ f[0] = <<>>
  /\ \A n \in 1 .. Len(ss) : f[n] = f[n - 1] \o ss[n]

(***************************************************************************)
(* Sequences are joined one after the other.                               *)
(***************************************************************************)
LEMMA JoinedInOrder ==
  ASSUME NEW S, NEW ss \in Seq(Seq(S))
  PROVE  \E f : Joins(f, ss) /\ FlattenSeq(ss) = f[Len(ss)]
<1> DEFINE N == Len(ss)
           Begun(n, r) == r = [i \in 1 .. n |-> IF i = 1 THEN ss[i] ELSE r[i - 1] \o ss[i]]
           T == {n \in Nat : \E r : Begun(n, r)}
<1>0. N \in Nat /\ \A n \in 1 .. N : ss[n] \in Seq(S)
  BY LenProperties, ElementOfSeq
<1>1. 0 \in T
  <2> DEFINE r == [i \in 1 .. 0 |-> <<>>]
  <2>1. r = [i \in 1 .. 0 |-> IF i = 1 THEN ss[i] ELSE r[i - 1] \o ss[i]]
    OBVIOUS
  <2> QED BY <2>1
<1>2. ASSUME NEW n \in T PROVE n + 1 \in T
  <2>1. n \in Nat
    OBVIOUS
  <2>2. PICK r : Begun(n, r)
    OBVIOUS
  <2> DEFINE more == IF n = 0 THEN ss[n + 1] ELSE r[n] \o ss[n + 1]
             q == [i \in 1 .. n + 1 |-> IF i = n + 1 THEN more ELSE r[i]]
  <2>3. ASSUME NEW i \in 1 .. n + 1
        PROVE  q[i] = IF i = 1 THEN ss[i] ELSE q[i - 1] \o ss[i]
    <3>1. CASE i = n + 1
      <4>1. q[i] = more
        BY <3>1
      <4>2. i # 1 => i - 1 = n /\ n \in 1 .. n + 1 /\ n # n + 1 /\ n # 0
        BY <2>1, <3>1
      <4>3. i # 1 => q[n] = r[n]
        BY <4>2
      <4>4. i = 1 => n = 0
        BY <2>1, <3>1
      <4> HIDE DEF q
      <4> QED BY <3>1, <4>1, <4>2, <4>3, <4>4
    <3>2. CASE i # n + 1
      <4>1. i \in 1 .. n /\ q[i] = r[i]
        BY <2>1, <3>2
      <4>2. i # 1 => i - 1 \in 1 .. n /\ q[i - 1] = r[i - 1]
        BY <2>1, <4>1
      <4>3. r[i] = IF i = 1 THEN ss[i] ELSE r[i - 1] \o ss[i]
        BY <2>2, <4>1
      <4> HIDE DEF q
      <4> QED BY <4>1, <4>2, <4>3
    <3> QED BY <3>1, <3>2
  <2>4. q = [i \in 1 .. n + 1 |-> q[i]]
    OBVIOUS
  <2>5. Begun(n + 1, q)
    <3> HIDE DEF q
    <3> QED BY <2>3, <2>4
  <2>6. n + 1 \in Nat
    BY <2>1
  <2> HIDE DEF q, Begun
  <2> QED BY <2>5, <2>6, Zenon
<1>3. T = Nat
  <2>1. T \subseteq Nat
    OBVIOUS
  <2> HIDE DEF T
  <2> QED BY <1>1, <1>2, <2>1, ByInduction
<1>4. \E r : Begun(N, r)
  BY <1>0, <1>3
<1> DEFINE Body(r_) == [i \in 1 .. Len(ss) |-> IF i = 1 THEN ss[i] ELSE r_[i - 1] \o ss[i]]
           c == CHOOSE r_ : r_ = Body(r_)
           f == [n \in 0 .. N |-> IF n = 0 THEN <<>> ELSE c[n]]
<1>5. c = Body(c)
  BY <1>4
<1>6. N # 0 => FlattenSeq(ss) = c[N]
  BY DEF FlattenSeq
<1>7. \A i \in 1 .. N : c[i] = IF i = 1 THEN ss[i] ELSE c[i - 1] \o ss[i]
  <2> DEFINE k == Body(c)
  <2>1. \A i \in 1 .. Len(ss) : k[i] = IF i = 1 THEN ss[i] ELSE c[i - 1] \o ss[i]
    OBVIOUS
  <2>2. c = k
    BY <1>5
  <2> HIDE DEF c, k
  <2> QED BY <2>1, <2>2
<1> HIDE DEF c
<1>8. ASSUME NEW n \in 1 .. N PROVE f[n] = f[n - 1] \o ss[n]
  <2>1. n \in 0 .. N /\ n # 0 /\ n - 1 \in 0 .. N
    BY <1>0
  <2>2. f[n] = c[n] /\ f[n - 1] = IF n = 1 THEN <<>> ELSE c[n - 1]
    BY <2>1
  <2>3. <<>> \o ss[n] = ss[n]
    BY <1>0, ConcatEmptySeq
  <2>4. c[n] = IF n = 1 THEN ss[n] ELSE c[n - 1] \o ss[n]
    BY <1>7
  <2> HIDE DEF f
  <2> QED BY <2>2, <2>3, <2>4
<1>9. f[0] = <<>>
  BY <1>0
<1>10. FlattenSeq(ss) = f[N]
  <2>1. CASE N = 0
    <3>1. FlattenSeq(ss) = ss
      BY <2>1 DEF FlattenSeq
    <3>2. ss = <<>>
      BY <2>1, EmptySeq
    <3> QED BY <2>1, <3>1, <3>2, <1>9
  <2>2. CASE N # 0
    BY <1>0, <1>6, <2>2
  <2> QED BY <2>1, <2>2
<1> HIDE DEF f
<1> QED BY <1>8, <1>9, <1>10 DEF Joins

\* Each sequence of ss stands in whole where the ones before it end.
Placed(whole, ss, ends) ==
  /\ ends[0] = 0 /\ ends[Len(ss)] = Len(whole)
  /\ \A k \in 1 .. Len(ss) :
       /\ ends[k - 1] \in Nat /\ ends[k] = ends[k - 1] + Len(ss[k]) /\ ends[k] <= Len(whole)
       /\ \A j \in 1 .. Len(ss[k]) : whole[ends[k - 1] + j] = ss[k][j]

(***************************************************************************)
(* So each of them is found again.                                         *)
(***************************************************************************)
LEMMA EachIsPlaced ==
  ASSUME NEW S, NEW ss \in Seq(Seq(S))
  PROVE  FlattenSeq(ss) \in Seq(S) /\ \E ends : Placed(FlattenSeq(ss), ss, ends)
<1>0. Len(ss) \in Nat /\ \A n \in 1 .. Len(ss) : ss[n] \in Seq(S)
  BY LenProperties, ElementOfSeq
<1>1. PICK f : Joins(f, ss) /\ FlattenSeq(ss) = f[Len(ss)]
  BY JoinedInOrder
<1> DEFINE Here(n, k, j) ==
             Len(f[k - 1]) + j \in 1 .. Len(f[n]) /\ f[n][Len(f[k - 1]) + j] = ss[k][j]
           So(n) == /\ f[n] \in Seq(S) /\ \A k \in 1 .. n : \A j \in 1 .. Len(ss[k]) : Here(n, k, j)
                    /\ \A k \in 1 .. n : Len(f[k]) <= Len(f[n])
           T == {n \in Nat : n <= Len(ss) => So(n)}
<1>2. 0 \in T
  <2>1. f[0] = <<>> /\ <<>> \in Seq(S)
    BY <1>1, EmptySeq DEF Joins
  <2>2. f[0] \in Seq(S)
    BY <2>1
  <2>3. \A k \in 1 .. 0 : FALSE
    OBVIOUS
  <2>4. So(0)
    <3> HIDE DEF Here
    <3> QED BY <2>2, <2>3
  <2> HIDE DEF So
  <2> QED BY <2>4
<1>3. ASSUME NEW n \in T PROVE n + 1 \in T
  <2> DEFINE m == n + 1
  <2>1. n \in Nat /\ m \in Nat /\ m - 1 = n
    OBVIOUS
  <2>2. SUFFICES ASSUME m <= Len(ss) PROVE So(m)
    BY <2>1
  <2>3. m \in 1 .. Len(ss) /\ n <= Len(ss)
    BY <1>0, <2>1, <2>2
  <2>4. So(n)
    BY <2>3
  <2>m. \A k \in 1 .. m : k = m \/ k \in 1 .. n
    BY <2>1
  <2> HIDE DEF m
  <2>5. f[m] = f[n] \o ss[m] /\ ss[m] \in Seq(S) /\ f[n] \in Seq(S)
    BY <1>0, <1>1, <2>1, <2>3, <2>4 DEF Joins
  <2> DEFINE x == f[n]
             y == ss[m]
  <2>6. x \in Seq(S) /\ y \in Seq(S) /\ f[m] = x \o y
    BY <2>5
  <2>7. Len(x) \in Nat /\ Len(y) \in Nat
    BY <2>6, LenProperties
  <2> HIDE DEF x, y
  <2>8. /\ x \o y \in Seq(S) /\ Len(x \o y) = Len(x) + Len(y)
        /\ \A i \in 1 .. Len(x) + Len(y) : (x \o y)[i] = IF i <= Len(x) THEN x[i] ELSE y[i - Len(x)]
    BY <2>6, ConcatProperties
  <2>9. /\ f[m] \in Seq(S) /\ Len(f[m]) = Len(x) + Len(y)
        /\ \A i \in 1 .. Len(x) + Len(y) : f[m][i] = IF i <= Len(x) THEN x[i] ELSE y[i - Len(x)]
    BY <2>6, <2>8
  <2>10. ASSUME NEW k \in 1 .. m, NEW j \in 1 .. Len(ss[k]) PROVE Here(m, k, j)
    <3>1. CASE k \in 1 .. n
      <4> DEFINE i == Len(f[k - 1]) + j
      <4>1. Here(n, k, j)
        BY <2>4, <3>1
      <4>2. i \in 1 .. Len(x) /\ x[i] = ss[k][j]
        BY <4>1 DEF x
      <4> HIDE DEF i
      <4>3. i \in 1 .. Len(x) + Len(y) /\ i <= Len(x)
        BY <2>7, <4>2
      <4>4. f[m][i] = x[i] /\ i \in 1 .. Len(f[m])
        BY <2>9, <4>3
      <4> QED BY <4>2, <4>4 DEF i
    <3>2. CASE k = m
      <4> DEFINE i == Len(x) + j
      <4>1. k - 1 = n /\ j \in 1 .. Len(y)
        BY <2>1, <3>2 DEF y
      <4>2. i \in 1 .. Len(x) + Len(y) /\ ~(i <= Len(x)) /\ i - Len(x) = j
        BY <2>7, <4>1
      <4>3. Len(f[k - 1]) + j = i
        BY <4>1 DEF x
      <4> HIDE DEF i
      <4>4. f[m][i] = y[j] /\ i \in 1 .. Len(f[m])
        BY <2>9, <4>2
      <4> QED BY <3>2, <4>3, <4>4 DEF y
    <3> QED BY <2>m, <3>1, <3>2
  <2>11. ASSUME NEW k \in 1 .. m PROVE Len(f[k]) <= Len(f[m])
    <3>1. CASE k \in 1 .. n
      <4>1. Len(f[k]) <= Len(x)
        BY <2>4, <3>1 DEF x
      <4>2. k \in 1 .. Len(ss) /\ Len(f[m]) = Len(x) + Len(y)
        BY <2>3, <2>9, <3>1, <1>0, <2>1
      <4>3. Len(f[k]) \in Int
        BY <4>1, <1>0, <1>1, <2>7
      <4> QED BY <2>7, <4>1, <4>2, <4>3
    <3>2. CASE k = m
      BY <2>7, <2>9, <3>2
    <3> QED BY <2>m, <3>1, <3>2
  <2> QED BY <2>9, <2>10, <2>11
<1>4. T = Nat
  <2>1. T \subseteq Nat
    OBVIOUS
  <2> HIDE DEF T
  <2> QED BY <1>2, <1>3, <2>1, ByInduction
<1>5. \A n \in 0 .. Len(ss) : So(n)
  <2>1. \A n \in 0 .. Len(ss) : n \in Nat /\ n <= Len(ss)
    BY <1>0
  <2>2. \A n \in Nat : n <= Len(ss) => So(n)
    BY <1>4
  <2> HIDE DEF So
  <2> QED BY <2>1, <2>2
<1> DEFINE ends == [n \in 0 .. Len(ss) |-> Len(f[n])]
           N == Len(ss)
<1>6. N \in 0 .. N /\ 0 \in 0 .. N
  BY <1>0
<1>7. So(N)
  BY <1>5, <1>6
<1>8. ASSUME NEW k \in 1 .. N
      PROVE  /\ ends[k - 1] \in Nat /\ ends[k] = ends[k - 1] + Len(ss[k])
             /\ ends[k] <= Len(FlattenSeq(ss))
             /\ \A j \in 1 .. Len(ss[k]) : FlattenSeq(ss)[ends[k - 1] + j] = ss[k][j]
  <2>1. k \in 0 .. N /\ k - 1 \in 0 .. N
    BY <1>0
  <2>2. ends[k] = Len(f[k]) /\ ends[k - 1] = Len(f[k - 1])
    BY <2>1
  <2>3. f[k - 1] \in Seq(S) /\ ss[k] \in Seq(S) /\ f[k] = f[k - 1] \o ss[k]
    BY <1>0, <1>1, <1>5, <2>1 DEF Joins
  <2> DEFINE x == f[k - 1]
             y == ss[k]
  <2>4. Len(x \o y) = Len(x) + Len(y) /\ Len(x) \in Nat
    <3>1. x \in Seq(S) /\ y \in Seq(S)
      BY <2>3
    <3> HIDE DEF x, y
    <3> QED BY <3>1, ConcatProperties, LenProperties
  <2>5. \A j \in 1 .. Len(ss[k]) : f[N][Len(f[k - 1]) + j] = ss[k][j]
    BY <1>7
  <2>6. Len(f[k]) <= Len(f[N])
    BY <1>7
  <2> HIDE DEF ends
  <2> QED BY <1>1, <2>2, <2>3, <2>4, <2>5, <2>6
<1>9. ends[0] = 0 /\ ends[N] = Len(FlattenSeq(ss))
  <2>1. ends[0] = Len(f[0]) /\ ends[N] = Len(f[N])
    BY <1>6
  <2>2. f[0] = <<>> /\ Len(<<>>) = 0
    BY <1>1 DEF Joins
  <2> HIDE DEF ends
  <2> QED BY <1>1, <2>1, <2>2
<1>10. Placed(FlattenSeq(ss), ss, ends)
  <2> HIDE DEF ends
  <2> QED BY <1>8, <1>9 DEF Placed
<1>11. FlattenSeq(ss) \in Seq(S)
  BY <1>1, <1>7
<1> HIDE DEF ends
<1> QED BY <1>10, <1>11

\* What a reply is made of.
Says == {"nothing", "language", "filename:", "language:path", "path"}
LineSet == TextLine \cup [is : {"fence"}, says : Says, path : Seq(STRING)]

(***************************************************************************)
(* The lines of a file are no fences.                                      *)
(***************************************************************************)
LEMMA TextIsNoFence ==
  ASSUME NEW x \in TextLine
  PROVE  x.is # "fence" /\ x \in LineSet
BY DEF TextLine, LineSet

(***************************************************************************)
(* What stands around them.                                                *)
(***************************************************************************)
LEMMA LinesAround ==
  /\ ProseLine \in LineSet /\ BlankLine \in LineSet
  /\ \A path \in Seq(STRING) : Heading(path) \in LineSet /\ Comment(path) \in TextLine
  /\ \A says \in Says : \A path \in Seq(STRING) : FenceLine(says, path) \in LineSet
  /\ NoPath \in Seq(STRING) /\ EndFence \in LineSet
<1>1. NoPath \in Seq(STRING)
  BY EmptySeq DEF NoPath
<1>2. \A says \in Says : \A path \in Seq(STRING) : FenceLine(says, path) \in LineSet
  BY DEF FenceLine, LineSet
<1>3. "nothing" \in Says
  BY DEF Says
<1>4. EndFence \in LineSet
  BY <1>1, <1>2, <1>3 DEF EndFence
<1>5. ProseLine \in LineSet /\ BlankLine \in LineSet
  BY DEF LineSet, TextLine, ProseLine, BlankLine
<1>6. \A path \in Seq(STRING) : Heading(path) \in LineSet /\ Comment(path) \in TextLine
  BY DEF LineSet, TextLine, Heading, Comment
<1> QED BY <1>1, <1>2, <1>4, <1>5, <1>6

\* The fence of a block is its line of this number.
FenceAt(b) == IF b.form = "heading" THEN b.gap + 3 ELSE 2
FenceOf(b) == IF b.form \in {"heading", "comment", "none"} THEN FenceLine("language", NoPath)
              ELSE FenceLine(b.form, b.raw)

(***************************************************************************)
(* The fields of a block.                                                  *)
(***************************************************************************)
LEMMA BlockFields ==
  ASSUME NEW b \in StatedBlock
  PROVE  /\ b.form \in {"filename:", "language:path", "path", "heading", "comment", "none"}
         /\ b.path \in Seq(STRING) /\ b.raw \in Seq(STRING) /\ b.gap \in 0 .. 2
         /\ b.body \in Seq(TextLine) /\ b.closed \in BOOLEAN
BY DEF StatedBlock

(***************************************************************************)
(* What announces a block ends with its fence.                             *)
(***************************************************************************)
LEMMA LeadInIs ==
  ASSUME NEW b \in StatedBlock
  PROVE  /\ LeadIn(b) \in Seq(LineSet) /\ Len(LeadIn(b)) + 1 = FenceAt(b)
         /\ LeadIn(b)[FenceAt(b) - 1] = FenceOf(b)
         /\ b.form = "heading" => /\ LeadIn(b)[1] = Heading(b.raw)
                                  /\ \A j \in 2 .. b.gap + 1 : LeadIn(b)[j] = BlankLine
<1>0. /\ b.form \in {"filename:", "language:path", "path", "heading", "comment", "none"}
      /\ b.raw \in Seq(STRING) /\ b.gap \in 0 .. 2
  BY BlockFields
<1>1. CASE b.form = "heading"
  <2> DEFINE x == <<Heading(b.raw)>>
             y == [i \in 1 .. b.gap |-> BlankLine]
             z == <<FenceLine("language", NoPath)>>
  <2>1. x \in Seq(LineSet) /\ Len(x) = 1 /\ x[1] = Heading(b.raw)
    <3>1. Heading(b.raw) \in LineSet
      BY <1>0, LinesAround
    <3> QED BY <3>1
  <2>2. z \in Seq(LineSet) /\ Len(z) = 1 /\ z[1] = FenceLine("language", NoPath)
    <3>1. "language" \in Says
      BY DEF Says
    <3>2. FenceLine("language", NoPath) \in LineSet
      BY <3>1, LinesAround
    <3> QED BY <3>2
  <2>3. y \in Seq(LineSet) /\ Len(y) = b.gap /\ \A i \in 1 .. b.gap : y[i] = BlankLine
    <3>1. BlankLine \in LineSet /\ b.gap \in Nat
      BY <1>0, LinesAround
    <3>2. y \in [1 .. b.gap -> LineSet]
      BY <3>1
    <3>3. y \in Seq(LineSet)
      BY <3>1, <3>2, SeqDef
    <3>4. DOMAIN y = 1 .. b.gap /\ Len(y) \in Nat /\ DOMAIN y = 1 .. Len(y)
      BY <3>3, LenProperties
    <3>5. Len(y) = b.gap
      <4> HIDE DEF y
      <4> QED BY <3>1, <3>4
    <3>6. \A i \in 1 .. b.gap : y[i] = BlankLine
      OBVIOUS
    <3> QED BY <3>3, <3>5, <3>6
  <2>4. LeadIn(b) = (x \o y) \o z
    BY <1>1 DEF LeadIn
  <2> HIDE DEF x, y, z
  <2>5. /\ x \o y \in Seq(LineSet) /\ Len(x \o y) = 1 + b.gap
        /\ \A i \in 1 .. 1 + b.gap : (x \o y)[i] = IF i <= 1 THEN x[i] ELSE y[i - 1]
    BY <2>1, <2>3, ConcatProperties
  <2> DEFINE w == x \o y
  <2>6. /\ w \in Seq(LineSet) /\ Len(w) = 1 + b.gap /\ LeadIn(b) = w \o z
        /\ w[1] = x[1] /\ \A i \in 2 .. b.gap + 1 : w[i] = BlankLine
    <3>1. w[1] = x[1]
      BY <1>0, <2>5
    <3>2. ASSUME NEW i \in 2 .. b.gap + 1 PROVE w[i] = BlankLine
      <4>1. i \in 1 .. 1 + b.gap /\ ~(i <= 1) /\ i - 1 \in 1 .. b.gap
        BY <1>0
      <4> QED BY <2>3, <2>5, <4>1
    <3> QED BY <2>4, <2>5, <3>1, <3>2
  <2> HIDE DEF w
  <2>7. /\ w \o z \in Seq(LineSet) /\ Len(w \o z) = b.gap + 2
        /\ \A i \in 1 .. b.gap + 2 : (w \o z)[i] = IF i <= 1 + b.gap THEN w[i] ELSE z[i - (1 + b.gap)]
    <3>1. /\ w \o z \in Seq(LineSet) /\ Len(w \o z) = Len(w) + Len(z)
          /\ \A i \in 1 .. Len(w) + Len(z) : (w \o z)[i] = IF i <= Len(w) THEN w[i] ELSE z[i - Len(w)]
      BY <2>2, <2>6, ConcatProperties
    <3>2. Len(w) + Len(z) = b.gap + 2
      BY <1>0, <2>2, <2>6
    <3> QED BY <2>6, <3>1, <3>2
  <2>8. FenceAt(b) = b.gap + 3 /\ FenceAt(b) - 1 = b.gap + 2 /\ FenceOf(b) = z[1]
    BY <1>0, <1>1, <2>2 DEF FenceAt, FenceOf
  <2>9. LeadIn(b)[b.gap + 2] = z[1]
    <3> DEFINE g == b.gap
    <3>1. g \in 0 .. 2
      BY <1>0
    <3> HIDE DEF g
    <3>2. g + 2 \in 1 .. g + 2 /\ ~(g + 2 <= 1 + g)
      BY <3>1
    <3>3. (g + 2) - (1 + g) = 1
      BY <3>1
    <3>4. LeadIn(b)[g + 2] = z[(g + 2) - (1 + g)]
      BY <2>6, <2>7, <3>2 DEF g
    <3> QED BY <3>3, <3>4 DEF g
  <2>10. LeadIn(b)[1] = Heading(b.raw)
    <3>1. 1 \in 1 .. b.gap + 2 /\ 1 <= 1 + b.gap
      BY <1>0
    <3> QED BY <2>1, <2>6, <2>7, <3>1
  <2>11. ASSUME NEW j \in 2 .. b.gap + 1 PROVE LeadIn(b)[j] = BlankLine
    <3>1. j \in 1 .. b.gap + 2 /\ j <= 1 + b.gap
      BY <1>0
    <3> QED BY <2>6, <2>7, <3>1
  <2>12. Len(LeadIn(b)) + 1 = FenceAt(b)
    BY <1>0, <2>6, <2>7, <2>8
  <2> QED BY <2>6, <2>7, <2>8, <2>9, <2>10, <2>11, <2>12
<1>2. CASE b.form # "heading"
  <2>1. LeadIn(b) = <<FenceOf(b)>> /\ FenceAt(b) = 2
    BY <1>2 DEF LeadIn, FenceAt, FenceOf
  <2>2. FenceOf(b) \in LineSet
    <3>1. "language" \in Says /\ (b.form \notin {"heading", "comment", "none"} => b.form \in Says)
      BY <1>0 DEF Says
    <3> QED BY <1>0, <3>1, LinesAround DEF FenceOf
  <2> QED BY <1>2, <2>1, <2>2
<1> QED BY <1>1, <1>2

(***************************************************************************)
(* What stands between its fences is text.                                 *)
(***************************************************************************)
LEMMA FencedIs ==
  ASSUME NEW b \in StatedBlock
  PROVE  Fenced(b) \in Seq(TextLine) /\ Len(Fenced(b)) \in Nat
<1>1. b.raw \in Seq(STRING) /\ b.body \in Seq(TextLine)
  BY BlockFields
<1>2. Comment(b.raw) \in TextLine
  BY <1>1, LinesAround
<1>3. Fenced(b) \in Seq(TextLine)
  <2> DEFINE c == <<Comment(b.raw)>>
             d == b.body
  <2>1. c \in Seq(TextLine) /\ d \in Seq(TextLine)
    BY <1>1, <1>2
  <2>2. Fenced(b) = IF b.form = "comment" THEN c \o d ELSE d
    BY DEF Fenced
  <2> HIDE DEF c, d
  <2>3. c \o d \in Seq(TextLine)
    BY <2>1, ConcatProperties
  <2> QED BY <2>1, <2>2, <2>3
<1> QED BY <1>3, LenProperties

\* The lines of a block: prose, what announces it, its fence, q, the text, and
\* the end of it.
Shaped(x, b, q, m) ==
  /\ x \in Seq(LineSet) /\ Len(x) = q + m + (IF b.closed THEN 1 ELSE 0)
  /\ x[1] = ProseLine /\ x[q] = FenceOf(b)
  /\ b.form = "heading" => x[2] = Heading(b.raw) /\ \A j \in 3 .. b.gap + 2 : x[j] = BlankLine
  /\ \A j \in 1 .. m : x[q + j] = Fenced(b)[j]
  /\ b.closed => x[q + m + 1] = EndFence

(***************************************************************************)
(* So is every block.                                                      *)
(***************************************************************************)
LEMMA RenderedIs ==
  ASSUME NEW b \in StatedBlock
  PROVE  Shaped(Rendered(b), b, FenceAt(b), Len(Fenced(b)))
<1> DEFINE p == <<ProseLine>>
           l == LeadIn(b)
           f == Fenced(b)
           e == IF b.closed THEN <<EndFence>> ELSE <<>>
           q == FenceAt(b)
           m == Len(f)
<1>1. p \in Seq(LineSet) /\ Len(p) = 1 /\ p[1] = ProseLine
  <2>1. ProseLine \in LineSet
    BY LinesAround
  <2> QED BY <2>1
<1>2. e \in Seq(LineSet) /\ Len(e) = (IF b.closed THEN 1 ELSE 0) /\ (b.closed => e[1] = EndFence)
  <2>1. EndFence \in LineSet
    BY LinesAround
  <2>2. CASE b.closed
    BY <2>1, <2>2
  <2>3. CASE ~b.closed
    BY <2>3, EmptySeq
  <2> QED BY <2>2, <2>3
<1>3. f \in Seq(LineSet) /\ m \in Nat
  <2>1. f \in Seq(TextLine) /\ m \in Nat
    BY FencedIs
  <2>2. TextLine \subseteq LineSet
    BY TextIsNoFence
  <2> HIDE DEF f
  <2> QED BY <2>1, <2>2, SeqMonotonic
<1>4. /\ l \in Seq(LineSet) /\ Len(l) + 1 = q /\ l[q - 1] = FenceOf(b)
      /\ b.form = "heading" => l[1] = Heading(b.raw) /\ \A j \in 2 .. b.gap + 1 : l[j] = BlankLine
  BY LeadInIs
<1>5. b.gap \in 0 .. 2 /\ q \in Nat /\ q >= 2 /\ (b.form = "heading" => q = b.gap + 3)
  BY BlockFields DEF FenceAt
<1>6. Rendered(b) = ((p \o l) \o f) \o e
  BY DEF Rendered
<1>7. Len(l) \in Nat
  BY <1>4, LenProperties
<1> HIDE DEF p, l, f, e, q
<1>8. /\ p \o l \in Seq(LineSet) /\ Len(p \o l) = q
      /\ \A i \in 1 .. q : (p \o l)[i] = IF i <= 1 THEN p[i] ELSE l[i - 1]
  <2>1. /\ p \o l \in Seq(LineSet) /\ Len(p \o l) = Len(p) + Len(l)
        /\ \A i \in 1 .. Len(p) + Len(l) : (p \o l)[i] = IF i <= Len(p) THEN p[i] ELSE l[i - Len(p)]
    BY <1>1, <1>4, ConcatProperties
  <2>2. Len(p) + Len(l) = q
    BY <1>1, <1>4, <1>5, <1>7
  <2> QED BY <1>1, <2>1, <2>2
<1> DEFINE w == p \o l
<1>9. /\ w \in Seq(LineSet) /\ Len(w) = q /\ w[1] = ProseLine /\ w[q] = FenceOf(b)
      /\ b.form = "heading" => w[2] = Heading(b.raw) /\ \A j \in 3 .. b.gap + 2 : w[j] = BlankLine
  <2>1. w[1] = ProseLine
    <3>1. 1 \in 1 .. q /\ 1 <= 1
      BY <1>5
    <3> QED BY <1>1, <1>8, <3>1
  <2>2. w[q] = FenceOf(b)
    <3>1. q \in 1 .. q /\ ~(q <= 1)
      BY <1>5
    <3> QED BY <1>4, <1>8, <3>1
  <2>3. ASSUME b.form = "heading"
        PROVE  w[2] = Heading(b.raw) /\ \A j \in 3 .. b.gap + 2 : w[j] = BlankLine
    <3>1. 2 \in 1 .. q /\ ~(2 <= 1) /\ 2 - 1 = 1
      BY <1>5
    <3>2. w[2] = Heading(b.raw)
      BY <1>4, <1>8, <2>3, <3>1
    <3>3. ASSUME NEW j \in 3 .. b.gap + 2 PROVE w[j] = BlankLine
      <4>1. j \in 1 .. q /\ ~(j <= 1) /\ j - 1 \in 2 .. b.gap + 1
        BY <1>5, <2>3
      <4>2. w[j] = l[j - 1]
        BY <1>8, <4>1
      <4> QED BY <1>4, <2>3, <4>1, <4>2
    <3> QED BY <3>2, <3>3
  <2> QED BY <1>8, <2>1, <2>2, <2>3
<1> HIDE DEF w
<1> DEFINE u == w \o f
<1>10. /\ u \in Seq(LineSet) /\ Len(u) = q + m
       /\ \A i \in 1 .. q + m : u[i] = IF i <= q THEN w[i] ELSE f[i - q]
  <2>1. /\ w \o f \in Seq(LineSet) /\ Len(w \o f) = Len(w) + Len(f)
        /\ \A i \in 1 .. Len(w) + Len(f) : (w \o f)[i] = IF i <= Len(w) THEN w[i] ELSE f[i - Len(w)]
    BY <1>3, <1>9, ConcatProperties
  <2> QED BY <1>9, <2>1
<1>11. Rendered(b) = u \o e
  BY <1>6 DEF w
<1> HIDE DEF u, m
<1> DEFINE x == u \o e
<1>12. /\ x \in Seq(LineSet) /\ Len(x) = q + m + (IF b.closed THEN 1 ELSE 0)
       /\ \A i \in 1 .. q + m + Len(e) : x[i] = IF i <= q + m THEN u[i] ELSE e[i - (q + m)]
  <2>1. /\ u \o e \in Seq(LineSet) /\ Len(u \o e) = Len(u) + Len(e)
        /\ \A i \in 1 .. Len(u) + Len(e) : (u \o e)[i] = IF i <= Len(u) THEN u[i] ELSE e[i - Len(u)]
    BY <1>2, <1>10, ConcatProperties
  <2> QED BY <1>2, <1>10, <2>1
<1> HIDE DEF x
<1>13. \A i \in 1 .. q + m : x[i] = u[i]
  <2>1. \A i \in 1 .. q + m : i \in 1 .. q + m + Len(e) /\ i <= q + m
    <3>1. Len(e) \in Nat
      BY <1>2
    <3> QED BY <1>3, <1>5, <3>1
  <2> QED BY <1>12, <2>1
<1>14. \A i \in 1 .. q : x[i] = w[i]
  <2>1. \A i \in 1 .. q : i \in 1 .. q + m /\ i <= q
    BY <1>3, <1>5
  <2> QED BY <1>10, <1>13, <2>1
<1>15. ASSUME NEW j \in 1 .. m PROVE x[q + j] = f[j]
  <2> DEFINE i == q + j
  <2>1. i \in 1 .. q + m /\ ~(i <= q) /\ i - q = j
    BY <1>3, <1>5
  <2> HIDE DEF i
  <2>2. x[i] = f[j]
    BY <1>10, <1>13, <2>1
  <2> QED BY <2>2 DEF i
<1>16. ASSUME b.closed PROVE x[q + m + 1] = EndFence
  <2> DEFINE i == q + m + 1
  <2>1. i \in 1 .. q + m + Len(e) /\ ~(i <= q + m) /\ i - (q + m) = 1
    <3>1. Len(e) = 1
      BY <1>2, <1>16
    <3> QED BY <1>3, <1>5, <3>1
  <2> HIDE DEF i
  <2>2. x[i] = e[1]
    BY <1>12, <2>1
  <2> QED BY <1>2, <1>16, <2>2 DEF i
<1>17. x[1] = ProseLine /\ x[q] = FenceOf(b)
  <2>1. 1 \in 1 .. q /\ q \in 1 .. q
    BY <1>5
  <2> QED BY <1>9, <1>14, <2>1
<1>18. b.form = "heading" => x[2] = Heading(b.raw) /\ \A j \in 3 .. b.gap + 2 : x[j] = BlankLine
  <2>1. b.form = "heading" => 2 \in 1 .. q /\ \A j \in 3 .. b.gap + 2 : j \in 1 .. q
    BY <1>5
  <2> QED BY <1>9, <1>14, <2>1
<1>19. Rendered(b) = x
  BY <1>11 DEF x
<1>20. Shaped(x, b, q, m)
  BY <1>12, <1>15, <1>16, <1>17, <1>18 DEF Shaped, f
<1> QED BY <1>19, <1>20 DEF q, m, f

\* The block stands in the lines after the first o.
Stands(lines, o, b) ==
  /\ o + Len(Rendered(b)) <= Len(lines)
  /\ \A j \in 1 .. Len(Rendered(b)) : lines[o + j] = Rendered(b)[j]

\* It is well formed, and the path its fence or heading gives.
Meant(b) ==
  /\ b.form # "none" => b.raw # NoPath /\ normalizePath(b.raw) = b.path
  /\ b.form = "none" /\ b.body # <<>> => b.body[1].is # "comment"
OwnPath(b) == IF b.form \in {"comment", "none"} THEN NoPath ELSE b.raw

(***************************************************************************)
(* Its lines, where they are.                                              *)
(***************************************************************************)
LEMMA StandingLines ==
  ASSUME NEW b \in StatedBlock, NEW lines, NEW o \in Nat, Stands(lines, o, b)
  PROVE  LET q == FenceAt(b)
             m == Len(Fenced(b))
         IN  /\ q \in Nat /\ q >= 2 /\ m \in Nat /\ (b.form = "heading" => q = b.gap + 3)
             /\ Len(Rendered(b)) = q + m + (IF b.closed THEN 1 ELSE 0)
             /\ lines[o + 1] = ProseLine /\ lines[o + q] = FenceOf(b)
             /\ b.form = "heading" =>
                  lines[o + 2] = Heading(b.raw) /\ \A j \in 3 .. b.gap + 2 : lines[o + j] = BlankLine
             /\ \A j \in 1 .. m : lines[o + (q + j)] = Fenced(b)[j]
             /\ b.closed => lines[o + (q + m + 1)] = EndFence
<1> DEFINE q == FenceAt(b)
           m == Len(Fenced(b))
           x == Rendered(b)
<1>1. Shaped(x, b, q, m)
  BY RenderedIs
<1>2. b.gap \in 0 .. 2 /\ q \in Nat /\ q >= 2 /\ (b.form = "heading" => q = b.gap + 3)
  BY BlockFields DEF FenceAt
<1>3. m \in Nat
  BY FencedIs
<1>4. \A j \in 1 .. Len(x) : lines[o + j] = x[j]
  BY DEF Stands
<1> HIDE DEF q, m, x
<1>5. Len(x) = q + m + (IF b.closed THEN 1 ELSE 0)
  BY <1>1 DEF Shaped
<1>6. 1 \in 1 .. Len(x) /\ q \in 1 .. Len(x) /\ \A j \in 1 .. m : q + j \in 1 .. Len(x)
  BY <1>2, <1>3, <1>5
<1>7. b.closed => q + m + 1 \in 1 .. Len(x)
  BY <1>2, <1>3, <1>5
<1>8. b.form = "heading" => 2 \in 1 .. Len(x) /\ \A j \in 3 .. b.gap + 2 : j \in 1 .. Len(x)
  BY <1>2, <1>3, <1>5
<1>9. lines[o + 1] = ProseLine /\ lines[o + q] = FenceOf(b)
  BY <1>1, <1>4, <1>6 DEF Shaped
<1>10. b.form = "heading" =>
         lines[o + 2] = Heading(b.raw) /\ \A j \in 3 .. b.gap + 2 : lines[o + j] = BlankLine
  BY <1>1, <1>4, <1>8 DEF Shaped
<1>11. ASSUME NEW j \in 1 .. m PROVE lines[o + (q + j)] = Fenced(b)[j]
  <2> DEFINE i == q + j
  <2>1. x[i] = Fenced(b)[j] /\ i \in 1 .. Len(x)
    BY <1>1, <1>6 DEF Shaped
  <2> HIDE DEF i
  <2>2. lines[o + i] = Fenced(b)[j]
    BY <1>4, <2>1
  <2> QED BY <2>2 DEF i
<1>12. ASSUME b.closed PROVE lines[o + (q + m + 1)] = EndFence
  <2> DEFINE i == q + m + 1
  <2>1. x[i] = EndFence /\ i \in 1 .. Len(x)
    BY <1>1, <1>7, <1>12 DEF Shaped
  <2> HIDE DEF i
  <2>2. lines[o + i] = EndFence
    BY <1>4, <2>1
  <2> QED BY <2>2 DEF i
<1> QED BY <1>2, <1>3, <1>5, <1>9, <1>10, <1>11, <1>12 DEF q, m, x

(***************************************************************************)
(* A heading no more than two blanks above a fence is the path of its      *)
(* block; a line of prose there ends the search.                           *)
(***************************************************************************)
LEMMA PathFound ==
  ASSUME NEW b \in StatedBlock, NEW lines \in Seq(LineSet), NEW o \in Nat,
         Stands(lines, o, b), Meant(b)
  PROVE  PathAt(lines, o + FenceAt(b)) = OwnPath(b)
<1> DEFINE q == FenceAt(b)
           i == o + q
           N == Len(lines)
<1>0. b.form \in {"filename:", "language:path", "path", "heading", "comment", "none"} /\ b.gap \in 0 .. 2
  BY BlockFields
<1>1. /\ q \in Nat /\ q >= 2 /\ (b.form = "heading" => q = b.gap + 3)
      /\ lines[o + 1] = ProseLine /\ lines[o + q] = FenceOf(b)
      /\ b.form = "heading" =>
           lines[o + 2] = Heading(b.raw) /\ \A j \in 3 .. b.gap + 2 : lines[o + j] = BlankLine
  BY StandingLines
<1>2. DOMAIN lines = 1 .. N /\ N \in Nat /\ i <= N
  <2>1. DOMAIN lines = 1 .. N /\ N \in Nat
    BY LenProperties
  <2>2. Len(Rendered(b)) = q + Len(Fenced(b)) + (IF b.closed THEN 1 ELSE 0) /\ Len(Fenced(b)) \in Nat
    BY StandingLines
  <2>3. o + Len(Rendered(b)) <= N
    BY DEF Stands
  <2> HIDE DEF q, N
  <2> QED BY <1>1, <2>1, <2>2, <2>3
<1>3. b.form # "heading" => q = 2
  BY DEF FenceAt
<1> HIDE DEF q, N
<1> DEFINE at(back) == IF i - back \in DOMAIN lines THEN lines[i - back] ELSE BlankLine
           stops(back) == at(back).is = "fence" \/ (back = 1 /\ at(back).is # "blank")
           named == {k \in 1 .. 3 : /\ at(k).is = "heading"
                                    /\ \A c \in 1 .. k - 1 : at(c).is # "heading" /\ ~stops(c)}
<1>4. Above(lines, i) = IF named = {} THEN NoPath ELSE at(Min(named)).path
  BY DEF Above
<1>5. lines[i] = FenceOf(b)
  BY <1>1
<1>6. \A back \in 1 .. q - 1 : at(back) = lines[o + (q - back)]
  <2>1. \A back \in 1 .. q - 1 : i - back \in DOMAIN lines /\ i - back = o + (q - back)
    BY <1>1, <1>2
  <2> HIDE DEF i
  <2> QED BY <2>1
<1> HIDE DEF at, i
<1>7. CASE b.form \in {"filename:", "language:path", "path"}
  <2>1. lines[i] = FenceLine(b.form, b.raw)
    BY <1>5, <1>7 DEF FenceOf
  <2>2. extractFencePath(lines[i]) = b.raw
    BY <1>7, <2>1 DEF extractFencePath, FenceLine
  <2>3. b.raw # NoPath
    BY <1>7 DEF Meant
  <2> QED BY <1>7, <2>2, <2>3 DEF PathAt, OwnPath, i, q
<1>8. CASE b.form \in {"comment", "none", "heading"}
  <2>1. lines[i] = FenceLine("language", NoPath)
    BY <1>5, <1>8 DEF FenceOf
  <2>2. extractFencePath(lines[i]) = NoPath
    BY <2>1 DEF extractFencePath, FenceLine
  <2>3. PathAt(lines, i) = Above(lines, i)
    BY <2>2 DEF PathAt
  <2>4. CASE b.form # "heading"
    <3>1. at(1) = ProseLine
      <4>1. q = 2 /\ 1 \in 1 .. q - 1 /\ q - 1 = 1
        BY <1>3, <2>4
      <4> QED BY <1>1, <1>6, <4>1
    <3>2. at(1).is # "heading" /\ stops(1)
      BY <3>1 DEF ProseLine
    <3>3. named = {}
      <4> HIDE DEF stops
      <4>1. ASSUME NEW k \in named PROVE FALSE
        <5>1. k # 1
          BY <3>2
        <5>2. 1 \in 1 .. k - 1
          BY <5>1
        <5> QED BY <3>2, <5>2
      <4> HIDE DEF named
      <4> QED BY <4>1
    <3> HIDE DEF named
    <3>4. Above(lines, i) = NoPath
      BY <1>4, <3>3
    <3> QED BY <1>8, <2>3, <2>4, <3>4 DEF OwnPath, i, q
  <2>5. CASE b.form = "heading"
    <3> DEFINE g == b.gap + 1
    <3>1. g \in 1 .. 3 /\ q = g + 2 /\ b.gap + 2 = g + 1
      BY <1>0, <1>1, <2>5
    <3> HIDE DEF g
    <3>2. at(g) = Heading(b.raw)
      <4>1. g \in 1 .. q - 1 /\ q - g = 2
        BY <3>1
      <4> QED BY <1>1, <1>6, <2>5, <4>1
    <3>3. ASSUME NEW c \in 1 .. g - 1 PROVE at(c) = BlankLine
      <4>1. c \in 1 .. q - 1 /\ q - c \in 3 .. g + 1
        BY <3>1
      <4>2. at(c) = lines[o + (q - c)]
        BY <1>6, <4>1
      <4> QED BY <1>1, <2>5, <3>1, <4>1, <4>2
    <3>4. at(g).is = "heading" /\ at(g).path = b.raw
      BY <3>2 DEF Heading
    <3>5. \A c \in 1 .. g - 1 : at(c).is # "heading" /\ ~stops(c)
      BY <3>3 DEF BlankLine
    <3>6. g \in named
      BY <3>1, <3>4, <3>5
    <3>7. ASSUME NEW k \in named PROVE k = g
      <4>0. k \in 1 .. 3
        OBVIOUS
      <4>1. CASE k < g
        <5>1. k \in 1 .. g - 1
          BY <3>1, <4>0, <4>1
        <5> QED BY <3>5, <5>1
      <4>2. CASE g < k
        <5>1. g \in 1 .. k - 1
          BY <3>1, <4>0, <4>2
        <5> QED BY <3>4, <5>1
      <4> QED BY <3>1, <4>0, <4>1, <4>2
    <3> HIDE DEF named
    <3>8. named = {g}
      BY <3>6, <3>7
    <3>9. Min(named) = g
      BY <3>1, <3>8 DEF Min
    <3>10. Above(lines, i) = b.raw
      BY <1>4, <3>4, <3>6, <3>9
    <3> QED BY <2>3, <2>5, <3>10 DEF OwnPath, i, q
  <2> QED BY <2>4, <2>5
<1> QED BY <1>0, <1>7, <1>8

\* A reader of the lines.
Reader(inside, path, body, claimed) ==
  [open : {inside}, path : {path}, body : {body}, claimed : {claimed}]

(***************************************************************************)
(* What a line makes of it: outside the fences nothing, inside one line    *)
(* more; a fence opens or closes.                                          *)
(***************************************************************************)
LEMMA ReaderOutside ==
  ASSUME NEW p, NEW d, NEW c, NEW s \in Reader(FALSE, p, d, c), NEW lines, NEW i,
         lines[i].is # "fence"
  PROVE  ReadLine(s, lines, i) \in Reader(FALSE, p, d, c)
BY DEF ReadLine, Reader

LEMMA ReaderInside ==
  ASSUME NEW p, NEW d, NEW c, NEW s \in Reader(TRUE, p, d, c), NEW lines, NEW i,
         lines[i].is # "fence"
  PROVE  ReadLine(s, lines, i) \in Reader(TRUE, p, Append(d, lines[i]), c)
<1> DEFINE x == Append(d, lines[i])
<1>1. ReadLine(s, lines, i) = [s EXCEPT !.body = x]
  BY DEF ReadLine, Reader
<1> HIDE DEF x
<1>2. [s EXCEPT !.body = x] \in Reader(TRUE, p, x, c)
  BY DEF Reader
<1> QED BY <1>1, <1>2 DEF x

LEMMA ReaderOpens ==
  ASSUME NEW p, NEW d, NEW c, NEW s \in Reader(FALSE, p, d, c), NEW lines, NEW i,
         lines[i].is = "fence"
  PROVE  ReadLine(s, lines, i) \in Reader(TRUE, PathAt(lines, i), <<>>, c)
<1> DEFINE y == PathAt(lines, i)
<1>1. ReadLine(s, lines, i) = [s EXCEPT !.open = TRUE, !.body = <<>>, !.path = y]
  BY DEF ReadLine, Reader
<1> HIDE DEF y
<1>2. [s EXCEPT !.open = TRUE, !.body = <<>>, !.path = y] \in Reader(TRUE, y, <<>>, c)
  BY DEF Reader
<1> QED BY <1>1, <1>2 DEF y

LEMMA ReaderCloses ==
  ASSUME NEW p, NEW d, NEW c, NEW s \in Reader(TRUE, p, d, c), NEW lines, NEW i,
         lines[i].is = "fence"
  PROVE  ReadLine(s, lines, i) \in Reader(FALSE, p, d, ClaimBlock(c, p, d))
<1> DEFINE t == [s EXCEPT !.open = FALSE, !.claimed = ClaimBlock(@, s.path, s.body)]
           k == ClaimBlock(c, p, d)
<1>1. s.open = TRUE /\ s.path = p /\ s.body = d /\ s.claimed = c
  BY DEF Reader
<1>2. ReadLine(s, lines, i) = t
  BY <1>1 DEF ReadLine
<1>3. t = [s EXCEPT !.open = FALSE, !.claimed = k]
  BY <1>1
<1> HIDE DEF k
<1>4. [s EXCEPT !.open = FALSE, !.claimed = k] \in Reader(FALSE, p, d, k)
  BY DEF Reader
<1> QED BY <1>2, <1>3, <1>4 DEF k

(***************************************************************************)
(* In the end it holds what it claimed, an open block included.            *)
(***************************************************************************)
LEMMA ClosedHolds ==
  ASSUME NEW p, NEW d, NEW c, NEW s \in Reader(FALSE, p, d, c)
  PROVE  Held(s) = c
BY DEF Reader, Held

LEMMA OpenHolds ==
  ASSUME NEW p, NEW d, NEW c, NEW s \in Reader(TRUE, p, d, c)
  PROVE  Held(s) = ClaimBlock(c, p, d)
<1>1. s.open = TRUE /\ s.path = p /\ s.body = d /\ s.claimed = c
  BY DEF Reader
<1> QED BY <1>1 DEF Held

(***************************************************************************)
(* The blank lines around a text are no part of it; the app's line is      *)
(* none of them, and what is left does not begin with one.                 *)
(***************************************************************************)
LEMMA TrimKeeps ==
  ASSUME NEW S, NEW code \in Seq(S)
  PROVE  /\ (\E i \in DOMAIN code : code[i].is # "blank") => trim(code) # <<>>
         /\ looksLikeApp(trim(code)) <=> looksLikeApp(code)
         /\ trim(code) # <<>> => \E i \in DOMAIN trim(code) : trim(code)[i].is # "blank"
         /\ trim(code) \in Seq(S)
<1> DEFINE full == {i \in DOMAIN code : code[i].is # "blank"}
           N == Len(code)
<1>1. N \in Nat /\ DOMAIN code = 1 .. N /\ \A i \in 1 .. N : code[i] \in S
  BY LenProperties, ElementOfSeq
<1>2. CASE full = {}
  <2>1. trim(code) = <<>>
    BY <1>2 DEF trim
  <2>2. \A i \in DOMAIN code : code[i].is = "blank"
    BY <1>2
  <2>3. ~looksLikeApp(<<>>)
    BY DEF looksLikeApp, Range
  <2>4. ~looksLikeApp(code)
    <3>1. AppLine.is = "code"
      BY DEF AppLine, CodeLine
    <3> QED BY <2>2, <3>1 DEF looksLikeApp, Range
  <2>5. trim(code) \in Seq(S)
    BY <2>1, EmptySeq
  <2> QED BY <2>1, <2>2, <2>3, <2>4, <2>5
<1>3. CASE full # {}
  <2> DEFINE a == Min(full)
             z == Max(full)
  <2>1. full \in SUBSET Nat /\ full \subseteq 1 .. N
    BY <1>1
  <2>2. a \in full /\ \A i \in full : a <= i
    <3>1. \E x \in full : \A y \in full : x <= y
      <4> HIDE DEF full
      <4> QED BY <1>3, <2>1, LeastOf
    <3> HIDE DEF full
    <3> QED BY <3>1 DEF Min
  <2>3. z \in full /\ \A i \in full : z >= i
    <3> DEFINE below == {N - i : i \in full}
    <3>1. below \in SUBSET Nat /\ below # {}
      BY <1>1, <1>3, <2>1
    <3>2. PICK y \in below : \A k \in below : y <= k
      <4> HIDE DEF below
      <4> QED BY <3>1, LeastOf
    <3>3. PICK x \in full : y = N - x
      OBVIOUS
    <3>4. ASSUME NEW k \in full PROVE x >= k
      <4>1. y <= N - k
        BY <3>2
      <4>2. x \in Nat /\ k \in Nat
        BY <2>1, <3>3
      <4> QED BY <1>1, <3>3, <4>1, <4>2
    <3>5. \E m \in full : \A k \in full : m >= k
      BY <3>3, <3>4
    <3> HIDE DEF full
    <3> QED BY <3>5 DEF Max
  <2> DEFINE t == SubSeq(code, a, z)
  <2>4. trim(code) = t
    BY <1>3 DEF trim
  <2>5. a \in 1 .. N /\ z \in 1 .. N /\ a <= z
    BY <2>1, <2>2, <2>3
  <2> HIDE DEF a, z
  <2>6. /\ t \in Seq(S) /\ Len(t) = z - a + 1
        /\ \A i \in 1 .. z - a + 1 : t[i] = code[a + i - 1]
    <3>1. a \in Int /\ z \in Int /\ \A i \in a .. z : code[i] \in S
      BY <1>1, <2>5
    <3> QED BY <2>5, <3>1, SubSeqProperties
  <2> HIDE DEF t
  <2>7. t # <<>>
    <3>1. Len(t) >= 1
      BY <1>1, <2>5, <2>6
    <3> QED BY <3>1, EmptySeq
  <2>8. DOMAIN t = 1 .. z - a + 1
    BY <2>6, LenProperties
  <2>9. ASSUME looksLikeApp(t) PROVE looksLikeApp(code)
    <3>1. PICK i \in DOMAIN t : t[i] = AppLine
      BY <2>9 DEF looksLikeApp, Range
    <3> DEFINE k == a + i - 1
    <3>2. t[i] = code[k]
      BY <2>6, <2>8
    <3>3. k \in 1 .. N
      BY <1>1, <2>5, <2>8
    <3> HIDE DEF k
    <3> QED BY <1>1, <3>1, <3>2, <3>3 DEF looksLikeApp, Range
  <2>10. ASSUME looksLikeApp(code) PROVE looksLikeApp(t)
    <3>1. PICK k \in DOMAIN code : code[k] = AppLine
      BY <2>10 DEF looksLikeApp, Range
    <3>2. k \in full
      <4>1. AppLine.is = "code"
        BY DEF AppLine, CodeLine
      <4> QED BY <3>1, <4>1
    <3>3. a <= k /\ k <= z /\ k \in Nat
      BY <1>1, <2>2, <2>3, <3>2
    <3> DEFINE i == k - a + 1
    <3>4. i \in 1 .. z - a + 1 /\ a + i - 1 = k
      BY <2>5, <3>3
    <3> HIDE DEF i
    <3>5. t[i] = code[k]
      BY <2>6, <3>4
    <3> QED BY <2>8, <3>1, <3>4, <3>5 DEF looksLikeApp, Range
  <2>11. \E i \in DOMAIN t : t[i].is # "blank"
    <3>1. 1 \in DOMAIN t /\ t[1] = code[a]
      BY <1>1, <2>5, <2>6, <2>8
    <3> QED BY <2>2, <3>1
  <2> QED BY <2>4, <2>6, <2>7, <2>9, <2>10, <2>11
<1> QED BY <1>2, <1>3

(***************************************************************************)
(* What a block is claimed as is what a reader sees in it.                 *)
(***************************************************************************)
LEMMA ClaimedIsStated ==
  ASSUME NEW b \in StatedBlock, NEW c, Meant(b)
  PROVE  ClaimBlock(c, OwnPath(b), Fenced(b)) = AddStated(c, b)
<1>0. /\ b.form \in {"filename:", "language:path", "path", "heading", "comment", "none"}
      /\ b.raw \in Seq(STRING) /\ b.body \in Seq(TextLine)
  BY BlockFields
<1>1. CASE b.form \notin {"comment", "none"}
  <2>1. /\ OwnPath(b) = b.raw /\ b.raw # NoPath /\ Fenced(b) = b.body
        /\ normalizePath(b.raw) = b.path
    BY <1>1 DEF OwnPath, Fenced, Meant
  <2> DEFINE code == trim(b.body)
  <2>2. ClaimBlock(c, b.raw, b.body) = IF code = <<>> THEN c ELSE Put(normalizePath(b.raw), code, c)
    BY <2>1 DEF ClaimBlock
  <2>3. AddStated(c, b) = IF code = <<>> THEN c ELSE Put(b.path, code, c)
    BY <1>1 DEF AddStated
  <2> QED BY <2>1, <2>2, <2>3
<1>2. CASE b.form = "none"
  <2>1. OwnPath(b) = NoPath /\ Fenced(b) = b.body /\ (b.body # <<>> => b.body[1].is # "comment")
    BY <1>2 DEF OwnPath, Fenced, Meant
  <2> DEFINE code == trim(b.body)
  <2>2. code # <<>> => b.body # <<>>
    <3>1. trim(<<>>) = <<>>
      BY DEF trim
    <3> QED BY <3>1
  <2>3. looksLikeApp(code) <=> looksLikeApp(b.body)
    BY <1>0, TrimKeeps
  <2> HIDE DEF code
  <2>4. ClaimBlock(c, NoPath, b.body) = IF code = <<>> THEN c
                                        ELSE IF b.body[1].is = "comment"
                                             THEN IF trim(Tail(b.body)) = <<>> THEN c
                                                  ELSE Put(normalizePath(b.body[1].path), trim(Tail(b.body)), c)
                                        ELSE IF looksLikeApp(code) THEN Put(normalizePath(App), code, c)
                                        ELSE c
    BY DEF ClaimBlock, code
  <2>5. normalizePath(App) = App
    BY DEF normalizePath, App
  <2>6. AddStated(c, b) = IF code = <<>> THEN c
                          ELSE IF looksLikeApp(b.body) THEN Put(App, code, c) ELSE c
    BY <1>2 DEF AddStated, code
  <2> QED BY <2>1, <2>2, <2>3, <2>4, <2>5, <2>6
<1>3. CASE b.form = "comment"
  <2> DEFINE h == Comment(b.raw)
             d == b.body
             w == <<h>> \o d
  <2>1. OwnPath(b) = NoPath /\ Fenced(b) = w /\ normalizePath(b.raw) = b.path
    BY <1>3 DEF OwnPath, Fenced, Meant
  <2>2. h \in TextLine /\ d \in Seq(TextLine) /\ h.is = "comment" /\ h.path = b.raw
    BY <1>0, LinesAround DEF Comment
  <2> HIDE DEF h, d
  <2>3. w \in Seq(TextLine) /\ w # <<>> /\ w[1] = h /\ Tail(w) = d
    BY <2>2
  <2> HIDE DEF w
  <2>4. trim(w) # <<>>
    <3>1. 1 \in DOMAIN w
      BY <2>3
    <3> QED BY <2>2, <2>3, <3>1, TrimKeeps
  <2>5. ClaimBlock(c, NoPath, w) = IF trim(d) = <<>> THEN c ELSE Put(normalizePath(b.raw), trim(d), c)
    BY <2>2, <2>3, <2>4 DEF ClaimBlock
  <2>6. AddStated(c, b) = IF trim(d) = <<>> THEN c ELSE Put(b.path, trim(d), c)
    BY <1>3 DEF AddStated, d
  <2> QED BY <2>1, <2>5, <2>6
<1> QED BY <1>0, <1>1, <1>2, <1>3

(***************************************************************************)
(* What each step of a loop keeps, the loop keeps.                         *)
(***************************************************************************)
LEMMA LoopKeeps ==
  ASSUME NEW N \in Nat, NEW Y, NEW c, c[0] \in Y,
         \A n \in 1 .. N : c[n - 1] \in Y => c[n] \in Y
  PROVE  c[N] \in Y
<1> DEFINE T == {n \in Nat : n <= N => c[n] \in Y}
<1>1. 0 \in T
  OBVIOUS
<1>2. ASSUME NEW n \in T PROVE n + 1 \in T
  <2>1. n \in Nat /\ (n <= N => c[n] \in Y)
    OBVIOUS
  <2>2. ASSUME n + 1 <= N PROVE c[n + 1] \in Y
    <3>1. n <= N /\ n + 1 \in 1 .. N /\ (n + 1) - 1 = n
      BY <2>1, <2>2
    <3> QED BY <2>1, <3>1
  <2> QED BY <2>1, <2>2
<1>3. T = Nat
  <2>1. T \subseteq Nat
    OBVIOUS
  <2> HIDE DEF T
  <2> QED BY <1>1, <1>2, <2>1, ByInduction
<1> QED BY <1>3

(***************************************************************************)
(* A text up to a place grows by the line there.                           *)
(***************************************************************************)
LEMMA PrefixGrows ==
  ASSUME NEW S, NEW f \in Seq(S), NEW n \in 0 .. Len(f) - 1
  PROVE  /\ SubSeq(f, 1, 0) = <<>> /\ SubSeq(f, 1, Len(f)) = f
         /\ SubSeq(f, 1, n + 1) = Append(SubSeq(f, 1, n), f[n + 1])
<1> DEFINE i == n + 1
<1>0. Len(f) \in Nat
  BY LenProperties
<1>1. n \in Int /\ 1 \in Int /\ i \in 1 .. Len(f) /\ 1 \in 1 .. Len(f) /\ i - 1 = n /\ i \in 1 .. Len(f) /\ 1 <= i
  BY <1>0
<1>2. \A k \in 1 .. n : f[k] \in S
  <2>1. \A k \in 1 .. n : k \in 1 .. Len(f)
    BY <1>0
  <2> QED BY <2>1, ElementOfSeq
<1>3. f[i] \in S
  BY <1>1, ElementOfSeq
<1> HIDE DEF i
<1>4. SubSeq(f, 1, n) \in Seq(S)
  BY <1>1, <1>2, SubSeqProperties
<1>5. i \in 1 .. Len(f)
  BY <1>1
<1>6. SubSeq(f, 1, i) = SubSeq(f, 1, i - 1) \o <<f[i]>>
  BY <1>1, SubSeqRecursiveSecond
<1>7. Append(SubSeq(f, 1, n), f[i]) = SubSeq(f, 1, n) \o <<f[i]>>
  <2> DEFINE x == SubSeq(f, 1, n)
             y == f[i]
  <2>1. x \in Seq(S) /\ y \in S
    BY <1>3, <1>4
  <2> HIDE DEF x, y
  <2>2. Append(x, y) = x \o <<y>>
    BY <2>1, AppendIsConcat
  <2> QED BY <2>2 DEF x, y
<1>8. SubSeq(f, 1, i) = Append(SubSeq(f, 1, n), f[i])
  BY <1>1, <1>6, <1>7
<1>9. SubSeq(f, 1, 0) = <<>> /\ SubSeq(f, 1, Len(f)) = f
  BY SubSeqEmpty, SubSeqFull
<1> QED BY <1>8, <1>9 DEF i

(***************************************************************************)
(* Above its fence there is none.                                          *)
(***************************************************************************)
LEMMA NoFenceAbove ==
  ASSUME NEW b \in StatedBlock, NEW lines, NEW o \in Nat, Stands(lines, o, b),
         NEW j \in 1 .. FenceAt(b) - 1
  PROVE  lines[o + j].is \in {"prose", "heading", "blank"}
<1> DEFINE q == FenceAt(b)
<1>1. /\ q \in Nat /\ (b.form = "heading" => q = b.gap + 3)
      /\ lines[o + 1] = ProseLine
      /\ b.form = "heading" =>
           lines[o + 2] = Heading(b.raw) /\ \A k \in 3 .. b.gap + 2 : lines[o + k] = BlankLine
  BY StandingLines
<1>2. b.form # "heading" => q = 2
  BY DEF FenceAt
<1>3. b.gap \in 0 .. 2
  BY BlockFields
<1> HIDE DEF q
<1>4. j \in 1 .. q - 1
  BY DEF q
<1>5. CASE j = 1
  BY <1>1, <1>5 DEF ProseLine
<1>6. CASE j # 1
  <2>1. b.form = "heading"
    BY <1>2, <1>4, <1>6
  <2>2. j = 2 \/ j \in 3 .. b.gap + 2
    BY <1>1, <1>3, <1>4, <1>6, <2>1
  <2>3. lines[o + j] = Heading(b.raw) \/ lines[o + j] = BlankLine
    BY <1>1, <2>1, <2>2
  <2> QED BY <2>3 DEF Heading, BlankLine
<1> QED BY <1>5, <1>6

(***************************************************************************)
(* The fences are fences.                                                  *)
(***************************************************************************)
LEMMA FencesAre ==
  ASSUME NEW b PROVE FenceOf(b).is = "fence" /\ EndFence.is = "fence"
BY DEF FenceOf, EndFence, FenceLine

\* A reader outside the fences.
Outside(s, claimed) == \E p, d : s \in Reader(FALSE, p, d, claimed)

(***************************************************************************)
(* A block is read as what it states, whatever stands before and after it. *)
(***************************************************************************)
LEMMA BlockIsRead ==
  ASSUME NEW b \in StatedBlock, NEW lines \in Seq(LineSet), NEW o \in Nat,
         Stands(lines, o, b), Meant(b), NEW r, Reads(r, lines),
         NEW c, Outside(r[o], c)
  PROVE  /\ Held(r[o + Len(Rendered(b))]) = AddStated(c, b)
         /\ b.closed => Outside(r[o + Len(Rendered(b))], AddStated(c, b))
<1> DEFINE q == FenceAt(b)
           f == Fenced(b)
           m == Len(f)
           w == OwnPath(b)
<1>1. /\ q \in Nat /\ q >= 2 /\ m \in Nat
      /\ Len(Rendered(b)) = q + m + (IF b.closed THEN 1 ELSE 0)
      /\ lines[o + q] = FenceOf(b)
      /\ \A j \in 1 .. m : lines[o + (q + j)] = f[j]
      /\ b.closed => lines[o + (q + m + 1)] = EndFence
  BY StandingLines
<1>2. PathAt(lines, o + q) = w
  BY PathFound
<1>3. f \in Seq(TextLine)
  BY FencedIs
<1>4. \A j \in 1 .. q - 1 : lines[o + j].is # "fence"
  BY NoFenceAbove
<1>5. ClaimBlock(c, w, f) = AddStated(c, b)
  BY ClaimedIsStated
<1>6. Len(lines) \in Nat /\ o + Len(Rendered(b)) <= Len(lines) /\ b.closed \in BOOLEAN
  BY LenProperties, BlockFields DEF Stands
<1> HIDE DEF q, f, w
<1>7. ASSUME NEW j \in 1 .. q + m + (IF b.closed THEN 1 ELSE 0)
      PROVE  r[o + j] = ReadLine(r[o + (j - 1)], lines, o + j)
  <2> DEFINE i == o + j
  <2>1. i \in 1 .. Len(lines) /\ i - 1 = o + (j - 1)
    BY <1>1, <1>6
  <2> HIDE DEF i
  <2>2. r[i] = ReadLine(r[i - 1], lines, i)
    BY <2>1 DEF Reads
  <2> QED BY <2>1, <2>2 DEF i
<1>8. PICK p, d : r[o] \in Reader(FALSE, p, d, c)
  BY DEF Outside
<1>9. r[o + (q - 1)] \in Reader(FALSE, p, d, c)
  <2> DEFINE k == [j \in 0 .. q - 1 |-> r[o + j]]
             Y == Reader(FALSE, p, d, c)
  <2>1. k[0] \in Y
    <3>1. 0 \in 0 .. q - 1 /\ o + 0 = o
      BY <1>1
    <3> HIDE DEF Y
    <3> QED BY <1>8, <3>1 DEF Y
  <2>2. ASSUME NEW n \in 1 .. q - 1, k[n - 1] \in Y PROVE k[n] \in Y
    <3>1. n \in 0 .. q - 1 /\ n - 1 \in 0 .. q - 1 /\ n \in 1 .. q + m + (IF b.closed THEN 1 ELSE 0)
      BY <1>1, <1>6
    <3>2. k[n] = r[o + n] /\ k[n - 1] = r[o + (n - 1)]
      BY <3>1
    <3>3. r[o + n] = ReadLine(r[o + (n - 1)], lines, o + n)
      BY <1>7, <3>1
    <3> DEFINE s == r[o + (n - 1)]
               i == o + n
    <3>4. s \in Reader(FALSE, p, d, c) /\ lines[i].is # "fence"
      BY <1>4, <2>2, <3>2
    <3> HIDE DEF s, i, k
    <3>5. ReadLine(s, lines, i) \in Reader(FALSE, p, d, c)
      BY <3>4, ReaderOutside
    <3> QED BY <3>2, <3>3, <3>5 DEF s, i
  <2>3. q - 1 \in Nat /\ q - 1 \in 0 .. q - 1
    BY <1>1
  <2>4. k[q - 1] = r[o + (q - 1)]
    BY <2>3
  <2> DEFINE n == q - 1
  <2>5. n \in Nat /\ \A j \in 1 .. n : k[j - 1] \in Y => k[j] \in Y
    BY <2>2, <2>3
  <2> HIDE DEF k, Y, n
  <2>6. k[n] \in Y
    BY <2>1, <2>5, LoopKeeps
  <2> QED BY <2>4, <2>6 DEF Y, n
<1>10. r[o + q] \in Reader(TRUE, w, <<>>, c)
  <2>1. q \in 1 .. q + m + (IF b.closed THEN 1 ELSE 0)
    BY <1>1, <1>6
  <2> DEFINE i == o + q
             s == r[o + (q - 1)]
  <2>2. r[i] = ReadLine(s, lines, i) /\ s \in Reader(FALSE, p, d, c) /\ PathAt(lines, i) = w
    BY <1>2, <1>7, <1>9, <2>1
  <2>3. lines[i].is = "fence"
    BY <1>1, FencesAre
  <2> HIDE DEF i, s
  <2>4. ReadLine(s, lines, i) \in Reader(TRUE, PathAt(lines, i), <<>>, c)
    BY <2>2, <2>3, ReaderOpens
  <2>5. r[i] \in Reader(TRUE, w, <<>>, c)
    BY <2>2, <2>4
  <2> QED BY <2>5 DEF i
<1>11. r[o + (q + m)] \in Reader(TRUE, w, f, c)
  <2> DEFINE G(n) == r[o + (q + n)] \in Reader(TRUE, w, SubSeq(f, 1, n), c)
             T == {n \in Nat : n <= m => G(n)}
  <2>1. 0 \in T
    <3>1. SubSeq(f, 1, 0) = <<>> /\ q + 0 = q
      BY <1>1, SubSeqEmpty
    <3> QED BY <1>10, <3>1
  <2>6. ASSUME NEW n \in Nat, n <= m => G(n), n + 1 <= m PROVE G(n + 1)
    <3>1. n <= m => G(n)
      BY <2>6
    <3>2. n + 1 <= m
      BY <2>6
    <3>3. n <= m /\ n \in 0 .. m - 1 /\ n + 1 \in 1 .. m
      BY <1>1, <3>1, <3>2
    <3>4. SubSeq(f, 1, n + 1) = Append(SubSeq(f, 1, n), f[n + 1])
      BY <1>3, <3>3, PrefixGrows
    <3> DEFINE s == r[o + (q + n)]
               t == SubSeq(f, 1, n)
               i == o + (q + (n + 1))
    <3>5. s \in Reader(TRUE, w, t, c)
      BY <3>1, <3>3
    <3>6. r[i] = ReadLine(s, lines, i)
      <4> DEFINE j == q + (n + 1)
      <4>1. j \in 1 .. q + m + (IF b.closed THEN 1 ELSE 0) /\ j - 1 = q + n
        BY <1>1, <1>6, <3>1, <3>3
      <4> HIDE DEF j
      <4>2. r[o + j] = ReadLine(r[o + (j - 1)], lines, o + j)
        BY <1>7, <4>1
      <4> QED BY <4>1, <4>2 DEF j
    <3>7. lines[i] = f[n + 1]
      BY <1>1, <3>3
    <3>8. f[n + 1].is # "fence"
      <4>1. f[n + 1] \in TextLine
        BY <1>3, <3>3, ElementOfSeq
      <4> QED BY <4>1, TextIsNoFence
    <3> HIDE DEF s, t, i
    <3>9. ReadLine(s, lines, i) \in Reader(TRUE, w, Append(t, lines[i]), c)
      BY <3>5, <3>7, <3>8, ReaderInside
    <3>10. r[i] \in Reader(TRUE, w, SubSeq(f, 1, n + 1), c)
      BY <3>4, <3>6, <3>7, <3>9 DEF t
    <3> QED BY <3>10 DEF i
  <2>2. ASSUME NEW n \in T PROVE n + 1 \in T
    <3>1. n \in Nat /\ n + 1 \in Nat
      OBVIOUS
    <3> HIDE DEF G
    <3>2. n <= m => G(n)
      OBVIOUS
    <3> QED BY <2>6, <3>1, <3>2
  <2>3. T = Nat
    <3>1. T \subseteq Nat
      OBVIOUS
    <3> HIDE DEF T
    <3> QED BY <2>1, <2>2, <3>1, ByInduction
  <2>4. G(m)
    <3>1. \A n \in Nat : n <= m => G(n)
      BY <2>3
    <3>2. m <= m
      BY <1>1
    <3> HIDE DEF G, m
    <3> QED BY <1>1, <3>1, <3>2
  <2>5. SubSeq(f, 1, m) = f
    BY <1>3, SubSeqFull
  <2> QED BY <2>4, <2>5
<1>12. CASE b.closed
  <2> DEFINE i == o + (q + m + 1)
             s == r[o + (q + m)]
             e == o + Len(Rendered(b))
  <2>1. e = i
    BY <1>1, <1>12
  <2>2. r[i] = ReadLine(s, lines, i)
    <3> DEFINE j == q + m + 1
    <3>1. j \in 1 .. q + m + (IF b.closed THEN 1 ELSE 0) /\ j - 1 = q + m
      BY <1>1, <1>12
    <3> HIDE DEF j
    <3>2. r[o + j] = ReadLine(r[o + (j - 1)], lines, o + j)
      BY <1>7, <3>1
    <3> QED BY <3>1, <3>2 DEF j
  <2>3. s \in Reader(TRUE, w, f, c) /\ lines[i].is = "fence"
    BY <1>1, <1>11, <1>12, FencesAre
  <2> HIDE DEF i, s, e
  <2>4. ReadLine(s, lines, i) \in Reader(FALSE, w, f, ClaimBlock(c, w, f))
    BY <2>3, ReaderCloses
  <2>5. r[e] \in Reader(FALSE, w, f, AddStated(c, b))
    BY <1>5, <2>1, <2>2, <2>4
  <2> DEFINE x == r[e]
             y == AddStated(c, b)
  <2>6. x \in Reader(FALSE, w, f, y)
    BY <2>5
  <2> HIDE DEF x, y
  <2>7. Held(x) = y
    BY <2>6, ClosedHolds
  <2> QED BY <2>6, <2>7 DEF x, y, e, Outside
<1>13. CASE ~b.closed
  <2> DEFINE e == o + Len(Rendered(b))
             x == r[e]
  <2>1. e = o + (q + m)
    BY <1>1, <1>13
  <2>2. x \in Reader(TRUE, w, f, c)
    BY <1>11, <2>1
  <2> HIDE DEF e, x
  <2>3. Held(x) = ClaimBlock(c, w, f)
    BY <2>2, OpenHolds
  <2> QED BY <1>5, <1>13, <2>3 DEF e, x
<1> QED BY <1>6, <1>12, <1>13

\* What the summary holds so far is prose; whether a fence is open.
Summary(inFence) == [inFence : {inFence}, out : Seq({ProseLine})]

(***************************************************************************)
(* What a line makes of it: prose is added, a fence opens or closes, and   *)
(* the rest leaves it as it is.                                            *)
(***************************************************************************)
LEMMA SummaryOutside ==
  ASSUME NEW s \in Summary(FALSE), NEW line, line = ProseLine \/ line.is \in {"heading", "blank"}
  PROVE  Summarise(s, line) \in Summary(FALSE)
<1>1. s.inFence = FALSE /\ s.out \in Seq({ProseLine})
  BY DEF Summary
<1>2. CASE line.is \in {"heading", "blank"}
  BY <1>2 DEF Summarise
<1>3. CASE line = ProseLine /\ line.is \notin {"heading", "blank"}
  <2>1. line.is = "prose"
    BY <1>3 DEF ProseLine
  <2> DEFINE x == Append(s.out, line)
  <2>2. Summarise(s, line) = [s EXCEPT !.out = x]
    BY <1>1, <2>1 DEF Summarise
  <2>3. x \in Seq({ProseLine})
    <3> DEFINE o == s.out
    <3>1. o \in Seq({ProseLine}) /\ line \in {ProseLine}
      BY <1>1, <1>3
    <3> HIDE DEF o
    <3>2. Append(o, line) \in Seq({ProseLine})
      BY <3>1, AppendProperties
    <3> QED BY <3>2 DEF o
  <2> HIDE DEF x
  <2>4. [s EXCEPT !.out = x] \in Summary(FALSE)
    BY <2>3 DEF Summary
  <2> QED BY <2>2, <2>4
<1> QED BY <1>2, <1>3

LEMMA SummaryInside ==
  ASSUME NEW s \in Summary(TRUE), NEW line, line.is # "fence"
  PROVE  Summarise(s, line) \in Summary(TRUE)
BY DEF Summarise, Summary

LEMMA SummaryOpens ==
  ASSUME NEW s \in Summary(FALSE), NEW line, line.is = "fence"
  PROVE  Summarise(s, line) \in Summary(TRUE)
<1>1. Summarise(s, line) = [s EXCEPT !.inFence = TRUE]
  BY DEF Summarise, Summary
<1>2. [s EXCEPT !.inFence = TRUE] \in Summary(TRUE)
  BY DEF Summary
<1> QED BY <1>1, <1>2

LEMMA SummaryCloses ==
  ASSUME NEW s \in Summary(TRUE), NEW line, line.is = "fence"
  PROVE  Summarise(s, line) \in Summary(FALSE)
<1>1. Summarise(s, line) = [s EXCEPT !.inFence = FALSE]
  BY DEF Summarise, Summary
<1>2. [s EXCEPT !.inFence = FALSE] \in Summary(FALSE)
  BY DEF Summary
<1> QED BY <1>1, <1>2

(***************************************************************************)
(* Above its fence a block has prose, a heading and blanks.                *)
(***************************************************************************)
LEMMA OnlyProseAbove ==
  ASSUME NEW b \in StatedBlock, NEW lines, NEW o \in Nat, Stands(lines, o, b),
         NEW j \in 1 .. FenceAt(b) - 1
  PROVE  lines[o + j] = ProseLine \/ lines[o + j].is \in {"heading", "blank"}
<1> DEFINE q == FenceAt(b)
<1>1. /\ q \in Nat /\ (b.form = "heading" => q = b.gap + 3)
      /\ lines[o + 1] = ProseLine
  BY StandingLines
<1>2. b.form # "heading" => q = 2
  BY DEF FenceAt
<1>3. b.form = "heading" =>
        lines[o + 2] = Heading(b.raw) /\ \A k \in 3 .. b.gap + 2 : lines[o + k] = BlankLine
  BY StandingLines
<1>4. b.gap \in 0 .. 2
  BY BlockFields
<1> HIDE DEF q
<1>5. j \in 1 .. q - 1
  BY DEF q
<1>6. j = 1 \/ (b.form = "heading" /\ (j = 2 \/ j \in 3 .. b.gap + 2))
  BY <1>1, <1>2, <1>4, <1>5
<1>7. lines[o + j] = ProseLine \/ lines[o + j] = Heading(b.raw) \/ lines[o + j] = BlankLine
  BY <1>1, <1>3, <1>6
<1> QED BY <1>7 DEF Heading, BlankLine

(***************************************************************************)
(* A block adds prose to the summary, and nothing of its file.             *)
(***************************************************************************)
LEMMA BlockIsSummed ==
  ASSUME NEW b \in StatedBlock, NEW lines \in Seq(LineSet), NEW o \in Nat,
         Stands(lines, o, b), NEW r, Sums(r, lines), r[o] \in Summary(FALSE)
  PROVE  r[o + Len(Rendered(b))] \in Summary(~b.closed)
<1> DEFINE q == FenceAt(b)
           f == Fenced(b)
           m == Len(f)
<1>1. /\ q \in Nat /\ q >= 2 /\ m \in Nat
      /\ Len(Rendered(b)) = q + m + (IF b.closed THEN 1 ELSE 0)
      /\ lines[o + q] = FenceOf(b)
      /\ \A j \in 1 .. m : lines[o + (q + j)] = f[j]
      /\ b.closed => lines[o + (q + m + 1)] = EndFence
  BY StandingLines
<1>3. f \in Seq(TextLine)
  BY FencedIs
<1>4. \A j \in 1 .. q - 1 : lines[o + j] = ProseLine \/ lines[o + j].is \in {"heading", "blank"}
  BY OnlyProseAbove
<1>6. Len(lines) \in Nat /\ o + Len(Rendered(b)) <= Len(lines) /\ b.closed \in BOOLEAN
  BY LenProperties, BlockFields DEF Stands
<1> HIDE DEF q, f
<1>7. ASSUME NEW j \in 1 .. q + m + (IF b.closed THEN 1 ELSE 0)
      PROVE  r[o + j] = Summarise(r[o + (j - 1)], lines[o + j])
  <2> DEFINE i == o + j
  <2>1. i \in 1 .. Len(lines) /\ i - 1 = o + (j - 1)
    BY <1>1, <1>6
  <2> HIDE DEF i
  <2>2. r[i] = Summarise(r[i - 1], lines[i])
    BY <2>1 DEF Sums
  <2> QED BY <2>1, <2>2 DEF i
<1>9. r[o + (q - 1)] \in Summary(FALSE)
  <2> DEFINE k == [j \in 0 .. q - 1 |-> r[o + j]]
             Y == Summary(FALSE)
  <2>1. k[0] \in Y
    <3>1. 0 \in 0 .. q - 1 /\ o + 0 = o
      BY <1>1
    <3> HIDE DEF Y
    <3> QED BY <3>1 DEF Y
  <2>2. ASSUME NEW n \in 1 .. q - 1, k[n - 1] \in Y PROVE k[n] \in Y
    <3>1. n \in 0 .. q - 1 /\ n - 1 \in 0 .. q - 1 /\ n \in 1 .. q + m + (IF b.closed THEN 1 ELSE 0)
      BY <1>1, <1>6
    <3>2. k[n] = r[o + n] /\ k[n - 1] = r[o + (n - 1)]
      BY <3>1
    <3> DEFINE s == r[o + (n - 1)]
               x == lines[o + n]
    <3>3. r[o + n] = Summarise(s, x)
      BY <1>7, <3>1
    <3>4. s \in Summary(FALSE) /\ (x = ProseLine \/ x.is \in {"heading", "blank"})
      BY <1>4, <2>2, <3>2
    <3> HIDE DEF s, x, k
    <3>5. Summarise(s, x) \in Summary(FALSE)
      BY <3>4, SummaryOutside
    <3> QED BY <3>2, <3>3, <3>5
  <2>3. q - 1 \in Nat /\ q - 1 \in 0 .. q - 1
    BY <1>1
  <2>4. k[q - 1] = r[o + (q - 1)]
    BY <2>3
  <2> DEFINE n == q - 1
  <2>5. n \in Nat /\ \A j \in 1 .. n : k[j - 1] \in Y => k[j] \in Y
    BY <2>2, <2>3
  <2> HIDE DEF k, Y, n
  <2>6. k[n] \in Y
    BY <2>1, <2>5, LoopKeeps
  <2> QED BY <2>4, <2>6 DEF Y, n
<1>10. r[o + q] \in Summary(TRUE)
  <2>1. q \in 1 .. q + m + (IF b.closed THEN 1 ELSE 0)
    BY <1>1, <1>6
  <2> DEFINE x == lines[o + q]
             s == r[o + (q - 1)]
  <2>2. r[o + q] = Summarise(s, x) /\ s \in Summary(FALSE)
    BY <1>7, <1>9, <2>1
  <2>3. x.is = "fence"
    BY <1>1, FencesAre
  <2> HIDE DEF x, s
  <2>4. Summarise(s, x) \in Summary(TRUE)
    BY <2>2, <2>3, SummaryOpens
  <2> QED BY <2>2, <2>4
<1>11. r[o + (q + m)] \in Summary(TRUE)
  <2> DEFINE k == [j \in 0 .. m |-> r[o + (q + j)]]
             Y == Summary(TRUE)
  <2>1. k[0] \in Y
    <3>1. 0 \in 0 .. m /\ q + 0 = q
      BY <1>1
    <3> HIDE DEF Y
    <3> QED BY <1>10, <3>1 DEF Y
  <2>2. ASSUME NEW n \in 1 .. m, k[n - 1] \in Y PROVE k[n] \in Y
    <3>1. n \in 0 .. m /\ n - 1 \in 0 .. m
      BY <1>1
    <3>2. k[n] = r[o + (q + n)] /\ k[n - 1] = r[o + (q + (n - 1))]
      BY <3>1
    <3> DEFINE s == r[o + (q + (n - 1))]
               x == lines[o + (q + n)]
    <3>3. r[o + (q + n)] = Summarise(s, x)
      <4> DEFINE j == q + n
      <4>1. j \in 1 .. q + m + (IF b.closed THEN 1 ELSE 0) /\ j - 1 = q + (n - 1)
        BY <1>1, <1>6
      <4> HIDE DEF j
      <4>2. r[o + j] = Summarise(r[o + (j - 1)], lines[o + j])
        BY <1>7, <4>1
      <4> QED BY <4>1, <4>2 DEF j
    <3>4. s \in Summary(TRUE) /\ x = f[n]
      BY <1>1, <2>2, <3>2
    <3>5. x.is # "fence"
      <4>1. f[n] \in TextLine
        BY <1>3, ElementOfSeq
      <4> QED BY <3>4, <4>1, TextIsNoFence
    <3> HIDE DEF s, x, k
    <3>6. Summarise(s, x) \in Summary(TRUE)
      BY <3>4, <3>5, SummaryInside
    <3> QED BY <3>2, <3>3, <3>6
  <2>3. m \in 0 .. m
    BY <1>1
  <2>4. k[m] = r[o + (q + m)]
    BY <2>3
  <2>5. \A j \in 1 .. m : k[j - 1] \in Y => k[j] \in Y
    BY <2>2
  <2> HIDE DEF k, Y, m
  <2>6. k[m] \in Y
    BY <1>1, <2>1, <2>5, LoopKeeps
  <2> QED BY <2>4, <2>6 DEF Y
<1>12. CASE b.closed
  <2> DEFINE e == o + Len(Rendered(b))
             j == q + m + 1
             s == r[o + (q + m)]
             x == lines[e]
  <2>1. e = o + j /\ j \in 1 .. q + m + (IF b.closed THEN 1 ELSE 0) /\ j - 1 = q + m
    BY <1>1, <1>12
  <2>2. x.is = "fence"
    BY <1>1, <1>12, <2>1, FencesAre
  <2>3. r[e] = Summarise(s, x)
    <3> HIDE DEF j, e
    <3> QED BY <1>7, <2>1
  <2>4. s \in Summary(TRUE)
    BY <1>11
  <2> HIDE DEF s, x, e
  <2>5. Summarise(s, x) \in Summary(FALSE)
    BY <2>2, <2>4, SummaryCloses
  <2>6. r[e] \in Summary(FALSE)
    BY <2>3, <2>5
  <2>7. (~b.closed) = FALSE
    BY <1>12
  <2> QED BY <2>6, <2>7 DEF e
<1>13. CASE ~b.closed
  <2>1. o + Len(Rendered(b)) = o + (q + m)
    BY <1>1, <1>13
  <2>2. (~b.closed) = TRUE
    BY <1>13
  <2> QED BY <1>11, <2>1, <2>2
<1> QED BY <1>6, <1>12, <1>13

\* Where each block of a reply ends.
BlockEnds(ends, lines, blocks) ==
  /\ ends[0] = 0 /\ ends[Len(blocks)] = Len(lines)
  /\ \A k \in 1 .. Len(blocks) :
       /\ ends[k - 1] \in Nat /\ ends[k] = ends[k - 1] + Len(Rendered(blocks[k]))
       /\ Stands(lines, ends[k - 1], blocks[k])

(***************************************************************************)
(* The lines of a reply are those of its blocks.                           *)
(***************************************************************************)
LEMMA BlocksStand ==
  ASSUME NEW blocks \in Seq(StatedBlock)
  PROVE  Lines(blocks) \in Seq(LineSet) /\ \E ends : BlockEnds(ends, Lines(blocks), blocks)
<1> DEFINE ss == [i \in DOMAIN blocks |-> Rendered(blocks[i])]
           N == Len(blocks)
<1>1. N \in Nat /\ DOMAIN blocks = 1 .. N /\ \A i \in 1 .. N : blocks[i] \in StatedBlock
  BY LenProperties, ElementOfSeq
<1>2. \A i \in 1 .. N : Rendered(blocks[i]) \in Seq(LineSet)
  BY <1>1, RenderedIs DEF Shaped
<1>3. ss \in [1 .. N -> Seq(LineSet)] /\ DOMAIN ss = 1 .. N
  BY <1>1, <1>2
<1>4. \A i \in 1 .. N : ss[i] = Rendered(blocks[i])
  BY <1>1
<1> DEFINE v == FlattenSeq(ss)
<1>5. Lines(blocks) = v
  BY DEF Lines
<1> HIDE DEF ss
<1>6. ss \in Seq(Seq(LineSet))
  BY <1>1, <1>3, SeqDef
<1>7. Len(ss) = N
  <2>1. DOMAIN ss = 1 .. Len(ss) /\ Len(ss) \in Nat
    BY <1>6, LenProperties
  <2> HIDE DEF N
  <2> QED BY <1>1, <1>3, <2>1
<1>8. v \in Seq(LineSet) /\ \E ends : Placed(v, ss, ends)
  BY <1>6, EachIsPlaced
<1> HIDE DEF v, N
<1>9. PICK ends : Placed(v, ss, ends)
  BY <1>8
<1>10. ASSUME NEW k \in 1 .. N
       PROVE  /\ ends[k - 1] \in Nat /\ ends[k] = ends[k - 1] + Len(Rendered(blocks[k]))
              /\ Stands(v, ends[k - 1], blocks[k])
  <2>1. /\ ends[k - 1] \in Nat /\ ends[k] = ends[k - 1] + Len(ss[k]) /\ ends[k] <= Len(v)
        /\ \A j \in 1 .. Len(ss[k]) : v[ends[k - 1] + j] = ss[k][j]
    BY <1>7, <1>9 DEF Placed
  <2>2. ss[k] = Rendered(blocks[k])
    BY <1>4
  <2> QED BY <2>1, <2>2 DEF Stands
<1>11. BlockEnds(ends, v, blocks)
  <2>1. ends[0] = 0 /\ ends[N] = Len(v)
    BY <1>7, <1>9 DEF Placed
  <2> QED BY <1>10, <2>1 DEF BlockEnds, N
<1> QED BY <1>5, <1>8, <1>11

\* A reply whose blocks are well formed; only the last may be cut off.
WellSaid(blocks) ==
  /\ blocks \in Seq(StatedBlock)
  /\ \A i \in 1 .. Len(blocks) : Meant(blocks[i]) /\ (i < Len(blocks) => blocks[i].closed)

(***************************************************************************)
(* Block by block the files a reader sees are claimed, and prose is        *)
(* summed.                                                                 *)
(***************************************************************************)
LEMMA RepliesAreRead ==
  ASSUME NEW blocks, WellSaid(blocks)
  PROVE  /\ parseFilesFromContent(Lines(blocks)) = Merged(Stated(blocks), Entry)
         /\ extractBuildSummary(Lines(blocks)) \in Seq({ProseLine})
<1> DEFINE v == Lines(blocks)
           N == Len(blocks)
<1>1. blocks \in Seq(StatedBlock)
  BY DEF WellSaid
<1>2. v \in Seq(LineSet) /\ \E ends : BlockEnds(ends, v, blocks)
  BY <1>1, BlocksStand
<1>3. /\ N \in Nat /\ \A i \in 1 .. N : blocks[i] \in StatedBlock
      /\ \A i \in 1 .. N : Meant(blocks[i]) /\ (i < N => blocks[i].closed)
  BY <1>1, LenProperties, ElementOfSeq DEF WellSaid
<1> HIDE DEF v
<1>4. Len(v) \in Nat
  BY <1>2, LenProperties
<1>5. PICK r : /\ Reads(r, v)
               /\ parseFilesFromContent(v) = Merged(Held(r[Len(v)]), Entry)
  BY <1>4, ParserReads
<1>6. PICK t : Sums(t, v) /\ extractBuildSummary(v) = t[Len(v)].out
  BY <1>4, SummaryReads
<1>7. PICK a : Adds(a, blocks) /\ Stated(blocks) = a[N]
  BY <1>3, StatedAdds
<1>8. PICK ends : BlockEnds(ends, v, blocks)
  BY <1>2
<1> HIDE DEF N
<1>9. ends[0] = 0 /\ ends[N] = Len(v) /\ a[0] = NoFiles
  BY <1>7, <1>8 DEF BlockEnds, Adds, N
<1> DEFINE Between(n) == Outside(r[ends[n]], a[n]) /\ t[ends[n]] \in Summary(FALSE)
           So(n) == /\ Held(r[ends[n]]) = a[n]
                    /\ t[ends[n]] \in Summary(FALSE) \cup Summary(TRUE)
                    /\ n < N => Between(n)
<1>10. Between(0) /\ So(0)
  <2>1. r[0] = NothingRead /\ t[0] = NoneSummed
    BY <1>5, <1>6 DEF Reads, Sums
  <2>2. NothingRead \in Reader(FALSE, NoPath, <<>>, NoFiles)
    BY DEF NothingRead, Reader
  <2>3. NoneSummed \in Summary(FALSE)
    <3>1. <<>> \in Seq({ProseLine})
      BY EmptySeq
    <3> QED BY <3>1 DEF NoneSummed, Summary
  <2>4. Held(NothingRead) = NoFiles
    BY <2>2, ClosedHolds
  <2>5. Between(0)
    BY <1>9, <2>1, <2>2, <2>3 DEF Outside
  <2> QED BY <1>9, <2>1, <2>3, <2>4, <2>5
<1>11. ASSUME NEW n \in Nat, n + 1 <= N, Between(n) PROVE So(n + 1)
  <2> DEFINE k == n + 1
             o == ends[n]
             e == ends[k]
             b == blocks[k]
             c == a[n]
  <2>1. k \in 1 .. N /\ k - 1 = n
    BY <1>3, <1>11
  <2> HIDE DEF k
  <2>2. o \in Nat /\ e = o + Len(Rendered(b)) /\ Stands(v, o, b)
    BY <1>8, <2>1 DEF BlockEnds, N
  <2>3. b \in StatedBlock /\ Meant(b) /\ (k < N => b.closed) /\ b.closed \in BOOLEAN
    BY <1>3, <2>1, BlockFields
  <2>4. a[k] = AddStated(c, b)
    BY <1>7, <2>1 DEF Adds, N
  <2>5. Outside(r[o], c) /\ t[o] \in Summary(FALSE)
    BY <1>11
  <2> HIDE DEF o, e, b, c
  <2>6. /\ Held(r[e]) = AddStated(c, b)
        /\ b.closed => Outside(r[e], AddStated(c, b))
    BY <1>2, <1>5, <2>2, <2>3, <2>5, BlockIsRead
  <2>7. t[e] \in Summary(~b.closed)
    BY <1>2, <1>6, <2>2, <2>3, <2>5, BlockIsSummed
  <2>8. t[e] \in Summary(FALSE) \cup Summary(TRUE) /\ (b.closed => t[e] \in Summary(FALSE))
    <3>1. CASE b.closed
      <4>1. (~b.closed) = FALSE
        BY <3>1
      <4> QED BY <2>7, <3>1, <4>1
    <3>2. CASE ~b.closed
      <4>1. (~b.closed) = TRUE
        BY <3>2
      <4> QED BY <2>7, <3>2, <4>1
    <3> QED BY <3>1, <3>2
  <2>9. So(k)
    BY <2>3, <2>4, <2>6, <2>8 DEF e
  <2> QED BY <2>9 DEF k
<1> DEFINE T == {n \in Nat : n <= N => So(n)}
<1>12. 0 \in T
  <2> HIDE DEF So
  <2> QED BY <1>10
<1>13. ASSUME NEW n \in T PROVE n + 1 \in T
  <2>1. n \in Nat /\ n + 1 \in Nat
    OBVIOUS
  <2> HIDE DEF Between
  <2>2. n <= N => So(n)
    <3> HIDE DEF So
    <3> QED OBVIOUS
  <2>3. n + 1 <= N => Between(n)
    <3>1. n + 1 <= N => n < N /\ n <= N
      BY <1>3, <2>1
    <3> QED BY <2>2, <3>1
  <2> HIDE DEF So
  <2>4. n + 1 <= N => So(n + 1)
    BY <1>11, <2>1, <2>3
  <2> QED BY <2>1, <2>4
<1>14. T = Nat
  <2>1. T \subseteq Nat
    OBVIOUS
  <2> HIDE DEF T
  <2> QED BY <1>12, <1>13, <2>1, ByInduction
<1>15. So(N)
  <2> HIDE DEF So
  <2>1. \A n \in Nat : n <= N => So(n)
    BY <1>14
  <2>2. N <= N
    BY <1>3
  <2> QED BY <1>3, <2>1, <2>2
<1>16. Held(r[Len(v)]) = Stated(blocks)
  BY <1>7, <1>9, <1>15
<1>17. t[Len(v)].out \in Seq({ProseLine})
  <2>1. t[Len(v)] \in Summary(FALSE) \cup Summary(TRUE)
    BY <1>9, <1>15
  <2> QED BY <2>1 DEF Summary
<1>18. parseFilesFromContent(v) = Merged(Stated(blocks), Entry)
  BY <1>5, <1>16, Zenon
<1> QED BY <1>6, <1>17, <1>18 DEF v

(***************************************************************************)
(* What the parser reads of a reply, written in any of its forms, is what  *)
(* the reply states, the default entry point where it states none.         *)
(***************************************************************************)
LEMMA SaidReadsBack ==
  ASSUME NEW blocks \in Said
  PROVE  ReadsBack(blocks)
<1>1. WellSaid(blocks)
  <2>1. blocks \in Seq(StatedBlock)
    BY SaidAssumption
  <2>2. DOMAIN blocks = 1 .. Len(blocks)
    BY <2>1, LenProperties
  <2> QED BY <2>1, <2>2, SaidAssumption DEF WellSaid, Meant
<1>2. /\ parseFilesFromContent(Lines(blocks)) = Merged(Stated(blocks), Entry)
      /\ extractBuildSummary(Lines(blocks)) \in Seq({ProseLine})
  BY <1>1, RepliesAreRead
<1>3. Range(extractBuildSummary(Lines(blocks))) \subseteq {ProseLine}
  <2> DEFINE s == extractBuildSummary(Lines(blocks))
  <2>1. s \in Seq({ProseLine})
    BY <1>2
  <2> HIDE DEF s
  <2>2. s \in [1 .. Len(s) -> {ProseLine}]
    BY <2>1, LenProperties
  <2>3. Range(s) \subseteq {ProseLine}
    BY <2>2 DEF Range
  <2> QED BY <2>3 DEF s
<1> QED BY <1>2, <1>3 DEF ReadsBack, Parsed, Entry

\* The behaviours of one build.
ReplySpec(on) == ReplyStart(on) /\ [][ReplyNext]_replyVars

\* The steps before the files are there.
Early == {"off", "first", "retry", "syntax", "write"}

\* The inductive invariant: what will be written was stated or is the default
\* entry point, a new build has no files before it is, and what the tools
\* deleted is not there when an edit is written.
ReplyInv ==
  /\ DOMAIN toWrite \subseteq stated \cup {Index}
  /\ step \in Early => DOMAIN files \cap deleted = {}
  /\ buildKind.edit = FALSE /\ step \in Early => DOMAIN files = {}

\* The files of one map that another has with other code.
Changed(new, old) == {p \in DOMAIN old : new[p] # old[p]}

\* The property, for a map that comes next.
Lost(new) == DOMAIN files \ DOMAIN new
KeptIn(new) ==
  /\ \A p \in Lost(new) : step = "first" /\ p \in deleted'
  /\ \A p \in Changed(new, files) \ Lost(new) : EndsLike(Index, p) \/ Covered(p)

(***************************************************************************)
(* Paths that are read were stated, the default entry point apart.         *)
(***************************************************************************)
LEMMA ReadPaths ==
  ASSUME NEW blocks \in Said
  PROVE  DOMAIN Parsed(blocks) \subseteq DOMAIN Stated(blocks) \cup {Index}
BY SaidReadsBack DEF ReadsBack, Merged

(***************************************************************************)
(* What an overlay holds, and what it changes.                             *)
(***************************************************************************)
LEMMA OverlayFacts ==
  ASSUME NEW fs, NEW fixed, NEW allowed
  PROVE  /\ DOMAIN Overlay(fs, fixed, allowed) = DOMAIN fs \cup (DOMAIN fixed \cap allowed)
         /\ Changed(Overlay(fs, fixed, allowed), fs) \subseteq DOMAIN fixed
BY DEF Overlay, Merged, Among, Changed

\* A map in which only the files of a reply are new, or stand for them.
Follows(new, parsed) ==
  /\ DOMAIN files \subseteq DOMAIN new
  /\ \A k \in Changed(new, files) : \E p \in DOMAIN parsed : EndsLike(p, k)

(***************************************************************************)
(* A loop may leave the map as it was,                                     *)
(***************************************************************************)
LEMMA SameFollows ==
  ASSUME NEW parsed PROVE Follows(files, parsed)
BY DEF Follows, Changed

(***************************************************************************)
(* lay files of its reply over it,                                         *)
(***************************************************************************)
LEMMA OverlayFollows ==
  ASSUME NEW parsed, NEW allowed PROVE Follows(Overlay(files, parsed, allowed), parsed)
<1>1. /\ DOMAIN Overlay(files, parsed, allowed) = DOMAIN files \cup (DOMAIN parsed \cap allowed)
      /\ Changed(Overlay(files, parsed, allowed), files) \subseteq DOMAIN parsed
  BY OverlayFacts, Zenon
<1>2. \A k : EndsLike(k, k) BY DEF EndsLike
<1> QED BY <1>1, <1>2 DEF Follows

(***************************************************************************)
(* apply them with the guards of applyParsedFiles(),                       *)
(***************************************************************************)
LEMMA ApplyFollows ==
  ASSUME NEW parsed, NEW allowNew, NEW only
  PROVE  Follows(applyParsedFiles(files, parsed, allowNew, only), parsed)
BY OverlayFollows DEF applyParsedFiles

(***************************************************************************)
(* or write them over files whose paths end like theirs (the security      *)
(* loop).                                                                  *)
(***************************************************************************)
LEMMA ResolvedFollows ==
  ASSUME NEW parsed PROVE Follows(Resolved(parsed), parsed)
<1>1. DOMAIN Resolved(parsed) = DOMAIN files BY DEF Resolved
<1>2. ASSUME NEW k \in Changed(Resolved(parsed), files)
      PROVE  \E p \in DOMAIN parsed : EndsLike(p, k)
  <2>1. CASE k \in DOMAIN parsed BY <2>1 DEF EndsLike
  <2>2. CASE k \notin DOMAIN parsed
    <3>1. {p \in DOMAIN parsed : EndsLike(p, k) /\ Target(p) = k} # {}
      BY <1>2, <2>2 DEF Resolved, Changed
    <3> QED BY <3>1
  <2> QED BY <2>1, <2>2
<1> QED BY <1>1, <1>2 DEF Follows

\* What a repair makes of the files, out of one reply.
Outcomes(parsed) ==
  {files, Schemaed(parsed), Resolved(parsed), FakesTaken(parsed), Wired(parsed),
   ImportsMended(parsed), ServerMended(parsed)}
    \cup CutOut(parsed) \cup TypesMended(parsed) \cup Audited(parsed)

(***************************************************************************)
(* Whatever loop: nothing is lost, and what changed follows the reply.     *)
(***************************************************************************)
LEMMA LoopsFollow ==
  ASSUME NEW parsed, NEW new \in Outcomes(parsed)
  PROVE  Follows(new, parsed)
<1>1. CASE new \in {files, Schemaed(parsed)}
  <2>1. new = files \/ new = applyParsedFiles(files, parsed, TRUE, {Schema, Types})
    BY <1>1 DEF Schemaed
  <2> QED BY <2>1, SameFollows, ApplyFollows
<1>2. CASE new = Resolved(parsed) BY <1>2, ResolvedFollows
<1>3. CASE new \in {FakesTaken(parsed), ImportsMended(parsed)} \cup CutOut(parsed) \cup Audited(parsed)
  <2>1. \/ new = files
        \/ new = applyParsedFiles(files, parsed, FALSE, DOMAIN parsed)
        \/ new = applyParsedFiles(files, parsed, TRUE, DOMAIN parsed)
    BY <1>3 DEF FakesTaken, ImportsMended, CutOut, Audited
  <2> QED BY <2>1, SameFollows, ApplyFollows
<1>4. CASE new \in {Wired(parsed), ServerMended(parsed)} \cup TypesMended(parsed)
  <2>1. \E allowed : new = Overlay(files, parsed, allowed)
    BY <1>4 DEF Wired, ServerMended, TypesMended
  <2> QED BY <2>1, OverlayFollows
<1> QED BY <1>1, <1>2, <1>3, <1>4 DEF Outcomes

(***************************************************************************)
(* A repair is one of these.                                               *)
(***************************************************************************)
LEMMA RepairOutcome ==
  ASSUME Repair
  PROVE  /\ step \in Loops /\ UNCHANGED <<buildKind, step, deleted, toWrite>>
         /\ \E blocks \in Said : Dispatches(blocks) /\ files' \in Outcomes(Parsed(blocks))
<1>1. step \in Loops /\ UNCHANGED <<buildKind, step, deleted, toWrite>> BY DEF Repair
<1>2. PICK blocks \in Said :
        /\ Dispatches(blocks)
        /\ \/ files' = Schemaed(Parsed(blocks)) \/ files' = Resolved(Parsed(blocks))
           \/ files' = FakesTaken(Parsed(blocks)) \/ files' = Wired(Parsed(blocks))
           \/ files' = ImportsMended(Parsed(blocks)) \/ files' \in CutOut(Parsed(blocks))
           \/ files' = ServerMended(Parsed(blocks)) \/ files' \in TypesMended(Parsed(blocks))
           \/ files' \in Audited(Parsed(blocks))
  BY Zenon DEF Repair
<1>3. files' \in Outcomes(Parsed(blocks)) BY <1>2, Zenon DEF Outcomes
<1> QED BY <1>1, <1>2, <1>3

(***************************************************************************)
(* So a repair changes what its reply stated, and nothing else.            *)
(***************************************************************************)
LEMMA RepairStep ==
  ASSUME ReplyInv, Repair
  PROVE  ReplyInv' /\ KeptIn(files')
<1>1. PICK blocks \in Said : Dispatches(blocks) /\ files' \in Outcomes(Parsed(blocks))
  BY RepairOutcome
<1>2. step \in Loops /\ UNCHANGED <<buildKind, step, deleted, toWrite>> BY RepairOutcome
<1>3. Follows(files', Parsed(blocks)) BY <1>1, LoopsFollow
<1>4. DOMAIN Parsed(blocks) \subseteq DOMAIN Stated(blocks) \cup {Index} BY <1>1, ReadPaths
<1>5. stated' = stated \cup DOMAIN Stated(blocks) BY <1>1 DEF Dispatches
<1>6. KeptIn(files') BY <1>3, <1>4, <1>5 DEF KeptIn, Lost, Follows, Covered
<1>7. ReplyInv' BY <1>2, <1>5 DEF ReplyInv, Loops, Early
<1> QED BY <1>6, <1>7

\* What the first reply leaves to be written.
Boilerplate == IF buildKind.framework = "react" THEN {} ELSE {Index}
Filling(fs) == Among(fs, {p \in DOMAIN fs : ~isEffectivelyEmpty(fs[p])})
Leaves(blocks, how) == Filling(Without(FirstFiles(blocks, how), Boilerplate))
Note == [p \in {<<"output.md">>} |-> <<ProseLine>>]

(***************************************************************************)
(* The step of the first reply, in these words.                            *)
(***************************************************************************)
LEMMA FirstLeaves ==
  ASSUME FirstReply
  PROVE  /\ step = "first" /\ step' \in {"ended", "retry"}
         /\ UNCHANGED <<buildKind, repairs>> /\ files' = Without(files, deleted')
         /\ \E blocks \in Said, how \in {"tools", "reply", "none"} :
              LET full == Leaves(blocks, how)
              IN  /\ toWrite' = IF full = NoFiles THEN Note ELSE full
                  /\ stated' = IF full = NoFiles THEN {<<"output.md">>} ELSE DOMAIN Stated(blocks)
BY DEF FirstReply, Leaves, Filling, Boilerplate, Note

(***************************************************************************)
(* What the first reply leaves to be written was stated, or is the default *)
(* entry point; what is lost, the tools deleted.                           *)
(***************************************************************************)
LEMMA FirstStep ==
  ASSUME ReplyInv, FirstReply
  PROVE  ReplyInv' /\ KeptIn(files')
<1>1. PICK blocks \in Said, how \in {"tools", "reply", "none"} :
        LET full == Leaves(blocks, how)
        IN  /\ toWrite' = IF full = NoFiles THEN Note ELSE full
            /\ stated' = IF full = NoFiles THEN {<<"output.md">>} ELSE DOMAIN Stated(blocks)
  BY FirstLeaves
<1>2. step = "first" /\ UNCHANGED buildKind /\ files' = Without(files, deleted')
  BY FirstLeaves
<1>3. DOMAIN FirstFiles(blocks, how) \subseteq DOMAIN Stated(blocks) \cup {Index}
  <2>1. DOMAIN Parsed(blocks) \subseteq DOMAIN Stated(blocks) \cup {Index} BY ReadPaths
  <2>2. DOMAIN NoFiles = {} BY DEF NoFiles
  <2>3. DOMAIN generatedFiles(blocks) \subseteq DOMAIN Stated(blocks) BY DEF generatedFiles, Among
  <2> QED BY <2>1, <2>2, <2>3 DEF FirstFiles
<1>4. DOMAIN toWrite' \subseteq stated' \cup {Index}
  <2> DEFINE full == Leaves(blocks, how)
  <2>1. DOMAIN full \subseteq DOMAIN FirstFiles(blocks, how)
    BY DEF Leaves, Filling, Among, Without
  <2>2. /\ toWrite' = IF full = NoFiles THEN Note ELSE full
        /\ stated' = IF full = NoFiles THEN {<<"output.md">>} ELSE DOMAIN Stated(blocks)
    BY <1>1
  <2>3. DOMAIN Note = {<<"output.md">>} BY DEF Note
  <2> HIDE DEF full
  <2> QED BY <1>3, <2>1, <2>2, <2>3
<1>5. /\ DOMAIN files' = DOMAIN files \ deleted'
      /\ \A p \in DOMAIN files' : files'[p] = files[p]
  BY <1>2 DEF Without
<1>6. KeptIn(files') BY <1>2, <1>5 DEF KeptIn, Lost, Changed
<1> QED BY <1>2, <1>4, <1>5, <1>6 DEF ReplyInv, Early

(***************************************************************************)
(* The retries over what will be written keep that.                        *)
(***************************************************************************)
LEMMA RetrySteps ==
  ASSUME ReplyInv, RetryMissing \/ FixSyntax
  PROVE  ReplyInv' /\ UNCHANGED files
<1>1. PICK blocks \in Said :
        Dispatches(blocks) /\ \E allowed : toWrite' = Overlay(toWrite, Parsed(blocks), allowed)
  BY DEF RetryMissing, FixSyntax
<1>2. DOMAIN toWrite' \subseteq DOMAIN toWrite \cup DOMAIN Parsed(blocks) 
  <2>1. PICK allowed : toWrite' = Overlay(toWrite, Parsed(blocks), allowed) BY <1>1
  <2> DEFINE p == Parsed(blocks)
  <2> HIDE DEF p
  <2>2. DOMAIN Overlay(toWrite, p, allowed) = DOMAIN toWrite \cup (DOMAIN p \cap allowed)
    BY DEF Overlay, Merged, Among
  <2> QED BY <2>1, <2>2 DEF p
<1>3. DOMAIN Parsed(blocks) \subseteq DOMAIN Stated(blocks) \cup {Index} BY ReadPaths
<1>4. stated' = stated \cup DOMAIN Stated(blocks) BY <1>1 DEF Dispatches
<1>5. step \in Early /\ UNCHANGED <<buildKind, deleted, files>>
  BY DEF RetryMissing, FixSyntax, Early
<1> QED BY <1>2, <1>3, <1>4, <1>5 DEF ReplyInv

(***************************************************************************)
(* Writing an edit changes what was to be written; a new build has no      *)
(* files to lose.                                                          *)
(***************************************************************************)
LEMMA WriteStep ==
  ASSUME ReplyInv, WriteFiles PROVE ReplyInv' /\ KeptIn(files')
<1>1. step = "write" /\ step' = "schema" /\ UNCHANGED <<buildKind, stated, deleted, toWrite>>
  BY DEF WriteFiles
<1>2. ReplyInv' BY <1>1 DEF ReplyInv, Early
<1>3. CASE buildKind.edit
  <2>1. PICK asks \in {"tokens", "theme", "other"} :
          files' = Without(Merged(Written(asks), files), deleted)
    BY <1>3 DEF WriteFiles
  <2> DEFINE written == Written(asks)
  <2>2. DOMAIN written \subseteq DOMAIN toWrite BY DEF Written
  <2>3. files' = Without(Merged(written, files), deleted) BY <2>1
  <2> HIDE DEF written
  <2>4. DOMAIN written \subseteq stated' \cup {Index} BY <1>1, <2>2 DEF ReplyInv
  <2>5. DOMAIN files \cap deleted = {} BY <1>1 DEF ReplyInv, Early
  <2>6. DOMAIN files \subseteq DOMAIN files' /\ Changed(files', files) \subseteq DOMAIN written
    BY <2>3, <2>5 DEF Without, Merged, Changed
  <2>7. \A p : EndsLike(p, p) BY DEF EndsLike
  <2>8. ASSUME NEW p \in Changed(files', files) PROVE EndsLike(Index, p) \/ Covered(p)
    <3>1. p \in stated' \/ p = Index BY <2>4, <2>6
    <3> QED BY <2>7, <3>1 DEF Covered
  <2> QED BY <1>2, <2>6, <2>8 DEF KeptIn, Lost
<1>4. CASE ~buildKind.edit
  <2>1. buildKind.edit = FALSE BY <1>4
  <2>2. DOMAIN files = {} BY <1>1, <2>1 DEF ReplyInv, Early
  <2> QED BY <1>2, <2>2 DEF KeptIn, Lost, Changed
<1> QED BY <1>3, <1>4

(***************************************************************************)
(* Ending early, going on and the schema touch no file.                    *)
(***************************************************************************)
LEMMA OtherReplySteps ==
  ASSUME ReplyInv, EndEarly \/ GoOn \/ ApplySchema \/ UNCHANGED replyVars
  PROVE  ReplyInv' /\ UNCHANGED files
<1>1. UNCHANGED <<buildKind, stated, deleted, toWrite, files>>
  BY DEF EndEarly, GoOn, ApplySchema, replyVars
<1>2. step' \in Early => step \in Early
  BY DEF EndEarly, GoOn, ApplySchema, replyVars, NextStep, Early
<1> QED BY <1>1, <1>2 DEF ReplyInv

(***************************************************************************)
(* Every step keeps the invariant, and the files.                          *)
(***************************************************************************)
LEMMA ReplyNextStep ==
  ASSUME ReplyInv, [ReplyNext]_replyVars
  PROVE  ReplyInv' /\ KeptIn(files')
<1>1. UNCHANGED files => KeptIn(files') BY DEF KeptIn, Lost, Changed
<1>2. CASE FirstReply BY <1>2, FirstStep
<1>3. CASE RetryMissing \/ FixSyntax BY <1>1, <1>3, RetrySteps
<1>4. CASE WriteFiles BY <1>4, WriteStep
<1>5. CASE Repair BY <1>5, RepairStep
<1>6. CASE EndEarly \/ GoOn \/ ApplySchema \/ UNCHANGED replyVars BY <1>1, <1>6, OtherReplySteps
<1> QED BY <1>2, <1>3, <1>4, <1>5, <1>6 DEF ReplyNext

(***************************************************************************)
(* A repair brings no paths but those of its reply.                        *)
(***************************************************************************)
LEMMA LoopsAdd ==
  ASSUME NEW parsed, NEW new \in Outcomes(parsed)
  PROVE  DOMAIN new \subseteq DOMAIN files \cup DOMAIN parsed
<1>1. \A allowed : DOMAIN Overlay(files, parsed, allowed) \subseteq DOMAIN files \cup DOMAIN parsed
  BY DEF Overlay, Merged, Among
<1>2. \A allowNew, only :
        DOMAIN applyParsedFiles(files, parsed, allowNew, only) \subseteq DOMAIN files \cup DOMAIN parsed
  BY <1>1 DEF applyParsedFiles
<1>3. DOMAIN Resolved(parsed) = DOMAIN files
  BY DEF Resolved
<1>4. CASE new \in {files, Schemaed(parsed)}
  <2>1. new = files \/ new = applyParsedFiles(files, parsed, TRUE, {Schema, Types})
    BY <1>4 DEF Schemaed
  <2> QED BY <1>2, <2>1
<1>5. CASE new = Resolved(parsed) BY <1>3, <1>5
<1>6. CASE new \in {FakesTaken(parsed), ImportsMended(parsed)} \cup CutOut(parsed) \cup Audited(parsed)
  <2>1. \/ new = files
        \/ new = applyParsedFiles(files, parsed, FALSE, DOMAIN parsed)
        \/ new = applyParsedFiles(files, parsed, TRUE, DOMAIN parsed)
    BY <1>6 DEF FakesTaken, ImportsMended, CutOut, Audited
  <2> QED BY <1>2, <2>1
<1>7. CASE new \in {Wired(parsed), ServerMended(parsed)} \cup TypesMended(parsed)
  <2>1. \E allowed : new = Overlay(files, parsed, allowed)
    BY <1>7 DEF Wired, ServerMended, TypesMended
  <2> QED BY <1>1, <2>1
<1> QED BY <1>4, <1>5, <1>6, <1>7 DEF Outcomes

\* Files that have a path and more than blank lines.
Substantial(fs) == \A p \in DOMAIN fs : p # NoPath /\ trim(fs[p]) # <<>>

(***************************************************************************)
(* A reader sees only such files in a block,                               *)
(***************************************************************************)
LEMMA AddedSubstantial ==
  ASSUME NEW b \in StatedBlock, b.form # "none" => b.path # NoPath,
         NEW all, Substantial(all)
  PROVE  Substantial(AddStated(all, b))
<1> DEFINE t == trim(b.body)
<1>1. t # <<>> => trim(t) # <<>>
  <2>1. b.body \in Seq(TextLine)
    BY BlockFields
  <2>2. t \in Seq(TextLine) /\ (t # <<>> => \E i \in DOMAIN t : t[i].is # "blank")
    BY <2>1, TrimKeeps
  <2> HIDE DEF t
  <2> QED BY <2>2, TrimKeeps
<1> HIDE DEF t
<1>2. ASSUME NEW p, p # NoPath, t # <<>> PROVE Substantial(Put(p, t, all))
  <2> DEFINE new == Put(p, t, all)
  <2>1. \A q \in DOMAIN new : q # p => q \in DOMAIN all /\ new[q] = all[q]
    BY DEF Put, Merged
  <2>2. new[p] = t
    BY DEF Put, Merged
  <2> HIDE DEF new
  <2> QED BY <1>1, <1>2, <2>1, <2>2 DEF Substantial, new
<1>3. App # NoPath
  BY DEF App, NoPath
<1> QED BY <1>2, <1>3 DEF AddStated, t

(***************************************************************************)
(* and so in a reply.                                                      *)
(***************************************************************************)
LEMMA StatedSubstantial ==
  ASSUME NEW blocks \in Said
  PROVE  Substantial(Stated(blocks))
<1> DEFINE N == Len(blocks)
<1>1. /\ N \in Nat /\ \A n \in 1 .. N : blocks[n] \in StatedBlock
      /\ \A n \in 1 .. N : blocks[n].form # "none" => blocks[n].path # NoPath
  <2>1. blocks \in Seq(StatedBlock)
    BY SaidAssumption
  <2>2. DOMAIN blocks = 1 .. N
    BY <2>1, LenProperties
  <2> QED BY <2>1, <2>2, SaidAssumption, LenProperties, ElementOfSeq
<1>2. PICK r : Adds(r, blocks) /\ Stated(blocks) = r[N]
  BY <1>1, StatedAdds
<1>3. r[0] = NoFiles /\ \A n \in 1 .. N : r[n] = AddStated(r[n - 1], blocks[n])
  BY <1>2 DEF Adds
<1> HIDE DEF N
<1> DEFINE T == {n \in Nat : n <= N => Substantial(r[n])}
<1>4. 0 \in T
  BY <1>3 DEF Substantial, NoFiles
<1>5. ASSUME NEW n \in T PROVE n + 1 \in T
  <2>1. CASE n + 1 <= N
    <3> DEFINE k == n + 1
    <3>1. k \in 1 .. N /\ k - 1 = n /\ Substantial(r[n])
      BY <1>1, <2>1
    <3> HIDE DEF k
    <3>2. Substantial(r[k])
      BY <1>1, <1>3, <3>1, AddedSubstantial
    <3> QED BY <3>2 DEF k
  <2> QED BY <2>1
<1>6. T = Nat
  <2>1. T \in SUBSET Nat
    OBVIOUS
  <2> HIDE DEF T
  <2> QED BY <1>4, <1>5, <2>1, ByInduction
<1> QED BY <1>1, <1>2, <1>6

(***************************************************************************)
(* What is laid over such files, of such files, leaves such files.         *)
(***************************************************************************)
LEMMA MergedSubstantial ==
  ASSUME NEW new, NEW old, Substantial(new), Substantial(old)
  PROVE  Substantial(Merged(new, old))
BY DEF Substantial, Merged

LEMMA SomeSubstantial ==
  ASSUME NEW fs, NEW paths, Substantial(fs)
  PROVE  Substantial(Among(fs, paths)) /\ Substantial(Without(fs, paths))
BY DEF Substantial, Among, Without

(***************************************************************************)
(* Neither the entry point nor the note that there is no file is blank.    *)
(***************************************************************************)
LEMMA OneLine ==
  ASSUME NEW line, line.is # "blank", NEW p, p # NoPath
  PROVE  Substantial([q \in {p} |-> <<line>>])
<1> DEFINE code == <<line>>
<1>1. code \in Seq({line}) /\ DOMAIN code = {1} /\ code[1] = line
  OBVIOUS
<1> HIDE DEF code
<1>2. trim(code) # <<>>
  BY <1>1, TrimKeeps
<1> QED BY <1>2 DEF Substantial, code

LEMMA ParsedSubstantial ==
  ASSUME NEW blocks \in Said
  PROVE  Substantial(Parsed(blocks))
<1>1. Substantial([p \in {Index} |-> DefaultIndex])
  <2> DEFINE line == CodeLine("the default entry", 1, 1)
  <2>1. line.is # "blank" /\ Index # NoPath /\ DefaultIndex = <<line>>
    BY DEF CodeLine, Index, NoPath, DefaultIndex
  <2> HIDE DEF line
  <2> QED BY <2>1, OneLine
<1>2. Parsed(blocks) = Merged(Stated(blocks), [p \in {Index} |-> DefaultIndex])
  BY SaidReadsBack DEF ReadsBack
<1> QED BY <1>1, <1>2, StatedSubstantial, MergedSubstantial

(***************************************************************************)
(* The steps keep the types.                                               *)
(***************************************************************************)
LEMMA ReplyTypesStep ==
  ASSUME ReplyTypeOK, [ReplyNext]_replyVars
  PROVE  ReplyTypeOK'
<1> DEFINE Stages == {"off", "first", "ended", "write", "apply", "done"} \cup DOMAIN NextStep
           Named == \A p \in DOMAIN files : p # NoPath
<1>1. step \in Stages /\ Substantial(toWrite) /\ Named /\ repairs \in 0 .. MaxRepairs
  BY DEF ReplyTypeOK, Substantial
<1>2. SUFFICES step' \in Stages /\ Substantial(toWrite') /\ Named' /\ repairs' \in 0 .. MaxRepairs
  BY DEF ReplyTypeOK, Substantial
<1>3. \A blocks : Dispatches(blocks) => repairs' \in 0 .. MaxRepairs
  <2>1. MaxRepairs \in Nat BY ProjectAssumption
  <2> QED BY <1>1, <2>1 DEF Dispatches
<1>4. CASE FirstReply
  <2>1. PICK blocks \in Said, how \in {"tools", "reply", "none"} :
          LET full == Leaves(blocks, how) IN toWrite' = IF full = NoFiles THEN Note ELSE full
    BY <1>4, FirstLeaves
  <2>2. Substantial(FirstFiles(blocks, how))
    <3>1. Substantial(NoFiles) BY DEF Substantial, NoFiles
    <3>2. Substantial(generatedFiles(blocks))
      BY StatedSubstantial, SomeSubstantial DEF generatedFiles
    <3> QED BY <3>1, <3>2, ParsedSubstantial DEF FirstFiles
  <2>3. Substantial(Leaves(blocks, how))
    BY <2>2, SomeSubstantial DEF Leaves, Filling
  <2>4. Substantial(Note)
    <3>1. ProseLine.is # "blank" /\ <<"output.md">> # NoPath BY DEF ProseLine, NoPath
    <3> QED BY <3>1, OneLine DEF Note
  <2>5. Substantial(toWrite')
    BY <2>1, <2>3, <2>4
  <2>6. step' \in {"ended", "retry"} /\ repairs' = repairs /\ files' = Without(files, deleted')
    BY <1>4, FirstLeaves
  <2>7. Named'
    BY <1>1, <2>6 DEF Without
  <2> QED BY <1>1, <2>5, <2>6, <2>7 DEF NextStep
<1>5. CASE RetryMissing \/ FixSyntax
  <2>1. PICK blocks \in Said :
          Dispatches(blocks) /\ \E allowed : toWrite' = Overlay(toWrite, Parsed(blocks), allowed)
    BY <1>5 DEF RetryMissing, FixSyntax
  <2>2. Substantial(toWrite')
    BY <1>1, <2>1, ParsedSubstantial, SomeSubstantial, MergedSubstantial DEF Overlay
  <2>3. step' = "syntax" /\ UNCHANGED files
    BY <1>5 DEF RetryMissing, FixSyntax
  <2> QED BY <1>1, <1>3, <2>1, <2>2, <2>3 DEF NextStep
<1>6. CASE WriteFiles
  <2>1. DOMAIN files' \subseteq DOMAIN files \cup DOMAIN toWrite
    BY <1>6 DEF WriteFiles, Without, Merged, Written
  <2>2. step' = "schema" /\ UNCHANGED <<toWrite, repairs>>
    BY <1>6 DEF WriteFiles
  <2>3. Named'
    BY <1>1, <2>1 DEF Substantial
  <2> QED BY <1>1, <2>2, <2>3 DEF NextStep
<1>7. CASE Repair
  <2>1. PICK blocks \in Said : Dispatches(blocks) /\ files' \in Outcomes(Parsed(blocks))
    BY <1>7, RepairOutcome
  <2>2. step \in Loops /\ UNCHANGED <<step, toWrite>>
    BY <1>7, RepairOutcome
  <2>3. DOMAIN files' \subseteq DOMAIN files \cup DOMAIN Parsed(blocks)
    BY <2>1, LoopsAdd
  <2>4. Named'
    BY <1>1, <2>3, ParsedSubstantial DEF Substantial
  <2> QED BY <1>1, <1>3, <2>1, <2>2, <2>4
<1>8. CASE GoOn
  <2>1. step \in DOMAIN NextStep /\ step' = NextStep[step] /\ UNCHANGED <<toWrite, files, repairs>>
    BY <1>8 DEF GoOn
  <2>2. \A s \in DOMAIN NextStep : NextStep[s] \in Stages
    BY DEF NextStep
  <2> QED BY <1>1, <2>1, <2>2
<1>9. CASE EndEarly \/ ApplySchema \/ UNCHANGED replyVars
  <2>1. step' \in {step, "ended", "server"} /\ UNCHANGED <<toWrite, files, repairs>>
    BY <1>9 DEF EndEarly, ApplySchema, replyVars
  <2> QED BY <1>1, <2>1 DEF NextStep
<1> QED BY <1>4, <1>5, <1>6, <1>7, <1>8, <1>9 DEF ReplyNext

(***************************************************************************)
(* A file that is to be written has a path and is not blank, and every     *)
(* delivered file has a path: for any replies, projects and numbers of     *)
(* repairs.                                                                *)
(***************************************************************************)
THEOREM ReplyTypeCorrect ==
  ASSUME NEW on \in BOOLEAN
  PROVE  ReplySpec(on) => []ReplyTypeOK
<1>1. ReplyStart(on) => ReplyTypeOK
  <2> SUFFICES ASSUME ReplyStart(on) PROVE ReplyTypeOK
    OBVIOUS
  <2>1. DOMAIN NoFiles = {} BY DEF NoFiles
  <2>2. \A p \in DOMAIN files : p # NoPath
    <3>1. files \in Existing \/ files = NoFiles BY DEF ReplyStart
    <3> QED BY <2>1, <3>1, ProjectAssumption
  <2>3. repairs \in 0 .. MaxRepairs
    BY ProjectAssumption DEF ReplyStart
  <2> QED BY <2>1, <2>2, <2>3 DEF ReplyStart, ReplyTypeOK
<1>2. ReplyTypeOK /\ [ReplyNext]_replyVars => ReplyTypeOK' BY ReplyTypesStep
<1> QED BY <1>1, <1>2, PTL DEF ReplySpec

(***************************************************************************)
(* Whatever a reply states, and whichever way each path is written, the    *)
(* parser gives those files and the entry point, and the summary repeats   *)
(* no line of them (file-parser.ts 207-322, 613-660).                      *)
(***************************************************************************)
THEOREM FilesReadBackAlways ==
  ASSUME NEW on \in BOOLEAN
  PROVE  ReplySpec(on) => []FilesReadBack
<1>1. FilesReadBack
  BY SaidReadsBack DEF FilesReadBack
<1> QED BY <1>1, PTL

(***************************************************************************)
(* A file of the project changes only where a reply of the build stated    *)
(* it, and is lost only where the tools of the first reply deleted it,     *)
(* whatever the replies, the project and the number of repairs (build.ts   *)
(* 1826-4560).                                                             *)
(***************************************************************************)
THEOREM OthersKeptAlways ==
  ASSUME NEW on \in BOOLEAN
  PROVE  ReplySpec(on) => OthersKept
<1>1. ReplyStart(on) => ReplyInv
  <2>1. DOMAIN NoFiles = {} BY DEF NoFiles
  <2> QED BY <2>1 DEF ReplyStart, ReplyInv
<1>2. ReplyInv /\ [ReplyNext]_replyVars => ReplyInv' BY ReplyNextStep
<1>3. ReplyInv /\ [ReplyNext]_replyVars => Kept({p \in DOMAIN files : ~EndsLike(Index, p)})
  <2>1. ASSUME KeptIn(files') PROVE Kept({p \in DOMAIN files : ~EndsLike(Index, p)})
    BY <2>1 DEF KeptIn, Kept, Lost, Changed
  <2> QED BY <2>1, ReplyNextStep
<1>4. ReplyInv /\ [ReplyNext]_replyVars
        => [Kept({p \in DOMAIN files : ~EndsLike(Index, p)})]_replyVars
  BY <1>3
<1> QED BY <1>1, <1>2, <1>4, PTL DEF ReplySpec, OthersKept
=============================================================================
