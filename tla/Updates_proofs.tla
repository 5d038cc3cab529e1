--------------------------- MODULE Updates_proofs ---------------------------
(***************************************************************************)
(* Proofs about Updates, for any number of messages, of notices on the     *)
(* queue and of faults of any kind.                                        *)
(*                                                                         *)
(* The inductive invariant says where what the player lacks still is: in   *)
(* what the consumer has read, or on the queue.  For the messages that is  *)
(* enough; for the flag the last notice on the queue decides, and before   *)
(* it others may say the opposite.  A read that fails breaks it off: it is *)
(* said of a consumer that goes on.                                        *)
(***************************************************************************)
EXTENDS Updates, FiniteSetTheorems, FunctionTheorems, TLAPS

\* The queue s has a notice that brings message id.
Announced(s, id) ==
    \E i \in 1 .. Len(s) : s[i].type = "chat" /\ s[i].payload \in {id, All}

\* It has no notice of the opponent's coming or going.
NoWord(s) == \A i \in 1 .. Len(s) : s[i].type = "chat"

\* What the payload says of the opponent is b; an empty one asks the database.
Says(payload, b) == payload = "" \/ (payload = "true") = b

\* The last such notice on the queue says b.
LastWord(s, b) ==
    \E i \in 1 .. Len(s) :
        /\ s[i].type = "opponent_connected"
        /\ Says(s[i].payload, b)
        /\ \A j \in 1 .. Len(s) : j > i => s[j].type = "chat"

\* Message id is in the thread or on its way there.
Coming(id) ==
    \/ id \in ToSet(chat_thread)
    \/ reading.type = "chat" /\ id \in ToSet(reading.value)
    \/ Announced(notices, id)

\* So is the word of whether the opponent is connected.
FlagComing ==
    \/ LastWord(notices, opponent)
    \/ /\ NoWord(notices)
       /\ IF reading.type = "opponent_connected"
          THEN reading.value = opponent
          ELSE opponent_connected = opponent

\* The player is in the game, and its server hears the notifications and has a
\* consumer for them.
InTouch == player = "in" /\ connection = "up" /\ consumer = "running"

\* A player that is joining or in the game has its channels listened to.
Listening == player # "out" => listeners # 0

\* No committed message is lost between the table and the thread.
ChatComing == InTouch => \A id \in chat : Coming(id)

\* Nor is the last change of whether the opponent is connected, once its trigger
\* has announced it.
WordComing == InTouch /\ ~unannounced => FlagComing

\* The inductive invariant.
IInv == TypeOK /\ Listening /\ ChatComing /\ WordComing

-----------------------------------------------------------------------------
(***************************************************************************)
(* Lemmas about sequences.                                                 *)
(***************************************************************************)
\* There is a sequence of the ids in order, and it has each of them: the
\* place of an id is the number of ids up to it.
LEMMA OrderExists ==
    ASSUME NEW S \in SUBSET Id
    PROVE  \E s \in [1 .. Cardinality(S) -> S] :
                \A i, j \in 1 .. Cardinality(S) : i < j => s[i] < s[j]
<1> DEFINE n == Cardinality(S)
           upTo(x) == {y \in S : y <= x}
           rank == [x \in S |-> Cardinality(upTo(x))]
<1>1. S \subseteq Nat /\ IsFiniteSet(S) /\ n \in Nat
  <2>1. IsFiniteSet(Id) /\ Id \subseteq Nat
    BY BoundsAssumption, FS_Interval DEF Id
  <2>2. IsFiniteSet(S)
    BY <2>1, FS_Subset
  <2> QED
    BY <2>1, <2>2, FS_CardinalityType
<1>2. \A x \in S : IsFiniteSet(upTo(x)) /\ rank[x] \in 1 .. n
  <2> SUFFICES ASSUME NEW x \in S PROVE IsFiniteSet(upTo(x)) /\ rank[x] \in 1 .. n
    OBVIOUS
  <2>1. upTo(x) \in SUBSET S /\ x \in upTo(x)
    BY <1>1
  <2> HIDE DEF upTo
  <2>2. IsFiniteSet(upTo(x)) /\ Cardinality(upTo(x)) <= n
    BY <1>1, <2>1, FS_Subset
  <2>3. Cardinality(upTo(x)) \in Nat /\ Cardinality(upTo(x)) # 0
    BY <2>1, <2>2, FS_CardinalityType, FS_EmptySet
  <2> QED
    BY <1>1, <2>2, <2>3
<1>3. \A x, y \in S : x < y => rank[x] < rank[y]
  <2> SUFFICES ASSUME NEW x \in S, NEW y \in S, x < y PROVE rank[x] < rank[y]
    OBVIOUS
  <2>1. upTo(x) \in SUBSET upTo(y) /\ y \in upTo(y) /\ y \notin upTo(x)
    <3>1. x \in Nat /\ y \in Nat /\ \A z \in S : z \in Nat
      BY <1>1
    <3>2. \A z \in S : z <= x => z <= y
      BY <3>1
    <3>3. y <= y /\ ~(y <= x)
      BY <3>1
    <3> QED
      BY <3>2, <3>3
  <2>2. IsFiniteSet(upTo(y)) /\ rank[x] \in Nat /\ rank[y] \in Nat
    BY <1>1, <1>2
  <2>3. rank[x] = Cardinality(upTo(x)) /\ rank[y] = Cardinality(upTo(y))
    OBVIOUS
  <2> HIDE DEF upTo, rank
  <2>4. Cardinality(upTo(x)) <= Cardinality(upTo(y))
        /\ Cardinality(upTo(x)) # Cardinality(upTo(y))
    BY <2>1, <2>2, FS_Subset
  <2> QED
    BY <2>2, <2>3, <2>4
<1>4. rank \in Surjection(S, 1 .. n)
  <2>1. rank \in [S -> 1 .. n]
    BY <1>2
  <2>2. IsFiniteSet(1 .. n) /\ Cardinality(1 .. n) = n
    BY <1>1, FS_Interval
  <2> HIDE DEF rank
  <2>3. \A x, y \in S : rank[x] = rank[y] => x = y
    <3>1. \A x, y \in S : x < y \/ y < x \/ x = y
      BY <1>1
    <3>2. \A x, y \in S : rank[x] = rank[y] => ~(x < y) /\ ~(y < x)
      BY <1>1, <1>3, <2>1
    <3> QED
      BY <3>1, <3>2
  <2>4. rank \in Injection(S, 1 .. n)
    BY <2>1, <2>3 DEF Injection, IsInjective
  <2> QED
    BY <2>2, <2>4, FS_Injection
<1> HIDE DEF rank
<1>5. \A i \in 1 .. n : \E x \in S : rank[x] = i
  BY <1>4 DEF Surjection
<1> DEFINE s == [i \in 1 .. n |-> CHOOSE x \in S : rank[x] = i]
<1>6. s \in [1 .. n -> S] /\ \A i \in 1 .. n : s[i] \in S /\ rank[s[i]] = i
  BY <1>5
<1> HIDE DEF s
<1>7. ASSUME NEW i \in 1 .. n, NEW j \in 1 .. n, i < j
      PROVE  s[i] < s[j]
  <2>1. s[i] \in Nat /\ s[j] \in Nat /\ rank[s[i]] < rank[s[j]]
    BY <1>1, <1>6, <1>7
  <2>2. ~(s[j] < s[i]) /\ s[i] # s[j]
    BY <1>1, <1>3, <1>6, <1>7, <2>1
  <2> QED
    BY <2>1, <2>2
<1> QED
  BY <1>6, <1>7

\* So the messages of a set in order are those of the set.
LEMMA InOrderHasAll ==
    ASSUME NEW S \in SUBSET Id
    PROVE  InOrder(S) \in Seq(Id) /\ ToSet(InOrder(S)) = S
<1> DEFINE n == Cardinality(S)
           s == InOrder(S)
<1>1. S \subseteq Nat /\ IsFiniteSet(S) /\ n \in Nat
  <2>1. IsFiniteSet(Id) /\ Id \subseteq Nat
    BY BoundsAssumption, FS_Interval DEF Id
  <2>2. IsFiniteSet(S)
    BY <2>1, FS_Subset
  <2> QED
    BY <2>1, <2>2, FS_CardinalityType
<1>2. s \in [1 .. n -> S] /\ \A i, j \in 1 .. n : i < j => s[i] < s[j]
  BY OrderExists DEF InOrder
<1> HIDE DEF s
<1>3. \A i, j \in 1 .. n : s[i] = s[j] => i = j
  <2>1. \A i, j \in 1 .. n : i < j \/ j < i \/ i = j
    BY <1>1
  <2>2. \A i \in 1 .. n : s[i] \in Nat
    BY <1>1, <1>2
  <2>3. \A i, j \in 1 .. n : i < j => s[i] # s[j]
    BY <1>2, <2>2
  <2> QED
    BY <2>1, <2>3
<1>4. s \in Surjection(1 .. n, S)
  <2>1. s \in Injection(1 .. n, S)
    BY <1>2, <1>3 DEF Injection, IsInjective
  <2>2. Cardinality(1 .. n) = n
    BY <1>1, FS_Interval
  <2> QED
    BY <1>1, <2>1, <2>2, FS_Injection
<1>5. ToSet(s) = S
  BY <1>2, <1>4 DEF ToSet, Surjection
<1>6. s \in Seq(Id)
  <2>1. s \in [1 .. n -> Id]
    BY <1>2
  <2> QED
    BY <1>1, <2>1
<1> QED
  BY <1>5, <1>6 DEF s

\* What consecutive threads have together.
LEMMA ToSetAppended ==
    ASSUME NEW S, NEW s \in Seq(S), NEW t \in Seq(S)
    PROVE  ToSet(s \o t) = ToSet(s) \cup ToSet(t)
<1>1. /\ s \o t \in Seq(S) /\ Len(s \o t) = Len(s) + Len(t)
      /\ Len(s) \in Nat /\ Len(t) \in Nat
      /\ \A i \in 1 .. Len(s) : (s \o t)[i] = s[i]
      /\ \A i \in 1 .. Len(t) : (s \o t)[Len(s) + i] = t[i]
  OBVIOUS
<1>2. \A i \in 1 .. Len(s) + Len(t) : i \in 1 .. Len(s) \/ i - Len(s) \in 1 .. Len(t)
  BY <1>1
<1>3. \A i \in 1 .. Len(t) : Len(s) + i \in 1 .. Len(s) + Len(t)
  BY <1>1
<1>4. \A i \in 1 .. Len(s) + Len(t) : i = Len(s) + (i - Len(s))
  BY <1>1
<1>5. DOMAIN s = 1 .. Len(s) /\ DOMAIN t = 1 .. Len(t) /\ DOMAIN (s \o t) = 1 .. Len(s) + Len(t)
  BY <1>1
<1>6. ToSet(s \o t) \subseteq ToSet(s) \cup ToSet(t)
  BY <1>1, <1>2, <1>4, <1>5 DEF ToSet
<1>7. ToSet(s) \subseteq ToSet(s \o t)
  BY <1>1, <1>5 DEF ToSet
<1>8. ToSet(t) \subseteq ToSet(s \o t)
  BY <1>1, <1>3, <1>5 DEF ToSet
<1> QED
  BY <1>6, <1>7, <1>8

\* What a queue says when notices are appended.
LEMMA Appended ==
    ASSUME NEW s \in Seq(Notice), NEW t \in Seq(Notice)
    PROVE  /\ s \o t \in Seq(Notice)
           /\ \A id \in Id : Announced(s, id) \/ Announced(t, id) => Announced(s \o t, id)
           /\ NoWord(s) /\ NoWord(t) => NoWord(s \o t)
           /\ \A b \in BOOLEAN : /\ LastWord(t, b) => LastWord(s \o t, b)
                                 /\ LastWord(s, b) /\ NoWord(t) => LastWord(s \o t, b)
<1> DEFINE u == s \o t
<1>1. /\ u \in Seq(Notice) /\ Len(u) = Len(s) + Len(t)
      /\ Len(s) \in Nat /\ Len(t) \in Nat
      /\ \A i \in 1 .. Len(s) : u[i] = s[i] /\ i \in 1 .. Len(u)
      /\ \A i \in 1 .. Len(t) : u[Len(s) + i] = t[i] /\ Len(s) + i \in 1 .. Len(u)
  OBVIOUS
<1>2. \A i \in 1 .. Len(u) : \/ i \in 1 .. Len(s)
                             \/ \E j \in 1 .. Len(t) : i = Len(s) + j
  <2> SUFFICES ASSUME NEW i \in 1 .. Len(u), i \notin 1 .. Len(s)
               PROVE  \E j \in 1 .. Len(t) : i = Len(s) + j
    OBVIOUS
  <2>1. i - Len(s) \in 1 .. Len(t) /\ i = Len(s) + (i - Len(s))
    BY <1>1
  <2> QED
    BY <2>1
<1> HIDE DEF u
<1>3. ASSUME NEW id \in Id, Announced(s, id) \/ Announced(t, id)
      PROVE  Announced(u, id)
  BY <1>1, <1>3 DEF Announced
<1>4. ASSUME NoWord(s), NoWord(t)
      PROVE  NoWord(u)
  <2> SUFFICES ASSUME NEW i \in 1 .. Len(u) PROVE u[i].type = "chat"
    BY DEF NoWord
  <2>1. CASE i \in 1 .. Len(s)
    BY <1>1, <1>4, <2>1 DEF NoWord
  <2>2. CASE \E j \in 1 .. Len(t) : i = Len(s) + j
    BY <1>1, <1>4, <2>2 DEF NoWord
  <2> QED
    BY <1>2, <2>1, <2>2
<1>5. ASSUME NEW b \in BOOLEAN, LastWord(t, b)
      PROVE  LastWord(u, b)
  <2>1. PICK i \in 1 .. Len(t) : /\ t[i].type = "opponent_connected"
                                 /\ Says(t[i].payload, b)
                                 /\ \A j \in 1 .. Len(t) : j > i => t[j].type = "chat"
    BY <1>5 DEF LastWord
  <2>2. ASSUME NEW k \in 1 .. Len(u), k > Len(s) + i
        PROVE  u[k].type = "chat"
    <3>0. k \notin 1 .. Len(s)
      BY <1>1, <2>2
    <3>1. PICK j \in 1 .. Len(t) : k = Len(s) + j
      BY <1>2, <3>0
    <3>2. j > i
      BY <1>1, <2>2, <3>1
    <3> QED
      BY <1>1, <2>1, <3>1, <3>2
  <2> QED
    BY <1>1, <2>1, <2>2 DEF LastWord
<1>6. ASSUME NEW b \in BOOLEAN, LastWord(s, b), NoWord(t)
      PROVE  LastWord(u, b)
  <2>1. PICK i \in 1 .. Len(s) : /\ s[i].type = "opponent_connected"
                                 /\ Says(s[i].payload, b)
                                 /\ \A j \in 1 .. Len(s) : j > i => s[j].type = "chat"
    BY <1>6 DEF LastWord
  <2>2. ASSUME NEW k \in 1 .. Len(u), k > i
        PROVE  u[k].type = "chat"
    <3>1. CASE k \in 1 .. Len(s)
      BY <1>1, <2>1, <2>2, <3>1
    <3>2. CASE \E j \in 1 .. Len(t) : k = Len(s) + j
      BY <1>1, <1>6, <3>2 DEF NoWord
    <3> QED
      BY <1>2, <3>1, <3>2
  <2> QED
    BY <1>1, <2>1, <2>2 DEF LastWord
<1> QED
  BY <1>1, <1>3, <1>4, <1>5, <1>6 DEF u

\* What it says when the first notice is taken off.
LEMMA Taken ==
    ASSUME NEW s \in Seq(Notice), s # <<>>
    PROVE  /\ Head(s) \in Notice /\ Tail(s) \in Seq(Notice)
           /\ \A id \in Id : Announced(s, id) =>
                \/ Announced(Tail(s), id)
                \/ Head(s).type = "chat" /\ Head(s).payload \in {id, All}
           /\ NoWord(s) => Head(s).type = "chat" /\ NoWord(Tail(s))
           /\ \A b \in BOOLEAN : LastWord(s, b) =>
                \/ LastWord(Tail(s), b)
                \/ /\ Head(s).type = "opponent_connected" /\ Says(Head(s).payload, b)
                   /\ NoWord(Tail(s))
<1> DEFINE t == Tail(s)
<1>1. /\ Head(s) = s[1] /\ Head(s) \in Notice /\ t \in Seq(Notice)
      /\ Len(s) \in Nat \ {0} /\ Len(t) = Len(s) - 1 /\ 1 \in 1 .. Len(s)
      /\ \A i \in 1 .. Len(t) : t[i] = s[i + 1] /\ i + 1 \in 1 .. Len(s) /\ i + 1 > 1
  OBVIOUS
<1>2. \A i \in 1 .. Len(s) : i = 1 \/ \E j \in 1 .. Len(t) : i = j + 1
  <2> SUFFICES ASSUME NEW i \in 1 .. Len(s), i # 1
               PROVE  \E j \in 1 .. Len(t) : i = j + 1
    OBVIOUS
  <2>1. i - 1 \in 1 .. Len(t) /\ i = (i - 1) + 1
    BY <1>1
  <2> QED
    BY <2>1
<1> HIDE DEF t
<1>3. ASSUME NEW id \in Id, Announced(s, id)
      PROVE  Announced(t, id) \/ (Head(s).type = "chat" /\ Head(s).payload \in {id, All})
  BY <1>1, <1>2, <1>3 DEF Announced
<1>4. ASSUME NoWord(s)
      PROVE  Head(s).type = "chat" /\ NoWord(t)
  BY <1>1, <1>4 DEF NoWord
<1>5. ASSUME NEW b \in BOOLEAN, LastWord(s, b)
      PROVE  \/ LastWord(t, b)
             \/ /\ Head(s).type = "opponent_connected" /\ Says(Head(s).payload, b)
                /\ NoWord(t)
  <2>1. PICK i \in 1 .. Len(s) : /\ s[i].type = "opponent_connected"
                                 /\ Says(s[i].payload, b)
                                 /\ \A j \in 1 .. Len(s) : j > i => s[j].type = "chat"
    BY <1>5 DEF LastWord
  <2>2. CASE i = 1
    BY <1>1, <2>1, <2>2 DEF NoWord
  <2>3. CASE i # 1
    <3>1. PICK j \in 1 .. Len(t) : i = j + 1
      BY <1>2, <2>3
    <3>2. \A k \in 1 .. Len(t) : k > j => k + 1 > i
      BY <1>1, <3>1
    <3>3. t[j] = s[i] /\ \A k \in 1 .. Len(t) : k > j => t[k].type = "chat"
      BY <1>1, <2>1, <3>1, <3>2
    <3> QED
      BY <2>1, <3>3 DEF LastWord
  <2> QED
    BY <2>2, <2>3
<1> QED
  BY <1>1, <1>3, <1>4, <1>5 DEF t

\* What the callbacks put on the queue.
LEMMA HeardSays ==
    ASSUME TypeOK, NEW notice \in Notice
    PROVE  /\ Heard(notice) \in Seq(Notice)
           /\ notice.type = "chat" => NoWord(Heard(notice))
           /\ connection # "lost" /\ consumer = "running" /\ listeners # 0 =>
                /\ \A id \in Id : notice.type = "chat" /\ notice.payload \in {id, All}
                        => Announced(Heard(notice), id)
                /\ \A b \in BOOLEAN :
                        notice.type = "opponent_connected" /\ Says(notice.payload, b)
                            => LastWord(Heard(notice), b)
<1> DEFINE h == Heard(notice)
<1>1. listeners \in Nat
  BY DEF TypeOK
<1>2. h \in Seq(Notice) /\ \A i \in 1 .. Len(h) : h[i] = notice
  BY <1>1 DEF Heard
<1>3. connection # "lost" /\ consumer = "running" => Len(h) = listeners
  BY <1>1 DEF Heard
<1> HIDE DEF h
<1>4. notice.type = "chat" => NoWord(h)
  BY <1>2 DEF NoWord
<1>5. ASSUME connection # "lost", consumer = "running", listeners # 0
      PROVE  /\ \A id \in Id : notice.type = "chat" /\ notice.payload \in {id, All}
                    => Announced(h, id)
             /\ \A b \in BOOLEAN :
                    notice.type = "opponent_connected" /\ Says(notice.payload, b)
                        => LastWord(h, b)
  <2>1. Len(h) \in Nat /\ Len(h) \in 1 .. Len(h) /\ \A j \in 1 .. Len(h) : ~(j > Len(h))
    BY <1>1, <1>3, <1>5
  <2>2. h[Len(h)] = notice
    BY <1>2, <2>1
  <2> QED
    BY <2>1, <2>2 DEF Announced, LastWord
<1> QED
  BY <1>2, <1>4, <1>5 DEF h

-----------------------------------------------------------------------------
(***************************************************************************)
(* Types.                                                                  *)
(***************************************************************************)
\* The notices that the database and the triggers send.
LEMMA NoticeTypes ==
    /\ \A id \in Id \cup {All} : Chat(id) \in Notice
    /\ \A payload \in {"true", "false", ""} : Connected(payload) \in Notice
BY DEF Notice, Chat, Connected

\* The game starts without messages, notices or faults.
LEMMA InitTypes == Init => TypeOK
<1> SUFFICES ASSUME Init PROVE TypeOK
  OBVIOUS
<1>1. 0 \in 0 .. MaxMessages /\ 0 \in 0 .. MaxFaults
  BY BoundsAssumption
<1>2. <<>> \in Seq(Notice) /\ <<>> \in Seq(Id)
  OBVIOUS
<1> QED
  BY <1>1, <1>2 DEF Init, TypeOK

\* What Notify and the triggers put on the queue are notices.
LEMMA QueueTypes ==
    ASSUME TypeOK
    PROVE  /\ \A notice \in Notice : Notify(notice) =>
                    notices' = notices \o Heard(notice) /\ notices' \in Seq(Notice)
           /\ Triggered \in Seq(Notice)
<1>1. notices \in Seq(Notice)
  BY DEF TypeOK
<1>2. \A notice \in Notice : Heard(notice) \in Seq(Notice)
  BY HeardSays
<1> QED
  BY <1>1, <1>2, NoticeTypes, Appended DEF Notify, Triggered

\* The rows that are read are the ids that were asked for.
LEMMA RowsRead ==
    ASSUME TypeOK, NEW id \in Id \cup {All}
    PROVE  /\ Rows(id) \in Seq(Id)
           /\ ToSet(Rows(id)) = IF id = All THEN chat ELSE chat \cap {id}
<1>1. (IF id = All THEN chat ELSE chat \cap {id}) \in SUBSET Id
  BY DEF TypeOK
<1> QED
  BY <1>1, InOrderHasAll DEF Rows

\* What the consumer reads.
LEMMA FetchReads ==
    ASSUME TypeOK, Fetch
    PROVE  /\ notices # <<>> /\ Head(notices) \in Notice /\ notices' = Tail(notices)
           /\ notices' \in Seq(Notice)
           /\ Head(notices).type = "chat" =>
                /\ Head(notices).payload \in Id \cup {All}
                /\ reading' = [type |-> "chat", value |-> Rows(Head(notices).payload)]
           /\ Head(notices).type = "opponent_connected" =>
                /\ reading' = [type |-> "opponent_connected",
                               value |-> IsConnected(Head(notices).payload)]
                /\ IsConnected(Head(notices).payload) \in BOOLEAN
<1>1. notices \in Seq(Notice) /\ notices # <<>> /\ opponent \in BOOLEAN
  BY DEF TypeOK, Fetch
<1>2. Head(notices) \in Notice /\ Tail(notices) \in Seq(Notice)
  BY <1>1, Taken
<1>3. \A payload : IsConnected(payload) \in BOOLEAN
  BY <1>1 DEF IsConnected
<1> QED
  BY <1>1, <1>2, <1>3 DEF Fetch, Notice

\* Every action keeps the types.
LEMMA NextTypes == TypeOK /\ [Next]_vars => TypeOK'
<1> SUFFICES ASSUME TypeOK, [Next]_vars PROVE TypeOK'
  OBVIOUS
<1> USE DEF database, server, consuming, client_data
<1>0. \A kind : Fault(kind) => faults' \in 0 .. MaxFaults
  BY BoundsAssumption DEF TypeOK, Fault
<1>1. CASE OpponentJoins
  <2>1. notices' \in Seq(Notice)
    BY <1>1, QueueTypes, NoticeTypes DEF OpponentJoins
  <2> QED
    BY <1>1, <2>1 DEF OpponentJoins, TypeOK
<1>2. CASE OpponentLeaves
  <2>1. notices' \in Seq(Notice)
    BY <1>2, QueueTypes, NoticeTypes DEF OpponentLeaves, AnnounceLeaving
  <2> QED
    BY <1>2, <2>1 DEF OpponentLeaves, TypeOK
<1>3. CASE OpponentCleanup
  BY <1>0, <1>3 DEF OpponentCleanup, TypeOK, Author
<1>4. CASE Subscribe
  BY <1>4 DEF Subscribe, TypeOK
<1>5. CASE CommitJoin
  BY <1>5 DEF CommitJoin, TypeOK
<1>6. CASE FailJoin
  BY <1>0, <1>6 DEF FailJoin, TypeOK
<1>7. CASE Register
  BY <1>7 DEF Register, TypeOK
<1>8. CASE TriggerUpdateAll
  <2>1. notices' \in Seq(Notice)
    BY <1>8, QueueTypes DEF TriggerUpdateAll
  <2> QED
    BY <1>8, <2>1 DEF TriggerUpdateAll, TypeOK
<1>9. CASE FailTrigger
  BY <1>0, <1>9 DEF FailTrigger, TypeOK
<1>10. CASE Unsubscribe
  BY <1>10 DEF Unsubscribe, TypeOK
<1>11. CASE RemoveKey
  BY <1>11 DEF RemoveKey, ForgetClient, TypeOK
<1>12. CASE Restart
  BY <1>0, <1>12 DEF Restart, ForgetClient, TypeOK, Author
<1>13. ASSUME NEW a \in Author, InsertChat(a) PROVE TypeOK'
  <2>1. last_id + 1 \in Id /\ last_id + 1 \in 0 .. MaxMessages
    BY <1>13, BoundsAssumption DEF InsertChat, TypeOK, Id
  <2> QED
    BY <1>13, <2>1 DEF InsertChat, TypeOK
<1>14. ASSUME NEW a \in Author, CommitChat(a) PROVE TypeOK'
  <2>1. inserted[a] \in Id /\ inserted' \in [Author -> Id \cup {0}]
    BY <1>14 DEF CommitChat, TypeOK
  <2>2. notices' \in Seq(Notice)
    BY <1>14, <2>1, QueueTypes, NoticeTypes DEF CommitChat
  <2> QED
    BY <1>14, <2>1, <2>2 DEF CommitChat, TypeOK
<1>15. ASSUME NEW a \in Author, FailChat(a) PROVE TypeOK'
  <2>1. inserted' \in [Author -> Id \cup {0}]
    BY <1>15 DEF FailChat, TypeOK
  <2> QED
    BY <1>0, <1>15, <2>1 DEF FailChat, TypeOK
<1>16. CASE Fetch
  <2>1. Head(notices).type \in {"chat", "opponent_connected"}
    BY <1>16, FetchReads DEF Notice
  <2>2. reading' \in [type : {"chat"}, value : Seq(Id)]
                        \cup [type : {"opponent_connected"}, value : BOOLEAN]
    BY <1>16, <2>1, FetchReads, RowsRead
  <2>3. notices' \in Seq(Notice)
    BY <1>16, FetchReads
  <2> QED
    BY <1>16, <2>2, <2>3 DEF Fetch, TypeOK
<1>17. CASE FailFetch
  <2>1. notices' \in Seq(Notice)
    BY <1>17, Taken DEF FailFetch, TypeOK
  <2> QED
    BY <1>0, <1>17, <2>1 DEF FailFetch, TypeOK
<1>18. CASE FailOtherFetch
  BY <1>0, <1>18 DEF FailOtherFetch, TypeOK
<1>19. CASE Deliver
  <2>1. chat_thread' \in Seq(Id)
    BY <1>19 DEF Deliver, TypeOK, NothingRead
  <2>2. opponent_connected' \in BOOLEAN \cup {None}
    BY <1>19 DEF Deliver, TypeOK, NothingRead
  <2> QED
    BY <1>19, <2>1, <2>2 DEF Deliver, TypeOK
<1>20. CASE LoseListener
  BY <1>0, <1>20 DEF LoseListener, TypeOK
<1>21. CASE Resubscribe
  BY <1>21 DEF Resubscribe, TypeOK
<1>22. CASE Retrigger
  <2>1. notices' \in Seq(Notice)
    BY <1>22, QueueTypes DEF Retrigger, TriggeredAgain
  <2> QED
    BY <1>22, <2>1 DEF Retrigger, TypeOK
<1>23. CASE FailRetrigger
  BY <1>23 DEF FailRetrigger, TypeOK
<1>24. CASE UNCHANGED vars
  BY <1>24 DEF vars, TypeOK
<1> QED
  BY <1>1, <1>2, <1>3, <1>4, <1>5, <1>6, <1>7, <1>8, <1>9, <1>10, <1>11, <1>12, <1>13,
     <1>14, <1>15, <1>16, <1>19, <1>20, <1>21, <1>22, <1>23, <1>24, <1>17, <1>18 DEF Next

-----------------------------------------------------------------------------
(***************************************************************************)
(* The player is told.                                                     *)
(***************************************************************************)
\* While the player joins, is in or leaves, its key has a listener.
LEMMA NextListening == TypeOK /\ Listening /\ [Next]_vars => Listening'
<1> SUFFICES ASSUME TypeOK, Listening, [Next]_vars PROVE Listening'
  OBVIOUS
<1>1. ASSUME UNCHANGED <<player, listeners>> PROVE Listening'
  BY <1>1 DEF Listening
<1>2. ASSUME player' = "out" PROVE Listening'
  BY <1>2 DEF Listening
<1>3. ASSUME player # "out", UNCHANGED listeners PROVE Listening'
  BY <1>3 DEF Listening
<1>4. CASE \/ OpponentJoins \/ OpponentLeaves \/ OpponentCleanup
           \/ Fetch \/ FailFetch \/ FailOtherFetch \/ Deliver
  BY <1>1, <1>4 DEF OpponentJoins, OpponentLeaves, OpponentCleanup, Fetch, FailFetch,
                    FailOtherFetch, Deliver, server
<1>5. ASSUME NEW a \in Author, InsertChat(a) \/ CommitChat(a) \/ FailChat(a)
      PROVE  Listening'
  BY <1>1, <1>5 DEF InsertChat, CommitChat, FailChat, server
<1>6. CASE LoseListener \/ Resubscribe \/ Retrigger
  BY <1>1, <1>6 DEF LoseListener, Resubscribe, Retrigger
<1>7. CASE FailJoin \/ RemoveKey \/ Restart
  BY <1>2, <1>7 DEF FailJoin, RemoveKey, Restart
<1>8. CASE Subscribe
  BY <1>8 DEF Subscribe, Listening, TypeOK
<1>9. CASE \/ CommitJoin \/ Register \/ TriggerUpdateAll \/ FailTrigger \/ Unsubscribe
  BY <1>3, <1>9 DEF CommitJoin, Register, TriggerUpdateAll, FailTrigger, Unsubscribe
<1>10. CASE FailRetrigger
  BY <1>10 DEF FailRetrigger, Listening
<1>11. CASE UNCHANGED vars
  BY <1>1, <1>11 DEF vars, server
<1> QED
  BY <1>4, <1>5, <1>6, <1>7, <1>8, <1>9, <1>10, <1>11 DEF Next

\* A notification that arrives keeps what is on its way, and brings what it
\* says.
LEMMA NotifyBrings ==
    ASSUME TypeOK, Listening, NEW notice \in Notice, Notify(notice)
    PROVE  /\ \A id \in Id : Announced(notices, id) => Announced(notices', id)
           /\ notice.type = "chat" =>
                /\ NoWord(notices) => NoWord(notices')
                /\ \A b \in BOOLEAN : LastWord(notices, b) => LastWord(notices', b)
           /\ InTouch =>
                /\ \A id \in Id : notice.type = "chat" /\ notice.payload \in {id, All}
                        => Announced(notices', id)
                /\ \A b \in BOOLEAN :
                        notice.type = "opponent_connected" /\ Says(notice.payload, b)
                            => LastWord(notices', b)
<1>1. notices \in Seq(Notice) /\ notices' = notices \o Heard(notice)
  BY DEF TypeOK, Notify
<1>2. /\ Heard(notice) \in Seq(Notice)
      /\ notice.type = "chat" => NoWord(Heard(notice))
      /\ connection # "lost" /\ consumer = "running" /\ listeners # 0 =>
            /\ \A id \in Id : notice.type = "chat" /\ notice.payload \in {id, All}
                    => Announced(Heard(notice), id)
            /\ \A b \in BOOLEAN :
                    notice.type = "opponent_connected" /\ Says(notice.payload, b)
                        => LastWord(Heard(notice), b)
  BY HeardSays
<1>3. InTouch => connection # "lost" /\ consumer = "running" /\ listeners # 0
  BY DEF InTouch, Listening
<1>4. /\ \A id \in Id : Announced(notices, id) \/ Announced(Heard(notice), id)
            => Announced(notices', id)
      /\ NoWord(notices) /\ NoWord(Heard(notice)) => NoWord(notices')
      /\ \A b \in BOOLEAN :
            /\ LastWord(Heard(notice), b) => LastWord(notices', b)
            /\ LastWord(notices, b) /\ NoWord(Heard(notice)) => LastWord(notices', b)
  BY <1>1, <1>2, Appended
<1> QED
  BY <1>2, <1>3, <1>4

\* So do the triggers, which ask for everything.
LEMMA TriggeredBrings ==
    ASSUME TypeOK, connection # "lost", consumer = "running", listeners # 0
    PROVE  /\ \A id \in Id : Announced(Triggered, id)
           /\ \A b \in BOOLEAN : LastWord(Triggered, b)
<1> DEFINE thread == Heard(Chat(All))
           word == Heard(Connected(""))
<1>1. thread \in Seq(Notice) /\ word \in Seq(Notice) /\ notices \in Seq(Notice)
  BY NoticeTypes, HeardSays DEF TypeOK
<1>2. \A id \in Id : Announced(thread, id)
  <2>1. Chat(All) \in Notice /\ Chat(All).type = "chat" /\ Chat(All).payload = All
    BY NoticeTypes DEF Chat
  <2> QED
    BY <2>1, HeardSays
<1>3. \A b \in BOOLEAN : LastWord(word, b)
  <2>1. /\ Connected("") \in Notice /\ Connected("").type = "opponent_connected"
        /\ \A b \in BOOLEAN : Says(Connected("").payload, b)
    BY NoticeTypes DEF Connected, Says
  <2> QED
    BY <2>1, HeardSays
<1>4. Triggered = (notices \o thread) \o word
  BY DEF Triggered
<1> DEFINE asked == notices \o thread
<1> HIDE DEF thread, word
<1>5. asked \in Seq(Notice) /\ \A id \in Id : Announced(asked, id)
  BY <1>1, <1>2, Appended
<1> HIDE DEF asked
<1>6. /\ \A id \in Id : Announced(asked \o word, id)
      /\ \A b \in BOOLEAN : LastWord(asked \o word, b)
  BY <1>1, <1>3, <1>5, Appended
<1> QED
  BY <1>4, <1>6 DEF asked

-----------------------------------------------------------------------------
(***************************************************************************)
(* The messages.                                                           *)
(***************************************************************************)
\* What the consumer takes off the queue it reads, and hands over.
LEMMA FetchComing ==
    ASSUME TypeOK, Fetch, NEW id \in chat, Coming(id)
    PROVE  Coming(id)'
<1>1. id \in Id /\ reading = NothingRead /\ UNCHANGED chat_thread /\ notices \in Seq(Notice)
  BY DEF TypeOK, Fetch, client_data
<1>2. CASE id \in ToSet(chat_thread)
  BY <1>1, <1>2 DEF Coming
<1>3. CASE Announced(notices, id)
  <2>1. Announced(notices', id)
        \/ (Head(notices).type = "chat" /\ Head(notices).payload \in {id, All})
    BY <1>1, <1>3, Taken, FetchReads
  <2>2. CASE Head(notices).type = "chat" /\ Head(notices).payload \in {id, All}
    <3>1. id \in ToSet(Rows(Head(notices).payload))
      BY <2>2, FetchReads, RowsRead
    <3> QED
      BY <2>2, <3>1, FetchReads DEF Coming
  <2> QED
    BY <2>1, <2>2 DEF Coming
<1>4. reading.type # "chat"
  BY <1>1 DEF NothingRead
<1> QED
  BY <1>2, <1>3, <1>4 DEF Coming

\* The consumer puts what it has read into the thread.
LEMMA DeliverComing ==
    ASSUME TypeOK, Deliver, player = "in", NEW id \in chat, Coming(id)
    PROVE  Coming(id)'
<1>1. UNCHANGED notices /\ Registered
  BY DEF Deliver, Registered
<1>2. CASE reading.type = "chat"
  <2>1. chat_thread \in Seq(Id) /\ reading.value \in Seq(Id)
    BY <1>2 DEF TypeOK, NothingRead
  <2>2. ToSet(chat_thread') = ToSet(chat_thread) \cup ToSet(reading.value)
    BY <1>1, <1>2, <2>1, ToSetAppended DEF Deliver
  <2> QED
    BY <1>1, <2>2 DEF Coming
<1>3. CASE reading.type # "chat"
  BY <1>1, <1>3 DEF Deliver, Coming
<1> QED
  BY <1>2, <1>3

\* Every action keeps it.
LEMMA NextChat == TypeOK /\ Listening /\ ChatComing /\ [Next]_vars => ChatComing'
<1> SUFFICES ASSUME TypeOK, Listening, ChatComing, [Next]_vars PROVE ChatComing'
  OBVIOUS
<1> USE DEF database, server, consuming, client_data
<1>0. chat \subseteq Id
  BY DEF TypeOK
<1>1. ASSUME player' # "in" \/ connection' # "up" \/ consumer' # "running" PROVE ChatComing'
  BY <1>1 DEF ChatComing, InTouch
<1>2. ASSUME UNCHANGED <<player, connection, consumer, chat, chat_thread, reading>>,
             \A id \in Id : Announced(notices, id) => Announced(notices', id)
      PROVE  ChatComing'
  BY <1>0, <1>2 DEF ChatComing, InTouch, Coming
<1>3. CASE OpponentJoins
  BY <1>2, <1>3, NotifyBrings, NoticeTypes DEF OpponentJoins
<1>4. CASE OpponentLeaves
  BY <1>2, <1>4, NotifyBrings, NoticeTypes DEF OpponentLeaves, AnnounceLeaving
<1>5. CASE OpponentCleanup
  BY <1>2, <1>5 DEF OpponentCleanup
<1>6. CASE \/ Subscribe \/ CommitJoin \/ FailJoin \/ Register \/ FailTrigger \/ Unsubscribe
           \/ RemoveKey \/ Restart \/ LoseListener \/ FailRetrigger \/ FailFetch
           \/ FailOtherFetch
  BY <1>1, <1>6 DEF Subscribe, CommitJoin, FailJoin, Register, FailTrigger, Unsubscribe,
                    RemoveKey, Restart, LoseListener, FailRetrigger, FailFetch,
                    FailOtherFetch
<1>7. CASE TriggerUpdateAll
  <2> SUFFICES ASSUME connection' = "up", consumer' = "running" PROVE ChatComing'
    BY <1>1
  <2>1. /\ connection # "lost" /\ consumer = "running" /\ listeners # 0
        /\ chat' = chat /\ notices' = Triggered
    BY <1>7 DEF TriggerUpdateAll, Listening
  <2> QED
    BY <1>0, <2>1, TriggeredBrings DEF ChatComing, Coming
<1>8. CASE Retrigger
  <2> SUFFICES ASSUME player' = "in", consumer' = "running" PROVE ChatComing'
    BY <1>1
  <2>1. /\ connection # "lost" /\ consumer = "running" /\ listeners # 0
        /\ chat' = chat /\ notices' = Triggered
    BY <1>8 DEF Retrigger, TriggeredAgain, Listening
  <2> QED
    BY <1>0, <2>1, TriggeredBrings DEF ChatComing, Coming
<1>9. CASE Resubscribe
  BY <1>1, <1>9 DEF Resubscribe, Listening
<1>10. ASSUME NEW a \in Author, InsertChat(a) \/ FailChat(a) PROVE ChatComing'
  BY <1>2, <1>10 DEF InsertChat, FailChat
<1>11. ASSUME NEW a \in Author, CommitChat(a) PROVE ChatComing'
  <2>1. inserted[a] \in Id
    BY <1>11 DEF CommitChat, TypeOK
  <2>2. Chat(inserted[a]) \in Notice /\ Chat(inserted[a]).type = "chat"
        /\ Chat(inserted[a]).payload = inserted[a]
    BY <2>1, NoticeTypes DEF Chat
  <2>3. /\ \A id \in Id : Announced(notices, id) => Announced(notices', id)
        /\ InTouch => Announced(notices', inserted[a])
    BY <1>11, <2>1, <2>2, NotifyBrings DEF CommitChat
  <2>4. UNCHANGED <<player, connection, consumer, chat_thread, reading>>
        /\ chat' = chat \cup {inserted[a]}
    BY <1>11 DEF CommitChat
  <2> QED
    BY <1>0, <2>3, <2>4 DEF ChatComing, InTouch, Coming
<1>12. CASE Fetch
  <2>1. UNCHANGED <<player, connection, consumer, chat>>
    BY <1>12 DEF Fetch
  <2> QED
    BY <1>12, <2>1, FetchComing DEF ChatComing, InTouch
<1>13. CASE Deliver
  <2>1. UNCHANGED <<player, connection, consumer, chat>>
    BY <1>13 DEF Deliver
  <2> QED
    BY <1>13, <2>1, DeliverComing DEF ChatComing, InTouch
<1>14. CASE UNCHANGED vars
  BY <1>2, <1>14 DEF vars
<1> QED
  BY <1>3, <1>4, <1>5, <1>6, <1>7, <1>8, <1>9, <1>10, <1>11, <1>12, <1>13, <1>14 DEF Next

-----------------------------------------------------------------------------
(***************************************************************************)
(* Whether the opponent is connected.                                      *)
(***************************************************************************)
\* An empty payload reads what is so now, the others what was so last.
LEMMA FetchWord ==
    ASSUME TypeOK, Fetch, FlagComing
    PROVE  FlagComing'
<1>1. /\ reading = NothingRead /\ UNCHANGED <<opponent, opponent_connected>>
      /\ notices \in Seq(Notice) /\ opponent \in BOOLEAN /\ notices # <<>>
  BY DEF TypeOK, Fetch, client_data
<1>2. reading.type # "opponent_connected"
  BY <1>1 DEF NothingRead
<1>3. CASE NoWord(notices) /\ opponent_connected = opponent
  <2>1. Head(notices).type = "chat" /\ NoWord(notices')
    BY <1>1, <1>3, Taken, FetchReads
  <2>2. reading'.type = "chat"
    BY <2>1, FetchReads
  <2> QED
    BY <1>1, <1>3, <2>1, <2>2 DEF FlagComing
<1>4. CASE LastWord(notices, opponent)
  <2>1. \/ LastWord(notices', opponent)
        \/ /\ Head(notices).type = "opponent_connected"
           /\ Says(Head(notices).payload, opponent)
           /\ NoWord(notices')
    BY <1>1, <1>4, Taken, FetchReads
  <2>2. CASE LastWord(notices', opponent)
    BY <1>1, <2>2 DEF FlagComing
  <2>3. CASE /\ Head(notices).type = "opponent_connected"
             /\ Says(Head(notices).payload, opponent)
             /\ NoWord(notices')
    <3>1. IsConnected(Head(notices).payload) = opponent
      BY <2>3 DEF IsConnected, Says
    <3>2. reading' = [type |-> "opponent_connected", value |-> opponent]
      BY <2>3, <3>1, FetchReads
    <3> QED
      BY <1>1, <2>3, <3>2 DEF FlagComing
  <2> QED
    BY <2>1, <2>2, <2>3
<1> QED
  BY <1>2, <1>3, <1>4 DEF FlagComing

\* And the flag it has read into client_data.
LEMMA DeliverWord ==
    ASSUME TypeOK, Deliver, player = "in", FlagComing
    PROVE  FlagComing'
<1>1. UNCHANGED <<notices, opponent>> /\ Registered /\ reading' = NothingRead
  BY DEF Deliver, Registered
<1>2. reading'.type # "opponent_connected"
  BY <1>1 DEF NothingRead
<1>3. opponent_connected' = IF reading.type = "opponent_connected"
                            THEN reading.value ELSE opponent_connected
  BY <1>1 DEF Deliver
<1> QED
  BY <1>1, <1>2, <1>3 DEF FlagComing

\* Every action keeps it.
LEMMA NextWord == TypeOK /\ Listening /\ WordComing /\ [Next]_vars => WordComing'
<1> SUFFICES ASSUME TypeOK, Listening, WordComing, [Next]_vars PROVE WordComing'
  OBVIOUS
<1> USE DEF database, server, consuming, client_data
<1>0. opponent \in BOOLEAN
  BY DEF TypeOK
<1>1. ASSUME player' # "in" \/ connection' # "up" \/ consumer' # "running" PROVE WordComing'
  BY <1>1 DEF WordComing, InTouch
<1>2. ASSUME UNCHANGED <<player, connection, consumer, opponent, unannounced,
                         opponent_connected, reading>>,
             NoWord(notices) => NoWord(notices'),
             LastWord(notices, opponent) => LastWord(notices', opponent)
      PROVE  WordComing'
  BY <1>2 DEF WordComing, InTouch, FlagComing
<1>3. CASE OpponentJoins
  <2>1. /\ opponent' = TRUE /\ UNCHANGED <<player, connection, consumer>>
        /\ Notify(Connected("true"))
    BY <1>3 DEF OpponentJoins
  <2>2. Connected("true") \in Notice /\ Connected("true").type = "opponent_connected"
        /\ Says(Connected("true").payload, TRUE)
    BY NoticeTypes DEF Connected, Says
  <2>3. InTouch => LastWord(notices', TRUE)
    BY <2>1, <2>2, NotifyBrings
  <2> QED
    BY <2>1, <2>3 DEF WordComing, InTouch, FlagComing
<1>4. CASE OpponentLeaves
  <2>1. /\ opponent' = FALSE /\ UNCHANGED <<player, connection, consumer>>
        /\ Notify(Connected("false"))
    BY <1>4 DEF OpponentLeaves, AnnounceLeaving
  <2>2. Connected("false") \in Notice /\ Connected("false").type = "opponent_connected"
        /\ Says(Connected("false").payload, FALSE)
    BY NoticeTypes DEF Connected, Says
  <2>3. InTouch => LastWord(notices', FALSE)
    BY <2>1, <2>2, NotifyBrings
  <2> QED
    BY <2>1, <2>3 DEF WordComing, InTouch, FlagComing
<1>5. CASE OpponentCleanup
  BY <1>5 DEF OpponentCleanup, WordComing
<1>6. CASE \/ Subscribe \/ CommitJoin \/ FailJoin \/ Register \/ FailTrigger \/ Unsubscribe
           \/ RemoveKey \/ Restart \/ LoseListener \/ FailRetrigger \/ FailFetch
           \/ FailOtherFetch
  BY <1>1, <1>6 DEF Subscribe, CommitJoin, FailJoin, Register, FailTrigger, Unsubscribe,
                    RemoveKey, Restart, LoseListener, FailRetrigger, FailFetch,
                    FailOtherFetch
<1>7. CASE TriggerUpdateAll
  <2> SUFFICES ASSUME connection' = "up", consumer' = "running" PROVE WordComing'
    BY <1>1
  <2>1. /\ connection # "lost" /\ consumer = "running" /\ listeners # 0
        /\ opponent' = opponent /\ notices' = Triggered
    BY <1>7 DEF TriggerUpdateAll, Listening
  <2> QED
    BY <1>0, <2>1, TriggeredBrings DEF WordComing, FlagComing
<1>8. CASE Retrigger
  <2> SUFFICES ASSUME player' = "in", consumer' = "running" PROVE WordComing'
    BY <1>1
  <2>1. /\ connection # "lost" /\ consumer = "running" /\ listeners # 0
        /\ opponent' = opponent /\ notices' = Triggered
    BY <1>8 DEF Retrigger, TriggeredAgain, Listening
  <2> QED
    BY <1>0, <2>1, TriggeredBrings DEF WordComing, FlagComing
<1>9. CASE Resubscribe
  BY <1>1, <1>9 DEF Resubscribe, Listening
<1>10. ASSUME NEW a \in Author, InsertChat(a) \/ FailChat(a) PROVE WordComing'
  BY <1>2, <1>10 DEF InsertChat, FailChat
<1>11. ASSUME NEW a \in Author, CommitChat(a) PROVE WordComing'
  <2>1. inserted[a] \in Id
    BY <1>11 DEF CommitChat, TypeOK
  <2>2. Chat(inserted[a]) \in Notice /\ Chat(inserted[a]).type = "chat"
    BY <2>1, NoticeTypes DEF Chat
  <2>3. /\ NoWord(notices) => NoWord(notices')
        /\ LastWord(notices, opponent) => LastWord(notices', opponent)
    BY <1>0, <1>11, <2>2, NotifyBrings DEF CommitChat
  <2> QED
    BY <1>2, <1>11, <2>3 DEF CommitChat
<1>12. CASE Fetch
  <2>1. UNCHANGED <<player, connection, consumer, unannounced>>
    BY <1>12 DEF Fetch
  <2> QED
    BY <1>12, <2>1, FetchWord DEF WordComing, InTouch
<1>13. CASE Deliver
  <2>1. UNCHANGED <<player, connection, consumer, unannounced>>
    BY <1>13 DEF Deliver
  <2> QED
    BY <1>13, <2>1, DeliverWord DEF WordComing, InTouch
<1>14. CASE UNCHANGED vars
  BY <1>2, <1>14 DEF vars
<1> QED
  BY <1>3, <1>4, <1>5, <1>6, <1>7, <1>8, <1>9, <1>10, <1>11, <1>12, <1>13, <1>14 DEF Next

-----------------------------------------------------------------------------

\* The inductive invariant holds whatever the opponent, the network and the
\* servers do.
LEMMA Inductive == Spec => []IInv
<1>1. Init => IInv
  BY InitTypes DEF Init, IInv, Listening, ChatComing, WordComing, InTouch
<1>2. IInv /\ [Next]_vars => IInv'
  BY NextTypes, NextListening, NextChat, NextWord DEF IInv
<1> QED
  BY <1>1, <1>2, PTL DEF Spec

\* The queue, what the consumer has read and client_data keep their types.
THEOREM TypeCorrect == Spec => []TypeOK
BY Inductive, PTL DEF IInv

\* Nothing is announced on an empty queue.
LEMMA QuietQueue ==
    ASSUME Quiet
    PROVE  /\ InTouch /\ reading.type = "none"
           /\ \A id : ~Announced(notices, id)
           /\ \A b : ~LastWord(notices, b)
<1>1. 1 .. Len(notices) = {}
  BY DEF Quiet
<1> QED
  BY <1>1 DEF Quiet, InTouch, NothingRead, Announced, LastWord

\* When the queue is empty the player has every committed message, also those
\* of before it joined and of while its listener was lost.
THEOREM ChatIsComplete == Spec => []ChatComplete
<1>1. IInv => ChatComplete
  BY QuietQueue DEF IInv, ChatComing, Coming, ChatComplete
<1> QED
  BY <1>1, Inductive, PTL

\* When the queue is empty the flag is what the database says, in whatever
\* order the opponent came and went.
THEOREM ConnectedFlagIsRight == Spec => []ConnectedFlagRight
<1>1. IInv => ConnectedFlagRight
  BY QuietQueue DEF IInv, WordComing, FlagComing, ConnectedFlagRight
<1> QED
  BY <1>1, Inductive, PTL
=============================================================================
