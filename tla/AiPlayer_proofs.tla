-------------------------- MODULE AiPlayer_proofs --------------------------
(***************************************************************************)
(* Proofs about AiPlayer, for any numbers of versions, joins, notices and  *)
(* faults: what its liveness properties say the AI player gets to, it has  *)
(* got to when nothing is on its way any more.                             *)
(*                                                                         *)
(* The inductive invariant says where what the AI player does not know yet *)
(* still is: a notice on the queue of its server, a message in the inbox   *)
(* of its client, or an action in its outbox.                              *)
(***************************************************************************)
EXTENDS AiPlayer, SequenceTheorems, TLAPS

\* What is on the queues.
Notice == {"status", "check", "true", "false"}
Message == [type : {"game_status"}, game : Game]
            \cup [type : {"opponent_connected"}, flag : BOOLEAN]
            \cup [type : {"error"}]

\* The client is connected.
Here == client \in {"playing", "sleeping"}

\* What is in a queue.
In(s) == {s[i] : i \in 1 .. Len(s)}

\* The queue s has no word of whether the human is in the game.
NoWord(s) == \A i \in 1 .. Len(s) : s[i] = "status"

\* When notice n is consumed the flag becomes b, if the human is then b.
Says(n, b) == n = "check" \/ (n = "true") = b

\* The last word on the queue says b.
LastWord(s, b) ==
    \E i \in 1 .. Len(s) :
        /\ s[i] # "status" /\ Says(s[i], b)
        /\ \A j \in 1 .. Len(s) : j > i => s[j] = "status"

\* The client acts only on a game it was sent, and its server sent it a copy.
Known ==
    /\ outbox # <<>> => Registered
    /\ outbox # <<>> \/ client = "sleeping" \/ Error \in In(inbox) => last_message # None
    /\ last_message # None \/ (\E m \in In(inbox) : m.type = "game_status") => copy # None

\* The client of a game that the human has left is about to read so.
LeavingComing ==
    Here /\ ~human => \/ {"false", "check"} \cap In(notices) # {}
                      \/ Connected(FALSE) \in In(inbox)

\* The server knows whether the human is in the game, or is about to.
FlagComing ==
    Registered => \/ LastWord(notices, human)
                  \/ NoWord(notices) /\ opponent_connected = human

\* Its copy is the game, or is about to be, unless a write failed.
CopyComing == Registered => "status" \in In(notices) \/ copy = game \/ "turn" \in lost

\* An action that the AI player owes is on its way, or the game that calls for
\* it is, unless it was lost.
ActionComing ==
    Here /\ Owes =>
        \/ "status" \in In(notices)
        \/ Status(game) \in In(inbox)
        \/ \E a \in In(outbox) : a.version = game.version /\ a.type \in Choices(game)
        \/ "turn" \in lost

\* An AI player that the human waits for is registered or being started.
Started ==
    human /\ game.status # "complete" /\ lost = {} => Registered \/ starts > 0

\* The types, with what the queues may hold.
Types == TypeOK /\ Known

\* What is on its way: the inductive invariant but for Started, which needs
\* prompt updates.
Coming == LeavingComing /\ FlagComing /\ CopyComing /\ ActionComing

\* An AI player at rest is in no game that the human has left, and owes no
\* action that was not lost.
LeavesAndActs == AtRest /\ client = "playing" => human /\ (Owes => "turn" \in lost)

-----------------------------------------------------------------------------
(***************************************************************************)
(* Lemmas about queues.                                                    *)
(***************************************************************************)
\* The end of a queue.
LEMMA InAppended ==
    ASSUME NEW S, NEW s \in Seq(S), NEW a \in S
    PROVE  /\ Append(s, a) \in Seq(S)
           /\ Append(s, a) # <<>>
           /\ In(Append(s, a)) = In(s) \cup {a}
<1>1. /\ Append(s, a) \in Seq(S) /\ Len(Append(s, a)) = Len(s) + 1 /\ Len(s) \in Nat
      /\ Append(s, a)[Len(s) + 1] = a /\ \A i \in 1 .. Len(s) : Append(s, a)[i] = s[i]
  BY AppendProperties
<1>2. 1 .. Len(s) + 1 = 1 .. Len(s) \cup {Len(s) + 1}
  BY <1>1
<1> QED
  BY <1>1, <1>2 DEF In

\* Its beginning.
LEMMA InTail ==
    ASSUME NEW S, NEW s \in Seq(S), s # <<>>
    PROVE  /\ Head(s) \in S /\ Tail(s) \in Seq(S)
           /\ In(s) = {Head(s)} \cup In(Tail(s))
<1>1. /\ Len(s) \in Nat /\ Len(s) >= 1 /\ Head(s) = s[1] /\ Head(s) \in S
      /\ Tail(s) \in Seq(S) /\ Len(Tail(s)) = Len(s) - 1
      /\ \A i \in 1 .. Len(Tail(s)) : Tail(s)[i] = s[i + 1]
  BY HeadTailProperties, EmptySeq
<1>2. \A x \in In(s) : x = s[1] \/ x \in In(Tail(s))
  <2> SUFFICES ASSUME NEW i \in 1 .. Len(s)
               PROVE  s[i] = s[1] \/ s[i] \in In(Tail(s))
    BY DEF In
  <2>1. CASE i # 1
    <3>1. i - 1 \in 1 .. Len(Tail(s)) /\ Tail(s)[i - 1] = s[i]
      BY <1>1, <2>1
    <3> QED
      BY <3>1 DEF In
  <2> QED
    BY <2>1
<1>3. s[1] \in In(s) /\ \A i \in 1 .. Len(Tail(s)) : i + 1 \in 1 .. Len(s)
  BY <1>1 DEF In
<1>4. In(Tail(s)) \subseteq In(s)
  BY <1>1, <1>3 DEF In
<1> QED
  BY <1>1, <1>2, <1>3, <1>4

\* Nothing is in an empty queue.
LEMMA InEmpty == In(<<>>) = {} /\ NoWord(<<>>)
BY EmptySeq DEF In, NoWord

\* A notice at the end of the queue has the last word, unless it is of a status.
LEMMA WordAppended ==
    ASSUME NEW s \in Seq(Notice), NEW n \in Notice
    PROVE  /\ n = "status" => /\ NoWord(s) => NoWord(Append(s, n))
                              /\ \A b : LastWord(s, b) => LastWord(Append(s, n), b)
           /\ n # "status" => \A b : Says(n, b) => LastWord(Append(s, n), b)
<1> DEFINE t == Append(s, n)
<1>1. /\ Len(t) = Len(s) + 1 /\ Len(s) \in Nat
      /\ t[Len(s) + 1] = n /\ \A i \in 1 .. Len(s) : t[i] = s[i]
  BY AppendProperties
<1> HIDE DEF t
<1>2. \A i \in 1 .. Len(t) : i \in 1 .. Len(s) \/ i = Len(s) + 1
  BY <1>1
<1>3. ASSUME n = "status"
      PROVE  NoWord(s) => NoWord(t)
  BY <1>1, <1>2, <1>3 DEF NoWord
<1>4. ASSUME n = "status", NEW b, LastWord(s, b)
      PROVE  LastWord(t, b)
  <2>1. PICK i \in 1 .. Len(s) : /\ s[i] # "status" /\ Says(s[i], b)
                                 /\ \A j \in 1 .. Len(s) : j > i => s[j] = "status"
    BY <1>4 DEF LastWord
  <2>2. i \in 1 .. Len(t) /\ t[i] = s[i] /\ \A j \in 1 .. Len(t) : j > i => t[j] = "status"
    BY <1>1, <1>2, <1>4, <2>1
  <2> QED
    BY <2>1, <2>2 DEF LastWord
<1>5. ASSUME n # "status", NEW b, Says(n, b)
      PROVE  LastWord(t, b)
  <2>1. /\ Len(s) + 1 \in 1 .. Len(t)
        /\ \A j \in 1 .. Len(t) : ~(j > Len(s) + 1)
    BY <1>1
  <2> QED
    BY <1>1, <1>5, <2>1 DEF LastWord
<1> QED
  BY <1>3, <1>4, <1>5 DEF t

\* Consuming the notice at its beginning says what the flag is, or leaves the
\* last word on the queue.
LEMMA WordConsumed ==
    ASSUME NEW s \in Seq(Notice), s # <<>>, NEW b
    PROVE  /\ NoWord(s) => NoWord(Tail(s)) /\ Head(s) = "status"
           /\ LastWord(s, b) => \/ LastWord(Tail(s), b)
                                \/ NoWord(Tail(s)) /\ Head(s) # "status" /\ Says(Head(s), b)
<1> DEFINE t == Tail(s)
<1>1. /\ Len(s) \in Nat /\ Len(s) >= 1 /\ Head(s) = s[1]
      /\ Len(t) = Len(s) - 1 /\ \A i \in 1 .. Len(t) : t[i] = s[i + 1]
  BY HeadTailProperties, EmptySeq
<1> HIDE DEF t
<1>2. NoWord(s) => NoWord(t) /\ Head(s) = "status"
  BY <1>1 DEF NoWord
<1>3. ASSUME LastWord(s, b)
      PROVE  LastWord(t, b) \/ (NoWord(t) /\ Head(s) # "status" /\ Says(Head(s), b))
  <2>1. PICK i \in 1 .. Len(s) : /\ s[i] # "status" /\ Says(s[i], b)
                                 /\ \A j \in 1 .. Len(s) : j > i => s[j] = "status"
    BY <1>3 DEF LastWord
  <2>2. CASE i = 1
    <3>1. \A j \in 1 .. Len(t) : j + 1 \in 1 .. Len(s) /\ j + 1 > i
      BY <1>1, <2>2
    <3> QED
      BY <1>1, <2>1, <2>2, <3>1 DEF NoWord
  <2>3. CASE i # 1
    <3>1. i - 1 \in 1 .. Len(t) /\ t[i - 1] = s[i]
      BY <1>1, <2>3
    <3>2. \A j \in 1 .. Len(t) : j > i - 1 => t[j] = "status"
      BY <1>1, <2>1
    <3> QED
      BY <2>1, <3>1, <3>2 DEF LastWord
  <2> QED
    BY <2>2, <2>3
<1> QED
  BY <1>2, <1>3 DEF t

-----------------------------------------------------------------------------
(***************************************************************************)
(* Types.                                                                  *)
(***************************************************************************)
\* What the actions make of a game is a game, after which the AI player owes
\* nothing if it was its own.
LEMMA GamesMade ==
    ASSUME NEW g \in Game, NEW moves \in Moves
    PROVE  /\ Placed(g, moves) \in Game
           /\ g.status # "request_pending" => Passed(g, moves) \in Game /\ Resigned(g) \in Game
           /\ \A r \in {"draw", "mark_dead", "tally_score"} : Asked(g, r) \in Game
           /\ Accepted(g) \in Game
           /\ Placed(g, moves).status = g.status /\ Placed(g, moves).turn = Other(g.turn)
           /\ Passed(g, moves).status \in {g.status, "endgame"}
           /\ Passed(g, moves).turn = Other(g.turn)
           /\ Accepted(g).status \in {"endgame", "complete"}
<1> DEFINE R == [version : Nat,
                 status : {"play", "endgame", "request_pending", "complete"},
                 turn : Player,
                 request : {"none", "draw", "mark_dead", "tally_score"},
                 passed : BOOLEAN,
                 moves : Moves]
<1>1. g \in R /\ (g.status = "request_pending" <=> g.request # "none") /\ g.version + 1 \in Nat
  BY DEF Game
<1>2. Other(g.turn) \in Player
  BY DEF Other, Player
<1>3. Placed(g, moves) = [g EXCEPT !.version = g.version + 1, !.turn = Other(g.turn),
                                   !.passed = FALSE, !.moves = moves]
  BY DEF Placed
<1>4. Placed(g, moves) \in R /\ Placed(g, moves).status = g.status
      /\ Placed(g, moves).turn = Other(g.turn) /\ Placed(g, moves).request = g.request
  BY <1>1, <1>2, <1>3
<1>5. Passed(g, moves) \in R /\ Passed(g, moves).status \in {g.status, "endgame"}
      /\ Passed(g, moves).turn = Other(g.turn) /\ Passed(g, moves).request = g.request
  BY <1>1, <1>2 DEF Passed
<1>6. Resigned(g) \in R /\ Resigned(g).status = "complete" /\ Resigned(g).request = g.request
  BY <1>1 DEF Resigned
<1>7. \A r \in {"draw", "mark_dead", "tally_score"} :
        Asked(g, r) \in R /\ Asked(g, r).status = "request_pending" /\ Asked(g, r).request = r
  BY <1>1 DEF Asked
<1>8. Accepted(g) \in R /\ Accepted(g).status \in {"endgame", "complete"}
      /\ Accepted(g).request = "none"
  BY <1>1 DEF Accepted
<1> QED
  BY <1>1, <1>4, <1>5, <1>6, <1>7, <1>8 DEF Game

\* A notification reaches the queue if the AI player is registered.
LEMMA Notified ==
    ASSUME TypeOK, NEW n \in Notice, Notify(n)
    PROVE  /\ notices' \in Seq(Notice)
           /\ In(notices') = In(notices) \cup (IF Registered THEN {n} ELSE {})
           /\ notices' = IF Registered THEN Append(notices, n) ELSE notices
BY InAppended DEF TypeOK, Notice, Notify

\* A message is sent if the client is connected.
LEMMA Sent ==
    ASSUME TypeOK, NEW m \in Message
    PROVE  /\ Send(m) \in Seq(Message)
           /\ In(Send(m)) = In(inbox) \cup (IF Here THEN {m} ELSE {})
BY InAppended DEF TypeOK, Message, Send, Here

\* The messages that are sent.
LEMMA Messages ==
    /\ Error \in Message /\ Error.type = "error"
    /\ \A g \in Game : Status(g) \in Message /\ Status(g).type = "game_status" /\ Status(g) # Error
    /\ \A b \in BOOLEAN : Connected(b) \in Message /\ Connected(b).type = "opponent_connected"
                          /\ Connected(b) # Error
    /\ \A m \in Message : m.type = "game_status" => m.game \in Game /\ m = Status(m.game)
    /\ \A m \in Message : m.type = "opponent_connected" => m.flag \in BOOLEAN /\ m = Connected(m.flag)
    /\ \A m \in Message : m.type \in {"game_status", "opponent_connected", "error"}
    /\ \A m \in Message : m.type = "error" => m = Error
BY DEF Error, Status, Connected, Message

\* What the policy chooses is an action, and there is a choice when it owes one.
LEMMA ChoicesMade ==
    ASSUME NEW g \in Game
    PROVE  /\ Choices(g) \subseteq {"place", "retake", "pass", "accept"}
           /\ "accept" \in Choices(g) => g.status = "request_pending"
           /\ \A type \in Choices(g) : g.status = "request_pending" => type = "accept"
           /\ g.status = "request_pending" \/ g.turn = "ai" => Choices(g) # {}
BY DEF Choices

\* An action of the AI player that the game takes is a game after which it
\* owes nothing.
LEMMA OutcomesOweNothing ==
    ASSUME copy \in Game, NEW a \in Action, ~Asserts(a.type), MayTake(a), NEW g \in Outcomes(a)
    PROVE  /\ g \in Game
           /\ g.status # "request_pending"
           /\ g.status = "play" => g.turn # "ai"
<1>0. {} \in Moves
  BY DEF Moves
<1>1. CASE a.type = "accept"
  BY <1>1, <1>0, GamesMade DEF Outcomes
<1>2. CASE a.type = "pass"
  <2>1. g = Passed(copy, {}) /\ copy.status = "play" /\ copy.turn = "ai"
    BY <1>2 DEF Outcomes, Asserts, MayTake
  <2>2. g \in Game /\ g.status \in {"play", "endgame"} /\ g.turn = "human"
    BY <2>1, <1>0, GamesMade DEF Other
  <2> QED
    BY <2>2
<1>3. CASE a.type \notin {"accept", "pass"}
  <2>1. g = Placed(copy, {}) /\ copy.status = "play" /\ copy.turn = "ai"
    BY <1>3 DEF Outcomes, Asserts, MayTake
  <2>2. g \in Game /\ g.status = "play" /\ g.turn = "human"
    BY <2>1, <1>0, GamesMade DEF Other
  <2> QED
    BY <2>2
<1> QED
  BY <1>1, <1>2, <1>3

\* The client has sent something only to a server that has a copy.
LEMMA HandledCopy ==
    ASSUME Types, outbox # <<>>
    PROVE  /\ copy \in Game /\ Registered
           /\ Head(outbox) \in Action /\ Tail(outbox) \in Seq(Action)
           /\ In(outbox) = {Head(outbox)} \cup In(Tail(outbox))
           /\ last_message # None
BY InTail DEF Types, TypeOK, Known

\* Each step keeps the types.
LEMMA NextTypeOK ==
    ASSUME Types, [Next]_vars
    PROVE  TypeOK'
<1>0. /\ TypeOK /\ notices \in Seq(Notice) /\ inbox \in Seq(Message) /\ outbox \in Seq(Action)
      /\ <<>> \in Seq(Notice) /\ <<>> \in Seq(Message) /\ <<>> \in Seq(Action)
  BY EmptySeq DEF Types, TypeOK, Notice, Message
<1>1. CASE HumanActs
  <2>1. game' \in Game
    <3>1. {} \in Moves /\ {"legal"} \in Moves /\ game \in Game
      BY <1>0 DEF Moves, TypeOK
    <3>2. CASE game.status = "play"
      <4>1. \/ \E moves \in Moves : game' = Placed(game, moves)
            \/ \E moves \in {{}, {"legal"}} : game' = Passed(game, moves)
            \/ game' = Asked(game, "draw")
            \/ game' = Resigned(game)
        BY <1>1, <3>2 DEF HumanActs
      <4>2. CASE \E moves \in Moves : game' = Placed(game, moves)
        BY <3>1, <4>2, GamesMade
      <4>3. CASE \E moves \in {{}, {"legal"}} : game' = Passed(game, moves)
        <5>1. PICK moves \in Moves : game' = Passed(game, moves)
          BY <3>1, <4>3
        <5> QED
          BY <3>1, <3>2, <5>1, GamesMade
      <4>4. CASE game' = Asked(game, "draw") \/ game' = Resigned(game)
        BY <3>1, <3>2, <4>4, GamesMade
      <4> QED
        BY <4>1, <4>2, <4>3, <4>4
    <3>3. CASE game.status # "play"
      <4>1. \E r \in {"mark_dead", "tally_score"} : game' = Asked(game, r)
        BY <1>1, <3>3 DEF HumanActs
      <4> QED
        BY <3>1, <4>1, GamesMade
    <3> QED
      BY <3>2, <3>3
  <2>2. notices' \in Seq(Notice)
    BY <1>0, <1>1, Notified DEF HumanActs, Notice
  <2> QED
    BY <1>0, <1>1, <2>1, <2>2 DEF HumanActs, TypeOK, messages, Notice
<1>2. CASE HumanLeaves
  <2>1. notices' \in Seq(Notice)
    BY <1>0, <1>2, Notified DEF HumanLeaves, AnnounceLeaving, Notice
  <2> QED
    BY <1>0, <1>2, <2>1 DEF HumanLeaves, TypeOK, messages, Notice
<1>3. CASE HumanJoins
  <2>1. notices' \in Seq(Notice)
    BY <1>0, <1>3, Notified DEF HumanJoins, Notice
  <2>2. joins' \in 0 .. MaxJoins /\ starts' \in Nat
    BY <1>0, <1>3, BoundsAssumption DEF HumanJoins, TypeOK
  <2> QED
    BY <1>0, <1>3, <2>1, <2>2 DEF HumanJoins, TypeOK, messages, Notice
<1>4. CASE AiJoins
  <2>1. notices' \in Seq(Notice)
    <3>1. Triggered \in Seq(Notice)
      BY DEF Triggered, Notice
    <3> QED
      BY <1>0, <1>4, <3>1, ConcatProperties DEF AiJoins
  <2>2. starts' \in Nat
    BY <1>0, <1>4 DEF AiJoins, TypeOK
  <2> QED
    BY <1>0, <1>4, <2>1, <2>2 DEF AiJoins, TypeOK, Notice, Message
<1>5. CASE AiRefused
  <2>1. starts' \in Nat
    BY <1>0, <1>5 DEF AiRefused, TypeOK
  <2> QED
    BY <1>0, <1>5, <2>1 DEF AiRefused, TypeOK, server, messages
<1>6. CASE AiJoinFails
  <2>1. starts' \in Nat /\ faults' \in 0 .. MaxFaults
    BY <1>0, <1>6, BoundsAssumption DEF AiJoinFails, Fault, TypeOK
  <2>2. lost' \subseteq {"start", "turn"}
    BY <1>0, <1>6 DEF AiJoinFails, TypeOK
  <2> QED
    BY <1>0, <1>6, <2>1, <2>2 DEF AiJoinFails, TypeOK, server, messages
<1>7. CASE AiUnsubscribed
  <2>1. starts' \in Nat
    BY <1>0, <1>7 DEF AiUnsubscribed, TypeOK
  <2> QED
    BY <1>0, <1>7, <2>1 DEF AiUnsubscribed, TypeOK, Message
<1>8. CASE LoseConnection
  <2>1. outbox' \in Seq(Action)
    BY <1>0, <1>8, SubSeqProperties DEF LoseConnection
  <2>2. faults' \in 0 .. MaxFaults
    BY <1>0, <1>8, BoundsAssumption DEF LoseConnection, Fault, TypeOK
  <2> QED
    BY <1>0, <1>8, <2>1, <2>2 DEF LoseConnection, TypeOK, server, Message
<1>9. CASE Consume
  <2>1. Head(notices) \in Notice /\ notices' \in Seq(Notice)
    BY <1>0, <1>9, InTail DEF Consume
  <2>2. copy' \in Game \cup {None}
    BY <1>0, <1>9 DEF Consume, TypeOK
  <2>3. opponent_connected' \in BOOLEAN \cup {None}
    BY <1>0, <1>9 DEF Consume, TypeOK
  <2>4. inbox' \in Seq(Message)
    <3>1. CASE ~Registered
      BY <1>0, <1>9, <3>1 DEF Consume
    <3>2. CASE Registered /\ Head(notices) = "status"
      BY <1>0, <1>9, <3>2, Sent, Messages DEF Consume, TypeOK
    <3>3. CASE Registered /\ Head(notices) # "status"
      <4>1. opponent_connected' \in BOOLEAN /\ inbox' = Send(Connected(opponent_connected'))
        BY <1>0, <1>9, <3>3 DEF Consume, TypeOK
      <4> QED
        BY <1>0, <4>1, Sent, Messages
    <3> QED
      BY <3>1, <3>2, <3>3
  <2> QED
    BY <1>0, <1>9, <2>1, <2>2, <2>3, <2>4 DEF Consume, TypeOK, Notice, Message
<1>10. CASE ReadStatus
  <2> DEFINE g == Head(inbox).game
  <2>1. inbox' \in Seq(Message) /\ g \in Game
    BY <1>0, <1>10, InTail, Messages DEF ReadStatus
  <2>2. g.version \in Nat
    BY <2>1 DEF Game
  <2>3. \A type \in Choices(g) : [type |-> type, version |-> g.version] \in Action
    BY <2>1, <2>2, ChoicesMade DEF Action
  <2>4. outbox' \in Seq(Action) /\ last_message' \in Action \cup {None}
    <3>1. CASE UNCHANGED <<outbox, last_message>>
      BY <1>0, <3>1 DEF TypeOK
    <3>2. CASE \E type \in Choices(g) : /\ last_message' = [type |-> type, version |-> g.version]
                                        /\ outbox' = Append(outbox, last_message')
      BY <1>0, <2>3, <3>2, InAppended
    <3> QED
      BY <1>10, <3>1, <3>2 DEF ReadStatus
  <2>5. client' \in {client, "closed"}
    BY <1>10 DEF ReadStatus
  <2> QED
    BY <1>0, <1>10, <2>1, <2>4, <2>5 DEF ReadStatus, TypeOK, server, Message
<1>11. CASE ReadConnected
  <2>1. inbox' \in Seq(Message)
    BY <1>0, <1>11, InTail DEF ReadConnected
  <2> QED
    BY <1>0, <1>11, <2>1 DEF ReadConnected, TypeOK, server, Message
<1>12. CASE ReadError
  <2>1. inbox' \in Seq(Message)
    BY <1>0, <1>12, InTail DEF ReadError
  <2> QED
    BY <1>0, <1>12, <2>1 DEF ReadError, TypeOK, server, Message
<1>13. CASE Resend
  <2>1. outbox' \in Seq(Action)
    BY <1>0, <1>13, InAppended DEF Resend, Types, Known, TypeOK
  <2> QED
    BY <1>0, <1>13, <2>1 DEF Resend, TypeOK, server
<1>14. CASE HandleAssertion
  <2>1. outbox' \in Seq(Action) /\ inbox' \in Seq(Message)
    BY <1>0, <1>14, HandledCopy, Sent, Messages DEF HandleAssertion
  <2> QED
    BY <1>0, <1>14, <2>1 DEF HandleAssertion, TypeOK, server, Message
<1>15. CASE HandleRefusal
  <2>1. outbox' \in Seq(Action)
    BY <1>15, HandledCopy DEF HandleRefusal
  <2>2. lost' \subseteq {"start", "turn"}
    BY <1>0, <1>15 DEF HandleRefusal, TypeOK
  <2> QED
    BY <1>0, <1>15, <2>1, <2>2 DEF HandleRefusal, TypeOK, server
<1>16. CASE HandleAction
  <2>1. /\ outbox' \in Seq(Action) /\ copy' \in Outcomes(Head(outbox))
        /\ copy \in Game /\ Head(outbox) \in Action
        /\ ~Asserts(Head(outbox).type) /\ MayTake(Head(outbox))
    BY <1>16, HandledCopy DEF HandleAction
  <2>2. copy' \in Game
    BY <2>1, OutcomesOweNothing
  <2>3. game' \in {game, copy'} /\ inbox' \in {inbox, Send(Status(copy')), Send(Error)}
        /\ lost' \in {lost, lost \cup {"turn"}}
    BY <1>16 DEF HandleAction
  <2>4. inbox' \in Seq(Message)
    BY <1>0, <2>2, <2>3, Sent, Messages
  <2>5. faults' \in 0 .. MaxFaults
    BY <1>0, <1>16, BoundsAssumption DEF HandleAction, Fault, TypeOK
  <2>6. game' \in Game /\ lost' \subseteq {"start", "turn"}
    BY <1>0, <2>2, <2>3 DEF TypeOK
  <2> QED
    BY <1>0, <1>16, <2>1, <2>2, <2>4, <2>5, <2>6 DEF HandleAction, TypeOK, Message
<1>17. CASE UNCHANGED vars
  BY <1>0, <1>17 DEF vars, TypeOK, server, messages
<1> QED
  BY <1>1, <1>2, <1>3, <1>4, <1>5, <1>6, <1>7, <1>8, <1>9, <1>10, <1>11, <1>12, <1>13, <1>14,
     <1>15, <1>16, <1>17 DEF Next

\* An action that leaves the messages and the copy alone, and registers nobody
\* anew, leaves what is known alone.
LEMMA KnownKept ==
    ASSUME Known, UNCHANGED <<messages, copy, client>>
    PROVE  Known'
BY DEF Known, messages, Registered, In, Error

\* The client acts only on what it was sent, in each step.
LEMMA NextKnown ==
    ASSUME Types, [Next]_vars
    PROVE  Known'
<1>0. /\ Known /\ TypeOK /\ inbox \in Seq(Message)
      /\ None \notin Game /\ None \notin Action /\ In(<<>>) = {}
  BY NoneAssumption, InEmpty DEF Types, TypeOK, Message
<1>1. CASE HumanActs \/ HumanLeaves \/ HumanJoins \/ AiRefused \/ AiJoinFails \/ UNCHANGED vars
  <2>1. UNCHANGED <<messages, copy, client>>
    BY <1>1 DEF HumanActs, HumanLeaves, HumanJoins, AiRefused, AiJoinFails, vars, server
  <2> QED
    BY <1>0, <2>1, KnownKept
<1>4. CASE AiJoins
  BY <1>0, <1>4 DEF AiJoins, Known, Registered
<1>7. CASE AiUnsubscribed
  BY <1>0, <1>7 DEF AiUnsubscribed, Known, Registered
<1>8. CASE LoseConnection
  <2>1. outbox' # <<>> => outbox # <<>>
    <3>1. PICK n \in 0 .. Len(outbox) : outbox' = SubSeq(outbox, 1, n)
      BY <1>8 DEF LoseConnection
    <3>2. outbox = <<>> => outbox' = <<>>
      BY <1>0, <3>1 DEF TypeOK
    <3> QED
      BY <3>2
  <2> QED
    BY <1>0, <1>8, <2>1 DEF LoseConnection, Known, server, Registered
<1>9. CASE Consume
  <2>1. UNCHANGED <<client, outbox, last_message>> /\ (Registered' <=> Registered)
    BY <1>9 DEF Consume, Registered
  <2>2. copy' \in {copy, game} /\ game # None
    BY <1>0, <1>9 DEF Consume, TypeOK
  <2>3. copy # None => copy' # None
    BY <2>2
  <2>4. CASE ~Registered \/ inbox' = inbox
    BY <1>0, <1>9, <2>1, <2>3, <2>4 DEF Consume, Known
  <2>5. CASE Registered /\ Head(notices) = "status"
    <3>1. inbox' = Send(Status(game)) /\ copy' = game /\ game \in Game
      BY <1>0, <1>9, <2>5 DEF Consume, TypeOK
    <3>2. Error \in In(inbox') => Error \in In(inbox)
      BY <1>0, <3>1, Sent, Messages
    <3> QED
      BY <1>0, <2>1, <2>2, <3>1, <3>2 DEF Known
  <2>6. CASE Registered /\ Head(notices) # "status"
    <3>1. /\ opponent_connected' \in BOOLEAN
          /\ inbox' = Send(Connected(opponent_connected'))
      BY <1>0, <1>9, <2>6 DEF Consume, TypeOK
    <3>2. \A m \in In(inbox') : m \in In(inbox) \/ (m.type = "opponent_connected" /\ m # Error)
      BY <1>0, <3>1, Sent, Messages
    <3> QED
      BY <1>0, <2>1, <2>3, <3>2 DEF Known
  <2> QED
    BY <2>4, <2>5, <2>6
<1>10. CASE ReadStatus
  <2>1. /\ inbox # <<>> /\ inbox' = Tail(inbox) /\ Head(inbox).type = "game_status"
        /\ copy' = copy /\ Registered /\ Registered' /\ client' # "sleeping" /\ client = "playing"
    BY <1>10 DEF ReadStatus, server, Registered
  <2>2. In(inbox) = {Head(inbox)} \cup In(inbox')
    BY <1>0, <2>1, InTail
  <2>3. copy' # None
    BY <1>0, <2>1, <2>2 DEF Known
  <2>4. /\ outbox' # <<>> \/ last_message # None => last_message' # None
    <3>1. CASE UNCHANGED <<outbox, last_message>>
      BY <1>0, <3>1 DEF Known
    <3>2. CASE last_message' # last_message \/ outbox' # outbox
      <4>1. \E type \in Choices(Head(inbox).game) :
              last_message' = [type |-> type, version |-> Head(inbox).game.version]
        BY <1>10, <3>2 DEF ReadStatus
      <4>2. Head(inbox).game \in Game
        BY <1>0, <2>1, InTail, Messages
      <4>3. Head(inbox).game.version \in Nat
        BY <4>2 DEF Game
      <4>4. last_message' \in Action
        BY <4>1, <4>2, <4>3, ChoicesMade DEF Action
      <4> QED
        BY <1>0, <4>4
    <3> QED
      BY <3>1, <3>2
  <2> QED
    BY <1>0, <2>1, <2>2, <2>3, <2>4 DEF Known
<1>11. CASE ReadConnected \/ ReadError
  <2>1. /\ inbox # <<>> /\ inbox' = Tail(inbox) /\ Registered /\ Registered'
        /\ UNCHANGED <<copy, outbox, last_message>> /\ Head(inbox) \in Message
        /\ client' # "sleeping" \/ Head(inbox).type = "error"
    BY <1>0, <1>11, InTail DEF ReadConnected, ReadError, server, Registered
  <2>2. In(inbox) = {Head(inbox)} \cup In(inbox')
    BY <1>0, <2>1, InTail
  <2>3. Head(inbox).type = "error" => Head(inbox) = Error
    BY <2>1, Messages
  <2> QED
    BY <1>0, <2>1, <2>2, <2>3 DEF Known
<1>13. CASE Resend
  BY <1>0, <1>13 DEF Resend, server, Known, Registered
<1>14. CASE HandleAssertion
  <2>1. /\ outbox # <<>> /\ UNCHANGED <<client, copy, last_message>> /\ inbox' = Send(Error)
    BY <1>14 DEF HandleAssertion, server
  <2>2. last_message # None /\ copy # None /\ Registered
    BY <1>0, <2>1 DEF Known
  <2> QED
    BY <2>1, <2>2 DEF Known, Registered
<1>15. CASE HandleRefusal
  <2>1. /\ outbox # <<>> /\ UNCHANGED <<client, copy, last_message>>
    BY <1>15 DEF HandleRefusal, server
  <2>2. last_message # None /\ copy # None /\ Registered
    BY <1>0, <2>1 DEF Known
  <2> QED
    BY <2>1, <2>2 DEF Known, Registered
<1>16. CASE HandleAction
  <2>1. /\ outbox # <<>> /\ UNCHANGED <<client, last_message>> /\ copy' \in Outcomes(Head(outbox))
        /\ ~Asserts(Head(outbox).type) /\ MayTake(Head(outbox))
    BY <1>16 DEF HandleAction
  <2>2. copy' \in Game
    BY <2>1, HandledCopy, OutcomesOweNothing
  <2>3. last_message # None /\ Registered
    BY <1>0, <2>1 DEF Known
  <2> QED
    BY <1>0, <2>1, <2>2, <2>3 DEF Known, Registered
<1> QED
  BY <1>1, <1>4, <1>7, <1>8, <1>9, <1>10, <1>11, <1>13, <1>14, <1>15, <1>16 DEF Next

-----------------------------------------------------------------------------
(***************************************************************************)
(* What each kind of step does to the queues.                              *)
(***************************************************************************)
\* The steps of the human, those in which the client reads a message, and those
\* in which the server handles one.
HumanSteps == HumanActs \/ HumanLeaves \/ HumanJoins
ReadSteps == ReadStatus \/ ReadConnected \/ ReadError
HandleSteps == HandleAssertion \/ HandleRefusal \/ HandleAction

\* The steps after which the client is not connected.
GoneSteps == AiUnsubscribed \/ LoseConnection

\* Those that tell nobody anything.
QuietSteps == AiRefused \/ AiJoinFails \/ Resend \/ UNCHANGED vars

\* The human's steps put a notice on the queue of a registered AI player.
LEMMA HumanStep ==
    ASSUME Types, HumanSteps
    PROVE  /\ UNCHANGED <<client, copy, opponent_connected, inbox, outbox, lost>>
           /\ In(notices) \subseteq In(notices')
           /\ starts \in Nat /\ starts' \in {starts, starts + 1}
<1>1. \E n \in Notice : Notify(n)
  BY DEF HumanSteps, HumanActs, HumanLeaves, AnnounceLeaving, HumanJoins, Notice
<1>2. UNCHANGED <<client, copy, opponent_connected, inbox, outbox, lost>>
  BY DEF HumanSteps, HumanActs, HumanLeaves, HumanJoins, messages
<1>3. starts \in Nat /\ starts' \in {starts, starts + 1}
  BY DEF HumanSteps, HumanActs, HumanLeaves, HumanJoins, Types, TypeOK
<1> QED
  BY <1>1, <1>2, <1>3, Notified DEF Types

\* When the AI player joins, a status and whether the human is there follow.
LEMMA JoinStep ==
    ASSUME Types, AiJoins
    PROVE  /\ UNCHANGED <<game, human, lost>> /\ client' = "playing"
           /\ notices \in Seq(Notice)
           /\ notices' = Append(Append(notices, "status"), "check")
           /\ In(notices') = In(notices) \cup {"status", "check"}
<1>1. notices \in Seq(Notice) /\ "status" \in Notice /\ "check" \in Notice
  BY DEF Types, TypeOK, Notice
<1>2. notices' = notices \o <<"status", "check">>
  BY DEF AiJoins, Triggered
<1>3. notices' = Append(Append(notices, "status"), "check")
  BY <1>1, <1>2
<1>4. UNCHANGED <<game, human, lost>> /\ client' = "playing"
  BY DEF AiJoins
<1> DEFINE s == Append(notices, "status")
<1>5. s \in Seq(Notice) /\ In(s) = In(notices) \cup {"status"}
  BY <1>1, InAppended
<1>6. notices' = Append(s, "check")
  BY <1>3
<1> HIDE DEF s
<1>7. In(notices') = In(s) \cup {"check"}
  BY <1>1, <1>5, <1>6, InAppended
<1> QED
  BY <1>1, <1>3, <1>4, <1>5, <1>7

\* A notice is taken off the queue, and a message follows from it or not.
LEMMA ConsumeStep ==
    ASSUME Types, Consume
    PROVE  /\ UNCHANGED <<game, human, client, outbox, lost, starts>>
           /\ notices \in Seq(Notice) /\ notices # <<>> /\ notices' = Tail(notices)
           /\ Head(notices) \in Notice /\ In(notices) = {Head(notices)} \cup In(notices')
           /\ In(inbox) \subseteq In(inbox')
<1>1. /\ UNCHANGED <<game, human, client, outbox, lost, starts>>
      /\ notices # <<>> /\ notices' = Tail(notices)
  BY DEF Consume
<1>2. TypeOK /\ game \in Game /\ notices \in Seq(Notice)
  BY DEF Types, TypeOK, Notice
<1>3. \/ inbox' = inbox
      \/ inbox' = Send(Status(game))
      \/ opponent_connected' \in BOOLEAN /\ inbox' = Send(Connected(opponent_connected'))
  BY <1>2 DEF Consume, TypeOK
<1>4. In(inbox) \subseteq In(inbox')
  BY <1>2, <1>3, Sent, Messages
<1> QED
  BY <1>1, <1>2, <1>4, InTail

\* A message is taken out of the inbox, and actions may follow.
LEMMA ReadStep ==
    ASSUME Types, ReadSteps
    PROVE  /\ UNCHANGED <<game, human, starts, copy, opponent_connected, notices, lost>>
           /\ Here /\ Registered /\ Registered'
           /\ Head(inbox) \in Message /\ In(inbox) = {Head(inbox)} \cup In(inbox')
           /\ In(outbox) \subseteq In(outbox')
<1>1. /\ UNCHANGED <<game, human, starts, copy, opponent_connected, notices, lost>>
      /\ Here /\ Registered /\ Registered' /\ inbox # <<>> /\ inbox' = Tail(inbox)
  BY DEF ReadSteps, ReadStatus, ReadConnected, ReadError, server, Here, Registered
<1>2. inbox \in Seq(Message) /\ outbox \in Seq(Action)
  BY DEF Types, TypeOK, Message
<1>3. In(outbox) \subseteq In(outbox')
  <2>1. CASE outbox' = outbox
    BY <2>1
  <2>2. CASE ReadStatus /\ outbox' # outbox
    <3> DEFINE g == Head(inbox).game
    <3>1. PICK type \in Choices(g) : outbox' = Append(outbox, [type |-> type, version |-> g.version])
      BY <2>2 DEF ReadStatus
    <3>2. g \in Game
      BY <1>1, <1>2, <2>2, InTail, Messages DEF ReadStatus
    <3>3. g.version \in Nat
      BY <3>2 DEF Game
    <3>4. [type |-> type, version |-> g.version] \in Action
      BY <3>2, <3>3, ChoicesMade DEF Action
    <3> QED
      BY <1>2, <3>1, <3>4, InAppended
  <2> QED
    BY <2>1, <2>2 DEF ReadSteps, ReadConnected, ReadError
<1> QED
  BY <1>1, <1>2, <1>3, InTail

\* A message is taken out of the outbox, and answers may follow.
LEMMA HandleStep ==
    ASSUME Types, HandleSteps
    PROVE  /\ UNCHANGED <<human, starts, client, opponent_connected, notices>>
           /\ Registered /\ copy \in Game
           /\ Head(outbox) \in Action /\ In(outbox) = {Head(outbox)} \cup In(outbox')
           /\ In(inbox) \subseteq In(inbox') /\ lost \subseteq lost'
<1>1. /\ UNCHANGED <<human, starts, client, opponent_connected, notices>>
      /\ outbox # <<>> /\ outbox' = Tail(outbox) /\ lost \subseteq lost'
  BY DEF HandleSteps, HandleAssertion, HandleRefusal, HandleAction, server
<1>2. HandleAction => copy' \in Game
  BY HandledCopy, OutcomesOweNothing DEF HandleAction
<1>3. In(inbox) \subseteq In(inbox')
  BY <1>2, Sent, Messages DEF Types, HandleSteps, HandleAssertion, HandleRefusal, HandleAction
<1> QED
  BY <1>1, <1>3, HandledCopy

\* The client is gone, the server's data with it or not yet.
LEMMA GoneStep ==
    ASSUME GoneSteps
    PROVE  ~Here' /\ UNCHANGED <<game, human, notices, lost>> /\ Registered
           /\ (Registered' => UNCHANGED <<starts, copy, opponent_connected>>)
BY DEF GoneSteps, AiUnsubscribed, LoseConnection, server, Here, Registered

\* Nothing changes but the client's outbox and the starts.
LEMMA QuietStep ==
    ASSUME Types, QuietSteps
    PROVE  /\ UNCHANGED <<game, human, copy, opponent_connected, notices, inbox>>
           /\ (Here' <=> Here) /\ (Registered' <=> Registered)
           /\ In(outbox) \subseteq In(outbox') /\ lost \subseteq lost'
<1>1. CASE Resend
  <2>1. outbox' = Append(outbox, last_message) /\ outbox \in Seq(Action) /\ last_message \in Action
    BY <1>1 DEF Resend, Types, TypeOK, Known
  <2> QED
    BY <1>1, <2>1, InAppended DEF Resend, server, Here, Registered
<1> QED
  BY <1>1 DEF QuietSteps, AiRefused, AiJoinFails, vars, server, messages, Here, Registered

\* There are no other steps.
LEMMA Steps ==
    ASSUME [Next]_vars
    PROVE  \/ HumanSteps \/ AiJoins \/ Consume \/ ReadSteps \/ HandleSteps \/ GoneSteps
           \/ QuietSteps
BY DEF Next, HumanSteps, ReadSteps, HandleSteps, GoneSteps, QuietSteps

-----------------------------------------------------------------------------
(***************************************************************************)
(* Where what the AI player does not know yet still is.                    *)
(***************************************************************************)
\* The client learns that the human has left, in each step.
LEMMA NextLeavingComing ==
    ASSUME Types, LeavingComing, [Next]_vars
    PROVE  LeavingComing'
<1> SUFFICES ASSUME Here', ~human'
             PROVE  \/ {"false", "check"} \cap In(notices') # {}
                    \/ Connected(FALSE) \in In(inbox')
  BY DEF LeavingComing, Connected
<1>1. CASE HumanSteps
  <2>1. CASE HumanLeaves
    BY <1>1, <2>1, HumanStep, Notified
       DEF Types, HumanLeaves, AnnounceLeaving, Notice, Here, Registered
  <2>2. CASE HumanActs
    BY <1>1, <2>2, HumanStep DEF HumanActs, LeavingComing, Here
  <2>3. CASE HumanJoins
    BY <2>3 DEF HumanJoins
  <2> QED
    BY <1>1, <2>1, <2>2, <2>3 DEF HumanSteps
<1>2. CASE AiJoins
  BY <1>2, JoinStep
<1>3. CASE Consume
  <2>1. Here /\ ~human /\ Registered
    BY <1>3, ConsumeStep DEF Here, Registered
  <2>2. CASE Head(notices) \in {"false", "check"}
    <3>1. opponent_connected' = FALSE /\ inbox' = Send(Connected(opponent_connected'))
      BY <1>3, <2>1, <2>2 DEF Consume, Types, TypeOK
    <3>2. inbox' = Send(Connected(FALSE))
      BY <3>1
    <3> QED
      BY <2>1, <3>2, Sent, Messages DEF Types
  <2>3. CASE Head(notices) \notin {"false", "check"}
    BY <1>3, <2>1, <2>3, ConsumeStep DEF LeavingComing
  <2> QED
    BY <2>2, <2>3
<1>4. CASE ReadSteps
  <2>1. Head(inbox) # Connected(FALSE)
    BY <1>4, Messages DEF ReadSteps, ReadStatus, ReadConnected, ReadError, Here, Connected
  <2> QED
    BY <1>4, <2>1, ReadStep DEF LeavingComing
<1>5. CASE HandleSteps
  BY <1>5, HandleStep DEF LeavingComing, Here
<1>6. CASE GoneSteps
  BY <1>6, GoneStep
<1>7. CASE QuietSteps
  BY <1>7, QuietStep DEF LeavingComing
<1> QED
  BY <1>1, <1>2, <1>3, <1>4, <1>5, <1>6, <1>7, Steps

\* So does the server, and the last that it learns is so.
LEMMA NextFlagComing ==
    ASSUME Types, FlagComing, [Next]_vars
    PROVE  FlagComing'
<1> SUFFICES ASSUME Registered'
             PROVE  \/ LastWord(notices', human')
                    \/ NoWord(notices') /\ opponent_connected' = human'
  BY DEF FlagComing, NoWord, LastWord
<1>0. TypeOK /\ notices \in Seq(Notice) /\ human \in BOOLEAN
  BY DEF Types, TypeOK, Notice
<1>1. CASE HumanSteps
  <2>1. Registered
    BY <1>1, HumanStep DEF Registered
  <2>2. CASE HumanActs
    <3>1. notices' = Append(notices, "status")
      BY <1>0, <2>1, <2>2, Notified DEF HumanActs, Notice
    <3> QED
      BY <1>0, <1>1, <2>1, <2>2, <3>1, HumanStep, WordAppended DEF HumanActs, FlagComing, Notice
  <2>3. CASE HumanLeaves
    <3>1. notices' = Append(notices, "false") /\ human' = FALSE
      BY <1>0, <2>1, <2>3, Notified DEF HumanLeaves, AnnounceLeaving, Notice
    <3> QED
      BY <1>0, <3>1, WordAppended DEF Says, Notice
  <2>4. CASE HumanJoins
    <3>1. notices' = Append(notices, "true") /\ human' = TRUE
      BY <1>0, <2>1, <2>4, Notified DEF HumanJoins, Notice
    <3> QED
      BY <1>0, <3>1, WordAppended DEF Says, Notice
  <2> QED
    BY <1>1, <2>2, <2>3, <2>4 DEF HumanSteps
<1>2. CASE AiJoins
  <2> DEFINE s == Append(notices, "status")
  <2>1. s \in Seq(Notice) /\ notices' = Append(s, "check")
    BY <1>0, <1>2, InAppended, JoinStep DEF Notice
  <2>2. "check" \in Notice /\ Says("check", human')
    BY DEF Notice, Says
  <2> HIDE DEF s
  <2>3. LastWord(notices', human')
    BY <2>1, <2>2, WordAppended
  <2> QED
    BY <2>3
<1>3. CASE Consume
  <2>1. Registered /\ human' = human /\ notices' = Tail(notices) /\ notices # <<>>
    BY <1>3, ConsumeStep DEF Registered
  <2>2. CASE Head(notices) = "status"
    <3>1. opponent_connected' = opponent_connected
      BY <1>3, <2>1, <2>2 DEF Consume
    <3> QED
      BY <1>0, <2>1, <2>2, <3>1, WordConsumed DEF FlagComing
  <2>3. CASE Head(notices) # "status"
    <3>1. LastWord(notices, human)
      BY <1>0, <2>1, <2>3, WordConsumed DEF FlagComing
    <3>2. CASE LastWord(notices', human)
      BY <2>1, <3>2
    <3>3. CASE NoWord(notices') /\ Says(Head(notices), human)
      BY <1>0, <1>3, <2>1, <2>3, <3>3 DEF Consume, Says
    <3> QED
      BY <1>0, <2>1, <3>1, <3>2, <3>3, WordConsumed
  <2> QED
    BY <2>2, <2>3
<1>4. CASE ReadSteps
  BY <1>4, ReadStep DEF FlagComing
<1>5. CASE HandleSteps
  BY <1>5, HandleStep DEF FlagComing, Registered
<1>6. CASE GoneSteps
  BY <1>6, GoneStep DEF FlagComing
<1>7. CASE QuietSteps
  BY <1>7, QuietStep DEF FlagComing
<1> QED
  BY <1>1, <1>2, <1>3, <1>4, <1>5, <1>6, <1>7, Steps

\* Its copy becomes the game, in each step.
LEMMA NextCopyComing ==
    ASSUME Types, CopyComing, [Next]_vars
    PROVE  CopyComing'
<1> SUFFICES ASSUME Registered'
             PROVE  "status" \in In(notices') \/ copy' = game' \/ "turn" \in lost'
  BY DEF CopyComing
<1>1. CASE HumanSteps
  <2>1. Registered
    BY <1>1, HumanStep DEF Registered
  <2>2. CASE HumanActs
    BY <2>1, <2>2, Notified DEF HumanActs, Types, Notice
  <2>3. CASE HumanLeaves \/ HumanJoins
    BY <1>1, <2>1, <2>3, HumanStep DEF HumanLeaves, HumanJoins, CopyComing
  <2> QED
    BY <1>1, <2>2, <2>3 DEF HumanSteps
<1>2. CASE AiJoins
  BY <1>2, JoinStep
<1>3. CASE Consume
  <2>1. Registered
    BY <1>3, ConsumeStep DEF Registered
  <2>2. CASE Head(notices) = "status"
    BY <1>3, <2>1, <2>2, ConsumeStep DEF Consume
  <2>3. CASE Head(notices) # "status"
    <3>1. copy' = copy
      BY <1>3, <2>1, <2>3 DEF Consume
    <3> QED
      BY <1>3, <2>1, <2>3, <3>1, ConsumeStep DEF CopyComing
  <2> QED
    BY <2>2, <2>3
<1>4. CASE ReadSteps
  BY <1>4, ReadStep DEF CopyComing
<1>5. CASE HandleSteps
  <2>1. CASE HandleAssertion \/ HandleRefusal
    BY <1>5, <2>1, HandleStep DEF HandleAssertion, HandleRefusal, server, CopyComing
  <2>2. CASE HandleAction
    <3>1. CASE copy.version = game.version
      BY <2>2, <3>1 DEF HandleAction
    <3>2. CASE copy.version # game.version
      BY <1>5, <3>2, HandleStep DEF CopyComing
    <3> QED
      BY <3>1, <3>2
  <2> QED
    BY <1>5, <2>1, <2>2 DEF HandleSteps
<1>6. CASE GoneSteps
  BY <1>6, GoneStep DEF CopyComing
<1>7. CASE QuietSteps
  BY <1>7, QuietStep DEF CopyComing
<1> QED
  BY <1>1, <1>2, <1>3, <1>4, <1>5, <1>6, <1>7, Steps

\* An action that the game takes leaves the AI player owing none.
LEMMA ActionTaken ==
    ASSUME Types, CopyComing, HandleAction, Owes'
    PROVE  "status" \in In(notices') \/ "turn" \in lost'
<1>1. /\ copy \in Game /\ Head(outbox) \in Action
      /\ ~Asserts(Head(outbox).type) /\ MayTake(Head(outbox)) /\ copy' \in Outcomes(Head(outbox))
  BY HandledCopy DEF HandleAction
<1>2. game' # copy'
  BY <1>1, OutcomesOweNothing DEF Owes
<1>3. copy.version # game.version \/ "turn" \in lost'
  BY <1>2 DEF HandleAction
<1> QED
  BY <1>3, HandleStep DEF HandleSteps, CopyComing

\* An action that is refused on the game was not owed, or is lost.
LEMMA ActionRefused ==
    ASSUME Types, CopyComing, HandleAssertion \/ HandleRefusal, Owes,
           Head(outbox).version = game.version, Head(outbox).type \in Choices(game)
    PROVE  "status" \in In(notices') \/ "turn" \in lost'
<1>1. /\ Registered /\ copy \in Game /\ notices' = notices /\ lost \subseteq lost'
      /\ game \in Game
  BY HandleStep DEF HandleSteps, Types, TypeOK
<1>2. SUFFICES ASSUME copy = game
               PROVE  "turn" \in lost'
  BY <1>1 DEF CopyComing
<1>3. ~Asserts(Head(outbox).type)
  BY <1>1, <1>2, ChoicesMade DEF Asserts, Owes
<1>4. game.version \in Nat
  BY <1>1 DEF Game
<1> QED
  BY <1>2, <1>3, <1>4 DEF HandleAssertion, HandleRefusal

\* An action that the AI player owes is taken or lost, in each step.
LEMMA NextActionComing ==
    ASSUME Types, CopyComing, ActionComing, [Next]_vars
    PROVE  ActionComing'
<1> DEFINE Chosen == \E a \in In(outbox) : a.version = game.version /\ a.type \in Choices(game)
<1> SUFFICES ASSUME Here', Owes'
             PROVE  \/ "status" \in In(notices')
                    \/ Status(game') \in In(inbox')
                    \/ Chosen'
                    \/ "turn" \in lost'
  BY DEF ActionComing, Status
<1>0. game \in Game /\ TypeOK
  BY DEF Types, TypeOK
<1>1. CASE HumanSteps
  <2>1. Registered /\ Here
    BY <1>1, HumanStep DEF Registered, Here
  <2>2. CASE HumanActs
    BY <2>1, <2>2, Notified DEF HumanActs, Types, Notice
  <2>3. CASE HumanLeaves \/ HumanJoins
    BY <1>1, <2>1, <2>3, HumanStep DEF HumanLeaves, HumanJoins, ActionComing, Owes
  <2> QED
    BY <1>1, <2>2, <2>3 DEF HumanSteps
<1>2. CASE AiJoins
  BY <1>2, JoinStep
<1>3. CASE Consume
  <2>1. Registered /\ Here /\ Owes
    BY <1>3, ConsumeStep DEF Registered, Here, Owes
  <2>2. CASE Head(notices) = "status"
    <3>1. inbox' = Send(Status(game)) /\ game' = game
      BY <1>3, <2>1, <2>2 DEF Consume
    <3> QED
      BY <1>0, <2>1, <3>1, Sent, Messages
  <2>3. CASE Head(notices) # "status"
    BY <1>3, <2>1, <2>3, ConsumeStep DEF ActionComing
  <2> QED
    BY <2>2, <2>3
<1>4. CASE ReadSteps
  <2>1. Here /\ Owes
    BY <1>4, ReadStep DEF Owes
  <2>2. CASE Head(inbox) = Status(game)
    <3>1. ReadStatus /\ Head(inbox).game = game /\ game.status # "complete" /\ Choices(game) # {}
      BY <1>0, <1>4, <2>1, <2>2, Messages, ChoicesMade
         DEF ReadSteps, ReadConnected, ReadError, Status, Owes
    <3>2. PICK type \in Choices(game) :
            outbox' = Append(outbox, [type |-> type, version |-> game.version])
      BY <3>1 DEF ReadStatus
    <3>3. game.version \in Nat
      BY <1>0 DEF Game
    <3>4. [type |-> type, version |-> game.version] \in Action /\ outbox \in Seq(Action)
      BY <1>0, <3>2, <3>3, ChoicesMade DEF Action, TypeOK
    <3>5. [type |-> type, version |-> game.version] \in In(outbox')
      BY <3>2, <3>4, InAppended
    <3> QED
      BY <1>4, <3>2, <3>5, ReadStep
  <2>3. CASE Head(inbox) # Status(game)
    BY <1>4, <2>1, <2>3, ReadStep DEF ActionComing
  <2> QED
    BY <2>2, <2>3
<1>5. CASE HandleSteps
  <2>1. CASE HandleAction
    BY <2>1, ActionTaken
  <2>2. CASE HandleAssertion \/ HandleRefusal
    <3>1. Here /\ Owes /\ game' = game
      BY <1>5, <2>2, HandleStep DEF HandleAssertion, HandleRefusal, Here, Owes
    <3>2. CASE Chosen /\ ~Chosen'
      <4>1. Head(outbox).version = game.version /\ Head(outbox).type \in Choices(game)
        BY <1>5, <3>1, <3>2, HandleStep
      <4> QED
        BY <2>2, <3>1, <4>1, ActionRefused
    <3> QED
      BY <1>5, <3>1, <3>2, HandleStep DEF ActionComing
  <2> QED
    BY <1>5, <2>1, <2>2 DEF HandleSteps
<1>6. CASE GoneSteps
  BY <1>6, GoneStep
<1>7. CASE QuietSteps
  BY <1>7, QuietStep DEF ActionComing, Owes
<1> QED
  BY <1>1, <1>2, <1>3, <1>4, <1>5, <1>6, <1>7, Steps

\* When the queue is worked off before the AI player is unsubscribed, the
\* server then starts it again if the human is waiting.
LEMMA NextStarted ==
    ASSUME PromptUpdates, Types, FlagComing, CopyComing, Started, [Next]_vars
    PROVE  Started'
<1> SUFFICES ASSUME human', game'.status # "complete", lost' = {}
             PROVE  Registered' \/ starts' > 0
  BY DEF Started
<1>0. game \in Game /\ starts \in Nat /\ None \notin Game
  BY NoneAssumption DEF Types, TypeOK
<1>1. CASE HumanSteps
  <2>1. CASE HumanJoins
    BY <1>0, <2>1 DEF HumanJoins
  <2>2. CASE HumanActs
    <3>1. game.status # "complete"
      BY <2>2 DEF HumanActs
    <3> QED
      BY <1>0, <1>1, <2>2, <3>1, HumanStep DEF HumanActs, Started, Registered
  <2>3. CASE HumanLeaves
    BY <2>3 DEF HumanLeaves
  <2> QED
    BY <1>1, <2>1, <2>2, <2>3 DEF HumanSteps
<1>2. CASE AiJoins
  BY <1>2, JoinStep DEF Registered
<1>3. CASE Consume
  BY <1>3, ConsumeStep DEF Started, Registered
<1>4. CASE ReadSteps
  BY <1>4, ReadStep
<1>5. CASE HandleSteps
  BY <1>5, HandleStep DEF Registered
<1>6. CASE GoneSteps
  <2>1. CASE LoseConnection
    BY <2>1 DEF LoseConnection, Registered
  <2>2. CASE AiUnsubscribed
    <3>1. Registered /\ notices = <<>> /\ UNCHANGED <<game, human, lost>>
      BY <2>2 DEF AiUnsubscribed, UpdatesDone, Registered
    <3>2. opponent_connected = human /\ copy = game
      BY <3>1, InEmpty DEF FlagComing, CopyComing, LastWord
    <3> QED
      BY <1>0, <2>2, <3>1, <3>2 DEF AiUnsubscribed, DisconnectedTooEarly
  <2> QED
    BY <1>6, <2>1, <2>2 DEF GoneSteps
<1>7. CASE QuietSteps
  <2>1. CASE AiRefused
    BY <2>1 DEF AiRefused, Registered
  <2>2. CASE AiJoinFails
    BY <2>2 DEF AiJoinFails
  <2>3. CASE Resend
    BY <2>3 DEF Resend, Registered
  <2>4. CASE UNCHANGED vars
    BY <2>4 DEF vars, Started, Registered
  <2> QED
    BY <1>7, <2>1, <2>2, <2>3, <2>4 DEF QuietSteps
<1> QED
  BY <1>1, <1>2, <1>3, <1>4, <1>5, <1>6, <1>7, Steps

-----------------------------------------------------------------------------
(***************************************************************************)
(* The theorems.                                                           *)
(***************************************************************************)
\* So it is at first, when the AI player is about to be started.
LEMMA InitComing ==
    ASSUME Init
    PROVE  Types /\ Coming /\ Started
<1>1. game \in Game
  <2>1. {{}} \subseteq Moves
    BY DEF Moves
  <2>2. PICK first \in Player : \E moves \in Moves :
          game = [version |-> 0, status |-> "play", turn |-> first, request |-> "none",
                  passed |-> FALSE, moves |-> moves]
    BY <2>1 DEF Init
  <2> QED
    BY <2>2 DEF Game
<1>2. TypeOK
  BY <1>1, BoundsAssumption DEF Init, TypeOK
<1>3. Known
  BY InEmpty DEF Init, Known
<1>4. Coming /\ Started
  BY DEF Init, Coming, LeavingComing, FlagComing, CopyComing, ActionComing, Started, Here, Registered
<1> QED
  BY <1>2, <1>3, <1>4 DEF Types

\* The inductive invariant, for any order of the updates and the AI player's
\* coming and going.
THEOREM NothingIsForgotten == Spec => [](Types /\ Coming)
<1>1. Init => Types /\ Coming
  BY InitComing
<1>2. Types /\ Coming /\ [Next]_vars => (Types /\ Coming)'
  BY NextTypeOK, NextKnown, NextLeavingComing, NextFlagComing, NextCopyComing, NextActionComing
     DEF Types, Coming
<1> QED
  BY <1>1, <1>2, PTL DEF Spec

\* The variables have their types.
THEOREM TypeCorrect == Spec => []TypeOK
<1>1. Types /\ Coming => TypeOK
  BY DEF Types
<1> QED
  BY <1>1, NothingIsForgotten, PTL

\* At rest, nothing is on its way.
LEMMA ComingAtRest ==
    ASSUME Coming
    PROVE  LeavesAndActs
BY InEmpty DEF Coming, LeavingComing, ActionComing, LeavesAndActs, AtRest, Here

\* Whatever fails and however late the updates are: an AI player at rest has
\* left the game if the human has, and has acted unless its action was lost.
THEOREM LeavesAndActsAtRest == Spec => []LeavesAndActs
<1>1. Types /\ Coming => LeavesAndActs
  BY ComingAtRest
<1> QED
  BY <1>1, NothingIsForgotten, PTL

\* With prompt updates, a human who goes on with the game is not left waiting
\* for the AI player, unless a join of it raised or an action of it was lost.
THEOREM NothingOverlooked ==
    ASSUME PromptUpdates
    PROVE  Spec => []RestsInOrder
<1>1. Init => Started
  BY InitComing
<1>2. Types /\ Coming /\ Started /\ [Next]_vars => Started'
  BY NextStarted DEF Coming
<1>3. Types /\ Coming /\ Started => RestsInOrder
  <2> SUFFICES ASSUME Coming, Started, AtRest
               PROVE  /\ client = "playing" => human
                      /\ human /\ game.status # "complete" /\ lost = {} => client = "playing"
                      /\ client = "playing" /\ Owes => "turn" \in lost
    BY DEF RestsInOrder
  <2> QED
    BY ComingAtRest DEF LeavesAndActs, Started, AtRest, Registered
<1> QED
  BY <1>1, <1>2, <1>3, NothingIsForgotten, PTL DEF Spec
=============================================================================
