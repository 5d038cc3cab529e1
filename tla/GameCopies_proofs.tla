------------------------- MODULE GameCopies_proofs --------------------------
(***************************************************************************)
(* Proofs about GameCopies, for any number of actions, notices and faults: *)
(* of two servers that change copies of the game and store them by compare *)
(* and set, nothing is lost that was answered with success, and what is    *)
(* stored is legal.                                                        *)
(*                                                                         *)
(* The inductive invariant compares stacks: each copy, each game read and  *)
(* each game being written is a beginning of the stored one, except for    *)
(* the one action that a write adds.                                       *)
(***************************************************************************)
EXTENDS GameCopies, SequenceTheorems, TLAPS

\* s is the beginning of t.
Begins(s, t) ==
    /\ Len(s) <= Len(t)
    /\ \A i \in 1 .. Len(s) : s[i] = t[i]

\* What take_action appended to the copy it was given.
Before(s) == SubSeq(s, 1, Len(s) - 1)

\* A stack has a length, and a last action unless it is empty.
LEMMA LengthOfStack ==
    ASSUME NEW s \in Stack
    PROVE  /\ Len(s) \in Nat
           /\ \A i \in 1 .. Len(s) : s[i] \in Action
           /\ s # <<>> => Len(s) >= 1 /\ Last(s) \in Action
BY DEF Stack, Last

\* A stack is the beginning of the stack with one more action.
LEMMA BeginningAppended ==
    ASSUME NEW s \in Stack, NEW a \in Action
    PROVE  /\ Append(s, a) \in Stack
           /\ Append(s, a) # <<>>
           /\ Len(Append(s, a)) = Len(s) + 1
           /\ Last(Append(s, a)) = a
           /\ Before(Append(s, a)) = s
           /\ Begins(s, Append(s, a))
<1>1. /\ Append(s, a) \in Seq(Action) /\ Len(Append(s, a)) = Len(s) + 1
      /\ Append(s, a)[Len(s) + 1] = a /\ \A i \in 1 .. Len(s) : Append(s, a)[i] = s[i]
  BY AppendProperties DEF Stack
<1>2. Before(Append(s, a)) = s
  BY AppendProperties, <1>1 DEF Before, Stack
<1> QED
  BY <1>1, <1>2, LengthOfStack, EmptySeq DEF Stack, Last, Begins

\* A stack is what take_action was given and what it appended.
LEMMA BeforeProperties ==
    ASSUME NEW s \in Stack, s # <<>>
    PROVE  /\ Before(s) \in Stack
           /\ Len(Before(s)) = Len(s) - 1
           /\ s = Append(Before(s), Last(s))
<1>1. Len(s) \in Nat /\ Len(s) >= 1 /\ Last(s) \in Action /\ \A i \in 1 .. Len(s) : s[i] \in Action
  BY LengthOfStack
<1>2. /\ Before(s) \in Seq(Action)
      /\ Len(Before(s)) = Len(s) - 1
      /\ \A i \in 1 .. Len(s) - 1 : Before(s)[i] = s[i]
  <2> DEFINE n == Len(s) - 1
  <2>1. n \in Nat /\ \A i \in 1 .. n : s[i] \in Action
    BY <1>1
  <2> HIDE DEF n
  <2>2. /\ SubSeq(s, 1, n) \in Seq(Action)
        /\ Len(SubSeq(s, 1, n)) = IF 1 <= n THEN n - 1 + 1 ELSE 0
        /\ \A i \in 1 .. n - 1 + 1 : SubSeq(s, 1, n)[i] = s[1 + i - 1]
    BY <2>1, SubSeqProperties
  <2>3. n - 1 + 1 = n /\ \A i \in 1 .. n : 1 + i - 1 = i
    BY <2>1
  <2>4. /\ Len(SubSeq(s, 1, n)) = n
        /\ \A i \in 1 .. n : SubSeq(s, 1, n)[i] = s[i]
    BY <2>1, <2>2, <2>3
  <2> QED
    BY <2>2, <2>4 DEF Before, n
<1>3. /\ Append(Before(s), Last(s)) \in Seq(Action)
      /\ Len(Append(Before(s), Last(s))) = Len(s)
      /\ Append(Before(s), Last(s))[Len(s)] = Last(s)
      /\ \A i \in 1 .. Len(s) - 1 : Append(Before(s), Last(s))[i] = s[i]
  BY <1>1, <1>2, AppendProperties
<1>4. \A i \in 1 .. Len(s) : Append(Before(s), Last(s))[i] = s[i]
  BY <1>1, <1>3 DEF Last
<1> QED
  BY <1>2, <1>3, <1>4, SeqEqual DEF Stack

\* The beginning of a beginning is a beginning.
LEMMA BeginsTransitive ==
    ASSUME NEW r \in Stack, NEW s \in Stack, NEW t \in Stack, Begins(r, s), Begins(s, t)
    PROVE  Begins(r, t)
BY LengthOfStack DEF Begins

\* A stack that has the length of its beginning is that beginning.
LEMMA BeginsEqual ==
    ASSUME NEW s \in Stack, NEW t \in Stack, Begins(s, t), Len(s) = Len(t)
    PROVE  s = t
BY SeqEqual DEF Begins, Stack

-----------------------------------------------------------------------------

\* A write that is under way is of a game with an action.
Types ==
    /\ TypeOK
    /\ \A c \in Color : write[c].state # "none" => write[c].game # <<>>

\* The opponent is the other one.
LEMMA Colors == \A c \in Color : inverse(c) \in Color /\ inverse(c) # c
BY DEF Color, inverse

\* A write that moves to its next state keeps its game.
LEMMA WriteMoves ==
    ASSUME TypeOK, NEW c \in Color,
           NEW st \in {"none", "writing", "stored", "preempted", "failed"}
    PROVE  [write EXCEPT ![c].state = st]
                = [write EXCEPT ![c] = [state |-> st, game |-> write[c].game]]
<1>1. [write[c] EXCEPT !.state = st] = [state |-> st, game |-> write[c].game]
  BY DEF TypeOK
<1> QED
  BY <1>1

\* Both servers start with no copy.
LEMMA InitTypes == Init => Types
<1>1. <<>> \in Stack
  BY EmptySeq DEF Stack
<1> QED
  BY <1>1, BoundsAssumption DEF Init, Types, TypeOK, NoWrite

\* No step disturbs the types.
LEMMA NextTypes ==
    ASSUME Types, [Next]_vars
    PROVE  Types'
<1> USE DEF Types
<1>0. <<>> \in Stack
  BY EmptySeq DEF Stack
<1>1. ASSUME NEW c \in Color, NEW kind \in Kind, TakeAction(c, kind)
      PROVE  Types'
  <2> DEFINE a == [id |-> sent + 1, color |-> c, kind |-> kind]
             game == Append(copy[c], a)
  <2>1. a \in Action /\ copy[c] \in Stack
    BY <1>1, BoundsAssumption DEF TakeAction, Action, TypeOK
  <2>2. game \in Stack /\ game # <<>>
    BY <2>1, BeginningAppended
  <2> HIDE DEF game
  <2>3. [state |-> "writing", game |-> game] \in
            [state : {"none", "writing", "stored", "preempted", "failed"}, game : Stack]
    BY <2>2
  <2>4. /\ copy' = [copy EXCEPT ![c] = game]
        /\ write' = [write EXCEPT ![c] = [state |-> "writing", game |-> game]]
        /\ sent' = sent + 1 /\ sent < MaxActions
        /\ UNCHANGED <<data, notices, fetched, waiting, succeeded, dead, faults>>
    BY <1>1 DEF TakeAction, game
  <2> QED
    BY <2>2, <2>3, <2>4, BoundsAssumption DEF TypeOK
<1>2. ASSUME NEW c \in Color, StoreGame(c)
      PROVE  Types'
  <2>1. write' = [write EXCEPT ![c] = [state |-> "stored", game |-> write[c].game]]
    BY <1>2, WriteMoves DEF StoreGame
  <2>2. notices' \in [Color -> 0 .. MaxNotices]
    BY <1>2, Colors, BoundsAssumption DEF StoreGame, TypeOK
  <2> QED
    BY <1>2, <2>1, <2>2 DEF StoreGame, TypeOK
<1>3. ASSUME NEW c \in Color, PreemptGame(c)
      PROVE  Types'
  <2>1. write' = [write EXCEPT ![c] = [state |-> "preempted", game |-> write[c].game]]
    BY <1>3, WriteMoves DEF PreemptGame
  <2> QED
    BY <1>3, <2>1 DEF PreemptGame, TypeOK
<1>4. ASSUME NEW c \in Color, FailWrite(c)
      PROVE  Types'
  <2>1. write' = [write EXCEPT ![c] = [state |-> "failed", game |-> write[c].game]]
    BY <1>4, WriteMoves DEF FailWrite
  <2>2. write[c].state # "none" /\ faults' \in 0 .. MaxFaults
    BY <1>4, BoundsAssumption DEF FailWrite, Fault, TypeOK
  <2> QED
    BY <1>4, <2>1, <2>2 DEF FailWrite, TypeOK
<1>5. ASSUME NEW c \in Color, AnswerSuccess(c)
      PROVE  Types'
  <2>1. Last(write[c].game) \in Action
    BY <1>5, LengthOfStack DEF AnswerSuccess, WriteSucceeded, TypeOK
  <2> QED
    BY <1>5, <1>0, <2>1 DEF AnswerSuccess, NoWrite, TypeOK
<1>6. ASSUME NEW c \in Color, AnswerFailure(c)
      PROVE  Types'
  BY <1>6, <1>0 DEF AnswerFailure, NoWrite, TypeOK
<1>7. ASSUME NEW c \in Color, FetchStatus(c)
      PROVE  Types'
  <2>1. notices' \in [Color -> 0 .. MaxNotices]
    BY <1>7, BoundsAssumption DEF FetchStatus, NoticePending, TypeOK
  <2> QED
    BY <1>7, <2>1 DEF FetchStatus, TypeOK
<1>8. ASSUME NEW c \in Color, DeliverStatus(c)
      PROVE  Types'
  BY <1>8 DEF DeliverStatus, TypeOK
<1>9. ASSUME NEW c \in Color, ReconnectListener(c)
      PROVE  Types'
  <2>1. PICK n \in SomeLostOneTriggered(c) :
            n <= MaxNotices /\ notices' = [notices EXCEPT ![c] = n]
    BY <1>9 DEF ReconnectListener
  <2>2. n \in 0 .. MaxNotices
    BY <2>1, BoundsAssumption DEF SomeLostOneTriggered, TypeOK
  <2>3. faults' \in 0 .. MaxFaults
    BY <1>9, BoundsAssumption DEF ReconnectListener, Fault, TypeOK
  <2> QED
    BY <1>9, <2>1, <2>2, <2>3 DEF ReconnectListener, TypeOK
<1>10. ASSUME NEW c \in Color, FailFetch(c)
       PROVE  Types'
  <2>1. notices' \in [Color -> 0 .. MaxNotices] /\ faults' \in 0 .. MaxFaults
    BY <1>10, BoundsAssumption DEF FailFetch, Fault, TypeOK
  <2> QED
    BY <1>10, <2>1 DEF FailFetch, TypeOK
<1>11. ASSUME NEW c \in Color, Restart(c)
       PROVE  Types'
  <2>1. faults' \in 0 .. MaxFaults /\ notices' \in [Color -> 0 .. MaxNotices]
    BY <1>11, BoundsAssumption DEF Restart, Fault, TypeOK
  <2> QED
    BY <1>11, <1>0, <2>1 DEF Restart, NoWrite, TypeOK
<1>12. CASE UNCHANGED vars
  BY <1>12 DEF vars, TypeOK
<1> QED
  BY <1>1, <1>2, <1>3, <1>4, <1>5, <1>6, <1>7, <1>8, <1>9, <1>10, <1>11, <1>12 DEF Next

-----------------------------------------------------------------------------

\* s has nothing that is not stored.
Stored(s) == s # NoGame => Begins(s, data)

\* What the consumer read is stored.
ReadsStored == \A c \in Color : Stored(fetched[c])

\* A patient player who may act has a copy without unstored actions.
CopiesStored ==
    \A c \in Color :
        write[c].state = "stored" \/ (write[c].state = "none" /\ c \notin waiting)
            => Stored(copy[c])

\* What is being written was a legal action on what was stored then.
WritesLegal ==
    \A c \in Color : write[c].state = "writing" =>
        /\ Begins(Before(write[c].game), data)
        /\ Legal(Before(write[c].game), Last(write[c].game).color, Last(write[c].game).kind)
        /\ copy[c] = write[c].game \/ Stored(copy[c])

\* What write_game returned success for is stored.
WrittenStored ==
    \A c \in Color : write[c].state = "stored" => Begins(write[c].game, data)

\* The inductive invariant.
LogInv ==
    /\ ReadsStored
    /\ CopiesStored
    /\ WritesLegal
    /\ WrittenStored
    /\ NoLostAction
    /\ StoredGameLegal

\* Stacks that agree up to n have the same beginning of n actions.
LEMMA BeginningOfAppended ==
    ASSUME NEW s \in Stack, NEW t \in Stack, NEW n \in Nat, n <= Len(s), n <= Len(t),
           \A i \in 1 .. n : s[i] = t[i]
    PROVE  SubSeq(s, 1, n) = SubSeq(t, 1, n)
<1>1. \A i \in 1 .. n : s[i] \in Action /\ t[i] \in Action
  BY LengthOfStack
<1>2. /\ SubSeq(s, 1, n) \in Seq(Action) /\ SubSeq(t, 1, n) \in Seq(Action)
      /\ Len(SubSeq(s, 1, n)) = Len(SubSeq(t, 1, n))
      /\ Len(SubSeq(s, 1, n)) = n
      /\ \A i \in 1 .. n - 1 + 1 : /\ SubSeq(s, 1, n)[i] = s[1 + i - 1]
                                  /\ SubSeq(t, 1, n)[i] = t[1 + i - 1]
  BY <1>1, SubSeqProperties
<1>3. \A i \in 1 .. n : SubSeq(s, 1, n)[i] = SubSeq(t, 1, n)[i]
  BY <1>2
<1> QED
  BY <1>2, <1>3, SeqEqual

\* It holds of a game that has just been made.
LEMMA InitLog == Init => LogInv
<1> SUFFICES ASSUME Init PROVE LogInv
  OBVIOUS
<1>1. Len(data) = 0
  BY DEF Init
<1> QED
  BY <1>1 DEF Init, NoWrite, LogInv, ReadsStored, CopiesStored, WritesLegal, WrittenStored,
     NoLostAction, StoredGameLegal, Stored

\* What is stored stays stored when the stored stack grows.
LEMMA StoredStays ==
    ASSUME Types, NEW a \in Action, data' = Append(data, a), NEW s \in Stack \cup {NoGame},
           Stored(s)
    PROVE  s # NoGame => Begins(s, data')
<1>1. data \in Stack /\ data' \in Stack /\ Begins(data, data')
  BY BeginningAppended DEF Types, TypeOK
<1> QED
  BY <1>1, BeginsTransitive DEF Stored

\* An action on a copy.
LEMMA TakeActionLog ==
    ASSUME Types, LogInv, PatientClients, NEW c \in Color, NEW kind \in Kind, TakeAction(c, kind)
    PROVE  LogInv'
<1> DEFINE a == [id |-> sent + 1, color |-> c, kind |-> kind]
           game == Append(copy[c], a)
<1>1. a \in Action /\ copy[c] \in Stack /\ a.color = c /\ a.kind = kind
  BY BoundsAssumption DEF TakeAction, Action, Types, TypeOK
<1>2. game \in Stack /\ Last(game) = a /\ Before(game) = copy[c]
  BY <1>1, BeginningAppended
<1>3. Begins(copy[c], data) /\ Legal(copy[c], c, kind)
  BY DEF TakeAction, LogInv, CopiesStored, Stored, Allowed
<1> HIDE DEF game, a
<1>4. /\ write'[c].state = "writing" /\ write'[c].game = game /\ copy'[c] = game
      /\ \A d \in Color \ {c} : write'[d] = write[d] /\ copy'[d] = copy[d]
      /\ UNCHANGED <<data, fetched, waiting, succeeded>>
  BY DEF TakeAction, Types, TypeOK, game, a
<1>5. ReadsStored' /\ NoLostAction' /\ StoredGameLegal'
  BY <1>4 DEF LogInv, ReadsStored, Stored, NoLostAction, StoredGameLegal
<1>6. CopiesStored' /\ WrittenStored'
  BY <1>4 DEF LogInv, CopiesStored, WrittenStored, Stored
<1>7. WritesLegal'
  BY <1>1, <1>2, <1>3, <1>4 DEF LogInv, WritesLegal, Stored
<1> QED
  BY <1>5, <1>6, <1>7 DEF LogInv

\* write_game finds the version it expects only if the stored stack is the one
\* the action was taken on, so it stores that action and nothing else.
LEMMA StoreGameAppends ==
    ASSUME Types, LogInv, NEW c \in Color, StoreGame(c)
    PROVE  /\ Last(write[c].game) \in Action
           /\ data' = Append(data, Last(write[c].game))
           /\ Legal(data, Last(write[c].game).color, Last(write[c].game).kind)
<1> DEFINE game == write[c].game
<1>1. game \in Stack /\ game # <<>> /\ data \in Stack
  BY DEF StoreGame, Types, TypeOK
<1>2. Len(data) = Len(game) - 1 /\ data' = game
  BY DEF StoreGame, VersionMatches
<1>3. /\ Begins(Before(game), data)
      /\ Legal(Before(game), Last(game).color, Last(game).kind)
  BY DEF StoreGame, LogInv, WritesLegal
<1>4. /\ Before(game) \in Stack /\ Len(Before(game)) = Len(game) - 1
      /\ game = Append(Before(game), Last(game)) /\ Last(game) \in Action
  BY <1>1, BeforeProperties, LengthOfStack
<1>5. Before(game) = data
  BY <1>1, <1>2, <1>3, <1>4, BeginsEqual
<1> QED
  BY <1>2, <1>3, <1>4, <1>5

\* A compare and set that succeeds.
LEMMA StoreGameLog ==
    ASSUME Types, Types', LogInv, NEW c \in Color, StoreGame(c)
    PROVE  LogInv'
<1> DEFINE a == Last(write[c].game)
<1>1. a \in Action /\ data' = Append(data, a) /\ Legal(data, a.color, a.kind)
  BY StoreGameAppends
<1>2. /\ data \in Stack /\ data' \in Stack /\ Len(data) \in Nat
      /\ Len(data') = Len(data) + 1 /\ data'[Len(data) + 1] = a
      /\ \A i \in 1 .. Len(data) : data'[i] = data[i]
  BY <1>1, AppendProperties, LengthOfStack DEF Types, TypeOK, Stack
<1> HIDE DEF a
<1>3. \A s \in Stack \cup {NoGame} : Stored(s) => Stored(s)'
  BY <1>1, StoredStays DEF Stored
<1>4. \A s \in Stack : Begins(s, data) => Begins(s, data')
  BY <1>1, <1>3, NoGameAssumption DEF Stored
<1>5. write' = [write EXCEPT ![c] = [state |-> "stored", game |-> write[c].game]]
  BY WriteMoves DEF StoreGame, Types
<1>6. /\ write'[c].state = "stored" /\ write'[c].game = data'
      /\ \A d \in Color \ {c} : write'[d] = write[d]
      /\ UNCHANGED <<copy, fetched, waiting, succeeded>>
  BY <1>5 DEF StoreGame, Types, TypeOK
<1>7. ReadsStored'
  BY <1>3, <1>6 DEF LogInv, ReadsStored, Types, TypeOK
<1>8. Stored(copy[c])'
  <2>1. copy[c] = data' \/ Stored(copy[c])
    BY DEF LogInv, WritesLegal, StoreGame
  <2>2. Begins(data, data') /\ Begins(data', data')
    BY <1>2, LengthOfStack DEF Begins
  <2> QED
    BY <1>3, <1>6, <2>1, <2>2 DEF Stored, Types, TypeOK
<1>9. CopiesStored'
  BY <1>3, <1>6, <1>8 DEF LogInv, CopiesStored, Types, TypeOK
<1>10. WritesLegal'
  <2>1. SUFFICES ASSUME NEW d \in Color, write'[d].state = "writing"
                 PROVE  /\ Begins(Before(write'[d].game), data')
                        /\ Legal(Before(write'[d].game), Last(write'[d].game).color,
                                 Last(write'[d].game).kind)
                        /\ copy'[d] = write'[d].game \/ Stored(copy[d])'
    BY DEF WritesLegal
  <2>2. d # c /\ write'[d] = write[d] /\ copy'[d] = copy[d]
    BY <1>6, <2>1
  <2>3. Before(write[d].game) \in Stack
    BY <2>1, <2>2, BeforeProperties DEF Types, TypeOK
  <2> QED
    BY <1>3, <1>4, <2>1, <2>2, <2>3 DEF LogInv, WritesLegal, Types, TypeOK
<1>11. WrittenStored'
  <2>1. Begins(data', data')
    BY <1>2, LengthOfStack DEF Begins
  <2> QED
    BY <1>4, <1>6, <2>1 DEF LogInv, WrittenStored, Types, TypeOK
<1>12. NoLostAction'
  <2>1. {data[i] : i \in 1 .. Len(data)} \subseteq {data'[i] : i \in 1 .. Len(data')}
    BY <1>2
  <2> QED
    BY <1>6, <2>1 DEF LogInv, NoLostAction
<1>13. StoredGameLegal'
  <2>1. SUFFICES ASSUME NEW i \in 1 .. Len(data')
                 PROVE  Legal(SubSeq(data', 1, i - 1), data'[i].color, data'[i].kind)
    BY DEF StoredGameLegal
  <2>2. SubSeq(data', 1, i - 1) = SubSeq(data, 1, i - 1)
    <3>1. i - 1 \in Nat /\ i - 1 <= Len(data) /\ i - 1 <= Len(data')
          /\ \A j \in 1 .. i - 1 : data'[j] = data[j]
      BY <1>2
    <3> QED
      BY <1>2, <3>1, BeginningOfAppended
  <2>3. CASE i = Len(data) + 1
    <3>1. SubSeq(data, 1, i - 1) = data
      BY <1>2, <2>3, SubSeqFull DEF Stack
    <3> QED
      BY <1>1, <1>2, <2>2, <2>3, <3>1
  <2>4. CASE i \in 1 .. Len(data)
    BY <1>2, <2>2, <2>4 DEF LogInv, StoredGameLegal
  <2> QED
    BY <1>2, <2>1, <2>3, <2>4
<1> QED
  BY <1>7, <1>9, <1>10, <1>11, <1>12, <1>13 DEF LogInv

\* The steps of write_game that store nothing.
LEMMA UnstoredWriteLog ==
    ASSUME Types, LogInv, NEW c \in Color, PreemptGame(c) \/ FailWrite(c)
    PROVE  LogInv'
<1>1. PICK st \in {"preempted", "failed"} :
        write' = [write EXCEPT ![c] = [state |-> st, game |-> write[c].game]]
  BY WriteMoves DEF PreemptGame, FailWrite, Types
<1>2. /\ write'[c].state \in {"preempted", "failed"}
      /\ \A d \in Color \ {c} : write'[d] = write[d]
      /\ UNCHANGED <<data, copy, fetched, waiting, succeeded>>
  BY <1>1 DEF PreemptGame, FailWrite, Types, TypeOK
<1> QED
  BY <1>2 DEF LogInv, ReadsStored, CopiesStored, WritesLegal, WrittenStored, NoLostAction,
     StoredGameLegal, Stored

\* The last action of what write_game stored is stored.
LEMMA StoredLast ==
    ASSUME Types, LogInv, NEW c \in Color, write[c].state = "stored"
    PROVE  /\ Last(write[c].game) \in Action
           /\ Last(write[c].game) \in {data[i] : i \in 1 .. Len(data)}
<1> DEFINE game == write[c].game
<1>1. /\ game \in Stack /\ Len(game) \in Nat /\ Len(game) >= 1 /\ Last(game) \in Action
      /\ Len(data) \in Nat
  BY LengthOfStack DEF Types, TypeOK
<1>2. Begins(game, data)
  BY DEF LogInv, WrittenStored
<1>3. Len(game) \in 1 .. Len(data) /\ data[Len(game)] = Last(game)
  BY <1>1, <1>2 DEF Begins, Last
<1> QED
  BY <1>1, <1>3

\* The author is told of an action that is stored.
LEMMA AnswerSuccessLog ==
    ASSUME Types, LogInv, NEW c \in Color, AnswerSuccess(c)
    PROVE  LogInv'
<1>1. /\ write'[c].state = "none" /\ write[c].state = "stored"
      /\ \A d \in Color \ {c} : write'[d] = write[d]
      /\ waiting' = waiting \ {c}
      /\ succeeded' = succeeded \cup {Last(write[c].game)}
      /\ UNCHANGED <<data, copy, fetched>>
  BY DEF AnswerSuccess, WriteSucceeded, NoWrite, Types, TypeOK
<1>2. ReadsStored' /\ WritesLegal' /\ WrittenStored' /\ StoredGameLegal'
  BY <1>1 DEF LogInv, ReadsStored, WritesLegal, WrittenStored, StoredGameLegal, Stored
<1>3. CopiesStored'
  BY <1>1 DEF LogInv, CopiesStored, Stored
<1>4. NoLostAction'
  <2>1. Last(write[c].game) \in {data[i] : i \in 1 .. Len(data)}
    BY <1>1, StoredLast
  <2> QED
    BY <1>1, <2>1 DEF LogInv, NoLostAction
<1> QED
  BY <1>2, <1>3, <1>4 DEF LogInv

\* The copy that keeps an action that was not stored belongs to a player who
\* now waits.
LEMMA AnswerFailureLog ==
    ASSUME Types, LogInv, NEW c \in Color, AnswerFailure(c)
    PROVE  LogInv'
<1>1. /\ write'[c].state = "none" /\ waiting' = waiting \cup {c}
      /\ \A d \in Color \ {c} : write'[d] = write[d]
      /\ UNCHANGED <<data, copy, fetched, succeeded>>
  BY DEF AnswerFailure, NoWrite, Types, TypeOK
<1> QED
  BY <1>1 DEF LogInv, ReadsStored, CopiesStored, WritesLegal, WrittenStored, NoLostAction,
     StoredGameLegal, Stored

\* Reading a status.
LEMMA FetchStatusLog ==
    ASSUME Types, LogInv, NEW c \in Color, FetchStatus(c)
    PROVE  LogInv'
<1>1. Begins(data, data)
  BY LengthOfStack DEF Begins, Types, TypeOK
<1>2. UNCHANGED <<data, copy, write, waiting, succeeded>>
  BY DEF FetchStatus
<1>3. ReadsStored'
  BY <1>1, <1>2 DEF FetchStatus, LogInv, ReadsStored, Stored, Types, TypeOK
<1> QED
  BY <1>2, <1>3 DEF LogInv, CopiesStored, WritesLegal, WrittenStored, NoLostAction,
     StoredGameLegal, Stored

\* A status replaces the copy by what is stored, also while an action taken on
\* the copy is being written.
LEMMA DeliverStatusLog ==
    ASSUME Types, LogInv, NEW c \in Color, DeliverStatus(c)
    PROVE  LogInv'
<1>1. /\ copy'[c] = fetched[c] /\ fetched'[c] = NoGame
      /\ \A d \in Color \ {c} : copy'[d] = copy[d] /\ fetched'[d] = fetched[d]
      /\ waiting' = waiting \ {c}
      /\ UNCHANGED <<data, write, succeeded>>
  BY DEF DeliverStatus, Types, TypeOK
<1>2. Stored(fetched[c])
  BY DEF LogInv, ReadsStored
<1>3. ReadsStored' /\ CopiesStored'
  BY <1>1, <1>2 DEF LogInv, ReadsStored, CopiesStored, Stored
<1>4. WritesLegal'
  BY <1>1, <1>2 DEF LogInv, WritesLegal, Stored
<1> QED
  BY <1>1, <1>3, <1>4 DEF LogInv, WrittenStored, NoLostAction, StoredGameLegal

\* A restart of a server.
LEMMA RestartLog ==
    ASSUME Types, LogInv, NEW c \in Color, Restart(c)
    PROVE  LogInv'
<1>1. /\ copy'[c] = NoGame /\ fetched'[c] = NoGame /\ write'[c].state = "none"
      /\ \A d \in Color \ {c} : /\ copy'[d] = copy[d] /\ fetched'[d] = fetched[d]
                              /\ write'[d] = write[d] /\ (d \in waiting' <=> d \in waiting)
      /\ UNCHANGED <<data, succeeded>>
  BY DEF Restart, NoWrite, Types, TypeOK
<1>2. ReadsStored' /\ CopiesStored'
  BY <1>1 DEF LogInv, ReadsStored, CopiesStored, Stored
<1>3. WritesLegal' /\ WrittenStored'
  BY <1>1 DEF LogInv, WritesLegal, WrittenStored, Stored
<1> QED
  BY <1>1, <1>2, <1>3 DEF LogInv, NoLostAction, StoredGameLegal

\* No step disturbs it, while every client waits for its answer.
LEMMA NextLog ==
    ASSUME Types, Types', LogInv, PatientClients, [Next]_vars
    PROVE  LogInv'
<1>1. ASSUME NEW c \in Color, NEW kind \in Kind, TakeAction(c, kind)
      PROVE  LogInv'
  BY <1>1, TakeActionLog
<1>2. ASSUME NEW c \in Color, StoreGame(c)
      PROVE  LogInv'
  BY <1>2, StoreGameLog
<1>3. ASSUME NEW c \in Color, PreemptGame(c) \/ FailWrite(c)
      PROVE  LogInv'
  BY <1>3, UnstoredWriteLog
<1>4. ASSUME NEW c \in Color, AnswerSuccess(c)
      PROVE  LogInv'
  BY <1>4, AnswerSuccessLog
<1>5. ASSUME NEW c \in Color, AnswerFailure(c)
      PROVE  LogInv'
  BY <1>5, AnswerFailureLog
<1>6. ASSUME NEW c \in Color, FetchStatus(c)
      PROVE  LogInv'
  BY <1>6, FetchStatusLog
<1>7. ASSUME NEW c \in Color, DeliverStatus(c)
      PROVE  LogInv'
  BY <1>7, DeliverStatusLog
<1>8. ASSUME NEW c \in Color, ReconnectListener(c) \/ FailFetch(c)
      PROVE  LogInv'
  <2>1. UNCHANGED <<data, copy, write, fetched, waiting, succeeded>>
    BY <1>8 DEF ReconnectListener, FailFetch
  <2> QED
    BY <2>1 DEF LogInv, ReadsStored, CopiesStored, WritesLegal, WrittenStored, NoLostAction,
       StoredGameLegal, Stored
<1>9. ASSUME NEW c \in Color, Restart(c)
      PROVE  LogInv'
  BY <1>9, RestartLog
<1>10. CASE UNCHANGED vars
  BY <1>10 DEF vars, LogInv, ReadsStored, CopiesStored, WritesLegal, WrittenStored, NoLostAction,
     StoredGameLegal, Stored
<1> QED
  BY <1>1, <1>2, <1>3, <1>4, <1>5, <1>6, <1>7, <1>8, <1>9, <1>10 DEF Next

-----------------------------------------------------------------------------
(***************************************************************************)
(* The theorems.                                                           *)
(***************************************************************************)
\* The stored game, the copies, what is being written and what was read are
\* action stacks, and the counts stay within their bounds; also of players
\* who do not wait for a status.
THEOREM TypeCorrect == Spec => []TypeOK
<1>1. Spec => []Types
  BY InitTypes, NextTypes, PTL DEF Spec
<1> QED
  BY <1>1, PTL DEF Types

\* So it holds in every state.
LEMMA Inductive ==
    ASSUME PatientClients
    PROVE  Spec => [](Types /\ LogInv)
<1>1. Init => Types /\ LogInv
  BY InitTypes, InitLog
<1>2. Types /\ LogInv /\ [Next]_vars => (Types /\ LogInv)'
  BY NextTypes, NextLog
<1> QED
  BY <1>1, <1>2, PTL DEF Spec

\* No action whose author was told of success is missing from the stored
\* game, whatever faults there are and however the two servers' writes and
\* updates cross.
THEOREM NoActionLost ==
    ASSUME PatientClients
    PROVE  Spec => []NoLostAction
BY Inductive, PTL DEF LogInv

\* Each stored action was legal after those before it, although the rules are
\* applied to a copy and the compare and set looks at the version only.
THEOREM StoredGameIsLegal ==
    ASSUME PatientClients
    PROVE  Spec => []StoredGameLegal
BY Inductive, PTL DEF LogInv

\* A step appends one action to the stored game, or tells an author that a
\* stored action succeeded, or does nothing that GameLog speaks of.
LEMMA StepOfLog ==
    ASSUME Types, LogInv, [Next]_vars
    PROVE  [Log!Next]_(Log!vars)
<1> USE DEF Log!Next, Log!vars, Log!Extend, Log!Acknowledge, Log!Entries
<1>1. ASSUME NEW c \in Color, StoreGame(c)
      PROVE  [Log!Next]_(Log!vars)
  <2>1. UNCHANGED succeeded
    BY <1>1 DEF StoreGame
  <2> QED
    BY <1>1, <2>1, StoreGameAppends
<1>2. ASSUME NEW c \in Color, AnswerSuccess(c)
      PROVE  [Log!Next]_(Log!vars)
  <2>1. /\ write[c].state = "stored" /\ UNCHANGED data
        /\ succeeded' = succeeded \cup {Last(write[c].game)}
    BY <1>2 DEF AnswerSuccess, WriteSucceeded
  <2>2. Last(write[c].game) \in Action /\ Last(write[c].game) \in {data[i] : i \in 1 .. Len(data)}
    BY <2>1, StoredLast
  <2> QED
    BY <2>1, <2>2
<1>3. CASE UNCHANGED <<data, succeeded>>
  BY <1>3
<1>4. ASSUME NEW c \in Color,
             \/ \E kind \in Kind : TakeAction(c, kind)
             \/ PreemptGame(c) \/ FailWrite(c) \/ AnswerFailure(c) \/ FetchStatus(c)
             \/ DeliverStatus(c) \/ ReconnectListener(c) \/ FailFetch(c) \/ Restart(c)
      PROVE  UNCHANGED <<data, succeeded>>
  BY <1>4 DEF TakeAction, PreemptGame, FailWrite, AnswerFailure, FetchStatus, DeliverStatus,
     ReconnectListener, FailFetch, Restart
<1>5. CASE UNCHANGED vars
  BY <1>3, <1>5 DEF vars
<1> QED
  BY <1>1, <1>2, <1>3, <1>4, <1>5 DEF Next

\* With patient players, the rows and the copies together are one list of
\* actions that only grows at its end, and that keeps every action its author
\* was told of.
THEOREM CopiesImplementLog ==
    ASSUME PatientClients
    PROVE  Spec => ImplementsLog
<1>1. Init => Log!Init
  BY DEF Init, Log!Init
<1>2. Types /\ LogInv /\ [Next]_vars => [Log!Next]_(Log!vars)
  BY StepOfLog
<1> QED
  BY <1>1, <1>2, Inductive, PTL DEF Spec, ImplementsLog, Log!Spec

-----------------------------------------------------------------------------
(***************************************************************************)
(* What has reached a player's server.                                     *)
(***************************************************************************)
\* s has the stored actions of colour d, each at its place.
HasAll(s, d) ==
    /\ s # NoGame
    /\ \A i \in 1 .. Len(data) : data[i].color = d => i <= Len(s) /\ s[i] = data[i]

\* The copy of c, or what replaces it in the step that is next.
Seen(c) == IF fetched[c] = NoGame THEN copy[c] ELSE fetched[c]

\* Each player writes actions of its own, and with no notice on its way to a
\* server, what that server has read or has is complete.
SeenInv ==
    \A c \in Color :
        /\ write[c].state = "writing" => Last(write[c].game).color = c
        /\ c \notin dead /\ notices[c] = 0 => HasAll(Seen(c), inverse(c))

\* At first a notice is on its way to each server.
LEMMA InitSeen == Init => SeenInv
BY DEF Init, SeenInv, NoWrite

\* An action on a copy leaves what it has.
LEMMA TakeActionSeen ==
    ASSUME Types, SeenInv, NEW c \in Color, NEW kind \in Kind, TakeAction(c, kind)
    PROVE  SeenInv'
<1> DEFINE a == [id |-> sent + 1, color |-> c, kind |-> kind]
           game == Append(copy[c], a)
<1>1. a \in Action /\ copy[c] \in Stack /\ a.color = c
  BY BoundsAssumption DEF TakeAction, Action, Types, TypeOK
<1>2. /\ game \in Stack /\ Last(game) = a /\ Begins(copy[c], game) /\ game # NoGame
      /\ Len(copy[c]) \in Nat /\ Len(game) = Len(copy[c]) + 1
  BY <1>1, BeginningAppended, LengthOfStack, NoGameAssumption
<1> HIDE DEF game, a
<1>3. /\ write'[c].game = game /\ copy'[c] = game
      /\ \A d \in Color \ {c} : write'[d] = write[d] /\ copy'[d] = copy[d]
      /\ UNCHANGED <<data, fetched, notices, dead>>
  BY DEF TakeAction, Types, TypeOK, game, a
<1>4. \A d \in Color : write'[d].state = "writing" => Last(write'[d].game).color = d
  BY <1>1, <1>2, <1>3 DEF SeenInv
<1>5. ASSUME NEW d \in Color, d \notin dead', notices'[d] = 0
      PROVE  HasAll(Seen(d), inverse(d))'
  <2>1. CASE d # c \/ fetched[d] # NoGame
    BY <1>3, <1>5, <2>1 DEF SeenInv, HasAll, Seen
  <2>2. CASE d = c /\ fetched[c] = NoGame
    <3>1. HasAll(copy[c], inverse(c))
      BY <1>3, <1>5, <2>2 DEF SeenInv, Seen
    <3>2. \A i \in 1 .. Len(data) : data[i].color = inverse(c) => i <= Len(game) /\ game[i] = data[i]
      <4> TAKE i \in 1 .. Len(data)
      <4> HAVE data[i].color = inverse(c)
      <4>1. i <= Len(copy[c]) /\ copy[c][i] = data[i] /\ i >= 1 /\ i \in Int
        BY <3>1, LengthOfStack DEF HasAll, Types, TypeOK
      <4> QED
        BY <1>2, <4>1 DEF Begins
    <3> QED
      BY <1>2, <1>3, <2>2, <3>2 DEF HasAll, Seen
  <2> QED
    BY <2>1, <2>2
<1> QED
  BY <1>4, <1>5 DEF SeenInv

\* The author of what is stored has it, and the opponent is notified.
LEMMA StoreGameSeen ==
    ASSUME Types, LogInv, SeenInv, NEW c \in Color, StoreGame(c)
    PROVE  SeenInv'
<1> DEFINE a == Last(write[c].game)
<1>1. a \in Action /\ data' = Append(data, a) /\ a.color = c
  BY StoreGameAppends DEF StoreGame, SeenInv
<1>2. /\ data \in Stack /\ Len(data) \in Nat
      /\ Len(data') = Len(data) + 1 /\ data'[Len(data) + 1] = a
      /\ \A i \in 1 .. Len(data) : data'[i] = data[i]
  BY <1>1, AppendProperties, LengthOfStack DEF Types, TypeOK, Stack
<1> HIDE DEF a
<1>3. write' = [write EXCEPT ![c] = [state |-> "stored", game |-> write[c].game]]
  BY WriteMoves DEF StoreGame, Types
<1>4. /\ write'[c].state = "stored" /\ \A d \in Color \ {c} : write'[d] = write[d]
      /\ UNCHANGED <<copy, fetched, dead>>
      /\ notices'[inverse(c)] > 0 /\ notices'[c] = notices[c]
  BY <1>3, Colors DEF StoreGame, Types, TypeOK
<1>5. HasAll(Seen(c), inverse(c)) => HasAll(Seen(c), inverse(c))'
  <2>1. data'[Len(data) + 1].color # inverse(c)
    BY <1>1, <1>2, Colors
  <2>2. \A i \in 1 .. Len(data') : data'[i].color = inverse(c) =>
            i \in 1 .. Len(data) /\ data'[i] = data[i]
    BY <1>2, <2>1
  <2> QED
    BY <1>4, <2>2 DEF HasAll, Seen
<1>6. \A d \in Color : d = c \/ d = inverse(c)
  BY DEF Color, inverse
<1> QED
  BY <1>4, <1>5, <1>6 DEF SeenInv

\* No step disturbs it.
LEMMA NextSeen ==
    ASSUME Types, LogInv, SeenInv, [Next]_vars
    PROVE  SeenInv'
<1>1. ASSUME NEW c \in Color, NEW kind \in Kind, TakeAction(c, kind)
      PROVE  SeenInv'
  BY <1>1, TakeActionSeen
<1>2. ASSUME NEW c \in Color, StoreGame(c)
      PROVE  SeenInv'
  BY <1>2, StoreGameSeen
<1>3. ASSUME NEW c \in Color,
             PreemptGame(c) \/ FailWrite(c) \/ AnswerSuccess(c) \/ AnswerFailure(c)
      PROVE  SeenInv'
  <2>1. /\ UNCHANGED <<data, copy, fetched, notices, dead>> /\ write'[c].state # "writing"
        /\ \A d \in Color \ {c} : write'[d] = write[d]
    BY <1>3, WriteMoves
       DEF PreemptGame, FailWrite, AnswerSuccess, AnswerFailure, NoWrite, Types, TypeOK
  <2> QED
    BY <2>1 DEF SeenInv, HasAll, Seen
<1>4. ASSUME NEW c \in Color, FetchStatus(c) \/ DeliverStatus(c)
      PROVE  SeenInv'
  <2>1. /\ UNCHANGED <<data, write, dead>>
        /\ \A d \in Color \ {c} : /\ copy'[d] = copy[d] /\ fetched'[d] = fetched[d]
                                /\ notices'[d] = notices[d]
    BY <1>4 DEF FetchStatus, DeliverStatus, Types, TypeOK
  <2>2. CASE FetchStatus(c)
    <3>1. fetched'[c] = data /\ data # NoGame
      BY <2>2, NoGameAssumption DEF FetchStatus, Types, TypeOK
    <3>2. HasAll(Seen(c), inverse(c))'
      BY <2>1, <3>1, LengthOfStack DEF HasAll, Seen, Types, TypeOK
    <3> QED
      BY <2>1, <3>2 DEF SeenInv, HasAll, Seen
  <2>3. CASE DeliverStatus(c)
    <3>1. /\ fetched[c] # NoGame /\ fetched'[c] = NoGame /\ copy'[c] = fetched[c]
          /\ notices' = notices
      BY <2>3 DEF DeliverStatus, Types, TypeOK
    <3> QED
      BY <2>1, <3>1 DEF SeenInv, HasAll, Seen
  <2> QED
    BY <1>4, <2>2, <2>3
<1>5. ASSUME NEW c \in Color, ReconnectListener(c) \/ Restart(c) \/ FailFetch(c)
      PROVE  SeenInv'
  <2>1. /\ data' = data
        /\ c \in dead' \/ notices'[c] > 0
        /\ write'[c] = write[c] \/ write'[c].state = "none"
        /\ \A d \in Color \ {c} : /\ copy'[d] = copy[d] /\ fetched'[d] = fetched[d]
                                /\ notices'[d] = notices[d] /\ write'[d] = write[d]
                                /\ (d \in dead' <=> d \in dead)
    BY <1>5 DEF ReconnectListener, SomeLostOneTriggered, Restart, FailFetch, NoWrite, Types, TypeOK
  <2> QED
    BY <2>1 DEF SeenInv, HasAll, Seen
<1>6. CASE UNCHANGED vars
  BY <1>6 DEF vars, SeenInv, HasAll, Seen
<1> QED
  BY <1>1, <1>2, <1>3, <1>4, <1>5, <1>6 DEF Next

\* Every stored action has reached the opponent's copy when nothing is on its
\* way there any more, or the update consumer of that server has ended.
THEOREM StoredActionsReachCopies ==
    ASSUME PatientClients
    PROVE  Spec => []QuietCopiesComplete
<1>1. Init => SeenInv
  BY InitSeen
<1>2. Types /\ LogInv /\ SeenInv /\ [Next]_vars => SeenInv'
  BY NextSeen
<1>3. SeenInv => QuietCopiesComplete
  BY DEF SeenInv, QuietCopiesComplete, Quiet, HasAll, Seen
<1> QED
  BY <1>1, <1>2, <1>3, Inductive, PTL DEF Spec
=============================================================================
