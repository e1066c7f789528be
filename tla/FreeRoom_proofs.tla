-------------------------- MODULE FreeRoom_proofs --------------------------
(***************************************************************************)
(* Theorems about a free room, for every number of clients, seats and      *)
(* words and every rule by which slices grow.                              *)
(*                                                                         *)
(* What has to be seen is that Create's append, which works on the join    *)
(* order as it was read, whatever joined since, stores nobody who has no   *)
(* entry in the map of players: what was read is still the beginning of    *)
(* the order, which only grows until Create writes it back.  And that the  *)
(* points of a player are the sum over its words at every moment, the ones *)
(* at which Create or a join makes a fresh entry included.                 *)
(***************************************************************************)
EXTENDS FreeRoom, Data_proofs

\* The leader changes only with the join order or the scores.
LEMMA LeaderStands ==
  ASSUME UNCHANGED <<order, score>>
  PROVE  Leader' = Leader
BY DEF Leader, RanksAhead, Position

\* Where Create is, and what it can rely on there.
Seated ==
  /\ creating = "idle" <=> state = "none"
  /\ creating = "idle" => ~listed /\ players = {}
  /\ creating # "idle" => host \in Ids
  /\ creating \notin {"idle", "seat"} => host \in players
  /\ IsFiniteSet(players)

\* The order only grows between Create's read of it and its write.
Grows ==
  creating = "append" =>
    /\ Len(seen) <= Len(order)
    /\ \A i \in 1..Len(seen) : seen[i] = order[i]

Inv == TypeOK /\ RankedPlayersExist /\ Seated /\ Grows

\* The join order stands still or grows by an id that comes into the map with it; all other
\* changes of the order are Create's.
Quiet ==
  /\ UNCHANGED <<creating, seen, host, listed>>
  /\ RoomTypeOK'
  /\ state' = "none" <=> state = "none"
  /\ \/ UNCHANGED <<players, order>>
     \/ /\ listed
        /\ \E id \in Ids : players' = players \cup {id} /\ order' = Append(order, id)

\* Two sequences are as long as each other, or the longer one has one more.
LEMMA PrefixIsEqual ==
  ASSUME NEW s \in Seq(Ids), NEW t \in Seq(Ids), Len(s) = Len(t),
         \A i \in 1..Len(s) : s[i] = t[i]
  PROVE  s = t
OBVIOUS

\* A room that was not created has the right types, and nobody in it.
LEMMA InitInv == Init => Inv
<1> SUFFICES ASSUME Init PROVE Inv
  OBVIOUS
<1> USE RoomAssumption DEF Init, RoomInit
<1>1. TypeOK
  <2>1. <<>> \in Seq(Ids) /\ 0 \in 0..MaxNow
    OBVIOUS
  <2>2. RoomTypeOK
    BY <2>1 DEF RoomTypeOK
  <2> QED
    BY <2>1, <2>2 DEF TypeOK
<1>2. RankedPlayersExist
  BY DEF RankedPlayersExist, Range
<1>3. Seated
  BY FS_EmptySet DEF Seated
<1> QED
  BY <1>1, <1>2, <1>3 DEF Inv, Grows

\* What clients and the clock do leaves Create alone.
LEMMA StepIsQuiet ==
  ASSUME Inv, Next
  PROVE  \/ Quiet
         \/ \E id \in Ids : Create(id)
         \/ SeatHost \/ ReadOrder \/ AppendHost \/ CreateReply
<1> USE DEF Inv, TypeOK, RoomTypeOK
<1>1. ASSUME NEW id \in Ids, Join(id)
      PROVE  Quiet
  <2>1. CASE TakeSeat(id)
    <3>1. /\ order' = Append(order, id) /\ players' = players \cup {id}
          /\ score' = [score EXCEPT ![id] = 0] /\ found' = [found EXCEPT ![id] = {}]
          /\ UNCHANGED <<now, creating, seen, listed, state, host, letters, endsAt>> /\ listed
      BY <1>1, <2>1 DEF Join, TakeSeat, AddPlayer
    <3> QED
      BY <3>1 DEF Quiet
  <2>2. CASE Rejoin(id)
    BY <1>1, <2>2 DEF Join, Rejoin, MaybeFinish, StateNow, Expired, Quiet
  <2> QED
    BY <1>1, <2>1, <2>2 DEF Join
<1>2. ASSUME NEW id \in Ids, Start(id)
      PROVE  Quiet
  BY <1>2, RoomAssumption DEF Start, StartRace, Quiet
<1>3. ASSUME NEW id \in Ids, NEW raw \in Inputs, Submit(id, raw)
      PROVE  Quiet
  <2>1. CASE SubmitAccepted(id, raw)
    BY <1>3, <2>1, RoomAssumption DEF Submit, SubmitAccepted, Accepted, StateNow, Expired, Quiet
  <2>2. CASE SubmitRefused(id, raw)
    BY <1>3, <2>2 DEF Submit, SubmitRefused, MaybeFinish, StateNow, Expired, Quiet
  <2> QED
    BY <1>3, <2>1, <2>2 DEF Submit
<1>4. CASE Poll
  BY <1>4 DEF Poll, Get, MaybeFinish, StateNow, Expired, Quiet
<1>5. CASE ClockTick
  BY <1>5, RoomAssumption DEF ClockTick, Tick, roomVars, Quiet
<1> QED
  BY <1>1, <1>2, <1>3, <1>4, <1>5 DEF Next

\* What was read is still the beginning of the order when clients go on.
LEMMA QuietKeepsInv ==
  ASSUME Inv, Quiet
  PROVE  Inv'
<1> USE DEF Inv, TypeOK, RoomTypeOK
<1>1. TypeOK'
  BY DEF Quiet
<1>2. Seated'
  <2>1. IsFiniteSet(players')
    <3>1. IsFiniteSet(players)
      BY DEF Seated
    <3>2. players' = players \/ \E id \in Ids : players' = players \cup {id}
      BY DEF Quiet
    <3> HIDE DEF Inv
    <3> QED
      BY <3>1, <3>2, FS_AddElement
  <2>2. creating = "idle" => players' = players
    BY DEF Quiet, Seated
  <2>3. players \subseteq players'
    BY DEF Quiet
  <2> QED
    BY <2>1, <2>2, <2>3 DEF Quiet, Seated
<1>3. CASE UNCHANGED <<players, order>>
  BY <1>1, <1>2, <1>3 DEF Quiet, RankedPlayersExist, Grows, Range
<1>4. ASSUME NEW id \in Ids, players' = players \cup {id}, order' = Append(order, id)
      PROVE  RankedPlayersExist' /\ Grows'
  <2>1. /\ Len(order') = Len(order) + 1 /\ DOMAIN order' = 1..(Len(order) + 1)
        /\ \A i \in 1..Len(order) : order'[i] = order[i]
        /\ order'[Len(order) + 1] = id /\ DOMAIN order = 1..Len(order) /\ Len(order) \in Nat
    BY <1>4
  <2>2. RankedPlayersExist'
    BY <1>4, <2>1 DEF RankedPlayersExist, Range
  <2>3. Grows'
    BY <2>1 DEF Grows, Quiet
  <2> QED
    BY <2>2, <2>3
<1> QED
  BY <1>1, <1>2, <1>3, <1>4 DEF Quiet

\* The append stores, in each of the ways it may end, ids from the map of players.
LEMMA AppendStores ==
  ASSUME Inv, AppendHost
  PROVE  order' \in Seq(Ids) /\ Range(order') \subseteq players
<1> DEFINE slot == Len(seen) + 1
<1>1. /\ seen \in Seq(Ids) /\ order \in Seq(Ids) /\ host \in Ids /\ host \in players
      /\ \A i \in DOMAIN order : order[i] \in players
      /\ Len(seen) \in Nat /\ Len(order) \in Nat /\ DOMAIN order = 1..Len(order)
      /\ Len(seen) <= Len(order) /\ \A i \in 1..Len(seen) : seen[i] = order[i]
  BY DEF Inv, TypeOK, RoomTypeOK, RankedPlayersExist, Seated, Grows, AppendHost, Range
<1>2. CASE order' = Append(seen, host)
  <2>1. /\ order' \in Seq(Ids) /\ DOMAIN order' = 1..slot
        /\ \A i \in 1..Len(seen) : order'[i] = seen[i]
        /\ order'[slot] = host
    BY <1>1, <1>2
  <2>2. \A i \in 1..slot : i \in 1..Len(seen) \/ i = slot
    BY <1>1
  <2> QED
    BY <1>1, <2>1, <2>2 DEF Range
<1>3. CASE order' = order
  BY <1>1, <1>3 DEF Range
<1>4. ASSUME order # seen, order' \in {SubSeq(order, 1, slot), [order EXCEPT ![slot] = host]}
      PROVE  order' \in Seq(Ids) /\ Range(order') \subseteq players
  <2>1. slot \in 1..Len(order)
    BY <1>1, <1>4, PrefixIsEqual
  <2>2. CASE order' = SubSeq(order, 1, slot)
    <3>1. /\ order' \in Seq(Ids) /\ DOMAIN order' = 1..slot
          /\ \A i \in 1..slot : order'[i] = order[i]
      BY <1>1, <2>1, <2>2
    <3> QED
      BY <1>1, <2>1, <3>1 DEF Range
  <2>3. CASE order' = [order EXCEPT ![slot] = host]
    <3>1. /\ order' \in Seq(Ids) /\ DOMAIN order' = DOMAIN order
          /\ \A i \in DOMAIN order : order'[i] \in {order[i], host}
      BY <1>1, <2>1, <2>3
    <3> QED
      BY <1>1, <3>1 DEF Range
  <2> QED
    BY <1>4, <2>2, <2>3
<1> QED
  BY <1>2, <1>3, <1>4 DEF AppendHost

\* The invariant is inductive.
LEMMA NextInv ==
  ASSUME Inv, [Next]_freeVars
  PROVE  Inv'
<1> USE DEF Inv, TypeOK, RoomTypeOK
<1>1. CASE UNCHANGED freeVars
  BY <1>1 DEF freeVars, roomVars, RankedPlayersExist, Seated, Grows, Range
<1>2. ASSUME NEW id \in Ids, Create(id)
      PROVE  Inv'
  BY <1>2 DEF Create, Publish, RankedPlayersExist, Seated, Grows, Range
<1>3. CASE SeatHost
  <2>1. host \in Ids /\ IsFiniteSet(players')
    BY <1>3, FS_AddElement DEF SeatHost, Seated
  <2> QED
    BY <1>3, <2>1 DEF SeatHost, RankedPlayersExist, Seated, Grows, Range
<1>4. CASE ReadOrder
  BY <1>4 DEF ReadOrder, roomVars, RankedPlayersExist, Seated, Grows, Range
<1>5. CASE AppendHost
  <2>1. order' \in Seq(Ids) /\ Range(order') \subseteq players
    BY <1>5, AppendStores
  <2>2. /\ creating' = "reply" /\ creating = "append"
        /\ UNCHANGED <<now, listed, state, host, players, score, found, letters, endsAt, seen>>
    BY <1>5 DEF AppendHost
  <2> QED
    BY <2>1, <2>2 DEF RankedPlayersExist, Seated, Grows, Range
<1>6. CASE CreateReply
  BY <1>6 DEF CreateReply, MaybeFinish, StateNow, Expired, RankedPlayersExist, Seated, Grows,
    Range
<1> QED
  BY <1>1, <1>2, <1>3, <1>4, <1>5, <1>6, StepIsQuiet, QuietKeepsInv

\* Create can rely on what it has read, and its host is in the map from its first write on.
THEOREM Invariance == Spec => []Inv
<1> QED
  BY InitInv, NextInv, PTL DEF Spec

\* The variables keep their types, though slices may share an array.
THEOREM TypeCorrect == Spec => []TypeOK
<1>1. Inv => TypeOK
  BY DEF Inv
<1> QED
  BY <1>1, Invariance, PTL

\* The ranking finds the entry of every id in the join order (rankedIDsLocked).
THEOREM RankedExist == Spec => []RankedPlayersExist
<1>1. Inv => RankedPlayersExist
  BY DEF Inv
<1> QED
  BY <1>1, Invariance, PTL

\* A full room takes in nobody but its host, whom Create seats without looking (Join).
THEOREM SeatsRespected == Spec => JoinsRespectSeats
<1>1. ASSUME Inv, Next, Cardinality(players) >= MaxPlayers
      PROVE  players' \subseteq players \cup {host}
  <2>1. Cardinality(players) \in Nat /\ MaxPlayers \in Nat
    BY <1>1, RoomAssumption, FS_CardinalityType DEF Inv, Seated
  <2>2. ~(Cardinality(players) < MaxPlayers)
    BY <1>1, <2>1
  <2>3. CASE UNCHANGED players
    BY <2>3
  <2>4. CASE SeatHost
    BY <2>4 DEF SeatHost
  <2> QED
    BY <1>1, <2>2, <2>3, <2>4 DEF Next, Create, Publish, Join, TakeSeat, MayTakeSeat, Rejoin,
      Start, StartRace, Submit, SubmitAccepted, SubmitRefused, ReadOrder, AppendHost,
      CreateReply, Poll, Get, ClockTick, MaybeFinish, roomVars
<1>2. ASSUME Inv, [Next]_freeVars
      PROVE  [Cardinality(players) >= MaxPlayers =>
                players' \subseteq players \cup {host}]_freeVars
  BY <1>1, <1>2
<1> QED
  BY <1>2, Invariance, PTL DEF Spec, JoinsRespectSeats

\* What the clock has decided stands, before anybody has looked at the room (MaybeFinish).
THEOREM ResultsStand == Spec => ResultStands
<1>1. ASSUME Inv, Next, Over, creating = "done"
      PROVE  score' = score /\ found' = found /\ Leader' = Leader
  <2>1. state \in {"racing", "done"} /\ StateNow # "racing"
    BY <1>1 DEF Over, StateNow, Expired
  <2>2. UNCHANGED <<order, score, found>>
    BY <1>1, <2>1 DEF Next, Create, Join, TakeSeat, MayTakeSeat, Rejoin, Start, StartRace,
      Submit, SubmitAccepted, SubmitRefused, Accepted, SeatHost, ReadOrder, AppendHost, CreateReply,
      Poll, Get, ClockTick, MaybeFinish, roomVars
  <2> QED
    BY <2>2, LeaderStands
<1>2. ASSUME Inv, [Next]_freeVars
      PROVE  [Over /\ creating = "done" =>
                score' = score /\ found' = found /\ Leader' = Leader]_freeVars
  BY <1>1, <1>2
<1> QED
  BY <1>2, Invariance, PTL DEF Spec, ResultStands

-----------------------------------------------------------------------------
(* The points *)

\* A player has found finitely many words, and has what they are worth.
Counted == \A id \in Ids : IsFiniteSet(found[id]) /\ score[id] = WorthOf(found[id])

\* A fresh entry in the map of players has no words and no points.
LEMMA FreshEntry ==
  ASSUME TypeOK, Counted, NEW id \in Ids,
         score' = [score EXCEPT ![id] = 0], found' = [found EXCEPT ![id] = {}]
  PROVE  Counted'
<1>1. WorthOf({}) = 0
  BY RoomAssumption, SumOfNone DEF WorthOf
<1> QED
  BY <1>1, FS_EmptySet DEF TypeOK, RoomTypeOK, Counted, WorthOf

\* An accepted word was not found before, and adds what it is worth.
LEMMA AcceptedWord ==
  ASSUME TypeOK, Counted, NEW id \in Ids, NEW raw \in Inputs, SubmitAccepted(id, raw)
  PROVE  Counted'
<1> DEFINE w == Canon[raw]
<1>1. /\ w \in Words \ found[id] /\ found[id] \in SUBSET Words /\ IsFiniteSet(found[id])
      /\ found' = [found EXCEPT ![id] = found[id] \cup {w}]
      /\ score' = [score EXCEPT ![id] = score[id] + Points[w]]
      /\ score[id] = WorthOf(found[id])
  BY RoomAssumption DEF TypeOK, RoomTypeOK, Counted, SubmitAccepted, Accepted
<1>2. Points \in [Words -> Nat]
  BY RoomAssumption
<1>3. WorthOf(found[id] \cup {w}) = WorthOf(found[id]) + Points[w]
  <2> HIDE DEF w
  <2> QED
    BY <1>1, <1>2, SumAdd DEF WorthOf
<1>4. IsFiniteSet(found[id] \cup {w})
  BY <1>1, FS_AddElement
<1> HIDE DEF w
<1> QED
  BY <1>1, <1>3, <1>4 DEF TypeOK, RoomTypeOK, Counted, WorthOf

\* No other step touches the points or the words.
LEMMA NextCounted ==
  ASSUME Inv, Counted, [Next]_freeVars
  PROVE  Counted'
<1>1. TypeOK /\ (creating = "seat" => host \in Ids)
  BY DEF Inv, Seated
<1>2. ASSUME NEW id \in Ids, TakeSeat(id)
      PROVE  Counted'
  BY <1>1, <1>2, FreshEntry DEF TakeSeat, AddPlayer
<1>3. CASE SeatHost
  BY <1>1, <1>3, FreshEntry DEF SeatHost
<1>4. ASSUME NEW id \in Ids, NEW raw \in Inputs, SubmitAccepted(id, raw)
      PROVE  Counted'
  BY <1>1, <1>4, AcceptedWord
<1>5. CASE UNCHANGED <<score, found>>
  BY <1>5 DEF Counted, WorthOf
<1> QED
  BY <1>2, <1>3, <1>4, <1>5 DEF Next, Create, Publish, Join, Rejoin, Start, StartRace, Submit,
    SubmitRefused, ReadOrder, AppendHost, CreateReply, Poll, Get, ClockTick, MaybeFinish,
    roomVars, freeVars

\* The points of a player are what its words are worth, each counted once (Room.Submit),
\* whatever spellings were sent and whenever Create makes the host's entry anew.
THEOREM ScoresCount == Spec => []ScoreIsWorthOfFound
<1>1. Init => Counted
  <2> SUFFICES ASSUME Init PROVE Counted
    OBVIOUS
  <2>1. WorthOf({}) = 0
    BY RoomAssumption, SumOfNone DEF WorthOf
  <2> QED
    BY <2>1, FS_EmptySet DEF Init, RoomInit, Counted
<1>2. Inv /\ Counted /\ [Next]_freeVars => Counted'
  BY NextCounted
<1>3. Counted => ScoreIsWorthOfFound
  BY DEF Counted, ScoreIsWorthOfFound
<1> QED
  BY <1>1, <1>2, <1>3, Invariance, PTL DEF Spec
=============================================================================
