------------------------- MODULE StakedRoom_proofs -------------------------
(***************************************************************************)
(* Theorems about StakedRoom, for every set of players, wallets, words and *)
(* racks, every fee and rake, and every length of the race, the window and *)
(* the slack.                                                              *)
(*                                                                         *)
(* First come facts about Room, for every room: a join order without       *)
(* repetitions has a leader, and the operations keep the order's agreement *)
(* with the map of players.                                                *)
(*                                                                         *)
(* The argument about the settlement has two layers.  Basic says that the  *)
(* state is well typed, that a leader exists, and that a settlement in     *)
(* progress has chosen a winner with a wallet.  On top of it, Sound        *)
(* relates the clock, the round on chain, the timer and the progress of    *)
(* the settlement.                                                         *)
(*                                                                         *)
(* Last, StakedRoom implements WinnerTakesAll: each step is a step of the  *)
(* promise or leaves everything that it speaks of alone.  Beyond Sound     *)
(* this needs that the race has a deadline exactly when it was started and *)
(* that an id which is not seated has no points, for then Join, which sets *)
(* the points of a new player to 0, only enrols.                           *)
(***************************************************************************)
EXTENDS StakedRoom, Data_proofs, SequenceTheorems

-----------------------------------------------------------------------------
(* The room *)

\* No id has two places in the join order.
NoDuplicates == \A i, j \in DOMAIN order : order[i] = order[j] => i = j

\* In a join order without repetitions an id's position is its only place.
LEMMA PositionIsPlace ==
  ASSUME order \in Seq(Ids), NoDuplicates, NEW i \in DOMAIN order
  PROVE  Position(order[i]) = i
BY DEF Position, NoDuplicates

\* The greatest value of a finite row of numbers, first among equals, exists: by the
\* least length for which it would not.
LEMMA FirstGreatest ==
  ASSUME NEW n \in Nat \ {0}, NEW f \in [1..n -> Nat]
  PROVE  \E a \in 1..n : \A b \in 1..n : f[a] > f[b] \/ (f[a] = f[b] /\ a <= b)
<1> DEFINE Best(a, k) == \A b \in 1..k : f[a] > f[b] \/ (f[a] = f[b] /\ a <= b)
           Bad == {k \in 1..n : ~ \E a \in 1..k : Best(a, k)}
<1>1. SUFFICES ASSUME Bad # {} PROVE FALSE
  <2>1. n \in 1..n
    OBVIOUS
  <2>2. Bad = {} => \E a \in 1..n : Best(a, n)
    BY <2>1
  <2> QED
    BY <1>1, <2>2
<1>2. PICK k \in Bad : \A j \in Bad : k <= j
  <2>1. Bad \subseteq Nat
    OBVIOUS
  <2> HIDE DEF Bad
  <2> QED
    BY <1>1, <2>1, LeastNat
<1>3. k \in 1..n /\ \A a \in 1..k : ~Best(a, k)
  OBVIOUS
<1>4. k # 1
  BY <1>3
<1>5. PICK a \in 1..(k - 1) : Best(a, k - 1)
  <2>1. k - 1 \in 1..n /\ k - 1 < k
    BY <1>3, <1>4
  <2>2. k - 1 \notin Bad
    <3> HIDE DEF Bad
    <3> QED
      BY <1>2, <1>3, <2>1
  <2> QED
    BY <2>1, <2>2
<1>6. CASE f[a] >= f[k]
  <2>1. a \in 1..k /\ \A b \in 1..k : b = k \/ b \in 1..(k - 1)
    BY <1>3, <1>5
  <2>2. ASSUME NEW b \in 1..k
        PROVE  f[a] > f[b] \/ (f[a] = f[b] /\ a <= b)
    <3>1. CASE b = k
      <4>1. f[a] \in Nat /\ f[k] \in Nat /\ a <= k
        BY <1>3, <2>1
      <4> QED
        BY <1>6, <3>1, <4>1
    <3>2. CASE b \in 1..(k - 1)
      BY <1>5, <3>2
    <3> QED
      BY <2>1, <3>1, <3>2
  <2>3. Best(a, k)
    BY <2>2
  <2> QED
    BY <1>3, <2>1, <2>3
<1>7. CASE f[a] < f[k]
  <2>1. k \in 1..k /\ \A b \in 1..k : b = k \/ b \in 1..(k - 1)
    BY <1>3
  <2>2. ASSUME NEW b \in 1..k
        PROVE  f[k] > f[b] \/ (f[k] = f[b] /\ k <= b)
    <3>1. CASE b = k
      BY <1>3, <3>1
    <3>2. CASE b \in 1..(k - 1)
      BY <1>3, <1>5, <1>7, <3>2
    <3> QED
      BY <2>1, <3>1, <3>2
  <2>3. Best(k, k)
    BY <2>2
  <2> QED
    BY <1>3, <2>1, <2>3
<1> QED
  BY <1>3, <1>4, <1>6, <1>7

\* leaderLocked answers with a player of the room that ranks ahead of all others.
THEOREM LeaderRanksFirst ==
  ASSUME RoomTypeOK, NoDuplicates, order # <<>>
  PROVE  /\ Leader \in Range(order)
         /\ \A b \in Range(order) : RanksAhead(Leader, b)
<1>1. Len(order) \in Nat /\ Len(order) \in 1..Len(order) /\ DOMAIN order = 1..Len(order)
  BY EmptySeq DEF RoomTypeOK
<1>2. PICK a \in 1..Len(order) : \A b \in 1..Len(order) :
           \/ score[order[a]] > score[order[b]]
           \/ score[order[a]] = score[order[b]] /\ a <= b
  <2> DEFINE row == [i \in 1..Len(order) |-> score[order[i]]]
  <2>0. Len(order) \in Nat \ {0}
    BY <1>1
  <2>1. row \in [1..Len(order) -> Nat]
    BY <1>1 DEF RoomTypeOK
  <2>2. \E a \in 1..Len(order) : \A b \in 1..Len(order) :
          row[a] > row[b] \/ (row[a] = row[b] /\ a <= b)
    <3> HIDE DEF row
    <3> QED
      BY <2>0, <2>1, FirstGreatest, Zenon
  <2> QED
    BY <2>2
<1>3. \A b \in DOMAIN order : Position(order[b]) = b
  BY PositionIsPlace DEF RoomTypeOK
<1>4. \A b \in Range(order) : RanksAhead(order[a], b)
  BY <1>1, <1>2, <1>3 DEF Range, RanksAhead
<1>5. order[a] \in Range(order)
  BY <1>1 DEF Range
<1> QED
  BY <1>4, <1>5 DEF Leader

\* The leader changes only with the join order or the scores.
LEMMA LeaderStands ==
  ASSUME UNCHANGED <<order, score>>
  PROVE  Leader' = Leader
BY DEF Leader, RanksAhead, Position

-----------------------------------------------------------------------------

\* The join order lists the players, each once.
Roster == NoDuplicates /\ Range(order) = players

\* What any operation may do to the room; Create's error path is the last disjunct.
RoomStep ==
  \/ \E id \in Ids : Publish(id) \/ TakeSeat(id) \/ StartRace(id)
  \/ \E id \in Ids, raw \in Inputs : SubmitAccepted(id, raw)
  \/ MaybeFinish
  \/ /\ listed' = FALSE
     /\ UNCHANGED <<state, host, players, order, score, found, letters, endsAt>>
  \/ UNCHANGED roomVars

\* Appending an id that is not in the join order keeps its ids distinct.
LEMMA AppendNew ==
  ASSUME NEW s \in Seq(Ids), NEW id \in Ids \ Range(s),
         \A i, j \in DOMAIN s : s[i] = s[j] => i = j
  PROVE  /\ Append(s, id) \in Seq(Ids)
         /\ \A i, j \in DOMAIN Append(s, id) : Append(s, id)[i] = Append(s, id)[j] => i = j
         /\ Range(Append(s, id)) = Range(s) \cup {id}
<1> DEFINE t == Append(s, id)
<1>1. /\ Len(s) \in Nat /\ DOMAIN s = 1..Len(s)
      /\ t \in Seq(Ids) /\ DOMAIN t = 1..(Len(s) + 1)
      /\ \A i \in 1..Len(s) : t[i] = s[i]
      /\ t[Len(s) + 1] = id
  OBVIOUS
<1>2. \A i \in 1..Len(s) : s[i] # id
  BY <1>1 DEF Range
<1>3. \A i \in DOMAIN t : i \in 1..Len(s) \/ i = Len(s) + 1
  BY <1>1
<1> HIDE DEF t
<1>4. \A i, j \in DOMAIN t : t[i] = t[j] => i = j
  BY <1>1, <1>2, <1>3
<1>5. Range(t) = Range(s) \cup {id}
  BY <1>1, <1>3 DEF Range
<1> QED
  BY <1>1, <1>4, <1>5 DEF t

\* No operation gives the room a value of the wrong type, and none takes the join
\* order and the map of players apart: an id comes into both in one step, once.
THEOREM RoomStepKeepsRoster ==
  ASSUME RoomTypeOK, Roster, RoomStep, now' \in 0..MaxNow
  PROVE  RoomTypeOK' /\ Roster'
<1> USE DEF RoomTypeOK, Roster, NoDuplicates
<1>1. ASSUME NEW id \in Ids, Publish(id)
      PROVE  RoomTypeOK' /\ Roster'
  BY <1>1 DEF Publish, Range
<1>2. ASSUME NEW id \in Ids, TakeSeat(id)
      PROVE  RoomTypeOK' /\ Roster'
  <2>1. /\ order' = Append(order, id)
        /\ players' = players \cup {id}
        /\ id \in Ids \ Range(order)
    BY <1>2 DEF TakeSeat, MayTakeSeat, AddPlayer
  <2>2. /\ order' \in Seq(Ids)
        /\ NoDuplicates'
        /\ Range(order') = players'
    BY <2>1, AppendNew, Zenon
  <2>3. score' \in [Ids -> Nat] /\ found' \in [Ids -> SUBSET Words]
    BY <1>2 DEF TakeSeat, AddPlayer
  <2>4. UNCHANGED <<listed, state, host, letters, endsAt>>
    BY <1>2 DEF TakeSeat
  <2> QED
    BY <2>1, <2>2, <2>3, <2>4 DEF Range
<1>3. ASSUME NEW id \in Ids, StartRace(id)
      PROVE  RoomTypeOK' /\ Roster'
  BY <1>3, RoomAssumption DEF StartRace, Range
<1>4. ASSUME NEW id \in Ids, NEW raw \in Inputs, SubmitAccepted(id, raw)
      PROVE  RoomTypeOK' /\ Roster'
  BY <1>4, RoomAssumption DEF SubmitAccepted, Range
<1>5. CASE MaybeFinish
  BY <1>5 DEF MaybeFinish, StateNow, Range
<1>6. CASE /\ listed' = FALSE
           /\ UNCHANGED <<state, host, players, order, score, found, letters, endsAt>>
  BY <1>6 DEF Range
<1>7. CASE UNCHANGED roomVars
  BY <1>7 DEF roomVars, Range
<1> QED
  BY <1>1, <1>2, <1>3, <1>4, <1>5, <1>6, <1>7 DEF RoomStep

-----------------------------------------------------------------------------
(* The settlement *)

\* The house's share never exceeds the pot, so that the payout is an amount.
LEMMA ShareOfPot ==
  ASSUME NEW amount \in Nat
  PROVE  (amount * RakeBps) \div 10000 \in 0..amount
<1>1. RakeBps \in Nat /\ RakeBps <= 10000
  BY PoolAssumption
<1>2. amount * RakeBps \in Nat /\ amount * RakeBps <= amount * 10000
  <2>1. \E rest \in Nat : RakeBps + rest = 10000
    BY <1>1
  <2>2. PICK rest \in Nat : RakeBps + rest = 10000
    BY <2>1
  <2>3. amount * RakeBps \in Nat /\ amount * rest \in Nat
    BY <1>1
  <2>4. amount * RakeBps + amount * rest = amount * 10000
    BY <1>1, <2>2
  <2> QED
    BY <2>3, <2>4
<1> QED
  BY <1>2

\* Whatever was computed from the round's pot can be asked of the contract.
LEMMA PayoutIsAmount ==
  ASSUME NEW amount \in Nat
  PROVE  /\ PayoutAfterRake(amount, RakeBps) \in Nat
         /\ PayoutAfterRake(amount, RakeBps) = amount - Rake(amount)
BY ShareOfPot DEF PayoutAfterRake, Rake

\* A settlement that was not begun has no traces, and one that has got as far as the
\* payout has chosen a player with a wallet.
WinnerHasWallet ==
  /\ settleStatus = "none" => settling = "idle" /\ settleTx = "none"
  /\ settling \in {"send", "wait"} \/ settleTx # "none" => winner \in DOMAIN Wallet

\* The variables of the calls in progress have their types.
CallTypeOK ==
  /\ up \in BOOLEAN
  /\ opening \in {"idle", "id", "send", "wait", "publish", "ok", "failed"}
  /\ roundEnd \in Nat
  /\ createTx \in TxStates
  /\ roundSet \in BOOLEAN
  /\ stakeEndsAt \in Nat
  /\ starting \in BOOLEAN
  /\ timer \in Nat \cup {NoTimer}
  /\ settling \in {"idle", "chosen", "send", "wait"}
  /\ settleStatus \in {"none", "pending", "settled", "failed"}
  /\ winner \in Ids \cup {NoId}
  /\ payout \in Nat
  /\ settleTx \in TxStates

Basic == RoomTypeOK /\ PoolTypeOK /\ CallTypeOK /\ Roster /\ WinnerHasWallet

\* The type invariant is a part of Basic.
LEMMA BasicTypes == Basic => TypeOK
BY DEF Basic, CallTypeOK, TypeOK

\* Every step of the specification is one of the room's operations, which change the
\* clock only by ticking.
LEMMA StepOfRoom ==
  ASSUME RoomTypeOK, [Next]_vars
  PROVE  RoomStep /\ now' \in 0..MaxNow
<1> USE DEF RoomStep
<1>1. MaxNow \in Nat /\ now \in 0..MaxNow
  BY RoomAssumption DEF RoomTypeOK
<1>2. CASE UNCHANGED vars
  BY <1>1, <1>2 DEF vars
<1>3. CASE Server
  <2>1. now' = now
    BY <1>3 DEF Server, Request, CreateCall, SettleCall, Create, Join, Start, Submit, Poll,
      PickRound, SendCreateRound, AwaitCreateRound, PublishRound,
      ScheduleSettle, FireTimer, ReadRound, SendSettle, AwaitSettle
  <2>2. SUFFICES RoomStep
    BY <1>1, <2>1
  <2>3. ASSUME NEW id \in Ids, Create(id) \/ Join(id) \/ Start(id)
        PROVE  RoomStep
    BY <2>3 DEF Create, Join, Start, Rejoin
  <2>4. ASSUME NEW id \in Ids, NEW raw \in Inputs, Submit(id, raw)
        PROVE  RoomStep
    BY <2>4 DEF Submit, SubmitRefused
  <2>5. CASE Poll
    BY <2>5 DEF Poll, Get
  <2>6. CASE CreateCall
    BY <2>6 DEF CreateCall, PickRound, SendCreateRound, AwaitCreateRound, PublishRound, Drop
  <2>7. CASE ScheduleSettle \/ FireTimer
    BY <2>7 DEF ScheduleSettle, FireTimer
  <2>8. CASE SettleCall
    BY <2>8 DEF SettleCall, ReadRound, SendSettle, AwaitSettle
  <2> QED
    BY <1>3, <2>3, <2>4, <2>5, <2>6, <2>7, <2>8 DEF Server, Request
<1>4. CASE Chain
  BY <1>1, <1>4 DEF Chain, MineCreateRound, MineSettle, EnterRound
<1>5. CASE ClockTick
  <2>1. now' \in 0..MaxNow
    BY <1>1, <1>5 DEF ClockTick, Tick
  <2>2. UNCHANGED roomVars
    BY <1>5 DEF ClockTick
  <2> QED
    BY <2>1, <2>2
<1>6. CASE Crash
  BY <1>1, <1>6 DEF Crash
<1> QED
  BY <1>2, <1>3, <1>4, <1>5, <1>6 DEF Next

\* What any step may do to the round on chain: a payment is of an amount, to an address.
PoolStep ==
  \/ UNCHANGED poolVars
  \/ OpenRound(roundEnd, now)
  \/ \E a \in Addrs : Enter(a, now)
  \/ \E a \in Addrs, amount \in Nat : PayOut(a, amount, now)

\* Every step does one of these to the round, or leaves it alone.
LEMMA StepOfPool ==
  ASSUME Basic, [Next]_vars
  PROVE  PoolStep
<1> USE DEF PoolStep
<1>1. CASE UNCHANGED vars
  BY <1>1 DEF vars
<1>2. CASE Server
  BY <1>2 DEF Server, Request, CreateCall, SettleCall, Create, Join, Start, Submit, Poll,
    PickRound, SendCreateRound, AwaitCreateRound, PublishRound,
    ScheduleSettle, FireTimer, ReadRound, SendSettle, AwaitSettle
<1>3. CASE MineCreateRound
  BY <1>3 DEF MineCreateRound
<1>4. CASE MineSettle
  <2>1. Wallet[winner] \in Addrs /\ payout \in Nat
    BY <1>4, StakeAssumption DEF MineSettle, Basic, WinnerHasWallet, CallTypeOK
  <2> QED
    BY <1>4, <2>1 DEF MineSettle
<1>5. ASSUME NEW a \in Addrs, EnterRound(a)
      PROVE  PoolStep
  BY <1>5 DEF EnterRound
<1>6. CASE ClockTick \/ Crash
  BY <1>6 DEF ClockTick, Crash
<1> QED
  BY <1>1, <1>2, <1>3, <1>4, <1>5, <1>6 DEF Next, Chain

\* What a step may do to the round keeps its types.
LEMMA PoolStepKeepsTypes ==
  ASSUME Basic, PoolStep
  PROVE  PoolTypeOK'
<1> USE DEF PoolTypeOK
<1>0. PoolTypeOK /\ roundEnd \in Nat /\ Fee \in Nat
  BY PoolAssumption DEF Basic, CallTypeOK
<1>1. CASE UNCHANGED poolVars
  BY <1>0, <1>1 DEF poolVars
<1>2. CASE OpenRound(roundEnd, now)
  BY <1>0, <1>2 DEF OpenRound
<1>3. ASSUME NEW a \in Addrs, Enter(a, now)
      PROVE  PoolTypeOK'
  BY <1>0, <1>3 DEF Enter
<1>4. ASSUME NEW a \in Addrs, NEW amount \in Nat, PayOut(a, amount, now)
      PROVE  PoolTypeOK'
  BY <1>0, <1>4 DEF PayOut
<1> QED
  BY <1>1, <1>2, <1>3, <1>4 DEF PoolStep

\* The leader of a room is one of its players, if it has any.
LEMMA LeaderIsPlayer ==
  ASSUME RoomTypeOK, Roster
  PROVE  Leader \in Ids \cup {NoId} /\ (order # <<>> => Leader \in players)
<1>1. CASE order = <<>>
  BY <1>1 DEF Leader
<1>2. CASE order # <<>>
  BY <1>2, LeaderRanksFirst DEF Roster, RoomTypeOK
<1> QED
  BY <1>1, <1>2

\* Every step keeps the types of the calls in progress, and a winner's wallet.
LEMMA StepKeepsCalls ==
  ASSUME Basic, [Next]_vars
  PROVE  CallTypeOK' /\ WinnerHasWallet'
<1>1. /\ CallTypeOK /\ WinnerHasWallet
      /\ now \in Nat /\ pot \in Nat /\ endsAt \in Nat
      /\ StakeWindow \in Nat /\ SettleSlack \in Nat
  BY StakeAssumption, RoomAssumption DEF Basic, RoomTypeOK, PoolTypeOK
<1> USE DEF CallTypeOK, WinnerHasWallet, TxStates
<1>2. CASE UNCHANGED <<up, createVars, settleVars>>
  BY <1>1, <1>2 DEF createVars, settleVars
<1>3. ASSUME NEW id \in Ids, Create(id), UNCHANGED up
      PROVE  CallTypeOK' /\ WinnerHasWallet'
  BY <1>1, <1>3 DEF Create, settleVars
<1>4. ASSUME CreateCall, UNCHANGED up
      PROVE  CallTypeOK' /\ WinnerHasWallet'
  <2>1. UNCHANGED settleVars /\ createTx' \in {createTx, "pending"}
    BY <1>4 DEF CreateCall, PickRound, SendCreateRound, AwaitCreateRound, PublishRound, Drop
  <2>2. CASE PickRound
    BY <1>1, <1>4, <2>1, <2>2 DEF PickRound, Drop, settleVars
  <2>3. CASE SendCreateRound
    BY <1>1, <1>4, <2>1, <2>3 DEF SendCreateRound, Drop, settleVars
  <2>4. CASE AwaitCreateRound
    BY <1>1, <1>4, <2>1, <2>4 DEF AwaitCreateRound, Drop, settleVars
  <2>5. CASE PublishRound
    BY <1>1, <1>4, <2>1, <2>5 DEF PublishRound, settleVars
  <2> QED
    BY <1>4, <2>2, <2>3, <2>4, <2>5 DEF CreateCall
<1>5. ASSUME NEW id \in Ids, Start(id), UNCHANGED up
      PROVE  CallTypeOK' /\ WinnerHasWallet'
  BY <1>1, <1>5 DEF Start, createVars
<1>6. ASSUME ScheduleSettle, UNCHANGED up
      PROVE  CallTypeOK' /\ WinnerHasWallet'
  <2>1. timer' \in Nat \cup {NoTimer}
    BY <1>1, <1>6 DEF ScheduleSettle, SettleDue
  <2>2. /\ starting' = FALSE
        /\ UNCHANGED <<createVars, settling, settleStatus, winner, payout, settleTx>>
    BY <1>6, Zenon DEF ScheduleSettle
  <2> QED
    <3>1. UNCHANGED createVars /\ UNCHANGED <<settling, settleStatus, winner, payout, settleTx>>
      BY <2>2
    <3>2. CallTypeOK'
      <4>1. up' \in BOOLEAN /\ roundSet' \in BOOLEAN /\ starting' \in BOOLEAN
        BY <1>1, <1>6, <2>2, <3>1 DEF createVars
      <4>2. /\ UNCHANGED <<opening, createTx, roundEnd, stakeEndsAt>>
            /\ UNCHANGED <<settling, settleStatus, winner, payout, settleTx>>
        BY <2>2, <3>1 DEF createVars
      <4> QED
        BY <1>1, <2>1, <4>1, <4>2
    <3>3. WinnerHasWallet'
      BY <1>1, <3>1
    <3> QED
      BY <3>2, <3>3
<1>7. ASSUME FireTimer, UNCHANGED up
      PROVE  CallTypeOK' /\ WinnerHasWallet'
  <2>1. Leader \in Ids \cup {NoId}
    BY LeaderIsPlayer DEF Basic
  <2> QED
    BY <1>1, <1>7, <2>1 DEF FireTimer, createVars
<1>8. ASSUME SettleCall, UNCHANGED up
      PROVE  CallTypeOK' /\ WinnerHasWallet'
  <2>1. PayoutAfterRake(pot, RakeBps) \in Nat
    BY <1>1, PayoutIsAmount
  <2>2. CASE ReadRound
    BY <1>1, <1>8, <2>1, <2>2 DEF ReadRound, FailSettlement, createVars
  <2>3. CASE SendSettle
    BY <1>1, <1>8, <2>3 DEF SendSettle, FailSettlement, createVars
  <2>4. CASE AwaitSettle
    BY <1>1, <1>8, <2>4 DEF AwaitSettle, FailSettlement, createVars
  <2> QED
    BY <1>8, <2>2, <2>3, <2>4 DEF SettleCall
<1>9. CASE MineCreateRound
  BY <1>1, <1>9 DEF MineCreateRound, settleVars
<1>10. CASE MineSettle
  <2>1. /\ settleTx = "pending" /\ settleTx' \in {"mined", "reverted"}
        /\ UNCHANGED <<up, createVars, starting, timer, settling, settleStatus, winner, payout>>
    BY <1>10 DEF MineSettle
  <2>2. winner \in DOMAIN Wallet /\ settleStatus # "none"
    BY <1>1, <2>1
  <2>3. CallTypeOK'
    BY <1>1, <2>1 DEF createVars
  <2>4. WinnerHasWallet'
    BY <2>1, <2>2
  <2> QED
    BY <2>3, <2>4
<1>11. CASE Crash
  <2>1. up' \in BOOLEAN
    BY <1>11 DEF Crash
  <2>2. UNCHANGED <<createVars, settleVars>>
    BY <1>11 DEF Crash
  <2>3. CallTypeOK'
    BY <1>1, <2>1, <2>2 DEF createVars, settleVars
  <2>4. WinnerHasWallet'
    BY <1>1, <2>2 DEF settleVars
  <2> QED
    BY <2>3, <2>4
<1> HIDE DEF CallTypeOK, WinnerHasWallet, TxStates
<1>12. CASE UNCHANGED vars
  BY <1>2, <1>12 DEF vars
<1>13. CASE Server
  <2>1. ASSUME NEW id \in Ids, Join(id), UNCHANGED up
        PROVE  UNCHANGED <<up, createVars, settleVars>>
    BY <2>1 DEF Join
  <2>2. ASSUME NEW id \in Ids, NEW raw \in Inputs, Submit(id, raw), UNCHANGED up
        PROVE  UNCHANGED <<up, createVars, settleVars>>
    BY <2>2 DEF Submit
  <2>3. ASSUME Poll, UNCHANGED up
        PROVE  UNCHANGED <<up, createVars, settleVars>>
    BY <2>3 DEF Poll
  <2> QED
    BY <1>2, <1>3, <1>4, <1>5, <1>6, <1>7, <1>8, <1>13, <2>1, <2>2, <2>3 DEF Server, Request
<1>14. CASE Chain \/ ClockTick
  BY <1>2, <1>9, <1>10, <1>14 DEF Chain, EnterRound, ClockTick
<1> QED
  BY <1>11, <1>12, <1>13, <1>14 DEF Next

\* Basic is an invariant: each of its parts is kept by what a step may do to the room,
\* to the round and to the calls in progress.
THEOREM BasicInvariant == Spec => []Basic
<1>1. Init => Basic
  <2> SUFFICES ASSUME Init PROVE Basic
    OBVIOUS
  <2>1. RoomTypeOK
    <3>1. now \in 0..MaxNow
      BY RoomAssumption DEF Init, RoomInit
    <3>2. score \in [Ids -> Nat] /\ found \in [Ids -> SUBSET Words] /\ order \in Seq(Ids)
      BY EmptySeq DEF Init, RoomInit
    <3> QED
      BY <3>1, <3>2 DEF Init, RoomInit, RoomTypeOK
  <2>2. PoolTypeOK
    BY DEF Init, PoolInit, PoolTypeOK
  <2>3. CallTypeOK
    BY DEF Init, CallTypeOK, TxStates
  <2>4. Roster /\ WinnerHasWallet
    BY DEF Init, RoomInit, Roster, NoDuplicates, Range, WinnerHasWallet
  <2> QED
    BY <2>1, <2>2, <2>3, <2>4 DEF Basic
<1>2. Basic /\ [Next]_vars => Basic'
  <2> SUFFICES ASSUME Basic, [Next]_vars PROVE Basic'
    OBVIOUS
  <2>1. RoomTypeOK' /\ Roster'
    BY StepOfRoom, RoomStepKeepsRoster DEF Basic
  <2>2. PoolTypeOK'
    BY StepOfPool, PoolStepKeepsTypes DEF Basic
  <2>3. CallTypeOK' /\ WinnerHasWallet'
    BY StepKeepsCalls
  <2> QED
    BY <2>1, <2>2, <2>3 DEF Basic
<1> QED
  BY <1>1, <1>2, PTL DEF Spec

\* No reachable state of a staked room has a value outside its type; in particular
\* the payout is never negative and the winner is a player or nobody.
THEOREM TypeCorrect == Spec => []TypeOK
BY BasicInvariant, BasicTypes, PTL
-----------------------------------------------------------------------------
(* The round and the seats *)

\* The room learns its round from Create alone, the contract from the transaction
\* Create has sent, and nobody has a seat before the one or a stake before the other.
RoundFacts ==
  /\ roundSet => opening = "ok" /\ stakeEndsAt = roundEnd
  /\ createTx # "none" => opening \notin {"idle", "id", "send"}
  /\ opened => createTx # "none" /\ closesAt = roundEnd /\ closesAt > 0
  /\ entered # {} => opened
  /\ players # {} => roundSet

Paid == RoundFacts /\ SeatsArePaidFor

\* The steps that concern the round: all others leave it, its room and the seats alone.
LEMMA StepOfRound ==
  ASSUME [Next]_vars
  PROVE  \/ UNCHANGED <<createVars, players, opened, closesAt, entered>>
         \/ \E id \in Ids : Create(id)
         \/ CreateCall
         \/ \E id \in Ids : Join(id) /\ TakeSeat(id)
         \/ MineCreateRound
         \/ \E a \in Addrs : EnterRound(a)
<1> DEFINE Still == UNCHANGED <<createVars, players, opened, closesAt, entered>>
<1>1. CASE UNCHANGED vars
  BY <1>1 DEF vars, roomVars, poolVars
<1>2. ASSUME NEW id \in Ids, Join(id)
      PROVE  Still \/ (Join(id) /\ TakeSeat(id))
  BY <1>2 DEF Join, Rejoin, MaybeFinish, poolVars
<1>3. ASSUME NEW id \in Ids, Start(id)
      PROVE  Still
  BY <1>3 DEF Start, StartRace, poolVars
<1>4. ASSUME NEW id \in Ids, NEW raw \in Inputs, Submit(id, raw)
      PROVE  Still
  BY <1>4 DEF Submit, SubmitAccepted, SubmitRefused, MaybeFinish, poolVars
<1>5. CASE Poll
  BY <1>5 DEF Poll, Get, MaybeFinish, poolVars
<1>6. CASE ScheduleSettle \/ FireTimer
  BY <1>6 DEF ScheduleSettle, FireTimer, MaybeFinish, roomVars, poolVars
<1>7. CASE SettleCall
  BY <1>7 DEF SettleCall, ReadRound, SendSettle, AwaitSettle, roomVars, poolVars
<1>8. CASE MineSettle
  BY <1>8 DEF MineSettle, PayOut, roomVars, poolVars
<1>9. CASE ClockTick \/ Crash
  BY <1>9 DEF ClockTick, Crash, roomVars, poolVars
<1> QED
  BY <1>1, <1>2, <1>3, <1>4, <1>5, <1>6, <1>7, <1>8, <1>9 DEF Next, Server, Chain, Request

\* Every step keeps each seat paid for, and the round what Create asked for.
LEMMA StepKeepsPaid ==
  ASSUME Basic, Paid, [Next]_vars
  PROVE  Paid'
<1>1. /\ RoundFacts /\ SeatsArePaidFor
      /\ createTx \in TxStates /\ roundEnd \in Nat /\ now \in Nat
  BY RoomAssumption DEF Paid, Basic, CallTypeOK, RoomTypeOK
<1> USE DEF RoundFacts, SeatsArePaidFor, TxStates, createVars
<1>2. CASE UNCHANGED <<createVars, players, opened, closesAt, entered>>
  BY <1>1, <1>2 DEF Paid
<1>3. ASSUME NEW id \in Ids, Create(id)
      PROVE  Paid'
  BY <1>1, <1>3 DEF Paid, Create, Publish, poolVars
<1>4. CASE CreateCall
  <2>1. UNCHANGED <<players, opened, closesAt, entered>>
    BY <1>4 DEF CreateCall, PickRound, SendCreateRound, AwaitCreateRound, PublishRound,
      Drop, MaybeFinish, roomVars, poolVars
  <2>2. CASE PickRound
    BY <1>1, <2>1, <2>2 DEF Paid, PickRound, Drop
  <2>3. CASE SendCreateRound
    BY <1>1, <2>1, <2>3 DEF Paid, SendCreateRound, Drop
  <2>4. CASE AwaitCreateRound
    BY <1>1, <2>1, <2>4 DEF Paid, AwaitCreateRound, Drop
  <2>5. CASE PublishRound
    BY <1>1, <2>1, <2>5 DEF Paid, PublishRound
  <2> QED
    BY <1>4, <2>2, <2>3, <2>4, <2>5 DEF CreateCall
<1>5. ASSUME NEW id \in Ids, Join(id), TakeSeat(id)
      PROVE  Paid'
  <2>1. id \notin players
    BY <1>5 DEF TakeSeat, MayTakeSeat
  <2>2. /\ players' = players \cup {id}
        /\ id \in DOMAIN Wallet /\ roundSet /\ Wallet[id] \in entered
        /\ UNCHANGED <<createVars, opened, closesAt, entered>>
    BY <1>5, <2>1 DEF Join, Rejoin, TakeSeat, AddPlayer, poolVars
  <2> QED
    BY <1>1, <2>2 DEF Paid
<1>6. CASE MineCreateRound
  BY <1>1, <1>6 DEF Paid, MineCreateRound, OpenRound, roomVars, poolVars
<1>7. ASSUME NEW a \in Addrs, EnterRound(a)
      PROVE  Paid'
  BY <1>1, <1>7 DEF Paid, EnterRound, Enter, roomVars
<1> QED
  BY <1>2, <1>3, <1>4, <1>5, <1>6, <1>7, StepOfRound

\* No player of a staked room, its host included, got a seat without having paid the
\* fee on chain, however the joins, the entries, the steps of Create and a crash fall.
THEOREM SeatsPaid == Spec => []SeatsArePaidFor
<1>1. Init => Paid
  BY DEF Init, RoomInit, PoolInit, Paid, RoundFacts, SeatsArePaidFor
<1>2. Basic /\ Paid /\ [Next]_vars => Paid'
  BY StepKeepsPaid
<1>3. Paid => SeatsArePaidFor
  BY DEF Paid
<1> QED
  BY <1>1, <1>2, <1>3, BasicInvariant, PTL DEF Spec

-----------------------------------------------------------------------------
(* The clock, the timer and the choice of the winner *)

\* Nothing of the settlement exists before the race; the timer of a race with players
\* is not armed for a time before entries close; a winner is chosen only when the race
\* is over, and then entries are closed.
RaceFacts ==
  /\ state \in {"none", "lobby"} => ~starting /\ timer = NoTimer /\ settleStatus = "none"
  /\ timer # NoTimer /\ order # <<>> => timer >= stakeEndsAt + SettleSlack
  /\ settleStatus # "none" => state = "done" /\ winner = Leader
  /\ settleStatus # "none" /\ order # <<>> => now >= closesAt

\* A room with players has its round on chain, and shows the end of its window.
LEMMA PlayersHaveRound ==
  ASSUME Basic, Paid, order # <<>>
  PROVE  /\ players # {} /\ opened /\ opening = "ok"
         /\ stakeEndsAt = closesAt /\ closesAt > 0
<1>1. order \in Seq(Ids) /\ Range(order) = players
  BY DEF Basic, RoomTypeOK, Roster
<1>2. 1 \in DOMAIN order
  BY <1>1
<1>3. players # {}
  BY <1>1, <1>2 DEF Range
<1> QED
  BY <1>3 DEF Paid, RoundFacts, SeatsArePaidFor

\* The steps that only let a race end, time pass, or a settlement go on.
Calm ==
  /\ state' = state \/ state' = StateNow
  /\ now' = now \/ now' = now + 1
  /\ settleStatus' = settleStatus \/ (settleStatus' # "none" /\ settleStatus # "none")
  /\ UNCHANGED <<starting, timer, order, score, endsAt, winner, stakeEndsAt>>
  /\ closesAt' = closesAt \/ ~opened

\* Every other step is one of those that concern the race, its timer or its settlement.
LEMMA StepOfRace ==
  ASSUME Basic, Paid, [Next]_vars
  PROVE  \/ Calm
         \/ \E id \in Ids : Create(id) \/ (Join(id) /\ TakeSeat(id)) \/ Start(id)
         \/ \E id \in Ids, raw \in Inputs : Submit(id, raw) /\ SubmitAccepted(id, raw)
         \/ PublishRound \/ ScheduleSettle \/ FireTimer
<1>1. CASE UNCHANGED vars
  BY <1>1 DEF vars, roomVars, poolVars, createVars, settleVars, Calm
<1>2. CASE Server
  <2> USE <1>2 DEF Server
  <2>1. ASSUME NEW id \in Ids, Join(id)
        PROVE  Calm \/ TakeSeat(id)
    BY <2>1 DEF Join, Rejoin, MaybeFinish, poolVars, createVars, settleVars, Calm
  <2>2. ASSUME NEW id \in Ids, NEW raw \in Inputs, Submit(id, raw)
        PROVE  Calm \/ SubmitAccepted(id, raw)
    BY <2>2 DEF Submit, SubmitRefused, MaybeFinish, poolVars, createVars, settleVars, Calm
  <2>3. CASE Poll
    BY <2>3 DEF Poll, Get, MaybeFinish, poolVars, createVars, settleVars, Calm
  <2>4. CASE PickRound \/ SendCreateRound \/ AwaitCreateRound
    BY <2>4 DEF PickRound, SendCreateRound, AwaitCreateRound, Drop,
      roomVars, poolVars, settleVars, Calm
  <2>5. CASE SettleCall
    <3>1. settleStatus # "none"
      BY <2>5 DEF SettleCall, ReadRound, SendSettle, AwaitSettle, Basic, WinnerHasWallet
    <3> QED
      BY <2>5, <3>1 DEF SettleCall, ReadRound, SendSettle, AwaitSettle, FailSettlement,
        roomVars, poolVars, createVars, Calm
  <2> QED
    BY <2>1, <2>2, <2>3, <2>4, <2>5 DEF Request, CreateCall
<1>3. CASE MineCreateRound
  BY <1>3 DEF MineCreateRound, OpenRound, roomVars, poolVars, settleVars, Calm
<1>4. CASE MineSettle
  BY <1>4 DEF MineSettle, PayOut, roomVars, poolVars, createVars, Calm
<1>5. ASSUME NEW a \in Addrs, EnterRound(a)
      PROVE  Calm
  BY <1>5 DEF EnterRound, Enter, roomVars, createVars, settleVars, Calm
<1>6. CASE ClockTick \/ Crash
  BY <1>6 DEF ClockTick, Tick, Crash, roomVars, poolVars, createVars, settleVars, Calm
<1> QED
  BY <1>1, <1>2, <1>3, <1>4, <1>5, <1>6 DEF Next, Chain, Server

\* Every step keeps the timer after the window, and the winner the leader.
LEMMA StepKeepsRace ==
  ASSUME Basic, Paid, RaceFacts, [Next]_vars
  PROVE  RaceFacts'
<1>1. /\ now \in Nat /\ endsAt \in Nat /\ timer \in Nat \cup {NoTimer}
      /\ stakeEndsAt \in Nat /\ SettleSlack \in Nat /\ closesAt \in Nat
  BY RoomAssumption, StakeAssumption DEF Basic, RoomTypeOK, CallTypeOK, PoolTypeOK
<1>2. order # <<>> => opened /\ opening = "ok" /\ stakeEndsAt = closesAt /\ closesAt > 0
  BY PlayersHaveRound
<1>3. UNCHANGED <<order, score>> => Leader' = Leader
  BY LeaderStands
<1> USE DEF RaceFacts
<1>4. CASE Calm
  BY <1>1, <1>2, <1>3, <1>4 DEF Calm, StateNow, Expired
<1>5. ASSUME NEW id \in Ids, Create(id)
      PROVE  RaceFacts'
  BY <1>5 DEF Create, Publish, settleVars
<1>6. ASSUME NEW id \in Ids, Join(id), TakeSeat(id)
      PROVE  RaceFacts'
  BY <1>6 DEF Join, TakeSeat, MayTakeSeat, settleVars
<1>7. ASSUME NEW id \in Ids, Start(id)
      PROVE  RaceFacts'
  BY <1>7 DEF Start, StartRace
<1>8. ASSUME NEW id \in Ids, NEW raw \in Inputs, Submit(id, raw), SubmitAccepted(id, raw)
      PROVE  RaceFacts'
  BY <1>8 DEF Submit, SubmitAccepted, Accepted, StateNow, Expired, createVars, settleVars
<1>9. CASE PublishRound
  BY <1>2, <1>3, <1>9 DEF PublishRound, MaybeFinish, StateNow, Expired, poolVars, settleVars
<1>10. CASE ScheduleSettle
  <2>1. order # <<>> => timer' >= stakeEndsAt + SettleSlack
    BY <1>1, <1>2, <1>10 DEF ScheduleSettle, SettleDue
  <2>2. UNCHANGED <<now, state, order, score, stakeEndsAt, closesAt, settleStatus, winner>>
    BY <1>10 DEF ScheduleSettle, roomVars, poolVars, createVars
  <2>3. starting
    BY <1>10 DEF ScheduleSettle
  <2> QED
    BY <1>3, <2>1, <2>2, <2>3
<1>11. CASE FireTimer
  BY <1>1, <1>2, <1>3, <1>11 DEF FireTimer, MaybeFinish, StateNow, Expired, poolVars, createVars
<1> QED
  BY <1>4, <1>5, <1>6, <1>7, <1>8, <1>9, <1>10, <1>11, StepOfRace

\* Every step leaves the settlement of a timely race in hands that will see to it.
LEMMA StepKeepsSettlement ==
  ASSUME Basic, Paid, RaceFacts, SettlementNotLost, [Next]_vars
  PROVE  SettlementNotLost'
<1>1. /\ now \in Nat /\ endsAt \in Nat /\ timer \in Nat \cup {NoTimer}
      /\ stakeEndsAt \in Nat /\ SettleSlack \in Nat
  BY RoomAssumption, StakeAssumption DEF Basic, RoomTypeOK, CallTypeOK
<1>2. order # <<>> => opening = "ok" /\ stakeEndsAt > 0
  BY PlayersHaveRound
<1>0. up' => up
  BY DEF Next, Server, Chain, MineCreateRound, MineSettle, EnterRound, ClockTick, Crash, vars
<1> USE DEF SettlementNotLost, TimelyRace
<1>3. CASE Calm
  BY <1>0, <1>3 DEF Calm, StateNow, Expired
<1>4. ASSUME NEW id \in Ids, Create(id)
      PROVE  SettlementNotLost'
  BY <1>4 DEF Create, Publish
<1>5. ASSUME NEW id \in Ids, Join(id), TakeSeat(id)
      PROVE  SettlementNotLost'
  BY <1>5 DEF TakeSeat, MayTakeSeat
<1>6. ASSUME NEW id \in Ids, Start(id)
      PROVE  SettlementNotLost'
  BY <1>6 DEF Start
<1>7. ASSUME NEW id \in Ids, NEW raw \in Inputs, Submit(id, raw), SubmitAccepted(id, raw)
      PROVE  SettlementNotLost'
  BY <1>0, <1>7 DEF Submit, SubmitAccepted, createVars, settleVars
<1>8. CASE PublishRound
  <2>1. opening = "publish" /\ order' = order
    BY <1>8 DEF PublishRound, MaybeFinish
  <2>2. order' = <<>>
    BY <1>2, <2>1
  <2> QED
    BY <2>2
<1>9. CASE ScheduleSettle
  <2>1. order # <<>> => timer' # NoTimer
    BY <1>1, <1>2, <1>9 DEF ScheduleSettle, SettleDue, NoTimer
  <2>2. UNCHANGED order
    BY <1>9 DEF ScheduleSettle, roomVars
  <2> QED
    BY <2>1, <2>2
<1>10. CASE FireTimer
  <2>1. /\ timer # NoTimer /\ now >= timer /\ state' = StateNow
        /\ UNCHANGED <<order, endsAt, stakeEndsAt>>
    BY <1>10 DEF FireTimer, MaybeFinish, createVars
  <2>2. CASE StateNow = "done"
    <3>1. settleStatus' # "none"
      BY <1>10, <2>2 DEF FireTimer
    <3> QED
      BY <3>1
  <2>3. CASE StateNow # "done"
    <3>1. StateNow = "racing" => now < endsAt
      BY <1>1, <2>3 DEF StateNow, Expired
    <3>2. order # <<>> => timer >= stakeEndsAt + SettleSlack
      BY <2>1 DEF RaceFacts
    <3> QED
      BY <1>1, <2>1, <2>3, <3>1, <3>2
  <2> QED
    BY <2>2, <2>3
<1> QED
  BY <1>3, <1>4, <1>5, <1>6, <1>7, <1>8, <1>9, <1>10, StepOfRace

\* A settlement is sent once, for what the round holds, and what was paid was paid to
\* the winner that settleRoom chose.
PayFacts ==
  /\ PayoutMatchesPool
  /\ settling \in {"chosen", "send"} => settleTx = "none"
  /\ Settled => settleTx = "mined" /\ payee = Wallet[winner] /\ paid = pot - Rake(pot)

\* Once a winner with a wallet is chosen there are players, and entries are closed.
LEMMA EntriesClosed ==
  ASSUME Basic, Paid, RaceFacts, settling \in {"send", "wait"} \/ settleTx # "none"
  PROVE  /\ order # <<>> /\ winner = Leader /\ winner \in DOMAIN Wallet
         /\ opened /\ now >= closesAt
<1>1. settleStatus # "none" /\ winner \in DOMAIN Wallet
  BY DEF Basic, WinnerHasWallet
<1>2. winner = Leader /\ winner # NoId
  BY <1>1, StakeAssumption, RoomAssumption DEF RaceFacts
<1>3. order # <<>>
  BY <1>2 DEF Leader
<1> QED
  BY <1>1, <1>2, <1>3, PlayersHaveRound DEF RaceFacts

\* Every step keeps the payout what the closed pot is worth.
LEMMA StepKeepsPay ==
  ASSUME Basic, Paid, RaceFacts, PayFacts, [Next]_vars
  PROVE  PayFacts'
<1>1. /\ settling \in {"send", "wait"} \/ settleTx # "none" => opened /\ now >= closesAt
      /\ settleStatus = "none" => settling = "idle" /\ settleTx = "none"
  BY EntriesClosed DEF Basic, WinnerHasWallet
<1>2. now \in Nat /\ closesAt \in Nat /\ pot \in Nat
  BY RoomAssumption DEF Basic, RoomTypeOK, PoolTypeOK
<1> USE DEF PayFacts, PayoutMatchesPool, Settled, Rake
<1>3. CASE UNCHANGED <<winner, settling, settleTx, payout, pot, payee, paid>>
  BY <1>3
<1>4. CASE FireTimer
  <2>1. UNCHANGED <<payout, settleTx, pot, payee, paid>>
    BY <1>4 DEF FireTimer, poolVars
  <2>2. \/ UNCHANGED <<winner, settling>>
        \/ settleStatus = "none" /\ settling' = "chosen"
    BY <1>4 DEF FireTimer
  <2> QED
    BY <1>1, <2>1, <2>2
<1>5. CASE ReadRound
  <2>1. UNCHANGED <<winner, settleTx, pot, payee, paid>> /\ settling = "chosen"
    BY <1>5 DEF ReadRound, FailSettlement, poolVars
  <2>2. \/ settling' = "idle"
        \/ settling' = "send" /\ payout' = pot - Rake(pot)
    BY <1>2, <1>5, PayoutIsAmount DEF ReadRound, FailSettlement
  <2> QED
    BY <2>1, <2>2
<1>6. CASE SendSettle
  BY <1>6 DEF SendSettle, FailSettlement, poolVars
<1>7. CASE AwaitSettle
  BY <1>7 DEF AwaitSettle, FailSettlement, poolVars
<1>8. CASE MineSettle
  <2>1. settleTx = "pending" /\ payout = pot - Rake(pot)
    BY <1>8 DEF MineSettle
  <2>2. UNCHANGED <<winner, settling, payout, pot>>
    BY <1>8 DEF MineSettle, PayOut, poolVars
  <2>3. \/ settleTx' = "mined" /\ payee' = Wallet[winner] /\ paid' = payout
        \/ settleTx' = "reverted" /\ UNCHANGED <<payee, paid>>
    BY <1>8 DEF MineSettle, PayOut, poolVars
  <2> QED
    BY <2>1, <2>2, <2>3
<1>9. ASSUME NEW a \in Addrs, EnterRound(a)
      PROVE  PayFacts'
  <2>1. ~(now >= closesAt)
    BY <1>2, <1>9 DEF EnterRound, Enter
  <2>2. settling \notin {"send", "wait"} /\ settleTx = "none"
    BY <1>1, <2>1
  <2>3. UNCHANGED <<winner, settling, settleTx, payout, payee, paid>>
    BY <1>9 DEF EnterRound, Enter, settleVars
  <2> QED
    BY <2>2, <2>3
<1> HIDE DEF PayFacts, PayoutMatchesPool, Settled, Rake
<1>10. CASE UNCHANGED vars
  BY <1>3, <1>10 DEF vars, poolVars, settleVars
<1>11. CASE Server
  <2>1. CASE Request \/ CreateCall \/ ScheduleSettle
    <3>1. UNCHANGED poolVars
      BY <2>1 DEF Request, CreateCall, Create, Join, Start, Submit, Poll,
        PickRound, SendCreateRound, AwaitCreateRound, PublishRound, ScheduleSettle
    <3>2. UNCHANGED <<winner, settling, settleTx, payout>>
      BY <2>1 DEF Request, CreateCall, Create, Join, Start, Submit, Poll, settleVars,
        PickRound, SendCreateRound, AwaitCreateRound, PublishRound, ScheduleSettle
    <3> QED
      BY <1>3, <3>1, <3>2 DEF poolVars
  <2> QED
    BY <1>4, <1>5, <1>6, <1>7, <1>11, <2>1 DEF Server, SettleCall
<1>12. CASE MineCreateRound
  BY <1>3, <1>12 DEF MineCreateRound, OpenRound, poolVars, settleVars
<1>13. CASE ClockTick \/ Crash
  BY <1>3, <1>13 DEF ClockTick, Crash, poolVars, settleVars
<1> QED
  BY <1>8, <1>9, <1>10, <1>11, <1>12, <1>13 DEF Next, Chain

-----------------------------------------------------------------------------
(* The inductive invariant and what follows from it *)

Sound == Basic /\ Paid /\ RaceFacts /\ PayFacts /\ SettlementNotLost

\* Every behaviour keeps the whole of what the calls, the race and the contract
\* rely on.
THEOREM Soundness == Spec => []Sound
<1>1. Init => Paid /\ RaceFacts /\ PayFacts /\ SettlementNotLost
  <2> SUFFICES ASSUME Init PROVE Paid /\ RaceFacts /\ PayFacts /\ SettlementNotLost
    OBVIOUS
  <2> USE DEF Init, RoomInit, PoolInit
  <2>1. Paid
    BY DEF Paid, RoundFacts, SeatsArePaidFor
  <2>2. RaceFacts
    BY DEF RaceFacts
  <2>3. PayFacts
    BY DEF PayFacts, PayoutMatchesPool, Settled
  <2>4. SettlementNotLost
    BY DEF SettlementNotLost, TimelyRace
  <2> QED
    BY <2>1, <2>2, <2>3, <2>4
<1>2. Sound /\ [Next]_vars => (Paid /\ RaceFacts /\ PayFacts /\ SettlementNotLost)'
  BY StepKeepsPaid, StepKeepsRace, StepKeepsPay, StepKeepsSettlement DEF Sound
<1>3. Sound <=> Basic /\ (Paid /\ RaceFacts /\ PayFacts /\ SettlementNotLost)
  BY DEF Sound
<1> QED
  BY <1>1, <1>2, <1>3, BasicInvariant, PTL DEF Spec

\* The amount that is signed and sent is what the contract will hold when it pays, less
\* the rake: it cannot be refused for exceeding the pot, nor leave a part behind.
THEOREM PayoutIsPool == Spec => []PayoutMatchesPool
<1>1. Sound => PayoutMatchesPool
  BY DEF Sound, PayFacts
<1> QED
  BY <1>1, Soundness, PTL

\* Only the wallet of the player who leads the final ranking is ever paid.
THEOREM PaymentToLeader == Spec => []LeaderIsPaid
<1>1. Sound => LeaderIsPaid
  <2> SUFFICES ASSUME Sound, Settled PROVE LeaderIsPaid
    BY DEF LeaderIsPaid
  <2>1. settleTx = "mined" /\ payee = Wallet[winner] /\ paid = pot - Rake(pot)
    BY DEF Sound, PayFacts
  <2>2. order # <<>> /\ winner = Leader
    BY <2>1, EntriesClosed DEF Sound
  <2>3. Leader \in players
    BY <2>2, LeaderIsPlayer DEF Sound, Basic
  <2>4. Wallet[Leader] \in entered
    BY <2>3 DEF Sound, Paid, SeatsArePaidFor
  <2> QED
    BY <2>1, <2>2, <2>4 DEF LeaderIsPaid
<1> QED
  BY <1>1, Soundness, PTL

\* The settlement of a race that is over before its timer may fire is never dropped
\* between Start, the timer and settleRoom while the process lives.
THEOREM SettlementKept == Spec => []SettlementNotLost
<1>1. Sound => SettlementNotLost
  BY DEF Sound
<1> QED
  BY <1>1, Soundness, PTL

-----------------------------------------------------------------------------
(* The promise *)

Deadline ==
  /\ state \in {"none", "lobby"} => endsAt = 0
  /\ state \in {"racing", "done"} => endsAt > 0
  /\ state = "done" => now >= endsAt
  /\ \A id \in Ids \ players : score[id] = 0

\* Every operation keeps the deadline; what is not an operation lets time pass.
LEMMA StepKeepsDeadline ==
  ASSUME Basic, Deadline, [Next]_vars
  PROVE  Deadline'
<1>1. /\ RoomTypeOK /\ Roster /\ RoomStep /\ now' \in 0..MaxNow
      /\ now \in Nat /\ endsAt \in Nat /\ RaceSeconds \in Nat \ {0}
      /\ order \in Seq(Ids) /\ players = Range(order)
  BY StepOfRoom, RoomAssumption DEF Basic, RoomTypeOK, Roster
<1>2. now' >= now
  <2>1. now' = now \/ now' = now + 1
    BY DEF Next, Server, Request, CreateCall, SettleCall, Create, Join, Start, Submit, Poll,
      PickRound, SendCreateRound, AwaitCreateRound, PublishRound, ScheduleSettle, FireTimer,
      ReadRound, SendSettle, AwaitSettle, Chain, MineCreateRound, MineSettle, EnterRound,
      ClockTick, Tick, Crash, vars
  <2> QED
    BY <1>1, <2>1
<1> USE DEF Deadline
<1>3. ASSUME NEW id \in Ids, Publish(id)
      PROVE  Deadline'
  BY <1>1, <1>2, <1>3 DEF Publish
<1>4. ASSUME NEW id \in Ids, TakeSeat(id)
      PROVE  Deadline'
  <2>1. /\ score \in [Ids -> Nat] /\ score' = [score EXCEPT ![id] = 0]
        /\ players' = players \cup {id} /\ UNCHANGED <<state, endsAt>> /\ state = "lobby"
    BY <1>1, <1>4 DEF TakeSeat, MayTakeSeat, AddPlayer, RoomTypeOK
  <2> QED
    BY <1>1, <1>2, <2>1
<1>5. ASSUME NEW id \in Ids, StartRace(id)
      PROVE  Deadline'
  BY <1>1, <1>2, <1>5 DEF StartRace
<1>6. ASSUME NEW id \in Ids, NEW raw \in Inputs, SubmitAccepted(id, raw)
      PROVE  Deadline'
  <2>1. /\ id \in players
        /\ score' = [score EXCEPT ![id] = score[id] + Points[Canon[raw]]]
        /\ UNCHANGED <<players, state, endsAt>> /\ score \in [Ids -> Nat]
    BY <1>1, <1>6 DEF SubmitAccepted, Accepted, RoomTypeOK
  <2> QED
    BY <1>1, <1>2, <2>1
<1>7. CASE MaybeFinish
  BY <1>1, <1>2, <1>7 DEF MaybeFinish, StateNow, Expired
<1>8. CASE UNCHANGED <<state, players, score, endsAt>>
  BY <1>1, <1>2, <1>8
<1> QED
  BY <1>1, <1>3, <1>4, <1>5, <1>6, <1>7, <1>8 DEF RoomStep, roomVars

\* A join order without repetitions is as long as its players are many.
LEMMA OrderCountsPlayers ==
  ASSUME RoomTypeOK, Roster
  PROVE  Cardinality(players) = Len(order)
<1>1. /\ Len(order) \in Nat /\ DOMAIN order = 1..Len(order)
      /\ \A i, j \in 1..Len(order) : order[i] = order[j] => i = j
      /\ players = {order[i] : i \in 1..Len(order)}
  BY DEF RoomTypeOK, Roster, NoDuplicates, Range
<1> DEFINE f == [i \in 1..Len(order) |-> order[i]]
<1>2. f \in Bijection(1..Len(order), players)
  BY <1>1 DEF Bijection, Injection, Surjection, IsInjective
<1>3. IsFiniteSet(1..Len(order)) /\ Cardinality(1..Len(order)) = Len(order)
  BY <1>1, FS_Interval
<1>4. ExistsBijection(1..Len(order), players)
  BY <1>2 DEF ExistsBijection
<1> QED
  BY <1>3, <1>4, FS_Bijection

\* What the promise speaks of.
Spoken == <<now, endsAt, order, score, entered, pot, payee, paid>>

\* A seat is taken by somebody who has staked, in a lobby that has one.
LEMMA JoinEnrols ==
  ASSUME Sound, Deadline, NEW id \in Ids, Join(id)
  PROVE  Promise!Enrol(id) \/ UNCHANGED Spoken
<1>1. CASE Rejoin(id)
  BY <1>1 DEF Join, Rejoin, MaybeFinish, poolVars, Spoken
<1>2. CASE TakeSeat(id) /\ id \in DOMAIN Wallet /\ Wallet[id] \in entered
  <2>1. /\ state = "lobby" /\ id \notin players /\ Cardinality(players) < MaxPlayers
        /\ order' = Append(order, id) /\ score' = [score EXCEPT ![id] = 0]
        /\ UNCHANGED endsAt
    BY <1>2 DEF TakeSeat, MayTakeSeat, AddPlayer
  <2>2. endsAt = 0 /\ score[id] = 0 /\ score \in [Ids -> Nat]
    BY <2>1 DEF Deadline, Sound, Basic, RoomTypeOK
  <2>3. score' = score
    BY <2>1, <2>2
  <2>4. id \notin Range(order) /\ Len(order) < MaxPlayers
    BY <2>1, OrderCountsPlayers DEF Sound, Basic, Roster
  <2>5. UNCHANGED <<now, entered, pot, payee, paid>>
    BY DEF Join, poolVars
  <2> QED
    BY <1>2, <2>1, <2>2, <2>3, <2>4, <2>5 DEF Promise!Enrol, Promise!Gathering,
      Range, Promise!Range
<1> QED
  BY <1>1, <1>2 DEF Join

\* A word is accepted while the race runs.
LEMMA SubmitGains ==
  ASSUME Sound, Deadline, NEW id \in Ids, NEW raw \in Inputs, Submit(id, raw)
  PROVE  (\E n \in Range(Points) : Promise!Gain(id, n)) \/ UNCHANGED Spoken
<1>1. CASE SubmitRefused(id, raw)
  BY <1>1 DEF Submit, SubmitRefused, MaybeFinish, poolVars, Spoken
<1>2. CASE SubmitAccepted(id, raw)
  <2>1. /\ StateNow = "racing" /\ id \in players
        /\ score' = [score EXCEPT ![id] = score[id] + Points[Canon[raw]]]
        /\ UNCHANGED <<order, endsAt>>
    BY <1>2 DEF SubmitAccepted, Accepted
  <2>2. endsAt > 0 /\ ~(now >= endsAt) /\ endsAt \in Nat
    BY <2>1 DEF StateNow, Expired, Deadline, Sound, Basic, RoomTypeOK
  <2>3. id \in Range(order)
    BY <2>1 DEF Sound, Basic, Roster
  <2>4. UNCHANGED <<now, entered, pot, payee, paid>>
    BY DEF Submit, poolVars
  <2>5. Points[Canon[raw]] \in Range(Points)
    BY RoomAssumption DEF Range
  <2>6. Promise!Gain(id, Points[Canon[raw]])
    BY <2>1, <2>2, <2>3, <2>4 DEF Promise!Gain, Promise!Gathering, Promise!Over,
      Range, Promise!Range
  <2> QED
    BY <2>5, <2>6
<1> QED
  BY <1>1, <1>2 DEF Submit

\* The host's start sets the deadline.
LEMMA StartBegins ==
  ASSUME Sound, Deadline, NEW id \in Ids, Start(id)
  PROVE  Promise!Begin
<1>1. state = "lobby" /\ endsAt' = now + RaceSeconds /\ UNCHANGED <<order, score>>
  BY DEF Start, StartRace
<1>2. UNCHANGED <<now, entered, pot, payee, paid>>
  BY DEF Start, poolVars
<1> QED
  BY <1>1, <1>2 DEF Deadline, Promise!Begin, Promise!Gathering

\* The contract takes no entry any more when it has paid.
LEMMA EntryStakes ==
  ASSUME Sound, NEW a \in Addrs, EnterRound(a)
  PROVE  Promise!Stake(a)
<1>1. opened /\ now < closesAt /\ now \in Nat /\ closesAt \in Nat
  BY RoomAssumption DEF EnterRound, Enter, Sound, Basic, RoomTypeOK, PoolTypeOK
<1>2. payee = NoAddr
  <2>1. Settled => now >= closesAt
    BY EntriesClosed DEF Sound, PayFacts
  <2> QED
    BY <1>1, <2>1 DEF Settled
<1> QED
  BY <1>2 DEF EnterRound, Enter, roomVars, Promise!Stake

\* The settlement that is mined pays the leader of a race that is over, all but the rake.
LEMMA SettlementPays ==
  ASSUME Sound, Deadline, MineSettle
  PROVE  (\E i \in DOMAIN order : Promise!Pay(i)) \/ UNCHANGED Spoken
<1>1. CASE UNCHANGED poolVars
  BY <1>1 DEF MineSettle, roomVars, poolVars, Spoken
<1>2. CASE PayOut(Wallet[winner], payout, now)
  <2>1. settleTx = "pending" /\ payout = pot - Rake(pot)
    BY <1>2 DEF MineSettle, Sound, PayFacts, PayoutMatchesPool
  <2>2. order # <<>> /\ winner = Leader
    BY <2>1, EntriesClosed DEF Sound
  <2>3. state = "done"
    BY <2>1 DEF Sound, Basic, WinnerHasWallet, RaceFacts
  <2>4. endsAt # 0 /\ now >= endsAt
    BY <2>3 DEF Deadline
  <2>5. RoomTypeOK /\ NoDuplicates /\ order \in Seq(Ids)
    BY DEF Sound, Basic, Roster, RoomTypeOK
  <2>6. /\ Leader \in Range(order)
        /\ \A b \in Range(order) : RanksAhead(Leader, b)
    BY <2>2, <2>5, LeaderRanksFirst
  <2>7. PICK i \in DOMAIN order : order[i] = Leader
    BY <2>6 DEF Range
  <2>8. \A j \in DOMAIN order : Position(order[j]) = j
    BY <2>5, PositionIsPlace
  <2>9. \A j \in DOMAIN order : order[j] \in Range(order)
    BY DEF Range
  <2>10. Promise!Leads(i)
    BY <2>6, <2>7, <2>8, <2>9 DEF RanksAhead, Promise!Leads
  <2>11. /\ payee = NoAddr /\ payee' = Wallet[order[i]]
         /\ paid' = pot - (pot * RakeBps) \div 10000
         /\ UNCHANGED <<entered, pot>>
    BY <1>2, <2>1, <2>2, <2>7 DEF PayOut, Settled, Rake
  <2>12. UNCHANGED <<now, endsAt, order, score>>
    BY DEF MineSettle, roomVars
  <2> QED
    BY <2>4, <2>10, <2>11, <2>12 DEF Promise!Pay, Promise!Over
<1> QED
  BY <1>1, <1>2 DEF MineSettle

\* Every step of the room, its timer, the contract or the clock is one of the promise.
LEMMA StepIsPromised ==
  ASSUME Sound, Deadline, [Next]_vars
  PROVE  Promise!Next \/ UNCHANGED Spoken
<1> USE DEF Promise!Next
<1>1. CASE UNCHANGED vars
  BY <1>1 DEF vars, roomVars, poolVars, Spoken
<1>2. CASE Server
  <2>1. ASSUME NEW id \in Ids, Create(id)
        PROVE  UNCHANGED Spoken
    BY <2>1 DEF Create, Publish, poolVars, Spoken
  <2>2. CASE Poll
    BY <2>2 DEF Poll, Get, MaybeFinish, poolVars, Spoken
  <2>3. CASE CreateCall
    BY <2>3 DEF CreateCall, PickRound, SendCreateRound, AwaitCreateRound, PublishRound,
      Drop, MaybeFinish, roomVars, poolVars, Spoken
  <2>4. CASE ScheduleSettle \/ FireTimer
    BY <2>4 DEF ScheduleSettle, FireTimer, MaybeFinish, roomVars, poolVars, Spoken
  <2>5. CASE SettleCall
    BY <2>5 DEF SettleCall, ReadRound, SendSettle, AwaitSettle, roomVars, poolVars, Spoken
  <2>6. ASSUME NEW id \in Ids, Join(id) \/ Start(id)
        PROVE  Promise!Next \/ UNCHANGED Spoken
    BY <2>6, JoinEnrols, StartBegins
  <2>7. ASSUME NEW id \in Ids, NEW raw \in Inputs, Submit(id, raw)
        PROVE  Promise!Next \/ UNCHANGED Spoken
    BY <2>7, SubmitGains
  <2> QED
    BY <1>2, <2>1, <2>2, <2>3, <2>4, <2>5, <2>6, <2>7 DEF Server, Request
<1>3. CASE MineCreateRound
  BY <1>3 DEF MineCreateRound, OpenRound, roomVars, poolVars, Spoken
<1>4. CASE MineSettle
  BY <1>4, SettlementPays
<1>5. ASSUME NEW a \in Addrs, EnterRound(a)
      PROVE  Promise!Next
  BY <1>5, EntryStakes
<1>6. CASE ClockTick
  BY <1>6 DEF ClockTick, Tick, roomVars, poolVars, Promise!Pass
<1>7. CASE Crash
  BY <1>7 DEF Crash, roomVars, poolVars, Spoken
<1> QED
  BY <1>1, <1>2, <1>3, <1>4, <1>5, <1>6, <1>7 DEF Next, Chain

\* A staked room promises what WinnerTakesAll says: the points stand when the time of
\* the race is up, and the pot less the rake goes once, to whoever leads then.
THEOREM PromiseKept == Spec => KeepsThePromise
<1>1. Init => Deadline
  BY DEF Init, RoomInit, Deadline
<1>2. Sound /\ Deadline /\ [Next]_vars => Deadline'
  BY StepKeepsDeadline DEF Sound
<1>3. Spec => []Deadline
  BY <1>1, <1>2, Soundness, PTL DEF Spec
<1>4. Init => Promise!Init
  BY DEF Init, RoomInit, PoolInit, Promise!Init
<1>5. Sound /\ Deadline /\ [Next]_vars => [Promise!Next]_(Promise!wtaVars)
  BY StepIsPromised DEF Promise!wtaVars, Spoken
<1> QED
  BY <1>3, <1>4, <1>5, Soundness, PTL DEF Spec, KeepsThePromise, Promise!Spec
=============================================================================
