----------------------------- MODULE StakedRoom -----------------------------
(***************************************************************************)
(* A staked room: its round is opened on chain while it is already in the  *)
(* manager's map, a seat needs an on-chain entry, and the start of the     *)
(* race arms one timer whose settlement pays the leader.                   *)
(*                                                                         *)
(* The calls that block without the room's mutex are split where they      *)
(* block: Create (round id, transaction, wait, publication of the round),  *)
(* Start (the mutex is released before the timer is armed) and settleRoom  *)
(* (choice of the winner, read of the round, transaction, wait).  Joins    *)
(* hold the mutex over their RPC and are one step.  A transaction that was *)
(* sent is mined, successfully or reverted, at any later time or never,    *)
(* whether or not anybody still waits for it; a wait gives up after its    *)
(* timeout, and takes a reverted transaction for a mined one.  The chain's *)
(* clock is the server's.                                                  *)
(***************************************************************************)
EXTENDS Room, Pools

CONSTANTS
  Wallet,       \* the address each wallet id spells; other ids are no wallets
  StakeWindow,  \* seconds the round stays open for entries
  SettleSlack   \* seconds the timer waits after that

ASSUME StakeAssumption ==
  /\ DOMAIN Wallet \subseteq Ids
  /\ \A id \in DOMAIN Wallet : Wallet[id] \in Addrs
  /\ StakeWindow \in Nat \ {0}
  /\ SettleSlack \in Nat

VARIABLES
  up,            \* the process runs
  opening,       \* progress of the Create call
  roundEnd,      \* the end time Create has chosen
  createTx,      \* the createRound transaction
  roundSet,      \* the room knows its round
  stakeEndsAt,   \* the room's copy of the end time; 0 is the zero time
  starting,      \* Start has released the mutex and not armed the timer yet
  timer,         \* when the armed timer fires, or NoTimer
  settling,      \* progress of settleRoom
  settleStatus,  \* "none" is the empty status of the code
  winner,        \* the id settleRoom has chosen
  payout,        \* the amount it has computed
  settleTx       \* the settle transaction

createVars == <<opening, roundEnd, createTx, roundSet, stakeEndsAt>>
settleVars == <<starting, timer, settling, settleStatus, winner, payout, settleTx>>
vars == <<now, up, roomVars, poolVars, createVars, settleVars>>

NoTimer == -1
TxStates == {"none", "pending", "mined", "reverted"}

TypeOK ==
  /\ RoomTypeOK
  /\ PoolTypeOK
  /\ up \in BOOLEAN
  /\ opening \in {"idle", "id", "send", "wait", "publish", "ok", "failed"}
  /\ roundEnd \in Nat
  /\ createTx \in TxStates
  /\ roundSet \in BOOLEAN
  /\ stakeEndsAt \in Nat
  /\ starting \in BOOLEAN
  /\ timer \in Nat \cup {NoTimer}
  /\ settling \in {"idle", "chosen", "send", "wait"}
  /\ settleStatus \in {"none", "pending", "settled", "failed"}
  /\ winner \in Ids \cup {NoId}
  /\ payout \in Nat
  /\ settleTx \in TxStates

Init ==
  /\ RoomInit
  /\ PoolInit
  /\ up = TRUE
  /\ opening = "idle" /\ roundEnd = 0 /\ createTx = "none"
  /\ roundSet = FALSE /\ stakeEndsAt = 0
  /\ starting = FALSE /\ timer = NoTimer
  /\ settling = "idle" /\ settleStatus = "none"
  /\ winner = NoId /\ payout = 0 /\ settleTx = "none"

-----------------------------------------------------------------------------
(* Create *)

Create(id) ==
  /\ opening = "idle"
  /\ id \in DOMAIN Wallet
  /\ Publish(id)
  /\ opening' = "id"
  /\ UNCHANGED <<now, poolVars, roundEnd, createTx, roundSet, stakeEndsAt, settleVars>>

\* The error path of every step of Create: the room leaves the map.
Drop ==
  /\ listed' = FALSE
  /\ opening' = "failed"
  /\ UNCHANGED <<state, host, players, order, score, found, letters, endsAt,
                 roundEnd, createTx, roundSet, stakeEndsAt>>

\* The bound on the clock leaves room for the window and the timer.
PickRound ==
  /\ opening = "id"
  /\ \/ Drop
     \/ /\ now + StakeWindow + SettleSlack <= MaxNow
        /\ roundEnd' = now + StakeWindow
        /\ opening' = "send"
        /\ UNCHANGED <<roomVars, createTx, roundSet, stakeEndsAt>>
  /\ UNCHANGED <<now, poolVars, settleVars>>

SendCreateRound ==
  /\ opening = "send"
  /\ \/ Drop
     \/ /\ createTx' = "pending"
        /\ opening' = "wait"
        /\ UNCHANGED <<roomVars, roundEnd, roundSet, stakeEndsAt>>
  /\ UNCHANGED <<now, poolVars, settleVars>>

AwaitCreateRound ==
  /\ opening = "wait"
  /\ \/ createTx = "pending" /\ Drop
     \/ /\ createTx \in {"mined", "reverted"}
        /\ opening' = "publish"
        /\ UNCHANGED <<roomVars, roundEnd, createTx, roundSet, stakeEndsAt>>
  /\ UNCHANGED <<now, poolVars, settleVars>>

\* The room learns its round, and Create answers with a snapshot.
PublishRound ==
  /\ opening = "publish"
  /\ roundSet' = TRUE
  /\ stakeEndsAt' = roundEnd
  /\ opening' = "ok"
  /\ MaybeFinish
  /\ UNCHANGED <<now, poolVars, roundEnd, createTx, settleVars>>

-----------------------------------------------------------------------------
(* Join, Start, Submit, Get *)

\* Mutant: the entry on chain is not looked up.
JoinUnverified(id) ==
  /\ \/ Rejoin(id)
     \/ /\ TakeSeat(id)
        /\ id \in DOMAIN Wallet
        /\ roundSet
  /\ UNCHANGED <<now, poolVars, createVars, settleVars>>

\* While the round is not published the lookup has no round id and fails.
Join(id) ==
  /\ \/ Rejoin(id)
     \/ /\ TakeSeat(id)
        /\ id \in DOMAIN Wallet
        /\ roundSet
        /\ Wallet[id] \in entered
  /\ UNCHANGED <<now, poolVars, createVars, settleVars>>

Start(id) ==
  /\ StartRace(id)
  /\ starting' = TRUE
  /\ UNCHANGED <<now, poolVars, createVars,
                 timer, settling, settleStatus, winner, payout, settleTx>>

Submit(id, raw) ==
  /\ SubmitAccepted(id, raw) \/ SubmitRefused(id, raw)
  /\ UNCHANGED <<now, poolVars, createVars, settleVars>>

Poll ==
  /\ Get
  /\ UNCHANGED <<now, poolVars, createVars, settleVars>>

-----------------------------------------------------------------------------
(* Settlement *)

\* Mutant: the timer waits for the race and not for the entry window.
SettleDueAtRaceEnd == endsAt

\* Mutant: the timer does not wait for the slack.
SettleDueWithoutSlack ==
  IF stakeEndsAt = 0 \/ stakeEndsAt < now THEN now ELSE stakeEndsAt

\* max(now, stakeEndsAt + slack); the zero time is long past.
SettleDue ==
  IF stakeEndsAt = 0 \/ stakeEndsAt + SettleSlack < now
  THEN now ELSE stakeEndsAt + SettleSlack

\* stakeEndsAt is read without the mutex: while Create writes it, the read may see
\* the old value, the new one, or a mixture that lies in the far future.
ScheduleSettle ==
  /\ starting
  /\ starting' = FALSE
  /\ \/ timer' = SettleDue
     \/ /\ opening = "publish"
        /\ \/ timer' = (IF roundEnd + SettleSlack < now THEN now ELSE roundEnd + SettleSlack)
           \/ timer' = NoTimer
  /\ UNCHANGED <<now, roomVars, poolVars, createVars,
                 settling, settleStatus, winner, payout, settleTx>>

\* The timer fires once; a race that still runs then is not looked at again.
FireTimer ==
  /\ timer # NoTimer /\ now >= timer
  /\ timer' = NoTimer
  /\ MaybeFinish
  /\ IF StateNow = "done" /\ settleStatus = "none"
     THEN /\ settleStatus' = "pending"
          /\ winner' = Leader
          /\ settling' = "chosen"
     ELSE UNCHANGED <<settleStatus, winner, settling>>
  /\ UNCHANGED <<now, poolVars, createVars, starting, payout, settleTx>>

FailSettlement ==
  /\ settleStatus' = "failed"
  /\ settling' = "idle"
  /\ UNCHANGED <<payout, settleTx>>

\* Mutant: the rake is taken for a percentage.
PayoutAfterPercent(amount, bps) == amount - (amount * bps) \div 100

\* Mutant: the rake is rounded up.
PayoutAfterCeilingRake(amount, bps) == amount - (amount * bps + 9999) \div 10000

PayoutAfterRake(amount, bps) == amount - (amount * bps) \div 10000

\* No eligible winner, an RPC error, or the amount computed from the round's pot.
ReadRound ==
  /\ settling = "chosen"
  /\ \/ FailSettlement
     \/ /\ winner \in DOMAIN Wallet
        /\ payout' = PayoutAfterRake(pot, RakeBps)
        /\ settling' = "send"
        /\ UNCHANGED <<settleStatus, settleTx>>
  /\ UNCHANGED <<now, roomVars, poolVars, createVars, starting, timer, winner>>

SendSettle ==
  /\ settling = "send"
  /\ \/ FailSettlement
     \/ /\ settleTx' = "pending"
        /\ settling' = "wait"
        /\ UNCHANGED <<settleStatus, payout>>
  /\ UNCHANGED <<now, roomVars, poolVars, createVars, starting, timer, winner>>

AwaitSettle ==
  /\ settling = "wait"
  /\ \/ settleTx = "pending" /\ FailSettlement
     \/ /\ settleTx \in {"mined", "reverted"}
        /\ settleStatus' = "settled"
        /\ settling' = "idle"
        /\ UNCHANGED <<payout, settleTx>>
  /\ UNCHANGED <<now, roomVars, poolVars, createVars, starting, timer, winner>>

-----------------------------------------------------------------------------
(* The chain, the clock and the end of the process *)

MineCreateRound ==
  /\ createTx = "pending"
  /\ \/ OpenRound(roundEnd, now) /\ createTx' = "mined"
     \/ createTx' = "reverted" /\ UNCHANGED poolVars
  /\ UNCHANGED <<now, up, roomVars, opening, roundEnd, roundSet, stakeEndsAt, settleVars>>

MineSettle ==
  /\ settleTx = "pending"
  /\ \/ PayOut(Wallet[winner], payout, now) /\ settleTx' = "mined"
     \/ settleTx' = "reverted" /\ UNCHANGED poolVars
  /\ UNCHANGED <<now, up, roomVars, createVars,
                 starting, timer, settling, settleStatus, winner, payout>>

EnterRound(a) ==
  /\ Enter(a, now)
  /\ UNCHANGED <<now, up, roomVars, createVars, settleVars>>

ClockTick ==
  /\ Tick
  /\ UNCHANGED <<up, roomVars, poolVars, createVars, settleVars>>

\* Rooms, timers and calls in progress are lost; what is kept here of them is what
\* was true when the process died, and no step of the server follows.
Crash ==
  /\ up
  /\ up' = FALSE
  /\ UNCHANGED <<now, roomVars, poolVars, createVars, settleVars>>

Request ==
  \/ \E id \in Ids : Create(id) \/ Join(id) \/ Start(id)
  \/ \E id \in Ids, raw \in Inputs : Submit(id, raw)
  \/ Poll

CreateCall == PickRound \/ SendCreateRound \/ AwaitCreateRound \/ PublishRound

SettleCall == ReadRound \/ SendSettle \/ AwaitSettle

Server == up /\ UNCHANGED up /\ (Request \/ CreateCall \/ ScheduleSettle \/ FireTimer \/ SettleCall)

Chain == MineCreateRound \/ MineSettle \/ \E a \in Addrs : EnterRound(a)

Next == Server \/ Chain \/ ClockTick \/ Crash

Running(A) == up /\ UNCHANGED up /\ A

(***************************************************************************)
(* Time passes, a runnable goroutine runs, a due timer fires.  Nothing is  *)
(* assumed of clients, of mining, or of the process staying up.            *)
(***************************************************************************)
Fairness ==
  /\ WF_vars(ClockTick)
  /\ WF_vars(Running(CreateCall))
  /\ WF_vars(Running(ScheduleSettle))
  /\ WF_vars(Running(FireTimer))
  /\ WF_vars(Running(SettleCall))

Spec == Init /\ [][Next]_vars /\ Fairness

-----------------------------------------------------------------------------
(* Properties *)

\* Everyone who has a seat has paid the fee on chain, from a wallet of their own
\* spelling: a race among stakers is never joined by somebody who did not stake,
\* the host included.
SeatsArePaidFor == \A id \in players : id \in DOMAIN Wallet /\ Wallet[id] \in entered

\* The amount that is signed is the pot the contract holds when it pays, less the
\* rake: entries are closed by the time settleRoom reads the round, however long
\* the read, the signature and the transaction take.
PayoutMatchesPool ==
  settling \in {"send", "wait"} \/ settleTx = "pending" => payout = pot - Rake(pot)

\* Whatever happens between the end of the race and the moment the settlement is
\* mined, the wallet that is paid is the one of the player who leads the final
\* ranking, it had entered the round, and it gets all that the contract ever held
\* but the rake.
LeaderIsPaid ==
  Settled => /\ payee \in entered
             /\ payee = Wallet[Leader]
             /\ paid = pot - Rake(pot)

\* A race that has players and is over by the time its timer may fire.
TimelyRace ==
  /\ order # <<>>
  /\ state \in {"racing", "done"}
  /\ endsAt <= stakeEndsAt + SettleSlack

\* The settlement of a timely race is never forgotten: it is in the hands of Start,
\* of the timer, or of settleRoom, which the timer's one shot always lets through.
SettlementNotLost ==
  up /\ TimelyRace => starting \/ timer # NoTimer \/ settleStatus # "none"

\* And it comes to an end, one way or the other, unless the process dies.
TimelyRaceSettles == TimelyRace ~> settleStatus \in {"settled", "failed"} \/ ~up

\* The room, its timer and the contract together keep the promise of
\* WinnerTakesAll, although the room learns of the end of a race only by being
\* looked at and the payment is computed, signed and mined much later.
Promise == INSTANCE WinnerTakesAll WITH
  Players <- Ids, Owner <- Wallet, Accounts <- Addrs, Nobody <- NoAddr,
  Seats <- MaxPlayers, Length <- RaceSeconds, Gains <- Range(Points),
  clock <- now, deadline <- endsAt, racers <- order, points <- score,
  stakers <- entered

KeepsThePromise == Promise!Spec

\* "when the race ends, the backend signs and broadcasts a winner-takes-all payout".
StakedRacesSettle == state = "racing" /\ order # <<>> ~> settleStatus # "none" \/ ~up

\* "a staked room is never created without real chain backing".
RoomHasItsRound == opening = "ok" => opened
=============================================================================
