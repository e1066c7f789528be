-------------------------------- MODULE Pools --------------------------------
(***************************************************************************)
(* One round of the WordBreakPools contract, as the Go code relies on it:  *)
(* the contract is not in the repository.  A round is opened with an end   *)
(* time; addresses enter it until then, each paying the fee into the pot;  *)
(* from then on a referee-signed settlement pays out, once, at most the    *)
(* pot minus the rake.  The contract pays whatever address was signed.     *)
(***************************************************************************)
EXTENDS Integers

CONSTANTS
  Addrs,    \* wallet addresses
  NoAddr,   \* payee of a round that is not settled
  Fee,      \* entry fee, in wei
  RakeBps   \* the house's share, out of 10000

ASSUME PoolAssumption ==
  /\ NoAddr \notin Addrs
  /\ Fee \in Nat \ {0}
  /\ RakeBps \in 0..10000

VARIABLES
  opened,    \* the round exists
  closesAt,  \* its end time
  entered,   \* addresses that paid the fee
  pot,       \* fees escrowed
  payee,     \* who was paid
  paid       \* how much

poolVars == <<opened, closesAt, entered, pot, payee, paid>>

PoolTypeOK ==
  /\ opened \in BOOLEAN
  /\ closesAt \in Nat
  /\ entered \in SUBSET Addrs
  /\ pot \in Nat
  /\ payee \in Addrs \cup {NoAddr}
  /\ paid \in Nat

PoolInit ==
  /\ opened = FALSE
  /\ closesAt = 0
  /\ entered = {}
  /\ pot = 0
  /\ payee = NoAddr
  /\ paid = 0

Settled == payee # NoAddr

Rake(amount) == (amount * RakeBps) \div 10000

OpenRound(end, time) ==
  /\ ~opened
  /\ time < end
  /\ opened' = TRUE
  /\ closesAt' = end
  /\ UNCHANGED <<entered, pot, payee, paid>>

Enter(a, time) ==
  /\ opened
  /\ time < closesAt
  /\ a \notin entered
  /\ entered' = entered \cup {a}
  /\ pot' = pot + Fee
  /\ UNCHANGED <<opened, closesAt, payee, paid>>

PayOut(a, amount, time) ==
  /\ opened
  /\ time >= closesAt
  /\ ~Settled
  /\ amount <= pot - Rake(pot)
  /\ payee' = a
  /\ paid' = amount
  /\ UNCHANGED <<opened, closesAt, entered, pot>>
=============================================================================
