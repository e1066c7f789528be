--------------------------- MODULE WinnerTakesAll ---------------------------
(***************************************************************************)
(* What a staked race promises its players: everyone who races has put the *)
(* fee into the pot; points are gained while the race runs and stand from  *)
(* the moment its time is up, whether or not anybody looks; the pot, less  *)
(* the house's share, goes once and whole to whoever leads when the race   *)
(* is over, and nobody pays in after it has gone.                          *)
(***************************************************************************)
EXTENDS Integers, Sequences, Functions

CONSTANTS
  Players,  \* who may race
  Owner,    \* the account behind each player who has one
  Accounts,
  Nobody,   \* not an account
  Seats,    \* how many may race
  Length,   \* how long a race lasts
  Gains,    \* what one word can be worth
  Fee,
  RakeBps   \* the house's share, out of 10000

VARIABLES
  clock,
  deadline,  \* when the race is over; 0 before it begins
  racers,    \* in the order they took their seats
  points,
  stakers,   \* accounts that paid the fee
  pot,
  payee,
  paid

wtaVars == <<clock, deadline, racers, points, stakers, pot, payee, paid>>

Gathering == deadline = 0
Over == deadline # 0 /\ clock >= deadline

Init ==
  /\ clock = 0
  /\ deadline = 0
  /\ racers = <<>>
  /\ points = [p \in Players |-> 0]
  /\ stakers = {}
  /\ pot = 0
  /\ payee = Nobody
  /\ paid = 0

Stake(a) ==
  /\ payee = Nobody
  /\ a \notin stakers
  /\ stakers' = stakers \cup {a}
  /\ pot' = pot + Fee
  /\ UNCHANGED <<clock, deadline, racers, points, payee, paid>>

Enrol(p) ==
  /\ Gathering
  /\ p \notin Range(racers)
  /\ Len(racers) < Seats
  /\ p \in DOMAIN Owner
  /\ Owner[p] \in stakers
  /\ racers' = Append(racers, p)
  /\ UNCHANGED <<clock, deadline, points, stakers, pot, payee, paid>>

Begin ==
  /\ Gathering
  /\ deadline' = clock + Length
  /\ UNCHANGED <<clock, racers, points, stakers, pot, payee, paid>>

Gain(p, n) ==
  /\ ~Gathering /\ ~Over
  /\ p \in Range(racers)
  /\ points' = [points EXCEPT ![p] = @ + n]
  /\ UNCHANGED <<clock, deadline, racers, stakers, pot, payee, paid>>

\* Among equals the one who took a seat first.
Leads(i) ==
  \A j \in DOMAIN racers :
    \/ points[racers[i]] > points[racers[j]]
    \/ points[racers[i]] = points[racers[j]] /\ i <= j

Pay(i) ==
  /\ Over
  /\ payee = Nobody
  /\ Leads(i)
  /\ payee' = Owner[racers[i]]
  /\ paid' = pot - (pot * RakeBps) \div 10000
  /\ UNCHANGED <<clock, deadline, racers, points, stakers, pot>>

Pass ==
  /\ clock' = clock + 1
  /\ UNCHANGED <<deadline, racers, points, stakers, pot, payee, paid>>

Next ==
  \/ \E a \in Accounts : Stake(a)
  \/ \E p \in Players : Enrol(p) \/ \E n \in Gains : Gain(p, n)
  \/ Begin
  \/ \E i \in DOMAIN racers : Pay(i)
  \/ Pass

Spec == Init /\ [][Next]_wtaVars
=============================================================================
