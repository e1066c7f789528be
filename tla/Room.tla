-------------------------------- MODULE Room --------------------------------
(***************************************************************************)
(* One room of internal/room: the state of the Room struct that belongs to *)
(* the race itself, and what the operations of the room manager do to it   *)
(* while they hold the room's mutex.  FreeRoom and StakedRoom extend this  *)
(* module with how a room is created, who may join and what follows the    *)
(* race.                                                                   *)
(*                                                                         *)
(* A player id is a string the client sends; nothing is known of it but    *)
(* whether it is a wallet address (StakedRoom).  A submission is a raw     *)
(* spelling; Canon is what ToUpper(TrimSpace(.)) makes of it.  A rack is   *)
(* represented by the set of words the scorer accepts on it.               *)
(***************************************************************************)
EXTENDS Integers, Sequences, FiniteSets, Functions

CONSTANTS
  Ids,          \* player ids
  NoId,         \* the empty id ""
  Words,        \* canonical (upper-case, trimmed) words
  Inputs,       \* raw spellings a client submits
  Canon,        \* the canonical word of each raw spelling
  Points,       \* what the scorer gives for each accepted word
  Racks,        \* the racks that may be dealt, each the set of its words
  MaxPlayers,   \* seats per room
  RaceSeconds,  \* length of a race
  MaxNow        \* bound on the clock

ASSUME RoomAssumption ==
  /\ NoId \notin Ids
  /\ Canon \in [Inputs -> Words]
  /\ Points \in [Words -> Nat \ {0}]
  /\ Racks \subseteq SUBSET Words
  /\ MaxPlayers \in Nat \ {0}
  /\ RaceSeconds \in Nat \ {0}
  /\ MaxNow \in Nat

VARIABLES
  now,      \* wall clock, in seconds
  listed,   \* the manager's map has an entry for the room
  state,    \* "none" before creation, then "lobby", "racing", "done"
  host,     \* id that created the room
  players,  \* domain of the map of players
  order,    \* ids in join order, the list the ranking is made from
  score,    \* points of each player
  found,    \* canonical words each player was given points for
  letters,  \* the rack dealt at the start
  endsAt    \* end of the race; 0 until it starts

roomVars == <<listed, state, host, players, order, score, found, letters, endsAt>>

RoomTypeOK ==
  /\ now \in 0..MaxNow
  /\ listed \in BOOLEAN
  /\ state \in {"none", "lobby", "racing", "done"}
  /\ host \in Ids \cup {NoId}
  /\ players \in SUBSET Ids
  /\ order \in Seq(Ids)
  /\ score \in [Ids -> Nat]
  /\ found \in [Ids -> SUBSET Words]
  /\ letters \in SUBSET Words
  /\ endsAt \in Nat

RoomInit ==
  /\ now = 0
  /\ listed = FALSE
  /\ state = "none"
  /\ host = NoId
  /\ players = {}
  /\ order = <<>>
  /\ score = [id \in Ids |-> 0]
  /\ found = [id \in Ids |-> {}]
  /\ letters = {}
  /\ endsAt = 0

(***************************************************************************)
(* The ranking.  Higher scores come first, ties go to the earlier position *)
(* in the join order; the map of positions keeps the last one of an id     *)
(* that occurs twice.                                                      *)
(***************************************************************************)
Position(id) ==
  CHOOSE i \in DOMAIN order :
    order[i] = id /\ \A j \in DOMAIN order : order[j] = id => j <= i

RanksAhead(a, b) ==
  \/ score[a] > score[b]
  \/ score[a] = score[b] /\ Position(a) <= Position(b)

Leader ==
  IF order = <<>> THEN NoId
  ELSE CHOOSE a \in Range(order) : \A b \in Range(order) : RanksAhead(a, b)

(***************************************************************************)
(* A race ends by being looked at: whoever takes the mutex after endsAt    *)
(* moves the room from racing to done.                                     *)
(***************************************************************************)
Expired == state = "racing" /\ now >= endsAt

\* Mutant: only the requests that change the room end its race.
StateAsStored == state

StateNow == IF Expired THEN "done" ELSE state

MaybeFinish ==
  /\ state' = StateNow
  /\ UNCHANGED <<listed, host, players, order, score, found, letters, endsAt>>

\* A fresh entry in the map of players, and the id at the end of the order.
AddPlayer(id) ==
  /\ players' = players \cup {id}
  /\ score' = [score EXCEPT ![id] = 0]
  /\ found' = [found EXCEPT ![id] = {}]
  /\ order' = Append(order, id)

\* Mutant: the lobby has no host.
PublishHostless(id) ==
  /\ ~listed /\ state = "none"
  /\ listed' = TRUE
  /\ state' = "lobby"
  /\ UNCHANGED <<host, players, order, score, found, letters, endsAt>>

\* The manager publishes a lobby under a fresh code.
Publish(id) ==
  /\ ~listed /\ state = "none"
  /\ listed' = TRUE
  /\ state' = "lobby"
  /\ host' = id
  /\ UNCHANGED <<players, order, score, found, letters, endsAt>>

\* Mutant: the last seat is given twice.
MayTakeSeatAtLimit(id) ==
  /\ id \notin players
  /\ state = "lobby"
  /\ Cardinality(players) <= MaxPlayers

(***************************************************************************)
(* Join: a player already seated gets a snapshot; anyone else must come    *)
(* while the room is a lobby with a seat left.                             *)
(***************************************************************************)
MayTakeSeat(id) ==
  /\ id \notin players
  /\ state = "lobby"
  /\ Cardinality(players) < MaxPlayers

TakeSeat(id) ==
  /\ listed
  /\ MayTakeSeat(id)
  /\ AddPlayer(id)
  /\ UNCHANGED <<listed, state, host, letters, endsAt>>

Rejoin(id) ==
  /\ listed
  /\ id \in players
  /\ MaybeFinish

\* Start: the host deals the rack and sets the end of the race.
StartRace(id) ==
  /\ listed
  /\ id = host
  /\ state = "lobby"
  /\ now + RaceSeconds <= MaxNow
  /\ letters' \in Racks
  /\ state' = "racing"
  /\ endsAt' = now + RaceSeconds
  /\ UNCHANGED <<listed, host, players, order, score, found>>

\* Mutant: a word found before is accepted again.
AcceptedAgain(id, w) ==
  /\ StateNow = "racing"
  /\ id \in players
  /\ w \in letters

\* Mutant: the end of the race is not looked at first.
AcceptedLate(id, w) ==
  /\ state = "racing"
  /\ id \in players
  /\ w \notin found[id]
  /\ w \in letters

\* Mutant: a word is accepted whenever there is a rack.
AcceptedAnyTime(id, w) ==
  /\ id \in players
  /\ w \notin found[id]
  /\ w \in letters

(***************************************************************************)
(* Submit: an accepted word scores once; every other submission leaves at  *)
(* most the end of the race behind, as a snapshot does.                    *)
(***************************************************************************)
Accepted(id, w) ==
  /\ StateNow = "racing"
  /\ id \in players
  /\ w \notin found[id]
  /\ w \in letters

SubmitAccepted(id, raw) ==
  LET w == Canon[raw] IN
  /\ listed
  /\ Accepted(id, w)
  /\ found' = [found EXCEPT ![id] = @ \cup {w}]
  /\ score' = [score EXCEPT ![id] = @ + Points[w]]
  /\ UNCHANGED <<listed, state, host, players, order, letters, endsAt>>

SubmitRefused(id, raw) ==
  /\ listed
  /\ ~Accepted(id, Canon[raw])
  /\ MaybeFinish

\* Get: a snapshot for any viewer.
Get == listed /\ MaybeFinish

\* The clock, bounded by MaxNow.
Tick == now < MaxNow /\ now' = now + 1
=============================================================================
