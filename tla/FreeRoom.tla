------------------------------ MODULE FreeRoom ------------------------------
(***************************************************************************)
(* A free room, from Manager.Create to the end of its race.                *)
(*                                                                         *)
(* Create publishes the room in the manager's map and only afterwards, and *)
(* without the room's mutex, adds the host to it.  A client that finds the *)
(* room in the public list can join it, and the host can start it, while   *)
(* Create is between those two points; its addPlayer is therefore split    *)
(* where other goroutines can run: the entry in the map of players, the    *)
(* read of the join order, the write of the longer one.  When joins fell   *)
(* between the read and the write, either slice may be stored last, and    *)
(* where append found a free slot both have written the same element.      *)
(* A fatal "concurrent map writes" ends the process and is the end of the  *)
(* behaviour, like a crash at any other point: nothing of a free room      *)
(* outlives it.                                                            *)
(***************************************************************************)
EXTENDS Room

CONSTANT Capacities   \* lengths at which append allocates a new array: 0, 1, 2, 4, 8

ASSUME CapacityAssumption == Capacities \subseteq Nat

VARIABLES
  creating,   \* progress of the Create call
  seen        \* the join order as Create read it

freeVars == <<now, roomVars, creating, seen>>

TypeOK ==
  /\ RoomTypeOK
  /\ creating \in {"idle", "seat", "read", "append", "reply", "done"}
  /\ seen \in Seq(Ids)

Init ==
  /\ RoomInit
  /\ creating = "idle"
  /\ seen = <<>>

Create(id) ==
  /\ creating = "idle"
  /\ Publish(id)
  /\ creating' = "seat"
  /\ UNCHANGED <<now, seen>>

\* Mutant: the entry in the map of players is forgotten.
SeatHostOrderOnly ==
  /\ creating = "seat"
  /\ creating' = "read"
  /\ UNCHANGED <<now, roomVars, seen>>

\* The host's entry in the map of players, a fresh one if it has joined meanwhile.
SeatHost ==
  /\ creating = "seat"
  /\ players' = players \cup {host}
  /\ score' = [score EXCEPT ![host] = 0]
  /\ found' = [found EXCEPT ![host] = {}]
  /\ creating' = "read"
  /\ UNCHANGED <<now, listed, state, host, order, letters, endsAt, seen>>

ReadOrder ==
  /\ creating = "read"
  /\ seen' = order
  /\ creating' = "append"
  /\ UNCHANGED <<now, roomVars>>

AppendHost ==
  /\ creating = "append"
  /\ \/ order' = Append(seen, host)
     \/ order # seen /\ order' = order
     \/ LET slot == Len(seen) + 1 IN
        /\ order # seen /\ Len(seen) \notin Capacities
        /\ order' \in {SubSeq(order, 1, slot), [order EXCEPT ![slot] = host]}
  /\ creating' = "reply"
  /\ UNCHANGED <<now, listed, state, host, players, score, found, letters, endsAt, seen>>

\* The snapshot Create answers with.
CreateReply ==
  /\ creating = "reply"
  /\ MaybeFinish
  /\ creating' = "done"
  /\ UNCHANGED <<now, seen>>

Join(id) ==
  /\ TakeSeat(id) \/ Rejoin(id)
  /\ UNCHANGED <<now, creating, seen>>

Start(id) ==
  /\ StartRace(id)
  /\ UNCHANGED <<now, creating, seen>>

Submit(id, raw) ==
  /\ SubmitAccepted(id, raw) \/ SubmitRefused(id, raw)
  /\ UNCHANGED <<now, creating, seen>>

Poll ==
  /\ Get
  /\ UNCHANGED <<now, creating, seen>>

ClockTick ==
  /\ Tick
  /\ UNCHANGED <<roomVars, creating, seen>>

Next ==
  \/ \E id \in Ids : Create(id) \/ Join(id) \/ Start(id)
  \/ \E id \in Ids, raw \in Inputs : Submit(id, raw)
  \/ SeatHost \/ ReadOrder \/ AppendHost \/ CreateReply
  \/ Poll \/ ClockTick

\* Clients poll a room about every 1.5 s and time passes.
Fairness == WF_freeVars(Poll) /\ WF_freeVars(ClockTick)

Spec == Init /\ [][Next]_freeVars /\ Fairness

-----------------------------------------------------------------------------
(* Properties *)

\* rankedIDsLocked dereferences the map entry of every id in the join order: no
\* interleaving of Create's unlocked addPlayer with joins leaves an id there
\* without its entry.
RankedPlayersExist == Range(order) \subseteq players

\* A player's score is what its accepted words are worth, each counted once,
\* whatever spelling it was sent in and even when Create resets the host's entry
\* under a running race.
WorthOf(S) == SumFunctionOnSet(Points, S)

ScoreIsWorthOfFound == \A id \in Ids : score[id] = WorthOf(found[id])

\* A full room takes in nobody but its own host, whom Create seats without
\* looking: however Create and the joins interleave, a room exceeds MaxPlayers only
\* by that seat, and no join makes use of it.
JoinsRespectSeats ==
  [][Cardinality(players) >= MaxPlayers => players' \subseteq players \cup {host}]_freeVars

\* Once the clock has passed the end of the race, and Create has answered, the
\* scoreboard and the leader stand, although nobody may have looked at the room
\* since and its state still says racing.
Over == state \in {"racing", "done"} /\ now >= endsAt

ResultStands ==
  [][Over /\ creating = "done" =>
       score' = score /\ found' = found /\ Leader' = Leader]_freeVars

\* With clients polling, every started race gets to done.
RaceEnds == state = "racing" ~> state = "done"

\* "leaderLocked returns the top-scoring player id".
LeaderIsTopScorer ==
  state = "done" /\ creating = "done" =>
    \A id \in players : score[Leader] >= score[id]
=============================================================================
