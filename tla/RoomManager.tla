---------------------------- MODULE RoomManager ----------------------------
(***************************************************************************)
(* The manager of internal/room with several rooms and several requests at *)
(* once: the map from codes to rooms, the public list, and the two kinds   *)
(* of mutex.  What happens inside one room is Room's; here a room is its   *)
(* seats and whether it is a lobby still.                                  *)
(*                                                                         *)
(* A request finds its room under the manager's mutex and keeps the        *)
(* pointer, so that it may work on a room that is dropped meanwhile.  A    *)
(* critical section without a call or a loop is one step, guarded by the   *)
(* mutex being free; freshCode, which loops under the manager's mutex, and *)
(* Join of a staked room, which asks the chain under the room's, hold      *)
(* theirs from one step to another.                                        *)
(***************************************************************************)
EXTENDS Integers, FiniteSets

CONSTANTS
  Procs,      \* clients, each with one request at a time; also their player ids
  MaxRooms,   \* bound on the rooms that are created
  Codes,
  MaxPlayers,
  Configs,    \* combinations of clients, rooms and codes; see config
  NoRoom, NoCode, NoProc

Rooms == 1..MaxRooms
Kinds == [public : BOOLEAN, staked : BOOLEAN]

ASSUME RoomManagerAssumption ==
  /\ NoCode \notin Codes /\ NoProc \notin Procs /\ NoRoom \notin Rooms
  /\ MaxRooms \in Nat /\ MaxPlayers \in Nat \ {0}
  /\ Configs \subseteq [procs : SUBSET Procs, rooms : 0..MaxRooms, codes : SUBSET Codes,
                 kinds : SUBSET Kinds]

VARIABLES
  config,     \* the clients, the number and kinds of rooms, the codes; never changes
  rooms,      \* m.rooms
  mu,         \* m.mu: the request that holds it
  \* of each room
  state, code, host, public, staked,
  opened,     \* its roundID is set
  seats,      \* players
  mutex,      \* r.mu: the request that holds it
  \* of each request
  at,         \* where it is
  want,       \* the operation it wants on the room it looks up
  of,         \* the room or, before it is looked up, the code it works on
  copied, todo, out,   \* List: the rooms copied, those to look at, those returned
  answered    \* history: the rooms whose creation was answered

roomVars == <<state, code, host, public, staked, opened, seats>>
listVars == <<copied, todo, out>>
vars == <<config, rooms, mu, roomVars, mutex, at, want, of, listVars, answered>>

Init ==
  /\ config \in Configs
  /\ rooms = [c \in Codes |-> NoRoom]
  /\ mu = NoProc
  /\ state = [r \in Rooms |-> "none"]
  /\ code = [r \in Rooms |-> NoCode]
  /\ host = [r \in Rooms |-> NoProc]
  /\ public = [r \in Rooms |-> FALSE]
  /\ staked = [r \in Rooms |-> FALSE]
  /\ opened = [r \in Rooms |-> FALSE]
  /\ seats = [r \in Rooms |-> {}]
  /\ mutex = [r \in Rooms |-> NoProc]
  /\ at = [p \in Procs |-> "idle"]
  /\ want = [p \in Procs |-> "none"]
  /\ of = [p \in Procs |-> NoRoom]
  /\ copied = [p \in Procs |-> {}]
  /\ todo = [p \in Procs |-> {}]
  /\ out = [p \in Procs |-> {}]
  /\ answered = {}

Goto(p, stage) == at' = [at EXCEPT ![p] = stage]
Answer(p) ==
  /\ at' = [at EXCEPT ![p] = "idle"]
  /\ of' = [of EXCEPT ![p] = NoRoom]
  /\ want' = [want EXCEPT ![p] = "none"]

-----------------------------------------------------------------------------
(* Create *)

AskCreate(p) ==
  /\ at[p] = "idle"
  /\ \E r \in 1..config.rooms :
       /\ \A s \in Rooms : state[s] = "none" <=> s >= r
       /\ state' = [state EXCEPT ![r] = "new"]
       /\ of' = [of EXCEPT ![p] = r]
  /\ Goto(p, "create")
  /\ UNCHANGED <<rooms, mu, code, host, public, staked, opened, seats, mutex, want, listVars, answered>>

LockManager(p) ==
  /\ at[p] = "create" /\ mu = NoProc
  /\ mu' = p
  /\ Goto(p, "fresh")
  /\ UNCHANGED <<rooms, roomVars, mutex, want, of, listVars, answered>>

\* Mutant: random codes are taken to be distinct.
FreshUnchecked(c) == c # NoCode

\* The loop of freshCode ends with a code that names no room; without one it does not.
Fresh(c) == rooms[c] = NoRoom

Publish(p) ==
  LET r == of[p] IN
  /\ at[p] = "fresh"
  /\ \E c \in config.codes, kind \in config.kinds :
       /\ Fresh(c)
       /\ rooms' = [rooms EXCEPT ![c] = r]
       /\ code' = [code EXCEPT ![r] = c]
       /\ public' = [public EXCEPT ![r] = kind.public]
       /\ staked' = [staked EXCEPT ![r] = kind.staked]
       /\ Goto(p, IF kind.staked THEN "chain" ELSE "seat")
  /\ state' = [state EXCEPT ![r] = "lobby"]
  /\ host' = [host EXCEPT ![r] = p]
  /\ mu' = NoProc
  /\ UNCHANGED <<opened, seats, mutex, want, of, listVars, answered>>

\* freshRoundID and CreateRound, each with a timeout.
OpenRound(p) ==
  /\ at[p] = "chain"
  /\ Goto(p, "open") \/ Goto(p, "drop")
  /\ UNCHANGED <<rooms, mu, roomVars, mutex, want, of, listVars, answered>>

SetRound(p) ==
  /\ at[p] = "open" /\ mutex[of[p]] = NoProc
  /\ opened' = [opened EXCEPT ![of[p]] = TRUE]
  /\ Goto(p, "created")
  /\ UNCHANGED <<rooms, mu, state, code, host, public, staked, seats, mutex, want, of, listVars, answered>>

Drop(p) ==
  /\ at[p] = "drop" /\ mu = NoProc
  /\ rooms' = [rooms EXCEPT ![code[of[p]]] = NoRoom]
  /\ Answer(p)
  /\ UNCHANGED <<mu, roomVars, mutex, listVars, answered>>

\* The host of a free room is seated without the room's mutex.
SeatHost(p) ==
  /\ at[p] = "seat"
  /\ seats' = [seats EXCEPT ![of[p]] = @ \cup {p}]
  /\ Goto(p, "created")
  /\ UNCHANGED <<rooms, mu, state, code, host, public, staked, opened, mutex, want, of, listVars, answered>>

AnswerCreate(p) ==
  /\ at[p] = "created" /\ mutex[of[p]] = NoProc
  /\ answered' = answered \cup {of[p]}
  /\ Answer(p)
  /\ UNCHANGED <<rooms, mu, roomVars, mutex, listVars>>

-----------------------------------------------------------------------------
(* Get, Join, Start and Submit *)

AskRoom(p) ==
  /\ at[p] = "idle"
  /\ \E c \in config.codes : of' = [of EXCEPT ![p] = c]
  /\ \E op \in {"look", "join", "start"} : want' = [want EXCEPT ![p] = op]
  /\ Goto(p, "find")
  /\ UNCHANGED <<rooms, mu, roomVars, mutex, listVars, answered>>

Find(p) ==
  /\ at[p] = "find" /\ mu = NoProc
  /\ IF rooms[of[p]] = NoRoom THEN Answer(p)
     ELSE /\ Goto(p, want[p])
          /\ of' = [of EXCEPT ![p] = rooms[of[p]]]
          /\ want' = [want EXCEPT ![p] = "none"]
  /\ UNCHANGED <<rooms, mu, roomVars, mutex, listVars, answered>>

\* Get, and Submit, which changes nothing of the room that is kept here.
Look(p) ==
  /\ at[p] = "look" /\ mutex[of[p]] = NoProc
  /\ Answer(p)
  /\ UNCHANGED <<rooms, mu, roomVars, mutex, listVars, answered>>

MayJoin(p) ==
  /\ p \notin seats[of[p]]
  /\ state[of[p]] = "lobby"
  /\ Cardinality(seats[of[p]]) < MaxPlayers

\* Mutant: nobody is asked whether the player has paid.
JoinUnverified(p) ==
  /\ at[p] = "join" /\ mutex[of[p]] = NoProc
  /\ seats' = IF MayJoin(p) THEN [seats EXCEPT ![of[p]] = @ \cup {p}] ELSE seats
  /\ Answer(p)
  /\ UNCHANGED <<rooms, mu, state, code, host, public, staked, opened, mutex, listVars, answered>>

Join(p) ==
  /\ at[p] = "join" /\ mutex[of[p]] = NoProc
  /\ \/ /\ MayJoin(p) /\ staked[of[p]]
        /\ mutex' = [mutex EXCEPT ![of[p]] = p]
        /\ Goto(p, "verify")
        /\ UNCHANGED <<seats, of, want>>
     \/ /\ ~(MayJoin(p) /\ staked[of[p]])
        /\ seats' = IF MayJoin(p) THEN [seats EXCEPT ![of[p]] = @ \cup {p}] ELSE seats
        /\ Answer(p)
        /\ UNCHANGED mutex
  /\ UNCHANGED <<rooms, mu, state, code, host, public, staked, opened, listVars, answered>>

\* Mutant: an early return without the unlock.
UnlockSeated(p) == IF p \in seats'[of[p]] THEN NoProc ELSE p

Unlock(p) == NoProc

\* HasEntered under the room's mutex; nobody has entered a room without its round.
Verify(p) ==
  /\ at[p] = "verify"
  /\ \/ /\ opened[of[p]]
        /\ seats' = [seats EXCEPT ![of[p]] = @ \cup {p}]
     \/ UNCHANGED seats
  /\ mutex' = [mutex EXCEPT ![of[p]] = Unlock(p)]
  /\ Answer(p)
  /\ UNCHANGED <<rooms, mu, state, code, host, public, staked, opened, listVars, answered>>

Start(p) ==
  /\ at[p] = "start" /\ mutex[of[p]] = NoProc
  /\ state' = IF p = host[of[p]] THEN [state EXCEPT ![of[p]] = "racing"] ELSE state
  /\ Answer(p)
  /\ UNCHANGED <<rooms, mu, code, host, public, staked, opened, seats, mutex, listVars, answered>>

-----------------------------------------------------------------------------
(* List *)

AskList(p) ==
  /\ at[p] = "idle"
  /\ Goto(p, "copy")
  /\ UNCHANGED <<rooms, mu, roomVars, mutex, want, of, listVars, answered>>

Published == {rooms[c] : c \in Codes} \ {NoRoom}
Joinable(r) == state[r] = "lobby" /\ public[r] /\ Cardinality(seats[r]) < MaxPlayers

\* The next room of the copy, in an order nobody knows; or the end of the list.
NextOf(p, left) ==
  IF left = {} THEN Goto(p, "listed") /\ of' = [of EXCEPT ![p] = NoRoom]
  ELSE Goto(p, "each") /\ \E r \in left : of' = [of EXCEPT ![p] = r]

Copy(p) ==
  /\ at[p] = "copy" /\ mu = NoProc
  /\ copied' = [copied EXCEPT ![p] = Published]
  /\ todo' = [todo EXCEPT ![p] = Published]
  /\ NextOf(p, Published)
  /\ UNCHANGED <<rooms, mu, roomVars, mutex, want, out, answered>>

\* Mutant: a room that is locked is left out and not waited for.
EachTryLock(p) ==
  /\ at[p] = "each"
  /\ out' = IF mutex[of[p]] = NoProc /\ Joinable(of[p])
            THEN [out EXCEPT ![p] = @ \cup {of[p]}] ELSE out
  /\ todo' = [todo EXCEPT ![p] = @ \ {of[p]}]
  /\ NextOf(p, todo'[p])
  /\ UNCHANGED <<rooms, mu, roomVars, mutex, want, copied, answered>>

Each(p) ==
  /\ at[p] = "each" /\ mutex[of[p]] = NoProc
  /\ out' = IF Joinable(of[p]) THEN [out EXCEPT ![p] = @ \cup {of[p]}] ELSE out
  /\ todo' = [todo EXCEPT ![p] = @ \ {of[p]}]
  /\ NextOf(p, todo'[p])
  /\ UNCHANGED <<rooms, mu, roomVars, mutex, want, copied, answered>>

AnswerList(p) ==
  /\ at[p] = "listed"
  /\ copied' = [copied EXCEPT ![p] = {}]
  /\ out' = [out EXCEPT ![p] = {}]
  /\ Answer(p)
  /\ UNCHANGED <<rooms, mu, roomVars, mutex, todo, answered>>

-----------------------------------------------------------------------------

Create(p) ==
  \/ LockManager(p) \/ Publish(p) \/ OpenRound(p) \/ SetRound(p)
  \/ Drop(p) \/ SeatHost(p) \/ AnswerCreate(p)
WorkOnRoom(p) == Find(p) \/ Look(p) \/ Join(p) \/ Verify(p) \/ Start(p)
List(p) == Copy(p) \/ Each(p) \/ AnswerList(p)
Proceed(p) == Create(p) \/ WorkOnRoom(p) \/ List(p)

Next ==
  /\ \E p \in config.procs : AskCreate(p) \/ AskRoom(p) \/ AskList(p) \/ Proceed(p)
  /\ UNCHANGED config

\* A call to the chain ends by its timeout.  A sync.Mutex is handed to whoever has
\* waited for a millisecond, so that a request for one that is free again and again
\* gets it; freshCode finds a free code if there is one.
Spec == Init /\ [][Next]_vars /\ \A p \in Procs : SF_vars(Proceed(p) /\ UNCHANGED config)

-----------------------------------------------------------------------------
(* Properties *)

Stages ==
  {"idle", "create", "fresh", "chain", "open", "drop", "seat", "created",
   "find", "look", "join", "verify", "start", "copy", "each", "listed"}

TypeOK ==
  /\ rooms \in [Codes -> Rooms \cup {NoRoom}]
  /\ \A r \in Rooms :
       /\ state[r] \in {"none", "new", "lobby", "racing"}
       /\ code[r] \in Codes \cup {NoCode} /\ host[r] \in Procs \cup {NoProc}
       /\ seats[r] \subseteq Procs /\ Cardinality(seats[r]) <= MaxPlayers + 1
       /\ opened[r] => staked[r]
  /\ at \in [Procs -> Stages]
  /\ \A p \in Procs : /\ mu = p <=> at[p] = "fresh"
                      /\ \A r \in Rooms : mutex[r] = p <=> at[p] = "verify" /\ of[p] = r
                      /\ out[p] \subseteq copied[p] /\ todo[p] \subseteq copied[p]

\* The code a client was given names its room for ever: no room that is created later
\* takes it, and no creation that fails removes it.
AnsweredRoomsKeepTheirCode == \A r \in answered : rooms[code[r]] = r

\* A room that was dropped, because its round could not be opened, has never seated
\* anybody, though requests that found it before go on to join it.
DroppedRoomsAreEmpty ==
  \A r \in Rooms : state[r] \in {"lobby", "racing"} /\ r \notin Published => seats[r] = {}

\* The list misses no room that was published when it began and can still be joined
\* when it ends, though it looks at the rooms one by one and at none of them at once.
ListIsComplete ==
  \A p \in Procs : at[p] = "listed" => \A r \in copied[p] : Joinable(r) => r \in out[p]

\* Every request is answered, however many others wait for the same mutexes, unless
\* every code is taken: then a creation loops under the manager's mutex for ever, and
\* even one that would drop its room, and free a code, waits for it.
NoCodeLeft == mu # NoProc /\ \A c \in config.codes : rooms[c] # NoRoom
RequestsAreAnswered == \A p \in Procs : at[p] # "idle" ~> at[p] = "idle" \/ NoCodeLeft
=============================================================================
