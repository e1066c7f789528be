------------------------- MODULE RoomManager_proofs -------------------------
(***************************************************************************)
(* Theorems about RoomManager, for every number of clients, rooms, codes   *)
(* and seats.                                                              *)
(*                                                                         *)
(* The invariant has five parts: the types; where a request is and which   *)
(* mutexes it holds (Places); the life of a room from its creation to its  *)
(* answer or its end (Lives); who sits in it (Seating); and what a list    *)
(* has seen (Lists).                                                       *)
(***************************************************************************)
EXTENDS RoomManager, FiniteSetTheorems, TLAPS

Live == {"lobby", "racing"}

\* The stages of a creation before and after its room is published, and of the requests
\* that work on a room they have found.
Unpublished == {"create", "fresh"}
Opening == {"chain", "open", "drop"}
Publishing == Opening \cup {"seat", "created"}
Creating(p) == at[p] \in Unpublished \cup Publishing
Working == {"look", "join", "verify", "start", "each"}

Types ==
  /\ config \in Configs
  /\ rooms \in [Codes -> Rooms \cup {NoRoom}]
  /\ mu \in Procs \cup {NoProc}
  /\ state \in [Rooms -> {"none", "new", "lobby", "racing"}]
  /\ code \in [Rooms -> Codes \cup {NoCode}]
  /\ host \in [Rooms -> Procs \cup {NoProc}]
  /\ public \in [Rooms -> BOOLEAN]
  /\ staked \in [Rooms -> BOOLEAN]
  /\ opened \in [Rooms -> BOOLEAN]
  /\ seats \in [Rooms -> SUBSET Procs]
  /\ mutex \in [Rooms -> Procs \cup {NoProc}]
  /\ at \in [Procs -> Stages]
  /\ want \in [Procs -> {"none", "look", "join", "start"}]
  /\ of \in [Procs -> Rooms \cup Codes \cup {NoRoom}]
  /\ copied \in [Procs -> SUBSET Rooms]
  /\ todo \in [Procs -> SUBSET Rooms]
  /\ out \in [Procs -> SUBSET Rooms]
  /\ answered \in SUBSET Rooms

\* Where a request is, what it works on, and the mutexes it holds.
Places ==
  \A p \in Procs :
    /\ at[p] \in Unpublished \cup Publishing \cup Working => of[p] \in Rooms
    /\ at[p] = "find" => of[p] \in Codes /\ want[p] \in {"look", "join", "start"}
    /\ mu = p <=> at[p] = "fresh"
    /\ \A r \in Rooms : mutex[r] = p <=> at[p] = "verify" /\ of[p] = r

\* A room is created by one request, which publishes it under a code of its own, and which
\* alone may drop it, as long as its round is not opened and it is not answered.
Lives ==
  /\ \A p \in Procs :
       /\ at[p] \in Unpublished => state[of[p]] = "new"
       /\ at[p] \in Publishing =>
            state[of[p]] \in Live /\ rooms[code[of[p]]] = of[p] /\ of[p] \notin answered
       /\ at[p] \in Opening => staked[of[p]] /\ ~opened[of[p]]
       /\ at[p] = "seat" => ~staked[of[p]]
       /\ at[p] \in Working => state[of[p]] \in Live
       /\ \A q \in Procs :
            Creating(p) /\ Creating(q) /\ of[p] = of[q] => p = q
  /\ \A c \in Codes : rooms[c] # NoRoom => code[rooms[c]] = c /\ state[rooms[c]] \in Live
  /\ \A r \in Rooms :
       /\ r \in answered => state[r] \in Live /\ rooms[code[r]] = r
       /\ state[r] \in Live => code[r] \in Codes
       /\ opened[r] => staked[r]
       /\ state[r] \in Live /\ rooms[code[r]] # r => staked[r] /\ ~opened[r]

\* Nobody sits in a room before it is published, or in a staked one before its round is
\* open; the host's unchecked seat comes on top of MaxPlayers at most once.
Seating ==
  /\ \A r \in Rooms :
       /\ IsFiniteSet(seats[r]) /\ Cardinality(seats[r]) <= MaxPlayers + 1
       /\ state[r] \in {"none", "new"} => seats[r] = {} /\ ~opened[r]
       /\ staked[r] /\ ~opened[r] => seats[r] = {}
  /\ \A p \in Procs :
       /\ at[p] = "seat" => Cardinality(seats[of[p]]) <= MaxPlayers
       /\ at[p] = "verify" => staked[of[p]] /\ Cardinality(seats[of[p]]) < MaxPlayers

\* What a list has looked at is in it, unless it can be joined no more.
Lists ==
  \A p \in Procs :
    /\ out[p] \subseteq copied[p] /\ todo[p] \subseteq copied[p]
    /\ \A r \in copied[p] : state[r] \in Live
    /\ \A r \in copied[p] \ todo[p] : Joinable(r) => r \in out[p]
    /\ at[p] \notin {"each", "listed"} => copied[p] = {}
    /\ at[p] = "each" => of[p] \in todo[p]
    /\ at[p] = "listed" => todo[p] = {}

Inv == Types /\ Places /\ Lives /\ Seating /\ Lists

-----------------------------------------------------------------------------

\* The invariant holds of a manager that has just been made.
LEMMA InitInv == Init => Inv
<1> SUFFICES ASSUME Init PROVE Inv
  OBVIOUS
<1> USE RoomManagerAssumption DEF Init
<1>1. Types
  BY DEF Types, Stages
<1>2. Places
  BY DEF Places, Unpublished, Publishing, Opening, Working
<1>3. Lives
  BY DEF Lives, Creating, Unpublished, Publishing, Opening, Working, Live
<1>4. Seating
  BY FS_EmptySet DEF Seating
<1>5. Lists
  BY DEF Lists
<1> QED
  BY <1>1, <1>2, <1>3, <1>4, <1>5 DEF Inv

\* What a request has found, or creates, is a room.
LEMMA WorksOnRoom ==
  ASSUME Inv, NEW p \in Procs
  PROVE  /\ Creating(p) \/ at[p] \in Working => of[p] \in Rooms
         /\ at[p] = "find" => of[p] \in Codes
BY DEF Inv, Places, Creating

\* What an instance offers its clients has the right types.
LEMMA ConfigTypes ==
  ASSUME Inv
  PROVE  /\ config.procs \subseteq Procs /\ 1..config.rooms \subseteq Rooms
         /\ config.codes \subseteq Codes /\ config.kinds \subseteq Kinds
BY RoomManagerAssumption DEF Inv, Types, Rooms

\* A request that is answered leaves its variables typed.
LEMMA AnswerTypes ==
  ASSUME Types, NEW p \in Procs, Answer(p)
  PROVE  /\ at' \in [Procs -> Stages] /\ of' \in [Procs -> Rooms \cup Codes \cup {NoRoom}]
         /\ want' \in [Procs -> {"none", "look", "join", "start"}]
BY DEF Types, Answer, Stages

\* A list goes on to a room that is left, or ends.
LEMMA ListGoesOn ==
  ASSUME Inv, NEW p \in Procs, NEW left \in SUBSET Rooms, NextOf(p, left)
  PROVE  /\ at' \in [Procs -> Stages] /\ of' \in [Procs -> Rooms \cup Codes \cup {NoRoom}]
         /\ at'[p] \in {"each", "listed"}
         /\ at'[p] = "each" => of'[p] \in left
         /\ at'[p] = "listed" => left = {}
         /\ \A q \in Procs \ {p} : at'[q] = at[q] /\ of'[q] = of[q]
<1> USE DEF Inv, Types, Stages
<1>1. CASE left = {}
  BY <1>1 DEF NextOf, Goto
<1>2. CASE left # {}
  <2>1. PICK r \in left : of' = [of EXCEPT ![p] = r]
    BY <1>2 DEF NextOf
  <2>2. at' = [at EXCEPT ![p] = "each"] /\ r \in Rooms
    BY <1>2 DEF NextOf, Goto
  <2> QED
    BY <2>1, <2>2
<1> QED
  BY <1>1, <1>2

-----------------------------------------------------------------------------
(* The types *)

\* Every step of every request keeps the types.
LEMMA TypesStep ==
  ASSUME Inv, NEW p \in config.procs, UNCHANGED config,
         AskCreate(p) \/ AskRoom(p) \/ AskList(p) \/ Proceed(p)
  PROVE  Types'
<1> USE RoomManagerAssumption DEF Inv, Types
<1>0. p \in Procs /\ config.codes \subseteq Codes /\ config.kinds \subseteq Kinds
  BY ConfigTypes
<1>1. CASE AskCreate(p) \/ LockManager(p) \/ OpenRound(p)
  <2>1. CASE AskCreate(p)
    <3>1. PICK r \in Rooms : /\ state' = [state EXCEPT ![r] = "new"]
                             /\ of' = [of EXCEPT ![p] = r]
      BY <1>0, <2>1, ConfigTypes DEF AskCreate
    <3> QED
      BY <1>0, <2>1, <3>1 DEF AskCreate, Goto, listVars, Stages
  <2>2. CASE LockManager(p) \/ OpenRound(p)
    BY <1>0, <2>2 DEF LockManager, OpenRound, Goto, roomVars, listVars, Stages
  <2> QED
    BY <1>1, <2>1, <2>2
<1>9. CASE SetRound(p) \/ Drop(p) \/ SeatHost(p)
  <2>1. CASE SetRound(p)
    BY <1>0, <2>1 DEF SetRound, Goto, listVars, Stages
  <2>2. CASE Drop(p)
    BY <1>0, <2>2, AnswerTypes DEF Drop, roomVars, listVars
  <2>3. CASE SeatHost(p)
    BY <1>0, <2>3 DEF SeatHost, Goto, listVars, Stages
  <2> QED
    BY <1>9, <2>1, <2>2, <2>3
<1>2. CASE Publish(p)
  <2>1. PICK c \in Codes, kind \in Kinds :
          /\ rooms' = [rooms EXCEPT ![c] = of[p]]
          /\ code' = [code EXCEPT ![of[p]] = c]
          /\ public' = [public EXCEPT ![of[p]] = kind.public]
          /\ staked' = [staked EXCEPT ![of[p]] = kind.staked]
          /\ Goto(p, IF kind.staked THEN "chain" ELSE "seat")
    BY <1>0, <1>2 DEF Publish
  <2>2. of[p] \in Rooms /\ kind.public \in BOOLEAN /\ kind.staked \in BOOLEAN
    BY <1>0, <1>2, WorksOnRoom DEF Publish, Creating, Unpublished, Kinds
  <2>3. at' \in [Procs -> Stages]
    BY <1>0, <2>1 DEF Goto, Stages
  <2> QED
    BY <1>0, <1>2, <2>1, <2>2, <2>3 DEF Publish, listVars
<1>3. CASE AnswerCreate(p)
  <2>1. of[p] \in Rooms
    BY <1>0, <1>3, WorksOnRoom DEF AnswerCreate, Creating, Publishing
  <2> QED
    BY <1>0, <1>3, <2>1 DEF AnswerCreate, Answer, roomVars, listVars, Stages
<1>4. CASE Find(p)
  <2>1. of[p] \in Codes /\ want[p] \in {"look", "join", "start"}
    BY <1>0, <1>4 DEF Find, Places
  <2>2. rooms[of[p]] \in Rooms \cup {NoRoom}
    BY <2>1
  <2>3. CASE rooms[of[p]] = NoRoom
    BY <1>0, <1>4, <2>3, AnswerTypes DEF Find, roomVars, listVars
  <2>4. CASE rooms[of[p]] # NoRoom
    <3>1. /\ at' = [at EXCEPT ![p] = want[p]] /\ want[p] \in Stages
          /\ of' = [of EXCEPT ![p] = rooms[of[p]]]
          /\ want' = [want EXCEPT ![p] = "none"]
      BY <1>4, <2>1, <2>4 DEF Find, Goto, Stages
    <3> QED
      BY <1>0, <1>4, <2>2, <3>1 DEF Find, roomVars, listVars
  <2> QED
    BY <2>3, <2>4
<1>5. CASE Join(p) \/ Verify(p)
  <2>1. of[p] \in Rooms
    BY <1>0, <1>5, WorksOnRoom DEF Join, Verify, Working
  <2>2. seats' \in [Rooms -> SUBSET Procs] /\ mutex' \in [Rooms -> Procs \cup {NoProc}]
    <3>1. seats' = [seats EXCEPT ![of[p]] = seats[of[p]] \cup {p}] \/ seats' = seats
      BY <1>5 DEF Join, Verify
    <3>2. \/ mutex' = [mutex EXCEPT ![of[p]] = p] \/ mutex' = [mutex EXCEPT ![of[p]] = NoProc]
          \/ mutex' = mutex
      BY <1>5 DEF Join, Verify, Unlock
    <3> QED
      BY <1>0, <2>1, <3>1, <3>2
  <2>3. /\ at' \in [Procs -> Stages] /\ want' \in [Procs -> {"none", "look", "join", "start"}]
        /\ of' \in [Procs -> Rooms \cup Codes \cup {NoRoom}]
    <3>1. CASE Answer(p)
      BY <1>0, <3>1, AnswerTypes
    <3>2. CASE Goto(p, "verify") /\ UNCHANGED <<of, want>>
      BY <1>0, <3>2 DEF Goto, Stages
    <3> QED
      BY <1>5, <3>1, <3>2 DEF Join, Verify
  <2> QED
    BY <1>5, <2>2, <2>3 DEF Join, Verify, listVars
<1>6. CASE AskRoom(p) \/ AskList(p)
  <2>1. CASE AskRoom(p)
    <3>1. /\ \E c \in Codes : of' = [of EXCEPT ![p] = c]
          /\ \E op \in {"look", "join", "start"} : want' = [want EXCEPT ![p] = op]
          /\ at' = [at EXCEPT ![p] = "find"]
      BY <1>0, <2>1 DEF AskRoom, Goto
    <3>2. /\ of' \in [Procs -> Rooms \cup Codes \cup {NoRoom}]
          /\ want' \in [Procs -> {"none", "look", "join", "start"}]
          /\ at' \in [Procs -> Stages]
      BY <1>0, <3>1 DEF Stages
    <3> QED
      BY <2>1, <3>2 DEF AskRoom, roomVars, listVars
  <2>2. CASE AskList(p)
    BY <1>0, <2>2 DEF AskList, Goto, roomVars, listVars, Stages
  <2> QED
    BY <1>6, <2>1, <2>2
<1>10. CASE Look(p) \/ Start(p) \/ AnswerList(p)
  <2>1. CASE Look(p)
    BY <1>0, <2>1, AnswerTypes DEF Look, roomVars, listVars
  <2>2. CASE Start(p)
    BY <1>0, <2>2, AnswerTypes DEF Start, listVars
  <2>3. CASE AnswerList(p)
    BY <1>0, <2>3, AnswerTypes DEF AnswerList, roomVars
  <2> QED
    BY <1>10, <2>1, <2>2, <2>3
<1>7. CASE Copy(p)
  <2>1. Published \subseteq Rooms
    BY DEF Published
  <2> QED
    BY <1>0, <1>7, <2>1, ListGoesOn DEF Copy, roomVars
<1>8. CASE Each(p)
  <2>1. todo'[p] \subseteq Rooms /\ todo' \in [Procs -> SUBSET Rooms]
    BY <1>0, <1>8 DEF Each
  <2>2. out' \in [Procs -> SUBSET Rooms]
    <3>1. of[p] \in Rooms
      BY <1>0, <1>8, WorksOnRoom DEF Each, Working
    <3> QED
      BY <1>0, <1>8, <3>1 DEF Each
  <2> QED
    BY <1>0, <1>8, <2>1, <2>2, ListGoesOn DEF Each, roomVars
<1> QED
  BY <1>1, <1>2, <1>3, <1>4, <1>5, <1>6, <1>7, <1>8, <1>9, <1>10
     DEF Proceed, Create, WorkOnRoom, List

-----------------------------------------------------------------------------
(* Where requests are *)

\* Every step locks and unlocks the mutexes as the place it goes to says.
LEMMA PlacesStep ==
  ASSUME Inv, NEW p \in config.procs, UNCHANGED config,
         AskCreate(p) \/ AskRoom(p) \/ AskList(p) \/ Proceed(p)
  PROVE  Places'
<1> USE RoomManagerAssumption DEF Inv, Types, Places, Unpublished, Publishing, Opening, Working
<1>0. p \in Procs /\ config.codes \subseteq Codes
  BY ConfigTypes
<1>1. CASE AskCreate(p)
  <2>1. PICK r \in Rooms : of' = [of EXCEPT ![p] = r]
    BY <1>1, ConfigTypes DEF AskCreate
  <2>2. at' = [at EXCEPT ![p] = "create"] /\ at[p] = "idle" /\ UNCHANGED <<mu, want, mutex>>
    BY <1>1 DEF AskCreate, Goto
  <2> QED
    BY <1>0, <2>1, <2>2
<1>2. CASE \/ LockManager(p) \/ OpenRound(p) \/ SetRound(p)
           \/ Drop(p) \/ SeatHost(p) \/ AnswerCreate(p)
  BY <1>0, <1>2 DEF LockManager, OpenRound, SetRound, Drop, SeatHost, AnswerCreate, Goto, Answer
<1>3. CASE Publish(p)
  BY <1>0, <1>3 DEF Publish, Goto
<1>4. CASE AskRoom(p) \/ Find(p) \/ Look(p) \/ Start(p) \/ AskList(p) \/ AnswerList(p)
  BY <1>0, <1>4 DEF AskRoom, Find, Look, Start, AskList, AnswerList, Goto, Answer
<1>5. CASE Join(p)
  BY <1>0, <1>5 DEF Join, Goto, Answer
<1>6. CASE Verify(p)
  BY <1>0, <1>6 DEF Verify, Unlock, Answer
<1>7. CASE Copy(p) \/ Each(p)
  <2>1. /\ at[p] \in {"copy", "each"} /\ at'[p] \in {"each", "listed"}
        /\ at'[p] = "each" => of'[p] \in Rooms
        /\ \A q \in Procs \ {p} : at'[q] = at[q] /\ of'[q] = of[q]
    BY <1>0, <1>7, ListGoesOn DEF Copy, Each, Published
  <2>2. UNCHANGED <<mu, want, mutex>>
    BY <1>7 DEF Copy, Each
  <2> QED
    BY <1>0, <2>1, <2>2
<1> QED
  BY <1>1, <1>2, <1>3, <1>4, <1>5, <1>6, <1>7 DEF Proceed, Create, WorkOnRoom, List

-----------------------------------------------------------------------------
(* The life of a room *)

\* A room that is created is one that was not there, so that nobody works on it.
LEMMA AskCreateRoom ==
  ASSUME Inv, NEW p \in Procs, AskCreate(p)
  PROVE  \E r \in Rooms : /\ state[r] = "none"
                          /\ state' = [state EXCEPT ![r] = "new"]
                          /\ of' = [of EXCEPT ![p] = r]
<1>1. PICK r \in 1..config.rooms : /\ \A s \in Rooms : state[s] = "none" <=> s >= r
                                  /\ state' = [state EXCEPT ![r] = "new"]
                                  /\ of' = [of EXCEPT ![p] = r]
  BY DEF AskCreate
<1>2. r \in Rooms /\ r >= r
  BY <1>1, ConfigTypes
<1> QED
  BY <1>1, <1>2

\* Every step keeps the lives of the rooms: freshCode takes a code that is free, and a room
\* is dropped by its creator alone.
LEMMA LivesStep ==
  ASSUME Inv, NEW p \in config.procs, UNCHANGED config,
         AskCreate(p) \/ AskRoom(p) \/ AskList(p) \/ Proceed(p)
  PROVE  Lives'
<1> USE RoomManagerAssumption DEF Inv, Types, Places, Lives, Creating, Unpublished,
        Publishing, Opening, Working, Live
<1>0. p \in Procs /\ config.codes \subseteq Codes
  BY ConfigTypes
<1>1. CASE AskCreate(p)
  <2>1. PICK r \in Rooms : /\ state[r] = "none"
                           /\ state' = [state EXCEPT ![r] = "new"]
                           /\ of' = [of EXCEPT ![p] = r]
    BY <1>0, <1>1, AskCreateRoom
  <2>2. \A q \in Procs : Creating(q) \/ at[q] \in Working => of[q] # r
    BY <2>1
  <2>3. /\ at' = [at EXCEPT ![p] = "create"] /\ at[p] = "idle"
        /\ UNCHANGED <<rooms, code, staked, opened, answered>>
    BY <1>1 DEF AskCreate, Goto
  <2> QED
    BY <1>0, <2>1, <2>2, <2>3
<1>2. CASE LockManager(p)
  BY <1>0, <1>2 DEF LockManager, Goto, Answer, roomVars
<1>3. CASE Publish(p)
  <2>1. PICK c \in Codes, kind \in Kinds :
          /\ rooms[c] = NoRoom
          /\ rooms' = [rooms EXCEPT ![c] = of[p]]
          /\ code' = [code EXCEPT ![of[p]] = c]
          /\ staked' = [staked EXCEPT ![of[p]] = kind.staked]
          /\ at' = [at EXCEPT ![p] = IF kind.staked THEN "chain" ELSE "seat"]
    <3>1. PICK c \in config.codes, kind \in config.kinds :
            /\ Fresh(c)
            /\ rooms' = [rooms EXCEPT ![c] = of[p]]
            /\ code' = [code EXCEPT ![of[p]] = c]
            /\ staked' = [staked EXCEPT ![of[p]] = kind.staked]
            /\ Goto(p, IF kind.staked THEN "chain" ELSE "seat")
      BY <1>3 DEF Publish
    <3>2. c \in Codes /\ kind \in Kinds
      BY <3>1, ConfigTypes
    <3> QED
      BY <3>1, <3>2 DEF Fresh, Goto
  <2>2. /\ at[p] = "fresh" /\ of[p] \in Rooms /\ state[of[p]] = "new"
        /\ state' = [state EXCEPT ![of[p]] = "lobby"]
        /\ UNCHANGED <<of, opened, answered>>
    BY <1>0, <1>3, WorksOnRoom DEF Publish
  <2>3. kind.staked \in BOOLEAN /\ of[p] \notin answered /\ ~opened[of[p]]
    BY <2>2 DEF Kinds, Seating
  <2>4. \A q \in Procs \ {p} : /\ at'[q] = at[q] /\ of'[q] = of[q]
                               /\ Creating(q) => of[q] # of[p]
                               /\ at[q] \in Working => of[q] # of[p]
    BY <1>0, <2>1, <2>2
  <2>5. \A r \in Rooms \ {of[p]} :
          /\ state'[r] = state[r] /\ code'[r] = code[r] /\ staked'[r] = staked[r]
          /\ rooms[code[r]] = r => code[r] # c
          /\ code[r] \in Codes => (rooms'[code[r]] = r <=> rooms[code[r]] = r)
    BY <2>1, <2>2
  <2>6. /\ state'[of[p]] = "lobby" /\ code'[of[p]] = c /\ rooms'[c] = of[p]
        /\ staked'[of[p]] = kind.staked
    BY <2>1, <2>2
  <2>7. \A q \in Procs :
       /\ at'[q] \in Unpublished => state'[of'[q]] = "new"
       /\ at'[q] \in Publishing =>
            state'[of'[q]] \in Live /\ rooms'[code'[of'[q]]] = of'[q] /\ of'[q] \notin answered'
       /\ at'[q] \in Opening => staked'[of'[q]] /\ ~opened'[of'[q]]
       /\ at'[q] = "seat" => ~staked'[of'[q]]
       /\ at'[q] \in Working => state'[of'[q]] \in Live
    <3>1. CASE kind.staked
      BY <1>0, <2>1, <2>2, <2>3, <2>4, <2>5, <2>6, <3>1
    <3>2. CASE ~kind.staked
      BY <1>0, <2>1, <2>2, <2>3, <2>4, <2>5, <2>6, <3>2
    <3> QED
      BY <2>3, <3>1, <3>2
  <2>8. \A q, s \in Procs : Creating(q)' /\ Creating(s)' /\ of'[q] = of'[s] => q = s
    BY <2>2, <2>4, <2>1
  <2>9. \A d \in Codes : rooms'[d] # NoRoom => code'[rooms'[d]] = d /\ state'[rooms'[d]] \in Live
    BY <2>1, <2>2, <2>5, <2>6
  <2>10. \A r \in Rooms :
       /\ r \in answered' => state'[r] \in Live /\ rooms'[code'[r]] = r
       /\ state'[r] \in Live => code'[r] \in Codes
       /\ opened'[r] => staked'[r]
       /\ state'[r] \in Live /\ rooms'[code'[r]] # r => staked'[r] /\ ~opened'[r]
    BY <2>2, <2>3, <2>5, <2>6
  <2> QED
    BY <2>7, <2>8, <2>9, <2>10
<1>4. CASE OpenRound(p)
  BY <1>0, <1>4 DEF OpenRound, Goto, Answer, roomVars
<1>5. CASE SetRound(p)
  BY <1>0, <1>5 DEF SetRound, Goto, Answer, roomVars
<1>6. CASE Drop(p)
  BY <1>0, <1>6 DEF Drop, Goto, Answer, roomVars
<1>7. CASE SeatHost(p)
  BY <1>0, <1>7 DEF SeatHost, Goto, Answer, roomVars
<1>8. CASE AnswerCreate(p)
  BY <1>0, <1>8 DEF AnswerCreate, Goto, Answer, roomVars
<1>9. CASE AskRoom(p)
  BY <1>0, <1>9 DEF AskRoom, Goto, Answer, roomVars
<1>10. CASE Find(p)
  BY <1>0, <1>10 DEF Find, Goto, Answer, roomVars
<1>11. CASE Look(p)
  BY <1>0, <1>11 DEF Look, Goto, Answer, roomVars
<1>12. CASE Join(p)
  BY <1>0, <1>12 DEF Join, Goto, Answer, roomVars
<1>13. CASE Verify(p)
  BY <1>0, <1>13 DEF Verify, Goto, Answer, roomVars, Seating
<1>14. CASE Start(p)
  BY <1>0, <1>14 DEF Start, Goto, Answer, roomVars
<1>15. CASE AskList(p)
  BY <1>0, <1>15 DEF AskList, Goto, Answer, roomVars
<1>16. CASE AnswerList(p)
  BY <1>0, <1>16 DEF AnswerList, Goto, Answer, roomVars
<1>17. CASE Copy(p) \/ Each(p)
  <2>1. /\ at[p] \in {"copy", "each"} /\ at'[p] \in {"each", "listed"}
        /\ at'[p] = "each" => of'[p] \in Rooms /\ state[of'[p]] \in Live
        /\ \A q \in Procs \ {p} : at'[q] = at[q] /\ of'[q] = of[q]
    <3>1. CASE Copy(p)
      BY <1>0, <3>1, ListGoesOn DEF Copy, Published
    <3>2. CASE Each(p)
      BY <1>0, <3>2, ListGoesOn DEF Each, Lists
    <3> QED
      BY <1>17, <3>1, <3>2
  <2>2. UNCHANGED <<rooms, state, code, staked, opened, answered>>
    BY <1>17 DEF Copy, Each, roomVars
  <2> QED
    BY <1>0, <2>1, <2>2
<1> QED
  BY <1>1, <1>2, <1>3, <1>4, <1>5, <1>6, <1>7, <1>8, <1>9,
     <1>10, <1>11, <1>12, <1>13, <1>14, <1>15, <1>16, <1>17
     DEF Proceed, Create, WorkOnRoom, List

-----------------------------------------------------------------------------
(* Who sits in a room *)

\* One more seat.
LEMMA OneMoreSeat ==
  ASSUME Types, Seating, NEW r \in Rooms, NEW p \in Procs
  PROVE  /\ IsFiniteSet(seats[r] \cup {p})
         /\ Cardinality(seats[r]) \in Nat /\ Cardinality(seats[r] \cup {p}) \in Nat
         /\ Cardinality(seats[r] \cup {p}) <= Cardinality(seats[r]) + 1
<1>1. IsFiniteSet(seats[r])
  BY DEF Seating
<1>2. /\ IsFiniteSet(seats[r] \cup {p})
      /\ Cardinality(seats[r] \cup {p}) =
           IF p \in seats[r] THEN Cardinality(seats[r]) ELSE Cardinality(seats[r]) + 1
  BY <1>1, FS_AddElement, Zenon
<1>3. Cardinality(seats[r]) \in Nat
  BY <1>1, FS_CardinalityType, Zenon
<1> QED
  BY <1>2, <1>3

\* The seats of a room that had one free, after one more.
LEMMA SeatTaken ==
  ASSUME Types, Seating, NEW r \in Rooms, NEW p \in Procs, NEW n \in Nat,
         seats' = [seats EXCEPT ![r] = seats[r] \cup {p}], Cardinality(seats[r]) < n
  PROVE  IsFiniteSet(seats'[r]) /\ Cardinality(seats'[r]) \in Nat /\ Cardinality(seats'[r]) <= n
<1>1. seats'[r] = seats[r] \cup {p}
  BY DEF Types
<1>2. /\ IsFiniteSet(seats[r] \cup {p})
      /\ Cardinality(seats[r]) \in Nat /\ Cardinality(seats[r] \cup {p}) \in Nat
      /\ Cardinality(seats[r] \cup {p}) <= Cardinality(seats[r]) + 1
  BY OneMoreSeat
<1>3. Cardinality(seats[r] \cup {p}) <= n
  BY <1>2
<1>4. IsFiniteSet(seats'[r]) /\ Cardinality(seats'[r]) = Cardinality(seats[r] \cup {p})
  BY <1>1, <1>2, Zenon
<1> QED
  BY <1>2, <1>3, <1>4

\* Every step seats players only in a lobby that has a seat, and in a staked one only after
\* its round is open.
LEMMA SeatingStep ==
  ASSUME Inv, NEW p \in config.procs, UNCHANGED config,
         AskCreate(p) \/ AskRoom(p) \/ AskList(p) \/ Proceed(p)
  PROVE  Seating'
<1> USE RoomManagerAssumption DEF Inv, Types, Seating
<1>0. p \in Procs /\ config.codes \subseteq Codes /\ config.kinds \subseteq Kinds
  BY ConfigTypes
<1>1. CASE AskCreate(p)
  <2>1. PICK r \in Rooms : /\ state[r] = "none"
                           /\ state' = [state EXCEPT ![r] = "new"]
                           /\ of' = [of EXCEPT ![p] = r]
    BY <1>0, <1>1, AskCreateRoom
  <2>2. /\ at' = [at EXCEPT ![p] = "create"] /\ at[p] = "idle"
        /\ UNCHANGED <<staked, opened, seats>>
    BY <1>1 DEF AskCreate, Goto
  <2> QED
    BY <1>0, <2>1, <2>2
<1>2. CASE Publish(p)
  <2>1. PICK kind \in Kinds :
          /\ staked' = [staked EXCEPT ![of[p]] = kind.staked]
          /\ at' = [at EXCEPT ![p] = IF kind.staked THEN "chain" ELSE "seat"]
    BY <1>0, <1>2 DEF Publish, Goto
  <2>2. /\ of[p] \in Rooms /\ seats[of[p]] = {} /\ ~opened[of[p]] /\ kind.staked \in BOOLEAN
        /\ at[p] = "fresh" /\ state' = [state EXCEPT ![of[p]] = "lobby"]
        /\ UNCHANGED <<opened, seats, of>>
    BY <1>0, <1>2, WorksOnRoom DEF Publish, Creating, Unpublished, Lives, Kinds
  <2>3. \A q \in Procs : at[q] = "verify" => of[q] # of[p]
    BY <1>0, <2>2 DEF Lives, Unpublished, Working, Live
  <2>4. Cardinality({}) = 0
    BY FS_EmptySet
  <2>5. \A r \in Rooms :
          /\ IsFiniteSet(seats'[r]) /\ Cardinality(seats'[r]) <= MaxPlayers + 1
          /\ state'[r] \in {"none", "new"} => seats'[r] = {} /\ ~opened'[r]
          /\ staked'[r] /\ ~opened'[r] => seats'[r] = {}
    BY <2>1, <2>2
  <2>6. \A q \in Procs : at'[q] = "seat" => Cardinality(seats'[of'[q]]) <= MaxPlayers
    <3>1. Cardinality(seats'[of'[p]]) <= MaxPlayers
      <4>1. Cardinality(seats'[of'[p]]) = 0
        BY <2>2, <2>4
      <4> QED
        BY <4>1
    <3>2. \A q \in Procs \ {p} : at'[q] = at[q] /\ of'[q] = of[q] /\ seats'[of'[q]] = seats[of[q]]
      BY <1>0, <2>1, <2>2
    <3> QED
      BY <3>1, <3>2
  <2>7. \A q \in Procs : at'[q] = "verify" =>
          staked'[of'[q]] /\ Cardinality(seats'[of'[q]]) < MaxPlayers
    <3> SUFFICES ASSUME NEW q \in Procs, at'[q] = "verify"
                 PROVE  staked'[of'[q]] /\ Cardinality(seats'[of'[q]]) < MaxPlayers
      OBVIOUS
    <3>1. q # p /\ at[q] = "verify"
      BY <1>0, <2>1
    <3>2. of[q] \in Rooms /\ of[q] # of[p]
      BY <2>3, <3>1, WorksOnRoom DEF Working
    <3> QED
      BY <2>1, <2>2, <3>1, <3>2
  <2> QED
    BY <2>5, <2>6, <2>7
<1>3. CASE SeatHost(p)
  <2>1. /\ of[p] \in Rooms /\ ~staked[of[p]] /\ state[of[p]] \in Live
        /\ Cardinality(seats[of[p]]) <= MaxPlayers
    BY <1>0, <1>3, WorksOnRoom DEF SeatHost, Creating, Publishing, Lives
  <2>2. /\ seats' = [seats EXCEPT ![of[p]] = seats[of[p]] \cup {p}]
        /\ at' = [at EXCEPT ![p] = "created"] /\ at[p] = "seat"
        /\ UNCHANGED <<state, staked, opened, of>>
    BY <1>3 DEF SeatHost, Goto
  <2>3. /\ IsFiniteSet(seats'[of[p]])
        /\ Cardinality(seats'[of[p]]) <= MaxPlayers + 1
    <3>1. Cardinality(seats[of[p]]) \in Nat
      BY <1>0, <2>1, OneMoreSeat
    <3>2. Cardinality(seats[of[p]]) < MaxPlayers + 1 /\ MaxPlayers + 1 \in Nat
      BY <2>1, <3>1
    <3> QED
      BY <1>0, <2>1, <2>2, <3>2, SeatTaken
  <2>4. \A q \in Procs : at'[q] = "seat" => of[q] \in Rooms /\ of[q] # of[p] /\ at[q] = "seat"
    BY <1>0, <2>2, WorksOnRoom DEF Lives, Creating, Publishing
  <2>5. \A q \in Procs : at'[q] = "verify" => of[q] \in Rooms /\ of[q] # of[p] /\ at[q] = "verify"
    BY <1>0, <2>1, <2>2, WorksOnRoom DEF Working
  <2> QED
    BY <2>1, <2>2, <2>3, <2>4, <2>5 DEF Live
<1>4. CASE Join(p)
  <2>1. of[p] \in Rooms /\ state[of[p]] \in Live /\ at[p] = "join" /\ mutex[of[p]] = NoProc
    BY <1>0, <1>4, WorksOnRoom DEF Join, Lives, Working
  <2>2. UNCHANGED <<state, staked, opened>>
    BY <1>4 DEF Join
  <2>3. CASE MayJoin(p) /\ staked[of[p]]
    <3>1. /\ at' = [at EXCEPT ![p] = "verify"] /\ UNCHANGED <<seats, of>>
          /\ Cardinality(seats[of[p]]) < MaxPlayers
      BY <1>4, <2>3 DEF Join, Goto, MayJoin
    <3> QED
      BY <1>0, <2>1, <2>2, <2>3, <3>1
  <2>4. CASE MayJoin(p) /\ ~staked[of[p]]
    <3>1. /\ seats' = [seats EXCEPT ![of[p]] = seats[of[p]] \cup {p}]
          /\ at' = [at EXCEPT ![p] = "idle"] /\ of' = [of EXCEPT ![p] = NoRoom]
          /\ Cardinality(seats[of[p]]) < MaxPlayers
      BY <1>4, <2>4 DEF Join, Answer, MayJoin
    <3>2. /\ IsFiniteSet(seats'[of[p]])
          /\ Cardinality(seats'[of[p]]) <= MaxPlayers
      BY <1>0, <2>1, <3>1, SeatTaken
    <3>3. \A q \in Procs : at'[q] = "verify" =>
            of'[q] = of[q] /\ of[q] \in Rooms /\ of[q] # of[p] /\ at[q] = "verify"
      BY <1>0, <2>4, <3>1, WorksOnRoom DEF Working
    <3>4. \A q \in Procs : at'[q] = "seat" => of'[q] = of[q] /\ of[q] \in Rooms /\ at[q] = "seat"
      BY <1>0, <3>1, WorksOnRoom DEF Creating, Publishing
    <3>5. MaxPlayers <= MaxPlayers + 1
      OBVIOUS
    <3>6. \A r \in Rooms \ {of[p]} : seats'[r] = seats[r]
      BY <3>1
    <3>7. \A r \in Rooms :
          /\ IsFiniteSet(seats'[r]) /\ Cardinality(seats'[r]) <= MaxPlayers + 1
          /\ state'[r] \in {"none", "new"} => seats'[r] = {} /\ ~opened'[r]
          /\ staked'[r] /\ ~opened'[r] => seats'[r] = {}
      <4> SUFFICES ASSUME NEW r \in Rooms
                   PROVE  /\ IsFiniteSet(seats'[r]) /\ Cardinality(seats'[r]) <= MaxPlayers + 1
                          /\ state'[r] \in {"none", "new"} => seats'[r] = {} /\ ~opened'[r]
                          /\ staked'[r] /\ ~opened'[r] => seats'[r] = {}
        OBVIOUS
      <4>1. CASE r = of[p]
        <5>1. Cardinality(seats'[r]) \in Nat
          BY <3>2, <4>1, FS_CardinalityType
        <5> QED
          BY <2>1, <2>2, <2>4, <3>2, <4>1, <5>1 DEF Live
      <4>2. CASE r # of[p]
        BY <2>2, <3>6, <4>2
      <4> QED
        BY <4>1, <4>2
    <3>8. \A q \in Procs : at'[q] = "seat" => Cardinality(seats'[of'[q]]) <= MaxPlayers
      BY <3>2, <3>4, <3>6
    <3>9. \A q \in Procs : at'[q] = "verify" =>
            staked'[of'[q]] /\ Cardinality(seats'[of'[q]]) < MaxPlayers
      BY <2>2, <3>3, <3>6
    <3> QED
      BY <3>7, <3>8, <3>9
  <2>5. CASE ~MayJoin(p)
    BY <1>0, <1>4, <2>1, <2>2, <2>5 DEF Join, Answer
  <2> QED
    BY <2>3, <2>4, <2>5
<1>5. CASE Verify(p)
  <2>1. /\ of[p] \in Rooms /\ state[of[p]] \in Live /\ at[p] = "verify" /\ staked[of[p]]
        /\ Cardinality(seats[of[p]]) < MaxPlayers /\ mutex[of[p]] = p
    BY <1>0, <1>5, WorksOnRoom DEF Verify, Lives, Working, Places
  <2>2. /\ at' = [at EXCEPT ![p] = "idle"] /\ of' = [of EXCEPT ![p] = NoRoom]
        /\ UNCHANGED <<state, staked, opened>>
    BY <1>5 DEF Verify, Answer
  <2>3. \A q \in Procs : at'[q] = "verify" =>
          of'[q] = of[q] /\ of[q] \in Rooms /\ of[q] # of[p] /\ at[q] = "verify"
    BY <1>0, <2>1, <2>2, WorksOnRoom DEF Working, Places
  <2>4. \A q \in Procs : at'[q] = "seat" =>
          of'[q] = of[q] /\ of[q] \in Rooms /\ of[q] # of[p] /\ at[q] = "seat"
    BY <1>0, <2>1, <2>2, WorksOnRoom DEF Creating, Publishing, Lives
  <2>5. CASE UNCHANGED seats
    BY <2>2, <2>3, <2>4, <2>5
  <2>6. CASE opened[of[p]] /\ seats' = [seats EXCEPT ![of[p]] = seats[of[p]] \cup {p}]
    <3>1. IsFiniteSet(seats'[of[p]]) /\ Cardinality(seats'[of[p]]) <= MaxPlayers + 1
      <4>1. /\ IsFiniteSet(seats'[of[p]]) /\ Cardinality(seats'[of[p]]) \in Nat
            /\ Cardinality(seats'[of[p]]) <= MaxPlayers
        BY <1>0, <2>1, <2>6, SeatTaken
      <4> QED
        BY <4>1
    <3>2. \A r \in Rooms \ {of[p]} : seats'[r] = seats[r]
      BY <2>6
    <3>3. \A r \in Rooms :
          /\ IsFiniteSet(seats'[r]) /\ Cardinality(seats'[r]) <= MaxPlayers + 1
          /\ state'[r] \in {"none", "new"} => seats'[r] = {} /\ ~opened'[r]
          /\ staked'[r] /\ ~opened'[r] => seats'[r] = {}
      BY <2>1, <2>2, <2>6, <3>1, <3>2 DEF Live
    <3>4. \A q \in Procs : at'[q] = "seat" => Cardinality(seats'[of'[q]]) <= MaxPlayers
      BY <2>4, <3>2
    <3>5. \A q \in Procs : at'[q] = "verify" =>
            staked'[of'[q]] /\ Cardinality(seats'[of'[q]]) < MaxPlayers
      BY <2>2, <2>3, <3>2
    <3> QED
      BY <3>3, <3>4, <3>5
  <2> QED
    BY <1>5, <2>5, <2>6 DEF Verify
<1>6. CASE SetRound(p)
  <2>1. of[p] \in Rooms /\ state[of[p]] \in Live
    BY <1>0, <1>6, WorksOnRoom DEF SetRound, Lives, Creating, Publishing, Opening
  <2> QED
    BY <1>0, <1>6, <2>1 DEF SetRound, Goto, Live
<1>7. CASE LockManager(p)
  BY <1>0, <1>7 DEF LockManager, Goto, Answer, roomVars
<1>8. CASE OpenRound(p)
  BY <1>0, <1>8 DEF OpenRound, Goto, Answer, roomVars
<1>9. CASE Drop(p)
  BY <1>0, <1>9 DEF Drop, Goto, Answer, roomVars
<1>10. CASE AnswerCreate(p)
  BY <1>0, <1>10 DEF AnswerCreate, Goto, Answer, roomVars
<1>11. CASE AskRoom(p)
  BY <1>0, <1>11 DEF AskRoom, Goto, Answer, roomVars
<1>12. CASE Find(p)
  BY <1>0, <1>12 DEF Find, Goto, Answer, roomVars
<1>13. CASE Look(p)
  BY <1>0, <1>13 DEF Look, Goto, Answer, roomVars
<1>14. CASE AskList(p)
  BY <1>0, <1>14 DEF AskList, Goto, Answer, roomVars
<1>15. CASE AnswerList(p)
  BY <1>0, <1>15 DEF AnswerList, Goto, Answer, roomVars
<1>16. CASE Start(p)
  <2>1. of[p] \in Rooms /\ state[of[p]] \in Live
    BY <1>0, <1>16, WorksOnRoom DEF Start, Lives, Working
  <2> QED
    BY <1>0, <1>16, <2>1 DEF Start, Answer, Live
<1>17. CASE Copy(p) \/ Each(p)
  <2>1. /\ at'[p] \in {"each", "listed"}
        /\ \A q \in Procs \ {p} : at'[q] = at[q] /\ of'[q] = of[q]
    BY <1>0, <1>17, ListGoesOn DEF Copy, Each, Published
  <2>2. UNCHANGED <<state, staked, opened, seats>>
    BY <1>17 DEF Copy, Each, roomVars
  <2> QED
    BY <1>0, <2>1, <2>2
<1> QED
  BY <1>1, <1>2, <1>3, <1>4, <1>5, <1>6, <1>7, <1>8, <1>9,
     <1>10, <1>11, <1>12, <1>13, <1>14, <1>15, <1>16, <1>17
     DEF Proceed, Create, WorkOnRoom, List

-----------------------------------------------------------------------------
(* What a list has seen *)

\* A room that can be joined could be joined before: it only fills and starts.
LEMMA JoinableShrinks ==
  ASSUME Inv, NEW p \in config.procs, UNCHANGED config,
         AskCreate(p) \/ AskRoom(p) \/ AskList(p) \/ Proceed(p),
         NEW r \in Rooms, state[r] \in Live
  PROVE  state'[r] \in Live /\ (Joinable(r)' => Joinable(r))
<1> USE DEF Inv, Types
<1>0. p \in Procs
  BY ConfigTypes
<1>1. CASE AskCreate(p)
  <2>1. PICK s \in Rooms : state[s] = "none" /\ state' = [state EXCEPT ![s] = "new"]
    BY <1>0, <1>1, AskCreateRoom
  <2> QED
    BY <1>1, <2>1 DEF AskCreate, Joinable, Live
<1>2. CASE Publish(p)
  <2>1. of[p] # r
    BY <1>0, <1>2 DEF Publish, Lives, Live, Unpublished
  <2> QED
    BY <1>2, <2>1 DEF Publish, Joinable, Live
<1>3. CASE SeatHost(p) \/ Join(p) \/ Verify(p)
  <2>1. UNCHANGED <<state, public>>
    BY <1>3 DEF SeatHost, Join, Verify
  <2>2. seats' = seats \/ seats' = [seats EXCEPT ![of[p]] = seats[of[p]] \cup {p}]
    BY <1>3 DEF SeatHost, Join, Verify
  <2>3. seats'[r] = seats[r] \/ seats'[r] = seats[r] \cup {p}
    BY <2>2
  <2>4. IsFiniteSet(seats[r]) /\ IsFiniteSet(seats[r] \cup {p})
    BY <1>0, OneMoreSeat DEF Seating
  <2>5. IsFiniteSet(seats'[r]) /\ seats[r] \subseteq seats'[r]
    BY <2>3, <2>4
  <2>6. /\ Cardinality(seats[r]) \in Nat /\ Cardinality(seats'[r]) \in Nat
        /\ Cardinality(seats[r]) <= Cardinality(seats'[r])
    BY <2>4, <2>5, FS_Subset, FS_CardinalityType
  <2> QED
    BY <2>1, <2>6, RoomManagerAssumption DEF Joinable
<1>4. CASE Start(p)
  BY <1>4 DEF Start, Joinable, Live
<1>5. CASE LockManager(p) \/ OpenRound(p) \/ SetRound(p) \/ Drop(p) \/ AnswerCreate(p)
  BY <1>5 DEF LockManager, OpenRound, SetRound, Drop, AnswerCreate, roomVars, Joinable
<1>6. CASE AskRoom(p) \/ Find(p) \/ Look(p)
  BY <1>6 DEF AskRoom, Find, Look, roomVars, Joinable
<1>7. CASE AskList(p) \/ Copy(p) \/ Each(p) \/ AnswerList(p)
  BY <1>7 DEF AskList, Copy, Each, AnswerList, roomVars, Joinable
<1> QED
  BY <1>1, <1>2, <1>3, <1>4, <1>5, <1>6, <1>7 DEF Proceed, Create, WorkOnRoom, List

\* Every step keeps what a list has seen: nothing makes a room joinable again.
LEMMA ListsStep ==
  ASSUME Inv, NEW p \in config.procs, UNCHANGED config,
         AskCreate(p) \/ AskRoom(p) \/ AskList(p) \/ Proceed(p)
  PROVE  Lists'
<1> SUFFICES ASSUME NEW q \in Procs
             PROVE  /\ out'[q] \subseteq copied'[q] /\ todo'[q] \subseteq copied'[q]
                    /\ \A r \in copied'[q] : state'[r] \in Live
                    /\ \A r \in copied'[q] \ todo'[q] : Joinable(r)' => r \in out'[q]
                    /\ at'[q] \notin {"each", "listed"} => copied'[q] = {}
                    /\ at'[q] = "each" => of'[q] \in todo'[q]
                    /\ at'[q] = "listed" => todo'[q] = {}
  BY DEF Lists, Live, Joinable
<1> USE DEF Inv, Types, Lists
<1>0. p \in Procs
  BY ConfigTypes
<1>1. \A r \in Rooms : state[r] \in Live => state'[r] \in Live /\ (Joinable(r)' => Joinable(r))
  BY JoinableShrinks
<1>2. CASE ~(Copy(p) \/ Each(p) \/ AnswerList(p))
  <2>1. /\ UNCHANGED listVars
        /\ {at[p], at'[p]} \cap {"each", "listed"} = {}
        /\ \A t \in Procs \ {p} : at'[t] = at[t] /\ of'[t] = of[t]
    <3>1. CASE AskCreate(p)
      BY <1>0, <3>1 DEF AskCreate, Goto, Answer, Places
    <3>2. CASE LockManager(p)
      BY <1>0, <3>2 DEF LockManager, Goto, Answer, Places
    <3>3. CASE Publish(p)
      BY <1>0, <3>3 DEF Publish, Goto, Answer, Places
    <3>4. CASE OpenRound(p)
      BY <1>0, <3>4 DEF OpenRound, Goto, Answer, Places
    <3>5. CASE SetRound(p)
      BY <1>0, <3>5 DEF SetRound, Goto, Answer, Places
    <3>6. CASE Drop(p)
      BY <1>0, <3>6 DEF Drop, Goto, Answer, Places
    <3>7. CASE SeatHost(p)
      BY <1>0, <3>7 DEF SeatHost, Goto, Answer, Places
    <3>8. CASE AnswerCreate(p)
      BY <1>0, <3>8 DEF AnswerCreate, Goto, Answer, Places
    <3>9. CASE AskRoom(p)
      BY <1>0, <3>9 DEF AskRoom, Goto, Answer, Places
    <3>10. CASE Find(p)
      BY <1>0, <3>10 DEF Find, Goto, Answer, Places
    <3>11. CASE Look(p)
      BY <1>0, <3>11 DEF Look, Goto, Answer, Places
    <3>12. CASE Join(p)
      BY <1>0, <3>12 DEF Join, Goto, Answer, Places
    <3>13. CASE Verify(p)
      BY <1>0, <3>13 DEF Verify, Goto, Answer, Places
    <3>14. CASE Start(p)
      BY <1>0, <3>14 DEF Start, Goto, Answer, Places
    <3>15. CASE AskList(p)
      BY <1>0, <3>15 DEF AskList, Goto, Answer, Places
    <3> QED
      BY <1>2, <3>1, <3>2, <3>3, <3>4, <3>5, <3>6, <3>7, <3>8, <3>9,
         <3>10, <3>11, <3>12, <3>13, <3>14, <3>15
         DEF Proceed, Create, WorkOnRoom, List
  <2> QED
    BY <1>0, <1>1, <2>1 DEF listVars
<1>3. CASE AnswerList(p)
  <2>1. /\ copied' = [copied EXCEPT ![p] = {}] /\ out' = [out EXCEPT ![p] = {}]
        /\ at[p] = "listed" /\ at' = [at EXCEPT ![p] = "idle"]
        /\ of' = [of EXCEPT ![p] = NoRoom] /\ UNCHANGED todo
    BY <1>3 DEF AnswerList, Answer
  <2>2. todo[p] = {}
    BY <1>0, <2>1
  <2> QED
    BY <1>0, <1>1, <2>1, <2>2
<1>4. CASE Copy(p)
  <2>1. Published \in SUBSET Rooms /\ \A r \in Published : state[r] \in Live
    BY DEF Published, Lives
  <2>2. /\ copied' = [copied EXCEPT ![p] = Published] /\ todo' = [todo EXCEPT ![p] = Published]
        /\ at[p] = "copy" /\ UNCHANGED out
    BY <1>4 DEF Copy
  <2>3. /\ at'[p] \in {"each", "listed"}
        /\ at'[p] = "each" => of'[p] \in Published
        /\ at'[p] = "listed" => Published = {}
        /\ \A t \in Procs \ {p} : at'[t] = at[t] /\ of'[t] = of[t]
    BY <1>0, <1>4, <2>1, ListGoesOn DEF Copy
  <2>4. out[p] = {}
    BY <1>0, <2>2
  <2> QED
    <3>1. CASE q = p
      <4>1. /\ copied'[p] = Published /\ todo'[p] = Published /\ out'[p] = {}
            /\ Published \ Published = {}
        BY <1>0, <2>2, <2>4
      <4>3. \A r \in Published : state'[r] \in Live
        BY <1>1, <2>1
      <4>2. copied'[p] \ todo'[p] = {}
        BY <4>1
      <4>4. /\ out'[p] \subseteq copied'[p] /\ todo'[p] \subseteq copied'[p]
            /\ \A r \in copied'[p] : state'[r] \in Live
            /\ at'[p] \notin {"each", "listed"} => copied'[p] = {}
            /\ at'[p] = "each" => of'[p] \in todo'[p]
            /\ at'[p] = "listed" => todo'[p] = {}
        BY <2>3, <4>1, <4>3
      <4> QED
        BY <3>1, <4>2, <4>4
    <3>2. CASE q # p
      <4>1. /\ copied'[q] = copied[q] /\ todo'[q] = todo[q] /\ out'[q] = out[q]
            /\ at'[q] = at[q] /\ of'[q] = of[q]
        BY <1>0, <2>2, <2>3, <3>2
      <4> QED
        BY <1>1, <4>1
    <3> QED
      BY <3>1, <3>2
<1>5. CASE Each(p)
  <2>1. /\ out' = IF Joinable(of[p]) THEN [out EXCEPT ![p] = out[p] \cup {of[p]}] ELSE out
        /\ todo' = [todo EXCEPT ![p] = todo[p] \ {of[p]}]
        /\ at[p] = "each" /\ UNCHANGED copied
    BY <1>5 DEF Each
  <2>2. of[p] \in todo[p] /\ of[p] \in copied[p]
    BY <1>0, <2>1
  <2>3. /\ at'[p] \in {"each", "listed"}
        /\ at'[p] = "each" => of'[p] \in todo'[p]
        /\ at'[p] = "listed" => todo'[p] = {}
        /\ \A t \in Procs \ {p} : at'[t] = at[t] /\ of'[t] = of[t]
    <3>1. todo'[p] \in SUBSET Rooms
      BY <1>0, <2>1
    <3> QED
      <4>1. NextOf(p, todo'[p])
        BY <1>5 DEF Each
      <4> QED
        BY <1>0, <3>1, <4>1, ListGoesOn
  <2>4. UNCHANGED <<state, public, seats>>
    BY <1>5 DEF Each, roomVars
  <2>5. \A r \in Rooms : Joinable(r)' <=> Joinable(r)
    BY <2>4 DEF Joinable
  <2>6. \A r \in copied[p] \ todo'[p] : Joinable(r) => r \in out'[p]
    <3>1. CASE Joinable(of[p])
      BY <1>0, <2>1, <2>2, <3>1
    <3>2. CASE ~Joinable(of[p])
      BY <1>0, <2>1, <2>2, <3>2
    <3> QED
      BY <3>1, <3>2
  <2>7. out'[p] \subseteq copied[p] /\ todo'[p] \subseteq copied[p]
    BY <1>0, <2>1, <2>2
  <2>8. \A t \in Procs \ {p} : out'[t] = out[t] /\ todo'[t] = todo[t]
    BY <1>0, <2>1
  <2> QED
    <3>1. CASE q = p
      <4>1. copied'[p] = copied[p] /\ \A r \in copied[p] : r \in Rooms /\ state'[r] \in Live
        BY <1>0, <1>1, <2>1
      <4>2. \A r \in copied'[p] \ todo'[p] : Joinable(r)' => r \in out'[p]
        BY <2>5, <2>6, <4>1
      <4>3. /\ out'[p] \subseteq copied'[p] /\ todo'[p] \subseteq copied'[p]
            /\ \A r \in copied'[p] : state'[r] \in Live
            /\ at'[p] \notin {"each", "listed"} => copied'[p] = {}
            /\ at'[p] = "each" => of'[p] \in todo'[p]
            /\ at'[p] = "listed" => todo'[p] = {}
        BY <2>3, <2>7, <4>1
      <4> QED
        BY <3>1, <4>2, <4>3
    <3>2. CASE q # p
      <4>1. /\ copied'[q] = copied[q] /\ todo'[q] = todo[q] /\ out'[q] = out[q]
            /\ at'[q] = at[q] /\ of'[q] = of[q]
        BY <1>0, <2>1, <2>3, <2>8, <3>2
      <4> QED
        BY <1>1, <4>1
    <3> QED
      BY <3>1, <3>2
<1> QED
  BY <1>2, <1>3, <1>4, <1>5

-----------------------------------------------------------------------------
(* The theorems *)

\* The invariant is inductive.
LEMMA NextInv == Inv /\ [Next]_vars => Inv'
<1> SUFFICES ASSUME Inv, [Next]_vars PROVE Inv'
  OBVIOUS
<1>1. CASE Next
  <2>1. PICK p \in config.procs : AskCreate(p) \/ AskRoom(p) \/ AskList(p) \/ Proceed(p)
    BY <1>1 DEF Next
  <2>2. UNCHANGED config
    BY <1>1 DEF Next
  <2> QED
    BY <2>1, <2>2, TypesStep, PlacesStep, LivesStep, SeatingStep, ListsStep DEF Inv
<1>2. CASE UNCHANGED vars
  <2>1. UNCHANGED <<config, rooms, mu, state, code, host, public, staked, opened, seats,
                    mutex, at, want, of, copied, todo, out, answered>>
    BY <1>2 DEF vars, roomVars, listVars
  <2>2. Types' /\ Places'
    BY <2>1 DEF Inv, Types, Places
  <2>3. Lives' /\ Seating'
    BY <2>1 DEF Inv, Lives, Creating, Seating
  <2>4. Lists'
    BY <2>1 DEF Inv, Lists, Joinable
  <2> QED
    BY <2>2, <2>3, <2>4 DEF Inv
<1> QED
  BY <1>1, <1>2

\* The five parts hold in every state.
THEOREM Invariance == Spec => []Inv
BY InitInv, NextInv, PTL DEF Spec

\* Every variable has its type, a mutex is held by the one request that is where it is
\* needed, and a room seats at most the host beyond MaxPlayers.
THEOREM TypeCorrect == Spec => []TypeOK
<1>1. Inv => TypeOK
  <2> SUFFICES ASSUME Inv PROVE TypeOK
    OBVIOUS
  <2>1. rooms \in [Codes -> Rooms \cup {NoRoom}] /\ at \in [Procs -> Stages]
    BY DEF Inv, Types
  <2>2. \A r \in Rooms :
          /\ state[r] \in {"none", "new", "lobby", "racing"}
          /\ code[r] \in Codes \cup {NoCode} /\ host[r] \in Procs \cup {NoProc}
          /\ seats[r] \subseteq Procs /\ Cardinality(seats[r]) <= MaxPlayers + 1
          /\ opened[r] => staked[r]
    BY DEF Inv, Types, Lives, Seating
  <2>3. \A p \in Procs : /\ mu = p <=> at[p] = "fresh"
                         /\ \A r \in Rooms : mutex[r] = p <=> at[p] = "verify" /\ of[p] = r
                         /\ out[p] \subseteq copied[p] /\ todo[p] \subseteq copied[p]
    BY DEF Inv, Places, Lists
  <2> QED
    BY <2>1, <2>2, <2>3 DEF TypeOK
<1> QED
  BY Invariance, <1>1, PTL

\* The code that Create answered names its room for ever: freshCode takes no code that is
\* in the map, and only the creation that failed deletes one.
THEOREM CodesKept == Spec => []AnsweredRoomsKeepTheirCode
<1>1. Inv => AnsweredRoomsKeepTheirCode
  BY DEF Inv, Types, Lives, AnsweredRoomsKeepTheirCode
<1> QED
  BY Invariance, <1>1, PTL

\* Nobody sits in a room whose round could not be opened, even if a request found it
\* before Create deleted it.
THEOREM DroppedEmpty == Spec => []DroppedRoomsAreEmpty
<1>1. Inv => DroppedRoomsAreEmpty
  <2> SUFFICES ASSUME Inv, NEW r \in Rooms, state[r] \in Live, r \notin Published
               PROVE  seats[r] = {}
    BY DEF DroppedRoomsAreEmpty, Live
  <2>1. code[r] \in Codes
    BY DEF Inv, Lives
  <2>2. rooms[code[r]] # r
    BY <2>1, RoomManagerAssumption DEF Published
  <2> QED
    BY <2>2 DEF Inv, Lives, Seating
<1> QED
  BY Invariance, <1>1, PTL

\* List returns every room that was in the map when it copied it and can still be joined,
\* though it locks the rooms one at a time.
THEOREM ListComplete == Spec => []ListIsComplete
<1>1. Inv => ListIsComplete
  BY DEF Inv, Lists, ListIsComplete
<1> QED
  BY Invariance, <1>1, PTL
=============================================================================
