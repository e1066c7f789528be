------------------------------ MODULE PoolDays ------------------------------
(***************************************************************************)
(* Pools of several days: handleCreatePool, which opens a round on chain   *)
(* and then registers it for one date after the other, concurrent calls of *)
(* it, the dates they leave in the store and in the database, and          *)
(* handleSignSettlement, which signs what a pool pays.                     *)
(*                                                                         *)
(* The clock runs in halves of a day, so that a pool may be created in the *)
(* middle of a date and midnight may pass during a call; the chain counts  *)
(* time as that clock does, in whole seconds, of which half a day has one. *)
(* OpenPaidDaily is two steps, the assignment and the upsert, that hold    *)
(* the store's mutex.  Round ids are random 63-bit numbers: two calls      *)
(* never draw the same one, and a round is named by the call that opened   *)
(* it, or would have, had the forge script not.                            *)
(***************************************************************************)
EXTENDS Integers, Sequences, FiniteSets

CONSTANTS
  Calls,      \* calls of handleCreatePool
  Players,
  MaxDays,    \* bound: 90 in the program
  MaxWinners, \* bound: a request for a signature may name any number
  Horizon,    \* bound on the clock
  MaxCrashes, \* bound
  Fractions,  \* what the server's clock shows beyond whole seconds
  Configs,    \* combinations of a server, requests and players; see config
  NoCall,
  Absent,     \* a date the process has not seen, a row that is not there
  Free        \* a date without a pool

\* A second has four units of the server's clock, a microsecond two.
Second == 4
Micro == 2

ASSUME PoolDaysAssumption ==
  /\ NoCall \notin Calls
  /\ MaxDays \in Nat \ {0} /\ MaxWinners \in Nat \ {0}
  /\ Horizon \in Nat /\ MaxCrashes \in Nat
  /\ Fractions \subseteq 0..(Second - 1)
  /\ Absent # Free
  /\ Configs \subseteq [dbMayFail : BOOLEAN, chainOn : BOOLEAN,
                         calls : SUBSET Calls, players : SUBSET Players,
                         until : 0..Horizon]

VARIABLES
  config,     \* whether calls to the database may fail or time out and a chain client
              \* is configured, the pools the operator asks the server for, the players
              \* there are and the time the clock goes to; never changes
  now, crashes,
  stage,      \* where each call is
  days, first, end,   \* the days it asks for, its first date, its endTime
  next,       \* days it has registered
  tx,         \* the transaction that creates its round
  closes,     \* on chain: the second from which the round takes no entries
  entered,    \* on chain: who has paid into each round
  store,      \* store.dailies: the round and the cutoff of each date
  rows,       \* daily_rounds
  mutex,      \* the store's mutex: the call that holds it
  signing,    \* handleSignSettlement: the round, its winners and how many are verified
  signed      \* history: who was signed to be paid by each round

call == <<stage, days, first, end, next>>
chain == <<tx, closes, entered>>
settlement == <<signing, signed>>
vars == <<config, now, crashes, call, chain, store, rows, mutex, settlement>>

DateOf(t) == t \div 2
Dates == 0..(DateOf(Horizon) + MaxDays - 1)
Times == 0..(Horizon + 2 * MaxDays)
Registered == [round : Calls, end : 0..(Second * (Horizon + 2 * MaxDays) + Second - 1)]

ASSUME DatesAssumption == Absent \notin Registered /\ Free \notin Registered

NoSettlement == [round |-> NoCall, winners |-> <<>>, verified |-> 0]

Init ==
  /\ config \in Configs
  /\ now = 0 /\ crashes = 0
  /\ stage = [c \in Calls |-> "idle"]
  /\ days = [c \in Calls |-> 0] /\ first = [c \in Calls |-> 0]
  /\ end = [c \in Calls |-> 0] /\ next = [c \in Calls |-> 0]
  /\ tx = [c \in Calls |-> "none"] /\ closes = [c \in Calls |-> 0]
  /\ entered = [c \in Calls |-> {}]
  /\ store = [d \in Dates |-> Absent]
  /\ rows = [d \in Dates |-> Absent]
  /\ mutex = NoCall
  /\ signing = NoSettlement
  /\ signed = [c \in Calls |-> {}]

-----------------------------------------------------------------------------
(* handleCreatePool *)

\* The request is well-formed, and freshRoundID asks the chain whether its id is free; a
\* server without a chain client refuses.
Ask(c) ==
  /\ config.chainOn
  /\ c \in config.calls /\ stage[c] = "idle"
  /\ \E n \in 1..MaxDays : days' = [days EXCEPT ![c] = n]
  /\ stage' = [stage EXCEPT ![c] = "fresh"]
  /\ UNCHANGED <<now, crashes, first, end, next, chain, store, rows, mutex, settlement>>

\* The round id is free, the clock is read and the transaction is sent, with the whole
\* seconds of endTime; or one of the two calls fails, which ends the request.
Send(c) ==
  /\ stage[c] = "fresh"
  /\ \/ /\ first' = [first EXCEPT ![c] = DateOf(now)]
        /\ \E part \in Fractions :
             end' = [end EXCEPT ![c] = Second * (now + 2 * days[c]) + part]
        /\ closes' = [closes EXCEPT ![c] = end'[c] \div Second]
        /\ tx' = [tx EXCEPT ![c] = "pending"]
        /\ stage' = [stage EXCEPT ![c] = "sent"]
     \/ /\ stage' = [stage EXCEPT ![c] = "failed"]
        /\ UNCHANGED <<first, end, closes, tx>>
  /\ UNCHANGED <<now, crashes, days, next, entered, store, rows, mutex, settlement>>

\* Mutant: the error of the wait is logged and the days are registered.
AwaitIgnoringTimeout(c) ==
  /\ stage[c] = "sent"
  /\ stage' = [stage EXCEPT ![c] = "register"]
  /\ UNCHANGED <<now, crashes, days, first, end, next, chain, store, rows, mutex, settlement>>

\* WaitMined returns when the transaction is mined, reverted or not, and with an
\* error after thirty seconds.
Await(c) ==
  /\ stage[c] = "sent"
  /\ \/ /\ tx[c] # "pending"
        /\ stage' = [stage EXCEPT ![c] = "register"]
     \/ stage' = [stage EXCEPT ![c] = "failed"]
  /\ UNCHANGED <<now, crashes, days, first, end, next, chain, store, rows, mutex, settlement>>

\* Mutant: the days are counted from one.
DayAfter(c) == first[c] + next[c] + 1

Day(c) == first[c] + next[c]

Registration(c) == [round |-> c, end |-> end[c]]

\* Mutant: the mutex is released before the upsert.
RegisterUnlocking(c) ==
  /\ stage[c] = "register"
  /\ mutex = NoCall
  /\ store' = [store EXCEPT ![Day(c)] = Registration(c)]
  /\ stage' = [stage EXCEPT ![c] = "persist"]
  /\ UNCHANGED <<now, crashes, days, first, end, next, chain, rows, mutex, settlement>>

\* OpenPaidDaily up to the upsert.
Register(c) ==
  /\ stage[c] = "register"
  /\ mutex = NoCall
  /\ mutex' = c
  /\ store' = [store EXCEPT ![Day(c)] = Registration(c)]
  /\ stage' = [stage EXCEPT ![c] = "persist"]
  /\ UNCHANGED <<now, crashes, days, first, end, next, chain, rows, settlement>>

\* Mutant: an upsert that fails returns without the unlock.
ReleaseOnSuccess(c) == IF rows' = rows THEN mutex ELSE NoCall

Release(c) == NoCall

\* A TIMESTAMPTZ keeps microseconds.
Row(g) == [g EXCEPT !.end = Micro * (@ \div Micro)]

\* Mutant: the answer is given one day early.
MoreDaysButOne(c) == next[c] + 2 < days[c]

MoreDays(c) == next[c] + 1 < days[c]

\* The upsert, whose error is logged only; the next day, or the answer.
Persist(c) ==
  /\ stage[c] = "persist"
  /\ \/ rows' = [rows EXCEPT ![Day(c)] = Row(Registration(c))]
     \/ config.dbMayFail /\ UNCHANGED rows
  /\ mutex' = Release(c)
  /\ next' = [next EXCEPT ![c] = @ + 1]
  /\ stage' = [stage EXCEPT ![c] = IF MoreDays(c) THEN "register" ELSE "done"]
  /\ UNCHANGED <<now, crashes, days, first, end, chain, store, settlement>>

-----------------------------------------------------------------------------
(* GetOrCreateDaily, by the handlers of the daily and of its leaderboard *)

Look(d) ==
  /\ store[d] = Absent /\ mutex = NoCall
  /\ \/ store' = [store EXCEPT ![d] = IF rows[d] = Absent THEN Free ELSE rows[d]]
     \/ config.dbMayFail /\ store' = [store EXCEPT ![d] = Free]
  /\ UNCHANGED <<now, crashes, call, chain, rows, mutex, settlement>>

-----------------------------------------------------------------------------
(* handleSignSettlement *)

AskSettlement ==
  /\ signing = NoSettlement
  /\ \E c \in Calls, n \in 1..MaxWinners : \E w \in [1..n -> config.players] :
       signing' = [round |-> c, winners |-> w, verified |-> 0]
  /\ UNCHANGED <<now, crashes, call, chain, store, rows, mutex, signed>>

\* One winner is asked for on chain, if there is a chain client; an error or a winner
\* who has not entered ends the request.
VerifyWinner ==
  /\ config.chainOn
  /\ signing.verified < Len(signing.winners)
  /\ \/ /\ signing.winners[signing.verified + 1] \in entered[signing.round]
        /\ signing' = [signing EXCEPT !.verified = @ + 1]
     \/ signing' = NoSettlement
  /\ UNCHANGED <<now, crashes, call, chain, store, rows, mutex, signed>>

\* Mutant: one verified winner is enough.
OneVerified == config.chainOn => signing.verified > 0

AllVerified == config.chainOn => signing.verified = Len(signing.winners)

Sign ==
  /\ signing # NoSettlement
  /\ AllVerified
  /\ signed' = [signed EXCEPT ![signing.round] =
                  @ \cup {signing.winners[i] : i \in DOMAIN signing.winners}]
  /\ signing' = NoSettlement
  /\ UNCHANGED <<now, crashes, call, chain, store, rows, mutex>>

-----------------------------------------------------------------------------
(* The chain, the clock, a crash *)

\* A transaction that was sent is mined some time, whoever still waits for it.
Mine(c) ==
  /\ tx[c] = "pending"
  /\ tx' \in {[tx EXCEPT ![c] = result] : result \in {"mined", "reverted"}}
  /\ UNCHANGED <<now, crashes, call, closes, entered, store, rows, mutex, settlement>>

\* The operator opens a round with the forge script and not through the server.
Script(c) ==
  /\ c \notin config.calls /\ tx[c] = "none"
  /\ tx' = [tx EXCEPT ![c] = "mined"]
  /\ \E n \in 1..MaxDays : closes' = [closes EXCEPT ![c] = now + 2 * n]
  /\ UNCHANGED <<now, crashes, call, entered, store, rows, mutex, settlement>>

\* A round takes entries until it closes.
Enter(p, c) ==
  /\ tx[c] = "mined" /\ now < closes[c] /\ p \notin entered[c]
  /\ entered' = [entered EXCEPT ![c] = @ \cup {p}]
  /\ UNCHANGED <<now, crashes, call, tx, closes, store, rows, mutex, settlement>>

Tick ==
  /\ now < config.until
  /\ now' = now + 1
  /\ UNCHANGED <<crashes, call, chain, store, rows, mutex, settlement>>

Running(c) == stage[c] \notin {"idle", "done", "failed"}

Crash ==
  /\ crashes < MaxCrashes
  /\ crashes' = crashes + 1
  /\ stage' = [c \in Calls |-> IF Running(c) THEN "failed" ELSE stage[c]]
  /\ store' = [d \in Dates |-> Absent]
  /\ mutex' = NoCall
  /\ signing' = NoSettlement
  /\ UNCHANGED <<now, days, first, end, next, chain, rows, signed>>

CreatePool(c) == Ask(c) \/ Send(c) \/ Await(c) \/ Register(c) \/ Persist(c)
SignSettlement == AskSettlement \/ VerifyWinner \/ Sign

Step ==
  \/ \E c \in Calls : CreatePool(c) \/ Mine(c) \/ Script(c) \/ \E p \in config.players : Enter(p, c)
  \/ \E d \in Dates : Look(d)
  \/ SignSettlement
  \/ Tick
  \/ Crash

Next == Step /\ UNCHANGED config

\* Every call of a handler to the chain and to the database has a timeout.
Fairness ==
  \A c \in Calls : WF_vars((Send(c) \/ Await(c) \/ Register(c) \/ Persist(c)) /\ UNCHANGED config)

Spec == Init /\ [][Next]_vars /\ Fairness

-----------------------------------------------------------------------------
(* Properties *)

\* handleListPools: ListPaidDailies with a persister.
Listed == {d \in Dates : rows[d] # Absent}

Shown == {d \in Dates : store[d] \notin {Absent, Free}}

TypeOK ==
  /\ now \in 0..Horizon /\ crashes \in 0..MaxCrashes
  /\ \A c \in Calls :
       /\ stage[c] \in {"idle", "fresh", "sent", "register", "persist", "done", "failed"}
       /\ next[c] \in 0..days[c] /\ days[c] \in 0..MaxDays
       /\ [round |-> c, end |-> end[c]] \in Registered /\ first[c] \in Dates
       /\ closes[c] \in Times
       /\ tx[c] \in {"none", "pending", "mined", "reverted"}
       /\ entered[c] \subseteq Players
  /\ \A d \in Dates : {store[d], rows[d]} \ {Absent, Free} \subseteq Registered
  /\ signing.round \in Calls \cup {NoCall} /\ signing.verified \in 0..Len(signing.winners)
  /\ \A c \in Calls : mutex = c <=> stage[c] = "persist"

\* What is kept of a date's pool, in the process and in the database.
Kept(d) == {store[d], rows[d]} \ {Absent, Free}

\* No date keeps a pool that closes on chain before the date is over, at whatever time of
\* the day it was created.  The cutoff is in the last second of its round, so that nobody
\* who could still enter is refused, and its whole seconds, which are what the operator is
\* answered and listed, are the end on chain: however late the day was registered, and
\* after the database has cut the cutoff down again.
DatesFallWithinRound ==
  \A d \in Dates : \A pool \in Kept(d) :
    /\ 2 * d + 1 < closes[pool.round]
    /\ pool.end \div Second = closes[pool.round]

\* No date shows a round whose transaction may still be mined, or be dropped: the call
\* that has timed out has registered nothing, and its round stays unknown to the process.
RegisteredRoundsWereMined ==
  /\ \A d \in Shown : tx[store[d].round] \in {"mined", "reverted"}
  /\ \A d \in Listed : tx[rows[d].round] \in {"mined", "reverted"}

\* Of pools that overlap the process and the database keep the same one, so that neither
\* a restart nor the list of the operator changes which round a date is played for, nor
\* its cutoff by as much as a microsecond.
RestartKeepsRounds ==
  ~config.dbMayFail /\ mutex = NoCall =>
    \A d \in Shown : /\ d \in Listed /\ rows[d].round = store[d].round
                     /\ store[d].end - rows[d].end \in 0..(Micro - 1)

RegisteredDays(c) == {first[c] + i : i \in 0..(next[c] - 1)}

\* Calls that register in turns, fail and crash among their days may take dates from one
\* another, but every date that was registered stays on record with a pool that has
\* registered it, and a call that has answered has registered all of its days.
RegisteredDaysStay ==
  ~config.dbMayFail =>
    \A c \in Calls :
      /\ \A d \in RegisteredDays(c) : d \in Listed /\ d \in RegisteredDays(rows[d].round)
      /\ stage[c] = "done" => RegisteredDays(c) = first[c]..(first[c] + days[c] - 1)

\* With a chain client nobody is signed to be paid by a round they have not entered, however
\* entries, restarts and other requests fall between the verifications and the signature.
\* Without one whoever is named is signed, against what handleSignSettlement says of itself.
SignedWinnersEntered == config.chainOn => \A c \in Calls : signed[c] \subseteq entered[c]

\* Every call of handleCreatePool comes to its end: the mutex and the waits it needs are
\* given up by others, on errors too.
CallsEnd == \A c \in Calls : stage[c] = "fresh" ~> ~Running(c)

-----------------------------------------------------------------------------
(* What is said of the program and is not so *)

\* "A pool is always visible starting today; Days controls how long it stays open": what
\* a doc of handleCreatePool says of an answered call whose round still takes entries.
OpenPoolIsVisible ==
  \A c \in Calls :
    ~config.dbMayFail /\ stage[c] = "done" /\ tx[c] = "mined" /\ now < closes[c] =>
      store[DateOf(now)] # Free
=============================================================================
