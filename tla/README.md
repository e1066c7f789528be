# Verification of wordbreak-backend

TLA+ models of the Go backend of WordBreak: multiplayer rooms (free and staked) and
their manager, pools of several days, the daily round with its database, practice
boards, scoring; TLC configurations that check them on small instances; TLAPS proofs
about all of these, for every value of the constants.
`PROJECT.json` maps each definition to the lines it stands for and lists runs, mutants,
findings, hazards and theorems.

Run a model with `tlc -config MCStakedRoom.cfg MCStakedRoom`, check the proofs of a
component with `tlapm StakedRoom_proofs.tla`.

## 1. Inventory

| Component | State | Operations | Talks to |
|---|---|---|---|
| rooms, `internal/room` | a map of rooms under the manager's mutex; per room, under its own mutex: players, join order, scores, found words, rack, end of race; round id, entry window, settlement status | `Create`, `Join`, `Start`, `Submit`, `Get`, `List`; `settleRoom` from a timer | scorer, rack generator, chain client and writer, signer |
| chain client and writer, `internal/chain` | none | `HasEntered`, `RoundExists`, `GetRound`; `CreateRound`, `Settle` (send and wait) | the WordBreakPools contract, which is not in the repository |
| daily store, `internal/store` | a map of dates under one mutex; per date the paid-round fields (no mutex) and the best submissions (their own mutex) | `GetOrCreateDaily`, `OpenPaidDaily`, `Submit`, `Leaderboard`, `ListPaidDailies` | the persister |
| Postgres, `internal/db` | `daily_rounds`, `daily_submissions`, `players` | upserts and loads of 5 s, whose errors are logged and dropped | |
| HTTP handlers, `internal/api` | configuration only | daily submission and its fund-safety gate, registration of rounds, creation of pools, signing, room calls | everything above |
| scoring, `internal/game`, `internal/dictionary` | the word list | `Score`, `WordPoints`, `FindWords` | |
| racks and grids, `internal/rack`, `internal/grid` | none | bounded search for a playable rack or board; trie and depth-first search | dictionary |
| referee, `internal/signer` | a key | `SignSettlement` | |
| process, `cmd/server` | environment | start, shutdown | |

What is hard here:

* Rooms: `Create` works on a room that is already published, partly without its
  mutex; a race ends only when someone looks at it; one timer per race, computed at
  its start, pays it.
* Money: a transaction that nobody waits for any more may still be mined, one that is
  mined may have reverted, and a payout is computed long before it is paid.
* Manager: two kinds of mutex, one of them held over calls to the chain and one over a
  loop that may not end; requests keep the pointer to a room that is dropped.
* Pools: dates and cutoff come from one clock reading, are registered one by one after
  a transaction, beside other calls that do the same, midnight and crashes.
* Daily: a submission reads the paid-round fields without a lock, asks the chain,
  and records afterwards, while the date may be opened or reopened; database errors
  are dropped; a new process recovers what it can.
* Identity: ids are strings, entries are addresses, and one address has several
  spellings.

Correctness, per component:

* free room: the ranking is well-defined in every interleaving; points are worth the
  words; a finished result stands; a race ends.
* staked room: a seat is paid for; the payout is the pot less the rake; the final
  leader is paid; a settlement is not lost.
* room manager: a code that was answered names its room; the list misses no room; every
  request is answered.
* pools: a date keeps one pool, in memory and on record; its cutoff is in the second in
  which the chain closes the round; a registered day stays on record; with a chain client
  only entrants are signed as winners.
* daily: nobody passes the gate of a paid round unless entered, not even after a
  restart; the best result is kept in memory and on record.
* scoring: the scorer, the generator's answer list and a race agree about every word.
* boards: the words sent with a board are those that can be played on it; generation
  ends, with the best board it has drawn; any query gives a size on offer.

## 2. Modules

| Module | Models | Uses |
|---|---|---|
| `Room` | the part of a `Room` every race has, and the mutex-protected body of each call | |
| `FreeRoom` | `Create` of a free room step by step, beside the other calls | `Room` |
| `Pools` | one round of the contract, external | |
| `WinnerTakesAll` | abstract: what a staked race promises | |
| `StakedRoom` | one staked room with its contract, timer, transactions, clock, crash | `Room`, `Pools`; instantiates `WinnerTakesAll` |
| `RoomManager` | several rooms and requests, the map of codes, both kinds of mutex, `List` | |
| `PoolDays` | `handleCreatePool` over several dates, store and database, `handleSignSettlement` | |
| `Daily` | one date of store, database and handlers, with restarts | |
| `Lexicon` | words, the dictionary and its filter, what can be built from a rack | |
| `Scoring` | `game.Score` with its own check of the rack, word-by-word scoring | `Lexicon` |
| `Boards` | racks that can be drawn, the trie, the search of a grid, as operators | `Lexicon` |
| `GoodBoard` | abstract: what a generator of boards promises | |
| `Solo` | the practice handlers and the bounded loop of both generators | `Boards`; instantiates `GoodBoard` |
| `Data_proofs` | lemmas on numbers, finite sets, folds, sums and counts, for any data | |
| `StakedRoom_proofs` | lemmas on rankings, the inductive invariant, the safety theorems, and that `StakedRoom` implements `WinnerTakesAll` | `StakedRoom` |
| `FreeRoom_proofs`, `Scoring_proofs` | inductive invariant and safety theorems | the module named, `Data_proofs` |
| `RoomManager_proofs`, `PoolDays_proofs`, `Daily_proofs` | inductive invariant and safety theorems | the module named |
| `Solo_proofs` | the size read from a query, the trie, the search of a grid, the words of a rack; invariant and safety theorems of the loop | `Solo`, `Data_proofs` |
| `MCFreeRoom`, `MCStakedRoom`, `MCRoomManager`, `MCPoolDays`, `MCDaily`, `MCScoring`, `MCSolo` | instances for TLC | the module named |

### How state and actions correspond

*Room.* `order`, `players`, `score`, `found` are `r.order` and the fields of
`r.players`; `listed` is the room's entry in the manager's map. A rack is the set of
words the scorer accepts on it, so that a submission is accepted when its canonical
word is in that set. Every call that takes a snapshot ends an expired race
(`MaybeFinish`); calls that return an error before it change nothing and are no
actions. `Start` and `TakeSeat` do not end an expired race because they need a lobby.

*FreeRoom.* `Create` is split where other goroutines can run between its accesses:
publication, the entry in the map of players, the read of the join order, its write,
the snapshot. The last three race with joins; `AppendHost` chooses among the slices
the two appends can leave behind, including the case of a shared array. `Capacities`
names the lengths at which `append` allocates. Two goroutines that write the map at
the same instant end the process ("concurrent map writes"); that is the end of the
behaviour.

*StakedRoom.* `opening` is where `Create` is (choosing a round id, sending,
waiting, publishing), `starting` the moment between `Start`'s unlock and the timer,
`settling` where `settleRoom` is. `createTx` and `settleTx` are the two transactions,
mined or reverted at any time after they were sent, also after the wait gave up.
Joins hold the mutex over their RPC and are one step. The read of the window's end
in `scheduleSettle` is not locked: while `Create` publishes it, the read sees the
old value, the new one, or a mixture in the far future. A crash stops the server's
steps and keeps its last state as a record; chain and clock go on.

*RoomManager.* A request is at one place of its code (`at`), works on the room whose
pointer it holds (`of`), or on the code it has not looked up yet. A critical section
without a call or a loop is one step; `freshCode` holds the manager's mutex from
`LockManager` to `Publish`, `Join` of a staked room its room's from `Join` to `Verify`.
`Publish` needs a code that names no room: without one the loop goes on for ever. `List`
copies the map and then locks one room after the other, in no particular order. `Submit`
changes nothing that is kept here and is a `Look`. A room is its seats, its phase and
whether its round is set; races, scores and money are the other modules'.

*PoolDays.* A call of `handleCreatePool` goes through `Ask`, `Send` (clock, cutoff,
transaction), `Await`, and then `Register` and `Persist` for one date after the other,
which hold the store's mutex. `Look` is what any handler of a date does to the store.
The transaction is mined or reverted at any time after it was sent; `Await` may give up
before, and does not look at the result. The clock runs in halves of a day, so that a
pool may begin in the middle of a date and midnight may pass at every step. `endTime` has
a fraction of a second (`Fractions`), in units of which a second has four (`Second`): the
transaction carries its whole seconds (`closes`), the store keeps it as it is (`end`), and
a row keeps its microseconds of two units (`Row`). What matters of seconds is what is cut
off, so that half a day has one. `Script` is a round the operator opens past the server. A
request for a signature may name any round and any players; without a chain client `Sign`
does not wait for `VerifyWinner`. `config` says which calls and players an instance has,
whether the server has a chain client, whether the database may fail and how far the clock
goes; it is chosen at the start and never changes.

*Daily.* A submission goes through `Fetch` (the date, under the store's mutex),
`Gate` (the paid-round fields, unlocked), `Verify` (the chain), `Record` (the date's
mutex, with the upsert). `OpenPaidDaily` assigns its fields in three steps, `Open`,
`OpenSetRound`, `OpenSetEnd`, and saves in a fourth; it keeps `Fetch` and `Load` out
but not a handler that has the date. A round id read during its assignment is
torn and names no round. The gate reads the cutoff before the round id and the
opening writes them in the other order, so that one instant gives every combination
an in-order execution can see. Handlers of one spelling run one at a time; two
spellings of one key run against each other. `dbMayFail`, chosen at the start, tells the
behaviours in which any call to the database may fail from those in which none does. A
process without a database is one
whose database fails every time.

*Scoring.* The loop of `Score`, an iteration per step; a word is a sequence of
letters. The code counts letters twice, in `fitsRack` for the scorer and in `canBuild` for
the answers, and so do `FitsRack` and `CanBuild`. `Race` scores the same words the way `Room.Submit` does.

*Solo.* `SoloRequest`, `ReadSize` (`intQuery` with its wrap-around, and the clamp), and
`Draw`, an iteration of `generate` each. A rack is drawn as any row of vowels and
consonants with the right number of both; since the words of a rack do not depend on the
order of its letters, only the ordered one of each multiset is drawn. Grids are a constant:
samples in the run, any set of grids with the right number of vowels in the theorems.
`Trie` inserts the dictionary word by word into numbered nodes and `Solve` follows it
from each cell with the set of used bits, as the code does with a 64-bit mask. The sizes
of the environment are taken as they are, and only those of a query are clamped, default
included. `RealWords` is the reference the properties compare with: multisets of letters
for a rack, and for a grid all paths that spell a word out.

## 3. Runs

| Run | Question | Instance |
|---|---|---|
| `free_room` | does any interleaving with `Create` break ranking, scores, or a result | 4 clients, 3 seats, 2 words, clock 0..2; about a million states |
| `staked_room` | does the room keep its promise to stakers | 2 wallets, one spelled twice, 1 id that is no wallet; 2 seats; clock 0..5; half a million states |
| `room_manager` | do codes, seats and the list hold among several rooms, and is everybody answered | 2 clients, 2 rooms, 2 codes or 1; 3 clients, 1 room; 273 000 states |
| `pool_days` | does each date keep one pool, with its own cutoff, and every registered day a pool; are only entrants signed | 2 overlapping pools of 1 or 2 days, clock of 4 half days, 1 crash; 2 rounds with 1 or 2 players and up to 2 winners, with and without a chain client; 1.4 million states |
| `daily` | is the gate sound and the board monotone whatever the database does; do registrations and best results outlive restarts when it works | 2 spellings of a wallet, 2 scores, 2 rounds; clock 0..1 when the database fails and 0..2 when it works; 2.5 million states up to symmetry |
| `scoring` | do scorer, answer list and race agree | 3 letters, 3 racks, 8 spellings, up to 4 words; 68 000 states |
| `solo` | are the words of a board real, does generation end with the best board, is every size on offer | 4 letters, racks of all sizes, 3 grids of each width, 3 tries; 6 200 states |

Bounds. Three seats are enough for `Create`'s append to share an array with two
joins and for the seats to run out under it. `StakeWindow = 2`, `SettleSlack = 1`,
`RaceSeconds = 1` let a race end before the window closes, in the slack, and after the
timer; `MaxNow = 5` leaves every timer inside the clock, which the guard of
`PickRound` ensures. A fee of 999 wei and a rake of 5 % make the division inexact.

In `RoomManager` `MaxPlayers = 1` fills a free room when its host sits down and a staked
one with its first join, so that joins are refused for each reason. Two codes
for two rooms let a drop and a creation exchange a code; one code for two makes
`freshCode` wait. `MaxRooms` bounds the creations, not the requests.

In `PoolDays` two calls of up to two days overlap in every way two runs of dates can, or
only touch; `Horizon = 3` has one midnight between two whole dates, and pools reach two
dates further. `Fractions = {3}` cuts a unit off for the row and three for the chain. What
a settlement asks for is on chain only, whatever dates there are, so that rounds with
entrants are instances of their own (`config`): two players and two rounds of the script
with the clock at rest, one player of a round of the server with a clock of two half days,
and one player of a server without a chain client. Two winners (`MaxWinners`; any number in
the program) are one that is verified and one that is not yet. `MaxCrashes` is 1 because a crash leaves nothing but rows, transactions and stages
that a second crash finds as they are.

In `Daily` two rounds are one reopening, two scores an improvement and a relapse; the
zero time is `-1`, before the clock; the spellings are interchangeable and so are the
rounds, and since no liveness is checked there the run uses that symmetry. With
`Horizon = 2` a cutoff can pass after a registration; what must hold with a database that
fails does not depend on the cutoff, and 1 is enough.

In `Solo` the largest int is 63 (`MaxInt`; 2^63 - 1 in the program), so that three digits
wrap around; three tries (`MaxTries`; 300) are a first board, a better one and a worse one.
`DailySizes` are 1, where a vowel count is negative, 2 and 3, where the floor is lowest,
and 9, beyond the practice sizes. The words are on the letters A, E, C, D, so many
that racks of up to six letters clear their floor and racks of eight seldom do; one of
the grids has a letter only past the 32nd cell.

Clocks are bounded by `MaxNow` or `Horizon`; a race is not started when its end would
pass it. Deadlock is checked for the free room and the daily. The staked room may be
dropped or die at the end of the clock; all pools may be created, paid and over; a
manager may have every code taken; scoring and generation end: these runs do not check it.

Fairness. `FreeRoom` assumes that time passes and that a client polls (README of the
program: every 1.5 s); a race ends no other way. `StakedRoom` assumes that time
passes, that a goroutine that can run does (every blocking call has a timeout in the
code), and that a due timer fires; nothing of clients, of mining, or of the
process staying up. `TimelyRaceSettles` therefore says "settled, failed, or dead".
`PoolDays` assumes that a call which can go on does: every call it makes to the chain or
the database has a timeout, and nothing is assumed of the transaction. `RoomManager`
assumes strong fairness of each request: a `sync.Mutex` is handed to whoever has waited
for a millisecond, so that a request for one that is free again and again gets it.
`RequestsAreAnswered` excepts the state in which every code is taken, since then
`freshCode` loops for ever and everybody else waits for the mutex it holds; the code has
four letters, and the program never removes a room but a dropped one. `Solo` assumes
that a handler runs: its loop waits for nothing.

Each property of a passing run has a mutant: an operator beside the modelled one,
commented "Mutant", with a plausible mistake that makes TLC refute the property.

### Disagreements with the documentation

Each is a run of its own with one property, expected to be violated.

| Run | What happens |
|---|---|
| `free_room_leader` | a join lost to `Create`'s unlocked append is not ranked, whatever it scores |
| `staked_room_settles` | a race that still runs when its timer fires is never settled |
| `staked_room_round` | a reverted `createRound` counts as an open round |
| `daily_lost` | a free day's submissions are stored and never loaded |
| `pool_visible` | a pool created in the middle of a day still takes entries on its last half day, whose date shows no pool |

More are known and have no run.

* Joins can fill the room before `Create` seats the host, and one player too many races
  (`room.go:213`, against `room.go:1-2`; `JoinsRespectSeats` allows exactly that one).
* A submission that has passed the gate of a free date, or of an earlier round, is recorded
  when the date is registered meanwhile, unpaid (`api.go:198`, against `README.md:126-127`;
  `GatedScoresPaid` speaks of the round of the gate); so do results that were recorded
  before stay on the paid board (`store.go:120`).
* Without a chain client `handleSignSettlement` signs whoever is named, entered or not
  (`api.go:447`, against `api.go:444` and `README.md:129`). The model does so too, and
  `SignedWinnersEntered` is of a server that has one.
* A second pool takes the dates of one that is open, which is then listed no more although
  it takes entries (`db.go:83`, against `api.go:387-388`); `RegisteredDaysStay` says that a
  day is lost to no pool but one that registered it.
* A registration whose database write failed is acknowledged and does not outlive the
  process (`db.go:86`; `GateOutlivesRestarts` excepts it).
* `rack.go:4-5` says that a rack is never unplayable: after 300 tries the
  best rack is answered although it is below the floor of words, and a `DAILY_RACK_SIZE`
  of 1 or 2, which is not clamped, gives the empty rack (`RacksAreWhole` accepts both; the
  program's `README.md` offers 4 to 8).
* `trie.go:29` says that insertion is case-insensitive; it skips lower-case words, which
  the dictionary never hands it.

## 4. Proofs

Seven components have theorems, for every value of the constants that satisfies the
named assumptions of their modules; `TypeCorrect` is proved of each that has a type
invariant (in `Solo` the invariant of the loop is more than one).

| Module | Theorems |
|---|---|
| `StakedRoom_proofs` | `SeatsPaid`, `PayoutIsPool`, `PaymentToLeader`, `SettlementKept`, from `Soundness`; `PromiseKept`: the staked room implements `WinnerTakesAll` |
| `FreeRoom_proofs` | `RankedExist`, `ScoresCount`, and the action properties `SeatsRespected` and `ResultsStand`, from `Invariance` |
| `RoomManager_proofs` | `CodesKept`, `DroppedEmpty`, `ListComplete`, from `Invariance` |
| `PoolDays_proofs` | `DatesWithinRounds`, `RoundsMined`, `RestartsKeepRounds`, `DaysStay`, `OnlyEntrantsSigned`, from `Soundness` |
| `Daily_proofs` | `GatedPaid`, `BestOnRecord`, and the action properties `BoardImproves` and `GateOutlives`, from `Invariance` |
| `Scoring_proofs` | `AnswersAccepted`, `VerdictsComplete`, `SamePoints`, `TotalCounts`, from `Invariance` |
| `Solo_proofs` | `WordsReal`, `RacksWhole`, the action property `SizesServed`, and `GeneratesSafely`: the loop takes no step that `GoodBoard` does not allow, from `Invariance` |

In each module the safety property is not inductive; a stronger invariant is, and
`Init => Inv`, `Inv /\ [Next]_vars => Inv'` and `Inv => ...` are proved action by
action. TLC confirmed the invariants on the instances of the runs before they were proved.

*Staked room.* `TypeOK` is not inductive: that ids occur once in the join order and that
the order is the set of players are needed to rank at all; they are in `Basic`.
`PayoutMatchesPool` needs more. The timer must not fire before the entry window has
closed *on chain*, so the invariant `Sound` says that a round on chain, the room's copy
of its end and the end `Create` chose are the same once they exist (`RaceFacts`), that
a settlement that has got past reading the round does so after that end (`PayFacts`),
hence that the pot no longer changes. `LeaderIsPaid` needs that the winner, chosen
when the race is over, leads until the settlement is mined: no point is given after the
end of the race (the lemmas `LeaderStands` and `LeaderRanksFirst`, on the `CHOOSE`
that defines the leader).

*Free room.* `Grows` says that what `Create` has read of the join order is still its
beginning when it writes it back, so that each of the slices that can be left behind, a
shared array included, holds ids of the map of players only; the host is in that map
from `Create`'s first write on.

*Refinement.* Beyond `Sound` it needs `Deadline`: a race has a deadline exactly when it
was started, and an id that is not seated has no points, for then `Join`, which sets the
points of a new player to 0, only enrols. `StepIsPromised` has one lemma for each action
of the promise (`JoinEnrols`, `SubmitGains`, `StartBegins`, `EntryStakes`,
`SettlementPays`); every other step is a stutter.

*Room manager.* `Places` says which room each request works on, and that it holds the
manager's mutex only in `freshCode` and a room's only while it asks the chain. `Lives` and
`Seating` follow a room from its code to its answer or its drop: a room that may still be
dropped has no round, hence no seats, although requests hold its pointer. `Lists` says
that what a list has passed over was full, private or started, and that none of this is
undone.

*Pools.* `Sound` says that every registration is `Backed` by a call that has waited for
its transaction and whose round closes on chain in the second of the cutoff. `Script` opens
rounds of its own, but none of a call that has gone past `Send` (`CallsBacked`), so that the
end of a backed round stays what it is. `RowTells` is the arithmetic of the two truncations:
cutting an end down to microseconds leaves its second. `Recorded` says that row and memory
agree but on the date of the call that holds the mutex, `DaysRecorded` that a row is of a
call that has registered its date; a call's registered days only grow (`DaysOnlyGrow`), so
that another pool replaces a row and never removes one. `WinnersEntered` says of a request
with a chain client that the winners verified so far have entered, for any number of them.

*Daily.* `Held` ties the three paid-round fields to the registration through each step of
`OpenPaidDaily`: while they are being replaced a handler sees the registered round, the
new one, or none, with one of the two cutoffs or the zero time, which nobody passes.
`OnRecord` says of a key's entry on the board, as of its best acknowledged result, that
some row of the key is as good; so a result that is not written because the board has a
better one is not lost.

*Scoring.* The scorer, like the search for answers, counts a letter up to the place it
looks at; the reference is told by multisets. `CountedWithin` shows that both are the same, because the last place of
a letter (`LastPlace`) has counted all of them. The invariant says what `seen`, `accepted`,
`rejected` and `total` hold of the words read so far.

*Sums and folds.* A sum over a set, and a fold over a set or a sequence, are defined by a
`CHOOSE` of a recursive function. `FoldRecursion` shows that there is such a function, by
stages: the function for sets of up to `n` elements gives the one for `n + 1`; induction
(`Stepwise`) is over a set of numbers, the least counterexample, so that no lemma takes an
operator. `FoldSteps` turns a fold over a sequence into the list of what it has built
after each prefix. A sum is told without recursion: `SumCountsTokens` says that it is the
number of tokens when every index brings as many as its number says, and then a word that
is added brings its points (`ScoresCount`, `TotalCounts`).

*Boards.* `SizesServed` needs that a number that fits an int has prefixes that fit, so that
the sum has not wrapped around on the way (`NumberFits`). The trie: `Named` gives each node
the letters on the way to it, no two nodes the same ones, and every node but the root a
parent; `HoldsWords` says that the nodes that end a word are those of the words inserted and
that each of their prefixes has a node. `LetterInserted` keeps both, whether the child is
there or added, and `TrieHolds` says that the trie of the dictionary holds it, whatever the
order of insertion. The search: `GatherRecursion` shows that a search whose calls have a
falling rank finds something, and the rank of `dfs` is the number of free cells, which falls
because every cell of a grid of up to 64 has its own bit. A search finds the words that lie
before it (`SearchFinds`): those that begin with the letters traced so far and go on along
neighbouring cells it has not used. Each such word keeps the search from being pruned,
since the trie has a node for its next letter (`AheadGoesOn`), and what a started search has
before it, the one that starts it has too (`AheadOfStarted`). From the root that is
`RealWords`, for every grid of 16 to 36 letters and every dictionary, where TLC looks at
nine grids. Racks use `CountedWithin` again. The invariant
of the loop says of the best board that it is one of those drawn, with its words, and that
no drawn board has more; `RacksWhole` needs in addition that two letters spell no word
(`TwoAreTooFew`), since the sizes 1 and 2 draw racks that are not whole.

Only model-checked: liveness (`RaceEnds`, `TimelyRaceSettles`, `CallsEnd`,
`RequestsAreAnswered`, `GenerationEnds`), and the liveness half of the refinement
`Generates`: fairness and ENABLED are out of the prover's reach.

## 5. Not modelled, and why

* The signer: EIP-712 and ECDSA; a signature authorises what was signed.
* The random numbers: that a date always gives the same rack, the order of letters on a
  rack, all grids but the samples, and that two rounds never draw the same id.
  `GenerateDaily` of grids is not wired to an endpoint. A negative `DAILY_RACK_SIZE` makes
  the allocation of the rack panic; sizes from 1 are modelled.
* The amounts of `handleSignSettlement`: the code compares their sum with nothing.
* The order of the leaderboard and of equal rows on it; player names, which are written
  and never read; JSON, CORS, the admin token, health, the environment, logging.
* A client that repeats a request it has seen fail: each repetition is a new request to
  the server, which keeps nothing that would relate the two.
* Overlapping processes during a redeploy; a statement that Postgres executes after
  its caller has given up.
* Known hazards without a run: one wallet in two spellings takes two seats of a staked
  room for one fee; an address with and without `0x` has two rows of a daily board; a
  result can be recorded after the cutoff, for as long as its chain call lasts;
  opening a date that the process has not touched forgets its stored rows; of several
  stored rows of one key the last one loaded wins. `PROJECT.json` lists them with
  their lines.
* Refunds and cancellation in the contract, which the code never asks for.

## 6. Plan

1. The order of the leaderboard and a player's rank in `Daily`.
2. One abstract specification of a date ("a date belongs to one pool at a time") that
   both `Daily` and `PoolDays` implement.
