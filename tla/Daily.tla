------------------------------- MODULE Daily -------------------------------
(***************************************************************************)
(* One date of internal/store with its Postgres persister and the handlers *)
(* of internal/api that work on it: submissions of scored results, gated   *)
(* on the entry of a paid round; the operator's registration of a round;   *)
(* and restarts.                                                           *)
(*                                                                         *)
(* A submission handler looks the Daily up under the store's mutex, reads  *)
(* its paid-round fields without any, asks the chain, and records under    *)
(* the Daily's mutex: four steps, between which anything may happen.       *)
(* OpenPaidDaily holds the store's mutex but not the Daily's, so that its  *)
(* assignments are seen one by one by handlers that have the Daily.        *)
(* The rack of a date is deterministic, so that a result is its score.     *)
(*                                                                         *)
(* A process without a database behaves like one whose database fails      *)
(* every time.                                                             *)
(***************************************************************************)
EXTENDS Integers

CONSTANTS
  Ids,        \* spellings of addresses clients submit with
  Keys,       \* lower-case spellings, the keys of the leaderboard
  Wallets,    \* the addresses they stand for
  KeyOf, WalletOf,
  Scores,     \* results of scoring
  Rounds,     \* round ids
  NoRound,    \* "" and the zero round id
  NoRow,      \* no entry, no row
  ChainOn,    \* a chain client is configured
  Horizon     \* bound on the clock, with a database that fails and with one that does not

ASSUME DailyAssumption ==
  /\ KeyOf \in [Ids -> Keys]
  /\ WalletOf \in [Ids -> Wallets]
  /\ Scores \subseteq Nat
  /\ NoRound \notin Rounds
  /\ ChainOn \in BOOLEAN
  /\ Horizon \in [BOOLEAN -> Nat]
  /\ NoRow \notin [id : Ids, score : Scores, round : Rounds \cup {NoRound}]
  /\ NoRow \notin [round : Rounds, end : Nat]

VARIABLES
  dbMayFail,   \* calls to the database may fail or time out; never changes
  now,
  entered,     \* on chain: who has entered each round
  loaded,      \* the store's map has the date
  paid, roundID, endTime,
  submissions, \* best known submission of each key
  opening,     \* where OpenPaidDaily is, holding the store's mutex
  opened,      \* the round it registers
  requests,    \* the submission handler running for each spelling
  roundRow,    \* row of daily_rounds
  rows,        \* rows of daily_submissions, by spelling
  acked,       \* history: best score acknowledged for each key
  registered   \* history: the last registration OpenPaidDaily has finished

memory == <<loaded, paid, roundID, endTime, submissions>>
database == <<roundRow, rows>>
history == <<acked, registered>>
vars == <<dbMayFail, now, entered, memory, opening, opened, requests, database, history>>

MaxNow == Horizon[dbMayFail]
Time == 0..MaxNow
ZeroTime == -1    \* the zero time, before any other
Registration == [round : Rounds, end : Time]
\* A submission; "round" is the history of which round's gate it passed, if any.
Submission == [id : Ids, score : Scores, round : Rounds \cup {NoRound}]
NoSubmissions == [k \in Keys |-> NoRow]
Idle == [stage |-> "idle", round |-> NoRound]

\* Values of the right shape; an opened date has both its round and its cutoff.
TypeOK ==
  /\ dbMayFail \in BOOLEAN
  /\ now \in Time
  /\ entered \in [Rounds -> SUBSET Wallets]
  /\ loaded \in BOOLEAN /\ paid \in BOOLEAN
  /\ roundID \in Rounds \cup {NoRound}
  /\ endTime \in Time \cup {ZeroTime}
  /\ submissions \in [Keys -> Submission \cup {NoRow}]
  /\ opening \in {"no", "round", "end", "save"}
  /\ opened \in Registration \cup {NoRow}
  /\ \A i \in Ids :
       /\ requests[i].stage \in {"idle", "gate", "verify", "record"}
       /\ requests[i].round \in Rounds \cup {NoRound}
  /\ roundRow \in Registration \cup {NoRow}
  /\ rows \in [Ids -> Submission \cup {NoRow}]
  /\ acked \in [Keys -> Scores \cup {-1}]
  /\ registered \in Registration \cup {NoRow}
  /\ opening = "no" <=> opened = NoRow
  /\ ~loaded => ~paid /\ submissions = NoSubmissions /\ opening = "no"
  /\ paid /\ opening = "no" => roundID # NoRound /\ endTime # ZeroTime

Init ==
  /\ dbMayFail \in BOOLEAN
  /\ now = 0
  /\ entered = [r \in Rounds |-> {}]
  /\ loaded = FALSE
  /\ paid = FALSE /\ roundID = NoRound /\ endTime = ZeroTime
  /\ submissions = NoSubmissions
  /\ opening = "no" /\ opened = NoRow
  /\ requests = [i \in Ids |-> Idle]
  /\ roundRow = NoRow
  /\ rows = [i \in Ids |-> NoRow]
  /\ acked = [k \in Keys |-> -1]
  /\ registered = NoRow

Unlocked == opening = "no"

\* Mutant of Improves: every result replaces the one before.
ReplacesAny(score, old) == old # NoRow => score >= 0

\* The keep-the-best rule of Submit and of the upsert.
Improves(score, old) == old # NoRow => old.score < score

-----------------------------------------------------------------------------
(* GetOrCreateDaily of a date the process has not seen *)

\* The rows of a key, of those that were read.
RowsOf(k, read) == {rows[i] : i \in {j \in read : KeyOf[j] = k}} \ {NoRow}

\* Rows come in no order: of several rows of one key the last one read stays.
Recovered(subs, read) ==
  \A k \in Keys : IF RowsOf(k, read) = {} THEN subs[k] = NoRow ELSE subs[k] \in RowsOf(k, read)

\* Each of the two queries may fail, the second one after some of its rows.
Load ==
  /\ ~loaded /\ Unlocked
  /\ loaded' = TRUE
  /\ \/ /\ roundRow # NoRow
        /\ paid' = TRUE
        /\ roundID' = roundRow.round
        /\ endTime' = roundRow.end
        /\ \E read \in SUBSET Ids :
             /\ read = Ids \/ dbMayFail
             /\ submissions' \in [Keys -> {rows[i] : i \in Ids} \cup {NoRow}]
             /\ Recovered(submissions', read)
     \/ /\ roundRow = NoRow \/ dbMayFail
        /\ UNCHANGED <<paid, roundID, endTime, submissions>>
  /\ UNCHANGED <<now, entered, opening, opened, requests, database, history>>

-----------------------------------------------------------------------------
(* handleDailySubmit *)

Fetch(i) ==
  /\ loaded /\ Unlocked
  /\ requests[i].stage = "idle"
  /\ requests' = [requests EXCEPT ![i] = [stage |-> "gate", round |-> NoRound]]
  /\ UNCHANGED <<now, entered, memory, opening, opened, database, history>>

\* The handler answers.
Answer(i) == requests' = [requests EXCEPT ![i] = Idle]

\* A round id read while it is being written names no round.
Gate(i) ==
  /\ requests[i].stage = "gate"
  /\ \/ /\ ~paid
        /\ requests' = [requests EXCEPT ![i].stage = "record"]
     \/ /\ paid
        /\ now > endTime \/ ~ChainOn \/ roundID = NoRound \/ opening = "round"
        /\ Answer(i)
     \/ /\ paid
        /\ now <= endTime /\ ChainOn /\ roundID # NoRound
        /\ requests' = [requests EXCEPT ![i].stage = "verify", ![i].round = roundID]
  /\ UNCHANGED <<now, entered, memory, opening, opened, database, history>>

\* Mutant of Verify: an error of the call is taken for an entry.
VerifyFailsOpen(i) ==
  /\ requests[i].stage = "verify"
  /\ \/ Answer(i)
     \/ requests' = [requests EXCEPT ![i].stage = "record"]
  /\ UNCHANGED <<now, entered, memory, opening, opened, database, history>>

\* The answer of the chain, or an error of the call.
Verify(i) ==
  /\ requests[i].stage = "verify"
  /\ \/ Answer(i)
     \/ /\ WalletOf[i] \in entered[requests[i].round]
        /\ requests' = [requests EXCEPT ![i].stage = "record"]
  /\ UNCHANGED <<now, entered, memory, opening, opened, database, history>>

\* Mutant of UpsertSubmission: without the condition on the score.
UpsertAny(i, sub) ==
  \/ rows' = [rows EXCEPT ![i] = sub]
  \/ dbMayFail /\ UNCHANGED rows

UpsertSubmission(i, sub) ==
  \/ rows' = [rows EXCEPT ![i] = IF Improves(sub.score, @) THEN sub ELSE @]
  \/ dbMayFail /\ UNCHANGED rows

Record(i, score) ==
  LET k == KeyOf[i]
      sub == [id |-> i, score |-> score, round |-> requests[i].round] IN
  /\ requests[i].stage = "record"
  /\ \/ /\ Improves(score, submissions[k])
        /\ submissions' = [submissions EXCEPT ![k] = sub]
        /\ UpsertSubmission(i, sub)
     \/ /\ ~Improves(score, submissions[k])
        /\ UNCHANGED <<submissions, rows>>
  /\ acked' = [acked EXCEPT ![k] = IF @ < score THEN score ELSE @]
  /\ Answer(i)
  /\ UNCHANGED <<now, entered, loaded, paid, roundID, endTime, opening, opened,
                 roundRow, registered>>

-----------------------------------------------------------------------------
(* OpenPaidDaily, from handleOpenDaily or for one of the days of a pool *)

Open(r, end) ==
  /\ Unlocked
  /\ end > now
  /\ loaded' = TRUE
  /\ paid' = TRUE
  /\ opening' = "round"
  /\ opened' = [round |-> r, end |-> end]
  /\ UNCHANGED <<now, entered, roundID, endTime, submissions, requests, database, history>>

\* Mutant of OpenSetRound: the cutoff is never assigned.
OpenSetRoundOnly ==
  /\ opening = "round"
  /\ roundID' = opened.round
  /\ opening' = "save"
  /\ UNCHANGED <<now, entered, loaded, paid, endTime, submissions, opened,
                 requests, database, history>>

OpenSetRound ==
  /\ opening = "round"
  /\ roundID' = opened.round
  /\ opening' = "end"
  /\ UNCHANGED <<now, entered, loaded, paid, endTime, submissions, opened,
                 requests, database, history>>

OpenSetEnd ==
  /\ opening = "end"
  /\ endTime' = opened.end
  /\ opening' = "save"
  /\ UNCHANGED <<now, entered, loaded, paid, roundID, submissions, opened,
                 requests, database, history>>

\* Mutant of OpenSave: a date that has a row keeps it.
OpenSaveFirst ==
  /\ opening = "save"
  /\ roundRow' = IF roundRow = NoRow THEN opened ELSE roundRow
  /\ registered' = opened
  /\ opening' = "no"
  /\ opened' = NoRow
  /\ UNCHANGED <<now, entered, memory, requests, rows, acked>>

OpenSave ==
  /\ opening = "save"
  /\ \/ roundRow' = opened
     \/ dbMayFail /\ UNCHANGED roundRow
  /\ registered' = opened
  /\ opening' = "no"
  /\ opened' = NoRow
  /\ UNCHANGED <<now, entered, memory, requests, rows, acked>>

-----------------------------------------------------------------------------
(* The chain, time and crashes *)

EnterRound(r, w) ==
  /\ entered' = [entered EXCEPT ![r] = @ \cup {w}]
  /\ UNCHANGED <<now, memory, opening, opened, requests, database, history>>

Tick ==
  /\ now < MaxNow
  /\ now' = now + 1
  /\ UNCHANGED <<entered, memory, opening, opened, requests, database, history>>

\* The process dies and is started again.
Restart ==
  /\ loaded' = FALSE
  /\ paid' = FALSE /\ roundID' = NoRound /\ endTime' = ZeroTime
  /\ submissions' = NoSubmissions
  /\ opening' = "no" /\ opened' = NoRow
  /\ requests' = [i \in Ids |-> Idle]
  /\ UNCHANGED <<now, entered, database, history>>

Step ==
  \/ Load
  \/ \E i \in Ids : Fetch(i) \/ Gate(i) \/ Verify(i) \/ \E score \in Scores : Record(i, score)
  \/ \E r \in Rounds, end \in Time : Open(r, end)
  \/ OpenSetRound \/ OpenSetEnd \/ OpenSave
  \/ \E r \in Rounds, w \in Wallets : EnterRound(r, w)
  \/ Tick \/ Restart

Next == Step /\ UNCHANGED dbMayFail

Spec == Init /\ [][Next]_vars

-----------------------------------------------------------------------------
(* Properties *)

\* A result that passed the gate of a paid round, on the board, in the
\* database or about to be recorded, is of a wallet that has entered that very
\* round on chain, whatever was reopened meanwhile (handleDailySubmit).
GatedScoresPaid ==
  LET Paid(i, r) == r # NoRound => WalletOf[i] \in entered[r] IN
  /\ \A k \in Keys : submissions[k] # NoRow => Paid(submissions[k].id, submissions[k].round)
  /\ \A i \in Ids :
       /\ rows[i] # NoRow => Paid(i, rows[i].round)
       /\ requests[i].stage = "record" => Paid(i, requests[i].round)

\* As long as the process lives nobody's entry disappears or gets worse, whoever
\* submits, opens or reopens (Submit, OpenPaidDaily).
BoardOnlyImproves ==
  [][loaded /\ loaded' =>
       \A k \in Keys : submissions[k] # NoRow =>
         submissions'[k] # NoRow /\ submissions'[k].score >= submissions[k].score]_vars

\* Some request passes the gate unverified, or against a round or a cutoff that is
\* neither registered nor being registered.
PassesUngated ==
  \E i \in Ids :
    /\ requests[i].stage = "gate" /\ requests'[i].stage \in {"verify", "record"}
    /\ LET current == {registered, opened} \ {NoRow} IN
       \/ \A reg \in current : requests'[i].round # reg.round
       \/ \A reg \in current : now > reg.end

\* Once OpenPaidDaily has finished a registration, no handler passes the gate
\* without being held to it, before or after any restart, as long as the
\* database works (Load, OpenPaidDaily).
GateOutlivesRestarts ==
  [][registered # NoRow /\ ~dbMayFail => ~PassesUngated]_vars

\* As long as the database works it holds a result at least as good as the best
\* one acknowledged to any spelling of an address, whatever restarts have made
\* the memory forget (Submit, UpsertSubmission).
BestIsOnRecord ==
  ~dbMayFail =>
    \A k \in Keys : acked[k] > -1 => \E row \in RowsOf(k, Ids) : row.score >= acked[k]

-----------------------------------------------------------------------------
(* What is said of the program and is not so *)

\* "daily rounds and submissions survive process restarts" (NewWithPersistence).
SubmissionsSurvive ==
  [][Load /\ ~dbMayFail => \A k \in Keys : RowsOf(k, Ids) # {} => submissions'[k] # NoRow]_vars
=============================================================================
