---------------------------- MODULE Daily_proofs ----------------------------
(***************************************************************************)
(* Theorems about Daily, for every set of spellings and keys, rounds and   *)
(* scores, every horizon, with a database that fails and one that works.   *)
(*                                                                         *)
(* The invariant has four parts: the types; what is on the board and on    *)
(* record has passed its gate (Gated); what the process knows of the date  *)
(* is what was registered (Held); and what it knows of the scores, and has *)
(* acknowledged, is on record (OnRecord).  The last two are about a        *)
(* database that works.                                                    *)
(***************************************************************************)
EXTENDS Daily, TLAPS

Stages == {"idle", "gate", "verify", "record"}

Types ==
  /\ dbMayFail \in BOOLEAN
  /\ now \in Time
  /\ entered \in [Rounds -> SUBSET Wallets]
  /\ loaded \in BOOLEAN /\ paid \in BOOLEAN
  /\ roundID \in Rounds \cup {NoRound}
  /\ endTime \in Time \cup {ZeroTime}
  /\ submissions \in [Keys -> Submission \cup {NoRow}]
  /\ opening \in {"no", "round", "end", "save"}
  /\ opened \in Registration \cup {NoRow}
  /\ requests \in [Ids -> [stage : Stages, round : Rounds \cup {NoRound}]]
  /\ roundRow \in Registration \cup {NoRow}
  /\ rows \in [Ids -> Submission \cup {NoRow}]
  /\ acked \in [Keys -> Scores \cup {-1}]
  /\ registered \in Registration \cup {NoRow}

\* Where the opening and the requests are: only a date that is loaded has either.
Progress ==
  /\ opening = "no" <=> opened = NoRow
  /\ ~loaded => /\ ~paid /\ roundID = NoRound /\ endTime = ZeroTime
                /\ submissions = NoSubmissions /\ opening = "no"
  /\ opening # "no" => paid
  /\ opening \in {"end", "save"} => roundID = opened.round
  /\ opening = "save" => endTime = opened.end
  /\ paid /\ opening = "no" => roundID # NoRound /\ endTime # ZeroTime
  /\ \A i \in Ids : /\ requests[i].stage # "idle" => loaded
                    /\ requests[i].stage \in {"idle", "gate"} => requests[i].round = NoRound

HasEntered(i, r, chain) == r # NoRound => WalletOf[i] \in chain[r]

Gated ==
  /\ \A k \in Keys : submissions[k] # NoRow =>
       HasEntered(submissions[k].id, submissions[k].round, entered)
  /\ \A i \in Ids :
       /\ rows[i] # NoRow => rows[i].id = i /\ HasEntered(i, rows[i].round, entered)
       /\ requests[i].stage = "record" => HasEntered(i, requests[i].round, entered)

\* With a database that works the row is what was registered last, and the fields hold that
\* or, while OpenPaidDaily replaces it, what is registered now.
Held ==
  ~dbMayFail =>
    /\ roundRow = registered
    /\ loaded /\ registered # NoRow => paid
    /\ paid /\ opening = "no" => registered # NoRow
    /\ loaded /\ registered # NoRow =>
         /\ opening = "no" => roundID = registered.round /\ endTime = registered.end
         /\ opening = "round" => roundID \in {registered.round, NoRound}
         /\ opening \in {"round", "end"} => endTime \in {registered.end, ZeroTime}

\* With a database that works some row of a key is as good as the key's entry on the board
\* and as its best acknowledged result.
Holds(k, score, table) ==
  \E i \in Ids : KeyOf[i] = k /\ table[i] # NoRow /\ table[i].score >= score

OnRecord ==
  ~dbMayFail =>
    \A k \in Keys : /\ submissions[k] # NoRow => Holds(k, submissions[k].score, rows)
                    /\ acked[k] > -1 => Holds(k, acked[k], rows)

Inv == Types /\ Progress /\ Gated /\ Held /\ OnRecord

-----------------------------------------------------------------------------

\* The bounds are times, and no row is taken for a missing one.
LEMMA RowsAndTimes ==
  ASSUME Types
  PROVE  /\ MaxNow \in Nat /\ Time \subseteq Nat
         /\ NoRow \notin Submission /\ NoRow \notin Registration
         /\ \A s \in Submission : s.score \in Nat
<1>1. MaxNow \in Nat
  BY DailyAssumption DEF Types, MaxNow
<1>2. Time \subseteq Nat
  BY <1>1 DEF Time
<1>3. Registration \subseteq [round : Rounds, end : Nat]
  BY <1>2 DEF Registration
<1> QED
  BY <1>1, <1>2, <1>3, DailyAssumption DEF Submission

\* Whether the database may fail never changes, and so neither does the horizon.
LEMMA TimeStands ==
  ASSUME UNCHANGED dbMayFail
  PROVE  Time' = Time /\ Registration' = Registration /\ MaxNow' = MaxNow
BY DEF Time, Registration, MaxNow

\* The invariant holds before the date is first seen.
LEMMA InitInv == Init => Inv
<1> SUFFICES ASSUME Init PROVE Inv
  OBVIOUS
<1>0. MaxNow \in Nat /\ 0 \in Time
  BY DailyAssumption DEF Init, MaxNow, Time
<1> USE <1>0, DailyAssumption DEF Init
<1>1. Types
  BY DEF Types, Stages, NoSubmissions, Idle
<1>2. Progress
  BY DEF Progress, Idle
<1>3. Gated
  BY DEF Gated, NoSubmissions, Idle
<1>4. Held /\ OnRecord
  BY DEF Held, OnRecord, NoSubmissions
<1> QED
  BY <1>1, <1>2, <1>3, <1>4 DEF Inv

\* What Load recovers of a key is a row of one of its spellings.
LEMMA LoadRecovers ==
  ASSUME Types, Load, NEW k \in Keys
  PROVE  /\ submissions' \in [Keys -> Submission \cup {NoRow}]
         /\ submissions'[k] # NoRow =>
              submissions'[k] = submissions[k]
              \/ \E i \in Ids : KeyOf[i] = k /\ rows[i] # NoRow /\ submissions'[k] = rows[i]
<1>1. CASE UNCHANGED submissions
  BY <1>1 DEF Types
<1>2. ASSUME NEW read \in SUBSET Ids,
             submissions' \in [Keys -> {rows[i] : i \in Ids} \cup {NoRow}],
             Recovered(submissions', read)
      PROVE  /\ submissions' \in [Keys -> Submission \cup {NoRow}]
             /\ submissions'[k] # NoRow =>
                 \E i \in Ids : KeyOf[i] = k /\ rows[i] # NoRow /\ submissions'[k] = rows[i]
  <2>1. \A i \in Ids : rows[i] \in Submission \cup {NoRow}
    BY DEF Types
  <2>2. submissions' \in [Keys -> Submission \cup {NoRow}]
    BY <1>2, <2>1
  <2>3. submissions'[k] # NoRow => submissions'[k] \in RowsOf(k, read)
    BY <1>2 DEF Recovered
  <2> QED
    BY <2>2, <2>3 DEF RowsOf
<1> QED
  BY <1>1, <1>2 DEF Load

-----------------------------------------------------------------------------
(* The types *)

\* Every step keeps the types.
LEMMA TypesStep ==
  ASSUME Inv, Next
  PROVE  Types'
<1> USE DEF Inv, Types, memory, database, history
<1>0. /\ UNCHANGED dbMayFail /\ Time' = Time /\ Registration' = Registration
      /\ 0 \in Time /\ Time \subseteq Nat /\ MaxNow \in Nat
  BY TimeStands, RowsAndTimes DEF Next, Time
<1>1. CASE Load
  <2>1. submissions' \in [Keys -> Submission \cup {NoRow}]
    <3>1. CASE Keys = {}
      BY <1>1, <3>1 DEF Load
    <3>2. CASE Keys # {}
      BY <1>1, <3>2, LoadRecovers
    <3> QED
      BY <3>1, <3>2
  <2>2. /\ paid' \in BOOLEAN /\ roundID' \in Rounds \cup {NoRound}
        /\ endTime' \in Time \cup {ZeroTime}
    BY <1>1 DEF Load, Registration
  <2> QED
    BY <1>0, <1>1, <2>1, <2>2 DEF Load
<1>2. ASSUME NEW i \in Ids, Fetch(i) \/ Gate(i) \/ Verify(i)
      PROVE  Types'
  <2>1. requests' \in [Ids -> [stage : Stages, round : Rounds \cup {NoRound}]]
    <3>1. CASE Fetch(i)
      BY <3>1 DEF Fetch, Stages
    <3>2. CASE Gate(i)
      BY <3>2 DEF Gate, Answer, Idle, Stages
    <3>3. CASE Verify(i)
      BY <3>3 DEF Verify, Answer, Idle, Stages
    <3> QED
      BY <1>2, <3>1, <3>2, <3>3
  <2>2. UNCHANGED <<now, entered, memory, opening, opened, database, history>>
    BY <1>2 DEF Fetch, Gate, Verify
  <2> QED
    BY <1>0, <2>1, <2>2
<1>3. ASSUME NEW i \in Ids, NEW score \in Scores, Record(i, score)
      PROVE  Types'
  <2> DEFINE sub == [id |-> i, score |-> score, round |-> requests[i].round]
  <2>1. sub \in Submission /\ KeyOf[i] \in Keys
    BY DailyAssumption DEF Submission
  <2> HIDE DEF sub
  <2>2. submissions' \in [Keys -> Submission \cup {NoRow}]
    BY <1>3, <2>1 DEF Record, sub
  <2>3. rows' \in [Ids -> Submission \cup {NoRow}]
    BY <1>3, <2>1 DEF Record, UpsertSubmission, sub
  <2>4. acked' \in [Keys -> Scores \cup {-1}]
    BY <1>3, <2>1 DEF Record
  <2>5. requests' \in [Ids -> [stage : Stages, round : Rounds \cup {NoRound}]]
    BY <1>3 DEF Record, Answer, Idle, Stages
  <2> QED
    BY <1>0, <1>3, <2>2, <2>3, <2>4, <2>5 DEF Record
<1>4. ASSUME NEW r \in Rounds, NEW end \in Time, Open(r, end)
      PROVE  Types'
  BY <1>0, <1>4 DEF Open, Registration
<1>5. CASE OpenSetRound \/ OpenSetEnd
  <2>1. opened \in Registration
    BY <1>5 DEF OpenSetRound, OpenSetEnd, Progress
  <2> QED
    BY <1>0, <1>5, <2>1 DEF OpenSetRound, OpenSetEnd, Registration
<1>6. CASE OpenSave
  BY <1>0, <1>6 DEF OpenSave
<1>7. ASSUME NEW r \in Rounds, NEW w \in Wallets, EnterRound(r, w)
      PROVE  Types'
  BY <1>0, <1>7 DEF EnterRound
<1>8. CASE Tick
  <2>1. now' \in Time
    BY <1>0, <1>8 DEF Tick, Time
  <2> QED
    BY <1>0, <1>8, <2>1 DEF Tick
<1>9. CASE Restart
  BY <1>0, <1>9 DEF Restart, NoSubmissions, Idle, Stages
<1> QED
  BY <1>1, <1>2, <1>3, <1>4, <1>5, <1>6, <1>7, <1>8, <1>9 DEF Next, Step

-----------------------------------------------------------------------------
(* Where the opening and the requests are *)

\* Every step keeps the opening and the requests where the fields say.
LEMMA ProgressStep ==
  ASSUME Inv, Next
  PROVE  Progress'
<1> USE DEF Inv, Types, Progress, memory, database, history
<1>0. /\ NoRow \notin Registration /\ NoRound \notin Rounds /\ ZeroTime \notin Time
      /\ \A g \in Registration : g.round \in Rounds /\ g.end \in Time
  BY RowsAndTimes, DailyAssumption DEF ZeroTime, Registration
<1>1. CASE Load
  BY <1>0, <1>1 DEF Load, Unlocked
<1>2. ASSUME NEW i \in Ids, Fetch(i) \/ Gate(i) \/ Verify(i)
      PROVE  Progress'
  <2>1. \A j \in Ids :
          /\ requests'[j].stage # "idle" => loaded
          /\ requests'[j].stage \in {"idle", "gate"} => requests'[j].round = NoRound
    <3>1. CASE Fetch(i)
      BY <3>1 DEF Fetch
    <3>2. CASE Gate(i)
      BY <3>2 DEF Gate, Answer, Idle
    <3>3. CASE Verify(i)
      BY <3>3 DEF Verify, Answer, Idle
    <3> QED
      BY <1>2, <3>1, <3>2, <3>3
  <2>2. UNCHANGED <<now, entered, memory, opening, opened, database, history>>
    BY <1>2 DEF Fetch, Gate, Verify
  <2> QED
    BY <2>1, <2>2
<1>3. ASSUME NEW i \in Ids, NEW score \in Scores, Record(i, score)
      PROVE  Progress'
  <2>1. loaded
    BY <1>3 DEF Record
  <2>2. /\ requests' = [requests EXCEPT ![i] = Idle]
        /\ UNCHANGED <<loaded, paid, roundID, endTime, opening, opened>>
    BY <1>3 DEF Record, Answer
  <2> QED
    BY <2>1, <2>2 DEF Idle
<1>4. ASSUME NEW r \in Rounds, NEW end \in Time, Open(r, end)
      PROVE  Progress'
  <2>1. opened' \in Registration
    BY <1>4 DEF Open, Registration
  <2> QED
    BY <1>0, <1>4, <2>1 DEF Open
<1>5. CASE OpenSetRound \/ OpenSetEnd
  BY <1>0, <1>5 DEF OpenSetRound, OpenSetEnd
<1>6. CASE OpenSave
  BY <1>0, <1>6 DEF OpenSave
<1>7. CASE (\E r \in Rounds, w \in Wallets : EnterRound(r, w)) \/ Tick
  BY <1>7 DEF EnterRound, Tick, NoSubmissions
<1>9. CASE Restart
  BY <1>9 DEF Restart, Idle, NoSubmissions
<1> QED
  BY <1>1, <1>2, <1>3, <1>4, <1>5, <1>6, <1>7, <1>9 DEF Next, Step

-----------------------------------------------------------------------------
(* The gate *)

\* Every step keeps what passed the gate of a round with those who have entered it: what
\* the chain has answered once it answers for ever.
LEMMA GatedStep ==
  ASSUME Inv, Next
  PROVE  Gated'
<1> USE DEF Inv, Types, Gated, memory, database, history
<1>0. \A i \in Ids, r \in Rounds \cup {NoRound} :
        HasEntered(i, r, entered) => HasEntered(i, r, entered')
  <2>1. \A r \in Rounds : entered[r] \subseteq entered'[r]
    BY DEF Next, Step, Load, Fetch, Gate, Verify, Record, Open, OpenSetRound, OpenSetEnd,
      OpenSave, EnterRound, Tick, Restart
  <2> QED
    BY <2>1 DEF HasEntered
<1>1. \A k \in Keys : submissions[k] # NoRow =>
        HasEntered(submissions[k].id, submissions[k].round, entered')
  BY <1>0 DEF Submission
<1>2. \A i \in Ids : rows[i] # NoRow => rows[i].id = i /\ HasEntered(i, rows[i].round, entered')
  BY <1>0 DEF Submission
<1>3. \A i \in Ids : requests[i].stage = "record" => HasEntered(i, requests[i].round, entered')
  BY <1>0
<1>4. CASE Load
  <2>1. \A k \in Keys : submissions'[k] # NoRow =>
          HasEntered(submissions'[k].id, submissions'[k].round, entered')
    BY <1>1, <1>2, <1>4, LoadRecovers
  <2> QED
    BY <1>2, <1>3, <1>4, <2>1 DEF Load
<1>5. ASSUME NEW i \in Ids, Fetch(i) \/ Gate(i) \/ Verify(i)
      PROVE  Gated'
  <2>1. \A j \in Ids :
          requests'[j].stage = "record" => HasEntered(j, requests'[j].round, entered')
    <3>1. CASE Fetch(i)
      BY <1>3, <3>1 DEF Fetch
    <3>2. CASE Gate(i)
      <4>1. requests[i].round = NoRound
        BY <3>2 DEF Gate, Progress
      <4>2. requests'[i].stage = "record" => requests'[i].round = NoRound
        BY <3>2, <4>1 DEF Gate, Answer, Idle
      <4>3. \A j \in Ids \ {i} : requests'[j] = requests[j]
        BY <3>2 DEF Gate, Answer
      <4> QED
        BY <1>3, <4>1, <4>2, <4>3 DEF HasEntered
    <3>3. CASE Verify(i)
      BY <1>3, <3>3 DEF Verify, Answer, Idle, HasEntered
    <3> QED
      BY <1>5, <3>1, <3>2, <3>3
  <2>2. UNCHANGED <<submissions, rows>>
    BY <1>5 DEF Fetch, Gate, Verify
  <2> QED
    BY <1>1, <1>2, <2>1, <2>2
<1>6. ASSUME NEW i \in Ids, NEW score \in Scores, Record(i, score)
      PROVE  Gated'
  <2> DEFINE sub == [id |-> i, score |-> score, round |-> requests[i].round]
  <2>1. sub.id = i /\ HasEntered(i, sub.round, entered') /\ KeyOf[i] \in Keys
    BY <1>3, <1>6, DailyAssumption DEF Record
  <2> HIDE DEF sub
  <2>2. /\ \/ submissions' = [submissions EXCEPT ![KeyOf[i]] = sub]
           \/ UNCHANGED submissions
        /\ rows' = [rows EXCEPT ![i] = sub] \/ UNCHANGED rows
        /\ requests' = [requests EXCEPT ![i] = Idle]
    <3>1. rows' = [rows EXCEPT ![i] = IF Improves(score, rows[i]) THEN sub ELSE rows[i]]
          \/ UNCHANGED rows
      BY <1>6 DEF Record, UpsertSubmission, sub
    <3> QED
      BY <1>6, <3>1 DEF Record, Answer, sub
  <2>3. \A k \in Keys : submissions'[k] # NoRow =>
          HasEntered(submissions'[k].id, submissions'[k].round, entered')
    BY <1>1, <2>1, <2>2
  <2>4. \A j \in Ids :
          rows'[j] # NoRow => rows'[j].id = j /\ HasEntered(j, rows'[j].round, entered')
    BY <1>2, <2>1, <2>2
  <2>5. \A j \in Ids :
          requests'[j].stage = "record" => HasEntered(j, requests'[j].round, entered')
    BY <1>3, <2>2 DEF Idle
  <2> QED
    BY <2>3, <2>4, <2>5
<1>7. CASE UNCHANGED <<submissions, rows, requests>>
  BY <1>1, <1>2, <1>3, <1>7
<1>8. CASE Restart
  BY <1>2, <1>8 DEF Restart, NoSubmissions, Idle
<1> QED
  BY <1>4, <1>5, <1>6, <1>7, <1>8
     DEF Next, Step, Open, OpenSetRound, OpenSetEnd, OpenSave, EnterRound, Tick

-----------------------------------------------------------------------------
(* The registration *)

\* Every step keeps the fields with the registration, as long as the database works: a
\* process that starts reads them from the row before it looks at anything else.
LEMMA HeldStep ==
  ASSUME Inv, Next
  PROVE  Held'
<1> SUFFICES ASSUME ~dbMayFail
             PROVE  Held'
  BY DEF Next, Held
<1> USE DEF Inv, Types, Progress, Held, memory, database, history
<1>0. /\ NoRow \notin Registration /\ NoRound \notin Rounds /\ ~dbMayFail'
      /\ \A g \in Registration : g.round \in Rounds
  BY RowsAndTimes, DailyAssumption DEF Registration, Next
<1>1. CASE Load
  BY <1>0, <1>1 DEF Load, Unlocked
<1>2. ASSUME NEW r \in Rounds, NEW end \in Time, Open(r, end)
      PROVE  Held'
  <2>1. /\ loaded' /\ paid' /\ opening' = "round" /\ opening = "no"
        /\ UNCHANGED <<roundRow, registered, roundID, endTime>>
    BY <1>2 DEF Open, Unlocked
  <2>2. loaded /\ registered # NoRow => roundID = registered.round /\ endTime = registered.end
    BY <2>1
  <2>3. ~loaded => roundID = NoRound /\ endTime = ZeroTime
    OBVIOUS
  <2> QED
    BY <1>0, <2>1, <2>2, <2>3
<1>3. CASE OpenSetRound
  BY <1>0, <1>3 DEF OpenSetRound
<1>4. CASE OpenSetEnd
  BY <1>0, <1>4 DEF OpenSetEnd
<1>5. CASE OpenSave
  BY <1>0, <1>5 DEF OpenSave
<1>6. CASE Restart
  BY <1>0, <1>6 DEF Restart
<1>7. CASE UNCHANGED <<loaded, paid, roundID, endTime, opening, roundRow, registered>>
  BY <1>0, <1>7
<1> QED
  BY <1>1, <1>2, <1>3, <1>4, <1>5, <1>6, <1>7
     DEF Next, Step, Fetch, Gate, Verify, Record, EnterRound, Tick
-----------------------------------------------------------------------------
(* What is on record *)

\* A row is only ever replaced by a better one.
LEMMA RowsOnlyImprove ==
  ASSUME Inv, Next, NEW i \in Ids, rows[i] # NoRow
  PROVE  rows'[i] # NoRow /\ rows'[i].score >= rows[i].score
<1> USE DEF Inv, Types, database
<1>0. /\ rows[i] \in Submission /\ NoRow \notin Submission
      /\ \A s \in Submission : s.score \in Nat
  BY RowsAndTimes
<1>1. CASE UNCHANGED rows
  BY <1>0, <1>1
<1>2. ASSUME NEW j \in Ids, NEW score \in Scores, Record(j, score)
      PROVE  rows'[i] # NoRow /\ rows'[i].score >= rows[i].score
  <2> DEFINE sub == [id |-> j, score |-> score, round |-> requests[j].round]
  <2>1. sub \in Submission /\ sub.score = score
    BY DEF Submission
  <2>2. \/ UNCHANGED rows
        \/ rows' = [rows EXCEPT ![j] = IF Improves(score, rows[j]) THEN sub ELSE rows[j]]
    BY <1>2 DEF Record, UpsertSubmission
  <2> HIDE DEF sub
  <2>3. CASE i = j /\ rows'[i] = sub /\ Improves(score, rows[i])
    BY <1>0, <2>1, <2>3 DEF Improves
  <2>4. CASE rows'[i] = rows[i]
    BY <1>0, <2>4
  <2> QED
    BY <2>2, <2>3, <2>4
<1> QED
  BY <1>1, <1>2 DEF Next, Step, Load, Fetch, Gate, Verify, Open, OpenSetRound, OpenSetEnd,
    OpenSave, EnterRound, Tick, Restart

\* What is on record stays on record.
LEMMA HoldsStays ==
  ASSUME Inv, Next, NEW k \in Keys, NEW score \in Nat, Holds(k, score, rows)
  PROVE  Holds(k, score, rows')
<1>1. PICK i \in Ids : KeyOf[i] = k /\ rows[i] # NoRow /\ rows[i].score >= score
  BY DEF Holds
<1>2. rows'[i] # NoRow /\ rows'[i].score >= rows[i].score
  BY <1>1, RowsOnlyImprove
<1>3. rows[i].score \in Nat /\ rows'[i].score \in Nat
  <2>1. rows[i] \in Submission /\ rows[i].score \in Nat
    BY <1>1, RowsAndTimes DEF Inv, Types
  <2>2. rows'[i] \in Submission
    BY <1>2, TypesStep, TimeStands DEF Types
  <2> QED
    BY <2>1, <2>2, RowsAndTimes DEF Inv
<1> QED
  BY <1>1, <1>2, <1>3 DEF Holds

\* Every step keeps the board and what was acknowledged on record, as long as the database
\* works.  Record may find a better entry on the board and leave the table alone: that entry
\* is on record, and so is the result that is not worth as much.
LEMMA OnRecordStep ==
  ASSUME Inv, Next
  PROVE  OnRecord'
<1> SUFFICES ASSUME ~dbMayFail, NEW k \in Keys
             PROVE  /\ submissions'[k] # NoRow => Holds(k, submissions'[k].score, rows')
                    /\ acked'[k] > -1 => Holds(k, acked'[k], rows')
  BY DEF Next, OnRecord, Holds
<1> USE DEF memory, database, history
<1>t. /\ submissions \in [Keys -> Submission \cup {NoRow}]
      /\ acked \in [Keys -> Scores \cup {-1}] /\ rows \in [Ids -> Submission \cup {NoRow}]
      /\ NoRow \notin Submission /\ \A s \in Submission : s.score \in Nat
      /\ Scores \subseteq Nat
  BY RowsAndTimes, DailyAssumption DEF Inv, Types
<1>s. submissions[k] # NoRow => Holds(k, submissions[k].score, rows')
  BY <1>t, HoldsStays DEF Inv, OnRecord
<1>a. acked[k] > -1 => Holds(k, acked[k], rows')
  <2>1. acked[k] \in Nat \/ acked[k] = -1
    BY <1>t
  <2> QED
    BY <2>1, HoldsStays DEF Inv, OnRecord
<1>1. CASE UNCHANGED <<submissions, acked>>
  BY <1>s, <1>a, <1>1
<1>2. CASE Load
  <2>1. acked' = acked /\ rows' = rows
    BY <1>2 DEF Load
  <2>2. CASE submissions'[k] = submissions[k]
    BY <1>s, <1>a, <2>1, <2>2
  <2>3. ASSUME NEW i \in Ids, KeyOf[i] = k, rows[i] # NoRow, submissions'[k] = rows[i]
        PROVE  Holds(k, submissions'[k].score, rows')
    <3>1. rows[i].score \in Nat
      BY <1>t, <2>3
    <3> QED
      BY <2>1, <2>3, <3>1 DEF Holds
  <2> QED
    BY <1>2, <1>a, <2>1, <2>2, <2>3, LoadRecovers DEF Inv
<1>3. CASE Restart
  BY <1>3, <1>a DEF Restart, NoSubmissions
<1>4. ASSUME NEW i \in Ids, NEW score \in Scores, Record(i, score)
      PROVE  /\ submissions'[k] # NoRow => Holds(k, submissions'[k].score, rows')
             /\ acked'[k] > -1 => Holds(k, acked'[k], rows')
  <2> DEFINE sub == [id |-> i, score |-> score, round |-> requests[i].round]
  <2>1. sub \in Submission /\ sub.score = score /\ score \in Nat /\ KeyOf[i] \in Keys
    BY <1>t, DailyAssumption DEF Submission, Inv, Types
  <2>2. /\ \/ /\ Improves(score, submissions[KeyOf[i]])
              /\ submissions' = [submissions EXCEPT ![KeyOf[i]] = sub]
              /\ rows' = [rows EXCEPT ![i] = IF Improves(score, rows[i]) THEN sub ELSE rows[i]]
           \/ /\ ~Improves(score, submissions[KeyOf[i]])
              /\ UNCHANGED submissions
        /\ acked' = [acked EXCEPT ![KeyOf[i]] = IF acked[KeyOf[i]] < score THEN score
                                                ELSE acked[KeyOf[i]]]
    BY <1>4 DEF Record, UpsertSubmission
  <2> HIDE DEF sub
  <2>3. CASE k # KeyOf[i]
    BY <1>t, <1>s, <1>a, <2>1, <2>2, <2>3
  <2>4. CASE k = KeyOf[i]
    <3>1. Holds(k, score, rows')
      <4>1. CASE ~Improves(score, submissions[k])
        <5>1. submissions[k] # NoRow /\ submissions[k].score >= score
          BY <1>t, <2>1, <4>1 DEF Improves
        <5>2. submissions[k].score \in Nat
          BY <1>t, <5>1
        <5>3. PICK j \in Ids : /\ KeyOf[j] = k /\ rows'[j] # NoRow
                               /\ rows'[j].score >= submissions[k].score
          BY <1>s, <5>1 DEF Holds
        <5>4. rows'[j].score \in Nat
          BY <5>3, TypesStep, TimeStands, RowsAndTimes DEF Types, Inv
        <5> QED
          BY <2>1, <5>1, <5>2, <5>3, <5>4 DEF Holds
      <4>2. CASE Improves(score, submissions[k]) /\ Improves(score, rows[i])
        <5>1. rows'[i] = sub
          BY <1>t, <2>2, <2>4, <4>2
        <5> QED
          BY <1>t, <2>1, <2>4, <5>1 DEF Holds
      <4>3. CASE Improves(score, submissions[k]) /\ ~Improves(score, rows[i])
        <5>1. rows'[i] = rows[i]
          BY <1>t, <2>2, <2>4, <4>3
        <5>2. rows[i] # NoRow /\ rows[i].score >= score
          BY <1>t, <2>1, <4>3 DEF Improves
        <5> QED
          BY <2>4, <5>1, <5>2 DEF Holds
      <4> QED
        BY <4>1, <4>2, <4>3
    <3>2. submissions'[k] = sub \/ submissions'[k] = submissions[k]
      BY <1>t, <2>2, <2>4
    <3>3. acked'[k] = score \/ acked'[k] = acked[k]
      BY <1>t, <2>2, <2>4
    <3> QED
      BY <1>s, <1>a, <2>1, <3>1, <3>2, <3>3
  <2> QED
    BY <2>3, <2>4
<1> QED
  BY <1>1, <1>2, <1>3, <1>4
     DEF Next, Step, Fetch, Gate, Verify, Open, OpenSetRound, OpenSetEnd, OpenSave,
         EnterRound, Tick

\* The invariant is inductive.
LEMMA NextInv ==
  ASSUME Inv, [Next]_vars
  PROVE  Inv'
<1>1. CASE Next
  BY <1>1, TypesStep, ProgressStep, GatedStep, HeldStep, OnRecordStep DEF Inv
<1>2. CASE UNCHANGED vars
  BY <1>2 DEF Inv, Types, Progress, Gated, Held, OnRecord, HasEntered, Holds, vars, memory,
    database, history, Time, Registration, MaxNow
<1> QED
  BY <1>1, <1>2

-----------------------------------------------------------------------------
(* The theorems *)

\* The invariant holds of every behaviour, whether the database fails or not.
THEOREM Invariance == Spec => []Inv
<1> QED
  BY InitInv, NextInv, PTL DEF Spec

\* Every variable keeps its type, and an open date has its round and its cutoff.
THEOREM TypeCorrect == Spec => []TypeOK
<1>1. Inv => TypeOK
  BY DEF Inv, Types, Progress, TypeOK, Stages
<1> QED
  BY <1>1, Invariance, PTL

\* Nobody is on the board of a paid round, or in its table, without having entered that
\* round on chain (handleDailySubmit).
THEOREM GatedPaid == Spec => []GatedScoresPaid
<1>1. Inv => GatedScoresPaid
  BY DEF Inv, Gated, HasEntered, GatedScoresPaid
<1> QED
  BY <1>1, Invariance, PTL

\* As long as the database works it holds the best result acknowledged to anybody
\* (UpsertSubmission).
THEOREM BestOnRecord == Spec => []BestIsOnRecord
<1>1. Inv => BestIsOnRecord
  <2> SUFFICES ASSUME Inv, ~dbMayFail, NEW k \in Keys, acked[k] > -1
               PROVE  \E row \in RowsOf(k, Ids) : row.score >= acked[k]
    BY DEF BestIsOnRecord
  <2>1. PICK i \in Ids : KeyOf[i] = k /\ rows[i] # NoRow /\ rows[i].score >= acked[k]
    BY DEF Inv, OnRecord, Holds
  <2>2. rows[i] \in RowsOf(k, Ids)
    BY <2>1 DEF RowsOf
  <2> QED
    BY <2>1, <2>2
<1> QED
  BY <1>1, Invariance, PTL

\* A living process never loses or worsens an entry of its board (Daily.Submit).
THEOREM BoardImproves == Spec => BoardOnlyImproves
<1>1. ASSUME Inv, Next, loaded, loaded', NEW k \in Keys, submissions[k] # NoRow
      PROVE  submissions'[k] # NoRow /\ submissions'[k].score >= submissions[k].score
  <2> USE DEF memory, database, history
  <2>t. /\ submissions \in [Keys -> Submission \cup {NoRow}]
        /\ submissions[k] \in Submission
        /\ NoRow \notin Submission /\ \A s \in Submission : s.score \in Nat
    BY <1>1, RowsAndTimes DEF Inv, Types
  <2>1. CASE UNCHANGED submissions
    BY <1>1, <2>t, <2>1
  <2>2. ASSUME NEW i \in Ids, NEW score \in Scores, Record(i, score)
        PROVE  submissions'[k] # NoRow /\ submissions'[k].score >= submissions[k].score
    <3> DEFINE sub == [id |-> i, score |-> score, round |-> requests[i].round]
    <3>1. sub \in Submission /\ sub.score = score
      BY <1>1 DEF Submission, Inv, Types
    <3>2. \/ /\ Improves(score, submissions[KeyOf[i]])
             /\ submissions' = [submissions EXCEPT ![KeyOf[i]] = sub]
          \/ UNCHANGED submissions
      BY <2>2 DEF Record
    <3> HIDE DEF sub
    <3>3. CASE submissions'[k] = submissions[k]
      BY <1>1, <2>t, <3>3
    <3>4. CASE submissions'[k] = sub /\ Improves(score, submissions[k])
      BY <1>1, <2>t, <3>1, <3>4 DEF Improves
    <3> QED
      BY <2>t, <3>2, <3>3, <3>4
  <2> QED
    BY <1>1, <2>1, <2>2 DEF Next, Step, Load, Fetch, Gate, Verify, Open, OpenSetRound,
      OpenSetEnd, OpenSave, EnterRound, Tick, Restart
<1>2. ASSUME Inv, [Next]_vars
      PROVE  [loaded /\ loaded' =>
               \A k \in Keys : submissions[k] # NoRow =>
                 submissions'[k] # NoRow /\ submissions'[k].score >= submissions[k].score]_vars
  BY <1>1, <1>2
<1> QED
  BY <1>2, Invariance, PTL DEF Spec, BoardOnlyImproves

\* Once a registration is finished no request passes the gate against anything else, across
\* every restart, as long as the database works (OpenPaidDaily, daily).
THEOREM GateOutlives == Spec => GateOutlivesRestarts
<1>1. ASSUME Inv, Next, registered # NoRow, ~dbMayFail, PassesUngated
      PROVE  FALSE
  <2> USE DEF memory, database, history
  <2>1. PICK i \in Ids :
          /\ requests[i].stage = "gate" /\ requests'[i].stage \in {"verify", "record"}
          /\ LET current == {registered, opened} \ {NoRow} IN
             \/ \A reg \in current : requests'[i].round # reg.round
             \/ \A reg \in current : now > reg.end
    BY <1>1 DEF PassesUngated
  <2>2. Gate(i)
    <3>1. requests \in [Ids -> [stage : Stages, round : Rounds \cup {NoRound}]]
      BY <1>1 DEF Inv, Types
    <3>2. ASSUME NEW j \in Ids, Fetch(j) \/ Verify(j) \/ \E score \in Scores : Record(j, score)
          PROVE  FALSE
      BY <2>1, <3>1, <3>2 DEF Fetch, Verify, Record, Answer, Idle
    <3>3. ASSUME NEW j \in Ids, Gate(j), j # i
          PROVE  FALSE
      BY <2>1, <3>1, <3>3 DEF Gate, Answer
    <3>4. requests' # requests
      BY <2>1
    <3>5. ~Restart
      BY <2>1 DEF Restart, Idle
    <3> QED
      BY <1>1, <3>2, <3>3, <3>4, <3>5 DEF Next, Step, Load, Open, OpenSetRound, OpenSetEnd,
        OpenSave, EnterRound, Tick
  <2>3. /\ loaded /\ paid
    BY <1>1, <2>1 DEF Inv, Progress, Held
  <2>4. /\ now <= endTime /\ roundID # NoRound
        /\ requests'[i].round = roundID
    <3>1. requests \in [Ids -> [stage : Stages, round : Rounds \cup {NoRound}]]
      BY <1>1 DEF Inv, Types
    <3>2. requests' # [requests EXCEPT ![i] = Idle]
      BY <2>1, <3>1 DEF Idle
    <3>3. /\ now <= endTime /\ roundID # NoRound
          /\ requests' = [requests EXCEPT ![i].stage = "verify", ![i].round = roundID]
      BY <2>2, <2>3, <3>2 DEF Gate, Answer
    <3> QED
      BY <3>1, <3>3
  <2>5. /\ now \in Nat /\ registered.end \in Nat /\ registered.end \in Int
        /\ opened # NoRow => opened.end \in Nat
    BY <1>1, RowsAndTimes DEF Inv, Types, Registration
  <2>6. CASE opening \in {"no", "round"}
    <3>1. roundID = registered.round /\ endTime \in {registered.end, ZeroTime}
      BY <1>1, <2>3, <2>4, <2>6 DEF Inv, Held
    <3>2. now <= registered.end
      BY <2>4, <2>5, <3>1 DEF ZeroTime
    <3> QED
      BY <1>1, <2>1, <2>4, <2>5, <3>1, <3>2
  <2>7. CASE opening \in {"end", "save"}
    <3>1. opened # NoRow /\ roundID = opened.round
      BY <1>1, <2>7 DEF Inv, Progress
    <3>2. \/ now <= registered.end
          \/ now <= opened.end
      BY <1>1, <2>3, <2>4, <2>5, <2>7, <3>1 DEF Inv, Held, Progress, ZeroTime
    <3> QED
      BY <1>1, <2>1, <2>4, <2>5, <3>1, <3>2
  <2> QED
    BY <1>1, <2>4, <2>6, <2>7 DEF Inv, Types
<1>2. ASSUME Inv, [Next]_vars
      PROVE  [registered # NoRow /\ ~dbMayFail => ~PassesUngated]_vars
  BY <1>1, <1>2
<1> QED
  BY <1>2, Invariance, PTL DEF Spec, GateOutlivesRestarts
=============================================================================
