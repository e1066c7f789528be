-------------------------- MODULE PoolDays_proofs --------------------------
(***************************************************************************)
(* Theorems about PoolDays, for every set of calls and players, pools of   *)
(* every number of days, every horizon, every number of crashes, and       *)
(* clocks that show any fraction of a second.                              *)
(*                                                                         *)
(* Basic says that the state is well typed and how far each call is; its   *)
(* part Progress keeps the dates a call registers in range.  Sound relates *)
(* the dates to the calls that registered them, the process to the         *)
(* database, and the signatures to the entries on chain.                   *)
(***************************************************************************)
EXTENDS PoolDays, SequenceTheorems, TLAPS

Ends == 0..(Second * (Horizon + 2 * MaxDays) + Second - 1)

Stages == {"idle", "fresh", "sent", "register", "persist", "done", "failed"}

ClockTypeOK ==
  /\ config \in Configs
  /\ now \in 0..Horizon
  /\ crashes \in 0..MaxCrashes

CallTypeOK ==
  /\ stage \in [Calls -> Stages]
  /\ days \in [Calls -> 0..MaxDays]
  /\ first \in [Calls -> 0..DateOf(Horizon)]
  /\ end \in [Calls -> Ends]
  /\ next \in [Calls -> 0..MaxDays]
  /\ tx \in [Calls -> {"none", "pending", "mined", "reverted"}]
  /\ closes \in [Calls -> Times]
  /\ entered \in [Calls -> SUBSET Players]

\* How far a call is: it holds the mutex exactly while it writes a row, and it has days
\* left to register as long as it registers.
Progress ==
  \A c \in Calls :
    /\ mutex = c <=> stage[c] = "persist"
    /\ stage[c] \in {"idle", "fresh", "sent"} => next[c] = 0
    /\ stage[c] = "fresh" => days[c] >= 1
    /\ stage[c] \in {"sent", "register", "persist"} => next[c] < days[c]
    /\ next[c] <= days[c]
    /\ stage[c] = "done" => next[c] = days[c]

StoreTypeOK ==
  /\ store \in [Dates -> Registered \cup {Absent, Free}]
  /\ rows \in [Dates -> Registered \cup {Absent}]
  /\ mutex \in Calls \cup {NoCall}

SettlementTypeOK ==
  /\ signing \in [round : Calls \cup {NoCall}, winners : Seq(Players), verified : Nat]
  /\ signing.verified <= Len(signing.winners)
  /\ signing # NoSettlement => signing.round \in Calls
  /\ signed \in [Calls -> SUBSET Players]

Basic == ClockTypeOK /\ CallTypeOK /\ Progress /\ StoreTypeOK /\ SettlementTypeOK

\* A date keeps registration g: its round was waited for, and ends on chain in the second of
\* the cutoff, after the date is over.
Backed(d, g) ==
  /\ stage[g.round] \notin {"idle", "fresh", "sent"}
  /\ tx[g.round] \in {"mined", "reverted"}
  /\ g.end \div Second = closes[g.round]
  /\ 2 * d + 1 < closes[g.round]

DatesBacked ==
  \A d \in Dates : /\ store[d] \notin {Absent, Free} => Backed(d, store[d])
                   /\ rows[d] \notin {Absent, Free} => Backed(d, rows[d])

\* A call that registers has had its transaction mined, and ends days after its first date,
\* on chain in the second it knows.
CallsBacked ==
  \A c \in Calls :
    /\ stage[c] \in {"sent", "register", "persist"} =>
         /\ tx[c] # "none"
         /\ end[c] \div Second = closes[c]
         /\ closes[c] >= 2 * first[c] + 2 * days[c]
    /\ stage[c] \in {"register", "persist"} => tx[c] \in {"mined", "reverted"}

\* A row tells what it was written from, to the microsecond.
Reloads(shown, row) ==
  row \in Registered /\ row.round = shown.round /\ shown.end - row.end \in 0..(Micro - 1)

\* The date whose row is being written shows what is written, and whatever else the process
\* shows is on record.
Recorded ==
  /\ \A c \in Calls : stage[c] = "persist" => store[Day(c)] = Registration(c)
  /\ ~config.dbMayFail =>
       \A d \in Dates : store[d] \notin {Absent, Free} =>
         \/ Reloads(store[d], rows[d])
         \/ \E c \in Calls : stage[c] = "persist" /\ d = Day(c)

\* A row is of a round that has registered its date, and no registered date is without.
DaysRecorded ==
  /\ \A d \in Dates : rows[d] # Absent => d \in RegisteredDays(rows[d].round)
  /\ ~config.dbMayFail => \A c \in Calls : \A d \in RegisteredDays(c) : rows[d] # Absent

WinnersEntered == config.chainOn =>
  /\ \A c \in Calls : signed[c] \subseteq entered[c]
  /\ signing # NoSettlement =>
       \A i \in 1..signing.verified : signing.winners[i] \in entered[signing.round]

Sound == DatesBacked /\ CallsBacked /\ Recorded /\ DaysRecorded /\ WinnersEntered

-----------------------------------------------------------------------------

\* The process starts well typed.
LEMMA InitBasic == Init => Basic
<1> SUFFICES ASSUME Init PROVE Basic
  OBVIOUS
<1>1. ClockTypeOK
  BY PoolDaysAssumption DEF Init, ClockTypeOK
<1>2. CallTypeOK
  BY PoolDaysAssumption DEF Init, CallTypeOK, Stages, Times, Ends, Second, DateOf
<1>3. Progress /\ StoreTypeOK
  BY PoolDaysAssumption DEF Init, Progress, StoreTypeOK
<1>4. SettlementTypeOK
  BY EmptySeq, PoolDaysAssumption DEF Init, SettlementTypeOK, NoSettlement
<1> QED
  BY <1>1, <1>2, <1>3, <1>4 DEF Basic

\* The dates of a call that registers are among those of the model.
LEMMA DayInRange ==
  ASSUME Basic, NEW c \in Calls, stage[c] \in {"register", "persist"}
  PROVE  Day(c) \in Dates /\ Registration(c) \in Registered
BY PoolDaysAssumption
   DEF Basic, ClockTypeOK, CallTypeOK, Progress, Day, Dates, DateOf, Registration, Registered, Ends

\* A row keeps the round, and a cutoff in the same second and microsecond.
LEMMA RowTells ==
  ASSUME NEW g \in Registered
  PROVE  /\ Row(g) \in Registered
         /\ Reloads(g, Row(g))
         /\ Row(g).end \div Second = g.end \div Second
<1>1. \A e \in Nat : /\ 2 * (e \div 2) \in 0..e /\ e - 2 * (e \div 2) \in 0..1
                     /\ (2 * (e \div 2)) \div 4 = e \div 4
  OBVIOUS
<1>2. g.round \in Calls /\ g.end \in Nat
  BY DEF Registered
<1>3. Row(g) = [round |-> g.round, end |-> 2 * (g.end \div 2)]
  BY DEF Row, Micro, Registered
<1>4. Row(g) \in Registered
  BY <1>1, <1>2, <1>3, PoolDaysAssumption DEF Registered, Second
<1> QED
  BY <1>1, <1>2, <1>3, <1>4 DEF Reloads, Second, Micro

\* handleCreatePool keeps the state typed, and registers no more days than it was asked for.
LEMMA CreatePoolBasic ==
  ASSUME Basic, NEW c \in Calls, CreatePool(c), UNCHANGED config
  PROVE  Basic'
<1> USE PoolDaysAssumption DEF Basic
<1>1. CASE Ask(c)
  <2>1. PICK n \in 1..MaxDays : days' = [days EXCEPT ![c] = n]
    BY <1>1 DEF Ask
  <2>2. CallTypeOK'
    BY <1>1, <2>1 DEF Ask, chain, CallTypeOK, Stages
  <2>3. Progress'
    BY <1>1, <2>1 DEF Ask, CallTypeOK, Progress
  <2> QED
    BY <1>1, <2>2, <2>3 DEF Ask, settlement, ClockTypeOK, StoreTypeOK, SettlementTypeOK
<1>2. CASE Send(c)
  <2>1. ClockTypeOK' /\ StoreTypeOK' /\ SettlementTypeOK'
    BY <1>2 DEF Send, settlement, ClockTypeOK, StoreTypeOK, SettlementTypeOK
  <2>2. DateOf(now) \in 0..DateOf(Horizon)
    BY DEF ClockTypeOK, DateOf
  <2>3. CallTypeOK'
    <3>1. CASE UNCHANGED <<first, end, closes, tx>>
      BY <1>2, <3>1 DEF Send, CallTypeOK, Stages
    <3>2. CASE ~UNCHANGED <<first, end, closes, tx>>
      <4>1. PICK part \in Fractions :
              end' = [end EXCEPT ![c] = Second * (now + 2 * days[c]) + part]
        BY <1>2, <3>2 DEF Send
      <4>2. /\ part \in 0..3 /\ now \in 0..Horizon /\ days[c] \in 0..MaxDays
            /\ end'[c] = 4 * (now + 2 * days[c]) + part
        BY <4>1 DEF ClockTypeOK, CallTypeOK, Second
      <4>3. end'[c] \in Ends /\ end'[c] \div Second \in Times
        BY <4>2 DEF Ends, Times, Second
      <4> QED
        BY <1>2, <2>2, <3>2, <4>1, <4>3 DEF Send, CallTypeOK, Stages
    <3> QED
      BY <3>1, <3>2
  <2>4. Progress'
    BY <1>2 DEF Send, CallTypeOK, Progress, Stages
  <2> QED
    BY <2>1, <2>3, <2>4
<1>3. CASE Await(c)
  <2>1. ClockTypeOK' /\ CallTypeOK'
    BY <1>3 DEF Await, chain, ClockTypeOK, CallTypeOK, Stages
  <2>2. Progress'
    BY <1>3 DEF Await, CallTypeOK, Progress
  <2> QED
    BY <1>3, <2>1, <2>2 DEF Await, settlement, StoreTypeOK, SettlementTypeOK
<1>4. CASE Register(c)
  <2>1. Day(c) \in Dates /\ Registration(c) \in Registered
    BY <1>4, DayInRange DEF Register
  <2>2. ClockTypeOK' /\ CallTypeOK' /\ SettlementTypeOK'
    BY <1>4 DEF Register, chain, settlement, ClockTypeOK, CallTypeOK, SettlementTypeOK, Stages
  <2>3. StoreTypeOK'
    BY <1>4, <2>1 DEF Register, StoreTypeOK
  <2>4. Progress'
    BY <1>4 DEF Register, CallTypeOK, Progress, Stages
  <2> QED
    BY <2>2, <2>3, <2>4
<1>5. CASE Persist(c)
  <2>1. Day(c) \in Dates /\ Registration(c) \in Registered
    BY <1>5, DayInRange DEF Persist
  <2>2. ClockTypeOK' /\ SettlementTypeOK'
    BY <1>5 DEF Persist, settlement, ClockTypeOK, SettlementTypeOK
  <2>3. CallTypeOK'
    BY <1>5 DEF Persist, chain, CallTypeOK, Progress, Stages
  <2>4. StoreTypeOK'
    BY <1>5, <2>1, RowTells DEF Persist, StoreTypeOK, Release
  <2>5. Progress'
    BY <1>5 DEF Persist, MoreDays, CallTypeOK, Progress, Stages, Release
  <2> QED
    BY <2>2, <2>3, <2>4, <2>5
<1> QED
  BY <1>1, <1>2, <1>3, <1>4, <1>5 DEF CreatePool

\* handleSignSettlement keeps the state typed, and verifies no more winners than it was given.
LEMMA SignSettlementBasic ==
  ASSUME Basic, SignSettlement, UNCHANGED config
  PROVE  Basic'
<1> USE PoolDaysAssumption DEF Basic
<1>1. ClockTypeOK' /\ CallTypeOK' /\ Progress' /\ StoreTypeOK'
  BY DEF SignSettlement, AskSettlement, VerifyWinner, Sign, call, chain, ClockTypeOK,
       CallTypeOK, Progress, StoreTypeOK
<1>2. CASE AskSettlement
  <2>1. PICK c \in Calls, n \in 1..MaxWinners : \E w \in [1..n -> config.players] :
          signing' = [round |-> c, winners |-> w, verified |-> 0]
    BY <1>2 DEF AskSettlement
  <2>2. PICK w \in [1..n -> config.players] :
          signing' = [round |-> c, winners |-> w, verified |-> 0]
    BY <2>1
  <2>3. config.players \subseteq Players
    BY DEF ClockTypeOK
  <2>4. w \in Seq(Players) /\ Len(w) = n
    BY <2>3, SeqDef
  <2> QED
    BY <1>1, <1>2, <2>2, <2>3, <2>4 DEF AskSettlement, SettlementTypeOK
<1>3. CASE VerifyWinner
  <2>1. Len(signing.winners) \in Nat
    BY LenProperties DEF SettlementTypeOK
  <2>2. signing.verified < Len(signing.winners) => signing # NoSettlement
    BY EmptySeq DEF NoSettlement
  <2>3. NoSettlement.winners \in Seq(Players) /\ NoSettlement.verified <= Len(NoSettlement.winners)
    BY EmptySeq DEF NoSettlement
  <2>4. CASE signing' = [signing EXCEPT !.verified = @ + 1]
    <3>1. signing.round \in Calls
      BY <1>3, <2>2 DEF VerifyWinner, SettlementTypeOK
    <3> QED
      BY <1>1, <1>3, <2>1, <2>4, <3>1 DEF VerifyWinner, SettlementTypeOK
  <2>5. CASE signing' = NoSettlement
    BY <1>1, <1>3, <2>3, <2>5 DEF VerifyWinner, SettlementTypeOK, NoSettlement
  <2> QED
    BY <1>3, <2>4, <2>5 DEF VerifyWinner
<1>4. CASE Sign
  <2>1. {signing.winners[i] : i \in DOMAIN signing.winners} \subseteq Players
    BY LenProperties DEF SettlementTypeOK
  <2>2. signed' \in [Calls -> SUBSET Players]
    BY <1>4, <2>1 DEF Sign, SettlementTypeOK
  <2>3. NoSettlement.winners \in Seq(Players) /\ NoSettlement.verified <= Len(NoSettlement.winners)
    BY EmptySeq DEF NoSettlement
  <2> QED
    BY <1>1, <1>4, <2>2, <2>3 DEF Sign, SettlementTypeOK, NoSettlement
<1> QED
  BY <1>2, <1>3, <1>4 DEF SignSettlement

\* So do the chain, the clock, and a process that crashes and starts again.
LEMMA WorldBasic ==
  ASSUME Basic, UNCHANGED config,
         \/ \E c \in Calls : Mine(c) \/ Script(c) \/ \E p \in config.players : Enter(p, c)
         \/ \E d \in Dates : Look(d)
         \/ Tick
         \/ Crash
  PROVE  Basic'
<1> USE PoolDaysAssumption DEF Basic
<1>1. CASE \E c \in Calls : Mine(c)
  <2>1. ClockTypeOK' /\ CallTypeOK' /\ Progress'
    BY <1>1 DEF Mine, call, ClockTypeOK, CallTypeOK, Progress
  <2>2. UNCHANGED <<store, rows, mutex, signing, signed>>
    BY <1>1 DEF Mine, settlement
  <2>3. StoreTypeOK' /\ SettlementTypeOK'
    BY <2>2 DEF StoreTypeOK, SettlementTypeOK
  <2> QED
    BY <2>1, <2>3
<1>2. CASE \E c \in Calls, p \in config.players : Enter(p, c)
  <2>1. PICK c \in Calls, p \in config.players : Enter(p, c)
    BY <1>2
  <2>2. p \in Players
    BY DEF ClockTypeOK
  <2>3. entered' \in [Calls -> SUBSET Players]
    BY <2>1, <2>2 DEF Enter, CallTypeOK
  <2>4. ClockTypeOK' /\ CallTypeOK' /\ Progress'
    BY <2>1, <2>3 DEF Enter, call, ClockTypeOK, CallTypeOK, Progress
  <2>5. UNCHANGED <<store, rows, mutex, signing, signed>>
    BY <2>1 DEF Enter, settlement
  <2>6. StoreTypeOK' /\ SettlementTypeOK'
    BY <2>5 DEF StoreTypeOK, SettlementTypeOK
  <2> QED
    BY <2>4, <2>6
<1>3. CASE \E d \in Dates : Look(d)
  <2>1. PICK d \in Dates : Look(d)
    BY <1>3
  <2>2. rows[d] \in Registered \cup {Absent, Free}
    BY DEF StoreTypeOK
  <2>3. store' \in [Dates -> Registered \cup {Absent, Free}]
    BY <2>1, <2>2 DEF Look, StoreTypeOK
  <2> QED
    BY <2>1, <2>3 DEF Look, call, chain, settlement, ClockTypeOK, CallTypeOK, Progress,
         StoreTypeOK, SettlementTypeOK
<1>4. CASE Tick
  <2>1. ClockTypeOK'
    BY <1>4 DEF Tick, ClockTypeOK
  <2>2. CallTypeOK' /\ Progress'
    BY <1>4 DEF Tick, call, chain, CallTypeOK, Progress
  <2>3. StoreTypeOK' /\ SettlementTypeOK'
    BY <1>4 DEF Tick, settlement, StoreTypeOK, SettlementTypeOK
  <2> QED
    BY <2>1, <2>2, <2>3
<1>5. CASE Crash
  <2>1. ClockTypeOK' /\ StoreTypeOK'
    BY <1>5 DEF Crash, ClockTypeOK, StoreTypeOK
  <2>2. CallTypeOK'
    BY <1>5 DEF Crash, chain, CallTypeOK, Stages
  <2>3. Progress'
    BY <1>5 DEF Crash, Running, Progress, CallTypeOK
  <2>4. SettlementTypeOK'
    BY <1>5, EmptySeq DEF Crash, SettlementTypeOK, NoSettlement
  <2> QED
    BY <2>1, <2>2, <2>3, <2>4
<1>6. CASE \E c \in Calls : Script(c)
  <2>1. PICK c \in Calls, n \in 1..MaxDays :
          Script(c) /\ closes' = [closes EXCEPT ![c] = now + 2 * n]
    BY <1>6 DEF Script
  <2>2. now + 2 * n \in Times
    BY DEF ClockTypeOK, Times
  <2>3. CallTypeOK'
    BY <2>1, <2>2 DEF Script, call, CallTypeOK
  <2> QED
    BY <2>1, <2>3 DEF Script, call, settlement, ClockTypeOK, Progress, StoreTypeOK, SettlementTypeOK
<1> QED
  BY <1>1, <1>2, <1>3, <1>4, <1>5, <1>6

\* Basic is inductive.
LEMMA NextBasic == Basic /\ [Next]_vars => Basic'
<1> SUFFICES ASSUME Basic, [Next]_vars PROVE Basic'
  OBVIOUS
<1>1. CASE Next
  BY <1>1, CreatePoolBasic, SignSettlementBasic, WorldBasic DEF Next, Step
<1>2. CASE UNCHANGED vars
  BY <1>2 DEF vars, call, chain, settlement, Basic, ClockTypeOK, CallTypeOK, Progress,
       StoreTypeOK, SettlementTypeOK
<1> QED
  BY <1>1, <1>2

\* The state is well typed, and every call as far as Progress says.
THEOREM Inductive == Spec => []Basic
BY InitBasic, NextBasic, PTL DEF Spec

\* The state of the store, the database, the chain and every call is well typed, the mutex
\* is held by the call that writes a row and no other, and no call registers too many days.
THEOREM TypeCorrect == Spec => []TypeOK
<1>1. ASSUME Basic PROVE TypeOK
  <2> USE <1>1, PoolDaysAssumption DEF Basic
  <2>1. now \in 0..Horizon /\ crashes \in 0..MaxCrashes
    BY DEF ClockTypeOK
  <2>2. ASSUME NEW c \in Calls
        PROVE  /\ stage[c] \in {"idle", "fresh", "sent", "register", "persist", "done", "failed"}
               /\ next[c] \in 0..days[c] /\ days[c] \in 0..MaxDays
               /\ [round |-> c, end |-> end[c]] \in Registered /\ first[c] \in Dates
               /\ closes[c] \in Times
               /\ tx[c] \in {"none", "pending", "mined", "reverted"}
               /\ entered[c] \subseteq Players
               /\ mutex = c <=> stage[c] = "persist"
    <3>1. next[c] \in 0..days[c]
      BY DEF CallTypeOK, Progress
    <3>2. [round |-> c, end |-> end[c]] \in Registered
      BY DEF CallTypeOK, Registered, Ends
    <3>3. first[c] \in Dates
      BY DEF CallTypeOK, Dates, DateOf
    <3> QED
      BY <3>1, <3>2, <3>3 DEF CallTypeOK, Progress, Stages
  <2>3. \A d \in Dates : {store[d], rows[d]} \ {Absent, Free} \subseteq Registered
    BY DEF StoreTypeOK
  <2>4. signing.round \in Calls \cup {NoCall} /\ signing.verified \in 0..Len(signing.winners)
    BY LenProperties DEF SettlementTypeOK
  <2> QED
    BY <2>1, <2>2, <2>3, <2>4 DEF TypeOK
<1> QED
  BY <1>1, Inductive, PTL

-----------------------------------------------------------------------------

\* Nothing is registered or signed when the process starts.
LEMMA InitSound == Init => Sound
<1> SUFFICES ASSUME Init PROVE Sound
  OBVIOUS
<1>1. DatesBacked /\ CallsBacked /\ Recorded /\ DaysRecorded
  BY DEF Init, DatesBacked, CallsBacked, Recorded, DaysRecorded, RegisteredDays
<1>2. WinnersEntered
  BY DEF Init, WinnersEntered
<1> QED
  BY <1>1, <1>2 DEF Sound

\* A call that has waited for its transaction does not go back, and has its round's end; a
\* mined transaction keeps its result, and a round its entries.
LEMMA CallsAdvance ==
  ASSUME Basic, Next, NEW c \in Calls
  PROVE  /\ stage[c] \notin {"idle", "fresh", "sent"} =>
              /\ stage'[c] \notin {"idle", "fresh", "sent"} /\ end'[c] = end[c]
              /\ tx[c] # "none" => closes'[c] = closes[c]
         /\ tx[c] \in {"mined", "reverted"} =>
              stage[c] \in {"idle", "fresh"} \/ tx'[c] = tx[c]
         /\ entered[c] \subseteq entered'[c]
<1> USE DEF Basic
<1>1. CASE \E b \in Calls : CreatePool(b)
  <2>1. PICK b \in Calls : CreatePool(b)
    BY <1>1
  <2>2. UNCHANGED entered
    BY <2>1 DEF CreatePool, Ask, Send, Await, Register, Persist, chain
  <2>3. stage[b] \notin {"idle", "fresh", "sent"} =>
          /\ stage'[b] \notin {"idle", "fresh", "sent"}
          /\ end' = end /\ tx' = tx /\ closes' = closes
    BY <2>1 DEF CreatePool, Ask, Send, Await, Register, Persist, chain, CallTypeOK
  <2>4. /\ stage' = [stage EXCEPT ![b] = stage'[b]]
        /\ end' = [end EXCEPT ![b] = end'[b]]
        /\ closes' = [closes EXCEPT ![b] = closes'[b]]
        /\ tx' = [tx EXCEPT ![b] = tx'[b]]
        /\ stage[b] \notin {"idle", "fresh"} => tx' = tx
    BY <2>1 DEF CreatePool, Ask, Send, Await, Register, Persist, chain, CallTypeOK
  <2> QED
    BY <2>2, <2>3, <2>4 DEF CallTypeOK
<1>2. CASE \E b \in Calls : Mine(b)
  BY <1>2 DEF Mine, call, CallTypeOK
<1>3. CASE \E b \in Calls, p \in config.players : Enter(p, b)
  BY <1>3 DEF Enter, call, CallTypeOK
<1>4. CASE SignSettlement \/ Tick \/ \E d \in Dates : Look(d)
  BY <1>4 DEF SignSettlement, AskSettlement, VerifyWinner, Sign, Tick, Look, call, chain
<1>5. CASE Crash
  BY <1>5 DEF Crash, chain, CallTypeOK, Stages, Running
<1>6. CASE \E b \in Calls : Script(b)
  BY <1>6 DEF Script, call, CallTypeOK
<1> QED
  BY <1>1, <1>2, <1>3, <1>4, <1>5, <1>6 DEF Next, Step

\* A call that has not registered anything yet is the only one whose first date changes.
LEMMA DaysOnlyGrow ==
  ASSUME Basic, Next, NEW c \in Calls
  PROVE  RegisteredDays(c) \subseteq RegisteredDays(c)'
<1> USE DEF Basic
<1>1. /\ next[c] \in Nat /\ next'[c] \in {next[c], next[c] + 1}
      /\ next[c] = 0 \/ first'[c] = first[c]
  <2>1. CASE \E b \in Calls : Ask(b) \/ Await(b) \/ Register(b)
    BY <2>1 DEF Ask, Await, Register, CallTypeOK
  <2>2. CASE \E b \in Calls : Send(b)
    BY <2>2 DEF Send, CallTypeOK, Progress
  <2>3. CASE \E b \in Calls : Persist(b)
    BY <2>3 DEF Persist, CallTypeOK
  <2>4. CASE UNCHANGED <<first, next>>
    BY <2>4 DEF CallTypeOK
  <2> QED
    BY <2>1, <2>2, <2>3, <2>4 DEF Next, Step, CreatePool, Mine, Script, Enter, Look, SignSettlement,
       AskSettlement, VerifyWinner, Sign, Tick, Crash, call
<1> QED
  BY <1>1 DEF RegisteredDays

\* What backs a registration stays: no call goes back to before its transaction was waited for.
LEMMA BackedStays ==
  ASSUME Basic, Next, NEW d \in Dates, NEW g \in Registered, Backed(d, g)
  PROVE  Backed(d, g)'
<1>1. g.round \in Calls
  BY DEF Registered
<1> QED
  BY <1>1, CallsAdvance DEF Backed

\* What a call registers is backed by its round.
LEMMA RegistrationBacked ==
  ASSUME Basic, CallsBacked, NEW c \in Calls, stage[c] \in {"register", "persist"}
  PROVE  Backed(Day(c), Registration(c))
<1>1. /\ tx[c] \in {"mined", "reverted"}
      /\ end[c] \div Second = closes[c]
      /\ closes[c] >= 2 * first[c] + 2 * days[c]
      /\ next[c] < days[c]
  BY DEF CallsBacked, Basic, Progress
<1>2. first[c] \in Int /\ days[c] \in Int /\ closes[c] \in Int /\ next[c] \in Int
  BY PoolDaysAssumption DEF Basic, CallTypeOK, DateOf, Times
<1>3. 2 * (first[c] + next[c]) + 1 < closes[c]
  BY <1>1, <1>2
<1> QED
  BY <1>1, <1>3 DEF Backed, Day, Registration

\* Where the registrations of a date come from.
LEMMA StoreStep ==
  ASSUME Basic, Next, NEW d \in Dates
  PROVE  \/ store'[d] \in {store[d], rows[d], Absent, Free}
         \/ \E c \in Calls : stage[c] = "register" /\ d = Day(c) /\ store'[d] = Registration(c)
<1> USE DEF Basic, StoreTypeOK
<1>1. CASE \E c \in Calls : Register(c)
  BY <1>1 DEF Register
<1>2. CASE \E e \in Dates : Look(e)
  BY <1>2 DEF Look
<1>3. CASE \E c \in Calls : Ask(c) \/ Send(c) \/ Await(c) \/ Persist(c) \/ Mine(c)
  BY <1>3 DEF Ask, Send, Await, Persist, Mine
<1>4. CASE SignSettlement \/ Tick \/ \E c \in Calls : Script(c) \/ \E p \in config.players : Enter(p, c)
  BY <1>4 DEF SignSettlement, AskSettlement, VerifyWinner, Sign, Tick, Script, Enter
<1>5. CASE Crash
  BY <1>5 DEF Crash
<1> QED
  BY <1>1, <1>2, <1>3, <1>4, <1>5 DEF Next, Step, CreatePool

\* Where the rows of a date come from: the call that holds the mutex of the store writes one.
LEMMA RowsStep ==
  ASSUME Basic, Next, NEW d \in Dates
  PROVE  \/ rows'[d] = rows[d]
         \/ \E c \in Calls : stage[c] = "persist" /\ d = Day(c) /\ rows'[d] = Row(Registration(c))
<1> USE DEF Basic, StoreTypeOK
<1>1. CASE \E c \in Calls : Persist(c)
  BY <1>1 DEF Persist
<1>2. CASE ~\E c \in Calls : Persist(c)
  BY <1>2 DEF Next, Step, CreatePool, Ask, Send, Await, Register, Look, Mine, Script,
       Enter, SignSettlement, AskSettlement, VerifyWinner, Sign, Tick, Crash
<1> QED
  BY <1>1, <1>2

\* Every step keeps the dates backed: only a call that has waited for its round registers.
LEMMA DatesBackedStep ==
  ASSUME Basic, Basic', DatesBacked, CallsBacked, Next
  PROVE  DatesBacked'
<1> SUFFICES ASSUME NEW d \in Dates
             PROVE  /\ store'[d] \notin {Absent, Free} => Backed(d, store[d])'
                    /\ rows'[d] \notin {Absent, Free} => Backed(d, rows[d])'
  BY DEF DatesBacked
<1>1. ASSUME NEW g \in Registered, \/ g = store[d] /\ store[d] \notin {Absent, Free}
                                   \/ g = rows[d] /\ rows[d] \notin {Absent, Free}
      PROVE  Backed(d, g)'
  BY <1>1, BackedStays DEF DatesBacked
<1>2. ASSUME NEW c \in Calls, stage[c] \in {"register", "persist"}, d = Day(c),
             NEW g \in Registered, g = Registration(c)
      PROVE  Backed(d, g)'
  BY <1>2, RegistrationBacked, BackedStays
<1>5. ASSUME NEW c \in Calls, stage[c] = "persist", d = Day(c),
             NEW g \in Registered, g = Row(Registration(c))
      PROVE  Backed(d, g)'
  <2>1. Registration(c) \in Registered
    BY <1>5, DayInRange
  <2>2. Backed(d, Registration(c))
    BY <1>5, RegistrationBacked
  <2>3. Backed(d, g)
    BY <1>5, <2>1, <2>2, RowTells DEF Backed, Reloads
  <2> QED
    BY <2>3, BackedStays
<1>3. ASSUME store'[d] \notin {Absent, Free}
      PROVE  Backed(d, store[d])'
  <2>1. PICK g \in Registered : g = store'[d]
    BY <1>3 DEF Basic, StoreTypeOK
  <2>2. Backed(d, g)'
    BY <1>1, <1>2, <1>3, <2>1, StoreStep
  <2> QED
    BY <2>1, <2>2 DEF Backed
<1>4. ASSUME rows'[d] \notin {Absent, Free}
      PROVE  Backed(d, rows[d])'
  <2>1. PICK g \in Registered : g = rows'[d]
    BY <1>4 DEF Basic, StoreTypeOK
  <2>2. Backed(d, g)'
    BY <1>1, <1>4, <1>5, <2>1, RowsStep
  <2> QED
    BY <2>1, <2>2 DEF Backed
<1> QED
  BY <1>3, <1>4

\* Every step keeps the calls backed: none registers before its transaction is waited for.
LEMMA CallsBackedStep ==
  ASSUME Basic, CallsBacked, Next
  PROVE  CallsBacked'
<1> USE DEF Basic
<1>1. CASE \E b \in Calls : CreatePool(b)
  <2>1. PICK b \in Calls : CreatePool(b)
    BY <1>1
  <2>2. CASE Ask(b) \/ Register(b) \/ Persist(b)
    BY <2>2 DEF Ask, Register, Persist, chain, CallsBacked, CallTypeOK
  <2>3. CASE Send(b)
    <3>1. 2 * DateOf(now) <= now /\ now \in Nat /\ days[b] \in Nat
      BY PoolDaysAssumption DEF ClockTypeOK, CallTypeOK, DateOf
    <3>2. CASE stage' = [stage EXCEPT ![b] = "failed"] /\ UNCHANGED <<first, end, closes, tx>>
      BY <2>3, <3>2 DEF Send, CallsBacked, CallTypeOK
    <3>3. CASE /\ first' = [first EXCEPT ![b] = DateOf(now)]
               /\ \E part \in Fractions :
                    end' = [end EXCEPT ![b] = Second * (now + 2 * days[b]) + part]
               /\ closes' = [closes EXCEPT ![b] = end'[b] \div Second]
               /\ tx' = [tx EXCEPT ![b] = "pending"]
               /\ stage' = [stage EXCEPT ![b] = "sent"]
      <4>1. PICK part \in Fractions :
              end' = [end EXCEPT ![b] = Second * (now + 2 * days[b]) + part]
        BY <3>3
      <4>2. part \in 0..3 /\ end'[b] = 4 * (now + 2 * days[b]) + part
        BY <4>1, PoolDaysAssumption DEF CallTypeOK, Second
      <4>3. end'[b] \div 4 = now + 2 * days[b]
        <5>1. \A x \in Nat, y \in 0..3 : (4 * x + y) \div 4 = x
          OBVIOUS
        <5>2. now + 2 * days[b] \in Nat
          BY <3>1
        <5> QED
          BY <4>2, <5>1, <5>2
      <4>4. /\ end'[b] \div Second = closes'[b] /\ tx'[b] # "none"
            /\ closes'[b] >= 2 * first'[b] + 2 * days[b]
        <5>1. closes'[b] = end'[b] \div Second /\ tx'[b] = "pending" /\ first'[b] = DateOf(now)
          BY <3>3 DEF CallTypeOK
        <5>2. closes'[b] = now + 2 * days[b]
          BY <4>3, <5>1 DEF Second
        <5>3. DateOf(now) \in Nat
          BY <3>1 DEF DateOf
        <5> QED
          BY <3>1, <5>1, <5>2, <5>3
      <4>5. days' = days /\ stage'[b] = "sent"
        BY <2>3, <3>3 DEF Send, CallTypeOK
      <4>6. \A c \in Calls \ {b} :
              /\ stage'[c] = stage[c] /\ tx'[c] = tx[c] /\ end'[c] = end[c]
              /\ closes'[c] = closes[c] /\ first'[c] = first[c]
        BY <3>3, <4>1 DEF CallTypeOK
      <4> QED
        BY <4>4, <4>5, <4>6 DEF CallsBacked
    <3> QED
      BY <2>3, <3>2, <3>3 DEF Send
  <2>4. CASE Await(b)
    BY <2>4 DEF Await, chain, CallsBacked, CallTypeOK
  <2> QED
    BY <2>1, <2>2, <2>3, <2>4 DEF CreatePool
<1>2. CASE \E b \in Calls : Mine(b)
  BY <1>2 DEF Mine, call, CallsBacked, CallTypeOK
<1>3. CASE SignSettlement \/ Tick \/ (\E d \in Dates : Look(d))
           \/ \E c \in Calls, p \in config.players : Enter(p, c)
  BY <1>3 DEF SignSettlement, AskSettlement, VerifyWinner, Sign, Tick, Look, Enter, call, chain,
       CallsBacked
<1>4. CASE Crash
  BY <1>4 DEF Crash, chain, Running, CallsBacked, CallTypeOK
<1>5. CASE \E c \in Calls : Script(c)
  BY <1>5 DEF Script, call, CallsBacked, CallTypeOK
<1> QED
  BY <1>1, <1>2, <1>3, <1>4, <1>5 DEF Next, Step

\* Every step keeps what is shown on record: the mutex of the store is held from one write to
\* the other, and a restart shows what the rows say.
LEMMA RecordedStep ==
  ASSUME Basic, Basic', Recorded, Next
  PROVE  Recorded'
<1> USE DEF Basic
<1>1. CASE \E b \in Calls : Ask(b) \/ Send(b) \/ Await(b)
  <2>1. PICK b \in Calls : Ask(b) \/ Send(b) \/ Await(b)
    BY <1>1
  <2>2. UNCHANGED <<config, store, rows, mutex, next>>
    BY <2>1 DEF Ask, Send, Await, Next
  <2>3. \A c \in Calls : stage'[c] = "persist" <=> stage[c] = "persist"
    BY <2>1 DEF Ask, Send, Await, CallTypeOK
  <2>4. \A c \in Calls : stage[c] = "persist" => first'[c] = first[c] /\ end'[c] = end[c]
    BY <2>1 DEF Ask, Send, Await, CallTypeOK
  <2>5. \A c \in Calls : stage[c] = "persist" =>
          Day(c)' = Day(c) /\ Registration(c)' = Registration(c)
    BY <2>2, <2>4 DEF Day, Registration
  <2> QED
    BY <2>2, <2>3, <2>5 DEF Recorded
<1>2. CASE \E b \in Calls : Register(b)
  <2>1. PICK b \in Calls : Register(b)
    BY <1>2
  <2>2. Day(b) \in Dates
    BY <2>1, DayInRange DEF Register
  <2>3. UNCHANGED <<config, rows, first, end, next>>
    BY <2>1 DEF Register, Next
  <2>4. \A c \in Calls : Day(c)' = Day(c) /\ Registration(c)' = Registration(c)
    BY <2>3 DEF Day, Registration
  <2>5. \A c \in Calls : stage'[c] = "persist" <=> c = b
    BY <2>1, PoolDaysAssumption DEF Register, CallTypeOK, Progress
  <2>6. \A c \in Calls : stage[c] # "persist"
    BY <2>1, PoolDaysAssumption DEF Register, Progress
  <2>7. store' = [store EXCEPT ![Day(b)] = Registration(b)]
    BY <2>1 DEF Register
  <2> QED
    BY <2>2, <2>3, <2>4, <2>5, <2>6, <2>7 DEF Recorded, StoreTypeOK
<1>3. CASE \E b \in Calls : Persist(b)
  <2>1. PICK b \in Calls : Persist(b)
    BY <1>3
  <2>2. Day(b) \in Dates
    BY <2>1, DayInRange DEF Persist
  <2>3. UNCHANGED <<config, store>>
    BY <2>1 DEF Persist, Next
  <2>4. \A c \in Calls : stage[c] = "persist" <=> c = b
    BY <2>1, PoolDaysAssumption DEF Persist, CallTypeOK, Progress
  <2>5. \A c \in Calls : stage'[c] # "persist"
    BY <2>1, <2>4 DEF Persist, CallTypeOK
  <2>6. ~config.dbMayFail => rows' = [rows EXCEPT ![Day(b)] = Row(Registration(b))]
    BY <2>1 DEF Persist
  <2>7. store[Day(b)] = Registration(b) /\ Reloads(Registration(b), Row(Registration(b)))
    BY <2>1, <2>4, DayInRange, RowTells DEF Persist, Recorded
  <2> QED
    BY <2>2, <2>3, <2>4, <2>5, <2>6, <2>7 DEF Recorded, StoreTypeOK
<1>4. CASE \E e \in Dates : Look(e)
  <2>1. PICK e \in Dates : Look(e)
    BY <1>4
  <2>2. \A c \in Calls : stage[c] # "persist"
    BY <2>1, PoolDaysAssumption DEF Look, Progress
  <2>3. UNCHANGED <<config, rows, stage>>
    BY <2>1 DEF Look, call, Next
  <2>4. ~config.dbMayFail =>
          store' = [store EXCEPT ![e] = IF rows[e] = Absent THEN Free ELSE rows[e]]
    BY <2>1 DEF Look
  <2>5. ~config.dbMayFail =>
          \A d \in Dates : store'[d] \in {Absent, Free, rows[d]} \/ store'[d] = store[d]
    BY <2>4 DEF StoreTypeOK
  <2>6. \A g \in Registered : Reloads(g, g)
    BY PoolDaysAssumption DEF Reloads, Registered, Second, Micro
  <2> QED
    BY <2>2, <2>3, <2>5, <2>6 DEF Recorded, StoreTypeOK
<1>5. CASE \/ SignSettlement \/ Tick
           \/ \E c \in Calls : Mine(c) \/ Script(c) \/ \E p \in config.players : Enter(p, c)
  <2>1. UNCHANGED <<config, stage, first, end, next, store, rows>>
    BY <1>5 DEF SignSettlement, AskSettlement, VerifyWinner, Sign, Tick, Mine, Script, Enter, call, Next
  <2>2. \A c \in Calls : Day(c)' = Day(c) /\ Registration(c)' = Registration(c)
    BY <2>1 DEF Day, Registration
  <2> QED
    BY <2>1, <2>2 DEF Recorded
<1>6. CASE Crash
  BY <1>6 DEF Crash, Running, Recorded, CallTypeOK
<1> QED
  BY <1>1, <1>2, <1>3, <1>4, <1>5, <1>6 DEF Next, Step, CreatePool

\* Every step keeps the registered days on record: a row is only ever replaced by that of
\* another registration of its date.
LEMMA DaysRecordedStep ==
  ASSUME Basic, Basic', DaysRecorded, Next
  PROVE  DaysRecorded'
<1> USE DEF Basic
<1>1. \A c \in Calls : RegisteredDays(c) \subseteq RegisteredDays(c)'
  BY DaysOnlyGrow
<1>2. ASSUME NEW b \in Calls, Persist(b)
      PROVE  DaysRecorded'
  <2>1. Day(b) \in Dates /\ Registration(b) \in Registered
    BY <1>2, DayInRange DEF Persist
  <2>2. Row(Registration(b)).round = b /\ Row(Registration(b)) # Absent
    BY <2>1, RowTells, DatesAssumption DEF Reloads, Registration
  <2>3. /\ UNCHANGED <<config, first>> /\ next' = [next EXCEPT ![b] = @ + 1]
        /\ \/ rows' = [rows EXCEPT ![Day(b)] = Row(Registration(b))]
           \/ config.dbMayFail /\ UNCHANGED rows
    BY <1>2 DEF Persist, Next
  <2>4. RegisteredDays(b)' = RegisteredDays(b) \cup {Day(b)}
    <3>1. next[b] \in Nat /\ next'[b] = next[b] + 1 /\ first' = first
      BY <2>3 DEF CallTypeOK
    <3>2. 0..(next'[b] - 1) = (0..(next[b] - 1)) \cup {next[b]}
      BY <3>1
    <3> QED
      BY <3>1, <3>2 DEF RegisteredDays, Day
  <2>5. \A c \in Calls \ {b} : RegisteredDays(c)' = RegisteredDays(c)
    BY <2>3 DEF RegisteredDays, CallTypeOK
  <2>6. \A d \in Dates : rows'[d] # Absent => d \in RegisteredDays(rows[d].round)'
    <3> SUFFICES ASSUME NEW d \in Dates, rows'[d] # Absent
                 PROVE  d \in RegisteredDays(rows[d].round)'
      OBVIOUS
    <3>1. CASE rows'[d] = rows[d]
      <4>1. rows[d].round \in Calls /\ d \in RegisteredDays(rows[d].round)
        BY <3>1 DEF StoreTypeOK, Registered, DaysRecorded
      <4> QED
        BY <3>1, <4>1, <1>1 DEF RegisteredDays
    <3>2. CASE rows'[d] # rows[d]
      <4>1. d = Day(b) /\ rows'[d].round = b
        BY <2>2, <2>3, <3>2 DEF StoreTypeOK
      <4> QED
        BY <2>4, <4>1 DEF RegisteredDays
    <3> QED
      BY <3>1, <3>2
  <2>7. ~config.dbMayFail =>
          \A c \in Calls : \A d \in RegisteredDays(c)' : rows'[d] # Absent
    <3> SUFFICES ASSUME ~config.dbMayFail, NEW c \in Calls, NEW d \in RegisteredDays(c)'
                 PROVE  rows'[d] # Absent
      OBVIOUS
    <3>1. rows' = [rows EXCEPT ![Day(b)] = Row(Registration(b))]
      BY <2>3
    <3>2. d = Day(b) \/ d \in RegisteredDays(c)
      BY <2>4, <2>5
    <3> QED
      BY <2>1, <2>2, <3>1, <3>2 DEF DaysRecorded, StoreTypeOK
  <2> QED
    BY <2>3, <2>6, <2>7 DEF DaysRecorded
<1>3. CASE ~\E b \in Calls : Persist(b)
  <2>1. UNCHANGED <<config, rows, next>>
    BY <1>3 DEF Next, Step, CreatePool, Ask, Send, Await, Register, Look, Mine, Script, Enter,
         SignSettlement, AskSettlement, VerifyWinner, Sign, Tick, Crash, call
  <2>2. \A c \in Calls : RegisteredDays(c)' = RegisteredDays(c)
    <3>1. \A c \in Calls : next[c] = 0 \/ first'[c] = first[c]
      BY <1>3 DEF Next, Step, CreatePool, Ask, Send, Await, Register, Look, Mine, Script, Enter,
           SignSettlement, AskSettlement, VerifyWinner, Sign, Tick, Crash, call, CallTypeOK, Progress
    <3> QED
      BY <2>1, <3>1 DEF RegisteredDays
  <2>3. ASSUME NEW d \in Dates, rows'[d] # Absent
        PROVE  d \in RegisteredDays(rows[d].round)'
    <3>1. rows[d].round \in Calls /\ d \in RegisteredDays(rows[d].round)
      BY <2>1, <2>3 DEF StoreTypeOK, Registered, DaysRecorded
    <3>2. PICK c \in Calls : c = rows[d].round
      BY <3>1
    <3>3. d \in RegisteredDays(c)'
      BY <2>2, <3>1, <3>2
    <3> QED
      BY <2>1, <3>2, <3>3 DEF RegisteredDays
  <2> QED
    BY <2>1, <2>2, <2>3 DEF DaysRecorded
<1> QED
  BY <1>2, <1>3

\* Every step keeps the winners among those who entered: entries are not taken back.
LEMMA WinnersEnteredStep ==
  ASSUME Basic, WinnersEntered, Next
  PROVE  WinnersEntered'
<1> SUFFICES ASSUME config.chainOn, config'.chainOn PROVE WinnersEntered'
  BY DEF Next, WinnersEntered
<1> USE DEF Basic
<1>1. \A c \in Calls : entered[c] \subseteq entered'[c]
  BY CallsAdvance
<1>2. CASE AskSettlement
  <2>1. signing'.verified = 0 /\ UNCHANGED signed
    BY <1>2 DEF AskSettlement
  <2> QED
    BY <1>1, <2>1 DEF WinnersEntered
<1>3. CASE VerifyWinner
  <2>1. CASE /\ signing.winners[signing.verified + 1] \in entered[signing.round]
             /\ signing' = [signing EXCEPT !.verified = @ + 1]
    <3>1. signing # NoSettlement
      BY <1>3, EmptySeq DEF VerifyWinner, NoSettlement
    <3>2. \A i \in 1..(signing.verified + 1) : signing.winners[i] \in entered[signing.round]
      BY <2>1, <3>1 DEF WinnersEntered, SettlementTypeOK
    <3>3. /\ signing'.round = signing.round /\ signing'.winners = signing.winners
          /\ signing'.verified = signing.verified + 1
      BY <2>1 DEF SettlementTypeOK
    <3>4. UNCHANGED <<entered, signed>>
      BY <1>3 DEF VerifyWinner, chain
    <3> QED
      BY <3>2, <3>3, <3>4 DEF WinnersEntered
  <2>2. CASE signing' = NoSettlement
    BY <1>1, <1>3, <2>2 DEF VerifyWinner, WinnersEntered, NoSettlement
  <2> QED
    BY <1>3, <2>1, <2>2 DEF VerifyWinner
<1>4. CASE Sign
  <2>1. {signing.winners[i] : i \in DOMAIN signing.winners} \subseteq entered[signing.round]
    BY <1>4, LenProperties DEF Sign, AllVerified, WinnersEntered, SettlementTypeOK
  <2>2. \A c \in Calls : signed'[c] \subseteq entered[c]
    BY <1>4, <2>1 DEF Sign, WinnersEntered, SettlementTypeOK
  <2> QED
    BY <1>1, <1>4, <2>2 DEF Sign, WinnersEntered, NoSettlement
<1>5. CASE ~SignSettlement
  <2>1. UNCHANGED signed /\ (UNCHANGED signing \/ signing' = NoSettlement)
    BY <1>5 DEF Next, Step, CreatePool, Ask, Send, Await, Register, Persist, Mine, Script, Enter, Look,
         Tick, Crash, settlement
  <2> QED
    BY <1>1, <2>1 DEF WinnersEntered, SettlementTypeOK
<1> QED
  BY <1>2, <1>3, <1>4, <1>5 DEF SignSettlement

\* Dates are backed by rounds, what is shown is on record, and who is signed has entered.
THEOREM Soundness == Spec => []Sound
<1>1. Basic /\ Basic' /\ Sound /\ [Next]_vars => Sound'
  <2> SUFFICES ASSUME Basic, Basic', Sound, [Next]_vars PROVE Sound'
    OBVIOUS
  <2>1. CASE Next
    BY <2>1, DatesBackedStep, CallsBackedStep, RecordedStep, DaysRecordedStep,
         WinnersEnteredStep DEF Sound
  <2>2. CASE UNCHANGED vars
    BY <2>2 DEF vars, call, chain, settlement, Sound, DatesBacked, Backed, CallsBacked, Recorded,
         DaysRecorded, RegisteredDays, Day, Registration, WinnersEntered
  <2> QED
    BY <2>1, <2>2
<1> QED
  BY <1>1, InitSound, Inductive, PTL DEF Spec

-----------------------------------------------------------------------------
(* What follows *)

\* No date keeps a pool that closes on chain before the date is over, and the cutoff kept for
\* it is in the last second of the round, though row and process keep different fractions.
THEOREM DatesWithinRounds == Spec => []DatesFallWithinRound
<1>1. Basic /\ Sound => DatesFallWithinRound
  BY DatesAssumption DEF Sound, DatesBacked, Backed, DatesFallWithinRound, Kept, Basic, StoreTypeOK
<1> QED
  BY <1>1, Inductive, Soundness, PTL

\* No date shows or lists a round whose transaction nobody has seen mined.
THEOREM RoundsMined == Spec => []RegisteredRoundsWereMined
<1>1. Basic /\ Sound => RegisteredRoundsWereMined
  BY DatesAssumption DEF Sound, DatesBacked, Backed, RegisteredRoundsWereMined, Shown, Listed,
       Basic, StoreTypeOK
<1> QED
  BY <1>1, Inductive, Soundness, PTL

\* With a database that works, what the process shows is what a restart would show, but for
\* less than a microsecond.
THEOREM RestartsKeepRounds == Spec => []RestartKeepsRounds
<1>1. Basic /\ Sound => RestartKeepsRounds
  BY PoolDaysAssumption, DatesAssumption
     DEF Sound, Recorded, Reloads, RestartKeepsRounds, Shown, Listed, Basic, Progress
<1> QED
  BY <1>1, Inductive, Soundness, PTL

\* With a database that works every registered date stays on record, with a pool of its own.
THEOREM DaysStay == Spec => []RegisteredDaysStay
<1>1. Basic /\ Sound => RegisteredDaysStay
  <2> SUFFICES ASSUME Basic, Sound, ~config.dbMayFail, NEW c \in Calls
               PROVE  /\ \A d \in RegisteredDays(c) :
                           d \in Listed /\ d \in RegisteredDays(rows[d].round)
                      /\ stage[c] = "done" =>
                           RegisteredDays(c) = first[c]..(first[c] + days[c] - 1)
    BY DEF RegisteredDaysStay
  <2>1. /\ first[c] \in 0..DateOf(Horizon) /\ next[c] \in 0..MaxDays
        /\ stage[c] = "done" => next[c] = days[c]
    BY DEF Basic, CallTypeOK, Progress
  <2>2. \A d \in RegisteredDays(c) : d \in Dates
    BY <2>1, PoolDaysAssumption DEF RegisteredDays, Dates, DateOf
  <2>3. \A d \in RegisteredDays(c) : d \in Listed /\ d \in RegisteredDays(rows[d].round)
    BY <2>2 DEF Sound, DaysRecorded, Listed
  <2>4. RegisteredDays(c) = first[c]..(first[c] + next[c] - 1)
    <3>1. \A d \in first[c]..(first[c] + next[c] - 1) : d - first[c] \in 0..(next[c] - 1)
      BY <2>1, PoolDaysAssumption DEF DateOf
    <3>2. \A d \in first[c]..(first[c] + next[c] - 1) : d = first[c] + (d - first[c])
      BY <2>1, PoolDaysAssumption DEF DateOf
    <3>3. \A i \in 0..(next[c] - 1) : first[c] + i \in first[c]..(first[c] + next[c] - 1)
      BY <2>1, PoolDaysAssumption DEF DateOf
    <3> QED
      BY <3>1, <3>2, <3>3 DEF RegisteredDays
  <2> QED
    BY <2>1, <2>3, <2>4
<1> QED
  BY <1>1, Inductive, Soundness, PTL

\* With a chain client nobody is signed to be paid by a round that they have not entered,
\* whatever the number of winners.
THEOREM OnlyEntrantsSigned == Spec => []SignedWinnersEntered
<1>1. Sound => SignedWinnersEntered
  BY DEF Sound, WinnersEntered, SignedWinnersEntered
<1> QED
  BY <1>1, Soundness, PTL
=============================================================================
