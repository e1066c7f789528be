----------------------------- MODULE MCPoolDays -----------------------------
(***************************************************************************)
(* PoolDays over two dates and what the pools reach beyond them, with one  *)
(* crash.  In one instance two calls make pools of one or two days that    *)
(* overlap; in the others a round is opened by a call, or by the forge     *)
(* script, and players enter it and are paid by it; in the last of them    *)
(* the server has no chain client.                                         *)
(***************************************************************************)
EXTENDS PoolDays

CONSTANTS a, b, p, q

MCCalls == {a, b}
MCPlayers == {p, q}

PoolConfigs ==
  [dbMayFail : BOOLEAN, chainOn : {TRUE}, calls : {Calls}, players : {{}}, until : {Horizon}]
ScriptConfigs ==
  [dbMayFail : {FALSE}, chainOn : {TRUE}, calls : {{}}, players : {Players}, until : {0}]
ServerConfigs ==
  [dbMayFail : {FALSE}, chainOn : {TRUE}, calls : {{a}}, players : {{p}}, until : {1}]
BlindConfigs ==
  [dbMayFail : {FALSE}, chainOn : {FALSE}, calls : {{}}, players : {{p}}, until : {1}]
MCConfigs == PoolConfigs \cup ScriptConfigs \cup ServerConfigs \cup BlindConfigs
=============================================================================
