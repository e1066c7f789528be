--------------------------- MODULE MCRoomManager ---------------------------
(***************************************************************************)
(* RoomManager with two clients, two rooms and a code for each of them, or *)
(* one for both, and with three clients and one room.  Rooms have one seat *)
(* and so fill at once.                                                    *)
(***************************************************************************)
EXTENDS RoomManager

CONSTANTS p, q, s, c, d

OpenKinds == {k \in Kinds : k.public}

MCConfigs ==
  {[procs |-> {p, q}, rooms |-> 2, codes |-> {c, d}, kinds |-> {k \in OpenKinds : k.staked}],
   [procs |-> {p, q}, rooms |-> 2, codes |-> {c}, kinds |-> OpenKinds],
   [procs |-> {p, q, s}, rooms |-> 1, codes |-> {c}, kinds |-> {k \in Kinds : k.public = k.staked}]}
=============================================================================
