---------------------------- MODULE MCRoomTurns ----------------------------
(* Small instances of RoomTurns for TLC. *)
EXTENDS RoomTurns, TLC

CONSTANTS me, p, q, r1, r2, k1, k2

Symmetry == Permutations(Turn) \cup Permutations(Room) \cup Permutations(Tile \ {Card})
=============================================================================
