---------------------------- MODULE MCAgentRoom ----------------------------
(* A small instance of AgentRoom for TLC. *)
EXTENDS AgentRoom, TLC

CONSTANTS a, b, c, d, r1, r2, r3

Symmetry == Permutations(Tile) \cup Permutations(Room)

\* Many rooms with at most one event each, or one room with a longer ledger:
\* of two events for three tiles, and of three for two.
Joined == {t \in Tile : membership[t] # NoRoom}
Directed(r) == {i \in 1..Len(log[r]) : log[r][i].to # {}}

ManyRoomsOrLongLedger ==
  \A r \in Room :
    /\ Len(log[r]) > 1 => /\ Live \cup retired = {r} /\ phase = "open"
                          /\ Cardinality(Directed(r)) <= 1
                          /\ Cardinality(Joined) <= 4 - (Len(log[r]) - 1)
    /\ Len(log[r]) > 1 /\ Cardinality(Joined) > 2 => \A t \in Tile : todos[t] = NoTodos
=============================================================================
