---------------------------- MODULE LatestWrite ----------------------------
(***************************************************************************)
(* What a coalescing writer promises: for every path, the file follows the *)
(* requests in the order they were made.  It may skip a request that a     *)
(* newer one supersedes, never goes back to an older one, and in the end   *)
(* holds the newest.  RoomPersistence, ActivityStore and the projection    *)
(* queue of RelayService implement it.                                     *)
(***************************************************************************)
EXTENDS Naturals

CONSTANT Path

VARIABLES want,  \* path -> number of the newest request
          disk   \* path -> number of the request the file reflects

vars == <<want, disk>>

Init == want = [p \in Path |-> 0] /\ disk = [p \in Path |-> 0]

Request(p) == want' = [want EXCEPT ![p] = @ + 1] /\ UNCHANGED disk

Apply(p) == /\ disk[p] < want[p]
            /\ disk' \in {[disk EXCEPT ![p] = n] : n \in (disk[p] + 1)..want[p]}
            /\ UNCHANGED want

Next == \E p \in Path : Request(p) \/ Apply(p)

Spec == Init /\ [][Next]_vars

\* In the end the newest request is applied.
CatchesUp == \A p \in Path : WF_vars(Apply(p))
=============================================================================
