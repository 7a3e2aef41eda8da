---------------------------- MODULE AtomicWrite ----------------------------
(***************************************************************************)
(* writeFilesAtomically in packages/codesurf-relay/src/atomicFileWrites.ts *)
(* writes the copies of a relay message: mailboxes of sender and           *)
(* recipient, tile folders, archive.  It stages every file beside its      *)
(* destination, then moves the existing destinations aside, renames the    *)
(* staged files into place and removes the backups; after an error it      *)
(* rolls back in reverse order.  From the first move on it runs without an *)
(* await, so that only the death of the process can interrupt it.          *)
(*                                                                         *)
(* A rollback step that fails is counted and the rollback goes on.  The    *)
(* result is "written", "thrown" (nothing changed) or "broken" (rollback   *)
(* was incomplete).                                                        *)
(***************************************************************************)
EXTENDS Integers

CONSTANTS N,        \* number of files
          Existing  \* the files whose destination exists

\* What the theorems in RelayRuntime_proofs assume of them.
FilesAreFiles == N \in Nat \ {0} /\ Existing \subseteq 1..N

VARIABLES
  dest,    \* file -> what the destination holds: old, new or nothing
  temp,    \* files that are staged
  backup,  \* files whose old content is in the backup
  placed,  \* files marked committed
  pc, at,  \* phase, and the file it is at
  broken   \* a rollback step failed

vars == <<dest, temp, backup, placed, pc, at, broken>>

File == 1..N
Before == [f \in File |-> IF f \in Existing THEN "old" ELSE "none"]
After  == [f \in File |-> "new"]

TypeOK ==
  /\ dest \in [File -> {"old", "new", "none"}]
  /\ temp \subseteq File /\ backup \subseteq File /\ placed \subseteq File
  /\ pc \in {"staging", "moving", "placing", "cleaning", "rollback", "written", "thrown",
             "broken", "dead"}
  /\ at \in 0..(N + 1)
  /\ broken \in BOOLEAN

Init ==
  /\ dest = Before
  /\ temp = {} /\ backup = {} /\ placed = {}
  /\ pc = "staging" /\ at = 1
  /\ broken = FALSE

\* On to the next file, or to the next phase.
Advance(phase, next) == IF at < N THEN pc' = phase /\ at' = at + 1
                                  ELSE pc' = next /\ at' = 1

RollBack == pc' = "rollback" /\ at' = N

-----------------------------------------------------------------------------
Stage ==
  /\ pc = "staging" /\ at \in File
  /\ temp' = temp \cup {at}
  /\ Advance("staging", "moving")
  /\ UNCHANGED <<dest, backup, placed, broken>>

\* A write fails, perhaps half done, or the caller is no longer active.
StageFails ==
  /\ pc = "staging"
  /\ temp' \in {temp, temp \cup ({at} \cap File)}
  /\ RollBack
  /\ UNCHANGED <<dest, backup, placed, broken>>

MoveAside ==
  /\ pc = "moving" /\ at \in File
  /\ IF dest[at] = "none" THEN UNCHANGED <<dest, backup>>
     ELSE dest' = [dest EXCEPT ![at] = "none"] /\ backup' = backup \cup {at}
  /\ Advance("moving", "placing")
  /\ UNCHANGED <<temp, placed, broken>>

Place ==
  /\ pc = "placing" /\ at \in File
  /\ dest' = [dest EXCEPT ![at] = "new"]
  /\ temp' = temp \ {at}
  /\ placed' = placed \cup {at}
  /\ Advance("placing", "cleaning")
  /\ UNCHANGED <<backup, broken>>

RenameFails ==
  /\ pc \in {"moving", "placing"}
  /\ RollBack
  /\ UNCHANGED <<dest, temp, backup, placed, broken>>

\* Cleaning up is not part of the transaction: a failure is ignored.
Clean ==
  /\ pc = "cleaning" /\ at \in File
  /\ backup' \in {backup, backup \ {at}}
  /\ Advance("cleaning", "written")
  /\ UNCHANGED <<dest, temp, placed, broken>>

\* Remove what was placed, put the backup back.
Undone(f, removed, restored) ==
  LET gone == IF f \in placed /\ removed THEN "none" ELSE dest[f] IN
  IF f \in backup /\ restored THEN "old" ELSE gone

Undo ==
  /\ pc = "rollback" /\ at \in File
  /\ \E removed, restored \in BOOLEAN :
       /\ dest' = [dest EXCEPT ![at] = Undone(at, removed, restored)]
       /\ placed' = IF removed THEN placed \ {at} ELSE placed
       /\ backup' = IF restored THEN backup \ {at} ELSE backup
       /\ broken' = (broken \/ (at \in placed /\ ~removed) \/ (at \in backup /\ ~restored))
  /\ at' = at - 1
  /\ UNCHANGED <<temp, pc>>

\* Remove the staged files and throw.
Throw ==
  /\ pc = "rollback" /\ at = 0
  /\ \E left \in SUBSET temp :
       /\ temp' = left
       /\ broken' = (broken \/ left # {})
  /\ pc' = IF broken' THEN "broken" ELSE "thrown"
  /\ UNCHANGED <<dest, backup, placed, at>>

\* The process dies.
Die ==
  /\ pc \notin {"written", "thrown", "broken", "dead"}
  /\ pc' = "dead"
  /\ UNCHANGED <<dest, temp, backup, placed, at, broken>>

Next == Stage \/ StageFails \/ MoveAside \/ Place \/ RenameFails \/ Clean \/ Undo \/ Throw \/ Die

Spec == Init /\ [][Next]_vars

-----------------------------------------------------------------------------
\* All or nothing: success means that every copy is in place, an ordinary
\* error that every destination is as it was.
AllOrNothing == /\ pc = "written" => dest = After
                /\ pc = "thrown" => dest = Before

\* Whatever fails, and wherever the process dies: the old content of a file is
\* at its destination or in its backup, unless the new generation is complete.
Recoverable ==
  (\A f \in Existing : dest[f] = "old" \/ f \in backup) \/ dest = After
=============================================================================
