--------------------------- MODULE ActivityStore ---------------------------
(***************************************************************************)
(* The activity store of the main process, ActivityStore in                *)
(* src/main/activity-store-core.ts: a bounded cache of the workspaces'     *)
(* activity files.  An operation loads its workspace, evicting another one *)
(* when the cache is full, changes the records in memory, and leaves the   *)
(* save to a timer; a failed save is retried; closing flushes everything.  *)
(*                                                                         *)
(* The records of a workspace are abstracted to a revision, the number of  *)
(* accepted changes.  A save that fails may still have replaced the file   *)
(* (durableAtomicWrite in activity-persistence.ts: `commit_uncertain').    *)
(***************************************************************************)
EXTENDS Integers, FiniteSets

CONSTANTS Workspace,
          MaxLoaded,  \* maxLoadedWorkspaces
          MaxOps      \* bound of the model: operations

ASSUME LoadedAssumption == MaxLoaded \in Nat \ {0}
ASSUME OpsAssumption == MaxOps \in Nat

VARIABLES
  rev,      \* workspace -> changes accepted so far
  disk,     \* workspace -> revision the file holds
  phase,    \* workspace -> how far it is loaded
  store,    \* workspace -> its StoreState, when phase is "in"
  waiting,  \* workspace -> operations that have not got the store yet
  asked,    \* operations so far, for the bound
  evictor,  \* the two evictions that can be under way
  queued,   \* evictionTail has another evictToLimit to run
  close     \* flushAll

vars == <<rev, disk, phase, store, waiting, asked, evictor, queued, close>>

Rev == 0..MaxOps
None == -1

\* mem, saved: generation and persistedGeneration (a file that needs a rewrite
\* loads one generation ahead).  saving: the snapshot the running save task
\* writes, None when there is no persistPromise.
StoreState == [mem: Rev, saved: Rev \cup {None}, saving: Rev \cup {None}, timer: BOOLEAN]
Unloaded == [mem |-> 0, saved |-> 0, saving |-> None, timer |-> FALSE]

\* "admit" is the evictOne of reserveLoad, "limit" the one of evictToLimit.
\* at: {} or the candidate being flushed; left: the candidates after it.
Evictor == {"admit", "limit"}
Idle == [pc |-> "idle", left |-> {}, at |-> {}]

TypeOK ==
  /\ rev \in [Workspace -> Rev] /\ disk \in [Workspace -> Rev]
  /\ phase \in [Workspace -> {"out", "admitting", "reading", "in"}]
  /\ store \in [Workspace -> StoreState]
  /\ waiting \in [Workspace -> 0..MaxOps] /\ asked \in 0..MaxOps
  /\ evictor \in [Evictor -> [pc: {"idle", "evicting", "evicted"},
                              left: SUBSET Workspace, at: SUBSET Workspace]]
  /\ queued \in BOOLEAN
  /\ close \in [pc: {"open", "closing", "flushing", "closed", "failed"},
                left: SUBSET Workspace, errors: BOOLEAN]

Init ==
  /\ rev = [w \in Workspace |-> 0] /\ disk = [w \in Workspace |-> 0]
  /\ phase = [w \in Workspace |-> "out"]
  /\ store = [w \in Workspace |-> Unloaded]
  /\ waiting = [w \in Workspace |-> 0] /\ asked = 0
  /\ evictor = [e \in Evictor |-> Idle]
  /\ queued = FALSE
  /\ close = [pc |-> "open", left |-> {}, errors |-> FALSE]

-----------------------------------------------------------------------------
Loaded == {w \in Workspace : phase[w] = "in"}
Admitted == {w \in Workspace : phase[w] = "reading"}
Full == Cardinality(Loaded) + Cardinality(Admitted) >= MaxLoaded
Over == Cardinality(Loaded) > MaxLoaded

Dirty(s) == s.saved < s.mem
Saving(s) == s.saving # None

\* scheduleSave: no second timer, none for a clean store.  persistState: no
\* second task.
ScheduleSave(s) == [s EXCEPT !.timer = @ \/ Dirty(s)]
PersistState(s) == IF Dirty(s) /\ ~Saving(s) THEN [s EXCEPT !.saving = s.mem] ELSE s
FlushState(s) == PersistState([s EXCEPT !.timer = FALSE])

\* Who awaits the save of w, and goes on before anything that waits for the
\* file system or a timer.
Awaited(w) == w \in close.left \/ \E e \in Evictor : w \in evictor[e].at
Quiet == /\ \A w \in Workspace : Awaited(w) => Saving(store[w])
         /\ \A e \in Evictor : /\ evictor[e].pc # "evicted"
                               /\ evictor[e].pc = "evicting" => evictor[e].at # {}
         /\ \A w \in Loaded : waiting[w] = 0
         /\ queued => evictor["limit"].pc = "evicting"

Candidates == {w \in Loaded : waiting[w] = 0}

-----------------------------------------------------------------------------
(* Operations.                                                             *)

\* withStore: acquire waits for the workspace; loadState finds it, joins its
\* load, or starts one, for which reserveLoad has to find room.  It may be
\* called by the continuation of an earlier operation.
Request(w) ==
  /\ close.pc = "open"
  /\ asked < MaxOps
  /\ asked' = asked + 1
  /\ \/ /\ phase[w] # "out"
        /\ waiting' = [waiting EXCEPT ![w] = @ + 1]
        /\ UNCHANGED <<phase, evictor>>
     \/ /\ phase[w] = "out" /\ ~Full
        /\ phase' = [phase EXCEPT ![w] = "reading"]
        /\ waiting' = [waiting EXCEPT ![w] = @ + 1]
        /\ UNCHANGED evictor
     \/ /\ phase[w] = "out" /\ Full
        /\ evictor["admit"].pc # "idle"    \* ActivityStoreCapacityError
        /\ UNCHANGED <<phase, waiting, evictor>>
     \/ /\ phase[w] = "out" /\ Full
        /\ evictor["admit"].pc = "idle"
        /\ phase' = [phase EXCEPT ![w] = "admitting"]
        /\ waiting' = [waiting EXCEPT ![w] = @ + 1]
        /\ evictor' = [evictor EXCEPT !["admit"] =
                         [pc |-> "evicting", left |-> Candidates, at |-> {}]]
  /\ UNCHANGED <<rev, disk, store, queued, close>>

\* The operation itself runs without an await and releases the store: it
\* accepts a change (upsert, delete, clearTile: markDirty), or changes nothing
\* (a query, a candidate that does not fit, nothing to delete).
ChangedMutant(s) == [s EXCEPT !.mem = @ + 1]
Changed(s) == ScheduleSave([s EXCEPT !.mem = @ + 1])

\* A change is built aside and refused before anything is assigned.
RefusedMutant(s) == ScheduleSave([s EXCEPT !.mem = @ + 1])
Refused(s) == s

QueueEviction == queued' = (queued \/ Over)

Operate(w) ==
  /\ phase[w] = "in" /\ waiting[w] > 0
  /\ waiting' = [waiting EXCEPT ![w] = @ - 1]
  /\ \/ /\ store' = [store EXCEPT ![w] = Changed(@)]
        /\ rev' = [rev EXCEPT ![w] = @ + 1]
     \/ store' = [store EXCEPT ![w] = Refused(@)] /\ UNCHANGED rev
  /\ QueueEviction
  /\ UNCHANGED <<disk, phase, asked, evictor, close>>

\* The file is read.  When what it holds has to be repaired, the store starts
\* dirty.
LoadOk(w) ==
  /\ Quiet
  /\ phase[w] = "reading"
  /\ phase' = [phase EXCEPT ![w] = "in"]
  /\ \E base \in {disk[w], disk[w] - 1} :
       store' = [store EXCEPT ![w] =
         ScheduleSave([mem |-> disk[w], saved |-> base, saving |-> None, timer |-> FALSE])]
  /\ UNCHANGED <<rev, disk, waiting, asked, evictor, queued, close>>

\* Every operation that joined the load is refused.
LoadFails(w) ==
  /\ Quiet
  /\ phase[w] = "reading"
  /\ phase' = [phase EXCEPT ![w] = "out"]
  /\ waiting' = [waiting EXCEPT ![w] = 0]
  /\ UNCHANGED <<rev, disk, store, asked, evictor, queued, close>>

-----------------------------------------------------------------------------
(* Saving.                                                                 *)

TimerFires(w) ==
  /\ Quiet
  /\ phase[w] = "in" /\ store[w].timer
  /\ store' = [store EXCEPT ![w] = FlushState(@)]
  /\ UNCHANGED <<rev, disk, phase, waiting, asked, evictor, queued, close>>

\* persistState, the file is written: what changed meanwhile is saved next,
\* by the same task.
Saved(s) == PersistState([s EXCEPT !.saved = s.saving, !.saving = None])

SaveOk(w) ==
  /\ Quiet
  /\ phase[w] = "in" /\ Saving(store[w])
  /\ disk' = [disk EXCEPT ![w] = store[w].saving]
  /\ store' = [store EXCEPT ![w] = Saved(@)]
  /\ QueueEviction
  /\ UNCHANGED <<rev, phase, waiting, asked, evictor, close>>

\* The task is rejected: a retry is scheduled, an eviction goes to its next
\* candidate, and flushAll notes the error.
SaveFails(w) ==
  /\ Quiet
  /\ phase[w] = "in" /\ Saving(store[w])
  /\ disk' \in {disk, [disk EXCEPT ![w] = store[w].saving]}
  /\ store' = [store EXCEPT ![w] = ScheduleSave([@ EXCEPT !.saving = None])]
  /\ evictor' = [e \in Evictor |-> [evictor[e] EXCEPT !.at = @ \ {w}]]
  /\ close' = [close EXCEPT !.left = @ \ {w}, !.errors = @ \/ w \in close.left]
  /\ UNCHANGED <<rev, phase, waiting, asked, queued>>

-----------------------------------------------------------------------------
(* Eviction.                                                               *)

\* evictToLimit: nothing to do, or one more store to evict.
LimitCheck ==
  /\ queued
  /\ evictor["limit"].pc = "idle"
  /\ queued' = FALSE
  /\ evictor' = IF Over
                THEN [evictor EXCEPT !["limit"] =
                        [pc |-> "evicting", left |-> Candidates, at |-> {}]]
                ELSE evictor
  /\ UNCHANGED <<rev, disk, phase, store, waiting, asked, close>>

\* evictOne takes the next candidate and flushes it.  (The least recently
\* used one first: any order here.)
TryCandidate(e, w) ==
  /\ evictor[e].pc = "evicting" /\ evictor[e].at = {}
  /\ w \in evictor[e].left
  /\ evictor' = [evictor EXCEPT ![e].left = @ \ {w}, ![e].at = {w}]
  /\ store' = [store EXCEPT ![w] = IF phase[w] = "in" THEN FlushState(@) ELSE @]
  /\ UNCHANGED <<rev, disk, phase, waiting, asked, queued, close>>

\* flushState is awake: it saves again what changed meanwhile.
FlushAgain(e, w) ==
  /\ w \in evictor[e].at
  /\ phase[w] = "in" /\ Dirty(store[w]) /\ ~Saving(store[w])
  /\ store' = [store EXCEPT ![w] = PersistState(@)]
  /\ UNCHANGED <<rev, disk, phase, waiting, asked, evictor, queued, close>>

\* The candidate may have changed, or got a user, while it was flushed.
EvictableMutant(w) == phase[w] = "in" /\ waiting[w] = 0 /\ ~Saving(store[w])
Evictable(w) == /\ phase[w] = "in" /\ waiting[w] = 0
                /\ ~Saving(store[w]) /\ ~Dirty(store[w])

\* It returns: the store leaves the map; `then' of reserveLoad is one turn of
\* the microtask queue away.
Evict(e, w) ==
  /\ w \in evictor[e].at
  /\ Evictable(w)
  /\ phase' = [phase EXCEPT ![w] = "out"]
  /\ store' = [store EXCEPT ![w] = Unloaded]
  /\ evictor' = [evictor EXCEPT ![e] = [pc |-> "evicted", left |-> {}, at |-> {}]]
  /\ UNCHANGED <<rev, disk, waiting, asked, queued, close>>

Skip(e, w) ==
  /\ w \in evictor[e].at
  /\ ~Saving(store[w]) /\ ~Evictable(w)
  /\ evictor' = [evictor EXCEPT ![e].at = {}]
  /\ UNCHANGED <<rev, disk, phase, store, waiting, asked, queued, close>>

Returning(e) == \/ evictor[e].pc = "evicted"
                \/ evictor[e].pc = "evicting" /\ evictor[e].at = {} /\ evictor[e].left = {}

\* reserveLoad goes on: the load is admitted, or refused with everybody who
\* joined it.
Admissible == evictor["admit"].pc = "evicted" \/ ~Full

AdmissionEnds ==
  /\ Returning("admit")
  /\ evictor' = [evictor EXCEPT !["admit"] = Idle]
  /\ \E w \in Workspace :
       /\ phase[w] = "admitting"
       /\ IF Admissible
          THEN phase' = [phase EXCEPT ![w] = "reading"] /\ UNCHANGED waiting
          ELSE /\ phase' = [phase EXCEPT ![w] = "out"]
               /\ waiting' = [waiting EXCEPT ![w] = 0]
  /\ UNCHANGED <<rev, disk, store, asked, queued, close>>

\* evictToLimit goes on while it evicts and there is too much.
LimitEnds ==
  /\ Returning("limit")
  /\ evictor' = [evictor EXCEPT !["limit"] =
       IF evictor["limit"].pc = "evicted" /\ Over
       THEN [pc |-> "evicting", left |-> Candidates, at |-> {}] ELSE Idle]
  /\ UNCHANGED <<rev, disk, phase, store, waiting, asked, queued, close>>

-----------------------------------------------------------------------------
(* flushAll, called when the application quits, again when it failed.      *)

Close ==
  /\ close.pc \in {"open", "failed"}
  /\ close' = [pc |-> "closing", left |-> {}, errors |-> FALSE]
  /\ UNCHANGED <<rev, disk, phase, store, waiting, asked, evictor, queued>>

\* No operation is active any more, hence no load either: flush every store.
OperationsOverMutant == \A w \in Loaded : waiting[w] = 0
OperationsOver == \A w \in Workspace : waiting[w] = 0

FlushAll ==
  /\ close.pc = "closing"
  /\ OperationsOver
  /\ close' = [close EXCEPT !.pc = "flushing", !.left = Loaded]
  /\ store' = [w \in Workspace |-> IF w \in Loaded THEN FlushState(store[w]) ELSE store[w]]
  /\ UNCHANGED <<rev, disk, phase, waiting, asked, evictor, queued>>

StoreFlushed(w) ==
  /\ w \in close.left
  /\ ~Saving(store[w]) /\ ~Dirty(store[w])
  /\ close' = [close EXCEPT !.left = @ \ {w}]
  /\ UNCHANGED <<rev, disk, phase, store, waiting, asked, evictor, queued>>

Closed ==
  /\ close.pc = "flushing" /\ close.left = {}
  /\ close' = [close EXCEPT !.pc = IF close.errors THEN "failed" ELSE "closed"]
  /\ IF close.errors THEN UNCHANGED queued ELSE QueueEviction
  /\ UNCHANGED <<rev, disk, phase, store, waiting, asked, evictor>>

-----------------------------------------------------------------------------
EvictionStep ==
  \/ \E e \in Evictor, w \in Workspace :
       TryCandidate(e, w) \/ FlushAgain(e, w) \/ Evict(e, w) \/ Skip(e, w)
  \/ AdmissionEnds \/ LimitCheck \/ LimitEnds

CloseStep == FlushAll \/ (\E w \in Workspace : StoreFlushed(w)) \/ Closed

Next ==
  \/ \E w \in Workspace : Request(w)
  \/ \E w \in Workspace : Operate(w)
  \/ \E w \in Workspace : LoadOk(w)
  \/ \E w \in Workspace : LoadFails(w)
  \/ \E w \in Workspace : TimerFires(w)
  \/ \E w \in Workspace : SaveOk(w)
  \/ \E w \in Workspace : SaveFails(w)
  \/ EvictionStep
  \/ Close
  \/ CloseStep

Microtask == EvictionStep \/ CloseStep \/ \E w \in Workspace : Operate(w)

\* Microtasks run, file operations come back and timers fire, however busy
\* the event loop is with something else.
Scheduling ==
  /\ WF_vars(Microtask)
  /\ \A w \in Workspace : /\ SF_vars(SaveOk(w) \/ SaveFails(w))
                          /\ SF_vars(LoadOk(w) \/ LoadFails(w))
                          /\ SF_vars(TimerFires(w))

Spec == Init /\ [][Next]_vars /\ Scheduling

\* A save that is retried for ever succeeds at some point.
DiskRecovers == \A w \in Workspace : SF_vars(SaveOk(w))

-----------------------------------------------------------------------------
\* No accepted change is forgotten by a cache that evicts, reloads and fails
\* to save: a loaded store has every one of them, and a store that leaves the
\* cache has left them in its file.
NothingForgotten ==
  \A w \in Workspace : IF phase[w] = "in" THEN store[w].mem = rev[w]
                                          ELSE disk[w] = rev[w]

\* The cache is bounded in the long run.  An operation called between an
\* eviction and the admission it was for may take the freed place, so that
\* there is a store too many; evictToLimit removes it again, if it can be saved.
CapacityReturns == Over ~> ~Over

\* When flushAll reports success, every accepted change is in its file.
CloseIsDurable == close.pc = "closed" => disk = rev

\* The files follow the accepted changes in order and never go back, through
\* evictions, reloads and failed saves (the abstract specification
\* LatestWrite).
Promise == INSTANCE LatestWrite WITH Path <- Workspace, want <- rev, disk <- disk
LatestWins == Promise!Spec

\* If the disk recovers, the files in the end hold the newest change, and the
\* cache shrinks to its limit, whatever saves failed before.
ChangesArrive == DiskRecovers => Promise!CatchesUp /\ CapacityReturns

\* Type correctness, and a cache that forgets no change.
CacheIsSound == TypeOK /\ NothingForgotten
=============================================================================
