-------------------------- MODULE RoomPersistence --------------------------
(***************************************************************************)
(* The queue through which the agent-room store writes and removes its     *)
(* files: AgentRoomPersistenceQueue in src/main/agent-room/persistence.ts. *)
(* Each path has a state object with at most one drain, an asynchronous    *)
(* loop that applies the latest request and retries after a failure;       *)
(* flush() and dispose() drive the same objects from a loop of their own.  *)
(*                                                                         *)
(* Requests for a path are numbered from 1, writes and removals alike, and *)
(* `disk' is the number of the one the file reflects.  An object, which    *)
(* the map `states' holds under its path until it is deleted, is           *)
(* identified by the request that created it: its revision k is request    *)
(* number id - 1 + k.  Spellings of one path that the file system folds    *)
(* together are one path here.                                             *)
(***************************************************************************)
EXTENDS Integers, FiniteSets

CONSTANTS Path,     \* files the store owns
          MaxOps,   \* bound of the model: requests per path
          Callers   \* which of "flush" (flushAgentRooms) and "dispose"
                    \* (disposeAgentRooms) may be called

ASSUME OpsAssumption == MaxOps \in Nat
ASSUME CallersAssumption == Callers \subseteq {"flush", "dispose"}

VARIABLES
  want,      \* path -> newest request
  disk,      \* path -> request the file reflects
  states,    \* path -> id of the object in the map, 0 when there is none
  object,    \* path -> id -> the object, live as long as somebody holds it
  flushing,  \* the flush in progress
  disposed   \* the queue refuses further requests

vars == <<want, disk, states, object, flushing, disposed>>

Id == 1..MaxOps

\* latest, applied: request numbers.  running: a drain has not settled.
\* op: the request it is writing, 0 when its loop has ended.  retry: a timer
\* is set.  error: lastError is set.
Object == [latest: 0..MaxOps, applied: 0..MaxOps, running: BOOLEAN,
           op: 0..MaxOps, retry: BOOLEAN, error: BOOLEAN]
Fresh(n) == [latest |-> n, applied |-> n - 1, running |-> FALSE,
             op |-> 0, retry |-> FALSE, error |-> FALSE]

Entry  == Path \X Id
Entries == {e \in Entry : states[e[1]] = e[2]}

\* pc: "idle", "entry" (between two entries), "first" or "second" (at one of
\* the two awaits, for the entry `at').  awake: the awaited drain settled.
NoFlush == [pc |-> "idle", by |-> "none", todo |-> {}, at |-> <<>>, prior |-> 0,
            awake |-> FALSE, progress |-> FALSE, errors |-> FALSE]

TypeOK ==
  /\ want \in [Path -> 0..MaxOps]
  /\ disk \in [Path -> 0..MaxOps]
  /\ states \in [Path -> 0..MaxOps]
  /\ object \in [Path -> [Id -> Object]]
  /\ flushing \in [pc: {"idle", "entry", "first", "second"},
                   by: Callers \cup {"none"}, todo: SUBSET Entry,
                   at: Entry \cup {<<>>}, prior: 0..MaxOps, awake: BOOLEAN,
                   progress: BOOLEAN, errors: BOOLEAN]
  /\ disposed \in BOOLEAN

Init ==
  /\ want = [p \in Path |-> 0]
  /\ disk = [p \in Path |-> 0]
  /\ states = [p \in Path |-> 0]
  /\ object = [p \in Path |-> [n \in Id |-> Fresh(n)]]
  /\ flushing = NoFlush
  /\ disposed = FALSE

-----------------------------------------------------------------------------
\* The event loop.  `flush' runs without a break between two awaits; the
\* continuations of settled promises run before anything that waits for the
\* file system or a timer.
Unbroken == flushing.pc = "entry"
Quiet == /\ ~Unbroken
         /\ ~flushing.awake
         /\ \A p \in Path, n \in Id : object[p][n].running => object[p][n].op # 0

Behind(s) == s.applied < s.latest
CancelRetry(s) == [s EXCEPT !.retry = FALSE]

\* startDrain: the drain runs up to its first await within the same step
StartDrain(s) ==
  IF ~s.running /\ Behind(s) THEN [s EXCEPT !.running = TRUE, !.op = s.latest] ELSE s

Put(p, n, s) == object' = [object EXCEPT ![p][n] = s]

\* The object in the map, or a new one.
ObjectForMutant(p) == want[p] + 1
ObjectFor(p) == IF states[p] = 0 THEN want[p] + 1 ELSE states[p]

\* writeJson, writeText, removeFile.  The store makes no request while it is
\* being disposed.
Schedule(p) ==
  LET w == want[p] + 1
      n == ObjectFor(p)
  IN /\ ~disposed /\ ~Unbroken
     /\ flushing.by # "dispose"
     /\ want[p] < MaxOps
     /\ want' = [want EXCEPT ![p] = w]
     /\ states' = [states EXCEPT ![p] = n]
     /\ Put(p, n, StartDrain([object[p][n] EXCEPT
                    !.latest = w, !.error = FALSE, !.retry = FALSE]))
     /\ UNCHANGED <<disk, flushing, disposed>>

-----------------------------------------------------------------------------
(* The drain of one object.                                                *)

\* drain, the adapter succeeded: go on with the latest request, if newer
Applied(s) == [s EXCEPT !.applied = s.op, !.error = FALSE,
                        !.op = IF s.op < s.latest THEN s.latest ELSE 0]

WriteOk(p, n) ==
  LET s == object[p][n] IN
  /\ Quiet
  /\ s.running /\ s.op # 0
  /\ disk' = [disk EXCEPT ![p] = s.op]
  /\ Put(p, n, Applied(s))
  /\ UNCHANGED <<want, states, flushing, disposed>>

\* drain, the adapter threw, before or after the file changed (the directory
\* sync comes last): set the retry timer and end the loop
FailedMutant(s) == [s EXCEPT !.error = TRUE, !.op = 0, !.applied = s.op]
Failed(s) == [s EXCEPT !.error = TRUE, !.op = 0, !.retry = @ \/ ~disposed]

WriteFails(p, n) ==
  LET s == object[p][n] IN
  /\ Quiet
  /\ s.running /\ s.op # 0
  /\ disk' \in {disk, [disk EXCEPT ![p] = s.op]}
  /\ Put(p, n, Failed(s))
  /\ UNCHANGED <<want, states, flushing, disposed>>

\* running.finally: a request that arrived meanwhile restarts the drain, a
\* finished object leaves the map.  A flush that awaits this drain goes on.
AfterDrainMutant(s) == [s EXCEPT !.running = FALSE]
AfterDrain(s) == LET idle == [s EXCEPT !.running = FALSE] IN
                 IF s.retry THEN idle ELSE StartDrain(idle)

Settle(p, n) ==
  LET s == object[p][n] IN
  /\ ~Unbroken
  /\ s.running /\ s.op = 0
  /\ Put(p, n, AfterDrain(s))
  /\ states' = IF ~s.retry /\ ~Behind(s) THEN [states EXCEPT ![p] = 0] ELSE states
  /\ flushing' = [flushing EXCEPT !.awake = @ \/ flushing.at = <<p, n>>]
  /\ UNCHANGED <<want, disk, disposed>>

RetryFires(p, n) ==
  /\ Quiet
  /\ object[p][n].retry
  /\ Put(p, n, StartDrain(CancelRetry(object[p][n])))
  /\ UNCHANGED <<want, disk, states, flushing, disposed>>

-----------------------------------------------------------------------------
(* flush: rounds over a snapshot of the map, one entry at a time.          *)

FlushBegin(who) ==
  /\ who \in Callers
  /\ Quiet
  /\ flushing.pc = "idle"
  /\ ~disposed
  /\ flushing' = [NoFlush EXCEPT !.pc = "entry", !.by = who, !.todo = Entries]
  /\ UNCHANGED <<want, disk, states, object, disposed>>

\* The end of an entry deletes whatever the map holds under its path.
EntryDone(e, s) ==
  /\ states' = IF Behind(s) THEN states ELSE [states EXCEPT ![e[1]] = 0]
  /\ flushing' = [flushing EXCEPT
       !.pc = "entry", !.todo = @ \ {e}, !.at = <<>>, !.awake = FALSE, !.prior = 0,
       !.progress = @ \/ (flushing.pc = "second" /\ s.applied > flushing.prior),
       !.errors = @ \/ (flushing.pc = "second" /\ Behind(s) /\ s.error)]

\* After the first await: drain what is still behind and await that too.
AfterFirst(e, s) ==
  IF Behind(s)
  THEN /\ Put(e[1], e[2], StartDrain([s EXCEPT !.error = FALSE, !.retry = FALSE]))
       /\ flushing' = [flushing EXCEPT !.pc = "second", !.at = e, !.awake = FALSE,
                                       !.prior = s.applied]
       /\ UNCHANGED states
  ELSE Put(e[1], e[2], CancelRetry(s)) /\ EntryDone(e, s)

FlushEntry(e) ==
  LET s == object[e[1]][e[2]] IN
  /\ flushing.pc = "entry"
  /\ e \in flushing.todo
  /\ IF s.running
     THEN /\ Put(e[1], e[2], CancelRetry(s))
          /\ flushing' = [flushing EXCEPT !.pc = "first", !.at = e, !.awake = FALSE]
          /\ UNCHANGED states
     ELSE AfterFirst(e, s)
  /\ UNCHANGED <<want, disk, disposed>>

FlushFirst ==
  LET e == flushing.at IN
  /\ flushing.pc = "first" /\ flushing.awake
  /\ AfterFirst(e, object[e[1]][e[2]])
  /\ UNCHANGED <<want, disk, disposed>>

FlushSecond ==
  LET e == flushing.at IN
  /\ flushing.pc = "second" /\ flushing.awake
  /\ EntryDone(e, object[e[1]][e[2]])
  /\ UNCHANGED <<want, disk, object, disposed>>

MoreToFlushMutant == Entries # {}
MoreToFlush == ~flushing.errors /\ Entries # {} /\ flushing.progress

\* dispose, when flush has returned: it cancels the timers and clears the
\* map.  When flush threw, the store is open again and the timers go on.
Dispose ==
  /\ disposed' = TRUE
  /\ states' = [p \in Path |-> 0]
  /\ object' = [p \in Path |-> [n \in Id |->
                  IF states[p] = n THEN CancelRetry(object[p][n]) ELSE object[p][n]]]

\* The end of a round: flush starts another one, returns, or throws what
\* went wrong.
FlushRoundEnds ==
  /\ flushing.pc = "entry" /\ flushing.todo = {}
  /\ flushing' = IF MoreToFlush THEN [flushing EXCEPT !.todo = Entries, !.progress = FALSE]
                 ELSE NoFlush
  /\ IF flushing.by = "dispose" /\ ~MoreToFlush /\ ~flushing.errors
     THEN Dispose
     ELSE UNCHANGED <<states, object, disposed>>
  /\ UNCHANGED <<want, disk>>

-----------------------------------------------------------------------------
FlushStep == (\E e \in Entry : FlushEntry(e)) \/ FlushFirst \/ FlushSecond
             \/ FlushRoundEnds

Next ==
  \/ \E p \in Path : Schedule(p)
  \/ \E p \in Path, n \in Id : WriteOk(p, n)
  \/ \E p \in Path, n \in Id : WriteFails(p, n)
  \/ \E p \in Path, n \in Id : Settle(p, n)
  \/ \E p \in Path, n \in Id : RetryFires(p, n)
  \/ \E who \in Callers : FlushBegin(who)
  \/ FlushStep

Microtask == FlushStep \/ \E p \in Path, n \in Id : Settle(p, n)
Written(p) == \E n \in Id : WriteOk(p, n)
Returned(p) == \E n \in Id : WriteOk(p, n) \/ WriteFails(p, n)
Retried(p) == \E n \in Id : RetryFires(p, n)

\* Microtasks run, an adapter call comes back and a timer fires however busy
\* the event loop is with other paths (hence strong fairness: Quiet comes
\* and goes).
Scheduling ==
  /\ WF_vars(Microtask)
  /\ \A p \in Path : SF_vars(Returned(p)) /\ SF_vars(Retried(p))

Spec == Init /\ [][Next]_vars /\ Scheduling

\* A file operation that is retried for ever succeeds at some point.
DiskRecovers == \A p \in Path : SF_vars(Written(p))

-----------------------------------------------------------------------------
\* The queue keeps its promise to the store: files follow the requests in
\* order and never go back to an older one, whatever failures, retries and
\* disposals come between (the abstract specification LatestWrite).
\* It needs that only disposal flushes: see README.md.
Promise == INSTANCE LatestWrite WITH Path <- Path, want <- want, disk <- disk
LatestWins == Promise!Spec

\* If the disk recovers, every file ends at the newest request.
NewestArrives == DiskRecovers => Promise!CatchesUp

\* Two drains of one path never overlap, so that no adapter call can land
\* after a newer one.
OneWriter ==
  \A p \in Path : \A m, n \in Id :
    object[p][m].running /\ object[p][n].running => m = n

\* Disposal loses nothing: when the queue has shut down every file reflects
\* the newest request (for the store: every file it owned is gone), and no
\* drain is left running.
DisposedIsDurable ==
  disposed => /\ disk = want
              /\ \A p \in Path, n \in Id : ~object[p][n].running

\* A flush or a disposal always comes back, if only to report an error: it
\* does not keep trying on a disk that never recovers.
FlushReturns == flushing.pc # "idle" ~> flushing.pc = "idle"

\* Type correctness, no overlapping drains and a durable disposal: the
\* invariants of the run.
QueueIsSound == TypeOK /\ OneWriter /\ DisposedIsDurable
=============================================================================
