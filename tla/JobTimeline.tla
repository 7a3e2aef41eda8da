---------------------------- MODULE JobTimeline ----------------------------
(***************************************************************************)
(* What the daemon keeps on disk about one chat job, and how it survives   *)
(* failing writes and crashes (createChatJobManager in                     *)
(* packages/codesurf-daemon/bin/chat-jobs.mjs): the timeline, a file of    *)
(* numbered events that is appended to in the background, and the          *)
(* metadata, a small record that is replaced atomically.  Four writers     *)
(* share them: the job; an append of its own that was under way when the   *)
(* queue's limit failed the timeline; the finalization of a job whose      *)
(* timeline failed; and the reconciliation of a job that is not live (at   *)
(* the daemon's start, once a day, or when its stream is opened).  Nothing *)
(* keeps the last three apart.                                             *)
(*                                                                         *)
(* The number of an event is its position in what a scan accepts of the    *)
(* file, and a length in bytes is a number of lines.  A crash is that of   *)
(* the process: what was written is in the file.                           *)
(***************************************************************************)
EXTENDS Integers, Sequences

CONSTANTS MaxEvents,  \* bound of the model: events before done
          MaxFaults   \* bound of the model: crashes and failed operations

ASSUME BoundsAssumption == MaxEvents \in Nat /\ MaxFaults \in Nat

VARIABLES
  timeline,   \* disk: the lines a scan accepts, from the first on
  torn,       \* disk: more follows: half a line, one whose number does not
              \* follow, or one after done
  meta,       \* disk: the metadata
  live,       \* the job is in liveJobs
  queue,      \* events accepted and not yet known to be written
  emitted,    \* events accepted so far; metadata.lastSequence in memory
  erred,      \* metadata.error in memory: an error event was accepted
  flush,      \* a metadata write in progress: its lastSequence, or NoFlush
  ending,     \* how far the done event has come
  failed,     \* the timeline's persistence has failed
  repairTo,   \* repairByteLength: length to truncate to, or NoRepair
  late,       \* the append that was under way when the limit was met
  fin,        \* the finalization
  rec,        \* the reconciliation
  told,       \* the terminal result published to subscribers, or "none"
  blind,      \* history: two writers crossed, or one wrote again without
              \* seeing what its first attempt had left
  faults      \* faults so far

disk == <<timeline, torn, meta>>
job  == <<live, queue, emitted, erred, flush, ending, failed, told>>
vars == <<disk, job, repairTo, late, fin, rec, blind, faults>>

NoFlush  == -1
NoRepair == -1
NoLate   == [number |-> 0, kind |-> "text"]
Started  == [status |-> "running", lastSequence |-> 0, unfinished |-> FALSE]
Unseen   == [lines |-> <<>>, sound |-> TRUE]
Idle     == [step |-> "none", did |-> "begun", seen |-> Unseen, read |-> Started, alone |-> TRUE]
Kinds    == {"text", "error", "done"}
Has(s, kind) == \E i \in 1..Len(s) : s[i] = kind
LastOf(s)    == IF s = <<>> THEN "none" ELSE s[Len(s)]
Truncated(n) == SubSeq(timeline, 1, n)

Settled(m) == m.status \in {"completed", "failed"} /\ ~m.unfinished

Metadata == [status: {"running", "completed", "failed"}, lastSequence: Nat, unfinished: BOOLEAN]
Repairs  == [step: {"none", "trim", "look", "cut", "uncommit", "error", "done", "meta"},
             did: {"begun", "cut", "uncommit", "error", "done", "caught"},
             seen: [lines: Seq(Kinds), sound: BOOLEAN],  \* by its last scan of the file
             read: Metadata,                             \* before it began
             alone: BOOLEAN]  \* history: it began with no other writer at work, and
                              \* has always seen what it wrote

TypeOK ==
  /\ timeline \in Seq(Kinds) /\ queue \in Seq(Kinds)
  /\ torn \in BOOLEAN /\ live \in BOOLEAN /\ failed \in BOOLEAN /\ erred \in BOOLEAN
  /\ blind \in BOOLEAN
  /\ meta \in Metadata
  /\ emitted \in Nat
  /\ flush \in Nat \cup {NoFlush} /\ repairTo \in Nat \cup {NoRepair}
  /\ ending \in {"no", "wait", "append", "commit", "done"}
  /\ late \in [number: Nat, kind: Kinds]
  /\ fin \in Repairs /\ rec \in Repairs
  /\ told \in {"none", "completed", "failed"}
  /\ faults \in 0..MaxFaults

\* startJob has written both files.
Init ==
  /\ timeline = <<>> /\ torn = FALSE
  /\ meta = Started
  /\ live = TRUE /\ queue = <<>> /\ emitted = 0 /\ erred = FALSE /\ flush = NoFlush
  /\ ending = "no" /\ failed = FALSE /\ repairTo = NoRepair /\ late = NoLate
  /\ fin = Idle /\ rec = Idle /\ told = "none"
  /\ blind = FALSE /\ faults = 0

Fault == faults < MaxFaults /\ faults' = faults + 1

\* What inspectTimeline reports of the file as it is now.
Scan == [lines |-> timeline, sound |-> ~torn]
TerminalSeen == Has(timeline, "done")

\* timelineAppend of the event with a number, which the writer has chosen:
\* whether it belongs to the timeline is up to what is in the file by now
Follows(number) == number = Len(timeline) + 1 /\ ~TerminalSeen

Lands(number, kind) ==
  IF Follows(number) /\ ~torn
  THEN timeline' = Append(timeline, kind) /\ UNCHANGED torn
  ELSE torn' = TRUE /\ UNCHANGED timeline

\* An attempt failed, left half a line or all of it, and could not be
\* inspected; the next one wrote behind that.
Smears(number, kind) ==
  /\ torn' = TRUE
  /\ \/ UNCHANGED timeline
     \/ Follows(number) /\ ~torn /\ timeline' = Append(timeline, kind)

\* fs.truncate to the length of so many lines
CutTo(length) ==
  IF length <= Len(timeline)
  THEN timeline' = Truncated(length) /\ torn' = FALSE
  ELSE torn' = TRUE /\ UNCHANGED timeline

-----------------------------------------------------------------------------
(* The live job.                                                           *)

\* appendEvent, any event but done
Emit(kind) ==
  /\ live /\ ~failed /\ ending = "no"
  /\ emitted < MaxEvents
  /\ queue' = Append(queue, kind)
  /\ emitted' = emitted + 1
  /\ erred' = (erred \/ kind = "error")
  /\ UNCHANGED <<disk, live, flush, ending, failed, told, repairTo, late, fin, rec,
                 blind, faults>>

\* failTimelinePersistence
FailTo(length) ==
  /\ failed' = TRUE
  /\ queue' = <<>>
  /\ repairTo' = length
  /\ erred' = TRUE /\ ending' = "done" /\ told' = "failed"
  /\ UNCHANGED <<live, emitted, flush>>

\* pumpTimelineWrites.  The append of the first queued line returns: the
\* line is in the file, ...
Written ==
  /\ queue # <<>> /\ ~failed
  /\ queue' = Tail(queue)
  /\ ending' = IF ending = "append" THEN "commit" ELSE ending
  /\ UNCHANGED <<meta, live, emitted, erred, flush, failed, told, repairTo, late, fin, rec>>

AppendOk ==
  /\ Written
  /\ Lands(Len(timeline) + 1, Head(queue))
  /\ UNCHANGED <<blind, faults>>

\* ... or behind what a failed attempt left in it, ...
AppendBlind ==
  /\ Written
  /\ Fault
  /\ Smears(Len(timeline) + 1, Head(queue))
  /\ blind' = TRUE

\* ... or it could not be written, or only in part, which the inspection
\* finds, ...
AppendFails ==
  /\ queue # <<>> /\ ~failed
  /\ Fault
  /\ torn' \in {torn, TRUE}
  /\ FailTo(IF torn' THEN Len(timeline) ELSE NoRepair)
  /\ UNCHANGED <<timeline, meta, late, fin, rec, blind>>

\* ... unless that fails too.
AppendUnknown ==
  /\ queue # <<>> /\ ~failed
  /\ Fault
  /\ \/ Lands(Len(timeline) + 1, Head(queue))
     \/ Smears(Len(timeline) + 1, Head(queue))
     \/ UNCHANGED <<timeline, torn>>
  /\ FailTo(NoRepair)
  /\ blind' = (blind \/ Head(queue) = "done")
  /\ UNCHANGED <<meta, late, fin, rec>>

\* enqueueTimelineWrite beyond the limit of events or bytes fails the
\* timeline at once; an append that is under way goes on.
Overflow ==
  /\ live /\ ~failed /\ ending = "no"
  /\ FailTo(repairTo)
  /\ late' = IF queue = <<>> THEN NoLate
             ELSE [number |-> Len(timeline) + 1, kind |-> Head(queue)]
  /\ UNCHANGED <<disk, fin, rec, blind, faults>>

LateLands ==
  /\ late # NoLate
  /\ late' = NoLate
  /\ Lands(late.number, late.kind)
  /\ UNCHANGED <<meta, job, repairTo, fin, rec, blind, faults>>

LateFails ==
  /\ late # NoLate
  /\ Fault
  /\ late' = NoLate
  /\ \/ Smears(late.number, late.kind)
     \/ torn' \in {torn, TRUE} /\ UNCHANGED timeline
  /\ \/ torn' /\ repairTo' = Len(timeline')
     \/ UNCHANGED repairTo
  /\ UNCHANGED <<meta, job, fin, rec, blind>>

\* scheduleMetadataFlush and the flush after an error or a session event:
\* only when every accepted event is in the timeline
FlushReady == queue = <<>>

FlushBegins ==
  /\ live /\ ~failed /\ ending = "no"
  /\ flush = NoFlush /\ emitted > meta.lastSequence
  /\ FlushReady
  /\ flush' = emitted
  /\ UNCHANGED <<disk, live, queue, emitted, erred, ending, failed, told, repairTo, late,
                 fin, rec, blind, faults>>

FlushLands ==
  /\ flush # NoFlush
  /\ meta' = [meta EXCEPT !.lastSequence = flush]
  /\ flush' = NoFlush
  /\ UNCHANGED <<timeline, torn, live, queue, emitted, erred, ending, failed, told,
                 repairTo, late, fin, rec, blind, faults>>

FlushFails ==
  /\ flush # NoFlush
  /\ Fault
  /\ flush' = NoFlush
  /\ UNCHANGED <<disk, live, queue, emitted, erred, ending, failed, told, repairTo, late,
                 fin, rec, blind>>

\* appendEvent of done.  It waits for the earlier events ...
DoneBegins ==
  /\ live /\ ~failed /\ ending = "no"
  /\ ending' = "wait"
  /\ UNCHANGED <<disk, live, queue, emitted, erred, flush, failed, told, repairTo, late,
                 fin, rec, blind, faults>>

\* ... and for the metadata writes, stages the terminal metadata in a file
\* of its own, and appends the closing event; ...
StageReadyMutant == queue = <<>>
StageReadyEarlyMutant == flush = NoFlush
StageReady == queue = <<>> /\ flush = NoFlush

DoneStaged ==
  /\ ending = "wait" /\ ~failed /\ StageReady
  /\ ending' = "append"
  /\ queue' = <<"done">>
  /\ UNCHANGED <<disk, live, emitted, erred, flush, failed, told, repairTo, late, fin, rec,
                 blind, faults>>

StageFails ==
  /\ ending = "wait" /\ ~failed /\ StageReady
  /\ Fault
  /\ FailTo(NoRepair)
  /\ UNCHANGED <<disk, late, fin, rec, blind>>

\* ... when that is durable it renames the staged metadata into place, and
\* then tells the subscribers.
Result == IF erred THEN "failed" ELSE "completed"

DoneCommits ==
  /\ ending = "commit" /\ ~failed
  /\ ending' = "done"
  /\ meta' = [status |-> Result, lastSequence |-> emitted + 1, unfinished |-> FALSE]
  /\ emitted' = emitted + 1
  /\ told' = Result
  /\ UNCHANGED <<timeline, torn, live, queue, erred, flush, failed, repairTo, late, fin,
                 rec, blind, faults>>

\* The rename failed.  The closing event is truncated, or at least noted
\* for truncation.
CommitFails ==
  /\ ending = "commit" /\ ~failed
  /\ Fault
  /\ \E before \in IF TerminalSeen THEN {Len(timeline) - 1} ELSE {Len(timeline), Len(timeline) + 1} :
        /\ CutTo(before) \/ UNCHANGED <<timeline, torn>>
        /\ FailTo(before)
  /\ UNCHANGED <<meta, late, fin, rec, blind>>

\* runJob's finally: the job is over and leaves liveJobs; a failed timeline
\* is finalized.
JobEnds ==
  /\ live /\ ending = "done"
  /\ live' = FALSE /\ erred' = FALSE
  /\ fin' = IF failed THEN [Idle EXCEPT !.step = "trim"] ELSE fin
  /\ UNCHANGED <<disk, queue, emitted, flush, ending, failed, told, repairTo, late,
                 rec, blind, faults>>

-----------------------------------------------------------------------------
(* Finalization and reconciliation: each step of them goes by what the     *)
(* last scan of the file has shown, and the next scan says what follows.   *)

Number(p) == Len(p.seen.lines) + 1
Ended(p)  == Has(p.seen.lines, "done")
At(p, step)   == [p EXCEPT !.step = step]
Did(p, what)  == [p EXCEPT !.step = "look", !.did = what]

\* The writer knows what precedes its line.
Knows(p) == p.seen.lines = timeline /\ ~torn

\* appendReconciliationEvent returns: the line is in the file, at once or
\* when what a failed attempt had left was cut away, ...
Clean(p) == Lands(Number(p), p.step) /\ UNCHANGED faults

Retried(p) ==
  /\ Fault
  /\ IF Follows(Number(p))
     THEN timeline' = Append(timeline, p.step) /\ torn' = FALSE
     ELSE torn' = TRUE /\ UNCHANGED timeline

\* ... or behind what an attempt has left; ...
Smeared(p) == Fault /\ Smears(Number(p), p.step)

\* ... or it fails, with or without the line in the file.
Lost(p) ==
  /\ torn' \in BOOLEAN
  /\ \/ UNCHANGED timeline
     \/ Follows(Number(p)) /\ timeline' = Append(timeline, p.step)

\* scheduleFailedRecordFinalization.  The timeline is cut where the failure
\* was noted, and where a scan finds that it is not sound; then it gets an
\* error and a done event if it has not ended.
FinTrims ==
  /\ fin.step = "trim"
  /\ IF repairTo = NoRepair THEN UNCHANGED <<timeline, torn>> ELSE CutTo(repairTo)
  /\ fin' = Did(fin, "begun")
  /\ UNCHANGED <<meta, job, repairTo, late, rec, blind, faults>>

FinNext(p) ==
  CASE p.did = "begun" /\ ~p.seen.sound -> At(p, "cut")
    [] p.did \in {"done", "caught"} -> At(p, "meta")
    [] p.did = "error" -> IF Ended(p) THEN Did(p, "done") ELSE At(p, "done")
    [] OTHER -> IF Ended(p) THEN At(p, "meta")
                ELSE IF LastOf(p.seen.lines) = "error" THEN Did(p, "error") ELSE At(p, "error")

FinLooks ==
  /\ fin.step = "look"
  /\ fin' = FinNext([fin EXCEPT !.seen = Scan])
  /\ UNCHANGED <<disk, job, repairTo, late, rec, blind, faults>>

FinCuts ==
  /\ fin.step = "cut"
  /\ CutTo(Len(fin.seen.lines))
  /\ fin' = Did(fin, "cut")
  /\ UNCHANGED <<meta, job, repairTo, late, rec, blind, faults>>

FinWrites ==
  /\ fin.step \in {"error", "done"}
  /\ Clean(fin) \/ Retried(fin) \/ Smeared(fin)
  /\ blind' = (blind \/ ~Knows(fin))
  /\ fin' = Did(fin, fin.step)
  /\ UNCHANGED <<meta, job, repairTo, late, rec>>

\* The metadata write waits for one still in progress.
FinWritesMeta ==
  /\ fin.step = "meta"
  /\ flush = NoFlush
  /\ meta' = [status |-> "failed", lastSequence |-> Len(fin.seen.lines), unfinished |-> ~Ended(fin)]
  /\ fin' = Idle
  /\ UNCHANGED <<timeline, torn, job, repairTo, late, rec, blind, faults>>

\* A file operation fails.  Once it appends, the finalization goes on with
\* what a scan then shows; before that, and afterwards, it gives up.
FinAppends == fin.step \in {"error", "done"} \/ (fin.step = "look" /\ fin.did \in {"error", "done"})

FinFails ==
  /\ fin # Idle
  /\ Fault
  /\ IF fin.step \in {"error", "done"}
     THEN Lost(fin) /\ blind' = (blind \/ ~Knows(fin))
     ELSE UNCHANGED <<timeline, torn, blind>>
  /\ fin' = IF FinAppends THEN Did(fin, "caught") ELSE Idle
  /\ UNCHANGED <<meta, job, repairTo, late, rec>>

\* enforceFailedTimelineRecordLimit: what is in memory of a failed timeline
\* goes when its finalization is over.
Evicts ==
  /\ ~live /\ failed /\ fin = Idle
  /\ failed' = FALSE
  /\ UNCHANGED <<disk, live, queue, emitted, erred, flush, ending, told, repairTo, late, fin,
                 rec, blind, faults>>

-----------------------------------------------------------------------------
\* terminalConsistent
ConsistentMutant(m, scan) ==
  /\ scan.sound
  /\ LastOf(scan.lines) = "done"
  /\ Len(scan.lines) = m.lastSequence + 1
  /\ m.status = IF Has(scan.lines, "error") THEN "failed" ELSE "completed"

Consistent(m, scan) ==
  /\ scan.sound
  /\ LastOf(scan.lines) = "done"
  /\ Len(scan.lines) = m.lastSequence
  /\ m.status = IF Has(scan.lines, "error") THEN "failed" ELSE "completed"

\* reconcileInterruptedJob looks only whether the job is live.
OthersAtWork == fin # Idle \/ late # NoLate

ReconcileBegins ==
  /\ ~live /\ rec = Idle
  /\ rec' = [Did(rec, "begun") EXCEPT !.read = meta, !.alone = ~OthersAtWork]
  /\ blind' = (blind \/ OthersAtWork)
  /\ UNCHANGED <<disk, job, repairTo, late, fin, faults>>

\* sweepJobRetention: which records it has reconciled
UnsettledMutant(m) == m.status = "running"
Unsettled(m) == ~Settled(m) \/ m.lastSequence = 0

Sweeps == Unsettled(meta) /\ ReconcileBegins

\* streamJob, unless the job's failure is still in memory
StreamOpens == ~failed /\ ReconcileBegins

\* A record that tells one story is left alone.  Otherwise the timeline is
\* cut where it is not sound, a successful ending that the metadata does not
\* confirm is cut off, and it gets an error and a done event.
RecNext(p) ==
  IF p.did = "begun" /\ Settled(p.read) /\ Consistent(p.read, p.seen) THEN Idle
  ELSE IF p.did = "begun" /\ ~p.seen.sound THEN At(p, "cut")
  ELSE IF p.did \in {"begun", "cut"} /\ Ended(p) /\ ~Has(p.seen.lines, "error")
  THEN At(p, "uncommit")
  ELSE CASE p.did = "error" -> At(p, "done")
         [] p.did = "done"  -> At(p, "meta")
         [] OTHER -> IF Ended(p) THEN At(p, "meta")
                     ELSE IF LastOf(p.seen.lines) = "error" THEN At(p, "done") ELSE At(p, "error")

RecLooks ==
  /\ rec.step = "look"
  /\ rec' = RecNext([rec EXCEPT !.seen = Scan])
  /\ UNCHANGED <<disk, job, repairTo, late, fin, blind, faults>>

RecCuts ==
  /\ rec.step \in {"cut", "uncommit"}
  /\ CutTo(IF rec.step = "cut" THEN Len(rec.seen.lines) ELSE Len(rec.seen.lines) - 1)
  /\ rec' = Did(rec, rec.step)
  /\ UNCHANGED <<meta, job, repairTo, late, fin, blind, faults>>

RecWrites ==
  /\ rec.step \in {"error", "done"}
  /\ \/ /\ Clean(rec) \/ Retried(rec)
        /\ rec' = Did(rec, rec.step)
        /\ UNCHANGED blind
     \/ /\ Smeared(rec)
        /\ rec' = [Did(rec, rec.step) EXCEPT !.alone = FALSE]
        /\ blind' = TRUE
  /\ UNCHANGED <<meta, job, repairTo, late, fin>>

\* One that had the files to itself has put them in order, but for a success
\* that was announced.
RecWritesMeta ==
  /\ rec.step = "meta"
  /\ flush = NoFlush
  /\ meta' = [status |-> "failed", lastSequence |-> Len(rec.seen.lines), unfinished |-> FALSE]
  /\ rec' = Idle
  /\ blind' = (blind /\ ~(rec.alone /\ told # "completed"))
  /\ UNCHANGED <<timeline, torn, job, repairTo, late, fin, faults>>

\* A file operation fails: it gives up, and starts again at the next
\* opportunity.
RecFails ==
  /\ rec # Idle
  /\ Fault
  /\ IF rec.step \in {"error", "done"} THEN Lost(rec) ELSE UNCHANGED <<timeline, torn>>
  /\ rec' = Idle
  /\ UNCHANGED <<meta, job, repairTo, late, fin, blind>>

\* The daemon dies and is started again.  A line or a half of it may be in
\* the file although its append never returned.
Appending ==
  \/ queue # <<>> /\ ~failed
  \/ late # NoLate
  \/ fin.step \in {"error", "done"}
  \/ rec.step \in {"error", "done"}

Crash ==
  /\ Fault
  /\ torn' \in {torn, torn \/ Appending}
  /\ live' = FALSE /\ queue' = <<>> /\ erred' = FALSE /\ flush' = NoFlush /\ ending' = "no"
  /\ failed' = FALSE /\ repairTo' = NoRepair /\ late' = NoLate /\ fin' = Idle /\ rec' = Idle
  /\ UNCHANGED <<timeline, meta, emitted, told, blind>>

-----------------------------------------------------------------------------
Job == AppendOk \/ FlushLands \/ DoneBegins \/ DoneStaged \/ DoneCommits \/ JobEnds
Finalize == FinTrims \/ FinLooks \/ FinCuts \/ FinWrites \/ FinWritesMeta
Reconcile == RecLooks \/ RecCuts \/ RecWrites \/ RecWritesMeta
Faulty == \/ AppendBlind \/ AppendFails \/ AppendUnknown \/ LateFails \/ FlushFails
          \/ StageFails \/ CommitFails \/ FinFails \/ RecFails \/ Crash

Next == \/ \E kind \in {"text", "error"} : Emit(kind)
        \/ Overflow \/ FlushBegins \/ Evicts \/ StreamOpens
        \/ Job \/ LateLands \/ Finalize \/ Sweeps \/ Reconcile \/ Faulty

Spec == /\ Init /\ [][Next]_vars
        /\ WF_vars(Job) /\ WF_vars(LateLands) /\ WF_vars(Finalize) /\ WF_vars(Sweeps \/ Reconcile)

-----------------------------------------------------------------------------
\* "Strict ordering: both timeline terminal records are durable before the
\* metadata status and high-water mark advance": at every moment, so after
\* any crash, terminal metadata is backed by what a scan accepts of the
\* timeline: it ends with done at that very sequence, and without an error if
\* the metadata says success.
TerminalMatches ==
  Settled(meta) => /\ LastOf(timeline) = "done"
                   /\ Len(timeline) = meta.lastSequence
                   /\ meta.status = IF Has(timeline, "error") THEN "failed" ELSE "completed"

TerminalIsBacked == TerminalMatches \/ blind

\* The metadata never claim an event that the timeline lacks.
MetadataNotAhead == meta.lastSequence <= Len(timeline) \/ blind

\* A job that is on record as completed has lost none of its events.
CompletedKeepsAll == meta.status = "completed" => Len(timeline) = emitted

CompletedLostNothing == CompletedKeepsAll \/ blind

\* What a subscriber was told of the end of the job is what the disk says,
\* from that moment on: no recovery turns an announced success into a
\* failure, or the other way round.
AnnouncedResultStands ==
  /\ told = "completed" => meta.status = "completed" \/ blind
  /\ told = "failed" => meta.status # "completed"

\* The terminal record is final, whatever append, finalization or
\* reconciliation is still to come.
TerminalIsFinal ==
  [][Settled(meta) /\ ~blind => meta' = meta /\ timeline' = timeline]_vars

\* Every job gets a terminal record, whatever failed while it ran, in its
\* finalization and in its reconciliations, and whichever of them crossed.
EventuallySettled == <>[]Settled(meta)

\* Type correctness and the three invariants that relate the two files: what
\* a daemon that crashes now leaves behind tells one story.
RecordIsSound == TypeOK /\ TerminalIsBacked /\ MetadataNotAhead /\ CompletedLostNothing
=============================================================================
