----------------------------- MODULE JobStream -----------------------------
(***************************************************************************)
(* One subscriber of one chat job of the daemon: the event stream that     *)
(* packages/codesurf-daemon/bin/chat-jobs.mjs serves.  A job numbers its   *)
(* events, publishes each at once and appends it to the timeline file in   *)
(* the background; only the closing `done' is on disk before it is         *)
(* published.  A subscriber that joins in the middle is served from three  *)
(* places: the file, the events not yet known to be in it, and a buffer of *)
(* what was published meanwhile; then it gets the events live, through a   *)
(* bounded queue whenever its socket is blocked.                           *)
(*                                                                         *)
(* An event is its sequence number.  Every write to the socket may be the  *)
(* one after which it is no longer writable.  Heartbeat comments, which    *)
(* carry no event, and byte limits, which act like the limit on the number *)
(* of events, are left out.  A subscriber that joins after a timeline has  *)
(* failed is outside this module.                                          *)
(***************************************************************************)
EXTENDS Integers, Sequences

CONSTANTS Limit,        \* maxQueuedEvents
          MaxPublished  \* bound of the model: events before the closing ones

ASSUME LimitAssumption == Limit \in Nat \ {0}
ASSUME EventsAssumption == MaxPublished \in Nat

VARIABLES
  accepted,   \* events taken into the timeline's write queue
  onDisk,     \* events in the timeline file
  settled,    \* events whose append the write queue has seen succeed
  published,  \* events published; metadata.lastSequence of the live job
  closing,    \* terminalFinalizing: the done event is on its way
  last,       \* sequence of the published done event, or 0
  stopped,    \* the registry has been shut down, with the daemon
  sub         \* the subscriber: its record in the registry, and streamJob

streamVars == <<accepted, onDisk, settled, published, closing, last, stopped, sub>>
daemon == <<accepted, onDisk, settled, published, closing, last, stopped>>

Top == MaxPublished + 2    \* no sequence exceeds it
Seqs(S) == UNION {[1..n -> S] : n \in 0..Limit}

\* stage: "none", "scan" (replaying the file), "pending" (replaying the
\* events that were not in it), "live", "closed".  why: what closed it, at: in
\* which of these stages.
Stages == {"none", "scan", "pending", "live", "closed"}
NoSub == [stage |-> "none", why |-> "open", at |-> "none", since |-> 0, through |-> 0, floor |-> 0,
          wasLive |-> FALSE, scanned |-> 0, pending |-> {}, buffer |-> <<>>,
          queue |-> <<>>, blocked |-> FALSE, ending |-> FALSE, lastSent |-> 0,
          received |-> <<>>]

StreamTypeOK ==
  /\ accepted \in 0..Top /\ onDisk \in 0..Top /\ settled \in 0..Top
  /\ published \in 0..Top /\ last \in 0..Top
  /\ closing \in BOOLEAN /\ stopped \in BOOLEAN
  /\ sub.stage \in Stages /\ sub.at \in Stages
  /\ sub.why \in {"open", "ended", "torn", "stopped", "overflow", "late", "gone"}
  /\ sub.pending \subseteq 1..Top
  /\ sub.scanned \in 0..Top /\ sub.lastSent \in 0..Top
  /\ sub.buffer \in Seqs(1..Top) /\ sub.queue \in Seqs(1..Top)
  /\ Len(sub.buffer) + Len(sub.queue) <= Limit
  /\ sub.blocked \in BOOLEAN /\ sub.ending \in BOOLEAN

StreamInit ==
  /\ accepted = 0 /\ onDisk = 0 /\ settled = 0 /\ published = 0
  /\ closing = FALSE /\ last = 0 /\ stopped = FALSE
  /\ sub = NoSub

-----------------------------------------------------------------------------
(* The registry.  Each operator is the record after the call; `done' is    *)
(* the sequence of the terminal event, if the call may meet it, and        *)
(* `writable' what the last write to the socket returned.                  *)

Open(s) == s.stage \notin {"none", "closed"}
Replaying(s) == s.stage \in {"scan", "pending"}

\* closeRecord
Close(s, why) == [s EXCEPT !.stage = "closed", !.why = why, !.at = s.stage, !.queue = <<>>,
                           !.buffer = <<>>, !.pending = {}, !.blocked = FALSE,
                           !.ending = FALSE]

\* The closings after which the client reads the regular end of the response
\* (res.end); after the others its connection breaks.
EndsNormally(s) == s.why \in {"ended", "torn", "stopped"}

\* writeEntry for each of the events, up to the one that blocks the socket
Write(s, events, done, writable) ==
  IF events = <<>> THEN s
  ELSE LET n == events[Len(events)]
           w == [s EXCEPT !.received = @ \o events, !.lastSent = n,
                          !.blocked = ~writable, !.ending = n = done /\ ~writable]
       IN IF n = done /\ writable THEN Close(w, "ended") ELSE w

\* enqueue
Full(s) == Len(s.buffer) + Len(s.queue) >= Limit
ToBuffer(s, n) == IF Full(s) THEN Close(s, "overflow") ELSE [s EXCEPT !.buffer = Append(@, n)]
ToQueue(s, n) == IF Full(s) THEN Close(s, "overflow") ELSE [s EXCEPT !.queue = Append(@, n)]

\* publish, to this subscriber
Publish(s, n, done, writable) ==
  IF ~Open(s) \/ n <= s.lastSent THEN s
  ELSE IF Replaying(s) THEN ToBuffer(s, n)
  ELSE IF s.blocked \/ s.queue # <<>> THEN ToQueue(s, n)
  ELSE Write(s, <<n>>, done, writable)

\* Write the first k of the events; the rest waits in the queue.
WriteSome(s, events, k, done, writable) ==
  [Write(s, SubSeq(events, 1, k), done, writable) EXCEPT
     !.queue = SubSeq(events, k + 1, Len(events))]

\* The ways in which the socket takes a list of events: all of them, or
\* those up to the one that blocks it.
TakenMutant(s, events, done) ==
  IF s.blocked THEN {s}
  ELSE {WriteSome(s, events, k, done, FALSE) : k \in 1..Len(events)}
       \cup {WriteSome(s, events, Len(events), done, TRUE)}
Taken(s, events, done) ==
  IF s.blocked THEN {[s EXCEPT !.queue = @ \o events]}
  ELSE {WriteSome(s, events, k, done, FALSE) : k \in 1..Len(events)}
       \cup {WriteSome(s, events, Len(events), done, TRUE)}

\* handleDrain, flushQueue.  Nothing in the queue has been sent before.
DrainedMutant(s, done) ==
  IF s.ending THEN {s} ELSE {[s EXCEPT !.blocked = FALSE]}
Drained(s, done) ==
  IF s.ending THEN {s}
  ELSE Taken([s EXCEPT !.blocked = FALSE, !.queue = <<>>], s.queue, done)

\* finishReplay: the buffer, which is in order, without the first k events, that
\* the replay has sent already
NotSent(s) ==
  LET k == CHOOSE k \in 0..Len(s.buffer) :
             \A i \in 1..Len(s.buffer) : s.buffer[i] <= s.lastSent <=> i <= k
  IN SubSeq(s.buffer, k + 1, Len(s.buffer))
FinishReplay(s, done) ==
  Taken([s EXCEPT !.stage = "live", !.buffer = <<>>], NotSent(s), done)

-----------------------------------------------------------------------------
(* The job.                                                                *)

\* appendEvent, any event but done
PublishEvent ==
  /\ ~closing /\ last = 0
  /\ published < MaxPublished
  /\ accepted' = accepted + 1
  /\ published' = published + 1
  /\ \E writable \in BOOLEAN : sub' = Publish(sub, published + 1, 0, writable)
  /\ UNCHANGED <<onDisk, settled, closing, last, stopped>>

\* pumpTimelineWrites: the line is in the file, then the append returns
AppendLands ==
  /\ onDisk = settled /\ settled < accepted
  /\ onDisk' = onDisk + 1
  /\ UNCHANGED <<accepted, settled, published, closing, last, stopped, sub>>

AppendSettles ==
  /\ settled < onDisk
  /\ settled' = onDisk
  /\ UNCHANGED <<accepted, onDisk, published, closing, last, stopped, sub>>

\* appendEvent of done: no further event, wait for the earlier appends ...
BeginDone ==
  /\ ~closing /\ last = 0
  /\ closing' = TRUE
  /\ UNCHANGED <<accepted, onDisk, settled, published, last, stopped, sub>>

\* ... append done itself (the terminal metadata is staged) ...
AcceptDone ==
  /\ closing /\ last = 0
  /\ accepted = published /\ settled = accepted
  /\ accepted' = accepted + 1
  /\ UNCHANGED <<onDisk, settled, published, closing, last, stopped, sub>>

\* ... and, once that is durable, install the metadata and publish it.
PublishDone ==
  /\ closing /\ last = 0
  /\ settled = published + 1
  /\ published' = published + 1
  /\ last' = published + 1
  /\ \E writable \in BOOLEAN :
       sub' = Publish(sub, published + 1, published + 1, writable)
  /\ UNCHANGED <<accepted, onDisk, settled, closing, stopped>>

\* failTimelinePersistence: an append has failed for good, too many wait, or
\* the terminal metadata cannot be written (a done event that is on disk
\* already is truncated).  What waits to be written is dropped, and an error
\* and a done event that are on no disk are published.
Fail ==
  /\ last = 0
  /\ settled < accepted \/ closing
  /\ published' = published + 2
  /\ last' = published + 2
  /\ onDisk' = IF onDisk > published THEN published ELSE onDisk
  /\ settled' = onDisk' /\ accepted' = onDisk'
  /\ \E w1, w2 \in BOOLEAN :
       sub' = Publish(Publish(sub, published + 1, published + 2, w1),
                      published + 2, published + 2, w2)
  /\ UNCHANGED <<closing, stopped>>

-----------------------------------------------------------------------------
(* streamJob.                                                              *)

\* snapshotPendingTimelineEvents
PendingEventsMutant(since, through) == {}
PendingEvents(since, through) ==
  {n \in (settled + 1)..accepted : n > since /\ n <= through}

\* The new record: what the replay covers is fixed before the first await.  The
\* ": connected" comment is the first write to the socket.
Registered(since, through, blocked) ==
  [NoSub EXCEPT !.stage = "scan", !.since = since, !.lastSent = since,
                !.through = through, !.floor = onDisk, !.wasLive = last = 0,
                !.blocked = blocked, !.pending = PendingEvents(since, through)]

\* A client asks for what follows the last event it has received.  A registry
\* that has been shut down ends the response at once.
Register(since) ==
  LET through == IF last # 0 THEN Top ELSE published
  IN /\ sub.stage = "none"
     /\ since <= published
     /\ last # 0 => last = settled
     /\ \E blocked \in BOOLEAN :
          LET s == Registered(since, through, blocked)
          IN sub' = IF stopped THEN Close(s, "stopped") ELSE s
     /\ UNCHANGED daemon

\* sendReplay of the next event, when the socket is writable
Replayed(s, n) == {Write(s, <<n>>, last, writable) : writable \in BOOLEAN}

\* replayTimeline reads the next line of the file: skip it or send it
ScanNext ==
  LET n == sub.scanned + 1
      s == [sub EXCEPT !.scanned = n]
  IN /\ sub.stage = "scan" /\ ~sub.ending
     /\ n <= onDisk
     /\ IF n > sub.since /\ n <= sub.through
        THEN ~sub.blocked /\ sub' \in Replayed(s, n)
        ELSE sub' = s
     /\ UNCHANGED daemon

\* The end of the file, as it was at some time since the scan began; or the
\* terminal event, after which the scan stops.
ScanEnds ==
  /\ sub.stage = "scan"
  /\ sub.scanned >= sub.floor \/ sub.scanned >= onDisk \/ sub.ending
  /\ sub' = [sub EXCEPT !.stage = "pending"]
  /\ UNCHANGED daemon

\* The scan meets the first half of a line that is being appended: the
\* subscriber is closed, as if it had been served.
ScanTorn ==
  /\ sub.stage = "scan" /\ ~sub.ending
  /\ settled < accepted /\ onDisk = settled /\ sub.scanned = onDisk
  /\ sub' = Close(sub, "torn")
  /\ UNCHANGED daemon

ReplayPending ==
  LET n == CHOOSE n \in sub.pending : \A m \in sub.pending : n <= m
      s == [sub EXCEPT !.pending = @ \ {n}]
  IN /\ sub.stage = "pending" /\ sub.pending # {} /\ ~sub.ending
     /\ IF n > sub.lastSent
        THEN ~sub.blocked /\ sub' \in Replayed(s, n)
        ELSE sub' = s
     /\ UNCHANGED daemon

\* liveAtRegistration
GoesLive(s) == s.wasLive

\* The job was live: go live.  Otherwise the response ends, at once or when
\* the blocked socket has taken what was written.
ReplayEnds ==
  /\ sub.stage = "pending"
  /\ sub.pending = {} \/ sub.ending
  /\ IF GoesLive(sub) THEN sub' \in FinishReplay(sub, last)
     ELSE IF sub.blocked THEN sub' = [sub EXCEPT !.stage = "live", !.ending = TRUE]
     ELSE sub' = Close(sub, "ended")
  /\ UNCHANGED daemon

-----------------------------------------------------------------------------
(* The socket.                                                             *)

Drain ==
  /\ Open(sub) /\ sub.blocked /\ ~sub.ending
  /\ sub' \in Drained(sub, last)
  /\ UNCHANGED daemon

\* The buffered end of the response is out.
Finish ==
  /\ Open(sub) /\ sub.ending
  /\ sub' = Close(sub, "ended")
  /\ UNCHANGED daemon

\* The drain timer of a blocked socket expires.
DrainTimeout ==
  /\ Open(sub) /\ sub.blocked
  /\ sub' = Close(sub, "late")
  /\ UNCHANGED daemon

\* The client disconnects, or the socket fails.
Gone ==
  /\ Open(sub)
  /\ sub' = Close(sub, "gone")
  /\ UNCHANGED daemon

\* shutdown of the registry, with the daemon: the response ends, or is cut off
\* when it is waiting for its socket.
Shutdown ==
  /\ ~stopped
  /\ stopped' = TRUE
  /\ sub' = IF ~Open(sub) THEN sub
            ELSE Close(sub, IF sub.blocked \/ sub.ending THEN "gone" ELSE "stopped")
  /\ UNCHANGED <<accepted, onDisk, settled, published, closing, last>>

-----------------------------------------------------------------------------
Replay == ScanNext \/ ScanEnds \/ ReplayPending \/ ReplayEnds
Socket == Drain \/ Finish \/ DrainTimeout

StreamNext ==
  \/ PublishEvent \/ AppendLands \/ AppendSettles \/ BeginDone \/ AcceptDone
  \/ PublishDone \/ Fail
  \/ \E since \in 0..Top : Register(since)
  \/ ScanTorn \/ Replay
  \/ Socket \/ Gone \/ Shutdown

\* The replay goes on, and a blocked socket drains or meets its timer.
Fairness == WF_streamVars(Replay) /\ WF_streamVars(Socket)

StreamSpec == StreamInit /\ [][StreamNext]_streamVars /\ Fairness

-----------------------------------------------------------------------------
\* Whatever interleaving of appends, publications, replay and backpressure,
\* the client receives the events after the sequence it asked for in order,
\* without a gap and without a repetition.
NoGapNoRepeat ==
  sub.received = [i \in 1..Len(sub.received) |-> sub.since + i]

\* The client has the terminal event ...
HasDone(s) == last # 0 /\ s.lastSent >= last

\* ... when its response ends in the regular way, unless the daemon has been shut
\* down, or the file was still being read to it: a scan that meets a line half
\* written ends the response like one that has been served.
EndMeansDone ==
  EndsNormally(sub) => HasDone(sub) \/ stopped \/ sub.at = "scan"

\* What a client would like to rely on: a regular end of the response of a
\* daemon that goes on means that the job is over.  A torn scan refutes it.
CleanEndMeansDone ==
  EndsNormally(sub) => HasDone(sub) \/ stopped

\* No event waits for a drain that will not come: what is queued for a live
\* subscriber is queued behind a blocked socket.
QueueHasWaker ==
  (sub.stage = "live" /\ sub.queue # <<>>) => sub.blocked /\ ~sub.ending

\* Once the job is over no subscriber stays in the registry.
StreamEnds == (last # 0 /\ Open(sub)) ~> ~Open(sub)

\* Type correctness, which bounds the queue, a waker for what it holds, and no
\* regular end past the scan before all of it was sent, but for a shutdown.
QueueIsSound == StreamTypeOK /\ QueueHasWaker /\ EndMeansDone
=============================================================================
