-------------------------- MODULE JobTimeline_proofs --------------------------
(***************************************************************************)
(* The two files of a chat job tell one story at every moment, whatever    *)
(* fails and whenever the daemon dies, for any number of events and faults *)
(* (RecordIsSound, AnnouncedResultStands), and a terminal record is never  *)
(* changed (TerminalIsFinal), but for what two writers that have crossed   *)
(* can do (blind).                                                         *)
(*                                                                         *)
(* The inductive invariant says which writers can be at work together      *)
(* (ControlInv), what the metadata may claim (MetaInv), and what the files *)
(* look like at each point of the job (LiveInv), of a failed job           *)
(* (FailedInv), of a finalization, beside an append that may still land    *)
(* (FinInv), and of a reconciliation that has the files to itself, be the  *)
(* record blind or not before it (RecInv).  SettledInv says what is left   *)
(* to do once the metadata is terminal.                                    *)
(***************************************************************************)
EXTENDS JobTimeline, JobStream, TLAPS, SequenceTheorems, WellFoundedInduction

\* The closing event closes the timeline.
DoneIsLast == \A i \in 1..Len(timeline) : timeline[i] = "done" => i = Len(timeline)
Erred == Has(timeline, "error")
LastEvent == LastOf(timeline)

\* Which writers can be at work, and what the metadata can be while they are.
ControlInv ==
  /\ ~live => queue = <<>> /\ ending \in {"no", "done"}
  /\ ending \in {"no", "wait"} => ~Has(queue, "done")
  /\ ending = "append" => queue = <<"done">>
  /\ ending \in {"commit", "done"} => queue = <<>>
  /\ failed => ending = "done" /\ told = "failed"
  /\ live => /\ fin = Idle /\ rec = Idle
             /\ ~failed => late = NoLate /\ repairTo = NoRepair
             /\ ending # "done" => meta.status = "running" /\ told = "none"
             /\ failed => meta.status = "running"
             /\ ending = "done" /\ ~failed => Settled(meta)
  /\ flush # NoFlush => meta.status = "running" /\ ending \notin {"append", "commit"}
  /\ fin # Idle => failed /\ fin.step \notin {"none", "uncommit"}
  /\ late # NoLate => late.kind # "done" /\ repairTo = NoRepair
  /\ rec # Idle => rec.step \notin {"none", "trim"} /\ rec.did # "caught"
  /\ rec # Idle /\ rec.alone => fin = Idle /\ late = NoLate
  /\ rec # Idle /\ ~blind => rec.alone

\* Metadata, and a write of it in progress, claim no event that the timeline
\* lacks, nor the closing event before the terminal metadata does.
MetaInv ==
  ~blind =>
    /\ meta.lastSequence <= Len(timeline)
    /\ ~Settled(meta) /\ TerminalSeen => meta.lastSequence < Len(timeline)
    /\ meta.status = "completed" => ~meta.unfinished /\ Len(timeline) = emitted
    /\ flush # NoFlush => /\ flush <= Len(timeline)
                          /\ TerminalSeen => flush < Len(timeline)

\* A live job whose timeline has not failed: what is accepted is in the
\* timeline or in the queue.
LiveInv ==
  live /\ ~failed /\ ~blind =>
    /\ ~torn
    /\ ending \in {"no", "wait"} =>
         /\ Len(timeline) + Len(queue) = emitted /\ ~TerminalSeen
         /\ erred <=> Erred \/ Has(queue, "error")
    /\ ending = "append" => Len(timeline) = emitted /\ ~TerminalSeen /\ (erred <=> Erred)
    /\ ending = "commit" => Len(timeline) = emitted + 1 /\ TerminalSeen /\ (erred <=> Erred)

\* One whose timeline has failed is cut where it failed.
FailedInv ==
  failed /\ ~blind /\ (live \/ fin.step = "trim") =>
    IF TerminalSeen THEN repairTo = Len(timeline) - 1 ELSE repairTo \in {NoRepair, Len(timeline)}

\* The finalization, beside an append that may still land.
FinInv ==
  fin # Idle /\ ~blind =>
    /\ meta.status = "running"
    /\ fin.step # "trim" /\ TerminalSeen => Erred
    /\ fin.step = "cut" => torn /\ fin.seen.lines = timeline
    /\ fin.step \in {"error", "done"} => ~Ended(fin)
    /\ fin.step = "done" \/ (fin.step = "look" /\ fin.did = "error") => torn \/ Erred
    /\ fin.step = "meta" => /\ Len(fin.seen.lines) <= Len(timeline)
                            /\ IF Ended(fin) THEN fin.seen.lines = timeline ELSE ~TerminalSeen

\* A reconciliation that has the files to itself, whatever was there before.
RecInv ==
  rec # Idle /\ rec.alone =>
    /\ Settled(meta) => rec.read = meta
    /\ rec.step = "look" =>
         /\ rec.did # "begun" => ~torn
         /\ rec.did \in {"uncommit", "error"} => ~TerminalSeen
         /\ rec.did = "error" => LastEvent = "error"
         /\ rec.did = "done" => TerminalSeen /\ Erred
    /\ rec.step # "look" => rec.seen.lines = timeline
    /\ rec.step \in {"uncommit", "error", "done", "meta"} => ~torn
    /\ rec.step \in {"uncommit", "meta"} => TerminalSeen
    /\ rec.step = "uncommit" => ~Erred
    /\ rec.step \in {"error", "done"} => ~TerminalSeen
    /\ rec.step = "done" => LastEvent = "error"
    /\ rec.step = "meta" => Erred

\* The terminal record; a success is left alone.
SettledInv ==
  Settled(meta) /\ ~blind =>
    /\ TerminalMatches
    /\ meta.status = "completed" => /\ ~torn /\ late = NoLate
                                    /\ rec = Idle \/ (rec.step = "look" /\ rec.did = "begun")


IInv == /\ TypeOK /\ DoneIsLast /\ ControlInv /\ MetaInv /\ LiveInv /\ FailedInv
        /\ FinInv /\ RecInv /\ SettledInv /\ AnnouncedResultStands

-----------------------------------------------------------------------------
(* What a step makes of the timeline.                                      *)

\* What appending an event makes of a sequence of events.
LEMMA AppendFacts ==
  ASSUME NEW s \in Seq(Kinds), NEW kind \in Kinds
  PROVE  /\ Append(s, kind) \in Seq(Kinds) /\ Append(s, kind) # <<>>
         /\ Len(Append(s, kind)) = Len(s) + 1 /\ Len(s) \in Nat
         /\ \A i \in 1..Len(s) : Append(s, kind)[i] = s[i]
         /\ Append(s, kind)[Len(s) + 1] = kind
         /\ \A k : Has(Append(s, kind), k) <=> Has(s, k) \/ k = kind
<1>1. /\ Append(s, kind) \in Seq(Kinds) /\ Append(s, kind) # <<>>
      /\ Len(Append(s, kind)) = Len(s) + 1 /\ Len(s) \in Nat
      /\ \A i \in 1..Len(s) : Append(s, kind)[i] = s[i]
      /\ Append(s, kind)[Len(s) + 1] = kind
  OBVIOUS
<1>2. ASSUME NEW k, Has(Append(s, kind), k) PROVE Has(s, k) \/ k = kind
  <2>1. PICK i \in 1..(Len(s) + 1) : Append(s, kind)[i] = k BY <1>1, <1>2 DEF Has
  <2> QED BY <2>1, <1>1 DEF Has
<1>3. ASSUME NEW k, Has(s, k) \/ k = kind PROVE Has(Append(s, kind), k)
  <2>1. CASE Has(s, k)
    <3>1. PICK i \in 1..Len(s) : s[i] = k BY <2>1 DEF Has
    <3>2. i \in 1..(Len(s) + 1) /\ Append(s, kind)[i] = k BY <3>1, <1>1
    <3> QED BY <3>2, <1>1 DEF Has
  <2>2. CASE k = kind
    <3>1. Len(s) + 1 \in 1..(Len(s) + 1) BY <1>1
    <3> QED BY <2>2, <3>1, <1>1 DEF Has
  <2> QED BY <1>3, <2>1, <2>2
<1> QED BY <1>1, <1>2, <1>3

\* The timeline stays as it is, ...
Same == /\ timeline' = timeline /\ DoneIsLast'
        /\ TerminalSeen' = TerminalSeen /\ Erred' = Erred /\ LastEvent' = LastEvent

LEMMA KeptFacts == ASSUME DoneIsLast, UNCHANGED timeline PROVE Same
BY DEF DoneIsLast, Same, TerminalSeen, LastEvent, Erred, Has

\* ... or gets one more event, ...
Longer(kind) ==
  /\ timeline' = Append(timeline, kind) /\ timeline' \in Seq(Kinds) /\ DoneIsLast'
  /\ Len(timeline') = Len(timeline) + 1 /\ Len(timeline) \in Nat
  /\ TerminalSeen' <=> kind = "done"
  /\ Erred' <=> Erred \/ kind = "error"
  /\ LastEvent' = kind

LEMMA LongerFacts ==
  ASSUME timeline \in Seq(Kinds), ~TerminalSeen, NEW kind \in Kinds,
         timeline' = Append(timeline, kind)
  PROVE  Longer(kind)
<1>1. /\ timeline' \in Seq(Kinds) /\ timeline' # <<>>
      /\ Len(timeline') = Len(timeline) + 1 /\ Len(timeline) \in Nat
      /\ \A i \in 1..Len(timeline) : timeline'[i] = timeline[i]
      /\ timeline'[Len(timeline) + 1] = kind
      /\ \A k : Has(timeline', k) <=> Has(timeline, k) \/ k = kind
  BY AppendFacts
<1>2. /\ TerminalSeen' <=> kind = "done"
      /\ Erred' <=> Erred \/ kind = "error"
  BY <1>1 DEF TerminalSeen, Erred, Has
<1>3. LastEvent' = kind BY <1>1 DEF LastEvent, LastOf
<1>4. DoneIsLast' BY <1>1 DEF DoneIsLast, TerminalSeen, Has
<1> QED BY <1>1, <1>2, <1>3, <1>4 DEF Longer

\* ... or is cut.
Shorter(length) ==
  /\ timeline' \in Seq(Kinds) /\ DoneIsLast' /\ Len(timeline') = length
  /\ length < Len(timeline) => ~TerminalSeen'
  /\ length = Len(timeline) => Same

LEMMA ShorterFacts ==
  ASSUME timeline \in Seq(Kinds), DoneIsLast, NEW length \in 0..Len(timeline),
         timeline' = Truncated(length)
  PROVE  Shorter(length)
<1>1. Len(timeline) \in Nat OBVIOUS
<1>2. /\ timeline' \in Seq(Kinds) /\ Len(timeline') = length
      /\ \A i \in 1..length : timeline'[i] = timeline[i]
  <2>1. \A i \in 1..length : timeline[i] \in Kinds BY <1>1
  <2>2. /\ timeline' \in Seq(Kinds)
        /\ Len(timeline') = IF 1 <= length THEN length - 1 + 1 ELSE 0
        /\ \A i \in 1..(length - 1 + 1) : timeline'[i] = timeline[1 + i - 1]
    BY <1>1, <2>1, SubSeqProperties DEF Truncated
  <2>3. ASSUME NEW i \in 1..length PROVE timeline'[i] = timeline[i]
    <3>1. i \in 1..(length - 1 + 1) /\ 1 + i - 1 = i BY <1>1
    <3> QED BY <2>2, <3>1
  <2> QED BY <2>2, <2>3, <1>1
<1>3. DoneIsLast' BY <1>1, <1>2 DEF DoneIsLast
<1>4. length < Len(timeline) => ~TerminalSeen' BY <1>1, <1>2 DEF TerminalSeen, Has, DoneIsLast
<1>5. length = Len(timeline) => Same
  <2>1. length = Len(timeline) => timeline' = timeline BY SubSeqFull DEF Truncated
  <2> QED BY <2>1, KeptFacts
<1> QED BY <1>2, <1>3, <1>4, <1>5 DEF Shorter

\* A timeline that contains done ends with it.
LEMMA LastFacts ==
  ASSUME timeline \in Seq(Kinds), DoneIsLast
  PROVE  /\ TerminalSeen => timeline # <<>> /\ LastEvent = "done" /\ Len(timeline) > 0
         /\ LastEvent = "done" => TerminalSeen
         /\ LastEvent = "error" => Erred
<1>1. Len(timeline) \in Nat /\ (timeline # <<>> => Len(timeline) > 0) BY EmptySeq
<1>2. ASSUME TerminalSeen PROVE timeline # <<>> /\ LastEvent = "done"
  <2>1. PICK i \in 1..Len(timeline) : timeline[i] = "done" BY <1>2 DEF TerminalSeen, Has
  <2>2. i = Len(timeline) BY <2>1, <1>1 DEF DoneIsLast
  <2>3. timeline # <<>> BY <2>1, <1>1, EmptySeq
  <2> QED BY <2>1, <2>2, <2>3 DEF LastEvent, LastOf
<1>3. ASSUME NEW kind, kind # "none", LastEvent = kind PROVE Has(timeline, kind)
  <2>1. timeline # <<>> /\ timeline[Len(timeline)] = kind BY <1>3 DEF LastEvent, LastOf
  <2> QED BY <2>1, <1>1 DEF Has
<1> QED BY <1>1, <1>2, <1>3 DEF TerminalSeen, Erred

\* What an append can do.
LEMMA LandsFacts ==
  ASSUME timeline \in Seq(Kinds), torn \in BOOLEAN, DoneIsLast, NEW number, NEW kind \in Kinds,
         Lands(number, kind)
  PROVE  /\ timeline' \in Seq(Kinds) /\ torn' \in BOOLEAN /\ DoneIsLast'
         /\ \/ Follows(number) /\ ~torn /\ ~torn' /\ Longer(kind)
            \/ ~(Follows(number) /\ ~torn) /\ torn' /\ Same
<1>1. CASE Follows(number) /\ ~torn
  BY <1>1, LongerFacts DEF Lands, Follows, Longer
<1>2. CASE ~(Follows(number) /\ ~torn)
  BY <1>2, KeptFacts DEF Lands, Same
<1> QED BY <1>1, <1>2

LEMMA SmearsFacts ==
  ASSUME timeline \in Seq(Kinds), torn \in BOOLEAN, DoneIsLast, NEW number, NEW kind \in Kinds,
         Smears(number, kind)
  PROVE  /\ timeline' \in Seq(Kinds) /\ torn' \in BOOLEAN /\ DoneIsLast'
         /\ torn' /\ ((Follows(number) /\ ~torn /\ Longer(kind)) \/ Same)
BY LongerFacts, KeptFacts DEF Smears, Follows, Longer, Same

LEMMA CutFacts ==
  ASSUME timeline \in Seq(Kinds), DoneIsLast, NEW length \in 0..Len(timeline), CutTo(length)
  PROVE  torn' = FALSE /\ Shorter(length)
<1>1. Len(timeline) \in Nat OBVIOUS
<1> QED BY <1>1, ShorterFacts DEF CutTo

LEMMA CutTypes ==
  ASSUME timeline \in Seq(Kinds), DoneIsLast, NEW length \in Nat, CutTo(length)
  PROVE  timeline' \in Seq(Kinds) /\ torn' \in BOOLEAN /\ DoneIsLast'
<1>1. CASE length <= Len(timeline)
  <2>1. length \in 0..Len(timeline) BY <1>1
  <2> QED BY <2>1, CutFacts DEF Shorter
<1>2. CASE ~(length <= Len(timeline))
  BY <1>2, KeptFacts DEF CutTo, Same
<1> QED BY <1>1, <1>2

\* The steps of a finalization or reconciliation.
Steps == {"none", "trim", "look", "cut", "uncommit", "error", "done", "meta"}
Deeds == {"begun", "cut", "uncommit", "error", "done", "caught"}

LEMMA RepairFacts ==
  ASSUME NEW p \in Repairs
  PROVE  /\ p.step # "none" => p # Idle
         /\ \A step \in Steps :
              /\ At(p, step) \in Repairs /\ At(p, step).step = step /\ At(p, step).did = p.did
              /\ At(p, step).seen = p.seen /\ At(p, step).read = p.read
              /\ At(p, step).alone = p.alone
         /\ \A what \in Deeds :
              /\ Did(p, what) \in Repairs /\ Did(p, what).step = "look" /\ Did(p, what).did = what
              /\ Did(p, what).seen = p.seen /\ Did(p, what).read = p.read
              /\ Did(p, what).alone = p.alone /\ Did(p, what) # Idle
<1>1. \A step \in Steps :
        /\ At(p, step) \in Repairs /\ At(p, step).step = step /\ At(p, step).did = p.did
        /\ At(p, step).seen = p.seen /\ At(p, step).read = p.read
        /\ At(p, step).alone = p.alone
  BY DEF At, Repairs, Steps
<1>2. \A what \in Deeds :
        /\ Did(p, what) \in Repairs /\ Did(p, what).step = "look" /\ Did(p, what).did = what
        /\ Did(p, what).seen = p.seen /\ Did(p, what).read = p.read
        /\ Did(p, what).alone = p.alone
  BY DEF Did, Repairs, Deeds
<1>3. Idle.step = "none" BY DEF Idle
<1> QED BY <1>1, <1>2, <1>3

LEMMA IdleFacts == Idle \in Repairs /\ Idle.step = "none" /\ Idle.alone
<1>1. <<>> \in Seq(Kinds) OBVIOUS
<1> QED BY <1>1 DEF Idle, Repairs, Unseen, Started, Metadata

\* The head of a queue and what is behind it.
LEMMA QueueFacts ==
  ASSUME queue \in Seq(Kinds), queue # <<>>
  PROVE  /\ Head(queue) \in Kinds /\ Tail(queue) \in Seq(Kinds)
         /\ Len(Tail(queue)) = Len(queue) - 1 /\ Len(queue) \in Nat
         /\ \A kind : Has(queue, kind) <=> Head(queue) = kind \/ Has(Tail(queue), kind)
<1>1. /\ Head(queue) \in Kinds /\ Tail(queue) \in Seq(Kinds) /\ Len(Tail(queue)) = Len(queue) - 1
      /\ Len(queue) \in Nat /\ Head(queue) = queue[1] /\ 1 \in 1..Len(queue)
      /\ \A i \in 1..Len(Tail(queue)) : Tail(queue)[i] = queue[i + 1]
  BY HeadTailProperties, EmptySeq
<1> DEFINE tail == Tail(queue)
           h == Head(queue)
<1> HIDE DEF tail, h
<1>2. ASSUME NEW kind, Has(tail, kind) PROVE Has(queue, kind)
  <2>1. PICK i \in 1..Len(tail) : tail[i] = kind BY <1>2 DEF Has
  <2>2. i + 1 \in 1..Len(queue) /\ queue[i + 1] = kind BY <2>1, <1>1 DEF tail
  <2> QED BY <2>2 DEF Has
<1>3. ASSUME NEW kind, Has(queue, kind), h # kind PROVE Has(tail, kind)
  <2>1. PICK i \in 1..Len(queue) : queue[i] = kind BY <1>3 DEF Has
  <2>2. i # 1 BY <2>1, <1>1, <1>3 DEF h
  <2>3. i - 1 \in 1..Len(tail) /\ tail[i - 1] = queue[i - 1 + 1] BY <2>1, <2>2, <1>1 DEF tail
  <2>4. i - 1 + 1 = i BY <2>1
  <2> QED BY <2>1, <2>3, <2>4 DEF Has
<1>4. Has(queue, h) BY <1>1 DEF Has, h
<1> QED BY <1>1, <1>2, <1>3, <1>4 DEF tail, h

\* Steps of the job that leave the timeline as it is.
LEMMA JobStep ==
  ASSUME IInv,
         FlushBegins \/ FlushLands \/ FlushFails \/ DoneBegins \/ StageFails \/ Overflow
         \/ AppendFails \/ DoneStaged \/ DoneCommits \/ JobEnds \/ Evicts
  PROVE  IInv'
<1> USE BoundsAssumption DEF IInv
<1>1. CASE FlushBegins
  <2> USE <1>1 DEF FlushBegins, disk, job, FlushReady
  <2>1. TypeOK' BY DEF TypeOK, NoFlush, NoRepair
  <2>2. Same BY KeptFacts
  <2>3. ControlInv' BY <2>2 DEF Same, TypeOK, ControlInv, Settled, NoFlush, NoRepair
  <2>4. MetaInv' /\ LiveInv'
    BY <2>2 DEF Same, TypeOK, ControlInv, MetaInv, LiveInv, Settled, NoFlush, NoRepair
  <2>5. FailedInv' /\ FinInv'
    BY <2>2 DEF Same, TypeOK, ControlInv, LiveInv, FailedInv, FinInv, Ended, NoRepair
  <2>6. RecInv' BY <2>2 DEF Same, TypeOK, ControlInv, RecInv, Settled, NoFlush
  <2>7. SettledInv' /\ AnnouncedResultStands'
    BY <2>2
    DEF Same, TypeOK, ControlInv, SettledInv, AnnouncedResultStands, TerminalMatches, Settled,
      NoFlush
  <2> QED BY <2>1, <2>2, <2>3, <2>4, <2>5, <2>6, <2>7 DEF Same
<1>2. CASE FlushLands
  <2> USE <1>2 DEF FlushLands, disk, job
  <2>1. TypeOK' BY DEF TypeOK, Metadata, NoFlush, NoRepair
  <2>2. Same BY KeptFacts
  <2>3. ControlInv' BY <2>2 DEF Same, TypeOK, ControlInv, Settled, NoFlush, NoRepair
  <2>4. MetaInv' /\ LiveInv'
    BY <2>2 DEF Same, TypeOK, ControlInv, MetaInv, LiveInv, Settled, NoFlush, NoRepair
  <2>5. FailedInv' /\ FinInv'
    BY <2>2 DEF Same, TypeOK, ControlInv, LiveInv, FailedInv, FinInv, Ended, NoRepair
  <2>6. RecInv' BY <2>2 DEF Same, TypeOK, ControlInv, RecInv, Settled, NoFlush
  <2>7. SettledInv' /\ AnnouncedResultStands'
    BY <2>2
    DEF Same, TypeOK, ControlInv, SettledInv, AnnouncedResultStands, TerminalMatches, Settled,
      NoFlush
  <2> QED BY <2>1, <2>2, <2>3, <2>4, <2>5, <2>6, <2>7 DEF Same
<1>3. CASE FlushFails
  <2> USE <1>3 DEF FlushFails, disk, job, Fault
  <2>1. TypeOK' BY DEF TypeOK, NoFlush, NoRepair
  <2>2. Same BY KeptFacts
  <2>3. ControlInv' BY <2>2 DEF Same, TypeOK, ControlInv, Settled, NoFlush, NoRepair
  <2>4. MetaInv' /\ LiveInv'
    BY <2>2 DEF Same, TypeOK, ControlInv, MetaInv, LiveInv, Settled, NoFlush, NoRepair
  <2>5. FailedInv' /\ FinInv'
    BY <2>2 DEF Same, TypeOK, ControlInv, LiveInv, FailedInv, FinInv, Ended, NoRepair
  <2>6. RecInv' BY <2>2 DEF Same, TypeOK, ControlInv, RecInv, Settled, NoFlush
  <2>7. SettledInv' /\ AnnouncedResultStands'
    BY <2>2
    DEF Same, TypeOK, ControlInv, SettledInv, AnnouncedResultStands, TerminalMatches, Settled,
      NoFlush
  <2> QED BY <2>1, <2>2, <2>3, <2>4, <2>5, <2>6, <2>7 DEF Same
<1>4. CASE DoneBegins
  <2> USE <1>4 DEF DoneBegins, disk, job
  <2>1. TypeOK' BY DEF TypeOK, NoFlush, NoRepair
  <2>2. Same BY KeptFacts
  <2>3. ControlInv' BY <2>2 DEF Same, TypeOK, ControlInv, Settled, NoFlush, NoRepair
  <2>4. MetaInv' /\ LiveInv'
    BY <2>2 DEF Same, TypeOK, ControlInv, MetaInv, LiveInv, Settled, NoFlush, NoRepair
  <2>5. FailedInv' /\ FinInv'
    BY <2>2 DEF Same, TypeOK, ControlInv, LiveInv, FailedInv, FinInv, Ended, NoRepair
  <2>6. RecInv' BY <2>2 DEF Same, TypeOK, ControlInv, RecInv, Settled, NoFlush
  <2>7. SettledInv' /\ AnnouncedResultStands'
    BY <2>2
    DEF Same, TypeOK, ControlInv, SettledInv, AnnouncedResultStands, TerminalMatches, Settled,
      NoFlush
  <2> QED BY <2>1, <2>2, <2>3, <2>4, <2>5, <2>6, <2>7 DEF Same
<1>5. CASE StageFails
  <2> USE <1>5 DEF StageFails, disk, job, Fault, FailTo, StageReady
  <2>1. TypeOK' BY DEF TypeOK, NoFlush, NoRepair
  <2>2. Same BY KeptFacts
  <2>3. ControlInv' BY <2>2 DEF Same, TypeOK, ControlInv, Settled, NoFlush, NoRepair
  <2>4. MetaInv' /\ LiveInv'
    BY <2>2 DEF Same, TypeOK, ControlInv, MetaInv, LiveInv, Settled, NoFlush, NoRepair
  <2>5. FailedInv' /\ FinInv'
    BY <2>2 DEF Same, TypeOK, ControlInv, LiveInv, FailedInv, FinInv, Ended, NoRepair
  <2>6. RecInv' BY <2>2 DEF Same, TypeOK, ControlInv, RecInv, Settled, NoFlush
  <2>7. SettledInv' /\ AnnouncedResultStands'
    BY <2>2
    DEF Same, TypeOK, ControlInv, SettledInv, AnnouncedResultStands, TerminalMatches, Settled,
      NoFlush
  <2> QED BY <2>1, <2>2, <2>3, <2>4, <2>5, <2>6, <2>7 DEF Same
<1>6. CASE Overflow
  <2> USE <1>6 DEF Overflow, disk, job, FailTo, NoLate, Kinds
  <2>1. TypeOK' BY QueueFacts DEF TypeOK, NoFlush, NoRepair
  <2>2. Same BY KeptFacts
  <2>3. ControlInv' BY <2>2, QueueFacts DEF Same, TypeOK, ControlInv, Settled, NoFlush, NoRepair
  <2>4. MetaInv' /\ LiveInv'
    BY <2>2, QueueFacts DEF Same, TypeOK, ControlInv, MetaInv, LiveInv, Settled, NoFlush, NoRepair
  <2>5. FailedInv' /\ FinInv'
    BY <2>2, QueueFacts DEF Same, TypeOK, ControlInv, LiveInv, FailedInv, FinInv, Ended, NoRepair
  <2>6. RecInv' BY <2>2, QueueFacts DEF Same, TypeOK, ControlInv, RecInv, Settled, NoFlush
  <2>7. SettledInv' /\ AnnouncedResultStands'
    BY <2>2, QueueFacts
    DEF Same, TypeOK, ControlInv, SettledInv, AnnouncedResultStands, TerminalMatches, Settled,
      NoFlush
  <2> QED BY <2>1, <2>2, <2>3, <2>4, <2>5, <2>6, <2>7 DEF Same
<1>7. CASE AppendFails
  <2> USE <1>7 DEF AppendFails, disk, job, Fault, FailTo
  <2>1. TypeOK'
    <3>1. torn' \in BOOLEAN BY <1>7 DEF AppendFails, TypeOK
    <3>2. Len(timeline) \in Nat BY DEF TypeOK
    <3>3. repairTo' \in Nat \cup {NoRepair} BY <1>7, <3>2 DEF AppendFails, FailTo
    <3> QED BY <1>7, <3>1, <3>3 DEF AppendFails, Fault, FailTo, TypeOK
  <2>2. Same BY KeptFacts
  <2>3. ControlInv' BY <2>2, QueueFacts DEF Same, TypeOK, ControlInv, Settled, NoFlush, NoRepair
  <2>4. MetaInv' /\ LiveInv'
    BY <2>2, QueueFacts DEF Same, TypeOK, ControlInv, MetaInv, LiveInv, Settled, NoFlush, NoRepair
  <2>5. FailedInv' /\ FinInv'
    BY <2>2, QueueFacts DEF Same, TypeOK, ControlInv, LiveInv, FailedInv, FinInv, Ended, NoRepair
  <2>6. RecInv' BY <2>2, QueueFacts DEF Same, TypeOK, ControlInv, RecInv, Settled, NoFlush
  <2>7. SettledInv' /\ AnnouncedResultStands'
    BY <2>2, QueueFacts
    DEF Same, TypeOK, ControlInv, SettledInv, AnnouncedResultStands, TerminalMatches, Settled,
      NoFlush
  <2> QED BY <2>1, <2>2, <2>3, <2>4, <2>5, <2>6, <2>7 DEF Same
<1>8. CASE DoneStaged
  <2> USE <1>8 DEF DoneStaged, disk, job, StageReady
  <2>0. Len(<<>>) = 0 /\ ~Has(<<>>, "error") BY DEF Has
  <2>1. TypeOK'
    <3>1. <<"done">> \in Seq(Kinds) BY DEF Kinds
    <3> QED BY <1>8, <3>1 DEF DoneStaged, disk, TypeOK
  <2>2. Same BY KeptFacts
  <2>3. ControlInv' BY <2>2, <2>0 DEF Same, TypeOK, ControlInv, Settled, NoFlush, NoRepair
  <2>4. MetaInv' /\ LiveInv'
    BY <2>2, <2>0 DEF Same, TypeOK, ControlInv, MetaInv, LiveInv, Settled, NoFlush, NoRepair
  <2>5. FailedInv' /\ FinInv'
    BY <2>2, <2>0 DEF Same, TypeOK, ControlInv, LiveInv, FailedInv, FinInv, Ended, NoRepair
  <2>6. RecInv' BY <2>2, <2>0 DEF Same, TypeOK, ControlInv, RecInv, Settled, NoFlush
  <2>7. SettledInv' /\ AnnouncedResultStands'
    BY <2>2, <2>0
    DEF Same, TypeOK, ControlInv, SettledInv, AnnouncedResultStands, TerminalMatches, Settled,
      NoFlush
  <2> QED BY <2>1, <2>2, <2>3, <2>4, <2>5, <2>6, <2>7 DEF Same
<1>9. CASE DoneCommits
  <2> USE <1>9 DEF DoneCommits, disk, job, Result, LiveInv, LastEvent, Erred
  <2>1. TypeOK' BY LastFacts DEF TypeOK, Metadata, NoFlush, NoRepair
  <2>2. Same BY KeptFacts
  <2>3. ControlInv' BY <2>2, LastFacts DEF Same, TypeOK, ControlInv, Settled, NoFlush, NoRepair
  <2>4. MetaInv' /\ LiveInv'
    BY <2>2, LastFacts DEF Same, TypeOK, ControlInv, MetaInv, LiveInv, Settled, NoFlush, NoRepair
  <2>5. FailedInv' /\ FinInv'
    BY <2>2, LastFacts DEF Same, TypeOK, ControlInv, LiveInv, FailedInv, FinInv, Ended, NoRepair
  <2>6. RecInv' BY <2>2, LastFacts DEF Same, TypeOK, ControlInv, RecInv, Settled, NoFlush
  <2>7. SettledInv' /\ AnnouncedResultStands'
    BY <2>2, LastFacts
    DEF Same, TypeOK, ControlInv, SettledInv, AnnouncedResultStands, TerminalMatches, Settled,
      NoFlush
  <2> QED BY <2>1, <2>2, <2>3, <2>4, <2>5, <2>6, <2>7 DEF Same
<1>10. CASE JobEnds
  <2>0. /\ [Idle EXCEPT !.step = "trim"] \in Repairs /\ [Idle EXCEPT !.step = "trim"].step = "trim"
        /\ [Idle EXCEPT !.step = "trim"] # Idle
    BY IdleFacts, RepairFacts DEF At, Steps
  <2>1. TypeOK' BY <1>10, <2>0 DEF JobEnds, disk, TypeOK
  <2> USE <1>10, IdleFacts, RepairFacts DEF JobEnds, disk, job
  <2>2. Same BY KeptFacts
  <2>3. ControlInv' BY <2>2 DEF Same, TypeOK, ControlInv, Settled, NoFlush, NoRepair
  <2>4. MetaInv' /\ LiveInv'
    BY <2>2 DEF Same, TypeOK, ControlInv, MetaInv, LiveInv, Settled, NoFlush, NoRepair
  <2>5. FailedInv' /\ FinInv'
    BY <2>2 DEF Same, TypeOK, ControlInv, LiveInv, FailedInv, FinInv, Ended, NoRepair
  <2>6. RecInv' BY <2>2 DEF Same, TypeOK, ControlInv, RecInv, Settled, NoFlush
  <2>7. SettledInv' /\ AnnouncedResultStands'
    BY <2>2
    DEF Same, TypeOK, ControlInv, SettledInv, AnnouncedResultStands, TerminalMatches, Settled,
      NoFlush
  <2> QED BY <2>1, <2>2, <2>3, <2>4, <2>5, <2>6, <2>7 DEF Same
<1>11. CASE Evicts
  <2> USE <1>11 DEF Evicts, disk, job
  <2>1. TypeOK' BY DEF TypeOK, NoFlush, NoRepair
  <2>2. Same BY KeptFacts
  <2>3. ControlInv' BY <2>2 DEF Same, TypeOK, ControlInv, Settled, NoFlush, NoRepair
  <2>4. MetaInv' /\ LiveInv'
    BY <2>2 DEF Same, TypeOK, ControlInv, MetaInv, LiveInv, Settled, NoFlush, NoRepair
  <2>5. FailedInv' /\ FinInv'
    BY <2>2 DEF Same, TypeOK, ControlInv, LiveInv, FailedInv, FinInv, Ended, NoRepair
  <2>6. RecInv' BY <2>2 DEF Same, TypeOK, ControlInv, RecInv, Settled, NoFlush
  <2>7. SettledInv' /\ AnnouncedResultStands'
    BY <2>2
    DEF Same, TypeOK, ControlInv, SettledInv, AnnouncedResultStands, TerminalMatches, Settled,
      NoFlush
  <2> QED BY <2>1, <2>2, <2>3, <2>4, <2>5, <2>6, <2>7 DEF Same
<1> QED BY <1>1, <1>2, <1>3, <1>4, <1>5, <1>6, <1>7, <1>8, <1>9, <1>10, <1>11

\* A queued line reaches the timeline, ...
LEMMA WrittenStep ==
  ASSUME IInv, Written, NEW kind \in Kinds, kind = Head(queue), blind' \in BOOLEAN, blind => blind',
         timeline' \in Seq(Kinds), torn' \in BOOLEAN, DoneIsLast',
         ~blind' => Longer(kind) /\ ~torn',
         faults' \in 0..MaxFaults
  PROVE  IInv'
<1> USE DEF IInv
<1>1. /\ queue # <<>> /\ ~failed /\ queue' = Tail(queue)
      /\ ending' = IF ending = "append" THEN "commit" ELSE ending
      /\ UNCHANGED <<meta, live, emitted, erred, flush, failed, told, repairTo, late, fin, rec>>
  BY DEF Written
<1>2. /\ queue' \in Seq(Kinds) /\ Len(queue') = Len(queue) - 1 /\ Len(queue) \in Nat
      /\ \A k : Has(queue, k) <=> kind = k \/ Has(queue', k)
  BY <1>1, QueueFacts DEF TypeOK
<1>3. /\ live /\ fin = Idle /\ rec = Idle /\ late = NoLate /\ repairTo = NoRepair
      /\ meta.status = "running" /\ told = "none"
      /\ ending \in {"no", "wait", "append"}
  BY <1>1 DEF ControlInv, TypeOK
<1>4. Has(queue, "done")' = Has(queue', "done") /\ Has(queue, "error")' = Has(queue', "error")
  BY DEF Has
<1>5. ending = "append" => kind = "done" /\ queue' = <<>> /\ queue = <<"done">>
  <2>1. Head(<<"done">>) = "done" /\ Tail(<<"done">>) = <<>> OBVIOUS
  <2> QED BY <1>1, <2>1 DEF ControlInv
<1>6. ending \in {"no", "wait"} => kind # "done" /\ ~Has(queue', "done")
  BY <1>2 DEF ControlInv
<1>7. TypeOK' BY <1>1, <1>2 DEF TypeOK
<1>8. ControlInv' BY <1>1, <1>3, <1>4, <1>5, <1>6 DEF ControlInv
<1>9. FinInv' /\ RecInv' /\ AnnouncedResultStands' /\ SettledInv'
  BY <1>1, <1>3 DEF FinInv, RecInv, AnnouncedResultStands, SettledInv, Settled
<1>10. FailedInv' BY <1>1 DEF FailedInv
<1>11. ASSUME ~blind' PROVE MetaInv' /\ LiveInv'
  <2>1. Longer(kind) /\ ~torn' /\ ~blind /\ Len(timeline) \in Nat BY <1>11, <1>1 DEF TypeOK
  <2>2. /\ ~TerminalSeen
        /\ ending \in {"no", "wait"} => /\ Len(timeline) + Len(queue) = emitted
                                        /\ erred <=> Erred \/ Has(queue, "error")
        /\ ending = "append" => Len(timeline) = emitted /\ (erred <=> Erred)
    BY <2>1, <1>1, <1>3 DEF LiveInv
  <2>3. MetaInv'
    <3>1. meta.lastSequence <= Len(timeline) /\ (flush # NoFlush => flush <= Len(timeline))
      BY <2>1 DEF MetaInv
    <3>2. meta.lastSequence \in Nat /\ (flush # NoFlush => flush \in Nat)
      BY DEF TypeOK, Metadata
    <3>3. Len(timeline)' = Len(timeline) + 1 BY <2>1 DEF Longer
    <3>4. /\ meta.lastSequence < Len(timeline)'
          /\ flush # NoFlush => flush < Len(timeline)' /\ flush <= Len(timeline)'
      BY <3>1, <3>2, <3>3, <2>1
    <3>5. meta.lastSequence <= Len(timeline)' BY <3>2, <3>3, <3>4, <2>1
    <3> QED BY <3>4, <3>5, <1>1, <1>3 DEF MetaInv, Settled
  <2>4. Len(queue)' = Len(queue) - 1 /\ Len(queue) \in Nat /\ emitted \in Nat BY <1>2 DEF TypeOK
  <2>5. CASE ending \in {"no", "wait"}
    <3>1. ending' = ending BY <1>1, <2>5
    <3>2. Erred' <=> Erred \/ kind = "error" BY <2>1 DEF Longer
    <3>3. erred <=> Erred' \/ Has(queue, "error")' BY <1>2, <1>4, <2>2, <2>5, <3>2
    <3>4. ~TerminalSeen' BY <1>6, <2>5, <2>1 DEF Longer
    <3>5. Len(timeline)' + Len(queue)' = emitted
      <4>1. Len(timeline)' = Len(timeline) + 1 BY <2>1 DEF Longer
      <4>2. Len(timeline) + Len(queue) = emitted BY <2>2, <2>5
      <4> QED BY <4>1, <4>2, <2>4, <2>1
    <3> QED BY <2>1, <2>3, <1>1, <2>5, <3>1, <3>3, <3>4, <3>5 DEF LiveInv
  <2>6. CASE ending = "append"
    <3>1. ending' = "commit" /\ kind = "done" BY <1>1, <1>5, <2>6
    <3>2. Len(timeline)' = emitted + 1 /\ TerminalSeen' /\ (erred <=> Erred')
      BY <2>1, <2>2, <2>6, <3>1 DEF Longer
    <3> QED BY <2>1, <2>3, <1>1, <3>1, <3>2 DEF LiveInv
  <2> QED BY <1>3, <2>5, <2>6
<1>12. ASSUME blind' PROVE MetaInv' /\ LiveInv' BY <1>12 DEF MetaInv, LiveInv
<1> QED BY <1>7, <1>8, <1>9, <1>10, <1>11, <1>12

LEMMA AppendStep == ASSUME IInv, AppendOk \/ AppendBlind PROVE IInv'
<1> USE BoundsAssumption DEF IInv
<1> DEFINE kind == Head(queue)
<1>1. kind \in Kinds /\ queue # <<>> /\ ~failed
  BY QueueFacts DEF AppendOk, AppendBlind, Written, TypeOK
<1>2. live /\ ending \in {"no", "wait", "append"} /\ torn \in BOOLEAN /\ timeline \in Seq(Kinds)
  BY <1>1 DEF ControlInv, TypeOK
<1>3. ~blind => ~torn /\ Follows(Len(timeline) + 1)
  BY <1>1, <1>2 DEF LiveInv, Follows
<1>4. CASE AppendOk
  <2>1. Written /\ Lands(Len(timeline) + 1, kind) /\ UNCHANGED <<blind, faults>>
    BY <1>4 DEF AppendOk
  <2> HIDE DEF kind
  <2>2. /\ timeline' \in Seq(Kinds) /\ torn' \in BOOLEAN /\ DoneIsLast'
        /\ \/ Longer(kind) /\ ~torn'
           \/ ~(Follows(Len(timeline) + 1) /\ ~torn)
    BY <2>1, <1>1, <1>2, LandsFacts
  <2> QED BY <1>1, <1>3, <2>1, <2>2, WrittenStep DEF TypeOK, kind
<1>5. CASE AppendBlind
  <2>1. Written /\ Smears(Len(timeline) + 1, kind) /\ blind' = TRUE /\ Fault
    BY <1>5 DEF AppendBlind
  <2>2. faults' \in 0..MaxFaults BY <2>1 DEF Fault, TypeOK
  <2> HIDE DEF kind
  <2>3. timeline' \in Seq(Kinds) /\ torn' \in BOOLEAN /\ DoneIsLast'
    BY <2>1, <1>1, <1>2, SmearsFacts
  <2> QED BY <1>1, <2>1, <2>2, <2>3, WrittenStep DEF kind
<1> QED BY <1>4, <1>5

\* The live job accepts an event.
LEMMA EmitStep == ASSUME IInv, NEW kind \in {"text", "error"}, Emit(kind) PROVE IInv'
<1> USE BoundsAssumption DEF IInv
<1>1. /\ live /\ ~failed /\ ending = "no" /\ emitted' = emitted + 1 /\ queue' = Append(queue, kind)
      /\ erred' = (erred \/ kind = "error")
      /\ UNCHANGED <<timeline, torn, meta, live, flush, ending, failed, told, repairTo, late, fin,
                     rec, blind, faults>>
  BY DEF Emit, disk
<1>2. /\ queue' \in Seq(Kinds) /\ Len(queue') = Len(queue) + 1 /\ Len(queue) \in Nat
      /\ \A k : Has(queue', k) <=> Has(queue, k) \/ k = kind
  BY <1>1, AppendFacts DEF TypeOK, Kinds
<1>3. Has(queue, "done")' = Has(queue', "done") /\ Has(queue, "error")' = Has(queue', "error")
  BY DEF Has
<1>4. Same BY <1>1, KeptFacts
<1>5. TypeOK' BY <1>1, <1>2 DEF TypeOK
<1>6. ControlInv' BY <1>1, <1>2, <1>3 DEF ControlInv, Settled
<1>7. MetaInv' /\ FailedInv' /\ FinInv' /\ RecInv' /\ SettledInv' /\ AnnouncedResultStands'
  BY <1>1, <1>4 DEF Same, MetaInv, FailedInv, FinInv, RecInv, SettledInv, AnnouncedResultStands,
    TerminalMatches, Settled, ControlInv, Ended, NoFlush
<1>8. ASSUME ~blind PROVE LiveInv'
  <2>1. /\ Len(timeline) + Len(queue) = emitted /\ ~TerminalSeen /\ ~torn
        /\ erred <=> Erred \/ Has(queue, "error")
    BY <1>1, <1>8 DEF LiveInv
  <2>2. Len(timeline)' + Len(queue)' = emitted'
    <3>1. /\ Len(timeline)' = Len(timeline) /\ Len(queue)' = Len(queue) + 1
          /\ Len(timeline) \in Nat /\ Len(queue) \in Nat /\ emitted' = emitted + 1
      BY <1>1, <1>2 DEF TypeOK
    <3> QED BY <2>1, <3>1
  <2>3. erred' <=> Erred' \/ Has(queue, "error")' BY <1>1, <1>2, <1>3, <1>4, <2>1 DEF Same
  <2>4. ~TerminalSeen' BY <1>4, <2>1 DEF Same
  <2> QED BY <1>1, <2>1, <2>2, <2>3, <2>4 DEF LiveInv
<1>9. blind => LiveInv' BY <1>1 DEF LiveInv
<1> QED BY <1>4, <1>5, <1>6, <1>7, <1>8, <1>9 DEF Same

\* A live job's timeline fails.
LEMMA FailedStep ==
  ASSUME IInv, live, ~failed, ending # "done", NEW length \in Nat \cup {NoRepair}, FailTo(length),
         UNCHANGED <<meta, late, fin, rec>>, faults' \in 0..MaxFaults,
         blind' \in BOOLEAN, timeline' \in Seq(Kinds), torn' \in BOOLEAN, DoneIsLast',
         ~blind' => /\ meta.lastSequence <= Len(timeline')
                    /\ TerminalSeen' => meta.lastSequence < Len(timeline')
                    /\ flush # NoFlush => /\ flush <= Len(timeline')
                                          /\ TerminalSeen' => flush < Len(timeline')
                    /\ IF TerminalSeen' THEN length = Len(timeline') - 1
                                        ELSE length \in {NoRepair, Len(timeline')}
  PROVE  IInv'
<1> USE DEF IInv
<1>1. /\ failed' = TRUE /\ queue' = <<>> /\ repairTo' = length /\ erred' = TRUE
      /\ ending' = "done" /\ told' = "failed" /\ UNCHANGED <<live, emitted, flush>>
  BY DEF FailTo
<1>2. /\ fin = Idle /\ rec = Idle /\ late = NoLate /\ meta.status = "running"
  BY DEF ControlInv
<1>3. TypeOK'
  <2>1. <<>> \in Seq(Kinds) OBVIOUS
  <2> QED BY <1>1, <2>1 DEF TypeOK
<1>4. ControlInv' BY <1>1, <1>2 DEF ControlInv
<1>5. MetaInv' /\ LiveInv' /\ FailedInv' BY <1>1, <1>2 DEF MetaInv, LiveInv, FailedInv, Settled
<1>6. FinInv' /\ RecInv' /\ SettledInv' /\ AnnouncedResultStands'
  BY <1>1, <1>2 DEF FinInv, RecInv, SettledInv, AnnouncedResultStands, Settled
<1> QED BY <1>3, <1>4, <1>5, <1>6

LEMMA UnknownStep == ASSUME IInv, AppendUnknown \/ CommitFails PROVE IInv'
<1> USE BoundsAssumption DEF IInv
<1>0. /\ timeline \in Seq(Kinds) /\ Len(timeline) \in Nat /\ torn \in BOOLEAN
      /\ meta.lastSequence \in Nat /\ (flush # NoFlush => flush \in Nat)
  BY DEF TypeOK, Metadata
<1>1. CASE AppendUnknown
  <2> DEFINE kind == Head(queue)
  <2>1. kind \in Kinds /\ queue # <<>> /\ ~failed BY <1>1, QueueFacts DEF AppendUnknown, TypeOK
  <2>2. live /\ ending \in {"no", "wait", "append"} BY <2>1 DEF ControlInv, TypeOK
  <2>3. ~blind => ~TerminalSeen BY <2>1, <2>2 DEF LiveInv
  <2>4. /\ FailTo(NoRepair) /\ blind' = (blind \/ kind = "done") /\ Fault
        /\ UNCHANGED <<meta, late, fin, rec>>
    BY <1>1 DEF AppendUnknown
  <2>5. faults' \in 0..MaxFaults /\ blind' \in BOOLEAN BY <2>4 DEF Fault, TypeOK
  <2>6. \/ Lands(Len(timeline) + 1, kind) \/ Smears(Len(timeline) + 1, kind)
        \/ UNCHANGED <<timeline, torn>>
    BY <1>1 DEF AppendUnknown
  <2> HIDE DEF kind
  <2>7. /\ timeline' \in Seq(Kinds) /\ torn' \in BOOLEAN /\ DoneIsLast' /\ (Same \/ Longer(kind))
    BY <1>0, <2>1, <2>6, LandsFacts, SmearsFacts, KeptFacts DEF Same
  <2>8. ASSUME ~blind'
        PROVE  /\ meta.lastSequence <= Len(timeline') /\ ~TerminalSeen'
               /\ flush # NoFlush => flush <= Len(timeline')
    <3>1. ~blind /\ kind # "done" BY <2>8, <2>4
    <3>2. meta.lastSequence <= Len(timeline) /\ (flush # NoFlush => flush <= Len(timeline))
      BY <3>1 DEF MetaInv
    <3>3. CASE Same BY <2>3, <3>1, <3>2, <3>3 DEF Same
    <3>4. CASE Longer(kind) BY <1>0, <3>1, <3>2, <3>4 DEF Longer
    <3> QED BY <2>7, <3>3, <3>4
  <2> QED BY <2>1, <2>2, <2>4, <2>5, <2>7, <2>8, FailedStep
<1>2. CASE CommitFails
  <2>1. live /\ ending = "commit" /\ ~failed /\ Fault BY <1>2 DEF CommitFails, ControlInv
  <2>2. faults' \in 0..MaxFaults BY <2>1 DEF Fault, TypeOK
  <2>3. PICK before \in IF TerminalSeen THEN {Len(timeline) - 1}
                         ELSE {Len(timeline), Len(timeline) + 1} :
          /\ CutTo(before) \/ UNCHANGED <<timeline, torn>>
          /\ FailTo(before)
    BY <1>2 DEF CommitFails
  <2>4. UNCHANGED <<meta, late, fin, rec, blind>> BY <1>2 DEF CommitFails
  <2>5. TerminalSeen => Len(timeline) > 0 BY <1>0, LastFacts
  <2>6. before \in Nat BY <1>0, <2>3, <2>5
  <2>7. timeline' \in Seq(Kinds) /\ torn' \in BOOLEAN /\ DoneIsLast'
    BY <1>0, <2>3, <2>6, CutTypes, KeptFacts DEF Same
  <2>8. ASSUME ~blind
        PROVE  /\ meta.lastSequence <= Len(timeline')
               /\ TerminalSeen' => meta.lastSequence < Len(timeline')
               /\ flush = NoFlush
               /\ IF TerminalSeen' THEN before = Len(timeline') - 1
                                   ELSE before \in {NoRepair, Len(timeline')}
    <3>1. TerminalSeen /\ before = Len(timeline) - 1 BY <2>1, <2>3, <2>8 DEF LiveInv
    <3>2. meta.lastSequence < Len(timeline) /\ flush = NoFlush
      BY <2>1, <2>8, <3>1 DEF MetaInv, ControlInv, Settled
    <3>3. CASE UNCHANGED <<timeline, torn>>
      <4>1. Same BY <3>3, KeptFacts
      <4> QED BY <1>0, <3>1, <3>2, <4>1 DEF Same
    <3>4. CASE CutTo(before)
      <4>1. before \in 0..Len(timeline) BY <1>0, <2>5, <2>6, <3>1
      <4>3. Shorter(before) BY <1>0, <3>4, <4>1, CutFacts
      <4>4. before < Len(timeline) BY <1>0, <3>1
      <4>2. Len(timeline') = before /\ ~TerminalSeen' BY <4>3, <4>4 DEF Shorter
      <4> QED BY <1>0, <3>1, <3>2, <4>2
    <3> QED BY <2>3, <3>3, <3>4
  <2>9. blind' \in BOOLEAN /\ (~blind' => ~blind) BY <2>4 DEF TypeOK
  <2> QED BY <2>1, <2>2, <2>3, <2>4, <2>6, <2>7, <2>8, <2>9, FailedStep
<1> QED BY <1>1, <1>2

\* The append that was under way when the limit was met.
LEMMA LateStep == ASSUME IInv, LateLands \/ LateFails PROVE IInv'
<1> USE BoundsAssumption DEF IInv
<1>0. /\ timeline \in Seq(Kinds) /\ Len(timeline) \in Nat /\ torn \in BOOLEAN
      /\ late \in [number : Nat, kind : Kinds] /\ late.kind \in Kinds
  BY DEF TypeOK
<1>1. /\ late # NoLate /\ late' = NoLate
      /\ UNCHANGED <<meta, live, queue, emitted, erred, flush, ending, failed, told, fin, rec, blind>>
      /\ repairTo' = repairTo \/ (torn' /\ repairTo' = Len(timeline'))
  BY DEF LateLands, LateFails, job
<1>2. late.kind # "done" /\ repairTo = NoRepair BY <1>1 DEF ControlInv
<1>3. /\ timeline' \in Seq(Kinds) /\ torn' \in BOOLEAN /\ DoneIsLast'
      /\ torn => torn'
      /\ Same \/ (Longer(late.kind) /\ ~torn /\ ~TerminalSeen)
  <2>1. CASE Lands(late.number, late.kind) BY <1>0, <2>1, LandsFacts DEF Follows
  <2>2. CASE Smears(late.number, late.kind) BY <1>0, <2>2, SmearsFacts DEF Follows
  <2>3. CASE torn' \in {torn, TRUE} /\ UNCHANGED timeline
    <3>1. torn' = torn \/ torn' = TRUE BY <2>3
    <3> QED BY <1>0, <2>3, <3>1, KeptFacts DEF Same
  <2> QED BY <2>1, <2>2, <2>3 DEF LateLands, LateFails
<1>4. faults' \in 0..MaxFaults
  <2>1. faults' = faults \/ Fault BY DEF LateLands, LateFails
  <2> QED BY <2>1 DEF Fault, TypeOK
<1>5. Len(timeline') \in Nat /\ NoLate \in [number : Nat, kind : Kinds]
  BY <1>3 DEF NoLate, Kinds
<1>6. TypeOK' BY <1>1, <1>3, <1>4, <1>5 DEF TypeOK
<1>7. ~live \/ failed BY <1>1 DEF ControlInv
<1>8. ~Settled(meta) \/ blind \/ (TerminalSeen /\ meta.status # "completed")
  <2>1. ASSUME Settled(meta), ~blind PROVE TerminalSeen /\ meta.status # "completed"
    BY <1>0, <1>1, <2>1, LastFacts DEF SettledInv, TerminalMatches, LastEvent
  <2> QED BY <2>1
<1>9. rec = Idle \/ ~rec.alone BY <1>1 DEF ControlInv
<1>10. ControlInv' BY <1>1, <1>2, <1>7, <1>9 DEF ControlInv, Settled
<1>11. LiveInv' /\ RecInv' /\ AnnouncedResultStands'
  BY <1>1, <1>7, <1>9 DEF LiveInv, RecInv, AnnouncedResultStands, Settled
<1>12. CASE Same
  <2>1. MetaInv' BY <1>1, <1>12 DEF Same, MetaInv, Settled
  <2>2. FailedInv'
    <3>1. FailedInv /\ NoRepair = -1 BY DEF NoRepair
    <3>2. TerminalSeen => Len(timeline) > 0 BY <1>0, LastFacts
    <3> QED BY <1>0, <1>1, <1>2, <1>12, <3>1, <3>2 DEF Same, FailedInv
  <2>4. FinInv' BY <1>1, <1>3, <1>12 DEF Same, FinInv, Ended
  <2>3. SettledInv' BY <1>1, <1>8, <1>12 DEF Same, SettledInv, TerminalMatches, Settled
  <2> QED BY <1>3, <1>6, <1>10, <1>11, <2>1, <2>2, <2>3, <2>4
<1>13. CASE Longer(late.kind) /\ ~torn /\ ~TerminalSeen
  <2>1. /\ Len(timeline') = Len(timeline) + 1 /\ ~TerminalSeen' /\ (Erred => Erred')
    BY <1>2, <1>13 DEF Longer
  <2>2. ~Settled(meta) \/ blind BY <1>8, <1>13
  <2>3. ~blind => ~Settled(meta)' /\ meta.status # "completed"
    BY <1>1, <2>2 DEF Settled, MetaInv
  <2>4. MetaInv'
    <3>1. meta.lastSequence \in Nat /\ (flush # NoFlush => flush \in Nat) BY DEF TypeOK, Metadata
    <3> QED BY <1>0, <1>1, <2>1, <2>3, <3>1 DEF MetaInv
  <2>5. FailedInv' BY <1>1, <1>2, <2>1 DEF FailedInv
  <2>6. FinInv'
    <3>1. ASSUME fin # Idle, ~blind
          PROVE  /\ meta.status = "running"
                 /\ fin.step # "cut"
                 /\ fin.step \in {"error", "done"} => ~Ended(fin)
                 /\ fin.step = "done" \/ (fin.step = "look" /\ fin.did = "error") => Erred
                 /\ fin.step = "meta" => ~Ended(fin) /\ Len(fin.seen.lines) <= Len(timeline')
      <4>1. fin.step = "meta" => ~Ended(fin) /\ Len(fin.seen.lines) <= Len(timeline)
        BY <3>1, <1>13 DEF FinInv, Ended, TerminalSeen
      <4>2. Len(fin.seen.lines) \in Nat BY DEF TypeOK, Repairs
      <4>3. Len(fin.seen.lines) <= Len(timeline) => Len(fin.seen.lines) <= Len(timeline')
        BY <1>0, <2>1, <4>2
      <4> QED BY <3>1, <1>13, <4>1, <4>3 DEF FinInv
    <3> QED BY <1>1, <2>1, <3>1 DEF FinInv, Ended
  <2>7. SettledInv' BY <1>1, <2>3 DEF SettledInv
  <2> QED BY <1>3, <1>6, <1>10, <1>11, <2>4, <2>5, <2>6, <2>7
<1> QED BY <1>3, <1>12, <1>13

\* What a finalization or reconciliation writes to the timeline, ...
LEMMA RepairWrites ==
  ASSUME timeline \in Seq(Kinds), torn \in BOOLEAN, DoneIsLast,
         NEW p \in Repairs, p.step \in {"error", "done"},
         Clean(p) \/ Retried(p) \/ Smeared(p) \/ Lost(p)
  PROVE  /\ timeline' \in Seq(Kinds) /\ torn' \in BOOLEAN /\ DoneIsLast'
         /\ Same \/ Longer(p.step)
<1>1. p.step \in Kinds BY DEF Kinds
<1>3. CASE Clean(p)
  <2>1. Lands(Number(p), p.step) BY <1>3 DEF Clean
  <2> QED BY <1>1, <2>1, LandsFacts
<1>4. CASE Retried(p)
  <2>1. CASE Follows(Number(p))
    <3>1. timeline' = Append(timeline, p.step) /\ torn' = FALSE /\ ~TerminalSeen
      BY <1>4, <2>1 DEF Retried, Follows
    <3>2. Longer(p.step) BY <1>1, <3>1, LongerFacts
    <3> QED BY <3>1, <3>2 DEF Longer
  <2>2. CASE ~Follows(Number(p))
    <3>1. torn' = TRUE /\ UNCHANGED timeline BY <1>4, <2>2 DEF Retried
    <3> QED BY <3>1, KeptFacts DEF Same
  <2> QED BY <2>1, <2>2
<1>5. CASE Smeared(p)
  <2>1. Smears(Number(p), p.step) BY <1>5 DEF Smeared
  <2> QED BY <1>1, <2>1, SmearsFacts
<1>6. CASE Lost(p)
  <2>1. /\ torn' \in BOOLEAN
        /\ \/ UNCHANGED timeline
           \/ Follows(Number(p)) /\ timeline' = Append(timeline, p.step)
    BY <1>6 DEF Lost
  <2>2. Same \/ Longer(p.step) BY <1>1, <2>1, KeptFacts, LongerFacts DEF Follows
  <2> QED BY <2>1, <2>2 DEF Same, Longer
<1> QED BY <1>3, <1>4, <1>5, <1>6

\* ... when it knows what precedes its line.
LEMMA KnowsFacts ==
  ASSUME timeline \in Seq(Kinds), torn \in BOOLEAN, DoneIsLast,
         NEW p \in Repairs, p.step \in {"error", "done"}, Knows(p), ~Ended(p),
         Clean(p) \/ Retried(p)
  PROVE  ~torn' /\ Longer(p.step)
<1>1. p.step \in Kinds BY DEF Kinds
<1>2. Follows(Number(p)) /\ ~torn /\ ~TerminalSeen
  BY DEF Knows, Ended, Follows, Number, TerminalSeen
<1>3. ~torn' /\ timeline' = Append(timeline, p.step) BY <1>2 DEF Clean, Lands, Retried
<1> QED BY <1>1, <1>2, <1>3, LongerFacts

\* A step of the finalization that leaves the metadata alone.
LEMMA FinStep ==
  ASSUME IInv, fin # Idle, UNCHANGED <<meta, job, repairTo, late, rec>>,
         fin' \in Repairs, fin' = Idle \/ fin'.step \notin {"none", "uncommit", "trim"},
         timeline' \in Seq(Kinds), torn' \in BOOLEAN, DoneIsLast',
         blind' \in BOOLEAN, blind => blind', faults' \in 0..MaxFaults,
         ~blind' => /\ \/ Same \/ (\E kind \in Kinds : Longer(kind))
                       \/ (TerminalSeen /\ Len(timeline') = Len(timeline) - 1 /\ ~TerminalSeen')
                    /\ FinInv'
  PROVE  IInv'
<1> USE DEF IInv
<1>1. /\ failed /\ ~live /\ ending = "done" /\ told = "failed"
      /\ rec # Idle => ~rec.alone
      /\ ~blind => rec = Idle
      /\ UNCHANGED <<live, queue, emitted, erred, flush, ending, failed, told>>
  BY DEF ControlInv, job
<1>2. ~blind => meta.status = "running" BY DEF FinInv
<1>3. TypeOK' BY <1>1 DEF TypeOK
<1>4. ControlInv'
  <2>1. fin' # Idle => failed /\ fin'.step \notin {"none", "uncommit"} BY <1>1
  <2>2. ~blind' => ~blind OBVIOUS
  <2>3. fin'.step = "trim" => FALSE BY IdleFacts
  <2> QED BY <1>1, <2>1, <2>2 DEF ControlInv, Settled
<1>5. LiveInv' /\ RecInv' /\ AnnouncedResultStands'
  BY <1>1 DEF LiveInv, RecInv, AnnouncedResultStands
<1>6. FailedInv'
  <2>1. fin'.step # "trim" BY IdleFacts
  <2> QED BY <1>1, <2>1 DEF FailedInv
<1>7. SettledInv' BY <1>2 DEF SettledInv, Settled
<1>8. ASSUME ~blind' PROVE MetaInv'
  <2>1. /\ ~blind /\ ~Settled(meta) /\ meta.status = "running"
        /\ meta.lastSequence \in Nat /\ Len(timeline) \in Nat /\ (flush # NoFlush => flush \in Nat)
    BY <1>2, <1>8 DEF Settled, TypeOK, Metadata
  <2>2. /\ meta.lastSequence <= Len(timeline)
        /\ TerminalSeen => meta.lastSequence < Len(timeline)
        /\ flush # NoFlush => /\ flush <= Len(timeline)
                              /\ TerminalSeen => flush < Len(timeline)
    BY <2>1 DEF MetaInv
  <2>3. CASE Same BY <1>1, <2>1, <2>2, <2>3 DEF Same, MetaInv, Settled
  <2>4. CASE \E kind \in Kinds : Longer(kind)
    <3>1. Len(timeline') = Len(timeline) + 1 BY <2>4 DEF Longer
    <3> QED BY <1>1, <2>1, <2>2, <3>1 DEF MetaInv, Settled
  <2>5. CASE TerminalSeen /\ Len(timeline') = Len(timeline) - 1 /\ ~TerminalSeen'
    BY <1>1, <2>1, <2>2, <2>5 DEF MetaInv, Settled
  <2> QED BY <1>8, <2>3, <2>4, <2>5
<1>9. blind' => MetaInv' /\ FinInv' BY DEF MetaInv, FinInv
<1> QED BY <1>3, <1>4, <1>5, <1>6, <1>7, <1>8, <1>9

\* Where a finalization goes on after a scan.
LEMMA FinNextFacts ==
  ASSUME NEW p \in Repairs
  PROVE  /\ FinNext(p) \in Repairs /\ FinNext(p).seen = p.seen /\ FinNext(p) # Idle
         /\ FinNext(p).step \in {"look", "cut", "error", "done", "meta"}
         /\ FinNext(p).step = "cut" => ~p.seen.sound
         /\ FinNext(p).step \in {"error", "done"} => ~Ended(p)
         /\ FinNext(p).step = "done" => p.did = "error"
         /\ FinNext(p).step = "look" /\ FinNext(p).did = "error" => LastOf(p.seen.lines) = "error"
<1>1. {"look", "cut", "error", "done", "meta"} \subseteq Steps
  BY DEF Steps
<1>8. {"error", "done"} \subseteq Deeds
  BY DEF Deeds
<1>2. ASSUME NEW step \in {"look", "cut", "error", "done", "meta"}
      PROVE  /\ At(p, step) \in Repairs /\ At(p, step).step = step /\ At(p, step).seen = p.seen
             /\ At(p, step).did = p.did /\ At(p, step) # Idle
  <2>1. step \in Steps /\ step # "none" BY <1>1
  <2>2. /\ At(p, step) \in Repairs /\ At(p, step).step = step /\ At(p, step).seen = p.seen
        /\ At(p, step).did = p.did
    BY <2>1, RepairFacts
  <2> QED BY <2>1, <2>2, IdleFacts
<1>3. \A what \in {"error", "done"} :
        /\ Did(p, what) \in Repairs /\ Did(p, what).step = "look" /\ Did(p, what).did = what
        /\ Did(p, what).seen = p.seen /\ Did(p, what) # Idle
  BY <1>8, RepairFacts
<1>4. CASE p.did = "begun" /\ ~p.seen.sound
  <2>1. FinNext(p) = At(p, "cut") BY <1>4 DEF FinNext
  <2> QED BY <1>2, <1>4, <2>1
<1>5. CASE p.did \in {"done", "caught"}
  <2>1. FinNext(p) = At(p, "meta") BY <1>5 DEF FinNext
  <2> QED BY <1>2, <2>1
<1>6. CASE p.did = "error"
  <2>1. FinNext(p) = IF Ended(p) THEN Did(p, "done") ELSE At(p, "done") BY <1>6 DEF FinNext
  <2> QED BY <1>2, <1>3, <1>6, <2>1
<1>7. CASE ~(p.did = "begun" /\ ~p.seen.sound) /\ p.did \notin {"done", "caught", "error"}
  <2>1. FinNext(p) = IF Ended(p) THEN At(p, "meta")
                     ELSE IF LastOf(p.seen.lines) = "error" THEN Did(p, "error") ELSE At(p, "error")
    BY <1>7 DEF FinNext
  <2> QED BY <1>2, <1>3, <2>1
<1> QED BY <1>4, <1>5, <1>6, <1>7

\* A scan.
LEMMA ScanFacts ==
  ASSUME timeline \in Seq(Kinds), torn \in BOOLEAN, NEW p \in Repairs
  PROVE  LET q == [p EXCEPT !.seen = Scan]
         IN  /\ q \in Repairs /\ q.step = p.step /\ q.did = p.did /\ q.read = p.read /\ q.alone = p.alone
             /\ q.seen.lines = timeline /\ q.seen.sound = ~torn
             /\ Ended(q) <=> TerminalSeen
BY DEF Repairs, Scan, Ended, TerminalSeen

\* The finalization.
LEMMA FinalizeStep ==
  ASSUME IInv, FinTrims \/ FinLooks \/ FinCuts \/ FinWrites \/ FinFails
  PROVE  IInv'
<1> USE BoundsAssumption DEF IInv
<1>0. /\ timeline \in Seq(Kinds) /\ Len(timeline) \in Nat /\ torn \in BOOLEAN
      /\ fin \in Repairs /\ Len(fin.seen.lines) \in Nat
      /\ blind \in BOOLEAN /\ faults \in 0..MaxFaults
  BY DEF TypeOK, Repairs
<1>k. {"begun", "cut", "error", "done", "caught"} \subseteq Deeds BY DEF Deeds
<1>d. ASSUME NEW what \in {"begun", "cut", "error", "done", "caught"}
      PROVE  /\ Did(fin, what) \in Repairs /\ Did(fin, what).step = "look"
             /\ Did(fin, what).did = what /\ Did(fin, what).seen = fin.seen
             /\ Did(fin, what) # Idle
  <2>1. what \in Deeds BY <1>k
  <2> QED BY <1>0, <2>1, RepairFacts
<1>1. CASE FinTrims
  <2>1. /\ fin.step = "trim" /\ fin' = Did(fin, "begun")
        /\ IF repairTo = NoRepair THEN UNCHANGED <<timeline, torn>> ELSE CutTo(repairTo)
        /\ UNCHANGED <<meta, job, repairTo, late, rec, blind, faults>>
    BY <1>1 DEF FinTrims
  <2>2. fin # Idle /\ failed BY <2>1, IdleFacts DEF ControlInv
  <2>3. timeline' \in Seq(Kinds) /\ torn' \in BOOLEAN /\ DoneIsLast'
    <3>1. CASE repairTo = NoRepair
      BY <1>0, <2>1, <3>1, KeptFacts DEF Same
    <3>2. CASE repairTo # NoRepair
      <4>1. repairTo \in Nat BY <3>2 DEF TypeOK
      <4> QED BY <1>0, <2>1, <3>2, <4>1, CutTypes
    <3> QED BY <3>1, <3>2
  <2>4. ASSUME ~blind
        PROVE  /\ ~TerminalSeen'
               /\ Same \/ (TerminalSeen /\ Len(timeline') = Len(timeline) - 1)
    <3>1. IF TerminalSeen THEN repairTo = Len(timeline) - 1 ELSE repairTo \in {NoRepair, Len(timeline)}
      BY <2>1, <2>2, <2>4 DEF FailedInv
    <3>2. CASE TerminalSeen
      <4>1. Len(timeline) > 0 BY <1>0, <3>2, LastFacts
      <4>2. repairTo \in 0..Len(timeline) /\ repairTo # NoRepair /\ repairTo < Len(timeline)
            /\ repairTo = Len(timeline) - 1
        BY <1>0, <3>1, <3>2, <4>1 DEF NoRepair
      <4>3. Shorter(repairTo) BY <1>0, <2>1, <4>2, CutFacts
      <4> QED BY <3>2, <4>2, <4>3 DEF Shorter
    <3>3. CASE ~TerminalSeen
      <4>1. Same
        <5>1. CASE repairTo = NoRepair
          BY <2>1, <5>1, KeptFacts
        <5>2. CASE repairTo = Len(timeline)
          <6>1. repairTo \in 0..Len(timeline) /\ repairTo # NoRepair BY <1>0, <5>2 DEF NoRepair
          <6>2. Shorter(repairTo) BY <1>0, <2>1, <6>1, CutFacts
          <6> QED BY <5>2, <6>2 DEF Shorter
        <5> QED BY <3>1, <3>3, <5>1, <5>2
      <4> QED BY <3>3, <4>1 DEF Same
    <3> QED BY <3>2, <3>3
  <2>5. ~blind => FinInv'
    <3>1. ~blind => meta.status = "running" BY <2>2 DEF FinInv
    <3> QED BY <2>1, <2>4, <3>1, <1>d DEF FinInv
  <2>6. fin' \in Repairs /\ fin'.step \notin {"none", "uncommit", "trim"} BY <2>1, <1>d
  <2>7. blind' = blind /\ faults' = faults BY <2>1
  <2>8. UNCHANGED <<meta, job, repairTo, late, rec>> BY <2>1
  <2> QED BY <1>0, <2>2, <2>3, <2>4, <2>5, <2>6, <2>7, <2>8, FinStep
<1>2. CASE FinLooks
  <2> DEFINE q == [fin EXCEPT !.seen = Scan]
  <2>1. /\ fin.step = "look" /\ fin' = FinNext(q)
        /\ UNCHANGED <<timeline, torn, meta, job, repairTo, late, rec, blind, faults>>
    BY <1>2 DEF FinLooks, disk
  <2>2. fin # Idle BY <2>1, IdleFacts
  <2>3. /\ q \in Repairs /\ q.did = fin.did /\ q.seen.lines = timeline /\ q.seen.sound = ~torn
        /\ Ended(q) <=> TerminalSeen
    BY <1>0, ScanFacts
  <2> HIDE DEF q
  <2>4. /\ fin' \in Repairs /\ fin'.seen = q.seen /\ fin' # Idle
        /\ fin'.step \in {"look", "cut", "error", "done", "meta"}
        /\ fin'.step = "cut" => torn
        /\ fin'.step \in {"error", "done"} => ~TerminalSeen
        /\ fin'.step = "done" => fin.did = "error"
        /\ fin'.step = "look" /\ fin'.did = "error" => LastEvent = "error"
    BY <2>1, <2>3, FinNextFacts DEF LastEvent
  <2>5. Same /\ torn' = torn BY <2>1, KeptFacts
  <2>6. Ended(fin)' = TerminalSeen /\ fin'.seen.lines = timeline
    BY <2>3, <2>4 DEF Ended, TerminalSeen
  <2>7. ~blind => FinInv'
    <3>1. ASSUME ~blind
          PROVE  /\ meta.status = "running" /\ (TerminalSeen => Erred)
                 /\ fin.did = "error" => torn \/ Erred
      BY <2>1, <2>2, <3>1 DEF FinInv
    <3>2. LastEvent = "error" => Erred BY <1>0, LastFacts
    <3>3. meta' = meta BY <2>1
    <3>4. timeline' = timeline /\ TerminalSeen' = TerminalSeen /\ Erred' = Erred /\ torn' = torn
          /\ Len(fin'.seen.lines) <= Len(timeline')
      BY <1>0, <2>5, <2>6 DEF Same
    <3> HIDE DEF IInv
    <3> QED BY <2>4, <2>6, <3>1, <3>2, <3>3, <3>4 DEF FinInv
  <2>8. blind' = blind /\ faults' = faults /\ UNCHANGED <<meta, job, repairTo, late, rec>> BY <2>1
  <2> QED BY <1>0, <2>1, <2>2, <2>4, <2>5, <2>7, <2>8, FinStep DEF Same
<1>3. CASE FinCuts
  <2>1. /\ fin.step = "cut" /\ fin' = Did(fin, "cut") /\ CutTo(Len(fin.seen.lines))
        /\ UNCHANGED <<meta, job, repairTo, late, rec, blind, faults>>
    BY <1>3 DEF FinCuts
  <2>2. fin # Idle BY <2>1, IdleFacts
  <2>3. timeline' \in Seq(Kinds) /\ torn' \in BOOLEAN /\ DoneIsLast' BY <1>0, <2>1, CutTypes
  <2>4. ASSUME ~blind PROVE Same /\ FinInv'
    <3>1. fin.seen.lines = timeline /\ meta.status = "running" /\ (TerminalSeen => Erred)
      BY <2>1, <2>2, <2>4 DEF FinInv
    <3>2. Len(timeline) \in 0..Len(timeline) BY <1>0
    <3>3. Shorter(Len(timeline)) BY <1>0, <2>1, <3>1, <3>2, CutFacts
    <3>4. Same BY <3>3 DEF Shorter
    <3> QED BY <2>1, <3>1, <3>4, <1>d DEF FinInv, Same
  <2>5. fin' \in Repairs /\ fin'.step \notin {"none", "uncommit", "trim"} BY <2>1, <1>d
  <2>6. blind' = blind /\ faults' = faults /\ UNCHANGED <<meta, job, repairTo, late, rec>> BY <2>1
  <2> QED BY <1>0, <2>2, <2>3, <2>4, <2>5, <2>6, FinStep
<1>4. ASSUME fin.step \in {"error", "done"}, ~blind, Knows(fin), torn' \in BOOLEAN,
             Same \/ Longer(fin.step)
      PROVE  /\ ~Ended(fin) /\ meta.status = "running" /\ ~torn
             /\ TerminalSeen' => Erred'
  <2>1. fin # Idle BY <1>4, IdleFacts
  <2>2. /\ ~Ended(fin) /\ meta.status = "running" /\ ~torn
        /\ fin.step = "done" => Erred
        /\ TerminalSeen => Erred
    BY <1>4, <2>1 DEF FinInv, Knows
  <2>3. CASE Same BY <2>2, <2>3 DEF Same
  <2>4. CASE Longer(fin.step) BY <1>4, <2>2, <2>4 DEF Longer
  <2> QED BY <1>4, <2>2, <2>3, <2>4
<1>5. CASE FinWrites
  <2>1. /\ fin.step \in {"error", "done"}
        /\ Clean(fin) \/ Retried(fin) \/ Smeared(fin)
        /\ blind' = (blind \/ ~Knows(fin)) /\ fin' = Did(fin, fin.step)
        /\ UNCHANGED <<meta, job, repairTo, late, rec>>
    BY <1>5 DEF FinWrites
  <2>2. fin # Idle BY <2>1, IdleFacts
  <2>3. /\ timeline' \in Seq(Kinds) /\ torn' \in BOOLEAN /\ DoneIsLast'
        /\ Same \/ Longer(fin.step)
    BY <1>0, <2>1, RepairWrites
  <2>4. faults' \in 0..MaxFaults
    BY <1>0, <2>1 DEF Clean, Retried, Smeared, Fault
  <2>5. /\ fin' \in Repairs /\ fin'.step = "look" /\ fin'.did = fin.step /\ fin' # Idle
    BY <2>1, <1>d
  <2>6. blind' \in BOOLEAN /\ (blind => blind') /\ (~blind' => ~blind /\ Knows(fin))
    BY <1>0, <2>1
  <2>7. ASSUME ~blind' PROVE (Same \/ \E kind \in Kinds : Longer(kind)) /\ FinInv'
    <3>1. /\ ~Ended(fin) /\ meta.status = "running" /\ ~torn
          /\ TerminalSeen' => Erred'
      BY <1>4, <2>1, <2>3, <2>6, <2>7
    <3>2. fin.step = "error" => torn' \/ Erred'
      <4>1. CASE Smeared(fin) BY <4>1 DEF Smeared, Smears
      <4>2. CASE Clean(fin) \/ Retried(fin)
        <5>1. Longer(fin.step) BY <1>0, <2>1, <2>6, <2>7, <3>1, <4>2, KnowsFacts
        <5> QED BY <5>1 DEF Longer
      <4> QED BY <2>1, <4>1, <4>2
    <3>3. fin.step \in Kinds BY <2>1 DEF Kinds
    <3> QED BY <2>1, <2>3, <2>5, <3>1, <3>2, <3>3 DEF FinInv
  <2>8. UNCHANGED <<meta, job, repairTo, late, rec>> BY <2>1
  <2> QED BY <2>2, <2>3, <2>4, <2>5, <2>6, <2>7, <2>8, FinStep
<1>6. CASE FinFails
  <2>1. /\ fin # Idle /\ Fault
        /\ IF fin.step \in {"error", "done"}
           THEN Lost(fin) /\ blind' = (blind \/ ~Knows(fin))
           ELSE UNCHANGED <<timeline, torn, blind>>
        /\ fin' = IF FinAppends THEN Did(fin, "caught") ELSE Idle
        /\ UNCHANGED <<meta, job, repairTo, late, rec>>
    BY <1>6 DEF FinFails
  <2>2. faults' \in 0..MaxFaults BY <1>0, <2>1 DEF Fault
  <2>3. /\ fin' \in Repairs
        /\ fin' = Idle \/ (fin'.step = "look" /\ fin'.did = "caught" /\ FinAppends)
    BY <2>1, <1>d, IdleFacts
  <2>4. CASE fin.step \in {"error", "done"}
    <3>1. /\ timeline' \in Seq(Kinds) /\ torn' \in BOOLEAN /\ DoneIsLast'
          /\ Same \/ Longer(fin.step)
      BY <1>0, <2>1, <2>4, RepairWrites
    <3>2. blind' \in BOOLEAN /\ (blind => blind') /\ (~blind' => ~blind /\ Knows(fin))
      BY <1>0, <2>1, <2>4
    <3>3. ASSUME ~blind' PROVE FinInv'
      <4>1. meta.status = "running" /\ (TerminalSeen' => Erred')
        BY <1>4, <2>4, <3>1, <3>2, <3>3
      <4> QED BY <2>1, <2>3, <4>1 DEF FinInv
    <3>4. fin.step \in Kinds BY <2>4 DEF Kinds
    <3>5. Same \/ \E kind \in Kinds : Longer(kind) BY <3>1, <3>4
    <3>6. UNCHANGED <<meta, job, repairTo, late, rec>> BY <2>1
    <3> QED BY <2>1, <2>2, <2>3, <3>1, <3>2, <3>3, <3>5, <3>6, FinStep
  <2>5. CASE fin.step \notin {"error", "done"}
    <3>1. UNCHANGED <<timeline, torn, blind>> BY <2>1, <2>5
    <3>2. Same BY <3>1, KeptFacts
    <3>3. ASSUME ~blind PROVE FinInv'
      <4>1. meta.status = "running" /\ (FinAppends /\ TerminalSeen => Erred)
        BY <2>1, <3>3 DEF FinInv, FinAppends
      <4> QED BY <2>1, <2>3, <3>2, <4>1 DEF FinInv, Same
    <3>6. UNCHANGED <<meta, job, repairTo, late, rec>> BY <2>1
    <3> QED BY <1>0, <2>1, <2>2, <2>3, <3>1, <3>2, <3>3, <3>6, FinStep DEF Same
  <2> QED BY <2>4, <2>5
<1> QED BY <1>1, <1>2, <1>3, <1>5, <1>6

LEMMA FinWritesMetaStep == ASSUME IInv, FinWritesMeta PROVE IInv'
<1> USE DEF IInv
<1>1. /\ fin.step = "meta" /\ flush = NoFlush /\ fin' = Idle
      /\ meta' = [status |-> "failed", lastSequence |-> Len(fin.seen.lines), unfinished |-> ~Ended(fin)]
      /\ UNCHANGED <<timeline, torn, live, queue, emitted, erred, flush, ending, failed, told,
                     repairTo, late, rec, blind, faults>>
  BY DEF FinWritesMeta, job
<1>2. /\ fin # Idle /\ timeline \in Seq(Kinds) /\ Len(timeline) \in Nat
      /\ Len(fin.seen.lines) \in Nat /\ Ended(fin) \in BOOLEAN
  BY <1>1, IdleFacts DEF TypeOK, Repairs, Ended, Has
<1>3. /\ meta'.status = "failed" /\ meta'.lastSequence = Len(fin.seen.lines)
      /\ meta'.unfinished = ~Ended(fin) /\ meta' \in Metadata
      /\ Settled(meta') <=> Ended(fin)
  BY <1>1, <1>2 DEF Metadata, Settled
<1>4. /\ failed /\ ~live /\ ending = "done" /\ told = "failed"
      /\ rec # Idle => ~rec.alone
      /\ ~blind => rec = Idle
  BY <1>2 DEF ControlInv
<1>5. Same BY <1>1, KeptFacts
<1>6. TypeOK' BY <1>1, <1>3, IdleFacts DEF TypeOK
<1>7. ControlInv' BY <1>1, <1>4 DEF ControlInv
<1>8. LiveInv' /\ FailedInv' /\ FinInv' /\ RecInv' /\ AnnouncedResultStands'
  BY <1>1, <1>3, <1>4, IdleFacts DEF LiveInv, FailedInv, FinInv, RecInv, AnnouncedResultStands
<1>9. ASSUME ~blind PROVE MetaInv' /\ SettledInv'
  <2>1. /\ TerminalSeen => Erred
        /\ Len(fin.seen.lines) <= Len(timeline)
        /\ IF Ended(fin) THEN fin.seen.lines = timeline ELSE ~TerminalSeen
    BY <1>1, <1>2, <1>9 DEF FinInv
  <2>2. MetaInv' BY <1>1, <1>3, <1>5, <2>1 DEF Same, MetaInv, Settled
  <2>3. ASSUME Ended(fin)
        PROVE /\ LastOf(timeline) = "done" /\ Len(timeline) = Len(fin.seen.lines)
              /\ Has(timeline, "error")
    <3>1. TerminalSeen /\ fin.seen.lines = timeline BY <2>1, <2>3 DEF Ended, TerminalSeen
    <3> QED BY <1>2, <2>1, <3>1, LastFacts DEF LastEvent, Erred
  <2>4. SettledInv' BY <1>1, <1>3, <2>3 DEF SettledInv, TerminalMatches
  <2> QED BY <2>2, <2>4
<1>10. blind => MetaInv' /\ SettledInv' BY <1>1 DEF MetaInv, SettledInv
<1> QED BY <1>5, <1>6, <1>7, <1>8, <1>9, <1>10 DEF Same

\* A step of the reconciliation that leaves the metadata alone.
LEMMA RecStep ==
  ASSUME IInv, ~live, UNCHANGED <<meta, job, repairTo, late, fin>>,
         rec' \in Repairs, rec' # Idle => rec'.step \notin {"none", "trim"} /\ rec'.did # "caught",
         rec' # Idle /\ rec'.alone => fin = Idle /\ late = NoLate,
         rec' # Idle /\ ~blind' => rec'.alone,
         timeline' \in Seq(Kinds), torn' \in BOOLEAN, DoneIsLast',
         blind' \in BOOLEAN, blind => blind', faults' \in 0..MaxFaults,
         ~blind' => /\ fin = Idle /\ late = NoLate
                    /\ \/ Same
                       \/ ~Settled(meta) /\ \E kind \in Kinds : Longer(kind)
                       \/ /\ ~Settled(meta)
                          /\ TerminalSeen /\ Len(timeline') = Len(timeline) - 1 /\ ~TerminalSeen'
                    /\ meta.status = "completed" =>
                         ~torn' /\ (rec' = Idle \/ (rec'.step = "look" /\ rec'.did = "begun")),
         RecInv'
  PROVE  IInv'
<1> USE DEF IInv
<1>1. UNCHANGED <<live, queue, emitted, erred, flush, ending, failed, told>> BY DEF job
<1>2. /\ meta.lastSequence \in Nat /\ Len(timeline) \in Nat /\ (flush # NoFlush => flush \in Nat)
  BY DEF TypeOK, Metadata
<1>3. TypeOK' BY <1>1 DEF TypeOK
<1>4. ControlInv' BY <1>1 DEF ControlInv
<1>5. LiveInv' /\ AnnouncedResultStands' BY <1>1 DEF LiveInv, AnnouncedResultStands
<1>6. ASSUME ~blind' PROVE FailedInv' /\ FinInv' /\ MetaInv' /\ SettledInv'
  <2>1. fin' = Idle /\ ~blind /\ meta' = meta /\ late' = NoLate BY <1>6
  <2>2. FailedInv' /\ FinInv' BY <2>1, <1>1, IdleFacts DEF FailedInv, FinInv
  <2>3. /\ meta.lastSequence <= Len(timeline)
        /\ ~Settled(meta) /\ TerminalSeen => meta.lastSequence < Len(timeline)
        /\ meta.status = "completed" => Settled(meta) /\ ~meta.unfinished /\ Len(timeline) = emitted
        /\ flush # NoFlush => /\ flush <= Len(timeline) /\ meta.status = "running"
                              /\ TerminalSeen => flush < Len(timeline)
    BY <2>1 DEF MetaInv, Settled, ControlInv
  <2>4. CASE Same
    <3>1. MetaInv' BY <1>1, <2>1, <2>3, <2>4 DEF Same, MetaInv
    <3>2. SettledInv' BY <1>1, <1>6, <2>1, <2>4 DEF Same, SettledInv, TerminalMatches
    <3> QED BY <2>2, <3>1, <3>2
  <2>5. CASE ~Settled(meta) /\ \E kind \in Kinds : Longer(kind)
    <3>1. Len(timeline') = Len(timeline) + 1 BY <2>5 DEF Longer
    <3>2. MetaInv' BY <1>1, <1>2, <2>1, <2>3, <2>5, <3>1 DEF MetaInv
    <3>3. SettledInv' BY <2>1, <2>5 DEF SettledInv
    <3> QED BY <2>2, <3>2, <3>3
  <2>6. CASE ~Settled(meta) /\ TerminalSeen /\ Len(timeline') = Len(timeline) - 1 /\ ~TerminalSeen'
    <3>2. MetaInv' BY <1>1, <1>2, <2>1, <2>3, <2>6 DEF MetaInv
    <3>3. SettledInv' BY <2>1, <2>6 DEF SettledInv
    <3> QED BY <2>2, <3>2, <3>3
  <2> QED BY <1>6, <2>4, <2>5, <2>6
<1>7. blind' => FailedInv' /\ FinInv' /\ MetaInv' /\ SettledInv'
  BY DEF FailedInv, FinInv, MetaInv, SettledInv
<1> QED BY <1>3, <1>4, <1>5, <1>6, <1>7

\* Where a reconciliation goes on after a scan.
LEMMA RecNextFacts ==
  ASSUME NEW p \in Repairs, p.did # "caught"
  PROVE  /\ RecNext(p) \in Repairs
         /\ p.did = "begun" /\ Settled(p.read) /\ Consistent(p.read, p.seen) => RecNext(p) = Idle
         /\ RecNext(p) # Idle =>
              /\ RecNext(p).seen = p.seen /\ RecNext(p).read = p.read
              /\ RecNext(p).alone = p.alone /\ RecNext(p).did = p.did
              /\ RecNext(p).step \in {"cut", "uncommit", "error", "done", "meta"}
              /\ RecNext(p).step # "cut" => p.did # "begun" \/ p.seen.sound
              /\ RecNext(p).step = "uncommit" => Ended(p) /\ ~Has(p.seen.lines, "error")
              /\ RecNext(p).step \in {"error", "done"} => p.did = "error" \/ ~Ended(p)
              /\ RecNext(p).step = "error" => p.did # "error"
              /\ RecNext(p).step = "done" => p.did = "error" \/ LastOf(p.seen.lines) = "error"
              /\ RecNext(p).step = "meta" => \/ p.did = "done"
                                             \/ p.did = "uncommit" /\ Ended(p)
                                             \/ Ended(p) /\ Has(p.seen.lines, "error")
<1>1. {"cut", "uncommit", "error", "done", "meta"} \subseteq Steps
  BY DEF Steps
<1>2. ASSUME NEW step \in {"cut", "uncommit", "error", "done", "meta"}
      PROVE  /\ At(p, step) \in Repairs /\ At(p, step).step = step /\ At(p, step).seen = p.seen
             /\ At(p, step).read = p.read /\ At(p, step).alone = p.alone
             /\ At(p, step).did = p.did /\ At(p, step) # Idle
  <2>1. step \in Steps /\ step # "none" BY <1>1
  <2>2. /\ At(p, step) \in Repairs /\ At(p, step).step = step /\ At(p, step).seen = p.seen
        /\ At(p, step).read = p.read /\ At(p, step).alone = p.alone /\ At(p, step).did = p.did
    BY <2>1, RepairFacts
  <2> QED BY <2>1, <2>2, IdleFacts
<1>3. p.did \in {"begun", "cut", "uncommit", "error", "done"} BY DEF Repairs
<1> DEFINE Alone == p.did = "begun" /\ Settled(p.read) /\ Consistent(p.read, p.seen)
           Cut == p.did = "begun" /\ ~p.seen.sound
           Uncommit == p.did \in {"begun", "cut"} /\ Ended(p) /\ ~Has(p.seen.lines, "error")
<1>4. CASE Alone
  <2>1. RecNext(p) = Idle BY <1>4 DEF RecNext
  <2> QED BY <2>1, IdleFacts
<1>5. CASE ~Alone /\ Cut
  <2>1. RecNext(p) = At(p, "cut") BY <1>5 DEF RecNext
  <2> QED BY <1>2, <1>5, <2>1
<1>6. CASE ~Alone /\ ~Cut /\ Uncommit
  <2>1. RecNext(p) = At(p, "uncommit") BY <1>6 DEF RecNext
  <2> QED BY <1>2, <1>6, <2>1
<1>7. CASE p.did = "error"
  <2>1. RecNext(p) = At(p, "done") BY <1>7 DEF RecNext
  <2> QED BY <1>2, <1>7, <2>1
<1>8. CASE p.did = "done"
  <2>1. RecNext(p) = At(p, "meta") BY <1>8 DEF RecNext
  <2> QED BY <1>2, <1>8, <2>1
<1>9. CASE ~Alone /\ ~Cut /\ ~Uncommit /\ p.did \notin {"error", "done"}
  <2>1. RecNext(p) = IF Ended(p) THEN At(p, "meta")
                     ELSE IF LastOf(p.seen.lines) = "error" THEN At(p, "done") ELSE At(p, "error")
    BY <1>9 DEF RecNext
  <2>2. ~Alone BY <1>9
  <2>3. Ended(p) => p.did = "uncommit" \/ Has(p.seen.lines, "error") BY <1>3, <1>9
  <2>4. p.did # "begun" \/ p.seen.sound BY <1>9
  <2> HIDE DEF Alone, Cut, Uncommit
  <2> QED BY <1>2, <1>9, <2>1, <2>2, <2>3, <2>4 DEF Alone
<1> QED BY <1>4, <1>5, <1>6, <1>7, <1>8, <1>9

\* The reconciliation begins, ...
LEMMA BeginsStep == ASSUME IInv, ReconcileBegins PROVE IInv'
<1> USE DEF IInv
<1> DEFINE d == Did(rec, "begun")
<1>1. /\ ~live /\ rec = Idle /\ rec' = [d EXCEPT !.read = meta, !.alone = ~OthersAtWork]
      /\ blind' = (blind \/ OthersAtWork)
      /\ UNCHANGED <<timeline, torn, meta, job, repairTo, late, fin, faults>>
  BY DEF ReconcileBegins, disk
<1>2. /\ timeline \in Seq(Kinds) /\ torn \in BOOLEAN /\ blind \in BOOLEAN
      /\ faults \in 0..MaxFaults /\ meta \in Metadata /\ OthersAtWork \in BOOLEAN
  BY DEF TypeOK, OthersAtWork
<1>3. d \in Repairs /\ d.step = "look" /\ d.did = "begun"
  <2>1. "begun" \in Deeds BY DEF Deeds
  <2> QED BY <1>1, <2>1, RepairFacts, IdleFacts
<1> HIDE DEF d
<1>4. /\ rec' \in Repairs /\ rec'.step = "look" /\ rec'.did = "begun" /\ rec'.read = meta
      /\ rec'.alone = ~OthersAtWork
  BY <1>1, <1>2, <1>3 DEF Repairs
<1>5. Same BY <1>1, KeptFacts
<1>6. RecInv' BY <1>1, <1>4 DEF RecInv
<1>7. ASSUME ~blind', meta.status = "completed" PROVE ~torn'
  <2>1. ~blind /\ Settled(meta) BY <1>1, <1>7 DEF MetaInv, Settled
  <2> QED BY <1>1, <1>7, <2>1 DEF SettledInv
<1>8. blind' \in BOOLEAN /\ (blind => blind') /\ (~blind' => ~OthersAtWork) BY <1>1, <1>2
<1>9. ~OthersAtWork => fin = Idle /\ late = NoLate BY DEF OthersAtWork
<1>10. UNCHANGED <<meta, job, repairTo, late, fin>> /\ faults' \in 0..MaxFaults /\ torn' \in BOOLEAN
  BY <1>1, <1>2
<1>11. timeline' \in Seq(Kinds) /\ DoneIsLast' BY <1>1, <1>2, <1>5 DEF Same
<1> HIDE DEF IInv
<1> QED BY <1>1, <1>4, <1>5, <1>6, <1>7, <1>8, <1>9, <1>10, <1>11, RecStep

\* ... and goes on.
LEMMA ReconcileStep ==
  ASSUME IInv, RecLooks \/ RecCuts \/ RecWrites \/ RecFails
  PROVE  IInv'
<1> USE BoundsAssumption DEF IInv
<1>0. /\ timeline \in Seq(Kinds) /\ Len(timeline) \in Nat /\ torn \in BOOLEAN
      /\ rec \in Repairs /\ Len(rec.seen.lines) \in Nat
      /\ blind \in BOOLEAN /\ faults \in 0..MaxFaults
  BY DEF TypeOK, Repairs
<1>d. ASSUME NEW what \in {"cut", "uncommit", "error", "done"}
      PROVE  /\ Did(rec, what) \in Repairs /\ Did(rec, what).step = "look"
             /\ Did(rec, what).did = what /\ Did(rec, what).seen = rec.seen
             /\ Did(rec, what).read = rec.read /\ Did(rec, what).alone = rec.alone
             /\ Did(rec, what) # Idle
  <2>1. what \in Deeds BY DEF Deeds
  <2> QED BY <1>0, <2>1, RepairFacts
<1>1. rec # Idle
  BY IdleFacts DEF RecLooks, RecCuts, RecWrites, RecFails
<1>2. /\ ~live /\ rec.step \notin {"none", "trim"} /\ rec.did # "caught"
      /\ rec.alone => fin = Idle /\ late = NoLate
      /\ ~blind => rec.alone /\ fin = Idle /\ late = NoLate
  BY <1>1 DEF ControlInv
\* The terminal record is not touched any more.
<1>3. ASSUME ~blind, Settled(meta)
      PROVE  /\ TerminalSeen
             /\ meta.status # "completed" => Erred
             /\ meta.status = "completed" => rec.step = "look" /\ rec.did = "begun" /\ ~torn
  <2>1. TerminalMatches BY <1>3 DEF SettledInv
  <2>2. /\ LastEvent = "done"
        /\ meta.status # "completed" => Erred
    BY <1>3, <2>1 DEF TerminalMatches, LastEvent, Erred
  <2> QED BY <1>0, <1>1, <1>3, <2>2, LastFacts DEF SettledInv
<1>4. ~blind /\ meta.status = "completed" => Settled(meta) BY DEF MetaInv, Settled
<1>5. CASE RecLooks
  <2> DEFINE q == [rec EXCEPT !.seen = Scan]
  <2>1. /\ rec.step = "look" /\ rec' = RecNext(q)
        /\ UNCHANGED <<timeline, torn, meta, job, repairTo, late, fin, blind, faults>>
    BY <1>5 DEF RecLooks, disk
  <2>2. /\ q \in Repairs /\ q.did = rec.did /\ q.read = rec.read /\ q.alone = rec.alone
        /\ q.seen.lines = timeline /\ q.seen.sound = ~torn /\ q.seen = Scan
        /\ Ended(q) <=> TerminalSeen
    BY <1>0, ScanFacts DEF Repairs
  <2> HIDE DEF q
  <2>3. /\ rec' \in Repairs
        /\ rec.did = "begun" /\ Settled(rec.read) /\ Consistent(rec.read, Scan) => rec' = Idle
        /\ rec' # Idle =>
             /\ rec'.seen.lines = timeline /\ rec'.read = rec.read
             /\ rec'.alone = rec.alone /\ rec'.did = rec.did
             /\ rec'.step \in {"cut", "uncommit", "error", "done", "meta"}
             /\ rec'.step # "cut" => rec.did # "begun" \/ ~torn
             /\ rec'.step = "uncommit" => TerminalSeen /\ ~Erred
             /\ rec'.step \in {"error", "done"} => rec.did = "error" \/ ~TerminalSeen
             /\ rec'.step = "error" => rec.did # "error"
             /\ rec'.step = "done" => rec.did = "error" \/ LastEvent = "error"
             /\ rec'.step = "meta" => \/ rec.did = "done"
                                      \/ rec.did = "uncommit" /\ TerminalSeen
                                      \/ TerminalSeen /\ Erred
    BY <1>2, <2>1, <2>2, RecNextFacts DEF LastEvent, Erred
  <2>4. Same /\ torn' = torn BY <2>1, KeptFacts
  <2>5. RecInv'
    <3>1. ASSUME rec' # Idle, rec.alone
          PROVE  /\ Settled(meta) => rec'.read = meta
                 /\ rec'.step # "look" /\ rec'.seen.lines = timeline
                 /\ rec'.step \in {"uncommit", "error", "done", "meta"} => ~torn
                 /\ rec'.step \in {"uncommit", "meta"} => TerminalSeen
                 /\ rec'.step = "uncommit" => ~Erred
                 /\ rec'.step \in {"error", "done"} => ~TerminalSeen
                 /\ rec'.step = "done" => LastEvent = "error"
                 /\ rec'.step = "meta" => Erred
      <4>1. /\ Settled(meta) => rec.read = meta
            /\ rec.did # "begun" => ~torn
            /\ rec.did \in {"uncommit", "error"} => ~TerminalSeen
            /\ rec.did = "error" => LastEvent = "error"
            /\ rec.did = "done" => TerminalSeen /\ Erred
        BY <1>1, <2>1, <3>1 DEF RecInv
      <4> HIDE DEF IInv
      <4> QED BY <2>3, <3>1, <4>1
    <3>2. meta' = meta /\ rec'.alone \in BOOLEAN BY <2>1, <2>3 DEF Repairs
    <3>3. rec' # Idle /\ rec'.alone => rec.alone BY <2>3
    <3> HIDE DEF IInv
    <3> QED BY <2>4, <3>1, <3>2, <3>3 DEF RecInv, Same
  <2>6. ASSUME ~blind, meta.status = "completed" PROVE ~torn' /\ rec' = Idle
    <3>1. /\ Settled(meta) /\ rec.did = "begun" /\ ~torn /\ rec.read = meta /\ TerminalMatches
      BY <1>1, <1>2, <1>3, <1>4, <2>6 DEF RecInv, SettledInv
    <3>2. Consistent(meta, Scan) BY <3>1 DEF Consistent, Scan, TerminalMatches
    <3> QED BY <2>3, <2>4, <3>1, <3>2
  <2>7. /\ UNCHANGED <<meta, job, repairTo, late, fin>> /\ blind' = blind /\ faults' = faults
    BY <2>1
  <2>8. rec' # Idle => /\ rec'.step \notin {"none", "trim"} /\ rec'.did # "caught"
                       /\ rec'.alone = rec.alone
    BY <1>2, <2>3
  <2>9. timeline' \in Seq(Kinds) /\ DoneIsLast' BY <1>0, <2>1, <2>4 DEF Same
  <2> QED BY <1>0, <1>2, <2>3, <2>4, <2>5, <2>6, <2>7, <2>8, <2>9, RecStep
<1>6. CASE RecCuts
  <2>1. /\ rec.step \in {"cut", "uncommit"} /\ rec' = Did(rec, rec.step)
        /\ CutTo(IF rec.step = "cut" THEN Len(rec.seen.lines) ELSE Len(rec.seen.lines) - 1)
        /\ UNCHANGED <<meta, job, repairTo, late, fin, blind, faults>>
    BY <1>6 DEF RecCuts
  <2>2. /\ rec' \in Repairs /\ rec'.step = "look" /\ rec'.did = rec.step /\ rec'.read = rec.read
        /\ rec'.alone = rec.alone /\ rec' # Idle
    BY <2>1, <1>d
  <2>3. ASSUME rec.alone, rec.step = "cut" PROVE Same /\ ~torn'
    <3>1. rec.seen.lines = timeline BY <1>1, <2>3 DEF RecInv
    <3>2. Len(timeline) \in 0..Len(timeline) /\ CutTo(Len(timeline)) BY <1>0, <2>1, <2>3, <3>1
    <3> QED BY <1>0, <3>2, CutFacts DEF Shorter
  <2>4. ASSUME rec.alone, rec.step = "uncommit"
        PROVE  /\ TerminalSeen /\ ~Erred /\ Len(timeline') = Len(timeline) - 1
               /\ ~TerminalSeen' /\ ~torn' /\ timeline' \in Seq(Kinds) /\ DoneIsLast'
    <3>1. rec.seen.lines = timeline /\ TerminalSeen /\ ~Erred BY <1>1, <2>4 DEF RecInv
    <3>2. Len(timeline) > 0 BY <1>0, <3>1, LastFacts
    <3> DEFINE l == Len(timeline) - 1
    <3>3. l \in 0..Len(timeline) /\ CutTo(l) /\ l < Len(timeline) BY <1>0, <2>1, <2>4, <3>1, <3>2
    <3> HIDE DEF l
    <3>4. torn' = FALSE /\ Shorter(l) BY <1>0, <3>3, CutFacts
    <3>5. Len(timeline') = l /\ ~TerminalSeen' /\ timeline' \in Seq(Kinds) /\ DoneIsLast'
      BY <3>3, <3>4 DEF Shorter
    <3> QED BY <3>1, <3>4, <3>5 DEF l
  <2>5. timeline' \in Seq(Kinds) /\ torn' \in BOOLEAN /\ DoneIsLast'
    <3>2. CASE rec.step = "cut" BY <1>0, <2>1, <3>2, CutTypes
    <3>3. CASE rec.step = "uncommit" /\ Len(rec.seen.lines) > 0
      <4> DEFINE l == Len(rec.seen.lines) - 1
      <4>1. l \in Nat /\ CutTo(l) BY <1>0, <2>1, <3>3
      <4> HIDE DEF l
      <4> QED BY <1>0, <4>1, CutTypes
    <3>4. CASE rec.step = "uncommit" /\ ~(Len(rec.seen.lines) > 0)
      <4>1. CutTo(Len(rec.seen.lines) - 1) BY <2>1, <3>4
      <4>2. CutTo(-1) BY <1>0, <3>4, <4>1
      <4>3. -1 <= Len(timeline) BY <1>0
      <4>4. timeline' = Truncated(-1) /\ torn' = FALSE BY <4>2, <4>3 DEF CutTo
      <4>5. SubSeq(timeline, 1, -1) = <<>>
        <5>1. 1 \in Int /\ -1 \in Int /\ -1 < 1 OBVIOUS
        <5> QED BY <1>0, <5>1, SubSeqEmpty
      <4>6. timeline' = <<>> BY <4>4, <4>5 DEF Truncated
      <4>7. <<>> \in Seq(Kinds) /\ Len(<<>>) = 0 OBVIOUS
      <4>8. timeline' \in Seq(Kinds) /\ Len(timeline') = 0 BY ONLY <4>6, <4>7
      <4>9. 1..0 = {} OBVIOUS
      <4>10. torn' = FALSE BY <4>4
      <4>11. DoneIsLast' BY ONLY <4>8, <4>9 DEF DoneIsLast
      <4> QED BY <4>8, <4>10, <4>11
    <3> QED BY <2>1, <3>2, <3>3, <3>4
  <2>6. RecInv'
    <3>1. Settled(meta) /\ rec.alone => rec.read = meta BY <1>1 DEF RecInv
    <3>2. meta' = meta BY <2>1
    <3> QED BY <2>1, <2>2, <2>3, <2>4, <3>1, <3>2 DEF RecInv
  <2>7. ASSUME ~blind
        PROVE  /\ \/ Same
                  \/ /\ ~Settled(meta)
                     /\ TerminalSeen /\ Len(timeline') = Len(timeline) - 1 /\ ~TerminalSeen'
               /\ meta.status # "completed"
    BY <1>2, <1>3, <1>4, <2>1, <2>3, <2>4, <2>7
  <2>8. UNCHANGED <<meta, job, repairTo, late, fin>> /\ blind' = blind /\ faults' = faults
    BY <2>1
  <2>9. rec'.step \notin {"none", "trim"} /\ rec'.did # "caught" BY <2>1, <2>2
  <2> QED BY <1>0, <1>2, <2>2, <2>5, <2>6, <2>7, <2>8, <2>9, RecStep
<1>7. ASSUME ~blind, rec.step \in {"error", "done"}
      PROVE  ~Settled(meta) /\ meta.status # "completed" /\ rec.step \in Kinds
  BY <1>1, <1>2, <1>3, <1>4, <1>7 DEF RecInv, Kinds
<1>8. CASE RecWrites
  <2>1. /\ rec.step \in {"error", "done"}
        /\ Clean(rec) \/ Retried(rec) \/ Smeared(rec)
        /\ UNCHANGED <<meta, job, repairTo, late, fin>>
    BY <1>8 DEF RecWrites
  <2>2. /\ timeline' \in Seq(Kinds) /\ torn' \in BOOLEAN /\ DoneIsLast'
        /\ Same \/ Longer(rec.step)
    BY <1>0, <2>1, RepairWrites
  <2>3. faults' \in 0..MaxFaults
    BY <1>0, <2>1 DEF Clean, Retried, Smeared, Fault
  <2>k. /\ Did(rec, rec.step) \in Repairs /\ Did(rec, rec.step).step = "look"
        /\ Did(rec, rec.step).did = rec.step /\ Did(rec, rec.step).read = rec.read
        /\ Did(rec, rec.step).alone = rec.alone /\ Did(rec, rec.step) # Idle
    BY <2>1, <1>d
  <2>4. CASE (Clean(rec) \/ Retried(rec)) /\ rec' = Did(rec, rec.step) /\ UNCHANGED blind
    <3>1. /\ rec' \in Repairs /\ rec'.step = "look" /\ rec'.did = rec.step /\ rec'.read = rec.read
          /\ rec'.alone = rec.alone /\ rec' # Idle
      BY <2>4, <2>k
    <3>2. ASSUME rec.alone
          PROVE  /\ Longer(rec.step) /\ ~torn' /\ (rec.step = "done" => Erred)
                 /\ Settled(meta) => rec.read = meta
      <4>1. /\ rec.seen.lines = timeline /\ ~torn /\ ~TerminalSeen
            /\ rec.step = "done" => LastEvent = "error"
            /\ Settled(meta) => rec.read = meta
        BY <1>1, <2>1, <3>2 DEF RecInv
      <4>2. Knows(rec) /\ ~Ended(rec) BY <4>1 DEF Knows, Ended, TerminalSeen
      <4>3. Longer(rec.step) /\ ~torn' BY <1>0, <2>1, <2>4, <4>2, KnowsFacts
      <4> QED BY <1>0, <4>1, <4>3, LastFacts
    <3>3. RecInv'
      <4>1. meta' = meta BY <2>1
      <4> QED BY <2>1, <3>1, <3>2, <4>1 DEF RecInv, Longer
    <3>4. rec'.step \notin {"none", "trim"} /\ rec'.did # "caught" BY <2>1, <3>1
    <3>5. ASSUME ~blind
          PROVE  /\ ~Settled(meta) /\ \E kind \in Kinds : Longer(kind)
                 /\ meta.status # "completed"
      BY <1>2, <1>7, <2>1, <3>2, <3>5
    <3>6. blind' = blind BY <2>4
    <3>7. UNCHANGED <<meta, job, repairTo, late, fin>> BY <2>1
    <3> QED BY <1>0, <1>2, <2>2, <2>3, <3>1, <3>3, <3>4, <3>5, <3>6, <3>7, RecStep
  <2>5. CASE Smeared(rec) /\ rec' = [Did(rec, rec.step) EXCEPT !.alone = FALSE] /\ blind' = TRUE
    <3>1. /\ rec' \in Repairs /\ rec'.step = "look" /\ rec'.did = rec.step /\ ~rec'.alone
      BY <2>5, <2>k DEF Repairs
    <3>2. RecInv' BY <3>1 DEF RecInv
    <3>3. rec'.step \notin {"none", "trim"} /\ rec'.did # "caught" BY <2>1, <3>1
    <3>4. UNCHANGED <<meta, job, repairTo, late, fin>> /\ blind' BY <2>1, <2>5
    <3> QED BY <1>2, <2>2, <2>3, <2>5, <3>1, <3>2, <3>3, <3>4, RecStep
  <2> QED BY <1>8, <2>4, <2>5 DEF RecWrites
<1>9. CASE RecFails
  <2>1. /\ Fault /\ rec' = Idle
        /\ IF rec.step \in {"error", "done"} THEN Lost(rec) ELSE UNCHANGED <<timeline, torn>>
        /\ UNCHANGED <<meta, job, repairTo, late, fin, blind>>
    BY <1>9 DEF RecFails
  <2>2. faults' \in 0..MaxFaults BY <1>0, <2>1 DEF Fault
  <2>3. RecInv' BY <2>1 DEF RecInv
  <2>4. UNCHANGED <<meta, job, repairTo, late, fin>> /\ blind' = blind BY <2>1
  <2>5. CASE rec.step \in {"error", "done"}
    <3>1. /\ timeline' \in Seq(Kinds) /\ torn' \in BOOLEAN /\ DoneIsLast'
          /\ Same \/ Longer(rec.step)
      BY <1>0, <2>1, <2>5, RepairWrites
    <3>2. ~blind => /\ Same \/ (~Settled(meta) /\ \E kind \in Kinds : Longer(kind))
                    /\ meta.status # "completed"
      BY <1>7, <2>5, <3>1
    <3> QED BY <1>0, <1>2, <2>1, <2>2, <2>3, <2>4, <3>1, <3>2, IdleFacts, RecStep
  <2>6. CASE rec.step \notin {"error", "done"}
    <3>1. Same /\ torn' = torn BY <2>1, <2>6, KeptFacts
    <3>2. ~blind /\ meta.status = "completed" => ~torn' BY <1>3, <1>4, <3>1
    <3>3. timeline' \in Seq(Kinds) /\ DoneIsLast' BY <1>0, <3>1 DEF Same
    <3> QED BY <1>0, <1>2, <2>1, <2>2, <2>3, <2>4, <3>1, <3>2, <3>3, IdleFacts, RecStep
  <2> QED BY <2>5, <2>6
<1> QED BY <1>5, <1>6, <1>8, <1>9

LEMMA RecWritesMetaStep == ASSUME IInv, RecWritesMeta PROVE IInv'
<1> USE DEF IInv
<1>1. /\ rec.step = "meta" /\ flush = NoFlush /\ rec' = Idle
      /\ meta' = [status |-> "failed", lastSequence |-> Len(rec.seen.lines), unfinished |-> FALSE]
      /\ blind' = (blind /\ ~(rec.alone /\ told # "completed"))
      /\ UNCHANGED <<timeline, torn, live, queue, emitted, erred, flush, ending, failed, told,
                     repairTo, late, fin, faults>>
  BY DEF RecWritesMeta, job
<1>2. /\ rec # Idle /\ timeline \in Seq(Kinds) /\ Len(timeline) \in Nat
      /\ Len(rec.seen.lines) \in Nat /\ blind \in BOOLEAN
  BY <1>1, IdleFacts DEF TypeOK, Repairs
<1>3. /\ meta'.status = "failed" /\ meta'.lastSequence = Len(rec.seen.lines)
      /\ meta'.unfinished = FALSE /\ meta' \in Metadata
  BY <1>1, <1>2 DEF Metadata
<1>4. /\ ~live
      /\ rec.alone => fin = Idle /\ late = NoLate
      /\ ~blind => rec.alone
  BY <1>2 DEF ControlInv
<1>5. rec.alone \in BOOLEAN BY DEF TypeOK, Repairs
<1>6. ~blind' => rec.alone /\ fin = Idle BY <1>1, <1>2, <1>4, <1>5
<1>7. Same BY <1>1, KeptFacts
<1>8. TypeOK' BY <1>1, <1>3, <1>2, IdleFacts DEF TypeOK
<1>9. ControlInv' BY <1>1, <1>4 DEF ControlInv
<1>10. LiveInv' /\ RecInv' BY <1>1, <1>4 DEF LiveInv, RecInv
<1>11. AnnouncedResultStands'
  <2>1. ASSUME told = "completed" PROVE blind
    <3>1. CASE ~blind
      <4>1. meta.status = "completed" BY <2>1, <3>1 DEF AnnouncedResultStands
      <4>2. Settled(meta) BY <3>1, <4>1 DEF MetaInv, Settled
      <4>3. rec = Idle \/ rec.step = "look" BY <3>1, <4>1, <4>2 DEF SettledInv
      <4> QED BY <1>1, <1>2, <4>3
    <3> QED BY <3>1
  <2> QED BY <1>1, <1>3, <2>1 DEF AnnouncedResultStands
<1>12. ASSUME ~blind' PROVE MetaInv' /\ FailedInv' /\ FinInv' /\ SettledInv'
  <2>1. /\ rec.seen.lines = timeline /\ TerminalSeen /\ Erred
    BY <1>1, <1>2, <1>6, <1>12 DEF RecInv
  <2>2. LastEvent = "done" BY <1>2, <2>1, LastFacts
  <2>3. Settled(meta)' /\ meta'.lastSequence = Len(timeline) BY <1>3, <2>1 DEF Settled
  <2>4. MetaInv' BY <1>1, <1>2, <1>3, <2>3 DEF MetaInv
  <2>5. FailedInv' /\ FinInv' BY <1>1, <1>4, <1>6, <1>12, IdleFacts DEF FailedInv, FinInv
  <2>6. SettledInv' BY <1>1, <1>3, <2>1, <2>2, <2>3 DEF SettledInv, TerminalMatches, LastEvent, Erred
  <2> QED BY <2>4, <2>5, <2>6
<1>13. blind' => MetaInv' /\ FailedInv' /\ FinInv' /\ SettledInv'
  BY DEF MetaInv, FailedInv, FinInv, SettledInv
<1> QED BY <1>7, <1>8, <1>9, <1>10, <1>11, <1>12, <1>13 DEF Same

\* The daemon dies.
LEMMA CrashStep == ASSUME IInv, Crash PROVE IInv'
<1> USE BoundsAssumption DEF IInv
<1>1. /\ Fault /\ torn' \in {torn, torn \/ Appending}
      /\ live' = FALSE /\ queue' = <<>> /\ erred' = FALSE /\ flush' = NoFlush /\ ending' = "no"
      /\ failed' = FALSE /\ repairTo' = NoRepair /\ late' = NoLate /\ fin' = Idle /\ rec' = Idle
      /\ UNCHANGED <<timeline, meta, emitted, told, blind>>
  BY DEF Crash
<1>2. torn \in BOOLEAN /\ Appending \in BOOLEAN BY DEF TypeOK, Appending
<1>3. Same BY <1>1, KeptFacts
<1>4. TypeOK'
  <2>1. faults' \in 0..MaxFaults BY <1>1 DEF Fault, TypeOK
  <2>2. NoLate \in [number : Nat, kind : Kinds] /\ <<>> \in Seq(Kinds) BY DEF NoLate, Kinds
  <2> QED BY <1>1, <1>2, <2>1, <2>2, IdleFacts DEF TypeOK
<1>5. ControlInv'
  <2>1. Has(queue, "done")' = FALSE BY <1>1 DEF Has
  <2> QED BY <1>1, <2>1 DEF ControlInv
<1>6. MetaInv' BY <1>1, <1>3 DEF Same, MetaInv
<1>7. LiveInv' /\ FailedInv' /\ FinInv' /\ RecInv' BY <1>1 DEF LiveInv, FailedInv, FinInv, RecInv
<1>8. AnnouncedResultStands' BY <1>1 DEF AnnouncedResultStands
<1>9. SettledInv'
  <2>1. ASSUME Settled(meta), ~blind PROVE TerminalMatches /\ (meta.status = "completed" => ~torn /\ ~Appending)
    <3>1. /\ TerminalMatches
          /\ meta.status = "completed" => /\ ~torn /\ late = NoLate
                                          /\ rec = Idle \/ rec.step = "look"
      BY <2>1 DEF SettledInv
    <3>2. meta.status # "running" BY <2>1 DEF Settled
    <3>3. queue = <<>> BY <3>2 DEF ControlInv
    <3>4. fin = Idle BY <2>1, <3>2 DEF FinInv
    <3> QED BY <3>1, <3>3, <3>4, IdleFacts DEF Appending
  <2>2. TerminalMatches' = TerminalMatches BY <1>1, <1>3 DEF TerminalMatches
  <2>3. ASSUME Settled(meta), ~blind, meta.status = "completed" PROVE ~torn'
    BY <1>1, <1>2, <2>1, <2>3
  <2> QED BY <1>1, <2>1, <2>2, <2>3 DEF SettledInv, Settled
<1> QED BY <1>3, <1>4, <1>5, <1>6, <1>7, <1>8, <1>9 DEF Same

LEMMA InitIInv == Init => IInv
<1> SUFFICES ASSUME Init PROVE IInv OBVIOUS
<1> USE BoundsAssumption DEF Init
<1>1. TypeOK
  <2>1. timeline \in Seq(Kinds) /\ queue \in Seq(Kinds) OBVIOUS
  <2>2. meta \in Metadata BY DEF Metadata, Started
  <2>3. late \in [number : Nat, kind : Kinds] BY DEF NoLate, Kinds
  <2>4. faults \in 0..MaxFaults OBVIOUS
  <2> QED BY <2>1, <2>2, <2>3, <2>4, IdleFacts DEF TypeOK, NoFlush, NoRepair
<1>2. DoneIsLast BY DEF DoneIsLast
<1>3. ~TerminalSeen /\ ~Erred /\ ~Has(queue, "done") /\ ~Has(queue, "error")
  BY DEF TerminalSeen, Erred, Has
<1>4. ControlInv BY <1>3 DEF ControlInv, Started
<1>5. /\ MetaInv /\ LiveInv /\ FailedInv /\ FinInv /\ RecInv /\ SettledInv
      /\ AnnouncedResultStands
  BY <1>3 DEF MetaInv, LiveInv, FailedInv, FinInv, RecInv, SettledInv, AnnouncedResultStands,
    Settled, Started
<1> QED BY <1>1, <1>2, <1>4, <1>5 DEF IInv

\* The invariant is kept by every step ...
LEMMA IInvStep == IInv /\ [Next]_vars => IInv'
<1> SUFFICES ASSUME IInv, [Next]_vars PROVE IInv' OBVIOUS
<1>1. CASE UNCHANGED vars
  <2>1. UNCHANGED <<timeline, torn, meta, live, queue, emitted, erred, flush, ending, failed, told,
                    repairTo, late, fin, rec, blind, faults>>
    BY <1>1 DEF vars, disk, job
  <2>2. Same BY <2>1, KeptFacts DEF IInv
  <2>3. TypeOK' BY <2>1 DEF IInv, TypeOK
  <2>4. ControlInv' BY <2>1 DEF IInv, ControlInv, Has
  <2>5. MetaInv' BY <2>1, <2>2 DEF IInv, MetaInv, Same
  <2>6. LiveInv' BY <2>1, <2>2 DEF IInv, LiveInv, Same, Has
  <2>7. FailedInv' BY <2>1, <2>2 DEF IInv, FailedInv, Same
  <2>8. FinInv' BY <2>1, <2>2 DEF IInv, FinInv, Same, Ended
  <2>9. RecInv' BY <2>1, <2>2 DEF IInv, RecInv, Same
  <2>10. SettledInv' /\ AnnouncedResultStands'
    BY <2>1 DEF IInv, SettledInv, TerminalMatches, AnnouncedResultStands
  <2> QED BY <2>2, <2>3, <2>4, <2>5, <2>6, <2>7, <2>8, <2>9, <2>10 DEF IInv, Same
<1>2. CASE Next
  BY <1>2, JobStep, AppendStep, EmitStep, UnknownStep, LateStep, FinalizeStep, FinWritesMetaStep,
     BeginsStep, ReconcileStep, RecWritesMetaStep, CrashStep
  DEF Next, Job, Finalize, Reconcile, Faulty, Sweeps, StreamOpens
<1> QED BY <1>1, <1>2

\* ... and holds in every reachable state.
LEMMA Invariance == Spec => []IInv
BY InitIInv, IInvStep, PTL DEF Spec

-----------------------------------------------------------------------------
(* The theorems.                                                           *)

\* At every moment, so after any crash, terminal metadata is backed by a
\* timeline that ends with done at that sequence, active metadata claims no
\* event that the timeline lacks, and a completed job has lost none, until
\* two writers cross and from the next lone reconciliation on.
THEOREM RecordCorrect == Spec => []RecordIsSound
<1>1. IInv => RecordIsSound
  BY DEF IInv, RecordIsSound, SettledInv, TerminalIsBacked, TerminalMatches, MetaInv,
    MetadataNotAhead, CompletedLostNothing, CompletedKeepsAll
<1> QED BY <1>1, Invariance, PTL

\* No recovery turns an announced success into a failure or the other way
\* round, unless writers crossed.
THEOREM AnnouncedCorrect == Spec => []AnnouncedResultStands
<1>1. IInv => AnnouncedResultStands BY DEF IInv
<1> QED BY <1>1, Invariance, PTL

\* Once the metadata is terminal no step of the job, of a late append, of a
\* finalization or of a reconciliation changes either file, unless writers
\* crossed.
THEOREM TerminalCorrect == Spec => TerminalIsFinal
<1>1. IInv /\ [Next]_vars => (Settled(meta) /\ ~blind => meta' = meta /\ timeline' = timeline)
  <2> SUFFICES ASSUME IInv, [Next]_vars, Settled(meta), ~blind
               PROVE  meta' = meta /\ timeline' = timeline
    OBVIOUS
  <2>1. /\ queue = <<>> /\ flush = NoFlush /\ fin = Idle
        /\ live => ending = "done" /\ ~failed
        /\ ~live => ending \in {"no", "done"}
        /\ failed => ending = "done"
        /\ rec # Idle => rec.alone
    BY DEF IInv, ControlInv, FinInv, Settled
  <2>2. /\ timeline \in Seq(Kinds) /\ Len(timeline) \in Nat /\ DoneIsLast
        /\ meta \in Metadata /\ rec \in Repairs
    BY DEF IInv, TypeOK
  <2>3. /\ TerminalMatches
        /\ meta.status = "completed" => /\ ~torn /\ late = NoLate
                                        /\ rec = Idle \/ (rec.step = "look" /\ rec.did = "begun")
    BY DEF IInv, SettledInv
  <2>4. TerminalSeen /\ (meta.status # "completed" => Erred)
    BY <2>2, <2>3, LastFacts DEF TerminalMatches, LastEvent, Erred
  <2>5. ~Follows(late.number) /\ ~Follows(Number(rec)) BY <2>4 DEF Follows
  <2>6. CASE \E kind \in {"text", "error"} : Emit(kind) BY <2>6 DEF Emit, disk
  <2>7. CASE Overflow \/ FlushBegins \/ Evicts \/ StreamOpens \/ Sweeps
    BY <2>7 DEF Overflow, FlushBegins, Evicts, StreamOpens, Sweeps, ReconcileBegins, disk
  <2>8. CASE Job
    BY <2>1, <2>8 DEF Job, AppendOk, Written, FlushLands, DoneBegins, DoneStaged, DoneCommits,
      JobEnds, disk
  <2>9. CASE LateLands
    BY <2>5, <2>9 DEF LateLands, Lands
  <2>10. CASE Finalize
    BY <2>1, <2>10, IdleFacts DEF Finalize, FinTrims, FinLooks, FinCuts, FinWrites, FinWritesMeta
  <2>11. CASE Reconcile
    <3>1. CASE RecLooks BY <3>1 DEF RecLooks, disk
    <3>2. ASSUME ~RecLooks
          PROVE  /\ rec.alone /\ rec.step # "look"
                 /\ meta.status = "failed" /\ Erred
                 /\ rec.seen.lines = timeline
                 /\ rec.step \in {"cut", "meta"}
      <4>1. rec.step \in {"cut", "uncommit", "error", "done", "meta"} /\ rec # Idle
        BY <2>11, <3>2, IdleFacts DEF Reconcile, RecCuts, RecWrites, RecWritesMeta
      <4>2. /\ rec.seen.lines = timeline
            /\ rec.step = "uncommit" => ~Erred
            /\ rec.step \in {"error", "done"} => ~TerminalSeen
        BY <2>1, <4>1 DEF IInv, RecInv
      <4>3. meta.status # "completed" BY <2>3, <4>1
      <4>4. meta.status = "failed" BY <4>3 DEF Settled
      <4> QED BY <2>1, <2>4, <4>1, <4>2, <4>4
    <3>3. CASE RecCuts
      <4>1. rec.step = "cut" /\ rec.seen.lines = timeline
        BY <3>2, <3>3 DEF RecCuts, RecLooks
      <4>2. CutTo(Len(timeline)) /\ meta' = meta BY <3>3, <4>1 DEF RecCuts
      <4>3. Len(timeline) \in 0..Len(timeline) BY <2>2
      <4> QED BY <2>2, <4>2, <4>3, CutFacts DEF Shorter, Same
    <3>4. CASE RecWrites
      BY <3>2, <3>4 DEF RecWrites, RecLooks
    <3>5. CASE RecWritesMeta
      <4>1. rec.step = "meta" /\ rec.seen.lines = timeline /\ meta.status = "failed"
        BY <3>2, <3>5 DEF RecWritesMeta, RecLooks
      <4>2. /\ meta' = [status |-> "failed", lastSequence |-> Len(timeline), unfinished |-> FALSE]
            /\ timeline' = timeline
        BY <3>5, <4>1 DEF RecWritesMeta
      <4>3. meta.lastSequence = Len(timeline) /\ meta.unfinished = FALSE
        BY <2>2, <2>3 DEF TerminalMatches, Settled, Metadata
      <4>4. meta = [status |-> meta.status, lastSequence |-> meta.lastSequence,
                    unfinished |-> meta.unfinished]
        BY <2>2 DEF Metadata
      <4> QED BY <4>1, <4>2, <4>3, <4>4
    <3> QED BY <2>11, <3>1, <3>3, <3>4, <3>5 DEF Reconcile
  <2>12. CASE Faulty
    <3>1. CASE AppendBlind \/ AppendFails \/ AppendUnknown
      BY <2>1, <3>1 DEF AppendBlind, Written, AppendFails, AppendUnknown
    <3>2. CASE LateFails
      BY <2>5, <3>2 DEF LateFails, Smears
    <3>3. CASE FlushFails \/ StageFails \/ CommitFails
      BY <2>1, <3>3 DEF FlushFails, StageFails, CommitFails, disk
    <3>4. CASE FinFails BY <2>1, <3>4 DEF FinFails
    <3>5. CASE RecFails BY <2>5, <3>5 DEF RecFails, Lost
    <3>6. CASE Crash BY <3>6 DEF Crash
    <3> QED BY <2>12, <3>1, <3>2, <3>3, <3>4, <3>5, <3>6 DEF Faulty
  <2>13. CASE UNCHANGED vars BY <2>13 DEF vars, disk
  <2> QED BY <2>6, <2>7, <2>8, <2>9, <2>10, <2>11, <2>12, <2>13 DEF Next
<1> QED BY <1>1, Invariance, PTL DEF Spec, TerminalIsFinal

-----------------------------------------------------------------------------
(***************************************************************************)
(* A subscriber of the job's event stream, for any limit on what waits for *)
(* it and any number of events.                                            *)
(*                                                                         *)
(* The inductive invariant follows one number through the stream: what the *)
(* client has is what follows the sequence it asked for, up to lastSent    *)
(* (Received), and what it does not have yet waits in the right place.     *)
(* While it replays, every event up to the end of the replay is in the     *)
(* part of the file that will still be read, in pending, or sent, and the  *)
(* buffer goes on where the replay ends (Replays); once it is live, the    *)
(* queue goes on after lastSent, behind a blocked socket (GoesOn).         *)
(***************************************************************************)

\* m numbers in a row, from a + 1 on.
Run(a, m) == [i \in 1..m |-> a + i]

Sub == [stage : {"none", "scan", "pending", "live", "closed"},
        why : {"open", "ended", "torn", "stopped", "overflow", "late", "gone"},
        at : {"none", "scan", "pending", "live", "closed"},
        since : 0..Top, through : 0..Top, floor : 0..Top, wasLive : BOOLEAN,
        scanned : 0..Top, pending : SUBSET (1..Top), buffer : Seq(1..Top), queue : Seq(1..Top),
        blocked : BOOLEAN, ending : BOOLEAN, lastSent : 0..Top, received : Seq(1..Top)]

\* The timeline.
JobInv ==
  /\ {accepted, onDisk, settled, published, last} \subseteq 0..Top
  /\ closing \in BOOLEAN /\ stopped \in BOOLEAN
  /\ settled <= onDisk /\ onDisk <= settled + 1 /\ onDisk <= accepted
  /\ last = 0 => /\ published <= MaxPublished
                 /\ accepted = published \/ (closing /\ accepted = published + 1)
  /\ last # 0 => /\ published = last /\ accepted <= last
                 /\ onDisk = accepted /\ settled = accepted

\* What the client has is what follows the sequence it asked for.
Received(s) ==
  /\ s.since <= s.lastSent
  /\ s.received = Run(s.since, s.lastSent - s.since)

\* What the replay has to send.
Goal(s, pub) == IF s.wasLive THEN s.through ELSE pub

\* A subscriber to whom everything up to `pub' has been published, of which
\* `end' is the terminal event (0: there is none yet), while `file' events are
\* in the file.
Replays(s, pub, file) ==
  /\ s.queue = <<>>
  /\ s.since <= Goal(s, pub) /\ Goal(s, pub) <= pub /\ s.lastSent <= Goal(s, pub)
  /\ Goal(s, pub) <= s.through
  /\ s.buffer = Run(Goal(s, pub), pub - Goal(s, pub))
  /\ \A n \in s.pending : s.since < n /\ n <= Goal(s, pub)
  /\ s.stage = "scan" =>
       /\ s.lastSent = IF s.scanned <= s.since THEN s.since
                       ELSE IF s.scanned <= Goal(s, pub) THEN s.scanned ELSE Goal(s, pub)
       /\ ~s.wasLive => s.scanned <= pub /\ file <= pub
       /\ \A n \in (s.since + 1)..Goal(s, pub) : n \in s.pending \/ (n <= s.floor /\ n <= file)
  /\ s.stage = "pending" =>
       \A n \in (s.since + 1)..Goal(s, pub) : n \in s.pending \/ n <= s.lastSent

GoesOn(s, pub) ==
  /\ s.buffer = <<>>
  /\ s.queue = Run(s.lastSent, pub - s.lastSent)
  /\ s.queue # <<>> => s.blocked

Served(s, pub, end, file) ==
  /\ s \in Sub /\ Received(s)
  /\ Len(s.buffer) + Len(s.queue) <= Limit
  /\ s.lastSent <= pub
  /\ s.stage \in {"scan", "pending"} => Replays(s, pub, file)
  /\ s.stage = "live" => GoesOn(s, pub)
  /\ s.stage = "none" => s = NoSub
  /\ s.stage \in {"scan", "pending", "live"} => s.wasLive \/ end # 0
  /\ s.stage # "closed" => s.why = "open"
  /\ s.ending => end # 0 /\ s.lastSent = pub /\ s.blocked
  /\ s.why = "ended" => end # 0 /\ s.lastSent = pub

StreamInv == JobInv /\ Served(sub, published, last, onDisk)

-----------------------------------------------------------------------------
(* Numbers in a row.                                                       *)

\* The bounds.
LEMMA TopFacts ==
  /\ Top \in Nat /\ MaxPublished \in Nat /\ MaxPublished + 2 = Top
  /\ Limit \in Nat /\ Limit > 0
BY LimitAssumption, EventsAssumption DEF Top

\* Elements, length and last element of a row.
LEMMA RunFacts ==
  ASSUME NEW a \in Nat, NEW m \in Nat
  PROVE  /\ Len(Run(a, m)) = m
         /\ a + m <= Top => Run(a, m) \in Seq(1..Top)
         /\ \A i \in 1..m : Run(a, m)[i] = a + i
         /\ Append(Run(a, m), a + m + 1) = Run(a, m + 1)
         /\ Run(a, m) = <<>> <=> m = 0
         /\ Run(a, 0) = <<>>
         /\ <<a + 1>> = Run(a, 1)
<1>1. Len(Run(a, m)) = m /\ Run(a, m) \in Seq(Nat) BY DEF Run
<1>2. a + m <= Top => Run(a, m) \in Seq(1..Top)
  <2> SUFFICES ASSUME a + m <= Top PROVE Run(a, m) \in Seq(1..Top) OBVIOUS
  <2>1. \A i \in 1..m : a + i \in 1..Top BY TopFacts
  <2> QED BY <2>1 DEF Run
<1>3. \A i \in 1..m : Run(a, m)[i] = a + i BY DEF Run
<1>4. Append(Run(a, m), a + m + 1) = Run(a, m + 1)
  <2>1. /\ Append(Run(a, m), a + m + 1) =
             [i \in 1..(m + 1) |-> IF i = m + 1 THEN a + m + 1 ELSE Run(a, m)[i]]
    BY <1>1
  <2> QED BY <2>1, <1>3 DEF Run
<1>5. Run(a, 0) = <<>> BY DEF Run
<1>6. <<a + 1>> = Run(a, 1) BY DEF Run
<1> QED BY <1>1, <1>2, <1>3, <1>4, <1>5, <1>6

\* Two rows, the second from where the first ends, are one ...
LEMMA RunJoins ==
  ASSUME NEW a \in Nat, NEW m \in Nat, NEW k \in Nat
  PROVE  Run(a, m) \o Run(a + m, k) = Run(a, m + k)
<1>1. Len(Run(a, m)) = m /\ Run(a, m) \in Seq(Nat) BY DEF Run
<1>2. Len(Run(a + m, k)) = k /\ Run(a + m, k) \in Seq(Nat) BY DEF Run
<1> QED BY <1>1, <1>2 DEF Run

\* ... and a row splits anywhere into two.
LEMMA RunSplits ==
  ASSUME NEW a \in Nat, NEW m \in Nat, NEW k \in 0..m
  PROVE  /\ SubSeq(Run(a, m), 1, k) = Run(a, k)
         /\ SubSeq(Run(a, m), k + 1, m) = Run(a + k, m - k)
<1>1. Len(Run(a, m)) = m /\ Run(a, m) \in Seq(Nat) BY DEF Run
<1>2. SubSeq(Run(a, m), 1, k) = Run(a, k) BY <1>1 DEF Run
<1>3. SubSeq(Run(a, m), k + 1, m) = Run(a + k, m - k) BY <1>1 DEF Run
<1> QED BY <1>2, <1>3

\* A set of numbers that is not empty has a least one.
LEMMA LeastNumber ==
  ASSUME NEW S \in SUBSET Nat, S # {}
  PROVE  LET n == CHOOSE n \in S : \A m \in S : n <= m IN n \in S /\ \A m \in S : n <= m
<1>1. PICK n \in S : \A m \in S : <<m, n>> \notin OpToRel(<, Nat)
  BY NatLessThanWellFounded, WFMin
<1>2. \A m \in S : ~(m < n) BY <1>1, Zenon DEF OpToRel
<1>3. \A m \in S : n <= m BY <1>2
<1> QED BY <1>3

-----------------------------------------------------------------------------
(* The registry.                                                           *)

\* What closeRecord leaves.
LEMMA ClosedFacts ==
  ASSUME NEW s \in Sub, NEW why \in {"ended", "torn", "stopped", "overflow", "late", "gone"}
  PROVE  LET t == Close(s, why) IN
         /\ t \in Sub /\ t.stage = "closed" /\ t.why = why /\ t.lastSent = s.lastSent
         /\ t.since = s.since /\ t.received = s.received /\ t.queue = <<>> /\ t.buffer = <<>>
         /\ ~t.ending
<1> DEFINE t == Close(s, why)
<1>1. t = [s EXCEPT !.stage = "closed", !.why = why, !.at = s.stage, !.queue = <<>>, !.buffer = <<>>,
                    !.pending = {}, !.blocked = FALSE, !.ending = FALSE]
  BY DEF Close
<1>2. <<>> \in Seq(1..Top) /\ {} \in SUBSET (1..Top) OBVIOUS
<1> HIDE DEF t
<1>3. t \in Sub BY <1>1, <1>2 DEF Sub
<1>4. /\ t.stage = "closed" /\ t.why = why /\ t.lastSent = s.lastSent
      /\ t.since = s.since /\ t.received = s.received /\ t.queue = <<>> /\ t.buffer = <<>>
      /\ ~t.ending
  BY <1>1 DEF Sub
<1> QED BY <1>3, <1>4 DEF t

\* A closed subscriber is served.
LEMMA CloseFacts ==
  ASSUME NEW s \in Sub, Received(s), NEW pub \in 0..Top, NEW end, NEW file, s.lastSent <= pub,
         NEW why \in {"ended", "torn", "stopped", "overflow", "late", "gone"},
         why = "ended" => end # 0 /\ s.lastSent = pub
  PROVE  Served(Close(s, why), pub, end, file)
<1> DEFINE t == Close(s, why)
<1>2. /\ t \in Sub /\ t.stage = "closed" /\ t.why = why /\ t.lastSent = s.lastSent
      /\ t.since = s.since /\ t.received = s.received /\ t.queue = <<>> /\ t.buffer = <<>>
      /\ ~t.ending
  BY ClosedFacts
<1> HIDE DEF t
<1>3. Received(t) BY <1>2 DEF Received
<1>4. Len(t.buffer) + Len(t.queue) <= Limit BY <1>2, TopFacts
<1> QED BY <1>2, <1>3, <1>4 DEF Served, t

\* The next k events, up to n, are written to s, which becomes t ...
Sends(s, k, n, done, w, t) ==
  /\ k \in Nat \ {0} /\ n = s.lastSent + k /\ n <= Top /\ w \in BOOLEAN
  /\ t = Write(s, Run(s.lastSent, k), done, w)

\* ... and what is known of t then.
Sent(s, n, done, w, t) ==
  /\ t \in Sub /\ Received(t) /\ t.lastSent = n
  /\ n = done /\ w => t.stage = "closed" /\ t.why = "ended" /\ t.queue = <<>>
                      /\ t.buffer = <<>> /\ ~t.ending
  /\ ~(n = done /\ w) =>
       /\ t.stage = s.stage /\ t.why = s.why /\ t.through = s.through
       /\ t.since = s.since /\ t.floor = s.floor /\ t.wasLive = s.wasLive
       /\ t.scanned = s.scanned /\ t.pending = s.pending
       /\ t.buffer = s.buffer /\ t.queue = s.queue
       /\ (t.blocked <=> ~w) /\ (t.ending <=> n = done)

\* What writeEntry makes of a subscriber that is sent the next k events.
LEMMA WriteFacts ==
  ASSUME NEW s \in Sub, Received(s), NEW k, NEW n, NEW done, NEW w, NEW t,
         Sends(s, k, n, done, w, t)
  PROVE  Sent(s, n, done, w, t)
<1> DEFINE e == Run(s.lastSent, k)
<1> k \in Nat \ {0} /\ n = s.lastSent + k /\ n <= Top /\ w \in BOOLEAN /\ t = Write(s, e, done, w)
  BY DEF Sends
<1>1. /\ s.since \in 0..Top /\ s.lastSent \in 0..Top /\ s.since <= s.lastSent
      /\ s.received = Run(s.since, s.lastSent - s.since) /\ n \in 0..Top /\ Top \in Nat
  <2>1. s.since \in 0..Top /\ s.lastSent \in 0..Top BY DEF Sub
  <2> QED BY <2>1, TopFacts DEF Received
<1>2. Len(e) = k /\ e # <<>> /\ e[Len(e)] = n
  <2>1. s.lastSent \in Nat /\ k \in Nat /\ k \in 1..k /\ k # 0 BY <1>1
  <2>2. Len(e) = k /\ (e = <<>> <=> k = 0) /\ \A i \in 1..k : e[i] = s.lastSent + i
    BY <2>1, RunFacts
  <2>3. e[Len(e)] = s.lastSent + k BY <2>1, <2>2
  <2> QED BY <2>1, <2>2, <2>3
<1>3. PICK b \in BOOLEAN : b <=> n = done /\ ~w OBVIOUS
<1>4. PICK c \in BOOLEAN : c <=> ~w OBVIOUS
<1> DEFINE v == [s EXCEPT !.received = @ \o e, !.lastSent = n, !.blocked = c, !.ending = b]
<1>5. t = IF n = done /\ w THEN Close(v, "ended") ELSE v
  BY <1>2, <1>3, <1>4 DEF Write
<1>6. s.received \o e = Run(s.since, n - s.since)
  <2>1. PICK d \in Nat : d = s.lastSent - s.since BY <1>1
  <2>2. s.since \in Nat /\ k \in Nat /\ s.since + d = s.lastSent /\ d + k = n - s.since
    BY <1>1, <2>1
  <2>3. Run(s.since, d) \o Run(s.since + d, k) = Run(s.since, d + k) BY <2>2, RunJoins
  <2> QED BY <1>1, <2>1, <2>2, <2>3
<1>7. Run(s.since, n - s.since) \in Seq(1..Top)
  <2>1. s.since \in Nat /\ n - s.since \in Nat /\ s.since + (n - s.since) <= Top BY <1>1
  <2> QED BY <2>1, RunFacts
<1> HIDE DEF e
<1>8. /\ v \in Sub /\ v.lastSent = n /\ v.stage = s.stage /\ v.why = s.why
      /\ v.through = s.through /\ v.since = s.since /\ v.floor = s.floor
      /\ v.wasLive = s.wasLive /\ v.scanned = s.scanned /\ v.pending = s.pending
      /\ v.buffer = s.buffer /\ v.queue = s.queue /\ v.blocked = c /\ v.ending = b
      /\ v.received = Run(s.since, n - s.since)
  BY <1>1, <1>6, <1>7 DEF Sub
<1> HIDE DEF v
<1>9. Received(v) BY <1>1, <1>8 DEF Received
<1>10. CASE n = done /\ w
  <2>1. t = Close(v, "ended") BY <1>5, <1>10
  <2>2. /\ t \in Sub /\ t.lastSent = n /\ t.since = s.since /\ t.received = v.received
        /\ t.stage = "closed" /\ t.why = "ended" /\ t.queue = <<>> /\ t.buffer = <<>> /\ ~t.ending
    BY <2>1, <1>8, ClosedFacts
  <2>3. Received(t) BY <2>2, <1>8, <1>9 DEF Received
  <2> QED BY <2>2, <2>3, <1>10 DEF Sent
<1>11. CASE ~(n = done /\ w)
  <2>1. t = v BY <1>5, <1>11
  <2> QED BY <2>1, <1>3, <1>4, <1>8, <1>9, <1>11 DEF Sent
<1> QED BY <1>10, <1>11

\* More of the file, or less of what has not been published, changes nothing
\* for a subscriber.
LEMMA DiskFacts ==
  ASSUME NEW s, NEW pub \in 0..Top, NEW end, NEW file \in Nat, NEW d \in Nat,
         Served(s, pub, end, file), file <= d \/ pub <= d, end # 0 => d <= pub
  PROVE  Served(s, pub, end, d)
<1>1. s.stage \in {"scan", "pending"} => Replays(s, pub, d)
  <2> SUFFICES ASSUME s.stage \in {"scan", "pending"} PROVE Replays(s, pub, d) OBVIOUS
  <2>1. Replays(s, pub, file) /\ (s.wasLive \/ end # 0) BY DEF Served
  <2>2. Goal(s, pub) <= pub /\ Goal(s, pub) \in Int /\ s.since \in Int
    BY <2>1 DEF Replays, Goal, Served, Sub
  <2>3. \A n \in (s.since + 1)..Goal(s, pub) : n <= file => n <= d BY <2>2
  <2> QED BY <2>1, <2>3 DEF Replays
<1> QED BY <1>1 DEF Served

\* An event is published to a subscriber.
LEMMA PublishFacts ==
  ASSUME NEW s, NEW pub \in 0..Top, pub + 1 <= Top, NEW file, Served(s, pub, 0, file), NEW done,
         NEW w \in BOOLEAN
  PROVE  Served(Publish(s, pub + 1, done, w), pub + 1, IF done = pub + 1 THEN done ELSE 0, file)
<1> DEFINE n == pub + 1
           end == IF done = n THEN done ELSE 0
           t == Publish(s, n, done, w)
<1>1. /\ s \in Sub /\ Received(s) /\ s.lastSent \in 0..Top /\ s.lastSent <= pub /\ ~(n <= s.lastSent)
      /\ n \in 0..Top /\ n \in 1..Top /\ s.lastSent <= n /\ n # 0 /\ pub < n /\ n <= Top
      /\ ~s.ending /\ s.why # "ended" /\ (s.stage \in {"scan", "pending", "live"} => s.wasLive)
      /\ s.stage \in {"none", "scan", "pending", "live", "closed"}
  BY TopFacts DEF Served, Sub
<1>a. n = pub + 1 /\ t = Publish(s, n, done, w) /\ (n = done => end = n) OBVIOUS
<1> SUFFICES Served(t, n, end, file) OBVIOUS
<1> HIDE DEF n, end, t
<1>2. CASE ~Open(s)
  <2>1. t = s BY <1>2, <1>a DEF Publish
  <2>2. s.stage \in {"none", "closed"} BY <1>2 DEF Open
  <2> QED BY <1>1, <2>1, <2>2 DEF Served
<1>3. CASE Replaying(s)
  <2>1. /\ s.stage \in {"scan", "pending"} /\ s.wasLive /\ Replays(s, pub, file)
        /\ s.why = "open" /\ Goal(s, pub) = s.through /\ s.through \in 0..Top
    BY <1>1, <1>3 DEF Replaying, Served, Goal, Sub
  <2>2. t = ToBuffer(s, n) BY <1>1, <1>a, <1>3, <2>1 DEF Publish, Open
  <2>3. CASE Full(s)
    <3>1. t = Close(s, "overflow") BY <2>2, <2>3 DEF ToBuffer
    <3> QED BY <1>1, <3>1, CloseFacts
  <2>4. CASE ~Full(s)
    <3>1. t = [s EXCEPT !.buffer = Append(@, n)] BY <2>2, <2>4 DEF ToBuffer
    <3>2. PICK m \in Nat : m = pub - s.through BY <2>1 DEF Replays
    <3>3. s.through \in Nat /\ s.through + m = pub /\ s.buffer = Run(s.through, m)
      BY <2>1, <3>2 DEF Replays
    <3>4. Append(s.buffer, s.through + m + 1) = Run(s.through, m + 1) /\ Len(s.buffer) = m
      <4>1. /\ Append(Run(s.through, m), s.through + m + 1) = Run(s.through, m + 1)
            /\ Len(Run(s.through, m)) = m
        BY <3>3, RunFacts
      <4> QED BY <3>3, <4>1
    <3>5. PICK k \in Nat :
            /\ k = m + 1 /\ k = n - s.through /\ s.through + k <= Top /\ s.through + m + 1 = n
      BY <1>1, <1>a, <3>3
    <3>6. Run(s.through, k) \in Seq(1..Top) /\ Len(Run(s.through, k)) = k
      BY <3>3, <3>5, RunFacts
    <3>7. /\ t \in Sub /\ t.stage = s.stage /\ t.why = s.why /\ t.through = s.through
          /\ t.since = s.since /\ t.floor = s.floor /\ t.wasLive = s.wasLive
          /\ t.scanned = s.scanned /\ t.pending = s.pending /\ t.lastSent = s.lastSent
          /\ t.buffer = Run(s.through, n - s.through) /\ t.queue = s.queue /\ ~t.ending
          /\ t.received = s.received
      BY <1>1, <3>1, <3>3, <3>4, <3>5, <3>6 DEF Sub
    <3>8. Received(t) BY <1>1, <3>7 DEF Received
    <3>9. Len(t.buffer) + Len(t.queue) <= Limit
      <4>1. Len(s.queue) = 0 /\ Len(s.buffer) + Len(s.queue) < Limit
        BY <2>1, <2>4, <3>4, TopFacts DEF Full, Replays
      <4>2. Len(t.buffer) = m + 1 /\ Len(t.queue) = 0 BY <4>1, <3>5, <3>6, <3>7
      <4> QED BY <4>1, <4>2, <3>4, TopFacts
    <3>10. Goal(t, n) = s.through BY <2>1, <3>7 DEF Goal
    <3>11. Replays(t, n, file)
      BY <2>1, <3>7, <3>10, <1>1, <1>a DEF Replays
    <3> QED BY <1>1, <1>a, <2>1, <3>7, <3>8, <3>9, <3>11 DEF Served
  <2> QED BY <2>3, <2>4
<1>4. CASE s.stage = "live"
  <2>1. /\ GoesOn(s, pub) /\ s.why = "open" /\ s.wasLive /\ Open(s) /\ ~Replaying(s)
    BY <1>1, <1>4 DEF Served, Open, Replaying
  <2>2. PICK m \in Nat : m = pub - s.lastSent BY <1>1
  <2>3. s.lastSent \in Nat /\ s.lastSent + m = pub /\ s.queue = Run(s.lastSent, m)
    BY <1>1, <2>1, <2>2 DEF GoesOn
  <2>3a. PICK k \in Nat :
            /\ k = m + 1 /\ k = n - s.lastSent /\ s.lastSent + k <= Top /\ s.lastSent + m + 1 = n
    BY <1>1, <1>a, <2>3
  <2>4. Len(s.queue) = m /\ (s.queue = <<>> <=> m = 0) /\ Append(s.queue, n) = Run(s.lastSent, k)
    <3>1. /\ Len(Run(s.lastSent, m)) = m /\ (Run(s.lastSent, m) = <<>> <=> m = 0)
          /\ Append(Run(s.lastSent, m), s.lastSent + m + 1) = Run(s.lastSent, m + 1)
      BY <2>3, RunFacts
    <3> QED BY <3>1, <2>3, <2>3a
  <2>5. CASE s.blocked \/ s.queue # <<>>
    <3>1. t = ToQueue(s, n) /\ s.blocked BY <1>1, <1>a, <2>1, <2>5 DEF Publish, GoesOn
    <3>2. CASE Full(s)
      <4>1. t = Close(s, "overflow") BY <3>1, <3>2 DEF ToQueue
      <4> QED BY <1>1, <4>1, CloseFacts
    <3>3. CASE ~Full(s)
      <4>1. t = [s EXCEPT !.queue = Append(@, n)] BY <3>1, <3>3 DEF ToQueue
      <4>2. Run(s.lastSent, k) \in Seq(1..Top) /\ Len(Run(s.lastSent, k)) = k
        BY <2>3, <2>3a, RunFacts
      <4>3. /\ t \in Sub /\ t.stage = s.stage /\ t.why = s.why
            /\ t.since = s.since /\ t.wasLive = s.wasLive /\ t.lastSent = s.lastSent
            /\ t.buffer = s.buffer /\ t.queue = Run(s.lastSent, k) /\ ~t.ending /\ t.blocked
            /\ t.received = s.received
        <5>1. Append(s.queue, n) \in Seq(1..Top) BY <2>4, <4>2
        <5>2. t \in Sub BY <1>1, <4>1, <5>1 DEF Sub
        <5> QED BY <1>1, <3>1, <4>1, <5>2, <2>4 DEF Sub
      <4>4. Received(t) BY <1>1, <4>3 DEF Received
      <4>5. Len(t.buffer) + Len(t.queue) <= Limit
        <5>1. Len(s.buffer) = 0 /\ Len(s.buffer) + Len(s.queue) < Limit
          BY <2>1, <2>4, <3>3, TopFacts DEF Full, GoesOn
        <5>2. Len(t.queue) = m + 1 /\ Len(t.buffer) = 0 BY <5>1, <2>1, <2>3a, <4>2, <4>3 DEF GoesOn
        <5> QED BY <5>1, <5>2, <2>4, TopFacts
      <4>6. GoesOn(t, n) BY <2>1, <2>3a, <4>3 DEF GoesOn
      <4> QED BY <1>1, <1>4, <1>a, <2>1, <4>3, <4>4, <4>5, <4>6 DEF Served
    <3> QED BY <3>2, <3>3
  <2>6. CASE ~(s.blocked \/ s.queue # <<>>)
    <3>1. m = 0 /\ s.lastSent = pub /\ s.queue = <<>> BY <2>3, <2>4, <2>6
    <3>2. <<n>> = Run(s.lastSent, 1) BY <1>a, <2>3, <3>1, RunFacts
    <3>3. t = Write(s, Run(s.lastSent, 1), done, w) BY <1>1, <1>a, <2>1, <2>6, <3>2 DEF Publish
    <3>4. Sends(s, 1, n, done, w, t) BY <1>1, <1>a, <3>1, <3>3 DEF Sends
    <3>4a. s \in Sub /\ Received(s) BY <1>1
    <3>5. Sent(s, n, done, w, t) BY Zenon, <3>4, <3>4a, WriteFacts
    <3>5a. n = done /\ w => t.stage = "closed" /\ t.why = "ended" /\ t.queue = <<>>
                            /\ t.buffer = <<>> /\ ~t.ending
      BY Zenon, <3>5 DEF Sent
    <3>5b. ~(n = done /\ w) =>
             /\ t.stage = s.stage /\ t.why = s.why /\ t.wasLive = s.wasLive
             /\ t.buffer = s.buffer /\ t.queue = s.queue
             /\ (t.blocked <=> ~w) /\ (t.ending <=> n = done)
      BY Zenon, <3>5 DEF Sent
    <3>5c. t \in Sub /\ Received(t) /\ t.lastSent = n BY Zenon, <3>5 DEF Sent
    <3>6. Run(n, n - n) = <<>>
      <4>1. n \in Nat /\ n - n = 0 BY <1>1
      <4> QED BY <4>1, RunFacts
    <3>7. t.buffer = <<>> /\ t.queue = <<>> BY Zenon, <2>1, <3>1, <3>5a, <3>5b DEF GoesOn
    <3>8. GoesOn(t, n) BY Zenon, <3>5c, <3>6, <3>7 DEF GoesOn
    <3>9. Len(t.buffer) + Len(t.queue) <= Limit BY <3>7, TopFacts
    <3>9a. t.lastSent <= n BY <1>1, <3>5c
    <3>10. CASE n = done /\ w
      <4>1. t.stage = "closed" /\ t.why = "ended" /\ ~t.ending BY Zenon, <3>5a, <3>10
      <4>2. end # 0 BY <1>1, <1>a, <3>10
      <4>3. /\ t.stage \notin {"scan", "pending", "live"} /\ t.stage # "none"
            /\ t.why # "open"
        BY <4>1
      <4> QED BY Zenon, <3>5c, <3>8, <3>9, <3>9a, <4>1, <4>2, <4>3 DEF Served
    <3>11. CASE ~(n = done /\ w)
      <4>1. /\ t.stage = "live" /\ t.why = "open" /\ t.wasLive
            /\ (t.ending => n = done /\ t.blocked)
        BY <1>4, <2>1, <3>5b, <3>11, Zenon
      <4>2. t.ending => end # 0 BY <1>1, <1>a, <4>1
      <4>3. /\ t.stage \notin {"scan", "pending"} /\ t.stage # "none" /\ t.stage # "closed"
            /\ t.why # "ended"
        BY <4>1
      <4> QED BY Zenon, <3>5c, <3>8, <3>9, <3>9a, <4>1, <4>2, <4>3 DEF Served
    <3> QED BY <3>10, <3>11
  <2> QED BY <2>5, <2>6
<1> QED BY <1>1, <1>2, <1>3, <1>4 DEF Open, Replaying

\* A live subscriber to whom the events up to `pub' can be sent.
Ready(s, pub, end) ==
  /\ s \in Sub /\ Received(s) /\ s.stage = "live" /\ s.why = "open"
  /\ s.buffer = <<>> /\ s.queue = <<>> /\ s.lastSent <= pub /\ pub - s.lastSent <= Limit
  /\ s.wasLive \/ end # 0
  /\ s.ending => end # 0 /\ s.lastSent = pub /\ s.blocked

\* The socket takes k of m events: it is blocked unless that is all of them.
Takes(k, m, w) == w \in BOOLEAN /\ (k < m => ~w)

\* Some of the events are written; the rest waits behind the blocked socket.
LEMMA SomeFacts ==
  ASSUME NEW s, NEW pub \in 0..Top, NEW end \in {0, pub}, NEW file, Ready(s, pub, end),
         NEW m \in Nat, m = pub - s.lastSent, NEW k \in 1..m, NEW w, Takes(k, m, w),
         NEW t, t = WriteSome(s, Run(s.lastSent, m), k, end, w)
  PROVE  Served(t, pub, end, file)
<1>1. /\ s \in Sub /\ Received(s) /\ s.lastSent \in 0..Top /\ s.stage = "live" /\ s.why = "open"
      /\ s.buffer = <<>> /\ s.lastSent <= pub /\ m <= Limit /\ (s.wasLive \/ end # 0)
      /\ s.lastSent \in Nat /\ s.lastSent + m = pub /\ pub <= Top
  BY TopFacts DEF Ready, Sub
<1>2. PICK n \in Nat : n = s.lastSent + k BY <1>1
<1>3. PICK r \in Nat : r = m - k OBVIOUS
<1>4. /\ n \in 1..Top /\ n <= pub /\ pub - n = r /\ n + r = pub /\ r <= Limit
      /\ w \in BOOLEAN /\ (r # 0 => ~w)
      /\ (n = end => n = pub /\ r = 0 /\ end # 0) /\ k \in 0..m
  <2>1. n \in 1..Top /\ n <= pub /\ pub - n = r /\ n + r = pub /\ r <= Limit /\ k \in 0..m /\ n # 0
    <3>1. /\ s.lastSent \in Nat /\ s.lastSent + m = pub /\ pub <= Top /\ m <= Limit
          /\ Top \in Nat /\ Limit \in Nat
      BY <1>1, TopFacts
    <3> QED BY <3>1, <1>2, <1>3
  <2>2. r # 0 => k < m BY <1>3
  <2>3. n = end => n = pub BY <2>1
  <2>4. n = pub => r = 0 BY <2>1
  <2> QED BY Zenon, <2>1, <2>2, <2>3, <2>4 DEF Takes
<1>5. /\ Run(s.lastSent, m) \in Seq(1..Top) /\ Len(Run(s.lastSent, m)) = m
      /\ SubSeq(Run(s.lastSent, m), 1, k) = Run(s.lastSent, k)
      /\ SubSeq(Run(s.lastSent, m), k + 1, m) = Run(n, r)
  <2>1. Len(Run(s.lastSent, m)) = m /\ Run(s.lastSent, m) \in Seq(1..Top) BY <1>1, RunFacts
  <2>2. /\ SubSeq(Run(s.lastSent, m), 1, k) = Run(s.lastSent, k)
        /\ SubSeq(Run(s.lastSent, m), k + 1, m) = Run(s.lastSent + k, m - k)
    BY <1>1, <1>4, RunSplits
  <2> QED BY <2>1, <2>2, <1>2, <1>3
<1>6. /\ Len(Run(n, r)) = r /\ (Run(n, r) = <<>> <=> r = 0) /\ Run(n, r) \in Seq(1..Top)
  BY <1>1, <1>4, RunFacts
<1> DEFINE u == Write(s, Run(s.lastSent, k), end, w)
<1>7. t = [u EXCEPT !.queue = Run(n, r)] BY <1>5 DEF WriteSome
<1>8. Sends(s, k, n, end, w, u) BY <1>1, <1>2, <1>4 DEF Sends
<1> HIDE DEF u
<1>9. Sent(s, n, end, w, u) BY Zenon, <1>1, <1>8, WriteFacts
<1>10. u \in Sub /\ Received(u) /\ u.lastSent = n BY Zenon, <1>9 DEF Sent
<1>11. /\ t \in Sub /\ t.lastSent = u.lastSent /\ t.since = u.since /\ t.received = u.received
       /\ t.stage = u.stage /\ t.why = u.why /\ t.wasLive = u.wasLive /\ t.buffer = u.buffer
       /\ (t.blocked <=> u.blocked) /\ (t.ending <=> u.ending) /\ t.queue = Run(n, r)
  BY <1>6, <1>7, <1>10 DEF Sub
<1>12. Received(t) BY <1>10, <1>11 DEF Received
<1>13. t.lastSent <= pub /\ t.lastSent = n BY <1>4, <1>10, <1>11
<1>14. CASE n = end /\ w
  <2>1. u.stage = "closed" /\ u.why = "ended" /\ u.buffer = <<>> /\ ~u.ending
    BY Zenon, <1>9, <1>14 DEF Sent
  <2>2. /\ t.stage = "closed" /\ t.why = "ended" /\ t.buffer = <<>> /\ ~t.ending
        /\ end # 0 /\ t.lastSent = pub
    BY Zenon, <2>1, <1>4, <1>11, <1>13, <1>14
  <2>3. Len(t.buffer) + Len(t.queue) <= Limit
    <3>1. t.buffer = <<>> /\ t.queue = Run(n, r) BY <2>2, <1>11
    <3>2. Len(Run(n, r)) = r BY <1>6
    <3>3. Len(t.buffer) = 0 BY <3>1
    <3>4. r <= Limit /\ r \in Nat /\ Limit \in Nat BY <1>4, TopFacts
    <3>5. Len(t.queue) = r BY <3>1, <3>2
    <3>6. 0 + r <= Limit BY <3>4
    <3> QED BY Zenon, <3>3, <3>5, <3>6
  <2>4. t.stage \notin {"scan", "pending", "live"} /\ t.stage # "none" BY <2>2
  <2> QED BY Zenon, <1>11, <1>12, <1>13, <2>2, <2>3, <2>4 DEF Served
<1>15. CASE ~(n = end /\ w)
  <2>1. /\ u.stage = s.stage /\ u.why = s.why /\ u.wasLive = s.wasLive
        /\ u.buffer = s.buffer /\ (u.blocked <=> ~w) /\ (u.ending <=> n = end)
    BY Zenon, <1>9, <1>15 DEF Sent
  <2>2. /\ t.stage = "live" /\ t.why = "open" /\ (t.wasLive \/ end # 0) /\ t.buffer = <<>>
        /\ (t.blocked <=> ~w) /\ (t.ending <=> n = end)
    BY Zenon, <2>1, <1>1, <1>11
  <2>3. Len(t.buffer) + Len(t.queue) <= Limit
    <3>1. t.buffer = <<>> /\ t.queue = Run(n, r) BY <2>2, <1>11
    <3>2. Len(Run(n, r)) = r BY <1>6
    <3>3. Len(t.buffer) = 0 BY <3>1
    <3>4. r <= Limit /\ r \in Nat /\ Limit \in Nat BY <1>4, TopFacts
    <3>5. Len(t.queue) = r BY <3>1, <3>2
    <3>6. 0 + r <= Limit BY <3>4
    <3> QED BY Zenon, <3>3, <3>5, <3>6
  <2>4. GoesOn(t, pub) 
    <3>1. pub - t.lastSent = r BY <1>4, <1>13
    <3>2. t.queue # <<>> => t.blocked BY Zenon, <1>4, <1>6, <1>11, <2>2
    <3> QED BY <3>1, <3>2, <2>2, <1>11, <1>13 DEF GoesOn
  <2>5. t.ending => end # 0 /\ t.lastSent = pub /\ t.blocked
    BY Zenon, <1>4, <1>13, <1>15, <2>2
  <2>6. /\ t.stage \notin {"scan", "pending"} /\ t.stage # "none" /\ t.stage # "closed"
        /\ t.why # "ended"
    BY <2>2
  <2> QED BY Zenon, <1>11, <1>12, <1>13, <2>2, <2>3, <2>4, <2>5, <2>6 DEF Served
<1> QED BY <1>14, <1>15

\* Whatever part of the waiting events the socket takes, the subscriber is served.
LEMMA TakenFacts ==
  ASSUME NEW s, NEW pub \in 0..Top, NEW end \in {0, pub}, NEW file, Ready(s, pub, end),
         NEW t \in Taken(s, Run(s.lastSent, pub - s.lastSent), end)
  PROVE  Served(t, pub, end, file)
<1>1. /\ s \in Sub /\ Received(s) /\ s.lastSent \in 0..Top /\ s.stage = "live" /\ s.why = "open"
      /\ s.buffer = <<>> /\ s.queue = <<>> /\ s.lastSent <= pub /\ (s.wasLive \/ end # 0)
      /\ s.lastSent \in Nat /\ pub - s.lastSent \in Nat /\ pub - s.lastSent <= Limit /\ pub <= Top
  BY TopFacts DEF Ready, Sub
<1>2. PICK m \in Nat : m = pub - s.lastSent BY <1>1
<1> DEFINE e == Run(s.lastSent, m)
<1>3. t \in Taken(s, e, end) /\ m <= Limit BY <1>1, <1>2
<1>4. /\ Len(e) = m /\ (e = <<>> <=> m = 0) /\ e \in Seq(1..Top)
  <2>1. s.lastSent + m <= Top BY <1>1, <1>2
  <2> QED BY <1>1, <2>1, RunFacts
<1> HIDE DEF e
<1>5. CASE s.blocked
  <2>1. t = [s EXCEPT !.queue = <<>> \o e] BY <1>1, <1>3, <1>5 DEF Taken
  <2>2. t = [s EXCEPT !.queue = e] BY <2>1, <1>4
  <2>3. /\ t \in Sub /\ t.lastSent = s.lastSent /\ t.since = s.since /\ t.received = s.received
        /\ t.stage = "live" /\ t.why = "open" /\ t.wasLive = s.wasLive /\ t.buffer = <<>>
        /\ t.blocked /\ t.ending = s.ending /\ t.queue = e
    BY <2>2, <1>1, <1>4, <1>5 DEF Sub
  <2>4. Received(t) BY <2>3, <1>1 DEF Received
  <2>5. Len(t.buffer) + Len(t.queue) <= Limit BY <2>3, <1>3, <1>4
  <2>6. GoesOn(t, pub) BY <2>3, <1>2 DEF GoesOn, e
  <2>7. t.ending => end # 0 /\ t.lastSent = pub BY <2>3 DEF Ready
  <2> QED BY <1>1, <2>3, <2>4, <2>5, <2>6, <2>7 DEF Served
<1>6. CASE ~s.blocked
  <2>1. \/ \E k \in 1..m : t = WriteSome(s, e, k, end, FALSE)
        \/ t = WriteSome(s, e, m, end, TRUE)
    BY <1>3, <1>4, <1>6 DEF Taken
  <2>2. ASSUME NEW k \in 1..m, t = WriteSome(s, e, k, end, FALSE) PROVE Served(t, pub, end, file)
    <3>1. Takes(k, m, FALSE) BY Zenon DEF Takes
    <3> QED BY <1>2, <2>2, <3>1, SomeFacts DEF e
  <2>3. ASSUME t = WriteSome(s, e, m, end, TRUE) PROVE Served(t, pub, end, file)
    <3>1. CASE m = 0
      <4>1. t = [s EXCEPT !.queue = SubSeq(e, 1, 0)] /\ SubSeq(e, 1, 0) = <<>>
        <5>1. SubSeq(e, 1, 0) = <<>> BY <1>4, <3>1
        <5> QED BY <2>3, <3>1, <1>4, <5>1 DEF WriteSome, Write
      <4>2. t = s BY <4>1, <1>1 DEF Sub
      <4>3. GoesOn(s, pub)
        <5>1. Run(s.lastSent, pub - s.lastSent) = <<>> BY <1>2, <1>4, <3>1 DEF e
        <5> QED BY <1>1, <5>1 DEF GoesOn
      <4>4. Len(s.buffer) + Len(s.queue) <= Limit BY <1>1, TopFacts
      <4>5. s.ending => end # 0 /\ s.lastSent = pub /\ s.blocked BY DEF Ready
      <4> QED BY <1>1, <4>2, <4>3, <4>4, <4>5 DEF Served
    <3>2. CASE m # 0
      <4>1. m \in 1..m /\ ~(m < m) BY <3>2
      <4>2. Takes(m, m, TRUE) BY Zenon, <4>1 DEF Takes
      <4> QED BY <1>2, <2>3, <4>1, <4>2, SomeFacts DEF e
    <3> QED BY <3>1, <3>2
  <2> QED BY <2>1, <2>2, <2>3
<1> QED BY <1>5, <1>6

\* The replay is over when it has sent what it had to send.
LEMMA AllSent ==
  ASSUME NEW s, NEW pub \in 0..Top, NEW end, NEW file, Served(s, pub, end, file),
         s.stage = "pending", s.pending = {} \/ s.ending
  PROVE  s.lastSent = Goal(s, pub)
<1>1. /\ Replays(s, pub, file) /\ s.lastSent \in Nat /\ s.since \in Nat /\ s.since <= s.lastSent
      /\ Goal(s, pub) \in Nat
  BY TopFacts DEF Served, Received, Sub, Goal
<1>2. PICK g \in Nat : g = Goal(s, pub) BY <1>1
<1>3. /\ s.since <= g /\ g <= pub /\ s.lastSent <= g
      /\ \A n \in (s.since + 1)..g : n \in s.pending \/ n <= s.lastSent
  BY <1>1, <1>2 DEF Replays
<1>4. CASE s.ending
  <2>1. s.lastSent = pub BY <1>4 DEF Served
  <2> QED BY <1>1, <1>2, <1>3, <2>1
<1>5. CASE s.pending = {}
  <2>1. s.since < g => g \in (s.since + 1)..g BY <1>1
  <2>2. s.since < g => g <= s.lastSent BY <1>3, <1>5, <2>1
  <2> QED BY <1>1, <1>2, <1>3, <2>2
<1> QED BY <1>4, <1>5

\* A subscriber that goes live is served.
LEMMA FinishFacts ==
  ASSUME NEW s, NEW pub \in 0..Top, NEW end \in {0, pub}, NEW file, Served(s, pub, end, file),
         s.stage = "pending", s.pending = {} \/ s.ending, s.wasLive,
         NEW t \in FinishReplay(s, end)
  PROVE  Served(t, pub, end, file)
<1>1. /\ s \in Sub /\ Received(s) /\ s.lastSent \in Nat /\ s.why = "open" /\ s.queue = <<>>
      /\ s.lastSent <= pub
  BY TopFacts DEF Served, Replays, Sub
<1>2. s.lastSent = s.through BY AllSent DEF Goal
<1>3. s.buffer = Run(s.lastSent, pub - s.lastSent) BY <1>2 DEF Served, Replays, Goal
<1>4. PICK m \in Nat : m = pub - s.lastSent BY <1>1
<1>5. /\ Len(s.buffer) = m /\ \A i \in 1..m : s.buffer[i] = s.lastSent + i
      /\ SubSeq(s.buffer, 0 + 1, m) = s.buffer
  <2>1. /\ Len(Run(s.lastSent, m)) = m /\ \A i \in 1..m : Run(s.lastSent, m)[i] = s.lastSent + i
    BY <1>1, RunFacts
  <2>2. SubSeq(Run(s.lastSent, m), 0 + 1, m) = Run(s.lastSent + 0, m - 0)
    <3>1. 0 \in 0..m OBVIOUS
    <3> QED BY <1>1, <3>1, RunSplits
  <2>3. s.lastSent + 0 = s.lastSent /\ m - 0 = m BY <1>1
  <2> QED BY <1>3, <1>4, <2>1, <2>2, <2>3
<1>6. NotSent(s) = s.buffer
  <2> DEFINE First(k) == \A i \in 1..Len(s.buffer) : s.buffer[i] <= s.lastSent <=> i <= k
  <2>1. NotSent(s) = LET k == CHOOSE k \in 0..Len(s.buffer) : First(k)
                     IN SubSeq(s.buffer, k + 1, Len(s.buffer))
    BY DEF NotSent
  <2>2. First(0)
    <3>1. \A i \in 1..m : ~(s.buffer[i] <= s.lastSent) /\ ~(i <= 0) BY <1>1, <1>5
    <3> QED BY <1>5, <3>1
  <2>3. \A k \in 0..Len(s.buffer) : First(k) => k = 0
    <3> SUFFICES ASSUME NEW k \in 0..m, First(k), k # 0 PROVE FALSE BY <1>5
    <3>1. k \in 1..m /\ k <= k OBVIOUS
    <3>2. s.buffer[k] <= s.lastSent BY <1>5, <3>1
    <3> QED BY <1>1, <1>5, <3>1, <3>2
  <2> HIDE DEF First
  <2>4. 0 \in 0..Len(s.buffer) BY <1>5
  <2>5. (CHOOSE k \in 0..Len(s.buffer) : First(k)) = 0 BY <2>2, <2>3, <2>4
  <2> QED BY <1>5, <2>1, <2>5
<1> DEFINE u == [s EXCEPT !.stage = "live", !.buffer = <<>>]
<1>7. t \in Taken(u, s.buffer, end) BY <1>6 DEF FinishReplay
<1>8. /\ u \in Sub /\ u.lastSent = s.lastSent /\ u.since = s.since /\ u.received = s.received
      /\ u.stage = "live" /\ u.why = s.why /\ u.wasLive /\ u.buffer = <<>> /\ u.queue = s.queue
      /\ (u.ending <=> s.ending) /\ (u.blocked <=> s.blocked)
  BY <1>1 DEF Sub
<1> HIDE DEF u
<1>9. Ready(u, pub, end)
  <2>1. Received(u) BY <1>1, <1>8 DEF Received
  <2>2. m <= Limit
    <3>1. Len(s.buffer) + Len(s.queue) <= Limit BY DEF Served
    <3>2. Len(s.queue) = 0 BY <1>1
    <3>3. Len(s.buffer) = m BY <1>5
    <3> QED BY <3>1, <3>2, <3>3, TopFacts
  <2>3. u.lastSent <= pub /\ pub - u.lastSent <= Limit BY <1>1, <1>4, <1>8, <2>2
  <2>4. s.ending => end # 0 /\ s.lastSent = pub /\ s.blocked BY Zenon DEF Served
  <2>5. u.ending => end # 0 /\ u.lastSent = pub /\ u.blocked BY Zenon, <1>8, <2>4
  <2> QED BY Zenon, <1>1, <1>8, <2>1, <2>3, <2>5 DEF Ready
<1>10. t \in Taken(u, Run(u.lastSent, pub - u.lastSent), end) BY <1>3, <1>7, <1>8
<1> QED BY <1>9, <1>10, TakenFacts

\* A subscriber whose socket drains is served.
LEMMA DrainFacts ==
  ASSUME NEW s, NEW pub \in 0..Top, NEW end \in {0, pub}, NEW file, Served(s, pub, end, file),
         Open(s), ~s.ending, NEW t \in Drained(s, end)
  PROVE  Served(t, pub, end, file)
<1> DEFINE u == [s EXCEPT !.blocked = FALSE, !.queue = <<>>]
<1>1. /\ s \in Sub /\ Received(s) /\ s.lastSent \in Nat /\ s.why = "open"
      /\ s.lastSent <= pub /\ s.stage \in {"scan", "pending", "live"}
  BY TopFacts DEF Served, Sub, Open
<1>2. t \in Taken(u, s.queue, end) BY DEF Drained
<1>3. /\ u \in Sub /\ u.lastSent = s.lastSent /\ u.since = s.since /\ u.received = s.received
      /\ u.stage = s.stage /\ u.why = s.why /\ (u.wasLive <=> s.wasLive) /\ u.buffer = s.buffer
      /\ u.queue = <<>> /\ ~u.ending /\ ~u.blocked
  <2>1. <<>> \in Seq(1..Top) OBVIOUS
  <2>2. u \in Sub BY <1>1, <2>1 DEF Sub
  <2> QED BY <1>1, <2>2 DEF Sub
<1>4. Received(u) BY <1>1, <1>3 DEF Received
<1>5. CASE s.stage \in {"scan", "pending"}
  <2>1. Replays(s, pub, file) /\ s.queue = <<>> BY <1>5 DEF Served, Replays
  <2>2. t = [u EXCEPT !.queue = SubSeq(<<>>, 1, 0)]
    <3>1. Taken(u, <<>>, end) = {WriteSome(u, <<>>, k, end, FALSE) : k \in 1..0}
                                \cup {WriteSome(u, <<>>, 0, end, TRUE)}
      BY <1>3 DEF Taken
    <3>2. 1..0 = {} /\ SubSeq(<<>>, 1, 0) = <<>> OBVIOUS
    <3>3. t = WriteSome(u, <<>>, 0, end, TRUE) BY <1>2, <2>1, <3>1, <3>2
    <3>4. WriteSome(u, <<>>, 0, end, TRUE) = [u EXCEPT !.queue = SubSeq(<<>>, 1, 0)]
      BY <3>2 DEF WriteSome, Write
    <3> QED BY <3>3, <3>4
  <2>3. t = [s EXCEPT !.blocked = FALSE]
    <3>1. SubSeq(<<>>, 1, 0) = <<>> OBVIOUS
    <3>2. t = [u EXCEPT !.queue = <<>>] BY <2>2, <3>1
    <3> QED BY <3>2, <1>1, <2>1 DEF Sub
  <2>4. /\ t \in Sub /\ t.lastSent = s.lastSent /\ t.since = s.since /\ t.received = s.received
        /\ t.stage = s.stage /\ t.why = s.why /\ (t.wasLive <=> s.wasLive) /\ t.buffer = s.buffer
        /\ t.queue = s.queue /\ ~t.ending /\ t.through = s.through /\ t.pending = s.pending
        /\ t.scanned = s.scanned /\ t.floor = s.floor
    BY <2>3, <1>1 DEF Sub
  <2>5. Received(t) BY <1>1, <2>4 DEF Received
  <2>6. Goal(t, pub) = Goal(s, pub) BY <2>4 DEF Goal
  <2>7. Replays(t, pub, file) BY <2>1, <2>4, <2>6 DEF Replays
  <2> QED BY <1>5, <2>4, <2>5, <2>7 DEF Served
<1>6. CASE s.stage = "live"
  <2>1. GoesOn(s, pub) BY <1>6 DEF Served
  <2>2. s.buffer = <<>> /\ s.queue = Run(s.lastSent, pub - s.lastSent) BY <2>1 DEF GoesOn
  <2>3. u.lastSent <= pub /\ pub - u.lastSent <= Limit
    <3>1. PICK m \in Nat : m = pub - s.lastSent BY <1>1
    <3>2. Len(Run(s.lastSent, m)) = m BY <1>1, RunFacts
    <3>3. Len(s.buffer) + Len(s.queue) <= Limit /\ Len(s.buffer) = 0 BY <2>2 DEF Served
    <3>4. m <= Limit
      <4>1. Len(s.queue) = m BY <2>2, <3>1, <3>2
      <4>2. 0 + m <= Limit BY Zenon, <3>3, <4>1
      <4> QED BY <4>2
    <3> QED BY <1>1, <1>3, <3>1, <3>4
  <2>4. s.wasLive \/ end # 0 BY <1>6 DEF Served
  <2> HIDE DEF u
  <2>5. Ready(u, pub, end) BY Zenon, <1>1, <1>3, <1>4, <1>6, <2>2, <2>3, <2>4 DEF Ready
  <2>6. t \in Taken(u, Run(u.lastSent, pub - u.lastSent), end) BY <1>2, <1>3, <2>2
  <2> QED BY <2>5, <2>6, TakenFacts
<1> QED BY <1>1, <1>5, <1>6

-----------------------------------------------------------------------------
(* The steps.                                                              *)

\* What the invariant says, in the form the steps use it.
LEMMA InvFacts ==
  ASSUME StreamInv
  PROVE  /\ published \in 0..Top /\ last \in {0, published} /\ onDisk \in Nat
         /\ sub \in Sub /\ Received(sub) /\ sub.lastSent \in Nat /\ sub.lastSent <= published
         /\ sub.since \in Nat /\ sub.scanned \in Nat /\ sub.through \in Nat
         /\ Served(sub, published, last, onDisk)
<1>1. published \in 0..Top /\ last \in {0, published} /\ onDisk \in Nat
  BY TopFacts DEF StreamInv, JobInv
<1>2. sub \in Sub /\ Received(sub) /\ sub.lastSent <= published BY DEF StreamInv, Served
<1>3. sub.lastSent \in Nat /\ sub.since \in Nat /\ sub.scanned \in Nat /\ sub.through \in Nat
  BY <1>2, TopFacts DEF Sub
<1> QED BY <1>1, <1>2, <1>3 DEF StreamInv

\* What a subscriber that is closed, now or before, is left with.
LEMMA CloseKeeps ==
  ASSUME StreamInv, UNCHANGED daemon, NEW why \in {"torn", "late", "gone"}, sub' = Close(sub, why)
  PROVE  StreamInv'
<1>1. JobInv' BY DEF StreamInv, JobInv, daemon
<1>2. Served(Close(sub, why), published, last, onDisk) BY InvFacts, CloseFacts
<1> QED BY <1>1, <1>2 DEF StreamInv, daemon

\* The replay sends an event that is next.
LEMMA ReplayedFacts ==
  ASSUME StreamInv, UNCHANGED daemon, NEW s \in Sub, Received(s), s.stage \in {"scan", "pending"},
         NEW n \in Nat, n = s.lastSent + 1, n <= Goal(s, published), s.buffer = sub.buffer,
         s.why = "open", s.wasLive \/ last # 0, Len(s.buffer) + Len(s.queue) <= Limit,
         Goal(s, published) <= published, sub' \in Replayed(s, n),
         \A v : /\ v.lastSent = n /\ v.since = s.since /\ v.through = s.through
                /\ v.floor = s.floor /\ (v.wasLive <=> s.wasLive) /\ v.scanned = s.scanned
                /\ v.pending = s.pending /\ v.stage = s.stage
                /\ v.buffer = s.buffer /\ v.queue = s.queue
                => Replays(v, published, onDisk)
  PROVE  StreamInv'
<1>1. JobInv' BY DEF StreamInv, JobInv, daemon
<1>2. published \in 0..Top /\ last \in {0, published} /\ s.lastSent \in Nat /\ n <= published
  <2>1. published \in 0..Top /\ last \in {0, published} /\ published \in Nat
    BY InvFacts, TopFacts
  <2>2. s.lastSent \in Nat /\ s.through \in Nat BY TopFacts DEF Sub
  <2>3. Goal(s, published) \in Nat BY <2>1, <2>2 DEF Goal
  <2>4. n <= published BY <2>1, <2>3
  <2> QED BY <2>1, <2>2, <2>4
<1>3. PICK w \in BOOLEAN : sub' = Write(s, <<n>>, last, w) BY DEF Replayed
<1> DEFINE v == sub'
<1>4. Sends(s, 1, n, last, w, v)
  <2>1. <<n>> = Run(s.lastSent, 1) BY <1>2, RunFacts
  <2>2. n <= Top BY <1>2, TopFacts
  <2> QED BY <1>3, <2>1, <2>2 DEF Sends
<1> HIDE DEF v
<1>5. Sent(s, n, last, w, v) BY Zenon, <1>4, WriteFacts
<1>6. v \in Sub /\ Received(v) /\ v.lastSent = n BY Zenon, <1>5 DEF Sent
<1>7. v.lastSent <= published BY <1>2, <1>6
<1>8. n = last => last # 0 /\ last = published BY <1>2
<1>9. CASE n = last /\ w
  <2>1. v.stage = "closed" /\ v.why = "ended" /\ v.queue = <<>> /\ v.buffer = <<>> /\ ~v.ending
    BY Zenon, <1>5, <1>9 DEF Sent
  <2>2. Len(v.buffer) + Len(v.queue) <= Limit BY <2>1, TopFacts
  <2>3. v.stage \notin {"scan", "pending", "live"} /\ v.stage # "none" BY <2>1
  <2>4. last # 0 /\ v.lastSent = published BY Zenon, <1>6, <1>8, <1>9
  <2>5. Served(v, published, last, onDisk)
    BY Zenon, <1>6, <1>7, <2>1, <2>2, <2>3, <2>4 DEF Served
  <2> QED BY <1>1, <2>5 DEF StreamInv, daemon, v
<1>10. CASE ~(n = last /\ w)
  <2>1. /\ v.stage = s.stage /\ v.why = s.why /\ v.through = s.through
        /\ v.since = s.since /\ v.floor = s.floor /\ v.wasLive = s.wasLive
        /\ v.scanned = s.scanned /\ v.pending = s.pending
        /\ v.buffer = s.buffer /\ v.queue = s.queue
        /\ (v.blocked <=> ~w) /\ (v.ending <=> n = last)
    BY Zenon, <1>5, <1>10 DEF Sent
  <2>2. Replays(v, published, onDisk) BY Zenon, <1>6, <2>1
  <2>3. v.ending => last # 0 /\ v.lastSent = published /\ v.blocked
    BY Zenon, <1>6, <1>8, <1>10, <2>1
  <2>4. v.stage # "live" /\ v.stage # "none" /\ v.stage # "closed" /\ v.why # "ended"
        /\ v.why = "open"
    BY <2>1
  <2>5. Len(v.buffer) + Len(v.queue) <= Limit BY Zenon, <2>1
  <2>6. v.wasLive \/ last # 0 BY Zenon, <2>1
  <2>7. Served(v, published, last, onDisk)
    BY Zenon, <1>6, <1>7, <2>2, <2>3, <2>4, <2>5, <2>6 DEF Served
  <2> QED BY <1>1, <2>7 DEF StreamInv, daemon, v
<1> QED BY <1>9, <1>10

\* The subscriber while the replay runs.
LEMMA ReplayFacts ==
  ASSUME StreamInv, sub.stage \in {"scan", "pending"}, NEW g, g = Goal(sub, published)
  PROVE  /\ g \in Nat /\ sub.since <= g /\ g <= published /\ sub.lastSent <= g /\ g <= sub.through
         /\ sub.since <= sub.lastSent /\ sub.queue = <<>>
         /\ sub.buffer = Run(g, published - g)
         /\ \A n \in sub.pending : sub.since < n /\ n <= g
         /\ sub.stage = "scan" =>
              /\ sub.lastSent = IF sub.scanned <= sub.since THEN sub.since
                                ELSE IF sub.scanned <= g THEN sub.scanned ELSE g
              /\ ~sub.wasLive => sub.scanned <= published /\ onDisk <= published
              /\ \A n \in (sub.since + 1)..g :
                   n \in sub.pending \/ (n <= sub.floor /\ n <= onDisk)
         /\ sub.stage = "pending" =>
              \A n \in (sub.since + 1)..g : n \in sub.pending \/ n <= sub.lastSent
         /\ sub.why = "open" /\ (sub.wasLive \/ last # 0)
         /\ Len(sub.buffer) + Len(sub.queue) <= Limit
         /\ sub.wasLive => g = sub.through
         /\ ~sub.wasLive => g = published
<1>1. Served(sub, published, last, onDisk) /\ Received(sub) BY InvFacts
<1>2. Replays(sub, published, onDisk) /\ sub.why = "open" /\ (sub.wasLive \/ last # 0)
      /\ Len(sub.buffer) + Len(sub.queue) <= Limit
  BY <1>1 DEF Served
<1>3. g \in Nat /\ (sub.wasLive => g = sub.through) /\ (~sub.wasLive => g = published)
  BY InvFacts, TopFacts DEF Goal
<1> QED BY <1>1, <1>2, <1>3 DEF Replays, Received

\* A record of the registry that nothing but the replay's position changed in.
LEMMA StillReplays ==
  ASSUME StreamInv, UNCHANGED daemon, sub.stage \in {"scan", "pending"}, NEW v \in Sub, sub' = v,
         v.stage \in {"scan", "pending"}, v.why = sub.why, v.received = sub.received,
         v.since = sub.since, v.lastSent = sub.lastSent, v.buffer = sub.buffer,
         v.queue = sub.queue, v.wasLive = sub.wasLive, v.ending => sub.ending,
         sub.blocked => v.blocked, Replays(v, published, onDisk)
  PROVE  StreamInv'
<1>1. JobInv' BY DEF StreamInv, JobInv, daemon
<1>2. Served(sub, published, last, onDisk) BY InvFacts
<1>3. Received(v) BY <1>2 DEF Served, Received
<1>4. v.ending => last # 0 /\ v.lastSent = published /\ v.blocked
  <2>1. sub.ending => last # 0 /\ sub.lastSent = published /\ sub.blocked BY Zenon, <1>2 DEF Served
  <2> QED BY Zenon, <2>1
<1>5. /\ Len(v.buffer) + Len(v.queue) <= Limit /\ v.lastSent <= published
      /\ v.wasLive \/ last # 0
  <2>1. /\ Len(sub.buffer) + Len(sub.queue) <= Limit /\ sub.lastSent <= published
        /\ sub.wasLive \/ last # 0
    BY <1>2 DEF Served
  <2> QED BY Zenon, <2>1
<1>6. v.why = "open" BY <1>2 DEF Served
<1>7. v.stage # "live" /\ v.stage # "none" /\ v.stage # "closed" /\ v.why # "ended" BY <1>6
<1>8. Served(v, published, last, onDisk)
  BY Zenon, <1>3, <1>4, <1>5, <1>6, <1>7 DEF Served
<1> QED BY <1>1, <1>8 DEF StreamInv, daemon

\* replayTimeline skips a line that is not asked for, and sends the one that is next.
LEMMA ScanNextInv ==
  ASSUME StreamInv, ScanNext
  PROVE  StreamInv'
<1>1. PICK n \in Nat : n = sub.scanned + 1 BY InvFacts
<1>2. PICK g \in Nat : g = Goal(sub, published) BY InvFacts, TopFacts DEF Goal
<1> DEFINE s == [sub EXCEPT !.scanned = n]
<1>3. /\ sub.stage = "scan" /\ ~sub.ending /\ n <= onDisk /\ UNCHANGED daemon
      /\ IF n > sub.since /\ n <= sub.through THEN sub' \in Replayed(s, n) ELSE sub' = s
  BY <1>1 DEF ScanNext
<1>4. /\ sub.since <= g /\ g <= published /\ sub.lastSent <= g /\ g <= sub.through
      /\ sub.since \in Nat /\ sub.scanned \in Nat /\ sub.through \in Nat /\ published \in Nat
      /\ onDisk \in Nat /\ sub.lastSent \in Nat
      /\ sub.lastSent = IF sub.scanned <= sub.since THEN sub.since
                        ELSE IF sub.scanned <= g THEN sub.scanned ELSE g
      /\ ~sub.wasLive => g = published /\ onDisk <= published
      /\ sub.wasLive => g = sub.through
  <2>1. sub.stage \in {"scan", "pending"} BY <1>3
  <2>2. /\ sub.since <= g /\ g <= published /\ sub.lastSent <= g /\ g <= sub.through
        /\ sub.lastSent = IF sub.scanned <= sub.since THEN sub.since
                          ELSE IF sub.scanned <= g THEN sub.scanned ELSE g
        /\ ~sub.wasLive => g = published /\ onDisk <= published
        /\ sub.wasLive => g = sub.through
    BY Zenon, <1>2, <1>3, <2>1, ReplayFacts
  <2>3. published \in Nat BY InvFacts, TopFacts
  <2> QED BY Zenon, <2>2, <2>3, InvFacts
<1>5. /\ sub.queue = <<>> /\ sub.buffer = Run(g, published - g) /\ sub.why = "open"
      /\ (sub.wasLive \/ last # 0) /\ Len(sub.buffer) + Len(sub.queue) <= Limit
      /\ \A m \in sub.pending : sub.since < m /\ m <= g
      /\ \A m \in (sub.since + 1)..g : m \in sub.pending \/ (m <= sub.floor /\ m <= onDisk)
  BY <1>2, <1>3, ReplayFacts
<1>6. /\ s \in Sub /\ s.scanned = n /\ s.lastSent = sub.lastSent /\ s.since = sub.since
      /\ s.through = sub.through /\ s.floor = sub.floor /\ s.wasLive = sub.wasLive
      /\ s.pending = sub.pending /\ s.stage = sub.stage /\ s.why = sub.why
      /\ s.buffer = sub.buffer /\ s.queue = sub.queue /\ s.received = sub.received
      /\ s.blocked = sub.blocked /\ s.ending = sub.ending
  <2>1. n \in 0..Top
    <3>1. onDisk \in 0..Top BY DEF StreamInv, JobInv
    <3> QED BY <1>3, <3>1, TopFacts
  <2>2. sub \in Sub BY InvFacts
  <2> QED BY <2>1, <2>2 DEF Sub
<1> HIDE DEF s
<1>7. ~sub.wasLive => n <= published BY <1>3, <1>4
<1>8. ASSUME NEW v, v.since = s.since, v.through = s.through, v.floor = s.floor,
             v.wasLive <=> s.wasLive, v.scanned = n, v.pending = s.pending, v.stage = s.stage,
             v.buffer = s.buffer, v.queue = s.queue,
             v.lastSent = IF n <= sub.since THEN sub.since ELSE IF n <= g THEN n ELSE g
      PROVE  Replays(v, published, onDisk)
  <2>1. Goal(v, published) = g BY <1>2, <1>6, <1>8 DEF Goal
  <2>2. v.lastSent <= g BY <1>4, <1>8
  <2>3. v.stage # "pending" BY <1>3, <1>6, <1>8
  <2>4. ~v.wasLive => n <= published /\ onDisk <= published BY Zenon, <1>4, <1>6, <1>7, <1>8
  <2> QED BY Zenon, <1>4, <1>5, <1>6, <1>8, <2>1, <2>2, <2>3, <2>4 DEF Replays
<1>9. CASE n > sub.since /\ n <= sub.through
  <2>1. sub' \in Replayed(s, n) BY <1>3, <1>9
  <2>2. n <= g
    <3>1. CASE sub.wasLive BY <1>4, <1>9, <3>1
    <3>2. CASE ~sub.wasLive BY <1>4, <1>7, <3>2
    <3> QED BY <3>1, <3>2
  <2>3. n = s.lastSent + 1 /\ (IF n <= sub.since THEN sub.since ELSE IF n <= g THEN n ELSE g) = n
    BY <1>1, <1>4, <1>6, <1>9, <2>2
  <2>4. Goal(s, published) = g BY <1>2, <1>6 DEF Goal
  <2>5. Received(s) BY InvFacts, <1>6 DEF Received
  <2>6. ASSUME NEW v, v.lastSent = n, v.since = s.since, v.through = s.through, v.floor = s.floor,
               v.wasLive <=> s.wasLive, v.scanned = s.scanned, v.pending = s.pending,
               v.stage = s.stage, v.buffer = s.buffer, v.queue = s.queue
        PROVE  Replays(v, published, onDisk)
    <3>1. v.lastSent = IF n <= sub.since THEN sub.since ELSE IF n <= g THEN n ELSE g
      BY <2>3, <2>6
    <3>2. v.scanned = n BY <1>6, <2>6
    <3> QED BY Zenon, <1>8, <2>6, <3>1, <3>2
  <2>7. s.stage \in {"scan", "pending"} /\ s.why = "open" /\ (s.wasLive \/ last # 0)
    BY <1>3, <1>5, <1>6
  <2>8. Len(s.buffer) + Len(s.queue) <= Limit BY Zenon, <1>5, <1>6
  <2> QED BY Zenon, <1>3, <1>4, <1>6, <2>1, <2>2, <2>3, <2>4, <2>5, <2>6, <2>7, <2>8, ReplayedFacts
<1>10. CASE ~(n > sub.since /\ n <= sub.through)
  <2>1. sub' = s BY <1>3, <1>10
  <2>2. s.lastSent = IF n <= sub.since THEN sub.since ELSE IF n <= g THEN n ELSE g
    <3>1. CASE n <= sub.since BY <1>1, <1>4, <1>6, <3>1
    <3>2. CASE n > sub.since
      <4>1. n > sub.through BY <1>1, <1>4, <1>10, <3>2
      <4>2. sub.wasLive BY <1>4, <1>7, <4>1
      <4>3. g = sub.through BY <1>4, <4>2
      <4> QED BY <1>1, <1>4, <1>6, <3>2, <4>1, <4>3
    <3> QED BY <1>4, <3>1, <3>2
  <2>3. Replays(s, published, onDisk) BY Zenon, <1>6, <1>8, <2>2
  <2>4. s.stage \in {"scan", "pending"} BY <1>3, <1>6
  <2>5. sub.stage \in {"scan", "pending"} BY <1>3
  <2> QED BY Zenon, <1>3, <1>6, <2>1, <2>3, <2>4, <2>5, StillReplays
<1> QED BY <1>9, <1>10

\* All that the file can still give has been read: the rest is in pending.
LEMMA ScanEndsInv ==
  ASSUME StreamInv, ScanEnds
  PROVE  StreamInv'
<1>1. PICK g \in Nat : g = Goal(sub, published) BY InvFacts, TopFacts DEF Goal
<1> DEFINE s == [sub EXCEPT !.stage = "pending"]
<1>2. /\ sub.stage = "scan" /\ UNCHANGED daemon /\ sub' = s
      /\ sub.scanned >= sub.floor \/ sub.scanned >= onDisk \/ sub.ending
  BY DEF ScanEnds
<1>3. sub.stage \in {"scan", "pending"} BY <1>2
<1>4. /\ sub.since <= g /\ g <= published /\ sub.lastSent <= g /\ g <= sub.through
      /\ sub.queue = <<>> /\ sub.buffer = Run(g, published - g)
      /\ \A m \in sub.pending : sub.since < m /\ m <= g
      /\ \A m \in (sub.since + 1)..g : m \in sub.pending \/ (m <= sub.floor /\ m <= onDisk)
      /\ sub.lastSent = IF sub.scanned <= sub.since THEN sub.since
                        ELSE IF sub.scanned <= g THEN sub.scanned ELSE g
  BY Zenon, <1>1, <1>2, <1>3, ReplayFacts
<1>5. sub \in Sub /\ sub.since \in Nat /\ sub.scanned \in Nat /\ sub.lastSent \in Nat
      /\ published \in Nat /\ onDisk \in Nat /\ sub.floor \in Nat
  BY InvFacts, TopFacts DEF Sub
<1>6. /\ s \in Sub /\ s.scanned = sub.scanned /\ s.lastSent = sub.lastSent /\ s.since = sub.since
      /\ s.through = sub.through /\ s.floor = sub.floor /\ s.wasLive = sub.wasLive
      /\ s.pending = sub.pending /\ s.stage = "pending" /\ s.why = sub.why
      /\ s.buffer = sub.buffer /\ s.queue = sub.queue /\ s.received = sub.received
      /\ (s.blocked <=> sub.blocked) /\ (s.ending <=> sub.ending)
  BY <1>5 DEF Sub
<1> HIDE DEF s
<1>7. \A m \in (sub.since + 1)..g : m \in sub.pending \/ m <= sub.lastSent
  <2>1. CASE sub.ending
    <3>1. sub.lastSent = published BY <2>1, InvFacts DEF Served
    <3> QED BY <1>4, <1>5, <3>1
  <2>2. CASE sub.scanned >= sub.floor \/ sub.scanned >= onDisk
    <3> SUFFICES ASSUME NEW m \in (sub.since + 1)..g, m \notin sub.pending
                 PROVE  m <= sub.lastSent
      OBVIOUS
    <3>1. m <= sub.floor /\ m <= onDisk /\ m \in Int /\ sub.since + 1 <= m /\ m <= g BY <1>4, <1>5
    <3>2. m <= sub.scanned BY <1>5, <2>2, <3>1
    <3> QED BY <1>4, <1>5, <3>1, <3>2
  <2> QED BY <1>2, <2>1, <2>2
<1>8. Goal(s, published) = g BY <1>1, <1>6 DEF Goal
<1>9. s.stage # "scan" BY <1>6
<1>10. Replays(s, published, onDisk) BY Zenon, <1>4, <1>6, <1>7, <1>8, <1>9 DEF Replays
<1>11. s.stage \in {"scan", "pending"} BY <1>6
<1> QED BY Zenon, <1>2, <1>3, <1>6, <1>10, <1>11, StillReplays

\* The least pending event is the next one, or has been sent from the file.
LEMMA ReplayPendingInv ==
  ASSUME StreamInv, ReplayPending
  PROVE  StreamInv'
<1>1. PICK g \in Nat : g = Goal(sub, published) BY InvFacts, TopFacts DEF Goal
<1>2. /\ sub \in Sub /\ sub.since \in Nat /\ sub.lastSent \in Nat /\ published \in Nat
      /\ sub.pending \in SUBSET Nat
  BY InvFacts, TopFacts DEF Sub
<1>3. /\ sub.stage = "pending" /\ sub.pending # {} /\ ~sub.ending /\ UNCHANGED daemon
  BY DEF ReplayPending
<1>4. PICK n \in sub.pending :
        /\ \A m \in sub.pending : n <= m
        /\ n = CHOOSE i \in sub.pending : \A m \in sub.pending : i <= m
  BY <1>2, <1>3, LeastNumber
<1> DEFINE s == [sub EXCEPT !.pending = @ \ {n}]
<1>5. n \in Nat /\ IF n > sub.lastSent THEN sub' \in Replayed(s, n) ELSE sub' = s
  BY <1>2, <1>4 DEF ReplayPending
<1>6. sub.stage \in {"scan", "pending"} BY <1>3
<1>7. /\ sub.since <= g /\ g <= published /\ sub.lastSent <= g /\ g <= sub.through
      /\ sub.since <= sub.lastSent /\ sub.queue = <<>> /\ sub.buffer = Run(g, published - g)
      /\ sub.why = "open" /\ (sub.wasLive \/ last # 0)
      /\ Len(sub.buffer) + Len(sub.queue) <= Limit
      /\ \A m \in sub.pending : sub.since < m /\ m <= g
      /\ \A m \in (sub.since + 1)..g : m \in sub.pending \/ m <= sub.lastSent
  BY Zenon, <1>1, <1>3, <1>6, ReplayFacts
<1>8. /\ s \in Sub /\ s.scanned = sub.scanned /\ s.lastSent = sub.lastSent /\ s.since = sub.since
      /\ s.through = sub.through /\ s.floor = sub.floor /\ s.wasLive = sub.wasLive
      /\ s.pending = sub.pending \ {n} /\ s.stage = "pending" /\ s.why = sub.why
      /\ s.buffer = sub.buffer /\ s.queue = sub.queue /\ s.received = sub.received
      /\ (s.blocked <=> sub.blocked) /\ (s.ending <=> sub.ending)
  <2>1. PICK p \in SUBSET (1..Top) : p = sub.pending \ {n} BY <1>2 DEF Sub
  <2>2. s = [sub EXCEPT !.pending = p] BY <2>1
  <2>3. s \in Sub /\ s.pending = p BY <1>2, <2>2 DEF Sub
  <2> QED BY <1>2, <1>3, <2>1, <2>2, <2>3 DEF Sub
<1> HIDE DEF s
<1>9. ASSUME NEW v, v.since = s.since, v.through = s.through, v.wasLive <=> s.wasLive,
             v.pending = s.pending, v.stage = s.stage, v.buffer = s.buffer, v.queue = s.queue,
             v.lastSent \in Nat, n <= v.lastSent, sub.lastSent <= v.lastSent, v.lastSent <= g
      PROVE  Replays(v, published, onDisk)
  <2>1. Goal(v, published) = g BY <1>1, <1>8, <1>9 DEF Goal
  <2>2. v.stage # "scan" BY <1>8, <1>9
  <2>3. \A m \in (v.since + 1)..g : m \in v.pending \/ m <= v.lastSent
    <3> SUFFICES ASSUME NEW m \in (sub.since + 1)..g, m \notin sub.pending \/ m = n
                 PROVE  m <= v.lastSent
      BY <1>8, <1>9
    <3>1. m = n \/ m <= sub.lastSent BY <1>7
    <3>2. m \in Int BY <1>2
    <3> QED BY <1>2, <1>9, <3>1, <3>2
  <2>4. \A m \in v.pending : v.since < m /\ m <= g BY <1>7, <1>8, <1>9
  <2> QED BY Zenon, <1>7, <1>8, <1>9, <2>1, <2>2, <2>3, <2>4 DEF Replays
<1>10. CASE n > sub.lastSent
  <2>1. sub' \in Replayed(s, n) BY <1>5, <1>10
  <2>2. n <= g BY <1>4, <1>7
  <2>3. n = s.lastSent + 1
    <3>1. sub.lastSent + 1 \in (sub.since + 1)..g BY <1>2, <1>5, <1>7, <1>10, <2>2
    <3>2. sub.lastSent + 1 \in sub.pending BY <1>2, <1>7, <3>1
    <3>3. n <= sub.lastSent + 1 BY <1>4, <3>2
    <3> QED BY <1>2, <1>5, <1>8, <1>10, <3>3
  <2>4. Goal(s, published) = g BY <1>1, <1>8 DEF Goal
  <2>5. Received(s) BY InvFacts, <1>8 DEF Received
  <2>6. n <= n /\ sub.lastSent <= n BY <1>2, <1>5, <1>10
  <2>7. s.stage \in {"scan", "pending"} /\ s.why = "open" /\ (s.wasLive \/ last # 0)
    BY <1>7, <1>8
  <2>8. Len(s.buffer) + Len(s.queue) <= Limit BY Zenon, <1>7, <1>8
  <2> QED BY Zenon, <1>3, <1>5, <1>7, <1>8, <1>9, <2>1, <2>2, <2>3, <2>4, <2>5, <2>6, <2>7, <2>8,
       ReplayedFacts
<1>11. CASE ~(n > sub.lastSent)
  <2>1. sub' = s BY <1>5, <1>11
  <2>2. n <= s.lastSent /\ sub.lastSent <= s.lastSent /\ s.lastSent <= g /\ s.lastSent \in Nat
    BY <1>2, <1>5, <1>7, <1>8, <1>11
  <2>3. Replays(s, published, onDisk) BY Zenon, <1>9, <2>2
  <2>4. s.stage \in {"scan", "pending"} BY <1>8
  <2> QED BY Zenon, <1>3, <1>6, <1>8, <2>1, <2>3, <2>4, StillReplays
<1> QED BY <1>10, <1>11

\* The subscriber goes live, or the response of a finished job ends.
LEMMA ReplayEndsInv ==
  ASSUME StreamInv, ReplayEnds
  PROVE  StreamInv'
<1>1. /\ sub.stage = "pending" /\ (sub.pending = {} \/ sub.ending) /\ UNCHANGED daemon
      /\ IF sub.wasLive THEN sub' \in FinishReplay(sub, last)
         ELSE IF sub.blocked THEN sub' = [sub EXCEPT !.stage = "live", !.ending = TRUE]
         ELSE sub' = Close(sub, "ended")
  BY DEF ReplayEnds, GoesLive
<1>2. JobInv' BY <1>1 DEF StreamInv, JobInv, daemon
<1>3. /\ published \in 0..Top /\ last \in {0, published} /\ sub \in Sub /\ Received(sub)
      /\ sub.lastSent \in Nat /\ sub.lastSent <= published
      /\ Served(sub, published, last, onDisk)
  BY InvFacts
<1> SUFFICES Served(sub', published, last, onDisk) BY <1>1, <1>2 DEF StreamInv, daemon
<1>4. CASE sub.wasLive
  BY <1>1, <1>3, <1>4, FinishFacts
<1>5. CASE ~sub.wasLive
  <2>1. sub.lastSent = published BY <1>1, <1>3, <1>5, AllSent DEF Goal
  <2>2. last # 0 /\ sub.why = "open" /\ sub.queue = <<>> /\ sub.buffer = Run(published, published - published)
    BY <1>1, <1>3, <1>5 DEF Served, Replays, Goal
  <2>3. CASE ~sub.blocked
    <3>1. sub' = Close(sub, "ended") BY <1>1, <1>5, <2>3
    <3> QED BY <1>3, <2>1, <2>2, <3>1, CloseFacts
  <2>4. CASE sub.blocked
    <3>1. sub' = [sub EXCEPT !.stage = "live", !.ending = TRUE] BY <1>1, <1>5, <2>4
    <3>2. PICK v : v = sub' OBVIOUS
    <3>3. /\ v \in Sub /\ v.lastSent = sub.lastSent /\ v.since = sub.since
          /\ v.received = sub.received /\ v.stage = "live" /\ v.why = "open" /\ v.blocked
          /\ v.ending /\ v.buffer = sub.buffer /\ v.queue = <<>>
      BY <1>3, <2>2, <2>4, <3>1, <3>2 DEF Sub
    <3>4. Run(published, published - published) = <<>>
      <4>1. published \in Nat /\ published - published = 0 BY <1>3, TopFacts
      <4> QED BY <4>1, RunFacts
    <3>5. GoesOn(v, published) BY Zenon, <2>1, <2>2, <3>3, <3>4 DEF GoesOn
    <3>6. Len(v.buffer) + Len(v.queue) <= Limit
      <4>1. Len(v.buffer) = 0 /\ Len(v.queue) = 0 BY <2>2, <3>3, <3>4
      <4> QED BY <4>1, TopFacts
    <3>7. Received(v) BY <1>3, <3>3 DEF Received
    <3>8. v.stage \notin {"scan", "pending"} /\ v.stage # "none" /\ v.why # "ended" BY <3>3
    <3> QED BY Zenon, <1>3, <2>1, <2>2, <3>2, <3>3, <3>5, <3>6, <3>7, <3>8 DEF Served
  <2> QED BY <2>3, <2>4
<1> QED BY <1>4, <1>5

\* The replay is fixed before the first await: the file, pending and the buffer
\* have every event after `since'.
LEMMA RegisterInv ==
  ASSUME StreamInv, NEW since \in 0..Top, Register(since)
  PROVE  StreamInv'
<1>1. PICK through : through = IF last # 0 THEN Top ELSE published OBVIOUS
<1>2. PICK blocked \in BOOLEAN :
        sub' = IF stopped THEN Close(Registered(since, through, blocked), "stopped")
               ELSE Registered(since, through, blocked)
  BY <1>1 DEF Register
<1>3. since <= published /\ (last # 0 => last = settled) /\ UNCHANGED daemon BY DEF Register
<1>4. JobInv' BY <1>3 DEF StreamInv, JobInv, daemon
<1>5. JobInv /\ published \in Nat /\ onDisk \in 0..Top /\ since \in Nat /\ published <= Top
      /\ accepted \in Nat /\ settled \in Nat /\ accepted <= Top /\ published \in 0..Top
  BY TopFacts DEF StreamInv, JobInv
<1>6. PICK b \in BOOLEAN : b <=> last = 0 OBVIOUS
<1>7. PICK p \in SUBSET (1..Top) : p = PendingEvents(since, through)
  <2>1. \A n \in (settled + 1)..accepted : n \in 1..Top BY <1>5, TopFacts
  <2> QED BY <2>1 DEF PendingEvents
<1>8. through \in 0..Top /\ published <= through /\ (b => through = published)
  BY <1>1, <1>5, <1>6, TopFacts
<1>9. PICK v : v = Registered(since, through, blocked) OBVIOUS
<1>10. v = [stage |-> "scan", why |-> "open", at |-> "none", since |-> since, through |-> through,
            floor |-> onDisk, wasLive |-> b, scanned |-> 0, pending |-> p, buffer |-> <<>>,
            queue |-> <<>>, blocked |-> blocked, ending |-> FALSE, lastSent |-> since,
            received |-> <<>>]
  BY <1>6, <1>7, <1>9 DEF Registered, NoSub
<1>11. v \in Sub
  <2>1. <<>> \in Seq(1..Top) /\ 0 \in 0..Top BY TopFacts
  <2> QED BY <1>5, <1>8, <1>10, <2>1 DEF Sub
<1>12. /\ v.stage = "scan" /\ v.why = "open" /\ v.since = since /\ v.through = through
       /\ v.floor = onDisk /\ (v.wasLive <=> last = 0) /\ v.scanned = 0 /\ v.pending = p
       /\ v.buffer = <<>> /\ v.queue = <<>> /\ ~v.ending /\ v.lastSent = since
       /\ v.received = <<>>
  BY <1>6, <1>10
<1>13. Run(since, since - since) = <<>> /\ Run(published, published - published) = <<>>
  <2>1. since - since = 0 /\ published - published = 0 BY <1>5
  <2> QED BY <1>5, <2>1, RunFacts
<1>14. Received(v) BY <1>5, <1>12, <1>13 DEF Received
<1>15. Goal(v, published) = published BY <1>6, <1>8, <1>12 DEF Goal
<1>16. \A n \in p : since < n /\ n <= published
  <2> SUFFICES ASSUME NEW n \in p PROVE since < n /\ n <= published OBVIOUS
  <2>1. n \in (settled + 1)..accepted /\ n > since /\ n <= through BY <1>7 DEF PendingEvents
  <2>2. CASE last = 0 BY <1>5, <1>1, <2>1, <2>2
  <2>3. CASE last # 0 BY <1>3, <1>5, <2>1, <2>3 DEF JobInv
  <2> QED BY <2>2, <2>3
<1>17. \A n \in (since + 1)..published : n \in p \/ (n <= onDisk /\ n <= onDisk)
  <2> SUFFICES ASSUME NEW n \in (since + 1)..published, ~(n <= onDisk) PROVE n \in p OBVIOUS
  <2>1. settled <= onDisk /\ onDisk <= accepted /\ n \in Int /\ onDisk \in Nat
    BY <1>5, TopFacts DEF JobInv
  <2>2. CASE last # 0 BY <1>3, <1>5, <2>1, <2>2 DEF JobInv
  <2>3. CASE last = 0
    <3>1. published <= accepted BY <1>5, <2>3 DEF JobInv
    <3>2. n \in (settled + 1)..accepted /\ n > since /\ n <= through
      BY <1>5, <1>8, <2>1, <3>1
    <3> QED BY <1>7, <3>2 DEF PendingEvents
  <2> QED BY <2>2, <2>3
<1>18. ~v.wasLive => 0 <= published /\ onDisk <= published
  <2>1. last # 0 => onDisk <= published BY <1>5, TopFacts DEF JobInv
  <2> QED BY <1>5, <1>12, <2>1
<1>19. 0 <= since BY <1>5
<1>20. Replays(v, published, onDisk)
  <2>1. since <= published /\ published <= published /\ v.stage # "pending" BY <1>3, <1>5, <1>12
  <2> QED BY <1>8, <1>12, <1>13, <1>15, <1>16, <1>17, <1>18, <1>19, <2>1 DEF Replays
<1>21. Len(v.buffer) + Len(v.queue) <= Limit
  <2>1. Len(v.buffer) = 0 /\ Len(v.queue) = 0 BY <1>12
  <2> QED BY <2>1, TopFacts
<1>22. v.lastSent <= published BY <1>3, <1>12
<1>23. v.stage # "live" /\ v.stage # "none" /\ v.stage # "closed" /\ v.why # "ended" BY <1>12
<1>24. Served(v, published, last, onDisk)
  BY Zenon, <1>11, <1>12, <1>14, <1>20, <1>21, <1>22, <1>23 DEF Served
<1>25. Served(Close(v, "stopped"), published, last, onDisk)
  BY <1>5, <1>11, <1>14, <1>22, CloseFacts
<1>26. Served(sub', published, last, onDisk) BY Zenon, <1>2, <1>9, <1>24, <1>25
<1> QED BY <1>3, <1>4, <1>26 DEF StreamInv, daemon

\* What has been published reaches the subscriber, in any state of the replay
\* and of the socket.
LEMMA PublishEventInv ==
  ASSUME StreamInv, PublishEvent
  PROVE  StreamInv'
<1>1. /\ ~closing /\ last = 0 /\ published < MaxPublished /\ accepted' = accepted + 1
      /\ published' = published + 1 /\ UNCHANGED <<onDisk, settled, closing, last, stopped>>
      /\ \E w \in BOOLEAN : sub' = Publish(sub, published + 1, 0, w)
  BY DEF PublishEvent
<1>2. JobInv' BY <1>1, TopFacts DEF StreamInv, JobInv
<1>3. published \in 0..Top /\ published + 1 <= Top /\ Served(sub, published, 0, onDisk)
  BY <1>1, InvFacts, TopFacts
<1>4. PICK w \in BOOLEAN : sub' = Publish(sub, published + 1, 0, w) BY <1>1
<1>5. Served(sub', published + 1, IF 0 = published + 1 THEN 0 ELSE 0, onDisk)
  BY <1>3, <1>4, PublishFacts
<1> QED BY <1>1, <1>2, <1>5 DEF StreamInv

\* Appends, and what precedes the publication of done, concern the file alone.
LEMMA AppendInv ==
  ASSUME StreamInv, AppendLands \/ AppendSettles \/ BeginDone \/ AcceptDone
  PROVE  StreamInv'
<1>1. CASE AppendLands
  <2>1. /\ onDisk = settled /\ settled < accepted /\ onDisk' = onDisk + 1
        /\ UNCHANGED <<accepted, settled, published, closing, last, stopped, sub>>
    BY <1>1 DEF AppendLands
  <2>2. JobInv' /\ last = 0 BY <2>1, TopFacts DEF StreamInv, JobInv
  <2>3. published \in 0..Top /\ onDisk \in Nat /\ onDisk + 1 \in Nat /\ onDisk <= onDisk + 1
    BY InvFacts
  <2>4. Served(sub, published, last, onDisk + 1) BY <2>2, <2>3, InvFacts, DiskFacts
  <2> QED BY <2>1, <2>2, <2>4 DEF StreamInv
<1>2. CASE AppendSettles
  BY <1>2, TopFacts DEF StreamInv, JobInv, AppendSettles
<1>3. CASE BeginDone
  BY <1>3 DEF StreamInv, JobInv, BeginDone
<1>4. CASE AcceptDone
  BY <1>4, TopFacts DEF StreamInv, JobInv, AcceptDone
<1> QED BY <1>1, <1>2, <1>3, <1>4

\* The closing event reaches the subscriber in the same way.
LEMMA PublishDoneInv ==
  ASSUME StreamInv, PublishDone
  PROVE  StreamInv'
<1>1. /\ closing /\ last = 0 /\ settled = published + 1
      /\ published' = published + 1 /\ last' = published + 1
      /\ UNCHANGED <<accepted, onDisk, settled, closing, stopped>>
      /\ \E w \in BOOLEAN : sub' = Publish(sub, published + 1, published + 1, w)
  BY DEF PublishDone
<1>2. JobInv' BY <1>1, TopFacts DEF StreamInv, JobInv
<1>3. published \in 0..Top /\ published + 1 <= Top /\ Served(sub, published, 0, onDisk)
  <2>1. published <= MaxPublished BY <1>1 DEF StreamInv, JobInv
  <2> QED BY <1>1, <2>1, InvFacts, TopFacts
<1>4. PICK w \in BOOLEAN : sub' = Publish(sub, published + 1, published + 1, w) BY <1>1
<1>5. Served(sub', published + 1, IF published + 1 = published + 1 THEN published + 1 ELSE 0, onDisk)
  BY <1>3, <1>4, PublishFacts
<1> QED BY <1>1, <1>2, <1>5 DEF StreamInv

\* So do the two events of a failed timeline, which are on no disk.
LEMMA FailInv ==
  ASSUME StreamInv, Fail
  PROVE  StreamInv'
<1>1. /\ last = 0 /\ published' = published + 2 /\ last' = published + 2
      /\ onDisk' = IF onDisk > published THEN published ELSE onDisk
      /\ settled' = onDisk' /\ accepted' = onDisk' /\ UNCHANGED <<closing, stopped>>
      /\ \E w1, w2 \in BOOLEAN :
           sub' = Publish(Publish(sub, published + 1, published + 2, w1),
                          published + 2, published + 2, w2)
  BY DEF Fail
<1>2. /\ published \in 0..Top /\ published + 1 \in 0..Top /\ published + 2 <= Top
      /\ onDisk \in 0..Top /\ onDisk' \in 0..Top /\ onDisk' <= published
      /\ onDisk <= onDisk' \/ published <= onDisk'
  BY <1>1, TopFacts DEF StreamInv, JobInv
<1>3. JobInv' BY <1>1, <1>2, TopFacts DEF StreamInv, JobInv
<1>4. Served(sub, published, 0, onDisk') BY <1>1, <1>2, InvFacts, DiskFacts, TopFacts
<1>5. PICK w1 \in BOOLEAN, w2 \in BOOLEAN :
        sub' = Publish(Publish(sub, published + 1, published + 2, w1),
                       published + 2, published + 2, w2)
  BY <1>1
<1> DEFINE s == Publish(sub, published + 1, published + 2, w1)
<1>6. Served(s, published + 1, 0, onDisk')
  <2>1. Served(s, published + 1, IF published + 2 = published + 1 THEN published + 2 ELSE 0, onDisk')
    BY <1>2, <1>4, PublishFacts
  <2>2. published + 2 # published + 1 BY <1>2
  <2> QED BY <2>1, <2>2
<1>7. sub' = Publish(s, published + 2, published + 2, w2) BY <1>5
<1> HIDE DEF s
<1>8. PICK pub \in 0..Top : pub = published + 1 BY <1>2
<1>9. published + 2 = pub + 1 /\ pub + 1 <= Top BY <1>2, <1>8
<1>10. Served(sub', pub + 1, IF pub + 1 = pub + 1 THEN pub + 1 ELSE 0, onDisk')
  <2>1. sub' = Publish(s, pub + 1, pub + 1, w2) BY <1>7, <1>9
  <2>2. Served(s, pub, 0, onDisk') BY <1>6, <1>8
  <2> QED BY <1>9, <2>1, <2>2, PublishFacts
<1> QED BY <1>1, <1>3, <1>9, <1>10 DEF StreamInv

\* The daemon is shut down.
LEMMA ShutdownInv ==
  ASSUME StreamInv, Shutdown
  PROVE  StreamInv'
<1>1. /\ stopped' = TRUE /\ UNCHANGED <<accepted, onDisk, settled, published, closing, last>>
      /\ \/ sub' = sub
         \/ sub' = Close(sub, "gone")
         \/ sub' = Close(sub, "stopped")
  BY DEF Shutdown
<1>2. JobInv' BY <1>1 DEF StreamInv, JobInv
<1>3. Served(sub', published, last, onDisk) BY <1>1, InvFacts, CloseFacts
<1> QED BY <1>1, <1>2, <1>3 DEF StreamInv

\* The socket drains, or the subscriber is closed.
LEMMA SocketInv ==
  ASSUME StreamInv, Drain \/ Finish \/ DrainTimeout \/ Gone \/ ScanTorn
  PROVE  StreamInv'
<1>1. UNCHANGED daemon BY DEF Drain, Finish, DrainTimeout, Gone, ScanTorn
<1>2. JobInv' BY <1>1 DEF StreamInv, JobInv, daemon
<1>3. CASE Drain
  <2>1. Open(sub) /\ ~sub.ending /\ sub' \in Drained(sub, last) BY <1>3 DEF Drain
  <2>2. Served(sub', published, last, onDisk) BY <2>1, InvFacts, DrainFacts
  <2> QED BY <1>1, <1>2, <2>2 DEF StreamInv, daemon
<1>4. CASE Finish
  <2>1. sub' = Close(sub, "ended") /\ sub.ending BY <1>4 DEF Finish
  <2>2. last # 0 /\ sub.lastSent = published BY <2>1, InvFacts DEF Served
  <2>3. Served(sub', published, last, onDisk) BY <2>1, <2>2, InvFacts, CloseFacts
  <2> QED BY <1>1, <1>2, <2>3 DEF StreamInv, daemon
<1>5. CASE DrainTimeout BY <1>1, <1>5, CloseKeeps DEF DrainTimeout
<1>6. CASE Gone BY <1>1, <1>6, CloseKeeps DEF Gone
<1>7. CASE ScanTorn BY <1>1, <1>7, CloseKeeps DEF ScanTorn
<1> QED BY <1>3, <1>4, <1>5, <1>6, <1>7

\* A job that has no subscriber yet satisfies the invariant ...
LEMMA InitStream == StreamInit => StreamInv
<1> SUFFICES ASSUME StreamInit PROVE StreamInv OBVIOUS
<1>1. JobInv
  <2>1. /\ accepted = 0 /\ onDisk = 0 /\ settled = 0 /\ published = 0 /\ last = 0
        /\ closing \in BOOLEAN /\ stopped \in BOOLEAN
    BY DEF StreamInit
  <2> QED BY <2>1, TopFacts DEF JobInv
<1>2. sub = NoSub /\ published = 0 /\ last = 0 BY DEF StreamInit
<1>3. NoSub \in Sub
  <2>1. <<>> \in Seq(1..Top) /\ 0 \in 0..Top /\ {} \in SUBSET (1..Top) BY TopFacts
  <2> QED BY <2>1 DEF NoSub, Sub
<1>4. Run(0, 0 - 0) = <<>> BY RunFacts
<1>5. Received(NoSub) BY <1>4 DEF Received, NoSub
<1>6. Served(NoSub, 0, 0, onDisk) BY <1>3, <1>5, TopFacts DEF Served, NoSub
<1> QED BY <1>1, <1>2, <1>6 DEF StreamInv

\* ... every step keeps it ...
LEMMA StreamStep == StreamInv /\ [StreamNext]_streamVars => StreamInv'
<1> SUFFICES ASSUME StreamInv, [StreamNext]_streamVars PROVE StreamInv' OBVIOUS
<1>1. CASE PublishEvent BY <1>1, PublishEventInv
<1>2. CASE AppendLands \/ AppendSettles \/ BeginDone \/ AcceptDone BY <1>2, AppendInv
<1>3. CASE PublishDone BY <1>3, PublishDoneInv
<1>4. CASE Fail BY <1>4, FailInv
<1>5. CASE \E since \in 0..Top : Register(since) BY <1>5, RegisterInv
<1>6. CASE Drain \/ Finish \/ DrainTimeout \/ Gone \/ ScanTorn BY <1>6, SocketInv
<1>6a. CASE Shutdown BY <1>6a, ShutdownInv
<1>7. CASE ScanNext BY <1>7, ScanNextInv
<1>8. CASE ScanEnds BY <1>8, ScanEndsInv
<1>9. CASE ReplayPending BY <1>9, ReplayPendingInv
<1>10. CASE ReplayEnds BY <1>10, ReplayEndsInv
<1>11. CASE UNCHANGED streamVars BY <1>11 DEF streamVars, StreamInv, JobInv
<1> QED
  BY <1>1, <1>2, <1>3, <1>4, <1>5, <1>6, <1>6a, <1>7, <1>8, <1>9, <1>10, <1>11
  DEF StreamNext, Replay, Socket

\* ... so that it holds in every reachable state.
LEMMA StreamInvariance == StreamSpec => []StreamInv
BY InitStream, StreamStep, PTL DEF StreamSpec

\* Whatever interleaving of appends, publications, replay and backpressure, the
\* client of streamJob receives the events after the sequence it asked for in
\* order, without a gap and without a repetition.
THEOREM GaplessCorrect == StreamSpec => []NoGapNoRepeat
<1>1. StreamInv => NoGapNoRepeat
  <2> SUFFICES ASSUME StreamInv PROVE NoGapNoRepeat OBVIOUS
  <2>1. PICK m \in Nat : m = sub.lastSent - sub.since BY InvFacts DEF Received
  <2>2. sub.received = Run(sub.since, m) BY <2>1, InvFacts DEF Received
  <2>3. Len(sub.received) = m
    <3>1. sub.since \in Nat BY InvFacts
    <3>2. Len(Run(sub.since, m)) = m BY <3>1, RunFacts
    <3> QED BY <2>2, <3>2
  <2> QED BY <2>2, <2>3 DEF NoGapNoRepeat, Run
<1> QED BY <1>1, StreamInvariance, PTL

-----------------------------------------------------------------------------
(* What closes a subscriber: a torn line only during the scan, a shutdown  *)
(* only when there is one.                                                 *)

Fate(s, down) ==
  /\ {"why", "at", "stage"} \subseteq DOMAIN s
  /\ s.why = "torn" => s.at = "scan"
  /\ s.why = "stopped" => down

\* Any other closing, and any change of the other fields, keeps this.
LEMMA FateCloses ==
  ASSUME NEW s, NEW down, Fate(s, down), NEW why \in {"ended", "overflow", "late", "gone"}
  PROVE  Fate(Close(s, why), down)
BY DEF Fate, Close

LEMMA FateWrites ==
  ASSUME NEW s, NEW down, Fate(s, down), NEW events, NEW done, NEW w
  PROVE  Fate(Write(s, events, done, w), down)
<1> DEFINE n == events[Len(events)]
           v == [s EXCEPT !.received = @ \o events, !.lastSent = n, !.blocked = ~w,
                          !.ending = n = done /\ ~w]
<1>1. Fate(v, down) BY DEF Fate
<1>2. Fate(Close(v, "ended"), down) BY <1>1, FateCloses
<1>3. Write(s, events, done, w) \in {s, v, Close(v, "ended")} BY DEF Write
<1> QED BY Zenon, <1>1, <1>2, <1>3

\* The operations of the registry keep it ...
LEMMA FateKept ==
  ASSUME NEW s, NEW down, Fate(s, down), NEW done
  PROVE  /\ \A n, w : Fate(Publish(s, n, done, w), down)
         /\ \A events : \A t \in Taken(s, events, done) : Fate(t, down)
         /\ \A t \in Drained(s, done) : Fate(t, down)
         /\ \A t \in FinishReplay(s, done) : Fate(t, down)
<1>1. ASSUME NEW r, Fate(r, down), NEW events, NEW k, NEW w
      PROVE  Fate(WriteSome(r, events, k, done, w), down)
  <2>1. PICK u : u = Write(r, SubSeq(events, 1, k), done, w) OBVIOUS
  <2>2. Fate(u, down) BY <1>1, <2>1, FateWrites
  <2>3. WriteSome(r, events, k, done, w) = [u EXCEPT !.queue = SubSeq(events, k + 1, Len(events))]
    BY <2>1 DEF WriteSome
  <2> QED BY <2>2, <2>3 DEF Fate
<1>2. ASSUME NEW r, Fate(r, down), NEW events, NEW t \in Taken(r, events, done)
      PROVE  Fate(t, down)
  <2>1. CASE r.blocked
    <3>1. t = [r EXCEPT !.queue = @ \o events] BY <1>2, <2>1 DEF Taken
    <3> QED BY <1>2, <3>1 DEF Fate
  <2>2. CASE ~r.blocked
    <3>1. \E k, w : t = WriteSome(r, events, k, done, w) BY <1>2, <2>2 DEF Taken
    <3> QED BY Zenon, <1>1, <1>2, <3>1
  <2> QED BY <2>1, <2>2
<1>3. ASSUME NEW n, NEW w PROVE Fate(Publish(s, n, done, w), down)
  <2>1. Fate(Close(s, "overflow"), down) BY FateCloses
  <2>2. Fate([s EXCEPT !.buffer = Append(@, n)], down) /\ Fate([s EXCEPT !.queue = Append(@, n)], down)
    BY DEF Fate
  <2>3. Fate(Write(s, <<n>>, done, w), down) BY FateWrites
  <2> QED BY Zenon, <2>1, <2>2, <2>3 DEF Publish, ToBuffer, ToQueue
<1>4. ASSUME NEW t \in Drained(s, done) PROVE Fate(t, down)
  <2>1. Fate([s EXCEPT !.blocked = FALSE, !.queue = <<>>], down) BY DEF Fate
  <2>2. t = s \/ t \in Taken([s EXCEPT !.blocked = FALSE, !.queue = <<>>], s.queue, done)
    BY <1>4 DEF Drained
  <2> QED BY Zenon, <1>2, <2>1, <2>2
<1>5. ASSUME NEW t \in FinishReplay(s, done) PROVE Fate(t, down)
  <2>1. Fate([s EXCEPT !.stage = "live", !.buffer = <<>>], down) BY DEF Fate
  <2>2. t \in Taken([s EXCEPT !.stage = "live", !.buffer = <<>>], NotSent(s), done)
    BY <1>5 DEF FinishReplay
  <2> QED BY Zenon, <1>2, <2>1, <2>2
<1> QED BY Zenon, <1>2, <1>3, <1>4, <1>5

\* ... and so does every step.
LEMMA FateStep ==
  ASSUME Fate(sub, stopped), [StreamNext]_streamVars
  PROVE  Fate(sub', stopped')
<1>1. CASE UNCHANGED <<sub, stopped>> BY <1>1
<1>2. CASE PublishEvent \/ PublishDone
  BY Zenon, <1>2, FateKept DEF PublishEvent, PublishDone
<1>3. CASE Fail
  <2>1. PICK w1, w2 :
          sub' = Publish(Publish(sub, published + 1, published + 2, w1),
                         published + 2, published + 2, w2)
    BY Zenon, <1>3 DEF Fail
  <2>2. Fate(Publish(sub, published + 1, published + 2, w1), stopped) BY Zenon, FateKept
  <2> QED BY Zenon, <1>3, <2>1, <2>2, FateKept DEF Fail
<1>4. CASE \E since \in 0..Top : Register(since)
  <2>1. PICK s : /\ sub' = IF stopped THEN Close(s, "stopped") ELSE s
                 /\ \E since, through, blocked : s = Registered(since, through, blocked)
    BY Zenon, <1>4 DEF Register
  <2>1a. /\ s.why = "open" /\ {"why", "at", "stage"} \subseteq DOMAIN s
    BY <2>1 DEF Registered, NoSub
  <2>2. stopped' = stopped BY <1>4 DEF Register, daemon
  <2> QED BY <2>1, <2>1a, <2>2 DEF Fate, Close
<1>5. CASE Shutdown
  <2>1. stopped' = TRUE /\ (sub' = sub \/ sub' = Close(sub, "gone") \/ sub' = Close(sub, "stopped"))
    BY <1>5 DEF Shutdown
  <2> QED BY <2>1 DEF Fate, Close
<1>6. CASE ScanTorn BY <1>6 DEF ScanTorn, daemon, Fate, Close
<1>7. CASE Finish \/ DrainTimeout \/ Gone
  BY Zenon, <1>7, FateCloses DEF Finish, DrainTimeout, Gone, daemon
<1>8. CASE Drain BY Zenon, <1>8, FateKept DEF Drain, daemon
<1>9. CASE ScanNext \/ ReplayPending
  <2>1. PICK s, n : (sub' = s \/ \E w : sub' = Write(s, <<n>>, last, w)) /\ Fate(s, stopped)
    <3>1. CASE ScanNext
      <4>1. Fate([sub EXCEPT !.scanned = sub.scanned + 1], stopped) BY DEF Fate
      <4> QED BY Zenon, <3>1, <4>1 DEF ScanNext, Replayed
    <3>2. CASE ReplayPending
      <4>1. \A n : Fate([sub EXCEPT !.pending = @ \ {n}], stopped) BY DEF Fate
      <4> QED BY Zenon, <3>2, <4>1 DEF ReplayPending, Replayed
    <3> QED BY <1>9, <3>1, <3>2
  <2>2. stopped' = stopped BY <1>9 DEF ScanNext, ReplayPending, daemon
  <2> QED BY Zenon, <2>1, <2>2, FateWrites
<1>10. CASE ScanEnds BY <1>10 DEF ScanEnds, daemon, Fate
<1>11. CASE ReplayEnds
  <2>1. \/ sub' \in FinishReplay(sub, last)
        \/ sub' = [sub EXCEPT !.stage = "live", !.ending = TRUE]
        \/ sub' = Close(sub, "ended")
    BY <1>11 DEF ReplayEnds
  <2>2. Fate([sub EXCEPT !.stage = "live", !.ending = TRUE], stopped) BY DEF Fate
  <2>3. stopped' = stopped BY <1>11 DEF ReplayEnds, daemon
  <2> QED BY Zenon, <2>1, <2>2, <2>3, FateKept, FateCloses
<1>12. CASE AppendLands \/ AppendSettles \/ BeginDone \/ AcceptDone
  BY <1>1, <1>12 DEF AppendLands, AppendSettles, BeginDone, AcceptDone
<1> QED
  BY <1>1, <1>2, <1>3, <1>4, <1>5, <1>6, <1>7, <1>8, <1>9, <1>10, <1>11, <1>12
  DEF StreamNext, Replay, Socket, streamVars

\* In every reachable state a subscriber was closed as Fate says.
LEMMA FateInvariance == StreamSpec => []Fate(sub, stopped)
<1>1. StreamInit => Fate(sub, stopped) BY DEF StreamInit, NoSub, Fate
<1>2. Fate(sub, stopped) /\ [StreamNext]_streamVars => Fate(sub, stopped)' BY FateStep
<1> QED BY <1>1, <1>2, PTL DEF StreamSpec

\* A sequence of at most Limit elements.
LEMMA BoundedSeqs ==
  ASSUME NEW S, NEW q \in Seq(S), Len(q) <= Limit
  PROVE  q \in Seqs(S)
<1>1. Len(q) \in 0..Limit /\ q \in [1..Len(q) -> S] BY TopFacts
<1> QED BY <1>1 DEF Seqs

\* What waits for a subscriber stays within maxQueuedEvents and waits behind a
\* blocked socket; and a response whose scan of the file is over ends in the
\* regular way (res.end) only with the terminal event sent, or on a shutdown of
\* the daemon.
THEOREM StreamQueueCorrect == StreamSpec => []QueueIsSound
<1>1. StreamInv /\ Fate(sub, stopped) => QueueIsSound
  <2> SUFFICES ASSUME StreamInv, Fate(sub, stopped) PROVE QueueIsSound OBVIOUS
  <2>1. Served(sub, published, last, onDisk) /\ sub \in Sub /\ published \in 0..Top
        /\ last \in {0, published}
    BY InvFacts
  <2>2. Len(sub.buffer) + Len(sub.queue) <= Limit BY <2>1 DEF Served
  <2>3. sub.buffer \in Seqs(1..Top) /\ sub.queue \in Seqs(1..Top)
    <3>1. sub.buffer \in Seq(1..Top) /\ sub.queue \in Seq(1..Top) BY <2>1 DEF Sub
    <3>2. Len(sub.buffer) \in Nat /\ Len(sub.queue) \in Nat BY <3>1
    <3>3. Len(sub.buffer) <= Limit /\ Len(sub.queue) <= Limit
      <4>1. \A a, b \in Nat : a + b <= Limit => a <= Limit /\ b <= Limit BY TopFacts
      <4> QED BY Zenon, <2>2, <3>2, <4>1
    <3> QED BY <3>1, <3>3, BoundedSeqs
  <2>4. /\ sub.stage \in Stages /\ sub.at \in Stages
        /\ sub.why \in {"open", "ended", "torn", "stopped", "overflow", "late", "gone"}
        /\ sub.pending \subseteq 1..Top /\ sub.scanned \in 0..Top /\ sub.lastSent \in 0..Top
        /\ sub.blocked \in BOOLEAN /\ sub.ending \in BOOLEAN
    BY <2>1 DEF Sub, Stages
  <2>5. /\ accepted \in 0..Top /\ onDisk \in 0..Top /\ settled \in 0..Top
        /\ published \in 0..Top /\ last \in 0..Top /\ closing \in BOOLEAN /\ stopped \in BOOLEAN
    BY DEF StreamInv, JobInv
  <2>6. StreamTypeOK BY Zenon, <2>2, <2>3, <2>4, <2>5 DEF StreamTypeOK
  <2>7. QueueHasWaker
    <3> SUFFICES ASSUME sub.stage = "live", sub.queue # <<>> PROVE sub.blocked /\ ~sub.ending
      BY DEF QueueHasWaker
    <3>1. sub.blocked /\ sub.queue = Run(sub.lastSent, published - sub.lastSent)
      BY <2>1 DEF Served, GoesOn
    <3>2. sub.ending => sub.lastSent = published BY <2>1 DEF Served
    <3>3. Run(published, published - published) = <<>>
      <4>1. published \in Nat /\ published - published = 0 BY <2>1, TopFacts
      <4> QED BY <4>1, RunFacts
    <3> QED BY Zenon, <3>1, <3>2, <3>3
  <2>8. EndMeansDone
    <3>1. sub.why = "ended" => last # 0 /\ sub.lastSent = published BY <2>1 DEF Served
    <3>2. sub.why = "ended" => HasDone(sub) BY <2>1, <3>1, TopFacts DEF HasDone
    <3> QED BY <3>2 DEF EndMeansDone, EndsNormally, Fate
  <2> QED BY <2>6, <2>7, <2>8 DEF QueueIsSound
<1> QED BY <1>1, StreamInvariance, FateInvariance, PTL
=============================================================================
