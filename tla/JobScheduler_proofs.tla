------------------------- MODULE JobScheduler_proofs --------------------------
(***************************************************************************)
(* The slots of the daemon's job scheduler are counted exactly, and every  *)
(* provider that still runs belongs to a job that can be cancelled, for    *)
(* any jobs, any number of slots and any cancellations.                    *)
(*                                                                         *)
(* What concerns one job only is an invariant of that job (JobInv).  The   *)
(* queue and the slots tie the jobs together (SlotsInv).                   *)
(***************************************************************************)
EXTENDS JobScheduler, TLAPS, FiniteSetTheorems, SequenceTheorems

\* The queue holds the queued jobs, each of them once.
Entries(q)  == {q[i] : i \in 1..Len(q)}
Distinct(q) == \A i, k \in 1..Len(q) : q[i] = q[k] => i = k
QueueInv == Entries(queue) = {j \in Job : At(j, "queued")} /\ Distinct(queue)

\* Slots are counted, for which the jobs that hold one must be finitely many.
SlotsInv == QueueInv /\ IsFiniteSet(Holding) /\ SlotsExact /\ NoIdleSlot

\* A job is live until its runner has returned, or it has left the queue.
LiveInv(j) ==
  phase[j] \in {"starting", "queued", "preparing", "running", "confirming",
                "finishing", "closing"} => j \in live

\* The fallback of the Codex SDK launches a provider without a look at the
\* cancellation that is under way (JobSchedulerFallback.cfg).
NoFallback == "fallback" \notin Hazards

\* A job has a provider from its launch on, and one that outlives its runner
\* is held for another attempt to terminate it.
ProcInv(j) ==
  /\ phase[j] \in {"new", "starting", "failed", "queued", "unqueued", "preparing"}
       => proc[j] = "none"
  /\ j \in bound <=> proc[j] # "none"
  /\ proc[j] = "query" => At(j, "running")
  /\ proc[j] \in Owned => phase[j] # "finishing"
  /\ NoFallback /\ proc[j] \in Owned /\ phase[j] \in {"closing", "returned"} => j \in held \cap live
  /\ term[j] # "idle" => proc[j] \notin {"none", "query", "over"}
  /\ term[j] = "confirmed" => proc[j] = "dead"

\* A cancellation that waits for the runner to return has seen the provider
\* stop, unless it is a query, which ends before its runner.
CancelInv(j) ==
  /\ cancel[j] \in {"terminate", "settle"} => j \in asked
  /\ cancel[j] = "unqueue" => At(j, "unqueued")
  /\ NoFallback /\ cancel[j] = "settle" /\ proc[j] \in Owned => proc[j] = "query"

\* The runner returns with the end of the job written, or leaves it to a
\* cancellation, or to whoever makes the next attempt to terminate the provider.
ClosingInv(j) ==
  At(j, "closing") /\ j \notin asked => j \in ended \/ (j \in held /\ term[j] # "pending")

\* A cancellation reports success only when the job has left the daemon, and a
\* job that has left after its runner returned has been declared over.
AnswerInv(j) ==
  /\ answer[j] = "ok" => j \notin live /\ phase[j] \in {"unqueued", "returned"}
  /\ At(j, "returned") /\ j \notin live => j \in ended

JobInv(j) == LiveInv(j) /\ ProcInv(j) /\ CancelInv(j) /\ ClosingInv(j) /\ AnswerInv(j)
JobsInv == \A j \in Job : JobInv(j)

\* The inductive invariant.
IInv == TypeOK /\ SlotsInv /\ JobsInv

\* The phases of TypeOK, and those in which a job holds a slot.
Phase == {"new", "starting", "failed", "queued", "unqueued", "preparing",
          "running", "confirming", "finishing", "closing", "returned"}
HoldingPhase == {"preparing", "running", "confirming", "finishing", "closing"}

-----------------------------------------------------------------------------
(* The queue.                                                              *)

\* The first entries of a queue are finitely many, and one entry adds one at
\* most.
LEMMA TakenFacts ==
  ASSUME NEW q \in Seq(Job), NEW k \in 0..Len(q)
  PROVE  /\ IsFiniteSet(Taken(q, k)) /\ Cardinality(Taken(q, k)) \in Nat
         /\ k = 0 => Cardinality(Taken(q, k)) = 0
         /\ k > 0 => Cardinality(Taken(q, k)) <= Cardinality(Taken(q, k - 1)) + 1
<1> DEFINE First(m) == {q[i] : i \in 1..m}
<1>1. ASSUME NEW m \in 0..Len(q) PROVE IsFiniteSet(Taken(q, m)) /\ Cardinality(Taken(q, m)) \in Nat
  <2>1. [i \in 1..m |-> q[i]] \in Surjection(1..m, First(m)) BY DEF Surjection
  <2>2. IsFiniteSet(First(m)) BY <2>1, FS_Interval, FS_Surjection
  <2>3. IsFiniteSet(Taken(q, m)) BY <2>2, FS_Intersection DEF Taken
  <2> QED BY <2>3, FS_CardinalityType
<1>2. ASSUME k = 0 PROVE Cardinality(Taken(q, k)) = 0
  <2>1. Taken(q, k) = {} BY <1>2 DEF Taken
  <2> QED BY <2>1, FS_EmptySet
<1>3. ASSUME k > 0 PROVE Cardinality(Taken(q, k)) <= Cardinality(Taken(q, k - 1)) + 1
  <2>1. Taken(q, k) \subseteq Taken(q, k - 1) \cup {q[k]} BY <1>3 DEF Taken
  <2>2. k - 1 \in 0..Len(q) BY <1>3
  <2>3. IsFiniteSet(Taken(q, k - 1)) BY <1>1, <2>2
  <2>4. /\ IsFiniteSet(Taken(q, k - 1) \cup {q[k]})
        /\ Cardinality(Taken(q, k - 1) \cup {q[k]}) <= Cardinality(Taken(q, k - 1)) + 1
    <3> DEFINE T == Taken(q, k - 1)
    <3>1. IsFiniteSet(T) /\ Cardinality(T) \in Nat BY <1>1, <2>2
    <3> HIDE DEF T
    <3>2. /\ IsFiniteSet(T \cup {q[k]})
          /\ Cardinality(T \cup {q[k]}) = IF q[k] \in T THEN Cardinality(T) ELSE Cardinality(T) + 1
      BY <3>1, FS_AddElement
    <3> QED BY <3>1, <3>2 DEF T
  <2>5. Cardinality(Taken(q, k)) <= Cardinality(Taken(q, k - 1) \cup {q[k]})
    BY <2>1, <2>4, FS_Subset
  <2> QED BY <1>1, <2>2, <2>4, <2>5, FS_CardinalityType
<1> QED BY <1>1, <1>2, <1>3

\* What is left of a queue of live jobs when its first k entries are gone.
LEMMA ShiftedQueue ==
  ASSUME NEW q \in Seq(Job), NEW k \in 0..Len(q), Entries(q) \subseteq live, Distinct(q)
  PROVE  LET rest == SubSeq(q, k + 1, Len(q))
         IN  /\ rest \in Seq(Job) /\ Distinct(rest)
             /\ Entries(rest) = Entries(q) \ Taken(q, k)
             /\ Taken(q, k) \subseteq Entries(q)
             /\ rest # <<>> => k # Len(q)
<1> DEFINE rest == SubSeq(q, k + 1, Len(q))
<1>0. Len(q) \in Nat OBVIOUS
<1>1. /\ rest \in Seq(Job) /\ Len(rest) = Len(q) - k
      /\ \A i \in 1..(Len(q) - k) : rest[i] = q[k + i]
  <2>1. \A i \in (k + 1)..Len(q) : q[i] \in Job OBVIOUS
  <2>2. \A i \in 1..(Len(q) - (k + 1) + 1) : rest[i] = q[(k + 1) + i - 1]
    BY <2>1, <1>0, SubSeqProperties
  <2>3. rest \in Seq(Job) /\ Len(rest) = Len(q) - k
    BY <2>1, <1>0, SubSeqProperties
  <2>4. ASSUME NEW i \in 1..(Len(q) - k) PROVE rest[i] = q[k + i]
    <3>1. i \in 1..(Len(q) - (k + 1) + 1) /\ (k + 1) + i - 1 = k + i BY <1>0
    <3> QED BY <2>2, <3>1
  <2> QED BY <2>3, <2>4
<1>2. Distinct(rest)
  <2> SUFFICES ASSUME NEW i \in 1..Len(rest), NEW m \in 1..Len(rest), rest[i] = rest[m] PROVE i = m
    BY DEF Distinct
  <2>1. q[k + i] = q[k + m] /\ k + i \in 1..Len(q) /\ k + m \in 1..Len(q) BY <1>0, <1>1
  <2> QED BY <2>1, <1>0, <1>1 DEF Distinct
<1>3. Taken(q, k) = {q[i] : i \in 1..k} BY DEF Taken, Entries
<1>4. Entries(rest) \subseteq Entries(q) \ Taken(q, k)
  <2> SUFFICES ASSUME NEW i \in 1..Len(rest) PROVE rest[i] \in Entries(q) \ Taken(q, k)
    BY DEF Entries
  <2>1. rest[i] = q[k + i] /\ k + i \in 1..Len(q) BY <1>0, <1>1
  <2>2. \A m \in 1..k : m \in 1..Len(q) /\ m # k + i BY <1>0, <1>1
  <2> QED BY <2>1, <2>2, <1>3 DEF Entries, Distinct
<1>5. Entries(q) \ Taken(q, k) \subseteq Entries(rest)
  <2> SUFFICES ASSUME NEW m \in 1..Len(q), q[m] \notin Taken(q, k) PROVE q[m] \in Entries(rest)
    BY DEF Entries
  <2>1. m \notin 1..k BY <1>3
  <2>2. m - k \in 1..(Len(q) - k) /\ k + (m - k) = m BY <2>1, <1>0
  <2>3. rest[m - k] = q[m] BY <2>2, <1>1
  <2> QED BY <2>2, <2>3, <1>1 DEF Entries
<1>6. Taken(q, k) \subseteq Entries(q) BY <1>3, <1>0 DEF Entries
<1>7. rest # <<>> => k # Len(q)
  <2>1. k = Len(q) => rest = <<>> BY <1>0, SubSeqEmpty
  <2> QED BY <2>1
<1> HIDE DEF rest
<1>8. /\ rest \in Seq(Job) /\ Distinct(rest)
      /\ Entries(rest) = Entries(q) \ Taken(q, k)
      /\ Taken(q, k) \subseteq Entries(q)
      /\ rest # <<>> => k # Len(q)
  BY <1>1, <1>2, <1>4, <1>5, <1>6, <1>7
<1> QED BY <1>8 DEF rest

\* What pumpJobQueue does with n slots taken and a queue of live jobs.
LEMMA PumpFacts ==
  ASSUME NEW q \in Seq(Job), NEW n \in 0..Cap, NEW phases,
         Entries(q) \subseteq live, Distinct(q), Pump(q, n, phases)
  PROVE  \E T \in SUBSET Entries(q) :
           /\ IsFiniteSet(T) /\ active' = n + Cardinality(T) /\ active' \in 0..Cap
           /\ queue' \in Seq(Job) /\ Distinct(queue') /\ Entries(queue') = Entries(q) \ T
           /\ queue' # <<>> => active' = Cap
           /\ phase' = [j \in Job |-> IF j \in T THEN "preparing" ELSE phases[j]]
<1>1. PICK k \in 0..Len(q) :
        /\ Shifted(q, n, k)
        /\ queue' = SubSeq(q, k + 1, Len(q))
        /\ active' = n + Cardinality(Taken(q, k))
        /\ phase' = [j \in Job |-> IF j \in Taken(q, k) THEN "preparing" ELSE phases[j]]
  BY DEF Pump
<1>2. /\ queue' \in Seq(Job) /\ Distinct(queue') /\ Entries(queue') = Entries(q) \ Taken(q, k)
      /\ Taken(q, k) \subseteq Entries(q)
      /\ queue' # <<>> => k # Len(q)
  BY <1>1, ShiftedQueue
<1>3. /\ IsFiniteSet(Taken(q, k)) /\ Cardinality(Taken(q, k)) \in Nat
      /\ k = 0 => Cardinality(Taken(q, k)) = 0
      /\ k > 0 => Cardinality(Taken(q, k)) <= Cardinality(Taken(q, k - 1)) + 1
  BY TakenFacts
<1>4. n + Cardinality(Taken(q, k)) <= Cap
  <2>1. CASE k = 0 BY <2>1, <1>3, ParametersAssumption
  <2>2. CASE k > 0
    <3>1. k - 1 \in 0..(k - 1) /\ k - 1 \in 0..Len(q) BY <2>2
    <3>2. Cardinality(Taken(q, k - 1)) < Cap - n BY <3>1, <1>1 DEF Shifted, Slots
    <3>3. Cardinality(Taken(q, k - 1)) \in Nat BY <3>1, TakenFacts
    <3> QED BY <2>2, <3>2, <3>3, <1>3, ParametersAssumption
  <2> QED BY <2>1, <2>2
<1>5. active' \in 0..Cap BY <1>1, <1>3, <1>4, ParametersAssumption
<1>6. queue' # <<>> => active' = Cap
  <2>1. k # Len(q) => Cardinality(Taken(q, k)) >= Cap - n BY <1>1 DEF Shifted, Slots
  <2> QED BY <2>1, <1>1, <1>2, <1>3, <1>4, ParametersAssumption
<1> QED BY <1>1, <1>2, <1>3, <1>5, <1>6

\* The slots after a pump, when n counts the jobs that hold one before it.
LEMMA SlotsPumped ==
  ASSUME NEW q \in Seq(Job), NEW n \in 0..Cap, NEW phases \in [Job -> Phase],
         Entries(q) = {j \in Job : phases[j] = "queued"}, Entries(q) \subseteq live, Distinct(q),
         IsFiniteSet({j \in Job : phases[j] \in HoldingPhase}),
         n = Cardinality({j \in Job : phases[j] \in HoldingPhase}),
         Pump(q, n, phases)
  PROVE  /\ SlotsInv' /\ active' \in 0..Cap /\ queue' \in Seq(Job) /\ phase' \in [Job -> Phase]
         /\ \A i \in Job : phase'[i] = phases[i] \/ (phases[i] = "queued" /\ phase'[i] = "preparing")
<1> DEFINE H == {j \in Job : phases[j] \in HoldingPhase}
<1>1. PICK T \in SUBSET Entries(q) :
           /\ IsFiniteSet(T) /\ active' = n + Cardinality(T) /\ active' \in 0..Cap
           /\ queue' \in Seq(Job) /\ Distinct(queue') /\ Entries(queue') = Entries(q) \ T
           /\ queue' # <<>> => active' = Cap
           /\ phase' = [j \in Job |-> IF j \in T THEN "preparing" ELSE phases[j]]
  BY PumpFacts
<1>2. \A j \in Job : j \in T => phases[j] = "queued" BY <1>1
<1>3. QueueInv'
  <2>1. {j \in Job : phase'[j] = "queued"} = Entries(queue') BY <1>1, <1>2
  <2> QED BY <2>1, <1>1 DEF QueueInv, At, Entries, Distinct
<1>4. Holding' = H \cup T /\ H \cap T = {} BY <1>1, <1>2 DEF Holding, HoldingPhase
<1> HIDE DEF H
<1>5. IsFiniteSet(Holding') /\ active' = Cardinality(Holding')
  <2>1. IsFiniteSet(H) /\ n = Cardinality(H) BY DEF H
  <2>2. /\ IsFiniteSet(H \cup T)
        /\ Cardinality(H \cup T) = Cardinality(H) + Cardinality(T) - Cardinality(H \cap T)
    BY <2>1, <1>1, FS_Union
  <2>3. Cardinality(H \cap T) = 0 BY <1>4, FS_EmptySet
  <2>4. Cardinality(T) \in Nat BY <1>1, FS_CardinalityType
  <2> QED BY <2>1, <2>2, <2>3, <2>4, <1>1, <1>4
<1>6. SlotsInv' BY <1>1, <1>3, <1>5 DEF SlotsInv, SlotsExact, NoIdleSlot
<1>7. phase' \in [Job -> Phase] BY <1>1 DEF Phase
<1> QED BY <1>1, <1>2, <1>6, <1>7

\* A step that leaves queue and count alone and moves no job over their bounds.
LEMMA SameSlots ==
  ASSUME SlotsInv, UNCHANGED <<queue, active>>,
         \A j \in Job : /\ phase'[j] = "queued" <=> phase[j] = "queued"
                        /\ phase'[j] \in HoldingPhase <=> phase[j] \in HoldingPhase
  PROVE  SlotsInv'
<1>1. Holding' = Holding BY DEF Holding, HoldingPhase
<1>2. QueueInv' BY DEF SlotsInv, QueueInv, At, Entries, Distinct
<1> QED BY <1>1, <1>2 DEF SlotsInv, SlotsExact, NoIdleSlot

-----------------------------------------------------------------------------
(* The jobs.                                                               *)

\* The initial state satisfies the invariant.
LEMMA InitIInv == Init => IInv
<1> SUFFICES ASSUME Init PROVE IInv OBVIOUS
<1>1. TypeOK BY ParametersAssumption DEF Init, TypeOK, Owned
<1>2. Holding = {} BY DEF Init, Holding
<1>3. SlotsInv
  BY <1>2, FS_EmptySet DEF Init, SlotsInv, QueueInv, Entries, Distinct, At, SlotsExact, NoIdleSlot
<1>4. JobsInv
  BY DEF Init, JobsInv, JobInv, LiveInv, ProcInv, CancelInv, ClosingInv, AnswerInv, At, Owned
<1> QED BY <1>1, <1>3, <1>4 DEF IInv

\* So does a job's start.
LEMMA StartInv ==
  ASSUME IInv, NEW j \in Job, StartJob(j) \/ Enqueue(j) \/ StartFails(j)
  PROVE  IInv'
<1> USE DEF IInv
<1>1. CASE StartJob(j)
  <2>1. TypeOK' BY <1>1 DEF StartJob, TypeOK, At, Goes
  <2>2. SlotsInv' BY <1>1, SameSlots DEF StartJob, TypeOK, At, Goes, HoldingPhase
  <2>3. JobsInv'
    BY <1>1 DEF StartJob, TypeOK, At, Goes, JobsInv, JobInv, LiveInv, ProcInv, CancelInv, ClosingInv, AnswerInv
  <2> QED BY <2>1, <2>2, <2>3
<1>2. CASE StartFails(j)
  <2>1. TypeOK' BY <1>2 DEF StartFails, TypeOK, At, Goes
  <2>2. SlotsInv' BY <1>2, SameSlots DEF StartFails, TypeOK, At, Goes, HoldingPhase
  <2>3. JobsInv'
    BY <1>2 DEF StartFails, TypeOK, At, Goes, JobsInv, JobInv, LiveInv, ProcInv, CancelInv, ClosingInv, AnswerInv
  <2> QED BY <2>1, <2>2, <2>3
<1>3. CASE Enqueue(j)
  <2> DEFINE q == Append(queue, j)
             phases == [phase EXCEPT ![j] = "queued"]
  <2>1. phases \in [Job -> Phase] BY DEF TypeOK, Phase
  <2>2. /\ q \in Seq(Job) /\ Len(q) = Len(queue) + 1 /\ q[Len(queue) + 1] = j
        /\ \A i \in 1..Len(queue) : q[i] = queue[i]
        /\ Len(queue) \in Nat
    BY DEF TypeOK
  <2>3. Entries(q) = Entries(queue) \cup {j} BY <2>2 DEF Entries
  <2>4. j \notin Entries(queue) BY <1>3 DEF SlotsInv, QueueInv, Enqueue, At
  <2>5. Distinct(q) BY <2>2, <2>4 DEF SlotsInv, QueueInv, Distinct, Entries
  <2>6. Entries(q) = {i \in Job : phases[i] = "queued"}
    BY <2>3 DEF SlotsInv, QueueInv, At, TypeOK
  <2>7. Entries(q) \subseteq live
    BY <1>3, <2>3 DEF SlotsInv, QueueInv, At, JobsInv, JobInv, LiveInv, Enqueue
  <2>8. {i \in Job : phases[i] \in HoldingPhase} = Holding
    BY <1>3 DEF Holding, HoldingPhase, Enqueue, At, TypeOK
  <2>9. active \in 0..Cap /\ active = Cardinality(Holding) /\ IsFiniteSet(Holding)
    BY DEF TypeOK, SlotsInv, SlotsExact
  <2>10. Pump(q, active, phases) BY <1>3 DEF Enqueue
  <2>11. \A i \in Job : phases[i] = IF i = j THEN "queued" ELSE phase[i] BY DEF TypeOK
  <2> HIDE DEF q, phases
  <2>12. /\ SlotsInv' /\ active' \in 0..Cap /\ queue' \in Seq(Job) /\ phase' \in [Job -> Phase]
         /\ \A i \in Job : phase'[i] = phases[i] \/ (phases[i] = "queued" /\ phase'[i] = "preparing")
    BY <2>1, <2>2, <2>5, <2>6, <2>7, <2>8, <2>9, <2>10, SlotsPumped
  <2>13. TypeOK' BY <2>12, <1>3 DEF TypeOK, Enqueue, Phase
  <2>14. JobsInv'
    BY <2>11, <2>12, <1>3
    DEF Enqueue, TypeOK, At, JobsInv, JobInv, LiveInv, ProcInv, CancelInv, ClosingInv, AnswerInv
  <2> QED BY <2>12, <2>13, <2>14
<1> QED BY <1>1, <1>2, <1>3

\* Preparing a job and launching its provider.
LEMMA PreparationInv ==
  ASSUME IInv, NEW j \in Job,
         PreparationStops(j) \/ PreparationFails(j) \/ (\E p \in {"leading", "query", "dead"} : Launch(j, p))
  PROVE  IInv'
<1> USE DEF IInv
<1>1. CASE PreparationStops(j)
  <2>1. TypeOK' BY <1>1 DEF PreparationStops, TypeOK, At, Goes, Owned
  <2>2. SlotsInv' BY <1>1, SameSlots DEF PreparationStops, TypeOK, At, Goes, HoldingPhase, Owned
  <2>3. JobsInv'
    BY <1>1 DEF PreparationStops, TypeOK, At, Goes, JobsInv, JobInv, LiveInv, ProcInv,
        CancelInv, ClosingInv, AnswerInv, NoFallback, Owned
  <2> QED BY <2>1, <2>2, <2>3
<1>2. CASE PreparationFails(j)
  <2>1. TypeOK' BY <1>2 DEF PreparationFails, TypeOK, At, Goes, DoneByRunner, Owned
  <2>2. SlotsInv' BY <1>2, SameSlots DEF PreparationFails, TypeOK, At, Goes, HoldingPhase, DoneByRunner, Owned
  <2>3. JobsInv'
    BY <1>2 DEF PreparationFails, TypeOK, At, Goes, JobsInv, JobInv, LiveInv, ProcInv,
        CancelInv, ClosingInv, AnswerInv, NoFallback, DoneByRunner, Owned
  <2> QED BY <2>1, <2>2, <2>3
<1>3. CASE \E p \in {"leading", "query", "dead"} : Launch(j, p)
  <2>1. TypeOK' BY <1>3 DEF Launch, TypeOK, At, Goes, MayLaunch, Owned
  <2>2. SlotsInv' BY <1>3, SameSlots DEF Launch, TypeOK, At, Goes, HoldingPhase, MayLaunch, Owned
  <2>3. JobsInv'
    BY <1>3 DEF Launch, TypeOK, At, Goes, JobsInv, JobInv, LiveInv, ProcInv,
        CancelInv, ClosingInv, AnswerInv, NoFallback, MayLaunch, Owned
  <2> QED BY <2>1, <2>2, <2>3
<1> QED BY <1>1, <1>2, <1>3

\* Watching the provider end.
LEMMA RunnerInv ==
  ASSUME IInv, NEW j \in Job,
         QueryEnds(j) \/ LeaderExits(j) \/ RunnerSeesExit(j) \/ RunnerKills(j) \/ RunnerEnds(j)
  PROVE  IInv'
<1> USE DEF IInv
<1>1. CASE QueryEnds(j)
  <2>1. TypeOK' BY <1>1 DEF QueryEnds, TypeOK, At, Goes, Owned
  <2>2. SlotsInv' BY <1>1, SameSlots DEF QueryEnds, TypeOK, At, Goes, HoldingPhase, Owned, JobsInv, JobInv, ProcInv
  <2>3. JobsInv'
    BY <1>1 DEF QueryEnds, TypeOK, At, Goes, JobsInv, JobInv, LiveInv, ProcInv,
        CancelInv, ClosingInv, AnswerInv, NoFallback, Owned
  <2> QED BY <2>1, <2>2, <2>3
<1>2. CASE LeaderExits(j)
  <2>1. TypeOK' BY <1>2 DEF LeaderExits, TypeOK, At, Goes, run, Owned
  <2>2. SlotsInv' BY <1>2, SameSlots DEF LeaderExits, TypeOK, At, Goes, HoldingPhase, run, Owned
  <2>3. JobsInv'
    BY <1>2 DEF LeaderExits, TypeOK, At, Goes, JobsInv, JobInv, LiveInv, ProcInv,
        CancelInv, ClosingInv, AnswerInv, NoFallback, run, Owned
  <2> QED BY <2>1, <2>2, <2>3
<1>3. CASE RunnerSeesExit(j)
  <2>1. TypeOK' BY <1>3 DEF RunnerSeesExit, TypeOK, At, Goes, Terminating, Owned
  <2>2. SlotsInv' BY <1>3, SameSlots DEF RunnerSeesExit, TypeOK, At, Goes, HoldingPhase, Terminating, Owned
  <2>3. JobsInv'
    BY <1>3 DEF RunnerSeesExit, TypeOK, At, Goes, JobsInv, JobInv, LiveInv, ProcInv,
        CancelInv, ClosingInv, AnswerInv, NoFallback, Terminating, Owned
  <2> QED BY <2>1, <2>2, <2>3
<1>4. CASE RunnerKills(j)
  <2>1. TypeOK' BY <1>4 DEF RunnerKills, TypeOK, At, Goes, run, Terminating
  <2>2. SlotsInv' BY <1>4, SameSlots DEF RunnerKills, TypeOK, At, Goes, HoldingPhase, run, Terminating
  <2>3. JobsInv'
    BY <1>4 DEF RunnerKills, TypeOK, At, Goes, JobsInv, JobInv, LiveInv, ProcInv,
        CancelInv, ClosingInv, AnswerInv, NoFallback, run, Terminating
  <2> QED BY <2>1, <2>2, <2>3
<1>5. CASE RunnerEnds(j)
  <2>1. TypeOK' BY <1>5 DEF RunnerEnds, TypeOK, At, Goes, DoneByRunner, Owned
  <2>2. SlotsInv' BY <1>5, SameSlots DEF RunnerEnds, TypeOK, At, Goes, HoldingPhase, DoneByRunner, Owned
  <2>3. JobsInv'
    BY <1>5 DEF RunnerEnds, TypeOK, At, Goes, JobsInv, JobInv, LiveInv, ProcInv,
        CancelInv, ClosingInv, AnswerInv, NoFallback, DoneByRunner, Owned
  <2> QED BY <2>1, <2>2, <2>3
<1> QED BY <1>1, <1>2, <1>3, <1>4, <1>5

\* Terminating its process tree, confirmed or not.
LEMMA TerminationInv ==
  ASSUME IInv, NEW j \in Job,
         TerminationConfirmed(j) \/ TerminationUnconfirmed(j) \/ TimelineFails(j)
  PROVE  IInv'
<1> USE DEF IInv
<1>1. CASE TerminationConfirmed(j)
  <2>1. TypeOK' BY <1>1 DEF TerminationConfirmed, TypeOK, At, Goes, Owned
  <2>2. SlotsInv' BY <1>1, SameSlots DEF TerminationConfirmed, TypeOK, At, Goes, HoldingPhase, Owned
  <2>3. JobsInv'
    BY <1>1 DEF TerminationConfirmed, TypeOK, At, Goes, JobsInv, JobInv, LiveInv, ProcInv,
        CancelInv, ClosingInv, AnswerInv, NoFallback, Owned
  <2> QED BY <2>1, <2>2, <2>3
<1>2. CASE TerminationUnconfirmed(j)
  <2>1. TypeOK' BY <1>2 DEF TerminationUnconfirmed, TypeOK, At, Goes, Owned
  <2>2. SlotsInv' BY <1>2, SameSlots DEF TerminationUnconfirmed, TypeOK, At, Goes, HoldingPhase, Owned
  <2>3. JobsInv'
    BY <1>2 DEF TerminationUnconfirmed, TypeOK, At, Goes, JobsInv, JobInv, LiveInv, ProcInv,
        CancelInv, ClosingInv, AnswerInv, NoFallback, Owned
  <2> QED BY <2>1, <2>2, <2>3
<1>3. CASE TimelineFails(j)
  <2>1. TypeOK' BY <1>3 DEF TimelineFails, TypeOK, At, Goes, run, Terminating, Owned, Holding
  <2>2. SlotsInv' BY <1>3, SameSlots DEF TimelineFails, TypeOK, At, Goes, HoldingPhase, run, Terminating, Owned, Holding
  <2>3. JobsInv'
    BY <1>3 DEF TimelineFails, TypeOK, At, Goes, JobsInv, JobInv, LiveInv, ProcInv,
        CancelInv, ClosingInv, AnswerInv, NoFallback, run, Terminating, Owned, Holding
  <2> QED BY <2>1, <2>2, <2>3
<1> QED BY <1>1, <1>2, <1>3

\* Cancelling a job that is out of the queue.
LEMMA CancelStepInv ==
  ASSUME IInv, NEW j \in Job,
         QueuedCancelled(j) \/ CancelBound(j) \/ CancelPreparing(j) \/ CancelUnrun(j) \/ CancelSettles(j) \/ CancelTimesOut(j)
  PROVE  IInv'
<1> USE DEF IInv
<1>1. CASE QueuedCancelled(j)
  <2>1. TypeOK' BY <1>1 DEF QueuedCancelled, TypeOK, At, Goes, run, DoneByRunner
  <2>2. SlotsInv' BY <1>1, SameSlots DEF QueuedCancelled, TypeOK, At, Goes, HoldingPhase, run, DoneByRunner
  <2>3. JobsInv'
    BY <1>1 DEF QueuedCancelled, TypeOK, At, Goes, JobsInv, JobInv, LiveInv, ProcInv,
        CancelInv, ClosingInv, AnswerInv, NoFallback, run, DoneByRunner
  <2> QED BY <2>1, <2>2, <2>3
<1>2. CASE CancelBound(j)
  <2>1. TypeOK' BY <1>2, ParametersAssumption DEF CancelBound, TypeOK, At, Goes, run, Terminating, Owned, Call
  <2>2. SlotsInv' BY <1>2, SameSlots DEF CancelBound, TypeOK, At, Goes, HoldingPhase, run, Terminating, Owned, Call
  <2>3. JobsInv'
    BY <1>2 DEF CancelBound, TypeOK, At, Goes, JobsInv, JobInv, LiveInv, ProcInv,
        CancelInv, ClosingInv, AnswerInv, NoFallback, run, Terminating, Owned, Call
  <2> QED BY <2>1, <2>2, <2>3
<1>3. CASE CancelPreparing(j)
  <2>1. TypeOK' BY <1>3, ParametersAssumption DEF CancelPreparing, TypeOK, At, Goes, run, Call, Owned
  <2>2. SlotsInv' BY <1>3, SameSlots DEF CancelPreparing, TypeOK, At, Goes, HoldingPhase, run, Call, Owned
  <2>3. JobsInv'
    BY <1>3 DEF CancelPreparing, TypeOK, At, Goes, JobsInv, JobInv, LiveInv, ProcInv,
        CancelInv, ClosingInv, AnswerInv, NoFallback, run, Call, Owned
  <2> QED BY <2>1, <2>2, <2>3
<1>4. CASE CancelUnrun(j)
  <2>1. TypeOK' BY <1>4, ParametersAssumption DEF CancelUnrun, TypeOK, At, Goes, run, Call
  <2>2. SlotsInv' BY <1>4, SameSlots DEF CancelUnrun, TypeOK, At, Goes, HoldingPhase, run, Call
  <2>3. JobsInv'
    BY <1>4 DEF CancelUnrun, TypeOK, At, Goes, JobsInv, JobInv, LiveInv, ProcInv,
        CancelInv, ClosingInv, AnswerInv, NoFallback, run, Call
  <2> QED BY <2>1, <2>2, <2>3
<1>5. CASE CancelSettles(j)
  <2>1. TypeOK' BY <1>5 DEF CancelSettles, TypeOK, At, Goes, run, Settles
  <2>2. SlotsInv' BY <1>5, SameSlots DEF CancelSettles, TypeOK, At, Goes, HoldingPhase, run, Settles
  <2>3. JobsInv'
    BY <1>5 DEF CancelSettles, TypeOK, At, Goes, JobsInv, JobInv, LiveInv, ProcInv,
        CancelInv, ClosingInv, AnswerInv, NoFallback, run, Settles
  <2> QED BY <2>1, <2>2, <2>3
<1>6. CASE CancelTimesOut(j)
  <2>1. TypeOK' BY <1>6 DEF CancelTimesOut, TypeOK, At, Goes, run, Settles
  <2>2. SlotsInv' BY <1>6, SameSlots DEF CancelTimesOut, TypeOK, At, Goes, HoldingPhase, run, Settles
  <2>3. JobsInv'
    BY <1>6 DEF CancelTimesOut, TypeOK, At, Goes, JobsInv, JobInv, LiveInv, ProcInv,
        CancelInv, ClosingInv, AnswerInv, NoFallback, run, Settles
  <2> QED BY <2>1, <2>2, <2>3
<1> QED BY <1>1, <1>2, <1>3, <1>4, <1>5, <1>6

\* The runner returns its slot, and the queue is pumped.
LEMMA RunnerReturnsInv ==
  ASSUME IInv, NEW j \in Job, RunnerReturns(j)
  PROVE  IInv'
<1> USE DEF IInv
<1> DEFINE phases == [phase EXCEPT ![j] = "returned"]
<1>1. phases \in [Job -> Phase] BY DEF TypeOK, Phase
<1>2. \A i \in Job : phases[i] = IF i = j THEN "returned" ELSE phase[i] BY DEF TypeOK
<1>3. j \in Holding BY DEF RunnerReturns, At, Holding
<1>4. {i \in Job : phases[i] \in HoldingPhase} = Holding \ {j} BY <1>2 DEF Holding, HoldingPhase
<1>5. /\ IsFiniteSet(Holding \ {j}) /\ Cardinality(Holding \ {j}) = active - 1
      /\ active - 1 \in 0..Cap
  <2>1. IsFiniteSet(Holding) /\ active = Cardinality(Holding) /\ active \in 0..Cap
    BY DEF TypeOK, SlotsInv, SlotsExact
  <2>2. IsFiniteSet(Holding \ {j}) /\ Cardinality(Holding \ {j}) = Cardinality(Holding) - 1
    BY <1>3, <2>1, FS_RemoveElement
  <2>3. Cardinality(Holding \ {j}) \in Nat BY <2>2, FS_CardinalityType
  <2> QED BY <2>1, <2>2, <2>3, ParametersAssumption
<1>6. Entries(queue) = {i \in Job : phases[i] = "queued"}
  BY <1>2 DEF SlotsInv, QueueInv, At, RunnerReturns
<1>7. Entries(queue) \subseteq live
  BY DEF SlotsInv, QueueInv, At, JobsInv, JobInv, LiveInv
<1>8. Distinct(queue) /\ queue \in Seq(Job) BY DEF SlotsInv, QueueInv, TypeOK
<1>9. Pump(queue, active - 1, phases) BY DEF RunnerReturns, Left
<1> HIDE DEF phases
<1>10. /\ SlotsInv' /\ active' \in 0..Cap /\ queue' \in Seq(Job) /\ phase' \in [Job -> Phase]
       /\ \A i \in Job : phase'[i] = phases[i] \/ (phases[i] = "queued" /\ phase'[i] = "preparing")
  BY <1>1, <1>4, <1>5, <1>6, <1>7, <1>8, <1>9, SlotsPumped
<1>11. TypeOK' BY <1>10 DEF TypeOK, RunnerReturns, Phase
<1>12. JobsInv'
  BY <1>2, <1>10
  DEF RunnerReturns, Forgotten, TypeOK, At, JobsInv, JobInv, LiveInv, ProcInv, CancelInv, ClosingInv, AnswerInv
<1> QED BY <1>10, <1>11, <1>12

\* A job leaves the queue.
LEMMA CancelQueuedInv ==
  ASSUME IInv, NEW j \in Job, CancelQueued(j)
  PROVE  IInv'
<1> USE DEF IInv
<1>1. PICK i \in 1..Len(queue) : queue[i] = j /\ queue' = Without(i) BY DEF CancelQueued
<1>2. At(j, "queued") BY <1>1 DEF SlotsInv, QueueInv, Entries
<1>3. queue \in Seq(Job) /\ Len(queue) \in Nat BY DEF TypeOK
<1>4. /\ queue' \in Seq(Job) /\ Len(queue') = Len(queue) - 1
      /\ \A m \in 1..(Len(queue) - 1) : queue'[m] = IF m < i THEN queue[m] ELSE queue[m + 1]
  <2> DEFINE front == SubSeq(queue, 1, i - 1)
             back  == SubSeq(queue, i + 1, Len(queue))
  <2>1. /\ front \in Seq(Job) /\ Len(front) = i - 1
        /\ \A m \in 1..(i - 1) : front[m] = queue[m]
    <3>1. \A m \in 1..(i - 1) : queue[m] \in Job BY <1>3
    <3>2. /\ front \in Seq(Job) /\ Len(front) = IF 1 <= i - 1 THEN i - 1 - 1 + 1 ELSE 0
          /\ \A m \in 1..(i - 1 - 1 + 1) : front[m] = queue[1 + m - 1]
      BY <3>1, <1>3, SubSeqProperties
    <3> QED BY <3>2, <1>3
  <2>2. /\ back \in Seq(Job) /\ Len(back) = Len(queue) - i
        /\ \A m \in 1..(Len(queue) - i) : back[m] = queue[i + m]
    <3>1. \A m \in (i + 1)..Len(queue) : queue[m] \in Job BY <1>3
    <3>2. /\ back \in Seq(Job) /\ Len(back) = IF i + 1 <= Len(queue) THEN Len(queue) - (i + 1) + 1 ELSE 0
          /\ \A m \in 1..(Len(queue) - (i + 1) + 1) : back[m] = queue[(i + 1) + m - 1]
      BY <3>1, <1>3, SubSeqProperties
    <3>3. ASSUME NEW m \in 1..(Len(queue) - i) PROVE back[m] = queue[i + m]
      <4>1. m \in 1..(Len(queue) - (i + 1) + 1) /\ (i + 1) + m - 1 = i + m BY <1>3
      <4> QED BY <3>2, <4>1
    <3> QED BY <3>2, <3>3, <1>3
  <2>3. queue' = front \o back BY <1>1 DEF Without
  <2> HIDE DEF front, back
  <2>4. /\ front \o back \in Seq(Job) /\ Len(front \o back) = Len(front) + Len(back)
        /\ \A m \in 1..(Len(front) + Len(back)) :
             (front \o back)[m] = IF m <= Len(front) THEN front[m] ELSE back[m - Len(front)]
    BY <2>1, <2>2, ConcatProperties
  <2>5. ASSUME NEW m \in 1..(Len(queue) - 1)
        PROVE  queue'[m] = IF m < i THEN queue[m] ELSE queue[m + 1]
    <3>1. CASE m < i BY <3>1, <2>1, <2>2, <2>3, <2>4, <1>3
    <3>2. CASE ~(m < i)
      <4>1. m - (i - 1) \in 1..(Len(queue) - i) /\ i + (m - (i - 1)) = m + 1 BY <3>2, <1>3
      <4>2. (front \o back)[m] = back[m - (i - 1)] BY <3>2, <2>1, <2>2, <2>4, <1>3
      <4>3. back[m - (i - 1)] = queue[i + (m - (i - 1))] BY <4>1, <2>2
      <4> QED BY <3>2, <4>1, <4>2, <4>3, <2>3
    <3> QED BY <3>1, <3>2
  <2> QED BY <2>1, <2>2, <2>3, <2>4, <2>5, <1>3
<1>5. Entries(queue') = Entries(queue) \ {j}
  <2>1. ASSUME NEW m \in 1..Len(queue') PROVE queue'[m] \in Entries(queue) \ {j}
    <3> DEFINE k == IF m < i THEN m ELSE m + 1
    <3>1. k \in 1..Len(queue) /\ k # i /\ queue'[m] = queue[k] BY <1>3, <1>4
    <3>2. queue[k] # queue[i] BY <3>1 DEF SlotsInv, QueueInv, Distinct
    <3> QED BY <3>1, <3>2, <1>1 DEF Entries
  <2>2. ASSUME NEW m \in 1..Len(queue), queue[m] # j PROVE queue[m] \in Entries(queue')
    <3>1. CASE m < i
      <4>1. m \in 1..Len(queue') /\ queue'[m] = queue[m] BY <3>1, <1>3, <1>4
      <4> QED BY <4>1 DEF Entries
    <3>2. CASE ~(m < i)
      <4>1. m - 1 \in 1..Len(queue') /\ queue'[m - 1] = queue[m] BY <3>2, <2>2, <1>1, <1>3, <1>4
      <4> QED BY <4>1 DEF Entries
    <3> QED BY <3>1, <3>2
  <2> QED BY <2>1, <2>2 DEF Entries
<1>6. Distinct(queue')
  BY <1>3, <1>4 DEF Distinct, SlotsInv, QueueInv
<1>7. QueueInv'
  <2>1. {m \in Job : phase'[m] = "queued"} = {m \in Job : phase[m] = "queued"} \ {j}
    BY DEF CancelQueued, Goes, TypeOK
  <2>2. Entries(queue') = {m \in Job : phase'[m] = "queued"}
    BY <1>5, <2>1 DEF SlotsInv, QueueInv, At
  <2> QED BY <2>2, <1>6 DEF QueueInv, At, Entries, Distinct
<1>8. Holding' = Holding BY <1>2 DEF Holding, CancelQueued, Goes, At, TypeOK
<1>9. queue # <<>> BY <1>1, <1>3
<1>10. SlotsInv' BY <1>7, <1>8, <1>9 DEF SlotsInv, SlotsExact, NoIdleSlot, CancelQueued
<1>11. TypeOK' BY <1>4, ParametersAssumption DEF TypeOK, CancelQueued, Goes, Call
<1>12. JobsInv'
  BY <1>2 DEF CancelQueued, TypeOK, At, Goes, JobsInv, JobInv, LiveInv, ProcInv, CancelInv, ClosingInv, AnswerInv
<1> QED BY <1>10, <1>11, <1>12

\* A step that leaves everything alone.
LEMMA StutterInv == ASSUME IInv, UNCHANGED vars PROVE IInv'
<1> USE DEF IInv, vars
<1>1. TypeOK' BY DEF TypeOK
<1>2. SlotsInv' BY SameSlots
<1>3. JobsInv' BY DEF JobsInv, JobInv, LiveInv, ProcInv, CancelInv, ClosingInv, AnswerInv, At
<1> QED BY <1>1, <1>2, <1>3

\* The invariant holds in every reachable state.
LEMMA Invariance == Spec => []IInv
<1>1. IInv /\ [Next]_vars => IInv'
  BY StartInv, PreparationInv, RunnerInv, TerminationInv, CancelStepInv, RunnerReturnsInv,
     CancelQueuedInv, StutterInv
  DEF Next, Runs, Asks
<1> QED BY <1>1, InitIInv, PTL DEF Spec

-----------------------------------------------------------------------------
(* The theorems.                                                           *)

\* Every way a job can take from startJob to the return of runJob gives back
\* exactly the slot it took, and pumpJobQueue leaves none free beside a job
\* that waits: for any jobs and slots, whatever is cancelled and whatever fails.
THEOREM SlotsCorrect == Spec => []SlotsAreSound
<1>1. IInv => SlotsAreSound BY DEF IInv, SlotsInv, SlotsAreSound
<1> QED BY <1>1, Invariance, PTL

\* cancelJob and shutdown find every provider that still runs among the live
\* jobs, with a function that terminates it, however often that has failed.
THEOREM ProvidersCorrect == ASSUME NoFallback PROVE Spec => []ProvidersAreOwned
<1>1. IInv => ProvidersAreOwned
  <2> SUFFICES ASSUME IInv, NEW j \in Job, proc[j] \in Owned PROVE j \in live \cap bound
    BY DEF ProvidersAreOwned
  <2>1. LiveInv(j) /\ ProcInv(j) BY DEF IInv, JobsInv, JobInv
  <2>2. phase[j] \in {"running", "confirming", "closing", "returned"}
    BY <2>1 DEF IInv, TypeOK, ProcInv, Owned
  <2> QED BY <2>1, <2>2 DEF LiveInv, ProcInv, Owned
<1> QED BY <1>1, Invariance, PTL

\* After cancelJob has answered ok the job has no provider, no slot and no
\* place in the queue, and a job that left liveJobs when it returned has its
\* done event.
THEOREM CancelCorrect == ASSUME NoFallback PROVE Spec => []CancelIsFinal
<1>1. IInv => CancelIsFinal
  <2> SUFFICES ASSUME IInv, NEW j \in Job
               PROVE  /\ answer[j] = "ok" => /\ proc[j] \notin Owned
                                             /\ j \notin live
                                             /\ phase[j] \in {"unqueued", "returned"}
                      /\ At(j, "returned") /\ j \notin live => j \in ended
    BY DEF CancelIsFinal, CancelledIsOver, ForgottenIsEnded
  <2>1. ProcInv(j) /\ AnswerInv(j) BY DEF IInv, JobsInv, JobInv
  <2> QED BY <2>1 DEF ProcInv, AnswerInv, Owned
<1> QED BY <1>1, Invariance, PTL
=============================================================================
