---------------------------- MODULE JobScheduler ----------------------------
(***************************************************************************)
(* How the daemon runs chat jobs (createChatJobManager in                  *)
(* packages/codesurf-daemon/bin/chat-jobs.mjs): startJob enqueues a job,   *)
(* pumpJobQueue gives it one of Cap slots, runJob prepares the request,    *)
(* launches the provider, waits for its end and returns the slot, and      *)
(* cancelJob takes a job out of the queue or stops its provider.  All of   *)
(* them run on one event loop, so the steps below are the stretches        *)
(* between two awaits.                                                     *)
(*                                                                         *)
(* A provider is a process tree, which has to be terminated and whose exit *)
(* has to be confirmed, or a query of an SDK inside the daemon, which can  *)
(* only be asked to abort.  What is written of a job, and how, is the      *)
(* subject of JobTimeline.                                                 *)
(***************************************************************************)
EXTENDS Integers, Sequences, FiniteSets

CONSTANTS Job,         \* jobs that may be started
          Cap,         \* MAX_CONCURRENT_JOBS
          MaxCancels,  \* bound of the model: calls of cancelJob
          Hazards      \* what may happen, of "early": a job is cancelled while
                       \* its files are written; "twice": ... while it is taken
                       \* out of the queue; "fallback": the Codex SDK turns out
                       \* to be missing; "disk": a timeline write fails

ASSUME ParametersAssumption ==
  /\ Cap \in Nat \ {0} /\ MaxCancels \in Nat
  /\ Hazards \subseteq {"early", "twice", "fallback", "disk"}

VARIABLES
  phase,    \* how far startJob and runJob have come with each job
  queue,    \* jobQueue
  active,   \* activeJobCount
  live,     \* liveJobs
  bound,    \* jobs with a cancel function
  proc,     \* each job's provider
  term,     \* the termination of its process tree
  asked,    \* cancelRequested
  held,     \* terminationFailed
  refused,  \* checkpointFailure: the runner stops its provider itself
  ended,    \* terminalFinalizing or terminalEmitted: a done event is out
  cancel,   \* the call of cancelJob in progress for each job
  answer,   \* what cancelJob last answered
  cancels   \* calls of cancelJob so far

run  == <<phase, queue, active>>
vars == <<phase, queue, active, live, bound, proc, term, asked, held, refused,
          ended, cancel, answer, cancels>>

Owned   == {"leading", "orphaned", "query"}  \* a provider that still runs
Holding == {j \in Job : phase[j] \in {"preparing", "running", "confirming",
                                      "finishing", "closing"}}

TypeOK ==
  /\ phase \in [Job -> {"new", "starting", "failed", "queued", "unqueued", "preparing",
                        "running", "confirming", "finishing", "closing", "returned"}]
  /\ queue \in Seq(Job) /\ active \in 0..Cap
  /\ live \subseteq Job /\ bound \subseteq Job /\ asked \subseteq Job
  /\ held \subseteq Job /\ refused \subseteq Job /\ ended \subseteq Job
  /\ proc \in [Job -> Owned \cup {"none", "dead", "over"}]
  /\ term \in [Job -> {"idle", "pending", "confirmed"}]
  /\ cancel \in [Job -> {"idle", "unqueue", "terminate", "settle"}]
  /\ answer \in [Job -> {"none", "ok", "failed"}]
  /\ cancels \in 0..MaxCancels

Init ==
  /\ phase = [j \in Job |-> "new"] /\ queue = <<>> /\ active = 0
  /\ live = {} /\ bound = {} /\ asked = {} /\ held = {} /\ refused = {} /\ ended = {}
  /\ proc = [j \in Job |-> "none"] /\ term = [j \in Job |-> "idle"]
  /\ cancel = [j \in Job |-> "idle"] /\ answer = [j \in Job |-> "none"]
  /\ cancels = 0

At(j, p) == phase[j] = p
Goes(j, p) == phase' = [phase EXCEPT ![j] = p]

-----------------------------------------------------------------------------
(* Starting and dispatching.                                               *)

\* pumpJobQueue, with queue q and count n: entries are shifted while there are
\* any and a slot is free; one whose job is not live any more takes no slot.
Taken(q, k) == {q[i] : i \in 1..k} \cap live

SlotsMutant(n) == Cap + 1 - n
Slots(n) == Cap - n

Shifted(q, n, k) ==
  /\ \A m \in 0..(k - 1) : Cardinality(Taken(q, m)) < Slots(n)
  /\ k = Len(q) \/ Cardinality(Taken(q, k)) >= Slots(n)

Pump(q, n, phases) ==
  \E k \in 0..Len(q) :
    /\ Shifted(q, n, k)
    /\ queue' = SubSeq(q, k + 1, Len(q))
    /\ active' = n + Cardinality(Taken(q, k))
    /\ phase' = [j \in Job |-> IF j \in Taken(q, k) THEN "preparing" ELSE phases[j]]

\* startJob.  The job is live while its files are written ...
StartJob(j) ==
  /\ At(j, "new")
  /\ live' = live \cup {j}
  /\ Goes(j, "starting")
  /\ UNCHANGED <<queue, active, bound, proc, term, asked, held, refused, ended,
                 cancel, answer, cancels>>

\* ... and in the queue when they are.
Enqueue(j) ==
  /\ At(j, "starting")
  /\ Pump(Append(queue, j), active, [phase EXCEPT ![j] = "queued"])
  /\ UNCHANGED <<live, bound, proc, term, asked, held, refused, ended, cancel,
                 answer, cancels>>

StartFails(j) ==
  /\ At(j, "starting")
  /\ live' = live \ {j}
  /\ Goes(j, "failed")
  /\ UNCHANGED <<queue, active, bound, proc, term, asked, held, refused, ended,
                 cancel, answer, cancels>>

-----------------------------------------------------------------------------
(* runJob.                                                                 *)

\* appendEvent of done, by the runner: cancellation, once requested, owns
\* the end of the job.
DoneByRunner(j) == ended' = IF j \in asked THEN ended ELSE ended \cup {j}

\* runJob checks cancelRequested after each await of its preparation
PreparationStops(j) ==
  /\ At(j, "preparing") /\ j \in asked
  /\ Goes(j, "closing")
  /\ UNCHANGED <<queue, active, live, bound, proc, term, asked, held, refused,
                 ended, cancel, answer, cancels>>

\* an unresolved agent, an unsupported provider, no message
PreparationFails(j) ==
  /\ At(j, "preparing")
  /\ Goes(j, "closing")
  /\ DoneByRunner(j)
  /\ UNCHANGED <<queue, active, live, bound, proc, term, asked, held, refused,
                 cancel, answer, cancels>>

\* The provider is launched right after the last check, except that
\* runCodexSdkJob returns to runCodexJob without one when the SDK is
\* missing.  A command that does not exist is a tree that is already dead.
MayLaunch(j) == j \notin asked \/ "fallback" \in Hazards

Launch(j, p) ==
  /\ At(j, "preparing") /\ MayLaunch(j)
  /\ proc' = [proc EXCEPT ![j] = p]
  /\ bound' = bound \cup {j}
  /\ Goes(j, "running")
  /\ UNCHANGED <<queue, active, live, term, asked, held, refused, ended, cancel,
                 answer, cancels>>

\* A query ends, by itself or because it was aborted.
QueryEnds(j) ==
  /\ proc[j] = "query"
  /\ proc' = [proc EXCEPT ![j] = "over"]
  /\ Goes(j, "finishing")
  /\ UNCHANGED <<queue, active, live, bound, term, asked, held, refused, ended,
                 cancel, answer, cancels>>

\* The process exits; its descendants may not.
LeaderExits(j) ==
  /\ proc[j] = "leading"
  /\ \E p \in {"orphaned", "dead"} : proc' = [proc EXCEPT ![j] = p]
  /\ UNCHANGED <<run, live, bound, term, asked, held, refused, ended, cancel,
                 answer, cancels>>

\* bindJobProcess' cancel: all callers share one termination
Terminating(j) == term' = [term EXCEPT ![j] = IF @ = "idle" THEN "pending" ELSE @]

\* The runner has seen the close of its process and has the rest of the
\* tree terminated.
RunnerSeesExit(j) ==
  /\ At(j, "running") /\ proc[j] \in {"orphaned", "dead"}
  /\ Terminating(j)
  /\ Goes(j, IF term[j] = "confirmed" THEN "finishing" ELSE "confirming")
  /\ UNCHANGED <<queue, active, live, bound, proc, asked, held, refused, ended,
                 cancel, answer, cancels>>

\* No checkpoint could be made of a file the provider is going to change.
RunnerKills(j) ==
  /\ At(j, "running") /\ proc[j] = "leading" /\ j \notin refused
  /\ refused' = refused \cup {j}
  /\ Terminating(j)
  /\ UNCHANGED <<run, live, bound, proc, asked, held, ended, cancel, answer,
                 cancels>>

TerminationConfirmed(j) ==
  /\ term[j] = "pending"
  /\ term' = [term EXCEPT ![j] = "confirmed"]
  /\ proc' = [proc EXCEPT ![j] = "dead"]
  /\ held' = held \ {j}
  /\ Goes(j, IF At(j, "confirming") THEN "finishing" ELSE phase[j])
  /\ cancel' = [cancel EXCEPT ![j] = IF @ = "terminate" THEN "settle" ELSE @]
  /\ UNCHANGED <<queue, active, live, bound, asked, refused, ended, answer,
                 cancels>>

\* The tree outlives SIGKILL.  The runner gives up without a done event,
\* and a cancellation fails; a later call makes another attempt.
TerminationUnconfirmed(j) ==
  /\ term[j] = "pending" /\ proc[j] \in Owned
  /\ term' = [term EXCEPT ![j] = "idle"]
  /\ held' = held \cup {j}
  /\ Goes(j, IF At(j, "confirming") THEN "closing" ELSE phase[j])
  /\ cancel' = [cancel EXCEPT ![j] = IF @ = "terminate" THEN "idle" ELSE @]
  /\ answer' = [answer EXCEPT ![j] = IF cancel[j] = "terminate" THEN "failed" ELSE @]
  /\ UNCHANGED <<queue, active, live, bound, proc, asked, refused, ended, cancels>>

RunnerEnds(j) ==
  /\ At(j, "finishing")
  /\ DoneByRunner(j)
  /\ Goes(j, "closing")
  /\ UNCHANGED <<queue, active, live, bound, proc, term, asked, held, refused,
                 cancel, answer, cancels>>

\* runJob's finally
ForgottenMutant(j) == j \notin asked
Forgotten(j) == j \notin asked /\ j \notin held

LeftMutant(j) == IF j \in held THEN active ELSE active - 1
Left(j) == active - 1

RunnerReturns(j) ==
  /\ At(j, "closing")
  /\ live' = IF Forgotten(j) THEN live \ {j} ELSE live
  /\ Pump(queue, Left(j), [phase EXCEPT ![j] = "returned"])
  /\ UNCHANGED <<bound, proc, term, asked, held, refused, ended, cancel, answer,
                 cancels>>

\* failTimelinePersistence: the job is declared failed and its provider, if
\* it has one yet, is cancelled.
TimelineFails(j) ==
  /\ "disk" \in Hazards
  /\ j \in Holding \/ cancel[j] # "idle"
  /\ j \in live \ ended
  /\ ended' = ended \cup {j}
  /\ IF proc[j] \in {"leading", "orphaned", "dead"} THEN Terminating(j) ELSE UNCHANGED term
  /\ UNCHANGED <<run, live, bound, proc, asked, held, refused, cancel, answer,
                 cancels>>

-----------------------------------------------------------------------------
(* cancelJob.  A call for a job that already has one in progress waits for *)
(* that one's answer.                                                      *)

Call == cancels < MaxCancels /\ cancels' = cancels + 1

\* The job is taken out of the queue, which ends it.
Without(i) == SubSeq(queue, 1, i - 1) \o SubSeq(queue, i + 1, Len(queue))

CancelQueued(j) ==
  /\ Call
  /\ \E i \in 1..Len(queue) : queue[i] = j /\ queue' = Without(i)
  /\ Goes(j, "unqueued")
  /\ cancel' = [cancel EXCEPT ![j] = "unqueue"]
  /\ UNCHANGED <<active, live, bound, proc, term, asked, held, refused, ended,
                 answer>>

\* The error event is written: done, which appendEvent refuses from anyone
\* but the cancellation itself when another one is requested.
QueuedCancelled(j) ==
  /\ cancel[j] = "unqueue"
  /\ DoneByRunner(j)
  /\ live' = live \ {j}
  /\ cancel' = [cancel EXCEPT ![j] = "idle"]
  /\ answer' = [answer EXCEPT ![j] = "ok"]
  /\ UNCHANGED <<run, bound, proc, term, asked, held, refused, cancels>>

\* The provider is asked to stop.
CancelBound(j) ==
  /\ j \in live \cap bound /\ cancel[j] = "idle"
  /\ Call
  /\ asked' = asked \cup {j}
  /\ IF proc[j] \in {"query", "over"} THEN UNCHANGED term ELSE Terminating(j)
  /\ cancel' = [cancel EXCEPT ![j] =
       IF proc[j] \in {"query", "over"} \/ term[j] = "confirmed"
       THEN "settle" ELSE "terminate"]
  /\ UNCHANGED <<run, live, bound, proc, held, refused, ended, answer>>

\* There is no provider yet.
CancelPreparing(j) ==
  /\ j \in live \ bound /\ cancel[j] = "idle"
  /\ phase[j] \in {"preparing", "closing", "returned"}
  /\ Call
  /\ asked' = asked \cup {j}
  /\ cancel' = [cancel EXCEPT ![j] = "settle"]
  /\ UNCHANGED <<run, live, bound, proc, term, held, refused, ended, answer>>

\* There is no runner to wait for: startJob is still writing the job's
\* files, or another call is taking the job out of the queue.
CancelUnrun(j) ==
  /\ j \in live
  /\ \/ "early" \in Hazards /\ At(j, "starting")
     \/ "twice" \in Hazards /\ cancel[j] = "unqueue"
  /\ Call
  /\ asked' = asked \cup {j}
  /\ held' = held \cup {j}
  /\ answer' = [answer EXCEPT ![j] = "failed"]
  /\ UNCHANGED <<run, live, bound, proc, term, refused, ended, cancel>>

\* waitForJobRunnerSettlement: the runner has finished, and cancelJob
\* writes the end of the job, unless it has one ...
SettlesMutant(j) == At(j, "returned") \/ term[j] = "confirmed"
Settles(j) == At(j, "returned")

CancelSettles(j) ==
  /\ cancel[j] = "settle" /\ Settles(j)
  /\ held' = held \ {j}
  /\ ended' = ended \cup {j}
  /\ live' = live \ {j}
  /\ cancel' = [cancel EXCEPT ![j] = "idle"]
  /\ answer' = [answer EXCEPT ![j] = "ok"]
  /\ UNCHANGED <<run, bound, proc, term, asked, refused, cancels>>

\* ... or three seconds have passed.
CancelTimesOut(j) ==
  /\ cancel[j] = "settle" /\ ~Settles(j)
  /\ held' = held \cup {j}
  /\ cancel' = [cancel EXCEPT ![j] = "idle"]
  /\ answer' = [answer EXCEPT ![j] = "failed"]
  /\ UNCHANGED <<run, live, bound, proc, term, asked, refused, ended, cancels>>

-----------------------------------------------------------------------------
Runs(j) ==
  \/ Enqueue(j) \/ StartFails(j)
  \/ PreparationStops(j) \/ PreparationFails(j)
  \/ \E p \in {"leading", "query", "dead"} : Launch(j, p)
  \/ QueryEnds(j) \/ LeaderExits(j) \/ RunnerSeesExit(j)
  \/ TerminationConfirmed(j) \/ TerminationUnconfirmed(j)
  \/ RunnerEnds(j) \/ RunnerReturns(j)
  \/ QueuedCancelled(j) \/ CancelSettles(j) \/ CancelTimesOut(j)

Asks(j) == \/ StartJob(j) \/ RunnerKills(j) \/ TimelineFails(j)
           \/ CancelQueued(j) \/ CancelBound(j) \/ CancelPreparing(j) \/ CancelUnrun(j)

Next == \E j \in Job : Runs(j) \/ Asks(j)

\* Timers fire, terminations are bounded by timers, and every provider ends
\* at some time.
Spec == Init /\ [][Next]_vars /\ \A j \in Job : WF_vars(Runs(j))

-----------------------------------------------------------------------------
\* A slot is taken by exactly the jobs whose runner has been started and has
\* not returned, however it returns and whatever is cancelled meanwhile.
SlotsExact == active = Cardinality(Holding)

\* No job waits while a slot is free.
NoIdleSlot == queue # <<>> => active = Cap

\* "Retain the owned PID/group so cancel or shutdown can retry instead of
\* orphaning it": a provider of which anything runs belongs to a live job,
\* and can be cancelled.
ProvidersAreOwned == \A j \in Job : proc[j] \in Owned => j \in live \cap bound

\* A job whose cancellation was answered with ok does not run, and never
\* will: it has no slot, no provider and no place in the queue.
CancelledIsOver ==
  \A j \in Job : answer[j] = "ok" =>
    /\ proc[j] \notin Owned
    /\ j \notin live
    /\ phase[j] \in {"unqueued", "returned"}

\* A job that has left liveJobs after its run has got its done event: no
\* stream of it is left waiting, and nothing is left to reconcile.
ForgottenIsEnded ==
  \A j \in Job : At(j, "returned") /\ j \notin live => j \in ended

\* So has one that is cancelled in the queue: cancelJob promises to
\* "terminate it cleanly so it never starts".
UnqueuedIsEnded ==
  \A j \in Job : At(j, "unqueued") /\ j \notin live => j \in ended

\* No provider is launched for a job whose cancellation was requested.
NoLateLaunch ==
  [][\A j \in Job : proc[j] = "none" /\ proc'[j] # "none" => j \notin asked]_vars

\* No provider is launched for a job that was declared over.
NoLaunchAfterEnd ==
  [][\A j \in Job : proc[j] = "none" /\ proc'[j] # "none" => j \notin ended]_vars

\* In the end every slot is free and the queue empty.  A job is live then
\* only if a failed cancellation or termination keeps it for a retry, or if
\* it was declared over: when a timeline write fails in just the moment
\* after a termination did, the attempt that this starts may succeed when
\* runJob has already kept the job, and nothing drops it then.
AllSettles == <>[](active = 0 /\ queue = <<>> /\ live \subseteq asked \cup held \cup ended)

\* Type correctness, and slots that are counted exactly and never left idle.
SlotsAreSound == TypeOK /\ SlotsExact /\ NoIdleSlot

\* A job whose cancellation was confirmed, or that was forgotten, is over for
\* everybody.
CancelIsFinal == CancelledIsOver /\ ForgottenIsEnded
=============================================================================
