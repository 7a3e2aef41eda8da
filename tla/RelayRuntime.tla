--------------------------- MODULE RelayRuntime ----------------------------
(***************************************************************************)
(* The relay runtime, RelayRuntime in packages/codesurf-relay/src/         *)
(* runtime.ts: it runs an agent in turns.  A turn reads the unread         *)
(* messages of the participant, lets a provider answer, sends the replies, *)
(* and marks the messages read.  spawn, start, stop and destroy abort a    *)
(* turn and wait for its provider to be gone before they go on.            *)
(*                                                                         *)
(* The module models one participant; the runtime keeps them apart by id.  *)
(* Every state object (RuntimeAgentState) is identified by the call of     *)
(* spawn that created it.  Work, status and memory files, which a turn     *)
(* also writes, are left out.                                              *)
(***************************************************************************)
EXTENDS Integers, FiniteSets

CONSTANTS Message,   \* messages to the participant
          MaxCalls,  \* bound of the model: calls of spawn, start and stop
          Faults     \* which errors happen: "read", of a read that the relay
                     \* swallows, "turn", of a turn, "upsert" and "initial", of
                     \* spawn when it writes its participant and its first task

ASSUME CallsAssumption == MaxCalls \in Nat
ASSUME FaultsAssumption == Faults \subseteq {"read", "turn", "upsert", "initial"}

VARIABLES
  inbox,     \* message -> unsent, unread or read, in the files
  noticed,   \* messages whose event reached the runtime
  answered,  \* message -> turns that showed it and sent their replies, up to 2
  cut,       \* messages that a turn answered and could not mark
  missed,    \* unread messages that the last read did not return
  agents,    \* the object in the map, 0 when there is none
  object,    \* spawn call -> the object it created
  revision,  \* spawnRevisions: the call that holds it
  calls,     \* call -> where it waits
  made,      \* calls so far
  command,   \* what the last call was
  destroy,   \* no, waiting, resolved or rejected
  orphans    \* objects of a dead process whose provider may still be alive

vars == <<inbox, noticed, answered, cut, missed, agents, object, revision, calls, made,
          command, destroy, orphans>>
mail == <<inbox, noticed, answered>>
control == <<agents, revision, calls, made, command, destroy, orphans>>

Call == 1..MaxCalls

\* stage: where the active tick waits.  seen: the unread messages its turn
\* shows to the provider.  live: providers that have not settled
\* (providerTeardowns).  lost: providers whose termination nobody confirmed
\* (providerTeardownFailures).  watched: spawn waits for the abort of this turn.
Object == [running: BOOLEAN, ready: BOOLEAN, pending: BOOLEAN, watched: BOOLEAN,
           epoch: 0..MaxCalls,
           stage: {"none", "reading", "starting", "provider", "replying", "marking",
                   "failing"},
           seen: SUBSET Message, live: 0..MaxCalls, lost: 0..MaxCalls]
NoObject == [running |-> FALSE, ready |-> FALSE, pending |-> FALSE, watched |-> FALSE,
             epoch |-> 0, stage |-> "none", seen |-> {}, live |-> 0, lost |-> 0]
Spawned == [NoObject EXCEPT !.running = TRUE]

CallState == [op: {"none", "spawn", "start", "stop"},
              at: {"none", "teardown", "upsert", "initial", "turns"},
              of: 0..MaxCalls, epoch: 0..MaxCalls]
Returned == [op |-> "none", at |-> "none", of |-> 0, epoch |-> 0]

TypeOK ==
  /\ inbox \in [Message -> {"unsent", "unread", "read"}]
  /\ noticed \subseteq Message /\ cut \subseteq Message /\ missed \subseteq Message
  /\ orphans \subseteq Call
  /\ answered \in [Message -> 0..2]
  /\ agents \in 0..MaxCalls /\ revision \in 0..MaxCalls /\ made \in 0..MaxCalls
  /\ object \in [Call -> Object]
  /\ calls \in [Call -> CallState]
  /\ command \in {"none", "spawn", "start", "stop"}
  /\ destroy \in {"no", "waiting", "resolved", "rejected"}

Init ==
  /\ inbox = [m \in Message |-> "unsent"]
  /\ noticed = {} /\ cut = {} /\ missed = {} /\ orphans = {}
  /\ answered = [m \in Message |-> 0]
  /\ agents = 0 /\ revision = 0 /\ made = 0
  /\ object = [g \in Call |-> NoObject]
  /\ calls = [c \in Call |-> Returned]
  /\ command = "none" /\ destroy = "no"

-----------------------------------------------------------------------------
Unread == {m \in Message : inbox[m] = "unread"}

\* assertParticipantActive.  (An epoch ends together with the tick that
\* belongs to it, so that a tick need not compare its own.)
InMap(g) == agents = g /\ destroy = "no"
Current(g) == InMap(g) /\ object[g].running

\* Abort the turn: the tick is over before anything else happens, the
\* provider settles when it settles.
Aborted(o) == [o EXCEPT !.running = FALSE, !.epoch = @ + 1, !.stage = "none", !.seen = {},
                         !.watched = FALSE]
CutOff(o) == cut \cup (IF o.stage = "marking" THEN o.seen ELSE {})

\* Of an object outside the map nothing matters but its tick and its providers.
Dropped(o) == [NoObject EXCEPT !.running = o.running, !.stage = o.stage, !.live = o.live, !.lost = o.lost]

\* schedule
ScheduledMutant(o) == IF o.running /\ o.stage = "none" THEN [o EXCEPT !.stage = "reading"] ELSE o
Scheduled(o) ==
  IF ~o.running THEN o
  ELSE IF o.stage # "none" THEN [o EXCEPT !.pending = TRUE]
  ELSE [o EXCEPT !.pending = FALSE, !.stage = "reading"]

\* awaitAgentTeardown: no tick and no provider left.
TornDownMutant(o) == o.stage = "none"
TornDownForeverMutant(o) == o.stage = "none" /\ o.live = 0 /\ o.lost = 0
TornDown(o) == o.stage = "none" /\ o.live = 0

\* A call that waits for a teardown or for the turns it has scheduled goes on
\* when they are over: in the order of the calls, and before anything that
\* waits for a file, a timer or a provider.
WaitsFor(c, g) == calls[c].at \in {"teardown", "turns"} /\ calls[c].of = g
Continues(c) ==
  LET o == object[calls[c].of] IN
  /\ \/ calls[c].at = "teardown" /\ TornDown(o)
     \/ calls[c].at = "turns" /\ o.stage = "none"
  /\ \A d \in 1..(c - 1) : ~WaitsFor(d, calls[c].of)
Quiet == \A c \in Call : ~Continues(c)

Set(g, o) == object' = [object EXCEPT ![g] = o]
Return(c) == calls' = [calls EXCEPT ![c] = Returned]
AwaitTurns(c, g) == calls' = [calls EXCEPT ![c] = [Returned EXCEPT !.op = calls[c].op, !.at = "turns",
                                                                  !.of = g]]

-----------------------------------------------------------------------------
(* Calls.                                                                  *)

\* The start of all three: abort what runs and wait for it to be gone.  stop
\* and spawn supersede a spawn under way.
Interrupt(c, op) ==
  /\ cut' = CutOff(object[agents])
  /\ Set(agents, Aborted(object[agents]))
  /\ calls' = [calls EXCEPT ![c] = [op |-> op, at |-> "teardown", of |-> agents,
                                    epoch |-> object[agents].epoch + 1]]

Invoke(op) ==
  LET c == made + 1 IN
  /\ made < MaxCalls /\ destroy = "no"
  /\ made' = c /\ command' = op
  /\ revision' = IF op = "start" THEN revision ELSE c
  /\ IF agents # 0 THEN Interrupt(c, op)
     ELSE /\ calls' = IF op # "spawn" THEN calls
                      ELSE [calls EXCEPT ![c] = [Returned EXCEPT !.op = op, !.at = "upsert"]]
          /\ UNCHANGED <<object, cut>>
  /\ UNCHANGED <<mail, missed, agents, destroy, orphans>>

\* What waited for the teardown goes on.  A provider that could not be
\* confirmed dead makes it throw, for good.  The spawn that still holds the
\* revision removes the old object; the start whose epoch is still current
\* runs it again.
Superseded(c) == destroy # "no" \/ revision # c
Stale(c) == ~InMap(calls[c].of) \/ object[calls[c].of].epoch # calls[c].epoch

TeardownOver(c) ==
  LET g == calls[c].of  o == object[g] IN
  /\ Continues(c) /\ calls[c].at = "teardown"
  /\ \/ /\ calls[c].op = "spawn" /\ o.lost = 0 /\ ~Superseded(c)
        /\ IF agents = g THEN agents' = 0 /\ Set(g, Dropped(o)) ELSE UNCHANGED <<agents, object>>
        /\ calls' = [calls EXCEPT ![c] = [Returned EXCEPT !.op = "spawn", !.at = "upsert"]]
     \/ /\ calls[c].op = "start" /\ o.lost = 0 /\ ~Stale(c)
        /\ Set(g, Scheduled([o EXCEPT !.ready = FALSE, !.running = TRUE]))
        /\ AwaitTurns(c, g)
        /\ UNCHANGED agents
     \/ /\ ~(calls[c].op = "spawn" /\ o.lost = 0 /\ ~Superseded(c))
        /\ ~(calls[c].op = "start" /\ o.lost = 0 /\ ~Stale(c))
        /\ Return(c)
        /\ UNCHANGED <<agents, object>>
  /\ UNCHANGED <<mail, cut, missed, revision, made, command, destroy, orphans>>

\* The tick that a start or a spawn awaits is over.
TurnsOver(c) ==
  /\ Continues(c) /\ calls[c].at = "turns"
  /\ Return(c)
  /\ UNCHANGED <<mail, cut, missed, agents, object, revision, made, command, destroy, orphans>>

\* spawn, the participant is written: create the agent.
Create(c) ==
  /\ calls[c].at = "upsert"
  /\ Quiet
  /\ IF Superseded(c)
     THEN Return(c) /\ UNCHANGED <<agents, object>>
     ELSE /\ agents' = c
          /\ Set(c, Spawned)
          /\ calls' = [calls EXCEPT ![c] = [Returned EXCEPT !.op = "spawn", !.at = "initial"]]
  /\ UNCHANGED <<mail, cut, missed, revision, made, command, destroy, orphans>>

UpsertFails(c) ==
  /\ "upsert" \in Faults
  /\ calls[c].at = "upsert"
  /\ Quiet
  /\ Return(c)
  /\ UNCHANGED <<mail, cut, missed, agents, object, revision, made, command, destroy, orphans>>

\* spawn, the initial task is sent: its event and spawn itself schedule a
\* turn.  spawn waits for the tick, and races the turn that is active now.
FirstTurn(c) == Current(c) /\ object[c].epoch = 0

InitialSent(c) ==
  /\ calls[c].at = "initial"
  /\ Quiet
  /\ IF FirstTurn(c)
     THEN /\ Set(c, [Scheduled(Scheduled(object[c])) EXCEPT !.watched = TRUE])
          /\ AwaitTurns(c, c)
     ELSE Return(c) /\ UNCHANGED object
  /\ UNCHANGED <<mail, cut, missed, agents, revision, made, command, destroy, orphans>>

\* It could not be sent: the agent leaves the map, whatever it does by then.
InitialFails(c) ==
  /\ "initial" \in Faults
  /\ calls[c].at = "initial"
  /\ Quiet
  /\ IF FirstTurn(c)
     THEN agents' = 0 /\ Set(c, Dropped(object[c])) /\ cut' = CutOff(object[c])
     ELSE UNCHANGED <<agents, object, cut>>
  /\ Return(c)
  /\ UNCHANGED <<mail, missed, revision, made, command, destroy, orphans>>

-----------------------------------------------------------------------------
(* Messages.                                                               *)

\* sendDirectMessage commits the message and emits its event, unless the
\* sender is no longer active at that moment.
Deliver(m) ==
  /\ inbox[m] = "unsent"
  /\ Quiet
  /\ inbox' = [inbox EXCEPT ![m] = "unread"]
  /\ \/ /\ noticed' = noticed \cup {m}
        /\ IF agents # 0 /\ destroy = "no"
           THEN Set(agents, Scheduled(object[agents])) ELSE UNCHANGED object
     \/ UNCHANGED <<noticed, object>>
  /\ UNCHANGED <<answered, cut, missed, control>>

-----------------------------------------------------------------------------
(* The tick.                                                               *)

\* The loop of schedule runs another turn when one was asked for meanwhile.
TurnOver(g, o) == IF o.pending /\ Current(g)
                  THEN [o EXCEPT !.pending = FALSE, !.watched = FALSE, !.stage = "reading", !.seen = {}]
                  ELSE [o EXCEPT !.watched = FALSE, !.stage = "none", !.seen = {}]

\* A tick goes on only while its agent is the current one.
GoOn(g, o, next) == Set(g, IF Current(g) THEN next ELSE TurnOver(g, o))

\* tick reads the unread messages.  A file that cannot be read looks like one
\* that is not there: messages are missing, or the participant is, and the
\* turn ends without an error.  (A message of a channel or the initial task
\* may be all there is to show; the model does not count them.)
Reads(o, shown) == [o EXCEPT !.stage = "starting", !.seen = shown]
Readable == IF "read" \in Faults THEN SUBSET Unread ELSE {Unread}

TickReads(g) ==
  LET o == object[g] IN
  /\ o.stage = "reading"
  /\ Quiet
  /\ \E shown \in Readable :
       /\ \/ GoOn(g, o, Reads(o, shown))
          \/ /\ shown = {} /\ (o.ready \/ "read" \in Faults)
             /\ Set(g, TurnOver(g, o))
       /\ missed' = IF Current(g) THEN (missed \cup Unread) \ shown ELSE missed
  /\ UNCHANGED <<mail, cut, control>>

TurnStarts(g) ==
  LET o == object[g] IN
  /\ o.stage = "starting"
  /\ Quiet
  /\ GoOn(g, o, [o EXCEPT !.stage = "provider", !.live = @ + 1])
  /\ UNCHANGED <<mail, cut, missed, control>>

\* The provider of the turn settles: with an answer, an error, or without a
\* confirmation that its processes are gone.
ProviderSettles(g) ==
  LET o == [object[g] EXCEPT !.live = @ - 1]  p == [o EXCEPT !.lost = @ + 1] IN
  /\ o.stage = "provider"
  /\ Quiet
  /\ \/ GoOn(g, o, [o EXCEPT !.stage = "replying"])
     \/ GoOn(g, o, [o EXCEPT !.stage = "failing"])
     \/ GoOn(g, p, [p EXCEPT !.stage = "failing"])
  /\ UNCHANGED <<mail, cut, missed, control>>

\* An aborted turn does not wait for its provider.  Its abort also rejects the
\* spawn that watches it, which takes the agent from the map before the turn
\* has noted its failure.
TurnTimesOut(g) ==
  LET o == object[g] IN
  /\ o.stage = "provider"
  /\ Quiet
  /\ IF o.watched
     THEN agents' = 0 /\ Set(g, Dropped([o EXCEPT !.stage = "none"])) /\ Return(g)
     ELSE /\ Set(g, [o EXCEPT !.stage = "none", !.seen = {}, !.running = @ /\ ~Current(g)])
          /\ UNCHANGED <<agents, calls>>
  /\ UNCHANGED <<mail, cut, missed, revision, made, command, destroy, orphans>>

AbandonedSettles(g) ==
  LET o == [object[g] EXCEPT !.live = @ - 1] IN
  /\ object[g].live > (IF o.stage = "provider" THEN 1 ELSE 0)
  /\ Quiet
  /\ Set(g, o) \/ Set(g, [o EXCEPT !.lost = @ + 1])
  /\ UNCHANGED <<mail, cut, missed, control>>

Count(n) == IF n < 2 THEN n + 1 ELSE n

\* The replies are sent, one after the other.  The agent may or may not call
\* itself ready.
Reply(g) ==
  LET o == object[g] IN
  /\ o.stage = "replying"
  /\ Quiet
  /\ \E ready \in {o.ready, TRUE} : GoOn(g, o, [o EXCEPT !.stage = "marking", !.ready = ready])
  /\ answered' = IF Current(g)
                 THEN [m \in Message |-> IF m \in o.seen THEN Count(answered[m]) ELSE answered[m]]
                 ELSE answered
  /\ UNCHANGED <<inbox, noticed, cut, missed, control>>

\* markDirectMessagesRead: one file after the other.  One that cannot be read
\* is passed over.
ToMarkMutant(o) == Unread
ToMark(o) == o.seen

MarkRead(g) ==
  LET o == object[g] IN
  /\ o.stage = "marking"
  /\ Quiet
  /\ IF Current(g) /\ ToMark(o) # {}
     THEN \E m \in ToMark(o) :
            /\ \/ inbox' = [inbox EXCEPT ![m] = "read"] /\ UNCHANGED <<cut, missed>>
               \/ /\ "read" \in Faults
                  /\ cut' = cut \cup {m} /\ missed' = missed \cup {m}
                  /\ UNCHANGED inbox
            /\ Set(g, [o EXCEPT !.seen = @ \ {m}])
     ELSE Set(g, TurnOver(g, o)) /\ UNCHANGED <<inbox, cut, missed>>
  /\ UNCHANGED <<noticed, answered, control>>

\* A file cannot be written, or the participant is gone.
TurnFails(g) ==
  LET o == object[g] IN
  /\ "turn" \in Faults
  /\ o.stage \in {"starting", "replying", "marking"}
  /\ Quiet
  /\ cut' = CutOff(o)
  /\ GoOn(g, o, [o EXCEPT !.stage = "failing", !.seen = {}])
  /\ UNCHANGED <<mail, missed, control>>

\* runAgentTickWithErrorHandling: the status is written, or not, and the
\* agent stops running.
FailureNoted(g) ==
  LET o == object[g] IN
  /\ o.stage = "failing"
  /\ Quiet
  /\ Set(g, [o EXCEPT !.stage = "none", !.seen = {}, !.watched = FALSE,
                      !.running = @ /\ ~Current(g)])
  /\ UNCHANGED <<mail, cut, missed, control>>

-----------------------------------------------------------------------------
(* The end.                                                                *)

Destroy ==
  /\ destroy = "no"
  /\ destroy' = "waiting"
  /\ IF agents # 0
     THEN cut' = CutOff(object[agents]) /\ Set(agents, Aborted(object[agents]))
     ELSE UNCHANGED <<cut, object>>
  /\ UNCHANGED <<mail, missed, agents, revision, calls, made, command, orphans>>

Destroyed ==
  /\ destroy = "waiting"
  /\ agents # 0 => TornDown(object[agents])
  /\ destroy' = IF agents # 0 /\ object[agents].lost > 0 THEN "rejected" ELSE "resolved"
  /\ agents' = 0
  /\ UNCHANGED <<mail, cut, missed, object, revision, calls, made, command, orphans>>

\* The process dies.  The files stay, and so do its providers, which are
\* processes of their own: nobody ends them, and nobody waits for them.
Crash ==
  /\ cut' = IF agents # 0 THEN CutOff(object[agents]) ELSE cut
  /\ agents' = 0 /\ revision' = 0 /\ command' = "none" /\ destroy' = "no"
  /\ object' = [g \in Call |-> NoObject]
  /\ calls' = [c \in Call |-> Returned]
  /\ orphans' = orphans \cup {g \in Call : object[g].live + object[g].lost > 0}
  /\ UNCHANGED <<mail, missed, made>>

-----------------------------------------------------------------------------
CallStep(c) == \/ TeardownOver(c) \/ TurnsOver(c) \/ Create(c) \/ UpsertFails(c)
               \/ InitialSent(c) \/ InitialFails(c)

Tick(g) == \/ TickReads(g) \/ TurnStarts(g) \/ ProviderSettles(g) \/ TurnTimesOut(g)
           \/ Reply(g) \/ MarkRead(g) \/ TurnFails(g) \/ FailureNoted(g)

\* What goes on by itself.
Work == \/ \E g \in Call : CallStep(g) \/ Tick(g) \/ AbandonedSettles(g)
        \/ Destroyed

Next ==
  \/ \E op \in {"spawn", "start", "stop"} : Invoke(op)
  \/ \E m \in Message : Deliver(m)
  \/ Destroy
  \/ Crash
  \/ Work

\* Calls and ticks go on when what they wait for comes back: files do, a turn
\* has a time limit, and an aborted provider is killed within a bounded time
\* (terminateProcessTree), confirmed or not.
Scheduling == WF_vars(Work)

Spec == Init /\ [][Next]_vars /\ Scheduling

-----------------------------------------------------------------------------
\* An agent that its own spawn took from the map while it was running, or one
\* of a process that died.
Stray(g) == g # agents /\ (object[g].running \/ g \in orphans)

\* The provider of an object is at work, or may be.
AtWork(g) == object[g].live + object[g].lost > 0 \/ g \in orphans

\* A participant never has two providers at work, nor one besides another
\* that may still be alive: however spawn, start, stop, timeouts and failures
\* overlap, the next turn waits for the last one's provider.  Only agents that
\* spawn dropped, and those of a dead process, may work beside it.
OneProvider ==
  \A g, h \in Call :
    /\ object[g].live + object[g].lost <= 1
    /\ AtWork(g) /\ AtWork(h) /\ g # h => Stray(g) \/ Stray(h)

\* A stop that has returned holds: nothing of the agent is at work any more,
\* whichever spawn or start was still under way when it was called.
StopHolds ==
  command = "stop" /\ (\A c \in Call : calls[c].at = "none")
    => \A g \in Call : Stray(g) \/ (object[g].stage = "none" /\ object[g].live = 0)

\* A destroy that reports success leaves no provider behind ...
DestroyIsClean ==
  destroy = "resolved" => \A g \in Call : object[g].live = 0 /\ object[g].lost = 0

\* ... but those nobody owns any more.
DestroyHolds ==
  destroy = "resolved" => \A g \in Call : AtWork(g) => Stray(g)

\* A message is marked read only when a turn has shown it to the provider and
\* sent the replies: one that arrives during the turn stays unread.
ReadIsAnswered == \A m \in Message : inbox[m] = "read" => answered[m] > 0

\* A message is answered again only when a turn that had replied could not
\* mark it: a crash, an abort or a file error came between.
AnsweredAgain == \A m \in Message : answered[m] = 2 => m \in cut

\* A message whose event the runtime saw gets read while its agent runs, if
\* its file can be read.
Waiting(m) == m \in noticed /\ inbox[m] = "unread" /\ agents # 0 /\ Current(agents)

NoticedIsRead == \A m \in Message : Waiting(m) ~> (~Waiting(m) \/ m \in missed)

\* What the code does not keep: a message whose file could not be read is not
\* read again unless something else wakes the agent.
MissedIsRead == \A m \in Message : Waiting(m) ~> ~Waiting(m)

\* spawn, start and stop come back: what they abort ends, and so do the turns
\* that spawn and start begin.
CallsReturn == \A c \in Call : (calls[c].at # "none") ~> (calls[c].at = "none")

\* Type correctness, one provider at most, and none after a stop or a destroy.
ProvidersAreSound == TypeOK /\ OneProvider /\ StopHolds /\ DestroyHolds

\* No message is lost between answer and mark, and none is repeated without
\* a cause.
MessagesAreAnswered == ReadIsAnswered /\ AnsweredAgain
=============================================================================
