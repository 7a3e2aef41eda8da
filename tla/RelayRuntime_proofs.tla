------------------------ MODULE RelayRuntime_proofs ------------------------
(***************************************************************************)
(* However spawn, start, stop, destroy, timeouts, failures and crashes     *)
(* overlap, for any number of calls and messages, a participant of the     *)
(* relay runtime has one provider at most, none is left after a stop or a  *)
(* destroy that reports success (ProvidersAreSound), but those of agents   *)
(* that spawn itself has dropped, and no message is marked read before it  *)
(* is answered, nor answered twice without a cause (MessagesAreAnswered).  *)
(*                                                                         *)
(* At the end, the same is done for the files a message is stored in       *)
(* (AtomicWrite).                                                          *)
(***************************************************************************)
EXTENDS RelayRuntime, TLAPS

-----------------------------------------------------------------------------
\* An object by itself: a provider is at work or lost only where the stage
\* says so.
Sound(o) ==
  /\ o \in Object
  /\ o.live + o.lost <= 1
  /\ o.stage \in {"reading", "starting", "replying", "marking"} => o.live = 0 /\ o.lost = 0
  /\ o.stage = "provider" => o.live = 1
  /\ o.stage = "failing" => o.live = 0
  /\ o.stage # "none" => o.running
  /\ o.watched => o.stage # "none"

ObjectsInv == \A g \in Call : Sound(object[g])

\* When a turn may begin, no provider is left.
Rested(o) == o.stage = "none" /\ o.running => o.live = 0 /\ o.lost = 0

InsideInv == agents # 0 => Rested(object[agents])

\* An object outside the map is one that its spawn has dropped, or it does
\* nothing; only a destroy that reports an error leaves a lost provider behind.
OutsideInv ==
  \A g \in Call : g # agents => /\ ~object[g].watched
                                /\ ~object[g].running =>
                                     /\ object[g].stage = "none" /\ object[g].live = 0
                                     /\ object[g].lost > 0 => destroy = "rejected"

\* Destroy ends the turn, and the map is empty when it is over.
DestroyInv ==
  /\ agents # 0 /\ destroy # "no" => object[agents].stage = "none" /\ ~object[agents].running
  /\ destroy \in {"resolved", "rejected"} => agents = 0

\* An object is aborted once by each later call, and once by destroy.
EpochInv ==
  \A g \in Call : IF g <= made
                  THEN object[g].epoch <= made - g + (IF destroy = "no" THEN 0 ELSE 1)
                  ELSE object[g] = NoObject /\ calls[g] = Returned /\ g \notin orphans

\* What a call under way knows.  The call that holds the revision is the only
\* one that may change the map; the object a call is about to create has
\* never been seen by another.
CallsInv ==
  /\ agents <= made /\ revision <= made /\ agents \notin orphans
  /\ \A c \in Call :
       /\ calls[c].at = "teardown" =>
            /\ calls[c].of \in Call /\ calls[c].of <= made
            /\ revision = c => agents \in {0, calls[c].of}
            /\ calls[c].of = agents => calls[c].epoch <= object[agents].epoch
       /\ calls[c].at = "upsert" /\ revision = c => agents = 0
       /\ calls[c].at \in {"teardown", "upsert"} =>
            /\ agents # c /\ c \notin orphans
            /\ \A d \in Call : calls[d].at = "teardown" => calls[d].of # c

\* After a stop nothing can begin a turn, and stop itself waits for the last
\* provider.
StopInv ==
  command = "stop" =>
    /\ made \in Call /\ revision = made
    /\ calls[made].op # "spawn" /\ calls[made].at \in {"none", "teardown"}
    /\ agents # 0 => ~object[agents].running
    /\ agents # 0 /\ object[agents].live > 0 =>
         calls[made].at = "teardown" /\ calls[made].of = agents
    /\ \A c \in Call : calls[c].at = "teardown" /\ calls[c].op = "start" /\ calls[c].of = agents
                       => calls[c].epoch < object[agents].epoch

\* A turn shows unread messages, and marks those it has answered.  One that
\* was answered is read, or about to be marked, or could not be marked.
MessagesInv ==
  /\ agents # 0 /\ object[agents].stage \in {"starting", "provider", "replying"} =>
       \A m \in object[agents].seen : inbox[m] = "unread"
  /\ agents # 0 /\ object[agents].stage = "marking" =>
       \A m \in object[agents].seen : answered[m] > 0
  /\ \A m \in Message :
       answered[m] > 0 => \/ inbox[m] = "read" \/ m \in cut
                          \/ agents # 0 /\ object[agents].stage = "marking"
                             /\ m \in object[agents].seen

\* The inductive invariant: what it says of providers and calls, and of messages.
ControlInv == /\ ObjectsInv /\ InsideInv /\ OutsideInv /\ DestroyInv /\ EpochInv /\ CallsInv
              /\ OneProvider /\ StopInv
MailInv == MessagesInv /\ MessagesAreAnswered
IInv == TypeOK /\ ControlInv /\ MailInv

-----------------------------------------------------------------------------
(* Objects.                                                                *)

\* What schedule does to an object.
LEMMA ScheduledFacts ==
  ASSUME NEW o, Sound(o), Rested(o)
  PROVE  /\ Sound(Scheduled(o)) /\ Rested(Scheduled(o))
         /\ Scheduled(o).epoch = o.epoch /\ Scheduled(o).running = o.running
         /\ Scheduled(o).live = o.live /\ Scheduled(o).lost = o.lost
         /\ o.stage # "none" => Scheduled(o).stage = o.stage
         /\ o.stage = "none" => Scheduled(o).stage \in {"none", "reading"}
         /\ Scheduled(o).stage = "none" => ~o.running
         /\ Scheduled(o).seen = o.seen
         /\ ~o.running => Scheduled(o) = o
<1>1. CASE ~o.running BY <1>1 DEF Scheduled
<1>2. CASE o.running /\ o.stage # "none"
  <2>1. Scheduled(o) = [o EXCEPT !.pending = TRUE] BY <1>2 DEF Scheduled
  <2> QED BY <1>2, <2>1 DEF Sound, Rested, Object
<1>3. CASE o.running /\ o.stage = "none"
  <2>1. Scheduled(o) = [o EXCEPT !.pending = FALSE, !.stage = "reading"] BY <1>3 DEF Scheduled
  <2>2. o.live = 0 /\ o.lost = 0 BY <1>3 DEF Rested
  <2> QED BY <1>3, <2>1, <2>2 DEF Sound, Rested, Object
<1> QED BY <1>1, <1>2, <1>3

\* What an abort does to it.
LEMMA AbortedFacts ==
  ASSUME NEW o, Sound(o), o.epoch + 1 \in 0..MaxCalls
  PROVE  /\ Sound(Aborted(o)) /\ Rested(Aborted(o))
         /\ Aborted(o).epoch = o.epoch + 1 /\ ~Aborted(o).running
         /\ Aborted(o).live = o.live /\ Aborted(o).lost = o.lost
         /\ Aborted(o).stage = "none"
BY DEF Sound, Rested, Aborted, Object

\* What is left of it outside the map.
LEMMA DroppedFacts ==
  ASSUME NEW o, Sound(o)
  PROVE  /\ Sound(Dropped(o)) /\ ~Dropped(o).watched /\ Dropped(o).epoch = 0
         /\ Dropped(o).running = o.running /\ Dropped(o).stage = o.stage
         /\ Dropped(o).live = o.live /\ Dropped(o).lost = o.lost
<1>1. 0 \in 0..MaxCalls /\ {} \in SUBSET Message BY CallsAssumption
<1>2. /\ o.running \in BOOLEAN /\ o.live \in 0..MaxCalls /\ o.lost \in 0..MaxCalls
      /\ o.stage \in {"none", "reading", "starting", "provider", "replying", "marking", "failing"}
  BY DEF Sound, Object
<1> DEFINE blank == [running |-> FALSE, ready |-> FALSE, pending |-> FALSE, watched |-> FALSE,
                     epoch |-> 0, stage |-> "none", seen |-> {}, live |-> 0, lost |-> 0]
           d == Dropped(o)
<1>3. blank \in Object /\ ~blank.watched /\ blank.epoch = 0 BY <1>1 DEF Object
<1>4. d = [blank EXCEPT !.running = o.running, !.stage = o.stage, !.live = o.live, !.lost = o.lost]
  BY DEF Dropped, NoObject
<1> HIDE DEF blank, d
<1>5. /\ d \in Object /\ ~d.watched /\ d.epoch = 0 /\ d.running = o.running /\ d.stage = o.stage
      /\ d.live = o.live /\ d.lost = o.lost
  BY <1>2, <1>3, <1>4 DEF Object
<1> QED BY <1>5 DEF Sound, d

\* A new object.
LEMMA FreshFacts == Sound(NoObject) /\ Sound(Spawned) /\ Rested(Spawned) /\ Returned \in CallState
<1>0. 0 \in 0..MaxCalls /\ {} \in SUBSET Message BY CallsAssumption
<1>1. NoObject \in Object BY <1>0 DEF NoObject, Object
<1>2. Spawned \in Object BY <1>0 DEF NoObject, Spawned, Object
<1>3. Returned \in CallState BY CallsAssumption DEF Returned, CallState
<1> QED BY <1>1, <1>2, <1>3 DEF Sound, Rested, NoObject, Spawned

\* The agent in the map is at work only while nothing destroys it.
LEMMA MapAtWork ==
  ASSUME IInv, NEW g \in Call, object[g].stage # "none", g = agents
  PROVE  Current(g) /\ agents = g /\ destroy = "no" /\ object[g].running
BY DEF IInv, ControlInv, DestroyInv, ObjectsInv, Sound, Current, InMap, Call

\* A call that goes on to wait for its turns.
LEMMA AwaitFacts ==
  ASSUME TypeOK, NEW c \in Call, NEW g \in Call, AwaitTurns(c, g)
  PROVE  /\ calls' \in [Call -> CallState] /\ calls'[c].at = "turns"
         /\ \A d \in Call : d # c => calls'[d] = calls[d]
<1> DEFINE call == [Returned EXCEPT !.op = calls[c].op, !.at = "turns", !.of = g]
<1>1. calls[c].op \in {"none", "spawn", "start", "stop"} /\ g \in 0..MaxCalls /\ 0 \in 0..MaxCalls
  BY CallsAssumption DEF TypeOK, CallState, Call
<1>2. call \in CallState /\ call.at = "turns" BY <1>1 DEF Returned, CallState
<1>3. calls' = [calls EXCEPT ![c] = call] BY DEF AwaitTurns
<1> HIDE DEF call
<1> QED BY <1>2, <1>3 DEF TypeOK

\* A step of the agent in the map, or one that lets calls return.
LEMMA ObjectStep ==
  ASSUME IInv,
         object' \in [Call -> Object], \A g \in Call : g # agents => object'[g] = object[g],
         calls' \in [Call -> CallState],
         \A c \in Call : \/ calls'[c] \in {calls[c], Returned}
                         \/ command # "stop" /\ c <= made /\ calls'[c].at = "turns",
         UNCHANGED <<agents, revision, made, command, destroy, orphans>>,
         agents # 0 =>
           /\ Sound(object'[agents]) /\ Rested(object'[agents])
           /\ object'[agents].epoch = object[agents].epoch
           /\ object'[agents].running => destroy = "no"
           /\ command = "stop" =>
                /\ ~object'[agents].running
                /\ object'[agents].live > 0 => /\ object[agents].live > 0
                                               /\ calls'[made] = calls[made]
  PROVE  ControlInv'
<1> USE DEF IInv, ControlInv
<1>1. /\ agents \in Nat /\ made \in Nat /\ (agents # 0 => agents \in Call)
      /\ \A g \in Call : g \in Nat \ {0} /\ object[g] \in Object /\ object'[g] \in Object
      /\ destroy \in {"no", "waiting", "resolved", "rejected"}
  BY CallsAssumption DEF TypeOK, Call
<1>0. \A c \in Call : calls'[c] = calls[c] \/ calls'[c].at \in {"none", "turns"}
  BY DEF Returned
<1>2. ObjectsInv' /\ InsideInv' BY <1>1 DEF ObjectsInv, InsideInv
<1>3. OutsideInv' BY <1>1 DEF OutsideInv
<1>4. DestroyInv' BY <1>1 DEF DestroyInv, Sound
<1>5. EpochInv'
  <2>1. agents # 0 => agents <= made BY DEF CallsInv
  <2>2. ASSUME NEW g \in Call
        PROVE  IF g <= made
               THEN object'[g].epoch <= made - g + (IF destroy = "no" THEN 0 ELSE 1)
               ELSE object'[g] = NoObject /\ calls'[g] = Returned /\ g \notin orphans
    <3>1. g > made => g # agents BY <1>1, <2>1
    <3> QED BY <1>1, <3>1 DEF EpochInv
  <2> QED BY <2>2 DEF EpochInv
<1>6. CallsInv' BY <1>0, <1>1 DEF CallsInv
<1>7. OneProvider'
  <2>1. CASE agents = 0
    <3>1. \A g \in Call : object'[g] = object[g] BY <1>1, <2>1
    <3> QED BY <3>1 DEF OneProvider, AtWork, Stray
  <2>2. CASE agents # 0
    <3>1. \A g \in Call : object'[g].live + object'[g].lost <= 1 BY <1>2 DEF ObjectsInv, Sound
    <3>2. ASSUME NEW g \in Call, g # agents, AtWork(g)' PROVE Stray(g)'
      <4>1. CASE g \in orphans BY <3>2, <4>1 DEF Stray
      <4>2. CASE g \notin orphans
        <5>1. object'[g] = object[g] /\ object[g].live + object[g].lost > 0
          BY <3>2, <4>2 DEF AtWork
        <5>2. destroy # "rejected" BY <2>2 DEF DestroyInv
        <5>3. object[g].live \in Nat /\ object[g].lost \in Nat BY <1>1 DEF Object
        <5>4. object[g].running
          <6>1. ~object[g].running => object[g].live = 0 /\ object[g].lost = 0
            BY <3>2, <5>2, <5>3 DEF OutsideInv
          <6> QED BY <5>1, <6>1
        <5> QED BY <3>2, <5>1, <5>4 DEF Stray
      <4> QED BY <4>1, <4>2
    <3> QED BY <3>1, <3>2 DEF OneProvider
  <2> QED BY <2>1, <2>2
<1>8. StopInv'
  <2> SUFFICES ASSUME command = "stop"
      PROVE  /\ made \in Call /\ revision = made
             /\ calls'[made].op # "spawn" /\ calls'[made].at \in {"none", "teardown"}
             /\ agents # 0 => ~object'[agents].running
             /\ agents # 0 /\ object'[agents].live > 0 =>
                  calls'[made].at = "teardown" /\ calls'[made].of = agents
             /\ \A c \in Call :
                  calls'[c].at = "teardown" /\ calls'[c].op = "start" /\ calls'[c].of = agents
                  => calls'[c].epoch < object'[agents].epoch
    BY DEF StopInv
  <2>0. \A c \in Call : calls'[c] \in {calls[c], Returned} OBVIOUS
  <2>1. /\ made \in Call /\ revision = made
        /\ calls'[made].op # "spawn" /\ calls'[made].at \in {"none", "teardown"}
    BY <2>0 DEF StopInv, Returned
  <2>2. /\ agents # 0 => ~object'[agents].running
        /\ agents # 0 /\ object'[agents].live > 0 =>
             calls'[made].at = "teardown" /\ calls'[made].of = agents
    BY DEF StopInv
  <2>3. ASSUME NEW c \in Call, calls'[c].at = "teardown", calls'[c].op = "start",
               calls'[c].of = agents
        PROVE  calls'[c].epoch < object'[agents].epoch
    <3>1. calls'[c] = calls[c] /\ agents # 0 BY <1>0, <1>1, <2>3 DEF CallsInv, Call
    <3> QED BY <2>3, <3>1 DEF StopInv
  <2> QED BY <2>1, <2>2, <2>3
<1> QED BY <1>2, <1>3, <1>4, <1>5, <1>6, <1>7, <1>8

-----------------------------------------------------------------------------
(* The turns of the agent in the map.                                      *)

\* A step of a turn: the agent is the current one, and nothing has stopped it.
LEMMA TurnStep ==
  ASSUME IInv, NEW g \in Call, object[g].stage # "none", g = agents,
         NEW o, Sound(o), Rested(o), o.epoch = object[g].epoch, Set(g, o), UNCHANGED control
  PROVE  /\ ControlInv' /\ object' \in [Call -> Object]
         /\ agents = g /\ agents' = g /\ g # 0 /\ object'[g] = o
<1>1. agents = g /\ destroy = "no" /\ object[g].running /\ g # 0 BY MapAtWork DEF Call
<1>2. object' \in [Call -> Object] /\ object'[g] = o /\ \A h \in Call : h # agents => object'[h] = object[h]
  BY <1>1 DEF Set, Sound, IInv, TypeOK
<1>3. command # "stop" BY <1>1 DEF IInv, ControlInv, StopInv
<1>4. calls' = calls /\ calls \in [Call -> CallState]
      /\ UNCHANGED <<agents, revision, made, command, destroy, orphans>>
  BY DEF control, IInv, TypeOK
<1>5. \A c \in Call : calls'[c] \in {calls[c], Returned} BY <1>4
<1>6. ControlInv' BY <1>1, <1>2, <1>3, <1>4, <1>5, ObjectStep
<1> QED BY <1>1, <1>2, <1>4, <1>6

\* What is left to show of the messages when the agent's turn is not one that
\* has answered some.
LEMMA NotMarking ==
  ASSUME IInv, agents' = 0 \/ object'[agents'].stage \in {"none", "reading", "failing"},
         cut' = cut \cup (IF agents # 0 /\ object[agents].stage = "marking"
                          THEN object[agents].seen ELSE {}),
         UNCHANGED <<inbox, answered>>
  PROVE  MailInv'
BY DEF IInv, MailInv, MessagesInv, MessagesAreAnswered, ReadIsAnswered, AnsweredAgain

\* spawn takes its agent from the map, in the middle of a turn.
LEMMA DropStep ==
  ASSUME IInv, NEW c \in Call, Current(c), NEW o, Sound(o), o.running,
         object' = [object EXCEPT ![c] = Dropped(o)], agents' = 0, Return(c),
         cut' = CutOff(object[c]),
         UNCHANGED <<mail, missed, revision, made, command, destroy, orphans>>
  PROVE  IInv'
<1> DEFINE d == Dropped(o)
<1>0. /\ TypeOK /\ agents = c /\ c # 0 /\ destroy = "no" /\ command # "stop" /\ c <= made
      /\ c \in Nat /\ made \in Nat /\ Returned \in CallState /\ 0 \in 0..MaxCalls
      /\ \A g \in Call : g \in Nat \ {0}
  BY FreshFacts, CallsAssumption DEF IInv, Current, InMap, ControlInv, StopInv, CallsInv, TypeOK, Call
<1>1. Sound(d) /\ ~d.watched /\ d.epoch = 0 /\ d.running BY DroppedFacts
<1> HIDE DEF d
<1>2. /\ object' \in [Call -> Object] /\ object'[c] = d
      /\ \A g \in Call : g # c => object'[g] = object[g]
  BY <1>0, <1>1 DEF TypeOK, Sound, d
<1>3. /\ calls' \in [Call -> CallState] /\ calls'[c].at = "none"
      /\ \A g \in Call : g # c => calls'[g] = calls[g]
  BY <1>0 DEF TypeOK, Return, Returned
<1> USE DEF IInv, ControlInv
<1>4. ObjectsInv' BY <1>1, <1>2 DEF ObjectsInv
<1>5. InsideInv' /\ DestroyInv' /\ StopInv' BY <1>0 DEF InsideInv, DestroyInv, StopInv
<1>6. OutsideInv' BY <1>0, <1>1, <1>2 DEF OutsideInv
<1>7. EpochInv'
  <2>1. ASSUME NEW g \in Call
        PROVE  IF g <= made THEN object'[g].epoch <= made - g + 0
               ELSE object'[g] = NoObject /\ calls'[g] = Returned /\ g \notin orphans
    <3>1. CASE g = c BY <1>0, <1>1, <1>2, <3>1
    <3>2. CASE g # c BY <1>0, <1>2, <1>3, <3>2 DEF EpochInv
    <3> QED BY <3>1, <3>2
  <2> QED BY <1>0, <2>1 DEF EpochInv
<1>8. CallsInv'
  <2>1. 0 \notin orphans BY <1>0 DEF TypeOK, Call
  <2>2. \A g \in Call : calls'[g].at \in {"teardown", "upsert"} => calls'[g] = calls[g] BY <1>3
  <2>3. revision' = revision /\ made' = made /\ orphans' = orphans /\ revision <= made /\ 0 <= made
    BY <1>0 DEF CallsInv
  <2>4. ASSUME NEW g \in Call
        PROVE  /\ calls'[g].at = "teardown" => calls'[g].of \in Call /\ calls'[g].of <= made
               /\ calls'[g].at \in {"teardown", "upsert"} =>
                    /\ g \notin orphans
                    /\ \A h \in Call : calls'[h].at = "teardown" => calls'[h].of # g
    BY <2>2 DEF CallsInv
  <2> QED BY <1>0, <2>1, <2>3, <2>4 DEF CallsInv
<1>9. OneProvider'
  <2>1. \A g \in Call : object'[g].live + object'[g].lost <= 1 BY <1>4 DEF ObjectsInv, Sound
  <2>2. ASSUME NEW g \in Call, AtWork(g)' PROVE Stray(g)'
    <3>1. CASE g \in orphans BY <1>0, <3>1 DEF Stray
    <3>2. CASE g = c BY <1>0, <1>1, <1>2, <3>2 DEF Stray
    <3>3. CASE g \notin orphans /\ g # c
      <4>1. object'[g] = object[g] /\ object[g].live + object[g].lost > 0
        BY <1>0, <1>2, <2>2, <3>3 DEF AtWork
      <4>2. object[g].live \in Nat /\ object[g].lost \in Nat
        BY <1>0, CallsAssumption DEF TypeOK, Object
      <4>3. ~object[g].running => object[g].live = 0 /\ object[g].lost = 0
        BY <1>0, <3>3, <4>2 DEF OutsideInv
      <4>4. object'[g].running BY <4>1, <4>3
      <4> QED BY <1>0, <4>4 DEF Stray
    <3> QED BY <3>1, <3>2, <3>3
  <2> QED BY <2>1, <2>2 DEF OneProvider
<1>10. MailInv' BY <1>0, NotMarking DEF mail, CutOff
<1>11. TypeOK'
  <2>1. object[c].seen \subseteq Message BY <1>0 DEF TypeOK, Object
  <2> QED BY <1>0, <1>2, <1>3, <2>1 DEF TypeOK, mail, CutOff
<1> QED BY <1>4, <1>5, <1>6, <1>7, <1>8, <1>9, <1>10, <1>11

LEMMA MapTick == ASSUME IInv, NEW g \in Call, Tick(g), g = agents PROVE IInv'
<1> DEFINE o == object[g]
<1>0. o.stage # "none"
  BY DEF Tick, TickReads, TurnStarts, ProviderSettles, TurnTimesOut, Reply, MarkRead,
         TurnFails, FailureNoted
<1>1. /\ Current(g) /\ agents = g /\ destroy = "no" /\ o.running
      /\ \A p, next : GoOn(g, p, next) <=> Set(g, next)
  BY <1>0, MapAtWork DEF GoOn
<1>2. /\ Sound(o) /\ o \in Object /\ g \in 1..MaxCalls /\ MaxCalls \in Nat
      /\ TypeOK /\ Unread \in SUBSET Message
  BY CallsAssumption DEF IInv, ControlInv, ObjectsInv, Sound, Call, Unread
<1>3. ASSUME NEW next, Sound(next), Rested(next), next.epoch = o.epoch, Set(g, next), UNCHANGED control,
             next.stage \in {"none", "reading", "failing"}, cut' = CutOff(o), missed' \subseteq Message,
             UNCHANGED <<inbox, answered, noticed>>
      PROVE  IInv'
  <2>1. ControlInv' /\ object' \in [Call -> Object] /\ agents' = g /\ object'[g] = next
    BY <1>0, <1>3, TurnStep
  <2>2. MailInv' BY <2>1, <1>1, <1>2, <1>3, NotMarking DEF CutOff, Call
  <2>3. TypeOK' BY <2>1, <1>2, <1>3 DEF TypeOK, control, CutOff, Object
  <2> QED BY <2>1, <2>2, <2>3 DEF IInv
<1>4. /\ o.stage # "marking" => CutOff(o) = cut
      /\ missed \subseteq Message
  BY <1>2 DEF CutOff, TypeOK
<1>5. ASSUME o.stage \in {"reading", "marking"}
      PROVE  /\ Sound(TurnOver(g, o)) /\ Rested(TurnOver(g, o)) /\ TurnOver(g, o).epoch = o.epoch
             /\ TurnOver(g, o).stage \in {"none", "reading"}
  <2> DEFINE again == [o EXCEPT !.pending = FALSE, !.watched = FALSE, !.stage = "reading", !.seen = {}]
             over == [o EXCEPT !.watched = FALSE, !.stage = "none", !.seen = {}]
  <2>0. o.live = 0 /\ o.lost = 0 BY <1>2, <1>5 DEF Sound
  <2>1. /\ again \in Object /\ again.epoch = o.epoch /\ again.stage = "reading" /\ again.running
        /\ again.live = 0 /\ again.lost = 0 /\ ~again.watched
    BY <1>1, <1>2, <2>0 DEF Object
  <2>2. /\ over \in Object /\ over.epoch = o.epoch /\ over.stage = "none"
        /\ over.live = 0 /\ over.lost = 0 /\ ~over.watched
    BY <1>1, <1>2, <2>0 DEF Object
  <2>3. TurnOver(g, o) \in {again, over} BY DEF TurnOver
  <2> HIDE DEF again, over
  <2> QED BY <2>1, <2>2, <2>3 DEF Sound, Rested
<1>6. CASE TickReads(g)
  <2>0. PICK shown \in Readable :
          /\ Set(g, Reads(o, shown)) \/ Set(g, TurnOver(g, o))
          /\ missed' = (missed \cup Unread) \ shown
    BY <1>1, <1>6 DEF TickReads
  <2>1. o.stage = "reading" /\ cut' = cut /\ UNCHANGED <<inbox, answered, noticed, cut>> /\ UNCHANGED control
        /\ missed' \subseteq Message /\ shown \subseteq Unread
    BY <1>2, <1>4, <1>6, <2>0 DEF TickReads, mail, Readable
  <2>2. CASE Set(g, TurnOver(g, o)) BY <1>3, <1>4, <1>5, <2>1, <2>2
  <2>3. CASE Set(g, Reads(o, shown))
    <3> DEFINE next == Reads(o, shown)
    <3>1. Set(g, next) BY <2>3
    <3>2. /\ Sound(next) /\ Rested(next) /\ next.epoch = o.epoch /\ next.stage = "starting"
          /\ next.seen = shown
      BY <1>1, <1>2, <2>1 DEF Reads, Sound, Rested, Object
    <3> HIDE DEF next
    <3>3. ControlInv' /\ object' \in [Call -> Object] /\ agents' = g /\ object'[g] = next
      BY <1>0, <2>1, <3>1, <3>2, TurnStep
    <3>4. MailInv'
      BY <1>1, <2>1, <3>2, <3>3
      DEF IInv, MailInv, MessagesInv, MessagesAreAnswered, ReadIsAnswered, AnsweredAgain, Unread
    <3>5. TypeOK' BY <1>2, <2>1, <3>3 DEF TypeOK, control
    <3> QED BY <3>3, <3>4, <3>5 DEF IInv
  <2> QED BY <2>0, <2>2, <2>3
<1>7. CASE TurnStarts(g)
  <2> DEFINE next == [o EXCEPT !.stage = "provider", !.live = @ + 1]
  <2>1. /\ o.stage = "starting" /\ UNCHANGED <<inbox, answered, noticed, cut, missed>> /\ UNCHANGED control
        /\ Set(g, next)
    BY <1>1, <1>7 DEF TurnStarts, mail
  <2>2. Sound(next) /\ Rested(next) /\ next.epoch = o.epoch /\ next.stage = "provider" /\ next.seen = o.seen
    <3>1. o.live = 0 /\ o.lost = 0 /\ 1 \in 0..MaxCalls BY <1>2, <2>1 DEF Sound
    <3>2. /\ next \in Object /\ next.epoch = o.epoch /\ next.stage = "provider"
          /\ next.seen = o.seen /\ next.live = 1 /\ next.lost = 0 /\ next.running
      <4>1. o.live + 1 = 1 BY <3>1
      <4>2. next = [o EXCEPT !.stage = "provider", !.live = 1] BY <4>1, <1>2 DEF Object
      <4> HIDE DEF next
      <4> QED BY <1>1, <1>2, <3>1, <4>2 DEF Object
    <3> HIDE DEF next
    <3> QED BY <3>2 DEF Sound, Rested
  <2> HIDE DEF next
  <2>3. ControlInv' /\ object' \in [Call -> Object] /\ agents' = g /\ object'[g] = next
    BY <1>0, <2>1, <2>2, TurnStep
  <2>4. MailInv'
    BY <1>1, <2>1, <2>2, <2>3
    DEF IInv, MailInv, MessagesInv, MessagesAreAnswered, ReadIsAnswered, AnsweredAgain, Call
  <2>5. TypeOK' BY <1>2, <2>1, <2>3 DEF TypeOK, control
  <2> QED BY <2>3, <2>4, <2>5 DEF IInv
<1>8. CASE ProviderSettles(g)
  <2> DEFINE p == [o EXCEPT !.live = @ - 1]  q == [p EXCEPT !.lost = @ + 1]
  <2>1. /\ o.stage = "provider" /\ UNCHANGED <<inbox, answered, noticed, cut, missed>> /\ UNCHANGED control
        /\ \/ Set(g, [p EXCEPT !.stage = "replying"])
           \/ Set(g, [p EXCEPT !.stage = "failing"])
           \/ Set(g, [q EXCEPT !.stage = "failing"])
    <3>1. GoOn(g, p, [p EXCEPT !.stage = "replying"]) <=> Set(g, [p EXCEPT !.stage = "replying"])
      BY <1>1 DEF GoOn
    <3>2. GoOn(g, p, [p EXCEPT !.stage = "failing"]) <=> Set(g, [p EXCEPT !.stage = "failing"])
      BY <1>1 DEF GoOn
    <3>3. GoOn(g, q, [q EXCEPT !.stage = "failing"]) <=> Set(g, [q EXCEPT !.stage = "failing"])
      BY <1>1 DEF GoOn
    <3> QED BY <1>8, <3>1, <3>2, <3>3 DEF ProviderSettles, mail
  <2>2. p \in Object /\ p.live = 0 /\ p.lost = 0 /\ p.running /\ p.epoch = o.epoch /\ p.seen = o.seen
    BY <1>1, <1>2, <2>1 DEF Sound, Object
  <2>3. q \in Object /\ q.live = 0 /\ q.lost = 1 /\ q.running /\ q.epoch = o.epoch
    <3>1. p.lost + 1 = 1 /\ 1 \in 0..MaxCalls BY <1>2, <2>2
    <3>2. q = [p EXCEPT !.lost = 1] BY <2>2, <3>1 DEF Object
    <3> HIDE DEF p, q
    <3> QED BY <2>2, <3>1, <3>2 DEF Object
  <2> HIDE DEF p, q
  <2>4. CASE Set(g, [p EXCEPT !.stage = "replying"])
    <3> DEFINE next == [p EXCEPT !.stage = "replying"]
    <3>1. Sound(next) /\ Rested(next) /\ next.epoch = o.epoch /\ next.stage = "replying" /\ next.seen = o.seen
      BY <2>2 DEF Sound, Rested, Object
    <3>2. Set(g, next) BY <2>4
    <3> HIDE DEF next
    <3>3. ControlInv' /\ object' \in [Call -> Object] /\ agents' = g /\ object'[g] = next
      BY <1>0, <2>1, <3>1, <3>2, TurnStep
    <3>4. MailInv'
      BY <1>1, <2>1, <3>1, <3>3
      DEF IInv, MailInv, MessagesInv, MessagesAreAnswered, ReadIsAnswered, AnsweredAgain, Call
    <3>5. TypeOK' BY <1>2, <2>1, <3>3 DEF TypeOK, control
    <3> QED BY <3>3, <3>4, <3>5 DEF IInv
  <2>5. ASSUME NEW r, r \in {p, q}, Set(g, [r EXCEPT !.stage = "failing"]) PROVE IInv'
    <3> DEFINE next == [r EXCEPT !.stage = "failing"]
    <3>1. Sound(next) /\ Rested(next) /\ next.epoch = o.epoch /\ next.stage = "failing"
      BY <2>2, <2>3, <2>5 DEF Sound, Rested, Object
    <3>2. Set(g, next) BY <2>5
    <3> HIDE DEF next
    <3> QED BY <1>3, <1>4, <2>1, <3>1, <3>2
  <2> QED BY <2>1, <2>4, <2>5
<1>9. CASE TurnTimesOut(g) /\ o.watched
  <2> DEFINE r == [o EXCEPT !.stage = "none"]
  <2>1. /\ o.stage = "provider" /\ agents' = 0 /\ object' = [object EXCEPT ![g] = Dropped(r)] /\ Return(g)
        /\ UNCHANGED <<mail, cut, missed, revision, made, command, destroy, orphans>>
    BY <1>9 DEF TurnTimesOut, Set
  <2>2. Dropped(r) = Dropped([r EXCEPT !.watched = FALSE]) /\ Sound([r EXCEPT !.watched = FALSE])
        /\ [r EXCEPT !.watched = FALSE].running
    BY <1>1, <1>2 DEF Dropped, Sound, Object
  <2>3. cut' = CutOff(o) BY <1>4, <2>1
  <2> QED BY <1>1, <2>1, <2>2, <2>3, DropStep
<1>10. CASE (TurnTimesOut(g) /\ ~o.watched) \/ FailureNoted(g)
  <2> DEFINE next == [o EXCEPT !.stage = "none", !.seen = {}, !.running = FALSE, !.watched = FALSE]
  <2>1. /\ o.stage # "marking" /\ UNCHANGED <<inbox, answered, noticed, cut, missed>> /\ UNCHANGED control
        /\ Set(g, next)
    <3>1. (o.running /\ ~Current(g)) = FALSE BY <1>1
    <3>2. CASE TurnTimesOut(g) /\ ~o.watched
      <4>1. Set(g, [o EXCEPT !.stage = "none", !.seen = {}, !.running = FALSE])
        BY <3>1, <3>2 DEF TurnTimesOut
      <4>2. [o EXCEPT !.stage = "none", !.seen = {}, !.running = FALSE] = next
        BY <1>2, <3>2 DEF Object
      <4> QED BY <3>2, <4>1, <4>2 DEF TurnTimesOut, mail, control
    <3>3. CASE FailureNoted(g)
      <4>1. Set(g, [o EXCEPT !.stage = "none", !.seen = {}, !.watched = FALSE, !.running = FALSE])
        BY <3>1, <3>3 DEF FailureNoted
      <4>2. [o EXCEPT !.stage = "none", !.seen = {}, !.watched = FALSE, !.running = FALSE] = next
        BY <1>2 DEF Object
      <4> QED BY <3>3, <4>1, <4>2 DEF FailureNoted, mail
    <3> QED BY <1>10, <3>2, <3>3
  <2>2. Sound(next) /\ Rested(next) /\ next.epoch = o.epoch /\ next.stage = "none"
    BY <1>2 DEF Sound, Rested, Object
  <2> HIDE DEF next
  <2> QED BY <1>3, <1>4, <2>1, <2>2
<1>11. CASE Reply(g)
  <2>1. PICK ready \in {o.ready, TRUE} : Set(g, [o EXCEPT !.stage = "marking", !.ready = ready])
    BY <1>1, <1>11 DEF Reply
  <2> DEFINE next == [o EXCEPT !.stage = "marking", !.ready = ready]
  <2>2. /\ o.stage = "replying" /\ UNCHANGED <<inbox, noticed, cut, missed>> /\ UNCHANGED control
        /\ answered' = [m \in Message |-> IF m \in o.seen THEN Count(answered[m]) ELSE answered[m]]
    BY <1>1, <1>11 DEF Reply
  <2>3. Sound(next) /\ Rested(next) /\ next.epoch = o.epoch /\ next.stage = "marking" /\ next.seen = o.seen
    BY <1>1, <1>2, <2>2 DEF Sound, Rested, Object
  <2>4. Set(g, next) BY <2>1
  <2> HIDE DEF next
  <2>5. ControlInv' /\ object' \in [Call -> Object] /\ agents' = g /\ object'[g] = next
    BY <1>0, <2>2, <2>3, <2>4, TurnStep
  <2>6. \A m \in o.seen : m \in Message /\ inbox[m] = "unread"
    BY <1>1, <1>2, <2>2 DEF Object, IInv, MailInv, MessagesInv, Call
  <2>7. answered' \in [Message -> 0..2] /\ \A m \in o.seen : answered'[m] = Count(answered[m])
    <3>1. \A m \in Message : answered[m] \in 0..2 /\ Count(answered[m]) \in 0..2
      BY <1>2 DEF TypeOK, Count
    <3> QED BY <2>2, <2>6, <3>1
  <2>8. /\ \A m \in o.seen : answered'[m] > 0 /\ (answered'[m] = 2 => answered[m] > 0)
        /\ \A m \in Message \ o.seen : answered'[m] = answered[m]
        /\ \A m \in o.seen : answered[m] > 0 => m \in cut
    <3>1. \A m \in o.seen : answered[m] \in 0..2 BY <1>2, <2>6 DEF TypeOK
    <3>2. \A m \in o.seen : answered'[m] > 0 /\ (answered'[m] = 2 => answered[m] > 0)
      BY <2>7, <3>1 DEF Count
    <3>3. \A m \in Message \ o.seen : answered'[m] = answered[m] BY <2>2
    <3>4. \A m \in o.seen : answered[m] > 0 => m \in cut
      BY <1>1, <2>2, <2>6 DEF IInv, MailInv, MessagesInv
    <3> QED BY <3>2, <3>3, <3>4
  <2>9. MessagesInv'
    <3>1. ASSUME NEW m \in Message, answered'[m] > 0
          PROVE  inbox'[m] = "read" \/ m \in cut' \/ m \in o.seen
      <4>1. CASE m \notin o.seen
        <5>1. answered[m] > 0 BY <2>8, <3>1, <4>1
        <5> QED BY <1>1, <2>2, <5>1 DEF IInv, MailInv, MessagesInv
      <4> QED BY <4>1
    <3> QED BY <1>1, <1>2, <2>3, <2>5, <2>8, <3>1 DEF MessagesInv
  <2>10. MessagesAreAnswered'
    <3>1. ASSUME NEW m \in Message, inbox'[m] = "read" PROVE answered'[m] > 0
      <4>1. inbox[m] = "read" /\ m \notin o.seen BY <2>2, <2>6, <3>1
      <4> QED BY <2>8, <4>1 DEF IInv, MailInv, MessagesAreAnswered, ReadIsAnswered
    <3>2. ASSUME NEW m \in Message, answered'[m] = 2 PROVE m \in cut'
      <4>1. CASE m \in o.seen BY <2>2, <2>8, <3>2, <4>1
      <4>2. CASE m \notin o.seen
        BY <2>2, <2>8, <3>2, <4>2 DEF IInv, MailInv, MessagesAreAnswered, AnsweredAgain
      <4> QED BY <4>1, <4>2
    <3> QED BY <3>1, <3>2 DEF MessagesAreAnswered, ReadIsAnswered, AnsweredAgain
  <2>11. TypeOK' BY <1>2, <2>2, <2>5, <2>7 DEF TypeOK, control
  <2> QED BY <2>5, <2>9, <2>10, <2>11 DEF IInv, MailInv
<1>12. CASE MarkRead(g)
  <2>1. o.stage = "marking" /\ UNCHANGED <<noticed, answered>> /\ UNCHANGED control
    BY <1>1, <1>12 DEF MarkRead
  <2>2. CASE o.seen # {}
    <3>1. PICK m \in o.seen :
            /\ \/ inbox' = [inbox EXCEPT ![m] = "read"] /\ cut' = cut /\ missed' = missed
               \/ inbox' = inbox /\ cut' = cut \cup {m} /\ missed' = missed \cup {m}
            /\ Set(g, [o EXCEPT !.seen = @ \ {m}])
      BY <1>1, <1>12, <2>2 DEF MarkRead, ToMark
    <3> DEFINE next == [o EXCEPT !.seen = @ \ {m}]
    <3>2. Sound(next) /\ Rested(next) /\ next.epoch = o.epoch /\ next.stage = "marking" /\ next.seen = o.seen \ {m}
      BY <1>2, <2>1 DEF Sound, Rested, Object
    <3>3. Set(g, next) BY <3>1
    <3> HIDE DEF next
    <3>4. ControlInv' /\ object' \in [Call -> Object] /\ agents' = g /\ object'[g] = next
      BY <1>0, <2>1, <3>2, <3>3, TurnStep
    <3>5. m \in Message /\ answered[m] > 0 /\ o.seen \subseteq Message
      BY <1>1, <1>2, <2>1, <3>1 DEF Object, IInv, MailInv, MessagesInv, Call
    <3>6. CASE inbox' = [inbox EXCEPT ![m] = "read"] /\ cut' = cut /\ missed' = missed
      <4>1. \A n \in Message : inbox'[n] = IF n = m THEN "read" ELSE inbox[n]
        BY <1>2, <3>5, <3>6 DEF TypeOK
      <4>2. MailInv'
        BY <1>1, <1>2, <2>1, <3>2, <3>4, <3>5, <3>6, <4>1
        DEF IInv, MailInv, MessagesInv, MessagesAreAnswered, ReadIsAnswered, AnsweredAgain, Object, Call
      <4>3. TypeOK' BY <1>2, <2>1, <3>4, <3>6 DEF TypeOK, control
      <4> QED BY <3>4, <4>2, <4>3 DEF IInv
    <3>7. CASE inbox' = inbox /\ cut' = cut \cup {m} /\ missed' = missed \cup {m}
      <4>2. MailInv'
        BY <1>1, <1>2, <2>1, <3>2, <3>4, <3>5, <3>7
        DEF IInv, MailInv, MessagesInv, MessagesAreAnswered, ReadIsAnswered, AnsweredAgain, Object, Call
      <4>3. TypeOK' BY <1>2, <2>1, <3>4, <3>5, <3>7 DEF TypeOK, control
      <4> QED BY <3>4, <4>2, <4>3 DEF IInv
    <3> QED BY <3>1, <3>6, <3>7
  <2>3. CASE o.seen = {}
    <3>1. Set(g, TurnOver(g, o)) /\ inbox' = inbox /\ cut' = cut /\ missed' = missed
      BY <1>1, <1>12, <2>3 DEF MarkRead, ToMark
    <3>2. CutOff(o) = cut BY <2>1, <2>3 DEF CutOff
    <3> QED BY <1>3, <1>4, <1>5, <2>1, <3>1, <3>2
  <2> QED BY <2>2, <2>3
<1>13. CASE TurnFails(g)
  <2> DEFINE next == [o EXCEPT !.stage = "failing", !.seen = {}]
  <2>1. /\ o.stage \in {"starting", "replying", "marking"} /\ cut' = CutOff(o) /\ missed' = missed
        /\ UNCHANGED <<inbox, answered, noticed>> /\ UNCHANGED control /\ Set(g, next)
    BY <1>1, <1>13 DEF TurnFails, mail
  <2>2. Sound(next) /\ Rested(next) /\ next.epoch = o.epoch /\ next.stage = "failing"
    BY <1>1, <1>2, <2>1 DEF Sound, Rested, Object
  <2> HIDE DEF next
  <2> QED BY <1>3, <1>4, <2>1, <2>2
<1> QED BY <1>6, <1>7, <1>8, <1>9, <1>10, <1>11, <1>12, <1>13 DEF Tick

-----------------------------------------------------------------------------
(* The turns of an agent that its spawn has dropped.                       *)

\* Whatever it does, it does outside the map.
LEMMA StrayStep ==
  ASSUME IInv, NEW g \in Call, g # agents, object[g].running,
         NEW o, Sound(o), o.running, ~o.watched, o.epoch = object[g].epoch, Set(g, o),
         cut \subseteq cut', cut' \subseteq Message, missed' \subseteq Message,
         UNCHANGED <<mail, control>>
  PROVE  IInv'
<1>1. /\ object' \in [Call -> Object] /\ object'[g] = o
      /\ \A h \in Call : h # g => object'[h] = object[h]
      /\ TypeOK
  BY DEF Set, Sound, IInv, TypeOK
<1>2. /\ UNCHANGED <<agents, revision, calls, made, command, destroy, orphans>>
      /\ UNCHANGED <<inbox, noticed, answered>>
  BY DEF control, mail
<1>3. /\ agents # 0 => agents \in Call /\ object'[agents] = object[agents]
      /\ object[g] # NoObject
  BY <1>1, CallsAssumption DEF TypeOK, Call, NoObject
<1> USE DEF IInv, ControlInv
<1>4. ObjectsInv' /\ InsideInv' BY <1>1, <1>2, <1>3 DEF ObjectsInv, InsideInv
<1>5. OutsideInv' BY <1>1, <1>2 DEF OutsideInv
<1>6. DestroyInv' BY <1>2, <1>3 DEF DestroyInv
<1>7. EpochInv'
  <2>1. ASSUME NEW h \in Call
        PROVE  IF h <= made
               THEN object'[h].epoch <= made - h + (IF destroy = "no" THEN 0 ELSE 1)
               ELSE object'[h] = NoObject /\ calls[h] = Returned /\ h \notin orphans
    <3>1. CASE h = g BY <1>1, <1>3, <3>1 DEF EpochInv
    <3>2. CASE h # g BY <1>1, <3>2 DEF EpochInv
    <3> QED BY <3>1, <3>2
  <2> QED BY <1>2, <2>1 DEF EpochInv
<1>8. CallsInv'
  <2>1. \A c \in Call : calls[c].at = "teardown" /\ calls[c].of = agents => agents # 0
    BY CallsAssumption DEF CallsInv, Call
  <2> QED BY <1>2, <1>3, <2>1 DEF CallsInv
<1>9. OneProvider'
  <2>1. \A h \in Call : object'[h].live + object'[h].lost <= 1 BY <1>4 DEF ObjectsInv, Sound
  <2>2. Stray(g)' BY <1>1, <1>2 DEF Stray
  <2>3. ASSUME NEW h \in Call, h # g PROVE AtWork(h)' = AtWork(h) /\ Stray(h)' = Stray(h)
    BY <1>1, <1>2, <2>3 DEF AtWork, Stray
  <2>4. ASSUME NEW h \in Call, NEW i \in Call, AtWork(h)', AtWork(i)', h # i
        PROVE  Stray(h)' \/ Stray(i)'
    <3>1. CASE h = g \/ i = g BY <2>2, <3>1
    <3>2. CASE h # g /\ i # g
      <4>1. AtWork(h) /\ AtWork(i) BY <2>3, <2>4, <3>2
      <4>2. Stray(h) \/ Stray(i) BY <2>4, <4>1 DEF OneProvider
      <4> QED BY <2>3, <3>2, <4>2
    <3> QED BY <3>1, <3>2
  <2> QED BY <2>1, <2>4 DEF OneProvider
<1>10. StopInv'
  <2>1. \A c \in Call : calls[c].at = "teardown" /\ calls[c].of = agents => agents # 0
    BY CallsAssumption DEF CallsInv, Call
  <2> QED BY <1>2, <1>3, <2>1 DEF StopInv
<1>11. MailInv'
  BY <1>2, <1>3 DEF MailInv, MessagesInv, MessagesAreAnswered, ReadIsAnswered, AnsweredAgain
<1>12. TypeOK' BY <1>1, <1>2 DEF TypeOK
<1> QED BY <1>4, <1>5, <1>6, <1>7, <1>8, <1>9, <1>10, <1>11, <1>12

LEMMA StrayTick == ASSUME IInv, NEW g \in Call, Tick(g), g # agents PROVE IInv'
<1> DEFINE o == object[g]
           p == [o EXCEPT !.live = @ - 1]
           q == [p EXCEPT !.lost = @ + 1]
           ended(x) == [x EXCEPT !.watched = FALSE, !.stage = "none", !.seen = {}]
<1>0. o.stage # "none"
  BY DEF Tick, TickReads, TurnStarts, ProviderSettles, TurnTimesOut, Reply, MarkRead,
         TurnFails, FailureNoted
<1>1. /\ ~Current(g) /\ Sound(o) /\ o \in Object /\ o.running /\ o.watched = FALSE
      /\ TypeOK /\ cut \subseteq Message /\ missed \subseteq Message
  BY <1>0 DEF Current, InMap, IInv, ControlInv, ObjectsInv, OutsideInv, Sound, TypeOK, Object
<1>2. \A x, next : GoOn(g, x, next) <=> Set(g, ended(x))
  BY <1>1 DEF GoOn, TurnOver
<1>3. TurnOver(g, o) = ended(o) BY <1>1 DEF TurnOver
<1>a. ASSUME NEW x \in Object, x.running, x.live + x.lost <= 1
      PROVE  /\ Sound(ended(x)) /\ ended(x).running /\ ~ended(x).watched /\ ended(x).epoch = x.epoch
  <2> DEFINE e == ended(x)
  <2>1. /\ e \in Object /\ e.running /\ ~e.watched /\ e.epoch = x.epoch /\ e.stage = "none"
        /\ e.live = x.live /\ e.lost = x.lost
    BY <1>a DEF Object
  <2> HIDE DEF e
  <2> QED BY <1>a, <2>1 DEF Sound, e
<1>4. Sound(ended(o)) /\ ended(o).running /\ ~ended(o).watched /\ ended(o).epoch = o.epoch
  BY <1>1, <1>a DEF Sound
<1>5. ASSUME o.stage = "provider"
      PROVE  /\ Sound(ended(p)) /\ ended(p).running /\ ~ended(p).watched /\ ended(p).epoch = o.epoch
             /\ Sound(ended(q)) /\ ended(q).running /\ ~ended(q).watched /\ ended(q).epoch = o.epoch
  <2>1. o.live = 1 /\ o.lost = 0 /\ 0 \in 0..MaxCalls /\ 1 \in 0..MaxCalls
    BY <1>1, <1>5, CallsAssumption DEF Sound, Object
  <2>2. p = [o EXCEPT !.live = 0] BY <1>1, <2>1 DEF Object
  <2>3. p \in Object /\ p.live = 0 /\ p.lost = 0 /\ p.running /\ p.epoch = o.epoch
    BY <1>1, <2>1, <2>2 DEF Object
  <2>4. q = [p EXCEPT !.lost = p.lost + 1] BY <2>3 DEF Object
  <2> HIDE DEF p, q
  <2>5. q \in Object /\ q.live = 0 /\ q.lost = 1 /\ q.running /\ q.epoch = o.epoch
    <3>1. q = [p EXCEPT !.lost = 1] BY <2>3, <2>4
    <3> QED BY <2>1, <2>3, <3>1 DEF Object
  <2> HIDE DEF ended
  <2> QED BY <2>3, <2>5, <1>a
<1>6. \/ Set(g, ended(o))
      \/ o.stage = "provider" /\ (Set(g, ended(p)) \/ Set(g, ended(q)))
  <2>1. CASE TickReads(g) BY <1>2, <1>3, <2>1 DEF TickReads
  <2>2. CASE TurnStarts(g) BY <1>2, <2>2 DEF TurnStarts
  <2>3. CASE ProviderSettles(g)
    <3>1. /\ o.stage = "provider"
          /\ \/ GoOn(g, p, [p EXCEPT !.stage = "replying"])
             \/ GoOn(g, p, [p EXCEPT !.stage = "failing"])
             \/ GoOn(g, q, [q EXCEPT !.stage = "failing"])
      BY <2>3 DEF ProviderSettles
    <3> HIDE DEF p, q, ended
    <3> QED BY <1>2, <3>1
  <2>4. CASE TurnTimesOut(g)
    <3>1. Set(g, [o EXCEPT !.stage = "none", !.seen = {}, !.running = @ /\ ~Current(g)])
      BY <1>1, <2>4 DEF TurnTimesOut
    <3>2. [o EXCEPT !.stage = "none", !.seen = {}, !.running = @ /\ ~Current(g)] = ended(o)
      BY <1>1 DEF Object
    <3> QED BY <3>1, <3>2
  <2>5. CASE Reply(g) BY <1>2, <2>5 DEF Reply
  <2>6. CASE MarkRead(g) BY <1>1, <1>3, <2>6 DEF MarkRead
  <2>7. CASE TurnFails(g) BY <1>2, <2>7 DEF TurnFails
  <2>8. CASE FailureNoted(g)
    <3>1. Set(g, [o EXCEPT !.stage = "none", !.seen = {}, !.watched = FALSE, !.running = @ /\ ~Current(g)])
      BY <2>8 DEF FailureNoted
    <3>2. [o EXCEPT !.stage = "none", !.seen = {}, !.watched = FALSE, !.running = @ /\ ~Current(g)] = ended(o)
      BY <1>1 DEF Object
    <3> QED BY <3>1, <3>2
  <2> QED BY <2>1, <2>2, <2>3, <2>4, <2>5, <2>6, <2>7, <2>8 DEF Tick
<1>7. /\ cut \subseteq cut' /\ cut' \subseteq Message /\ missed' \subseteq Message
      /\ UNCHANGED <<mail, control>>
  <2>1. CASE TickReads(g) BY <1>1, <2>1 DEF TickReads
  <2>2. CASE TurnStarts(g) \/ ProviderSettles(g) \/ FailureNoted(g)
    BY <1>1, <2>2 DEF TurnStarts, ProviderSettles, FailureNoted
  <2>3. CASE TurnTimesOut(g) BY <1>1, <2>3 DEF TurnTimesOut, control
  <2>4. CASE Reply(g) BY <1>1, <2>4 DEF Reply, mail
  <2>5. CASE MarkRead(g) BY <1>1, <2>5 DEF MarkRead, mail
  <2>6. CASE TurnFails(g)
    <3>1. cut' = CutOff(o) /\ missed' = missed /\ UNCHANGED <<mail, control>>
      BY <2>6 DEF TurnFails
    <3>2. o.seen \subseteq Message BY <1>1 DEF Object
    <3> QED BY <1>1, <3>1, <3>2 DEF CutOff
  <2> QED BY <2>1, <2>2, <2>3, <2>4, <2>5, <2>6 DEF Tick
<1> HIDE DEF o, p, q, ended
<1>8. o.epoch = object[g].epoch /\ object[g].running BY <1>1 DEF o
<1>9. CASE Set(g, ended(o)) BY <1>4, <1>7, <1>8, <1>9, StrayStep
<1>10. CASE o.stage = "provider" /\ Set(g, ended(p)) BY <1>5, <1>7, <1>8, <1>10, StrayStep
<1>11. CASE o.stage = "provider" /\ Set(g, ended(q)) BY <1>5, <1>7, <1>8, <1>11, StrayStep
<1> QED BY <1>6, <1>9, <1>10, <1>11

\* Every step of a turn, in the map or outside.
LEMMA TickStep == ASSUME IInv, NEW g \in Call, Tick(g) PROVE IInv'
BY MapTick, StrayTick

-----------------------------------------------------------------------------
(* Messages, and providers that outlive their turn.                        *)

\* The messages do not mind what leaves the turn in the map as it is, or
\* begins one.
LEMMA MailKept ==
  ASSUME IInv, UNCHANGED <<inbox, answered, cut, agents>>,
         agents # 0 =>
           \/ object'[agents].stage = object[agents].stage /\ object'[agents].seen = object[agents].seen
           \/ object'[agents].stage = "reading" /\ object[agents].stage = "none"
  PROVE  MailInv'
BY DEF IInv, MailInv, MessagesInv, MessagesAreAnswered, ReadIsAnswered, AnsweredAgain

LEMMA AbandonedStep == ASSUME IInv, NEW g \in Call, AbandonedSettles(g) PROVE IInv'
<1> DEFINE o == object[g]
<1>1. /\ Sound(o) /\ o \in Object /\ g # 0 /\ 1 \in 0..MaxCalls /\ MaxCalls \in Nat
      /\ object \in [Call -> Object] /\ TypeOK
  BY CallsAssumption DEF IInv, ControlInv, ObjectsInv, Sound, Call, TypeOK
<1>2. o.live = 1 /\ o.lost = 0 /\ o.stage = "none" /\ ~o.watched
      /\ (agents = g => ~o.running) /\ (agents # g => o.running)
  <2>1. /\ o.live \in 0..MaxCalls /\ o.lost \in 0..MaxCalls
        /\ o.stage \in {"none", "reading", "starting", "provider", "replying", "marking", "failing"}
    BY <1>1 DEF Object
  <2>2. o.live > (IF o.stage = "provider" THEN 1 ELSE 0) BY DEF AbandonedSettles
  <2>3. o.live = 1 /\ o.lost = 0 /\ o.stage = "none" /\ ~o.watched BY <1>1, <2>1, <2>2 DEF Sound
  <2> QED BY <1>1, <2>3 DEF IInv, ControlInv, OutsideInv, InsideInv, Rested
<1>4. UNCHANGED <<inbox, noticed, answered, cut, missed, agents, revision, calls, made, command,
                  destroy, orphans>>
  BY DEF AbandonedSettles, mail, control
<1>5. PICK lost \in {0, 1} : Set(g, [o EXCEPT !.live = 0, !.lost = lost])
  <2>1. o.live - 1 = 0 /\ o.lost = 0 /\ o.lost + 1 = 1 BY <1>2
  <2>2. \/ Set(g, [o EXCEPT !.live = o.live - 1])
        \/ Set(g, [o EXCEPT !.live = o.live - 1, !.lost = o.lost + 1])
    BY <1>1 DEF AbandonedSettles, Object
  <2>3. [o EXCEPT !.live = 0] = [o EXCEPT !.live = 0, !.lost = 0] BY <1>1, <1>2 DEF Object
  <2> QED BY <2>1, <2>2, <2>3
<1> DEFINE next == [o EXCEPT !.live = 0, !.lost = lost]
<1>6. /\ Sound(next) /\ next.epoch = o.epoch /\ next.stage = "none" /\ next.live = 0
      /\ next.running = o.running /\ next.seen = o.seen /\ ~next.watched
  <2>1. 0 \in 0..MaxCalls /\ lost \in 0..MaxCalls BY <1>1, <1>5
  <2>2. /\ next \in Object /\ next.epoch = o.epoch /\ next.stage = "none" /\ next.live = 0
        /\ next.lost = lost /\ next.running = o.running /\ next.seen = o.seen
        /\ next.watched = o.watched
    BY <1>1, <1>2, <2>1 DEF Object
  <2> HIDE DEF next
  <2> QED BY <1>2, <1>5, <2>2 DEF Sound
<1>7. object' = [object EXCEPT ![g] = next] BY <1>5 DEF Set
<1> HIDE DEF next
<1>8. CASE agents # g
  <2>1. /\ cut \subseteq cut' /\ cut' \subseteq Message /\ missed' \subseteq Message
        /\ UNCHANGED <<mail, control>> /\ Set(g, next)
    BY <1>1, <1>4, <1>7 DEF TypeOK, mail, control, Set
  <2> QED BY <1>2, <1>6, <1>8, <2>1, StrayStep
<1>9. CASE agents = g
  <2>1. /\ object' \in [Call -> Object] /\ object'[g] = next
        /\ \A h \in Call : h # agents => object'[h] = object[h]
    BY <1>1, <1>6, <1>7, <1>9 DEF Sound
  <2>2. Rested(next) /\ ~next.running BY <1>2, <1>6, <1>9 DEF Rested
  <2>3. calls' \in [Call -> CallState] /\ \A c \in Call : calls'[c] \in {calls[c], Returned}
    BY <1>1, <1>4 DEF TypeOK
  <2>4. ControlInv' BY <1>4, <1>6, <1>9, <2>1, <2>2, <2>3, ObjectStep
  <2>5. MailInv' BY <1>2, <1>4, <1>6, <1>9, <2>1, MailKept
  <2>6. TypeOK' BY <1>1, <1>4, <2>1 DEF TypeOK
  <2> QED BY <2>4, <2>5, <2>6 DEF IInv
<1> QED BY <1>8, <1>9

\* A message that arrives may begin a turn of the agent in the map.
LEMMA DeliverStep == ASSUME IInv, NEW m \in Message, Deliver(m) PROVE IInv'
<1>1. /\ TypeOK /\ agents \in 0..MaxCalls /\ (agents # 0 => agents \in Call /\ Sound(object[agents]) /\ Rested(object[agents]))
      /\ MaxCalls \in Nat
  BY CallsAssumption DEF IInv, ControlInv, ObjectsInv, InsideInv, TypeOK, Call
<1>2. /\ inbox[m] = "unsent" /\ inbox' = [inbox EXCEPT ![m] = "unread"]
      /\ UNCHANGED <<answered, cut, missed, agents, revision, calls, made, command, destroy, orphans>>
      /\ noticed' \in {noticed, noticed \cup {m}}
      /\ \/ object' = object
         \/ agents # 0 /\ destroy = "no" /\ object' = [object EXCEPT ![agents] = Scheduled(object[agents])]
  BY DEF Deliver, Set, control
<1>3. /\ object' \in [Call -> Object] /\ \A g \in Call : g # agents => object'[g] = object[g]
      /\ agents # 0 => /\ object'[agents] \in {object[agents], Scheduled(object[agents])}
                       /\ object'[agents] # object[agents] => destroy = "no"
  BY <1>1, <1>2, ScheduledFacts DEF Sound, TypeOK
<1>4. agents # 0 =>
        /\ Sound(object'[agents]) /\ Rested(object'[agents]) /\ object'[agents].epoch = object[agents].epoch
        /\ object'[agents].running = object[agents].running
        /\ object'[agents].live = object[agents].live
        /\ object'[agents].seen = object[agents].seen
        /\ \/ object'[agents].stage = object[agents].stage
           \/ object'[agents].stage = "reading" /\ object[agents].stage = "none"
  BY <1>1, <1>3, ScheduledFacts
<1>5. ControlInv'
  <2>1. agents # 0 /\ object'[agents].running => destroy = "no"
    BY <1>1, <1>4 DEF IInv, ControlInv, DestroyInv, TypeOK
  <2>2. agents # 0 /\ command = "stop" => ~object'[agents].running
    BY <1>4 DEF IInv, ControlInv, StopInv
  <2>3. calls' \in [Call -> CallState] /\ calls' = calls /\ \A c \in Call : calls'[c] \in {calls[c], Returned}
    BY <1>1, <1>2 DEF TypeOK
  <2> QED BY <1>2, <1>3, <1>4, <2>1, <2>2, <2>3, ObjectStep
<1>6. \A n \in Message : inbox'[n] = IF n = m THEN "unread" ELSE inbox[n]
  BY <1>1, <1>2 DEF TypeOK
<1>7. MailInv'
  <2>1. agents # 0 => object[agents].seen \in SUBSET Message BY <1>1 DEF Sound, Object
  <2> QED
    BY <1>2, <1>4, <1>6, <2>1
    DEF IInv, MailInv, MessagesInv, MessagesAreAnswered, ReadIsAnswered, AnsweredAgain
<1>8. TypeOK' BY <1>1, <1>2, <1>3 DEF TypeOK
<1> QED BY <1>5, <1>7, <1>8 DEF IInv

-----------------------------------------------------------------------------
(* Calls.                                                                  *)

\* A call that returns and leaves the map and the objects alone.
LEMMA ReturnStep ==
  ASSUME IInv, NEW c \in Call, Return(c),
         command = "stop" /\ c = made /\ agents # 0 => object[agents].live = 0,
         UNCHANGED <<mail, cut, missed, agents, object, revision, made, command, destroy, orphans>>
  PROVE  IInv'
<1>1. TypeOK /\ Returned \in CallState BY FreshFacts DEF IInv
<1>2. /\ calls' \in [Call -> CallState] /\ \A d \in Call : calls'[d] \in {calls[d], Returned}
      /\ \A d \in Call : d # c => calls'[d] = calls[d]
  BY <1>1 DEF TypeOK, Return
<1>3. ControlInv'
  <2>1. agents # 0 => agents \in Call /\ Sound(object[agents]) /\ Rested(object[agents])
    BY <1>1, CallsAssumption DEF TypeOK, Call, IInv, ControlInv, ObjectsInv, InsideInv
  <2>2. agents # 0 /\ object[agents].running => destroy = "no"
    BY <1>1 DEF IInv, ControlInv, DestroyInv, TypeOK
  <2>3. command = "stop" => made \in Call /\ (agents # 0 => ~object[agents].running)
    BY DEF IInv, ControlInv, StopInv
  <2>4. agents # 0 /\ command = "stop" /\ object[agents].live > 0 => calls'[made] = calls[made]
    BY <1>2, <2>1, <2>3
  <2>5. object' \in [Call -> Object] BY <1>1 DEF TypeOK
  <2> QED BY <1>2, <2>1, <2>2, <2>3, <2>4, <2>5, ObjectStep
<1>4. MailInv' BY MailKept DEF mail
<1>5. TypeOK' BY <1>1, <1>2 DEF TypeOK, mail
<1> QED BY <1>3, <1>4, <1>5 DEF IInv

\* After a stop, a call that has nothing to wait for but files or for turns is not the
\* stop.
LEMMA FileCall ==
  ASSUME IInv, NEW c \in Call, calls[c].at \in {"upsert", "initial", "turns"}, command = "stop"
  PROVE  c # made
BY DEF IInv, ControlInv, StopInv

LEMMA InitialSentStep == ASSUME IInv, NEW c \in Call, InitialSent(c) PROVE IInv'
<1>1. /\ TypeOK /\ Returned \in CallState /\ c # 0 /\ calls[c].at = "initial"
      /\ UNCHANGED <<mail, cut, missed, agents, revision, made, command, destroy, orphans>>
  BY FreshFacts DEF IInv, InitialSent, Call
<1>2. CASE ~FirstTurn(c)
  <2>1. Return(c) /\ object' = object BY <1>2 DEF InitialSent
  <2> QED BY <1>1, <2>1, FileCall, ReturnStep
<1>3. CASE FirstTurn(c)
  <2> DEFINE o == object[c]  once == Scheduled(o)  twice == Scheduled(once)
             next == [twice EXCEPT !.watched = TRUE]
  <2>1. agents = c /\ destroy = "no" /\ o.running /\ Sound(o) /\ Rested(o)
    BY <1>1, <1>3 DEF FirstTurn, Current, InMap, IInv, ControlInv, ObjectsInv, InsideInv
  <2>2. /\ Sound(once) /\ Rested(once) /\ once.epoch = o.epoch /\ once.seen = o.seen /\ once.running
        /\ once.stage = o.stage \/ (once.stage = "reading" /\ o.stage = "none")
        /\ once.stage # "none"
    BY <2>1, ScheduledFacts
  <2>3. Set(c, next) /\ AwaitTurns(c, c) BY <1>3 DEF InitialSent
  <2> HIDE DEF once
  <2>4. /\ Sound(twice) /\ twice.epoch = o.epoch /\ twice.seen = o.seen /\ twice.running
        /\ twice.stage = o.stage \/ (twice.stage = "reading" /\ o.stage = "none")
        /\ twice.stage # "none"
    BY <2>2, ScheduledFacts
  <2> HIDE DEF twice
  <2>5. /\ next \in Object /\ next.epoch = o.epoch /\ next.seen = o.seen /\ next.running
        /\ next.stage = twice.stage /\ next.live = twice.live /\ next.lost = twice.lost
    BY <2>4 DEF Sound, Object
  <2> HIDE DEF next
  <2>6. Sound(next) /\ Rested(next) BY <2>4, <2>5 DEF Sound, Rested
  <2>7. command # "stop" BY <1>1, <2>1 DEF IInv, ControlInv, StopInv
  <2>8. /\ object' \in [Call -> Object] /\ object'[c] = next
        /\ \A h \in Call : h # agents => object'[h] = object[h]
    BY <1>1, <2>1, <2>3, <2>5 DEF Set, TypeOK
  <2>9. /\ calls' \in [Call -> CallState]
        /\ \A d \in Call : \/ calls'[d] \in {calls[d], Returned}
                           \/ command # "stop" /\ d <= made /\ calls'[d].at = "turns"
    <3>1. c <= made BY <2>1 DEF IInv, ControlInv, CallsInv
    <3> QED BY <1>1, <2>3, <2>7, <3>1, AwaitFacts
  <2>10. ControlInv' BY <1>1, <2>1, <2>5, <2>6, <2>7, <2>8, <2>9, ObjectStep
  <2>11. MailInv' BY <1>1, <2>1, <2>4, <2>5, <2>8, MailKept DEF mail
  <2>12. TypeOK' BY <1>1, <2>8, <2>9 DEF TypeOK, mail
  <2> QED BY <2>10, <2>11, <2>12 DEF IInv
<1> QED BY <1>2, <1>3

\* An agent whose initial task could not be sent leaves the map, whatever it
\* does by then.
LEMMA InitialFailsStep == ASSUME IInv, NEW c \in Call, InitialFails(c) PROVE IInv'
<1>1. /\ calls[c].at = "initial" /\ Return(c)
      /\ UNCHANGED <<mail, missed, revision, made, command, destroy, orphans>>
  BY DEF InitialFails
<1>2. CASE ~FirstTurn(c)
  <2>1. UNCHANGED <<agents, object, cut>> BY <1>2 DEF InitialFails
  <2> QED BY <1>1, <2>1, FileCall, ReturnStep
<1>3. CASE FirstTurn(c)
  <2>1. /\ agents' = 0 /\ object' = [object EXCEPT ![c] = Dropped(object[c])]
        /\ cut' = CutOff(object[c])
    BY <1>3 DEF InitialFails, Set
  <2>2. Current(c) /\ Sound(object[c]) /\ object[c].running
    BY <1>3 DEF FirstTurn, Current, IInv, ControlInv, ObjectsInv
  <2> QED BY <1>1, <2>1, <2>2, DropStep
<1> QED BY <1>2, <1>3

\* spawn puts its agent in the map, if no later spawn or stop was called.
LEMMA CreateStep == ASSUME IInv, NEW c \in Call, Create(c) PROVE IInv'
<1>1. /\ TypeOK /\ calls[c].at = "upsert" /\ c # 0
      /\ UNCHANGED <<mail, cut, missed, revision, made, command, destroy, orphans>>
  BY DEF IInv, Create, Call
<1>2. CASE Superseded(c)
  <2>1. Return(c) /\ UNCHANGED <<agents, object>> BY <1>2 DEF Create
  <2> QED BY <1>1, <2>1, FileCall, ReturnStep
<1>3. CASE ~Superseded(c)
  <2> DEFINE call == [Returned EXCEPT !.op = "spawn", !.at = "initial"]
  <2>1. /\ agents' = c /\ object' = [object EXCEPT ![c] = Spawned] /\ calls' = [calls EXCEPT ![c] = call]
        /\ destroy = "no" /\ revision = c
    BY <1>3 DEF Create, Set, Superseded
  <2>2. agents = 0 BY <1>1, <2>1 DEF IInv, ControlInv, CallsInv
  <2>3. /\ Sound(Spawned) /\ Spawned \in Object /\ Spawned.epoch = 0 /\ Spawned.stage = "none"
        /\ Spawned.live = 0 /\ Spawned.lost = 0 /\ Rested(Spawned)
    BY FreshFacts DEF Spawned, NoObject, Sound
  <2>4. call \in CallState /\ call.at = "initial" BY FreshFacts DEF Returned, CallState
  <2> HIDE DEF call
  <2>5. /\ calls' \in [Call -> CallState] /\ calls'[c] = call /\ \A d \in Call : d # c => calls'[d] = calls[d]
        /\ object' \in [Call -> Object] /\ object'[c] = Spawned
        /\ \A g \in Call : g # c => object'[g] = object[g]
    BY <1>1, <2>1, <2>3, <2>4 DEF TypeOK
  <2>6. c <= made /\ c \in Nat /\ made \in Nat /\ \A g \in Call : g # 0
    BY <1>1, CallsAssumption DEF IInv, ControlInv, EpochInv, TypeOK, Call, Returned
  <2>7. c \notin orphans /\ \A d \in Call : calls[d].at = "teardown" => calls[d].of # c
    BY <1>1 DEF IInv, ControlInv, CallsInv
  <2>8. ObjectsInv' /\ InsideInv' BY <2>1, <2>3, <2>5 DEF IInv, ControlInv, ObjectsInv, InsideInv
  <2>9. OneProvider'
    <3>1. \A g \in Call : object'[g].live + object'[g].lost <= 1 BY <2>8 DEF ObjectsInv, Sound
    <3>2. ~AtWork(c)' BY <1>1, <2>3, <2>5, <2>7 DEF AtWork
    <3>3. ASSUME NEW g \in Call, g # c PROVE AtWork(g)' = AtWork(g) /\ Stray(g)' = Stray(g)
      BY <1>1, <2>1, <2>2, <2>5, <2>6, <3>3 DEF AtWork, Stray
    <3> QED BY <3>1, <3>2, <3>3 DEF IInv, ControlInv, OneProvider
  <2>10. OutsideInv' /\ DestroyInv'
    BY <1>1, <2>1, <2>2, <2>5, <2>6 DEF IInv, ControlInv, OutsideInv, DestroyInv
  <2>11. EpochInv'
    <3>1. ASSUME NEW g \in Call
          PROVE  IF g <= made THEN object'[g].epoch <= made - g + 0
                 ELSE object'[g] = NoObject /\ calls'[g] = Returned /\ g \notin orphans
      <4>1. CASE g = c BY <2>3, <2>5, <2>6, <4>1
      <4>2. CASE g # c BY <1>1, <2>1, <2>5, <4>2 DEF IInv, ControlInv, EpochInv
      <4> QED BY <4>1, <4>2
    <3> QED BY <1>1, <2>1, <3>1 DEF EpochInv
  <2>12. CallsInv'
    BY <1>1, <2>1, <2>2, <2>4, <2>5, <2>6, <2>7 DEF IInv, ControlInv, CallsInv
  <2>13. StopInv' BY <1>1, <2>1 DEF IInv, ControlInv, StopInv
  <2>14. MailInv' BY <1>1, <2>1, <2>2, <2>3, <2>5, NotMarking DEF mail
  <2>15. TypeOK' BY <1>1, <2>1, <2>5 DEF TypeOK, mail, Call
  <2> QED BY <2>8, <2>9, <2>10, <2>11, <2>12, <2>13, <2>14, <2>15 DEF IInv, ControlInv
<1> QED BY <1>2, <1>3

LEMMA UpsertFailsStep == ASSUME IInv, NEW c \in Call, UpsertFails(c) PROVE IInv'
BY FileCall, ReturnStep DEF UpsertFails

LEMMA TurnsOverStep == ASSUME IInv, NEW c \in Call, TurnsOver(c) PROVE IInv'
BY FileCall, ReturnStep DEF TurnsOver

\* What waited for the teardown: a spawn takes the old agent from the map, a
\* start runs it again, and everybody else returns.
LEMMA TeardownOverStep == ASSUME IInv, NEW c \in Call, TeardownOver(c) PROVE IInv'
<1> DEFINE g == calls[c].of  o == object[g]
<1>1. /\ TypeOK /\ Returned \in CallState /\ c # 0 /\ calls[c].at = "teardown"
      /\ o.stage = "none" /\ o.live = 0
      /\ UNCHANGED <<mail, cut, missed, revision, made, command, destroy, orphans>>
  BY FreshFacts DEF IInv, TeardownOver, Continues, TornDown, Call
<1>2. g \in Call /\ Sound(o) /\ (g = agents => calls[c].epoch <= o.epoch)
  BY <1>1 DEF IInv, ControlInv, CallsInv, ObjectsInv
<1>3. CASE calls[c].op = "spawn" /\ o.lost = 0 /\ ~Superseded(c)
  <2> DEFINE call == [Returned EXCEPT !.op = "spawn", !.at = "upsert"]
             d == Dropped(o)
  <2>1. /\ IF agents = g THEN agents' = 0 /\ object' = [object EXCEPT ![g] = d]
                         ELSE UNCHANGED <<agents, object>>
        /\ calls' = [calls EXCEPT ![c] = call]
        /\ destroy = "no" /\ revision = c
    BY <1>3 DEF TeardownOver, Superseded, Set
  <2>2. agents \in {0, g} /\ agents' = 0 /\ agents \notin orphans /\ c \notin orphans
        /\ \A h \in Call : calls[h].at = "teardown" => calls[h].of # c
    BY <1>1, <2>1 DEF IInv, ControlInv, CallsInv
  <2>3. call \in CallState /\ call.at = "upsert" BY <1>1 DEF Returned, CallState
  <2>4. Sound(d) /\ ~d.watched /\ d.epoch = 0 /\ d.stage = "none" /\ d.live = 0 /\ d.lost = 0
    BY <1>1, <1>2, <1>3, DroppedFacts
  <2> HIDE DEF call, d
  <2>5. /\ calls' \in [Call -> CallState] /\ calls'[c] = call
        /\ \A h \in Call : h # c => calls'[h] = calls[h]
    BY <1>1, <2>1, <2>3 DEF TypeOK
  <2>6. /\ object' \in [Call -> Object] /\ (agents = g => object'[g] = d)
        /\ \A h \in Call : h # agents => object'[h] = object[h]
    BY <1>1, <1>2, <2>1, <2>4 DEF TypeOK, Sound
  <2>7. /\ \A h \in Call : h \in Nat \ {0}
        /\ c <= made /\ made \in Nat /\ (agents = g => g <= made)
    BY <1>1, CallsAssumption DEF IInv, ControlInv, EpochInv, CallsInv, TypeOK, Returned, Call
  <2>8. ObjectsInv' /\ InsideInv'
    BY <2>2, <2>4, <2>6, <2>7 DEF IInv, ControlInv, ObjectsInv, InsideInv
  <2>9. OneProvider'
    <3>1. \A h \in Call : object'[h].live + object'[h].lost <= 1 BY <2>8 DEF ObjectsInv, Sound
    <3>2. ASSUME NEW h \in Call, AtWork(h)' PROVE AtWork(h) /\ (Stray(h) => Stray(h)')
      <4>1. CASE h = agents
        <5>1. h = g /\ object'[h] = d BY <2>2, <2>6, <2>7, <4>1
        <5> QED BY <1>1, <2>2, <2>4, <3>2, <4>1, <5>1 DEF AtWork
      <4>2. CASE h # agents BY <1>1, <2>2, <2>6, <2>7, <3>2, <4>2 DEF AtWork, Stray
      <4> QED BY <4>1, <4>2
    <3> QED BY <3>1, <3>2 DEF IInv, ControlInv, OneProvider
  <2>10. OutsideInv' /\ DestroyInv'
    <3>1. ASSUME NEW h \in Call
          PROVE  /\ ~object'[h].watched
                 /\ ~object'[h].running => /\ object'[h].stage = "none" /\ object'[h].live = 0
                                           /\ object'[h].lost > 0 => destroy = "rejected"
      <4>1. CASE h = agents
        <5>1. h = g /\ object'[h] = d BY <2>2, <2>6, <2>7, <4>1
        <5> QED BY <2>4, <5>1
      <4>2. CASE h # agents BY <2>6, <4>2 DEF IInv, ControlInv, OutsideInv
      <4> QED BY <4>1, <4>2
    <3> QED BY <1>1, <2>1, <2>2, <3>1 DEF OutsideInv, DestroyInv
  <2>11. EpochInv'
    <3>1. ASSUME NEW h \in Call
          PROVE  IF h <= made THEN object'[h].epoch <= made - h + 0
                 ELSE object'[h] = NoObject /\ calls'[h] = Returned /\ h \notin orphans
      <4>1. CASE h = agents
        <5>1. h = g /\ object'[h] = d BY <2>2, <2>6, <2>7, <4>1
        <5> QED BY <2>4, <2>7, <4>1, <5>1
      <4>2. CASE h # agents
        <5>1. IF h <= made THEN object[h].epoch <= made - h + 0
              ELSE object[h] = NoObject /\ calls[h] = Returned /\ h \notin orphans
          BY <2>1 DEF IInv, ControlInv, EpochInv
        <5> QED BY <2>5, <2>6, <2>7, <4>2, <5>1
      <4> QED BY <4>1, <4>2
    <3> QED BY <1>1, <2>1, <3>1 DEF EpochInv
  <2>12. CallsInv'
    <3>1. 0 \notin orphans BY <1>1, <2>7 DEF TypeOK
    <3>2. ASSUME NEW h \in Call
          PROVE  /\ calls'[h].at = "teardown" =>
                      h # c /\ calls'[h].of \in Call /\ calls'[h].of <= made /\ calls'[h].of # c
                 /\ calls'[h].at \in {"teardown", "upsert"} =>
                      h \notin orphans
      BY <2>2, <2>3, <2>5 DEF IInv, ControlInv, CallsInv
    <3>3. ASSUME NEW h \in Call, NEW i \in Call, calls'[h].at \in {"teardown", "upsert"},
                 calls'[i].at = "teardown"
          PROVE  calls'[i].of # h
      <4>1. i # c /\ calls'[i] = calls[i] BY <2>5, <3>2, <3>3
      <4> QED BY <2>2, <2>5, <3>3, <4>1 DEF IInv, ControlInv, CallsInv
    <3>4. revision <= made BY DEF IInv, ControlInv, CallsInv
    <3> QED BY <1>1, <2>2, <2>7, <3>1, <3>2, <3>3, <3>4 DEF CallsInv
  <2>13. StopInv' BY <1>1, <1>3, <2>1 DEF IInv, ControlInv, StopInv
  <2>14. MailInv' BY <1>1, <1>2, <2>1, <2>2, NotMarking DEF mail
  <2>15. TypeOK' BY <1>1, <2>1, <2>2, <2>5, <2>6, CallsAssumption DEF TypeOK, mail
  <2> QED BY <2>8, <2>9, <2>10, <2>11, <2>12, <2>13, <2>14, <2>15 DEF IInv, ControlInv
<1>4. CASE calls[c].op = "start" /\ o.lost = 0 /\ ~Stale(c)
  <2> DEFINE begun == [o EXCEPT !.ready = FALSE, !.running = TRUE]  next == Scheduled(begun)
  <2>1. AwaitTurns(c, g) /\ agents' = agents /\ Set(g, next) /\ agents = g /\ destroy = "no"
        /\ calls[c].epoch = o.epoch
    BY <1>4 DEF TeardownOver, Stale, InMap
  <2>2. Sound(begun) /\ Rested(begun) /\ begun.epoch = o.epoch /\ begun.seen = o.seen /\ begun.stage = "none"
    BY <1>1, <1>2, <1>4 DEF Sound, Rested, Object
  <2> HIDE DEF begun
  <2>3. /\ Sound(next) /\ Rested(next) /\ next.epoch = o.epoch /\ next.stage \in {"none", "reading"}
        /\ next.seen = o.seen
    BY <2>2, ScheduledFacts
  <2>4. command # "stop"
    BY <1>1, <1>2, <1>4, <2>1 DEF IInv, ControlInv, StopInv, Sound, Object
  <2>5. object' = [object EXCEPT ![g] = next] BY <2>1 DEF Set
  <2> HIDE DEF next
  <2>6. /\ object' \in [Call -> Object] /\ object'[g] = next
        /\ \A h \in Call : h # agents => object'[h] = object[h]
    BY <1>1, <1>2, <2>1, <2>3, <2>5 DEF Sound, TypeOK
  <2>7. /\ calls' \in [Call -> CallState]
        /\ \A d \in Call : \/ calls'[d] \in {calls[d], Returned}
                           \/ command # "stop" /\ d <= made /\ calls'[d].at = "turns"
    <3>1. c <= made BY <1>1 DEF IInv, ControlInv, EpochInv, Returned
    <3> QED BY <1>1, <1>2, <2>1, <2>4, <3>1, AwaitFacts
  <2>8. ControlInv' BY <1>1, <2>1, <2>3, <2>4, <2>6, <2>7, ObjectStep
  <2>9. MailInv' BY <1>1, <2>1, <2>3, <2>6, MailKept DEF mail
  <2>10. TypeOK' BY <1>1, <2>1, <2>6, <2>7 DEF TypeOK, mail
  <2> QED BY <2>8, <2>9, <2>10 DEF IInv
<1>5. CASE /\ ~(calls[c].op = "spawn" /\ o.lost = 0 /\ ~Superseded(c))
           /\ ~(calls[c].op = "start" /\ o.lost = 0 /\ ~Stale(c))
  <2>1. Return(c) /\ UNCHANGED <<agents, object>> BY <1>5 DEF TeardownOver
  <2>2. command = "stop" /\ c = made /\ agents # 0 => object[agents].live = 0
    <3>1. agents # 0 => object[agents].live \in Nat
      BY <1>1, CallsAssumption DEF TypeOK, Call, Object
    <3> QED BY <1>1, <3>1 DEF IInv, ControlInv, StopInv
  <2> QED BY <1>1, <2>1, <2>2, ReturnStep
<1> QED BY <1>3, <1>4, <1>5

\* The calls so far, and the aborts of their objects.
LEMMA EpochFacts ==
  ASSUME IInv
  PROVE  /\ made \in Nat
         /\ \A h \in Call :
              /\ h \in Nat \ {0} /\ object[h].epoch \in Nat
              /\ h <= made /\ destroy = "no" => object[h].epoch <= made - h
              /\ h <= made => object[h].epoch <= made - h + 1
              /\ ~(h <= made) => object[h] = NoObject /\ calls[h] = Returned /\ h \notin orphans
<1>1. TypeOK /\ EpochInv /\ made \in Nat BY CallsAssumption DEF IInv, ControlInv, TypeOK
<1>2. ASSUME NEW h \in Call
      PROVE  /\ h \in Nat \ {0} /\ object[h].epoch \in Nat
             /\ h <= made /\ destroy = "no" => object[h].epoch <= made - h
             /\ h <= made => object[h].epoch <= made - h + 1
             /\ ~(h <= made) => object[h] = NoObject /\ calls[h] = Returned /\ h \notin orphans
  <2>1. h \in Nat \ {0} /\ object[h].epoch \in Nat
    BY <1>1, CallsAssumption DEF TypeOK, Object, Call
  <2>2. h <= made => object[h].epoch <= made - h + (IF destroy = "no" THEN 0 ELSE 1)
    BY <1>1 DEF EpochInv
  <2>3. ~(h <= made) => object[h] = NoObject /\ calls[h] = Returned /\ h \notin orphans
    BY <1>1 DEF EpochInv
  <2> QED BY <1>1, <2>1, <2>2, <2>3
<1> QED BY <1>1, <1>2

\* spawn, start and stop begin: with an abort of the agent in the map ...
LEMMA InterruptStep ==
  ASSUME IInv, NEW op \in {"spawn", "start", "stop"}, Invoke(op), agents # 0 PROVE IInv'
<1> DEFINE c == made + 1  g == agents  o == object[agents]
           call == [op |-> op, at |-> "teardown", of |-> agents, epoch |-> object[agents].epoch + 1]
<1>1. /\ TypeOK /\ MaxCalls \in Nat /\ made < MaxCalls /\ destroy = "no" /\ made' = c /\ command' = op
      /\ revision' = IF op = "start" THEN revision ELSE c
      /\ cut' = CutOff(o) /\ object' = [object EXCEPT ![g] = Aborted(o)]
      /\ calls' = [calls EXCEPT ![c] = call]
      /\ UNCHANGED <<mail, missed, agents, destroy, orphans>>
  BY CallsAssumption DEF IInv, Invoke, Interrupt, Set
<1>2. /\ g \in Call /\ g \in Nat /\ g <= made /\ made \in Nat /\ c \in Call /\ c # g /\ revision <= made
      /\ revision \in Nat
      /\ \A h \in Call : h \in Nat \ {0}
  BY <1>1 DEF IInv, ControlInv, CallsInv, TypeOK, Call
<1>3. /\ Sound(o) /\ o \in Object /\ o.epoch \in Nat /\ o.epoch <= made - g
      /\ o.epoch + 1 \in 0..MaxCalls
  BY <1>1, <1>2 DEF IInv, ControlInv, ObjectsInv, EpochInv, Sound, Object
<1> DEFINE next == Aborted(o)
<1>4. /\ Sound(next) /\ next.epoch = o.epoch + 1 /\ ~next.running /\ next.live = o.live
      /\ next.lost = o.lost /\ next.stage = "none" /\ Rested(next)
  BY <1>3, AbortedFacts
<1>5. call \in CallState /\ call.at = "teardown" /\ call.of = g /\ call.op = op /\ call.epoch = o.epoch + 1
  BY <1>1, <1>2, <1>3 DEF CallState, Call
<1> HIDE DEF next, call
<1>6. /\ object' \in [Call -> Object] /\ object'[g] = next
      /\ \A h \in Call : h # g => object'[h] = object[h]
  BY <1>1, <1>2, <1>4 DEF TypeOK, Sound, next
<1>7. /\ calls' \in [Call -> CallState] /\ calls'[c] = call /\ \A d \in Call : d # c => calls'[d] = calls[d]
  BY <1>1, <1>2, <1>5 DEF TypeOK
<1>8. /\ \A d \in Call : calls[d].at # "none" => d <= made
      /\ object[c] = NoObject /\ c \notin orphans
  BY <1>2 DEF IInv, ControlInv, EpochInv, Returned
<1>9. ObjectsInv' /\ InsideInv' BY <1>1, <1>4, <1>6 DEF IInv, ControlInv, ObjectsInv, InsideInv
<1>10. OneProvider'
  <2>1. \A h \in Call : object'[h].live = object[h].live /\ object'[h].lost = object[h].lost
    BY <1>4, <1>6
  <2>2. \A h \in Call : AtWork(h)' = AtWork(h) /\ Stray(h)' = Stray(h)
    BY <1>1, <1>6, <2>1 DEF AtWork, Stray
  <2> QED BY <2>1, <2>2 DEF IInv, ControlInv, OneProvider
<1>11. OutsideInv' /\ DestroyInv'
  BY <1>1, <1>6 DEF IInv, ControlInv, OutsideInv, DestroyInv
<1>12. EpochInv'
  <2>1. ASSUME NEW h \in Call
        PROVE  IF h <= c THEN object'[h].epoch <= c - h
               ELSE object'[h] = NoObject /\ calls'[h] = Returned /\ h \notin orphans
    <3>1. CASE h = g
      <4>1. object'[h].epoch = o.epoch + 1 BY <1>4, <1>6, <3>1
      <4> QED BY <1>2, <1>3, <3>1, <4>1
    <3>2. CASE h # g /\ h <= made
      <4>1. object[h].epoch <= made - h /\ object[h].epoch \in Nat BY <1>1, <3>2, EpochFacts
      <4>2. object'[h].epoch = object[h].epoch BY <1>6, <3>2
      <4>3. h <= c /\ made - h <= c - h BY <1>2, <3>2
      <4>4. object[h].epoch <= c - h BY <1>2, <4>1, <4>3
      <4> QED BY <4>2, <4>3, <4>4
    <3>3. CASE h = c
      <4>1. object'[h].epoch = 0 BY <1>2, <1>6, <1>8, <3>3 DEF NoObject
      <4> QED BY <1>2, <3>3, <4>1
    <3>4. CASE h > c
      <4>1. ~(h <= made) /\ h # g /\ h # c BY <1>2, <3>4
      <4>2. object[h] = NoObject /\ calls[h] = Returned /\ h \notin orphans BY <4>1, EpochFacts
      <4>3. object'[h] = object[h] /\ calls'[h] = calls[h] /\ ~(h <= c) BY <1>2, <1>6, <1>7, <3>4, <4>1
      <4> QED BY <4>2, <4>3
    <3>5. h <= made \/ h = c \/ h > c BY <1>2
    <3> QED BY <3>1, <3>2, <3>3, <3>4, <3>5
  <2> QED BY <1>1, <1>2, <2>1 DEF EpochInv
<1>13. CallsInv'
  <2>1. agents' <= made' /\ revision' <= made' BY <1>1, <1>2
  <2>2. \A d \in Call : calls'[d].at = "teardown" =>
          /\ calls'[d].of \in Call /\ calls'[d].of <= made'
          /\ revision' = d => agents' \in {0, calls'[d].of}
          /\ calls'[d].of = agents' => calls'[d].epoch <= object'[agents'].epoch
    <3>1. calls'[c].of \in Call /\ calls'[c].of <= made' /\ agents' \in {0, calls'[c].of}
          /\ calls'[c].epoch <= object'[agents'].epoch
      BY <1>1, <1>2, <1>3, <1>4, <1>5, <1>6, <1>7
    <3>2. ASSUME NEW d \in Call, d # c, calls'[d].at = "teardown"
          PROVE  /\ calls'[d].of \in Call /\ calls'[d].of <= made'
                 /\ revision' = d => agents' \in {0, calls'[d].of}
                 /\ calls'[d].of = agents' => calls'[d].epoch <= object'[agents'].epoch
      <4>1. /\ calls[d].of \in Call /\ calls[d].of <= made
            /\ revision = d => agents \in {0, calls[d].of}
            /\ calls[d].of = agents => calls[d].epoch <= object[agents].epoch
            /\ calls[d].epoch \in Nat
        BY <1>1, <1>7, <3>2 DEF IInv, ControlInv, CallsInv, TypeOK, CallState
      <4>2. revision' = d => revision = d BY <1>1, <3>2
      <4>3. calls'[d] = calls[d] BY <1>7, <3>2
      <4>4. calls[d].of = agents => calls[d].epoch <= object'[agents].epoch
        BY <1>3, <1>4, <1>6, <4>1
      <4>5. calls[d].of <= made' BY <1>1, <1>2, <4>1 DEF Call
      <4> QED BY <1>1, <4>1, <4>2, <4>3, <4>4, <4>5
    <3> QED BY <3>1, <3>2
  <2>3. \A d \in Call : calls'[d].at = "upsert" /\ revision' = d => agents' = 0
    BY <1>1, <1>5, <1>7 DEF IInv, ControlInv, CallsInv
  <2>4. ASSUME NEW d \in Call, calls'[d].at \in {"teardown", "upsert"}
        PROVE  /\ agents' # d /\ d \notin orphans
               /\ \A e \in Call : calls'[e].at = "teardown" => calls'[e].of # d
    <3>1. CASE d = c
      <4>1. \A e \in Call : calls[e].at = "teardown" => calls[e].of # c
        BY <1>2 DEF IInv, ControlInv, CallsInv
      <4> QED BY <1>1, <1>2, <1>5, <1>7, <1>8, <3>1, <4>1
    <3>2. CASE d # c
      <4>1. agents # d /\ d \notin orphans /\ \A e \in Call : calls[e].at = "teardown" => calls[e].of # d
        BY <1>7, <2>4, <3>2 DEF IInv, ControlInv, CallsInv
      <4> QED BY <1>1, <1>5, <1>7, <4>1
    <3> QED BY <3>1, <3>2
  <2>5. agents' \notin orphans' /\ orphans' = orphans BY <1>1 DEF IInv, ControlInv, CallsInv
  <2> QED BY <2>1, <2>2, <2>3, <2>4, <2>5 DEF CallsInv
<1>14. StopInv'
  <2> SUFFICES ASSUME op = "stop"
      PROVE  /\ c \in Call /\ revision' = c
             /\ calls'[c].op # "spawn" /\ calls'[c].at \in {"none", "teardown"}
             /\ ~object'[g].running
             /\ calls'[c].at = "teardown" /\ calls'[c].of = g
             /\ \A d \in Call : calls'[d].at = "teardown" /\ calls'[d].op = "start" /\ calls'[d].of = g
                                => calls'[d].epoch < object'[g].epoch
    BY <1>1 DEF StopInv
  <2>1. ASSUME NEW d \in Call, calls'[d].at = "teardown", calls'[d].op = "start", calls'[d].of = g
        PROVE  calls'[d].epoch < object'[g].epoch
    <3>1. d # c /\ calls'[d] = calls[d] BY <1>5, <1>7, <2>1
    <3>2. calls[d].epoch <= o.epoch /\ calls[d].epoch \in Nat
      BY <1>1, <2>1, <3>1 DEF IInv, ControlInv, CallsInv, TypeOK, CallState
    <3> QED BY <1>3, <1>4, <1>6, <3>1, <3>2
  <2>2. revision' = c BY <1>1
  <2>3. calls'[c].op = "stop" /\ calls'[c].at = "teardown" /\ calls'[c].of = g BY <1>5, <1>7
  <2>4. ~object'[g].running BY <1>4, <1>6
  <2>5. \A d \in Call : calls'[d].at = "teardown" /\ calls'[d].op = "start" /\ calls'[d].of = g
                       => calls'[d].epoch < object'[g].epoch
    BY <2>1
  <2>6. c \in Call BY <1>2
  <2> QED BY <2>2, <2>3, <2>4, <2>5, <2>6, Zenon
<1>15. MailInv'
  <2>1. object'[agents'].stage = "none" BY <1>1, <1>4, <1>6
  <2>2. cut' = cut \cup (IF agents # 0 /\ object[agents].stage = "marking"
                         THEN object[agents].seen ELSE {})
    BY <1>1 DEF CutOff
  <2>3. UNCHANGED <<inbox, answered>> BY <1>1 DEF mail
  <2> QED BY <2>1, <2>2, <2>3, NotMarking
<1>16. TypeOK'
  <2>1. agents' \in 0..MaxCalls /\ revision' \in 0..MaxCalls /\ made' \in 0..MaxCalls
    BY <1>1, <1>2
  <2>2. cut' \subseteq Message BY <1>1, <1>3 DEF CutOff, TypeOK, Object
  <2>3. command' \in {"none", "spawn", "start", "stop"} BY <1>1
  <2> QED BY <1>1, <1>6, <1>7, <2>1, <2>2, <2>3 DEF TypeOK, mail
<1> QED BY <1>9, <1>10, <1>11, <1>12, <1>13, <1>14, <1>15, <1>16 DEF IInv, ControlInv

\* ... or with nothing to abort.
LEMMA NothingToInterruptStep ==
  ASSUME IInv, NEW op \in {"spawn", "start", "stop"}, Invoke(op), agents = 0 PROVE IInv'
<1> DEFINE c == made + 1  call == [Returned EXCEPT !.op = op, !.at = "upsert"]
<1>1. /\ TypeOK /\ MaxCalls \in Nat /\ made < MaxCalls /\ destroy = "no" /\ made' = c /\ command' = op
      /\ revision' = IF op = "start" THEN revision ELSE c
      /\ calls' = IF op # "spawn" THEN calls ELSE [calls EXCEPT ![c] = call]
      /\ UNCHANGED <<mail, missed, agents, destroy, object, cut, orphans>>
  BY CallsAssumption DEF IInv, Invoke
<1>2. /\ made \in Nat /\ c \in Call /\ revision <= made /\ revision \in Nat
      /\ \A h \in Call : h \in Nat \ {0}
      /\ object[c] = NoObject /\ calls[c] = Returned /\ c \notin orphans
  BY <1>1 DEF IInv, ControlInv, CallsInv, EpochInv, TypeOK, Call
<1>3. op = "spawn" => call \in CallState /\ call.at = "upsert"
  BY FreshFacts DEF Returned, CallState
<1> HIDE DEF call
<1>4. /\ calls' \in [Call -> CallState] /\ \A d \in Call : d # c => calls'[d] = calls[d]
      /\ IF op = "spawn" THEN calls'[c].at = "upsert" ELSE calls'[c] = Returned
  BY <1>1, <1>2, <1>3 DEF TypeOK
<1>5. Returned.at = "none" /\ Returned.op = "none" /\ NoObject.epoch = 0 BY DEF Returned, NoObject
<1>6. ObjectsInv' /\ InsideInv' /\ OneProvider' /\ OutsideInv' /\ DestroyInv'
  BY <1>1
  DEF IInv, ControlInv, ObjectsInv, InsideInv, OneProvider, AtWork, Stray, OutsideInv, DestroyInv
<1>7. EpochInv'
  <2>1. ASSUME NEW h \in Call
        PROVE  IF h <= c THEN object[h].epoch <= c - h
               ELSE object[h] = NoObject /\ calls'[h] = Returned /\ h \notin orphans
    <3>1. CASE h <= made
      <4>1. object[h].epoch <= made - h /\ object[h].epoch \in Nat BY <1>1, <3>1, EpochFacts
      <4> QED BY <1>2, <3>1, <4>1
    <3>2. CASE h = c BY <1>2, <1>5, <3>2
    <3>3. CASE h > c
      <4>1. ~(h <= made) /\ h # c BY <1>2, <3>3
      <4>2. object[h] = NoObject /\ calls[h] = Returned /\ h \notin orphans BY <4>1, EpochFacts
      <4>3. calls'[h] = calls[h] /\ ~(h <= c) BY <1>2, <1>4, <3>3, <4>1
      <4> QED BY <4>2, <4>3
    <3> QED BY <1>2, <3>1, <3>2, <3>3
  <2> QED BY <1>1, <1>2, <2>1 DEF EpochInv
<1>8. CallsInv'
  <2>1. \A d \in Call : calls[d].at = "teardown" => calls[d].of \in Call /\ calls[d].of <= made
    BY DEF IInv, ControlInv, CallsInv
  <2>2. \A d \in Call : calls'[d].at = "teardown" => d # c /\ calls'[d] = calls[d]
    BY <1>4, <1>5
  <2>3. ASSUME NEW d \in Call, calls'[d].at \in {"teardown", "upsert"}
        PROVE  /\ agents' # d /\ d \notin orphans
               /\ \A e \in Call : calls'[e].at = "teardown" => calls'[e].of # d
    <3>1. CASE d = c BY <1>1, <1>2, <2>1, <2>2, <3>1
    <3>2. CASE d # c
      <4>1. d \notin orphans /\ \A e \in Call : calls[e].at = "teardown" => calls[e].of # d
        BY <1>4, <2>3, <3>2 DEF IInv, ControlInv, CallsInv
      <4> QED BY <1>1, <1>2, <2>2, <4>1
    <3> QED BY <3>1, <3>2
  <2>4. agents' <= made' /\ revision' <= made' BY <1>1, <1>2
  <2>5. \A d \in Call : calls'[d].at = "teardown" =>
          /\ calls'[d].of \in Call /\ calls'[d].of <= made'
          /\ agents' \in {0, calls'[d].of} /\ calls'[d].of # agents'
    BY <1>1, <1>2, <2>1, <2>2
  <2>6. agents' \notin orphans' /\ orphans' = orphans BY <1>1 DEF IInv, ControlInv, CallsInv
  <2> QED BY <1>1, <2>3, <2>4, <2>5, <2>6 DEF CallsInv
<1>9. StopInv'
  <2>1. \A d \in Call : calls'[d].at = "teardown" => calls'[d].of # 0
    BY <1>2, <1>4, <1>5 DEF IInv, ControlInv, CallsInv
  <2> QED BY <1>1, <1>2, <1>4, <1>5, <2>1 DEF StopInv
<1>10. MailInv' BY <1>1, NotMarking DEF mail
<1>11. TypeOK' BY <1>1, <1>2, <1>4 DEF TypeOK, mail, Call
<1> QED BY <1>6, <1>7, <1>8, <1>9, <1>10, <1>11 DEF IInv, ControlInv

-----------------------------------------------------------------------------
(* The end.                                                                *)

LEMMA DestroyStep == ASSUME IInv, Destroy PROVE IInv'
<1>1. /\ TypeOK /\ MaxCalls \in Nat /\ destroy = "no" /\ destroy' = "waiting"
      /\ UNCHANGED <<mail, missed, agents, revision, calls, made, command, orphans>>
      /\ \A g \in Call : g \in Nat \ {0}
  BY CallsAssumption DEF IInv, Destroy, Call
<1>2. ASSUME agents # 0
      PROVE  /\ agents \in Call /\ Sound(object[agents]) /\ object[agents].epoch \in Nat
             /\ object[agents].epoch <= made - agents
             /\ object[agents].epoch + 1 \in 0..MaxCalls
  <2>1. agents \in Call /\ agents <= made /\ made \in Nat /\ made <= MaxCalls
    BY <1>1, <1>2 DEF TypeOK, Call, IInv, ControlInv, CallsInv
  <2>2. object[agents].epoch \in Nat /\ object[agents].epoch <= made - agents
    BY <1>1, <2>1, EpochFacts
  <2>3. object[agents].epoch + 1 \in 0..MaxCalls BY <1>1, <2>1, <2>2
  <2> QED BY <2>1, <2>2, <2>3 DEF IInv, ControlInv, ObjectsInv
<1>3. /\ object' \in [Call -> Object] /\ \A g \in Call : g # agents => object'[g] = object[g]
      /\ agents # 0 => object'[agents] = Aborted(object[agents])
  BY <1>1, <1>2, AbortedFacts DEF Destroy, Set, TypeOK, Sound
<1>4. agents # 0 =>
        /\ Sound(object'[agents]) /\ object'[agents].epoch = object[agents].epoch + 1
        /\ ~object'[agents].running /\ object'[agents].live = object[agents].live
        /\ object'[agents].lost = object[agents].lost /\ object'[agents].stage = "none"
        /\ Rested(object'[agents])
  BY <1>2, <1>3, AbortedFacts
<1>5. ObjectsInv' /\ InsideInv' BY <1>1, <1>3, <1>4 DEF IInv, ControlInv, ObjectsInv, InsideInv
<1>6. OneProvider'
  <2>1. \A g \in Call : object'[g].live = object[g].live /\ object'[g].lost = object[g].lost
    BY <1>1, <1>3, <1>4
  <2>2. \A g \in Call : AtWork(g)' = AtWork(g) /\ Stray(g)' = Stray(g)
    BY <1>1, <1>3, <2>1 DEF AtWork, Stray
  <2> QED BY <2>1, <2>2 DEF IInv, ControlInv, OneProvider
<1>7. OutsideInv' /\ DestroyInv'
  BY <1>1, <1>3, <1>4 DEF IInv, ControlInv, OutsideInv, DestroyInv
<1>8. EpochInv'
  <2>1. ASSUME NEW h \in Call
        PROVE  IF h <= made THEN object'[h].epoch <= made - h + 1
               ELSE object'[h] = NoObject /\ calls[h] = Returned /\ h \notin orphans
    <3>1. CASE h = agents
      <4>1. h <= made /\ made \in Nat BY <1>1, <3>1, EpochFacts DEF IInv, ControlInv, CallsInv
      <4> QED BY <1>1, <1>2, <1>4, <3>1, <4>1
    <3>2. CASE h # agents BY <1>3, <3>2, EpochFacts
    <3> QED BY <3>1, <3>2
  <2> QED BY <1>1, <2>1 DEF EpochInv
<1>9. CallsInv'
  <2>1. \A c \in Call : calls[c].epoch \in Nat BY <1>1 DEF TypeOK, CallState
  <2>2. ASSUME NEW c \in Call, calls[c].at = "teardown", calls[c].of = agents
        PROVE  calls[c].epoch <= object'[agents].epoch
    <3>1. agents # 0 /\ calls[c].epoch <= object[agents].epoch
      BY <1>1, <2>2 DEF IInv, ControlInv, CallsInv
    <3> QED BY <1>2, <1>4, <2>1, <3>1
  <2> QED BY <1>1, <2>2 DEF IInv, ControlInv, CallsInv
<1>10. StopInv'
  <2>1. \A c \in Call : calls[c].epoch \in Nat BY <1>1 DEF TypeOK, CallState
  <2>2. ASSUME command = "stop", NEW c \in Call, calls[c].at = "teardown", calls[c].op = "start",
               calls[c].of = agents
        PROVE  calls[c].epoch < object'[agents].epoch
    <3>1. agents # 0 /\ calls[c].epoch < object[agents].epoch
      BY <1>1, <2>2 DEF IInv, ControlInv, CallsInv, StopInv
    <3> QED BY <1>2, <1>4, <2>1, <3>1
  <2> QED BY <1>1, <1>4, <2>2 DEF IInv, ControlInv, StopInv
<1>11. cut' = cut \cup (IF agents # 0 /\ object[agents].stage = "marking"
                        THEN object[agents].seen ELSE {})
  BY DEF Destroy, CutOff
<1>12. MailInv' BY <1>1, <1>4, <1>11, NotMarking DEF mail
<1>13. TypeOK'
  <2>1. agents # 0 => object[agents].seen \in SUBSET Message BY <1>2 DEF Sound, Object
  <2> QED BY <1>1, <1>3, <1>11, <2>1 DEF TypeOK, mail
<1> QED BY <1>5, <1>6, <1>7, <1>8, <1>9, <1>10, <1>12, <1>13 DEF IInv, ControlInv

LEMMA DestroyedStep == ASSUME IInv, Destroyed PROVE IInv'
<1>1. /\ TypeOK /\ MaxCalls \in Nat /\ destroy = "waiting" /\ agents' = 0
      /\ agents # 0 => /\ agents \in Call /\ object[agents].stage = "none"
                       /\ object[agents].live = 0
      /\ destroy' = IF agents # 0 /\ object[agents].lost > 0 THEN "rejected" ELSE "resolved"
      /\ UNCHANGED <<mail, cut, missed, object, revision, calls, made, command, orphans>>
      /\ \A g \in Call : g # 0
  BY CallsAssumption DEF IInv, Destroyed, TornDown, Call, TypeOK
<1>2. ObjectsInv' /\ InsideInv' BY <1>1 DEF IInv, ControlInv, ObjectsInv, InsideInv
<1>3. OneProvider'
  <2>1. \A g \in Call : AtWork(g)' = AtWork(g) /\ (Stray(g) => Stray(g)')
    BY <1>1 DEF AtWork, Stray
  <2> QED BY <1>1, <2>1 DEF IInv, ControlInv, OneProvider
<1>9. OutsideInv' /\ DestroyInv'
  <2>1. agents # 0 => ~object[agents].running /\ ~object[agents].watched
    BY <1>1 DEF IInv, ControlInv, DestroyInv, ObjectsInv, Sound
  <2> QED BY <1>1, <2>1 DEF IInv, ControlInv, OutsideInv, DestroyInv
<1>4. EpochInv' BY <1>1 DEF IInv, ControlInv, EpochInv
<1>5. CallsInv'
  <2>1. 0 <= made /\ 0 \notin orphans BY <1>1, EpochFacts DEF TypeOK
  <2> QED BY <1>1, <2>1 DEF IInv, ControlInv, CallsInv
<1>6. StopInv'
  <2>1. \A c \in Call : calls[c].at = "teardown" => calls[c].of # 0
    BY <1>1 DEF IInv, ControlInv, CallsInv
  <2> QED BY <1>1, <2>1 DEF IInv, ControlInv, StopInv
<1>7. MailInv' BY <1>1, NotMarking DEF mail
<1>8. TypeOK' BY <1>1 DEF TypeOK, mail
<1> QED BY <1>2, <1>3, <1>4, <1>5, <1>6, <1>7, <1>8, <1>9 DEF IInv, ControlInv

\* The control part of the invariant in a process that has just started.
Started ==
  /\ made \in Nat /\ agents = 0 /\ revision = 0 /\ command = "none" /\ destroy = "no"
  /\ object = [g \in Call |-> NoObject] /\ calls = [c \in Call |-> Returned]
  /\ \A g \in orphans : g \in Call /\ g <= made

LEMMA FreshProcess == Started => ControlInv
<1> SUFFICES ASSUME Started PROVE ControlInv OBVIOUS
<1> USE DEF Started
<1>1. /\ Sound(NoObject) /\ NoObject.stage = "none" /\ NoObject.live = 0 /\ NoObject.lost = 0
      /\ NoObject.epoch = 0 /\ Returned.at = "none" /\ ~NoObject.watched
  BY FreshFacts DEF NoObject, Returned
<1>2. /\ \A g \in Call : g \in Nat \ {0} /\ object[g] = NoObject /\ calls[g] = Returned
  BY CallsAssumption DEF Call
<1>3. ObjectsInv /\ InsideInv /\ OutsideInv /\ DestroyInv /\ StopInv
  BY <1>1, <1>2 DEF ObjectsInv, InsideInv, OutsideInv, DestroyInv, StopInv
<1>4. EpochInv
  <2>1. \A g \in Call : IF g <= made THEN object[g].epoch <= made - g + 0
                        ELSE object[g] = NoObject /\ calls[g] = Returned /\ g \notin orphans
    BY <1>1, <1>2
  <2> QED BY <2>1 DEF EpochInv
<1>5. CallsInv BY <1>1, <1>2 DEF CallsInv
<1>6. OneProvider
  <2>1. \A g \in Call : AtWork(g) => Stray(g) BY <1>1, <1>2 DEF AtWork, Stray
  <2> QED BY <1>1, <1>2, <2>1 DEF OneProvider
<1> QED BY <1>3, <1>4, <1>5, <1>6 DEF ControlInv

LEMMA CrashStep == ASSUME IInv, Crash PROVE IInv'
<1>1. /\ TypeOK /\ agents' = 0 /\ revision' = 0 /\ command' = "none" /\ destroy' = "no"
      /\ object' = [g \in Call |-> NoObject] /\ calls' = [c \in Call |-> Returned]
      /\ orphans' = orphans \cup {g \in Call : object[g].live + object[g].lost > 0}
      /\ UNCHANGED <<mail, missed, made>> /\ made \in Nat /\ 0 \in 0..MaxCalls
      /\ cut' = cut \cup (IF agents # 0 /\ object[agents].stage = "marking"
                          THEN object[agents].seen ELSE {})
  BY CallsAssumption DEF IInv, Crash, CutOff, TypeOK
<1>2. ControlInv'
  <2>1. ASSUME NEW g \in orphans' PROVE g \in Call /\ g <= made
    <3>1. g \in Call BY <1>1 DEF TypeOK
    <3>2. ~(g <= made) => g \notin orphans /\ object[g].live + object[g].lost = 0
      BY <3>1, EpochFacts DEF NoObject
    <3> QED BY <1>1, <3>1, <3>2
  <2>2. Started' BY <1>1, <2>1 DEF Started
  <2> QED BY <2>2, FreshProcess, PTL
<1>3. MailInv' BY <1>1, NotMarking DEF mail
<1>4. TypeOK'
  <2>1. agents # 0 => object[agents].seen \in SUBSET Message
    BY <1>1, CallsAssumption DEF TypeOK, Call, Object
  <2> QED BY <1>1, <2>1, FreshFacts DEF TypeOK, mail, Sound
<1> QED BY <1>2, <1>3, <1>4 DEF IInv

LEMMA InitIInv == Init => IInv
<1> SUFFICES ASSUME Init PROVE IInv OBVIOUS
<1>1. 0 \in 0..MaxCalls /\ made \in Nat BY CallsAssumption DEF Init
<1>2. ControlInv BY <1>1, FreshProcess DEF Init, Started
<1>3. MailInv
  BY DEF Init, MailInv, MessagesInv, MessagesAreAnswered, ReadIsAnswered, AnsweredAgain
<1>4. TypeOK BY <1>1, FreshFacts DEF Init, TypeOK, Sound
<1> QED BY <1>2, <1>3, <1>4 DEF IInv

-----------------------------------------------------------------------------
\* The invariant is kept by every step ...
LEMMA IInvStep == IInv /\ [Next]_vars => IInv'
<1> SUFFICES ASSUME IInv, [Next]_vars PROVE IInv' OBVIOUS
<1>1. CASE \E op \in {"spawn", "start", "stop"} : Invoke(op)
  BY <1>1, InterruptStep, NothingToInterruptStep
<1>2. CASE \E c \in Call : CallStep(c)
  BY <1>2, TeardownOverStep, TurnsOverStep, CreateStep, UpsertFailsStep, InitialSentStep,
     InitialFailsStep
  DEF CallStep
<1>3. CASE \E m \in Message : Deliver(m) BY <1>3, DeliverStep
<1>4. CASE \E g \in Call : Tick(g) BY <1>4, TickStep
<1>5. CASE \E g \in Call : AbandonedSettles(g) BY <1>5, AbandonedStep
<1>6. CASE Destroy \/ Destroyed \/ Crash BY <1>6, DestroyStep, DestroyedStep, CrashStep
<1>7. CASE UNCHANGED vars
  BY <1>7
  DEF vars, IInv, TypeOK, ControlInv, ObjectsInv, InsideInv, OutsideInv, DestroyInv, EpochInv,
      CallsInv, OneProvider, AtWork, Stray, StopInv, MailInv, MessagesInv, MessagesAreAnswered,
      ReadIsAnswered, AnsweredAgain
<1> QED BY <1>1, <1>2, <1>3, <1>4, <1>5, <1>6, <1>7 DEF Next, Work

\* ... and holds in every reachable state.
LEMMA Invariance == Spec => []IInv
<1>1. IInv /\ [Next]_vars => IInv' BY IInvStep
<1> QED BY <1>1, InitIInv, PTL DEF Spec

-----------------------------------------------------------------------------
(* The theorems.                                                           *)

\* A participant has one provider at most, at work or lost; a stop that has
\* returned holds, whatever was under way when it was called; and a destroy
\* that reports success leaves no provider behind.  The agents that their own
\* spawn has dropped and the providers of a dead process are not counted.
THEOREM ProvidersCorrect == Spec => []ProvidersAreSound
<1>1. IInv => ProvidersAreSound
  <2> SUFFICES ASSUME IInv PROVE StopHolds /\ DestroyHolds
    BY DEF ProvidersAreSound, IInv, ControlInv
  <2>1. \A g \in Call : /\ g \in Nat \ {0} /\ Sound(object[g]) /\ object[g].live \in Nat
                        /\ object[g].lost \in Nat
    BY CallsAssumption DEF IInv, ControlInv, ObjectsInv, Sound, Object, Call
  <2>2. StopHolds
    <3> SUFFICES ASSUME command = "stop", \A c \in Call : calls[c].at = "none", NEW g \in Call,
                        ~Stray(g)
        PROVE  object[g].stage = "none" /\ object[g].live = 0
      BY DEF StopHolds
    <3>1. CASE g # agents BY <3>1 DEF IInv, ControlInv, OutsideInv, Stray
    <3>2. CASE g = agents BY <2>1, <3>2 DEF IInv, ControlInv, StopInv, Sound
    <3> QED BY <3>1, <3>2
  <2>3. DestroyHolds
    <3> SUFFICES ASSUME destroy = "resolved", NEW g \in Call, AtWork(g) PROVE Stray(g)
      BY DEF DestroyHolds
    <3>1. g # agents BY <2>1 DEF IInv, ControlInv, DestroyInv
    <3>2. ~object[g].running => object[g].live = 0 /\ object[g].lost = 0
      BY <2>1, <3>1 DEF IInv, ControlInv, OutsideInv
    <3> QED BY <3>1, <3>2 DEF AtWork, Stray
  <2> QED BY <2>2, <2>3
<1> QED BY <1>1, Invariance, PTL

\* A message is marked read only when it has been shown and the replies sent,
\* and answered again only when a turn that had replied could not mark it.
THEOREM AnswersCorrect == Spec => []MessagesAreAnswered
<1>1. IInv => MessagesAreAnswered BY DEF IInv, MailInv
<1> QED BY <1>1, Invariance, PTL

-----------------------------------------------------------------------------
(***************************************************************************)
(* The files a message of the relay is stored in.  writeFilesAtomically    *)
(* writes its copies, any number of them and whichever exist before.       *)
(*                                                                         *)
(* The inductive invariant says of every file that no rollback step has    *)
(* reached yet how its destination follows from whether it was moved aside *)
(* and put into place (Follows); how far each phase has come; and of the   *)
(* files a rollback has passed, that they are as they were unless a step   *)
(* failed, and that their old content exists in any case.                  *)
(***************************************************************************)
CONSTANTS N, Existing
VARIABLES dest, temp, backup, placed, pc, at, broken

Copies == INSTANCE AtomicWrite

Follows(f) ==
  /\ f \in backup => f \in Existing
  /\ f \in Existing /\ f \notin backup => f \notin placed
  /\ dest[f] = IF f \in placed THEN "new" ELSE IF f \in backup THEN "none" ELSE Copies!Before[f]

Kept(f) == f \in Existing => dest[f] = "old" \/ f \in backup

Phases ==
  /\ pc = "staging" =>
       /\ at \in Copies!File /\ ~broken /\ backup = {} /\ placed = {}
       /\ \A f \in Copies!File : Follows(f)
  /\ pc = "moving" =>
       /\ at \in Copies!File /\ ~broken /\ placed = {}
       /\ \A f \in Copies!File : Follows(f) /\ (f \in backup <=> f \in Existing /\ f < at)
  /\ pc = "placing" =>
       /\ at \in Copies!File /\ ~broken /\ backup = Existing
       /\ \A f \in Copies!File : Follows(f) /\ (f \in placed <=> f < at)
  /\ pc = "cleaning" => at \in Copies!File
  /\ pc \in {"cleaning", "written"} => dest = Copies!After
  /\ pc = "rollback" =>
       /\ at \in 0..N
       /\ \A f \in Copies!File : f <= at => Follows(f)
       /\ \A f \in Copies!File : f > at => Kept(f) /\ (~broken => dest[f] = Copies!Before[f])
  /\ pc = "thrown" => dest = Copies!Before
  /\ pc \in {"broken", "dead"} => Copies!Recoverable

CopiesInv == Copies!TypeOK /\ Phases

\* The files as they are before the first write satisfy the invariant.
LEMMA InitCopies ==
  ASSUME Copies!FilesAreFiles, Copies!Init PROVE CopiesInv
<1> USE DEF Copies!FilesAreFiles, Copies!Init, Copies!File
<1>1. Copies!TypeOK
  <2>1. dest \in [1..N -> {"old", "new", "none"}] BY DEF Copies!Before
  <2>2. temp \subseteq 1..N /\ backup \subseteq 1..N /\ placed \subseteq 1..N OBVIOUS
  <2>3. at \in 0..(N + 1) OBVIOUS
  <2>4. broken \in BOOLEAN BY Zenon
  <2>5. QED BY <2>1, <2>2, <2>3, <2>4 DEF Copies!TypeOK
<1>2. \A f \in Copies!File : Follows(f) BY DEF Follows, Copies!Before
<1>3. Phases BY <1>2 DEF Phases
<1>4. QED BY <1>1, <1>3 DEF CopiesInv

\* A file whose destination follows the rule is recoverable.
LEMMA FollowsIsKept ==
  ASSUME NEW f \in Copies!File, Follows(f) PROVE Kept(f)
BY DEF Follows, Kept, Copies!Before, Copies!File

\* Every step keeps the types.
LEMMA NextCopiesTyped ==
  ASSUME Copies!FilesAreFiles, CopiesInv, [Copies!Next]_(Copies!vars) PROVE Copies!TypeOK'
<1> USE DEF Copies!FilesAreFiles, CopiesInv, Copies!TypeOK, Copies!File
<1>1. CASE Copies!Stage BY <1>1 DEF Copies!Stage, Copies!Advance
<1>2. CASE Copies!StageFails BY <1>2 DEF Copies!StageFails, Copies!RollBack
<1>3. CASE Copies!MoveAside
  <2>1. dest' \in [1..N -> {"old", "new", "none"}] /\ backup' \subseteq 1..N
    BY <1>3 DEF Copies!MoveAside
  <2>2. pc' \in {"moving", "placing"} /\ at' \in 0..(N + 1)
    BY <1>3 DEF Copies!MoveAside, Copies!Advance
  <2>3. QED BY <1>3, <2>1, <2>2 DEF Copies!MoveAside
<1>4. CASE Copies!Place BY <1>4 DEF Copies!Place, Copies!Advance
<1>5. CASE Copies!RenameFails BY <1>5 DEF Copies!RenameFails, Copies!RollBack
<1>6. CASE Copies!Clean BY <1>6 DEF Copies!Clean, Copies!Advance
<1>7. CASE Copies!Undo BY <1>7 DEF Copies!Undo, Copies!Undone
<1>8. CASE Copies!Throw BY <1>8 DEF Copies!Throw
<1>9. CASE Copies!Die BY <1>9 DEF Copies!Die
<1>10. CASE UNCHANGED Copies!vars BY <1>10 DEF Copies!vars
<1>11. QED BY <1>1, <1>2, <1>3, <1>4, <1>5, <1>6, <1>7, <1>8, <1>9, <1>10 DEF Copies!Next

\* Every step keeps the rules of the phase the write is in.
LEMMA NextPhases ==
  ASSUME Copies!FilesAreFiles, CopiesInv, [Copies!Next]_(Copies!vars) PROVE Phases'
<1>0. Copies!TypeOK /\ Copies!TypeOK' /\ Phases BY NextCopiesTyped DEF CopiesInv
<1> USE <1>0 DEF Copies!FilesAreFiles, Copies!File
\* While every file follows the rule, a rollback finds what it needs.
<1>a. ASSUME \A f \in Copies!File : Follows(f), Copies!RollBack,
             UNCHANGED <<dest, backup, placed, broken>>
      PROVE Phases'
  BY <1>a DEF Copies!RollBack, Phases, Follows
<1>1. CASE Copies!Stage
  <2>1. pc = "staging" /\ at \in Copies!File /\ UNCHANGED <<dest, backup, placed, broken>>
    BY <1>1 DEF Copies!Stage
  <2>2. CASE at < N
    BY <1>1, <2>1, <2>2 DEF Copies!Stage, Copies!Advance, Phases, Follows, Copies!Before
  <2>3. CASE ~(at < N)
    BY <1>1, <2>1, <2>3 DEF Copies!Stage, Copies!Advance, Phases, Follows, Copies!Before
  <2>4. QED BY <2>2, <2>3
<1>2. CASE Copies!StageFails
  BY <1>a, <1>2 DEF Copies!StageFails, Phases
<1>3. CASE Copies!MoveAside
  <2>1. pc = "moving" /\ at \in Copies!File /\ ~broken /\ placed = {} /\ UNCHANGED <<placed, broken>>
    BY <1>3 DEF Copies!MoveAside, Phases
  <2>2. \A f \in Copies!File : Follows(f)' /\ (f \in backup' <=> f \in Existing /\ f < at + 1)
    <3> SUFFICES ASSUME NEW f \in Copies!File
                 PROVE Follows(f)' /\ (f \in backup' <=> f \in Existing /\ f < at + 1)
      OBVIOUS
    <3>1. Follows(f) /\ (f \in backup <=> f \in Existing /\ f < at) BY <2>1 DEF Phases
    <3>2. Follows(at) /\ at \notin backup BY <2>1 DEF Phases
    <3>3. CASE f = at
      BY <1>3, <2>1, <3>1, <3>3 DEF Copies!MoveAside, Follows, Copies!Before, Copies!TypeOK
    <3>4. CASE f # at
      BY <1>3, <2>1, <3>1, <3>4 DEF Copies!MoveAside, Follows, Copies!Before, Copies!TypeOK
    <3>5. QED BY <3>3, <3>4
  <2>3. CASE at < N
    BY <1>3, <2>1, <2>2, <2>3 DEF Copies!MoveAside, Copies!Advance, Phases
  <2>4. CASE ~(at < N)
    <3>1. pc' = "placing" /\ at' = 1 BY <1>3, <2>4 DEF Copies!MoveAside, Copies!Advance
    <3>2. at = N BY <2>1, <2>4
    <3>2a. \A f \in Copies!File : f \in backup' <=> f \in Existing BY <2>2, <3>2
    <3>2b. backup' \subseteq Copies!File BY <1>0 DEF Copies!TypeOK
    <3>2c. backup' = Existing BY <3>2a, <3>2b
    <3>3. QED BY <2>1, <2>2, <3>1, <3>2c DEF Phases
  <2>5. QED BY <2>3, <2>4
<1>4. CASE Copies!Place
  <2>1. pc = "placing" /\ at \in Copies!File /\ ~broken /\ backup = Existing /\ UNCHANGED <<backup, broken>>
    BY <1>4 DEF Copies!Place, Phases
  <2>2. \A f \in Copies!File : Follows(f)' /\ (f \in placed' <=> f < at + 1)
    BY <1>4, <2>1 DEF Copies!Place, Phases, Follows, Copies!Before, Copies!TypeOK
  <2>3. CASE at < N
    BY <1>4, <2>1, <2>2, <2>3 DEF Copies!Place, Copies!Advance, Phases
  <2>4. CASE ~(at < N)
    <3>1. pc' = "cleaning" /\ at' = 1 BY <1>4, <2>4 DEF Copies!Place, Copies!Advance
    <3>2. \A f \in Copies!File : dest'[f] = "new" BY <2>1, <2>2, <2>4 DEF Follows
    <3>3. dest' = Copies!After BY <3>2 DEF Copies!After, Copies!TypeOK
    <3>4. QED BY <3>1, <3>3 DEF Phases
  <2>5. QED BY <2>3, <2>4
<1>5. CASE Copies!RenameFails
  BY <1>a, <1>5 DEF Copies!RenameFails, Phases
<1>6. CASE Copies!Clean
  BY <1>6 DEF Copies!Clean, Copies!Advance, Phases
<1>7. CASE Copies!Undo
  <2>1. /\ pc = "rollback" /\ pc' = "rollback" /\ at \in Copies!File /\ at' = at - 1
        /\ Follows(at)
    BY <1>7 DEF Copies!Undo, Phases
  <2>2. PICK removed, restored \in BOOLEAN :
          /\ dest' = [dest EXCEPT ![at] = Copies!Undone(at, removed, restored)]
          /\ placed' = IF removed THEN placed \ {at} ELSE placed
          /\ backup' = IF restored THEN backup \ {at} ELSE backup
          /\ broken' = (broken \/ (at \in placed /\ ~removed) \/ (at \in backup /\ ~restored))
    BY <1>7 DEF Copies!Undo
  <2>3. \A f \in Copies!File : f # at => /\ dest'[f] = dest[f] /\ (f \in placed' <=> f \in placed)
                                  /\ (f \in backup' <=> f \in backup)
    BY <2>1, <2>2 DEF Copies!TypeOK
  <2>4. \A f \in Copies!File : f <= at' => Follows(f)'
    BY <2>1, <2>3 DEF Phases, Follows, Copies!Before
  <2>5. dest'[at] = Copies!Undone(at, removed, restored) BY <2>1, <2>2 DEF Copies!TypeOK
  <2>6. at \in Existing => dest'[at] = "old" \/ at \in backup'
    <3>1. CASE at \in backup
      <4>1. CASE restored BY <2>5, <3>1, <4>1 DEF Copies!Undone
      <4>2. CASE ~restored BY <2>2, <3>1, <4>2
      <4>3. QED BY <4>1, <4>2
    <3>2. CASE at \notin backup
      <4>1. at \in Existing => dest[at] = "old" /\ at \notin placed
        BY <2>1, <3>2 DEF Follows, Copies!Before
      <4>2. at \in Existing => dest'[at] = "old" BY <2>5, <3>2, <4>1 DEF Copies!Undone
      <4>3. QED BY <4>2
    <3>3. QED BY <3>1, <3>2
  <2>7. ~broken' => dest'[at] = Copies!Before[at]
    <3> SUFFICES ASSUME ~broken' PROVE dest'[at] = Copies!Before[at] OBVIOUS
    <3>1. (at \in placed => removed) /\ (at \in backup => restored) BY <2>2
    <3>2. QED BY <2>1, <2>5, <3>1 DEF Copies!Undone, Follows, Copies!Before
  <2>8. ~broken' => ~broken BY <2>2
  <2>9. \A f \in Copies!File : f > at' => Kept(f)' /\ (~broken' => dest'[f] = Copies!Before[f])
    <3> SUFFICES ASSUME NEW f \in Copies!File, f > at'
                 PROVE Kept(f)' /\ (~broken' => dest'[f] = Copies!Before[f])
      OBVIOUS
    <3>1. CASE f = at BY <2>6, <2>7, <3>1 DEF Kept
    <3>2. CASE f > at
      <4>1. Kept(f) /\ (~broken => dest[f] = Copies!Before[f]) BY <2>1, <3>2 DEF Phases
      <4>2. dest'[f] = dest[f] /\ (f \in backup' <=> f \in backup) BY <2>1, <2>3, <3>2
      <4>3. QED BY <2>8, <4>1, <4>2 DEF Kept
    <3>3. QED BY <2>1, <3>1, <3>2
  <2>10. QED BY <2>1, <2>4, <2>9 DEF Phases
<1>8. CASE Copies!Throw
  <2>1. pc = "rollback" /\ at = 0 /\ dest' = dest /\ backup' = backup BY <1>8 DEF Copies!Throw
  <2>2. \A f \in Copies!File : Kept(f) /\ (~broken => dest[f] = Copies!Before[f]) BY <2>1 DEF Phases
  <2>3. CASE broken'
    BY <1>8, <2>1, <2>2, <2>3 DEF Copies!Throw, Phases, Copies!Recoverable, Kept
  <2>4. CASE ~broken'
    <3>1. pc' = "thrown" /\ ~broken BY <1>8, <2>4 DEF Copies!Throw
    <3>2. dest' = Copies!Before BY <2>1, <2>2, <3>1 DEF Copies!TypeOK, Copies!Before
    <3>3. QED BY <3>1, <3>2 DEF Phases
  <2>5. QED BY <2>3, <2>4
<1>9. CASE Copies!Die
  <2>1. Copies!Recoverable
    <3>1. CASE pc \in {"staging", "moving", "placing"}
      BY <3>1, FollowsIsKept DEF Phases, Copies!Recoverable, Kept
    <3>2. CASE pc = "rollback"
      <4>1. \A f \in Copies!File : Kept(f) BY <3>2, FollowsIsKept DEF Phases
      <4>2. QED BY <4>1 DEF Copies!Recoverable, Kept
    <3>3. CASE pc = "cleaning"
      BY <3>3 DEF Phases, Copies!Recoverable
    <3>4. QED BY <1>9, <3>1, <3>2, <3>3 DEF Copies!Die, Copies!TypeOK
  <2>2. QED BY <1>9, <2>1 DEF Copies!Die, Phases, Copies!Recoverable
<1>10. CASE UNCHANGED Copies!vars
  BY <1>10 DEF Copies!vars, Phases, Follows, Kept, Copies!Recoverable
<1>11. QED BY <1>1, <1>2, <1>3, <1>4, <1>5, <1>6, <1>7, <1>8, <1>9, <1>10 DEF Copies!Next

\* The invariant holds in every reachable state.
LEMMA CopiesInvariance ==
  ASSUME Copies!FilesAreFiles PROVE Copies!Spec => []CopiesInv
<1>1. Copies!Init => CopiesInv BY InitCopies
<1>2. CopiesInv /\ [Copies!Next]_(Copies!vars) => CopiesInv'
  BY NextCopiesTyped, NextPhases DEF CopiesInv
<1>3. QED BY <1>1, <1>2, PTL DEF Copies!Spec

\* Every variable of a write keeps its type.
THEOREM CopiesTyped ==
  ASSUME Copies!FilesAreFiles PROVE Copies!Spec => []Copies!TypeOK
<1>1. CopiesInv => Copies!TypeOK BY DEF CopiesInv
<1>2. QED BY <1>1, CopiesInvariance, PTL

\* writeFilesAtomically either puts every file into place or, when it throws an
\* ordinary error, leaves every destination as it was.
THEOREM AllOrNothingCorrect ==
  ASSUME Copies!FilesAreFiles PROVE Copies!Spec => []Copies!AllOrNothing
<1>1. CopiesInv => Copies!AllOrNothing BY DEF CopiesInv, Phases, Copies!AllOrNothing
<1>2. QED BY <1>1, CopiesInvariance, PTL

\* Whichever rollback step fails, and wherever the process dies, the old
\* contents are at their destinations or in their backups, or the new
\* generation is complete.
THEOREM RecoverableCorrect ==
  ASSUME Copies!FilesAreFiles PROVE Copies!Spec => []Copies!Recoverable
<1>1. CopiesInv /\ Copies!FilesAreFiles => Copies!Recoverable
  <2> SUFFICES ASSUME CopiesInv, Copies!FilesAreFiles PROVE Copies!Recoverable OBVIOUS
  <2>1. CASE pc \in {"staging", "moving", "placing"}
    <3>1. \A f \in Copies!File : Kept(f) BY <2>1, FollowsIsKept DEF CopiesInv, Phases
    <3>2. QED BY <3>1 DEF Copies!Recoverable, Kept, Copies!FilesAreFiles, Copies!File
  <2>2. CASE pc = "rollback"
    <3>1. \A f \in Copies!File : Kept(f)
      BY <2>2, FollowsIsKept DEF CopiesInv, Phases, Copies!File, Copies!FilesAreFiles
    <3>2. QED BY <3>1 DEF Copies!Recoverable, Kept, Copies!FilesAreFiles, Copies!File
  <2>3. CASE pc = "thrown"
    BY <2>3 DEF CopiesInv, Phases, Copies!Recoverable, Copies!Before, Copies!FilesAreFiles, Copies!File
  <2>4. CASE pc \in {"cleaning", "written", "broken", "dead"}
    BY <2>4 DEF CopiesInv, Phases, Copies!Recoverable
  <2>5. QED BY <2>1, <2>2, <2>3, <2>4 DEF CopiesInv, Copies!TypeOK
<1>2. QED BY <1>1, CopiesInvariance, PTL
=============================================================================
