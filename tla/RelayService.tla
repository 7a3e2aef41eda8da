---------------------------- MODULE RelayService ----------------------------
(***************************************************************************)
(* The relay host of the main process, which an extension registers and    *)
(* unregisters at any time (ipc/relay.ts), and the application unregisters *)
(* when it quits.  WorkspaceRelayService (relay/workspaceRelayService.ts)  *)
(* keeps one relay runtime per workspace, created on demand; a generation  *)
(* guards what was suspended when the service stopped.  Beside the calls   *)
(* of the renderer, each saved canvas is projected to the participants of  *)
(* its workspace (canvasProjection.ts), by an effect of the queue in       *)
(* storage/workspaceLatestEffectQueue.ts.                                  *)
(*                                                                         *)
(* What a runtime does is the subject of RelayRuntime; here it is created, *)
(* published and destroyed.                                                *)
(***************************************************************************)
EXTENDS Integers

CONSTANTS Workspace,
          Call,      \* the calls of the renderer for one workspace
          MaxRuntimes, MaxRegistrations, MaxStops, MaxSaves  \* bounds of the model

ASSUME BoundsAssumption == {MaxRuntimes, MaxRegistrations, MaxStops, MaxSaves} \subseteq Nat

VARIABLES
  host,      \* registered or not, number of registrations, service generation
  instance,  \* workspace -> its runtime in the map, 0 when there is none
  runtime,   \* the runtimes
  call,      \* workspace -> call -> where it waits
  stop,      \* calls of stopAll
  begun, saved, \* workspace -> canvas saves that have begun, and ended
  token,     \* workspace -> save -> registration it captured, or 0
  pending,   \* workspace -> save whose projection waits, or 0
  effect,    \* workspace -> drains of its projection queue
  shown,     \* workspace -> newest save of which something is projected
  held,      \* workspace -> save that its participants reflect
  stray,     \* workspace -> writes that a stop has aborted and that may still land
  complete,  \* workspace -> newest save that is projected
  lost       \* workspace -> newest save whose projection failed

runtimes == <<instance, runtime>>
lane == <<begun, saved, token>>
outcome == <<shown, held, stray, complete, lost>>
vars == <<host, runtimes, call, stop, lane, pending, effect, outcome>>

Runtime == 1..MaxRuntimes
Stop == 1..MaxStops
Save == 1..MaxSaves
Registration == 0..MaxRegistrations
Drain == {1, 2}   \* the code never has a second one
NoEffect == [n |-> 0, at |-> "idle"]
NoCall == [at |-> "idle", gen |-> 0, with |-> 0]
NoRuntime == [state |-> "none", gen |-> 0]

TypeOK ==
  /\ host \in [on: BOOLEAN, number: Registration, gen: Registration]
  /\ instance \in [Workspace -> Runtime \cup {0}]
  /\ runtime \in [Runtime -> [state: {"none", "live", "destroying", "gone", "failed"},
                              gen: Registration]]
  /\ call \in [Workspace -> [Call -> [at: {"idle", "init", "got"}, gen: Registration,
                                      with: Runtime \cup {0}]]]
  /\ stop \in [Stop -> [at: {"none", "waiting", "resolved", "rejected"},
                        awaits: SUBSET Runtime, gen: Registration]]
  /\ {begun, saved, pending, shown, held, complete, lost} \subseteq [Workspace -> Save \cup {0}]
  /\ stray \in [Workspace -> SUBSET Save]
  /\ token \in [Workspace -> [Save -> Registration]]
  /\ effect \in [Workspace -> [Drain -> [n: Save \cup {0},
                    at: {"idle", "path", "init", "got", "writing"}]]]

Init ==
  /\ host = [on |-> FALSE, number |-> 0, gen |-> 0]
  /\ instance = [w \in Workspace |-> 0]
  /\ runtime = [i \in Runtime |-> NoRuntime]
  /\ call = [w \in Workspace |-> [c \in Call |-> NoCall]]
  /\ stop = [s \in Stop |-> [at |-> "none", awaits |-> {}, gen |-> 0]]
  /\ begun = [w \in Workspace |-> 0] /\ saved = begun
  /\ token = [w \in Workspace |-> [n \in Save |-> 0]]
  /\ pending = begun
  /\ effect = [w \in Workspace |-> [d \in Drain |-> NoEffect]]
  /\ shown = begun /\ held = begun /\ complete = begun /\ lost = begun
  /\ stray = [w \in Workspace |-> {}]

-----------------------------------------------------------------------------
(* Guards.  The host generation, the service generation and the active     *)
(* flag of the queue change together, so that a registration stands for    *)
(* the first and the last of them.                                         *)

ServiceActive(gen) == host.on /\ host.gen = gen

\* What the projection of save n of w was captured under still holds.
TokenActive(w, n) == host.on /\ token[w][n] = host.number

-----------------------------------------------------------------------------
(* Runtimes.                                                               *)

\* getWorkspaceRelayForGuard, once the relay it made has been initialized:
\* another caller may have published a runtime meanwhile; else a runtime is
\* made and published.  (A published runtime is always of the current
\* generation: see RuntimesAreOwned.)
Create(w, i) ==
  /\ runtime[i].state = "none" /\ \A j \in 1..(i - 1) : runtime[j].state # "none"
  /\ runtime' = [runtime EXCEPT ![i] = [state |-> "live", gen |-> host.gen]]
  /\ instance' = [instance EXCEPT ![w] = i]

ObtainMutant(w, i) == Create(w, i)
Obtain(w, i) ==
  \/ instance[w] # 0 /\ i = instance[w] /\ UNCHANGED runtimes
  \/ instance[w] = 0 /\ Create(w, i)

\* stopAll: what the map holds is disposed of; pendingDisposals are awaited
\* with it.
Published == {i \in Runtime : \E w \in Workspace : instance[w] = i}
Disposing == {i \in Runtime : runtime[i].state = "destroying"}
Settled(i) == runtime[i].state \in {"gone", "failed"}

AwaitedMutant == Published
Awaited == Published \cup Disposing

\* unregisterRelayIPC: by the extension, which does not wait for it, or by
\* the application.  An effect is aborted while its write is under way
\* (awaitGuarded does not wait for it), which may land later.
Writing(w) == {effect[w][d].n : d \in {e \in Drain : effect[w][e].at = "writing"}}
Unregister(s) ==
  /\ stop[s].at = "none" /\ \A t \in 1..(s - 1) : stop[t].at # "none"
  /\ host' = [host EXCEPT !.on = FALSE]
  /\ pending' = [w \in Workspace |-> 0]
  /\ instance' = [w \in Workspace |-> 0]
  /\ runtime' = [i \in Runtime |-> IF i \in Published
                                   THEN [runtime[i] EXCEPT !.state = "destroying"] ELSE runtime[i]]
  /\ stop' = [stop EXCEPT ![s] = [at |-> "waiting", awaits |-> Awaited, gen |-> host.gen]]
  /\ stray' \in {stray, [w \in Workspace |-> stray[w] \cup IF host.on THEN Writing(w) ELSE {}]}
  /\ UNCHANGED <<call, lane, effect, shown, held, complete, lost>>

\* destroy of the runtime, well or with an error.
Destroyed(i) ==
  /\ runtime[i].state = "destroying"
  /\ \E end \in {"gone", "failed"} : runtime' = [runtime EXCEPT ![i].state = end]
  /\ UNCHANGED <<host, instance, call, stop, lane, pending, effect, outcome>>

StopReturns(s) ==
  /\ stop[s].at = "waiting"
  /\ \A i \in stop[s].awaits : Settled(i)
  /\ stop' = [stop EXCEPT ![s].at =
                 IF \E i \in stop[s].awaits : runtime[i].state = "failed"
                 THEN "rejected" ELSE "resolved"]
  /\ UNCHANGED <<host, runtimes, call, lane, pending, effect, outcome>>

\* registerRelayIPC, also of a host that is registered: the queue is
\* deactivated, the service goes on.
Register ==
  /\ host.number < MaxRegistrations
  /\ host' = [on |-> TRUE, number |-> host.number + 1,
              gen |-> IF host.on THEN host.gen ELSE host.gen + 1]
  /\ pending' = [w \in Workspace |-> 0]
  /\ UNCHANGED <<runtimes, call, stop, lane, effect, outcome>>

-----------------------------------------------------------------------------
(* Calls: withWorkspaceRelay.                                              *)

Begin(w, c) ==
  /\ host.on
  /\ call[w][c].at = "idle"
  /\ call' = [call EXCEPT ![w][c] = [at |-> IF instance[w] = 0 THEN "init" ELSE "got",
                                     gen |-> host.gen, with |-> instance[w]]]
  /\ UNCHANGED <<host, runtimes, stop, lane, pending, effect, outcome>>

\* The call's relay is initialized, or is not, or the service has stopped.
CallInit(w, c) ==
  /\ call[w][c].at = "init"
  /\ \/ /\ ServiceActive(call[w][c].gen)
        /\ \E i \in Runtime : /\ Obtain(w, i)
                              /\ call' = [call EXCEPT ![w][c] = [@ EXCEPT !.at = "got", !.with = i]]
     \/ call' = [call EXCEPT ![w][c] = NoCall] /\ UNCHANGED runtimes
  /\ UNCHANGED <<host, stop, lane, pending, effect, outcome>>

\* The call uses its runtime, if the service is still active, and ends when
\* that is over or the service stops.
CallEnds(w, c) ==
  /\ call[w][c].at = "got"
  /\ call' = [call EXCEPT ![w][c] = NoCall]
  /\ UNCHANGED <<host, runtimes, stop, lane, pending, effect, outcome>>

-----------------------------------------------------------------------------
(* Projections.                                                            *)

\* canvas:save captures the registration before it waits for its turn.
SaveBegins(w) ==
  /\ begun[w] < MaxSaves
  /\ begun' = [begun EXCEPT ![w] = @ + 1]
  /\ token' = [token EXCEPT ![w][begun[w] + 1] = IF host.on THEN host.number ELSE 0]
  /\ UNCHANGED <<host, runtimes, call, stop, saved, pending, effect, outcome>>

RunningMutant(w) == FALSE
Running(w) == \E d \in Drain : effect[w][d].at # "idle"

\* The canvas is on disk: its projection is scheduled.  (A save that fails
\* schedules nothing and is left out.)
SaveEnds(w) ==
  LET n == saved[w] + 1 IN
  /\ saved[w] < begun[w]
  /\ saved' = [saved EXCEPT ![w] = n]
  /\ IF ~TokenActive(w, n) THEN UNCHANGED <<pending, effect>>
     ELSE IF Running(w) THEN pending' = [pending EXCEPT ![w] = n] /\ UNCHANGED effect
     ELSE \E d \in Drain : /\ effect[w][d].at = "idle"
                           /\ effect' = [effect EXCEPT ![w][d] = [n |-> n, at |-> "path"]]
                           /\ UNCHANGED pending
  /\ UNCHANGED <<host, runtimes, call, stop, begun, token, outcome>>

At(w, d, where) == effect' = [effect EXCEPT ![w][d].at = where]

\* An effect is over: the drain takes what is pending.
OverMutant(w, d) == effect' = [effect EXCEPT ![w][d] = NoEffect] /\ UNCHANGED pending
Over(w, d) ==
  /\ effect' = [effect EXCEPT ![w][d] = IF pending[w] = 0 THEN NoEffect
                                        ELSE [n |-> pending[w], at |-> "path"]]
  /\ pending' = [pending EXCEPT ![w] = 0]

\* The workspace has been found.
PathFound(w, d) ==
  /\ effect[w][d].at = "path"
  /\ TokenActive(w, effect[w][d].n)
  /\ At(w, d, IF instance[w] = 0 THEN "init" ELSE "got")
  /\ UNCHANGED <<host, runtimes, call, stop, lane, pending, outcome>>

EffectInit(w, d) ==
  /\ effect[w][d].at = "init"
  /\ TokenActive(w, effect[w][d].n)
  /\ \E i \in Runtime : Obtain(w, i)
  /\ At(w, d, "got")
  /\ UNCHANGED <<host, call, stop, lane, pending, outcome>>

\* One participant after the other is written.
Project(w, d) ==
  LET n == effect[w][d].n IN
  /\ effect[w][d].at = "got"
  /\ TokenActive(w, n)
  /\ shown' = [shown EXCEPT ![w] = n] /\ held' = [held EXCEPT ![w] = n]
  /\ At(w, d, "writing")
  /\ UNCHANGED <<host, runtimes, call, stop, lane, pending, stray, complete, lost>>

Projected(w, d) ==
  LET n == effect[w][d].n IN
  /\ effect[w][d].at = "writing"
  /\ TokenActive(w, n)
  /\ complete' = [complete EXCEPT ![w] = n]
  /\ Over(w, d)
  /\ UNCHANGED <<host, runtimes, call, stop, lane, shown, held, stray, lost>>

\* It fails at any await, or finds that its token is no longer active.
EffectFails(w, d) ==
  LET n == effect[w][d].n IN
  /\ effect[w][d].at # "idle"
  /\ lost' = IF TokenActive(w, n) THEN [lost EXCEPT ![w] = n] ELSE lost
  /\ Over(w, d)
  /\ UNCHANGED <<host, runtimes, call, stop, lane, shown, held, stray, complete>>

\* The write of an effect that was aborted by a stop.
StrayLands(w) ==
  /\ \E n \in stray[w] : /\ held' = [held EXCEPT ![w] = n]
                        /\ stray' = [stray EXCEPT ![w] = @ \ {n}]
  /\ UNCHANGED <<host, runtimes, call, stop, lane, pending, effect, shown, complete, lost>>

-----------------------------------------------------------------------------
Effect(w) == \E d \in Drain : \/ PathFound(w, d) \/ EffectInit(w, d) \/ Project(w, d)
                              \/ Projected(w, d) \/ EffectFails(w, d)

Next ==
  \/ Register
  \/ \E s \in Stop : Unregister(s)
  \/ \E s \in Stop : StopReturns(s)
  \/ \E i \in Runtime : Destroyed(i)
  \/ \E w \in Workspace, c \in Call : Begin(w, c) \/ CallInit(w, c) \/ CallEnds(w, c)
  \/ \E w \in Workspace : SaveBegins(w) \/ SaveEnds(w) \/ StrayLands(w)
  \/ \E w \in Workspace : Effect(w)

\* What an effect awaits comes back.
Spec == Init /\ [][Next]_vars /\ \A w \in Workspace : WF_vars(Effect(w))

-----------------------------------------------------------------------------
\* However callers, effects, stops and registrations overlap: every runtime
\* that has not been disposed of is the one its workspace has in the map, and
\* belongs to the current generation.  None is published after a stop by
\* what it interrupted, and none is forgotten by a second caller.
LiveIsPublished ==
  \A i \in Runtime : runtime[i].state = "live" =>
    i \in Published /\ ServiceActive(runtime[i].gen)

\* A caller whose guard still holds has a runtime that is not disposed of.
CallersAreServed ==
  \A w \in Workspace, c \in Call :
    LET i == call[w][c].with IN
    call[w][c].at = "got" /\ ServiceActive(call[w][c].gen)
      => i # 0 /\ instance[w] = i /\ runtime[i].state = "live"

RuntimesAreOwned == TypeOK /\ LiveIsPublished /\ CallersAreServed

\* When stopAll comes back, every runtime of the generations up to its own has
\* been torn down, or has failed to: also those an earlier stop, which
\* nobody waited for, was still destroying.
StopIsComplete ==
  \A s \in Stop : stop[s].at \in {"resolved", "rejected"} =>
    \A i \in Runtime : runtime[i].state # "none" /\ runtime[i].gen <= stop[s].gen => Settled(i)

\* Effects begin to write in the order of the saves, each at most once.
Latest == INSTANCE LatestWrite WITH Path <- Workspace, want <- saved, disk <- shown
EffectsInOrder == Latest!Spec

\* Participants follow the saved canvases in their order: as long as the host
\* stays registered, an older projection never writes after a newer one.
ProjectionsInOrder ==
  [][\A w \in Workspace : held'[w] < held[w] => token[w][held'[w]] # token[w][held[w]]]_vars

\* The same through new registrations (canvas.ts:776, "an older slow sync cannot
\* become the final projection"): a write that was given up can still do that.
NeverAnOlderOne == [][\A w \in Workspace : held'[w] >= held[w]]_vars

\* A saved canvas, or a newer one, is projected in the end, unless its
\* projection fails or the host is registered again or unregistered.
ProjectionArrives ==
  \A w \in Workspace, n \in Save :
    (saved[w] >= n /\ TokenActive(w, n))
      ~> (complete[w] >= n \/ lost[w] >= n \/ ~TokenActive(w, n))
=============================================================================
