------------------------ MODULE RelayService_proofs ------------------------
(***************************************************************************)
(* Proofs about the relay service, for any workspaces and any numbers of   *)
(* calls, runtimes, registrations, stops and saves: runtimes are owned, a  *)
(* stop that has come back is complete, and projections are in order.  The *)
(* inductive invariant adds how generations of runtimes, calls and stops   *)
(* compare with the current one, and how far a drain may be.               *)
(***************************************************************************)
EXTENDS RelayService, TLAPS

\* Nothing is of a generation that has not begun.
GenerationsKnown ==
  /\ host.gen <= host.number
  /\ \A i \in Runtime : runtime[i].gen <= host.gen
  /\ \A w \in Workspace, c \in Call : call[w][c].gen <= host.gen

\* The map holds no runtime that is being disposed of.
PublishedAreLive ==
  \A w \in Workspace : instance[w] # 0 => runtime[instance[w]].state = "live"

\* A stop has ended its generation, and awaits what it has not seen settled.
StopsAwait ==
  \A s \in Stop : stop[s].at # "none" =>
    /\ stop[s].gen <= host.gen
    /\ host.on => stop[s].gen < host.gen
    /\ \A i \in Runtime :
         runtime[i].state # "none" /\ runtime[i].gen <= stop[s].gen
           => Settled(i) \/ (stop[s].at = "waiting" /\ i \in stop[s].awaits)

\* One drain per workspace, with a save that is newer than what has been
\* shown until it writes, and older than the one that is pending.
Busy(w, d) == effect[w][d].at # "idle"
OneDrain == \A w \in Workspace : \A d, e \in Drain : Busy(w, d) /\ Busy(w, e) => d = e
EffectsFollow ==
  \A w \in Workspace, d \in Drain : Busy(w, d) =>
    /\ effect[w][d].n \in 1..saved[w]
    /\ shown[w] <= effect[w][d].n
    /\ effect[w][d].at # "writing" => shown[w] < effect[w][d].n
PendingIsNewer ==
  \A w \in Workspace : pending[w] # 0 =>
    /\ shown[w] < pending[w] /\ pending[w] <= saved[w]
    /\ Running(w)
    /\ \A d \in Drain : Busy(w, d) => effect[w][d].n < pending[w]
LaneInOrder ==
  /\ \A w \in Workspace : shown[w] <= saved[w] /\ saved[w] <= begun[w]
  /\ OneDrain /\ EffectsFollow /\ PendingIsNewer

\* The inductive invariant.
ServiceInv == GenerationsKnown /\ PublishedAreLive /\ LiveIsPublished /\ CallersAreServed
              /\ StopsAwait
IInv == TypeOK /\ ServiceInv /\ LaneInOrder

USE BoundsAssumption DEF Runtime, Stop, Save, Registration, Drain, runtimes, lane, outcome

-----------------------------------------------------------------------------
\* What the arithmetic below needs to know of the types.
LEMMA TypeFacts ==
  ASSUME TypeOK
  PROVE  /\ host \in [on: BOOLEAN, number: Nat, gen: Nat]
         /\ \A i \in Runtime : runtime[i].gen \in Nat
         /\ runtime \in [Runtime -> [state: {"none", "live", "destroying", "gone", "failed"},
                                     gen: Registration]]
         /\ \A w \in Workspace, c \in Call : call[w][c].gen \in Nat
         /\ \A s \in Stop : stop[s].gen \in Nat
         /\ \A w \in Workspace : instance[w] \in Runtime \cup {0}
<1>1. Registration \subseteq Nat
  OBVIOUS
<1> HIDE DEF Registration
<1>2. host \in [on: BOOLEAN, number: Nat, gen: Nat]
  BY <1>1 DEF TypeOK
<1>3. runtime \in [Runtime -> [state: {"none", "live", "destroying", "gone", "failed"},
                               gen: Registration]]
  BY DEF TypeOK
<1>7. \A i \in Runtime : runtime[i].gen \in Nat
  BY <1>1, <1>3
<1>4. \A w \in Workspace, c \in Call : call[w][c].gen \in Nat
  <2>1. call \in [Workspace -> [Call -> [at: {"idle", "init", "got"}, gen: Registration,
                                        with: Runtime \cup {0}]]]
    BY DEF TypeOK
  <2> HIDE DEF Runtime
  <2>2. \A w \in Workspace, c \in Call : call[w][c].gen \in Registration
    BY <2>1
  <2> QED BY <1>1, <2>2
<1>5. \A s \in Stop : stop[s].gen \in Nat
  BY <1>1 DEF TypeOK
<1>6. \A w \in Workspace : instance[w] \in Runtime \cup {0}
  BY DEF TypeOK
<1> QED BY <1>2, <1>3, <1>4, <1>5, <1>6, <1>7

\* The lane of a workspace: its types, one by one.
EffectRec == [n: Save \cup {0}, at: {"idle", "path", "init", "got", "writing"}]

\* The fields of the lanes of a typed state.
LEMMA LaneFacts ==
  ASSUME TypeOK
  PROVE  /\ {begun, saved, pending, shown, held, complete, lost} \subseteq [Workspace -> Save \cup {0}]
         /\ effect \in [Workspace -> [Drain -> EffectRec]]
         /\ \A w \in Workspace, d \in Drain : effect[w][d] \in EffectRec
         /\ \A w \in Workspace : /\ begun[w] \in Nat /\ saved[w] \in Nat
                                 /\ pending[w] \in Nat /\ shown[w] \in Nat
<1>1. /\ {begun, saved, pending, shown, held, complete, lost} \subseteq [Workspace -> Save \cup {0}]
      /\ effect \in [Workspace -> [Drain -> EffectRec]]
  BY DEF TypeOK, EffectRec
<1>2. Save \cup {0} \subseteq Nat
  OBVIOUS
<1> HIDE DEF Save, Drain, EffectRec
<1> QED BY <1>1, <1>2

\* What is being written was saved.
LEMMA WritingSaves ==
  ASSUME TypeOK, LaneInOrder, NEW w \in Workspace
  PROVE  Writing(w) \subseteq Save
<1> SUFFICES ASSUME NEW d \in Drain, effect[w][d].at = "writing" PROVE effect[w][d].n \in Save
  BY DEF Writing
<1>1. effect[w][d].n \in 1..saved[w] /\ saved[w] \in Save \cup {0}
  BY LaneFacts DEF LaneInOrder, EffectsFollow, Busy
<1> QED BY <1>1

\* Init establishes the invariant.
LEMMA InitInv == Init => IInv
<1> SUFFICES ASSUME Init PROVE IInv
  OBVIOUS
<1>1. TypeOK
  <2>1. /\ host \in [on: BOOLEAN, number: Registration, gen: Registration]
        /\ instance \in [Workspace -> Runtime \cup {0}]
    BY DEF Init
  <2>2. runtime \in [Runtime -> [state: {"none", "live", "destroying", "gone", "failed"},
                                 gen: Registration]]
    BY DEF Init, NoRuntime
  <2>3. call \in [Workspace -> [Call -> [at: {"idle", "init", "got"}, gen: Registration,
                                         with: Runtime \cup {0}]]]
    BY DEF Init, NoCall
  <2>4. stop \in [Stop -> [at: {"none", "waiting", "resolved", "rejected"},
                           awaits: SUBSET Runtime, gen: Registration]]
    BY DEF Init
  <2>5. /\ begun \in [Workspace -> Save \cup {0}] /\ saved = begun /\ pending = begun
        /\ shown = begun /\ held = begun /\ complete = begun /\ lost = begun
        /\ stray \in [Workspace -> SUBSET Save]
        /\ token \in [Workspace -> [Save -> Registration]]
    BY DEF Init
  <2>6. effect \in [Workspace -> [Drain -> [n: Save \cup {0},
                      at: {"idle", "path", "init", "got", "writing"}]]]
    BY DEF Init, NoEffect
  <2> QED BY <2>1, <2>2, <2>3, <2>4, <2>5, <2>6 DEF TypeOK
<1>2. ServiceInv
  BY DEF Init, NoRuntime, NoCall, ServiceInv, GenerationsKnown, PublishedAreLive,
         LiveIsPublished, CallersAreServed, StopsAwait
<1>3. LaneInOrder
  BY DEF Init, NoEffect, LaneInOrder, OneDrain, EffectsFollow, PendingIsNewer, Busy
<1> QED BY <1>1, <1>2, <1>3 DEF IInv

-----------------------------------------------------------------------------
\* The service's own steps.
LEMMA RegisterInv ==
  ASSUME IInv, Register
  PROVE  IInv'
<1>1. /\ host' = [on |-> TRUE, number |-> host.number + 1,
                  gen |-> IF host.on THEN host.gen ELSE host.gen + 1]
      /\ host.number < MaxRegistrations
      /\ pending' = [w \in Workspace |-> 0]
      /\ UNCHANGED <<instance, runtime, call, stop, begun, saved, token, effect,
                     shown, held, stray, complete, lost>>
  BY DEF Register
<1>2. TypeOK'
  <2>1. host' \in [on: BOOLEAN, number: Registration, gen: Registration]
    BY <1>1 DEF IInv, TypeOK, ServiceInv, GenerationsKnown
  <2>2. pending' \in [Workspace -> Save \cup {0}]
    BY <1>1
  <2>3. UNCHANGED <<instance, runtime, call, stop, begun, saved, token, effect, shown,
                    held, stray, complete, lost>>
    BY <1>1
  <2> QED BY <2>1, <2>2, <2>3 DEF IInv, TypeOK
<1>3. ServiceInv'
  <2>1. host \in [on: BOOLEAN, number: Nat, gen: Nat]
    BY TypeFacts DEF IInv
  <2>2. /\ \A i \in Runtime : runtime[i].gen \in Nat
        /\ \A w \in Workspace, c \in Call : call[w][c].gen \in Nat
        /\ \A s \in Stop : stop[s].gen \in Nat
        /\ \A w \in Workspace : instance[w] \in Runtime \cup {0}
    BY TypeFacts DEF IInv
  <2>3. GenerationsKnown' /\ PublishedAreLive'
    BY <1>1, <2>1, <2>2 DEF IInv, ServiceInv, GenerationsKnown, PublishedAreLive
  <2>4. LiveIsPublished'
    BY <1>1, <2>1, <2>2 DEF IInv, ServiceInv, LiveIsPublished, Published, ServiceActive
  <2>5. CallersAreServed'
    BY <1>1, <2>1, <2>2 DEF IInv, ServiceInv, GenerationsKnown, CallersAreServed, ServiceActive
  <2>6. StopsAwait'
    BY <1>1, <2>1, <2>2 DEF IInv, ServiceInv, StopsAwait, Settled
  <2> QED BY <2>3, <2>4, <2>5, <2>6 DEF ServiceInv
<1>4. LaneInOrder'
  BY <1>1 DEF IInv, TypeOK, LaneInOrder, OneDrain, EffectsFollow, PendingIsNewer, Busy
<1> QED BY <1>2, <1>3, <1>4 DEF IInv

\* A stop keeps the invariant when it invalidates the host.
LEMMA UnregisterInv ==
  ASSUME IInv, NEW s \in Stop, Unregister(s)
  PROVE  IInv'
<1>1. /\ host' = [host EXCEPT !.on = FALSE]
      /\ pending' = [w \in Workspace |-> 0]
      /\ instance' = [w \in Workspace |-> 0]
      /\ runtime' = [i \in Runtime |-> IF i \in Published
                       THEN [runtime[i] EXCEPT !.state = "destroying"] ELSE runtime[i]]
      /\ stop' = [stop EXCEPT ![s] = [at |-> "waiting", awaits |-> Awaited, gen |-> host.gen]]
      /\ UNCHANGED <<call, begun, saved, token, effect, shown, held, complete, lost>>
      /\ stray' \in {stray, [w \in Workspace |-> stray[w] \cup IF host.on THEN Writing(w) ELSE {}]}
  BY DEF Unregister
<1>2. TypeOK'
  <2>1. Awaited \in SUBSET Runtime
    BY DEF Awaited, Published, Disposing
  <2>2. /\ host' \in [on: BOOLEAN, number: Registration, gen: Registration]
        /\ stop' \in [Stop -> [at: {"none", "waiting", "resolved", "rejected"},
                               awaits: SUBSET Runtime, gen: Registration]]
    BY <1>1, <2>1 DEF IInv, TypeOK
  <2>3. runtime' \in [Runtime -> [state: {"none", "live", "destroying", "gone", "failed"},
                                  gen: Registration]]
    BY <1>1, TypeFacts DEF IInv
  <2>4. /\ instance' \in [Workspace -> Runtime \cup {0}]
        /\ pending' \in [Workspace -> Save \cup {0}]
        /\ UNCHANGED <<call, begun, saved, token, effect, shown, held, complete, lost>>
    BY <1>1
  <2>6. stray' \in [Workspace -> SUBSET Save]
    <3>1. stray \in [Workspace -> SUBSET Save]
      BY DEF IInv, TypeOK
    <3>2. \A w \in Workspace : Writing(w) \subseteq Save
      BY WritingSaves DEF IInv
    <3> HIDE DEF Save
    <3> QED BY <1>1, <3>1, <3>2
  <2>5. TypeOK
    BY DEF IInv
  <2> HIDE DEF Runtime, Registration, Save, Drain
  <2> QED BY <2>2, <2>3, <2>4, <2>5, <2>6 DEF TypeOK
<1>3. ServiceInv'
  <2>1. /\ host \in [on: BOOLEAN, number: Nat, gen: Nat]
        /\ runtime \in [Runtime -> [state: {"none", "live", "destroying", "gone", "failed"},
                                    gen: Registration]]
        /\ \A i \in Runtime : runtime[i].gen \in Nat
        /\ \A q \in Stop : stop[q].gen \in Nat
    BY TypeFacts DEF IInv
  <2>2. ~host'.on /\ host'.gen = host.gen /\ host'.number = host.number
    BY <1>1, <2>1
  <2>3. \A i \in Runtime : /\ runtime'[i].gen = runtime[i].gen
                           /\ runtime'[i].state = IF i \in Published THEN "destroying"
                                                  ELSE runtime[i].state
    BY <1>1, <2>1
  <2>4. GenerationsKnown' /\ PublishedAreLive' /\ CallersAreServed'
    BY <1>1, <2>2, <2>3 DEF IInv, ServiceInv, GenerationsKnown, PublishedAreLive,
       CallersAreServed, ServiceActive
  <2>5. LiveIsPublished'
    BY <2>3 DEF IInv, ServiceInv, LiveIsPublished
  <2>6. StopsAwait'
    <3> SUFFICES ASSUME NEW q \in Stop, stop'[q].at # "none"
                 PROVE  /\ stop'[q].gen <= host.gen
                        /\ \A i \in Runtime :
                             runtime'[i].state # "none" /\ runtime'[i].gen <= stop'[q].gen
                               => Settled(i)' \/ (stop'[q].at = "waiting" /\ i \in stop'[q].awaits)
      BY <2>2 DEF StopsAwait
    <3>1. CASE q = s
      <4>1. stop'[q] = [at |-> "waiting", awaits |-> Awaited, gen |-> host.gen]
        BY <1>1, <3>1 DEF IInv, TypeOK
      <4>2. \A i \in Runtime : runtime'[i].state # "none" => Settled(i)' \/ i \in Awaited
        BY <2>1, <2>3 DEF IInv, ServiceInv, LiveIsPublished, Settled, Awaited, Disposing
      <4> QED BY <2>1, <4>1, <4>2
    <3>2. CASE q # s
      <4>1. stop'[q] = stop[q]
        BY <1>1, <3>2 DEF IInv, TypeOK
      <4>2. ASSUME NEW i \in Runtime, i \in Published
            PROVE  ~(runtime[i].gen <= stop[q].gen)
        <5>1. runtime[i].state = "live"
          BY <4>2 DEF IInv, ServiceInv, PublishedAreLive, Published
        <5>2. host.on /\ runtime[i].gen = host.gen
          BY <5>1 DEF IInv, ServiceInv, LiveIsPublished, ServiceActive
        <5> QED BY <2>1, <4>1, <5>2 DEF IInv, ServiceInv, StopsAwait
      <4> QED BY <2>1, <2>3, <4>1, <4>2 DEF IInv, ServiceInv, StopsAwait, Settled
    <3> QED BY <3>1, <3>2
  <2> QED BY <2>4, <2>5, <2>6 DEF ServiceInv
<1>4. LaneInOrder'
  BY <1>1 DEF IInv, TypeOK, LaneInOrder, OneDrain, EffectsFollow, PendingIsNewer, Busy
<1> QED BY <1>2, <1>3, <1>4 DEF IInv

\* A runtime that has been torn down is settled for good.
LEMMA DestroyedInv ==
  ASSUME IInv, NEW i \in Runtime, Destroyed(i)
  PROVE  IInv'
<1>1. /\ runtime[i].state = "destroying"
      /\ \E end \in {"gone", "failed"} : runtime' = [runtime EXCEPT ![i].state = end]
      /\ UNCHANGED <<host, instance, call, stop, begun, saved, token, pending, effect,
                     shown, held, stray, complete, lost>>
  BY DEF Destroyed
<1>2. runtime' \in [Runtime -> [state: {"none", "live", "destroying", "gone", "failed"},
                               gen: Registration]]
  BY <1>1, TypeFacts DEF IInv
<1>3. TypeOK'
  BY <1>1, <1>2 DEF IInv, TypeOK
<1>4. ServiceInv'
  <2>1. \A j \in Runtime : /\ runtime'[j].gen = runtime[j].gen
                           /\ j # i => runtime'[j].state = runtime[j].state
    BY <1>1, TypeFacts DEF IInv
  <2>2. runtime'[i].state \in {"gone", "failed"}
    BY <1>1, TypeFacts DEF IInv
  <2>3. \A w \in Workspace : instance[w] # i
    BY <1>1 DEF IInv, ServiceInv, PublishedAreLive
  <2>4. GenerationsKnown' /\ PublishedAreLive' /\ LiveIsPublished'
    BY <1>1, <2>1, <2>2, <2>3, TypeFacts DEF IInv, ServiceInv, GenerationsKnown,
       PublishedAreLive, LiveIsPublished, Published, ServiceActive
  <2>5. CallersAreServed'
    BY <1>1, <2>1, <2>3, TypeFacts DEF IInv, ServiceInv, CallersAreServed, ServiceActive
  <2>6. StopsAwait'
    BY <1>1, <2>1, <2>2 DEF IInv, ServiceInv, StopsAwait, Settled
  <2> QED BY <2>4, <2>5, <2>6 DEF ServiceInv
<1>5. LaneInOrder'
  BY <1>1 DEF IInv, LaneInOrder, OneDrain, EffectsFollow, PendingIsNewer, Busy, Running
<1> QED BY <1>3, <1>4, <1>5 DEF IInv

\* A stop keeps the invariant when it returns.
LEMMA StopReturnsInv ==
  ASSUME IInv, NEW s \in Stop, StopReturns(s)
  PROVE  IInv'
<1>1. /\ stop[s].at = "waiting"
      /\ \A i \in stop[s].awaits : Settled(i)
      /\ \E end \in {"resolved", "rejected"} : stop' = [stop EXCEPT ![s].at = end]
      /\ UNCHANGED <<host, instance, runtime, call, begun, saved, token, pending, effect,
                     shown, held, stray, complete, lost>>
  BY DEF StopReturns
<1>2. stop' \in [Stop -> [at: {"none", "waiting", "resolved", "rejected"},
                         awaits: SUBSET Runtime, gen: Registration]]
  <2> HIDE DEF Runtime, Registration
  <2>1. stop \in [Stop -> [at: {"none", "waiting", "resolved", "rejected"},
                          awaits: SUBSET Runtime, gen: Registration]]
    BY DEF IInv, TypeOK
  <2> QED BY <1>1, <2>1
<1>3. TypeOK'
  BY <1>1, <1>2 DEF IInv, TypeOK
<1>4. ServiceInv'
  <2>1. \A q \in Stop : /\ stop'[q].gen = stop[q].gen
                        /\ q # s => stop'[q] = stop[q]
    BY <1>1 DEF IInv, TypeOK
  <2>2. GenerationsKnown' /\ PublishedAreLive' /\ LiveIsPublished' /\ CallersAreServed'
    BY <1>1 DEF IInv, ServiceInv, GenerationsKnown, PublishedAreLive, LiveIsPublished,
       Published, CallersAreServed, ServiceActive
  <2>3. StopsAwait'
    BY <1>1, <2>1 DEF IInv, ServiceInv, StopsAwait, Settled
  <2> QED BY <2>2, <2>3 DEF ServiceInv
<1>5. LaneInOrder'
  BY <1>1 DEF IInv, LaneInOrder, OneDrain, EffectsFollow, PendingIsNewer, Busy, Running
<1> QED BY <1>3, <1>4, <1>5 DEF IInv

-----------------------------------------------------------------------------
\* A caller or an effect of a service that is active gets a runtime, perhaps
\* a new one, and a call may take note of it.
LEMMA ObtainInv ==
  ASSUME IInv, NEW w \in Workspace, NEW i \in Runtime,
         host.on, Obtain(w, i), UNCHANGED <<host, stop>>,
         \A v \in Workspace, c \in Call :
           \/ call'[v][c] = call[v][c]
           \/ /\ v = w /\ call'[v][c].with = i
              /\ call'[v][c].gen = call[v][c].gen
  PROVE  /\ instance' \in [Workspace -> Runtime \cup {0}]
         /\ runtime' \in [Runtime -> [state: {"none", "live", "destroying", "gone", "failed"},
                                      gen: Registration]]
         /\ ServiceInv'
<1>1. /\ instance \in [Workspace -> Runtime \cup {0}]
      /\ host.gen \in Registration
  BY DEF IInv, TypeOK
<1>2. instance'[w] = i /\ runtime'[i].state = "live"
  BY <1>1, TypeFacts DEF IInv, ServiceInv, PublishedAreLive, Obtain, Create
<1>3. /\ \A v \in Workspace : v # w => instance'[v] = instance[v]
      /\ instance[w] # 0 => instance[w] = i
  BY <1>1 DEF Obtain, Create
<1>4. \A j \in Runtime :
        \/ runtime'[j] = runtime[j]
        \/ j = i /\ runtime[j].state = "none" /\ runtime'[j].gen = host.gen
  <2>1. CASE UNCHANGED runtimes
    BY <2>1
  <2>2. CASE Create(w, i)
    <3>1. /\ runtime[i].state = "none"
          /\ runtime' = [runtime EXCEPT ![i] = [state |-> "live", gen |-> host.gen]]
      BY <2>2 DEF Create
    <3> QED BY <3>1, TypeFacts DEF IInv
  <2> QED BY <2>1, <2>2 DEF Obtain
<1>5. /\ instance' \in [Workspace -> Runtime \cup {0}]
      /\ runtime' \in [Runtime -> [state: {"none", "live", "destroying", "gone", "failed"},
                                   gen: Registration]]
  <2> DEFINE new == [state |-> "live", gen |-> host.gen]
             RuntimeRec == [state: {"none", "live", "destroying", "gone", "failed"},
                            gen: Registration]
  <2>3. runtime \in [Runtime -> RuntimeRec] /\ new \in RuntimeRec
    BY <1>1, TypeFacts DEF IInv
  <2>1. CASE UNCHANGED runtimes
    BY <1>1, <2>1, <2>3
  <2>2. CASE Create(w, i)
    <3>1. runtime' = [runtime EXCEPT ![i] = new] /\ instance' = [instance EXCEPT ![w] = i]
      BY <2>2 DEF Create
    <3> HIDE DEF new, RuntimeRec, Runtime
    <3>2. runtime' \in [Runtime -> RuntimeRec]
      BY <2>3, <3>1
    <3>3. instance' \in [Workspace -> Runtime \cup {0}]
      BY <1>1, <3>1
    <3> QED BY <3>2, <3>3 DEF RuntimeRec
  <2> QED BY <2>1, <2>2 DEF Obtain
<1> DEFINE gen(v, c) == call[v][c].gen
<1>11. \A v \in Workspace, c \in Call : call'[v][c].gen = gen(v, c) /\ gen(v, c) <= host.gen
  BY DEF IInv, ServiceInv, GenerationsKnown
<1>12. /\ \A j \in Runtime : runtime'[j].gen <= host.gen
       /\ host'.gen <= host'.number /\ host' = host
  BY <1>4, TypeFacts DEF IInv, ServiceInv, GenerationsKnown
<1>6. GenerationsKnown'
  <2> HIDE DEF gen
  <2> QED BY <1>11, <1>12 DEF GenerationsKnown
<1>7. PublishedAreLive'
  BY <1>1, <1>2, <1>3, <1>4 DEF IInv, ServiceInv, PublishedAreLive
<1>8. LiveIsPublished'
  BY <1>2, <1>3, <1>4 DEF IInv, ServiceInv, LiveIsPublished, Published, ServiceActive
<1>9. CallersAreServed'
  <2> SUFFICES ASSUME NEW v \in Workspace, NEW c \in Call, call'[v][c].at = "got",
                      host.on, host.gen = call'[v][c].gen
               PROVE  LET j == call'[v][c].with IN
                      j # 0 /\ instance'[v] = j /\ runtime'[j].state = "live"
    BY DEF CallersAreServed, ServiceActive
  <2>1. CASE v = w /\ call'[v][c].with = i
    BY <1>2, <2>1
  <2>2. CASE call'[v][c] = call[v][c]
    <3>1. LET j == call[v][c].with IN
          j # 0 /\ instance[v] = j /\ runtime[j].state = "live"
      BY <2>2 DEF IInv, ServiceInv, CallersAreServed, ServiceActive
    <3>2. call[v][c].with \in Runtime
      BY <1>1, <3>1
    <3> HIDE DEF Runtime
    <3>3. runtime'[call[v][c].with] = runtime[call[v][c].with]
      BY <1>4, <3>1, <3>2
    <3>4. instance'[v] = instance[v]
      BY <1>2, <1>3, <3>1
    <3> QED BY <2>2, <3>1, <3>3, <3>4
  <2> QED BY <2>1, <2>2
<1>10. StopsAwait'
  BY <1>4, TypeFacts DEF IInv, ServiceInv, StopsAwait, Settled
<1> QED BY <1>5, <1>6, <1>7, <1>8, <1>9, <1>10 DEF ServiceInv

\* The records of the calls.
CallRec == [at: {"idle", "init", "got"}, gen: Registration, with: Runtime \cup {0}]

\* The calls of a typed state.
LEMMA CallFacts ==
  ASSUME TypeOK
  PROVE  call \in [Workspace -> [Call -> CallRec]]
BY DEF TypeOK, CallRec

\* A call keeps the invariant when it begins.
LEMMA BeginInv ==
  ASSUME IInv, NEW w \in Workspace, NEW c \in Call, Begin(w, c)
  PROVE  IInv'
<1> DEFINE r == [at |-> IF instance[w] = 0 THEN "init" ELSE "got",
                 gen |-> host.gen, with |-> instance[w]]
<1>1. /\ host.on
      /\ call' = [call EXCEPT ![w][c] = r]
      /\ UNCHANGED <<host, instance, runtime, stop, begun, saved, token, pending, effect,
                     shown, held, stray, complete, lost>>
  BY DEF Begin
<1>2. /\ r \in CallRec
      /\ instance \in [Workspace -> Runtime \cup {0}]
  BY DEF IInv, TypeOK, CallRec
<1> HIDE DEF r
<1>3. /\ call' \in [Workspace -> [Call -> CallRec]]
      /\ \A v \in Workspace, d \in Call :
           call'[v][d] = IF v = w /\ d = c THEN r ELSE call[v][d]
  <2>1. call \in [Workspace -> [Call -> CallRec]]
    BY CallFacts DEF IInv
  <2> QED BY <1>1, <1>2, <2>1
<1>4. TypeOK'
  BY <1>1, <1>3 DEF IInv, TypeOK, CallRec
<1>5. ServiceInv'
  <2>1. GenerationsKnown'
    <3>1. r.gen <= host.gen
      BY TypeFacts DEF IInv, r
    <3> QED BY <1>1, <1>3, <3>1 DEF IInv, ServiceInv, GenerationsKnown
  <2>2. PublishedAreLive' /\ LiveIsPublished' /\ StopsAwait'
    BY <1>1 DEF IInv, ServiceInv, PublishedAreLive, LiveIsPublished, Published, ServiceActive,
       StopsAwait, Settled
  <2>3. CallersAreServed'
    <3>1. r.at = "got" => r.with # 0 /\ instance[w] = r.with /\ runtime[r.with].state = "live"
      BY DEF IInv, ServiceInv, PublishedAreLive, r
    <3> QED BY <1>1, <1>3, <3>1 DEF IInv, ServiceInv, CallersAreServed, ServiceActive
  <2> QED BY <2>1, <2>2, <2>3 DEF ServiceInv
<1>6. LaneInOrder'
  BY <1>1 DEF IInv, LaneInOrder, OneDrain, EffectsFollow, PendingIsNewer, Busy, Running
<1> QED BY <1>4, <1>5, <1>6 DEF IInv

\* A call that gives up, or is over.
LEMMA CallOverInv ==
  ASSUME IInv, NEW w \in Workspace, NEW c \in Call,
         call' = [call EXCEPT ![w][c] = NoCall],
         UNCHANGED <<host, instance, runtime, stop, begun, saved, token, pending, effect,
                     shown, held, stray, complete, lost>>
  PROVE  IInv'
<1>1. NoCall \in CallRec
  BY DEF NoCall, CallRec
<1>2. /\ call' \in [Workspace -> [Call -> CallRec]]
      /\ \A v \in Workspace, d \in Call :
           call'[v][d] = IF v = w /\ d = c THEN NoCall ELSE call[v][d]
  <2>1. call \in [Workspace -> [Call -> CallRec]]
    BY CallFacts DEF IInv
  <2> QED BY <1>1, <2>1
<1>3. TypeOK'
  BY <1>2 DEF IInv, TypeOK, CallRec
<1>4. ServiceInv'
  <2>1. GenerationsKnown'
    <3>1. host.gen >= 0 /\ NoCall.gen = 0
      BY TypeFacts DEF IInv, NoCall
    <3> QED BY <1>2, <3>1 DEF IInv, ServiceInv, GenerationsKnown
  <2>2. PublishedAreLive' /\ LiveIsPublished' /\ StopsAwait'
    BY DEF IInv, ServiceInv, PublishedAreLive, LiveIsPublished, Published, ServiceActive,
       StopsAwait, Settled
  <2>3. CallersAreServed'
    BY <1>2 DEF IInv, ServiceInv, CallersAreServed, ServiceActive, NoCall
  <2> QED BY <2>1, <2>2, <2>3 DEF ServiceInv
<1>5. LaneInOrder'
  BY DEF IInv, LaneInOrder, OneDrain, EffectsFollow, PendingIsNewer, Busy, Running
<1> QED BY <1>3, <1>4, <1>5 DEF IInv

\* A call keeps the invariant when it creates its runtime.
LEMMA CallInitInv ==
  ASSUME IInv, NEW w \in Workspace, NEW c \in Call, CallInit(w, c)
  PROVE  IInv'
<1>1. UNCHANGED <<host, stop, begun, saved, token, pending, effect, shown, held, stray, complete, lost>>
  BY DEF CallInit
<1>2. ASSUME ServiceActive(call[w][c].gen), NEW i \in Runtime, Obtain(w, i),
             call' = [call EXCEPT ![w][c] = [@ EXCEPT !.at = "got", !.with = i]]
      PROVE  IInv'
  <2> DEFINE r == [call[w][c] EXCEPT !.at = "got", !.with = i]
  <2>1. /\ call[w][c] \in CallRec
        /\ call' = [call EXCEPT ![w][c] = r]
    <3>1. call[w][c] \in CallRec
      BY CallFacts DEF IInv
    <3> QED BY <1>2, <3>1
  <2>2. r \in CallRec
    BY <2>1 DEF CallRec
  <2>3. r.gen = call[w][c].gen /\ r.with = i
    BY <2>1 DEF CallRec
  <2> HIDE DEF r
  <2>4. /\ call' \in [Workspace -> [Call -> CallRec]]
        /\ \A v \in Workspace, d \in Call :
             call'[v][d] = IF v = w /\ d = c THEN r ELSE call[v][d]
    <3>1. call \in [Workspace -> [Call -> CallRec]]
      BY CallFacts DEF IInv
    <3> QED BY <2>1, <2>2, <3>1
  <2>5. \A v \in Workspace, d \in Call :
           \/ call'[v][d] = call[v][d]
           \/ /\ v = w /\ call'[v][d].with = i
              /\ call'[v][d].gen = call[v][d].gen
    BY <2>3, <2>4
  <2>6. /\ instance' \in [Workspace -> Runtime \cup {0}]
        /\ runtime' \in [Runtime -> [state: {"none", "live", "destroying", "gone", "failed"},
                                     gen: Registration]]
        /\ ServiceInv'
    BY <1>1, <1>2, <2>5, ObtainInv DEF ServiceActive
  <2>7. TypeOK'
    BY <1>1, <2>4, <2>6 DEF IInv, TypeOK, CallRec
  <2>8. LaneInOrder'
    BY <1>1 DEF IInv, LaneInOrder, OneDrain, EffectsFollow, PendingIsNewer, Busy, Running
  <2> QED BY <2>6, <2>7, <2>8 DEF IInv
<1>3. CASE call' = [call EXCEPT ![w][c] = NoCall] /\ UNCHANGED runtimes
  BY <1>1, <1>3, CallOverInv
<1> QED BY <1>2, <1>3 DEF CallInit

-----------------------------------------------------------------------------
\* The lane's part of the types.
LEMMA StrayType ==
  ASSUME TypeOK
  PROVE  stray \in [Workspace -> SUBSET Save]
BY DEF TypeOK

\* A step that touches the lanes alone, within their types, keeps the types.
LEMMA LaneTypes ==
  ASSUME TypeOK, UNCHANGED <<host, instance, runtime, call, stop, begun, token>>,
         stray' \in [Workspace -> SUBSET Save], held' \in [Workspace -> Save \cup {0}],
         effect' \in [Workspace -> [Drain -> EffectRec]],
         saved' \in [Workspace -> Save \cup {0}],
         pending' \in [Workspace -> Save \cup {0}],
         shown' \in [Workspace -> Save \cup {0}],
         complete' \in [Workspace -> Save \cup {0}],
         lost' \in [Workspace -> Save \cup {0}]
  PROVE  TypeOK'
BY DEF TypeOK, EffectRec

\* Moving an effect on keeps the lane in order, if it is not writing yet.
LEMMA MoveInv ==
  ASSUME IInv, NEW w \in Workspace, NEW d \in Drain,
         NEW where \in {"path", "init", "got"},
         effect[w][d].at \in {"path", "init", "got"},
         At(w, d, where),
         UNCHANGED <<begun, saved, pending, shown>>
  PROVE  /\ effect' \in [Workspace -> [Drain -> EffectRec]]
         /\ LaneInOrder'
<1> DEFINE r == [effect[w][d] EXCEPT !.at = where]
<1>1. effect[w][d] \in EffectRec
  BY LaneFacts DEF IInv
<1>2. r \in EffectRec /\ r.at = where /\ r.n = effect[w][d].n
  BY <1>1 DEF EffectRec
<1>3. effect' = [effect EXCEPT ![w][d] = r]
  BY DEF At
<1> HIDE DEF r
<1>4. /\ effect' \in [Workspace -> [Drain -> EffectRec]]
      /\ \A v \in Workspace, e \in Drain :
           effect'[v][e] = IF v = w /\ e = d THEN r ELSE effect[v][e]
  <2>1. effect \in [Workspace -> [Drain -> EffectRec]]
    BY LaneFacts DEF IInv
  <2> HIDE DEF Drain, EffectRec
  <2> QED BY <1>2, <1>3, <2>1
<1>5. \A v \in Workspace, e \in Drain :
        /\ Busy(v, e)' <=> Busy(v, e)
        /\ effect'[v][e].n = effect[v][e].n
        /\ effect[v][e].at # "writing" <=> effect'[v][e].at # "writing"
  BY <1>2, <1>4 DEF Busy
<1>6. LaneInOrder
  BY DEF IInv
<1>7. OneDrain'
  BY <1>5, <1>6 DEF LaneInOrder, OneDrain
<1>8. EffectsFollow'
  BY <1>5, <1>6 DEF LaneInOrder, EffectsFollow
<1>9. PendingIsNewer'
  <2>1. \A v \in Workspace : Running(v) <=> \E e \in Drain : Busy(v, e)
    BY DEF Running, Busy
  <2>2. \A v \in Workspace : Running(v)' <=> \E e \in Drain : Busy(v, e)'
    BY DEF Running, Busy
  <2> HIDE DEF Drain
  <2> QED BY <1>5, <1>6, <2>1, <2>2 DEF LaneInOrder, PendingIsNewer
<1> QED BY <1>4, <1>6, <1>7, <1>8, <1>9 DEF LaneInOrder

\* When an effect is over, what was pending is newer than all that is shown.
LEMMA OverInv ==
  ASSUME IInv, NEW w \in Workspace, NEW d \in Drain, Busy(w, d), Over(w, d),
         UNCHANGED <<begun, saved, shown>>
  PROVE  /\ effect' \in [Workspace -> [Drain -> EffectRec]]
         /\ pending' \in [Workspace -> Save \cup {0}]
         /\ LaneInOrder'
<1> DEFINE r == IF pending[w] = 0 THEN NoEffect ELSE [n |-> pending[w], at |-> "path"]
<1>1. pending \in [Workspace -> Save \cup {0}]
  BY LaneFacts DEF IInv
<1>2. r \in EffectRec
  BY <1>1 DEF NoEffect, EffectRec
<1>3. effect' = [effect EXCEPT ![w][d] = r] /\ pending' = [pending EXCEPT ![w] = 0]
  BY DEF Over
<1>4. r.at # "writing" /\ (r.at # "idle" => pending[w] # 0 /\ r.n = pending[w])
  BY DEF NoEffect
<1> HIDE DEF r
<1>5. /\ effect' \in [Workspace -> [Drain -> EffectRec]]
      /\ \A v \in Workspace, e \in Drain :
           effect'[v][e] = IF v = w /\ e = d THEN r ELSE effect[v][e]
  <2>1. effect \in [Workspace -> [Drain -> EffectRec]]
    BY LaneFacts DEF IInv
  <2> HIDE DEF Drain, EffectRec
  <2> QED BY <1>2, <1>3, <2>1
<1>6. /\ pending' \in [Workspace -> Save \cup {0}]
      /\ \A v \in Workspace : pending'[v] = IF v = w THEN 0 ELSE pending[v]
  <2> HIDE DEF Save
  <2> QED BY <1>1, <1>3
<1>7. LaneInOrder
  BY DEF IInv
<1>8. \A e \in Drain : Busy(w, e) => e = d
  BY <1>7 DEF LaneInOrder, OneDrain
<1>9. \A e \in Drain : Busy(w, e)' => e = d /\ pending[w] # 0 /\ effect'[w][e] = r
  BY <1>4, <1>5, <1>8 DEF Busy
<1>10. \A v \in Workspace, e \in Drain : v # w => effect'[v][e] = effect[v][e]
  BY <1>5
<1>11. OneDrain'
  BY <1>7, <1>9, <1>10 DEF LaneInOrder, OneDrain, Busy
<1>12. EffectsFollow'
  <2> SUFFICES ASSUME NEW v \in Workspace, NEW e \in Drain, Busy(v, e)'
               PROVE  /\ effect'[v][e].n \in 1..saved[v]
                      /\ shown[v] <= effect'[v][e].n
                      /\ effect'[v][e].at # "writing" => shown[v] < effect'[v][e].n
    BY DEF EffectsFollow
  <2>1. CASE v = w
    <3>1. effect'[v][e] = r /\ r.n = pending[w] /\ pending[w] # 0
      BY <1>4, <1>9, <2>1 DEF Busy
    <3>2. shown[w] < pending[w] /\ pending[w] <= saved[w]
      BY <1>7, <3>1 DEF LaneInOrder, PendingIsNewer
    <3> QED BY <2>1, <3>1, <3>2, LaneFacts DEF IInv
  <2>2. CASE v # w
    BY <1>7, <1>10, <2>2 DEF LaneInOrder, EffectsFollow, Busy
  <2> QED BY <2>1, <2>2
<1>13. PendingIsNewer'
  BY <1>6, <1>7, <1>10 DEF LaneInOrder, PendingIsNewer, Running, Busy
<1> QED BY <1>5, <1>6, <1>7, <1>11, <1>12, <1>13 DEF LaneInOrder

-----------------------------------------------------------------------------
\* Saves and effects.  They leave the service alone, but for EffectInit.
LEMMA ServiceFrame ==
  ASSUME ServiceInv, UNCHANGED <<host, instance, runtime, call, stop>>
  PROVE  ServiceInv'
BY DEF ServiceInv, GenerationsKnown, PublishedAreLive, LiveIsPublished, Published,
       ServiceActive, CallersAreServed, StopsAwait, Settled

\* A row of a table, with one entry set.
LEMMA RowType ==
  ASSUME NEW Rows, NEW Keys, NEW Values, NEW f \in [Rows -> [Keys -> Values]],
         NEW w \in Rows, NEW k, NEW x \in Values
  PROVE  [f EXCEPT ![w][k] = x] \in [Rows -> [Keys -> Values]]
<1> DEFINE row == [f[w] EXCEPT ![k] = x]
           R == [Keys -> Values]
<1>1. row \in R
  OBVIOUS
<1>2. f \in [Rows -> R]
  OBVIOUS
<1> HIDE DEF row, R
<1>3. [f EXCEPT ![w] = row] \in [Rows -> R]
  BY <1>1, <1>2
<1> QED BY <1>3 DEF row, R

\* A save keeps the invariant when it begins.
LEMMA SaveBeginsInv ==
  ASSUME IInv, NEW w \in Workspace, SaveBegins(w)
  PROVE  IInv'
<1>1. /\ begun[w] < MaxSaves
      /\ begun' = [begun EXCEPT ![w] = @ + 1]
      /\ token' = [token EXCEPT ![w][begun[w] + 1] = IF host.on THEN host.number ELSE 0]
      /\ UNCHANGED <<host, instance, runtime, call, stop, saved, pending, effect,
                     shown, held, stray, complete, lost>>
  BY DEF SaveBegins
<1>2. begun' \in [Workspace -> Save \cup {0}]
  <2>1. begun[w] + 1 \in Save
    BY <1>1, LaneFacts DEF IInv
  <2>2. begun \in [Workspace -> Save \cup {0}]
    BY LaneFacts DEF IInv
  <2> HIDE DEF Save
  <2> QED BY <1>1, <2>1, <2>2
<1>3. token' \in [Workspace -> [Save -> Registration]]
  <2> DEFINE t == IF host.on THEN host.number ELSE 0
             k == begun[w] + 1
  <2>1. token \in [Workspace -> [Save -> Registration]]
    BY DEF IInv, TypeOK
  <2>2. t \in Registration
    BY DEF IInv, TypeOK
  <2>3. token' = [token EXCEPT ![w][k] = t]
    BY <1>1
  <2> HIDE DEF Save, Registration, t, k
  <2>4. [token EXCEPT ![w][k] = t] \in [Workspace -> [Save -> Registration]]
    BY <2>1, <2>2, RowType
  <2> QED BY <2>3, <2>4
<1>4. TypeOK'
  <2>1. UNCHANGED <<host, instance, runtime, call, stop, saved, pending, effect, shown,
                    held, stray, complete, lost>>
    BY <1>1
  <2>2. TypeOK
    BY DEF IInv
  <2> HIDE DEF Runtime, Registration, Save, Drain, Stop
  <2> QED BY <1>2, <1>3, <2>1, <2>2 DEF TypeOK
<1>5. LaneInOrder'
  <2>1. \A v \in Workspace : saved[v] <= begun[v] /\ begun'[v] >= begun[v]
    BY <1>1, LaneFacts DEF IInv, LaneInOrder
  <2>2. \A v \in Workspace : begun[v] \in Nat /\ saved[v] \in Nat /\ begun'[v] \in Nat
    BY <1>1, LaneFacts DEF IInv
  <2>3. \A v \in Workspace : saved[v] <= begun'[v]
    BY <2>1, <2>2
  <2> QED BY <1>1, <2>3 DEF IInv, LaneInOrder, OneDrain, EffectsFollow, PendingIsNewer, Busy,
             Running
<1> QED BY <1>1, <1>4, <1>5, ServiceFrame DEF IInv

\* A save keeps the invariant when it is on disk.
LEMMA SaveEndsInv ==
  ASSUME IInv, NEW w \in Workspace, SaveEnds(w)
  PROVE  IInv'
<1> DEFINE n == saved[w] + 1
<1>1. /\ saved[w] < begun[w]
      /\ saved' = [saved EXCEPT ![w] = n]
      /\ UNCHANGED <<host, instance, runtime, call, stop, begun, token, shown, held, stray, complete, lost>>
  BY DEF SaveEnds
<1>2. n \in Save /\ n <= begun[w] /\ n > 0
  <2>1. saved[w] \in Nat /\ begun[w] \in Save \cup {0}
    BY LaneFacts DEF IInv
  <2> QED BY <1>1, <2>1
<1>3. n = saved[w] + 1
  OBVIOUS
<1> HIDE DEF n
<1>4. /\ saved' \in [Workspace -> Save \cup {0}]
      /\ \A v \in Workspace : saved'[v] = IF v = w THEN n ELSE saved[v]
  <2>1. saved \in [Workspace -> Save \cup {0}]
    BY LaneFacts DEF IInv
  <2> HIDE DEF Save
  <2> QED BY <1>1, <1>2, <2>1
<1>5. LaneInOrder
  BY DEF IInv
<1>6. \A v \in Workspace : saved[v] <= saved'[v] /\ shown[v] <= saved'[v] /\ saved'[v] <= begun[v]
  BY <1>2, <1>3, <1>4, <1>5, LaneFacts DEF IInv, LaneInOrder
<1>10. TypeOK /\ \A f \in {begun, pending, shown, held, complete, lost} :
                   f \in [Workspace -> Save \cup {0}]
  BY LaneFacts DEF IInv
<1>11. /\ UNCHANGED <<host, instance, runtime, call, stop, begun, token>>
       /\ held' \in [Workspace -> Save \cup {0}] /\ stray' \in [Workspace -> SUBSET Save]
       /\ shown' \in [Workspace -> Save \cup {0}]
       /\ complete' \in [Workspace -> Save \cup {0}]
       /\ lost' \in [Workspace -> Save \cup {0}]
  BY <1>1, <1>10, StrayType
<1>12. effect \in [Workspace -> [Drain -> EffectRec]]
  BY LaneFacts DEF IInv
<1>7. CASE UNCHANGED <<pending, effect>>
  <2>1. EffectsFollow'
    BY <1>1, <1>4, <1>5, <1>6, <1>7, LaneFacts DEF IInv, LaneInOrder, EffectsFollow, Busy,
       EffectRec
  <2>2. PendingIsNewer'
    BY <1>1, <1>4, <1>5, <1>6, <1>7, LaneFacts DEF IInv, LaneInOrder, PendingIsNewer, Busy,
       Running
  <2>3. LaneInOrder'
    BY <1>1, <1>5, <1>6, <1>7, <2>1, <2>2 DEF LaneInOrder, OneDrain, Busy
  <2>4. TypeOK'
    BY <1>4, <1>7, <1>10, <1>11, <1>12, LaneTypes
  <2> QED BY <1>1, <2>3, <2>4, ServiceFrame DEF IInv
<1>8. CASE Running(w) /\ pending' = [pending EXCEPT ![w] = n] /\ UNCHANGED effect
  <2>1. /\ pending' \in [Workspace -> Save \cup {0}]
        /\ \A v \in Workspace : pending'[v] = IF v = w THEN n ELSE pending[v]
    <3>1. pending \in [Workspace -> Save \cup {0}]
      BY LaneFacts DEF IInv
    <3> HIDE DEF Save
    <3> QED BY <1>2, <1>8, <3>1
  <2>2. EffectsFollow'
    BY <1>1, <1>4, <1>5, <1>6, <1>8, LaneFacts DEF IInv, LaneInOrder, EffectsFollow, Busy,
       EffectRec
  <2>3. PendingIsNewer'
    <3> SUFFICES ASSUME NEW v \in Workspace, pending'[v] # 0
                 PROVE  /\ shown[v] < pending'[v] /\ pending'[v] <= saved'[v]
                        /\ Running(v)
                        /\ \A d \in Drain : Busy(v, d) => effect[v][d].n < pending'[v]
      BY <1>1, <1>8 DEF PendingIsNewer, Running, Busy
    <3>1. CASE v = w
      <4>1. \A d \in Drain : Busy(w, d) => effect[w][d].n < n
        BY <1>3, <1>5, LaneFacts DEF IInv, LaneInOrder, EffectsFollow
      <4>2. shown[w] < n
        BY <1>3, <1>5, LaneFacts DEF IInv, LaneInOrder
      <4>3. pending'[v] = n /\ saved'[v] = n
        BY <1>4, <2>1, <3>1
      <4> QED BY <1>2, <1>8, <3>1, <4>1, <4>2, <4>3
    <3>2. CASE v # w
      BY <1>4, <1>5, <2>1, <3>2 DEF LaneInOrder, PendingIsNewer
    <3> QED BY <3>1, <3>2
  <2>4. LaneInOrder'
    BY <1>1, <1>5, <1>6, <1>8, <2>2, <2>3 DEF LaneInOrder, OneDrain, Busy
  <2>5. TypeOK'
    BY <1>4, <1>8, <1>10, <1>11, <1>12, <2>1, LaneTypes
  <2> QED BY <1>1, <2>4, <2>5, ServiceFrame DEF IInv
<1>9. ASSUME ~Running(w), NEW d \in Drain, UNCHANGED pending,
             effect' = [effect EXCEPT ![w][d] = [n |-> n, at |-> "path"]]
      PROVE  IInv'
  <2> DEFINE r == [n |-> n, at |-> "path"]
  <2>1. r \in EffectRec /\ r.n = n /\ r.at = "path"
    BY <1>2 DEF EffectRec
  <2>2. effect' = [effect EXCEPT ![w][d] = r]
    BY <1>9
  <2> HIDE DEF r
  <2>3. /\ effect' \in [Workspace -> [Drain -> EffectRec]]
        /\ \A v \in Workspace, e \in Drain :
             effect'[v][e] = IF v = w /\ e = d THEN r ELSE effect[v][e]
    <3>1. effect \in [Workspace -> [Drain -> EffectRec]]
      BY LaneFacts DEF IInv
    <3> HIDE DEF Drain, EffectRec
    <3> QED BY <2>1, <2>2, <3>1
  <2>4. \A e \in Drain : ~Busy(w, e)
    BY <1>9 DEF Running, Busy
  <2>5. \A e \in Drain : Busy(w, e)' => e = d /\ effect'[w][e] = r
    BY <2>3, <2>4 DEF Busy
  <2>6. \A v \in Workspace, e \in Drain : v # w => effect'[v][e] = effect[v][e]
    BY <2>3
  <2>7. OneDrain'
    BY <1>5, <2>5, <2>6 DEF LaneInOrder, OneDrain, Busy
  <2>8. EffectsFollow'
    <3> SUFFICES ASSUME NEW v \in Workspace, NEW e \in Drain, Busy(v, e)'
                 PROVE  /\ effect'[v][e].n \in 1..saved'[v]
                        /\ shown[v] <= effect'[v][e].n
                        /\ effect'[v][e].at # "writing" => shown[v] < effect'[v][e].n
      BY <1>1 DEF EffectsFollow
    <3>1. CASE v = w
      <4>1. effect'[v][e] = r /\ saved'[v] = n
        BY <1>4, <2>5, <3>1
      <4>2. shown[w] < n
        BY <1>3, <1>5, LaneFacts DEF IInv, LaneInOrder
      <4> QED BY <1>2, <2>1, <3>1, <4>1, <4>2, LaneFacts DEF IInv
    <3>2. CASE v # w
      BY <1>4, <1>5, <2>6, <3>2 DEF LaneInOrder, EffectsFollow, Busy
    <3> QED BY <3>1, <3>2
  <2>9. PendingIsNewer'
    <3>1. pending[w] = 0
      BY <1>5, <1>9 DEF LaneInOrder, PendingIsNewer
    <3> QED BY <1>1, <1>4, <1>5, <1>9, <2>6, <3>1 DEF LaneInOrder, PendingIsNewer, Running, Busy
  <2>10. LaneInOrder'
    BY <1>1, <1>6, <2>7, <2>8, <2>9 DEF LaneInOrder
  <2>11. TypeOK'
    BY <1>4, <1>9, <1>10, <1>11, <2>3, LaneTypes
  <2> QED BY <1>1, <2>10, <2>11, ServiceFrame DEF IInv
<1> QED BY <1>7, <1>8, <1>9 DEF SaveEnds, n

\* An effect keeps the invariant when it has its path.
LEMMA PathFoundInv ==
  ASSUME IInv, NEW w \in Workspace, NEW d \in Drain, PathFound(w, d)
  PROVE  IInv'
<1> DEFINE where == IF instance[w] = 0 THEN "init" ELSE "got"
<1>1. /\ effect[w][d].at = "path" /\ where \in {"path", "init", "got"}
      /\ At(w, d, where)
      /\ UNCHANGED <<host, instance, runtime, call, stop, begun, saved, token, pending,
                     shown, held, stray, complete, lost>>
  BY DEF PathFound
<1> HIDE DEF where
<1>2. effect' \in [Workspace -> [Drain -> EffectRec]] /\ LaneInOrder'
  BY <1>1, MoveInv
<1>3. TypeOK'
  BY <1>1, <1>2 DEF IInv, TypeOK, EffectRec
<1> QED BY <1>1, <1>2, <1>3, ServiceFrame DEF IInv

\* An effect keeps the invariant when its relay is ready.
LEMMA EffectInitInv ==
  ASSUME IInv, NEW w \in Workspace, NEW d \in Drain, EffectInit(w, d)
  PROVE  IInv'
<1>1. /\ effect[w][d].at = "init" /\ host.on
      /\ At(w, d, "got")
      /\ UNCHANGED <<host, call, stop, begun, saved, token, pending, shown, held, stray, complete, lost>>
  BY DEF EffectInit, TokenActive
<1>2. PICK i \in Runtime : Obtain(w, i)
  BY DEF EffectInit
<1>3. /\ instance' \in [Workspace -> Runtime \cup {0}]
      /\ runtime' \in [Runtime -> [state: {"none", "live", "destroying", "gone", "failed"},
                                   gen: Registration]]
      /\ ServiceInv'
  BY <1>1, <1>2, ObtainInv
<1>4. effect' \in [Workspace -> [Drain -> EffectRec]] /\ LaneInOrder'
  BY <1>1, MoveInv
<1>5. TypeOK'
  BY <1>1, <1>3, <1>4 DEF IInv, TypeOK, EffectRec
<1> QED BY <1>3, <1>4, <1>5 DEF IInv

\* The first write of a projection: it is newer than what is shown, and
\* older than what is pending.
LEMMA ProjectInv ==
  ASSUME IInv, NEW w \in Workspace, NEW d \in Drain, Project(w, d)
  PROVE  IInv'
<1> DEFINE r == [effect[w][d] EXCEPT !.at = "writing"]
           n == effect[w][d].n
<1>1. /\ effect[w][d].at = "got"
      /\ shown' = [shown EXCEPT ![w] = n] /\ held' = [held EXCEPT ![w] = n]
      /\ effect' = [effect EXCEPT ![w][d] = r]
      /\ UNCHANGED <<host, instance, runtime, call, stop, begun, saved, token, pending,
                     stray, complete, lost>>
  BY DEF Project, At
<1>2. effect[w][d] \in EffectRec
  BY LaneFacts DEF IInv
<1>3. r \in EffectRec /\ r.n = n /\ r.at = "writing" /\ n \in Save \cup {0}
  BY <1>2 DEF EffectRec
<1>4. /\ n \in 1..saved[w] /\ shown[w] < n
      /\ pending[w] # 0 => n < pending[w]
  BY <1>1 DEF IInv, LaneInOrder, EffectsFollow, PendingIsNewer, Busy
<1>5. \A e \in Drain : Busy(w, e) => e = d
  BY <1>1 DEF IInv, LaneInOrder, OneDrain, Busy
<1>6. n = effect[w][d].n
  OBVIOUS
<1> HIDE DEF r, n
<1>7. /\ effect' \in [Workspace -> [Drain -> EffectRec]]
      /\ \A v \in Workspace, e \in Drain :
           effect'[v][e] = IF v = w /\ e = d THEN r ELSE effect[v][e]
  <2>1. effect' = [effect EXCEPT ![w][d] = r] /\ r \in EffectRec
    BY <1>1, <1>3
  <2>2. effect \in [Workspace -> [Drain -> EffectRec]]
    BY LaneFacts DEF IInv
  <2> HIDE DEF Drain, EffectRec
  <2> QED BY <2>1, <2>2
<1>8. /\ shown' \in [Workspace -> Save \cup {0}]
      /\ \A v \in Workspace : shown'[v] = IF v = w THEN n ELSE shown[v]
  <2>1. shown \in [Workspace -> Save \cup {0}]
    BY LaneFacts DEF IInv
  <2> HIDE DEF Save
  <2> QED BY <1>1, <1>3, <2>1
<1>9. \A v \in Workspace, e \in Drain :
        /\ Busy(v, e)' <=> Busy(v, e)
        /\ effect'[v][e].n = effect[v][e].n
        /\ v # w => effect'[v][e] = effect[v][e]
  BY <1>1, <1>3, <1>6, <1>7 DEF Busy
<1>10. LaneInOrder
  BY DEF IInv
<1>11. OneDrain'
  BY <1>9, <1>10 DEF LaneInOrder, OneDrain
<1>12. EffectsFollow'
  <2> SUFFICES ASSUME NEW v \in Workspace, NEW e \in Drain, Busy(v, e)'
               PROVE  /\ effect'[v][e].n \in 1..saved[v]
                      /\ shown'[v] <= effect'[v][e].n
                      /\ effect'[v][e].at # "writing" => shown'[v] < effect'[v][e].n
    BY <1>1 DEF EffectsFollow
  <2>1. CASE v = w
    <3>1. e = d /\ effect'[v][e] = r /\ shown'[v] = n
      BY <1>5, <1>7, <1>8, <1>9, <2>1
    <3> QED BY <1>3, <1>4, <2>1, <3>1
  <2>2. CASE v # w
    BY <1>8, <1>9, <1>10, <2>2 DEF LaneInOrder, EffectsFollow
  <2> QED BY <2>1, <2>2
<1>13. PendingIsNewer'
  <2>1. \A v \in Workspace : Running(v)' <=> Running(v)
    BY <1>9 DEF Running, Busy
  <2> HIDE DEF Drain
  <2> QED BY <1>1, <1>4, <1>8, <1>9, <1>10, <2>1 DEF LaneInOrder, PendingIsNewer
<1>14. LaneInOrder'
  <2>1. \A v \in Workspace : shown[v] <= saved[v] /\ saved[v] <= begun[v]
    BY <1>10 DEF LaneInOrder
  <2>2. n <= saved[w]
    BY <1>4, LaneFacts DEF IInv
  <2>3. \A v \in Workspace : shown'[v] <= saved[v] /\ saved[v] <= begun[v]
    BY <1>8, <2>1, <2>2
  <2> QED BY <1>1, <1>11, <1>12, <1>13, <2>3 DEF LaneInOrder
<1>15. TypeOK'
  <2>3. held' \in [Workspace -> Save \cup {0}]
    <3>1. held \in [Workspace -> Save \cup {0}]
      BY LaneFacts DEF IInv
    <3> HIDE DEF Save
    <3> QED BY <1>1, <1>3, <3>1
  <2>1. TypeOK /\ \A f \in {saved, pending, complete, lost} : f \in [Workspace -> Save \cup {0}]
    BY LaneFacts DEF IInv
  <2>2. /\ UNCHANGED <<host, instance, runtime, call, stop, begun, token>>
        /\ stray' \in [Workspace -> SUBSET Save]
        /\ saved' \in [Workspace -> Save \cup {0}] /\ pending' \in [Workspace -> Save \cup {0}]
        /\ complete' \in [Workspace -> Save \cup {0}] /\ lost' \in [Workspace -> Save \cup {0}]
    BY <1>1, <2>1, StrayType
  <2> QED BY <1>7, <1>8, <2>1, <2>2, <2>3, LaneTypes
<1> QED BY <1>1, <1>14, <1>15, ServiceFrame DEF IInv

\* An effect that is over, done or failed.
LEMMA EffectEndsInv ==
  ASSUME IInv, NEW w \in Workspace, NEW d \in Drain, Busy(w, d), Over(w, d),
         UNCHANGED <<host, instance, runtime, call, stop, begun, saved, token, shown, held, stray>>,
         {complete', lost'} \subseteq [Workspace -> Save \cup {0}]
  PROVE  IInv'
<1>1. /\ effect' \in [Workspace -> [Drain -> EffectRec]]
      /\ pending' \in [Workspace -> Save \cup {0}]
      /\ LaneInOrder'
  BY OverInv
<1>2. TypeOK'
  BY <1>1, SMTT(30) DEF IInv, TypeOK, EffectRec
<1> QED BY <1>1, <1>2, ServiceFrame DEF IInv

\* An effect keeps the invariant when its projection is written or has failed.
LEMMA ProjectedInv ==
  ASSUME IInv, NEW w \in Workspace, NEW d \in Drain, Projected(w, d) \/ EffectFails(w, d)
  PROVE  IInv'
<1> DEFINE n == effect[w][d].n
<1>1. /\ Busy(w, d) /\ Over(w, d)
      /\ UNCHANGED <<host, instance, runtime, call, stop, begun, saved, token, shown, held, stray>>
      /\ complete' \in {complete, [complete EXCEPT ![w] = n]}
      /\ lost' \in {lost, [lost EXCEPT ![w] = n]}
  BY DEF Projected, EffectFails, Busy
<1>2. n \in Save \cup {0}
  BY LaneFacts DEF IInv, EffectRec
<1>3. {complete, lost} \subseteq [Workspace -> Save \cup {0}]
  BY LaneFacts DEF IInv
<1> HIDE DEF n
<1>4. {complete', lost'} \subseteq [Workspace -> Save \cup {0}]
  <2> HIDE DEF Save
  <2> QED BY <1>1, <1>2, <1>3
<1> QED BY <1>1, <1>4, EffectEndsInv

\* A write that outlived its registration keeps the invariant when it lands.
LEMMA StrayLandsInv ==
  ASSUME IInv, NEW w \in Workspace, StrayLands(w)
  PROVE  IInv'
<1>1. PICK n \in stray[w] : /\ held' = [held EXCEPT ![w] = n]
                            /\ stray' = [stray EXCEPT ![w] = @ \ {n}]
  BY DEF StrayLands
<1>2. UNCHANGED <<host, instance, runtime, call, stop, begun, saved, token, pending, effect,
                  shown, complete, lost>>
  BY DEF StrayLands
<1>3. /\ stray' \in [Workspace -> SUBSET Save]
      /\ held' \in [Workspace -> Save \cup {0}]
  <2>1. /\ stray \in [Workspace -> SUBSET Save]
        /\ held \in [Workspace -> Save \cup {0}]
    BY StrayType, LaneFacts DEF IInv
  <2> HIDE DEF Save
  <2>2. n \in Save
    BY <2>1
  <2> QED BY <1>1, <2>1, <2>2
<1>4. TypeOK'
  <2>1. TypeOK
    BY DEF IInv
  <2> HIDE DEF Runtime, Registration, Save, Drain, Stop
  <2> QED BY <1>2, <1>3, <2>1 DEF TypeOK
<1>5. LaneInOrder'
  BY <1>2 DEF IInv, LaneInOrder, OneDrain, EffectsFollow, PendingIsNewer, Busy, Running
<1> QED BY <1>2, <1>4, <1>5, ServiceFrame DEF IInv

-----------------------------------------------------------------------------
\* Every step keeps the invariant.
LEMMA NextInv == IInv /\ [Next]_vars => IInv'
<1> SUFFICES ASSUME IInv, [Next]_vars PROVE IInv'
  OBVIOUS
<1>1. CASE Register
  BY <1>1, RegisterInv
<1>2. ASSUME NEW s \in Stop, Unregister(s) \/ StopReturns(s) PROVE IInv'
  BY <1>2, UnregisterInv, StopReturnsInv
<1>3. ASSUME NEW i \in Runtime, Destroyed(i) PROVE IInv'
  BY <1>3, DestroyedInv
<1>4. ASSUME NEW w \in Workspace, NEW c \in Call,
             Begin(w, c) \/ CallInit(w, c) \/ CallEnds(w, c)
      PROVE  IInv'
  <2>1. CASE CallEnds(w, c)
    BY <2>1, CallOverInv DEF CallEnds
  <2> QED BY <1>4, <2>1, BeginInv, CallInitInv
<1>5. ASSUME NEW w \in Workspace, SaveBegins(w) \/ SaveEnds(w) \/ StrayLands(w) PROVE IInv'
  BY <1>5, SaveBeginsInv, SaveEndsInv, StrayLandsInv
<1>6. ASSUME NEW w \in Workspace, Effect(w) PROVE IInv'
  BY <1>6, PathFoundInv, EffectInitInv, ProjectInv, ProjectedInv DEF Effect
<1>7. CASE UNCHANGED vars
  <2>1. TypeOK'
    BY <1>7 DEF vars, IInv, TypeOK
  <2>2. LaneInOrder'
    BY <1>7 DEF vars, IInv, LaneInOrder, OneDrain, EffectsFollow, PendingIsNewer, Busy, Running
  <2> QED BY <1>7, <2>1, <2>2, ServiceFrame DEF vars, IInv
<1> QED BY <1>1, <1>2, <1>3, <1>4, <1>5, <1>6, <1>7 DEF Next

\* The invariant holds in every reachable state.
LEMMA Invariance == Spec => []IInv
BY InitInv, NextInv, PTL DEF Spec

\* However calls, projections, registrations and stops overlap, every runtime
\* that has not been disposed of is in the map and of the current generation,
\* and a caller whose guard holds has such a runtime.
THEOREM OwnedCorrect == Spec => []RuntimesAreOwned
<1>1. IInv => RuntimesAreOwned
  BY DEF IInv, ServiceInv, RuntimesAreOwned
<1> QED BY <1>1, Invariance, PTL

\* A stopAll that has come back leaves nothing at work of its generation or
\* of an earlier one.
THEOREM StopCorrect == Spec => []StopIsComplete
<1>1. IInv => StopIsComplete
  BY DEF IInv, ServiceInv, StopsAwait, StopIsComplete
<1> QED BY <1>1, Invariance, PTL

\* A projection that writes is newer than what is shown.
LEMMA StepImplements == IInv /\ [Next]_vars => [Latest!Next]_(Latest!vars)
<1> SUFFICES ASSUME IInv, [Next]_vars PROVE [Latest!Next]_(Latest!vars)
  OBVIOUS
<1>1. ASSUME NEW w \in Workspace, SaveEnds(w) PROVE Latest!Next
  <2>1. saved' = [saved EXCEPT ![w] = @ + 1] /\ shown' = shown
    BY <1>1 DEF SaveEnds
  <2> QED BY <2>1 DEF Latest!Next, Latest!Request
<1>2. ASSUME NEW w \in Workspace, NEW d \in Drain, Project(w, d) PROVE Latest!Next
  <2>1. shown' = [shown EXCEPT ![w] = effect[w][d].n] /\ saved' = saved
    BY <1>2 DEF Project
  <2>2. effect[w][d].n \in 1..saved[w] /\ shown[w] < effect[w][d].n
    BY <1>2 DEF Project, IInv, LaneInOrder, EffectsFollow, Busy
  <2>3. shown[w] < saved[w] /\ effect[w][d].n \in (shown[w] + 1)..saved[w]
    BY <2>2, LaneFacts DEF IInv
  <2>4. Latest!Apply(w)
    BY <2>1, <2>3 DEF Latest!Apply
  <2> QED BY <2>4 DEF Latest!Next
<1>3. CASE UNCHANGED <<saved, shown>>
  BY <1>3 DEF Latest!vars
<1>4. \/ \E w \in Workspace : SaveEnds(w)
      \/ \E w \in Workspace, d \in Drain : Project(w, d)
      \/ UNCHANGED <<saved, shown>>
  BY DEF Next, vars, Register, Unregister, StopReturns, Destroyed, Begin, CallInit, CallEnds,
     SaveBegins, StrayLands, Effect, PathFound, EffectInit, Projected, EffectFails
<1> QED BY <1>1, <1>2, <1>3, <1>4

\* The projection queue implements LatestWrite: its effects begin to write in
\* the order of the saves, whatever is registered, stopped or fails.
THEOREM EffectsImplement == Spec => EffectsInOrder
<1>1. Init => Latest!Init
  BY DEF Init, Latest!Init
<1> QED BY <1>1, StepImplements, Invariance, PTL DEF Spec, EffectsInOrder, Latest!Spec

-----------------------------------------------------------------------------
\* What the participants hold, and what may still land: within a registration
\* neither is older than a projection that was written.
Same(w, m, n) == m # 0 /\ n # 0 /\ token[w][m] = token[w][n]
TokensKnown == \A w \in Workspace, n \in Save : token[w][n] <= host.number
HeldWasShown == \A w \in Workspace : held[w] <= shown[w]
StraysAreOver ==
  \A w \in Workspace : \A n \in stray[w] :
    /\ n <= shown[w]
    /\ host.on => token[w][n] < host.number
    /\ Same(w, held[w], n) => held[w] <= n
    /\ \A m \in stray[w] : Same(w, m, n) => m = n
WritersAreShown ==
  \A w \in Workspace, d \in Drain : effect[w][d].at = "writing" =>
    LET n == effect[w][d].n IN
    /\ shown[w] = n
    /\ Same(w, held[w], n) => held[w] = n
    /\ \A m \in stray[w] : Same(w, m, n) => m = n
HeldInv == TokensKnown /\ HeldWasShown /\ StraysAreOver /\ WritersAreShown

\* What the invariant says of the numbers that order projections.
LEMMA HeldFacts ==
  ASSUME IInv
  PROVE  /\ \A w \in Workspace, n \in Save : token[w][n] \in Nat
         /\ host.number \in Nat
         /\ \A w \in Workspace : /\ held[w] \in Save \cup {0} /\ shown[w] \in Save \cup {0}
                                 /\ stray[w] \subseteq Save /\ begun[w] \in Save \cup {0}
                                 /\ shown[w] <= begun[w]
         /\ \A w \in Workspace, d \in Drain : effect[w][d].n \in Save \cup {0}
<1>1. Registration \subseteq Nat
  OBVIOUS
<1>2. token \in [Workspace -> [Save -> Registration]] /\ stray \in [Workspace -> SUBSET Save]
  BY DEF IInv, TypeOK
<1>3. \A w \in Workspace, n \in Save : token[w][n] \in Nat
  <2> HIDE DEF Save, Registration
  <2> QED BY <1>1, <1>2
<1>4. \A w \in Workspace : /\ held[w] \in Save \cup {0} /\ shown[w] \in Save \cup {0}
                          /\ stray[w] \subseteq Save /\ begun[w] \in Save \cup {0}
  <2>1. {held, shown, begun} \subseteq [Workspace -> Save \cup {0}]
    BY LaneFacts DEF IInv
  <2> HIDE DEF Save
  <2> QED BY <1>2, <2>1
<1>5. \A w \in Workspace, d \in Drain : effect[w][d].n \in Save \cup {0}
  BY LaneFacts DEF IInv, EffectRec
<1>6. \A w \in Workspace : shown[w] <= begun[w]
  <2>1. \A w \in Workspace : begun[w] \in Nat /\ saved[w] \in Nat /\ shown[w] \in Nat
    BY LaneFacts DEF IInv
  <2>2. \A w \in Workspace : shown[w] <= saved[w] /\ saved[w] <= begun[w]
    BY DEF IInv, LaneInOrder
  <2> SUFFICES ASSUME NEW w \in Workspace PROVE shown[w] <= begun[w]
    OBVIOUS
  <2>3. shown[w] \in Nat /\ saved[w] \in Nat /\ begun[w] \in Nat
    BY <2>1
  <2>4. shown[w] <= saved[w] /\ saved[w] <= begun[w]
    BY <2>2
  <2> HIDE DEF Save, Drain, Registration, Runtime, Stop
  <2> QED BY ONLY <2>3, <2>4
<1>7. host.number \in Nat
  BY TypeFacts DEF IInv
<1> QED BY <1>3, <1>4, <1>5, <1>6, <1>7

\* A step that neither writes nor lands, and whose new effects do not write.
LEMMA HeldFrame ==
  ASSUME IInv, HeldInv, UNCHANGED <<host, token, shown, held, stray>>,
         \A w \in Workspace, d \in Drain :
           effect'[w][d].at = "writing" => effect'[w][d] = effect[w][d]
  PROVE  HeldInv'
<1>1. TokensKnown' /\ HeldWasShown' /\ StraysAreOver'
  BY DEF HeldInv, TokensKnown, HeldWasShown, StraysAreOver, Same
<1>2. WritersAreShown'
  BY DEF HeldInv, WritersAreShown, Same
<1> QED BY <1>1, <1>2 DEF HeldInv

\* A registration keeps the order of projections: its number is new.
LEMMA HeldRegister ==
  ASSUME IInv, HeldInv, Register
  PROVE  HeldInv'
<1>1. /\ host'.number = host.number + 1
      /\ UNCHANGED <<token, shown, held, stray, effect>>
  BY DEF Register
<1>2. TokensKnown' /\ \A w \in Workspace, n \in Save : token'[w][n] < host'.number
  BY <1>1, HeldFacts DEF HeldInv, TokensKnown
<1>3. HeldWasShown' /\ WritersAreShown'
  BY <1>1 DEF HeldInv, HeldWasShown, WritersAreShown, Same
<1>4. StraysAreOver'
  <2> SUFFICES ASSUME NEW w \in Workspace, NEW n \in stray[w]
               PROVE  /\ n <= shown[w]
                      /\ token[w][n] < host'.number
                      /\ Same(w, held[w], n) => held[w] <= n
                      /\ \A m \in stray[w] : Same(w, m, n) => m = n
    BY <1>1 DEF StraysAreOver, Same
  <2>1. n \in Save
    BY HeldFacts
  <2> QED BY <1>1, <1>2, <2>1 DEF HeldInv, StraysAreOver
<1> QED BY <1>2, <1>3, <1>4 DEF HeldInv

\* A stop keeps the order of projections: what it leaves behind are strays.
LEMMA HeldUnregister ==
  ASSUME IInv, HeldInv, NEW s \in Stop, Unregister(s)
  PROVE  HeldInv'
<1>1. /\ ~host'.on /\ host'.number = host.number
      /\ UNCHANGED <<token, shown, held, effect>>
  BY TypeFacts DEF Unregister, IInv
<1>2. \A w \in Workspace : stray[w] \subseteq stray'[w] /\ stray'[w] \subseteq stray[w] \cup Writing(w)
  <2>1. stray \in [Workspace -> SUBSET Save]
    BY StrayType DEF IInv
  <2>2. stray' \in {stray, [w \in Workspace |-> stray[w] \cup IF host.on THEN Writing(w) ELSE {}]}
    BY DEF Unregister
  <2> HIDE DEF Save
  <2> QED BY <2>1, <2>2
<1>3. \A w \in Workspace : \A n \in stray'[w] :
        n \in stray[w] \/ \E d \in Drain : effect[w][d].at = "writing" /\ n = effect[w][d].n
  BY <1>2 DEF Writing
<1>4. TokensKnown' /\ HeldWasShown'
  BY <1>1 DEF HeldInv, TokensKnown, HeldWasShown
<1>5. ASSUME NEW w \in Workspace, NEW d \in Drain, NEW e \in Drain,
             effect[w][d].at = "writing", effect[w][e].at = "writing"
      PROVE  effect[w][d].n = effect[w][e].n
  BY <1>5 DEF IInv, LaneInOrder, OneDrain, Busy
<1>6. StraysAreOver'
  <2> SUFFICES ASSUME NEW w \in Workspace, NEW n \in stray'[w]
               PROVE  /\ n <= shown[w]
                      /\ Same(w, held[w], n) => held[w] <= n
                      /\ \A m \in stray'[w] : Same(w, m, n) => m = n
    BY <1>1 DEF StraysAreOver, Same
  <2>1. CASE n \in stray[w]
    <3>1. n <= shown[w] /\ (Same(w, held[w], n) => held[w] <= n)
      BY <2>1 DEF HeldInv, StraysAreOver
    <3>2. \A m \in stray'[w] : Same(w, m, n) => m = n
      BY <1>3, <2>1 DEF HeldInv, StraysAreOver, WritersAreShown, Same
    <3> QED BY <3>1, <3>2
  <2>2. CASE \E d \in Drain : effect[w][d].at = "writing" /\ n = effect[w][d].n
    <3>1. PICK d \in Drain : effect[w][d].at = "writing" /\ n = effect[w][d].n
      BY <2>2
    <3>2. n = shown[w] /\ (Same(w, held[w], n) => held[w] = n)
      BY <3>1 DEF HeldInv, WritersAreShown
    <3>3. \A m \in stray'[w] : Same(w, m, n) => m = n
      BY <1>3, <1>5, <3>1 DEF HeldInv, WritersAreShown
    <3> QED BY <3>2, <3>3, HeldFacts
  <2> QED BY <1>3, <2>1, <2>2
<1>7. WritersAreShown'
  <2> SUFFICES ASSUME NEW w \in Workspace, NEW d \in Drain, effect[w][d].at = "writing"
               PROVE  LET n == effect[w][d].n IN
                      /\ shown[w] = n
                      /\ Same(w, held[w], n) => held[w] = n
                      /\ \A m \in stray'[w] : Same(w, m, n) => m = n
    BY <1>1 DEF WritersAreShown, Same
  <2> QED BY <1>3, <1>5 DEF HeldInv, WritersAreShown
<1> QED BY <1>4, <1>6, <1>7 DEF HeldInv

\* What a new save captures is not the token of anything shown.
LEMMA HeldSaveBegins ==
  ASSUME IInv, HeldInv, NEW w \in Workspace, SaveBegins(w)
  PROVE  HeldInv'
<1> DEFINE k == begun[w] + 1
           t == IF host.on THEN host.number ELSE 0
           SameNext(v, m, n) == m # 0 /\ n # 0 /\ token'[v][m] = token'[v][n]
<1>1. /\ token' = [token EXCEPT ![w][k] = t] /\ k \in Save
      /\ UNCHANGED <<host, shown, held, stray, effect>>
  BY HeldFacts DEF SaveBegins
<1>2. k = begun[w] + 1 /\ t \in Nat /\ t <= host.number
  BY HeldFacts
<1> HIDE DEF k, t
<1>3. \A v \in Workspace, n \in Save :
        /\ v # w \/ n # k => token'[v][n] = token[v][n]
        /\ token'[v][n] = token[v][n] \/ token'[v][n] = t
  <2>1. token \in [Workspace -> [Save -> Registration]]
    BY DEF IInv, TypeOK
  <2> HIDE DEF Save, Registration
  <2> QED BY <1>1, <2>1
<1>4. TokensKnown'
  BY <1>1, <1>2, <1>3, HeldFacts DEF HeldInv, TokensKnown
<1>5. \A v \in Workspace : \A n \in Save : n <= shown[v] => token'[v][n] = token[v][n]
  BY <1>2, <1>3, HeldFacts
<1>6. /\ \A v \in Workspace : held[v] <= shown[v] /\ \A n \in stray[v] : n <= shown[v]
      /\ \A v \in Workspace, d \in Drain : effect[v][d].at = "writing" => effect[v][d].n = shown[v]
  BY DEF HeldInv, HeldWasShown, StraysAreOver, WritersAreShown
<1>7. \A v \in Workspace : \A m, n \in Save \cup {0} :
        m <= shown[v] /\ n <= shown[v] => (SameNext(v, m, n) <=> Same(v, m, n))
  BY <1>5 DEF Same
<1> HIDE DEF SameNext
<1>8. HeldWasShown'
  BY <1>1 DEF HeldInv, HeldWasShown
<1>9. StraysAreOver'
  <2> SUFFICES ASSUME NEW v \in Workspace, NEW n \in stray[v]
               PROVE  /\ n <= shown[v]
                      /\ host.on => token'[v][n] < host.number
                      /\ SameNext(v, held[v], n) => held[v] <= n
                      /\ \A m \in stray[v] : SameNext(v, m, n) => m = n
    BY <1>1 DEF StraysAreOver, Same, SameNext
  <2>1. n \in Save /\ held[v] \in Save \cup {0} /\ stray[v] \subseteq Save
    BY HeldFacts
  <2>2. SameNext(v, held[v], n) => Same(v, held[v], n)
    BY <1>6, <1>7, <2>1
  <2>3. ASSUME NEW m \in stray[v] PROVE SameNext(v, m, n) => Same(v, m, n)
    <3>1. m \in Save /\ m <= shown[v] /\ n <= shown[v]
      BY <1>6, <2>1
    <3> HIDE DEF Save
    <3> QED BY <1>7, <2>1, <3>1
  <2>4. token'[v][n] = token[v][n]
    BY <1>5, <1>6, <2>1
  <2> QED BY <2>2, <2>3, <2>4 DEF HeldInv, StraysAreOver
<1>10. WritersAreShown'
  <2> SUFFICES ASSUME NEW v \in Workspace, NEW d \in Drain, effect[v][d].at = "writing"
               PROVE  LET n == effect[v][d].n IN
                      /\ shown[v] = n
                      /\ SameNext(v, held[v], n) => held[v] = n
                      /\ \A m \in stray[v] : SameNext(v, m, n) => m = n
    BY <1>1 DEF WritersAreShown, Same, SameNext
  <2>1. /\ effect[v][d].n \in Save \cup {0} /\ held[v] \in Save \cup {0}
        /\ stray[v] \subseteq Save /\ shown[v] \in Save \cup {0}
    BY HeldFacts
  <2>4. effect[v][d].n <= shown[v] /\ held[v] <= shown[v] /\ \A m \in stray[v] : m <= shown[v]
    BY <1>6, <2>1
  <2> HIDE DEF Save
  <2>2. SameNext(v, held[v], effect[v][d].n) => Same(v, held[v], effect[v][d].n)
    BY <1>7, <2>1, <2>4
  <2>3. ASSUME NEW m \in stray[v]
        PROVE  SameNext(v, m, effect[v][d].n) => Same(v, m, effect[v][d].n)
    <3>1. m \in Save
      BY <2>1
    <3> QED BY <1>7, <2>1, <2>4, <3>1
  <2> QED BY <2>2, <2>3 DEF HeldInv, WritersAreShown
<1> QED BY <1>4, <1>8, <1>9, <1>10 DEF HeldInv

\* The effects' own steps, but for Project, and the end of a save.
LEMMA HeldOthers ==
  ASSUME IInv, HeldInv, NEW w \in Workspace, NEW d \in Drain,
         SaveEnds(w) \/ PathFound(w, d) \/ EffectInit(w, d) \/ Projected(w, d)
           \/ EffectFails(w, d)
  PROVE  HeldInv'
<1>1. UNCHANGED <<host, token, shown, held, stray>>
  BY DEF SaveEnds, PathFound, EffectInit, Projected, EffectFails
<1>2. effect \in [Workspace -> [Drain -> EffectRec]]
  BY LaneFacts DEF IInv
<1>3. \/ effect' = effect
      \/ \E e \in Drain : \E r \in EffectRec :
           r.at # "writing" /\ effect' = [effect EXCEPT ![w][e] = r]
  <2>1. CASE SaveEnds(w)
    <3>1. saved[w] + 1 \in Save \cup {0}
      <4>1. saved[w] \in Nat /\ begun[w] \in Save \cup {0} /\ saved[w] < begun[w]
        BY <2>1, LaneFacts, HeldFacts DEF SaveEnds, IInv
      <4> QED BY <4>1
    <3>2. [n |-> saved[w] + 1, at |-> "path"] \in EffectRec
      BY <3>1 DEF EffectRec
    <3>3. \/ effect' = effect
          \/ \E e \in Drain :
               effect' = [effect EXCEPT ![w][e] = [n |-> saved[w] + 1, at |-> "path"]]
      BY <2>1 DEF SaveEnds
    <3> QED BY <3>2, <3>3
  <2>2. ASSUME NEW where \in {"path", "init", "got"}, At(w, d, where)
        PROVE  \E r \in EffectRec : r.at # "writing" /\ effect' = [effect EXCEPT ![w][d] = r]
    <3>1. effect[w][d] \in EffectRec
      BY <1>2
    <3>2. [effect[w][d] EXCEPT !.at = where] \in EffectRec
          /\ [effect[w][d] EXCEPT !.at = where].at # "writing"
      BY <3>1 DEF EffectRec
    <3>3. effect' = [effect EXCEPT ![w][d] = [effect[w][d] EXCEPT !.at = where]]
      BY <2>2 DEF At
    <3> QED BY <3>2, <3>3
  <2>3. CASE Over(w, d)
    <3> DEFINE r == IF pending[w] = 0 THEN NoEffect ELSE [n |-> pending[w], at |-> "path"]
    <3>1. r \in EffectRec
      BY LaneFacts DEF IInv, NoEffect, EffectRec
    <3>2. r.at # "writing"
      BY DEF NoEffect
    <3>3. effect' = [effect EXCEPT ![w][d] = r]
      BY <2>3 DEF Over
    <3> QED BY <3>1, <3>2, <3>3
  <2>4. \/ SaveEnds(w) \/ Over(w, d)
        \/ \E where \in {"path", "init", "got"} : At(w, d, where)
    BY DEF PathFound, EffectInit, Projected, EffectFails
  <2> QED BY <2>1, <2>2, <2>3, <2>4
<1>4. \A v \in Workspace, e \in Drain :
        effect'[v][e].at = "writing" => effect'[v][e] = effect[v][e]
  <2>1. ASSUME NEW e \in Drain, NEW r \in EffectRec, r.at # "writing",
               effect' = [effect EXCEPT ![w][e] = r],
               NEW v \in Workspace, NEW f \in Drain, effect'[v][f].at = "writing"
        PROVE  effect'[v][f] = effect[v][f]
    <3> HIDE DEF Drain, EffectRec
    <3> QED BY <1>2, <2>1
  <2> QED BY <1>3, <2>1
<1> QED BY <1>1, <1>4, HeldFrame

\* A projection that writes is newer than all that is held, and of another
\* registration than whatever may still land.
LEMMA HeldProject ==
  ASSUME IInv, HeldInv, NEW w \in Workspace, NEW d \in Drain, Project(w, d)
  PROVE  HeldInv' /\ held[w] < held'[w] /\ \A v \in Workspace : v # w => held'[v] = held[v]
<1> DEFINE n == effect[w][d].n
<1>1. /\ effect[w][d].at = "got" /\ host.on /\ token[w][n] = host.number
      /\ shown' = [shown EXCEPT ![w] = n] /\ held' = [held EXCEPT ![w] = n]
      /\ At(w, d, "writing")
      /\ UNCHANGED <<host, token, stray>>
  BY DEF Project, TokenActive
<1>2. shown[w] < n /\ n \in Save \cup {0} /\ n # 0 /\ held[w] <= shown[w]
  BY <1>1, HeldFacts DEF HeldInv, HeldWasShown, IInv, LaneInOrder, EffectsFollow, Busy
<1>3. n = effect[w][d].n
  OBVIOUS
<1> HIDE DEF n
<1>4. /\ shown'[w] = n /\ held'[w] = n
      /\ \A v \in Workspace : v # w => shown'[v] = shown[v] /\ held'[v] = held[v]
  <2>1. {shown, held} \subseteq [Workspace -> Save \cup {0}]
    BY LaneFacts DEF IInv
  <2> HIDE DEF Save
  <2> QED BY <1>1, <2>1
<1>5. \A v \in Workspace, e \in Drain :
        effect'[v][e].at = "writing" =>
          \/ v = w /\ e = d /\ effect'[v][e].n = n
          \/ v # w /\ effect'[v][e] = effect[v][e]
  <2>1. \A e \in Drain : e # d => effect[w][e].at = "idle"
    BY <1>1 DEF IInv, LaneInOrder, OneDrain, Busy
  <2>2. effect \in [Workspace -> [Drain -> EffectRec]]
    BY LaneFacts DEF IInv
  <2>3. effect[w][d] \in EffectRec
    BY <2>2
  <2>4. [effect[w][d] EXCEPT !.at = "writing"].n = n
    BY <1>3, <2>3 DEF EffectRec
  <2>5. effect' = [effect EXCEPT ![w][d] = [effect[w][d] EXCEPT !.at = "writing"]]
    BY <1>1 DEF At
  <2> HIDE DEF Drain, EffectRec
  <2> QED BY <2>1, <2>2, <2>4, <2>5
<1>6. \A m \in stray[w] : ~Same(w, m, n)
  BY <1>1, <1>2, HeldFacts DEF HeldInv, StraysAreOver, Same
<1>7. TokensKnown' /\ HeldWasShown'
  BY <1>1, <1>2, <1>4 DEF HeldInv, TokensKnown, HeldWasShown
<1>8. StraysAreOver'
  <2> SUFFICES ASSUME NEW v \in Workspace, NEW k \in stray[v]
               PROVE  /\ k <= shown'[v]
                      /\ host.on => token[v][k] < host.number
                      /\ Same(v, held'[v], k) => held'[v] <= k
                      /\ \A m \in stray[v] : Same(v, m, k) => m = k
    BY <1>1 DEF StraysAreOver, Same
  <2>1. CASE v = w
    <3>1. k <= shown[w] /\ k \in Save /\ shown[w] \in Save \cup {0}
      BY <2>1, HeldFacts DEF HeldInv, StraysAreOver
    <3>2. ~Same(w, n, k)
      BY <1>6, <2>1 DEF Same
    <3> QED BY <1>2, <1>4, <2>1, <3>1, <3>2 DEF HeldInv, StraysAreOver
  <2>2. CASE v # w
    BY <1>4, <2>2 DEF HeldInv, StraysAreOver
  <2> QED BY <2>1, <2>2
<1>9. WritersAreShown'
  <2> SUFFICES ASSUME NEW v \in Workspace, NEW e \in Drain, effect'[v][e].at = "writing"
               PROVE  LET k == effect'[v][e].n IN
                      /\ shown'[v] = k
                      /\ Same(v, held'[v], k) => held'[v] = k
                      /\ \A m \in stray[v] : Same(v, m, k) => m = k
    BY <1>1 DEF WritersAreShown, Same
  <2>1. CASE v = w
    BY <1>4, <1>5, <1>6, <2>1
  <2>2. CASE v # w
    BY <1>4, <1>5, <2>2 DEF HeldInv, WritersAreShown
  <2> QED BY <2>1, <2>2
<1> QED BY <1>2, <1>4, <1>7, <1>8, <1>9, HeldFacts DEF HeldInv

\* A write that lands late is older than what is held only if that is of
\* another registration.
LEMMA HeldStray ==
  ASSUME IInv, HeldInv, NEW w \in Workspace, StrayLands(w)
  PROVE  /\ HeldInv'
         /\ held'[w] < held[w] => token[w][held'[w]] # token[w][held[w]]
         /\ \A v \in Workspace : v # w => held'[v] = held[v]
<1>1. PICK n \in stray[w] : /\ held' = [held EXCEPT ![w] = n]
                            /\ stray' = [stray EXCEPT ![w] = @ \ {n}]
  BY DEF StrayLands
<1>2. UNCHANGED <<host, token, effect, shown>>
  BY DEF StrayLands
<1>3. /\ held'[w] = n /\ stray'[w] = stray[w] \ {n}
      /\ \A v \in Workspace : v # w => held'[v] = held[v] /\ stray'[v] = stray[v]
  <2>1. /\ stray \in [Workspace -> SUBSET Save]
        /\ held \in [Workspace -> Save \cup {0}]
    BY StrayType, LaneFacts DEF IInv
  <2> HIDE DEF Save
  <2> QED BY <1>1, <2>1
<1>4. /\ n <= shown[w] /\ (Same(w, held[w], n) => held[w] <= n)
      /\ \A m \in stray[w] : Same(w, m, n) => m = n
  BY DEF HeldInv, StraysAreOver
<1>5. TokensKnown' /\ HeldWasShown'
  BY <1>2, <1>3, <1>4 DEF HeldInv, TokensKnown, HeldWasShown
<1>6. StraysAreOver'
  <2> SUFFICES ASSUME NEW v \in Workspace, NEW k \in stray'[v]
               PROVE  /\ k <= shown[v]
                      /\ host.on => token[v][k] < host.number
                      /\ Same(v, held'[v], k) => held'[v] <= k
                      /\ \A m \in stray'[v] : Same(v, m, k) => m = k
    BY <1>2 DEF StraysAreOver, Same
  <2>1. CASE v = w
    BY <1>3, <2>1 DEF HeldInv, StraysAreOver, Same
  <2>2. CASE v # w
    BY <1>3, <2>2 DEF HeldInv, StraysAreOver
  <2> QED BY <2>1, <2>2
<1>7. WritersAreShown'
  <2> SUFFICES ASSUME NEW v \in Workspace, NEW e \in Drain, effect[v][e].at = "writing"
               PROVE  LET k == effect[v][e].n IN
                      /\ shown[v] = k
                      /\ Same(v, held'[v], k) => held'[v] = k
                      /\ \A m \in stray'[v] : Same(v, m, k) => m = k
    BY <1>2 DEF WritersAreShown, Same
  <2>1. CASE v = w
    BY <1>3, <2>1 DEF HeldInv, WritersAreShown, Same
  <2>2. CASE v # w
    BY <1>3, <2>2 DEF HeldInv, WritersAreShown
  <2> QED BY <2>1, <2>2
<1>8. held'[w] < held[w] => token[w][held'[w]] # token[w][held[w]]
  <2>1. n \in Save /\ held[w] \in Save \cup {0}
    BY HeldFacts
  <2> QED BY <1>3, <1>4, <2>1 DEF Same
<1> QED BY <1>3, <1>5, <1>6, <1>7, <1>8 DEF HeldInv

\* Nothing is projected at first.
LEMMA HeldInit == Init => HeldInv
BY DEF Init, NoEffect, HeldInv, TokensKnown, HeldWasShown, StraysAreOver, WritersAreShown

\* Every step keeps the order of what is held.
LEMMA HeldNext ==
  ASSUME IInv, HeldInv, [Next]_vars
  PROVE  /\ HeldInv'
         /\ \A w \in Workspace : held'[w] < held[w] => token[w][held'[w]] # token[w][held[w]]
<1> DEFINE Goal == /\ HeldInv'
                   /\ \A w \in Workspace : held'[w] < held[w] => token[w][held'[w]] # token[w][held[w]]
<1>1. \A w \in Workspace : held[w] \in Nat
  BY HeldFacts
<1>2. CASE held' = held /\ HeldInv'
  BY <1>1, <1>2
<1>3. CASE Register
  BY <1>2, <1>3, HeldRegister DEF Register
<1>4. ASSUME NEW s \in Stop, Unregister(s) PROVE Goal
  BY <1>2, <1>4, HeldUnregister DEF Unregister
<1>5. ASSUME NEW w \in Workspace, SaveBegins(w) PROVE Goal
  BY <1>2, <1>5, HeldSaveBegins DEF SaveBegins
<1>6. ASSUME NEW w \in Workspace, NEW d \in Drain, Project(w, d) PROVE Goal
  <2>1. held[w] < held'[w] /\ held[w] \in Nat
    BY <1>6, HeldProject, HeldFacts
  <2>2. held'[w] \in Nat
    <3>1. held' = [held EXCEPT ![w] = effect[w][d].n] /\ held \in [Workspace -> Save \cup {0}]
      BY <1>6, LaneFacts DEF Project, IInv
    <3> HIDE DEF Save
    <3>2. held'[w] = effect[w][d].n
      BY <3>1
    <3> QED BY <3>2, HeldFacts DEF Save
  <2> QED BY <1>1, <1>6, <2>1, <2>2, HeldProject
<1>7. ASSUME NEW w \in Workspace, StrayLands(w) PROVE Goal
  BY <1>1, <1>7, HeldStray
<1>8. ASSUME NEW w \in Workspace, NEW d \in Drain,
             SaveEnds(w) \/ PathFound(w, d) \/ EffectInit(w, d) \/ Projected(w, d)
               \/ EffectFails(w, d)
      PROVE  Goal
  <2>1. held' = held
    BY <1>8 DEF SaveEnds, PathFound, EffectInit, Projected, EffectFails
  <2> QED BY <1>2, <1>8, <2>1, HeldOthers
<1>9. CASE UNCHANGED <<host, token, effect, shown, held, stray>>
  BY <1>2, <1>9, HeldFrame
<1>10. \/ Register \/ \E s \in Stop : Unregister(s)
       \/ \E w \in Workspace : \/ SaveBegins(w) \/ StrayLands(w)
                               \/ \E d \in Drain : \/ Project(w, d) \/ SaveEnds(w)
                                     \/ PathFound(w, d) \/ EffectInit(w, d) \/ Projected(w, d)
                                     \/ EffectFails(w, d)
       \/ UNCHANGED <<host, token, effect, shown, held, stray>>
  BY DEF Next, vars, Effect, StopReturns, Destroyed, Begin, CallInit, CallEnds
<1> QED BY <1>3, <1>4, <1>5, <1>6, <1>7, <1>8, <1>9, <1>10

\* As long as the host stays registered, no participant goes back to an older
\* canvas, whatever a stop has left under way.
THEOREM ProjectionsCorrect == Spec => ProjectionsInOrder
<1>1. Spec => [](IInv /\ HeldInv)
  <2>1. Spec => []HeldInv
    BY HeldInit, HeldNext, Invariance, PTL DEF Spec
  <2> QED BY <2>1, Invariance, PTL
<1>2. IInv /\ HeldInv /\ [Next]_vars
        => [\A w \in Workspace : held'[w] < held[w] => token[w][held'[w]] # token[w][held[w]]]_vars
  <2> SUFFICES ASSUME IInv, HeldInv, [Next]_vars, NEW w \in Workspace, held'[w] < held[w]
               PROVE  token[w][held'[w]] # token[w][held[w]]
    OBVIOUS
  <2> QED BY HeldNext
<1> QED BY <1>1, <1>2, PTL DEF Spec, ProjectionsInOrder
=============================================================================
