------------------------ MODULE ActivityStore_proofs ------------------------
(***************************************************************************)
(* Proofs about the activity store, for any workspaces, any cache size and *)
(* any number of operations: no accepted change is forgotten, a close that *)
(* reports success has saved everything, and the store implements          *)
(* LatestWrite.  The inductive invariant adds what keeps a save honest     *)
(* (the snapshot being written is neither behind the file nor ahead of     *)
(* memory) and what a successful flush has settled.                        *)
(***************************************************************************)
EXTENDS ActivityStore, TLAPS

\* An operation is counted once, as waiting or as an accepted change.
Counted == \A w \in Workspace : rev[w] + waiting[w] <= asked

\* The file never holds a change that was not accepted.
FileBehind == \A w \in Workspace : disk[w] <= rev[w]

\* A loaded store knows at most what the file holds, and its running save
\* writes something that is newer than what it knows to be saved.
Honest(w) ==
  /\ store[w].saved <= disk[w]
  /\ Saving(store[w]) => /\ store[w].saved < store[w].saving
                         /\ disk[w] <= store[w].saving
                         /\ store[w].saving <= store[w].mem
SavesHonest == \A w \in Workspace : phase[w] = "in" => Honest(w)

\* A load is only under way for somebody.
LoadsAwaited ==
  \A w \in Workspace : phase[w] \in {"admitting", "reading"} => waiting[w] > 0

\* From the flush of a close on, as long as it has met no error, nobody
\* changes a store any more, and the stores it has ticked off are clean.
Flushed ==
  \/ close.pc = "closed" /\ close.left = {}
  \/ close.pc = "flushing" /\ ~close.errors
FlushSettles ==
  /\ close.pc = "closed" => close.left = {}
  /\ Flushed => \A w \in Workspace :
       /\ waiting[w] = 0
       /\ phase[w] = "in" /\ w \notin close.left => ~Dirty(store[w])

\* The inductive invariant.
IInv == /\ TypeOK /\ NothingForgotten
        /\ Counted /\ FileBehind /\ SavesHonest /\ LoadsAwaited /\ FlushSettles

USE DEF Rev, None, Dirty, Saving

-----------------------------------------------------------------------------
\* Init establishes the invariant.
LEMMA InitInv == Init => IInv
<1>0. 0 \in 0..MaxOps
  BY OpsAssumption
<1>1. Init => TypeOK
  <2>1. Unloaded \in StoreState
    BY <1>0 DEF Unloaded, StoreState
  <2>2. Idle \in [pc: {"idle", "evicting", "evicted"},
                  left: SUBSET Workspace, at: SUBSET Workspace]
    BY DEF Idle
  <2>3. Init => close \in [pc: {"open", "closing", "flushing", "closed", "failed"},
                           left: SUBSET Workspace, errors: BOOLEAN]
    BY DEF Init
  <2>4. Init => /\ store \in [Workspace -> StoreState]
                /\ evictor \in [Evictor -> [pc: {"idle", "evicting", "evicted"},
                                 left: SUBSET Workspace, at: SUBSET Workspace]]
    BY <2>1, <2>2 DEF Init
  <2>5. Init => /\ rev \in [Workspace -> Rev] /\ disk \in [Workspace -> Rev]
                /\ phase \in [Workspace -> {"out", "admitting", "reading", "in"}]
                /\ waiting \in [Workspace -> 0..MaxOps] /\ asked \in 0..MaxOps
                /\ queued \in BOOLEAN
    BY <1>0 DEF Init
  <2> QED BY <2>3, <2>4, <2>5 DEF TypeOK
<1>2. Init => /\ NothingForgotten /\ Counted /\ FileBehind /\ SavesHonest
              /\ LoadsAwaited /\ FlushSettles
  BY DEF Init, NothingForgotten, Counted, FileBehind, SavesHonest, LoadsAwaited,
         FlushSettles, Flushed
<1> QED BY <1>1, <1>2 DEF IInv

\* What starting a save and asking for one do to a store.
LEMMA SaveFacts ==
  ASSUME NEW s \in StoreState
  PROVE  /\ ScheduleSave(s) \in StoreState
         /\ ScheduleSave(s).mem = s.mem /\ ScheduleSave(s).saved = s.saved
         /\ ScheduleSave(s).saving = s.saving
         /\ PersistState(s) \in StoreState
         /\ PersistState(s).mem = s.mem /\ PersistState(s).saved = s.saved
         /\ PersistState(s).saving = IF Dirty(s) /\ ~Saving(s) THEN s.mem ELSE s.saving
         /\ FlushState(s) \in StoreState
         /\ FlushState(s).mem = s.mem /\ FlushState(s).saved = s.saved
         /\ FlushState(s).saving = IF Dirty(s) /\ ~Saving(s) THEN s.mem ELSE s.saving
  BY DEF StoreState, ScheduleSave, PersistState, FlushState

-----------------------------------------------------------------------------
\* A step that starts saves of loaded stores, and changes only who waits for
\* what in the eviction and the close.
LEMMA FlushInv ==
  ASSUME IInv,
         UNCHANGED <<rev, disk, phase, waiting, asked>>,
         store' \in [Workspace -> StoreState],
         \A w \in Workspace :
           /\ store'[w].mem = store[w].mem /\ store'[w].saved = store[w].saved
           /\ \/ store'[w].saving = store[w].saving
              \/ Dirty(store[w]) /\ ~Saving(store[w]) /\ store'[w].saving = store[w].mem,
         TypeOK',
         FlushSettles'
  PROVE  IInv'
<1>1. NothingForgotten' /\ Counted' /\ FileBehind' /\ LoadsAwaited'
  BY DEF IInv, NothingForgotten, Counted, FileBehind, LoadsAwaited
<1>2. SavesHonest'
  <2> SUFFICES ASSUME NEW w \in Workspace, phase[w] = "in" PROVE Honest(w)'
    BY DEF SavesHonest
  <2>1. /\ store[w] \in StoreState /\ rev[w] \in Nat /\ disk[w] \in Nat
        /\ disk[w] <= rev[w] /\ store[w].mem = rev[w] /\ Honest(w)
    BY OpsAssumption DEF IInv, TypeOK, FileBehind, NothingForgotten, SavesHonest
  <2> QED BY <2>1 DEF Honest, StoreState
<1> QED BY <1>1, <1>2 DEF IInv
-----------------------------------------------------------------------------
(* Operations.                                                             *)

\* An operation is asked for.
LEMMA RequestInv ==
  ASSUME IInv, NEW w \in Workspace, Request(w)
  PROVE  IInv'
<1>1. TypeOK'
  <2>1. asked' \in 0..MaxOps
    BY OpsAssumption DEF Request, IInv, TypeOK
  <2>2. waiting' \in [Workspace -> 0..MaxOps]
    <3>1. rev[w] \in Nat /\ waiting[w] \in Nat /\ rev[w] + waiting[w] <= asked
      BY OpsAssumption DEF IInv, TypeOK, Counted
    <3>2. waiting[w] + 1 \in 0..MaxOps
      BY <3>1, OpsAssumption DEF Request, IInv, TypeOK
    <3>3. waiting' = waiting \/ waiting' = [waiting EXCEPT ![w] = @ + 1]
      BY DEF Request
    <3> QED BY <3>2, <3>3 DEF IInv, TypeOK
  <2>3. phase' \in [Workspace -> {"out", "admitting", "reading", "in"}]
    BY DEF Request, IInv, TypeOK
  <2>4. evictor' \in [Evictor -> [pc: {"idle", "evicting", "evicted"},
                                  left: SUBSET Workspace, at: SUBSET Workspace]]
    <3>1. [pc |-> "evicting", left |-> Candidates, at |-> {}]
             \in [pc: {"idle", "evicting", "evicted"},
                  left: SUBSET Workspace, at: SUBSET Workspace]
      BY DEF Candidates, Loaded
    <3>2. \/ evictor' = evictor
          \/ evictor' = [evictor EXCEPT !["admit"] =
                           [pc |-> "evicting", left |-> Candidates, at |-> {}]]
      BY DEF Request
    <3> HIDE DEF Candidates
    <3> QED BY <3>1, <3>2 DEF IInv, TypeOK
  <2> QED BY <2>1, <2>2, <2>3, <2>4 DEF Request, IInv, TypeOK
<1>2. /\ \A v \in Workspace : v # w => waiting'[v] = waiting[v] /\ phase'[v] = phase[v]
      /\ \/ waiting'[w] = waiting[w] /\ phase'[w] = phase[w]
         \/ waiting'[w] = waiting[w] + 1 /\ (phase'[w] = phase[w] \/ phase[w] = "out")
      /\ phase[w] = "out" => phase'[w] \in {"out", "admitting", "reading"}
      /\ phase'[w] # phase[w] => waiting'[w] = waiting[w] + 1
  BY DEF Request, IInv, TypeOK
<1>3. asked' = asked + 1 /\ UNCHANGED <<rev, disk, store, close>> /\ close.pc = "open"
  BY DEF Request
<1>4. NothingForgotten' /\ FileBehind' /\ SavesHonest'
  BY <1>2, <1>3 DEF IInv, NothingForgotten, FileBehind, SavesHonest, Honest
<1>5. Counted' /\ LoadsAwaited'
  BY <1>2, <1>3, OpsAssumption DEF IInv, TypeOK, Counted, LoadsAwaited
<1>6. FlushSettles'
  BY <1>3 DEF FlushSettles, Flushed
<1> QED BY <1>1, <1>4, <1>5, <1>6 DEF IInv

\* An operation changes its store or refuses.
LEMMA OperateInv ==
  ASSUME IInv, NEW w \in Workspace, Operate(w)
  PROVE  IInv'
<1>1. /\ store[w] \in StoreState /\ rev[w] \in Nat /\ disk[w] \in Nat
      /\ waiting[w] \in Nat /\ waiting[w] > 0 /\ rev[w] + waiting[w] <= asked
      /\ phase[w] = "in" /\ store[w].mem = rev[w] /\ disk[w] <= rev[w] /\ Honest(w)
      /\ asked \in 0..MaxOps
  BY OpsAssumption DEF Operate, IInv, TypeOK, Counted, NothingForgotten, FileBehind,
                       SavesHonest
<1>2. rev[w] + 1 \in Rev
  BY <1>1, OpsAssumption
<1>3. [store[w] EXCEPT !.mem = @ + 1] \in StoreState
  BY <1>1, <1>2 DEF StoreState
<1>4. /\ Changed(store[w]) \in StoreState
      /\ Changed(store[w]).mem = rev[w] + 1
      /\ Changed(store[w]).saved = store[w].saved
      /\ Changed(store[w]).saving = store[w].saving
  BY <1>1, <1>3, SaveFacts DEF Changed, StoreState
<1>5. /\ waiting' = [waiting EXCEPT ![w] = @ - 1]
      /\ \/ store' = [store EXCEPT ![w] = Changed(store[w])] /\ rev' = [rev EXCEPT ![w] = @ + 1]
         \/ store' = store /\ rev' = rev
      /\ UNCHANGED <<disk, phase, asked, evictor, close>>
      /\ queued' \in BOOLEAN
  <2>1. queued' \in BOOLEAN
    BY DEF Operate, QueueEviction, IInv, TypeOK
  <2>2. [store EXCEPT ![w] = Refused(@)] = store
    BY DEF Refused, IInv, TypeOK
  <2> QED BY <2>1, <2>2 DEF Operate
<1>6. TypeOK'
  <2>1. store' \in [Workspace -> StoreState] /\ rev' \in [Workspace -> Rev]
    BY <1>2, <1>4, <1>5 DEF IInv, TypeOK
  <2>2. waiting' \in [Workspace -> 0..MaxOps]
    <3>1. waiting[w] - 1 \in 0..MaxOps
      BY <1>1, OpsAssumption
    <3> QED BY <1>5, <3>1 DEF IInv, TypeOK
  <2> QED BY <1>5, <2>1, <2>2 DEF IInv, TypeOK
<1>7. /\ \A v \in Workspace : v # w => /\ store'[v] = store[v] /\ rev'[v] = rev[v]
                                       /\ waiting'[v] = waiting[v]
      /\ waiting'[w] = waiting[w] - 1
      /\ \/ store'[w] = Changed(store[w]) /\ rev'[w] = rev[w] + 1
         \/ store'[w] = store[w] /\ rev'[w] = rev[w]
  BY <1>5 DEF IInv, TypeOK
<1>8. NothingForgotten' /\ FileBehind' /\ SavesHonest'
  <2>1. NothingForgotten' /\ FileBehind'
    BY <1>1, <1>4, <1>5, <1>7 DEF IInv, NothingForgotten, FileBehind
  <2>2. SavesHonest'
    BY <1>1, <1>4, <1>5, <1>7 DEF IInv, SavesHonest, Honest, StoreState
  <2> QED BY <2>1, <2>2
<1>9. Counted'
  BY <1>1, <1>5, <1>7 DEF IInv, Counted
<1>10. LoadsAwaited'
  BY <1>1, <1>5, <1>7 DEF IInv, LoadsAwaited
<1>11. FlushSettles'
  BY <1>1, <1>5 DEF IInv, FlushSettles, Flushed
<1> QED BY <1>6, <1>8, <1>9, <1>10, <1>11 DEF IInv

\* A load succeeds or fails.
LEMMA LoadInv ==
  ASSUME IInv, NEW w \in Workspace, LoadOk(w) \/ LoadFails(w)
  PROVE  IInv'
<1>0. /\ phase[w] = "reading" /\ waiting[w] > 0 /\ waiting[w] \in Nat
      /\ disk[w] \in Rev /\ disk[w] = rev[w] /\ rev[w] \in Nat
      /\ asked \in Nat /\ rev[w] <= asked
  BY OpsAssumption DEF LoadOk, LoadFails, IInv, TypeOK, LoadsAwaited, NothingForgotten, Counted
<1>1. CASE LoadOk(w)
  <2>1. PICK base \in {disk[w], disk[w] - 1} :
          store' = [store EXCEPT ![w] =
            ScheduleSave([mem |-> disk[w], saved |-> base, saving |-> None, timer |-> FALSE])]
    BY <1>1 DEF LoadOk
  <2> DEFINE s == [mem |-> disk[w], saved |-> base, saving |-> None, timer |-> FALSE]
  <2>2. s \in StoreState
    BY <1>0, OpsAssumption DEF StoreState
  <2>3. /\ store' = [store EXCEPT ![w] = ScheduleSave(s)]
        /\ ScheduleSave(s) \in StoreState /\ ScheduleSave(s).mem = disk[w]
        /\ ScheduleSave(s).saved = base /\ ScheduleSave(s).saving = None
    BY <2>1, <2>2, SaveFacts
  <2> HIDE DEF s
  <2>4. /\ phase' = [phase EXCEPT ![w] = "in"]
        /\ UNCHANGED <<rev, disk, waiting, asked, evictor, queued, close>>
    BY <1>1 DEF LoadOk
  <2>5. TypeOK'
    BY <2>3, <2>4 DEF IInv, TypeOK
  <2>6. /\ store'[w] = ScheduleSave(s) /\ phase'[w] = "in"
        /\ \A v \in Workspace : v # w => store'[v] = store[v] /\ phase'[v] = phase[v]
    BY <2>3, <2>4 DEF IInv, TypeOK
  <2>7. NothingForgotten' /\ FileBehind' /\ LoadsAwaited' /\ Counted'
    BY <1>0, <2>3, <2>4, <2>6 DEF IInv, NothingForgotten, FileBehind, LoadsAwaited, Counted
  <2>8. SavesHonest'
    <3>1. Honest(w)'
      BY <1>0, <2>1, <2>3, <2>4, <2>6 DEF Honest
    <3> QED BY <3>1, <2>4, <2>6 DEF IInv, SavesHonest, Honest
  <2>9. FlushSettles'
    BY <1>0, <2>4 DEF IInv, FlushSettles, Flushed
  <2> QED BY <2>5, <2>7, <2>8, <2>9 DEF IInv
<1>2. CASE LoadFails(w)
  <2>1. /\ phase' = [phase EXCEPT ![w] = "out"]
        /\ waiting' = [waiting EXCEPT ![w] = 0]
        /\ UNCHANGED <<rev, disk, store, asked, evictor, queued, close>>
    BY <1>2 DEF LoadFails
  <2>2. TypeOK'
    BY <2>1, OpsAssumption DEF IInv, TypeOK
  <2>3. /\ phase'[w] = "out" /\ waiting'[w] = 0
        /\ \A v \in Workspace : v # w => waiting'[v] = waiting[v] /\ phase'[v] = phase[v]
    BY <2>1 DEF IInv, TypeOK
  <2>4. /\ NothingForgotten' /\ Counted' /\ FileBehind' /\ SavesHonest' /\ LoadsAwaited'
    BY <1>0, <2>1, <2>3 DEF IInv, NothingForgotten, Counted, FileBehind, SavesHonest,
       LoadsAwaited, Honest
  <2>5. FlushSettles'
    BY <1>0, <2>1 DEF IInv, FlushSettles, Flushed
  <2> QED BY <2>2, <2>4, <2>5 DEF IInv
<1> QED BY <1>1, <1>2
-----------------------------------------------------------------------------
(* Saving.                                                                 *)

\* A save that has come back, with the file written or not: the snapshot is
\* either known to be saved or dropped, and more may be saved at once.
LEMMA SaveReturns ==
  ASSUME IInv, NEW w \in Workspace, phase[w] = "in", Saving(store[w]),
         NEW s \in StoreState,
         store' = [store EXCEPT ![w] = s],
         \/ disk' = [disk EXCEPT ![w] = store[w].saving]
         \/ disk' = disk /\ s.saved = store[w].saved,
         s.mem = store[w].mem,
         s.saved \in {store[w].saved, store[w].saving},
         s.saving = None \/ (s.saved < s.mem /\ s.saving = s.mem),
         UNCHANGED <<rev, phase, waiting, asked>>
  PROVE  /\ NothingForgotten' /\ Counted' /\ FileBehind' /\ SavesHonest' /\ LoadsAwaited'
         /\ store' \in [Workspace -> StoreState] /\ disk' \in [Workspace -> Rev]
         /\ \A v \in Workspace : Dirty(store'[v]) => Dirty(store[v])
<1>1. /\ store[w] \in StoreState /\ rev[w] \in Rev /\ disk[w] \in Rev
      /\ store[w].mem = rev[w] /\ disk[w] <= rev[w] /\ Honest(w)
  BY DEF IInv, TypeOK, NothingForgotten, FileBehind, SavesHonest
<1>2. /\ store[w].saving \in Rev
      /\ \A n \in Rev : n \in Int
      /\ store[w].saved \in Int /\ store[w].mem \in Int
  BY <1>1, OpsAssumption DEF StoreState
<1>3. /\ store' \in [Workspace -> StoreState] /\ disk' \in [Workspace -> Rev]
      /\ store'[w] = s /\ disk'[w] \in {disk[w], store[w].saving}
      /\ disk'[w] = disk[w] => s.saved = store[w].saved \/ disk[w] = store[w].saving
      /\ \A v \in Workspace : v # w => store'[v] = store[v] /\ disk'[v] = disk[v]
  BY <1>2 DEF IInv, TypeOK
<1>4. NothingForgotten' /\ Counted' /\ FileBehind' /\ LoadsAwaited'
  BY <1>1, <1>2, <1>3 DEF IInv, NothingForgotten, Counted, FileBehind, LoadsAwaited, Honest
<1>5. Honest(w)'
  BY <1>1, <1>2, <1>3 DEF Honest
<1>6. SavesHonest'
  BY <1>3, <1>5 DEF IInv, SavesHonest, Honest
<1>7. \A v \in Workspace : Dirty(store'[v]) => Dirty(store[v])
  BY <1>1, <1>2, <1>3 DEF Honest
<1> QED BY <1>3, <1>4, <1>6, <1>7

\* A save succeeds.
LEMMA SaveOkInv ==
  ASSUME IInv, NEW w \in Workspace, SaveOk(w)
  PROVE  IInv'
<1> DEFINE base == [store[w] EXCEPT !.saved = store[w].saving, !.saving = None]
<1>1. /\ phase[w] = "in" /\ Saving(store[w]) /\ store[w] \in StoreState
      /\ store' = [store EXCEPT ![w] = PersistState(base)]
      /\ disk' = [disk EXCEPT ![w] = store[w].saving]
      /\ UNCHANGED <<rev, phase, waiting, asked, evictor, close>>
  BY DEF SaveOk, Saved, IInv, TypeOK
<1>2. base \in StoreState /\ base.mem = store[w].mem /\ base.saved = store[w].saving
      /\ base.saving = None
  BY <1>1 DEF StoreState
<1> HIDE DEF base
<1>3. /\ PersistState(base) \in StoreState
      /\ PersistState(base).mem = store[w].mem
      /\ PersistState(base).saved = store[w].saving
      /\ \/ PersistState(base).saving = None
         \/ /\ PersistState(base).saved < PersistState(base).mem
            /\ PersistState(base).saving = PersistState(base).mem
  BY <1>2, SaveFacts
<1>4. /\ NothingForgotten' /\ Counted' /\ FileBehind' /\ SavesHonest' /\ LoadsAwaited'
      /\ store' \in [Workspace -> StoreState] /\ disk' \in [Workspace -> Rev]
      /\ \A v \in Workspace : Dirty(store'[v]) => Dirty(store[v])
  BY <1>1, <1>3, SaveReturns
<1>5. queued' \in BOOLEAN
  BY DEF SaveOk, QueueEviction, IInv, TypeOK
<1>6. TypeOK'
  BY <1>1, <1>4, <1>5 DEF IInv, TypeOK
<1>7. FlushSettles'
  BY <1>1, <1>4 DEF IInv, FlushSettles, Flushed
<1> QED BY <1>4, <1>6, <1>7 DEF IInv

\* A save fails, and the close that waits for it knows.
LEMMA SaveFailsInv ==
  ASSUME IInv, NEW w \in Workspace, SaveFails(w)
  PROVE  IInv'
<1> DEFINE base == [store[w] EXCEPT !.saving = None]
<1>1. /\ phase[w] = "in" /\ Saving(store[w]) /\ store[w] \in StoreState
      /\ store' = [store EXCEPT ![w] = ScheduleSave(base)]
      /\ disk' \in {disk, [disk EXCEPT ![w] = store[w].saving]}
      /\ UNCHANGED <<rev, phase, waiting, asked, queued>>
  BY DEF SaveFails, IInv, TypeOK
<1>2. base \in StoreState /\ base.mem = store[w].mem /\ base.saved = store[w].saved
      /\ base.saving = None
  BY <1>1 DEF StoreState
<1> HIDE DEF base
<1>3. /\ ScheduleSave(base) \in StoreState
      /\ ScheduleSave(base).mem = store[w].mem
      /\ ScheduleSave(base).saved = store[w].saved
      /\ ScheduleSave(base).saving = None
  BY <1>2, SaveFacts
<1>4. /\ NothingForgotten' /\ Counted' /\ FileBehind' /\ SavesHonest' /\ LoadsAwaited'
      /\ store' \in [Workspace -> StoreState] /\ disk' \in [Workspace -> Rev]
      /\ \A v \in Workspace : Dirty(store'[v]) => Dirty(store[v])
  BY <1>1, <1>3, SaveReturns
<1>5. evictor' \in [Evictor -> [pc: {"idle", "evicting", "evicted"},
                                left: SUBSET Workspace, at: SUBSET Workspace]]
  BY SMTT(30) DEF SaveFails, IInv, TypeOK
<1>6. /\ close' \in [pc: {"open", "closing", "flushing", "closed", "failed"},
                     left: SUBSET Workspace, errors: BOOLEAN]
      /\ close'.pc = close.pc /\ close'.left = close.left \ {w}
      /\ close'.errors <=> close.errors \/ w \in close.left
  <2>1. close' = [close EXCEPT !.left = @ \ {w}, !.errors = @ \/ w \in close.left]
    BY DEF SaveFails
  <2>2. close \in [pc: {"open", "closing", "flushing", "closed", "failed"},
                   left: SUBSET Workspace, errors: BOOLEAN]
    BY DEF IInv, TypeOK
  <2>3. (close.errors \/ w \in close.left) \in BOOLEAN /\ close.left \ {w} \in SUBSET Workspace
    BY <2>2
  <2> DEFINE e == close.errors \/ w \in close.left
             l == close.left \ {w}
  <2>4. close' = [close EXCEPT !.left = l, !.errors = e]
    BY <2>1
  <2>5. e \in BOOLEAN /\ l \in SUBSET Workspace
    BY <2>3
  <2> HIDE DEF e, l
  <2>6. /\ close' \in [pc: {"open", "closing", "flushing", "closed", "failed"},
                       left: SUBSET Workspace, errors: BOOLEAN]
        /\ close'.pc = close.pc /\ close'.left = l /\ close'.errors = e
    BY <2>2, <2>4, <2>5
  <2> QED BY <2>6 DEF e, l
<1>7. TypeOK'
  BY <1>1, <1>4, <1>5, <1>6 DEF IInv, TypeOK
<1>8. FlushSettles'
  <2>1. close'.pc = "closed" => close'.left = {}
    BY <1>6 DEF IInv, FlushSettles
  <2>2. Flushed' => Flushed /\ close'.left = close.left
    BY <1>6 DEF IInv, FlushSettles, Flushed
  <2> QED BY <1>1, <1>4, <2>1, <2>2 DEF IInv, FlushSettles
<1> QED BY <1>4, <1>7, <1>8 DEF IInv
-----------------------------------------------------------------------------
\* A step that starts at most one save.
LEMMA OneFlush ==
  ASSUME IInv, NEW w \in Workspace,
         \/ UNCHANGED store
         \/ store' = [store EXCEPT ![w] = FlushState(@)]
         \/ store' = [store EXCEPT ![w] = PersistState(@)]
  PROVE  /\ store' \in [Workspace -> StoreState]
         /\ \A v \in Workspace :
              /\ store'[v].mem = store[v].mem /\ store'[v].saved = store[v].saved
              /\ \/ store'[v].saving = store[v].saving
                 \/ Dirty(store[v]) /\ ~Saving(store[v]) /\ store'[v].saving = store[v].mem
<1>1. /\ store \in [Workspace -> StoreState] /\ store[w] \in StoreState
      /\ FlushState(store[w]) \in StoreState /\ PersistState(store[w]) \in StoreState
  BY SaveFacts DEF IInv, TypeOK
<1>2. store' \in [Workspace -> StoreState]
  BY <1>1
<1>3. /\ \A v \in Workspace : v # w => store'[v] = store[v]
      /\ store'[w] \in {store[w], FlushState(store[w]), PersistState(store[w])}
  BY <1>1
<1> HIDE DEF Dirty, Saving
<1>4. /\ store'[w].mem = store[w].mem /\ store'[w].saved = store[w].saved
      /\ \/ store'[w].saving = store[w].saving
         \/ Dirty(store[w]) /\ ~Saving(store[w]) /\ store'[w].saving = store[w].mem
  BY <1>1, <1>3, SaveFacts
<1> QED BY <1>2, <1>3, <1>4

\* A timer, or an eviction, starts the save of one store.
LEMMA StartSaveInv ==
  ASSUME IInv, NEW w \in Workspace,
         \/ TimerFires(w)
         \/ \E e \in Evictor : TryCandidate(e, w) \/ FlushAgain(e, w)
  PROVE  IInv'
<1> DEFINE AtMostOne ==
      /\ UNCHANGED <<rev, disk, phase, waiting, asked, queued, close>>
      /\ \/ UNCHANGED store
         \/ store' = [store EXCEPT ![w] = FlushState(@)]
         \/ store' = [store EXCEPT ![w] = PersistState(@)]
<1>1. AtMostOne
  <2>1. CASE TimerFires(w)
    BY <2>1 DEF TimerFires
  <2>2. ASSUME NEW e \in Evictor, TryCandidate(e, w) PROVE AtMostOne
    <3>1. store' = [store EXCEPT ![w] = IF phase[w] = "in" THEN FlushState(@) ELSE @]
      BY <2>2 DEF TryCandidate
    <3>2. store \in [Workspace -> StoreState]
      BY DEF IInv, TypeOK
    <3>3. CASE phase[w] = "in"
      BY <2>2, <3>1, <3>3 DEF TryCandidate
    <3>4. CASE phase[w] # "in"
      <4>1. store' = store
        BY <3>1, <3>2, <3>4
      <4> QED BY <2>2, <4>1 DEF TryCandidate
    <3> QED BY <3>3, <3>4
  <2>3. ASSUME NEW e \in Evictor, FlushAgain(e, w) PROVE AtMostOne
    BY <2>3 DEF FlushAgain
  <2> QED BY <2>1, <2>2, <2>3
<1>2. evictor' \in [Evictor -> [pc: {"idle", "evicting", "evicted"},
                                left: SUBSET Workspace, at: SUBSET Workspace]]
  <2> DEFINE Types == [Evictor -> [pc: {"idle", "evicting", "evicted"},
                                   left: SUBSET Workspace, at: SUBSET Workspace]]
  <2>1. evictor \in Types
    BY DEF IInv, TypeOK
  <2>2. ASSUME NEW e \in Evictor, TryCandidate(e, w) PROVE evictor' \in Types
    <3> DEFINE next == [evictor EXCEPT ![e].left = @ \ {w}]
    <3>1. next \in Types
      BY <2>1
    <3>2. evictor' = [next EXCEPT ![e].at = {w}]
      BY <2>2 DEF TryCandidate
    <3> HIDE DEF next
    <3> QED BY <3>1, <3>2
  <2> QED BY <2>1, <2>2 DEF TimerFires, FlushAgain
<1>3. TypeOK'
  BY <1>1, <1>2, OneFlush DEF IInv, TypeOK
<1>4. FlushSettles'
  <2>1. \A v \in Workspace : Dirty(store'[v]) => Dirty(store[v])
    BY <1>1, OneFlush
  <2> QED BY <1>1, <2>1 DEF IInv, FlushSettles, Flushed
<1>5. store' \in [Workspace -> StoreState]
  BY <1>3 DEF TypeOK
<1> HIDE DEF Dirty, Saving
<1> QED BY <1>1, <1>3, <1>4, <1>5, OneFlush, FlushInv

\* An eviction takes only a store that is saved.
LEMMA EvictInv ==
  ASSUME IInv, NEW e \in Evictor, NEW w \in Workspace, Evict(e, w)
  PROVE  IInv'
<1>1. /\ phase[w] = "in" /\ ~Dirty(store[w])
      /\ phase' = [phase EXCEPT ![w] = "out"]
      /\ store' = [store EXCEPT ![w] = Unloaded]
      /\ UNCHANGED <<rev, disk, waiting, asked, queued, close>>
  BY DEF Evict, Evictable
<1>2. disk[w] = rev[w]
  <2>1. /\ store[w] \in StoreState /\ disk[w] \in Rev /\ rev[w] \in Rev
        /\ store[w].saved <= disk[w] /\ disk[w] <= rev[w] /\ store[w].mem = rev[w]
    BY <1>1 DEF IInv, TypeOK, SavesHonest, Honest, FileBehind, NothingForgotten
  <2> QED BY <1>1, <2>1, OpsAssumption DEF StoreState
<1>3. TypeOK'
  <2>1. Unloaded \in StoreState
    BY OpsAssumption DEF Unloaded, StoreState
  <2>2. store' \in [Workspace -> StoreState]
    BY <1>1, <2>1 DEF IInv, TypeOK
  <2>3. phase' \in [Workspace -> {"out", "admitting", "reading", "in"}]
    BY <1>1 DEF IInv, TypeOK
  <2>4. evictor' \in [Evictor -> [pc: {"idle", "evicting", "evicted"},
                                  left: SUBSET Workspace, at: SUBSET Workspace]]
    <3>1. [pc |-> "evicted", left |-> {}, at |-> {}]
             \in [pc: {"idle", "evicting", "evicted"},
                  left: SUBSET Workspace, at: SUBSET Workspace]
      OBVIOUS
    <3> QED BY <3>1 DEF Evict, IInv, TypeOK
  <2> QED BY <1>1, <2>2, <2>3, <2>4 DEF IInv, TypeOK
<1>4. /\ phase'[w] = "out"
      /\ \A v \in Workspace : v # w => phase'[v] = phase[v] /\ store'[v] = store[v]
  BY <1>1 DEF IInv, TypeOK
<1>5. NothingForgotten' /\ Counted' /\ FileBehind' /\ LoadsAwaited'
  BY <1>1, <1>2, <1>4 DEF IInv, NothingForgotten, Counted, FileBehind, LoadsAwaited
<1>6. SavesHonest'
  BY <1>1, <1>4 DEF IInv, SavesHonest, Honest
<1>7. FlushSettles'
  BY <1>1, <1>4 DEF IInv, FlushSettles, Flushed
<1> QED BY <1>3, <1>5, <1>6, <1>7 DEF IInv

\* The rest of an eviction changes who waits for what.
LEMMA EvictorInv ==
  ASSUME IInv,
         \/ \E e \in Evictor, w \in Workspace : Skip(e, w)
         \/ AdmissionEnds \/ LimitCheck \/ LimitEnds
  PROVE  IInv'
<1>1. UNCHANGED <<rev, disk, store, asked, close>>
  BY DEF Skip, AdmissionEnds, LimitCheck, LimitEnds
<1>2. \/ UNCHANGED <<phase, waiting>>
      \/ \E w \in Workspace :
           /\ phase[w] = "admitting"
           /\ \/ phase' = [phase EXCEPT ![w] = "reading"] /\ waiting' = waiting
              \/ /\ phase' = [phase EXCEPT ![w] = "out"]
                 /\ waiting' = [waiting EXCEPT ![w] = 0]
  BY DEF Skip, AdmissionEnds, LimitCheck, LimitEnds
<1>3. /\ phase' \in [Workspace -> {"out", "admitting", "reading", "in"}]
      /\ waiting' \in [Workspace -> 0..MaxOps]
      /\ \A w \in Workspace :
           /\ phase'[w] = "in" <=> phase[w] = "in"
           /\ waiting'[w] = waiting[w] \/ waiting'[w] = 0
           /\ phase'[w] \in {"admitting", "reading"}
                => phase[w] \in {"admitting", "reading"} /\ waiting'[w] = waiting[w]
  BY <1>2, OpsAssumption DEF IInv, TypeOK
<1>4. queued' \in BOOLEAN
  BY DEF Skip, AdmissionEnds, LimitCheck, LimitEnds, IInv, TypeOK
<1>5. evictor' \in [Evictor -> [pc: {"idle", "evicting", "evicted"},
                                left: SUBSET Workspace, at: SUBSET Workspace]]
  <2>1. /\ Idle \in [pc: {"idle", "evicting", "evicted"},
                     left: SUBSET Workspace, at: SUBSET Workspace]
        /\ [pc |-> "evicting", left |-> Candidates, at |-> {}]
             \in [pc: {"idle", "evicting", "evicted"},
                  left: SUBSET Workspace, at: SUBSET Workspace]
    BY DEF Idle, Candidates, Loaded
  <2> HIDE DEF Idle, Candidates
  <2>2. \/ evictor' = evictor
        \/ \E e \in Evictor :
             \/ evictor' = [evictor EXCEPT ![e] = Idle]
             \/ evictor' = [evictor EXCEPT ![e] =
                              [pc |-> "evicting", left |-> Candidates, at |-> {}]]
             \/ evictor' = [evictor EXCEPT ![e].at = {}]
    <3>1. "admit" \in Evictor /\ "limit" \in Evictor
      BY DEF Evictor
    <3> QED BY <3>1 DEF Skip, AdmissionEnds, LimitCheck, LimitEnds
  <2>3. evictor \in [Evictor -> [pc: {"idle", "evicting", "evicted"},
                                 left: SUBSET Workspace, at: SUBSET Workspace]]
    BY DEF IInv, TypeOK
  <2> QED BY <2>1, <2>2, <2>3
<1>6. TypeOK'
  BY <1>1, <1>3, <1>4, <1>5 DEF IInv, TypeOK
<1>7. NothingForgotten' /\ FileBehind' /\ SavesHonest'
  BY <1>1, <1>3 DEF IInv, NothingForgotten, FileBehind, SavesHonest, Honest
<1>8. Counted' /\ LoadsAwaited'
  <2>1. asked \in Nat /\ \A w \in Workspace : rev[w] \in Nat /\ waiting[w] \in Nat
    BY OpsAssumption DEF IInv, TypeOK
  <2>2. Counted'
    BY <1>1, <1>3, <2>1 DEF IInv, Counted
  <2>3. LoadsAwaited'
    BY <1>3 DEF IInv, LoadsAwaited
  <2> QED BY <2>2, <2>3
<1>9. FlushSettles'
  BY <1>1, <1>3 DEF IInv, FlushSettles, Flushed
<1> QED BY <1>6, <1>7, <1>8, <1>9 DEF IInv
-----------------------------------------------------------------------------
(* Closing.                                                                *)

\* The flush of a close starts when no operation is under way.
LEMMA FlushAllInv ==
  ASSUME IInv, FlushAll
  PROVE  IInv'
<1>1. /\ store' = [w \in Workspace |-> IF w \in Loaded THEN FlushState(store[w]) ELSE store[w]]
      /\ close' = [close EXCEPT !.pc = "flushing", !.left = Loaded]
      /\ UNCHANGED <<rev, disk, phase, waiting, asked, evictor, queued>>
      /\ \A w \in Workspace : waiting[w] = 0
  BY DEF FlushAll, OperationsOver
<1>2. \A w \in Workspace : store[w] \in StoreState /\ FlushState(store[w]) \in StoreState
  BY SaveFacts DEF IInv, TypeOK
<1>3. store' \in [Workspace -> StoreState]
  BY <1>1, <1>2
<1>4. /\ close' \in [pc: {"open", "closing", "flushing", "closed", "failed"},
                     left: SUBSET Workspace, errors: BOOLEAN]
      /\ close'.pc = "flushing" /\ close'.left = Loaded
  <2>1. Loaded \in SUBSET Workspace
    BY DEF Loaded
  <2> HIDE DEF Loaded
  <2> QED BY <1>1, <2>1 DEF IInv, TypeOK
<1>5. TypeOK'
  BY <1>1, <1>3, <1>4 DEF IInv, TypeOK
<1>6. FlushSettles'
  BY <1>1, <1>4 DEF FlushSettles, Loaded
<1> HIDE DEF Dirty, Saving
<1>7. \A w \in Workspace :
        /\ store'[w].mem = store[w].mem /\ store'[w].saved = store[w].saved
        /\ \/ store'[w].saving = store[w].saving
           \/ Dirty(store[w]) /\ ~Saving(store[w]) /\ store'[w].saving = store[w].mem
  BY <1>1, <1>2, SaveFacts
<1> QED BY <1>1, <1>3, <1>5, <1>6, <1>7, FlushInv

\* The other steps of a close change its own progress.
LEMMA CloseInv ==
  ASSUME IInv, Close \/ Closed \/ \E w \in Workspace : StoreFlushed(w)
  PROVE  IInv'
<1>1. UNCHANGED <<rev, disk, phase, store, waiting, asked, evictor>> /\ queued' \in BOOLEAN
  BY DEF Close, StoreFlushed, Closed, QueueEviction, IInv, TypeOK
<1>2. close' \in [pc: {"open", "closing", "flushing", "closed", "failed"},
                  left: SUBSET Workspace, errors: BOOLEAN]
  <2> DEFINE Progress == [pc: {"open", "closing", "flushing", "closed", "failed"},
                          left: SUBSET Workspace, errors: BOOLEAN]
  <2>1. close \in Progress
    BY DEF IInv, TypeOK
  <2>2. CASE Close
    BY <2>2 DEF Close
  <2>3. ASSUME NEW w \in Workspace, StoreFlushed(w) PROVE close' \in Progress
    BY <2>1, <2>3 DEF StoreFlushed
  <2>4. CASE Closed
    <3> DEFINE pc == IF close.errors THEN "failed" ELSE "closed"
    <3>1. close' = [close EXCEPT !.pc = pc]
      BY <2>4 DEF Closed
    <3>2. pc \in {"open", "closing", "flushing", "closed", "failed"}
      OBVIOUS
    <3> HIDE DEF pc
    <3> QED BY <2>1, <3>1, <3>2
  <2> QED BY <2>2, <2>3, <2>4
<1>3. TypeOK'
  BY <1>1, <1>2 DEF IInv, TypeOK
<1>4. NothingForgotten' /\ Counted' /\ FileBehind' /\ SavesHonest' /\ LoadsAwaited'
  BY <1>1 DEF IInv, NothingForgotten, Counted, FileBehind, SavesHonest, Honest, LoadsAwaited
<1>5. FlushSettles'
  <2>0. close \in [pc: {"open", "closing", "flushing", "closed", "failed"},
                   left: SUBSET Workspace, errors: BOOLEAN]
    BY DEF IInv, TypeOK
  <2>1. CASE Close
    <3>1. close'.pc = "closing"
      BY <2>1 DEF Close
    <3> QED BY <3>1 DEF FlushSettles, Flushed
  <2>2. ASSUME NEW w \in Workspace, StoreFlushed(w) PROVE FlushSettles'
    <3>1. /\ close'.pc = close.pc /\ close'.errors = close.errors
          /\ close'.left = close.left \ {w} /\ ~Dirty(store[w])
      BY <2>0, <2>2 DEF StoreFlushed
    <3> QED BY <1>1, <3>1 DEF IInv, FlushSettles, Flushed
  <2>3. CASE Closed
    <3>1. /\ close.pc = "flushing" /\ close.left = {} /\ close'.left = {}
          /\ close'.errors = close.errors
          /\ close'.pc = IF close.errors THEN "failed" ELSE "closed"
      BY <2>0, <2>3 DEF Closed
    <3> QED BY <1>1, <3>1 DEF IInv, FlushSettles, Flushed
  <2> QED BY <2>1, <2>2, <2>3
<1> QED BY <1>3, <1>4, <1>5 DEF IInv

-----------------------------------------------------------------------------
\* Every step preserves the invariant.
LEMMA NextInv == IInv /\ [Next]_vars => IInv'
<1> SUFFICES ASSUME IInv, [Next]_vars PROVE IInv'
  OBVIOUS
<1>1. ASSUME NEW w \in Workspace,
             \/ Request(w) \/ Operate(w) \/ LoadOk(w) \/ LoadFails(w)
             \/ TimerFires(w) \/ SaveOk(w) \/ SaveFails(w)
      PROVE  IInv'
  BY <1>1, RequestInv, OperateInv, LoadInv, StartSaveInv, SaveOkInv, SaveFailsInv
<1>2. CASE EvictionStep
  BY <1>2, StartSaveInv, EvictInv, EvictorInv DEF EvictionStep
<1>3. CASE Close \/ CloseStep
  BY <1>3, FlushAllInv, CloseInv DEF CloseStep
<1>4. CASE UNCHANGED vars
  <2> USE <1>4 DEF vars
  <2>1. TypeOK'
    BY DEF IInv, TypeOK
  <2>2. NothingForgotten' /\ Counted' /\ FileBehind' /\ LoadsAwaited'
    BY DEF IInv, NothingForgotten, Counted, FileBehind, LoadsAwaited
  <2>3. SavesHonest' /\ FlushSettles'
    BY DEF IInv, SavesHonest, Honest, FlushSettles, Flushed
  <2> QED BY <2>1, <2>2, <2>3 DEF IInv
<1> QED BY <1>1, <1>2, <1>3, <1>4 DEF Next

\* The invariant holds in every reachable state.
LEMMA Invariance == Spec => []IInv
  BY InitInv, NextInv, PTL DEF Spec

\* For any workspaces and any size of the cache: the types are kept, and no
\* accepted change is forgotten by eviction, reload or failed save.
THEOREM CacheCorrect == Spec => []CacheIsSound
<1>1. IInv => CacheIsSound
  BY DEF IInv, CacheIsSound
<1> QED BY <1>1, Invariance, PTL

\* When flushAll reports success, every accepted change is in its file.
THEOREM CloseCorrect == Spec => []CloseIsDurable
<1>1. IInv => CloseIsDurable
  <2> SUFFICES ASSUME IInv, close.pc = "closed" PROVE disk = rev
    BY DEF CloseIsDurable
  <2>1. disk \in [Workspace -> Rev] /\ rev \in [Workspace -> Rev]
    BY DEF IInv, TypeOK
  <2> SUFFICES ASSUME NEW w \in Workspace PROVE disk[w] = rev[w]
    BY <2>1
  <2>2. CASE phase[w] = "in"
    <3>1. ~Dirty(store[w]) /\ store[w] \in StoreState
      BY <2>2 DEF IInv, FlushSettles, Flushed, TypeOK
    <3>2. /\ store[w].mem = rev[w] /\ store[w].saved <= disk[w] /\ disk[w] <= rev[w]
      BY <2>2 DEF IInv, NothingForgotten, SavesHonest, Honest, FileBehind
    <3>3. disk[w] \in Rev /\ rev[w] \in Rev
      BY <2>1
    <3> QED BY <3>1, <3>2, <3>3, OpsAssumption DEF StoreState
  <2>3. CASE phase[w] # "in"
    BY <2>3 DEF IInv, NothingForgotten
  <2> QED BY <2>2, <2>3
<1> QED BY <1>1, Invariance, PTL

-----------------------------------------------------------------------------
(* The refinement of LatestWrite.                                          *)

\* Writing a snapshot either changes nothing or applies a newer revision.
LEMMA WriteImplements ==
  ASSUME IInv, NEW w \in Workspace, phase[w] = "in", Saving(store[w]),
         disk' = [disk EXCEPT ![w] = store[w].saving], rev' = rev
  PROVE  [Promise!Next]_(Promise!vars)
<1>1. /\ disk \in [Workspace -> Rev] /\ rev \in [Workspace -> Rev]
      /\ store[w] \in StoreState
  BY DEF IInv, TypeOK
<1>2. /\ store[w].saving \in Rev /\ disk[w] \in Rev /\ rev[w] \in Rev
      /\ disk[w] <= store[w].saving /\ store[w].saving <= rev[w]
  BY <1>1 DEF IInv, SavesHonest, Honest, NothingForgotten, StoreState
<1>3. CASE store[w].saving = disk[w]
  <2>1. disk' = disk
    BY <1>1, <1>3
  <2> QED BY <2>1 DEF Promise!vars
<1>4. CASE store[w].saving # disk[w]
  <2>1. disk[w] < rev[w] /\ store[w].saving \in (disk[w] + 1)..rev[w]
    BY <1>2, <1>4, OpsAssumption
  <2>2. Promise!Apply(w)
    BY <2>1 DEF Promise!Apply
  <2> QED BY <2>2 DEF Promise!Next
<1> QED BY <1>3, <1>4

\* Every step of the store is a step of LatestWrite or leaves it alone.
LEMMA StepImplements == IInv /\ [Next]_vars => [Promise!Next]_(Promise!vars)
<1> SUFFICES ASSUME IInv, [Next]_vars PROVE [Promise!Next]_(Promise!vars)
  OBVIOUS
<1>1. ASSUME NEW w \in Workspace, Operate(w) PROVE [Promise!Next]_(Promise!vars)
  <2>1. rev' = rev \/ rev' = [rev EXCEPT ![w] = @ + 1]
    BY <1>1 DEF Operate
  <2>2. disk' = disk
    BY <1>1 DEF Operate
  <2> QED BY <2>1, <2>2 DEF Promise!Next, Promise!Request, Promise!vars
<1>2. ASSUME NEW w \in Workspace, SaveOk(w) \/ SaveFails(w)
      PROVE  [Promise!Next]_(Promise!vars)
  <2>1. /\ phase[w] = "in" /\ Saving(store[w]) /\ rev' = rev
        /\ disk' = disk \/ disk' = [disk EXCEPT ![w] = store[w].saving]
    BY <1>2 DEF SaveOk, SaveFails
  <2>2. CASE disk' = disk
    BY <2>1, <2>2 DEF Promise!vars
  <2> QED BY <2>1, <2>2, WriteImplements
<1>3. CASE UNCHANGED <<rev, disk>>
  BY <1>3 DEF Promise!vars
<1>4. \/ \E w \in Workspace : Operate(w) \/ SaveOk(w) \/ SaveFails(w)
      \/ UNCHANGED <<rev, disk>>
  BY DEF Next, vars, Request, LoadOk, LoadFails, TimerFires, EvictionStep, TryCandidate,
     FlushAgain, Evict, Skip, AdmissionEnds, LimitCheck, LimitEnds, Close, CloseStep,
     FlushAll, StoreFlushed, Closed
<1> QED BY <1>1, <1>2, <1>3, <1>4

\* The activity store implements LatestWrite: through evictions, reloads and
\* failed saves, a file follows the accepted changes in order and never goes
\* back.
THEOREM StoreImplements == Spec => LatestWins
<1>1. Init => Promise!Init
  BY DEF Init, Promise!Init
<1> QED BY <1>1, StepImplements, Invariance, PTL DEF Spec, LatestWins, Promise!Spec
=============================================================================
