-------------------------- MODULE Persistence_proofs --------------------------
(***************************************************************************)
(* Theorems about what the main process writes last.                       *)
(*                                                                         *)
(* RoomPersistence.  For any files and any number of requests, failures    *)
(* and retries: a path of the agent-room store has one writer at most, a   *)
(* disposal that reports success has lost nothing (QueueIsSound), and      *)
(* files follow the requests in order (LatestWins).                        *)
(*                                                                         *)
(* The inductive invariant says what an object may be by itself (Sound),   *)
(* that an object outside the map is at rest (ObjectsInv), that the object *)
(* in the map knows the newest request and the file is between what it     *)
(* has applied and what it is writing (MapInv), that continuations run     *)
(* one at a time before anything else (LoopInv), and where the flush of a  *)
(* disposal is (FlushInv).                                                 *)
(*                                                                         *)
(* Shutdown.  For any windows, whichever are opened, and any number of     *)
(* edits, requests and failures: an answer means that the canvas is on     *)
(* disk (AnswersAreSound), and the window meant to write last writes last  *)
(* (WinnerIsFinal).                                                        *)
(*                                                                         *)
(* The first rests on what a page may be by itself (PageSound), on the     *)
(* saves of the lane belonging to the first writes of the pages            *)
(* (LaneFits), on a clean canvas being on disk (CleanIsSaved), and on      *)
(* what a page works on being what the window was asked (ChallengesInv).   *)
(* The second, on who is asked to quit and when (QuitInv), on the attempt  *)
(* of a winner that quits being the last save of the lane (LastInLane),    *)
(* and on nothing older being left once it has answered (LastInv), unless  *)
(* a window has opened too late for the application to exit (Stuck).       *)
(***************************************************************************)
EXTENDS RoomPersistence, Shutdown, TLAPS, SequenceTheorems


\* Only disposal flushes: nothing calls flushAgentRooms.
OnlyDisposal == "flush" \notin Callers

\* A drain whose loop has ended but which has not settled yet.
Ended(e) == LET s == object[e[1]][e[2]] IN s.running /\ s.op = 0

\* One object by itself.
Sound(s) ==
  /\ s \in Object
  /\ s.applied <= s.latest
  /\ s.op # 0 => s.running /\ s.applied < s.op /\ s.op <= s.latest
  /\ s.retry => Behind(s) /\ s.op = 0

\* Objects that are still to be created, and those that left the map, do nothing.
ObjectsInv ==
  \A p \in Path, n \in Id :
    /\ Sound(object[p][n])
    /\ n > want[p] => object[p][n] = Fresh(n)
    /\ n # states[p] => ~object[p][n].running /\ ~object[p][n].retry

\* The object in the map knows the newest request, and the file is not older
\* than what the object has applied, nor newer than what it is writing.
MapInv ==
  \A p \in Path :
    /\ disk[p] <= want[p] /\ states[p] <= want[p]
    /\ states[p] = 0 => disk[p] = want[p]
    /\ states[p] # 0 => LET s == object[p][states[p]] IN
                        /\ s.latest = want[p] /\ s.applied <= disk[p]
                        /\ s.op # 0 => disk[p] <= s.op

\* Continuations run before the next adapter call ends.
LoopInv ==
  /\ \A e, f \in Entry : Ended(e) /\ Ended(f) => e = f
  /\ flushing.awake \/ flushing.pc = "entry" => \A e \in Entry : ~Ended(e)

\* Where a disposal is.  What is still to do is in the map, or done; what is in
\* the map is still to do, unless an error has been found.
FlushInv ==
  /\ flushing.pc \in {"idle", "entry"} => flushing.at = <<>> /\ ~flushing.awake
  /\ flushing.pc \in {"first", "second"} => flushing.at \in flushing.todo
  /\ flushing.pc # "idle" =>
       /\ flushing.by = "dispose" /\ ~disposed
       /\ \A e \in flushing.todo : e \in Entries \/ (states[e[1]] = 0 /\ ~Behind(object[e[1]][e[2]]))
       /\ flushing.errors \/ Entries \subseteq flushing.todo
       /\ \A e \in Entry : LET s == object[e[1]][e[2]] IN
            Ended(e) /\ Behind(s) => s.retry /\ s.error
  /\ flushing.awake => LET s == object[flushing.at[1]][flushing.at[2]] IN
                       ~s.running /\ (Behind(s) => s.error)

Over == disposed => \A p \in Path : states[p] = 0

IInv == TypeOK /\ ObjectsInv /\ MapInv /\ LoopInv /\ FlushInv /\ Over

-----------------------------------------------------------------------------
(* Objects and the map.                                                    *)

\* A new value for one object leaves the others as they are.
LEMMA PutFacts ==
  ASSUME TypeOK, NEW p \in Path, NEW n \in Id, NEW t \in Object, Put(p, n, t)
  PROVE  /\ object' \in [Path -> [Id -> Object]]
         /\ object'[p][n] = t
         /\ \A q \in Path, m \in Id : q # p \/ m # n => object'[q][m] = object[q][m]
BY DEF TypeOK, Put

\* An entry of the map.
LEMMA EntryFacts ==
  ASSUME NEW e \in Entry
  PROVE  e[1] \in Path /\ e[2] \in Id /\ e = <<e[1], e[2]>> /\ e # <<>>
BY DEF Entry

\* What startDrain makes of an object that has no drain.
LEMMA StartFacts ==
  ASSUME NEW s, Sound(s), ~s.running, Behind(s), ~s.retry
  PROVE  /\ Sound(StartDrain(s))
         /\ StartDrain(s).running /\ StartDrain(s).op = s.latest /\ s.latest # 0
         /\ StartDrain(s).latest = s.latest /\ StartDrain(s).applied = s.applied
         /\ StartDrain(s).retry = s.retry /\ StartDrain(s).error = s.error
<1>1. StartDrain(s) = [s EXCEPT !.running = TRUE, !.op = s.latest] BY DEF StartDrain
<1>2. s \in Object /\ s.applied \in 0..MaxOps /\ s.latest \in 0..MaxOps /\ s.applied < s.latest
  BY DEF Sound, Object, Behind
<1>3. StartDrain(s) \in Object BY <1>1, <1>2 DEF Object
<1>4. /\ StartDrain(s).running /\ StartDrain(s).op = s.latest
      /\ StartDrain(s).latest = s.latest /\ StartDrain(s).applied = s.applied
      /\ StartDrain(s).retry = s.retry /\ StartDrain(s).error = s.error
  BY <1>1, <1>2 DEF Object
<1> QED BY <1>2, <1>3, <1>4, OpsAssumption DEF Sound, Behind

\* Initially nothing is requested.
LEMMA InitIInv == Init => IInv
<1> SUFFICES ASSUME Init PROVE IInv OBVIOUS
<1> USE OpsAssumption DEF Init, Id
<1>1. \A n \in Id : Fresh(n) \in Object /\ Sound(Fresh(n)) /\ ~Fresh(n).running /\ ~Fresh(n).retry
  BY DEF Fresh, Object, Sound, Behind
<1>2. TypeOK
  <2>1. object \in [Path -> [Id -> Object]] BY <1>1
  <2>2. flushing \in [pc: {"idle", "entry", "first", "second"},
                      by: Callers \cup {"none"}, todo: SUBSET Entry,
                      at: Entry \cup {<<>>}, prior: 0..MaxOps, awake: BOOLEAN,
                      progress: BOOLEAN, errors: BOOLEAN]
    <3>1. {} \in SUBSET Entry /\ <<>> \in Entry \cup {<<>>} /\ 0 \in 0..MaxOps OBVIOUS
    <3> QED BY <3>1 DEF NoFlush
  <2>3. disposed \in BOOLEAN BY Zenon
  <2>4. /\ want \in [Path -> 0..MaxOps] /\ disk \in [Path -> 0..MaxOps]
        /\ states \in [Path -> 0..MaxOps]
    OBVIOUS
  <2> QED BY <2>1, <2>2, <2>3, <2>4 DEF TypeOK
<1>3. ObjectsInv BY <1>1 DEF ObjectsInv
<1>4. MapInv BY DEF MapInv
<1>5. \A e \in Entry : ~Ended(e) BY <1>1, EntryFacts DEF Ended
<1>6. LoopInv BY <1>5 DEF LoopInv
<1>7. FlushInv BY DEF FlushInv, NoFlush
<1> QED BY <1>2, <1>3, <1>4, <1>6, <1>7 DEF IInv, Over

-----------------------------------------------------------------------------
(* The drain.                                                              *)

\* When the loop is quiet no drain has just ended and no flush goes on.
LEMMA QuietFacts ==
  ASSUME IInv, Quiet
  PROVE  /\ \A e \in Entry : ~Ended(e)
         /\ ~flushing.awake /\ flushing.pc # "entry"
BY EntryFacts DEF Quiet, Unbroken, Ended

\* A step of the drain of an object in the map, or of its timer: the file may
\* have come to reflect what the object was writing.
LEMMA DrainStep ==
  ASSUME IInv, Quiet, NEW p \in Path, NEW n \in Id, n = states[p],
         NEW t, Sound(t), Put(p, n, t), t.latest = want[p],
         UNCHANGED <<want, states, flushing, disposed>>,
         NEW d \in 0..MaxOps, disk' = [disk EXCEPT ![p] = d],
         disk[p] <= d, d <= want[p], t.applied <= d,
         t.op # 0 => d <= t.op,
         t.running /\ t.op = 0 /\ Behind(t) => t.error /\ (disposed \/ t.retry)
  PROVE  IInv'
<1> DEFINE e0 == <<p, n>>
<1>0. /\ TypeOK /\ e0 \in Entry /\ e0[1] = p /\ e0[2] = n /\ n # 0
      /\ \A e \in Entry : ~Ended(e)
      /\ ~flushing.awake /\ flushing.pc # "entry"
  BY QuietFacts DEF IInv, Entry, Id
<1>1. /\ object' \in [Path -> [Id -> Object]]
      /\ object'[p][n] = t
      /\ \A q \in Path, m \in Id : q # p \/ m # n => object'[q][m] = object[q][m]
  BY <1>0, PutFacts DEF Sound
<1>2. /\ disk' \in [Path -> 0..MaxOps] /\ disk'[p] = d
      /\ \A q \in Path : q # p => disk'[q] = disk[q]
  BY <1>0 DEF TypeOK
<1>3. TypeOK' BY <1>0, <1>1, <1>2 DEF TypeOK
<1>4. ObjectsInv'
  <2> SUFFICES ASSUME NEW q \in Path, NEW m \in Id
               PROVE  /\ Sound(object'[q][m])
                      /\ m > want[q] => object'[q][m] = Fresh(m)
                      /\ m # states[q] => ~object'[q][m].running /\ ~object'[q][m].retry
    BY DEF ObjectsInv
  <2>1. CASE q = p /\ m = n
    <3>1. ~(n > want[p])
      <4>1. want[p] \in Nat /\ n \in Nat /\ states[p] <= want[p]
        BY <1>0 DEF TypeOK, Id, IInv, MapInv
      <4> QED BY <4>1
    <3> QED BY <2>1, <1>1, <3>1
  <2>2. CASE q # p \/ m # n
    BY <2>2, <1>1 DEF IInv, ObjectsInv
  <2> QED BY <2>1, <2>2
<1>5. MapInv'
  <2> SUFFICES ASSUME NEW q \in Path
               PROVE  /\ disk'[q] <= want[q] /\ states[q] <= want[q]
                      /\ states[q] = 0 => disk'[q] = want[q]
                      /\ states[q] # 0 => LET s == object'[q][states[q]] IN
                            /\ s.latest = want[q] /\ s.applied <= disk'[q]
                            /\ s.op # 0 => disk'[q] <= s.op
    BY DEF MapInv
  <2>1. CASE q = p
    BY <2>1, <1>0, <1>1, <1>2 DEF IInv, MapInv
  <2>2. CASE q # p
    <3>1. states[q] # 0 => states[q] \in Id BY <1>0 DEF TypeOK, Id
    <3>2. states[q] # 0 => object'[q][states[q]] = object[q][states[q]] BY <2>2, <3>1, <1>1
    <3> QED BY <2>2, <1>2, <3>2 DEF IInv, MapInv
  <2> QED BY <2>1, <2>2
<1>6. \A e \in Entry : Ended(e)' => e = e0 /\ t.running /\ t.op = 0
  <2> SUFFICES ASSUME NEW e \in Entry, Ended(e)' PROVE e = e0 /\ t.running /\ t.op = 0
    OBVIOUS
  <2>1. e[1] \in Path /\ e[2] \in Id /\ e = <<e[1], e[2]>> BY EntryFacts
  <2>2. e[1] # p \/ e[2] # n => Ended(e) BY <2>1, <1>1 DEF Ended
  <2>3. e[1] = p /\ e[2] = n BY <2>2, <1>0
  <2> QED BY <2>1, <2>3, <1>1 DEF Ended
<1>7. LoopInv' BY <1>0, <1>6 DEF LoopInv
<1>8. FlushInv'
  <2>1. Entries' = Entries BY DEF Entries
  <2>2. ASSUME NEW e \in flushing.todo, states[e[1]] = 0, ~Behind(object[e[1]][e[2]])
        PROVE  ~Behind(object'[e[1]][e[2]])
    <3>1. e \in Entry BY <1>0 DEF TypeOK
    <3>2. e[1] \in Path /\ e[2] \in Id /\ e[1] # p BY <3>1, EntryFacts, <2>2, <1>0
    <3> QED BY <3>2, <2>2, <1>1
  <2>3. ASSUME NEW e \in Entry, flushing.pc # "idle", Ended(e)', Behind(object'[e[1]][e[2]])
        PROVE  object'[e[1]][e[2]].retry /\ object'[e[1]][e[2]].error
    <3>1. e = e0 /\ t.running /\ t.op = 0 BY <1>6, <2>3
    <3>2. ~disposed BY <2>3 DEF IInv, FlushInv
    <3> QED BY <3>1, <3>2, <1>0, <1>1, <2>3
  <2> QED BY <2>1, <2>2, <2>3, <1>0 DEF IInv, FlushInv
<1>9. Over' BY DEF IInv, Over
<1> QED BY <1>3, <1>4, <1>5, <1>7, <1>8, <1>9 DEF IInv

\* What the object of a running drain, or of a timer, is.
LEMMA AtWork ==
  ASSUME IInv, NEW p \in Path, NEW n \in Id, object[p][n].running \/ object[p][n].retry
  PROVE  LET s == object[p][n] IN
         /\ n = states[p] /\ Sound(s) /\ s.latest = want[p] /\ s.applied <= disk[p]
         /\ s.op # 0 => disk[p] <= s.op
         /\ s.op \in 0..MaxOps /\ s.latest \in 0..MaxOps /\ s.applied \in 0..MaxOps
         /\ disk[p] \in 0..MaxOps /\ disk[p] <= want[p]
<1> n # 0 BY DEF Id
<1> QED BY DEF IInv, ObjectsInv, MapInv, TypeOK, Sound, Object

\* What the end of an adapter call does to an object.
LEMMA ReturnFacts ==
  ASSUME NEW s \in Object, s.running, s.applied < s.op, s.op <= s.latest, ~s.retry
  PROVE  /\ LET t == Applied(s) IN
            /\ Sound(t) /\ t.latest = s.latest /\ t.applied = s.op /\ t.running
            /\ t.op # 0 => s.op <= t.op
            /\ t.op = 0 => ~Behind(t)
         /\ LET t == Failed(s) IN
            /\ Sound(t) /\ t.latest = s.latest /\ t.applied = s.applied /\ t.running
            /\ t.op = 0 /\ t.error /\ (disposed \/ t.retry)
<1>0. /\ s.op \in 0..MaxOps /\ s.latest \in 0..MaxOps /\ s.applied \in 0..MaxOps
      /\ s.error \in BOOLEAN /\ 0 \in 0..MaxOps
  BY OpsAssumption DEF Object
<1>1. LET t == Applied(s) IN
      /\ Sound(t) /\ t.latest = s.latest /\ t.applied = s.op /\ t.running
      /\ t.op # 0 => s.op <= t.op
      /\ t.op = 0 => ~Behind(t)
  <2> DEFINE next == IF s.op < s.latest THEN s.latest ELSE 0
             t == Applied(s)
  <2>1. /\ next \in 0..MaxOps /\ (next = 0 => s.op = s.latest)
        /\ next # 0 => next = s.latest /\ s.op < s.latest
    BY <1>0
  <2>2. t = [s EXCEPT !.applied = s.op, !.error = FALSE, !.op = next] BY DEF Applied
  <2> HIDE DEF next, t
  <2>3. t \in Object BY <1>0, <2>1, <2>2 DEF Object
  <2>4. /\ t.latest = s.latest /\ t.applied = s.op /\ t.running /\ ~t.retry /\ t.op = next
    BY <2>2 DEF Object
  <2>5. Sound(t) /\ (t.op # 0 => s.op <= t.op) /\ (t.op = 0 => ~Behind(t))
    BY <1>0, <2>1, <2>3, <2>4 DEF Sound, Behind
  <2> QED BY <2>4, <2>5 DEF t
<1>2. LET t == Failed(s) IN
      /\ Sound(t) /\ t.latest = s.latest /\ t.applied = s.applied /\ t.running
      /\ t.op = 0 /\ t.error /\ (disposed \/ t.retry)
  <2> DEFINE t == Failed(s)
  <2>1. PICK b \in BOOLEAN : b <=> s.retry \/ ~disposed OBVIOUS
  <2>2. t = [s EXCEPT !.error = TRUE, !.op = 0, !.retry = b] BY <2>1 DEF Failed
  <2> HIDE DEF t
  <2>3. t \in Object BY <1>0, <2>2 DEF Object
  <2>4. /\ t.latest = s.latest /\ t.applied = s.applied /\ t.running /\ t.op = 0 /\ t.error
        /\ t.retry = b
    BY <2>2 DEF Object
  <2>5. Sound(t) BY <1>0, <2>3, <2>4 DEF Sound, Behind
  <2> QED BY <2>1, <2>4, <2>5 DEF t
<1> QED BY <1>1, <1>2

\* An adapter call succeeds.
LEMMA WriteOkInv ==
  ASSUME IInv, NEW p \in Path, NEW n \in Id, WriteOk(p, n) PROVE IInv'
<1> DEFINE s == object[p][n]
           t == Applied(s)
<1>1. s.running /\ s.op # 0 /\ Quiet BY DEF WriteOk
<1>2. /\ n = states[p] /\ Sound(s) /\ s.latest = want[p] /\ s.applied <= disk[p]
      /\ disk[p] <= s.op
      /\ s.op \in 0..MaxOps /\ s.latest \in 0..MaxOps /\ s.applied \in 0..MaxOps
      /\ disk[p] \in 0..MaxOps /\ disk[p] <= want[p]
  BY <1>1, AtWork
<1>3. s \in Object /\ s.applied < s.op /\ s.op <= s.latest /\ ~s.retry
  BY <1>1, <1>2 DEF Sound
<1>5. /\ Sound(t) /\ t.latest = s.latest /\ t.applied = s.op /\ t.running
      /\ t.op # 0 => s.op <= t.op
      /\ t.op = 0 => ~Behind(t)
  BY <1>1, <1>3, ReturnFacts
<1> HIDE DEF t
<1>6. /\ Put(p, n, t) /\ disk' = [disk EXCEPT ![p] = s.op]
      /\ UNCHANGED <<want, states, flushing, disposed>>
  BY DEF WriteOk, t
<1>7. t.latest = want[p] /\ s.op <= want[p] /\ t.applied <= s.op /\ (t.op # 0 => s.op <= t.op)
  BY <1>2, <1>3, <1>5
<1>8. t.running /\ t.op = 0 /\ Behind(t) => t.error /\ (disposed \/ t.retry) BY <1>5
<1> HIDE DEF s
<1> QED BY <1>1, <1>2, <1>5, <1>6, <1>7, <1>8, DrainStep

\* An adapter call fails, with the file replaced or not.
LEMMA WriteFailsInv ==
  ASSUME IInv, NEW p \in Path, NEW n \in Id, WriteFails(p, n) PROVE IInv'
<1> DEFINE s == object[p][n]
           t == Failed(s)
<1>1. s.running /\ s.op # 0 /\ Quiet BY DEF WriteFails
<1>2. /\ n = states[p] /\ Sound(s) /\ s.latest = want[p] /\ s.applied <= disk[p]
      /\ disk[p] <= s.op
      /\ s.op \in 0..MaxOps /\ s.latest \in 0..MaxOps /\ s.applied \in 0..MaxOps
      /\ disk[p] \in 0..MaxOps /\ disk[p] <= want[p]
  BY <1>1, AtWork
<1>3. s \in Object /\ s.applied < s.op /\ s.op <= s.latest /\ ~s.retry
  BY <1>1, <1>2 DEF Sound
<1>4. /\ Sound(t) /\ t.latest = s.latest /\ t.applied = s.applied /\ t.running
      /\ t.op = 0 /\ t.error /\ (disposed \/ t.retry)
  BY <1>1, <1>3, ReturnFacts
<1> HIDE DEF t
<1>6. /\ Put(p, n, t) /\ disk' \in {disk, [disk EXCEPT ![p] = s.op]}
      /\ UNCHANGED <<want, states, flushing, disposed>>
  BY DEF WriteFails, t
<1>7. PICK d \in {disk[p], s.op} : disk' = [disk EXCEPT ![p] = d]
  <2>1. disk = [disk EXCEPT ![p] = disk[p]] BY DEF IInv, TypeOK
  <2> QED BY <1>6, <2>1
<1>8. d \in 0..MaxOps /\ disk[p] <= d /\ d <= want[p] /\ t.applied <= d
  BY <1>2, <1>3, <1>4
<1>9. t.latest = want[p] /\ (t.op # 0 => d <= t.op) BY <1>2, <1>4
<1> HIDE DEF s
<1> QED BY <1>1, <1>2, <1>4, <1>6, <1>7, <1>8, <1>9, DrainStep

\* A retry timer fires.
LEMMA RetryInv ==
  ASSUME IInv, NEW p \in Path, NEW n \in Id, RetryFires(p, n) PROVE IInv'
<1> DEFINE s == object[p][n]
           idle == CancelRetry(s)
           t == StartDrain(idle)
<1>1. s.retry /\ Quiet BY DEF RetryFires
<1>2. /\ n = states[p] /\ Sound(s) /\ s.latest = want[p] /\ s.applied <= disk[p]
      /\ s.op \in 0..MaxOps /\ s.latest \in 0..MaxOps /\ s.applied \in 0..MaxOps
      /\ disk[p] \in 0..MaxOps /\ disk[p] <= want[p]
  BY <1>1, AtWork
<1>3. ~s.running
  <2>1. <<p, n>> \in Entry /\ ~Ended(<<p, n>>) BY <1>1, QuietFacts DEF Entry
  <2> QED BY <2>1, <1>1, <1>2 DEF Ended, Sound
<1>4. /\ idle \in Object /\ ~idle.running /\ ~idle.retry /\ idle.latest = s.latest
      /\ idle.applied = s.applied /\ idle.op = s.op
  BY <1>2, <1>3 DEF Sound, Object, CancelRetry
<1> HIDE DEF idle
<1>5. Sound(idle) /\ Behind(idle) BY <1>1, <1>2, <1>3, <1>4 DEF Sound, Behind
<1>6. /\ Sound(t) /\ t.running /\ t.op = s.latest /\ t.op # 0 /\ t.latest = s.latest
      /\ t.applied = s.applied
  BY <1>4, <1>5, StartFacts
<1> HIDE DEF t
<1>7. /\ Put(p, n, t) /\ UNCHANGED <<want, disk, states, flushing, disposed>>
  BY DEF RetryFires, t, idle
<1>8. disk' = [disk EXCEPT ![p] = disk[p]] BY <1>7 DEF IInv, TypeOK
<1>9. /\ t.latest = want[p] /\ t.applied <= disk[p] /\ (t.op # 0 => disk[p] <= t.op)
      /\ disk[p] <= disk[p]
  BY <1>2, <1>6
<1> HIDE DEF s
<1> QED BY <1>1, <1>2, <1>6, <1>7, <1>8, <1>9, DrainStep

\* A drain settles: it is restarted, left to its timer, or done, and then the
\* object leaves the map.
LEMMA SettleInv ==
  ASSUME IInv, NEW p \in Path, NEW n \in Id, Settle(p, n) PROVE IInv'
<1> DEFINE s == object[p][n]
           t == AfterDrain(s)
           e0 == <<p, n>>
           kept == s.retry \/ Behind(s)
<1>1. s.running /\ s.op = 0 /\ flushing.pc # "entry" BY DEF Settle, Unbroken
<1>2. /\ n = states[p] /\ Sound(s) /\ s.latest = want[p] /\ s.applied <= disk[p]
      /\ s.op \in 0..MaxOps /\ s.latest \in 0..MaxOps /\ s.applied \in 0..MaxOps
      /\ disk[p] \in 0..MaxOps /\ disk[p] <= want[p]
  BY <1>1, AtWork
<1>3. /\ TypeOK /\ e0 \in Entry /\ e0[1] = p /\ e0[2] = n /\ n # 0 /\ Ended(e0)
      /\ \A e \in Entry : Ended(e) => e = e0
      /\ ~flushing.awake
      /\ flushing.pc # "idle" => (Behind(s) => s.retry /\ s.error)
  <2>1. TypeOK /\ e0 \in Entry /\ e0[1] = p /\ e0[2] = n /\ n # 0 BY DEF IInv, Entry, Id
  <2>2. Ended(e0) BY <1>1, <2>1 DEF Ended
  <2> QED BY <2>1, <2>2 DEF IInv, LoopInv, FlushInv
<1>4. /\ Sound(t) /\ t.latest = s.latest /\ t.applied = s.applied /\ t.error = s.error
      /\ ~(t.running /\ t.op = 0)
      /\ t.op # 0 => t.op = s.latest
      /\ t.running => Behind(s) /\ ~s.retry
      /\ t.retry = s.retry
  <2> DEFINE idle == [s EXCEPT !.running = FALSE]
  <2>1. /\ idle \in Object /\ ~idle.running /\ idle.retry = s.retry /\ idle.latest = s.latest
        /\ idle.applied = s.applied /\ idle.op = 0 /\ idle.error = s.error
    BY <1>1, <1>2 DEF Sound, Object
  <2>2. t = IF s.retry THEN idle ELSE StartDrain(idle) BY DEF AfterDrain
  <2> HIDE DEF idle, t
  <2>3. Sound(idle) /\ (Behind(idle) <=> Behind(s)) BY <2>1, <1>2 DEF Sound, Behind
  <2>4. CASE s.retry \/ ~Behind(s)
    <3>1. t = idle BY <2>2, <2>3, <2>4 DEF StartDrain
    <3> QED BY <3>1, <2>1, <2>3
  <2>5. CASE ~s.retry /\ Behind(s)
    <3>1. t = StartDrain(idle) /\ ~idle.retry /\ Behind(idle) BY <2>1, <2>2, <2>3, <2>5
    <3> QED BY <3>1, <2>1, <2>3, <2>5, StartFacts
  <2> QED BY <2>4, <2>5
<1>5. /\ Put(p, n, t)
      /\ states' = IF kept THEN states ELSE [states EXCEPT ![p] = 0]
      /\ flushing' = [flushing EXCEPT !.awake = @ \/ flushing.at = e0]
      /\ UNCHANGED <<want, disk, disposed>>
  BY DEF Settle
<1>6. s.retry => Behind(s) BY <1>2 DEF Sound
<1> HIDE DEF t
<1>7. /\ object' \in [Path -> [Id -> Object]]
      /\ object'[p][n] = t
      /\ \A q \in Path, m \in Id : q # p \/ m # n => object'[q][m] = object[q][m]
  BY <1>3, <1>4, <1>5, PutFacts DEF Sound
<1>8. /\ states' \in [Path -> 0..MaxOps]
      /\ \A q \in Path : q # p => states'[q] = states[q]
      /\ states'[p] = IF Behind(s) THEN n ELSE 0
  BY <1>2, <1>3, <1>5, <1>6, OpsAssumption DEF TypeOK
<1>9. PICK b \in BOOLEAN : b <=> flushing.awake \/ flushing.at = e0 OBVIOUS
<1>10. flushing' = [flushing EXCEPT !.awake = b] BY <1>5, <1>9
<1>11. TypeOK' BY <1>3, <1>5, <1>7, <1>8, <1>10 DEF TypeOK
<1>12. /\ flushing'.awake = b /\ flushing'.pc = flushing.pc /\ flushing'.by = flushing.by
       /\ flushing'.todo = flushing.todo /\ flushing'.at = flushing.at
       /\ flushing'.errors = flushing.errors
  BY <1>3, <1>10 DEF TypeOK
<1>13. Behind(t) <=> Behind(s) BY <1>4 DEF Behind
<1>14. ~Behind(s) => disk[p] = want[p] BY <1>2 DEF Behind
<1> HIDE DEF kept
<1>15. ObjectsInv'
  <2> SUFFICES ASSUME NEW q \in Path, NEW m \in Id
               PROVE  /\ Sound(object'[q][m])
                      /\ m > want[q] => object'[q][m] = Fresh(m)
                      /\ m # states'[q] => ~object'[q][m].running /\ ~object'[q][m].retry
    BY <1>5 DEF ObjectsInv
  <2>1. CASE q = p /\ m = n
    <3>1. ~(n > want[p])
      <4>1. want[p] \in Nat /\ n \in Nat /\ states[p] <= want[p]
        BY <1>3 DEF TypeOK, Id, IInv, MapInv
      <4> QED BY <4>1, <1>2
    <3>2. n # states'[p] => ~t.running /\ ~t.retry BY <1>4, <1>6, <1>8
    <3> QED BY <2>1, <1>4, <1>7, <3>1, <3>2
  <2>2. CASE q = p /\ m # n
    BY <2>2, <1>2, <1>7 DEF IInv, ObjectsInv
  <2>3. CASE q # p
    BY <2>3, <1>7, <1>8 DEF IInv, ObjectsInv
  <2> QED BY <2>1, <2>2, <2>3
<1>16. MapInv'
  <2> SUFFICES ASSUME NEW q \in Path
               PROVE  /\ disk[q] <= want[q] /\ states'[q] <= want[q]
                      /\ states'[q] = 0 => disk[q] = want[q]
                      /\ states'[q] # 0 => LET o == object'[q][states'[q]] IN
                            /\ o.latest = want[q] /\ o.applied <= disk[q]
                            /\ o.op # 0 => disk[q] <= o.op
    BY <1>5 DEF MapInv
  <2>1. CASE q = p
    <3>1. want[p] \in Nat /\ states[p] <= want[p] BY <1>3 DEF IInv, MapInv, TypeOK
    <3>2. /\ t.latest = want[p] /\ t.applied <= disk[p] /\ (t.op # 0 => disk[p] <= t.op)
          /\ object'[p][n] = t /\ disk[p] <= want[p] /\ n <= want[p] /\ 0 <= want[p]
      BY <3>1, <1>2, <1>4, <1>7
    <3> HIDE DEF s
    <3> QED BY <2>1, <3>2, <1>3, <1>8, <1>14
  <2>2. CASE q # p
    <3>1. states[q] # 0 => states[q] \in Id BY <1>3 DEF TypeOK, Id
    <3>2. states[q] # 0 => object'[q][states[q]] = object[q][states[q]] BY <2>2, <3>1, <1>7
    <3> QED BY <2>2, <1>8, <3>2 DEF IInv, MapInv
  <2> QED BY <2>1, <2>2
<1>17. \A e \in Entry : ~Ended(e)'
  <2> SUFFICES ASSUME NEW e \in Entry, Ended(e)' PROVE FALSE OBVIOUS
  <2>1. e[1] \in Path /\ e[2] \in Id /\ e = <<e[1], e[2]>> BY EntryFacts
  <2>2. e[1] # p \/ e[2] # n => Ended(e) BY <2>1, <1>7 DEF Ended
  <2>3. e = e0 BY <2>1, <2>2, <1>3
  <2> QED BY <2>3, <1>3, <1>4, <1>7 DEF Ended
<1>18. LoopInv' BY <1>17 DEF LoopInv
<1>19. FlushInv'
  <2>1. /\ flushing.pc \in {"idle", "entry"} => flushing.at = <<>>
        /\ b => flushing.at = e0
    BY <1>3, <1>9 DEF IInv, FlushInv, NoFlush
  <2>2. e0 # <<>> BY <1>3, EntryFacts
  <2>3. flushing.pc = "idle" => ~b BY <2>1, <2>2
  <2>4. b => ~object'[p][n].running /\ (Behind(object'[p][n]) => object'[p][n].error)
    <3>1. b => flushing.pc # "idle" BY <2>1, <2>2
    <3> QED BY <3>1, <1>3, <1>4, <1>7, <1>13
  <2>5. Entries' \subseteq Entries
    <3> SUFFICES ASSUME NEW e \in Entries' PROVE e \in Entries OBVIOUS
    <3>1. e \in Entry /\ states'[e[1]] = e[2] /\ e[1] \in Path /\ e[2] \in Id BY EntryFacts DEF Entries
    <3>2. e[2] # 0 BY <3>1 DEF Id
    <3> QED BY <3>1, <3>2, <1>2, <1>8 DEF Entries
  <2>6. ASSUME flushing.pc # "idle", NEW e \in flushing.todo
        PROVE  e \in Entries' \/ (states'[e[1]] = 0 /\ ~Behind(object'[e[1]][e[2]]))
    <3>1. e \in Entry BY <1>3 DEF TypeOK
    <3>2. e[1] \in Path /\ e[2] \in Id /\ e = <<e[1], e[2]>> /\ e[2] # 0
      BY <3>1, EntryFacts DEF Id
    <3>3. e \in Entries \/ (states[e[1]] = 0 /\ ~Behind(object[e[1]][e[2]]))
      BY <2>6 DEF IInv, FlushInv
    <3>4. CASE e[1] = p
      <4>1. e[2] = n BY <3>3, <3>4, <1>2, <1>3 DEF Entries
      <4> QED BY <3>1, <3>4, <4>1, <1>7, <1>8, <1>13 DEF Entries
    <3>5. CASE e[1] # p
      BY <3>1, <3>2, <3>3, <3>5, <1>7, <1>8 DEF Entries
    <3> QED BY <3>4, <3>5
  <2>7. flushing.at = e0 \/ ~b BY <2>1
  <2> QED BY <2>1, <2>3, <2>4, <2>5, <2>6, <1>3, <1>5, <1>12, <1>17 DEF IInv, FlushInv
<1>20. Over' BY <1>5, <1>8 DEF IInv, Over
<1> QED BY <1>11, <1>15, <1>16, <1>18, <1>19, <1>20 DEF IInv

\* The store makes a request: the object of the path, or a new one, has it to
\* apply.
LEMMA ScheduleInv ==
  ASSUME IInv, NEW p \in Path, Schedule(p) PROVE IInv'
<1> DEFINE w == want[p] + 1
           n == ObjectFor(p)
           s == [object[p][n] EXCEPT !.latest = w, !.error = FALSE, !.retry = FALSE]
           t == StartDrain(s)
<1>1. /\ ~disposed /\ flushing.by # "dispose" /\ want[p] < MaxOps
      /\ want' = [want EXCEPT ![p] = w]
      /\ states' = [states EXCEPT ![p] = n]
      /\ Put(p, n, t)
      /\ UNCHANGED <<disk, flushing, disposed>>
  BY DEF Schedule
<1>2. flushing.pc = "idle" /\ flushing.at = <<>> /\ ~flushing.awake BY <1>1 DEF IInv, FlushInv
<1>3. /\ TypeOK /\ want[p] \in 0..MaxOps /\ states[p] \in 0..MaxOps /\ disk[p] \in 0..MaxOps
      /\ w \in 1..MaxOps /\ n \in Id /\ n <= w /\ disk[p] <= want[p]
      /\ states[p] # 0 => n = states[p]
      /\ states[p] = 0 => n = w /\ disk[p] = want[p]
  BY <1>1, OpsAssumption DEF IInv, TypeOK, MapInv, ObjectFor, Id
<1> HIDE DEF n
<1>4. LET o == object[p][n] IN
      /\ Sound(o) /\ o.applied <= disk[p] /\ o.applied < w /\ o.applied \in 0..MaxOps
      /\ o.op # 0 => disk[p] <= o.op /\ o.op < w
      /\ o.op \in 0..MaxOps
  <2> DEFINE o == object[p][n]
  <2>1. Sound(o) /\ o.applied \in 0..MaxOps /\ o.op \in 0..MaxOps /\ o.latest \in 0..MaxOps
    BY <1>3 DEF IInv, ObjectsInv, Sound, Object
  <2>2. CASE states[p] = 0
    <3>1. o = Fresh(n) BY <2>2, <1>3 DEF IInv, ObjectsInv
    <3> QED BY <2>1, <2>2, <3>1, <1>3 DEF Fresh
  <2>3. CASE states[p] # 0
    <3>1. /\ o.latest = want[p] /\ o.applied <= disk[p] /\ (o.op # 0 => disk[p] <= o.op)
      BY <2>3, <1>3 DEF IInv, MapInv
    <3> QED BY <2>1, <3>1, <1>3 DEF Sound
  <2> QED BY <2>2, <2>3
<1>5. /\ s \in Object /\ Sound(s) /\ Behind(s) /\ ~s.retry /\ s.latest = w
      /\ s.applied = object[p][n].applied /\ s.running = object[p][n].running
      /\ s.op = object[p][n].op
  <2>1. object[p][n] \in Object /\ w \in 0..MaxOps BY <1>3, <1>4 DEF Sound
  <2> HIDE DEF w
  <2>2. /\ s \in Object /\ ~s.retry /\ s.latest = w
        /\ s.applied = object[p][n].applied /\ s.running = object[p][n].running
        /\ s.op = object[p][n].op
    BY <2>1 DEF Object
  <2> HIDE DEF s
  <2> QED BY <2>2, <1>3, <1>4 DEF Sound, Behind
<1> HIDE DEF s
<1>6. /\ Sound(t) /\ ~t.retry /\ t.latest = w /\ t.applied <= disk[p]
      /\ t.op # 0 => disk[p] <= t.op
      /\ t.running /\ t.op = 0 => object[p][n].running /\ object[p][n].op = 0
  <2>1. CASE s.running
    BY <2>1, <1>4, <1>5 DEF StartDrain
  <2>2. CASE ~s.running
    BY <2>2, <1>3, <1>4, <1>5, StartFacts
  <2> QED BY <2>1, <2>2
<1> HIDE DEF t
<1>7. /\ object' \in [Path -> [Id -> Object]]
      /\ object'[p][n] = t
      /\ \A q \in Path, m \in Id : q # p \/ m # n => object'[q][m] = object[q][m]
  BY <1>1, <1>3, <1>6, PutFacts DEF Sound
<1>8. /\ want' \in [Path -> 0..MaxOps] /\ want'[p] = w
      /\ states' \in [Path -> 0..MaxOps] /\ states'[p] = n
      /\ \A q \in Path : q # p => want'[q] = want[q] /\ states'[q] = states[q]
  BY <1>1, <1>3 DEF TypeOK, Id
<1>9. TypeOK' BY <1>1, <1>3, <1>7, <1>8 DEF TypeOK
<1> HIDE DEF w
<1>10. ObjectsInv'
  <2> SUFFICES ASSUME NEW q \in Path, NEW m \in Id
               PROVE  /\ Sound(object'[q][m])
                      /\ m > want'[q] => object'[q][m] = Fresh(m)
                      /\ m # states'[q] => ~object'[q][m].running /\ ~object'[q][m].retry
    BY DEF ObjectsInv
  <2>1. CASE q = p /\ m = n
    BY <2>1, <1>3, <1>6, <1>7, <1>8 DEF Id
  <2>2. CASE q = p /\ m # n
    <3>1. m # states[p] /\ (m > w => m > want[p])
      <4>1. m \in Nat /\ w \in Nat /\ want[p] \in Nat /\ w = want[p] + 1 BY <1>3 DEF Id, w
      <4>2. m # states[p] BY <2>2, <1>3 DEF Id
      <4> QED BY <4>1, <4>2
    <3> QED BY <2>2, <3>1, <1>7, <1>8 DEF IInv, ObjectsInv
  <2>3. CASE q # p
    BY <2>3, <1>7, <1>8 DEF IInv, ObjectsInv
  <2> QED BY <2>1, <2>2, <2>3
<1>11. MapInv'
  <2> SUFFICES ASSUME NEW q \in Path
               PROVE  /\ disk[q] <= want'[q] /\ states'[q] <= want'[q]
                      /\ states'[q] = 0 => disk[q] = want'[q]
                      /\ states'[q] # 0 => LET o == object'[q][states'[q]] IN
                            /\ o.latest = want'[q] /\ o.applied <= disk[q]
                            /\ o.op # 0 => disk[q] <= o.op
    BY <1>1 DEF MapInv
  <2>1. CASE q = p
    <3>1. disk[p] <= w /\ n # 0 BY <1>3 DEF w, Id
    <3> QED BY <2>1, <3>1, <1>3, <1>6, <1>7, <1>8
  <2>2. CASE q # p
    <3>1. states[q] # 0 => states[q] \in Id BY <1>3 DEF TypeOK, Id
    <3>2. states[q] # 0 => object'[q][states[q]] = object[q][states[q]] BY <2>2, <3>1, <1>7
    <3> QED BY <2>2, <1>8, <3>2 DEF IInv, MapInv
  <2> QED BY <2>1, <2>2
<1>12. \A e \in Entry : Ended(e)' => Ended(e)
  <2> SUFFICES ASSUME NEW e \in Entry, Ended(e)' PROVE Ended(e) OBVIOUS
  <2>1. e[1] \in Path /\ e[2] \in Id BY EntryFacts
  <2> QED BY <2>1, <1>6, <1>7 DEF Ended
<1>13. LoopInv' BY <1>1, <1>2, <1>12 DEF IInv, LoopInv
<1>14. FlushInv' BY <1>1, <1>2 DEF FlushInv
<1>15. Over' BY <1>1 DEF Over
<1> QED BY <1>9, <1>10, <1>11, <1>13, <1>14, <1>15 DEF IInv

-----------------------------------------------------------------------------
(* The flush of a disposal.                                                *)

\* A disposal begins.
LEMMA FlushBeginInv ==
  ASSUME OnlyDisposal, IInv, NEW who \in Callers, FlushBegin(who) PROVE IInv'
<1>1. /\ ~disposed /\ who = "dispose" /\ \A e \in Entry : ~Ended(e)
      /\ UNCHANGED <<want, disk, states, object, disposed>>
  BY QuietFacts, CallersAssumption DEF FlushBegin, OnlyDisposal
<1>2. flushing' = [NoFlush EXCEPT !.pc = "entry", !.by = who, !.todo = Entries]
  BY DEF FlushBegin
<1>3. flushing' = [pc |-> "entry", by |-> who, todo |-> Entries, at |-> <<>>, prior |-> 0,
                   awake |-> FALSE, progress |-> FALSE, errors |-> FALSE]
  BY <1>2 DEF NoFlush
<1>4. TypeOK'
  <2>1. Entries \in SUBSET Entry /\ 0 \in 0..MaxOps BY OpsAssumption DEF Entries
  <2>2. flushing' \in [pc: {"idle", "entry", "first", "second"},
                       by: Callers \cup {"none"}, todo: SUBSET Entry,
                       at: Entry \cup {<<>>}, prior: 0..MaxOps, awake: BOOLEAN,
                       progress: BOOLEAN, errors: BOOLEAN]
    BY <1>3, <2>1
  <2> QED BY <1>1, <2>2 DEF IInv, TypeOK
<1>5. Entries' = Entries BY <1>1 DEF Entries
<1>6. \A e \in Entry : ~Ended(e)' BY <1>1 DEF Ended
<1>7. FlushInv' BY <1>1, <1>3, <1>5, <1>6 DEF FlushInv
<1>8. LoopInv' BY <1>6 DEF LoopInv
<1>9. ObjectsInv' /\ MapInv' /\ Over' BY <1>1 DEF IInv, ObjectsInv, MapInv, Over
<1> QED BY <1>4, <1>7, <1>8, <1>9 DEF IInv

\* An entry of the flush is dealt with: when its object has nothing left to
\* apply it leaves the map.
LEMMA EntryDoneInv ==
  ASSUME IInv, NEW e \in flushing.todo, flushing.pc # "idle", \A f \in Entry : ~Ended(f),
         EntryDone(e, object[e[1]][e[2]]), UNCHANGED <<want, disk, object, disposed>>,
         ~object[e[1]][e[2]].running,
         Behind(object[e[1]][e[2]]) => flushing.pc = "second" /\ object[e[1]][e[2]].error
  PROVE  IInv'
<1> DEFINE p == e[1]
           n == e[2]
           s == object[p][n]
<1>1. /\ TypeOK /\ e \in Entry /\ p \in Path /\ n \in Id /\ e = <<p, n>> /\ n # 0
      /\ flushing.by = "dispose" /\ ~disposed
      /\ e \in Entries \/ (states[p] = 0 /\ ~Behind(s))
      /\ Sound(s)
  <2>1. TypeOK /\ e \in Entry BY DEF IInv, TypeOK
  <2>2. p \in Path /\ n \in Id /\ e = <<p, n>> /\ n # 0 BY <2>1, EntryFacts DEF Id
  <2>3. /\ flushing.by = "dispose" /\ ~disposed
        /\ e \in Entries \/ (states[p] = 0 /\ ~Behind(s))
    BY DEF IInv, FlushInv
  <2>4. Sound(s) BY <2>2 DEF IInv, ObjectsInv
  <2> HIDE DEF s, p, n
  <2> QED BY <2>1, <2>2, <2>3, <2>4
<1>2. /\ states' = IF Behind(s) THEN states ELSE [states EXCEPT ![p] = 0]
      /\ flushing' = [flushing EXCEPT
           !.pc = "entry", !.todo = @ \ {e}, !.at = <<>>, !.awake = FALSE, !.prior = 0,
           !.progress = @ \/ (flushing.pc = "second" /\ s.applied > flushing.prior),
           !.errors = @ \/ (flushing.pc = "second" /\ Behind(s) /\ s.error)]
  BY DEF EntryDone
<1>3. PICK b \in BOOLEAN : b <=> flushing.progress \/ (flushing.pc = "second" /\ s.applied > flushing.prior)
  OBVIOUS
<1>4. PICK c \in BOOLEAN : c <=> flushing.errors \/ (flushing.pc = "second" /\ Behind(s) /\ s.error)
  OBVIOUS
<1>5. flushing' = [flushing EXCEPT !.pc = "entry", !.todo = @ \ {e}, !.at = <<>>, !.awake = FALSE,
                                   !.prior = 0, !.progress = b, !.errors = c]
  BY <1>2, <1>3, <1>4
<1>6. /\ ~Behind(s) => ~s.retry /\ (states[p] # 0 => states[p] = n /\ disk[p] = want[p])
      /\ Behind(s) => c /\ states[p] = n
  <2>1. states[p] # 0 => states[p] = n BY <1>1 DEF Entries
  <2>2. states[p] # 0 => s.latest = want[p] /\ s.applied <= disk[p] /\ disk[p] <= want[p]
    BY <1>1, <2>1 DEF IInv, MapInv
  <2>3. s.latest \in Nat /\ s.applied \in Nat /\ disk[p] \in Nat /\ want[p] \in Nat
    BY <1>1 DEF Sound, Object, TypeOK
  <2>4. ~Behind(s) => ~s.retry BY <1>1 DEF Sound
  <2>5. Behind(s) => c /\ states[p] = n BY <1>1, <1>4 DEF Entries
  <2> HIDE DEF s, p, n
  <2> QED BY <2>1, <2>2, <2>3, <2>4, <2>5 DEF Behind
<1>7. /\ flushing'.pc = "entry" /\ flushing'.by = "dispose" /\ flushing'.todo = flushing.todo \ {e}
      /\ flushing'.at = <<>> /\ ~flushing'.awake /\ flushing'.errors = c
  BY <1>1, <1>5 DEF TypeOK
<1> HIDE DEF s, p, n
<1>8. /\ states' \in [Path -> 0..MaxOps]
      /\ \A q \in Path : q # p => states'[q] = states[q]
      /\ states'[p] = IF Behind(s) THEN n ELSE 0
  BY <1>1, <1>2, <1>6, OpsAssumption DEF TypeOK
<1>9. TypeOK'
  <2>1. flushing' \in [pc: {"idle", "entry", "first", "second"},
                       by: Callers \cup {"none"}, todo: SUBSET Entry,
                       at: Entry \cup {<<>>}, prior: 0..MaxOps, awake: BOOLEAN,
                       progress: BOOLEAN, errors: BOOLEAN]
    <3>1. 0 \in 0..MaxOps /\ flushing.todo \ {e} \in SUBSET Entry BY <1>1, OpsAssumption DEF TypeOK
    <3> QED BY <1>1, <1>5, <3>1 DEF TypeOK
  <2> QED BY <1>1, <1>8, <2>1 DEF TypeOK
<1>10. ObjectsInv'
  <2> SUFFICES ASSUME NEW q \in Path, NEW m \in Id, m # states'[q]
               PROVE  ~object[q][m].running /\ ~object[q][m].retry
    BY DEF IInv, ObjectsInv
  <2>1. m # states[q] \/ (q = p /\ m = n /\ ~Behind(s))
    BY <1>1, <1>6, <1>8 DEF Id
  <2> QED BY <2>1, <1>1, <1>6 DEF IInv, ObjectsInv, s, p, n
<1>11. MapInv'
  <2> SUFFICES ASSUME NEW q \in Path
               PROVE  /\ states'[q] <= want[q]
                      /\ states'[q] = 0 => disk[q] = want[q]
                      /\ states'[q] # 0 => states'[q] = states[q]
    BY DEF IInv, MapInv
  <2>1. want[q] \in Nat BY <1>1 DEF TypeOK
  <2> QED BY <2>1, <1>1, <1>6, <1>8 DEF IInv, MapInv
<1>12. \A f \in Entry : ~Ended(f)' BY DEF Ended
<1>13. LoopInv' BY <1>12 DEF LoopInv
<1>14. FlushInv'
  <2>1. ASSUME NEW f \in flushing.todo \ {e}
        PROVE  f \in Entries' \/ (states'[f[1]] = 0 /\ ~Behind(object[f[1]][f[2]]))
    <3>1. f \in Entry BY <1>1 DEF TypeOK
    <3>2. f[1] \in Path /\ f[2] \in Id /\ f = <<f[1], f[2]>> BY <3>1, EntryFacts
    <3>3. f \in Entries \/ (states[f[1]] = 0 /\ ~Behind(object[f[1]][f[2]]))
      BY DEF IInv, FlushInv
    <3>4. CASE f[1] # p
      BY <3>1, <3>2, <3>3, <3>4, <1>8 DEF Entries
    <3>5. CASE f[1] = p
      <4>1. f[2] # n BY <3>2, <3>5, <1>1
      <4>2. f[2] # 0 BY <3>2 DEF Id
      <4>3. states[p] # f[2]
        <5>1. states[p] # 0 => states[p] = n BY <1>6
        <5> QED BY <5>1, <4>1, <4>2
      <4>4. f \notin Entries BY <4>3, <3>5 DEF Entries
      <4>5. states[p] = 0 /\ ~Behind(object[f[1]][f[2]]) BY <4>4, <3>3, <3>5
      <4>6. states'[p] = 0 BY <4>5, <4>1, <1>1, <1>6, <1>8
      <4> QED BY <4>5, <4>6, <3>5
    <3> QED BY <3>4, <3>5
  <2>2. c \/ Entries' \subseteq flushing.todo \ {e}
    <3> SUFFICES ASSUME ~c, NEW f \in Entries' PROVE f \in flushing.todo \ {e} OBVIOUS
    <3>1. f \in Entry /\ states'[f[1]] = f[2] /\ f[1] \in Path /\ f[2] # 0
      BY EntryFacts DEF Entries, Id
    <3>2. f[1] # p BY <3>1, <1>6, <1>8
    <3>3. f \in Entries BY <3>1, <3>2, <1>8 DEF Entries
    <3>4. ~flushing.errors BY <1>4
    <3> QED BY <3>2, <3>3, <3>4 DEF IInv, FlushInv, p
  <2> QED BY <2>1, <2>2, <1>1, <1>7, <1>12 DEF FlushInv
<1>15. Over' BY <1>1 DEF Over
<1> QED BY <1>9, <1>10, <1>11, <1>13, <1>14, <1>15 DEF IInv

\* Nothing of an object changes by a cancelled timer that is not set.
LEMMA NoTimer ==
  ASSUME TypeOK, NEW p \in Path, NEW n \in Id, ~object[p][n].retry,
         Put(p, n, CancelRetry(object[p][n]))
  PROVE  object' = object
<1> DEFINE s == object[p][n]
<1>1. s \in Object /\ s.retry = FALSE BY DEF TypeOK, Object
<1>2. CancelRetry(s) = s BY <1>1 DEF CancelRetry, Object
<1> QED BY <1>2 DEF Put, TypeOK

\* A flush at an entry whose object has no drain: it drains what the object has
\* not applied yet, and otherwise is done with the entry.
LEMMA AfterFirstInv ==
  ASSUME IInv, NEW e \in flushing.todo, flushing.pc \in {"entry", "first"},
         \A f \in Entry : ~Ended(f), ~object[e[1]][e[2]].running,
         AfterFirst(e, object[e[1]][e[2]]), UNCHANGED <<want, disk, disposed>>
  PROVE  IInv'
<1> DEFINE p == e[1]
           n == e[2]
           s == object[p][n]
<1>1. TypeOK /\ e \in Entry /\ p \in Path /\ n \in Id /\ e = <<p, n>> /\ n # 0 /\ Sound(s)
  <2>1. TypeOK /\ e \in Entry BY DEF IInv, TypeOK
  <2>2. p \in Path /\ n \in Id /\ e = <<p, n>> /\ n # 0 BY <2>1, EntryFacts DEF Id
  <2> QED BY <2>1, <2>2 DEF IInv, ObjectsInv
<1>2. CASE ~Behind(s)
  <2>1. ~s.retry BY <1>1, <1>2 DEF Sound
  <2>2. Put(p, n, CancelRetry(s)) /\ EntryDone(e, s) BY <1>2 DEF AfterFirst
  <2>3. object' = object BY <1>1, <2>1, <2>2, NoTimer
  <2> QED BY <1>2, <2>2, <2>3, EntryDoneInv
<1>3. CASE Behind(s)
  <2> DEFINE idle == [s EXCEPT !.error = FALSE, !.retry = FALSE]
             t == StartDrain(idle)
  <2>1. /\ Put(p, n, t) /\ UNCHANGED <<want, disk, states, disposed>>
        /\ flushing' = [flushing EXCEPT !.pc = "second", !.at = e, !.awake = FALSE,
                                        !.prior = s.applied]
    BY <1>3 DEF AfterFirst
  <2>2. /\ flushing.by = "dispose" /\ ~disposed /\ e \in Entries /\ states[p] = n
    BY <1>3 DEF IInv, FlushInv, Entries
  <2>3. /\ s.latest = want[p] /\ s.applied <= disk[p] /\ disk[p] <= want[p]
        /\ s.applied \in 0..MaxOps /\ s.op = 0
    BY <1>1, <2>2 DEF IInv, MapInv, Sound, Object
  <2>4. /\ idle \in Object /\ ~idle.running /\ ~idle.retry /\ idle.latest = s.latest
        /\ idle.applied = s.applied /\ idle.op = s.op
    BY <1>1 DEF Sound, Object
  <2> HIDE DEF idle
  <2>5. Sound(idle) /\ Behind(idle) BY <2>3, <2>4, <1>1, <1>3 DEF Sound, Behind
  <2>6. /\ Sound(t) /\ t.running /\ t.op = s.latest /\ t.op # 0 /\ t.latest = s.latest
        /\ t.applied = s.applied /\ ~t.retry
    BY <2>4, <2>5, StartFacts
  <2> HIDE DEF t
  <2>7. /\ object' \in [Path -> [Id -> Object]]
        /\ object'[p][n] = t
        /\ \A q \in Path, m \in Id : q # p \/ m # n => object'[q][m] = object[q][m]
    BY <1>1, <2>1, <2>6, PutFacts DEF Sound
  <2>8. TypeOK'
    <3>1. flushing' \in [pc: {"idle", "entry", "first", "second"},
                         by: Callers \cup {"none"}, todo: SUBSET Entry,
                         at: Entry \cup {<<>>}, prior: 0..MaxOps, awake: BOOLEAN,
                         progress: BOOLEAN, errors: BOOLEAN]
      BY <1>1, <2>1, <2>3 DEF TypeOK
    <3> QED BY <1>1, <2>1, <2>7, <3>1 DEF TypeOK
  <2>9. /\ flushing'.pc = "second" /\ flushing'.by = flushing.by /\ flushing'.todo = flushing.todo
        /\ flushing'.at = e /\ ~flushing'.awake /\ flushing'.errors = flushing.errors
    BY <1>1, <2>1 DEF TypeOK
  <2> HIDE DEF s, p, n
  <2>10. ObjectsInv'
    <3> SUFFICES ASSUME NEW q \in Path, NEW m \in Id
                 PROVE  /\ Sound(object'[q][m])
                        /\ m > want[q] => object'[q][m] = Fresh(m)
                        /\ m # states[q] => ~object'[q][m].running /\ ~object'[q][m].retry
      BY <2>1 DEF ObjectsInv
    <3>1. CASE q = p /\ m = n
      <4>1. ~(n > want[p])
        <5>1. want[p] \in Nat /\ n \in Nat /\ states[p] <= want[p]
          BY <1>1 DEF TypeOK, Id, IInv, MapInv
        <5> QED BY <5>1, <2>2
      <4> QED BY <3>1, <2>2, <2>6, <2>7, <4>1
    <3>2. CASE q # p \/ m # n
      BY <3>2, <2>7 DEF IInv, ObjectsInv
    <3> QED BY <3>1, <3>2
  <2>11. MapInv'
    <3> SUFFICES ASSUME NEW q \in Path, states[q] # 0
                 PROVE  LET o == object'[q][states[q]] IN
                        /\ o.latest = want[q] /\ o.applied <= disk[q]
                        /\ o.op # 0 => disk[q] <= o.op
      BY <2>1 DEF IInv, MapInv
    <3>1. CASE q = p
      BY <3>1, <2>2, <2>3, <2>6, <2>7
    <3>2. CASE q # p
      <4>1. states[q] \in Id BY <1>1 DEF TypeOK, Id
      <4> QED BY <3>2, <4>1, <2>7 DEF IInv, MapInv
    <3> QED BY <3>1, <3>2
  <2>12. \A f \in Entry : ~Ended(f)'
    <3> SUFFICES ASSUME NEW f \in Entry, Ended(f)' PROVE FALSE OBVIOUS
    <3>1. f[1] \in Path /\ f[2] \in Id BY EntryFacts
    <3> QED BY <3>1, <2>6, <2>7 DEF Ended
  <2>13. LoopInv' BY <2>12 DEF LoopInv
  <2>14. FlushInv'
    <3>1. Entries' = Entries BY <2>1 DEF Entries
    <3>2. ASSUME NEW f \in flushing.todo, states[f[1]] = 0, ~Behind(object[f[1]][f[2]])
          PROVE  ~Behind(object'[f[1]][f[2]])
      <4>1. f[1] \in Path /\ f[2] \in Id /\ f[1] # p
        BY <3>2, <1>1, <2>2, EntryFacts DEF TypeOK
      <4> QED BY <4>1, <3>2, <2>7
    <3> QED BY <3>1, <3>2, <2>1, <2>2, <2>9, <2>12 DEF IInv, FlushInv
  <2>15. Over' BY <2>1 DEF IInv, Over
  <2> QED BY <2>8, <2>10, <2>11, <2>13, <2>14, <2>15 DEF IInv
<1> QED BY <1>2, <1>3

\* A flush turns to an entry of its round.
LEMMA FlushEntryInv ==
  ASSUME IInv, NEW e \in Entry, FlushEntry(e) PROVE IInv'
<1> DEFINE s == object[e[1]][e[2]]
<1>1. /\ flushing.pc = "entry" /\ e \in flushing.todo /\ UNCHANGED <<want, disk, disposed>>
      /\ \A f \in Entry : ~Ended(f)
  BY DEF FlushEntry, IInv, LoopInv
<1>2. CASE ~s.running
  BY <1>1, <1>2, AfterFirstInv DEF FlushEntry
<1>3. CASE s.running
  <2>1. /\ Put(e[1], e[2], CancelRetry(s)) /\ UNCHANGED states
        /\ flushing' = [flushing EXCEPT !.pc = "first", !.at = e, !.awake = FALSE]
    BY <1>3 DEF FlushEntry
  <2>2. TypeOK /\ e[1] \in Path /\ e[2] \in Id /\ Sound(s) BY EntryFacts DEF IInv, ObjectsInv
  <2>3. ~s.retry BY <1>1, <1>3, <2>2 DEF Ended, Sound
  <2>4. object' = object BY <2>1, <2>2, <2>3, NoTimer
  <2>5. TypeOK'
    <3>1. flushing' \in [pc: {"idle", "entry", "first", "second"},
                         by: Callers \cup {"none"}, todo: SUBSET Entry,
                         at: Entry \cup {<<>>}, prior: 0..MaxOps, awake: BOOLEAN,
                         progress: BOOLEAN, errors: BOOLEAN]
      BY <2>1, <2>2 DEF TypeOK
    <3> QED BY <1>1, <2>1, <2>2, <2>4, <3>1 DEF TypeOK
  <2>6. /\ flushing'.pc = "first" /\ flushing'.by = flushing.by /\ flushing'.todo = flushing.todo
        /\ flushing'.at = e /\ ~flushing'.awake /\ flushing'.errors = flushing.errors
    BY <2>1, <2>2 DEF TypeOK
  <2>7. Entries' = Entries /\ \A f \in Entry : Ended(f)' = Ended(f) BY <2>1, <2>4 DEF Entries, Ended
  <2>8. ObjectsInv' /\ MapInv' /\ Over' BY <1>1, <2>1, <2>4 DEF IInv, ObjectsInv, MapInv, Over
  <2>9. LoopInv' BY <1>1, <2>7 DEF LoopInv
  <2>10. FlushInv' BY <1>1, <2>1, <2>4, <2>6, <2>7 DEF IInv, FlushInv
  <2> QED BY <2>5, <2>8, <2>9, <2>10 DEF IInv
<1> QED BY <1>2, <1>3

\* The flush goes on after one of its awaits.
LEMMA FlushResumesInv ==
  ASSUME IInv, FlushFirst \/ FlushSecond PROVE IInv'
<1> DEFINE e == flushing.at
           s == object[e[1]][e[2]]
<1>1. /\ flushing.pc \in {"first", "second"} /\ flushing.awake /\ UNCHANGED <<want, disk, disposed>>
  BY DEF FlushFirst, FlushSecond
<1>2. /\ e \in flushing.todo /\ \A f \in Entry : ~Ended(f)
      /\ ~s.running /\ (Behind(s) => s.error)
  BY <1>1 DEF IInv, FlushInv, LoopInv
<1>3. CASE FlushFirst
  <2>1. flushing.pc = "first" /\ AfterFirst(e, s) BY <1>3 DEF FlushFirst
  <2> HIDE DEF e
  <2> QED BY <1>1, <1>2, <2>1, AfterFirstInv
<1>4. CASE FlushSecond
  <2>1. flushing.pc = "second" /\ EntryDone(e, s) /\ UNCHANGED object BY <1>4 DEF FlushSecond
  <2> HIDE DEF e
  <2> QED BY <1>1, <1>2, <2>1, EntryDoneInv
<1> QED BY <1>3, <1>4

\* The end of a round: either everything has left the map, or an error is
\* reported and the queue goes on.
LEMMA RoundEndsInv ==
  ASSUME IInv, FlushRoundEnds PROVE IInv'
<1>1. flushing.pc = "entry" /\ flushing.todo = {} /\ UNCHANGED <<want, disk>> BY DEF FlushRoundEnds
<1>2. /\ TypeOK /\ flushing.by = "dispose" /\ ~disposed
      /\ flushing.errors \/ Entries = {}
      /\ \A f \in Entry : ~Ended(f)
  BY <1>1 DEF IInv, FlushInv, LoopInv
<1>3. ~MoreToFlush BY <1>2 DEF MoreToFlush
<1>4. flushing' = NoFlush BY <1>3 DEF FlushRoundEnds
<1>5. /\ ~flushing.errors => Dispose
      /\ flushing.errors => UNCHANGED <<states, object, disposed>>
  BY <1>2, <1>3 DEF FlushRoundEnds
<1>6. ASSUME Entries = {} PROVE \A p \in Path : states[p] = 0
  <2> SUFFICES ASSUME NEW p \in Path, states[p] # 0 PROVE FALSE OBVIOUS
  <2>1. states[p] \in Id BY <1>2 DEF TypeOK, Id
  <2>2. <<p, states[p]>> \in Entries
    <3> DEFINE e == <<p, states[p]>>
    <3>1. e \in Entry /\ e[1] = p /\ e[2] = states[p] BY <2>1 DEF Entry
    <3>2. states[e[1]] = e[2] BY <3>1
    <3> QED BY <3>1, <3>2 DEF Entries
  <2> QED BY <1>6, <2>2
<1>7. UNCHANGED <<states, object>> /\ (disposed' => \A p \in Path : states'[p] = 0)
      /\ disposed' \in BOOLEAN
  <2>1. CASE flushing.errors
    <3>1. UNCHANGED <<states, object, disposed>> BY <2>1, <1>5
    <3>2. disposed' \in BOOLEAN BY <3>1, <1>2 DEF TypeOK
    <3> QED BY <3>1, <3>2, <1>2
  <2>2. CASE ~flushing.errors
    <3>1. Dispose /\ \A p \in Path : states[p] = 0 BY <2>2, <1>2, <1>5, <1>6
    <3>2. states' = [p \in Path |-> 0] /\ states = [p \in Path |-> 0]
      BY <3>1, <1>2 DEF Dispose, TypeOK
    <3>3. object' = [p \in Path |-> [n \in Id |-> object[p][n]]]
      <4>1. \A p \in Path, n \in Id : states[p] # n BY <3>1 DEF Id
      <4> QED BY <3>1, <4>1 DEF Dispose
    <3>4. object' = object BY <3>3, <1>2 DEF TypeOK
    <3>5. disposed' \in BOOLEAN BY <3>1, Zenon DEF Dispose
    <3> QED BY <3>1, <3>2, <3>4, <3>5
  <2> QED BY <2>1, <2>2
<1>8. TypeOK'
  <2>1. flushing' \in [pc: {"idle", "entry", "first", "second"},
                       by: Callers \cup {"none"}, todo: SUBSET Entry,
                       at: Entry \cup {<<>>}, prior: 0..MaxOps, awake: BOOLEAN,
                       progress: BOOLEAN, errors: BOOLEAN]
    <3>1. {} \in SUBSET Entry /\ <<>> \in Entry \cup {<<>>} /\ 0 \in 0..MaxOps
      BY OpsAssumption
    <3> QED BY <1>4, <3>1 DEF NoFlush
  <2> QED BY <1>1, <1>2, <1>7, <2>1 DEF TypeOK
<1>9. ObjectsInv' /\ MapInv' /\ Over' BY <1>1, <1>7 DEF IInv, ObjectsInv, MapInv, Over
<1>10. \A f \in Entry : ~Ended(f)' BY <1>2, <1>7 DEF Ended
<1>11. LoopInv' /\ FlushInv' BY <1>4, <1>10 DEF LoopInv, FlushInv, NoFlush
<1> QED BY <1>8, <1>9, <1>11 DEF IInv

-----------------------------------------------------------------------------
(* The theorems.                                                           *)

\* The invariant reads the variables of the module only.
LEMMA StutterInv == IInv /\ UNCHANGED vars => IInv'
<1> SUFFICES ASSUME IInv, UNCHANGED vars PROVE IInv' OBVIOUS
<1> USE DEF vars
<1>1. TypeOK' BY DEF IInv, TypeOK
<1>2. ObjectsInv' /\ MapInv' /\ Over' BY DEF IInv, ObjectsInv, MapInv, Over
<1>3. Entries' = Entries /\ \A e \in Entry : Ended(e)' = Ended(e) BY DEF Entries, Ended
<1>4. LoopInv' BY <1>3 DEF IInv, LoopInv
<1>5. FlushInv' BY <1>3 DEF IInv, FlushInv
<1> QED BY <1>1, <1>2, <1>4, <1>5 DEF IInv

\* Every step keeps the invariant.
LEMMA NextInv ==
  ASSUME OnlyDisposal, IInv, [Next]_vars PROVE IInv'
<1>1. ASSUME NEW p \in Path, Schedule(p) PROVE IInv' BY <1>1, ScheduleInv
<1>2. ASSUME NEW p \in Path, NEW n \in Id, WriteOk(p, n) PROVE IInv' BY <1>2, WriteOkInv
<1>3. ASSUME NEW p \in Path, NEW n \in Id, WriteFails(p, n) PROVE IInv' BY <1>3, WriteFailsInv
<1>4. ASSUME NEW p \in Path, NEW n \in Id, Settle(p, n) PROVE IInv' BY <1>4, SettleInv
<1>5. ASSUME NEW p \in Path, NEW n \in Id, RetryFires(p, n) PROVE IInv' BY <1>5, RetryInv
<1>6. ASSUME NEW who \in Callers, FlushBegin(who) PROVE IInv' BY <1>6, FlushBeginInv
<1>7. ASSUME NEW e \in Entry, FlushEntry(e) PROVE IInv' BY <1>7, FlushEntryInv
<1>8. CASE FlushFirst \/ FlushSecond BY <1>8, FlushResumesInv
<1>9. CASE FlushRoundEnds BY <1>9, RoundEndsInv
<1>10. CASE UNCHANGED vars BY <1>10, StutterInv
<1> QED BY <1>1, <1>2, <1>3, <1>4, <1>5, <1>6, <1>7, <1>8, <1>9, <1>10 DEF Next, FlushStep

\* The invariant holds throughout.
THEOREM Invariance ==
  ASSUME OnlyDisposal PROVE Spec => []IInv
<1>1. IInv /\ [Next]_vars => IInv' BY NextInv
<1> QED BY <1>1, InitIInv, PTL DEF Spec

\* For any files and requests, when only disposal flushes: a path has at most
\* one drain, and when the queue has shut down every file reflects the newest
\* request and no drain is left.
THEOREM QueueCorrect ==
  ASSUME OnlyDisposal PROVE Spec => []QueueIsSound
<1>1. IInv => QueueIsSound
  <2> SUFFICES ASSUME IInv PROVE QueueIsSound OBVIOUS
  <2>1. TypeOK BY DEF IInv
  <2>2. OneWriter BY DEF IInv, ObjectsInv, OneWriter
  <2>3. DisposedIsDurable
    <3> SUFFICES ASSUME disposed
                 PROVE  disk = want /\ \A p \in Path, n \in Id : ~object[p][n].running
      BY DEF DisposedIsDurable
    <3>1. \A p \in Path : states[p] = 0 BY DEF IInv, Over
    <3>2. \A p \in Path : disk[p] = want[p] BY <3>1 DEF IInv, MapInv
    <3>3. disk = want BY <2>1, <3>2 DEF TypeOK
    <3>4. \A p \in Path, n \in Id : n # states[p] BY <3>1 DEF Id
    <3> QED BY <3>3, <3>4 DEF IInv, ObjectsInv
  <2> QED BY <2>1, <2>2, <2>3 DEF QueueIsSound
<1> QED BY <1>1, Invariance, PTL

-----------------------------------------------------------------------------
(* The refinement of LatestWrite.                                          *)

\* An adapter call that replaced the file, whether it then succeeded or not,
\* applies a newer request or leaves the file as it was.
LEMMA WriteImplements ==
  ASSUME IInv, NEW p \in Path, NEW n \in Id, object[p][n].running, object[p][n].op # 0,
         disk' = [disk EXCEPT ![p] = object[p][n].op], want' = want
  PROVE  [Promise!Next]_(Promise!vars)
<1> DEFINE d == object[p][n].op
<1>1. /\ disk \in [Path -> 0..MaxOps] /\ want \in [Path -> 0..MaxOps]
      /\ d \in 0..MaxOps /\ disk[p] <= d /\ d <= want[p]
  BY AtWork DEF IInv, TypeOK, Sound
<1> HIDE DEF d
<1>2. disk' = [disk EXCEPT ![p] = d] BY DEF d
<1>3. CASE d = disk[p]
  <2>1. disk' = disk BY <1>1, <1>2, <1>3
  <2> QED BY <2>1 DEF Promise!vars
<1>4. CASE d # disk[p]
  <2>1. disk[p] < want[p] /\ d \in (disk[p] + 1)..want[p] BY <1>1, <1>4, OpsAssumption
  <2>2. Promise!Apply(p) BY <1>2, <2>1 DEF Promise!Apply
  <2> QED BY <2>2 DEF Promise!Next
<1> QED BY <1>3, <1>4

\* Every step of the queue is a step of LatestWrite or leaves it alone.
LEMMA StepImplements == IInv /\ [Next]_vars => [Promise!Next]_(Promise!vars)
<1> SUFFICES ASSUME IInv, [Next]_vars PROVE [Promise!Next]_(Promise!vars) OBVIOUS
<1>1. ASSUME NEW p \in Path, Schedule(p) PROVE [Promise!Next]_(Promise!vars)
  <2>1. want' = [want EXCEPT ![p] = @ + 1] /\ disk' = disk BY <1>1 DEF Schedule
  <2> QED BY <2>1 DEF Promise!Next, Promise!Request
<1>2. ASSUME NEW p \in Path, NEW n \in Id, WriteOk(p, n) \/ WriteFails(p, n)
      PROVE  [Promise!Next]_(Promise!vars)
  <2>1. /\ object[p][n].running /\ object[p][n].op # 0 /\ want' = want
        /\ disk' = disk \/ disk' = [disk EXCEPT ![p] = object[p][n].op]
    BY <1>2 DEF WriteOk, WriteFails
  <2>2. CASE disk' = disk BY <2>1, <2>2 DEF Promise!vars
  <2> QED BY <2>1, <2>2, WriteImplements
<1>3. CASE UNCHANGED <<want, disk>> BY <1>3 DEF Promise!vars
<1>4. \/ \E p \in Path : Schedule(p)
      \/ \E p \in Path, n \in Id : WriteOk(p, n) \/ WriteFails(p, n)
      \/ UNCHANGED <<want, disk>>
  BY DEF Next, vars, Settle, RetryFires, FlushBegin, FlushStep, FlushEntry, FlushFirst,
     FlushSecond, FlushRoundEnds
<1> QED BY <1>1, <1>2, <1>3, <1>4

\* The queue implements LatestWrite: through failures, retries and a disposal,
\* a file follows the requests in order and never goes back.
THEOREM QueueImplements ==
  ASSUME OnlyDisposal PROVE Spec => LatestWins
<1>1. Init => Promise!Init BY DEF Init, Promise!Init
<1> QED BY <1>1, StepImplements, Invariance, PTL DEF Spec, LatestWins, Promise!Spec

-----------------------------------------------------------------------------
\* What a page may be by itself.  Nothing is written that is newer than the
\* page; a write or a timer of the newest generation has the page's canvas.
\* A task waits for one write at most, and whatever was queued behind that is
\* as new as all before it.
WritesFit(p) ==
  \A i \in 1..Len(p.tail) :
    /\ p.tail[i].gen <= p.gen
    /\ p.tail[i].gen = p.gen => p.tail[i].canvas \in {-1, p.canvas}
    /\ p.tail[i].awaited => p.left # 0
    /\ p.tail[i].awaited /\ p.left > 0 => p.tail[i].canvas = -1
OneAwaited(p) ==
  \A i, j \in 1..Len(p.tail) : p.tail[i].awaited /\ p.tail[j].awaited => i = j
NewerBehind(p) ==
  \A i, j \in 1..Len(p.tail) : p.tail[i].awaited /\ i < j =>
    /\ p.tail[j].gen >= p.saved
    /\ \A k \in 1..i : p.tail[j].gen >= p.tail[k].gen
PageSound(p) ==
  /\ ~p.up => p = NoPage
  /\ p.saved <= p.gen
  /\ p.timer \in {-1, p.canvas}
  /\ WritesFit(p) /\ OneAwaited(p) /\ NewerBehind(p)
  /\ p.left # 0 => p.asks # <<>>
  /\ p.left = -2 => p.asks[1].reason # "quit"

AtRest(p) == \A i \in 1..Len(p.tail) : ~p.tail[i].awaited

LEMMA TailFacts ==
  ASSUME NEW S, NEW s \in Seq(S), s # <<>>
  PROVE  /\ Tail(s) \in Seq(S) /\ Len(Tail(s)) = Len(s) - 1
         /\ \A i \in 1..Len(s) - 1 : Tail(s)[i] = s[i + 1]
         /\ Head(s) = s[1] /\ s[1] \in S /\ Len(s) \in Nat /\ Len(s) >= 1
  OBVIOUS

LEMMA AppendFacts ==
  ASSUME NEW S, NEW s \in Seq(S), NEW e \in S
  PROVE  /\ Append(s, e) \in Seq(S) /\ Len(Append(s, e)) = Len(s) + 1 /\ Len(s) \in Nat
         /\ \A i \in 1..Len(s) : Append(s, e)[i] = s[i]
         /\ Append(s, e)[Len(s) + 1] = e /\ Append(s, e) # <<>>
  OBVIOUS

LEMMA ReplaceFacts ==
  ASSUME NEW S, NEW s \in Seq(S), NEW n \in 1..Len(s), NEW e \in S
  PROVE  /\ [s EXCEPT ![n] = e] \in Seq(S) /\ Len([s EXCEPT ![n] = e]) = Len(s)
         /\ \A i \in 1..Len(s) : [s EXCEPT ![n] = e][i] = IF i = n THEN e ELSE s[i]
  OBVIOUS

\* A write that is queued last, captured or not.
LEMMA EnqueueSound ==
  ASSUME NEW p \in Page, PageSound(p), p.up,
         NEW gen \in Nat, NEW canvas \in Canvas \cup {-1}, NEW awaited \in BOOLEAN,
         gen <= p.gen, gen = p.gen => canvas \in {-1, p.canvas},
         awaited => AtRest(p) /\ p.left # 0 /\ canvas = -1,
         ~awaited => gen = p.gen
  PROVE  /\ Enqueue(p, gen, canvas, awaited) \in Page
         /\ PageSound(Enqueue(p, gen, canvas, awaited))
         /\ Enqueue(p, gen, canvas, awaited) = [p EXCEPT !.tail = Enqueue(p, gen, canvas, awaited).tail]
<1> DEFINE e == [gen |-> gen, canvas |-> canvas, awaited |-> awaited]
           q == Enqueue(p, gen, canvas, awaited)
           n == Len(p.tail)
<1>1. e \in Write
  BY DEF Write
<1>2. p.tail \in Seq(Write)
  BY DEF Page
<1>3. /\ q.up = p.up /\ q.canvas = p.canvas /\ q.gen = p.gen /\ q.saved = p.saved
      /\ q.failed = p.failed /\ q.timer = p.timer /\ q.asks = p.asks /\ q.left = p.left
      /\ q.tail = Append(p.tail, e) /\ q = [p EXCEPT !.tail = q.tail]
  BY DEF Enqueue, Page
<1>4. q \in Page
  <2>1. Append(p.tail, e) \in Seq(Write)
    BY <1>1, <1>2, AppendFacts
  <2>2. q = [p EXCEPT !.tail = Append(p.tail, e)]
    BY DEF Enqueue
  <2> QED BY <2>1, <2>2 DEF Page
<1>5. /\ Len(q.tail) = n + 1 /\ n \in Nat /\ q.tail[n + 1] = e
      /\ \A i \in 1..n : q.tail[i] = p.tail[i] /\ q.tail[i] \in Write
  BY <1>1, <1>2, <1>3, AppendFacts
<1>6. p.gen \in Nat /\ p.saved \in Nat /\ p.left \in Int
  BY DEF Page
<1>7. \A i \in 1..n + 1 : i \in 1..n \/ i = n + 1
  BY <1>5
<1> HIDE DEF q, n
<1>8. WritesFit(q)
  BY <1>3, <1>5, <1>6, <1>7 DEF PageSound, WritesFit, n
<1>9. OneAwaited(q)
  BY <1>3, <1>5, <1>6, <1>7 DEF PageSound, OneAwaited, AtRest, n
<1>10. NewerBehind(q)
  BY <1>3, <1>5, <1>6, <1>7 DEF PageSound, WritesFit, NewerBehind, AtRest, n, Write
<1>11. PageSound(q)
  BY <1>3, <1>8, <1>9, <1>10 DEF PageSound
<1> QED BY <1>3, <1>4, <1>11 DEF q

\* An attempt of a flush is queued.
LEMMA AttemptSound ==
  ASSUME NEW p \in Page, PageSound(p), p.up, AtRest(p), p.asks # <<>>
  PROVE  LET q == Attempt(p)
             e == [gen |-> p.gen, canvas |-> -1, awaited |-> TRUE]
         IN  /\ q \in Page /\ PageSound(q)
             /\ q.up = p.up /\ q.canvas = p.canvas /\ q.gen = p.gen /\ q.saved = p.saved
             /\ q.timer = p.timer /\ q.asks = p.asks /\ q.left \in 1..2
             /\ e \in Write /\ q.tail = Append(p.tail, e)
<1> DEFINE left == IF p.failed = p.gen THEN 1 ELSE 2
           r == [p EXCEPT !.left = left]
           e == [gen |-> p.gen, canvas |-> -1, awaited |-> TRUE]
           q == Attempt(p)
<1>0. left \in 1..2
  OBVIOUS
<1>2. q = Enqueue(r, p.gen, -1, TRUE)
  BY DEF Attempt
<1> HIDE DEF left, q
<1>1. /\ r \in Page /\ r.up = p.up /\ r.canvas = p.canvas /\ r.gen = p.gen
      /\ r.saved = p.saved /\ r.timer = p.timer /\ r.tail = p.tail /\ r.asks = p.asks
      /\ r.left \in 1..2
  <2>1. r \in Page
    BY <1>0 DEF Page
  <2> QED BY <1>0, <2>1 DEF Page
<1> HIDE DEF r
<1>3. PageSound(r) /\ AtRest(r)
  BY <1>1 DEF PageSound, WritesFit, OneAwaited, NewerBehind, AtRest
<1>4. p.gen \in Nat /\ p.gen <= r.gen
  BY <1>1 DEF Page
<1>5. q \in Page /\ PageSound(q)
  <2>1. -1 \in Canvas \cup {-1} /\ r.left # 0 /\ r.up
    BY <1>1
  <2> QED BY <1>1, <1>2, <1>3, <1>4, <2>1, EnqueueSound
<1>6. q.tail = Append(p.tail, e)
  BY <1>1, <1>2 DEF Enqueue, Page
<1>7. e \in Write
  BY <1>4 DEF Write
<1>8. /\ q.up = r.up /\ q.canvas = r.canvas /\ q.gen = r.gen /\ q.saved = r.saved
      /\ q.timer = r.timer /\ q.asks = r.asks /\ q.left = r.left
  BY <1>1, <1>2 DEF Enqueue, Page
<1> QED BY <1>1, <1>5, <1>6, <1>7, <1>8 DEF q

\* The answer to a challenge, when nothing is awaited any more.
LEMMA AnswerSound ==
  ASSUME NEW p \in Page, PageSound(p), p.up, AtRest(p), p.asks # <<>>
  PROVE  LET q == Answer(p)
         IN  /\ q \in Page /\ PageSound(q)
             /\ q.up = p.up /\ q.canvas = p.canvas /\ q.gen = p.gen /\ q.saved = p.saved
             /\ q.timer = p.timer /\ q.asks = Tail(p.asks) /\ q.left = 0
             /\ q.tail = p.tail
<1> DEFINE q == Answer(p)
<1>1. p.asks \in Seq(Asked)
  BY DEF Page
<1>2. Tail(p.asks) \in Seq(Asked)
  BY <1>1, TailFacts
<1>3. /\ q \in Page
      /\ q.up = p.up /\ q.canvas = p.canvas /\ q.gen = p.gen /\ q.saved = p.saved
      /\ q.timer = p.timer /\ q.asks = Tail(p.asks) /\ q.left = 0
      /\ q.tail = p.tail
  <2> DEFINE asks == Tail(p.asks)
  <2>1. q = [p EXCEPT !.asks = asks, !.left = 0]
    BY DEF Answer
  <2> HIDE DEF asks, q
  <2>2. asks \in Seq(Asked) /\ 0 \in -2..2
    BY <1>2 DEF asks
  <2>3. q \in Page
    BY <2>1, <2>2 DEF Page
  <2> QED BY <2>1, <2>2, <2>3 DEF Page, asks
<1> HIDE DEF q
<1>4. PageSound(q)
  BY <1>3 DEF PageSound, WritesFit, OneAwaited, NewerBehind, AtRest
<1> QED BY <1>3, <1>4 DEF q

\* The flush goes on while the page is dirty.
LEMMA FlushLoopSound ==
  ASSUME NEW p \in Page, PageSound(p), p.up, AtRest(p), p.asks # <<>>
  PROVE  LET q == FlushLoop(p)
             e == [gen |-> p.gen, canvas |-> -1, awaited |-> TRUE]
         IN  /\ q \in Page /\ PageSound(q)
             /\ q.up = p.up /\ q.canvas = p.canvas /\ q.gen = p.gen /\ q.saved = p.saved
             /\ q.timer = p.timer
             /\ IF Dirty(p)
                THEN q.asks = p.asks /\ q.left \in 1..2 /\ e \in Write /\ q.tail = Append(p.tail, e)
                ELSE q.asks = Tail(p.asks) /\ q.left = 0 /\ q.tail = p.tail
<1>1. CASE Dirty(p)
  BY <1>1, AttemptSound DEF FlushLoop
<1>2. CASE ~Dirty(p)
  BY <1>2, AnswerSound DEF FlushLoop
<1> QED BY <1>1, <1>2

\* A forced flush finds the page dirty.
LEMMA ForcedSound ==
  ASSUME NEW p \in Page, PageSound(p), p.up, p.asks # <<>>
  PROVE  LET q == Forced(p)
         IN  /\ q \in Page /\ PageSound(q)
             /\ q.up = p.up /\ q.canvas = p.canvas /\ q.saved = p.saved
             /\ q.timer = p.timer /\ q.asks = p.asks /\ q.left = p.left /\ q.tail = p.tail
             /\ q.gen = p.gen \/ q.gen > p.gen
             /\ p.asks[1].reason = "quit" => Dirty(q)
<1> DEFINE q == Forced(p)
<1>1. Head(p.asks) = p.asks[1]
  BY TailFacts DEF Page
<1>2. p.gen \in Nat /\ p.saved \in Nat /\ p.saved <= p.gen /\ p.tail \in Seq(Write)
  BY DEF Page, PageSound
<1>3. CASE p.asks[1].reason = "quit" /\ ~Dirty(p)
  <2>1. q = [p EXCEPT !.gen = @ + 1]
    BY <1>1, <1>3 DEF Forced
  <2> HIDE DEF q
  <2>0. q \in Page
    BY <1>2, <2>1 DEF Page
  <2>2. /\ q.up = p.up /\ q.canvas = p.canvas /\ q.saved = p.saved
        /\ q.timer = p.timer /\ q.asks = p.asks /\ q.left = p.left /\ q.tail = p.tail
        /\ q.gen = p.gen + 1
    BY <1>2, <2>1 DEF Page
  <2>3. \A i \in 1..Len(p.tail) : p.tail[i] \in Write
    BY <1>2
  <2>4. \A i \in 1..Len(p.tail) : p.tail[i].gen <= p.gen /\ p.tail[i].gen \in Nat
    BY <2>3 DEF PageSound, WritesFit, Write
  <2>5. PageSound(q)
    BY <1>2, <2>2, <2>4 DEF PageSound, WritesFit, OneAwaited, NewerBehind
  <2> QED BY <1>2, <2>0, <2>2, <2>5 DEF q, Dirty
<1>4. CASE ~(p.asks[1].reason = "quit" /\ ~Dirty(p))
  BY <1>1, <1>4 DEF Forced
<1> QED BY <1>3, <1>4

\* The debounced save is dropped.
LEMMA DropSound ==
  ASSUME NEW p \in Page, PageSound(p), p.up
  PROVE  LET q == [p EXCEPT !.timer = -1]
         IN  /\ q \in Page /\ PageSound(q)
             /\ q.up = p.up /\ q.canvas = p.canvas /\ q.gen = p.gen /\ q.saved = p.saved
             /\ q.timer = -1 /\ q.asks = p.asks /\ q.left = p.left /\ q.tail = p.tail
<1> DEFINE q == [p EXCEPT !.timer = -1]
<1>1. /\ q \in Page
      /\ q.up = p.up /\ q.canvas = p.canvas /\ q.gen = p.gen /\ q.saved = p.saved
      /\ q.timer = -1 /\ q.asks = p.asks /\ q.left = p.left /\ q.tail = p.tail
  BY DEF Page
<1> HIDE DEF q
<1>2. PageSound(q)
  BY <1>1 DEF PageSound, WritesFit, OneAwaited, NewerBehind
<1> QED BY <1>1, <1>2 DEF q

\* The newest write under way is awaited.
LEMMA AwaitSound ==
  ASSUME NEW p \in Page, PageSound(p), p.up, AtRest(p), p.tail # <<>>, p.asks # <<>>,
         NEW left \in {-1, -2}, left = -2 => p.asks[1].reason # "quit"
  PROVE  LET q == Await(p, left)
         IN  /\ q \in Page /\ PageSound(q)
             /\ q.up = p.up /\ q.canvas = p.canvas /\ q.gen = p.gen /\ q.saved = p.saved
             /\ q.timer = p.timer /\ q.asks = p.asks /\ q.left = left
             /\ Len(q.tail) = Len(p.tail)
             /\ \A i \in 1..Len(p.tail) :
                  q.tail[i].gen = p.tail[i].gen /\ q.tail[i].canvas = p.tail[i].canvas
<1> DEFINE n == Len(p.tail)
           t == [p.tail EXCEPT ![n] = [p.tail[n] EXCEPT !.awaited = TRUE]]
           q == Await(p, left)
<1>1. p.tail \in Seq(Write) /\ n \in Nat /\ n >= 1
  <2>1. p.tail \in Seq(Write)
    BY DEF Page
  <2> QED BY <2>1, TailFacts
<1>2. \A i \in 1..n : p.tail[i] \in Write
  BY <1>1
<1>3. /\ Len(t) = n
      /\ \A i \in 1..n : t[i] = IF i = n THEN [p.tail[n] EXCEPT !.awaited = TRUE] ELSE p.tail[i]
      /\ t \in Seq(Write)
  <2>1. n \in 1..Len(p.tail)
    BY <1>1
  <2>2. \A e \in Write : [e EXCEPT !.awaited = TRUE] \in Write
    BY DEF Write
  <2>3. [p.tail[n] EXCEPT !.awaited = TRUE] \in Write
    BY <1>2, <2>1, <2>2
  <2> QED BY <1>1, <2>1, <2>3, ReplaceFacts
<1>6. \A i \in 1..n : /\ t[i].gen = p.tail[i].gen /\ t[i].canvas = p.tail[i].canvas
                      /\ i = n => t[i].awaited
                      /\ i # n => ~t[i].awaited
  <2> TAKE i \in 1..n
  <2>1. CASE i = n
    BY <1>2, <1>3, <2>1 DEF Write
  <2>2. CASE i # n
    BY <1>3, <2>2 DEF AtRest
  <2> QED BY <2>1, <2>2
<1>7. q = [p EXCEPT !.left = left, !.tail = t]
  BY DEF Await
<1> HIDE DEF q, t
<1>8. q \in Page
  <2>1. left \in -2..2
    OBVIOUS
  <2> QED BY <1>3, <1>7, <2>1 DEF Page
<1>9. /\ q.up = p.up /\ q.canvas = p.canvas /\ q.gen = p.gen /\ q.saved = p.saved
      /\ q.timer = p.timer /\ q.asks = p.asks /\ q.left = left /\ q.tail = t
  BY <1>3, <1>7 DEF Page
<1>10. Len(q.tail) = n
  BY <1>3, <1>9 DEF t
<1> HIDE DEF n
<1>11. PageSound(q)
  <2>1. \A i \in 1..n :
       /\ p.tail[i].gen <= p.gen
       /\ p.tail[i].gen = p.gen => p.tail[i].canvas \in {-1, p.canvas}
    BY DEF PageSound, WritesFit, n
  <2>2. \A i, j \in 1..n : q.tail[i].awaited => i = n
    BY <1>6, <1>9
  <2> QED BY <1>1, <1>6, <1>9, <1>10, <2>1, <2>2
       DEF PageSound, WritesFit, OneAwaited, NewerBehind
<1> QED BY <1>6, <1>8, <1>9, <1>10, <1>11 DEF q, n

\* A write leaves the queue.  When it was awaited nothing else is, and what
\* remains is as new as what is saved by now.
LEMMA RecordedSound ==
  ASSUME NEW p \in Page, PageSound(p), p.up, p.tail # <<>>, NEW ok \in BOOLEAN
  PROVE  LET q == Recorded(p, ok)
             gen == p.tail[1].gen
         IN  /\ q \in Page /\ PageSound(q)
             /\ q.up = p.up /\ q.canvas = p.canvas /\ q.gen = p.gen
             /\ q.timer = p.timer /\ q.asks = p.asks /\ q.left = p.left
             /\ q.saved = IF ok /\ gen > p.saved THEN gen ELSE p.saved
             /\ q.tail = Tail(p.tail)
             /\ p.tail[1].awaited =>
                  AtRest(q) /\ \A i \in 1..Len(q.tail) : q.tail[i].gen >= q.saved
<1> DEFINE q == Recorded(p, ok)
           gen == p.tail[1].gen
           n == Len(p.tail) - 1
           rest == Tail(p.tail)
           saved == IF ok /\ gen > p.saved THEN gen ELSE p.saved
           failed == IF ok THEN IF p.failed <= gen THEN 0 ELSE p.failed
                     ELSE IF gen >= p.saved /\ gen >= p.failed THEN gen ELSE p.failed
<1>1. p.tail \in Seq(Write) /\ p.gen \in Nat /\ p.saved \in Nat /\ p.failed \in Nat
  BY DEF Page
<1>2. /\ rest \in Seq(Write) /\ Len(rest) = n /\ n \in Nat /\ n + 1 = Len(p.tail)
      /\ \A i \in 1..n : rest[i] = p.tail[i + 1]
      /\ Head(p.tail) = p.tail[1] /\ p.tail[1] \in Write
  BY <1>1, TailFacts
<1>3. gen \in Nat
  BY <1>2 DEF Write
<1>4. saved \in Nat /\ failed \in Nat
  BY <1>1, <1>3
<1>5. q = [p EXCEPT !.tail = rest, !.saved = saved, !.failed = failed]
  BY <1>2 DEF Recorded
<1>6. \A i \in 1..n : i + 1 \in 1..Len(p.tail)
  BY <1>2
<1> HIDE DEF q, rest, failed
<1>7. q \in Page
  <2> HIDE DEF saved, gen
  <2> QED BY <1>2, <1>4, <1>5 DEF Page
<1>8. /\ q.up = p.up /\ q.canvas = p.canvas /\ q.gen = p.gen
      /\ q.timer = p.timer /\ q.asks = p.asks /\ q.left = p.left
      /\ q.saved = saved /\ q.tail = rest
  <2> HIDE DEF saved, gen
  <2> QED BY <1>2, <1>4, <1>5 DEF Page
<1> HIDE DEF n
<1>9. gen <= p.gen /\ 1 \in 1..Len(p.tail)
  BY <1>2 DEF PageSound, WritesFit
<1>10. \A i \in 1..n : p.tail[1].awaited =>
         ~rest[i].awaited /\ rest[i].gen >= p.saved /\ rest[i].gen >= gen
  <2> SUFFICES ASSUME NEW i \in 1..n, p.tail[1].awaited
               PROVE  ~rest[i].awaited /\ rest[i].gen >= p.saved /\ rest[i].gen >= gen
    OBVIOUS
  <2>1. i + 1 \in 1..Len(p.tail) /\ 1 < i + 1 /\ 1 \in 1..1 /\ i + 1 # 1
    BY <1>6
  <2>2. rest[i] = p.tail[i + 1]
    BY <1>2
  <2>3. ~p.tail[i + 1].awaited
    BY <1>9, <2>1 DEF PageSound, OneAwaited
  <2>4. p.tail[i + 1].gen >= p.saved /\ p.tail[i + 1].gen >= p.tail[1].gen
    BY <1>9, <2>1 DEF PageSound, NewerBehind
  <2> QED BY <2>2, <2>3, <2>4
<1>11. NewerBehind(q)
  <2> SUFFICES ASSUME NEW i \in 1..n, NEW j \in 1..n, rest[i].awaited, i < j
               PROVE  /\ rest[j].gen >= saved
                      /\ \A k \in 1..i : rest[j].gen >= rest[k].gen
    BY <1>2, <1>8 DEF NewerBehind
  <2>1. i + 1 \in 1..Len(p.tail) /\ j + 1 \in 1..Len(p.tail) /\ i + 1 < j + 1 /\ 1 \in 1..i + 1
    BY <1>6
  <2>2. rest[i] = p.tail[i + 1] /\ rest[j] = p.tail[j + 1]
    BY <1>2
  <2>3. /\ p.tail[j + 1].gen >= p.saved
        /\ \A k \in 1..i + 1 : p.tail[j + 1].gen >= p.tail[k].gen
    BY <2>1, <2>2 DEF PageSound, NewerBehind
  <2>4. rest[j].gen >= p.saved /\ rest[j].gen >= gen
    BY <2>1, <2>2, <2>3
  <2>5. \A k \in 1..i : rest[j].gen >= rest[k].gen
    <3> TAKE k \in 1..i
    <3>1. k + 1 \in 1..i + 1 /\ k \in 1..n
      BY <1>2, <2>1
    <3>2. rest[k] = p.tail[k + 1]
      BY <1>2, <3>1
    <3> QED BY <2>2, <2>3, <3>1, <3>2
  <2> QED BY <2>4, <2>5
<1>12. PageSound(q)
  <2>1. WritesFit(q)
    <3> SUFFICES ASSUME NEW i \in 1..n
                 PROVE  /\ rest[i].gen <= p.gen
                        /\ rest[i].gen = p.gen => rest[i].canvas \in {-1, p.canvas}
                        /\ rest[i].awaited => p.left # 0
                        /\ rest[i].awaited /\ p.left > 0 => rest[i].canvas = -1
      BY <1>2, <1>8 DEF WritesFit
    <3>1. i + 1 \in 1..Len(p.tail) /\ rest[i] = p.tail[i + 1]
      BY <1>2, <1>6
    <3> QED BY <3>1 DEF PageSound, WritesFit
  <2>2. OneAwaited(q)
    <3> SUFFICES ASSUME NEW i \in 1..n, NEW j \in 1..n, rest[i].awaited, rest[j].awaited
                 PROVE  i = j
      BY <1>2, <1>8 DEF OneAwaited
    <3>1. /\ i + 1 \in 1..Len(p.tail) /\ rest[i] = p.tail[i + 1]
          /\ j + 1 \in 1..Len(p.tail) /\ rest[j] = p.tail[j + 1]
      BY <1>2, <1>6
    <3>2. i + 1 = j + 1
      BY <3>1 DEF PageSound, OneAwaited
    <3> QED BY <1>2, <3>2
  <2>3. saved <= p.gen
    BY <1>1, <1>3, <1>9 DEF PageSound
  <2> HIDE DEF saved, gen
  <2> QED BY <1>8, <1>11, <2>1, <2>2, <2>3 DEF PageSound
<1>13. p.tail[1].awaited => AtRest(q) /\ \A i \in 1..Len(q.tail) : q.tail[i].gen >= q.saved
  BY <1>2, <1>8, <1>10 DEF AtRest
<1> QED BY <1>7, <1>8, <1>12, <1>13 DEF q, rest

-----------------------------------------------------------------------------
\* How the steps of a page change it.
\* The first write of the queue stays, and becomes no attempt.
KeepsHead(p, q) ==
  p.tail # <<>> => /\ q.tail # <<>> /\ q.tail[1].gen = p.tail[1].gen
                   /\ q.tail[1].awaited /\ q.left > 0 => p.tail[1].awaited /\ p.left > 0

\* At most the oldest challenge is answered.
KeepsAsks(p, q) == q.asks = p.asks \/ (p.asks # <<>> /\ q.asks = Tail(p.asks))

\* The canvases to be written are the page's or were so before.
KeepsWrites(p, q) ==
  \A j \in 1..Len(q.tail) :
    \/ q.tail[j].canvas \in {-1, p.canvas}
    \/ \E i \in 1..Len(p.tail) : q.tail[j].canvas = p.tail[i].canvas

GoesOn(p, q) ==
  /\ q \in Page /\ PageSound(q) /\ q.up /\ q.saved = p.saved
  /\ (q.gen = p.gen /\ q.canvas = p.canvas) \/ q.gen > p.gen
  /\ KeepsHead(p, q) /\ KeepsAsks(p, q)

\* An edit is newer than all that is queued.
LEMMA EditPage ==
  ASSUME NEW p \in Page, PageSound(p), p.up, NEW c \in Canvas
  PROVE  LET q == [p EXCEPT !.canvas = c, !.gen = @ + 1, !.timer = c]
         IN  /\ GoesOn(p, q) /\ q.gen > p.gen /\ q.canvas = c
             /\ q.asks = p.asks /\ q.tail = p.tail /\ q.left = p.left
<1> DEFINE q == [p EXCEPT !.canvas = c, !.gen = @ + 1, !.timer = c]
           gen == p.gen + 1
<1>1. p.gen \in Nat /\ p.saved \in Nat /\ p.tail \in Seq(Write) /\ gen \in Nat
  BY DEF Page
<1>0. q = [p EXCEPT !.canvas = c, !.gen = gen, !.timer = c]
  OBVIOUS
<1> HIDE DEF gen, q
<1>2. /\ q.up = p.up /\ q.canvas = c /\ q.gen = gen /\ q.saved = p.saved
      /\ q.timer = c /\ q.asks = p.asks /\ q.left = p.left /\ q.tail = p.tail
  BY <1>0 DEF Page
<1>3. q \in Page
  <2> DEFINE r == [p EXCEPT !.canvas = c, !.gen = gen]
  <2>1. r \in Page
    BY <1>1 DEF Page
  <2>2. q = [r EXCEPT !.timer = c]
    BY <1>0
  <2>3. c \in Canvas \cup {-1}
    OBVIOUS
  <2> HIDE DEF r
  <2> QED BY <2>1, <2>2, <2>3 DEF Page
<1> USE DEF gen
<1>4. \A i \in 1..Len(p.tail) : p.tail[i].gen <= p.gen /\ p.tail[i].gen \in Nat
  <2>1. \A i \in 1..Len(p.tail) : p.tail[i] \in Write
    BY <1>1
  <2> QED BY <2>1 DEF PageSound, WritesFit, Write
<1>5. PageSound(q)
  BY <1>1, <1>2, <1>4 DEF PageSound, WritesFit, OneAwaited, NewerBehind
<1> QED BY <1>1, <1>2, <1>3, <1>5 DEF q, GoesOn, KeepsHead, KeepsAsks

\* The debounced save is queued.
LEMMA TimerPage ==
  ASSUME NEW p \in Page, PageSound(p), p.up, p.timer # -1
  PROVE  LET q == Enqueue([p EXCEPT !.timer = -1], p.gen, p.timer, FALSE)
         IN  /\ GoesOn(p, q) /\ q.gen = p.gen /\ q.canvas = p.canvas
             /\ q.asks = p.asks /\ q.left = p.left
             /\ KeepsWrites(p, q) /\ q.tail # <<>>
             /\ p.tail = <<>> => ~q.tail[1].awaited
<1> DEFINE q == Enqueue([p EXCEPT !.timer = -1], p.gen, p.timer, FALSE)
           r == [p EXCEPT !.timer = -1]
           e == [gen |-> p.gen, canvas |-> p.timer, awaited |-> FALSE]
<1>1. /\ r \in Page /\ PageSound(r)
      /\ r.up = p.up /\ r.canvas = p.canvas /\ r.gen = p.gen /\ r.saved = p.saved
      /\ r.asks = p.asks /\ r.left = p.left /\ r.tail = p.tail
  BY DropSound
<1>2. p.gen \in Nat /\ p.tail \in Seq(Write) /\ p.timer \in Canvas /\ p.timer = p.canvas
  BY DEF Page, PageSound
<1>3. q = Enqueue(r, p.gen, p.timer, FALSE) /\ p.gen <= r.gen
  BY <1>1, <1>2
<1> HIDE DEF r, q
<1>4. q \in Page /\ PageSound(q)
  <2>1. /\ r.up /\ p.timer \in Canvas \cup {-1} /\ p.timer \in {-1, r.canvas}
        /\ p.gen = r.gen /\ p.gen \in Nat
    BY <1>1, <1>2
  <2> QED BY <1>1, <1>3, <2>1, EnqueueSound
<1>5. /\ q.up = r.up /\ q.canvas = r.canvas /\ q.gen = r.gen /\ q.saved = r.saved
      /\ q.asks = r.asks /\ q.left = r.left
  BY <1>1, <1>3 DEF Enqueue, Page
<1>11. q.tail = Append(p.tail, e)
  BY <1>1, <1>3 DEF Enqueue, Page
<1>6. e \in Write
  BY <1>2 DEF Write
<1>7. /\ Len(q.tail) = Len(p.tail) + 1 /\ Len(p.tail) \in Nat
      /\ \A i \in 1..Len(p.tail) : q.tail[i] = p.tail[i]
      /\ q.tail[Len(p.tail) + 1] = e /\ q.tail # <<>>
  BY <1>2, <1>6, <1>11, AppendFacts
<1>8. p.tail # <<>> => q.tail[1] = p.tail[1]
  BY <1>2, <1>7
<1>9. p.tail = <<>> => q.tail[1] = e
  <2> HIDE DEF e
  <2> QED BY <1>2, <1>7
<1>10. KeepsWrites(p, q)
  <2>1. \A j \in 1..Len(q.tail) : j \in 1..Len(p.tail) \/ q.tail[j] = e
    BY <1>7
  <2>2. e.canvas = p.canvas
    BY <1>2
  <2> HIDE DEF e
  <2> QED BY <1>7, <2>1, <2>2 DEF KeepsWrites
<1>12. p.tail = <<>> => ~q.tail[1].awaited
  BY <1>9
<1>13. KeepsHead(p, q) /\ KeepsAsks(p, q)
  BY <1>1, <1>5, <1>7, <1>8 DEF KeepsHead, KeepsAsks
<1> QED BY <1>1, <1>4, <1>5, <1>7, <1>10, <1>12, <1>13 DEF q, GoesOn

\* The loop of a flush queues at most an attempt.
LEMMA FlushLoopKeeps ==
  ASSUME NEW p \in Page, PageSound(p), p.up, AtRest(p), p.asks # <<>>
  PROVE  KeepsHead(p, FlushLoop(p)) /\ KeepsWrites(p, FlushLoop(p))
<1> DEFINE q == FlushLoop(p)
           e == [gen |-> p.gen, canvas |-> -1, awaited |-> TRUE]
<1>1. p.tail \in Seq(Write)
  BY DEF Page
<1>2. CASE q.tail = p.tail
  BY <1>1, <1>2 DEF KeepsHead, KeepsWrites, AtRest
<1>3. CASE e \in Write /\ q.tail = Append(p.tail, e)
  <2>1. e.canvas = -1
    OBVIOUS
  <2> HIDE DEF e, q
  <2>2. /\ Len(q.tail) = Len(p.tail) + 1 /\ Len(p.tail) \in Nat
        /\ \A i \in 1..Len(p.tail) : q.tail[i] = p.tail[i]
        /\ q.tail[Len(p.tail) + 1] = e /\ q.tail # <<>>
    BY <1>1, <1>3, AppendFacts
  <2>3. \A j \in 1..Len(q.tail) : j \in 1..Len(p.tail) \/ q.tail[j] = e
    BY <2>2
  <2>4. KeepsWrites(p, q)
    BY <2>1, <2>2, <2>3 DEF KeepsWrites
  <2>5. p.tail # <<>> => q.tail[1] = p.tail[1] /\ ~p.tail[1].awaited
    BY <1>1, <2>2 DEF AtRest
  <2>6. KeepsHead(p, q)
    BY <2>2, <2>5 DEF KeepsHead
  <2> QED BY <2>4, <2>6 DEF q
<1> HIDE DEF q, e
<1>4. q.tail = p.tail \/ (e \in Write /\ q.tail = Append(p.tail, e))
  BY FlushLoopSound DEF q, e
<1> QED BY <1>2, <1>3, <1>4 DEF q

\* The task of a challenge begins.  It ends at once only when there is nothing
\* to save, and never that of a quit.
LEMMA TaskPage ==
  ASSUME NEW p \in Page, PageSound(p), p.up, p.asks # <<>>, p.left = 0, NEW w
  PROVE  LET q == Task(w, p)
         IN  /\ GoesOn(p, q) /\ q.canvas = p.canvas /\ KeepsWrites(p, q)
             /\ w \notin Auxiliary /\ Len(q.asks) < Len(p.asks) =>
                  ~Dirty(q) /\ p.asks[1].reason # "quit"
<1> DEFINE q == Task(w, p)
           quits == p.asks[1].reason = "quit"
<1>1. /\ p.tail \in Seq(Write) /\ p.asks \in Seq(Asked) /\ p.gen \in Nat /\ p.saved \in Nat
      /\ Head(p.asks) = p.asks[1] /\ Len(p.asks) \in Nat
  BY TailFacts DEF Page
<1>2. AtRest(p)
  BY DEF PageSound, WritesFit, AtRest
<1>3. CASE w \in Auxiliary \/ (~quits /\ ~Dirty(p) /\ p.tail = <<>>)
  <2>1. q = Answer(p)
    BY <1>1, <1>3 DEF Task, Idle
  <2> HIDE DEF q
  <2>2. /\ q \in Page /\ PageSound(q)
        /\ q.up = p.up /\ q.canvas = p.canvas /\ q.gen = p.gen /\ q.saved = p.saved
        /\ q.asks = Tail(p.asks) /\ q.left = 0 /\ q.tail = p.tail
    BY <1>2, <2>1, AnswerSound
  <2>3. KeepsHead(p, q) /\ KeepsWrites(p, q) /\ KeepsAsks(p, q)
    BY <2>2 DEF KeepsHead, KeepsWrites, KeepsAsks
  <2> QED BY <1>3, <2>2, <2>3 DEF q, GoesOn, Dirty
<1>4. CASE w \notin Auxiliary /\ (quits \/ Dirty(p))
  <2> DEFINE r == [p EXCEPT !.timer = -1]
             f == Forced(r)
  <2>1. /\ r \in Page /\ PageSound(r)
        /\ r.up = p.up /\ r.canvas = p.canvas /\ r.gen = p.gen /\ r.saved = p.saved
        /\ r.asks = p.asks /\ r.left = p.left /\ r.tail = p.tail
    BY DropSound
  <2>2. q = IF p.tail # <<>> THEN Await(r, -1) ELSE FlushLoop(f)
    BY <1>1, <1>4 DEF Task, Flush
  <2> HIDE DEF q, r, f
  <2>3. CASE p.tail # <<>>
    <3>1. AtRest(r) /\ r.tail # <<>> /\ r.asks # <<>> /\ r.up
      BY <1>2, <2>1, <2>3 DEF AtRest
    <3>2. /\ q \in Page /\ PageSound(q)
          /\ q.up = r.up /\ q.canvas = r.canvas /\ q.gen = r.gen /\ q.saved = r.saved
          /\ q.asks = r.asks /\ q.left = -1
          /\ Len(q.tail) = Len(r.tail)
          /\ \A i \in 1..Len(r.tail) :
                q.tail[i].gen = r.tail[i].gen /\ q.tail[i].canvas = r.tail[i].canvas
      <4>1. q = Await(r, -1)
        BY <2>2, <2>3
      <4>2. \A a \in {-1, -2} : (a = -2 => r.asks[1].reason # "quit") =>
              LET b == Await(r, a)
              IN  /\ b \in Page /\ PageSound(b)
                  /\ b.up = r.up /\ b.canvas = r.canvas /\ b.gen = r.gen /\ b.saved = r.saved
                  /\ b.asks = r.asks /\ b.left = a
                  /\ Len(b.tail) = Len(r.tail)
                  /\ \A i \in 1..Len(r.tail) :
                        b.tail[i].gen = r.tail[i].gen /\ b.tail[i].canvas = r.tail[i].canvas
        <5>1. r \in Page /\ PageSound(r)
          BY <2>1
        <5>2. AtRest(r) /\ r.tail # <<>> /\ r.asks # <<>> /\ r.up
          BY <3>1
        <5> QED BY ONLY <5>1, <5>2, AwaitSound
      <4> QED BY <4>1, <4>2
    <3>3. q.tail \in Seq(Write) /\ 1 \in 1..Len(p.tail)
      BY <1>1, <2>3, <3>2 DEF Page
    <3>4. q.tail # <<>>
      BY <2>1, <3>2, <3>3
    <3>5. KeepsHead(p, q) /\ KeepsWrites(p, q) /\ KeepsAsks(p, q)
      BY <2>1, <3>2, <3>3, <3>4 DEF KeepsHead, KeepsWrites, KeepsAsks
    <3> QED BY <1>1, <2>1, <3>2, <3>5 DEF q, GoesOn
  <2>4. CASE p.tail = <<>>
    <3>1. /\ f \in Page /\ PageSound(f)
          /\ f.up = r.up /\ f.canvas = r.canvas /\ f.saved = r.saved
          /\ f.asks = r.asks /\ f.tail = r.tail
          /\ f.gen = r.gen \/ f.gen > r.gen
          /\ quits => Dirty(f)
      BY <2>1, ForcedSound DEF f
    <3>2. AtRest(f) /\ f.up /\ f.asks # <<>>
      BY <1>2, <2>1, <3>1 DEF AtRest
    <3>3. Dirty(f)
      BY <1>1, <1>4, <2>1, <3>1 DEF Dirty, Page
    <3>4. /\ q \in Page /\ PageSound(q)
          /\ q.up = f.up /\ q.canvas = f.canvas /\ q.gen = f.gen /\ q.saved = f.saved
          /\ q.asks = f.asks
      BY <2>2, <2>4, <3>1, <3>2, <3>3, FlushLoopSound
    <3>5. KeepsWrites(f, q)
      BY <2>2, <2>4, <3>1, <3>2, FlushLoopKeeps
    <3>6. KeepsHead(p, q) /\ KeepsWrites(p, q) /\ KeepsAsks(p, q)
      BY <2>1, <2>4, <3>1, <3>4, <3>5 DEF KeepsHead, KeepsWrites, KeepsAsks
    <3> QED BY <1>1, <2>1, <3>1, <3>4, <3>6 DEF q, GoesOn
  <2> QED BY <2>3, <2>4
<1>5. CASE w \notin Auxiliary /\ ~quits /\ ~Dirty(p) /\ p.tail # <<>>
  <2>1. q = Await(p, -2)
    BY <1>1, <1>5 DEF Task, Idle
  <2> HIDE DEF q
  <2>2. /\ q \in Page /\ PageSound(q)
        /\ q.up = p.up /\ q.canvas = p.canvas /\ q.gen = p.gen /\ q.saved = p.saved
        /\ q.asks = p.asks /\ q.left = -2
        /\ Len(q.tail) = Len(p.tail)
        /\ \A i \in 1..Len(p.tail) :
              q.tail[i].gen = p.tail[i].gen /\ q.tail[i].canvas = p.tail[i].canvas
    BY <1>2, <1>5, <2>1, AwaitSound
  <2>3. q.tail \in Seq(Write) /\ 1 \in 1..Len(p.tail)
    BY <1>1, <1>5, <2>2 DEF Page
  <2>4. q.tail # <<>>
    BY <2>2, <2>3
  <2>5. KeepsHead(p, q) /\ KeepsWrites(p, q) /\ KeepsAsks(p, q)
    BY <2>2, <2>3, <2>4 DEF KeepsHead, KeepsWrites, KeepsAsks
  <2> QED BY <1>1, <2>2, <2>5 DEF q, GoesOn
<1> QED BY <1>3, <1>4, <1>5

LEMMA WritesChain ==
  ASSUME NEW p, NEW r, NEW q, KeepsWrites(p, r), KeepsWrites(r, q), r.canvas = p.canvas
  PROVE  KeepsWrites(p, q)
BY DEF KeepsWrites

\* A write of the page has ended.  A task that goes on to its answer leaves
\* the page clean; that of a quit got there by an attempt that succeeded, and
\* what remains queued has the page's canvas.
LEMMA WriteOverPage ==
  ASSUME NEW p \in Page, PageSound(p), p.up, p.tail # <<>>, NEW ok \in BOOLEAN
  PROVE  LET q == WriteOver(p, ok)
             h == p.tail[1]
             answers == Len(q.asks) < Len(p.asks)
         IN  /\ q \in Page /\ PageSound(q) /\ q.up /\ q.canvas = p.canvas
             /\ q.saved = IF ok /\ h.gen > p.saved THEN h.gen ELSE p.saved
             /\ q.gen = p.gen \/ q.gen > p.gen
             /\ KeepsAsks(p, q) /\ KeepsWrites(p, q)
             /\ answers /\ ~Reports(p, ok) /\ p.left # -2 => ~Dirty(q)
             /\ answers /\ ~Reports(p, ok) /\ p.asks[1].reason = "quit" =>
                  /\ ok /\ p.left > 0 /\ h.awaited /\ ~Dirty(q) /\ q.gen = p.gen
                  /\ \A i \in 1..Len(q.tail) : q.tail[i].canvas \in {-1, q.canvas}
<1> DEFINE q == WriteOver(p, ok)
           h == p.tail[1]
           r == Recorded(p, ok)
           saved == IF ok /\ h.gen > p.saved THEN h.gen ELSE p.saved
           quits == p.asks[1].reason = "quit"
           Goal == /\ q \in Page /\ PageSound(q) /\ q.up /\ q.canvas = p.canvas
                   /\ q.saved = saved /\ (q.gen = p.gen \/ q.gen > p.gen)
                   /\ KeepsAsks(p, q) /\ KeepsWrites(p, q)
                   /\ \/ q.asks = p.asks
                      \/ Reports(p, ok)
                      \/ ~quits /\ (p.left # -2 => ~Dirty(q))
                      \/ /\ ok /\ p.left > 0 /\ h.awaited /\ ~Dirty(q) /\ q.gen = p.gen
                         /\ \A i \in 1..Len(q.tail) : q.tail[i].canvas \in {-1, q.canvas}
<1>1. /\ p.tail \in Seq(Write) /\ p.asks \in Seq(Asked) /\ p.gen \in Nat /\ p.left \in -2..2
      /\ Head(p.tail) = h /\ h \in Write /\ Len(p.tail) \in Nat /\ 1 \in 1..Len(p.tail)
      /\ Len(Tail(p.tail)) = Len(p.tail) - 1
      /\ \A i \in 1..Len(p.tail) - 1 : Tail(p.tail)[i] = p.tail[i + 1]
  BY TailFacts DEF Page
<1>2. /\ r \in Page /\ PageSound(r)
      /\ r.up = p.up /\ r.canvas = p.canvas /\ r.gen = p.gen
      /\ r.timer = p.timer /\ r.asks = p.asks /\ r.left = p.left
      /\ r.saved = saved /\ r.tail = Tail(p.tail)
      /\ h.awaited => AtRest(r) /\ \A i \in 1..Len(r.tail) : r.tail[i].gen >= r.saved
  BY RecordedSound
<1>3. KeepsWrites(p, r)
  <2>1. \A j \in 1..Len(r.tail) : r.tail[j] = p.tail[j + 1] /\ j + 1 \in 1..Len(p.tail)
    BY <1>1, <1>2
  <2> QED BY <2>1 DEF KeepsWrites
<1>4. h.gen \in Nat /\ h.gen <= p.gen /\ h.awaited \in BOOLEAN /\ (h.awaited => p.left # 0)
  BY <1>1 DEF PageSound, WritesFit, Write
<1>5. h.awaited => p.asks # <<>> /\ (p.left = -2 => ~quits)
  BY <1>4 DEF PageSound
<1>a. SUFFICES Goal
  BY DEF q, saved
<1> HIDE DEF saved, r, q
<1>6. CASE ~h.awaited
  <2>1. q = r
    BY <1>1, <1>6 DEF WriteOver, r, q
  <2> QED BY <1>2, <1>3, <2>1 DEF KeepsAsks
<1>7. CASE h.awaited /\ p.left = -2
  <2>1. q = IF ok THEN Idle(r) ELSE Answer(r)
    BY <1>1, <1>7 DEF WriteOver, r, q
  <2>2. CASE ok /\ r.tail # <<>>
    <3>1. q = Await(r, -2)
      BY <2>1, <2>2 DEF Idle
    <3>2. AtRest(r) /\ r.up /\ r.asks # <<>> /\ (-2 = -2 => r.asks[1].reason # "quit")
      BY <1>2, <1>5, <1>7
    <3>3. /\ q \in Page /\ PageSound(q)
          /\ q.up = r.up /\ q.canvas = r.canvas /\ q.gen = r.gen /\ q.saved = r.saved
          /\ q.asks = r.asks /\ Len(q.tail) = Len(r.tail)
          /\ \A i \in 1..Len(r.tail) : q.tail[i].canvas = r.tail[i].canvas
      <4>1. r \in Page /\ PageSound(r)
        BY <1>2
      <4> QED BY ONLY <4>1, <2>2, <3>1, <3>2, AwaitSound
    <3>4. KeepsWrites(r, q)
      BY <3>3 DEF KeepsWrites
    <3> QED BY <1>2, <1>3, <3>3, <3>4, WritesChain DEF KeepsAsks
  <2>3. CASE ~(ok /\ r.tail # <<>>)
    <3>1. q = Answer(r)
      BY <2>1, <2>3 DEF Idle
    <3>2. /\ q \in Page /\ PageSound(q)
          /\ q.up = r.up /\ q.canvas = r.canvas /\ q.gen = r.gen /\ q.saved = r.saved
          /\ q.asks = Tail(r.asks) /\ q.tail = r.tail
      BY <1>2, <1>5, <1>7, <3>1, AnswerSound
    <3>3. KeepsWrites(r, q)
      BY <3>2 DEF KeepsWrites
    <3> QED BY <1>2, <1>3, <1>5, <1>7, <3>2, <3>3, WritesChain DEF KeepsAsks
  <2> QED BY <2>2, <2>3
<1>8. CASE h.awaited /\ p.left = -1
  <2> DEFINE f == Forced(r)
  <2>1. q = FlushLoop(f)
    BY <1>1, <1>8 DEF WriteOver, r, q
  <2>2. /\ f \in Page /\ PageSound(f)
        /\ f.up = r.up /\ f.canvas = r.canvas /\ f.saved = r.saved
        /\ f.asks = r.asks /\ f.tail = r.tail
        /\ f.gen = r.gen \/ f.gen > r.gen
        /\ quits => Dirty(f)
    BY <1>2, <1>5, <1>8, ForcedSound
  <2> HIDE DEF f
  <2>3. AtRest(f) /\ f.up /\ f.asks # <<>>
    BY <1>2, <1>5, <1>8, <2>2 DEF AtRest
  <2>4. /\ q \in Page /\ PageSound(q)
        /\ q.up = f.up /\ q.canvas = f.canvas /\ q.gen = f.gen /\ q.saved = f.saved
        /\ IF Dirty(f) THEN q.asks = f.asks ELSE q.asks = Tail(f.asks)
    BY <2>1, <2>2, <2>3, FlushLoopSound
  <2>5. KeepsWrites(f, q)
    BY <2>1, <2>2, <2>3, FlushLoopKeeps
  <2>6. KeepsWrites(p, q)
    <3>1. KeepsWrites(r, f)
      BY <2>2 DEF KeepsWrites
    <3> QED BY <1>2, <1>3, <2>2, <2>5, <3>1, WritesChain
  <2>7. q.asks # p.asks => ~quits /\ ~Dirty(q)
    BY <1>2, <2>2, <2>4 DEF Dirty
  <2>8. KeepsAsks(p, q)
    BY <1>2, <1>5, <1>8, <2>2, <2>4 DEF KeepsAsks
  <2> QED BY <1>2, <2>2, <2>4, <2>6, <2>7, <2>8
<1>9. CASE h.awaited /\ p.left > 0 /\ ok
  <2> DEFINE f == [r EXCEPT !.timer = -1]
  <2>1. q = FlushLoop(f)
    <3>1. p.left > 0 /\ p.left # -1 /\ p.left # -2
      BY <1>1, <1>9
    <3>2. q = Flushed(r)
      BY <1>1, <1>9, <3>1 DEF WriteOver, r, q
    <3> QED BY <3>2 DEF Flushed
  <2>2. /\ f \in Page /\ PageSound(f)
        /\ f.up = r.up /\ f.canvas = r.canvas /\ f.saved = r.saved /\ f.gen = r.gen
        /\ f.asks = r.asks /\ f.tail = r.tail
    BY <1>2, DropSound
  <2> HIDE DEF f
  <2>3. AtRest(f) /\ f.up /\ f.asks # <<>>
    BY <1>2, <1>5, <1>9, <2>2 DEF AtRest
  <2>4. /\ q \in Page /\ PageSound(q)
        /\ q.up = f.up /\ q.canvas = f.canvas /\ q.gen = f.gen /\ q.saved = f.saved
        /\ IF Dirty(f) THEN q.asks = f.asks ELSE q.asks = Tail(f.asks) /\ q.tail = f.tail
    BY <2>1, <2>2, <2>3, FlushLoopSound
  <2>5. KeepsWrites(f, q)
    BY <2>1, <2>2, <2>3, FlushLoopKeeps
  <2>6. KeepsWrites(p, q)
    <3>1. KeepsWrites(r, f)
      BY <2>2 DEF KeepsWrites
    <3> QED BY <1>2, <1>3, <2>2, <2>5, <3>1, WritesChain
  <2>7. q.asks # p.asks =>
          ~Dirty(q) /\ \A i \in 1..Len(q.tail) : q.tail[i].canvas \in {-1, q.canvas}
    <3> SUFFICES ASSUME q.asks # p.asks
                 PROVE  ~Dirty(q) /\ \A i \in 1..Len(q.tail) : q.tail[i].canvas \in {-1, q.canvas}
      OBVIOUS
    <3>1. ~Dirty(f) /\ q.tail = r.tail
      BY <1>2, <2>2, <2>4
    <3>a. r \in Page
      BY <1>2
    <3>b. r.gen \in Nat /\ r.saved \in Nat /\ r.tail \in Seq(Write)
      BY <3>a DEF Page
    <3>2. r.gen \in Nat /\ r.saved \in Nat /\ r.tail \in Seq(Write) /\ r.gen <= r.saved
      BY <2>2, <3>1, <3>b DEF Dirty
    <3>c. \A i \in 1..Len(r.tail) : r.tail[i] \in Write
      BY <3>2
    <3>3. \A i \in 1..Len(r.tail) : r.tail[i].gen \in Nat
      BY <3>c DEF Write
    <3>4. \A i \in 1..Len(r.tail) : r.tail[i].gen >= r.saved
      BY <1>2, <1>9
    <3>5. \A i \in 1..Len(r.tail) :
            r.tail[i].gen <= r.gen /\ (r.tail[i].gen = r.gen => r.tail[i].canvas \in {-1, r.canvas})
      BY <1>2 DEF PageSound, WritesFit
    <3>6. \A i \in 1..Len(r.tail) : r.tail[i].gen = r.gen
      BY <3>2, <3>3, <3>4, <3>5
    <3> QED BY <2>2, <2>4, <3>1, <3>5, <3>6 DEF Dirty
  <2>8. KeepsAsks(p, q)
    BY <1>2, <1>5, <1>9, <2>2, <2>4 DEF KeepsAsks
  <2> QED BY <1>2, <1>9, <2>2, <2>4, <2>6, <2>7, <2>8
<1>10. CASE h.awaited /\ p.left = 1 /\ ~ok
  <2>1. q = Answer(r)
    BY <1>1, <1>10 DEF WriteOver, r, q
  <2>2. /\ q \in Page /\ PageSound(q)
        /\ q.up = r.up /\ q.canvas = r.canvas /\ q.gen = r.gen /\ q.saved = r.saved
        /\ q.asks = Tail(r.asks) /\ q.tail = r.tail
    BY <1>2, <1>5, <1>10, <2>1, AnswerSound
  <2>3. KeepsWrites(r, q)
    BY <2>2 DEF KeepsWrites
  <2> QED BY <1>2, <1>3, <1>5, <1>10, <2>2, <2>3, WritesChain DEF KeepsAsks, Reports
<1>11. CASE h.awaited /\ p.left = 2 /\ ~ok
  <2> DEFINE f == [r EXCEPT !.left = 1]
             gen == h.gen
             e == [gen |-> gen, canvas |-> -1, awaited |-> TRUE]
  <2>1. q = Enqueue(f, gen, -1, TRUE)
    <3>1. r.left - 1 = 1
      BY <1>2, <1>11
    <3>2. [r EXCEPT !.left = @ - 1] = f
      BY <3>1
    <3>a. p.left > 0 /\ p.left # -1 /\ p.left # -2 /\ p.left # 1
      BY <1>1, <1>11
    <3>3. q = Enqueue([r EXCEPT !.left = @ - 1], gen, -1, TRUE)
      BY <1>1, <1>11, <3>a DEF WriteOver, r, q
    <3> HIDE DEF f
    <3> QED BY <3>2, <3>3
  <2>2. /\ f \in Page
        /\ f.up = r.up /\ f.canvas = r.canvas /\ f.saved = r.saved /\ f.gen = r.gen
        /\ f.timer = r.timer /\ f.asks = r.asks /\ f.tail = r.tail /\ f.left = 1
    <3>0. r \in Page /\ 1 \in -2..2
      BY <1>2
    <3>1. f \in Page
      BY <3>0 DEF Page
    <3> QED BY <3>0, <3>1 DEF Page
  <2> HIDE DEF f, gen
  <2>3. PageSound(f) /\ AtRest(f)
    BY <1>2, <1>5, <1>11, <2>2 DEF PageSound, WritesFit, OneAwaited, NewerBehind, AtRest
  <2>4. gen \in Nat /\ gen <= f.gen /\ -1 \in Canvas \cup {-1} /\ f.up /\ f.left # 0
    BY <1>2, <1>4, <2>2 DEF gen
  <2>5. q \in Page /\ PageSound(q)
    BY <2>1, <2>2, <2>3, <2>4, EnqueueSound
  <2>6. /\ q.up = f.up /\ q.canvas = f.canvas /\ q.gen = f.gen /\ q.saved = f.saved
        /\ q.asks = f.asks
    BY <2>1, <2>2 DEF Enqueue, Page
  <2>7. q.tail = Append(f.tail, e)
    BY <2>1, <2>2 DEF Enqueue, Page
  <2>8. KeepsWrites(f, q)
    <3>1. e \in Write /\ f.tail \in Seq(Write) /\ e.canvas = -1
      BY <2>2, <2>4 DEF Write, Page
    <3> HIDE DEF e
    <3>2. /\ Len(q.tail) = Len(f.tail) + 1 /\ Len(f.tail) \in Nat
          /\ \A i \in 1..Len(f.tail) : q.tail[i] = f.tail[i]
          /\ q.tail[Len(f.tail) + 1] = e
      BY <2>7, <3>1, AppendFacts
    <3>3. \A j \in 1..Len(q.tail) : j \in 1..Len(f.tail) \/ q.tail[j] = e
      BY <3>2
    <3> QED BY <3>1, <3>2, <3>3 DEF KeepsWrites
  <2>9. KeepsWrites(p, q)
    <3>1. KeepsWrites(r, f)
      BY <2>2 DEF KeepsWrites
    <3> QED BY <1>2, <1>3, <2>2, <2>8, <3>1, WritesChain
  <2> QED BY <1>2, <2>2, <2>5, <2>6, <2>9 DEF KeepsAsks
<1> QED
  <2>1. p.left = -2 \/ p.left = -1 \/ p.left = 0 \/ p.left = 1 \/ p.left = 2
    BY <1>1
  <2> HIDE DEF Goal
  <2> QED BY <1>4, <1>6, <1>7, <1>8, <1>9, <1>10, <1>11, <2>1

-----------------------------------------------------------------------------
\* The lane and the pages.
LaneSave == [by : Window, canvas : Canvas, lost : BOOLEAN]

\* A save that is not lost is the first write of its page's queue.  It has the
\* canvas of the page when the write is of its newest generation; the save of
\* an attempt has it, too, unless the page was edited, and is dirty for that.
Fits(s, p) ==
  /\ p.tail # <<>>
  /\ p.tail[1].gen = p.gen => s.canvas = p.canvas
  /\ p.tail[1].awaited /\ p.left > 0 =>
       s.canvas = p.canvas \/ (p.gen > p.saved /\ p.gen > p.tail[1].gen)

LaneFitsPages(l, pages) ==
  /\ \A i \in 1..Len(l) : ~l[i].lost => Fits(l[i], pages[l[i].by])
  /\ \A i, j \in 1..Len(l) : ~l[i].lost /\ ~l[j].lost /\ l[i].by = l[j].by => i = j

NoneOf(l, w) == \A i \in 1..Len(l) : ~(l[i].by = w /\ ~l[i].lost)

LEMMA NewSave ==
  ASSUME NEW p \in Page, PageSound(p), p.tail # <<>>, NEW w \in Window
  PROVE  /\ [by |-> w, canvas |-> Captured(p), lost |-> FALSE] \in LaneSave
         /\ Fits([by |-> w, canvas |-> Captured(p), lost |-> FALSE], p)
         /\ Captured(p) = IF p.tail[1].canvas = -1 THEN p.canvas ELSE p.tail[1].canvas
<1>1. p.tail \in Seq(Write) /\ p.canvas \in Canvas /\ p.left \in -2..2
  BY DEF Page
<1>2. p.tail[1] \in Write /\ Head(p.tail) = p.tail[1] /\ 1 \in 1..Len(p.tail)
  BY <1>1, TailFacts
<1>3. p.tail[1].canvas \in Canvas \cup {-1}
  BY <1>2 DEF Write
<1>4. Captured(p) \in Canvas
  BY <1>1, <1>2, <1>3 DEF Captured
<1>5. /\ p.tail[1].gen = p.gen => p.tail[1].canvas \in {-1, p.canvas}
      /\ p.tail[1].awaited /\ p.left > 0 => p.tail[1].canvas = -1
  BY <1>2 DEF PageSound, WritesFit
<1> QED BY <1>2, <1>4, <1>5 DEF LaneSave, Fits, Captured

LEMMA LaneBy ==
  ASSUME NEW l \in Seq(LaneSave)
  PROVE  \A i \in 1..Len(l) : l[i] \in LaneSave /\ l[i].by \in Window
<1>1. \A i \in 1..Len(l) : l[i] \in LaneSave
  OBVIOUS
<1> QED BY <1>1 DEF LaneSave

LEMMA LaneStays ==
  ASSUME NEW l \in Seq(LaneSave), NEW pages \in [Window -> Page], LaneFitsPages(l, pages),
         NEW w \in Window, NEW p,
         \A i \in 1..Len(l) : l[i].by = w /\ ~l[i].lost => Fits(l[i], p)
  PROVE  LaneFitsPages(l, [pages EXCEPT ![w] = p])
<1>1. \A i \in 1..Len(l) : l[i].by \in Window
  BY LaneBy
<1> QED BY <1>1 DEF LaneFitsPages

LEMMA LaneGrows ==
  ASSUME NEW l \in Seq(LaneSave), NEW pages \in [Window -> Page], LaneFitsPages(l, pages),
         NEW w \in Window, NEW p \in Page, PageSound(p), p.tail # <<>>, NoneOf(l, w)
  PROVE  LET s == [by |-> w, canvas |-> Captured(p), lost |-> FALSE]
         IN  Append(l, s) \in Seq(LaneSave)
             /\ LaneFitsPages(Append(l, s), [pages EXCEPT ![w] = p])
<1> DEFINE s == [by |-> w, canvas |-> Captured(p), lost |-> FALSE]
           m == Append(l, s)
           then == [pages EXCEPT ![w] = p]
<1>1. s \in LaneSave /\ Fits(s, p) /\ s.by = w /\ ~s.lost
  BY NewSave
<1>2. \A i \in 1..Len(l) : l[i].by \in Window
  BY LaneBy
<1> HIDE DEF s
<1>3. /\ m \in Seq(LaneSave) /\ Len(m) = Len(l) + 1 /\ Len(l) \in Nat
      /\ \A i \in 1..Len(l) : m[i] = l[i]
      /\ m[Len(l) + 1] = s
  BY <1>1, AppendFacts
<1>4. then[w] = p /\ \A v \in Window : v # w => then[v] = pages[v]
  OBVIOUS
<1> HIDE DEF m, then
<1>5. \A i \in 1..Len(m) : i \in 1..Len(l) \/ i = Len(l) + 1
  BY <1>3
<1>6. ASSUME NEW i \in 1..Len(m), ~m[i].lost
      PROVE  Fits(m[i], then[m[i].by])
  <2>1. CASE i \in 1..Len(l)
    BY <1>2, <1>3, <1>4, <1>6, <2>1 DEF LaneFitsPages, NoneOf
  <2>2. CASE i = Len(l) + 1
    BY <1>1, <1>3, <1>4, <2>2
  <2> QED BY <1>5, <2>1, <2>2
<1>7. ASSUME NEW i \in 1..Len(m), NEW j \in 1..Len(m), ~m[i].lost, ~m[j].lost, m[i].by = m[j].by
      PROVE  i = j
  <2>1. CASE i \in 1..Len(l) /\ j \in 1..Len(l)
    BY <1>3, <1>7, <2>1 DEF LaneFitsPages
  <2>2. CASE i \in 1..Len(l) /\ j = Len(l) + 1
    BY <1>1, <1>3, <1>7, <2>2 DEF NoneOf
  <2>3. CASE i = Len(l) + 1 /\ j \in 1..Len(l)
    BY <1>1, <1>3, <1>7, <2>3 DEF NoneOf
  <2> QED BY <1>5, <2>1, <2>2, <2>3
<1>8. LaneFitsPages(m, then)
  BY <1>6, <1>7 DEF LaneFitsPages
<1> QED BY <1>3, <1>8 DEF m, then, s

LEMMA LaneShrinks ==
  ASSUME NEW l \in Seq(LaneSave), NEW pages \in [Window -> Page], LaneFitsPages(l, pages),
         l # <<>>
  PROVE  /\ Tail(l) \in Seq(LaneSave) /\ Tail(l) # l
         /\ LaneFitsPages(Tail(l), pages)
         /\ ~l[1].lost => NoneOf(Tail(l), l[1].by)
<1> DEFINE m == Tail(l)
<1>1. /\ m \in Seq(LaneSave) /\ Len(m) = Len(l) - 1 /\ Len(l) \in Nat /\ Len(l) >= 1
      /\ \A i \in 1..Len(l) - 1 : m[i] = l[i + 1]
  BY TailFacts
<1> HIDE DEF m
<1>2. \A i \in 1..Len(m) : m[i] = l[i + 1] /\ i + 1 \in 1..Len(l) /\ i + 1 # 1 /\ 1 \in 1..Len(l)
  BY <1>1
<1>3. m # l
  BY <1>1
<1>4. LaneFitsPages(m, pages)
  <2>1. \A i \in 1..Len(m) : ~m[i].lost => Fits(m[i], pages[m[i].by])
    BY <1>2 DEF LaneFitsPages
  <2>2. ASSUME NEW i \in 1..Len(m), NEW j \in 1..Len(m), ~m[i].lost, ~m[j].lost, m[i].by = m[j].by
        PROVE  i = j
    <3>1. i + 1 = j + 1
      BY <1>2, <2>2 DEF LaneFitsPages
    <3> QED BY <1>1, <3>1
  <2> QED BY <2>1, <2>2 DEF LaneFitsPages
<1>5. ~l[1].lost => NoneOf(m, l[1].by)
  BY <1>2 DEF LaneFitsPages, NoneOf
<1> QED BY <1>1, <1>3, <1>4, <1>5 DEF m

\* While a page goes on, what it has in the lane still fits it.
LEMMA FitsStays ==
  ASSUME NEW p \in Page, PageSound(p), NEW q, GoesOn(p, q), NEW s, Fits(s, p)
  PROVE  Fits(s, q)
<1>1. /\ q.tail # <<>> /\ q.tail[1].gen = p.tail[1].gen
      /\ q.tail[1].awaited /\ q.left > 0 => p.tail[1].awaited /\ p.left > 0
  BY DEF GoesOn, KeepsHead, Fits
<1>2. p.tail \in Seq(Write) /\ p.gen \in Nat /\ p.saved \in Nat /\ p.saved <= p.gen
  BY DEF Page, PageSound
<1>3. p.tail[1] \in Write /\ 1 \in 1..Len(p.tail)
  BY <1>2, TailFacts DEF Fits
<1>4. p.tail[1].gen \in Nat /\ p.tail[1].gen <= p.gen
  BY <1>3 DEF PageSound, WritesFit, Write
<1>5. q.gen \in Nat /\ q.saved = p.saved
  BY DEF GoesOn, Page
<1>6. CASE q.gen = p.gen /\ q.canvas = p.canvas
  BY <1>1, <1>5, <1>6 DEF Fits
<1>7. CASE q.gen > p.gen
  BY <1>1, <1>2, <1>4, <1>5, <1>7 DEF Fits
<1> QED BY <1>6, <1>7 DEF GoesOn

-----------------------------------------------------------------------------
\* Why answers can be relied on: a clean page's canvas has been on disk.
PagesSound == \A w \in Window : PageSound(page[w])
LaneFits == LaneFitsPages(lane, page)
CleanIsSaved ==
  /\ \A w \in Window : page[w].up /\ ~Dirty(page[w]) => page[w].canvas \in written
  /\ stored.canvas \in written
AnswersInv ==
  /\ ShutdownTypeOK /\ PagesSound /\ LaneFits /\ CleanIsSaved
  /\ missed = {}

SaveTypes ==
  /\ page \in [Window -> Page] /\ lane \in Seq(LaneSave)
  /\ out \in [Window -> {"no", "sent", "answered"}]
  /\ last \in [by : Window \cup {0}, canvas : Canvas]

\* What a page becomes, and the lane with it.
LEMMA BecomesLane ==
  ASSUME SaveTypes, PagesSound, LaneFits, NEW w \in Window, NEW p \in Page, PageSound(p),
         NEW rest, NEW fine, Becomes(w, p, rest, fine),
         \/ rest = lane /\ GoesOn(page[w], p)
         \/ lane # <<>> /\ rest = Tail(lane) /\ lane[1].by = w /\ ~lane[1].lost
  PROVE  /\ page' = [page EXCEPT ![w] = p] /\ page' \in [Window -> Page]
         /\ page'[w] = p /\ \A v \in Window : v # w => page'[v] = page[v]
         /\ lane' \in Seq(LaneSave)
         /\ PagesSound' /\ LaneFits'
<1>1. /\ page' = [page EXCEPT ![w] = p]
      /\ lane' = IF p.tail # <<>> /\ (page[w].tail = <<>> \/ rest # lane)
                 THEN Append(rest, [by |-> w, canvas |-> Captured(p), lost |-> FALSE])
                 ELSE rest
  BY DEF Becomes
<1>2. /\ page' \in [Window -> Page]
      /\ page'[w] = p /\ \A v \in Window : v # w => page'[v] = page[v]
  BY <1>1 DEF SaveTypes
<1>3. PagesSound'
  BY <1>2 DEF PagesSound
<1>4. lane \in Seq(LaneSave) /\ page \in [Window -> Page] /\ LaneFitsPages(lane, page)
  BY DEF SaveTypes, LaneFits
<1>5. CASE rest = lane /\ GoesOn(page[w], p)
  <2>1. \A i \in 1..Len(lane) : lane[i].by = w /\ ~lane[i].lost =>
           Fits(lane[i], page[w]) /\ Fits(lane[i], p)
    <3>1. \A i \in 1..Len(lane) : lane[i].by = w /\ ~lane[i].lost => Fits(lane[i], page[w])
      BY <1>4 DEF LaneFitsPages
    <3> QED BY <1>4, <1>5, <3>1, FitsStays DEF PagesSound
  <2>2. CASE p.tail # <<>> /\ page[w].tail = <<>>
    <3>1. NoneOf(lane, w)
      BY <2>1, <2>2 DEF NoneOf, Fits
    <3> QED BY <1>1, <1>2, <1>3, <1>4, <1>5, <2>2, <3>1, LaneGrows DEF LaneFits
  <2>3. CASE ~(p.tail # <<>> /\ page[w].tail = <<>>)
    <3>1. lane' = lane
      BY <1>1, <1>5, <2>3
    <3> QED BY <1>1, <1>2, <1>3, <1>4, <2>1, <3>1, LaneStays DEF LaneFits
  <2> QED BY <2>2, <2>3
<1>6. CASE lane # <<>> /\ rest = Tail(lane) /\ lane[1].by = w /\ ~lane[1].lost
  <2>1. rest \in Seq(LaneSave) /\ rest # lane /\ LaneFitsPages(rest, page) /\ NoneOf(rest, w)
    BY <1>4, <1>6, LaneShrinks
  <2>2. CASE p.tail # <<>>
    BY <1>1, <1>2, <1>3, <1>4, <2>1, <2>2, LaneGrows DEF LaneFits
  <2>3. CASE p.tail = <<>>
    <3>1. lane' = rest
      BY <1>1, <2>3
    <3> QED BY <1>1, <1>2, <1>3, <1>4, <2>1, <3>1, LaneStays DEF LaneFits, NoneOf
  <2> QED BY <2>2, <2>3
<1> QED BY <1>5, <1>6

\* What it says.
LEMMA BecomesAnswers ==
  ASSUME SaveTypes, CleanIsSaved, missed = {},
         NEW w \in Window, NEW p \in Page,
         NEW rest, NEW fine, Becomes(w, p, rest, fine), winner \in Primary \cup {0},
         written \subseteq written', stored'.canvas \in written',
         p.up /\ ~Dirty(p) => p.canvas \in written',
         Answers(w, p) /\ fine /\ w \in Primary /\ page[w].left # -2 => ~Dirty(p), p.up
  PROVE  /\ out' \in [Window -> {"no", "sent", "answered"}]
         /\ last' \in [by : Window \cup {0}, canvas : Canvas]
         /\ missed' = {} /\ CleanIsSaved'
<1>1. p.canvas \in Canvas
  BY DEF Page
<1>2. out' \in [Window -> {"no", "sent", "answered"}]
  BY DEF Becomes, SaveTypes
<1>3. last' \in [by : Window \cup {0}, canvas : Canvas]
  <2>1. last' = last \/ last' = [by |-> w, canvas |-> p.canvas]
    BY DEF Becomes
  <2> QED BY <1>1, <2>1 DEF SaveTypes
<1>4. page'[w] = p /\ \A v \in Window : v # w => page'[v] = page[v]
  BY DEF Becomes, SaveTypes
<1>5. CleanIsSaved'
  BY <1>4 DEF CleanIsSaved
<1>6. missed' = {}
  <2>1. missed' = missed \/ missed' = missed \cup ({p.canvas} \ written')
    BY DEF Becomes
  <2>2. missed' # missed => ~Dirty(p)
    BY DEF Becomes
  <2> QED BY <2>1, <2>2
<1> QED BY <1>2, <1>3, <1>5, <1>6

\* The types in two parts: those of the saves, and the others.
RegistryTypes ==
  /\ window \in [Window -> {"unopened", "open", "closing", "closed"}]
  /\ focused \in Seq(Primary) /\ order \subseteq Window /\ winner \in Primary \cup {0}
  /\ requests \in [Window -> Seq(Reason)]
  /\ closeRequest \in [Window -> {"none", "close", "quit", "close, then quit"}]
  /\ quit \in {"no", "windows", "cleanup", "failed", "resumed", "exited"}
BoundTypes ==
  /\ stored \in [by : Window \cup {0}, canvas : Canvas] /\ written \subseteq Canvas
  /\ made \in [edits : 0..MaxEdits, requests : 0..MaxRequests, fails : 0..MaxFails]

LEMMA TypesSplit ==
  ShutdownTypeOK <=> SaveTypes /\ RegistryTypes /\ BoundTypes /\ missed \subseteq Canvas
BY DEF ShutdownTypeOK, SaveTypes, RegistryTypes, BoundTypes, LaneSave

LEMMA TypesSplitNext ==
  ShutdownTypeOK' <=> SaveTypes' /\ RegistryTypes' /\ BoundTypes' /\ missed' \subseteq Canvas
BY DEF ShutdownTypeOK, SaveTypes, RegistryTypes, BoundTypes, LaneSave

LEMMA RegistryKept ==
  RegistryTypes /\ UNCHANGED main => RegistryTypes'
BY DEF RegistryTypes, main, barriers

LEMMA BoundsAreNat ==
  MaxEdits \in Nat /\ MaxRequests \in Nat /\ MaxFails \in Nat
BY BoundsAssumption

LEMMA AnswersInit == ShutdownInit => AnswersInv
<1> SUFFICES ASSUME ShutdownInit PROVE AnswersInv
  OBVIOUS
<1>1. MaxEdits \in Nat /\ MaxRequests \in Nat /\ MaxFails \in Nat
  BY BoundsAreNat
<1>2. /\ 0 \in Canvas /\ <<>> \in Seq(Write) /\ <<>> \in Seq(Asked) /\ <<>> \in Seq(Reason)
      /\ <<>> \in Seq(LaneSave) /\ <<>> \in Seq(Primary) /\ Len(<<>>) = 0
      /\ -1 \in Canvas \cup {-1} /\ 0 \in -2..2
  BY <1>1 DEF Canvas
<1>3. \A b \in BOOLEAN : LET p == [NoPage EXCEPT !.up = b]
                         IN  /\ p \in Page /\ p.up = b /\ p.canvas = 0 /\ p.gen = 0 /\ p.saved = 0
                             /\ p.timer = -1 /\ p.tail = <<>> /\ p.asks = <<>> /\ p.left = 0
                             /\ ~b => p = NoPage
  <2>1. NoPage \in Page /\ ~NoPage.up
    BY <1>2 DEF NoPage, Page
  <2>2. [NoPage EXCEPT !.up = FALSE] = NoPage
    BY <2>1 DEF Page
  <2>3. /\ NoPage.canvas = 0 /\ NoPage.gen = 0 /\ NoPage.saved = 0 /\ NoPage.timer = -1
        /\ NoPage.tail = <<>> /\ NoPage.asks = <<>> /\ NoPage.left = 0
    BY DEF NoPage
  <2> QED BY <2>1, <2>2, <2>3 DEF Page
<1>4. \A b \in BOOLEAN : PageSound([NoPage EXCEPT !.up = b])
  <2> TAKE b \in BOOLEAN
  <2> DEFINE p == [NoPage EXCEPT !.up = b]
  <2>1. /\ p.up = b /\ p.canvas = 0 /\ p.gen = 0 /\ p.saved = 0
        /\ p.timer = -1 /\ p.tail = <<>> /\ p.left = 0 /\ (~b => p = NoPage)
    BY <1>3
  <2> HIDE DEF p
  <2>2. Len(p.tail) = 0
    BY <1>2, <2>1
  <2>3. WritesFit(p) /\ OneAwaited(p) /\ NewerBehind(p)
    BY <2>2 DEF WritesFit, OneAwaited, NewerBehind
  <2> QED BY <2>1, <2>3 DEF PageSound, p
<1>5. \A w \in Window : (w \notin Later) \in BOOLEAN /\ page[w] = [NoPage EXCEPT !.up = w \notin Later]
  BY DEF ShutdownInit
<1>6. \A w \in Window : page[w] \in Page /\ PageSound(page[w]) /\ page[w].canvas = 0
  BY <1>3, <1>4, <1>5
<1>7. SaveTypes
  <2>1. page \in [Window -> Page]
    BY <1>6 DEF ShutdownInit
  <2> QED BY <1>2, <2>1 DEF SaveTypes, ShutdownInit, NoCanvas
<1>8. RegistryTypes
  BY <1>2 DEF RegistryTypes, ShutdownInit
<1>9. BoundTypes /\ missed \subseteq Canvas
  BY <1>1, <1>2 DEF BoundTypes, ShutdownInit, NoCanvas
<1>10. LaneFits
  BY <1>2 DEF LaneFits, LaneFitsPages, ShutdownInit
<1>11. CleanIsSaved
  BY <1>6 DEF CleanIsSaved, ShutdownInit, NoCanvas
<1> QED BY <1>6, <1>7, <1>8, <1>9, <1>10, <1>11, TypesSplit DEF AnswersInv, PagesSound, ShutdownInit

\* A step of the registry that touches neither pages nor saves.
LEMMA RegistryStep ==
  ASSUME AnswersInv, RegistryTypes',
         made' \in [edits : 0..MaxEdits, requests : 0..MaxRequests, fails : 0..MaxFails],
         UNCHANGED <<out, saves>>
  PROVE  AnswersInv'
<1>1. /\ out' = out /\ page' = page /\ lane' = lane /\ stored' = stored
      /\ written' = written /\ missed' = missed /\ last' = last
  BY DEF saves
<1>2. SaveTypes' /\ BoundTypes' /\ missed' \subseteq Canvas
  BY <1>1, TypesSplit DEF AnswersInv, SaveTypes, BoundTypes
<1> QED BY <1>1, <1>2, TypesSplitNext
        DEF AnswersInv, PagesSound, LaneFits, LaneFitsPages, CleanIsSaved

\* A page goes on by itself.
LEMMA GoesOnAnswers ==
  ASSUME AnswersInv, NEW w \in Window, page[w].up, NEW p, GoesOn(page[w], p),
         Becomes(w, p, lane, TRUE), UNCHANGED <<main, stored, written>>,
         made' \in [edits : 0..MaxEdits, requests : 0..MaxRequests, fails : 0..MaxFails],
         Answers(w, p) /\ w \in Primary /\ page[w].left # -2 => ~Dirty(p)
  PROVE  AnswersInv'
<1>1. SaveTypes /\ RegistryTypes /\ BoundTypes
  BY TypesSplit DEF AnswersInv
<1>2. page[w] \in Page /\ PageSound(page[w])
  BY <1>1 DEF SaveTypes, AnswersInv, PagesSound
<1>3. p \in Page /\ PageSound(p) /\ p.up
  BY DEF GoesOn
<1>4. ~Dirty(p) => p.canvas \in written
  <2>1. /\ p.saved = page[w].saved /\ page[w].saved <= page[w].gen
        /\ (p.gen = page[w].gen /\ p.canvas = page[w].canvas) \/ p.gen > page[w].gen
    BY <1>2 DEF GoesOn, PageSound
  <2>2. page[w].gen \in Nat /\ page[w].saved \in Nat /\ p.gen \in Nat
    BY <1>2, <1>3 DEF Page
  <2>3. ~Dirty(page[w]) => page[w].canvas \in written
    BY DEF AnswersInv, CleanIsSaved
  <2> QED BY <2>1, <2>2, <2>3 DEF Dirty
<1>5. page' \in [Window -> Page] /\ lane' \in Seq(LaneSave) /\ PagesSound' /\ LaneFits'
  BY <1>1, <1>3, BecomesLane DEF AnswersInv
<1>6. /\ out' \in [Window -> {"no", "sent", "answered"}]
      /\ last' \in [by : Window \cup {0}, canvas : Canvas]
      /\ missed' = {} /\ CleanIsSaved'
  <2>1. stored'.canvas \in written' /\ written \subseteq written'
    BY DEF AnswersInv, CleanIsSaved
  <2>2. winner \in Primary \cup {0}
    BY <1>1 DEF RegistryTypes
  <2> QED BY <1>1, <1>3, <1>4, <2>1, <2>2, BecomesAnswers DEF AnswersInv
<1>7. SaveTypes' /\ RegistryTypes' /\ BoundTypes'
  BY <1>1, <1>5, <1>6, RegistryKept DEF SaveTypes, BoundTypes
<1> QED BY <1>5, <1>6, <1>7, TypesSplitNext DEF AnswersInv

LEMMA EditAnswers ==
  ASSUME AnswersInv, NEW w \in Window, Edit(w)
  PROVE  AnswersInv'
<1> DEFINE c == made.edits + 1
           p == [page[w] EXCEPT !.canvas = c, !.gen = @ + 1, !.timer = c]
<1>1. SaveTypes /\ BoundTypes
  BY TypesSplit DEF AnswersInv
<1>2. /\ page[w].up /\ made.edits < MaxEdits /\ made' = [made EXCEPT !.edits = @ + 1]
      /\ Becomes(w, p, lane, TRUE) /\ UNCHANGED <<main, stored, written>>
  BY DEF Edit
<1>3. c \in Canvas /\ made' \in [edits : 0..MaxEdits, requests : 0..MaxRequests, fails : 0..MaxFails]
  BY <1>1, <1>2, BoundsAreNat DEF BoundTypes, Canvas
<1>4. page[w] \in Page /\ PageSound(page[w])
  BY <1>1 DEF SaveTypes, AnswersInv, PagesSound
<1>5. GoesOn(page[w], p) /\ p.asks = page[w].asks
  BY <1>2, <1>3, <1>4, EditPage
<1> HIDE DEF p, c
<1>6. ~Answers(w, p)
  BY <1>4, <1>5 DEF Answers, Page
<1> QED BY <1>2, <1>3, <1>5, <1>6, GoesOnAnswers

LEMMA TimerAnswers ==
  ASSUME AnswersInv, NEW w \in Window, TimerFires(w)
  PROVE  AnswersInv'
<1> DEFINE p == Enqueue([page[w] EXCEPT !.timer = -1], page[w].gen, page[w].timer, FALSE)
<1>1. SaveTypes /\ BoundTypes
  BY TypesSplit DEF AnswersInv
<1>2. /\ page[w].up /\ page[w].timer # -1 /\ made' = made
      /\ Becomes(w, p, lane, TRUE) /\ UNCHANGED <<main, stored, written>>
  BY DEF TimerFires
<1>3. page[w] \in Page /\ PageSound(page[w])
  BY <1>1 DEF SaveTypes, AnswersInv, PagesSound
<1>4. GoesOn(page[w], p) /\ p.asks = page[w].asks
  BY <1>2, <1>3, TimerPage
<1> HIDE DEF p
<1>5. ~Answers(w, p)
  BY <1>3, <1>4 DEF Answers, Page
<1> QED BY <1>1, <1>2, <1>4, <1>5, GoesOnAnswers DEF BoundTypes

LEMMA TaskAnswers ==
  ASSUME AnswersInv, NEW w \in Window, TaskBegins(w)
  PROVE  AnswersInv'
<1> DEFINE p == Task(w, page[w])
<1>1. SaveTypes /\ BoundTypes
  BY TypesSplit DEF AnswersInv
<1>2. /\ page[w].up /\ page[w].asks # <<>> /\ page[w].left = 0 /\ made' = made
      /\ Becomes(w, p, lane, TRUE) /\ UNCHANGED <<main, stored, written>>
  BY DEF TaskBegins
<1>3. page[w] \in Page /\ PageSound(page[w])
  BY <1>1 DEF SaveTypes, AnswersInv, PagesSound
<1>4. /\ GoesOn(page[w], p)
      /\ w \notin Auxiliary /\ Len(p.asks) < Len(page[w].asks) => ~Dirty(p)
  BY <1>2, <1>3, TaskPage
<1> HIDE DEF p
<1>5. Answers(w, p) /\ w \in Primary => ~Dirty(p)
  BY <1>4, WindowsAssumption DEF Answers
<1> QED BY <1>1, <1>2, <1>4, <1>5, GoesOnAnswers DEF BoundTypes

\* A page is gone, and what it has in the lane is lost.
LEMMA NoPageSound ==
  NoPage \in Page /\ PageSound(NoPage) /\ ~NoPage.up
<1>1. /\ 0 \in Canvas /\ <<>> \in Seq(Write) /\ <<>> \in Seq(Asked)
      /\ -1 \in Canvas \cup {-1} /\ 0 \in -2..2 /\ Len(<<>>) = 0
  BY BoundsAreNat DEF Canvas
<1>2. NoPage \in Page
  BY <1>1 DEF NoPage, Page
<1>3. /\ ~NoPage.up /\ NoPage.gen = 0 /\ NoPage.saved = 0 /\ NoPage.timer = -1
      /\ Len(NoPage.tail) = 0 /\ NoPage.left = 0
  BY <1>1 DEF NoPage
<1>4. WritesFit(NoPage) /\ OneAwaited(NoPage) /\ NewerBehind(NoPage)
  BY <1>3 DEF WritesFit, OneAwaited, NewerBehind
<1> QED BY <1>2, <1>3, <1>4 DEF PageSound

LEMMA GoneLane ==
  ASSUME SaveTypes, LaneFits, PagesSound, NEW w \in Window, PageGone(w)
  PROVE  /\ page' \in [Window -> Page] /\ lane' \in Seq(LaneSave)
         /\ PagesSound' /\ LaneFits'
         /\ page'[w] = NoPage /\ \A v \in Window : v # w => page'[v] = page[v]
         /\ Len(lane') = Len(lane) /\ \A i \in 1..Len(lane) :
              /\ lane'[i].by = lane[i].by /\ lane'[i].canvas = lane[i].canvas
              /\ ~lane'[i].lost => lane[i].by # w /\ ~lane[i].lost
              /\ lane[i].by # w => lane'[i] = lane[i]
<1>1. lane \in Seq(LaneSave) /\ Len(lane) \in Nat
  BY DEF SaveTypes
<1>2. \A i \in 1..Len(lane) : lane[i] \in LaneSave /\ lane[i].by \in Window
  BY <1>1, LaneBy
<1> DEFINE m == [i \in 1..Len(lane) |-> IF lane[i].by = w THEN [lane[i] EXCEPT !.lost = TRUE]
                                        ELSE lane[i]]
<1>3. lane' = m
  BY DEF PageGone
<1>4. \A s \in LaneSave : LET t == [s EXCEPT !.lost = TRUE]
                          IN  t \in LaneSave /\ t.by = s.by /\ t.canvas = s.canvas /\ t.lost
  BY DEF LaneSave
<1>5. \A i \in 1..Len(lane) : m[i] \in LaneSave
  BY <1>2, <1>4
<1>6. m \in Seq(LaneSave) /\ Len(m) = Len(lane)
  BY <1>1, <1>5
<1>7. \A i \in 1..Len(lane) :
        /\ m[i].by = lane[i].by /\ m[i].canvas = lane[i].canvas
        /\ ~m[i].lost => lane[i].by # w /\ ~lane[i].lost
        /\ lane[i].by # w => m[i] = lane[i]
  BY <1>2, <1>4
<1> HIDE DEF m
<1>8. /\ page' \in [Window -> Page]
      /\ page'[w] = NoPage /\ \A v \in Window : v # w => page'[v] = page[v]
  BY NoPageSound DEF PageGone, SaveTypes
<1>9. PagesSound'
  BY <1>8, NoPageSound DEF PagesSound
<1>10. LaneFits'
  <2>1. /\ \A i \in 1..Len(lane) : ~lane[i].lost => Fits(lane[i], page[lane[i].by])
        /\ \A i, j \in 1..Len(lane) : ~lane[i].lost /\ ~lane[j].lost /\ lane[i].by = lane[j].by => i = j
    BY DEF LaneFits, LaneFitsPages
  <2>2. \A i \in 1..Len(m) : ~m[i].lost => Fits(m[i], page'[m[i].by])
    BY <1>2, <1>6, <1>7, <1>8, <2>1
  <2>3. \A i, j \in 1..Len(m) : ~m[i].lost /\ ~m[j].lost /\ m[i].by = m[j].by => i = j
    BY <1>6, <1>7, <2>1
  <2> QED BY <1>3, <2>2, <2>3 DEF LaneFits, LaneFitsPages
<1> QED BY <1>3, <1>6, <1>7, <1>8, <1>9, <1>10

LEMMA LoadAnswers ==
  ASSUME AnswersInv, NEW w \in Window, Load(w)
  PROVE  AnswersInv'
<1>1. SaveTypes /\ RegistryTypes /\ BoundTypes
  BY TypesSplit DEF AnswersInv
<1>2. /\ ~page[w].up /\ page' = [page EXCEPT ![w] = Loaded]
      /\ UNCHANGED main /\ out' = out /\ lane' = lane /\ stored' = stored /\ written' = written
      /\ missed' = missed /\ last' = last /\ made' = made
  BY DEF Load
<1>3. /\ Loaded \in Page /\ Loaded.up /\ Loaded.canvas = stored.canvas
      /\ Loaded.gen = 0 /\ Loaded.saved = 0 /\ Loaded.timer = -1
      /\ Loaded.tail = <<>> /\ Loaded.left = 0 /\ Loaded.asks = <<>>
  <2>1. stored.canvas \in Canvas
    BY <1>1 DEF BoundTypes
  <2>2. NoPage \in Page
    BY NoPageSound
  <2>3. /\ NoPage.gen = 0 /\ NoPage.saved = 0 /\ NoPage.timer = -1
        /\ NoPage.tail = <<>> /\ NoPage.left = 0 /\ NoPage.asks = <<>>
    BY DEF NoPage
  <2> QED BY <2>1, <2>2, <2>3 DEF Loaded, Page
<1>4. PageSound(Loaded)
  <2>1. Len(Loaded.tail) = 0
    BY <1>3
  <2>2. WritesFit(Loaded) /\ OneAwaited(Loaded) /\ NewerBehind(Loaded)
    BY <2>1 DEF WritesFit, OneAwaited, NewerBehind
  <2> QED BY <1>3, <2>2 DEF PageSound
<1>5. page[w] = NoPage
  BY <1>2 DEF AnswersInv, PagesSound, PageSound
<1>6. \A i \in 1..Len(lane) : ~(lane[i].by = w /\ ~lane[i].lost)
  <2>1. NoPage.tail = <<>>
    BY DEF NoPage
  <2> QED BY <1>5, <2>1 DEF AnswersInv, LaneFits, LaneFitsPages, Fits
<1>7. /\ page' \in [Window -> Page]
      /\ page'[w] = Loaded /\ \A v \in Window : v # w => page'[v] = page[v]
  BY <1>1, <1>2, <1>3 DEF SaveTypes
<1>8. LaneFits'
  BY <1>1, <1>2, <1>6, LaneStays DEF AnswersInv, LaneFits, SaveTypes
<1>9. PagesSound' /\ CleanIsSaved'
  BY <1>2, <1>3, <1>4, <1>7 DEF AnswersInv, PagesSound, CleanIsSaved
<1>10. SaveTypes' /\ RegistryTypes' /\ BoundTypes'
  BY <1>1, <1>2, <1>7, RegistryKept DEF SaveTypes, BoundTypes
<1> QED BY <1>2, <1>8, <1>9, <1>10, TypesSplitNext DEF AnswersInv

\* The oldest save has ended.
LEMMA SaveAnswers ==
  ASSUME AnswersInv, NEW ok \in BOOLEAN, Save(ok)
  PROVE  AnswersInv'
<1> DEFINE s == lane[1]
           w == s.by
           p == page[w]
           q == WriteOver(p, ok)
           fine == ~Reports(p, ok)
<1>1. SaveTypes /\ RegistryTypes /\ BoundTypes
  BY TypesSplit DEF AnswersInv
<1>2. lane \in Seq(LaneSave) /\ lane # <<>> /\ Head(lane) = s
  BY <1>1, TailFacts DEF SaveTypes, Save
<1>3. s \in LaneSave /\ w \in Window /\ s.canvas \in Canvas /\ 1 \in 1..Len(lane)
  <2>1. s \in LaneSave /\ 1 \in 1..Len(lane)
    BY <1>2, TailFacts
  <2> QED BY <2>1 DEF LaneSave
<1>4. /\ UNCHANGED main
      /\ stored' = IF ok THEN [by |-> w, canvas |-> s.canvas] ELSE stored
      /\ written' = written \cup (IF ok THEN {s.canvas} ELSE {})
      /\ s.lost => lane' = Tail(lane) /\ UNCHANGED <<page, out, missed, last>>
      /\ ~s.lost => Becomes(w, q, Tail(lane), fine)
  BY <1>2 DEF Save
<1>5. BoundTypes'
  <2>1. made' \in [edits : 0..MaxEdits, requests : 0..MaxRequests, fails : 0..MaxFails]
    BY <1>1, BoundsAreNat DEF Save, BoundTypes
  <2>2. [by |-> w, canvas |-> s.canvas] \in [by : Window \cup {0}, canvas : Canvas]
    BY <1>3
  <2> HIDE DEF s
  <2> QED BY <1>1, <1>3, <1>4, <2>1, <2>2 DEF BoundTypes
<1>6. RegistryTypes'
  BY <1>1, <1>4, RegistryKept
<1>7. stored'.canvas \in written' /\ written \subseteq written' /\ (ok => s.canvas \in written')
  <2>1. stored.canvas \in written
    BY DEF AnswersInv, CleanIsSaved
  <2> QED BY <1>4, <2>1
<1>8. CASE s.lost
  <2>1. lane' \in Seq(LaneSave) /\ LaneFitsPages(lane', page)
    BY <1>1, <1>2, <1>4, <1>8, LaneShrinks DEF AnswersInv, LaneFits, SaveTypes
  <2>2. page' = page /\ out' = out /\ missed' = missed /\ last' = last
    BY <1>4, <1>8
  <2>3. SaveTypes'
    BY <1>1, <2>1, <2>2 DEF SaveTypes
  <2>4. LaneFits' /\ PagesSound' /\ CleanIsSaved'
    BY <1>7, <2>1, <2>2 DEF AnswersInv, LaneFits, PagesSound, CleanIsSaved
  <2> QED BY <1>5, <1>6, <2>2, <2>3, <2>4, TypesSplitNext DEF AnswersInv
<1>9. CASE ~s.lost
  <2> HIDE DEF s
  <2>1. p \in Page /\ PageSound(p)
    BY <1>1, <1>3 DEF SaveTypes, AnswersInv, PagesSound
  <2>2. Fits(s, p)
    BY <1>3, <1>9 DEF AnswersInv, LaneFits, LaneFitsPages, s
  <2>3. p.tail # <<>> /\ p.up
    <3>1. p.tail # <<>>
      BY <2>2 DEF Fits
    <3>2. NoPage.tail = <<>>
      BY DEF NoPage
    <3> QED BY <2>1, <3>1, <3>2 DEF PageSound
  <2>4. /\ q \in Page /\ PageSound(q) /\ q.up /\ q.canvas = p.canvas
        /\ q.saved = IF ok /\ p.tail[1].gen > p.saved THEN p.tail[1].gen ELSE p.saved
        /\ q.gen = p.gen \/ q.gen > p.gen
        /\ Len(q.asks) < Len(p.asks) /\ ~Reports(p, ok) /\ p.left # -2 => ~Dirty(q)
    BY <2>1, <2>3, WriteOverPage
  <2>5. Becomes(w, q, Tail(lane), fine)
    BY <1>4, <1>9
  <2>6. page[w].up /\ ~Dirty(page[w]) => page[w].canvas \in written
    BY <1>3 DEF AnswersInv, CleanIsSaved
  <2> DEFINE gen == p.tail[1].gen
  <2>7. gen \in Nat /\ gen <= p.gen /\ p.gen \in Nat /\ p.saved \in Nat /\ p.saved <= p.gen
    <3>1. p.tail \in Seq(Write)
      BY <2>1 DEF Page
    <3>2. p.tail[1] \in Write /\ 1 \in 1..Len(p.tail)
      BY <2>3, <3>1, TailFacts
    <3>3. gen \in Nat /\ gen <= p.gen
      BY <2>1, <3>2 DEF Write, PageSound, WritesFit
    <3> HIDE DEF gen
    <3> QED BY <2>1, <3>3 DEF Page, PageSound
  <2>8. q.gen \in Nat
    BY <2>4 DEF Page
  <2>9. gen = p.gen => s.canvas = p.canvas
    BY <2>2 DEF Fits
  <2>10. ~Dirty(q) => q.canvas \in written'
    <3> SUFFICES ASSUME ~Dirty(q) PROVE q.canvas \in written'
      OBVIOUS
    <3> HIDE DEF gen, q, p
    <3>1. q.gen <= q.saved /\ q.saved = IF ok /\ gen > p.saved THEN gen ELSE p.saved
      BY <2>4, <2>7, <2>8 DEF Dirty, gen
    <3>2. CASE ok /\ gen > p.saved
      <4>1. gen = p.gen
        BY <2>4, <2>7, <2>8, <3>1, <3>2
      <4> QED BY <1>7, <2>4, <2>9, <3>2, <4>1
    <3>3. CASE ~(ok /\ gen > p.saved)
      <4>1. ~(p.gen > p.saved)
        BY <2>4, <2>7, <2>8, <3>1, <3>3
      <4>2. p.canvas \in written
        BY <2>3, <2>6, <4>1 DEF Dirty, p
      <4> QED BY <1>7, <2>4, <4>2
    <3> QED BY <3>2, <3>3
  <2>11. Answers(w, q) /\ fine /\ w \in Primary /\ page[w].left # -2 => ~Dirty(q)
    BY <2>4 DEF Answers
  <2>12. lane[1].by = w /\ ~lane[1].lost
    BY <1>9 DEF s
  <2> HIDE DEF q, fine
  <2>13. page' \in [Window -> Page] /\ lane' \in Seq(LaneSave) /\ PagesSound' /\ LaneFits'
    <3> HIDE DEF w
    <3> QED BY <1>1, <1>2, <1>3, <2>4, <2>5, <2>12, BecomesLane DEF AnswersInv
  <2>14. /\ out' \in [Window -> {"no", "sent", "answered"}]
         /\ last' \in [by : Window \cup {0}, canvas : Canvas]
         /\ missed' = {} /\ CleanIsSaved'
    <3>1. winner \in Primary \cup {0}
      BY <1>1 DEF RegistryTypes
    <3> HIDE DEF w
    <3> QED BY <1>1, <1>3, <1>7, <2>4, <2>5, <2>10, <2>11, <3>1, BecomesAnswers DEF AnswersInv
  <2>15. SaveTypes'
    BY <2>13, <2>14 DEF SaveTypes
  <2> QED BY <1>5, <1>6, <2>13, <2>14, <2>15, TypesSplitNext DEF AnswersInv
<1> QED BY <1>8, <1>9

\* Only the challenges of a page have changed, and the oldest has its reason.
LEMMA AsksAnswers ==
  ASSUME SaveTypes, PagesSound, LaneFits, CleanIsSaved, NEW w \in Window,
         NEW asks \in Seq(Asked), page[w].asks # <<>> => asks # <<>> /\ asks[1].reason = page[w].asks[1].reason,
         page[w].up \/ asks = <<>>,
         page' = [page EXCEPT ![w].asks = asks], lane' = lane, stored' = stored, written' = written
  PROVE  page' \in [Window -> Page] /\ PagesSound' /\ LaneFits' /\ CleanIsSaved'
<1> DEFINE p == page[w]
           q == [p EXCEPT !.asks = asks]
<1>1. p \in Page /\ PageSound(p)
  BY DEF SaveTypes, PagesSound
<1>2. page' = [page EXCEPT ![w] = q]
  BY DEF SaveTypes
<1>3. /\ q \in Page /\ q.up = p.up /\ q.canvas = p.canvas /\ q.gen = p.gen /\ q.saved = p.saved
      /\ q.timer = p.timer /\ q.tail = p.tail /\ q.left = p.left /\ q.asks = asks
  BY <1>1 DEF Page
<1>4. ~p.up => q = p
  <2>1. ~p.up => p.asks = <<>> /\ asks = <<>>
    BY <1>1 DEF PageSound, NoPage
  <2> QED BY <1>1, <2>1 DEF Page
<1> HIDE DEF p, q
<1>5. PageSound(q)
  BY <1>1, <1>3, <1>4 DEF PageSound, WritesFit, OneAwaited, NewerBehind, p
<1>6. /\ page' \in [Window -> Page]
      /\ page'[w] = q /\ \A v \in Window : v # w => page'[v] = page[v]
  BY <1>2, <1>3 DEF SaveTypes
<1>7. LaneFits'
  <2>1. \A i \in 1..Len(lane) : lane[i].by = w /\ ~lane[i].lost => Fits(lane[i], q)
    BY <1>3 DEF LaneFits, LaneFitsPages, Fits, p
  <2>2. LaneFitsPages(lane, [page EXCEPT ![w] = q])
    BY <2>1, LaneStays DEF SaveTypes, LaneFits
  <2> QED BY <1>2, <2>2 DEF LaneFits
<1>8. PagesSound' /\ CleanIsSaved'
  BY <1>3, <1>5, <1>6 DEF PagesSound, CleanIsSaved, Dirty, p
<1> QED BY <1>6, <1>7, <1>8

LEMMA ChallengeAnswers ==
  ASSUME AnswersInv, NEW w \in Window, Challenge(w)
  PROVE  AnswersInv'
<1> DEFINE reason == Head(requests[w])
           e == [reason |-> reason, live |-> TRUE]
           asks == Append(page[w].asks, e)
<1>1. SaveTypes /\ RegistryTypes /\ BoundTypes
  BY TypesSplit DEF AnswersInv
<1>2. /\ requests[w] # <<>> /\ out' = [out EXCEPT ![w] = "sent"]
      /\ page' = IF page[w].up THEN [page EXCEPT ![w].asks = asks] ELSE page
      /\ UNCHANGED main /\ lane' = lane /\ stored' = stored /\ written' = written
      /\ missed' = missed /\ last' = last /\ made' = made
  BY DEF Challenge
<1>3. page[w].asks \in Seq(Asked) /\ e \in Asked
  <2>1. requests[w] \in Seq(Reason) /\ page[w] \in Page
    BY <1>1 DEF SaveTypes, RegistryTypes
  <2>2. reason \in Reason
    BY <1>2, <2>1, TailFacts
  <2> HIDE DEF reason
  <2> QED BY <2>1, <2>2 DEF Page, Asked
<1> HIDE DEF e
<1>4. /\ asks \in Seq(Asked) /\ asks # <<>>
      /\ page[w].asks # <<>> => asks[1].reason = page[w].asks[1].reason
  BY <1>3, AppendFacts
<1> HIDE DEF asks
<1>5. page' \in [Window -> Page] /\ PagesSound' /\ LaneFits' /\ CleanIsSaved'
  <2>1. CASE page[w].up
    BY <1>1, <1>2, <1>4, <2>1, AsksAnswers DEF AnswersInv
  <2>2. CASE ~page[w].up
    BY <1>1, <1>2, <2>2 DEF AnswersInv, SaveTypes, PagesSound, LaneFits, LaneFitsPages, CleanIsSaved
  <2> QED BY <2>1, <2>2
<1>6. SaveTypes' /\ RegistryTypes' /\ BoundTypes'
  BY <1>1, <1>2, <1>5, RegistryKept DEF SaveTypes, BoundTypes
<1> QED BY <1>2, <1>5, <1>6, TypesSplitNext DEF AnswersInv

LEMMA ReasonFacts ==
  ASSUME NEW s \in Seq(Reason), NEW r \in Reason
  PROVE  /\ Append(s, r) \in Seq(Reason)
         /\ s # <<>> => /\ Tail(s) \in Seq(Reason) /\ Append(Tail(s), r) \in Seq(Reason)
                        /\ Head(s) \in Reason
OBVIOUS

LEMMA ExpiredAsks ==
  ASSUME NEW p \in Page
  PROVE  LET asks == [i \in 1..Len(p.asks) |-> [p.asks[i] EXCEPT !.live = FALSE]]
         IN  /\ Expired(p) = [p EXCEPT !.asks = asks] /\ asks \in Seq(Asked)
             /\ Len(asks) = Len(p.asks)
             /\ \A i \in 1..Len(p.asks) : asks[i].reason = p.asks[i].reason /\ ~asks[i].live
             /\ p.asks # <<>> => asks # <<>> /\ asks[1].reason = p.asks[1].reason
             /\ p.asks = <<>> => asks = <<>>
<1> DEFINE asks == [i \in 1..Len(p.asks) |-> [p.asks[i] EXCEPT !.live = FALSE]]
<1>1. p.asks \in Seq(Asked) /\ Len(p.asks) \in Nat
  <2>1. p.asks \in Seq(Asked)
    BY DEF Page
  <2> QED BY <2>1
<1>2. \A i \in 1..Len(p.asks) : p.asks[i] \in Asked
  BY <1>1
<1>3. \A a \in Asked : LET b == [a EXCEPT !.live = FALSE]
                       IN  b \in Asked /\ b.reason = a.reason /\ ~b.live
  BY DEF Asked
<1>4. \A i \in 1..Len(p.asks) :
        asks[i] \in Asked /\ asks[i].reason = p.asks[i].reason /\ ~asks[i].live
  BY <1>2, <1>3
<1>5. asks \in Seq(Asked) /\ Len(asks) = Len(p.asks)
  <2>1. asks \in [1..Len(p.asks) -> Asked]
    BY <1>4
  <2> HIDE DEF asks
  <2> QED BY <1>1, <2>1
<1>6. Expired(p) = [p EXCEPT !.asks = asks]
  BY DEF Expired
<1> HIDE DEF asks
<1>7. p.asks # <<>> => asks # <<>> /\ asks[1].reason = p.asks[1].reason
  <2> SUFFICES ASSUME p.asks # <<>>
               PROVE  asks # <<>> /\ asks[1].reason = p.asks[1].reason
    OBVIOUS
  <2>1. Len(p.asks) >= 1
    BY <1>1, TailFacts
  <2>2. 1 \in 1..Len(p.asks)
    BY <1>1, <2>1
  <2> QED BY <1>4, <1>5, <2>1, <2>2
<1>8. p.asks = <<>> => asks = <<>>
  BY <1>5
<1> QED BY <1>4, <1>5, <1>6, <1>7, <1>8 DEF asks

\* Challenges: the one that is out is the first of its window; a page works in
\* time only on that one, and a window that is closing has no page.
ChallengesInv ==
  \A w \in Window :
    /\ out[w] # "no" => requests[w] # <<>>
    /\ window[w] # "open" => ~page[w].up
    /\ \A i \in 1..Len(page[w].asks) : page[w].asks[i].live => out[w] # "no"

LEMMA ChallengeOverAnswers ==
  ASSUME AnswersInv, ChallengesInv, NEW w \in Window, ChallengeOver(w)
  PROVE  AnswersInv'
<1> DEFINE reason == Head(requests[w])
           rest == Tail(requests[w])
           queued == reason = "close" /\ closeRequest[w] = "close, then quit"
           gone == Closes(w) \/ (reason = "reload" /\ window[w] = "open")
           asks == [i \in 1..Len(page[w].asks) |-> [page[w].asks[i] EXCEPT !.live = FALSE]]
<1>1. SaveTypes /\ RegistryTypes /\ BoundTypes
  BY TypesSplit DEF AnswersInv
<1>2. /\ Settled(w) /\ out' = [out EXCEPT ![w] = "no"]
      /\ requests' = [requests EXCEPT ![w] = IF queued THEN Append(rest, "quit") ELSE rest]
      /\ closeRequest' = IF reason # "close" THEN closeRequest
                         ELSE [closeRequest EXCEPT ![w] = IF queued THEN "quit" ELSE "none"]
      /\ window' = IF Closes(w) THEN [window EXCEPT ![w] = "closing"] ELSE window
      /\ order' = IF reason = "quit" THEN order \ {w} ELSE order
      /\ IF gone THEN PageGone(w) ELSE page' = [page EXCEPT ![w] = Expired(page[w])] /\ lane' = lane
      /\ focused' = focused /\ quit' = quit /\ winner' = winner /\ stored' = stored
      /\ written' = written /\ missed' = missed /\ last' = last /\ made' = made
  BY DEF ChallengeOver
<1>3. requests[w] # <<>> /\ requests[w] \in Seq(Reason)
  BY <1>1, <1>2 DEF Settled, ChallengesInv, RegistryTypes
<1>4. rest \in Seq(Reason) /\ Append(rest, "quit") \in Seq(Reason)
  BY <1>3, ReasonFacts DEF Reason
<1> HIDE DEF reason, rest, queued, gone
<1>5. RegistryTypes'
  BY <1>1, <1>2, <1>4 DEF RegistryTypes
<1>6. page' \in [Window -> Page] /\ lane' \in Seq(LaneSave) /\ PagesSound' /\ LaneFits' /\ CleanIsSaved'
  <2>1. CASE gone
    <3>1. /\ page' \in [Window -> Page] /\ lane' \in Seq(LaneSave) /\ PagesSound' /\ LaneFits'
          /\ page'[w] = NoPage /\ \A v \in Window : v # w => page'[v] = page[v]
      BY <1>1, <1>2, <2>1, GoneLane DEF AnswersInv
    <3>2. CleanIsSaved'
      BY <1>2, <3>1, NoPageSound DEF AnswersInv, CleanIsSaved
    <3> QED BY <3>1, <3>2
  <2>2. CASE ~gone
    <3>1. page[w] \in Page /\ PageSound(page[w])
      BY <1>1 DEF SaveTypes, AnswersInv, PagesSound
    <3>2. /\ Expired(page[w]) = [page[w] EXCEPT !.asks = asks] /\ asks \in Seq(Asked)
          /\ page[w].asks # <<>> => asks # <<>> /\ asks[1].reason = page[w].asks[1].reason
          /\ page[w].asks = <<>> => asks = <<>>
      BY <3>1, ExpiredAsks
    <3>3. page[w].up \/ asks = <<>>
      BY <3>1, <3>2 DEF PageSound, NoPage
    <3> HIDE DEF asks
    <3>4. page' = [page EXCEPT ![w].asks = asks]
      BY <1>1, <1>2, <2>2, <3>2 DEF SaveTypes
    <3> QED BY <1>1, <1>2, <2>2, <3>2, <3>3, <3>4, AsksAnswers DEF AnswersInv, SaveTypes
  <2> QED BY <2>1, <2>2
<1>7. SaveTypes' /\ BoundTypes'
  BY <1>1, <1>2, <1>6 DEF SaveTypes, BoundTypes
<1> QED BY <1>2, <1>5, <1>6, <1>7, TypesSplitNext DEF AnswersInv

LEMMA WithoutType ==
  ASSUME NEW s \in Seq(Primary), NEW w
  PROVE  Without(s, w) \in Seq(Primary)
<1>1. CASE w \notin ToSet(s)
  BY <1>1 DEF Without
<1>2. CASE w \in ToSet(s)
  <2> DEFINE n == CHOOSE i \in DOMAIN s : s[i] = w
  <2>1. n \in 1..Len(s)
    BY <1>2 DEF ToSet
  <2>2. Without(s, w) = SubSeq(s, 1, n - 1) \o SubSeq(s, n + 1, Len(s))
    BY <1>2 DEF Without, RemoveAt
  <2> HIDE DEF n
  <2>3. SubSeq(s, 1, n - 1) \in Seq(Primary) /\ SubSeq(s, n + 1, Len(s)) \in Seq(Primary)
    BY <2>1, SubSeqProperties
  <2> QED BY <2>2, <2>3, ConcatProperties
<1> QED BY <1>1, <1>2

\* The steps of the registry and of the quit.
LEMMA RegistryAnswers ==
  ASSUME AnswersInv, (\E w \in Window : User(w)) \/ Quit \/ Quits
  PROVE  AnswersInv'
<1>1. RegistryTypes /\ BoundTypes
  BY TypesSplit DEF AnswersInv
<1>2. made \in [edits : 0..MaxEdits, requests : 0..MaxRequests, fails : 0..MaxFails]
  BY <1>1 DEF BoundTypes
<1>3. \A v \in Window : requests[v] \in Seq(Reason)
  BY <1>1 DEF RegistryTypes
<1>4. {"close", "quit", "reload"} \subseteq Reason
  BY DEF Reason
<1>5. \A v \in Window : Append(requests[v], "close") \in Seq(Reason)
                         /\ Append(requests[v], "quit") \in Seq(Reason)
                         /\ Append(requests[v], "reload") \in Seq(Reason)
  BY <1>3, <1>4, ReasonFacts
<1>6. ASSUME NEW w \in Window, Open(w) PROVE AnswersInv'
  <2>1. RegistryTypes' /\ made' = made
    BY <1>1, <1>6 DEF Open, RegistryTypes
  <2> QED BY <1>2, <1>6, <2>1, RegistryStep DEF Open
<1>7. ASSUME NEW w \in Window, Focus(w) PROVE AnswersInv'
  <2>1. w \in Primary /\ focused' = Append(Without(focused, w), w)
    BY <1>7 DEF Focus
  <2>2. focused' \in Seq(Primary)
    BY <1>1, <2>1, WithoutType, AppendFacts DEF RegistryTypes
  <2>3. RegistryTypes' /\ made' = made
    BY <1>1, <1>7, <2>2 DEF Focus, RegistryTypes
  <2> QED BY <1>2, <1>7, <2>3, RegistryStep DEF Focus
<1>8. ASSUME NEW w \in Window, Close(w) PROVE AnswersInv'
  <2>1. RegistryTypes'
    BY <1>1, <1>5, <1>8 DEF Close, Ask, RegistryTypes
  <2>2. made' \in [edits : 0..MaxEdits, requests : 0..MaxRequests, fails : 0..MaxFails]
    BY <1>2, <1>8, BoundsAreNat DEF Close
  <2> QED BY <1>8, <2>1, <2>2, RegistryStep DEF Close
<1>9. ASSUME NEW w \in Window, Reload(w) PROVE AnswersInv'
  <2>1. RegistryTypes'
    BY <1>1, <1>5, <1>9 DEF Reload, Ask, RegistryTypes
  <2>2. made' \in [edits : 0..MaxEdits, requests : 0..MaxRequests, fails : 0..MaxFails]
    BY <1>2, <1>9, BoundsAreNat DEF Reload
  <2> QED BY <1>9, <2>1, <2>2, RegistryStep DEF Reload
<1>10. CASE Quit
  <2>1. <<>> \in Seq(Primary) /\ Live \subseteq Window
    BY DEF Live
  <2>2. RegistryTypes' /\ made' = made
    BY <1>1, <1>10, <2>1 DEF Quit, RegistryTypes
  <2> QED BY <1>2, <1>10, <2>2, RegistryStep DEF Quit
<1>11. ASSUME NEW v \in Window, CloseNext(v)
       PROVE  AnswersInv'
  <2>1. RegistryTypes' /\ made' = made
    BY <1>1, <1>5, <1>11 DEF CloseNext, Ask, RegistryTypes
  <2> QED BY <1>2, <1>11, <2>1, RegistryStep DEF CloseNext
<1>12. CASE Cleanup
  <2>1. RegistryTypes' /\ made' = made
    BY <1>1, <1>12 DEF Cleanup, barriers, RegistryTypes
  <2> QED BY <1>2, <1>12, <2>1, RegistryStep DEF Cleanup
<1>13. CASE CleanupFails
  <2>1. RegistryTypes' /\ made' = made
    BY <1>1, <1>13 DEF CleanupFails, barriers, RegistryTypes
  <2> QED BY <1>2, <1>13, <2>1, RegistryStep DEF CleanupFails
<1>14. CASE Resume
  <2>1. RegistryTypes' /\ made' = made
    BY <1>1, <1>5, <1>14 DEF Resume, RegistryTypes
  <2> QED BY <1>2, <1>14, <2>1, RegistryStep DEF Resume
<1>15. CASE Exit
  <2>1. RegistryTypes' /\ made' = made
    BY <1>1, <1>15 DEF Exit, barriers, RegistryTypes
  <2> QED BY <1>2, <1>15, <2>1, RegistryStep DEF Exit
<1> QED BY <1>6, <1>7, <1>8, <1>9, <1>10, <1>11, <1>12, <1>13, <1>14, <1>15 DEF User, Quits

LEMMA ClosedAnswers ==
  ASSUME AnswersInv, NEW w \in Window, Closed(w)
  PROVE  AnswersInv'
<1>1. SaveTypes /\ RegistryTypes /\ BoundTypes
  BY TypesSplit DEF AnswersInv
<1>2. focused' \in Seq(Primary) /\ <<>> \in Seq(Reason)
  <2>1. focused \in Seq(Primary) /\ focused' = Without(focused, w)
    BY <1>1 DEF Closed, RegistryTypes
  <2> QED BY <2>1, WithoutType
<1>3. RegistryTypes'
  BY <1>1, <1>2 DEF Closed, RegistryTypes
<1>4. SaveTypes' /\ BoundTypes'
  BY <1>1 DEF Closed, saves, SaveTypes, BoundTypes
<1>5. PagesSound' /\ LaneFits' /\ CleanIsSaved' /\ missed' = {}
  BY DEF Closed, saves, AnswersInv, PagesSound, LaneFits, LaneFitsPages, CleanIsSaved
<1> QED BY <1>3, <1>4, <1>5, TypesSplitNext DEF AnswersInv

\* What the challenges need.
LEMMA BecomesChallenges ==
  ASSUME SaveTypes, ChallengesInv, NEW w \in Window, page[w].up, NEW p \in Page,
         KeepsAsks(page[w], p), NEW rest, NEW fine, Becomes(w, p, rest, fine),
         UNCHANGED <<window, requests>>
  PROVE  ChallengesInv'
<1>1. page'[w] = p /\ \A v \in Window : v # w => page'[v] = page[v]
  BY DEF Becomes, SaveTypes
<1>2. page[w].asks \in Seq(Asked) /\ page[w] \in Page /\ window[w] = "open"
  BY DEF SaveTypes, Page, ChallengesInv
<1>3. InTime(w, p) => out[w] # "no"
  <2> SUFFICES ASSUME InTime(w, p) PROVE out[w] # "no"
    OBVIOUS
  <2>1. page[w].asks # <<>>
    BY <1>2 DEF InTime, Answers, KeepsAsks
  <2>2. Head(page[w].asks) = page[w].asks[1] /\ 1 \in 1..Len(page[w].asks)
    BY <1>2, <2>1, TailFacts
  <2> QED BY <2>2 DEF InTime, ChallengesInv
<1>4. \A v \in Window : (out'[v] = "no" <=> out[v] = "no")
  BY <1>3 DEF Becomes, SaveTypes
<1>5. \A i \in 1..Len(p.asks) : p.asks[i].live => out[w] # "no"
  <2>1. CASE p.asks = page[w].asks
    BY <2>1 DEF ChallengesInv
  <2>2. CASE page[w].asks # <<>> /\ p.asks = Tail(page[w].asks)
    <3>1. \A i \in 1..Len(p.asks) : p.asks[i] = page[w].asks[i + 1] /\ i + 1 \in 1..Len(page[w].asks)
      BY <1>2, <2>2, TailFacts
    <3> QED BY <3>1 DEF ChallengesInv
  <2> QED BY <2>1, <2>2 DEF KeepsAsks
<1> QED BY <1>1, <1>2, <1>4, <1>5 DEF ChallengesInv

LEMMA ChallengesRegistry ==
  ASSUME SaveTypes, RegistryTypes, ChallengesInv, UNCHANGED <<out, page>>,
         \A w \in Window : requests[w] # <<>> => requests'[w] # <<>>,
         \A w \in Window : window[w] = "open" => window'[w] = "open"
  PROVE  ChallengesInv'
BY DEF ChallengesInv

LEMMA ChallengesStep ==
  ASSUME AnswersInv, ChallengesInv, [ShutdownNext]_shutdownVars
  PROVE  ChallengesInv'
<1>1. SaveTypes /\ RegistryTypes
  BY TypesSplit DEF AnswersInv
<1>2. \A w \in Window : page[w] \in Page /\ PageSound(page[w])
  BY <1>1 DEF SaveTypes, AnswersInv, PagesSound
<1>3. ASSUME NEW w \in Window, Edit(w) PROVE ChallengesInv'
  <2> DEFINE c == made.edits + 1
             p == [page[w] EXCEPT !.canvas = c, !.gen = @ + 1, !.timer = c]
  <2>1. /\ page[w].up /\ Becomes(w, p, lane, TRUE) /\ window' = window /\ requests' = requests
        /\ made.edits < MaxEdits
    BY <1>3 DEF Edit, main, barriers
  <2>2. c \in Canvas
    BY <2>1, BoundsAreNat, TypesSplit DEF AnswersInv, BoundTypes, Canvas
  <2>3. GoesOn(page[w], p)
    BY <1>2, <2>1, <2>2, EditPage
  <2> HIDE DEF p
  <2> QED BY <1>1, <2>1, <2>3, BecomesChallenges DEF GoesOn
<1>4. ASSUME NEW w \in Window, TimerFires(w) PROVE ChallengesInv'
  <2> DEFINE p == Enqueue([page[w] EXCEPT !.timer = -1], page[w].gen, page[w].timer, FALSE)
  <2>1. /\ page[w].up /\ page[w].timer # -1 /\ Becomes(w, p, lane, TRUE)
        /\ window' = window /\ requests' = requests
    BY <1>4 DEF TimerFires, main, barriers
  <2>2. GoesOn(page[w], p)
    BY <1>2, <2>1, TimerPage
  <2> HIDE DEF p
  <2> QED BY <1>1, <2>1, <2>2, BecomesChallenges DEF GoesOn
<1>5. ASSUME NEW w \in Window, TaskBegins(w) PROVE ChallengesInv'
  <2> DEFINE p == Task(w, page[w])
  <2>1. /\ page[w].up /\ page[w].asks # <<>> /\ page[w].left = 0 /\ Becomes(w, p, lane, TRUE)
        /\ window' = window /\ requests' = requests
    BY <1>5 DEF TaskBegins, main, barriers
  <2>2. GoesOn(page[w], p)
    BY <1>2, <2>1, TaskPage
  <2> HIDE DEF p
  <2> QED BY <1>1, <2>1, <2>2, BecomesChallenges DEF GoesOn
<1>6. ASSUME NEW w \in Window, Load(w) PROVE ChallengesInv'
  <2>1. /\ window[w] = "open" /\ page' = [page EXCEPT ![w] = Loaded] /\ out' = out
        /\ window' = window /\ requests' = requests
    BY <1>6 DEF Load, main, barriers
  <2>2. page'[w] = Loaded /\ \A v \in Window : v # w => page'[v] = page[v]
    BY <1>1, <2>1 DEF SaveTypes
  <2>3. Loaded.asks = <<>> /\ Len(<<>>) = 0
    BY DEF Loaded, NoPage
  <2> QED BY <2>1, <2>2, <2>3 DEF ChallengesInv
<1>7. ASSUME NEW ok \in BOOLEAN, Save(ok) PROVE ChallengesInv'
  <2> DEFINE s == lane[1]
             w == s.by
  <2>1. lane \in Seq(LaneSave) /\ lane # <<>> /\ Head(lane) = s /\ s \in LaneSave /\ 1 \in 1..Len(lane)
    BY <1>1, <1>7, TailFacts DEF SaveTypes, Save
  <2>2. w \in Window
    BY <2>1 DEF LaneSave
  <2>3. window' = window /\ requests' = requests
    BY <1>7 DEF Save, main, barriers
  <2>4. CASE s.lost
    <3>1. page' = page /\ out' = out
      BY <1>7, <2>1, <2>4 DEF Save
    <3> QED BY <2>3, <3>1 DEF ChallengesInv
  <2>5. CASE ~s.lost
    <3> DEFINE p == page[w]
               q == WriteOver(p, ok)
    <3>1. Becomes(w, q, Tail(lane), ~Reports(p, ok))
      BY <1>7, <2>1, <2>5 DEF Save
    <3>2. p.tail # <<>> /\ p.up
      <4>1. p.tail # <<>>
        BY <2>1, <2>5 DEF AnswersInv, LaneFits, LaneFitsPages, Fits
      <4>2. NoPage.tail = <<>>
        BY DEF NoPage
      <4> HIDE DEF w
      <4> QED BY <1>2, <2>2, <4>1, <4>2 DEF PageSound
    <3> HIDE DEF w
    <3>3. q \in Page /\ KeepsAsks(p, q)
      BY <1>2, <2>2, <3>2, WriteOverPage
    <3> HIDE DEF q
    <3> QED BY <1>1, <2>2, <2>3, <3>1, <3>2, <3>3, BecomesChallenges
  <2> QED BY <2>4, <2>5
<1>8. ASSUME NEW w \in Window, Challenge(w) PROVE ChallengesInv'
  <2>1. /\ requests[w] # <<>> /\ out' = [out EXCEPT ![w] = "sent"]
        /\ window' = window /\ requests' = requests
        /\ \A v \in Window : v # w => page'[v] = page[v]
        /\ page'[w].up = page[w].up
    BY <1>1, <1>8 DEF Challenge, main, barriers, SaveTypes, Page
  <2>2. out'[w] = "sent" /\ \A v \in Window : v # w => out'[v] = out[v]
    BY <1>1, <2>1 DEF SaveTypes
  <2> QED BY <2>1, <2>2 DEF ChallengesInv
<1>9. ASSUME NEW w \in Window, ChallengeOver(w) PROVE ChallengesInv'
  <2> DEFINE gone == Closes(w) \/ (Head(requests[w]) = "reload" /\ window[w] = "open")
  <2>1. /\ out' = [out EXCEPT ![w] = "no"]
        /\ window' = IF Closes(w) THEN [window EXCEPT ![w] = "closing"] ELSE window
        /\ \A v \in Window : v # w => requests'[v] = requests[v]
        /\ IF gone THEN PageGone(w) ELSE page' = [page EXCEPT ![w] = Expired(page[w])]
    BY <1>1, <1>9 DEF ChallengeOver, RegistryTypes
  <2>2. /\ \A v \in Window : v # w => out'[v] = out[v] /\ window'[v] = window[v] /\ page'[v] = page[v]
        /\ out'[w] = "no" /\ (~Closes(w) => window'[w] = window[w])
    BY <1>1, <2>1 DEF SaveTypes, RegistryTypes, PageGone
  <2>3. CASE gone
    <3>1. page'[w] = NoPage
      BY <1>1, <2>1, <2>3 DEF PageGone, SaveTypes
    <3>2. ~NoPage.up /\ Len(NoPage.asks) = 0
      BY DEF NoPage
    <3> QED BY <2>1, <2>2, <3>1, <3>2 DEF ChallengesInv
  <2>4. CASE ~gone
    <3>1. page'[w] = Expired(page[w])
      BY <1>1, <2>1, <2>4 DEF SaveTypes
    <3> DEFINE asks == [i \in 1..Len(page[w].asks) |-> [page[w].asks[i] EXCEPT !.live = FALSE]]
    <3>2. /\ Expired(page[w]) = [page[w] EXCEPT !.asks = asks] /\ asks \in Seq(Asked)
          /\ Len(asks) = Len(page[w].asks)
          /\ \A i \in 1..Len(page[w].asks) : ~asks[i].live
      BY <1>2, ExpiredAsks
    <3> HIDE DEF asks
    <3>3. page'[w].up = page[w].up /\ page'[w].asks = asks
      BY <1>2, <3>1, <3>2 DEF Page
    <3> QED BY <2>1, <2>2, <2>4, <3>2, <3>3 DEF ChallengesInv
  <2> QED BY <2>3, <2>4
<1>10. ASSUME NEW w \in Window, Closed(w) PROVE ChallengesInv'
  <2>1. /\ window[w] = "closing" /\ page' = page
        /\ \A v \in Window : v # w =>
             out'[v] = out[v] /\ window'[v] = window[v] /\ requests'[v] = requests[v]
        /\ out'[w] = "no" /\ window'[w] = "closed"
    BY <1>1, <1>10 DEF Closed, saves, SaveTypes, RegistryTypes
  <2>2. page[w] = NoPage
    BY <1>2, <2>1 DEF ChallengesInv, PageSound
  <2>3. ~NoPage.up /\ Len(NoPage.asks) = 0
    BY DEF NoPage
  <2> QED BY <2>1, <2>2, <2>3 DEF ChallengesInv
<1>11. \A s \in Seq(Reason), r \in Reason : Append(s, r) # <<>>
  BY AppendFacts
<1>12. \A w \in Window : requests[w] \in Seq(Reason)
  BY <1>1 DEF RegistryTypes
<1>13. ASSUME NEW w \in Window, User(w) PROVE ChallengesInv'
  <2>1. UNCHANGED <<out, page>>
    BY <1>13 DEF User, Open, Focus, Close, Reload, saves
  <2>2. \A v \in Window : requests[v] # <<>> => requests'[v] # <<>>
    BY <1>1, <1>11, <1>12, <1>13 DEF User, Open, Focus, Close, Reload, Ask, RegistryTypes, Reason
  <2>3. \A v \in Window : window[v] = "open" => window'[v] = "open"
    BY <1>1, <1>13 DEF User, Open, Focus, Close, Reload, RegistryTypes
  <2> QED BY <1>1, <2>1, <2>2, <2>3, ChallengesRegistry
<1>14. CASE Quit \/ Quits
  <2>1. UNCHANGED <<out, page, window>>
    BY <1>14 DEF Quit, Quits, CloseNext, Cleanup, CleanupFails, Resume, Exit, saves, barriers
  <2>a. "close" \in Reason /\ "quit" \in Reason
    BY DEF Reason
  <2>b. \A v \in Window : Append(requests[v], "close") # <<>> /\ Append(requests[v], "quit") # <<>>
    BY <1>11, <1>12, <2>a
  <2>2. \A v \in Window : requests[v] # <<>> => requests'[v] # <<>>
    <3>1. CASE Quit \/ Cleanup \/ CleanupFails \/ Exit
      BY <3>1 DEF Quit, Cleanup, CleanupFails, Exit, barriers
    <3>2. CASE Resume
      BY <2>b, <3>2 DEF Resume
    <3>3. ASSUME NEW w \in Window, CloseNext(w)
          PROVE  \A v \in Window : requests[v] # <<>> => requests'[v] # <<>>
      BY <1>1, <2>b, <3>3 DEF CloseNext, Ask, RegistryTypes
    <3> QED BY <1>14, <3>1, <3>2, <3>3 DEF Quits
  <2> QED BY <1>1, <2>1, <2>2, ChallengesRegistry
<1>15. CASE UNCHANGED shutdownVars
  BY <1>15 DEF ChallengesInv, shutdownVars, main, barriers, saves
<1> QED BY <1>3, <1>4, <1>5, <1>6, <1>7, <1>8, <1>9, <1>10, <1>13, <1>14, <1>15
        DEF ShutdownNext, Renderer, Barrier

BasicInv == AnswersInv /\ ChallengesInv

LEMMA BasicInit == ShutdownInit => BasicInv
<1>1. Len(<<>>) = 0
  OBVIOUS
<1>2. ShutdownInit => ChallengesInv
  <2> SUFFICES ASSUME ShutdownInit, NEW w \in Window
               PROVE  /\ out[w] = "no" /\ page[w].asks = <<>>
                      /\ window[w] # "open" => ~page[w].up
    BY <1>1 DEF ChallengesInv
  <2>1. page[w] = [NoPage EXCEPT !.up = w \notin Later]
    BY DEF ShutdownInit
  <2>2. page[w].up = (w \notin Later) /\ page[w].asks = <<>>
    BY <2>1 DEF NoPage
  <2> QED BY <2>2 DEF ShutdownInit
<1> QED BY <1>2, AnswersInit DEF BasicInv

LEMMA BasicStep ==
  ASSUME BasicInv, [ShutdownNext]_shutdownVars
  PROVE  BasicInv'
<1> USE DEF BasicInv
<1>1. ASSUME NEW w \in Window, Renderer(w) PROVE AnswersInv'
  BY <1>1, EditAnswers, TimerAnswers, TaskAnswers, LoadAnswers DEF Renderer
<1>2. ASSUME (\E w \in Window : User(w)) \/ Quit \/ Quits PROVE AnswersInv'
  BY <1>2, RegistryAnswers
<1>3. ASSUME NEW w \in Window, Barrier(w) PROVE AnswersInv'
  BY <1>3, ChallengeAnswers, ChallengeOverAnswers, ClosedAnswers DEF Barrier
<1>4. ASSUME NEW ok \in BOOLEAN, Save(ok) PROVE AnswersInv'
  BY <1>4, SaveAnswers
<1>5. ASSUME UNCHANGED shutdownVars PROVE AnswersInv'
  BY <1>5 DEF AnswersInv, ShutdownTypeOK, PagesSound, LaneFits, LaneFitsPages, CleanIsSaved,
              shutdownVars, main, barriers, saves
<1>6. AnswersInv'
  BY <1>1, <1>2, <1>3, <1>4, <1>5 DEF ShutdownNext
<1> QED BY <1>6, ChallengesStep

\* For any windows, whichever are opened and whatever fails: the canvas of a
\* page that answers without reporting a failed save has been on disk, with the
\* edits made while the flush was writing (flushNow, enqueue and waitForIdle of
\* the page's write queue, and the answer of its barrier).
THEOREM AnswersCorrect == ShutdownSpec => []AnswersAreSound
<1>1. BasicInv => AnswersAreSound
  BY DEF BasicInv, AnswersInv, AnswersAreSound, AnswerMeansSaved
<1> QED BY <1>1, BasicInit, BasicStep, PTL DEF ShutdownSpec

-----------------------------------------------------------------------------
\* Why the winner is final, as long as no window opens once a quit has begun.
AsksQuit(w) == \/ closeRequest[w] \in {"quit", "close, then quit"}
               \/ \E i \in 1..Len(requests[w]) : requests[w][i] = "quit"
Alone == winner \in Primary /\ \A v \in Window : v # winner => window[v] # "open"

\* A window is asked to quit while quitting only, the winner when it is alone;
\* what is open has still to be closed; a page works on a quit while that is
\* the window's first request.
QuitAsked ==
  \A w \in Window : AsksQuit(w) => Quitting /\ (w = winner => Alone)
OpenOrdered == Quitting => \A w \in Window : window[w] = "open" => w \in order
QuitFirst ==
  \A w \in Window : \A i \in 1..Len(page[w].asks) :
    page[w].asks[i].reason = "quit" => requests[w] # <<>> /\ requests[w][1] = "quit"
QuitInv == QuitAsked /\ OpenOrdered /\ QuitFirst

\* A set of canvases to which all belong that may still be written.
PageWrites(p, G) == p.canvas \in G /\ \A i \in 1..Len(p.tail) : p.tail[i].canvas \in G \cup {-1}
LaneWrites(l, G) == \A i \in 1..Len(l) : l[i].canvas \in G

CanvasInv ==
  /\ stored.canvas \in 0..made.edits /\ LaneWrites(lane, 0..made.edits)
  /\ \A w \in Window : PageWrites(page[w], 0..made.edits)

\* The attempt of a winner that quits is the last save of the lane.
QuitsNow(p) ==
  p.tail # <<>> /\ p.tail[1].awaited /\ p.left > 0 /\ p.asks # <<>> /\ p.asks[1].reason = "quit"
LastInLane ==
  winner \in Primary /\ QuitsNow(page[winner]) =>
    lane # <<>> /\ lane[Len(lane)].by = winner /\ ~lane[Len(lane)].lost

\* Once the winner has answered, nothing older can be written, nor anything
\* by another window.
Newer == {c \in Canvas : c >= last.canvas}
LastInv ==
  last # NoCanvas =>
    /\ Quitting /\ Alone
    /\ stored.by = winner /\ stored.canvas \in Newer
    /\ LaneWrites(lane, Newer) /\ \A i \in 1..Len(lane) : lane[i].by = winner
    /\ page[winner].up => PageWrites(page[winner], Newer)

FinalInv == QuitInv /\ CanvasInv /\ LastInLane /\ LastInv

LEMMA BasicFacts ==
  ASSUME BasicInv
  PROVE  /\ SaveTypes /\ RegistryTypes /\ BoundTypes
         /\ \A w \in Window : page[w] \in Page /\ PageSound(page[w])
         /\ \A w \in Window : page[w].up => window[w] = "open"
         /\ \A w \in Window : requests[w] \in Seq(Reason) /\ Len(requests[w]) \in Nat
         /\ made.edits \in Nat /\ 0 \notin Window
<1>1. SaveTypes /\ RegistryTypes /\ BoundTypes
  BY TypesSplit DEF BasicInv, AnswersInv
<1>2. \A w \in Window : page[w] \in Page /\ PageSound(page[w])
  BY <1>1 DEF SaveTypes, BasicInv, AnswersInv, PagesSound
<1>3. \A w \in Window : requests[w] \in Seq(Reason)
  BY <1>1 DEF RegistryTypes
<1>4. made.edits \in Nat
  BY <1>1, BoundsAreNat DEF BoundTypes
<1>5. 0 \notin Window
  BY WindowsAssumption DEF Window
<1> QED BY <1>1, <1>2, <1>3, <1>4, <1>5 DEF BasicInv, ChallengesInv

\* The winner's page works on a quit only when the winner is alone.
LEMMA QuitsAlone ==
  ASSUME BasicInv, QuitInv, NEW w \in Window, NEW i \in 1..Len(page[w].asks),
         page[w].asks[i].reason = "quit"
  PROVE  Quitting /\ (w = winner => Alone)
<1>1. requests[w] # <<>> /\ requests[w][1] = "quit" /\ requests[w] \in Seq(Reason)
  BY BasicFacts DEF QuitInv, QuitFirst
<1>2. 1 \in 1..Len(requests[w])
  BY <1>1, TailFacts
<1> QED BY <1>1, <1>2 DEF QuitInv, QuitAsked, AsksQuit

LEMMA QuitsNowAlone ==
  ASSUME BasicInv, QuitInv, winner \in Primary, QuitsNow(page[winner])
  PROVE  Alone
<1>1. winner \in Window /\ page[winner].asks \in Seq(Asked)
  BY BasicFacts DEF Window, Page
<1>2. 1 \in 1..Len(page[winner].asks)
  BY <1>1, TailFacts DEF QuitsNow
<1> QED BY <1>1, <1>2, QuitsAlone DEF QuitsNow

LEMMA WritesKept ==
  ASSUME NEW p, NEW q, NEW G, PageWrites(p, G), KeepsWrites(p, q), q.canvas \in G
  PROVE  PageWrites(q, G)
BY DEF PageWrites, KeepsWrites

\* What a page that becomes p adds to the lane.
AllBy(l, w) == \A i \in 1..Len(l) : l[i].by = w

LaneEnd(w, p, rest) ==
  IF p.tail # <<>> /\ (page[w].tail = <<>> \/ rest # lane)
  THEN lane' # <<>> /\ lane'[Len(lane')].by = w /\ ~lane'[Len(lane')].lost
  ELSE lane' = rest

LEMMA LaneAdded ==
  ASSUME SaveTypes, NEW w \in Window, NEW p \in Page, PageSound(p), NEW rest, NEW fine,
         Becomes(w, p, rest, fine), rest = lane \/ (lane # <<>> /\ rest = Tail(lane))
  PROVE  (AllBy(rest, w) => AllBy(lane', w)) /\ LaneEnd(w, p, rest)
<1> DEFINE s == [by |-> w, canvas |-> Captured(p), lost |-> FALSE]
<1>1. rest \in Seq(LaneSave)
  BY TailFacts DEF SaveTypes
<1>2. CASE p.tail # <<>> /\ (page[w].tail = <<>> \/ rest # lane)
  <2>1. lane' = Append(rest, s)
    BY <1>2 DEF Becomes
  <2>2. /\ s \in LaneSave /\ s.by = w /\ ~s.lost
        /\ s.canvas = IF p.tail[1].canvas = -1 THEN p.canvas ELSE p.tail[1].canvas
    BY <1>2, NewSave
  <2> HIDE DEF s
  <2>4. /\ Len(lane') = Len(rest) + 1 /\ Len(rest) \in Nat /\ lane' # <<>>
        /\ \A i \in 1..Len(rest) : lane'[i] = rest[i]
        /\ lane'[Len(rest) + 1] = s
    BY <1>1, <2>1, <2>2, AppendFacts
  <2>5. \A i \in 1..Len(lane') : i \in 1..Len(rest) \/ lane'[i] = s
    BY <2>4
  <2> QED BY <1>2, <2>2, <2>4, <2>5 DEF AllBy, LaneEnd
<1>3. CASE ~(p.tail # <<>> /\ (page[w].tail = <<>> \/ rest # lane))
  BY <1>1, <1>3 DEF Becomes, AllBy, LaneEnd
<1> QED BY <1>2, <1>3

\* The saves of the lane of a page that becomes p: they were there before, or
\* hold a canvas of p.
LaneFrom(rest, p) ==
  \A i \in 1..Len(lane') : \/ i \in 1..Len(rest) /\ lane'[i] = rest[i]
                           \/ lane'[i].canvas = p.canvas
                           \/ lane'[i].canvas # -1 /\ \E j \in 1..Len(p.tail) :
                                                       lane'[i].canvas = p.tail[j].canvas

LEMMA LaneEntries ==
  ASSUME SaveTypes, NEW w \in Window, NEW p \in Page, PageSound(p), NEW rest, NEW fine,
         Becomes(w, p, rest, fine), rest = lane \/ (lane # <<>> /\ rest = Tail(lane))
  PROVE  LaneFrom(rest, p)
<1> DEFINE s == [by |-> w, canvas |-> Captured(p), lost |-> FALSE]
<1>1. rest \in Seq(LaneSave)
  BY TailFacts DEF SaveTypes
<1>2. CASE p.tail # <<>> /\ (page[w].tail = <<>> \/ rest # lane)
  <2>1. lane' = Append(rest, s)
    BY <1>2 DEF Becomes
  <2>2. /\ s \in LaneSave /\ s.by = w /\ ~s.lost
        /\ s.canvas = IF p.tail[1].canvas = -1 THEN p.canvas ELSE p.tail[1].canvas
    BY <1>2, NewSave
  <2>3. 1 \in 1..Len(p.tail)
    BY <1>2, TailFacts DEF Page
  <2> HIDE DEF s
  <2>4. /\ Len(lane') = Len(rest) + 1 /\ Len(rest) \in Nat /\ lane' # <<>>
        /\ \A i \in 1..Len(rest) : lane'[i] = rest[i]
        /\ lane'[Len(rest) + 1] = s
    BY <1>1, <2>1, <2>2, AppendFacts
  <2>5. \A i \in 1..Len(lane') : i \in 1..Len(rest) \/ lane'[i] = s
    BY <2>4
  <2> QED BY <2>2, <2>3, <2>4, <2>5 DEF LaneFrom
<1>3. CASE ~(p.tail # <<>> /\ (page[w].tail = <<>> \/ rest # lane))
  BY <1>1, <1>3, TailFacts DEF Becomes, LaneFrom
<1> QED BY <1>2, <1>3

LEMMA LaneWritten ==
  ASSUME SaveTypes, NEW w \in Window, NEW p \in Page, PageSound(p), NEW rest, NEW fine,
         Becomes(w, p, rest, fine), rest = lane \/ (lane # <<>> /\ rest = Tail(lane)),
         NEW G, PageWrites(p, G), LaneWrites(rest, G)
  PROVE  LaneWrites(lane', G)
<1>1. LaneFrom(rest, p)
  BY LaneEntries
<1> QED BY ONLY <1>1, PageWrites(p, G), LaneWrites(rest, G) DEF PageWrites, LaneWrites, LaneFrom

-----------------------------------------------------------------------------
\* Who is asked to quit.
LEMMA AloneKept ==
  ASSUME Quitting, Alone, winner' = winner,
         \A v \in Window : window'[v] = "open" => window[v] = "open"
  PROVE  Alone'
BY DEF Alone

\* Nobody is newly asked to quit.
LEMMA AskedKept ==
  ASSUME QuitAsked, Quitting => Quitting', winner' = winner,
         \A v \in Window : Quitting /\ window'[v] = "open" => window[v] = "open",
         \A v \in Window : AsksQuit(v)' => AsksQuit(v)
  PROVE  QuitAsked'
<1> SUFFICES ASSUME NEW w \in Window, AsksQuit(w)'
             PROVE  Quitting' /\ (w = winner' => Alone')
  BY DEF QuitAsked
<1>1. Quitting /\ (w = winner => Alone)
  BY DEF QuitAsked
<1> QED BY <1>1, AloneKept

LEMMA FirstKept ==
  ASSUME NEW w \in Window, BasicInv, QuitFirst, NEW p, KeepsAsks(page[w], p),
         page' = [page EXCEPT ![w] = p], requests' = requests
  PROVE  QuitFirst'
<1>1. page'[w] = p /\ \A v \in Window : v # w => page'[v] = page[v]
  BY BasicFacts DEF SaveTypes
<1>2. page[w].asks \in Seq(Asked)
  BY BasicFacts DEF Page
<1>3. ASSUME NEW i \in 1..Len(p.asks), p.asks[i].reason = "quit"
      PROVE  requests[w] # <<>> /\ requests[w][1] = "quit"
  <2>1. CASE p.asks = page[w].asks
    BY <1>3, <2>1 DEF QuitFirst
  <2>2. CASE page[w].asks # <<>> /\ p.asks = Tail(page[w].asks)
    <3>1. i + 1 \in 1..Len(page[w].asks) /\ p.asks[i] = page[w].asks[i + 1]
      BY <1>2, <2>2, TailFacts
    <3> QED BY <1>3, <3>1 DEF QuitFirst
  <2> QED BY <2>1, <2>2 DEF KeepsAsks
<1> QED BY <1>1, <1>3 DEF QuitFirst

\* Appending a request changes the first one only when there is none, and none
\* that a page works on.
LEMMA Requested ==
  ASSUME NEW s \in Seq(Reason), NEW r \in Reason
  PROVE  /\ Append(s, r) # <<>>
         /\ s # <<>> => Append(s, r)[1] = s[1]
         /\ \A i \in 1..Len(Append(s, r)) :
              Append(s, r)[i] = r \/ \E j \in 1..Len(s) : Append(s, r)[i] = s[j]
<1>1. /\ Append(s, r) # <<>> /\ Len(Append(s, r)) = Len(s) + 1 /\ Len(s) \in Nat
      /\ \A i \in 1..Len(s) : Append(s, r)[i] = s[i]
      /\ Append(s, r)[Len(s) + 1] = r
  BY AppendFacts
<1>2. s # <<>> => Len(s) >= 1
  BY TailFacts
<1>3. \A i \in 1..Len(Append(s, r)) : i \in 1..Len(s) \/ i = Len(s) + 1
  BY <1>1
<1> QED BY <1>1, <1>2, <1>3

\* Steps that leave the pages alone and only add requests other than to quit.
LEMMA QuitRegistry ==
  ASSUME BasicInv, QuitInv, page' = page, winner' = winner, order' = order,
         Quitting' <=> Quitting,
         \A v \in Window : Quitting /\ window'[v] = "open" => window[v] = "open",
         \A v \in Window : closeRequest'[v] \in {closeRequest[v], "close"},
         \A v \in Window : \/ requests'[v] = requests[v]
                           \/ \E r \in Reason \ {"quit"} : requests'[v] = Append(requests[v], r)
  PROVE  QuitInv'
<1>1. \A v \in Window : requests[v] \in Seq(Reason)
  BY BasicFacts
<1>2. \A v \in Window : AsksQuit(v)' => AsksQuit(v)
  <2> SUFFICES ASSUME NEW v \in Window, AsksQuit(v)' PROVE AsksQuit(v)
    OBVIOUS
  <2>1. CASE closeRequest'[v] \in {"quit", "close, then quit"}
    BY <2>1 DEF AsksQuit
  <2>2. CASE \E i \in 1..Len(requests'[v]) : requests'[v][i] = "quit"
    <3>1. PICK i \in 1..Len(requests'[v]) : requests'[v][i] = "quit"
      BY <2>2
    <3>2. CASE requests'[v] = requests[v]
      BY <3>1, <3>2 DEF AsksQuit
    <3>3. ASSUME NEW r \in Reason \ {"quit"}, requests'[v] = Append(requests[v], r)
          PROVE  AsksQuit(v)
      <4>1. requests[v] \in Seq(Reason) /\ r \in Reason /\ r # "quit"
        BY <1>1
      <4>2. \A k \in 1..Len(requests'[v]) :
              requests'[v][k] = r \/ \E j \in 1..Len(requests[v]) : requests'[v][k] = requests[v][j]
        BY <3>3, <4>1, Requested
      <4> QED BY <3>1, <4>1, <4>2 DEF AsksQuit
    <3> QED BY <3>2, <3>3
  <2> QED BY <2>1, <2>2 DEF AsksQuit
<1>3. QuitAsked'
  BY <1>2, AskedKept DEF QuitInv
<1>4. OpenOrdered'
  BY DEF QuitInv, OpenOrdered
<1>5. QuitFirst'
  <2>1. \A v \in Window : requests[v] # <<>> => requests'[v] # <<>> /\ requests'[v][1] = requests[v][1]
    BY <1>1, Requested
  <2> QED BY <2>1 DEF QuitInv, QuitFirst
<1> QED BY <1>3, <1>4, <1>5 DEF QuitInv

LEMMA BecomesQuit ==
  ASSUME BasicInv, QuitInv, NEW w \in Window, NEW p, KeepsAsks(page[w], p),
         page' = [page EXCEPT ![w] = p], UNCHANGED main
  PROVE  QuitInv'
<1>1. /\ window' = window /\ requests' = requests /\ closeRequest' = closeRequest
      /\ quit' = quit /\ order' = order /\ winner' = winner
  BY DEF main, barriers
<1>2. QuitAsked' /\ OpenOrdered'
  BY <1>1 DEF QuitInv, QuitAsked, OpenOrdered, AsksQuit, Alone, Quitting
<1> QED BY <1>1, <1>2, FirstKept DEF QuitInv

LEMMA ChallengeQuit ==
  ASSUME BasicInv, QuitInv, NEW w \in Window, Challenge(w)
  PROVE  QuitInv'
<1> DEFINE e == [reason |-> Head(requests[w]), live |-> TRUE]
           asks == Append(page[w].asks, e)
           p == [page[w] EXCEPT !.asks = asks]
<1>1. /\ window' = window /\ requests' = requests /\ closeRequest' = closeRequest
      /\ quit' = quit /\ order' = order /\ winner' = winner
      /\ requests[w] # <<>>
      /\ page' = IF page[w].up THEN [page EXCEPT ![w].asks = asks] ELSE page
  BY DEF Challenge, main, barriers
<1>2. QuitAsked' /\ OpenOrdered'
  BY <1>1 DEF QuitInv, QuitAsked, OpenOrdered, AsksQuit, Alone, Quitting
<1>3. requests[w] \in Seq(Reason) /\ page[w] \in Page
  BY BasicFacts
<1>4. Head(requests[w]) = requests[w][1] /\ requests[w][1] \in Reason
  BY <1>1, <1>3, TailFacts
<1>5. e \in Asked /\ page[w].asks \in Seq(Asked) /\ e.reason = requests[w][1]
  <2>1. e.reason = requests[w][1]
    BY <1>4
  <2> QED BY <1>3, <1>4, <2>1 DEF Asked, Page
<1>6. QuitFirst'
  <2>1. CASE ~page[w].up
    BY <1>1, <2>1 DEF QuitInv, QuitFirst
  <2>2. CASE page[w].up
    <3> HIDE DEF e
    <3>1. /\ Len(asks) = Len(page[w].asks) + 1 /\ Len(page[w].asks) \in Nat
          /\ \A i \in 1..Len(page[w].asks) : asks[i] = page[w].asks[i]
          /\ asks[Len(page[w].asks) + 1] = e
      BY <1>5, AppendFacts
    <3>2. \A i \in 1..Len(asks) : i \in 1..Len(page[w].asks) \/ asks[i] = e
      BY <3>1
    <3> HIDE DEF asks
    <3>3. page'[w].asks = asks /\ \A v \in Window : v # w => page'[v] = page[v]
      BY <1>1, <1>3, <2>2, BasicFacts DEF Page, SaveTypes
    <3> QED BY <1>1, <1>5, <3>1, <3>2, <3>3 DEF QuitInv, QuitFirst
  <2> QED BY <2>1, <2>2
<1> QED BY <1>2, <1>6 DEF QuitInv

LEMMA ChallengeOverQuit ==
  ASSUME BasicInv, QuitInv, NEW w \in Window, ChallengeOver(w)
  PROVE  QuitInv'
<1> DEFINE reason == Head(requests[w])
           rest == Tail(requests[w])
           queued == reason = "close" /\ closeRequest[w] = "close, then quit"
           gone == Closes(w) \/ (reason = "reload" /\ window[w] = "open")
<1>1. /\ Settled(w)
      /\ requests' = [requests EXCEPT ![w] = IF queued THEN Append(rest, "quit") ELSE rest]
      /\ closeRequest' = IF reason # "close" THEN closeRequest
                         ELSE [closeRequest EXCEPT ![w] = IF queued THEN "quit" ELSE "none"]
      /\ window' = IF Closes(w) THEN [window EXCEPT ![w] = "closing"] ELSE window
      /\ order' = IF reason = "quit" THEN order \ {w} ELSE order
      /\ IF gone THEN page' = [page EXCEPT ![w] = NoPage] ELSE page' = [page EXCEPT ![w] = Expired(page[w])]
      /\ quit' = quit /\ winner' = winner
  BY DEF ChallengeOver, PageGone
<1>2. /\ SaveTypes /\ RegistryTypes /\ requests[w] \in Seq(Reason)
      /\ requests[w] # <<>> /\ page[w] \in Page
  BY <1>1, BasicFacts DEF Settled, BasicInv, ChallengesInv
<1>3. /\ rest \in Seq(Reason) /\ reason = requests[w][1]
      /\ \A i \in 1..Len(rest) : i + 1 \in 1..Len(requests[w]) /\ rest[i] = requests[w][i + 1]
  BY <1>2, TailFacts
<1> HIDE DEF reason, rest, queued
<1>4. /\ \A v \in Window : v # w => /\ requests'[v] = requests[v] /\ window'[v] = window[v]
                                    /\ page'[v] = page[v] /\ closeRequest'[v] = closeRequest[v]
      /\ requests'[w] = IF queued THEN Append(rest, "quit") ELSE rest
      /\ closeRequest'[w] = IF reason # "close" THEN closeRequest[w]
                            ELSE IF queued THEN "quit" ELSE "none"
      /\ window'[w] = IF Closes(w) THEN "closing" ELSE window[w]
      /\ page'[w] = IF gone THEN NoPage ELSE Expired(page[w])
  BY <1>1, <1>2 DEF SaveTypes, RegistryTypes
<1>5. queued => AsksQuit(w)
  BY DEF queued, AsksQuit
<1>6. \A v \in Window : AsksQuit(v)' => AsksQuit(v)
  <2> SUFFICES ASSUME AsksQuit(w)', ~queued PROVE AsksQuit(w)
    BY <1>4, <1>5 DEF AsksQuit
  <2>1. CASE closeRequest'[w] \in {"quit", "close, then quit"}
    BY <1>4, <2>1 DEF AsksQuit
  <2>2. CASE \E i \in 1..Len(rest) : rest[i] = "quit"
    BY <1>3, <2>2 DEF AsksQuit
  <2> QED BY <1>4, <2>1, <2>2 DEF AsksQuit
<1>7. \A v \in Window : window'[v] = "open" => window[v] = "open"
  BY <1>4
<1>8. QuitAsked'
  BY <1>1, <1>6, <1>7, AskedKept DEF QuitInv, Quitting
<1>9. OpenOrdered'
  <2>1. reason = "quit" => Closes(w)
    BY DEF Closes, reason
  <2> QED BY <1>1, <1>4, <1>7, <2>1 DEF QuitInv, OpenOrdered, Quitting
<1>10. QuitFirst'
  <2>1. \A i \in 1..Len(page'[w].asks) : page'[w].asks[i].reason # "quit"
    <3>1. CASE gone
      <4>1. Len(NoPage.asks) = 0
        BY DEF NoPage
      <4> QED BY <1>4, <3>1, <4>1
    <3>2. CASE ~gone
      <4> DEFINE asks == [i \in 1..Len(page[w].asks) |-> [page[w].asks[i] EXCEPT !.live = FALSE]]
      <4>1. /\ Expired(page[w]) = [page[w] EXCEPT !.asks = asks]
            /\ Len(asks) = Len(page[w].asks)
            /\ \A i \in 1..Len(page[w].asks) : asks[i].reason = page[w].asks[i].reason
        BY <1>2, ExpiredAsks
      <4> HIDE DEF asks
      <4>2. page'[w].asks = asks
        BY <1>2, <1>4, <3>2, <4>1 DEF Page
      <4>3. requests[w][1] # "quit"
        BY <1>3, <3>2 DEF Closes, reason
      <4> QED BY <4>1, <4>2, <4>3 DEF QuitInv, QuitFirst
    <3> QED BY <3>1, <3>2
  <2> QED BY <1>4, <2>1 DEF QuitInv, QuitFirst
<1> QED BY <1>8, <1>9, <1>10 DEF QuitInv

LEMMA ClosedQuit ==
  ASSUME BasicInv, QuitInv, NEW w \in Window, Closed(w)
  PROVE  QuitInv'
<1>1. /\ window[w] = "closing" /\ page' = page /\ quit' = quit /\ winner' = winner
      /\ window' = [window EXCEPT ![w] = "closed"] /\ requests' = [requests EXCEPT ![w] = <<>>]
      /\ closeRequest' = [closeRequest EXCEPT ![w] = "none"] /\ order' = order \ {w}
  BY DEF Closed, saves
<1>2. SaveTypes /\ RegistryTypes /\ PageSound(page[w]) /\ ~page[w].up
  BY <1>1, BasicFacts
<1>3. /\ \A v \in Window : v # w => /\ requests'[v] = requests[v] /\ window'[v] = window[v]
                                    /\ closeRequest'[v] = closeRequest[v]
      /\ requests'[w] = <<>> /\ closeRequest'[w] = "none" /\ window'[w] = "closed"
  BY <1>1, <1>2 DEF RegistryTypes
<1>4. Len(<<>>) = 0
  OBVIOUS
<1>5. \A v \in Window : AsksQuit(v)' => AsksQuit(v)
  <2>1. Len(requests'[w]) = 0
    BY <1>3, <1>4
  <2>2. ~AsksQuit(w)'
    BY <1>3, <2>1 DEF AsksQuit
  <2>3. \A v \in Window : v # w /\ AsksQuit(v)' => AsksQuit(v)
    BY <1>3 DEF AsksQuit
  <2> QED BY <2>2, <2>3
<1>6. QuitAsked'
  BY <1>1, <1>3, <1>5, AskedKept DEF QuitInv, Quitting
<1>7. OpenOrdered'
  BY <1>1, <1>3 DEF QuitInv, OpenOrdered, Quitting
<1>8. page[w].asks = <<>>
  BY <1>2 DEF PageSound, NoPage
<1>9. QuitFirst'
  BY <1>1, <1>3, <1>4, <1>8 DEF QuitInv, QuitFirst
<1> QED BY <1>6, <1>7, <1>9 DEF QuitInv

\* Only quitting asks windows to quit, one after the other, the winner last.
LEMMA CloseNextQuit ==
  ASSUME BasicInv, QuitInv, NEW w \in Window, CloseNext(w)
  PROVE  QuitInv'
<1>1. /\ quit = "windows" /\ w \in order /\ \A v \in order \ {w} : Before(w, v)
      /\ quit' = quit /\ window' = window /\ order' = order /\ winner' = winner /\ page' = page
      /\ \A v \in Window : v # w => closeRequest'[v] = closeRequest[v] /\ requests'[v] = requests[v]
      /\ requests'[w] \in {requests[w], Append(requests[w], "quit")}
  BY BasicFacts DEF CloseNext, Ask, saves, RegistryTypes
<1>2. Quitting
  BY <1>1 DEF Quitting
<1>3. w = winner => Alone
  <2> SUFFICES ASSUME w = winner PROVE Alone
    OBVIOUS
  <2>1. winner \in Primary /\ winner \notin Auxiliary
    BY BasicFacts, WindowsAssumption DEF RegistryTypes
  <2>2. \A v \in order : v = winner
    BY <1>1, <2>1 DEF Before
  <2> QED BY <1>2, <2>1, <2>2 DEF Alone, QuitInv, OpenOrdered
<1>4. \A v \in Window : AsksQuit(v)' => AsksQuit(v) \/ v = w
  BY <1>1 DEF AsksQuit
<1>5. QuitAsked' /\ OpenOrdered'
  BY <1>1, <1>2, <1>3, <1>4 DEF QuitInv, QuitAsked, OpenOrdered, Quitting, Alone
<1>6. requests[w] # <<>> => requests'[w] # <<>> /\ requests'[w][1] = requests[w][1]
  <2>1. requests[w] \in Seq(Reason) /\ "quit" \in Reason
    BY BasicFacts DEF Reason
  <2> QED BY <1>1, <2>1, Requested
<1>7. QuitFirst'
  BY <1>1, <1>6 DEF QuitInv, QuitFirst
<1> QED BY <1>5, <1>7 DEF QuitInv

LEMMA QuitQuit ==
  ASSUME BasicInv, QuitInv, Quit
  PROVE  QuitInv'
<1>1. /\ ~Quitting /\ order' = Live /\ window' = window /\ page' = page
      /\ requests' = requests /\ closeRequest' = closeRequest
  BY DEF Quit, Quitting, saves
<1>2. \A v \in Window : ~AsksQuit(v)'
  BY <1>1 DEF QuitInv, QuitAsked, AsksQuit
<1>3. QuitAsked'
  BY <1>2 DEF QuitAsked
<1>4. OpenOrdered'
  BY <1>1 DEF OpenOrdered, Live
<1>5. QuitFirst'
  BY <1>1 DEF QuitInv, QuitFirst
<1> QED BY <1>3, <1>4, <1>5 DEF QuitInv

\* No window is opened by a step of a quit.
NoneOpens == Quitting => \A w \in Window : ~Open(w)

LEMMA QuitStep ==
  ASSUME NoneOpens, BasicInv, QuitInv, [ShutdownNext]_shutdownVars
  PROVE  QuitInv'
<1>1. ASSUME NEW w \in Window, Edit(w) PROVE QuitInv'
  <2> DEFINE p == [page[w] EXCEPT !.canvas = made.edits + 1, !.gen = @ + 1, !.timer = made.edits + 1]
  <2>1. page' = [page EXCEPT ![w] = p] /\ UNCHANGED main
    BY <1>1 DEF Edit, Becomes
  <2>2. p.asks = page[w].asks
    BY BasicFacts DEF Page
  <2> HIDE DEF p
  <2> QED BY <2>1, <2>2, BecomesQuit DEF KeepsAsks
<1>2. ASSUME NEW w \in Window, TimerFires(w) PROVE QuitInv'
  <2> DEFINE p == Enqueue([page[w] EXCEPT !.timer = -1], page[w].gen, page[w].timer, FALSE)
  <2>1. page' = [page EXCEPT ![w] = p] /\ UNCHANGED main /\ page[w].up /\ page[w].timer # -1
    BY <1>2 DEF TimerFires, Becomes
  <2>2. p.asks = page[w].asks
    BY <2>1, BasicFacts, TimerPage
  <2> HIDE DEF p
  <2> QED BY <2>1, <2>2, BecomesQuit DEF KeepsAsks
<1>3. ASSUME NEW w \in Window, TaskBegins(w) PROVE QuitInv'
  <2> DEFINE p == Task(w, page[w])
  <2>1. /\ page' = [page EXCEPT ![w] = p] /\ UNCHANGED main
        /\ page[w].up /\ page[w].asks # <<>> /\ page[w].left = 0
    BY <1>3 DEF TaskBegins, Becomes
  <2>2. KeepsAsks(page[w], p)
    BY <2>1, BasicFacts, TaskPage DEF GoesOn
  <2> HIDE DEF p
  <2> QED BY <2>1, <2>2, BecomesQuit
<1>4. ASSUME NEW w \in Window, Load(w) PROVE QuitInv'
  <2>1. page' = [page EXCEPT ![w] = Loaded] /\ UNCHANGED main /\ ~page[w].up
    BY <1>4 DEF Load
  <2>2. page[w].asks = <<>>
    BY <2>1, BasicFacts DEF PageSound, NoPage
  <2>3. Loaded.asks = <<>>
    BY DEF Loaded, NoPage
  <2> QED BY <2>1, <2>2, <2>3, BecomesQuit DEF KeepsAsks
<1>5. ASSUME NEW ok \in BOOLEAN, Save(ok) PROVE QuitInv'
  <2> DEFINE s == lane[1]
             w == s.by
             p == page[w]
             q == WriteOver(p, ok)
  <2>1. lane # <<>> /\ Head(lane) = s /\ s \in LaneSave /\ 1 \in 1..Len(lane)
    BY <1>5, BasicFacts, TailFacts DEF SaveTypes, Save
  <2>2. w \in Window
    BY <2>1 DEF LaneSave
  <2>3. UNCHANGED main
    BY <1>5 DEF Save
  <2>4. CASE s.lost
    <3>1. page' = page
      BY <1>5, <2>1, <2>4 DEF Save
    <3>2. page' = [page EXCEPT ![w] = p]
      BY <2>2, <3>1, BasicFacts DEF SaveTypes
    <3> HIDE DEF w
    <3> QED BY <2>2, <2>3, <3>2, BecomesQuit DEF KeepsAsks, p
  <2>5. CASE ~s.lost
    <3>1. page' = [page EXCEPT ![w] = q]
      BY <1>5, <2>1, <2>5 DEF Save, Becomes
    <3>2. p.tail # <<>> /\ p.up
      <4>1. p.tail # <<>>
        BY <2>1, <2>5 DEF BasicInv, AnswersInv, LaneFits, LaneFitsPages, Fits
      <4>2. NoPage.tail = <<>>
        BY DEF NoPage
      <4> HIDE DEF w
      <4> QED BY <2>2, <4>1, <4>2, BasicFacts DEF PageSound
    <3> HIDE DEF w
    <3>3. KeepsAsks(p, q)
      BY <2>2, <3>2, BasicFacts, WriteOverPage
    <3> HIDE DEF q
    <3> QED BY <2>2, <2>3, <3>1, <3>3, BecomesQuit
  <2> QED BY <2>4, <2>5
<1>6. ASSUME NEW w \in Window, User(w) PROVE QuitInv'
  <2>1. \A v \in Window : v # w =>
          closeRequest'[v] = closeRequest[v] /\ requests'[v] = requests[v] /\ window'[v] = window[v]
    BY <1>6, BasicFacts DEF User, Open, Focus, Close, Reload, Ask, RegistryTypes
  <2>2. /\ page' = page /\ winner' = winner /\ order' = order /\ quit' = quit
        /\ closeRequest'[w] \in {closeRequest[w], "close"}
        /\ \/ requests'[w] = requests[w]
           \/ requests'[w] = Append(requests[w], "close")
           \/ requests'[w] = Append(requests[w], "reload")
    BY <1>6, BasicFacts DEF User, Open, Focus, Close, Reload, Ask, RegistryTypes, saves
  <2>3. Quitting /\ window'[w] = "open" => window[w] = "open"
    BY <1>6 DEF NoneOpens, User, Focus, Close, Reload
  <2>4. {"close", "reload"} \subseteq Reason \ {"quit"}
    BY DEF Reason
  <2>5. Quitting' <=> Quitting
    BY <2>2 DEF Quitting
  <2>6. \A v \in Window : \/ requests'[v] = requests[v]
                          \/ \E r \in Reason \ {"quit"} : requests'[v] = Append(requests[v], r)
    BY <2>1, <2>2, <2>4
  <2> QED BY <2>1, <2>2, <2>3, <2>5, <2>6, QuitRegistry
<1>7. CASE Cleanup \/ CleanupFails \/ Exit \/ UNCHANGED shutdownVars
  <2>1. /\ page' = page /\ winner' = winner /\ order' = order /\ window' = window
        /\ closeRequest' = closeRequest /\ requests' = requests /\ (Quitting' <=> Quitting)
    BY <1>7 DEF Cleanup, CleanupFails, Exit, barriers, saves, shutdownVars, main, Quitting
  <2> QED BY <2>1, QuitRegistry
<1>8. CASE Resume
  <2>1. /\ page' = page /\ winner' = winner /\ order' = order /\ window' = window
        /\ \A v \in Window : closeRequest'[v] \in {closeRequest[v], "close"}
        /\ \A v \in Window : requests'[v] = requests[v] \/ requests'[v] = Append(requests[v], "close")
        /\ Quitting' <=> Quitting
    BY <1>8 DEF Resume, saves, Quitting
  <2>2. "close" \in Reason \ {"quit"}
    BY DEF Reason
  <2>3. \A v \in Window : \/ requests'[v] = requests[v]
                          \/ \E r \in Reason \ {"quit"} : requests'[v] = Append(requests[v], r)
    BY <2>1, <2>2
  <2> QED BY <2>1, <2>3, QuitRegistry
<1> QED BY <1>1, <1>2, <1>3, <1>4, <1>5, <1>6, <1>7, <1>8,
           ChallengeQuit, ChallengeOverQuit, ClosedQuit, CloseNextQuit, QuitQuit
        DEF ShutdownNext, Renderer, Barrier, Quits

-----------------------------------------------------------------------------
LEMMA SaveWritten ==
  ASSUME SaveTypes, NEW w \in Window, NEW p \in Page, PageSound(p), NEW fine,
         lane # <<>>, Becomes(w, p, Tail(lane), fine)
  PROVE  /\ \A G : PageWrites(p, G) /\ LaneWrites(Tail(lane), G) => LaneWrites(lane', G)
         /\ AllBy(Tail(lane), w) => AllBy(lane', w)
         /\ IF p.tail # <<>>
            THEN lane' # <<>> /\ lane'[Len(lane')].by = w /\ ~lane'[Len(lane')].lost
            ELSE lane' = Tail(lane)
<1> DEFINE rest == Tail(lane)
<1>1. rest # lane
  BY TailFacts DEF SaveTypes
<1>2. Becomes(w, p, rest, fine) /\ rest = Tail(lane)
  OBVIOUS
<1> HIDE DEF rest
<1>3. (AllBy(rest, w) => AllBy(lane', w)) /\ LaneEnd(w, p, rest)
  BY <1>2, LaneAdded
<1>4. \A G : PageWrites(p, G) /\ LaneWrites(rest, G) => LaneWrites(lane', G)
  BY <1>2, LaneWritten
<1> QED BY <1>1, <1>3, <1>4 DEF rest, LaneEnd

\* What is written last.
LEMMA LastFacts ==
  ASSUME BasicInv, CanvasInv, LastInv, last # NoCanvas
  PROVE  /\ Alone /\ winner \in Window /\ last.canvas \in Nat /\ last.canvas <= made.edits
         /\ \A w \in Window : page[w].up => w = winner
<1>1. Alone /\ stored.canvas \in Newer
  BY DEF LastInv
<1>2. last.canvas \in Nat
  BY BasicFacts, BoundsAreNat DEF SaveTypes, Canvas
<1>3. stored.canvas \in 0..made.edits /\ stored.canvas >= last.canvas
  BY <1>1 DEF Newer, CanvasInv
<1>4. last.canvas <= made.edits
  BY <1>2, <1>3, BasicFacts
<1>5. winner \in Window
  BY <1>1 DEF Alone, Window
<1> QED BY <1>1, <1>2, <1>4, <1>5, BasicFacts DEF Alone

LEMMA GoesOnFinal ==
  ASSUME BasicInv, FinalInv, NEW w \in Window, page[w].up, NEW p, GoesOn(page[w], p),
         Becomes(w, p, lane, TRUE), UNCHANGED <<main, stored, written>>,
         made'.edits \in Nat, made'.edits >= made.edits,
         KeepsWrites(page[w], p), p.canvas \in {page[w].canvas, made'.edits},
         page[w].left = 0 \/ p.asks = page[w].asks,
         Answers(w, p) /\ w \in Primary => page[w].asks[1].reason # "quit"
  PROVE  CanvasInv' /\ LastInLane' /\ LastInv'
<1>1. p \in Page /\ PageSound(p) /\ p.up
  BY DEF GoesOn
<1>2. /\ SaveTypes /\ page[w] \in Page /\ made.edits \in Nat
      /\ window' = window /\ quit' = quit /\ winner' = winner /\ stored' = stored
  BY BasicFacts DEF main, barriers
<1>3. page'[w] = p /\ \A v \in Window : v # w => page'[v] = page[v]
  BY <1>2 DEF Becomes, SaveTypes
<1>4. /\ \A G : PageWrites(p, G) /\ LaneWrites(lane, G) => LaneWrites(lane', G)
      /\ (\A i \in 1..Len(lane) : lane[i].by = w) => \A i \in 1..Len(lane') : lane'[i].by = w
      /\ IF p.tail # <<>> /\ page[w].tail = <<>>
         THEN lane' # <<>> /\ lane'[Len(lane')].by = w /\ ~lane'[Len(lane')].lost
         ELSE lane' = lane
  <2>1. \A G : PageWrites(p, G) /\ LaneWrites(lane, G) => LaneWrites(lane', G)
    BY <1>1, <1>2, LaneWritten
  <2>2. \A rest, fine : Becomes(w, p, rest, fine) /\ rest = lane =>
          (AllBy(rest, w) => AllBy(lane', w)) /\ LaneEnd(w, p, rest)
    BY <1>1, <1>2, LaneAdded
  <2>3. Becomes(w, p, lane, TRUE) /\ lane = lane
    OBVIOUS
  <2>4. (AllBy(lane, w) => AllBy(lane', w)) /\ LaneEnd(w, p, lane)
    BY <2>2, <2>3
  <2> QED BY <2>1, <2>4 DEF AllBy, LaneEnd
<1>5. \A G : PageWrites(page[w], G) /\ p.canvas \in G => PageWrites(p, G)
  BY WritesKept
<1>6. CanvasInv'
  <2>1. \A c \in 0..made.edits : c \in 0..made'.edits
    BY <1>2
  <2>2. \A v \in Window : PageWrites(page[v], 0..made'.edits)
    BY <2>1 DEF FinalInv, CanvasInv, PageWrites
  <2>3. LaneWrites(lane, 0..made'.edits) /\ stored.canvas \in 0..made'.edits
    BY <2>1 DEF FinalInv, CanvasInv, LaneWrites
  <2>4. p.canvas \in 0..made'.edits
    BY <2>2 DEF PageWrites
  <2> QED BY <1>2, <1>3, <1>4, <1>5, <2>2, <2>3, <2>4 DEF CanvasInv
<1>7. LastInLane'
  <2> SUFFICES ASSUME winner \in Primary, QuitsNow(page'[winner])
               PROVE  lane' # <<>> /\ lane'[Len(lane')].by = winner /\ ~lane'[Len(lane')].lost
    BY <1>2 DEF LastInLane
  <2>1. CASE w # winner
    <3>1. QuitsNow(page[winner])
      BY <1>3, <2>1 DEF Window
    <3>2. Alone
      BY <3>1, QuitsNowAlone DEF FinalInv
    <3> QED BY <2>1, <3>2, BasicFacts DEF Alone
  <2>2. CASE w = winner /\ page[w].tail = <<>>
    BY <1>3, <1>4, <2>2 DEF QuitsNow
  <2>3. CASE w = winner /\ page[w].tail # <<>>
    <3>1. page[w].tail[1].awaited /\ page[w].left > 0
      BY <1>3, <2>3 DEF QuitsNow, GoesOn, KeepsHead
    <3>2. QuitsNow(page[w])
      BY <1>3, <2>3, <3>1 DEF QuitsNow
    <3> QED BY <1>4, <2>3, <3>2 DEF FinalInv, LastInLane
  <2> QED BY <2>1, <2>2, <2>3
<1>8. last' = last
  <2> SUFFICES ASSUME InTime(w, p), w = winner PROVE Head(page[w].asks).reason # "quit"
    BY DEF Becomes
  <2>1. w \in Primary
    BY BasicFacts DEF RegistryTypes
  <2>2. page[w].asks \in Seq(Asked) /\ page[w].asks # <<>>
    BY <1>2 DEF Page, InTime, Answers, GoesOn, KeepsAsks
  <2>3. Head(page[w].asks) = page[w].asks[1]
    BY <2>2, TailFacts
  <2> QED BY <2>1, <2>3 DEF InTime
<1>9. LastInv'
  <2> SUFFICES ASSUME last # NoCanvas
               PROVE  /\ LaneWrites(lane', Newer) /\ \A i \in 1..Len(lane') : lane'[i].by = winner
                      /\ PageWrites(p, Newer) /\ w = winner
    BY <1>2, <1>3, <1>8 DEF FinalInv, LastInv, Newer, Quitting, Alone
  <2>1. w = winner /\ last.canvas \in Nat /\ last.canvas <= made.edits
    BY LastFacts DEF FinalInv
  <2>2. PageWrites(page[w], Newer) /\ LaneWrites(lane, Newer)
    BY <2>1 DEF FinalInv, LastInv
  <2>3. p.canvas \in Newer
    <3>1. p.canvas \in Canvas
      BY <1>1 DEF Page
    <3>2. CASE p.canvas = page[w].canvas
      BY <2>2, <3>2 DEF PageWrites
    <3>3. CASE p.canvas = made'.edits
      BY <1>2, <2>1, <3>1, <3>3 DEF Newer
    <3> QED BY <3>2, <3>3
  <2>4. PageWrites(p, Newer)
    BY <1>5, <2>2, <2>3
  <2> QED BY <1>4, <2>1, <2>2, <2>4 DEF FinalInv, LastInv
<1> QED BY <1>6, <1>7, <1>9

LEMMA RendererFinal ==
  ASSUME BasicInv, FinalInv, NEW w \in Window, Edit(w) \/ TimerFires(w) \/ TaskBegins(w)
  PROVE  CanvasInv' /\ LastInLane' /\ LastInv'
<1>1. page[w] \in Page /\ PageSound(page[w]) /\ made.edits \in Nat /\ BoundTypes
  BY BasicFacts
<1>2. CASE Edit(w)
  <2> DEFINE c == made.edits + 1
             p == [page[w] EXCEPT !.canvas = c, !.gen = @ + 1, !.timer = c]
  <2>1. /\ page[w].up /\ made.edits < MaxEdits /\ made' = [made EXCEPT !.edits = @ + 1]
        /\ Becomes(w, p, lane, TRUE) /\ UNCHANGED <<main, stored, written>>
    BY <1>2 DEF Edit
  <2>2. c \in Canvas /\ made'.edits = c /\ c \in Nat /\ c >= made.edits
    BY <1>1, <2>1, BoundsAreNat DEF BoundTypes, Canvas
  <2>3. /\ GoesOn(page[w], p) /\ p.canvas = c /\ p.asks = page[w].asks /\ p.tail = page[w].tail
    BY <1>1, <2>1, <2>2, EditPage
  <2> HIDE DEF p, c
  <2>4. KeepsWrites(page[w], p) /\ ~Answers(w, p)
    BY <1>1, <2>3 DEF KeepsWrites, Answers, Page
  <2> QED BY <2>1, <2>2, <2>3, <2>4, GoesOnFinal
<1>3. CASE TimerFires(w)
  <2> DEFINE p == Enqueue([page[w] EXCEPT !.timer = -1], page[w].gen, page[w].timer, FALSE)
  <2>1. /\ page[w].up /\ page[w].timer # -1 /\ made' = made
        /\ Becomes(w, p, lane, TRUE) /\ UNCHANGED <<main, stored, written>>
    BY <1>3 DEF TimerFires
  <2>2. /\ GoesOn(page[w], p) /\ p.canvas = page[w].canvas /\ p.asks = page[w].asks
        /\ KeepsWrites(page[w], p)
    BY <1>1, <2>1, TimerPage
  <2> HIDE DEF p
  <2>3. ~Answers(w, p) /\ made.edits >= made.edits
    BY <1>1, <2>2 DEF Answers, Page
  <2> QED BY <1>1, <2>1, <2>2, <2>3, GoesOnFinal
<1>4. CASE TaskBegins(w)
  <2> DEFINE p == Task(w, page[w])
  <2>1. /\ page[w].up /\ page[w].asks # <<>> /\ page[w].left = 0 /\ made' = made
        /\ Becomes(w, p, lane, TRUE) /\ UNCHANGED <<main, stored, written>>
    BY <1>4 DEF TaskBegins
  <2>2. /\ GoesOn(page[w], p) /\ p.canvas = page[w].canvas /\ KeepsWrites(page[w], p)
        /\ w \notin Auxiliary /\ Len(p.asks) < Len(page[w].asks) => page[w].asks[1].reason # "quit"
    BY <1>1, <2>1, TaskPage
  <2> HIDE DEF p
  <2>3. /\ Answers(w, p) /\ w \in Primary => page[w].asks[1].reason # "quit"
        /\ made.edits >= made.edits
    BY <1>1, <2>2, WindowsAssumption DEF Answers
  <2> QED BY <1>1, <2>1, <2>2, <2>3, GoesOnFinal
<1> QED BY <1>2, <1>3, <1>4

LEMMA SaveFinal ==
  ASSUME BasicInv, FinalInv, NEW ok \in BOOLEAN, Save(ok)
  PROVE  CanvasInv' /\ LastInLane' /\ LastInv'
<1> DEFINE s == lane[1]
           w == s.by
           p == page[w]
           q == WriteOver(p, ok)
           rest == Tail(lane)
           fine == ~Reports(p, ok)
<1>1. /\ lane # <<>> /\ Head(lane) = s /\ s \in LaneSave /\ lane \in Seq(LaneSave)
      /\ rest \in Seq(LaneSave) /\ Len(rest) = Len(lane) - 1 /\ Len(lane) \in Nat /\ Len(lane) >= 1
      /\ \A i \in 1..Len(lane) - 1 : rest[i] = lane[i + 1]
  BY BasicFacts, TailFacts DEF SaveTypes, Save
<1>2. w \in Window /\ s.canvas \in Canvas /\ 1 \in 1..Len(lane)
  BY <1>1 DEF LaneSave
<1>3. /\ window' = window /\ quit' = quit /\ winner' = winner
      /\ stored' = IF ok THEN [by |-> w, canvas |-> s.canvas] ELSE stored
      /\ made'.edits = made.edits
      /\ s.lost => lane' = rest /\ page' = page /\ last' = last
      /\ ~s.lost => Becomes(w, q, rest, fine)
  BY <1>1, BasicFacts DEF Save, main, barriers, BoundTypes
<1>4. \A G : LaneWrites(lane, G) => s.canvas \in G /\ LaneWrites(rest, G)
  BY <1>1, <1>2 DEF LaneWrites
<1>5. \A i \in 1..Len(rest) : rest[i] = lane[i + 1] /\ i + 1 \in 1..Len(lane)
  BY <1>1
<1>6. last # NoCanvas => w = winner /\ \A i \in 1..Len(rest) : rest[i].by = winner
  BY <1>2, <1>5 DEF FinalInv, LastInv
<1>7. \A G : stored.canvas \in G /\ LaneWrites(lane, G) => stored'.canvas \in G
  BY <1>3, <1>4
<1>8. CASE s.lost
  <2>1. CanvasInv'
    BY <1>3, <1>4, <1>7, <1>8 DEF FinalInv, CanvasInv
  <2>2. LastInLane'
    <3> SUFFICES ASSUME winner \in Primary, QuitsNow(page[winner])
                 PROVE  rest # <<>> /\ rest[Len(rest)].by = winner /\ ~rest[Len(rest)].lost
      BY <1>3, <1>8 DEF LastInLane
    <3>1. lane[Len(lane)].by = winner /\ ~lane[Len(lane)].lost
      BY DEF FinalInv, LastInLane
    <3>2. Len(lane) # 1
      BY <1>8, <3>1
    <3>3. Len(rest) >= 1 /\ Len(rest) \in 1..Len(lane) - 1 /\ Len(rest) + 1 = Len(lane)
      BY <1>1, <3>2
    <3> QED BY <1>1, <3>1, <3>3
  <2>3. LastInv'
    BY <1>3, <1>4, <1>6, <1>7, <1>8 DEF FinalInv, LastInv, Newer, Quitting, Alone
  <2> QED BY <2>1, <2>2, <2>3
<1>9. CASE ~s.lost
  <2> HIDE DEF s, rest, fine
  <2>1. Becomes(w, q, rest, fine)
    BY <1>3, <1>9
  <2>2. p \in Page /\ PageSound(p) /\ Fits(s, p)
    <3>1. lane[1].by \in Window /\ ~lane[1].lost
      BY <1>2, <1>9 DEF s
    <3> QED BY <1>2, <1>9, <3>1, BasicFacts DEF BasicInv, AnswersInv, LaneFits, LaneFitsPages, s
  <2>3. p.tail # <<>> /\ p.up
    <3>1. p.tail # <<>>
      BY <2>2 DEF Fits
    <3>2. NoPage.tail = <<>>
      BY DEF NoPage
    <3> QED BY <2>2, <3>1, <3>2 DEF PageSound
  <2>4. /\ q \in Page /\ PageSound(q) /\ q.up /\ q.canvas = p.canvas
        /\ q.saved = IF ok /\ p.tail[1].gen > p.saved THEN p.tail[1].gen ELSE p.saved
        /\ KeepsAsks(p, q) /\ KeepsWrites(p, q)
        /\ Len(q.asks) < Len(p.asks) /\ ~Reports(p, ok) /\ p.asks[1].reason = "quit" =>
             /\ ok /\ p.left > 0 /\ p.tail[1].awaited /\ ~Dirty(q) /\ q.gen = p.gen
             /\ \A i \in 1..Len(q.tail) : q.tail[i].canvas \in {-1, q.canvas}
    BY <2>2, <2>3, WriteOverPage
  <2>5. page'[w] = q /\ \A v \in Window : v # w => page'[v] = page[v]
    BY <1>2, <2>1, BasicFacts DEF Becomes, SaveTypes
  <2>6. rest # lane
    BY <1>1
  <2> HIDE DEF q
  <2>7. /\ \A G : PageWrites(q, G) /\ LaneWrites(rest, G) => LaneWrites(lane', G)
        /\ (\A i \in 1..Len(rest) : rest[i].by = w) => \A i \in 1..Len(lane') : lane'[i].by = w
        /\ IF q.tail # <<>>
           THEN lane' # <<>> /\ lane'[Len(lane')].by = w /\ ~lane'[Len(lane')].lost
           ELSE lane' = rest
    <3> HIDE DEF w
    <3>1. lane # <<>> /\ rest = Tail(lane)
      BY <1>1 DEF rest
    <3>2. w \in Window /\ q \in Page /\ PageSound(q) /\ SaveTypes
      BY <1>2, <2>4, BasicFacts
    <3>3. Becomes(w, q, Tail(lane), fine)
      BY <2>1, <3>1
    <3>4. /\ \A G : PageWrites(q, G) /\ LaneWrites(rest, G) => LaneWrites(lane', G)
          /\ AllBy(rest, w) => AllBy(lane', w)
          /\ IF q.tail # <<>>
             THEN lane' # <<>> /\ lane'[Len(lane')].by = w /\ ~lane'[Len(lane')].lost
             ELSE lane' = rest
      BY ONLY <3>1, <3>2, <3>3, SaveWritten
    <3> QED BY <3>4 DEF AllBy
  <2>8. \A G : PageWrites(p, G) => PageWrites(q, G)
    BY <2>4, WritesKept DEF PageWrites
  <2>9. CanvasInv'
    <3>1. PageWrites(p, 0..made.edits)
      BY <1>2 DEF FinalInv, CanvasInv
    <3> QED BY <1>3, <1>4, <1>7, <2>5, <2>7, <2>8, <3>1 DEF FinalInv, CanvasInv
  <2>10. LastInLane'
    <3> SUFFICES ASSUME winner \in Primary, QuitsNow(page'[winner])
                 PROVE  lane' # <<>> /\ lane'[Len(lane')].by = winner /\ ~lane'[Len(lane')].lost
      BY <1>3 DEF LastInLane
    <3>1. CASE w # winner
      <4>1. QuitsNow(page[winner])
        BY <2>5, <3>1 DEF Window
      <4>2. Alone
        BY <4>1, QuitsNowAlone DEF FinalInv
      <4> QED BY <1>2, <2>3, <3>1, <4>2, BasicFacts DEF Alone
    <3>2. CASE w = winner
      BY <2>5, <2>7, <3>2 DEF QuitsNow
    <3> QED BY <3>1, <3>2
  <2>11. CASE last' = last
    <3> SUFFICES ASSUME last # NoCanvas
                 PROVE  LastInv'
      BY <2>9, <2>10, <2>11 DEF LastInv
    <3>1. /\ w = winner /\ PageWrites(p, Newer) /\ LaneWrites(lane, Newer)
          /\ stored.canvas \in Newer /\ stored.by = winner /\ Quitting /\ Alone
      BY <1>6, <2>3 DEF FinalInv, LastInv
    <3>2. LaneWrites(lane', Newer) /\ \A i \in 1..Len(lane') : lane'[i].by = winner
      BY <1>4, <1>6, <2>7, <2>8, <3>1
    <3>3. stored'.canvas \in Newer /\ stored'.by = winner
      BY <1>3, <1>7, <3>1
    <3>4. PageWrites(page'[winner], Newer)
      BY <2>5, <2>8, <3>1
    <3>5. LastInv'
      BY <1>3, <2>11, <3>1, <3>2, <3>3, <3>4 DEF LastInv, Newer, Quitting, Alone
    <3> QED BY <2>9, <2>10, <3>5
  <2>12. CASE last' # last
    <3>1. /\ InTime(w, q) /\ fine /\ w = winner /\ Head(p.asks).reason = "quit"
          /\ last' = [by |-> w, canvas |-> q.canvas]
      BY <2>1, <2>12 DEF Becomes
    <3>2. Len(q.asks) < Len(p.asks) /\ p.asks \in Seq(Asked)
      BY <2>2, <3>1 DEF InTime, Answers, Page
    <3>3. p.asks # <<>> /\ Head(p.asks) = p.asks[1] /\ 1 \in 1..Len(p.asks)
      <4>1. p.asks # <<>>
        BY <2>4, <3>2 DEF KeepsAsks
      <4> QED BY <3>2, <4>1, TailFacts
    <3>4. /\ ok /\ p.left > 0 /\ p.tail[1].awaited /\ ~Dirty(q) /\ q.gen = p.gen
          /\ \A i \in 1..Len(q.tail) : q.tail[i].canvas \in {-1, q.canvas}
      BY <2>4, <3>1, <3>2, <3>3 DEF fine
    <3>5. Quitting /\ Alone
      <4> HIDE DEF w
      <4>1. page[w].asks[1].reason = "quit" /\ 1 \in 1..Len(page[w].asks)
        BY <3>1, <3>3
      <4> QED BY <1>2, <3>1, <4>1, QuitsAlone DEF FinalInv
    <3>6. rest = <<>>
      <4>1. lane[Len(lane)].by = winner /\ ~lane[Len(lane)].lost
        BY <2>3, <3>1, <3>3, <3>4, <3>5 DEF FinalInv, LastInLane, QuitsNow, Alone
      <4>2. lane[1].by = winner /\ ~lane[1].lost
        BY <1>9, <3>1 DEF s
      <4>3. Len(lane) = 1
        BY <1>1, <1>2, <4>1, <4>2 DEF BasicInv, AnswersInv, LaneFits, LaneFitsPages
      <4> QED BY <1>1, <4>3
    <3>7. s.canvas = q.canvas
      <4>1. q.gen \in Nat /\ q.saved \in Nat /\ p.saved \in Nat
        BY <2>2, <2>4 DEF Page
      <4>2. p.tail[1].gen \in Nat
        <5>1. p.tail \in Seq(Write)
          BY <2>2 DEF Page
        <5>2. p.tail[1] \in Write
          BY <2>3, <5>1, TailFacts
        <5> QED BY <5>2 DEF Write
      <4>3. ~(p.gen > p.saved /\ p.gen > p.tail[1].gen)
        BY <2>4, <3>4, <4>1, <4>2 DEF Dirty
      <4> QED BY <2>2, <2>4, <3>4, <4>3 DEF Fits
    <3>8. q.canvas \in Canvas /\ last'.canvas = q.canvas /\ q.canvas \in Nat
      BY <1>2, <3>1, <3>7, BoundsAreNat DEF Canvas
    <3> DEFINE G == {c \in Canvas : c >= last'.canvas}
    <3>9. q.canvas \in G
      BY <3>8
    <3>10. PageWrites(q, G)
      BY <3>4, <3>9 DEF PageWrites
    <3>11. LaneWrites(rest, G) /\ \A i \in 1..Len(rest) : rest[i].by = w
      <4>1. Len(rest) = 0
        BY <3>6
      <4> QED BY <4>1 DEF LaneWrites
    <3>12. LaneWrites(lane', G) /\ \A i \in 1..Len(lane') : lane'[i].by = winner
      BY <2>7, <3>1, <3>10, <3>11
    <3>13. stored'.by = winner /\ stored'.canvas \in G
      BY <1>3, <3>1, <3>4, <3>7, <3>9
    <3>14. page'[winner] = q
      BY <2>5, <3>1
    <3>15. LastInv'
      BY <1>3, <3>5, <3>10, <3>12, <3>13, <3>14 DEF LastInv, Newer, Quitting, Alone
    <3> QED BY <2>9, <2>10, <3>15
  <2> QED BY <2>11, <2>12
<1> QED BY <1>8, <1>9

\* Steps that leave what is saved alone, and open no window while quitting.
LEMMA RegistryFinal ==
  ASSUME BasicInv, FinalInv, QuitInv', page' = page, lane' = lane, stored' = stored,
         last' = last, made'.edits = made.edits,
         Quitting => Quitting' /\ winner' = winner,
         \A v \in Window : Quitting /\ window'[v] = "open" => window[v] = "open"
  PROVE  CanvasInv' /\ LastInLane' /\ LastInv'
<1>1. CanvasInv'
  BY DEF FinalInv, CanvasInv
<1>2. LastInLane'
  <2> SUFFICES ASSUME winner' \in Primary, QuitsNow(page[winner'])
               PROVE  lane # <<>> /\ lane[Len(lane)].by = winner' /\ ~lane[Len(lane)].lost
    BY DEF LastInLane
  <2>1. winner' \in Window /\ page[winner'].asks \in Seq(Asked)
    BY BasicFacts DEF Window, Page
  <2>2. 1 \in 1..Len(page[winner'].asks) /\ page[winner'].asks[1].reason = "quit"
    BY <2>1, TailFacts DEF QuitsNow
  <2>3. Quitting
    BY <2>1, <2>2, QuitsAlone DEF FinalInv
  <2> QED BY <2>3 DEF FinalInv, LastInLane
<1>3. LastInv'
  <2> SUFFICES ASSUME last # NoCanvas PROVE LastInv'
    BY DEF LastInv
  <2>1. Quitting /\ Alone
    BY DEF FinalInv, LastInv
  <2>2. Alone'
    BY <2>1, AloneKept
  <2> QED BY <2>1, <2>2 DEF FinalInv, LastInv, Newer
<1> QED BY <1>1, <1>2, <1>3

LEMMA LoadFinal ==
  ASSUME BasicInv, FinalInv, NEW w \in Window, Load(w)
  PROVE  CanvasInv' /\ LastInLane' /\ LastInv'
<1>1. /\ ~page[w].up /\ page' = [page EXCEPT ![w] = Loaded]
      /\ window' = window /\ quit' = quit /\ winner' = winner /\ lane' = lane
      /\ stored' = stored /\ last' = last /\ made' = made /\ window[w] = "open"
  BY DEF Load, main, barriers
<1>2. page'[w] = Loaded /\ \A v \in Window : v # w => page'[v] = page[v]
  BY <1>1, BasicFacts DEF SaveTypes
<1>3. Loaded.canvas = stored.canvas /\ Loaded.tail = <<>> /\ Len(<<>>) = 0
  BY DEF Loaded, NoPage
<1>4. \A G : stored.canvas \in G => PageWrites(Loaded, G)
  BY <1>3 DEF PageWrites
<1>5. CanvasInv'
  BY <1>1, <1>2, <1>4 DEF FinalInv, CanvasInv
<1>6. LastInLane'
  BY <1>1, <1>2, <1>3 DEF FinalInv, LastInLane, QuitsNow, Window
<1>7. LastInv'
  <2> SUFFICES ASSUME last # NoCanvas PROVE LastInv'
    BY <1>1 DEF LastInv
  <2>1. Alone /\ stored.canvas \in Newer /\ w = winner
    BY <1>1 DEF FinalInv, LastInv, Alone
  <2> QED BY <1>1, <1>2, <1>4, <2>1 DEF FinalInv, LastInv, Newer, Quitting, Alone
<1> QED BY <1>5, <1>6, <1>7

\* Only the challenges a page works on have changed, none of which it works on
\* now.
LEMMA AsksFinal ==
  ASSUME BasicInv, FinalInv, NEW w \in Window, NEW asks,
         page' = [page EXCEPT ![w].asks = asks],
         page[w].asks # <<>> => asks[1].reason = page[w].asks[1].reason,
         lane' = lane, stored' = stored, last' = last, made' = made,
         quit' = quit, winner' = winner,
         \A v \in Window : window'[v] = "open" => window[v] = "open"
  PROVE  CanvasInv' /\ LastInLane' /\ LastInv'
<1>1. \A v \in Window : /\ page'[v].up = page[v].up /\ page'[v].canvas = page[v].canvas
                        /\ page'[v].tail = page[v].tail /\ page'[v].left = page[v].left
                        /\ v # w => page'[v].asks = page[v].asks
  BY BasicFacts DEF SaveTypes, Page
<1>2. page'[w].asks = asks
  BY BasicFacts DEF SaveTypes, Page
<1>3. \A v \in Window : \A G : PageWrites(page'[v], G) <=> PageWrites(page[v], G)
  BY <1>1 DEF PageWrites
<1>4. CanvasInv'
  BY <1>3 DEF FinalInv, CanvasInv
<1>5. LastInLane'
  <2> SUFFICES ASSUME winner \in Primary, QuitsNow(page'[winner]) PROVE QuitsNow(page[winner])
    BY DEF FinalInv, LastInLane
  <2>1. winner \in Window
    BY DEF Window
  <2>2. page[winner].left # 0
    BY <1>1, <2>1 DEF QuitsNow
  <2>3. page[winner].asks # <<>>
    BY <2>1, <2>2, BasicFacts DEF PageSound
  <2> QED BY <1>1, <1>2, <2>1, <2>3 DEF QuitsNow
<1>6. LastInv'
  <2> SUFFICES ASSUME last # NoCanvas PROVE LastInv'
    BY DEF LastInv
  <2>1. Quitting /\ Alone
    BY DEF FinalInv, LastInv
  <2>2. Alone' /\ winner \in Window
    BY <2>1, AloneKept DEF Alone, Window
  <2> QED BY <1>1, <1>3, <2>1, <2>2 DEF FinalInv, LastInv, Newer, Quitting
<1> QED BY <1>4, <1>5, <1>6

LEMMA ChallengeFinal ==
  ASSUME BasicInv, FinalInv, QuitInv', NEW w \in Window, Challenge(w)
  PROVE  CanvasInv' /\ LastInLane' /\ LastInv'
<1> DEFINE e == [reason |-> Head(requests[w]), live |-> TRUE]
           asks == Append(page[w].asks, e)
<1>1. /\ page' = IF page[w].up THEN [page EXCEPT ![w].asks = asks] ELSE page
      /\ requests[w] # <<>>
      /\ lane' = lane /\ stored' = stored /\ last' = last /\ made' = made
      /\ quit' = quit /\ winner' = winner /\ window' = window
  BY DEF Challenge, main, barriers
<1>2. CASE page[w].up
  <2>1. e \in Asked /\ page[w].asks \in Seq(Asked)
    <3>1. requests[w] \in Seq(Reason) /\ page[w] \in Page
      BY BasicFacts
    <3>2. Head(requests[w]) \in Reason
      BY <1>1, <3>1, TailFacts
    <3> QED BY <3>1, <3>2 DEF Asked, Page
  <2> HIDE DEF e
  <2>2. page[w].asks # <<>> => asks[1] = page[w].asks[1]
    BY <2>1, TailFacts, AppendFacts
  <2> HIDE DEF asks
  <2> QED BY <1>1, <1>2, <2>2, AsksFinal
<1>3. CASE ~page[w].up
  BY <1>1, <1>3, RegistryFinal DEF Quitting
<1> QED BY <1>2, <1>3

LEMMA ChallengeOverFinal ==
  ASSUME BasicInv, FinalInv, NEW w \in Window, ChallengeOver(w)
  PROVE  CanvasInv' /\ LastInLane' /\ LastInv'
<1> DEFINE gone == Closes(w) \/ (Head(requests[w]) = "reload" /\ window[w] = "open")
           asks == [i \in 1..Len(page[w].asks) |-> [page[w].asks[i] EXCEPT !.live = FALSE]]
<1>1. /\ window' = IF Closes(w) THEN [window EXCEPT ![w] = "closing"] ELSE window
      /\ IF gone THEN PageGone(w) ELSE page' = [page EXCEPT ![w] = Expired(page[w])] /\ lane' = lane
      /\ quit' = quit /\ winner' = winner /\ stored' = stored /\ last' = last /\ made' = made
  BY DEF ChallengeOver
<1>2. \A v \in Window : window'[v] = "open" => window[v] = "open"
  BY <1>1, BasicFacts DEF RegistryTypes
<1> HIDE DEF gone
<1>3. CASE ~gone
  <2>1. /\ Expired(page[w]) = [page[w] EXCEPT !.asks = asks]
        /\ page[w].asks # <<>> => asks[1].reason = page[w].asks[1].reason
    BY BasicFacts, ExpiredAsks
  <2> HIDE DEF asks
  <2>2. page' = [page EXCEPT ![w].asks = asks]
    BY <1>1, <1>3, <2>1, BasicFacts DEF SaveTypes
  <2> QED BY <1>1, <1>2, <1>3, <2>1, <2>2, AsksFinal
<1>4. CASE gone
  <2>1. /\ page'[w] = NoPage /\ \A v \in Window : v # w => page'[v] = page[v]
        /\ Len(lane') = Len(lane) /\ \A i \in 1..Len(lane) :
             /\ lane'[i].by = lane[i].by /\ lane'[i].canvas = lane[i].canvas
             /\ lane[i].by # w => lane'[i] = lane[i]
    BY <1>1, <1>4, GoneLane, BasicFacts DEF BasicInv, AnswersInv
  <2>2. ~NoPage.up /\ NoPage.canvas = 0 /\ NoPage.tail = <<>> /\ Len(<<>>) = 0
    BY DEF NoPage
  <2>3. \A G : LaneWrites(lane, G) => LaneWrites(lane', G)
    BY <2>1 DEF LaneWrites
  <2>4. PageWrites(NoPage, 0..made.edits)
    BY <2>2, BasicFacts DEF PageWrites
  <2>5. CanvasInv'
    BY <1>1, <2>1, <2>3, <2>4 DEF FinalInv, CanvasInv
  <2>6. LastInLane'
    <3> SUFFICES ASSUME winner \in Primary, QuitsNow(page'[winner])
                 PROVE  lane' # <<>> /\ lane'[Len(lane')].by = winner /\ ~lane'[Len(lane')].lost
      BY <1>1 DEF LastInLane
    <3>1. winner # w /\ QuitsNow(page[winner])
      BY <2>1, <2>2 DEF QuitsNow, Window
    <3>2. lane # <<>> /\ lane[Len(lane)].by = winner /\ ~lane[Len(lane)].lost
      BY <3>1 DEF FinalInv, LastInLane
    <3>3. lane \in Seq(LaneSave) /\ lane' \in Seq(LaneSave)
      BY <1>1, <1>4, GoneLane, BasicFacts DEF SaveTypes, BasicInv, AnswersInv
    <3>4. Len(lane) \in 1..Len(lane) /\ lane' # <<>>
      BY <2>1, <3>2, <3>3, TailFacts
    <3> QED BY <2>1, <3>1, <3>2, <3>4
  <2>7. LastInv'
    <3> SUFFICES ASSUME last # NoCanvas PROVE LastInv'
      BY <1>1 DEF LastInv
    <3>1. /\ Alone /\ winner \in Window /\ Quitting /\ stored.canvas \in Newer
          /\ stored.by = winner /\ LaneWrites(lane, Newer)
          /\ \A i \in 1..Len(lane) : lane[i].by = winner
          /\ page[winner].up => PageWrites(page[winner], Newer)
      BY LastFacts DEF FinalInv, LastInv
    <3>2. Alone'
      BY <1>1, <1>2, <3>1, AloneKept
    <3>3. page'[winner].up => PageWrites(page'[winner], Newer)
      BY <2>1, <2>2, <3>1
    <3>4. LaneWrites(lane', Newer) /\ \A i \in 1..Len(lane') : lane'[i].by = winner
      BY <2>1, <2>3, <3>1
    <3> QED BY <1>1, <3>1, <3>2, <3>3, <3>4 DEF LastInv, Newer, Quitting
  <2> QED BY <2>5, <2>6, <2>7
<1> QED BY <1>3, <1>4

\* The steps of the user and of the quit touch nothing that is saved.
LEMMA OtherFinal ==
  ASSUME NoneOpens, BasicInv, FinalInv, QuitInv',
         \/ \E w \in Window : User(w) \/ Closed(w)
         \/ Quit \/ Quits \/ UNCHANGED shutdownVars
  PROVE  CanvasInv' /\ LastInLane' /\ LastInv'
<1>1. UNCHANGED saves /\ made'.edits = made.edits
  <2>1. ASSUME NEW w \in Window, User(w) PROVE UNCHANGED saves /\ made'.edits = made.edits
    BY <2>1, BasicFacts DEF User, Open, Focus, Close, Reload, BoundTypes
  <2>2. ASSUME (\E w \in Window : Closed(w)) \/ Quit \/ Quits PROVE UNCHANGED <<saves, made>>
    BY <2>2 DEF Closed, Quit, Quits, CloseNext, Cleanup, CleanupFails, Resume, Exit
  <2> QED BY <2>1, <2>2 DEF shutdownVars
<1>2. Quitting => Quitting' /\ winner' = winner
  BY DEF User, Open, Focus, Close, Reload, Closed, Quit, Quits, CloseNext, Cleanup,
         CleanupFails, Resume, Exit, Quitting, shutdownVars, main, barriers
<1>3. \A v \in Window : Quitting /\ window'[v] = "open" => window[v] = "open"
  <2>1. ASSUME NEW w \in Window, Open(w) PROVE ~Quitting
    BY <2>1 DEF NoneOpens
  <2>2. ASSUME NEW w \in Window, Closed(w)
        PROVE  \A v \in Window : window'[v] = "open" => window[v] = "open"
    BY <2>2, BasicFacts DEF Closed, RegistryTypes
  <2>3. CASE window' = window
    BY <2>3
  <2> QED BY <2>1, <2>2, <2>3 DEF User, Focus, Close, Reload, Quit, Quits, CloseNext, Cleanup,
         CleanupFails, Resume, Exit, shutdownVars, main, barriers
<1> QED BY <1>1, <1>2, <1>3, RegistryFinal DEF saves

LEMMA FinalStep ==
  ASSUME NoneOpens, BasicInv, FinalInv, [ShutdownNext]_shutdownVars
  PROVE  FinalInv'
<1>1. QuitInv'
  BY QuitStep DEF FinalInv
<1>2. ASSUME NEW w \in Window, Renderer(w) PROVE CanvasInv' /\ LastInLane' /\ LastInv'
  BY <1>2, RendererFinal, LoadFinal DEF Renderer
<1>3. ASSUME NEW w \in Window, Challenge(w) \/ ChallengeOver(w)
      PROVE  CanvasInv' /\ LastInLane' /\ LastInv'
  BY <1>1, <1>3, ChallengeFinal, ChallengeOverFinal
<1>4. ASSUME NEW ok \in BOOLEAN, Save(ok) PROVE CanvasInv' /\ LastInLane' /\ LastInv'
  BY <1>4, SaveFinal
<1>5. ASSUME \/ \E w \in Window : User(w) \/ Closed(w)
             \/ Quit \/ Quits \/ UNCHANGED shutdownVars
      PROVE  CanvasInv' /\ LastInLane' /\ LastInv'
  BY <1>1, <1>5, OtherFinal
<1> QED BY <1>1, <1>2, <1>3, <1>4, <1>5 DEF ShutdownNext, Barrier, FinalInv

LEMMA FinalInit == ShutdownInit => FinalInv
<1> SUFFICES ASSUME ShutdownInit PROVE FinalInv
  OBVIOUS
<1>1. \A w \in Window : /\ page[w].tail = <<>> /\ page[w].asks = <<>> /\ page[w].canvas = 0
                        /\ requests[w] = <<>> /\ closeRequest[w] = "none"
  <2> TAKE w \in Window
  <2>1. page[w] = [NoPage EXCEPT !.up = w \notin Later]
    BY DEF ShutdownInit
  <2> QED BY <2>1 DEF ShutdownInit, NoPage
<1>2. Len(<<>>) = 0 /\ made.edits = 0 /\ 0 \in 0..made.edits
  BY DEF ShutdownInit
<1>3. ~Quitting /\ winner = 0 /\ 0 \notin Primary /\ lane = <<>> /\ last = NoCanvas
      /\ stored.canvas = 0
  BY WindowsAssumption DEF ShutdownInit, Quitting, NoCanvas
<1>4. QuitInv
  <2>1. \A w \in Window : ~AsksQuit(w)
    <3> TAKE w \in Window
    <3>1. closeRequest[w] = "none" /\ Len(requests[w]) = 0
      BY <1>1, <1>2
    <3>2. ~ \E i \in 1..Len(requests[w]) : requests[w][i] = "quit"
      BY ONLY <3>1
    <3> QED BY <3>1, <3>2 DEF AsksQuit
  <2> QED BY <1>1, <1>2, <1>3, <2>1 DEF QuitInv, QuitAsked, OpenOrdered, QuitFirst
<1>5. CanvasInv
  BY <1>1, <1>2, <1>3 DEF CanvasInv, PageWrites, LaneWrites
<1> QED BY <1>3, <1>4, <1>5 DEF FinalInv, LastInLane, LastInv


\* A window that opens once a quit has begun is not in the order of closeAll:
\* nobody closes it, so the application does not exit.
NotOpened ==
  \A w \in Window : window[w] = "unopened" =>
    w \notin order /\ requests[w] = <<>> /\ closeRequest[w] = "none"
Left(w) == window[w] = "open" /\ w \notin order /\ ~AsksQuit(w)
Stuck == quit \notin {"no", "exited"} /\ \E w \in Window : Left(w)

LEMMA NotOpenedStep ==
  ASSUME BasicInv, NotOpened, [ShutdownNext]_shutdownVars
  PROVE  NotOpened'
<1> SUFFICES ASSUME NEW w \in Window, window'[w] = "unopened"
             PROVE  w \notin order' /\ requests'[w] = <<>> /\ closeRequest'[w] = "none"
  BY DEF NotOpened
<1>1. out[w] # "no" => requests[w] # <<>>
  BY DEF BasicInv, ChallengesInv
<1>2. ASSUME UNCHANGED main \/ \E v \in Window : Challenge(v)
      PROVE  w \notin order' /\ requests'[w] = <<>> /\ closeRequest'[w] = "none"
  BY <1>2 DEF Challenge, main, barriers, NotOpened
<1>3. ASSUME NEW v \in Window, User(v)
      PROVE  w \notin order' /\ requests'[w] = <<>> /\ closeRequest'[w] = "none"
  BY <1>3, BasicFacts DEF User, Open, Focus, Close, Reload, Ask, RegistryTypes, NotOpened
<1>4. ASSUME NEW v \in Window, Closed(v)
      PROVE  w \notin order' /\ requests'[w] = <<>> /\ closeRequest'[w] = "none"
  BY <1>4, BasicFacts DEF Closed, RegistryTypes, NotOpened
<1>5. ASSUME NEW v \in Window, ChallengeOver(v)
      PROVE  w \notin order' /\ requests'[w] = <<>> /\ closeRequest'[w] = "none"
  <2>1. /\ window'[w] = window[w] /\ order' \subseteq order /\ out[v] # "no"
        /\ v # w => requests'[w] = requests[w] /\ closeRequest'[w] = closeRequest[w]
    BY <1>5, BasicFacts DEF ChallengeOver, Settled, RegistryTypes
  <2>2. v # w
    BY <2>1, <1>1 DEF NotOpened
  <2> QED BY <2>1, <2>2 DEF NotOpened
<1>6. ASSUME NEW v \in Window, CloseNext(v)
      PROVE  w \notin order' /\ requests'[w] = <<>> /\ closeRequest'[w] = "none"
  BY <1>6, BasicFacts DEF CloseNext, Ask, RegistryTypes, NotOpened
<1>7. ASSUME Quit \/ Resume \/ Cleanup \/ CleanupFails \/ Exit
      PROVE  w \notin order' /\ requests'[w] = <<>> /\ closeRequest'[w] = "none"
  BY <1>7 DEF Quit, Resume, Cleanup, CleanupFails, Exit, barriers, Refuses, Live, NotOpened
<1>8. ASSUME \/ \E v \in Window : Renderer(v)
             \/ \E ok \in BOOLEAN : Save(ok)
             \/ UNCHANGED shutdownVars
      PROVE  UNCHANGED main
  BY <1>8 DEF Renderer, Edit, TimerFires, TaskBegins, Load, Save, shutdownVars
<1> QED BY <1>2, <1>3, <1>4, <1>5, <1>6, <1>7, <1>8 DEF ShutdownNext, Barrier, Quits

LEMMA StuckStep ==
  ASSUME BasicInv, Stuck, [ShutdownNext]_shutdownVars
  PROVE  Stuck'
<1>1. PICK w \in Window : Left(w)
  BY DEF Stuck
<1>2. /\ window[w] = "open" /\ w \notin order /\ Quitting /\ quit # "exited"
      /\ closeRequest[w] \notin {"quit", "close, then quit"}
      /\ \A i \in 1..Len(requests[w]) : requests[w][i] # "quit"
      /\ requests[w] \in Seq(Reason)
  BY <1>1, BasicFacts DEF Stuck, Left, AsksQuit, Quitting
<1> SUFFICES /\ quit' \notin {"no", "exited"} /\ window'[w] = "open" /\ w \notin order'
             /\ closeRequest'[w] \notin {"quit", "close, then quit"}
             /\ \A i \in 1..Len(requests'[w]) : requests'[w][i] # "quit"
  BY DEF Stuck, Left, AsksQuit
<1> DEFINE Stays == /\ quit' \notin {"no", "exited"} /\ window'[w] = "open" /\ w \notin order'
                    /\ closeRequest'[w] \notin {"quit", "close, then quit"}
                    /\ \A i \in 1..Len(requests'[w]) : requests'[w][i] # "quit"
<1>3. \A r \in Reason \ {"quit"} :
        \A i \in 1..Len(Append(requests[w], r)) : Append(requests[w], r)[i] # "quit"
  <2> TAKE r \in Reason \ {"quit"}
  <2>1. r \in Reason /\ r # "quit"
    OBVIOUS
  <2>2. \A i \in 1..Len(Append(requests[w], r)) :
          \/ Append(requests[w], r)[i] = r
          \/ \E j \in 1..Len(requests[w]) : Append(requests[w], r)[i] = requests[w][j]
    BY <1>2, <2>1, Requested
  <2> QED BY <1>2, <2>1, <2>2
<1>4. {"close", "reload"} \subseteq Reason \ {"quit"}
  BY DEF Reason
<1>5. ASSUME UNCHANGED main \/ \E v \in Window : Challenge(v) PROVE Stays
  BY <1>2, <1>5 DEF Challenge, main, barriers, Quitting
<1>6. ASSUME NEW v \in Window, User(v) PROVE Stays
  <2>1. /\ quit' = quit /\ order' = order /\ window'[w] = window[w]
        /\ closeRequest'[w] \in {closeRequest[w], "close"}
        /\ \/ requests'[w] = requests[w]
           \/ requests'[w] = Append(requests[w], "close")
           \/ requests'[w] = Append(requests[w], "reload")
    BY <1>2, <1>6, BasicFacts DEF User, Open, Focus, Close, Reload, Ask, RegistryTypes
  <2> QED BY <1>2, <1>3, <1>4, <2>1 DEF Quitting
<1>7. ASSUME NEW v \in Window, Closed(v) PROVE Stays
  <2>1. v # w
    BY <1>2, <1>7 DEF Closed
  <2> QED BY <1>2, <1>7, <2>1, BasicFacts DEF Closed, RegistryTypes, Quitting
<1>8. ASSUME NEW v \in Window, ChallengeOver(v) PROVE Stays
  <2>1. /\ quit' = quit /\ order' \subseteq order
        /\ v # w => /\ requests'[w] = requests[w] /\ closeRequest'[w] = closeRequest[w]
                    /\ window'[w] = window[w]
    BY <1>8, BasicFacts DEF ChallengeOver, RegistryTypes
  <2>2. CASE v = w
    <3>1. requests[w] # <<>>
      BY <1>8, <2>2 DEF ChallengeOver, Settled, BasicInv, ChallengesInv
    <3>2. /\ Head(requests[w]) = requests[w][1] /\ 1 \in 1..Len(requests[w])
          /\ Len(Tail(requests[w])) = Len(requests[w]) - 1 /\ Len(requests[w]) \in Nat
          /\ \A i \in 1..Len(requests[w]) - 1 : Tail(requests[w])[i] = requests[w][i + 1]
      <4> DEFINE s == requests[w]
      <4>1. s \in Seq(Reason) /\ s # <<>>
        BY <1>2, <3>1
      <4> HIDE DEF s
      <4>2. /\ Head(s) = s[1] /\ Len(Tail(s)) = Len(s) - 1 /\ Len(s) \in Nat /\ Len(s) >= 1
            /\ \A i \in 1..Len(s) - 1 : Tail(s)[i] = s[i + 1]
        BY <4>1, TailFacts
      <4>3. 1 \in 1..Len(s)
        BY <4>2
      <4> QED BY <4>2, <4>3 DEF s
    <3>3. Head(requests[w]) # "quit" /\ ~Closes(w)
      BY <1>2, <3>2 DEF Closes
    <3>4. /\ requests'[w] = Tail(requests[w]) /\ window'[w] = window[w]
          /\ closeRequest'[w] \in {closeRequest[w], "none"}
      <4>1. RegistryTypes /\ ChallengeOver(w)
        BY <1>8, <2>2, BasicFacts
      <4>2. ~(Head(requests[w]) = "close" /\ closeRequest[w] = "close, then quit")
        BY <1>2
      <4>3. /\ requests' = [requests EXCEPT ![w] = Tail(requests[w])] /\ window' = window
            /\ \/ closeRequest' = closeRequest
               \/ closeRequest' = [closeRequest EXCEPT ![w] = "none"]
        BY <3>3, <4>1, <4>2 DEF ChallengeOver
      <4>4. requests'[w] = Tail(requests[w])
        BY <4>1, <4>3 DEF RegistryTypes
      <4>5. closeRequest'[w] \in {closeRequest[w], "none"}
        BY <4>1, <4>3 DEF RegistryTypes
      <4> QED BY <4>3, <4>4, <4>5
    <3>5. \A i \in 1..Len(Tail(requests[w])) : Tail(requests[w])[i] # "quit"
      <4> TAKE i \in 1..Len(Tail(requests[w]))
      <4>1. i \in 1..Len(requests[w]) - 1 /\ i + 1 \in 1..Len(requests[w])
        BY <3>2
      <4> QED BY <1>2, <3>2, <4>1
    <3> QED BY <1>2, <2>1, <3>4, <3>5 DEF Quitting
  <2> QED BY <1>2, <2>1, <2>2 DEF Quitting
<1>9. ASSUME NEW v \in Window, CloseNext(v) PROVE Stays
  <2>1. v # w
    BY <1>2, <1>9 DEF CloseNext
  <2> QED BY <1>2, <1>9, <2>1, BasicFacts DEF CloseNext, Ask, RegistryTypes, Quitting
<1>10. ASSUME Resume PROVE Stays
  <2>1. /\ quit' = "resumed" /\ order' = order /\ window' = window
        /\ closeRequest'[w] \in {closeRequest[w], "close"}
        /\ requests'[w] \in {requests[w], Append(requests[w], "close")}
    BY <1>10 DEF Resume
  <2> QED BY <1>2, <1>3, <1>4, <2>1
<1>11. ASSUME Quit \/ Cleanup \/ CleanupFails \/ Exit PROVE Stays
  <2>1. ~Quit /\ ~Exit
    BY <1>2 DEF Quit, Exit, Live, Quitting
  <2> QED BY <1>2, <1>11, <2>1 DEF Cleanup, CleanupFails, barriers
<1>12. ASSUME \/ \E v \in Window : Renderer(v)
              \/ \E ok \in BOOLEAN : Save(ok)
              \/ UNCHANGED shutdownVars
       PROVE  UNCHANGED main
  BY <1>12 DEF Renderer, Edit, TimerFires, TaskBegins, Load, Save, shutdownVars
<1> QED BY <1>5, <1>6, <1>7, <1>8, <1>9, <1>10, <1>11, <1>12 DEF ShutdownNext, Barrier, Quits

LEMMA OpenStuck ==
  ASSUME BasicInv, NotOpened, NEW w \in Window, Quitting, Open(w)
  PROVE  Stuck'
<1>1. /\ window[w] = "unopened" /\ window'[w] = "open" /\ quit' = quit /\ quit # "exited"
      /\ order' = order /\ requests' = requests /\ closeRequest' = closeRequest
  BY BasicFacts DEF Open, RegistryTypes
<1>2. w \notin order /\ requests[w] = <<>> /\ closeRequest[w] = "none" /\ Len(requests[w]) = 0
  BY <1>1 DEF NotOpened
<1>3. ~ \E i \in 1..Len(requests[w]) : requests[w][i] = "quit"
  BY ONLY <1>2
<1> QED BY <1>1, <1>2, <1>3 DEF Stuck, Left, AsksQuit, Quitting

\* For any windows, whichever are opened, also late, and whatever fails: the
\* application ends with the canvas of the window that was meant to write last
\* on disk, or a newer one of the same window, if that window has answered the
\* quit; whatever the other windows still had under way, and whether they
\* answered in time or not (orderedCloseBarriers and closeAll of the registry,
\* the flush of the page, and the FIFO lane of the main process).
THEOREM WinnerCorrect == ShutdownSpec => []WinnerIsFinal
<1> DEFINE Inv == BasicInv /\ NotOpened /\ (Stuck \/ FinalInv)
<1>1. ShutdownInit => Inv
  <2>1. ShutdownInit => NotOpened
    BY DEF ShutdownInit, NotOpened
  <2> QED BY <2>1, BasicInit, FinalInit
<1>2. Inv /\ [ShutdownNext]_shutdownVars => Inv'
  <2> SUFFICES ASSUME Inv, [ShutdownNext]_shutdownVars PROVE Inv'
    OBVIOUS
  <2>1. BasicInv' /\ NotOpened'
    BY BasicStep, NotOpenedStep
  <2>2. CASE Stuck
    BY <2>1, <2>2, StuckStep
  <2>3. CASE FinalInv /\ NoneOpens
    BY <2>1, <2>3, FinalStep
  <2>4. CASE ~NoneOpens
    BY <2>1, <2>4, OpenStuck DEF NoneOpens
  <2> QED BY <2>2, <2>3, <2>4
<1>3. Inv => WinnerIsFinal
  BY DEF FinalInv, LastInv, Newer, WinnerIsFinal, Stuck
<1> QED BY <1>1, <1>2, <1>3, PTL DEF ShutdownSpec
===============================================================================
