------------------------ MODULE DaemonManager_proofs ------------------------
(***************************************************************************)
(* Proofs about DaemonManager for any hosts, versions, bounds and faults.  *)
(***************************************************************************)
EXTENDS DaemonManager, TLAPS

USE DEF managers, files, history, vars

-----------------------------------------------------------------------------
(* Types.                                                                  *)

\* An operation that is over is again a record of Op.
LEMMA EndedType == ASSUME NEW d \in Daemon \cup {None} PROVE Ended(d) \in Op
  BY DEF Ended, Op

\* The two markers are no daemon, and the daemons are numbers: spawn order is an order.
LEMMA Numbers == None \notin Daemon /\ Empty \notin Daemon /\ None # Empty /\ Daemon \subseteq Int
  BY BoundsAssumption DEF None, Empty, Daemon

\* The initial state has its types.
LEMMA InitType == Init => TypeOK
<1> SUFFICES ASSUME Init PROVE TypeOK OBVIOUS
<1>1. op \in [Manager -> Op] BY EndedType DEF Init
<1>2. gone \in [Manager -> SUBSET Daemon] /\ barred \in [Manager -> SUBSET Daemon] BY DEF Init
<1>3. made \in [requests: 0..MaxRequests, faults: 0..MaxFaults] BY BoundsAssumption DEF Init
<1>4. daemon \in [Daemon -> [at: {"none"}, updated: BOOLEAN, seen: {None}]] BY DEF Init
<1> QED BY <1>1, <1>2, <1>3, <1>4 DEF Init, TypeOK

\* The faults left are counted down within their bound.
LEMMA FaultType ==
  ASSUME TypeOK, NEW kind, Fault(kind) PROVE made' \in [requests: 0..MaxRequests, faults: 0..MaxFaults]
  BY BoundsAssumption DEF Fault, TypeOK

\* A request that fails leaves a typed operation.
LEMMA FailsType ==
  ASSUME TypeOK, NEW good, Fails(good) \/ Works(good)
  PROVE  made' \in [requests: 0..MaxRequests, faults: 0..MaxFaults]
  BY FaultType DEF Fails, Works, TypeOK

\* What an operation may become.
Pc == {"idle", "cached", "look", "existing", "stop", "auth", "signal", "term", "auth kill",
       "signal kill", "kill", "lock", "reuse", "locked", "checking", "spawn", "grace", "ready"}

\* A program counter set to another of its labels keeps the types.
LEMMA GoesType ==
  ASSUME TypeOK, NEW m \in Manager, NEW pc \in Pc, Goes(m, pc)
  PROVE  op' \in [Manager -> Op]
<1>1. op \in [Manager -> Op] /\ op[m] \in Op BY DEF TypeOK
<1>2. [op[m] EXCEPT !.pc = pc] \in Op BY <1>1 DEF Op, Pc
<1> QED BY <1>1, <1>2 DEF Goes

\* A look or a stop that is over goes on at a label of its own kind.
LEMMA GoesOnType ==
  ASSUME TypeOK, NEW m \in Manager, NEW pc \in Pc, NEW d \in Daemon \cup {None}, GoesOn(m, pc, d)
  PROVE  op' \in [Manager -> Op]
<1>1. op \in [Manager -> Op] /\ op[m] \in Op BY DEF TypeOK
<1>2. [op[m] EXCEPT !.pc = pc, !.info = d] \in Op BY <1>1 DEF Op, Pc
<1> QED BY <1>1, <1>2 DEF GoesOn

\* An operation that ends returns to rest, typed.
LEMMA EndsType ==
  ASSUME TypeOK, NEW m \in Manager, NEW d \in Daemon \cup {None}, op' = [op EXCEPT ![m] = Ended(d)]
  PROVE  op' \in [Manager -> Op]
  BY EndedType DEF TypeOK

\* A stop that is over leads back into the restart, or to rest.
LEMMA BackType ==
  ASSUME TypeOK, NEW m \in Manager, NEW pc \in Pc,
         op' = [op EXCEPT ![m].pc = pc, ![m].back = "spawn"]
  PROVE  op' \in [Manager -> Op]
<1>1. op \in [Manager -> Op] /\ op[m] \in Op BY DEF TypeOK
<1>2. [op[m] EXCEPT !.pc = pc, !.back = "spawn"] \in Op BY <1>1 DEF Op, Pc
<1> QED BY <1>1, <1>2

\* What a look or a stop returns is a daemon or nobody.
LEMMA ReturnsType ==
  ASSUME TypeOK, NEW m \in Manager, NEW d \in Daemon \cup {None}, Returns(m, d) \/ Throws(m)
  PROVE  /\ op' \in [Manager -> Op] /\ cache' \in [Manager -> Daemon \cup {None}]
         /\ startupLock' \in {"none", "fresh", "stale"}
<1>1. None \in Daemon \cup {None} OBVIOUS
<1>2. op' \in [Manager -> Op] BY <1>1, EndedType DEF Returns, Throws, TypeOK
<1>3. cache' \in [Manager -> Daemon \cup {None}] BY DEF Returns, Throws, TypeOK
<1>4. startupLock' \in {"none", "fresh", "stale"} BY DEF Returns, Throws, Release, TypeOK
<1> QED BY <1>2, <1>3, <1>4

\* An operation that begins is typed.
LEMMA StartsType ==
  ASSUME TypeOK, NEW m \in Manager, NEW d \in Daemon \cup {None}, NEW f \in BOOLEAN, Starts(m, f, d)
  PROVE  op' \in [Manager -> Op]
  BY DEF Starts, TypeOK, Op

\* The fields of an operation of a typed state.
LEMMA OpInfo ==
  ASSUME TypeOK, NEW m \in Manager
  PROVE  op[m] \in Op /\ op[m].info \in Daemon \cup {None}
  BY DEF TypeOK, Op

\* What a daemon may become.
At == {"none", "new", "look", "lock", "found", "stale", "owner", "starting", "serving", "stopping", "closed",
       "dead"}
Process == [at: At, updated: BOOLEAN, seen: Daemon \cup {None}]

\* A daemon that moves on keeps the types.
LEMMA MovesType ==
  ASSUME TypeOK, NEW d \in Daemon, NEW at \in At, Moves(d, at)
  PROVE  daemon' \in [Daemon -> Process]
<1>1. daemon \in [Daemon -> Process] /\ daemon[d] \in Process BY DEF TypeOK, Process, At
<1>2. [daemon[d] EXCEPT !.at = at] \in Process BY <1>1 DEF Process
<1> QED BY <1>1, <1>2 DEF Moves

\* A daemon that exits keeps the types.
LEMMA ExitsType ==
  ASSUME TypeOK, NEW d \in Daemon, Exits(d)
  PROVE  /\ daemon' \in [Daemon -> Process]
         /\ pidFile' \in Daemon \cup {None} /\ daemonLock' \in Daemon \cup {None, Empty}
  BY MovesType DEF Exits, TypeOK, At

\* Every action keeps the types.
LEMMA TypeStep == TypeOK /\ [Next]_vars => TypeOK'
<1> SUFFICES ASSUME TypeOK, [Next]_vars PROVE TypeOK'
  OBVIOUS
<1> USE DEF Pc, Process, At
<1>1. ASSUME NEW m \in Manager, Request(m) PROVE TypeOK'
  <2>1. op' \in [Manager -> Op]
    <3>1. cache[m] \in Daemon \cup {None} /\ None \in Daemon \cup {None} BY DEF TypeOK
    <3> QED BY <1>1, <3>1, StartsType DEF Request, Ensure, Restart, TypeOK
  <2>2. made' \in [requests: 0..MaxRequests, faults: 0..MaxFaults]
    BY <1>1, BoundsAssumption DEF Request, TypeOK
  <2>3. /\ queued' \in [Manager -> BOOLEAN]
        /\ cache' \in [Manager -> Daemon \cup {None}]
    BY <1>1 DEF Request, Ensure, Restart, TypeOK
  <2>4. Serving \subseteq Daemon BY DEF Serving
  <2>5. barred' \in [Manager -> SUBSET Daemon]
    BY <1>1, <2>4 DEF Request, Ensure, Restart, TypeOK
  <2>6. UNCHANGED <<files, daemon, recycled, history>> BY <1>1 DEF Request
  <2> QED BY <2>1, <2>2, <2>3, <2>5, <2>6 DEF TypeOK
<1>2. ASSUME NEW m \in Manager, StartQueued(m) PROVE TypeOK'
  <2>1. cache[m] \in Daemon \cup {None} BY DEF TypeOK
  <2>2. op' \in [Manager -> Op] BY <1>2, <2>1, StartsType DEF StartQueued
  <2> QED BY <1>2, <2>2 DEF StartQueued, TypeOK
<1>3. ASSUME NEW m \in Manager, CachedChecked(m) PROVE TypeOK'
  <2>1. made' \in [requests: 0..MaxRequests, faults: 0..MaxFaults]
    BY <1>3, FailsType DEF CachedChecked
  <2>2. op' \in [Manager -> Op] /\ cache' \in [Manager -> Daemon \cup {None}]
        /\ startupLock' \in {"none", "fresh", "stale"}
    <3>0. cache[m] \in Daemon \cup {None} BY DEF TypeOK
    <3>1. CASE op' = [op EXCEPT ![m] = Ended(cache[m])] /\ UNCHANGED <<cache, startupLock>>
      BY <3>0, <3>1, EndsType DEF TypeOK
    <3>2. CASE Goes(m, "look") /\ UNCHANGED <<cache, startupLock>>
      BY <3>2, GoesType DEF TypeOK
    <3>3. CASE Throws(m) BY <3>3, <3>0, ReturnsType
    <3> QED BY <1>3, <3>1, <3>2, <3>3 DEF CachedChecked
  <2> QED BY <1>3, <2>1, <2>2 DEF CachedChecked, TypeOK
<1>4. ASSUME NEW m \in Manager, Look(m) \/ Locked(m) PROVE TypeOK'
  <2>1. pidFile \in Daemon \cup {None} BY DEF TypeOK
  <2>2. PICK pc \in Pc : GoesOn(m, pc, pidFile) BY <1>4 DEF Look, Locked
  <2>3. op' \in [Manager -> Op] BY <2>1, <2>2, GoesOnType
  <2> QED BY <1>4, <2>3 DEF Look, Locked, TypeOK
<1>5. ASSUME NEW m \in Manager, ExistingChecked(m) PROVE TypeOK'
  <2>1. made' \in [requests: 0..MaxRequests, faults: 0..MaxFaults]
    BY <1>5, FailsType DEF ExistingChecked
  <2>2. op' \in [Manager -> Op] /\ cache' \in [Manager -> Daemon \cup {None}]
        /\ startupLock' \in {"none", "fresh", "stale"}
    <3>1. CASE Returns(m, op[m].info) BY <3>1, OpInfo, ReturnsType
    <3>2. CASE (Goes(m, "stop") \/ Goes(m, "lock")) /\ UNCHANGED <<cache, startupLock>>
      BY <3>2, GoesType DEF TypeOK
    <3> QED BY <1>5, <3>1, <3>2 DEF ExistingChecked
  <2> QED BY <1>5, <2>1, <2>2 DEF ExistingChecked, TypeOK
<1>6. ASSUME NEW m \in Manager, Stop(m) \/ StopOver(m) PROVE TypeOK'
  <2>1. CASE Stopped(m)
    <3>1. op[m].back \in Pc BY OpInfo DEF Op
    <3>2. op' \in [Manager -> Op] BY <2>1, <3>1, GoesType DEF Stopped, Goes
    <3> QED BY <1>6, <2>1, <3>2 DEF Stop, StopOver, Stopped, TypeOK
  <2>2. CASE Throws(m) /\ UNCHANGED <<pidFile, daemon>>
    BY <1>6, <2>2, ReturnsType DEF Stop, StopOver, TypeOK
  <2>3. CASE (Goes(m, "auth") \/ Goes(m, "auth kill")) /\ UNCHANGED <<cache, startupLock, pidFile, daemon>>
    <3>1. op' \in [Manager -> Op] BY <2>3, GoesType
    <3> QED BY <1>6, <2>3, <3>1 DEF Stop, StopOver, TypeOK
  <2> QED BY <1>6, <2>1, <2>2, <2>3 DEF Stop, StopOver
<1>7. ASSUME NEW m \in Manager, Authenticate(m) \/ Signal(m) PROVE TypeOK'
  <2>1. made' \in [requests: 0..MaxRequests, faults: 0..MaxFaults]
    BY <1>7, FailsType DEF Authenticate, Signal, TypeOK
  <2>2. op' \in [Manager -> Op] /\ cache' \in [Manager -> Daemon \cup {None}]
        /\ startupLock' \in {"none", "fresh", "stale"}
    <3>1. CASE Throws(m) BY <3>1, ReturnsType
    <3>2. CASE (\E pc \in Pc : Goes(m, pc)) /\ UNCHANGED <<cache, startupLock>>
      BY <3>2, GoesType DEF TypeOK
    <3> QED BY <1>7, <3>1, <3>2 DEF Authenticate, Signal
  <2>3. daemon' \in [Daemon -> Process]
    <3>1. CASE UNCHANGED daemon BY <3>1 DEF TypeOK
    <3>2. CASE op[m].info \in Daemon /\ \E at \in At : Moves(op[m].info, at)
      BY <3>2, MovesType
    <3>3. op[m].info \in Daemon => \A a \in At : Signalled(a) \in At BY DEF Signalled
    <3>4. op[m].info \in Daemon => daemon[op[m].info].at \in At BY DEF TypeOK
    <3> QED BY <1>7, <3>1, <3>2, <3>3, <3>4 DEF Authenticate, Signal, Running, Moves
  <2>4. gone' \in [Manager -> SUBSET Daemon] BY <1>7 DEF Authenticate, Signal, TypeOK
  <2> QED BY <1>7, <2>1, <2>2, <2>3, <2>4 DEF Authenticate, Signal, TypeOK
<1>8. ASSUME NEW m \in Manager, Lock(m) PROVE TypeOK'
  <2>1. pidFile' \in Daemon \cup {None} BY <1>8 DEF Lock, TypeOK
  <2>2. op' \in [Manager -> Op]
    <3>1. CASE Goes(m, "locked") BY <3>1, GoesType
    <3>2. CASE GoesOn(m, "reuse", pidFile') BY <3>2, <2>1, GoesOnType
    <3> QED BY <1>8, <3>1, <3>2 DEF Lock
  <2> QED BY <1>8, <2>1, <2>2 DEF Lock, TypeOK
<1>9. ASSUME NEW m \in Manager, Reuse(m) PROVE TypeOK'
  <2>1. made' \in [requests: 0..MaxRequests, faults: 0..MaxFaults]
    BY <1>9, FailsType DEF Reuse
  <2>2. op' \in [Manager -> Op] /\ cache' \in [Manager -> Daemon \cup {None}]
        /\ startupLock' \in {"none", "fresh", "stale"}
    <3>1. CASE Returns(m, op[m].info) BY <3>1, OpInfo, ReturnsType
    <3>2. CASE /\ Goes(m, "lock") \/ op' = [op EXCEPT ![m] = Ended(None)]
               /\ startupLock' = IF startupLock = "stale" THEN "none" ELSE startupLock
               /\ UNCHANGED cache
      <4>1. CASE Goes(m, "lock") BY <3>2, <4>1, GoesType DEF TypeOK
      <4>2. CASE op' = [op EXCEPT ![m] = Ended(None)] BY <3>2, <4>2, EndsType DEF TypeOK
      <4> QED BY <3>2, <4>1, <4>2
    <3> QED BY <1>9, <3>1, <3>2 DEF Reuse
  <2> QED BY <1>9, <2>1, <2>2 DEF Reuse, TypeOK
<1>10. ASSUME NEW m \in Manager, LockedChecked(m) PROVE TypeOK'
  <2>1. made' \in [requests: 0..MaxRequests, faults: 0..MaxFaults]
    BY <1>10, FailsType DEF LockedChecked
  <2>2. op' \in [Manager -> Op] /\ cache' \in [Manager -> Daemon \cup {None}]
        /\ startupLock' \in {"none", "fresh", "stale"}
    <3>1. CASE Returns(m, op[m].info) BY <3>1, OpInfo, ReturnsType
    <3>2. CASE /\ \/ op' = [op EXCEPT ![m].pc = "stop", ![m].back = "spawn"]
                  \/ op' = [op EXCEPT ![m].pc = "spawn", ![m].back = "spawn"]
               /\ UNCHANGED <<cache, startupLock>>
      BY <3>2, BackType DEF TypeOK
    <3> QED BY <1>10, <3>1, <3>2 DEF LockedChecked
  <2> QED BY <1>10, <2>1, <2>2 DEF LockedChecked, TypeOK
<1>11. ASSUME NEW m \in Manager, Spawn(m) PROVE TypeOK'
  <2>1. PICK d \in Daemon :
          /\ daemon' = [daemon EXCEPT ![d] = [at |-> "new", updated |-> m \in Updated, seen |-> None]]
          /\ GoesOn(m, "grace", d)
    BY <1>11 DEF Spawn
  <2>2. op' \in [Manager -> Op] BY <2>1, GoesOnType
  <2>3. [at |-> "new", updated |-> m \in Updated, seen |-> None]
          \in Process
    BY DEF Process, At
  <2> QED BY <1>11, <2>1, <2>2, <2>3 DEF Spawn, TypeOK
<1>12. ASSUME NEW m \in Manager, Grace(m) \/ Ready(m) PROVE TypeOK'
  <2>1. made' \in [requests: 0..MaxRequests, faults: 0..MaxFaults]
    BY <1>12, FailsType DEF Grace, Ready, TypeOK
  <2>2. op' \in [Manager -> Op] /\ cache' \in [Manager -> Daemon \cup {None}]
        /\ startupLock' \in {"none", "fresh", "stale"}
    <3>1. CASE Returns(m, pidFile) \/ Throws(m)
      <4>1. pidFile \in Daemon \cup {None} BY DEF TypeOK
      <4> QED BY <3>1, <4>1, ReturnsType
    <3>2. CASE Goes(m, "ready") /\ UNCHANGED <<cache, startupLock>>
      BY <3>2, GoesType DEF TypeOK
    <3> QED BY <1>12, <3>1, <3>2 DEF Grace, Ready
  <2> QED BY <1>12, <2>1, <2>2 DEF Grace, Ready, TypeOK
<1>13. ASSUME NEW m \in Manager, Dies(m) PROVE TypeOK'
  <2>1. None \in Daemon \cup {None} OBVIOUS
  <2>2. op' \in [Manager -> Op] BY <1>13, <2>1, EndsType DEF Dies
  <2>3. made' \in [requests: 0..MaxRequests, faults: 0..MaxFaults] BY <1>13, FaultType DEF Dies
  <2> QED BY <1>13, <2>2, <2>3 DEF Dies, TypeOK
<1>14. ASSUME GrowsOld PROVE TypeOK'
  <2>1. made' \in [requests: 0..MaxRequests, faults: 0..MaxFaults]
    BY <1>14, FaultType DEF GrowsOld, TypeOK
  <2> QED BY <1>14, <2>1 DEF GrowsOld, TypeOK
<1>15. ASSUME NEW d \in Daemon, DaemonStep(d) \/ Fail(d) \/ Recycle(d) PROVE TypeOK'
  <2>1. CASE Looks(d)
    <3>1. daemon' \in [Daemon -> Process]
      <4>1. PICK a \in At : daemon' = [daemon EXCEPT ![d].seen = pidFile, ![d].at = a]
        BY <2>1 DEF Looks
      <4>2. daemon[d] \in Process /\ pidFile \in Daemon \cup {None} BY DEF TypeOK
      <4>3. [daemon[d] EXCEPT !.seen = pidFile, !.at = a] \in Process BY <4>2
      <4> QED BY <4>1, <4>3 DEF TypeOK
    <3> QED BY <2>1, <3>1 DEF Looks, TypeOK
  <2>2. CASE Looked(d)
    <3>1. made' \in [requests: 0..MaxRequests, faults: 0..MaxFaults] BY <2>2, FailsType DEF Looked
    <3>2. CASE Exits(d) BY <2>2, <3>1, <3>2, ExitsType DEF Looked, TypeOK
    <3>3. CASE Moves(d, "lock") /\ UNCHANGED <<pidFile, daemonLock>>
      BY <2>2, <3>1, <3>3, MovesType DEF Looked, TypeOK
    <3> QED BY <2>2, <3>2, <3>3 DEF Looked
  <2>3. CASE TakesLock(d) \/ ShutDown(d)
    <3>1. CASE Exits(d) BY <2>3, <3>1, ExitsType DEF TakesLock, ShutDown, TypeOK
    <3>2. CASE TakesLock(d) /\ Moves(d, "owner") BY <3>2, MovesType DEF TakesLock, TypeOK
    <3>3. CASE TakesLock(d) /\ Moves(d, "found") BY <3>3, MovesType DEF TakesLock, TypeOK
    <3> QED BY <2>3, <3>1, <3>2, <3>3 DEF TakesLock, ShutDown
  <2>7. CASE Found(d)
    <3>1. CASE Exits(d) BY <2>7, <3>1, ExitsType DEF Found, TypeOK
    <3>2. CASE /\ daemonLock \in Daemon \cup {None}
               /\ daemon' = [daemon EXCEPT ![d].at = "stale", ![d].seen = daemonLock]
               /\ UNCHANGED <<pidFile, daemonLock>>
      <4>1. daemon[d] \in Process BY DEF TypeOK
      <4>2. [daemon[d] EXCEPT !.at = "stale", !.seen = daemonLock] \in Process BY <3>2, <4>1
      <4> QED BY <2>7, <3>2, <4>2 DEF Found, TypeOK
    <3>3. daemonLock = None \/ ~Alive(daemonLock) => daemonLock \in Daemon \cup {None}
      BY DEF Alive, TypeOK
    <3> QED BY <2>7, <3>1, <3>2, <3>3 DEF Found
  <2>4. CASE TakesOver(d) \/ WritesLock(d) \/ Serves(d) \/ Closes(d)
    BY <2>4, MovesType DEF TakesOver, WritesLock, Serves, Closes, TypeOK
  <2>6. CASE Fail(d)
    <3>1. made' \in [requests: 0..MaxRequests, faults: 0..MaxFaults] BY <2>6, FaultType DEF Fail
    <3>2. CASE Exits(d) BY <2>6, <3>1, <3>2, ExitsType DEF Fail, TypeOK
    <3>3. CASE (Moves(d, "stopping") \/ Moves(d, "dead")) /\ UNCHANGED <<pidFile, daemonLock>>
      BY <2>6, <3>1, <3>3, MovesType DEF Fail, TypeOK
    <3> QED BY <2>6, <3>2, <3>3 DEF Fail
  <2>5. CASE Recycle(d)
    BY <2>5, FaultType DEF Recycle, TypeOK
  <2> QED BY <1>15, <2>1, <2>2, <2>3, <2>4, <2>5, <2>6, <2>7 DEF DaemonStep
<1>16. CASE UNCHANGED vars BY <1>16 DEF TypeOK
<1> QED
  BY <1>1, <1>2, <1>3, <1>4, <1>5, <1>6, <1>7, <1>8, <1>9, <1>10, <1>11, <1>12, <1>13, <1>14,
     <1>15, <1>16 DEF Next, Step

-----------------------------------------------------------------------------
(* Operations.                                                             *)

\* An operation is moved by its own host only.
LEMMA OpMoves ==
  ASSUME TypeOK, [Next]_vars, NEW m \in Manager
  PROVE  \/ op'[m] = op[m] /\ barred'[m] = barred[m]
         \/ Request(m)
         \/ (Step(m) \/ Dies(m)) /\ barred'[m] = barred[m]
<1> USE DEF TypeOK, Goes, GoesOn, Returns, Throws, Starts
<1>1. ASSUME NEW n \in Manager, n # m, Request(n) PROVE op'[m] = op[m] /\ barred'[m] = barred[m]
  BY <1>1 DEF Request, Ensure, Restart
<1>2. ASSUME NEW n \in Manager, n # m, Step(n) \/ Dies(n) PROVE op'[m] = op[m]
  <2>1. CASE StartQueued(n) \/ CachedChecked(n) \/ Look(n) \/ ExistingChecked(n)
    BY <1>2, <2>1 DEF StartQueued, CachedChecked, Look, ExistingChecked
  <2>2. CASE Stop(n) \/ Authenticate(n) \/ Signal(n) \/ StopOver(n)
    BY <1>2, <2>2 DEF Stop, Authenticate, Signal, StopOver, Stopped
  <2>3. CASE Lock(n) \/ Reuse(n) \/ Locked(n) \/ LockedChecked(n)
    BY <1>2, <2>3 DEF Lock, Reuse, Locked, LockedChecked
  <2>4. CASE Spawn(n) \/ Grace(n) \/ Ready(n) \/ Dies(n)
    BY <1>2, <2>4 DEF Spawn, Grace, Ready, Dies
  <2> QED BY <1>2, <2>1, <2>2, <2>3, <2>4 DEF Step
<1>3. ASSUME NEW n \in Manager, Step(n) \/ Dies(n) PROVE barred' = barred
  BY <1>3
  DEF Step, Dies, StartQueued, CachedChecked, Look, ExistingChecked, Stop, Authenticate, Signal, StopOver,
      Lock, Reuse, Locked, LockedChecked, Spawn, Grace, Ready
<1>4. ASSUME NEW d \in Daemon, DaemonStep(d) \/ Fail(d) \/ Recycle(d) PROVE op' = op /\ barred' = barred
  BY <1>4
  DEF DaemonStep, Looks, Looked, TakesLock, Found, TakesOver, WritesLock, Serves, Closes, ShutDown, Fail, Recycle
<1>5. CASE GrowsOld BY <1>5 DEF GrowsOld
<1>6. CASE UNCHANGED vars BY <1>6
<1> QED BY <1>1, <1>2, <1>3, <1>4, <1>5, <1>6 DEF Next

\* What a host noted of the dead is its own.
LEMMA GoneMoves ==
  ASSUME TypeOK, [Next]_vars, NEW m \in Manager
  PROVE  gone'[m] = gone[m] \/ Authenticate(m) \/ Signal(m)
<1> USE DEF TypeOK
<1>1. ASSUME NEW n \in Manager, Authenticate(n) \/ Signal(n), n # m PROVE gone'[m] = gone[m]
  BY <1>1 DEF Authenticate, Signal
<1>2. ASSUME NEW n \in Manager, Step(n), ~Authenticate(n), ~Signal(n) PROVE gone' = gone
  BY <1>2
  DEF Step, StartQueued, CachedChecked, Look, ExistingChecked, Stop, StopOver,
      Lock, Reuse, Locked, LockedChecked, Spawn, Grace, Ready
<1>3. ASSUME NEW n \in Manager, Request(n) \/ Dies(n) PROVE gone' = gone BY <1>3 DEF Request, Dies
<1>4. ASSUME NEW d \in Daemon, DaemonStep(d) \/ Fail(d) \/ Recycle(d) PROVE gone' = gone
  BY <1>4
  DEF DaemonStep, Looks, Looked, TakesLock, Found, TakesOver, WritesLock, Serves, Closes, ShutDown,
      Fail, Recycle
<1>5. GrowsOld \/ UNCHANGED vars => gone' = gone BY DEF GrowsOld
<1> QED BY <1>1, <1>2, <1>3, <1>4, <1>5 DEF Next

\* What the parts of a step make of an operation.
LEMMA EndedFacts ==
  ASSUME NEW d PROVE Ended(d).pc = "idle" /\ Ended(d).force = FALSE /\ Ended(d).info = d
  BY DEF Ended

\* An operation that ends keeps nothing but what it returned.
LEMMA EndsFacts ==
  ASSUME TypeOK, NEW m \in Manager, NEW d,
         Returns(m, d) \/ op' = [op EXCEPT ![m] = Ended(d)]
  PROVE  op'[m].pc = "idle" /\ op'[m].force = FALSE /\ op'[m].info = d
<1>1. op'[m] = Ended(d) BY DEF TypeOK, Returns
<1> QED BY <1>1, EndedFacts

\* An operation that throws keeps nothing.
LEMMA ThrowsFacts ==
  ASSUME TypeOK, NEW m \in Manager, Throws(m)
  PROVE  op'[m].pc = "idle" /\ op'[m].force = FALSE /\ op'[m].info = None
  BY EndsFacts DEF Throws

\* A step that only goes on leaves what the operation found.
LEMMA GoesFacts ==
  ASSUME TypeOK, NEW m \in Manager, NEW pc, Goes(m, pc)
  PROVE  op'[m].pc = pc /\ op'[m].force = op[m].force /\ op'[m].info = op[m].info
<1>1. op[m] \in Op /\ op'[m] = [op[m] EXCEPT !.pc = pc] BY DEF TypeOK, Goes
<1> QED BY <1>1 DEF Op

\* A step that goes on with what it found.
LEMMA GoesOnFacts ==
  ASSUME TypeOK, NEW m \in Manager, NEW pc, NEW d, GoesOn(m, pc, d)
  PROVE  op'[m].pc = pc /\ op'[m].force = op[m].force /\ op'[m].info = d
<1>1. op[m] \in Op /\ op'[m] = [op[m] EXCEPT !.pc = pc, !.info = d] BY DEF TypeOK, GoesOn
<1> QED BY <1>1 DEF Op

\* A stop that a restart begins leads back to its spawn.
LEMMA BackFacts ==
  ASSUME TypeOK, NEW m \in Manager, NEW pc, op' = [op EXCEPT ![m].pc = pc, ![m].back = "spawn"]
  PROVE  op'[m].pc = pc /\ op'[m].force = op[m].force /\ op'[m].info = op[m].info
<1>1. op[m] \in Op /\ op'[m] = [op[m] EXCEPT !.pc = pc, !.back = "spawn"] BY DEF TypeOK
<1>2. op'[m].pc = pc BY <1>1, ZenonT(40) DEF Op
<1>3. op'[m].force = op[m].force
  <2>1. op[m] \in [pc: Pc, force: BOOLEAN, info: Daemon \cup {None}, back: {"lock", "spawn"}]
    BY <1>1 DEF Op, Pc
  <2>2. op[m].force \in BOOLEAN BY <2>1
  <2>3. CASE op[m].force = TRUE BY <1>1, <2>1, <2>3, ZenonT(40)
  <2>4. CASE op[m].force = FALSE BY <1>1, <2>1, <2>4, ZenonT(40)
  <2> QED BY <2>2, <2>3, <2>4
<1>4. op'[m].info = op[m].info BY <1>1, ZenonT(40) DEF Op
<1> QED BY <1>2, <1>3, <1>4

\* An operation begins where its request says.
LEMMA StartsFacts ==
  ASSUME TypeOK, NEW m \in Manager, NEW f, NEW c, Starts(m, f, c)
  PROVE  op'[m].pc \in {"cached", "look"} /\ op'[m].force = f
<1> DEFINE start(pc) == [pc |-> pc, force |-> f, info |-> c, back |-> "lock"]
<1>1. op'[m] = start("cached") \/ op'[m] = start("look") BY DEF Starts, TypeOK
<1> QED BY <1>1

\* A stop that is over leads back to the lock or to the spawn.
LEMMA StoppedFacts ==
  ASSUME TypeOK, NEW m \in Manager, Stopped(m)
  PROVE  op'[m].pc \in {"lock", "spawn"} /\ op'[m].force = op[m].force
<1>1. op[m].back \in {"lock", "spawn"} BY OpInfo DEF Op
<1>2. Goes(m, op[m].back) BY DEF Stopped, Goes
<1> QED BY <1>1, <1>2, GoesFacts

-----------------------------------------------------------------------------
(* Daemons.                                                                *)

\* A daemon that has been in service stays so or ends.
Served(d) == daemon[d].at \in {"serving", "stopping", "closed", "dead"}
StaysServed(b) ==
  /\ Served(b)' /\ (daemon'[b].at = "serving" => daemon[b].at = "serving")
  /\ (daemon[b].at = "dead" => daemon'[b].at = "dead")
  /\ daemon'[b].updated = daemon[b].updated

\* What a step does to the daemon that serves.
LEMMA ServedStep == ASSUME TypeOK, [Next]_vars, NEW b \in Daemon, Served(b) PROVE StaysServed(b)
<1>0. daemon \in [Daemon -> Process] BY DEF TypeOK, Process, At
<1>1. CASE UNCHANGED daemon BY <1>1 DEF Served, StaysServed
<1>2. ASSUME NEW d \in Daemon, NEW at, Moves(d, at),
             d = b => at = "dead" \/ (at \in {"stopping", "closed"} /\ daemon[b].at # "dead")
      PROVE  StaysServed(b)
  <2>0. daemon[b] \in Process /\ daemon'[b] = IF d = b THEN [daemon[b] EXCEPT !.at = at] ELSE daemon[b]
    BY <1>0, <1>2 DEF Moves
  <2>1. daemon'[b].at = IF d = b THEN at ELSE daemon[b].at BY <2>0 DEF Process
  <2>2. daemon'[b].updated = daemon[b].updated BY <2>0 DEF Process
  <2> QED BY <1>2, <2>1, <2>2 DEF Served, StaysServed
<1>3. ASSUME NEW m \in Manager, Authenticate(m) \/ Signal(m) PROVE StaysServed(b)
  <2>1. \/ UNCHANGED daemon
        \/ /\ op[m].info \in Daemon /\ daemon[op[m].info].at # "dead"
           /\ \/ Moves(op[m].info, Signalled(daemon[op[m].info].at))
              \/ Moves(op[m].info, "dead")
    BY <1>3 DEF Authenticate, Signal, Running, Moves
  <2> QED BY <1>1, <1>2, <2>1 DEF Signalled
<1>4. ASSUME NEW m \in Manager, Spawn(m) PROVE StaysServed(b)
  <2>1. daemon'[b] = daemon[b] BY <1>0, <1>4 DEF Spawn, Served
  <2> QED BY <2>1 DEF Served, StaysServed
<1>5. ASSUME NEW d \in Daemon, Looks(d) \/ Found(d) PROVE StaysServed(b)
  <2>1. CASE Exits(d) /\ Found(d) BY <1>2, <2>1 DEF Exits
  <2>2. CASE ~Exits(d)
    <3>1. d # b BY <1>5, <2>2 DEF Looks, Found, Served
    <3>2. daemon'[b] = daemon[b] BY <1>0, <1>5, <2>2, <3>1 DEF Looks, Found
    <3> QED BY <3>2 DEF Served, StaysServed
  <2>3. Looks(d) => daemon'[b] = daemon[b] BY <1>0 DEF Looks, Served
  <2> QED BY <1>5, <2>1, <2>2, <2>3 DEF Served, StaysServed
<1>6. ASSUME NEW d \in Daemon,
             \/ Looked(d) \/ TakesLock(d) \/ TakesOver(d) \/ WritesLock(d) \/ Serves(d)
             \/ Closes(d) \/ ShutDown(d) \/ Fail(d)
      PROVE  StaysServed(b)
  <2>1. CASE \/ Moves(d, "dead")
             \/ (Moves(d, "stopping") \/ Moves(d, "closed")) /\ daemon[d].at # "dead"
    BY <1>2, <2>1
  <2>2. CASE daemon[d].at \in {"look", "lock", "stale", "owner", "starting"} /\ \E at \in At : Moves(d, at)
    BY <1>2, <2>2 DEF Served
  <2> QED BY <1>6, <2>1, <2>2
    DEF Looked, TakesLock, TakesOver, WritesLock, Serves, Closes, ShutDown, Fail, Exits, At
<1>7. ASSUME NEW m \in Manager,
             \/ Request(m) \/ StartQueued(m) \/ CachedChecked(m) \/ Look(m) \/ ExistingChecked(m)
             \/ Stop(m) \/ StopOver(m) \/ Lock(m)
             \/ Reuse(m) \/ Locked(m) \/ LockedChecked(m) \/ Grace(m) \/ Ready(m) \/ Dies(m)
      PROVE  UNCHANGED daemon
  BY <1>7
  DEF Request, StartQueued, CachedChecked, Look, ExistingChecked, Stop, StopOver, Stopped, Lock, Reuse,
      Locked, LockedChecked, Grace, Ready, Dies
<1>8. GrowsOld \/ UNCHANGED vars \/ (\E d \in Daemon : Recycle(d)) => UNCHANGED daemon
  BY DEF GrowsOld, Recycle
<1> QED BY <1>1, <1>3, <1>4, <1>5, <1>6, <1>7, <1>8 DEF Next, Step, DaemonStep

RecycledAreDead == \A d \in recycled : daemon[d].at = "dead"

\* Only the dead lose their process ids, and they stay dead.
LEMMA RecycledStep == TypeOK /\ RecycledAreDead /\ [Next]_vars => RecycledAreDead'
<1> SUFFICES ASSUME TypeOK, RecycledAreDead, [Next]_vars, NEW d \in recycled' PROVE daemon'[d].at = "dead"
  BY DEF RecycledAreDead
<1>1. recycled' = recycled \/ \E e \in Daemon : Recycle(e)
  <2>1. ASSUME NEW m \in Manager, Request(m) \/ Step(m) \/ Dies(m) PROVE recycled' = recycled
    BY <2>1
    DEF Request, Dies, Step, StartQueued, CachedChecked, Look, ExistingChecked, Stop, Authenticate, Signal,
        StopOver, Lock, Reuse, Locked, LockedChecked, Spawn, Grace, Ready
  <2>2. ASSUME NEW e \in Daemon, DaemonStep(e) \/ Fail(e) PROVE recycled' = recycled
    BY <2>2
    DEF DaemonStep, Looks, Looked, TakesLock, Found, TakesOver, WritesLock, Serves, Closes, ShutDown, Fail
  <2>3. GrowsOld \/ UNCHANGED vars => recycled' = recycled BY DEF GrowsOld
  <2> QED BY <2>1, <2>2, <2>3 DEF Next
<1>2. d \in Daemon /\ daemon[d].at = "dead"
  BY <1>1 DEF TypeOK, RecycledAreDead, Recycle
<1> QED BY <1>2, ServedStep DEF Served, StaysServed

-----------------------------------------------------------------------------
(* Signals: whom a stop is about, from the check that begins it to its end. *)

Target == {"signal", "term", "auth kill", "signal kill", "kill"}
SignalOk(m) ==
  LET d == op[m].info IN
  /\ op[m].pc \in Stopping /\ ~op[m].force => d \in Daemon /\ Served(d) /\ ~HasCompatibleVersion(m, d)
  /\ op[m].pc \in Target => d \in Daemon /\ Served(d)
  /\ op[m].pc \in Target \ {"signal"} => daemon[d].at # "serving"
  /\ op[m].pc \in {"signal", "signal kill"} => d \notin gone[m]
SignalInv == \A m \in Manager : SignalOk(m)

\* The parts of SignalOk that stay as long as the operation goes on with its daemon.
LEMMA SignalKeeps ==
  ASSUME TypeOK, [Next]_vars, NEW m \in Manager, SignalOk(m), op'[m].info = op[m].info,
         op'[m].force = op[m].force, op[m].pc \in Stopping, op'[m].pc \in Stopping,
         op'[m].pc \in Target => op[m].pc \in Target,
         op'[m].pc \in Target \ {"signal"} => op[m].pc \in Target \ {"signal"},
         op'[m].pc \in {"signal", "signal kill"} => op'[m].pc = op[m].pc /\ gone'[m] = gone[m]
  PROVE  SignalOk(m)'
<1> DEFINE d == op[m].info
<1>1. d \in Daemon /\ Served(d) => StaysServed(d) BY ServedStep
<1> QED BY <1>1 DEF SignalOk, HasCompatibleVersion, StaysServed, Target

\* Every action keeps whom a stop is about.
LEMMA SignalStep == TypeOK /\ RecycledAreDead /\ SignalInv /\ [Next]_vars => SignalInv'
<1> SUFFICES ASSUME TypeOK, RecycledAreDead, SignalInv, [Next]_vars, NEW m \in Manager
             PROVE  SignalOk(m)'
  BY DEF SignalInv
<1> DEFINE d == op[m].info
<1>0. SignalOk(m) BY DEF SignalInv
<1>e. ASSUME op'[m].pc \notin Stopping PROVE SignalOk(m)'
  BY <1>e DEF SignalOk, Target, Stopping
<1>f. ASSUME op'[m].pc \in {"idle", "cached", "look", "existing", "lock", "reuse", "locked", "checking",
                             "spawn", "grace", "ready"}
      PROVE  SignalOk(m)'
  BY <1>e, <1>f DEF Stopping
<1>s. d \in Daemon /\ Served(d) => StaysServed(d) BY ServedStep
<1>1. CASE op'[m] = op[m] /\ ~Authenticate(m) /\ ~Signal(m)
  <2>1. gone'[m] = gone[m] BY <1>1, GoneMoves
  <2>2. CASE op[m].pc \in Stopping BY <1>0, <1>1, <2>1, <2>2, SignalKeeps
  <2>3. CASE op[m].pc \notin Stopping BY <1>1, <1>e, <2>3
  <2> QED BY <2>2, <2>3
<1>2. CASE Request(m)
  <2>1. op'[m] = op[m] \/ op'[m].pc \in {"cached", "look"}
    BY <1>2, StartsFacts DEF Request, Ensure, Restart, TypeOK
  <2>2. gone' = gone BY <1>2 DEF Request
  <2>3. CASE op'[m] = op[m] /\ op[m].pc \in Stopping BY <1>0, <2>2, <2>3, SignalKeeps
  <2> QED BY <1>e, <2>1, <2>3 DEF Stopping
<1>3. CASE Dies(m) BY <1>3, <1>e, EndsFacts DEF Dies, Stopping
<1>4. CASE StartQueued(m) BY <1>4, <1>e, StartsFacts DEF StartQueued, Stopping
<1>5. CASE CachedChecked(m)
  <2>1. op'[m].pc \in {"idle", "look"}
    BY <1>5, EndsFacts, ThrowsFacts, GoesFacts DEF CachedChecked
  <2> QED BY <1>e, <2>1 DEF Stopping
<1>6. CASE Look(m)
  <2>1. op'[m].pc \in {"existing", "lock"} \/ (op'[m].pc = "stop" /\ op'[m].force)
    BY <1>6, GoesOnFacts DEF Look
  <2> QED BY <1>e, <2>1 DEF SignalOk, Stopping, Target
<1>7. CASE ExistingChecked(m)
  <2>1. CASE Returns(m, d) BY <1>e, <2>1, EndsFacts DEF Stopping
  <2>2. CASE Works(Healthy(d)) /\ ~CanReuse(m, d) /\ Goes(m, "stop") /\ daemon' = daemon
    <3>1. op'[m].pc = "stop" /\ op'[m].force = op[m].force /\ op'[m].info = d BY <2>2, GoesFacts
    <3>2. d \in Daemon /\ daemon[d].at = "serving" BY <2>2 DEF Works, Healthy
    <3> QED BY <2>2, <3>1, <3>2 DEF SignalOk, Target, CanReuse, HasCompatibleVersion, Served
  <2>3. CASE Goes(m, "stop") /\ op[m].force
    <3>1. op'[m].pc = "stop" /\ op'[m].force BY <2>3, GoesFacts
    <3> QED BY <3>1 DEF SignalOk, Target
  <2>4. CASE Goes(m, "lock")
    <3>1. op'[m].pc = "lock" BY <2>4, GoesFacts
    <3> QED BY <1>f, <3>1
  <2> QED BY <1>7, <2>1, <2>2, <2>3, <2>4 DEF ExistingChecked
<1>8. CASE Stop(m)
  <2>1. CASE Goes(m, "auth")
    <3>1. op'[m].pc = "auth" /\ op'[m].force = op[m].force /\ op'[m].info = d BY <2>1, GoesFacts
    <3>2. op[m].pc \in Stopping BY <1>8 DEF Stop, Stopping
    <3> QED BY <1>0, <3>1, <3>2, SignalKeeps DEF Stopping, Target
  <2>2. CASE Throws(m) BY <1>e, <2>2, ThrowsFacts DEF Stopping
  <2>3. CASE Stopped(m) BY <1>e, <2>3, StoppedFacts DEF Stopping
  <2> QED BY <1>8, <2>1, <2>2, <2>3 DEF Stop
<1>9. CASE Authenticate(m)
  <2>1. CASE Throws(m) BY <1>e, <2>1, ThrowsFacts DEF Stopping
  <2>2. CASE /\ Authenticated(m) /\ gone' = [gone EXCEPT ![m] = recycled] /\ daemon' = daemon
             /\ Goes(m, IF op[m].pc = "auth" THEN "signal" ELSE "signal kill")
    <3>1. /\ op'[m].pc = IF op[m].pc = "auth" THEN "signal" ELSE "signal kill"
          /\ op'[m].force = op[m].force /\ op'[m].info = d
      BY <2>2, GoesFacts
    <3>2. d \in Daemon /\ Served(d) BY <2>2 DEF Authenticated, Answers, Served
    <3>3. d \notin gone'[m] BY <2>2 DEF Authenticated, Answers, RecycledAreDead, TypeOK
    <3>4. op[m].pc \in {"auth", "auth kill"} BY <1>9 DEF Authenticate
    <3>5. ~op[m].force => ~HasCompatibleVersion(m, d) BY <1>0, <3>4 DEF SignalOk, Stopping
    <3>6. op[m].pc = "auth kill" => daemon[d].at # "serving" BY <1>0 DEF SignalOk, Target
    <3> QED BY <2>2, <3>1, <3>2, <3>3, <3>4, <3>5, <3>6
      DEF SignalOk, Target, HasCompatibleVersion, Served
  <2> QED BY <1>9, <2>1, <2>2 DEF Authenticate, Works
<1>10. CASE Signal(m)
  <2>1. CASE Throws(m) BY <1>e, <2>1, ThrowsFacts DEF Stopping
  <2>2. CASE Goes(m, IF op[m].pc = "signal" THEN "term" ELSE "kill") /\ ~Throws(m)
    <3>1. /\ op'[m].pc = IF op[m].pc = "signal" THEN "term" ELSE "kill"
          /\ op'[m].force = op[m].force /\ op'[m].info = d
      BY <2>2, GoesFacts
    <3>2. op[m].pc \in {"signal", "signal kill"} BY <1>10 DEF Signal
    <3>3. d \in Daemon /\ Served(d) BY <1>0, <3>2 DEF SignalOk, Target
    <3>4. daemon'[d].at # "serving"
      <4>1. CASE op[m].pc = "signal" /\ Running(d)
        <5>1. Moves(d, Signalled(daemon[d].at)) BY <1>10, <2>2, <4>1 DEF Signal, Moves
        <5>2. daemon'[d].at = Signalled(daemon[d].at) BY <3>3, <5>1 DEF Moves, TypeOK
        <5> QED BY <5>2 DEF Signalled
      <4>2. CASE ~Running(d) BY <1>10, <2>2, <3>3, <4>2, <1>s DEF Running, Served, StaysServed
      <4>3. CASE op[m].pc = "signal kill" BY <1>0, <3>3, <4>3, <1>s DEF SignalOk, Target, StaysServed
      <4> QED BY <3>2, <4>1, <4>2, <4>3
    <3>5. ~op[m].force => ~HasCompatibleVersion(m, d) BY <1>0, <3>2 DEF SignalOk, Stopping
    <3> QED BY <3>1, <3>2, <3>3, <3>4, <3>5, <1>s DEF SignalOk, Target, HasCompatibleVersion, StaysServed
  <2> QED BY <1>10, <2>1, <2>2 DEF Signal
<1>11. CASE StopOver(m)
  <2>1. CASE Goes(m, "auth kill") /\ op[m].pc = "term"
    <3>1. op'[m].pc = "auth kill" /\ op'[m].force = op[m].force /\ op'[m].info = d BY <2>1, GoesFacts
    <3> QED BY <1>0, <2>1, <3>1, SignalKeeps DEF Stopping, Target
  <2>2. CASE Throws(m) BY <1>e, <2>2, ThrowsFacts DEF Stopping
  <2>3. CASE Stopped(m) BY <1>e, <2>3, StoppedFacts DEF Stopping
  <2> QED BY <1>11, <2>1, <2>2, <2>3 DEF StopOver
<1>12. CASE Lock(m)
  <2>1. CASE Goes(m, "locked") BY <1>f, <2>1, GoesFacts
  <2>2. CASE GoesOn(m, "reuse", pidFile') BY <1>f, <2>2, GoesOnFacts
  <2> QED BY <1>12, <2>1, <2>2 DEF Lock
<1>13. CASE Reuse(m)
  <2>1. CASE Goes(m, "lock") BY <1>f, <2>1, GoesFacts
  <2>2. CASE Returns(m, d) \/ op' = [op EXCEPT ![m] = Ended(None)] BY <1>f, <2>2, EndsFacts
  <2> QED BY <1>13, <2>1, <2>2 DEF Reuse
<1>14. CASE Locked(m) BY <1>14, <1>e, GoesOnFacts DEF Locked, Stopping
<1>15. CASE LockedChecked(m)
  <2>1. CASE Returns(m, d) BY <1>e, <2>1, EndsFacts DEF Stopping
  <2>2. CASE /\ op' = [op EXCEPT ![m].pc = "stop", ![m].back = "spawn"]
             /\ daemon' = daemon /\ (op[m].force \/ (Healthy(d) /\ ~CanReuse(m, d)))
    <3>1. op'[m].pc = "stop" /\ op'[m].force = op[m].force /\ op'[m].info = d BY <2>2, BackFacts DEF Pc
    <3>2. Healthy(d) => d \in Daemon /\ daemon[d].at = "serving" BY DEF Healthy
    <3> QED BY <2>2, <3>1, <3>2 DEF SignalOk, Target, CanReuse, HasCompatibleVersion, Served
  <2>3. CASE op' = [op EXCEPT ![m].pc = "spawn", ![m].back = "spawn"]
    BY <1>f, <2>3, BackFacts DEF Pc
  <2> QED BY <1>15, <2>1, <2>2, <2>3 DEF LockedChecked, Works
<1>16. CASE Spawn(m)
  <2>1. PICK e : GoesOn(m, "grace", e) BY <1>16 DEF Spawn
  <2> QED BY <1>f, <2>1, GoesOnFacts
<1>17. CASE Grace(m)
  <2>1. CASE Goes(m, "ready") BY <1>f, <2>1, GoesFacts
  <2>2. CASE Throws(m) BY <1>f, <2>2, ThrowsFacts
  <2> QED BY <1>17, <2>1, <2>2 DEF Grace
<1>18. CASE Ready(m) BY <1>18, <1>e, EndsFacts, ThrowsFacts DEF Ready, Stopping
<1> QED
  BY <1>1, <1>2, <1>3, <1>4, <1>5, <1>6, <1>7, <1>8, <1>9, <1>10, <1>11, <1>12, <1>13, <1>14, <1>15,
     <1>16, <1>17, <1>18, OpMoves DEF Step

\* No stop is under way at first.
LEMMA SignalInvInit == Init => RecycledAreDead /\ SignalInv
<1> SUFFICES ASSUME Init PROVE RecycledAreDead /\ SignalInv OBVIOUS
<1>1. recycled = {} /\ \A m \in Manager : op[m] = Ended(None) BY DEF Init
<1>2. \A m \in Manager : op[m].pc = "idle" BY <1>1, EndedFacts
<1> QED BY <1>1, <1>2 DEF RecycledAreDead, SignalInv, SignalOk, Target, Stopping

\* The types and whom stops are about, in every reachable state.
SInv == TypeOK /\ RecycledAreDead /\ SignalInv
LEMMA SignalInvariant == Spec => []SInv
<1>1. Init => SInv BY InitType, SignalInvInit DEF SInv
<1>2. SInv /\ [Next]_vars => SInv' BY TypeStep, RecycledStep, SignalStep DEF SInv
<1> QED BY <1>1, <1>2, PTL DEF Spec

\* A signal goes to the daemon that has just answered, at the worst to a process that
\* has got its id since; an ensure stops no daemon of its own version, and SIGKILL is
\* for one that has been told to shut down.
THEOREM SignalsCorrect == Spec => SignalsAreMeant
<1> DEFINE Meant(m) ==
      LET d == op[m].info IN
      /\ Signals(m, {"term", "kill"}) => /\ d \in Daemon \ gone[m]
                                        /\ (op[m].force \/ ~HasCompatibleVersion(m, d))
      /\ Signals(m, {"kill"}) => daemon[d].at \in {"stopping", "closed", "dead"}
<1>1. ASSUME SInv, [Next]_vars, NEW m \in Manager PROVE Meant(m)
  <2> DEFINE d == op[m].info
  <2>1. SignalOk(m) BY <1>1 DEF SInv, SignalInv
  <2>2. ASSUME Signals(m, {"kill"}) PROVE op[m].pc = "signal kill"
    <3>1. op'[m].pc = "kill" /\ op[m].pc \in {"signal", "signal kill"} BY <2>2 DEF Signals
    <3>2. ~Request(m)
      <4>1. Request(m) => op'[m] = op[m] \/ op'[m].pc \in {"cached", "look"}
        BY <1>1, StartsFacts DEF Request, Ensure, Restart, SInv, TypeOK
      <4> QED BY <3>1, <4>1
    <3>3. ~Dies(m) BY <1>1, <3>1, EndsFacts DEF Dies, SInv
    <3>6. Step(m) BY <1>1, <3>1, <3>2, <3>3, OpMoves DEF SInv
    <3>7. ~(StartQueued(m) \/ CachedChecked(m) \/ Look(m) \/ ExistingChecked(m) \/ Stop(m))
      BY <3>1 DEF StartQueued, CachedChecked, Look, ExistingChecked, Stop
    <3>8. ~(Authenticate(m) \/ StopOver(m) \/ Lock(m) \/ Reuse(m) \/ Locked(m))
      BY <3>1 DEF Authenticate, StopOver, Lock, Reuse, Locked
    <3>9. ~(LockedChecked(m) \/ Spawn(m) \/ Grace(m) \/ Ready(m))
      BY <3>1 DEF LockedChecked, Spawn, Grace, Ready
    <3>4. Signal(m) BY <3>6, <3>7, <3>8, <3>9 DEF Step
    <3>5. ~Throws(m) BY <1>1, <3>1, ThrowsFacts DEF SInv
    <3>10. ASSUME op[m].pc = "signal" PROVE FALSE
      <4>1. Goes(m, "term") BY <3>4, <3>5, <3>10 DEF Signal
      <4>2. op'[m].pc = "term" BY <1>1, <4>1, GoesFacts DEF SInv
      <4> QED BY <3>1, <4>2
    <3> QED BY <3>1, <3>10
  <2>3. Signals(m, {"term", "kill"}) => /\ d \in Daemon \ gone[m]
                                       /\ (op[m].force \/ ~HasCompatibleVersion(m, d))
    BY <2>1 DEF Signals, SignalOk, Target, Stopping
  <2>4. Signals(m, {"kill"}) => daemon[d].at \in {"stopping", "closed", "dead"}
    BY <2>1, <2>2 DEF SignalOk, Target, Served
  <2> QED BY <2>3, <2>4
<1>2. SInv /\ [Next]_vars => [\A m \in Manager : Meant(m)]_vars BY <1>1
<1> QED BY <1>2, SignalInvariant, PTL DEF Spec, SignalsAreMeant

-----------------------------------------------------------------------------
(* One daemon.  The empty lock stands for the one that has not yet written  *)
(* its process id; whoever takes a lock over has seen a dead daemon's, or   *)
(* none at all.                                                             *)

Holds(d) == daemon[d].at \in {"starting", "serving", "stopping", "closed"}

LockWasHeld == daemonLock \in Daemon => Holds(daemonLock) \/ daemon[daemonLock].at = "dead"
TakerSawDead ==
  \A d \in Daemon : daemon[d].at = "stale"
    => \/ daemon[d].seen = None
       \/ daemon[d].seen \in Daemon /\ daemon[daemon[d].seen].at = "dead"
LockOfOwner ==
  \A d \in Daemon :
    /\ daemon[d].at = "owner" => daemonLock = Empty
    /\ Holds(d) => daemonLock = d
OneOwner == \A d, e \in Daemon : daemon[d].at = "owner" /\ daemon[e].at = "owner" => d = e
Owned == LockOfOwner /\ OneOwner /\ ServingIsFound

DaemonInv == LockWasHeld /\ TakerSawDead /\ (contested \/ Owned)

\* The strengthening is at least DaemonIsSound.
LEMMA DaemonInvImplies == TypeOK /\ DaemonInv => DaemonIsSound
<1> SUFFICES ASSUME TypeOK, DaemonInv, ~contested, NEW d \in Daemon, NEW e \in Daemon, Owns(d), Owns(e)
             PROVE  d = e
  BY DEF DaemonIsSound, DaemonInv, OneDaemon, Owned
<1>1. (daemon[d].at = "owner" \/ Holds(d)) /\ (daemon[e].at = "owner" \/ Holds(e))
  BY DEF Owns, Holds
<1>2. CASE Holds(d) \/ Holds(e) BY <1>1, <1>2, Numbers DEF DaemonInv, Owned, LockOfOwner
<1>3. CASE daemon[d].at = "owner" /\ daemon[e].at = "owner" BY <1>3 DEF DaemonInv, Owned, OneOwner
<1> QED BY <1>1, <1>2, <1>3

\* The strengthening holds before anything is spawned.
LEMMA DaemonInvInit == Init => DaemonInv
  BY Numbers
  DEF Init, DaemonInv, Owned, LockOfOwner, OneOwner, LockWasHeld, TakerSawDead, ServingIsFound, Holds

\* A daemon moves on, or ends, and takes at most its own files with it.
LEMMA MovesKeeps ==
  ASSUME TypeOK, DaemonInv, NEW d \in Daemon, NEW at \in At, Moves(d, at), contested' = contested,
         \/ daemon[d].at = "serving" /\ at = "stopping"
         \/ daemon[d].at \in {"stopping", "closed"} /\ at = "closed"
         \/ Running(d) /\ at = "dead"
         \/ daemon[d].at = "look" /\ at = "lock"
         \/ daemon[d].at = "lock" /\ at = "found",
         daemonLock' = daemonLock \/ (at = "dead" /\ daemonLock = d /\ daemonLock' = None),
         pidFile' = pidFile \/ (at = "dead" /\ pidFile = d)
  PROVE  DaemonInv'
<1>1. daemon \in [Daemon -> Process] BY DEF TypeOK, Process, At
<1>2. \A e \in Daemon : /\ daemon'[e].at = IF e = d THEN at ELSE daemon[e].at
                        /\ daemon'[e].seen = daemon[e].seen
  BY <1>1 DEF Moves, Process
<1>3. LockWasHeld' BY <1>2, Numbers DEF DaemonInv, LockWasHeld, Holds
<1>4. TakerSawDead' BY <1>2 DEF DaemonInv, TakerSawDead, Running
<1>5. ASSUME Owned PROVE Owned'
  <2>1. LockOfOwner' BY <1>2, <1>5, Numbers DEF Owned, LockOfOwner, Holds
  <2>2. OneOwner' BY <1>2, <1>5 DEF Owned, OneOwner
  <2>3. ServingIsFound' BY <1>2, <1>5 DEF Owned, ServingIsFound
  <2> QED BY <2>1, <2>2, <2>3 DEF Owned
<1> QED BY <1>3, <1>4, <1>5 DEF DaemonInv

\* A daemon exits with its handler, wherever it is.
LEMMA ExitsKeeps ==
  ASSUME TypeOK, DaemonInv, NEW d \in Daemon, Running(d), Exits(d), contested' = contested
  PROVE  DaemonInv'
  BY MovesKeeps DEF Exits, At

\* pid.json is removed only after a look that found its daemon dead.
LEMMA RemovalKeeps ==
  ASSUME TypeOK, DaemonInv, UNCHANGED <<daemon, daemonLock, contested>>,
         pidFile' = pidFile \/ ~Alive(pidFile)
  PROVE  DaemonInv'
<1>1. Owned => ServingIsFound' BY DEF Owned, ServingIsFound, Alive, Running
<1> QED BY <1>1 DEF DaemonInv, Owned, LockOfOwner, OneOwner, LockWasHeld, TakerSawDead, Holds

\* A daemon starts, or looks, and is no owner of anything.
LEMMA OutsideKeeps ==
  ASSUME TypeOK, DaemonInv, NEW d \in Daemon,
         daemon[d].at \in {"none", "new"} \/ (daemon[d].at = "found" /\ ~Alive(daemonLock)),
         daemon'[d].at \in {"new", "look", "lock"}
           \/ (daemon[d].at = "found" /\ daemon'[d].at = "stale" /\ daemon'[d].seen = daemonLock),
         \A e \in Daemon \ {d} : daemon'[e] = daemon[e],
         UNCHANGED <<pidFile, daemonLock, contested>>
  PROVE  DaemonInv'
<1>1. LockWasHeld' BY DEF DaemonInv, LockWasHeld, Holds
<1>2. TakerSawDead'
  <2> SUFFICES ASSUME NEW e \in Daemon, daemon'[e].at = "stale"
               PROVE  \/ daemon'[e].seen = None
                      \/ daemon'[e].seen \in Daemon /\ daemon'[daemon'[e].seen].at = "dead"
    BY DEF TakerSawDead
  <2>1. CASE e # d BY <2>1 DEF DaemonInv, TakerSawDead
  <2>2. CASE e = d
    <3>1. daemon'[d].seen = daemonLock /\ ~Alive(daemonLock) BY <2>2
    <3>2. daemonLock \in Daemon \cup {None} BY <3>1 DEF Alive, TypeOK
    <3>3. daemonLock \in Daemon => daemon[daemonLock].at = "dead"
      BY <3>1 DEF DaemonInv, LockWasHeld, Holds, Alive, Running
    <3> QED BY <2>2, <3>1, <3>2, <3>3
  <2> QED BY <2>1, <2>2
<1>3. Owned => LockOfOwner' BY DEF Owned, LockOfOwner, Holds
<1>4. Owned => OneOwner' BY DEF Owned, OneOwner
<1>5. Owned => ServingIsFound' BY DEF Owned, ServingIsFound
<1> QED BY <1>1, <1>2, <1>3, <1>4, <1>5 DEF DaemonInv, Owned

\* Every action keeps the strengthening; a daemon.lock that is taken over as it was
\* found has no owner.
LEMMA DaemonInvStep == SInv /\ DaemonInv /\ [Next]_vars => DaemonInv'
<1> SUFFICES ASSUME SInv, DaemonInv, [Next]_vars PROVE DaemonInv'
  OBVIOUS
<1> USE DEF At, SInv
<1>0. daemon \in [Daemon -> Process] BY DEF TypeOK, Process
<1>1. CASE UNCHANGED <<daemon, daemonLock, pidFile, contested>>
  BY <1>1, RemovalKeeps
<1>2. ASSUME NEW m \in Manager, Stop(m) \/ StopOver(m) \/ Lock(m) PROVE DaemonInv'
  <2>1. UNCHANGED <<daemon, daemonLock, contested>> /\ (pidFile' = pidFile \/ ~Alive(pidFile))
    BY <1>2 DEF Stop, StopOver, Stopped, Lock
  <2> QED BY <2>1, RemovalKeeps
<1>3. ASSUME NEW m \in Manager, Signal(m) PROVE DaemonInv'
  <2> DEFINE d == op[m].info
  <2>1. UNCHANGED <<pidFile, daemonLock, contested>> BY <1>3 DEF Signal
  <2>2. CASE UNCHANGED daemon BY <1>1, <2>1, <2>2
  <2>3. CASE daemon' # daemon
    <3>1. d \in Daemon /\ Running(d) /\ Served(d)
      BY <1>3, <2>3 DEF Signal, Running, SignalInv, SignalOk, Target
    <3>2. CASE Moves(d, "dead") BY <2>1, <3>1, <3>2, MovesKeeps
    <3>3. CASE Moves(d, Signalled(daemon[d].at))
      <4>1. \/ daemon[d].at = "serving" /\ Moves(d, "stopping")
            \/ daemon[d].at \in {"stopping", "closed"} /\ Moves(d, "closed")
        BY <3>1, <3>3 DEF Running, Served, Signalled
      <4> QED BY <2>1, <4>1, <3>1, MovesKeeps
    <3>4. op[m].pc = "signal" \/ op[m].pc = "signal kill" BY <1>3 DEF Signal
    <3> QED BY <1>3, <2>3, <3>2, <3>3, <3>4 DEF Signal, Moves
  <2> QED BY <2>2, <2>3
<1>4. ASSUME NEW m \in Manager, Spawn(m) PROVE DaemonInv'
  <2>1. PICK d \in Daemon :
          /\ daemon[d].at = "none"
          /\ daemon' = [daemon EXCEPT ![d] = [at |-> "new", updated |-> m \in Updated, seen |-> None]]
    BY <1>4 DEF Spawn
  <2>2. daemon'[d].at = "new" /\ \A e \in Daemon \ {d} : daemon'[e] = daemon[e] BY <1>0, <2>1
  <2>3. UNCHANGED <<pidFile, daemonLock, contested>> BY <1>4 DEF Spawn
  <2> QED BY <2>1, <2>2, <2>3, OutsideKeeps
<1>5. ASSUME NEW d \in Daemon, Looks(d) PROVE DaemonInv'
  <2>1. PICK a \in {"look", "lock"} : daemon' = [daemon EXCEPT ![d].seen = pidFile, ![d].at = a]
    BY <1>5 DEF Looks
  <2>2. daemon'[d].at = a /\ \A e \in Daemon \ {d} : daemon'[e] = daemon[e] BY <1>0, <2>1 DEF Process
  <2>3. UNCHANGED <<pidFile, daemonLock, contested>> /\ daemon[d].at = "new" BY <1>5 DEF Looks
  <2> QED BY <2>2, <2>3, OutsideKeeps
<1>6. ASSUME NEW d \in Daemon, Looked(d) \/ ShutDown(d) \/ Fail(d) \/ Closes(d) PROVE DaemonInv'
  <2>1. contested' = contested /\ Running(d) BY <1>6 DEF Looked, ShutDown, Fail, Closes, Running
  <2>2. CASE Exits(d) BY <2>1, <2>2, ExitsKeeps
  <2>3. CASE /\ UNCHANGED <<pidFile, daemonLock>>
             /\ \/ daemon[d].at = "look" /\ Moves(d, "lock")
                \/ daemon[d].at = "serving" /\ Moves(d, "stopping")
                \/ daemon[d].at = "stopping" /\ Moves(d, "closed")
                \/ Moves(d, "dead")
    BY <2>1, <2>3, MovesKeeps
  <2> QED BY <1>6, <2>2, <2>3 DEF Looked, ShutDown, Fail, Closes
<1>7. ASSUME NEW d \in Daemon, TakesLock(d) PROVE DaemonInv'
  <2>1. daemon[d].at = "lock" /\ contested' = contested /\ pidFile' = pidFile BY <1>7 DEF TakesLock
  <2>2. CASE Moves(d, "found") /\ UNCHANGED daemonLock BY <2>1, <2>2, MovesKeeps
  <2>3. CASE daemonLock = None /\ Moves(d, "owner") /\ daemonLock' = Empty
    <3>1. \A e \in Daemon : /\ daemon'[e].at = IF e = d THEN "owner" ELSE daemon[e].at
                            /\ daemon'[e].seen = daemon[e].seen
      BY <1>0, <2>3 DEF Moves, Process
    <3>2. Owned => \A e \in Daemon : daemon[e].at # "owner" /\ ~Holds(e)
      BY <2>3, Numbers DEF Owned, LockOfOwner
    <3>3. Owned => LockOfOwner' /\ OneOwner' BY <2>3, <3>1, <3>2 DEF LockOfOwner, OneOwner, Holds
    <3>4. LockWasHeld' BY <2>3, Numbers DEF LockWasHeld
    <3>5. TakerSawDead' BY <2>1, <3>1 DEF DaemonInv, TakerSawDead
    <3>6. Owned => ServingIsFound' BY <2>1, <3>1 DEF Owned, ServingIsFound
    <3> QED BY <2>1, <3>3, <3>4, <3>5, <3>6 DEF DaemonInv, Owned
  <2> QED BY <1>7, <2>2, <2>3 DEF TakesLock
<1>15. ASSUME NEW d \in Daemon, Found(d) PROVE DaemonInv'
  <2>1. daemon[d].at = "found" /\ contested' = contested BY <1>15 DEF Found
  <2>2. CASE Exits(d) BY <2>1, <2>2, ExitsKeeps DEF Running
  <2>3. CASE /\ daemonLock = None \/ ~Alive(daemonLock)
             /\ daemon' = [daemon EXCEPT ![d].at = "stale", ![d].seen = daemonLock]
             /\ UNCHANGED <<pidFile, daemonLock>>
    <3>1. /\ daemon'[d].at = "stale" /\ daemon'[d].seen = daemonLock
          /\ \A e \in Daemon \ {d} : daemon'[e] = daemon[e]
      BY <1>0, <2>3 DEF Process
    <3>2. ~Alive(daemonLock) BY <2>3, Numbers DEF Alive, Running, TypeOK
    <3> QED BY <2>1, <2>3, <3>1, <3>2, OutsideKeeps
  <2> QED BY <1>15, <2>2, <2>3 DEF Found
<1>8. ASSUME NEW d \in Daemon, TakesOver(d) PROVE DaemonInv'
  <2>1. /\ daemon[d].at = "stale" /\ daemonLock' = Empty /\ pidFile' = pidFile
        /\ contested' = (contested \/ daemonLock # daemon[d].seen)
    BY <1>8 DEF TakesOver
  <2>2. \A e \in Daemon : /\ daemon'[e].at = IF e = d THEN "owner" ELSE daemon[e].at
                          /\ daemon'[e].seen = daemon[e].seen
    BY <1>0, <1>8 DEF TakesOver, Moves, Process
  <2>3. ASSUME Owned, ~contested' PROVE \A e \in Daemon : daemon[e].at # "owner" /\ ~Holds(e)
    <3>1. daemonLock = None \/ (daemonLock \in Daemon /\ daemon[daemonLock].at = "dead")
      BY <2>1, <2>3 DEF DaemonInv, TakerSawDead
    <3> QED BY <2>3, <3>1, Numbers DEF Owned, LockOfOwner, Holds
  <2>4. Owned /\ ~contested' => LockOfOwner' /\ OneOwner'
    BY <2>1, <2>2, <2>3 DEF LockOfOwner, OneOwner, Holds
  <2>5. LockWasHeld' BY <2>1, Numbers DEF LockWasHeld
  <2>6. TakerSawDead' BY <2>1, <2>2 DEF DaemonInv, TakerSawDead
  <2>7. Owned => ServingIsFound' BY <2>1, <2>2 DEF Owned, ServingIsFound
  <2> QED BY <2>1, <2>4, <2>5, <2>6, <2>7 DEF DaemonInv, Owned
<1>9. ASSUME NEW d \in Daemon, WritesLock(d) PROVE DaemonInv'
  <2>1. /\ daemon[d].at = "owner" /\ UNCHANGED <<pidFile, contested>>
        /\ daemonLock' = d \/ (contested /\ daemonLock' = daemonLock)
    BY <1>9 DEF WritesLock
  <2>2. \A e \in Daemon : /\ daemon'[e].at = IF e = d THEN "starting" ELSE daemon[e].at
                          /\ daemon'[e].seen = daemon[e].seen
    BY <1>0, <1>9 DEF WritesLock, Moves, Process
  <2>3. Owned => \A e \in Daemon : (daemon[e].at = "owner" => e = d) /\ ~Holds(e)
    BY <2>1, Numbers DEF Owned, LockOfOwner, OneOwner
  <2>4. Owned /\ ~contested => LockOfOwner' /\ OneOwner'
    BY <2>1, <2>2, <2>3 DEF LockOfOwner, OneOwner, Holds
  <2>5. LockWasHeld' BY <2>1, <2>2 DEF DaemonInv, LockWasHeld, Holds
  <2>6. TakerSawDead' BY <2>1, <2>2 DEF DaemonInv, TakerSawDead
  <2>7. Owned => ServingIsFound' BY <2>1, <2>2 DEF Owned, ServingIsFound
  <2> QED BY <2>1, <2>4, <2>5, <2>6, <2>7 DEF DaemonInv, Owned
<1>10. ASSUME NEW d \in Daemon, Serves(d) PROVE DaemonInv'
  <2>1. daemon[d].at = "starting" /\ pidFile' = d /\ UNCHANGED <<daemonLock, contested>>
    BY <1>10 DEF Serves
  <2>2. \A e \in Daemon : /\ daemon'[e].at = IF e = d THEN "serving" ELSE daemon[e].at
                          /\ daemon'[e].seen = daemon[e].seen
    BY <1>0, <1>10 DEF Serves, Moves, Process
  <2>3. Owned => \A e \in Daemon : Holds(e) => e = d BY <2>1 DEF Owned, LockOfOwner, Holds
  <2>4. Owned => LockOfOwner' /\ OneOwner' BY <2>1, <2>2 DEF Owned, LockOfOwner, OneOwner, Holds
  <2>5. LockWasHeld' BY <2>1, <2>2 DEF DaemonInv, LockWasHeld, Holds
  <2>6. TakerSawDead' BY <2>1, <2>2 DEF DaemonInv, TakerSawDead
  <2>7. Owned => ServingIsFound' BY <2>1, <2>2, <2>3 DEF ServingIsFound, Holds
  <2> QED BY <2>1, <2>4, <2>5, <2>6, <2>7 DEF DaemonInv, Owned
<1>11. ASSUME NEW d \in Daemon, Recycle(d) PROVE DaemonInv' BY <1>1, <1>11 DEF Recycle
<1>12. CASE UNCHANGED vars BY <1>1, <1>12
<1>13. ASSUME NEW m \in Manager,
              \/ Request(m) \/ StartQueued(m) \/ CachedChecked(m) \/ Look(m) \/ ExistingChecked(m)
              \/ Authenticate(m) \/ Reuse(m) \/ Locked(m) \/ LockedChecked(m) \/ Grace(m) \/ Ready(m)
              \/ Dies(m)
       PROVE  DaemonInv'
  BY <1>1, <1>13
  DEF Request, StartQueued, CachedChecked, Look, ExistingChecked, Authenticate, Reuse, Locked,
      LockedChecked, Grace, Ready, Dies
<1>14. CASE GrowsOld BY <1>1, <1>14 DEF GrowsOld
<1> QED
  BY <1>2, <1>3, <1>4, <1>5, <1>6, <1>7, <1>8, <1>9, <1>10, <1>11, <1>12, <1>13, <1>14, <1>15
  DEF Next, Step, DaemonStep

\* Whatever hosts and daemons do, fail and leave behind: two daemons come by
\* daemon.lock only through one that takes it over when it is no longer what that one
\* has seen, and until then the daemon that serves is in pid.json.
THEOREM DaemonCorrect == Spec => []DaemonIsSound
<1>1. Init => DaemonInv BY DaemonInvInit
<1>2. SInv /\ DaemonInv /\ [Next]_vars => DaemonInv' BY DaemonInvStep
<1>3. SInv /\ DaemonInv => DaemonIsSound BY DaemonInvImplies DEF SInv
<1> QED BY <1>1, <1>2, <1>3, SignalInvariant, PTL DEF Spec

-----------------------------------------------------------------------------
(* Restarts.                                                               *)

IdleIsFree == \A m \in Manager : op[m].pc = "idle" => ~op[m].force
BarredServed == \A m \in Manager : \A b \in barred[m] : Served(b)
RestartStops ==
  \A m \in Manager : \A b \in barred[m] :
    op[m].force /\ daemon[b].at = "serving"
      => \/ op[m].pc \in {"cached", "look"}
         \/ op[m].pc \in {"existing", "stop", "auth", "signal"} /\ op[m].info = b
         \/ pidFile # b
RestartInv == IdleIsFree /\ BarredServed /\ RestartStops

\* pid.json comes to name a daemon only when that begins to serve.
LEMMA PidMoves ==
  ASSUME TypeOK, [Next]_vars, NEW b \in Daemon, daemon[b].at = "serving", pidFile # b
  PROVE  pidFile' # b
<1>1. pidFile' = pidFile \/ pidFile' = None \/ (\E d \in Daemon : pidFile' = d /\ daemon[d].at = "starting")
  <2>1. ASSUME NEW m \in Manager, Request(m) \/ Step(m) \/ Dies(m) PROVE pidFile' = pidFile \/ pidFile' = None
    BY <2>1
    DEF Request, Dies, Step, StartQueued, CachedChecked, Look, ExistingChecked, Stop, Stopped, Authenticate,
        Signal, StopOver, Lock, Reuse, Locked, LockedChecked, Spawn, Grace, Ready
  <2>2. ASSUME NEW e \in Daemon, DaemonStep(e) \/ Fail(e) \/ Recycle(e), ~Serves(e)
        PROVE  pidFile' = pidFile \/ pidFile' = None
    BY <2>2
    DEF DaemonStep, Looks, Looked, TakesLock, Found, TakesOver, WritesLock, Closes, ShutDown, Fail,
        Recycle, Exits
  <2>3. ASSUME NEW e \in Daemon, Serves(e) PROVE pidFile' = e /\ daemon[e].at = "starting"
    BY <2>3 DEF Serves
  <2>4. GrowsOld \/ UNCHANGED vars => pidFile' = pidFile BY DEF GrowsOld
  <2> QED BY <2>1, <2>2, <2>3, <2>4 DEF Next
<1> QED BY <1>1, Numbers

\* A forced operation neither takes up the daemon it knows nor the one it finds.
LEMMA StepShape ==
  ASSUME TypeOK, NEW m \in Manager, Step(m) \/ Dies(m)
  PROVE  \/ op'[m].pc \in {"cached", "look"}
         \/ /\ op'[m].pc = "idle" /\ op'[m].force = FALSE
            /\ op[m].force => \/ op'[m].info = None
                              \/ /\ op[m].pc = "ready" /\ op'[m].info = pidFile
                                 /\ Healthy(pidFile)
         \/ op'[m].pc # "idle" /\ op'[m].force = op[m].force
<1> DEFINE Shape == \/ op'[m].pc \in {"cached", "look"}
                    \/ /\ op'[m].pc = "idle" /\ op'[m].force = FALSE
                       /\ op[m].force => \/ op'[m].info = None
                                         \/ /\ op[m].pc = "ready" /\ op'[m].info = pidFile
                                            /\ Healthy(pidFile)
                    \/ op'[m].pc # "idle" /\ op'[m].force = op[m].force
<1>a. ASSUME NEW pc \in Pc \ {"idle"}, Goes(m, pc) PROVE Shape BY <1>a, GoesFacts
<1>b. ASSUME NEW pc \in Pc \ {"idle"}, NEW d, GoesOn(m, pc, d) PROVE Shape BY <1>b, GoesOnFacts
<1>c. ASSUME Throws(m) PROVE Shape BY <1>c, ThrowsFacts
<1>d. ASSUME NEW d, Returns(m, d), ~op[m].force PROVE Shape BY <1>d, EndsFacts
<1>e. ASSUME op' = [op EXCEPT ![m] = Ended(None)] PROVE Shape BY <1>e, EndsFacts
<1>f. ASSUME Stopped(m) PROVE Shape BY <1>f, StoppedFacts
<1> SUFFICES Shape OBVIOUS
<1> HIDE DEF Shape
<1> USE DEF Pc
<1>1. CASE StartQueued(m) BY <1>1, StartsFacts DEF StartQueued, Shape
<1>2. CASE CachedChecked(m)
  <2>1. CASE op' = [op EXCEPT ![m] = Ended(cache[m])] /\ ~op[m].force BY <2>1, EndsFacts DEF Shape
  <2> QED BY <1>2, <2>1, <1>a, <1>c DEF CachedChecked, CanReuse, Works
<1>3. CASE Look(m) \/ Locked(m) \/ Spawn(m)
  <2>1. PICK pc \in Pc \ {"idle"}, d \in Daemon \cup {None} : GoesOn(m, pc, d)
    BY <1>3 DEF Look, Locked, Spawn, TypeOK
  <2> QED BY <2>1, <1>b
<1>4. CASE ExistingChecked(m) BY <1>4, <1>a, <1>d DEF ExistingChecked, CanReuse
<1>5. CASE Stop(m) BY <1>5, <1>a, <1>c, <1>f DEF Stop
<1>6. CASE Authenticate(m) \/ Signal(m) BY <1>6, <1>a, <1>c DEF Authenticate, Signal
<1>7. CASE StopOver(m) BY <1>7, <1>a, <1>c, <1>f DEF StopOver
<1>8. CASE Lock(m) BY <1>8, <1>a, <1>b DEF Lock
<1>9. CASE Reuse(m) BY <1>9, <1>a, <1>d, <1>e DEF Reuse, CanReuse, Works
<1>10. CASE LockedChecked(m)
  <2>1. CASE Returns(m, op[m].info) /\ CanReuse(m, op[m].info) BY <2>1, <1>d DEF CanReuse
  <2>2. CASE \E pc \in {"stop", "spawn"} : op' = [op EXCEPT ![m].pc = pc, ![m].back = "spawn"]
    BY <2>2, BackFacts DEF Shape
  <2> QED BY <1>10, <2>1, <2>2 DEF LockedChecked
<1>11. CASE Grace(m) BY <1>11, <1>a, <1>c DEF Grace
<1>12. CASE Ready(m)
  <2>1. CASE Returns(m, pidFile) /\ Healthy(pidFile)
    BY <1>12, <2>1, EndsFacts DEF Ready, Shape
  <2> QED BY <1>12, <2>1, <1>c DEF Ready, Works
<1>13. CASE Dies(m) BY <1>13, <1>e DEF Dies
<1> QED
  BY <1>1, <1>2, <1>3, <1>4, <1>5, <1>6, <1>7, <1>8, <1>9, <1>10, <1>11, <1>12, <1>13 DEF Step

\* Every action keeps what a restart may return.
LEMMA RestartStep ==
  ASSUME TypeOK, RestartInv, [Next]_vars
  PROVE  RestartInv'
<1>0. op \in [Manager -> Op] /\ \A m \in Manager : op[m].force \in BOOLEAN /\ barred[m] \subseteq Daemon
  BY DEF TypeOK, Op
<1>1. ASSUME NEW m \in Manager, Request(m)
      PROVE  /\ op'[m] = op[m] \/ op'[m].pc \in {"cached", "look"}
             /\ \/ barred'[m] \in {{}, Serving}
                \/ op'[m] = op[m] /\ barred'[m] = barred[m]
             /\ barred'[m] # barred[m] => ~op'[m].force \/ op'[m].pc \in {"cached", "look"}
  <2>1. barred \in [Manager -> SUBSET Daemon] BY DEF TypeOK
  <2>3. CASE Ensure(m) BY <2>1, <2>3, StartsFacts DEF Ensure
  <2>4. CASE Restart(m) BY <2>1, <2>4, StartsFacts DEF Restart
  <2> QED BY <1>1, <2>3, <2>4 DEF Request
<1>2. IdleIsFree'
  <2> SUFFICES ASSUME NEW m \in Manager, op'[m].pc = "idle" PROVE ~op'[m].force
    BY DEF IdleIsFree
  <2>1. CASE Request(m) BY <1>1, <2>1 DEF RestartInv, IdleIsFree
  <2>2. CASE Step(m) \/ Dies(m) BY <2>2, StepShape
  <2>3. CASE op'[m] = op[m] BY <2>3 DEF RestartInv, IdleIsFree
  <2> QED BY <2>1, <2>2, <2>3, OpMoves
<1>3. BarredServed'
  <2> SUFFICES ASSUME NEW m \in Manager, NEW b \in barred'[m] PROVE Served(b)'
    BY DEF BarredServed
  <2>1. CASE b \in barred[m] BY <1>0, <2>1, ServedStep DEF RestartInv, BarredServed, StaysServed
  <2>2. CASE b \in Serving /\ Request(m)
    BY <2>2 DEF Serving, Served, Request
  <2> QED BY <1>1, <2>1, <2>2, OpMoves
<1>4. RestartStops'
  <2> SUFFICES ASSUME NEW m \in Manager, NEW b \in barred'[m], op'[m].force, daemon'[b].at = "serving",
                      pidFile' = b, op'[m].pc \notin {"cached", "look"}
               PROVE  op'[m].pc \in {"existing", "stop", "auth", "signal"} /\ op'[m].info = b
    BY DEF RestartStops
  <2>0. CASE barred'[m] # barred[m]
    <3>1. Request(m) BY <2>0, OpMoves
    <3> QED BY <1>1, <2>0, <3>1
  <2>1. CASE b \in barred[m] /\ barred'[m] = barred[m]
    <3>1. b \in Daemon /\ daemon[b].at = "serving"
      BY <1>0, <2>1, ServedStep DEF RestartInv, BarredServed, StaysServed
    <3>5. pidFile = b BY <3>1, PidMoves
    <3>2. CASE op'[m] = op[m] BY <2>1, <3>1, <3>2, <3>5 DEF RestartInv, RestartStops
    <3>3. CASE Request(m) BY <1>1, <3>2, <3>3
    <3>4. CASE Step(m) \/ Dies(m)
      <4>1. op[m].force /\ op'[m].pc # "idle" BY <3>4, StepShape
      <4>2. \/ op[m].pc \in {"cached", "look"}
            \/ op[m].pc \in {"existing", "stop", "auth", "signal"} /\ op[m].info = b
        BY <2>1, <3>1, <3>5, <4>1 DEF RestartInv, RestartStops
      <4>3. ~CachedChecked(m)
        <5>1. ~CanReuse(m, cache[m]) BY <4>1 DEF CanReuse
        <5>2. ~Goes(m, "look") BY GoesFacts
        <5>3. ~Throws(m) BY <4>1, ThrowsFacts
        <5> QED BY <5>1, <5>2, <5>3 DEF CachedChecked
      <4>4. CASE Look(m)
        <5>1. Alive(b) BY <3>1 DEF Alive, Running
        <5> QED BY <3>5, <4>4, <5>1, GoesOnFacts DEF Look
      <4>5. CASE ExistingChecked(m)
        <5>1. ~Returns(m, op[m].info) BY <4>1, EndsFacts
        <5>2. Goes(m, "stop") BY <4>1, <4>5, <5>1 DEF ExistingChecked
        <5> QED BY <4>2, <4>5, <5>2, GoesFacts DEF ExistingChecked
      <4>6. CASE Stop(m)
        <5>1. op[m].info = b BY <4>2, <4>6 DEF Stop
        <5>2. Alive(b) BY <3>1 DEF Alive, Running
        <5>3. Goes(m, "auth") BY <4>1, <4>6, <5>1, <5>2, ThrowsFacts DEF Stop
        <5> QED BY <5>1, <5>3, GoesFacts
      <4>12. CASE Authenticate(m)
        <5>1. op[m].info = b /\ op[m].pc = "auth" BY <4>2, <4>12 DEF Authenticate
        <5>2. Goes(m, "signal") BY <4>1, <4>12, <5>1, ThrowsFacts DEF Authenticate
        <5> QED BY <5>1, <5>2, GoesFacts
      <4>7. CASE Signal(m)
        <5>1. op[m].info = b /\ op[m].pc = "signal" BY <4>2, <4>7 DEF Signal
        <5>2. daemon' = [daemon EXCEPT ![b].at = Signalled(@)]
          BY <3>1, <4>1, <4>7, <5>1, ThrowsFacts DEF Signal, Running
        <5>3. daemon \in [Daemon -> Process] BY DEF TypeOK, Process, At
        <5>4. daemon'[b].at = Signalled("serving") BY <3>1, <5>2, <5>3 DEF Process
        <5> QED BY <5>4 DEF Signalled
      <4>8. op[m].pc \in {"cached", "look", "existing", "stop", "auth", "signal"} BY <4>2
      <4>9. ~(StopOver(m) \/ Lock(m) \/ Reuse(m) \/ Locked(m) \/ LockedChecked(m) \/ Spawn(m)
              \/ Grace(m) \/ Ready(m))
        BY <4>8 DEF StopOver, Lock, Reuse, Locked, LockedChecked, Spawn, Grace, Ready
      <4>10. ~StartQueued(m) BY StartsFacts DEF StartQueued
      <4>11. ~Dies(m) BY <4>1, EndsFacts DEF Dies
      <4> QED BY <3>4, <4>3, <4>4, <4>5, <4>6, <4>7, <4>9, <4>10, <4>11, <4>12 DEF Step
    <3> QED BY <3>2, <3>3, <3>4, OpMoves
  <2> QED BY <2>0, <2>1
<1> QED BY <1>2, <1>3, <1>4 DEF RestartInv

\* No restart is under way at first.
LEMMA RestartInvInit == Init => RestartInv
<1> SUFFICES ASSUME Init PROVE RestartInv OBVIOUS
<1>1. \A m \in Manager : op[m] = Ended(None) /\ barred[m] = {} BY DEF Init
<1>2. IdleIsFree BY <1>1, EndedFacts DEF IdleIsFree
<1>3. BarredServed /\ RestartStops BY <1>1 DEF BarredServed, RestartStops
<1> QED BY <1>2, <1>3 DEF RestartInv

\* However requests queue up behind each other, whatever fails and however many
\* daemons run, a restart hands out none of those that served when it was asked for.
THEOREM RestartCorrect == Spec => RestartIsNew
<1>1. Init => RestartInv BY RestartInvInit
<1>2. SInv /\ RestartInv /\ [Next]_vars => RestartInv' BY RestartStep DEF SInv
<1>3. SInv /\ RestartInv /\ [Next]_vars =>
        [\A m \in Manager : op[m].force /\ op'[m].pc = "idle" => op'[m].info \notin barred[m]]_vars
  <2> SUFFICES ASSUME TypeOK, RestartInv, [Next]_vars, NEW m \in Manager, op[m].force, op'[m].pc = "idle"
               PROVE  op'[m].info \notin barred[m]
    BY DEF SInv
  <2>1. op[m].pc # "idle" BY DEF RestartInv, IdleIsFree
  <2>2. ~Request(m)
    <3>1. ~Ensure(m) BY <2>1 DEF Ensure
    <3>2. Restart(m) => op' = op BY <2>1 DEF Restart
    <3> QED BY <2>1, <3>1, <3>2 DEF Request
  <2>3. Step(m) \/ Dies(m) BY <2>1, <2>2, OpMoves
  <2>4. CASE op'[m].info = None BY <2>4, Numbers DEF TypeOK
  <2>5. CASE op[m].pc = "ready" /\ op'[m].info = pidFile /\ Healthy(pidFile)
    BY <2>5 DEF Healthy, RestartInv, RestartStops
  <2> QED BY <2>3, <2>4, <2>5, StepShape
<1> QED BY <1>1, <1>2, <1>3, SignalInvariant, PTL DEF Spec, RestartIsNew
=============================================================================
