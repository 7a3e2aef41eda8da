--------------------------- MODULE DaemonManager ---------------------------
(***************************************************************************)
(* One daemon for all hosts of a home directory.  A host process (the      *)
(* application, the chat command) finds or starts the daemon through       *)
(* createDaemonManager of packages/codesurf-daemon/src/manager.ts; hosts   *)
(* know of each other by the file startup.lock only.  The daemon, start    *)
(* and shutdown in packages/codesurf-daemon/bin/codesurfd.mjs, guards      *)
(* itself with daemon.lock, and says where it is in pid.json.              *)
(*                                                                         *)
(* What a process does between two awaits is one step; steps that look at  *)
(* several files are split further, since processes interleave anywhere.   *)
(* A file names a daemon by its process id, which the system may give to   *)
(* another process once the daemon is dead.                                *)
(***************************************************************************)
EXTENDS Integers, FiniteSets

CONSTANTS Manager,     \* host processes
          Updated,     \* those of the newer application version
          MaxDaemons, MaxRequests, MaxFaults,  \* bounds of the model
          Faults       \* "host": hosts die; "daemon": daemons die; "pid": process ids
                       \* are given away; "old": startup.lock grows old; "busy": a
                       \* daemon does not answer in time

ASSUME UpdatedAssumption == Updated \subseteq Manager
ASSUME BoundsAssumption == {MaxDaemons, MaxRequests, MaxFaults} \subseteq Nat
ASSUME FaultsAssumption == Faults \subseteq {"host", "daemon", "pid", "old", "busy"}

VARIABLES
  op,          \* manager -> its startupPromise, or what the last one ended with
  queued,      \* manager -> queuedForceRestartPromise
  cache,       \* manager -> cachedInfo, 0 when there is none
  barred,      \* manager -> daemons that served when a restart was asked for
  startupLock, \* none, fresh or stale
  daemon,      \* the daemons
  pidFile,     \* the daemon pid.json names, 0 when there is no file
  daemonLock,  \* the daemon daemon.lock names, None or Empty
  recycled,    \* dead daemons whose process id belongs to another process
  gone,        \* history: manager -> recycled, when the daemon to be signalled answered
  contested,   \* history: a daemon.lock was taken over that was no longer as it was found
  made         \* requests and faults so far

managers == <<op, queued, cache, barred>>
files == <<startupLock, pidFile, daemonLock>>
history == <<gone, contested>>
vars == <<managers, files, daemon, recycled, history, made>>

Daemon == 1..MaxDaemons
None == 0
Empty == -1

\* info: the daemon the operation is about.  back: where stopDaemonProcess
\* returns to.
Op == [pc: {"idle", "cached", "look", "existing", "stop", "auth", "signal", "term", "auth kill",
            "signal kill", "kill", "lock", "reuse", "locked", "checking", "spawn", "grace", "ready"},
       force: BOOLEAN, info: Daemon \cup {None}, back: {"lock", "spawn"}]
Ended(d) == [pc |-> "idle", force |-> FALSE, info |-> d, back |-> "lock"]

TypeOK ==
  /\ op \in [Manager -> Op]
  /\ queued \in [Manager -> BOOLEAN]
  /\ cache \in [Manager -> Daemon \cup {None}]
  /\ barred \in [Manager -> SUBSET Daemon]
  /\ startupLock \in {"none", "fresh", "stale"}
  /\ daemon \in [Daemon -> [at: {"none", "new", "look", "lock", "found", "stale", "owner",
                                 "starting", "serving", "stopping", "closed", "dead"},
                            updated: BOOLEAN, seen: Daemon \cup {None}]]
  /\ pidFile \in Daemon \cup {None}
  /\ daemonLock \in Daemon \cup {None, Empty}
  /\ recycled \subseteq Daemon
  /\ gone \in [Manager -> SUBSET Daemon] /\ contested \in BOOLEAN
  /\ made \in [requests: 0..MaxRequests, faults: 0..MaxFaults]

Init ==
  /\ op = [m \in Manager |-> Ended(None)]
  /\ queued = [m \in Manager |-> FALSE]
  /\ cache = [m \in Manager |-> None]
  /\ barred = [m \in Manager |-> {}]
  /\ startupLock = "none" /\ pidFile = None /\ daemonLock = None
  /\ daemon = [d \in Daemon |-> [at |-> "none", updated |-> FALSE, seen |-> None]]
  /\ recycled = {} /\ gone = [m \in Manager |-> {}] /\ contested = FALSE
  /\ made = [requests |-> 0, faults |-> 0]

-----------------------------------------------------------------------------
Running(d) == d \in Daemon /\ daemon[d].at \notin {"none", "dead"}

\* isProcessAlive.  The empty daemon.lock reads as process 0, which can always
\* be signalled.
AliveMutant(d) == d \in recycled \/ Running(d)
Alive(d) == d = Empty \/ d \in recycled \/ Running(d)

\* readAuthenticatedDaemonHealth of the manager, healthcheck of the daemon;
\* and the manager's healthcheck, which a daemon that shuts down fails.
Answers(d) == d \in Daemon /\ daemon[d].at \in {"serving", "stopping"}
Healthy(d) == d \in Daemon /\ daemon[d].at = "serving"

Fault(kind) == /\ kind \in Faults /\ made.faults < MaxFaults
               /\ made' = [made EXCEPT !.faults = @ + 1]
Fails(good) == (~good /\ UNCHANGED made) \/ (good /\ Fault("busy"))
Works(good) == good /\ UNCHANGED made

HasCompatibleVersion(m, d) == daemon[d].updated = (m \in Updated)
CanReuseMutant(m, d) == HasCompatibleVersion(m, d)
CanReuse(m, d) == ~op[m].force /\ HasCompatibleVersion(m, d)

-----------------------------------------------------------------------------
(* Managers.                                                               *)

Goes(m, pc) == op' = [op EXCEPT ![m].pc = pc]
GoesOn(m, pc, d) == op' = [op EXCEPT ![m].pc = pc, ![m].info = d]

Stopping == {"stop", "auth", "signal", "term", "auth kill", "signal kill", "kill"}

\* withStartupLock removes the lock in any case, whosever it is by then.
HoldsLock(m) == \/ op[m].pc \in {"locked", "checking", "spawn", "grace", "ready"}
                \/ op[m].pc \in Stopping /\ op[m].back = "spawn"
Release(m) == startupLock' = IF HoldsLock(m) THEN "none" ELSE startupLock

Returns(m, d) ==
  /\ op' = [op EXCEPT ![m] = Ended(d)]
  /\ cache' = [cache EXCEPT ![m] = d]
  /\ Release(m)
Throws(m) == op' = [op EXCEPT ![m] = Ended(None)] /\ UNCHANGED cache /\ Release(m)

Starts(m, force, cached) ==
  op' = [op EXCEPT ![m] = [pc |-> IF Alive(cached) THEN "cached" ELSE "look",
                           force |-> force, info |-> cached, back |-> "lock"]]
Serving == {d \in Daemon : daemon[d].at = "serving"}

\* ensureDaemonRunning: a request shares the operation under way.
Ensure(m) ==
  /\ op[m].pc = "idle" /\ ~queued[m]
  /\ Starts(m, FALSE, cache[m])
  /\ barred' = [barred EXCEPT ![m] = {}]
  /\ UNCHANGED <<queued, cache>>

\* restartDaemon: it shares one that restarts, and waits for one that does not.
Restart(m) ==
  /\ cache' = [cache EXCEPT ![m] = None]
  /\ \/ (queued[m] \/ op[m].force) /\ UNCHANGED <<op, queued, barred>>
     \/ /\ op[m].pc = "idle" /\ ~queued[m]
        /\ Starts(m, TRUE, None)
        /\ barred' = [barred EXCEPT ![m] = Serving]
        /\ UNCHANGED queued
     \/ /\ op[m].pc # "idle" /\ ~op[m].force /\ ~queued[m]
        /\ queued' = [queued EXCEPT ![m] = TRUE]
        /\ barred' = [barred EXCEPT ![m] = Serving]
        /\ UNCHANGED op

Request(m) ==
  /\ made.requests < MaxRequests
  /\ made' = [made EXCEPT !.requests = @ + 1]
  /\ Ensure(m) \/ Restart(m)
  /\ UNCHANGED <<files, daemon, recycled, history>>

StartQueued(m) ==
  /\ queued[m] /\ op[m].pc = "idle"
  /\ queued' = [queued EXCEPT ![m] = FALSE]
  /\ Starts(m, TRUE, cache[m])
  /\ UNCHANGED <<cache, barred, files, daemon, recycled, made, history>>

\* runEnsureDaemon: the daemon known from before, then the one pid.json names.
\* cachedInfo is read again after the health check; without one, the look at its
\* version throws.
CachedChecked(m) ==
  LET reusable == cache[m] # None /\ CanReuse(m, cache[m])
      missing == cache[m] = None /\ ~op[m].force
      good == Healthy(op[m].info)
  IN
  /\ op[m].pc = "cached"
  /\ \/ Works(good) /\ reusable /\ op' = [op EXCEPT ![m] = Ended(cache[m])] /\ UNCHANGED <<cache, startupLock>>
     \/ Works(good) /\ missing /\ Throws(m)
     \/ Fails(good /\ (reusable \/ missing)) /\ Goes(m, "look") /\ UNCHANGED <<cache, startupLock>>
  /\ UNCHANGED <<queued, barred, pidFile, daemonLock, daemon, recycled, history>>

Look(m) ==
  /\ op[m].pc = "look"
  /\ GoesOn(m, IF Alive(pidFile) THEN "existing" ELSE IF op[m].force THEN "stop" ELSE "lock", pidFile)
  /\ UNCHANGED <<queued, cache, barred, files, daemon, recycled, made, history>>

ExistingChecked(m) ==
  LET d == op[m].info IN
  /\ op[m].pc = "existing"
  /\ \/ Works(Healthy(d)) /\ CanReuse(m, d) /\ Returns(m, d)
     \/ /\ Works(Healthy(d)) /\ ~CanReuse(m, d) /\ Goes(m, "stop")
        /\ UNCHANGED <<cache, startupLock>>
     \/ /\ Fails(Healthy(d)) /\ Goes(m, IF op[m].force THEN "stop" ELSE "lock")
        /\ UNCHANGED <<cache, startupLock>>
  /\ UNCHANGED <<queued, barred, pidFile, daemonLock, daemon, recycled, history>>

\* stopDaemonProcess.
Stopped(m) ==
  /\ op' = [op EXCEPT ![m].pc = op[m].back]
  /\ cache' = [cache EXCEPT ![m] = None]
  /\ pidFile' = IF pidFile = op[m].info THEN None ELSE pidFile
  /\ UNCHANGED <<startupLock, daemon>>

Stop(m) ==
  LET d == op[m].info IN
  /\ op[m].pc = "stop"
  /\ \/ ~Alive(d) /\ Stopped(m)
     \/ /\ Alive(d) /\ pidFile = d /\ Goes(m, "auth")
        /\ UNCHANGED <<cache, startupLock, pidFile, daemon>>
     \/ Alive(d) /\ pidFile # d /\ Throws(m) /\ UNCHANGED <<pidFile, daemon>>
  /\ UNCHANGED <<queued, barred, daemonLock, recycled, made, history>>

\* The first SIGTERM begins shutdown, a second one ends the process.
Signalled(at) == IF at \in {"stopping", "closed"} THEN "closed" ELSE "stopping"

\* authenticateDaemonBeforeSignal: the daemon answers, or the stop ends.
AuthenticatedMutant(m) == op[m].pc = "auth kill" \/ (pidFile = op[m].info /\ Answers(op[m].info))
Authenticated(m) == pidFile = op[m].info /\ Answers(op[m].info)

Authenticate(m) ==
  /\ op[m].pc \in {"auth", "auth kill"}
  /\ \/ /\ Works(Authenticated(m)) /\ Goes(m, IF op[m].pc = "auth" THEN "signal" ELSE "signal kill")
        /\ gone' = [gone EXCEPT ![m] = recycled] /\ UNCHANGED <<cache, startupLock>>
     \/ Fails(Authenticated(m)) /\ Throws(m) /\ UNCHANGED gone
  /\ UNCHANGED <<queued, barred, pidFile, daemonLock, daemon, recycled, contested>>

\* When the answer has come, pid.json is read once more, then the signal is sent:
\* to the daemon, or to whoever has its process id by now.
Signal(m) ==
  LET d == op[m].info IN
  /\ op[m].pc \in {"signal", "signal kill"}
  /\ \/ /\ pidFile = d /\ Goes(m, IF op[m].pc = "signal" THEN "term" ELSE "kill")
        /\ daemon' = IF ~Running(d) THEN daemon
                     ELSE [daemon EXCEPT ![d].at = IF op[m].pc = "signal" THEN Signalled(@) ELSE "dead"]
        /\ UNCHANGED <<cache, startupLock>>
     \/ pidFile # d /\ Throws(m) /\ UNCHANGED daemon
  /\ gone' = [gone EXCEPT ![m] = {}]
  /\ UNCHANGED <<queued, barred, pidFile, daemonLock, recycled, contested, made>>

\* waitForPidExit: the process is gone, or its time is up.
StopOver(m) ==
  LET d == op[m].info IN
  /\ op[m].pc \in {"term", "kill"}
  /\ \/ ~Alive(d) /\ Stopped(m)
     \/ /\ Alive(d) /\ op[m].pc = "term" /\ Goes(m, "auth kill")
        /\ UNCHANGED <<cache, startupLock, pidFile, daemon>>
     \/ Alive(d) /\ op[m].pc = "kill" /\ Throws(m) /\ UNCHANGED <<pidFile, daemon>>
  /\ UNCHANGED <<queued, barred, daemonLock, recycled, made, history>>

\* withStartupLock: one attempt.
Lock(m) ==
  /\ op[m].pc = "lock"
  /\ pidFile' = IF Alive(pidFile) THEN pidFile ELSE None
  /\ IF startupLock = "none" THEN Goes(m, "locked") /\ startupLock' = "fresh"
                             ELSE GoesOn(m, "reuse", pidFile') /\ UNCHANGED startupLock
  /\ UNCHANGED <<queued, cache, barred, daemonLock, daemon, recycled, made, history>>

\* The lock was held: by a host whose daemon can be used, or too long, or the
\* attempt is repeated until time is up.
Reuse(m) ==
  LET good == Healthy(op[m].info) /\ CanReuse(m, op[m].info) IN
  /\ op[m].pc = "reuse"
  /\ \/ Works(good) /\ Returns(m, op[m].info)
     \/ /\ Fails(good)
        /\ Goes(m, "lock") \/ op' = [op EXCEPT ![m] = Ended(None)]
        /\ startupLock' = IF startupLock = "stale" THEN "none" ELSE startupLock
        /\ UNCHANGED cache
  /\ UNCHANGED <<queued, barred, pidFile, daemonLock, daemon, recycled, history>>

\* With the lock: pid.json once more.
Locked(m) ==
  /\ op[m].pc = "locked"
  /\ GoesOn(m, "checking", pidFile)
  /\ UNCHANGED <<queued, cache, barred, files, daemon, recycled, made, history>>

LockedChecked(m) ==
  LET d == op[m].info
      stopOr(pc) == op' = [op EXCEPT ![m].pc = IF pc THEN "stop" ELSE "spawn", ![m].back = "spawn"]
  IN
  /\ op[m].pc = "checking"
  /\ \/ Works(Healthy(d)) /\ CanReuse(m, d) /\ Returns(m, d)
     \/ Works(Healthy(d)) /\ ~CanReuse(m, d) /\ stopOr(TRUE) /\ UNCHANGED <<cache, startupLock>>
     \/ Fails(Healthy(d)) /\ stopOr(op[m].force /\ d # None) /\ UNCHANGED <<cache, startupLock>>
  /\ UNCHANGED <<queued, barred, pidFile, daemonLock, daemon, recycled, history>>

Spawn(m) ==
  /\ op[m].pc = "spawn"
  /\ \E d \in Daemon :
       /\ daemon[d].at = "none" /\ \A e \in 1..(d - 1) : daemon[e].at # "none"
       /\ daemon' = [daemon EXCEPT ![d] = [at |-> "new", updated |-> m \in Updated, seen |-> None]]
       /\ GoesOn(m, "grace", d)
  /\ UNCHANGED <<queued, cache, barred, files, recycled, made, history>>

\* waitForChildStartupGrace, then waitForDaemonReady: whatever daemon is there.
Grace(m) ==
  /\ op[m].pc = "grace"
  /\ \/ ~Running(op[m].info) /\ Throws(m)
     \/ Running(op[m].info) /\ Goes(m, "ready") /\ UNCHANGED <<cache, startupLock>>
  /\ UNCHANGED <<queued, barred, pidFile, daemonLock, daemon, recycled, made, history>>

Ready(m) ==
  /\ op[m].pc = "ready"
  /\ \/ Works(Healthy(pidFile)) /\ Returns(m, pidFile)
     \/ Fails(Healthy(pidFile)) /\ Throws(m)
  /\ UNCHANGED <<queued, barred, pidFile, daemonLock, daemon, recycled, history>>

\* The host dies, at any point of its operation.
Dies(m) ==
  /\ Fault("host") /\ op[m].pc # "idle"
  /\ op' = [op EXCEPT ![m] = Ended(None)]
  /\ queued' = [queued EXCEPT ![m] = FALSE]
  /\ cache' = [cache EXCEPT ![m] = None]
  /\ UNCHANGED <<barred, files, daemon, recycled, history>>

\* A lock that is older than 30 seconds; its host may be dead, or only slow.
GrowsOld ==
  /\ startupLock = "fresh"
  /\ IF \E m \in Manager : HoldsLock(m) THEN Fault("old") ELSE UNCHANGED made
  /\ startupLock' = "stale"
  /\ UNCHANGED <<managers, pidFile, daemonLock, daemon, recycled, history>>

-----------------------------------------------------------------------------
(* Daemons.                                                                *)

Moves(d, at) == daemon' = [daemon EXCEPT ![d].at = at]

\* The exit handler, removeOwnedPidFile.
Exits(d) ==
  /\ Moves(d, "dead")
  /\ pidFile' = IF pidFile = d THEN None ELSE pidFile
  /\ daemonLock' = IF daemonLock = d THEN None ELSE daemonLock

\* reuseExistingDaemonIfHealthy.
Looks(d) ==
  /\ daemon[d].at = "new"
  /\ daemon' = [daemon EXCEPT ![d].seen = pidFile, ![d].at =
       IF Alive(pidFile) /\ daemon[pidFile].updated = daemon[d].updated THEN "look" ELSE "lock"]
  /\ UNCHANGED <<managers, files, recycled, made, history>>

Looked(d) ==
  /\ daemon[d].at = "look"
  /\ \/ Works(Answers(daemon[d].seen)) /\ Exits(d)
     \/ Fails(Answers(daemon[d].seen)) /\ Moves(d, "lock") /\ UNCHANGED <<pidFile, daemonLock>>
  /\ UNCHANGED <<managers, startupLock, recycled, history>>

\* start: daemon.lock is created.  It is empty until the process id has been
\* written into it.
TakesLock(d) ==
  /\ daemon[d].at = "lock"
  /\ IF daemonLock = None THEN Moves(d, "owner") /\ daemonLock' = Empty
                          ELSE Moves(d, "found") /\ UNCHANGED daemonLock
  /\ UNCHANGED <<managers, startupLock, pidFile, recycled, history, made>>

\* Or it exists, and is read: it belongs to a living process, to a dead one, or is
\* there no more.
Found(d) ==
  /\ daemon[d].at = "found"
  /\ \/ daemonLock # None /\ Alive(daemonLock) /\ Exits(d)
     \/ /\ daemonLock = None \/ ~Alive(daemonLock)
        /\ daemon' = [daemon EXCEPT ![d].at = "stale", ![d].seen = daemonLock]
        /\ UNCHANGED <<pidFile, daemonLock>>
  /\ UNCHANGED <<managers, startupLock, recycled, history, made>>

\* In the last two cases it is opened for writing, whatever it is by now
\* (writeFileSync, which writes the process id once before, is undone by that).
TakesOver(d) ==
  /\ daemon[d].at = "stale"
  /\ Moves(d, "owner") /\ daemonLock' = Empty
  /\ contested' = (contested \/ daemonLock # daemon[d].seen)
  /\ UNCHANGED <<managers, startupLock, pidFile, recycled, gone, made>>

\* The file that was opened may have been taken over, and removed, by another one.
WritesLock(d) ==
  /\ daemon[d].at = "owner"
  /\ Moves(d, "starting")
  /\ daemonLock' = d \/ (contested /\ UNCHANGED daemonLock)
  /\ UNCHANGED <<managers, startupLock, pidFile, recycled, history, made>>

Serves(d) ==
  /\ daemon[d].at = "starting"
  /\ Moves(d, "serving") /\ pidFile' = d
  /\ UNCHANGED <<managers, startupLock, daemonLock, recycled, made, history>>

\* shutdown: jobs wind down, the server closes, the process exits.
Closes(d) ==
  /\ daemon[d].at = "stopping"
  /\ Moves(d, "closed")
  /\ UNCHANGED <<managers, files, recycled, made, history>>

ShutDown(d) ==
  /\ daemon[d].at = "closed"
  /\ Exits(d)
  /\ UNCHANGED <<managers, startupLock, recycled, made, history>>

\* Faults: a signal from elsewhere, an error that ends the start, the death of
\* the process without its exit handler, and the process id given away.
Fail(d) ==
  /\ Fault("daemon")
  /\ \/ daemon[d].at = "serving" /\ Moves(d, "stopping") /\ UNCHANGED <<pidFile, daemonLock>>
     \/ Running(d) /\ Exits(d)
     \/ Running(d) /\ Moves(d, "dead") /\ UNCHANGED <<pidFile, daemonLock>>
  /\ UNCHANGED <<managers, startupLock, recycled, history>>

Recycle(d) ==
  /\ daemon[d].at = "dead" /\ d \notin recycled /\ Fault("pid")
  /\ recycled' = recycled \cup {d}
  /\ UNCHANGED <<managers, files, daemon, history>>
-----------------------------------------------------------------------------
Step(m) ==
  \/ StartQueued(m) \/ CachedChecked(m) \/ Look(m) \/ ExistingChecked(m) \/ Stop(m)
  \/ Authenticate(m) \/ Signal(m) \/ StopOver(m) \/ Lock(m) \/ Reuse(m) \/ Locked(m)
  \/ LockedChecked(m) \/ Spawn(m) \/ Grace(m) \/ Ready(m)

DaemonStep(d) ==
  \/ Looks(d) \/ Looked(d) \/ TakesLock(d) \/ Found(d) \/ TakesOver(d) \/ WritesLock(d)
  \/ Serves(d) \/ Closes(d) \/ ShutDown(d)

Next ==
  \/ \E m \in Manager : Request(m) \/ Step(m) \/ Dies(m)
  \/ GrowsOld
  \/ \E d \in Daemon : DaemonStep(d) \/ Fail(d) \/ Recycle(d)

Spec == Init /\ [][Next]_vars

-----------------------------------------------------------------------------
\* Whatever hosts start, stop, kill and abandon: two daemons get beyond daemon.lock
\* only when one has taken over a lock that was no longer as it had found it;
\* until then one that serves is where pid.json says.
Owns(d) == daemon[d].at \in {"owner", "starting", "serving", "stopping", "closed"}
OneDaemon == \A d, e \in Daemon : Owns(d) /\ Owns(e) => d = e
ServingIsFound == \A d \in Daemon : daemon[d].at = "serving" => pidFile = d
DaemonIsSound == TypeOK /\ (contested \/ (OneDaemon /\ ServingIsFound))

\* A restart hands out no daemon that served when it was asked for.
RestartIsNew ==
  [][\A m \in Manager : op[m].force /\ op'[m].pc = "idle" => op'[m].info \notin barred[m]]_vars

\* Whom a host signals: no process that had the daemon's process id when the
\* daemon was asked who it is; without a forced restart, none of its own version;
\* and with SIGKILL none that has not been told to shut down before.
Signals(m, pcs) == op[m].pc \in {"signal", "signal kill"} /\ op'[m].pc \in pcs
SignalsAreMeant ==
  [][\A m \in Manager :
       LET d == op[m].info IN
       /\ Signals(m, {"term", "kill"}) => /\ d \in Daemon \ gone[m]
                                         /\ (op[m].force \/ ~HasCompatibleVersion(m, d))
       /\ Signals(m, {"kill"}) => daemon[d].at \in {"stopping", "closed", "dead"}]_vars

\* No signal reaches a process that only has the process id of a daemon.
NoStrangerSignalled ==
  [][\A m \in Manager : Signals(m, {"term", "kill"}) => op[m].info \notin recycled]_vars

\* A daemon gives up its start only for another that is alive.
StartYieldsToLiving ==
  [][\A d \in Daemon : daemon[d].at = "found" /\ daemon'[d].at = "dead"
                       => made' # made \/ \E e \in Daemon \ {d} : Owns(e)]_vars
=============================================================================
