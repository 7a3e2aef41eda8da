# CodeSurf in TLA+

CodeSurf is an Electron canvas on which tiles (chats, terminals, browsers,
boards) are wired together and AI agents work side by side. Its difficult parts
are the ones in which several agents, windows and processes share state: the
rooms through which wired tiles talk, the turns that carry a room's traffic into
a prompt, the daemon that runs provider processes and streams their events, and
the files in which all of this survives a crash. This directory models those
parts, checks them with TLC on small instances, and proves what matters most
with TLAPS.

Paths below are relative to the repository (`src/main/...` is the Electron main
process, `packages/...` the workspaces beside it).

- [Inventory](#inventory) - the system's parts
- [The modules](#the-modules) - what models what
- [The runs](#the-runs) - what is checked, with which bounds
- [Fairness](#fairness)
- [Proofs](#proofs)
- [Where code and documentation disagree](#where-code-and-documentation-disagree)
- [Not modelled](#not-modelled)
- [Plan](#plan)

## Inventory

| Component | Source | State | Operations | What makes it hard |
|---|---|---|---|---|
| Agent-room store | `src/main/agent-room/store.ts`, `validation.ts` | rooms with members, one cursor per member, a bounded ledger; tile-to-room map; todos; owned files | sync membership, leave, post, consume, read messages, todos, acknowledge, dispose | rooms merge and split in any order; pruning of unread events; four maps that must agree |
| Persistence queue | `src/main/agent-room/persistence.ts` | one state object per path: latest request, revision applied, drain, retry timer | write, remove, flush, dispose | coalescing and retries must not let an older write land last; flush works over a changing map |
| Chat turns | `src/main/ipc/chat.ts`, `src/main/chat/*` | preparation lease, per-card operation queue, active providers and daemon jobs, room-context reservations | send, stop, clear, attach context, launch, accept, finish | a turn is prepared across awaits while peers post, wires change and a stop arrives |
| Daemon job scheduler | `packages/codesurf-daemon/bin/chat-jobs.mjs`, `process-tree.mjs` | live jobs, queue, slot count, cancel functions, process trees | start, pump, run, cancel, terminate | cancellation before, during and after launch; processes that survive SIGKILL |
| Daemon job timeline | `chat-jobs.mjs` | append-only event file, metadata record, write queues | append, flush, terminal commit, fail, finalize, reconcile | crash or failed write between two files that must agree |
| Daemon event stream | `chat-jobs.mjs` (subscriber registry, `streamJob`) | subscribers with replay buffer, queue, backpressure | register, replay, publish, drain, time out | an event may come from file, memory or live publication, and must come once |
| Relay runtime | `packages/codesurf-relay/src/runtime.ts` | agents with epoch, active tick, provider teardowns | spawn, start, stop, schedule, tick, destroy | epochs against stale ticks; timeouts; failed teardowns |
| Relay mailbox | `packages/codesurf-relay/src/relay.ts`, `atomicFileWrites.ts` | mailbox files, participants, channel cursors | send, list unread, mark read, advance cursor | read-modify-write without locks; multi-file commits with rollback |
| Workspace relay service | `src/main/relay/workspaceRelayService.ts`, `canvasProjection.ts`, `src/main/ipc/relay.ts` | one relay runtime per workspace, a service generation, pending disposals, a queue of canvas projections | register, unregister, call, stop all, dispose, project | runtimes created across awaits while a stop and a new generation come between; writes given up and still under way |
| Daemon manager and client | `packages/codesurf-daemon/src/manager.ts`, `bin/codesurfd.mjs`, `client.ts`, `sse.ts` | in each host the operation under way, a queued restart and the daemon it knows; `startup.lock`, `daemon.lock`, `pid.json`; connections, last sequence | ensure running, restart, stop and signal; start, serve, shut down; stream with reconnect | hosts that start and replace one daemon beside each other; locks and process ids of the dead; resuming a stream |
| Activity store | `src/main/activity-store-core.ts`, `activity-persistence.ts` | a bounded cache of workspaces: records, generations in memory and on disk, save timers | upsert, delete, clear, query, load, evict, flush all | evictions that wait for saves while operations arrive; failed saves that may have replaced the file |
| Workspace write coordination | `src/main/storage/*` | latest effect per workspace, queued-message log | enqueue, save, append, compact | superseded effects; crash during compaction |
| Shutdown | `src/main/window-persistence-barrier.ts`, `quit-drain.ts`, `src/renderer/src/lib/orderedCanvasPersistence.ts`, `windowPersistenceBarrier.ts` | challenges and close requests per window, the order of a quit; in each page a canvas, its write queue and debounce timer | edit, save, close, reload, answer, time out, quit, clean up | edits during a flush, late answers, saves of several windows of one workspace, windows that open and close during the quit |
| Permissions, durable security state | `src/main/security/*`, `src/main/permissions.ts` | grants, boundaries | grant, revoke, persist | a revocation that must survive a restart |
| Extension broker | `src/main/extensions/broker/*` | child process, pending requests | call, answer, exit, restart | answers of a previous child |
| Kanban tools | `src/main/mcp/tools/kanban.ts` | board document | create, move, link, complete | several agents, one document |
| Layout groups | `src/renderer/src/lib/layoutGroupMembership.ts` | group tree of tiles | insert, remove, split | a pure algorithm on trees |

How they interact. A chat send in the main process reconciles the card's wires
with the agent-room store, takes a prefix of the card's unread traffic into the
prompt, posts the user's message to the room, and launches a provider, locally
or as a job of the daemon (HTTP). Every provider event, delivered by a callback
or by the daemon's event stream, first proves that the prompt was accepted,
which moves the card's cursor in the store; the text of the turn is posted to
the room when it ends. The store hands every change of a room to the
persistence queue. The daemon numbers the events of a job, publishes them to its
subscribers and appends them to the job's timeline; a client that lost its
connection asks again for what follows its last sequence.

The relay is a second way for agents to talk, file based: a canvas that has been
saved is projected to the participants of the workspace's relay, whose runtime
runs a turn of a participant when a message for it arrives and writes the
replies, several copies of each, with the atomic write. Windows save their
canvases through one lane of the main process per workspace; closing a window or
quitting waits for those saves.

Everything named here runs on single-threaded event loops (one per process), so
the unit of interleaving is the stretch of code between two awaits. That is
the grain of the actions in all modules.

What each modelled component must get right, in one sentence each:

- *Store*: what a member has not read is exactly what was posted for it since it
  joined; nothing is lost, repeated or replayed by regrouping; the maps agree.
- *Turns*: room traffic is acknowledged only if an accepted prompt showed it; a
  stop leaves no turn running behind its back.
- *Persistence*: the file ends at the newest request and never goes back.
- *Stream*: every subscriber sees every event once and in order, and an end of
  stream means the job's end.
- *Timeline*: at every moment the two files tell a consistent story, whatever
  fails, and a result once announced stands.
- *Scheduler*: slots are exact, no provider is orphaned, and a job that was
  cancelled is over.
- *Activity store*: an accepted change survives every eviction, reload and failed
  save, and is in the file when a close reports success.
- *Relay runtime*: one provider per participant, nothing after a stop (but what a
  failed spawn or a crash leaves behind), and every message answered before it is
  marked read.
- *Atomic write*: all copies of a message or none, and the old content within
  reach whatever dies.
- *Relay service*: no runtime is forgotten, a stop waits for all of them, and
  projections of the canvas keep their order.
- *Shutdown*: a window that answered is saved, the window focused last writes
  last, and a quit ends.
- *Daemon manager*: one daemon at a time, which its file names; a restart hands
  out a new one; nothing but a daemon is signalled.

## The modules

| Module | Models |
|---|---|
| `AgentRoom` | the agent-room store of one workspace |
| `AgentRoom_proofs` | the inductive invariants of `AgentRoom` and `RoomTurns`, and the theorems about them |
| `RoomTurns` | the chat turns of one card; extends `AgentRoom` and interleaves with all its operations |
| `LatestWrite` | abstract: what a coalescing writer promises for each path |
| `RoomPersistence` | the persistence queue, shown to implement `LatestWrite` |
| `JobStream` | one subscriber of one daemon job |
| `JobTimeline` | what the daemon keeps on disk about one job, with failures and crashes |
| `JobScheduler` | slots, queue, runners, providers and cancellation of the daemon |
| `ActivityStore` | the bounded cache of activity files, shown to implement `LatestWrite` |
| `RelayRuntime` | the turns of one relay participant, with its direct messages |
| `AtomicWrite` | one write of several files |
| `RelayService` | the relay host: registrations, runtimes, calls, stops, canvas projections; its queue is shown to implement `LatestWrite` |
| `Shutdown` | windows, their pages and write queues, the save lane, closes, reloads and the quit |
| `DaemonManager` | hosts, daemons and the three files through which they find each other |
| `ActivityStore_proofs`, `DaemonManager_proofs`, `JobScheduler_proofs`, `JobTimeline_proofs`, `RelayRuntime_proofs`, `RelayService_proofs`, `Persistence_proofs` | theorems about the modules they extend; `JobTimeline_proofs` extends `JobStream` too, the subscribers of the same job; `Persistence_proofs` extends `RoomPersistence` and `Shutdown`, what the main process writes last; `RelayRuntime_proofs` is also about `AtomicWrite`, through which the messages of the relay reach their files |
| `MCAgentRoom`, `MCRoomTurns` | model values and symmetry for TLC |

### AgentRoom

`membership`, `members` and `cursor` are the maps of the same names in the code
(`acknowledgedSeq` of a member). `log` keeps every event ever posted and `pruned`
how many of the oldest are no longer retained, so `room.events` is the part above
`pruned`, and `nextSequence` is `Len(log) + 1`. `roomFiles` and `inboxFiles` are
the owned-file sets. `owed` is a history variable: what was posted for a member
and not shown to it. Each public operation is synchronous, hence one action;
`Reseat` is what merge and departure have in common (`ensureMember`,
`deleteRoomMembership`, `dissolveRoom`, `writeRoomFiles`). Byte budgets are a
free choice: how many more of the oldest events are pruned, and how long a
prefix of the unread traffic one delivery carries.

### RoomTurns

`generation` is the lease counter of `ChatPreparationFence`, `fifo` the promise
chain of `ChatLifecycleCoordinator`, `reservation` the card's entry in
`RoomContextAcknowledgements`. A turn goes from `unsent` over `queued`,
`preparing`, `attached` and `running` to `accepted` and `ended`; between those
stages every operation of the store may happen. `adrift` is a turn whose daemon job
is at work while `DaemonJobRegistry` no longer has it (`LoseTrack`, and the failing
outcomes of `DaemonStarted`); `job` records why: no step sets a turn adrift
unless a request about its job failed, its stream ended early or its poll gave up. A step that attaches room
context starts where the reconciliation of the card's wires changes nothing,
since a `SyncMembership` of its own may precede it. Todos and disposal of the
store are left to the runs of `AgentRoom`.

### LatestWrite and RoomPersistence

Requests for a path are numbered; `disk` is the number of the request the file
reflects, `want` the newest. In `RoomPersistence` an `object` is a
`PersistencePathState`; `states` is the map, from which an object can be deleted
while a flush still holds it. Adapter calls end in `WriteOk` or `WriteFails`
(before or after the file changed: the directory sync comes last). `Settle` is
the `finally` of a drain. `Quiet` and `Unbroken` say what the event loop
guarantees: a flush runs without a break between its awaits, and continuations
of settled promises run before I/O and timers. One flush runs at a time;
spellings of a path that the file system folds together are one path.

### JobStream

The job's side is five counters: how many events were accepted by the write
queue, are in the file, are known to be in it, were published, and which one is
the closing `done`. The subscriber's side is the registry's record together
with the local state of `streamJob`. Operators such as `Publish`, `Taken`,
`Drained` and `FinishReplay` are the record after the registry method of that
purpose; every write to the socket may be the one after which it blocks.
Heartbeats carry no event and byte limits act like the event limit; both are
left out. `why` is what closed the record and `at` in which stage; the client sees
less: `EndsNormally` are the closings that call `res.end`, and the others break the
connection. A served subscriber, one whose scan meets a line that is still being
written (`ScanTorn`) and one that is there at, or comes after, a `Shutdown` of the
registry all read the same regular end. A subscriber that joins after the timeline has failed is outside.

### JobTimeline

`timeline`, `torn` and `meta` are on disk, everything else in memory and lost by
`Crash`. `timeline` is what a scan accepts of the file, `torn` says that more
follows it: half a line, one whose number does not follow, or one after `done`.
The normal end is `DoneBegins`, `DoneStaged`, `AppendOk`, `DoneCommits`. A failed
append, staging or rename publishes a failure at once and leaves the disk to the
finalization (`Fin*`), which begins when the job leaves `liveJobs`; a job that is
not live and whose record is not consistently terminal is reconciled (`Rec*`).
Both are chains of awaits: each scan is a step, and so is each truncation, append
or metadata write that follows from it. Nothing keeps them apart.
`reconcileInterruptedJob` looks only at `liveJobs`, so the daily sweep (`Sweeps`)
can begin one beside a finalization, and `StreamOpens` when the failed record has
been evicted from memory. When the queue's limit fails a timeline (`Overflow`), the
append of its first line goes on (`late`) and lands at any later time, also
behind or between the lines of the other two.

The retries of one append are part of its outcome: it was written at once or
after what a failed attempt left was cut away (`Clean`, `Retried`), or blindly
behind that when it could not be inspected (`Smeared`, `AppendBlind`), or it fails
with or without the line in the file (`Lost`, `AppendUnknown`).

`blind` is a history variable, no state of the code. It becomes true when two
writers cross (a reconciliation begins while a finalization or a late append is
at work, or the finalization writes although the timeline is no longer what its
scan has shown) and when a writer repeats an append without having seen what the
first attempt left; a reconciliation that had the files to itself from its
beginning makes it false again, unless a success had been announced. The safety
properties hold while it is false; `EventuallySettled` holds in any case. The crash
is that of the process, not of the operating system: what `write` returned is in
the file.

### JobScheduler

`phase` says how far `startJob` and `runJob` are with a job, `proc` what its
provider is (a process tree with or without its leader, or an SDK query), `term`
how far the shared termination of the tree is, `cancel` which await of
`cancelJob` a call is at. `asked` and `held` are the flags `cancelRequested` and
`terminationFailed`. `Pump` takes the first
entries of the queue, drops those that are no longer live and starts the
others until the slots are taken, and `RunnerReturns` is the runner's `finally`. Calls that join a
cancellation in progress, and calls for a job that is not running, change
nothing and are left out. `Hazards` selects the rarer events, so that a run can
say which of them a property survives: `early` (a cancel while the job's files
are written), `twice` (a second cancel during the removal from the queue),
`fallback` (the Codex SDK is missing), `disk` (a timeline write fails).

### ActivityStore

The records of a workspace are a revision, `store[w].mem`, the number of changes
accepted; `saved`, `saving` and `timer` are `persistedGeneration`, the snapshot of
`persistPromise` and `saveTimer`. `phase` is where a workspace is between the maps
`loads`, `admittedLoads` and `stores`. Two evictions can be under way, the one of an admission
(`reserveLoad`) and the one that brings the cache back to its limit
(`evictToLimit`, chained on `evictionTail`); each tries its candidates one after
the other, flushes the candidate, and looks again afterwards whether it may go.
`Quiet` says that what continues a settled promise runs before file operations
and timers. `SaveFails` may have replaced the file (`commit_uncertain`). Validation,
byte limits and health events only decide whether an operation changes
something, which is a free choice.

### RelayRuntime

One participant; `object` holds every `RelayAgentState` that was ever in the map,
by the call of `spawn` that made it, since a tick of a replaced object may still
run. `stage` is the await at which the active tick is; `live` and `lost` count the
providers in `providerTeardowns` and those whose teardown failed
(`providerTeardownFailures`, which is sticky). `calls` says at which await each
`spawn`, `start` and `stop` is, `revision` is its entry in `spawnRevisions`. `start`
and `spawn` return only when the tick they have scheduled is over (`"turns"`). A turn
reads (`TickReads`), starts the provider (`TurnStarts`), replies (`Reply`) and marks
what it has shown (`MarkRead`); every await may end in an abort.

What files do: an error of a write fails the turn (`TurnFails`); an error of a read is
swallowed, so that messages, or the participant, look absent and the turn ends
without an error (`Readable`). `missed` holds the messages that the last read did not
return, `cut` those that a turn answered and could not mark.

`spawn` races the turn it awaits: the turn is then `watched`, and when it times out
its abort rejects `spawn` first, which takes the agent from the map (`Dropped`)
before the turn has noted its failure, with the provider still at work. A failed
initial task does the same (`InitialFails`). Such an agent runs on as a *stray*
outside the map. `Crash` leaves the files, and the providers: they are detached
processes that nobody ends (`orphans`). `Stray` names both kinds, which the
properties about providers except.

### AtomicWrite

`dest`, `temp` and `backup` are the three names of a file; `pc` and `at` are the
loop of `writeFilesAtomically` that is running and its index. From the first move
on the code runs without an await, so only the death of the process (`Die`)
interrupts it; a rollback step that fails sets `broken` and the rollback goes on.

### RelayService

`host` combines the host registration, the service generation and the active
flag of the projection queue, which change together; a registration number
stands for a host generation and a queue generation at once. `runtime` holds the
runtimes by number, `instance` is the map of the service, `call` the renderer's
calls. `effect` is the drain of the projection queue of each workspace: the save
it projects and the await it is at. `shown`, `held` and `complete` are the
newest save of which something was written, the save the participants reflect,
and the newest one projected entirely. `awaitGuarded` races an operation with
the stop and does not wait for the loser, so `Unregister` may leave writes behind
(`stray`) that land later (`StrayLands`). A failed canvas save schedules nothing
and is left out, and so are projections that the renderer asks for by
`relay:syncWorkspace`, which take the same path as calls. Branches for an
instance of an older generation are dead (`RuntimesAreOwned` says so) and not
modelled.

Two observations that no property states. The extension's disposer does not wait
for `unregisterRelayIPC`, nor does a new registration, so a provider of the old
generation may still be at work beside one of the new. And a disposal that has
failed is no longer in `pendingDisposals`, so that a second `stopAll` reports
success.

### Shutdown

`requests` and `out` are the challenges of a window (`requestTail`) and whether the
first one has been sent and answered; `closeRequest` is the close request of a
window, `order` the set of those that `closeAll` has still to close (`Before` says which is
next) and `winner` the primary focused last. `page` is a renderer: content, dirty,
persisted and failed generation, debounce timer, queued writes and the challenges
it works on, one at a time. The operators on a page follow `flushNow`: it waits for
the writes that were queued before it (`Await`), writes each generation at most
twice (`Attempt`, `WriteOver`) and loops until nothing is dirty (`FlushLoop`). With
nothing to save, a task only waits for the writes under way (`Idle`, `waitForIdle`); what
is edited meanwhile it does not look at, so for that answer `missed` counts only
what was clean. `lane` is the FIFO of `workspaceSaveArbiter.ts`, and `last` what
the winner answered the quit with. Once `window.close()` is called the page is
gone at once ("closing") although the window's `closed` event comes later; a save
it had in the lane is still written. All primary windows show the same
workspace. Of the cleanup only its end is modelled, well or with an error.

### DaemonManager

`op` is the operation of a host (`startupPromise`): the await it is at, whether it
forces a restart (`startupForcesRestart`), the daemon it looks at. `queued` and
`cache` are `queuedForceRestartPromise` and `cachedInfo`; `barred` is a history
variable, the daemons that served when the host last asked for a restart. A
daemon goes from `new` over `lock` and `owner`, where it has created `daemon.lock` but
not yet written its process id, to `starting`, `serving`, `stopping`, `closed` and
`dead`. Files name daemons by process id; `recycled` are dead daemons whose id
belongs to another process by now, which answers to signal 0 and to no health
request. A health check fails when the daemon is not there, and may fail when it
is (`busy`). What a host or a daemon does between two awaits is one step, with
exceptions where looking and acting on a file are two: `Look`, `Locked`, and a
daemon's way through `daemon.lock`, which it fails to create (`TakesLock`), reads
(`Found`) and opens for writing (`TakesOver`) in three steps. The lock may have
vanished when it is read; the code then goes on as with one of a dead daemon.
`contested` records that a daemon has taken over a lock that was no longer as it had
read it. Between the answer of a daemon (`Authenticate`) and the signal
(`Signal`) lies an await; `gone` keeps, until the signal, who had lost his process
id when the answer came. `Faults` selects what may go wrong.

Left out: daemons too old to write a version, which are compatible with all;
`stopDaemon`, which nothing calls; `getDaemonStatus`, which only refreshes the
cache; the moments in which one process removes `pid.json` or a lock that
another has just replaced, a stretch of a few instructions like the one between
`Found` and `TakesOver`.

## The runs

All runs set `CHECK_DEADLOCK FALSE`: rooms can be disposed of, jobs end, and the
bounds of the models are reached, so a state without a successor is normal.
Whether something that should go on does is asked by the liveness properties.

Properties that hold:

| Run | Instance | Shows |
|---|---|---|
| `AgentRoom` | 4 tiles and 3 room ids; two rooms at a time with one event each, or one room with 3 events; 2 retained, 1 todo | `LedgerIsSound`, `UnreadExact`, `GroupsAreSound`, `CursorNeverRewinds`, `TodosStayBehind`: deliveries, own posts, joins and prunings in every order; merges of two rooms, splits, dissolutions, id retirement, disposal that fails and is repeated. Three events with two retained is the least with both a pruned and an unread retained event before an own post; four tiles make two rooms that merge, and the third id is the one after a dissolution. The cfg's constraint `ManyRoomsOrLongLedger` stops where a second event meets a second room, a disposal or a second directed event, and lets fewer tiles join the longer the ledger is (3 with two events, 2 with three); `UnreadCorrect` is proved without it |
| `RoomTurns` | 2 tiles, 1 room, 2 turns, 2 events, 2 invalidations | `StopIsFinal`, `OwnReservationIsSound`. Two turns give every overlap of a foreground and a background turn; two invalidations a stop behind a send |
| `RoomPersistence` | 2 paths, 3 requests each, disposal | `QueueIsSound` (types, one writer per path, a disposal leaves everything on disk), the refinement `LatestWins`; `NewestArrives`, its liveness, if the disk recovers; `FlushReturns` even if it does not. Three requests are one written, one superseded, one newest |
| `JobStream` | queue limit 2, 4 events before `done` | `QueueIsSound` (a queue that holds something has somebody to drain it, and past the scan of the file a regular end of the response means that `done` was sent, or that the daemon shuts down), `NoGapNoRepeat`, `StreamEnds`. The limit is passed while replaying and while live |
| `JobTimeline` | 2 events, 3 faults, any number of overflows and reconciliations | `RecordIsSound` (a terminal record is backed by the timeline, metadata is not ahead of it, a completed job lost nothing), `AnnouncedResultStands`, `TerminalIsFinal`, all until writers cross; `EventuallySettled` whatever crosses. Two events are one that is being appended when the limit is met and one behind it; three faults are a failed job, a failed finalization and a failed or crashed reconciliation |
| `JobScheduler` | 2 jobs, 1 slot, 4 cancels, `early`, `twice`, `disk` | `SlotsAreSound` (slots exact, none idle beside a queue), `ProvidersAreOwned`, `CancelIsFinal` (a cancelled job is over, a forgotten one ended), `AllSettles`. Four cancels are one that fails, its retry and two for the other job. Three jobs on two slots have been checked as well (1.9 million states, one cancel) |
| `ActivityStore` | 2 workspaces, 1 place, 3 operations | `CacheIsSound`, `CloseIsDurable`, the refinement `LatestWins`; `ChangesArrive`, its liveness and the return of the cache to its limit, if the disk recovers. With one place every admission evicts; three operations are one that makes the cache dirty, one that evicts it and one that takes the freed place |
| `RelayRuntime` | 1 message, 3 calls, all file errors | `ProvidersAreSound` (one provider, none after a stop or a destroy, but strays), `MessagesAreAnswered`, `NoticedIsRead` (unless the file could not be read), `CallsReturn` (teardowns and turns included). Three calls are a spawn, a stop or second spawn while it waits, and one that overtakes both |
| `RelayService` | 1 workspace, 2 calls, 2 runtimes, registrations, stops and saves | `RuntimesAreOwned`, `StopIsComplete`, `ProjectionsInOrder`, `ProjectionArrives`. Two of each are one that is interrupted and one that meets its remains; workspaces do not interact but through the stop, which the proofs treat for any number of them |
| `Shutdown` | 2 primary windows, one of them opened later, 1 auxiliary, 2 edits, 1 close or reload, 1 failing save, a quit | `AnswersAreSound`, `WinnerIsFinal`, `QuitEnds`. Two edits are one that is being saved and one made meanwhile; two primaries compete for the last write. A page that only waits for its writes (`Idle`) needs two closes or reloads: `ShutdownRequests.cfg` has them (2.8 million states, safety only) |
| `DaemonManager` | 2 hosts of different versions, 3 daemons, 3 requests, 2 faults of five kinds | `DaemonIsSound` (one daemon beyond `daemon.lock`, the one that serves is in `pid.json`, until a lock is taken over that has changed since it was read; the run reaches such states), `RestartIsNew`, `SignalsAreMeant` (whom a host signals, and with what). Three requests are one that starts a daemon, a restart and a request of the other host meanwhile; three daemons the old, the new and a rival; two faults a death and the reuse of its process id |

The run that ends in a violation (`RelaySpawnFails`) refutes what two tests say;
see [below](#where-code-and-documentation-disagree).

`AtomicWrite` has no run of its own: `AtomicWrite.cfg` checks three files, and the
theorems hold for any number of them.

Every property of a passing run has a mutant of the code, an operator whose name
ends in `Mutant` and stands before the one it replaces, under which TLC finds the
property violated.

The sets of tiles, rooms and turns are interchangeable, which the runs of
`AgentRoom` and `RoomTurns` use as a symmetry; `CursorNeverRewinds`,
`TodosStayBehind` and `OwnReservationIsSound` are action properties, whose
formulas treat the elements alike.

## Fairness

- `RoomPersistence`: continuations of promises run (weak). Adapter calls return
  and timers fire however often the loop is busy with other paths (strong,
  because `Quiet` comes and goes). That a file operation which is retried again
  and again succeeds at some point (`DiskRecovers`) is no part of the
  specification but the premise of `NewestArrives`; the code retries for ever with
  a capped delay.
- `JobStream`: the replay loop goes on, and a blocked socket either drains or
  meets the drain timer the code sets (weak). Nothing is assumed of the client,
  and nothing obliges the job to end.
- `JobTimeline`: the job's steps, the append that a failure left under way, and a
  finalization, once begun, go on (weak); `DoneBegins` is among the job's steps since
  `runJob` ends every job. A reconciliation that has begun goes on, and one begins
  while the record is unsettled and the job not live: the daemon sweeps at its
  start and once a day (weak). Nobody has to open the stream, and faults are never
  obliged to happen.
- `JobScheduler`: for each job some enabled step of its runner, its termination
  or its cancellation happens in the end (weak on their disjunction): timers
  fire, terminations are bounded by timers, and every provider ends at some
  time. The last is an assumption on the provider, not on the code.
- `ActivityStore`: microtasks run (weak); file operations come back and timers
  fire however often the loop is busy with something else (strong). That a save
  retried again and again succeeds (`DiskRecovers`) is the premise of
  `ChangesArrive`, no part of the specification.
- `RelayRuntime`: something of what calls, ticks and a destroy wait for comes back
  (weak, on their disjunction).
  Files do, a turn has a time limit, and an aborted provider is killed within a
  bounded time, confirmed or not. Crashes, aborts and messages are not obliged.
- `RelayService`: what an effect awaits comes back (weak). Nothing is assumed of
  calls, stops and registrations.
- `Shutdown`: a challenge has a time limit, a window that may close closes, and the
  cleanup ends (weak). Nothing is assumed of the pages: a renderer that hangs
  must not hold up the quit.
- `AgentRoom`, `RoomTurns`, `AtomicWrite`, `DaemonManager`: safety only, no fairness.

## Proofs

Every theorem holds for any values of the constants its module declares; the
bounds of the runs (`MaxSeq`, `MaxOps`, `MaxSaves` and the like) are parameters of
the theorems. Next to the types of the constants they assume what is said below.

| Module | Theorem | Statement |
|---|---|---|
| `AgentRoom_proofs` | `TypeCorrect`, `MembershipCorrect`, `LedgerCorrect`, `UnreadCorrect` | `Spec => []TypeOK`, `[]MembershipAgrees`, `[]LedgerIsSound`, `[]UnreadExact` |
| | `CursorsAdvance` | `Spec => CursorNeverRewinds` |
| | `RoomsCorrect`, `TodosCorrect` | `Spec => []GroupsAreSound`, `Spec => TodosStayBehind` on a finite canvas |
| | `StopsCorrect`, `ReservationsCorrect` | of `RoomTurns`: `TurnsSpec => []StopIsFinal`, `TurnsSpec => OwnReservationIsSound` |
| `ActivityStore_proofs` | `CacheCorrect`, `CloseCorrect` | `Spec => []CacheIsSound`, `[]CloseIsDurable` |
| | `StoreImplements` | `Spec => LatestWins`: the store implements `LatestWrite` |
| `Persistence_proofs` | `QueueCorrect` | `Spec => []QueueIsSound`, when only disposal flushes |
| | `QueueImplements` | `Spec => LatestWins`, likewise: the queue implements `LatestWrite` |
| | `AnswersCorrect`, `WinnerCorrect` | of `Shutdown`: `ShutdownSpec => []AnswersAreSound`, `[]WinnerIsFinal` |
| `RelayService_proofs` | `OwnedCorrect`, `StopCorrect` | `Spec => []RuntimesAreOwned`, `[]StopIsComplete` |
| | `ProjectionsCorrect` | `Spec => ProjectionsInOrder` |
| | `EffectsImplement` | `Spec => EffectsInOrder`: the projection queue implements `LatestWrite` |
| `DaemonManager_proofs` | `DaemonCorrect` | `Spec => []DaemonIsSound` |
| | `SignalsCorrect`, `RestartCorrect` | `Spec => SignalsAreMeant`, `Spec => RestartIsNew` |
| `JobScheduler_proofs` | `SlotsCorrect` | `Spec => []SlotsAreSound` |
| | `ProvidersCorrect`, `CancelCorrect` | `Spec => []ProvidersAreOwned`, `Spec => []CancelIsFinal`, with the Codex SDK present |
| `JobTimeline_proofs` | `RecordCorrect`, `AnnouncedCorrect` | `Spec => []RecordIsSound`, `[]AnnouncedResultStands` |
| | `TerminalCorrect` | `Spec => TerminalIsFinal` |
| | `GaplessCorrect`, `StreamQueueCorrect` | `StreamSpec => []NoGapNoRepeat`, `[]QueueIsSound` |
| `RelayRuntime_proofs` | `ProvidersCorrect`, `AnswersCorrect` | `Spec => []ProvidersAreSound`, `[]MessagesAreAnswered`, for any calls, messages and errors |
| | `CopiesTyped`, `AllOrNothingCorrect`, `RecoverableCorrect` | of `AtomicWrite`: `Spec => []TypeOK`, `[]AllOrNothing`, `[]Recoverable` |

**Agent room.** The only assumption is that `NoRoom` is no room id.
`UnreadExact` is not inductive: a tile that joins again would be owed what it was
owed before it left, and an event of an old incarnation of a room could be
mistaken for a new one. The invariant `IInv` adds that only members are owed
anything, that what is owed has been posted, and that pruning and cursors stay
within the ledger. The proof splits by action; `ReseatInv` treats what merges and
departures have in common, given only that membership and members agree
afterwards, which `LeaveInv` and `MergeInv` show each in its own way; `PostInv`
treats the five operations that post, `DeliverInv` the two that read.
`CursorsAdvance` follows from types and one lemma per kind of step.

**Rooms and files.** Sizes of rooms need a finite set of tiles (`FiniteCanvas`);
with it, `SizeFacts` turns the code's size test into cardinalities. `GroupInv`
adds to `IInv` that rooms have company, that the files on disk are those of live
rooms and their members, and that a tile without a room has no todos, without
which a departure could leave some behind.

**Chat turns.** The two theorems assume that the card is a tile and that stops and
turns can be told apart. The invariant of the store is not available here: the
acceptance of a turn may move the card's cursor past traffic that no delivery
showed (`RoomTurnsCrossed.cfg`), so `StoreInv` keeps only what survives that.
`StopIsFinal` is inductive once it is seen how a step changes the turns: it takes
nothing from the queue that a stale turn still needs, or it raises the lease with an
operation queued behind; `NoneOrphaned` says it of the launched turns, `AdriftLost`
covers the rest. For `OwnReservationIsSound`, `ShownCovers` says that the
context of a turn showed everything in its room that is unread up to the sequence
reserved, and `KeepsUnread` that no step of the store makes anything unread again
below the end of a ledger, so that this stays true whatever other tiles do; it
needs `RetiredAreGone`, no room coming back under the id of a dissolved one.
`ReservationFits` ties the reservation to the turn it names, and the action
property follows from the three.

**Activity store.** That nothing is forgotten is not inductive: an eviction may go
on because the store says it is clean, and it has to be shown that a store that
says so is. `SavesHonest` says it: what a store believes saved is in the file, and
a running save writes a snapshot between the file and memory. `FlushSettles`
carries the same through a close, whose successful end must find every store
clean although it looked at them one after the other. `StoreImplements` maps a
change to `Request`, a save (also a failed one that replaced the file) to `Apply`
and every other step to a stutter.

**Persistence queue.** That a path has one writer is not inductive: what keeps a
second object from being made is that one which still has something to write, or a
drain that has not settled, is in the map (`ObjectsInv`). That the file only moves
forward needs `MapInv`: the file is between what the object in the map has applied
and what it is writing. A drain that has ended settles before anything that
waits for the file system (`LoopInv`), and a disposal finds in the map nothing that
is not on its list (`FlushInv`), because the store makes no request meanwhile. This is
what the hypothesis `OnlyDisposal` is for. `QueueImplements` maps a request to
`Request`, an adapter call that changed the file, failed or not, to `Apply`, and
every other step to a stutter.

**Atomic write.** `Phases` says for each loop of the code how far it has come, and
for every file that no rollback step has reached yet, that its destination
follows from its two marks (`Follows`). A rollback visits the files in reverse, so
the invariant splits at the index it is at. The theorems assume that there is at
least one file and that the existing ones are among them (`FilesAreFiles`).

**Relay service.** The invariant compares generations: nothing is of one that has
not begun, a stop has ended its own, and whatever is of a stop's generation or an
earlier one is settled or awaited by it (`StopsAwait`). This is inductive only
with `PublishedAreLive` and the properties themselves. For the projections,
`LaneInOrder` says that a drain's save is newer than what is shown until it
writes, and older than the pending one. `ProjectionsInOrder` speaks of what the
participants hold, which writes that a stop gave up still change; `HeldInv` says
that those are of an earlier registration than the current one, and that among
the writes of one registration none that may still land is older than what is
held.

**Daemon manager.** No assumption on the faults. `SignalInv` says whom a stop is
about, from the check that begins it over both signals to its end: a daemon that
has served and is of another version unless the stop is forced, that has answered
before it is signalled, and that no longer serves once SIGTERM was sent.
`DaemonInv` says whom `daemon.lock` names: nobody yet while its creator has not
written its id, the daemon that is starting, serving or ending, or a dead one; and
that whoever takes a lock over has read the id of a dead daemon, or no lock. So a
lock that is taken over as it was found has no owner; what follows on one that
was not, `DaemonIsSound` leaves open. For the restarts, which need neither,
`RestartStops` says where an operation is that forces a restart while a barred
daemon still serves: it has not yet looked at `pid.json`, it is about to stop just
this daemon, or `pid.json` names another one and will never name this one again.
`StepShape` says how a step ends an operation, so that no daemon found healthy,
other than by `waitForDaemonReady`, is ever handed out by a restart.

**Job scheduler.** Two kinds of facts. What concerns one job (`JobInv`) says where
a provider may be at work: from the launch on it is bound, and one that outlives
its runner is held for another attempt; a cancellation that waits for the runner
has seen the provider stop, unless it is a query, which ends before its runner.
What ties the jobs together (`SlotsInv`) says that the queue holds the queued jobs
once each and that slots are counted; `PumpFacts` says what `pumpJobQueue` does to
both, and as `Pump` is a relation between the queue before and after, how many
entries are taken being a witness, it needs no induction. `SlotsCorrect` has no hypothesis.
The others assume `NoFallback`: without the SDK a provider is launched for a
cancelled job (`JobSchedulerFallback.cfg`), and both properties fail.

**Job timeline.** A record that is consistent now says nothing about the one after
the next write, so `IInv` says what the files look like at each point at which the
writers may be. `ControlInv` says which can be at work together: while the record
is not `blind`, a reconciliation excludes the finalization and a late append, but
these two run beside each other. What a live job accepted is in the timeline or in
the queue (`LiveInv`), a failed one is cut where it failed (`FailedInv`), a
finalization has seen or will see an error before a `done` whatever lands beside it
(`FinInv`), and a reconciliation that is alone knows the file (`RecInv`, which holds
for a `blind` record as well: this is why one such reconciliation ends the
blindness). `SettledInv` says what may still be under way when the record is
terminal: nothing that writes if it is a success; a late append behind the `done` of
a failure, which a scan does not accept. A background flush that began early must
not land late: `MetaInv` says that it carries no more than the timeline holds and
never the closing event. `Same`, `Longer` and `Shorter` are the three things a
step does to the timeline, so that each action is proved from one of them. There is
no hypothesis beyond the types of the bounds.

**Job event stream.** That nothing is missing or sent twice is seen only where the
three sources of a replay meet. `StreamInv` says for a subscriber in any state where
each event it does not have yet is: in the part of the file that the scan is
obliged to read, among the pending ones, in the buffer, which goes on where the
replay ends (`Replays`), or in the queue, which goes on after the last event sent
(`GoesOn`). `TakenFacts` shows it of a list of events of which a socket takes any
part, `PublishFacts` of a publication in any state, also the two in one step with which
a timeline fails; `LeastNumber` makes the least pending event the next one. `Fate`,
an invariant of its own, traces how a record was closed: as torn only during the scan,
by a shutdown only when there was one; with it and `StreamInv` the record says what a
regular end means to a client that cannot see why the response ended. Of the
constants only the assumptions of `JobStream` are used.

**Relay runtime.** `OneProvider` and `StopHolds` depend on what calls that are suspended know
and do when they go on. `ObjectsInv` ties the providers of an agent
object to the stage of its turn, `InsideInv` says that the agent in the map begins
no turn while a provider is left, `OutsideInv` that an object outside the map has been
dropped while it ran or does nothing, `EpochInv` bounds epochs by the calls that raise them, and `CallsInv` says
that only the call which holds the revision may change the map, and that it
still sees what it saw. `StopInv` carries a stop from its call to its return.
`MessagesInv` follows a message through the stages of the turn that shows it.
A step of a turn is a step of the agent in the map (`TurnStep`, `MapTick`) or of a
stray (`StrayStep`, `StrayTick`), which touches neither the map nor a message. Neither
theorem has a hypothesis; what a stray or an orphan may do is excepted in the
properties, and `RelaySpawnFails` shows that it has to be.

**Shutdown.** Neither theorem has a hypothesis beyond the types of the constants:
windows may open at any time, pages may never answer, saves may fail.

That an answer means a saved canvas rests on four facts. `PageSound` is about one
page: no queued write is newer than the page, a write of its newest generation
has captured or will capture the page's canvas, at most one write is awaited and
what is queued behind it is as new as all before. `LaneFits` ties the lane to the
pages: a save whose page still lives is the first write of that page, and a
page has one save in the lane at most. `CleanIsSaved` says that a page with
nothing dirty shows a canvas that has been on disk, which is what a flush that
ends relies on, and `ChallengesInv` that a page works on nothing unless its window is open
and that a challenge which is live is the one the window has sent.

For the winner, `QuitInv` says who is asked to quit: only while quitting, the winner
only when no other window is open (`Alone`), and a page works on a quit while that is its
window's first request. `LastInLane` says that the attempt a quitting winner
waits for is the last save of the lane, whatever windows that have closed
left before it; so when it ends, the lane is empty. From then on (`LastInv`) what is
on disk, in the lane or in the winner's page is the answered canvas or newer, and
the winner's own. All this fails when a window opens once the quit has begun
(`ShutdownLateWindow.cfg`), but then the application does not end at all: `Stuck` says
that a window which is in no order and is not asked to quit stays so, and the
theorem follows from `Stuck` or the rest.

All inductive invariants were checked by TLC, as invariants of the runs'
instances, before they were proved.

Only model-checked: liveness (`QuitEnds` among it), the
fairness part of `LatestWrite` and anything about `ENABLED` stay with TLC in all
modules, being out of reach of the prover.

## Where code and documentation disagree

One is a run:

- **`RelaySpawnFails`**. A message that arrives while `spawn` still sends its initial
  task starts a turn. When the initial task then cannot be sent, `spawn` takes the
  agent out of the map; `destroy` neither aborts nor awaits the turn, although
  tests say that it does (`runtime.test.ts:334`, `:502`), and a new `spawn` starts a
  second provider. The same happens without any error of a file when the first
  turn of an agent times out: its abort rejects the `spawn` that still awaits it
  (`RelayRuntimeTimeout.cfg`).

The others have a configuration each that is no run; the violation is
reproduced by `tlc -config X.cfg M`:

- **`AgentRoomExpiry.cfg`** (`MCAgentRoom`). `post` decides from the *retained*
  events whether the poster has unread traffic. When an unread event has been
  pruned, the poster's cursor jumps over it, and the note "retained room traffic
  unavailable", which `consume` would have shown, is lost with it. The comment in
  `post` promises not to skip unread traffic.
- **`RoomTurnsCrossed.cfg`** (`MCRoomTurns`). Reservations are per card, but a card
  may have a foreground turn and a background job at once. Acceptance of the one
  settles the reservation of the other, whose prompt may still fail.
  The same property fails with one turn and two rooms (`Turn = {k1}`,
  `Room = {r1, r2}`): a reservation does not name its room, so that a card which
  is wired into another room between preparation and acceptance acknowledges
  the old sequence there.
- **`RoomTurnsLost.cfg`** (`MCRoomTurns`, `NothingRunsOn`). A turn superseded while its
  daemon job is being started sends one cancel and ignores its failure; the job
  runs on, no stop knows of it and none reports it. The same happens when only the
  answer of a start is lost, when the event stream of a job breaks, and when a
  background job is at work after the minute for which it is polled. The comment of
  `stopCardExecution` (`chat.ts:1265-1270`) says "so no path leaves orphaned
  work streaming into a dead cardId": such work does not stream, but it goes on.
- **`JobSchedulerTwice.cfg`**. Two cancel requests for a queued job: the second one
  sets `cancelRequested` while the first writes the error event, and the `done` of
  the first is refused. The job is gone, without a terminal event.
- **`JobSchedulerFallback.cfg`**. Preparation looks at `cancelRequested` after the
  SDK was created, but not when the SDK is missing; the command-line provider is
  then spawned for a cancelled job.
- **`JobSchedulerDisk.cfg`**. When a timeline write fails during preparation there
  is no provider to stop yet, and preparation does not look whether the job was
  declared failed; the provider is launched afterwards.
- **`RelayRuntimeMissed.cfg`** (`MissedIsRead`). An error while a message or its
  directory is read looks like its absence (`relay.ts:59-65`, `:96-102`, `:692-705`).
  The turn ends quietly, the agent stays ready, and the message waits until another
  one, or a call, wakes it.
- **`RelayServiceStray.cfg`**. A stop rejects an effect at once but cannot take back
  the write that is under way. After a new registration has projected a newer
  canvas, the old write may still land: an older sync becomes the final
  projection, which `src/main/ipc/canvas.ts:774-776` excludes.
- **`ShutdownLateWindow.cfg`** (`Shutdown`). `closeAll` fixes its order when the quit begins. A window
  that opens later is in no order: it refuses the resumed quit, and its own close
  is given up because the application is quitting. The comment in
  `window-persistence-barrier.ts:303` promises that the quit is resumed exactly
  once; here it never ends.
- **`DaemonManagerStuck.cfg`**. A daemon that dies between creating `daemon.lock` and
  writing its id leaves the file empty. `Number('')` is 0, and signal 0 to process 0
  succeeds always, so that every later daemon takes the lock for held and
  exits: none ever starts until the file is removed by hand. The same happens
  when the id in the lock has been given to another process. The comment in
  `codesurfd.mjs:4240-4242` says "handle stale lock (dead pid)".
- **`DaemonManagerTakeover.cfg`** (`OneDaemon`). A daemon that cannot create
  `daemon.lock` reads it, and when it names a dead process, or is gone by then, opens
  it for writing, not exclusively. Another daemon may have taken the same stale
  lock over, or created the vanished one, in between: both serve. The same comment
  says "O_EXCL lock file prevents two daemons from racing through the TOCTOU
  window". Two daemons start at once when a host has died or is slow and its
  `startup.lock` has grown old.
- **`JobStreamTorn.cfg`** (`CleanEndMeansDone`). A subscriber whose replay reads the
  timeline while a line of it is half written is closed with the default of
  `closeRecord`, which is `res.end()`: the client reads the same end as after `done`
  (chat-jobs.mjs:4648-4651), although the job goes on. The app takes the end of the
  response for the end of the stream (chat.ts:1053-1077): it forwards no `done` to the
  renderer and forgets the job. `QueueIsSound` therefore excludes a record closed
  during the scan, and says of all others that a regular end is a `done` or a shutdown.
- **`JobTimelineSwept.cfg`** (`TerminalMatches`, without any fault). The queue's limit
  fails a timeline while an append is under way; the job ends, and a reconciliation
  begins beside the finalization and the append (`reconcileInterruptedJob` checks
  `liveJobs` only). The append lands between the scan and the lines of the
  reconciliation, whose numbers then do not follow: the scan stops before them, and
  the metadata is written as failed at a sequence the timeline does not have, against
  "both timeline terminal records are durable before the metadata status and
  high-water mark advance" (chat-jobs.mjs:4586-4587). The next opening of the
  stream repairs it.
- **`JobTimelineBlind.cfg`** (`CompletedKeepsAll`). An append of `done` fails halfway and
  cannot be inspected; the next attempt writes behind the half line and counts as
  written, and the job is recorded and announced as completed although a scan never
  reaches its `done`. The next reconciliation turns the announced success into a
  failure. The comment at chat-jobs.mjs:2017-2019 covers only attempts that can be
  inspected.
- **`DaemonManagerStranger.cfg`** (`NoStrangerSignalled`). After the daemon has answered
  as itself, `pid.json` is read once more and the process id is signalled. The
  answer travels through two awaits (`fetch` and `response.json`): a daemon that
  dies without its exit handler meanwhile is still in `pid.json`, and whoever has
  its id gets the signal. The comment in `manager.ts:448-451` says the code fails
  closed "rather than risk sending SIGKILL to a recycled PID".
- **Restart during an ensure** (`DaemonManager`, `CachedChecked`). `runEnsureDaemon` reads
  `cachedInfo` again after its health check. A restart asked for meanwhile has set
  it to null, and the ensure rejects with the TypeError of `null.appVersion`
  instead of going on to `pid.json`.

A fault that production does not reach: `flush` of the persistence queue deletes
by key whatever the map holds, even an object made after its snapshot. The next
request then starts a second drain beside the first, and older content may be
written last: with `Callers = {"flush"}`, `RoomPersistence` violates `LatestWins`.
`flushAgentRooms` is called by tests only; disposal, which flushes too, admits no
request meanwhile, and the run shows that it is safe.

## Not modelled

Within the modelled components: member descriptions, the token ledger and the
textual projections of the store; resume ids and renderer events of chat turns;
tool-permission questions of the daemon; heartbeats and byte limits of streams;
the retention sweep that deletes old, settled job records; the channels of the
relay, and the work, status and memory files of its turns; the output limits of
the relay's subprocesses (`bounded-subprocess.ts`); the bounded drain of the quit
(`quit-drain.ts`) and the single services it stops; the requests of the daemon's
client and its reconnection to an event stream (`client.ts`, `sse.ts`), and the
stored chat sessions.

Components: those in the inventory that no module names. The renderer, the
Electron shell, bundled extensions, the applications under `apps/` and the
terminal gateway are input and output around them and are not planned. They are
also the largest part of the repository's lines: interface components, themes,
HTTP routes and format adapters, whose state the modelled components own.

## Plan

Done: `AgentRoom`, `RoomTurns`, `LatestWrite`, `RoomPersistence`, `JobStream`, `JobTimeline`,
`JobScheduler`, `ActivityStore`, `RelayRuntime`, `AtomicWrite`, `RelayService` (with the
latest-effect queue), `Shutdown`, `DaemonManager`, and the eight modules of proofs.

Left, in this order:

1. `DaemonClient`: reconnection after the last sequence, composed with the end of
   `JobStream`.
2. The channels of the relay mailbox, whose cursors are times.
3. `ToolPermissions` over `JobScheduler`; `SecurityState`; `ExtensionBroker`.
4. `QueuedMessages` and the tile state saves; `QuitDrain` under `Shutdown`.
5. `LayoutGroups`, `Kanban`: pure algorithms against reference definitions.

