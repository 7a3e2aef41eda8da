------------------------------ MODULE Shutdown -----------------------------
(***************************************************************************)
(* Closing windows and quitting the application.                           *)
(*                                                                         *)
(* Main process: the registry of main/window-persistence-barrier.ts asks a *)
(* window to save before it is closed or reloaded (a challenge), and on    *)
(* quit closes all windows, one after the other, the window that was       *)
(* focused last at the end; then the cleanup of main/index.ts runs and the *)
(* quit is resumed.  Renderer: renderer/src/lib/windowPersistenceBarrier   *)
(* .ts answers a challenge once the canvas has been flushed through the    *)
(* write queue of renderer/src/lib/orderedCanvasPersistence.ts (mode       *)
(* "debounced").  The saves of all windows meet in the main process, in    *)
(* the FIFO lane of main/storage/workspaceSaveArbiter.ts.                  *)
(*                                                                         *)
(* All primary windows show the canvas of one workspace.  Window ids are   *)
(* numbers, as those of their web contents.                                *)
(***************************************************************************)
EXTENDS Integers, Sequences, FiniteSets, SequencesExt

CONSTANTS Primary, Auxiliary,  \* ids of windows, by role
          Later,               \* primaries that are not open at the start
          OpensWhileQuitting,  \* whether one may be opened after a quit began
          MaxEdits,            \* bounds of the model: edits,
          MaxRequests,         \* closes and reloads by the user,
          MaxFails             \* and saves that fail

ASSUME WindowsAssumption ==
  /\ Primary \cup Auxiliary \subseteq Nat \ {0} /\ Primary \cap Auxiliary = {}
  /\ Later \subseteq Primary /\ OpensWhileQuitting \in BOOLEAN
ASSUME BoundsAssumption == {MaxEdits, MaxRequests, MaxFails} \subseteq Nat

VARIABLES
  window,    \* window -> unopened, open, closing or closed
  focused,   \* primaries in the order in which they were last focused
  requests,  \* window -> reasons of its challenges (requestTail); the first is out
  out,       \* window -> whether the first was sent, and what the page answered
  closeRequest, \* window -> none, close, quit, or a quit that waits for a close
  quit,      \* no, windows, cleanup, failed, resumed or exited
  order,     \* windows that closeAll has still to close
  winner,    \* the window meant to write last, 0 when there is none
  page,      \* window -> its renderer
  lane,      \* saves in the main process
  stored,    \* the canvas on disk and the window that wrote it
  written,   \* canvases that have been on disk
  missed,    \* canvases a page answered for although they were never on disk
  last,      \* what the winner answered the quit with
  made       \* edits, requests and failures so far

barriers == <<window, focused, requests, closeRequest, order, winner>>
main == <<barriers, quit>>
saves == <<page, lane, stored, written, missed, last>>
shutdownVars == <<main, out, saves, made>>

Window == Primary \cup Auxiliary
Canvas == 0..MaxEdits
NoCanvas == [by |-> 0, canvas |-> 0]

\* A page: canvas is its content; gen, saved and failed the dirty, the
\* persisted and the failed generation; timer the canvas of the debounced save
\* (-1: none); tail the writes that are queued, the first one being in the
\* lane; asks the challenges it works on, live until they time out; left the
\* attempts the flush has left (-1: it waits for older writes, -2: the task
\* only waits for them).
NoPage == [up |-> FALSE, canvas |-> 0, gen |-> 0, saved |-> 0, failed |-> 0,
           timer |-> -1, tail |-> <<>>, asks |-> <<>>, left |-> 0]
Loaded == [NoPage EXCEPT !.up = TRUE, !.canvas = stored.canvas]

Reason == {"close", "quit", "reload"}
Asked == [reason : Reason, live : BOOLEAN]
Write == [gen : Nat, canvas : Canvas \cup {-1}, awaited : BOOLEAN]
Page == [up : BOOLEAN, canvas : Canvas, gen : Nat, saved : Nat, failed : Nat,
         timer : Canvas \cup {-1}, tail : Seq(Write),
         asks : Seq(Asked), left : -2..2]

ShutdownTypeOK ==
  /\ window \in [Window -> {"unopened", "open", "closing", "closed"}]
  /\ focused \in Seq(Primary) /\ order \subseteq Window /\ winner \in Primary \cup {0}
  /\ requests \in [Window -> Seq(Reason)]
  /\ out \in [Window -> {"no", "sent", "answered"}]
  /\ closeRequest \in [Window -> {"none", "close", "quit", "close, then quit"}]
  /\ quit \in {"no", "windows", "cleanup", "failed", "resumed", "exited"}
  /\ page \in [Window -> Page]
  /\ lane \in Seq([by : Window, canvas : Canvas, lost : BOOLEAN])
  /\ {stored, last} \subseteq [by : Window \cup {0}, canvas : Canvas]
  /\ written \subseteq Canvas /\ missed \subseteq Canvas
  /\ made \in [edits : 0..MaxEdits, requests : 0..MaxRequests, fails : 0..MaxFails]

ShutdownInit ==
  /\ window = [w \in Window |-> IF w \in Later THEN "unopened" ELSE "open"]
  /\ focused = <<>> /\ order = {} /\ winner = 0
  /\ requests = [w \in Window |-> <<>>]
  /\ out = [w \in Window |-> "no"]
  /\ closeRequest = [w \in Window |-> "none"]
  /\ quit = "no"
  /\ page = [w \in Window |-> [NoPage EXCEPT !.up = w \notin Later]]
  /\ lane = <<>> /\ stored = NoCanvas /\ last = NoCanvas
  /\ written = {0} /\ missed = {}
  /\ made = [edits |-> 0, requests |-> 0, fails |-> 0]

Quitting == quit # "no"  \* wholeAppClosing
Running == quit # "exited"

-----------------------------------------------------------------------------
(* The renderer.  Each operator below maps a page to what it becomes.      *)

Dirty(p) == p.gen > p.saved

Enqueue(p, gen, canvas, awaited) ==
  [p EXCEPT !.tail = Append(@, [gen |-> gen, canvas |-> canvas, awaited |-> awaited])]

\* flushNow writes the page's canvas as long as it is dirty, each generation
\* at most twice; a generation that has failed gets one attempt.
Attempt(p) == Enqueue([p EXCEPT !.left = IF p.failed = p.gen THEN 1 ELSE 2], p.gen, -1, TRUE)

\* The task is over and the page says so, whether it could save or not.
Answer(p) == [p EXCEPT !.asks = Tail(@), !.left = 0]

FlushLoop(p) == IF Dirty(p) THEN Attempt(p) ELSE Answer(p)

\* A quit is answered with a write, even when the canvas is clean.
Forced(p) == IF Head(p.asks).reason = "quit" /\ ~Dirty(p) THEN [p EXCEPT !.gen = @ + 1] ELSE p

\* A task waits for the newest of the writes under way.
Await(p, left) == [p EXCEPT !.left = left,
                            !.tail = [@ EXCEPT ![Len(p.tail)].awaited = TRUE]]

\* flush: drop the debounced save, wait for the writes under way, and write.
Flush(p) == LET q == [p EXCEPT !.timer = -1] IN
            IF p.tail # <<>> THEN Await(q, -1) ELSE FlushLoop(Forced(q))

\* waitForIdle, when there is nothing to save.
Idle(p) == IF p.tail # <<>> THEN Await(p, -2) ELSE Answer(p)

\* The flush has written: what was edited meanwhile is written, too.
FlushedMutant(p) == Answer([p EXCEPT !.timer = -1])
Flushed(p) == FlushLoop([p EXCEPT !.timer = -1])

\* A write has ended, well or not.
Recorded(p, ok) ==
  LET gen == Head(p.tail).gen IN
  [p EXCEPT !.tail = Tail(@),
            !.saved = IF ok /\ gen > @ THEN gen ELSE @,
            !.failed = IF ok THEN IF @ <= gen THEN 0 ELSE @
                       ELSE IF gen >= p.saved /\ gen >= @ THEN gen ELSE @]

WriteOver(p, ok) ==
  LET q == Recorded(p, ok)
      retry == Enqueue([q EXCEPT !.left = @ - 1], Head(p.tail).gen, -1, TRUE)
  IN CASE ~Head(p.tail).awaited -> q
       [] Head(p.tail).awaited /\ p.left = -2 -> IF ok THEN Idle(q) ELSE Answer(q)
       [] Head(p.tail).awaited /\ p.left = -1 -> FlushLoop(Forced(q))
       [] Head(p.tail).awaited /\ p.left > 0 ->
            IF ok THEN Flushed(q) ELSE IF p.left = 1 THEN Answer(q) ELSE retry

\* The page of w becomes p.  A write that is now the first of its queue goes to
\* the lane, with the canvas as it is now unless it was captured (-1: not).
\* An answer counts when it is in time; fine says that it reports no failure.
\* A task that only waited does not look for edits made meanwhile.
Captured(p) == IF Head(p.tail).canvas = -1 THEN p.canvas ELSE Head(p.tail).canvas
Answers(w, p) == Len(p.asks) < Len(page[w].asks)
InTime(w, p) == Answers(w, p) /\ Head(page[w].asks).live

Becomes(w, p, rest, fine) ==
  /\ page' = [page EXCEPT ![w] = p]
  /\ lane' = IF p.tail # <<>> /\ (page[w].tail = <<>> \/ rest # lane)
             THEN Append(rest, [by |-> w, canvas |-> Captured(p), lost |-> FALSE])
             ELSE rest
  /\ out' = IF InTime(w, p) THEN [out EXCEPT ![w] = "answered"] ELSE out
  /\ missed' = IF /\ Answers(w, p) /\ fine /\ w \in Primary
                  /\ page[w].left = -2 => ~Dirty(p)
               THEN missed \cup ({p.canvas} \ written') ELSE missed
  /\ last' = IF InTime(w, p) /\ fine /\ w = winner /\ Head(page[w].asks).reason = "quit"
             THEN [by |-> w, canvas |-> p.canvas] ELSE last

\* The user edits the canvas: schedule.
Edit(w) ==
  /\ Running /\ page[w].up /\ w \in Primary
  /\ made.edits < MaxEdits /\ made' = [made EXCEPT !.edits = @ + 1]
  /\ LET c == made.edits + 1 IN
     Becomes(w, [page[w] EXCEPT !.canvas = c, !.gen = @ + 1, !.timer = c], lane, TRUE)
  /\ UNCHANGED <<main, stored, written>>

TimerFires(w) ==
  LET p == page[w] IN
  /\ Running /\ p.up /\ p.timer # -1
  /\ Becomes(w, Enqueue([p EXCEPT !.timer = -1], p.gen, p.timer, FALSE), lane, TRUE)
  /\ UNCHANGED <<main, stored, written, made>>

\* The task of the oldest challenge begins: only a primary window owns the
\* canvas, and only a quit has it written although it is clean.
Task(w, p) == IF w \in Auxiliary THEN Answer(p)
              ELSE IF Head(p.asks).reason = "quit" \/ Dirty(p) THEN Flush(p)
              ELSE Idle(p)

TaskBegins(w) ==
  /\ Running /\ page[w].up /\ page[w].asks # <<>> /\ page[w].left = 0
  /\ UNCHANGED <<main, stored, written, made>>
  /\ Becomes(w, Task(w, page[w]), lane, TRUE)

Load(w) ==
  /\ Running /\ window[w] = "open" /\ ~page[w].up
  /\ page' = [page EXCEPT ![w] = Loaded]
  /\ UNCHANGED <<main, out, lane, stored, written, missed, last, made>>

\* The oldest save of the lane ends.  Nobody waits for it when its page is
\* gone.  A task reports a failure when its last attempt has failed, or the
\* write it only waited for.
Reports(p, ok) == ~ok /\ p.left \in {-2, 1}

Save(ok) ==
  LET s == Head(lane) IN
  /\ Running /\ lane # <<>>
  /\ IF ok THEN UNCHANGED made
     ELSE made.fails < MaxFails /\ made' = [made EXCEPT !.fails = @ + 1]
  /\ stored' = IF ok THEN [by |-> s.by, canvas |-> s.canvas] ELSE stored
  /\ written' = written \cup (IF ok THEN {s.canvas} ELSE {})
  /\ IF s.lost
     THEN lane' = Tail(lane) /\ UNCHANGED <<page, out, missed, last>>
     ELSE Becomes(s.by, WriteOver(page[s.by], ok), Tail(lane), ~Reports(page[s.by], ok))
  /\ UNCHANGED main

-----------------------------------------------------------------------------
(* The registry.                                                           *)

PageGone(w) ==
  /\ page' = [page EXCEPT ![w] = NoPage]
  /\ lane' = [i \in 1..Len(lane) |-> IF lane[i].by = w THEN [lane[i] EXCEPT !.lost = TRUE]
                                     ELSE lane[i]]

Open(w) ==
  /\ window[w] = "unopened"
  /\ quit \in (IF OpensWhileQuitting THEN {"no", "windows", "cleanup"} ELSE {"no"})
  /\ window' = [window EXCEPT ![w] = "open"]
  /\ UNCHANGED <<focused, requests, closeRequest, quit, order, winner, out, saves, made>>

\* The sequence s, in which w is at most once, without w.
Without(s, w) == IF w \in ToSet(s) THEN RemoveAt(s, CHOOSE i \in DOMAIN s : s[i] = w) ELSE s

\* Once closeAll has begun the order is fixed: focus plays no role any more.
Focus(w) ==
  /\ ~Quitting /\ window[w] = "open" /\ w \in Primary
  /\ focused' = Append(Without(focused, w), w)
  /\ UNCHANGED <<window, requests, closeRequest, quit, order, winner, out, saves, made>>

Ask(w, reason) == requests' = [requests EXCEPT ![w] = Append(@, reason)]

\* The user closes a window: the close is prevented, and a challenge made
\* unless a close or quit of it is already under way.
Close(w) ==
  /\ Running /\ window[w] = "open" /\ made.requests < MaxRequests
  /\ made' = [made EXCEPT !.requests = @ + 1]
  /\ closeRequest[w] = "none"
  /\ closeRequest' = [closeRequest EXCEPT ![w] = "close"]
  /\ Ask(w, "close")
  /\ UNCHANGED <<window, focused, quit, order, winner, out, saves>>

Reload(w) ==
  /\ Running /\ window[w] = "open" /\ made.requests < MaxRequests
  /\ made' = [made EXCEPT !.requests = @ + 1]
  /\ Ask(w, "reload")
  /\ UNCHANGED <<window, focused, closeRequest, quit, order, winner, out, saves>>

\* runChallenge: a page that is loading or unloading does not hear it.
Challenge(w) ==
  /\ Running /\ requests[w] # <<>> /\ out[w] = "no"
  /\ out' = [out EXCEPT ![w] = "sent"]
  /\ page' = IF page[w].up
             THEN [page EXCEPT ![w].asks = Append(@, [reason |-> Head(requests[w]), live |-> TRUE])]
             ELSE page
  /\ UNCHANGED <<main, lane, stored, written, missed, last, made>>

\* The page has answered, or the time is up: what was waiting goes on.  After
\* a reload the page starts over; a close that finds the application quitting
\* leaves the window to the quit.
SettledMutant(w) == out[w] = "answered"
Settled(w) == out[w] # "no"

Expired(p) == [p EXCEPT !.asks = [i \in 1..Len(@) |-> [@[i] EXCEPT !.live = FALSE]]]

Closes(w) == \/ Head(requests[w]) = "quit"
             \/ Head(requests[w]) = "close" /\ ~Quitting

ChallengeOver(w) ==
  LET reason == Head(requests[w])
      rest == Tail(requests[w])
      queued == reason = "close" /\ closeRequest[w] = "close, then quit"
  IN
  /\ Running /\ Settled(w)
  /\ out' = [out EXCEPT ![w] = "no"]
  /\ requests' = [requests EXCEPT ![w] = IF queued THEN Append(rest, "quit") ELSE rest]
  /\ closeRequest' = IF reason # "close" THEN closeRequest
                     ELSE [closeRequest EXCEPT ![w] = IF queued THEN "quit" ELSE "none"]
  /\ window' = IF Closes(w) THEN [window EXCEPT ![w] = "closing"] ELSE window
  /\ order' = IF reason = "quit" THEN order \ {w} ELSE order
  /\ IF Closes(w) \/ (reason = "reload" /\ window[w] = "open")
     THEN PageGone(w)
     ELSE /\ page' = [page EXCEPT ![w] = Expired(page[w])]
          /\ UNCHANGED lane
  /\ UNCHANGED <<focused, quit, winner, stored, written, missed, last, made>>

\* The closed event: the barrier is disposed of, and with it what it waits for.
Closed(w) ==
  /\ Running /\ window[w] = "closing"
  /\ window' = [window EXCEPT ![w] = "closed"]
  /\ requests' = [requests EXCEPT ![w] = <<>>]
  /\ out' = [out EXCEPT ![w] = "no"]
  /\ closeRequest' = [closeRequest EXCEPT ![w] = "none"]
  /\ focused' = Without(focused, w)
  /\ order' = order \ {w}
  /\ UNCHANGED <<quit, winner, saves, made>>

-----------------------------------------------------------------------------
(* Quitting.                                                               *)

Live == {w \in Window : window[w] \in {"open", "closing"}}

\* The primary focused last, or the first one, writes last.
IsWinner(w) ==
  IF focused # <<>> THEN w = Last(focused)
  ELSE IF Live \cap Primary = {} THEN w = 0
  ELSE w \in Live \cap Primary /\ \A v \in Live \cap Primary : w <= v

\* orderedCloseBarriers: auxiliary windows first, the winner last.
BeforeMutant(v, w) ==
  \/ v \in Auxiliary /\ (w \in Primary \/ v < w)
  \/ v \in Primary /\ w \in Primary /\ v < w
Before(v, w) ==
  \/ v \in Auxiliary /\ (w \in Primary \/ v < w)
  \/ v \in Primary /\ w \in Primary /\ v # winner /\ (w = winner \/ v < w)

\* The first before-quit; later ones are prevented and change nothing.
Quit ==
  /\ quit = "no"
  /\ quit' = "windows"
  /\ order' = Live
  /\ winner' \in {w \in Primary \cup {0} : IsWinner(w)}
  /\ focused' = <<>>
  /\ UNCHANGED <<window, requests, closeRequest, out, saves, made>>

\* requestClose("quit") of the next window: a challenge of its own, after the
\* close under way, if there is one.
CloseNext(w) ==
  /\ quit = "windows" /\ w \in order /\ \A v \in order \ {w} : Before(w, v)
  /\ \/ /\ closeRequest[w] = "close"
        /\ closeRequest' = [closeRequest EXCEPT ![w] = "close, then quit"]
        /\ UNCHANGED requests
     \/ /\ closeRequest[w] = "none"
        /\ closeRequest' = [closeRequest EXCEPT ![w] = "quit"]
        /\ Ask(w, "quit")
  /\ UNCHANGED <<window, focused, quit, order, winner, out, saves, made>>

Cleanup ==
  /\ quit = "windows" /\ order = {}
  /\ quit' = "cleanup"
  /\ UNCHANGED <<barriers, out, saves, made>>

\* runAppShutdownCleanup has failed: the application stays.
CleanupFails ==
  /\ quit = "cleanup"
  /\ quit' = "failed"
  /\ UNCHANGED <<barriers, out, saves, made>>

\* It has succeeded: app.quit() closes what is open, as a user would.
Refuses(w) == window[w] = "open" /\ closeRequest[w] = "none"

Resume ==
  /\ quit = "cleanup"
  /\ quit' = "resumed"
  /\ closeRequest' = [w \in Window |-> IF Refuses(w) THEN "close" ELSE closeRequest[w]]
  /\ requests' = [w \in Window |-> IF Refuses(w) THEN Append(requests[w], "close") ELSE requests[w]]
  /\ UNCHANGED <<window, focused, order, winner, out, saves, made>>

Exit ==
  /\ quit = "resumed" /\ Live = {}
  /\ quit' = "exited"
  /\ UNCHANGED <<barriers, out, saves, made>>

-----------------------------------------------------------------------------
Renderer(w) == Edit(w) \/ TimerFires(w) \/ TaskBegins(w) \/ Load(w)
User(w) == Open(w) \/ Focus(w) \/ Close(w) \/ Reload(w)
Barrier(w) == Challenge(w) \/ ChallengeOver(w) \/ Closed(w)
Quits == (\E w \in Window : CloseNext(w)) \/ Cleanup \/ CleanupFails \/ Resume \/ Exit

ShutdownNext ==
  \/ \E w \in Window : Renderer(w) \/ User(w) \/ Barrier(w)
  \/ \E ok \in BOOLEAN : Save(ok)
  \/ Quit
  \/ Quits

\* A challenge has a time limit, a window that may close closes, and the
\* cleanup ends.  Nothing is assumed of the pages.
ShutdownFairness == (\A w \in Window : WF_shutdownVars(Barrier(w))) /\ WF_shutdownVars(Quits)

ShutdownSpec == ShutdownInit /\ [][ShutdownNext]_shutdownVars /\ ShutdownFairness

-----------------------------------------------------------------------------
\* The canvas of a page that answers without reporting a failed save has been
\* on disk, with the edits made while the flush was writing.
AnswerMeansSaved == missed = {}

\* Whatever other windows still had under way, and even if they did not
\* answer in time: when the window meant to write last has answered the quit,
\* the application ends with that window's canvas on disk.
WinnerIsFinal ==
  quit = "exited" /\ last # NoCanvas => stored.by = winner /\ stored.canvas >= last.canvas

\* A quit ends the application, unless the cleanup failed.
QuitEnds == (quit = "windows") ~> (quit \in {"exited", "failed"})

\* Type correctness, and answers that can be relied on.
AnswersAreSound == ShutdownTypeOK /\ AnswerMeansSaved
=============================================================================
