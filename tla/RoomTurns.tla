----------------------------- MODULE RoomTurns -----------------------------
(***************************************************************************)
(* The chat turns of one card (src/main/ipc/chat.ts with the helpers under *)
(* src/main/chat/) on top of the agent-room store.  A turn is given unread *)
(* room traffic as prompt context; the sequence it covers is held as a     *)
(* reservation, and the card's cursor moves only when a provider accepts   *)
(* the prompt.  Sends and stops of a card are queued one behind the other, *)
(* but take effect on the preparation lease at once, on arrival.           *)
(***************************************************************************)
EXTENDS AgentRoom

CONSTANTS Card,     \* the tile whose chat is modelled
          Turn,     \* chat:send requests
          Stop,     \* the queue entry of a chat:stop
          NoTurn,
          MaxGen    \* bound of the model: invalidations of the lease

ASSUME CardAssumption == Card \in Tile
ASSUME TurnAssumption == Stop \notin Turn /\ NoTurn \notin Turn

VARIABLES
  generation,   \* ChatPreparationFence.generations for the card
  fifo,         \* ChatLifecycleCoordinator.queues: the head is executing
  turn,         \* what is known of every turn
  reservation,  \* RoomContextAcknowledgements.pending for the card
  unconfirmed   \* history: turns a stop could not confirm as terminated

turnVars == <<generation, fifo, turn, reservation, unconfirmed>>
allVars  == <<vars, turnVars>>

NoSeq == -1     \* acknowledgeThrough = null: nothing to reserve
Nothing == [turn |-> NoTurn, seq |-> NoSeq]

\* room, seq and shown are the room, the reserved sequence and the room
\* traffic of the context that was prepared for the turn.  A turn is adrift
\* when its job is at work in the daemon and this process keeps no record of
\* it; job is "lost" once a request about the job has failed, its stream has
\* ended early or its poll has given up.
Unsent == [stage |-> "unsent", mode |-> "foreground", gen |-> 0, job |-> "none",
           room |-> NoRoom, seq |-> NoSeq, shown |-> {}]

TurnsTypeOK ==
  /\ generation \in Nat
  /\ fifo \in Seq(Turn \cup {Stop})
  /\ turn \in [Turn ->
       [stage: {"unsent", "queued", "preparing", "attached", "running",
                "accepted", "adrift", "ended"},
        mode: {"foreground", "background"}, gen: Nat,
        job: {"none", "known", "lost"},
        room: Room \cup {NoRoom}, seq: Nat \cup {NoSeq}, shown: SUBSET Nat]]
  /\ reservation \in [turn: Turn \cup {NoTurn}, seq: Nat \cup {NoSeq}]
  /\ unconfirmed \in SUBSET Turn

TurnsInit ==
  /\ Init
  /\ generation = 0
  /\ fifo = <<>>
  /\ turn = [k \in Turn |-> Unsent]
  /\ reservation = Nothing
  /\ unconfirmed = {}

Executing(op) == fifo # <<>> /\ Head(fifo) = op
IsCurrent(k)  == turn[k].gen = generation
Launched      == {k \in Turn : turn[k].stage \in {"running", "accepted"}}
AtWork        == Launched \cup {k \in Turn : turn[k].stage = "adrift"}

\* The turns ks are over: all that is left of one is its context, which a
\* reservation may still hold.
Over(t) == [t EXCEPT !.stage = "ended", !.mode = "foreground", !.gen = 0, !.job = "none"]
EndedMutant(ks) == [k \in Turn |-> IF k \in ks /\ turn[k].stage = "running"
                                   THEN Over(turn[k]) ELSE turn[k]]
Ended(ks) == [k \in Turn |-> IF k \in ks THEN Over(turn[k]) ELSE turn[k]]

-----------------------------------------------------------------------------
\* chat:send arrives: a foreground send replaces the lease at once, then
\* waits for its turn in the queue.
Send(k, mode) ==
  /\ turn[k].stage = "unsent"
  /\ generation < MaxGen
  /\ generation' = IF mode = "foreground" THEN generation + 1 ELSE generation
  /\ turn' = [turn EXCEPT ![k].stage = "queued", ![k].mode = mode,
                          ![k].gen = generation']
  /\ fifo' = Append(fifo, k)
  /\ UNCHANGED <<vars, reservation, unconfirmed>>

\* chat:stop (or clear, or dispose) arrives.
RequestStop ==
  /\ generation < MaxGen
  /\ generation' = generation + 1
  /\ fifo' = Append(fifo, Stop)
  /\ UNCHANGED <<vars, turn, reservation, unconfirmed>>

\* stopCardExecution: the reservation is discarded first; every launched
\* turn of the card is torn down, or some of them could not be confirmed.
StopCardExecution(left) ==
  /\ left \subseteq Launched
  /\ reservation' = Nothing
  /\ unconfirmed' = unconfirmed \cup left

ExecuteStop ==
  /\ Executing(Stop)
  /\ \E left \in SUBSET Launched :
       /\ StopCardExecution(left)
       /\ turn' = Ended(Launched \ left)
  /\ fifo' = Tail(fifo)
  /\ UNCHANGED <<vars, generation>>

\* A foreground send reaches the head of the queue: it replaces the card's
\* execution, and gives up if that cannot be confirmed or it was itself
\* replaced meanwhile.
ReplaceExecution(k) ==
  /\ Executing(k)
  /\ turn[k].stage = "queued"
  /\ turn[k].mode = "foreground"
  /\ \E left \in SUBSET Launched :
       /\ StopCardExecution(left)
       /\ IF left = {} /\ IsCurrent(k)
          THEN /\ turn' = [Ended(Launched) EXCEPT ![k].stage = "preparing"]
               /\ UNCHANGED fifo
          ELSE /\ turn' = Ended({k} \cup (Launched \ left))
               /\ fifo' = Tail(fifo)
  /\ UNCHANGED <<vars, generation>>

\* A background send replaces nothing.
StartBackground(k) ==
  /\ Executing(k)
  /\ turn[k].stage = "queued"
  /\ turn[k].mode = "background"
  /\ turn' = [turn EXCEPT ![k].stage = "preparing"]
  /\ UNCHANGED <<vars, generation, fifo, reservation, unconfirmed>>

\* Preparation ends early: superseded, or failed (then an error is streamed,
\* which settles the card's reservation as failed).
AbandonPreparation(k) ==
  /\ Executing(k)
  /\ turn[k].stage = "preparing"
  /\ \/ ~IsCurrent(k) /\ UNCHANGED reservation
     \/ IsCurrent(k) /\ reservation' = Nothing
  /\ turn' = Ended({k})
  /\ fifo' = Tail(fifo)
  /\ UNCHANGED <<vars, generation, unconfirmed>>

\* prepareTurnContext for the card: a prefix of its unread events, with the
\* note about expired ones, or nothing when the body budget is exceeded.
PreparedContextMutant(r) ==
  {[seq |-> HeadSeq(r), shown |-> Prefix(r, Card, last)] : last \in Pending(r, Card)}
  \cup {[seq |-> NoSeq, shown |-> {}]}
PreparedContext(r) ==
  {[seq |-> last, shown |-> Prefix(r, Card, last) \cup Expired(r, Card)] :
     last \in Pending(r, Card)}
  \cup {[seq |-> IF Expired(r, Card) # {} THEN pruned[r] ELSE NoSeq,
         shown |-> Expired(r, Card)]}
  \cup {[seq |-> NoSeq, shown |-> {}]}

\* registerRoomContextAcknowledgement: nothing reserved leaves what an
\* earlier turn registered in place.
Register(k, seq) ==
  reservation' = IF seq = NoSeq THEN reservation ELSE [turn |-> k, seq |-> seq]

\* attachRoomContext.  It first reconciles the card's wires; the step starts
\* where that reconciliation changes nothing, as a SyncMembership of its own
\* precedes it otherwise.  The user's message is posted to the room behind
\* the prepared context.  A local provider is registered and launched in the
\* same step; a daemon job is started across an await.
Attach(k) ==
  /\ Executing(k)
  /\ turn[k].stage = "preparing"
  /\ IsCurrent(k)
  /\ \E ctx \in IF membership[Card] \in Live /\ phase = "open"
                THEN PreparedContext(membership[Card])
                ELSE {[seq |-> NoSeq, shown |-> {}]} :
     \E stage \in IF turn[k].mode = "background" THEN {"attached"}
                  ELSE {"attached", "running"} :
       /\ turn' = [turn EXCEPT ![k].stage = stage,
                               ![k].room = membership[Card],
                               ![k].seq = ctx.seq, ![k].shown = ctx.shown]
       /\ IF stage = "running"
          THEN Register(k, ctx.seq) /\ fifo' = Tail(fifo)
          ELSE UNCHANGED <<reservation, fifo>>
  /\ IF membership[Card] \in Live /\ phase = "open"
     THEN \/ PostEvent(membership[Card], Card, {}) /\ UNCHANGED todos
          \/ UNCHANGED vars     \* no user text
     ELSE UNCHANGED vars
  /\ UNCHANGED <<generation, unconfirmed>>

\* The daemon job of k runs on, and nothing here knows of it any more.
Drift(k) == turn' = [turn EXCEPT ![k].stage = "adrift", ![k].job = "lost"]

\* sendChatToDaemon after /chat/job/start, with a second look at the lease.
\* A superseded turn registers nothing and cancels the job, once: when that
\* request fails, the job runs on.  A failed start streams an error, and
\* leaves a job behind when only its answer was lost.
DaemonStarted(k) ==
  /\ Executing(k)
  /\ turn[k].stage = "attached"
  /\ \/ /\ IsCurrent(k)
        /\ Register(k, turn[k].seq)
        /\ turn' = [turn EXCEPT ![k].stage = "running", ![k].job = "known"]
     \/ /\ ~IsCurrent(k)
        /\ turn' = Ended({k}) \/ Drift(k)
        /\ UNCHANGED reservation
     \/ /\ turn' = Ended({k}) \/ Drift(k)
        /\ reservation' = Nothing
  /\ fifo' = Tail(fifo)
  /\ UNCHANGED <<vars, generation, unconfirmed>>

\* acknowledgeThrough for the card, wherever it is a member now.
Acknowledge(seq) ==
  LET r == membership[Card]
  IN IF phase = "open" /\ r \in Live
     THEN cursor' = [cursor EXCEPT ![r][Card] =
                       Larger(@, IF seq <= HeadSeq(r) THEN seq ELSE HeadSeq(r))]
     ELSE UNCHANGED cursor

\* markRoomPromptAccepted: on every event that proves acceptance, not only
\* the first; it settles the card's reservation, whoever registered it.
Accept(k) ==
  /\ k \in Launched
  /\ turn' = [turn EXCEPT ![k].stage = "accepted"]
  /\ reservation' = Nothing
  /\ IF reservation # Nothing THEN Acknowledge(reservation.seq) ELSE UNCHANGED cursor
  /\ owed' = IF turn[k].room = NoRoom THEN owed
             ELSE [owed EXCEPT ![turn[k].room][Card] = @ \ turn[k].shown]
  /\ UNCHANGED <<membership, members, log, pruned, retired, todos, roomFiles,
                 inboxFiles, phase, generation, fifo, unconfirmed>>

\* The provider fails.
Fail(k) ==
  /\ k \in Launched
  /\ turn' = Ended({k})
  /\ reservation' = Nothing
  /\ UNCHANGED <<vars, generation, fifo, unconfirmed>>

\* The stream or the poll of a daemon job ends although the job does not: an
\* error or a poll that gives up after a minute settles the reservation, a
\* stream that is merely closed leaves it.
LoseTrack(k) ==
  /\ k \in Launched
  /\ turn[k].job = "known"
  /\ Drift(k)
  /\ reservation' \in {reservation, Nothing}
  /\ UNCHANGED <<vars, generation, fifo, unconfirmed>>

\* The turn is done; the text it streamed is shared with the room.
Finish(k) ==
  /\ k \in Launched
  /\ turn' = Ended({k})
  /\ \/ UNCHANGED vars
     \/ turn[k].stage = "accepted" /\ Post(Card, {})
  /\ UNCHANGED <<generation, fifo, reservation, unconfirmed>>

-----------------------------------------------------------------------------
\* What the other tiles, the canvas and the card's own tools do meanwhile
\* (the store's todos and its disposal are left to AgentRoom's own runs).
StoreStep ==
  /\ \/ \E t \in Tile : LeaveRoom(t)
     \/ \E t \in Tile, peers \in SUBSET Tile : SyncMembership(t, peers)
     \/ \E t \in Tile, to \in SUBSET Tile : Post(t, to)
     \/ \E t \in Tile : Consume(t)
     \/ \E t \in Tile : ReadMessages(t)
  /\ UNCHANGED turnVars

TurnsNext ==
  \/ StoreStep
  \/ RequestStop
  \/ ExecuteStop
  \/ \E k \in Turn, mode \in {"foreground", "background"} : Send(k, mode)
  \/ \E k \in Turn : ReplaceExecution(k)
  \/ \E k \in Turn : StartBackground(k)
  \/ \E k \in Turn : AbandonPreparation(k)
  \/ \E k \in Turn : Attach(k)
  \/ \E k \in Turn : DaemonStarted(k)
  \/ \E k \in Turn : Accept(k)
  \/ \E k \in Turn : Fail(k)
  \/ \E k \in Turn : LoseTrack(k)
  \/ \E k \in Turn : Finish(k)

TurnsSpec == TurnsInit /\ [][TurnsNext]_allVars

-----------------------------------------------------------------------------
\* Traffic of the card's current room that its cursor has passed although no
\* delivery showed it to the card.
Skipped == {s \in UNION {owed[r][Card] : r \in {membership[Card]} \cap Room} :
              LET r == membership[Card]
              IN s > pruned[r] /\ s <= cursor[r][Card]}

\* A turn that settles its own reservation, in the room its context came
\* from, acknowledges nothing that context did not show: the interleaving
\* of preparation, peer posts, other readers and acceptance loses nothing.
OwnReservationIsSound ==
  [][\A k \in Turn :
       /\ reservation.turn = k
       /\ reservation'.turn = NoTurn
       /\ turn'[k].stage = "accepted"
       /\ \A j \in Turn \ {k} : turn'[j] = turn[j]
       /\ membership[Card] = turn[k].room
       => Skipped' \subseteq Skipped]_allVars

\* An operation that will tear down what is launched is still queued.
StopQueued ==
  \E i \in 1..Len(fifo) :
    \/ fifo[i] = Stop
    \/ /\ turn[fifo[i]].stage = "queued"
       /\ turn[fifo[i]].mode = "foreground"

\* Stopping is final: a turn that is at work although its lease has been
\* invalidated is about to be torn down by an operation queued behind the
\* invalidation, or a stop has reported that it could not confirm this, or
\* its daemon job has been lost by a failed request, a stream that ended
\* early or a poll that gave up.
NoOrphanTurn ==
  \A k \in AtWork :
    IsCurrent(k) \/ k \in unconfirmed \/ turn[k].job = "lost" \/ StopQueued

\* What stopCardExecution promises, that no path leaves orphaned work, with
\* no exception for the jobs the process has lost.
NothingRunsOn ==
  \A k \in AtWork : IsCurrent(k) \/ k \in unconfirmed \/ StopQueued

\* The documented promise of the reservations: errors and lifecycle stops
\* only discard one, "so unread peer traffic remains available to the next
\* turn"; only what an accepted turn was shown is acknowledged.
UnreadStaysAvailable == Skipped = {}

\* Type correctness and the finality of stops, the invariants of the runs.
StopIsFinal == TurnsTypeOK /\ NoOrphanTurn
=============================================================================
