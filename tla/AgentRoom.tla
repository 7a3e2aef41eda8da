----------------------------- MODULE AgentRoom -----------------------------
(***************************************************************************)
(* The agent-room store of one workspace (src/main/agent-room/store.ts).   *)
(* Tiles that are wired together on the canvas share a room: an ordered    *)
(* ledger of events with one cursor per member.  Every operation of the    *)
(* store is synchronous, so it is one atomic step here.                    *)
(*                                                                         *)
(* A room whose member set is empty is not in the code's `rooms' map.  The *)
(* ledger keeps every event ever posted to the room; the events the code   *)
(* still holds in room.events are those above the low-water mark `pruned'. *)
(* Event text, member labels and byte sizes are abstracted: the byte       *)
(* budgets appear as a free choice of how many oldest events they drop     *)
(* and of how long a prefix of the unread traffic one delivery carries.    *)
(***************************************************************************)
EXTENDS Integers, Sequences, FiniteSets

CONSTANTS Tile,        \* canvas tiles of the workspace
          Room,        \* room ids that randomUUID may produce
          NoRoom,      \* "membership has no entry for this tile"
          MaxRooms,    \* MAX_ROOMS
          MaxMembers,  \* MAX_GLOBAL_MEMBERS
          Retain,      \* MAX_EVENTS_PER_ROOM
          MaxTodos,    \* MAX_TODOS_PER_TILE
          MaxSeq       \* bound of the model: events posted to one room

ASSUME NoRoomAssumption == NoRoom \notin Room
ASSUME BoundsAssumption == /\ MaxRooms \in Nat
                           /\ MaxMembers \in Nat
                           /\ Retain \in Nat \ {0}
                           /\ MaxTodos \in Nat
                           /\ MaxSeq \in Nat

VARIABLES
  membership,  \* tile -> id of its room, or NoRoom
  members,     \* room -> tiles in room.members
  cursor,      \* room -> tile -> acknowledgedSeq (0 for a non-member)
  log,         \* room -> every event posted; nextSequence is Len + 1
  pruned,      \* room -> number of oldest events no longer retained
  retired,     \* ids of dissolved rooms
  todos,       \* tile -> number of open and of done todos
  roomFiles,   \* ownedRoomFiles: rooms with a file on disk
  inboxFiles,  \* ownedInboxFiles: tiles with an inbox file on disk
  phase,       \* "open", "disposing" or "shutDown"
  owed         \* history: room -> tile -> sequences posted for the tile
               \* while it was a member and not yet shown to it

vars == <<membership, members, cursor, log, pruned, retired, todos,
          roomFiles, inboxFiles, phase, owed>>

Event    == [from: Tile, to: SUBSET Tile]   \* to = {}: the whole room
NoTodos  == [open |-> 0, done |-> 0]
Larger(a, b) == IF a >= b THEN a ELSE b

HeadSeq(r) == Len(log[r])                   \* nextSequence - 1
Live     == {r \in Room : members[r] # {}}  \* keys of the rooms map

IsVisible(e, t) == e.from # t /\ (e.to = {} \/ t \in e.to)

\* The retained events the member has not acknowledged and may see.
Pending(r, t) ==
  {s \in 1..Len(log[r]) : /\ s > pruned[r]
                          /\ s > cursor[r][t]
                          /\ IsVisible(log[r][s], t)}

\* Unacknowledged sequences that are no longer retained (expiredSequences).
Expired(r, t) == {s \in 1..pruned[r] : s > cursor[r][t]}

-----------------------------------------------------------------------------
TypeOK ==
  /\ membership \in [Tile -> Room \cup {NoRoom}]
  /\ members \in [Room -> SUBSET Tile]
  /\ cursor \in [Room -> [Tile -> Nat]]
  /\ log \in [Room -> Seq(Event)]
  /\ pruned \in [Room -> Nat]
  /\ retired \in SUBSET Room
  /\ todos \in [Tile -> [open: Nat, done: Nat]]
  /\ roomFiles \in SUBSET Room
  /\ inboxFiles \in SUBSET Tile
  /\ phase \in {"open", "disposing", "shutDown"}
  /\ owed \in [Room -> [Tile -> SUBSET Nat]]

Init ==
  /\ membership = [t \in Tile |-> NoRoom]
  /\ members = [r \in Room |-> {}]
  /\ cursor = [r \in Room |-> [t \in Tile |-> 0]]
  /\ log = [r \in Room |-> <<>>]
  /\ pruned = [r \in Room |-> 0]
  /\ retired = {}
  /\ todos = [t \in Tile |-> NoTodos]
  /\ roomFiles = {}
  /\ inboxFiles = {}
  /\ phase = "open"
  /\ owed = [r \in Room |-> [t \in Tile |-> {}]]

-----------------------------------------------------------------------------
(* Membership.  Reseat(new, gone) is what both operations do to the rooms  *)
(* themselves and to their files: the rooms in `gone' are dissolved, every *)
(* other room r now has the members new[r], and a tile that joins starts   *)
(* at the head of the ledger, so that it is owed nothing of the past.  The *)
(* tiles in `dropped' lose their inbox and todos; the rooms in `written'   *)
(* have their file and their members' inboxes rewritten (writeRoomFiles).  *)

\* ensureMember
MemberCursorMutant(r, t) == IF t \in members[r] THEN cursor[r][t] ELSE HeadSeq(r) + 1
MemberCursorRewindsMutant(r, t) == 0
MemberCursor(r, t) == IF t \in members[r] THEN cursor[r][t] ELSE HeadSeq(r)

\* removeRoomArtifact for the dissolved rooms, writeRoomFiles for the others
RoomFilesAfter(gone, written) == (roomFiles \ gone) \cup written

Reseat(new, gone, dropped, written) ==
  /\ members' = [r \in Room |-> IF r \in gone THEN {} ELSE new[r]]
  /\ cursor' = [r \in Room |-> [t \in Tile |->
                  IF r \in gone \/ t \notin new[r] THEN 0
                  ELSE MemberCursor(r, t)]]
  /\ owed' = [r \in Room |-> [t \in Tile |->
                  IF r \in gone \/ t \notin new[r] THEN {} ELSE owed[r][t]]]
  /\ log' = [r \in Room |-> IF r \in gone THEN <<>> ELSE log[r]]
  /\ pruned' = [r \in Room |-> IF r \in gone THEN 0 ELSE pruned[r]]
  /\ retired' = retired \cup gone
  /\ todos' = [t \in Tile |-> IF t \in dropped THEN NoTodos ELSE todos[t]]
  /\ roomFiles' = RoomFilesAfter(gone, written)
  /\ inboxFiles' = (inboxFiles \ dropped) \cup UNION {new[r] : r \in written}
  /\ UNCHANGED phase

\* Tiles dropped from the rooms in rs (they are not in `keep') whose
\* membership entry still names one of those rooms (deleteRoomMembership).
DroppedMutant(rs, keep) == {}
Dropped(rs, keep) ==
  {u \in (UNION {members[r] : r \in rs}) \ keep : membership[u] \in rs}

TooSmall(ts) == Cardinality(ts) < 2

\* leaveRoom / removeTile: the tile's todos and inbox go in every case; the
\* room is dissolved when fewer than two members remain.
LeaveRoom(t) ==
  LET room == {r \in Live : r = membership[t]}
      new  == [r \in Room |-> IF r \in room THEN members[r] \ {t} ELSE members[r]]
      gone == {r \in room : TooSmall(new[r])}
      out  == {t} \cup Dropped(gone, {})
  IN /\ phase = "open"
     /\ membership' = [u \in Tile |-> IF u \in out THEN NoRoom ELSE membership[u]]
     /\ Reseat(new, gone, out, room \ gone)

\* The rooms the merge may adopt: the room of the reconciled tile, else of
\* the first peer that has one (in whatever order the peers were listed).
HostCandidates(t, peers) ==
  IF membership[t] \in Live THEN {membership[t]}
  ELSE {membership[p] : p \in peers} \cap Live

\* Tiles that come from another room: they leave their todos there.
MovedMutant(component, others) == {}
Moved(component, others) == {u \in component : membership[u] \in others}

\* The merge of a connected component into the room `host'.  The shortcut
\* for a room that already has exactly these members is the case in which
\* the merge changes nothing.
MergeInto(host, component) ==
  LET others == {r \in Live \ {host} : \E u \in component : membership[u] = r}
      new    == [r \in Room |-> IF r = host THEN component
                                ELSE IF r \in others THEN members[r] \ component
                                ELSE members[r]]
      gone   == {r \in others : TooSmall(new[r])}
      out    == Dropped(gone \cup {host}, component)
  IN /\ membership' = [u \in Tile |-> IF u \in component THEN host
                                      ELSE IF u \in out THEN NoRoom
                                      ELSE membership[u]]
     /\ Reseat(new, gone, out \cup Moved(component, others),
               {host} \cup (others \ gone))

\* syncMembership / updateLinks, for a tile and the peers wired to it.
SyncMembership(t, peers) ==
  LET component == {t} \cup peers
      joined    == {u \in Tile : membership[u] # NoRoom}
  IN /\ phase = "open"
     /\ Cardinality(component) >= 2
     /\ Cardinality(joined \cup component) <= MaxMembers
     /\ \E host \in Room :
          /\ \/ host \in HostCandidates(t, peers)
             \/ /\ HostCandidates(t, peers) = {}
                /\ Cardinality(Live) < MaxRooms
                /\ host \notin Live \cup retired
          /\ MergeInto(host, component)

-----------------------------------------------------------------------------
(* The ledger.                                                             *)

\* What may have been pruned once the ledger of room r is `newLog': its own
\* cap on the number of events, and any further oldest events, of this room
\* or another, to stay within the byte budgets.  The new event stays.
PruneOptions(r, newLog) ==
  {p \in [Room -> 0..MaxSeq] :
     \A q \in Room :
       /\ p[q] >= pruned[q]
       /\ q = r => p[q] < Len(newLog) /\ p[q] >= Len(newLog) - Retain
       /\ q # r => p[q] <= Len(log[q])}

\* ~hasUnreadVisibleEvent
NoUnreadMutant(r, t) == TRUE
NoUnread(r, t) == Pending(r, t) = {}

\* post, for an event t sends to the room r it is a member of.  The poster's
\* own cursor follows its event only if nothing unread precedes it.
PostEvent(r, t, to) ==
  LET e == [from |-> t, to |-> to] IN
  /\ Len(log[r]) < MaxSeq
  /\ to \subseteq members[r]
  /\ log' = [log EXCEPT ![r] = Append(@, e)]
  /\ pruned' \in PruneOptions(r, Append(log[r], e))
  /\ cursor' = [cursor EXCEPT ![r][t] =
                  IF NoUnread(r, t) THEN Larger(@, Len(log[r]) + 1) ELSE @]
  /\ owed' = [owed EXCEPT ![r] = [u \in Tile |->
                IF u \in members[r] /\ IsVisible(e, u)
                THEN @[u] \cup {Len(log[r]) + 1} ELSE @[u]]]
  /\ roomFiles' = roomFiles \cup {r}
  /\ inboxFiles' = inboxFiles \cup members[r]
  /\ UNCHANGED <<membership, members, retired, phase>>

\* post, sendMessage, publishTurnSummary, and an announcing setMemberState.
Post(t, to) ==
  /\ phase = "open"
  /\ membership[t] \in Live
  /\ PostEvent(membership[t], t, to)
  /\ UNCHANGED todos

\* addTodo stores the todo, then posts it to the room.
AddTodo(t) ==
  /\ phase = "open"
  /\ membership[t] \in Live
  /\ todos[t].open + todos[t].done < MaxTodos
  /\ todos' = [todos EXCEPT ![t] = [open |-> @.open + 1, done |-> @.done]]
  /\ PostEvent(membership[t], t, {})

\* completeTodo marks an open todo done, then posts that.  (A tile with todos
\* is in a room: see TodosStayBehind.)
CompleteTodo(t) ==
  /\ phase = "open"
  /\ todos[t].open > 0
  /\ membership[t] \in Live
  /\ todos' = [todos EXCEPT ![t] = [open |-> @.open - 1, done |-> @.done + 1]]
  /\ PostEvent(membership[t], t, {})

\* The member's cursor moves through `last'; it has been shown the events
\* in `shown', and told how many sequences expired before it read them.
Deliver(r, t, shown, last) ==
  /\ cursor' = [cursor EXCEPT ![r][t] = Larger(@, last)]
  /\ owed' = [owed EXCEPT ![r][t] = @ \ (shown \cup Expired(r, t))]
  /\ UNCHANGED <<membership, members, log, pruned, retired, todos,
                 roomFiles, inboxFiles, phase>>

\* A non-empty prefix of the unread events, ending with sequence `last'.
Prefix(r, t, last) == {s \in Pending(r, t) : s <= last}

\* consume (advancing): as many unread events as the budget allows, at least
\* one; with nothing unread, the note that older traffic has expired.
Consume(t) ==
  /\ phase = "open"
  /\ membership[t] \in Live
  /\ LET r == membership[t] IN
     \/ \E last \in Pending(r, t) : Deliver(r, t, Prefix(r, t, last), last)
     \/ /\ Pending(r, t) = {}
        /\ Expired(r, t) # {}
        /\ Deliver(r, t, {}, pruned[r])

\* readMessages: the same for the message list of the compatibility API,
\* whose budget may not fit even one message.
ReadMessages(t) ==
  /\ phase = "open"
  /\ membership[t] \in Live
  /\ LET r == membership[t] IN
     \/ \E last \in Pending(r, t) : Deliver(r, t, Prefix(r, t, last), last)
     \/ /\ Expired(r, t) # {}
        /\ Deliver(r, t, {}, pruned[r])

-----------------------------------------------------------------------------
(* Disposal: the removal of every owned file is queued, then the store     *)
(* waits for the persistence queue.  If that fails the store is live again *)
(* with its state retained.                                                *)

DisposeBegin ==
  /\ phase = "open"
  /\ phase' = "disposing"
  /\ UNCHANGED <<membership, members, cursor, log, pruned, retired, todos,
                 roomFiles, inboxFiles, owed>>

DisposeFailed ==
  /\ phase = "disposing"
  /\ phase' = "open"
  /\ UNCHANGED <<membership, members, cursor, log, pruned, retired, todos,
                 roomFiles, inboxFiles, owed>>

DisposeDone ==
  /\ phase = "disposing"
  /\ phase' = "shutDown"
  /\ membership' = [t \in Tile |-> NoRoom]
  /\ members' = [r \in Room |-> {}]
  /\ cursor' = [r \in Room |-> [t \in Tile |-> 0]]
  /\ log' = [r \in Room |-> <<>>]
  /\ pruned' = [r \in Room |-> 0]
  /\ retired' = retired \cup Live
  /\ todos' = [t \in Tile |-> NoTodos]
  /\ roomFiles' = {}
  /\ inboxFiles' = {}
  /\ owed' = [r \in Room |-> [t \in Tile |-> {}]]

-----------------------------------------------------------------------------
Next ==
  \/ \E t \in Tile : LeaveRoom(t)
  \/ \E t \in Tile, peers \in SUBSET Tile : SyncMembership(t, peers)
  \/ \E t \in Tile, to \in SUBSET Tile : Post(t, to)
  \/ \E t \in Tile : AddTodo(t)
  \/ \E t \in Tile : CompleteTodo(t)
  \/ \E t \in Tile : Consume(t)
  \/ \E t \in Tile : ReadMessages(t)
  \/ DisposeBegin
  \/ DisposeFailed
  \/ DisposeDone

Spec == Init /\ [][Next]_vars

-----------------------------------------------------------------------------
\* The membership map and the rooms' member sets, which the code updates in
\* separate places, tell the same story: in particular no tile is a member
\* of two rooms, and no entry names a dissolved room.
MembershipAgrees ==
  \A t \in Tile, r \in Room : membership[t] = r <=> t \in members[r]

\* Dissolving is complete: no room is left with a single member, whatever
\* order of merges, splits and departures led here.
RoomsHaveCompany == \A r \in Live : Cardinality(members[r]) >= 2

\* The artefacts the store owns on disk are exactly those of its live rooms
\* and current members: none leaks when a room is merged away or dissolved.
FilesMatchRooms ==
  /\ roomFiles = Live
  /\ inboxFiles = {t \in Tile : membership[t] # NoRoom}

RoomsAreSound == RoomsHaveCompany /\ FilesMatchRooms

\* Members, rooms and files fit together through all regrouping: the
\* invariant of the run.
GroupsAreSound == MembershipAgrees /\ RoomsAreSound

\* Unread traffic is exact.  What the cursor leaves unread of the retained
\* ledger is precisely what was posted for this member since it joined and
\* has not been shown to it: a delivery neither repeats nor skips an event,
\* a newcomer replays nothing, and a member's own post hides nothing.
UnreadExact ==
  \A r \in Room : \A t \in members[r] :
    Pending(r, t) = {s \in owed[r][t] : s > pruned[r]}

\* A cursor never runs past the ledger it points into.
CursorWithinLedger ==
  \A r \in Room : \A t \in members[r] : cursor[r][t] <= Len(log[r])

\* Type correctness, and cursors that stay within their ledgers.
LedgerIsSound == TypeOK /\ CursorWithinLedger

\* While a tile stays in a room its cursor never goes back, through merges
\* and splits of that room included.
CursorNeverRewinds ==
  [][\A r \in Room : \A t \in members[r] \cap members'[r] :
       cursor'[r][t] >= cursor[r][t]]_vars

\* Todos belong to a membership: they follow no tile into another room.
TodosStayBehind ==
  [][\A t \in Tile : membership'[t] # membership[t] => todos'[t] = NoTodos]_vars

\* The comment in post: a member's own post is acknowledged "only when doing
\* so would not skip unread peer traffic that precedes it".
NothingUnreadIsSkipped ==
  \A r \in Room : \A t \in members[r] : \A s \in owed[r][t] : s > cursor[r][t]
=============================================================================
