-------------------------- MODULE AgentRoom_proofs --------------------------
(***************************************************************************)
(* Proofs about the agent-room store, for any sets of tiles and rooms and  *)
(* any limits.  The inductive invariant adds to the checked properties     *)
(* what an owed event can be: one of the ledger, owed only to a member.    *)
(* The second part is about how rooms are formed and dissolved: their      *)
(* sizes, the files the store owns, and the todos of a tile that changes   *)
(* rooms.  It adds that a tile without a room has no todos.                *)
(* The third part is about the chat turns of a card (RoomTurns): stops are *)
(* final, and a turn acknowledges no more than its context has shown it.   *)
(***************************************************************************)
EXTENDS RoomTurns, TLAPS, FiniteSetTheorems

\* Only a member of a room is owed anything of its ledger.
OwedToMembers ==
  \A r \in Room, t \in Tile : t \notin members[r] => owed[r][t] = {}

\* What a tile is owed of a room has been posted to its ledger.
OwedInLedger ==
  \A r \in Room, t \in Tile : owed[r][t] \subseteq 1..Len(log[r])

\* Pruning drops events that exist.
PrunedInLedger == \A r \in Room : pruned[r] <= Len(log[r])

\* The inductive invariant.
IInv == /\ TypeOK
        /\ MembershipAgrees
        /\ CursorWithinLedger
        /\ OwedToMembers
        /\ OwedInLedger
        /\ PrunedInLedger
        /\ UnreadExact

-----------------------------------------------------------------------------
\* An appended event leaves the earlier ones in place.
LEMMA AppendFacts ==
  ASSUME NEW s \in Seq(Event), NEW e \in Event
  PROVE  /\ Append(s, e) \in Seq(Event)
         /\ Len(Append(s, e)) = Len(s) + 1
         /\ \A i \in 1..Len(s) : Append(s, e)[i] = s[i]
         /\ Append(s, e)[Len(s) + 1] = e
  OBVIOUS

\* Init establishes the invariant.
LEMMA InitInv == Init => IInv
<1> SUFFICES ASSUME Init PROVE IInv
  OBVIOUS
<1>1. TypeOK
  BY NoRoomAssumption DEF Init, TypeOK, NoTodos
<1>2. /\ MembershipAgrees /\ CursorWithinLedger /\ OwedToMembers
      /\ OwedInLedger /\ PrunedInLedger /\ UnreadExact
  BY NoRoomAssumption DEF Init, MembershipAgrees, CursorWithinLedger,
     OwedToMembers, OwedInLedger, PrunedInLedger, UnreadExact
<1> QED BY <1>1, <1>2 DEF IInv

-----------------------------------------------------------------------------
\* The regrouping keeps the types.
LEMMA ReseatType ==
  ASSUME TypeOK,
         NEW new \in [Room -> SUBSET Tile],
         NEW gone \in SUBSET Room,
         NEW dropped \in SUBSET Tile,
         NEW written \in SUBSET Room,
         Reseat(new, gone, dropped, written),
         membership' \in [Tile -> Room \cup {NoRoom}]
  PROVE  TypeOK'
<1>1. members' \in [Room -> SUBSET Tile]
  BY DEF Reseat
<1>2. cursor' \in [Room -> [Tile -> Nat]]
  BY DEF Reseat, TypeOK, MemberCursor, HeadSeq
<1>3. log' \in [Room -> Seq(Event)] /\ pruned' \in [Room -> Nat]
  BY DEF Reseat, TypeOK
<1>4. owed' \in [Room -> [Tile -> SUBSET Nat]]
  BY DEF Reseat, TypeOK
<1>5. todos' \in [Tile -> [open: Nat, done: Nat]]
  BY DEF Reseat, TypeOK, NoTodos
<1>6. /\ retired' \in SUBSET Room /\ roomFiles' \in SUBSET Room
      /\ inboxFiles' \in SUBSET Tile
      /\ phase' \in {"open", "disposing", "shutDown"}
  BY DEF Reseat, TypeOK, RoomFilesAfter
<1> QED BY <1>1, <1>2, <1>3, <1>4, <1>5, <1>6 DEF TypeOK

\* What the regrouping does to the rooms: a room that is not dissolved keeps
\* its ledger, its stayers keep cursor and debts, its newcomers start clean.
LEMMA ReseatInv ==
  ASSUME IInv,
         NEW new \in [Room -> SUBSET Tile],
         NEW gone \in SUBSET Room,
         NEW dropped \in SUBSET Tile,
         NEW written \in SUBSET Room,
         Reseat(new, gone, dropped, written),
         membership' \in [Tile -> Room \cup {NoRoom}],
         MembershipAgrees'
  PROVE  IInv'
<1> USE DEF IInv
<1>1. TypeOK'
  BY ReseatType
<1>2. CursorWithinLedger'
  BY DEF Reseat, TypeOK, CursorWithinLedger, MemberCursor, HeadSeq
<1>3. OwedToMembers'
  BY DEF Reseat, TypeOK, OwedToMembers
<1>4. OwedInLedger' /\ PrunedInLedger'
  BY DEF Reseat, TypeOK, OwedInLedger, PrunedInLedger
<1>5. UnreadExact'
  <2> SUFFICES ASSUME NEW r \in Room, NEW t \in members'[r]
               PROVE  Pending(r, t)' = {s \in owed'[r][t] : s > pruned'[r]}
    BY DEF UnreadExact
  <2>1. r \notin gone /\ t \in new[r] /\ t \in Tile
    BY DEF Reseat, TypeOK
  <2>2. /\ log'[r] = log[r] /\ pruned'[r] = pruned[r]
        /\ owed'[r][t] = owed[r][t]
        /\ cursor'[r][t] = MemberCursor(r, t)
    BY <2>1 DEF Reseat
  <2>3. CASE t \in members[r]
    BY <2>2, <2>3 DEF UnreadExact, Pending, MemberCursor
  <2>4. CASE t \notin members[r]
    <3>1. owed[r][t] = {}
      BY <2>1, <2>4 DEF OwedToMembers
    <3>2. cursor'[r][t] = Len(log'[r]) /\ Len(log'[r]) \in Nat
      BY <2>2, <2>4 DEF MemberCursor, HeadSeq, TypeOK
    <3> QED BY <2>2, <3>1, <3>2 DEF Pending
  <2> QED BY <2>3, <2>4
<1> QED BY <1>1, <1>2, <1>3, <1>4, <1>5

\* Only tiles are dropped, namely those whose entry names one of the rooms.
LEMMA DroppedTiles ==
  ASSUME members \in [Room -> SUBSET Tile], NEW rs \in SUBSET Room,
         NEW keep \in SUBSET Tile
  PROVE  Dropped(rs, keep) \in SUBSET Tile
  BY DEF Dropped

\* The tiles that lose their membership, when entries and rooms agree.
LEMMA DroppedIff ==
  ASSUME NEW rs \in SUBSET Room, NEW keep, NEW u, u \notin keep,
         \A q \in Room : membership[u] = q <=> u \in members[q]
  PROVE  u \in Dropped(rs, keep) <=> membership[u] \in rs
  BY DEF Dropped

\* A departure preserves the invariant.
LEMMA LeaveInv ==
  ASSUME IInv, NEW t \in Tile, LeaveRoom(t)
  PROVE  IInv'
<1> DEFINE room == {r \in Live : r = membership[t]}
           new  == [r \in Room |-> IF r \in room THEN members[r] \ {t} ELSE members[r]]
           gone == {r \in room : TooSmall(new[r])}
           out  == {t} \cup Dropped(gone, {})
<1>1. /\ membership' = [u \in Tile |-> IF u \in out THEN NoRoom ELSE membership[u]]
      /\ Reseat(new, gone, out, room \ gone)
  BY DEF LeaveRoom
<1>2. /\ new \in [Room -> SUBSET Tile] /\ gone \in SUBSET Room
      /\ out \in SUBSET Tile /\ room \ gone \in SUBSET Room
  <2>1. members \in [Room -> SUBSET Tile]
    BY DEF IInv, TypeOK
  <2>2. room \in SUBSET Room
    BY DEF Live
  <2>3. new \in [Room -> SUBSET Tile]
    BY <2>1
  <2>4. gone \in SUBSET Room /\ room \ gone \in SUBSET Room
    BY <2>2
  <2>5. out \in SUBSET Tile
    BY <2>1, <2>4, DroppedTiles
  <2> QED BY <2>3, <2>4, <2>5
<1>3. membership' \in [Tile -> Room \cup {NoRoom}]
  BY <1>1 DEF IInv, TypeOK
<1>4. MembershipAgrees'
  <2> SUFFICES ASSUME NEW u \in Tile, NEW r \in Room
               PROVE  membership'[u] = r <=> u \in members'[r]
    BY DEF MembershipAgrees
  <2>1. membership'[u] = IF u \in out THEN NoRoom ELSE membership[u]
    BY <1>1
  <2>2. members'[r] = IF r \in gone THEN {} ELSE new[r]
    BY <1>1 DEF Reseat
  <2>3. membership[u] = r <=> u \in members[r]
    BY DEF IInv, MembershipAgrees
  <2>4. membership[t] = r <=> t \in members[r]
    BY DEF IInv, MembershipAgrees
  <2>5. u \in Dropped(gone, {}) => membership[u] \in gone
    BY DEF Dropped
  <2>6. r \in gone /\ u \in members[r] => u \in out
    BY <2>3 DEF Dropped
  <2> QED
    BY <2>1, <2>2, <2>3, <2>4, <2>5, <2>6, NoRoomAssumption DEF Live
<1> HIDE DEF room, new, gone, out
<1> QED BY <1>1, <1>2, <1>3, <1>4, ReseatInv

\* A merge preserves the invariant.
LEMMA MergeInv ==
  ASSUME IInv, NEW host \in Room, NEW component \in SUBSET Tile,
         MergeInto(host, component)
  PROVE  IInv'
<1> DEFINE others == {r \in Live \ {host} : \E u \in component : membership[u] = r}
           new    == [r \in Room |-> IF r = host THEN component
                                     ELSE IF r \in others THEN members[r] \ component
                                     ELSE members[r]]
           gone   == {r \in others : TooSmall(new[r])}
           out    == Dropped(gone \cup {host}, component)
<1>1. /\ membership' = [u \in Tile |-> IF u \in component THEN host
                                       ELSE IF u \in out THEN NoRoom
                                       ELSE membership[u]]
      /\ Reseat(new, gone, out \cup Moved(component, others),
                {host} \cup (others \ gone))
  BY DEF MergeInto
<1>2. /\ new \in [Room -> SUBSET Tile] /\ gone \in SUBSET Room
      /\ out \cup Moved(component, others) \in SUBSET Tile
      /\ {host} \cup (others \ gone) \in SUBSET Room
  <2>1. members \in [Room -> SUBSET Tile]
    BY DEF IInv, TypeOK
  <2>2. others \in SUBSET Room
    BY DEF Live
  <2>3. new \in [Room -> SUBSET Tile]
    BY <2>1
  <2>4. gone \in SUBSET Room /\ {host} \cup (others \ gone) \in SUBSET Room
    BY <2>2
  <2>5. out \in SUBSET Tile
    BY <2>1, <2>4, DroppedTiles
  <2>6. Moved(component, others) \in SUBSET Tile
    BY DEF Moved
  <2> QED BY <2>3, <2>4, <2>5, <2>6
<1>3. membership' \in [Tile -> Room \cup {NoRoom}]
  BY <1>1 DEF IInv, TypeOK
<1>4. MembershipAgrees'
  <2> SUFFICES ASSUME NEW u \in Tile, NEW r \in Room
               PROVE  membership'[u] = r <=> u \in members'[r]
    BY DEF MembershipAgrees
  <2>1. membership'[u] = IF u \in component THEN host
                         ELSE IF u \in out THEN NoRoom ELSE membership[u]
    BY <1>1
  <2>2. members'[r] = IF r \in gone THEN {} ELSE new[r]
    BY <1>1 DEF Reseat
  <2>3. \A q \in Room : membership[u] = q <=> u \in members[q]
    BY DEF IInv, MembershipAgrees
  <2>4. host \notin gone
    OBVIOUS
  <2>5. CASE u \in component
    <3>1. r # host /\ u \in members[r] => r \in others
      BY <2>3, <2>5 DEF Live
    <3> QED BY <2>1, <2>2, <2>4, <2>5, <3>1
  <2>6. CASE u \notin component
    <3>1. u \in out <=> membership[u] \in gone \cup {host}
      <4>1. gone \cup {host} \in SUBSET Room
        BY <1>2
      <4> HIDE DEF gone
      <4> QED BY <2>3, <2>6, <4>1, DroppedIff DEF out
    <3>2. new[r] = IF r = host THEN component
                   ELSE IF r \in others THEN members[r] \ component
                   ELSE members[r]
      OBVIOUS
    <3> HIDE DEF new, gone, out, others
    <3>3. CASE r \in gone \cup {host}
      BY <2>1, <2>2, <2>4, <2>6, <3>1, <3>2, <3>3, NoRoomAssumption
    <3>4. CASE r \notin gone \cup {host}
      <4>1. u \in members'[r] <=> u \in members[r]
        BY <2>2, <2>6, <3>2, <3>4
      <4>2. membership'[u] = r <=> membership[u] = r
        BY <2>1, <2>6, <3>1, <3>4, NoRoomAssumption
      <4> QED BY <4>1, <4>2, <2>3
    <3> QED BY <3>3, <3>4
  <2> QED BY <2>5, <2>6
<1> HIDE DEF others, new, gone, out
<1> QED BY <1>1, <1>2, <1>3, <1>4, ReseatInv

-----------------------------------------------------------------------------
\* A post appends one event to one ledger; cursors and pruning only advance.
LEMMA PostFacts ==
  ASSUME TypeOK, NEW r \in Room, NEW t \in Tile, NEW to \in SUBSET Tile,
         PostEvent(r, t, to), todos' \in [Tile -> [open: Nat, done: Nat]]
  PROVE  /\ TypeOK'
         /\ log'[r] = Append(log[r], [from |-> t, to |-> to])
         /\ \A q \in Room : q # r => log'[q] = log[q]
         /\ Len(log'[r]) = Len(log[r]) + 1
         /\ \A i \in 1..Len(log[r]) : log'[r][i] = log[r][i]
         /\ log'[r][Len(log[r]) + 1] = [from |-> t, to |-> to]
         /\ \A q \in Room : pruned'[q] >= pruned[q] /\ pruned'[q] <= Len(log'[q])
         /\ \A q \in Room, u \in Tile : cursor'[q][u] >= cursor[q][u]
<1> DEFINE e == [from |-> t, to |-> to]
           n == Len(log[r]) + 1
<1>1. /\ e \in Event
      /\ log[r] \in Seq(Event)
      /\ Len(log[r]) \in Nat
      /\ n \in Nat
  <2>1. e \in Event
    BY DEF Event
  <2>2. log[r] \in Seq(Event)
    BY DEF TypeOK
  <2> QED BY <2>1, <2>2
<1>2. /\ log' = [log EXCEPT ![r] = Append(@, e)]
      /\ log'[r] = Append(log[r], e)
      /\ \A q \in Room : q # r => log'[q] = log[q]
  BY DEF PostEvent, TypeOK
<1>3. /\ Len(log'[r]) = n
      /\ \A i \in 1..Len(log[r]) : log'[r][i] = log[r][i]
      /\ log'[r][n] = e
  BY <1>1, <1>2, AppendFacts
<1>4. /\ pruned' \in [Room -> Nat]
      /\ \A q \in Room : pruned'[q] >= pruned[q] /\ pruned'[q] <= Len(log'[q])
  <2>1. pruned' \in PruneOptions(r, Append(log[r], e))
    BY DEF PostEvent
  <2>2. Len(Append(log[r], e)) = n
    BY <1>1, AppendFacts
  <2> QED BY <1>1, <1>2, <1>3, <2>1, <2>2, BoundsAssumption DEF PruneOptions
<1>5. cursor' = [cursor EXCEPT ![r][t] = IF NoUnread(r, t) THEN Larger(@, n) ELSE @]
  BY DEF PostEvent
<1>6. \A q \in Room, u \in Tile : cursor'[q][u] >= cursor[q][u]
  BY <1>1, <1>5 DEF TypeOK, Larger
<1> HIDE DEF e, n
<1>7. TypeOK'
  <2>1. log' \in [Room -> Seq(Event)]
    BY <1>1, <1>2, AppendFacts DEF TypeOK
  <2>2. cursor' \in [Room -> [Tile -> Nat]]
    BY <1>1, <1>5 DEF TypeOK, Larger
  <2>3. owed' \in [Room -> [Tile -> SUBSET Nat]]
    BY <1>1 DEF PostEvent, TypeOK, n
  <2> QED BY <1>4, <2>1, <2>2, <2>3 DEF PostEvent, TypeOK
<1> QED BY <1>2, <1>3, <1>4, <1>6, <1>7 DEF e, n

\* A post preserves the invariant: the new event is owed to, and unread by,
\* exactly the members that may see it.
LEMMA PostInv ==
  ASSUME IInv, NEW r \in Room, NEW t \in Tile, t \in members[r],
         NEW to \in SUBSET Tile, PostEvent(r, t, to),
         todos' \in [Tile -> [open: Nat, done: Nat]]
  PROVE  IInv'
<1> USE DEF IInv
<1> DEFINE e == [from |-> t, to |-> to]
           n == Len(log[r]) + 1
<1>1. /\ e \in Event
      /\ log[r] \in Seq(Event)
      /\ Len(log[r]) \in Nat
      /\ n \in Nat
  <2>1. e \in Event
    BY DEF Event
  <2>2. log[r] \in Seq(Event)
    BY DEF TypeOK
  <2> QED BY <2>1, <2>2
<1>2. /\ log' = [log EXCEPT ![r] = Append(@, e)]
      /\ log'[r] = Append(log[r], e)
      /\ \A q \in Room : q # r => log'[q] = log[q]
  BY DEF PostEvent, TypeOK
<1>3. /\ Len(log'[r]) = n
      /\ \A i \in 1..Len(log[r]) : log'[r][i] = log[r][i]
      /\ log'[r][n] = e
  BY <1>1, <1>2, AppendFacts
<1>4. /\ pruned' \in [Room -> Nat]
      /\ \A q \in Room : pruned'[q] >= pruned[q]
      /\ pruned'[r] < n
      /\ \A q \in Room : q # r => pruned'[q] <= Len(log[q])
  <2>1. pruned' \in PruneOptions(r, Append(log[r], e))
    BY DEF PostEvent
  <2>2. Len(Append(log[r], e)) = n
    BY <1>1, AppendFacts
  <2> QED BY <2>1, <2>2, BoundsAssumption DEF PruneOptions
<1>5. cursor' = [cursor EXCEPT ![r][t] = IF NoUnread(r, t)
                                         THEN Larger(@, n) ELSE @]
  BY DEF PostEvent
<1>6. /\ \A q \in Room, u \in Tile : q # r \/ u # t => cursor'[q][u] = cursor[q][u]
      /\ cursor'[r][t] = IF NoUnread(r, t) THEN n ELSE cursor[r][t]
  BY <1>1, <1>5 DEF TypeOK, Larger, CursorWithinLedger
<1>7. /\ \A q \in Room, u \in Tile : q # r => owed'[q][u] = owed[q][u]
      /\ \A u \in Tile : owed'[r][u] = IF u \in members[r] /\ IsVisible(e, u)
                                       THEN owed[r][u] \cup {n} ELSE owed[r][u]
  BY DEF PostEvent, TypeOK
<1>8. members' = members /\ membership' = membership
  BY DEF PostEvent
<1> HIDE DEF e, n
<1>9. TypeOK'
  BY PostFacts
<1>10. MembershipAgrees'
  BY <1>8 DEF MembershipAgrees
<1>11. CursorWithinLedger'
  <2> SUFFICES ASSUME NEW q \in Room, NEW u \in members[q]
               PROVE  cursor'[q][u] <= Len(log'[q])
    BY <1>8 DEF CursorWithinLedger
  <2>1. u \in Tile /\ cursor[q][u] \in Nat /\ cursor[q][u] <= Len(log[q])
    BY DEF TypeOK, CursorWithinLedger
  <2>2. CASE q = r
    BY <1>1, <1>3, <1>6, <2>1, <2>2, SMTT(30) DEF n
  <2>3. CASE q # r
    BY <1>2, <1>6, <2>1, <2>3
  <2> QED BY <2>2, <2>3
<1>12. OwedToMembers'
  BY <1>7, <1>8 DEF OwedToMembers
<1>13. OwedInLedger'
  <2> SUFFICES ASSUME NEW q \in Room, NEW u \in Tile, NEW s \in owed'[q][u]
               PROVE  s \in 1..Len(log'[q])
    BY DEF OwedInLedger
  <2>1. owed[q][u] \subseteq 1..Len(log[q])
    BY DEF OwedInLedger
  <2>2. CASE q = r
    <3>1. s \in owed[q][u] \/ s = n
      BY <1>7, <2>2
    <3>2. Len(log'[q]) = n /\ n \in 1..n /\ 1..Len(log[q]) \subseteq 1..n
      BY <1>1, <1>3, <2>2 DEF n
    <3> QED BY <2>1, <3>1, <3>2
  <2>3. CASE q # r
    BY <1>2, <1>7, <2>1, <2>3
  <2> QED BY <2>2, <2>3
<1>14. UnreadExact'
  <2> SUFFICES ASSUME NEW q \in Room, NEW u \in members[q], NEW s
               PROVE  s \in Pending(q, u)' <=> s \in owed'[q][u] /\ s > pruned'[q]
    BY <1>8 DEF UnreadExact, Pending
  <2>1. u \in Tile /\ cursor[q][u] \in Nat /\ cursor[q][u] <= Len(log[q])
    BY DEF TypeOK, CursorWithinLedger
  <2>2. s \in Pending(q, u) <=> s \in owed[q][u] /\ s > pruned[q]
    BY DEF UnreadExact
  <2>3. owed[q][u] \subseteq 1..Len(log[q])
    BY <2>1 DEF OwedInLedger
  <2>4. pruned[q] \in Nat /\ pruned'[q] \in Nat /\ pruned'[q] >= pruned[q]
    BY <1>4 DEF TypeOK
  <2>5. CASE q # r
    BY <1>2, <1>6, <1>7, <2>1, <2>2, <2>3, <2>4, <2>5, SMTT(30) DEF Pending
  <2>6. CASE q = r /\ s = n
    <3>1. s \notin owed[q][u]
      BY <1>1, <2>3, <2>6 DEF n
    <3>2. s \in owed'[q][u] <=> IsVisible(e, u)
      BY <1>7, <2>1, <2>6, <3>1
    <3>3. s > pruned'[q] /\ s \in 1..Len(log'[q]) /\ log'[q][s] = e
      BY <1>1, <1>3, <1>4, <2>6 DEF n
    <3>4. CASE u = t
      BY <3>2, <3>3, <3>4 DEF IsVisible, Pending, e
    <3>5. CASE u # t
      <4>1. s > cursor'[q][u]
        BY <1>1, <1>6, <2>1, <2>6, <3>5 DEF n
      <4> QED BY <3>2, <3>3, <4>1 DEF Pending
    <3> QED BY <3>4, <3>5
  <2>7. CASE q = r /\ s # n
    <3>1. s \in owed'[q][u] <=> s \in owed[q][u]
      BY <1>7, <2>1, <2>7
    <3>2. s \in 1..Len(log'[q]) <=> s \in 1..Len(log[q])
      BY <1>1, <1>3, <2>7 DEF n
    <3>3. s \in 1..Len(log[q]) => log'[q][s] = log[q][s]
      BY <1>3, <2>7
    <3>4. CASE cursor'[q][u] = cursor[q][u]
      BY <2>1, <2>2, <2>3, <2>4, <3>1, <3>2, <3>3, <3>4 DEF Pending
    <3>5. CASE cursor'[q][u] # cursor[q][u]
      <4>1. u = t /\ NoUnread(r, t) /\ cursor'[q][u] = n
        BY <1>6, <2>1, <2>7, <3>5
      <4>2. s \notin Pending(q, u)
        BY <4>1, <2>7 DEF NoUnread
      <4>3. s \notin Pending(q, u)'
        <5>1. s \in Pending(q, u)' => s \in 1..Len(log'[q]) /\ s > cursor'[q][u]
          BY DEF Pending
        <5>2. s \in 1..Len(log[q]) => ~(s > n)
          BY <1>1, <2>7 DEF n
        <5> QED BY <3>2, <4>1, <5>1, <5>2
      <4>4. s \in owed[q][u] => ~(s > pruned'[q])
        BY <4>2, <2>2, <2>3, <2>4
      <4> QED BY <4>3, <4>4, <3>1
    <3> QED BY <3>4, <3>5
  <2> QED BY <2>5, <2>6, <2>7
<1>15. PrunedInLedger'
  BY PostFacts DEF PrunedInLedger
<1> QED BY <1>9, <1>10, <1>11, <1>12, <1>13, <1>14, <1>15

-----------------------------------------------------------------------------
\* A delivery that shows what it acknowledges preserves the invariant.
LEMMA DeliverInv ==
  ASSUME IInv, NEW r \in Room, NEW t \in Tile, t \in members[r],
         NEW shown \in SUBSET Nat, NEW last \in Nat,
         Deliver(r, t, shown, last),
         last <= Len(log[r]),
         \A s \in Pending(r, t) : s \in shown <=> s <= last,
         shown \subseteq Pending(r, t)
  PROVE  IInv'
<1> USE DEF IInv
<1>1. /\ UNCHANGED <<membership, members, log, pruned, retired, todos,
                     roomFiles, inboxFiles, phase>>
      /\ cursor' = [cursor EXCEPT ![r][t] = Larger(@, last)]
      /\ owed' = [owed EXCEPT ![r][t] = @ \ (shown \cup Expired(r, t))]
  BY DEF Deliver
<1>2. /\ \A q \in Room, u \in Tile : q # r \/ u # t =>
           cursor'[q][u] = cursor[q][u] /\ owed'[q][u] = owed[q][u]
      /\ cursor'[r][t] = Larger(cursor[r][t], last)
      /\ owed'[r][t] = owed[r][t] \ (shown \cup Expired(r, t))
  BY <1>1 DEF TypeOK
<1>3. TypeOK'
  <2>1. cursor' \in [Room -> [Tile -> Nat]]
    BY <1>1 DEF TypeOK, Larger
  <2>2. owed' \in [Room -> [Tile -> SUBSET Nat]]
    BY <1>1 DEF TypeOK
  <2> QED BY <1>1, <2>1, <2>2 DEF TypeOK
<1>4. MembershipAgrees'
  BY <1>1 DEF MembershipAgrees
<1>5. CursorWithinLedger'
  <2> SUFFICES ASSUME NEW q \in Room, NEW u \in members[q]
               PROVE  cursor'[q][u] <= Len(log[q])
    BY <1>1 DEF CursorWithinLedger
  <2>1. u \in Tile /\ cursor[q][u] <= Len(log[q])
    BY DEF TypeOK, CursorWithinLedger
  <2> QED BY <1>2, <2>1 DEF Larger
<1>6. OwedToMembers' /\ OwedInLedger' /\ PrunedInLedger'
  BY <1>1, <1>2 DEF OwedToMembers, OwedInLedger, PrunedInLedger
<1>7. UnreadExact'
  <2> SUFFICES ASSUME NEW q \in Room, NEW u \in members[q], NEW s
               PROVE  s \in Pending(q, u)' <=> s \in owed'[q][u] /\ s > pruned[q]
    BY <1>1 DEF UnreadExact, Pending
  <2>1. u \in Tile /\ cursor[q][u] \in Nat
    BY DEF TypeOK
  <2>2. s \in Pending(q, u) <=> s \in owed[q][u] /\ s > pruned[q]
    BY DEF UnreadExact
  <2>3. CASE q # r \/ u # t
    <3>1. Pending(q, u)' = Pending(q, u)
      BY <1>1, <1>2, <2>1, <2>3 DEF Pending
    <3> QED BY <1>2, <2>1, <2>2, <2>3, <3>1
  <2>4. CASE q = r /\ u = t
    <3>1. s \in Pending(q, u)' <=> s \in Pending(q, u) /\ s > last
      BY <1>1, <1>2, <2>1, <2>4 DEF Pending, Larger
    <3>2. s \in Pending(q, u) => s \in Nat
      BY DEF Pending
    <3>3. s \in Expired(q, u) => ~(s > pruned[q])
      BY DEF Expired, TypeOK
    <3>4. s \in owed'[q][u] <=> s \in owed[q][u] /\ s \notin shown /\ s \notin Expired(q, u)
      BY <1>2, <2>4
    <3>5. s \in Pending(q, u) => (s \in shown <=> s <= last)
      BY <2>4
    <3> QED BY <2>2, <3>1, <3>2, <3>3, <3>4, <3>5
  <2> QED BY <2>3, <2>4
<1> QED BY <1>3, <1>4, <1>5, <1>6, <1>7

\* Both ways of reading are such deliveries.
LEMMA ReadInv ==
  ASSUME IInv, NEW t \in Tile, Consume(t) \/ ReadMessages(t)
  PROVE  IInv'
<1> DEFINE r == membership[t]
<1>1. r \in Room /\ t \in members[r]
  BY DEF IInv, Consume, ReadMessages, Live, MembershipAgrees
<1>2. CASE \E last \in Pending(r, t) : Deliver(r, t, Prefix(r, t, last), last)
  <2>1. PICK last \in Pending(r, t) : Deliver(r, t, Prefix(r, t, last), last)
    BY <1>2
  <2>2. last \in Nat /\ last <= Len(log[r]) /\ Prefix(r, t, last) \in SUBSET Nat
    BY <1>1 DEF Pending, Prefix, IInv, TypeOK
  <2>3. \A s \in Pending(r, t) : s \in Prefix(r, t, last) <=> s <= last
    BY DEF Prefix
  <2>4. Prefix(r, t, last) \subseteq Pending(r, t)
    BY DEF Prefix
  <2> HIDE DEF r
  <2> QED BY <1>1, <2>1, <2>2, <2>3, <2>4, DeliverInv
<1>3. CASE Expired(r, t) # {} /\ Deliver(r, t, {}, pruned[r])
  <2>1. pruned[r] \in Nat /\ pruned[r] <= Len(log[r])
    BY <1>1 DEF IInv, TypeOK, PrunedInLedger
  <2>2. \A s \in Pending(r, t) : s \in {} <=> s <= pruned[r]
    BY <2>1 DEF Pending
  <2> HIDE DEF r
  <2> QED BY <1>1, <1>3, <2>1, <2>2, DeliverInv
<1> QED BY <1>2, <1>3 DEF Consume, ReadMessages

-----------------------------------------------------------------------------
\* Disposal clears everything or nothing.
LEMMA DisposeInv ==
  ASSUME IInv, DisposeBegin \/ DisposeFailed \/ DisposeDone
  PROVE  IInv'
<1> USE DEF IInv
<1>1. CASE DisposeBegin \/ DisposeFailed
  <2>1. /\ UNCHANGED <<membership, members, cursor, log, pruned, retired, todos,
                       roomFiles, inboxFiles, owed>>
        /\ phase' \in {"open", "disposing"}
    BY <1>1 DEF DisposeBegin, DisposeFailed
  <2> QED
    BY <2>1 DEF TypeOK, MembershipAgrees, CursorWithinLedger, OwedToMembers,
                OwedInLedger, PrunedInLedger, UnreadExact, Pending
<1>2. CASE DisposeDone
  <2>1. TypeOK'
    BY <1>2 DEF DisposeDone, TypeOK, NoTodos, Live
  <2>2. /\ MembershipAgrees' /\ CursorWithinLedger' /\ OwedToMembers'
        /\ OwedInLedger' /\ PrunedInLedger' /\ UnreadExact'
    BY <1>2, NoRoomAssumption DEF DisposeDone, MembershipAgrees,
       CursorWithinLedger, OwedToMembers, OwedInLedger, PrunedInLedger, UnreadExact
  <2> QED BY <2>1, <2>2
<1> QED BY <1>1, <1>2

\* Every step preserves the invariant.
LEMMA NextInv == IInv /\ [Next]_vars => IInv'
<1> SUFFICES ASSUME IInv, [Next]_vars PROVE IInv'
  OBVIOUS
<1>1. ASSUME NEW t \in Tile, LeaveRoom(t) PROVE IInv'
  BY <1>1, LeaveInv
<1>2. ASSUME NEW t \in Tile, NEW peers \in SUBSET Tile, SyncMembership(t, peers)
      PROVE  IInv'
  <2>1. PICK host \in Room : MergeInto(host, {t} \cup peers)
    BY <1>2 DEF SyncMembership
  <2>2. {t} \cup peers \in SUBSET Tile
    BY <1>2
  <2> QED BY <2>1, <2>2, MergeInv
<1>3. ASSUME NEW t \in Tile, NEW to \in SUBSET Tile, Post(t, to) PROVE IInv'
  <2>1. /\ membership[t] \in Room /\ t \in members[membership[t]]
        /\ PostEvent(membership[t], t, to) /\ UNCHANGED todos
    BY <1>3 DEF Post, Live, IInv, MembershipAgrees
  <2>2. todos' \in [Tile -> [open: Nat, done: Nat]]
    BY <2>1 DEF IInv, TypeOK
  <2> QED BY <2>1, <2>2, PostInv
<1>4. ASSUME NEW t \in Tile, AddTodo(t) PROVE IInv'
  <2>1. /\ membership[t] \in Room /\ t \in members[membership[t]]
        /\ PostEvent(membership[t], t, {})
    BY <1>4 DEF AddTodo, Live, IInv, MembershipAgrees
  <2>2. todos' \in [Tile -> [open: Nat, done: Nat]]
    <3>1. todos[t] \in [open: Nat, done: Nat] /\ todos \in [Tile -> [open: Nat, done: Nat]]
      BY DEF IInv, TypeOK
    <3> QED BY <1>4, <3>1 DEF AddTodo
  <2> QED BY <2>1, <2>2, PostInv
<1>5. ASSUME NEW t \in Tile, CompleteTodo(t) PROVE IInv'
  <2>1. /\ membership[t] \in Room /\ t \in members[membership[t]]
        /\ PostEvent(membership[t], t, {})
    BY <1>5 DEF CompleteTodo, Live, IInv, MembershipAgrees
  <2>2. todos' \in [Tile -> [open: Nat, done: Nat]]
    <3>1. todos[t] \in [open: Nat, done: Nat] /\ todos \in [Tile -> [open: Nat, done: Nat]]
      BY DEF IInv, TypeOK
    <3> QED BY <1>5, <3>1 DEF CompleteTodo
  <2> QED BY <2>1, <2>2, PostInv
<1>6. ASSUME NEW t \in Tile, Consume(t) \/ ReadMessages(t) PROVE IInv'
  BY <1>6, ReadInv
<1>7. CASE DisposeBegin \/ DisposeFailed \/ DisposeDone
  BY <1>7, DisposeInv
<1>8. CASE UNCHANGED vars
  BY <1>8 DEF vars, IInv, TypeOK, MembershipAgrees, CursorWithinLedger,
     OwedToMembers, OwedInLedger, PrunedInLedger, UnreadExact, Pending
<1> QED BY <1>1, <1>2, <1>3, <1>4, <1>5, <1>6, <1>7, <1>8 DEF Next

\* The invariant holds in every reachable state.
LEMMA Invariance == Spec => []IInv
  BY InitInv, NextInv, PTL DEF Spec

\* The state variables keep their types.
THEOREM TypeCorrect == Spec => []TypeOK
<1>1. IInv => TypeOK
  BY DEF IInv
<1> QED BY <1>1, Invariance, PTL

\* The membership map and the rooms' member sets always agree.
THEOREM MembershipCorrect == Spec => []MembershipAgrees
<1>1. IInv => MembershipAgrees
  BY DEF IInv
<1> QED BY <1>1, Invariance, PTL

\* Types are kept, and no cursor runs past its ledger.
THEOREM LedgerCorrect == Spec => []LedgerIsSound
<1>1. IInv => LedgerIsSound
  BY DEF IInv, LedgerIsSound
<1> QED BY <1>1, Invariance, PTL

\* For any sets of tiles and rooms and any retention limits, the unread
\* traffic of a member is exactly what it is owed of the retained ledger.
THEOREM UnreadCorrect == Spec => []UnreadExact
<1>1. IInv => UnreadExact
  BY DEF IInv
<1> QED BY <1>1, Invariance, PTL

-----------------------------------------------------------------------------
\* Regrouping leaves the cursor of a tile that stays in a room alone.
LEMMA ReseatKeepsCursor ==
  ASSUME TypeOK, NEW new, NEW gone, NEW dropped, NEW written,
         Reseat(new, gone, dropped, written),
         NEW r \in Room, NEW t \in members[r] \cap members'[r]
  PROVE  cursor'[r][t] = cursor[r][t]
<1>1. t \in Tile
  BY DEF TypeOK
<1>2. members'[r] = IF r \in gone THEN {} ELSE new[r]
  BY DEF Reseat
<1>3. r \notin gone /\ t \in new[r]
  BY <1>2
<1>4. cursor'[r][t] = IF r \in gone \/ t \notin new[r] THEN 0 ELSE MemberCursor(r, t)
  BY <1>1 DEF Reseat
<1> QED BY <1>3, <1>4 DEF MemberCursor

\* A post and a delivery only move a cursor forward.
LEMMA LedgerAdvancesCursor ==
  ASSUME TypeOK, NEW q \in Room, NEW u \in Tile, NEW last \in Nat,
         \/ cursor' = [cursor EXCEPT ![q][u] = Larger(@, last)]
         \/ cursor' = cursor,
         NEW r \in Room, NEW t \in Tile
  PROVE  cursor'[r][t] >= cursor[r][t]
<1>1. cursor[r][t] \in Nat /\ cursor[q][u] \in Nat
  BY DEF TypeOK
<1>2. CASE cursor' = cursor
  BY <1>1, <1>2
<1>3. CASE cursor' = [cursor EXCEPT ![q][u] = Larger(@, last)]
  <2>1. cursor'[r][t] = IF r = q /\ t = u THEN Larger(cursor[q][u], last)
                        ELSE cursor[r][t]
    BY <1>3 DEF TypeOK
  <2> QED BY <1>1, <2>1 DEF Larger
<1> QED BY <1>2, <1>3

\* No step takes the cursor of a tile that stays in its room back.
LEMMA CursorStep ==
  ASSUME IInv, Next, NEW r \in Room, NEW t \in members[r] \cap members'[r]
  PROVE  cursor'[r][t] >= cursor[r][t]
<1> TypeOK
  BY DEF IInv
<1>0. t \in Tile /\ cursor[r][t] \in Nat
  BY DEF TypeOK
<1>1. ASSUME NEW u \in Tile, LeaveRoom(u) PROVE cursor'[r][t] >= cursor[r][t]
  BY <1>0, <1>1, ReseatKeepsCursor DEF LeaveRoom
<1>2. ASSUME NEW u \in Tile, NEW peers \in SUBSET Tile, SyncMembership(u, peers)
      PROVE  cursor'[r][t] >= cursor[r][t]
  BY <1>0, <1>2, ReseatKeepsCursor DEF SyncMembership, MergeInto
<1>3. ASSUME NEW q \in Room, NEW u \in Tile, NEW to, PostEvent(q, u, to)
      PROVE  cursor'[r][t] >= cursor[r][t]
  <2>1. Len(log[q]) + 1 \in Nat
    BY DEF TypeOK
  <2>2. \/ cursor' = [cursor EXCEPT ![q][u] = Larger(@, Len(log[q]) + 1)]
        \/ cursor' = cursor
    BY <1>3 DEF PostEvent, TypeOK
  <2> QED BY <1>0, <2>1, <2>2, LedgerAdvancesCursor
<1>4. ASSUME NEW u \in Tile, Consume(u) \/ ReadMessages(u)
      PROVE  cursor'[r][t] >= cursor[r][t]
  <2>1. PICK q \in Room, last \in Nat, shown \in SUBSET Nat : Deliver(q, u, shown, last)
    <3> DEFINE q == membership[u]
    <3>1. q \in Room
      BY <1>4 DEF Consume, ReadMessages, Live
    <3>2. CASE \E last \in Pending(q, u) : Deliver(q, u, Prefix(q, u, last), last)
      <4>1. PICK last \in Pending(q, u) : Deliver(q, u, Prefix(q, u, last), last)
        BY <3>2
      <4>2. last \in Nat /\ Prefix(q, u, last) \in SUBSET Nat
        BY DEF Pending, Prefix
      <4> HIDE DEF q
      <4> QED BY <3>1, <4>1, <4>2
    <3>3. CASE Deliver(q, u, {}, pruned[q])
      <4>1. pruned[q] \in Nat
        BY <3>1 DEF TypeOK
      <4> HIDE DEF q
      <4> QED BY <3>1, <3>3, <4>1
    <3> QED BY <1>4, <3>2, <3>3 DEF Consume, ReadMessages
  <2> QED BY <1>0, <2>1, LedgerAdvancesCursor DEF Deliver
<1>5. CASE DisposeBegin \/ DisposeFailed
  BY <1>0, <1>5 DEF DisposeBegin, DisposeFailed
<1>6. CASE DisposeDone
  BY <1>6 DEF DisposeDone
<1>7. ASSUME NEW u \in Tile,
             \/ \E to \in SUBSET Tile : Post(u, to)
             \/ AddTodo(u)
             \/ CompleteTodo(u)
      PROVE  cursor'[r][t] >= cursor[r][t]
  <2>1. membership[u] \in Room /\ \E to : PostEvent(membership[u], u, to)
    BY <1>7 DEF Post, AddTodo, CompleteTodo, Live
  <2> QED BY <1>3, <2>1
<1> QED BY <1>1, <1>2, <1>4, <1>5, <1>6, <1>7 DEF Next

\* While a tile stays in a room, whatever merges and splits that room goes
\* through, it is never given again what it has acknowledged.
THEOREM CursorsAdvance == Spec => CursorNeverRewinds
<1> DEFINE Advance == \A r \in Room : \A t \in members[r] \cap members'[r] :
                        cursor'[r][t] >= cursor[r][t]
<1>1. IInv /\ [Next]_vars => [Advance]_vars
  BY CursorStep DEF vars
<1>2. [][Advance]_vars <=> CursorNeverRewinds
  BY DEF CursorNeverRewinds
<1> HIDE DEF Advance
<1> QED BY <1>1, <1>2, Invariance, PTL DEF Spec
-----------------------------------------------------------------------------
(* Rooms and the tiles that change them, on any finite canvas.             *)

\* A canvas has finitely many tiles.
FiniteCanvas == IsFiniteSet(Tile)

\* Todos are held by members of rooms only.
TodosOfMembers == \A t \in Tile : membership[t] = NoRoom => todos[t] = NoTodos

\* The inductive invariant.
GroupInv == IInv /\ RoomsAreSound /\ TodosOfMembers

-----------------------------------------------------------------------------
\* A room is kept exactly when it has company.
LEMMA SizeFacts ==
  ASSUME FiniteCanvas, NEW ts \in SUBSET Tile
  PROVE  /\ Cardinality(ts) \in Nat
         /\ ~TooSmall(ts) <=> Cardinality(ts) >= 2
         /\ Cardinality(ts) >= 2 => ts # {}
<1>1. IsFiniteSet(ts)
  BY FS_Subset DEF FiniteCanvas
<1>2. Cardinality(ts) \in Nat /\ (Cardinality(ts) = 0 <=> ts = {})
  BY <1>1, FS_CardinalityType, FS_EmptySet
<1> QED BY <1>2 DEF TooSmall

\* What the regrouping has to get right: the rooms it rewrites have company,
\* those it leaves alone keep their members, and it drops the inboxes and
\* todos of exactly the tiles that lose or change their room.
LEMMA ReseatSound ==
  ASSUME GroupInv, FiniteCanvas,
         NEW new \in [Room -> SUBSET Tile],
         NEW gone \in SUBSET Room,
         NEW dropped \in SUBSET Tile,
         NEW written \in SUBSET Room,
         Reseat(new, gone, dropped, written),
         membership' \in [Tile -> Room \cup {NoRoom}],
         written \cap gone = {},
         \A r \in written : Cardinality(new[r]) >= 2,
         \A r \in Room : r \notin written \cup gone => new[r] = members[r],
         \A t \in Tile : membership'[t] = NoRoom
                         => t \in dropped \/ membership[t] = NoRoom,
         \A r \in written : \A t \in new[r] : membership'[t] # NoRoom,
         \A t \in Tile : membership'[t] # NoRoom =>
            \/ \E r \in written : t \in new[r]
            \/ t \notin dropped /\ membership[t] # NoRoom,
         \A t \in dropped : membership'[t] # NoRoom
                            => \E r \in written : t \in new[r]
  PROVE  RoomsAreSound' /\ TodosOfMembers'
<1>1. \A r \in Room : members'[r] = IF r \in gone THEN {} ELSE new[r]
  BY DEF Reseat
<1>2. \A r \in written : new[r] # {}
  BY SizeFacts
<1>3. RoomsHaveCompany'
  <2> SUFFICES ASSUME NEW r \in Room, members'[r] # {}
               PROVE  Cardinality(members'[r]) >= 2
    BY DEF RoomsHaveCompany, Live
  <2>1. CASE r \in written
    BY <1>1, <2>1
  <2>2. CASE r \notin written
    BY <1>1, <2>2 DEF GroupInv, RoomsAreSound, RoomsHaveCompany, Live
  <2> QED BY <2>1, <2>2
<1>4. roomFiles' = Live'
  <2>1. roomFiles' = (Live \ gone) \cup written
    BY DEF Reseat, RoomFilesAfter, GroupInv, RoomsAreSound, FilesMatchRooms
  <2>2. \A r \in Room : r \in Live' <=> r \notin gone /\ new[r] # {}
    BY <1>1 DEF Live
  <2> QED BY <1>2, <2>1, <2>2 DEF Live
<1>5. inboxFiles' = {t \in Tile : membership'[t] # NoRoom}
  <2>1. inboxFiles' = ({t \in Tile : membership[t] # NoRoom} \ dropped)
                      \cup UNION {new[r] : r \in written}
    BY DEF Reseat, GroupInv, RoomsAreSound, FilesMatchRooms
  <2>2. \A r \in written : new[r] \in SUBSET Tile
    OBVIOUS
  <2> QED BY <2>1, <2>2
<1>6. TodosOfMembers'
  BY DEF Reseat, GroupInv, TodosOfMembers
<1> QED BY <1>3, <1>4, <1>5, <1>6 DEF RoomsAreSound, FilesMatchRooms
\* A departure keeps rooms, files and todos in order.
LEMMA LeaveSound ==
  ASSUME GroupInv, FiniteCanvas, NEW t \in Tile, LeaveRoom(t)
  PROVE  RoomsAreSound' /\ TodosOfMembers'
<1> DEFINE room == {r \in Live : r = membership[t]}
           new  == [r \in Room |-> IF r \in room THEN members[r] \ {t} ELSE members[r]]
           gone == {r \in room : TooSmall(new[r])}
           out  == {t} \cup Dropped(gone, {})
<1>1. /\ membership' = [u \in Tile |-> IF u \in out THEN NoRoom ELSE membership[u]]
      /\ Reseat(new, gone, out, room \ gone)
  BY DEF LeaveRoom
<1>2. /\ members \in [Room -> SUBSET Tile]
      /\ membership \in [Tile -> Room \cup {NoRoom}]
      /\ \A u \in Tile, r \in Room : membership[u] = r <=> u \in members[r]
  BY DEF GroupInv, IInv, TypeOK, MembershipAgrees
<1>3. room \in SUBSET Room /\ gone \in SUBSET Room /\ room \ gone \in SUBSET Room
  BY DEF Live
<1>4. new \in [Room -> SUBSET Tile]
  BY <1>2
<1>5. out \in SUBSET Tile
  BY <1>2, <1>3, DroppedTiles
<1>6. membership' \in [Tile -> Room \cup {NoRoom}]
  BY <1>1, <1>2
<1>7. \A r \in room \ gone : Cardinality(new[r]) >= 2
  BY <1>3, <1>4, SizeFacts
<1>8. \A r \in Room : r \notin room => new[r] = members[r]
  OBVIOUS
<1>9. \A r \in room \ gone : \A u \in new[r] : membership'[u] # NoRoom
  <2> SUFFICES ASSUME NEW r \in room \ gone, NEW u \in new[r]
               PROVE  membership'[u] # NoRoom
    OBVIOUS
  <2>1. r \in Room /\ u \in members[r] /\ u # t /\ u \in Tile /\ membership[u] = r
    BY <1>2, <1>3
  <2>2. u \notin Dropped(gone, {})
    BY <2>1 DEF Dropped
  <2> QED BY <1>1, <2>1, <2>2, NoRoomAssumption
<1> HIDE DEF room, new, gone, out
<1>10. /\ (room \ gone) \cap gone = {}
       /\ \A r \in Room : r \notin (room \ gone) \cup gone => new[r] = members[r]
  BY <1>8
<1> QED BY <1>1, <1>3, <1>4, <1>5, <1>6, <1>7, <1>9, <1>10, ReseatSound

\* A merge of at least two tiles does too.
LEMMA MergeSound ==
  ASSUME GroupInv, FiniteCanvas, NEW host \in Room, NEW component \in SUBSET Tile,
         Cardinality(component) >= 2, MergeInto(host, component)
  PROVE  RoomsAreSound' /\ TodosOfMembers'
<1> DEFINE others == {r \in Live \ {host} : \E u \in component : membership[u] = r}
           new    == [r \in Room |-> IF r = host THEN component
                                     ELSE IF r \in others THEN members[r] \ component
                                     ELSE members[r]]
           gone   == {r \in others : TooSmall(new[r])}
           out    == Dropped(gone \cup {host}, component)
           written == {host} \cup (others \ gone)
           dropped == out \cup Moved(component, others)
<1>1. /\ membership' = [u \in Tile |-> IF u \in component THEN host
                                       ELSE IF u \in out THEN NoRoom
                                       ELSE membership[u]]
      /\ Reseat(new, gone, dropped, written)
  BY DEF MergeInto
<1>2. /\ members \in [Room -> SUBSET Tile]
      /\ membership \in [Tile -> Room \cup {NoRoom}]
      /\ \A u \in Tile, r \in Room : membership[u] = r <=> u \in members[r]
  BY DEF GroupInv, IInv, TypeOK, MembershipAgrees
<1>3. others \in SUBSET Room /\ gone \in SUBSET Room /\ written \in SUBSET Room
  BY DEF Live
<1>4. new \in [Room -> SUBSET Tile]
  BY <1>2
<1>5. out \in SUBSET Tile /\ dropped \in SUBSET Tile
  <2>1. gone \cup {host} \in SUBSET Room
    BY <1>3
  <2>2. out \in SUBSET Tile
    BY <1>2, <2>1, DroppedTiles
  <2>3. Moved(component, others) \in SUBSET Tile
    BY DEF Moved
  <2> QED BY <2>2, <2>3
<1>6. membership' \in [Tile -> Room \cup {NoRoom}]
  BY <1>1, <1>2
<1>7. written \cap gone = {}
  OBVIOUS
<1>8. \A r \in written : Cardinality(new[r]) >= 2
  <2>1. Cardinality(new[host]) >= 2
    OBVIOUS
  <2>2. \A r \in others \ gone : Cardinality(new[r]) >= 2
    BY <1>3, <1>4, SizeFacts
  <2> QED BY <2>1, <2>2
<1>9. \A r \in Room : r \notin written \cup gone => new[r] = members[r]
  OBVIOUS
<1>10. \A u \in component : u \in new[host] /\ host \in written /\ membership'[u] = host
  BY <1>1
<1>11. \A u \in Tile \ component : u \in out <=> membership[u] \in gone \cup {host}
  <2>1. gone \cup {host} \in SUBSET Room
    BY <1>3
  <2> HIDE DEF gone
  <2> QED BY <1>2, <2>1, DroppedIff DEF out
<1>12. out \cap component = {} /\ Moved(component, others) \subseteq component
  BY DEF Dropped, Moved
<1>13. \A r \in written : \A u \in new[r] : membership'[u] # NoRoom
  <2> SUFFICES ASSUME NEW r \in written, NEW u \in new[r], u \notin component
               PROVE  membership'[u] # NoRoom
    BY <1>10, NoRoomAssumption
  <2>1. r \in others \ gone /\ u \in members[r] /\ u \in Tile /\ r \in Room /\ r # host
    BY <1>2, <1>3
  <2>2. membership[u] = r
    BY <1>2, <2>1
  <2> HIDE DEF new, gone, out, others, written
  <2>3. u \notin out
    BY <1>11, <2>1, <2>2
  <2> QED BY <1>1, <2>1, <2>2, <2>3, NoRoomAssumption
<1> HIDE DEF others, new, gone, out, written
<1>14. \A u \in Tile : membership'[u] = NoRoom
                       => u \in dropped \/ membership[u] = NoRoom
  BY <1>1, NoRoomAssumption DEF dropped
<1>15. \A u \in Tile : membership'[u] # NoRoom =>
          \/ \E r \in written : u \in new[r]
          \/ u \notin dropped /\ membership[u] # NoRoom
  BY <1>1, <1>10, <1>12 DEF dropped
<1>16. \A u \in dropped : membership'[u] # NoRoom => \E r \in written : u \in new[r]
  BY <1>1, <1>5, <1>10, <1>12 DEF dropped
<1> HIDE DEF dropped
<1> QED BY <1>1, <1>3, <1>4, <1>5, <1>6, <1>7, <1>8, <1>9, <1>13, <1>14, <1>15,
           <1>16, ReseatSound

\* A post touches files of rooms and members that have them already.
LEMMA PostSound ==
  ASSUME GroupInv, NEW r \in Live, NEW t \in Tile, NEW to, PostEvent(r, t, to),
         \A u \in Tile : membership[u] = NoRoom => todos'[u] = todos[u]
  PROVE  RoomsAreSound' /\ TodosOfMembers'
<1>1. /\ members' = members /\ membership' = membership
      /\ roomFiles' = roomFiles \cup {r}
      /\ inboxFiles' = inboxFiles \cup members[r]
  BY DEF PostEvent
<1>2. Live' = Live
  BY <1>1 DEF Live
<1>3. \A u \in members[r] : u \in Tile /\ membership[u] # NoRoom
  BY NoRoomAssumption DEF GroupInv, IInv, TypeOK, MembershipAgrees, Live
<1>4. RoomsAreSound'
  BY <1>1, <1>2, <1>3 DEF GroupInv, RoomsAreSound, RoomsHaveCompany, FilesMatchRooms
<1>5. TodosOfMembers'
  BY <1>1 DEF GroupInv, TodosOfMembers
<1> QED BY <1>4, <1>5

\* Every step preserves the invariant.
LEMMA NextGroupInv ==
  ASSUME FiniteCanvas, GroupInv, [Next]_vars
  PROVE  GroupInv'
<1>0. IInv'
  BY NextInv DEF GroupInv
<1> SUFFICES RoomsAreSound' /\ TodosOfMembers'
  BY <1>0 DEF GroupInv
<1>1. ASSUME NEW t \in Tile, LeaveRoom(t) PROVE RoomsAreSound' /\ TodosOfMembers'
  BY <1>1, LeaveSound
<1>2. ASSUME NEW t \in Tile, NEW peers \in SUBSET Tile, SyncMembership(t, peers)
      PROVE  RoomsAreSound' /\ TodosOfMembers'
  <2>1. /\ Cardinality({t} \cup peers) >= 2
        /\ \E host \in Room : MergeInto(host, {t} \cup peers)
    BY <1>2 DEF SyncMembership
  <2>2. {t} \cup peers \in SUBSET Tile
    BY <1>2
  <2> QED BY <2>1, <2>2, MergeSound
<1>3. ASSUME NEW t \in Tile, NEW to \in SUBSET Tile, Post(t, to)
      PROVE  RoomsAreSound' /\ TodosOfMembers'
  BY <1>3, PostSound DEF Post
<1>4. ASSUME NEW t \in Tile, AddTodo(t) \/ CompleteTodo(t)
      PROVE  RoomsAreSound' /\ TodosOfMembers'
  <2>1. membership[t] \in Live /\ PostEvent(membership[t], t, {})
    BY <1>4 DEF AddTodo, CompleteTodo
  <2>2. \A u \in Tile : u # t => todos'[u] = todos[u]
    BY <1>4 DEF AddTodo, CompleteTodo, GroupInv, IInv, TypeOK
  <2>3. membership[t] # NoRoom
    BY <2>1, NoRoomAssumption DEF Live
  <2> QED BY <2>1, <2>2, <2>3, PostSound
<1>5. CASE (\E t \in Tile : Consume(t) \/ ReadMessages(t)) \/ DisposeBegin \/ DisposeFailed
           \/ UNCHANGED vars
  <2>1. UNCHANGED <<membership, members, todos, roomFiles, inboxFiles>>
    BY <1>5 DEF Consume, ReadMessages, Deliver, DisposeBegin, DisposeFailed, vars
  <2> QED BY <2>1 DEF GroupInv, RoomsAreSound, RoomsHaveCompany, FilesMatchRooms,
                      TodosOfMembers, Live
<1>6. CASE DisposeDone
  BY <1>6 DEF DisposeDone, RoomsAreSound, RoomsHaveCompany, FilesMatchRooms,
              TodosOfMembers, Live
<1> QED BY <1>1, <1>2, <1>3, <1>4, <1>5, <1>6 DEF Next

\* The invariant holds in every reachable state.
LEMMA GroupInvariance ==
  ASSUME FiniteCanvas
  PROVE  Spec => []GroupInv
<1>1. Init => GroupInv
  BY InitInv DEF Init, GroupInv, RoomsAreSound, RoomsHaveCompany, FilesMatchRooms,
                 TodosOfMembers, Live
<1>2. GroupInv /\ [Next]_vars => GroupInv'
  BY NextGroupInv
<1> QED BY <1>1, <1>2, PTL DEF Spec

\* On a finite canvas, whatever merges, splits and departures happen,
\* membership and members agree, every room has at least two members, and
\* the store owns on disk exactly the files of its rooms and members.
THEOREM RoomsCorrect ==
  ASSUME FiniteCanvas
  PROVE  Spec => []GroupsAreSound
<1>1. GroupInv => GroupsAreSound
  BY DEF GroupInv, IInv, GroupsAreSound
<1> QED BY <1>1, GroupInvariance, PTL

-----------------------------------------------------------------------------
\* A step that changes the room of a tile takes its todos away.
LEMMA TodosStep ==
  ASSUME GroupInv, [Next]_vars, NEW t \in Tile, membership'[t] # membership[t]
  PROVE  todos'[t] = NoTodos
<1>0. /\ membership \in [Tile -> Room \cup {NoRoom}]
      /\ \A r \in Room : membership[t] = r <=> t \in members[r]
  BY DEF GroupInv, IInv, TypeOK, MembershipAgrees
<1>1. ASSUME NEW u \in Tile, LeaveRoom(u) PROVE todos'[t] = NoTodos
  BY <1>0, <1>1 DEF LeaveRoom, Reseat
<1>2. ASSUME NEW host \in Room, NEW component \in SUBSET Tile,
             MergeInto(host, component)
      PROVE  todos'[t] = NoTodos
  <2> DEFINE others == {r \in Live \ {host} : \E v \in component : membership[v] = r}
             new    == [r \in Room |-> IF r = host THEN component
                                       ELSE IF r \in others THEN members[r] \ component
                                       ELSE members[r]]
             gone   == {r \in others : TooSmall(new[r])}
             out    == Dropped(gone \cup {host}, component)
             dropped == out \cup Moved(component, others)
  <2>1. /\ membership'[t] = IF t \in component THEN host
                            ELSE IF t \in out THEN NoRoom ELSE membership[t]
        /\ todos'[t] = IF t \in dropped THEN NoTodos ELSE todos[t]
    BY <1>2 DEF MergeInto, Reseat
  <2>2. CASE membership[t] = NoRoom
    BY <2>1, <2>2 DEF GroupInv, TodosOfMembers
  <2>3. CASE membership[t] # NoRoom /\ t \in component
    <3>1. membership[t] \in Room /\ t \in members[membership[t]] /\ membership[t] # host
      BY <1>0, <2>1, <2>3
    <3>2. membership[t] \in others
      BY <2>3, <3>1 DEF Live
    <3>3. t \in Moved(component, others)
      BY <2>3, <3>2 DEF Moved
    <3> QED BY <2>1, <3>3
  <2>4. CASE t \notin component
    BY <2>1, <2>4
  <2> QED BY <2>2, <2>3, <2>4
<1>3. CASE DisposeDone
  BY <1>3 DEF DisposeDone
<1>4. CASE membership' = membership
  BY <1>4
<1>5. \/ \E u \in Tile : LeaveRoom(u)
      \/ \E host \in Room, component \in SUBSET Tile : MergeInto(host, component)
      \/ DisposeDone
      \/ membership' = membership
  <2>1. ASSUME NEW u \in Tile, NEW peers \in SUBSET Tile, SyncMembership(u, peers)
        PROVE  \E host \in Room, component \in SUBSET Tile : MergeInto(host, component)
    <3>1. {u} \cup peers \in SUBSET Tile
      BY <2>1
    <3> QED BY <2>1, <3>1 DEF SyncMembership
  <2> QED BY <2>1 DEF Next, vars, Post, AddTodo, CompleteTodo, PostEvent, Consume,
                      ReadMessages, Deliver, DisposeBegin, DisposeFailed
<1> QED BY <1>1, <1>2, <1>3, <1>4, <1>5

\* Todos follow no tile into another room: no merge or split, in any order,
\* shows a room the todos a tile had elsewhere.
THEOREM TodosCorrect ==
  ASSUME FiniteCanvas
  PROVE  Spec => TodosStayBehind
<1> DEFINE Behind == \A t \in Tile : membership'[t] # membership[t] => todos'[t] = NoTodos
<1>1. GroupInv /\ [Next]_vars => [Behind]_vars
  BY TodosStep
<1>2. [][Behind]_vars <=> TodosStayBehind
  BY DEF TodosStayBehind
<1> HIDE DEF Behind
<1> QED BY <1>1, <1>2, GroupInvariance, PTL DEF Spec

-----------------------------------------------------------------------------
(* The chat turns of a card on top of the store (RoomTurns).  Acceptance   *)
(* may move the cursor past traffic nobody has shown, so what is kept of   *)
(* the store is weaker than IInv; it is about what a turn's context covers. *)

\* What a tile is owed is in the ledger, and the tile may see it.
OwedVisible ==
  \A r \in Room, t \in Tile : \A s \in owed[r][t] :
    s \in 1..Len(log[r]) /\ IsVisible(log[r][s], t)

\* No room comes back with the id of a dissolved one.
RetiredAreGone == \A r \in retired : members[r] = {}

\* A turn's context has shown all the unread traffic of its room up to the
\* sequence reserved for it, however the room has developed since.
ShownCovers ==
  \A k \in Turn, r \in Room : turn[k].room = r =>
    /\ r \in retired \/ turn[k].seq <= Len(log[r])
    /\ \A s \in owed[r][Card] :
         s > pruned[r] /\ s > cursor[r][Card] /\ s <= turn[k].seq => s \in turn[k].shown

\* The reservation is what its turn's context covers; that turn has been
\* launched and no provider has accepted it yet.
ReservationFits ==
  reservation.turn \in Turn =>
    /\ reservation.seq = turn[reservation.turn].seq
    /\ turn[reservation.turn].stage \in {"running", "ended", "adrift"}

\* A turn is adrift only once its job has been lost.
AdriftLost == \A k \in Turn : turn[k].stage = "adrift" => turn[k].job = "lost"

\* A launched turn is current, or will be torn down, or a stop has reported it.
NoneOrphaned ==
  \A k \in Launched :
    \/ IsCurrent(k)
    \/ k \in unconfirmed
    \/ \E i \in 1..Len(fifo) :
         \/ fifo[i] = Stop
         \/ /\ turn[fifo[i]].stage = "queued"
            /\ turn[fifo[i]].mode = "foreground"

StoreInv == TypeOK /\ PrunedInLedger /\ OwedVisible /\ RetiredAreGone

\* The inductive invariant of the turns.
TurnsInv == /\ StoreInv
            /\ TurnsTypeOK
            /\ NoneOrphaned
            /\ AdriftLost
            /\ ShownCovers
            /\ ReservationFits

\* What every step of the store does to the unread traffic of a tile: a room
\* is dissolved, or nothing becomes unread again and only new events become
\* unread, in a room that is not dissolved.
KeepsUnread ==
  /\ retired \subseteq retired'
  /\ \A r \in Room, t \in Tile :
       \/ r \in retired' /\ owed'[r][t] = {}
       \/ /\ Len(log'[r]) >= Len(log[r])
          /\ \A s \in owed'[r][t] : s > pruned'[r] /\ s > cursor'[r][t] =>
               \/ s \in owed[r][t] /\ s > pruned[r] /\ s > cursor[r][t]
               \/ s > Len(log[r]) /\ r \notin retired

-----------------------------------------------------------------------------
\* Regrouping that gives no member to a retired room.
LEMMA ReseatStore ==
  ASSUME StoreInv,
         NEW new \in [Room -> SUBSET Tile],
         NEW gone \in SUBSET Room,
         NEW dropped \in SUBSET Tile,
         NEW written \in SUBSET Room,
         Reseat(new, gone, dropped, written),
         membership' \in [Tile -> Room \cup {NoRoom}],
         \A r \in retired : new[r] = {}
  PROVE  StoreInv' /\ KeepsUnread
<1> USE DEF StoreInv
<1>1. TypeOK'
  BY ReseatType
<1>2. PrunedInLedger' /\ OwedVisible'
  BY DEF Reseat, TypeOK, PrunedInLedger, OwedVisible
<1>3. RetiredAreGone'
  BY DEF Reseat, TypeOK, RetiredAreGone
<1>4. KeepsUnread
  <2>1. retired' = retired \cup gone
    BY DEF Reseat
  <2> SUFFICES ASSUME NEW r \in Room, NEW t \in Tile, r \notin gone,
                      NEW s \in owed'[r][t], s > cursor'[r][t]
               PROVE  /\ log'[r] = log[r] /\ pruned'[r] = pruned[r]
                      /\ s \in owed[r][t] /\ s > cursor[r][t]
    <3>1. \A r \in gone, t \in Tile : r \in retired' /\ owed'[r][t] = {}
      BY DEF Reseat
    <3>2. \A r \in Room : r \notin gone => log'[r] = log[r] /\ Len(log[r]) \in Nat
      BY DEF Reseat, TypeOK
    <3>3. \A r \in Room : r \notin gone => pruned'[r] = pruned[r]
      BY DEF Reseat
    <3> QED BY <2>1, <3>1, <3>2, <3>3 DEF KeepsUnread
  <2>2. log'[r] = log[r] /\ pruned'[r] = pruned[r]
    BY DEF Reseat
  <2>3. t \in new[r] /\ s \in owed[r][t] /\ cursor'[r][t] = MemberCursor(r, t)
    BY DEF Reseat
  <2>4. s \in 1..Len(log[r]) /\ Len(log[r]) \in Nat
    BY <2>3 DEF OwedVisible, TypeOK
  <2>5. t \in members[r]
    BY <2>3, <2>4 DEF MemberCursor, HeadSeq
  <2> QED BY <2>2, <2>3, <2>5 DEF MemberCursor
<1> QED BY <1>1, <1>2, <1>3, <1>4

\* A departure is such a regrouping.
LEMMA LeaveStore ==
  ASSUME StoreInv, NEW t \in Tile, LeaveRoom(t)
  PROVE  StoreInv' /\ KeepsUnread
<1> DEFINE room == {r \in Live : r = membership[t]}
           new  == [r \in Room |-> IF r \in room THEN members[r] \ {t} ELSE members[r]]
           gone == {r \in room : TooSmall(new[r])}
           out  == {t} \cup Dropped(gone, {})
<1>1. /\ membership' = [u \in Tile |-> IF u \in out THEN NoRoom ELSE membership[u]]
      /\ Reseat(new, gone, out, room \ gone)
  BY DEF LeaveRoom
<1>2. members \in [Room -> SUBSET Tile] /\ membership \in [Tile -> Room \cup {NoRoom}]
  BY DEF StoreInv, TypeOK
<1>3. gone \in SUBSET Room /\ room \ gone \in SUBSET Room
  BY DEF Live
<1>4. new \in [Room -> SUBSET Tile]
  BY <1>2
<1>5. out \in SUBSET Tile
  BY <1>2, <1>3, DroppedTiles
<1>6. membership' \in [Tile -> Room \cup {NoRoom}]
  BY <1>1, <1>2
<1>7. \A r \in retired : new[r] = {}
  BY DEF StoreInv, RetiredAreGone, TypeOK
<1> HIDE DEF room, new, gone, out
<1> QED BY <1>1, <1>3, <1>4, <1>5, <1>6, <1>7, ReseatStore

\* So is a merge into a room that is not retired.
LEMMA MergeStore ==
  ASSUME StoreInv, NEW host \in Room, NEW component \in SUBSET Tile,
         host \notin retired, MergeInto(host, component)
  PROVE  StoreInv' /\ KeepsUnread
<1> DEFINE others == {r \in Live \ {host} : \E u \in component : membership[u] = r}
           new    == [r \in Room |-> IF r = host THEN component
                                     ELSE IF r \in others THEN members[r] \ component
                                     ELSE members[r]]
           gone   == {r \in others : TooSmall(new[r])}
           out    == Dropped(gone \cup {host}, component)
           dropped == out \cup Moved(component, others)
<1>1. /\ membership' = [u \in Tile |-> IF u \in component THEN host
                                       ELSE IF u \in out THEN NoRoom
                                       ELSE membership[u]]
      /\ Reseat(new, gone, dropped, {host} \cup (others \ gone))
  BY DEF MergeInto
<1>2. members \in [Room -> SUBSET Tile] /\ membership \in [Tile -> Room \cup {NoRoom}]
  BY DEF StoreInv, TypeOK
<1>3. gone \in SUBSET Room /\ {host} \cup (others \ gone) \in SUBSET Room
  BY DEF Live
<1>4. new \in [Room -> SUBSET Tile]
  BY <1>2
<1>5. dropped \in SUBSET Tile
  <2>1. gone \cup {host} \in SUBSET Room
    BY <1>3
  <2>2. out \in SUBSET Tile
    BY <1>2, <2>1, DroppedTiles
  <2>3. Moved(component, others) \in SUBSET Tile
    BY DEF Moved
  <2> QED BY <2>2, <2>3
<1>6. membership' \in [Tile -> Room \cup {NoRoom}]
  BY <1>1, <1>2
<1>7. \A r \in retired : new[r] = {}
  BY DEF StoreInv, RetiredAreGone, TypeOK
<1> HIDE DEF others, new, gone, out, dropped
<1> QED BY <1>1, <1>3, <1>4, <1>5, <1>6, <1>7, ReseatStore

\* A post to a live room makes only itself unread.
LEMMA PostStore ==
  ASSUME StoreInv, NEW r \in Live, NEW t \in Tile, NEW to \in SUBSET Tile,
         PostEvent(r, t, to), UNCHANGED todos
  PROVE  StoreInv' /\ KeepsUnread
<1> USE DEF StoreInv
<1> DEFINE e == [from |-> t, to |-> to]
           n == Len(log[r]) + 1
<1>1. r \in Room /\ r \notin retired /\ Len(log[r]) \in Nat
  BY DEF Live, RetiredAreGone, TypeOK
<1>2. todos' \in [Tile -> [open: Nat, done: Nat]]
  BY DEF TypeOK
<1>3. /\ TypeOK'
      /\ \A q \in Room : q # r => log'[q] = log[q]
      /\ Len(log'[r]) = n
      /\ \A i \in 1..Len(log[r]) : log'[r][i] = log[r][i]
      /\ log'[r][n] = e
      /\ \A q \in Room : pruned'[q] >= pruned[q] /\ pruned'[q] <= Len(log'[q])
      /\ \A q \in Room, u \in Tile : cursor'[q][u] >= cursor[q][u]
  BY <1>1, <1>2, PostFacts
<1>4. /\ \A q \in Room, u \in Tile : q # r => owed'[q][u] = owed[q][u]
      /\ \A u \in Tile : owed'[r][u] = IF u \in members[r] /\ IsVisible(e, u)
                                       THEN owed[r][u] \cup {n} ELSE owed[r][u]
  BY <1>1 DEF PostEvent, TypeOK
<1>5. members' = members /\ retired' = retired
  BY DEF PostEvent
<1> HIDE DEF e
<1>6. PrunedInLedger'
  BY <1>3 DEF PrunedInLedger
<1>7. OwedVisible'
  <2> SUFFICES ASSUME NEW q \in Room, NEW u \in Tile, NEW s \in owed'[q][u]
               PROVE  s \in 1..Len(log'[q]) /\ IsVisible(log'[q][s], u)
    BY DEF OwedVisible
  <2>1. CASE s \in owed[q][u]
    <3>1. s \in 1..Len(log[q]) /\ IsVisible(log[q][s], u)
      BY <2>1 DEF OwedVisible
    <3> QED BY <1>1, <1>3, <3>1
  <2>2. CASE s \notin owed[q][u]
    <3>1. q = r /\ s = n /\ IsVisible(e, u)
      BY <1>4, <2>2
    <3> QED BY <1>1, <1>3, <3>1
  <2> QED BY <2>1, <2>2
<1>8. RetiredAreGone'
  BY <1>5 DEF RetiredAreGone
<1>9. KeepsUnread
  <2> SUFFICES ASSUME NEW q \in Room, NEW u \in Tile
               PROVE  /\ Len(log'[q]) >= Len(log[q])
                      /\ \A s \in owed'[q][u] : s > pruned'[q] /\ s > cursor'[q][u] =>
                           \/ s \in owed[q][u] /\ s > pruned[q] /\ s > cursor[q][u]
                           \/ s > Len(log[q]) /\ q \notin retired
    BY <1>5 DEF KeepsUnread
  <2>1. /\ Len(log[q]) \in Nat /\ pruned[q] \in Nat /\ cursor[q][u] \in Nat
        /\ pruned'[q] \in Nat /\ cursor'[q][u] \in Nat /\ owed[q][u] \in SUBSET Nat
    <3>1. Len(log[q]) \in Nat /\ pruned[q] \in Nat
      BY DEF TypeOK
    <3>2. cursor[q][u] \in Nat /\ owed[q][u] \in SUBSET Nat
      BY DEF TypeOK
    <3>3. TypeOK'
      BY <1>3
    <3>4. pruned'[q] \in Nat /\ cursor'[q][u] \in Nat
      BY <3>3 DEF TypeOK
    <3> QED BY <3>1, <3>2, <3>4
  <2>2. Len(log'[q]) >= Len(log[q])
    BY <1>1, <1>3, <2>1
  <2>3. ASSUME NEW s \in owed'[q][u], s > pruned'[q], s > cursor'[q][u]
        PROVE  \/ s \in owed[q][u] /\ s > pruned[q] /\ s > cursor[q][u]
               \/ s > Len(log[q]) /\ q \notin retired
    <3>1. CASE s \in owed[q][u]
      BY <1>3, <2>1, <2>3, <3>1
    <3>2. CASE s \notin owed[q][u]
      <4>1. q = r /\ s = n
        BY <1>4, <3>2
      <4> QED BY <1>1, <4>1
    <3> QED BY <3>1, <3>2
  <2> QED BY <2>2, <2>3
<1> QED BY <1>3, <1>6, <1>7, <1>8, <1>9

\* Moving a cursor forward and showing traffic makes nothing unread.
LEMMA ShowStore ==
  ASSUME StoreInv, NEW r \in Room, NEW t \in Tile, NEW last \in Int,
         NEW q \in Room, NEW shown,
         \/ cursor' = [cursor EXCEPT ![r][t] = Larger(@, last)]
         \/ cursor' = cursor,
         \/ owed' = [owed EXCEPT ![q][t] = @ \ shown]
         \/ owed' = owed,
         UNCHANGED <<membership, members, log, pruned, retired, todos,
                     roomFiles, inboxFiles, phase>>
  PROVE  /\ StoreInv' /\ KeepsUnread
         /\ \A p \in Room, u \in Tile : owed'[p][u] \subseteq owed[p][u]
<1> USE DEF StoreInv
<1>0. /\ cursor \in [Room -> [Tile -> Nat]]
      /\ owed \in [Room -> [Tile -> SUBSET Nat]]
  BY DEF TypeOK
<1>1. /\ cursor' \in [Room -> [Tile -> Nat]]
      /\ \A p \in Room, u \in Tile : cursor'[p][u] >= cursor[p][u]
  <2>1. CASE cursor' = cursor
    BY <1>0, <2>1
  <2>2. CASE cursor' = [cursor EXCEPT ![r][t] = Larger(@, last)]
    <3>1. Larger(cursor[r][t], last) \in Nat /\ Larger(cursor[r][t], last) >= cursor[r][t]
      BY <1>0 DEF Larger
    <3>2. \A p \in Room, u \in Tile : cursor'[p][u] =
             IF p = r /\ u = t THEN Larger(cursor[r][t], last) ELSE cursor[p][u]
      BY <1>0, <2>2
    <3>3. cursor' \in [Room -> [Tile -> Nat]]
      BY <1>0, <2>2, <3>1
    <3>4. \A p \in Room, u \in Tile : cursor[p][u] \in Nat
      BY <1>0
    <3> QED BY <3>1, <3>2, <3>3, <3>4
  <2> QED BY <2>1, <2>2
<1>2. /\ owed' \in [Room -> [Tile -> SUBSET Nat]]
      /\ \A p \in Room, u \in Tile : owed'[p][u] \subseteq owed[p][u]
  <2>1. CASE owed' = owed
    BY <1>0, <2>1
  <2>2. CASE owed' = [owed EXCEPT ![q][t] = @ \ shown]
    BY <1>0, <2>2
  <2> QED BY <2>1, <2>2
<1>3. TypeOK'
  BY <1>1, <1>2 DEF TypeOK
<1>4. PrunedInLedger' /\ OwedVisible' /\ RetiredAreGone'
  BY <1>2 DEF PrunedInLedger, OwedVisible, RetiredAreGone
<1>5. KeepsUnread
  <2> SUFFICES ASSUME NEW p \in Room, NEW u \in Tile, NEW s \in owed'[p][u],
                      s > cursor'[p][u]
               PROVE  s \in owed[p][u] /\ s > cursor[p][u] /\ Len(log[p]) >= Len(log[p])
    <3>1. \A p \in Room : Len(log'[p]) >= Len(log[p])
      BY DEF TypeOK
    <3> QED BY <3>1 DEF KeepsUnread
  <2>1. s \in Nat /\ s \in owed[p][u] /\ Len(log[p]) \in Nat
    BY <1>2 DEF TypeOK
  <2>2. cursor[p][u] \in Nat /\ cursor'[p][u] \in Nat /\ cursor'[p][u] >= cursor[p][u]
    BY <1>0, <1>1
  <2> QED BY <2>1, <2>2
<1> QED BY <1>2, <1>3, <1>4, <1>5

\* Both ways of reading only show traffic.
LEMMA ReadStore ==
  ASSUME StoreInv, NEW t \in Tile, Consume(t) \/ ReadMessages(t)
  PROVE  StoreInv' /\ KeepsUnread
<1> DEFINE r == membership[t]
<1>1. r \in Room
  BY DEF Consume, ReadMessages, Live
<1>2. PICK last \in Nat, shown \in SUBSET Nat : Deliver(r, t, shown, last)
  <2>1. CASE \E last \in Pending(r, t) : Deliver(r, t, Prefix(r, t, last), last)
    <3>1. PICK last \in Pending(r, t) : Deliver(r, t, Prefix(r, t, last), last)
      BY <2>1
    <3>2. last \in Nat /\ Prefix(r, t, last) \in SUBSET Nat
      BY DEF Pending, Prefix
    <3> HIDE DEF r
    <3> QED BY <3>1, <3>2
  <2>2. CASE Deliver(r, t, {}, pruned[r])
    <3>1. pruned[r] \in Nat
      BY <1>1 DEF StoreInv, TypeOK
    <3> HIDE DEF r
    <3> QED BY <2>2, <3>1
  <2> QED BY <2>1, <2>2 DEF Consume, ReadMessages
<1> HIDE DEF r
<1>3. /\ cursor' = [cursor EXCEPT ![r][t] = Larger(@, last)]
      /\ owed' = [owed EXCEPT ![r][t] = @ \ (shown \cup Expired(r, t))]
      /\ UNCHANGED <<membership, members, log, pruned, retired, todos,
                     roomFiles, inboxFiles, phase>>
  BY <1>2 DEF Deliver
<1>4. last \in Int
  OBVIOUS
<1> QED BY <1>1, <1>3, <1>4, ShowStore

\* What the other tiles do to the store while the card's turns go on.
LEMMA StepStore ==
  ASSUME StoreInv, StoreStep
  PROVE  StoreInv' /\ KeepsUnread
<1>1. ASSUME NEW t \in Tile, NEW peers \in SUBSET Tile, SyncMembership(t, peers)
      PROVE  StoreInv' /\ KeepsUnread
  <2>1. {t} \cup peers \in SUBSET Tile
    BY <1>1
  <2>2. PICK host \in Room :
           /\ host \in HostCandidates(t, peers) \/ host \notin Live \cup retired
           /\ MergeInto(host, {t} \cup peers)
    BY <1>1 DEF SyncMembership
  <2>3. host \notin retired
    BY <2>2 DEF HostCandidates, Live, StoreInv, RetiredAreGone
  <2> QED BY <2>1, <2>2, <2>3, MergeStore
<1>2. ASSUME NEW t \in Tile, NEW to \in SUBSET Tile, Post(t, to)
      PROVE  StoreInv' /\ KeepsUnread
  BY <1>2, PostStore DEF Post
<1> QED BY <1>1, <1>2, LeaveStore, ReadStore DEF StoreStep

-----------------------------------------------------------------------------
\* A context that covers the unread traffic of the card in room r, as far as
\* the sequence seq, goes on covering it.
LEMMA CoversStay ==
  ASSUME StoreInv, StoreInv', KeepsUnread,
         NEW r \in Room, NEW seq \in Int, NEW shown,
         r \in retired \/ seq <= Len(log[r]),
         \A s \in owed[r][Card] :
           s > pruned[r] /\ s > cursor[r][Card] /\ s <= seq => s \in shown
  PROVE  /\ r \in retired' \/ seq <= Len(log'[r])
         /\ \A s \in owed'[r][Card] :
              s > pruned'[r] /\ s > cursor'[r][Card] /\ s <= seq => s \in shown
<1>1. /\ Len(log[r]) \in Nat /\ Len(log'[r]) \in Nat
      /\ owed'[r][Card] \in SUBSET Nat
  BY CardAssumption DEF StoreInv, TypeOK
<1>2. retired \subseteq retired'
  BY DEF KeepsUnread
<1>3. \/ r \in retired' /\ owed'[r][Card] = {}
      \/ /\ Len(log'[r]) >= Len(log[r])
         /\ \A s \in owed'[r][Card] : s > pruned'[r] /\ s > cursor'[r][Card] =>
              \/ s \in owed[r][Card] /\ s > pruned[r] /\ s > cursor[r][Card]
              \/ s > Len(log[r]) /\ r \notin retired
  BY CardAssumption DEF KeepsUnread
<1> QED BY <1>1, <1>2, <1>3

\* A step that leaves the store alone keeps its unread traffic.
LEMMA IdleStore ==
  ASSUME StoreInv, UNCHANGED vars
  PROVE  StoreInv' /\ KeepsUnread
<1>1. \A r \in Room : Len(log[r]) \in Nat
  BY DEF StoreInv, TypeOK
<1> QED BY <1>1 DEF vars, StoreInv, TypeOK, PrunedInLedger, OwedVisible,
                    RetiredAreGone, KeepsUnread

\* The queue of a card: taking its head off leaves the others in order.
LEMMA FifoFacts ==
  ASSUME fifo \in Seq(Turn \cup {Stop})
  PROVE  /\ Len(fifo) \in Nat
         /\ \A i \in 1..Len(fifo) : fifo[i] \in Turn \cup {Stop}
         /\ \A k \in Turn \cup {Stop} :
              /\ Append(fifo, k) \in Seq(Turn \cup {Stop})
              /\ Len(Append(fifo, k)) = Len(fifo) + 1
              /\ \A i \in 1..Len(fifo) : Append(fifo, k)[i] = fifo[i]
              /\ Append(fifo, k)[Len(fifo) + 1] = k
         /\ fifo # <<>> =>
              /\ Head(fifo) = fifo[1]
              /\ Tail(fifo) \in Seq(Turn \cup {Stop})
              /\ Len(Tail(fifo)) = Len(fifo) - 1
              /\ \A i \in 2..Len(fifo) : Tail(fifo)[i - 1] = fifo[i]
  OBVIOUS

-----------------------------------------------------------------------------
\* What a step has to preserve of the turns for their invariant.

\* No turn's context changes.
SameContexts ==
  \A k \in Turn : /\ turn'[k].room = turn[k].room
                  /\ turn'[k].seq = turn[k].seq
                  /\ turn'[k].shown = turn[k].shown

\* Entry i of the queue is going to tear down what is running.
TearsDown(i) == \/ fifo[i] = Stop
                \/ /\ turn[fifo[i]].stage = "queued"
                   /\ turn[fifo[i]].mode = "foreground"

\* Contexts that do not change go on covering what they covered.
LEMMA CoversAll ==
  ASSUME StoreInv, StoreInv', TurnsTypeOK, ShownCovers, KeepsUnread, SameContexts
  PROVE  ShownCovers'
<1> SUFFICES ASSUME NEW k \in Turn, NEW r \in Room, turn'[k].room = r
             PROVE  /\ r \in retired' \/ turn'[k].seq <= Len(log'[r])
                    /\ \A s \in owed'[r][Card] :
                         s > pruned'[r] /\ s > cursor'[r][Card] /\ s <= turn'[k].seq
                           => s \in turn'[k].shown
  BY DEF ShownCovers
<1>1. /\ turn'[k].room = turn[k].room /\ turn'[k].seq = turn[k].seq
      /\ turn'[k].shown = turn[k].shown
  BY DEF SameContexts
<1>2. /\ r \in retired \/ turn[k].seq <= Len(log[r])
      /\ \A s \in owed[r][Card] :
           s > pruned[r] /\ s > cursor[r][Card] /\ s <= turn[k].seq => s \in turn[k].shown
  BY <1>1 DEF ShownCovers
<1>3. turn[k].seq \in Int
  BY DEF TurnsTypeOK, NoSeq
<1>4. /\ r \in retired' \/ turn[k].seq <= Len(log'[r])
      /\ \A s \in owed'[r][Card] :
           s > pruned'[r] /\ s > cursor'[r][Card] /\ s <= turn[k].seq => s \in turn[k].shown
  <2> DEFINE seq == turn[k].seq
             shown == turn[k].shown
  <2>1. seq \in Int
    BY <1>3
  <2>2. /\ r \in retired \/ seq <= Len(log[r])
        /\ \A s \in owed[r][Card] :
             s > pruned[r] /\ s > cursor[r][Card] /\ s <= seq => s \in shown
    BY <1>2
  <2> HIDE DEF seq, shown
  <2>3. /\ r \in retired' \/ seq <= Len(log'[r])
        /\ \A s \in owed'[r][Card] :
             s > pruned'[r] /\ s > cursor'[r][Card] /\ s <= seq => s \in shown
    BY <2>1, <2>2, CoversStay
  <2> QED BY <2>3 DEF seq, shown
<1> QED BY <1>1, <1>4

\* A reservation that is dropped, or kept along with its turn.
LEMMA FitsStay ==
  ASSUME ReservationFits, SameContexts,
         \/ reservation' = Nothing
         \/ /\ reservation' = reservation
            /\ \A k \in Turn : turn[k].stage \in {"running", "ended", "adrift"}
                               => turn'[k].stage \in {"running", "ended", "adrift"}
  PROVE  ReservationFits'
<1>1. CASE reservation' = Nothing
  BY <1>1, TurnAssumption DEF Nothing, ReservationFits
<1>2. CASE reservation' # Nothing
  BY <1>2 DEF ReservationFits, SameContexts
<1> QED BY <1>1, <1>2

\* Nothing is orphaned while the lease stays, foreground turns keep waiting,
\* and only an operation that tears nothing down leaves the queue.
LEMMA OrphanStay ==
  ASSUME TurnsTypeOK, NoneOrphaned,
         generation' = generation, unconfirmed \subseteq unconfirmed',
         \A k \in Launched' : \/ k \in Launched /\ turn'[k].gen = turn[k].gen
                              \/ turn'[k].gen = generation,
         \A k \in Turn : turn[k].stage = "queued" /\ turn[k].mode = "foreground"
                         => turn'[k].stage = "queued" /\ turn'[k].mode = "foreground",
         \/ fifo' = fifo
         \/ fifo # <<>> /\ ~TearsDown(1) /\ fifo' = Tail(fifo)
  PROVE  NoneOrphaned'
<1> SUFFICES ASSUME NEW k \in Launched', turn'[k].gen # generation,
                    k \notin unconfirmed'
             PROVE  \E i \in 1..Len(fifo') :
                      \/ fifo'[i] = Stop
                      \/ /\ turn'[fifo'[i]].stage = "queued"
                         /\ turn'[fifo'[i]].mode = "foreground"
  BY DEF NoneOrphaned, IsCurrent
<1>1. PICK i \in 1..Len(fifo) : TearsDown(i)
  BY DEF NoneOrphaned, IsCurrent, TearsDown
<1>2. /\ Len(fifo) \in Nat
      /\ fifo[i] \in Turn \cup {Stop}
      /\ fifo # <<>> =>
              /\ Len(Tail(fifo)) = Len(fifo) - 1
              /\ \A j \in 2..Len(fifo) : Tail(fifo)[j - 1] = fifo[j]
  BY <1>1, FifoFacts DEF TurnsTypeOK
<1>3. \E j \in 1..Len(fifo') : fifo'[j] = fifo[i]
  <2>1. CASE fifo' = fifo
    BY <1>1, <2>1
  <2>2. CASE fifo # <<>> /\ ~TearsDown(1) /\ fifo' = Tail(fifo)
    <3>1. i \in 2..Len(fifo) /\ i - 1 \in 1..Len(Tail(fifo))
      BY <1>1, <1>2, <2>2
    <3> QED BY <1>2, <2>2, <3>1
  <2> QED BY <2>1, <2>2
<1>4. PICK j \in 1..Len(fifo') : fifo'[j] = fifo[i]
  BY <1>3
<1>5. \/ fifo[i] = Stop
      \/ /\ turn'[fifo[i]].stage = "queued"
         /\ turn'[fifo[i]].mode = "foreground"
  BY <1>1, <1>2 DEF TearsDown
<1> QED BY <1>4, <1>5

\* What is known of a turn.
TurnRecord ==
  [stage: {"unsent", "queued", "preparing", "attached", "running",
           "accepted", "adrift", "ended"},
   mode: {"foreground", "background"}, gen: Nat,
   job: {"none", "known", "lost"},
   room: Room \cup {NoRoom}, seq: Nat \cup {NoSeq}, shown: SUBSET Nat]

\* Only turn k changes, and its context stays.
Moves(k) ==
  /\ turn' \in [Turn -> TurnRecord]
  /\ SameContexts
  /\ \A j \in Turn \ {k} : turn'[j] = turn[j]

\* Turn k becomes t, in the same context.
LEMMA MovesTo ==
  ASSUME TurnsTypeOK, NEW k \in Turn, NEW t \in TurnRecord,
         t.room = turn[k].room, t.seq = turn[k].seq, t.shown = turn[k].shown,
         turn' = [turn EXCEPT ![k] = t]
  PROVE  Moves(k) /\ turn'[k] = t
<1>1. turn \in [Turn -> TurnRecord]
  BY DEF TurnsTypeOK, TurnRecord
<1>2. turn'[k] = t /\ \A j \in Turn \ {k} : turn'[j] = turn[j]
  BY <1>1
<1>3. turn' \in [Turn -> TurnRecord]
  BY <1>1
<1> QED BY <1>2, <1>3 DEF Moves, SameContexts

\* A turn that only moves on to another stage.
LEMMA StageOnly ==
  ASSUME TurnsTypeOK, NEW k \in Turn,
         NEW stage \in {"preparing", "attached", "running", "accepted"},
         turn' = [turn EXCEPT ![k].stage = stage]
  PROVE  /\ Moves(k)
         /\ turn'[k].stage = stage /\ turn'[k].gen = turn[k].gen
<1> DEFINE t == [turn[k] EXCEPT !.stage = stage]
<1>1. turn[k] \in TurnRecord
  BY DEF TurnsTypeOK, TurnRecord
<1>2. /\ t \in TurnRecord /\ t.stage = stage /\ t.gen = turn[k].gen
      /\ t.room = turn[k].room /\ t.seq = turn[k].seq /\ t.shown = turn[k].shown
  BY <1>1 DEF TurnRecord
<1>3. turn' = [turn EXCEPT ![k] = t]
  OBVIOUS
<1> HIDE DEF t
<1> QED BY <1>2, <1>3, MovesTo

\* A turn whose daemon job has been started.
LEMMA StartedOnly ==
  ASSUME TurnsTypeOK, NEW k \in Turn,
         turn' = [turn EXCEPT ![k].stage = "running", ![k].job = "known"]
  PROVE  /\ Moves(k)
         /\ turn'[k].stage = "running" /\ turn'[k].gen = turn[k].gen
<1> DEFINE t == [turn[k] EXCEPT !.stage = "running", !.job = "known"]
<1>1. turn[k] \in TurnRecord
  BY DEF TurnsTypeOK, TurnRecord
<1>2. /\ t \in TurnRecord /\ t.stage = "running" /\ t.gen = turn[k].gen
      /\ t.room = turn[k].room /\ t.seq = turn[k].seq /\ t.shown = turn[k].shown
  BY <1>1 DEF TurnRecord
<1>3. turn' = [turn EXCEPT ![k] = t]
  BY DEF TurnsTypeOK
<1> HIDE DEF t
<1> QED BY <1>2, <1>3, MovesTo

\* A turn nobody here knows of any more.
LEMMA DriftOnly ==
  ASSUME TurnsTypeOK, NEW k \in Turn, Drift(k)
  PROVE  /\ Moves(k)
         /\ turn'[k].stage = "adrift" /\ turn'[k].job = "lost"
<1> DEFINE t == [turn[k] EXCEPT !.stage = "adrift", !.job = "lost"]
<1>1. turn[k] \in TurnRecord
  BY DEF TurnsTypeOK, TurnRecord
<1>2. /\ t \in TurnRecord /\ t.stage = "adrift" /\ t.job = "lost"
      /\ t.room = turn[k].room /\ t.seq = turn[k].seq /\ t.shown = turn[k].shown
  BY <1>1 DEF TurnRecord
<1>3. turn' = [turn EXCEPT ![k] = t]
  BY DEF TurnsTypeOK, Drift
<1> HIDE DEF t
<1> QED BY <1>2, <1>3, MovesTo

\* A turn that is over keeps its context.
LEMMA OverFacts ==
  ASSUME NEW t \in TurnRecord
  PROVE  /\ Over(t) \in TurnRecord /\ Over(t).stage = "ended"
         /\ Over(t).room = t.room /\ Over(t).seq = t.seq /\ Over(t).shown = t.shown
  BY DEF TurnRecord, Over

\* Tearing turns down is that for each of them.
LEMMA EndedFacts ==
  ASSUME TurnsTypeOK, NEW ks \in SUBSET Turn
  PROVE  /\ Ended(ks) \in [Turn -> TurnRecord]
         /\ \A j \in Turn \ ks : Ended(ks)[j] = turn[j]
         /\ \A j \in Turn : /\ Ended(ks)[j].room = turn[j].room
                            /\ Ended(ks)[j].seq = turn[j].seq
                            /\ Ended(ks)[j].shown = turn[j].shown
         /\ \A j \in ks : Ended(ks)[j].stage = "ended"
<1>1. turn \in [Turn -> TurnRecord]
  BY DEF TurnsTypeOK, TurnRecord
<1>2. \A j \in Turn : Ended(ks)[j] = IF j \in ks THEN Over(turn[j]) ELSE turn[j]
  BY DEF Ended
<1>3. \A j \in Turn : Ended(ks)[j] \in TurnRecord
  BY <1>1, <1>2, OverFacts
<1>4. Ended(ks) \in [Turn -> TurnRecord]
  BY <1>3 DEF Ended
<1>5. \A j \in Turn : /\ Ended(ks)[j].room = turn[j].room
                      /\ Ended(ks)[j].seq = turn[j].seq
                      /\ Ended(ks)[j].shown = turn[j].shown
  BY <1>1, <1>2, OverFacts
<1>6. \A j \in ks : Ended(ks)[j].stage = "ended"
  BY <1>1, <1>2, OverFacts
<1> QED BY <1>2, <1>4, <1>5, <1>6

\* A turn that is over.
LEMMA EndedOnly ==
  ASSUME TurnsTypeOK, NEW k \in Turn, turn' = Ended({k})
  PROVE  Moves(k) /\ turn'[k].stage = "ended"
  BY EndedFacts DEF Moves, SameContexts

-----------------------------------------------------------------------------
\* A chat:send that arrives: a foreground one takes the lease over, and its
\* own entry in the queue will tear down whatever it orphans.
LEMMA SendTurns ==
  ASSUME TurnsInv, NEW k \in Turn, NEW mode \in {"foreground", "background"},
         Send(k, mode)
  PROVE  TurnsInv'
<1> USE DEF TurnsInv
<1>1. StoreInv' /\ KeepsUnread
  BY IdleStore DEF Send
<1>2. /\ turn \in [Turn -> TurnRecord] /\ generation \in Nat
      /\ fifo \in Seq(Turn \cup {Stop})
  BY DEF TurnsTypeOK, TurnRecord
<1>3. /\ turn[k].stage = "unsent"
      /\ generation' = IF mode = "foreground" THEN generation + 1 ELSE generation
      /\ turn' = [turn EXCEPT ![k].stage = "queued", ![k].mode = mode,
                              ![k].gen = generation']
      /\ fifo' = Append(fifo, k)
      /\ reservation' = reservation /\ unconfirmed' = unconfirmed
  BY DEF Send
<1>4. generation' \in Nat
  BY <1>2, <1>3
<1>5. turn'[k] = [turn[k] EXCEPT !.stage = "queued", !.mode = mode, !.gen = generation']
  BY <1>2, <1>3
<1>6. /\ turn'[k].stage = "queued" /\ turn'[k].mode = mode
      /\ turn'[k].room = turn[k].room /\ turn'[k].seq = turn[k].seq
      /\ turn'[k].shown = turn[k].shown
      /\ turn'[k] \in TurnRecord
  BY <1>2, <1>4, <1>5 DEF TurnRecord
<1>7. \A j \in Turn \ {k} : turn'[j] = turn[j]
  BY <1>2, <1>3
<1>8. TurnsTypeOK'
  <2>1. turn' \in [Turn -> TurnRecord]
    BY <1>2, <1>3, <1>6
  <2>2. fifo' \in Seq(Turn \cup {Stop})
    BY <1>2, <1>3, FifoFacts
  <2> QED BY <1>3, <1>4, <2>1, <2>2 DEF TurnsTypeOK, TurnRecord
<1>9. SameContexts
  BY <1>6, <1>7 DEF SameContexts
<1>10. ShownCovers'
  BY <1>1, <1>9, CoversAll
<1>11. ReservationFits'
  BY <1>3, <1>7, <1>9, FitsStay
<1>12. NoneOrphaned'
  <2>1. /\ Len(fifo) \in Nat /\ Len(fifo') = Len(fifo) + 1
        /\ \A i \in 1..Len(fifo) : fifo'[i] = fifo[i] /\ fifo[i] \in Turn \cup {Stop}
        /\ fifo'[Len(fifo) + 1] = k
    BY <1>2, <1>3, FifoFacts
  <2>2. CASE mode = "foreground"
    <3>1. Len(fifo) + 1 \in 1..Len(fifo')
      BY <2>1
    <3> QED BY <1>6, <2>1, <2>2, <3>1 DEF NoneOrphaned
  <2>3. CASE mode = "background"
    <3> SUFFICES ASSUME NEW j \in Launched', turn'[j].gen # generation',
                        j \notin unconfirmed'
                 PROVE  \E i \in 1..Len(fifo') :
                          \/ fifo'[i] = Stop
                          \/ /\ turn'[fifo'[i]].stage = "queued"
                             /\ turn'[fifo'[i]].mode = "foreground"
      BY DEF NoneOrphaned, IsCurrent
    <3>1. j # k /\ j \in Turn
      BY <1>6 DEF Launched
    <3>2. j \in Launched /\ turn[j].gen # generation /\ j \notin unconfirmed
      BY <1>3, <1>7, <2>3, <3>1 DEF Launched
    <3>3. PICK i \in 1..Len(fifo) : TearsDown(i)
      BY <3>2 DEF NoneOrphaned, IsCurrent, TearsDown
    <3>4. i \in 1..Len(fifo') /\ fifo'[i] = fifo[i] /\ fifo[i] \in Turn \cup {Stop}
      BY <2>1
    <3>5. fifo[i] # Stop => fifo[i] # k
      BY <1>3, <3>3 DEF TearsDown
    <3> QED BY <1>7, <3>3, <3>4, <3>5 DEF TearsDown
  <2> QED BY <2>2, <2>3
<1>13. AdriftLost'
  BY <1>6, <1>7 DEF AdriftLost
<1> QED BY <1>1, <1>8, <1>10, <1>11, <1>12, <1>13

\* A stop that arrives orphans every turn, and is queued to tear them down.
LEMMA RequestTurns ==
  ASSUME TurnsInv, RequestStop
  PROVE  TurnsInv'
<1> USE DEF TurnsInv
<1>1. StoreInv' /\ KeepsUnread
  BY IdleStore DEF RequestStop
<1>2. /\ generation' = generation + 1 /\ fifo' = Append(fifo, Stop)
      /\ turn' = turn /\ reservation' = reservation /\ unconfirmed' = unconfirmed
  BY DEF RequestStop
<1>3. /\ Len(fifo) \in Nat /\ Append(fifo, Stop) \in Seq(Turn \cup {Stop})
      /\ Len(fifo') = Len(fifo) + 1 /\ fifo'[Len(fifo) + 1] = Stop
  BY <1>2, FifoFacts DEF TurnsTypeOK
<1>4. TurnsTypeOK'
  BY <1>2, <1>3 DEF TurnsTypeOK
<1>5. SameContexts
  BY <1>2 DEF SameContexts
<1>6. ShownCovers' /\ ReservationFits'
  BY <1>1, <1>2, <1>5, CoversAll, FitsStay
<1>7. NoneOrphaned'
  <2>1. Len(fifo) + 1 \in 1..Len(fifo')
    BY <1>3
  <2> QED BY <1>3, <2>1 DEF NoneOrphaned
<1>8. AdriftLost'
  BY <1>2 DEF AdriftLost
<1> QED BY <1>1, <1>4, <1>6, <1>7, <1>8

\* A stop that executes ends every launched turn it can confirm.
LEMMA ExecuteTurns ==
  ASSUME TurnsInv, ExecuteStop
  PROVE  TurnsInv'
<1> USE DEF TurnsInv
<1>1. StoreInv' /\ KeepsUnread
  BY IdleStore DEF ExecuteStop
<1>2. PICK left \in SUBSET Launched :
         StopCardExecution(left) /\ turn' = Ended(Launched \ left)
  BY DEF ExecuteStop
<1>3. /\ fifo # <<>> /\ fifo' = Tail(fifo) /\ generation' = generation
      /\ reservation' = Nothing /\ unconfirmed' = unconfirmed \cup left
  BY <1>2 DEF ExecuteStop, Executing, StopCardExecution
<1>4. Launched \ left \in SUBSET Turn /\ left \in SUBSET Turn
  BY DEF Launched
<1>5. /\ turn' \in [Turn -> TurnRecord]
      /\ \A j \in Turn \ (Launched \ left) : turn'[j] = turn[j]
      /\ \A j \in Launched \ left : turn'[j].stage = "ended"
      /\ SameContexts
  BY <1>2, <1>4, EndedFacts DEF SameContexts
<1>6. TurnsTypeOK'
  <2>1. fifo' \in Seq(Turn \cup {Stop})
    BY <1>3, FifoFacts DEF TurnsTypeOK
  <2>2. reservation' \in [turn: Turn \cup {NoTurn}, seq: Nat \cup {NoSeq}]
    BY <1>3 DEF Nothing
  <2> QED BY <1>3, <1>4, <1>5, <2>1, <2>2 DEF TurnsTypeOK, TurnRecord
<1>7. ShownCovers' /\ ReservationFits'
  BY <1>1, <1>3, <1>5, CoversAll, FitsStay
<1>8. NoneOrphaned'
  <2>1. Launched' \subseteq left
    BY <1>5 DEF Launched
  <2> QED BY <1>3, <2>1 DEF NoneOrphaned
<1>9. AdriftLost'
  BY <1>5 DEF AdriftLost
<1> QED BY <1>1, <1>6, <1>7, <1>8, <1>9

\* So does the foreground turn that replaces them.
LEMMA ReplaceTurns ==
  ASSUME TurnsInv, NEW k \in Turn, ReplaceExecution(k)
  PROVE  TurnsInv'
<1> USE DEF TurnsInv
<1>1. StoreInv' /\ KeepsUnread
  BY IdleStore DEF ReplaceExecution
<1>2. PICK left \in SUBSET Launched :
         /\ StopCardExecution(left)
         /\ \/ left = {} /\ turn' = [Ended(Launched) EXCEPT ![k].stage = "preparing"]
            \/ turn' = Ended({k} \cup (Launched \ left))
         /\ fifo' = fifo \/ fifo' = Tail(fifo)
  BY DEF ReplaceExecution
<1>3. /\ fifo # <<>> /\ generation' = generation
      /\ reservation' = Nothing /\ unconfirmed' = unconfirmed \cup left
      /\ turn[k].stage = "queued"
  BY <1>2 DEF ReplaceExecution, Executing, StopCardExecution
<1>4. Launched \in SUBSET Turn /\ left \in SUBSET Turn /\ k \notin Launched
  BY <1>3 DEF Launched
<1>5. /\ turn' \in [Turn -> TurnRecord]
      /\ SameContexts
      /\ \A j \in Turn : turn'[j] = turn[j] \/ turn'[j].stage \in {"preparing", "ended"}
      /\ \A j \in Launched \ left : turn'[j].stage = "ended"
  <2>1. CASE turn' = Ended({k} \cup (Launched \ left))
    <3>1. {k} \cup (Launched \ left) \in SUBSET Turn
      BY <1>4
    <3> QED BY <2>1, <3>1, EndedFacts DEF SameContexts
  <2>2. CASE left = {} /\ turn' = [Ended(Launched) EXCEPT ![k].stage = "preparing"]
    <3> DEFINE rest == Ended(Launched)
    <3>1. /\ rest \in [Turn -> TurnRecord]
          /\ \A j \in Turn \ Launched : rest[j] = turn[j]
          /\ \A j \in Launched : rest[j].stage = "ended"
          /\ \A j \in Turn : rest[j].room = turn[j].room /\ rest[j].seq = turn[j].seq
                             /\ rest[j].shown = turn[j].shown
      BY <1>4, EndedFacts
    <3>2. turn' = [rest EXCEPT ![k].stage = "preparing"]
      BY <2>2
    <3> HIDE DEF rest
    <3>3. /\ turn'[k] = [rest[k] EXCEPT !.stage = "preparing"]
          /\ \A j \in Turn \ {k} : turn'[j] = rest[j]
      BY <3>1, <3>2
    <3>4. /\ turn'[k] \in TurnRecord /\ turn'[k].stage = "preparing"
          /\ turn'[k].room = rest[k].room /\ turn'[k].seq = rest[k].seq
          /\ turn'[k].shown = rest[k].shown
      BY <3>1, <3>3 DEF TurnRecord
    <3>5. turn' \in [Turn -> TurnRecord]
      BY <3>1, <3>2, <3>4
    <3>6. SameContexts
      <4>1. ASSUME NEW j \in Turn
            PROVE  /\ turn'[j].room = rest[j].room /\ turn'[j].seq = rest[j].seq
                   /\ turn'[j].shown = rest[j].shown
        <5>1. CASE j = k
          BY <3>4, <5>1
        <5>2. CASE j # k
          BY <3>3, <5>2
        <5> QED BY <5>1, <5>2
      <4> QED BY <3>1, <4>1 DEF SameContexts
    <3>7. \A j \in Turn : turn'[j] = turn[j] \/ turn'[j].stage \in {"preparing", "ended"}
      <4> TAKE j \in Turn
      <4> HIDE DEF SameContexts
      <4>1. CASE j = k
        BY <3>4, <4>1
      <4>2. CASE j \in Launched /\ j # k
        BY <3>1, <3>3, <4>2
      <4>3. CASE j \notin Launched /\ j # k
        BY <3>1, <3>3, <4>3
      <4> QED BY <4>1, <4>2, <4>3
    <3>8. \A j \in Launched : turn'[j].stage = "ended"
      BY <1>4, <3>1, <3>3
    <3> HIDE DEF SameContexts
    <3> QED BY <2>2, <3>5, <3>6, <3>7, <3>8
  <2> QED BY <1>2, <2>1, <2>2
<1>6. TurnsTypeOK'
  <2>1. fifo' \in Seq(Turn \cup {Stop})
    BY <1>2, <1>3, FifoFacts DEF TurnsTypeOK
  <2>2. reservation' \in [turn: Turn \cup {NoTurn}, seq: Nat \cup {NoSeq}]
    BY <1>3 DEF Nothing
  <2> QED BY <1>3, <1>4, <1>5, <2>1, <2>2 DEF TurnsTypeOK, TurnRecord
<1>7. ShownCovers' /\ ReservationFits'
  BY <1>1, <1>3, <1>5, CoversAll, FitsStay
<1>8. NoneOrphaned'
  <2>1. Launched' \subseteq left
    BY <1>5 DEF Launched
  <2> QED BY <1>3, <2>1 DEF NoneOrphaned
<1>9. AdriftLost'
  BY <1>5 DEF AdriftLost
<1> QED BY <1>1, <1>6, <1>7, <1>8, <1>9

-----------------------------------------------------------------------------
\* Steps that move turn k on to another stage: it is at the head of the
\* queue and leaves it, or the queue stays.
LEMMA MoveOn ==
  ASSUME TurnsInv, StoreInv', KeepsUnread, generation' = generation,
         unconfirmed' = unconfirmed,
         NEW k \in Turn, Moves(k),
         ~(turn[k].stage = "queued" /\ turn[k].mode = "foreground"),
         turn'[k].stage \in {"running", "accepted"}
           => turn'[k].gen = turn[k].gen /\ (IsCurrent(k) \/ k \in Launched),
         turn'[k].stage = "adrift" => turn'[k].job = "lost",
         \/ fifo' = fifo
         \/ Executing(k) /\ fifo' = Tail(fifo)
  PROVE  /\ ShownCovers' /\ NoneOrphaned' /\ AdriftLost' /\ SameContexts
         /\ reservation' \in [turn: Turn \cup {NoTurn}, seq: Nat \cup {NoSeq}]
            => TurnsTypeOK'
<1> USE DEF TurnsInv
<1>1. /\ turn' \in [Turn -> TurnRecord]
      /\ SameContexts
      /\ \A j \in Turn \ {k} : turn'[j] = turn[j]
  BY DEF Moves
<1>2. ShownCovers'
  BY <1>1, CoversAll
<1>3. \/ fifo' = fifo
      \/ fifo # <<>> /\ fifo[1] = k /\ fifo' = Tail(fifo)
  BY FifoFacts DEF Executing, TurnsTypeOK
<1>4. ASSUME reservation' \in [turn: Turn \cup {NoTurn}, seq: Nat \cup {NoSeq}]
      PROVE  TurnsTypeOK'
  <2>1. fifo' \in Seq(Turn \cup {Stop})
    BY <1>3, FifoFacts DEF TurnsTypeOK
  <2> QED BY <1>1, <1>4, <2>1 DEF TurnsTypeOK, TurnRecord
<1>5. NoneOrphaned'
  <2>1. \A j \in Launched' : \/ j \in Launched /\ turn'[j].gen = turn[j].gen
                             \/ turn'[j].gen = generation
    BY <1>1 DEF Launched, IsCurrent
  <2>2. \A j \in Turn : turn[j].stage = "queued" /\ turn[j].mode = "foreground"
                         => turn'[j].stage = "queued" /\ turn'[j].mode = "foreground"
    BY <1>1
  <2>3. ~TearsDown(1) \/ fifo[1] # k
    BY TurnAssumption DEF TearsDown
  <2>4. \/ fifo' = fifo
        \/ fifo # <<>> /\ ~TearsDown(1) /\ fifo' = Tail(fifo)
    BY <1>3, <2>3
  <2> QED BY <2>1, <2>2, <2>4, OrphanStay
<1>6. AdriftLost'
  BY <1>1 DEF AdriftLost
<1> QED BY <1>1, <1>2, <1>4, <1>5, <1>6

\* A reservation that is dropped or kept has its type.
LEMMA FitsType ==
  ASSUME TurnsTypeOK, reservation' = Nothing \/ reservation' = reservation
  PROVE  reservation' \in [turn: Turn \cup {NoTurn}, seq: Nat \cup {NoSeq}]
  BY DEF TurnsTypeOK, Nothing

\* Preparation starts for a background turn, or ends early for any.
LEMMA PrepareTurns ==
  ASSUME TurnsInv, NEW k \in Turn, StartBackground(k) \/ AbandonPreparation(k)
  PROVE  TurnsInv'
<1>0. StoreInv' /\ KeepsUnread
  BY IdleStore DEF TurnsInv, StartBackground, AbandonPreparation
<1>1. CASE StartBackground(k)
  <2>1. /\ turn' = [turn EXCEPT ![k].stage = "preparing"]
        /\ turn[k].stage = "queued" /\ turn[k].mode = "background"
        /\ UNCHANGED <<vars, generation, fifo, reservation, unconfirmed>>
    BY <1>1 DEF StartBackground
  <2>2. Moves(k) /\ turn'[k].stage = "preparing"
    BY <2>1, StageOnly DEF TurnsInv
  <2>3. /\ ShownCovers' /\ NoneOrphaned' /\ AdriftLost' /\ SameContexts
        /\ TurnsTypeOK'
    BY <1>0, <2>1, <2>2, MoveOn, FitsType DEF TurnsInv
  <2>4. \A j \in Turn : turn[j].stage \in {"running", "ended", "adrift"}
                        => turn'[j].stage \in {"running", "ended", "adrift"}
    BY <2>1, <2>2 DEF Moves
  <2> QED BY <1>0, <2>1, <2>3, <2>4, FitsStay DEF TurnsInv
<1>2. CASE AbandonPreparation(k)
  <2>1. /\ turn' = Ended({k})
        /\ turn[k].stage = "preparing"
        /\ Executing(k) /\ fifo' = Tail(fifo)
        /\ UNCHANGED <<vars, generation, unconfirmed>>
        /\ reservation' = Nothing \/ reservation' = reservation
    BY <1>2 DEF AbandonPreparation
  <2>2. Moves(k) /\ turn'[k].stage = "ended"
    BY <2>1, EndedOnly DEF TurnsInv
  <2>3. /\ ShownCovers' /\ NoneOrphaned' /\ AdriftLost' /\ SameContexts
        /\ TurnsTypeOK'
    BY <1>0, <2>1, <2>2, MoveOn, FitsType DEF TurnsInv
  <2>4. \A j \in Turn : turn[j].stage \in {"running", "ended", "adrift"}
                        => turn'[j].stage \in {"running", "ended", "adrift"}
    BY <2>1, <2>2 DEF Moves
  <2> QED BY <1>0, <2>1, <2>3, <2>4, FitsStay DEF TurnsInv
<1> QED BY <1>1, <1>2

\* A daemon job that has been started, or has not: a superseded turn
\* registers nothing and is over or adrift, a current one reserves what its
\* context covers.
LEMMA StartedTurns ==
  ASSUME TurnsInv, NEW k \in Turn, DaemonStarted(k)
  PROVE  TurnsInv'
<1>0. StoreInv' /\ KeepsUnread
  BY IdleStore DEF TurnsInv, DaemonStarted
<1>1. /\ Executing(k) /\ fifo' = Tail(fifo) /\ turn[k].stage = "attached"
      /\ UNCHANGED <<vars, generation, unconfirmed>>
  BY DEF DaemonStarted
<1>2. CASE /\ IsCurrent(k)
           /\ Register(k, turn[k].seq)
           /\ turn' = [turn EXCEPT ![k].stage = "running", ![k].job = "known"]
  <2>1. turn[k].seq \in Nat \cup {NoSeq}
    BY DEF TurnsInv, TurnsTypeOK
  <2>2. /\ reservation' = IF turn[k].seq = NoSeq THEN reservation
                          ELSE [turn |-> k, seq |-> turn[k].seq]
        /\ reservation' \in [turn: Turn \cup {NoTurn}, seq: Nat \cup {NoSeq}]
    BY <1>2, <2>1 DEF Register, TurnsInv, TurnsTypeOK
  <2>3. Moves(k) /\ turn'[k].stage = "running" /\ turn'[k].gen = turn[k].gen
    BY <1>2, StartedOnly DEF TurnsInv
  <2>4. /\ ShownCovers' /\ NoneOrphaned' /\ AdriftLost' /\ SameContexts
        /\ TurnsTypeOK'
    BY <1>0, <1>1, <1>2, <2>2, <2>3, MoveOn
  <2>5. ReservationFits'
    <3>1. CASE turn[k].seq = NoSeq
      <4>1. reservation' = reservation
        BY <2>2, <3>1
      <4> QED BY <2>3, <2>4, <4>1, FitsStay DEF TurnsInv, Moves
    <3>2. CASE turn[k].seq # NoSeq
      BY <2>2, <2>3, <2>4, <3>2 DEF ReservationFits, SameContexts
    <3> QED BY <3>1, <3>2
  <2> QED BY <1>0, <2>4, <2>5 DEF TurnsInv
<1>3. CASE /\ turn' = Ended({k}) \/ Drift(k)
           /\ reservation' = Nothing \/ reservation' = reservation
  <2>1. /\ Moves(k)
        /\ turn'[k].stage \in {"ended", "adrift"}
        /\ turn'[k].stage = "adrift" => turn'[k].job = "lost"
    BY <1>3, EndedOnly, DriftOnly DEF TurnsInv
  <2>2. /\ ShownCovers' /\ NoneOrphaned' /\ AdriftLost' /\ SameContexts
        /\ TurnsTypeOK'
    BY <1>0, <1>1, <1>3, <2>1, MoveOn, FitsType DEF TurnsInv
  <2>3. \A j \in Turn : turn[j].stage \in {"running", "ended", "adrift"}
                        => turn'[j].stage \in {"running", "ended", "adrift"}
    BY <2>1 DEF Moves
  <2> QED BY <1>0, <1>3, <2>2, <2>3, FitsStay DEF TurnsInv
<1> QED BY <1>2, <1>3 DEF DaemonStarted

\* What prepareTurnContext may hand to a turn: it shows all the unread traffic
\* of the card up to the sequence it covers.
LEMMA ContextFacts ==
  ASSUME StoreInv, NEW r \in Room, NEW ctx \in PreparedContext(r)
  PROVE  /\ ctx.seq \in Nat \cup {NoSeq} /\ ctx.shown \in SUBSET Nat
         /\ ctx.seq <= Len(log[r])
         /\ \A s \in owed[r][Card] :
              s > pruned[r] /\ s > cursor[r][Card] /\ s <= ctx.seq => s \in ctx.shown
<1> USE CardAssumption
<1>1. /\ Len(log[r]) \in Nat /\ pruned[r] \in Nat /\ pruned[r] <= Len(log[r])
      /\ owed[r][Card] \in SUBSET Nat
  BY DEF StoreInv, TypeOK, PrunedInLedger
<1>2. \A s \in owed[r][Card] : s > pruned[r] /\ s > cursor[r][Card] => s \in Pending(r, Card)
  BY DEF StoreInv, OwedVisible, Pending
<1>3. Pending(r, Card) \subseteq 1..Len(log[r]) /\ Expired(r, Card) \in SUBSET Nat
  BY DEF Pending, Expired
<1>4. CASE \E last \in Pending(r, Card) :
             ctx = [seq |-> last, shown |-> Prefix(r, Card, last) \cup Expired(r, Card)]
  <2>1. PICK last \in Pending(r, Card) :
           ctx = [seq |-> last, shown |-> Prefix(r, Card, last) \cup Expired(r, Card)]
    BY <1>4
  <2>2. /\ ctx.seq = last /\ ctx.shown = Prefix(r, Card, last) \cup Expired(r, Card)
        /\ last \in Nat /\ last <= Len(log[r])
    BY <1>1, <1>3, <2>1
  <2>3. \A s \in Pending(r, Card) : s <= last => s \in Prefix(r, Card, last)
    BY DEF Prefix
  <2>4. Prefix(r, Card, last) \in SUBSET Nat
    BY <1>3 DEF Prefix
  <2> QED BY <1>2, <1>3, <2>2, <2>3, <2>4
<1>5. CASE ctx = [seq |-> IF Expired(r, Card) # {} THEN pruned[r] ELSE NoSeq,
                  shown |-> Expired(r, Card)]
  <2>1. ctx.shown = Expired(r, Card) /\ (ctx.seq = pruned[r] \/ ctx.seq = NoSeq)
    BY <1>5
  <2> QED BY <1>1, <1>3, <2>1 DEF NoSeq
<1>6. CASE ctx = [seq |-> NoSeq, shown |-> {}]
  BY <1>1, <1>6 DEF NoSeq
<1> QED BY <1>4, <1>5, <1>6 DEF PreparedContext

\* A context is attached to a turn, the user's message posted behind it, and
\* a local provider launched: the reservation is what the context covers.
LEMMA AttachTurns ==
  ASSUME TurnsInv, NEW k \in Turn, Attach(k)
  PROVE  TurnsInv'
<1> USE DEF TurnsInv
<1> DEFINE joined == membership[Card] \in Live /\ phase = "open"
           R == membership[Card]
<1>0. /\ turn \in [Turn -> TurnRecord] /\ R \in Room \cup {NoRoom}
      /\ turn[k].stage = "preparing" /\ turn[k].gen = generation
      /\ Executing(k)
      /\ generation' = generation /\ unconfirmed' = unconfirmed
  BY CardAssumption DEF TurnsTypeOK, TurnRecord, StoreInv, TypeOK, Attach, IsCurrent
<1>1. PICK ctx \in IF joined THEN PreparedContext(R) ELSE {[seq |-> NoSeq, shown |-> {}]},
           stage \in {"attached", "running"} :
         /\ turn' = [turn EXCEPT ![k].stage = stage, ![k].room = R,
                                 ![k].seq = ctx.seq, ![k].shown = ctx.shown]
         /\ IF stage = "running"
            THEN Register(k, ctx.seq) /\ fifo' = Tail(fifo)
            ELSE UNCHANGED <<reservation, fifo>>
  <2> DEFINE Stages == IF turn[k].mode = "background" THEN {"attached"}
                       ELSE {"attached", "running"}
  <2>1. Stages \subseteq {"attached", "running"}
    OBVIOUS
  <2>2. \E ctx \in IF joined THEN PreparedContext(R) ELSE {[seq |-> NoSeq, shown |-> {}]} :
        \E stage \in Stages :
          /\ turn' = [turn EXCEPT ![k].stage = stage, ![k].room = R,
                                  ![k].seq = ctx.seq, ![k].shown = ctx.shown]
          /\ IF stage = "running"
             THEN Register(k, ctx.seq) /\ fifo' = Tail(fifo)
             ELSE UNCHANGED <<reservation, fifo>>
    <3>1. Attach(k)
      OBVIOUS
    <3> QED BY ONLY <3>1 DEF Attach
  <2> HIDE DEF Stages, R, joined
  <2> QED BY ONLY <2>1, <2>2
<1>2. StoreInv' /\ KeepsUnread
  <2>1. CASE joined /\ PostEvent(R, Card, {}) /\ UNCHANGED todos
    BY <2>1, CardAssumption, PostStore
  <2>2. CASE UNCHANGED vars
    BY <2>2, IdleStore
  <2> QED BY <2>1, <2>2 DEF Attach
<1>3. /\ ctx.seq \in Nat \cup {NoSeq} /\ ctx.shown \in SUBSET Nat
      /\ R \in Room =>
           /\ ctx.seq <= Len(log[R])
           /\ \A s \in owed[R][Card] :
                s > pruned[R] /\ s > cursor[R][Card] /\ s <= ctx.seq => s \in ctx.shown
  <2>1. CASE joined
    <3>1. R \in Room /\ ctx \in PreparedContext(R)
      BY <2>1 DEF Live
    <3> HIDE DEF R, joined
    <3> QED BY <3>1, ContextFacts
  <2>2. CASE ~joined
    <3>1. ctx.seq = NoSeq /\ ctx.shown = {}
      BY <2>2
    <3>2. R \in Room => Len(log[R]) \in Nat /\ owed[R][Card] \in SUBSET Nat
      BY CardAssumption DEF StoreInv, TypeOK
    <3> HIDE DEF R, joined
    <3> QED BY <3>1, <3>2 DEF NoSeq
  <2> QED BY <2>1, <2>2
<1> HIDE DEF R, joined
<1>4. turn'[k] = [turn[k] EXCEPT !.stage = stage, !.room = R,
                                 !.seq = ctx.seq, !.shown = ctx.shown]
  BY <1>0, <1>1
<1>5. /\ turn'[k] \in TurnRecord
      /\ turn'[k].stage = stage /\ turn'[k].gen = generation /\ turn'[k].room = R
      /\ turn'[k].seq = ctx.seq /\ turn'[k].shown = ctx.shown
  BY <1>0, <1>3, <1>4 DEF TurnRecord
<1>6. \A j \in Turn \ {k} : turn'[j] = turn[j]
  BY <1>0, <1>1
<1>7. /\ reservation' = IF stage = "running" /\ ctx.seq # NoSeq
                        THEN [turn |-> k, seq |-> ctx.seq] ELSE reservation
      /\ fifo' = IF stage = "running" THEN Tail(fifo) ELSE fifo
  BY <1>1 DEF Register
<1>8. fifo # <<>> /\ fifo[1] = k
  BY <1>0, FifoFacts DEF Executing, TurnsTypeOK
<1>9. TurnsTypeOK'
  <2>1. turn' \in [Turn -> TurnRecord]
    BY <1>0, <1>1, <1>5
  <2>2. fifo' \in Seq(Turn \cup {Stop})
    BY <1>7, <1>8, FifoFacts DEF TurnsTypeOK
  <2>3. reservation' \in [turn: Turn \cup {NoTurn}, seq: Nat \cup {NoSeq}]
    BY <1>3, <1>7 DEF TurnsTypeOK
  <2> QED BY <1>0, <2>1, <2>2, <2>3 DEF TurnsTypeOK, TurnRecord
<1>10. ShownCovers'
  <2> SUFFICES ASSUME NEW j \in Turn, NEW r \in Room, turn'[j].room = r
               PROVE  /\ r \in retired' \/ turn'[j].seq <= Len(log'[r])
                      /\ \A s \in owed'[r][Card] :
                           s > pruned'[r] /\ s > cursor'[r][Card] /\ s <= turn'[j].seq
                             => s \in turn'[j].shown
    BY DEF ShownCovers
  <2>1. turn'[j].seq \in Int
    BY <1>9 DEF TurnsTypeOK, NoSeq
  <2>2. /\ r \in retired \/ turn'[j].seq <= Len(log[r])
        /\ \A s \in owed[r][Card] :
             s > pruned[r] /\ s > cursor[r][Card] /\ s <= turn'[j].seq
               => s \in turn'[j].shown
    <3>1. CASE j = k
      BY <1>3, <1>5, <3>1
    <3>2. CASE j # k
      BY <1>6, <3>2 DEF ShownCovers
    <3> QED BY <3>1, <3>2
  <2> QED BY <1>2, <2>1, <2>2, CoversStay
<1>11. ReservationFits'
  <2>1. CASE stage = "running" /\ ctx.seq # NoSeq
    BY <1>5, <1>7, <2>1 DEF ReservationFits
  <2>2. CASE ~(stage = "running" /\ ctx.seq # NoSeq)
    <3>1. reservation' = reservation
      BY <1>7, <2>2
    <3>2. reservation.turn \in Turn => reservation.turn # k
      BY <1>0 DEF ReservationFits
    <3> QED BY <1>6, <3>1, <3>2 DEF ReservationFits
  <2> QED BY <2>1, <2>2
<1>12. NoneOrphaned'
  <2>1. \A j \in Launched' : \/ j \in Launched /\ turn'[j].gen = turn[j].gen
                             \/ turn'[j].gen = generation
    BY <1>5, <1>6 DEF Launched
  <2>2. \A j \in Turn : turn[j].stage = "queued" /\ turn[j].mode = "foreground"
                         => turn'[j].stage = "queued" /\ turn'[j].mode = "foreground"
    BY <1>0, <1>6
  <2>3. ~TearsDown(1)
    BY <1>0, <1>8, TurnAssumption DEF TearsDown
  <2>4. \/ fifo' = fifo
        \/ fifo # <<>> /\ ~TearsDown(1) /\ fifo' = Tail(fifo)
    BY <1>7, <1>8, <2>3
  <2> QED BY <1>0, <2>1, <2>2, <2>4, OrphanStay
<1>13. AdriftLost'
  BY <1>5, <1>6 DEF AdriftLost
<1> QED BY <1>2, <1>9, <1>10, <1>11, <1>12, <1>13

\* A provider accepts: the reservation is settled, and the store only learns
\* what has been shown.
LEMMA AcceptTurns ==
  ASSUME TurnsInv, NEW k \in Turn, Accept(k)
  PROVE  TurnsInv'
<1> USE DEF TurnsInv
<1>1. /\ k \in Launched /\ turn' = [turn EXCEPT ![k].stage = "accepted"]
      /\ reservation' = Nothing
      /\ UNCHANGED <<generation, fifo, unconfirmed>>
      /\ UNCHANGED <<membership, members, log, pruned, retired, todos,
                     roomFiles, inboxFiles, phase>>
  BY DEF Accept
<1>2. \/ cursor' = cursor
      \/ /\ membership[Card] \in Room
         /\ \E last \in Int : cursor' = [cursor EXCEPT ![membership[Card]][Card] =
                                           Larger(@, last)]
  <2>1. CASE cursor' = cursor
    BY <2>1
  <2>2. CASE Acknowledge(reservation.seq) /\ cursor' # cursor
    <3> DEFINE r == membership[Card]
               last == IF reservation.seq <= HeadSeq(r) THEN reservation.seq ELSE HeadSeq(r)
    <3>1. r \in Room /\ cursor' = [cursor EXCEPT ![r][Card] = Larger(@, last)]
      BY <2>2 DEF Acknowledge, Live
    <3>2. last \in Int
      BY <3>1 DEF TurnsTypeOK, NoSeq, HeadSeq, StoreInv, TypeOK
    <3> HIDE DEF last
    <3> QED BY <3>1, <3>2
  <2> QED BY <2>1, <2>2 DEF Accept
<1>3. \/ owed' = owed
      \/ /\ turn[k].room \in Room
         /\ owed' = [owed EXCEPT ![turn[k].room][Card] = @ \ turn[k].shown]
         /\ turn[k].shown \in SUBSET Nat
  BY DEF Accept, TurnsTypeOK
<1>4. StoreInv' /\ KeepsUnread
  <2>1. CASE cursor' = cursor /\ owed' = owed
    <3>1. UNCHANGED vars
      BY <1>1, <2>1 DEF vars
    <3> QED BY <3>1, IdleStore
  <2>2. CASE cursor' # cursor
    <3>1. PICK r \in Room, last \in Int : cursor' = [cursor EXCEPT ![r][Card] = Larger(@, last)]
      BY <1>2, <2>2
    <3>2. \E q \in Room, shown \in SUBSET Nat :
             \/ owed' = [owed EXCEPT ![q][Card] = @ \ shown]
             \/ owed' = owed
      BY <1>3, <3>1
    <3> QED BY <1>1, <3>1, <3>2, CardAssumption, ShowStore
  <2>3. CASE cursor' = cursor /\ owed' # owed
    <3>1. PICK q \in Room, shown \in SUBSET Nat :
             owed' = [owed EXCEPT ![q][Card] = @ \ shown]
      BY <1>3, <2>3
    <3>2. 0 \in Int
      OBVIOUS
    <3> QED BY <1>1, <2>3, <3>1, <3>2, CardAssumption, ShowStore
  <2> QED BY <2>1, <2>2, <2>3
<1>5. turn[k].stage \in {"running", "accepted"}
  BY <1>1 DEF Launched
<1>6. Moves(k) /\ turn'[k].stage = "accepted" /\ turn'[k].gen = turn[k].gen
  BY <1>1, StageOnly
<1>7. ShownCovers' /\ NoneOrphaned' /\ AdriftLost' /\ SameContexts /\ TurnsTypeOK'
  BY <1>1, <1>4, <1>5, <1>6, MoveOn, FitsType
<1>8. ReservationFits'
  BY <1>1, <1>7, FitsStay
<1> QED BY <1>4, <1>7, <1>8

\* A launched turn fails, or nobody knows of it any more, or it is done and
\* its text shared with the room.
LEMMA EndTurns ==
  ASSUME TurnsInv, NEW k \in Turn, Fail(k) \/ LoseTrack(k) \/ Finish(k)
  PROVE  TurnsInv'
<1> USE DEF TurnsInv
<1>1. /\ k \in Launched
      /\ turn' = Ended({k}) \/ Drift(k)
      /\ reservation' = Nothing \/ reservation' = reservation
      /\ UNCHANGED <<generation, fifo, unconfirmed>>
      /\ UNCHANGED vars \/ Post(Card, {})
  BY DEF Fail, LoseTrack, Finish
<1>2. StoreInv' /\ KeepsUnread
  <2>1. CASE UNCHANGED vars
    BY <2>1, IdleStore
  <2>2. CASE Post(Card, {})
    BY <2>2, CardAssumption, PostStore DEF Post
  <2> QED BY <1>1, <2>1, <2>2
<1>3. turn[k].stage \in {"running", "accepted"}
  BY <1>1 DEF Launched
<1>4. /\ Moves(k)
      /\ turn'[k].stage \in {"ended", "adrift"}
      /\ turn'[k].stage = "adrift" => turn'[k].job = "lost"
  BY <1>1, EndedOnly, DriftOnly
<1>5. ShownCovers' /\ NoneOrphaned' /\ AdriftLost' /\ SameContexts /\ TurnsTypeOK'
  BY <1>1, <1>2, <1>3, <1>4, MoveOn, FitsType
<1>6. \A j \in Turn : turn[j].stage \in {"running", "ended", "adrift"}
                      => turn'[j].stage \in {"running", "ended", "adrift"}
  BY <1>4 DEF Moves
<1>7. ReservationFits'
  BY <1>1, <1>5, <1>6, FitsStay
<1> QED BY <1>2, <1>5, <1>7

\* A step that leaves the turns alone.
LEMMA OthersTurns ==
  ASSUME TurnsInv, StoreInv', KeepsUnread, UNCHANGED turnVars
  PROVE  TurnsInv'
<1> USE DEF TurnsInv, turnVars
<1>1. TurnsTypeOK' /\ NoneOrphaned' /\ ReservationFits' /\ AdriftLost'
  BY DEF TurnsTypeOK, NoneOrphaned, ReservationFits, Launched, IsCurrent, AdriftLost
<1>2. SameContexts
  BY DEF SameContexts
<1>3. ShownCovers'
  BY <1>2, CoversAll
<1> QED BY <1>1, <1>3

\* Initially no turn has a context, and nothing is reserved.
LEMMA TurnsInitInv == TurnsInit => TurnsInv
<1> SUFFICES ASSUME TurnsInit PROVE TurnsInv
  OBVIOUS
<1>1. StoreInv
  <2>1. TypeOK /\ PrunedInLedger
    BY InitInv DEF TurnsInit, IInv
  <2> QED BY <2>1 DEF TurnsInit, Init, StoreInv, OwedVisible, RetiredAreGone
<1>2. \A k \in Turn : turn[k] = Unsent
  BY DEF TurnsInit
<1>3. TurnsTypeOK
  <2>1. Unsent \in TurnRecord
    BY DEF Unsent, TurnRecord
  <2> QED BY <2>1 DEF TurnsInit, TurnsTypeOK, TurnRecord, Nothing
<1>4. NoneOrphaned /\ AdriftLost
  BY <1>2 DEF NoneOrphaned, AdriftLost, Launched, Unsent
<1>5. ShownCovers
  BY <1>2, NoRoomAssumption DEF ShownCovers, Unsent
<1>6. ReservationFits
  BY TurnAssumption DEF TurnsInit, ReservationFits, Nothing
<1> QED BY <1>1, <1>3, <1>4, <1>5, <1>6 DEF TurnsInv

\* Every step of the turns and of the store preserves the invariant.
LEMMA TurnsNextInv == TurnsInv /\ [TurnsNext]_allVars => TurnsInv'
<1> SUFFICES ASSUME TurnsInv, [TurnsNext]_allVars PROVE TurnsInv'
  OBVIOUS
<1>1. CASE StoreStep
  <2>1. StoreInv' /\ KeepsUnread
    BY <1>1, StepStore DEF TurnsInv
  <2> QED BY <1>1, <2>1, OthersTurns DEF StoreStep
<1>2. CASE UNCHANGED allVars
  <2>1. UNCHANGED vars /\ UNCHANGED turnVars
    BY <1>2 DEF allVars
  <2>2. StoreInv' /\ KeepsUnread
    BY <2>1, IdleStore DEF TurnsInv
  <2> QED BY <2>1, <2>2, OthersTurns
<1>3. CASE \/ RequestStop
           \/ ExecuteStop
           \/ \E k \in Turn, mode \in {"foreground", "background"} : Send(k, mode)
           \/ \E k \in Turn : ReplaceExecution(k)
  BY <1>3, RequestTurns, ExecuteTurns, SendTurns, ReplaceTurns
<1>4. CASE \/ \E k \in Turn : StartBackground(k)
           \/ \E k \in Turn : AbandonPreparation(k)
           \/ \E k \in Turn : Attach(k)
           \/ \E k \in Turn : DaemonStarted(k)
  BY <1>4, PrepareTurns, AttachTurns, StartedTurns
<1>5. CASE \E k \in Turn : Accept(k) \/ Fail(k) \/ LoseTrack(k) \/ Finish(k)
  BY <1>5, AcceptTurns, EndTurns
<1> QED BY <1>1, <1>2, <1>3, <1>4, <1>5 DEF TurnsNext

\* The invariant holds in every reachable state of the turns.
LEMMA TurnsInvariance == TurnsSpec => []TurnsInv
  BY TurnsInitInv, TurnsNextInv, PTL DEF TurnsSpec

\* For any number of sends and stops, in any order of arrival, and whatever
\* the other tiles do meanwhile: a turn at work that is no longer current is
\* about to be torn down, or a stop has reported that it could not do so, or
\* its daemon job was lost by a failed request, a stream or a poll that ended.
THEOREM StopsCorrect == TurnsSpec => []StopIsFinal
<1>1. TurnsInv => StopIsFinal
  <2> SUFFICES ASSUME TurnsInv PROVE StopIsFinal
    OBVIOUS
  <2>1. ASSUME NEW k \in AtWork
        PROVE  IsCurrent(k) \/ k \in unconfirmed \/ turn[k].job = "lost" \/ StopQueued
    <3>1. CASE k \in Launched
      BY <3>1 DEF TurnsInv, NoneOrphaned, StopQueued
    <3>2. CASE turn[k].stage = "adrift"
      BY <2>1, <3>2 DEF TurnsInv, AdriftLost, AtWork, Launched
    <3> QED BY <2>1, <3>1, <3>2 DEF AtWork
  <2> QED BY <2>1 DEF TurnsInv, StopIsFinal, NoOrphanTurn
<1> QED BY <1>1, TurnsInvariance, PTL

-----------------------------------------------------------------------------
\* Only the acceptance of turn k itself settles a reservation of k while
\* making k an accepted turn.
LEMMA SettlesOwn ==
  ASSUME TurnsInv, [TurnsNext]_allVars, NEW k \in Turn,
         reservation.turn = k, turn'[k].stage = "accepted"
  PROVE  Accept(k) /\ reservation # Nothing
<1> USE DEF TurnsInv
<1>1. /\ turn[k].stage \in {"running", "ended", "adrift"}
      /\ turn \in [Turn -> TurnRecord]
      /\ reservation # Nothing
  BY TurnAssumption DEF ReservationFits, TurnsTypeOK, TurnRecord, Nothing
<1>2. ASSUME NEW j \in Turn, Moves(j), j = k => turn'[j].stage # "accepted"
      PROVE  FALSE
  BY <1>1, <1>2 DEF Moves
<1>3. ASSUME turn' = turn PROVE FALSE
  BY <1>1, <1>3
<1>4. ASSUME NEW ks \in SUBSET Turn, turn' = Ended(ks) PROVE FALSE
  BY <1>1, <1>4, EndedFacts
<1>5. ASSUME NEW j \in Turn, ReplaceExecution(j) PROVE FALSE
  <2>0. PICK left \in SUBSET Launched :
           \/ turn' = [Ended(Launched) EXCEPT ![j].stage = "preparing"]
           \/ turn' = Ended({j} \cup (Launched \ left))
    BY <1>5 DEF ReplaceExecution
  <2>1. CASE turn' = Ended({j} \cup (Launched \ left))
    <3>1. {j} \cup (Launched \ left) \in SUBSET Turn
      BY DEF Launched
    <3> QED BY <1>4, <2>1, <3>1
  <2>2. CASE turn' = [Ended(Launched) EXCEPT ![j].stage = "preparing"]
    <3> DEFINE rest == Ended(Launched)
    <3>1. Launched \in SUBSET Turn
      BY DEF Launched
    <3>2. rest \in [Turn -> TurnRecord] /\ rest[k].stage # "accepted"
      BY <1>1, <3>1, EndedFacts
    <3> HIDE DEF rest
    <3>3. turn' = [rest EXCEPT ![j].stage = "preparing"]
      BY <2>2 DEF rest
    <3>4. turn'[k] = IF k = j THEN [rest[k] EXCEPT !.stage = "preparing"] ELSE rest[k]
      BY <3>2, <3>3
    <3>5. [rest[k] EXCEPT !.stage = "preparing"].stage = "preparing"
      BY <3>2 DEF TurnRecord
    <3> QED BY <3>2, <3>4, <3>5
  <2> QED BY <2>0, <2>1, <2>2
<1>6. ASSUME NEW j \in Turn, NEW mode, Send(j, mode) PROVE FALSE
  <2>1. /\ turn[j].stage = "unsent"
        /\ turn' = [turn EXCEPT ![j].stage = "queued", ![j].mode = mode,
                                ![j].gen = generation']
    BY <1>6 DEF Send
  <2>2. k # j
    BY <1>1, <2>1
  <2> QED BY <1>1, <2>1, <2>2
<1>7. ASSUME NEW j \in Turn, Attach(j) PROVE FALSE
  <2>1. turn[j].stage = "preparing" /\ \A i \in Turn \ {j} : turn'[i] = turn[i]
    BY <1>1, <1>7 DEF Attach
  <2> QED BY <1>1, <2>1
<1>8. ASSUME NEW j \in Turn, j # k, Accept(j) PROVE FALSE
  <2>1. Moves(j)
    BY <1>8, StageOnly DEF Accept
  <2> QED BY <1>2, <1>8, <2>1
<1>9. ASSUME NEW j \in Turn, StartBackground(j) PROVE FALSE
  <2>1. Moves(j) /\ turn'[j].stage = "preparing"
    BY <1>9, StageOnly DEF StartBackground
  <2> QED BY <1>2, <2>1
<1>10. ASSUME NEW j \in Turn, turn' = Ended({j}) \/ Drift(j) PROVE FALSE
  <2>1. Moves(j) /\ turn'[j].stage \in {"ended", "adrift"}
    BY <1>10, EndedOnly, DriftOnly
  <2> QED BY <1>2, <2>1
<1>11. ASSUME NEW j \in Turn, DaemonStarted(j) PROVE FALSE
  <2>1. CASE turn' = [turn EXCEPT ![j].stage = "running", ![j].job = "known"]
    <3>1. Moves(j) /\ turn'[j].stage = "running"
      BY <2>1, StartedOnly
    <3> QED BY <1>2, <3>1
  <2> QED BY <1>10, <1>11, <2>1 DEF DaemonStarted
<1>12. ASSUME NEW j \in Turn,
              AbandonPreparation(j) \/ Fail(j) \/ LoseTrack(j) \/ Finish(j)
       PROVE  FALSE
  BY <1>10, <1>12 DEF AbandonPreparation, Fail, LoseTrack, Finish
<1>13. ASSUME ExecuteStop PROVE FALSE
  BY <1>4, <1>13 DEF ExecuteStop, Launched
<1>14. ASSUME StoreStep \/ RequestStop \/ UNCHANGED allVars PROVE FALSE
  BY <1>3, <1>14 DEF StoreStep, RequestStop, turnVars, allVars
<1> QED
  BY <1>1, <1>5, <1>6, <1>7, <1>8, <1>9, <1>11, <1>12, <1>13, <1>14 DEF TurnsNext

\* What the acceptance of a turn acknowledges in the room of its context has
\* been shown to it.
LEMMA OwnStep ==
  ASSUME TurnsInv, [TurnsNext]_allVars, NEW k \in Turn,
         reservation.turn = k, turn'[k].stage = "accepted",
         membership[Card] = turn[k].room
  PROVE  Skipped' \subseteq Skipped
<1> USE DEF TurnsInv
<1> DEFINE r == membership[Card]
<1>1. Accept(k) /\ reservation # Nothing
  BY SettlesOwn
<1>2. /\ reservation.seq = turn[k].seq
      /\ membership' = membership /\ pruned' = pruned /\ log' = log
  BY <1>1 DEF ReservationFits, Accept
<1> SUFFICES ASSUME r \in Room, NEW s \in owed'[r][Card],
                    s > pruned[r], s <= cursor'[r][Card]
             PROVE  s \in owed[r][Card] /\ s <= cursor[r][Card]
  BY <1>2 DEF Skipped
<1>3. owed' = [owed EXCEPT ![r][Card] = @ \ turn[k].shown]
  BY <1>1, NoRoomAssumption DEF Accept
<1>4. s \in owed[r][Card] /\ s \notin turn[k].shown
  BY <1>3, CardAssumption DEF StoreInv, TypeOK
<1>5. /\ s \in Nat /\ turn[k].seq \in Int
      /\ cursor[r][Card] \in Nat /\ HeadSeq(r) \in Nat
  BY <1>4, CardAssumption DEF StoreInv, TypeOK, TurnsTypeOK, NoSeq, HeadSeq
<1>6. s > cursor[r][Card] => ~(s <= turn[k].seq)
  BY <1>4 DEF ShownCovers
<1> DEFINE last == IF turn[k].seq <= HeadSeq(r) THEN turn[k].seq ELSE HeadSeq(r)
<1>7. \/ cursor' = cursor
      \/ cursor' = [cursor EXCEPT ![r][Card] = Larger(@, last)]
  BY <1>1, <1>2 DEF Accept, Acknowledge
<1>8. last <= turn[k].seq /\ last \in Int
  BY <1>5
<1>9. \/ cursor'[r][Card] = cursor[r][Card]
      \/ cursor'[r][Card] = last
  BY <1>7, CardAssumption DEF StoreInv, TypeOK, Larger
<1> HIDE DEF last
<1> QED BY <1>4, <1>5, <1>6, <1>8, <1>9

\* For any rooms, peers and turns: a turn that settles its own reservation in
\* the room its context came from acknowledges nothing it was not shown.
THEOREM ReservationsCorrect == TurnsSpec => OwnReservationIsSound
<1> DEFINE Sound == \A k \in Turn :
                       /\ reservation.turn = k
                       /\ reservation'.turn = NoTurn
                       /\ turn'[k].stage = "accepted"
                       /\ \A j \in Turn \ {k} : turn'[j] = turn[j]
                       /\ membership[Card] = turn[k].room
                       => Skipped' \subseteq Skipped
<1>1. TurnsInv /\ [TurnsNext]_allVars => [Sound]_allVars
  BY OwnStep
<1>2. [][Sound]_allVars <=> OwnReservationIsSound
  BY DEF OwnReservationIsSound
<1> HIDE DEF Sound
<1> QED BY <1>1, <1>2, TurnsInvariance, PTL DEF TurnsSpec
=============================================================================
