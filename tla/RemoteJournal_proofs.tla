------------------------ MODULE RemoteJournal_proofs ------------------------
(***************************************************************************)
(* The journal properties of RemoteJournal, for every set of paths, batch  *)
(* size and table size.                                                    *)
(***************************************************************************)
EXTENDS RemoteJournal, TLAPS

\* The rows append_event writes are events.
LEMMA NewRowsAreEvents ==
    /\ \A kind \in PathKinds, p \in Paths :
         [kind |-> kind, path |-> p, dest |-> NoPath] \in Event
    /\ \A p, q \in Paths : [kind |-> "move", path |-> p, dest |-> q] \in Event
    /\ [kind |-> "rescan-required", path |-> AnyPath, dest |-> NoPath] \in Event
  BY DEF Event, PathKinds

\* _merge_event_kinds stays within the kinds that may be coalesced.
LEMMA MergedKindType ==
    \A previous, current \in PathKinds : MergedKind(previous, current) \in PathKinds
  BY DEF MergedKind, PathKinds

\* Only a path event has a coalescible kind: its destination is empty.
LEMMA PathEventShape ==
    \A e \in Event : e.kind \in PathKinds => e.dest = NoPath /\ e.path \in Paths
  BY DEF Event, PathKinds

\* What one append may do to the table: rewrite one unprotected row about p in
\* place, or add one row at the end; either way some unprotected row touches p.
LEMMA AppendPathEffect ==
    ASSUME TypeOK, WatermarkOrder, NEW kind \in PathKinds, NEW p \in Paths,
           AppendPathEvent(kind, p)
    PROVE  /\ events' \in Seq(Event)
           /\ Len(events') >= Len(events)
           /\ \A i \in 1..delivered : events'[i] = events[i]
           /\ \A i \in 1..Len(events), x \in Paths :
                Touches(events[i], x) => Touches(events'[i], x)
           /\ \E i \in (delivered + 1)..Len(events') : Touches(events'[i], p)
<1> USE DEF TypeOK, WatermarkOrder
<1>1. CASE \E i \in RowsAbout(p) :
             /\ IsNewest(i, RowsAbout(p))
             /\ events[i].kind \in PathKinds
             /\ events' = [events EXCEPT ![i] =
                  [kind |-> MergedKind(events[i].kind, kind), path |-> p, dest |-> NoPath]]
  <2>1. PICK i \in RowsAbout(p) :
             /\ events[i].kind \in PathKinds
             /\ events' = [events EXCEPT ![i] =
                  [kind |-> MergedKind(events[i].kind, kind), path |-> p, dest |-> NoPath]]
    BY <1>1
  <2>2. i \in 1..Len(events) /\ i > delivered /\ (events[i].path = p \/ events[i].dest = p)
    BY DEF RowsAbout, ProtectedSequence, LargerOf
  <2> DEFINE row == [kind |-> MergedKind(events[i].kind, kind), path |-> p, dest |-> NoPath]
  <2>3. row \in Event
    BY <2>1, MergedKindType, NewRowsAreEvents
  <2>4. events[i] \in Event /\ events[i].dest = NoPath
    BY <2>1, <2>2, PathEventShape
  <2>5. events[i].path = p
    BY <2>2, <2>4, PathsAssumption
  <2>6. /\ events' \in Seq(Event)
        /\ Len(events') = Len(events)
        /\ events'[i] = row
        /\ \A j \in 1..Len(events) : j # i => events'[j] = events[j]
    BY <2>1, <2>2, <2>3
  <2>7. \A x \in Paths : Touches(events[i], x) => Touches(row, x)
    BY <2>1, <2>4, <2>5, PathsAssumption DEF Touches, PathKinds
  <2>8. Touches(row, p)
    BY DEF Touches
  <2> QED
    BY <2>2, <2>6, <2>7, <2>8
<1>2. CASE events' = Append(events, [kind |-> kind, path |-> p, dest |-> NoPath])
  <2> DEFINE row == [kind |-> kind, path |-> p, dest |-> NoPath]
  <2>1. row \in Event
    BY NewRowsAreEvents
  <2>2. /\ events' \in Seq(Event)
        /\ Len(events') = Len(events) + 1
        /\ events'[Len(events) + 1] = row
        /\ \A j \in 1..Len(events) : events'[j] = events[j]
    BY <1>2, <2>1
  <2>3. Touches(row, p)
    BY DEF Touches
  <2> QED
    BY <2>2, <2>3
<1> QED
  BY <1>1, <1>2 DEF AppendPathEvent

\* The same for a move: one new row, which touches both ends.
LEMMA AppendMoveEffect ==
    ASSUME TypeOK, WatermarkOrder, NEW p \in Paths, NEW q \in Paths, AppendMove(p, q)
    PROVE  /\ events' \in Seq(Event)
           /\ Len(events') >= Len(events)
           /\ \A i \in 1..delivered : events'[i] = events[i]
           /\ \A i \in 1..Len(events), x \in Paths :
                Touches(events[i], x) => Touches(events'[i], x)
           /\ \E i \in (delivered + 1)..Len(events') :
                Touches(events'[i], p) /\ Touches(events'[i], q)
<1> USE DEF TypeOK, WatermarkOrder
<1> DEFINE row == [kind |-> "move", path |-> p, dest |-> q]
<1>1. row \in Event
  BY NewRowsAreEvents
<1>2. /\ events' \in Seq(Event)
      /\ Len(events') = Len(events) + 1
      /\ events'[Len(events) + 1] = row
      /\ \A j \in 1..Len(events) : events'[j] = events[j]
  BY <1>1 DEF AppendMove
<1>3. Touches(row, p) /\ Touches(row, q)
  BY DEF Touches
<1> QED
  BY <1>2, <1>3

\* The same for a rescan: an unprotected row touches every path.
LEMMA AppendRescanEffect ==
    ASSUME TypeOK, WatermarkOrder, AppendRescan
    PROVE  /\ events' \in Seq(Event)
           /\ Len(events') >= Len(events)
           /\ \A i \in 1..delivered : events'[i] = events[i]
           /\ \A i \in 1..Len(events), x \in Paths :
                Touches(events[i], x) => Touches(events'[i], x)
           /\ \E i \in (delivered + 1)..Len(events') :
                \A x \in Paths : Touches(events'[i], x)
<1> USE DEF TypeOK, WatermarkOrder
<1>1. CASE RescanRows # {} /\ UNCHANGED events
  <2>1. PICK i \in RescanRows : TRUE
    BY <1>1
  <2>2. i \in 1..Len(events) /\ i > delivered /\ events[i].kind = "rescan-required"
    BY <2>1 DEF RescanRows, ProtectedSequence, LargerOf
  <2>3. \A x \in Paths : Touches(events[i], x)
    BY <2>2 DEF Touches
  <2> QED
    BY <1>1, <2>2, <2>3
<1>2. CASE events' = Append(events,
             [kind |-> "rescan-required", path |-> AnyPath, dest |-> NoPath])
  <2> DEFINE row == [kind |-> "rescan-required", path |-> AnyPath, dest |-> NoPath]
  <2>1. row \in Event
    BY NewRowsAreEvents
  <2>2. /\ events' \in Seq(Event)
        /\ Len(events') = Len(events) + 1
        /\ events'[Len(events) + 1] = row
        /\ \A j \in 1..Len(events) : events'[j] = events[j]
    BY <1>2, <2>1
  <2>3. \A x \in Paths : Touches(events'[Len(events) + 1], x)
    BY <2>2 DEF Touches
  <2> HIDE DEF row
  <2>4. Len(events) \in Nat /\ delivered <= Len(events) /\ delivered \in Nat
    OBVIOUS
  <2>5. Len(events) + 1 \in (delivered + 1)..Len(events')
    BY <2>2, <2>4
  <2>6. \E i \in (delivered + 1)..Len(events') : \A x \in Paths : Touches(events'[i], x)
    BY <2>3, <2>5
  <2>7. /\ \A i \in 1..delivered : events'[i] = events[i]
        /\ \A i \in 1..Len(events), x \in Paths :
             Touches(events[i], x) => Touches(events'[i], x)
    BY <2>2, <2>4
  <2> QED
    BY <2>2, <2>4, <2>6, <2>7
<1> QED
  BY <1>1, <1>2 DEF AppendRescan

-----------------------------------------------------------------------------
\* Any step of the watcher keeps the invariant, provided that it leaves the
\* delivered rows alone, keeps what rows touch, and covers what it takes from
\* `changed' by a row that was not delivered.
LEMMA WatcherStep ==
    ASSUME JournalInv,
           UNCHANGED <<acked, delivered, imported, localAck, cycle, stream, lastAck,
                       unread, rejected>>,
           changed' \subseteq changed,
           events' \in Seq(Event),
           Len(events') >= Len(events),
           \A i \in 1..delivered : events'[i] = events[i],
           \A i \in 1..Len(events), x \in Paths :
               Touches(events[i], x) => Touches(events'[i], x),
           \A x \in changed \ changed' :
               \E i \in (delivered + 1)..Len(events') : Touches(events'[i], x)
    PROVE  JournalInv'
<1> USE DEF JournalInv
<1>0. /\ localAck \in Nat /\ delivered \in Nat /\ localAck <= delivered
      /\ Len(events) \in Nat /\ Len(events') \in Nat /\ Len(events) <= Len(events')
  BY DEF TypeOK, WatermarkOrder
<1>1. TypeOK' /\ NeverRejected'
  BY DEF TypeOK, NeverRejected
<1>2. WatermarkOrder'
  BY DEF TypeOK, WatermarkOrder
<1>3. NoGapAboveWatermark'
  BY DEF NoGapAboveWatermark
<1>4. NoChangeLost'
  <2>1. SUFFICES ASSUME NEW p \in unread, p \notin changed'
                 PROVE  \E i \in (localAck + 1)..Len(events') : Touches(events'[i], p)
    BY DEF NoChangeLost
  <2>2. p \in Paths
    BY DEF TypeOK
  <2>3. CASE p \in changed
    <3>1. PICK i \in (delivered + 1)..Len(events') : Touches(events'[i], p)
      BY <2>1, <2>3
    <3>2. i \in (localAck + 1)..Len(events')
      BY <1>0
    <3> QED
      BY <3>1, <3>2
  <2>4. CASE p \notin changed
    BY <2>2, <2>4 DEF TypeOK, WatermarkOrder, NoChangeLost
  <2> QED
    BY <2>3, <2>4
<1>5. CopiesAgree'
  BY DEF CopiesAgree
<1>6. FetchComplete' /\ CaptureComplete' /\ StreamComplete'
  BY DEF FetchComplete, CaptureComplete, StreamComplete, HasRow
<1>7. UnreadAboveCapture'
  <2>1. SUFFICES ASSUME cycle.pc = "read", NEW p \in unread, p \notin changed'
                 PROVE  \E i \in (localAck + 1)..Len(events') :
                           /\ Touches(events'[i], p)
                           /\ \A r \in cycle.rows : r.seq < i
    BY DEF UnreadAboveCapture
  <2>2. p \in Paths
    BY DEF TypeOK
  <2>3. CASE p \in changed
    <3>1. PICK i \in (delivered + 1)..Len(events') : Touches(events'[i], p)
      BY <2>1, <2>3
    <3>2. \A r \in cycle.rows : r.seq \in 1..delivered
      BY DEF CopiesAgree
    <3>3. i \in (localAck + 1)..Len(events') /\ \A r \in cycle.rows : r.seq < i
      BY <1>0, <3>2
    <3> QED
      BY <3>1, <3>3
  <2>4. CASE p \notin changed
    <3>1. PICK i \in (localAck + 1)..Len(events) :
              Touches(events[i], p) /\ \A r \in cycle.rows : r.seq < i
      BY <2>1, <2>4 DEF UnreadAboveCapture
    <3>2. i \in 1..Len(events) /\ i \in (localAck + 1)..Len(events')
      BY <1>0
    <3>3. Touches(events'[i], p)
      BY <2>2, <3>1, <3>2
    <3> QED
      BY <3>1, <3>2, <3>3
  <2> QED
    BY <2>3, <2>4
<1> QED
  BY <1>1, <1>2, <1>3, <1>4, <1>5, <1>6, <1>7

\* One read transaction: the delivered watermark may rise to the batch's last
\* row, and the rows read are rows of the table up to there.
LEMMA BatchEffect ==
    ASSUME JournalInv, NEW cursor \in Nat, cursor < Len(events), Deliver(cursor)
    PROVE  /\ BatchEnd(cursor) \in Nat
           /\ cursor < BatchEnd(cursor)
           /\ BatchEnd(cursor) <= Len(events)
           /\ delivered' \in Nat
           /\ delivered <= delivered'
           /\ BatchEnd(cursor) <= delivered'
           /\ delivered' <= Len(events)
           /\ RowsBetween(cursor + 1, BatchEnd(cursor)) \subseteq Row
           /\ \A r \in RowsBetween(cursor + 1, BatchEnd(cursor)) :
                  /\ r.seq \in 1..BatchEnd(cursor)
                  /\ r.event = events[r.seq]
           /\ \A n \in (cursor + 1)..BatchEnd(cursor) :
                  HasRow(RowsBetween(cursor + 1, BatchEnd(cursor)), n)
<1> USE DEF JournalInv, TypeOK, WatermarkOrder
<1>1. /\ BatchEnd(cursor) \in Nat
      /\ cursor < BatchEnd(cursor)
      /\ BatchEnd(cursor) <= Len(events)
  BY BatchAssumption DEF BatchEnd
<1>2. /\ delivered' \in Nat
      /\ delivered <= delivered'
      /\ BatchEnd(cursor) <= delivered'
      /\ delivered' <= Len(events)
  BY <1>1 DEF Deliver, LargerOf
<1>3. \A i \in (cursor + 1)..BatchEnd(cursor) : i \in Nat /\ i \in 1..Len(events)
  BY <1>1
<1>4. RowsBetween(cursor + 1, BatchEnd(cursor)) \subseteq Row
  BY <1>3 DEF RowsBetween, Row
<1>5. \A r \in RowsBetween(cursor + 1, BatchEnd(cursor)) :
         r.seq \in 1..BatchEnd(cursor) /\ r.event = events[r.seq]
  BY <1>1, <1>3 DEF RowsBetween
<1>6. \A n \in (cursor + 1)..BatchEnd(cursor) :
         HasRow(RowsBetween(cursor + 1, BatchEnd(cursor)), n)
  <2> SUFFICES ASSUME NEW n \in (cursor + 1)..BatchEnd(cursor)
               PROVE  HasRow(RowsBetween(cursor + 1, BatchEnd(cursor)), n)
    OBVIOUS
  <2> DEFINE row == [seq |-> n, event |-> events[n]]
  <2>1. row \in RowsBetween(cursor + 1, BatchEnd(cursor)) /\ row.seq = n
    BY DEF RowsBetween
  <2> QED
    BY <2>1 DEF HasRow
<1> QED
  BY <1>1, <1>2, <1>4, <1>5, <1>6

-----------------------------------------------------------------------------
\* The journal invariant holds initially.
LEMMA InitInv == Init => JournalInv
<1> SUFFICES ASSUME Init PROVE JournalInv
  OBVIOUS
<1> USE DEF Init, Idle, NoStream
<1>1. TypeOK
  <2>1. events \in Seq(Event)
    BY DEF Init
  <2> QED
    BY <2>1 DEF TypeOK
<1>2. NeverRejected /\ WatermarkOrder
  BY DEF NeverRejected, WatermarkOrder
<1>3. NoGapAboveWatermark /\ NoChangeLost /\ CopiesAgree
  BY DEF NoGapAboveWatermark, NoChangeLost, CopiesAgree
<1>4. FetchComplete /\ CaptureComplete /\ UnreadAboveCapture
  BY DEF FetchComplete, CaptureComplete, UnreadAboveCapture
<1>5. StreamComplete
  BY DEF StreamComplete, HasRow
<1> QED
  BY <1>1, <1>2, <1>3, <1>4, <1>5 DEF JournalInv

\* Steps on the remote host: a change on disk and what the watcher makes of it.
LEMMA RemoteSteps ==
    ASSUME JournalInv,
           \/ \E p \in Paths : DiskChange(p)
           \/ \E p \in Paths, kind \in PathKinds : WatchPath(kind, p)
           \/ \E p, q \in Paths : WatchMove(p, q)
           \/ WatchOverflow
    PROVE  JournalInv'
<1>0. TypeOK /\ WatermarkOrder
  BY DEF JournalInv
<1>1. ASSUME NEW p \in Paths, DiskChange(p) PROVE JournalInv'
  <2> USE <1>1 DEF JournalInv, DiskChange
  <2>1. TypeOK' /\ NeverRejected' /\ WatermarkOrder'
    BY DEF TypeOK, NeverRejected, WatermarkOrder
  <2>2. NoGapAboveWatermark' /\ CopiesAgree'
    BY DEF NoGapAboveWatermark, CopiesAgree
  <2>3. FetchComplete' /\ CaptureComplete' /\ StreamComplete'
    BY DEF FetchComplete, CaptureComplete, StreamComplete, HasRow
  <2>4. NoChangeLost'
    BY DEF NoChangeLost
  <2>5. UnreadAboveCapture'
    BY DEF UnreadAboveCapture
  <2> QED
    BY <2>1, <2>2, <2>3, <2>4, <2>5
<1>2. ASSUME NEW p \in Paths, NEW kind \in PathKinds, WatchPath(kind, p)
      PROVE JournalInv'
  <2>1. AppendPathEvent(kind, p) /\ changed' = changed \ {p}
        /\ UNCHANGED <<acked, delivered, imported, localAck, cycle, stream, lastAck,
                       unread, rejected>>
    BY <1>2 DEF WatchPath
  <2> QED
    BY <1>0, <2>1, AppendPathEffect, WatcherStep
<1>3. ASSUME NEW p \in Paths, NEW q \in Paths, WatchMove(p, q) PROVE JournalInv'
  <2>1. AppendMove(p, q) /\ changed' = changed \ {p, q}
        /\ UNCHANGED <<acked, delivered, imported, localAck, cycle, stream, lastAck,
                       unread, rejected>>
    BY <1>3 DEF WatchMove
  <2> QED
    BY <1>0, <2>1, AppendMoveEffect, WatcherStep
<1>4. ASSUME WatchOverflow PROVE JournalInv'
  <2>1. AppendRescan /\ changed' = {}
        /\ UNCHANGED <<acked, delivered, imported, localAck, cycle, stream, lastAck,
                       unread, rejected>>
    BY <1>4 DEF WatchOverflow
  <2>2. changed \subseteq Paths
    BY <1>0 DEF TypeOK
  <2> QED
    BY <1>0, <2>1, <2>2, AppendRescanEffect, WatcherStep
<1> QED
  BY <1>1, <1>2, <1>3, <1>4

\* Steps of the engine's cycle.
LEMMA CycleSteps ==
    ASSUME JournalInv,
           \/ StartCycle \/ FetchBatch \/ FetchDone \/ RecordCycle \/ CapturePending
           \/ ReadDirty \/ Commit \/ CommitRequeued \/ AcknowledgeRemote \/ CycleFails
    PROVE  JournalInv'
<1> USE DEF JournalInv
<1>0. /\ localAck \in Nat /\ delivered \in Nat /\ acked \in Nat /\ lastAck \in Nat
      /\ Len(events) \in Nat
      /\ acked <= localAck /\ localAck <= delivered /\ delivered <= Len(events)
      /\ lastAck <= localAck
      /\ cycle = [pc |-> cycle.pc, cursor |-> cycle.cursor, rows |-> cycle.rows]
      /\ cycle.cursor \in Nat /\ cycle.rows \subseteq Row
      /\ \A r \in Row : r.seq \in Nat
  BY DEF TypeOK, WatermarkOrder, Row
\* Steps that only move the cycle's program counter back to idle.
<1>1. ASSUME cycle' = Idle,
             UNCHANGED <<changed, events, acked, delivered, imported, localAck, stream,
                         lastAck, unread, rejected>>
      PROVE  JournalInv'
  <2> USE <1>1 DEF Idle
  <2>1. TypeOK' /\ NeverRejected' /\ WatermarkOrder'
    BY DEF TypeOK, NeverRejected, WatermarkOrder
  <2>2. NoGapAboveWatermark' /\ CopiesAgree' /\ NoChangeLost'
    BY DEF NoGapAboveWatermark, CopiesAgree, NoChangeLost
  <2>3. FetchComplete' /\ CaptureComplete' /\ StreamComplete' /\ UnreadAboveCapture'
    BY DEF FetchComplete, CaptureComplete, StreamComplete, HasRow, UnreadAboveCapture
  <2> QED
    BY <2>1, <2>2, <2>3
<1>2. CASE StartCycle
  <2> USE <1>2 DEF StartCycle
  <2>1. TypeOK' /\ NeverRejected' /\ WatermarkOrder'
    BY DEF TypeOK, NeverRejected, WatermarkOrder
  <2>2. NoGapAboveWatermark' /\ CopiesAgree' /\ NoChangeLost'
    BY DEF NoGapAboveWatermark, CopiesAgree, NoChangeLost
  <2>3. FetchComplete'
    BY <1>0 DEF FetchComplete
  <2>4. CaptureComplete' /\ StreamComplete' /\ UnreadAboveCapture'
    BY DEF CaptureComplete, StreamComplete, HasRow, UnreadAboveCapture
  <2> QED
    BY <2>1, <2>2, <2>3, <2>4
<1>3. CASE FetchBatch
  <2> DEFINE new == RowsBetween(cycle.cursor + 1, BatchEnd(cycle.cursor))
             last == BatchEnd(cycle.cursor)
  <2>1. /\ cycle.pc = "fetching" /\ cycle.cursor < Len(events) /\ Deliver(cycle.cursor)
        /\ cycle' = [pc |-> "fetching", cursor |-> last, rows |-> cycle.rows \cup new]
        /\ UNCHANGED <<changed, events, acked, imported, localAck, stream, lastAck,
                       unread, rejected>>
    BY <1>0, <1>3 DEF FetchBatch
  <2>2. /\ last \in Nat /\ cycle.cursor < last /\ last <= Len(events)
        /\ delivered' \in Nat /\ delivered <= delivered' /\ last <= delivered'
        /\ delivered' <= Len(events) /\ new \subseteq Row
        /\ \A r \in new : r.seq \in 1..last /\ r.event = events[r.seq]
        /\ \A n \in (cycle.cursor + 1)..last : HasRow(new, n)
    BY <1>0, <2>1, BatchEffect
  <2> HIDE DEF new, last
  <2>3. TypeOK' /\ NeverRejected' /\ WatermarkOrder'
    BY <2>1, <2>2 DEF TypeOK, NeverRejected, WatermarkOrder
  <2>4. NoGapAboveWatermark' /\ NoChangeLost'
    BY <2>1 DEF NoGapAboveWatermark, NoChangeLost
  <2>5. CopiesAgree'
    BY <1>0, <2>1, <2>2 DEF CopiesAgree
  <2>6. FetchComplete'
    <3>1. \A r \in cycle.rows : r.seq <= cycle.cursor
      BY <2>1 DEF FetchComplete
    <3>2. \A n \in (localAck + 1)..cycle.cursor : HasRow(cycle.rows, n)
      BY <2>1 DEF FetchComplete
    <3>3. \A r \in cycle.rows \cup new : r.seq <= last
      BY <1>0, <2>2, <3>1
    <3>4. \A n \in (localAck + 1)..last : HasRow(cycle.rows \cup new, n)
      BY <1>0, <2>2, <3>2 DEF HasRow
    <3> QED
      BY <2>1, <2>2, <3>3, <3>4 DEF FetchComplete
  <2>7. CaptureComplete' /\ UnreadAboveCapture'
    BY <2>1 DEF CaptureComplete, UnreadAboveCapture
  <2>8. StreamComplete'
    BY <1>0, <2>1, <2>2 DEF StreamComplete, HasRow, TypeOK
  <2> QED
    BY <2>3, <2>4, <2>5, <2>6, <2>7, <2>8
<1>4. CASE FetchDone
  <2>1. /\ cycle.pc = "fetching"
        /\ cycle' = [pc |-> "fetched", cursor |-> cycle.cursor, rows |-> cycle.rows]
        /\ UNCHANGED <<changed, events, acked, delivered, imported, localAck, stream,
                       lastAck, unread, rejected>>
    BY <1>0, <1>4 DEF FetchDone
  <2>2. TypeOK' /\ NeverRejected' /\ WatermarkOrder'
    BY <1>0, <2>1 DEF TypeOK, NeverRejected, WatermarkOrder
  <2>3. NoGapAboveWatermark' /\ CopiesAgree' /\ NoChangeLost'
    BY <2>1 DEF NoGapAboveWatermark, CopiesAgree, NoChangeLost
  <2>4. FetchComplete' /\ CaptureComplete' /\ StreamComplete' /\ UnreadAboveCapture'
    BY <2>1 DEF FetchComplete, CaptureComplete, StreamComplete, HasRow, UnreadAboveCapture
  <2> QED
    BY <2>2, <2>3, <2>4
<1>5. CASE RecordCycle
  <2>1. cycle.pc = "fetched" /\ UNCHANGED <<changed, events, acked, delivered, localAck,
                                            stream, lastAck, unread>>
    BY <1>5 DEF RecordCycle
  <2>2. \A row \in cycle.rows : ~Contradicts(row)
    BY DEF CopiesAgree, Contradicts
  <2>3. /\ imported' = imported \cup cycle.rows
        /\ cycle' = [pc |-> "recorded", cursor |-> cycle.cursor, rows |-> cycle.rows]
        /\ UNCHANGED rejected
    BY <1>0, <1>5, <2>2 DEF RecordCycle
  <2>4. TypeOK' /\ NeverRejected' /\ WatermarkOrder'
    BY <1>0, <2>1, <2>3 DEF TypeOK, NeverRejected, WatermarkOrder
  <2>5. NoGapAboveWatermark'
    <3>1. \A r \in cycle.rows : \A n \in (localAck + 1)..r.seq : HasRow(cycle.rows, n)
      BY <1>0, <2>1 DEF FetchComplete
    <3> QED
      BY <2>1, <2>3, <3>1 DEF NoGapAboveWatermark, HasRow
  <2>6. CopiesAgree' /\ NoChangeLost'
    BY <2>1, <2>3 DEF CopiesAgree, NoChangeLost
  <2>7. FetchComplete' /\ CaptureComplete' /\ UnreadAboveCapture'
    BY <2>3 DEF FetchComplete, CaptureComplete, UnreadAboveCapture
  <2>8. StreamComplete'
    BY <2>1, <2>3 DEF StreamComplete, HasRow
  <2> QED
    BY <2>4, <2>5, <2>6, <2>7, <2>8
<1>6. CASE CapturePending
  <2> DEFINE rows == {r \in imported : r.seq > localAck}
  <2>1. /\ cycle' = [pc |-> "captured", cursor |-> cycle.cursor, rows |-> rows]
        /\ UNCHANGED <<changed, events, acked, delivered, imported, localAck, stream,
                       lastAck, unread, rejected>>
    BY <1>0, <1>6 DEF CapturePending
  <2>2. rows \subseteq imported /\ imported \subseteq Row
    BY DEF TypeOK
  <2>3. TypeOK' /\ NeverRejected' /\ WatermarkOrder'
    BY <1>0, <2>1, <2>2 DEF TypeOK, NeverRejected, WatermarkOrder
  <2>4. NoGapAboveWatermark' /\ CopiesAgree' /\ NoChangeLost'
    BY <2>1, <2>2 DEF NoGapAboveWatermark, CopiesAgree, NoChangeLost
  <2>5. CaptureComplete'
    <3>1. SUFFICES ASSUME NEW r \in rows, NEW n \in (localAck + 1)..r.seq
                   PROVE  HasRow(rows, n)
      BY <2>1 DEF CaptureComplete, HasRow
    <3>2. PICK s \in imported : s.seq = n
      BY <2>2 DEF NoGapAboveWatermark
    <3>3. s \in rows
      BY <1>0, <2>2, <3>2
    <3> QED
      BY <3>2, <3>3 DEF HasRow
  <2>6. FetchComplete' /\ StreamComplete' /\ UnreadAboveCapture'
    BY <2>1 DEF FetchComplete, StreamComplete, HasRow, UnreadAboveCapture
  <2> QED
    BY <2>3, <2>4, <2>5, <2>6
<1>7. CASE ReadDirty
  <2> DEFINE still == {p \in unread : \A r \in cycle.rows : ~Touches(r.event, p)}
  <2>1. /\ cycle.pc = "captured"
        /\ cycle' = [pc |-> "read", cursor |-> cycle.cursor, rows |-> cycle.rows]
        /\ unread' = still
        /\ UNCHANGED <<changed, events, acked, delivered, imported, localAck, stream,
                       lastAck, rejected>>
    BY <1>0, <1>7 DEF ReadDirty
  <2>2. TypeOK' /\ NeverRejected' /\ WatermarkOrder'
    BY <1>0, <2>1 DEF TypeOK, NeverRejected, WatermarkOrder
  <2>3. NoGapAboveWatermark' /\ CopiesAgree' /\ NoChangeLost'
    BY <2>1 DEF NoGapAboveWatermark, CopiesAgree, NoChangeLost
  <2>4. FetchComplete' /\ CaptureComplete' /\ StreamComplete'
    BY <2>1 DEF FetchComplete, CaptureComplete, StreamComplete, HasRow
  <2>5. UnreadAboveCapture'
    <3>1. SUFFICES ASSUME NEW p \in still, p \notin changed
                   PROVE  \E i \in (localAck + 1)..Len(events) :
                             /\ Touches(events[i], p)
                             /\ \A r \in cycle.rows : r.seq < i
      BY <2>1 DEF UnreadAboveCapture
    <3>2. PICK i \in (localAck + 1)..Len(events) : Touches(events[i], p)
      BY <3>1 DEF NoChangeLost
    <3>3. ASSUME NEW r \in cycle.rows, ~(r.seq < i) PROVE FALSE
      <4>1. i \in (localAck + 1)..r.seq
        BY <1>0, <3>3
      <4>2. PICK s \in cycle.rows : s.seq = i
        BY <2>1, <4>1 DEF CaptureComplete, HasRow
      <4>3. s.event = events[i]
        BY <4>2 DEF CopiesAgree
      <4> QED
        BY <3>2, <4>3
    <3> QED
      BY <3>2, <3>3
  <2> QED
    BY <2>2, <2>3, <2>4, <2>5
<1>8. CASE Commit
  <2>1. /\ cycle.pc = "read"
        /\ cycle' = [pc |-> "committed", cursor |-> cycle.cursor, rows |-> cycle.rows]
        /\ UNCHANGED <<changed, events, acked, delivered, imported, stream, lastAck,
                       unread, rejected>>
    BY <1>0, <1>8 DEF Commit
  <2>2. /\ localAck' \in Nat /\ localAck <= localAck' /\ localAck' <= delivered
        /\ \/ localAck' = localAck
           \/ \E r \in cycle.rows : localAck' = r.seq
    <3>1. CASE UNCHANGED localAck
      BY <1>0, <3>1
    <3>2. CASE \E n \in 1..Len(events) : LastRow(n) /\ localAck' = LargerOf(localAck, n)
      <4>1. PICK n \in 1..Len(events) : LastRow(n) /\ localAck' = LargerOf(localAck, n)
        BY <3>2
      <4>2. PICK r \in cycle.rows : r.seq = n
        BY <4>1 DEF LastRow
      <4>3. n \in 1..delivered
        BY <4>2 DEF CopiesAgree
      <4> QED
        BY <1>0, <4>1, <4>2, <4>3 DEF LargerOf
    <3> QED
      BY <1>8, <3>1, <3>2 DEF Commit
  <2>3. TypeOK' /\ NeverRejected'
    BY <1>0, <2>1, <2>2 DEF TypeOK, NeverRejected
  <2>4. WatermarkOrder'
    BY <1>0, <2>1, <2>2 DEF WatermarkOrder
  <2>5. NoGapAboveWatermark' /\ CopiesAgree'
    <3>1. imported \subseteq Row
      BY DEF TypeOK
    <3> QED
      BY <1>0, <2>1, <2>2, <3>1 DEF NoGapAboveWatermark, CopiesAgree
  <2>6. NoChangeLost'
    <3>1. SUFFICES ASSUME NEW p \in unread, p \notin changed
                   PROVE  \E i \in (localAck' + 1)..Len(events) : Touches(events[i], p)
      BY <2>1 DEF NoChangeLost
    <3>2. PICK i \in (localAck + 1)..Len(events) :
              Touches(events[i], p) /\ \A r \in cycle.rows : r.seq < i
      BY <2>1, <3>1 DEF UnreadAboveCapture
    <3>3. i \in (localAck' + 1)..Len(events)
      BY <1>0, <2>2, <3>2
    <3> QED
      BY <3>2, <3>3
  <2>7. FetchComplete' /\ CaptureComplete' /\ UnreadAboveCapture'
    BY <2>1 DEF FetchComplete, CaptureComplete, UnreadAboveCapture
  <2>8. StreamComplete'
    <3>1. stream.cursor \in Nat
      BY DEF TypeOK
    <3> QED
      BY <1>0, <2>1, <2>2, <3>1 DEF StreamComplete, HasRow
  <2> QED
    BY <2>3, <2>4, <2>5, <2>6, <2>7, <2>8
<1>9. CASE CommitRequeued
  BY <1>1, <1>9 DEF CommitRequeued
<1>10. CASE AcknowledgeRemote
  <2>1. /\ acked' = LargerOf(acked, localAck)
        /\ lastAck' \in {lastAck, LargerOf(lastAck, acked')}
        /\ cycle' = Idle
        /\ UNCHANGED <<changed, events, delivered, imported, localAck, stream, unread, rejected>>
    BY <1>0, <1>10 DEF AcknowledgeRemote
  <2>2. /\ acked' \in Nat /\ acked' <= localAck
        /\ lastAck' \in Nat /\ lastAck' <= localAck
    BY <1>0, <2>1 DEF LargerOf
  <2>3. TypeOK' /\ NeverRejected' /\ WatermarkOrder'
    BY <2>1, <2>2 DEF TypeOK, NeverRejected, WatermarkOrder, Idle
  <2>4. NoGapAboveWatermark' /\ CopiesAgree' /\ NoChangeLost'
    BY <2>1 DEF NoGapAboveWatermark, CopiesAgree, NoChangeLost, Idle
  <2>5. FetchComplete' /\ CaptureComplete' /\ StreamComplete' /\ UnreadAboveCapture'
    BY <2>1 DEF FetchComplete, CaptureComplete, StreamComplete, HasRow,
                UnreadAboveCapture, Idle
  <2> QED
    BY <2>3, <2>4, <2>5
<1>11. CASE CycleFails
  BY <1>1, <1>11 DEF CycleFails
<1> QED
  BY <1>2, <1>3, <1>4, <1>5, <1>6, <1>7, <1>8, <1>9, <1>10, <1>11

\* Steps of the subscription thread, and a crash of the supervisor.
LEMMA StreamSteps ==
    ASSUME JournalInv,
           \/ Subscribe \/ Reopen \/ StreamBatch \/ StreamRecord \/ StreamBreaks
           \/ SupervisorCrash
    PROVE  JournalInv'
<1> USE DEF JournalInv
<1>0. /\ localAck \in Nat /\ delivered \in Nat /\ acked \in Nat /\ lastAck \in Nat
      /\ Len(events) \in Nat
      /\ acked <= localAck /\ localAck <= delivered /\ delivered <= Len(events)
      /\ lastAck <= localAck
      /\ stream = [open |-> stream.open, cursor |-> stream.cursor, rows |-> stream.rows]
      /\ stream.open \in BOOLEAN /\ stream.cursor \in Nat /\ stream.rows \subseteq Row
      /\ imported \subseteq Row
      /\ \A r \in Row : r.seq \in Nat
  BY DEF TypeOK, WatermarkOrder, Row
\* A stream that starts at or below the watermark owes nothing above it.
<1>1. ASSUME NEW c \in 0..localAck, NEW o \in BOOLEAN,
             stream' = [open |-> o, cursor |-> c, rows |-> {}],
             lastAck' \in {lastAck, localAck},
             cycle' \in {cycle, Idle},
             UNCHANGED <<changed, events, acked, delivered, imported, localAck,
                         unread, rejected>>
      PROVE  JournalInv'
  <2> USE <1>1
  <2>1. TypeOK' /\ NeverRejected'
    BY <1>0 DEF TypeOK, NeverRejected, Idle
  <2>2. WatermarkOrder'
    BY <1>0 DEF WatermarkOrder
  <2>3. NoGapAboveWatermark' /\ CopiesAgree' /\ NoChangeLost'
    BY DEF NoGapAboveWatermark, CopiesAgree, NoChangeLost, Idle
  <2>4. FetchComplete' /\ CaptureComplete' /\ UnreadAboveCapture'
    BY DEF FetchComplete, CaptureComplete, HasRow, UnreadAboveCapture, Idle
  <2>5. StreamComplete'
    BY <1>0 DEF StreamComplete
  <2> QED
    BY <2>1, <2>2, <2>3, <2>4, <2>5
<1>2. CASE Subscribe
  <2>1. /\ localAck \in 0..localAck /\ TRUE \in BOOLEAN
        /\ stream' = [open |-> TRUE, cursor |-> localAck, rows |-> {}]
        /\ lastAck' \in {lastAck, localAck}
        /\ cycle' \in {cycle, Idle}
        /\ UNCHANGED <<changed, events, acked, delivered, imported, localAck,
                       unread, rejected>>
    BY <1>0, <1>2 DEF Subscribe
  <2> QED
    BY <1>1, <2>1
<1>3. CASE Reopen
  <2>1. /\ lastAck \in 0..localAck /\ TRUE \in BOOLEAN
        /\ stream' = [open |-> TRUE, cursor |-> lastAck, rows |-> {}]
        /\ lastAck' \in {lastAck, localAck}
        /\ cycle' \in {cycle, Idle}
        /\ UNCHANGED <<changed, events, acked, delivered, imported, localAck,
                       unread, rejected>>
    BY <1>0, <1>3 DEF Reopen
  <2> QED
    BY <1>1, <2>1
<1>4. CASE StreamBatch
  <2> DEFINE new == RowsBetween(stream.cursor + 1, BatchEnd(stream.cursor))
             last == BatchEnd(stream.cursor)
  <2>1. /\ stream.cursor < Len(events) /\ Deliver(stream.cursor)
        /\ stream' = [open |-> stream.open, cursor |-> last, rows |-> stream.rows \cup new]
        /\ UNCHANGED <<changed, events, acked, imported, localAck, cycle, lastAck,
                       unread, rejected>>
    BY <1>0, <1>4 DEF StreamBatch
  <2>2. /\ last \in Nat /\ stream.cursor < last /\ last <= Len(events)
        /\ delivered' \in Nat /\ delivered <= delivered' /\ last <= delivered'
        /\ delivered' <= Len(events) /\ new \subseteq Row
        /\ \A r \in new : r.seq \in 1..last /\ r.event = events[r.seq]
        /\ \A n \in (stream.cursor + 1)..last : HasRow(new, n)
    BY <1>0, <2>1, BatchEffect
  <2> HIDE DEF new, last
  <2>3. TypeOK' /\ NeverRejected' /\ WatermarkOrder'
    BY <1>0, <2>1, <2>2 DEF TypeOK, NeverRejected, WatermarkOrder
  <2>4. NoGapAboveWatermark' /\ NoChangeLost'
    BY <2>1 DEF NoGapAboveWatermark, NoChangeLost
  <2>5. CopiesAgree'
    BY <1>0, <2>1, <2>2 DEF CopiesAgree
  <2>6. FetchComplete' /\ CaptureComplete' /\ UnreadAboveCapture'
    <3>1. cycle.cursor \in Nat
      BY DEF TypeOK
    <3> QED
      BY <1>0, <2>1, <2>2, <3>1 DEF FetchComplete, CaptureComplete, HasRow, UnreadAboveCapture
  <2>7. StreamComplete'
    <3>1. \A r \in stream.rows \cup new : r.seq <= last
      BY <1>0, <2>2 DEF StreamComplete
    <3>2. ASSUME NEW n \in (localAck + 1)..last
          PROVE  HasRow(imported, n) \/ HasRow(stream.rows \cup new, n)
      <4>1. CASE n <= stream.cursor
        BY <1>0, <4>1 DEF StreamComplete, HasRow
      <4>2. CASE n > stream.cursor
        BY <1>0, <2>2, <4>2 DEF HasRow
      <4> QED
        BY <1>0, <2>2, <4>1, <4>2
    <3> QED
      BY <2>1, <2>2, <3>1, <3>2 DEF StreamComplete
  <2> QED
    BY <2>3, <2>4, <2>5, <2>6, <2>7
<1>5. CASE StreamRecord
  <2>1. PICK row \in stream.rows :
          /\ \A r \in stream.rows : row.seq <= r.seq
          /\ ~Contradicts(row) =>
               /\ imported' = imported \cup {row}
               /\ stream' = [stream EXCEPT !.rows = @ \ {row}]
               /\ UNCHANGED rejected
          /\ UNCHANGED <<changed, events, acked, delivered, localAck, cycle, lastAck, unread>>
    BY <1>5 DEF StreamRecord
  <2>2. ~Contradicts(row)
    BY DEF CopiesAgree, Contradicts
  <2>3. /\ imported' = imported \cup {row}
        /\ stream' = [open |-> stream.open, cursor |-> stream.cursor,
                      rows |-> stream.rows \ {row}]
        /\ UNCHANGED rejected
    BY <1>0, <2>1, <2>2
  <2>4. TypeOK' /\ NeverRejected' /\ WatermarkOrder'
    BY <1>0, <2>1, <2>3 DEF TypeOK, NeverRejected, WatermarkOrder
  <2>5. NoGapAboveWatermark'
    <3>1. ASSUME NEW n \in (localAck + 1)..row.seq PROVE HasRow(imported', n)
      <4>1. HasRow(imported, n) \/ HasRow(stream.rows, n)
        BY <1>0 DEF StreamComplete
      <4>2. CASE HasRow(stream.rows, n)
        BY <1>0, <2>1, <2>3, <4>2 DEF HasRow
      <4> QED
        BY <2>3, <4>1, <4>2 DEF HasRow
    <3> QED
      BY <2>1, <2>3, <3>1 DEF NoGapAboveWatermark, HasRow
  <2>6. CopiesAgree' /\ NoChangeLost'
    BY <2>1, <2>3 DEF CopiesAgree, NoChangeLost
  <2>7. FetchComplete' /\ CaptureComplete' /\ UnreadAboveCapture'
    BY <2>1 DEF FetchComplete, CaptureComplete, HasRow, UnreadAboveCapture
  <2>8. StreamComplete'
    BY <2>1, <2>3 DEF StreamComplete, HasRow
  <2> QED
    BY <2>4, <2>5, <2>6, <2>7, <2>8
<1>6. CASE StreamBreaks
  <2>1. /\ 0 \in 0..localAck /\ FALSE \in BOOLEAN
        /\ stream' = [open |-> FALSE, cursor |-> 0, rows |-> {}]
        /\ lastAck' \in {lastAck, localAck}
        /\ cycle' \in {cycle, Idle}
        /\ UNCHANGED <<changed, events, acked, delivered, imported, localAck,
                       unread, rejected>>
    BY <1>0, <1>6 DEF StreamBreaks, NoStream
  <2> QED
    BY <1>1, <2>1
<1>7. CASE SupervisorCrash
  <2>1. /\ 0 \in 0..localAck /\ FALSE \in BOOLEAN
        /\ stream' = [open |-> FALSE, cursor |-> 0, rows |-> {}]
        /\ lastAck' \in {lastAck, localAck}
        /\ cycle' \in {cycle, Idle}
        /\ UNCHANGED <<changed, events, acked, delivered, imported, localAck,
                       unread, rejected>>
    BY <1>0, <1>7 DEF SupervisorCrash, NoStream
  <2> QED
    BY <1>1, <2>1
<1> QED
  BY <1>2, <1>3, <1>4, <1>5, <1>6, <1>7

\* Every reachable state satisfies the journal invariant.
THEOREM JournalInvariant == Spec => []JournalInv
<1>1. JournalInv /\ UNCHANGED vars => JournalInv'
  <2> SUFFICES ASSUME JournalInv, UNCHANGED vars PROVE JournalInv'
    OBVIOUS
  <2> USE DEF vars
  <2>1. TypeOK' /\ NeverRejected' /\ WatermarkOrder'
    BY DEF JournalInv, TypeOK, NeverRejected, WatermarkOrder
  <2>2. NoGapAboveWatermark' /\ NoChangeLost' /\ CopiesAgree'
    BY DEF JournalInv, NoGapAboveWatermark, NoChangeLost, CopiesAgree
  <2>3. FetchComplete' /\ CaptureComplete' /\ StreamComplete' /\ UnreadAboveCapture'
    BY DEF JournalInv, FetchComplete, CaptureComplete, StreamComplete, HasRow,
           UnreadAboveCapture
  <2> QED
    BY <2>1, <2>2, <2>3 DEF JournalInv
<1>2. JournalInv /\ [Next]_vars => JournalInv'
  BY <1>1, RemoteSteps, CycleSteps, StreamSteps DEF Next
<1> QED
  BY <1>2, InitInv, PTL DEF Spec

\* The state of the journal is well typed in every reachable state.
THEOREM TypeCorrect == Spec => []TypeOK
  BY JournalInvariant, PTL DEF JournalInv

\* record_events never raises "journal sequence changed" and the remote store
\* never refuses an acknowledgement, whatever the two importing threads, the
\* watcher, broken streams and crashes do.
THEOREM ImportNeverFails == Spec => []NeverRejected
  BY JournalInvariant, PTL DEF JournalInv

\* The rows stored above the local watermark are consecutive, so that
\* acknowledging the last captured row skips none.
THEOREM NoGap == Spec => []NoGapAboveWatermark
  BY JournalInvariant, PTL DEF JournalInv

\* A remote change the engine has not read is with the watcher or in a row
\* above the local watermark.
THEOREM ChangesKept == Spec => []NoChangeLost
  BY JournalInvariant, PTL DEF JournalInv

\* acknowledged(remote) <= acknowledged(local) <= delivered <= latest.
THEOREM WatermarksOrdered == Spec => []WatermarkOrder
  BY JournalInvariant, PTL DEF JournalInv

-----------------------------------------------------------------------------
(* To the engine the journal is a set of changes.                          *)

\* What a step of the watcher does to the table, as far as a set can tell: it notes
\* the changes S in rows that nobody has read, and nothing else.
Marks == Paths \cup {AnyPath}
Writes(S) ==
    /\ Len(events') \in Nat /\ Len(events') >= Len(events)
    /\ \A i \in 1..delivered : events'[i] = events[i]
    /\ \A i \in 1..Len(events), m \in Marks : Notes(events[i], m) => Notes(events'[i], m)
    /\ \A i \in 1..Len(events'), m \in Marks :
         Notes(events'[i], m) => m \in S \/ (i <= Len(events) /\ Notes(events[i], m))
    /\ \A m \in S : \E i \in (delivered + 1)..Len(events') : Notes(events'[i], m)

\* append_event for a path: the row that is rewritten is about this path alone.
LEMMA PathIsNoted ==
    ASSUME TypeOK, WatermarkOrder, NEW kind \in PathKinds, NEW p \in Paths,
           AppendPathEvent(kind, p)
    PROVE  Writes({p})
<1> USE DEF TypeOK, WatermarkOrder
<1>0. /\ Len(events) \in Nat /\ delivered \in Nat /\ delivered <= Len(events)
      /\ \A i \in 1..Len(events) : events[i] \in Event
  OBVIOUS
<1>1. \A k \in PathKinds, m \in Marks :
        Notes([kind |-> k, path |-> p, dest |-> NoPath], m) <=> m = p
  BY PathsAssumption DEF Notes, PathKinds, Marks
<1>2. CASE \E i \in RowsAbout(p) :
             /\ IsNewest(i, RowsAbout(p))
             /\ events[i].kind \in PathKinds
             /\ events' = [events EXCEPT ![i] =
                  [kind |-> MergedKind(events[i].kind, kind), path |-> p, dest |-> NoPath]]
  <2>1. PICK i \in RowsAbout(p) :
             /\ events[i].kind \in PathKinds
             /\ events' = [events EXCEPT ![i] =
                  [kind |-> MergedKind(events[i].kind, kind), path |-> p, dest |-> NoPath]]
    BY <1>2
  <2>2. i \in 1..Len(events) /\ i > delivered /\ (events[i].path = p \/ events[i].dest = p)
    BY DEF RowsAbout, ProtectedSequence, LargerOf
  <2>3. MergedKind(events[i].kind, kind) \in PathKinds
    BY <2>1, MergedKindType
  <2>4. events[i].path = p /\ events[i].dest = NoPath
    BY <1>0, <2>1, <2>2, PathEventShape, PathsAssumption
  <2>5. \A m \in Marks : Notes(events[i], m) <=> m = p
    BY <2>1, <2>4, PathsAssumption DEF Notes, PathKinds, Marks
  <2>6. /\ Len(events') = Len(events)
        /\ events'[i] = [kind |-> MergedKind(events[i].kind, kind), path |-> p, dest |-> NoPath]
        /\ \A j \in 1..Len(events) : j # i => events'[j] = events[j]
    BY <2>1, <2>2
  <2>7. \A m \in Marks : Notes(events'[i], m) <=> m = p
    BY <1>1, <2>3, <2>6
  <2>8. i \in (delivered + 1)..Len(events') /\ p \in Marks
    BY <1>0, <2>2, <2>6 DEF Marks
  <2>9. \A j \in 1..Len(events), m \in Marks : Notes(events'[j], m) <=> Notes(events[j], m)
    BY <2>5, <2>6, <2>7
  <2>10. \A j \in 1..delivered : j \in 1..Len(events) /\ j # i
    BY <1>0, <2>2
  <2> QED
    BY <1>0, <2>6, <2>7, <2>8, <2>9, <2>10 DEF Writes
<1>3. CASE events' = Append(events, [kind |-> kind, path |-> p, dest |-> NoPath])
  <2>1. /\ Len(events') = Len(events) + 1
        /\ events'[Len(events) + 1] = [kind |-> kind, path |-> p, dest |-> NoPath]
        /\ \A j \in 1..Len(events) : events'[j] = events[j]
    BY <1>3, NewRowsAreEvents
  <2>2. \A m \in Marks : Notes(events'[Len(events) + 1], m) <=> m = p
    BY <1>1, <2>1
  <2>3. Len(events) + 1 \in (delivered + 1)..Len(events') /\ p \in Marks
    BY <1>0, <2>1 DEF Marks
  <2> QED
    BY <1>0, <2>1, <2>2, <2>3 DEF Writes
<1> QED
  BY <1>2, <1>3 DEF AppendPathEvent

\* append_event for a move notes both ends.
LEMMA MoveIsNoted ==
    ASSUME TypeOK, WatermarkOrder, NEW p \in Paths, NEW q \in Paths, AppendMove(p, q)
    PROVE  Writes({p, q})
<1>0. /\ Len(events) \in Nat /\ delivered \in Nat /\ delivered <= Len(events)
      /\ events \in Seq(Event)
  BY DEF TypeOK, WatermarkOrder
<1>1. \A m \in Marks : Notes([kind |-> "move", path |-> p, dest |-> q], m) <=> m \in {p, q}
  BY DEF Notes
<1>2. /\ Len(events') = Len(events) + 1
      /\ events'[Len(events) + 1] = [kind |-> "move", path |-> p, dest |-> q]
      /\ \A j \in 1..Len(events) : events'[j] = events[j]
  BY <1>0, NewRowsAreEvents DEF AppendMove
<1>3. \A m \in Marks : Notes(events'[Len(events) + 1], m) <=> m \in {p, q}
  BY <1>1, <1>2
<1>4. Len(events) + 1 \in (delivered + 1)..Len(events') /\ {p, q} \subseteq Marks
  BY <1>0, <1>2 DEF Marks
<1> QED
  BY <1>0, <1>2, <1>3, <1>4 DEF Writes

\* append_event for a rescan, which an unread one may absorb.
LEMMA RescanIsNoted ==
    ASSUME TypeOK, WatermarkOrder, AppendRescan
    PROVE  Writes({AnyPath})
<1>0. /\ Len(events) \in Nat /\ delivered \in Nat /\ delivered <= Len(events)
      /\ events \in Seq(Event)
  BY DEF TypeOK, WatermarkOrder
<1>1. CASE RescanRows # {} /\ UNCHANGED events
  <2>1. PICK i \in RescanRows : TRUE
    BY <1>1
  <2>2. i \in (delivered + 1)..Len(events) /\ events[i].kind = "rescan-required"
    BY <1>0, <2>1 DEF RescanRows, ProtectedSequence, LargerOf, TypeOK
  <2>3. Notes(events'[i], AnyPath)
    BY <1>1, <2>2 DEF Notes
  <2> QED
    BY <1>0, <1>1, <2>2, <2>3 DEF Writes
<1>2. CASE events' = Append(events,
             [kind |-> "rescan-required", path |-> AnyPath, dest |-> NoPath])
  <2>1. /\ Len(events') = Len(events) + 1
        /\ events'[Len(events) + 1] = [kind |-> "rescan-required", path |-> AnyPath, dest |-> NoPath]
        /\ \A j \in 1..Len(events) : events'[j] = events[j]
    BY <1>0, <1>2, NewRowsAreEvents
  <2>2. \A m \in Marks : Notes(events'[Len(events) + 1], m) <=> m = AnyPath
    BY <2>1 DEF Notes
  <2>3. Len(events) + 1 \in (delivered + 1)..Len(events') /\ AnyPath \in Marks
    BY <1>0, <2>1 DEF Marks
  <2> QED
    BY <1>0, <2>1, <2>2, <2>3 DEF Writes
<1> QED
  BY <1>1, <1>2 DEF AppendRescan

\* What a fetch holds is stored when the cycle captures.
RecordedComplete ==
    cycle.pc = "recorded" =>
        /\ cycle.cursor <= delivered
        /\ \A n \in (localAck + 1)..cycle.cursor : HasRow(imported, n)
SetInv == JournalInv /\ RecordedComplete

\* Recording stores all that the fetch holds, and no step before the capture takes
\* anything away.
LEMMA RecordedStays ==
    ASSUME JournalInv, RecordedComplete, [Next]_vars
    PROVE  RecordedComplete'
<1>0. /\ localAck \in Nat /\ delivered \in Nat /\ cycle.cursor \in Nat
      /\ cycle = [pc |-> cycle.pc, cursor |-> cycle.cursor, rows |-> cycle.rows]
      /\ stream.cursor \in Nat /\ Len(events) \in Nat
  BY DEF JournalInv, TypeOK
<1>1. CASE cycle'.pc # "recorded"
  BY <1>1 DEF RecordedComplete
<1>2. ASSUME UNCHANGED <<cycle, localAck>>, imported \subseteq imported', delivered' \in Nat, delivered <= delivered'
      PROVE  RecordedComplete'
  BY <1>0, <1>2 DEF RecordedComplete, HasRow
<1>3. CASE \/ \E p \in Paths : DiskChange(p)
           \/ \E p \in Paths, kind \in PathKinds : WatchPath(kind, p)
           \/ \E p, q \in Paths : WatchMove(p, q)
           \/ WatchOverflow \/ UNCHANGED vars
  <2>1. UNCHANGED <<cycle, localAck, imported, delivered>>
    BY <1>3 DEF DiskChange, WatchPath, WatchMove, WatchOverflow, vars
  <2> QED
    BY <1>0, <1>2, <2>1
<1>4. CASE Subscribe \/ Reopen \/ StreamBreaks
  <2>1. UNCHANGED <<cycle, localAck, imported, delivered>>
    BY <1>4 DEF Subscribe, Reopen, StreamBreaks
  <2> QED
    BY <1>0, <1>2, <2>1
<1>5. CASE StreamBatch
  <2>1. UNCHANGED <<cycle, localAck, imported>> /\ Deliver(stream.cursor) /\ stream.cursor < Len(events)
    BY <1>5 DEF StreamBatch
  <2>2. delivered' \in Nat /\ delivered <= delivered'
    BY <1>0, <2>1, BatchEffect
  <2> QED
    BY <1>2, <2>1, <2>2
<1>6. CASE StreamRecord
  <2>1. UNCHANGED <<cycle, localAck, delivered>> /\ imported \subseteq imported'
    BY <1>6 DEF StreamRecord
  <2> QED
    BY <1>0, <1>2, <2>1
<1>7. CASE RecordCycle
  <2>1. cycle.pc = "fetched" /\ UNCHANGED <<delivered, localAck>>
    BY <1>7 DEF RecordCycle
  <2>2. cycle' = Idle \/ (imported' = imported \cup cycle.rows /\ cycle'.cursor = cycle.cursor)
    BY <1>0, <1>7 DEF RecordCycle
  <2>3. CASE cycle' = Idle
    BY <1>1, <2>3 DEF Idle
  <2>4. CASE imported' = imported \cup cycle.rows /\ cycle'.cursor = cycle.cursor
    BY <2>1, <2>4 DEF RecordedComplete, JournalInv, FetchComplete, HasRow
  <2> QED
    BY <2>2, <2>3, <2>4
<1>8. CASE \/ StartCycle \/ FetchBatch \/ FetchDone \/ CapturePending \/ ReadDirty \/ Commit
           \/ CommitRequeued \/ AcknowledgeRemote \/ CycleFails \/ SupervisorCrash
  <2>1. CASE StartCycle \/ CommitRequeued \/ AcknowledgeRemote \/ CycleFails \/ SupervisorCrash
    BY <1>1, <2>1 DEF StartCycle, CommitRequeued, AcknowledgeRemote, CycleFails, SupervisorCrash, Idle
  <2>2. CASE FetchBatch \/ FetchDone
    BY <1>0, <1>1, <2>2 DEF FetchBatch, FetchDone
  <2>3. CASE CapturePending \/ ReadDirty
    BY <1>0, <1>1, <2>3 DEF CapturePending, ReadDirty
  <2>4. CASE Commit
    BY <1>0, <1>1, <2>4 DEF Commit
  <2> QED
    BY <1>8, <2>1, <2>2, <2>3, <2>4
<1> QED
  BY <1>3, <1>4, <1>5, <1>6, <1>7, <1>8 DEF Next

\* Rows that are read are not rewritten: a step of the watcher only notes.
LEMMA WritingNotes ==
    ASSUME SetInv, NEW S, S \subseteq Marks, Writes(S), UNCHANGED <<localAck, delivered, cycle>>
    PROVE  Noted' = Noted \cup S /\ UNCHANGED <<Asked, Taken>>
<1>0. /\ localAck \in Nat /\ delivered \in Nat /\ cycle.cursor \in Nat /\ Len(events) \in Nat
      /\ localAck <= delivered /\ delivered <= Len(events) /\ Captured' = Captured
      /\ Len(events') \in Nat /\ Len(events') >= Len(events)
  BY DEF SetInv, JournalInv, TypeOK, WatermarkOrder, Captured, Writes
<1>1. \A r \in cycle.rows : r.seq \in 1..delivered
  BY DEF SetInv, JournalInv, CopiesAgree
<1>2. Taken' = Taken
  BY <1>0 DEF Taken
<1>3. Asked' = Asked
  <2>1. cycle.pc \in {"fetched", "recorded"} => cycle.cursor <= delivered
    BY DEF SetInv, JournalInv, FetchComplete, RecordedComplete
  <2>2. cycle.pc \in {"fetched", "recorded"} =>
          \A i \in (localAck + 1)..cycle.cursor : events'[i] = events[i]
    BY <1>0, <2>1 DEF Writes
  <2> QED
    BY <2>2 DEF Asked
<1>4. ASSUME NEW m \in Marks
      PROVE  m \in Noted' <=> m \in Noted \/ m \in S
  <2>1. ASSUME m \in Noted
        PROVE  m \in Noted'
    <3>1. PICK i \in (localAck + 1)..Len(events) :
            Notes(events[i], m) /\ (Captured => \A r \in cycle.rows : r.seq < i)
      BY <2>1 DEF Noted
    <3>2. i \in (localAck + 1)..Len(events') /\ Notes(events'[i], m)
      BY <1>0, <3>1 DEF Writes
    <3> QED
      BY <1>0, <3>1, <3>2 DEF Noted, Marks
  <2>2. ASSUME m \in S
        PROVE  m \in Noted'
    <3>1. PICK i \in (delivered + 1)..Len(events') : Notes(events'[i], m)
      BY <2>2 DEF Writes
    <3>2. i \in (localAck + 1)..Len(events') /\ \A r \in cycle.rows : r.seq < i
      BY <1>0, <1>1
    <3> QED
      BY <1>0, <3>1, <3>2 DEF Noted, Marks
  <2>3. ASSUME m \in Noted', m \notin S
        PROVE  m \in Noted
    <3>1. PICK i \in (localAck + 1)..Len(events') :
            Notes(events'[i], m) /\ (Captured => \A r \in cycle.rows : r.seq < i)
      BY <1>0, <2>3 DEF Noted
    <3>2. i \in 1..Len(events')
      BY <1>0
    <3>3. i <= Len(events) /\ Notes(events[i], m)
      BY <2>3, <3>1, <3>2 DEF Writes
    <3>4. i \in (localAck + 1)..Len(events)
      BY <1>0, <3>3
    <3> QED
      BY <3>1, <3>3, <3>4 DEF Noted, Marks
  <2> QED
    BY <2>1, <2>2, <2>3
<1>5. Noted \subseteq Marks /\ Noted' \subseteq Marks
  BY DEF Noted, Marks
<1> QED
  BY <1>2, <1>3, <1>4, <1>5

\* What the rows above the watermark note.
Journaled == {m \in Marks : \E i \in (localAck + 1)..Len(events) : Notes(events[i], m)}

\* Between the capture and the end of the cycle the rows are split in two; when it
\* ends before its commit, they are one set again.
LEMMA CaptureSplits == SetInv => Journaled = Noted \cup Taken
<1> SUFFICES ASSUME SetInv
             PROVE  {m \in Marks : \E i \in (localAck + 1)..Len(events) : Notes(events[i], m)} = Noted \cup Taken
  BY DEF Journaled
<1>0. /\ localAck \in Nat /\ Len(events) \in Nat /\ delivered \in Nat /\ delivered <= Len(events)
      /\ \A r \in cycle.rows : r.seq \in 1..delivered /\ r.event = events[r.seq]
  BY DEF SetInv, JournalInv, TypeOK, WatermarkOrder, CopiesAgree
<1>1. ASSUME NEW m \in Marks, NEW i \in (localAck + 1)..Len(events), Notes(events[i], m)
      PROVE  m \in Noted \cup Taken
  <2>1. CASE Captured => \A r \in cycle.rows : r.seq < i
    BY <1>1, <2>1 DEF Noted, Marks
  <2>2. CASE Captured /\ \E r \in cycle.rows : ~(r.seq < i)
    <3>1. PICK r \in cycle.rows : ~(r.seq < i)
      BY <2>2
    <3>2. i \in (localAck + 1)..r.seq
      BY <1>0, <3>1
    <3>3. PICK s \in cycle.rows : s.seq = i
      BY <2>2, <3>2 DEF SetInv, JournalInv, CaptureComplete, HasRow, Captured
    <3>4. s.event = events[i]
      BY <1>0, <3>3
    <3> QED
      BY <1>1, <2>2, <3>3, <3>4 DEF Taken, Marks
  <2> QED
    BY <2>1, <2>2
<1>2. ASSUME NEW m \in Taken
      PROVE  m \in Marks /\ \E i \in (localAck + 1)..Len(events) : Notes(events[i], m)
  <2>1. PICK r \in cycle.rows : Notes(r.event, m)
    BY <1>2 DEF Taken
  <2>2. r.seq > localAck
    BY <1>2, <2>1 DEF Taken, SetInv, JournalInv, CaptureComplete, Captured
  <2>3. r.seq \in (localAck + 1)..Len(events) /\ Notes(events[r.seq], m)
    BY <1>0, <2>1, <2>2
  <2> QED
    BY <1>2, <2>3 DEF Taken, Marks
<1> QED
  BY <1>1, <1>2 DEF Noted, Marks, Journaled

\* Steps that leave the rows, the watermark and the cycle's part of them alone.
LEMMA ViewsStay ==
    ASSUME UNCHANGED <<events, localAck>>, UNCHANGED cycle.pc, UNCHANGED cycle.cursor, UNCHANGED cycle.rows
    PROVE  UNCHANGED <<Noted, Asked, Taken>>
BY DEF Noted, Asked, Taken, Captured

\* A cycle that ends anywhere but at its commit.
LEMMA EndReturns ==
    ASSUME SetInv, cycle' = Idle, UNCHANGED <<changed, events, localAck>>
    PROVE  Set!Return
<1>1. ~Captured' /\ Asked' = {} /\ Taken' = {}
  BY DEF Captured, Asked, Taken, Idle
<1>2. Noted' = Journaled
  BY <1>1 DEF Noted, Marks, Journaled
<1> QED
  BY <1>1, <1>2, CaptureSplits DEF Set!Return

\* The steps of the watcher note changes.
LEMMA WatcherNotes ==
    ASSUME SetInv,
           \/ \E p \in Paths : DiskChange(p)
           \/ \E p \in Paths, kind \in PathKinds : WatchPath(kind, p)
           \/ \E p, q \in Paths : WatchMove(p, q)
           \/ WatchOverflow
    PROVE  Set!Next
<1>0. TypeOK /\ WatermarkOrder
  BY DEF SetInv, JournalInv
<1>1. ASSUME NEW p \in Paths, DiskChange(p)
      PROVE  Set!Next
  <2>1. changed' = changed \cup {p} /\ UNCHANGED <<events, localAck, cycle>>
    BY <1>1 DEF DiskChange
  <2>2. UNCHANGED <<Noted, Asked, Taken>>
    BY <2>1, ViewsStay
  <2> QED
    BY <2>1, <2>2 DEF Set!Next, Set!Change
<1>2. ASSUME NEW p \in Paths, NEW kind \in PathKinds, WatchPath(kind, p)
      PROVE  Set!Next
  <2>1. /\ p \in changed /\ changed' = changed \ {p} /\ AppendPathEvent(kind, p)
        /\ UNCHANGED <<localAck, delivered, cycle>>
    BY <1>2 DEF WatchPath
  <2>2. Writes({p}) /\ {p} \subseteq Marks
    BY <1>0, <2>1, PathIsNoted DEF Marks
  <2>3. Noted' = Noted \cup {p} /\ UNCHANGED <<Asked, Taken>>
    BY <2>1, <2>2, WritingNotes
  <2>4. Set!Note({p}) /\ {p} \in SUBSET changed
    BY <2>1, <2>3 DEF Set!Note
  <2> QED
    BY <2>4 DEF Set!Next
<1>3. ASSUME NEW p \in Paths, NEW q \in Paths, WatchMove(p, q)
      PROVE  Set!Next
  <2>1. /\ {p, q} \subseteq changed /\ changed' = changed \ {p, q} /\ AppendMove(p, q)
        /\ UNCHANGED <<localAck, delivered, cycle>>
    BY <1>3 DEF WatchMove
  <2>2. Writes({p, q}) /\ {p, q} \subseteq Marks
    BY <1>0, <2>1, MoveIsNoted DEF Marks
  <2>3. Noted' = Noted \cup {p, q} /\ UNCHANGED <<Asked, Taken>>
    BY <2>1, <2>2, WritingNotes
  <2>4. Set!Note({p, q}) /\ {p, q} \in SUBSET changed
    BY <2>1, <2>3 DEF Set!Note
  <2> QED
    BY <2>4 DEF Set!Next
<1>4. ASSUME WatchOverflow
      PROVE  Set!Next
  <2>1. changed' = {} /\ AppendRescan /\ UNCHANGED <<localAck, delivered, cycle>>
    BY <1>4 DEF WatchOverflow
  <2>2. Writes({AnyPath}) /\ {AnyPath} \subseteq Marks
    BY <1>0, <2>1, RescanIsNoted DEF Marks
  <2>3. Noted' = Noted \cup {AnyPath} /\ UNCHANGED <<Asked, Taken>>
    BY <2>1, <2>2, WritingNotes
  <2> QED
    BY <2>1, <2>3 DEF Set!Next, Set!NoteAny
<1> QED
  BY <1>1, <1>2, <1>3, <1>4

\* The steps of the engine's cycle ask, take, settle or return; the others do not
\* show.
LEMMA CycleTakes ==
    ASSUME SetInv, JournalInv',
           \/ StartCycle \/ FetchBatch \/ FetchDone \/ RecordCycle \/ CapturePending
           \/ ReadDirty \/ Commit \/ CommitRequeued \/ AcknowledgeRemote \/ CycleFails
    PROVE  [Set!Next]_(Set!vars)
<1>0. /\ localAck \in Nat /\ delivered \in Nat /\ cycle.cursor \in Nat /\ Len(events) \in Nat
      /\ localAck <= delivered /\ delivered <= Len(events)
      /\ cycle = [pc |-> cycle.pc, cursor |-> cycle.cursor, rows |-> cycle.rows]
      /\ \A r \in imported \cup cycle.rows : r.seq \in 1..delivered /\ r.event = events[r.seq]
  BY DEF SetInv, JournalInv, TypeOK, WatermarkOrder, CopiesAgree
<1> DEFINE Open(pc) == pc \notin {"fetched", "recorded", "captured", "read"}
\* Before the fetch has ended and after the commit nothing is asked for or taken.
<1>1. ASSUME Open(cycle.pc), Open(cycle'.pc), UNCHANGED <<changed, events, localAck>>
      PROVE  UNCHANGED Set!vars
  <2>1. ~Captured /\ ~Captured' /\ Taken = {} /\ Taken' = {} /\ Asked = {} /\ Asked' = {}
    BY <1>1 DEF Captured, Taken, Asked
  <2>2. Noted' = Noted
    BY <1>1, <2>1 DEF Noted
  <2> QED
    BY <1>1, <2>1, <2>2 DEF Set!vars
<1>2. CASE StartCycle \/ FetchBatch
  <2>1. CASE StartCycle
    BY <1>1, <2>1 DEF StartCycle
  <2>2. CASE FetchBatch
    <3>1. cycle.pc = "fetching" /\ cycle'.pc = "fetching" /\ UNCHANGED <<changed, events, localAck>>
      BY <1>0, <2>2 DEF FetchBatch
    <3> QED
      BY <1>1, <3>1
  <2> QED
    BY <1>2, <2>1, <2>2
<1>3. CASE FetchDone
  <2>1. /\ cycle.pc = "fetching" /\ cycle.cursor >= Len(events)
        /\ cycle' = [pc |-> "fetched", cursor |-> cycle.cursor, rows |-> cycle.rows]
        /\ UNCHANGED <<changed, events, localAck>>
    BY <1>0, <1>3 DEF FetchDone
  <2>2. cycle.cursor = Len(events)
    BY <1>0, <2>1 DEF SetInv, JournalInv, FetchComplete
  <2>3. ~Captured /\ ~Captured' /\ Taken = {} /\ Taken' = {}
    BY <2>1 DEF Captured, Taken
  <2>4. Noted' = Noted /\ Asked' = Noted
    BY <2>1, <2>2, <2>3 DEF Noted, Asked
  <2> QED
    BY <2>1, <2>3, <2>4 DEF Set!Next, Set!Ask
<1>4. CASE RecordCycle
  <2>1. cycle.pc = "fetched" /\ UNCHANGED <<changed, events, localAck>>
    BY <1>4 DEF RecordCycle
  <2>2. \/ cycle' = Idle
        \/ cycle' = [pc |-> "recorded", cursor |-> cycle.cursor, rows |-> cycle.rows]
    BY <1>0, <1>4 DEF RecordCycle
  <2>3. CASE cycle' = Idle
    BY <2>1, <2>3, EndReturns DEF Set!Next
  <2>4. CASE cycle' = [pc |-> "recorded", cursor |-> cycle.cursor, rows |-> cycle.rows]
    <3>1. ~Captured /\ ~Captured' /\ Taken = {} /\ Taken' = {}
      BY <2>1, <2>4 DEF Captured, Taken
    <3>2. Noted' = Noted /\ Asked' = Asked
      BY <2>1, <2>4, <3>1 DEF Noted, Asked
    <3> QED
      BY <2>1, <3>1, <3>2 DEF Set!vars
  <2> QED
    BY <2>2, <2>3, <2>4
<1>5. CASE CapturePending
  <2> DEFINE rows == {r \in imported : r.seq > localAck}
  <2>1. /\ cycle.pc = "recorded" /\ cycle' = [pc |-> "captured", cursor |-> cycle.cursor, rows |-> rows]
        /\ UNCHANGED <<changed, events, localAck, imported, delivered>>
    BY <1>0, <1>5 DEF CapturePending
  <2>2. ~Captured /\ Captured' /\ Taken = {} /\ Asked' = {}
    BY <2>1 DEF Captured, Taken, Asked
  <2>3. SetInv'
    BY <2>1 DEF SetInv, RecordedComplete
  <2>4. (Journaled = Noted \cup Taken)'
    BY <2>3, CaptureSplits, PTL
  <2>5. Taken' \cup Noted' = Noted
    <3>1. Journaled' = Journaled
      BY <2>1 DEF Journaled, Marks
    <3>2. Noted = Journaled
      BY <2>2 DEF Noted, Marks, Journaled
    <3> QED
      BY <2>4, <3>1, <3>2
  <2>6. ASSUME NEW m \in Asked
        PROVE  m \in Taken'
    <3>1. PICK i \in (localAck + 1)..cycle.cursor : Notes(events[i], m)
      BY <2>6 DEF Asked
    <3>2. PICK r \in imported : r.seq = i
      BY <2>1, <3>1 DEF SetInv, RecordedComplete, HasRow
    <3>3. r \in rows /\ Notes(r.event, m)
      BY <1>0, <3>1, <3>2
    <3>4. m \in Paths \cup {AnyPath}
      BY <2>6 DEF Asked
    <3> QED
      BY <2>1, <2>2, <3>3, <3>4 DEF Taken
  <2> QED
    BY <2>1, <2>2, <2>5, <2>6 DEF Set!Next, Set!Take
<1>6. CASE ReadDirty
  <2>1. /\ cycle.pc = "captured" /\ cycle' = [pc |-> "read", cursor |-> cycle.cursor, rows |-> cycle.rows]
        /\ UNCHANGED <<changed, events, localAck>>
    BY <1>0, <1>6 DEF ReadDirty
  <2>2. Captured /\ Captured' /\ cycle'.rows = cycle.rows /\ Asked = {} /\ Asked' = {}
    BY <2>1 DEF Captured, Asked
  <2>3. Noted' = Noted /\ Taken' = Taken
    BY <2>1, <2>2 DEF Noted, Taken
  <2> QED
    BY <2>1, <2>2, <2>3 DEF Set!vars
<1>7. CASE Commit
  <2>1. /\ cycle.pc = "read" /\ cycle' = [pc |-> "committed", cursor |-> cycle.cursor, rows |-> cycle.rows]
        /\ UNCHANGED <<changed, events>>
    BY <1>0, <1>7 DEF Commit
  <2>2. Captured /\ ~Captured' /\ Asked = {} /\ Asked' = {} /\ Taken' = {}
    BY <2>1 DEF Captured, Asked, Taken
  <2>3. /\ localAck' \in Nat /\ localAck <= localAck'
        /\ \A r \in cycle.rows : r.seq <= localAck'
        /\ \A i \in (localAck + 1)..Len(events) :
             (\A r \in cycle.rows : r.seq < i) => i > localAck'
    <3>1. CASE cycle.rows = {} /\ UNCHANGED localAck
      BY <1>0, <3>1
    <3>2. CASE \E n \in 1..Len(events) : LastRow(n) /\ localAck' = LargerOf(localAck, n)
      <4>1. PICK n \in 1..Len(events) : LastRow(n) /\ localAck' = LargerOf(localAck, n)
        BY <3>2
      <4>2. PICK r \in cycle.rows : r.seq = n /\ \A s \in cycle.rows : s.seq <= n
        BY <4>1 DEF LastRow
      <4>3. n > localAck
        BY <2>1, <4>2 DEF SetInv, JournalInv, CaptureComplete
      <4>4. localAck' = n
        BY <1>0, <4>1, <4>3 DEF LargerOf
      <4> QED
        BY <1>0, <4>2, <4>3, <4>4
    <3> QED
      BY <1>7, <3>1, <3>2 DEF Commit
  <2>4. \A i \in (localAck + 1)..Len(events) :
          (\A r \in cycle.rows : r.seq < i) <=> i \in (localAck' + 1)..Len(events)
    BY <1>0, <2>3
  <2>5. (localAck' + 1)..Len(events) \subseteq (localAck + 1)..Len(events)
    BY <1>0, <2>3
  <2>6. Noted' = Noted
    BY <2>1, <2>2, <2>4, <2>5 DEF Noted
  <2> QED
    BY <2>1, <2>2, <2>6 DEF Set!Next, Set!Settle
<1>8. CASE CommitRequeued \/ CycleFails
  <2>1. cycle' = Idle /\ UNCHANGED <<changed, events, localAck>>
    BY <1>8 DEF CommitRequeued, CycleFails
  <2> QED
    BY <2>1, EndReturns DEF Set!Next
<1>9. CASE AcknowledgeRemote
  <2>1. cycle' = Idle /\ UNCHANGED <<changed, events, localAck>>
    BY <1>9 DEF AcknowledgeRemote
  <2> QED
    BY <2>1, EndReturns DEF Set!Next
<1> QED
  BY <1>2, <1>3, <1>4, <1>5, <1>6, <1>7, <1>8, <1>9

\* The subscription thread does not show, and a crash returns what was taken.
LEMMA StreamUnseen ==
    ASSUME SetInv,
           \/ Subscribe \/ Reopen \/ StreamBatch \/ StreamRecord \/ StreamBreaks
           \/ SupervisorCrash \/ UNCHANGED vars
    PROVE  [Set!Next]_(Set!vars)
<1>1. CASE Subscribe \/ Reopen \/ StreamBatch \/ StreamRecord \/ StreamBreaks \/ UNCHANGED vars
  <2>1. UNCHANGED <<changed, events, localAck, cycle>>
    BY <1>1 DEF Subscribe, Reopen, StreamBatch, StreamRecord, StreamBreaks, vars
  <2>2. UNCHANGED <<Noted, Asked, Taken>>
    BY <2>1, ViewsStay
  <2> QED
    BY <2>1, <2>2 DEF Set!vars
<1>2. CASE SupervisorCrash
  <2>1. cycle' = Idle /\ UNCHANGED <<changed, events, localAck>>
    BY <1>2 DEF SupervisorCrash
  <2> QED
    BY <2>1, EndReturns DEF Set!Next
<1> QED
  BY <1>1, <1>2

\* To the engine the journal is a set of changes, from which a cycle takes all that was
\* journaled when its fetch ended, and which it settles whole or leaves as it was: the
\* coalescing of unread rows, the watermarks, batches delivered twice, two threads that
\* import, failures and crashes do not show.
THEOREM JournalIsASet == Spec => ActsAsSet
<1>1. Init => Set!Init
  BY DEF Init, Set!Init, Noted, Asked, Taken, Captured, Idle
<1>2. Init => RecordedComplete
  BY DEF Init, RecordedComplete, Idle
<1>3. JournalInv /\ RecordedComplete /\ [Next]_vars => RecordedComplete'
  BY RecordedStays
<1>4. JournalInv /\ JournalInv' /\ RecordedComplete /\ [Next]_vars => [Set!Next]_(Set!vars)
  BY WatcherNotes, CycleTakes, StreamUnseen DEF Next, SetInv
<1> QED
  BY <1>1, <1>2, <1>3, <1>4, JournalInvariant, PTL DEF Spec, ActsAsSet, Set!Spec

=============================================================================
