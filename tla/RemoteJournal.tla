---------------------------- MODULE RemoteJournal ----------------------------
(***************************************************************************)
(* The remote journal and its delivery to the supervisor.                  *)
(*                                                                         *)
(* On the remote host a watcher process appends filesystem events to the   *)
(* events table of RemoteStore (remote_agent/store.py), which coalesces    *)
(* them, and agent processes started over SSH read and acknowledge them.   *)
(* On the local host two threads import them into the events table of      *)
(* WorkspaceStore (state.py): the engine's cycle, which asks for all the   *)
(* events after its watermark, and the subscription thread of the          *)
(* supervisor, which follows a stream that may break and be reopened.      *)
(*                                                                         *)
(* Every SQLite transaction is one step.  The events table never loses a   *)
(* row and its sequence is AUTOINCREMENT, so a sequence number is an index *)
(* of the sequence `events'.                                               *)
(***************************************************************************)
EXTENDS Integers, Sequences, FiniteSets

CONSTANTS
    Paths,      \* the workspace paths that may change
    NoPath,     \* the destination_path of an event that is not a move
    AnyPath,    \* the path "*" of a rescan-required event
    BatchSize,  \* _EVENT_BATCH_SIZE: rows one read transaction returns
    MaxEvents   \* bound: rows of the remote events table

ASSUME PathsAssumption == NoPath \notin Paths /\ AnyPath \notin Paths
ASSUME BatchAssumption == BatchSize \in Nat \ {0}
ASSUME BoundAssumption == MaxEvents \in Nat

VARIABLES
    changed,    \* paths changed on the remote disk, event still in the watcher
    events,     \* the remote events table: a sequence of Event
    acked,      \* remote watermark.acknowledged_sequence
    delivered,  \* remote watermark.delivered_sequence
    imported,   \* the local events table (side "remote"): a set of Row
    localAck,   \* local watermarks.acknowledged_sequence (side "remote")
    cycle,      \* the engine's thread: one run of _run_once
    stream,     \* the subscription: its agent process and the lines in flight
    lastAck,    \* RemoteEventSubscription._last_acknowledged
    unread,     \* history: paths changed since the engine last read them
    rejected    \* history: record_events or acknowledge raised an error

vars == <<changed, events, acked, delivered, imported, localAck, cycle, stream,
          lastAck, unread, rejected>>

PathKinds == {"create", "modify", "delete"}

Event == [kind : PathKinds, path : Paths, dest : {NoPath}]
         \cup [kind : {"move"}, path : Paths, dest : Paths]
         \cup [kind : {"rescan-required"}, path : {AnyPath}, dest : {NoPath}]

\* A row as it travels to, and is stored on, the local host.
Row == [seq : Nat, event : Event]

LargerOf(a, b) == IF a < b THEN b ELSE a

\* The paths an event makes dirty; a rescan makes the engine read every path.
Touches(e, p) == e.kind = "rescan-required" \/ e.path = p \/ e.dest = p

-----------------------------------------------------------------------------
(* The remote host: watcher and events table.                              *)

\* Coding error: coalescing looks at the acknowledged watermark only.
ProtectAckedOnly == acked

\* _coalesce_event: rows up to here are never rewritten.
ProtectedSequence == LargerOf(acked, delivered)

\* _coalesce_event, rescan: the newest unprotected rescan row absorbs another.
RescanRows == {i \in 1..Len(events) : /\ i > ProtectedSequence
                                      /\ events[i].kind = "rescan-required"}

\* _coalesce_event: the unprotected rows about p, and the newest of them.
RowsAbout(p) == {i \in 1..Len(events) : /\ i > ProtectedSequence
                                        /\ (events[i].path = p \/ events[i].dest = p)}

IsNewest(i, S) == i \in S /\ \A j \in S : j <= i

\* _merge_event_kinds: the kind of the row that stands for both events.
MergedKind(previous, current) ==
    CASE current = "delete" -> "delete"
      [] previous = "create" /\ current # "delete" -> "create"
      [] OTHER -> "modify"

\* append_event for create, modify and delete: rewrite the newest row about p
\* unless it is protected or a move, else insert.
AppendPathEvent(kind, p) ==
    \/ \E i \in RowsAbout(p) :
        /\ IsNewest(i, RowsAbout(p))
        /\ events[i].kind \in PathKinds
        /\ events' = [events EXCEPT ![i] =
             [kind |-> MergedKind(events[i].kind, kind), path |-> p, dest |-> NoPath]]
    \/ /\ \A i \in RowsAbout(p) :
            IsNewest(i, RowsAbout(p)) => events[i].kind \notin PathKinds
       /\ Len(events) < MaxEvents
       /\ events' = Append(events, [kind |-> kind, path |-> p, dest |-> NoPath])

\* append_event for move: always a new row.
AppendMove(p, q) ==
    /\ Len(events) < MaxEvents
    /\ events' = Append(events, [kind |-> "move", path |-> p, dest |-> q])

\* append_event for rescan-required.
AppendRescan ==
    \/ RescanRows # {} /\ UNCHANGED events
    \/ /\ RescanRows = {}
       /\ Len(events) < MaxEvents
       /\ events' = Append(events,
            [kind |-> "rescan-required", path |-> AnyPath, dest |-> NoPath])

\* A process on the remote host changes p; the watcher will learn of it.
DiskChange(p) ==
    /\ changed' = changed \cup {p}
    /\ unread' = unread \cup {p}
    /\ UNCHANGED <<events, acked, delivered, imported, localAck, cycle, stream,
                   lastAck, rejected>>

\* The watcher journals a change it was told of.
WatchPath(kind, p) ==
    /\ p \in changed
    /\ AppendPathEvent(kind, p)
    /\ changed' = changed \ {p}
    /\ UNCHANGED <<acked, delivered, imported, localAck, cycle, stream, lastAck,
                   unread, rejected>>

\* The watcher journals a rename of p to q.
WatchMove(p, q) ==
    /\ p # q
    /\ {p, q} \subseteq changed
    /\ AppendMove(p, q)
    /\ changed' = changed \ {p, q}
    /\ UNCHANGED <<acked, delivered, imported, localAck, cycle, stream, lastAck,
                   unread, rejected>>

\* The watcher lost track (queue overflow, replaced root): one rescan row
\* stands for every change it could not name.
WatchOverflow ==
    /\ changed # {}
    /\ AppendRescan
    /\ changed' = {}
    /\ UNCHANGED <<acked, delivered, imported, localAck, cycle, stream, lastAck,
                   unread, rejected>>

\* events_after: the rows of one read transaction, which also raises the
\* delivered watermark to its last row.
BatchEnd(cursor) ==
    IF cursor + BatchSize < Len(events) THEN cursor + BatchSize ELSE Len(events)

RowsBetween(first, last) == {[seq |-> i, event |-> events[i]] : i \in first..last}

Deliver(cursor) == delivered' = LargerOf(delivered, BatchEnd(cursor))

-----------------------------------------------------------------------------
(* The engine's cycle: _run_once, as far as the remote journal is          *)
(* concerned.                                                              *)

Idle == [pc |-> "idle", cursor |-> 0, rows |-> {}]

\* remote_after = store.acknowledged_sequence; the agent process starts.
StartCycle ==
    /\ cycle.pc = "idle"
    /\ cycle' = [pc |-> "fetching", cursor |-> localAck, rows |-> {}]
    /\ UNCHANGED <<changed, events, acked, delivered, imported, localAck, stream,
                   lastAck, unread, rejected>>

\* _handle_events without follow: another batch, until a batch is empty.
FetchBatch ==
    /\ cycle.pc = "fetching"
    /\ cycle.cursor < Len(events)
    /\ cycle' = [cycle EXCEPT !.cursor = BatchEnd(cycle.cursor),
                              !.rows = @ \cup RowsBetween(cycle.cursor + 1,
                                                          BatchEnd(cycle.cursor))]
    /\ Deliver(cycle.cursor)
    /\ UNCHANGED <<changed, events, acked, imported, localAck, stream, lastAck,
                   unread, rejected>>

\* Coding error: one batch is asked for, not all.
FetchOne ==
    /\ cycle.pc = "fetching"
    /\ cycle' = [cycle EXCEPT !.pc = "fetched"]
    /\ UNCHANGED <<changed, events, acked, delivered, imported, localAck, stream,
                   lastAck, unread, rejected>>

FetchDone ==
    /\ cycle.pc = "fetching"
    /\ cycle.cursor >= Len(events)
    /\ cycle' = [cycle EXCEPT !.pc = "fetched"]
    /\ UNCHANGED <<changed, events, acked, delivered, imported, localAck, stream,
                   lastAck, unread, rejected>>

\* record_events: rows already stored must be equal, the others are inserted.
Contradicts(row) == \E r \in imported : r.seq = row.seq /\ r.event # row.event

RecordCycle ==
    /\ cycle.pc = "fetched"
    /\ \/ /\ \E row \in cycle.rows : Contradicts(row)
          /\ rejected' = TRUE
          /\ cycle' = Idle
          /\ UNCHANGED imported
       \/ /\ \A row \in cycle.rows : ~Contradicts(row)
          /\ imported' = imported \cup cycle.rows
          /\ cycle' = [cycle EXCEPT !.pc = "recorded"]
          /\ UNCHANGED rejected
    /\ UNCHANGED <<changed, events, acked, delivered, localAck, stream, lastAck, unread>>

\* pending_events: everything stored above the watermark, rows the
\* subscription stored meanwhile included.
CapturePending ==
    /\ cycle.pc = "recorded"
    /\ cycle' = [cycle EXCEPT !.pc = "captured",
                              !.rows = {r \in imported : r.seq > localAck}]
    /\ UNCHANGED <<changed, events, acked, delivered, imported, localAck, stream,
                   lastAck, unread, rejected>>

\* The cycle reads the remote metadata of every path a captured row touches.
ReadDirty ==
    /\ cycle.pc = "captured"
    /\ cycle' = [cycle EXCEPT !.pc = "read"]
    /\ unread' = {p \in unread : \A r \in cycle.rows : ~Touches(r.event, p)}
    /\ UNCHANGED <<changed, events, acked, delivered, imported, localAck, stream,
                   lastAck, rejected>>

LastRow(n) == \E r \in cycle.rows : r.seq = n /\ \A s \in cycle.rows : s.seq <= n

\* Coding error: the commit acknowledges the newest row stored by now, not
\* the last one it captured.
CommitNewest ==
    /\ cycle.pc = "read"
    /\ \/ imported = {} /\ UNCHANGED localAck
       \/ \E r \in imported : /\ \A s \in imported : s.seq <= r.seq
                              /\ localAck' = LargerOf(localAck, r.seq)
    /\ cycle' = [cycle EXCEPT !.pc = "committed"]
    /\ UNCHANGED <<changed, events, acked, delivered, imported, stream, lastAck,
                   unread, rejected>>

\* The commit of a cycle: acknowledge the last captured row locally.  With no
\* row captured the watermark stays (and _commit_noop repeats it remotely).
Commit ==
    /\ cycle.pc = "read"
    /\ \/ cycle.rows = {} /\ UNCHANGED localAck
       \/ \E n \in 1..Len(events) : /\ LastRow(n)
                                    /\ localAck' = LargerOf(localAck, n)
    /\ cycle' = [cycle EXCEPT !.pc = "committed"]
    /\ UNCHANGED <<changed, events, acked, delivered, imported, stream, lastAck,
                   unread, rejected>>

\* The commit of a cycle that met a path changed during transfer: the paths
\* are requeued and neither journal is acknowledged.
CommitRequeued ==
    /\ cycle.pc = "read"
    /\ cycle.rows # {}
    /\ cycle' = Idle
    /\ UNCHANGED <<changed, events, acked, delivered, imported, localAck, stream,
                   lastAck, unread, rejected>>

\* remote.acknowledge after the commit: RemoteStore.acknowledge refuses a
\* sequence beyond its table; the reply informs the subscription.
AcknowledgeRemote ==
    /\ cycle.pc = "committed"
    /\ \/ /\ localAck > Len(events)
          /\ rejected' = TRUE
          /\ UNCHANGED <<acked, lastAck>>
       \/ /\ localAck <= Len(events)
          /\ acked' = LargerOf(acked, localAck)
          /\ \/ lastAck' = LargerOf(lastAck, acked')
             \/ UNCHANGED lastAck                      \* the reply is lost
          /\ UNCHANGED rejected
    /\ cycle' = Idle
    /\ UNCHANGED <<changed, events, delivered, imported, localAck, stream, unread>>

\* SSH fails under the cycle, or a later step of the cycle raises.
CycleFails ==
    /\ cycle.pc # "idle"
    /\ cycle' = Idle
    /\ UNCHANGED <<changed, events, acked, delivered, imported, localAck, stream,
                   lastAck, unread, rejected>>

-----------------------------------------------------------------------------
(* The subscription thread.                                                *)

NoStream == [open |-> FALSE, cursor |-> 0, rows |-> {}]

\* _start_subscription: a new subscription from the local watermark.
Subscribe ==
    /\ ~stream.open
    /\ lastAck' = localAck
    /\ stream' = [open |-> TRUE, cursor |-> localAck, rows |-> {}]
    /\ UNCHANGED <<changed, events, acked, delivered, imported, localAck, cycle,
                   unread, rejected>>

\* Coding error: a reopened stream only follows rows that are still to come.
ReopenAtEnd ==
    /\ ~stream.open
    /\ stream' = [open |-> TRUE, cursor |-> Len(events), rows |-> {}]
    /\ UNCHANGED <<changed, events, acked, delivered, imported, localAck, cycle,
                   lastAck, unread, rejected>>

\* __iter__: the stream ended normally and is reopened.
Reopen ==
    /\ ~stream.open
    /\ stream' = [open |-> TRUE, cursor |-> lastAck, rows |-> {}]
    /\ UNCHANGED <<changed, events, acked, delivered, imported, localAck, cycle,
                   lastAck, unread, rejected>>

\* _handle_events with follow: the next batch goes on the wire.
StreamBatch ==
    /\ stream.open
    /\ stream.cursor < Len(events)
    /\ stream' = [stream EXCEPT !.cursor = BatchEnd(stream.cursor),
                                !.rows = @ \cup RowsBetween(stream.cursor + 1,
                                                            BatchEnd(stream.cursor))]
    /\ Deliver(stream.cursor)
    /\ UNCHANGED <<changed, events, acked, imported, localAck, cycle, lastAck,
                   unread, rejected>>

\* _consume_subscription: the next line in order is recorded.
StreamRecord ==
    \E row \in stream.rows :
        /\ \A r \in stream.rows : row.seq <= r.seq
        /\ \/ /\ Contradicts(row)
              /\ rejected' = TRUE
              /\ stream' = NoStream
              /\ UNCHANGED imported
           \/ /\ ~Contradicts(row)
              /\ imported' = imported \cup {row}
              /\ stream' = [stream EXCEPT !.rows = @ \ {row}]
              /\ UNCHANGED rejected
        /\ UNCHANGED <<changed, events, acked, delivered, localAck, cycle, lastAck, unread>>

\* The stream breaks; the lines in flight are lost.
StreamBreaks ==
    /\ stream.open
    /\ stream' = NoStream
    /\ UNCHANGED <<changed, events, acked, delivered, imported, localAck, cycle,
                   lastAck, unread, rejected>>

\* The supervisor process dies and is started again: the tables survive.
SupervisorCrash ==
    /\ cycle' = Idle
    /\ stream' = NoStream
    /\ lastAck' = localAck
    /\ UNCHANGED <<changed, events, acked, delivered, imported, localAck, unread, rejected>>

-----------------------------------------------------------------------------
Init ==
    /\ changed = {}
    /\ events = <<>>
    /\ acked = 0
    /\ delivered = 0
    /\ imported = {}
    /\ localAck = 0
    /\ cycle = Idle
    /\ stream = NoStream
    /\ lastAck = 0
    /\ unread = {}
    /\ rejected = FALSE

Next ==
    \/ \E p \in Paths : DiskChange(p)
    \/ \E p \in Paths, kind \in PathKinds : WatchPath(kind, p)
    \/ \E p, q \in Paths : WatchMove(p, q)
    \/ WatchOverflow
    \/ StartCycle \/ FetchBatch \/ FetchDone \/ RecordCycle \/ CapturePending
    \/ ReadDirty \/ Commit \/ CommitRequeued \/ AcknowledgeRemote \/ CycleFails
    \/ Subscribe \/ Reopen \/ StreamBatch \/ StreamRecord \/ StreamBreaks
    \/ SupervisorCrash

Spec == Init /\ [][Next]_vars

-----------------------------------------------------------------------------
(* Properties.                                                             *)

TypeOK ==
    /\ changed \subseteq Paths
    /\ events \in Seq(Event)
    /\ acked \in Nat
    /\ delivered \in Nat
    /\ imported \subseteq Row
    /\ localAck \in Nat
    /\ cycle \in [pc : {"idle", "fetching", "fetched", "recorded", "captured",
                        "read", "committed"}, cursor : Nat, rows : SUBSET Row]
    /\ stream \in [open : BOOLEAN, cursor : Nat, rows : SUBSET Row]
    /\ lastAck \in Nat
    /\ unread \subseteq Paths
    /\ rejected \in BOOLEAN

\* Importing the journal never fails: whatever the engine's fetches, the
\* subscription's re-deliveries and the watcher's coalescing do to each other,
\* record_events never meets a stored sequence with another content ("journal
\* sequence changed") and the remote store never refuses an acknowledgement.
NeverRejected == ~rejected

\* A cycle acknowledges through its last captured row, so every row below a
\* stored one must be stored too: the two importing threads leave no gap above
\* the local watermark, even when the stream is cut and reopened elsewhere.
NoGapAboveWatermark ==
    \A r \in imported : \A n \in (localAck + 1)..r.seq :
        \E s \in imported : s.seq = n

\* The remote side forgets nothing the local side still needs: watermarks are
\* ordered, and only rows already delivered are ever acknowledged.
WatermarkOrder ==
    /\ acked <= localAck
    /\ localAck <= delivered
    /\ delivered <= Len(events)
    /\ lastAck <= localAck

\* No remote change is lost: a path changed since the engine last read it is
\* still with the watcher, or a row above the local watermark will make the
\* engine read it.  Coalescing a change into a row that was already delivered
\* would break this.
NoChangeLost ==
    \A p \in unread :
        \/ p \in changed
        \/ \E i \in (localAck + 1)..Len(events) : Touches(events[i], p)

\* The changes a row stands for.
Notes(e, m) ==
    IF e.kind = "rescan-required" THEN m = AnyPath ELSE m \in Paths /\ m \in {e.path, e.dest}

\* The rows above the watermark and above what the cycle has captured.
Captured == cycle.pc \in {"captured", "read"}
Noted ==
    {m \in Paths \cup {AnyPath} : \E i \in (localAck + 1)..Len(events) :
        Notes(events[i], m) /\ (Captured => \A r \in cycle.rows : r.seq < i)}
Asked ==
    {m \in Paths \cup {AnyPath} : cycle.pc \in {"fetched", "recorded"} /\
        \E i \in (localAck + 1)..cycle.cursor : Notes(events[i], m)}
Taken ==
    {m \in Paths \cup {AnyPath} : Captured /\ \E r \in cycle.rows : Notes(r.event, m)}

Set == INSTANCE ChangeSet WITH noted <- Noted, asked <- Asked, taken <- Taken

\* To the engine the journal is a set of changes. A cycle takes every change that was
\* journaled when its fetch ended, acknowledges what it took and no other, and one that ends
\* before its commit leaves them all; coalescing, batches delivered twice, two threads
\* that import and crashes do not show.
ActsAsSet == Set!Spec

-----------------------------------------------------------------------------
(* The strengthening under which the properties above are inductive.       *)

HasRow(S, n) == \E r \in S : r.seq = n

\* Rows on the local host, stored or in flight, are delivered remote rows.
CopiesAgree ==
    \A r \in imported \cup cycle.rows \cup stream.rows :
        /\ r.seq \in 1..delivered
        /\ r.event = events[r.seq]

\* A fetch holds every row from the watermark it started at to its cursor.
FetchComplete ==
    cycle.pc \in {"fetching", "fetched"} =>
        /\ cycle.cursor <= delivered
        /\ \A r \in cycle.rows : r.seq <= cycle.cursor
        /\ \A n \in (localAck + 1)..cycle.cursor : HasRow(cycle.rows, n)

\* A capture is a run of consecutive rows that starts above the watermark.
CaptureComplete ==
    cycle.pc \in {"captured", "read"} =>
        \A r \in cycle.rows :
            /\ r.seq > localAck
            /\ \A n \in (localAck + 1)..r.seq : HasRow(cycle.rows, n)

\* What the stream's agent sent is stored or still in flight.
StreamComplete ==
    /\ stream.cursor <= delivered
    /\ \A r \in stream.rows : r.seq <= stream.cursor
    /\ \A n \in (localAck + 1)..stream.cursor :
            HasRow(imported, n) \/ HasRow(stream.rows, n)

\* Once the dirty paths are read, what is still unread lies above the capture.
UnreadAboveCapture ==
    cycle.pc = "read" =>
        \A p \in unread :
            \/ p \in changed
            \/ \E i \in (localAck + 1)..Len(events) :
                  /\ Touches(events[i], p)
                  /\ \A r \in cycle.rows : r.seq < i

JournalInv ==
    /\ TypeOK
    /\ NeverRejected
    /\ WatermarkOrder
    /\ NoGapAboveWatermark
    /\ NoChangeLost
    /\ CopiesAgree
    /\ FetchComplete
    /\ CaptureComplete
    /\ StreamComplete
    /\ UnreadAboveCapture

=============================================================================
