------------------------------ MODULE LocalWatcher -----------------------------
(***************************************************************************)
(* The local watcher (watch.py, WatchdogLocalWatcher): the observer's      *)
(* thread delivers the file system's events one after the other; an event  *)
(* that was journaled a moment ago is held back and journaled by a timer,  *)
(* unless a newer event takes its place; a lost history, and a periodic    *)
(* timer, ask for a rescan; stop() journals what is held back.             *)
(***************************************************************************)
EXTENDS Tree

CONSTANTS
    MaxLost,        \* bound on lost histories
    MaxAudits       \* bound on periodic audits

VARIABLES
    inbox,          \* the observer's events, not delivered yet
    debounce,       \* _debounce_state: entries [event, pending, recent, gen]
    generation,     \* _generation
    due,            \* timers that have fired and wait for _delivery_lock: [event, gen]
    unhealthy,      \* _unhealthy
    stage,          \* "not started", "on", and how far stop() is: "observer gone",
                    \* "closed", "stopped"
    flush,          \* what stop() took from the debounce
    lost, audits

local == <<inbox, debounce, generation, due, unhealthy, stage, flush, lost, audits>>
localVars == <<tree, local>>

-----------------------------------------------------------------------------
(* The users and the observer.                                             *)

\* map_watchdog_event, of what the observer makes of a change.
Mapped(c) ==
    LET d == <<c.name>>  x == File(c.name)
        withFile(e, f) == IF FileMoves(c) THEN <<e, f>> ELSE <<e>>
    IN  CASE c.op \in {"mkdir", "move in"} -> <<PathEvent("create", d)>>
          [] c.op \in {"rmdir", "move out"} -> <<PathEvent("delete", d)>>
          [] c.op = "add"                  -> <<PathEvent("create", x), PathEvent("modify", d)>>
          [] c.op = "modify"               -> <<PathEvent("modify", x)>>
          [] c.op = "remove"               -> <<PathEvent("delete", x), PathEvent("modify", d)>>
          [] c.op = "move in full"         -> <<PathEvent("create", d), PathEvent("create", x)>>
          [] c.op = "rename"               -> withFile(MoveEvent(d, <<c.to>>), MoveEvent(x, File(c.to)))

LocalChange(c) ==
    /\ stage = "on" /\ Happens(c)
    /\ inbox' = inbox \o Mapped(c) /\ changed' = changed \cup Touched(c)
    /\ UNCHANGED <<known, debounce, generation, due, unhealthy, stage, flush, lost, audits>>

\* The observer loses events and says so.
HistoryLost ==
    /\ stage = "on" /\ inbox # <<>>
    /\ lost < MaxLost /\ lost' = lost + 1 /\ inbox' = <<Rescan>>
    /\ UNCHANGED <<tree, debounce, generation, due, unhealthy, stage, flush, audits>>

-----------------------------------------------------------------------------
(* The debounce.                                                           *)

SameOrBelow(p, q) == IsPrefix(q, p)
Overlap(p, q) == SameOrBelow(p, q) \/ SameOrBelow(q, p)
EventPaths(e) == {e.path, e.to}

\* _newer_event_supersedes_pending
Supersedes(newer, older) ==
    /\ newer # older
    /\ \E p \in EventPaths(newer), q \in EventPaths(older) :
          \/ older.kind \in {"delete", "move"} /\ Overlap(p, q)
          \/ newer.kind \in {"delete", "move"} /\ SameOrBelow(q, p)

Entry(e, pending, gen) == [event |-> e, pending |-> pending, recent |-> TRUE, gen |-> gen]
Pending == {s.event : s \in {t \in debounce : t.pending}}

\* _debounce_event: journal it now, or let a timer do it. The timer of an event
\* that is held back already goes on.
Debounce(e) ==
    LET kept == {s \in debounce : ~Supersedes(e, s.event)}
        mine == {s \in kept : s.event = e}
    IN  IF \A s \in mine : ~s.recent
        THEN debounce' = (kept \ mine) \cup {Entry(e, FALSE, 0)} /\ Announce({e}) /\ UNCHANGED generation
        ELSE /\ UNCHANGED <<changed, known>>
             /\ IF e \in Pending THEN debounce' = kept /\ UNCHANGED generation
                ELSE /\ generation' = generation + 1
                     /\ debounce' = (kept \ mine) \cup {Entry(e, TRUE, generation + 1)}

\* _dispatch
Dispatch ==
    /\ stage = "on" /\ inbox # <<>> /\ Head(inbox) # Rescan /\ inbox' = Tail(inbox)
    /\ Debounce(Head(inbox)) /\ unhealthy' = FALSE
    /\ UNCHANGED <<disk, due, stage, flush, lost, audits>>

\* _report_unhealthy: the first sign asks for a rescan, which is about all that
\* was held back too.
ReportUnhealthy ==
    /\ stage = "on" /\ inbox # <<>> /\ Head(inbox) = Rescan /\ inbox' = Tail(inbox)
    /\ unhealthy' = TRUE
    /\ IF unhealthy THEN UNCHANGED <<changed, known, debounce>> ELSE Announce({Rescan}) /\ debounce' = {}
    /\ UNCHANGED <<disk, generation, due, stage, flush, lost, audits>>

\* _run_periodic_audit
PeriodicAudit ==
    /\ stage = "on" /\ ~unhealthy
    /\ audits < MaxAudits /\ audits' = audits + 1
    /\ Announce({Rescan}) /\ debounce' = {}
    /\ UNCHANGED <<disk, inbox, generation, due, unhealthy, stage, flush, lost>>

\* The interval has passed. An entry that waits for nothing is as good as none
\* then (_prune_debounce_locked).
IntervalPasses ==
    /\ \E s \in debounce :
          /\ s.recent
          /\ debounce' = (debounce \ {s}) \cup (IF s.pending THEN {[s EXCEPT !.recent = FALSE]} ELSE {})
    /\ UNCHANGED <<tree, inbox, generation, due, unhealthy, stage, flush, lost, audits>>

Fire ==
    /\ \E s \in debounce : s.pending /\ ~s.recent /\ due' = due \cup {[event |-> s.event, gen |-> s.gen]}
    /\ UNCHANGED <<tree, inbox, debounce, generation, unhealthy, stage, flush, lost, audits>>

\* _emit_trailing: a timer that was cancelled too late finds nothing of its own.
EmitTrailing ==
    /\ \E t \in due :
          LET mine == {s \in debounce : s.event = t.event /\ s.gen = t.gen /\ s.pending} IN
          /\ due' = due \ {t}
          /\ IF mine = {} THEN UNCHANGED <<changed, known, debounce>>
             ELSE debounce' = (debounce \ mine) \cup {Entry(t.event, FALSE, 0)} /\ Announce({t.event})
    /\ UNCHANGED <<disk, inbox, generation, unhealthy, stage, flush, lost, audits>>

-----------------------------------------------------------------------------
(* stop()                                                                  *)

\* What only the observer knew of is left to the audit of the next start.
StopObserver ==
    /\ stage = "on" /\ stage' = "observer gone"
    /\ inbox' = <<>> /\ changed' = changed \cap CoversAll(Pending)
    /\ UNCHANGED <<disk, known, debounce, generation, due, unhealthy, flush, lost, audits>>

\* Coding error: the debounce is closed with nothing taken from it.
CloseEmpty ==
    /\ stage = "observer gone" /\ stage' = "closed"
    /\ flush' = {} /\ debounce' = {}
    /\ UNCHANGED <<tree, inbox, generation, due, unhealthy, lost, audits>>

\* _close_debounce
CloseDebounce ==
    /\ stage = "observer gone" /\ stage' = "closed"
    /\ flush' = Pending /\ debounce' = {}
    /\ UNCHANGED <<tree, inbox, generation, due, unhealthy, lost, audits>>

Flush ==
    /\ stage = "closed" /\ stage' = "stopped"
    /\ Announce(flush) /\ flush' = {}
    /\ UNCHANGED <<disk, inbox, debounce, generation, due, unhealthy, lost, audits>>

LocalInit ==
    /\ inbox = <<>> /\ debounce = {} /\ generation = 0 /\ due = {} /\ unhealthy = FALSE
    /\ stage \in {"not started", "on"} /\ flush = {} /\ lost = 0 /\ audits = 0

LocalWorks ==
    Dispatch \/ ReportUnhealthy \/ PeriodicAudit \/ IntervalPasses \/ Fire \/ EmitTrailing
        \/ StopObserver \/ CloseDebounce \/ Flush
LocalNext == (\E c \in Change : LocalChange(c)) \/ HistoryLost \/ LocalWorks

-----------------------------------------------------------------------------
(* One entry for an event; one that is pending has a timer of its own.      *)
LocalTypeOK ==
    /\ \A s, t \in debounce : s.event = t.event => s = t
    /\ \A s, t \in debounce : s.pending /\ t.pending /\ s.gen = t.gen => s = t
    /\ unhealthy \in BOOLEAN /\ stage \in {"not started", "on", "observer gone", "closed", "stopped"}
    /\ stage \in {"closed", "stopped"} => debounce = {}

(* Every path that changed has been journaled since it did, or is covered   *)
(* by an event that is still to be delivered, by one held back whose timer  *)
(* is running, or by one stop() is about to journal: supersession, timers   *)
(* that fire too late, rescans and the stop drop nothing (_debounce_event,  *)
(* _emit_trailing, _run_periodic_audit, stop).                              *)
LocalChangesAnnounced ==
    stage # "not started" => Owed \subseteq CoversAll(ToSet(inbox) \cup Pending \cup flush)
=============================================================================
