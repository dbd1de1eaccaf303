---------------------------- MODULE InitialSync ----------------------------
(***************************************************************************)
(* The first synchronisation of a workspace (initial_sync.py): one bulk    *)
(* transfer from the side that has content to the empty one, then cycles   *)
(* of the engine until both journals are quiet.  It is run again from the  *)
(* start after every failure and every crash, on top of what the earlier   *)
(* runs transferred, until it completes: the model ends there, and         *)
(* SyncEngine is about what follows.  Disks, journals, stores and the      *)
(* cycle are those of SyncEngine.                                          *)
(*                                                                         *)
(* Placeholders for large files are not modelled.                          *)
(***************************************************************************)
EXTENDS SyncEngine

VARIABLES
    initial,    \* where run() stands
    seeded,     \* verified paths stored as base but not read back yet
    refused,    \* the latest run found both sides non-empty and gave up
    \* History, read by the properties only:
    blind,      \* edits whose event was lost or came after the plan
    offline     \* edits made while the supervisor was dead

initialVars == <<initial, seeded, refused, blind, offline>>
allVars == <<vars, initialVars>>

\* "unbound" before the watermarks of the journals are stored; "boot" between
\* runs; "quiet" after a replay cycle that did nothing.
Phases == {"unbound", "boot", "scan", "snapshot", "plan", "bulk", "seed", "abandon",
           "replay", "quiet", "ready"}

Replaying == initial \in {"replay", "quiet"}
Running == initial \notin {"unbound", "boot", "ready"}

Populated(d, s) == \E p \in Paths : d[<<s, p>>] # Missing

\* bind.py admits workspaces with an empty side; versions are distinct.  The
\* entries present at first count as edits (bound).
BindInit ==
    /\ \E s \in Sides, present \in SUBSET Paths :
          /\ Cardinality(present) \in 0..MaxEdits
          /\ \E contents \in [Sides \X Paths -> 0..Cardinality(present)] :
                /\ \A q \in Paths : contents[<<s, q>>] # Missing <=> q \in present
                /\ \A q \in Paths : contents[<<Other(s), q>>] = Missing
                /\ \A p, q \in present : contents[<<s, p>>] = contents[<<s, q>>] => p = q
                /\ Fresh(contents, Cardinality(present))
    /\ pc = "down"
    /\ initial = "unbound" /\ seeded = {} /\ refused = FALSE
    /\ blind = {} /\ offline = {}

-----------------------------------------------------------------------------
(* Users, watchers and crashes while the first synchronisation is pending. *)

\* The edits at a side that the watcher has not recorded.
Unrecorded(s) == {<<p, disk[<<s, p>>]>> : p \in raw[s]}

Edit ==
    /\ \E s \in Sides, p \in Paths :
          /\ UserEdit(s, p)
          /\ offline' = IF s = "local" /\ pc = "down" /\ initial = "boot"
                        THEN offline \cup {<<p, disk'[<<s, p>>]>>} ELSE offline
    /\ UNCHANGED <<initial, seeded, refused, blind>>

Watch(s, p) ==
    /\ initial \notin {"unbound", "ready"}
    /\ Notify(s, p)
    /\ UNCHANGED initialVars

Audit ==
    /\ initial \notin {"unbound", "ready"}
    /\ RequestAudit
    /\ UNCHANGED initialVars

LoseEvents ==
    /\ initial # "unbound" /\ Overflow
    /\ blind' = blind \cup Unrecorded("remote")
    /\ UNCHANGED <<initial, seeded, refused, offline>>

Die ==
    /\ Crash
    /\ initial' = IF Running THEN "boot" ELSE initial
    /\ blind' = blind \cup Unrecorded("local")
    /\ seeded' = {}
    /\ UNCHANGED <<refused, offline>>

-----------------------------------------------------------------------------
(* The coordinator, up to the bulk transfer.                               *)

\* Coding error: every run takes new watermarks and discards what came before.
BeginAnew ==
    /\ initial \in {"unbound", "boot"} /\ pc \in {"down", "idle"}
    /\ initial' = "scan" /\ pc' = "idle"
    /\ raw' = [s \in Sides |-> {}] /\ pend' = [s \in Sides |-> {}]
    /\ UNCHANGED <<disk, stores, cycle, bounds, history, seeded, refused, blind, offline>>

\* Start the watchers.  The first run records the sequence numbers they have
\* reached and discards the events up to there; later runs keep the checkpoint.
Begin ==
    /\ initial \in {"unbound", "boot"} /\ pc \in {"down", "idle"}
    /\ initial' = "scan" /\ pc' = "idle"
    /\ IF initial = "unbound"
       THEN raw' = [s \in Sides |-> {}] /\ pend' = [s \in Sides |-> {}]
       ELSE UNCHANGED <<raw, pend>>
    /\ UNCHANGED <<disk, stores, cycle, bounds, history, seeded, refused, blind, offline>>

\* _local_snapshot, then _remote_snapshot.
Scan(s) ==
    /\ initial = IF s = "local" THEN "scan" ELSE "snapshot"
    /\ initial' = IF s = "local" THEN "snapshot" ELSE "plan"
    /\ seen' = [k \in Sides \X Paths |-> IF k[1] = s THEN disk[k] ELSE seen[k]]
    /\ UNCHANGED <<disk, raw, pend, stores, pc, stage, cap, retried, matched, plan, staged,
                   installed, changed, after, bounds, history, seeded, refused, blind, offline>>

\* choose_initial_direction, as the side to copy from: with both sides
\* populated, the echo of some path of the base tells where a run copied to.
SourcesAllowed ==
    IF ~Populated(seen, "remote") THEN {"local"}
    ELSE IF ~Populated(seen, "local") THEN {"remote"}
    ELSE {s \in Sides : \E p \in Paths :
            /\ base[p] # Missing /\ echo[<<Other(s), p>>] # NoEcho
            /\ s = "remote" => echo[<<"remote", p>>] = NoEcho}

\* _changes_since; rescan markers name no path.
Noticed == (pend["local"] \cup pend["remote"]) \cap Paths

\* build_initial_plan: paths where both sides still are the base are done.
Unfinished(s) ==
    {p \in Paths : seen[<<s, p>>] # Missing /\ \E t \in Sides : seen[<<t, p>>] # base[p]}

\* Coding error: paths that changed since the checkpoint are copied as well.
PlanEverything ==
    /\ initial = "plan" /\ SourcesAllowed # {}
    /\ \E s \in SourcesAllowed :
          /\ plan' = [p \in Paths |-> IF p \in Unfinished(s)
                                      THEN IF s = "local" THEN "push" ELSE "pull"
                                      ELSE "idle"]
          /\ stage' = IF s = "local" THEN 1 ELSE 2
          /\ IF Unfinished(s) = {} THEN initial' = "replay" /\ UNCHANGED pc
             ELSE initial' = "bulk" /\ pc' = "stage"
    /\ refused' = FALSE
    /\ requeued' = requeued \cup Noticed
    /\ UNCHANGED <<disk, raw, pend, base, echo, conflicts, cap, retried, seen, matched, staged,
                   installed, changed, after, bounds, history, seeded, blind, offline>>

\* The bulk plan leaves out the paths that changed since the checkpoint.
PlanBulk ==
    /\ initial = "plan" /\ SourcesAllowed # {}
    /\ \E s \in SourcesAllowed : LET items == Unfinished(s) \ Noticed IN
          /\ plan' = [p \in Paths |-> IF p \in items
                                      THEN IF s = "local" THEN "push" ELSE "pull"
                                      ELSE "idle"]
          /\ stage' = IF s = "local" THEN 1 ELSE 2
          /\ IF items = {} THEN initial' = "replay" /\ UNCHANGED pc
             ELSE initial' = "bulk" /\ pc' = "stage"
    /\ refused' = FALSE
    /\ requeued' = requeued \cup Noticed
    /\ blind' = blind \cup UNION {{e \in Unrecorded(s) : seen[<<s, e[1]>>] = e[2]} : s \in Sides}
    /\ UNCHANGED <<disk, raw, pend, base, echo, conflicts, cap, retried, seen, matched, staged,
                   installed, changed, after, bounds, history, seeded, offline>>

\* run() raises, and the supervisor starts it again.
EndRun ==
    /\ Reset(FALSE)
    /\ initial' = "boot" /\ pc' = "idle" /\ seeded' = {}
    /\ UNCHANGED <<disk, raw, stores, history, blind, offline>>

Refuse ==
    /\ initial = "plan" /\ SourcesAllowed = {}
    /\ EndRun /\ refused' = TRUE
    /\ UNCHANGED bounds

-----------------------------------------------------------------------------
(* The bulk transfer: the transport of SyncEngine, without intents.        *)

\* The transport copies and installs one batch.
Bulk ==
    /\ initial = "bulk"
    /\ \/ Preflight /\ pc' = "copy"
       \/ CopySources /\ pc' = "install"
       \/ \E p \in Paths : Install(p)
    /\ UNCHANGED initialVars

\* The preflight or the copy finds a path changed.
BulkMismatch ==
    /\ initial = "bulk"
    /\ \/ pc = "stage" /\ \E p \in Active : ~Agrees(p)
       \/ pc = "copy" /\ \E p \in Active : disk[<<Source(plan[p]), p>>] = Missing
    /\ EndRun
    /\ UNCHANGED <<bounds, refused>>

\* _verified_result: progress reports what was verified, also when a later
\* item of the batch then fails.
Verify ==
    /\ initial = "bulk" /\ pc = "postflight"
    /\ LET moved == {p \in Active : disk[<<Source(plan[p]), p>>] # seen[<<Source(plan[p]), p>>]}
           wrong == {p \in Active \ moved :
                        disk[<<Destination(plan[p]), p>>] # disk[<<Source(plan[p]), p>>]}
           good == Active \ (moved \cup wrong)
       IN  /\ changed' = moved
           /\ IF wrong = {}
              THEN installed' = good /\ initial' = "seed"
              ELSE installed' \in SUBSET good /\ initial' = "abandon"
    /\ pc' = "verify"
    /\ UNCHANGED <<disk, raw, pend, stores, stage, cap, retried, seen, matched, plan, staged,
                   after, bounds, history, seeded, refused, blind, offline>>

\* Coding error: the destination is read once more for the base.
SeedRehashed ==
    /\ initial \in {"seed", "abandon"} /\ seeded = {}
    /\ \E verified \in (SUBSET installed) \ {{}} :
          LET entry(p) == disk[<<Destination(plan[p]), p>>] IN
          /\ base' = [p \in Paths |-> IF p \in verified THEN entry(p) ELSE base[p]]
          /\ echo' = [k \in Sides \X Paths |->
                         IF k[2] \in verified /\ k[1] = Destination(plan[k[2]])
                         THEN entry(k[2]) ELSE echo[k]]
          /\ installed' = installed \ verified
          /\ seeded' = verified
    /\ UNCHANGED <<disk, raw, pend, requeued, conflicts, pc, stage, cap, retried, seen, matched,
                   plan, staged, changed, after, bounds, history, initial, refused, blind, offline>>

\* seed_verified_transfer, one transaction for each progress report.
Seed ==
    /\ initial \in {"seed", "abandon"} /\ seeded = {}
    /\ \E verified \in (SUBSET installed) \ {{}} :
          /\ base' = [p \in Paths |->
                         IF p \in verified THEN seen[<<Source(plan[p]), p>>] ELSE base[p]]
          /\ echo' = [k \in Sides \X Paths |->
                         IF k[2] \in verified /\ k[1] = Destination(plan[k[2]])
                         THEN seen[<<Source(plan[k[2]]), k[2]>>] ELSE echo[k]]
          /\ installed' = installed \ verified
          /\ seeded' = verified
    /\ UNCHANGED <<disk, raw, pend, requeued, conflicts, pc, stage, cap, retried, seen, matched,
                   plan, staged, changed, after, bounds, history, initial, refused, blind, offline>>

\* audit_coordinator.refresh, at the end of the report's handler.
RefreshSeeded ==
    /\ seeded # {} /\ seeded' = {}
    /\ requeued' = requeued \cup {p \in seeded : ~Agreed(p)}
    /\ UNCHANGED <<disk, raw, pend, base, echo, conflicts, pc, cycle, bounds, history, initial,
                   refused, blind, offline>>

\* transfer() returns; moved sources are left to the replay.
EndBulk ==
    /\ initial = "seed" /\ installed = {} /\ seeded = {}
    /\ requeued' = requeued \cup changed
    /\ Reset(FALSE)
    /\ initial' = "replay" /\ pc' = "idle"
    /\ UNCHANGED <<disk, raw, base, echo, conflicts, bounds, history, seeded, refused, blind,
                   offline>>

Abandon ==
    /\ initial = "abandon" /\ installed = {} /\ seeded = {}
    /\ EndRun
    /\ UNCHANGED <<bounds, refused>>

\* A remote call or a transaction of the coordinator fails.
RunFails ==
    /\ Running /\ (Replaying => pc = "idle") /\ faults < MaxFaults
    /\ faults' = faults + 1
    /\ EndRun
    /\ UNCHANGED <<edits, refused>>

-----------------------------------------------------------------------------
(* The replay: cycles of the engine.                                       *)

\* Two cycles in a row without work: complete_initial_sync.
Quieten == initial' = IF initial = "quiet" THEN "ready" ELSE "quiet"

\* Coding error: the replay retries unresolved conflicts, as other cycles do.
ReplayCaptureAll ==
    /\ Replaying /\ Capture
    /\ UNCHANGED initialVars

\* The replay leaves unresolved conflicts alone: retrying them is work.
ReplayCapture ==
    /\ Replaying /\ CaptureAnd({})
    /\ UNCHANGED initialVars

\* A cycle finds nothing to take.
ReplayIdle ==
    /\ Replaying /\ pc = "idle"
    /\ pend["local"] \cup pend["remote"] \cup requeued = {}
    /\ Quieten
    /\ UNCHANGED <<vars, seeded, refused, blind, offline>>

\* A cycle ends without a plan: it did nothing, or recognised echoes.
ReplayEchoes ==
    /\ Replaying /\ CommitEchoes
    /\ IF MatchedEchoes = {} THEN Quieten ELSE initial' = "replay"
    /\ UNCHANGED <<seeded, refused, blind, offline>>

\* Any other step of a cycle; a cycle that raises ends the run.
ReplayCycle ==
    /\ Replaying /\ ~(pc = "plan" /\ Dirty = {})
    /\ CycleRest \/ Fail
    /\ initial' = IF pc' = "idle" /\ ~(pc = "refresh" /\ faults' = faults) THEN "boot"
                  ELSE IF pc \in {"audit", "observe"} THEN initial ELSE "replay"
    /\ UNCHANGED <<seeded, refused, blind, offline>>

Coordinate ==
    \/ Begin \/ PlanBulk \/ Refuse \/ Bulk \/ BulkMismatch \/ Verify \/ Seed
    \/ RefreshSeeded \/ EndBulk \/ Abandon
    \/ ReplayCapture \/ ReplayIdle \/ ReplayEchoes \/ ReplayCycle
    \/ \E s \in Sides : Scan(s)

NextInitial ==
    /\ initial # "ready"
    /\ \/ Edit \/ Audit \/ LoseEvents \/ Die \/ RunFails \/ Coordinate
       \/ \E s \in Sides, p \in Paths : Watch(s, p)

\* As in SyncEngine; a run that ended is started again by the supervisor.
InitialFairness ==
    /\ WF_allVars(Coordinate)
    /\ \A s \in Sides, p \in Paths : WF_allVars(Watch(s, p))

InitialSpec == BindInit /\ [][NextInitial]_allVars /\ InitialFairness

-----------------------------------------------------------------------------
InitialTypeOK ==
    /\ TypeOK
    /\ initial \in Phases /\ refused \in BOOLEAN
    /\ seeded \subseteq Paths
    /\ blind \subseteq Paths \X Contents /\ offline \subseteq Paths \X Contents
    /\ Running => pc # "down"

\* The bulk transfer, however often it is resumed, destroys an edit only if it
\* was made during a transfer or if no event had told of it.
BulkLossUnseen == lost \subseteq raced \cup {e[2] : e \in blind \cup offline}

\* The initial synchronisation hands over what the engine relies on: every
\* difference from the base has something that brings it to a planner.
HandedOverCovered ==
    initial = "ready" =>
        \A s \in Sides, p \in Paths :
            disk[<<s, p>>] # base[p] =>
                Covered(p) \/ p \in swallowed \/ \E e \in blind \cup offline : e[1] = p

\* The base holds entries both sides had, or written during a transfer.
SeedsShared == BaseSharedUnlessRaced

\* However often it fails, crashes or loses events, the initial
\* synchronisation completes, unless every further run is refused.  An audit
\* (every 300 s) finds conflicts anew and so unsettles a replay (30 s).
AuditsLeaveRoom == <>[][~Audit]_allVars
InitialSyncCompletes == AuditsLeaveRoom => <>[](refused \/ initial = "ready")

(* What the tests and the design promise and the code does not keep.       *)

\* An interrupted run can be taken up again: a run that finds what an earlier
\* one transferred is not refused.
ResumeNotRefused == refused => kept = {}

\* A resumed run keeps the edits made while the supervisor was dead.
ResumeKeepsEdits == lost \cap {e[2] : e \in offline} = {}

=============================================================================
