----------------------------- MODULE SyncEngine -----------------------------
(***************************************************************************)
(* One workspace and its synchronisation cycle (engine.py, run_once): two  *)
(* replicas that users edit at any time, the journals their watchers fill, *)
(* and the engine that plans and executes against stale observations.      *)
(*                                                                         *)
(* An entry is a version number, 0 when the path is missing; every write   *)
(* of a user makes a new version, so two versions are never equal content. *)
(* The journals are the sets of paths they still hold: RemoteJournal is    *)
(* about the sequence numbers that make this so.                           *)
(***************************************************************************)
EXTENDS Naturals, FiniteSets

CONSTANTS
    Paths,
    MaxEdits,   \* bound: user edits
    MaxFaults,  \* bound: crashes, failed calls and watcher overflows
    NoEcho,     \* no expected echo is stored
    Rescan      \* a RESCAN_REQUIRED event

Missing == 0
Versions == 1..MaxEdits
Contents == Versions \cup {Missing}

ASSUME ConstantsAssumption ==
    /\ MaxEdits \in Nat /\ MaxFaults \in Nat
    /\ NoEcho \notin Contents
    /\ Rescan \notin Paths

R == INSTANCE Reconcile WITH Contents <- Versions, Metas <- Versions,
                             NoData <- Missing, NoMeta <- Missing

VARIABLES
    disk,       \* the two workspaces
    raw,        \* changes the watcher of a side has not recorded yet
    pend,       \* recorded, unacknowledged changes no cycle has taken
    base,       \* base_entries
    echo,       \* expected_echoes
    requeued,   \* requeued_paths
    conflicts,  \* paths with an unresolved conflict record
    pc,         \* where the cycle stands; "down" when the supervisor is dead
    stage,      \* 1 push, 2 pull, 3 delete local, 4 delete remote, 5 conflicts
    cap,        \* the events this cycle has taken
    retried,    \* the conflicts it plans again
    seen,       \* the observations this cycle plans with
    matched,    \* the echoes it recognised
    plan,       \* what it decided per path, "idle" for a clean path
    staged,     \* copies of the sources of the current transfer batch
    installed,  \* paths of the current batch the transport has dealt with
    changed,    \* paths that changed under the cycle
    after,      \* the base entry each completed path gets
    edits, faults,
    \* History, read by the properties only:
    kept,       \* versions that were on both sides at once or were saved
    raced,      \* versions a user wrote at a destination being transferred to
    lost,       \* versions the engine destroyed that are not kept
    swallowed   \* paths acknowledged as an echo while a side was not the base

cycle == <<stage, cap, retried, seen, matched, plan, staged, installed, changed, after>>
stores == <<base, echo, requeued, conflicts>>
bounds == <<edits, faults>>
history == <<kept, raced, lost, swallowed>>
vars == <<disk, raw, pend, stores, pc, cycle, bounds, history>>

Sides == {"local", "remote"}
Other(side) == IF side = "local" THEN "remote" ELSE "local"

-----------------------------------------------------------------------------
(* What a cycle derives from what it has seen.                             *)

EntryOf(v) == IF v = Missing THEN R!MissingEntry ELSE R!File(v, v)

Planned(p) ==
    R!PlanPath(EntryOf(base[p]), EntryOf(seen[<<"local", p>>]), EntryOf(seen[<<"remote", p>>])).type

\* The destination of a planned action.
Destination(type) == IF type \in {"push", "delete-remote"} THEN "remote" ELSE "local"
Source(type) == Other(Destination(type))

Transfers == {"push", "pull"}
Deletions == {"delete-local", "delete-remote"}
Stages == <<"push", "pull", "delete-local", "delete-remote", "conflict">>

Batch(n) == {p \in Paths : plan[p] = Stages[n]}
Active == Batch(stage)

\* A stage with no action is skipped; conflicts are always prepared.
NextStage(n) == CHOOSE m \in (n + 1)..5 :
                    /\ m = 5 \/ Batch(m) # {}
                    /\ \A k \in (n + 1)..(m - 1) : Batch(k) = {}

\* _expected_echo_intents: the keys of the intents, and each one's value.
Intents(thePlan) ==
    {<<Destination(thePlan[p]), p>> : p \in {q \in Paths : thePlan[q] \in Transfers \cup Deletions}}

Expected(type, p) == IF type \in Deletions THEN Missing ELSE seen[<<Source(type), p>>]

\* consume_expected_echo for each key: an echo that holds another value stays.
Consume(store, keys, value) ==
    [k \in Sides \X Paths |-> IF k \in keys /\ store[k] = value[k] THEN NoEcho ELSE store[k]]

Intended == [k \in Sides \X Paths |-> Expected(plan[k[2]], k[2])]

\* Intents that produced no mutation: of paths a finished batch reported as
\* changed, and of stages not entered.
UnusedIntents ==
    {k \in Intents(plan) : \/ k[2] \in IF pc = "stage" THEN changed \ installed ELSE changed
                           \/ \A n \in 1..stage : plan[k[2]] # Stages[n]}

Completed ==
    {p \in Paths : plan[p] \in Transfers \cup Deletions \cup {"update-base"}} \ changed

\* Coding error: any event of a path with an expected echo is its echo.
EchoByPath ==
    {k \in Sides \X Paths : k[2] \in cap[k[1]] /\ k[2] \notin requeued /\ echo[k] # NoEcho}

\* _matching_echoes
MatchedEchoes ==
    {k \in Sides \X Paths :
        k[2] \in cap[k[1]] /\ k[2] \notin requeued /\ seen[k] = echo[k]}

\* dirty_sources, less the sides an echo explains.
Dirty ==
    requeued \cup retried
    \cup {p \in Paths : \E s \in Sides : p \in cap[s] /\ <<s, p>> \notin MatchedEchoes}

\* The destination of a transfer may be edited unnoticed in this window.
InFlight(s, p) ==
    /\ pc \in {"copy", "install", "postflight", "rehash"}
    /\ p \in Active /\ s = Destination(plan[p])

\* Versions on both sides of some path.
Shared(d) == {v \in Versions : \E p \in Paths : d[<<"local", p>>] = v /\ d[<<"remote", p>>] = v}

\* The engine replaces the entry of a side; its watcher will notice.
Replace(s, p, v) ==
    /\ disk' = [disk EXCEPT ![<<s, p>>] = v]
    /\ raw' = [raw EXCEPT ![s] = @ \cup {p}]
    /\ kept' = kept \cup Shared(disk')
    /\ lost' = lost \cup ({disk[<<s, p>>]} \ (kept \cup {Missing, v}))

-----------------------------------------------------------------------------
\* A workspace without history holds the given entries.
Fresh(contents, written) ==
    /\ disk = contents /\ edits = written
    /\ raw = [s \in Sides |-> {}]
    /\ pend = [s \in Sides |-> {}]
    /\ base = [p \in Paths |-> Missing]
    /\ echo = [k \in Sides \X Paths |-> NoEcho]
    /\ requeued = {} /\ conflicts = {}
    /\ stage = 1
    /\ cap = [s \in Sides |-> {}] /\ retried = {}
    /\ seen = [k \in Sides \X Paths |-> Missing]
    /\ matched = {}
    /\ plan = [p \in Paths |-> "idle"]
    /\ staged = [p \in Paths |-> Missing]
    /\ installed = {} /\ changed = {}
    /\ after = [p \in Paths |-> Missing]
    /\ faults = 0
    /\ kept = {} /\ raced = {} /\ lost = {} /\ swallowed = {}

Init == Fresh([k \in Sides \X Paths |-> Missing], 0) /\ pc = "idle"

-----------------------------------------------------------------------------
(* Users and watchers.                                                     *)

\* The local watcher lives in the supervisor, the remote one does not.
Watched(s) == s = "remote" \/ pc # "down"

UserEdit(s, p) ==
    /\ edits < MaxEdits
    /\ edits' = edits + 1
    /\ \E v \in {Missing, edits + 1} \ {disk[<<s, p>>]} :
          /\ disk' = [disk EXCEPT ![<<s, p>>] = v]
          /\ raced' = IF InFlight(s, p) THEN raced \cup ({v} \ {Missing}) ELSE raced
    /\ raw' = IF Watched(s) THEN [raw EXCEPT ![s] = @ \cup {p}] ELSE raw
    /\ UNCHANGED <<pend, stores, pc, cycle, faults, kept, lost, swallowed>>

\* The watcher's callback appends the change to the journal of its side.
Notify(s, p) ==
    /\ Watched(s) /\ p \in raw[s]
    /\ raw' = [raw EXCEPT ![s] = @ \ {p}]
    /\ pend' = [pend EXCEPT ![s] = @ \cup {p}]
    /\ UNCHANGED <<disk, stores, pc, cycle, bounds, history>>

\* The remote watcher loses its queue and asks for a rescan instead.
Overflow ==
    /\ faults < MaxFaults /\ raw["remote"] # {}
    /\ faults' = faults + 1
    /\ raw' = [raw EXCEPT !["remote"] = {}]
    /\ pend' = [pend EXCEPT !["remote"] = @ \cup {Rescan}]
    /\ UNCHANGED <<disk, stores, pc, cycle, edits, history>>

\* The periodic audit of the local watcher; also a probe after a failure.
RequestAudit ==
    /\ pc # "down" /\ Rescan \notin pend["local"]
    /\ pend' = [pend EXCEPT !["local"] = @ \cup {Rescan}]
    /\ UNCHANGED <<disk, raw, stores, pc, cycle, bounds, history>>

-----------------------------------------------------------------------------
(* The cycle.                                                              *)

\* Import the remote events and take what is unacknowledged on both sides.
CaptureAnd(retry) ==
    /\ pc = "idle"
    /\ pend["local"] \cup pend["remote"] \cup requeued \cup retry # {}
    /\ cap' = pend
    /\ retried' = retry
    /\ pend' = [s \in Sides |-> {}]
    /\ pc' = IF Rescan \in pend["local"] \cup pend["remote"] THEN "audit" ELSE "observe"
    /\ UNCHANGED <<disk, raw, stores, stage, seen, matched, plan, staged, installed, changed,
                   after, bounds, history>>

\* Unresolved conflicts are planned again by every cycle but the initial replay.
Capture == CaptureAnd(conflicts)

\* Coding error: only the local side is audited.
AuditLocalOnly ==
    /\ pc = "audit"
    /\ requeued' = requeued \cup {p \in Paths : disk[<<"local", p>>] # base[p]}
    /\ pc' = "observe"
    /\ UNCHANGED <<disk, raw, pend, base, echo, conflicts, cycle, bounds, history>>

\* record_drift
AuditDrift ==
    /\ pc = "audit"
    /\ requeued' = requeued \cup {p \in Paths : \E s \in Sides : disk[<<s, p>>] # base[p]}
    /\ pc' = "observe"
    /\ UNCHANGED <<disk, raw, pend, base, echo, conflicts, cycle, bounds, history>>

\* The metadata of the dirty paths, hashed where the plan needs it (Planning).
Observe ==
    /\ pc = "observe"
    /\ seen' = disk
    /\ pc' = "plan"
    /\ UNCHANGED <<disk, raw, pend, stores, stage, cap, retried, matched, plan, staged, installed,
                   changed, after, bounds, history>>

\* Coding error: taking the events acknowledges them.
ForgetAlways(acknowledged) ==
    /\ pend' = pend
    /\ cap' = [s \in Sides |-> {}] /\ retried' = {}
    /\ seen' = [k \in Sides \X Paths |-> Missing]
    /\ matched' = {}
    /\ staged' = [p \in Paths |-> Missing]
    /\ installed' = {} /\ changed' = {}
    /\ after' = [p \in Paths |-> Missing]
    /\ stage' = 1

\* The cycle ends here: its events are done with, or wait for another cycle.
Forget(acknowledged) ==
    /\ pend' = IF acknowledged THEN pend ELSE [s \in Sides |-> pend[s] \cup cap[s]]
    /\ cap' = [s \in Sides |-> {}] /\ retried' = {}
    /\ seen' = [k \in Sides \X Paths |-> Missing]
    /\ matched' = {}
    /\ staged' = [p \in Paths |-> Missing]
    /\ installed' = {} /\ changed' = {}
    /\ after' = [p \in Paths |-> Missing]
    /\ stage' = 1

Reset(acknowledged) == Forget(acknowledged) /\ plan' = [p \in Paths |-> "idle"]

\* Paths whose last event is explained away although a side is not the base.
Swallowing(keys) ==
    {p \in Paths : \E s, t \in Sides :
        /\ <<s, p>> \in keys /\ echo[<<s, p>>] = seen[<<s, p>>]
        /\ seen[<<t, p>>] # base[p] /\ p \notin raw[t] \cup pend[t]}

\* _commit_noop and _commit_echoes: nothing is left to do.
CommitEchoes ==
    /\ pc = "plan" /\ Dirty = {}
    /\ echo' = Consume(echo, MatchedEchoes, seen)
    /\ swallowed' = swallowed \cup Swallowing(MatchedEchoes)
    /\ Reset(TRUE)
    /\ pc' = "idle"
    /\ UNCHANGED <<disk, raw, base, requeued, conflicts, bounds, kept, raced, lost>>

\* build_incremental_plan, then the intents in a transaction of their own.
StartPlan ==
    /\ pc = "plan" /\ Dirty # {}
    /\ matched' = MatchedEchoes
    /\ plan' = [p \in Paths |-> IF p \in Dirty THEN Planned(p) ELSE "idle"]
    /\ echo' = [k \in Sides \X Paths |->
                   IF k \in Intents(plan') THEN Expected(plan'[k[2]], k[2]) ELSE echo[k]]
    /\ stage' = CHOOSE m \in 1..5 :
                    /\ m = 5 \/ \E p \in Paths : plan'[p] = Stages[m]
                    /\ \A k \in 1..(m - 1) : \A p \in Paths : plan'[p] # Stages[k]
    /\ pc' = "stage"
    /\ UNCHANGED <<disk, raw, pend, base, requeued, conflicts, cap, retried, seen, staged,
                   installed, changed, after, bounds, history>>

\* The cycle raises: unused intents are withdrawn, nothing is acknowledged.
Abort(unused) ==
    /\ echo' = Consume(echo, unused, Intended)
    /\ Reset(FALSE)
    /\ pc' = "idle"
    /\ UNCHANGED <<disk, raw, base, requeued, conflicts, history>>

Agrees(p) == \A s \in Sides : disk[<<s, p>>] = seen[<<s, p>>]

\* Coding error: only the sources are compared with the plan.
PreflightSources ==
    /\ pc = "stage" /\ stage \in {1, 2}
    /\ IF \A p \in Active : disk[<<Source(plan[p]), p>>] = seen[<<Source(plan[p]), p>>]
       THEN /\ pc' = "copy"
            /\ UNCHANGED <<disk, raw, pend, stores, cycle, history>>
       ELSE Abort(UnusedIntents \cup {<<Destination(plan[p]), p>> : p \in Active})
    /\ UNCHANGED bounds

\* BatchTransport._preflight: both sides must still be what the plan saw.
Preflight ==
    /\ pc = "stage" /\ stage \in {1, 2}
    /\ IF \A p \in Active : Agrees(p)
       THEN /\ pc' = "copy"
            /\ UNCHANGED <<disk, raw, pend, stores, cycle, history>>
       ELSE Abort(UnusedIntents \cup {<<Destination(plan[p]), p>> : p \in Active})
    /\ UNCHANGED bounds

\* The sources are archived or staged as they are now; one that is gone fails.
CopySources ==
    /\ pc = "copy"
    /\ IF \A p \in Active : disk[<<Source(plan[p]), p>>] # Missing
       THEN /\ staged' = [p \in Paths |->
                             IF p \in Active THEN disk[<<Source(plan[p]), p>>] ELSE Missing]
            /\ installed' = {}
            /\ pc' = "install"
            /\ UNCHANGED <<disk, raw, pend, stores, stage, cap, retried, seen, matched, plan,
                           changed, after, history>>
       ELSE Abort(UnusedIntents)
    /\ UNCHANGED bounds

\* finalize: rename over the destination, whatever it holds by now.
Install(p) ==
    /\ pc = "install" /\ p \in Active \ installed
    /\ Replace(Destination(plan[p]), p, staged[p])
    /\ installed' = installed \cup {p}
    /\ pc' = IF installed' = Active THEN "postflight" ELSE "install"
    /\ UNCHANGED <<pend, stores, stage, cap, retried, seen, matched, plan, staged, changed, after,
                   bounds, raced, swallowed>>

\* Coding error: a source that moved on during the transfer is not noticed.
PostflightIgnoresSource ==
    /\ pc = "postflight"
    /\ pc' = "rehash"
    /\ UNCHANGED <<disk, raw, pend, stores, cycle, bounds, history>>

\* _verified_result: a moved source is requeued, a wrong destination raises.
Postflight ==
    /\ pc = "postflight"
    /\ LET moved == {p \in Active : disk[<<Source(plan[p]), p>>] # seen[<<Source(plan[p]), p>>]}
           wrong == {p \in Active \ moved :
                        disk[<<Destination(plan[p]), p>>] # disk[<<Source(plan[p]), p>>]}
       IN  IF wrong = {}
           THEN /\ changed' = changed \cup moved
                /\ pc' = "rehash"
                /\ UNCHANGED <<disk, raw, pend, stores, stage, cap, retried, seen, matched, plan,
                               staged, installed, after, history>>
           ELSE Abort(UnusedIntents)
    /\ UNCHANGED bounds

\* _destination_hashes: the destination is read once more, and that is the base.
Rehash ==
    /\ pc = "rehash"
    /\ LET done == Active \ changed
       IN  IF \A p \in done : disk[<<Destination(plan[p]), p>>] # Missing
           THEN /\ after' = [p \in Paths |->
                                IF p \in done THEN disk[<<Destination(plan[p]), p>>] ELSE after[p]]
                /\ stage' = NextStage(stage)
                /\ installed' = {}
                /\ pc' = "stage"
                /\ UNCHANGED <<disk, raw, pend, stores, cap, retried, seen, matched, plan, staged,
                               changed, history>>
           ELSE Abort(UnusedIntents)
    /\ UNCHANGED bounds

\* delete_expected: the entry is set aside, compared, and deleted or put back.
Remove(p) ==
    /\ pc = "stage" /\ stage \in {3, 4} /\ p \in Active \ installed
    /\ LET s == Destination(plan[p])
       IN  IF disk[<<s, p>>] = seen[<<s, p>>]
           THEN Replace(s, p, Missing) /\ changed' = changed
           ELSE changed' = changed \cup {p} /\ UNCHANGED <<disk, raw, kept, lost>>
    /\ installed' = installed \cup {p}
    /\ pc' = IF installed' = Active THEN "verify" ELSE "stage"
    /\ UNCHANGED <<pend, stores, stage, cap, retried, seen, matched, plan, staged, after, bounds,
                   raced, swallowed>>

\* A deleted path that is back raises.
VerifyDeleted ==
    /\ pc = "verify"
    /\ IF \A p \in Active \ changed : disk[<<Destination(plan[p]), p>>] = Missing
       THEN /\ stage' = NextStage(stage)
            /\ installed' = {}
            /\ pc' = "stage"
            /\ UNCHANGED <<disk, raw, pend, stores, cap, retried, seen, matched, plan, staged,
                           changed, after, history>>
       ELSE Abort(UnusedIntents)
    /\ UNCHANGED bounds

\* The actions that only update the base, and _prepare_conflict: both versions
\* are read again, and a conflict is only recorded on what was planned.
PrepareConflicts ==
    /\ pc = "stage" /\ stage = 5
    /\ after' = [p \in Paths |-> IF plan[p] = "update-base" THEN seen[<<"local", p>>] ELSE after[p]]
    /\ changed' = changed \cup {p \in Active : ~Agrees(p)}
    /\ pc' = "commit"
    /\ UNCHANGED <<disk, raw, pend, stores, stage, cap, retried, seen, matched, plan, staged,
                   installed, bounds, history>>

Clearable == (Completed \cup {p \in Paths : plan[p] = "conflict"} \cup requeued) \ changed

\* The echo store after the commit: results set, matches and the intents of
\* changed paths consumed.
CommittedEchoes ==
    LET results == [k \in Sides \X Paths |->
                       IF k \in Intents(plan) /\ k[2] \in Completed THEN after[k[2]] ELSE echo[k]]
    IN  Consume(Consume(results, matched, seen),
                {k \in Intents(plan) : k[2] \in changed}, Intended)

\* The transaction at the end of _execute_and_commit.
Commit ==
    /\ pc = "commit"
    /\ base' = [p \in Paths |-> IF p \in Completed THEN after[p] ELSE base[p]]
    /\ conflicts' = (conflicts \ Completed) \cup {p \in Paths \ changed : plan[p] = "conflict"}
    /\ echo' = CommittedEchoes
    /\ requeued' = (requeued \cup changed) \ Clearable
    /\ kept' = kept \cup {v \in Versions : \E p \in Paths \ changed : \E s \in Sides :
                                plan[p] = "conflict" /\ seen[<<s, p>>] = v}
    /\ swallowed' = IF changed = {}
                    THEN (swallowed \cup Swallowing({k \in matched : plan[k[2]] = "idle"}))
                         \ {p \in Paths : plan[p] # "idle"}
                    ELSE swallowed
    /\ Forget(changed = {})
    /\ plan' = [p \in Paths |-> IF p \in Completed THEN plan[p] ELSE "idle"]
    /\ pc' = "refresh"
    /\ UNCHANGED <<disk, raw, bounds, raced, lost>>

\* audit_coordinator.refresh: completed paths that already differ are requeued.
Refresh ==
    /\ pc = "refresh"
    /\ requeued' = requeued \cup
                       {p \in Paths : plan[p] # "idle" /\ \E s \in Sides : disk[<<s, p>>] # base[p]}
    /\ Reset(TRUE)
    /\ pc' = "idle"
    /\ UNCHANGED <<disk, raw, base, echo, conflicts, bounds, history>>

CycleRest ==
    \/ AuditDrift \/ Observe \/ CommitEchoes \/ StartPlan
    \/ Preflight \/ CopySources \/ Postflight \/ Rehash
    \/ VerifyDeleted \/ PrepareConflicts \/ Commit \/ Refresh
    \/ \E p \in Paths : Install(p) \/ Remove(p)

CycleStep == Capture \/ CycleRest

-----------------------------------------------------------------------------
(* Failures.                                                               *)

\* A remote call, a read or the store's transaction fails in mid-cycle.
Fail ==
    /\ pc \notin {"down", "idle"} /\ faults < MaxFaults
    /\ faults' = faults + 1
    /\ Abort(CASE pc \in {"audit", "observe", "plan", "refresh"} -> {}
               [] pc = "commit" -> {k \in Intents(plan) : k[2] \in changed}
               [] OTHER -> UnusedIntents)
    /\ UNCHANGED edits

\* The supervisor dies; what its local watcher had not recorded is gone.
Crash ==
    /\ pc # "down" /\ faults < MaxFaults
    /\ faults' = faults + 1
    /\ raw' = [raw EXCEPT !["local"] = {}]
    /\ Reset(FALSE)
    /\ pc' = "down"
    /\ UNCHANGED <<disk, stores, edits, history>>

\* _initialize_workspace: start the watchers and request an audit.
Restart ==
    /\ pc = "down"
    /\ pc' = "idle"
    /\ pend' = [pend EXCEPT !["local"] = @ \cup {Rescan}]
    /\ UNCHANGED <<disk, raw, stores, cycle, bounds, history>>

Next ==
    \/ \E s \in Sides, p \in Paths : UserEdit(s, p) \/ Notify(s, p)
    \/ Overflow \/ RequestAudit \/ CycleStep \/ Fail \/ Crash \/ Restart

Spec == Init /\ [][Next]_vars

\* The supervisor's threads run, the watcher is up and the audit periodic.
Fairness ==
    /\ WF_vars(CycleStep) /\ WF_vars(Restart) /\ WF_vars(RequestAudit)
    /\ \A s \in Sides, p \in Paths : WF_vars(Notify(s, p))

FairSpec == Spec /\ Fairness

-----------------------------------------------------------------------------
TypeOK ==
    /\ disk \in [Sides \X Paths -> Contents]
    /\ raw \in [Sides -> SUBSET Paths]
    /\ pend \in [Sides -> SUBSET (Paths \cup {Rescan})]
    /\ base \in [Paths -> Contents]
    /\ echo \in [Sides \X Paths -> Contents \cup {NoEcho}]
    /\ requeued \subseteq Paths /\ conflicts \subseteq Paths
    /\ pc \in {"down", "idle", "audit", "observe", "plan", "stage", "copy", "install",
               "postflight", "rehash", "verify", "commit", "refresh"}
    /\ stage \in 1..5
    /\ cap \in [Sides -> SUBSET (Paths \cup {Rescan})] /\ retried \subseteq Paths
    /\ seen \in [Sides \X Paths -> Contents]
    /\ matched \subseteq Sides \X Paths
    /\ plan \in [Paths -> {"idle", "none", "update-base", "conflict"} \cup Transfers \cup Deletions]
    /\ staged \in [Paths -> Contents]
    /\ installed \subseteq Paths /\ changed \subseteq Paths
    /\ after \in [Paths -> Contents]
    /\ edits \in 0..MaxEdits /\ faults \in 0..MaxFaults
    /\ kept \subseteq Versions /\ raced \subseteq Versions /\ lost \subseteq Versions
    /\ swallowed \subseteq Paths

\* An edit the engine destroys without either a copy on the other side or a
\* conflict record was made at the destination of a transfer under way:
\* whatever crashes, fails, is replanned or was seen out of date.
LossOnlyInWindow == lost \subseteq raced

\* Something still to be done brings the path to a planner again.
Covered(p) ==
    \/ p \in requeued \cup conflicts
    \/ \E s \in Sides : {p, Rescan} \cap (pend[s] \cup cap[s]) # {} \/ p \in raw[s]
    \/ pc = "down"
    \/ pc = "refresh" /\ plan[p] # "idle"

\* No difference between a workspace and the base is ever forgotten, except
\* one that was taken for an echo: acknowledging, aborting, requeueing,
\* crashing and restarting all leave a differing path covered.
ChangeCovered ==
    \A s \in Sides, p \in Paths : disk[<<s, p>>] # base[p] => Covered(p) \/ p \in swallowed

\* The base is an entry both sides had, or one written during a transfer.
BaseSharedUnlessRaced == \A p \in Paths : base[p] \in kept \cup raced \cup {Missing}

\* A deletion by the engine removes exactly what the base recorded: never an
\* edit made after the plan.
DeletesOnlyBase ==
    [][\A s \in Sides, p \in Paths :
          edits' = edits /\ disk[<<s, p>>] # Missing /\ disk'[<<s, p>>] = Missing
          => disk[<<s, p>>] = base[p]]_vars

\* Once users and failures stop, every path is the same on both sides and in
\* the base, or a conflict is on record.
Agreed(p) == \A s \in Sides : disk[<<s, p>>] = base[p]
EventuallyConverges == <>[](\A p \in Paths : p \in conflicts \/ Agreed(p))

(* What the design promises and the code does not keep (see the README).   *)

\* No edit is silently overwritten.
NoSilentOverwrite == lost = {}

\* A path that differs from the base is going to be planned.
EveryChangeIsPlanned == \A s \in Sides, p \in Paths : disk[<<s, p>>] # base[p] => Covered(p)

=============================================================================
