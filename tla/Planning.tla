------------------------------ MODULE Planning ------------------------------
(***************************************************************************)
(* How a cycle plans one dirty path (_engine_planning.py, _run_once): the  *)
(* entries are observed without hashing, hashes are read where the planner *)
(* asks for them, and a deletion target is hashed before it is trusted.    *)
(*                                                                         *)
(* base, local and remote are what is stored and what is on the disks; the *)
(* planner only sees `seen'.  The disks stand still while a path is        *)
(* planned: SyncEngine is about what happens when they do not.             *)
(***************************************************************************)
EXTENDS Reconcile, FiniteSets

VARIABLES
    base, local, remote,    \* the true entries, hashes included
    requeued,               \* the path was requeued before this cycle
    seen,                   \* what the cycle has observed, per side
    pc,
    decision                \* the planner's current answer

vars == <<base, local, remote, requeued, seen, pc, decision>>

Sides == {"local", "remote"}

Placeholder(data, meta) == [File(data, meta) EXCEPT !.placeholder = TRUE]
OtherKinds == {[MissingEntry EXCEPT !.kind = "dir"]}
              \cup {[MissingEntry EXCEPT !.kind = "symlink", !.data = d] : d \in Contents}
Files == {File(d, m) : d \in Contents, m \in Metas}
Placeholders == {Placeholder(d, m) : d \in Contents, m \in Metas}
Special == [MissingEntry EXCEPT !.kind = "special"]

\* Entries a base may hold: special entries never complete an action.
BaseEntries == {MissingEntry} \cup Files \cup OtherKinds \cup Placeholders

\* Entries on a disk.  A placeholder file is recognised as one only where the
\* base says there is a placeholder (LocalMetadata._observations_with_root).
RemoteEntries == {MissingEntry, Special} \cup Files \cup OtherKinds
LocalEntries(b) == RemoteEntries \cup (IF b.placeholder THEN Placeholders ELSE {})

OnDisk(side) == IF side = "local" THEN local ELSE remote

\* paths(with_hash=False): a file comes back without its hash; a placeholder
\* carries the hash it declares.
Unhashed(e) == IF e.kind = "file" /\ ~e.placeholder THEN [e EXCEPT !.data = NoData] ELSE e

\* paths(with_hash=True) for the given sides.
WithHashes(observed, sides) ==
    [s \in Sides |-> IF s \in sides THEN OnDisk(s) ELSE observed[s]]

Plan(observed) == PlanPath(base, observed["local"], observed["remote"])

Requests(observed) == HashRequests(base, observed["local"], observed["remote"])

Init ==
    /\ base \in BaseEntries
    /\ local \in LocalEntries(base)
    /\ remote \in RemoteEntries
    /\ requeued \in BOOLEAN
    /\ seen = [s \in Sides |-> MissingEntry]
    /\ pc = "collect"
    /\ decision = Nothing

\* Read the metadata of both sides; strengthen_requeued_files hashes every
\* file of a requeued path.
Collect ==
    /\ pc = "collect"
    /\ LET quick == [s \in Sides |-> Unhashed(OnDisk(s))]
       IN  seen' = IF requeued
                   THEN WithHashes(quick, {s \in Sides : NeedsHash(quick[s])})
                   ELSE quick
    /\ pc' = "plan"
    /\ UNCHANGED <<base, local, remote, requeued, decision>>

\* build_incremental_plan
BuildPlan ==
    /\ pc = "plan"
    /\ decision' = Plan(seen)
    /\ pc' = IF Plan(seen) = AskHash THEN "hash" ELSE "strengthen"
    /\ UNCHANGED <<base, local, remote, requeued, seen>>

\* Coding error: one side is hashed and the plan rebuilt.
SatisfyOneRequest ==
    /\ pc = "hash"
    /\ \E s \in Requests(seen) : seen' = WithHashes(seen, {s})
    /\ decision' = Plan(seen')
    /\ pc' = IF Plan(seen') = AskHash THEN "failed" ELSE "strengthen"
    /\ UNCHANGED <<base, local, remote, requeued>>

\* satisfy_hash_requests: a second plan that still asks raises.
SatisfyHashRequests ==
    /\ pc = "hash"
    /\ seen' = WithHashes(seen, Requests(seen))
    /\ decision' = Plan(seen')
    /\ pc' = IF Plan(seen') = AskHash THEN "failed" ELSE "strengthen"
    /\ UNCHANGED <<base, local, remote, requeued>>

\* Coding error: the quick fingerprint of a deletion target is trusted.
TrustQuickFingerprint == pc = "strengthen" /\ pc' = "done"
    /\ UNCHANGED <<base, local, remote, requeued, seen, decision>>

\* strengthen_deletion_targets
DeletionTarget ==
    CASE decision.type = "delete-local" -> {"local"}
      [] decision.type = "delete-remote" -> {"remote"}
      [] OTHER -> {}

StrengthenDeletionTargets ==
    /\ pc = "strengthen"
    /\ LET weak == {s \in DeletionTarget : NeedsHash(seen[s])}
       IN  /\ seen' = WithHashes(seen, weak)
           /\ decision' = IF weak = {} THEN decision ELSE Plan(seen')
    /\ pc' = "done"
    /\ UNCHANGED <<base, local, remote, requeued>>

Next == Collect \/ BuildPlan \/ SatisfyHashRequests \/ StrengthenDeletionTargets

Spec == Init /\ [][Next]_vars

-----------------------------------------------------------------------------
(* The three-way merge the planner is to compute, on the true entries.     *)

Same(x, y) == x.kind = y.kind /\ x.data = y.data

\* A file whose quick fingerprint is that of the base has the base's content:
\* what the planner assumes when it does not hash.
QuickSound ==
    \A e \in {local, remote} :
        e.kind = "file" /\ base.kind = "file" /\ e.meta = base.meta => e.data = base.data

\* Follow the side that left the base.
Follow(side) ==
    LET source == OnDisk(side)
    IN  CASE side = "local" /\ IsMissing(source) -> Decide("delete-remote", MissingEntry)
          [] side = "local" /\ ~IsMissing(source) -> Decide("push", source)
          [] side = "remote" /\ IsMissing(source) -> Decide("delete-local", MissingEntry)
          [] OTHER -> Decide("pull", source)

Refused ==
    \/ base.placeholder /\ local # base
    \/ ~IsMissing(local) /\ ~IsMissing(remote) /\ local.kind # remote.kind
    \/ ~Same(local, remote) /\ ~Same(local, base) /\ ~Same(remote, base)

TypeOK ==
    /\ base \in Entry /\ local \in Entry /\ remote \in Entry
    /\ seen \in [Sides -> Entry]
    /\ decision \in [type : {"none", "push", "pull", "delete-local", "delete-remote",
                             "update-base", "conflict", "warning", "hash"}, after : Entry]

\* The plan is the three-way merge of the true entries, however few files were
\* hashed, wherever quick fingerprints are sound: a side that kept the base
\* follows the other, equal sides update the base, anything else is a conflict,
\* and the new base is the entry transferred.
PlanIsThreeWayMerge ==
    (pc = "done" /\ QuickSound) =>
        CASE Special \in {local, remote} -> decision.type = "warning"
          [] Special \notin {local, remote} /\ Refused -> decision = Conflict
          [] OTHER ->
               CASE Same(local, remote) /\ Same(local, base) ->
                      decision.type \in {"none", "update-base"}
                 [] Same(local, remote) /\ ~Same(local, base) -> decision.type = "update-base"
                 [] Same(local, base) /\ ~Same(local, remote) ->
                      decision.type = Follow("remote").type
                      /\ Same(decision.after, Follow("remote").after)
                 [] OTHER ->
                      decision.type = Follow("local").type
                      /\ Same(decision.after, Follow("local").after)

\* Even when a quick fingerprint lies (an edit that kept size, mtime and mode),
\* a file is deleted only if its content is the base's.
NoBlindDelete ==
    pc = "done" => \A s \in DeletionTarget : OnDisk(s).kind = "file" => Same(OnDisk(s), base)

\* The planner never gives up: one round of hashing answers every request, and
\* no path leaves planning with a request still open (it would be acknowledged
\* without having been synchronised).
RequestsAnswered == pc # "failed" /\ (pc = "done" => decision # AskHash)

=============================================================================
