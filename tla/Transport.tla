------------------------------- MODULE Transport -------------------------------
(***************************************************************************)
(* One batch of BatchTransport: transfer() by rsync or tar, in either      *)
(* direction, and the verified deletion (transport.py, _transport_paths.py,*)
(* _transport_fingerprint.py, _transport_remote.py), while users change    *)
(* both trees.                                                             *)
(*                                                                         *)
(* A file is a version and a quick part: the version stands for content,   *)
(* inode and ctime, the quick part for size, mtime and mode.  A quiet edit *)
(* changes the version alone.  A directory is given a new version when an  *)
(* entry is made or removed in it.                                         *)
(***************************************************************************)
EXTENDS Naturals, FiniteSets

CONSTANTS
    Paths,
    Under,      \* the descendants of a path
    NoPath,
    MaxEdits,   \* bound on the edits of users
    MaxFaults   \* bound on crashes, lost connections and failed commands

\* Paths of a tree: of two paths with a common descendant one is below the other, and
\* a path has finitely many above it.
ASSUME UnderAssumption ==
    /\ Under \in [Paths -> SUBSET Paths]
    /\ \A p \in Paths : p \notin Under[p] /\ \A q \in Under[p] : Under[q] \subseteq Under[p]
    /\ \A p, q \in Paths : Under[p] \cap Under[q] # {} => p = q \/ p \in Under[q] \/ q \in Under[p]
    /\ \A p \in Paths : IsFiniteSet({q \in Paths : p \in Under[q]})

ASSUME BoundsAssumption == NoPath \notin Paths /\ MaxEdits \in Nat /\ MaxFaults \in Nat

VARIABLES
    tree,       \* both replicas
    job,        \* what is asked for: [kind, batch, push, rsync, hashed]
    expect,     \* expected_source and expected_destination, by side
    at,         \* where the job stands
    before,     \* what the preflight observed, by side
    reference,  \* the local source as it was looked at for staging, then as it was staged
    stage,      \* the staged copy of the batch
    linked,     \* staged files that are hard links of the source
    todo,       \* top-level paths not installed or deleted yet
    current,    \* the one being installed or deleted
    aside,      \* what was renamed aside for it
    step,       \* how far it is
    found,      \* what is observed after the installation, by side
    reported,   \* paths reported as completed
    touched,    \* destination paths users changed since preflight or install
    lost,       \* entries of the destination that were destroyed: [path, entry]
    late,       \* versions written when nothing looks at them any more
    edits, faults

vars == <<tree, job, expect, at, before, reference, stage, linked, todo, current, aside, step,
          found, reported, touched, lost, late, edits, faults>>
askedVars == <<job, expect>>
stageVars == <<reference, stage, linked>>
slotVars == <<todo, current, aside, step>>
resultVars == <<found, reported>>
userVars == <<touched, late, edits>>

Sides == {"local", "remote"}
Source == IF job.push THEN "local" ELSE "remote"
Dest == IF job.push THEN "remote" ELSE "local"

Gone == [kind |-> "missing", v |-> 0, quick |-> 0]
File(v, quick) == [kind |-> "file", v |-> v, quick |-> quick]
Folder(v) == [kind |-> "dir", v |-> v, quick |-> v]
Entries == {Gone} \cup {File(v, k) : v, k \in 1..(2 + MaxEdits)} \cup {Folder(v) : v \in 1..(2 + MaxEdits)}

Empty == [p \in Paths |-> Gone]
Subtree(p) == {p} \cup Under[p]
Parents(p) == {q \in Paths : p \in Under[q]}
Only(t, ps) == [p \in Paths |-> IF p \in ps THEN t[p] ELSE Gone]
Without(t, ps) == [p \in Paths |-> IF p \in ps THEN Gone ELSE t[p]]

\* Every entry is in a directory.
Trees(v) == {t \in [Paths -> {Gone, File(v, v), Folder(v)}] :
                \A p \in Paths : t[p] # Gone => \A q \in Parents(p) : t[q].kind = "dir"}

\* _top_level_paths
Tops(batch) == {p \in batch : Parents(p) \cap batch = {}}

-----------------------------------------------------------------------------
(* Users.                                                                  *)

NewVersion == 3 + edits

\* A local source is looked at and not staged yet.
Looked(p) == job.push /\ p \in job.batch /\ reference[p] # Gone /\ stage[p] = Gone

\* A version made between a check and what the check is for.
Stamp(s, p) ==
    late' = IF step \in {"matched", "back"} \/ (s = Source /\ Looked(p))
            THEN late \cup {NewVersion} ELSE late

Touch(s, ps) == touched' = IF s = Dest THEN touched \cup ps ELSE touched

\* A change of the entries of a directory.
Renewed(s, t, p) ==
    tree' = [tree EXCEPT ![s] = [q \in Paths |->
                IF q \in Parents(p) /\ t[q].kind = "dir" THEN Folder(NewVersion) ELSE t[q]]]

\* In place: a hard link of the file shows the change too.
Write(s, p, quiet) ==
    LET entry == File(NewVersion, IF quiet THEN tree[s][p].quick ELSE NewVersion) IN
    /\ tree[s][p].kind = "file"
    /\ tree' = [tree EXCEPT ![s][p] = entry]
    /\ stage' = IF s = Source /\ p \in linked THEN [stage EXCEPT ![p] = entry] ELSE stage
    /\ Touch(s, {p}) /\ Stamp(s, p) /\ UNCHANGED <<reference, linked, aside>>

\* A new file in place of what was there, or a new directory.
Put(s, p) ==
    /\ \A q \in Parents(p) : tree[s][q].kind = "dir"
    /\ \/ tree[s][p].kind # "dir" /\ Renewed(s, [tree[s] EXCEPT ![p] = File(NewVersion, NewVersion)], p)
       \/ tree[s][p] = Gone /\ Renewed(s, [tree[s] EXCEPT ![p] = Folder(NewVersion)], p)
    /\ linked' = IF s = Source THEN linked \ {p} ELSE linked
    /\ Touch(s, {p}) /\ Stamp(s, p) /\ UNCHANGED <<reference, stage, aside>>

\* A removed directory takes with it what was renamed aside in it.
Remove(s, p) ==
    /\ tree[s][p] # Gone
    /\ Renewed(s, Without(tree[s], Subtree(p)), p)
    /\ linked' = IF s = Source THEN linked \ Subtree(p) ELSE linked
    /\ aside' = IF s = Dest /\ current \in Under[p] THEN Empty ELSE aside
    /\ Touch(s, Subtree(p)) /\ Stamp(s, p) /\ UNCHANGED <<reference, stage>>

\* Through a handle that was opened before the file was renamed aside.
WriteAside(p) ==
    /\ aside[p].kind = "file"
    /\ aside' = [aside EXCEPT ![p] = File(NewVersion, NewVersion)]
    /\ Touch(Dest, {p}) /\ Stamp(Dest, p) /\ UNCHANGED <<tree, stageVars>>

Running == at \notin {"refused", "failed", "settled", "crashed"}

User ==
    /\ Running /\ edits < MaxEdits /\ edits' = edits + 1
    /\ \/ \E s \in Sides, p \in Paths :
            \/ \E quiet \in BOOLEAN : Write(s, p, quiet)
            \/ Put(s, p)
            \/ Remove(s, p)
       \/ \E p \in Paths : WriteAside(p)
    /\ UNCHANGED <<askedVars, at, before, todo, current, step, resultVars, lost, faults>>

-----------------------------------------------------------------------------
(* Preflight and staging.                                                  *)

\* _matches_expected; an expectation may lack the hash.
Agrees(want, got) ==
    \/ want = got
    \/ ~job.hashed /\ want.kind = "file" /\ got.kind = "file" /\ want.quick = got.quick

\* The local observations come first.
LookLocal ==
    /\ at = "ready" /\ job.kind = "transfer" /\ at' = "looked"
    /\ before' = [before EXCEPT !["local"] = tree["local"]]
    /\ touched' = {}
    /\ UNCHANGED <<tree, askedVars, stageVars, slotVars, resultVars, lost, late, edits, faults>>

\* One path that differs refuses the batch.
Preflight ==
    /\ at = "looked"
    /\ before' = [before EXCEPT !["remote"] = tree["remote"]]
    /\ at' = IF \A p \in job.batch, s \in Sides : Agrees(expect[s][p], before'[s][p])
             THEN "staging" ELSE "refused"
    /\ touched' = IF Dest = "remote" THEN {} ELSE touched
    /\ UNCHANGED <<tree, askedVars, stageVars, slotVars, resultVars, lost, late, edits, faults>>

Staging == at \in {"staging", "copying"}

\* The look before a local source is staged, its directories first.  By rsync it must
\* be what the preflight saw, by the signature, which includes ctime
\* (_matches_stage_expectation); tar takes what is there.
LookAtSource(p) ==
    /\ Staging /\ job.push /\ p \in job.batch /\ reference[p] = Gone
    /\ \A q \in Parents(p) \cap job.batch : stage[q] # Gone
    /\ IF tree[Source][p] # Gone /\ (job.rsync => tree[Source][p] = before[Source][p])
       THEN reference' = [reference EXCEPT ![p] = tree[Source][p]] /\ UNCHANGED at
       ELSE at' = "failed" /\ UNCHANGED reference
    /\ UNCHANGED <<tree, askedVars, before, stage, linked, slotVars, resultVars, userVars, lost, faults>>

\* The same inode, size, mtime and mode.
Alike(e, f) == e.kind = f.kind /\ e.quick = f.quick

\* A file is staged as a hard link.  What was linked is compared with the look without
\* ctime, and is what the source is compared with from here on.
LinkSource(p) ==
    /\ at = "staging" /\ Looked(p) /\ reference[p].kind = "file"
    /\ IF Alike(tree[Source][p], reference[p])
       THEN /\ stage' = [stage EXCEPT ![p] = tree[Source][p]]
            /\ reference' = [reference EXCEPT ![p] = tree[Source][p]]
            /\ linked' = linked \cup {p} /\ UNCHANGED at
       ELSE at' = "failed" /\ UNCHANGED stageVars
    /\ UNCHANGED <<tree, askedVars, before, slotVars, resultVars, userVars, lost, faults>>

\* Links are impossible: the batch is staged anew, by copies.  A source that was linked
\* and is not any more has another ctime than the preflight saw.
LinkRefused(p) ==
    /\ at = "staging" /\ Looked(p) /\ reference[p].kind = "file"
    /\ IF job.rsync /\ linked # {}
       THEN at' = "failed" /\ UNCHANGED stageVars
       ELSE at' = "copying" /\ reference' = Empty /\ stage' = Empty /\ linked' = {}
    /\ UNCHANGED <<tree, askedVars, before, slotVars, resultVars, userVars, lost, faults>>

\* A directory is made, a file copied, and the source compared with the look, ctime included.
CopySource(p) ==
    /\ Staging /\ Looked(p) /\ (at = "copying" \/ reference[p].kind = "dir")
    /\ IF tree[Source][p] = reference[p]
       THEN stage' = [stage EXCEPT ![p] = reference[p]] /\ UNCHANGED at
       ELSE at' = "failed" /\ UNCHANGED stage
    /\ UNCHANGED <<tree, askedVars, before, reference, linked, slotVars, resultVars, userVars, lost, faults>>

\* The remote source is copied by a script there.
CopyRemote(p) ==
    /\ at = "staging" /\ ~job.push /\ p \in job.batch /\ stage[p] = Gone
    /\ IF tree[Source][p] # Gone
       THEN stage' = [stage EXCEPT ![p] = tree[Source][p]] /\ UNCHANGED at
       ELSE at' = "failed" /\ UNCHANGED stage
    /\ UNCHANGED <<tree, askedVars, before, reference, linked, slotVars, resultVars, userVars, lost, faults>>

StagePath(p) == LookAtSource(p) \/ LinkSource(p) \/ LinkRefused(p) \/ CopySource(p) \/ CopyRemote(p)

Staged == \A p \in job.batch : stage[p] # Gone

\* rsync or tar brings the staged copy to the destination.
Ship ==
    /\ Staging /\ Staged
    /\ at' = "installing" /\ linked' = {} /\ todo' = Tops(job.batch)
    /\ UNCHANGED <<tree, askedVars, before, reference, stage, current, aside, step, resultVars, userVars, lost, faults>>

\* rsync cannot be started: the batch goes by tar, without another preflight.
FallBack ==
    /\ Staging /\ Staged /\ job.rsync
    /\ job' = [job EXCEPT !.rsync = FALSE] /\ at' = "staging"
    /\ reference' = Empty /\ stage' = Empty /\ linked' = {}
    /\ UNCHANGED <<tree, expect, before, slotVars, resultVars, userVars, lost, faults>>

-----------------------------------------------------------------------------
(* Installation: finalize_entries_from_fd and its remote counterparts.     *)

Installing == job.kind # "delete" /\ at \in {"installing", "orphaned"}

\* _walk_parent(create=True)
Reachable(p) == \A q \in Parents(p) : tree[Dest][q].kind # "file"
WithParents(t, p) ==
    [q \in Paths |-> IF q \in Parents(p) /\ t[q] = Gone THEN Folder(NewVersion - 1) ELSE t[q]]

\* A rename over what is there.
Fits(entry, there, children) ==
    \/ there = Gone
    \/ entry.kind = "file" /\ there.kind = "file"
    \/ entry.kind = "dir" /\ there.kind = "dir" /\ children = {}
Children(p) == {q \in Under[p] : tree[Dest][q] # Gone}

Destroyed(t, ps) == {[path |-> p, entry |-> t[p]] : p \in {q \in ps : t[q] # Gone}}

\* Coding error: the backup is removed at once.
AsideDiscarded(p) ==
    /\ Installing /\ current = NoPath /\ p \in todo /\ Reachable(p)
    /\ current' = p /\ step' = "aside"
    /\ lost' = lost \cup Destroyed(tree[Dest], Subtree(p))
    /\ tree' = [tree EXCEPT ![Dest] = Without(WithParents(@, p), Subtree(p))]
    /\ UNCHANGED <<askedVars, at, before, stageVars, todo, aside, resultVars, userVars, faults>>

\* The destination, if there is one, is renamed to a backup, with all below it.
Aside(p) ==
    /\ Installing /\ current = NoPath /\ p \in todo /\ Reachable(p)
    /\ current' = p /\ step' = "aside"
    /\ aside' = Only(tree[Dest], Subtree(p))
    /\ tree' = [tree EXCEPT ![Dest] = Without(WithParents(@, p), Subtree(p))]
    /\ UNCHANGED <<askedVars, at, before, stageVars, todo, resultVars, userVars, lost, faults>>

\* The new entry is renamed to its name.
Place ==
    LET p == current IN
    /\ step = "aside" /\ Installing
    /\ Fits(stage[p], tree[Dest][p], Children(p)) /\ \A q \in Parents(p) : tree[Dest][q].kind = "dir"
    /\ lost' = lost \cup Destroyed(tree[Dest], {p})
    /\ tree' = [tree EXCEPT ![Dest] = [q \in Paths |-> IF q \in Subtree(p) THEN stage[q] ELSE @[q]]]
    /\ step' = "placed" /\ touched' = touched \ Subtree(p)
    /\ UNCHANGED <<askedVars, at, before, stageVars, todo, current, aside, resultVars, late, edits, faults>>

\* The backup is removed, recursively.
Discard ==
    /\ step = "placed" /\ Installing
    /\ lost' = lost \cup Destroyed(aside, Paths)
    /\ aside' = Empty /\ step' = "none" /\ current' = NoPath /\ todo' = todo \ {current}
    /\ UNCHANGED <<tree, askedVars, at, before, stageVars, resultVars, userVars, faults>>

\* The rename fails: the backup goes back to its name, or stays where it is.
PlaceFails ==
    LET p == current
        fits == Fits(aside[p], tree[Dest][p], Children(p)) /\ \A q \in Parents(p) : tree[Dest][q].kind = "dir"
    IN
    /\ step = "aside" /\ Installing
    /\ \/ ~Fits(stage[p], tree[Dest][p], Children(p))
       \/ \E q \in Parents(p) : tree[Dest][q].kind # "dir"
    /\ IF aside[p] # Gone /\ fits
       THEN /\ lost' = lost \cup Destroyed(tree[Dest], {p})
            /\ tree' = [tree EXCEPT ![Dest] = [q \in Paths |-> IF q \in Subtree(p) THEN aside[q] ELSE @[q]]]
            /\ aside' = Empty
       ELSE UNCHANGED <<tree, lost, aside>>
    /\ at' = "failed" /\ step' = "none" /\ current' = NoPath
    /\ UNCHANGED <<askedVars, before, stageVars, todo, resultVars, userVars, faults>>

Unreachable ==
    /\ Installing /\ current = NoPath /\ \E p \in todo : ~Reachable(p)
    /\ at' = "failed"
    /\ UNCHANGED <<tree, askedVars, before, stageVars, slotVars, resultVars, userVars, lost, faults>>

\* Only the local finalize, and only if nothing but directories is staged, keeps
\* a directory that is there and creates the missing ones below it.
KeepDirectory(p) ==
    LET members == Subtree(p) \cap job.batch IN
    /\ at = "installing" /\ current = NoPath /\ p \in todo /\ Reachable(p)
    /\ Dest = "local" /\ \A q \in job.batch : stage[q].kind = "dir"
    /\ tree[Dest][p].kind # "file"
    /\ IF \E q \in members : tree[Dest][q].kind = "file"
       THEN at' = "failed" /\ UNCHANGED <<tree, todo>>
       ELSE /\ tree' = [tree EXCEPT ![Dest] = [q \in Paths |->
                    IF q \in members /\ @[q] = Gone THEN stage[q] ELSE WithParents(@, p)[q]]]
            /\ todo' = todo \ {p} /\ UNCHANGED at
    /\ UNCHANGED <<askedVars, before, stageVars, current, aside, step, resultVars, userVars, lost, faults>>

InstallPath(p) ==
    IF Dest = "local" /\ (\A q \in job.batch : stage[q].kind = "dir") /\ tree[Dest][p].kind # "file"
    THEN KeepDirectory(p) ELSE Aside(p)

-----------------------------------------------------------------------------
(* Postflight.                                                             *)

\* rsync: the destination, then the source.  tar: local, then remote.
FirstLook == IF job.rsync THEN Dest ELSE "local"
SecondLook == IF FirstLook = "local" THEN "remote" ELSE "local"

\* Directories pulled get their mode and mtime again first.
LookAgain ==
    /\ at = "installing" /\ todo = {} /\ current = NoPath
    /\ found' = [found EXCEPT ![FirstLook] = tree[FirstLook]]
    /\ at' = IF Dest = "local" /\ \E p \in job.batch : stage[p].kind = "dir" /\ tree[Dest][p].kind # "dir"
             THEN "failed" ELSE "verifying"
    /\ UNCHANGED <<tree, askedVars, before, stageVars, slotVars, reported, userVars, lost, faults>>

\* What a source is compared with after the installation: what was staged of it if it
\* was pushed by rsync, else what the preflight fingerprinted.
Sent(p) == IF job.push /\ job.rsync THEN reference[p] ELSE before[Source][p]

\* Coding error: ctime and content are not compared.
SourceStableQuick(p, seen) == Alike(seen[Source][p], Sent(p))

\* By signature (rsync), by hash (tar).
SourceStable(p, seen) == seen[Source][p] = Sent(p)

\* _protocol_verified_destination takes the hash of the source for a destination of
\* its size, mtime and mode; tar compares the hashes.
Delivered(p, seen) ==
    LET new == seen[Dest][p] IN
    /\ new.kind = before[Source][p].kind
    /\ new.kind = "file" => IF job.rsync THEN new.quick = before[Source][p].quick
                                         ELSE new.v = before[Source][p].v

\* A path whose source changed is reported as changed; a destination that is not
\* what was sent ends the transfer with what was reported up to there.
Verify ==
    LET seen == [found EXCEPT ![SecondLook] = tree[SecondLook]]
        stable == {p \in job.batch : SourceStable(p, seen)}
        bad == {p \in stable : ~Delivered(p, seen)}
    IN
    /\ at = "verifying" /\ found' = seen
    /\ IF bad = {} THEN reported' = stable /\ at' = "done"
                   ELSE reported' \in SUBSET (stable \ bad) /\ at' = "failed"
    /\ UNCHANGED <<tree, askedVars, before, stageVars, slotVars, userVars, lost, faults>>

\* Anything may fail; a process may die; a remote installation may go on alone.
Break ==
    /\ Running /\ at \notin {"orphaned", "done"} /\ faults < MaxFaults /\ faults' = faults + 1
    /\ \/ at' = "crashed"
       \/ at \in {"installing", "deleting"} /\ job.push /\ at' = "orphaned"
    /\ UNCHANGED <<tree, askedVars, before, stageVars, slotVars, resultVars, userVars, lost>>

OrphanEnds ==
    /\ at = "orphaned" /\ todo = {} /\ current = NoPath /\ at' = "failed"
    /\ UNCHANGED <<tree, askedVars, before, stageVars, slotVars, resultVars, userVars, lost, faults>>

-----------------------------------------------------------------------------
(* Deletion: delete_expected and REMOTE_DELETE_EXPECTED_CODE.              *)

Deleting == job.kind = "delete" /\ at \in {"deleting", "giving up", "orphaned"}

BeginDelete ==
    /\ at = "ready" /\ job.kind = "delete"
    /\ at' = "deleting" /\ todo' = job.batch /\ touched' = {}
    /\ UNCHANGED <<tree, askedVars, before, stageVars, current, aside, step, resultVars, lost, late, edits, faults>>

\* Deepest first.  What is not there is deleted if nothing was expected; what is
\* there is renamed to a quarantine, with all below it.
DeleteAside(p) ==
    /\ Deleting /\ current = NoPath /\ p \in todo /\ Under[p] \cap todo = {}
    /\ \A q \in Parents(p) : tree[Dest][q].kind # "file"
    /\ todo' = todo \ {p}
    /\ IF tree[Dest][p] = Gone
       THEN /\ reported' = IF expect[Dest][p] = Gone THEN reported \cup {p} ELSE reported
            /\ UNCHANGED <<tree, current, aside, step>>
       ELSE /\ current' = p /\ step' = "moved"
            /\ aside' = Only(tree[Dest], Subtree(p))
            /\ tree' = [tree EXCEPT ![Dest] = Without(@, Subtree(p))]
            /\ UNCHANGED reported
    /\ UNCHANGED <<askedVars, at, before, stageVars, found, userVars, lost, faults>>

\* A parent is no directory.
DeleteBlocked ==
    /\ Deleting /\ current = NoPath
    /\ \E p \in todo : Under[p] \cap todo = {} /\ \E q \in Parents(p) : tree[Dest][q].kind = "file"
    /\ at' = "failed"
    /\ UNCHANGED <<tree, askedVars, before, stageVars, slotVars, resultVars, userVars, lost, faults>>

\* _matches_expected of a deletion: a directory by kind, anything else by content and metadata.
Expected(p) ==
    \/ aside[p] = expect[Dest][p]
    \/ aside[p].kind = "dir" /\ expect[Dest][p].kind = "dir"

\* Coding error: judged by what a quick look shows.
JudgeQuick ==
    /\ Deleting /\ step = "moved" /\ aside[current] # Gone
    /\ step' = IF aside[current].kind = expect[Dest][current].kind
                  /\ (aside[current].kind = "file" => aside[current].quick = expect[Dest][current].quick)
               THEN "matched" ELSE "restoring"
    /\ UNCHANGED <<tree, askedVars, at, before, stageVars, todo, current, aside, resultVars, userVars, lost, faults>>

\* What is in quarantine is hashed and compared.
Judge ==
    /\ Deleting /\ step = "moved" /\ aside[current] # Gone
    /\ step' = IF Expected(current) THEN "matched" ELSE "restoring"
    /\ UNCHANGED <<tree, askedVars, at, before, stageVars, todo, current, aside, resultVars, userVars, lost, faults>>

Idle == current' = NoPath /\ step' = "none"

\* A file is unlinked, an empty directory removed.
DeleteAway ==
    /\ Deleting /\ step = "matched" /\ aside[current] # Gone
    /\ \A q \in Under[current] : aside[q] = Gone
    /\ lost' = lost \cup Destroyed(aside, Paths)
    /\ reported' = reported \cup {current} /\ aside' = Empty /\ Idle
    /\ UNCHANGED <<tree, askedVars, at, before, stageVars, todo, found, userVars, faults>>

\* A directory that is not empty goes back, and the deletion fails.
DeleteFails ==
    /\ Deleting
    /\ \/ step = "matched" /\ \E q \in Under[current] : aside[q] # Gone
       \/ step \in {"moved", "matched"} /\ aside[current] = Gone
    /\ step' = "restoring" /\ todo' = {} /\ at' = IF at = "orphaned" THEN at ELSE "giving up"
    /\ UNCHANGED <<tree, askedVars, before, stageVars, current, aside, resultVars, userVars, lost, faults>>

\* _restore_quarantine: a name that was taken again keeps what is there, and what is
\* in quarantine stays there under another name.
Restore ==
    /\ Deleting /\ step = "restoring"
    /\ IF tree[Dest][current] = Gone
       THEN step' = "back" /\ UNCHANGED <<at, current>>
       ELSE at' = "failed" /\ Idle
    /\ UNCHANGED <<tree, askedVars, before, stageVars, todo, aside, resultVars, userVars, lost, faults>>

\* The rename back follows the look at the name, and replaces a file made between.
PutBack ==
    /\ Deleting /\ step = "back"
    /\ IF aside[current] # Gone /\ Fits(aside[current], tree[Dest][current], Children(current))
       THEN /\ lost' = lost \cup Destroyed(tree[Dest], {current})
            /\ tree' = [tree EXCEPT ![Dest] = [q \in Paths |-> IF q \in Subtree(current) THEN aside[q] ELSE @[q]]]
            /\ aside' = Empty
            /\ at' = IF at = "giving up" THEN "failed" ELSE at
       ELSE at' = "failed" /\ UNCHANGED <<tree, lost, aside>>
    /\ Idle
    /\ UNCHANGED <<askedVars, before, stageVars, todo, resultVars, userVars, faults>>

DeleteEnds ==
    /\ at = "deleting" /\ todo = {} /\ current = NoPath /\ at' = "done"
    /\ UNCHANGED <<tree, askedVars, before, stageVars, slotVars, resultVars, userVars, lost, faults>>

Delete ==
    \/ BeginDelete \/ (\E p \in Paths : DeleteAside(p)) \/ DeleteBlocked \/ Judge \/ DeleteAway
    \/ DeleteFails \/ Restore \/ PutBack \/ DeleteEnds

Transfer ==
    \/ LookLocal \/ Preflight \/ (\E p \in Paths : StagePath(p) \/ InstallPath(p))
    \/ Ship \/ FallBack \/ Place \/ Discard \/ PlaceFails \/ Unreachable
    \/ LookAgain \/ Verify \/ OrphanEnds

-----------------------------------------------------------------------------
(* Jobs.                                                                   *)

PairTrees == {t \in [Sides -> [Paths -> {Gone} \cup UNION {{File(v, v), Folder(v)} : v \in {1, 2}}]] :
                 t["local"] \in Trees(1) /\ t["remote"] \in Trees(2)}

Jobs == [kind: {"transfer", "delete"}, batch: (SUBSET Paths) \ {{}}, push: BOOLEAN, rsync: BOOLEAN, hashed: BOOLEAN]

\* The engine's batches: sources that exist, as they were planned.
PlannedJob ==
    /\ job.hashed = (job.kind = "delete") /\ (job.kind = "delete" => ~job.rsync)
    /\ job.kind = "transfer" => \A p \in job.batch : tree[Source][p] # Gone

TransportInit ==
    /\ tree \in PairTrees /\ job \in Jobs
    /\ expect = tree
    /\ before = [s \in Sides |-> Empty] /\ found = [s \in Sides |-> Empty]
    /\ reference = Empty /\ stage = Empty /\ linked = {}
    /\ todo = {} /\ current = NoPath /\ aside = Empty /\ step = "none"
    /\ reported = {} /\ touched = {} /\ lost = {} /\ late = {} /\ edits = 0 /\ faults = 0

-----------------------------------------------------------------------------
(* Properties.                                                             *)

TransportTypeOK ==
    /\ tree \in [Sides -> [Paths -> Entries]] /\ job \in Jobs
    /\ expect \in [Sides -> [Paths -> Entries]]
    /\ before \in [Sides -> [Paths -> Entries]] /\ found \in [Sides -> [Paths -> Entries]]
    /\ at \in {"asked", "compared", "ready", "looked", "staging", "copying", "installing", "verifying",
               "deleting", "giving up", "orphaned", "done", "counted", "settled", "refused", "failed", "crashed"}
    /\ reference \in [Paths -> Entries] /\ stage \in [Paths -> Entries] /\ linked \subseteq Paths
    /\ todo \subseteq Paths /\ current \in Paths \cup {NoPath} /\ aside \in [Paths -> Entries]
    /\ step \in {"none", "aside", "placed", "moved", "matched", "restoring", "back"}
    /\ reported \subseteq job.batch /\ touched \subseteq Paths
    /\ lost \subseteq [path: Paths, entry: Entries] /\ late \subseteq 1..(2 + MaxEdits)
    /\ edits \in 0..MaxEdits /\ faults \in 0..MaxFaults

\* A path reported as completed has at the destination what was sent, if no user has
\* changed the destination since: whatever the source became, by rsync or tar, staged by
\* link or by copy, after a fallback.  What was sent is what the source was when the
\* transfer was let through, or what a quiet edit made of it between the look before
\* staging and the hard link.
CompletedShared ==
    job.kind = "transfer" => \A p \in reported \ touched :
        LET there == tree[Dest][p] passed == before[Source][p] IN
        /\ there.kind = passed.kind
        /\ there.kind = "file" =>
            /\ there = Sent(p) /\ there.quick = passed.quick
            /\ there = passed \/ there.v \in late

\* "If an expected fingerprint changes before an action commits, that action does not
\* update base" (design, 12.2): what is reported is what the source was when the transfer
\* was let through.
SentAsObserved ==
    job.kind = "transfer" => \A p \in reported \ touched :
        tree[Dest][p].kind = "file" => tree[Dest][p] = before[Source][p]

\* A path is placed, with what is below it.
Replaced(p) ==
    \E t \in Tops(job.batch) : p \in Subtree(t) /\ (t \notin todo \/ (t = current /\ step = "placed"))

\* What the destination had is in its place or aside until something was placed for it:
\* no failed, interrupted or abandoned installation leaves neither.
NothingVanishes ==
    job.kind = "transfer" /\ at \notin {"asked", "compared", "ready", "looked", "refused", "staging", "copying"} =>
        \A p \in Paths \ touched :
            before[Dest][p] # Gone /\ ~Replaced(p) =>
                \E e \in {tree[Dest][p], aside[p]} :
                    e.kind = before[Dest][p].kind /\ (e.kind = "file" => e = before[Dest][p])

\* A deletion destroys what was expected at the paths it was given, and else only what
\* was written after the last look at it: users who recreate, rewrite or fill what is
\* being deleted keep it, under its name or another.
DeleteKeeps ==
    job.kind = "delete" => \A l \in lost :
        \/ l.path \in job.batch /\ l.entry.kind = expect[Dest][l.path].kind
           /\ (l.entry.kind = "file" => l.entry = expect[Dest][l.path])
        \/ l.entry.v \in late

\* "Transfer selected paths" (design, 8.5): a directory that is sent over a directory
\* leaves the entries in it that were not selected.
OnlySelected ==
    job.kind = "transfer" => \A l \in lost :
        \/ l.path \in job.batch \cup touched
        \/ \E p \in Parents(l.path) \cap job.batch : before[Source][p].kind = "file"
=============================================================================
