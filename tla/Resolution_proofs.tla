--------------------------- MODULE Resolution_proofs ---------------------------
(***************************************************************************)
(* For every tree of paths, batch, number of edits and number of faults:   *)
(* what a transfer reports, what it may lose, what a deletion may destroy  *)
(* and what a settled request is based on.                                 *)
(*                                                                         *)
(* The argument.  Versions are numbered, so a source that is at the end    *)
(* what was sent of it was that all the time, and what was staged of it in *)
(* between is that too (Fresh, Sending).  What is sent is what the         *)
(* preflight saw, or by rsync what was staged: that is what the preflight  *)
(* saw, or was written between the look before staging and the hard link   *)
(* (Referenced).  Top-level paths of a batch are apart, so placing one     *)
(* leaves what was placed for the others (Installed).  With nothing left   *)
(* to do every path of the batch is placed: this gives CompletedShared.    *)
(* What is moved aside is all there was below a path, and nothing else is  *)
(* aside (SetAside), so until it is replaced the old entry is in one place *)
(* or the other (AllKept).  A deletion looks at what is aside after it was *)
(* moved there; what differs from what was judged was written after the    *)
(* look (Quarantine).                                                      *)
(***************************************************************************)
EXTENDS Resolution, FiniteSetTheorems, TLAPS

\* The same kind, and of a file the same content.
Same(e, f) == e.kind = f.kind /\ (e.kind = "file" => e = f)

\* Before anything reaches the destination.
Unsent == {"asked", "compared", "ready", "looked", "staging", "copying", "refused"}

\* Where a job stands and what it has in hand.
InHand ==
    /\ at \in Unsent =>
            todo = {} /\ current = NoPath /\ aside = Empty /\ reported = {} /\ lost = {}
    /\ todo \subseteq job.batch /\ (job.kind = "transfer" => todo \subseteq Tops(job.batch))
    /\ step = "none" <=> current = NoPath
    /\ current # NoPath =>
            /\ current \in job.batch
            /\ at \in {"installing", "deleting", "giving up", "orphaned", "crashed"}
            /\ job.kind = "transfer" => current \in todo
    /\ job.kind = "transfer" => step \in {"none", "aside", "placed"}
    /\ job.kind = "delete" => step \notin {"aside", "placed"}
    /\ at \in {"verifying", "done", "counted", "settled"} => todo = {}

\* What a job of a kind has done by then.
Kinds ==
    /\ at \in {"asked", "compared", "looked", "staging", "copying", "installing", "verifying"} => job.kind = "transfer"
    /\ at \in {"deleting", "giving up"} => job.kind = "delete"
    /\ at \in {"asked", "compared", "ready"} => before = [s \in Sides |-> Empty]
    /\ at = "looked" => before["remote"] = Empty
    /\ at \in {"asked", "compared", "ready", "looked"} => stage = Empty /\ reference = Empty
    /\ linked # {} => at \in {"staging", "failed", "crashed"}
    /\ job.kind = "transfer" /\ reported # {} => at \in {"done", "counted", "settled", "failed", "crashed"}

\* Only the entry at hand and what was below it are aside.
SetAside ==
    IF current = NoPath THEN Running => aside = Empty
                        ELSE \A q \in Paths \ Subtree(current) : aside[q] = Gone

\* A new version is new.
Fresh ==
    /\ \A s \in Sides, p \in Paths : tree[s][p].v <= 2 + edits /\ before[s][p].v <= 2 + edits
    /\ \A p \in Paths : stage[p].v <= 2 + edits /\ aside[p].v <= 2 + edits /\ reference[p].v <= 2 + edits

\* A source that is at the end what was sent of it was that all the time.
Sending ==
    job.kind = "transfer" /\ at \in {"staging", "copying", "installing", "orphaned", "verifying"} =>
        \A p \in job.batch :
            /\ tree[Source][p] = Sent(p) => stage[p] \in {Gone, Sent(p)}
            /\ ~Staging => stage[p] # Gone
            /\ at = "verifying" /\ FirstLook = Source /\ found[Source][p] = Sent(p) => stage[p] = Sent(p)

\* A source that is pushed by rsync is as the preflight saw it when it is looked at for
\* staging; what is staged looks like that, and is that or was written between the look
\* and the link.
Referenced ==
    job.push /\ job.rsync => \A p \in Paths :
        /\ stage[p] # Gone \/ p \in linked => reference[p] # Gone
        /\ reference[p] # Gone =>
            /\ Alike(reference[p], before[Source][p])
            /\ reference[p] = before[Source][p] \/ reference[p].v \in late
        /\ Looked(p) =>
            /\ reference[p] = before[Source][p]
            /\ tree[Source][p].kind = "file" => tree[Source][p] = reference[p] \/ tree[Source][p].v \in late

\* What was placed is what was staged, until a user changes it.
Installed ==
    job.kind = "transfer" /\ at \in {"installing", "orphaned", "verifying"} =>
        \A p \in job.batch \ touched : Replaced(p) => Same(tree[Dest][p], stage[p])

\* Where the entry at hand was, nothing is, until a user puts something there.
Emptied ==
    step = "aside" => \A q \in Subtree(current) \ touched : tree[Dest][q] = Gone

\* What the destination had at a path is there or aside.
Kept(p) == before[Dest][p] # Gone => \E e \in {tree[Dest][p], aside[p]} : Same(e, before[Dest][p])

\* And so it is at every path, until something is placed there.
AllKept ==
    job.kind = "transfer" => \A p \in Paths \ touched :
        at \in {"looked", "staging", "copying"} \/ ~Replaced(p) => Kept(p)

\* What was judged is as it was judged, or was written after that.
Quarantine ==
    job.kind = "delete" =>
        /\ step = "matched" => aside[current] = Gone \/ Expected(current) \/ aside[current].v \in late
        /\ step = "back" => tree[Dest][current] = Gone \/ tree[Dest][current].v \in late

\* The expectations are complete.
Planned == at \notin {"asked", "compared", "refused", "crashed"}

\* What was asked, what is expected of the source, what was let through and what was settled.
Requested ==
    /\ asked # "plain" => job.batch = {Subject} /\ job.hashed
    /\ asked = "plain" => at \notin {"asked", "compared", "counted", "settled"}
    /\ asked = "fetch" => ~job.push /\ record["remote"].kind = "file"
                       /\ (at # "settled" => base = record["remote"])
    /\ Planned /\ job.kind = "transfer" => \A p \in job.batch : expect[Source][p] # Gone
    /\ Planned /\ asked # "plain" =>
            /\ expect[Source][Subject].kind = Chosen.kind /\ expect[Source][Subject].v = Chosen.v
            /\ job.kind = "delete" <=> Chosen.kind = "missing"
    /\ Planned /\ at \notin {"ready", "looked"} /\ job.kind = "transfer" =>
            \A p \in job.batch, s \in Sides : Agrees(expect[s][p], before[s][p])
    /\ at \in {"counted", "settled"} => reported = job.batch
    /\ at = "settled" => base = tree[Dest][Subject] /\ (job.kind = "delete" <=> base = Gone)

\* The inductive invariant.
Inv == /\ TypeOK /\ InHand /\ Kinds /\ SetAside /\ Fresh /\ Sending /\ Referenced /\ Installed
       /\ Emptied /\ AllKept /\ Quarantine /\ Requested /\ CompletedShared /\ DeleteKeeps

-----------------------------------------------------------------------------
(* Steps without branches.                                                 *)

\* A step of a job, not of the request it serves.
Apart == UNCHANGED resolutionVars

\* Something fails, or the process dies, and nothing else changes.
Ceases ==
    /\ Running /\ at # "refused" /\ at' \in {"failed", "crashed"} /\ faults' \in 0..MaxFaults
    /\ at' = "failed" => /\ at \in {"staging", "copying", "installing", "deleting", "giving up", "orphaned"}
                         /\ Staging \/ current = NoPath
    /\ UNCHANGED <<tree, askedVars, before, stageVars, slotVars, resultVars, userVars, lost>>

\* The connection is lost; the remote script goes on.
Orphans ==
    /\ at \in {"installing", "deleting"} /\ at' = "orphaned" /\ faults' \in 0..MaxFaults
    /\ UNCHANGED <<tree, askedVars, before, stageVars, slotVars, resultVars, userVars, lost>>

\* A local source is looked at.
Looks(p) ==
    /\ job.push /\ tree[Source][p] # Gone /\ reference[p] = Gone
    /\ job.rsync => tree[Source][p] = before[Source][p]
    /\ reference' = [reference EXCEPT ![p] = tree[Source][p]]
    /\ UNCHANGED <<at, stage, linked>>

\* A source is staged as it is.
Copies(p) ==
    /\ stage[p] = Gone /\ tree[Source][p] # Gone
    /\ stage' = [stage EXCEPT ![p] = tree[Source][p]]
    /\ linked' = linked \/ (at = "staging" /\ linked' = linked \cup {p})
    /\ IF job.push
       THEN /\ Looked(p) /\ Alike(tree[Source][p], reference[p])
            /\ tree[Source][p] = reference[p] \/ reference[p].kind = "file"
            /\ reference' = [reference EXCEPT ![p] = tree[Source][p]]
       ELSE reference' = reference
    /\ at' = at

\* Staging begins anew.
Restages == at' = "copying" /\ reference' = Empty /\ stage' = Empty /\ linked' = {}

\* A step of staging a path.
Stages(p) ==
    /\ Staging /\ p \in job.batch /\ at' \in {"staging", "copying"}
    /\ Looks(p) \/ Copies(p) \/ Restages
    /\ UNCHANGED <<tree, askedVars, before, slotVars, resultVars, userVars, lost, faults>>

\* What is aside goes back to its place.
Reinstates ==
    /\ step = "aside" /\ Installing
    /\ lost' = lost \cup Destroyed(tree[Dest], {current})
    /\ tree' = [tree EXCEPT ![Dest] = [q \in Paths |-> IF q \in Subtree(current) THEN aside[q] ELSE @[q]]]
    /\ aside' = Empty /\ at' = "failed" /\ step' = "none" /\ current' = NoPath
    /\ UNCHANGED <<askedVars, before, stageVars, todo, resultVars, userVars, faults>>

\* What is aside stays there.
LetsGo ==
    /\ at \in {"installing", "deleting", "giving up", "orphaned"} /\ step \in {"aside", "restoring", "back"}
    /\ at' = "failed" /\ step' = "none" /\ current' = NoPath
    /\ UNCHANGED <<tree, askedVars, before, stageVars, todo, aside, resultVars, userVars, lost, faults>>

\* A directory is kept, and the missing ones below it are made.
Keeps(p) ==
    /\ at = "installing" /\ current = NoPath /\ p \in todo
    /\ \A q \in job.batch : stage[q].kind = "dir"
    /\ \A q \in Subtree(p) \cap job.batch : tree[Dest][q].kind # "file"
    /\ tree' = [tree EXCEPT ![Dest] = [q \in Paths |->
            IF q \in Subtree(p) \cap job.batch /\ @[q] = Gone THEN stage[q] ELSE WithParents(@, p)[q]]]
    /\ todo' = todo \ {p}
    /\ UNCHANGED <<askedVars, at, before, stageVars, current, aside, step, resultVars, userVars, lost, faults>>

\* Nothing is there to delete.
Skips(p) ==
    /\ Deleting /\ current = NoPath /\ p \in todo /\ todo' = todo \ {p}
    /\ reported' \in {reported, reported \cup {p}}
    /\ UNCHANGED <<tree, askedVars, at, before, stageVars, current, aside, step, found, userVars, lost, faults>>

\* What is there goes to a quarantine.
Takes(p) ==
    /\ Deleting /\ current = NoPath /\ p \in todo /\ todo' = todo \ {p}
    /\ current' = p /\ step' = "moved" /\ aside' = Only(tree[Dest], Subtree(p))
    /\ tree' = [tree EXCEPT ![Dest] = Without(@, Subtree(p))]
    /\ UNCHANGED <<askedVars, at, before, stageVars, resultVars, userVars, lost, faults>>

\* The name is free for what is in quarantine.
Restores ==
    /\ Deleting /\ step = "restoring" /\ tree[Dest][current] = Gone /\ step' = "back"
    /\ UNCHANGED <<tree, askedVars, at, before, stageVars, todo, current, aside, resultVars, userVars, lost, faults>>

\* What is in quarantine goes back to its name.
PutsBack ==
    /\ Deleting /\ step = "back"
    /\ lost' = lost \cup Destroyed(tree[Dest], {current})
    /\ tree' = [tree EXCEPT ![Dest] = [q \in Paths |-> IF q \in Subtree(current) THEN aside[q] ELSE @[q]]]
    /\ aside' = Empty /\ at' = (IF at = "giving up" THEN "failed" ELSE at) /\ Idle
    /\ UNCHANGED <<askedVars, before, stageVars, todo, resultVars, userVars, faults>>

\* The next-state relation, with what fails apart from what happens.
Step ==
    \/ Apart /\ User
    \/ Apart /\ Ceases
    \/ Apart /\ Orphans
    \/ Apart /\ LookLocal
    \/ Apart /\ Preflight
    \/ \E p \in Paths : Apart /\ Stages(p)
    \/ Apart /\ Ship
    \/ Apart /\ FallBack
    \/ \E p \in Paths : Apart /\ Aside(p)
    \/ Apart /\ Place
    \/ Apart /\ Discard
    \/ Apart /\ Reinstates
    \/ Apart /\ LetsGo
    \/ \E p \in Paths : Apart /\ Keeps(p)
    \/ Apart /\ LookAgain
    \/ Apart /\ Verify
    \/ Apart /\ BeginDelete
    \/ \E p \in Paths : Apart /\ Skips(p)
    \/ \E p \in Paths : Apart /\ Takes(p)
    \/ Apart /\ Judge
    \/ Apart /\ DeleteAway
    \/ Apart /\ DeleteFails
    \/ Apart /\ Restores
    \/ Apart /\ PutsBack
    \/ Apart /\ DeleteEnds
    \/ CompareLocal
    \/ CompareRemote
    \/ FinalLook
    \/ Settle
    \/ UNCHANGED wholeVars

\* A step of staging is one, or fails.
LEMMA StagesOrCeases ==
    ASSUME TypeOK, NEW p \in Paths, StagePath(p)
    PROVE  Stages(p) \/ Ceases
<1>1. /\ reference \in [Paths -> Entries] /\ stage \in [Paths -> Entries] /\ faults \in 0..MaxFaults
  BY DEF TypeOK, TransportTypeOK
<1>2. /\ UNCHANGED <<tree, askedVars, before, slotVars, resultVars, userVars, lost, faults>>
      /\ Staging /\ p \in job.batch
  <2>1. CASE LookAtSource(p)
    BY <2>1 DEF LookAtSource
  <2>2. CASE LinkSource(p)
    BY <2>2 DEF LinkSource, Looked, Staging
  <2>3. CASE LinkRefused(p)
    BY <2>3 DEF LinkRefused, Looked, Staging
  <2>4. CASE CopySource(p)
    BY <2>4 DEF CopySource, Looked
  <2>5. CASE CopyRemote(p)
    BY <2>5 DEF CopyRemote, Staging
  <2> QED
    BY <2>1, <2>2, <2>3, <2>4, <2>5 DEF StagePath
<1>3. ASSUME at' = "failed", UNCHANGED stageVars
      PROVE  Ceases
  <2>1. Running /\ at # "refused" /\ at \in {"staging", "copying"}
    BY <1>2 DEF Staging, Running
  <2>2. faults' \in 0..MaxFaults
    BY <1>1, <1>2
  <2> QED
    BY <1>2, <1>3, <2>1, <2>2 DEF Ceases
<1>4. ASSUME at' \in {"staging", "copying"}, Looks(p) \/ Copies(p) \/ Restages
      PROVE  Stages(p)
  BY <1>2, <1>4 DEF Stages
<1>5. at \in {"staging", "copying"}
  BY <1>2 DEF Staging
<1>6. CASE LookAtSource(p)
  BY <1>3, <1>4, <1>5, <1>6 DEF LookAtSource, Looks, stageVars
<1>7. CASE LinkSource(p)
  <2>1. Looked(p) /\ at = "staging" /\ reference[p].kind = "file" /\ stage[p] = Gone
    BY <1>7 DEF LinkSource, Looked
  <2>2. CASE Alike(tree[Source][p], reference[p])
    <3>1. /\ stage' = [stage EXCEPT ![p] = tree[Source][p]]
          /\ reference' = [reference EXCEPT ![p] = tree[Source][p]]
          /\ linked' = linked \cup {p} /\ UNCHANGED at
      BY <1>7, <2>2 DEF LinkSource
    <3>2. tree[Source][p] # Gone
      BY <2>1, <2>2 DEF Alike, Gone
    <3>3. Copies(p)
      BY <2>1, <2>2, <3>1, <3>2 DEF Copies, Looked
    <3> QED
      BY <1>4, <1>5, <3>1, <3>3
  <2>3. CASE ~Alike(tree[Source][p], reference[p])
    BY <1>3, <1>7, <2>3 DEF LinkSource
  <2> QED
    BY <2>2, <2>3
<1>8. CASE LinkRefused(p)
  BY <1>3, <1>4, <1>8 DEF LinkRefused, Restages
<1>9. CASE CopySource(p)
  <2>1. CASE tree[Source][p] = reference[p]
    <3>1. /\ stage' = [stage EXCEPT ![p] = tree[Source][p]] /\ UNCHANGED <<at, linked, reference>>
          /\ Looked(p)
      BY <1>9, <2>1 DEF CopySource
    <3>2. reference' = [reference EXCEPT ![p] = tree[Source][p]]
      BY <1>1, <2>1, <3>1
    <3> QED
      BY <1>4, <1>5, <2>1, <3>1, <3>2 DEF Copies, Looked, Alike
  <2>2. CASE tree[Source][p] # reference[p]
    BY <1>3, <1>9, <2>2 DEF CopySource, stageVars
  <2> QED
    BY <2>1, <2>2
<1>10. CASE CopyRemote(p)
  BY <1>3, <1>4, <1>5, <1>10 DEF CopyRemote, Copies, stageVars
<1> QED
  BY <1>6, <1>7, <1>8, <1>9, <1>10 DEF StagePath

\* Every step is one of these.
LEMMA Passes ==
    ASSUME TypeOK, faults \in 0..MaxFaults, [Next]_wholeVars
    PROVE  Step
<1> USE BoundsAssumption
<1>1. CASE Apart /\ User
  BY <1>1 DEF Step
<1>2. CASE Apart /\ Break
  <2>1. Ceases \/ Orphans
    <3>1. /\ Running /\ faults < MaxFaults /\ faults' = faults + 1
          /\ at' = "crashed" \/ (at' = "orphaned" /\ at \in {"installing", "deleting"})
      BY <1>2 DEF Break
    <3>2. UNCHANGED <<tree, askedVars, before, stageVars, slotVars, resultVars, userVars, lost>>
      BY <1>2 DEF Break
    <3>3. at # "refused" /\ faults' \in 0..MaxFaults
      BY <3>1 DEF Running, BoundsAssumption
    <3> QED
      BY <3>1, <3>2, <3>3 DEF Ceases, Orphans
  <2> QED
    BY <1>2, <2>1 DEF Step
<1>3. CASE Apart /\ Transfer
  <2>1. ASSUME NEW p \in Paths, StagePath(p)
        PROVE  Stages(p) \/ Ceases
    BY <1>3, <2>1, StagesOrCeases DEF StagePath
  <2>2. ASSUME NEW p \in Paths, InstallPath(p)
        PROVE  Aside(p) \/ Keeps(p) \/ Ceases
    <3>1. CASE Aside(p)
      BY <3>1
    <3>2. CASE KeepDirectory(p)
      <4> DEFINE members == Subtree(p) \cap job.batch
      <4>1. CASE \E q \in Subtree(p) \cap job.batch : tree[Dest][q].kind = "file"
        BY <3>2, <4>1 DEF KeepDirectory, Ceases, Running, slotVars
      <4>2. CASE ~ \E q \in Subtree(p) \cap job.batch : tree[Dest][q].kind = "file"
        BY <3>2, <4>2, Zenon DEF KeepDirectory, Keeps
      <4> QED
        BY <4>1, <4>2
    <3> QED
      BY <2>2, <3>1, <3>2 DEF InstallPath
  <2>3. ASSUME PlaceFails
        PROVE  Reinstates \/ LetsGo
    <3> DEFINE fits == Fits(aside[current], tree[Dest][current], Children(current))
                         /\ \A q \in Parents(current) : tree[Dest][q].kind = "dir"
    <3>1. CASE aside[current] # Gone /\ fits
      BY <2>3, <3>1 DEF PlaceFails, Reinstates
    <3>2. CASE ~(aside[current] # Gone /\ fits)
      BY <2>3, <3>2 DEF PlaceFails, LetsGo, Installing
    <3> QED
      BY <3>1, <3>2
  <2>4. ASSUME Unreachable
        PROVE  Ceases
    <3>1. at \in {"installing", "orphaned"} /\ at' = "failed" /\ faults' = faults /\ current = NoPath
      BY <2>4 DEF Unreachable, Installing
    <3>2. UNCHANGED <<tree, askedVars, before, stageVars, slotVars, resultVars, userVars, lost>>
      BY <2>4 DEF Unreachable
    <3>3. Running /\ at # "refused"
      BY <3>1 DEF Running
    <3>4. faults' \in 0..MaxFaults
      BY <3>1
    <3> QED
      BY <3>1, <3>2, <3>3, <3>4 DEF Ceases
  <2>5. ASSUME OrphanEnds
        PROVE  Ceases
    BY <2>5 DEF OrphanEnds, Ceases, Running
  <2> QED
    BY <1>3, <2>1, <2>2, <2>3, <2>4, <2>5 DEF Transfer, Step
<1>4. CASE Apart /\ Delete
  <2>1. ASSUME NEW p \in Paths, DeleteAside(p)
        PROVE  Skips(p) \/ Takes(p)
    BY <2>1 DEF DeleteAside, Skips, Takes, resultVars, slotVars
  <2>2. ASSUME DeleteBlocked
        PROVE  Ceases
    <3>1. at \in {"deleting", "giving up", "orphaned"} /\ at' = "failed" /\ current = NoPath
      BY <2>2 DEF DeleteBlocked, Deleting
    <3>5. faults' = faults
      BY <2>2 DEF DeleteBlocked
    <3>2. UNCHANGED <<tree, askedVars, before, stageVars, slotVars, resultVars, userVars, lost>>
      BY <2>2 DEF DeleteBlocked
    <3>3. Running /\ at # "refused"
      BY <3>1 DEF Running
    <3>4. faults' \in 0..MaxFaults
      BY <3>5
    <3> QED
      BY <3>1, <3>2, <3>3, <3>4, <3>5 DEF Ceases
  <2>3. ASSUME Restore
        PROVE  Restores \/ LetsGo
    BY <2>3 DEF Restore, Restores, LetsGo, Deleting, Idle
  <2>4. ASSUME PutBack
        PROVE  PutsBack \/ LetsGo
    <3> DEFINE fits == aside[current] # Gone /\ Fits(aside[current], tree[Dest][current], Children(current))
    <3>1. CASE fits
      BY <2>4, <3>1 DEF PutBack, PutsBack
    <3>2. CASE ~fits
      BY <2>4, <3>2 DEF PutBack, LetsGo, Deleting, Idle
    <3> QED
      BY <3>1, <3>2
  <2> QED
    BY <1>4, <2>1, <2>2, <2>3, <2>4 DEF Delete, Step
<1>5. CASE CompareLocal \/ CompareRemote \/ FinalLook \/ Settle \/ UNCHANGED wholeVars
  BY <1>5 DEF Step
<1> QED
  BY <1>1, <1>2, <1>3, <1>4, <1>5 DEF Next, Apart

-----------------------------------------------------------------------------
(* Entries, sides and paths.                                               *)

\* What an entry is made of, for any entry.
LEMMA EntryFacts ==
    /\ Gone \in Entries /\ Gone.kind = "missing" /\ Gone.v = 0
    /\ \A e \in Entries :
            /\ e.kind \in {"missing", "file", "dir"} /\ e.v \in Nat /\ e.v <= 2 + MaxEdits
            /\ e.kind = "missing" <=> e = Gone
            /\ e.kind = "file" => e.quick \in 1..(2 + MaxEdits)
            /\ e # Gone => e.v \in 1..(2 + MaxEdits)
    /\ \A v, k \in 1..(2 + MaxEdits) : File(v, k) \in Entries /\ Folder(v) \in Entries
    /\ \A v, k : File(v, k).v = v /\ File(v, k).kind = "file" /\ Folder(v).v = v /\ Folder(v).kind = "dir"
<1> USE BoundsAssumption DEF BoundsAssumption
<1>1. Gone \in Entries /\ Gone.kind = "missing" /\ Gone.v = 0
  BY DEF Gone, Entries
<1>2. ASSUME NEW e \in Entries
      PROVE  /\ e.kind \in {"missing", "file", "dir"} /\ e.v \in Nat /\ e.v <= 2 + MaxEdits
             /\ e.kind = "missing" <=> e = Gone
             /\ e.kind = "file" => e.quick \in 1..(2 + MaxEdits)
             /\ e # Gone => e.v \in 1..(2 + MaxEdits)
  <2>1. CASE e = Gone
    BY <2>1 DEF Gone
  <2>2. CASE \E v, k \in 1..(2 + MaxEdits) : e = File(v, k)
    BY <2>2 DEF File, Gone
  <2>3. CASE \E v \in 1..(2 + MaxEdits) : e = Folder(v)
    BY <2>3 DEF Folder, Gone
  <2> QED
    BY <1>2, <2>1, <2>2, <2>3 DEF Entries
<1>3. \A v, k \in 1..(2 + MaxEdits) : File(v, k) \in Entries /\ Folder(v) \in Entries
  BY DEF Entries
<1>4. \A v, k : File(v, k).v = v /\ File(v, k).kind = "file" /\ Folder(v).v = v /\ Folder(v).kind = "dir"
  BY DEF File, Folder
<1> QED
  BY <1>1, <1>2, <1>3, <1>4

\* The source and the destination are the two sides, and stay what they are.
LEMMA SideFacts ==
    ASSUME job \in Jobs
    PROVE  /\ Source \in Sides /\ Dest \in Sides /\ Source # Dest
           /\ job.batch \subseteq Paths /\ job.kind \in {"transfer", "delete"}
           /\ job.push \in BOOLEAN /\ job.rsync \in BOOLEAN /\ job.hashed \in BOOLEAN
           /\ Source = "local" <=> Dest = "remote"
           /\ Sides = {Source, Dest}
  BY DEF Jobs, Source, Dest, Sides

\* No step changes what is asked for, but for the kind of a request and the fallback to tar.
LEMMA SidesStay ==
    ASSUME job \in Jobs, Step
    PROVE  /\ job'.push = job.push /\ job'.batch = job.batch /\ job'.hashed = job.hashed
           /\ Source' = Source /\ Dest' = Dest /\ Subject' = Subject
           /\ job'.kind = job.kind \/ CompareRemote
           /\ job'.rsync = job.rsync \/ (Apart /\ FallBack)
           /\ job' \in Jobs
<1>1. \/ job' = job
      \/ CompareRemote /\ job' = [job EXCEPT !.kind = "delete"]
      \/ CompareRemote /\ job' = [job EXCEPT !.kind = "transfer"]
      \/ Apart /\ FallBack /\ job' = [job EXCEPT !.rsync = FALSE]
  <2>1. CASE CompareRemote
    BY <2>1 DEF CompareRemote
  <2>2. CASE Apart /\ FallBack
    BY <2>2 DEF FallBack
  <2>3. CASE ~CompareRemote /\ ~(Apart /\ FallBack)
    BY <2>3, Zenon DEF Step, User, Ceases, Orphans, LookLocal, Preflight, Stages, Ship, Aside,
     Place, Discard, Reinstates, LetsGo, Keeps, LookAgain, Verify,
     BeginDelete, Skips, Takes, Judge, DeleteAway, DeleteFails, Restores, PutsBack, DeleteEnds, CompareLocal,
     FinalLook, Settle, wholeVars, vars, askedVars
  <2> QED
    BY <2>1, <2>2, <2>3
<1>2. /\ job'.push = job.push /\ job'.batch = job.batch /\ job'.hashed = job.hashed
      /\ job'.kind = job.kind \/ CompareRemote
      /\ job'.rsync = job.rsync \/ (Apart /\ FallBack)
      /\ job' \in Jobs
  BY <1>1 DEF Jobs
<1> QED
  BY <1>2 DEF Source, Dest, Subject

\* Staging, begun anew or not, goes on and changes nothing else.
LEMMA StagingGoesOn ==
    ASSUME job \in Jobs,
           \/ \E p \in Paths : Apart /\ Stages(p)
           \/ Apart /\ FallBack
    PROVE  /\ at \in {"staging", "copying"} /\ at' \in {"staging", "copying"}
           /\ UNCHANGED <<tree, expect, before, todo, current, aside, step, found, reported>>
           /\ UNCHANGED <<touched, late, edits, lost, faults, asked, record, base, echo, open>>
           /\ job'.kind = job.kind /\ job'.push = job.push /\ job'.batch = job.batch /\ job'.hashed = job.hashed
           /\ Source' = Source /\ Dest' = Dest /\ Subject' = Subject
<1>1. UNCHANGED resolutionVars
  BY DEF Apart
<1>2. job'.kind = job.kind /\ job'.push = job.push /\ job'.batch = job.batch /\ job'.hashed = job.hashed
  BY DEF FallBack, Stages, askedVars, Jobs
<1>3. expect' = expect
  BY DEF FallBack, Stages, askedVars
<1>4. at \in {"staging", "copying"} /\ at' \in {"staging", "copying"}
  BY DEF FallBack, Stages, Staging
<1>5. UNCHANGED <<tree, before, slotVars, resultVars, userVars, lost, faults>>
  BY DEF FallBack, Stages
<1> QED
  BY <1>1, <1>2, <1>3, <1>4, <1>5 DEF Source, Dest, Subject, slotVars, resultVars, userVars, resolutionVars

\* Of the paths: a subtree is a set of paths, and subtrees of top-level paths are apart.
LEMMA TreeFacts ==
    /\ \A p \in Paths : Subtree(p) \subseteq Paths /\ p \in Subtree(p) /\ Under[p] \subseteq Paths
    /\ \A p \in Paths : Parents(p) \subseteq Paths /\ p \notin Parents(p)
    /\ \A p, q \in Paths : q \in Parents(p) <=> p \in Under[q]
    /\ \A p \in Paths : \A q \in Under[p] : Subtree(q) \subseteq Subtree(p)
    /\ \A p \in Paths : \A q \in Subtree(p) : Under[q] \subseteq Under[p]
<1> USE UnderAssumption DEF UnderAssumption, Subtree, Parents
<1>1. \A p \in Paths : Subtree(p) \subseteq Paths /\ p \in Subtree(p) /\ Under[p] \subseteq Paths
  OBVIOUS
<1>2. \A p \in Paths : Parents(p) \subseteq Paths /\ p \notin Parents(p)
  OBVIOUS
<1>3. \A p, q \in Paths : q \in Parents(p) <=> p \in Under[q]
  OBVIOUS
<1>4. \A p \in Paths : \A q \in Under[p] : Subtree(q) \subseteq Subtree(p)
  OBVIOUS
<1>5. \A p \in Paths : \A q \in Subtree(p) : Under[q] \subseteq Under[p]
  OBVIOUS
<1> QED
  BY <1>1, <1>2, <1>3, <1>4, <1>5

\* What is below two top-level paths of a batch is below one.
LEMMA TopsApart ==
    ASSUME job \in Jobs, NEW p \in Tops(job.batch), NEW t \in Tops(job.batch),
           NEW q \in Subtree(p), q \in Subtree(t)
    PROVE  p = t
<1>1. /\ p \in job.batch /\ t \in job.batch /\ p \in Paths /\ t \in Paths
      /\ Parents(p) \cap job.batch = {} /\ Parents(t) \cap job.batch = {}
  BY SideFacts DEF Tops
<1>2. p \notin Under[t] /\ t \notin Under[p]
  BY <1>1, TreeFacts
<1>3. CASE q \in Under[p] /\ q \in Under[t]
  BY <1>1, <1>2, <1>3, UnderAssumption DEF UnderAssumption
<1>4. CASE q = p \/ q = t
  BY <1>1, <1>2, <1>4, TreeFacts DEF Subtree
<1> QED
  BY <1>3, <1>4 DEF Subtree

-----------------------------------------------------------------------------
(* What a user's step does to a job.                                       *)

\* The trees: what is not touched at the destination keeps its kind, and files their content.
TreesEdited ==
    /\ tree' \in [Sides -> [Paths -> Entries]]
    /\ \A s \in Sides, q \in Paths : tree'[s][q] \in {tree[s][q], Gone} \/ tree'[s][q].v = NewVersion
    /\ \A q \in Paths \ touched' :
            /\ tree'[Dest][q].kind = tree[Dest][q].kind
            /\ tree[Dest][q].kind # "dir" => tree'[Dest][q] = tree[Dest][q]

\* What was staged by hard link changes with its source.
StageEdited ==
    /\ stage' \in [Paths -> Entries] /\ linked' \subseteq linked
    /\ \A q \in Paths :
            \/ stage'[q] = stage[q]
            \/ q \in linked /\ stage'[q].v = NewVersion /\ stage'[q] = tree'[Source][q]

\* What is aside is written through old handles, or removed with the directory it is in.
AsideEdited ==
    /\ aside' \in [Paths -> Entries]
    /\ \A q \in Paths :
            \/ aside'[q] = aside[q]
            \/ q \in touched' /\ aside[q] # Gone /\ (aside'[q] = Gone \/ aside'[q].v = NewVersion)

\* The rest: the job goes on, and what is written while nothing looks is late.
RestEdited ==
    /\ Running /\ edits < MaxEdits /\ edits' = edits + 1
    /\ touched \subseteq touched' /\ touched' \subseteq Paths
    /\ late' \in {late, late \cup {NewVersion}}
    /\ step \in {"matched", "back"} => late' = late \cup {NewVersion}
    /\ UNCHANGED <<job, expect, at, before, reference, todo, current, step, found, reported, lost, faults>>

\* A new version is an entry's version.
LEMMA NewIsVersion ==
    ASSUME edits \in 0..MaxEdits, edits < MaxEdits
    PROVE  NewVersion \in 1..(2 + MaxEdits) /\ NewVersion \in Nat
  BY BoundsAssumption DEF BoundsAssumption, NewVersion

\* A change in one tree, seen from the destination.
LEMMA OneTreeEdited ==
    ASSUME TypeOK, NEW s \in Sides, NEW new \in [Paths -> Entries], NEW ps \in SUBSET Paths,
           tree' = [tree EXCEPT ![s] = new], Touch(s, ps),
           \A q \in Paths : new[q] \in {tree[s][q], Gone} \/ new[q].v = NewVersion,
           \A q \in Paths \ ps : /\ new[q].kind = tree[s][q].kind
                                 /\ tree[s][q].kind # "dir" => new[q] = tree[s][q]
    PROVE  TreesEdited /\ touched \subseteq touched' /\ touched' \subseteq Paths
<1>1. /\ tree \in [Sides -> [Paths -> Entries]] /\ touched \subseteq Paths /\ Dest \in Sides
  BY SideFacts DEF TypeOK, TransportTypeOK
<1>2. tree' \in [Sides -> [Paths -> Entries]]
  BY <1>1
<1>3. \A r \in Sides, q \in Paths : tree'[r][q] = IF r = s THEN new[q] ELSE tree[r][q]
  BY <1>1
<1>4. \A r \in Sides, q \in Paths : tree'[r][q] \in {tree[r][q], Gone} \/ tree'[r][q].v = NewVersion
  BY <1>3
<1>5. ASSUME NEW q \in Paths \ touched'
      PROVE  /\ tree'[Dest][q].kind = tree[Dest][q].kind
             /\ tree[Dest][q].kind # "dir" => tree'[Dest][q] = tree[Dest][q]
  <2>1. CASE s = Dest
    <3>1. q \in Paths \ ps
      BY <1>5, <2>1 DEF Touch
    <3> QED
      BY <1>1, <1>3, <2>1, <3>1
  <2>2. CASE s # Dest
    BY <1>1, <1>3, <2>2
  <2> QED
    BY <2>1, <2>2
<1>6. touched \subseteq touched' /\ touched' \subseteq Paths
  BY <1>1 DEF Touch
<1> QED
  BY <1>2, <1>4, <1>5, <1>6 DEF TreesEdited

\* A change of a directory's entries is a change of the directory.
LEMMA Renewal ==
    ASSUME TypeOK, edits < MaxEdits, NEW s \in Sides, NEW p \in Paths, NEW t \in [Paths -> Entries],
           NEW ps \in SUBSET Paths, Renewed(s, t, p), Touch(s, ps),
           \A q \in Paths : t[q] \in {tree[s][q], Gone} \/ t[q].v = NewVersion,
           \A q \in Paths \ ps : t[q] = tree[s][q]
    PROVE  TreesEdited /\ touched \subseteq touched' /\ touched' \subseteq Paths
<1> DEFINE new == [q \in Paths |-> IF q \in Parents(p) /\ t[q].kind = "dir" THEN Folder(NewVersion) ELSE t[q]]
<1>1. Folder(NewVersion) \in Entries /\ Folder(NewVersion).v = NewVersion /\ Folder(NewVersion).kind = "dir"
  BY EntryFacts, NewIsVersion DEF TypeOK, TransportTypeOK
<1>2. new \in [Paths -> Entries]
  BY <1>1
<1>3. \A q \in Paths : new[q] = IF q \in Parents(p) /\ t[q].kind = "dir" THEN Folder(NewVersion) ELSE t[q]
  OBVIOUS
<1>4. tree' = [tree EXCEPT ![s] = new]
  BY DEF Renewed
<1> HIDE DEF new
<1>5. \A q \in Paths : new[q] \in {tree[s][q], Gone} \/ new[q].v = NewVersion
  BY <1>1, <1>3
<1>6. \A q \in Paths \ ps : /\ new[q].kind = tree[s][q].kind
                            /\ tree[s][q].kind # "dir" => new[q] = tree[s][q]
  BY <1>1, <1>3
<1> QED
  BY <1>2, <1>4, <1>5, <1>6, OneTreeEdited

\* That is what a user does, whatever it is.
LEMMA UserStep ==
    ASSUME TypeOK, SetAside, User
    PROVE  TreesEdited /\ StageEdited /\ AsideEdited /\ RestEdited
<1>1. /\ tree \in [Sides -> [Paths -> Entries]] /\ touched \subseteq Paths /\ Dest \in Sides /\ Source \in Sides
      /\ stage \in [Paths -> Entries] /\ aside \in [Paths -> Entries] /\ linked \subseteq Paths
      /\ edits \in 0..MaxEdits /\ Dest # Source
  BY SideFacts DEF TypeOK, TransportTypeOK
<1>2. /\ Running /\ edits < MaxEdits /\ edits' = edits + 1
      /\ UNCHANGED <<job, expect, at, before, reference, todo, current, step, found, reported, lost, faults>>
  BY DEF User, askedVars, resultVars, stageVars, Write, Put, Remove, WriteAside
<1>3. NewVersion \in 1..(2 + MaxEdits)
  BY <1>1, <1>2, NewIsVersion
<1>4. ASSUME NEW s \in Sides, NEW p \in Paths, NEW quiet \in BOOLEAN, Write(s, p, quiet)
      PROVE  TreesEdited /\ StageEdited /\ AsideEdited /\ RestEdited
  <2> DEFINE entry == File(NewVersion, IF quiet THEN tree[s][p].quick ELSE NewVersion)
             new == [tree[s] EXCEPT ![p] = entry]
  <2>1. tree[s][p] \in Entries /\ tree[s][p].kind = "file"
    BY <1>1, <1>4 DEF Write
  <2>2. entry \in Entries /\ entry.v = NewVersion
    BY <1>3, <2>1, EntryFacts
  <2>3. tree' = [tree EXCEPT ![s][p] = entry]
    BY <1>4 DEF Write
  <2>4. stage' = IF s = Source /\ p \in linked THEN [stage EXCEPT ![p] = entry] ELSE stage
    BY <1>4 DEF Write
  <2> HIDE DEF entry
  <2>5. tree' = [tree EXCEPT ![s] = new] /\ new \in [Paths -> Entries]
    BY <1>1, <2>2, <2>3
  <2>6. \A q \in Paths : new[q] = IF q = p THEN entry ELSE tree[s][q]
    BY <1>1
  <2> HIDE DEF new
  <2>7. Touch(s, {p}) /\ Stamp(s, p) /\ UNCHANGED <<linked, aside>>
    BY <1>4 DEF Write
  <2>8. TreesEdited /\ touched \subseteq touched' /\ touched' \subseteq Paths
    <3>1. \A q \in Paths : new[q] \in {tree[s][q], Gone} \/ new[q].v = NewVersion
      BY <2>2, <2>6
    <3>2. \A q \in Paths \ {p} : /\ new[q].kind = tree[s][q].kind
                                 /\ tree[s][q].kind # "dir" => new[q] = tree[s][q]
      BY <2>6
    <3> QED
      BY <2>5, <2>7, <3>1, <3>2, OneTreeEdited
  <2>9. StageEdited
    <3>1. stage' \in [Paths -> Entries]
      BY <1>1, <2>2, <2>4
    <3>2. tree'[s][p] = entry
      BY <1>1, <2>3
    <3> QED
      BY <1>1, <2>2, <2>4, <2>7, <3>1, <3>2 DEF StageEdited
  <2>10. AsideEdited
    BY <1>1, <2>7 DEF AsideEdited
  <2> QED
    BY <1>2, <2>7, <2>8, <2>9, <2>10 DEF RestEdited, Stamp
<1>5. ASSUME NEW s \in Sides, NEW p \in Paths, Put(s, p)
      PROVE  TreesEdited /\ StageEdited /\ AsideEdited /\ RestEdited
  <2>1. PICK entry \in {File(NewVersion, NewVersion), Folder(NewVersion)} :
            Renewed(s, [tree[s] EXCEPT ![p] = entry], p)
    BY <1>5 DEF Put
  <2> DEFINE t == [tree[s] EXCEPT ![p] = entry]
  <2>2. entry \in Entries /\ entry.v = NewVersion
    BY <1>3, <2>1, EntryFacts
  <2>3. t \in [Paths -> Entries]
    BY <1>1, <2>2
  <2>4. \A q \in Paths : t[q] = IF q = p THEN entry ELSE tree[s][q]
    BY <1>1
  <2>5. Renewed(s, t, p)
    BY <2>1
  <2>6. Touch(s, {p}) /\ Stamp(s, p) /\ UNCHANGED <<stage, aside>> /\ linked' \subseteq linked
    BY <1>5 DEF Put
  <2> HIDE DEF t
  <2>7. TreesEdited /\ touched \subseteq touched' /\ touched' \subseteq Paths
    <3>1. \A q \in Paths : t[q] \in {tree[s][q], Gone} \/ t[q].v = NewVersion
      BY <2>2, <2>4
    <3>2. \A q \in Paths \ {p} : t[q] = tree[s][q]
      BY <2>4
    <3> QED
      BY <1>2, <2>3, <2>5, <2>6, <3>1, <3>2, Renewal
  <2>8. StageEdited /\ AsideEdited
    BY <1>1, <2>6 DEF StageEdited, AsideEdited
  <2> QED
    BY <1>2, <2>6, <2>7, <2>8 DEF RestEdited, Stamp
<1>6. ASSUME NEW s \in Sides, NEW p \in Paths, Remove(s, p)
      PROVE  TreesEdited /\ StageEdited /\ AsideEdited /\ RestEdited
  <2> DEFINE t == Without(tree[s], Subtree(p))
  <2>1. Subtree(p) \in SUBSET Paths
    BY TreeFacts
  <2>2. \A q \in Paths : t[q] = IF q \in Subtree(p) THEN Gone ELSE tree[s][q]
    BY DEF Without
  <2>3. t \in [Paths -> Entries]
    BY <1>1, EntryFacts DEF Without
  <2>4. Renewed(s, t, p) /\ Touch(s, Subtree(p)) /\ Stamp(s, p) /\ UNCHANGED stage /\ linked' \subseteq linked
    BY <1>6 DEF Remove
  <2>5. aside' = IF s = Dest /\ current \in Under[p] THEN Empty ELSE aside
    BY <1>6 DEF Remove
  <2> HIDE DEF t
  <2>6. TreesEdited /\ touched \subseteq touched' /\ touched' \subseteq Paths
    <3>1. \A q \in Paths : t[q] \in {tree[s][q], Gone} \/ t[q].v = NewVersion
      BY <2>2
    <3>2. \A q \in Paths \ Subtree(p) : t[q] = tree[s][q]
      BY <2>2
    <3> QED
      BY <1>2, <2>1, <2>3, <2>4, <3>1, <3>2, Renewal
  <2>7. StageEdited
    BY <1>1, <2>4 DEF StageEdited
  <2>8. AsideEdited
    <3>1. CASE s = Dest /\ current \in Under[p]
      <4>1. current \in Paths /\ current # NoPath /\ Subtree(current) \subseteq Subtree(p)
        BY <3>1, TreeFacts, BoundsAssumption DEF BoundsAssumption
      <4>2. \A q \in Paths \ Subtree(current) : aside[q] = Gone
        BY <4>1 DEF SetAside
      <4>3. Subtree(p) \subseteq touched'
        BY <2>4, <3>1 DEF Touch
      <4>4. aside' \in [Paths -> Entries] /\ \A q \in Paths : aside'[q] = Gone
        BY <2>5, <3>1, EntryFacts DEF Empty
      <4> QED
        BY <4>1, <4>2, <4>3, <4>4 DEF AsideEdited
    <3>2. CASE ~(s = Dest /\ current \in Under[p])
      BY <1>1, <2>5, <3>2 DEF AsideEdited
    <3> QED
      BY <3>1, <3>2
  <2> QED
    BY <1>2, <2>4, <2>6, <2>7, <2>8 DEF RestEdited, Stamp
<1>7. ASSUME NEW p \in Paths, WriteAside(p)
      PROVE  TreesEdited /\ StageEdited /\ AsideEdited /\ RestEdited
  <2>1. File(NewVersion, NewVersion) \in Entries /\ File(NewVersion, NewVersion).v = NewVersion
    BY <1>3, EntryFacts
  <2>2. /\ aside[p].kind = "file" /\ aside' = [aside EXCEPT ![p] = File(NewVersion, NewVersion)]
        /\ touched' = touched \cup {p} /\ Stamp(Dest, p) /\ UNCHANGED <<tree, stage, linked>>
    BY <1>7 DEF WriteAside, Touch, stageVars
  <2>3. aside[p] # Gone
    BY <2>2, EntryFacts
  <2>4. AsideEdited
    BY <1>1, <2>1, <2>2, <2>3 DEF AsideEdited
  <2>5. TreesEdited /\ StageEdited
    BY <1>1, <2>2 DEF TreesEdited, StageEdited
  <2> QED
    BY <1>1, <1>2, <2>2, <2>4, <2>5 DEF RestEdited, Stamp
<1> QED
  BY <1>4, <1>5, <1>6, <1>7 DEF User

\* Of a local source that was looked at and is not staged, nothing is changed unnoticed.
LEMMA SourceStep ==
    ASSUME TypeOK, User, NEW q \in Paths, Looked(q), tree'[Source][q].kind = "file"
    PROVE  tree'[Source][q] = tree[Source][q] \/ tree'[Source][q].v \in late'
<1>1. tree \in [Sides -> [Paths -> Entries]] /\ Source \in Sides
  BY SideFacts DEF TypeOK, TransportTypeOK
<1>2. ASSUME NEW s \in Sides, NEW p \in Paths, NEW quiet \in BOOLEAN, Write(s, p, quiet)
      PROVE  tree'[Source][q] = tree[Source][q] \/ tree'[Source][q].v \in late'
  <2> DEFINE entry == File(NewVersion, IF quiet THEN tree[s][p].quick ELSE NewVersion)
  <2>1. tree' = [tree EXCEPT ![s][p] = entry] /\ Stamp(s, p)
    BY <1>2 DEF Write
  <2>2. entry.v = NewVersion
    BY EntryFacts
  <2> HIDE DEF entry
  <2>3. CASE s = Source /\ p = q
    <3>1. late' = late \cup {NewVersion}
      BY <2>1, <2>3 DEF Stamp
    <3>2. tree'[Source][q] = entry
      BY <1>1, <2>1, <2>3
    <3> QED
      BY <2>2, <3>1, <3>2
  <2>4. CASE ~(s = Source /\ p = q)
    BY <1>1, <2>1, <2>4
  <2> QED
    BY <2>3, <2>4
<1>3. ASSUME NEW s \in Sides, NEW p \in Paths, NEW t, Renewed(s, t, p), Stamp(s, p),
             t[q] = tree[s][q] \/ t[q] = Gone \/ (q = p /\ t[q].v = NewVersion)
      PROVE  tree'[Source][q] = tree[Source][q] \/ tree'[Source][q].v \in late'
  <2> DEFINE new == [r \in Paths |-> IF r \in Parents(p) /\ t[r].kind = "dir" THEN Folder(NewVersion) ELSE t[r]]
  <2>1. tree' = [tree EXCEPT ![s] = new]
    BY <1>3 DEF Renewed
  <2>2. new[q] = Folder(NewVersion) \/ new[q] = t[q]
    OBVIOUS
  <2> HIDE DEF new
  <2>3. CASE s = Source
    <3>1. tree'[Source][q] = new[q]
      BY <1>1, <2>1, <2>3
    <3>2. new[q] = t[q] /\ t[q] # Gone
      BY <2>2, <3>1, EntryFacts
    <3>3. CASE q = p /\ t[q].v = NewVersion
      <4>1. late' = late \cup {NewVersion}
        BY <1>3, <2>3, <3>3 DEF Stamp
      <4> QED
        BY <3>1, <3>2, <3>3, <4>1
    <3> QED
      BY <1>3, <2>3, <3>1, <3>2, <3>3
  <2>4. CASE s # Source
    BY <1>1, <2>1, <2>4
  <2> QED
    BY <2>3, <2>4
<1>4. ASSUME NEW s \in Sides, NEW p \in Paths, Put(s, p)
      PROVE  tree'[Source][q] = tree[Source][q] \/ tree'[Source][q].v \in late'
  <2>1. PICK entry \in {File(NewVersion, NewVersion), Folder(NewVersion)} :
            Renewed(s, [tree[s] EXCEPT ![p] = entry], p)
    BY <1>4 DEF Put
  <2>2. entry.v = NewVersion
    BY <2>1, EntryFacts
  <2> DEFINE t == [tree[s] EXCEPT ![p] = entry]
  <2>3. Stamp(s, p)
    BY <1>4 DEF Put
  <2>4. t[q] = IF q = p THEN entry ELSE tree[s][q]
    BY <1>1
  <2>5. Renewed(s, t, p)
    BY <2>1
  <2> HIDE DEF t
  <2> QED
    BY <1>3, <2>2, <2>3, <2>4, <2>5
<1>5. ASSUME NEW s \in Sides, NEW p \in Paths, Remove(s, p)
      PROVE  tree'[Source][q] = tree[Source][q] \/ tree'[Source][q].v \in late'
  <2> DEFINE t == Without(tree[s], Subtree(p))
  <2>1. Renewed(s, t, p) /\ Stamp(s, p)
    BY <1>5 DEF Remove
  <2>2. t[q] = tree[s][q] \/ t[q] = Gone
    BY DEF Without
  <2> HIDE DEF t
  <2> QED
    BY <1>3, <2>1, <2>2
<1>6. ASSUME NEW p \in Paths, WriteAside(p)
      PROVE  tree'[Source][q] = tree[Source][q]
  BY <1>6 DEF WriteAside
<1> QED
  BY <1>2, <1>4, <1>5, <1>6 DEF User

-----------------------------------------------------------------------------
(* What the steps of a job do to the trees.                                *)

\* The destination becomes new, the source stays.
TreeBecomes(new) ==
    /\ tree' \in [Sides -> [Paths -> Entries]] /\ tree'[Source] = tree[Source]
    /\ \A q \in Paths : tree'[Dest][q] = new[q]

\* Setting the destination's tree does that.
LEMMA TreeSet ==
    ASSUME tree \in [Sides -> [Paths -> Entries]], job \in Jobs, NEW new \in [Paths -> Entries],
           tree' = [tree EXCEPT ![Dest] = new]
    PROVE  TreeBecomes(new)
  BY SideFacts DEF TreeBecomes

\* Directories that are made for a path are new, and made where nothing is.
LEMMA WithParentsFacts ==
    ASSUME edits \in 0..MaxEdits, NEW t \in [Paths -> Entries], NEW p \in Paths
    PROVE  /\ WithParents(t, p) \in [Paths -> Entries]
           /\ \A q \in Paths : \/ WithParents(t, p)[q] = t[q]
                               \/ /\ q \in Parents(p) /\ t[q] = Gone
                                  /\ WithParents(t, p)[q].kind = "dir" /\ WithParents(t, p)[q].v = 2 + edits
<1>1. NewVersion - 1 \in 1..(2 + MaxEdits) /\ NewVersion - 1 = 2 + edits
  BY BoundsAssumption DEF BoundsAssumption, NewVersion
<1>2. /\ Folder(NewVersion - 1) \in Entries
      /\ Folder(NewVersion - 1).kind = "dir" /\ Folder(NewVersion - 1).v = 2 + edits
  BY <1>1, EntryFacts
<1> QED
  BY <1>2 DEF WithParents

\* What becomes of the destination, and of what is aside.
LEMMA AsideStep ==
    ASSUME TypeOK, NEW p \in Paths, Aside(p)
    PROVE  /\ TreeBecomes([q \in Paths |-> IF q \in Subtree(p) THEN Gone ELSE WithParents(tree[Dest], p)[q]])
           /\ aside' \in [Paths -> Entries]
           /\ \A q \in Paths : aside'[q] = IF q \in Subtree(p) THEN tree[Dest][q] ELSE Gone
<1>1. /\ tree \in [Sides -> [Paths -> Entries]] /\ job \in Jobs /\ edits \in 0..MaxEdits /\ Dest \in Sides
  BY SideFacts DEF TypeOK, TransportTypeOK
<1>2. tree[Dest] \in [Paths -> Entries] /\ WithParents(tree[Dest], p) \in [Paths -> Entries]
  BY <1>1, WithParentsFacts
<1> DEFINE new == [q \in Paths |-> IF q \in Subtree(p) THEN Gone ELSE WithParents(tree[Dest], p)[q]]
<1>3. tree' = [tree EXCEPT ![Dest] = Without(WithParents(tree[Dest], p), Subtree(p))]
  BY <1>1 DEF Aside
<1>4. Without(WithParents(tree[Dest], p), Subtree(p)) = new
  BY DEF Without
<1>5. new \in [Paths -> Entries]
  BY <1>2, EntryFacts
<1>6. TreeBecomes(new)
  BY <1>1, <1>3, <1>4, <1>5, TreeSet
<1>7. aside' = Only(tree[Dest], Subtree(p))
  BY DEF Aside
<1> QED
  BY <1>2, <1>6, <1>7, EntryFacts DEF Only

\* The same for a quarantine.
LEMMA TakesStep ==
    ASSUME TypeOK, NEW p \in Paths, Takes(p)
    PROVE  /\ TreeBecomes([q \in Paths |-> IF q \in Subtree(p) THEN Gone ELSE tree[Dest][q]])
           /\ aside' \in [Paths -> Entries]
           /\ \A q \in Paths : aside'[q] = IF q \in Subtree(p) THEN tree[Dest][q] ELSE Gone
<1>1. /\ tree \in [Sides -> [Paths -> Entries]] /\ job \in Jobs /\ Dest \in Sides
  BY SideFacts DEF TypeOK, TransportTypeOK
<1>2. tree[Dest] \in [Paths -> Entries]
  BY <1>1
<1> DEFINE new == [q \in Paths |-> IF q \in Subtree(p) THEN Gone ELSE tree[Dest][q]]
<1>3. tree' = [tree EXCEPT ![Dest] = Without(tree[Dest], Subtree(p))]
  BY <1>1 DEF Takes
<1>4. Without(tree[Dest], Subtree(p)) = new
  BY DEF Without
<1>5. new \in [Paths -> Entries]
  BY <1>2, EntryFacts
<1>6. TreeBecomes(new)
  BY <1>1, <1>3, <1>4, <1>5, TreeSet
<1>7. aside' = Only(tree[Dest], Subtree(p))
  BY DEF Takes
<1> QED
  BY <1>2, <1>6, <1>7, EntryFacts DEF Only

\* What is staged comes to the destination, with all below it.
LEMMA PlaceStep ==
    ASSUME TypeOK, Place
    PROVE  TreeBecomes([q \in Paths |-> IF q \in Subtree(current) THEN stage[q] ELSE tree[Dest][q]])
<1>1. /\ tree \in [Sides -> [Paths -> Entries]] /\ job \in Jobs /\ Dest \in Sides /\ stage \in [Paths -> Entries]
  BY SideFacts DEF TypeOK, TransportTypeOK
<1> DEFINE new == [q \in Paths |-> IF q \in Subtree(current) THEN stage[q] ELSE tree[Dest][q]]
<1>2. tree' = [tree EXCEPT ![Dest] = new]
  BY <1>1 DEF Place
<1>3. new \in [Paths -> Entries]
  BY <1>1
<1> QED
  BY <1>1, <1>2, <1>3, TreeSet

\* What is aside comes back, and nothing is aside.
LEMMA BackStep ==
    ASSUME TypeOK, Reinstates \/ PutsBack
    PROVE  /\ TreeBecomes([q \in Paths |-> IF q \in Subtree(current) THEN aside[q] ELSE tree[Dest][q]])
           /\ aside' \in [Paths -> Entries] /\ \A q \in Paths : aside'[q] = Gone
<1>1. /\ tree \in [Sides -> [Paths -> Entries]] /\ job \in Jobs /\ Dest \in Sides /\ aside \in [Paths -> Entries]
  BY SideFacts DEF TypeOK, TransportTypeOK
<1> DEFINE new == [q \in Paths |-> IF q \in Subtree(current) THEN aside[q] ELSE tree[Dest][q]]
<1>2. tree' = [tree EXCEPT ![Dest] = new] /\ aside' = Empty
  BY <1>1 DEF Reinstates, PutsBack
<1>3. new \in [Paths -> Entries]
  BY <1>1
<1> QED
  BY <1>1, <1>2, <1>3, TreeSet, EntryFacts DEF Empty

\* A directory that is kept is given the missing directories below it.
LEMMA KeepsStep ==
    ASSUME TypeOK, NEW p \in Paths, Keeps(p)
    PROVE  TreeBecomes([q \in Paths |-> IF q \in Subtree(p) \cap job.batch /\ tree[Dest][q] = Gone THEN stage[q]
                                        ELSE WithParents(tree[Dest], p)[q]])
<1>1. /\ tree \in [Sides -> [Paths -> Entries]] /\ job \in Jobs /\ edits \in 0..MaxEdits /\ Dest \in Sides
      /\ stage \in [Paths -> Entries]
  BY SideFacts DEF TypeOK, TransportTypeOK
<1>2. tree[Dest] \in [Paths -> Entries] /\ WithParents(tree[Dest], p) \in [Paths -> Entries]
  BY <1>1, WithParentsFacts
<1> DEFINE new == [q \in Paths |-> IF q \in Subtree(p) \cap job.batch /\ tree[Dest][q] = Gone THEN stage[q]
                                   ELSE WithParents(tree[Dest], p)[q]]
<1>3. tree' = [tree EXCEPT ![Dest] = new]
  BY <1>1 DEF Keeps
<1>4. new \in [Paths -> Entries]
  BY <1>1, <1>2
<1> QED
  BY <1>1, <1>3, <1>4, TreeSet

-----------------------------------------------------------------------------
(* Types.                                                                  *)

\* The types in parts: a step that leaves the variables of a part alone keeps it.
EntryTypes ==
    /\ tree \in [Sides -> [Paths -> Entries]]
    /\ stage \in [Paths -> Entries] /\ aside \in [Paths -> Entries] /\ linked \subseteq Paths
LookTypes ==
    /\ expect \in [Sides -> [Paths -> Entries]]
    /\ before \in [Sides -> [Paths -> Entries]] /\ found \in [Sides -> [Paths -> Entries]]
PlaceTypes ==
    /\ at \in {"asked", "compared", "ready", "looked", "staging", "copying", "installing", "verifying",
               "deleting", "giving up", "orphaned", "done", "counted", "settled", "refused", "failed", "crashed"}
    /\ step \in {"none", "aside", "placed", "moved", "matched", "restoring", "back"}
    /\ asked \in {"plain", "resolve", "fetch"} /\ open \in BOOLEAN
CountTypes == edits \in 0..MaxEdits /\ faults \in 0..MaxFaults
PathTypes ==
    /\ todo \subseteq Paths /\ current \in Paths \cup {NoPath}
    /\ reported \subseteq job.batch /\ touched \subseteq Paths
LostTypes == lost \subseteq [path: Paths, entry: Entries] /\ late \subseteq 1..(2 + MaxEdits)
ReferenceTypes == reference \in [Paths -> Entries]
RecordTypes == record \in [Sides -> Entries] /\ base \in Entries /\ echo \in Entries

\* Together they are the types.
LEMMA TypeParts ==
    TypeOK <=> /\ EntryTypes /\ LookTypes /\ PlaceTypes /\ CountTypes /\ PathTypes /\ LostTypes /\ RecordTypes
               /\ ReferenceTypes /\ job \in Jobs
  BY DEF TypeOK, TransportTypeOK, EntryTypes, LookTypes, PlaceTypes, CountTypes, PathTypes, LostTypes,
     RecordTypes, ReferenceTypes

\* What a step of staging makes of the copies and of what they are compared with.
LEMMA StagesStep ==
    ASSUME TypeOK, NEW p \in Paths, Stages(p)
    PROVE  /\ stage' \in [Paths -> Entries] /\ reference' \in [Paths -> Entries] /\ linked' \subseteq Paths
           /\ \A q \in Paths : stage'[q] \in {stage[q], Gone, tree[Source][q]}
           /\ \A q \in Paths : reference'[q] \in {reference[q], Gone, tree[Source][q]}
<1>1. /\ stage \in [Paths -> Entries] /\ reference \in [Paths -> Entries] /\ linked \subseteq Paths
      /\ tree[Source] \in [Paths -> Entries]
  BY SideFacts DEF TypeOK, TransportTypeOK
<1>2. CASE Looks(p)
  BY <1>1, <1>2 DEF Looks
<1>3. CASE Copies(p)
  <2>1. stage' = [stage EXCEPT ![p] = tree[Source][p]] /\ linked' \subseteq Paths
    BY <1>1, <1>3 DEF Copies
  <2>2. reference' = reference \/ reference' = [reference EXCEPT ![p] = tree[Source][p]]
    BY <1>3 DEF Copies
  <2>3. stage' \in [Paths -> Entries] /\ \A q \in Paths : stage'[q] \in {stage[q], tree[Source][q]}
    BY <1>1, <2>1
  <2>4. reference' \in [Paths -> Entries] /\ \A q \in Paths : reference'[q] \in {reference[q], tree[Source][q]}
    BY <1>1, <2>2
  <2> QED
    BY <2>1, <2>3, <2>4
<1>4. CASE Restages
  BY <1>1, <1>4, EntryFacts DEF Restages, Empty
<1> QED
  BY <1>2, <1>3, <1>4 DEF Stages

\* Trees, staged copies and what is aside hold entries.
LEMMA EntryTypesKept ==
    ASSUME TypeOK, SetAside, Step
    PROVE  EntryTypes'
<1>1. CASE Apart /\ User
  BY <1>1, UserStep DEF Apart, EntryTypes, StageEdited, AsideEdited, TreesEdited, TypeOK,
     TransportTypeOK
<1>2. ASSUME NEW p \in Paths, Apart /\ Stages(p)
      PROVE  EntryTypes'
  <2>1. tree \in [Sides -> [Paths -> Entries]] /\ aside \in [Paths -> Entries]
    BY DEF TypeOK, TransportTypeOK
  <2>2. tree' = tree /\ aside' = aside
    BY <1>2 DEF Stages, slotVars
  <2>3. stage' \in [Paths -> Entries] /\ linked' \subseteq Paths
    BY <1>2, StagesStep
  <2> QED
    BY <2>1, <2>2, <2>3 DEF EntryTypes
<1>3. CASE Apart /\ Ship
  BY <1>3 DEF Ship, Staging, EntryTypes, TypeOK, TransportTypeOK
<1>4. CASE Apart /\ FallBack
  BY <1>4, EntryFacts DEF FallBack, EntryTypes, TypeOK, TransportTypeOK, Empty, slotVars
<1>5. ASSUME NEW p \in Paths, Apart /\ Aside(p)
      PROVE  EntryTypes'
  <2>1. tree' \in [Sides -> [Paths -> Entries]]
    BY <1>5, AsideStep DEF TreeBecomes
  <2>2. stage' \in [Paths -> Entries] /\ aside' \in [Paths -> Entries] /\ linked' \subseteq Paths
    BY <1>5, AsideStep DEF Aside, stageVars, TypeOK, TransportTypeOK
  <2> QED
    BY <2>1, <2>2 DEF EntryTypes
<1>6. CASE Apart /\ Place
  <2>1. tree' \in [Sides -> [Paths -> Entries]]
    BY <1>6, PlaceStep DEF TreeBecomes
  <2>2. stage' \in [Paths -> Entries] /\ aside' \in [Paths -> Entries] /\ linked' \subseteq Paths
    BY <1>6, PlaceStep DEF Place, stageVars, TypeOK, TransportTypeOK
  <2> QED
    BY <2>1, <2>2 DEF EntryTypes
<1>7. CASE Apart /\ Discard
  BY <1>7, EntryFacts DEF Discard, EntryTypes, TypeOK, TransportTypeOK, Empty, stageVars
<1>8. CASE Apart /\ Reinstates
  <2>1. tree' \in [Sides -> [Paths -> Entries]]
    BY <1>8, BackStep DEF TreeBecomes
  <2>2. stage' \in [Paths -> Entries] /\ aside' \in [Paths -> Entries] /\ linked' \subseteq Paths
    BY <1>8, BackStep DEF Reinstates, stageVars, TypeOK, TransportTypeOK
  <2> QED
    BY <2>1, <2>2 DEF EntryTypes
<1>9. ASSUME NEW p \in Paths, Apart /\ Keeps(p)
      PROVE  EntryTypes'
  <2>1. tree' \in [Sides -> [Paths -> Entries]]
    BY <1>9, KeepsStep DEF TreeBecomes
  <2>2. stage' \in [Paths -> Entries] /\ aside' \in [Paths -> Entries] /\ linked' \subseteq Paths
    BY <1>9, KeepsStep DEF Keeps, stageVars, TypeOK, TransportTypeOK
  <2> QED
    BY <2>1, <2>2 DEF EntryTypes
<1>10. ASSUME NEW p \in Paths, Apart /\ Takes(p)
      PROVE  EntryTypes'
  <2>1. tree' \in [Sides -> [Paths -> Entries]]
    BY <1>10, TakesStep DEF TreeBecomes
  <2>2. stage' \in [Paths -> Entries] /\ aside' \in [Paths -> Entries] /\ linked' \subseteq Paths
    BY <1>10, TakesStep DEF Takes, stageVars, TypeOK, TransportTypeOK
  <2> QED
    BY <2>1, <2>2 DEF EntryTypes
<1>11. CASE Apart /\ DeleteAway
  BY <1>11, EntryFacts DEF DeleteAway, EntryTypes, TypeOK, TransportTypeOK, Empty, stageVars
<1>12. CASE Apart /\ PutsBack
  <2>1. tree' \in [Sides -> [Paths -> Entries]]
    BY <1>12, BackStep DEF TreeBecomes
  <2>2. stage' \in [Paths -> Entries] /\ aside' \in [Paths -> Entries] /\ linked' \subseteq Paths
    BY <1>12, BackStep DEF PutsBack, stageVars, TypeOK, TransportTypeOK
  <2> QED
    BY <2>1, <2>2 DEF EntryTypes
<1>13. CASE \/ Apart /\ Ceases
            \/ Apart /\ Orphans
            \/ Apart /\ LookLocal
            \/ Apart /\ Preflight
            \/ Apart /\ LetsGo
            \/ Apart /\ LookAgain
            \/ Apart /\ Verify
            \/ Apart /\ BeginDelete
            \/ \E p \in Paths : Apart /\ Skips(p)
            \/ Apart /\ Judge
            \/ Apart /\ DeleteFails
            \/ Apart /\ Restores
            \/ Apart /\ DeleteEnds
            \/ CompareLocal
            \/ CompareRemote
            \/ FinalLook
            \/ Settle
            \/ UNCHANGED wholeVars
  <2>1. UNCHANGED <<tree, stage, aside, linked>>
    BY <1>13 DEF Ceases, Orphans, LookLocal, Preflight, LetsGo, LookAgain, Verify, BeginDelete,
     Skips, Judge, DeleteFails, Restores, DeleteEnds, CompareLocal, CompareRemote, FinalLook,
     Settle, wholeVars, vars, stageVars, slotVars
  <2> QED
    BY <2>1 DEF EntryTypes, TypeOK, TransportTypeOK
<1> QED
  BY <1>1, <1>2, <1>3, <1>4, <1>5, <1>6, <1>7, <1>8, <1>9, <1>10, <1>11, <1>12, <1>13 DEF Step

\* What was looked at is a tree of entries.
LEMMA LookTypesKept ==
    ASSUME TypeOK, SetAside, Step
    PROVE  LookTypes'
<1>1. CASE Apart /\ LookLocal
  BY <1>1 DEF LookLocal, LookTypes, TypeOK, TransportTypeOK, Sides, askedVars, resultVars
<1>2. CASE Apart /\ Preflight
  BY <1>2 DEF Preflight, LookTypes, TypeOK, TransportTypeOK, Sides, askedVars, resultVars
<1>3. CASE Apart /\ LookAgain
  BY <1>3, SideFacts DEF LookAgain, LookTypes, TypeOK, TransportTypeOK, FirstLook, Sides,
     askedVars
<1>4. CASE Apart /\ Verify
  <2>1. /\ found' = [found EXCEPT ![SecondLook] = tree[SecondLook]]
        /\ expect' = expect /\ before' = before
    BY <1>4 DEF Verify, askedVars
  <2>2. SecondLook \in Sides
    BY DEF SecondLook, Sides
  <2> QED
    BY <2>1, <2>2 DEF LookTypes, TypeOK, TransportTypeOK
<1>5. CASE CompareLocal
  BY <1>5 DEF CompareLocal, LookTypes, TypeOK, TransportTypeOK, Sides, resultVars
<1>6. CASE CompareRemote
  BY <1>6 DEF CompareRemote, LookTypes, TypeOK, TransportTypeOK, Sides, resultVars
<1>7. CASE FinalLook
  <2>1. Empty \in [Paths -> Entries]
    BY EntryFacts DEF Empty
  <2>2. /\ expect' = expect /\ before' = before
        /\ found' = [found EXCEPT ![Source] = tree[Source], ![Dest] = Empty]
    BY <1>7 DEF FinalLook, askedVars
  <2> QED
    BY <2>1, <2>2, SideFacts DEF LookTypes, TypeOK, TransportTypeOK
<1>8. CASE \/ Apart /\ User
           \/ Apart /\ Ceases
           \/ Apart /\ Orphans
           \/ \E p \in Paths : Apart /\ Stages(p)
           \/ Apart /\ Ship
           \/ Apart /\ FallBack
           \/ \E p \in Paths : Apart /\ Aside(p)
           \/ Apart /\ Place
           \/ Apart /\ Discard
           \/ Apart /\ Reinstates
           \/ Apart /\ LetsGo
           \/ \E p \in Paths : Apart /\ Keeps(p)
           \/ Apart /\ BeginDelete
           \/ \E p \in Paths : Apart /\ Skips(p)
           \/ \E p \in Paths : Apart /\ Takes(p)
           \/ Apart /\ Judge
           \/ Apart /\ DeleteAway
           \/ Apart /\ DeleteFails
           \/ Apart /\ Restores
           \/ Apart /\ PutsBack
           \/ Apart /\ DeleteEnds
           \/ Settle
           \/ UNCHANGED wholeVars
  <2>1. UNCHANGED <<expect, before, found>>
    BY <1>8 DEF User, Ceases, Orphans, Stages, Ship, FallBack, Aside, Place, Discard, Reinstates,
     LetsGo, Keeps, BeginDelete, Skips, Takes, Judge, DeleteAway, DeleteFails, Restores,
     PutsBack, DeleteEnds, Settle, wholeVars, vars, askedVars, resultVars
  <2> QED
    BY <2>1 DEF LookTypes, TypeOK, TransportTypeOK
<1> QED
  BY <1>1, <1>2, <1>3, <1>4, <1>5, <1>6, <1>7, <1>8 DEF Step

\* Where a job and a request stand.
LEMMA PlaceTypesKept ==
    ASSUME TypeOK, SetAside, Step
    PROVE  PlaceTypes'
<1>1. CASE Apart /\ Ceases
  BY <1>1 DEF Ceases, Apart, askedVars, stageVars, slotVars, resultVars, userVars,
     resolutionVars, PlaceTypes, TypeOK, TransportTypeOK
<1>2. CASE Apart /\ Orphans
  BY <1>2 DEF Orphans, Apart, askedVars, stageVars, slotVars, resultVars, userVars,
     resolutionVars, PlaceTypes, TypeOK, TransportTypeOK
<1>3. CASE Apart /\ LookLocal
  BY <1>3 DEF LookLocal, Apart, askedVars, stageVars, slotVars, resultVars, userVars,
     resolutionVars, PlaceTypes, TypeOK, TransportTypeOK
<1>4. CASE Apart /\ Preflight
  BY <1>4 DEF Preflight, Apart, askedVars, stageVars, slotVars, resultVars, userVars,
     resolutionVars, PlaceTypes, TypeOK, TransportTypeOK
<1>5. CASE Apart /\ Ship
  BY <1>5 DEF Ship, Staging, Apart, askedVars, stageVars, slotVars, resultVars, userVars, resolutionVars,
     PlaceTypes, TypeOK, TransportTypeOK
<1>6. ASSUME NEW p \in Paths, Apart /\ Aside(p)
      PROVE  PlaceTypes'
  BY <1>6 DEF Aside, Installing, Apart, askedVars, stageVars, slotVars, resultVars, userVars,
     resolutionVars, PlaceTypes, TypeOK, TransportTypeOK
<1>7. CASE Apart /\ Place
  BY <1>7 DEF Place, Installing, Apart, askedVars, stageVars, slotVars, resultVars, userVars,
     resolutionVars, PlaceTypes, TypeOK, TransportTypeOK
<1>8. CASE Apart /\ Discard
  BY <1>8 DEF Discard, Installing, Apart, askedVars, stageVars, slotVars, resultVars, userVars,
     resolutionVars, PlaceTypes, TypeOK, TransportTypeOK
<1>9. CASE Apart /\ Reinstates
  BY <1>9 DEF Reinstates, Installing, Apart, askedVars, stageVars, slotVars, resultVars,
     userVars, resolutionVars, PlaceTypes, TypeOK, TransportTypeOK
<1>10. CASE Apart /\ LetsGo
  BY <1>10 DEF LetsGo, Apart, askedVars, stageVars, slotVars, resultVars, userVars,
     resolutionVars, PlaceTypes, TypeOK, TransportTypeOK
<1>11. CASE Apart /\ LookAgain
  BY <1>11 DEF LookAgain, Apart, askedVars, stageVars, slotVars, resultVars, userVars,
     resolutionVars, PlaceTypes, TypeOK, TransportTypeOK
<1>12. CASE Apart /\ Verify
  BY <1>12 DEF Verify, Apart, askedVars, stageVars, slotVars, resultVars, userVars,
     resolutionVars, PlaceTypes, TypeOK, TransportTypeOK
<1>13. CASE Apart /\ BeginDelete
  BY <1>13 DEF BeginDelete, Apart, askedVars, stageVars, slotVars, resultVars, userVars,
     resolutionVars, PlaceTypes, TypeOK, TransportTypeOK
<1>14. ASSUME NEW p \in Paths, Apart /\ Takes(p)
      PROVE  PlaceTypes'
  BY <1>14 DEF Takes, Deleting, Apart, askedVars, stageVars, slotVars, resultVars, userVars,
     resolutionVars, PlaceTypes, TypeOK, TransportTypeOK
<1>15. CASE Apart /\ Judge
  BY <1>15 DEF Judge, Deleting, Apart, askedVars, stageVars, slotVars, resultVars, userVars,
     resolutionVars, PlaceTypes, TypeOK, TransportTypeOK
<1>16. CASE Apart /\ DeleteAway
  BY <1>16 DEF DeleteAway, Deleting, Idle, Apart, askedVars, stageVars, slotVars, resultVars,
     userVars, resolutionVars, PlaceTypes, TypeOK, TransportTypeOK
<1>17. CASE Apart /\ DeleteFails
  BY <1>17 DEF DeleteFails, Deleting, Apart, askedVars, stageVars, slotVars, resultVars,
     userVars, resolutionVars, PlaceTypes, TypeOK, TransportTypeOK
<1>18. CASE Apart /\ Restores
  BY <1>18 DEF Restores, Deleting, Apart, askedVars, stageVars, slotVars, resultVars, userVars,
     resolutionVars, PlaceTypes, TypeOK, TransportTypeOK
<1>19. CASE Apart /\ PutsBack
  BY <1>19 DEF PutsBack, Deleting, Idle, Apart, askedVars, stageVars, slotVars, resultVars,
     userVars, resolutionVars, PlaceTypes, TypeOK, TransportTypeOK
<1>20. CASE Apart /\ DeleteEnds
  BY <1>20 DEF DeleteEnds, Apart, askedVars, stageVars, slotVars, resultVars, userVars,
     resolutionVars, PlaceTypes, TypeOK, TransportTypeOK
<1>21. CASE CompareLocal
  BY <1>21 DEF CompareLocal, askedVars, stageVars, slotVars, resultVars, userVars,
     resolutionVars, PlaceTypes, TypeOK, TransportTypeOK
<1>22. CASE CompareRemote
  BY <1>22 DEF CompareRemote, askedVars, stageVars, slotVars, resultVars, userVars,
     resolutionVars, PlaceTypes, TypeOK, TransportTypeOK
<1>23. CASE FinalLook
  BY <1>23 DEF FinalLook, askedVars, stageVars, slotVars, resultVars, userVars, resolutionVars,
     PlaceTypes, TypeOK, TransportTypeOK
<1>24. CASE Settle
  BY <1>24 DEF Settle, askedVars, stageVars, slotVars, resultVars, userVars, resolutionVars,
     PlaceTypes, TypeOK, TransportTypeOK
<1>25. CASE \/ Apart /\ User
            \/ \E p \in Paths : Apart /\ Keeps(p)
            \/ \E p \in Paths : Apart /\ Skips(p)
            \/ UNCHANGED wholeVars
  <2>1. UNCHANGED <<at, step, asked, open>>
    BY <1>25 DEF User, Keeps, Skips, wholeVars, vars, Apart, slotVars, resolutionVars
  <2> QED
    BY <2>1 DEF PlaceTypes, TypeOK, TransportTypeOK
<1>26. CASE \/ \E p \in Paths : Apart /\ Stages(p)
            \/ Apart /\ FallBack
  <2>1. at' \in {"staging", "copying"} /\ UNCHANGED <<step, asked, open>>
    BY <1>26, StagingGoesOn DEF TypeOK, TransportTypeOK
  <2> QED
    BY <2>1 DEF PlaceTypes, TypeOK, TransportTypeOK
<1> QED
  BY <1>1, <1>2, <1>3, <1>4, <1>5, <1>6, <1>7, <1>8, <1>9, <1>10, <1>11, <1>12, <1>13, <1>14,
     <1>15, <1>16, <1>17, <1>18, <1>19, <1>20, <1>21, <1>22, <1>23, <1>24, <1>25, <1>26 DEF Step

\* Edits and faults are counted up to their bounds.
LEMMA CountTypesKept ==
    ASSUME TypeOK, SetAside, Step
    PROVE  CountTypes'
<1>1. CASE Apart /\ User
  <2>1. edits < MaxEdits /\ edits' = edits + 1 /\ faults' = faults
    BY <1>1, UserStep DEF RestEdited
  <2>2. edits \in 0..MaxEdits /\ faults \in 0..MaxFaults
    BY DEF TypeOK, TransportTypeOK
  <2>3. edits' \in 0..MaxEdits
    BY <2>1, <2>2, BoundsAssumption DEF BoundsAssumption
  <2> QED
    BY <2>1, <2>2, <2>3 DEF CountTypes
<1>2. CASE Apart /\ Ceases
  BY <1>2 DEF Ceases, Apart, askedVars, stageVars, slotVars, resultVars, userVars,
     resolutionVars, CountTypes, TypeOK, TransportTypeOK
<1>3. CASE Apart /\ Orphans
  BY <1>3 DEF Orphans, Apart, askedVars, stageVars, slotVars, resultVars, userVars,
     resolutionVars, CountTypes, TypeOK, TransportTypeOK
<1>4. CASE \/ Apart /\ LookLocal
           \/ Apart /\ Preflight
           \/ \E p \in Paths : Apart /\ Stages(p)
           \/ Apart /\ Ship
           \/ Apart /\ FallBack
           \/ \E p \in Paths : Apart /\ Aside(p)
           \/ Apart /\ Place
           \/ Apart /\ Discard
           \/ Apart /\ Reinstates
           \/ Apart /\ LetsGo
           \/ \E p \in Paths : Apart /\ Keeps(p)
           \/ Apart /\ LookAgain
           \/ Apart /\ Verify
           \/ Apart /\ BeginDelete
           \/ \E p \in Paths : Apart /\ Skips(p)
           \/ \E p \in Paths : Apart /\ Takes(p)
           \/ Apart /\ Judge
           \/ Apart /\ DeleteAway
           \/ Apart /\ DeleteFails
           \/ Apart /\ Restores
           \/ Apart /\ PutsBack
           \/ Apart /\ DeleteEnds
           \/ CompareLocal
           \/ CompareRemote
           \/ FinalLook
           \/ Settle
           \/ UNCHANGED wholeVars
  <2>1. UNCHANGED <<edits, faults>>
    BY <1>4 DEF LookLocal, Preflight, Stages, Ship, FallBack, Aside, Place, Discard, Reinstates,
     LetsGo, Keeps, LookAgain, Verify, BeginDelete, Skips, Takes, Judge, DeleteAway, DeleteFails,
     Restores, PutsBack, DeleteEnds, CompareLocal, CompareRemote, FinalLook, Settle, wholeVars,
     vars, userVars
  <2> QED
    BY <2>1 DEF CountTypes, TypeOK, TransportTypeOK
<1> QED
  BY <1>1, <1>2, <1>3, <1>4 DEF Step

\* What is left to do, at hand, reported and touched.
LEMMA PathTypesKept ==
    ASSUME TypeOK, SetAside, InHand, Step
    PROVE  PathTypes'
<1>1. CASE Apart /\ User
  BY <1>1, UserStep DEF RestEdited, PathTypes, TypeOK, TransportTypeOK
<1>2. CASE Apart /\ LookLocal
  BY <1>2 DEF LookLocal, Apart, askedVars, stageVars, slotVars, resultVars, userVars,
     resolutionVars, PathTypes, TypeOK, TransportTypeOK
<1>3. CASE Apart /\ Preflight
  BY <1>3 DEF Preflight, Apart, askedVars, stageVars, slotVars, resultVars, userVars,
     resolutionVars, PathTypes, TypeOK, TransportTypeOK
<1>4. CASE Apart /\ Ship
  BY <1>4, SideFacts DEF Ship, Staging, Tops, PathTypes, TypeOK, TransportTypeOK, resultVars, userVars,
     askedVars
<1>5. CASE Apart /\ FallBack
  BY <1>5, SidesStay DEF FallBack, PathTypes, TypeOK, TransportTypeOK, resultVars, userVars,
     slotVars
<1>6. ASSUME NEW p \in Paths, Apart /\ Aside(p)
      PROVE  PathTypes'
  BY <1>6 DEF Aside, Installing, Apart, askedVars, stageVars, slotVars, resultVars, userVars,
     resolutionVars, PathTypes, TypeOK, TransportTypeOK
<1>7. CASE Apart /\ Place
  BY <1>7 DEF Place, Installing, Apart, askedVars, stageVars, slotVars, resultVars, userVars,
     resolutionVars, PathTypes, TypeOK, TransportTypeOK
<1>8. CASE Apart /\ Discard
  BY <1>8 DEF Discard, Installing, Apart, askedVars, stageVars, slotVars, resultVars, userVars,
     resolutionVars, PathTypes, TypeOK, TransportTypeOK
<1>9. CASE Apart /\ Reinstates
  BY <1>9 DEF Reinstates, Installing, Apart, askedVars, stageVars, slotVars, resultVars,
     userVars, resolutionVars, PathTypes, TypeOK, TransportTypeOK
<1>10. CASE Apart /\ LetsGo
  BY <1>10 DEF LetsGo, Apart, askedVars, stageVars, slotVars, resultVars, userVars,
     resolutionVars, PathTypes, TypeOK, TransportTypeOK
<1>11. ASSUME NEW p \in Paths, Apart /\ Keeps(p)
      PROVE  PathTypes'
  BY <1>11 DEF Keeps, Apart, askedVars, stageVars, slotVars, resultVars, userVars,
     resolutionVars, PathTypes, TypeOK, TransportTypeOK
<1>12. CASE Apart /\ Verify
  <2>1. reported' \subseteq job.batch
    BY <1>12 DEF Verify
  <2> QED
    BY <1>12, <2>1 DEF Verify, PathTypes, TypeOK, TransportTypeOK, askedVars, slotVars, userVars
<1>13. CASE Apart /\ BeginDelete
  BY <1>13, SideFacts DEF BeginDelete, PathTypes, TypeOK, TransportTypeOK, resultVars, askedVars
<1>14. ASSUME NEW p \in Paths, Apart /\ Skips(p)
      PROVE  PathTypes'
  BY <1>14 DEF Skips, InHand, PathTypes, TypeOK, TransportTypeOK, resultVars, userVars,
     askedVars, Idle
<1>15. ASSUME NEW p \in Paths, Apart /\ Takes(p)
      PROVE  PathTypes'
  BY <1>15 DEF Takes, InHand, PathTypes, TypeOK, TransportTypeOK, resultVars, userVars,
     askedVars, Idle
<1>16. CASE Apart /\ DeleteAway
  BY <1>16 DEF DeleteAway, InHand, PathTypes, TypeOK, TransportTypeOK, resultVars, userVars,
     askedVars, Idle
<1>17. CASE Apart /\ DeleteFails
  BY <1>17 DEF DeleteFails, Deleting, Apart, askedVars, stageVars, slotVars, resultVars,
     userVars, resolutionVars, PathTypes, TypeOK, TransportTypeOK
<1>18. CASE Apart /\ PutsBack
  BY <1>18 DEF PutsBack, Deleting, Idle, Apart, askedVars, stageVars, slotVars, resultVars,
     userVars, resolutionVars, PathTypes, TypeOK, TransportTypeOK
<1>19. CASE CompareRemote
  BY <1>19, SidesStay DEF CompareRemote, PathTypes, TypeOK, TransportTypeOK, resultVars,
     userVars, slotVars
<1>20. CASE \/ Apart /\ Ceases
            \/ Apart /\ Orphans
            \/ \E p \in Paths : Apart /\ Stages(p)
            \/ Apart /\ LookAgain
            \/ Apart /\ Judge
            \/ Apart /\ Restores
            \/ Apart /\ DeleteEnds
            \/ CompareLocal
            \/ FinalLook
            \/ Settle
            \/ UNCHANGED wholeVars
  <2>1. UNCHANGED <<job, todo, current, reported, touched>>
    BY <1>20 DEF Ceases, Orphans, Stages, LookAgain, Judge, Restores, DeleteEnds, CompareLocal,
     FinalLook, Settle, wholeVars, vars, askedVars, slotVars, resultVars, userVars
  <2> QED
    BY <2>1 DEF PathTypes, TypeOK, TransportTypeOK
<1> QED
  BY <1>1, <1>2, <1>3, <1>4, <1>5, <1>6, <1>7, <1>8, <1>9, <1>10, <1>11, <1>12, <1>13, <1>14,
     <1>15, <1>16, <1>17, <1>18, <1>19, <1>20 DEF Step

\* What is destroyed was there.
LEMMA DestroyedFacts ==
    /\ \A t \in [Paths -> Entries], ps \in SUBSET Paths :
            /\ Destroyed(t, ps) \subseteq [path: Paths, entry: Entries]
            /\ \A l \in Destroyed(t, ps) : l.path \in ps /\ l.entry = t[l.path] /\ l.entry # Gone
<1> SUFFICES ASSUME NEW t \in [Paths -> Entries], NEW ps \in SUBSET Paths
             PROVE  /\ Destroyed(t, ps) \subseteq [path: Paths, entry: Entries]
                    /\ \A l \in Destroyed(t, ps) : l.path \in ps /\ l.entry = t[l.path] /\ l.entry # Gone
  OBVIOUS
<1>1. ASSUME NEW l \in Destroyed(t, ps)
      PROVE  l \in [path: Paths, entry: Entries] /\ l.path \in ps /\ l.entry = t[l.path] /\ l.entry # Gone
  <2>1. PICK p \in {q \in ps : t[q] # Gone} : l = [path |-> p, entry |-> t[p]]
    BY <1>1 DEF Destroyed
  <2> QED
    BY <2>1
<1> QED
  BY <1>1

\* What is lost is known by path and entry.
LEMMA LostTypesKept ==
    ASSUME TypeOK, SetAside, InHand, Step
    PROVE  LostTypes'
<1>1. CASE Apart /\ User
  BY <1>1, UserStep, NewIsVersion DEF RestEdited, LostTypes, TypeOK, TransportTypeOK
<1>2. CASE Apart /\ Place
  <2>1. lost' = lost \cup Destroyed(tree[Dest], {current})
    BY <1>2 DEF Place
  <2>2. tree[Dest] \in [Paths -> Entries] /\ {current} \in SUBSET Paths
    BY <1>2, SideFacts, BoundsAssumption DEF Place, BoundsAssumption, Installing, Deleting,
     InHand, TypeOK, TransportTypeOK
  <2>3. late' = late
    BY <1>2 DEF Place, userVars
  <2> QED
    BY <2>1, <2>2, <2>3, DestroyedFacts DEF LostTypes, TypeOK, TransportTypeOK
<1>3. CASE Apart /\ Discard
  <2>1. lost' = lost \cup Destroyed(aside, Paths)
    BY <1>3 DEF Discard
  <2>2. aside \in [Paths -> Entries] /\ Paths \in SUBSET Paths
    BY <1>3, SideFacts, BoundsAssumption DEF Discard, BoundsAssumption, Installing, Deleting,
     InHand, TypeOK, TransportTypeOK
  <2>3. late' = late
    BY <1>3 DEF Discard, userVars
  <2> QED
    BY <2>1, <2>2, <2>3, DestroyedFacts DEF LostTypes, TypeOK, TransportTypeOK
<1>4. CASE Apart /\ Reinstates
  <2>1. lost' = lost \cup Destroyed(tree[Dest], {current})
    BY <1>4 DEF Reinstates
  <2>2. tree[Dest] \in [Paths -> Entries] /\ {current} \in SUBSET Paths
    BY <1>4, SideFacts, BoundsAssumption DEF Reinstates, BoundsAssumption, Installing, Deleting,
     InHand, TypeOK, TransportTypeOK
  <2>3. late' = late
    BY <1>4 DEF Reinstates, userVars
  <2> QED
    BY <2>1, <2>2, <2>3, DestroyedFacts DEF LostTypes, TypeOK, TransportTypeOK
<1>5. CASE Apart /\ DeleteAway
  <2>1. lost' = lost \cup Destroyed(aside, Paths)
    BY <1>5 DEF DeleteAway
  <2>2. aside \in [Paths -> Entries] /\ Paths \in SUBSET Paths
    BY <1>5, SideFacts, BoundsAssumption DEF DeleteAway, BoundsAssumption, Installing, Deleting,
     InHand, TypeOK, TransportTypeOK
  <2>3. late' = late
    BY <1>5 DEF DeleteAway, userVars
  <2> QED
    BY <2>1, <2>2, <2>3, DestroyedFacts DEF LostTypes, TypeOK, TransportTypeOK
<1>6. CASE Apart /\ PutsBack
  <2>1. lost' = lost \cup Destroyed(tree[Dest], {current})
    BY <1>6 DEF PutsBack
  <2>2. tree[Dest] \in [Paths -> Entries] /\ {current} \in SUBSET Paths
    BY <1>6, SideFacts, BoundsAssumption DEF PutsBack, BoundsAssumption, Installing, Deleting,
     InHand, TypeOK, TransportTypeOK
  <2>3. late' = late
    BY <1>6 DEF PutsBack, userVars
  <2> QED
    BY <2>1, <2>2, <2>3, DestroyedFacts DEF LostTypes, TypeOK, TransportTypeOK
<1>7. CASE \/ Apart /\ Ceases
           \/ Apart /\ Orphans
           \/ Apart /\ LookLocal
           \/ Apart /\ Preflight
           \/ \E p \in Paths : Apart /\ Stages(p)
           \/ Apart /\ Ship
           \/ Apart /\ FallBack
           \/ \E p \in Paths : Apart /\ Aside(p)
           \/ Apart /\ LetsGo
           \/ \E p \in Paths : Apart /\ Keeps(p)
           \/ Apart /\ LookAgain
           \/ Apart /\ Verify
           \/ Apart /\ BeginDelete
           \/ \E p \in Paths : Apart /\ Skips(p)
           \/ \E p \in Paths : Apart /\ Takes(p)
           \/ Apart /\ Judge
           \/ Apart /\ DeleteFails
           \/ Apart /\ Restores
           \/ Apart /\ DeleteEnds
           \/ CompareLocal
           \/ CompareRemote
           \/ FinalLook
           \/ Settle
           \/ UNCHANGED wholeVars
  <2>1. UNCHANGED <<lost, late>>
    BY <1>7 DEF Ceases, Orphans, LookLocal, Preflight, Stages, Ship, FallBack, Aside, LetsGo,
     Keeps, LookAgain, Verify, BeginDelete, Skips, Takes, Judge, DeleteFails, Restores,
     DeleteEnds, CompareLocal, CompareRemote, FinalLook, Settle, wholeVars, vars, userVars
  <2> QED
    BY <2>1 DEF LostTypes, TypeOK, TransportTypeOK
<1> QED
  BY <1>1, <1>2, <1>3, <1>4, <1>5, <1>6, <1>7 DEF Step

\* The subject of a request is in its batch.
LEMMA SubjectFact ==
    ASSUME job \in Jobs
    PROVE  Subject \in job.batch /\ Subject \in Paths
<1>1. job.batch \subseteq Paths /\ job.batch # {}
  BY DEF Jobs
<1> QED
  BY <1>1 DEF Subject

\* What was recorded, the base and the echo are entries.
LEMMA RecordTypesKept ==
    ASSUME TypeOK, SetAside, Requested, Step
    PROVE  RecordTypes'
<1>1. CASE Settle
  <2>1. tree[Dest][Subject] \in Entries
    <3>1. tree \in [Sides -> [Paths -> Entries]] /\ job \in Jobs
      BY DEF TypeOK, TransportTypeOK
    <3>2. Subject \in Paths /\ Dest \in Sides
      BY <3>1, SubjectFact, SideFacts
    <3> QED
      BY <3>1, <3>2
  <2> QED
    BY <1>1, <2>1 DEF Settle, RecordTypes, TypeOK, TransportTypeOK
<1>2. CASE \/ Apart /\ User
           \/ Apart /\ Ceases
           \/ Apart /\ Orphans
           \/ Apart /\ LookLocal
           \/ Apart /\ Preflight
           \/ \E p \in Paths : Apart /\ Stages(p)
           \/ Apart /\ Ship
           \/ Apart /\ FallBack
           \/ \E p \in Paths : Apart /\ Aside(p)
           \/ Apart /\ Place
           \/ Apart /\ Discard
           \/ Apart /\ Reinstates
           \/ Apart /\ LetsGo
           \/ \E p \in Paths : Apart /\ Keeps(p)
           \/ Apart /\ LookAgain
           \/ Apart /\ Verify
           \/ Apart /\ BeginDelete
           \/ \E p \in Paths : Apart /\ Skips(p)
           \/ \E p \in Paths : Apart /\ Takes(p)
           \/ Apart /\ Judge
           \/ Apart /\ DeleteAway
           \/ Apart /\ DeleteFails
           \/ Apart /\ Restores
           \/ Apart /\ PutsBack
           \/ Apart /\ DeleteEnds
           \/ CompareLocal
           \/ CompareRemote
           \/ FinalLook
           \/ UNCHANGED wholeVars
  <2>1. UNCHANGED <<record, base, echo>>
    BY <1>2 DEF User, Ceases, Orphans, LookLocal, Preflight, Stages, Ship, FallBack, Aside,
     Place, Discard, Reinstates, LetsGo, Keeps, LookAgain, Verify, BeginDelete, Skips, Takes,
     Judge, DeleteAway, DeleteFails, Restores, PutsBack, DeleteEnds, CompareLocal, CompareRemote,
     FinalLook, wholeVars, vars, Apart, resolutionVars
  <2> QED
    BY <2>1 DEF RecordTypes, TypeOK, TransportTypeOK
<1> QED
  BY <1>1, <1>2 DEF Step

\* What sources are compared with is a tree of entries.
LEMMA ReferenceTypesKept ==
    ASSUME TypeOK, SetAside, Step
    PROVE  ReferenceTypes'
<1>1. ASSUME NEW p \in Paths, Apart /\ Stages(p)
      PROVE  ReferenceTypes'
  BY <1>1, StagesStep DEF ReferenceTypes
<1>2. CASE Apart /\ FallBack
  BY <1>2, EntryFacts DEF FallBack, ReferenceTypes, Empty
<1>3. CASE Apart /\ User
  BY <1>3, UserStep DEF RestEdited, ReferenceTypes, TypeOK, TransportTypeOK
<1>4. CASE \/ Apart /\ Ceases
           \/ Apart /\ Orphans
           \/ Apart /\ LookLocal
           \/ Apart /\ Preflight
           \/ Apart /\ Ship
           \/ \E p \in Paths : Apart /\ Aside(p)
           \/ Apart /\ Place
           \/ Apart /\ Discard
           \/ Apart /\ Reinstates
           \/ Apart /\ LetsGo
           \/ \E p \in Paths : Apart /\ Keeps(p)
           \/ Apart /\ LookAgain
           \/ Apart /\ Verify
           \/ Apart /\ BeginDelete
           \/ \E p \in Paths : Apart /\ Skips(p)
           \/ \E p \in Paths : Apart /\ Takes(p)
           \/ Apart /\ Judge
           \/ Apart /\ DeleteAway
           \/ Apart /\ DeleteFails
           \/ Apart /\ Restores
           \/ Apart /\ PutsBack
           \/ Apart /\ DeleteEnds
           \/ CompareLocal
           \/ CompareRemote
           \/ FinalLook
           \/ Settle
           \/ UNCHANGED wholeVars
  <2>1. reference' = reference
    BY <1>4 DEF Ceases, Orphans, LookLocal, Preflight, Ship, Aside, Place, Discard, Reinstates, LetsGo, Keeps,
     LookAgain, Verify, BeginDelete, Skips, Takes, Judge, DeleteAway, DeleteFails, Restores, PutsBack,
     DeleteEnds, CompareLocal, CompareRemote, FinalLook, Settle, wholeVars, vars, stageVars
  <2> QED
    BY <2>1 DEF ReferenceTypes, TypeOK, TransportTypeOK
<1> QED
  BY <1>1, <1>2, <1>3, <1>4 DEF Step

\* The variables keep their types.
LEMMA TypeKept ==
    ASSUME TypeOK, SetAside, InHand, Requested, Step
    PROVE  TypeOK'
<1>1. EntryTypes' /\ LookTypes' /\ PlaceTypes' /\ CountTypes'
  BY EntryTypesKept, LookTypesKept, PlaceTypesKept, CountTypesKept
<1>2. PathTypes' /\ LostTypes' /\ RecordTypes' /\ ReferenceTypes'
  BY PathTypesKept, LostTypesKept, RecordTypesKept, ReferenceTypesKept
<1>3. job' \in Jobs
  BY SidesStay DEF TypeOK, TransportTypeOK
<1> QED
  BY <1>1, <1>2, <1>3 DEF TypeOK, TransportTypeOK, EntryTypes, LookTypes, PlaceTypes, CountTypes, PathTypes,
     LostTypes, RecordTypes, ReferenceTypes

-----------------------------------------------------------------------------
(* Where a job stands.                                                     *)

\* InHand in parts.
NothingBegun == at \in Unsent => todo = {} /\ current = NoPath /\ aside = Empty /\ reported = {} /\ lost = {}
LeftToDo ==
    /\ todo \subseteq job.batch /\ (job.kind = "transfer" => todo \subseteq Tops(job.batch))
    /\ at \in {"verifying", "done", "counted", "settled"} => todo = {}
AtHand ==
    /\ step = "none" <=> current = NoPath
    /\ current # NoPath =>
            /\ current \in job.batch
            /\ at \in {"installing", "deleting", "giving up", "orphaned", "crashed"}
            /\ job.kind = "transfer" => current \in todo
    /\ job.kind = "transfer" => step \in {"none", "aside", "placed"}
    /\ job.kind = "delete" => step \notin {"aside", "placed"}

\* Before the installation nothing is left to do, at hand, aside, reported or lost.
LEMMA NothingBegunKept ==
    ASSUME TypeOK, InHand, Kinds, SetAside, Step
    PROVE  NothingBegun'
<1>1. CASE Apart /\ User
  <2>1. RestEdited /\ AsideEdited
    BY <1>1, UserStep
  <2>2. aside = Empty => aside' = Empty
    BY <2>1, EntryFacts DEF AsideEdited, Empty
  <2> QED
    BY <2>1, <2>2 DEF RestEdited, InHand, NothingBegun
<1>2. CASE Apart /\ Ceases
  BY <1>2 DEF Ceases, Apart, askedVars, stageVars, slotVars, resultVars, userVars,
     resolutionVars, NothingBegun, InHand, Unsent
<1>3. CASE Apart /\ Orphans
  BY <1>3 DEF Orphans, Apart, askedVars, stageVars, slotVars, resultVars, userVars,
     resolutionVars, NothingBegun, InHand, Unsent
<1>4. CASE Apart /\ LookLocal
  BY <1>4 DEF LookLocal, Apart, askedVars, stageVars, slotVars, resultVars, userVars,
     resolutionVars, NothingBegun, InHand, Unsent
<1>5. CASE Apart /\ Preflight
  BY <1>5 DEF Preflight, Apart, askedVars, stageVars, slotVars, resultVars, userVars,
     resolutionVars, NothingBegun, InHand, Unsent
<1>6. CASE Apart /\ Ship
  BY <1>6 DEF Ship, Staging, Apart, askedVars, stageVars, slotVars, resultVars, userVars, resolutionVars,
     NothingBegun, InHand, Unsent
<1>7. ASSUME NEW p \in Paths, Apart /\ Aside(p)
      PROVE  NothingBegun'
  BY <1>7 DEF Aside, Installing, Apart, askedVars, stageVars, slotVars, resultVars, userVars,
     resolutionVars, NothingBegun, InHand, Unsent
<1>8. CASE Apart /\ Place
  BY <1>8 DEF Place, Installing, Apart, askedVars, stageVars, slotVars, resultVars, userVars,
     resolutionVars, NothingBegun, InHand, Unsent
<1>9. CASE Apart /\ Discard
  BY <1>9 DEF Discard, Installing, Apart, askedVars, stageVars, slotVars, resultVars, userVars,
     resolutionVars, NothingBegun, InHand, Unsent
<1>10. CASE Apart /\ Reinstates
  BY <1>10 DEF Reinstates, Installing, Apart, askedVars, stageVars, slotVars, resultVars,
     userVars, resolutionVars, NothingBegun, InHand, Unsent
<1>11. CASE Apart /\ LetsGo
  BY <1>11 DEF LetsGo, Apart, askedVars, stageVars, slotVars, resultVars, userVars,
     resolutionVars, NothingBegun, InHand, Unsent
<1>12. ASSUME NEW p \in Paths, Apart /\ Keeps(p)
      PROVE  NothingBegun'
  BY <1>12 DEF Keeps, Apart, askedVars, stageVars, slotVars, resultVars, userVars,
     resolutionVars, NothingBegun, InHand, Unsent
<1>13. CASE Apart /\ LookAgain
  BY <1>13 DEF LookAgain, Apart, askedVars, stageVars, slotVars, resultVars, userVars,
     resolutionVars, NothingBegun, InHand, Unsent
<1>14. CASE Apart /\ Verify
  BY <1>14 DEF Verify, Apart, askedVars, stageVars, slotVars, resultVars, userVars,
     resolutionVars, NothingBegun, InHand, Unsent
<1>15. CASE Apart /\ BeginDelete
  BY <1>15 DEF BeginDelete, Apart, askedVars, stageVars, slotVars, resultVars, userVars,
     resolutionVars, NothingBegun, InHand, Unsent
<1>16. ASSUME NEW p \in Paths, Apart /\ Skips(p)
      PROVE  NothingBegun'
  BY <1>16 DEF Skips, Deleting, Apart, askedVars, stageVars, slotVars, resultVars, userVars,
     resolutionVars, NothingBegun, InHand, Unsent
<1>17. ASSUME NEW p \in Paths, Apart /\ Takes(p)
      PROVE  NothingBegun'
  BY <1>17 DEF Takes, Deleting, Apart, askedVars, stageVars, slotVars, resultVars, userVars,
     resolutionVars, NothingBegun, InHand, Unsent
<1>18. CASE Apart /\ DeleteAway
  BY <1>18 DEF DeleteAway, Deleting, Idle, Apart, askedVars, stageVars, slotVars, resultVars,
     userVars, resolutionVars, NothingBegun, InHand, Unsent
<1>19. CASE Apart /\ DeleteFails
  BY <1>19 DEF DeleteFails, Deleting, Apart, askedVars, stageVars, slotVars, resultVars,
     userVars, resolutionVars, NothingBegun, InHand, Unsent
<1>20. CASE Apart /\ PutsBack
  BY <1>20 DEF PutsBack, Deleting, Idle, Apart, askedVars, stageVars, slotVars, resultVars,
     userVars, resolutionVars, NothingBegun, InHand, Unsent
<1>21. CASE Apart /\ DeleteEnds
  BY <1>21 DEF DeleteEnds, Apart, askedVars, stageVars, slotVars, resultVars, userVars,
     resolutionVars, NothingBegun, InHand, Unsent
<1>22. CASE CompareLocal
  BY <1>22 DEF CompareLocal, askedVars, stageVars, slotVars, resultVars, userVars,
     resolutionVars, NothingBegun, InHand, Unsent
<1>23. CASE CompareRemote
  BY <1>23 DEF CompareRemote, askedVars, stageVars, slotVars, resultVars, userVars,
     resolutionVars, NothingBegun, InHand, Unsent
<1>24. CASE FinalLook
  BY <1>24 DEF FinalLook, askedVars, stageVars, slotVars, resultVars, userVars, resolutionVars,
     NothingBegun, InHand, Unsent
<1>25. CASE Settle
  BY <1>25 DEF Settle, askedVars, stageVars, slotVars, resultVars, userVars, resolutionVars,
     NothingBegun, InHand, Unsent
<1>26. CASE \/ Apart /\ Judge
            \/ Apart /\ Restores
            \/ UNCHANGED wholeVars
  <2>1. UNCHANGED <<at, todo, current, aside, reported, lost>>
    BY <1>26 DEF Judge, Restores, wholeVars, vars, slotVars, resultVars
  <2> QED
    BY <2>1 DEF NothingBegun, InHand
<1>27. CASE \/ \E p \in Paths : Apart /\ Stages(p)
            \/ Apart /\ FallBack
  BY <1>27, StagingGoesOn DEF NothingBegun, InHand, Unsent, TypeOK, TransportTypeOK
<1> QED
  BY <1>1, <1>2, <1>3, <1>4, <1>5, <1>6, <1>7, <1>8, <1>9, <1>10, <1>11, <1>12, <1>13, <1>14,
     <1>15, <1>16, <1>17, <1>18, <1>19, <1>20, <1>21, <1>22, <1>23, <1>24, <1>25, <1>26, <1>27 DEF Step

\* What is left to do is in the batch, and nothing once it is verified.
LEMMA LeftToDoKept ==
    ASSUME TypeOK, InHand, Kinds, SetAside, Step
    PROVE  LeftToDo'
<1>1. CASE Apart /\ Ceases
  BY <1>1 DEF Ceases, Apart, askedVars, stageVars, slotVars, resultVars, userVars,
     resolutionVars, LeftToDo, InHand, Kinds
<1>2. CASE Apart /\ Orphans
  BY <1>2 DEF Orphans, Apart, askedVars, stageVars, slotVars, resultVars, userVars,
     resolutionVars, LeftToDo, InHand, Kinds
<1>3. CASE Apart /\ LookLocal
  BY <1>3 DEF LookLocal, Apart, askedVars, stageVars, slotVars, resultVars, userVars,
     resolutionVars, LeftToDo, InHand, Kinds
<1>4. CASE Apart /\ Preflight
  BY <1>4 DEF Preflight, Apart, askedVars, stageVars, slotVars, resultVars, userVars,
     resolutionVars, LeftToDo, InHand, Kinds
<1>5. CASE Apart /\ Ship
  BY <1>5, SideFacts DEF Ship, Staging, Tops, InHand, LeftToDo, TypeOK, TransportTypeOK, askedVars, Kinds
<1>6. CASE \/ \E p \in Paths : Apart /\ Stages(p)
           \/ Apart /\ FallBack
  BY <1>6, StagingGoesOn DEF LeftToDo, InHand, Tops, Unsent, TypeOK, TransportTypeOK
<1>7. CASE Apart /\ Discard
  BY <1>7 DEF Discard, InHand, LeftToDo, askedVars, Installing, Deleting
<1>8. CASE Apart /\ Reinstates
  BY <1>8 DEF Reinstates, Installing, Apart, askedVars, stageVars, slotVars, resultVars,
     userVars, resolutionVars, LeftToDo, InHand, Kinds
<1>9. CASE Apart /\ LetsGo
  BY <1>9 DEF LetsGo, Apart, askedVars, stageVars, slotVars, resultVars, userVars,
     resolutionVars, LeftToDo, InHand, Kinds
<1>10. ASSUME NEW p \in Paths, Apart /\ Keeps(p)
      PROVE  LeftToDo'
  BY <1>10 DEF Keeps, InHand, LeftToDo, askedVars, Installing, Deleting
<1>11. CASE Apart /\ LookAgain
  BY <1>11 DEF LookAgain, Apart, askedVars, stageVars, slotVars, resultVars, userVars,
     resolutionVars, LeftToDo, InHand, Kinds
<1>12. CASE Apart /\ Verify
  BY <1>12 DEF Verify, Apart, askedVars, stageVars, slotVars, resultVars, userVars,
     resolutionVars, LeftToDo, InHand, Kinds
<1>13. CASE Apart /\ BeginDelete
  BY <1>13 DEF BeginDelete, InHand, LeftToDo, askedVars
<1>14. ASSUME NEW p \in Paths, Apart /\ Skips(p)
      PROVE  LeftToDo'
  BY <1>14 DEF Skips, InHand, LeftToDo, askedVars, Installing, Deleting
<1>15. ASSUME NEW p \in Paths, Apart /\ Takes(p)
      PROVE  LeftToDo'
  BY <1>15 DEF Takes, InHand, LeftToDo, askedVars, Installing, Deleting
<1>16. CASE Apart /\ DeleteFails
  BY <1>16 DEF DeleteFails, Deleting, Apart, askedVars, stageVars, slotVars, resultVars,
     userVars, resolutionVars, LeftToDo, InHand, Kinds
<1>17. CASE Apart /\ PutsBack
  BY <1>17 DEF PutsBack, Deleting, Idle, Apart, askedVars, stageVars, slotVars, resultVars,
     userVars, resolutionVars, LeftToDo, InHand, Kinds
<1>18. CASE Apart /\ DeleteEnds
  BY <1>18 DEF DeleteEnds, Apart, askedVars, stageVars, slotVars, resultVars, userVars,
     resolutionVars, LeftToDo, InHand, Kinds
<1>19. CASE CompareLocal
  BY <1>19 DEF CompareLocal, askedVars, stageVars, slotVars, resultVars, userVars,
     resolutionVars, LeftToDo, InHand, Kinds
<1>20. CASE CompareRemote
  BY <1>20, SidesStay DEF CompareRemote, InHand, LeftToDo, slotVars, Unsent
<1>21. CASE FinalLook
  BY <1>21 DEF FinalLook, askedVars, stageVars, slotVars, resultVars, userVars, resolutionVars,
     LeftToDo, InHand, Kinds
<1>22. CASE Settle
  BY <1>22 DEF Settle, askedVars, stageVars, slotVars, resultVars, userVars, resolutionVars,
     LeftToDo, InHand, Kinds
<1>23. CASE \/ Apart /\ User
            \/ \E p \in Paths : Apart /\ Aside(p)
            \/ Apart /\ Place
            \/ Apart /\ Judge
            \/ Apart /\ DeleteAway
            \/ Apart /\ Restores
            \/ UNCHANGED wholeVars
  <2>1. UNCHANGED <<job, at, todo>>
    BY <1>23 DEF User, Aside, Place, Judge, DeleteAway, Restores, wholeVars, vars,
     askedVars, slotVars
  <2> QED
    BY <2>1 DEF LeftToDo, InHand
<1> QED
  BY <1>1, <1>2, <1>3, <1>4, <1>5, <1>6, <1>7, <1>8, <1>9, <1>10, <1>11, <1>12, <1>13, <1>14,
     <1>15, <1>16, <1>17, <1>18, <1>19, <1>20, <1>21, <1>22, <1>23 DEF Step

\* The path at hand is one of the batch, and there while the job works on it.
LEMMA AtHandKept ==
    ASSUME TypeOK, InHand, Kinds, SetAside, Step
    PROVE  AtHand'
<1>1. CASE Apart /\ Ceases
  BY <1>1 DEF Ceases, Staging, Apart, askedVars, stageVars, slotVars, resultVars, userVars,
     resolutionVars, AtHand, InHand, Kinds, Unsent
<1>2. CASE Apart /\ Orphans
  BY <1>2 DEF Orphans, Apart, askedVars, stageVars, slotVars, resultVars, userVars,
     resolutionVars, AtHand, InHand, Kinds, Unsent
<1>3. CASE Apart /\ LookLocal
  BY <1>3 DEF LookLocal, Apart, askedVars, stageVars, slotVars, resultVars, userVars,
     resolutionVars, AtHand, InHand, Kinds, Unsent
<1>4. CASE Apart /\ Preflight
  BY <1>4 DEF Preflight, Apart, askedVars, stageVars, slotVars, resultVars, userVars,
     resolutionVars, AtHand, InHand, Kinds, Unsent
<1>5. CASE Apart /\ Ship
  BY <1>5 DEF Ship, Staging, Apart, askedVars, stageVars, slotVars, resultVars, userVars, resolutionVars,
     AtHand, InHand, Kinds, Unsent
<1>6. CASE \/ \E p \in Paths : Apart /\ Stages(p)
           \/ Apart /\ FallBack
  BY <1>6, StagingGoesOn DEF AtHand, InHand, Unsent, TypeOK, TransportTypeOK
<1>7. ASSUME NEW p \in Paths, Apart /\ Aside(p)
      PROVE  AtHand'
  BY <1>7, BoundsAssumption DEF Aside, InHand, AtHand, askedVars, Installing, Deleting,
     BoundsAssumption
<1>8. CASE Apart /\ Place
  BY <1>8 DEF Place, Installing, Apart, askedVars, stageVars, slotVars, resultVars, userVars,
     resolutionVars, AtHand, InHand, Kinds, Unsent
<1>9. CASE Apart /\ Discard
  BY <1>9 DEF Discard, Installing, Apart, askedVars, stageVars, slotVars, resultVars, userVars,
     resolutionVars, AtHand, InHand, Kinds, Unsent
<1>10. CASE Apart /\ Reinstates
  BY <1>10 DEF Reinstates, Installing, Apart, askedVars, stageVars, slotVars, resultVars,
     userVars, resolutionVars, AtHand, InHand, Kinds, Unsent
<1>11. CASE Apart /\ LetsGo
  BY <1>11 DEF LetsGo, Apart, askedVars, stageVars, slotVars, resultVars, userVars,
     resolutionVars, AtHand, InHand, Kinds, Unsent
<1>12. ASSUME NEW p \in Paths, Apart /\ Keeps(p)
      PROVE  AtHand'
  BY <1>12 DEF Keeps, Apart, askedVars, stageVars, slotVars, resultVars, userVars,
     resolutionVars, AtHand, InHand, Kinds, Unsent
<1>13. CASE Apart /\ LookAgain
  BY <1>13 DEF LookAgain, InHand, AtHand, askedVars, slotVars
<1>14. CASE Apart /\ Verify
  BY <1>14 DEF Verify, InHand, AtHand, askedVars, slotVars
<1>15. CASE Apart /\ BeginDelete
  BY <1>15 DEF BeginDelete, InHand, AtHand, askedVars
<1>16. ASSUME NEW p \in Paths, Apart /\ Skips(p)
      PROVE  AtHand'
  BY <1>16 DEF Skips, Deleting, Apart, askedVars, stageVars, slotVars, resultVars, userVars,
     resolutionVars, AtHand, InHand, Kinds, Unsent
<1>17. ASSUME NEW p \in Paths, Apart /\ Takes(p)
      PROVE  AtHand'
  BY <1>17, BoundsAssumption DEF Takes, InHand, AtHand, askedVars, Installing, Deleting,
     BoundsAssumption
<1>18. CASE Apart /\ Judge
  BY <1>18 DEF Judge, Deleting, Apart, askedVars, stageVars, slotVars, resultVars, userVars,
     resolutionVars, AtHand, InHand, Kinds, Unsent
<1>19. CASE Apart /\ DeleteAway
  BY <1>19 DEF DeleteAway, Deleting, Idle, Apart, askedVars, stageVars, slotVars, resultVars,
     userVars, resolutionVars, AtHand, InHand, Kinds, Unsent
<1>20. CASE Apart /\ DeleteFails
  BY <1>20 DEF DeleteFails, Deleting, Apart, askedVars, stageVars, slotVars, resultVars,
     userVars, resolutionVars, AtHand, InHand, Kinds, Unsent
<1>21. CASE Apart /\ Restores
  BY <1>21 DEF Restores, Deleting, Apart, askedVars, stageVars, slotVars, resultVars, userVars,
     resolutionVars, AtHand, InHand, Kinds, Unsent
<1>22. CASE Apart /\ PutsBack
  BY <1>22 DEF PutsBack, Deleting, Idle, Apart, askedVars, stageVars, slotVars, resultVars,
     userVars, resolutionVars, AtHand, InHand, Kinds, Unsent
<1>23. CASE Apart /\ DeleteEnds
  BY <1>23 DEF DeleteEnds, Apart, askedVars, stageVars, slotVars, resultVars, userVars,
     resolutionVars, AtHand, InHand, Kinds, Unsent
<1>24. CASE CompareLocal
  BY <1>24 DEF CompareLocal, askedVars, stageVars, slotVars, resultVars, userVars,
     resolutionVars, AtHand, InHand, Kinds, Unsent
<1>25. CASE CompareRemote
  BY <1>25, SidesStay DEF CompareRemote, InHand, AtHand, slotVars, Unsent
<1>26. CASE FinalLook
  BY <1>26 DEF FinalLook, askedVars, stageVars, slotVars, resultVars, userVars, resolutionVars,
     AtHand, InHand, Kinds, Unsent
<1>27. CASE Settle
  BY <1>27 DEF Settle, askedVars, stageVars, slotVars, resultVars, userVars, resolutionVars,
     AtHand, InHand, Kinds, Unsent
<1>28. CASE \/ Apart /\ User
            \/ UNCHANGED wholeVars
  <2>1. UNCHANGED <<job, at, todo, current, step>>
    BY <1>28 DEF User, wholeVars, vars, askedVars, slotVars
  <2> QED
    BY <2>1 DEF AtHand, InHand
<1> QED
  BY <1>1, <1>2, <1>3, <1>4, <1>5, <1>6, <1>7, <1>8, <1>9, <1>10, <1>11, <1>12, <1>13, <1>14,
     <1>15, <1>16, <1>17, <1>18, <1>19, <1>20, <1>21, <1>22, <1>23, <1>24, <1>25, <1>26, <1>27,
     <1>28 DEF Step

\* Where a job stands agrees with what it has in hand.
LEMMA InHandKept ==
    ASSUME TypeOK, InHand, Kinds, SetAside, Step
    PROVE  InHand'
  BY NothingBegunKept, LeftToDoKept, AtHandKept DEF InHand, NothingBegun, LeftToDo, AtHand

\* Kinds in parts.
KindThere ==
    /\ at \in {"asked", "compared", "looked", "staging", "copying", "installing", "verifying"} => job.kind = "transfer"
    /\ at \in {"deleting", "giving up"} => job.kind = "delete"
LookedThere ==
    /\ at \in {"asked", "compared", "ready"} => before = [s \in Sides |-> Empty]
    /\ at = "looked" => before["remote"] = Empty
UnstagedThere == at \in {"asked", "compared", "ready", "looked"} => stage = Empty /\ reference = Empty
DoneThere ==
    /\ linked # {} => at \in {"staging", "failed", "crashed"}
    /\ job.kind = "transfer" /\ reported # {} => at \in {"done", "counted", "settled", "failed", "crashed"}

\* A transfer and a deletion go different ways.
LEMMA KindThereKept ==
    ASSUME TypeOK, InHand, Kinds, SetAside, Requested, Step
    PROVE  KindThere'
<1>1. CASE Apart /\ Ceases
  BY <1>1 DEF Ceases, Apart, askedVars, stageVars, slotVars, resultVars, userVars,
     resolutionVars, Kinds, KindThere
<1>2. CASE Apart /\ Orphans
  BY <1>2 DEF Orphans, Apart, askedVars, stageVars, slotVars, resultVars, userVars,
     resolutionVars, Kinds, KindThere
<1>3. CASE Apart /\ LookLocal
  BY <1>3 DEF LookLocal, Apart, askedVars, stageVars, slotVars, resultVars, userVars,
     resolutionVars, Kinds, KindThere
<1>4. CASE Apart /\ Preflight
  BY <1>4 DEF Preflight, Apart, askedVars, stageVars, slotVars, resultVars, userVars,
     resolutionVars, Kinds, KindThere
<1>5. CASE Apart /\ Ship
  BY <1>5 DEF Ship, Staging, Apart, askedVars, stageVars, slotVars, resultVars, userVars, resolutionVars,
     Kinds, KindThere
<1>6. CASE \/ \E p \in Paths : Apart /\ Stages(p)
           \/ Apart /\ FallBack
  BY <1>6, StagingGoesOn DEF Kinds, KindThere, TypeOK, TransportTypeOK
<1>7. CASE Apart /\ Reinstates
  BY <1>7 DEF Reinstates, Installing, Apart, askedVars, stageVars, slotVars, resultVars,
     userVars, resolutionVars, Kinds, KindThere
<1>8. CASE Apart /\ LetsGo
  BY <1>8 DEF LetsGo, Apart, askedVars, stageVars, slotVars, resultVars, userVars,
     resolutionVars, Kinds, KindThere
<1>9. CASE Apart /\ LookAgain
  BY <1>9 DEF LookAgain, Apart, askedVars, stageVars, slotVars, resultVars, userVars,
     resolutionVars, Kinds, KindThere
<1>10. CASE Apart /\ Verify
  BY <1>10 DEF Verify, Apart, askedVars, stageVars, slotVars, resultVars, userVars,
     resolutionVars, Kinds, KindThere
<1>11. CASE Apart /\ BeginDelete
  BY <1>11 DEF BeginDelete, Apart, askedVars, stageVars, slotVars, resultVars, userVars,
     resolutionVars, Kinds, KindThere
<1>12. CASE Apart /\ DeleteFails
  BY <1>12 DEF DeleteFails, Deleting, Apart, askedVars, stageVars, slotVars, resultVars,
     userVars, resolutionVars, Kinds, KindThere
<1>13. CASE Apart /\ PutsBack
  BY <1>13 DEF PutsBack, Deleting, Idle, Apart, askedVars, stageVars, slotVars, resultVars,
     userVars, resolutionVars, Kinds, KindThere
<1>14. CASE Apart /\ DeleteEnds
  BY <1>14 DEF DeleteEnds, Apart, askedVars, stageVars, slotVars, resultVars, userVars,
     resolutionVars, Kinds, KindThere
<1>15. CASE CompareLocal
  BY <1>15 DEF CompareLocal, askedVars, stageVars, slotVars, resultVars, userVars,
     resolutionVars, Kinds, KindThere
<1>16. CASE CompareRemote
  BY <1>16, SidesStay DEF CompareRemote, Kinds, KindThere
<1>17. CASE FinalLook
  BY <1>17 DEF FinalLook, askedVars, stageVars, slotVars, resultVars, userVars, resolutionVars,
     Kinds, KindThere
<1>18. CASE Settle
  BY <1>18 DEF Settle, askedVars, stageVars, slotVars, resultVars, userVars, resolutionVars,
     Kinds, KindThere
<1>19. CASE \/ Apart /\ User
            \/ \E p \in Paths : Apart /\ Aside(p)
            \/ Apart /\ Place
            \/ Apart /\ Discard
            \/ \E p \in Paths : Apart /\ Keeps(p)
            \/ \E p \in Paths : Apart /\ Skips(p)
            \/ \E p \in Paths : Apart /\ Takes(p)
            \/ Apart /\ Judge
            \/ Apart /\ DeleteAway
            \/ Apart /\ Restores
            \/ UNCHANGED wholeVars
  <2>1. UNCHANGED <<job, at>>
    BY <1>19 DEF User, Aside, Place, Discard, Keeps, Skips, Takes, Judge, DeleteAway,
     Restores, wholeVars, vars, askedVars
  <2> QED
    BY <2>1 DEF KindThere, Kinds
<1> QED
  BY <1>1, <1>2, <1>3, <1>4, <1>5, <1>6, <1>7, <1>8, <1>9, <1>10, <1>11, <1>12, <1>13, <1>14,
     <1>15, <1>16, <1>17, <1>18, <1>19 DEF Step

\* Nothing was looked at before the preflight looks.
LEMMA LookedThereKept ==
    ASSUME TypeOK, InHand, Kinds, SetAside, Requested, Step
    PROVE  LookedThere'
<1>1. CASE Apart /\ Ceases
  BY <1>1 DEF Ceases, Apart, askedVars, stageVars, slotVars, resultVars, userVars,
     resolutionVars, Kinds, LookedThere
<1>2. CASE Apart /\ Orphans
  BY <1>2 DEF Orphans, Apart, askedVars, stageVars, slotVars, resultVars, userVars,
     resolutionVars, Kinds, LookedThere
<1>3. CASE Apart /\ LookLocal
  <2>1. before' = [before EXCEPT !["local"] = tree["local"]] /\ at' = "looked" /\ before = [s \in Sides |-> Empty]
    BY <1>3 DEF LookLocal, Kinds
  <2> QED
    BY <2>1 DEF LookedThere, Sides
<1>4. CASE Apart /\ Preflight
  BY <1>4 DEF Preflight, Apart, askedVars, stageVars, slotVars, resultVars, userVars,
     resolutionVars, Kinds, LookedThere
<1>5. CASE Apart /\ Ship
  BY <1>5 DEF Ship, Staging, Apart, askedVars, stageVars, slotVars, resultVars, userVars, resolutionVars,
     Kinds, LookedThere
<1>6. CASE Apart /\ Reinstates
  BY <1>6 DEF Reinstates, Installing, Apart, askedVars, stageVars, slotVars, resultVars,
     userVars, resolutionVars, Kinds, LookedThere
<1>7. CASE Apart /\ LetsGo
  BY <1>7 DEF LetsGo, Apart, askedVars, stageVars, slotVars, resultVars, userVars,
     resolutionVars, Kinds, LookedThere
<1>8. CASE Apart /\ LookAgain
  BY <1>8 DEF LookAgain, Apart, askedVars, stageVars, slotVars, resultVars, userVars,
     resolutionVars, Kinds, LookedThere
<1>9. CASE Apart /\ Verify
  BY <1>9 DEF Verify, Apart, askedVars, stageVars, slotVars, resultVars, userVars,
     resolutionVars, Kinds, LookedThere
<1>10. CASE Apart /\ BeginDelete
  BY <1>10 DEF BeginDelete, Apart, askedVars, stageVars, slotVars, resultVars, userVars,
     resolutionVars, Kinds, LookedThere
<1>11. CASE Apart /\ DeleteFails
  BY <1>11 DEF DeleteFails, Deleting, Apart, askedVars, stageVars, slotVars, resultVars,
     userVars, resolutionVars, Kinds, LookedThere
<1>12. CASE Apart /\ PutsBack
  BY <1>12 DEF PutsBack, Deleting, Idle, Apart, askedVars, stageVars, slotVars, resultVars,
     userVars, resolutionVars, Kinds, LookedThere
<1>13. CASE Apart /\ DeleteEnds
  BY <1>13 DEF DeleteEnds, Apart, askedVars, stageVars, slotVars, resultVars, userVars,
     resolutionVars, Kinds, LookedThere
<1>14. CASE CompareLocal
  BY <1>14 DEF CompareLocal, askedVars, stageVars, slotVars, resultVars, userVars,
     resolutionVars, Kinds, LookedThere
<1>15. CASE CompareRemote
  BY <1>15, SidesStay DEF CompareRemote, Kinds, LookedThere
<1>16. CASE FinalLook
  BY <1>16 DEF FinalLook, askedVars, stageVars, slotVars, resultVars, userVars, resolutionVars,
     Kinds, LookedThere
<1>17. CASE Settle
  BY <1>17 DEF Settle, askedVars, stageVars, slotVars, resultVars, userVars, resolutionVars,
     Kinds, LookedThere
<1>18. CASE \/ Apart /\ User
            \/ \E p \in Paths : Apart /\ Aside(p)
            \/ Apart /\ Place
            \/ Apart /\ Discard
            \/ \E p \in Paths : Apart /\ Keeps(p)
            \/ \E p \in Paths : Apart /\ Skips(p)
            \/ \E p \in Paths : Apart /\ Takes(p)
            \/ Apart /\ Judge
            \/ Apart /\ DeleteAway
            \/ Apart /\ Restores
            \/ UNCHANGED wholeVars
  <2>1. UNCHANGED <<at, before>>
    BY <1>18 DEF User, Aside, Place, Discard, Keeps, Skips, Takes, Judge,
     DeleteAway, Restores, wholeVars, vars
  <2> QED
    BY <2>1 DEF LookedThere, Kinds
<1>19. CASE \/ \E p \in Paths : Apart /\ Stages(p)
            \/ Apart /\ FallBack
  BY <1>19, StagingGoesOn DEF LookedThere, TypeOK, TransportTypeOK
<1> QED
  BY <1>1, <1>2, <1>3, <1>4, <1>5, <1>6, <1>7, <1>8, <1>9, <1>10, <1>11, <1>12, <1>13, <1>14,
     <1>15, <1>16, <1>17, <1>18, <1>19 DEF Step

\* Nothing is staged before the preflight has passed.
LEMMA UnstagedThereKept ==
    ASSUME TypeOK, InHand, Kinds, SetAside, Requested, Step
    PROVE  UnstagedThere'
<1>1. CASE Apart /\ User
  <2>1. UNCHANGED <<at, reference>> /\ StageEdited
    BY <1>1, UserStep DEF RestEdited
  <2>2. at \in {"asked", "compared", "ready", "looked"} => linked = {} /\ stage = Empty /\ reference = Empty
    BY DEF Kinds
  <2>3. linked = {} => \A q \in Paths : stage'[q] = stage[q]
    BY <2>1 DEF StageEdited
  <2>4. stage' = [q \in Paths |-> stage'[q]]
    BY <2>1 DEF StageEdited
  <2> QED
    BY <2>1, <2>2, <2>3, <2>4 DEF Empty, UnstagedThere
<1>2. CASE Apart /\ Ceases
  BY <1>2 DEF Ceases, Apart, askedVars, stageVars, slotVars, resultVars, userVars,
     resolutionVars, Kinds, UnstagedThere
<1>3. CASE Apart /\ Orphans
  BY <1>3 DEF Orphans, Apart, askedVars, stageVars, slotVars, resultVars, userVars,
     resolutionVars, Kinds, UnstagedThere
<1>4. CASE Apart /\ LookLocal
  BY <1>4 DEF LookLocal, Apart, askedVars, stageVars, slotVars, resultVars, userVars,
     resolutionVars, Kinds, UnstagedThere
<1>5. CASE Apart /\ Preflight
  BY <1>5 DEF Preflight, Apart, askedVars, stageVars, slotVars, resultVars, userVars,
     resolutionVars, Kinds, UnstagedThere
<1>6. CASE \/ \E p \in Paths : Apart /\ Stages(p)
           \/ Apart /\ FallBack
  BY <1>6, StagingGoesOn DEF UnstagedThere, TypeOK, TransportTypeOK
<1>7. CASE Apart /\ Ship
  BY <1>7 DEF Ship, Staging, Apart, askedVars, stageVars, slotVars, resultVars, userVars, resolutionVars,
     Kinds, UnstagedThere
<1>8. CASE Apart /\ Reinstates
  BY <1>8 DEF Reinstates, Installing, Apart, askedVars, stageVars, slotVars, resultVars,
     userVars, resolutionVars, Kinds, UnstagedThere
<1>9. CASE Apart /\ LetsGo
  BY <1>9 DEF LetsGo, Apart, askedVars, stageVars, slotVars, resultVars, userVars,
     resolutionVars, Kinds, UnstagedThere
<1>10. CASE Apart /\ LookAgain
  BY <1>10 DEF LookAgain, Apart, askedVars, stageVars, slotVars, resultVars, userVars,
     resolutionVars, Kinds, UnstagedThere
<1>11. CASE Apart /\ Verify
  BY <1>11 DEF Verify, Apart, askedVars, stageVars, slotVars, resultVars, userVars,
     resolutionVars, Kinds, UnstagedThere
<1>12. CASE Apart /\ BeginDelete
  BY <1>12 DEF BeginDelete, Apart, askedVars, stageVars, slotVars, resultVars, userVars,
     resolutionVars, Kinds, UnstagedThere
<1>13. CASE Apart /\ DeleteFails
  BY <1>13 DEF DeleteFails, Deleting, Apart, askedVars, stageVars, slotVars, resultVars,
     userVars, resolutionVars, Kinds, UnstagedThere
<1>14. CASE Apart /\ PutsBack
  BY <1>14 DEF PutsBack, Deleting, Idle, Apart, askedVars, stageVars, slotVars, resultVars,
     userVars, resolutionVars, Kinds, UnstagedThere
<1>15. CASE Apart /\ DeleteEnds
  BY <1>15 DEF DeleteEnds, Apart, askedVars, stageVars, slotVars, resultVars, userVars,
     resolutionVars, Kinds, UnstagedThere
<1>16. CASE CompareLocal
  BY <1>16 DEF CompareLocal, askedVars, stageVars, slotVars, resultVars, userVars,
     resolutionVars, Kinds, UnstagedThere
<1>17. CASE CompareRemote
  BY <1>17, SidesStay DEF CompareRemote, Kinds, UnstagedThere, stageVars
<1>18. CASE FinalLook
  BY <1>18 DEF FinalLook, askedVars, stageVars, slotVars, resultVars, userVars, resolutionVars,
     Kinds, UnstagedThere
<1>19. CASE Settle
  BY <1>19 DEF Settle, askedVars, stageVars, slotVars, resultVars, userVars, resolutionVars,
     Kinds, UnstagedThere
<1>20. CASE \/ \E p \in Paths : Apart /\ Aside(p)
            \/ Apart /\ Place
            \/ Apart /\ Discard
            \/ \E p \in Paths : Apart /\ Keeps(p)
            \/ \E p \in Paths : Apart /\ Skips(p)
            \/ \E p \in Paths : Apart /\ Takes(p)
            \/ Apart /\ Judge
            \/ Apart /\ DeleteAway
            \/ Apart /\ Restores
            \/ UNCHANGED wholeVars
  <2>1. UNCHANGED <<at, stage, reference>>
    BY <1>20 DEF Aside, Place, Discard, Keeps, Skips, Takes, Judge, DeleteAway, Restores,
     wholeVars, vars, stageVars
  <2> QED
    BY <2>1 DEF UnstagedThere, Kinds
<1> QED
  BY <1>1, <1>2, <1>3, <1>4, <1>5, <1>6, <1>7, <1>8, <1>9, <1>10, <1>11, <1>12, <1>13,
     <1>14, <1>15, <1>16, <1>17, <1>18, <1>19, <1>20 DEF Step

\* Links end with the staging, and only a verified transfer reports.
LEMMA DoneThereKept ==
    ASSUME TypeOK, InHand, Kinds, SetAside, Requested, Step
    PROVE  DoneThere'
<1>1. CASE Apart /\ User
  <2>1. UNCHANGED <<job, at, before, reported>> /\ linked' \subseteq linked
    BY <1>1, UserStep DEF RestEdited, StageEdited
  <2> QED
    BY <2>1 DEF Kinds, DoneThere
<1>2. CASE Apart /\ Ceases
  BY <1>2 DEF Ceases, Apart, askedVars, stageVars, slotVars, resultVars, userVars,
     resolutionVars, Kinds, DoneThere
<1>3. CASE Apart /\ Orphans
  BY <1>3 DEF Orphans, Apart, askedVars, stageVars, slotVars, resultVars, userVars,
     resolutionVars, Kinds, DoneThere
<1>4. CASE Apart /\ LookLocal
  BY <1>4 DEF LookLocal, Apart, askedVars, stageVars, slotVars, resultVars, userVars,
     resolutionVars, Kinds, DoneThere
<1>5. CASE Apart /\ Preflight
  BY <1>5 DEF Preflight, Apart, askedVars, stageVars, slotVars, resultVars, userVars,
     resolutionVars, Kinds, DoneThere
<1>6. ASSUME NEW p \in Paths, Apart /\ Stages(p)
      PROVE  DoneThere'
  <2>1. UNCHANGED <<job, reported>> /\ at \in {"staging", "copying"} /\ at' \in {"staging", "copying"}
    BY <1>6 DEF Stages, Staging, askedVars, resultVars
  <2>2. linked' # {} => at' = "staging"
    BY <1>6, <2>1 DEF Stages, Looks, Copies, Restages, Kinds
  <2> QED
    BY <2>1, <2>2 DEF Kinds, DoneThere
<1>7. CASE Apart /\ Ship
  BY <1>7 DEF Ship, Staging, Kinds, DoneThere, askedVars, resultVars
<1>8. CASE Apart /\ FallBack
  <2>1. reported' = reported /\ linked' = {} /\ at \in {"staging", "copying"} /\ job'.kind = job.kind
    BY <1>8, StagingGoesOn DEF FallBack, TypeOK, TransportTypeOK
  <2> QED
    BY <2>1 DEF Kinds, DoneThere
<1>9. CASE Apart /\ Reinstates
  BY <1>9 DEF Reinstates, Installing, Apart, askedVars, stageVars, slotVars, resultVars,
     userVars, resolutionVars, Kinds, DoneThere
<1>10. CASE Apart /\ LetsGo
  BY <1>10 DEF LetsGo, Apart, askedVars, stageVars, slotVars, resultVars, userVars,
     resolutionVars, Kinds, DoneThere
<1>11. CASE Apart /\ LookAgain
  BY <1>11 DEF LookAgain, Apart, askedVars, stageVars, slotVars, resultVars, userVars,
     resolutionVars, Kinds, DoneThere
<1>12. CASE Apart /\ Verify
  BY <1>12 DEF Verify, Apart, askedVars, stageVars, slotVars, resultVars, userVars,
     resolutionVars, Kinds, DoneThere
<1>13. CASE Apart /\ BeginDelete
  BY <1>13 DEF BeginDelete, Apart, askedVars, stageVars, slotVars, resultVars, userVars,
     resolutionVars, Kinds, DoneThere
<1>14. ASSUME NEW p \in Paths, Apart /\ Skips(p)
      PROVE  DoneThere'
  BY <1>14 DEF Skips, Deleting, Apart, askedVars, stageVars, slotVars, resultVars, userVars,
     resolutionVars, Kinds, DoneThere, InHand
<1>15. CASE Apart /\ DeleteAway
  BY <1>15 DEF DeleteAway, Deleting, Idle, Apart, askedVars, stageVars, slotVars, resultVars,
     userVars, resolutionVars, Kinds, DoneThere, InHand
<1>16. CASE Apart /\ DeleteFails
  BY <1>16 DEF DeleteFails, Deleting, Apart, askedVars, stageVars, slotVars, resultVars,
     userVars, resolutionVars, Kinds, DoneThere
<1>17. CASE Apart /\ PutsBack
  BY <1>17 DEF PutsBack, Deleting, Idle, Apart, askedVars, stageVars, slotVars, resultVars,
     userVars, resolutionVars, Kinds, DoneThere
<1>18. CASE Apart /\ DeleteEnds
  BY <1>18 DEF DeleteEnds, Apart, askedVars, stageVars, slotVars, resultVars, userVars,
     resolutionVars, Kinds, DoneThere
<1>19. CASE CompareLocal
  BY <1>19 DEF CompareLocal, askedVars, stageVars, slotVars, resultVars, userVars,
     resolutionVars, Kinds, DoneThere
<1>20. CASE CompareRemote
  BY <1>20, SidesStay DEF CompareRemote, Kinds, DoneThere, InHand, Unsent, stageVars, resultVars
<1>21. CASE FinalLook
  BY <1>21 DEF FinalLook, askedVars, stageVars, slotVars, resultVars, userVars, resolutionVars,
     Kinds, DoneThere
<1>22. CASE Settle
  BY <1>22 DEF Settle, askedVars, stageVars, slotVars, resultVars, userVars, resolutionVars,
     Kinds, DoneThere
<1>23. CASE \/ \E p \in Paths : Apart /\ Aside(p)
            \/ Apart /\ Place
            \/ Apart /\ Discard
            \/ \E p \in Paths : Apart /\ Keeps(p)
            \/ \E p \in Paths : Apart /\ Takes(p)
            \/ Apart /\ Judge
            \/ Apart /\ Restores
            \/ UNCHANGED wholeVars
  <2>1. UNCHANGED <<job, at, linked, reported>>
    BY <1>23 DEF Aside, Place, Discard, Keeps, Takes, Judge, Restores, wholeVars, vars,
     askedVars, stageVars, resultVars
  <2> QED
    BY <2>1 DEF DoneThere, Kinds
<1> QED
  BY <1>1, <1>2, <1>3, <1>4, <1>5, <1>6, <1>7, <1>8, <1>9, <1>10, <1>11, <1>12, <1>13, <1>14,
     <1>15, <1>16, <1>17, <1>18, <1>19, <1>20, <1>21, <1>22, <1>23 DEF Step

\* A job of a kind has done by then what its kind does.
LEMMA KindsKept ==
    ASSUME TypeOK, InHand, Kinds, SetAside, Requested, Step
    PROVE  Kinds'
  BY KindThereKept, LookedThereKept, UnstagedThereKept, DoneThereKept
     DEF Kinds, KindThere, LookedThere, UnstagedThere, DoneThere

\* Only the entry at hand and what was below it are aside.
LEMMA SetAsideKept ==
    ASSUME TypeOK, InHand, Kinds, SetAside, Step
    PROVE  SetAside'
<1>1. CASE Apart /\ User
  <2>1. RestEdited /\ AsideEdited
    BY <1>1, UserStep
  <2>2. aside = Empty => aside' = Empty
    BY <2>1, EntryFacts DEF AsideEdited, Empty
  <2>3. \A q \in Paths : aside[q] = Gone => aside'[q] = Gone
    BY <2>1 DEF AsideEdited
  <2>4. UNCHANGED <<at, current>>
    BY <2>1 DEF RestEdited
  <2> QED
    BY <2>2, <2>3, <2>4 DEF SetAside, Running
<1>2. CASE Apart /\ Ceases
  BY <1>2 DEF Ceases, Apart, askedVars, stageVars, slotVars, resultVars, userVars,
     resolutionVars, SetAside, Running
<1>3. CASE Apart /\ Orphans
  BY <1>3 DEF Orphans, Apart, askedVars, stageVars, slotVars, resultVars, userVars,
     resolutionVars, SetAside, Running
<1>4. CASE Apart /\ LookLocal
  BY <1>4 DEF LookLocal, SetAside, Running, slotVars
<1>5. CASE Apart /\ Preflight
  BY <1>5 DEF Preflight, SetAside, Running, slotVars
<1>6. CASE Apart /\ Ship
  BY <1>6 DEF Ship, Staging, SetAside, Running
<1>7. ASSUME NEW p \in Paths, Apart /\ Aside(p)
      PROVE  SetAside'
  <2>1. current' = p /\ \A q \in Paths : aside'[q] = IF q \in Subtree(p) THEN tree[Dest][q] ELSE Gone
    BY <1>7, AsideStep DEF Aside
  <2>2. p # NoPath
    BY BoundsAssumption DEF BoundsAssumption
  <2> QED
    BY <2>1, <2>2 DEF SetAside
<1>8. CASE Apart /\ Discard
  BY <1>8, EntryFacts DEF Discard, SetAside, Idle
<1>9. CASE Apart /\ Reinstates
  BY <1>9, EntryFacts DEF Reinstates, SetAside, Idle
<1>10. CASE Apart /\ LetsGo
  BY <1>10 DEF LetsGo, Apart, askedVars, stageVars, slotVars, resultVars, userVars,
     resolutionVars, SetAside, Running
<1>11. CASE Apart /\ LookAgain
  BY <1>11 DEF LookAgain, Apart, askedVars, stageVars, slotVars, resultVars, userVars,
     resolutionVars, SetAside, Running
<1>12. CASE Apart /\ Verify
  BY <1>12 DEF Verify, Apart, askedVars, stageVars, slotVars, resultVars, userVars,
     resolutionVars, SetAside, Running
<1>13. CASE Apart /\ BeginDelete
  BY <1>13 DEF BeginDelete, SetAside, Running
<1>14. ASSUME NEW p \in Paths, Apart /\ Takes(p)
      PROVE  SetAside'
  <2>1. current' = p /\ \A q \in Paths : aside'[q] = IF q \in Subtree(p) THEN tree[Dest][q] ELSE Gone
    BY <1>14, TakesStep DEF Takes
  <2>2. p # NoPath
    BY BoundsAssumption DEF BoundsAssumption
  <2> QED
    BY <2>1, <2>2 DEF SetAside
<1>15. CASE Apart /\ DeleteAway
  BY <1>15, EntryFacts DEF DeleteAway, SetAside, Idle
<1>16. CASE Apart /\ DeleteFails
  BY <1>16 DEF DeleteFails, Deleting, Apart, askedVars, stageVars, slotVars, resultVars,
     userVars, resolutionVars, SetAside, Running
<1>17. CASE Apart /\ PutsBack
  BY <1>17, EntryFacts DEF PutsBack, SetAside, Idle
<1>18. CASE Apart /\ DeleteEnds
  BY <1>18 DEF DeleteEnds, Apart, askedVars, stageVars, slotVars, resultVars, userVars,
     resolutionVars, SetAside, Running
<1>19. CASE CompareLocal
  BY <1>19 DEF CompareLocal, askedVars, stageVars, slotVars, resultVars, userVars,
     resolutionVars, SetAside, Running, InHand, Unsent
<1>20. CASE CompareRemote
  BY <1>20 DEF CompareRemote, askedVars, stageVars, slotVars, resultVars, userVars,
     resolutionVars, SetAside, Running, InHand, Unsent
<1>21. CASE FinalLook
  BY <1>21 DEF FinalLook, askedVars, stageVars, slotVars, resultVars, userVars, resolutionVars,
     SetAside, Running, InHand, Unsent
<1>22. CASE Settle
  BY <1>22 DEF Settle, askedVars, stageVars, slotVars, resultVars, userVars, resolutionVars,
     SetAside, Running, InHand, Unsent
<1>23. CASE \/ Apart /\ Place
            \/ \E p \in Paths : Apart /\ Keeps(p)
            \/ \E p \in Paths : Apart /\ Skips(p)
            \/ Apart /\ Judge
            \/ Apart /\ Restores
            \/ UNCHANGED wholeVars
  <2>1. UNCHANGED <<at, current, aside>>
    BY <1>23 DEF Place, Keeps, Skips, Judge, Restores, wholeVars, vars, slotVars
  <2> QED
    BY <2>1 DEF SetAside, Running
<1>24. CASE \/ \E p \in Paths : Apart /\ Stages(p)
            \/ Apart /\ FallBack
  BY <1>24, StagingGoesOn DEF SetAside, Running, TypeOK, TransportTypeOK
<1> QED
  BY <1>1, <1>2, <1>3, <1>4, <1>5, <1>6, <1>7, <1>8, <1>9, <1>10, <1>11, <1>12, <1>13, <1>14,
     <1>15, <1>16, <1>17, <1>18, <1>19, <1>20, <1>21, <1>22, <1>23, <1>24 DEF Step

-----------------------------------------------------------------------------
(* Versions.                                                               *)

\* Fresh in parts.
FreshTrees == \A s \in Sides, p \in Paths : tree[s][p].v <= 2 + edits
FreshLooks == \A s \in Sides, p \in Paths : before[s][p].v <= 2 + edits
FreshCopies == \A p \in Paths : stage[p].v <= 2 + edits /\ aside[p].v <= 2 + edits
FreshReferences == \A p \in Paths : reference[p].v <= 2 + edits

\* Together they are Fresh.
LEMMA FreshParts == Fresh <=> FreshTrees /\ FreshLooks /\ FreshCopies /\ FreshReferences
  BY DEF Fresh, FreshTrees, FreshLooks, FreshCopies, FreshReferences

\* A missing entry is not new.
LEMMA GoneIsOld ==
    ASSUME edits \in 0..MaxEdits
    PROVE  Gone.v <= 2 + edits /\ edits \in Nat
  BY EntryFacts, BoundsAssumption DEF BoundsAssumption

\* A user's step makes one newer version.
LEMMA UserAges ==
    ASSUME TypeOK, RestEdited, NEW e \in Entries
    PROVE  /\ e.v <= 2 + edits => e.v <= 2 + edits'
           /\ e.v = NewVersion => e.v <= 2 + edits'
           /\ e.v <= 2 + edits => e.v # NewVersion
<1>1. edits \in 0..MaxEdits /\ edits' = edits + 1
  BY DEF TypeOK, TransportTypeOK, RestEdited
<1>2. e.v \in Nat /\ edits \in Nat
  BY <1>1, EntryFacts, BoundsAssumption DEF BoundsAssumption
<1> QED
  BY <1>1, <1>2 DEF NewVersion

\* No entry of a tree is newer than the last edit.
LEMMA FreshTreesKept ==
    ASSUME TypeOK, InHand, SetAside, Fresh, Step
    PROVE  FreshTrees'
<1>a. /\ tree \in [Sides -> [Paths -> Entries]] /\ before \in [Sides -> [Paths -> Entries]]
      /\ stage \in [Paths -> Entries] /\ aside \in [Paths -> Entries]
      /\ edits \in 0..MaxEdits /\ Dest \in Sides /\ Source \in Sides /\ Sides = {Source, Dest}
  BY SideFacts DEF TypeOK, TransportTypeOK
<1>1. CASE Apart /\ User
  <2>1. RestEdited /\ TreesEdited
    BY <1>1, UserStep
  <2>2. ASSUME NEW s \in Sides, NEW q \in Paths
        PROVE  tree'[s][q].v <= 2 + edits'
    <3>1. tree[s][q] \in Entries /\ tree'[s][q] \in Entries /\ tree[s][q].v <= 2 + edits
      BY <1>a, <2>1 DEF TreesEdited, Fresh
    <3>2. tree'[s][q] \in {tree[s][q], Gone} \/ tree'[s][q].v = NewVersion
      BY <2>1 DEF TreesEdited
    <3> QED
      BY <1>a, <2>1, <3>1, <3>2, UserAges, EntryFacts, GoneIsOld
  <2> QED
    BY <2>2 DEF FreshTrees
<1>2. ASSUME NEW p \in Paths, Apart /\ Aside(p)
      PROVE  FreshTrees'
  <2>1. edits' = edits /\ FreshTrees /\ FreshCopies
    BY <1>2, FreshParts DEF Aside, userVars
  <2>2. tree[Dest] \in [Paths -> Entries] /\ \A q \in Paths : tree[Dest][q].v <= 2 + edits
    BY <1>a, <2>1 DEF FreshTrees
  <2>3. \A q \in Paths : WithParents(tree[Dest], p)[q].v <= 2 + edits
    <3>1. \A q \in Paths : \/ WithParents(tree[Dest], p)[q] = tree[Dest][q]
                           \/ WithParents(tree[Dest], p)[q].v = 2 + edits
      BY <1>a, <2>2, WithParentsFacts
    <3>2. edits \in Nat
      BY <1>a, GoneIsOld
    <3> QED
      BY <2>2, <3>1, <3>2
  <2>4. /\ tree'[Source] = tree[Source]
        /\ \A q \in Paths : tree'[Dest][q].v <= 2 + edits
    BY <1>a, <2>1, <2>3, <1>2, AsideStep, GoneIsOld DEF TreeBecomes, FreshCopies
  <2> QED
    BY <1>a, <2>1, <2>4 DEF FreshTrees
<1>3. CASE Apart /\ Place
  <2>1. edits' = edits /\ FreshTrees /\ FreshCopies
    BY <1>3, FreshParts DEF Place
  <2>2. /\ tree'[Source] = tree[Source]
        /\ \A q \in Paths : tree'[Dest][q].v <= 2 + edits
    BY <1>a, <2>1, <1>3, PlaceStep DEF TreeBecomes, FreshTrees, FreshCopies
  <2> QED
    BY <1>a, <2>1, <2>2 DEF FreshTrees
<1>4. CASE Apart /\ Reinstates
  <2>1. edits' = edits /\ FreshTrees /\ FreshCopies
    BY <1>4, FreshParts DEF Reinstates, userVars
  <2>2. /\ tree'[Source] = tree[Source]
        /\ \A q \in Paths : tree'[Dest][q].v <= 2 + edits
    BY <1>a, <2>1, <1>4, BackStep DEF TreeBecomes, FreshTrees, FreshCopies
  <2> QED
    BY <1>a, <2>1, <2>2 DEF FreshTrees
<1>5. ASSUME NEW p \in Paths, Apart /\ Keeps(p)
      PROVE  FreshTrees'
  <2>1. edits' = edits /\ FreshTrees /\ FreshCopies
    BY <1>5, FreshParts DEF Keeps, userVars
  <2>2. tree[Dest] \in [Paths -> Entries] /\ \A q \in Paths : tree[Dest][q].v <= 2 + edits
    BY <1>a, <2>1 DEF FreshTrees
  <2>3. \A q \in Paths : WithParents(tree[Dest], p)[q].v <= 2 + edits
    <3>1. \A q \in Paths : \/ WithParents(tree[Dest], p)[q] = tree[Dest][q]
                           \/ WithParents(tree[Dest], p)[q].v = 2 + edits
      BY <1>a, <2>2, WithParentsFacts
    <3>2. edits \in Nat
      BY <1>a, GoneIsOld
    <3> QED
      BY <2>2, <3>1, <3>2
  <2>4. /\ tree'[Source] = tree[Source]
        /\ \A q \in Paths : tree'[Dest][q].v <= 2 + edits
    BY <1>a, <2>1, <2>3, <1>5, KeepsStep, GoneIsOld DEF TreeBecomes, FreshCopies
  <2> QED
    BY <1>a, <2>1, <2>4 DEF FreshTrees
<1>6. ASSUME NEW p \in Paths, Apart /\ Takes(p)
      PROVE  FreshTrees'
  <2>1. edits' = edits /\ FreshTrees /\ FreshCopies
    BY <1>6, FreshParts DEF Takes, userVars
  <2>2. /\ tree'[Source] = tree[Source]
        /\ \A q \in Paths : tree'[Dest][q].v <= 2 + edits
    BY <1>a, <2>1, <1>6, TakesStep, GoneIsOld DEF TreeBecomes, FreshTrees, FreshCopies
  <2> QED
    BY <1>a, <2>1, <2>2 DEF FreshTrees
<1>7. CASE Apart /\ PutsBack
  <2>1. edits' = edits /\ FreshTrees /\ FreshCopies
    BY <1>7, FreshParts DEF PutsBack, userVars
  <2>2. /\ tree'[Source] = tree[Source]
        /\ \A q \in Paths : tree'[Dest][q].v <= 2 + edits
    BY <1>a, <2>1, <1>7, BackStep DEF TreeBecomes, FreshTrees, FreshCopies
  <2> QED
    BY <1>a, <2>1, <2>2 DEF FreshTrees
<1>8. CASE \/ Apart /\ Ceases
           \/ Apart /\ Orphans
           \/ Apart /\ LookLocal
           \/ Apart /\ Preflight
           \/ \E p \in Paths : Apart /\ Stages(p)
           \/ Apart /\ Ship
           \/ Apart /\ FallBack
           \/ Apart /\ Discard
           \/ Apart /\ LetsGo
           \/ Apart /\ LookAgain
           \/ Apart /\ Verify
           \/ Apart /\ BeginDelete
           \/ \E p \in Paths : Apart /\ Skips(p)
           \/ Apart /\ Judge
           \/ Apart /\ DeleteAway
           \/ Apart /\ DeleteFails
           \/ Apart /\ Restores
           \/ Apart /\ DeleteEnds
           \/ CompareLocal
           \/ CompareRemote
           \/ FinalLook
           \/ Settle
           \/ UNCHANGED wholeVars
  <2>1. UNCHANGED <<tree, edits>>
    BY <1>8 DEF Ceases, Orphans, LookLocal, Preflight, Stages, Ship, FallBack, Discard, LetsGo,
     LookAgain, Verify, BeginDelete, Skips, Judge, DeleteAway, DeleteFails, Restores, DeleteEnds,
     CompareLocal, CompareRemote, FinalLook, Settle, wholeVars, vars, userVars
  <2> QED
    BY <2>1 DEF FreshTrees, Fresh
<1> QED
  BY <1>1, <1>2, <1>3, <1>4, <1>5, <1>6, <1>7, <1>8 DEF Step

\* Nor is what the preflight saw.
LEMMA FreshLooksKept ==
    ASSUME TypeOK, InHand, SetAside, Fresh, Step
    PROVE  FreshLooks'
<1>a. /\ tree \in [Sides -> [Paths -> Entries]] /\ before \in [Sides -> [Paths -> Entries]]
      /\ stage \in [Paths -> Entries] /\ aside \in [Paths -> Entries]
      /\ edits \in 0..MaxEdits /\ Dest \in Sides /\ Source \in Sides /\ Sides = {Source, Dest}
  BY SideFacts DEF TypeOK, TransportTypeOK
<1>1. CASE Apart /\ User
  <2>1. RestEdited /\ before' = before
    BY <1>1, UserStep DEF RestEdited
  <2>2. ASSUME NEW s \in Sides, NEW q \in Paths
        PROVE  before'[s][q].v <= 2 + edits'
    <3>1. before[s][q] \in Entries /\ before[s][q].v <= 2 + edits
      BY <1>a DEF Fresh
    <3> QED
      BY <2>1, <3>1, UserAges
  <2> QED
    BY <2>2 DEF FreshLooks
<1>2. CASE Apart /\ LookLocal
  <2>1. before' = [before EXCEPT !["local"] = tree["local"]] /\ edits' = edits
    BY <1>2 DEF LookLocal
  <2> QED
    BY <1>a, <2>1 DEF Fresh, FreshLooks, Sides
<1>3. CASE Apart /\ Preflight
  <2>1. before' = [before EXCEPT !["remote"] = tree["remote"]] /\ edits' = edits
    BY <1>3 DEF Preflight
  <2> QED
    BY <1>a, <2>1 DEF Fresh, FreshLooks, Sides
<1>4. CASE \/ Apart /\ Ceases
           \/ Apart /\ Orphans
           \/ \E p \in Paths : Apart /\ Stages(p)
           \/ Apart /\ Ship
           \/ Apart /\ FallBack
           \/ \E p \in Paths : Apart /\ Aside(p)
           \/ Apart /\ Place
           \/ Apart /\ Discard
           \/ Apart /\ Reinstates
           \/ Apart /\ LetsGo
           \/ \E p \in Paths : Apart /\ Keeps(p)
           \/ Apart /\ LookAgain
           \/ Apart /\ Verify
           \/ Apart /\ BeginDelete
           \/ \E p \in Paths : Apart /\ Skips(p)
           \/ \E p \in Paths : Apart /\ Takes(p)
           \/ Apart /\ Judge
           \/ Apart /\ DeleteAway
           \/ Apart /\ DeleteFails
           \/ Apart /\ Restores
           \/ Apart /\ PutsBack
           \/ Apart /\ DeleteEnds
           \/ CompareLocal
           \/ CompareRemote
           \/ FinalLook
           \/ Settle
           \/ UNCHANGED wholeVars
  <2>1. UNCHANGED <<before, edits>>
    BY <1>4 DEF Ceases, Orphans, Stages, Ship, FallBack, Aside, Place, Discard, Reinstates,
     LetsGo, Keeps, LookAgain, Verify, BeginDelete, Skips, Takes, Judge, DeleteAway, DeleteFails,
     Restores, PutsBack, DeleteEnds, CompareLocal, CompareRemote, FinalLook, Settle, wholeVars,
     vars, userVars
  <2> QED
    BY <2>1 DEF FreshLooks, Fresh
<1> QED
  BY <1>1, <1>2, <1>3, <1>4 DEF Step

\* Nor what is staged or aside.
LEMMA FreshCopiesKept ==
    ASSUME TypeOK, InHand, SetAside, Fresh, Step
    PROVE  FreshCopies'
<1>a. /\ tree \in [Sides -> [Paths -> Entries]] /\ before \in [Sides -> [Paths -> Entries]]
      /\ stage \in [Paths -> Entries] /\ aside \in [Paths -> Entries]
      /\ edits \in 0..MaxEdits /\ Dest \in Sides /\ Source \in Sides /\ Sides = {Source, Dest}
  BY SideFacts DEF TypeOK, TransportTypeOK
<1>1. CASE Apart /\ User
  <2>1. RestEdited /\ StageEdited /\ AsideEdited
    BY <1>1, UserStep
  <2>2. ASSUME NEW q \in Paths
        PROVE  stage'[q].v <= 2 + edits' /\ aside'[q].v <= 2 + edits'
    <3>1. /\ stage[q] \in Entries /\ stage'[q] \in Entries /\ stage[q].v <= 2 + edits
          /\ aside[q] \in Entries /\ aside'[q] \in Entries /\ aside[q].v <= 2 + edits
      BY <1>a, <2>1 DEF StageEdited, AsideEdited, Fresh
    <3>2. stage'[q] = stage[q] \/ stage'[q].v = NewVersion
      BY <2>1 DEF StageEdited
    <3>3. aside'[q] = aside[q] \/ aside'[q] = Gone \/ aside'[q].v = NewVersion
      BY <2>1 DEF AsideEdited
    <3> QED
      BY <1>a, <2>1, <3>1, <3>2, <3>3, UserAges, EntryFacts, GoneIsOld
  <2> QED
    BY <2>2 DEF FreshCopies
<1>2. ASSUME NEW p \in Paths, Apart /\ Stages(p)
      PROVE  FreshCopies'
  <2>1. edits' = edits /\ aside' = aside /\ FreshCopies /\ FreshTrees
    BY <1>2, FreshParts DEF Stages, userVars, slotVars
  <2>2. \A q \in Paths : stage'[q] \in {stage[q], Gone, tree[Source][q]}
    BY <1>2, StagesStep
  <2> QED
    BY <1>a, <2>1, <2>2, GoneIsOld DEF FreshCopies, FreshTrees
<1>3. CASE Apart /\ FallBack
  <2>1. edits' = edits /\ aside' = aside /\ FreshCopies /\ stage' = Empty
    BY <1>3, FreshParts DEF FallBack, userVars, slotVars
  <2> QED
    BY <1>a, <2>1, GoneIsOld DEF FreshCopies, Empty
<1>4. ASSUME NEW p \in Paths, Apart /\ Aside(p)
      PROVE  FreshCopies'
  <2>1. edits' = edits /\ stage' = stage /\ FreshTrees /\ FreshCopies
    BY <1>4, FreshParts DEF Aside, userVars, stageVars
  <2>2. \A q \in Paths : aside'[q].v <= 2 + edits
    BY <1>a, <2>1, <1>4, AsideStep, GoneIsOld DEF FreshTrees
  <2> QED
    BY <2>1, <2>2 DEF FreshCopies
<1>5. CASE Apart /\ Discard
  <2>1. edits' = edits /\ stage' = stage /\ FreshCopies /\ aside' = Empty
    BY <1>5, FreshParts DEF Discard, userVars, stageVars
  <2> QED
    BY <1>a, <2>1, GoneIsOld DEF FreshCopies, Empty
<1>6. CASE Apart /\ Reinstates
  <2>1. edits' = edits /\ stage' = stage /\ FreshTrees /\ FreshCopies
    BY <1>6, FreshParts DEF Reinstates, userVars, stageVars
  <2>2. \A q \in Paths : aside'[q].v <= 2 + edits
    BY <1>a, <2>1, <1>6, BackStep, GoneIsOld DEF FreshTrees
  <2> QED
    BY <2>1, <2>2 DEF FreshCopies
<1>7. ASSUME NEW p \in Paths, Apart /\ Takes(p)
      PROVE  FreshCopies'
  <2>1. edits' = edits /\ stage' = stage /\ FreshTrees /\ FreshCopies
    BY <1>7, FreshParts DEF Takes, userVars, stageVars
  <2>2. \A q \in Paths : aside'[q].v <= 2 + edits
    BY <1>a, <2>1, <1>7, TakesStep, GoneIsOld DEF FreshTrees
  <2> QED
    BY <2>1, <2>2 DEF FreshCopies
<1>8. CASE Apart /\ DeleteAway
  <2>1. edits' = edits /\ stage' = stage /\ FreshCopies /\ aside' = Empty
    BY <1>8, FreshParts DEF DeleteAway, userVars, stageVars, Idle
  <2> QED
    BY <1>a, <2>1, GoneIsOld DEF FreshCopies, Empty
<1>9. CASE Apart /\ PutsBack
  <2>1. edits' = edits /\ stage' = stage /\ FreshTrees /\ FreshCopies
    BY <1>9, FreshParts DEF PutsBack, userVars, stageVars
  <2>2. \A q \in Paths : aside'[q].v <= 2 + edits
    BY <1>a, <2>1, <1>9, BackStep, GoneIsOld DEF FreshTrees
  <2> QED
    BY <2>1, <2>2 DEF FreshCopies
<1>10. CASE \/ Apart /\ Ceases
            \/ Apart /\ Orphans
            \/ Apart /\ LookLocal
            \/ Apart /\ Preflight
            \/ Apart /\ Ship
            \/ Apart /\ Place
            \/ Apart /\ LetsGo
            \/ \E p \in Paths : Apart /\ Keeps(p)
            \/ Apart /\ LookAgain
            \/ Apart /\ Verify
            \/ Apart /\ BeginDelete
            \/ \E p \in Paths : Apart /\ Skips(p)
            \/ Apart /\ Judge
            \/ Apart /\ DeleteFails
            \/ Apart /\ Restores
            \/ Apart /\ DeleteEnds
            \/ CompareLocal
            \/ CompareRemote
            \/ FinalLook
            \/ Settle
            \/ UNCHANGED wholeVars
  <2>1. UNCHANGED <<stage, aside, edits>>
    BY <1>10 DEF Ceases, Orphans, LookLocal, Preflight, Ship, Place, LetsGo, Keeps, LookAgain,
     Verify, BeginDelete, Skips, Judge, DeleteFails, Restores, DeleteEnds, CompareLocal,
     CompareRemote, FinalLook, Settle, wholeVars, vars, stageVars, slotVars, userVars
  <2> QED
    BY <2>1 DEF FreshCopies, Fresh
<1> QED
  BY <1>1, <1>2, <1>3, <1>4, <1>5, <1>6, <1>7, <1>8, <1>9, <1>10 DEF Step

\* Nor is what sources are compared with.
LEMMA FreshReferencesKept ==
    ASSUME TypeOK, InHand, SetAside, Fresh, Step
    PROVE  FreshReferences'
<1>a. /\ tree[Source] \in [Paths -> Entries] /\ reference \in [Paths -> Entries]
      /\ edits \in 0..MaxEdits /\ Source \in Sides
  BY SideFacts DEF TypeOK, TransportTypeOK
<1>1. CASE Apart /\ User
  <2>1. RestEdited /\ reference' = reference
    BY <1>1, UserStep DEF RestEdited
  <2>2. ASSUME NEW q \in Paths
        PROVE  reference'[q].v <= 2 + edits'
    <3>1. reference[q] \in Entries /\ reference[q].v <= 2 + edits
      BY <1>a DEF Fresh
    <3> QED
      BY <2>1, <3>1, UserAges
  <2> QED
    BY <2>2 DEF FreshReferences
<1>2. ASSUME NEW p \in Paths, Apart /\ Stages(p)
      PROVE  FreshReferences'
  <2>1. edits' = edits /\ FreshReferences /\ FreshTrees
    BY <1>2, FreshParts DEF Stages, userVars
  <2>2. \A q \in Paths : reference'[q] \in {reference[q], Gone, tree[Source][q]}
    BY <1>2, StagesStep
  <2> QED
    BY <1>a, <2>1, <2>2, GoneIsOld DEF FreshReferences, FreshTrees
<1>3. CASE Apart /\ FallBack
  <2>1. edits' = edits /\ reference' = Empty
    BY <1>3 DEF FallBack, userVars
  <2> QED
    BY <1>a, <2>1, GoneIsOld DEF FreshReferences, Empty
<1>4. CASE \/ Apart /\ Ceases
           \/ Apart /\ Orphans
           \/ Apart /\ LookLocal
           \/ Apart /\ Preflight
           \/ Apart /\ Ship
           \/ \E p \in Paths : Apart /\ Aside(p)
           \/ Apart /\ Place
           \/ Apart /\ Discard
           \/ Apart /\ Reinstates
           \/ Apart /\ LetsGo
           \/ \E p \in Paths : Apart /\ Keeps(p)
           \/ Apart /\ LookAgain
           \/ Apart /\ Verify
           \/ Apart /\ BeginDelete
           \/ \E p \in Paths : Apart /\ Skips(p)
           \/ \E p \in Paths : Apart /\ Takes(p)
           \/ Apart /\ Judge
           \/ Apart /\ DeleteAway
           \/ Apart /\ DeleteFails
           \/ Apart /\ Restores
           \/ Apart /\ PutsBack
           \/ Apart /\ DeleteEnds
           \/ CompareLocal
           \/ CompareRemote
           \/ FinalLook
           \/ Settle
           \/ UNCHANGED wholeVars
  <2>1. UNCHANGED <<reference, edits>>
    BY <1>4 DEF Ceases, Orphans, LookLocal, Preflight, Ship, Aside, Place, Discard, Reinstates, LetsGo, Keeps,
     LookAgain, Verify, BeginDelete, Skips, Takes, Judge, DeleteAway, DeleteFails, Restores, PutsBack,
     DeleteEnds, CompareLocal, CompareRemote, FinalLook, Settle, wholeVars, vars, stageVars, userVars
  <2> QED
    BY <2>1 DEF FreshReferences, Fresh
<1> QED
  BY <1>1, <1>2, <1>3, <1>4 DEF Step

\* No entry anywhere is newer than the last edit.
LEMMA FreshKept ==
    ASSUME TypeOK, InHand, SetAside, Fresh, Step
    PROVE  Fresh'
  BY FreshTreesKept, FreshLooksKept, FreshCopiesKept, FreshReferencesKept
     DEF Fresh, FreshTrees, FreshLooks, FreshCopies, FreshReferences

-----------------------------------------------------------------------------
(* Requests.                                                               *)

\* Requested in parts.
AskedThere ==
    /\ asked # "plain" => job.batch = {Subject} /\ job.hashed
    /\ asked = "plain" => at \notin {"asked", "compared", "counted", "settled"}
    /\ asked = "fetch" => ~job.push /\ record["remote"].kind = "file"
                       /\ (at # "settled" => base = record["remote"])
ExpectedThere ==
    /\ Planned /\ job.kind = "transfer" => \A p \in job.batch : expect[Source][p] # Gone
    /\ Planned /\ asked # "plain" =>
            /\ expect[Source][Subject].kind = Chosen.kind /\ expect[Source][Subject].v = Chosen.v
            /\ job.kind = "delete" <=> Chosen.kind = "missing"
AgreedThere ==
    Planned /\ at \notin {"ready", "looked"} /\ job.kind = "transfer" =>
        \A p \in job.batch, s \in Sides : Agrees(expect[s][p], before[s][p])
SettledThere ==
    /\ at \in {"counted", "settled"} => reported = job.batch
    /\ at = "settled" => base = tree[Dest][Subject] /\ (job.kind = "delete" <=> base = Gone)

\* What was asked stays what it is until it is settled.
LEMMA AskedThereKept ==
    ASSUME TypeOK, InHand, Kinds, SetAside, Requested, Step
    PROVE  AskedThere'
<1>a. /\ job \in Jobs /\ job'.push = job.push /\ job'.batch = job.batch /\ job'.hashed = job.hashed
      /\ Source' = Source /\ Dest' = Dest /\ Subject' = Subject
  BY SidesStay DEF TypeOK, TransportTypeOK
<1>1. CASE Apart /\ Ceases
  BY <1>a, <1>1 DEF Ceases, Apart, askedVars, stageVars, slotVars, resultVars, userVars,
     resolutionVars, Requested, AskedThere, Kinds, Running
<1>2. CASE Apart /\ Orphans
  BY <1>a, <1>2 DEF Orphans, Apart, askedVars, stageVars, slotVars, resultVars, userVars,
     resolutionVars, Requested, AskedThere, Kinds, Running
<1>3. CASE Apart /\ LookLocal
  BY <1>a, <1>3 DEF LookLocal, Apart, askedVars, stageVars, slotVars, resultVars, userVars,
     resolutionVars, Requested, AskedThere, Kinds, Running
<1>4. CASE Apart /\ Preflight
  BY <1>a, <1>4 DEF Preflight, Apart, askedVars, stageVars, slotVars, resultVars, userVars,
     resolutionVars, Requested, AskedThere, Kinds, Running
<1>5. CASE Apart /\ Ship
  BY <1>a, <1>5 DEF Ship, Staging, Apart, askedVars, stageVars, slotVars, resultVars, userVars,
     resolutionVars, Requested, AskedThere, Kinds, Running
<1>6. CASE \/ \E p \in Paths : Apart /\ Stages(p)
           \/ Apart /\ FallBack
  BY <1>6, StagingGoesOn DEF Requested, AskedThere, TypeOK, TransportTypeOK
<1>7. CASE Apart /\ Reinstates
  BY <1>a, <1>7 DEF Reinstates, Installing, Apart, askedVars, stageVars, slotVars, resultVars,
     userVars, resolutionVars, Requested, AskedThere, Kinds, Running
<1>8. CASE Apart /\ LetsGo
  BY <1>a, <1>8 DEF LetsGo, Apart, askedVars, stageVars, slotVars, resultVars, userVars,
     resolutionVars, Requested, AskedThere, Kinds, Running
<1>9. CASE Apart /\ LookAgain
  BY <1>a, <1>9 DEF LookAgain, Apart, askedVars, stageVars, slotVars, resultVars, userVars,
     resolutionVars, Requested, AskedThere, Kinds, Running
<1>10. CASE Apart /\ Verify
  BY <1>a, <1>10 DEF Verify, Apart, askedVars, stageVars, slotVars, resultVars, userVars,
     resolutionVars, Requested, AskedThere, Kinds, Running
<1>11. CASE Apart /\ BeginDelete
  BY <1>a, <1>11 DEF BeginDelete, Apart, askedVars, stageVars, slotVars, resultVars, userVars,
     resolutionVars, Requested, AskedThere, Kinds, Running
<1>12. CASE Apart /\ DeleteFails
  BY <1>a, <1>12 DEF DeleteFails, Deleting, Apart, askedVars, stageVars, slotVars, resultVars,
     userVars, resolutionVars, Requested, AskedThere, Kinds, Running
<1>13. CASE Apart /\ PutsBack
  BY <1>a, <1>13 DEF PutsBack, Deleting, Idle, Apart, askedVars, stageVars, slotVars, resultVars,
     userVars, resolutionVars, Requested, AskedThere, Kinds, Running
<1>14. CASE Apart /\ DeleteEnds
  BY <1>a, <1>14 DEF DeleteEnds, Apart, askedVars, stageVars, slotVars, resultVars, userVars,
     resolutionVars, Requested, AskedThere, Kinds, Running
<1>15. CASE CompareLocal
  BY <1>a, <1>15 DEF CompareLocal, askedVars, stageVars, slotVars, resultVars, userVars,
     resolutionVars, Requested, AskedThere, Kinds, Running
<1>16. CASE CompareRemote
  BY <1>a, <1>16 DEF CompareRemote, askedVars, stageVars, slotVars, resultVars, userVars,
     resolutionVars, Requested, AskedThere, Kinds, Running
<1>17. CASE FinalLook
  BY <1>a, <1>17 DEF FinalLook, askedVars, stageVars, slotVars, resultVars, userVars,
     resolutionVars, Requested, AskedThere, Kinds, Running
<1>18. CASE Settle
  BY <1>a, <1>18 DEF Settle, askedVars, stageVars, slotVars, resultVars, userVars,
     resolutionVars, Requested, AskedThere, Kinds, Running
<1>19. CASE \/ Apart /\ User
            \/ \E p \in Paths : Apart /\ Aside(p)
            \/ Apart /\ Place
            \/ Apart /\ Discard
            \/ \E p \in Paths : Apart /\ Keeps(p)
            \/ \E p \in Paths : Apart /\ Skips(p)
            \/ \E p \in Paths : Apart /\ Takes(p)
            \/ Apart /\ Judge
            \/ Apart /\ DeleteAway
            \/ Apart /\ Restores
            \/ UNCHANGED wholeVars
  <2>1. UNCHANGED <<job, at, asked, record, base>>
    BY <1>19 DEF User, Aside, Place, Discard, Keeps, Skips, Takes, Judge, DeleteAway,
     Restores, wholeVars, vars, Apart, askedVars, resolutionVars
  <2> QED
    BY <2>1 DEF AskedThere, Requested, Subject
<1> QED
  BY <1>1, <1>2, <1>3, <1>4, <1>5, <1>6, <1>7, <1>8, <1>9, <1>10, <1>11, <1>12, <1>13, <1>14,
     <1>15, <1>16, <1>17, <1>18, <1>19 DEF Step

\* What is expected of the source is what the owner chose.
LEMMA ExpectedThereKept ==
    ASSUME TypeOK, InHand, Kinds, SetAside, Requested, Step
    PROVE  ExpectedThere'
<1>a. /\ job \in Jobs /\ job'.push = job.push /\ job'.batch = job.batch /\ job'.hashed = job.hashed
      /\ Source' = Source /\ Dest' = Dest /\ Subject' = Subject
  BY SidesStay DEF TypeOK, TransportTypeOK
<1>1. CASE Apart /\ Ceases
  BY <1>a, <1>1 DEF Ceases, Apart, askedVars, stageVars, slotVars, resultVars, userVars,
     resolutionVars, Requested, ExpectedThere, Planned, Chosen, Kinds
<1>2. CASE Apart /\ Orphans
  BY <1>a, <1>2 DEF Orphans, Apart, askedVars, stageVars, slotVars, resultVars, userVars,
     resolutionVars, Requested, ExpectedThere, Planned, Chosen, Kinds
<1>3. CASE Apart /\ LookLocal
  BY <1>a, <1>3 DEF LookLocal, Apart, askedVars, stageVars, slotVars, resultVars, userVars,
     resolutionVars, Requested, ExpectedThere, Planned, Chosen, Kinds
<1>4. CASE Apart /\ Preflight
  BY <1>a, <1>4 DEF Preflight, Apart, askedVars, stageVars, slotVars, resultVars, userVars,
     resolutionVars, Requested, ExpectedThere, Planned, Chosen, Kinds
<1>5. CASE Apart /\ Ship
  BY <1>a, <1>5 DEF Ship, Staging, Apart, askedVars, stageVars, slotVars, resultVars, userVars,
     resolutionVars, Requested, ExpectedThere, Planned, Chosen, Kinds
<1>6. CASE \/ \E p \in Paths : Apart /\ Stages(p)
           \/ Apart /\ FallBack
  BY <1>6, StagingGoesOn DEF Requested, ExpectedThere, Planned, Chosen, TypeOK, TransportTypeOK
<1>7. CASE Apart /\ Reinstates
  BY <1>a, <1>7 DEF Reinstates, Installing, Apart, askedVars, stageVars, slotVars, resultVars,
     userVars, resolutionVars, Requested, ExpectedThere, Planned, Chosen, Kinds
<1>8. CASE Apart /\ LetsGo
  BY <1>a, <1>8 DEF LetsGo, Apart, askedVars, stageVars, slotVars, resultVars, userVars,
     resolutionVars, Requested, ExpectedThere, Planned, Chosen, Kinds
<1>9. CASE Apart /\ LookAgain
  BY <1>a, <1>9 DEF LookAgain, Apart, askedVars, stageVars, slotVars, resultVars, userVars,
     resolutionVars, Requested, ExpectedThere, Planned, Chosen, Kinds
<1>10. CASE Apart /\ Verify
  BY <1>a, <1>10 DEF Verify, Apart, askedVars, stageVars, slotVars, resultVars, userVars,
     resolutionVars, Requested, ExpectedThere, Planned, Chosen, Kinds
<1>11. CASE Apart /\ BeginDelete
  BY <1>a, <1>11 DEF BeginDelete, Apart, askedVars, stageVars, slotVars, resultVars, userVars,
     resolutionVars, Requested, ExpectedThere, Planned, Chosen, Kinds
<1>12. CASE Apart /\ DeleteFails
  BY <1>a, <1>12 DEF DeleteFails, Deleting, Apart, askedVars, stageVars, slotVars, resultVars,
     userVars, resolutionVars, Requested, ExpectedThere, Planned, Chosen, Kinds
<1>13. CASE Apart /\ PutsBack
  BY <1>a, <1>13 DEF PutsBack, Deleting, Idle, Apart, askedVars, stageVars, slotVars, resultVars,
     userVars, resolutionVars, Requested, ExpectedThere, Planned, Chosen, Kinds
<1>14. CASE Apart /\ DeleteEnds
  BY <1>a, <1>14 DEF DeleteEnds, Apart, askedVars, stageVars, slotVars, resultVars, userVars,
     resolutionVars, Requested, ExpectedThere, Planned, Chosen, Kinds
<1>15. CASE CompareLocal
  BY <1>a, <1>15 DEF CompareLocal, askedVars, stageVars, slotVars, resultVars, userVars,
     resolutionVars, Requested, ExpectedThere, Planned, Chosen, Kinds
<1>16. CASE CompareRemote
  <2> DEFINE got == expect'[Source][Subject]
  <2>3. /\ at = "compared" /\ asked' = asked /\ record' = record
        /\ expect' = [expect EXCEPT !["remote"] = tree["remote"]]
    BY <1>16 DEF CompareRemote, resolutionVars
  <2>4. \/ /\ at' = "ready" /\ job' = [job EXCEPT !.kind = IF got = Gone THEN "delete" ELSE "transfer"]
           /\ IF asked = "resolve" THEN got = Chosen ELSE got.kind = "file" /\ got.v = base.v
        \/ at' = "refused"
    BY <1>16, <2>3 DEF CompareRemote
  <2>5. /\ asked \in {"plain", "resolve", "fetch"} /\ Source \in Sides /\ Subject \in Paths
        /\ expect' \in [Sides -> [Paths -> Entries]]
    <3>1. expect \in [Sides -> [Paths -> Entries]] /\ tree \in [Sides -> [Paths -> Entries]]
      BY DEF TypeOK, TransportTypeOK
    <3> QED
      BY <1>a, <2>3, <3>1, SideFacts, SubjectFact DEF TypeOK, Sides
  <2>6. got \in Entries
    BY <2>5
  <2>7. /\ asked # "plain" /\ job.batch = {Subject}
        /\ asked = "fetch" => ~job.push /\ base = record["remote"] /\ record["remote"].kind = "file"
    BY <2>3 DEF Requested
  <2>8. CASE at' = "refused"
    BY <2>8 DEF ExpectedThere, Planned
  <2>9. CASE at' # "refused"
    <3>1. got.kind = Chosen.kind /\ got.v = Chosen.v
      <4>1. CASE asked = "resolve"
        BY <2>4, <2>9, <4>1
      <4>2. CASE asked = "fetch"
        BY <2>4, <2>7, <2>9, <4>2 DEF Chosen, Source
      <4> QED
        BY <2>5, <2>7, <4>1, <4>2
    <3>2. job'.kind = "delete" <=> got = Gone
      BY <1>a, <2>4, <2>9 DEF Jobs
    <3>2a. job'.kind = "transfer" <=> got # Gone
      BY <1>a, <2>4, <2>9 DEF Jobs
    <3>3. Chosen' = Chosen
      BY <1>a, <2>3 DEF Chosen
    <3>4. got.kind = "missing" <=> got = Gone
      BY <2>6, EntryFacts
    <3>5. job'.kind = "transfer" => \A p \in job'.batch : expect'[Source][p] # Gone
      BY <1>a, <2>7, <3>2a
    <3>6. job'.kind = "delete" <=> Chosen.kind = "missing"
      BY <3>1, <3>2, <3>4
    <3> QED
      BY <1>a, <3>1, <3>3, <3>5, <3>6 DEF ExpectedThere
  <2> QED
    BY <2>8, <2>9
<1>17. CASE FinalLook
  BY <1>a, <1>17 DEF FinalLook, askedVars, stageVars, slotVars, resultVars, userVars,
     resolutionVars, Requested, ExpectedThere, Planned, Chosen, Kinds
<1>18. CASE Settle
  BY <1>a, <1>18 DEF Settle, askedVars, stageVars, slotVars, resultVars, userVars,
     resolutionVars, Requested, ExpectedThere, Planned, Chosen, Kinds
<1>19. CASE \/ Apart /\ User
            \/ \E p \in Paths : Apart /\ Aside(p)
            \/ Apart /\ Place
            \/ Apart /\ Discard
            \/ \E p \in Paths : Apart /\ Keeps(p)
            \/ \E p \in Paths : Apart /\ Skips(p)
            \/ \E p \in Paths : Apart /\ Takes(p)
            \/ Apart /\ Judge
            \/ Apart /\ DeleteAway
            \/ Apart /\ Restores
            \/ UNCHANGED wholeVars
  <2>1. UNCHANGED <<job, at, expect, asked, record>>
    BY <1>19 DEF User, Aside, Place, Discard, Keeps, Skips, Takes, Judge, DeleteAway,
     Restores, wholeVars, vars, Apart, askedVars, resolutionVars
  <2> QED
    BY <2>1 DEF ExpectedThere, Requested, Planned, Chosen, Source, Subject
<1> QED
  BY <1>1, <1>2, <1>3, <1>4, <1>5, <1>6, <1>7, <1>8, <1>9, <1>10, <1>11, <1>12, <1>13, <1>14,
     <1>15, <1>16, <1>17, <1>18, <1>19 DEF Step

\* What the preflight let through agrees with what was expected.
LEMMA AgreedThereKept ==
    ASSUME TypeOK, InHand, Kinds, SetAside, Requested, Step
    PROVE  AgreedThere'
<1>a. /\ job \in Jobs /\ job'.push = job.push /\ job'.batch = job.batch /\ job'.hashed = job.hashed
      /\ Source' = Source /\ Dest' = Dest /\ Subject' = Subject
  BY SidesStay DEF TypeOK, TransportTypeOK
<1>1. CASE Apart /\ Ceases
  BY <1>a, <1>1 DEF Ceases, Apart, askedVars, stageVars, slotVars, resultVars, userVars,
     resolutionVars, Requested, AgreedThere, Planned, Agrees, Kinds
<1>2. CASE Apart /\ Orphans
  BY <1>a, <1>2 DEF Orphans, Apart, askedVars, stageVars, slotVars, resultVars, userVars,
     resolutionVars, Requested, AgreedThere, Planned, Agrees, Kinds
<1>3. CASE Apart /\ LookLocal
  BY <1>a, <1>3 DEF LookLocal, Apart, askedVars, stageVars, slotVars, resultVars, userVars,
     resolutionVars, Requested, AgreedThere, Planned, Agrees, Kinds
<1>4. CASE Apart /\ Preflight
  BY <1>a, <1>4 DEF Preflight, Apart, askedVars, stageVars, slotVars, resultVars, userVars,
     resolutionVars, Requested, AgreedThere, Planned, Agrees, Kinds
<1>5. CASE Apart /\ Ship
  BY <1>a, <1>5 DEF Ship, Staging, Apart, askedVars, stageVars, slotVars, resultVars, userVars,
     resolutionVars, Requested, AgreedThere, Planned, Agrees, Kinds
<1>6. CASE \/ \E p \in Paths : Apart /\ Stages(p)
           \/ Apart /\ FallBack
  <2>1. /\ at \in {"staging", "copying"} /\ UNCHANGED <<expect, before>>
        /\ job'.kind = job.kind /\ job'.batch = job.batch /\ job'.hashed = job.hashed
    BY <1>6, StagingGoesOn DEF TypeOK, TransportTypeOK
  <2> QED
    BY <2>1 DEF Requested, AgreedThere, Planned, Agrees
<1>7. CASE Apart /\ Reinstates
  BY <1>a, <1>7 DEF Reinstates, Installing, Apart, askedVars, stageVars, slotVars, resultVars,
     userVars, resolutionVars, Requested, AgreedThere, Planned, Agrees, Kinds
<1>8. CASE Apart /\ LetsGo
  BY <1>a, <1>8 DEF LetsGo, Apart, askedVars, stageVars, slotVars, resultVars, userVars,
     resolutionVars, Requested, AgreedThere, Planned, Agrees, Kinds
<1>9. CASE Apart /\ LookAgain
  BY <1>a, <1>9 DEF LookAgain, Apart, askedVars, stageVars, slotVars, resultVars, userVars,
     resolutionVars, Requested, AgreedThere, Planned, Agrees, Kinds
<1>10. CASE Apart /\ Verify
  BY <1>a, <1>10 DEF Verify, Apart, askedVars, stageVars, slotVars, resultVars, userVars,
     resolutionVars, Requested, AgreedThere, Planned, Agrees, Kinds
<1>11. CASE Apart /\ BeginDelete
  BY <1>a, <1>11 DEF BeginDelete, Apart, askedVars, stageVars, slotVars, resultVars, userVars,
     resolutionVars, Requested, AgreedThere, Planned, Agrees, Kinds
<1>12. CASE Apart /\ DeleteFails
  BY <1>a, <1>12 DEF DeleteFails, Deleting, Apart, askedVars, stageVars, slotVars, resultVars,
     userVars, resolutionVars, Requested, AgreedThere, Planned, Agrees, Kinds
<1>13. CASE Apart /\ PutsBack
  BY <1>a, <1>13 DEF PutsBack, Deleting, Idle, Apart, askedVars, stageVars, slotVars, resultVars,
     userVars, resolutionVars, Requested, AgreedThere, Planned, Agrees, Kinds
<1>14. CASE Apart /\ DeleteEnds
  BY <1>a, <1>14 DEF DeleteEnds, Apart, askedVars, stageVars, slotVars, resultVars, userVars,
     resolutionVars, Requested, AgreedThere, Planned, Agrees, Kinds
<1>15. CASE CompareLocal
  BY <1>a, <1>15 DEF CompareLocal, askedVars, stageVars, slotVars, resultVars, userVars,
     resolutionVars, Requested, AgreedThere, Planned, Agrees, Kinds
<1>16. CASE CompareRemote
  BY <1>a, <1>16 DEF CompareRemote, askedVars, stageVars, slotVars, resultVars, userVars,
     resolutionVars, Requested, AgreedThere, Planned, Agrees, Kinds
<1>17. CASE FinalLook
  BY <1>a, <1>17 DEF FinalLook, askedVars, stageVars, slotVars, resultVars, userVars,
     resolutionVars, Requested, AgreedThere, Planned, Agrees, Kinds
<1>18. CASE Settle
  BY <1>a, <1>18 DEF Settle, askedVars, stageVars, slotVars, resultVars, userVars,
     resolutionVars, Requested, AgreedThere, Planned, Agrees, Kinds
<1>19. CASE \/ Apart /\ User
            \/ \E p \in Paths : Apart /\ Aside(p)
            \/ Apart /\ Place
            \/ Apart /\ Discard
            \/ \E p \in Paths : Apart /\ Keeps(p)
            \/ \E p \in Paths : Apart /\ Skips(p)
            \/ \E p \in Paths : Apart /\ Takes(p)
            \/ Apart /\ Judge
            \/ Apart /\ DeleteAway
            \/ Apart /\ Restores
            \/ UNCHANGED wholeVars
  <2>1. UNCHANGED <<job, at, expect, before>>
    BY <1>19 DEF User, Aside, Place, Discard, Keeps, Skips, Takes, Judge, DeleteAway,
     Restores, wholeVars, vars, askedVars
  <2> QED
    BY <2>1 DEF AgreedThere, Requested, Planned, Agrees
<1> QED
  BY <1>1, <1>2, <1>3, <1>4, <1>5, <1>6, <1>7, <1>8, <1>9, <1>10, <1>11, <1>12, <1>13, <1>14,
     <1>15, <1>16, <1>17, <1>18, <1>19 DEF Step

\* What is settled was reported and looked at.
LEMMA SettledThereKept ==
    ASSUME TypeOK, InHand, Kinds, SetAside, Requested, Step
    PROVE  SettledThere'
<1>a. /\ job \in Jobs /\ job'.push = job.push /\ job'.batch = job.batch /\ job'.hashed = job.hashed
      /\ Source' = Source /\ Dest' = Dest /\ Subject' = Subject
  BY SidesStay DEF TypeOK, TransportTypeOK
<1>1. CASE Apart /\ User
  <2>1. UNCHANGED <<job, expect, at, before, reported>> /\ UNCHANGED <<asked, record, base>> /\ Running
    BY <1>1, UserStep DEF RestEdited, Apart, resolutionVars
  <2> QED
    BY <1>a, <2>1 DEF Requested, SettledThere, Running, Kinds
<1>2. CASE Apart /\ Ceases
  BY <1>a, <1>2 DEF Ceases, Apart, askedVars, stageVars, slotVars, resultVars, userVars,
     resolutionVars, Requested, SettledThere, Kinds
<1>3. CASE Apart /\ Orphans
  BY <1>a, <1>3 DEF Orphans, Apart, askedVars, stageVars, slotVars, resultVars, userVars,
     resolutionVars, Requested, SettledThere, Kinds
<1>4. CASE Apart /\ LookLocal
  BY <1>a, <1>4 DEF LookLocal, Apart, askedVars, stageVars, slotVars, resultVars, userVars,
     resolutionVars, Requested, SettledThere, Kinds
<1>5. CASE Apart /\ Preflight
  BY <1>a, <1>5 DEF Preflight, Apart, askedVars, stageVars, slotVars, resultVars, userVars,
     resolutionVars, Requested, SettledThere, Kinds
<1>6. CASE Apart /\ Ship
  BY <1>a, <1>6 DEF Ship, Staging, Apart, askedVars, stageVars, slotVars, resultVars, userVars,
     resolutionVars, Requested, SettledThere, Kinds
<1>7. CASE \/ \E p \in Paths : Apart /\ Stages(p)
           \/ Apart /\ FallBack
  BY <1>7, StagingGoesOn DEF SettledThere, TypeOK, TransportTypeOK
<1>8. ASSUME NEW p \in Paths, Apart /\ Aside(p)
      PROVE  SettledThere'
  BY <1>a, <1>8 DEF Aside, Installing, Apart, askedVars, stageVars, slotVars, resultVars,
     userVars, resolutionVars, Requested, SettledThere, Kinds
<1>9. CASE Apart /\ Place
  BY <1>a, <1>9 DEF Place, Installing, Apart, askedVars, stageVars, slotVars, resultVars,
     userVars, resolutionVars, Requested, SettledThere, Kinds
<1>10. CASE Apart /\ Reinstates
  BY <1>a, <1>10 DEF Reinstates, Installing, Apart, askedVars, stageVars, slotVars, resultVars,
     userVars, resolutionVars, Requested, SettledThere, Kinds
<1>11. CASE Apart /\ LetsGo
  BY <1>a, <1>11 DEF LetsGo, Apart, askedVars, stageVars, slotVars, resultVars, userVars,
     resolutionVars, Requested, SettledThere, Kinds
<1>12. ASSUME NEW p \in Paths, Apart /\ Keeps(p)
      PROVE  SettledThere'
  BY <1>a, <1>12 DEF Keeps, Apart, askedVars, stageVars, slotVars, resultVars, userVars,
     resolutionVars, Requested, SettledThere, Kinds
<1>13. CASE Apart /\ LookAgain
  BY <1>a, <1>13 DEF LookAgain, Apart, askedVars, stageVars, slotVars, resultVars, userVars,
     resolutionVars, Requested, SettledThere, Kinds
<1>14. CASE Apart /\ Verify
  BY <1>a, <1>14 DEF Verify, Apart, askedVars, stageVars, slotVars, resultVars, userVars,
     resolutionVars, Requested, SettledThere, Kinds
<1>15. CASE Apart /\ BeginDelete
  BY <1>a, <1>15 DEF BeginDelete, Apart, askedVars, stageVars, slotVars, resultVars, userVars,
     resolutionVars, Requested, SettledThere, Kinds
<1>16. ASSUME NEW p \in Paths, Apart /\ Skips(p)
      PROVE  SettledThere'
  BY <1>a, <1>16 DEF Skips, Deleting, Apart, askedVars, stageVars, slotVars, resultVars,
     userVars, resolutionVars, Requested, SettledThere, Kinds
<1>17. ASSUME NEW p \in Paths, Apart /\ Takes(p)
      PROVE  SettledThere'
  BY <1>a, <1>17 DEF Takes, Deleting, Apart, askedVars, stageVars, slotVars, resultVars,
     userVars, resolutionVars, Requested, SettledThere, Kinds
<1>18. CASE Apart /\ DeleteAway
  BY <1>a, <1>18 DEF DeleteAway, Deleting, Idle, Apart, askedVars, stageVars, slotVars,
     resultVars, userVars, resolutionVars, Requested, SettledThere, Kinds
<1>19. CASE Apart /\ DeleteFails
  BY <1>a, <1>19 DEF DeleteFails, Deleting, Apart, askedVars, stageVars, slotVars, resultVars,
     userVars, resolutionVars, Requested, SettledThere, Kinds
<1>20. CASE Apart /\ PutsBack
  BY <1>a, <1>20 DEF PutsBack, Deleting, Idle, Apart, askedVars, stageVars, slotVars, resultVars,
     userVars, resolutionVars, Requested, SettledThere, Kinds
<1>21. CASE Apart /\ DeleteEnds
  BY <1>a, <1>21 DEF DeleteEnds, Apart, askedVars, stageVars, slotVars, resultVars, userVars,
     resolutionVars, Requested, SettledThere, Kinds
<1>22. CASE CompareLocal
  BY <1>a, <1>22 DEF CompareLocal, askedVars, stageVars, slotVars, resultVars, userVars,
     resolutionVars, Requested, SettledThere, Kinds
<1>23. CASE CompareRemote
  BY <1>a, <1>23 DEF CompareRemote, askedVars, stageVars, slotVars, resultVars, userVars,
     resolutionVars, Requested, SettledThere, Kinds
<1>24. CASE FinalLook
  BY <1>a, <1>24 DEF FinalLook, askedVars, stageVars, slotVars, resultVars, userVars,
     resolutionVars, Requested, SettledThere, Kinds
<1>25. CASE Settle
  BY <1>a, <1>25 DEF Settle, askedVars, stageVars, slotVars, resultVars, userVars,
     resolutionVars, Requested, SettledThere, Kinds
<1>26. CASE \/ Apart /\ Discard
            \/ Apart /\ Judge
            \/ Apart /\ Restores
            \/ UNCHANGED wholeVars
  <2>1. UNCHANGED <<job, at, tree, reported, base>>
    BY <1>26 DEF Discard, Judge, Restores, wholeVars, vars, Apart, askedVars, resultVars,
     resolutionVars
  <2> QED
    BY <2>1 DEF SettledThere, Requested, Dest, Subject
<1> QED
  BY <1>1, <1>2, <1>3, <1>4, <1>5, <1>6, <1>7, <1>8, <1>9, <1>10, <1>11, <1>12, <1>13, <1>14,
     <1>15, <1>16, <1>17, <1>18, <1>19, <1>20, <1>21, <1>22, <1>23, <1>24, <1>25, <1>26 DEF Step

\* What was asked, expected, let through and settled fits together.
LEMMA RequestedKept ==
    ASSUME TypeOK, InHand, Kinds, SetAside, Requested, Step
    PROVE  Requested'
  BY AskedThereKept, ExpectedThereKept, AgreedThereKept, SettledThereKept
     DEF Requested, AskedThere, ExpectedThere, AgreedThere, SettledThere

-----------------------------------------------------------------------------
(* What is sent and what is installed.                                     *)

\* What is sent was there at the preflight.
LEMMA SourceThere ==
    ASSUME TypeOK, Requested, job.kind = "transfer", NEW p \in job.batch,
           at \in {"staging", "copying", "installing", "orphaned", "verifying"}
    PROVE  before[Source][p] # Gone
<1>1. job \in Jobs /\ Source \in Sides
  BY SideFacts DEF TypeOK, TransportTypeOK
<1>2. expect[Source][p] # Gone /\ Agrees(expect[Source][p], before[Source][p])
  BY <1>1 DEF Requested, Planned
<1> QED
  BY <1>2, EntryFacts DEF Agrees

\* What is sent stays what it is.
LEMMA SentStays ==
    ASSUME UNCHANGED <<job, reference, before>>
    PROVE  /\ Source' = Source /\ Dest' = Dest /\ FirstLook' = FirstLook
           /\ \A p : Sent(p)' = Sent(p)
  BY DEF Source, Dest, FirstLook, Sent

\* A source that is at the end what was sent of it was that all the time.
LEMMA SendingKept ==
    ASSUME TypeOK, InHand, Kinds, SetAside, Fresh, Sending, Referenced, Requested, Step
    PROVE  Sending'
<1>1. CASE Apart /\ User
  <2>1. TreesEdited /\ StageEdited /\ RestEdited
    BY <1>1, UserStep
  <2>2. /\ job' = job /\ at' = at /\ found' = found /\ job.batch \subseteq Paths
        /\ Source \in Sides /\ Source' = Source /\ FirstLook' = FirstLook /\ \A q : Sent(q)' = Sent(q)
    BY <2>1, SideFacts, SentStays DEF RestEdited, TypeOK, TransportTypeOK
  <2>3. ASSUME job.kind = "transfer", at \in {"staging", "copying", "installing", "orphaned", "verifying"},
               NEW p \in job.batch
        PROVE  /\ tree'[Source][p] = Sent(p) => stage'[p] \in {Gone, Sent(p)}
               /\ ~Staging => stage'[p] # Gone
               /\ at = "verifying" /\ FirstLook = Source /\ found[Source][p] = Sent(p) => stage'[p] = Sent(p)
    <3>1. /\ tree[Source][p] = Sent(p) => stage[p] \in {Gone, Sent(p)}
          /\ ~Staging => stage[p] # Gone
          /\ at = "verifying" /\ FirstLook = Source /\ found[Source][p] = Sent(p) => stage[p] = Sent(p)
      BY <2>3 DEF Sending
    <3>2. Sent(p) \in Entries /\ Sent(p).v <= 2 + edits /\ edits \in Nat
      <4>1. /\ before[Source][p] \in Entries /\ before[Source][p].v <= 2 + edits
            /\ reference[p] \in Entries /\ reference[p].v <= 2 + edits /\ edits \in 0..MaxEdits
        BY <2>2, <2>3 DEF TypeOK, TransportTypeOK, Fresh
      <4> QED
        BY <4>1 DEF Sent
    <3>3. Sent(p).v # NewVersion
      BY <3>2, EntryFacts DEF NewVersion
    <3>4. Sent(p) # Gone \/ stage[p] = Gone
      <4>1. CASE job.push /\ job.rsync
        BY <2>2, <2>3, <4>1 DEF Sent, Referenced
      <4>2. CASE ~(job.push /\ job.rsync)
        BY <2>3, <4>2, SourceThere DEF Sent
      <4> QED
        BY <4>1, <4>2
    <3>5. tree'[Source][p] \in {tree[Source][p], Gone} \/ tree'[Source][p].v = NewVersion
      BY <2>1, <2>2, <2>3 DEF TreesEdited
    <3>6. tree'[Source][p] = Sent(p) => tree[Source][p] = Sent(p) \/ Sent(p) = Gone
      BY <3>3, <3>5
    <3>7. stage'[p] = stage[p] \/ (p \in linked /\ stage'[p] = tree'[Source][p])
      BY <2>1, <2>2, <2>3 DEF StageEdited
    <3>8. ~Staging => stage'[p] = stage[p]
      BY <2>3, <3>7 DEF Kinds, Staging
    <3>9. at = "verifying" => ~Staging
      BY DEF Staging
    <3> QED
      BY <3>1, <3>4, <3>6, <3>7, <3>8, <3>9
  <2>4. Staging' = Staging
    BY <2>2 DEF Staging
  <2> QED
    BY <2>2, <2>3, <2>4 DEF Sending
<1>2. CASE Apart /\ Ceases
  <2>1. at' \notin {"staging", "copying", "installing", "orphaned", "verifying"}
    BY <1>2 DEF Ceases
  <2> QED
    BY <2>1 DEF Sending
<1>3. CASE Apart /\ Orphans
  <2>1. UNCHANGED <<job, tree, before, reference, stage, found>> /\ at \in {"installing", "deleting"} /\ at' = "orphaned"
    BY <1>3 DEF Orphans, askedVars, stageVars, resultVars
  <2>2. Source' = Source /\ \A q : Sent(q)' = Sent(q)
    BY <2>1, SentStays
  <2>3. at = "deleting" => job.kind = "delete"
    BY DEF Kinds
  <2> QED
    BY <2>1, <2>2, <2>3 DEF Sending, Staging
<1>4. CASE Apart /\ LookLocal
  BY <1>4 DEF LookLocal, Apart, askedVars, stageVars, slotVars, resultVars, userVars,
     resolutionVars, Sending, Staging, Sent, Source, Dest, FirstLook
<1>5. CASE Apart /\ Preflight
  <2>1. stage' = stage /\ stage = Empty /\ at' \in {"staging", "refused"}
    BY <1>5 DEF Preflight, stageVars, Kinds
  <2>2. job \in Jobs /\ job' = job /\ Source' = Source /\ job.batch \subseteq Paths
    BY <1>5, SideFacts DEF Preflight, askedVars, Source, TypeOK, TransportTypeOK
  <2> QED
    BY <2>1, <2>2 DEF Sending, Empty, Staging
<1>6. ASSUME NEW p \in Paths, Apart /\ Stages(p)
      PROVE  Sending'
  <2>1. /\ at \in {"staging", "copying"} /\ at' \in {"staging", "copying"} /\ UNCHANGED <<tree, job, before>>
        /\ stage \in [Paths -> Entries] /\ reference \in [Paths -> Entries]
    BY <1>6 DEF Stages, Staging, TypeOK, TransportTypeOK, askedVars
  <2>2. Source' = Source /\ job.batch \subseteq Paths
    BY <2>1, SideFacts DEF Source, TypeOK, TransportTypeOK
  <2>3. SUFFICES ASSUME job.kind = "transfer", NEW q \in job.batch, tree[Source][q] = Sent(q)'
                 PROVE  stage'[q] = Gone \/ stage'[q] = Sent(q)'
    BY <2>1, <2>2 DEF Sending, Staging
  <2>4. Sent(q)' = IF job.push /\ job.rsync THEN reference'[q] ELSE before[Source][q]
    BY <2>1, <2>2 DEF Sent
  <2>5. tree[Source][q] = Sent(q) => stage[q] \in {Gone, Sent(q)}
    BY <2>1, <2>3 DEF Sending
  <2>6. CASE Looks(p)
    <3>1. stage' = stage /\ reference' = [reference EXCEPT ![p] = tree[Source][p]] /\ reference[p] = Gone
      BY <2>6 DEF Looks
    <3>2. CASE job.push /\ job.rsync /\ q = p
      BY <3>1, <3>2 DEF Referenced
    <3>3. CASE ~(job.push /\ job.rsync /\ q = p)
      <4>1. Sent(q)' = Sent(q)
        BY <2>1, <2>2, <2>4, <3>1, <3>3 DEF Sent
      <4> QED
        BY <2>3, <2>5, <3>1, <4>1
    <3> QED
      BY <3>2, <3>3
  <2>7. CASE Copies(p)
    <3>1. stage' = [stage EXCEPT ![p] = tree[Source][p]]
      BY <2>7 DEF Copies
    <3>2. reference' = reference \/ reference' = [reference EXCEPT ![p] = tree[Source][p]]
      BY <2>7 DEF Copies
    <3>3. CASE q = p
      BY <2>1, <2>2, <2>3, <3>1, <3>3
    <3>4. CASE q # p
      <4>1. Sent(q)' = Sent(q) /\ stage'[q] = stage[q]
        BY <2>1, <2>2, <2>4, <3>1, <3>2, <3>4 DEF Sent
      <4> QED
        BY <2>3, <2>5, <4>1
    <3> QED
      BY <3>3, <3>4
  <2>8. CASE Restages
    BY <2>2, <2>8 DEF Restages, Empty
  <2> QED
    BY <1>6, <2>6, <2>7, <2>8 DEF Stages
<1>7. CASE Apart /\ Ship
  <2>1. /\ UNCHANGED <<job, tree, before, reference, stage>> /\ at' = "installing" /\ at \in {"staging", "copying"}
        /\ \A p \in job.batch : stage[p] # Gone
    BY <1>7 DEF Ship, Staging, Staged, askedVars
  <2>2. Source' = Source /\ \A q : Sent(q)' = Sent(q)
    BY <2>1, SentStays
  <2> QED
    BY <2>1, <2>2 DEF Sending
<1>8. CASE Apart /\ FallBack
  <2>1. stage' = Empty /\ at' = "staging"
    BY <1>8 DEF FallBack
  <2>2. job'.batch \subseteq Paths
    BY <1>8, SidesStay, SideFacts DEF TypeOK, TransportTypeOK
  <2> QED
    BY <2>1, <2>2 DEF Sending, Empty, Staging
<1>9. ASSUME NEW p \in Paths, Apart /\ Aside(p)
      PROVE  Sending'
  <2>1. tree'[Source] = tree[Source]
    BY <1>9, AsideStep DEF TreeBecomes
  <2>2. UNCHANGED <<job, at, before, reference, stage, found>>
    BY <1>9 DEF Aside, askedVars, stageVars, resultVars
  <2>3. Source' = Source /\ FirstLook' = FirstLook /\ \A q : Sent(q)' = Sent(q)
    BY <2>2, SentStays
  <2> QED
    BY <2>1, <2>2, <2>3 DEF Sending, Staging
<1>10. CASE Apart /\ Place
  <2>1. tree'[Source] = tree[Source]
    BY <1>10, PlaceStep DEF TreeBecomes
  <2>2. UNCHANGED <<job, at, before, reference, stage, found>>
    BY <1>10 DEF Place, askedVars, stageVars, resultVars
  <2>3. Source' = Source /\ FirstLook' = FirstLook /\ \A q : Sent(q)' = Sent(q)
    BY <2>2, SentStays
  <2> QED
    BY <2>1, <2>2, <2>3 DEF Sending, Staging
<1>11. CASE Apart /\ Reinstates
  BY <1>11 DEF Reinstates, Installing, Apart, askedVars, stageVars, slotVars, resultVars,
     userVars, resolutionVars, Sending, Staging, Sent, Source, Dest, FirstLook
<1>12. CASE Apart /\ LetsGo
  BY <1>12 DEF LetsGo, Apart, askedVars, stageVars, slotVars, resultVars, userVars,
     resolutionVars, Sending, Staging, Sent, Source, Dest, FirstLook
<1>13. ASSUME NEW p \in Paths, Apart /\ Keeps(p)
      PROVE  Sending'
  <2>1. tree'[Source] = tree[Source]
    BY <1>13, KeepsStep DEF TreeBecomes
  <2>2. UNCHANGED <<job, at, before, reference, stage, found>>
    BY <1>13 DEF Keeps, askedVars, stageVars, resultVars
  <2>3. Source' = Source /\ FirstLook' = FirstLook /\ \A q : Sent(q)' = Sent(q)
    BY <2>2, SentStays
  <2> QED
    BY <2>1, <2>2, <2>3 DEF Sending, Staging
<1>14. CASE Apart /\ LookAgain
  <2>1. /\ UNCHANGED <<job, tree, before, reference, stage>> /\ at = "installing"
        /\ found' = [found EXCEPT ![FirstLook] = tree[FirstLook]] /\ at' \in {"failed", "verifying"}
    BY <1>14 DEF LookAgain, askedVars, stageVars
  <2>2. Source' = Source /\ FirstLook' = FirstLook /\ \A q : Sent(q)' = Sent(q)
    BY <2>1, SentStays
  <2>3. job \in Jobs /\ found \in [Sides -> [Paths -> Entries]]
    BY DEF TypeOK, TransportTypeOK
  <2>4. FirstLook = Source => found'[Source] = tree[Source]
    BY <2>1, <2>3, SideFacts
  <2> QED
    BY <2>1, <2>2, <2>4 DEF Sending, Staging
<1>15. CASE Apart /\ Verify
  BY <1>15 DEF Verify, Apart, askedVars, stageVars, slotVars, resultVars, userVars,
     resolutionVars, Sending, Staging, Sent, Source, Dest, FirstLook
<1>16. CASE Apart /\ BeginDelete
  BY <1>16 DEF BeginDelete, Apart, askedVars, stageVars, slotVars, resultVars, userVars,
     resolutionVars, Sending, Staging, Sent, Source, Dest, FirstLook
<1>17. ASSUME NEW p \in Paths, Apart /\ Takes(p)
      PROVE  Sending'
  BY <1>17 DEF Takes, Deleting, Apart, askedVars, stageVars, slotVars, resultVars, userVars,
     resolutionVars, Sending, Staging, Sent, Source, Dest, FirstLook
<1>18. CASE Apart /\ DeleteFails
  BY <1>18 DEF DeleteFails, Deleting, Apart, askedVars, stageVars, slotVars, resultVars,
     userVars, resolutionVars, Sending, Staging, Sent, Source, Dest, FirstLook
<1>19. CASE Apart /\ PutsBack
  BY <1>19 DEF PutsBack, Deleting, Idle, Apart, askedVars, stageVars, slotVars, resultVars,
     userVars, resolutionVars, Sending, Staging, Sent, Source, Dest, FirstLook
<1>20. CASE Apart /\ DeleteEnds
  BY <1>20 DEF DeleteEnds, Apart, askedVars, stageVars, slotVars, resultVars, userVars,
     resolutionVars, Sending, Staging, Sent, Source, Dest, FirstLook
<1>21. CASE CompareLocal
  BY <1>21 DEF CompareLocal, askedVars, stageVars, slotVars, resultVars, userVars,
     resolutionVars, Sending, Staging, Sent, Source, Dest, FirstLook
<1>22. CASE CompareRemote
  <2>1. at' \in {"ready", "refused"}
    BY <1>22 DEF CompareRemote
  <2> QED
    BY <2>1 DEF Sending
<1>23. CASE FinalLook
  BY <1>23 DEF FinalLook, askedVars, stageVars, slotVars, resultVars, userVars, resolutionVars,
     Sending, Staging, Sent, Source, Dest, FirstLook
<1>24. CASE Settle
  BY <1>24 DEF Settle, askedVars, stageVars, slotVars, resultVars, userVars, resolutionVars,
     Sending, Staging, Sent, Source, Dest, FirstLook
<1>25. CASE \/ Apart /\ Discard
            \/ \E p \in Paths : Apart /\ Skips(p)
            \/ Apart /\ Judge
            \/ Apart /\ DeleteAway
            \/ Apart /\ Restores
            \/ UNCHANGED wholeVars
  <2>1. UNCHANGED <<job, at, tree, before, reference, stage, found>>
    BY <1>25 DEF Discard, Skips, Judge, DeleteAway, Restores, wholeVars, vars, askedVars,
     stageVars, resultVars
  <2> QED
    BY <2>1 DEF Sending, Staging, Sent, Source, Dest, FirstLook
<1> QED
  BY <1>1, <1>2, <1>3, <1>4, <1>5, <1>6, <1>7, <1>8, <1>9, <1>10, <1>11, <1>12, <1>13, <1>14,
     <1>15, <1>16, <1>17, <1>18, <1>19, <1>20, <1>21, <1>22, <1>23, <1>24, <1>25 DEF Step

\* What is staged is compared with the same when neither it nor its source changes.
LEMMA ReferencedStays ==
    ASSUME Referenced, Source' = Source, tree'[Source] = tree[Source], linked' \subseteq linked,
           job'.push = job.push, job'.batch = job.batch, job'.rsync = job.rsync,
           UNCHANGED <<before, reference, stage, late>>
    PROVE  Referenced'
  BY DEF Referenced, Looked

\* A pushed source is what the preflight saw when it is looked at, and staged unless it is noticed to have changed.
LEMMA ReferencedKept ==
    ASSUME TypeOK, InHand, Kinds, SetAside, Referenced, Step
    PROVE  Referenced'
<1>a. /\ job \in Jobs /\ job'.push = job.push /\ job'.batch = job.batch /\ Source' = Source
      /\ job'.rsync = job.rsync \/ (Apart /\ FallBack)
  BY SidesStay DEF TypeOK, TransportTypeOK
<1>b. /\ tree \in [Sides -> [Paths -> Entries]] /\ stage \in [Paths -> Entries]
      /\ reference \in [Paths -> Entries] /\ linked \subseteq Paths
      /\ Source \in Sides /\ Dest \in Sides /\ Source # Dest
  BY SideFacts DEF TypeOK, TransportTypeOK
<1>1. CASE Apart /\ User
  <2>1. TreesEdited /\ StageEdited /\ RestEdited
    BY <1>1, UserStep
  <2>2. UNCHANGED <<job, before, reference>> /\ late \subseteq late' /\ linked' \subseteq linked
    BY <2>1 DEF RestEdited, StageEdited
  <2>3. SUFFICES ASSUME job.push, job.rsync, NEW p \in Paths
                 PROVE  /\ stage'[p] # Gone \/ p \in linked' => reference[p] # Gone
                        /\ reference[p] # Gone =>
                                /\ Alike(reference[p], before[Source][p])
                                /\ reference[p] = before[Source][p] \/ reference[p].v \in late'
                        /\ Looked(p)' =>
                                /\ reference[p] = before[Source][p]
                                /\ tree'[Source][p].kind = "file" =>
                                        tree'[Source][p] = reference[p] \/ tree'[Source][p].v \in late'
    BY <1>a, <2>2 DEF Referenced, Alike, Looked
  <2>4. /\ stage[p] # Gone \/ p \in linked => reference[p] # Gone
        /\ reference[p] # Gone =>
                /\ Alike(reference[p], before[Source][p])
                /\ reference[p] = before[Source][p] \/ reference[p].v \in late
        /\ Looked(p) =>
                /\ reference[p] = before[Source][p]
                /\ tree[Source][p].kind = "file" => tree[Source][p] = reference[p] \/ tree[Source][p].v \in late
    BY <2>3 DEF Referenced
  <2>5. stage'[p] = stage[p] \/ (p \in linked /\ stage'[p].v = NewVersion)
    BY <2>1 DEF StageEdited
  <2>6. NewVersion # Gone.v
    <3>1. NewVersion \in 1..(2 + MaxEdits) /\ Gone.v = 0
      BY <2>1, NewIsVersion, EntryFacts DEF RestEdited, TypeOK, TransportTypeOK
    <3> QED
      BY <3>1, BoundsAssumption DEF BoundsAssumption
  <2>7. Looked(p)' => Looked(p)
    BY <2>2, <2>5, <2>6 DEF Looked
  <2>8. Looked(p) /\ tree'[Source][p].kind = "file" => tree'[Source][p] = tree[Source][p] \/ tree'[Source][p].v \in late'
    BY <1>1, SourceStep
  <2>9. tree'[Source][p].kind = "file" /\ tree'[Source][p] = tree[Source][p] => tree[Source][p].kind = "file"
    OBVIOUS
  <2>10. stage'[p] # Gone \/ p \in linked' => reference[p] # Gone
    BY <2>2, <2>4, <2>5
  <2>11. reference[p] = before[Source][p] \/ reference[p].v \in late => reference[p] = before[Source][p] \/ reference[p].v \in late'
    BY <2>2
  <2>12. Looked(p)' => /\ reference[p] = before[Source][p]
                       /\ tree'[Source][p].kind = "file" =>
                                tree'[Source][p] = reference[p] \/ tree'[Source][p].v \in late'
    BY <2>2, <2>4, <2>7, <2>8, <2>9
  <2> QED
    BY <2>4, <2>10, <2>11, <2>12
<1>2. CASE \/ Apart /\ LookLocal
           \/ Apart /\ Preflight
  <2>1. at \in {"ready", "looked"} /\ UNCHANGED <<reference, stage, linked>>
    BY <1>2 DEF LookLocal, Preflight, stageVars
  <2>2. reference = Empty /\ stage = Empty /\ linked = {}
    BY <2>1 DEF Kinds
  <2> QED
    BY <2>1, <2>2 DEF Referenced, Looked, Empty
<1>3. ASSUME NEW p \in Paths, Apart /\ Stages(p)
      PROVE  Referenced'
  <2>1. UNCHANGED <<tree, job, before, late>>
    BY <1>3 DEF Stages, askedVars, userVars
  <2>2. SUFFICES ASSUME job.push, job.rsync, NEW q \in Paths
                 PROVE  /\ stage'[q] # Gone \/ q \in linked' => reference'[q] # Gone
                        /\ reference'[q] # Gone =>
                                /\ Alike(reference'[q], before[Source][q])
                                /\ reference'[q] = before[Source][q] \/ reference'[q].v \in late
                        /\ Looked(q)' =>
                                /\ reference'[q] = before[Source][q]
                                /\ tree[Source][q].kind = "file" =>
                                        tree[Source][q] = reference'[q] \/ tree[Source][q].v \in late
    BY <1>a, <2>1 DEF Referenced, Alike, Looked
  <2>3. /\ stage[q] # Gone \/ q \in linked => reference[q] # Gone
        /\ reference[q] # Gone =>
                /\ Alike(reference[q], before[Source][q])
                /\ reference[q] = before[Source][q] \/ reference[q].v \in late
        /\ Looked(q) =>
                /\ reference[q] = before[Source][q]
                /\ tree[Source][q].kind = "file" => tree[Source][q] = reference[q] \/ tree[Source][q].v \in late
    BY <2>2 DEF Referenced
  <2>4. CASE Looks(p)
    <3>1. /\ stage' = stage /\ linked' = linked /\ reference' = [reference EXCEPT ![p] = tree[Source][p]]
          /\ tree[Source][p] = before[Source][p] /\ tree[Source][p] # Gone
      BY <2>2, <2>4 DEF Looks
    <3>2. CASE q = p
      <4>1. reference'[q] = tree[Source][q] /\ tree[Source][q] = before[Source][q] /\ reference'[q] # Gone
        BY <1>b, <3>1, <3>2
      <4> QED
        BY <4>1 DEF Alike
    <3>3. CASE q # p
      <4>1. reference'[q] = reference[q]
        BY <1>b, <3>1, <3>3
      <4> QED
        BY <2>1, <2>3, <3>1, <4>1 DEF Looked
    <3> QED
      BY <3>2, <3>3
  <2>5. CASE Copies(p)
    <3>1. /\ stage' = [stage EXCEPT ![p] = tree[Source][p]] /\ reference' = [reference EXCEPT ![p] = tree[Source][p]]
          /\ linked' \subseteq linked \cup {p} /\ tree[Source][p] # Gone
          /\ Looked(p) /\ Alike(tree[Source][p], reference[p])
          /\ tree[Source][p] = reference[p] \/ reference[p].kind = "file"
      BY <2>2, <2>5 DEF Copies
    <3>2. CASE q = p
      <4>1. reference'[q] = tree[Source][q] /\ reference'[q] # Gone /\ stage'[q] # Gone
        BY <1>b, <3>1, <3>2
      <4>2. reference[q] = before[Source][q]
        BY <2>3, <3>1, <3>2
      <4>3. tree[Source][q] = reference[q] \/ tree[Source][q].v \in late
        BY <2>3, <3>1, <3>2 DEF Alike
      <4>4. ~Looked(q)'
        BY <4>1 DEF Looked
      <4> QED
        BY <3>1, <3>2, <4>1, <4>2, <4>3, <4>4
    <3>3. CASE q # p
      <4>1. reference'[q] = reference[q] /\ stage'[q] = stage[q]
        BY <1>b, <3>1, <3>3
      <4> QED
        BY <2>1, <2>3, <3>1, <3>3, <4>1 DEF Looked
    <3> QED
      BY <3>2, <3>3
  <2>6. CASE Restages
    BY <2>6 DEF Restages, Empty, Looked
  <2> QED
    BY <1>3, <2>4, <2>5, <2>6 DEF Stages
<1>4. CASE Apart /\ FallBack
  <2>1. ~job'.rsync
    BY <1>a, <1>4 DEF FallBack, Jobs
  <2> QED
    BY <2>1 DEF Referenced
<1>5. CASE Apart /\ Ship
  BY <1>5, ReferencedStays DEF Ship, askedVars, userVars, Source
<1>6. CASE \/ \E p \in Paths : Apart /\ Aside(p)
           \/ Apart /\ Place
           \/ Apart /\ Reinstates
           \/ \E p \in Paths : Apart /\ Keeps(p)
           \/ \E p \in Paths : Apart /\ Takes(p)
           \/ Apart /\ PutsBack
  <2>1. UNCHANGED <<job, before, reference, stage, linked, late>>
    BY <1>6 DEF Aside, Place, Reinstates, Keeps, Takes, PutsBack, askedVars, stageVars, userVars
  <2>2. tree'[Source] = tree[Source]
    BY <1>6, AsideStep, PlaceStep, BackStep, KeepsStep, TakesStep DEF TreeBecomes
  <2> QED
    BY <1>a, <2>1, <2>2, ReferencedStays
<1>7. CASE \/ Apart /\ Ceases
           \/ Apart /\ Orphans
           \/ Apart /\ Discard
           \/ Apart /\ LetsGo
           \/ Apart /\ LookAgain
           \/ Apart /\ Verify
           \/ Apart /\ BeginDelete
           \/ \E p \in Paths : Apart /\ Skips(p)
           \/ Apart /\ Judge
           \/ Apart /\ DeleteAway
           \/ Apart /\ DeleteFails
           \/ Apart /\ Restores
           \/ Apart /\ DeleteEnds
           \/ CompareLocal
           \/ FinalLook
           \/ Settle
           \/ UNCHANGED wholeVars
  <2>1. UNCHANGED <<before, reference, stage, linked, late>>
    BY <1>7 DEF Ceases, Orphans, Discard, LetsGo, LookAgain, Verify, BeginDelete, Skips, Judge, DeleteAway,
     DeleteFails, Restores, DeleteEnds, CompareLocal, FinalLook, Settle, wholeVars, vars, stageVars, userVars
  <2>2. UNCHANGED <<tree, job>>
    BY <1>7 DEF Ceases, Orphans, Discard, LetsGo, LookAgain, Verify, BeginDelete, Skips, Judge, DeleteAway,
     DeleteFails, Restores, DeleteEnds, CompareLocal, FinalLook, Settle, wholeVars, vars, askedVars
  <2> QED
    BY <1>a, <2>1, <2>2, ReferencedStays
<1>8. CASE CompareRemote
  <2>1. at = "compared" /\ UNCHANGED <<tree, before, reference, stage, linked, late>>
    BY <1>8 DEF CompareRemote, stageVars, userVars
  <2>2. job'.rsync = job.rsync
    BY <1>a, <2>1 DEF FallBack, Staging
  <2> QED
    BY <1>a, <2>1, <2>2, ReferencedStays
<1> QED
  BY <1>1, <1>2, <1>3, <1>4, <1>5, <1>6, <1>7, <1>8 DEF Step

\* What is installed stays installed when nothing about the job changes.
LEMMA ReplacedStays ==
    ASSUME UNCHANGED <<job, todo, current, step>>, NEW p
    PROVE  Replaced(p)' <=> Replaced(p)
  BY DEF Replaced, Tops

\* A top-level path in hand leaves the members of the others, and what is above it is not in the batch.
LEMMA OthersApart ==
    ASSUME TypeOK, InHand, job.kind = "transfer", NEW t \in todo,
           NEW u \in Tops(job.batch), u # t, NEW q \in Subtree(u) \cap job.batch
    PROVE  q \notin Subtree(t) /\ WithParents(tree[Dest], t)[q] = tree[Dest][q]
<1>1. job \in Jobs /\ t \in Tops(job.batch) /\ q \in Paths
  BY SideFacts DEF InHand, TypeOK, TransportTypeOK
<1>2. q \notin Subtree(t)
  BY <1>1, TopsApart
<1>3. q \notin Parents(t)
  BY <1>1 DEF Tops
<1> QED
  BY <1>1, <1>2, <1>3 DEF WithParents

\* What was installed is what was staged, until a user changes it.
LEMMA InstalledKept ==
    ASSUME TypeOK, InHand, Kinds, SetAside, Installed, Step
    PROVE  Installed'
<1>1. CASE Apart /\ User
  <2>a. TreesEdited /\ StageEdited /\ RestEdited
    BY <1>1, UserStep
  <2>1. /\ job \in Jobs /\ job' = job /\ Dest \in Sides /\ Dest' = Dest /\ job.batch \subseteq Paths
        /\ at' = at /\ UNCHANGED <<todo, current, step>> /\ touched \subseteq touched'
    BY <2>a, SideFacts DEF RestEdited, Dest, TypeOK, TransportTypeOK
  <2>2. SUFFICES ASSUME job.kind = "transfer", at \in {"installing", "orphaned", "verifying"},
                        NEW q \in job.batch \ touched', Replaced(q)'
                 PROVE  Same(tree'[Dest][q], stage'[q])
    BY <2>1 DEF Installed
  <2>3. q \in Paths /\ Same(tree[Dest][q], stage[q])
    BY <2>1, <2>2, ReplacedStays DEF Installed
  <2>4. stage'[q] = stage[q]
    BY <2>a, <2>2, <2>3 DEF StageEdited, Kinds
  <2>5. /\ tree'[Dest][q].kind = tree[Dest][q].kind
        /\ tree[Dest][q].kind # "dir" => tree'[Dest][q] = tree[Dest][q]
    BY <2>a, <2>2, <2>3 DEF TreesEdited
  <2> QED
    BY <2>3, <2>4, <2>5 DEF Same
<1>2. CASE Apart /\ Ceases
  <2>1. at' \notin {"installing", "orphaned", "verifying"}
    BY <1>2 DEF Ceases
  <2> QED
    BY <2>1 DEF Installed
<1>3. CASE Apart /\ Orphans
  <2>1. /\ UNCHANGED <<job, tree, stage, touched, todo, current, step>>
        /\ at \in {"installing", "deleting"} /\ at' = "orphaned"
    BY <1>3 DEF Orphans, askedVars, stageVars, slotVars, userVars
  <2>2. Dest' = Dest
    BY <2>1 DEF Dest
  <2>3. at = "deleting" => job.kind = "delete"
    BY DEF Kinds
  <2> QED
    BY <2>1, <2>2, <2>3, ReplacedStays DEF Installed
<1>4. ASSUME NEW p \in Paths, Apart /\ Stages(p)
      PROVE  Installed'
  <2>1. at' \in {"staging", "copying"}
    BY <1>4 DEF Stages
  <2> QED
    BY <2>1 DEF Installed
<1>5. CASE Apart /\ Ship
  <2>1. todo' = Tops(job.batch) /\ current' = NoPath /\ job' = job /\ job \in Jobs
    BY <1>5 DEF Ship, Staging, InHand, Unsent, askedVars, TypeOK, TransportTypeOK
  <2>2. \A t \in Tops(job'.batch) : t \in todo' /\ t # current'
    BY <2>1, SideFacts, BoundsAssumption DEF Tops, BoundsAssumption
  <2> QED
    BY <2>2 DEF Installed, Replaced
<1>6. CASE Apart /\ FallBack
  <2>1. at' = "staging"
    BY <1>6 DEF FallBack
  <2> QED
    BY <2>1 DEF Installed
<1>7. ASSUME NEW p \in Paths, Apart /\ Aside(p)
      PROVE  Installed'
  <2>1. /\ job \in Jobs /\ job' = job /\ Dest \in Sides /\ Dest' = Dest /\ job.batch \subseteq Paths
        /\ at' = at /\ stage' = stage /\ touched' = touched
    BY <1>7, SideFacts DEF Aside, askedVars, stageVars, userVars, Dest, TypeOK, TransportTypeOK
  <2>2. SUFFICES ASSUME job.kind = "transfer", at \in {"installing", "orphaned", "verifying"},
                        NEW q \in job.batch \ touched', Replaced(q)'
                 PROVE  Same(tree'[Dest][q], stage'[q])
    BY <2>1 DEF Installed
  <2>3. p \in todo /\ todo' = todo /\ step' = "aside" /\ current' = p
    BY <1>7 DEF Aside, Installing
  <2>4. PICK t \in Tops(job.batch) : q \in Subtree(t) /\ t \notin todo
    BY <2>1, <2>2, <2>3 DEF Replaced
  <2>5. q \notin Subtree(p) /\ WithParents(tree[Dest], p)[q] = tree[Dest][q]
    BY <2>2, <2>3, <2>4, OthersApart
  <2>6. q \in Paths /\ tree'[Dest][q] = tree[Dest][q]
    BY <1>7, <2>1, <2>5, AsideStep DEF TreeBecomes
  <2>7. Replaced(q)
    BY <2>4 DEF Replaced
  <2> QED
    BY <2>1, <2>2, <2>6, <2>7 DEF Installed
<1>8. CASE Apart /\ Place
  <2>1. /\ job \in Jobs /\ job' = job /\ Dest \in Sides /\ Dest' = Dest /\ job.batch \subseteq Paths
        /\ at' = at /\ stage' = stage /\ touched' = touched \ Subtree(current)
        /\ todo' = todo /\ current' = current
    BY <1>8, SideFacts DEF Place, askedVars, stageVars, Dest, TypeOK, TransportTypeOK
  <2>2. SUFFICES ASSUME job.kind = "transfer", at \in {"installing", "orphaned", "verifying"},
                        NEW q \in job.batch \ touched', Replaced(q)'
                 PROVE  Same(tree'[Dest][q], stage'[q])
    BY <2>1 DEF Installed
  <2>3. q \in Paths /\ tree'[Dest][q] = IF q \in Subtree(current) THEN stage[q] ELSE tree[Dest][q]
    BY <1>8, <2>1, <2>2, PlaceStep DEF TreeBecomes
  <2>4. CASE q \in Subtree(current)
    BY <2>1, <2>3, <2>4 DEF Same
  <2>5. CASE q \notin Subtree(current)
    <3>1. PICK t \in Tops(job.batch) : q \in Subtree(t) /\ (t \notin todo \/ t = current)
      BY <2>1, <2>2 DEF Replaced
    <3>2. Replaced(q) /\ q \notin touched
      BY <2>1, <2>2, <2>5, <3>1 DEF Replaced
    <3> QED
      BY <2>1, <2>2, <2>3, <2>5, <3>2 DEF Installed
  <2> QED
    BY <2>4, <2>5
<1>9. CASE Apart /\ Discard
  <2>1. /\ job \in Jobs /\ job' = job /\ Dest \in Sides /\ Dest' = Dest /\ job.batch \subseteq Paths
        /\ at' = at /\ stage' = stage /\ touched' = touched
    BY <1>9, SideFacts DEF Discard, askedVars, stageVars, userVars, Dest, TypeOK, TransportTypeOK
  <2>2. SUFFICES ASSUME job.kind = "transfer", at \in {"installing", "orphaned", "verifying"},
                        NEW q \in job.batch \ touched', Replaced(q)'
                 PROVE  Same(tree'[Dest][q], stage'[q])
    BY <2>1 DEF Installed
  <2>3. /\ todo' = todo \ {current} /\ current' = NoPath /\ step' = "none" /\ step = "placed" /\ tree' = tree
    BY <1>9 DEF Discard
  <2>4. Replaced(q)
    BY <2>1, <2>2, <2>3 DEF Replaced
  <2> QED
    BY <2>1, <2>2, <2>3, <2>4 DEF Installed
<1>10. ASSUME NEW p \in Paths, Apart /\ Keeps(p)
      PROVE  Installed'
  <2>1. /\ job \in Jobs /\ job' = job /\ Dest \in Sides /\ Dest' = Dest /\ job.batch \subseteq Paths
        /\ at' = at /\ stage' = stage /\ touched' = touched
    BY <1>10, SideFacts DEF Keeps, askedVars, stageVars, userVars, Dest, TypeOK, TransportTypeOK
  <2>2. SUFFICES ASSUME job.kind = "transfer", at \in {"installing", "orphaned", "verifying"},
                        NEW q \in job.batch \ touched', Replaced(q)'
                 PROVE  Same(tree'[Dest][q], stage'[q])
    BY <2>1 DEF Installed
  <2>3. p \in todo /\ todo' = todo \ {p} /\ step' = step /\ current' = current /\ current = NoPath
    BY <1>10 DEF Keeps
  <2>4. /\ q \in Paths /\ \A r \in job.batch : stage[r].kind = "dir"
        /\ \A r \in Subtree(p) \cap job.batch : tree[Dest][r].kind # "file"
        /\ tree[Dest][q] \in Entries
    BY <1>10, <2>1, <2>2 DEF Keeps, TypeOK, TransportTypeOK
  <2>5. /\ tree'[Dest][q] = IF q \in Subtree(p) \cap job.batch /\ tree[Dest][q] = Gone THEN stage[q]
                             ELSE WithParents(tree[Dest], p)[q]
    BY <1>10, <2>1, <2>4, KeepsStep DEF TreeBecomes
  <2>6. CASE q \in Subtree(p)
    <3>1. tree[Dest][q] # Gone => WithParents(tree[Dest], p)[q] = tree[Dest][q] /\ tree[Dest][q].kind = "dir"
      BY <2>2, <2>4, <2>6, EntryFacts DEF WithParents
    <3> QED
      BY <2>1, <2>2, <2>4, <2>5, <2>6, <3>1 DEF Same
  <2>7. CASE q \notin Subtree(p)
    <3>1. PICK t \in Tops(job.batch) : q \in Subtree(t) /\ (t \notin todo \/ t = p)
      BY <2>1, <2>2, <2>3, BoundsAssumption, SideFacts DEF Replaced, Tops, BoundsAssumption
    <3>2. t # p /\ t \notin todo
      BY <2>7, <3>1
    <3>3. Replaced(q)
      BY <3>1, <3>2 DEF Replaced
    <3>4. WithParents(tree[Dest], p)[q] = tree[Dest][q]
      BY <2>2, <2>3, <3>1, <3>2, OthersApart
    <3> QED
      BY <2>1, <2>2, <2>5, <2>7, <3>3, <3>4 DEF Installed
  <2> QED
    BY <2>6, <2>7
<1>11. CASE Apart /\ LookAgain
  <2>1. /\ UNCHANGED <<job, tree, stage, touched, todo, current, step>> /\ at = "installing"
    BY <1>11 DEF LookAgain, askedVars, stageVars, slotVars, userVars
  <2>2. Dest' = Dest
    BY <2>1 DEF Dest
  <2> QED
    BY <2>1, <2>2, ReplacedStays DEF Installed
<1>12. CASE CompareRemote
  <2>1. at' \in {"ready", "refused"}
    BY <1>12 DEF CompareRemote
  <2> QED
    BY <2>1 DEF Installed
<1>13. CASE UNCHANGED wholeVars
  <2>1. UNCHANGED <<job, tree, stage, touched, todo, current, step, at>>
    BY <1>13 DEF wholeVars, vars
  <2>2. Dest' = Dest
    BY <2>1 DEF Dest
  <2> QED
    BY <2>1, <2>2, ReplacedStays DEF Installed
<1>14. CASE \/ Apart /\ BeginDelete
            \/ \E p \in Paths : Apart /\ Skips(p)
            \/ \E p \in Paths : Apart /\ Takes(p)
            \/ Apart /\ Judge
            \/ Apart /\ DeleteAway
            \/ Apart /\ DeleteFails
            \/ Apart /\ Restores
            \/ Apart /\ PutsBack
  <2>1. job' = job /\ job.kind = "delete"
    BY <1>14 DEF BeginDelete, Skips, Takes, Judge, DeleteAway, DeleteFails, Restores, PutsBack,
     Deleting, askedVars
  <2> QED
    BY <2>1 DEF Installed
<1>15. CASE \/ Apart /\ LookLocal
            \/ Apart /\ Preflight
            \/ Apart /\ Reinstates
            \/ Apart /\ LetsGo
            \/ Apart /\ Verify
            \/ Apart /\ DeleteEnds
            \/ CompareLocal
            \/ FinalLook
            \/ Settle
  <2>1. at' \notin {"installing", "orphaned", "verifying"}
    BY <1>15 DEF LookLocal, Preflight, Reinstates, LetsGo, Verify, DeleteEnds, CompareLocal,
     FinalLook, Settle
  <2> QED
    BY <2>1 DEF Installed
<1> QED
  BY <1>1, <1>2, <1>3, <1>4, <1>5, <1>6, <1>7, <1>8, <1>9, <1>10, <1>11, <1>12, <1>13, <1>14,
     <1>15 DEF Step

\* Every path of a batch is a top-level path or below one.
LEMMA TopAbove ==
    ASSUME job \in Jobs, NEW p \in job.batch
    PROVE  \E t \in Tops(job.batch) : p \in Subtree(t)
<1> DEFINE M == {t \in job.batch : p \in Subtree(t)}
           T == {Parents(t) : t \in M}
<1>1. job.batch \subseteq Paths /\ p \in M
  BY SideFacts, TreeFacts
<1>2. \A t \in M : Parents(t) \in FiniteSubsetsOf(Paths)
  BY <1>1, TreeFacts, UnderAssumption DEF UnderAssumption, FiniteSubsetsOf, Parents
<1>3. T \subseteq FiniteSubsetsOf(Paths) /\ T # {}
  BY <1>1, <1>2
<1>4. IsWellFoundedOn(StrictSubsetOrdering(Paths), FiniteSubsetsOf(Paths))
  BY FS_StrictSubsetOrderingWellFounded
<1> HIDE DEF T
<1>5. \E x \in T : \A y \in T : ~ (<<y, x>> \in StrictSubsetOrdering(Paths))
  BY <1>3, <1>4, WFMin
<1>6. PICK t \in M : \A u \in M : ~ (<<Parents(u), Parents(t)>> \in StrictSubsetOrdering(Paths))
  BY <1>5 DEF T
<1>7. ASSUME NEW u \in Parents(t) \cap job.batch
      PROVE  FALSE
  <2>1. t \in Paths /\ u \in Paths /\ t \in Under[u] /\ u \notin Parents(u)
    BY <1>1, <1>7, TreeFacts
  <2>2. u \in M
    BY <1>6, <1>7, <2>1, TreeFacts
  <2>3. Parents(u) \subseteq Parents(t)
    BY <2>1, TreeFacts
  <2>4. Parents(u) \in SUBSET Paths /\ Parents(t) \in SUBSET Paths /\ Parents(u) # Parents(t)
    BY <1>7, <2>1, TreeFacts
  <2>5. <<Parents(u), Parents(t)>> \in StrictSubsetOrdering(Paths)
    BY <2>3, <2>4 DEF StrictSubsetOrdering
  <2> QED
    BY <1>6, <2>2, <2>5
<1> QED
  BY <1>6, <1>7 DEF Tops

\* Where the entry at hand was there is nothing, until a user puts something there.
LEMMA EmptiedKept ==
    ASSUME TypeOK, InHand, SetAside, Emptied, Step
    PROVE  Emptied'
<1>1. CASE Apart /\ User
  <2>1. TreesEdited /\ UNCHANGED <<job, current, step>> /\ touched \subseteq touched'
    BY <1>1, UserStep DEF RestEdited
  <2>2. Dest' = Dest
    BY <2>1 DEF Dest
  <2>3. step = "aside" => current \in Paths
    BY SideFacts DEF InHand, TypeOK, TransportTypeOK
  <2>4. step = "aside" => Subtree(current) \subseteq Paths
    BY <2>3, TreeFacts
  <2> QED
    BY <2>1, <2>2, <2>4, EntryFacts DEF Emptied, TreesEdited
<1>2. ASSUME NEW p \in Paths, Apart /\ Aside(p)
      PROVE  Emptied'
  <2>1. current' = p /\ job' = job /\ Subtree(p) \subseteq Paths
    BY <1>2, TreeFacts DEF Aside, askedVars
  <2>2. \A q \in Subtree(p) : tree'[Dest][q] = Gone
    BY <1>2, <2>1, AsideStep DEF TreeBecomes
  <2> QED
    BY <2>1, <2>2 DEF Emptied, Dest
<1>3. CASE \/ Apart /\ Place
           \/ Apart /\ Discard
           \/ Apart /\ Reinstates
           \/ Apart /\ LetsGo
           \/ \E p \in Paths : Apart /\ Takes(p)
           \/ Apart /\ Judge
           \/ Apart /\ DeleteAway
           \/ Apart /\ DeleteFails
           \/ Apart /\ Restores
           \/ Apart /\ PutsBack
  <2>1. step' # "aside"
    BY <1>3 DEF Place, Discard, Reinstates, LetsGo, Takes, Judge, DeleteAway, DeleteFails,
     Restores, PutsBack, Idle
  <2> QED
    BY <2>1 DEF Emptied
<1>4. CASE \/ Apart /\ LookLocal
           \/ Apart /\ Preflight
           \/ \E p \in Paths : Apart /\ Stages(p)
           \/ Apart /\ Ship
           \/ Apart /\ FallBack
           \/ \E p \in Paths : Apart /\ Keeps(p)
           \/ Apart /\ BeginDelete
           \/ \E p \in Paths : Apart /\ Skips(p)
           \/ CompareLocal
           \/ CompareRemote
  <2>1. step' = step /\ (current = NoPath \/ at \in Unsent)
    BY <1>4 DEF LookLocal, Preflight, BeginDelete, Skips, Keeps, CompareRemote, Stages, Ship,
     FallBack, CompareLocal, slotVars, Unsent, Staging
  <2>2. step' # "aside"
    BY <2>1 DEF InHand
  <2> QED
    BY <2>2 DEF Emptied
<1>5. CASE \/ Apart /\ Ceases
           \/ Apart /\ Orphans
           \/ Apart /\ LookAgain
           \/ Apart /\ Verify
           \/ Apart /\ DeleteEnds
           \/ FinalLook
           \/ Settle
           \/ UNCHANGED wholeVars
  <2>1. UNCHANGED <<job, tree, current, step, touched>>
    BY <1>5 DEF Ceases, Orphans, LookAgain, Verify, DeleteEnds, FinalLook, Settle, askedVars,
     slotVars, userVars, wholeVars, vars
  <2> QED
    BY <2>1 DEF Emptied, Dest
<1> QED
  BY <1>1, <1>2, <1>3, <1>4, <1>5 DEF Step

\* What was judged is what was expected, or was written after the look at it.
LEMMA QuarantineKept ==
    ASSUME TypeOK, InHand, Kinds, SetAside, Quarantine, Step
    PROVE  Quarantine'
<1>1. CASE Apart /\ User
  <2>1. /\ TreesEdited /\ AsideEdited /\ UNCHANGED <<job, expect, current, step>>
        /\ step \in {"matched", "back"} => late' = late \cup {NewVersion}
    BY <1>1, UserStep DEF RestEdited
  <2>2. Dest' = Dest /\ Dest \in Sides
    BY <2>1, SideFacts DEF Dest, TypeOK, TransportTypeOK
  <2>3. SUFFICES ASSUME job.kind = "delete", step \in {"matched", "back"}
                 PROVE  /\ step = "matched" => aside'[current] = Gone \/ Expected(current)' \/ aside'[current].v \in late'
                        /\ step = "back" => tree'[Dest][current] = Gone \/ tree'[Dest][current].v \in late'
    BY <2>1, <2>2 DEF Quarantine
  <2>4. current \in Paths
    BY <2>3, SideFacts DEF InHand, TypeOK, TransportTypeOK
  <2>5. /\ aside'[current] = aside[current] \/ aside'[current] = Gone \/ aside'[current].v = NewVersion
        /\ tree'[Dest][current] \in {tree[Dest][current], Gone} \/ tree'[Dest][current].v = NewVersion
    BY <2>1, <2>2, <2>4 DEF AsideEdited, TreesEdited
  <2>6. aside'[current] = aside[current] => (Expected(current)' <=> Expected(current))
    BY <2>1, <2>2 DEF Expected
  <2>7. late' = late \cup {NewVersion}
    BY <2>1, <2>3
  <2> QED
    BY <2>3, <2>5, <2>6, <2>7 DEF Quarantine
<1>2. CASE Apart /\ Judge
  <2>1. /\ UNCHANGED <<job, tree, expect, current, aside, late>>
        /\ step' = IF Expected(current) THEN "matched" ELSE "restoring"
    BY <1>2 DEF Judge, askedVars, userVars
  <2> QED
    BY <2>1 DEF Quarantine, Expected, Dest
<1>3. CASE Apart /\ Restores
  <2>1. UNCHANGED <<job, tree, current>> /\ step' = "back" /\ tree[Dest][current] = Gone
    BY <1>3 DEF Restores, askedVars
  <2> QED
    BY <2>1 DEF Quarantine, Dest
<1>4. CASE \/ \E p \in Paths : Apart /\ Aside(p)
           \/ Apart /\ Place
           \/ Apart /\ Discard
           \/ Apart /\ Reinstates
           \/ Apart /\ LetsGo
           \/ \E p \in Paths : Apart /\ Takes(p)
           \/ Apart /\ DeleteAway
           \/ Apart /\ DeleteFails
           \/ Apart /\ PutsBack
  <2>1. step' \notin {"matched", "back"}
    BY <1>4 DEF Reinstates, LetsGo, Takes, DeleteAway, DeleteFails, PutsBack, Discard, Aside,
     Place, Idle
  <2> QED
    BY <2>1 DEF Quarantine
<1>5. CASE \/ Apart /\ LookLocal
           \/ Apart /\ Preflight
           \/ \E p \in Paths : Apart /\ Stages(p)
           \/ Apart /\ Ship
           \/ Apart /\ FallBack
           \/ \E p \in Paths : Apart /\ Keeps(p)
           \/ Apart /\ BeginDelete
           \/ \E p \in Paths : Apart /\ Skips(p)
           \/ CompareLocal
           \/ CompareRemote
  <2>1. step' = step /\ (current = NoPath \/ at \in Unsent)
    BY <1>5 DEF LookLocal, Preflight, BeginDelete, Skips, Keeps, CompareRemote, Stages, Ship,
     FallBack, CompareLocal, slotVars, Unsent, Staging
  <2>2. step' \notin {"matched", "back"}
    BY <2>1 DEF InHand
  <2> QED
    BY <2>2 DEF Quarantine
<1>6. CASE \/ Apart /\ Ceases
           \/ Apart /\ Orphans
           \/ Apart /\ LookAgain
           \/ Apart /\ Verify
           \/ Apart /\ DeleteEnds
           \/ FinalLook
           \/ Settle
           \/ UNCHANGED wholeVars
  <2>1. UNCHANGED <<job, expect, tree, current, step, aside, late>>
    BY <1>6 DEF Ceases, Orphans, LookAgain, Verify, DeleteEnds, FinalLook, Settle, askedVars,
     slotVars, userVars, wholeVars, vars
  <2> QED
    BY <2>1 DEF Quarantine, Expected, Dest
<1> QED
  BY <1>1, <1>2, <1>3, <1>4, <1>5, <1>6 DEF Step

\* A deletion destroys what was expected, or what was written after the look at it.
LEMMA DeleteKeepsKept ==
    ASSUME TypeOK, InHand, Kinds, SetAside, Quarantine, DeleteKeeps, Step
    PROVE  DeleteKeeps'
<1>1. CASE Apart /\ User
  <2>1. UNCHANGED <<job, expect, lost>> /\ late \subseteq late'
    BY <1>1, UserStep DEF RestEdited
  <2> QED
    BY <2>1 DEF DeleteKeeps, Dest
<1>2. CASE Apart /\ FallBack
  <2>1. job'.kind = "transfer"
    BY <1>2, SidesStay DEF FallBack, Staging, Kinds, CompareRemote, TypeOK, TransportTypeOK
  <2> QED
    BY <2>1 DEF DeleteKeeps
<1>3. CASE Apart /\ DeleteAway
  <2>1. /\ UNCHANGED <<job, expect, late>> /\ lost' = lost \cup Destroyed(aside, Paths)
        /\ step = "matched" /\ aside[current] # Gone /\ \A q \in Under[current] : aside[q] = Gone
        /\ job.kind = "delete"
    BY <1>3 DEF DeleteAway, Deleting, askedVars, userVars
  <2>2. current # NoPath /\ current \in job.batch
    BY <2>1 DEF InHand
  <2>3. \A q \in Paths : aside[q] # Gone => q = current
    BY <2>1, <2>2 DEF SetAside, Subtree
  <2>4. \A l \in Destroyed(aside, Paths) : l.path = current /\ l.entry = aside[current]
    BY <2>3 DEF Destroyed
  <2>5. \/ /\ aside[current].kind = expect[Dest][current].kind
           /\ aside[current].kind = "file" => aside[current] = expect[Dest][current]
        \/ aside[current].v \in late
    BY <2>1 DEF Quarantine, Expected
  <2>6. Dest' = Dest
    BY <2>1 DEF Dest
  <2> QED
    BY <2>1, <2>2, <2>4, <2>5, <2>6 DEF DeleteKeeps
<1>4. CASE Apart /\ PutsBack
  <2>1. /\ UNCHANGED <<job, expect, late>> /\ lost' = lost \cup Destroyed(tree[Dest], {current})
        /\ step = "back" /\ job.kind = "delete"
    BY <1>4 DEF PutsBack, Deleting, askedVars, userVars
  <2>2. \A l \in Destroyed(tree[Dest], {current}) : l.entry = tree[Dest][current] /\ tree[Dest][current] # Gone
    BY DEF Destroyed
  <2>3. tree[Dest][current] = Gone \/ tree[Dest][current].v \in late
    BY <2>1 DEF Quarantine
  <2>4. Dest' = Dest
    BY <2>1 DEF Dest
  <2> QED
    BY <2>1, <2>2, <2>3, <2>4 DEF DeleteKeeps
<1>5. CASE \/ Apart /\ Ceases
           \/ Apart /\ Orphans
           \/ Apart /\ LookLocal
           \/ Apart /\ Preflight
           \/ \E p \in Paths : Apart /\ Stages(p)
           \/ Apart /\ Ship
           \/ \E p \in Paths : Apart /\ Aside(p)
           \/ Apart /\ LetsGo
           \/ \E p \in Paths : Apart /\ Keeps(p)
           \/ Apart /\ LookAgain
           \/ Apart /\ Verify
           \/ Apart /\ BeginDelete
           \/ \E p \in Paths : Apart /\ Skips(p)
           \/ \E p \in Paths : Apart /\ Takes(p)
           \/ Apart /\ Judge
           \/ Apart /\ DeleteFails
           \/ Apart /\ Restores
           \/ Apart /\ DeleteEnds
           \/ FinalLook
           \/ Settle
           \/ UNCHANGED wholeVars
  <2>1. UNCHANGED <<job, expect, lost>> /\ late \subseteq late'
    BY <1>5 DEF Ceases, Orphans, LookLocal, Preflight, Stages, Ship, Aside, LetsGo, Keeps,
     LookAgain, Verify, BeginDelete, Skips, Takes, Judge, DeleteFails, Restores, DeleteEnds,
     FinalLook, Settle, askedVars, userVars, wholeVars, vars
  <2> QED
    BY <2>1 DEF DeleteKeeps, Dest
<1>6. CASE \/ Apart /\ Place
           \/ Apart /\ Discard
           \/ Apart /\ Reinstates
  <2>1. job' = job /\ job.kind # "delete"
    BY <1>6 DEF Place, Discard, Reinstates, Installing, askedVars
  <2> QED
    BY <2>1 DEF DeleteKeeps
<1>7. CASE \/ CompareLocal
           \/ CompareRemote
  <2>1. lost' = {}
    BY <1>7 DEF CompareLocal, CompareRemote, InHand, Unsent
  <2> QED
    BY <2>1 DEF DeleteKeeps
<1> QED
  BY <1>1, <1>2, <1>3, <1>4, <1>5, <1>6, <1>7 DEF Step

\* What is there or aside and stays like that is kept.
LEMMA KeptStays ==
    ASSUME UNCHANGED <<job, before>>, NEW q,
           before[Dest][q] # Gone =>
               \A e \in {tree[Dest][q], aside[q]} : Same(e, before[Dest][q]) =>
                   \E f \in {tree'[Dest][q], aside'[q]} : Same(f, before[Dest][q]),
           Kept(q)
    PROVE  Kept(q)'
<1>1. Dest' = Dest
  BY DEF Dest
<1> QED
  BY <1>1 DEF Kept, Same

\* With nothing aside, what is kept is there.
LEMMA KeptThere ==
    ASSUME TypeOK, NEW q \in Paths, Kept(q), before[Dest][q] # Gone, aside[q] = Gone
    PROVE  Same(tree[Dest][q], before[Dest][q]) /\ tree[Dest][q] # Gone
<1>1. before[Dest][q] \in Entries /\ tree[Dest][q] \in Entries
  <2>1. Dest \in Sides
    BY SideFacts DEF TypeOK, TransportTypeOK
  <2> QED
    BY <2>1 DEF TypeOK, TransportTypeOK
<1>2. ~Same(Gone, before[Dest][q])
  BY <1>1, EntryFacts DEF Same
<1> QED
  BY <1>2 DEF Kept

\* While nothing is in hand of a job that runs, nothing is aside.
LEMMA NothingAside ==
    ASSUME SetAside, current = NoPath, Running, NEW q \in Paths
    PROVE  aside[q] = Gone
  BY DEF SetAside, Empty

\* What the destination had is in its place or aside until something is placed for it.
LEMMA AllKeptKept ==
    ASSUME TypeOK, InHand, Kinds, SetAside, Emptied, AllKept, Step
    PROVE  AllKept'
<1>1. CASE Apart /\ User
  <2>1. /\ TreesEdited /\ AsideEdited /\ touched \subseteq touched'
        /\ UNCHANGED <<job, before, todo, current, step, at>>
    BY <1>1, UserStep DEF RestEdited
  <2>2. SUFFICES ASSUME job.kind = "transfer", NEW q \in Paths \ touched',
                        at' \in {"looked", "staging", "copying"} \/ ~Replaced(q)'
                 PROVE  Kept(q)'
    BY <2>1 DEF AllKept
  <2>3. Kept(q)
    BY <2>1, <2>2, ReplacedStays DEF AllKept
  <2>4. /\ tree'[Dest][q].kind = tree[Dest][q].kind
        /\ tree[Dest][q].kind # "dir" => tree'[Dest][q] = tree[Dest][q]
        /\ aside'[q] = aside[q]
    BY <2>1, <2>2 DEF TreesEdited, AsideEdited
  <2>5. Same(tree[Dest][q], before[Dest][q]) => Same(tree'[Dest][q], before[Dest][q])
    BY <2>4 DEF Same
  <2> QED
    BY <2>1, <2>3, <2>4, <2>5, KeptStays
<1>2. CASE Apart /\ LookLocal
  <2>1. /\ UNCHANGED <<job, tree>> /\ before' = [before EXCEPT !["local"] = tree["local"]]
        /\ before = [s \in Sides |-> Empty] /\ job \in Jobs
    BY <1>2 DEF LookLocal, Kinds, askedVars, TypeOK, TransportTypeOK
  <2>2. Dest' = Dest /\ Dest \in Sides
    BY <2>1, SideFacts DEF Dest
  <2>3. before'[Dest] = IF Dest = "local" THEN tree[Dest] ELSE Empty
    BY <2>1, <2>2 DEF Sides
  <2>4. \A q \in Paths : Kept(q)'
    BY <2>1, <2>2, <2>3 DEF Kept, Same, Empty
  <2> QED
    BY <2>4 DEF AllKept
<1>3. CASE Apart /\ Preflight
  <2>1. /\ UNCHANGED <<job, tree, aside>> /\ before' = [before EXCEPT !["remote"] = tree["remote"]]
        /\ at = "looked" /\ job \in Jobs /\ before \in [Sides -> [Paths -> Entries]]
        /\ touched' = IF Dest = "remote" THEN {} ELSE touched
    BY <1>3 DEF Preflight, askedVars, slotVars, TypeOK, TransportTypeOK
  <2>2. Dest' = Dest /\ Dest \in Sides
    BY <2>1, SideFacts DEF Dest
  <2>3. before'[Dest] = IF Dest = "remote" THEN tree[Dest] ELSE before[Dest]
    BY <2>1, <2>2 DEF Sides
  <2>4. CASE Dest = "remote"
    BY <2>1, <2>2, <2>3, <2>4 DEF AllKept, Kept, Same
  <2>5. CASE Dest # "remote"
    BY <2>1, <2>2, <2>3, <2>5 DEF AllKept, Kept
  <2> QED
    BY <2>4, <2>5
<1>4. CASE Apart /\ Ship
  <2>1. UNCHANGED <<job, before, tree, aside, touched>> /\ at \in {"staging", "copying"}
    BY <1>4 DEF Ship, Staging, askedVars, userVars
  <2>2. SUFFICES ASSUME job.kind = "transfer", NEW q \in Paths \ touched',
                        at' \in {"looked", "staging", "copying"} \/ ~Replaced(q)'
                 PROVE  Kept(q)'
    BY <2>1 DEF AllKept
  <2>3. Kept(q)
    BY <2>1, <2>2 DEF AllKept
  <2> QED
    BY <2>1, <2>3, KeptStays
<1>5. CASE Apart /\ FallBack
  <2>1. /\ UNCHANGED <<before, tree, aside, touched>> /\ at \in {"staging", "copying"} /\ job.kind = "transfer"
        /\ job' = [job EXCEPT !.rsync = FALSE]
    BY <1>5 DEF FallBack, Staging, userVars, slotVars, Kinds
  <2>2. Dest' = Dest
    BY <1>5, SidesStay DEF TypeOK, TransportTypeOK
  <2> QED
    BY <2>1, <2>2 DEF AllKept, Kept
<1>6. ASSUME NEW p \in Paths, Apart /\ Aside(p)
      PROVE  AllKept'
  <2>1. UNCHANGED <<job, before, todo, touched>> /\ current = NoPath /\ Running /\ p \in todo /\ step' = "aside"
    BY <1>6 DEF Aside, askedVars, userVars, Installing, Running
  <2>2. SUFFICES ASSUME job.kind = "transfer", NEW q \in Paths \ touched',
                        at' \in {"looked", "staging", "copying"} \/ ~Replaced(q)'
                 PROVE  Kept(q)'
    BY <2>1 DEF AllKept
  <2>3. at' \notin {"looked", "staging", "copying"} /\ ~Replaced(q)
    <3>1. at' \notin {"looked", "staging", "copying"}
      BY <1>6 DEF Aside, Installing
    <3>2. \A t \in Tops(job.batch) : t # NoPath
      BY SideFacts, BoundsAssumption DEF Tops, BoundsAssumption, TypeOK, TransportTypeOK
    <3> QED
      BY <2>1, <2>2, <3>1, <3>2 DEF Replaced
  <2>4. Kept(q) /\ aside[q] = Gone
    BY <2>1, <2>2, <2>3, NothingAside DEF AllKept
  <2>5. /\ tree'[Dest][q] = IF q \in Subtree(p) THEN Gone ELSE WithParents(tree[Dest], p)[q]
        /\ aside'[q] = IF q \in Subtree(p) THEN tree[Dest][q] ELSE Gone
    BY <1>6, <2>2, AsideStep DEF TreeBecomes
  <2>6. tree[Dest][q] # Gone => WithParents(tree[Dest], p)[q] = tree[Dest][q]
    BY <2>2 DEF WithParents
  <2>7. before[Dest][q] # Gone => Same(tree[Dest][q], before[Dest][q]) /\ tree[Dest][q] # Gone
    BY <2>2, <2>4, KeptThere
  <2> QED
    BY <2>1, <2>4, <2>5, <2>6, <2>7, KeptStays
<1>7. CASE Apart /\ Place
  <2>1. /\ UNCHANGED <<job, before, todo, aside, current>> /\ touched' = touched \ Subtree(current)
        /\ step = "aside" /\ step' = "placed" /\ at' \notin {"looked", "staging", "copying"}
        /\ job.kind # "delete"
    BY <1>7 DEF Place, askedVars, Installing
  <2>2. SUFFICES ASSUME job.kind = "transfer", NEW q \in Paths \ touched',
                        at' \in {"looked", "staging", "copying"} \/ ~Replaced(q)'
                 PROVE  Kept(q)'
    BY <2>1 DEF AllKept
  <2>3. current \in Tops(job.batch)
    BY <2>1, <2>2 DEF InHand
  <2>4. q \notin Subtree(current) /\ ~Replaced(q)
    BY <2>1, <2>2, <2>3 DEF Replaced
  <2>5. Kept(q)
    BY <2>1, <2>2, <2>4 DEF AllKept
  <2>6. tree'[Dest][q] = tree[Dest][q]
    BY <1>7, <2>2, <2>4, PlaceStep DEF TreeBecomes
  <2> QED
    BY <2>1, <2>5, <2>6, KeptStays
<1>8. CASE Apart /\ Discard
  <2>1. /\ UNCHANGED <<job, before, tree, touched>> /\ todo' = todo \ {current}
        /\ step = "placed" /\ step' = "none" /\ at' \notin {"looked", "staging", "copying"}
        /\ job.kind # "delete"
    BY <1>8 DEF Discard, askedVars, userVars, Installing
  <2>2. SUFFICES ASSUME job.kind = "transfer", NEW q \in Paths \ touched',
                        at' \in {"looked", "staging", "copying"} \/ ~Replaced(q)'
                 PROVE  Kept(q)'
    BY <2>1 DEF AllKept
  <2>3. current \in Tops(job.batch) /\ current # NoPath
    BY <2>1, <2>2 DEF InHand
  <2>4. q \notin Subtree(current) /\ ~Replaced(q)
    BY <2>1, <2>2, <2>3 DEF Replaced
  <2>5. Kept(q) /\ aside[q] = Gone
    BY <2>1, <2>2, <2>3, <2>4 DEF AllKept, SetAside
  <2>6. before[Dest][q] # Gone => Same(tree[Dest][q], before[Dest][q])
    BY <2>2, <2>5, KeptThere
  <2> QED
    BY <2>1, <2>5, <2>6, KeptStays
<1>9. CASE Apart /\ Reinstates
  <2>1. /\ UNCHANGED <<job, before, todo, touched>>
        /\ step = "aside" /\ step' = "none" /\ at' \notin {"looked", "staging", "copying"}
        /\ job.kind # "delete"
    BY <1>9 DEF Reinstates, askedVars, userVars, Installing
  <2>2. SUFFICES ASSUME job.kind = "transfer", NEW q \in Paths \ touched',
                        at' \in {"looked", "staging", "copying"} \/ ~Replaced(q)'
                 PROVE  Kept(q)'
    BY <2>1 DEF AllKept
  <2>3. current # NoPath
    BY <2>1 DEF InHand
  <2>4. ~Replaced(q)
    BY <2>1, <2>2 DEF Replaced
  <2>5. Kept(q)
    BY <2>1, <2>2, <2>4 DEF AllKept
  <2>6. tree'[Dest][q] = IF q \in Subtree(current) THEN aside[q] ELSE tree[Dest][q]
    BY <1>9, <2>2, BackStep DEF TreeBecomes
  <2>7. CASE q \in Subtree(current)
    <3>1. tree[Dest][q] = Gone
      BY <2>1, <2>2, <2>7 DEF Emptied
    <3>2. before[Dest][q] # Gone => ~Same(tree[Dest][q], before[Dest][q])
      <4>1. Dest \in Sides
        BY SideFacts DEF TypeOK, TransportTypeOK
      <4>2. before \in [Sides -> [Paths -> Entries]] /\ q \in Paths
        BY <2>2 DEF TypeOK, TransportTypeOK
      <4>3. before[Dest][q] \in Entries
        BY <4>1, <4>2
      <4> QED
        BY <3>1, <4>3, EntryFacts DEF Same
    <3> QED
      BY <2>1, <2>5, <2>6, <2>7, <3>2, KeptStays
  <2>8. CASE q \notin Subtree(current)
    <3>1. aside[q] = Gone
      BY <2>2, <2>3, <2>8 DEF SetAside
    <3>2. before[Dest][q] # Gone => Same(tree[Dest][q], before[Dest][q])
      BY <2>2, <2>5, <3>1, KeptThere
    <3> QED
      BY <2>1, <2>5, <2>6, <2>8, <3>2, KeptStays
  <2> QED
    BY <2>7, <2>8
<1>10. CASE Apart /\ LetsGo
  <2>1. /\ UNCHANGED <<job, before, tree, aside, todo, touched>>
        /\ step \in {"aside", "restoring", "back"} /\ step' = "none" /\ at' \notin {"looked", "staging", "copying"}
    BY <1>10 DEF LetsGo, askedVars, userVars
  <2>2. SUFFICES ASSUME job.kind = "transfer", NEW q \in Paths \ touched',
                        at' \in {"looked", "staging", "copying"} \/ ~Replaced(q)'
                 PROVE  Kept(q)'
    BY <2>1 DEF AllKept
  <2>3. ~Replaced(q)
    BY <2>1, <2>2 DEF Replaced
  <2>4. Kept(q)
    BY <2>1, <2>2, <2>3 DEF AllKept
  <2> QED
    BY <2>1, <2>4, KeptStays
<1>11. ASSUME NEW p \in Paths, Apart /\ Keeps(p)
      PROVE  AllKept'
  <2>1. /\ UNCHANGED <<job, before, aside, touched>> /\ current = NoPath /\ Running
        /\ todo' = todo \ {p} /\ step' = step /\ current' = current /\ at' \notin {"looked", "staging", "copying"}
    BY <1>11 DEF Keeps, askedVars, userVars, Running
  <2>2. SUFFICES ASSUME job.kind = "transfer", NEW q \in Paths \ touched',
                        at' \in {"looked", "staging", "copying"} \/ ~Replaced(q)'
                 PROVE  Kept(q)'
    BY <2>1 DEF AllKept
  <2>3. ~Replaced(q)
    BY <2>1, <2>2 DEF Replaced
  <2>4. Kept(q) /\ aside[q] = Gone
    BY <2>1, <2>2, <2>3, NothingAside DEF AllKept
  <2>5. before[Dest][q] # Gone => Same(tree[Dest][q], before[Dest][q]) /\ tree[Dest][q] # Gone
    BY <2>2, <2>4, KeptThere
  <2>6. tree[Dest][q] # Gone => tree'[Dest][q] = tree[Dest][q]
    BY <1>11, <2>2, KeepsStep DEF TreeBecomes, WithParents
  <2> QED
    BY <2>1, <2>4, <2>5, <2>6, KeptStays
<1>12. CASE Apart /\ DeleteEnds
  <2>1. job' = job /\ job.kind = "delete"
    BY <1>12 DEF DeleteEnds, Kinds, askedVars
  <2> QED
    BY <2>1 DEF AllKept
<1>13. CASE \/ Apart /\ Ceases
            \/ Apart /\ Orphans
            \/ \E p \in Paths : Apart /\ Stages(p)
            \/ Apart /\ LookAgain
            \/ Apart /\ Verify
            \/ FinalLook
            \/ Settle
            \/ UNCHANGED wholeVars
  <2>1. /\ UNCHANGED <<job, before, tree, aside, todo, current, step, touched>>
        /\ at' \in {"looked", "staging", "copying"} => at \in {"looked", "staging", "copying"}
    BY <1>13 DEF Ceases, Orphans, Stages, Staging, LookAgain, Verify, FinalLook, Settle, askedVars,
     slotVars, userVars, wholeVars, vars
  <2>2. SUFFICES ASSUME job.kind = "transfer", NEW q \in Paths \ touched',
                        at' \in {"looked", "staging", "copying"} \/ ~Replaced(q)'
                 PROVE  Kept(q)'
    BY <2>1 DEF AllKept
  <2>3. Kept(q)
    BY <2>1, <2>2, ReplacedStays DEF AllKept
  <2> QED
    BY <2>1, <2>3, KeptStays
<1>14. CASE \/ CompareLocal
            \/ CompareRemote
  <2>1. before' = [s \in Sides |-> Empty] /\ job' \in Jobs
    BY <1>14, SidesStay DEF CompareLocal, CompareRemote, Kinds, TypeOK, TransportTypeOK
  <2>2. Dest' \in Sides
    BY <2>1 DEF Dest, Sides
  <2>3. \A q \in Paths : Kept(q)'
    BY <2>1, <2>2 DEF Kept, Empty
  <2> QED
    BY <2>3 DEF AllKept
<1>15. CASE \/ Apart /\ BeginDelete
            \/ \E p \in Paths : Apart /\ Skips(p)
            \/ \E p \in Paths : Apart /\ Takes(p)
            \/ Apart /\ Judge
            \/ Apart /\ DeleteAway
            \/ Apart /\ DeleteFails
            \/ Apart /\ Restores
            \/ Apart /\ PutsBack
  <2>1. job' = job /\ job.kind = "delete"
    BY <1>15 DEF BeginDelete, Skips, Takes, Judge, DeleteAway, DeleteFails, Restores, PutsBack,
     Deleting, askedVars
  <2> QED
    BY <2>1 DEF AllKept
<1> QED
  BY <1>1, <1>2, <1>3, <1>4, <1>5, <1>6, <1>7, <1>8, <1>9, <1>10, <1>11, <1>12, <1>13, <1>14,
     <1>15 DEF Step

\* A path reported as completed has at the destination what was sent.
LEMMA CompletedSharedKept ==
    ASSUME TypeOK, InHand, Kinds, SetAside, Sending, Referenced, Installed, CompletedShared, Step
    PROVE  CompletedShared'
<1>1. CASE Apart /\ User
  <2>1. /\ TreesEdited /\ touched \subseteq touched' /\ late \subseteq late'
        /\ UNCHANGED <<job, before, reference, reported>>
    BY <1>1, UserStep DEF RestEdited
  <2>2. Dest' = Dest /\ Source' = Source /\ reported \subseteq Paths
    BY <2>1, SideFacts DEF Dest, Source, TypeOK, TransportTypeOK
  <2>3. \A p : Sent(p)' = Sent(p)
    BY <2>1, <2>2 DEF Sent
  <2>4. ASSUME job.kind = "transfer", NEW p \in reported \ touched'
        PROVE  /\ tree'[Dest][p].kind = tree[Dest][p].kind
               /\ tree[Dest][p].kind = "file" => tree'[Dest][p] = tree[Dest][p]
    BY <2>1, <2>2, <2>4 DEF TreesEdited
  <2> QED
    BY <2>1, <2>2, <2>3, <2>4 DEF CompletedShared
<1>2. CASE Apart /\ Verify
  <2> DEFINE seen == [found EXCEPT ![SecondLook] = tree[SecondLook]]
  <2>1. /\ UNCHANGED <<job, before, reference, tree, stage, touched, late>> /\ at = "verifying"
        /\ \A p \in reported' : p \in job.batch /\ SourceStable(p, seen)
    BY <1>2 DEF Verify, askedVars, stageVars, userVars
  <2>2. /\ job \in Jobs /\ Dest' = Dest /\ Source' = Source /\ Source \in Sides /\ job.batch \subseteq Paths
        /\ found \in [Sides -> [Paths -> Entries]] /\ stage \in [Paths -> Entries]
    BY <2>1, SideFacts DEF Dest, Source, TypeOK, TransportTypeOK
  <2>3. IF FirstLook = Source THEN seen[Source] = found[Source] ELSE seen[Source] = tree[Source]
    BY <2>2, SideFacts DEF FirstLook, SecondLook, Sides
  <2> HIDE DEF seen
  <2>4. \A p : Sent(p)' = Sent(p)
    BY <2>1, <2>2 DEF Sent
  <2>5. ASSUME job.kind = "transfer", NEW p \in reported' \ touched
        PROVE  /\ tree[Dest][p].kind = before[Source][p].kind
               /\ tree[Dest][p].kind = "file" =>
                    /\ tree[Dest][p] = Sent(p) /\ tree[Dest][p].quick = before[Source][p].quick
                    /\ tree[Dest][p] = before[Source][p] \/ tree[Dest][p].v \in late
    <3>1. p \in job.batch /\ p \in Paths /\ seen[Source][p] = Sent(p)
      BY <2>1, <2>2, <2>5 DEF SourceStable
    <3>2. stage[p] = Sent(p) /\ stage[p] # Gone
      <4>1. /\ tree[Source][p] = Sent(p) => stage[p] \in {Gone, Sent(p)}
            /\ stage[p] # Gone
            /\ FirstLook = Source /\ found[Source][p] = Sent(p) => stage[p] = Sent(p)
        BY <2>1, <2>5, <3>1 DEF Sending, Staging
      <4> QED
        BY <2>3, <3>1, <4>1
    <3>3. Replaced(p)
      <4>1. todo = {}
        BY <2>1 DEF InHand
      <4>2. PICK t \in Tops(job.batch) : p \in Subtree(t)
        BY <2>2, <3>1, TopAbove
      <4> QED
        BY <4>1, <4>2 DEF Replaced
    <3>4. Same(tree[Dest][p], Sent(p))
      BY <2>1, <2>5, <3>1, <3>2, <3>3 DEF Installed
    <3>5. CASE job.push /\ job.rsync
      <4>1. Sent(p) = reference[p]
        BY <3>5 DEF Sent
      <4>2. /\ Alike(reference[p], before[Source][p])
            /\ reference[p] = before[Source][p] \/ reference[p].v \in late
        BY <3>1, <3>2, <3>5 DEF Referenced
      <4> QED
        BY <3>4, <4>1, <4>2 DEF Same, Alike
    <3>6. CASE ~(job.push /\ job.rsync)
      BY <3>4, <3>6 DEF Same, Sent
    <3> QED
      BY <3>5, <3>6
  <2> QED
    BY <2>1, <2>2, <2>4, <2>5 DEF CompletedShared
<1>3. CASE \/ Apart /\ Ceases
           \/ Apart /\ Orphans
           \/ Apart /\ LetsGo
           \/ Apart /\ DeleteEnds
           \/ FinalLook
           \/ Settle
           \/ UNCHANGED wholeVars
  <2>1. UNCHANGED <<job, before, reference, tree, reported, touched, late>>
    BY <1>3 DEF Ceases, Orphans, DeleteEnds, FinalLook, Settle, LetsGo, askedVars, stageVars, resultVars,
     userVars, wholeVars, vars
  <2> QED
    BY <2>1 DEF CompletedShared, Dest, Source, Sent
<1>4. CASE \/ Apart /\ BeginDelete
           \/ \E p \in Paths : Apart /\ Skips(p)
           \/ \E p \in Paths : Apart /\ Takes(p)
           \/ Apart /\ Judge
           \/ Apart /\ DeleteAway
           \/ Apart /\ DeleteFails
           \/ Apart /\ Restores
           \/ Apart /\ PutsBack
  <2>1. job' = job /\ job.kind = "delete"
    BY <1>4 DEF BeginDelete, Skips, Takes, Judge, DeleteAway, DeleteFails, Restores, PutsBack,
     Deleting, askedVars
  <2> QED
    BY <2>1 DEF CompletedShared
<1>5. CASE \/ Apart /\ LookLocal
           \/ Apart /\ Preflight
           \/ \E p \in Paths : Apart /\ Stages(p)
           \/ Apart /\ Ship
           \/ \E p \in Paths : Apart /\ Aside(p)
           \/ Apart /\ Place
           \/ Apart /\ Discard
           \/ Apart /\ Reinstates
           \/ \E p \in Paths : Apart /\ Keeps(p)
           \/ Apart /\ LookAgain
  <2>1. UNCHANGED <<job, reported>> /\ at \in Unsent \cup {"installing", "orphaned"}
    BY <1>5 DEF LookLocal, Preflight, Stages, Ship, Aside, Place, Discard, Reinstates, Keeps,
     LookAgain, askedVars, resultVars, Installing, Staging, Unsent
  <2>2. job.kind = "transfer" => reported' = {}
    BY <2>1 DEF Kinds, Unsent
  <2> QED
    BY <2>1, <2>2 DEF CompletedShared
<1>6. CASE \/ Apart /\ FallBack
           \/ CompareLocal
           \/ CompareRemote
  <2>1. reported' = {}
    BY <1>6 DEF FallBack, CompareLocal, CompareRemote, resultVars, Staging, InHand, Unsent
  <2> QED
    BY <2>1 DEF CompletedShared
<1> QED
  BY <1>1, <1>2, <1>3, <1>4, <1>5, <1>6 DEF Step

-----------------------------------------------------------------------------
(* The invariant and what follows.                                         *)

\* The trees a job starts with hold entries of the first two versions.
LEMMA FirstTrees ==
    ASSUME tree \in PairTrees
    PROVE  /\ tree \in [Sides -> [Paths -> Entries]]
           /\ \A s \in Sides, p \in Paths : tree[s][p].v <= 2
<1> DEFINE Firsts == {Gone} \cup UNION {{File(v, v), Folder(v)} : v \in {1, 2}}
<1>1. \A e \in Firsts : e \in Entries /\ e.v <= 2
  <2>1. 1 \in 1..(2 + MaxEdits) /\ 2 \in 1..(2 + MaxEdits)
    BY BoundsAssumption DEF BoundsAssumption
  <2>2. Gone \in Entries /\ Gone.v <= 2
    BY EntryFacts
  <2>3. ASSUME NEW v \in {1, 2}
        PROVE  /\ File(v, v) \in Entries /\ Folder(v) \in Entries
               /\ File(v, v).v <= 2 /\ Folder(v).v <= 2
    <3>1. File(v, v).v = v /\ Folder(v).v = v /\ v \in 1..(2 + MaxEdits) /\ v <= 2
      BY <2>1, EntryFacts
    <3> QED
      BY <3>1, EntryFacts
  <2> QED
    BY <2>2, <2>3
<1>2. tree \in [Sides -> [Paths -> Firsts]]
  BY DEF PairTrees
<1> HIDE DEF Firsts
<1> QED
  BY <1>1, <1>2

\* A job starts with the types.
LEMMA InitTypes ==
    ASSUME ResolutionInit
    PROVE  TypeOK
<1>1. /\ tree \in [Sides -> [Paths -> Entries]] /\ expect = tree /\ job \in Jobs
      /\ Empty \in [Paths -> Entries]
  BY FirstTrees, EntryFacts DEF ResolutionInit, TransportInit, Empty
<1>2. /\ before = [s \in Sides |-> Empty] /\ found = [s \in Sides |-> Empty] /\ stage = Empty /\ aside = Empty
      /\ reference = Empty /\ linked = {} /\ todo = {} /\ current = NoPath /\ step = "none"
      /\ reported = {} /\ touched = {} /\ lost = {} /\ late = {} /\ edits = 0 /\ faults = 0
      /\ at \in {"ready", "asked"} /\ asked \in {"plain", "resolve", "fetch"} /\ echo = Gone /\ open \in BOOLEAN
  BY DEF ResolutionInit, TransportInit
<1>3. Subject \in Paths
  <2>1. job.batch # {} /\ job.batch \subseteq Paths
    BY <1>1 DEF Jobs
  <2> QED
    BY <2>1 DEF Subject
<1>4. record \in [Sides -> Entries]
  <2>1. record = [s \in Sides |-> Gone] \/ record = [s \in Sides |-> tree[s][Subject]]
    BY DEF ResolutionInit, AskedJob
  <2>2. \A s \in Sides : tree[s][Subject] \in Entries
    BY <1>1, <1>3
  <2> QED
    BY <2>1, <2>2, EntryFacts
<1>5. base \in Entries /\ echo \in Entries
  <2>1. base = Gone \/ base = record["remote"]
    BY DEF ResolutionInit, AskedJob
  <2> QED
    BY <1>2, <1>4, <2>1, EntryFacts DEF Sides
<1>6. EntryTypes /\ LookTypes
  BY <1>1, <1>2 DEF EntryTypes, LookTypes
<1>7. PlaceTypes /\ ReferenceTypes /\ PathTypes /\ LostTypes /\ RecordTypes
  BY <1>1, <1>2, <1>4, <1>5 DEF PlaceTypes, ReferenceTypes, PathTypes, LostTypes, RecordTypes
<1>8. CountTypes
  BY <1>2, BoundsAssumption DEF BoundsAssumption, CountTypes
<1> QED
  BY <1>1, <1>6, <1>7, <1>8, TypeParts

\* A job starts with the invariant.
LEMMA InitInv ==
    ASSUME ResolutionInit
    PROVE  Inv
<1>1. TypeOK
  BY InitTypes
<1>2. /\ before = [s \in Sides |-> Empty] /\ stage = Empty /\ reference = Empty /\ aside = Empty
      /\ linked = {} /\ todo = {} /\ current = NoPath /\ step = "none" /\ reported = {} /\ lost = {}
      /\ edits = 0 /\ expect = tree /\ tree \in PairTrees /\ at \in {"ready", "asked"}
      /\ at = "asked" <=> asked # "plain"
  BY DEF ResolutionInit, TransportInit
<1>3. job \in Jobs /\ Source \in Sides /\ Dest \in Sides /\ job.batch \subseteq Paths
  BY <1>1, SideFacts DEF TypeOK, TransportTypeOK
<1>4. InHand
  BY <1>2 DEF InHand, Unsent
<1>5. Kinds
  <2>1. at = "asked" => job.kind = "transfer"
    BY <1>2 DEF ResolutionInit, AskedJob
  <2> QED
    BY <1>2, <2>1 DEF Kinds
<1>6. SetAside
  BY <1>2 DEF SetAside
<1>7. Fresh
  <2>1. \A s \in Sides, p \in Paths : tree[s][p].v <= 2
    BY <1>2, FirstTrees
  <2>2. \A p \in Paths : Empty[p].v = 0
    BY EntryFacts DEF Empty
  <2> QED
    BY <1>2, <2>1, <2>2 DEF Fresh
<1>8. Sending /\ Referenced /\ Installed /\ Emptied /\ Quarantine /\ CompletedShared /\ DeleteKeeps
  BY <1>2 DEF Sending, Referenced, Looked, Empty, Installed, Emptied, Quarantine, CompletedShared, DeleteKeeps
<1>9. AllKept
  BY <1>2, <1>3 DEF AllKept, Kept, Empty
<1>10. Requested
  <2>1. asked = "plain" => (job.kind = "transfer" => \A p \in job.batch : expect[Source][p] # Gone)
    BY <1>2 DEF ResolutionInit, PlannedJob
  <2>2. asked # "plain" => /\ job.batch = {Subject} /\ job.hashed
                           /\ asked = "fetch" => /\ ~job.push /\ base = record["remote"]
                                                 /\ record["remote"].kind = "file"
    <3>1. ASSUME NEW p \in Paths, job.batch = {p}
          PROVE  Subject = p
      BY <3>1 DEF Subject
    <3> QED
      BY <3>1 DEF ResolutionInit, AskedJob, Sides
  <2> QED
    BY <1>2, <2>1, <2>2 DEF Requested, Planned
<1> QED
  BY <1>1, <1>4, <1>5, <1>6, <1>7, <1>8, <1>9, <1>10 DEF Inv

\* What has been settled is what the owner chose.
LEMMA SettledFollows ==
    ASSUME TypeOK, Requested, CompletedShared
    PROVE  SettledIsShared
<1> SUFFICES ASSUME at = "settled", Subject \notin touched
             PROVE  /\ tree[Dest][Subject].kind = Chosen.kind /\ base.kind = Chosen.kind
                    /\ Chosen.kind = "file" => /\ base.v = Chosen.v \/ base.v \in late
                                               /\ base = tree[Dest][Subject]
  BY DEF SettledIsShared
<1>1. /\ job.batch = {Subject} /\ job.hashed /\ reported = job.batch
      /\ expect[Source][Subject].kind = Chosen.kind /\ expect[Source][Subject].v = Chosen.v
      /\ job.kind = "delete" <=> Chosen.kind = "missing"
      /\ base = tree[Dest][Subject] /\ (job.kind = "delete" <=> base = Gone)
  BY DEF Requested, Planned
<1>2. job \in Jobs /\ Source \in Sides
  BY SideFacts DEF TypeOK, TransportTypeOK
<1>3. CASE job.kind = "delete"
  BY <1>1, <1>3, EntryFacts
<1>4. CASE job.kind = "transfer"
  <2>1. before[Source][Subject] = expect[Source][Subject]
    BY <1>1, <1>2, <1>4 DEF Requested, Planned, Agrees
  <2>2. /\ tree[Dest][Subject].kind = before[Source][Subject].kind
        /\ tree[Dest][Subject].kind = "file" =>
                \/ tree[Dest][Subject] = before[Source][Subject]
                \/ tree[Dest][Subject].v \in late
    BY <1>1, <1>4 DEF CompletedShared
  <2> QED
    BY <1>1, <2>1, <2>2
<1> QED
  BY <1>2, <1>3, <1>4, SideFacts

\* A batch, a resolution and a fetch have at every step what these are about: the invariant.
THEOREM JobsHold == Spec => []Inv
<1>1. ResolutionInit => Inv
  BY InitInv
<1>2. Inv /\ [Next]_wholeVars => Inv'
  <2> SUFFICES ASSUME Inv, [Next]_wholeVars
               PROVE  Inv'
    OBVIOUS
  <2>1. /\ TypeOK /\ InHand /\ Kinds /\ SetAside /\ Fresh /\ Sending /\ Referenced
        /\ Installed /\ Emptied /\ AllKept /\ Quarantine /\ Requested /\ CompletedShared /\ DeleteKeeps
    BY DEF Inv
  <2>2. faults \in 0..MaxFaults
    BY <2>1 DEF TypeOK, TransportTypeOK
  <2>3. Step
    BY <2>1, <2>2, Passes
  <2>4. TypeOK' /\ InHand' /\ Kinds' /\ SetAside' /\ Fresh'
    BY <2>1, <2>3, TypeKept, InHandKept, KindsKept, SetAsideKept, FreshKept
  <2>5. Sending' /\ Referenced' /\ Installed' /\ Emptied' /\ AllKept'
    BY <2>1, <2>3, SendingKept, ReferencedKept, InstalledKept, EmptiedKept, AllKeptKept
  <2>6. Quarantine' /\ Requested' /\ CompletedShared' /\ DeleteKeeps'
    BY <2>1, <2>3, QuarantineKept, RequestedKept, CompletedSharedKept, DeleteKeepsKept
  <2> QED
    BY <2>4, <2>5, <2>6 DEF Inv
<1> QED
  BY <1>1, <1>2, PTL DEF Spec

\* The variables of a job and of the request it serves have their types.
THEOREM TypeCorrect == Spec => []TypeOK
<1>1. Inv => TypeOK
  BY DEF Inv
<1> QED
  BY <1>1, JobsHold, PTL

\* What transfer() reports as completed is at the destination as it was sent, and that is
\* what the preflight saw or what a quiet edit made of it between the look and the link.
THEOREM CompletedIsShared == Spec => []CompletedShared
<1>1. Inv => CompletedShared
  BY DEF Inv
<1> QED
  BY <1>1, JobsHold, PTL

\* What the destination had is in its place or in the backup until it is replaced.
THEOREM BackupsKeep == Spec => []NothingVanishes
<1>1. Inv => NothingVanishes
  <2> SUFFICES ASSUME AllKept
               PROVE  NothingVanishes
    BY DEF Inv
  <2> QED
    BY DEF AllKept, Kept, Same, NothingVanishes
<1> QED
  BY <1>1, JobsHold, PTL

\* delete_expected destroys what it was told to expect, or what came after the last look.
THEOREM DeletionsKeep == Spec => []DeleteKeeps
<1>1. Inv => DeleteKeeps
  BY DEF Inv
<1> QED
  BY <1>1, JobsHold, PTL

\* A settled conflict or placeholder has as its base what is at the destination: the version
\* the owner chose, or what a quiet edit made of it between the look and the link.
THEOREM SettledShared == Spec => []SettledIsShared
<1>1. Inv => SettledIsShared
  BY SettledFollows DEF Inv
<1> QED
  BY <1>1, JobsHold, PTL
=============================================================================
