------------------------------ MODULE Resolution -------------------------------
(***************************************************************************)
(* What an owner asks for one path: resolve a conflict in favour of a side *)
(* (conflicts.py) or fetch a placeholder (fetch.py), by one transfer or    *)
(* deletion of module Transport.  The supervisor does no other work        *)
(* meanwhile (daemon.py, mutate); users go on changing both trees.         *)
(***************************************************************************)
EXTENDS Transport

VARIABLES
    asked,      \* "plain": a batch of the engine; "resolve"; "fetch"
    record,     \* the conflict record, or the placeholder and its base
    base,       \* the base entry of the path
    echo,       \* the expected echo at the destination
    open        \* the conflict or the placeholder is unresolved

resolutionVars == <<asked, record, base, echo, open>>
transportVars == vars
wholeVars == <<vars, resolutionVars>>

Subject == CHOOSE p \in Paths : p \in job.batch
Chosen == record[Source]

\* The requests of an owner, on entries as they were recorded.
AskedJob ==
    /\ \E p \in Paths : job.batch = {p}
    /\ job.hashed /\ job.kind = "transfer"
    /\ record = [s \in Sides |-> tree[s][Subject]]
    /\ asked = "fetch" => ~job.push /\ \A s \in Sides : record[s].kind = "file"
    /\ base = IF asked = "fetch" THEN record["remote"] ELSE Gone

ResolutionInit ==
    /\ TransportInit /\ asked \in {"plain", "resolve", "fetch"} /\ echo = Gone
    /\ IF asked = "plain"
       THEN PlannedJob /\ record = [s \in Sides |-> Gone] /\ base = Gone /\ at = "ready" /\ open = FALSE
       ELSE AskedJob /\ at = "asked" /\ open = TRUE

-----------------------------------------------------------------------------
\* The local copy is read first; fetch wants the placeholder it knows.
CompareLocal ==
    /\ at = "asked"
    /\ expect' = [expect EXCEPT !["local"] = tree["local"]]
    /\ at' = IF asked = "fetch" /\ tree["local"][Subject].v # record["local"].v THEN "refused" ELSE "compared"
    /\ UNCHANGED <<tree, job, before, stageVars, slotVars, resultVars, userVars, lost, faults, resolutionVars>>

\* Coding error: the selected copy is not compared with the record.
CompareRemoteUnchecked ==
    LET seen == [expect EXCEPT !["remote"] = tree["remote"]] IN
    /\ at = "compared" /\ expect' = seen /\ at' = "ready"
    /\ job' = [job EXCEPT !.kind = IF seen[Source][Subject] = Gone THEN "delete" ELSE "transfer"]
    /\ UNCHANGED <<tree, before, stageVars, slotVars, resultVars, userVars, lost, faults, resolutionVars>>

\* The selected copy must be the recorded one; the other one may be anything, and is
\* what the destination is expected to be.  A selected copy that is missing is deleted
\* on the other side.
CompareRemote ==
    LET seen == [expect EXCEPT !["remote"] = tree["remote"]]
        got == seen[Source][Subject]
    IN
    /\ at = "compared" /\ expect' = seen
    /\ IF (IF asked = "resolve" THEN got = Chosen ELSE got.kind = "file" /\ got.v = base.v)
       THEN at' = "ready" /\ job' = [job EXCEPT !.kind = IF got = Gone THEN "delete" ELSE "transfer"]
       ELSE at' = "refused" /\ UNCHANGED job
    /\ UNCHANGED <<tree, before, stageVars, slotVars, resultVars, userVars, lost, faults, resolutionVars>>

\* After a transfer the destination is fingerprinted again; after a deletion both
\* sides, the selected one first.
FinalLook ==
    /\ at = "done" /\ asked # "plain"
    /\ found' = [found EXCEPT ![Source] = tree[Source], ![Dest] = Empty]
    /\ at' = IF reported = job.batch /\ (job.kind = "delete" => tree[Source][Subject] = Gone)
             THEN "counted" ELSE "failed"
    /\ UNCHANGED <<tree, askedVars, before, stageVars, slotVars, reported, userVars, lost, faults, resolutionVars>>

\* One transaction: the base, the expected echo and the end of the conflict.
Settle ==
    /\ at = "counted"
    /\ IF (job.kind = "delete") = (tree[Dest][Subject] = Gone)
       THEN /\ base' = tree[Dest][Subject] /\ echo' = tree[Dest][Subject]
            /\ open' = FALSE /\ at' = "settled"
       ELSE at' = "failed" /\ UNCHANGED <<base, echo, open>>
    /\ UNCHANGED <<tree, askedVars, before, stageVars, slotVars, resultVars, userVars, lost, faults, asked, record>>

Next ==
    \/ (User \/ Break \/ Transfer \/ Delete) /\ UNCHANGED resolutionVars
    \/ CompareLocal \/ CompareRemote \/ FinalLook \/ Settle

Spec == ResolutionInit /\ [][Next]_wholeVars

-----------------------------------------------------------------------------
\* The variables have their types.
TypeOK ==
    /\ TransportTypeOK /\ asked \in {"plain", "resolve", "fetch"}
    /\ record \in [Sides -> Entries] /\ base \in Entries /\ echo \in Entries /\ open \in BOOLEAN

\* A settled conflict or placeholder has a base both sides can be compared with: the
\* recorded version of the side the owner chose, there at the destination, unless users
\* changed the destination after it was installed, or the source, quietly, between the
\* look before staging and the hard link.
SettledIsShared ==
    at = "settled" /\ Subject \notin touched =>
        /\ tree[Dest][Subject].kind = Chosen.kind /\ base.kind = Chosen.kind
        /\ Chosen.kind = "file" =>
            base = tree[Dest][Subject] /\ (base.v = Chosen.v \/ base.v \in late)
=============================================================================
