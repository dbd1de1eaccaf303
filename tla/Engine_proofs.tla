----------------------------- MODULE Engine_proofs -----------------------------
(***************************************************************************)
(* The cycle of SyncEngine, and the first synchronisation of InitialSync   *)
(* over the same state, for every number of paths, edits and failures.     *)
(*                                                                         *)
(* Of the cycle: no difference is forgotten but one taken for an echo, the *)
(* base is what both sides had, a deletion removes the base, and an edit   *)
(* is only destroyed at the destination of a transfer under way. Edits are *)
(* numbered, so an entry that left what the cycle has seen never comes     *)
(* back to it: that is why comparing a source before and after a transfer  *)
(* shows that what was staged is what was planned.                         *)
(*                                                                         *)
(* Of the first synchronisation, for every number of runs too: it destroys *)
(* no edit that an event told of and that was not made during a transfer,  *)
(* what it stores as base was on both sides, and what it hands over to the *)
(* engine is covered. A bulk transfer decides on one look at the two sides *)
(* and, on a side that holds what an earlier run put there, recognises     *)
(* that by the echoes and the base. It destroys nothing because every      *)
(* entry it may find on such a side is accounted for: kept, or of an edit  *)
(* whose event is still to be planned, or of an edit of which no event     *)
(* will tell (`AllTraced'). Most of the proof is that cycles keep this     *)
(* when they acknowledge events, which they also do for what they take for *)
(* an echo.                                                                *)
(***************************************************************************)
EXTENDS InitialSync, TLAPS

-----------------------------------------------------------------------------
(* The invariant: one part for each thing a cycle relies on.               *)

DiskTypes ==
    /\ disk \in [Sides \X Paths -> Contents] /\ seen \in [Sides \X Paths -> Contents]
    /\ base \in [Paths -> Contents] /\ after \in [Paths -> Contents]
    /\ staged \in [Paths -> Contents]
    /\ edits \in 0..MaxEdits /\ faults \in 0..MaxFaults
    /\ kept \subseteq Versions /\ raced \subseteq Versions /\ lost \subseteq Versions

JournalTypes ==
    /\ raw \in [Sides -> SUBSET Paths] /\ pend \in [Sides -> SUBSET (Paths \cup {Rescan})]
    /\ cap \in [Sides -> SUBSET (Paths \cup {Rescan})]
    /\ requeued \subseteq Paths /\ conflicts \subseteq Paths /\ retried \subseteq Paths
    /\ swallowed \subseteq Paths

CycleTypes ==
    /\ pc \in {"down", "idle", "audit", "observe", "plan", "stage", "copy", "install",
               "postflight", "rehash", "verify", "commit", "refresh"}
    /\ stage \in 1..5
    /\ echo \in [Sides \X Paths -> Contents \cup {NoEcho}]
    /\ matched \subseteq Sides \X Paths
    /\ plan \in [Paths -> {"idle", "none", "update-base", "conflict"} \cup Transfers \cup Deletions]
    /\ installed \subseteq Paths /\ changed \subseteq Paths

Types == DiskTypes /\ JournalTypes /\ CycleTypes

\* A cycle that has decided what to do and has not committed it.
Executing == pc \in {"stage", "copy", "install", "postflight", "rehash", "verify", "commit"}

\* No version is older than the edits: the next one is new.
Numbered ==
    /\ \A s \in Sides, p \in Paths : disk[<<s, p>>] <= edits /\ seen[<<s, p>>] <= edits
    /\ \A p \in Paths : staged[p] <= edits

\* What is on both sides is kept.
SharedIsKept ==
    \A p \in Paths :
        /\ disk[<<"local", p>>] = disk[<<"remote", p>>] => disk[<<"local", p>>] \in kept \cup {Missing}
        /\ seen[<<"local", p>>] = seen[<<"remote", p>>] => seen[<<"local", p>>] \in kept \cup {Missing}

\* A version that does not count as an edit of its side.
Safe(v) == v \in kept \cup raced \cup {Missing}
BasesSafe == \A p \in Paths : Safe(base[p]) /\ Safe(after[p])

\* What each decision was made on.
Decided(p) ==
    /\ plan[p] = "push" => seen[<<"local", p>>] # Missing /\ seen[<<"remote", p>>] \in {base[p], Missing}
    /\ plan[p] = "pull" => seen[<<"remote", p>>] # Missing /\ seen[<<"local", p>>] \in {base[p], Missing}
    /\ plan[p] = "delete-local" => seen[<<"local", p>>] = base[p] /\ seen[<<"remote", p>>] = Missing
    /\ plan[p] = "delete-remote" => seen[<<"remote", p>>] = base[p] /\ seen[<<"local", p>>] = Missing
    /\ plan[p] = "update-base" => seen[<<"local", p>>] = seen[<<"remote", p>>]
    /\ plan[p] = "none" => seen[<<"local", p>>] = base[p] /\ seen[<<"remote", p>>] = base[p]
Decisions ==
    /\ Executing => \A p \in Paths : Decided(p)
    /\ pc \in {"down", "idle", "audit", "observe", "plan"} => \A p \in Paths : plan[p] = "idle"

\* A path of the batch at work.
Transferring(p) ==
    LET s == Destination(plan[p])  t == Source(plan[p]) IN
    \* What an installation replaces is the base, nothing, or was written during the transfer.
    /\ p \notin installed => Safe(disk[<<s, p>>])
    \* A source that is what was planned is what was staged ...
    /\ pc # "copy" => /\ staged[p] # Missing
                      /\ disk[<<t, p>>] = seen[<<t, p>>] => staged[p] = seen[<<t, p>>]
    \* ... and is on both sides once it is installed.
    /\ pc \in {"install", "postflight"} /\ p \in installed /\ disk[<<t, p>>] = seen[<<t, p>>]
          => seen[<<t, p>>] \in kept
    /\ pc = "rehash" /\ p \notin changed => Safe(disk[<<s, p>>])
Transfer ==
    /\ pc \in {"copy", "install", "postflight", "rehash"} =>
          stage \in {1, 2} /\ \A p \in Active : Transferring(p)
    /\ pc \in {"stage", "copy"} /\ stage \in {1, 2} => installed = {}
    /\ pc \in {"postflight", "rehash"} => installed = Active
    /\ ~Executing => installed = {}

\* A watcher is to tell of the path, or of everything.
Noted(p) == \E s \in Sides : p \in raw[s] \/ {p, Rescan} \cap pend[s] # {}

\* What is not as it was seen is noted.
SeenOrNoted ==
    pc = "plan" \/ Executing =>
        \A s \in Sides, p \in Paths : disk[<<s, p>>] # seen[<<s, p>>] => Noted(p)

\* What the engine has replaced or deleted is noted.
Worked ==
    /\ pc \in {"install", "postflight", "rehash", "stage", "verify"} =>
          \A p \in installed \ changed : Noted(p)
    /\ Executing => \A p \in Paths, n \in 1..5 :
          n < stage /\ n # 5 /\ plan[p] = Stages[n] /\ p \notin changed => Noted(p)
    /\ pc = "verify" => stage \in {3, 4} /\ installed = Active
    /\ pc = "commit" =>
          stage = 5 /\ \A p \in Paths : plan[p] = "update-base" => after[p] = seen[<<"local", p>>]

\* A path that is not planned was requeued by nobody, and its events are echoes.
Echoed ==
    Executing =>
        /\ \A k \in matched : plan[k[2]] = "idle" => echo[k] = seen[k]
        /\ \A p \in requeued : plan[p] # "idle"
        /\ \A s \in Sides : \A p \in cap[s] \ {Rescan} : plan[p] = "idle" => <<s, p>> \in matched

\* The path is going to be planned, whatever becomes of the events the cycle has taken.
Later(p) == p \in requeued \cup conflicts \/ Noted(p)
\* The events the cycle has taken tell of the path.
Taken(p) == \E s \in Sides : p \in cap[s]
\* A cycle holds events only while it runs, and audits when one asked for it.
Taking ==
    /\ pc \in {"idle", "down", "refresh"} => \A s \in Sides : cap[s] = {}
    /\ pc = "audit" => \E s \in Sides : Rescan \in cap[s]
\* What is not the base is going to be planned, or was taken for an echo.
FollowedAt(p) ==
    pc \notin {"down", "audit"} =>
        \A s \in Sides : disk[<<s, p>>] # base[p] => Later(p) \/ Taken(p) \/ p \in swallowed
Followed == \A p \in Paths : FollowedAt(p)

\* The inductive invariant.
Engine ==
    /\ Types /\ Numbered /\ SharedIsKept /\ BasesSafe /\ Decisions /\ Transfer
    /\ SeenOrNoted /\ Worked /\ Echoed /\ Taking /\ Followed /\ LossOnlyInWindow
-----------------------------------------------------------------------------
(* The planner.                                                            *)

\* What a decision of the planner says of the entries it was made on.
LEMMA PlannedIs ==
    ASSUME Types, NEW p \in Paths
    PROVE  LET x == seen[<<"local", p>>]  y == seen[<<"remote", p>>]  b == base[p] IN
           /\ Planned(p) \in {"none", "update-base", "push", "pull", "delete-local", "delete-remote",
                             "conflict"}
           /\ Planned(p) = "push" => x # Missing /\ y \in {b, Missing}
           /\ Planned(p) = "pull" => y # Missing /\ x \in {b, Missing}
           /\ Planned(p) = "delete-local" => x = b /\ y = Missing
           /\ Planned(p) = "delete-remote" => y = b /\ x = Missing
           /\ Planned(p) = "update-base" => x = y
           /\ Planned(p) = "none" => x = b /\ y = b
<1> DEFINE x == seen[<<"local", p>>]
           y == seen[<<"remote", p>>]
           b == base[p]
<1>1. x \in Contents /\ y \in Contents /\ b \in Contents /\ Missing \in Contents
  BY DEF Types, DiskTypes, Contents, Sides
<1>2. ASSUME NEW v, NEW w
      PROVE  /\ EntryOf(v).kind = IF v = Missing THEN "missing" ELSE "file"
             /\ EntryOf(v).data = v
             /\ EntryOf(v).placeholder = FALSE
             /\ R!IsMissing(EntryOf(v)) <=> v = Missing
             /\ ~R!NeedsHash(EntryOf(v))
             /\ R!ContentEqual(EntryOf(v), EntryOf(w)) <=> v = w
  <2>1. /\ EntryOf(v) = IF v = Missing THEN R!MissingEntry ELSE R!File(v, v)
        /\ EntryOf(w) = IF w = Missing THEN R!MissingEntry ELSE R!File(w, w)
    BY DEF EntryOf
  <2> QED
    BY <2>1 DEF R!MissingEntry, R!File, R!IsMissing, R!NeedsHash, R!ContentEqual
<1> HIDE DEF x, y, b
<1>3. Planned(p) = R!PlanPath(EntryOf(b), EntryOf(x), EntryOf(y)).type
  BY DEF Planned, x, y, b
<1> DEFINE B == EntryOf(b)
           X == EntryOf(x)
           Y == EntryOf(y)
<1>4. /\ B.kind # "special" /\ X.kind # "special" /\ Y.kind # "special"
      /\ B.placeholder = FALSE
      /\ ~R!NeedsHash(X) /\ ~R!NeedsHash(Y)
      /\ R!IsMissing(X) <=> x = Missing
      /\ R!IsMissing(Y) <=> y = Missing
      /\ R!IsMissing(B) <=> b = Missing
      /\ R!ContentEqual(X, Y) <=> x = y
      /\ R!ContentEqual(X, B) <=> x = b
      /\ R!ContentEqual(Y, B) <=> y = b
      /\ X.kind = (IF x = Missing THEN "missing" ELSE "file")
      /\ Y.kind = (IF y = Missing THEN "missing" ELSE "file")
  BY <1>2
<1> HIDE DEF X, Y, B
<1>5. /\ R!MatchesBase(X, B) <=> x = b
      /\ R!MatchesBase(Y, B) <=> y = b
  BY <1>4 DEF R!MatchesBase
<1>6. /\ ~R!ContainsSpecial(B, X, Y) /\ ~R!PlaceholderChanged(B, X) /\ ~R!KindDiverged(X, Y)
      /\ R!HashRequests(B, X, Y) = {}
  BY <1>4 DEF R!ContainsSpecial, R!PlaceholderChanged, R!KindDiverged, R!HashRequests
<1>7. R!PlanPath(B, X, Y) = R!PlanIncremental(B, X, Y)
  BY <1>6 DEF R!PlanPath
<1>8. R!PlanIncremental(B, X, Y) =
         CASE x = y -> IF x = Missing /\ b = Missing THEN R!Nothing
                       ELSE R!Decide("update-base", R!MatchingBaseAfter(X, Y))
           [] b = Missing /\ x # y ->
                CASE x = Missing -> R!Decide("pull", Y)
                  [] y = Missing -> R!Decide("push", X)
                  [] OTHER -> R!Conflict
           [] OTHER ->
                CASE x = b /\ y = b -> R!Nothing
                  [] x = b /\ y # b -> IF y = Missing THEN R!Decide("delete-local", R!MissingEntry) ELSE R!Decide("pull", Y)
                  [] y = b /\ x # b -> IF x = Missing THEN R!Decide("delete-remote", R!MissingEntry) ELSE R!Decide("push", X)
                  [] OTHER -> R!Conflict
  BY <1>4, <1>5 DEF R!PlanIncremental
<1>9. /\ \A type, after_ : R!Decide(type, after_).type = type
      /\ R!Nothing.type = "none" /\ R!Conflict.type = "conflict"
  BY DEF R!Decide, R!Nothing, R!Conflict
<1>10. Planned(p) = R!PlanIncremental(B, X, Y).type
  BY <1>3, <1>7 DEF X, Y, B
<1>11. CASE x = y
  BY <1>8, <1>9, <1>10, <1>11 DEF x, y, b
<1>12. CASE x # y /\ b = Missing
  BY <1>8, <1>9, <1>10, <1>12 DEF x, y, b
<1>13. CASE x # y /\ b # Missing
  BY <1>8, <1>9, <1>10, <1>13 DEF x, y, b
<1> QED
  BY <1>11, <1>12, <1>13
-----------------------------------------------------------------------------
(* The steps.                                                              *)

\* The steps of the transfer and the deletions that find what they expect.
PreflightPasses ==
    /\ pc = "stage" /\ stage \in {1, 2} /\ \A p \in Active : Agrees(p)
    /\ pc' = "copy"
    /\ UNCHANGED <<disk, raw, pend, stores, cycle, bounds, history>>

CopyPasses ==
    /\ pc = "copy" /\ \A p \in Active : disk[<<Source(plan[p]), p>>] # Missing
    /\ staged' = [p \in Paths |-> IF p \in Active THEN disk[<<Source(plan[p]), p>>] ELSE Missing]
    /\ installed' = {}
    /\ pc' = "install"
    /\ UNCHANGED <<disk, raw, pend, stores, stage, cap, retried, seen, matched, plan, changed,
                   after, bounds, history>>

PostflightPasses ==
    /\ pc = "postflight"
    /\ changed \subseteq changed' /\ changed' \subseteq Paths
    /\ \A p \in Active \ changed' :
          LET s == Destination(plan[p])  t == Source(plan[p]) IN
          disk[<<t, p>>] = seen[<<t, p>>] /\ disk[<<s, p>>] = seen[<<t, p>>]
    /\ pc' = "rehash"
    /\ UNCHANGED <<disk, raw, pend, stores, stage, cap, retried, seen, matched, plan, staged,
                   installed, after, bounds, history>>

RehashPasses ==
    /\ pc = "rehash"
    /\ after' = [p \in Paths |->
                    IF p \in Active \ changed THEN disk[<<Destination(plan[p]), p>>] ELSE after[p]]
    /\ stage' = NextStage(stage)
    /\ installed' = {}
    /\ pc' = "stage"
    /\ UNCHANGED <<disk, raw, pend, stores, cap, retried, seen, matched, plan, staged, changed,
                   bounds, history>>

VerifyPasses ==
    /\ pc = "verify"
    /\ stage' = NextStage(stage)
    /\ installed' = {}
    /\ pc' = "stage"
    /\ UNCHANGED <<disk, raw, pend, stores, cap, retried, seen, matched, plan, staged, changed,
                   after, bounds, history>>

\* The cycle ends without a commit: it raises, or the supervisor dies.
GivesUp ==
    /\ pc # "down" /\ pc' \in {"idle", "down"}
    /\ Reset(FALSE)
    /\ echo' \in [Sides \X Paths -> Contents \cup {NoEcho}]
    /\ raw' \in [Sides -> SUBSET Paths] /\ (pc' = "idle" => raw' = raw)
    /\ edits' = edits /\ faults' \in 0..MaxFaults
    /\ UNCHANGED <<disk, base, requeued, conflicts, history>>

\* A step of a cycle that finds what it expects.
GoesOn ==
    \/ AuditDrift \/ Observe \/ CommitEchoes \/ StartPlan
    \/ PreflightPasses \/ CopyPasses
    \/ \E p \in Paths : Install(p)
    \/ PostflightPasses \/ RehashPasses
    \/ \E p \in Paths : Remove(p)
    \/ VerifyPasses \/ PrepareConflicts \/ Commit \/ Refresh

\* What a step may be.
Step ==
    \/ \E s \in Sides, p \in Paths : UserEdit(s, p)
    \/ \E s \in Sides, p \in Paths : Notify(s, p)
    \/ Overflow \/ RequestAudit
    \/ \E retry \in SUBSET Paths : CaptureAnd(retry)
    \/ AuditDrift \/ Observe \/ CommitEchoes \/ StartPlan
    \/ PreflightPasses \/ CopyPasses
    \/ \E p \in Paths : Install(p)
    \/ PostflightPasses \/ RehashPasses
    \/ \E p \in Paths : Remove(p)
    \/ VerifyPasses \/ PrepareConflicts \/ Commit \/ Refresh
    \/ GivesUp \/ Restart \/ UNCHANGED vars

\* Storing or consuming echoes leaves an echo store.
LEMMA EchoStore ==
    ASSUME NEW store \in [Sides \X Paths -> Contents \cup {NoEcho}], NEW keys, NEW value
    PROVE  Consume(store, keys, value) \in [Sides \X Paths -> Contents \cup {NoEcho}]
  BY DEF Consume

\* A cycle that raises gives up.
LEMMA Aborts ==
    ASSUME Types, NEW unused, Abort(unused), pc # "down", edits' = edits, faults' \in 0..MaxFaults
    PROVE  GivesUp
<1>1. echo \in [Sides \X Paths -> Contents \cup {NoEcho}] /\ raw \in [Sides -> SUBSET Paths]
  BY DEF Types, CycleTypes, JournalTypes
<1>2. Consume(echo, unused, Intended) \in [Sides \X Paths -> Contents \cup {NoEcho}]
  BY <1>1, EchoStore
<1> QED
  BY <1>1, <1>2 DEF Abort, GivesUp

\* A step of a cycle finds what it expects, or the cycle raises.
LEMMA CycleRestIs ==
    ASSUME Types, CycleRest \/ Fail
    PROVE  \/ GoesOn
           \/ \E unused : /\ Abort(unused) /\ pc \notin {"down", "idle"}
                          /\ edits' = edits /\ faults' \in 0..MaxFaults
                          /\ pc # "refresh" \/ faults' # faults
<1>1. faults \in 0..MaxFaults
  BY DEF Types, DiskTypes
<1>2. CASE Preflight
  <2>1. CASE \A p \in Active : Agrees(p)
    BY <1>2, <2>1 DEF Preflight, PreflightPasses, GoesOn
  <2>2. CASE ~\A p \in Active : Agrees(p)
    BY <1>1, <1>2, <2>2 DEF Preflight, bounds
  <2> QED
    BY <2>1, <2>2
<1>3. CASE CopySources
  <2>1. CASE \A p \in Active : disk[<<Source(plan[p]), p>>] # Missing
    BY <1>3, <2>1 DEF CopySources, CopyPasses, GoesOn
  <2>2. CASE ~\A p \in Active : disk[<<Source(plan[p]), p>>] # Missing
    BY <1>1, <1>3, <2>2 DEF CopySources, bounds
  <2> QED
    BY <2>1, <2>2
<1>4. CASE Postflight
  <2> DEFINE moved == {p \in Active : disk[<<Source(plan[p]), p>>] # seen[<<Source(plan[p]), p>>]}
             wrong == {p \in Active \ moved :
                          disk[<<Destination(plan[p]), p>>] # disk[<<Source(plan[p]), p>>]}
  <2>1. CASE wrong = {}
    <3>1. /\ pc = "postflight" /\ changed' = changed \cup moved /\ pc' = "rehash"
          /\ UNCHANGED <<disk, raw, pend, stores, stage, cap, retried, seen, matched, plan, staged,
                         installed, after, bounds, history>>
      BY <1>4, <2>1 DEF Postflight
    <3>2. changed \subseteq Paths /\ moved \subseteq Paths
      BY DEF Types, CycleTypes, Active, Batch
    <3>3. \A p \in Active \ moved :
             /\ disk[<<Source(plan[p]), p>>] = seen[<<Source(plan[p]), p>>]
             /\ disk[<<Destination(plan[p]), p>>] = disk[<<Source(plan[p]), p>>]
      BY <2>1
    <3>4. PostflightPasses
      BY <3>1, <3>2, <3>3 DEF PostflightPasses
    <3> QED
      BY <3>4 DEF GoesOn
  <2>2. CASE wrong # {}
    <3>1. pc = "postflight" /\ Abort(UnusedIntents) /\ UNCHANGED bounds
      BY <1>4, <2>2 DEF Postflight
    <3> QED
      BY <1>1, <3>1 DEF bounds
  <2> QED
    BY <2>1, <2>2
<1>5. CASE Rehash
  <2>1. CASE \A p \in Active \ changed : disk[<<Destination(plan[p]), p>>] # Missing
    BY <1>5, <2>1 DEF Rehash, RehashPasses, GoesOn
  <2>2. CASE ~\A p \in Active \ changed : disk[<<Destination(plan[p]), p>>] # Missing
    BY <1>1, <1>5, <2>2 DEF Rehash, bounds
  <2> QED
    BY <2>1, <2>2
<1>6. CASE VerifyDeleted
  <2>1. CASE \A p \in Active \ changed : disk[<<Destination(plan[p]), p>>] = Missing
    BY <1>6, <2>1 DEF VerifyDeleted, VerifyPasses, GoesOn
  <2>2. CASE ~\A p \in Active \ changed : disk[<<Destination(plan[p]), p>>] = Missing
    BY <1>1, <1>6, <2>2 DEF VerifyDeleted, bounds
  <2> QED
    BY <2>1, <2>2
<1>7. CASE Fail
  <2>1. PICK unused : /\ Abort(unused) /\ pc \notin {"down", "idle"} /\ edits' = edits
                      /\ faults' = faults + 1 /\ faults < MaxFaults
    BY <1>7 DEF Fail
  <2>2. faults' \in 0..MaxFaults /\ faults' # faults
    BY <1>1, <2>1, ConstantsAssumption
  <2> QED
    BY <2>1, <2>2
<1> QED
  BY <1>2, <1>3, <1>4, <1>5, <1>6, <1>7 DEF CycleRest, GoesOn

\* A step of the engine's specification is one of these.
LEMMA StepIs ==
    ASSUME Types, Next
    PROVE  Step
<1>1. CASE CycleRest \/ Fail
  <2>1. GoesOn \/ \E unused : /\ Abort(unused) /\ pc \notin {"down", "idle"}
                              /\ edits' = edits /\ faults' \in 0..MaxFaults
    BY <1>1, CycleRestIs
  <2>2. CASE GoesOn
    BY <2>2 DEF GoesOn, Step
  <2>3. ASSUME NEW unused, Abort(unused), pc \notin {"down", "idle"}, edits' = edits, faults' \in 0..MaxFaults
        PROVE  Step
    <3>1. GivesUp
      BY <2>3, Aborts
    <3> QED
      BY <3>1 DEF Step
  <2> QED
    BY <2>1, <2>2, <2>3
<1>2. CASE Crash
  <2>1. faults \in 0..MaxFaults /\ faults + 1 \in 0..MaxFaults
    BY <1>2, ConstantsAssumption DEF Types, DiskTypes, Crash
  <2>2. /\ echo \in [Sides \X Paths -> Contents \cup {NoEcho}]
        /\ raw' \in [Sides -> SUBSET Paths]
    BY <1>2 DEF Crash, Types, CycleTypes, JournalTypes
  <2>3. GivesUp
    BY <1>2, <2>1, <2>2 DEF Crash, GivesUp, stores
  <2> QED
    BY <2>3 DEF Step
<1>3. CASE Capture
  <2>1. conflicts \in SUBSET Paths
    BY DEF Types, JournalTypes
  <2> QED
    BY <1>3, <2>1 DEF Capture, Step
<1> QED
  BY <1>1, <1>2, <1>3 DEF Next, CycleStep, Step
-----------------------------------------------------------------------------
(* The stages.                                                             *)

\* The next stage of which there is something to do, or the last one.
LEMMA StageExists ==
    ASSUME NEW n \in 0..4, NEW B
    PROVE  \E m \in (n + 1)..5 : (m = 5 \/ m \in B) /\ \A k \in (n + 1)..(m - 1) : k \notin B
<1> DEFINE Q(m) == (m = 5 \/ m \in B) /\ \A k \in (n + 1)..(m - 1) : k \notin B
<1> SUFFICES \E m \in (n + 1)..5 : Q(m)
  OBVIOUS
<1>1. CASE n + 1 = 5 \/ n + 1 \in B
  <2>1. n + 1 \in (n + 1)..5 /\ Q(n + 1)
    BY <1>1
  <2> QED
    BY <2>1
<1>2. CASE n + 1 < 5 /\ n + 1 \notin B /\ (n + 2 = 5 \/ n + 2 \in B)
  <2>1. n + 2 \in (n + 1)..5 /\ Q(n + 2)
    BY <1>2
  <2> QED
    BY <2>1
<1>3. CASE n + 2 < 5 /\ n + 1 \notin B /\ n + 2 \notin B /\ (n + 3 = 5 \/ n + 3 \in B)
  <2>1. n + 3 \in (n + 1)..5 /\ Q(n + 3)
    BY <1>3
  <2> QED
    BY <2>1
<1>4. CASE n + 3 < 5 /\ n + 1 \notin B /\ n + 2 \notin B /\ n + 3 \notin B /\ (n + 4 = 5 \/ n + 4 \in B)
  <2>1. n + 4 \in (n + 1)..5 /\ Q(n + 4)
    BY <1>4
  <2> QED
    BY <2>1
<1>5. CASE n + 4 < 5 /\ n + 1 \notin B /\ n + 2 \notin B /\ n + 3 \notin B /\ n + 4 \notin B
  <2>1. n + 5 \in (n + 1)..5 /\ Q(n + 5)
    BY <1>5
  <2> QED
    BY <2>1
<1> QED
  BY <1>1, <1>2, <1>3, <1>4, <1>5

\* The stages NextStage skips have nothing to do.
LEMMA NextStageIs ==
    ASSUME NEW n \in 1..4
    PROVE  /\ NextStage(n) \in (n + 1)..5
           /\ \A k \in (n + 1)..(NextStage(n) - 1) : Batch(k) = {}
<1> DEFINE B == {k \in 1..5 : Batch(k) # {}}
           Q(m) == /\ m = 5 \/ Batch(m) # {}
                   /\ \A k \in (n + 1)..(m - 1) : Batch(k) = {}
<1>1. \E m \in (n + 1)..5 : (m = 5 \/ m \in B) /\ \A k \in (n + 1)..(m - 1) : k \notin B
  <2> HIDE DEF B
  <2> QED
    BY StageExists
<1>2. \E m \in (n + 1)..5 : Q(m)
  <2>1. PICK m \in (n + 1)..5 : (m = 5 \/ m \in B) /\ \A k \in (n + 1)..(m - 1) : k \notin B
    BY <1>1
  <2>2. \A k \in (n + 1)..(m - 1) : k \in 1..5
    OBVIOUS
  <2>3. Q(m)
    BY <2>1, <2>2
  <2> QED
    BY <2>3
<1>3. NextStage(n) = CHOOSE m \in (n + 1)..5 : Q(m)
  BY DEF NextStage
<1> HIDE DEF Q
<1>4. NextStage(n) \in (n + 1)..5 /\ Q(NextStage(n))
  BY <1>2, <1>3
<1> QED
  BY <1>4 DEF Q

\* The first stage of a plan is the first that has something to do.
LEMMA FirstStageIs ==
    ASSUME StartPlan
    PROVE  /\ stage' \in 1..5
           /\ \A k \in 1..(stage' - 1) : \A p \in Paths : plan'[p] # Stages[k]
<1> DEFINE B == {k \in 1..5 : \E p \in Paths : plan'[p] = Stages[k]}
           Q(m) == /\ m = 5 \/ \E p \in Paths : plan'[p] = Stages[m]
                   /\ \A k \in 1..(m - 1) : \A p \in Paths : plan'[p] # Stages[k]
<1>1. \E m \in 1..5 : (m = 5 \/ m \in B) /\ \A k \in 1..(m - 1) : k \notin B
  <2> HIDE DEF B
  <2>1. 0 \in 0..4 /\ 0 + 1 = 1
    OBVIOUS
  <2> QED
    BY <2>1, StageExists
<1>2. \E m \in 1..5 : Q(m)
  <2>1. PICK m \in 1..5 : (m = 5 \/ m \in B) /\ \A k \in 1..(m - 1) : k \notin B
    BY <1>1
  <2>2. \A k \in 1..(m - 1) : k \in 1..5
    OBVIOUS
  <2>3. Q(m)
    BY <2>1, <2>2
  <2> QED
    BY <2>3
<1>3. stage' = CHOOSE m \in 1..5 : Q(m)
  BY DEF StartPlan
<1> HIDE DEF Q
<1>4. stage' \in 1..5 /\ Q(stage')
  BY <1>2, <1>3
<1> QED
  BY <1>4 DEF Q
-----------------------------------------------------------------------------
(* Types.                                                                  *)

\* An entry of the transport or of a deletion is one of the entries of the side.
LEMMA ReplaceTypes ==
    ASSUME Types, NEW s \in Sides, NEW p \in Paths, NEW v \in Contents, Replace(s, p, v)
    PROVE  /\ disk' \in [Sides \X Paths -> Contents]
           /\ raw' \in [Sides -> SUBSET Paths]
           /\ kept' \subseteq Versions /\ lost' \subseteq Versions
<1>1. disk' \in [Sides \X Paths -> Contents] /\ raw' \in [Sides -> SUBSET Paths]
  BY DEF Types, DiskTypes, JournalTypes, Replace
<1>2. kept' \subseteq Versions
  BY DEF Types, DiskTypes, Replace, Shared
<1>3. disk[<<s, p>>] \in Contents
  BY DEF Types, DiskTypes
<1> QED
  BY <1>1, <1>2, <1>3 DEF Types, DiskTypes, Replace, Contents

\* The entries, versions and counters keep their types.
LEMMA DiskTypesKept ==
    ASSUME Types, Step
    PROVE  DiskTypes'
<1>1. ASSUME NEW s \in Sides, NEW p \in Paths, UserEdit(s, p)
      PROVE  DiskTypes'
  <2>1. /\ edits + 1 \in Versions
        /\ edits + 1 \in Contents
        /\ Missing \in Contents
        /\ edits + 1 \in 0..MaxEdits
    BY <1>1, ConstantsAssumption DEF UserEdit, Types, DiskTypes, Contents, Versions
  <2>2. PICK v \in {Missing, edits + 1} \ {disk[<<s, p>>]} :
           /\ disk' = [disk EXCEPT ![<<s, p>>] = v]
           /\ raced' = IF InFlight(s, p) THEN raced \cup ({v} \ {Missing}) ELSE raced
    BY <1>1 DEF UserEdit
  <2>3. disk' \in [Sides \X Paths -> Contents]
    BY <2>1, <2>2 DEF Types, DiskTypes
  <2>4. raced' \subseteq Versions
    BY <2>1, <2>2 DEF Types, DiskTypes
  <2> QED
    BY <1>1, <2>1, <2>3, <2>4 DEF UserEdit, Types, DiskTypes, stores, cycle
<1>2. ASSUME NEW s \in Sides, NEW p \in Paths, Notify(s, p)
      PROVE  DiskTypes'
  BY <1>2 DEF Notify, stores, cycle, bounds, history, Types, DiskTypes
<1>3. CASE Overflow
  <2>1. faults' \in 0..MaxFaults
    BY <1>3, ConstantsAssumption DEF Overflow, Types, DiskTypes
  <2> QED
    BY <1>3, <2>1 DEF Overflow, Types, DiskTypes, stores, cycle, history
<1>4. CASE RequestAudit
  BY <1>4 DEF RequestAudit, stores, cycle, bounds, history, Types, DiskTypes
<1>5. ASSUME NEW retry \in SUBSET Paths, CaptureAnd(retry)
      PROVE  DiskTypes'
  BY <1>5 DEF CaptureAnd, stores, bounds, history, Types, DiskTypes
<1>6. CASE AuditDrift
  BY <1>6 DEF AuditDrift, cycle, bounds, history, Types, DiskTypes
<1>7. CASE Observe
  BY <1>7 DEF Observe, stores, bounds, history, Types, DiskTypes
<1>8. CASE CommitEchoes
  BY <1>8 DEF CommitEchoes, Reset, Forget, bounds, Types, DiskTypes, Contents
<1>9. CASE StartPlan
  BY <1>9 DEF StartPlan, bounds, history, Types, DiskTypes
<1>10. CASE PreflightPasses
  BY <1>10 DEF PreflightPasses, stores, cycle, bounds, history, Types, DiskTypes
<1>11. CASE CopyPasses
  <2>1. staged' \in [Paths -> Contents]
    BY <1>11 DEF CopyPasses, Types, DiskTypes, Contents, Source, Other, Destination, Sides
  <2> QED
    BY <1>11, <2>1 DEF CopyPasses, stores, bounds, history, Types, DiskTypes
<1>12. ASSUME NEW p \in Paths, Install(p)
      PROVE  DiskTypes'
  <2>1. Destination(plan[p]) \in Sides /\ staged[p] \in Contents
    BY DEF Types, DiskTypes, Destination, Sides
  <2> QED
    BY <1>12, <2>1, ReplaceTypes DEF Install, stores, bounds, Types, DiskTypes
<1>13. CASE PostflightPasses
  BY <1>13 DEF PostflightPasses, stores, bounds, history, Types, DiskTypes
<1>14. CASE RehashPasses
  <2>1. after' \in [Paths -> Contents]
    BY <1>14 DEF RehashPasses, Types, DiskTypes, Contents, Destination, Sides
  <2> QED
    BY <1>14, <2>1 DEF RehashPasses, stores, bounds, history, Types, DiskTypes
<1>15. ASSUME NEW p \in Paths, Remove(p)
      PROVE  DiskTypes'
  <2>1. Destination(plan[p]) \in Sides /\ Missing \in Contents
    BY DEF Destination, Sides, Contents
  <2>2. CASE disk[<<Destination(plan[p]), p>>] = seen[<<Destination(plan[p]), p>>]
    BY <1>15, <2>1, <2>2, ReplaceTypes DEF Remove, stores, bounds, Types, DiskTypes
  <2>3. CASE disk[<<Destination(plan[p]), p>>] # seen[<<Destination(plan[p]), p>>]
    BY <1>15, <2>3 DEF Remove, stores, bounds, Types, DiskTypes
  <2> QED
    BY <2>2, <2>3
<1>16. CASE VerifyPasses
  BY <1>16 DEF VerifyPasses, stores, bounds, history, Types, DiskTypes
<1>17. CASE PrepareConflicts
  BY <1>17 DEF PrepareConflicts, stores, bounds, history, Types, DiskTypes, Sides
<1>18. CASE Commit
  <2>1. base' \in [Paths -> Contents] /\ kept' \subseteq Versions
    BY <1>18 DEF Commit, Types, DiskTypes
  <2>2. /\ seen' \in [Sides \X Paths -> Contents] /\ staged' \in [Paths -> Contents]
        /\ after' \in [Paths -> Contents]
    BY <1>18 DEF Commit, Forget, Contents
  <2> QED
    BY <1>18, <2>1, <2>2 DEF Commit, Types, DiskTypes, bounds
<1>19. CASE Refresh
  BY <1>19 DEF Refresh, Reset, Forget, bounds, history, Types, DiskTypes, Contents
<1>20. CASE GivesUp
  BY <1>20 DEF GivesUp, Reset, Forget, history, Types, DiskTypes, Contents
<1>21. CASE Restart
  BY <1>21 DEF Restart, stores, cycle, bounds, history, Types, DiskTypes
<1>22. CASE UNCHANGED vars
  BY <1>22 DEF vars, stores, cycle, bounds, history, Types, DiskTypes
<1> QED
  BY <1>1, <1>2, <1>3, <1>4, <1>5, <1>6, <1>7, <1>8, <1>9, <1>10, <1>11, <1>12, <1>13, <1>14,
     <1>15, <1>16, <1>17, <1>18, <1>19, <1>20, <1>21, <1>22 DEF Step

\* The journals and the stores keep their types.
LEMMA JournalTypesKept ==
    ASSUME Types, Step
    PROVE  JournalTypes'
<1>1. ASSUME NEW s \in Sides, NEW p \in Paths, UserEdit(s, p)
      PROVE  JournalTypes'
  BY <1>1 DEF UserEdit, stores, cycle, Types, JournalTypes
<1>2. ASSUME NEW s \in Sides, NEW p \in Paths, Notify(s, p)
      PROVE  JournalTypes'
  BY <1>2 DEF Notify, stores, cycle, bounds, history, Types, JournalTypes
<1>3. CASE Overflow
  BY <1>3 DEF Overflow, stores, cycle, history, Types, JournalTypes, Sides
<1>4. CASE RequestAudit
  BY <1>4 DEF RequestAudit, stores, cycle, bounds, history, Types, JournalTypes, Sides
<1>5. ASSUME NEW retry \in SUBSET Paths, CaptureAnd(retry)
      PROVE  JournalTypes'
  BY <1>5 DEF CaptureAnd, stores, bounds, history, Types, JournalTypes
<1>6. CASE AuditDrift
  BY <1>6 DEF AuditDrift, cycle, bounds, history, Types, JournalTypes
<1>7. CASE Observe
  BY <1>7 DEF Observe, stores, bounds, history, Types, JournalTypes
<1>8. CASE CommitEchoes
  <2>1. swallowed' \subseteq Paths
    BY <1>8 DEF CommitEchoes, Swallowing, Types, JournalTypes
  <2> QED
    BY <1>8, <2>1 DEF CommitEchoes, Reset, Forget, bounds, Types, JournalTypes
<1>9. CASE StartPlan
  BY <1>9 DEF StartPlan, bounds, history, Types, JournalTypes
<1>10. CASE PreflightPasses
  BY <1>10 DEF PreflightPasses, stores, cycle, bounds, history, Types, JournalTypes
<1>11. CASE CopyPasses
  BY <1>11 DEF CopyPasses, stores, bounds, history, Types, JournalTypes
<1>12. ASSUME NEW p \in Paths, Install(p)
      PROVE  JournalTypes'
  <2>1. Destination(plan[p]) \in Sides /\ staged[p] \in Contents
    BY DEF Types, DiskTypes, Destination, Sides
  <2> QED
    BY <1>12, <2>1, ReplaceTypes DEF Install, stores, bounds, Types, JournalTypes
<1>13. CASE PostflightPasses
  BY <1>13 DEF PostflightPasses, stores, bounds, history, Types, JournalTypes
<1>14. CASE RehashPasses
  BY <1>14 DEF RehashPasses, stores, bounds, history, Types, JournalTypes
<1>15. ASSUME NEW p \in Paths, Remove(p)
      PROVE  JournalTypes'
  <2>1. Destination(plan[p]) \in Sides /\ Missing \in Contents
    BY DEF Destination, Sides, Contents
  <2>2. CASE disk[<<Destination(plan[p]), p>>] = seen[<<Destination(plan[p]), p>>]
    BY <1>15, <2>1, <2>2, ReplaceTypes DEF Remove, stores, bounds, Types, JournalTypes
  <2>3. CASE disk[<<Destination(plan[p]), p>>] # seen[<<Destination(plan[p]), p>>]
    BY <1>15, <2>3 DEF Remove, stores, bounds, Types, JournalTypes
  <2> QED
    BY <2>2, <2>3
<1>16. CASE VerifyPasses
  BY <1>16 DEF VerifyPasses, stores, bounds, history, Types, JournalTypes
<1>17. CASE PrepareConflicts
  BY <1>17 DEF PrepareConflicts, stores, bounds, history, Types, JournalTypes
<1>18. CASE Commit
  <2>1. requeued' \subseteq Paths /\ conflicts' \subseteq Paths
    BY <1>18 DEF Commit, Types, JournalTypes, CycleTypes
  <2>2. swallowed' \subseteq Paths
    BY <1>18 DEF Commit, Swallowing, Types, JournalTypes
  <2>3. pend' \in [Sides -> SUBSET (Paths \cup {Rescan})]
    BY <1>18 DEF Commit, Forget, Types, JournalTypes
  <2> QED
    BY <1>18, <2>1, <2>2, <2>3 DEF Commit, Forget, Types, JournalTypes
<1>19. CASE Refresh
  BY <1>19 DEF Refresh, Reset, Forget, bounds, history, Types, JournalTypes
<1>20. CASE GivesUp
  <2>1. pend' \in [Sides -> SUBSET (Paths \cup {Rescan})]
    BY <1>20 DEF GivesUp, Reset, Forget, Types, JournalTypes
  <2> QED
    BY <1>20, <2>1 DEF GivesUp, Reset, Forget, history, Types, JournalTypes
<1>21. CASE Restart
  BY <1>21 DEF Restart, stores, cycle, bounds, history, Types, JournalTypes, Sides
<1>22. CASE UNCHANGED vars
  BY <1>22 DEF vars, stores, cycle, bounds, history, Types, JournalTypes
<1> QED
  BY <1>1, <1>2, <1>3, <1>4, <1>5, <1>6, <1>7, <1>8, <1>9, <1>10, <1>11, <1>12, <1>13, <1>14,
     <1>15, <1>16, <1>17, <1>18, <1>19, <1>20, <1>21, <1>22 DEF Step

\* The state of the cycle keeps its types.
LEMMA CycleTypesKept ==
    ASSUME Types, Worked, Transfer, Step
    PROVE  CycleTypes'
<1>1. ASSUME NEW s \in Sides, NEW p \in Paths, UserEdit(s, p)
      PROVE  CycleTypes'
  BY <1>1 DEF UserEdit, stores, cycle, Types, CycleTypes
<1>2. ASSUME NEW s \in Sides, NEW p \in Paths, Notify(s, p)
      PROVE  CycleTypes'
  BY <1>2 DEF Notify, stores, cycle, bounds, history, Types, CycleTypes
<1>3. CASE Overflow
  BY <1>3 DEF Overflow, stores, cycle, history, Types, CycleTypes
<1>4. CASE RequestAudit
  BY <1>4 DEF RequestAudit, stores, cycle, bounds, history, Types, CycleTypes
<1>5. ASSUME NEW retry \in SUBSET Paths, CaptureAnd(retry)
      PROVE  CycleTypes'
  BY <1>5 DEF CaptureAnd, stores, bounds, history, Types, CycleTypes
<1>6. CASE AuditDrift
  BY <1>6 DEF AuditDrift, cycle, bounds, history, Types, CycleTypes
<1>7. CASE Observe
  BY <1>7 DEF Observe, stores, bounds, history, Types, CycleTypes
<1>8. CASE CommitEchoes
  <2>1. echo' \in [Sides \X Paths -> Contents \cup {NoEcho}]
    BY <1>8, EchoStore DEF CommitEchoes, Types, CycleTypes
  <2> QED
    BY <1>8, <2>1 DEF CommitEchoes, Reset, Forget, Types, CycleTypes
<1>9. CASE StartPlan
  <2>1. stage' \in 1..5
    BY <1>9, FirstStageIs
  <2>2. plan' \in [Paths -> {"idle", "none", "update-base", "conflict"} \cup Transfers \cup Deletions]
    <3>1. \A p \in Paths : Planned(p) \in {"none", "update-base", "push", "pull", "delete-local",
                                          "delete-remote", "conflict"}
      BY PlannedIs
    <3> QED
      BY <1>9, <3>1 DEF StartPlan, Transfers, Deletions
  <2>3. matched' \subseteq Sides \X Paths
    BY <1>9 DEF StartPlan, MatchedEchoes
  <2>4. echo' \in [Sides \X Paths -> Contents \cup {NoEcho}]
    <3>1. ASSUME NEW k \in Sides \X Paths
          PROVE  Expected(plan'[k[2]], k[2]) \in Contents
      BY DEF Expected, Source, Destination, Other, Sides, Types, DiskTypes, Contents
    <3> QED
      BY <1>9, <3>1 DEF StartPlan, Types, CycleTypes
  <2> QED
    BY <1>9, <2>1, <2>2, <2>3, <2>4 DEF StartPlan, bounds, history, Types, CycleTypes
<1>10. CASE PreflightPasses
  BY <1>10 DEF PreflightPasses, stores, cycle, bounds, history, Types, CycleTypes
<1>11. CASE CopyPasses
  BY <1>11 DEF CopyPasses, stores, bounds, history, Types, CycleTypes
<1>12. ASSUME NEW p \in Paths, Install(p)
      PROVE  CycleTypes'
  BY <1>12 DEF Install, Replace, stores, bounds, Types, CycleTypes
<1>13. CASE PostflightPasses
  BY <1>13 DEF PostflightPasses, stores, bounds, history, Types, CycleTypes
<1>14. CASE RehashPasses
  <2>1. stage' \in 1..5
    BY <1>14, NextStageIs DEF RehashPasses, Transfer
  <2> QED
    BY <1>14, <2>1 DEF RehashPasses, stores, Types, CycleTypes
<1>15. ASSUME NEW p \in Paths, Remove(p)
      PROVE  CycleTypes'
  BY <1>15 DEF Remove, Replace, stores, bounds, Types, CycleTypes
<1>16. CASE VerifyPasses
  <2>1. stage' \in 1..5
    BY <1>16, NextStageIs DEF VerifyPasses, Worked
  <2> QED
    BY <1>16, <2>1 DEF VerifyPasses, stores, Types, CycleTypes
<1>17. CASE PrepareConflicts
  BY <1>17 DEF PrepareConflicts, stores, bounds, history, Types, CycleTypes, Active, Batch
<1>18. CASE Commit
  <2>1. echo' \in [Sides \X Paths -> Contents \cup {NoEcho}]
    <3> DEFINE results == [k \in Sides \X Paths |->
                       IF k \in Intents(plan) /\ k[2] \in Completed THEN after[k[2]] ELSE echo[k]]
    <3>1. results \in [Sides \X Paths -> Contents \cup {NoEcho}]
      BY DEF Types, CycleTypes, DiskTypes
    <3>2. CommittedEchoes = Consume(Consume(results, matched, seen),
                {k \in Intents(plan) : k[2] \in changed}, Intended)
      BY DEF CommittedEchoes
    <3> HIDE DEF results
    <3>3. CommittedEchoes \in [Sides \X Paths -> Contents \cup {NoEcho}]
      BY <3>1, <3>2, EchoStore
    <3> QED
      BY <1>18, <3>3 DEF Commit
  <2>2. plan' \in [Paths -> {"idle", "none", "update-base", "conflict"} \cup Transfers \cup Deletions]
    BY <1>18 DEF Commit, Types, CycleTypes
  <2> QED
    BY <1>18, <2>1, <2>2 DEF Commit, Forget, Types, CycleTypes
<1>19. CASE Refresh
  BY <1>19 DEF Refresh, Reset, Forget, bounds, history, Types, CycleTypes
<1>20. CASE GivesUp
  BY <1>20 DEF GivesUp, Reset, Forget, history, Types, CycleTypes
<1>21. CASE Restart
  BY <1>21 DEF Restart, stores, cycle, bounds, history, Types, CycleTypes
<1>22. CASE UNCHANGED vars
  BY <1>22 DEF vars, stores, cycle, bounds, history, Types, CycleTypes
<1> QED
  BY <1>1, <1>2, <1>3, <1>4, <1>5, <1>6, <1>7, <1>8, <1>9, <1>10, <1>11, <1>12, <1>13, <1>14,
     <1>15, <1>16, <1>17, <1>18, <1>19, <1>20, <1>21, <1>22 DEF Step
-----------------------------------------------------------------------------
(* Versions: what is kept, what the base holds, what is destroyed.         *)

\* What an installation or a deletion does to the entries.
LEMMA ReplaceIs ==
    ASSUME Types, NEW s \in Sides, NEW p \in Paths, NEW v \in Contents, Replace(s, p, v)
    PROVE  /\ disk'[<<s, p>>] = v
           /\ \A k \in Sides \X Paths : k # <<s, p>> => disk'[k] = disk[k]
           /\ p \in raw'[s] /\ \A t \in Sides : raw[t] \subseteq raw'[t]
           /\ kept \subseteq kept'
           /\ \A q \in Paths : disk'[<<"local", q>>] = disk'[<<"remote", q>>] => disk'[<<"local", q>>] \in kept' \cup {Missing}
           /\ \A w \in lost' : w \in lost \/ (w = disk[<<s, p>>] /\ w \notin kept \cup {Missing})
<1>1. disk \in [Sides \X Paths -> Contents] /\ raw \in [Sides -> SUBSET Paths]
  BY DEF Types, DiskTypes, JournalTypes
<1>2. disk'[<<s, p>>] = v /\ \A k \in Sides \X Paths : k # <<s, p>> => disk'[k] = disk[k]
  BY <1>1 DEF Replace
<1>3. p \in raw'[s] /\ \A t \in Sides : raw[t] \subseteq raw'[t]
  BY <1>1 DEF Replace
<1>4. kept \subseteq kept'
  BY DEF Replace
<1>5. disk' \in [Sides \X Paths -> Contents]
  BY ReplaceTypes
<1>6. \A q \in Paths : disk'[<<"local", q>>] = disk'[<<"remote", q>>] => disk'[<<"local", q>>] \in kept' \cup {Missing}
  BY <1>5 DEF Replace, Shared, Contents, Sides
<1>7. \A w \in lost' : w \in lost \/ (w = disk[<<s, p>>] /\ w \notin kept \cup {Missing})
  BY DEF Replace
<1> QED
  BY <1>2, <1>3, <1>4, <1>6, <1>7

\* What an edit of a user does to the entries.
LEMMA EditIs ==
    ASSUME Types, NEW s \in Sides, NEW p \in Paths, UserEdit(s, p)
    PROVE  /\ disk'[<<s, p>>] \in {Missing, edits + 1} /\ disk'[<<s, p>>] # disk[<<s, p>>]
           /\ \A k \in Sides \X Paths : k # <<s, p>> => disk'[k] = disk[k]
           /\ edits' = edits + 1
           /\ raced \subseteq raced' /\ (InFlight(s, p) => disk'[<<s, p>>] \in raced' \cup {Missing})
           /\ \A t \in Sides : raw[t] \subseteq raw'[t] /\ (pc # "down" => p \in raw'[s])
<1>1. disk \in [Sides \X Paths -> Contents] /\ raw \in [Sides -> SUBSET Paths]
  BY DEF Types, DiskTypes, JournalTypes
<1>2. PICK v \in {Missing, edits + 1} \ {disk[<<s, p>>]} :
           /\ disk' = [disk EXCEPT ![<<s, p>>] = v]
           /\ raced' = IF InFlight(s, p) THEN raced \cup ({v} \ {Missing}) ELSE raced
  BY DEF UserEdit
<1>3. \A t \in Sides : raw[t] \subseteq raw'[t] /\ (pc # "down" => p \in raw'[s])
  BY <1>1 DEF UserEdit, Watched
<1>4. edits' = edits + 1
  BY DEF UserEdit
<1> QED
  BY <1>1, <1>2, <1>3, <1>4

\* No entry becomes newer than the edits.
LEMMA NumberedKept ==
    ASSUME Types, Numbered, Step
    PROVE  Numbered'
<1>1. ASSUME NEW s \in Sides, NEW p \in Paths, UserEdit(s, p)
      PROVE  Numbered'
  <2>1. edits \in Nat /\ edits' = edits + 1 /\ seen' = seen /\ staged' = staged
    BY <1>1, EditIs DEF UserEdit, cycle, Types, DiskTypes
  <2>2. ASSUME NEW k \in Sides \X Paths
        PROVE  disk'[k] \in {disk[k], Missing, edits + 1} /\ disk[k] \in Nat /\ seen[k] \in Nat
    <3>1. disk'[<<s, p>>] \in {Missing, edits + 1} /\ (k # <<s, p>> => disk'[k] = disk[k])
      BY <1>1, EditIs
    <3>2. disk[k] \in Nat /\ seen[k] \in Nat
      BY ConstantsAssumption DEF Types, DiskTypes, Contents, Versions, Missing
    <3> QED
      BY <3>1, <3>2
  <2>3. \A q \in Paths : staged[q] \in Nat
    BY ConstantsAssumption DEF Types, DiskTypes, Contents, Versions, Missing
  <2> QED
    BY <2>1, <2>2, <2>3 DEF Numbered, Missing
<1>2. ASSUME NEW s \in Sides, NEW p \in Paths, Notify(s, p)
      PROVE  Numbered'
  BY <1>2 DEF Notify, stores, cycle, bounds, history, Types, Numbered
<1>3. CASE Overflow
  BY <1>3 DEF Overflow, stores, cycle, history, Types, Numbered
<1>4. CASE RequestAudit
  BY <1>4 DEF RequestAudit, stores, cycle, bounds, history, Types, Numbered
<1>5. ASSUME NEW retry \in SUBSET Paths, CaptureAnd(retry)
      PROVE  Numbered'
  BY <1>5 DEF CaptureAnd, stores, bounds, history, Types, Numbered
<1>6. CASE AuditDrift
  BY <1>6 DEF AuditDrift, cycle, bounds, history, Types, Numbered
<1>7. CASE Observe
  BY <1>7 DEF Observe, stores, bounds, history, Types, Numbered
<1>8. CASE CommitEchoes
  BY <1>8 DEF CommitEchoes, Reset, Forget, bounds, Types, Numbered, Missing, DiskTypes
<1>9. CASE StartPlan
  BY <1>9 DEF StartPlan, bounds, history, Types, Numbered
<1>10. CASE PreflightPasses
  BY <1>10 DEF PreflightPasses, stores, cycle, bounds, history, Types, Numbered
<1>11. CASE CopyPasses
  BY <1>11 DEF CopyPasses, stores, bounds, history, Types, Numbered, Source, Other, Destination,
     Sides, DiskTypes, Missing
<1>12. ASSUME NEW p \in Paths, Install(p)
      PROVE  Numbered'
  <2>1. Destination(plan[p]) \in Sides /\ staged[p] \in Contents
    BY DEF Types, DiskTypes, Destination, Sides
  <2>2. Replace(Destination(plan[p]), p, staged[p]) /\ edits' = edits /\ seen' = seen /\ staged' = staged
    BY <1>12 DEF Install, bounds
  <2>3. ASSUME NEW k \in Sides \X Paths
        PROVE  disk'[k] \in {disk[k], staged[p]}
    <3>1. disk'[<<Destination(plan[p]), p>>] = staged[p] /\ (k # <<Destination(plan[p]), p>> => disk'[k] = disk[k])
      BY <2>1, <2>2, ReplaceIs
    <3> QED
      BY <3>1
  <2> QED
    BY <2>2, <2>3 DEF Numbered
<1>13. CASE PostflightPasses
  BY <1>13 DEF PostflightPasses, stores, bounds, history, Types, Numbered
<1>14. CASE RehashPasses
  BY <1>14 DEF RehashPasses, stores, bounds, history, Types, Numbered
<1>15. ASSUME NEW p \in Paths, Remove(p)
      PROVE  Numbered'
  <2>1. Destination(plan[p]) \in Sides /\ Missing \in Contents
    BY DEF Destination, Sides, Contents
  <2>2. CASE disk[<<Destination(plan[p]), p>>] = seen[<<Destination(plan[p]), p>>]
    <3>1. Replace(Destination(plan[p]), p, Missing) /\ edits' = edits /\ seen' = seen /\ staged' = staged
      BY <1>15, <2>2 DEF Remove, bounds
    <3>2. ASSUME NEW k \in Sides \X Paths
          PROVE  disk'[k] \in {disk[k], Missing}
      <4>1. disk'[<<Destination(plan[p]), p>>] = Missing /\ (k # <<Destination(plan[p]), p>> => disk'[k] = disk[k])
        BY <2>1, <3>1, ReplaceIs
      <4> QED
        BY <4>1
    <3>3. edits \in Nat
      BY DEF Types, DiskTypes
    <3> QED
      BY <3>1, <3>2, <3>3 DEF Numbered, Missing
  <2>3. CASE disk[<<Destination(plan[p]), p>>] # seen[<<Destination(plan[p]), p>>]
    BY <1>15, <2>3 DEF Remove, bounds, Numbered
  <2> QED
    BY <2>2, <2>3
<1>16. CASE VerifyPasses
  BY <1>16 DEF VerifyPasses, stores, bounds, history, Types, Numbered
<1>17. CASE PrepareConflicts
  BY <1>17 DEF PrepareConflicts, stores, bounds, history, Types, Numbered
<1>18. CASE Commit
  BY <1>18 DEF Commit, Forget, bounds, Types, Numbered, Missing, DiskTypes
<1>19. CASE Refresh
  BY <1>19 DEF Refresh, Reset, Forget, bounds, history, Types, Numbered, Missing, DiskTypes
<1>20. CASE GivesUp
  BY <1>20 DEF GivesUp, Reset, Forget, history, Types, Numbered, Missing, DiskTypes
<1>21. CASE Restart
  BY <1>21 DEF Restart, stores, cycle, bounds, history, Types, Numbered
<1>22. CASE UNCHANGED vars
  BY <1>22 DEF vars, stores, cycle, bounds, history, Types, Numbered
<1> QED
  BY <1>1, <1>2, <1>3, <1>4, <1>5, <1>6, <1>7, <1>8, <1>9, <1>10, <1>11, <1>12, <1>13, <1>14,
     <1>15, <1>16, <1>17, <1>18, <1>19, <1>20, <1>21, <1>22 DEF Step

\* What is on both sides stays kept: a version new to a side is on that side only.
LEMMA SharedStaysKept ==
    ASSUME Types, Numbered, SharedIsKept, Step
    PROVE  SharedIsKept'
<1>1. ASSUME NEW s \in Sides, NEW p \in Paths, UserEdit(s, p)
      PROVE  SharedIsKept'
  <2>1. edits \in Nat /\ seen' = seen /\ kept' = kept
    BY <1>1 DEF UserEdit, cycle, Types, DiskTypes
  <2>2. /\ disk'[<<s, p>>] \in {Missing, edits + 1}
        /\ \A k \in Sides \X Paths : k # <<s, p>> => disk'[k] = disk[k]
    BY <1>1, EditIs
  <2>3. \A k \in Sides \X Paths : disk[k] \in Nat /\ disk[k] <= edits
    BY ConstantsAssumption DEF Types, DiskTypes, Contents, Versions, Missing, Numbered
  <2>4. ASSUME NEW q \in Paths, disk'[<<"local", q>>] = disk'[<<"remote", q>>]
        PROVE  disk'[<<"local", q>>] \in kept \cup {Missing}
    <3>1. <<"local", q>> \in Sides \X Paths /\ <<"remote", q>> \in Sides \X Paths
      BY DEF Sides
    <3>2. CASE q # p
      BY <2>2, <2>4, <3>1, <3>2 DEF SharedIsKept
    <3>3. CASE q = p /\ s = "local"
      BY <2>1, <2>2, <2>3, <2>4, <3>1, <3>3
    <3>4. CASE q = p /\ s = "remote"
      BY <2>1, <2>2, <2>3, <2>4, <3>1, <3>4
    <3> QED
      BY <3>2, <3>3, <3>4 DEF Sides
  <2> QED
    BY <2>1, <2>4 DEF SharedIsKept
<1>2. ASSUME NEW s \in Sides, NEW p \in Paths, Notify(s, p)
      PROVE  SharedIsKept'
  BY <1>2 DEF Notify, stores, cycle, bounds, history, SharedIsKept
<1>3. CASE Overflow
  BY <1>3 DEF Overflow, stores, cycle, history, SharedIsKept
<1>4. CASE RequestAudit
  BY <1>4 DEF RequestAudit, stores, cycle, bounds, history, SharedIsKept
<1>5. ASSUME NEW retry \in SUBSET Paths, CaptureAnd(retry)
      PROVE  SharedIsKept'
  BY <1>5 DEF CaptureAnd, stores, bounds, history, SharedIsKept
<1>6. CASE AuditDrift
  BY <1>6 DEF AuditDrift, cycle, bounds, history, SharedIsKept
<1>7. CASE Observe
  BY <1>7 DEF Observe, stores, bounds, history, SharedIsKept
<1>8. CASE CommitEchoes
  BY <1>8 DEF CommitEchoes, Reset, Forget, bounds, SharedIsKept, Sides
<1>9. CASE StartPlan
  BY <1>9 DEF StartPlan, bounds, history, SharedIsKept
<1>10. CASE PreflightPasses
  BY <1>10 DEF PreflightPasses, stores, cycle, bounds, history, SharedIsKept
<1>11. CASE CopyPasses
  BY <1>11 DEF CopyPasses, stores, bounds, history, SharedIsKept
<1>12. ASSUME NEW p \in Paths, Install(p)
      PROVE  SharedIsKept'
  <2>1. Destination(plan[p]) \in Sides /\ staged[p] \in Contents
    BY DEF Types, DiskTypes, Destination, Sides
  <2>2. Replace(Destination(plan[p]), p, staged[p]) /\ seen' = seen
    BY <1>12 DEF Install
  <2> QED
    BY <2>1, <2>2, ReplaceIs DEF SharedIsKept
<1>13. CASE PostflightPasses
  BY <1>13 DEF PostflightPasses, stores, bounds, history, SharedIsKept
<1>14. CASE RehashPasses
  BY <1>14 DEF RehashPasses, stores, bounds, history, SharedIsKept
<1>15. ASSUME NEW p \in Paths, Remove(p)
      PROVE  SharedIsKept'
  <2>1. Destination(plan[p]) \in Sides /\ Missing \in Contents
    BY DEF Destination, Sides, Contents
  <2>2. CASE disk[<<Destination(plan[p]), p>>] = seen[<<Destination(plan[p]), p>>]
    <3>1. Replace(Destination(plan[p]), p, Missing) /\ seen' = seen
      BY <1>15, <2>2 DEF Remove
    <3> QED
      BY <2>1, <3>1, ReplaceIs DEF SharedIsKept
  <2>3. CASE disk[<<Destination(plan[p]), p>>] # seen[<<Destination(plan[p]), p>>]
    BY <1>15, <2>3 DEF Remove, SharedIsKept
  <2> QED
    BY <2>2, <2>3
<1>16. CASE VerifyPasses
  BY <1>16 DEF VerifyPasses, stores, bounds, history, SharedIsKept
<1>17. CASE PrepareConflicts
  BY <1>17 DEF PrepareConflicts, stores, bounds, history, SharedIsKept
<1>18. CASE Commit
  BY <1>18 DEF Commit, Forget, bounds, SharedIsKept, Sides
<1>19. CASE Refresh
  BY <1>19 DEF Refresh, Reset, Forget, bounds, history, SharedIsKept, Sides
<1>20. CASE GivesUp
  BY <1>20 DEF GivesUp, Reset, Forget, history, SharedIsKept, Sides
<1>21. CASE Restart
  BY <1>21 DEF Restart, stores, cycle, bounds, history, SharedIsKept
<1>22. CASE UNCHANGED vars
  BY <1>22 DEF vars, stores, cycle, bounds, history, SharedIsKept
<1> QED
  BY <1>1, <1>2, <1>3, <1>4, <1>5, <1>6, <1>7, <1>8, <1>9, <1>10, <1>11, <1>12, <1>13, <1>14,
     <1>15, <1>16, <1>17, <1>18, <1>19, <1>20, <1>21, <1>22 DEF Step

\* The base only ever gets entries both sides had, or ones written during a transfer.
LEMMA BasesSafeKept ==
    ASSUME Types, SharedIsKept, BasesSafe, Decisions, Transfer, Step
    PROVE  BasesSafe'
<1>1. ASSUME NEW s \in Sides, NEW p \in Paths, UserEdit(s, p)
      PROVE  BasesSafe'
  <2>1. base' = base /\ after' = after /\ kept' = kept /\ raced \subseteq raced'
    BY <1>1, EditIs DEF UserEdit, cycle, stores
  <2> QED
    BY <2>1 DEF BasesSafe, Safe
<1>2. ASSUME NEW s \in Sides, NEW p \in Paths, Notify(s, p)
      PROVE  BasesSafe'
  BY <1>2 DEF Notify, stores, cycle, bounds, history, BasesSafe, Safe
<1>3. CASE Overflow
  BY <1>3 DEF Overflow, stores, cycle, history, BasesSafe, Safe
<1>4. CASE RequestAudit
  BY <1>4 DEF RequestAudit, stores, cycle, bounds, history, BasesSafe, Safe
<1>5. ASSUME NEW retry \in SUBSET Paths, CaptureAnd(retry)
      PROVE  BasesSafe'
  BY <1>5 DEF CaptureAnd, stores, bounds, history, BasesSafe, Safe
<1>6. CASE AuditDrift
  BY <1>6 DEF AuditDrift, cycle, bounds, history, BasesSafe, Safe
<1>7. CASE Observe
  BY <1>7 DEF Observe, stores, bounds, history, BasesSafe, Safe
<1>8. CASE CommitEchoes
  BY <1>8 DEF CommitEchoes, Reset, Forget, bounds, BasesSafe, Safe
<1>9. CASE StartPlan
  BY <1>9 DEF StartPlan, bounds, history, BasesSafe, Safe
<1>10. CASE PreflightPasses
  BY <1>10 DEF PreflightPasses, stores, cycle, bounds, history, BasesSafe, Safe
<1>11. CASE CopyPasses
  BY <1>11 DEF CopyPasses, stores, bounds, history, BasesSafe, Safe
<1>12. ASSUME NEW p \in Paths, Install(p)
      PROVE  BasesSafe'
  <2>1. Destination(plan[p]) \in Sides /\ staged[p] \in Contents
    BY DEF Types, DiskTypes, Destination, Sides
  <2>2. /\ Replace(Destination(plan[p]), p, staged[p])
        /\ base' = base /\ after' = after /\ raced' = raced
    BY <1>12 DEF Install, stores
  <2>3. kept \subseteq kept'
    BY <2>2 DEF Replace
  <2> QED
    BY <2>2, <2>3 DEF BasesSafe, Safe
<1>13. CASE PostflightPasses
  BY <1>13 DEF PostflightPasses, stores, bounds, history, BasesSafe, Safe
<1>14. CASE RehashPasses
  <2>1. /\ base' = base /\ kept' = kept /\ raced' = raced
        /\ \A p \in Paths : after'[p] = IF p \in Active \ changed THEN disk[<<Destination(plan[p]), p>>] ELSE after[p]
    BY <1>14 DEF RehashPasses, stores, history
  <2>2. \A p \in Active \ changed : Safe(disk[<<Destination(plan[p]), p>>])
    BY <1>14 DEF RehashPasses, Transfer, Transferring
  <2> QED
    BY <2>1, <2>2 DEF BasesSafe, Safe
<1>15. ASSUME NEW p \in Paths, Remove(p)
      PROVE  BasesSafe'
  <2>1. base' = base /\ after' = after /\ raced' = raced /\ kept \subseteq kept'
    BY <1>15 DEF Remove, Replace, stores
  <2> QED
    BY <2>1 DEF BasesSafe, Safe
<1>16. CASE VerifyPasses
  BY <1>16 DEF VerifyPasses, stores, bounds, history, BasesSafe, Safe
<1>17. CASE PrepareConflicts
  <2>1. \A p \in Paths : plan[p] = "update-base" => Safe(seen[<<"local", p>>])
    BY <1>17 DEF PrepareConflicts, Decisions, Executing, Decided, SharedIsKept, Safe
  <2> QED
    BY <1>17, <2>1 DEF PrepareConflicts, stores, history, BasesSafe, Safe
<1>18. CASE Commit
  BY <1>18 DEF Commit, Forget, bounds, BasesSafe, Safe
<1>19. CASE Refresh
  BY <1>19 DEF Refresh, Reset, Forget, bounds, history, BasesSafe, Safe
<1>20. CASE GivesUp
  BY <1>20 DEF GivesUp, Reset, Forget, history, BasesSafe, Safe
<1>21. CASE Restart
  BY <1>21 DEF Restart, stores, cycle, bounds, history, BasesSafe, Safe
<1>22. CASE UNCHANGED vars
  BY <1>22 DEF vars, stores, cycle, bounds, history, BasesSafe, Safe
<1> QED
  BY <1>1, <1>2, <1>3, <1>4, <1>5, <1>6, <1>7, <1>8, <1>9, <1>10, <1>11, <1>12, <1>13, <1>14,
     <1>15, <1>16, <1>17, <1>18, <1>19, <1>20, <1>21, <1>22 DEF Step

\* A deletion finds the base, or leaves the entry alone.
LEMMA RemovedIsBase ==
    ASSUME Types, Decisions, NEW p \in Paths, Remove(p)
    PROVE  /\ p \in Active /\ plan[p] \in Deletions
           /\ seen[<<Destination(plan[p]), p>>] = base[p]
<1>1. pc = "stage" /\ p \in Active /\ stage \in {3, 4}
  BY DEF Remove
<1>2. plan[p] \in Deletions
  BY <1>1 DEF Active, Batch, Stages, Deletions
<1> QED
  BY <1>1, <1>2 DEF Decisions, Executing, Decided, Deletions, Destination

\* A step loses nothing but what was written during a transfer.
LossRaced == lost' \subseteq lost \cup raced' /\ raced \subseteq raced'

\* What a transfer or a deletion destroys is kept, or was written during a transfer.
LEMMA LossKept ==
    ASSUME Types, BasesSafe, Decisions, Transfer, Step
    PROVE  LossRaced
<1>1. ASSUME NEW s \in Sides, NEW p \in Paths, UserEdit(s, p)
      PROVE  LossRaced
  <2>1. lost' = lost /\ raced \subseteq raced'
    BY <1>1, EditIs DEF UserEdit
  <2> QED
    BY <2>1 DEF LossRaced
<1>2. ASSUME NEW s \in Sides, NEW p \in Paths, Notify(s, p)
      PROVE  LossRaced
  BY <1>2 DEF Notify, stores, cycle, bounds, history, LossRaced
<1>3. CASE Overflow
  BY <1>3 DEF Overflow, stores, cycle, history, LossRaced
<1>4. CASE RequestAudit
  BY <1>4 DEF RequestAudit, stores, cycle, bounds, history, LossRaced
<1>5. ASSUME NEW retry \in SUBSET Paths, CaptureAnd(retry)
      PROVE  LossRaced
  BY <1>5 DEF CaptureAnd, stores, bounds, history, LossRaced
<1>6. CASE AuditDrift
  BY <1>6 DEF AuditDrift, cycle, bounds, history, LossRaced
<1>7. CASE Observe
  BY <1>7 DEF Observe, stores, bounds, history, LossRaced
<1>8. CASE CommitEchoes
  BY <1>8 DEF CommitEchoes, Reset, Forget, bounds, LossRaced
<1>9. CASE StartPlan
  BY <1>9 DEF StartPlan, bounds, history, LossRaced
<1>10. CASE PreflightPasses
  BY <1>10 DEF PreflightPasses, stores, cycle, bounds, history, LossRaced
<1>11. CASE CopyPasses
  BY <1>11 DEF CopyPasses, stores, bounds, history, LossRaced
<1>12. ASSUME NEW p \in Paths, Install(p)
      PROVE  LossRaced
  <2>1. Destination(plan[p]) \in Sides /\ staged[p] \in Contents
    BY DEF Types, DiskTypes, Destination, Sides
  <2>2. Replace(Destination(plan[p]), p, staged[p]) /\ raced' = raced
    BY <1>12 DEF Install
  <2>3. Safe(disk[<<Destination(plan[p]), p>>])
    BY <1>12 DEF Install, Transfer, Transferring
  <2> QED
    BY <2>1, <2>2, <2>3, ReplaceIs DEF LossRaced, Safe
<1>13. CASE PostflightPasses
  BY <1>13 DEF PostflightPasses, stores, bounds, history, LossRaced
<1>14. CASE RehashPasses
  BY <1>14 DEF RehashPasses, stores, bounds, history, LossRaced
<1>15. ASSUME NEW p \in Paths, Remove(p)
      PROVE  LossRaced
  <2>1. Destination(plan[p]) \in Sides /\ Missing \in Contents
    BY DEF Destination, Sides, Contents
  <2>2. CASE disk[<<Destination(plan[p]), p>>] = seen[<<Destination(plan[p]), p>>]
    <3>1. Replace(Destination(plan[p]), p, Missing) /\ raced' = raced
      BY <1>15, <2>2 DEF Remove
    <3>2. Safe(disk[<<Destination(plan[p]), p>>])
      BY <1>15, <2>2, RemovedIsBase DEF BasesSafe
    <3> QED
      BY <2>1, <3>1, <3>2, ReplaceIs DEF LossRaced, Safe
  <2>3. CASE disk[<<Destination(plan[p]), p>>] # seen[<<Destination(plan[p]), p>>]
    BY <1>15, <2>3 DEF Remove, LossRaced
  <2> QED
    BY <2>2, <2>3
<1>16. CASE VerifyPasses
  BY <1>16 DEF VerifyPasses, stores, bounds, history, LossRaced
<1>17. CASE PrepareConflicts
  BY <1>17 DEF PrepareConflicts, stores, bounds, history, LossRaced
<1>18. CASE Commit
  BY <1>18 DEF Commit, Forget, bounds, LossRaced
<1>19. CASE Refresh
  BY <1>19 DEF Refresh, Reset, Forget, bounds, history, LossRaced
<1>20. CASE GivesUp
  BY <1>20 DEF GivesUp, Reset, Forget, history, LossRaced
<1>21. CASE Restart
  BY <1>21 DEF Restart, stores, cycle, bounds, history, LossRaced
<1>22. CASE UNCHANGED vars
  BY <1>22 DEF vars, stores, cycle, bounds, history, LossRaced
<1> QED
  BY <1>1, <1>2, <1>3, <1>4, <1>5, <1>6, <1>7, <1>8, <1>9, <1>10, <1>11, <1>12, <1>13, <1>14,
     <1>15, <1>16, <1>17, <1>18, <1>19, <1>20, <1>21, <1>22 DEF Step

\* What a plan was made on stays what it was made on until the cycle commits or gives up.
LEMMA DecisionsKept ==
    ASSUME Types, Decisions, Step
    PROVE  Decisions'
<1>1. ASSUME NEW s \in Sides, NEW p \in Paths, UserEdit(s, p)
      PROVE  Decisions'
  BY <1>1 DEF UserEdit, stores, cycle, Decisions, Decided, Executing
<1>2. ASSUME NEW s \in Sides, NEW p \in Paths, Notify(s, p)
      PROVE  Decisions'
  BY <1>2 DEF Notify, stores, cycle, bounds, history, Decisions, Decided, Executing
<1>3. CASE Overflow
  BY <1>3 DEF Overflow, stores, cycle, history, Decisions, Decided, Executing
<1>4. CASE RequestAudit
  BY <1>4 DEF RequestAudit, stores, cycle, bounds, history, Decisions, Decided, Executing
<1>5. ASSUME NEW retry \in SUBSET Paths, CaptureAnd(retry)
      PROVE  Decisions'
  <2>1. pc = "idle" /\ pc' \in {"audit", "observe"} /\ plan' = plan
    BY <1>5 DEF CaptureAnd
  <2> QED
    BY <2>1 DEF Decisions, Executing
<1>6. CASE AuditDrift
  BY <1>6 DEF AuditDrift, cycle, bounds, history, Decisions, Decided, Executing
<1>7. CASE Observe
  BY <1>7 DEF Observe, stores, bounds, history, Decisions, Decided, Executing
<1>8. CASE CommitEchoes
  BY <1>8 DEF CommitEchoes, Reset, Forget, bounds, Decisions, Decided, Executing
<1>9. CASE StartPlan
  <2>1. \A p \in Paths : plan'[p] = IF p \in Dirty THEN Planned(p) ELSE "idle"
    BY <1>9 DEF StartPlan
  <2>2. pc' = "stage" /\ seen' = seen /\ base' = base
    BY <1>9 DEF StartPlan
  <2>3. \A p \in Paths : Decided(p)'
    <3> TAKE p \in Paths
    <3>1. CASE p \in Dirty
      <4>1. plan'[p] = Planned(p)
        BY <2>1, <3>1
      <4> QED
        BY <2>2, <4>1, PlannedIs DEF Decided
    <3>2. CASE p \notin Dirty
      BY <2>1, <3>2 DEF Decided
    <3> QED
      BY <3>1, <3>2
  <2> QED
    BY <2>2, <2>3 DEF Decisions, Executing
<1>10. CASE PreflightPasses
  BY <1>10 DEF PreflightPasses, stores, cycle, bounds, history, Decisions, Decided, Executing
<1>11. CASE CopyPasses
  BY <1>11 DEF CopyPasses, stores, bounds, history, Decisions, Decided, Executing
<1>12. ASSUME NEW p \in Paths, Install(p)
      PROVE  Decisions'
  <2>1. /\ pc = "install" /\ pc' \in {"install", "postflight"}
        /\ plan' = plan /\ seen' = seen /\ base' = base
    BY <1>12 DEF Install, stores
  <2> QED
    BY <2>1 DEF Decisions, Decided, Executing
<1>13. CASE PostflightPasses
  BY <1>13 DEF PostflightPasses, stores, bounds, history, Decisions, Decided, Executing
<1>14. CASE RehashPasses
  BY <1>14 DEF RehashPasses, stores, bounds, history, Decisions, Decided, Executing
<1>15. ASSUME NEW p \in Paths, Remove(p)
      PROVE  Decisions'
  <2>1. /\ pc = "stage" /\ pc' \in {"stage", "verify"}
        /\ plan' = plan /\ seen' = seen /\ base' = base
    BY <1>15 DEF Remove, stores
  <2> QED
    BY <2>1 DEF Decisions, Decided, Executing
<1>16. CASE VerifyPasses
  BY <1>16 DEF VerifyPasses, stores, bounds, history, Decisions, Decided, Executing
<1>17. CASE PrepareConflicts
  BY <1>17 DEF PrepareConflicts, stores, bounds, history, Decisions, Decided, Executing
<1>18. CASE Commit
  BY <1>18 DEF Commit, Forget, bounds, Decisions, Decided, Executing
<1>19. CASE Refresh
  BY <1>19 DEF Refresh, Reset, Forget, bounds, history, Decisions, Decided, Executing
<1>20. CASE GivesUp
  BY <1>20 DEF GivesUp, Reset, Forget, history, Decisions, Decided, Executing
<1>21. CASE Restart
  BY <1>21 DEF Restart, stores, cycle, bounds, history, Decisions, Decided, Executing
<1>22. CASE UNCHANGED vars
  BY <1>22 DEF vars, stores, cycle, bounds, history, Decisions, Decided, Executing
<1> QED
  BY <1>1, <1>2, <1>3, <1>4, <1>5, <1>6, <1>7, <1>8, <1>9, <1>10, <1>11, <1>12, <1>13, <1>14,
     <1>15, <1>16, <1>17, <1>18, <1>19, <1>20, <1>21, <1>22 DEF Step
-----------------------------------------------------------------------------
(* What the watchers know.                                                 *)

\* Only a cycle that takes the events and a crash make anyone forget what was noted.
LEMMA NotedStays ==
    ASSUME Types, NEW q \in Paths, Noted(q), pc = "idle" => pc' = "idle", pc' # "down", Step
    PROVE  Noted(q)'
<1>1. ASSUME NEW s \in Sides, NEW p \in Paths, UserEdit(s, p)
      PROVE  Noted(q)'
  <2>1. pend' = pend /\ \A t \in Sides : raw[t] \subseteq raw'[t]
    BY <1>1, EditIs DEF UserEdit
  <2> QED
    BY <2>1 DEF Noted
<1>2. ASSUME NEW s \in Sides, NEW p \in Paths, Notify(s, p)
      PROVE  Noted(q)'
  <2>1. \A t \in Sides : /\ raw[t] \subseteq raw'[t] \cup (IF t = s THEN {p} ELSE {})
                       /\ pend[t] \subseteq pend'[t]
    BY <1>2 DEF Notify, Types, JournalTypes
  <2>2. p \in pend'[s]
    BY <1>2 DEF Notify, Types, JournalTypes
  <2> QED
    BY <2>1, <2>2 DEF Noted
<1>3. CASE Overflow
  <2>1. Rescan \in pend'["remote"]
    BY <1>3 DEF Overflow, Types, JournalTypes, Sides
  <2> QED
    BY <2>1 DEF Noted, Sides
<1>4. CASE RequestAudit
  BY <1>4 DEF RequestAudit, stores, cycle, bounds, history, Types, JournalTypes, Noted
<1>5. ASSUME NEW retry \in SUBSET Paths, CaptureAnd(retry)
      PROVE  Noted(q)'
  BY <1>5 DEF CaptureAnd
<1>6. CASE AuditDrift
  BY <1>6 DEF AuditDrift, cycle, bounds, history, Types, JournalTypes, Noted
<1>7. CASE Observe
  BY <1>7 DEF Observe, stores, bounds, history, Types, JournalTypes, Noted
<1>8. CASE CommitEchoes
  BY <1>8 DEF CommitEchoes, Reset, Forget, bounds, Types, JournalTypes, Noted
<1>9. CASE StartPlan
  BY <1>9 DEF StartPlan, bounds, history, Types, JournalTypes, Noted
<1>10. CASE PreflightPasses
  BY <1>10 DEF PreflightPasses, stores, cycle, bounds, history, Types, JournalTypes, Noted
<1>11. CASE CopyPasses
  BY <1>11 DEF CopyPasses, stores, bounds, history, Types, JournalTypes, Noted
<1>12. ASSUME NEW p \in Paths, Install(p)
      PROVE  Noted(q)'
  <2>1. Destination(plan[p]) \in Sides /\ staged[p] \in Contents
    BY DEF Types, DiskTypes, Destination, Sides
  <2>2. Replace(Destination(plan[p]), p, staged[p]) /\ pend' = pend
    BY <1>12 DEF Install
  <2>3. \A t \in Sides : raw[t] \subseteq raw'[t]
    BY <2>1, <2>2, ReplaceIs
  <2> QED
    BY <2>2, <2>3 DEF Noted
<1>13. CASE PostflightPasses
  BY <1>13 DEF PostflightPasses, stores, bounds, history, Types, JournalTypes, Noted
<1>14. CASE RehashPasses
  BY <1>14 DEF RehashPasses, stores, bounds, history, Types, JournalTypes, Noted
<1>15. ASSUME NEW p \in Paths, Remove(p)
      PROVE  Noted(q)'
  <2>1. Destination(plan[p]) \in Sides /\ Missing \in Contents
    BY DEF Destination, Sides, Contents
  <2>2. CASE disk[<<Destination(plan[p]), p>>] = seen[<<Destination(plan[p]), p>>]
    <3>1. Replace(Destination(plan[p]), p, Missing) /\ pend' = pend
      BY <1>15, <2>2 DEF Remove
    <3>2. \A t \in Sides : raw[t] \subseteq raw'[t]
      BY <2>1, <3>1, ReplaceIs
    <3> QED
      BY <3>1, <3>2 DEF Noted
  <2>3. CASE disk[<<Destination(plan[p]), p>>] # seen[<<Destination(plan[p]), p>>]
    BY <1>15, <2>3 DEF Remove, Noted
  <2> QED
    BY <2>2, <2>3
<1>16. CASE VerifyPasses
  BY <1>16 DEF VerifyPasses, stores, bounds, history, Types, JournalTypes, Noted
<1>17. CASE PrepareConflicts
  BY <1>17 DEF PrepareConflicts, stores, bounds, history, Types, JournalTypes, Noted
<1>18. CASE Commit
  BY <1>18 DEF Commit, Forget, bounds, Types, JournalTypes, Noted
<1>19. CASE Refresh
  BY <1>19 DEF Refresh, Reset, Forget, bounds, history, Types, JournalTypes, Noted
<1>20. CASE GivesUp
  BY <1>20 DEF GivesUp, Reset, Forget, history, Types, JournalTypes, Noted
<1>21. CASE Restart
  BY <1>21 DEF Restart, stores, cycle, bounds, history, Types, JournalTypes, Noted
<1>22. CASE UNCHANGED vars
  BY <1>22 DEF vars, stores, cycle, bounds, history, Types, JournalTypes, Noted
<1> QED
  BY <1>1, <1>2, <1>3, <1>4, <1>5, <1>6, <1>7, <1>8, <1>9, <1>10, <1>11, <1>12, <1>13, <1>14,
     <1>15, <1>16, <1>17, <1>18, <1>19, <1>20, <1>21, <1>22 DEF Step

\* An entry the engine replaces is noted; the others stay what they were.
LEMMA ReplacedIsNoted ==
    ASSUME Types, NEW s \in Sides, NEW p \in Paths, NEW v \in Contents, Replace(s, p, v), pend' = pend,
           NEW t \in Sides, NEW q \in Paths
    PROVE  /\ disk'[<<t, q>>] # disk[<<t, q>>] => Noted(q)'
           /\ Noted(q) => Noted(q)'
           /\ Noted(p)'
<1>1. \A k \in Sides \X Paths : k # <<s, p>> => disk'[k] = disk[k]
  BY ReplaceIs
<1>2. p \in raw'[s]
  BY ReplaceIs
<1>3. \A u \in Sides : raw[u] \subseteq raw'[u]
  BY ReplaceIs
<1>4. Noted(p)'
  BY <1>2 DEF Noted
<1>5. Noted(q) => Noted(q)'
  BY <1>3 DEF Noted
<1>6. disk'[<<t, q>>] # disk[<<t, q>>] => q = p
  BY <1>1
<1> QED
  BY <1>4, <1>5, <1>6

\* What the cycle has not seen is noted: the step that changes an entry notes it.
LEMMA SeenOrNotedKept ==
    ASSUME Types, SeenOrNoted, Step
    PROVE  SeenOrNoted'
<1>1. ASSUME NEW s \in Sides, NEW p \in Paths, UserEdit(s, p)
      PROVE  SeenOrNoted'
  <2>1. pc' = pc /\ seen' = seen /\ pend' = pend
    BY <1>1 DEF UserEdit, cycle
  <2>2. /\ \A k \in Sides \X Paths : k # <<s, p>> => disk'[k] = disk[k]
        /\ \A t \in Sides : raw[t] \subseteq raw'[t] /\ (pc # "down" => p \in raw'[s])
    BY <1>1, EditIs
  <2>3. ASSUME pc' = "plan" \/ Executing', NEW t \in Sides, NEW q \in Paths, disk'[<<t,
               q>>] # seen'[<<t, q>>]
        PROVE  Noted(q)'
    <3>1. pc # "down" /\ (pc = "plan" \/ Executing)
      BY <2>1, <2>3 DEF Executing
    <3>2. CASE <<t, q>> = <<s, p>>
      BY <2>2, <3>1, <3>2 DEF Noted
    <3>3. CASE <<t, q>> # <<s, p>>
      <4>1. disk[<<t, q>>] # seen[<<t, q>>]
        BY <2>1, <2>2, <2>3, <3>3
      <4>2. Noted(q)
        BY <3>1, <4>1 DEF SeenOrNoted
      <4> QED
        BY <2>1, <2>2, <4>2 DEF Noted
    <3> QED
      BY <3>2, <3>3
  <2> QED
    BY <2>3 DEF SeenOrNoted
<1>2. ASSUME NEW s \in Sides, NEW p \in Paths, Notify(s, p)
      PROVE  SeenOrNoted'
  <2>1. pc' = pc /\ disk' = disk /\ seen' = seen
    BY <1>2 DEF Notify, cycle
  <2>2. ASSUME pc' = "plan" \/ Executing', NEW q \in Paths, Noted(q)
        PROVE  Noted(q)'
    BY <2>1, <2>2, NotedStays DEF Executing
  <2> QED
    BY <2>1, <2>2 DEF SeenOrNoted, Executing
<1>3. CASE Overflow
  <2>1. pc' = pc /\ disk' = disk /\ seen' = seen
    BY <1>3 DEF Overflow, cycle
  <2>2. ASSUME pc' = "plan" \/ Executing', NEW q \in Paths, Noted(q)
        PROVE  Noted(q)'
    BY <2>1, <2>2, NotedStays DEF Executing
  <2> QED
    BY <2>1, <2>2 DEF SeenOrNoted, Executing
<1>4. CASE RequestAudit
  <2>1. pc' = pc /\ disk' = disk /\ seen' = seen
    BY <1>4 DEF RequestAudit, cycle
  <2>2. ASSUME pc' = "plan" \/ Executing', NEW q \in Paths, Noted(q)
        PROVE  Noted(q)'
    BY <2>1, <2>2, NotedStays DEF Executing
  <2> QED
    BY <2>1, <2>2 DEF SeenOrNoted, Executing
<1>5. ASSUME NEW retry \in SUBSET Paths, CaptureAnd(retry)
      PROVE  SeenOrNoted'
  BY <1>5 DEF CaptureAnd, stores, bounds, history, SeenOrNoted, Executing, Noted
<1>6. CASE AuditDrift
  BY <1>6 DEF AuditDrift, cycle, bounds, history, SeenOrNoted, Executing, Noted
<1>7. CASE Observe
  BY <1>7 DEF Observe, stores, bounds, history, SeenOrNoted, Executing, Noted
<1>8. CASE CommitEchoes
  BY <1>8 DEF CommitEchoes, Reset, Forget, bounds, SeenOrNoted, Executing, Noted
<1>9. CASE StartPlan
  BY <1>9 DEF StartPlan, bounds, history, SeenOrNoted, Executing, Noted
<1>10. CASE PreflightPasses
  BY <1>10 DEF PreflightPasses, stores, cycle, bounds, history, SeenOrNoted, Executing, Noted
<1>11. CASE CopyPasses
  BY <1>11 DEF CopyPasses, stores, bounds, history, SeenOrNoted, Executing, Noted
<1>12. ASSUME NEW p \in Paths, Install(p)
      PROVE  SeenOrNoted'
  <2>1. Destination(plan[p]) \in Sides /\ staged[p] \in Contents
    BY DEF Types, DiskTypes, Destination, Sides
  <2>2. /\ Replace(Destination(plan[p]), p, staged[p])
        /\ pc = "install" /\ pc' # "down" /\ seen' = seen /\ pend' = pend
    BY <1>12 DEF Install
  <2>3. ASSUME NEW t \in Sides, NEW q \in Paths, disk'[<<t, q>>] # seen'[<<t, q>>]
        PROVE  Noted(q)'
    BY <2>1, <2>2, <2>3, ReplacedIsNoted DEF SeenOrNoted, Executing
  <2> QED
    BY <2>3 DEF SeenOrNoted
<1>13. CASE PostflightPasses
  BY <1>13 DEF PostflightPasses, stores, bounds, history, SeenOrNoted, Executing, Noted
<1>14. CASE RehashPasses
  BY <1>14 DEF RehashPasses, stores, bounds, history, SeenOrNoted, Executing, Noted
<1>15. ASSUME NEW p \in Paths, Remove(p)
      PROVE  SeenOrNoted'
  <2>1. Destination(plan[p]) \in Sides /\ Missing \in Contents
    BY DEF Destination, Sides, Contents
  <2>2. CASE disk[<<Destination(plan[p]), p>>] = seen[<<Destination(plan[p]), p>>]
    <3>1. /\ Replace(Destination(plan[p]), p, Missing)
          /\ pc = "stage" /\ seen' = seen /\ pend' = pend
      BY <1>15, <2>2 DEF Remove
    <3>2. ASSUME NEW t \in Sides, NEW q \in Paths, disk'[<<t, q>>] # seen'[<<t, q>>]
          PROVE  Noted(q)'
      BY <2>1, <3>1, <3>2, ReplacedIsNoted DEF SeenOrNoted, Executing
    <3> QED
      BY <3>2 DEF SeenOrNoted
  <2>3. CASE disk[<<Destination(plan[p]), p>>] # seen[<<Destination(plan[p]), p>>]
    BY <1>15, <2>3 DEF Remove, SeenOrNoted, Executing, Noted
  <2> QED
    BY <2>2, <2>3
<1>16. CASE VerifyPasses
  BY <1>16 DEF VerifyPasses, stores, bounds, history, SeenOrNoted, Executing, Noted
<1>17. CASE PrepareConflicts
  BY <1>17 DEF PrepareConflicts, stores, bounds, history, SeenOrNoted, Executing, Noted
<1>18. CASE Commit
  BY <1>18 DEF Commit, Forget, bounds, SeenOrNoted, Executing, Noted
<1>19. CASE Refresh
  BY <1>19 DEF Refresh, Reset, Forget, bounds, history, SeenOrNoted, Executing, Noted
<1>20. CASE GivesUp
  BY <1>20 DEF GivesUp, Reset, Forget, history, SeenOrNoted, Executing, Noted
<1>21. CASE Restart
  BY <1>21 DEF Restart, stores, cycle, bounds, history, SeenOrNoted, Executing, Noted
<1>22. CASE UNCHANGED vars
  BY <1>22 DEF vars, stores, cycle, bounds, history, SeenOrNoted, Executing, Noted
<1> QED
  BY <1>1, <1>2, <1>3, <1>4, <1>5, <1>6, <1>7, <1>8, <1>9, <1>10, <1>11, <1>12, <1>13, <1>14,
     <1>15, <1>16, <1>17, <1>18, <1>19, <1>20, <1>21, <1>22 DEF Step
-----------------------------------------------------------------------------
(* Transfers.                                                              *)

\* A path of a transfer batch has a source that was there, and a destination that
\* was the base or missing.
LEMMA ActiveIs ==
    ASSUME Decisions, Executing, stage \in {1, 2}, NEW p \in Active
    PROVE  /\ p \in Paths /\ plan[p] \in Transfers
           /\ Destination(plan[p]) \in Sides /\ Source(plan[p]) \in Sides
           /\ Destination(plan[p]) # Source(plan[p])
           /\ seen[<<Source(plan[p]), p>>] # Missing
           /\ seen[<<Destination(plan[p]), p>>] \in {base[p], Missing}
<1>1. p \in Paths /\ plan[p] \in {"push", "pull"}
  BY DEF Active, Batch, Stages
<1>2. Decided(p)
  BY <1>1 DEF Decisions
<1>3. CASE plan[p] = "push"
  BY <1>1, <1>2, <1>3 DEF Decided, Destination, Source, Other, Sides, Transfers
<1>4. CASE plan[p] = "pull"
  BY <1>1, <1>2, <1>4 DEF Decided, Destination, Source, Other, Sides, Transfers
<1> QED
  BY <1>1, <1>3, <1>4

\* The two sides of a path are all its sides.
LEMMA BothSides ==
    ASSUME NEW p \in Active, stage \in {1, 2}
    PROVE  {Destination(plan[p]), Source(plan[p])} = Sides
<1>1. plan[p] \in {"push", "pull"}
  BY DEF Active, Batch, Stages
<1> QED
  BY <1>1 DEF Destination, Source, Other, Sides

\* A transfer only replaces what is safe, and what it leaves unchanged it has made the same.
LEMMA TransferKept ==
    ASSUME Types, Numbered, BasesSafe, Decisions, Transfer, Worked, Step
    PROVE  Transfer'
<1>1. ASSUME NEW s \in Sides, NEW p \in Paths, UserEdit(s, p)
      PROVE  Transfer'
  <2>1. /\ pc' = pc
        /\ stage' = stage
        /\ plan' = plan
        /\ installed' = installed
        /\ changed' = changed
        /\ seen' = seen /\ staged' = staged /\ kept' = kept
    BY <1>1 DEF UserEdit, cycle
  <2>2. Active' = Active
    BY <2>1 DEF Active, Batch
  <2>3. ASSUME pc \in {"copy", "install", "postflight", "rehash"}, NEW q \in Active
        PROVE  Transferring(q)'
    <3> DEFINE d == Destination(plan[q])
               t == Source(plan[q])
    <3>1. stage \in {1, 2} /\ Executing /\ Transferring(q)
      BY <2>3 DEF Transfer, Executing
    <3>2. q \in Paths /\ d \in Sides /\ t \in Sides /\ d # t /\ seen[<<t, q>>] # Missing
      BY <3>1, ActiveIs
    <3>3. Safe(disk[<<d, q>>]) => disk'[<<d, q>>] \in kept' \cup raced' \cup {Missing}
      <4>1. CASE <<s, p>> = <<d, q>>
        <5>1. InFlight(s, p)
          BY <2>3, <4>1 DEF InFlight
        <5>2. disk'[<<d, q>>] \in raced' \cup {Missing}
          BY <1>1, <4>1, <5>1, EditIs
        <5> QED
          BY <5>2 DEF Safe
      <4>2. CASE <<s, p>> # <<d, q>>
        <5>1. disk'[<<d, q>>] = disk[<<d, q>>] /\ raced \subseteq raced'
          BY <1>1, <3>2, <4>2, EditIs
        <5> QED
          BY <2>1, <5>1 DEF Safe
      <4> QED
        BY <4>1, <4>2
    <3>4. disk'[<<t, q>>] = seen[<<t, q>>] => disk[<<t, q>>] = seen[<<t, q>>]
      <4>1. CASE <<s, p>> = <<t, q>>
        <5>1. disk'[<<t, q>>] \in {Missing, edits + 1}
          BY <1>1, <4>1, EditIs
        <5>2. seen[<<t, q>>] <= edits /\ edits \in Nat /\ seen[<<t, q>>] \in Nat
          BY <3>2, ConstantsAssumption DEF Numbered, Types, DiskTypes, Contents, Versions, Missing
        <5> QED
          BY <3>2, <5>1, <5>2
      <4>2. CASE <<s, p>> # <<t, q>>
        BY <1>1, <3>2, <4>2, EditIs
      <4> QED
        BY <4>1, <4>2
    <3> HIDE DEF d, t
    <3>5. /\ q \notin installed => Safe(disk[<<d, q>>])
          /\ pc # "copy" => staged[q] # Missing /\ (disk[<<t, q>>] = seen[<<t, q>>] => staged[q] = seen[<<t, q>>])
          /\ pc \in {"install", "postflight"} /\ q \in installed /\ disk[<<t, q>>] = seen[<<t, q>>] => seen[<<t, q>>] \in kept
          /\ pc = "rehash" /\ q \notin changed => Safe(disk[<<d, q>>])
      BY <3>1 DEF Transferring, d, t
    <3>6. /\ q \notin installed => disk'[<<d, q>>] \in kept' \cup raced' \cup {Missing}
          /\ pc # "copy" => staged[q] # Missing /\ (disk'[<<t, q>>] = seen[<<t, q>>] => staged[q] = seen[<<t, q>>])
          /\ pc \in {"install", "postflight"} /\ q \in installed /\ disk'[<<t, q>>] = seen[<<t, q>>] => seen[<<t, q>>] \in kept
          /\ pc = "rehash" /\ q \notin changed => disk'[<<d, q>>] \in kept' \cup raced' \cup {Missing}
      BY <3>3, <3>4, <3>5
    <3> QED
      BY <2>1, <3>6 DEF Transferring, d, t, Safe
  <2> QED
    BY <2>1, <2>2, <2>3 DEF Transfer, Executing
<1>2. ASSUME NEW s \in Sides, NEW p \in Paths, Notify(s, p)
      PROVE  Transfer'
  BY <1>2 DEF Notify, stores, cycle, bounds, history, Transfer, Transferring, Active, Batch,
     Safe, Executing
<1>3. CASE Overflow
  BY <1>3 DEF Overflow, stores, cycle, history, Transfer, Transferring, Active, Batch, Safe,
     Executing
<1>4. CASE RequestAudit
  BY <1>4 DEF RequestAudit, stores, cycle, bounds, history, Transfer, Transferring, Active,
     Batch, Safe, Executing
<1>5. ASSUME NEW retry \in SUBSET Paths, CaptureAnd(retry)
      PROVE  Transfer'
  <2>1. /\ pc \notin {"copy", "install", "postflight", "rehash"}
        /\ pc' \notin {"copy", "install", "postflight", "rehash"}
        /\ installed' = installed
    BY <1>5 DEF CaptureAnd
  <2>2. pc' # "stage" /\ ~Executing
    BY <1>5 DEF CaptureAnd, Executing
  <2> QED
    BY <2>1, <2>2 DEF Transfer, Executing
<1>6. CASE AuditDrift
  <2>1. /\ pc \notin {"copy", "install", "postflight", "rehash"}
        /\ pc' \notin {"copy", "install", "postflight", "rehash"}
        /\ installed' = installed
    BY <1>6 DEF AuditDrift, cycle
  <2>2. pc' # "stage" /\ ~Executing
    BY <1>6 DEF AuditDrift, Executing
  <2> QED
    BY <2>1, <2>2 DEF Transfer, Executing
<1>7. CASE Observe
  <2>1. /\ pc \notin {"copy", "install", "postflight", "rehash"}
        /\ pc' \notin {"copy", "install", "postflight", "rehash"}
        /\ installed' = installed
    BY <1>7 DEF Observe
  <2>2. pc' # "stage" /\ ~Executing
    BY <1>7 DEF Observe, Executing
  <2> QED
    BY <2>1, <2>2 DEF Transfer, Executing
<1>8. CASE CommitEchoes
  BY <1>8 DEF CommitEchoes, Reset, Forget, Transfer, Executing
<1>9. CASE StartPlan
  <2>1. pc = "plan" /\ pc' = "stage" /\ installed' = installed
    BY <1>9 DEF StartPlan
  <2> QED
    BY <2>1 DEF Transfer, Executing
<1>10. CASE PreflightPasses
  <2>1. /\ pc = "stage" /\ pc' = "copy" /\ stage \in {1, 2} /\ Executing
        /\ UNCHANGED <<disk, stage, plan, installed, changed, seen, staged, kept, raced>>
    BY <1>10 DEF PreflightPasses, cycle, history, Executing
  <2>2. Active' = Active
    BY <2>1 DEF Active, Batch
  <2>3. ASSUME NEW q \in Active
        PROVE  Transferring(q)'
    <3>1. /\ q \in Paths
          /\ Destination(plan[q]) \in Sides
          /\ seen[<<Destination(plan[q]), q>>] \in {base[q], Missing}
      BY <2>1, ActiveIs
    <3>2. disk[<<Destination(plan[q]), q>>] = seen[<<Destination(plan[q]), q>>]
      BY <1>10, <3>1 DEF PreflightPasses, Agrees
    <3>3. Safe(disk[<<Destination(plan[q]), q>>])
      BY <3>1, <3>2 DEF BasesSafe, Safe
    <3> QED
      BY <2>1, <3>3 DEF Transferring, Safe
  <2> QED
    BY <2>1, <2>2, <2>3 DEF Transfer, Executing
<1>11. CASE CopyPasses
  <2>1. /\ pc = "copy" /\ pc' = "install" /\ stage \in {1, 2} /\ installed = {} /\ installed' = {}
        /\ UNCHANGED <<disk, stage, plan, changed, seen, kept, raced>>
    BY <1>11 DEF CopyPasses, history, Transfer
  <2>2. Active' = Active /\ Active \subseteq Paths
    BY <2>1 DEF Active, Batch
  <2>3. ASSUME NEW q \in Active
        PROVE  Transferring(q)'
    <3>1. Safe(disk[<<Destination(plan[q]), q>>])
      BY <2>1 DEF Transfer, Transferring
    <3>2. staged'[q] = disk[<<Source(plan[q]), q>>] /\ staged'[q] # Missing
      BY <1>11, <2>2 DEF CopyPasses
    <3> QED
      BY <2>1, <3>1, <3>2 DEF Transferring, Safe
  <2> QED
    BY <2>1, <2>2, <2>3 DEF Transfer, Executing
<1>12. ASSUME NEW p \in Paths, Install(p)
      PROVE  Transfer'
  <2>1. Destination(plan[p]) \in Sides /\ staged[p] \in Contents
    BY DEF Types, DiskTypes, Destination, Sides
  <2>2. /\ pc = "install" /\ pc' = (IF installed' = Active THEN "postflight" ELSE "install")
        /\ p \in Active \ installed /\ installed' = installed \cup {p}
        /\ Replace(Destination(plan[p]), p, staged[p])
        /\ UNCHANGED <<stage, plan, changed, seen, staged, raced>>
    BY <1>12 DEF Install
  <2>3. Active' = Active /\ stage \in {1, 2} /\ Executing
    BY <2>2 DEF Active, Batch, Transfer, Executing
  <2>4. /\ disk'[<<Destination(plan[p]), p>>] = staged[p]
        /\ \A k \in Sides \X Paths : k # <<Destination(plan[p]), p>> => disk'[k] = disk[k]
    BY <2>1, <2>2, ReplaceIs
  <2>5. /\ kept \subseteq kept'
        /\ disk'[<<"local", p>>] = disk'[<<"remote", p>>] => disk'[<<"local", p>>] \in kept' \cup {Missing}
    BY <2>1, <2>2, ReplaceIs
  <2>6. ASSUME NEW q \in Active
        PROVE  Transferring(q)'
    <3> DEFINE d == Destination(plan[q])
               t == Source(plan[q])
    <3>1. Transferring(q)
      BY <2>2 DEF Transfer
    <3>2. q \in Paths /\ d \in Sides /\ t \in Sides /\ d # t /\ seen[<<t, q>>] # Missing
      BY <2>3, ActiveIs
    <3>3. disk'[<<t, q>>] = disk[<<t, q>>]
      BY <2>4, <3>2
    <3>4. q # p => disk'[<<d, q>>] = disk[<<d, q>>]
      BY <2>4, <3>2
    <3>5. q = p /\ disk[<<t, q>>] = seen[<<t, q>>] => seen[<<t, q>>] \in kept'
      <4>1. SUFFICES ASSUME q = p, disk[<<t, q>>] = seen[<<t, q>>]
                     PROVE  seen[<<t, q>>] \in kept'
        OBVIOUS
      <4>2. staged[q] = seen[<<t, q>>]
        BY <2>2, <3>1, <4>1 DEF Transferring
      <4>3. disk'[<<d, q>>] = seen[<<t, q>>] /\ disk'[<<t, q>>] = seen[<<t, q>>]
        BY <2>4, <3>3, <4>1, <4>2
      <4>4. {d, t} = Sides
        BY <2>3, BothSides
      <4>5. disk'[<<"local", q>>] = seen[<<t, q>>] /\ disk'[<<"remote", q>>] = seen[<<t, q>>]
        BY <4>3, <4>4 DEF Sides
      <4> QED
        BY <2>5, <3>2, <4>1, <4>5
    <3> HIDE DEF d, t
    <3>6. /\ q \notin installed => Safe(disk[<<d, q>>])
          /\ staged[q] # Missing /\ (disk[<<t, q>>] = seen[<<t, q>>] => staged[q] = seen[<<t, q>>])
          /\ q \in installed /\ disk[<<t, q>>] = seen[<<t, q>>] => seen[<<t, q>>] \in kept
      BY <2>2, <3>1 DEF Transferring, d, t
    <3>7. /\ q \notin installed' => disk'[<<d, q>>] \in kept' \cup raced' \cup {Missing}
          /\ staged[q] # Missing /\ (disk'[<<t, q>>] = seen[<<t, q>>] => staged[q] = seen[<<t, q>>])
          /\ q \in installed' /\ disk'[<<t, q>>] = seen[<<t, q>>] => seen[<<t, q>>] \in kept'
      BY <2>2, <2>5, <3>3, <3>4, <3>5, <3>6 DEF Safe
    <3> QED
      BY <2>2, <3>7 DEF Transferring, d, t, Safe
  <2> QED
    BY <2>2, <2>3, <2>6 DEF Transfer, Executing
<1>13. CASE PostflightPasses
  <2>1. /\ pc = "postflight"
        /\ pc' = "rehash"
        /\ stage \in {1, 2}
        /\ installed = Active
        /\ changed \subseteq changed'
        /\ UNCHANGED <<disk, stage, plan, installed, seen, staged, kept, raced>>
    BY <1>13 DEF PostflightPasses, history, Transfer
  <2>2. Active' = Active
    BY <2>1 DEF Active, Batch
  <2>3. ASSUME NEW q \in Active
        PROVE  Transferring(q)'
    <3>1. /\ staged[q] # Missing
          /\ disk[<<Source(plan[q]), q>>] = seen[<<Source(plan[q]), q>>] => staged[q] = seen[<<Source(plan[q]), q>>]
          /\ disk[<<Source(plan[q]), q>>] = seen[<<Source(plan[q]), q>>] => seen[<<Source(plan[q]), q>>] \in kept
      BY <2>1 DEF Transfer, Transferring
    <3>2. q \notin changed' => Safe(disk[<<Destination(plan[q]), q>>])
      <4>1. SUFFICES ASSUME q \notin changed'
                     PROVE  Safe(disk[<<Destination(plan[q]), q>>])
        OBVIOUS
      <4>2. /\ disk[<<Source(plan[q]), q>>] = seen[<<Source(plan[q]), q>>]
            /\ disk[<<Destination(plan[q]), q>>] = seen[<<Source(plan[q]), q>>]
        BY <1>13, <4>1 DEF PostflightPasses
      <4> QED
        BY <3>1, <4>2 DEF Safe
    <3> QED
      BY <2>1, <3>1, <3>2 DEF Transferring, Safe
  <2> QED
    BY <2>1, <2>2, <2>3 DEF Transfer, Executing
<1>14. CASE RehashPasses
  BY <1>14 DEF RehashPasses, Transfer, Executing
<1>15. ASSUME NEW p \in Paths, Remove(p)
      PROVE  Transfer'
  <2>1. pc = "stage" /\ pc' \in {"stage", "verify"} /\ stage \in {3, 4} /\ stage' = stage
    BY <1>15 DEF Remove
  <2> QED
    BY <2>1 DEF Transfer, Executing
<1>16. CASE VerifyPasses
  BY <1>16 DEF VerifyPasses, Transfer, Executing
<1>17. CASE PrepareConflicts
  <2>1. pc' = "commit" /\ Executing'
    BY <1>17 DEF PrepareConflicts, Executing
  <2> QED
    BY <2>1 DEF Transfer, Executing
<1>18. CASE Commit
  BY <1>18 DEF Commit, Forget, Transfer, Executing
<1>19. CASE Refresh
  BY <1>19 DEF Refresh, Reset, Forget, Transfer, Executing
<1>20. CASE GivesUp
  BY <1>20 DEF GivesUp, Reset, Forget, Transfer, Executing
<1>21. CASE Restart
  <2>1. /\ pc \notin {"copy", "install", "postflight", "rehash"}
        /\ pc' \notin {"copy", "install", "postflight", "rehash"}
        /\ installed' = installed
    BY <1>21 DEF Restart, cycle
  <2>2. pc' # "stage" /\ ~Executing
    BY <1>21 DEF Restart, Executing
  <2> QED
    BY <2>1, <2>2 DEF Transfer, Executing
<1>22. CASE UNCHANGED vars
  BY <1>22 DEF vars, stores, cycle, bounds, history, Transfer, Transferring, Active, Batch, Safe,
     Executing
<1> QED
  BY <1>1, <1>2, <1>3, <1>4, <1>5, <1>6, <1>7, <1>8, <1>9, <1>10, <1>11, <1>12, <1>13, <1>14,
     <1>15, <1>16, <1>17, <1>18, <1>19, <1>20, <1>21, <1>22 DEF Step
-----------------------------------------------------------------------------
(* What the cycle has done, and what it left alone.                        *)

\* While a cycle executes, what was noted stays noted.
LEMMA StillNoted ==
    ASSUME Types, Step, Executing, Executing', NEW q \in Paths, Noted(q)
    PROVE  Noted(q)'
<1>1. pc # "idle" /\ pc' # "down"
  BY DEF Executing
<1> QED
  BY <1>1, NotedStays

\* What Worked says of a finished batch, at the stage that follows it.
LEMMA NextStageWorked ==
    ASSUME Types, Step, Worked, Executing, Executing', stage \in 1..4, stage' = NextStage(stage),
           installed = Active, pc \in {"rehash", "verify"}, changed' = changed, plan' = plan,
           NEW p \in Paths, NEW n \in 1..5, n < stage', n # 5, plan[p] = Stages[n], p \notin changed
    PROVE  Noted(p)'
<1>1. CASE n < stage
  BY <1>1, StillNoted DEF Worked
<1>2. CASE n = stage
  <2>1. p \in installed \ changed
    BY <1>2 DEF Active, Batch
  <2> QED
    BY <2>1, StillNoted DEF Worked
<1>3. CASE n > stage
  <2>1. n \in (stage + 1)..(NextStage(stage) - 1)
    BY <1>3, NextStageIs
  <2>2. Batch(n) = {}
    BY <2>1, NextStageIs
  <2> QED
    BY <2>2 DEF Batch
<1> QED
  BY <1>1, <1>2, <1>3

\* What the engine has replaced or deleted in this cycle stays noted.
LEMMA WorkedKept ==
    ASSUME Types, Transfer, Worked, Step
    PROVE  Worked'
<1>1. ASSUME NEW s \in Sides, NEW p \in Paths, UserEdit(s, p)
      PROVE  Worked'
  <2>1. pc' = pc /\ UNCHANGED <<stage, plan, installed, changed, after, seen>>
    BY <1>1 DEF UserEdit, cycle
  <2>2. ASSUME Executing, NEW q \in Paths, Noted(q)
        PROVE  Noted(q)'
    BY <2>1, <2>2, StillNoted DEF Executing
  <2>3. installed \subseteq Paths /\ Active' = Active
    BY <2>1 DEF Types, CycleTypes, Active, Batch
  <2> QED
    BY <2>1, <2>2, <2>3 DEF Worked, Executing
<1>2. ASSUME NEW s \in Sides, NEW p \in Paths, Notify(s, p)
      PROVE  Worked'
  <2>1. pc' = pc /\ UNCHANGED <<stage, plan, installed, changed, after, seen>>
    BY <1>2 DEF Notify, cycle
  <2>2. ASSUME Executing, NEW q \in Paths, Noted(q)
        PROVE  Noted(q)'
    BY <2>1, <2>2, StillNoted DEF Executing
  <2>3. installed \subseteq Paths /\ Active' = Active
    BY <2>1 DEF Types, CycleTypes, Active, Batch
  <2> QED
    BY <2>1, <2>2, <2>3 DEF Worked, Executing
<1>3. CASE Overflow
  <2>1. pc' = pc /\ UNCHANGED <<stage, plan, installed, changed, after, seen>>
    BY <1>3 DEF Overflow, cycle
  <2>2. ASSUME Executing, NEW q \in Paths, Noted(q)
        PROVE  Noted(q)'
    BY <2>1, <2>2, StillNoted DEF Executing
  <2>3. installed \subseteq Paths /\ Active' = Active
    BY <2>1 DEF Types, CycleTypes, Active, Batch
  <2> QED
    BY <2>1, <2>2, <2>3 DEF Worked, Executing
<1>4. CASE RequestAudit
  <2>1. pc' = pc /\ UNCHANGED <<stage, plan, installed, changed, after, seen>>
    BY <1>4 DEF RequestAudit, cycle
  <2>2. ASSUME Executing, NEW q \in Paths, Noted(q)
        PROVE  Noted(q)'
    BY <2>1, <2>2, StillNoted DEF Executing
  <2>3. installed \subseteq Paths /\ Active' = Active
    BY <2>1 DEF Types, CycleTypes, Active, Batch
  <2> QED
    BY <2>1, <2>2, <2>3 DEF Worked, Executing
<1>5. ASSUME NEW retry \in SUBSET Paths, CaptureAnd(retry)
      PROVE  Worked'
  <2>1. pc' \notin {"install", "postflight", "rehash", "stage", "verify"} /\ ~Executing'
    BY <1>5 DEF CaptureAnd, Executing
  <2> QED
    BY <2>1 DEF Worked, Executing
<1>6. CASE AuditDrift
  <2>1. pc' \notin {"install", "postflight", "rehash", "stage", "verify"} /\ ~Executing'
    BY <1>6 DEF AuditDrift, Executing
  <2> QED
    BY <2>1 DEF Worked, Executing
<1>7. CASE Observe
  <2>1. pc' \notin {"install", "postflight", "rehash", "stage", "verify"} /\ ~Executing'
    BY <1>7 DEF Observe, Executing
  <2> QED
    BY <2>1 DEF Worked, Executing
<1>8. CASE CommitEchoes
  <2>1. pc' \notin {"install", "postflight", "rehash", "stage", "verify"} /\ ~Executing'
    BY <1>8 DEF CommitEchoes, Executing
  <2> QED
    BY <2>1 DEF Worked, Executing
<1>9. CASE StartPlan
  <2>1. pc = "plan" /\ pc' = "stage" /\ installed' = installed /\ installed = {}
    BY <1>9 DEF StartPlan, Transfer, Executing
  <2>2. ASSUME NEW p \in Paths, NEW n \in 1..5, n < stage', plan'[p] = Stages[n]
        PROVE  FALSE
    <3>1. stage' \in 1..5
      BY <1>9, FirstStageIs
    <3>2. n \in 1..(stage' - 1)
      <4>1. PICK m \in 1..5 : m = stage'
        BY <3>1
      <4>2. n < m
        BY <2>2, <4>1
      <4>3. n \in 1..(m - 1)
        BY <4>2
      <4> QED
        BY <4>1, <4>3
    <3>3. \A k \in 1..(stage' - 1) : \A q \in Paths : plan'[q] # Stages[k]
      BY <1>9, FirstStageIs
    <3> QED
      BY <2>2, <3>2, <3>3
  <2> QED
    BY <2>1, <2>2 DEF Worked, Executing
<1>10. CASE PreflightPasses
  <2>1. pc = "stage" /\ pc' = "copy" /\ UNCHANGED <<stage, plan, changed>>
    BY <1>10 DEF PreflightPasses, cycle
  <2>2. ASSUME NEW q \in Paths, Noted(q)
        PROVE  Noted(q)'
    BY <2>1, <2>2, StillNoted DEF Executing
  <2> QED
    BY <2>1, <2>2 DEF Worked, Executing
<1>11. CASE CopyPasses
  <2>1. pc = "copy" /\ pc' = "install" /\ installed' = {} /\ UNCHANGED <<stage, plan, changed>>
    BY <1>11 DEF CopyPasses
  <2>2. ASSUME NEW q \in Paths, Noted(q)
        PROVE  Noted(q)'
    BY <2>1, <2>2, StillNoted DEF Executing
  <2> QED
    BY <2>1, <2>2 DEF Worked, Executing
<1>12. ASSUME NEW p \in Paths, Install(p)
      PROVE  Worked'
  <2>1. Destination(plan[p]) \in Sides /\ staged[p] \in Contents
    BY DEF Types, DiskTypes, Destination, Sides
  <2>2. /\ pc = "install" /\ pc' \in {"install", "postflight"}
        /\ installed' = installed \cup {p} /\ UNCHANGED <<stage, plan, changed>>
        /\ Replace(Destination(plan[p]), p, staged[p]) /\ pend' = pend
    BY <1>12 DEF Install
  <2>3. Noted(p)'
    BY <2>1, <2>2, ReplacedIsNoted
  <2>4. ASSUME NEW q \in Paths, Noted(q)
        PROVE  Noted(q)'
    BY <2>2, <2>4, StillNoted DEF Executing
  <2>5. installed \subseteq Paths
    BY DEF Types, CycleTypes
  <2> QED
    BY <2>2, <2>3, <2>4, <2>5 DEF Worked, Executing
<1>13. CASE PostflightPasses
  <2>1. /\ pc = "postflight" /\ pc' = "rehash"
        /\ installed' = installed /\ changed \subseteq changed' /\ UNCHANGED <<stage, plan>>
    BY <1>13 DEF PostflightPasses
  <2>2. ASSUME NEW q \in Paths, Noted(q)
        PROVE  Noted(q)'
    BY <2>1, <2>2, StillNoted DEF Executing
  <2>3. installed \subseteq Paths
    BY DEF Types, CycleTypes
  <2> QED
    BY <2>1, <2>2, <2>3 DEF Worked, Executing
<1>14. CASE RehashPasses
  <2>1. /\ pc \in {"rehash", "verify"}
        /\ pc' = "stage"
        /\ stage' = NextStage(stage)
        /\ installed' = {}
        /\ stage \in 1..4 /\ installed = Active /\ changed' = changed /\ plan' = plan
    BY <1>14 DEF RehashPasses, Transfer
  <2>2. ASSUME NEW p \in Paths, NEW n \in 1..5, n < stage', n # 5, plan[p] = Stages[n],
               p \notin changed
        PROVE  Noted(p)'
    BY <2>1, <2>2, NextStageWorked DEF Executing
  <2> QED
    BY <2>1, <2>2 DEF Worked, Executing
<1>15. ASSUME NEW p \in Paths, Remove(p)
      PROVE  Worked'
  <2>1. /\ pc = "stage"
        /\ pc' = (IF installed' = Active THEN "verify" ELSE "stage")
        /\ stage \in {3, 4}
        /\ installed' = installed \cup {p} /\ UNCHANGED <<stage, plan, pend>>
    BY <1>15 DEF Remove
  <2>2. changed \subseteq changed' /\ (p \notin changed' => Noted(p)')
    <3>1. CASE disk[<<Destination(plan[p]), p>>] = seen[<<Destination(plan[p]), p>>]
      <4>1. Replace(Destination(plan[p]), p, Missing) /\ changed' = changed
        BY <1>15, <3>1 DEF Remove
      <4>2. Destination(plan[p]) \in Sides /\ Missing \in Contents
        BY DEF Destination, Sides, Contents
      <4> QED
        BY <2>1, <4>1, <4>2, ReplacedIsNoted
    <3>2. CASE disk[<<Destination(plan[p]), p>>] # seen[<<Destination(plan[p]), p>>]
      BY <1>15, <3>2 DEF Remove
    <3> QED
      BY <3>1, <3>2
  <2>3. Executing'
    BY <2>1 DEF Executing
  <2>4. ASSUME NEW q \in Paths, Noted(q)
        PROVE  Noted(q)'
    BY <2>1, <2>3, <2>4, StillNoted DEF Executing
  <2>5. installed \subseteq Paths /\ Active' = Active
    BY <2>1 DEF Types, CycleTypes, Active, Batch
  <2>6. ASSUME NEW q \in installed' \ changed'
        PROVE  Noted(q)'
    BY <2>1, <2>2, <2>4, <2>5, <2>6 DEF Worked
  <2>7. ASSUME NEW q \in Paths, NEW n \in 1..5, n < stage', n # 5, plan'[q] = Stages[n],
               q \notin changed'
        PROVE  Noted(q)'
    BY <2>1, <2>2, <2>4, <2>7 DEF Worked, Executing
  <2> QED
    BY <2>1, <2>5, <2>6, <2>7 DEF Worked
<1>16. CASE VerifyPasses
  <2>1. /\ pc \in {"rehash", "verify"}
        /\ pc' = "stage"
        /\ stage' = NextStage(stage)
        /\ installed' = {}
        /\ stage \in 1..4 /\ installed = Active /\ changed' = changed /\ plan' = plan
    BY <1>16 DEF VerifyPasses, Worked
  <2>2. ASSUME NEW p \in Paths, NEW n \in 1..5, n < stage', n # 5, plan[p] = Stages[n],
               p \notin changed
        PROVE  Noted(p)'
    BY <2>1, <2>2, NextStageWorked DEF Executing
  <2> QED
    BY <2>1, <2>2 DEF Worked, Executing
<1>17. CASE PrepareConflicts
  <2>1. /\ pc = "stage" /\ pc' = "commit" /\ stage = 5 /\ changed \subseteq changed'
        /\ UNCHANGED <<stage, plan, seen>>
        /\ \A p \in Paths : plan[p] = "update-base" => after'[p] = seen[<<"local", p>>]
    BY <1>17 DEF PrepareConflicts
  <2>2. ASSUME NEW q \in Paths, Noted(q)
        PROVE  Noted(q)'
    BY <2>1, <2>2, StillNoted DEF Executing
  <2>3. ASSUME NEW q \in Paths, NEW n \in 1..5, n < stage', n # 5, plan'[q] = Stages[n],
               q \notin changed'
        PROVE  Noted(q)'
    BY <2>1, <2>2, <2>3 DEF Worked, Executing
  <2> QED
    BY <2>1, <2>3 DEF Worked
<1>18. CASE Commit
  <2>1. pc' \notin {"install", "postflight", "rehash", "stage", "verify"} /\ ~Executing'
    BY <1>18 DEF Commit, Executing
  <2> QED
    BY <2>1 DEF Worked, Executing
<1>19. CASE Refresh
  <2>1. pc' \notin {"install", "postflight", "rehash", "stage", "verify"} /\ ~Executing'
    BY <1>19 DEF Refresh, Executing
  <2> QED
    BY <2>1 DEF Worked, Executing
<1>20. CASE GivesUp
  <2>1. pc' \notin {"install", "postflight", "rehash", "stage", "verify"} /\ ~Executing'
    BY <1>20 DEF GivesUp, Executing
  <2> QED
    BY <2>1 DEF Worked, Executing
<1>21. CASE Restart
  <2>1. pc' \notin {"install", "postflight", "rehash", "stage", "verify"} /\ ~Executing'
    BY <1>21 DEF Restart, Executing
  <2> QED
    BY <2>1 DEF Worked, Executing
<1>22. CASE UNCHANGED vars
  <2>1. pc' = pc /\ UNCHANGED <<stage, plan, installed, changed, after, seen>>
    BY <1>22 DEF vars, cycle
  <2>2. ASSUME Executing, NEW q \in Paths, Noted(q)
        PROVE  Noted(q)'
    BY <2>1, <2>2, StillNoted DEF Executing
  <2>3. installed \subseteq Paths /\ Active' = Active
    BY <2>1 DEF Types, CycleTypes, Active, Batch
  <2> QED
    BY <2>1, <2>2, <2>3 DEF Worked, Executing
<1> QED
  BY <1>1, <1>2, <1>3, <1>4, <1>5, <1>6, <1>7, <1>8, <1>9, <1>10, <1>11, <1>12, <1>13, <1>14,
     <1>15, <1>16, <1>17, <1>18, <1>19, <1>20, <1>21, <1>22 DEF Step

\* What is not planned stays explained by an echo until the cycle commits or gives up.
LEMMA EchoedKept ==
    ASSUME Types, Echoed, Step
    PROVE  Echoed'
<1>1. ASSUME NEW s \in Sides, NEW p \in Paths, UserEdit(s, p)
      PROVE  Echoed'
  BY <1>1 DEF UserEdit, stores, cycle, Echoed, Executing
<1>2. ASSUME NEW s \in Sides, NEW p \in Paths, Notify(s, p)
      PROVE  Echoed'
  BY <1>2 DEF Notify, stores, cycle, bounds, history, Echoed, Executing
<1>3. CASE Overflow
  BY <1>3 DEF Overflow, stores, cycle, history, Echoed, Executing
<1>4. CASE RequestAudit
  BY <1>4 DEF RequestAudit, stores, cycle, bounds, history, Echoed, Executing
<1>5. ASSUME NEW retry \in SUBSET Paths, CaptureAnd(retry)
      PROVE  Echoed'
  <2>1. ~Executing'
    BY <1>5 DEF CaptureAnd, Executing
  <2> QED
    BY <2>1 DEF Echoed
<1>6. CASE AuditDrift
  <2>1. ~Executing'
    BY <1>6 DEF AuditDrift, Executing
  <2> QED
    BY <2>1 DEF Echoed
<1>7. CASE Observe
  <2>1. ~Executing'
    BY <1>7 DEF Observe, Executing
  <2> QED
    BY <2>1 DEF Echoed
<1>8. CASE CommitEchoes
  <2>1. ~Executing'
    BY <1>8 DEF CommitEchoes, Executing
  <2> QED
    BY <2>1 DEF Echoed
<1>9. CASE StartPlan
  <2>1. /\ matched' = MatchedEchoes /\ UNCHANGED <<seen, cap, requeued>>
        /\ \A p \in Paths : plan'[p] = IF p \in Dirty THEN Planned(p) ELSE "idle"
        /\ \A k \in Sides \X Paths : k \notin Intents(plan') => echo'[k] = echo[k]
    BY <1>9 DEF StartPlan
  <2>2. ASSUME NEW k \in matched', plan'[k[2]] = "idle"
        PROVE  echo'[k] = seen'[k]
    <3>1. k \in Sides \X Paths /\ seen[k] = echo[k]
      BY <2>1, <2>2 DEF MatchedEchoes
    <3>2. k \notin Intents(plan')
      BY <2>2 DEF Intents, Transfers, Deletions
    <3> QED
      BY <2>1, <3>1, <3>2
  <2>3. ASSUME NEW p \in Paths, p \in Dirty
        PROVE  plan'[p] # "idle"
    BY <2>1, <2>3, PlannedIs
  <2>4. ASSUME NEW p \in requeued'
        PROVE  plan'[p] # "idle"
    BY <2>1, <2>3, <2>4 DEF Dirty, Types, JournalTypes
  <2>5. ASSUME NEW s \in Sides, NEW p \in cap'[s] \ {Rescan}, plan'[p] = "idle"
        PROVE  <<s, p>> \in matched'
    <3>1. p \in Paths /\ p \in cap[s]
      BY <2>1, <2>5 DEF Types, JournalTypes
    <3>2. p \notin Dirty
      BY <2>3, <2>5, <3>1
    <3> QED
      BY <2>1, <2>5, <3>1, <3>2 DEF Dirty
  <2> QED
    BY <2>2, <2>4, <2>5 DEF Echoed
<1>10. CASE PreflightPasses
  BY <1>10 DEF PreflightPasses, stores, cycle, bounds, history, Echoed, Executing
<1>11. CASE CopyPasses
  BY <1>11 DEF CopyPasses, stores, bounds, history, Echoed, Executing
<1>12. ASSUME NEW p \in Paths, Install(p)
      PROVE  Echoed'
  BY <1>12 DEF Install, Replace, stores, bounds, Echoed, Executing
<1>13. CASE PostflightPasses
  BY <1>13 DEF PostflightPasses, stores, bounds, history, Echoed, Executing
<1>14. CASE RehashPasses
  BY <1>14 DEF RehashPasses, stores, bounds, history, Echoed, Executing
<1>15. ASSUME NEW p \in Paths, Remove(p)
      PROVE  Echoed'
  BY <1>15 DEF Remove, Replace, stores, bounds, Echoed, Executing
<1>16. CASE VerifyPasses
  BY <1>16 DEF VerifyPasses, stores, bounds, history, Echoed, Executing
<1>17. CASE PrepareConflicts
  BY <1>17 DEF PrepareConflicts, stores, bounds, history, Echoed, Executing
<1>18. CASE Commit
  <2>1. ~Executing'
    BY <1>18 DEF Commit, Executing
  <2> QED
    BY <2>1 DEF Echoed
<1>19. CASE Refresh
  <2>1. ~Executing'
    BY <1>19 DEF Refresh, Executing
  <2> QED
    BY <2>1 DEF Echoed
<1>20. CASE GivesUp
  <2>1. ~Executing'
    BY <1>20 DEF GivesUp, Executing
  <2> QED
    BY <2>1 DEF Echoed
<1>21. CASE Restart
  <2>1. ~Executing'
    BY <1>21 DEF Restart, Executing
  <2> QED
    BY <2>1 DEF Echoed
<1>22. CASE UNCHANGED vars
  BY <1>22 DEF vars, stores, cycle, bounds, history, Echoed, Executing
<1> QED
  BY <1>1, <1>2, <1>3, <1>4, <1>5, <1>6, <1>7, <1>8, <1>9, <1>10, <1>11, <1>12, <1>13, <1>14,
     <1>15, <1>16, <1>17, <1>18, <1>19, <1>20, <1>21, <1>22 DEF Step
-----------------------------------------------------------------------------
(* What is still to be done.                                               *)

\* A cycle holds events until it ends, and audits only when asked to.
LEMMA TakingKept ==
    ASSUME Types, Taking, Step
    PROVE  Taking'
<1>1. ASSUME NEW s \in Sides, NEW p \in Paths, UserEdit(s, p)
      PROVE  Taking'
  BY <1>1 DEF UserEdit, cycle, Taking
<1>2. ASSUME NEW s \in Sides, NEW p \in Paths, Notify(s, p)
      PROVE  Taking'
  BY <1>2 DEF Notify, stores, cycle, bounds, history, Taking
<1>3. CASE Overflow
  BY <1>3 DEF Overflow, stores, cycle, history, Taking
<1>4. CASE RequestAudit
  BY <1>4 DEF RequestAudit, stores, cycle, bounds, history, Taking
<1>5. ASSUME NEW retry \in SUBSET Paths, CaptureAnd(retry)
      PROVE  Taking'
  <2>1. pc' = (IF Rescan \in pend["local"] \cup pend["remote"] THEN "audit" ELSE "observe") /\ cap' = pend
    BY <1>5 DEF CaptureAnd
  <2> QED
    BY <2>1 DEF Taking, Sides
<1>6. CASE AuditDrift
  BY <1>6 DEF AuditDrift, cycle, bounds, history, Taking
<1>7. CASE Observe
  BY <1>7 DEF Observe, stores, bounds, history, Taking
<1>8. CASE CommitEchoes
  <2>1. cap' = [s \in Sides |-> {}] /\ pc' # "audit"
    BY <1>8 DEF CommitEchoes, Reset, Forget
  <2> QED
    BY <2>1 DEF Taking
<1>9. CASE StartPlan
  BY <1>9 DEF StartPlan, bounds, history, Taking
<1>10. CASE PreflightPasses
  BY <1>10 DEF PreflightPasses, stores, cycle, bounds, history, Taking
<1>11. CASE CopyPasses
  BY <1>11 DEF CopyPasses, stores, bounds, history, Taking
<1>12. ASSUME NEW p \in Paths, Install(p)
      PROVE  Taking'
  <2>1. pc' \in {"install", "postflight"}
    BY <1>12 DEF Install
  <2> QED
    BY <2>1 DEF Taking
<1>13. CASE PostflightPasses
  BY <1>13 DEF PostflightPasses, stores, bounds, history, Taking
<1>14. CASE RehashPasses
  BY <1>14 DEF RehashPasses, stores, bounds, history, Taking
<1>15. ASSUME NEW p \in Paths, Remove(p)
      PROVE  Taking'
  <2>1. pc' \in {"stage", "verify"}
    BY <1>15 DEF Remove
  <2> QED
    BY <2>1 DEF Taking
<1>16. CASE VerifyPasses
  BY <1>16 DEF VerifyPasses, stores, bounds, history, Taking
<1>17. CASE PrepareConflicts
  BY <1>17 DEF PrepareConflicts, stores, bounds, history, Taking
<1>18. CASE Commit
  <2>1. cap' = [s \in Sides |-> {}] /\ pc' # "audit"
    BY <1>18 DEF Commit, Forget
  <2> QED
    BY <2>1 DEF Taking
<1>19. CASE Refresh
  <2>1. cap' = [s \in Sides |-> {}] /\ pc' # "audit"
    BY <1>19 DEF Refresh, Reset, Forget
  <2> QED
    BY <2>1 DEF Taking
<1>20. CASE GivesUp
  <2>1. cap' = [s \in Sides |-> {}] /\ pc' # "audit"
    BY <1>20 DEF GivesUp, Reset, Forget
  <2> QED
    BY <2>1 DEF Taking
<1>21. CASE Restart
  BY <1>21 DEF Restart, stores, cycle, bounds, history, Taking
<1>22. CASE UNCHANGED vars
  BY <1>22 DEF vars, stores, cycle, bounds, history, Taking
<1> QED
  BY <1>1, <1>2, <1>3, <1>4, <1>5, <1>6, <1>7, <1>8, <1>9, <1>10, <1>11, <1>12, <1>13, <1>14,
     <1>15, <1>16, <1>17, <1>18, <1>19, <1>20, <1>21, <1>22 DEF Step

\* A step that leaves the stores and the events taken alone loses no difference.
LEMMA StillFollowed ==
    ASSUME Types, Step, NEW p \in Paths, FollowedAt(p), pc \notin {"down", "audit"}, pc' \notin {"down", "audit"},
           pc = "idle" => pc' = "idle",
           UNCHANGED <<base, requeued, conflicts, cap, swallowed>>,
           NEW s \in Sides,
           disk'[<<s, p>>] # disk[<<s, p>>] => Noted(p)',
           disk'[<<s, p>>] # base'[p]
    PROVE  Later(p)' \/ Taken(p)' \/ p \in swallowed'
<1>1. CASE disk'[<<s, p>>] # disk[<<s, p>>]
  BY <1>1 DEF Later
<1>2. CASE disk'[<<s, p>>] = disk[<<s, p>>]
  <2>1. Later(p) \/ Taken(p) \/ p \in swallowed
    BY <1>2 DEF FollowedAt
  <2>2. Noted(p) => Noted(p)'
    BY NotedStays
  <2> QED
    BY <2>1, <2>2 DEF Later, Taken
<1> QED
  BY <1>1, <1>2

\* A step that changes no entry and no store loses no difference either.
LEMMA NothingForgotten ==
    ASSUME Types, Step, NEW q \in Paths, FollowedAt(q), pc \notin {"down", "audit"} \/ pc' = pc,
           pc = "idle" => pc' = "idle",
           UNCHANGED <<disk, base, requeued, conflicts, cap, swallowed>>
    PROVE  FollowedAt(q)'
<1>1. SUFFICES ASSUME pc' \notin {"down", "audit"}, NEW s \in Sides, disk'[<<s, q>>] # base'[q]
               PROVE  Later(q)' \/ Taken(q)' \/ q \in swallowed'
  BY DEF FollowedAt
<1> QED
  BY <1>1, StillFollowed

\* What the commit does to a path: it is the new base, or it is requeued, recorded as
\* a conflict, noted, or taken for an echo.
LEMMA CommitFollows ==
    ASSUME Types, Decisions, SeenOrNoted, Worked, Echoed, Step, Commit,
           NEW s \in Sides, NEW p \in Paths, FollowedAt(p), disk'[<<s, p>>] # base'[p]
    PROVE  Later(p)' \/ p \in swallowed'
<1>1. /\ pc = "commit" /\ Executing /\ stage = 5 /\ pc' = "refresh"
      /\ disk' = disk /\ raw' = raw
      /\ pend' = IF changed = {} THEN pend ELSE [t \in Sides |-> pend[t] \cup cap[t]]
  BY DEF Commit, Forget, Executing, Worked
<1>2. Noted(p) => Later(p)'
  BY <1>1, NotedStays DEF Later
<1>3. CASE p \in changed
  <2>1. p \in requeued'
    BY <1>3 DEF Commit, Clearable
  <2> QED
    BY <2>1 DEF Later
<1>4. SUFFICES ASSUME p \notin changed, ~Noted(p)
               PROVE  Later(p)' \/ p \in swallowed'
  BY <1>2, <1>3
<1>5. \A t \in Sides : disk[<<t, p>>] = seen[<<t, p>>]
  BY <1>1, <1>4 DEF SeenOrNoted
<1>6. Decided(p)
  BY <1>1 DEF Decisions
<1>7. base'[p] = IF p \in Completed THEN after[p] ELSE base[p]
  BY DEF Commit
<1>8. CASE plan[p] = "conflict"
  <2>1. p \in conflicts'
    BY <1>4, <1>8 DEF Commit
  <2> QED
    BY <2>1 DEF Later
<1>9. CASE plan[p] \in Transfers \cup Deletions
  <2>1. PICK n \in 1..4 : plan[p] = Stages[n]
    BY <1>9 DEF Transfers, Deletions, Stages
  <2>2. n \in 1..5 /\ n < 5 /\ n # 5
    OBVIOUS
  <2>3. Noted(p)
    BY <1>1, <1>4, <2>1, <2>2 DEF Worked
  <2> QED
    BY <1>4, <2>3
<1>10. CASE plan[p] = "update-base"
  <2>1. p \in Completed
    BY <1>4, <1>10 DEF Completed
  <2>2. base'[p] = seen[<<"local", p>>] /\ seen[<<"local", p>>] = seen[<<"remote", p>>]
    BY <1>1, <1>6, <1>7, <1>10, <2>1 DEF Worked, Decided
  <2>3. disk[<<s, p>>] = base'[p]
    BY <1>5, <2>2 DEF Sides
  <2> QED
    BY <1>1, <2>3
<1>11. CASE plan[p] = "none"
  <2>1. p \notin Completed
    BY <1>11 DEF Completed, Transfers, Deletions
  <2>2. base'[p] = base[p] /\ seen[<<"local", p>>] = base[p] /\ seen[<<"remote", p>>] = base[p]
    BY <1>6, <1>7, <1>11, <2>1 DEF Decided
  <2>3. disk[<<s, p>>] = base'[p]
    BY <1>5, <2>2 DEF Sides
  <2> QED
    BY <1>1, <2>3
<1>12. CASE plan[p] = "idle"
  <2>1. p \notin Completed
    BY <1>12 DEF Completed, Transfers, Deletions
  <2>2. base'[p] = base[p] /\ disk[<<s, p>>] # base[p]
    BY <1>1, <1>7, <2>1
  <2>3. Later(p) \/ Taken(p) \/ p \in swallowed
    BY <1>1, <2>2 DEF FollowedAt
  <2>4. p \notin requeued
    BY <1>1, <1>12 DEF Echoed
  <2>5. CASE p \in conflicts
    BY <2>1, <2>5 DEF Commit, Later
  <2>6. CASE p \in swallowed
    BY <1>12, <2>6 DEF Commit
  <2>7. CASE Taken(p)
    <3>1. PICK t \in Sides : p \in cap[t]
      BY <2>7 DEF Taken
    <3>2. CASE changed # {}
      <4>1. p \in pend'[t]
        BY <1>1, <3>1, <3>2
      <4> QED
        BY <4>1 DEF Later, Noted
    <3>3. CASE changed = {}
      <4>1. p # Rescan
        BY ConstantsAssumption
      <4>2. <<t, p>> \in matched
        BY <1>1, <1>12, <3>1, <4>1 DEF Echoed
      <4>3. echo[<<t, p>>] = seen[<<t, p>>]
        BY <1>1, <1>12, <4>2 DEF Echoed
      <4>4. seen[<<s, p>>] # base[p]
        BY <1>5, <2>2
      <4>5. p \notin raw[s] \cup pend[s]
        BY <1>4 DEF Noted
      <4>6. <<t, p>> \in {k \in matched : plan[k[2]] = "idle"}
        BY <1>12, <4>2
      <4>7. p \in Swallowing({k \in matched : plan[k[2]] = "idle"})
        BY <4>3, <4>4, <4>5, <4>6 DEF Swallowing
      <4> QED
        BY <1>12, <3>3, <4>7 DEF Commit
    <3> QED
      BY <3>2, <3>3
  <2> QED
    BY <1>4, <2>3, <2>4, <2>5, <2>6, <2>7 DEF Later
<1> QED
  BY <1>8, <1>9, <1>10, <1>11, <1>12 DEF Types, CycleTypes

\* A cycle without anything to do only forgets what an echo explains.
LEMMA EchoesFollow ==
    ASSUME Types, SeenOrNoted, Step, CommitEchoes,
           NEW s \in Sides, NEW p \in Paths, FollowedAt(p), disk'[<<s, p>>] # base'[p]
    PROVE  Later(p)' \/ p \in swallowed'
<1>1. /\ pc = "plan" /\ pc' = "idle" /\ Dirty = {}
      /\ UNCHANGED <<disk, base, requeued, conflicts, raw, pend>>
      /\ swallowed' = swallowed \cup Swallowing(MatchedEchoes)
  BY DEF CommitEchoes, Reset, Forget
<1>2. disk[<<s, p>>] # base[p]
  BY <1>1
<1>3. Later(p) \/ Taken(p) \/ p \in swallowed
  BY <1>1, <1>2 DEF FollowedAt
<1>4. Later(p) => Later(p)'
  BY <1>1 DEF Later, Noted
<1>5. CASE Taken(p) /\ ~Later(p)
  <2>1. PICK t \in Sides : p \in cap[t]
    BY <1>5 DEF Taken
  <2>2. ~Noted(p)
    BY <1>5 DEF Later
  <2>3. seen[<<s, p>>] # base[p]
    BY <1>1, <1>2, <2>2 DEF SeenOrNoted
  <2>4. <<t, p>> \in MatchedEchoes
    BY <1>1, <2>1 DEF Dirty
  <2>5. echo[<<t, p>>] = seen[<<t, p>>]
    BY <2>4 DEF MatchedEchoes
  <2>6. p \notin raw[s] \cup pend[s]
    BY <2>2 DEF Noted
  <2>7. p \in Swallowing(MatchedEchoes)
    BY <2>3, <2>4, <2>5, <2>6 DEF Swallowing
  <2> QED
    BY <1>1, <2>7
<1> QED
  BY <1>1, <1>3, <1>4, <1>5

\* No step forgets a difference, unless it was taken for an echo.
LEMMA FollowedKept ==
    ASSUME Types, Decisions, SeenOrNoted, Worked, Echoed, Taking, NEW q \in Paths, FollowedAt(q), Step
    PROVE  FollowedAt(q)'
<1>1. ASSUME NEW s \in Sides, NEW p \in Paths, UserEdit(s, p)
      PROVE  FollowedAt(q)'
  <2>1. /\ pc' = pc /\ UNCHANGED <<base, requeued, conflicts, cap, swallowed>>
    BY <1>1 DEF UserEdit, stores, cycle
  <2>2. \A k \in Sides \X Paths : k # <<s, p>> => disk'[k] = disk[k]
    BY <1>1, EditIs
  <2>3. pc # "down" => p \in raw'[s]
    BY <1>1, EditIs
  <2>4. SUFFICES ASSUME pc' \notin {"down", "audit"}, NEW t \in Sides,
                        disk'[<<t, q>>] # base'[q]
                 PROVE  Later(q)' \/ Taken(q)' \/ q \in swallowed'
    BY DEF FollowedAt
  <2>5. disk'[<<t, q>>] # disk[<<t, q>>] => Noted(q)'
    BY <2>1, <2>2, <2>3, <2>4 DEF Noted
  <2> QED
    BY <2>1, <2>4, <2>5, StillFollowed
<1>2. ASSUME NEW s \in Sides, NEW p \in Paths, Notify(s, p)
      PROVE  FollowedAt(q)'
  <2>1. /\ pc \notin {"down", "audit"} \/ pc' = pc
        /\ pc = "idle" => pc' = "idle"
        /\ UNCHANGED <<disk, base, requeued, conflicts, cap, swallowed>>
    BY <1>2 DEF Notify, stores, cycle, bounds, history
  <2> QED
    BY <2>1, NothingForgotten
<1>3. CASE Overflow
  <2>1. /\ pc \notin {"down", "audit"} \/ pc' = pc
        /\ pc = "idle" => pc' = "idle"
        /\ UNCHANGED <<disk, base, requeued, conflicts, cap, swallowed>>
    BY <1>3 DEF Overflow, stores, cycle, bounds, history
  <2> QED
    BY <2>1, NothingForgotten
<1>4. CASE RequestAudit
  <2>1. /\ pc \notin {"down", "audit"} \/ pc' = pc
        /\ pc = "idle" => pc' = "idle"
        /\ UNCHANGED <<disk, base, requeued, conflicts, cap, swallowed>>
    BY <1>4 DEF RequestAudit, stores, cycle, bounds, history
  <2> QED
    BY <2>1, NothingForgotten
<1>5. ASSUME NEW retry \in SUBSET Paths, CaptureAnd(retry)
      PROVE  FollowedAt(q)'
  <2>1. /\ pc = "idle"
        /\ UNCHANGED <<disk, raw, base, requeued, conflicts, swallowed>>
        /\ cap' = pend
        /\ pc' = IF Rescan \in pend["local"] \cup pend["remote"] THEN "audit" ELSE "observe"
    BY <1>5 DEF CaptureAnd, stores, history
  <2>2. SUFFICES ASSUME pc' \notin {"down", "audit"}, NEW t \in Sides,
                        disk'[<<t, q>>] # base'[q]
                 PROVE  Later(q)' \/ Taken(q)' \/ q \in swallowed'
    BY DEF FollowedAt
  <2>3. \A u \in Sides : Rescan \notin pend[u] /\ cap[u] = {}
    BY <2>1, <2>2 DEF Sides, Taking
  <2>4. Later(q) \/ q \in swallowed
    BY <2>1, <2>2, <2>3 DEF FollowedAt, Taken
  <2>5. Noted(q) => Taken(q)' \/ Noted(q)'
    BY <2>1, <2>3 DEF Noted, Taken
  <2> QED
    BY <2>1, <2>4, <2>5 DEF Later
<1>6. CASE AuditDrift
  <2>1. /\ UNCHANGED <<disk, base>>
        /\ requeued' = requeued \cup {p \in Paths : \E s \in Sides : disk[<<s, p>>] # base[p]}
    BY <1>6 DEF AuditDrift
  <2> QED
    BY <2>1 DEF FollowedAt, Later
<1>7. CASE Observe
  <2>1. /\ pc \notin {"down", "audit"} \/ pc' = pc
        /\ pc = "idle" => pc' = "idle"
        /\ UNCHANGED <<disk, base, requeued, conflicts, cap, swallowed>>
    BY <1>7 DEF Observe, stores, cycle, bounds, history
  <2> QED
    BY <2>1, NothingForgotten
<1>8. CASE CommitEchoes
  <2>1. \A s \in Sides : disk'[<<s, q>>] # base'[q] => Later(q)' \/ q \in swallowed'
    BY <1>8, EchoesFollow
  <2> QED
    BY <2>1 DEF FollowedAt
<1>9. CASE StartPlan
  <2>1. /\ pc \notin {"down", "audit"} \/ pc' = pc
        /\ pc = "idle" => pc' = "idle"
        /\ UNCHANGED <<disk, base, requeued, conflicts, cap, swallowed>>
    BY <1>9 DEF StartPlan, stores, cycle, bounds, history
  <2> QED
    BY <2>1, NothingForgotten
<1>10. CASE PreflightPasses
  <2>1. /\ pc \notin {"down", "audit"} \/ pc' = pc
        /\ pc = "idle" => pc' = "idle"
        /\ UNCHANGED <<disk, base, requeued, conflicts, cap, swallowed>>
    BY <1>10 DEF PreflightPasses, stores, cycle, bounds, history
  <2> QED
    BY <2>1, NothingForgotten
<1>11. CASE CopyPasses
  <2>1. /\ pc \notin {"down", "audit"} \/ pc' = pc
        /\ pc = "idle" => pc' = "idle"
        /\ UNCHANGED <<disk, base, requeued, conflicts, cap, swallowed>>
    BY <1>11 DEF CopyPasses, stores, cycle, bounds, history
  <2> QED
    BY <2>1, NothingForgotten
<1>12. ASSUME NEW p \in Paths, Install(p)
      PROVE  FollowedAt(q)'
  <2>1. Destination(plan[p]) \in Sides /\ staged[p] \in Contents
    BY DEF Types, DiskTypes, Destination, Sides
  <2>2. /\ pc = "install" /\ pc' \in {"install", "postflight"}
        /\ UNCHANGED <<base, requeued, conflicts, cap, swallowed, pend>>
        /\ Replace(Destination(plan[p]), p, staged[p])
    BY <1>12 DEF Install, stores
  <2>3. SUFFICES ASSUME NEW t \in Sides, disk'[<<t, q>>] # base'[q]
                 PROVE  Later(q)' \/ Taken(q)' \/ q \in swallowed'
    BY DEF FollowedAt
  <2>4. disk'[<<t, q>>] # disk[<<t, q>>] => Noted(q)'
    BY <2>1, <2>2, ReplacedIsNoted
  <2> QED
    BY <2>2, <2>3, <2>4, StillFollowed
<1>13. CASE PostflightPasses
  <2>1. /\ pc \notin {"down", "audit"} \/ pc' = pc
        /\ pc = "idle" => pc' = "idle"
        /\ UNCHANGED <<disk, base, requeued, conflicts, cap, swallowed>>
    BY <1>13 DEF PostflightPasses, stores, cycle, bounds, history
  <2> QED
    BY <2>1, NothingForgotten
<1>14. CASE RehashPasses
  <2>1. /\ pc \notin {"down", "audit"} \/ pc' = pc
        /\ pc = "idle" => pc' = "idle"
        /\ UNCHANGED <<disk, base, requeued, conflicts, cap, swallowed>>
    BY <1>14 DEF RehashPasses, stores, cycle, bounds, history
  <2> QED
    BY <2>1, NothingForgotten
<1>15. ASSUME NEW p \in Paths, Remove(p)
      PROVE  FollowedAt(q)'
  <2>1. /\ pc = "stage" /\ pc' \in {"stage", "verify"}
        /\ UNCHANGED <<base, requeued, conflicts, cap, swallowed, pend>>
    BY <1>15 DEF Remove, stores
  <2>2. SUFFICES ASSUME NEW t \in Sides, disk'[<<t, q>>] # base'[q]
                 PROVE  Later(q)' \/ Taken(q)' \/ q \in swallowed'
    BY DEF FollowedAt
  <2>3. disk'[<<t, q>>] # disk[<<t, q>>] => Noted(q)'
    <3>1. CASE disk[<<Destination(plan[p]), p>>] = seen[<<Destination(plan[p]), p>>]
      <4>1. Destination(plan[p]) \in Sides /\ Missing \in Contents
        BY DEF Destination, Sides, Contents
      <4>2. Replace(Destination(plan[p]), p, Missing)
        BY <1>15, <3>1 DEF Remove
      <4> QED
        BY <2>1, <4>1, <4>2, ReplacedIsNoted
    <3>2. CASE disk[<<Destination(plan[p]), p>>] # seen[<<Destination(plan[p]), p>>]
      BY <1>15, <3>2 DEF Remove
    <3> QED
      BY <3>1, <3>2
  <2> QED
    BY <2>1, <2>2, <2>3, StillFollowed
<1>16. CASE VerifyPasses
  <2>1. /\ pc \notin {"down", "audit"} \/ pc' = pc
        /\ pc = "idle" => pc' = "idle"
        /\ UNCHANGED <<disk, base, requeued, conflicts, cap, swallowed>>
    BY <1>16 DEF VerifyPasses, stores, cycle, bounds, history
  <2> QED
    BY <2>1, NothingForgotten
<1>17. CASE PrepareConflicts
  <2>1. /\ pc \notin {"down", "audit"} \/ pc' = pc
        /\ pc = "idle" => pc' = "idle"
        /\ UNCHANGED <<disk, base, requeued, conflicts, cap, swallowed>>
    BY <1>17 DEF PrepareConflicts, stores, cycle, bounds, history
  <2> QED
    BY <2>1, NothingForgotten
<1>18. CASE Commit
  <2>1. \A s \in Sides : disk'[<<s, q>>] # base'[q] => Later(q)' \/ q \in swallowed'
    BY <1>18, CommitFollows
  <2> QED
    BY <2>1 DEF FollowedAt
<1>19. CASE Refresh
  <2>1. /\ pc = "refresh" /\ UNCHANGED <<disk, raw, base, conflicts, swallowed, pend>>
        /\ requeued \subseteq requeued'
    BY <1>19 DEF Refresh, Reset, Forget, history
  <2>2. SUFFICES ASSUME NEW t \in Sides, disk'[<<t, q>>] # base'[q]
                 PROVE  Later(q)' \/ Taken(q)' \/ q \in swallowed'
    BY DEF FollowedAt
  <2>3. Later(q) \/ q \in swallowed
    BY <2>1, <2>2 DEF FollowedAt, Taken, Taking
  <2> QED
    BY <2>1, <2>3 DEF Later, Noted
<1>20. CASE GivesUp
  <2>1. /\ UNCHANGED <<disk, base, requeued, conflicts, swallowed>> /\ pc # "down"
        /\ pend' = [s \in Sides |-> pend[s] \cup cap[s]] /\ (pc' = "idle" => raw' = raw)
    BY <1>20 DEF GivesUp, Reset, Forget, history
  <2>2. SUFFICES ASSUME pc' # "down", NEW t \in Sides, disk'[<<t, q>>] # base'[q]
                 PROVE  Later(q)' \/ Taken(q)' \/ q \in swallowed'
    BY DEF FollowedAt
  <2>3. raw' = raw
    BY <1>20, <2>1, <2>2 DEF GivesUp
  <2>4. CASE pc = "audit"
    BY <2>1, <2>4 DEF Taking, Later, Noted
  <2>5. CASE pc # "audit"
    <3>1. Later(q) \/ Taken(q) \/ q \in swallowed
      BY <2>1, <2>2, <2>5 DEF FollowedAt
    <3> QED
      BY <2>1, <2>3, <3>1 DEF Later, Taken, Noted
  <2> QED
    BY <2>4, <2>5
<1>21. CASE Restart
  <2>1. Noted(q)'
    BY <1>21 DEF Restart, Noted, Types, JournalTypes, Sides
  <2> QED
    BY <2>1 DEF FollowedAt, Later
<1>22. CASE UNCHANGED vars
  <2>1. /\ pc \notin {"down", "audit"} \/ pc' = pc
        /\ pc = "idle" => pc' = "idle"
        /\ UNCHANGED <<disk, base, requeued, conflicts, cap, swallowed>>
    BY <1>22 DEF vars, stores, cycle, bounds, history
  <2> QED
    BY <2>1, NothingForgotten
<1> QED
  BY <1>1, <1>2, <1>3, <1>4, <1>5, <1>6, <1>7, <1>8, <1>9, <1>10, <1>11, <1>12, <1>13, <1>14,
     <1>15, <1>16, <1>17, <1>18, <1>19, <1>20, <1>21, <1>22 DEF Step
-----------------------------------------------------------------------------
(* The theorems.                                                           *)

\* A workspace without history satisfies the invariant.
LEMMA FreshEngine ==
    ASSUME NEW contents \in [Sides \X Paths -> Contents], NEW written \in 0..MaxEdits,
           Fresh(contents, written), pc \in {"idle", "down"},
           \A k \in Sides \X Paths : contents[k] <= written,
           \A p \in Paths : contents[<<"local", p>>] = Missing \/ contents[<<"remote", p>>] = Missing,
           pc = "idle" => \A k \in Sides \X Paths : contents[k] = Missing
    PROVE  Engine
<1>1. Missing \in Contents /\ written \in Nat
  BY ConstantsAssumption DEF Contents
<1>2. DiskTypes
  BY <1>1, ConstantsAssumption DEF Fresh, DiskTypes
<1>3. JournalTypes
  BY DEF Fresh, JournalTypes
<1>4. CycleTypes
  BY DEF Fresh, CycleTypes
<1>5. Numbered
  BY <1>1 DEF Fresh, Numbered, Missing, Sides
<1>6. SharedIsKept
  BY DEF Fresh, SharedIsKept, Sides
<1>7. BasesSafe
  BY DEF Fresh, BasesSafe, Safe
<1>8. ~Executing /\ pc \notin {"plan", "audit", "refresh"} /\ Decisions
  BY DEF Fresh, Decisions, Executing
<1>9. Transfer /\ Worked /\ SeenOrNoted /\ Echoed
  BY <1>8 DEF Fresh, Transfer, Worked, SeenOrNoted, Echoed, Executing
<1>10. Taking
  BY <1>8 DEF Fresh, Taking
<1>11. Followed
  BY <1>8 DEF Fresh, Followed, FollowedAt
<1>12. LossOnlyInWindow
  BY DEF Fresh, LossOnlyInWindow
<1> QED
  BY <1>2, <1>3, <1>4, <1>5, <1>6, <1>7, <1>8, <1>9, <1>10, <1>11, <1>12 DEF Engine, Types

\* The invariant holds at first.
LEMMA EngineInit ==
    ASSUME Init
    PROVE  Engine
<1>1. [k \in Sides \X Paths |-> Missing] \in [Sides \X Paths -> Contents] /\ 0 \in 0..MaxEdits
  BY ConstantsAssumption DEF Contents
<1>2. \A k \in Sides \X Paths : [j \in Sides \X Paths |-> Missing][k] <= 0
  BY DEF Missing
<1> QED
  BY <1>1, <1>2, FreshEngine DEF Init, Sides

\* Every step keeps it.
LEMMA EngineStep ==
    ASSUME Engine, Step
    PROVE  Engine'
<1>1. Types'
  BY DiskTypesKept, JournalTypesKept, CycleTypesKept DEF Engine, Types
<1>2. Numbered' /\ SharedIsKept'
  BY NumberedKept, SharedStaysKept DEF Engine
<1>3. BasesSafe' /\ LossOnlyInWindow'
  BY BasesSafeKept, LossKept DEF Engine, LossRaced, LossOnlyInWindow
<1>4. Decisions' /\ Transfer'
  BY DecisionsKept, TransferKept DEF Engine
<1>5. SeenOrNoted' /\ Worked' /\ Echoed'
  BY SeenOrNotedKept, WorkedKept, EchoedKept DEF Engine
<1>6. Taking' /\ Followed'
  <2>1. \A q \in Paths : FollowedAt(q)'
    BY FollowedKept DEF Engine, Followed
  <2> QED
    BY <2>1, TakingKept DEF Engine, Followed
<1> QED
  BY <1>1, <1>2, <1>3, <1>4, <1>5, <1>6 DEF Engine

\* The engine keeps its invariant.
THEOREM EngineHolds == Spec => []Engine
<1>1. Init => Engine
  BY EngineInit
<1>2. Engine /\ [Next]_vars => Engine'
  <2>1. SUFFICES ASSUME Engine, [Next]_vars
                 PROVE  Engine'
    OBVIOUS
  <2>2. CASE Next
    BY <2>1, <2>2, StepIs, EngineStep DEF Engine
  <2>3. CASE UNCHANGED vars
    BY <2>1, <2>3, EngineStep DEF Step
  <2> QED
    BY <2>1, <2>2, <2>3
<1> QED
  BY <1>1, <1>2, PTL DEF Spec

\* Every variable of the engine keeps its type.
THEOREM TypeCorrect == Spec => []TypeOK
<1>1. Engine => TypeOK
  BY DEF Engine, Types, DiskTypes, JournalTypes, CycleTypes, TypeOK
<1> QED
  BY <1>1, EngineHolds, PTL

\* An edit the engine destroys without a copy or a conflict record was made at the
\* destination of a transfer under way (finalize, transport.py): for every number of
\* paths, edits and failures.
THEOREM LossIsRaced == Spec => []LossOnlyInWindow
<1>1. Engine => LossOnlyInWindow
  BY DEF Engine
<1> QED
  BY <1>1, EngineHolds, PTL

\* The base only holds entries both sides had, or written during a transfer.
THEOREM BaseIsShared == Spec => []BaseSharedUnlessRaced
<1>1. Engine => BaseSharedUnlessRaced
  BY DEF Engine, BasesSafe, Safe, BaseSharedUnlessRaced
<1> QED
  BY <1>1, EngineHolds, PTL

\* What is followed is covered.
LEMMA FollowedIsCovered ==
    ASSUME Taking, Followed
    PROVE  ChangeCovered
<1>1. SUFFICES ASSUME NEW s \in Sides, NEW p \in Paths, disk[<<s, p>>] # base[p]
               PROVE  Covered(p) \/ p \in swallowed
  BY DEF ChangeCovered
<1>2. CASE pc = "down"
  BY <1>2 DEF Covered
<1>3. CASE pc = "audit"
  BY <1>3 DEF Taking, Covered
<1>4. CASE pc \notin {"down", "audit"}
  <2>1. Later(p) \/ Taken(p) \/ p \in swallowed
    BY <1>1, <1>4 DEF Followed, FollowedAt
  <2> QED
    BY <2>1 DEF Later, Taken, Noted, Covered
<1> QED
  BY <1>2, <1>3, <1>4

\* No difference between a workspace and the base is ever forgotten, except one that was
\* taken for an echo (the acknowledgements of _execute_and_commit, engine.py).
THEOREM ChangesCovered == Spec => []ChangeCovered
<1>1. Engine => ChangeCovered
  BY FollowedIsCovered DEF Engine
<1> QED
  BY <1>1, EngineHolds, PTL

\* A step of the engine that makes an entry disappear removes the base.
LEMMA DeletesBase ==
    ASSUME Engine, Step, NEW t \in Sides, NEW q \in Paths, edits' = edits,
           disk[<<t, q>>] # Missing, disk'[<<t, q>>] = Missing
    PROVE  disk[<<t, q>>] = base[q]
<1> USE DEF Engine

<1>1. ASSUME NEW s \in Sides, NEW p \in Paths, UserEdit(s, p)
      PROVE  disk[<<t, q>>] = base[q]
  <2>1. edits' = edits + 1 /\ edits \in Nat
    BY <1>1 DEF UserEdit, Types, DiskTypes
  <2> QED
    BY <2>1
<1>2. ASSUME NEW s \in Sides, NEW p \in Paths, Notify(s, p)
      PROVE  disk[<<t, q>>] = base[q]
  BY <1>2 DEF Notify
<1>3. CASE Overflow
  BY <1>3 DEF Overflow
<1>4. CASE RequestAudit
  BY <1>4 DEF RequestAudit
<1>5. ASSUME NEW retry \in SUBSET Paths, CaptureAnd(retry)
      PROVE  disk[<<t, q>>] = base[q]
  BY <1>5 DEF CaptureAnd
<1>6. CASE AuditDrift
  BY <1>6 DEF AuditDrift
<1>7. CASE Observe
  BY <1>7 DEF Observe
<1>8. CASE CommitEchoes
  BY <1>8 DEF CommitEchoes
<1>9. CASE StartPlan
  BY <1>9 DEF StartPlan
<1>10. CASE PreflightPasses
  BY <1>10 DEF PreflightPasses
<1>11. CASE CopyPasses
  BY <1>11 DEF CopyPasses
<1>12. ASSUME NEW p \in Paths, Install(p)
      PROVE  disk[<<t, q>>] = base[q]
  <2>1. Destination(plan[p]) \in Sides /\ staged[p] \in Contents
    BY DEF Types, DiskTypes, Destination, Sides
  <2>2. pc = "install" /\ p \in Active /\ Replace(Destination(plan[p]), p, staged[p])
    BY <1>12 DEF Install
  <2>3. staged[p] # Missing
    BY <2>2 DEF Transfer, Transferring
  <2>4. disk'[<<t, q>>] \in {staged[p], disk[<<t, q>>]}
    <3>1. /\ disk'[<<Destination(plan[p]), p>>] = staged[p]
          /\ \A k \in Sides \X Paths : k # <<Destination(plan[p]), p>> => disk'[k] = disk[k]
      BY <2>1, <2>2, ReplaceIs
    <3> QED
      BY <3>1
  <2> QED
    BY <2>3, <2>4
<1>13. CASE PostflightPasses
  BY <1>13 DEF PostflightPasses
<1>14. CASE RehashPasses
  BY <1>14 DEF RehashPasses
<1>15. ASSUME NEW p \in Paths, Remove(p)
      PROVE  disk[<<t, q>>] = base[q]
  <2>1. Destination(plan[p]) \in Sides /\ Missing \in Contents
    BY DEF Destination, Sides, Contents
  <2>2. CASE disk[<<Destination(plan[p]), p>>] = seen[<<Destination(plan[p]), p>>]
    <3>1. Replace(Destination(plan[p]), p, Missing)
      BY <1>15, <2>2 DEF Remove
    <3>2. \A k \in Sides \X Paths : k # <<Destination(plan[p]), p>> => disk'[k] = disk[k]
      BY <2>1, <3>1, ReplaceIs
    <3>3. t = Destination(plan[p]) /\ q = p
      BY <3>2
    <3> QED
      BY <1>15, <2>2, <3>3, RemovedIsBase
  <2>3. CASE disk[<<Destination(plan[p]), p>>] # seen[<<Destination(plan[p]), p>>]
    BY <1>15, <2>3 DEF Remove
  <2> QED
    BY <2>2, <2>3
<1>16. CASE VerifyPasses
  BY <1>16 DEF VerifyPasses
<1>17. CASE PrepareConflicts
  BY <1>17 DEF PrepareConflicts
<1>18. CASE Commit
  BY <1>18 DEF Commit
<1>19. CASE Refresh
  BY <1>19 DEF Refresh
<1>20. CASE GivesUp
  BY <1>20 DEF GivesUp
<1>21. CASE Restart
  BY <1>21 DEF Restart
<1>22. CASE UNCHANGED vars
  BY <1>22 DEF vars
<1> QED
  BY <1>1, <1>2, <1>3, <1>4, <1>5, <1>6, <1>7, <1>8, <1>9, <1>10, <1>11, <1>12, <1>13, <1>14,
     <1>15, <1>16, <1>17, <1>18, <1>19, <1>20, <1>21, <1>22 DEF Step

\* A deletion by the engine removes exactly what the base recorded, never an edit made
\* after the plan (delete_expected, remote_fs.py and local_fs.py).
THEOREM DeletionsAreOfBase == Spec => DeletesOnlyBase
<1>1. Engine /\ [Next]_vars =>
         [\A s \in Sides, p \in Paths :
             edits' = edits /\ disk[<<s, p>>] # Missing /\ disk'[<<s, p>>] = Missing
             => disk[<<s, p>>] = base[p]]_vars
  <2>1. SUFFICES ASSUME Engine, Next, NEW s \in Sides, NEW p \in Paths, edits' = edits,
                        disk[<<s, p>>] # Missing, disk'[<<s, p>>] = Missing
                 PROVE  disk[<<s, p>>] = base[p]
    OBVIOUS
  <2>2. Step
    BY <2>1, StepIs DEF Engine
  <2> QED
    BY <2>1, <2>2, DeletesBase
<1> QED
  BY <1>1, EngineHolds, PTL DEF Spec, DeletesOnlyBase

-----------------------------------------------------------------------------
(* The first synchronisation.                                              *)


-----------------------------------------------------------------------------
(* The invariant.                                                          *)

\* The edits no event will tell of, and what they were about.
Unheard == blind \cup offline
UnheardPaths == {e[1] : e \in Unheard}
UnheardVersions == {e[2] : e \in Unheard}

\* The transfer, and what is done with what it reports.
Bulking == initial \in {"bulk", "seed", "abandon"}

\* The coordinator's variables.
CoordinatorTypes ==
    /\ initial \in Phases /\ refused \in BOOLEAN /\ seeded \subseteq Paths
    /\ blind \subseteq Paths \X Contents /\ offline \subseteq Paths \X Contents

\* Where the coordinator and the cycle stand.
Phased ==
    /\ seeded # {} => initial \in {"seed", "abandon"}
    /\ Running => pc # "down"
    /\ ~Running => pc \in {"idle", "down"}
    /\ initial = "ready" => pc = "idle"
    /\ initial = "unbound" => /\ pc = "down" /\ \A k \in Sides \X Paths : echo[k] = NoEcho
                              /\ \A p \in Paths : base[p] = Missing
    /\ ~Bulking /\ ~Replaying =>
          pc \in {"idle", "down"} /\ installed = {} /\ \A p \in Paths : plan[p] = "idle"
    /\ ~Replaying => \A s \in Sides : cap[s] = {}

\* The bulk transfer: one stage, of sources that are there.
BulkPlanned ==
    Bulking =>
        /\ stage \in {1, 2}
        /\ \A p \in Paths : plan[p] \in {"idle", Stages[stage]}
        /\ \A p \in Active : seen[<<Source(plan[p]), p>>] # Missing
        /\ installed \subseteq Active
        /\ pc \in IF initial = "bulk" THEN {"stage", "copy", "install", "postflight"} ELSE {"verify"}
        /\ pc \in {"stage", "copy"} => installed = {}
        /\ pc = "postflight" => installed = Active
        /\ seeded \subseteq Active

\* The replay is cycles of the engine.
Cycling ==
    Replaying => Decisions /\ Transfer /\ SeenOrNoted /\ Worked /\ Echoed /\ Taking

\* What the coordinator has looked at so far, and that equal looks are kept.
Snapshots ==
    /\ initial \in {"unbound", "boot", "scan"} => \A k \in Sides \X Paths : seen[k] = Missing
    /\ initial = "snapshot" => \A p \in Paths :
          /\ seen[<<"remote", p>>] = Missing
          /\ disk[<<"remote", p>>] = seen[<<"local", p>>] => seen[<<"local", p>>] \in kept \cup {Missing}

\* What a bulk transfer verified is kept.
Verified ==
    initial \in {"seed", "abandon"} => \A p \in installed : seen[<<Source(plan[p]), p>>] \in kept

\* The side a bulk transfer writes to.
Target == Destination(Stages[stage])

\* Sides all of whose entries are accounted for.
Trusted(s) ==
    \/ \E p \in Paths : echo[<<s, p>>] # NoEcho
    \/ Replaying \/ initial = "ready"
    \/ Bulking /\ s = Target

\* The observations in use.
Scanned(s) ==
    \/ initial = "snapshot" /\ s = "local"
    \/ initial = "plan" \/ Bulking
    \/ Replaying /\ (pc = "plan" \/ Executing)

\* What is not as it was seen is on its way to a journal, in it, or unheard of.
SeenTraced ==
    \A s \in Sides, p \in Paths :
        Scanned(s) /\ disk[<<s, p>>] # seen[<<s, p>>] =>
            p \in raw[s] \cup pend[s] \/ <<p, disk[<<s, p>>]>> \in Unheard

\* Something brings the path to a planner, it was taken for an echo, or nothing
\* was heard of it.
Pursued(p) == Later(p) \/ Taken(p) \/ p \in swallowed \/ p \in UnheardPaths

\* What the bulk transfer wrote is noted.
BulkNoted ==
    /\ initial = "bulk" => \A p \in installed : Noted(p)
    /\ initial \in {"seed", "abandon"} => \A p \in Active : Noted(p)

\* A side that is not the base is pursued: where the base has an entry, where all
\* of the side is accounted for, and where the bulk transfer does not copy.
InitialFollowed ==
    ~(Replaying /\ pc = "audit") =>
        \A s \in Sides, p \in Paths :
            /\ base[p] # Missing \/ Trusted(s) \/ (Bulking /\ p \notin Active)
            /\ disk[<<s, p>>] # base[p]
            => Pursued(p)

\* No echo is younger than the edits.
EchoNumbered ==
    /\ \A k \in Sides \X Paths : echo[k] # NoEcho => echo[k] <= edits
    /\ \A p \in Paths : after[p] <= edits

\* An event of the entry is on its way to a planner.
Told(s, p) ==
    \/ p \in raw[s] \cup pend[s] \cup cap[s]
    \/ p \in requeued /\ \E t \in Sides : p \in pend[t] \cup cap[t]

\* The entry is no edit of that side, it is told of, or it is known not to be.
Traced(s, p) ==
    Safe(disk[<<s, p>>]) \/ Told(s, p) \/ <<p, disk[<<s, p>>]>> \in Unheard

\* Sides with an echo, the target of the bulk transfer and both sides in the replay
\* hold nothing unaccounted for: that is why a run may copy over what it finds
\* there without an event.
AllTraced ==
    \A s \in Sides, p \in Paths : Trusted(s) \/ (Bulking /\ p \notin Active) => Traced(s, p)

\* The engine is working on the path at that side.
AtWork(s, p) ==
    /\ Bulking \/ (Replaying /\ Executing)
    /\ plan[p] \in Transfers \cup Deletions /\ s = Destination(plan[p])

\* An entry that is what the echo expects was seen, is safe, or is being worked on.
EchoSeen ==
    \A s \in Sides, p \in Paths :
        Scanned(s) /\ disk[<<s, p>>] = echo[<<s, p>>] =>
            Safe(disk[<<s, p>>]) \/ disk[<<s, p>>] = seen[<<s, p>>] \/ AtWork(s, p)

\* The event of such an entry may be taken for an echo: no edit is forgotten by it.
EchoTraced ==
    \A s \in Sides, p \in Paths :
        (Bulking \/ Replaying) /\ disk[<<s, p>>] = echo[<<s, p>>] =>
            \/ Safe(disk[<<s, p>>]) \/ <<p, disk[<<s, p>>]>> \in Unheard
            \/ p \in requeued \/ AtWork(s, p)

\* What a transfer of the replay verified is kept.
Vetted ==
    Replaying /\ Executing =>
          \A p \in Paths \ changed :
              plan[p] \in Transfers /\ ((\E n \in 1..2 : n < stage /\ plan[p] = Stages[n])
                                        \/ (pc = "rehash" /\ p \in Active))
              => seen[<<Source(plan[p]), p>>] \in kept

\* What a bulk transfer that passed leaves.
Seeding ==
    initial = "seed" =>
          /\ \A p \in Active \ changed :
              /\ seen[<<Source(plan[p]), p>>] \in kept
              /\ p \notin installed => echo[<<Destination(plan[p]), p>>] = seen[<<Source(plan[p]), p>>]
          /\ \A p \in Active \cap changed : Traced(Source(plan[p]), p)

\* What the bulk transfer may install over.
Losable(v) == Safe(v) \/ v \in UnheardVersions

\* That is all it installs over, once its preflight has passed.
BulkOver ==
    initial = "bulk" =>
        \A p \in Active \ installed : LET d == <<Destination(plan[p]), p>> IN
            pc # "stage" \/ disk[d] = seen[d] => Losable(disk[d])

-----------------------------------------------------------------------------
(* The steps.                                                              *)

\* The coordinator's history does not change, nor what it seeds.
Apart == UNCHANGED <<seeded, blind, offline>>

\* The steps of users and watchers.
Edits(s, p) ==
    /\ UserEdit(s, p)
    /\ offline' = IF s = "local" /\ pc = "down" /\ initial = "boot"
                  THEN offline \cup {<<p, disk'[<<s, p>>]>>} ELSE offline
    /\ UNCHANGED <<initial, seeded, blind>>

Tells ==
    /\ initial \notin {"unbound", "ready"}
    /\ (\E s \in Sides, p \in Paths : Notify(s, p)) \/ RequestAudit
    /\ UNCHANGED initial /\ Apart

LosesEvents ==
    /\ initial # "unbound" /\ Overflow
    /\ blind' = blind \cup Unrecorded("remote")
    /\ UNCHANGED <<initial, seeded, offline>>

\* The supervisor dies.
Dies ==
    /\ Crash
    /\ initial' = IF Running THEN "boot" ELSE initial
    /\ blind' = blind \cup Unrecorded("local")
    /\ seeded' = {} /\ UNCHANGED offline

\* A run that fails or gives up.
Ends ==
    /\ Running /\ GivesUp /\ pc' = "idle"
    /\ \A k \in Sides \X Paths : echo'[k] \in {echo[k], NoEcho}
    /\ initial' = "boot" /\ seeded' = {}
    /\ UNCHANGED <<blind, offline>>

\* A step of the bulk transfer that finds what it expects.
Bulks ==
    /\ initial = "bulk"
    /\ PreflightPasses \/ CopyPasses \/ \E p \in Paths : Install(p)
    /\ UNCHANGED initial /\ Apart

\* A step of a replay's cycle that goes on.
Replays ==
    /\ Replaying
    /\ CaptureAnd({}) \/ GoesOn \/ (pc = "idle" /\ UNCHANGED vars)
    /\ initial' \in {"replay", "quiet", "ready"} /\ (initial' = "ready" => pc' = "idle")
    /\ Apart

\* What a step may be.
StepInitial ==
    /\ initial # "ready" /\ refused' \in BOOLEAN
    /\ \/ \E s \in Sides, p \in Paths : Edits(s, p)
       \/ Tells \/ LosesEvents \/ Dies \/ Ends
       \/ Begin \/ (\E s \in Sides : Scan(s)) \/ PlanBulk \/ Bulks
       \/ Verify \/ Seed \/ RefreshSeeded \/ EndBulk
       \/ Replays

-----------------------------------------------------------------------------
(* A step is one of these.                                                 *)

\* A run of the coordinator that ends where no cycle has begun.
LEMMA RunEnds ==
    ASSUME Types, CoordinatorTypes, Phased, Running, EndRun, edits' = edits,
           faults' \in 0..MaxFaults
    PROVE  Ends
<1>1. /\ pc # "down" /\ pc' = "idle" /\ Reset(FALSE) /\ echo' = echo /\ raw' = raw
      /\ UNCHANGED <<disk, base, requeued, conflicts, history>>
      /\ initial' = "boot" /\ seeded' = {} /\ UNCHANGED <<blind, offline>>
  BY DEF EndRun, Phased, stores
<1>2. echo \in [Sides \X Paths -> Contents \cup {NoEcho}] /\ raw \in [Sides -> SUBSET Paths]
  BY DEF Types, CycleTypes, JournalTypes
<1>3. GivesUp
  BY <1>1, <1>2 DEF GivesUp
<1> QED
  BY <1>1, <1>3 DEF Ends

\* A cycle of the replay that raises ends the run.
LEMMA CycleEnds ==
    ASSUME Types, CoordinatorTypes, Phased, Replaying, NEW unused, Abort(unused), pc # "down",
           edits' = edits, faults' \in 0..MaxFaults, initial' = "boot", UNCHANGED <<seeded, blind, offline>>
    PROVE  Ends
<1>1. GivesUp /\ pc' = "idle"
  BY Aborts DEF Abort
<1>2. Running /\ seeded' = {}
  BY DEF Replaying, Running, Phased
<1>3. \A k \in Sides \X Paths : echo'[k] \in {echo[k], NoEcho}
  BY DEF Abort, Consume
<1> QED
  BY <1>1, <1>2, <1>3 DEF Ends

\* A step of the replay's cycle goes on or ends the run.
LEMMA CycleStepIs ==
    ASSUME Types, CoordinatorTypes, Phased, ReplayCycle
    PROVE  Replays \/ Ends
<1>1. /\ Replaying /\ UNCHANGED <<seeded, blind, offline>> /\ initial \in {"replay", "quiet"}
      /\ initial' = IF pc' = "idle" /\ ~(pc = "refresh" /\ faults' = faults) THEN "boot"
                    ELSE IF pc \in {"audit", "observe"} THEN initial ELSE "replay"
      /\ CycleRest \/ Fail
      /\ ~CommitEchoes
  BY DEF ReplayCycle, Replaying, CommitEchoes
<1>2. CASE GoesOn
  <2>1. CASE Refresh
    BY <1>1, <2>1 DEF Refresh, bounds, GoesOn, Replays, Apart
  <2>2. CASE ~Refresh
    <3>1. pc' # "idle"
      BY <1>1, <1>2, <2>2 DEF GoesOn, AuditDrift, Observe, StartPlan, PreflightPasses, CopyPasses,
         Install, PostflightPasses, RehashPasses, Remove, VerifyPasses, PrepareConflicts, Commit
    <3> QED
      BY <1>1, <1>2, <3>1 DEF GoesOn, Replays, Apart
  <2> QED
    BY <2>1, <2>2
<1>3. ASSUME NEW unused, Abort(unused), pc # "down", edits' = edits, faults' \in 0..MaxFaults,
             pc # "refresh" \/ faults' # faults
      PROVE  Ends
  <2>1. initial' = "boot"
    BY <1>1, <1>3 DEF Abort
  <2> QED
    BY <1>1, <1>3, <2>1, CycleEnds
<1> QED
  BY <1>1, <1>2, <1>3, CycleRestIs

\* Every step of the specification is one of these.
LEMMA InitialStepIs ==
    ASSUME Types, CoordinatorTypes, Phased, NextInitial
    PROVE  StepInitial
<1>1. faults \in 0..MaxFaults /\ edits \in 0..MaxEdits /\ refused \in BOOLEAN /\ initial # "ready"
  BY DEF Types, DiskTypes, CoordinatorTypes, NextInitial
<1> USE DEF StepInitial, initialVars, Apart
<1>2. CASE Edit
  BY <1>1, <1>2 DEF Edit, Edits
<1>3. CASE Audit \/ \E s \in Sides, p \in Paths : Watch(s, p)
  BY <1>1, <1>3 DEF Audit, Watch, Tells
<1>4. CASE LoseEvents
  BY <1>1, <1>4 DEF LoseEvents, LosesEvents
<1>5. CASE Die
  BY <1>1, <1>5 DEF Die, Dies
<1>6. CASE RunFails
  <2>1. faults' \in 0..MaxFaults /\ edits' = edits /\ Running /\ EndRun /\ refused' = refused
    BY <1>1, <1>6, ConstantsAssumption DEF RunFails
  <2> QED
    BY <1>1, <2>1, RunEnds
<1>7. CASE Refuse \/ BulkMismatch \/ Abandon
  <2>1. faults' \in 0..MaxFaults /\ edits' = edits /\ Running /\ EndRun /\ refused' \in BOOLEAN
    BY <1>1, <1>7 DEF Refuse, BulkMismatch, Abandon, bounds, Running
  <2> QED
    BY <1>1, <2>1, RunEnds
<1>8. CASE Begin \/ Verify \/ Seed \/ RefreshSeeded \/ EndBulk \/ \E s \in Sides : Scan(s)
  BY <1>1, <1>8 DEF Begin, Verify, Seed, RefreshSeeded, EndBulk, Scan
<1>9. CASE PlanBulk
  BY <1>1, <1>9 DEF PlanBulk
<1>10. CASE Bulk
  <2>1. CASE Preflight /\ pc' = "copy"
    <3>1. PreflightPasses
      BY <2>1 DEF Preflight, PreflightPasses, Abort, bounds
    <3> QED
      BY <1>1, <1>10, <3>1 DEF Bulk, Bulks
  <2>2. CASE CopySources /\ pc' = "install"
    <3>1. CopyPasses
      BY <2>2 DEF CopySources, CopyPasses, Abort, bounds
    <3> QED
      BY <1>1, <1>10, <3>1 DEF Bulk, Bulks
  <2>3. CASE \E p \in Paths : Install(p)
    BY <1>1, <1>10, <2>3 DEF Bulk, Bulks
  <2> QED
    BY <1>10, <2>1, <2>2, <2>3 DEF Bulk
<1>11. CASE ReplayCapture
  BY <1>1, <1>11 DEF ReplayCapture, Replays, Replaying, CaptureAnd
<1>12. CASE ReplayIdle
  <2>1. /\ Replaying /\ pc = "idle" /\ UNCHANGED vars /\ UNCHANGED <<seeded, blind, offline, refused>>
        /\ initial' \in {"quiet", "ready"}
    BY <1>12 DEF ReplayIdle, Quieten
  <2>2. pc' = "idle"
    BY <2>1 DEF vars
  <2> QED
    BY <1>1, <2>1, <2>2 DEF Replays
<1>13. CASE ReplayEchoes
  BY <1>1, <1>13 DEF ReplayEchoes, Replays, GoesOn, Quieten, CommitEchoes
<1>14. CASE ReplayCycle
  BY <1>1, <1>14, CycleStepIs DEF ReplayCycle
<1> QED
  BY <1>2, <1>3, <1>4, <1>5, <1>6, <1>7, <1>8, <1>9, <1>10, <1>11, <1>12, <1>13, <1>14
     DEF NextInitial, Coordinate

-----------------------------------------------------------------------------
(* Types.                                                                  *)

\* A supervisor that dies gives the cycle up.
LEMMA CrashGivesUp ==
    ASSUME Types, Crash
    PROVE  GivesUp
<1>1. raw' = [raw EXCEPT !["local"] = {}] /\ raw \in [Sides -> SUBSET Paths]
  BY DEF Crash, Types, JournalTypes
<1>2. raw' \in [Sides -> SUBSET Paths]
  BY <1>1
<1>3. faults' \in 0..MaxFaults
  <2>1. faults \in 0..MaxFaults /\ faults < MaxFaults /\ faults' = faults + 1
    BY DEF Crash, Types, DiskTypes
  <2> QED
    BY <2>1, ConstantsAssumption
<1>4. echo' \in [Sides \X Paths -> Contents \cup {NoEcho}]
  BY DEF Crash, stores, Types, CycleTypes
<1>5. /\ pc # "down" /\ pc' \in {"idle", "down"} /\ Reset(FALSE)
      /\ (pc' = "idle" => raw' = raw) /\ edits' = edits
      /\ UNCHANGED <<disk, base, requeued, conflicts, history>>
  BY DEF Crash, stores
<1> QED
  BY <1>2, <1>3, <1>4, <1>5 DEF GivesUp

\* The coordinator's own steps.
Own ==
    \/ Begin \/ (\E s \in Sides : Scan(s)) \/ PlanBulk
    \/ Verify \/ Seed \/ RefreshSeeded \/ EndBulk

\* The other steps are steps of the engine.
LEMMA EngineStepOrOwn ==
    ASSUME Types, StepInitial
    PROVE  Step \/ Own
<1> USE DEF Step, Own
<1>1. CASE \E s \in Sides, p \in Paths : Edits(s, p)
  BY <1>1 DEF Edits
<1>2. CASE Tells \/ LosesEvents
  BY <1>2 DEF Tells, LosesEvents
<1>3. CASE Dies \/ Ends
  BY <1>3, CrashGivesUp DEF Dies, Ends
<1>4. CASE Bulks
  BY <1>4 DEF Bulks
<1>5. CASE Replays
  BY <1>5 DEF Replays, GoesOn
<1> QED
  BY <1>1, <1>2, <1>3, <1>4, <1>5 DEF StepInitial

\* Types: what the properties remember.
LEMMA CoordinatorTypesKept ==
    ASSUME Types, CoordinatorTypes, StepInitial, disk' \in [Sides \X Paths -> Contents]
    PROVE  CoordinatorTypes'
<1>1. \A s \in Sides : Unrecorded(s) \subseteq Paths \X Contents
  <2>1. ASSUME NEW s \in Sides, NEW p \in raw[s]
        PROVE  <<p, disk[<<s, p>>]>> \in Paths \X Contents
    <3>1. raw[s] \in SUBSET Paths
      BY DEF Types, JournalTypes
    <3>2. p \in Paths /\ <<s, p>> \in Sides \X Paths
      BY <3>1
    <3> QED
      BY <3>2 DEF Types, DiskTypes
  <2> QED
    BY <2>1 DEF Unrecorded
<1>2. refused' \in BOOLEAN
  BY DEF StepInitial
<1>3. "remote" \in Sides /\ "local" \in Sides
  BY DEF Sides
<1> USE DEF Phases, CoordinatorTypes
<1>4. CASE \E s \in Sides, p \in Paths : Edits(s, p)
  <2>1. PICK s \in Sides, p \in Paths : Edits(s, p)
    BY <1>4
  <2>2. <<p, disk'[<<s, p>>]>> \in Paths \X Contents
    OBVIOUS
  <2> QED
    BY <1>2, <2>1, <2>2 DEF Edits
<1>5. CASE Tells \/ Ends \/ Bulks \/ Replays
  BY <1>2, <1>5 DEF Tells, Ends, Bulks, Replays, Apart
<1>6. CASE LosesEvents \/ Dies
  BY <1>1, <1>2, <1>3, <1>6 DEF LosesEvents, Dies
<1>7. CASE Begin \/ RefreshSeeded \/ EndBulk \/ Verify
  BY <1>2, <1>7 DEF Begin, RefreshSeeded, EndBulk, Verify
<1>8. CASE \E s \in Sides : Scan(s)
  BY <1>2, <1>8 DEF Scan
<1>9. CASE PlanBulk
  <2>1. UNION {{e \in Unrecorded(s) : seen[<<s, e[1]>>] = e[2]} : s \in Sides} \subseteq Paths \X Contents
    BY <1>1
  <2>2. /\ blind' = blind \cup UNION {{e \in Unrecorded(s) : seen[<<s, e[1]>>] = e[2]} : s \in Sides}
        /\ initial' \in {"replay", "bulk"} /\ offline' = offline /\ seeded' = seeded
    BY <1>9 DEF PlanBulk
  <2> QED
    BY <1>2, <2>1, <2>2
<1>10. CASE Seed
  <2>1. PICK verified \in SUBSET installed : seeded' = verified
    BY <1>10 DEF Seed
  <2>2. installed \subseteq Paths /\ UNCHANGED <<initial, blind, offline>>
    BY <1>10 DEF Types, CycleTypes, Seed
  <2> QED
    BY <1>2, <2>1, <2>2
<1> QED
  BY <1>4, <1>5, <1>6, <1>7, <1>8, <1>9, <1>10 DEF StepInitial

\* Types: the disks and the journals.
LEMMA InitialDiskTypesKept ==
    ASSUME Types, CoordinatorTypes, StepInitial
    PROVE  DiskTypes' /\ JournalTypes'
<1>0. DiskTypes /\ JournalTypes /\ CycleTypes /\ Missing \in Contents
  BY DEF Types, Contents
<1>1. CASE Step
  BY <1>1, DiskTypesKept, JournalTypesKept
<1>2. CASE Begin
  <2>1. DiskTypes'
    BY <1>0, <1>2 DEF Begin, stores, cycle, bounds, history, DiskTypes
  <2>2. JournalTypes'
    BY <1>0, <1>2 DEF Begin, stores, cycle, bounds, history, JournalTypes
  <2> QED
    BY <2>1, <2>2
<1>3. CASE \E s \in Sides : Scan(s)
  <2>1. PICK s \in Sides : Scan(s)
    BY <1>3
  <2>2. /\ seen' = [k \in Sides \X Paths |-> IF k[1] = s THEN disk[k] ELSE seen[k]]
        /\ UNCHANGED <<disk, raw, pend, stores, pc, stage, cap, retried, matched, plan, staged,
                   installed, changed, after, bounds, history, seeded, refused, blind, offline>>
    BY <2>1 DEF Scan
  <2>3. DiskTypes'
    BY <1>0, <2>2 DEF stores, bounds, history, DiskTypes
  <2>4. JournalTypes'
    BY <1>0, <2>2 DEF stores, bounds, history, JournalTypes
  <2> QED
    BY <2>3, <2>4
<1>4. CASE PlanBulk
  <2>1. DiskTypes'
    BY <1>0, <1>4 DEF PlanBulk, bounds, history, DiskTypes
  <2>2. requeued' \subseteq Paths
    BY <1>0, <1>4 DEF PlanBulk, Noticed, JournalTypes
  <2>3. JournalTypes'
    BY <1>0, <1>4, <2>2 DEF PlanBulk, bounds, history, JournalTypes
  <2> QED
    BY <2>1, <2>3
<1>5. CASE Verify
  <2>1. DiskTypes'
    BY <1>0, <1>5 DEF Verify, stores, bounds, history, DiskTypes
  <2>2. JournalTypes'
    BY <1>0, <1>5 DEF Verify, stores, bounds, history, JournalTypes
  <2> QED
    BY <2>1, <2>2
<1>6. CASE Seed
  <2>1. PICK verified \in SUBSET installed :
           /\ base' = [p \in Paths |-> IF p \in verified THEN seen[<<Source(plan[p]), p>>] ELSE base[p]]
    BY <1>6 DEF Seed
  <2>2. \A p \in Paths : Source(plan[p]) \in Sides
    BY DEF Source, Other, Destination, Sides
  <2>3. base' \in [Paths -> Contents]
    BY <1>0, <2>1, <2>2 DEF DiskTypes
  <2>4. DiskTypes'
    BY <1>0, <1>6, <2>3 DEF Seed, bounds, history, DiskTypes
  <2>5. JournalTypes'
    BY <1>0, <1>6 DEF Seed, bounds, history, JournalTypes
  <2> QED
    BY <2>4, <2>5
<1>7. CASE RefreshSeeded
  <2>1. DiskTypes'
    BY <1>0, <1>7 DEF RefreshSeeded, cycle, bounds, history, DiskTypes
  <2>2. requeued' \subseteq Paths
    <3>1. requeued' = requeued \cup {p \in seeded : ~Agreed(p)} /\ seeded \subseteq Paths
      BY <1>7 DEF RefreshSeeded, CoordinatorTypes
    <3> QED
      BY <1>0, <3>1 DEF JournalTypes
  <2>3. JournalTypes'
    BY <1>0, <1>7, <2>2 DEF RefreshSeeded, cycle, bounds, history, JournalTypes
  <2> QED
    BY <2>1, <2>3
<1>8. CASE EndBulk
  <2>1. DiskTypes'
    BY <1>0, <1>8 DEF EndBulk, Reset, Forget, bounds, history, DiskTypes
  <2>2. requeued' \subseteq Paths
    BY <1>0, <1>8 DEF EndBulk, JournalTypes, CycleTypes
  <2>3. pend' \in [Sides -> SUBSET (Paths \cup {Rescan})] /\ cap' \in [Sides -> SUBSET (Paths \cup {Rescan})]
    BY <1>0, <1>8 DEF EndBulk, Reset, Forget, JournalTypes
  <2>4. retried' \subseteq Paths
    BY <1>8 DEF EndBulk, Reset, Forget
  <2>5. JournalTypes'
    BY <1>0, <1>8, <2>2, <2>3, <2>4 DEF EndBulk, bounds, history, JournalTypes
  <2> QED
    BY <2>1, <2>5
<1> QED
  BY <1>1, <1>2, <1>3, <1>4, <1>5, <1>6, <1>7, <1>8, EngineStepOrOwn DEF Own

\* Types: the cycle.
LEMMA InitialCycleTypesKept ==
    ASSUME Types, CoordinatorTypes, Phased, Cycling, StepInitial
    PROVE  CycleTypes'
<1>1. ASSUME NEW s \in Sides, NEW p \in Paths, Edits(s, p)
      PROVE  CycleTypes'
  BY <1>1 DEF Edits, UserEdit, stores, cycle, Types, CycleTypes
<1>2. CASE Tells \/ LosesEvents
  BY <1>2 DEF Tells, LosesEvents, Notify, RequestAudit, Overflow, stores, cycle, Types, CycleTypes
<1>3. CASE Dies
  BY <1>3 DEF Dies, Crash, Reset, Forget, stores, Types, CycleTypes
<1>4. CASE Ends
  BY <1>4 DEF Ends, GivesUp, Reset, Forget, Types, CycleTypes
<1>5. CASE Begin
  BY <1>5 DEF Begin, stores, cycle, Types, CycleTypes
<1>6. ASSUME NEW s \in Sides, Scan(s)
      PROVE  CycleTypes'
  BY <1>6 DEF Scan, stores, Types, CycleTypes
<1>7. CASE PlanBulk
  <2>1. plan' \in [Paths -> {"idle", "none", "update-base", "conflict"} \cup Transfers \cup Deletions]
    BY <1>7 DEF PlanBulk, Transfers
  <2>2. stage' \in 1..5 /\ pc' \in {pc, "stage"}
    BY <1>7 DEF PlanBulk
  <2> QED
    BY <1>7, <2>1, <2>2 DEF PlanBulk, Types, CycleTypes
<1>8. CASE Bulks
  <2>1. CASE PreflightPasses \/ CopyPasses
    BY <2>1 DEF PreflightPasses, CopyPasses, stores, cycle, Types, CycleTypes
  <2>2. ASSUME NEW p \in Paths, Install(p)
        PROVE  CycleTypes'
    BY <2>2 DEF Install, stores, Types, CycleTypes
  <2> QED
    BY <1>8, <2>1, <2>2 DEF Bulks
<1>9. CASE Verify
  <2>1. /\ changed' \subseteq Active /\ installed' \subseteq Active /\ pc' = "verify"
        /\ UNCHANGED <<stage, matched, plan, stores>>
    BY <1>9 DEF Verify
  <2>2. Active \subseteq Paths
    BY DEF Active, Batch
  <2> QED
    BY <2>1, <2>2 DEF stores, Types, CycleTypes
<1>10. CASE Seed
  <2>1. PICK verified \in SUBSET installed :
           /\ echo' = [k \in Sides \X Paths |->
                         IF k[2] \in verified /\ k[1] = Destination(plan[k[2]])
                         THEN seen[<<Source(plan[k[2]]), k[2]>>] ELSE echo[k]]
           /\ installed' = installed \ verified
    BY <1>10 DEF Seed
  <2>2. \A k \in Sides \X Paths : <<Source(plan[k[2]]), k[2]>> \in Sides \X Paths
    BY DEF Source, Other, Sides
  <2>3. echo' \in [Sides \X Paths -> Contents \cup {NoEcho}] /\ installed' \subseteq Paths
    BY <2>1, <2>2 DEF Types, CycleTypes, DiskTypes
  <2> QED
    BY <1>10, <2>3 DEF Seed, Types, CycleTypes
<1>11. CASE RefreshSeeded
  BY <1>11 DEF RefreshSeeded, cycle, Types, CycleTypes
<1>12. CASE EndBulk
  BY <1>12 DEF EndBulk, Reset, Forget, Types, CycleTypes
<1>13. CASE Replays
  <2>1. Replaying /\ Step
    BY <1>13 DEF Replays, GoesOn, Step
  <2> QED
    BY <2>1, CycleTypesKept DEF Cycling
<1> QED
  BY <1>1, <1>2, <1>3, <1>4, <1>5, <1>6, <1>7, <1>8, <1>9, <1>10, <1>11, <1>12,
     <1>13 DEF StepInitial

-----------------------------------------------------------------------------
(* What is kept.                                                           *)

\* What is kept, raced or unheard of stays so.
LEMMA HistoryGrows ==
    ASSUME Types, StepInitial
    PROVE  kept \subseteq kept' /\ raced \subseteq raced' /\ Unheard \subseteq Unheard'
<1>1. CASE (\E s \in Sides, p \in Paths : Edits(s, p)) \/ Tells \/ LosesEvents \/ Dies \/ Ends
  BY <1>1 DEF Edits, UserEdit, Tells, Notify, RequestAudit, LosesEvents, Overflow, Dies, Crash,
     Ends,
     GivesUp, Apart, history, Unheard
<1>2. CASE Own
  BY <1>2 DEF Own, Begin, Scan, PlanBulk, Verify, Seed, RefreshSeeded, EndBulk, history, Unheard
<1>3. CASE Bulks
  <2>1. UNCHANGED <<blind, offline>>
    BY <1>3 DEF Bulks, Apart
  <2>2. CASE PreflightPasses \/ CopyPasses
    BY <2>1, <2>2 DEF PreflightPasses, CopyPasses, history, Unheard
  <2>3. CASE \E p \in Paths : Install(p)
    BY <2>1, <2>3 DEF Install, Replace, Unheard
  <2> QED
    BY <1>3, <2>2, <2>3 DEF Bulks
<1>4. CASE Replays
  <2>1. UNCHANGED <<blind, offline>>
    BY <1>4 DEF Replays, Apart
  <2>2. CASE \E p \in Paths : Install(p)
    BY <2>1, <2>2 DEF Install, Replace, Unheard
  <2>3. CASE \E p \in Paths : Remove(p)
    <3>1. PICK p \in Paths : Remove(p)
      BY <2>3
    <3>2. kept \subseteq kept' /\ raced' = raced
      BY <3>1 DEF Remove, Replace
    <3> QED
      BY <2>1, <3>2 DEF Unheard
  <2>4. CASE CommitEchoes \/ Commit
    BY <2>1, <2>4 DEF CommitEchoes, Commit, Unheard
  <2>5. CASE UNCHANGED history
    BY <2>1, <2>5 DEF history, Unheard
  <2>6. CASE CaptureAnd({}) \/ AuditDrift \/ Observe \/ StartPlan \/ PreflightPasses \/ CopyPasses \/ PostflightPasses
             \/ RehashPasses \/ VerifyPasses \/ PrepareConflicts \/ Refresh \/ UNCHANGED vars
    <3>1. UNCHANGED history
      BY <2>6 DEF CaptureAnd, AuditDrift, Observe, StartPlan, PreflightPasses, CopyPasses,
         PostflightPasses,
         RehashPasses, VerifyPasses, PrepareConflicts, Refresh, vars
    <3> QED
      BY <2>5, <3>1
  <2> QED
    BY <1>4, <2>2, <2>3, <2>4, <2>6 DEF Replays, GoesOn
<1> QED
  BY <1>1, <1>2, <1>3, <1>4 DEF StepInitial, Own

\* Steps of the engine and snapshots keep the numbering.
LEMMA InitialNumberedKept ==
    ASSUME Types, Numbered, StepInitial
    PROVE  Numbered'
<1>1. CASE Step
  BY <1>1, NumberedKept
<1>2. CASE \E s \in Sides : Scan(s)
  <2>1. PICK s \in Sides : Scan(s)
    BY <1>2
  <2>2. /\ seen' = [k \in Sides \X Paths |-> IF k[1] = s THEN disk[k] ELSE seen[k]]
        /\ UNCHANGED <<disk, staged, edits>>
    BY <2>1 DEF Scan, bounds
  <2> QED
    BY <2>2 DEF Numbered
<1>3. CASE Begin \/ PlanBulk \/ Verify \/ Seed \/ RefreshSeeded
  <2>1. UNCHANGED <<disk, seen, staged, edits>>
    BY <1>3 DEF Begin, PlanBulk, Verify, Seed, RefreshSeeded, cycle, bounds
  <2> QED
    BY <2>1 DEF Numbered
<1>4. CASE EndBulk
  <2>1. /\ UNCHANGED <<disk, edits>>
        /\ \A k \in Sides \X Paths : seen'[k] = Missing
        /\ \A p \in Paths : staged'[p] = Missing
    BY <1>4 DEF EndBulk, Reset, Forget, bounds
  <2>2. Missing <= edits
    BY ConstantsAssumption DEF Missing, Types, DiskTypes
  <2> QED
    BY <2>1, <2>2 DEF Numbered
<1> QED
  BY <1>1, <1>2, <1>3, <1>4, EngineStepOrOwn DEF Own

\* What two looks found equal is kept.
LEMMA SnapshotsShared ==
    ASSUME Types, SharedIsKept, Snapshots, NEW s \in Sides, Scan(s)
    PROVE  SharedIsKept' /\ Snapshots'
<1>1. /\ seen' = [k \in Sides \X Paths |-> IF k[1] = s THEN disk[k] ELSE seen[k]]
      /\ UNCHANGED <<disk, kept>>
      /\ initial = IF s = "local" THEN "scan" ELSE "snapshot"
      /\ initial' = IF s = "local" THEN "snapshot" ELSE "plan"
  BY DEF Scan, history
<1>2. \A p \in Paths : disk[<<"local", p>>] = disk[<<"remote", p>>] => disk[<<"local", p>>] \in kept \cup {Missing}
  BY DEF SharedIsKept
<1>3. \A t \in Sides, p \in Paths : <<t, p>> \in Sides \X Paths /\ <<t, p>>[1] = t
  OBVIOUS
<1>4. CASE s = "local"
  <2>1. \A p \in Paths : seen'[<<"local", p>>] = disk[<<"local", p>>] /\ seen'[<<"remote", p>>] = Missing
    BY <1>1, <1>3, <1>4 DEF Snapshots, Sides
  <2> QED
    BY <1>1, <1>2, <1>4, <2>1 DEF SharedIsKept, Snapshots
<1>5. CASE s = "remote"
  <2>1. \A p \in Paths : /\ seen'[<<"local", p>>] = seen[<<"local", p>>]
                         /\ seen'[<<"remote", p>>] = disk[<<"remote", p>>]
    BY <1>1, <1>3, <1>5 DEF Sides
  <2>2. \A p \in Paths : disk[<<"remote", p>>] = seen[<<"local", p>>]
                            => seen[<<"local", p>>] \in kept \cup {Missing}
    BY <1>1, <1>5 DEF Snapshots
  <2> QED
    BY <1>1, <1>2, <1>5, <2>1, <2>2 DEF SharedIsKept, Snapshots
<1> QED
  BY <1>4, <1>5 DEF Sides

\* Equal entries and equal looks stay kept.
LEMMA InitialSharedKept ==
    ASSUME Types, Numbered, SharedIsKept, Snapshots, StepInitial
    PROVE  SharedIsKept'
<1>1. CASE Step
  BY <1>1, SharedStaysKept
<1>2. CASE \E s \in Sides : Scan(s)
  BY <1>2, SnapshotsShared
<1>3. CASE Begin \/ PlanBulk \/ Verify \/ Seed \/ RefreshSeeded
  <2>1. UNCHANGED <<disk, seen, kept>>
    BY <1>3 DEF Begin, PlanBulk, Verify, Seed, RefreshSeeded, cycle, history
  <2> QED
    BY <2>1 DEF SharedIsKept
<1>4. CASE EndBulk
  <2>1. UNCHANGED <<disk, kept>> /\ \A k \in Sides \X Paths : seen'[k] = Missing
    BY <1>4 DEF EndBulk, Reset, Forget, history
  <2> QED
    BY <2>1 DEF SharedIsKept, Sides
<1> QED
  BY <1>1, <1>2, <1>3, <1>4, EngineStepOrOwn DEF Own

\* The looks stay what they were; later edits are new.
LEMMA SnapshotsKept ==
    ASSUME Types, Numbered, SharedIsKept, Snapshots, Phased, StepInitial
    PROVE  Snapshots'
<1>1. ASSUME NEW s \in Sides, NEW p \in Paths, Edits(s, p)
      PROVE  Snapshots'
  <2>1. UNCHANGED <<seen, kept, initial>>
    BY <1>1 DEF Edits, UserEdit, cycle
  <2>2. ASSUME NEW q \in Paths, initial = "snapshot"
        PROVE  disk'[<<"remote", q>>] = seen[<<"local", q>>] => seen[<<"local", q>>] \in kept \cup {Missing}
    <3>1. UserEdit(s, p)
      BY <1>1 DEF Edits
    <3>2. disk'[<<"remote", q>>] \in {disk[<<"remote", q>>], Missing, edits + 1}
      BY <3>1, EditIs DEF Sides
    <3>3. seen[<<"local", q>>] <= edits /\ edits \in Nat /\ seen[<<"local", q>>] \in Nat
      BY ConstantsAssumption DEF Numbered, Sides, Types, DiskTypes, Contents, Versions, Missing
    <3>4. seen[<<"local", q>>] # edits + 1
      BY <3>3
    <3> QED
      BY <2>2, <3>2, <3>4 DEF Snapshots
  <2> QED
    BY <2>1, <2>2 DEF Snapshots
<1>2. CASE Tells \/ LosesEvents
  <2>1. UNCHANGED <<disk, seen, kept, initial>>
    BY <1>2 DEF Tells, LosesEvents, Notify, RequestAudit, Overflow, cycle, history
  <2> QED
    BY <2>1 DEF Snapshots
<1>3. CASE Dies
  <2>1. /\ initial' \in {initial, "boot"}
        /\ \A k \in Sides \X Paths : seen'[k] = Missing
    BY <1>3 DEF Dies, Crash, Reset, Forget
  <2>2. initial' # "snapshot"
    BY <1>3 DEF Dies, Running
  <2> QED
    BY <2>1, <2>2 DEF Snapshots
<1>4. CASE Ends
  <2>1. initial' = "boot" /\ \A k \in Sides \X Paths : seen'[k] = Missing
    BY <1>4 DEF Ends, GivesUp, Reset, Forget
  <2> QED
    BY <2>1 DEF Snapshots
<1>5. CASE Begin
  BY <1>5 DEF Begin, cycle, Snapshots
<1>6. ASSUME NEW s \in Sides, Scan(s)
      PROVE  Snapshots'
  BY <1>6, SnapshotsShared
<1>7. CASE PlanBulk \/ Bulks \/ Verify \/ Seed
  BY <1>7 DEF PlanBulk, Bulks, Verify, Seed, Snapshots
<1>8. CASE RefreshSeeded
  BY <1>8 DEF RefreshSeeded, Phased, Snapshots
<1>9. CASE EndBulk
  BY <1>9 DEF EndBulk, Snapshots
<1>10. CASE Replays
  BY <1>10 DEF Replays, Snapshots
<1> QED
  BY <1>1, <1>2, <1>3, <1>4, <1>5, <1>6, <1>7, <1>8, <1>9, <1>10 DEF StepInitial

\* The base holds entries both sides had, or written during a transfer.
LEMMA InitialBasesSafeKept ==
    ASSUME Types, CoordinatorTypes, SharedIsKept, BasesSafe, Phased, Cycling, Verified,
           StepInitial
    PROVE  BasesSafe'
<1>1. CASE (\E s \in Sides, p \in Paths : Edits(s, p)) \/ Tells \/ LosesEvents
            \/ Begin \/ PlanBulk \/ Bulks \/ RefreshSeeded \/ Verify
  <2>1. UNCHANGED <<base, after>>
    BY <1>1 DEF Edits, UserEdit, Tells, Notify, RequestAudit, LosesEvents, Overflow, Begin,
       PlanBulk, Bulks,
       PreflightPasses, CopyPasses, Install, RefreshSeeded, Verify, stores, cycle
  <2> QED
    BY <2>1, HistoryGrows DEF BasesSafe, Safe
<1>2. ASSUME NEW s \in Sides, Scan(s)
      PROVE  BasesSafe'
  <2>1. UNCHANGED <<base, after>>
    BY <1>2 DEF Scan, stores
  <2> QED
    BY <2>1, HistoryGrows DEF BasesSafe, Safe
<1>3. CASE Dies \/ Ends \/ EndBulk
  <2>1. base' = base /\ \A p \in Paths : after'[p] = Missing
    BY <1>3 DEF Dies, Crash, Ends, GivesUp, EndBulk, Reset, Forget, stores
  <2> QED
    BY <2>1, HistoryGrows DEF BasesSafe, Safe
<1>4. CASE Seed
  <2>1. PICK verified \in SUBSET installed :
           /\ base' = [p \in Paths |->
                          IF p \in verified THEN seen[<<Source(plan[p]), p>>] ELSE base[p]]
    BY <1>4 DEF Seed
  <2>2. after' = after
    BY <1>4 DEF Seed
  <2>3. \A p \in verified : seen[<<Source(plan[p]), p>>] \in kept
    BY <1>4, <2>1 DEF Seed, Verified
  <2> QED
    BY <2>1, <2>2, <2>3, HistoryGrows DEF BasesSafe, Safe
<1>5. CASE Replays
  <2>1. Replaying /\ Step
    BY <1>5 DEF Replays, GoesOn, Step
  <2> QED
    BY <2>1, BasesSafeKept DEF Cycling
<1> QED
  BY <1>1, <1>2, <1>3, <1>4, <1>5 DEF StepInitial

-----------------------------------------------------------------------------
(* The bulk transfer and the cycles.                                       *)

\* What the bulk transfer verified was on both sides.
LEMMA VerifiedKept ==
    ASSUME Types, CoordinatorTypes, SharedIsKept, Phased, BulkPlanned, Verified, StepInitial
    PROVE  Verified'
<1>1. CASE (\E s \in Sides, p \in Paths : Edits(s, p)) \/ Tells \/ LosesEvents \/ Bulks \/ RefreshSeeded
  <2>1. CASE initial' \notin {"seed", "abandon"}
    BY <2>1 DEF Verified
  <2>2. CASE initial' \in {"seed", "abandon"}
    <3>1. UNCHANGED <<initial, seen, plan, installed, kept>>
      BY <1>1, <2>2 DEF Edits, UserEdit, Tells, Notify, RequestAudit, LosesEvents, Overflow,
         Bulks,
         RefreshSeeded, cycle, history
    <3> QED
      BY <3>1 DEF Verified
  <2> QED
    BY <2>1, <2>2
<1>2. CASE Dies \/ Ends \/ Begin \/ PlanBulk \/ EndBulk \/ Replays
  <2>1. initial' \notin {"seed", "abandon"}
    BY <1>2 DEF Dies, Ends, Begin, PlanBulk, EndBulk, Replays, Running
  <2> QED
    BY <2>1 DEF Verified
<1>3. ASSUME NEW s \in Sides, Scan(s)
      PROVE  Verified'
  <2>1. initial' \notin {"seed", "abandon"}
    BY <1>3 DEF Scan
  <2> QED
    BY <2>1 DEF Verified
<1>4. CASE Verify
  <2> DEFINE moved == {p \in Active : disk[<<Source(plan[p]), p>>] # seen[<<Source(plan[p]), p>>]}
             wrong == {p \in Active \ moved :
                          disk[<<Destination(plan[p]), p>>] # disk[<<Source(plan[p]), p>>]}
             good == Active \ (moved \cup wrong)
  <2>1. installed' \subseteq good /\ UNCHANGED <<seen, plan, kept>>
    BY <1>4 DEF Verify, history
  <2>2. ASSUME NEW p \in good
        PROVE  seen[<<Source(plan[p]), p>>] \in kept
    <3>1. /\ p \in Active
          /\ disk[<<Source(plan[p]), p>>] = seen[<<Source(plan[p]), p>>]
          /\ disk[<<Destination(plan[p]), p>>] = disk[<<Source(plan[p]), p>>]
      BY <2>2
    <3>2. stage \in {1, 2} /\ seen[<<Source(plan[p]), p>>] # Missing
      BY <1>4, <3>1 DEF Verify, BulkPlanned, Bulking
    <3>3. {Destination(plan[p]), Source(plan[p])} = {"local", "remote"}
      BY <3>1, <3>2, BothSides DEF Sides
    <3>4. disk[<<"local", p>>] = disk[<<"remote", p>>] /\ disk[<<Source(plan[p]), p>>] = disk[<<"local", p>>]
      BY <3>1, <3>3
    <3>5. p \in Paths
      BY <3>1 DEF Active, Batch
    <3> QED
      BY <3>1, <3>2, <3>4, <3>5 DEF SharedIsKept
  <2> QED
    BY <2>1, <2>2 DEF Verified
<1>5. CASE Seed
  <2>1. installed' \subseteq installed /\ UNCHANGED <<initial, seen, plan, kept>>
    BY <1>5 DEF Seed, history
  <2> QED
    BY <2>1 DEF Verified
<1> QED
  BY <1>1, <1>2, <1>3, <1>4, <1>5 DEF StepInitial

\* A bulk plan that copies from the given side.
PlansFrom(s) ==
    /\ initial = "plan" /\ s \in SourcesAllowed
    /\ plan' = [p \in Paths |-> IF p \in Unfinished(s) \ Noticed
                                THEN IF s = "local" THEN "push" ELSE "pull" ELSE "idle"]
    /\ stage' = IF s = "local" THEN 1 ELSE 2
    /\ IF Unfinished(s) \ Noticed = {} THEN initial' = "replay" /\ UNCHANGED pc
       ELSE initial' = "bulk" /\ pc' = "stage"
    /\ requeued' = requeued \cup Noticed
    /\ blind' = blind \cup UNION {{e \in Unrecorded(t) : seen[<<t, e[1]>>] = e[2]} : t \in Sides}
    /\ UNCHANGED <<disk, raw, pend, base, echo, conflicts, cap, retried, seen, matched, staged,
                   installed, changed, after, bounds, history, seeded, offline>>

\* There is such a side.
LEMMA PlansFromASide ==
    ASSUME PlanBulk
    PROVE  \E s \in Sides : PlansFrom(s)
<1>1. SourcesAllowed \subseteq Sides
  BY DEF SourcesAllowed, Sides
<1>2. \E s \in SourcesAllowed : PlansFrom(s)
  BY DEF PlanBulk, PlansFrom
<1> QED
  BY <1>1, <1>2

\* The bulk plan is one stage of sources that were there.
LEMMA PlanIsBulk ==
    ASSUME Types, CoordinatorTypes, Phased, PlanBulk
    PROVE  BulkPlanned'
<1>1. PICK s \in Sides : PlansFrom(s)
  BY PlansFromASide
<1>2. initial = "plan" /\ UNCHANGED <<seen, installed, seeded>> /\ installed = {} /\ seeded = {}
  BY DEF PlanBulk, Phased, Bulking, Replaying
<1>3. \A p \in Paths : plan'[p] = IF p \in Unfinished(s) \ Noticed
                                  THEN IF s = "local" THEN "push" ELSE "pull" ELSE "idle"
  BY <1>1 DEF PlansFrom
<1>4. stage' \in {1, 2} /\ Stages[stage'] = IF s = "local" THEN "push" ELSE "pull"
  BY <1>1 DEF Stages, PlansFrom
<1>5. \A p \in Paths : plan'[p] \in {"idle", Stages[stage']}
  BY <1>3, <1>4
<1>6. ASSUME NEW p \in Active'
      PROVE  seen'[<<Source(plan'[p]), p>>] # Missing
  <2>1. p \in Paths /\ plan'[p] = Stages[stage']
    BY <1>6 DEF Active, Batch
  <2>2. p \in Unfinished(s) /\ plan'[p] = IF s = "local" THEN "push" ELSE "pull"
    BY <1>3, <1>4, <2>1
  <2>3. Source(plan'[p]) = s
    BY <2>2 DEF Source, Destination, Other, Sides
  <2> QED
    BY <1>2, <2>2, <2>3 DEF Unfinished
<1>7. initial' = "bulk" => pc' = "stage"
  BY <1>1 DEF PlansFrom
<1>8. initial' \in {"replay", "bulk"}
  BY <1>1 DEF PlansFrom
<1> QED
  BY <1>2, <1>4, <1>5, <1>6, <1>7, <1>8 DEF BulkPlanned, Bulking

\* The bulk transfer works on its stage until it ends.
LEMMA BulkPlannedKept ==
    ASSUME Types, CoordinatorTypes, Phased, BulkPlanned, StepInitial
    PROVE  BulkPlanned'
<1>1. CASE (\E s \in Sides, p \in Paths : Edits(s, p)) \/ Tells \/ LosesEvents \/ RefreshSeeded
  <2>1. UNCHANGED <<initial, stage, plan, seen, installed, pc>> /\ seeded' \in {seeded, {}}
    BY <1>1 DEF Edits, UserEdit, Tells, Notify, RequestAudit, LosesEvents, Overflow, Apart,
       RefreshSeeded, cycle
  <2>2. Active' = Active
    BY <2>1 DEF Active, Batch
  <2> QED
    BY <2>1, <2>2 DEF BulkPlanned, Bulking
<1>2. CASE Dies \/ Ends \/ Begin \/ EndBulk \/ Replays
  <2>1. ~Bulking'
    BY <1>2 DEF Dies, Ends, Begin, EndBulk, Replays, Running, Bulking
  <2> QED
    BY <2>1 DEF BulkPlanned
<1>3. ASSUME NEW s \in Sides, Scan(s)
      PROVE  BulkPlanned'
  <2>1. ~Bulking'
    BY <1>3 DEF Scan, Bulking
  <2> QED
    BY <2>1 DEF BulkPlanned
<1>4. CASE PlanBulk
  BY <1>4, PlanIsBulk
<1>5. CASE Bulks
  <2>1. Bulking /\ initial = "bulk" /\ UNCHANGED <<initial, seeded>>
    BY <1>5 DEF Bulks, Bulking, Apart
  <2>2. CASE PreflightPasses \/ CopyPasses
    <3>1. /\ UNCHANGED <<stage, plan, seen>> /\ installed' \in {installed, {}}
          /\ (pc = "stage" /\ pc' = "copy" /\ installed' = installed) \/ pc' = "install"
      BY <2>2 DEF PreflightPasses, CopyPasses, cycle
    <3>2. Active' = Active
      BY <3>1 DEF Active, Batch
    <3> QED
      BY <2>1, <3>1, <3>2 DEF BulkPlanned, Bulking
  <2>3. ASSUME NEW p \in Paths, Install(p)
        PROVE  BulkPlanned'
    <3>1. /\ UNCHANGED <<stage, plan, seen>> /\ installed' = installed \cup {p} /\ p \in Active
          /\ pc' = IF installed' = Active THEN "postflight" ELSE "install"
      BY <2>3 DEF Install
    <3>2. Active' = Active
      BY <3>1 DEF Active, Batch
    <3> QED
      BY <2>1, <3>1, <3>2 DEF BulkPlanned, Bulking
  <2> QED
    BY <1>5, <2>2, <2>3 DEF Bulks
<1>6. CASE Verify
  <2>1. /\ UNCHANGED <<stage, plan, seen, seeded>> /\ installed' \subseteq Active
        /\ pc' = "verify" /\ initial' \in {"seed", "abandon"} /\ initial = "bulk"
    BY <1>6 DEF Verify
  <2>2. Active' = Active
    BY <2>1 DEF Active, Batch
  <2> QED
    BY <2>1, <2>2 DEF BulkPlanned, Bulking
<1>7. CASE Seed
  <2>1. /\ UNCHANGED <<stage, plan, seen, pc, initial>> /\ installed' \subseteq installed
        /\ seeded' \subseteq installed
    BY <1>7 DEF Seed
  <2>2. Active' = Active
    BY <2>1 DEF Active, Batch
  <2>3. initial # "bulk"
    BY <1>7 DEF Seed
  <2> QED
    BY <2>1, <2>2, <2>3 DEF BulkPlanned, Bulking
<1> QED
  BY <1>1, <1>2, <1>3, <1>4, <1>5, <1>6, <1>7 DEF StepInitial

\* The replay begins between cycles.
LEMMA CyclingBegins ==
    ASSUME Types, pc' = "idle", \A p \in Paths : plan'[p] = "idle", installed' = {},
           \A s \in Sides : cap'[s] = {}
    PROVE  Cycling'
<1>1. ~Executing' /\ pc' \notin {"plan", "stage", "copy", "install", "postflight", "rehash", "verify", "commit",
                                "audit"}
  BY DEF Executing
<1>2. Decisions' /\ Transfer'
  BY <1>1 DEF Decisions, Transfer
<1>3. SeenOrNoted' /\ Echoed'
  BY <1>1 DEF SeenOrNoted, Echoed
<1>4. Worked'
  BY <1>1 DEF Worked
<1>5. Taking'
  BY <1>1 DEF Taking
<1> QED
  BY <1>2, <1>3, <1>4, <1>5 DEF Cycling

\* The coordinator leaves the cycles alone and starts them.
LEMMA OwnCycling ==
    ASSUME Types, CoordinatorTypes, Phased, Own
    PROVE  Cycling'
<1>1. CASE Begin \/ Verify \/ Seed \/ RefreshSeeded
  <2>1. ~Replaying'
    BY <1>1 DEF Begin, Verify, Seed, RefreshSeeded, Phased, Replaying
  <2> QED
    BY <2>1 DEF Cycling
<1>2. CASE \E s \in Sides : Scan(s)
  <2>1. ~Replaying'
    BY <1>2 DEF Scan, Replaying
  <2> QED
    BY <2>1 DEF Cycling
<1>3. CASE PlanBulk
  <2>1. /\ initial = "plan" /\ UNCHANGED <<installed, cap>>
        /\ initial' = "bulk" \/ (initial' = "replay" /\ pc' = pc /\ \A p \in Paths : plan'[p] = "idle")
    <3>1. PICK s \in Sides : PlansFrom(s)
      BY <1>3, PlansFromASide
    <3>2. \A p \in Paths : plan'[p] = IF p \in Unfinished(s) \ Noticed
                                      THEN IF s = "local" THEN "push" ELSE "pull" ELSE "idle"
      BY <3>1 DEF PlansFrom
    <3>3. CASE Unfinished(s) \ Noticed = {}
      <4>1. initial' = "replay" /\ pc' = pc
        BY <3>1, <3>3 DEF PlansFrom
      <4>2. \A p \in Paths : plan'[p] = "idle"
        BY <3>2, <3>3
      <4>3. initial = "plan" /\ UNCHANGED <<installed, cap>>
        BY <3>1 DEF PlansFrom
      <4> QED
        BY <4>1, <4>2, <4>3
    <3>4. CASE Unfinished(s) \ Noticed # {}
      <4>1. initial' = "bulk" /\ initial = "plan" /\ UNCHANGED <<installed, cap>>
        BY <3>1, <3>4 DEF PlansFrom
      <4> QED
        BY <4>1
    <3> QED
      BY <3>3, <3>4
  <2>2. pc = "idle" /\ installed = {} /\ \A s \in Sides : cap[s] = {}
    BY <2>1 DEF Phased, Running, Bulking, Replaying
  <2>3. CASE initial' = "bulk"
    BY <2>3 DEF Cycling, Replaying
  <2>4. CASE initial' # "bulk"
    <3>1. pc' = "idle" /\ (\A p \in Paths : plan'[p] = "idle") /\ installed' = {} /\ \A s \in Sides : cap'[s] = {}
      BY <2>1, <2>2, <2>4
    <3> QED
      BY <3>1, CyclingBegins
  <2> QED
    BY <2>3, <2>4
<1>4. CASE EndBulk
  <2>1. pc' = "idle" /\ (\A p \in Paths : plan'[p] = "idle") /\ installed' = {} /\ \A s \in Sides : cap'[s] = {}
    BY <1>4 DEF EndBulk, Reset, Forget
  <2> QED
    BY <2>1, CyclingBegins
<1> QED
  BY <1>1, <1>2, <1>3, <1>4 DEF Own

\* The replay stays cycles of the engine.
LEMMA CyclingKept ==
    ASSUME Types, CoordinatorTypes, Numbered, BasesSafe, Phased, Cycling, StepInitial
    PROVE  Cycling'
<1>1. CASE Step
  <2>1. CASE Replaying
    <3>1. Decisions' /\ Transfer' /\ SeenOrNoted'
      BY <1>1, <2>1, DecisionsKept, TransferKept, SeenOrNotedKept DEF Cycling
    <3>2. Worked' /\ Echoed' /\ Taking'
      BY <1>1, <2>1, WorkedKept, EchoedKept, TakingKept DEF Cycling
    <3> QED
      BY <3>1, <3>2 DEF Cycling
  <2>2. CASE ~Replaying /\ ~Own
    <3>1. ~Replaying'
      BY <2>2 DEF StepInitial, Own, Edits, Tells, LosesEvents, Dies, Ends, Bulks, Replays,
         Replaying
    <3> QED
      BY <3>1 DEF Cycling
  <2>3. CASE Own
    BY <2>3, OwnCycling
  <2> QED
    BY <2>1, <2>2, <2>3
<1>2. CASE Own
  BY <1>2, OwnCycling
<1> QED
  BY <1>1, <1>2, EngineStepOrOwn

\* A replay that ends has nothing under way.
LEMMA ReplayEndsIdle ==
    ASSUME Types, Numbered, BasesSafe, Phased, Cycling, Replays, pc' = "idle"
    PROVE  installed' = {} /\ (\A p \in Paths : plan'[p] = "idle") /\ \A s \in Sides : cap'[s] = {}
<1>1. Replaying /\ Step
  BY DEF Replays, GoesOn, Step
<1>2. Decisions' /\ Transfer' /\ Taking'
  BY <1>1, DecisionsKept, TransferKept, TakingKept DEF Cycling
<1> QED
  BY <1>2 DEF Decisions, Transfer, Taking, Executing

\* The coordinator and the cycle stay in step.
LEMMA PhasedKept ==
    ASSUME Types, CoordinatorTypes, Numbered, BasesSafe, Phased, BulkPlanned, Cycling, StepInitial
    PROVE  Phased'
<1>1. CASE (\E s \in Sides, p \in Paths : Edits(s, p)) \/ Tells \/ LosesEvents \/ RefreshSeeded
  <2>1. UNCHANGED <<initial, pc, installed, plan, cap, echo, base>> /\ seeded' \in {seeded, {}}
    BY <1>1 DEF Edits, UserEdit, Tells, Notify, RequestAudit, LosesEvents, Overflow, Apart,
       RefreshSeeded, cycle,
       stores
  <2> QED
    BY <2>1 DEF Phased, Running, Bulking, Replaying
<1>2. CASE Dies
  <2>1. /\ pc # "down" /\ pc' = "down" /\ seeded' = {} /\ initial' = IF Running THEN "boot" ELSE initial
        /\ installed' = {} /\ (\A p \in Paths : plan'[p] = "idle") /\ \A s \in Sides : cap'[s] = {}
    BY <1>2 DEF Dies, Crash, Reset, Forget
  <2>2. initial' # "unbound" /\ initial # "ready"
    BY <2>1 DEF Phased, StepInitial
  <2>3. ~Running'
    BY <2>1 DEF Running
  <2>4. initial' # "ready"
    BY <2>1, <2>2
  <2> QED
    BY <2>1, <2>2, <2>3, <2>4 DEF Phased
<1>3. CASE Ends
  <2>1. /\ pc' = "idle" /\ seeded' = {} /\ initial' = "boot" /\ installed' = {}
        /\ (\A p \in Paths : plan'[p] = "idle") /\ \A s \in Sides : cap'[s] = {}
    BY <1>3 DEF Ends, GivesUp, Reset, Forget
  <2> QED
    BY <2>1 DEF Phased, Running
<1>4. CASE Begin
  <2>1. /\ initial \in {"unbound", "boot"} /\ initial' = "scan" /\ pc' = "idle"
        /\ UNCHANGED <<installed, plan, cap, seeded>>
    BY <1>4 DEF Begin, cycle
  <2> QED
    BY <2>1 DEF Phased, Running, Bulking, Replaying
<1>5. ASSUME NEW s \in Sides, Scan(s)
      PROVE  Phased'
  <2>1. /\ initial \in {"scan", "snapshot"} /\ initial' \in {"snapshot", "plan"}
        /\ UNCHANGED <<pc, installed, plan, cap, seeded>>
    BY <1>5 DEF Scan
  <2> QED
    BY <2>1 DEF Phased, Running, Bulking, Replaying
<1>6. CASE PlanBulk
  <2>1. /\ initial = "plan"
        /\ (initial' = "bulk" /\ pc' = "stage") \/ (initial' = "replay" /\ pc' = pc)
        /\ UNCHANGED <<cap, seeded>>
    BY <1>6 DEF PlanBulk
  <2> QED
    BY <2>1 DEF Phased, Running, Bulking, Replaying
<1>7. CASE Bulks
  <2>1. /\ initial = "bulk" /\ UNCHANGED <<initial, seeded>>
        /\ pc' \in {"copy", "install", "postflight"} /\ cap' = cap
    BY <1>7 DEF Bulks, Apart, PreflightPasses, CopyPasses, Install, cycle
  <2> QED
    BY <2>1 DEF Phased, Running, Bulking, Replaying
<1>8. CASE Verify
  <2>1. /\ initial = "bulk" /\ initial' \in {"seed", "abandon"} /\ pc' = "verify"
        /\ UNCHANGED <<seeded, cap>>
    BY <1>8 DEF Verify
  <2> QED
    BY <2>1 DEF Phased, Running, Bulking, Replaying
<1>9. CASE Seed
  <2>1. initial \in {"seed", "abandon"} /\ UNCHANGED <<initial, pc, cap>>
    BY <1>9 DEF Seed
  <2> QED
    BY <2>1 DEF Phased, Running, Bulking, Replaying
<1>10. CASE EndBulk
  <2>1. initial' = "replay" /\ pc' = "idle" /\ seeded = {} /\ seeded' = seeded
    BY <1>10 DEF EndBulk
  <2> QED
    BY <2>1 DEF Phased, Running, Bulking, Replaying
<1>11. CASE Replays
  <2>1. /\ Replaying /\ initial' \in {"replay", "quiet", "ready"} /\ (initial' = "ready" => pc' = "idle")
        /\ seeded' = seeded
    BY <1>11 DEF Replays, Apart
  <2>2. seeded = {} /\ pc # "down"
    BY <2>1 DEF Phased, Running, Replaying
  <2>3. pc' # "down"
    BY <1>11, <2>2 DEF Replays, GoesOn, CaptureAnd, AuditDrift, Observe, CommitEchoes, StartPlan,
       PreflightPasses,
       CopyPasses, Install, PostflightPasses, RehashPasses, Remove, VerifyPasses,
       PrepareConflicts, Commit,
       Refresh, vars
  <2>4. CASE initial' = "ready"
    BY <1>11, <2>1, <2>2, <2>4, ReplayEndsIdle DEF Phased, Running, Bulking, Replaying
  <2>5. CASE initial' # "ready"
    BY <2>1, <2>2, <2>3, <2>5 DEF Phased, Running, Bulking, Replaying
  <2> QED
    BY <2>4, <2>5
<1> QED
  BY <1>1, <1>2, <1>3, <1>4, <1>5, <1>6, <1>7, <1>8, <1>9, <1>10, <1>11 DEF StepInitial

-----------------------------------------------------------------------------
(* What was seen.                                                          *)

\* What an installation changes is recorded by the watcher of that side.
LEMMA InstallTraced ==
    ASSUME Types, NEW p \in Paths, Install(p), NEW t \in Sides, NEW q \in Paths
    PROVE  /\ disk'[<<t, q>>] # disk[<<t, q>>] => p = q /\ t = Destination(plan[p]) /\ q \in raw'[t]
           /\ raw[t] \subseteq raw'[t]
<1>1. Destination(plan[p]) \in Sides /\ staged[p] \in Contents
  BY DEF Destination, Sides, Types, DiskTypes
<1>2. PICK s \in Sides, v \in Contents : s = Destination(plan[p]) /\ v = staged[p]
  BY <1>1
<1>3. Replace(s, p, v)
  BY <1>2 DEF Install
<1>4. \A k \in Sides \X Paths : k # <<s, p>> => disk'[k] = disk[k]
  BY <1>3, ReplaceIs
<1>5. p \in raw'[s]
  BY <1>3, ReplaceIs
<1>6. \A u \in Sides : raw[u] \subseteq raw'[u]
  BY <1>3, ReplaceIs
<1> QED
  BY <1>2, <1>4, <1>5, <1>6

\* So is what a deletion changes.
LEMMA RemoveTraced ==
    ASSUME Types, NEW p \in Paths, Remove(p), NEW t \in Sides, NEW q \in Paths
    PROVE  /\ disk'[<<t, q>>] # disk[<<t, q>>] =>
                 p = q /\ t = Destination(plan[p]) /\ q \in raw'[t] /\ disk'[<<t, q>>] = Missing
           /\ raw[t] \subseteq raw'[t]
<1> DEFINE s == Destination(plan[p])
<1>1. s \in Sides /\ Missing \in Contents
  BY DEF Destination, Sides, Contents
<1>2. Replace(s, p, Missing) \/ UNCHANGED <<disk, raw>>
  BY DEF Remove
<1> HIDE DEF s
<1>3. Replace(s, p, Missing) => 
         /\ \A k \in Sides \X Paths : k # <<s, p>> => disk'[k] = disk[k]
         /\ disk'[<<s, p>>] = Missing
         /\ p \in raw'[s] /\ \A u \in Sides : raw[u] \subseteq raw'[u]
  BY <1>1, ReplaceIs
<1> QED
  BY <1>2, <1>3 DEF s

\* What is not as it was seen was recorded, or its event was lost.
LEMMA SeenTracedKept ==
    ASSUME Types, Phased, SeenTraced, StepInitial
    PROVE  SeenTraced'
<1>1. ASSUME NEW s \in Sides, NEW p \in Paths, Edits(s, p)
      PROVE  SeenTraced'
  <2>1. ASSUME NEW t \in Sides, NEW q \in Paths, Scanned(t)', disk'[<<t, q>>] # seen'[<<t, q>>]
        PROVE  q \in raw'[t] \cup pend'[t] \/ <<q, disk'[<<t, q>>]>> \in Unheard'
    <3>1. UserEdit(s, p) /\ UNCHANGED <<seen, pend, initial, pc>> /\ Scanned(t) /\ raw \in [Sides -> SUBSET Paths]
      BY <1>1, <2>1 DEF Edits, UserEdit, cycle, Scanned, Bulking, Replaying, Executing, Types,
         JournalTypes
    <3>2. raw[t] \subseteq raw'[t]
      BY <3>1 DEF UserEdit
    <3>3. CASE <<t, q>> = <<s, p>>
      <4>0. Running
        BY <3>1 DEF Scanned, Running, Bulking, Replaying
      <4>1. pc # "down"
        BY <4>0 DEF Phased
      <4>2. raw' = [raw EXCEPT ![s] = raw[s] \cup {p}]
        BY <3>1, <4>1 DEF UserEdit, Watched
      <4>3. p \in raw'[s]
        BY <3>1, <4>2
      <4> QED
        BY <3>3, <4>3
    <3>4. CASE <<t, q>> # <<s, p>>
      <4>1. disk'[<<t, q>>] = disk[<<t, q>>]
        BY <3>1, <3>4, EditIs
      <4> QED
        BY <2>1, <3>1, <3>2, <4>1, HistoryGrows DEF SeenTraced
    <3> QED
      BY <3>3, <3>4
  <2> QED
    BY <2>1 DEF SeenTraced
<1>2. CASE Tells
  <2>1. ASSUME NEW t \in Sides, NEW q \in Paths, Scanned(t)', disk'[<<t, q>>] # seen'[<<t, q>>]
        PROVE  q \in raw'[t] \cup pend'[t] \/ <<q, disk'[<<t, q>>]>> \in Unheard'
    <3>1. /\ Scanned(t) /\ UNCHANGED <<disk, seen>> /\ raw[t] \cup pend[t] \subseteq raw'[t] \cup pend'[t]
      BY <1>2, <2>1 DEF Tells, Notify, RequestAudit, cycle, Scanned, Bulking, Replaying,
         Executing, Types, JournalTypes
    <3> QED
      BY <2>1, <3>1, HistoryGrows DEF SeenTraced
  <2> QED
    BY <2>1 DEF SeenTraced
<1>3. CASE LosesEvents
  <2>1. ASSUME NEW t \in Sides, NEW q \in Paths, Scanned(t)', disk'[<<t, q>>] # seen'[<<t, q>>]
        PROVE  q \in raw'[t] \cup pend'[t] \/ <<q, disk'[<<t, q>>]>> \in Unheard'
    <3>1. /\ Scanned(t) /\ UNCHANGED <<disk, seen>> /\ pend[t] \subseteq pend'[t]
          /\ t # "remote" => raw'[t] = raw[t]
          /\ blind' = blind \cup Unrecorded("remote")
      BY <1>3, <2>1 DEF LosesEvents, Overflow, cycle, Scanned, Bulking, Replaying, Executing,
         Types, JournalTypes
    <3>2. CASE q \in raw[t] /\ t = "remote"
      <4>1. <<q, disk[<<t, q>>]>> \in Unrecorded("remote")
        BY <3>2 DEF Unrecorded
      <4> QED
        BY <3>1, <4>1 DEF Unheard
    <3>3. CASE ~(q \in raw[t] /\ t = "remote")
      BY <2>1, <3>1, <3>3, HistoryGrows DEF SeenTraced
    <3> QED
      BY <3>2, <3>3
  <2> QED
    BY <2>1 DEF SeenTraced
<1>4. CASE Dies \/ Ends \/ Begin \/ EndBulk
  <2>1. /\ initial' \in {"boot", "unbound", "ready", "scan"} \/ (initial' = "replay" /\ pc' = "idle")
    BY <1>4 DEF Dies, Ends, Begin, EndBulk, Running
  <2> QED
    BY <2>1 DEF SeenTraced, Scanned, Bulking, Replaying, Executing
<1>5. ASSUME NEW s \in Sides, Scan(s)
      PROVE  SeenTraced'
  <2>1. ASSUME NEW t \in Sides, NEW q \in Paths, Scanned(t)', disk'[<<t, q>>] # seen'[<<t, q>>]
        PROVE  q \in raw'[t] \cup pend'[t] \/ <<q, disk'[<<t, q>>]>> \in Unheard'
    <3>1. /\ seen' = [k \in Sides \X Paths |-> IF k[1] = s THEN disk[k] ELSE seen[k]]
          /\ UNCHANGED <<disk, raw, pend, blind, offline>>
          /\ initial = IF s = "local" THEN "scan" ELSE "snapshot"
          /\ initial' = IF s = "local" THEN "snapshot" ELSE "plan"
      BY <1>5 DEF Scan
    <3>2. <<t, q>> \in Sides \X Paths /\ <<t, q>>[1] = t
      OBVIOUS
    <3>3. t # s /\ seen'[<<t, q>>] = seen[<<t, q>>]
      BY <2>1, <3>1, <3>2
    <3>4. Scanned(t)
      BY <2>1, <3>1, <3>3 DEF Scanned, Bulking, Replaying, Sides
    <3> QED
      BY <2>1, <3>1, <3>3, <3>4 DEF SeenTraced, Unheard
  <2> QED
    BY <2>1 DEF SeenTraced
<1>6. CASE PlanBulk
  <2>1. ASSUME NEW t \in Sides, NEW q \in Paths, Scanned(t)', disk'[<<t, q>>] # seen'[<<t, q>>]
        PROVE  q \in raw'[t] \cup pend'[t] \/ <<q, disk'[<<t, q>>]>> \in Unheard'
    <3>1. /\ UNCHANGED <<disk, seen, raw, pend>> /\ Scanned(t)
      BY <1>6 DEF PlanBulk, Scanned
    <3> QED
      BY <2>1, <3>1, HistoryGrows DEF SeenTraced
  <2> QED
    BY <2>1 DEF SeenTraced
<1>7. CASE Bulks \/ Verify \/ Seed \/ RefreshSeeded
  <2>1. ASSUME NEW t \in Sides, NEW q \in Paths, Scanned(t)', disk'[<<t, q>>] # seen'[<<t, q>>]
        PROVE  q \in raw'[t] \cup pend'[t] \/ <<q, disk'[<<t, q>>]>> \in Unheard'
    <3>1. /\ Scanned(t) /\ UNCHANGED <<seen, pend>>
          /\ (disk' = disk /\ raw' = raw) \/ \E p \in Paths : Install(p)
      BY <1>7 DEF Bulks, PreflightPasses, CopyPasses, Install, Verify, Seed, RefreshSeeded,
         Phased, cycle,
         Scanned, Bulking
    <3>2. CASE disk' = disk /\ raw' = raw
      BY <2>1, <3>1, <3>2, HistoryGrows DEF SeenTraced
    <3>3. CASE \E p \in Paths : Install(p)
      BY <2>1, <3>1, <3>3, InstallTraced, HistoryGrows DEF SeenTraced
    <3> QED
      BY <3>1, <3>2, <3>3
  <2> QED
    BY <2>1 DEF SeenTraced
<1>8. CASE Replays
  <2>1. ASSUME NEW t \in Sides, NEW q \in Paths, Scanned(t)', disk'[<<t, q>>] # seen'[<<t, q>>]
        PROVE  q \in raw'[t] \cup pend'[t] \/ <<q, disk'[<<t, q>>]>> \in Unheard'
    <3>1. Replaying' /\ (pc' = "plan" \/ Executing')
      BY <1>8, <2>1 DEF Replays, Scanned, Replaying, Bulking
    <3>2. CASE Observe
      BY <2>1, <3>2 DEF Observe
    <3>3. CASE \E p \in Paths : Install(p) \/ Remove(p)
      <4>1. Scanned(t) /\ UNCHANGED <<seen, pend>>
        BY <1>8, <3>3 DEF Scanned, Executing, Install, Remove, Replays
      <4> QED
        BY <2>1, <3>3, <4>1, InstallTraced, RemoveTraced, HistoryGrows DEF SeenTraced
    <3>4. CASE StartPlan \/ PreflightPasses \/ CopyPasses \/ PostflightPasses \/ RehashPasses \/ VerifyPasses
               \/ PrepareConflicts
      <4>1. Scanned(t) /\ UNCHANGED <<seen, pend, disk, raw>>
        BY <1>8, <3>4 DEF Scanned, Executing, StartPlan, PreflightPasses, CopyPasses,
           PostflightPasses,
           RehashPasses, VerifyPasses, PrepareConflicts, cycle, Replays
      <4> QED
        BY <2>1, <4>1, HistoryGrows DEF SeenTraced
    <3>5. CASE CaptureAnd({}) \/ AuditDrift \/ CommitEchoes \/ Commit \/ Refresh \/ (pc = "idle" /\ UNCHANGED vars)
      <4>1. pc' \in {"audit", "observe", "idle", "refresh"}
        BY <3>5 DEF CaptureAnd, AuditDrift, CommitEchoes, Commit, Refresh, vars
      <4> QED
        BY <3>1, <4>1 DEF Executing
    <3> QED
      BY <1>8, <3>2, <3>3, <3>4, <3>5 DEF Replays, GoesOn
  <2> QED
    BY <2>1 DEF SeenTraced
<1> QED
  BY <1>1, <1>2, <1>3, <1>4, <1>5, <1>6, <1>7, <1>8 DEF StepInitial

-----------------------------------------------------------------------------
(* Every difference is pursued.                                            *)

\* An installation is recorded.
LEMMA InstallNoted ==
    ASSUME Types, NEW p \in Paths, Install(p)
    PROVE  p \in raw'[Destination(plan[p])]
<1>1. Destination(plan[p]) \in Sides /\ staged[p] \in Contents
  BY DEF Destination, Sides, Types, DiskTypes
<1> QED
  BY <1>1, ReplaceIs DEF Install

\* The steps that are not a cycle's of the replay.
Aside ==
    \/ \E s \in Sides, p \in Paths : Edits(s, p)
    \/ Tells \/ LosesEvents \/ Dies \/ Ends \/ Own \/ Bulks

\* While no cycle of the replay goes on, what is followed stays so.
LEMMA PursuedStays ==
    ASSUME Types, CoordinatorTypes, Phased, NEW q \in Paths, Pursued(q), initial # "unbound",
           StepInitial, Aside
    PROVE  Pursued(q)'
<1>0. /\ raw \in [Sides -> SUBSET Paths] /\ pend \in [Sides -> SUBSET (Paths \cup {Rescan})]
      /\ cap \in [Sides -> SUBSET (Paths \cup {Rescan})]
      /\ Unheard \subseteq Unheard'
  BY HistoryGrows DEF Types, JournalTypes
<1>1. UnheardPaths \subseteq UnheardPaths'
  BY <1>0 DEF UnheardPaths
<1>2. ASSUME /\ requeued \subseteq requeued' /\ UNCHANGED <<conflicts, swallowed>>
             /\ \A s \in Sides : /\ raw[s] \subseteq raw'[s] \cup pend'[s] \/ Rescan \in pend'[s]
                                 /\ pend[s] \subseteq pend'[s] /\ cap[s] \subseteq cap'[s] \cup pend'[s]
      PROVE  Pursued(q)'
  <2>1. CASE Noted(q)
    <3>1. Noted(q)'
      BY <1>2, <2>1 DEF Noted
    <3> QED
      BY <3>1 DEF Pursued, Later
  <2>2. CASE Taken(q)
    <3>1. PICK s \in Sides : q \in cap[s]
      BY <2>2 DEF Taken
    <3>2. q \in cap'[s] \/ q \in pend'[s]
      BY <1>2, <3>1
    <3> QED
      BY <3>2 DEF Pursued, Later, Noted, Taken
  <2>3. CASE q \in requeued \cup conflicts \/ q \in swallowed \/ q \in UnheardPaths
    BY <1>1, <1>2, <2>3 DEF Pursued, Later
  <2> QED
    BY <2>1, <2>2, <2>3 DEF Pursued, Later
<1>3. CASE (\E s \in Sides, p \in Paths : Edits(s, p)) \/ Tells \/ LosesEvents \/ Ends
  <2>1. requeued \subseteq requeued' /\ UNCHANGED <<conflicts, swallowed>>
    BY <1>3 DEF Edits, UserEdit, Tells, Notify, RequestAudit, LosesEvents, Overflow, Ends,
       GivesUp, stores, history
  <2>2. \A s \in Sides : /\ raw[s] \subseteq raw'[s] \cup pend'[s] \/ Rescan \in pend'[s]
                         /\ pend[s] \subseteq pend'[s] /\ cap[s] \subseteq cap'[s] \cup pend'[s]
    <3>1. CASE \E s \in Sides, p \in Paths : Edits(s, p)
      BY <1>0, <3>1 DEF Edits, UserEdit, cycle
    <3>2. CASE Tells
      BY <1>0, <3>2 DEF Tells, Notify, RequestAudit, cycle
    <3>3. CASE LosesEvents
      BY <1>0, <3>3 DEF LosesEvents, Overflow, cycle
    <3>4. CASE Ends
      BY <1>0, <3>4 DEF Ends, GivesUp, Reset, Forget
    <3> QED
      BY <1>3, <3>1, <3>2, <3>3, <3>4
  <2> QED
    BY <1>2, <2>1, <2>2
<1>4. CASE Dies
  <2>1. /\ UNCHANGED <<requeued, conflicts, swallowed>> /\ raw' = [raw EXCEPT !["local"] = {}]
        /\ \A s \in Sides : pend'[s] = pend[s] \cup cap[s]
    BY <1>4 DEF Dies, Crash, Reset, Forget, stores, history
  <2>2. CASE q \in raw["local"]
    <3>1. <<q, disk[<<"local", q>>]>> \in Unheard'
      BY <1>4, <2>2 DEF Dies, Unrecorded, Unheard
    <3>2. q \in UnheardPaths'
      <4>1. <<q, disk[<<"local", q>>]>>[1] = q
        OBVIOUS
      <4> QED
        BY <3>1, <4>1 DEF UnheardPaths
    <3> QED
      BY <3>2 DEF Pursued
  <2>3. CASE q \notin raw["local"]
    <3>1. CASE Noted(q) \/ Taken(q)
      <4>1. raw'["remote"] = raw["remote"]
        BY <1>0, <2>1 DEF Sides
      <4>2. Noted(q)'
        BY <2>1, <2>3, <3>1, <4>1 DEF Noted, Taken, Sides
      <4> QED
        BY <4>2 DEF Pursued, Later
    <3>2. CASE ~(Noted(q) \/ Taken(q))
      BY <1>1, <2>1, <3>2 DEF Pursued, Later
    <3> QED
      BY <3>1, <3>2
  <2> QED
    BY <2>2, <2>3
<1>5. CASE Own
  <2>1. requeued \subseteq requeued' /\ UNCHANGED <<conflicts, swallowed>>
    BY <1>5 DEF Own, Begin, Scan, PlanBulk, Verify, Seed, RefreshSeeded, EndBulk, stores, history
  <2>2. \A s \in Sides : /\ raw[s] \subseteq raw'[s]
                         /\ pend[s] \subseteq pend'[s] /\ cap[s] \subseteq cap'[s] \cup pend'[s]
    <3>1. CASE Begin \/ (\E s \in Sides : Scan(s)) \/ PlanBulk \/ Verify \/ Seed \/ RefreshSeeded
      BY <3>1 DEF Begin, Scan, PlanBulk, Verify, Seed, RefreshSeeded, cycle
    <3>2. CASE EndBulk
      BY <3>2 DEF EndBulk, Reset, Forget
    <3> QED
      BY <1>5, <3>1, <3>2 DEF Own
  <2> QED
    BY <1>2, <2>1, <2>2
<1>6. CASE Bulks
  <2>1. CASE PreflightPasses \/ CopyPasses
    BY <1>2, <2>1 DEF PreflightPasses, CopyPasses, stores, cycle, history
  <2>2. ASSUME NEW p \in Paths, Install(p)
        PROVE  Pursued(q)'
    <3>1. UNCHANGED <<requeued, conflicts, swallowed, pend, cap>>
      BY <2>2 DEF Install, stores
    <3>2. \A s \in Sides : raw[s] \subseteq raw'[s]
      BY <2>2, InstallTraced
    <3> QED
      BY <1>2, <3>1, <3>2
  <2> QED
    BY <1>6, <2>1, <2>2 DEF Bulks
<1> QED
  BY <1>3, <1>4, <1>5, <1>6 DEF Aside

\* A cycle that is to audit leaves its events to another when it gives up.
LEMMA AuditStays ==
    ASSUME Types, Cycling, Replaying, pc = "audit", Dies \/ Ends, NEW q \in Paths
    PROVE  Pursued(q)'
<1>1. PICK s \in Sides : Rescan \in cap[s]
  BY DEF Cycling, Taking
<1>2. pend'[s] = pend[s] \cup cap[s]
  BY DEF Dies, Crash, Ends, GivesUp, Reset, Forget
<1> QED
  BY <1>1, <1>2 DEF Pursued, Later, Noted

\* What the bulk transfer has replaced is recorded.
LEMMA BulkNotedKept ==
    ASSUME Types, CoordinatorTypes, Phased, BulkPlanned, BulkNoted, StepInitial
    PROVE  BulkNoted'
<1>1. CASE (\E s \in Sides, p \in Paths : Edits(s, p)) \/ Tells \/ LosesEvents
  <2>1. CASE Bulking
    <3>1. /\ UNCHANGED <<initial, pc, installed, stage, plan>> /\ Step
      BY <1>1 DEF Edits, UserEdit, Tells, Notify, RequestAudit, LosesEvents, Overflow, Apart,
         cycle, Step
    <3>2. Active' = Active /\ Active \subseteq Paths /\ installed \subseteq Paths
      BY <3>1 DEF Active, Batch, Types, CycleTypes
    <3>3. pc # "down"
      BY <2>1 DEF Phased, Running, Bulking
    <3>4. \A q \in Paths : Noted(q) => Noted(q)'
      BY <3>1, <3>3, NotedStays
    <3> QED
      BY <3>1, <3>2, <3>4 DEF BulkNoted
  <2>2. CASE ~Bulking
    <3>1. initial' = initial
      BY <1>1 DEF Edits, Tells, LosesEvents
    <3> QED
      BY <2>2, <3>1 DEF BulkNoted, Bulking
  <2> QED
    BY <2>1, <2>2
<1>2. CASE Dies \/ Ends \/ Begin \/ EndBulk \/ Replays
  <2>1. ~Bulking'
    BY <1>2 DEF Dies, Ends, Begin, EndBulk, Replays, Running, Bulking
  <2> QED
    BY <2>1 DEF BulkNoted, Bulking
<1>3. ASSUME NEW s \in Sides, Scan(s)
      PROVE  BulkNoted'
  <2>1. ~Bulking'
    BY <1>3 DEF Scan, Bulking
  <2> QED
    BY <2>1 DEF BulkNoted, Bulking
<1>4. CASE PlanBulk
  <2>1. installed' = {} /\ initial' \in {"bulk", "replay"}
    BY <1>4 DEF PlanBulk, Phased, Bulking, Replaying
  <2> QED
    BY <2>1 DEF BulkNoted
<1>5. CASE Bulks
  <2>1. initial = "bulk" /\ initial' = initial
    BY <1>5 DEF Bulks
  <2>2. CASE PreflightPasses \/ CopyPasses
    BY <2>1, <2>2 DEF PreflightPasses, CopyPasses, cycle, BulkNoted, Noted
  <2>3. ASSUME NEW p \in Paths, Install(p)
        PROVE  BulkNoted'
    <3>1. pend' = pend /\ installed' = installed \cup {p}
      BY <2>3 DEF Install
    <3>2. p \in raw'[Destination(plan[p])] /\ Destination(plan[p]) \in Sides
      BY <2>3, InstallNoted DEF Destination, Sides
    <3>3. \A s \in Sides : raw[s] \subseteq raw'[s]
      BY <2>3, InstallTraced
    <3>4. \A q \in installed' : Noted(q)'
      BY <2>1, <3>1, <3>2, <3>3 DEF BulkNoted, Noted
    <3> QED
      BY <2>1, <3>4 DEF BulkNoted
  <2> QED
    BY <1>5, <2>2, <2>3 DEF Bulks
<1>6. CASE Verify
  <2>1. /\ UNCHANGED <<stage, plan, raw, pend>> /\ initial = "bulk" /\ initial' \in {"seed", "abandon"}
        /\ installed = Active
    BY <1>6 DEF Verify, BulkPlanned, Bulking
  <2>2. Active' = Active
    BY <2>1 DEF Active, Batch
  <2> QED
    BY <2>1, <2>2 DEF BulkNoted, Noted
<1>7. CASE Seed \/ RefreshSeeded
  <2>1. UNCHANGED <<stage, plan, raw, pend, initial>> /\ initial \in {"seed", "abandon"}
    BY <1>7 DEF Seed, RefreshSeeded, Phased, cycle
  <2>2. Active' = Active
    BY <2>1 DEF Active, Batch
  <2> QED
    BY <2>1, <2>2 DEF BulkNoted, Noted
<1> QED
  BY <1>1, <1>2, <1>3, <1>4, <1>5, <1>6, <1>7 DEF StepInitial

\* When the bulk plan is made, what is not the base is followed, except the
\* paths that are about to be copied over nothing.
LEMMA PlanFollowed ==
    ASSUME Types, CoordinatorTypes, Phased, SeenTraced, InitialFollowed, StepInitial,
           NEW s \in Sides, PlansFrom(s), NEW t \in Sides, NEW q \in Paths,
           PlanBulk, disk[<<t, q>>] # base[q],
           base[q] # Missing \/ Trusted(t) \/ t = Other(s) \/ q \notin Unfinished(s) \ Noticed
    PROVE  Pursued(q)'
<1>1. /\ initial = "plan" /\ s \in SourcesAllowed /\ requeued' = requeued \cup Noticed
      /\ UNCHANGED <<raw, pend, conflicts, swallowed>>
  BY DEF PlansFrom, history
<1>2. Aside /\ ~Replaying
  BY <1>1 DEF Aside, Own, Replaying
<1>3. Pursued(q) => Pursued(q)'
  BY <1>1, <1>2, PursuedStays
<1>4. CASE base[q] # Missing \/ Trusted(t)
  BY <1>2, <1>3, <1>4 DEF InitialFollowed
<1>5. ASSUME NEW u \in Sides, disk[<<u, q>>] # seen[<<u, q>>]
      PROVE  Pursued(q)'
  <2>1. q \in raw[u] \cup pend[u] \/ <<q, disk[<<u, q>>]>> \in Unheard
    BY <1>1, <1>5 DEF SeenTraced, Scanned
  <2>2. <<q, disk[<<u, q>>]>>[1] = q
    OBVIOUS
  <2>3. Pursued(q)
    BY <2>1, <2>2 DEF Pursued, Later, Noted, UnheardPaths
  <2> QED
    BY <1>3, <2>3
<1>6. CASE q \in Noticed
  BY <1>1, <1>6 DEF Pursued, Later
<1>7. CASE /\ base[q] = Missing /\ ~Trusted(t) /\ q \notin Noticed
           /\ \A u \in Sides : disk[<<u, q>>] = seen[<<u, q>>]
  <2>1. seen[<<t, q>>] # base[q] /\ seen[<<t, q>>] # Missing
    BY <1>7
  <2>2. t = Other(s)
    <3>1. CASE t = s
      BY <1>7, <2>1, <3>1 DEF Unfinished, Other, Sides
    <3>2. CASE t # s
      BY <3>2 DEF Other, Sides
    <3> QED
      BY <3>1, <3>2
  <2>3. Populated(seen, t)
    BY <2>1 DEF Populated
  <2>4. \E p \in Paths : echo[<<t, p>>] # NoEcho
    BY <1>1, <2>2, <2>3 DEF SourcesAllowed, Other, Sides
  <2> QED
    BY <1>7, <2>4 DEF Trusted
<1> QED
  BY <1>4, <1>5, <1>6, <1>7

\* What is not the base is going to be planned, was taken for an echo, or no
\* event told of it.
LEMMA InitialFollowedKept ==
    ASSUME Types, CoordinatorTypes, Phased, BulkPlanned, Cycling, SeenTraced, BulkNoted,
           InitialFollowed, StepInitial
    PROVE  InitialFollowed'
<1>1. ASSUME NEW s \in Sides, NEW p \in Paths, Edits(s, p)
      PROVE  InitialFollowed'
  <2>1. ASSUME NEW t \in Sides, NEW q \in Paths, ~(Replaying' /\ pc' = "audit"),
               base'[q] # Missing \/ Trusted(t)' \/ (Bulking' /\ q \notin Active'), disk'[<<t, q>>] # base'[q]
        PROVE  Pursued(q)'
    <3>1. /\ UserEdit(s, p) /\ UNCHANGED <<initial, pc, base, echo, stage, plan, pend>> /\ raw \in [Sides -> SUBSET Paths]
      BY <1>1 DEF Edits, UserEdit, cycle, stores, Types, JournalTypes
    <3>2. Active' = Active /\ Target' = Target
      BY <3>1 DEF Active, Batch, Target
    <3>3. /\ ~(Replaying /\ pc = "audit") /\ base' = base
          /\ base[q] # Missing \/ Trusted(t) \/ (Bulking /\ q \notin Active)
      BY <2>1, <3>1, <3>2 DEF Replaying, Trusted, Bulking
    <3>4. initial # "unbound"
      BY <3>3 DEF Phased, Trusted, Bulking, Replaying
    <3>5. CASE <<t, q>> = <<s, p>>
      <4>1. CASE Watched(s)
        <5>1. p \in raw'[s]
          BY <3>1, <4>1 DEF UserEdit
        <5> QED
          BY <3>5, <5>1 DEF Pursued, Later, Noted
      <4>2. CASE ~Watched(s)
        <5>1. pc = "down" /\ s = "local"
          BY <4>2 DEF Watched, Sides
        <5>2. initial = "boot"
          BY <3>4, <5>1 DEF Phased, Running, StepInitial
        <5>3. <<p, disk'[<<s, p>>]>> \in Unheard'
          BY <1>1, <5>1, <5>2 DEF Edits, Unheard
        <5>4. <<p, disk'[<<s, p>>]>>[1] = p
          OBVIOUS
        <5>5. p \in UnheardPaths'
          BY <5>3, <5>4 DEF UnheardPaths
        <5> QED
          BY <3>5, <5>5 DEF Pursued
      <4> QED
        BY <4>1, <4>2
    <3>6. CASE <<t, q>> # <<s, p>>
      <4>1. disk'[<<t, q>>] = disk[<<t, q>>]
        BY <3>1, <3>6, EditIs
      <4>2. Pursued(q)
        BY <2>1, <3>3, <4>1 DEF InitialFollowed
      <4> QED
        BY <1>1, <3>4, <4>2, PursuedStays DEF Aside
    <3> QED
      BY <3>5, <3>6
  <2> QED
    BY <2>1 DEF InitialFollowed
<1>2. CASE Tells \/ LosesEvents
  <2>1. ASSUME NEW t \in Sides, NEW q \in Paths, ~(Replaying' /\ pc' = "audit"),
               base'[q] # Missing \/ Trusted(t)' \/ (Bulking' /\ q \notin Active'), disk'[<<t, q>>] # base'[q]
        PROVE  Pursued(q)'
    <3>1. /\ UNCHANGED <<initial, pc, base, echo, stage, plan, disk>> /\ initial # "unbound"
      BY <1>2 DEF Tells, LosesEvents, Notify, RequestAudit, Overflow, cycle, stores
    <3>2. Active' = Active /\ Target' = Target
      BY <3>1 DEF Active, Batch, Target
    <3>3. /\ ~(Replaying /\ pc = "audit")
          /\ base[q] # Missing \/ Trusted(t) \/ (Bulking /\ q \notin Active)
      BY <2>1, <3>1, <3>2 DEF Replaying, Trusted, Bulking
    <3>4. Pursued(q)
      BY <2>1, <3>1, <3>3 DEF InitialFollowed
    <3> QED
      BY <1>2, <3>1, <3>4, PursuedStays DEF Aside
  <2> QED
    BY <2>1 DEF InitialFollowed
<1>3. CASE Dies \/ Ends
  <2>1. ASSUME NEW t \in Sides, NEW q \in Paths, ~(Replaying' /\ pc' = "audit"),
               base'[q] # Missing \/ Trusted(t)' \/ (Bulking' /\ q \notin Active'), disk'[<<t, q>>] # base'[q]
        PROVE  Pursued(q)'
    <3>1. /\ UNCHANGED <<base, disk>> /\ \A k \in Sides \X Paths : echo'[k] \in {echo[k], NoEcho}
          /\ initial' # "unbound" /\ initial # "unbound" /\ ~Bulking' /\ ~Replaying' /\ initial' # "ready"
      BY <1>3 DEF Dies, Crash, Ends, GivesUp, stores, Phased, Running, Bulking, Replaying,
         StepInitial
    <3>2. base[q] # Missing \/ Trusted(t)
      BY <2>1, <3>1 DEF Trusted
    <3>3. CASE Replaying /\ pc = "audit"
      BY <1>3, <3>3, AuditStays
    <3>4. CASE ~(Replaying /\ pc = "audit")
      BY <1>3, <2>1, <3>1, <3>2, <3>4, PursuedStays DEF InitialFollowed, Aside, Own
    <3> QED
      BY <3>3, <3>4
  <2> QED
    BY <2>1 DEF InitialFollowed
<1>4. CASE Begin
  <2>1. ASSUME NEW t \in Sides, NEW q \in Paths, ~(Replaying' /\ pc' = "audit"),
               base'[q] # Missing \/ Trusted(t)' \/ (Bulking' /\ q \notin Active'), disk'[<<t, q>>] # base'[q]
        PROVE  Pursued(q)'
    <3>1. /\ UNCHANGED <<base, disk, echo>> /\ initial' = "scan" /\ initial \in {"unbound", "boot"}
      BY <1>4 DEF Begin, stores
    <3>2. ~Bulking' /\ ~Replaying' /\ ~Replaying
      BY <3>1 DEF Bulking, Replaying
    <3>3. base[q] # Missing \/ Trusted(t)
      BY <2>1, <3>1, <3>2 DEF Trusted
    <3>4. initial # "unbound"
      BY <3>1, <3>3 DEF Phased, Trusted, Bulking, Replaying
    <3> QED
      BY <1>4, <2>1, <3>1, <3>2, <3>3, <3>4, PursuedStays DEF InitialFollowed, Aside, Own
  <2> QED
    BY <2>1 DEF InitialFollowed
<1>5. ASSUME NEW s \in Sides, Scan(s)
      PROVE  InitialFollowed'
  <2>1. ASSUME NEW t \in Sides, NEW q \in Paths, ~(Replaying' /\ pc' = "audit"),
               base'[q] # Missing \/ Trusted(t)' \/ (Bulking' /\ q \notin Active'), disk'[<<t, q>>] # base'[q]
        PROVE  Pursued(q)'
    <3>1. /\ UNCHANGED <<base, disk, echo>> /\ initial' \in {"snapshot", "plan"} /\ initial \in {"scan", "snapshot"}
      BY <1>5 DEF Scan, stores
    <3>2. ~Bulking' /\ ~Replaying' /\ ~Replaying
      BY <3>1 DEF Bulking, Replaying
    <3>3. base[q] # Missing \/ Trusted(t)
      BY <2>1, <3>1, <3>2 DEF Trusted
    <3> QED
      BY <1>5, <2>1, <3>1, <3>2, <3>3, PursuedStays DEF InitialFollowed, Aside, Own
  <2> QED
    BY <2>1 DEF InitialFollowed
<1>6. CASE PlanBulk
  <2>1. ASSUME NEW t \in Sides, NEW q \in Paths, ~(Replaying' /\ pc' = "audit"),
               base'[q] # Missing \/ Trusted(t)' \/ (Bulking' /\ q \notin Active'), disk'[<<t, q>>] # base'[q]
        PROVE  Pursued(q)'
    <3>1. PICK s \in Sides : PlansFrom(s)
      BY <1>6, PlansFromASide
    <3>2. UNCHANGED <<base, disk, echo>>
      BY <3>1 DEF PlansFrom
    <3>3. base[q] # Missing \/ Trusted(t) \/ t = Other(s) \/ q \notin Unfinished(s) \ Noticed
      <4>1. CASE Unfinished(s) \ Noticed = {}
        BY <4>1
      <4>2. CASE q \in Unfinished(s) \ Noticed
        <5>1. initial' = "bulk" /\ stage' = IF s = "local" THEN 1 ELSE 2
          BY <3>1, <4>2 DEF PlansFrom
        <5>2. plan'[q] = Stages[stage']
          BY <3>1, <4>2, <5>1 DEF PlansFrom, Stages
        <5>3. q \in Active' /\ Target' = Other(s)
          BY <5>1, <5>2 DEF Active, Batch, Target, Stages, Destination, Other, Sides
        <5> QED
          BY <2>1, <3>2, <5>1, <5>3 DEF Trusted, Replaying
      <4> QED
        BY <4>1, <4>2
    <3> QED
      BY <1>6, <2>1, <3>1, <3>2, <3>3, PlanFollowed
  <2> QED
    BY <2>1 DEF InitialFollowed
<1>7. CASE Bulks
  <2>1. ASSUME NEW t \in Sides, NEW q \in Paths, ~(Replaying' /\ pc' = "audit"),
               base'[q] # Missing \/ Trusted(t)' \/ (Bulking' /\ q \notin Active'), disk'[<<t, q>>] # base'[q]
        PROVE  Pursued(q)'
    <3>1. /\ initial = "bulk" /\ UNCHANGED <<initial, base, echo, stage, plan>>
      BY <1>7 DEF Bulks, PreflightPasses, CopyPasses, Install, stores, cycle
    <3>2. Active' = Active /\ Target' = Target
      BY <3>1 DEF Active, Batch, Target
    <3>3. base[q] # Missing \/ Trusted(t) \/ (Bulking /\ q \notin Active)
      BY <2>1, <3>1, <3>2 DEF Replaying, Trusted, Bulking
    <3>4. CASE disk'[<<t, q>>] = disk[<<t, q>>]
      BY <1>7, <2>1, <3>1, <3>3, <3>4, PursuedStays DEF InitialFollowed, Replaying, Aside, Own
    <3>5. CASE disk'[<<t, q>>] # disk[<<t, q>>]
      <4>1. PICK p \in Paths : Install(p)
        BY <1>7, <3>5 DEF Bulks, PreflightPasses, CopyPasses
      <4>2. q \in raw'[t]
        BY <3>5, <4>1, InstallTraced
      <4> QED
        BY <4>2 DEF Pursued, Later, Noted
    <3> QED
      BY <3>4, <3>5
  <2> QED
    BY <2>1 DEF InitialFollowed
<1>8. CASE Verify \/ RefreshSeeded
  <2>1. ASSUME NEW t \in Sides, NEW q \in Paths, ~(Replaying' /\ pc' = "audit"),
               base'[q] # Missing \/ Trusted(t)' \/ (Bulking' /\ q \notin Active'), disk'[<<t, q>>] # base'[q]
        PROVE  Pursued(q)'
    <3>1. /\ Bulking /\ Bulking' /\ UNCHANGED <<base, echo, stage, plan, disk>> /\ ~Replaying /\ ~Replaying'
          /\ initial # "unbound" /\ initial' # "ready"
      BY <1>8 DEF Verify, RefreshSeeded, stores, cycle, Bulking, Phased, Replaying
    <3>2. Active' = Active /\ Target' = Target
      BY <3>1 DEF Active, Batch, Target
    <3>3. base[q] # Missing \/ Trusted(t) \/ (Bulking /\ q \notin Active)
      BY <2>1, <3>1, <3>2 DEF Trusted
    <3> QED
      BY <1>8, <2>1, <3>1, <3>3, PursuedStays DEF InitialFollowed, Aside, Own
  <2> QED
    BY <2>1 DEF InitialFollowed
<1>9. CASE Seed
  <2>1. ASSUME NEW t \in Sides, NEW q \in Paths, ~(Replaying' /\ pc' = "audit"),
               base'[q] # Missing \/ Trusted(t)' \/ (Bulking' /\ q \notin Active'), disk'[<<t, q>>] # base'[q]
        PROVE  Pursued(q)'
    <3>1. PICK verified \in SUBSET installed :
             /\ base' = [p \in Paths |->
                            IF p \in verified THEN seen[<<Source(plan[p]), p>>] ELSE base[p]]
             /\ echo' = [k \in Sides \X Paths |->
                            IF k[2] \in verified /\ k[1] = Destination(plan[k[2]])
                            THEN seen[<<Source(plan[k[2]]), k[2]>>] ELSE echo[k]]
      BY <1>9 DEF Seed
    <3>2. /\ initial \in {"seed", "abandon"} /\ UNCHANGED <<initial, stage, plan, disk>>
          /\ Bulking /\ Bulking' /\ ~Replaying /\ initial # "unbound"
      BY <1>9 DEF Seed, Bulking, Replaying
    <3>3. Active' = Active /\ Target' = Target /\ verified \subseteq Active
      BY <3>1, <3>2 DEF Active, Batch, Target, BulkPlanned
    <3>4. CASE q \in Active
      BY <1>9, <3>2, <3>4, PursuedStays DEF BulkNoted, Pursued, Later, Aside, Own
    <3>5. CASE q \notin Active
      <4>1. base'[q] = base[q]
        BY <3>1, <3>3, <3>5
      <4> QED
        BY <1>9, <2>1, <3>2, <3>5, <4>1, PursuedStays DEF InitialFollowed, Aside, Own
    <3> QED
      BY <3>4, <3>5
  <2> QED
    BY <2>1 DEF InitialFollowed
<1>10. CASE EndBulk
  <2>1. ASSUME NEW t \in Sides, NEW q \in Paths, ~(Replaying' /\ pc' = "audit"),
               base'[q] # Missing \/ Trusted(t)' \/ (Bulking' /\ q \notin Active'), disk'[<<t, q>>] # base'[q]
        PROVE  Pursued(q)'
    <3>1. /\ initial = "seed" /\ Bulking /\ ~Replaying /\ UNCHANGED <<base, disk>>
      BY <1>10 DEF EndBulk, Bulking, Replaying
    <3>2. CASE q \in Active
      BY <1>10, <3>1, <3>2, PursuedStays DEF BulkNoted, Pursued, Later, Aside, Own
    <3>3. CASE q \notin Active
      BY <1>10, <2>1, <3>1, <3>3, PursuedStays DEF InitialFollowed, Aside, Own
    <3> QED
      BY <3>2, <3>3
  <2> QED
    BY <2>1 DEF InitialFollowed
<1>11. CASE Replays
  <2>1. ASSUME NEW t \in Sides, NEW q \in Paths, ~(Replaying' /\ pc' = "audit"),
               base'[q] # Missing \/ Trusted(t)' \/ (Bulking' /\ q \notin Active'), disk'[<<t, q>>] # base'[q]
        PROVE  Pursued(q)'
    <3>1. Replaying /\ Step
      BY <1>11 DEF Replays, GoesOn, Step
    <3>2. CASE q \in UnheardPaths
      BY <3>2, HistoryGrows DEF Pursued, UnheardPaths
    <3>3. CASE q \notin UnheardPaths
      <4>1. FollowedAt(q)
        BY <3>1, <3>3 DEF FollowedAt, InitialFollowed, Trusted, Pursued
      <4>2. FollowedAt(q)'
        BY <3>1, <4>1, FollowedKept DEF Cycling
      <4>3. pc' \notin {"down", "audit"}
        <5>1. pc' # "down"
          BY <1>11, <3>1 DEF Replays, GoesOn, CaptureAnd, AuditDrift, Observe, CommitEchoes,
             StartPlan, PreflightPasses,
             CopyPasses, Install, PostflightPasses, RehashPasses, Remove, VerifyPasses,
             PrepareConflicts, Commit,
             Refresh, vars
        <5>2. initial' = "ready" => pc' = "idle"
          BY <1>11 DEF Replays
        <5>3. initial' # "ready" => Replaying'
          BY <1>11 DEF Replays, Replaying
        <5> QED
          BY <2>1, <5>1, <5>2, <5>3
      <4> QED
        BY <2>1, <4>2, <4>3 DEF FollowedAt, Pursued
    <3> QED
      BY <3>2, <3>3
  <2> QED
    BY <2>1 DEF InitialFollowed
<1> QED
  BY <1>1, <1>2, <1>3, <1>4, <1>5, <1>6, <1>7, <1>8, <1>9, <1>10, <1>11 DEF StepInitial

-----------------------------------------------------------------------------
(* Every edit is accounted for.                                            *)

\* A user writes a version nobody has seen.
LEMMA EditIsNew ==
    ASSUME Types, NEW s \in Sides, NEW p \in Paths, UserEdit(s, p),
           NEW v \in Contents, v <= edits, disk'[<<s, p>>] = v
    PROVE  v = Missing
<1>1. disk'[<<s, p>>] \in {Missing, edits + 1}
  BY EditIs
<1>2. v \in Nat /\ edits \in Nat
  BY ConstantsAssumption DEF Types, DiskTypes, Contents, Versions, Missing
<1> QED
  BY <1>1, <1>2

\* The numbers of edits only grow.
LEMMA StillNumbered ==
    ASSUME Types, EchoNumbered, edits' \in {edits, edits + 1},
           \A k \in Sides \X Paths : echo'[k] \in {echo[k], NoEcho},
           \A p \in Paths : after'[p] \in {after[p], Missing}
    PROVE  EchoNumbered'
<1>1. edits \in Nat /\ Missing <= edits /\ Missing \in Nat
  BY ConstantsAssumption DEF Types, DiskTypes, Missing
<1>2. \A k \in Sides \X Paths : echo[k] # NoEcho => echo[k] \in Nat
  BY ConstantsAssumption DEF Types, CycleTypes, Contents, Versions, Missing
<1>3. \A p \in Paths : after[p] \in Nat
  BY ConstantsAssumption DEF Types, DiskTypes, Contents, Versions, Missing
<1>4. ASSUME NEW k \in Sides \X Paths, echo'[k] # NoEcho
      PROVE  echo'[k] <= edits'
  BY <1>1, <1>2, <1>4 DEF EchoNumbered
<1>5. ASSUME NEW p \in Paths
      PROVE  after'[p] <= edits'
  BY <1>1, <1>3, <1>5 DEF EchoNumbered
<1> QED
  BY <1>4, <1>5 DEF EchoNumbered

\* No echo is younger than the edits.
LEMMA EchoNumberedKept ==
    ASSUME Types, Phased, Numbered, EchoNumbered, Cycling, StepInitial
    PROVE  EchoNumbered'
<1>1. CASE (\E s \in Sides, p \in Paths : Edits(s, p)) \/ Tells \/ LosesEvents
            \/ Begin \/ PlanBulk \/ Bulks \/ Verify \/ RefreshSeeded
  <2>1. /\ edits' \in {edits, edits + 1}
        /\ \A k \in Sides \X Paths : echo'[k] \in {echo[k], NoEcho}
        /\ \A p \in Paths : after'[p] \in {after[p], Missing}
    BY <1>1 DEF Edits, UserEdit, Tells, Notify, RequestAudit, LosesEvents, Overflow, Begin,
       PlanBulk, Bulks, PreflightPasses, CopyPasses, Install, Verify, RefreshSeeded, stores,
       cycle, bounds
  <2> QED
    BY <2>1, StillNumbered
<1>2. ASSUME NEW s \in Sides, Scan(s)
      PROVE  EchoNumbered'
  <2>1. /\ edits' \in {edits, edits + 1}
        /\ \A k \in Sides \X Paths : echo'[k] \in {echo[k], NoEcho}
        /\ \A p \in Paths : after'[p] \in {after[p], Missing}
    BY <1>2 DEF Scan, stores, bounds
  <2> QED
    BY <2>1, StillNumbered
<1>3. CASE Dies \/ Ends \/ EndBulk
  <2>1. /\ edits' \in {edits, edits + 1}
        /\ \A k \in Sides \X Paths : echo'[k] \in {echo[k], NoEcho}
        /\ \A p \in Paths : after'[p] \in {after[p], Missing}
    BY <1>3 DEF Dies, Crash, Ends, GivesUp, EndBulk, Reset, Forget, stores, bounds
  <2> QED
    BY <2>1, StillNumbered
<1>4. CASE Seed
  <2>1. PICK verified \in SUBSET installed :
           /\ echo' = [k \in Sides \X Paths |->
                         IF k[2] \in verified /\ k[1] = Destination(plan[k[2]])
                         THEN seen[<<Source(plan[k[2]]), k[2]>>] ELSE echo[k]]
    BY <1>4 DEF Seed
  <2>2. \A k \in Sides \X Paths : Source(plan[k[2]]) \in Sides /\ k[2] \in Paths
    BY DEF Source, Other, Sides
  <2>3. UNCHANGED <<after, edits>>
    BY <1>4 DEF Seed, bounds
  <2>4. \A k \in Sides \X Paths : seen[<<Source(plan[k[2]]), k[2]>>] <= edits
    BY <2>2 DEF Numbered
  <2> QED
    BY <2>1, <2>3, <2>4 DEF EchoNumbered
<1>5. CASE Replays
  <2>0. Missing <= edits
    BY ConstantsAssumption DEF Types, DiskTypes, Missing
  <2>1. CASE CaptureAnd({}) \/ AuditDrift \/ Observe
    <3>1. /\ edits' = edits
          /\ \A k \in Sides \X Paths : echo'[k] \in {echo[k], NoEcho}
          /\ \A p \in Paths : after'[p] \in {after[p], Missing}
      BY <2>1 DEF CaptureAnd, AuditDrift, Observe, stores, cycle, bounds
    <3> QED
      BY <3>1, StillNumbered
  <2>2. CASE CommitEchoes \/ Refresh
    <3>1. /\ edits' = edits
          /\ \A k \in Sides \X Paths : echo'[k] \in {echo[k], NoEcho}
          /\ \A p \in Paths : after'[p] \in {after[p], Missing}
      BY <2>2 DEF CommitEchoes, Refresh, Reset, Forget, Consume, bounds
    <3> QED
      BY <3>1, StillNumbered
  <2>3. CASE PreflightPasses \/ CopyPasses \/ PostflightPasses \/ VerifyPasses
    <3>1. /\ edits' = edits
          /\ \A k \in Sides \X Paths : echo'[k] \in {echo[k], NoEcho}
          /\ \A p \in Paths : after'[p] \in {after[p], Missing}
      BY <2>3 DEF PreflightPasses, CopyPasses, PostflightPasses, VerifyPasses, stores, cycle,
         bounds
    <3> QED
      BY <3>1, StillNumbered
  <2>4. CASE \E p \in Paths : Install(p) \/ Remove(p)
    <3>1. /\ edits' = edits
          /\ \A k \in Sides \X Paths : echo'[k] \in {echo[k], NoEcho}
          /\ \A p \in Paths : after'[p] \in {after[p], Missing}
      BY <2>4 DEF Install, Remove, stores, bounds
    <3> QED
      BY <3>1, StillNumbered
  <2>5. CASE UNCHANGED vars
    <3>1. /\ edits' = edits
          /\ \A k \in Sides \X Paths : echo'[k] \in {echo[k], NoEcho}
          /\ \A p \in Paths : after'[p] \in {after[p], Missing}
      BY <2>5 DEF vars, stores, cycle, bounds
    <3> QED
      BY <3>1, StillNumbered
  <2>6. CASE StartPlan
    <3>1. echo' = [k \in Sides \X Paths |->
                      IF k \in Intents(plan') THEN Expected(plan'[k[2]], k[2]) ELSE echo[k]]
      BY <2>6 DEF StartPlan
    <3>2. ASSUME NEW k \in Sides \X Paths
          PROVE  Expected(plan'[k[2]], k[2]) <= edits
      <4>1. Source(plan'[k[2]]) \in Sides /\ k[2] \in Paths
        BY DEF Source, Other, Sides
      <4>2. seen[<<Source(plan'[k[2]]), k[2]>>] <= edits
        BY <4>1 DEF Numbered
      <4> QED
        BY <2>0, <4>2 DEF Expected
    <3>3. UNCHANGED <<after, edits>>
      BY <2>6 DEF StartPlan, bounds
    <3> QED
      BY <3>1, <3>2, <3>3 DEF EchoNumbered
  <2>7. CASE RehashPasses
    <3>1. /\ after' = [p \in Paths |->
                    IF p \in Active \ changed THEN disk[<<Destination(plan[p]), p>>] ELSE after[p]]
          /\ UNCHANGED <<echo, edits>>
      BY <2>7 DEF RehashPasses, stores, bounds
    <3>2. \A p \in Paths : Destination(plan[p]) \in Sides
      BY DEF Destination, Sides
    <3> QED
      BY <3>1, <3>2 DEF EchoNumbered, Numbered
  <2>8. CASE PrepareConflicts
    <3>1. /\ after' = [p \in Paths |-> IF plan[p] = "update-base" THEN seen[<<"local", p>>] ELSE after[p]]
          /\ UNCHANGED <<echo, edits>>
      BY <2>8 DEF PrepareConflicts, stores, bounds
    <3> QED
      BY <3>1 DEF EchoNumbered, Numbered, Sides
  <2>9. CASE Commit
    <3>1. /\ edits' = edits /\ \A p \in Paths : after'[p] = Missing
          /\ \A k \in Sides \X Paths : echo'[k] \in {echo[k], NoEcho, after[k[2]]}
      BY <2>9 DEF Commit, CommittedEchoes, Consume, Forget, bounds
    <3> QED
      BY <2>0, <3>1 DEF EchoNumbered
  <2> QED
    BY <1>5, <2>1, <2>2, <2>3, <2>4, <2>5, <2>6, <2>7, <2>8, <2>9 DEF Replays, GoesOn
<1> QED
  BY <1>1, <1>2, <1>3, <1>4, <1>5 DEF StepInitial

\* What is accounted for stays so, and so is what is written, while no cycle of
\* the replay goes on.
LEMMA TracedStays ==
    ASSUME Types, CoordinatorTypes, Phased, StepInitial, Aside, initial # "unbound",
           NEW s \in Sides, NEW p \in Paths, Traced(s, p) \/ disk'[<<s, p>>] # disk[<<s, p>>]
    PROVE  Traced(s, p)'
<1>0. /\ raw \in [Sides -> SUBSET Paths] /\ pend \in [Sides -> SUBSET (Paths \cup {Rescan})]
      /\ cap \in [Sides -> SUBSET (Paths \cup {Rescan})]
      /\ kept \subseteq kept' /\ raced \subseteq raced' /\ Unheard \subseteq Unheard'
  BY HistoryGrows DEF Types, JournalTypes
<1>1. ASSUME disk'[<<s, p>>] = disk[<<s, p>>], requeued \subseteq requeued',
             \A t \in Sides : pend[t] \cup cap[t] \subseteq pend'[t] \cup cap'[t],
             p \in raw[s] => p \in raw'[s] \cup pend'[s] \/ <<p, disk[<<s, p>>]>> \in Unheard'
      PROVE  Traced(s, p)'
  <2>1. Traced(s, p)
    BY <1>1
  <2>2. Safe(disk[<<s, p>>]) => Safe(disk[<<s, p>>])'
    BY <1>0, <1>1 DEF Safe
  <2> QED
    BY <1>0, <1>1, <2>1, <2>2 DEF Traced, Told
<1>2. ASSUME NEW u \in Sides, NEW q \in Paths, Edits(u, q)
      PROVE  Traced(s, p)'
  <2>1. UserEdit(u, q) /\ UNCHANGED <<requeued, pend, cap>> /\ raw[s] \subseteq raw'[s]
    BY <1>0, <1>2 DEF Edits, UserEdit, stores, cycle
  <2>2. CASE <<s, p>> = <<u, q>>
    <3>1. CASE Watched(u)
      <4>1. q \in raw'[u]
        BY <1>0, <2>1, <3>1 DEF UserEdit
      <4> QED
        BY <2>2, <4>1 DEF Traced, Told
    <3>2. CASE ~Watched(u)
      <4>1. pc = "down" /\ u = "local"
        BY <3>2 DEF Watched, Sides
      <4>2. initial = "boot"
        BY <4>1 DEF Phased, Running, StepInitial
      <4>3. <<q, disk'[<<u, q>>]>> \in Unheard'
        BY <1>2, <4>1, <4>2 DEF Edits, Unheard
      <4> QED
        BY <2>2, <4>3 DEF Traced
    <3> QED
      BY <3>1, <3>2
  <2>3. CASE <<s, p>> # <<u, q>>
    <3>1. disk'[<<s, p>>] = disk[<<s, p>>]
      BY <2>1, <2>3, EditIs
    <3> QED
      BY <1>1, <2>1, <3>1
  <2> QED
    BY <2>2, <2>3
<1>3. CASE Tells
  <2>1. /\ UNCHANGED <<disk, requeued, cap>> /\ \A t \in Sides : pend[t] \subseteq pend'[t]
        /\ raw[s] \subseteq raw'[s] \cup pend'[s]
    BY <1>0, <1>3 DEF Tells, Notify, RequestAudit, stores, cycle
  <2> QED
    BY <1>1, <2>1
<1>4. CASE LosesEvents
  <2>1. /\ UNCHANGED <<disk, requeued, cap>> /\ \A t \in Sides : pend[t] \subseteq pend'[t]
        /\ s # "remote" => raw'[s] = raw[s]
        /\ blind' = blind \cup Unrecorded("remote")
    BY <1>0, <1>4 DEF LosesEvents, Overflow, stores, cycle
  <2>2. p \in raw["remote"] => <<p, disk[<<"remote", p>>]>> \in Unheard'
    BY <2>1 DEF Unrecorded, Unheard
  <2> QED
    BY <1>1, <2>1, <2>2
<1>5. CASE Dies
  <2>1. /\ UNCHANGED <<disk, requeued>> /\ \A t \in Sides : pend'[t] = pend[t] \cup cap[t]
        /\ s # "local" => raw'[s] = raw[s]
        /\ blind' = blind \cup Unrecorded("local")
    BY <1>0, <1>5 DEF Dies, Crash, Reset, Forget, stores
  <2>2. p \in raw["local"] => <<p, disk[<<"local", p>>]>> \in Unheard'
    BY <2>1 DEF Unrecorded, Unheard
  <2> QED
    BY <1>1, <2>1, <2>2
<1>6. CASE Ends
  <2>1. UNCHANGED <<disk, requeued, raw>> /\ \A t \in Sides : pend'[t] = pend[t] \cup cap[t]
    BY <1>6 DEF Ends, GivesUp, Reset, Forget
  <2> QED
    BY <1>1, <2>1
<1>7. CASE Own
  <2>1. UNCHANGED <<disk, raw>> /\ requeued \subseteq requeued'
    BY <1>7 DEF Own, Begin, Scan, PlanBulk, Verify, Seed, RefreshSeeded, EndBulk, stores
  <2>2. \A t \in Sides : pend[t] \cup cap[t] \subseteq pend'[t] \cup cap'[t]
    <3>1. CASE Begin \/ (\E u \in Sides : Scan(u)) \/ PlanBulk \/ Verify \/ Seed \/ RefreshSeeded
      BY <3>1 DEF Begin, Scan, PlanBulk, Verify, Seed, RefreshSeeded, cycle
    <3>2. CASE EndBulk
      BY <3>2 DEF EndBulk, Reset, Forget
    <3> QED
      BY <1>7, <3>1, <3>2 DEF Own
  <2> QED
    BY <1>1, <2>1, <2>2
<1>8. CASE Bulks
  <2>1. UNCHANGED <<requeued, pend, cap>>
    BY <1>8 DEF Bulks, PreflightPasses, CopyPasses, Install, stores, cycle
  <2>2. CASE PreflightPasses \/ CopyPasses
    <3>1. UNCHANGED <<disk, raw>>
      BY <2>2 DEF PreflightPasses, CopyPasses
    <3> QED
      BY <1>1, <2>1, <3>1
  <2>3. ASSUME NEW q \in Paths, Install(q)
        PROVE  Traced(s, p)'
    <3>1. /\ raw[s] \subseteq raw'[s]
          /\ disk'[<<s, p>>] # disk[<<s, p>>] => p \in raw'[s]
      BY <2>3, InstallTraced
    <3>2. CASE disk'[<<s, p>>] # disk[<<s, p>>]
      BY <3>1, <3>2 DEF Traced, Told
    <3>3. CASE disk'[<<s, p>>] = disk[<<s, p>>]
      BY <1>1, <2>1, <3>1, <3>3
    <3> QED
      BY <3>2, <3>3
  <2> QED
    BY <1>8, <2>2, <2>3 DEF Bulks
<1> QED
  BY <1>2, <1>3, <1>4, <1>5, <1>6, <1>7, <1>8 DEF Aside

\* What a commit is about was the base, nothing, or kept, on both sides.
LEMMA CommittedIsSafe ==
    ASSUME Types, SharedIsKept, BasesSafe, Cycling, Vetted, Replaying, Commit,
           NEW p \in Paths \ changed, plan[p] # "idle", NEW s \in Sides
    PROVE  seen[<<s, p>>] \in kept' \cup raced' \cup {Missing}
<1>0. /\ pc = "commit" /\ Executing /\ stage = 5 /\ p \in Paths
      /\ Decided(p) /\ Safe(base[p]) /\ Safe(Missing)
      /\ plan[p] \in {"none", "update-base", "conflict", "push", "pull", "delete-local", "delete-remote"}
  BY DEF Commit, Cycling, Worked, Decisions, Executing, BasesSafe, Safe, Types, CycleTypes,
     Transfers, Deletions
<1>1. /\ kept' = kept \cup {v \in Versions : \E q \in Paths \ changed : \E t \in Sides :
                               plan[q] = "conflict" /\ seen[<<t, q>>] = v}
      /\ raced' = raced
  BY DEF Commit
<1>2. seen[<<s, p>>] \in Versions \cup {Missing}
  BY <1>0 DEF Types, DiskTypes, Contents
<1>3. CASE plan[p] = "conflict"
  BY <1>1, <1>2, <1>3
<1>4. CASE plan[p] \in {"none", "delete-local", "delete-remote"}
  <2>1. seen[<<s, p>>] \in {base[p], Missing}
    BY <1>0, <1>4 DEF Decided, Sides
  <2> QED
    BY <1>0, <1>1, <2>1 DEF Safe
<1>5. CASE plan[p] = "update-base"
  <2>1. seen[<<"local", p>>] = seen[<<"remote", p>>]
    BY <1>0, <1>5 DEF Decided
  <2>2. seen[<<"local", p>>] \in kept \cup {Missing}
    BY <1>0, <2>1 DEF SharedIsKept
  <2>3. seen[<<s, p>>] = seen[<<"local", p>>]
    BY <2>1 DEF Sides
  <2> QED
    BY <1>1, <2>2, <2>3
<1>6. CASE plan[p] \in {"push", "pull"}
  <2>1. \E n \in 1..2 : n < stage /\ plan[p] = Stages[n]
    <3>1. CASE plan[p] = "push"
      BY <1>0, <3>1 DEF Stages
    <3>2. CASE plan[p] = "pull"
      BY <1>0, <3>2 DEF Stages
    <3> QED
      BY <1>6, <3>1, <3>2
  <2>2. seen[<<Source(plan[p]), p>>] \in kept
    BY <1>0, <1>6, <2>1 DEF Vetted, Transfers
  <2>3. s = Source(plan[p]) \/ seen[<<s, p>>] \in {base[p], Missing}
    BY <1>0, <1>6 DEF Decided, Source, Destination, Other, Sides
  <2> QED
    BY <1>0, <1>1, <2>2, <2>3 DEF Safe
<1> QED
  BY <1>0, <1>3, <1>4, <1>5, <1>6

\* A commit forgets no edit but those of entries that are safe.
LEMMA CommitTraces ==
    ASSUME Types, SharedIsKept, BasesSafe, Cycling, Vetted, SeenTraced, EchoTraced, StepInitial,
           Replaying, Commit, UNCHANGED <<blind, offline>>,
           NEW s \in Sides, NEW p \in Paths, Traced(s, p)
    PROVE  Traced(s, p)'
<1>0. /\ pc = "commit" /\ Executing /\ Scanned(s) /\ UNCHANGED <<disk, raw>>
      /\ kept \subseteq kept' /\ raced' = raced /\ Unheard' = Unheard
  BY DEF Commit, Executing, Scanned, Unheard
<1>1. /\ requeued' = (requeued \cup changed) \ Clearable
      /\ \A t \in Sides : pend[t] \subseteq pend'[t] /\ (changed # {} => cap[t] \subseteq pend'[t])
  BY DEF Commit, Forget
<1>2. p \in changed => p \in requeued'
  BY <1>1 DEF Clearable
<1>3. CASE disk[<<s, p>>] # seen[<<s, p>>]
  <2>1. p \in raw[s] \cup pend[s] \/ <<p, disk[<<s, p>>]>> \in Unheard
    BY <1>0, <1>3 DEF SeenTraced
  <2> QED
    BY <1>0, <1>1, <2>1 DEF Traced, Told
<1>4. CASE Safe(disk[<<s, p>>]) \/ <<p, disk[<<s, p>>]>> \in Unheard \/ p \in raw[s] \cup pend[s]
  BY <1>0, <1>1, <1>4 DEF Traced, Told, Safe
<1>5. CASE p \in changed
  <2>1. Told(s, p) => Told(s, p)'
    BY <1>0, <1>1, <1>2, <1>5 DEF Told
  <2> QED
    BY <1>4, <2>1 DEF Traced
<1>6. CASE p \notin changed /\ plan[p] # "idle" /\ disk[<<s, p>>] = seen[<<s, p>>]
  <2>1. seen[<<s, p>>] \in kept' \cup raced' \cup {Missing}
    BY <1>6, CommittedIsSafe
  <2> QED
    BY <1>0, <1>6, <2>1 DEF Traced, Safe
<1>7. CASE plan[p] = "idle" /\ disk[<<s, p>>] = seen[<<s, p>>] /\ p \in cap[s] \cup requeued
  <2>1. p \notin requeued /\ p \in cap[s] \ {Rescan}
    BY <1>0, <1>7, ConstantsAssumption DEF Cycling, Echoed
  <2>2. <<s, p>> \in matched /\ <<s, p>>[2] = p
    BY <1>0, <1>7, <2>1 DEF Cycling, Echoed
  <2>3. echo[<<s, p>>] = seen[<<s, p>>]
    BY <1>0, <1>7, <2>2 DEF Cycling, Echoed
  <2>4. ~AtWork(s, p)
    BY <1>7 DEF AtWork, Transfers, Deletions
  <2>5. Safe(disk[<<s, p>>]) \/ <<p, disk[<<s, p>>]>> \in Unheard
    BY <1>7, <2>1, <2>3, <2>4 DEF EchoTraced
  <2> QED
    BY <1>4, <2>5
<1> QED
  BY <1>3, <1>4, <1>5, <1>6, <1>7 DEF Traced, Told

\* Neither does a cycle that only recognises echoes.
LEMMA EchoesTrace ==
    ASSUME Types, SeenTraced, EchoTraced, Replaying, CommitEchoes, UNCHANGED <<blind, offline>>,
           NEW s \in Sides, NEW p \in Paths, Traced(s, p)
    PROVE  Traced(s, p)'
<1>0. /\ pc = "plan" /\ Scanned(s) /\ UNCHANGED <<disk, raw, kept, raced, pend>> /\ Unheard' = Unheard
      /\ Dirty = {} /\ ~Executing /\ ~Bulking
  BY DEF CommitEchoes, Executing, Scanned, Unheard, Reset, Forget, Replaying, Bulking
<1>1. CASE disk[<<s, p>>] # seen[<<s, p>>]
  <2>1. p \in raw[s] \cup pend[s] \/ <<p, disk[<<s, p>>]>> \in Unheard
    BY <1>0, <1>1 DEF SeenTraced
  <2> QED
    BY <1>0, <2>1 DEF Traced, Told
<1>2. CASE Safe(disk[<<s, p>>]) \/ <<p, disk[<<s, p>>]>> \in Unheard \/ p \in raw[s] \cup pend[s]
  BY <1>0, <1>2 DEF Traced, Told, Safe
<1>3. CASE disk[<<s, p>>] = seen[<<s, p>>] /\ p \in cap[s] \cup requeued
  <2>1. p \notin requeued
    BY <1>0 DEF Dirty
  <2>2. <<s, p>> \in MatchedEchoes
    BY <1>0, <1>3, <2>1 DEF Dirty
  <2>3. echo[<<s, p>>] = seen[<<s, p>>]
    BY <2>2 DEF MatchedEchoes
  <2>4. ~AtWork(s, p)
    BY <1>0 DEF AtWork
  <2>5. Safe(disk[<<s, p>>]) \/ <<p, disk[<<s, p>>]>> \in Unheard
    BY <1>3, <2>1, <2>3, <2>4 DEF EchoTraced
  <2> QED
    BY <1>2, <2>5
<1> QED
  BY <1>1, <1>2, <1>3 DEF Traced, Told

\* A step of the replay loses track of no edit.
LEMMA ReplayTraces ==
    ASSUME Types, SharedIsKept, BasesSafe, Phased, Cycling, Vetted, SeenTraced, EchoTraced,
           StepInitial, Replays,
           NEW s \in Sides, NEW p \in Paths, Traced(s, p)
    PROVE  Traced(s, p)'
<1>0. /\ raw \in [Sides -> SUBSET Paths] /\ pend \in [Sides -> SUBSET (Paths \cup {Rescan})]
      /\ cap \in [Sides -> SUBSET (Paths \cup {Rescan})] /\ Replaying /\ UNCHANGED <<blind, offline>>
      /\ kept \subseteq kept' /\ raced \subseteq raced' /\ Unheard \subseteq Unheard'
  BY HistoryGrows DEF Types, JournalTypes, Replays, Apart
<1>1. ASSUME disk'[<<s, p>>] = disk[<<s, p>>], requeued \subseteq requeued',
             \A t \in Sides : pend[t] \cup cap[t] \subseteq pend'[t] \cup cap'[t],
             p \in raw[s] => p \in raw'[s]
      PROVE  Traced(s, p)'
  <2>1. Safe(disk[<<s, p>>]) => Safe(disk[<<s, p>>])'
    BY <1>0, <1>1 DEF Safe
  <2> QED
    BY <1>0, <1>1, <2>1 DEF Traced, Told
<1>2. CASE CaptureAnd({}) \/ AuditDrift \/ Observe \/ StartPlan \/ PreflightPasses \/ CopyPasses
           \/ PostflightPasses \/ RehashPasses \/ VerifyPasses \/ PrepareConflicts \/ UNCHANGED vars
  <2>1. UNCHANGED <<disk, raw>> /\ requeued \subseteq requeued'
    BY <1>2 DEF CaptureAnd, AuditDrift, Observe, StartPlan, PreflightPasses, CopyPasses,
       PostflightPasses,
       RehashPasses, VerifyPasses, PrepareConflicts, vars, stores
  <2>2. \A t \in Sides : pend[t] \cup cap[t] \subseteq pend'[t] \cup cap'[t]
    <3>1. CASE CaptureAnd({})
      <4>1. pc = "idle" /\ pend \in [Sides -> SUBSET (Paths \cup {Rescan})] /\ cap' = pend
        BY <1>0, <3>1 DEF CaptureAnd
      <4>2. \A t \in Sides : cap[t] = {}
        BY <1>0, <4>1 DEF Cycling, Taking
      <4> QED
        BY <4>1, <4>2
    <3>2. CASE UNCHANGED <<pend, cap>>
      BY <3>2
    <3> QED
      BY <1>2, <3>1, <3>2 DEF AuditDrift, Observe, StartPlan, PreflightPasses, CopyPasses,
         PostflightPasses,
         RehashPasses, VerifyPasses, PrepareConflicts, vars, cycle
  <2> QED
    BY <1>1, <2>1, <2>2
<1>3. CASE \E q \in Paths : Install(q) \/ Remove(q)
  <2>1. PICK q \in Paths : Install(q) \/ Remove(q)
    BY <1>3
  <2>2. UNCHANGED <<requeued, pend, cap>>
    BY <2>1 DEF Install, Remove, stores
  <2>3. /\ raw[s] \subseteq raw'[s]
        /\ disk'[<<s, p>>] # disk[<<s, p>>] => p \in raw'[s]
    BY <2>1, InstallTraced, RemoveTraced
  <2>4. CASE disk'[<<s, p>>] # disk[<<s, p>>]
    BY <2>3, <2>4 DEF Traced, Told
  <2>5. CASE disk'[<<s, p>>] = disk[<<s, p>>]
    BY <1>1, <2>2, <2>3, <2>5
  <2> QED
    BY <2>4, <2>5
<1>4. CASE Refresh
  <2>1. UNCHANGED <<disk, raw, pend>> /\ requeued \subseteq requeued' /\ pc = "refresh"
    BY <1>4 DEF Refresh, Reset, Forget
  <2>2. \A t \in Sides : cap[t] = {}
    BY <1>0, <2>1 DEF Cycling, Taking
  <2> QED
    BY <1>1, <2>1, <2>2
<1> QED
  BY <1>0, <1>2, <1>3, <1>4, CommitTraces, EchoesTrace DEF Replays, GoesOn

\* What an echo explains was seen, is safe, or the engine is at work on it.
LEMMA EchoSeenKept ==
    ASSUME Types, CoordinatorTypes, Phased, EchoNumbered, BulkPlanned, Cycling, EchoSeen,
           StepInitial
    PROVE  EchoSeen'
<1> SUFFICES ASSUME NEW t \in Sides, NEW q \in Paths, Scanned(t)',
                    disk'[<<t, q>>] = echo'[<<t, q>>]
             PROVE  Safe(disk[<<t, q>>])' \/ disk'[<<t, q>>] = seen'[<<t, q>>] \/ AtWork(t, q)'
  BY DEF EchoSeen
<1>0. /\ Scanned(t)' /\ disk'[<<t, q>>] = echo'[<<t, q>>] /\ t \in Sides /\ q \in Paths
      /\ \A k \in Sides \X Paths : echo[k] = NoEcho \/ echo[k] \in Contents
      /\ disk'[<<t, q>>] \in Contents /\ echo'[<<t, q>>] # NoEcho
  BY InitialDiskTypesKept, ConstantsAssumption DEF Types, DiskTypes, CycleTypes
<1>01. Safe(disk[<<t, q>>]) /\ disk'[<<t, q>>] = disk[<<t, q>>] => Safe(disk[<<t, q>>])'
  BY HistoryGrows DEF Safe
<1>1. ASSUME NEW s \in Sides, NEW p \in Paths, Edits(s, p)
      PROVE  Safe(disk[<<t, q>>])' \/ disk'[<<t, q>>] = seen'[<<t, q>>] \/ AtWork(t, q)'
  <2>1. /\ UserEdit(s, p) /\ UNCHANGED <<initial, pc, echo, seen, plan>>
    BY <1>1 DEF Edits, UserEdit, stores, cycle
  <2>2. Scanned(t) /\ (AtWork(t, q) => AtWork(t, q)')
    BY <1>0, <2>1 DEF Scanned, AtWork, Bulking, Replaying, Executing
  <2>3. CASE <<t, q>> = <<s, p>>
    <3>1. echo[<<t, q>>] \in Contents /\ echo[<<t, q>>] <= edits
      BY <1>0, <2>1 DEF EchoNumbered
    <3>2. disk'[<<s, p>>] = echo[<<t, q>>]
      BY <1>0, <2>1, <2>3
    <3>3. echo[<<t, q>>] = Missing
      BY <2>1, <3>1, <3>2, EditIsNew
    <3> QED
      BY <2>3, <3>2, <3>3 DEF Safe
  <2>4. CASE <<t, q>> # <<s, p>>
    <3>1. disk'[<<t, q>>] = disk[<<t, q>>]
      BY <2>1, <2>4, EditIs
    <3> QED
      BY <1>0, <1>01, <2>1, <2>2, <3>1 DEF EchoSeen
  <2> QED
    BY <2>3, <2>4
<1>2. CASE Tells \/ LosesEvents \/ Verify \/ RefreshSeeded
  <2>1. /\ UNCHANGED <<echo, seen, plan, disk>> /\ requeued \subseteq requeued'
        /\ (initial' = initial /\ pc' = pc) \/ (Bulking /\ Bulking')
    BY <1>2 DEF Tells, Notify, RequestAudit, LosesEvents, Overflow, Verify, RefreshSeeded,
       stores, cycle, Bulking
  <2>3. Scanned(t) /\ (AtWork(t, q) => AtWork(t, q)')
    BY <1>0, <2>1 DEF Scanned, AtWork, Bulking, Replaying, Executing
  <2> QED
    BY <1>0, <1>01, <2>1, <2>3 DEF EchoSeen
<1>3. CASE Dies \/ Ends \/ Begin \/ EndBulk
  <2>1. ~Scanned(t)'
    BY <1>3 DEF Scanned, Dies, Ends, Begin, EndBulk, Running, Replaying, Bulking, Phased,
       Executing
  <2> QED
    BY <1>0, <2>1
<1>4. ASSUME NEW s \in Sides, Scan(s)
      PROVE  Safe(disk[<<t, q>>])' \/ disk'[<<t, q>>] = seen'[<<t, q>>] \/ AtWork(t, q)'
  <2>1. /\ UNCHANGED <<disk, echo, plan>> /\ initial = (IF s = "local" THEN "scan" ELSE "snapshot")
        /\ initial' = (IF s = "local" THEN "snapshot" ELSE "plan")
        /\ seen' = [k \in Sides \X Paths |-> IF k[1] = s THEN disk[k] ELSE seen[k]]
    BY <1>4 DEF Scan, stores
  <2>2. CASE t = s
    BY <2>1, <2>2
  <2>3. CASE t # s
    <3>1. seen'[<<t, q>>] = seen[<<t, q>>]
      BY <2>1, <2>3
    <3>2. Scanned(t) /\ ~AtWork(t, q)
      BY <1>0, <2>1, <2>3 DEF Scanned, Bulking, Replaying, AtWork, Sides
    <3> QED
      BY <1>0, <1>01, <2>1, <3>1, <3>2 DEF EchoSeen
  <2> QED
    BY <2>2, <2>3
<1>5. CASE PlanBulk
  <2>1. initial = "plan" /\ UNCHANGED <<disk, seen, echo>>
    BY <1>5 DEF PlanBulk
  <2>2. Scanned(t) /\ ~AtWork(t, q)
    BY <2>1 DEF Scanned, AtWork, Bulking, Replaying
  <2> QED
    BY <1>0, <1>01, <2>1, <2>2 DEF EchoSeen
<1>6. CASE Bulks
  <2>1. initial = "bulk" /\ UNCHANGED <<initial, seen, echo, plan>>
    BY <1>6 DEF Bulks, PreflightPasses, CopyPasses, Install, stores, cycle
  <2>2. Scanned(t) /\ (AtWork(t, q) => AtWork(t, q)')
    BY <2>1 DEF Scanned, AtWork, Bulking
  <2>3. CASE disk'[<<t, q>>] = disk[<<t, q>>]
    BY <1>0, <1>01, <2>1, <2>2, <2>3 DEF EchoSeen
  <2>4. CASE disk'[<<t, q>>] # disk[<<t, q>>]
    <3>1. PICK p \in Paths : Install(p)
      BY <1>6, <2>4 DEF Bulks, PreflightPasses, CopyPasses
    <3>2. p = q /\ t = Destination(plan[p]) /\ p \in Active
      BY <2>4, <3>1, InstallTraced DEF Install
    <3>3. plan[q] \in Transfers
      BY <2>1, <3>2 DEF BulkPlanned, Bulking, Active, Batch, Stages, Transfers
    <3> QED
      BY <2>1, <3>2, <3>3 DEF AtWork, Bulking
  <2> QED
    BY <2>3, <2>4
<1>7. CASE Seed
  <2>1. PICK verified \in SUBSET installed :
           /\ echo' = [k \in Sides \X Paths |->
                         IF k[2] \in verified /\ k[1] = Destination(plan[k[2]])
                         THEN seen[<<Source(plan[k[2]]), k[2]>>] ELSE echo[k]]
    BY <1>7 DEF Seed
  <2>2. UNCHANGED <<initial, disk, seen, plan>> /\ Bulking
    BY <1>7 DEF Seed, Bulking
  <2>3. Scanned(t) /\ (AtWork(t, q) => AtWork(t, q)')
    BY <2>2 DEF Scanned, AtWork, Bulking
  <2>4. CASE echo'[<<t, q>>] = echo[<<t, q>>]
    BY <1>0, <1>01, <2>2, <2>3, <2>4 DEF EchoSeen
  <2>5. CASE echo'[<<t, q>>] # echo[<<t, q>>]
    <3>1. q \in verified /\ t = Destination(plan[q])
      BY <2>1, <2>5
    <3>2. q \in Active
      BY <2>1, <2>2, <3>1 DEF BulkPlanned
    <3>3. plan[q] \in Transfers
      BY <2>2, <3>2 DEF BulkPlanned, Active, Batch, Stages, Transfers
    <3> QED
      BY <2>2, <3>1, <3>3 DEF AtWork, Bulking
  <2> QED
    BY <2>4, <2>5
<1>8. CASE Replays
  <2>0. Replaying /\ Replaying' /\ (pc' = "plan" \/ Executing')
    BY <1>0, <1>8 DEF Replays, Scanned, Replaying, Bulking, Executing
  <2>1. CASE CaptureAnd({}) \/ AuditDrift \/ CommitEchoes \/ Commit \/ Refresh \/ (pc = "idle" /\ UNCHANGED vars)
    BY <2>0, <2>1 DEF CaptureAnd, AuditDrift, CommitEchoes, Commit, Refresh, Executing, vars
  <2>2. CASE Observe
    BY <2>2 DEF Observe
  <2>3. CASE StartPlan
    <3>1. /\ pc = "plan" /\ UNCHANGED <<disk, seen>> /\ Executing'
          /\ echo' = [k \in Sides \X Paths |->
                      IF k \in Intents(plan') THEN Expected(plan'[k[2]], k[2]) ELSE echo[k]]
      BY <2>3 DEF StartPlan, Executing
    <3>2. Scanned(t) /\ ~AtWork(t, q)
      BY <2>0, <3>1 DEF Scanned, AtWork, Bulking, Replaying, Executing
    <3>3. CASE <<t, q>> \in Intents(plan')
      <4>1. plan'[q] \in Transfers \cup Deletions /\ t = Destination(plan'[q])
        BY <3>3 DEF Intents
      <4> QED
        BY <2>0, <3>1, <4>1 DEF AtWork
    <3>4. CASE <<t, q>> \notin Intents(plan')
      <4>1. echo'[<<t, q>>] = echo[<<t, q>>]
        BY <3>1, <3>4
      <4> QED
        BY <1>0, <1>01, <3>1, <3>2, <4>1 DEF EchoSeen
    <3> QED
      BY <3>3, <3>4
  <2>4. CASE PreflightPasses \/ CopyPasses \/ PostflightPasses \/ RehashPasses \/ VerifyPasses \/ PrepareConflicts
    <3>1. UNCHANGED <<disk, seen, echo, plan>> /\ Executing /\ Executing'
      BY <2>4 DEF PreflightPasses, CopyPasses, PostflightPasses, RehashPasses, VerifyPasses,
         PrepareConflicts,
         Executing, stores, cycle
    <3>2. Scanned(t) /\ (AtWork(t, q) => AtWork(t, q)')
      BY <2>0, <3>1 DEF Scanned, AtWork
    <3> QED
      BY <1>0, <1>01, <3>1, <3>2 DEF EchoSeen
  <2>5. ASSUME NEW p \in Paths, Install(p) \/ Remove(p)
        PROVE  Safe(disk[<<t, q>>])' \/ disk'[<<t, q>>] = seen'[<<t, q>>] \/ AtWork(t, q)'
    <3>1. UNCHANGED <<seen, echo, plan>> /\ Executing /\ Executing' /\ p \in Active
      BY <2>5 DEF Install, Remove, Executing, stores
    <3>2. Scanned(t) /\ (AtWork(t, q) => AtWork(t, q)')
      BY <2>0, <3>1 DEF Scanned, AtWork
    <3>3. CASE disk'[<<t, q>>] = disk[<<t, q>>]
      BY <1>0, <1>01, <3>1, <3>2, <3>3 DEF EchoSeen
    <3>4. CASE disk'[<<t, q>>] # disk[<<t, q>>]
      <4>1. p = q /\ t = Destination(plan[p])
        BY <2>5, <3>4, InstallTraced, RemoveTraced
      <4>2. stage \in {1, 2, 3, 4}
        BY <2>0, <2>5 DEF Install, Remove, Cycling, Transfer
      <4>3. plan[q] \in Transfers \cup Deletions
        BY <3>1, <4>1, <4>2 DEF Active, Batch, Stages, Transfers, Deletions
      <4> QED
        BY <2>0, <3>1, <4>1, <4>3 DEF AtWork
    <3> QED
      BY <3>3, <3>4
  <2> QED
    BY <1>8, <2>1, <2>2, <2>3, <2>4, <2>5 DEF Replays, GoesOn
<1> QED
  BY <1>1, <1>2, <1>3, <1>4, <1>5, <1>6, <1>7, <1>8 DEF StepInitial

\* What an echo explains is safe, or was never heard of, unless its path is requeued
\* or the engine is at work on it.
LEMMA EchoTracedKept ==
    ASSUME Types, CoordinatorTypes, Phased, SharedIsKept, BasesSafe, EchoNumbered, BulkPlanned,
           Cycling, Vetted, Seeding, SeenTraced, AllTraced, EchoSeen, EchoTraced, StepInitial
    PROVE  EchoTraced'
<1> SUFFICES ASSUME NEW t \in Sides, NEW q \in Paths, Bulking' \/ Replaying',
                    disk'[<<t, q>>] = echo'[<<t, q>>]
             PROVE  \/ Safe(disk[<<t, q>>])' \/ <<q, disk'[<<t, q>>]>> \in Unheard' \/ q \in requeued' \/ AtWork(t, q)'
  BY DEF EchoTraced
<1>0. /\ (Bulking' \/ Replaying') /\ disk'[<<t, q>>] = echo'[<<t, q>>] /\ t \in Sides /\ q \in Paths
      /\ \A k \in Sides \X Paths : echo[k] = NoEcho \/ echo[k] \in Contents
      /\ disk'[<<t, q>>] \in Contents /\ echo'[<<t, q>>] # NoEcho
  BY InitialDiskTypesKept, ConstantsAssumption DEF Types, DiskTypes, CycleTypes
<1>01. /\ Safe(disk[<<t, q>>]) /\ disk'[<<t, q>>] = disk[<<t, q>>] => Safe(disk[<<t, q>>])'
       /\ Unheard \subseteq Unheard'
  BY HistoryGrows DEF Safe
<1>02. <<q, disk[<<t, q>>]>> \in Unheard => <<q, disk[<<t, q>>]>> \in Unheard'
  BY <1>01
<1>03. disk'[<<t, q>>] = after[q] => Safe(disk[<<t, q>>])'
  BY HistoryGrows DEF Safe, BasesSafe
<1>1. ASSUME NEW s \in Sides, NEW p \in Paths, Edits(s, p)
      PROVE  \/ Safe(disk[<<t, q>>])' \/ <<q, disk'[<<t, q>>]>> \in Unheard' \/ q \in requeued' \/ AtWork(t, q)'
  <2>1. /\ UserEdit(s, p) /\ UNCHANGED <<initial, pc, echo, seen, plan, requeued>>
    BY <1>1 DEF Edits, UserEdit, stores, cycle
  <2>2. (Bulking \/ Replaying) /\ (AtWork(t, q) => AtWork(t, q)')
    BY <1>0, <2>1 DEF AtWork, Bulking, Replaying, Executing
  <2>3. CASE <<t, q>> = <<s, p>>
    <3>1. echo[<<t, q>>] \in Contents /\ echo[<<t, q>>] <= edits
      BY <1>0, <2>1 DEF EchoNumbered
    <3>2. disk'[<<s, p>>] = echo[<<t, q>>]
      BY <1>0, <2>1, <2>3
    <3>3. echo[<<t, q>>] = Missing
      BY <2>1, <3>1, <3>2, EditIsNew
    <3> QED
      BY <2>3, <3>2, <3>3 DEF Safe
  <2>4. CASE <<t, q>> # <<s, p>>
    <3>1. disk'[<<t, q>>] = disk[<<t, q>>]
      BY <2>1, <2>4, EditIs
    <3> QED
      BY <1>0, <1>01, <2>1, <2>2, <3>1 DEF EchoTraced
  <2> QED
    BY <2>3, <2>4
<1>2. CASE Tells \/ LosesEvents \/ Verify \/ RefreshSeeded
  <2>1. /\ UNCHANGED <<echo, seen, plan, disk>> /\ requeued \subseteq requeued'
        /\ (initial' = initial /\ pc' = pc) \/ (Bulking /\ Bulking')
    BY <1>2 DEF Tells, Notify, RequestAudit, LosesEvents, Overflow, Verify, RefreshSeeded,
       stores, cycle, Bulking
  <2>3. (Bulking \/ Replaying) /\ (AtWork(t, q) => AtWork(t, q)')
    BY <1>0, <2>1 DEF AtWork, Bulking, Replaying, Executing
  <2> QED
    BY <1>0, <1>01, <2>1, <2>3 DEF EchoTraced
<1>3. CASE Dies \/ Ends \/ Begin
  <2>1. ~Bulking' /\ ~Replaying'
    BY <1>3 DEF Dies, Ends, Begin, Running, Replaying, Bulking
  <2> QED
    BY <1>0, <2>1
<1>4. ASSUME NEW s \in Sides, Scan(s)
      PROVE  \/ Safe(disk[<<t, q>>])' \/ <<q, disk'[<<t, q>>]>> \in Unheard' \/ q \in requeued' \/ AtWork(t, q)'
  <2>1. ~Bulking' /\ ~Replaying'
    BY <1>4 DEF Scan, Replaying, Bulking
  <2> QED
    BY <1>0, <2>1
<1>5. CASE PlanBulk
  <2>1. PICK s \in Sides : PlansFrom(s)
    BY <1>5, PlansFromASide
  <2>2. /\ initial = "plan" /\ UNCHANGED <<disk, seen, echo>> /\ requeued' = requeued \cup Noticed
        /\ blind' = blind \cup UNION {{e \in Unrecorded(u) : seen[<<u, e[1]>>] = e[2]} : u \in Sides}
    BY <2>1 DEF PlansFrom
  <2>3. Scanned(t) /\ ~AtWork(t, q) /\ Trusted(t)
    BY <1>0, <2>2 DEF Scanned, AtWork, Bulking, Replaying, Trusted
  <2>4. Traced(t, q)
    BY <2>3 DEF AllTraced
  <2>5. Safe(disk[<<t, q>>]) \/ disk[<<t, q>>] = seen[<<t, q>>]
    BY <1>0, <2>2, <2>3 DEF EchoSeen
  <2>6. CASE q \in raw[t] /\ disk[<<t, q>>] = seen[<<t, q>>]
    <3>1. <<q, disk[<<t, q>>]>> \in Unrecorded(t)
      BY <2>6 DEF Unrecorded
    <3>2. <<q, disk[<<t, q>>]>> \in {e \in Unrecorded(t) : seen[<<t, e[1]>>] = e[2]}
      BY <2>6, <3>1
    <3> QED
      BY <2>2, <3>2 DEF Unheard
  <2>7. CASE q \in pend["local"] \cup pend["remote"]
    BY <2>2, <2>7 DEF Noticed
  <2>8. \A u \in Sides : cap[u] = {}
    BY <2>2 DEF Phased, Replaying
  <2>9. Told(t, q) => q \in raw[t] \/ q \in pend["local"] \cup pend["remote"]
    BY <2>8 DEF Told, Sides
  <2> QED
    BY <1>01, <1>02, <2>2, <2>4, <2>5, <2>6, <2>7, <2>9 DEF Traced
<1>6. CASE Bulks
  <2>1. initial = "bulk" /\ UNCHANGED <<initial, seen, echo, plan, requeued>>
    BY <1>6 DEF Bulks, PreflightPasses, CopyPasses, Install, stores, cycle
  <2>2. (Bulking \/ Replaying) /\ (AtWork(t, q) => AtWork(t, q)')
    BY <2>1 DEF AtWork, Bulking
  <2>3. CASE disk'[<<t, q>>] = disk[<<t, q>>]
    BY <1>0, <1>01, <2>1, <2>2, <2>3 DEF EchoTraced
  <2>4. CASE disk'[<<t, q>>] # disk[<<t, q>>]
    <3>1. PICK p \in Paths : Install(p)
      BY <1>6, <2>4 DEF Bulks, PreflightPasses, CopyPasses
    <3>2. p = q /\ t = Destination(plan[p]) /\ p \in Active
      BY <2>4, <3>1, InstallTraced DEF Install
    <3>3. plan[q] \in Transfers
      BY <2>1, <3>2 DEF BulkPlanned, Bulking, Active, Batch, Stages, Transfers
    <3> QED
      BY <2>1, <3>2, <3>3 DEF AtWork, Bulking
  <2> QED
    BY <2>3, <2>4
<1>7. CASE Seed
  <2>1. PICK verified \in SUBSET installed :
           /\ echo' = [k \in Sides \X Paths |->
                         IF k[2] \in verified /\ k[1] = Destination(plan[k[2]])
                         THEN seen[<<Source(plan[k[2]]), k[2]>>] ELSE echo[k]]
    BY <1>7 DEF Seed
  <2>2. UNCHANGED <<initial, disk, seen, plan, requeued>> /\ Bulking
    BY <1>7 DEF Seed, Bulking
  <2>3. (Bulking \/ Replaying) /\ (AtWork(t, q) => AtWork(t, q)')
    BY <2>2 DEF AtWork, Bulking
  <2>4. CASE echo'[<<t, q>>] = echo[<<t, q>>]
    BY <1>0, <1>01, <2>2, <2>3, <2>4 DEF EchoTraced
  <2>5. CASE echo'[<<t, q>>] # echo[<<t, q>>]
    <3>1. q \in verified /\ t = Destination(plan[q])
      BY <2>1, <2>5
    <3>2. q \in Active
      BY <2>1, <2>2, <3>1 DEF BulkPlanned
    <3>3. plan[q] \in Transfers
      BY <2>2, <3>2 DEF BulkPlanned, Active, Batch, Stages, Transfers
    <3> QED
      BY <2>2, <3>1, <3>3 DEF AtWork, Bulking
  <2> QED
    BY <2>4, <2>5
<1>8. CASE EndBulk
  <2>1. /\ initial = "seed" /\ installed = {} /\ UNCHANGED <<disk, echo>> /\ requeued' = requeued \cup changed
    BY <1>8 DEF EndBulk
  <2>2. Bulking
    BY <2>1 DEF Bulking
  <2>3. CASE ~AtWork(t, q)
    BY <1>0, <1>01, <2>1, <2>2, <2>3 DEF EchoTraced
  <2>4. CASE AtWork(t, q) /\ q \notin changed
    <3>1. q \in Active /\ t = Destination(plan[q])
      BY <2>2, <2>4 DEF BulkPlanned, AtWork, Active, Batch, Transfers, Deletions
    <3>2. echo[<<t, q>>] \in kept
      BY <2>1, <2>4, <3>1 DEF Seeding
    <3> QED
      BY <1>0, <1>01, <2>1, <3>2 DEF Safe
  <2> QED
    BY <2>1, <2>3, <2>4
<1>9. CASE Replays
  <2>0. Replaying /\ Replaying'
    BY <1>0, <1>9 DEF Replays, Replaying, Bulking
  <2>1. CASE CaptureAnd({}) \/ AuditDrift \/ Observe \/ Refresh \/ (pc = "idle" /\ UNCHANGED vars)
    <3>1. UNCHANGED <<disk, echo>> /\ requeued \subseteq requeued' /\ ~Executing
      BY <2>1 DEF CaptureAnd, AuditDrift, Observe, Refresh, Executing, vars, stores
    <3>2. ~AtWork(t, q)
      BY <2>0, <3>1 DEF AtWork, Bulking, Replaying
    <3> QED
      BY <1>0, <1>01, <2>0, <3>1, <3>2 DEF EchoTraced
  <2>2. CASE CommitEchoes
    <3>1. disk' = disk /\ requeued' = requeued /\ ~Executing /\ echo'[<<t, q>>] \in {echo[<<t, q>>], NoEcho}
      BY <2>2 DEF CommitEchoes, Consume, Executing
    <3>2. ~AtWork(t, q)
      BY <2>0, <3>1 DEF AtWork, Bulking, Replaying
    <3> QED
      BY <1>0, <1>01, <2>0, <3>1, <3>2 DEF EchoTraced
  <2>3. CASE StartPlan
    <3>1. /\ pc = "plan" /\ UNCHANGED <<disk, requeued>> /\ Executing'
          /\ echo' = [k \in Sides \X Paths |->
                      IF k \in Intents(plan') THEN Expected(plan'[k[2]], k[2]) ELSE echo[k]]
      BY <2>3 DEF StartPlan, Executing
    <3>2. ~AtWork(t, q)
      BY <2>0, <3>1 DEF AtWork, Bulking, Replaying, Executing
    <3>3. CASE <<t, q>> \in Intents(plan')
      <4>1. plan'[q] \in Transfers \cup Deletions /\ t = Destination(plan'[q])
        BY <3>3 DEF Intents
      <4> QED
        BY <2>0, <3>1, <4>1 DEF AtWork
    <3>4. CASE <<t, q>> \notin Intents(plan')
      <4>1. echo'[<<t, q>>] = echo[<<t, q>>]
        BY <3>1, <3>4
      <4> QED
        BY <1>0, <1>01, <2>0, <3>1, <3>2, <4>1 DEF EchoTraced
    <3> QED
      BY <3>3, <3>4
  <2>4. CASE PreflightPasses \/ CopyPasses \/ PostflightPasses \/ RehashPasses \/ VerifyPasses \/ PrepareConflicts
    <3>1. UNCHANGED <<disk, requeued, echo, plan>> /\ Executing /\ Executing'
      BY <2>4 DEF PreflightPasses, CopyPasses, PostflightPasses, RehashPasses, VerifyPasses,
         PrepareConflicts,
         Executing, stores, cycle
    <3>2. AtWork(t, q) => AtWork(t, q)'
      BY <2>0, <3>1 DEF AtWork
    <3> QED
      BY <1>0, <1>01, <2>0, <3>1, <3>2 DEF EchoTraced
  <2>5. ASSUME NEW p \in Paths, Install(p) \/ Remove(p)
        PROVE  \/ Safe(disk[<<t, q>>])' \/ <<q, disk'[<<t, q>>]>> \in Unheard' \/ q \in requeued' \/ AtWork(t, q)'
    <3>1. UNCHANGED <<requeued, echo, plan>> /\ Executing /\ Executing' /\ p \in Active
      BY <2>5 DEF Install, Remove, Executing, stores
    <3>2. AtWork(t, q) => AtWork(t, q)'
      BY <2>0, <3>1 DEF AtWork
    <3>3. CASE disk'[<<t, q>>] = disk[<<t, q>>]
      BY <1>0, <1>01, <2>0, <3>1, <3>2, <3>3 DEF EchoTraced
    <3>4. CASE disk'[<<t, q>>] # disk[<<t, q>>]
      <4>1. p = q /\ t = Destination(plan[p])
        BY <2>5, <3>4, InstallTraced, RemoveTraced
      <4>2. stage \in {1, 2, 3, 4}
        BY <2>0, <2>5 DEF Install, Remove, Cycling, Transfer
      <4>3. plan[q] \in Transfers \cup Deletions
        BY <3>1, <4>1, <4>2 DEF Active, Batch, Stages, Transfers, Deletions
      <4> QED
        BY <2>0, <3>1, <4>1, <4>3 DEF AtWork
    <3> QED
      BY <3>3, <3>4
  <2>6. CASE Commit
    <3>1. /\ pc = "commit" /\ Executing /\ disk' = disk /\ requeued' = (requeued \cup changed) \ Clearable
          /\ raced' = raced /\ UNCHANGED <<blind, offline>>
      BY <1>9, <2>6 DEF Commit, Executing, Replays, Apart
    <3>2. echo'[<<t, q>>] \in {echo[<<t, q>>], NoEcho, after[q]}
          /\ (<<t, q>> \in Intents(plan) /\ q \in Completed => echo'[<<t, q>>] \in {after[q], NoEcho})
      BY <2>6 DEF Commit, CommittedEchoes, Consume
    <3>3. CASE q \in changed
      BY <3>1, <3>3 DEF Clearable
    <3>4. CASE q \notin changed /\ plan[q] = "idle"
      <4>1. q \notin Completed /\ q \notin requeued /\ ~AtWork(t, q)
        BY <2>0, <3>1, <3>4 DEF Completed, Transfers, Deletions, Cycling, Echoed, AtWork
      <4>2. <<t, q>> \notin Intents(plan)
        BY <3>4 DEF Intents, Transfers, Deletions
      <4>3. echo'[<<t, q>>] \in {echo[<<t, q>>], NoEcho}
        BY <2>6, <4>2 DEF Commit, CommittedEchoes, Consume
      <4> QED
        BY <1>0, <1>01, <1>02, <2>0, <3>1, <4>1, <4>3 DEF EchoTraced
    <3>5. CASE q \notin changed /\ plan[q] # "idle" /\ disk[<<t, q>>] = seen[<<t, q>>]
      <4>1. seen[<<t, q>>] \in kept' \cup raced' \cup {Missing}
        BY <2>0, <2>6, <3>5, CommittedIsSafe
      <4> QED
        BY <3>1, <3>5, <4>1 DEF Safe
    <3>6. CASE q \notin changed /\ plan[q] # "idle" /\ disk[<<t, q>>] = echo[<<t, q>>]
               /\ disk[<<t, q>>] # seen[<<t, q>>]
      <4>1. Scanned(t)
        BY <2>0, <3>1 DEF Scanned
      <4>2. Safe(disk[<<t, q>>]) \/ AtWork(t, q)
        BY <3>6, <4>1 DEF EchoSeen
      <4>3. AtWork(t, q) => <<t, q>> \in Intents(plan) /\ q \in Completed
        BY <3>6 DEF AtWork, Intents, Completed
      <4>4. AtWork(t, q) => disk'[<<t, q>>] = after[q]
        BY <1>0, <3>2, <4>3
      <4> QED
        BY <1>01, <1>03, <3>1, <4>2, <4>4
    <3>7. CASE disk'[<<t, q>>] = after[q]
      BY <1>03, <3>7
    <3> QED
      BY <1>0, <3>1, <3>2, <3>3, <3>4, <3>5, <3>6, <3>7
  <2> QED
    BY <1>9, <2>1, <2>2, <2>3, <2>4, <2>5, <2>6 DEF Replays, GoesOn
<1> QED
  BY <1>1, <1>2, <1>3, <1>4, <1>5, <1>6, <1>7, <1>8, <1>9 DEF StepInitial

-----------------------------------------------------------------------------
(* What a transfer leaves.                                                 *)

\* What a transfer of the replay verified is kept.
LEMMA VettedKept ==
    ASSUME Types, CoordinatorTypes, Phased, SharedIsKept, Cycling, Vetted, StepInitial
    PROVE  Vetted'
<1>1. ASSUME NEW s \in Sides, NEW p \in Paths, Edits(s, p)
      PROVE  Vetted'
  <2>1. UNCHANGED <<initial, pc, plan, stage, changed, seen, kept>>
    BY <1>1 DEF Edits, UserEdit, stores, cycle
  <2> QED
    BY <2>1 DEF Vetted, Replaying, Executing, Active, Batch
<1>2. CASE Tells \/ LosesEvents
  <2>1. UNCHANGED <<initial, pc, plan, stage, changed, seen, kept>>
    BY <1>2 DEF Tells, Notify, RequestAudit, LosesEvents, Overflow, stores, cycle, history
  <2> QED
    BY <2>1 DEF Vetted, Replaying, Executing, Active, Batch
<1>3. ASSUME NEW s \in Sides, Scan(s)
      PROVE  Vetted'
  <2>1. ~Replaying'
    BY <1>3 DEF Scan, Replaying
  <2> QED
    BY <2>1 DEF Vetted
<1>4. CASE Dies \/ Ends \/ Begin \/ PlanBulk \/ Bulks \/ Verify \/ Seed \/ RefreshSeeded \/ EndBulk
  <2>1. ~(Replaying' /\ Executing')
    BY <1>4 DEF Dies, Ends, Begin, PlanBulk, Bulks, Verify, Seed, RefreshSeeded, EndBulk,
       Replaying, Executing, Phased,
       Running, Bulking
  <2> QED
    BY <2>1 DEF Vetted
<1>5. CASE Replays
  <2>0. Replaying
    BY <1>5 DEF Replays
  <2>1. CASE CaptureAnd({}) \/ AuditDrift \/ Observe \/ CommitEchoes \/ Commit \/ Refresh
             \/ (pc = "idle" /\ UNCHANGED vars)
    <3>1. ~Executing'
      BY <2>1 DEF CaptureAnd, AuditDrift, Observe, CommitEchoes, Commit, Refresh, Executing, vars
    <3> QED
      BY <3>1 DEF Vetted
  <2>2. CASE StartPlan
    <3>1. stage' \in 1..5 /\ \A k \in 1..(stage' - 1) : \A p \in Paths : plan'[p] # Stages[k]
      BY <2>2, FirstStageIs
    <3>2. pc' = "stage"
      BY <2>2 DEF StartPlan
    <3>3. ASSUME NEW n \in 1..2, NEW p \in Paths, n < stage'
          PROVE  plan'[p] # Stages[n]
      <4>1. n \in 1..(stage' - 1)
        <5>1. PICK m \in 1..5 : m = stage'
          BY <3>1
        <5>2. n < m
          BY <3>3, <5>1
        <5>3. n \in 1..(m - 1)
          BY <5>2
        <5> QED
          BY <5>1, <5>3
      <4> QED
        BY <3>1, <4>1
    <3> QED
      BY <3>2, <3>3 DEF Vetted, Stages
  <2>3. CASE PreflightPasses \/ CopyPasses \/ PrepareConflicts \/ \E p \in Paths : Install(p) \/ Remove(p)
    <3>1. /\ UNCHANGED <<plan, stage, seen>> /\ changed \subseteq changed' /\ kept \subseteq kept'
          /\ pc' # "rehash" /\ Executing
      BY <2>3, HistoryGrows DEF PreflightPasses, CopyPasses, PrepareConflicts, Install, Remove,
         cycle, Executing
    <3> QED
      BY <2>0, <3>1 DEF Vetted
  <2>4. CASE PostflightPasses
    <3>1. /\ UNCHANGED <<plan, stage, seen, kept>> /\ changed \subseteq changed' /\ Executing
          /\ pc = "postflight"
          /\ \A p \in Active \ changed' :
                LET s == Destination(plan[p])  t == Source(plan[p]) IN
                disk[<<t, p>>] = seen[<<t, p>>] /\ disk[<<s, p>>] = seen[<<t, p>>]
      BY <2>4 DEF PostflightPasses, history, Executing
    <3>2. ASSUME NEW p \in Active \ changed'
          PROVE  seen[<<Source(plan[p]), p>>] \in kept
      <4>1. stage \in {1, 2} /\ p \in Active /\ p \in Paths /\ Decided(p)
        BY <2>0, <3>1, <3>2 DEF Cycling, Transfer, Decisions, Active, Batch
      <4>2. {Destination(plan[p]), Source(plan[p])} = {"local", "remote"}
        BY <4>1, BothSides DEF Sides
      <4>3. disk[<<"local", p>>] = seen[<<Source(plan[p]), p>>] /\ disk[<<"remote", p>>] = seen[<<Source(plan[p]), p>>]
        BY <3>1, <3>2, <4>2
      <4>4. seen[<<Source(plan[p]), p>>] # Missing
        BY <4>1 DEF Decided, Active, Batch, Stages, Source, Destination, Other
      <4> QED
        BY <4>1, <4>3, <4>4 DEF SharedIsKept
    <3>3. Active' = Active
      BY <3>1 DEF Active, Batch
    <3> QED
      BY <2>0, <3>1, <3>2, <3>3 DEF Vetted
  <2>5. CASE RehashPasses
    <3>1. /\ UNCHANGED <<plan, seen, kept, changed>> /\ pc = "rehash" /\ Executing
          /\ pc' = "stage" /\ stage' = NextStage(stage)
      BY <2>5 DEF RehashPasses, history, Executing
    <3>2. stage \in {1, 2}
      BY <2>0, <3>1 DEF Cycling, Transfer
    <3>3. stage' \in (stage + 1)..5 /\ \A k \in (stage + 1)..(stage' - 1) : Batch(k) = {}
      BY <3>1, <3>2, NextStageIs
    <3>4. ASSUME NEW p \in Paths \ changed, NEW n \in 1..2, n < stage', plan[p] = Stages[n],
                 plan[p] \in Transfers
          PROVE  seen[<<Source(plan[p]), p>>] \in kept
      <4>0. PICK m \in 1..5 : m = stage'
        BY <3>2, <3>3
      <4>1. n \notin (stage + 1)..(m - 1) /\ n < m
        BY <3>3, <3>4, <4>0 DEF Batch
      <4>2. n < stage \/ n = stage
        BY <3>2, <3>4, <4>0, <4>1
      <4>3. CASE n < stage
        BY <2>0, <3>1, <3>4, <4>3 DEF Vetted
      <4>4. CASE n = stage
        <5>1. p \in Active
          BY <3>4, <4>4 DEF Active, Batch
        <5> QED
          BY <2>0, <3>1, <3>4, <5>1 DEF Vetted
      <4> QED
        BY <4>2, <4>3, <4>4
    <3> QED
      BY <3>1, <3>4 DEF Vetted
  <2>6. CASE VerifyPasses
    <3>1. /\ UNCHANGED <<plan, seen, kept, changed>> /\ pc = "verify" /\ Executing /\ pc' = "stage"
      BY <2>6 DEF VerifyPasses, history, Executing
    <3>2. \A n \in 1..2 : n < stage
      BY <2>0, <3>1 DEF Cycling, Worked
    <3> QED
      BY <2>0, <3>1, <3>2 DEF Vetted
  <2> QED
    BY <1>5, <2>1, <2>2, <2>3, <2>4, <2>5, <2>6 DEF Replays, GoesOn
<1> QED
  BY <1>1, <1>2, <1>3, <1>4, <1>5 DEF StepInitial

\* What a bulk transfer that passed leaves stays.
LEMMA SeedingKept ==
    ASSUME Types, CoordinatorTypes, Phased, SharedIsKept, BulkPlanned, SeenTraced, Seeding,
           StepInitial
    PROVE  Seeding'
<1> SUFFICES ASSUME initial' = "seed"
             PROVE  Seeding'
  BY DEF Seeding
<1>0. initial' = "seed"
  OBVIOUS
<1>1. ASSUME NEW s \in Sides, NEW p \in Paths, Edits(s, p)
      PROVE  Seeding'
  <2>1. UNCHANGED <<initial, plan, stage, changed, installed, echo, seen, kept>> /\ initial = "seed"
    BY <1>0, <1>1 DEF Edits, UserEdit, Tells, Notify, RequestAudit, LosesEvents, Overflow,
       RefreshSeeded, stores, cycle,
       history
  <2>2. Active' = Active /\ initial # "unbound" /\ Aside
    BY <1>1, <2>1 DEF Active, Batch, Aside, Own
  <2>3. ASSUME NEW q \in Active, Traced(Source(plan[q]), q)
        PROVE  Traced(Source(plan[q]), q)'
    <3>1. q \in Paths /\ Source(plan[q]) \in Sides /\ plan' = plan
      BY <2>1 DEF Active, Batch, Source, Other, Sides
    <3>2. \A u \in Sides : Traced(u, q) => Traced(u, q)'
      BY <2>2, <3>1, TracedStays
    <3>3. \A u \in Sides : u = Source(plan[q]) => Traced(u, q) /\ Traced(u, q)'
      BY <2>3, <3>2
    <3> QED
      BY <3>1, <3>3
  <2> QED
    BY <2>1, <2>2, <2>3 DEF Seeding
<1>2. CASE Tells \/ LosesEvents \/ RefreshSeeded
  <2>1. UNCHANGED <<initial, plan, stage, changed, installed, echo, seen, kept>> /\ initial = "seed"
    BY <1>0, <1>2 DEF Edits, UserEdit, Tells, Notify, RequestAudit, LosesEvents, Overflow,
       RefreshSeeded, stores, cycle,
       history
  <2>2. Active' = Active /\ initial # "unbound" /\ Aside
    BY <1>2, <2>1 DEF Active, Batch, Aside, Own
  <2>3. ASSUME NEW p \in Active, Traced(Source(plan[p]), p)
        PROVE  Traced(Source(plan[p]), p)'
    <3>1. p \in Paths /\ Source(plan[p]) \in Sides /\ plan' = plan
      BY <2>1 DEF Active, Batch, Source, Other, Sides
    <3>2. \A u \in Sides : Traced(u, p) => Traced(u, p)'
      BY <2>2, <3>1, TracedStays
    <3>3. \A u \in Sides : u = Source(plan[p]) => Traced(u, p) /\ Traced(u, p)'
      BY <2>3, <3>2
    <3> QED
      BY <3>1, <3>3
  <2> QED
    BY <2>1, <2>2, <2>3 DEF Seeding
<1>3. ASSUME NEW s \in Sides, Scan(s)
      PROVE  Seeding'
  BY <1>0, <1>3 DEF Scan
<1>4. CASE Dies \/ Ends \/ Begin \/ PlanBulk \/ Bulks \/ EndBulk \/ Replays
  BY <1>0, <1>4 DEF Dies, Ends, Begin, PlanBulk, Bulks, EndBulk, Replays, Running
<1>5. CASE Verify
  <2> DEFINE moved == {p \in Active : disk[<<Source(plan[p]), p>>] # seen[<<Source(plan[p]), p>>]}
             wrong == {p \in Active \ moved :
                          disk[<<Destination(plan[p]), p>>] # disk[<<Source(plan[p]), p>>]}
             good == Active \ (moved \cup wrong)
  <2>1. /\ changed' = moved /\ installed' = good /\ wrong = {} /\ UNCHANGED <<disk, seen, plan, stage, kept, echo>>
        /\ Bulking /\ initial = "bulk"
    BY <1>0, <1>5 DEF Verify, history, stores, Bulking
  <2>2. Active' = Active /\ Aside
    BY <1>5, <2>1 DEF Active, Batch, Aside, Own
  <2>3. ASSUME NEW p \in Active \ moved
        PROVE  seen[<<Source(plan[p]), p>>] \in kept
    <3>1. /\ p \in Active
          /\ disk[<<Source(plan[p]), p>>] = seen[<<Source(plan[p]), p>>]
          /\ disk[<<Destination(plan[p]), p>>] = disk[<<Source(plan[p]), p>>]
      BY <2>1, <2>3
    <3>2. stage \in {1, 2} /\ seen[<<Source(plan[p]), p>>] # Missing
      BY <2>1, <3>1 DEF BulkPlanned
    <3>3. {Destination(plan[p]), Source(plan[p])} = {"local", "remote"}
      BY <3>1, <3>2, BothSides DEF Sides
    <3>4. disk[<<"local", p>>] = disk[<<"remote", p>>] /\ disk[<<Source(plan[p]), p>>] = disk[<<"local", p>>]
      BY <3>1, <3>3
    <3>5. p \in Paths
      BY <3>1 DEF Active, Batch
    <3> QED
      BY <3>1, <3>2, <3>4, <3>5 DEF SharedIsKept
  <2>4. ASSUME NEW p \in moved
        PROVE  Traced(Source(plan[p]), p)'
    <3>1. p \in Paths /\ Source(plan[p]) \in Sides /\ plan' = plan
      BY <2>1 DEF Active, Batch, Source, Other, Sides
    <3>2. \A u \in Sides : disk[<<u, p>>] # seen[<<u, p>>] => Traced(u, p)
      BY <2>1, <3>1 DEF SeenTraced, Scanned, Traced, Told
    <3>3. \A u \in Sides : disk[<<u, p>>] # seen[<<u, p>>] => Traced(u, p)'
      BY <2>1, <2>2, <3>1, <3>2, TracedStays
    <3> QED
      BY <2>4, <3>1, <3>3
  <2>5. \A p \in Active \ moved : p \in good
    BY <2>1
  <2>6. \A p \in Active \cap moved : p \in moved
    OBVIOUS
  <2> HIDE DEF moved, wrong, good
  <2> QED
    BY <2>1, <2>2, <2>3, <2>4, <2>5, <2>6 DEF Seeding
<1>6. CASE Seed
  <2>1. PICK verified \in SUBSET installed :
           /\ echo' = [k \in Sides \X Paths |->
                         IF k[2] \in verified /\ k[1] = Destination(plan[k[2]])
                         THEN seen[<<Source(plan[k[2]]), k[2]>>] ELSE echo[k]]
           /\ installed' = installed \ verified /\ UNCHANGED <<initial, plan, stage, changed, seen, kept>>
    BY <1>6 DEF Seed, history
  <2>2. Active' = Active /\ initial # "unbound" /\ Aside
    BY <1>0, <1>6, <2>1 DEF Active, Batch, Aside, Own
  <2>3. ASSUME NEW p \in Active, Traced(Source(plan[p]), p)
        PROVE  Traced(Source(plan[p]), p)'
    <3>1. p \in Paths /\ Source(plan[p]) \in Sides /\ plan' = plan
      BY <2>1 DEF Active, Batch, Source, Other, Sides
    <3>2. \A u \in Sides : Traced(u, p) => Traced(u, p)'
      BY <2>2, <3>1, TracedStays
    <3>3. \A u \in Sides : u = Source(plan[p]) => Traced(u, p) /\ Traced(u, p)'
      BY <2>3, <3>2
    <3> QED
      BY <3>1, <3>3
  <2>4. ASSUME NEW p \in Active \ changed, p \notin installed'
        PROVE  echo'[<<Destination(plan[p]), p>>] = seen[<<Source(plan[p]), p>>]
    <3>1. p \in Paths /\ Destination(plan[p]) \in Sides
      BY DEF Active, Batch, Destination, Sides
    <3>2. CASE p \in verified
      BY <2>1, <3>1, <3>2
    <3>3. CASE p \notin verified
      <4>1. p \notin installed /\ echo'[<<Destination(plan[p]), p>>] = echo[<<Destination(plan[p]), p>>]
        BY <2>1, <2>4, <3>1, <3>3
      <4> QED
        BY <1>0, <2>1, <4>1 DEF Seeding
    <3> QED
      BY <3>2, <3>3
  <2> QED
    BY <1>0, <2>1, <2>2, <2>3, <2>4 DEF Seeding
<1> QED
  BY <1>1, <1>2, <1>3, <1>4, <1>5, <1>6 DEF StepInitial

\* The side a bulk plan copies to had nothing, or its entries are accounted for.
LEMMA PlanTarget ==
    ASSUME Types, NEW s \in Sides, PlansFrom(s), NEW q \in Paths, seen[<<Other(s), q>>] # Missing
    PROVE  Trusted(Other(s))
<1>1. Populated(seen, Other(s)) /\ s \in SourcesAllowed
  BY DEF Populated, PlansFrom
<1>2. \E p \in Paths : echo[<<Other(s), p>>] # NoEcho
  BY <1>1 DEF SourcesAllowed, Other, Sides
<1> QED
  BY <1>2 DEF Trusted

\* When the bulk plan is made, every entry is accounted for, except those that
\* are about to be copied.
LEMMA PlanTraced ==
    ASSUME Types, CoordinatorTypes, Phased, BasesSafe, SeenTraced, AllTraced, StepInitial,
           PlanBulk,
           NEW s \in Sides, PlansFrom(s), NEW t \in Sides, NEW q \in Paths,
           Trusted(t) \/ t = Other(s) \/ q \notin Unfinished(s) \ Noticed
    PROVE  Traced(t, q)'
<1>1. /\ initial = "plan" /\ requeued' = requeued \cup Noticed /\ UNCHANGED <<disk, pend, seen>>
      /\ Aside /\ Scanned(t)
  BY DEF PlansFrom, Aside, Own, Scanned
<1>2. Traced(t, q) => Traced(t, q)'
  BY <1>1, TracedStays
<1>3. CASE Trusted(t)
  BY <1>2, <1>3 DEF AllTraced
<1>4. CASE disk[<<t, q>>] # seen[<<t, q>>]
  BY <1>1, <1>2, <1>4 DEF SeenTraced, Traced, Told
<1>5. CASE disk[<<t, q>>] = seen[<<t, q>>] /\ seen[<<t, q>>] = Missing
  BY <1>2, <1>5 DEF Traced, Safe
<1>6. CASE seen[<<t, q>>] # Missing /\ t = Other(s)
  BY <1>3, <1>6, PlanTarget
<1>7. CASE q \in Noticed
  <2>1. q \in requeued' /\ \E u \in Sides : q \in pend'[u]
    BY <1>1, <1>7 DEF Noticed, Sides
  <2> QED
    BY <2>1 DEF Traced, Told
<1>8. CASE disk[<<t, q>>] = seen[<<t, q>>] /\ seen[<<t, q>>] # Missing /\ t # Other(s) /\ q \notin Unfinished(s)
  <2>1. t = s
    BY <1>8 DEF Other, Sides
  <2>2. disk[<<t, q>>] = base[q]
    BY <1>8, <2>1 DEF Unfinished
  <2> QED
    BY <1>2, <2>2 DEF Traced, BasesSafe
<1> QED
  BY <1>3, <1>4, <1>5, <1>6, <1>7, <1>8

\* Every entry is accounted for, except those a bulk transfer copies.
LEMMA AllTracedKept ==
    ASSUME Types, CoordinatorTypes, Phased, SharedIsKept, BasesSafe, BulkPlanned, Cycling,
           Vetted, Seeding, SeenTraced, EchoTraced, AllTraced, StepInitial
    PROVE  AllTraced'
<1> SUFFICES ASSUME NEW t \in Sides, NEW q \in Paths,
                    Trusted(t)' \/ (Bulking' /\ q \notin Active')
             PROVE  Traced(t, q)'
  BY DEF AllTraced
<1>0. Trusted(t)' \/ (Bulking' /\ q \notin Active')
  OBVIOUS
<1>1. ASSUME NEW s \in Sides, NEW p \in Paths, Edits(s, p)
      PROVE  Traced(t, q)'
  <2>1. /\ UserEdit(s, p) /\ UNCHANGED <<initial, echo, plan, stage>>
    BY <1>1 DEF Edits, UserEdit, stores, cycle
  <2>2. Trusted(t) \/ (Bulking /\ q \notin Active)
    BY <1>0, <2>1 DEF Trusted, Replaying, Bulking, Target, Active, Batch
  <2>3. Traced(t, q) /\ initial # "unbound"
    BY <2>2 DEF AllTraced, Phased, Trusted, Bulking, Replaying
  <2> QED
    BY <1>1, <2>3, TracedStays DEF Aside
<1>2. CASE Tells \/ LosesEvents \/ RefreshSeeded \/ Bulks
  <2>1. UNCHANGED <<initial, echo, plan, stage>> /\ initial # "unbound"
    BY <1>2 DEF Tells, Notify, RequestAudit, LosesEvents, Overflow, RefreshSeeded, Bulks,
       PreflightPasses, CopyPasses,
       Install, stores, cycle, Phased
  <2>2. Trusted(t) \/ (Bulking /\ q \notin Active)
    BY <1>0, <2>1 DEF Trusted, Replaying, Bulking, Target, Active, Batch
  <2>3. Traced(t, q)
    BY <2>2 DEF AllTraced
  <2> QED
    BY <1>2, <2>1, <2>3, TracedStays DEF Aside, Own
<1>3. CASE Dies \/ Ends
  <2>1. /\ initial # "unbound" /\ initial' \in {initial, "boot"} /\ ~Bulking' /\ ~Replaying' /\ initial' # "ready"
        /\ \A k \in Sides \X Paths : echo'[k] \in {echo[k], NoEcho}
    BY <1>3 DEF Dies, Crash, Ends, Running, Phased, stores, Bulking, Replaying, StepInitial
  <2>2. Trusted(t)
    BY <1>0, <2>1 DEF Trusted
  <2>3. Traced(t, q)
    BY <2>2 DEF AllTraced
  <2> QED
    BY <1>3, <2>1, <2>3, TracedStays DEF Aside, Own
<1>4. CASE Begin
  <2>0. echo' = echo /\ initial' = "scan"
    BY <1>4 DEF Begin, stores
  <2>2. Trusted(t)
    BY <1>0, <2>0 DEF Trusted, Bulking, Replaying
  <2>1. initial # "unbound"
    BY <1>0, <2>0 DEF Trusted, Bulking, Replaying, Phased
  <2>3. Traced(t, q)
    BY <2>2 DEF AllTraced
  <2> QED
    BY <1>4, <2>1, <2>3, TracedStays DEF Aside, Own
<1>5. ASSUME NEW s \in Sides, Scan(s)
      PROVE  Traced(t, q)'
  <2>1. echo' = echo /\ initial' \in {"snapshot", "plan"} /\ initial # "unbound"
    BY <1>5 DEF Scan, stores
  <2>2. Trusted(t)
    BY <1>0, <2>1 DEF Trusted, Bulking, Replaying
  <2>3. Traced(t, q)
    BY <2>2 DEF AllTraced
  <2> QED
    BY <1>5, <2>1, <2>3, TracedStays DEF Aside, Own
<1>6. CASE Verify
  <2>1. UNCHANGED <<echo, plan, stage>> /\ Bulking /\ initial # "unbound"
    BY <1>6 DEF Verify, stores, Bulking
  <2>0. ~Replaying' /\ initial' # "ready"
    BY <1>6 DEF Verify, Replaying
  <2>2. Trusted(t) \/ (Bulking /\ q \notin Active)
    BY <1>0, <2>0, <2>1 DEF Trusted, Target, Active, Batch
  <2>3. Traced(t, q)
    BY <2>2 DEF AllTraced
  <2> QED
    BY <1>6, <2>1, <2>3, TracedStays DEF Aside, Own
<1>7. CASE Seed
  <2>1. UNCHANGED <<initial, plan, stage>> /\ Bulking /\ initial # "unbound"
    BY <1>7 DEF Seed, Bulking
  <2>01. PICK verified \in SUBSET installed :
           /\ echo' = [k \in Sides \X Paths |->
                         IF k[2] \in verified /\ k[1] = Destination(plan[k[2]])
                         THEN seen[<<Source(plan[k[2]]), k[2]>>] ELSE echo[k]]
    BY <1>7 DEF Seed
  <2>02. ASSUME NEW p \in Paths, echo'[<<t, p>>] # NoEcho, echo[<<t, p>>] = NoEcho
         PROVE  t = Target
    <3>1. p \in installed /\ t = Destination(plan[p])
      BY <2>01, <2>02
    <3> QED
      BY <2>1, <3>1 DEF BulkPlanned, Active, Batch, Target
  <2>2. Trusted(t) \/ (Bulking /\ q \notin Active)
    BY <1>0, <2>1, <2>02 DEF Trusted, Replaying, Bulking, Target, Active, Batch
  <2>3. Traced(t, q)
    BY <2>2 DEF AllTraced
  <2> QED
    BY <1>7, <2>1, <2>3, TracedStays DEF Aside, Own
<1>8. CASE PlanBulk
  <2>1. PICK s \in Sides : PlansFrom(s)
    BY <1>8, PlansFromASide
  <2>2. Trusted(t) \/ t = Other(s) \/ q \notin Unfinished(s) \ Noticed
    <3>1. CASE Unfinished(s) \ Noticed = {}
      BY <3>1
    <3>2. CASE q \in Unfinished(s) \ Noticed
      <4>1. initial' = "bulk" /\ stage' = (IF s = "local" THEN 1 ELSE 2) /\ echo' = echo
        BY <2>1, <3>2 DEF PlansFrom
      <4>2. plan'[q] = Stages[stage']
        BY <2>1, <3>2, <4>1 DEF PlansFrom, Stages
      <4>3. q \in Active' /\ Target' = Other(s)
        BY <4>1, <4>2 DEF Active, Batch, Target, Stages, Destination, Other, Sides
      <4> QED
        BY <1>0, <4>1, <4>3 DEF Trusted, Replaying
    <3> QED
      BY <3>1, <3>2
  <2> QED
    BY <1>8, <2>1, <2>2, PlanTraced
<1>9. CASE EndBulk
  <2>0. /\ initial = "seed" /\ installed = {} /\ Bulking /\ Aside /\ initial # "unbound" /\ Scanned(t)
    BY <1>9 DEF EndBulk, Bulking, Aside, Own, Scanned
  <2>1. CASE q \notin Active \/ t = Target
    BY <2>0, <2>1, TracedStays DEF AllTraced, Trusted
  <2>2. CASE q \in Active /\ t # Target
    <3>1. t = Source(plan[q])
      BY <2>0, <2>2 DEF Active, Batch, Target, Source, Destination, Other, Sides
    <3>2. CASE q \in changed
      <4>1. Traced(Source(plan[q]), q)
        BY <2>0, <2>2, <3>2 DEF Seeding
      <4>2. Traced(t, q)
        BY <3>1, <4>1
      <4> QED
        BY <2>0, <4>2, TracedStays
    <3>3. CASE q \notin changed
      <4>1. seen[<<t, q>>] \in kept
        BY <2>0, <2>2, <3>1, <3>3 DEF Seeding
      <4>2. disk[<<t, q>>] # seen[<<t, q>>] => Traced(t, q)
        BY <2>0 DEF SeenTraced, Traced, Told
      <4>3. disk[<<t, q>>] = seen[<<t, q>>] => Traced(t, q)
        BY <4>1 DEF Traced, Safe
      <4> QED
        BY <2>0, <4>2, <4>3, TracedStays
    <3> QED
      BY <3>2, <3>3
  <2> QED
    BY <2>1, <2>2
<1>10. CASE Replays
  <2>1. Trusted(t)
    BY <1>10 DEF Replays, Trusted
  <2>2. Traced(t, q)
    BY <2>1 DEF AllTraced
  <2> QED
    BY <1>10, <2>2, ReplayTraces
<1> QED
  BY <1>1, <1>2, <1>3, <1>4, <1>5, <1>6, <1>7, <1>8, <1>9, <1>10 DEF StepInitial

-----------------------------------------------------------------------------
(* What is destroyed.                                                      *)

\* What the bulk transfer may install over is safe, or no event told of it.
LEMMA BulkOverKept ==
    ASSUME Types, CoordinatorTypes, Phased, Numbered, BulkPlanned, AllTraced, BulkOver,
           StepInitial
    PROVE  BulkOver'
<1> SUFFICES ASSUME initial' = "bulk", NEW q \in (Active \ installed)',
                    pc' # "stage" \/ (disk[<<Destination(plan[q]), q>>] = seen[<<Destination(plan[q]), q>>])'
             PROVE  Losable(disk[<<Destination(plan[q]), q>>])'
  BY DEF BulkOver
<1>0. /\ initial' = "bulk" /\ q \in Active' /\ q \notin installed' /\ q \in Paths
      /\ pc' # "stage" \/ disk'[<<Destination(plan'[q]), q>>] = seen'[<<Destination(plan'[q]), q>>]
  BY DEF Active, Batch
<1>01. ASSUME NEW v, Losable(v)
       PROVE  Losable(v)'
  BY <1>01, HistoryGrows DEF Losable, Safe, UnheardVersions
<1>1. ASSUME NEW s \in Sides, NEW p \in Paths, Edits(s, p)
      PROVE  Losable(disk[<<Destination(plan[q]), q>>])'
  <2>1. /\ UserEdit(s, p) /\ UNCHANGED <<initial, pc, seen, plan, stage, installed>>
    BY <1>1 DEF Edits, UserEdit, stores, cycle
  <2>2. /\ Active' = Active /\ Destination(plan[q]) \in Sides /\ plan' = plan /\ initial = "bulk" /\ q \in Active
    BY <1>0, <2>1 DEF Active, Batch, Destination, Sides
  <2>3. CASE <<Destination(plan[q]), q>> = <<s, p>>
    <3>1. CASE pc = "stage"
      <4>1. seen[<<s, p>>] \in Contents /\ seen[<<s, p>>] <= edits
        BY DEF Types, DiskTypes, Numbered
      <4>2. disk'[<<s, p>>] = seen[<<s, p>>]
        BY <1>0, <2>1, <2>3, <3>1
      <4>3. disk'[<<s, p>>] = Missing
        BY <2>1, <4>1, <4>2, EditIsNew
      <4> QED
        BY <2>2, <2>3, <4>3 DEF Losable, Safe
    <3>2. CASE pc # "stage"
      <4>1. InFlight(s, p)
        BY <2>2, <2>3, <3>2 DEF InFlight, BulkPlanned, Bulking
      <4>2. disk'[<<s, p>>] \in raced' \cup {Missing}
        BY <2>1, <4>1 DEF UserEdit, Types, DiskTypes
      <4> QED
        BY <2>2, <2>3, <4>2 DEF Losable, Safe
    <3> QED
      BY <3>1, <3>2
  <2>4. CASE <<Destination(plan[q]), q>> # <<s, p>>
    <3>1. disk'[<<Destination(plan[q]), q>>] = disk[<<Destination(plan[q]), q>>]
      BY <1>0, <2>1, <2>2, <2>4, EditIs
    <3>2. Losable(disk[<<Destination(plan[q]), q>>])
      BY <1>0, <2>1, <2>2, <3>1 DEF BulkOver
    <3> QED
      BY <1>01, <2>2, <3>1, <3>2
  <2> QED
    BY <2>3, <2>4
<1>2. CASE Tells \/ LosesEvents
  <2>1. UNCHANGED <<initial, pc, disk, seen, plan, stage, installed>>
    BY <1>2 DEF Tells, Notify, RequestAudit, LosesEvents, Overflow, stores, cycle
  <2>2. Active' = Active /\ plan' = plan
    BY <2>1 DEF Active, Batch
  <2>3. Losable(disk[<<Destination(plan[q]), q>>])
    BY <1>0, <2>1, <2>2 DEF BulkOver
  <2> QED
    BY <1>01, <2>1, <2>3
<1>3. CASE Dies \/ Ends \/ Begin \/ Verify \/ Seed \/ RefreshSeeded \/ EndBulk \/ Replays
  BY <1>0, <1>3 DEF Dies, Ends, Begin, Verify, Seed, RefreshSeeded, EndBulk, Replays, Running,
     Phased
<1>4. ASSUME NEW s \in Sides, Scan(s)
      PROVE  Losable(disk[<<Destination(plan[q]), q>>])'
  BY <1>0, <1>4 DEF Scan
<1>5. CASE PlanBulk
  <2>1. PICK s \in Sides : PlansFrom(s)
    BY <1>5, PlansFromASide
  <2>2. /\ initial = "plan" /\ UNCHANGED <<disk, seen>>
        /\ blind' = blind \cup UNION {{e \in Unrecorded(u) : seen[<<u, e[1]>>] = e[2]} : u \in Sides}
        /\ pc' = "stage"
    BY <1>0, <2>1 DEF PlansFrom
  <2>3. q \in Unfinished(s) \ Noticed /\ plan'[q] = IF s = "local" THEN "push" ELSE "pull"
    BY <1>0, <2>1 DEF PlansFrom, Active, Batch, Stages
  <2>4. Destination(plan'[q]) = Other(s)
    BY <2>3 DEF Destination, Other, Sides
  <2> DEFINE d == <<Other(s), q>>
  <2>5. disk[d] = seen[d]
    BY <1>0, <2>2, <2>4
  <2>6. CASE seen[d] = Missing
    BY <2>2, <2>4, <2>5, <2>6 DEF Losable, Safe
  <2>7. CASE seen[d] # Missing
    <3>1. Trusted(Other(s)) /\ Other(s) \in Sides
      BY <1>0, <2>1, <2>7, PlanTarget DEF Other, Sides
    <3>2. Traced(Other(s), q)
      BY <1>0, <3>1 DEF AllTraced
    <3>3. \A u \in Sides : cap[u] = {} /\ q \notin pend[u]
      BY <1>0, <2>2, <2>3 DEF Phased, Replaying, Noticed, Sides
    <3>4. Safe(disk[d]) \/ q \in raw[Other(s)] \/ <<q, disk[d]>> \in Unheard
      BY <3>1, <3>2, <3>3 DEF Traced, Told
    <3>5. CASE Safe(disk[d]) \/ <<q, disk[d]>> \in Unheard
      <4>1. <<q, disk[d]>>[2] = disk[d]
        OBVIOUS
      <4>2. Losable(disk[d])
        BY <3>5, <4>1 DEF Losable, UnheardVersions
      <4>3. Losable(disk[d]) => Losable(disk[d])'
        BY <1>01, <2>2, <2>4
      <4> QED
        BY <2>2, <2>4, <4>2, <4>3
    <3>6. CASE q \in raw[Other(s)]
      <4>1. <<q, disk[d]>> \in Unrecorded(Other(s))
        BY <1>0, <3>6 DEF Unrecorded
      <4>2. <<q, disk[d]>> \in {e \in Unrecorded(Other(s)) : seen[<<Other(s), e[1]>>] = e[2]}
        BY <2>5, <4>1
      <4>3. <<q, disk[d]>> \in Unheard' /\ <<q, disk[d]>>[2] = disk[d]
        BY <2>2, <3>1, <4>2 DEF Unheard
      <4>4. disk[d] \in UnheardVersions'
        BY <4>3 DEF UnheardVersions
      <4> QED
        BY <2>2, <2>4, <4>4 DEF Losable
    <3> QED
      BY <3>4, <3>5, <3>6
  <2> QED
    BY <2>6, <2>7
<1>6. CASE Bulks
  <2>1. UNCHANGED <<initial, seen, plan, stage>> /\ initial = "bulk"
    BY <1>6 DEF Bulks, PreflightPasses, CopyPasses, Install, cycle
  <2>2. Active' = Active /\ plan' = plan /\ Destination(plan[q]) \in Sides
    BY <2>1 DEF Active, Batch, Destination, Sides
  <2>3. /\ q \notin installed /\ disk'[<<Destination(plan[q]), q>>] = disk[<<Destination(plan[q]), q>>]
        /\ pc = "stage" => disk[<<Destination(plan[q]), q>>] = seen[<<Destination(plan[q]), q>>]
    <3>1. CASE PreflightPasses
      BY <1>0, <2>2, <3>1 DEF PreflightPasses, Agrees, cycle
    <3>2. CASE CopyPasses
      BY <1>0, <2>1, <2>2, <3>2 DEF CopyPasses, BulkPlanned, Bulking
    <3>3. ASSUME NEW p \in Paths, Install(p)
          PROVE  /\ q \notin installed /\ disk'[<<Destination(plan[q]), q>>] = disk[<<Destination(plan[q]), q>>]
                 /\ pc # "stage"
      <4>1. p # q /\ q \notin installed /\ pc # "stage"
        BY <1>0, <3>3 DEF Install
      <4> QED
        BY <1>0, <2>2, <3>3, <4>1, InstallTraced
    <3> QED
      BY <1>6, <3>1, <3>2, <3>3 DEF Bulks
  <2>4. Losable(disk[<<Destination(plan[q]), q>>])
    BY <1>0, <2>1, <2>2, <2>3 DEF BulkOver
  <2> QED
    BY <1>01, <2>2, <2>3, <2>4
<1> QED
  BY <1>1, <1>2, <1>3, <1>4, <1>5, <1>6 DEF StepInitial

\* What is lost was written in the window of a transfer, or no event told of it.
LEMMA BulkLossUnseenKept ==
    ASSUME Types, CoordinatorTypes, Phased, BasesSafe, BulkPlanned, Cycling, BulkOver,
           BulkLossUnseen, StepInitial
    PROVE  BulkLossUnseen'
<1>0. ASSUME lost' \subseteq lost \cup raced' \cup UnheardVersions
      PROVE  BulkLossUnseen'
  <2>1. lost \subseteq raced \cup UnheardVersions
    BY DEF BulkLossUnseen, UnheardVersions, Unheard
  <2>2. raced \subseteq raced' /\ UnheardVersions \subseteq UnheardVersions'
    BY HistoryGrows DEF UnheardVersions
  <2>3. lost' \subseteq raced' \cup UnheardVersions'
    BY <1>0, <2>1, <2>2
  <2> QED
    BY <2>3 DEF BulkLossUnseen, UnheardVersions, Unheard
<1>1. ASSUME NEW s \in Sides, NEW p \in Paths, Edits(s, p)
      PROVE  BulkLossUnseen'
  <2>1. lost' = lost
    BY <1>1 DEF Edits, UserEdit
  <2> QED
    BY <1>0, <2>1
<1>2. ASSUME NEW s \in Sides, Scan(s)
      PROVE  BulkLossUnseen'
  <2>1. lost' = lost
    BY <1>2 DEF Scan, history
  <2> QED
    BY <1>0, <2>1
<1>3. CASE Tells \/ LosesEvents \/ Dies \/ Ends \/ Begin \/ PlanBulk \/ Verify \/ Seed \/ RefreshSeeded \/ EndBulk
  <2>1. lost' = lost
    BY <1>3 DEF Tells, Notify, RequestAudit, LosesEvents, Overflow, Dies, Crash, Ends, GivesUp,
       Begin, PlanBulk, Verify, Seed, RefreshSeeded, EndBulk, history
  <2> QED
    BY <1>0, <2>1
<1>4. CASE Bulks
  <2>1. CASE PreflightPasses \/ CopyPasses
    <3>1. lost' = lost
      BY <2>1 DEF PreflightPasses, CopyPasses, history
    <3> QED
      BY <1>0, <3>1
  <2>2. ASSUME NEW p \in Paths, Install(p)
        PROVE  BulkLossUnseen'
    <3> DEFINE v == disk[<<Destination(plan[p]), p>>]
    <3>1. /\ initial = "bulk" /\ pc = "install" /\ p \in Active \ installed
          /\ lost' \subseteq lost \cup ({v} \ (kept \cup {Missing}))
      BY <1>4, <2>2 DEF Bulks, Install, Replace
    <3>2. Losable(v)
      BY <3>1 DEF BulkOver
    <3>3. v \in kept \cup {Missing} \/ v \in raced \cup UnheardVersions
      BY <3>2 DEF Losable, Safe
    <3>4. lost' \subseteq lost \cup raced' \cup UnheardVersions
      BY <3>1, <3>3, HistoryGrows
    <3> QED
      BY <1>0, <3>4
  <2> QED
    BY <1>4, <2>1, <2>2 DEF Bulks
<1>5. CASE Replays
  <2>1. Step /\ Decisions /\ Transfer
    <3>1. Replays /\ Replaying
      BY <1>5 DEF Replays
    <3>2. ~Own
      BY <3>1 DEF Own, Begin, Scan, PlanBulk, Verify, Seed, RefreshSeeded, EndBulk, Replaying,
         Phased
    <3> QED
      BY <3>1, <3>2, EngineStepOrOwn DEF Cycling
  <2>2. LossRaced
    BY <2>1, LossKept
  <2>3. lost' \subseteq lost \cup raced'
    BY <2>2 DEF LossRaced
  <2> QED
    BY <1>0, <2>3
<1> QED
  BY <1>1, <1>2, <1>3, <1>4, <1>5 DEF StepInitial

-----------------------------------------------------------------------------
(* The theorems.                                                           *)

\* The inductive invariant.
Coordinated ==
    /\ Types /\ CoordinatorTypes /\ Numbered /\ EchoNumbered /\ SharedIsKept /\ BasesSafe
    /\ Phased /\ BulkPlanned /\ Cycling /\ Snapshots /\ Verified
    /\ SeenTraced /\ BulkNoted /\ InitialFollowed
    /\ AllTraced /\ EchoSeen /\ EchoTraced /\ Vetted /\ Seeding
    /\ BulkOver /\ BulkLossUnseen

\* It holds before the first run.
LEMMA CoordinatedInit ==
    ASSUME BindInit
    PROVE  Coordinated
<1>1. /\ pc = "down" /\ initial = "unbound" /\ seeded = {} /\ refused = FALSE
      /\ blind = {} /\ offline = {}
  BY DEF BindInit
<1>2. PICK s \in Sides, present \in SUBSET Paths :
         /\ Cardinality(present) \in 0..MaxEdits
         /\ \E contents \in [Sides \X Paths -> 0..Cardinality(present)] :
               /\ \A q \in Paths : contents[<<s, q>>] # Missing <=> q \in present
               /\ \A q \in Paths : contents[<<Other(s), q>>] = Missing
               /\ \A p, q \in present : contents[<<s, p>>] = contents[<<s, q>>] => p = q
               /\ Fresh(contents, Cardinality(present))
  BY DEF BindInit
<1> DEFINE written == Cardinality(present)
<1>3. PICK contents \in [Sides \X Paths -> 0..written] :
         /\ \A q \in Paths : contents[<<Other(s), q>>] = Missing
         /\ Fresh(contents, written)
  BY <1>2
<1>4. written \in 0..MaxEdits
  BY <1>2
<1> HIDE DEF written
<1>5. contents \in [Sides \X Paths -> Contents] /\ \A k \in Sides \X Paths : contents[k] <= written
  <2>1. \A v \in 0..written : v \in Contents /\ v <= written
    BY <1>4, ConstantsAssumption DEF Contents, Versions, Missing
  <2> QED
    BY <1>3, <2>1
<1>6. \A p \in Paths : contents[<<"local", p>>] = Missing \/ contents[<<"remote", p>>] = Missing
  BY <1>3 DEF Other, Sides
<1>7. Engine
  BY <1>1, <1>3, <1>4, <1>5, <1>6, FreshEngine
<1>8. /\ \A k \in Sides \X Paths : echo[k] = NoEcho /\ seen[k] = Missing
      /\ \A p \in Paths : base[p] = Missing /\ after[p] = Missing /\ plan[p] = "idle"
      /\ \A t \in Sides : cap[t] = {}
      /\ installed = {} /\ lost = {} /\ edits = written
  BY <1>3 DEF Fresh
<1>9. Types /\ Numbered /\ SharedIsKept /\ BasesSafe
  BY <1>7 DEF Engine
<1>10. CoordinatorTypes
  BY <1>1 DEF CoordinatorTypes, Phases
<1>11. EchoNumbered
  BY <1>4, <1>8, ConstantsAssumption DEF EchoNumbered, Missing
<1>12. Phased /\ BulkPlanned /\ Cycling /\ Snapshots /\ Verified
  BY <1>1, <1>8 DEF Phased, BulkPlanned, Cycling, Snapshots, Verified, Running, Replaying, Bulking
<1>13. ~Bulking /\ ~Replaying /\ \A t \in Sides : ~Trusted(t) /\ ~Scanned(t)
  BY <1>1, <1>8 DEF Bulking, Replaying, Trusted, Scanned
<1>14. SeenTraced /\ BulkNoted /\ AllTraced /\ EchoSeen /\ EchoTraced /\ Vetted /\ Seeding /\ BulkOver
  BY <1>1, <1>13 DEF SeenTraced, BulkNoted, AllTraced, EchoSeen, EchoTraced, Vetted, Seeding,
     BulkOver
<1>15. InitialFollowed
  BY <1>8, <1>13 DEF InitialFollowed
<1>16. BulkLossUnseen
  BY <1>8 DEF BulkLossUnseen
<1> QED
  BY <1>9, <1>10, <1>11, <1>12, <1>14, <1>15, <1>16 DEF Coordinated

\* A step of the first synchronisation keeps it.
LEMMA CoordinatedStep ==
    ASSUME Coordinated, StepInitial
    PROVE  Coordinated'
<1> USE DEF Coordinated
<1>1. Types' /\ CoordinatorTypes'
  <2>1. DiskTypes' /\ JournalTypes' /\ CycleTypes'
    BY InitialDiskTypesKept, InitialCycleTypesKept
  <2>2. disk' \in [Sides \X Paths -> Contents]
    BY <2>1 DEF DiskTypes
  <2> QED
    BY <2>1, <2>2, CoordinatorTypesKept DEF Types
<1>2. Numbered' /\ EchoNumbered' /\ SharedIsKept' /\ BasesSafe'
  BY InitialNumberedKept, EchoNumberedKept, InitialSharedKept, InitialBasesSafeKept
<1>3. Phased' /\ BulkPlanned' /\ Cycling' /\ Snapshots' /\ Verified'
  BY PhasedKept, BulkPlannedKept, CyclingKept, SnapshotsKept, VerifiedKept
<1>4. SeenTraced' /\ BulkNoted' /\ InitialFollowed'
  BY SeenTracedKept, BulkNotedKept, InitialFollowedKept
<1>5. AllTraced' /\ EchoSeen' /\ EchoTraced'
  BY AllTracedKept, EchoSeenKept, EchoTracedKept
<1>6. Vetted' /\ Seeding' /\ BulkOver' /\ BulkLossUnseen'
  BY VettedKept, SeedingKept, BulkOverKept, BulkLossUnseenKept
<1> QED
  BY <1>1, <1>2, <1>3, <1>4, <1>5, <1>6

\* Neither does it change when nothing does.
LEMMA CoordinatedStutter ==
    ASSUME Coordinated, UNCHANGED allVars
    PROVE  Coordinated'
<1>1. /\ UNCHANGED <<disk, raw, pend, base, echo, requeued, conflicts, pc, stage, cap, retried, seen>>
      /\ UNCHANGED <<matched, plan, staged, installed, changed, after, edits, faults>>
      /\ UNCHANGED <<kept, raced, lost, swallowed, initial, seeded, refused, blind, offline>>
  BY DEF allVars, initialVars, vars, stores, cycle, bounds, history
<1>2. /\ Types' <=> Types
      /\ CoordinatorTypes' <=> CoordinatorTypes
  BY <1>1 DEF Types, DiskTypes, JournalTypes, CycleTypes, CoordinatorTypes
<1>3. /\ Executing' <=> Executing
      /\ Replaying' <=> Replaying
      /\ Bulking' <=> Bulking
      /\ Running' <=> Running
      /\ Active' = Active /\ Target' = Target /\ Unheard' = Unheard
      /\ \A s \in Sides : (Scanned(s)' <=> Scanned(s)) /\ (Trusted(s)' <=> Trusted(s))
  BY <1>1 DEF Executing, Replaying, Bulking, Running, Active, Batch, Target, Unheard, Scanned,
     Trusted
<1>4. /\ Numbered' <=> Numbered
      /\ EchoNumbered' <=> EchoNumbered
      /\ SharedIsKept' <=> SharedIsKept
      /\ BasesSafe' <=> BasesSafe
  BY <1>1 DEF Numbered, EchoNumbered, SharedIsKept, BasesSafe, Safe
<1>5. Step
  BY <1>1 DEF Step, vars, stores, cycle, bounds, history
<1>6. Cycling => Cycling'
  <2>1. CASE Replaying
    <3>1. SUFFICES ASSUME Cycling
                   PROVE  Cycling'
      OBVIOUS
    <3>2. Decisions /\ Transfer /\ SeenOrNoted /\ Worked /\ Echoed /\ Taking
      BY <2>1, <3>1 DEF Cycling
    <3>3. Decisions' /\ Transfer' /\ SeenOrNoted'
      BY <1>5, <3>2, DecisionsKept, TransferKept, SeenOrNotedKept DEF Coordinated
    <3>4. Worked' /\ Echoed' /\ Taking'
      BY <1>5, <3>2, WorkedKept, EchoedKept, TakingKept DEF Coordinated
    <3> QED
      BY <3>3, <3>4 DEF Cycling
  <2>2. CASE ~Replaying
    BY <1>3, <2>2 DEF Cycling
  <2> QED
    BY <2>1, <2>2
<1>7. /\ Phased' <=> Phased
      /\ BulkPlanned' <=> BulkPlanned
  BY <1>1, <1>3 DEF Phased, BulkPlanned
<1>8. /\ Snapshots' <=> Snapshots
      /\ Verified' <=> Verified
  BY <1>1 DEF Snapshots, Verified
<1>9. \A p \in Paths : (Noted(p)' <=> Noted(p)) /\ (Pursued(p)' <=> Pursued(p))
  BY <1>1, <1>3 DEF Noted, Pursued, Later, Taken, UnheardPaths
<1>10. SeenTraced' <=> SeenTraced
  BY <1>1, <1>3 DEF SeenTraced
<1>11. BulkNoted' <=> BulkNoted
  <2>1. Active \subseteq Paths /\ (Types => installed \subseteq Paths)
    BY DEF Active, Batch, Types, CycleTypes
  <2> QED
    BY <1>1, <1>3, <1>9, <2>1 DEF BulkNoted, Coordinated
<1>12. InitialFollowed' <=> InitialFollowed
  BY <1>1, <1>3, <1>9 DEF InitialFollowed
<1>13. \A s \in Sides, p \in Paths : (Traced(s, p)' <=> Traced(s, p)) /\ (AtWork(s, p)' <=> AtWork(s, p))
  BY <1>1, <1>3 DEF Traced, Told, Safe, AtWork
<1>14. AllTraced' <=> AllTraced
  BY <1>3, <1>13 DEF AllTraced
<1>15. /\ EchoSeen' <=> EchoSeen
       /\ EchoTraced' <=> EchoTraced
  BY <1>1, <1>3, <1>13 DEF EchoSeen, EchoTraced, Safe
<1>16. Vetted' <=> Vetted
  BY <1>1, <1>3 DEF Vetted
<1>17. Seeding' <=> Seeding
  BY <1>1, <1>3 DEF Seeding, Traced, Told, Safe
<1>18. /\ BulkOver' <=> BulkOver
       /\ BulkLossUnseen' <=> BulkLossUnseen
  BY <1>1, <1>3 DEF BulkOver, Losable, Safe, UnheardVersions, BulkLossUnseen
<1> QED
  BY <1>2, <1>4, <1>6, <1>7, <1>8, <1>10, <1>11, <1>12, <1>14, <1>15, <1>16, <1>17,
     <1>18 DEF Coordinated

\* The first synchronisation keeps its invariant, however often it is interrupted.
THEOREM CoordinatedHolds == InitialSpec => []Coordinated
<1>1. BindInit => Coordinated
  BY CoordinatedInit
<1>2. Coordinated /\ [NextInitial]_allVars => Coordinated'
  <2>1. CASE NextInitial
    BY <2>1, InitialStepIs, CoordinatedStep DEF Coordinated
  <2>2. CASE UNCHANGED allVars
    BY <2>2, CoordinatedStutter
  <2> QED
    BY <2>1, <2>2
<1> QED
  BY <1>1, <1>2, PTL DEF InitialSpec

\* Every variable of the coordinator and of the engine below it keeps its type.
THEOREM InitialTypes == InitialSpec => []InitialTypeOK
<1>1. Coordinated => InitialTypeOK
  BY DEF Coordinated, Types, DiskTypes, JournalTypes, CycleTypes, TypeOK, CoordinatorTypes,
     Phased, InitialTypeOK
<1> QED
  BY <1>1, CoordinatedHolds, PTL

\* Whatever fails, crashes or overflows, and however often the bulk transfer is
\* resumed (run and _transfer, initial_sync.py), it destroys an edit only if it
\* was made in the window of a transfer, or if no event had told of it.
THEOREM LossIsUnseen == InitialSpec => []BulkLossUnseen
<1>1. Coordinated => BulkLossUnseen
  BY DEF Coordinated
<1> QED
  BY <1>1, CoordinatedHolds, PTL

\* The base an interrupted bulk transfer leaves, and a resumed one trusts, holds
\* entries both sides had, or written during a transfer (seed_verified_transfer).
THEOREM SeedsAreShared == InitialSpec => []SeedsShared
<1>1. Coordinated => SeedsShared
  BY DEF Coordinated, BasesSafe, Safe, SeedsShared, BaseSharedUnlessRaced
<1> QED
  BY <1>1, CoordinatedHolds, PTL

\* What the bulk transfer left out and the replay did not plan when the first
\* synchronisation completes (complete_initial_sync, state.py) is still covered.
THEOREM HandsOverCovered == InitialSpec => []HandedOverCovered
<1>1. ASSUME Coordinated
      PROVE  HandedOverCovered
  <2>1. SUFFICES ASSUME initial = "ready", NEW s \in Sides, NEW p \in Paths,
                        disk[<<s, p>>] # base[p]
                 PROVE  Covered(p) \/ p \in swallowed \/ \E e \in blind \cup offline : e[1] = p
    BY DEF HandedOverCovered
  <2>2. Trusted(s) /\ ~Replaying
    BY <2>1 DEF Trusted, Replaying
  <2>3. Pursued(p) /\ \A t \in Sides : cap[t] = {}
    BY <1>1, <2>1, <2>2 DEF Coordinated, InitialFollowed, Phased
  <2>4. Later(p) \/ p \in swallowed \/ p \in UnheardPaths
    BY <2>3 DEF Pursued, Taken
  <2>5. Later(p) => Covered(p)
    BY DEF Later, Noted, Covered
  <2>6. p \in UnheardPaths => \E e \in blind \cup offline : e[1] = p
    BY DEF UnheardPaths, Unheard
  <2> QED
    BY <2>4, <2>5, <2>6
<1> QED
  BY <1>1, CoordinatedHolds, PTL

=============================================================================
