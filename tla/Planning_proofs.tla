--------------------------- MODULE Planning_proofs ---------------------------
(***************************************************************************)
(* The properties of Planning, for every set of contents and fingerprints. *)
(***************************************************************************)
EXTENDS Planning, TLAPS

-----------------------------------------------------------------------------
(* Entries.                                                                *)

\* What an entry on a disk, or in a base, is made of: a file and a link have data, a
\* file has a fingerprint, and nothing else has either.
Shape(e) ==
    /\ e \in Entry
    /\ e.kind = "file" => e.data # NoData
    /\ e.kind = "symlink" => e.data # NoData /\ e.meta = NoMeta /\ ~e.placeholder
    /\ e.kind \in {"missing", "dir", "special"} => e.data = NoData /\ e.meta = NoMeta /\ ~e.placeholder

\* The entries of the model have such a shape; only a base, and a disk below a
\* placeholder, hold placeholders, and a base holds nothing special.
LEMMA Shapes ==
    /\ \A e \in BaseEntries : Shape(e) /\ e.kind # "special"
    /\ \A e \in RemoteEntries : Shape(e) /\ ~e.placeholder
    /\ \A b \in BaseEntries : \A e \in LocalEntries(b) : Shape(e) /\ (e.placeholder => b.placeholder)
<1> USE ContentsAssumption DEF Shape
<1>1. Shape(MissingEntry) /\ MissingEntry.kind # "special" /\ ~MissingEntry.placeholder
  BY DEF MissingEntry, Entry
<1>2. ASSUME NEW d \in Contents, NEW m \in Metas
      PROVE  Shape(File(d, m)) /\ File(d, m).kind # "special" /\ ~File(d, m).placeholder
  <2>1. File(d, m) \in Entry
    BY DEF File, Entry
  <2> QED
    BY <2>1 DEF File
<1>3. Shape([MissingEntry EXCEPT !.kind = "dir"])
      /\ [MissingEntry EXCEPT !.kind = "dir"].kind = "dir"
      /\ ~[MissingEntry EXCEPT !.kind = "dir"].placeholder
  <2>1. [MissingEntry EXCEPT !.kind = "dir"] \in Entry
    BY DEF MissingEntry, Entry
  <2> QED
    BY <2>1 DEF MissingEntry
<1>4. ASSUME NEW d \in Contents
      PROVE  LET e == [MissingEntry EXCEPT !.kind = "symlink", !.data = d]
             IN  Shape(e) /\ e.kind = "symlink" /\ ~e.placeholder
  <2>1. [MissingEntry EXCEPT !.kind = "symlink", !.data = d] \in Entry
    BY DEF MissingEntry, Entry
  <2> QED
    BY <2>1 DEF MissingEntry
<1>5. ASSUME NEW d \in Contents, NEW m \in Metas
      PROVE  Shape(Placeholder(d, m)) /\ Placeholder(d, m).kind = "file"
  <2>1. Placeholder(d, m) \in Entry
    BY DEF Placeholder, File, Entry
  <2> QED
    BY <2>1 DEF Placeholder, File
<1>6. Shape(Special) /\ ~Special.placeholder
  <2>1. Special \in Entry
    BY DEF Special, MissingEntry, Entry
  <2> QED
    BY <2>1 DEF Special, MissingEntry
<1>7. /\ \A e \in Files : Shape(e) /\ e.kind # "special" /\ ~e.placeholder
      /\ \A e \in OtherKinds : Shape(e) /\ e.kind # "special" /\ ~e.placeholder
      /\ \A e \in Placeholders : Shape(e) /\ e.kind # "special"
  <2> HIDE DEF Shape
  <2>1. \A e \in Files : Shape(e) /\ e.kind # "special" /\ ~e.placeholder
    BY <1>2 DEF Files
  <2>2. \A e \in OtherKinds : Shape(e) /\ e.kind # "special" /\ ~e.placeholder
    BY <1>3, <1>4 DEF OtherKinds
  <2>3. \A e \in Placeholders : Shape(e) /\ e.kind # "special"
    BY <1>5 DEF Placeholders
  <2> QED
    BY <2>1, <2>2, <2>3
<1> HIDE DEF Shape
<1> QED
  BY <1>1, <1>6, <1>7 DEF BaseEntries, RemoteEntries, LocalEntries

\* Two of them are the same if their parts are.
LEMMA SameParts ==
    ASSUME NEW x \in Entry, NEW y \in Entry,
           x.kind = y.kind, x.data = y.data, x.meta = y.meta, x.placeholder = y.placeholder
    PROVE  x = y
  BY DEF Entry

\* An observation without hashing differs in the data of a real file only.
LEMMA UnhashedParts ==
    ASSUME NEW e, Shape(e)
    PROVE  /\ Unhashed(e) \in Entry /\ Unhashed(e).kind = e.kind /\ Unhashed(e).meta = e.meta
           /\ Unhashed(e).placeholder = e.placeholder
           /\ IF e.kind = "file" /\ ~e.placeholder
              THEN Unhashed(e).data = NoData ELSE Unhashed(e) = e
  BY DEF Unhashed, Shape, Entry

-----------------------------------------------------------------------------
(* What the planner decides from an observation.                           *)

\* The entries stored and on the disks never change while a path is planned.
Entries ==
    /\ Shape(base) /\ base.kind # "special"
    /\ Shape(local) /\ (local.placeholder => base.placeholder)
    /\ Shape(remote) /\ ~remote.placeholder

\* Something observed is the entry on the disk, with or without its hash.
Observes(o, e) == o = e \/ o = Unhashed(e)

\* What an observation has in common with its entry; a hashed one is the entry.
LEMMA ObservedParts ==
    ASSUME NEW e, Shape(e), NEW o, Observes(o, e)
    PROVE  /\ o \in Entry /\ o.kind = e.kind /\ o.meta = e.meta /\ o.placeholder = e.placeholder
           /\ o.data = e.data \/ (o.data = NoData /\ e.kind = "file" /\ ~e.placeholder)
           /\ NeedsHash(o) <=> o.kind = "file" /\ o.data = NoData
           /\ ~NeedsHash(o) => o = e /\ o.data = e.data
           /\ ~NeedsHash(e)
  BY UnhashedParts DEF Observes, NeedsHash, Shape

\* No request is open for an observation that is hashed, or that looks like the base.
NoRequest(o) == NeedsHash(o) => QuickFileEqual(o, base)

\* The sides whose hash the planner asks for.
LEMMA RequestsOf ==
    ASSUME NEW x, NEW y
    PROVE  /\ "local" \in HashRequests(base, x, y) <=> ~NoRequest(x)
           /\ "remote" \in HashRequests(base, x, y) <=> ~NoRequest(y)
           /\ HashRequests(base, x, y) = {} <=> NoRequest(x) /\ NoRequest(y)
  BY DEF HashRequests, NoRequest

\* Where no request is open and quick fingerprints are sound, an observation matches the
\* base exactly if the entry is the base's.
LEMMA MatchIsSame ==
    ASSUME Entries, NEW e \in {local, remote}, NEW o, Observes(o, e), NoRequest(o),
           base.kind = "file" /\ e.kind = "file" /\ e.meta = base.meta => e.data = base.data
    PROVE  MatchesBase(o, base) <=> Same(e, base)
<1> USE ObservedParts DEF Entries
<1>0. Shape(e) /\ Shape(base)
  OBVIOUS
<1>1. CASE NeedsHash(o)
  <2>1. base.kind = "file" /\ e.kind = "file" /\ e.meta = base.meta
    BY <1>0, <1>1 DEF NoRequest, QuickFileEqual
  <2>2. MatchesBase(o, base)
    BY <1>0, <1>1, <2>1 DEF MatchesBase, QuickFileEqual
  <2> QED
    BY <2>1, <2>2 DEF Same
<1>2. CASE ~NeedsHash(o)
  <2>1. o = e
    BY <1>0, <1>2
  <2>2. ContentEqual(e, base) <=> Same(e, base)
    BY <1>0 DEF ContentEqual, Same, Shape, Entry
  <2> QED
    BY <1>2, <2>1, <2>2 DEF MatchesBase
<1> QED
  BY <1>1, <1>2

\* Two observations have equal content only if the entries are the same, and the same
\* entries fail to only where both are the base's.
LEMMA EqualIsSame ==
    ASSUME Entries, NEW x, Observes(x, local), NoRequest(x), NEW y, Observes(y, remote), NoRequest(y),
           QuickSound, local.kind # "special"
    PROVE  /\ ContentEqual(x, y) => Same(local, remote)
           /\ Same(local, remote) /\ ~ContentEqual(x, y) => Same(local, base)
<1>0. /\ Shape(local) /\ Shape(remote)
      /\ x.kind = local.kind /\ y.kind = remote.kind
      /\ x.data = local.data \/ (x.data = NoData /\ local.kind = "file" /\ NeedsHash(x))
      /\ y.data = remote.data \/ (y.data = NoData /\ remote.kind = "file" /\ NeedsHash(y))
  BY ObservedParts DEF Entries, NeedsHash
<1>1. ContentEqual(x, y) => Same(local, remote)
  BY <1>0 DEF ContentEqual, Same, Shape
<1>2. ASSUME Same(local, remote), ~ContentEqual(x, y)
      PROVE  Same(local, base)
  <2>1. NeedsHash(x) \/ NeedsHash(y)
    BY <1>0, <1>2 DEF ContentEqual, Same, Shape, Entry
  <2>2. \/ local.kind = "file" /\ base.kind = "file" /\ local.meta = base.meta
        \/ remote.kind = "file" /\ base.kind = "file" /\ remote.meta = base.meta
    BY <1>0, <2>1, ObservedParts DEF NoRequest, QuickFileEqual
  <2> QED
    BY <1>2, <2>2 DEF QuickSound, Same
<1> QED
  BY <1>1, <1>2

\* With every request answered the planner computes the three-way merge.
LEMMA PlanMerges ==
    ASSUME Entries, NEW x, Observes(x, local), NoRequest(x), NEW y, Observes(y, remote), NoRequest(y),
           QuickSound, local.kind # "special", ~Refused,
           NEW plan, plan = PlanIncremental(base, x, y)
    PROVE  CASE Same(local, remote) /\ Same(local, base) -> plan.type \in {"none", "update-base"}
             [] Same(local, remote) /\ ~Same(local, base) -> plan.type = "update-base"
             [] Same(local, base) /\ ~Same(local, remote) ->
                  plan.type = Follow("remote").type /\ Same(plan.after, Follow("remote").after)
             [] OTHER -> plan.type = Follow("local").type /\ Same(plan.after, Follow("local").after)
<1>0. /\ Shape(local) /\ Shape(remote) /\ Shape(base)
      /\ x.kind = local.kind /\ y.kind = remote.kind
      /\ ~NeedsHash(x) => x = local
      /\ ~NeedsHash(y) => y = remote
  BY ObservedParts DEF Entries
<1>1. /\ MatchesBase(x, base) <=> Same(local, base)
      /\ MatchesBase(y, base) <=> Same(remote, base)
  BY MatchIsSame DEF QuickSound
<1>2. /\ ContentEqual(x, y) => Same(local, remote)
      /\ Same(local, remote) /\ ~ContentEqual(x, y) => Same(local, base)
  BY EqualIsSame
\* What changed was hashed.
<1>3. (~MatchesBase(x, base) => x = local) /\ (~MatchesBase(y, base) => y = remote)
  BY <1>0 DEF MatchesBase, NoRequest, QuickFileEqual
<1>4. IsMissing(base) => x = local /\ y = remote
  BY <1>0 DEF IsMissing, NoRequest, QuickFileEqual
<1>5. \A e, f \in {local, remote, base} : IsMissing(e) /\ IsMissing(f) => Same(e, f)
  BY <1>0 DEF IsMissing, Same, Shape
<1>6. \A e, f \in {local, remote, base} : /\ Same(e, f) => Same(f, e)
                                          /\ Same(e, f) /\ IsMissing(e) => IsMissing(f)
  BY DEF Same, IsMissing
<1>7. IsMissing(x) = IsMissing(local) /\ IsMissing(y) = IsMissing(remote)
  BY <1>0 DEF IsMissing
<1>8. \A type, after : Decide(type, after).type = type /\ Decide(type, after).after = after
  BY DEF Decide
<1>9. /\ Follow("remote") = IF IsMissing(remote) THEN Decide("delete-local", MissingEntry)
                            ELSE Decide("pull", remote)
      /\ Follow("local") = IF IsMissing(local) THEN Decide("delete-remote", MissingEntry)
                           ELSE Decide("push", local)
  BY DEF Follow, OnDisk
<1>10. CASE ContentEqual(x, y)
  <2>1. plan = IF IsMissing(local) /\ IsMissing(base) THEN Nothing
               ELSE Decide("update-base", MatchingBaseAfter(x, y))
    BY <1>7, <1>10 DEF PlanIncremental
  <2>2. plan.type = IF IsMissing(local) /\ IsMissing(base) THEN "none" ELSE "update-base"
    BY <2>1, <1>8 DEF Nothing
  <2> QED
    BY <1>2, <1>5, <1>10, <2>2
<1>11. CASE IsMissing(base) /\ ~ContentEqual(x, y)
  <2>1. x = local /\ y = remote
    BY <1>4, <1>11
  <2>2. ~(IsMissing(local) /\ IsMissing(remote))
    BY <1>11, <2>1 DEF ContentEqual, IsMissing
  <2>3. plan = CASE IsMissing(local) -> Decide("pull", remote)
                 [] IsMissing(remote) -> Decide("push", local)
                 [] OTHER -> Conflict
    BY <1>11, <2>1 DEF PlanIncremental
  <2>4. CASE IsMissing(local)
    <3>1. plan = Decide("pull", remote) /\ Follow("remote") = Decide("pull", remote)
      BY <1>9, <2>2, <2>3, <2>4
    <3>2. Same(local, base) /\ ~Same(local, remote)
      BY <1>5, <1>6, <1>11, <2>2, <2>4
    <3>3. Same(plan.after, Follow("remote").after)
      BY <3>1 DEF Same
    <3> QED
      BY <3>1, <3>2, <3>3
  <2>5. CASE ~IsMissing(local) /\ IsMissing(remote)
    <3>1. plan = Decide("push", local) /\ Follow("local") = Decide("push", local)
      BY <1>9, <2>3, <2>5
    <3>2. ~Same(local, base) /\ ~Same(local, remote)
      BY <1>6, <1>11, <2>5
    <3>3. Same(plan.after, Follow("local").after)
      BY <3>1 DEF Same
    <3> QED
      BY <3>1, <3>2, <3>3
  <2>6. CASE ~IsMissing(local) /\ ~IsMissing(remote)
    <3>1. ~Same(local, base) /\ ~Same(remote, base)
      BY <1>6, <1>11, <2>6
    <3> QED
      BY <1>2, <1>11, <3>1 DEF Refused
  <2> QED
    BY <2>4, <2>5, <2>6
<1>12. CASE ~IsMissing(base) /\ ~ContentEqual(x, y)
  <2>0. plan =
          CASE MatchesBase(x, base) /\ MatchesBase(y, base) -> Nothing
            [] MatchesBase(x, base) /\ ~MatchesBase(y, base) ->
                  IF IsMissing(y) THEN Decide("delete-local", MissingEntry) ELSE Decide("pull", y)
            [] MatchesBase(y, base) /\ ~MatchesBase(x, base) ->
                  IF IsMissing(x) THEN Decide("delete-remote", MissingEntry) ELSE Decide("push", x)
            [] OTHER -> Conflict
    BY <1>12 DEF PlanIncremental
  <2>1. CASE Same(local, base) /\ Same(remote, base)
    <3>1. plan = Nothing
      BY <1>1, <2>0, <2>1
    <3>2. plan.type = "none" /\ Same(local, remote)
      BY <1>8, <2>1, <3>1 DEF Nothing, Same
    <3> QED
      BY <2>1, <3>2
  <2>2. CASE Same(local, base) /\ ~Same(remote, base)
    <3>1. plan = Follow("remote")
      BY <1>1, <1>3, <1>9, <2>0, <2>2
    <3>2. ~Same(local, remote)
      BY <2>2 DEF Same
    <3>3. Same(plan.after, Follow("remote").after)
      BY <3>1 DEF Same
    <3> QED
      BY <2>2, <3>1, <3>2, <3>3
  <2>3. CASE ~Same(local, base) /\ Same(remote, base)
    <3>1. plan = Follow("local")
      BY <1>1, <1>3, <1>9, <2>0, <2>3
    <3>2. ~Same(local, remote)
      BY <2>3 DEF Same
    <3>3. Same(plan.after, Follow("local").after)
      BY <3>1 DEF Same
    <3> QED
      BY <2>3, <3>1, <3>2, <3>3
  <2>4. CASE ~Same(local, base) /\ ~Same(remote, base)
    BY <1>2, <1>12, <2>4 DEF Refused
  <2> QED
    BY <2>1, <2>2, <2>3, <2>4
<1> QED
  BY <1>10, <1>11, <1>12

\* The planner asks only while a request is open, and deletes one side only where the
\* other is missing and that side matches the base.
LEMMA Answers ==
    ASSUME NEW x, NEW y, NEW plan, plan = PlanPath(base, x, y)
    PROVE  /\ HashRequests(base, x, y) = {} => plan # AskHash
           /\ plan.type = "delete-local" =>
                HashRequests(base, x, y) = {} /\ MatchesBase(x, base) /\ IsMissing(y) /\ ~IsMissing(x)
           /\ plan.type = "delete-remote" =>
                HashRequests(base, x, y) = {} /\ MatchesBase(y, base) /\ IsMissing(x) /\ ~IsMissing(y)
<1>1. \A type, after : Decide(type, after).type = type
  BY DEF Decide
<1>2. /\ Nothing.type = "none" /\ Conflict.type = "conflict" /\ Warning.type = "warning"
      /\ AskHash.type = "hash"
  BY <1>1 DEF Nothing, Conflict, Warning, AskHash
<1> DEFINE inc == PlanIncremental(base, x, y)
<1>3. IsMissing(x) /\ IsMissing(y) => ContentEqual(x, y)
  BY DEF IsMissing, ContentEqual
<1>4. CASE ContentEqual(x, y)
  <2>1. inc = IF IsMissing(x) /\ IsMissing(base) THEN Nothing
              ELSE Decide("update-base", MatchingBaseAfter(x, y))
    BY <1>4 DEF PlanIncremental
  <2>2. inc.type \in {"none", "update-base"}
    BY <1>1, <1>2, <2>1
  <2> QED
    BY <1>2, <2>2 DEF PlanPath
<1>5. CASE ~ContentEqual(x, y) /\ IsMissing(base)
  <2>1. inc = CASE IsMissing(x) -> Decide("pull", y) [] IsMissing(y) -> Decide("push", x) [] OTHER -> Conflict
    BY <1>5 DEF PlanIncremental
  <2>2. inc.type \in {"pull", "push", "conflict"}
    BY <1>1, <1>2, <2>1
  <2> QED
    BY <1>2, <2>2 DEF PlanPath
<1>6. CASE ~ContentEqual(x, y) /\ ~IsMissing(base)
  <2>1. inc =
          CASE MatchesBase(x, base) /\ MatchesBase(y, base) -> Nothing
            [] MatchesBase(x, base) /\ ~MatchesBase(y, base) ->
                  IF IsMissing(y) THEN Decide("delete-local", MissingEntry) ELSE Decide("pull", y)
            [] MatchesBase(y, base) /\ ~MatchesBase(x, base) ->
                  IF IsMissing(x) THEN Decide("delete-remote", MissingEntry) ELSE Decide("push", x)
            [] OTHER -> Conflict
    BY <1>6 DEF PlanIncremental
  <2>2. /\ inc.type \in {"none", "delete-local", "pull", "delete-remote", "push", "conflict"}
        /\ inc.type = "delete-local" => MatchesBase(x, base) /\ IsMissing(y) /\ ~IsMissing(x)
        /\ inc.type = "delete-remote" => MatchesBase(y, base) /\ IsMissing(x) /\ ~IsMissing(y)
    BY <1>1, <1>2, <1>3, <1>6, <2>1
  <2> QED
    BY <1>2, <2>2 DEF PlanPath
<1> QED
  BY <1>4, <1>5, <1>6

-----------------------------------------------------------------------------
(* The inductive invariant: what has been observed at each stage, and that *)
(* a decision is one about what was observed last.                         *)

PlanInv ==
    /\ Entries
    /\ pc \in {"collect", "plan", "hash", "strengthen", "done"}
    /\ pc # "collect" => Observes(seen["local"], local) /\ Observes(seen["remote"], remote)
    /\ pc \in {"strengthen", "done"} => decision = Plan(seen) /\ decision # AskHash
    /\ pc = "done" => \A s \in DeletionTarget : ~NeedsHash(seen[s])

\* Every step of a cycle preserves it.
LEMMA PlanInvStep == PlanInv /\ [Next]_vars => PlanInv'
<1> SUFFICES ASSUME PlanInv, [Next]_vars PROVE PlanInv'
  OBVIOUS
<1>0. \A sides, observed : /\ WithHashes(observed, sides)["local"] = IF "local" \in sides THEN local ELSE observed["local"]
                           /\ WithHashes(observed, sides)["remote"] = IF "remote" \in sides THEN remote ELSE observed["remote"]
  BY DEF WithHashes, Sides, OnDisk
<1>e. UNCHANGED <<base, local, remote>> => Entries'
  BY DEF PlanInv, Entries
<1>p. Shape(local) /\ Shape(remote)
  BY DEF PlanInv, Entries
\* A round of hashing that covers the open requests closes them.
<1>h. ASSUME UNCHANGED <<base, local, remote>>, pc # "collect", NEW sides, seen' = WithHashes(seen, sides),
             Requests(seen) \subseteq sides
      PROVE  /\ Observes(seen'["local"], local) /\ Observes(seen'["remote"], remote)
             /\ Plan(seen)' # AskHash
  <2>1. /\ Observes(seen'["local"], local) /\ Observes(seen'["remote"], remote)
    BY <1>0, <1>h DEF PlanInv, Observes
  <2>2. NoRequest(seen'["local"]) /\ NoRequest(seen'["remote"])
    BY <1>0, <1>h, <1>p, RequestsOf, ObservedParts DEF Requests, NoRequest, Observes
  <2>3. HashRequests(base, seen'["local"], seen'["remote"]) = {}
    BY <2>2, RequestsOf
  <2> QED
    BY <1>h, <2>1, <2>3, Answers DEF Plan
<1>1. CASE Collect
  <2> DEFINE quick == [s \in Sides |-> Unhashed(OnDisk(s))]
  <2>1. quick["local"] = Unhashed(local) /\ quick["remote"] = Unhashed(remote)
    BY DEF Sides, OnDisk
  <2>2. seen' = quick \/ seen' = WithHashes(quick, {s \in Sides : NeedsHash(quick[s])})
    BY <1>1 DEF Collect
  <2> HIDE DEF quick
  <2>3. /\ seen'["local"] \in {local, Unhashed(local)}
        /\ seen'["remote"] \in {remote, Unhashed(remote)}
    BY <1>0, <2>1, <2>2
  <2> QED
    BY <1>1, <1>e, <2>3 DEF Collect, PlanInv, Observes
<1>2. CASE BuildPlan
  <2>1. UNCHANGED <<base, local, remote, seen>> /\ pc = "plan" /\ decision' = Plan(seen)
        /\ pc' = IF Plan(seen) = AskHash THEN "hash" ELSE "strengthen"
    BY <1>2 DEF BuildPlan
  <2>2. Plan(seen)' = Plan(seen)
    BY <2>1 DEF Plan
  <2> QED
    BY <1>e, <2>1, <2>2 DEF PlanInv, Observes
<1>3. CASE SatisfyHashRequests
  <2>1. /\ UNCHANGED <<base, local, remote>> /\ pc = "hash" /\ decision' = Plan(seen')
        /\ seen' = WithHashes(seen, Requests(seen))
        /\ pc' = IF Plan(seen') = AskHash THEN "failed" ELSE "strengthen"
    BY <1>3 DEF SatisfyHashRequests
  <2>2. Plan(seen') = Plan(seen)'
    BY <2>1 DEF Plan
  <2>3. /\ Observes(seen'["local"], local) /\ Observes(seen'["remote"], remote)
        /\ Plan(seen)' # AskHash
    BY <1>h, <2>1
  <2> QED
    BY <1>e, <2>1, <2>2, <2>3 DEF PlanInv, Observes
<1>4. CASE StrengthenDeletionTargets
  <2> DEFINE weak == {s \in DeletionTarget : NeedsHash(seen[s])}
  <2>1. /\ UNCHANGED <<base, local, remote>> /\ pc = "strengthen" /\ pc' = "done"
        /\ seen' = WithHashes(seen, weak)
        /\ decision' = IF weak = {} THEN decision ELSE Plan(seen')
    BY <1>4 DEF StrengthenDeletionTargets
  <2>2. Plan(seen') = Plan(seen)' /\ decision = Plan(seen) /\ decision # AskHash
    BY <2>1 DEF Plan, PlanInv
  <2>3. Observes(seen'["local"], local) /\ Observes(seen'["remote"], remote)
    BY <1>0, <2>1 DEF PlanInv, Observes
  <2>4. CASE weak = {}
    <3>1. seen'["local"] = seen["local"] /\ seen'["remote"] = seen["remote"]
      BY <1>0, <2>1, <2>4
    <3>2. Plan(seen)' = Plan(seen) /\ UNCHANGED decision
      BY <2>1, <2>4, <3>1 DEF Plan
    <3>3. DeletionTarget' = DeletionTarget
      BY <3>2 DEF DeletionTarget
    <3>4. \A s \in DeletionTarget : ~NeedsHash(seen'[s])
      BY <2>4, <3>1 DEF DeletionTarget
    <3> QED
      BY <1>e, <2>1, <2>2, <2>3, <3>2, <3>3, <3>4 DEF PlanInv, Observes
  <2>5. CASE weak # {}
    <3>1. Requests(seen) = {} /\ \/ decision.type = "delete-local" /\ ~IsMissing(seen["local"])
                                 \/ decision.type = "delete-remote" /\ ~IsMissing(seen["remote"])
      BY <2>2, <2>5, Answers DEF DeletionTarget, Plan, Requests
    <3>2. Plan(seen)' # AskHash
      BY <1>h, <2>1, <3>1
    <3>3. decision' = Plan(seen)'
      BY <2>1, <2>2, <2>5
    <3>4. /\ decision'.type = "delete-local" => ~NeedsHash(seen'["local"])
          /\ decision'.type = "delete-remote" => ~NeedsHash(seen'["remote"])
      <4>1. /\ decision'.type = "delete-local" => IsMissing(seen'["remote"])
            /\ decision'.type = "delete-remote" => IsMissing(seen'["local"])
        BY <2>1, <3>3, Answers DEF Plan
      <4>2. /\ IsMissing(seen'["remote"]) <=> IsMissing(seen["remote"])
            /\ IsMissing(seen'["local"]) <=> IsMissing(seen["local"])
        BY <1>p, <2>1, <2>3, ObservedParts DEF IsMissing, PlanInv
      <4>3. /\ decision.type = "delete-local" => weak = {"local"}
            /\ decision.type = "delete-remote" => weak = {"remote"}
        BY <2>5 DEF DeletionTarget
      <4>4. /\ weak = {"local"} => ~NeedsHash(seen'["local"])
            /\ weak = {"remote"} => ~NeedsHash(seen'["remote"])
        BY <1>0, <1>p, <2>1, ObservedParts DEF Observes
      <4> QED
        BY <3>1, <4>1, <4>2, <4>3, <4>4
    <3>5. \A s \in DeletionTarget' : ~NeedsHash(seen'[s])
      BY <3>4 DEF DeletionTarget
    <3> QED
      BY <1>e, <2>1, <2>2, <2>3, <3>2, <3>3, <3>5 DEF PlanInv, Observes
  <2> QED
    BY <2>4, <2>5
<1>5. CASE UNCHANGED vars
  BY <1>5 DEF vars, PlanInv, Entries, Observes, Plan, DeletionTarget
<1> QED
  BY <1>1, <1>2, <1>3, <1>4, <1>5 DEF Next

\* In every cycle the observations are of the entries on the disks, and the decision is the
\* planner's answer to the last of them.
THEOREM PlanInvHolds == Spec => []PlanInv
<1>1. Init => PlanInv
  BY Shapes DEF Init, PlanInv, Entries
<1> QED
  BY <1>1, PlanInvStep, PTL DEF Spec

\* One round of satisfy_hash_requests answers every request, and no path leaves planning with
\* one still open.
THEOREM EveryRequestAnswered == Spec => []RequestsAnswered
<1>1. PlanInv => RequestsAnswered
  BY DEF PlanInv, RequestsAnswered
<1> QED
  BY <1>1, PlanInvHolds, PTL

\* A cycle deletes a file only after it has read its content and found the base's, whatever
\* the quick fingerprint says.
THEOREM DeletionsSeen == Spec => []NoBlindDelete
<1>1. PlanInv => NoBlindDelete
  <2> SUFFICES ASSUME PlanInv, pc = "done", NEW s \in DeletionTarget, OnDisk(s).kind = "file"
               PROVE  Same(OnDisk(s), base)
    BY DEF NoBlindDelete
  <2>1. /\ Shape(local) /\ Shape(remote) /\ ~NeedsHash(seen[s])
        /\ Observes(seen["local"], local) /\ Observes(seen["remote"], remote)
    BY DEF PlanInv, Entries
  <2>2. s \in {"local", "remote"} /\ MatchesBase(seen[s], base)
    BY Answers DEF PlanInv, Plan, DeletionTarget
  <2>3. seen[s] = OnDisk(s)
    BY <2>1, <2>2, ObservedParts DEF OnDisk
  <2> QED
    BY <2>1, <2>2, <2>3 DEF MatchesBase, ContentEqual, Same
<1> QED
  BY <1>1, PlanInvHolds, PTL

\* Where the planner refuses, it answers with a conflict.
LEMMA RefusedIsConflict ==
    ASSUME Entries, NEW x, Observes(x, local), NoRequest(x), NEW y, Observes(y, remote), NoRequest(y),
           QuickSound, local.kind # "special", Refused,
           ~(base.placeholder /\ local # base), ~KindDiverged(local, remote)
    PROVE  PlanIncremental(base, x, y) = Conflict
<1>0. /\ Shape(local) /\ Shape(remote) /\ Shape(base)
      /\ x.kind = local.kind /\ y.kind = remote.kind
      /\ ~NeedsHash(x) => x = local
      /\ ~NeedsHash(y) => y = remote
  BY ObservedParts DEF Entries
<1>1. ~Same(local, remote) /\ ~Same(local, base) /\ ~Same(remote, base)
  BY DEF Refused, KindDiverged
<1>2. ~MatchesBase(x, base) /\ ~MatchesBase(y, base)
  BY <1>1, MatchIsSame DEF QuickSound
<1>3. ~ContentEqual(x, y)
  BY <1>1, EqualIsSame
<1>4. IsMissing(base) => ~IsMissing(x) /\ ~IsMissing(y)
  BY <1>0, <1>1 DEF IsMissing, Same, Shape
<1> QED
  BY <1>2, <1>3, <1>4 DEF PlanIncremental

\* The plan of a cycle is the three-way merge of the true entries, however few files were
\* hashed, wherever a file that looks like the base has the base's content.
THEOREM PlansMerge == Spec => []PlanIsThreeWayMerge
<1>1. PlanInv => PlanIsThreeWayMerge
  <2> SUFFICES ASSUME PlanInv, pc = "done", QuickSound
               PROVE  CASE Special \in {local, remote} -> decision.type = "warning"
                        [] Special \notin {local, remote} /\ Refused -> decision = Conflict
                        [] OTHER ->
                             CASE Same(local, remote) /\ Same(local, base) ->
                                    decision.type \in {"none", "update-base"}
                               [] Same(local, remote) /\ ~Same(local, base) -> decision.type = "update-base"
                               [] Same(local, base) /\ ~Same(local, remote) ->
                                    decision.type = Follow("remote").type
                                    /\ Same(decision.after, Follow("remote").after)
                               [] OTHER ->
                                    decision.type = Follow("local").type
                                    /\ Same(decision.after, Follow("local").after)
    BY DEF PlanIsThreeWayMerge
  <2> DEFINE x == seen["local"]
             y == seen["remote"]
  <2>0. /\ Entries /\ Shape(local) /\ Shape(remote) /\ Shape(base) /\ base.kind # "special"
        /\ Observes(x, local) /\ Observes(y, remote)
        /\ decision = PlanPath(base, x, y) /\ decision # AskHash
    BY DEF PlanInv, Plan, Entries
  <2> HIDE DEF x, y
  <2>1. /\ x.kind = local.kind /\ y.kind = remote.kind /\ x.placeholder = local.placeholder
        /\ x = local \/ (x = Unhashed(local) /\ ~x.placeholder)
    BY <2>0, ObservedParts, UnhashedParts DEF Observes
  <2>2. /\ local.kind = "special" <=> local = Special
        /\ remote.kind = "special" <=> remote = Special
    <3>1. Special \in Entry /\ Special.kind = "special" /\ Special.data = NoData
          /\ Special.meta = NoMeta /\ Special.placeholder = FALSE
      BY DEF Special, MissingEntry, Entry
    <3>2. ASSUME NEW e, Shape(e), e.kind = "special"
          PROVE  e = Special
      <4>1. e \in Entry /\ e.data = NoData /\ e.meta = NoMeta /\ e.placeholder = FALSE
        BY <3>2 DEF Shape, Entry
      <4> QED
        BY <3>1, <3>2, <4>1, SameParts
    <3> QED
      BY <2>0, <3>1, <3>2
  <2>3. ContainsSpecial(base, x, y) <=> Special \in {local, remote}
    BY <2>0, <2>1, <2>2 DEF ContainsSpecial
  <2>4. PlaceholderChanged(base, x) <=> base.placeholder /\ local # base
    BY <2>0, <2>1 DEF PlaceholderChanged, Shape, Entry
  <2>5. KindDiverged(x, y) <=> KindDiverged(local, remote)
    BY <2>1 DEF KindDiverged, IsMissing
  <2>6. CASE Special \in {local, remote}
    <3>1. decision = Warning
      BY <2>0, <2>3, <2>6 DEF PlanPath
    <3>2. decision.type = "warning"
      BY <3>1 DEF Warning, Decide
    <3> QED
      BY <2>6, <3>2
  <2>7. CASE Special \notin {local, remote}
             /\ ((base.placeholder /\ local # base) \/ KindDiverged(local, remote))
    <3>1. Refused
      BY <2>7 DEF Refused, KindDiverged
    <3>2. decision = Conflict
      BY <2>0, <2>3, <2>4, <2>5, <2>7 DEF PlanPath
    <3> QED
      BY <2>7, <3>1, <3>2
  <2>8. CASE /\ Special \notin {local, remote}
             /\ ~(base.placeholder /\ local # base) /\ ~KindDiverged(local, remote)
    <3>1. decision = IF HashRequests(base, x, y) # {} THEN AskHash ELSE PlanIncremental(base, x, y)
      BY <2>0, <2>3, <2>4, <2>5, <2>8 DEF PlanPath
    <3>2. HashRequests(base, x, y) = {} /\ decision = PlanIncremental(base, x, y)
      BY <2>0, <3>1
    <3>3. NoRequest(x) /\ NoRequest(y)
      BY <3>2, RequestsOf
    <3>4. local.kind # "special"
      BY <2>2, <2>8
    <3>5. CASE Refused
      <4>1. decision = Conflict
        BY <2>0, <2>8, <3>2, <3>3, <3>4, <3>5, RefusedIsConflict
      <4> QED
        BY <2>8, <3>5, <4>1
    <3>6. CASE ~Refused
      <4>1. (CASE Same(local, remote) /\ Same(local, base) -> decision.type \in {"none", "update-base"}
               [] Same(local, remote) /\ ~Same(local, base) -> decision.type = "update-base"
               [] Same(local, base) /\ ~Same(local, remote) ->
                    decision.type = Follow("remote").type /\ Same(decision.after, Follow("remote").after)
               [] OTHER -> decision.type = Follow("local").type /\ Same(decision.after, Follow("local").after))
        BY <2>0, <3>2, <3>3, <3>4, <3>6, PlanMerges
      <4> QED
        BY <2>8, <3>6, <4>1
    <3> QED
      BY <3>5, <3>6
  <2> QED
    BY <2>6, <2>7, <2>8
<1> QED
  BY <1>1, PlanInvHolds, PTL
=============================================================================
