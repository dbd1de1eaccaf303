------------------------------ MODULE Reconcile ------------------------------
(***************************************************************************)
(* The incremental planner (reconcile.py): what to do with one dirty path, *)
(* given its base entry and the entries observed on the two sides.         *)
(*                                                                         *)
(* An entry is a FingerprintState.  `data' stands for the content hash of  *)
(* a file or the target of a symlink; a file observed without hashing has  *)
(* data = NoData.  `meta' stands for the quick fingerprint of a file (its  *)
(* size, mtime and mode).                                                  *)
(***************************************************************************)
CONSTANTS
    Contents,   \* content hashes and link targets
    Metas,      \* quick fingerprints
    NoData,     \* content_hash is None
    NoMeta      \* no quick fingerprint

ASSUME ContentsAssumption == NoData \notin Contents /\ NoMeta \notin Metas

MissingEntry ==
    [kind |-> "missing", data |-> NoData, meta |-> NoMeta, placeholder |-> FALSE]

File(data, meta) ==
    [kind |-> "file", data |-> data, meta |-> meta, placeholder |-> FALSE]

Entry ==
    [kind : {"missing", "file", "dir", "symlink", "special"},
     data : Contents \cup {NoData}, meta : Metas \cup {NoMeta}, placeholder : BOOLEAN]

IsMissing(e) == e.kind = "missing"

\* _fingerprint_content_equal
ContentEqual(left, right) ==
    /\ left.kind = right.kind
    /\ \/ left.kind \in {"missing", "dir"}
       \/ left.kind = "file" /\ left.data # NoData /\ left.data = right.data
       \/ left.kind = "symlink" /\ left.data = right.data

\* _quick_file_equal
QuickFileEqual(left, right) ==
    left.kind = "file" /\ right.kind = "file" /\ left.meta = right.meta

\* _file_needs_hash
NeedsHash(e) == e.kind = "file" /\ e.data = NoData

\* _fingerprint_matches_base
MatchesBase(current, base) ==
    IF base.kind = "file" /\ NeedsHash(current)
    THEN QuickFileEqual(current, base)
    ELSE ContentEqual(current, base)

\* _missing_hash_requests: the sides whose hash the planner asks for.
HashRequests(base, local, remote) ==
    {side \in {"local", "remote"} :
        LET e == IF side = "local" THEN local ELSE remote
        IN  NeedsHash(e) /\ ~QuickFileEqual(e, base)}

ContainsSpecial(base, local, remote) == "special" \in {base.kind, local.kind, remote.kind}

PlaceholderChanged(base, local) == base.placeholder /\ local # base

KindDiverged(local, remote) ==
    ~IsMissing(local) /\ ~IsMissing(remote) /\ local.kind # remote.kind

\* _matching_base_after
MatchingBaseAfter(local, remote) == IF local.placeholder THEN local ELSE remote

\* The planner's answers.
Decide(type, after) == [type |-> type, after |-> after]
Nothing == Decide("none", MissingEntry)
Conflict == Decide("conflict", MissingEntry)
Warning == Decide("warning", MissingEntry)
AskHash == Decide("hash", MissingEntry)

\* Coding error: a deleted side always wins over the other.
DeletionWins(base, local, remote) ==
    CASE ContentEqual(local, remote) ->
           IF IsMissing(local) /\ IsMissing(base) THEN Nothing
           ELSE Decide("update-base", MatchingBaseAfter(local, remote))
      [] IsMissing(base) /\ IsMissing(local) -> Decide("pull", remote)
      [] IsMissing(base) /\ IsMissing(remote) -> Decide("push", local)
      [] IsMissing(remote) -> Decide("delete-local", MissingEntry)
      [] IsMissing(local) -> Decide("delete-remote", MissingEntry)
      [] MatchesBase(local, base) -> Decide("pull", remote)
      [] MatchesBase(remote, base) -> Decide("push", local)
      [] OTHER -> Conflict

\* _plan_incremental_path
PlanIncremental(base, local, remote) ==
    CASE ContentEqual(local, remote) ->
           IF IsMissing(local) /\ IsMissing(base) THEN Nothing
           ELSE Decide("update-base", MatchingBaseAfter(local, remote))
      [] IsMissing(base) /\ ~ContentEqual(local, remote) ->
           CASE IsMissing(local) -> Decide("pull", remote)
             [] IsMissing(remote) -> Decide("push", local)
             [] OTHER -> Conflict
      [] OTHER ->
           CASE MatchesBase(local, base) /\ MatchesBase(remote, base) -> Nothing
             [] MatchesBase(local, base) /\ ~MatchesBase(remote, base) ->
                  IF IsMissing(remote) THEN Decide("delete-local", MissingEntry)
                  ELSE Decide("pull", remote)
             [] MatchesBase(remote, base) /\ ~MatchesBase(local, base) ->
                  IF IsMissing(local) THEN Decide("delete-remote", MissingEntry)
                  ELSE Decide("push", local)
             [] OTHER -> Conflict

\* The body of the loop of build_incremental_plan, for a path not ignored.
PlanPath(base, local, remote) ==
    CASE ContainsSpecial(base, local, remote) -> Warning
      [] ~ContainsSpecial(base, local, remote) /\ PlaceholderChanged(base, local) -> Conflict
      [] OTHER ->
           CASE KindDiverged(local, remote) -> Conflict
             [] ~KindDiverged(local, remote) /\ HashRequests(base, local, remote) # {} -> AskHash
             [] OTHER -> PlanIncremental(base, local, remote)

=============================================================================
