---------------------------------- MODULE Tree ---------------------------------
(***************************************************************************)
(* The tree the watchers watch (watch.py, remote_agent/inotify.py): its    *)
(* root holds directories, each of which may hold one file, and users      *)
(* create, change, rename and move them at any moment. A directory is an   *)
(* object of its own: renaming it changes where it is, not what it is.     *)
(*                                                                         *)
(* A watcher owes the journal an event for every path that changes, unless *)
(* the path is gone again before anything was said about it.               *)
(***************************************************************************)
EXTENDS Naturals, Sequences, SequencesExt

CONSTANTS
    Names,          \* of directories in the root
    Objects,        \* directories there can ever be: a bound on how many appear
    Nothing,        \* no directory, no name
    MaxChanges      \* bound on the users' changes

ASSUME NothingIsNone == Nothing \notin Names \cup Objects

VARIABLES
    at,             \* the directory each name stands for
    full,           \* the directories with a file in them
    used,           \* the directories that have been in the tree
    changes,        \* how many changes there were
    changed,        \* paths that changed since an event about them was journaled
    known           \* paths that were there when the last one was

disk == <<at, full, used, changes>>
tree == <<disk, changed, known>>

File(n) == <<n, "x">>
Paths == {<<n>> : n \in Names} \cup {File(n) : n \in Names}
Below(p) == {q \in Paths : IsPrefix(p, q)}
Present == {<<n>> : n \in {m \in Names : at[m] # Nothing}} \cup {File(n) : n \in {m \in Names : at[m] \in full}}

Ops == {"mkdir", "rmdir", "add", "modify", "remove", "rename", "move out", "move in", "move in full"}
Fresh == CHOOSE o \in Objects : o \notin used

\* What users can do now: an operation, the name, and the new name of a rename.
Possible(c) ==
    /\ changes < MaxChanges
    /\ CASE c.op \in {"mkdir", "move in", "move in full"} -> at[c.name] = Nothing /\ used # Objects
         [] c.op = "rmdir"                                -> at[c.name] # Nothing /\ at[c.name] \notin full
         [] c.op = "add"                                  -> at[c.name] # Nothing /\ at[c.name] \notin full
         [] c.op \in {"modify", "remove"}                 -> at[c.name] \in full
         [] c.op = "rename"                               -> at[c.name] # Nothing /\ at[c.to] = Nothing
         [] c.op = "move out"                             -> at[c.name] # Nothing
    /\ c.op # "rename" => c.to = c.name

Change == [op : Ops, name : Names, to : Names]
Enters(c) == c.op \in {"mkdir", "move in", "move in full"}
FileMoves(c) == c.op = "move in full" \/ (c.op \in {"rename", "move out"} /\ at[c.name] \in full)

\* The paths a change touches.
Touched(c) ==
    CASE c.op \in {"add", "modify", "remove"} -> {File(c.name)}
      [] c.op \in {"mkdir", "rmdir"}          -> {<<c.name>>}
      [] OTHER -> {<<c.name>>, <<c.to>>} \cup (IF FileMoves(c) THEN {File(c.name), File(c.to)} ELSE {})

Happens(c) ==
    /\ Possible(c)
    /\ changes' = changes + 1
    /\ used' = IF Enters(c) THEN used \cup {Fresh} ELSE used
    /\ at' = CASE Enters(c)                          -> [at EXCEPT ![c.name] = Fresh]
               [] c.op \in {"rmdir", "move out"}     -> [at EXCEPT ![c.name] = Nothing]
               [] c.op = "rename"                    -> [at EXCEPT ![c.name] = Nothing, ![c.to] = at[c.name]]
               [] OTHER                              -> at
    /\ full' = CASE c.op = "add"          -> full \cup {at[c.name]}
                 [] c.op \in {"remove", "move out"} -> full \ {at[c.name]}
                 [] c.op = "move in full" -> full \cup {Fresh}
                 [] OTHER                 -> full

-----------------------------------------------------------------------------
(* Journaled events.                                                       *)

PathEvent(kind, p) == [kind |-> kind, path |-> p, to |-> p]
MoveEvent(p, q) == [kind |-> "move", path |-> p, to |-> q]
Rescan == [kind |-> "rescan", path |-> <<>>, to |-> <<>>]

\* The paths an event makes the engine look at: an audit follows a rescan and the
\* move of a directory, and a directory's deletion is about what it held.
Covers(e) ==
    CASE e.kind = "rescan"           -> Paths
      [] e.kind \in {"delete", "move"} -> Below(e.path) \cup Below(e.to)
      [] OTHER                       -> {e.path}
CoversAll(events) == UNION {Covers(e) : e \in events}

Announce(events) ==
    /\ changed' = changed \ CoversAll(events)
    /\ known' = (known \ CoversAll(events)) \cup (CoversAll(events) \cap Present)

\* What the watcher still owes.
Owed == changed \cap (known \cup Present)

TreeInit ==
    /\ at \in [Names -> Objects \cup {Nothing}]
    /\ \A n, m \in Names : at[n] = at[m] /\ at[n] # Nothing => n = m
    /\ used = {at[n] : n \in Names} \ {Nothing}
    /\ full \in SUBSET used
    /\ changes = 0 /\ changed = {} /\ known = Present
=============================================================================
