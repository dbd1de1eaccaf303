------------------------------- MODULE ChangeSet -------------------------------
(***************************************************************************)
(* What the engine relies on of a journal: a set of noted changes, from    *)
(* which a cycle takes all that were there when it asked, and which it     *)
(* either settles or leaves as they were. RemoteJournal implements it with *)
(* numbered rows, watermarks and two importing threads; SyncEngine is      *)
(* built on it (`raw', `pend' and `cap' there are `changed', `noted' and   *)
(* `taken' here, and its Capture asks and takes in one step).              *)
(***************************************************************************)
CONSTANTS
    Paths,      \* the workspace paths that may change
    AnyPath     \* noted when changes were lost: a rescan of all paths

VARIABLES
    changed,    \* changes the watcher has still to note
    noted,      \* noted changes no cycle has taken
    asked,      \* what the cycle that has asked will take
    taken       \* what the cycle works on

vars == <<changed, noted, asked, taken>>

Init == changed = {} /\ noted = {} /\ asked = {} /\ taken = {}

\* A path changes.
Change(p) ==
    /\ changed' = changed \cup {p}
    /\ UNCHANGED <<noted, asked, taken>>

\* The watcher notes changes: append_event.
Note(S) ==
    /\ changed' = changed \ S /\ noted' = noted \cup S
    /\ UNCHANGED <<asked, taken>>

\* It lost some.
NoteAny ==
    /\ changed' = {} /\ noted' = noted \cup {AnyPath}
    /\ UNCHANGED <<asked, taken>>

\* A cycle asks what there is: the events after its watermark.
Ask ==
    /\ taken = {} /\ asked' = noted
    /\ UNCHANGED <<changed, noted, taken>>

\* It takes all of that, and may take what was noted meanwhile. A path that was
\* noted twice can be taken and noted.
Take ==
    /\ taken = {} /\ asked' = {}
    /\ asked \subseteq taken' /\ taken' \cup noted' = noted
    /\ UNCHANGED changed

\* Its commit acknowledges what it took and nothing else.
Settle ==
    /\ taken' = {}
    /\ UNCHANGED <<changed, noted, asked>>

\* It fails, requeues its paths or crashes, wherever it is: everything is noted as before.
Return ==
    /\ noted' = noted \cup taken /\ asked' = {} /\ taken' = {}
    /\ UNCHANGED changed

Next ==
    \/ \E p \in Paths : Change(p)
    \/ \E S \in SUBSET changed : Note(S)
    \/ NoteAny \/ Ask \/ Take \/ Settle \/ Return

Spec == Init /\ [][Next]_vars
=============================================================================
