------------------------------- MODULE MCWatchers ------------------------------
(***************************************************************************)
(* The two watchers for TLC. A tree has one of them, so their behaviours   *)
(* are checked side by side: the other is never started.                   *)
(***************************************************************************)
EXTENDS InotifyWatcher, LocalWatcher

vars == <<tree, inotify, local>>

Init ==
    /\ TreeInit /\ InotifyInit /\ LocalInit
    /\ task = NotStarted <=> stage = "on"

Next ==
    \/ task # NotStarted /\ InotifyNext /\ UNCHANGED local
    \/ stage # "not started" /\ LocalNext /\ UNCHANGED inotify

Spec == Init /\ [][Next]_vars

\* What the watchers' bookkeeping holds.
TypeOK == InotifyTypeOK /\ LocalTypeOK
=============================================================================
