----------------------------- MODULE MCBusyPath -----------------------------
(* SyncEngine with one local file that is rewritten for ever, a log for    *)
(* instance: does the rest of the workspace still synchronise?             *)
EXTENDS SyncEngine

CONSTANT BusyPath

\* The busy file alternates between two entries, without using up edits.
Rewrite ==
    /\ disk[<<"local", BusyPath>>] # Missing
    /\ \E v \in Versions \ {disk[<<"local", BusyPath>>]} :
          disk' = [disk EXCEPT ![<<"local", BusyPath>>] = v]
    /\ raw' = [raw EXCEPT !["local"] = @ \cup {BusyPath}]
    /\ UNCHANGED <<pend, stores, pc, cycle, bounds, history>>

BusySpec == Init /\ [][Next \/ Rewrite]_vars /\ Fairness

\* A busy path does not stop the others: a path that is left alone is
\* eventually the same everywhere, or in conflict.
OthersConverge ==
    \A p \in Paths \ {BusyPath} : <>[](p \in conflicts \/ Agreed(p))

=============================================================================
