----------------------------- MODULE MCBinding -----------------------------
(* Model-checking instance of Binding; its model values are interchangeable. *)
EXTENDS Binding, TLC
Symmetry ==
    Permutations(Workspaces) \cup Permutations(Callers) \cup Permutations(Generations)
        \cup Permutations(Names) \cup Permutations(Locals) \cup Permutations(Roots)
=============================================================================
