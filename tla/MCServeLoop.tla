----------------------------- MODULE MCServeLoop -----------------------------
(* Small instances of ServeLoop: requests are interchangeable.             *)
EXTENDS ServeLoop, TLC

Symmetry == Permutations(Turns) \cup Permutations(Reloads)
=============================================================================
