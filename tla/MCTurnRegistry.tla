--------------------------- MODULE MCTurnRegistry ---------------------------
(* Small instances of TurnRegistry: model values and symmetry.             *)
EXTENDS TurnRegistry, TLC

Symmetry == Permutations(Sessions) \cup Permutations(Turns)
=============================================================================
