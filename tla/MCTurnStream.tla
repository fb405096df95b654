---------------------------- MODULE MCTurnStream ----------------------------
(* Small instances of TurnStream: watchers are interchangeable.            *)
EXTENDS TurnStream, TLC

Symmetry == Permutations(Watchers)
=============================================================================
