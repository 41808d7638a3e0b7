---------------------------- MODULE MCStatusMoves ----------------------------
(* Small instances of StatusMoves for TLC. *)
EXTENDS StatusMoves, TLC

CONSTANTS p, q

(* No property of the runs that use it is a liveness property. *)
BoardsAlike == Permutations(Boards)
=============================================================================
