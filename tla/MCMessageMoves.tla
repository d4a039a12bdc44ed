---------------------------- MODULE MCMessageMoves ----------------------------
(* MessageMoves on small sets, for TLC.                                    *)
EXTENDS MessageMoves, TLC

(* Calls and messages are only compared.                                   *)
Symmetry == Permutations(Calls) \cup Permutations(Messages)
===============================================================================
