------------------------------ MODULE MCImapPool ------------------------------
(* ImapPool on small sets, for TLC.                                        *)
EXTENDS ImapPool, TLC

(* Threads, keys and clients are only compared, so any two of a kind may   *)
(* be exchanged.                                                           *)
Symmetry == Permutations(Threads) \cup Permutations(Keys) \cup Permutations(Conns)
===============================================================================
