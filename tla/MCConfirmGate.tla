----------------------------- MODULE MCConfirmGate -----------------------------
(* ConfirmGate on small sets: the tier of the sends, whose operations all   *)
(* ask, and that of the rules, with an operation that looks a rule up       *)
(* before it asks and one that does not ask.                                *)
EXTENDS ConfirmGate, TLC

CONSTANTS deleteRule, search, sendA, sendB

SendOps == {sendA, sendB}
RuleOps == {deleteRule, search}

(* What differs in name differs in its digest.                             *)
SendDigest == [o \in SendOps |-> o]
RuleDigest == [o \in RuleOps |-> o]

Symmetry == Permutations(Requests)
===============================================================================
