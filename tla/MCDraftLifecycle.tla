--------------------------- MODULE MCDraftLifecycle ---------------------------
(***************************************************************************)
(* DraftLifecycle for TLC: one document, named as answered, with two       *)
(* updates, a delete and every failure; and two documents, a forward and   *)
(* another, with one update, named in any way, where calls do not fail.    *)
(***************************************************************************)
EXTENDS DraftLifecycle, FiniteSets

CONSTANTS c1, c2, u1, u2

Started == {c \in Calls : pc[c] # "ready"}
Made    == {i \in Ids : at[i] # "unmade"}
Failed  == {c \in Calls : pc[c] \in {"erred", "timedout", "failed", "killed"}}

OneDocument == c2 \notin Started /\ strayed = {}

TwoDocuments ==
  /\ Started \subseteq {c1, c2, u1} /\ Cardinality(Made) <= 3 /\ Failed = {}
  /\ seed[c1] # "forward" /\ seed[c2] \in {"new", "forward"}

(* Updates are alike, and it does not matter which create starts first.    *)
Bounded ==
  /\ c2 \in Started => c1 \in Started
  /\ u2 \in Started => u1 \in Started
  /\ OneDocument \/ TwoDocuments
===============================================================================
