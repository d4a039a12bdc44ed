------------------------------- MODULE SendOnce -------------------------------
(* What a send promises, whichever way it takes: its message leaves once,  *)
(* for some of its recipients, or twice if it was taken and the one who    *)
(* sends it was not told; and a success is reported only for a message     *)
(* that has left.  A failure may be reported for one that leaves later.    *)
EXTENDS Naturals

CONSTANTS Sends, Recipients

VARIABLES
  copies,  (* the copies each recipient got of each message                *)
  doubt,   (* "lost": it left and nobody was told; "resent": and once more *)
  said     (* what the tool has reported of it                             *)

vars == <<copies, doubt, said>>

Unsent == [r \in Recipients |-> 0]

Init ==
  /\ copies = [s \in Sends |-> Unsent]
  /\ doubt = [s \in Sends |-> "none"]
  /\ said = [s \in Sends |-> "nothing"]

More(s, R) ==
  copies' = [copies EXCEPT ![s] = [r \in Recipients |-> IF r \in R THEN @[r] + 1 ELSE @[r]]]

Leave(s, R) ==
  /\ copies[s] = Unsent /\ said[s] # "ok"
  /\ More(s, R)
  /\ UNCHANGED <<doubt, said>>

LoseReply(s) ==
  /\ copies[s] # Unsent /\ doubt[s] = "none" /\ said[s] = "nothing"
  /\ doubt' = [doubt EXCEPT ![s] = "lost"]
  /\ UNCHANGED <<copies, said>>

LeaveAgain(s, R) ==
  /\ doubt[s] = "lost" /\ said[s] # "ok"
  /\ More(s, R)
  /\ doubt' = [doubt EXCEPT ![s] = "resent"]
  /\ UNCHANGED said

Report(s, answer) ==
  /\ said[s] = "nothing"
  /\ answer = "ok" => copies[s] # Unsent
  /\ said' = [said EXCEPT ![s] = answer]
  /\ UNCHANGED <<copies, doubt>>

Next ==
  \E s \in Sends :
    \/ \E R \in (SUBSET Recipients) \ {{}} : Leave(s, R) \/ LeaveAgain(s, R)
    \/ LoseReply(s)
    \/ \E answer \in {"ok", "failed"} : Report(s, answer)

Spec == Init /\ [][Next]_vars
===============================================================================
