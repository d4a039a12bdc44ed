----------------------------- MODULE MCReadBackends ----------------------------
(* ReadBackends on two accounts: each kind of read once, about the first   *)
(* account where one is named.                                             *)
EXTENDS ReadBackends

CONSTANTS a1, a2

AllReads ==
  { [op |-> "search", acct |-> a1, all |-> FALSE, plain |-> TRUE],
    [op |-> "search", acct |-> a1, all |-> TRUE, plain |-> FALSE],
    [op |-> "get", acct |-> a1, rfc |-> TRUE],
    [op |-> "get", acct |-> None, rfc |-> FALSE],
    [op |-> "thread", rfc |-> TRUE],
    [op |-> "thread", rfc |-> FALSE] }

Threads == {[op |-> "thread", rfc |-> TRUE]}
=============================================================================
