----------------------------- MODULE MCMailboxTree -----------------------------
(* MailboxTree on a small account: a mailbox with a child, perhaps the     *)
(* staging mailbox with one of the same name in it already.                *)
EXTENDS MailboxTree, TLC

CONSTANTS a, box1, box2, box3, box4

P(n)      == << Leaf(n) >>
Sub(n, m) == << Leaf(n), Leaf(m) >>

Four(p1, p2, p3, p4) ==
  [b \in Boxes |-> IF b = box1 THEN p1 ELSE IF b = box2 THEN p2
                   ELSE IF b = box3 THEN p3 ELSE p4]
Account(p1, p2, p3) == Four(p1, p2, p3, None)

SmallStarts ==
  { Account(P(a), Sub(a, a), None),
    Account(P(a), P(Staging), Sub(Staging, a)),
    Account(<< <<Staging, <<2>> >> >>, P(Variant), P(a)),
    Four(P(a), Sub(a, a), P(Staging), << Leaf(Staging), Leaf(a), Leaf(a) >>) }

Want(tool, at, cascade, to, rename) ==
  [tool |-> tool, at |-> at, cascade |-> cascade, to |-> to, rename |-> rename]

SmallWants ==
  { Want("delete", at, TRUE, None, FALSE) :
      at \in { P(a), Sub(a, a), << <<Staging, <<2>> >> >>, P(Inbox), P(Variant) } }
  \cup { Want("delete", at, cascade, None, FALSE) :
      at \in { P(Staging), Sub(Staging, a) }, cascade \in BOOLEAN }
  \cup { Want("update", P(a), FALSE, Sub(Staging, a), FALSE),
         Want("update", P(a), FALSE, P(Variant), TRUE),
         Want("update", Sub(a, a), FALSE, P(Inbox), FALSE),
         Want("update", P(Inbox), FALSE, P(Staging), FALSE),
         Want("update", P(a), FALSE, Sub(Gmail, a), FALSE),
         Want("create", P(Staging), FALSE, None, FALSE),
         Want("messages", P(a), FALSE, None, FALSE) }

Symmetry == Permutations(Calls)
===============================================================================
