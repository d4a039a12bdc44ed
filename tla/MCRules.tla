-------------------------------- MODULE MCRules --------------------------------
(* Rules on small sets: two names, a mailbox that exists and one that does *)
(* not, and the calls that differ in what they ask and what they change.   *)
EXTENDS Rules, TLC

CONSTANTS a, b, box, gone

Create(n, acts, to) ==
  [tool |-> "create", name |-> n, acts |-> acts, dest |-> to, scope |-> "any",
   enabled |-> FALSE, at |-> 0, conditions |-> FALSE]
Update(i, n, acts, to, scope, on) ==
  [tool |-> "update", name |-> n, acts |-> acts, dest |-> to, scope |-> scope,
   enabled |-> on, at |-> i, conditions |-> FALSE]
Delete(i) == [Update(i, None, {}, None, None, None) EXCEPT !.tool = "delete"]

SmallOps ==
  { Create(a, {"move", "read"}, box), Create(b, {"delete"}, None), Create(a, {"move"}, gone), Create(a, {}, None),
    Update(1, b, {"read"}, None, None, FALSE), Update(2, None, {"move", "delete"}, box, None, TRUE),
    Update(2, a, {}, None, "any", None), Update(1, None, {"move"}, gone, None, None),
    Delete(1), Delete(2) }
  \cup {[Update(1, a, {}, None, None, TRUE) EXCEPT !.conditions = TRUE]}

Start(n) == [name |-> n, acts |-> {"read"}, dest |-> None, scope |-> "all", enabled |-> TRUE]
SmallStarts == { <<Start(a), Start(b)>>, <<Start(a), Start(a)>>, <<Start(b)>> }

Symmetry == Permutations(Calls)
===============================================================================
