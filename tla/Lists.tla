-------------------------------- MODULE Lists ----------------------------------
(* Lists that are filtered and sorted, in a form that can be reasoned about*)
(* (SelectSeq and SortSeq are not).                                        *)
EXTENDS Naturals, Sequences, FiniteSets

(* The elements of s that are in the set `keep`, after each of its places. *)
Kept(s, keep) ==
  LET after[k \in 0 .. Len(s)] ==
        IF k = 0 THEN <<>>
        ELSE IF s[k] \in keep THEN Append(after[k - 1], s[k]) ELSE after[k - 1]
  IN  after

(* [x for x in s if x in keep]                                             *)
Only(s, keep) == Kept(s, keep)[Len(s)]

(* sorted(S), when `Before` orders S: each by how many are before it.      *)
Sorted(S, Before(_, _)) ==
  [n \in 1 .. Cardinality(S) |->
     CHOOSE x \in S : Cardinality({y \in S : Before(y, x)}) = n - 1]
===============================================================================
