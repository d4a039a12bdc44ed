----------------------------- MODULE MCAlgorithms -----------------------------
(* The algorithms on small inputs.                                         *)
EXTENDS Algorithms, TLC

SmallDigits == [n \in 0 .. 3 |-> ToString(n)]

(* Boxes of three messages in the order of their dates, over three days,   *)
(* on a server of the same time zone, or of one half a day ahead.          *)
SmallRows(ahead) == {m \in [at : 0 .. 5, day : 0 .. 3, att : BOOLEAN, hit : BOOLEAN] :
                       m.day = (m.at + ahead) \div Day}
SmallBoxes == {b \in [1 .. 3 -> SmallRows(0)] \cup [1 .. 3 -> SmallRows(1)] :
                 \A i \in 1 .. 2 : b[i].at < b[i + 1].at}
SmallQueries == [limit : {Unset, 1, 2}, att : {Unset, TRUE}, cutoff : {Unset} \cup 1 .. 5]
SmallVanishing == {{}, {1}, {3}}

(* Two folders and an \All folder, in each order of LIST; three messages.  *)
FolderIds == {<<>>, <<1>>, <<2>>, <<3>>, <<1, 2>>, <<1, 3>>, <<2, 3>>, <<3, 1>>, <<1, 2, 3>>}
SmallFolders ==
  {LET folder(name, all, ids) == [name |-> name, all |-> all, opens |-> name # shut, ids |-> ids]
       two == <<folder("x", FALSE, x), folder("y", FALSE, y)>>
   IN  SubSeq(two, 1, place - 1) \o <<folder("z", TRUE, z)>> \o SubSeq(two, place, 2) :
     x \in FolderIds, y \in FolderIds, z \in FolderIds,
     shut \in {Null, "x", "y", "z"}, place \in 1 .. 3}
SmallIds == 0 .. 3
SmallDates == [i \in SmallIds |-> i]
SmallLimits == {Unset} \cup 0 .. 4

(* Three messages: a reply, and one that replies to either or to none, with*)
(* up to two copies of each.  Only Mail looks at subjects, only IMAP at    *)
(* what the server offers.                                                 *)
Copies == {{}, {Inbox}, {Sent}, {Trash}, {Inbox, Sent}, {Inbox, Trash}}
SmallAccounts ==
  [parent : {<<0, 1, p>> : p \in 0 .. 2}, where : [1 .. 3 -> Copies],
   open : {Folders, Folders \ {Sent}, Folders \ {Trash}}, subject : {1 .. 3}, offers : SUBSET Offers]
  \cup
  [parent : {<<0, 1, p>> : p \in 0 .. 2}, where : [1 .. 3 -> Copies],
   open : {Folders, Folders \ {Sent}}, subject : {{1}, {2}, {3}}, offers : {{}}]

(* Three candidates of which each names any of four ids, its own included. *)
SmallCandidates ==
  {[i \in 1 .. 3 |-> [id |-> i, rfc |-> i, names |-> n[i]]] :
     n \in {f \in [1 .. 3 -> SUBSET SmallIds] : \A i \in 1 .. 3 : i \in f[i]}}
SmallKnown == SUBSET SmallIds

(* Three attachments that differ in size, or in name, one file or some in  *)
(* the directory.                                                          *)
SmallParts == {"a", "A", "b", "m", "1", "2", "3", "old", "other"}
SmallAttachments ==
  {[i \in 1 .. 3 |-> [name |-> <<Digits[i]>>, size |-> s[i], reported |-> r[i]]] :
     s \in [1 .. 3 -> 1 .. 3], r \in [1 .. 3 -> {0, 2}]}
  \cup {[i \in 1 .. 3 |-> [name |-> n[i], size |-> 0, reported |-> 0]] :
          n \in [1 .. 3 -> {<<"a">>, <<"A">>, <<"b">>, <<"2", "a">>}]}
SmallFile(body, n) == [body |-> <<body>>, size |-> n]
SmallSaves ==
  [indices : {Null, <<2>>, <<3, 1>>, <<2, 1, 3>>}, failed : {{}, {1}, {2}, {3}},
   dir : {<<"s">> :> SmallFile("old", 1)}, subject : {"s"},
   message : {Null} \cup {SmallFile("m", n) : n \in 1 .. 4}]
  \cup [indices : {Null, <<3, 1>>, <<2, 1, 3>>}, failed : {{}},
        dir : {[k \in there |-> SmallFile(body, 1)] :
                 there \in SUBSET {<<"a">>, <<"c">>, <<"c", "2">>}, body \in {"m", "other"}},
        subject : {"a", "c"}, message : {SmallFile("m", 1)}]

(* Parts of up to four lines, and every range of them.                     *)
SmallSizes == 1 .. 24
SmallRanges == [offset : 0 .. 25, max : {Null} \cup 1 .. 8]
===============================================================================
