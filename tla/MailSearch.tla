------------------------------ MODULE MailSearch ------------------------------
(***************************************************************************)
(* What search_messages answers: the IMAP search with its two ways to      *)
(* limit (imap_connector.py), the AppleScript scan (mail_connector.py) and *)
(* the query of the local index (local_db_connector.py), each as a function*)
(* of a mailbox and a query, and the IMAP search of all folders.           *)
(*                                                                         *)
(* A mailbox is a sequence of messages in the order of their UIDs, which is*)
(* also Mail's, reversed; a message is known by its place in it.  `at` is  *)
(* its date, `day` that on which the server received it (INTERNALDATE, in  *)
(* the server's time zone); `hit` says that it satisfies the filters every *)
(* backend can express: sender, subject, flags, text.                      *)
(***************************************************************************)
EXTENDS Naturals, Sequences, FiniteSets, SequencesExt, Lists

CONSTANTS
  Day,        (* ticks of the clock in a day: SINCE knows days only        *)
  FetchChunk, (* _FILTER_FETCH_CHUNK                                       *)
  Unset       (* a filter that is not given                                *)

ASSUME SearchAssumption ==
  Day \in Nat \ {0} /\ FetchChunk \in Nat \ {0} /\ Unset \notin Nat \cup BOOLEAN

Message == [at : Nat, day : Nat, att : BOOLEAN, hit : BOOLEAN]
Query   == [limit : Nat \cup {Unset}, att : BOOLEAN \cup {Unset}, cutoff : Nat \cup {Unset}]

(* A mailbox in the order of its messages' dates.                          *)
IsMailbox(box) ==
  box \in Seq(Message) /\ \A i, j \in DOMAIN box : i < j => box[i].at < box[j].at

(* The server's day of a message is not before the caller's.               *)
DatedInTime(box) == \A i \in DOMAIN box : box[i].day >= box[i].at \div Day

(* The places in the set, in the mailbox's order.                          *)
Uids(box, S) == Only([i \in DOMAIN box |-> i], S)

(* s[-n:] and s[:n], for a sequence s of at least or at most n elements.   *)
LastN(s, n)  == IF n = 0 \/ n >= Len(s) THEN s ELSE SubSeq(s, Len(s) - n + 1, Len(s))
FirstN(s, n) == IF n >= Len(s) THEN s ELSE SubSeq(s, 1, n)

HasWanted(m, q) == q.att = Unset \/ m.att = q.att
Recent(m, q)    == q.cutoff = Unset \/ m.at >= q.cutoff

-------------------------------------------------------------------------------
(* IMAP                                                                    *)

(* _build_search_criteria: SINCE the caller's day of the cutoff, of which  *)
(* the server asks its own day of the message.                             *)
SearchHits(box, q) ==
  Uids(box, {i \in DOMAIN box : /\ box[i].hit
                                /\ q.cutoff = Unset \/ box[i].day >= q.cutoff \div Day})

(* _search_selected: the limit cuts the UIDs before the FETCH when nothing *)
(* is left to filter.  Mutant: always, so that what the filter drops has   *)
(* used up the limit.                                                      *)
CandidatesCut(box, q) ==
  IF q.limit = Unset THEN SearchHits(box, q) ELSE LastN(SearchHits(box, q), q.limit)
Candidates(box, q) ==
  IF q.limit = Unset \/ q.att # Unset THEN SearchHits(box, q)
  ELSE LastN(SearchHits(box, q), q.limit)

(* _collect_search_rows: chunks from the newest end, the newest first.     *)
Chunks(uids, size) ==
  LET count == (Len(uids) + size - 1) \div size
      end(k) == Len(uids) - (k - 1) * size
      first(k) == IF end(k) > size THEN end(k) - size + 1 ELSE 1
  IN  FlattenSeq([k \in 1 .. count |-> Reverse(SubSeq(uids, first(k), end(k)))])

(* A message that has gone since the SEARCH is passed over, and the walk   *)
(* stops behind the row that reaches the limit: the first, for a limit 0.  *)
CollectRows(box, q, uids, gone) ==
  LET size == IF q.att # Unset /\ q.limit # Unset THEN FetchChunk ELSE Len(uids)
      rows == Only(IF uids = <<>> THEN <<>> ELSE Chunks(uids, size),
                   {i \in DOMAIN box \ gone : HasWanted(box[i], q)})
  IN  Reverse(IF q.att = Unset \/ q.limit = Unset THEN rows
              ELSE FirstN(rows, IF q.limit = 0 THEN 1 ELSE q.limit))

(* _filter_imap_results_to_cutoff, behind the limit.                       *)
ImapSearch(box, q, gone) ==
  Only(CollectRows(box, q, Candidates(box, q), gone), {i \in DOMAIN box : Recent(box[i], q)})

-------------------------------------------------------------------------------
(* AppleScript: from Mail's first message, the newest, to the first that   *)
(* is older than the cutoff, or to the limit; 0 is no limit.               *)
ScriptSearch(box, q) ==
  LET scanned == {i \in DOMAIN box : \A j \in i .. Len(box) : Recent(box[j], q)}
      rows == Reverse(Uids(box, {i \in scanned : box[i].hit /\ HasWanted(box[i], q)}))
  IN  IF q.limit \in {Unset, 0} THEN rows ELSE FirstN(rows, q.limit)

(* The local index: every filter in the WHERE clause, ORDER BY the date.   *)
LocalSearch(box, q) ==
  LET rows == Sorted({i \in DOMAIN box : box[i].hit /\ Recent(box[i], q)},
                     LAMBDA i, j : box[i].at > box[j].at)
  IN  IF q.limit = Unset THEN rows ELSE FirstN(rows, q.limit)

(* _local_db_search_supported: attachments are not in the index.           *)
LocalSupports(q) == q.att = Unset

-------------------------------------------------------------------------------
(* All folders over IMAP.  A folder is a record of whether it is an \All   *)
(* folder, whether it opens, and its matching messages as ids; `at` gives  *)
(* an id its date.                                                         *)

(* The folders of an account, of which at most one is an \All folder; ids  *)
(* are those of the messages that match.                                   *)
Folder(Name, Id) == [name : Name, all : BOOLEAN, opens : BOOLEAN, ids : Seq(Id)]

AreFolders(folders, Name, Id) ==
  /\ folders \in Seq(Folder(Name, Id))
  /\ \A j, k \in DOMAIN folders : j # k => /\ folders[j].name # folders[k].name
                                           /\ ~ (folders[j].all /\ folders[k].all)
  /\ \A k \in DOMAIN folders : \A i, j \in DOMAIN folders[k].ids :
       i # j => folders[k].ids[i] # folders[k].ids[j]

(* _selectable_folders: \All folders last.  Mutant: in the order of LIST.  *)
AsListed(folders) == [k \in DOMAIN folders |-> k]
InOrder(folders)  ==
  LET all == {k \in DOMAIN folders : folders[k].all}
  IN  Only(AsListed(folders), DOMAIN folders \ all) \o Only(AsListed(folders), all)

(* _search_all_folders: each folder gives its newest by UID; an \All row   *)
(* is dropped when its Message-ID was seen before; the newest by date stay.*)
FolderRow(f, id) == [id |-> id, folder |-> f.name, all |-> f.all]
FolderRows(folders, limit) ==
  LET opened   == Only(InOrder(folders), {k \in DOMAIN folders : folders[k].opens})
      given(f) == IF limit = Unset THEN f.ids ELSE LastN(f.ids, limit)
      rows(f)  == [j \in DOMAIN given(f) |-> FolderRow(f, given(f)[j])]
  IN  FlattenSeq([i \in DOMAIN opened |-> rows(folders[opened[i]])])

AllFoldersSearch(folders, limit, at) ==
  LET rows  == FolderRows(folders, limit)
      kept  == {k \in DOMAIN rows : ~ (rows[k].all /\ \E j \in 1 .. k - 1 : rows[j].id = rows[k].id)}
      older(j, k) == at[rows[j].id] < at[rows[k].id] \/ (at[rows[j].id] = at[rows[k].id] /\ j < k)
      sorted == Sorted(kept, older)
      shown == IF limit = Unset THEN sorted ELSE LastN(sorted, limit)
  IN  IF limit = 0 THEN <<>> ELSE [n \in DOMAIN shown |-> rows[shown[n]]]

-------------------------------------------------------------------------------
(* The references: the newest n of a set of places, and of a set of rows.  *)
Newest(S, n) == IF n = Unset THEN S ELSE {i \in S : Cardinality({j \in S : j > i}) < n}

Matches(box, q) == {i \in DOMAIN box : box[i].hit /\ HasWanted(box[i], q) /\ Recent(box[i], q)}

(* On a mailbox whose messages arrived in the order of their dates, and    *)
(* for a limit of at least 1, every backend answers with the newest        *)
(* messages that match, as many as the limit allows: whichever answers,    *)
(* the caller sees the same (the comment in _search_selected).  IMAP, on a *)
(* server whose days are not behind the caller's, leaves out those that    *)
(* vanish between its commands; they use up the limit only when it was     *)
(* applied before the FETCH.                                               *)
SearchFindsNewest(box, q, gone) ==
  LET there == Matches(box, q) \ gone IN
  /\ DatedInTime(box) =>
       ToSet(ImapSearch(box, q, gone)) =
         IF q.att = Unset THEN Newest(Matches(box, q), q.limit) \ gone ELSE Newest(there, q.limit)
  /\ ToSet(ScriptSearch(box, q)) = Newest(Matches(box, q), q.limit)
  /\ LocalSupports(q) => ToSet(LocalSearch(box, q)) = Newest(Matches(box, q), q.limit)

(* The search of all folders lists every message that the folders which    *)
(* open have, a copy per real folder, and one it has from an \All folder   *)
(* only if none of them has it; of these it keeps the newest.  So the      *)
(* docstring of _search_all_folders, for folders that match no more than   *)
(* the limit.                                                              *)
AllFoldersFound(folders, limit, at) ==
  LET open     == {k \in DOMAIN folders : folders[k].opens}
      has(all) == {c \in open \X DOMAIN at : /\ folders[c[1]].all = all
                                             /\ Contains(folders[c[1]].ids, c[2])}
      row(c)   == <<folders[c[1]].name, c[2]>>
      real     == {row(c) : c \in has(FALSE)}
      archived == {row(c) : c \in {d \in has(TRUE) : \A r \in real : r[2] # d[2]}}
      result   == AllFoldersSearch(folders, limit, at)
      rows     == {<<result[n].folder, result[n].id>> : n \in DOMAIN result}
      expected == real \cup archived
  IN  (limit # Unset => \A k \in open : Len(folders[k].ids) <= limit) =>
        /\ rows \subseteq expected
        /\ Len(result) = Cardinality(rows)
        /\ rows = expected \/ Cardinality(rows) = limit
        /\ \A r \in rows, e \in expected \ rows : at[e[2]] <= at[r[2]]
===============================================================================
