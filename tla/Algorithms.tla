------------------------------ MODULE Algorithms ------------------------------
(***************************************************************************)
(* The computations of MailSearch, Threads and Attachments, asked for any  *)
(* inputs: a step chooses a request for the data that were chosen before,  *)
(* and each property says what the answers to the requests of its kind     *)
(* promise.                                                                *)
(***************************************************************************)
EXTENDS MailSearch, Threads, Attachments

CONSTANTS
  MessageIds,                (* messages                                   *)
  Boxes, Queries, Vanishing, (* the mailboxes, what is asked of them, and  *)
                             (* which messages vanish meanwhile            *)
  FolderNames, FolderLists, Dates, Limits, (* a search of all folders      *)
  MailAccounts,              (* the accounts that hold conversations       *)
  CandidateLists, KnownIdSets, (* what walk_thread_graph is given          *)
  NameParts, AttachmentLists, Saves, (* the attachments and their saving   *)
  PartSizes, Ranges          (* base64 parts, and the ranges read of them  *)

ASSUME InputsAssumption ==
  /\ \A box \in Boxes : IsMailbox(box)
  /\ \A q \in Queries : q \in Query /\ q.limit # 0
  /\ \A folders \in FolderLists : AreFolders(folders, FolderNames, MessageIds)
  /\ Dates \in [MessageIds -> Nat] /\ Limits \subseteq Nat \cup {Unset}
  /\ \A t \in MailAccounts : IsAccount(t)
  /\ \A cands \in CandidateLists : cands \in Seq(Candidate(MessageIds, MessageIds)) /\ OneEach(cands)
  /\ \A known \in KnownIdSets : known \subseteq MessageIds
  /\ \A atts \in AttachmentLists : atts \in Seq(Attachment(NameParts))
                                   /\ \A i \in DOMAIN atts : i - 1 \in DOMAIN Digits
  /\ \A n \in 1 .. MaxNames : n \in DOMAIN Digits
  /\ \A save \in Saves :
       /\ save.indices = Null \/ save.indices \in Seq(Nat)
       /\ save.dir \in [DOMAIN save.dir -> Content(NameParts)]
       /\ save.message \in Content(NameParts) \cup {Null}
  /\ PartSizes \subseteq Nat \ {0}
  /\ Ranges \subseteq [offset : Nat, max : Nat \cup {Null}]

VARIABLES data, ask

AlgorithmsInit ==
  /\ ask = Null
  /\ data \in [kind : {"search"}, box : Boxes] \cup [kind : {"folders"}, folders : FolderLists]
         \cup [kind : {"thread"}, account : MailAccounts] \cup [kind : {"walk"}, cands : CandidateLists]
         \cup [kind : {"save"}, atts : AttachmentLists]
         \cup [kind : {"range"}, n : PartSizes, ended : BOOLEAN]

Asking(kind, requests) ==
  data.kind = kind /\ ask = Null /\ ask' \in requests /\ UNCHANGED data

AskSearch  == Asking("search", [q : Queries, gone : Vanishing])
AskFolders == Asking("folders", Limits)
(* The anchor is in a mailbox, and its subject contains itself.            *)
AskThread  == Asking("thread", {m \in data.account.subject : data.account.where[m] # {}})
AskWalk    == Asking("walk", KnownIdSets)
(* _require_attachment_indices_in_range                                    *)
AskSave    == Asking("save", {save \in Saves : save.indices = Null
                                               \/ ToSet(save.indices) \subseteq DOMAIN data.atts})
AskRange   == Asking("range", Ranges)

AlgorithmsNext == AskSearch \/ AskFolders \/ AskThread \/ AskWalk \/ AskSave \/ AskRange

AlgorithmsSpec == AlgorithmsInit /\ [][AlgorithmsNext]_<<data, ask>>

Asked(kind) == data.kind = kind /\ ask # Null

-------------------------------------------------------------------------------
NewestMatching  == Asked("search") => SearchFindsNewest(data.box, ask.q, ask.gone)
AllFoldersExact == Asked("folders") => AllFoldersFound(data.folders, ask, Dates)
WholeThread     == Asked("thread") => ThreadIsWhole(data.account, ask)
WalkClosed      == Asked("walk") => WalkIsClosure(ask, data.cands)
CapsHold ==
  Asked("save") => CapsKept(data.atts, ask.indices, ask.dir, ask.subject, ask.message, ask.failed)
NothingOverwritten ==
  Asked("save") => EachKept(data.atts, ask.indices, ask.dir, ask.subject, ask.message)
WindowExact == Asked("range") => RangeExact(data.n, data.ended, ask.offset, ask.max)
===============================================================================
