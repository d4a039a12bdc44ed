-------------------------------- MODULE Threads --------------------------------
(***************************************************************************)
(* How get_thread collects a conversation: over IMAP in four tiers, chosen *)
(* by what the server advertises (imap_connector.py), and through Mail, by *)
(* subject and a walk of the reference graph (mail_connector.py, utils.py).*)
(*                                                                         *)
(* The account is a record: the parent of each message (0 for none), the   *)
(* folders that hold a copy of it, the folders that a session can open, the*)
(* messages whose subject contains the anchor's, and the tiers that the    *)
(* server advertises and does not reject half way.                         *)
(* Messages are numbered by their date.  A reply's References header is its*)
(* parent's with the parent added: the "well-formed replies" of            *)
(* _find_thread_members_bfs.                                               *)
(***************************************************************************)
EXTENDS Naturals, Sequences, FiniteSets, SequencesExt, Lists

CONSTANTS
  MaxPasses, (* max_iterations of walk_thread_graph, 100 in the code       *)
  Inbox, Sent, Trash (* the folders                                        *)

ASSUME ThreadsAssumption == MaxPasses \in Nat \ {0}

Folders == {Inbox, Sent, Trash}
Offers  == {"allMail", "mailbox", "thread"}

IsAccount(t) ==
  /\ t.parent \in Seq(Nat) /\ \A m \in DOMAIN t.parent : t.parent[m] < m
  /\ t.where \in [DOMAIN t.parent -> SUBSET Folders]
  /\ t.open \subseteq Folders /\ t.subject \subseteq DOMAIN t.parent /\ t.offers \subseteq Offers

Headers(t) ==
  LET refs[m \in DOMAIN t.parent] ==
        IF t.parent[m] = 0 THEN {} ELSE {t.parent[m]} \cup refs[t.parent[m]]
  IN  refs
References(t, m) == Headers(t)[m]
Named(t, m)      == {m} \cup References(t, m) (* Message-ID, In-Reply-To, References *)

In(t, f)      == {m \in DOMAIN t.parent : f \in t.where[m]}
OpenFolders(t) == Folders \cap t.open

-------------------------------------------------------------------------------
(* IMAP                                                                    *)

(* The ids a search of the headers starts from.  Mutant: the anchor's own, *)
(* which finds its replies only.                                           *)
KnownAnchorOnly(t, a) == {a}
KnownIds(t, a)        == {a} \cup References(t, a)

(* _find_thread_members_bfs: one pass over every folder.                   *)
HeaderSearch(t, a) ==
  UNION {{m \in In(t, f) : Named(t, m) \cap KnownIds(t, a) # {}} : f \in OpenFolders(t)}

(* What the server keeps as one X-GM-THRID.                                *)
Conversation(t, a) ==
  {m \in DOMAIN t.parent : Named(t, m) \cap Named(t, a) # {}}

(* _thread_via_xgm_thrid: all mail but what is in the trash only.          *)
AllMail(t)      == {m \in DOMAIN t.parent : t.where[m] \ {Trash} # {}}
ByAllMail(t, a) == IF a \in AllMail(t) THEN Conversation(t, a) \cap AllMail(t) ELSE {}

(* _thread_via_xgm_per_mailbox: the anchor from INBOX or Sent, then every  *)
(* folder.                                                                 *)
AnchorFolders(t) == {Inbox, Sent} \cap OpenFolders(t)
ByMailbox(t, a)  ==
  IF t.where[a] \cap AnchorFolders(t) = {} THEN {}
  ELSE UNION {Conversation(t, a) \cap In(t, f) : f \in OpenFolders(t)}

(* _thread_via_imap_thread: a folder that has neither the anchor nor a     *)
(* message that refers to it is passed over; in the others, the clusters   *)
(* of THREAD, which joins the messages of a folder by their headers.       *)
Relevant(t, a, f) == {m \in In(t, f) : a \in Named(t, m)}
ByThread(t, a) ==
  UNION {Conversation(t, a) \cap In(t, f) : f \in {g \in OpenFolders(t) : Relevant(t, a, g) # {}}}

(* find_thread_members: a tier that is not offered, is rejected or finds   *)
(* nothing (None in the code) hands on to the next.                        *)
Offered(t, offer, found) == IF offer \in t.offers THEN found ELSE {}
Tiers(t, a) ==
  <<Offered(t, "allMail", ByAllMail(t, a)), Offered(t, "mailbox", ByMailbox(t, a)),
    Offered(t, "thread", ByThread(t, a)), HeaderSearch(t, a)>>
ImapThread(t, a) ==
  LET tiers   == Tiers(t, a)
      answers == {k \in DOMAIN tiers : tiers[k] # {}}
  IN  IF answers = {} THEN {} ELSE tiers[Min(answers)]

-------------------------------------------------------------------------------
(* Mail                                                                    *)

(* A candidate: its id in Mail, and those its headers name.                *)
Candidate(I, R) == [id : I, rfc : R, names : SUBSET R]

(* An id of Mail's is that of one message, however many mailboxes list it. *)
OneEach(cands) ==
  \A j, k \in DOMAIN cands : cands[j].id = cands[k].id => cands[j].names = cands[k].names

(* walk_thread_graph.  A candidate is accepted when one of the ids it names*)
(* is known, and makes the others known.  Mutant: its own id only.         *)
AcceptOwnId(walk, cand) ==
  IF cand.id \notin walk.accepted /\ cand.names \cap walk.known # {}
  THEN [accepted |-> walk.accepted \cup {cand.id}, known |-> walk.known \cup {cand.rfc}]
  ELSE walk
Accept(walk, cand) ==
  IF cand.id \notin walk.accepted /\ cand.names \cap walk.known # {}
  THEN [accepted |-> walk.accepted \cup {cand.id}, known |-> walk.known \cup cand.names]
  ELSE walk

(* A pass: the walk after each of the candidates, in their order.          *)
Pass(walk, cands) ==
  LET after[k \in 0 .. Len(cands)] ==
        IF k = 0 THEN walk ELSE Accept(after[k - 1], cands[k])
  IN  after

(* The walk after each pass.                                               *)
Walk(known, cands) ==
  LET after[n \in 0 .. MaxPasses] ==
        IF n = 0 THEN [accepted |-> {}, known |-> known]
        ELSE Pass(after[n - 1], cands)[Len(cands)]
  IN  after

WalkThreadGraph(known, cands) == Walk(known, cands)[MaxPasses].accepted

(* _collect_thread_applescript: the messages of every mailbox whose subject*)
(* contains the anchor's, the newest first, a copy per mailbox; the first  *)
(* copy of the anchor is in the thread without the walk.                   *)
FolderHits(t, f) ==
  LET hits   == IF f \in t.open THEN In(t, f) \cap t.subject ELSE {}
      newest == Only(Reverse([m \in DOMAIN t.parent |-> m]), hits)
  IN  [i \in DOMAIN newest |->
        [id |-> <<newest[i], f>>, rfc |-> newest[i], names |-> Named(t, newest[i])]]
SubjectHits(t) == FolderHits(t, Inbox) \o FolderHits(t, Sent) \o FolderHits(t, Trash)

ScriptThread(t, a) ==
  LET hits == SubjectHits(t)
      own == SelectInSeq(hits, LAMBDA c : c.rfc = a)
      others == IF own = 0 THEN hits ELSE RemoveAt(hits, own)
      first == IF own = 0 THEN <<a, Inbox>> ELSE hits[own].id
  IN  {first} \cup WalkThreadGraph(KnownIds(t, a), others)

-------------------------------------------------------------------------------
(* Every way to collect a conversation yields the whole of it, as far as   *)
(* the folders that open hold it, and nothing else: the one pass of the    *)
(* header search finds ancestors, descendants and siblings at any depth    *)
(* (the argument of its docstring), Gmail's tiers agree with it, up to the *)
(* messages that only the trash holds, whichever of them answers; a        *)
(* server's THREAD finds the part in the folders where something refers to *)
(* the anchor; and Mail, when no subject was rewritten, finds it too.      *)
ThreadIsWhole(t, a) ==
  LET whole == Conversation(t, a) \cap UNION {In(t, f) : f \in OpenFolders(t)}
      byImap == ImapThread(t, a)
      byMail == {row[1] : row \in ScriptThread(t, a)}
  IN  /\ HeaderSearch(t, a) = whole
      /\ byImap \subseteq Conversation(t, a)
      /\ \/ whole \cap AllMail(t) \subseteq byImap
         \/ "thread" \in t.offers /\ byImap = ByThread(t, a)
      /\ \A f \in OpenFolders(t) : Relevant(t, a, f) # {} => whole \cap In(t, f) \subseteq ByThread(t, a)
      /\ byMail \subseteq whole \cup {a}
      /\ whole \subseteq t.subject => byMail = whole \cup {a}

(* The candidates that share an id with a set of ids, and that set with all*)
(* the ids they name, as often as there are candidates.                    *)
Linked(cands, K) == {k \in DOMAIN cands : cands[k].names \cap K # {}}

Widened(cands, K) == K \cup UNION {cands[k].names : k \in Linked(cands, K)}

Reach(known, cands) ==
  LET after[n \in 0 .. Len(cands)] ==
        IF n = 0 THEN known ELSE Widened(cands, after[n - 1])
  IN  after

(* The walk accepts exactly the candidates that a chain of shared ids      *)
(* connects to what is known, in whatever order Mail lists them, when there*)
(* are no more candidates than passes.                                     *)
WalkIsClosure(known, cands) ==
  Len(cands) <= MaxPasses =>
    WalkThreadGraph(known, cands) =
      {cands[k].id : k \in Linked(cands, Reach(known, cands)[Len(cands)])}
===============================================================================
