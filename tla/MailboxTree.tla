----------------------------- MODULE MailboxTree -----------------------------
(***************************************************************************)
(* The mailbox tools (server.py) over an account's tree of mailboxes:      *)
(* delete_mailbox, which stages a mailbox under "To Delete" or, inside it, *)
(* deletes it for good, update_mailbox, create_mailbox, and the part of    *)
(* delete_messages that stages messages.  Mail and IMAP see one tree, but  *)
(* a server may have its own names for the mailboxes, or no hierarchy.     *)
(* Each IMAP command is a step; other calls, the owner and new mail come   *)
(* between, and the connection may break before a command or behind it.    *)
(***************************************************************************)
EXTENDS Naturals, FiniteSets, Sequences, SequencesExt

CONSTANTS
  Calls, Boxes, Messages,
  Names,             (* the last parts of mailbox paths                    *)
  Staging, Variant,  (* the name of the staging mailbox, and the same in   *)
                     (* another case                                       *)
  Inbox, Gmail,      (* the names INBOX and [Gmail]                        *)
  StagingOn,         (* APPLE_MAIL_MCP_DELETE_STAGING                      *)
  SuffixLimit,       (* _STAGE_SUFFIX_LIMIT                                *)
  Servers,           (* "plain", "prefixed" (other delimiter, a namespace  *)
                     (* prefix) or "flat"                                  *)
  Starts,            (* trees to begin with                                *)
  Wants,             (* what calls may ask for                             *)
  MaxEdits,          (* how often the owner changes the tree               *)
  None

(* A leaf is a name and the numbers it got, one each time it was taken:    *)
(* "a", "a 2", "a 2 2".                                                    *)
Leaves    == Names \X Seq(Nat)
Leaf(n)   == <<n, <<>> >>
Root      == << Leaf(Staging) >>
InboxPath == << Leaf(Inbox) >>

(* Mailboxes that exist have paths of their own.                           *)
Paths     == Seq(Leaves) \ {<<>>}
IsTree(s) ==
  /\ DOMAIN s = Boxes
  /\ \A b \in Boxes : s[b] # None => s[b] \in Paths
  /\ \A b, d \in Boxes : s[b] = s[d] /\ s[b] # None => b = d

ASSUME TreeAssumption ==
  /\ {Staging, Variant} \subseteq Names /\ Staging # Variant /\ Staging # Inbox
  /\ None \notin Boxes \cup Calls \cup Paths
  /\ StagingOn \in BOOLEAN /\ SuffixLimit \in Nat \ {0}
  /\ Servers \subseteq {"plain", "prefixed", "flat"}
  /\ \A s \in Starts : IsTree(s)
  /\ \A w \in Wants :
       /\ w.tool \in {"delete", "update", "create", "messages"}
       /\ w.at \in Paths
       /\ w.tool = "update" => w.to \in Paths

VARIABLES
  server,    (* how the server names mailboxes                             *)
  path,      (* the path of each mailbox, None when it does not exist      *)
  where,     (* the mailbox of each message, None before it arrives        *)
  killer,    (* the call that destroyed a message with its mailbox         *)
  pc, want,  (* where each call is, and what it asks for                   *)
  listed,    (* the mailboxes its LIST found                               *)
  yes,       (* the user has said yes to it                                *)
  answer,    (* the path it says the mailbox is at now                     *)
  spoilt,    (* something interfered with it: a change of the tree or a    *)
             (* broken connection                                          *)
  edits      (* how often the owner has changed the tree                   *)

tree == <<path, where, killer>>
call == <<want, listed, yes, answer>>
vars == <<server, tree, pc, call, spoilt, edits>>

Ended == {"ok", "staged", "refused", "blocked", "notFound", "notEmpty", "failed"}
Busy(c) == pc[c] \notin Ended \cup {"new"}

Init ==
  /\ server \in Servers
  /\ path \in {s \in Starts : server = "flat" => \A b \in Boxes : s[b] # None => Len(s[b]) = 1}
  /\ where \in [Messages -> {b \in Boxes : path[b] # None} \cup {None}]
  /\ killer = [m \in Messages |-> None]
  /\ pc = [c \in Calls |-> "new"]
  /\ want = [c \in Calls |-> None]
  /\ listed = [c \in Calls |-> {}]
  /\ yes = [c \in Calls |-> FALSE]
  /\ answer = [c \in Calls |-> None]
  /\ spoilt = [c \in Calls |-> FALSE]
  /\ edits = 0

Goto(c, label) == pc' = [pc EXCEPT ![c] = label]

(* A change of the tree by one actor may spoil the others' calls.          *)
Spoils(c) == spoilt' = [d \in Calls |-> spoilt[d] \/ (d # c /\ Busy(d))]

-------------------------------------------------------------------------------
(* Names                                                                   *)

Existing   == {path[b] : b \in Boxes} \ {None}
Inside(p, root) == IsPrefix(root, p)

(* _in_staging_mailbox, which does not mind the case.  Mutant: without the *)
(* delimiter, so that "To Delete 2" is inside "To Delete".                 *)
Fold(l) == IF l[1] = Variant THEN <<Staging, l[2]>> ELSE l
InStagingByPrefix(p) == Fold(p[1])[1] = Staging
InStaging(p)         == Fold(p[1]) = Leaf(Staging)

(* is_gmail_system_label: [Gmail] or below it.                             *)
IsGmail(p) == p[1] = Leaf(Gmail)

(* delete_mailbox and rename_mailbox give the server Mail's path as it is, *)
(* which a server with names of its own does not know.                     *)
Verbatim(p) == IF server = "prefixed" THEN {} ELSE {b \in Boxes : path[b] = p}

(* stage_mailbox: the first free name under the staging mailbox, as listed.*)
(* Mutant: the name it had, taken or not.                                  *)
FirstName(c) == {Append(Root, Last(want[c].at))}
Numbered(leaf, n) == IF n = 1 THEN leaf ELSE <<leaf[1], Append(leaf[2], n)>>
FreeNames(c) ==
  LET named == [n \in 1 .. SuffixLimit |-> Append(Root, Numbered(Last(want[c].at), n))]
      free  == {n \in 1 .. SuffixLimit : named[n] \notin listed[c]}
  IN  {named[n] : n \in {k \in free : \A j \in free : k <= j}}

-------------------------------------------------------------------------------
(* The tree                                                                *)

(* RENAME carries the mailbox's children along, and is refused when a path *)
(* that one of them would get is taken.  INBOX, which is in no tree here,  *)
(* always is there.                                                        *)
Carried(d, b)   == path[d] # None /\ Inside(path[d], path[b])
Moved(d, b, to) == to \o SubSeq(path[d], Len(path[b]) + 1, Len(path[d]))
Renamed(b, to)  == [d \in Boxes |-> IF Carried(d, b) THEN Moved(d, b, to) ELSE path[d]]

CanRename(b, to) ==
  /\ to # InboxPath /\ ~ Inside(to, path[b])
  /\ \A d \in Boxes : Carried(d, b) => Moved(d, b, to) \notin Existing

Made(to) == {[path EXCEPT ![b] = to] : b \in {d \in Boxes : path[d] = None /\ ~ \E m \in Messages : where[m] = d}}

(* A call fails with its command, but delete_messages, which makes the     *)
(* staging mailbox in Mail when IMAP fails it.                             *)
Failing(c) ==
  IF want[c].tool = "messages" /\ pc[c] \in {"list", "ensure"} THEN "mailEnsure" ELSE "failed"

(* A command of c changes the tree, and its reply arrives or does not.     *)
Changes(c, new, label) ==
  /\ path' = new
  /\ \/ Goto(c, label) /\ Spoils(c)
     \/ /\ Goto(c, Failing(c))
        /\ spoilt' = [d \in Calls |-> spoilt[d] \/ Busy(d)]

-------------------------------------------------------------------------------
(* delete_mailbox                                                          *)

(* The checks of the tools before anything waits.  Only staging refuses    *)
(* INBOX, and a rename in place may name any mailbox.                      *)
Request(c, w) ==
  /\ pc[c] = "new"
  /\ want' = [want EXCEPT ![c] = w]
  /\ Goto(c, CASE w.tool = "delete" ->
                    IF ~ StagingOn \/ InStaging(w.at) THEN "prompt"
                    ELSE IF w.at = InboxPath \/ IsGmail(w.at) THEN "refused" ELSE "list"
               [] w.tool = "update" ->
                    IF IsGmail(w.at) \/ (~ w.rename /\ IsGmail(w.to)) THEN "refused"
                    ELSE IF w.rename THEN "mailRename" ELSE "imapRename"
               [] w.tool = "create" -> "mailCreate"
               [] w.tool = "messages" -> "list")
  /\ UNCHANGED <<server, tree, listed, yes, answer, spoilt, edits>>

Prompt(c, reply) ==
  /\ pc[c] = "prompt"
  /\ yes' = [yes EXCEPT ![c] = reply]
  /\ Goto(c, IF ~ reply THEN "blocked" ELSE IF IsGmail(want[c].at) THEN "refused" ELSE "count")
  /\ UNCHANGED <<server, tree, want, listed, answer, spoilt, edits>>

(* No IMAP for the account, or delete_messages finds its breaker open.     *)
NoImap(c) ==
  /\ pc[c] \in {"list", "count", "imapRename"}
  /\ Goto(c, IF want[c].tool = "messages" THEN "mailEnsure" ELSE "refused")
  /\ UNCHANGED <<server, tree, call, spoilt, edits>>

(* stage_mailbox: one LIST.  ensure_folder begins the same way.            *)
List(c) ==
  /\ pc[c] = "list"
  /\ listed' = [listed EXCEPT ![c] = Existing]
  /\ Goto(c, IF want[c].tool = "messages" THEN "ensure"
             ELSE IF want[c].at \notin Existing THEN "notFound"
             ELSE IF Inside(want[c].at, Root) THEN "refused" ELSE "ensure")
  /\ UNCHANGED <<server, tree, want, yes, answer, spoilt, edits>>

After(c) == IF want[c].tool = "messages" THEN "move" ELSE "rename"

(* _ensure_folder: CREATE, unless LIST has shown the staging mailbox.      *)
Ensure(c) ==
  /\ pc[c] = "ensure"
  /\ IF Root \in listed[c] THEN Goto(c, After(c)) /\ UNCHANGED <<path, spoilt>>
     ELSE IF Root \in Existing THEN Goto(c, Failing(c)) /\ UNCHANGED <<path, spoilt>>
     ELSE \E new \in Made(Root) : Changes(c, new, After(c))
  /\ UNCHANGED <<server, where, killer, call, edits>>

(* _ensure_mailbox's script.                                               *)
MailEnsure(c) ==
  /\ pc[c] = "mailEnsure"
  /\ IF Root \in Existing THEN Goto(c, "move") /\ UNCHANGED <<path, spoilt>>
     ELSE \E new \in Made(Root) : Changes(c, new, "move")
  /\ UNCHANGED <<server, where, killer, call, edits>>

(* The server may refuse to rename into a mailbox that is gone.            *)
StageRename(c) ==
  /\ pc[c] = "rename"
  /\ IF server = "flat" \/ FreeNames(c) = {}
       THEN Goto(c, "refused") /\ UNCHANGED <<path, spoilt, answer>>
       ELSE \E to \in FreeNames(c) :
              \/ \E b \in Boxes :
                   /\ path[b] = want[c].at /\ CanRename(b, to)
                   /\ Changes(c, Renamed(b, to), "staged")
                   /\ answer' = [answer EXCEPT ![c] = to]
              \/ /\ \/ Root \notin Existing
                    \/ ~ \E b \in Boxes : path[b] = want[c].at /\ CanRename(b, to)
                 /\ Goto(c, "failed")
                 /\ UNCHANGED <<path, spoilt, answer>>
  /\ UNCHANGED <<server, where, killer, want, listed, yes, edits>>

(* SELECT readonly; its EXISTS decides.  INBOX is refused here or at its   *)
(* DELETE.                                                                 *)
Alive(b) == {m \in Messages : where[m] = b /\ killer[m] = None}

Count(c) ==
  /\ pc[c] = "count"
  /\ Goto(c, IF want[c].at = InboxPath THEN "refused"
             ELSE IF Verbatim(want[c].at) = {} THEN "notFound"
             ELSE IF ~ want[c].cascade /\ \E b \in Verbatim(want[c].at) : Alive(b) # {}
             THEN "notEmpty" ELSE "delete")
  /\ UNCHANGED <<server, tree, call, spoilt, edits>>

(* CLOSE and DELETE: the mailbox that has the name now goes, with what is  *)
(* in it now.  Its children stay.                                          *)
Delete(c) ==
  /\ pc[c] = "delete"
  /\ IF Verbatim(want[c].at) = {} THEN Goto(c, "notFound") /\ UNCHANGED <<path, killer, spoilt>>
     ELSE \E b \in Verbatim(want[c].at) :
            /\ Changes(c, [path EXCEPT ![b] = None], "ok")
            /\ killer' = [m \in Messages |-> IF m \in Alive(b) THEN c ELSE killer[m]]
  /\ UNCHANGED <<server, where, call, edits>>

-------------------------------------------------------------------------------
(* update_mailbox, create_mailbox, and delete_messages in front of the     *)
(* staging mailbox                                                         *)

(* A RENAME of INBOX makes a mailbox of what is in it.                     *)
InboxRename(c) ==
  IF want[c].to \in Existing \cup {InboxPath} THEN Goto(c, "failed") /\ UNCHANGED <<path, spoilt>>
  ELSE \E new \in Made(want[c].to) : Changes(c, new, "ok")

(* A move is an IMAP RENAME with Mail's paths.                             *)
ImapRename(c) ==
  /\ pc[c] = "imapRename"
  /\ IF want[c].at = InboxPath THEN InboxRename(c)
     ELSE IF Verbatim(want[c].at) = {} THEN Goto(c, "notFound") /\ UNCHANGED <<path, spoilt>>
     ELSE \E b \in Verbatim(want[c].at) :
            IF CanRename(b, want[c].to) THEN Changes(c, Renamed(b, want[c].to), "ok")
            ELSE Goto(c, "failed") /\ UNCHANGED <<path, spoilt>>
  /\ UNCHANGED <<server, where, killer, call, edits>>

(* A rename in place is a script, and Mail knows the server's names.       *)
MailRename(c) ==
  /\ pc[c] = "mailRename"
  /\ IF want[c].at = InboxPath THEN InboxRename(c)
     ELSE IF want[c].at \notin Existing THEN Goto(c, "notFound") /\ UNCHANGED <<path, spoilt>>
     ELSE \E b \in Boxes :
            /\ path[b] = want[c].at
            /\ IF CanRename(b, want[c].to) THEN Changes(c, Renamed(b, want[c].to), "ok")
               ELSE Goto(c, "failed") /\ UNCHANGED <<path, spoilt>>
  /\ UNCHANGED <<server, where, killer, call, edits>>

MailCreate(c) ==
  /\ pc[c] = "mailCreate"
  /\ IF want[c].at \in Existing \cup {InboxPath} THEN Goto(c, "failed") /\ UNCHANGED <<path, spoilt>>
     ELSE \E new \in Made(want[c].at) : Changes(c, new, "ok")
  /\ UNCHANGED <<server, where, killer, call, edits>>

(* The move of the messages, which MessageMoves takes apart.               *)
MoveMessages(c) ==
  /\ pc[c] = "move"
  /\ \/ \E from \in Boxes, to \in Boxes :
          /\ path[from] = want[c].at /\ path[to] = Root
          /\ where' = [m \in Messages |-> IF m \in Alive(from) THEN to ELSE where[m]]
          /\ Goto(c, "staged")
          /\ Spoils(c)
     \/ /\ {want[c].at, Root} \ Existing # {}
        /\ Goto(c, IF Root \in Existing THEN "notFound" ELSE "failed")
        /\ UNCHANGED <<where, spoilt>>
  /\ UNCHANGED <<server, path, killer, call, edits>>

-------------------------------------------------------------------------------
(* The connection breaks before a command.                                 *)
Breaks(c) ==
  /\ Busy(c) /\ pc[c] # "prompt"
  /\ Goto(c, Failing(c))
  /\ spoilt' = [spoilt EXCEPT ![c] = TRUE]
  /\ UNCHANGED <<server, tree, call, edits>>

(* Mail arrives, and the owner moves or deletes a mailbox in Mail.         *)
Arrive(m, b) ==
  /\ where[m] = None /\ path[b] # None
  /\ where' = [where EXCEPT ![m] = b]
  /\ UNCHANGED <<server, path, killer, pc, call, spoilt, edits>>

OwnerEdits ==
  /\ edits < MaxEdits
  /\ edits' = edits + 1
  /\ \E b \in {d \in Boxes : path[d] # None} :
       \/ path' = [path EXCEPT ![b] = None]
       \/ \E n \in Names : LET to == << Leaf(n) >> IN
            /\ n # Gmail /\ CanRename(b, to)
            /\ path' = Renamed(b, to)
  /\ spoilt' = [c \in Calls |-> spoilt[c] \/ Busy(c)]
  /\ UNCHANGED <<server, where, killer, pc, call>>

Next ==
  \/ \E c \in Calls :
       \/ \E w \in Wants : Request(c, w)
       \/ \E reply \in BOOLEAN : Prompt(c, reply)
       \/ NoImap(c) \/ List(c) \/ Ensure(c) \/ MailEnsure(c) \/ StageRename(c)
       \/ Count(c) \/ Delete(c)
       \/ ImapRename(c) \/ MailRename(c) \/ MailCreate(c) \/ MoveMessages(c) \/ Breaks(c)
  \/ \E m \in Messages, b \in Boxes : Arrive(m, b)
  \/ OwnerEdits

Spec == Init /\ [][Next]_vars

-------------------------------------------------------------------------------
TypeOK ==
  /\ server \in Servers
  /\ IsTree(path)
  /\ where \in [Messages -> Boxes \cup {None}]
  /\ killer \in [Messages -> Calls \cup {None}]
  /\ yes \in [Calls -> BOOLEAN]

(* With staging on, messages are destroyed only by a delete the user said  *)
(* yes to, of the staging mailbox or of a mailbox inside it, whatever      *)
(* other calls and the owner did to the tree since the call was made.      *)
DestroyedWhereAsked ==
  \A m \in Messages : killer[m] # None =>
    LET c == killer[m] IN
      /\ want[c].tool = "delete" /\ yes[c]
      /\ StagingOn => want[c].at[1] \in {Leaf(Staging), Leaf(Variant)}

(* Something lies under the free name that stage_mailbox found: the child  *)
(* of a mailbox which had that name and was deleted for good.              *)
LeftUnder(c) ==
  \E to \in FreeNames(c), d \in Boxes :
    path[d] \notin {None, to} /\ Inside(path[d], to)

(* Staging fails only when something came between: nobody else's change of *)
(* the tree and no broken connection, then a mailbox or a message that is  *)
(* there gets to the staging mailbox, whether that existed or not and      *)
(* whether the name was free in it or not.  The exception is a free name   *)
(* with something under it, at which a server refuses the RENAME.          *)
StagingFailsOnlyWhenSpoilt ==
  [][\A c \in Calls :
       pc[c] # "failed" /\ pc'[c] = "failed" /\ want[c].tool \in {"delete", "messages"} =>
         spoilt'[c] \/ (pc[c] = "rename" /\ LeftUnder(c))]_vars

(* A delete that says the mailbox is not there is right (docstring of      *)
(* delete_mailbox: a mailbox inside "To Delete" is really deleted).        *)
NotFoundIsTrue ==
  [][\A c \in Calls : pc[c] = "count" /\ pc'[c] = "notFound" => want[c].at \notin Existing]_vars
===============================================================================
