---------------------------- MODULE DraftLifecycle ----------------------------
(***************************************************************************)
(* create_draft, update_draft and delete_draft (server.py) over Mail's     *)
(* Drafts, the account's IMAP Drafts folder and the seed store on disk     *)
(* (drafts.py).  An update reads the draft and its seed, deletes it, makes *)
(* a new one and records the seed under the new id.  Calls interleave      *)
(* wherever one waits; osascript runs one script at a time.                *)
(***************************************************************************)
EXTENDS Naturals

CONSTANTS
  Creates, Updates, Deletes,  (* the calls of the three tools              *)
  MaxId,     (* drafts are numbered as they are made, up to this bound     *)
  Slow,      (* may osascript time out?                                    *)
  Crashes    (* may the server be killed?                                  *)

Calls == Creates \cup Updates \cup Deletes
Ids   == 1 .. MaxId
Free  == "free"
Kinds == {"new", "reply", "forward"}

ASSUME DraftAssumption ==
  /\ MaxId \in Nat
  /\ Creates \cap Updates = {} /\ Deletes \cap (Creates \cup Updates) = {}
  /\ Free \notin Calls
  /\ {Slow, Crashes} \subseteq BOOLEAN

VARIABLES
  at,      (* where each draft is; "hidden" until Mail shows it            *)
  doc,     (* the create_draft call whose draft it is a version of         *)
  thread,  (* how it was made: fresh, or from a message                    *)
  sent,    (* how often each document has been sent                        *)
  unheard, (* the documents of which a taken APPEND was not answered       *)
  store,   (* the seed store, by draft id                                  *)
  pc,      (* where each call is                                           *)
  target,  (* the draft it names, 0 if none                                *)
  alias,   (* by its other id: Message-ID for Mail's own, or the reverse   *)
  seed,    (* the seed kind it makes its draft with                        *)
  told,    (* the draft id it answers with, 0 for ""                       *)
  before,  (* beforeIds of the running script                              *)
  lock,    (* the call whose script runs for long                          *)
  strayed  (* history: the documents of which a call named a draft by an id*)
           (* no call had answered, or that were mixed up by an id diff    *)

mailbox == <<at, doc, thread, sent, unheard>>
call    == <<target, alias, seed, told>>
vars    == <<mailbox, store, pc, call, before, lock, strayed>>

Labels == {"ready", "resolve", "delete", "forget", "make", "appended", "script", "poll",
           "persist", "ok", "missed", "erred", "declined", "refused", "timedout", "failed",
           "killed"}

Ended == {"ok", "missed", "erred", "declined", "refused", "timedout", "failed", "killed"}

TypeOK ==
  /\ at \in [Ids -> {"unmade", "hidden", "shown", "gone"}]
  /\ doc \in [Ids -> Creates \cup {Free}]
  /\ thread \in [Ids -> Kinds]
  /\ sent \in [Creates -> Nat]
  /\ unheard \in SUBSET Creates
  /\ store \in [Ids -> {"none", "reply", "forward"}]
  /\ pc \in [Calls -> Labels]
  /\ target \in [Calls -> Ids \cup {0}]
  /\ alias \in [Calls -> BOOLEAN]
  /\ seed \in [Calls -> Kinds]
  /\ told \in [Calls -> Ids \cup {0}]
  /\ before \in SUBSET Ids
  /\ lock \in Calls \cup {Free}
  /\ strayed \in SUBSET Creates

Init ==
  /\ at = [i \in Ids |-> "unmade"]
  /\ doc = [i \in Ids |-> Free]
  /\ thread = [i \in Ids |-> "new"]
  /\ sent = [d \in Creates |-> 0]
  /\ unheard = {}
  /\ store = [i \in Ids |-> "none"]
  /\ pc = [c \in Calls |-> "ready"]
  /\ target = [c \in Calls |-> 0]
  /\ alias = [c \in Calls |-> FALSE]
  /\ seed = [c \in Calls |-> "new"]
  /\ told = [c \in Calls |-> 0]
  /\ before = {}
  /\ lock = Free
  /\ strayed = {}

Shown   == {i \in Ids : at[i] = "shown"}
Live(i) == at[i] \in {"hidden", "shown"}
Doc(c)  == IF c \in Creates THEN c ELSE doc[target[c]]

Goto(c, label) == pc' = [pc EXCEPT ![c] = label]

-------------------------------------------------------------------------------
(* Naming a draft and reading it                                           *)

Answered(i) == \E c \in Calls : pc[c] = "ok" /\ told[c] = i

(* The ids a caller can know: what a call answered, and what Mail shows.   *)
Names(c, i, other) ==
  /\ \/ ~ other /\ Answered(i)
     \/ i \in Shown
  /\ target' = [target EXCEPT ![c] = i]
  /\ alias' = [alias EXCEPT ![c] = other]
  /\ strayed' = IF ~ other /\ Answered(i) THEN strayed ELSE strayed \cup {doc[i]}

Create(c, kind) ==
  /\ c \in Creates /\ pc[c] = "ready"
  /\ seed' = [seed EXCEPT ![c] = kind]
  /\ Goto(c, "make")
  /\ UNCHANGED <<mailbox, store, target, alias, told, before, lock, strayed>>

(* get_draft_state: a draft that Mail does not show is not found.          *)
Read(c, i, other) ==
  /\ c \in Updates /\ pc[c] = "ready" /\ lock = Free
  /\ Names(c, i, other)
  /\ Goto(c, IF at[i] = "shown" THEN "resolve" ELSE "missed")
  /\ UNCHANGED <<mailbox, store, seed, told, before, lock>>

(* _resolve_draft_seed: the record; else the In-Reply-To header that only  *)
(* a reply has, if Mail finds the message it names; else a fresh draft.    *)
Resolve(c) ==
  /\ pc[c] = "resolve"
  /\ LET recorded == IF alias[c] THEN "none" ELSE store[target[c]] IN
     \E kind \in Kinds :
       /\ recorded # "none" => kind = recorded
       /\ recorded = "none" => kind \in {"new", thread[target[c]]} \ {"forward"}
       /\ seed' = [seed EXCEPT ![c] = kind]
  /\ Goto(c, "delete")
  /\ UNCHANGED <<mailbox, store, target, alias, told, before, lock, strayed>>

(* Mutant: what a gate refuses is found out after the delete.              *)
DeclineLate(c) ==
  /\ c \in Updates /\ pc[c] = "make"
  /\ Goto(c, "declined")
  /\ UNCHANGED <<mailbox, store, call, before, lock, strayed>>

(* A bad template, html for a reply, attachments that cannot be extracted, *)
(* a gate of send_now, or the sender: the draft is still there.            *)
Decline(c) ==
  /\ c \in Updates /\ pc[c] = "delete"
  /\ Goto(c, "declined")
  /\ UNCHANGED <<mailbox, store, call, before, lock, strayed>>

(* delete_draft starts with its delete.                                    *)
NameForDelete(c, i, other) ==
  /\ c \in Deletes /\ pc[c] = "ready"
  /\ Names(c, i, other)
  /\ Goto(c, "delete")
  /\ UNCHANGED <<mailbox, store, seed, told, before, lock>>

-------------------------------------------------------------------------------
(* Deleting it                                                             *)

(* Mutant: an update goes on although there was nothing to delete.         *)
DeleteAnyway(c) ==
  /\ pc[c] = "delete" /\ lock = Free
  /\ at' = [at EXCEPT ![target[c]] = "gone"]
  /\ Goto(c, "forget")
  /\ UNCHANGED <<doc, thread, sent, unheard, store, call, before, lock, strayed>>

(* Of the calls that name a draft, one deletes it; the others do not find  *)
(* it and end there.                                                       *)
Delete(c) ==
  /\ pc[c] = "delete" /\ lock = Free
  /\ IF at[target[c]] = "shown"
     THEN at' = [at EXCEPT ![target[c]] = "gone"] /\ Goto(c, "forget")
     ELSE UNCHANGED at /\ Goto(c, "missed")
  /\ UNCHANGED <<doc, thread, sent, unheard, store, call, before, lock, strayed>>

(* Any error in the script is answered as "not found", also one after Mail *)
(* has deleted.                                                            *)
DeleteErrs(c) ==
  /\ pc[c] = "delete" /\ lock = Free
  /\ at' \in {at, [at EXCEPT ![target[c]] = IF @ = "shown" THEN "gone" ELSE @]}
  /\ Goto(c, "erred")
  /\ UNCHANGED <<doc, thread, sent, unheard, store, call, before, lock, strayed>>

(* osascript is killed, and Mail may have applied the delete.              *)
DeleteTimesOut(c) ==
  /\ Slow /\ pc[c] = "delete" /\ lock = Free
  /\ at' \in {at, [at EXCEPT ![target[c]] = IF @ = "shown" THEN "gone" ELSE @]}
  /\ Goto(c, "timedout")
  /\ UNCHANGED <<doc, thread, sent, unheard, store, call, before, lock, strayed>>

(* Mutant: the record of the deleted draft is left.                        *)
NotForgotten(c) ==
  /\ pc[c] = "forget"
  /\ Goto(c, IF c \in Updates THEN "make" ELSE "ok")
  /\ UNCHANGED <<mailbox, store, call, before, lock, strayed>>

(* store.delete, before the new draft is made.                             *)
Forget(c) ==
  /\ pc[c] = "forget"
  /\ store' = IF alias[c] THEN store ELSE [store EXCEPT ![target[c]] = "none"]
  /\ Goto(c, IF c \in Updates THEN "make" ELSE "ok")
  /\ UNCHANGED <<mailbox, call, before, lock, strayed>>

-------------------------------------------------------------------------------
(* Making the new one: mail_connector.create_draft                         *)

(* A fresh draft without `to` or subject.  create_draft the tool has       *)
(* checked this before; update_draft has not.                              *)
Invalid(c) ==
  /\ c \in Updates /\ pc[c] = "make" /\ seed[c] = "new"
  /\ Goto(c, "refused")
  /\ UNCHANGED <<mailbox, store, call, before, lock, strayed>>

(* Anything else that ends the call without a draft: the account, a file,  *)
(* the message it answers, the send, a script that fails, Mail busy.       *)
MakeFails(c) ==
  /\ pc[c] \in {"make", "script"}
  /\ Goto(c, "failed")
  /\ UNCHANGED <<mailbox, store, call, before, lock, strayed>>

(* send_now: see SendPath.  A send that times out may have left.           *)
Send(c) ==
  /\ c \in Updates /\ pc[c] = "make"
  /\ sent' = [sent EXCEPT ![Doc(c)] = @ + 1]
  /\ Goto(c, "ok") \/ (Slow /\ Goto(c, "failed"))
  /\ UNCHANGED <<at, doc, thread, unheard, store, call, before, lock, strayed>>

(* A new draft takes the next id.                                          *)
Make(c) ==
  \E i \in Ids :
    /\ \A j \in Ids : at[j] = "unmade" <=> j >= i
    /\ at' = [at EXCEPT ![i] = "hidden"]
    /\ doc' = [doc EXCEPT ![i] = Doc(c)]
    /\ thread' = [thread EXCEPT ![i] = seed[c]]
    /\ told' = [told EXCEPT ![c] = i]

(* APPEND to the IMAP Drafts folder; the answer will be its Message-ID.    *)
Append(c) ==
  /\ pc[c] = "make"
  /\ Make(c)
  /\ Goto(c, "appended")
  /\ UNCHANGED <<sent, unheard, store, target, alias, seed, before, lock, strayed>>

Appended(c) ==
  /\ pc[c] = "appended"
  /\ Goto(c, "persist")
  /\ UNCHANGED <<mailbox, store, call, before, lock, strayed>>

(* The connection drops after the server has taken the draft.              *)
AppendLost(c) ==
  /\ pc[c] = "appended"
  /\ unheard' = unheard \cup {Doc(c)}
  /\ Goto(c, "script")
  /\ UNCHANGED <<at, doc, thread, sent, store, call, before, lock, strayed>>

(* No IMAP for this account, an open breaker, a failed APPEND: a script    *)
(* notes the drafts there are, saves one and looks for an id it has not    *)
(* noted.  An error ends the noting early, and the script goes on.         *)
Script(c) ==
  /\ pc[c] \in {"make", "script"} /\ lock = Free
  /\ lock' = c
  /\ before' \in SUBSET Shown
  /\ Make(c)
  /\ Goto(c, "poll")
  /\ UNCHANGED <<sent, unheard, store, target, alias, seed, strayed>>

Poll(c) ==
  /\ pc[c] = "poll"
  /\ \E i \in Shown \ before :
       /\ told' = [told EXCEPT ![c] = i]
       /\ strayed' = IF doc[i] = Doc(c) THEN strayed ELSE strayed \cup {doc[i], Doc(c)}
  /\ before' = {} /\ lock' = Free
  /\ Goto(c, "persist")
  /\ UNCHANGED <<mailbox, store, target, alias, seed>>

(* The poll's budget runs out: the answer is "".                           *)
PollGivesUp(c) ==
  /\ pc[c] = "poll"
  /\ told' = [told EXCEPT ![c] = 0]
  /\ before' = {} /\ lock' = Free
  /\ Goto(c, "persist")
  /\ UNCHANGED <<mailbox, store, target, alias, seed, strayed>>

(* The draft has been saved by then.                                       *)
ScriptTimesOut(c) ==
  /\ Slow /\ pc[c] = "poll"
  /\ before' = {} /\ lock' = Free
  /\ Goto(c, "failed")
  /\ UNCHANGED <<mailbox, store, call, strayed>>

(* A script waits for the lock and gives up: nothing was run.              *)
Busy(c) ==
  /\ pc[c] = "delete" \/ (pc[c] = "ready" /\ c \in Updates)
  /\ lock # Free
  /\ Goto(c, "declined")
  /\ UNCHANGED <<mailbox, store, call, before, lock, strayed>>

(* _persist_draft_seed.  Mutants: it keeps a record for fresh drafts too,  *)
(* or keeps it under the old id.                                           *)
PersistAny(c) ==
  /\ pc[c] = "persist"
  /\ store' = [store EXCEPT ![told[c]] = seed[c]]
  /\ Goto(c, "ok")
  /\ UNCHANGED <<mailbox, call, before, lock, strayed>>

PersistOld(c) ==
  /\ pc[c] = "persist"
  /\ LET key == IF c \in Updates THEN target[c] ELSE told[c] IN
     store' = IF seed[c] = "new" THEN store ELSE [store EXCEPT ![key] = seed[c]]
  /\ Goto(c, "ok")
  /\ UNCHANGED <<mailbox, call, before, lock, strayed>>

Persist(c) ==
  /\ pc[c] = "persist"
  /\ store' = IF seed[c] = "new" \/ told[c] = 0 THEN store
              ELSE [store EXCEPT ![told[c]] = seed[c]]
  /\ Goto(c, "ok")
  /\ UNCHANGED <<mailbox, call, before, lock, strayed>>

-------------------------------------------------------------------------------
(* Mail shows a draft that was saved or appended.                          *)
Surface(i) ==
  /\ at[i] = "hidden"
  /\ at' = [at EXCEPT ![i] = "shown"]
  /\ UNCHANGED <<doc, thread, sent, unheard, store, pc, call, before, lock, strayed>>

(* The server is killed, and started again for the calls that come later.  *)
Crash ==
  /\ Crashes /\ \E c \in Calls : pc[c] \notin Ended \cup {"ready"}
  /\ pc' = [c \in Calls |-> IF pc[c] \in Ended \cup {"ready"} THEN pc[c] ELSE "killed"]
  /\ before' = {} /\ lock' = Free
  /\ UNCHANGED <<mailbox, store, call, strayed>>

Open(c) ==
  \/ \E kind \in Kinds : Create(c, kind)
  \/ \E i \in Ids, other \in BOOLEAN : Read(c, i, other) \/ NameForDelete(c, i, other)

Step(c) ==
  \/ Open(c) \/ Resolve(c) \/ Decline(c)
  \/ Delete(c) \/ DeleteErrs(c) \/ DeleteTimesOut(c) \/ Forget(c)
  \/ Invalid(c) \/ MakeFails(c) \/ Send(c)
  \/ Append(c) \/ Appended(c) \/ AppendLost(c)
  \/ Script(c) \/ Poll(c) \/ PollGivesUp(c) \/ ScriptTimesOut(c) \/ Busy(c)
  \/ Persist(c)

Next == Crash \/ (\E c \in Calls : Step(c)) \/ \E i \in Ids : Surface(i)

Spec == Init /\ [][Next]_vars

-------------------------------------------------------------------------------
Idle == \A c \in Calls : pc[c] \in Ended \cup {"ready"}

(* A document is one draft or one sent message, however updates, deletes   *)
(* and the fallback from IMAP interleave, unless an APPEND that the server *)
(* took was never answered.                                                *)
OneDraft ==
  \A d \in Creates \ unheard :
    /\ \A i, j \in Ids : Live(i) /\ Live(j) /\ doc[i] = d /\ doc[j] = d => i = j
    /\ \A i \in Ids : Live(i) /\ doc[i] = d => sent[d] = 0
    /\ sent[d] <= 1

(* A document is lost only to its delete_draft, or to an update that got   *)
(* past its gates and has not answered with a success: never when all the  *)
(* calls about it were declined, did not find it, or succeeded.            *)
Takes(c) ==
  \/ c \in Deletes /\ pc[c] \in {"forget", "ok", "erred", "timedout", "killed"}
  \/ c \in Updates /\ pc[c] \in {"forget", "make", "script", "refused", "erred", "timedout", "failed", "killed"}

Conserved ==
  \A d \in Creates :
    (\E i \in Ids : doc[i] = d) =>
      \/ sent[d] > 0
      \/ \E i \in Ids : Live(i) /\ doc[i] = d
      \/ \E c \in Updates \cup Deletes : target[c] # 0 /\ doc[target[c]] = d /\ Takes(c)

(* Threading headers and forward anchor are preserved: through any chain of*)
(* updates a draft stays what it was made as, and a draft made fresh never *)
(* turns into a reply, unless a call named a version of it by an id that no*)
(* call had answered, or an id diff took it for another document's draft.  *)
SeedKept ==
  \A i \in Ids : Live(i) /\ doc[i] \notin strayed => thread[i] = seed[doc[i]]

(* "Clear stale state first so a connector failure doesn't leave orphan    *)
(* entries": when no call is under way, every record is of a draft that    *)
(* there is, unless the call that deleted it was cut off in its delete or  *)
(* between the delete and the record, or its document has strayed.         *)
NoOrphans ==
  Idle => \A i \in Ids : store[i] # "none" =>
    \/ Live(i) \/ doc[i] \in strayed
    \/ \E c \in Calls : target[c] = i /\ pc[c] \in {"erred", "timedout", "killed"}

(* `to`: `[]` clears.  Does an update that is refused for its arguments    *)
(* leave the draft?                                                        *)
RefusalKeepsDraft ==
  \A c \in Updates : pc[c] = "refused" => \E i \in Ids : Live(i) /\ doc[i] = Doc(c)
=============================================================================
