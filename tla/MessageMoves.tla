----------------------------- MODULE MessageMoves -----------------------------
(***************************************************************************)
(* Bulk moves within one account: update_message with a destination only   *)
(* and a source_mailbox, which is also how deletes are staged.  IMAP first *)
(* (move_messages; delete_messages to the Trash is the same there): UID    *)
(* MOVE, or COPY, STORE and EXPUNGE.  When that does not engage or fails,  *)
(* the ids are resolved to Mail's numbers and one script moves and checks  *)
(* them.  Other clients of the account move messages too.                  *)
(***************************************************************************)
EXTENDS Naturals, Sequences, FiniteSets

CONSTANTS
  Calls, Messages, Boxes,
  Inbox,     (* of the mailboxes, the one an id is looked up in            *)
  Forms,     (* the forms of id callers use: "rfc", "number"               *)
  Servers,   (* the kinds of account: see `server`                         *)
  MaxCopies, (* copies are numbered as they are made, up to this bound     *)
  MaxOthers, (* the moves of other clients                                 *)
  Free       (* a lock nobody holds                                        *)

Copies == 1 .. MaxCopies

ASSUME MovesAssumption ==
  /\ Inbox \in Boxes /\ Forms \subseteq {"rfc", "number"}
  /\ Servers \subseteq {"none", "plain", "uidplus", "move"}
  /\ MaxCopies \in Nat /\ MaxOthers \in Nat /\ Free \notin Calls
  /\ {"unmade", "gone"} \cap Boxes = {}

VARIABLES
  server,    (* what the IMAP server can do; "none" without a Keychain item*)
  gmail,     (* the account is on Gmail                                    *)
  of,        (* the message each copy is of                                *)
  at,        (* the mailbox it is in                                       *)
  era,       (* how often it was moved: with that, its UID                 *)
  doomed,    (* the copies flagged \Deleted                                *)
  disturbed, (* messages whose COPY was left unfinished, or that somebody  *)
             (* moved while a session had their UIDs                       *)
  others,    (* the moves other clients have made                          *)
  breaker,   (* the account's breaker is open                              *)
  session,   (* the call that has the pooled connection                    *)
  lock,      (* the holder of _APPLESCRIPT_LOCK                            *)
  jobs,      (* the scripts Mail has been given, in order                  *)
  pc,        (* where each call is                                         *)
  want,      (* its message_ids                                            *)
  form,      (* their form                                                 *)
  from, to,  (* its source_mailbox and destination                         *)
  uids,      (* the UIDs its search found                                  *)
  todo,      (* the ids its script has still to do                         *)
  tally,     (* updateCount, moveCount: the count it answers with          *)
  failCount, (* the messages its script found not to have moved            *)
  arrived    (* the messages it has moved                                  *)

mailbox == <<of, at, era, doomed>>
account == <<server, gmail>>
args    == <<want, form, from, to>>
call    == <<args, uids, todo, tally, failCount, arrived>>
locks   == <<session, lock, jobs>>
vars    == <<account, mailbox, disturbed, others, breaker, locks, pc, call>>

InSession == {"search", "move", "copy", "store", "expunge", "answer"}
Ended     == {"ok", "imapRequired", "incomplete", "failed"}
Labels    == {"ready", "imap", "resolve", "script", "running"} \cup InSession \cup Ended

(* Types, and that the pooled connection and the lock are with the call    *)
(* whose place says so, and free when nobody's does: _session and          *)
(* _run_applescript give them back on every way out.                       *)
TypeOK ==
  /\ server \in Servers /\ gmail \in BOOLEAN
  /\ of \in [Copies -> Messages]
  /\ at \in [Copies -> Boxes \cup {"unmade", "gone"}]
  /\ era \in [Copies -> Nat]
  /\ doomed \in SUBSET Copies
  /\ disturbed \in SUBSET Messages
  /\ others \in 0 .. MaxOthers /\ breaker \in BOOLEAN
  /\ session \in Calls \cup {Free} /\ lock \in Calls \cup {Free}
  /\ \A c \in Calls : session = c <=> pc[c] \in InSession
  /\ \A c \in Calls : lock = c <=> pc[c] = "running"
  /\ jobs \in Seq(Calls)
  /\ pc \in [Calls -> Labels]
  /\ want \in [Calls -> SUBSET Messages] /\ form \in [Calls -> {"rfc", "number"}]
  /\ from \in [Calls -> Boxes] /\ to \in [Calls -> Boxes]
  /\ uids \in [Calls -> SUBSET (Copies \X Nat)]
  /\ todo \in [Calls -> SUBSET Messages]
  /\ tally \in [Calls -> Nat] /\ failCount \in [Calls -> Nat]
  /\ arrived \in [Calls -> SUBSET Messages]

(* Every message is in one mailbox, once.  Gmail has MOVE.                 *)
Init ==
  /\ server \in Servers /\ gmail \in BOOLEAN
  /\ gmail => server \in {"none", "move"}
  /\ of \in [Copies -> Messages]
  /\ at \in [Copies -> Boxes \cup {"unmade"}]
  /\ \A i \in Copies : at[i] # "unmade" <=> i <= Cardinality(Messages)
  /\ \A m \in Messages : \E i \in Copies : at[i] # "unmade" /\ of[i] = m
  /\ \A i \in Copies : at[i] = "unmade" => of[i] = of[1]
  /\ era = [i \in Copies |-> 0]
  /\ doomed = {} /\ disturbed = {} /\ others = 0 /\ breaker = FALSE
  /\ session = Free /\ lock = Free /\ jobs = <<>>
  /\ pc = [c \in Calls |-> "ready"]
  /\ want = [c \in Calls |-> {}] /\ form = [c \in Calls |-> "rfc"]
  /\ from = [c \in Calls |-> Inbox] /\ to = [c \in Calls |-> Inbox]
  /\ uids = [c \in Calls |-> {}] /\ todo = [c \in Calls |-> {}]
  /\ tally = [c \in Calls |-> 0] /\ failCount = [c \in Calls |-> 0]
  /\ arrived = [c \in Calls |-> {}]

Goto(c, label) == pc' = [pc EXCEPT ![c] = label]
Copied(m, box) == {i \in Copies : of[i] = m /\ at[i] = box}

-------------------------------------------------------------------------------
(* A call, and the IMAP path                                               *)

Begin(c, ids, kind, source, destination) ==
  /\ pc[c] = "ready"
  /\ want' = [want EXCEPT ![c] = ids]
  /\ form' = [form EXCEPT ![c] = kind]
  /\ from' = [from EXCEPT ![c] = source]
  /\ to' = [to EXCEPT ![c] = destination]
  /\ Goto(c, "imap")
  /\ UNCHANGED <<account, mailbox, disturbed, others, breaker, locks,
                 uids, todo, tally, failCount, arrived>>

(* The breaker is open, or the account has no Keychain item (benign).      *)
SkipImap(c) ==
  /\ pc[c] = "imap"
  /\ breaker \/ server = "none"
  /\ Goto(c, "resolve")
  /\ UNCHANGED <<account, mailbox, disturbed, others, breaker, locks, call>>

Connect(c) ==
  /\ pc[c] = "imap" /\ ~ breaker /\ server # "none"
  /\ session = Free
  /\ session' = c
  /\ Goto(c, "search")
  /\ UNCHANGED <<account, mailbox, disturbed, others, breaker, lock, jobs, call>>

(* A server with neither MOVE nor UIDPLUS is refused, which is benign.     *)
Unsupported(c) ==
  /\ pc[c] = "search" /\ server = "plain"
  /\ session' = Free
  /\ Goto(c, "resolve")
  /\ UNCHANGED <<account, mailbox, disturbed, others, breaker, lock, jobs, call>>

(* _resolve_uids_batch: by Message-ID, which a number never is.            *)
Found(c) ==
  {<<i, era[i]>> : i \in {j \in Copies : form[c] = "rfc" /\ of[j] \in want[c] /\ at[j] = from[c]}}

Search(c) ==
  /\ pc[c] = "search" /\ server \in {"uidplus", "move"}
  /\ uids' = [uids EXCEPT ![c] = Found(c)]
  /\ IF Found(c) = {}
     THEN Goto(c, "ok") /\ session' = Free /\ breaker' = FALSE
     ELSE Goto(c, IF server = "move" THEN "move" ELSE "copy") /\ UNCHANGED <<session, breaker>>
  /\ UNCHANGED <<account, mailbox, disturbed, others, lock, jobs, args, todo, tally,
                 failCount, arrived>>

(* The copies that still have the UIDs that were found.  A command leaves  *)
(* the others out without an error.                                        *)
Valid(c) == {i \in Copies : at[i] = from[c] /\ <<i, era[i]>> \in uids[c]}

Arrive(c, S) == arrived' = [arrived EXCEPT ![c] = @ \cup {of[i] : i \in S}]

Relocate(S, box) ==
  /\ at' = [i \in Copies |-> IF i \in S THEN box ELSE at[i]]
  /\ era' = [i \in Copies |-> IF i \in S THEN era[i] + 1 ELSE era[i]]

(* UID MOVE                                                                *)
Move(c) ==
  /\ pc[c] = "move"
  /\ Relocate(Valid(c), to[c])
  /\ Arrive(c, Valid(c))
  /\ Goto(c, "answer")
  /\ UNCHANGED <<account, of, doomed, disturbed, others, breaker, locks,
                 args, uids, todo, tally, failCount>>

(* Mutant: a COPY that the server refuses is taken for done.               *)
CopyRefused(c) ==
  /\ pc[c] = "copy"
  /\ Goto(c, "store")
  /\ UNCHANGED <<account, mailbox, disturbed, others, breaker, locks, call>>

(* UID COPY: new copies, with the flags of the old ones.                   *)
Copy(c) ==
  /\ pc[c] = "copy"
  /\ \E new \in [Valid(c) -> {i \in Copies : at[i] = "unmade"}] :
       /\ \A i, j \in Valid(c) : i < j <=> new[i] < new[j]
       /\ \A i \in Copies, j \in Valid(c) : at[i] = "unmade" /\ i < new[j] =>
            \E k \in Valid(c) : new[k] = i
       /\ LET made == {new[i] : i \in Valid(c)}
              old(n) == CHOOSE i \in Valid(c) : new[i] = n IN
          /\ of' = [n \in Copies |-> IF n \in made THEN of[old(n)] ELSE of[n]]
          /\ at' = [n \in Copies |-> IF n \in made THEN to[c] ELSE at[n]]
          /\ doomed' = doomed \cup {n \in made : old(n) \in doomed}
  /\ Arrive(c, Valid(c))
  /\ Goto(c, "store")
  /\ UNCHANGED <<account, era, disturbed, others, breaker, locks,
                 args, uids, todo, tally, failCount>>

(* UID STORE +FLAGS \Deleted                                               *)
Store(c) ==
  /\ pc[c] = "store"
  /\ doomed' = doomed \cup Valid(c)
  /\ Goto(c, "expunge")
  /\ UNCHANGED <<account, of, at, era, disturbed, others, breaker, locks, call>>

(* Mutant: what was flagged is left for the next client to expunge.        *)
LeaveFlagged(c) ==
  /\ pc[c] = "expunge"
  /\ Goto(c, "answer")
  /\ UNCHANGED <<account, mailbox, disturbed, others, breaker, locks, call>>

(* UID EXPUNGE                                                             *)
Expunge(c) ==
  /\ pc[c] = "expunge"
  /\ at' = [i \in Copies |-> IF i \in Valid(c) \cap doomed THEN "gone" ELSE at[i]]
  /\ Goto(c, "answer")
  /\ UNCHANGED <<account, of, era, doomed, disturbed, others, breaker, locks, call>>

(* The last command is answered: the count is that of the UIDs found.      *)
Answer(c) ==
  /\ pc[c] = "answer"
  /\ tally' = [tally EXCEPT ![c] = Cardinality(uids[c])]
  /\ uids' = [uids EXCEPT ![c] = {}]
  /\ session' = Free /\ breaker' = FALSE
  /\ Goto(c, "ok")
  /\ UNCHANGED <<account, mailbox, disturbed, others, lock, jobs, args, todo,
                 failCount, arrived>>

(* The connection drops, or the server refuses the next command.           *)
Drops(c) ==
  /\ pc[c] \in InSession
  /\ session' = Free /\ breaker' = TRUE
  /\ disturbed' = IF pc[c] \in {"store", "expunge"}
                  THEN disturbed \cup {of[u[1]] : u \in uids[c]} ELSE disturbed
  /\ uids' = [uids EXCEPT ![c] = {}]
  /\ Goto(c, "resolve")
  /\ UNCHANGED <<account, mailbox, others, lock, jobs, args, todo, tally, failCount, arrived>>

-------------------------------------------------------------------------------
(* The AppleScript path                                                    *)

(* Where IMAP looks for a Message-ID: all mail on Gmail, else the inbox    *)
(* and Sent.  Mail is then searched in its inbox and Sent.                 *)
InMail(m)  == Copied(m, Inbox) # {}
Located(m) == gmail \/ InMail(m)

Resolved(c, ids, unknown) ==
  /\ todo' = [todo EXCEPT ![c] = ids]
  /\ Goto(c, IF ids = {} /\ unknown # {} THEN "incomplete" ELSE "script")
  /\ UNCHANGED <<account, mailbox, disturbed, others, locks, args, uids, tally,
                 failCount, arrived>>

(* _resolve_bulk_ids.  Numbers pass.  An account whose breaker is open, or *)
(* that has no Keychain item, is left out of the look-up, which then finds *)
(* nothing; an id that is not found is dropped.                            *)
Resolve(c) ==
  /\ pc[c] = "resolve"
  /\ \/ form[c] = "number" /\ Resolved(c, want[c], {})
     \/ form[c] = "rfc" /\ (breaker \/ server = "none") /\ Resolved(c, {}, {})
     \/ /\ form[c] = "rfc" /\ ~ breaker /\ server # "none"
        /\ Resolved(c, {m \in want[c] : InMail(m)},
                       {m \in want[c] : Located(m) /\ ~ InMail(m)})
  /\ UNCHANGED breaker

(* The look-up of one id fails: the ids before it are resolved, and for    *)
(* those after it the breaker is open.                                     *)
ResolveFails(c) ==
  /\ pc[c] = "resolve" /\ form[c] = "rfc" /\ ~ breaker /\ server # "none"
  /\ \E before \in SUBSET want[c] : \E m \in want[c] \ before :
       Resolved(c, {b \in before : InMail(b)}, {m})
  /\ breaker' = TRUE

Script(c) ==
  /\ pc[c] = "script" /\ lock = Free
  /\ lock' = c
  /\ jobs' = Append(jobs, c)
  /\ Goto(c, "running")
  /\ UNCHANGED <<account, mailbox, disturbed, others, breaker, session, call>>

(* The lock is not had in time, or a mailbox is not there.                 *)
ScriptFails(c) ==
  /\ pc[c] = "script"
  /\ Goto(c, "failed")
  /\ UNCHANGED <<account, mailbox, disturbed, others, breaker, locks, call>>

(* Somebody else has moved a copy whose UID a session holds.               *)
Disturb(i) ==
  disturbed' = IF \E c \in Calls : pc[c] \in InSession /\ <<i, era[i]>> \in uids[c]
               THEN disturbed \cup {of[i]} ELSE disturbed

(* `set mailbox of msg`, and the check that it has left.                   *)
MailMoves(c, m) ==
  /\ jobs # <<>> /\ c = Head(jobs) /\ m \in todo[c]
  /\ todo' = [todo EXCEPT ![c] = @ \ {m}]
  /\ \E i \in Copied(m, from[c]) :
       /\ Relocate({i}, to[c]) /\ Arrive(c, {i}) /\ Disturb(i)
       /\ tally' = [tally EXCEPT ![c] = @ + 1]
  /\ UNCHANGED <<account, of, doomed, others, breaker, locks, pc, args, uids, failCount>>

(* Mutant: a message that stayed where it was is counted as moved.         *)
CountsAnyway(c, m) ==
  /\ jobs # <<>> /\ c = Head(jobs) /\ m \in todo[c]
  /\ gmail /\ Copied(m, from[c]) # {}
  /\ todo' = [todo EXCEPT ![c] = @ \ {m}]
  /\ tally' = [tally EXCEPT ![c] = @ + 1]
  /\ UNCHANGED <<account, mailbox, disturbed, others, breaker, locks, pc, args, uids,
                 failCount, arrived>>

(* Gmail: nothing happens, and nothing is raised.                          *)
MailIgnores(c, m) ==
  /\ jobs # <<>> /\ c = Head(jobs) /\ m \in todo[c]
  /\ gmail /\ Copied(m, from[c]) # {}
  /\ todo' = [todo EXCEPT ![c] = @ \ {m}]
  /\ failCount' = [failCount EXCEPT ![c] = @ + 1]
  /\ UNCHANGED <<account, mailbox, disturbed, others, breaker, locks, pc, args, uids,
                 tally, arrived>>

MailMisses(c, m) ==
  /\ jobs # <<>> /\ c = Head(jobs) /\ m \in todo[c]
  /\ Copied(m, from[c]) = {}
  /\ todo' = [todo EXCEPT ![c] = @ \ {m}]
  /\ UNCHANGED <<account, mailbox, disturbed, others, breaker, locks, pc, args, uids,
                 tally, failCount, arrived>>

(* The script ends; if osascript still waits, it returns the counts.       *)
MailDone(c) ==
  /\ jobs # <<>> /\ c = Head(jobs) /\ todo[c] = {}
  /\ jobs' = Tail(jobs)
  /\ IF pc[c] = "running"
     THEN lock' = Free /\ Goto(c, IF failCount[c] > 0 THEN "imapRequired" ELSE "ok")
     ELSE UNCHANGED <<lock, pc>>
  /\ UNCHANGED <<account, mailbox, disturbed, others, breaker, session, call>>

(* osascript is killed; Mail goes on with the script.                      *)
ScriptTimesOut(c) ==
  /\ pc[c] = "running"
  /\ lock' = Free
  /\ Goto(c, "failed")
  /\ UNCHANGED <<account, mailbox, disturbed, others, breaker, session, jobs, call>>

-------------------------------------------------------------------------------
BreakerCloses ==
  /\ breaker
  /\ breaker' = FALSE
  /\ UNCHANGED <<account, mailbox, disturbed, others, locks, pc, call>>

OtherMoves(i, box) ==
  /\ others < MaxOthers /\ at[i] \in Boxes \ {box}
  /\ others' = others + 1
  /\ Relocate({i}, box) /\ Disturb(i)
  /\ UNCHANGED <<account, of, doomed, breaker, locks, pc, call>>

(* Another client expunges what it finds flagged.                          *)
OtherExpunges(i) ==
  /\ others < MaxOthers /\ i \in doomed /\ at[i] \in Boxes
  /\ others' = others + 1
  /\ at' = [at EXCEPT ![i] = "gone"]
  /\ UNCHANGED <<account, of, era, doomed, disturbed, breaker, locks, pc, call>>

Open(c) ==
  \E ids \in (SUBSET Messages) \ {{}}, kind \in Forms, source, destination \in Boxes :
    source # destination /\ Begin(c, ids, kind, source, destination)

Step(c) ==
  \/ SkipImap(c) \/ Connect(c) \/ Unsupported(c) \/ Search(c) \/ Move(c)
  \/ Copy(c) \/ Store(c) \/ Expunge(c) \/ Answer(c) \/ Drops(c)
  \/ Resolve(c) \/ ResolveFails(c) \/ Script(c) \/ ScriptFails(c) \/ ScriptTimesOut(c)

MailStep(c) ==
  MailDone(c) \/ \E m \in Messages : MailMoves(c, m) \/ MailIgnores(c, m) \/ MailMisses(c, m)

Next ==
  \/ \E c \in Calls : Open(c) \/ Step(c) \/ MailStep(c)
  \/ BreakerCloses
  \/ \E i \in Copies : OtherExpunges(i) \/ \E box \in Boxes : OtherMoves(i, box)

Spec == Init /\ [][Next]_vars

-------------------------------------------------------------------------------
(* No message is lost: whatever fails half-way, and whoever expunges what  *)
(* it finds flagged, there is a copy that nothing is about to remove.      *)
Conserved ==
  \A m \in Messages : \E i \in Copies : of[i] = m /\ at[i] \in Boxes /\ i \notin doomed

(* No message is doubled, by the fallback, a retry or a script that Mail   *)
(* finishes after its call has failed, unless it was left between COPY and *)
(* EXPUNGE or somebody moved it there: with MOVE, never.                   *)
Midway(m) ==
  \E c \in Calls : pc[c] \in {"store", "expunge"} /\ \E u \in uids[c] : of[u[1]] = m

OneCopy ==
  \A m \in Messages : server = "move" \/ ~ (m \in disturbed \/ Midway(m)) =>
    Cardinality({i \in Copies : of[i] = m /\ at[i] \in Boxes}) = 1

(* The count a call answers with is never more than it has moved, unless   *)
(* somebody else moved the message first.                                  *)
CountIsTrue ==
  \A c \in Calls : pc[c] \in Ended /\ want[c] \cap disturbed = {} =>
    tally[c] <= Cardinality(arrived[c])

(* _resolve_bulk_ids: reporting 0 updated would imply that the messages do *)
(* not exist.  Is 0 ever the answer for messages that are there?           *)
ZeroMeansAbsent ==
  \A c \in Calls : pc[c] = "ok" /\ tally[c] = 0 =>
    \A m \in want[c] : Copied(m, from[c]) = {}
===============================================================================
