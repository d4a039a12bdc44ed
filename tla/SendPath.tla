------------------------------- MODULE SendPath -------------------------------
(***************************************************************************)
(* Sending mail (create_draft and update_draft with send_now, past their   *)
(* gates): SMTP first (mail_connector.py, _try_smtp_send; smtp_sender.py), *)
(* then a copy in Sent over IMAP; or, when SMTP does not engage or fails,  *)
(* Mail.app's own `send` through AppleScript.  The sends here are of one   *)
(* account, run on worker threads, and share its circuit breaker and the   *)
(* process-wide AppleScript lock.                                          *)
(***************************************************************************)
EXTENDS Naturals

CONSTANTS
  Sends,       (* calls that send, each with its message                   *)
  Replies,     (* those made from an original that is fetched over IMAP    *)
  NoFile,      (* those with an attachment path that does not exist        *)
  Recipients,  (* the addresses of a message, given or derived             *)
  Derived,     (* those a reply takes from its original                    *)
  BreakerTTL,  (* _IMAP_BREAKER_TTL_S, in ticks                            *)
  Free         (* the AppleScript lock when nobody holds it                *)

ASSUME SendAssumption ==
  /\ Replies \subseteq Sends /\ NoFile \subseteq Sends
  /\ Derived \subseteq Recipients /\ Recipients # {}
  /\ BreakerTTL \in Nat \ {0} /\ Free \notin Sends

VARIABLES
  testMode,   (* MAIL_TEST_MODE                                            *)
  autoFiles,  (* the provider files SMTP mail in Sent by itself            *)
  pc,         (* where each send is                                        *)
  heard,      (* what SmtpSender learnt: "accepted", or its reply was lost *)
  got,        (* the copies each recipient got of each message             *)
  filed,      (* the copies of each message in Sent                        *)
  mail,       (* Mail.app's own work on each message                       *)
  cooling,    (* ticks until the account's breaker closes                  *)
  lock        (* the holder of _APPLESCRIPT_LOCK                           *)

vars == <<testMode, autoFiles, pc, heard, got, filed, mail, cooling, lock>>

Labels == {"ready", "config", "build", "guard", "login", "submit", "reply", "quit",
           "copy", "script", "running", "ok", "failed"}

TypeOK ==
  /\ testMode \in BOOLEAN /\ autoFiles \in BOOLEAN
  /\ pc \in [Sends -> Labels]
  /\ heard \in [Sends -> {"nothing", "accepted", "lost"}]
  /\ got \in [Sends -> [Recipients -> 0 .. 2]]
  /\ filed \in [Sends -> 0 .. 2]
  /\ mail \in [Sends -> {"idle", "busy", "sent", "refused"}]
  /\ cooling \in 0 .. BreakerTTL
  /\ lock \in Sends \cup {Free}

Init ==
  /\ testMode \in BOOLEAN /\ autoFiles \in BOOLEAN
  /\ pc = [s \in Sends |-> "ready"]
  /\ heard = [s \in Sends |-> "nothing"]
  /\ got = [s \in Sends |-> [r \in Recipients |-> 0]]
  /\ filed = [s \in Sends |-> 0]
  /\ mail = [s \in Sends |-> "idle"]
  /\ cooling = 0
  /\ lock = Free

Goto(s, label) == pc' = [pc EXCEPT ![s] = label]

Deliver(s, R) ==
  got' = [got EXCEPT ![s] = [r \in Recipients |-> IF r \in R THEN @[r] + 1 ELSE @[r]]]

world == <<heard, got, filed, mail>>
modes == <<testMode, autoFiles>>

-------------------------------------------------------------------------------
(* The SMTP path                                                           *)

(* The breaker's new deadline.  Mutant: the old one is extended.           *)
Extended == cooling + BreakerTTL
Deadline == BreakerTTL

(* _log_imap_fallback opens the breaker unless the failure is benign, and  *)
(* the send goes on to AppleScript.                                        *)
FallBack(s, benign) ==
  /\ cooling' = IF benign THEN cooling ELSE Deadline
  /\ Goto(s, "script")

(* An open breaker keeps the send from SMTP; so does a call that names no  *)
(* account, or a seed by Mail's own id.                                    *)
Start(s) ==
  /\ pc[s] = "ready"
  /\ \/ cooling = 0 /\ Goto(s, "config")
     \/ Goto(s, "script")
  /\ UNCHANGED <<modes, world, cooling, lock>>

(* Mail is asked for the account's SMTP server and sender: there is one,   *)
(* there is none, or the question raises.                                  *)
Configure(s) ==
  /\ pc[s] = "config"
  /\ \E next \in {"build", "script", "failed"} : Goto(s, next)
  /\ UNCHANGED <<modes, world, cooling, lock>>

(* The message is built.  A missing file is an OSError like any other.     *)
Build(s) ==
  /\ pc[s] = "build"
  /\ \/ s \in NoFile /\ FallBack(s, FALSE)
     \/ s \notin NoFile /\ Goto(s, "guard") /\ UNCHANGED cooling
  /\ UNCHANGED <<modes, world, lock>>

(* Fetching a reply's original fails: it is not in the guessed mailbox or  *)
(* there is no Keychain item (benign), the link is down, or the server     *)
(* answers with an IMAP error, which the SMTP path does not catch.         *)
FetchFails(s) ==
  /\ pc[s] = "build" /\ s \in Replies
  /\ \/ \E benign \in BOOLEAN : FallBack(s, benign)
     \/ Goto(s, "failed") /\ UNCHANGED cooling
  /\ UNCHANGED <<modes, world, lock>>

(* The reserved-domain guard, on the full envelope, in test mode only.     *)
Guard(s) ==
  /\ pc[s] = "guard"
  /\ Goto(s, IF testMode /\ s \in Replies /\ Derived # {} THEN "failed" ELSE "login")
  /\ UNCHANGED <<modes, world, cooling, lock>>

Login(s) ==
  /\ pc[s] = "login"
  /\ Goto(s, "submit")
  /\ UNCHANGED <<modes, world, cooling, lock>>

(* No Keychain item (benign); access denied, no connection, AUTH refused.  *)
LoginFails(s) ==
  /\ pc[s] = "login"
  /\ \E benign \in BOOLEAN : FallBack(s, benign)
  /\ UNCHANGED <<modes, world, lock>>

(* The sender, every recipient, or the data is refused.                    *)
Rejected(s) ==
  /\ pc[s] = "submit"
  /\ FallBack(s, FALSE)
  /\ UNCHANGED <<modes, world, lock>>

(* The server takes the data for the recipients it did not refuse.         *)
Taken(s, R) ==
  /\ pc[s] = "submit"
  /\ Deliver(s, R)
  /\ filed' = IF autoFiles THEN [filed EXCEPT ![s] = @ + 1] ELSE filed
  /\ Goto(s, "reply")
  /\ UNCHANGED <<modes, heard, mail, cooling, lock>>

(* send_message returns: accepted = True.  It also returns, and nobody     *)
(* reads, the recipients that were refused.                                *)
Accepted(s) ==
  /\ pc[s] = "reply"
  /\ heard' = [heard EXCEPT ![s] = "accepted"]
  /\ Goto(s, "quit")
  /\ UNCHANGED <<modes, got, filed, mail, cooling, lock>>

(* The connection drops or times out before the reply to the data.         *)
ReplyLost(s) ==
  /\ pc[s] = "reply"
  /\ heard' = [heard EXCEPT ![s] = "lost"]
  /\ FallBack(s, FALSE)
  /\ UNCHANGED <<modes, got, filed, mail, lock>>

(* Mutant: an error of QUIT is raised like one of the send, as before #404.*)
QuitRaises(s) ==
  /\ pc[s] = "quit"
  /\ FallBack(s, FALSE)
  /\ UNCHANGED <<modes, world, lock>>

(* The session is torn down, any error of that swallowed, and the breaker  *)
(* cleared.                                                                *)
Quit(s) ==
  /\ pc[s] = "quit"
  /\ cooling' = 0
  /\ Goto(s, "copy")
  /\ UNCHANGED <<modes, world, lock>>

(* smtp_saves_sent_copy.  Mutant: the provider is not looked at.           *)
NeverFiles == FALSE
FilesSent  == autoFiles

(* _save_sent_copy: unless the provider has done it, APPEND to Sent.       *)
SaveCopy(s) ==
  /\ pc[s] = "copy"
  /\ filed' = IF FilesSent THEN filed ELSE [filed EXCEPT ![s] = @ + 1]
  /\ Goto(s, "ok")
  /\ UNCHANGED <<modes, heard, got, mail, cooling, lock>>

(* Mutant: the failure falls back to AppleScript.                          *)
CopyRaises(s) ==
  /\ pc[s] = "copy" /\ ~ autoFiles
  /\ FallBack(s, FALSE)
  /\ UNCHANGED <<modes, world, lock>>

(* No Sent folder, no Keychain item, an IMAP error: logged and swallowed.  *)
CopyFails(s) ==
  /\ pc[s] = "copy" /\ ~ FilesSent
  /\ Goto(s, "ok")
  /\ UNCHANGED <<modes, world, cooling, lock>>

-------------------------------------------------------------------------------
(* The AppleScript path                                                    *)

(* A missing file or seed, or an unknown sender, raises before Mail sends. *)
ScriptRefused(s) ==
  /\ pc[s] = "script"
  /\ Goto(s, "failed")
  /\ UNCHANGED <<modes, world, cooling, lock>>

RunScript(s) ==
  /\ pc[s] = "script" /\ s \notin NoFile
  /\ lock = Free
  /\ lock' = s
  /\ mail' = [mail EXCEPT ![s] = "busy"]
  /\ Goto(s, "running")
  /\ UNCHANGED <<modes, heard, got, filed, cooling>>

(* The lock is not free within the timeout.                                *)
MailBusy(s) ==
  /\ pc[s] = "script"
  /\ lock \notin {Free, s}
  /\ Goto(s, "failed")
  /\ UNCHANGED <<modes, world, cooling, lock>>

(* Mail.app, in its own time, also when nobody waits any more.             *)
MailSends(s) ==
  /\ mail[s] = "busy"
  /\ mail' = [mail EXCEPT ![s] = "sent"]
  /\ Deliver(s, Recipients)
  /\ filed' = [filed EXCEPT ![s] = @ + 1]
  /\ UNCHANGED <<modes, pc, heard, cooling, lock>>

MailRefuses(s) ==
  /\ mail[s] = "busy"
  /\ mail' = [mail EXCEPT ![s] = "refused"]
  /\ UNCHANGED <<modes, pc, heard, got, filed, cooling, lock>>

ScriptReturns(s) ==
  /\ pc[s] = "running" /\ mail[s] \in {"sent", "refused"}
  /\ Goto(s, IF mail[s] = "sent" THEN "ok" ELSE "failed")
  /\ lock' = Free
  /\ UNCHANGED <<modes, world, cooling>>

(* Mutant: osascript runs without a timeout.                               *)
ScriptHangs(s) == FALSE

(* osascript is killed; Mail may still be applying the script.             *)
ScriptTimesOut(s) ==
  /\ pc[s] = "running"
  /\ Goto(s, "failed")
  /\ lock' = Free
  /\ UNCHANGED <<modes, world, cooling>>

Tick ==
  /\ cooling > 0
  /\ cooling' = cooling - 1
  /\ UNCHANGED <<modes, pc, world, lock>>

-------------------------------------------------------------------------------
Submit(s) == Rejected(s) \/ \E R \in (SUBSET Recipients) \ {{}} : Taken(s, R)

Step(s) ==
  \/ Start(s) \/ Configure(s) \/ Build(s) \/ FetchFails(s) \/ Guard(s)
  \/ Login(s) \/ LoginFails(s) \/ Submit(s) \/ Accepted(s) \/ ReplyLost(s)
  \/ Quit(s) \/ SaveCopy(s) \/ CopyFails(s)
  \/ ScriptRefused(s) \/ RunScript(s) \/ MailBusy(s)
  \/ ScriptReturns(s) \/ ScriptTimesOut(s)

Next == Tick \/ \E s \in Sends : Step(s) \/ MailSends(s) \/ MailRefuses(s)

Spec == Init /\ [][Next]_vars

(* Every wait of a send has a timeout: the socket's, the lock's and        *)
(* osascript's.  Mail and the servers owe nothing.                         *)
Fairness ==
  \A s \in Sends :
    WF_vars(Step(s))

FairSpec == Spec /\ Fairness

-------------------------------------------------------------------------------
(* Sending is not idempotent: unless the server's reply was lost, nobody   *)
(* gets a second copy, whatever fails after the message was accepted (QUIT,*)
(* the copy in Sent) and whatever the other sends do to the breaker.       *)
NoSecondCopy ==
  \A s \in Sends : heard[s] # "lost" => \A r \in Recipients : got[s][r] <= 1

(* Sent holds one copy of a message that went out once, on providers that  *)
(* file it themselves and on those that do not.                            *)
OneSentCopy == \A s \in Sends : heard[s] # "lost" => filed[s] <= 1

(* A call reports success only for a message that left, and a message the  *)
(* SMTP server accepted is not reported as failed.                         *)
ReportIsTrue ==
  \A s \in Sends :
    /\ pc[s] = "ok" => \E r \in Recipients : got[s][r] > 0
    /\ heard[s] = "accepted" => pc[s] # "failed"

(* Every send ends, also when Mail hangs with the lock taken.              *)
SendsEnd == \A s \in Sends : pc[s] # "ready" ~> pc[s] \in {"ok", "failed"}

(* SMTP, its fallback, the Sent copy and Mail together are one send, which *)
(* is repeated only after a lost reply: the path implements SendOnce.      *)
Said == [s \in Sends |-> IF pc[s] \in {"ok", "failed"} THEN pc[s] ELSE "nothing"]

Doubt ==
  [s \in Sends |-> IF heard[s] # "lost" THEN "none"
                   ELSE IF mail[s] = "sent" THEN "resent" ELSE "lost"]

Once == INSTANCE SendOnce WITH copies <- got, doubt <- Doubt, said <- Said

ImplementsSendOnce == Once!Spec
===============================================================================
