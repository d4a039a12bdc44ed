------------------------------ MODULE ReadBackends -----------------------------
(***************************************************************************)
(* Which backend answers a read: search_messages, get_message (with        *)
(* get_attachments and get_attachment_content, which dispatch alike) and   *)
(* get_thread of mail_connector.py.  The local index, IMAP and AppleScript *)
(* are asked in that order; an account whose IMAP failed is left alone     *)
(* until its circuit breaker closes.  Calls run on worker threads and      *)
(* share the breakers.                                                     *)
(*                                                                         *)
(* One message is looked for.  `home` is the account that holds it, in a   *)
(* folder all the paths look in.                                           *)
(***************************************************************************)
EXTENDS Naturals

CONSTANTS
  Callers,   (* threads                                                    *)
  Accounts,
  Asks,      (* what the calls may ask: a bound on the behaviour           *)
  LocalDb,   (* APPLE_MAIL_MCP_LOCAL_DB: the local index may be asked      *)
  Cooldown,  (* _IMAP_BREAKER_TTL_S, in ticks of the clock                 *)
  None

Search == [op : {"search"}, acct : Accounts, all : BOOLEAN, plain : BOOLEAN]
Get    == [op : {"get"}, acct : Accounts \cup {None}, rfc : BOOLEAN]
Thread == [op : {"thread"}, rfc : BOOLEAN]

ASSUME ReadAssumption ==
  /\ Asks \subseteq Search \cup Get \cup Thread
  /\ LocalDb \in BOOLEAN
  /\ Cooldown \in Nat \ {0} /\ None \notin Accounts

(* What an account's Keychain item and server would answer: "absent" is no *)
(* item, "failing" an item that may not be read, a login that is refused or*)
(* anything that goes wrong on the wire.                                   *)
Health == {"ok", "absent", "failing"}

VARIABLES
  left,     (* _imap_failure_until: what is left of each account's cooldown*)
  health, home,
  mail,     (* Mail answers Apple events                                   *)
  index,    (* the local index can be read                                 *)
  uuids,    (* _local_db_account_uuid_cache                                *)
  pc, req,  (* where each call is, and what it asks                        *)
  at,       (* the account it deals with                                   *)
  todo, unsure,  (* the accounts still to probe, those whose probe failed  *)
  res,      (* how it ended                                                *)
  ruledOut, (* the accounts that answered its probe with "not here", or    *)
            (* are not set up: what the proof of an absence rests on       *)
  steady    (* Mail answered and the message stayed throughout the call    *)

dials == <<health, home, mail, index>>
calls == <<pc, req, at, todo, unsure, res, ruledOut, steady>>
vars  == <<left, dials, uuids, calls>>

NoReq  == [op |-> None]

TypeOK ==
  /\ left \in [Accounts -> 0 .. Cooldown]
  /\ health \in [Accounts -> Health]
  /\ home \in Accounts \cup {None}
  /\ mail \in BOOLEAN
  /\ index \in BOOLEAN
  /\ uuids \subseteq Accounts
  /\ pc \in [Callers -> {"idle", "local", "imap", "asking", "script", "probe",
                         "probing", "anchor", "collect", "collecting",
                         "gather"}]
  /\ req \in [Callers -> Asks \cup {NoReq}]
  /\ at \in [Callers -> Accounts \cup {None}]
  /\ todo \in [Callers -> SUBSET Accounts]
  /\ unsure \in [Callers -> SUBSET Accounts]
  /\ res \in [Callers -> {"none", "local", "imap", "script", "partial",
                          "not_found", "incomplete", "refused", "error"}]
  /\ ruledOut \in [Callers -> SUBSET Accounts]
  /\ steady \in [Callers -> BOOLEAN]

Init ==
  /\ left = [a \in Accounts |-> 0]
  /\ health \in [Accounts -> {"ok", "absent"}]
  /\ home \in Accounts
  /\ mail = TRUE
  /\ index = LocalDb
  /\ uuids = {}
  /\ pc = [c \in Callers |-> "idle"]
  /\ req = [c \in Callers |-> NoReq]
  /\ at = [c \in Callers |-> None]
  /\ todo = [c \in Callers |-> {}]
  /\ unsure = [c \in Callers |-> {}]
  /\ res = [c \in Callers |-> "none"]
  /\ ruledOut = [c \in Callers |-> {}]
  /\ steady = [c \in Callers |-> TRUE]

-----------------------------------------------------------------------------
(* The breaker.                                                            *)
Open(a) == left[a] > 0

(* _imap_clear_breaker *)
Cleared(a) == left' = [left EXCEPT ![a] = 0]

(* _log_imap_fallback: no Keychain item is the user's choice, no failure.  *)
Logged(a) ==
  left' = IF health[a] = "absent" THEN left
          ELSE [left EXCEPT ![a] = Cooldown]

(* An answer that there is no such message is no failure.  Mutant: it is.  *)
MissedFailing(a) == left' = [left EXCEPT ![a] = Cooldown]
Missed(a)        == UNCHANGED left

Goto(c, l) == pc' = [pc EXCEPT ![c] = l]

End(c, r) ==
  /\ Goto(c, "idle")
  /\ res' = [res EXCEPT ![c] = r]

(* The rest of a call's record stays as it is.                             *)
Same == UNCHANGED <<dials, uuids, req, at, todo, unsure, ruledOut, steady>>

-----------------------------------------------------------------------------
(* A call begins.                                                          *)
FirstStep(r) ==
  IF r.op = "search" THEN IF LocalDb /\ r.plain THEN "local" ELSE "imap"
  ELSE IF r.op = "get" THEN IF r.acct # None THEN "imap" ELSE "script"
  ELSE IF r.rfc THEN "probe" ELSE "anchor"

(* get_thread with a Message-ID lists the accounts first, by AppleScript.  *)
Begin(c, r) ==
  /\ pc[c] = "idle"
  /\ req' = [req EXCEPT ![c] = r]
  /\ at' = [at EXCEPT ![c] = IF r.op = "thread" THEN None ELSE r.acct]
  /\ unsure' = [unsure EXCEPT ![c] = {}]
  /\ ruledOut' = [ruledOut EXCEPT ![c] = {}]
  /\ steady' = [steady EXCEPT ![c] = mail]
  /\ IF FirstStep(r) = "probe" /\ ~mail
     THEN End(c, "error") /\ UNCHANGED todo
     ELSE /\ Goto(c, FirstStep(r))
          /\ todo' = [todo EXCEPT ![c] =
                        IF FirstStep(r) = "probe" THEN Accounts ELSE {}]
          /\ res' = [res EXCEPT ![c] = "none"]
  /\ UNCHANGED <<left, dials, uuids>>

(* _search_messages_local_db: the account's UUID is looked up in Mail once,*)
(* and Mail's failure is nobody's to catch.                                *)
AskIndex(c) ==
  /\ pc[c] = "local"
  /\ IF at[c] \notin uuids /\ ~mail
     THEN End(c, "error") /\ UNCHANGED uuids
     ELSE /\ uuids' = uuids \cup {at[c]}
          /\ IF index
             THEN End(c, "local")
             ELSE Goto(c, "imap") /\ UNCHANGED res
  /\ UNCHANGED <<left, dials, req, at, todo, unsure, ruledOut, steady>>

(* The breaker is read here and the answer comes later.                    *)
CheckBreaker(c) ==
  /\ pc[c] = "imap"
  /\ Goto(c, IF Open(at[c]) THEN "script" ELSE "asking")
  /\ UNCHANGED <<left, res>> /\ Same

(* IMAP finds a message by its Message-ID alone, in the folder named.      *)
Finds(a, rfc) == rfc /\ home = a

(* except _IMAP_FALLBACK_EXCS: the call goes on to AppleScript.  Mutant:   *)
(* the missing Keychain item is not among them.                            *)
CaughtFailure(c) ==
  IF health[at[c]] = "absent" THEN End(c, "error") /\ UNCHANGED left
  ELSE Logged(at[c]) /\ Goto(c, "script") /\ UNCHANGED res

Caught(c) == Logged(at[c]) /\ Goto(c, "script") /\ UNCHANGED res

(* The account's configuration comes from Mail, whose failure ends the call.*)
AskImap(c) ==
  /\ pc[c] = "asking"
  /\ \/ ~mail /\ End(c, "error") /\ UNCHANGED left
     \/ mail /\ health[at[c]] # "ok" /\ Caught(c)
     \/ /\ mail /\ health[at[c]] = "ok"
        /\ IF req[c].op = "get" /\ ~Finds(at[c], req[c].rfc)
           THEN End(c, "not_found") /\ Missed(at[c])
           ELSE End(c, "imap") /\ Cleared(at[c])
  /\ Same

(* AppleScript never scans every mailbox, nor for a Message-ID.            *)
RunScript(c) ==
  /\ pc[c] = "script"
  /\ CASE req[c].op = "search" /\ req[c].all -> End(c, "refused")
       [] req[c].op = "get" /\ req[c].rfc    -> End(c, "not_found")
       [] OTHER -> IF ~mail THEN End(c, "error")
                   ELSE IF req[c].op = "get" /\ home = None
                   THEN End(c, "not_found") ELSE End(c, "script")
  /\ UNCHANGED left /\ Same

-----------------------------------------------------------------------------
(* get_thread.  _resolve_anchor_via_imap takes the accounts in turn and    *)
(* passes over one whose breaker is open; _resolve_numeric_anchor asks     *)
(* Mail.                                                                   *)
Probe(c, a) ==
  /\ pc[c] = "probe" /\ a \in todo[c]
  /\ todo' = [todo EXCEPT ![c] = @ \ {a}]
  /\ IF Open(a) THEN UNCHANGED <<pc, at>>
     ELSE Goto(c, "probing") /\ at' = [at EXCEPT ![c] = a]
  /\ UNCHANGED <<left, dials, uuids, req, unsure, res, ruledOut, steady>>

(* resolve_anchor takes a folder that will not open for one without the    *)
(* message, and answers as if it had looked: the last case.                *)
ProbeAnswered(c) ==
  /\ pc[c] = "probing"
  /\ LET a == at[c] IN
     \/ ~mail /\ End(c, "error")
        /\ UNCHANGED <<left, unsure, ruledOut>>
     \/ /\ mail /\ health[a] = "ok" /\ home = a
        /\ Cleared(a) /\ Goto(c, "collect")
        /\ UNCHANGED <<unsure, res, ruledOut>>
     \/ /\ mail /\ health[a] = "ok" /\ home # a
        /\ ruledOut' = [ruledOut EXCEPT ![c] = @ \cup {a}]
        /\ Goto(c, "probe") /\ UNCHANGED <<left, unsure, res>>
     \/ /\ mail /\ health[a] = "absent"
        /\ ruledOut' = [ruledOut EXCEPT ![c] = @ \cup {a}]
        /\ Goto(c, "probe") /\ Logged(a) /\ UNCHANGED <<unsure, res>>
     \/ /\ mail /\ health[a] = "failing"
        /\ unsure' = [unsure EXCEPT ![c] = @ \cup {a}]
        /\ Goto(c, "probe") /\ Logged(a) /\ UNCHANGED <<res, ruledOut>>
     \/ /\ mail /\ health[a] = "failing"
        /\ ruledOut' = [ruledOut EXCEPT ![c] = @ \cup {a}]
        /\ Goto(c, "probe") /\ UNCHANGED <<left, unsure, res>>
  /\ UNCHANGED <<dials, uuids, req, at, todo, steady>>

ProbesOver(c) ==
  /\ pc[c] = "probe" /\ todo[c] = {}
  /\ End(c, IF unsure[c] # {} THEN "incomplete" ELSE "not_found")
  /\ UNCHANGED left /\ Same

AskAnchor(c) ==
  /\ pc[c] = "anchor"
  /\ IF ~mail THEN End(c, "error") /\ UNCHANGED at
     ELSE IF home = None THEN End(c, "not_found") /\ UNCHANGED at
     ELSE /\ at' = [at EXCEPT ![c] = home]
          /\ Goto(c, "collect") /\ UNCHANGED res
  /\ UNCHANGED <<left, dials, uuids, req, todo, unsure, ruledOut, steady>>

(* _get_thread_with_status: the members, by IMAP or, with the reason in the*)
(* answer, by AppleScript.                                                 *)
CheckCollect(c) ==
  /\ pc[c] = "collect"
  /\ Goto(c, IF Open(at[c]) THEN "gather" ELSE "collecting")
  /\ UNCHANGED <<left, res>> /\ Same

(* A probe hands its connector on, so only a numeric anchor asks Mail and  *)
(* the Keychain again.                                                     *)
Collect(c) ==
  /\ pc[c] = "collecting"
  /\ LET a == at[c] IN
     \/ ~req[c].rfc /\ ~mail /\ End(c, "error") /\ UNCHANGED left
     \/ /\ req[c].rfc \/ mail
        /\ IF health[a] = "ok" \/ (req[c].rfc /\ health[a] = "absent")
           THEN Cleared(a) /\ End(c, "imap")
           ELSE Logged(a) /\ Goto(c, "gather") /\ UNCHANGED res
  /\ Same

Gather(c) ==
  /\ pc[c] = "gather"
  /\ End(c, IF mail THEN "partial" ELSE "error")
  /\ UNCHANGED left /\ Same

-----------------------------------------------------------------------------
(* time.monotonic()                                                        *)
Tick ==
  /\ \E a \in Accounts : Open(a)
  /\ left' = [a \in Accounts |-> IF left[a] > 0 THEN left[a] - 1 ELSE 0]
  /\ UNCHANGED <<dials, uuids, calls>>

(* What happens outside the program.                                       *)
HealthChanges(a) ==
  /\ \E h \in Health \ {health[a]} : health' = [health EXCEPT ![a] = h]
  /\ UNCHANGED <<left, home, mail, index, uuids, calls>>

MailChanges ==
  /\ mail' = ~mail
  /\ steady' = [c \in Callers |-> FALSE]
  /\ UNCHANGED <<left, health, home, index, uuids, pc, req, at, todo, unsure,
                 res, ruledOut>>

MessageGoes ==
  /\ home # None
  /\ home' = None
  /\ steady' = [c \in Callers |-> FALSE]
  /\ UNCHANGED <<left, health, mail, index, uuids, pc, req, at, todo, unsure,
                 res, ruledOut>>

IndexChanges ==
  /\ LocalDb
  /\ index' = ~index
  /\ UNCHANGED <<left, health, home, mail, uuids, calls>>

Step(c) ==
  \/ AskIndex(c) \/ CheckBreaker(c) \/ AskImap(c) \/ RunScript(c)
  \/ \E a \in Accounts : Probe(c, a)
  \/ ProbeAnswered(c) \/ ProbesOver(c) \/ AskAnchor(c)
  \/ CheckCollect(c) \/ Collect(c) \/ Gather(c)

Next ==
  \/ \E c \in Callers, r \in Asks : Begin(c, r)
  \/ \E c \in Callers : Step(c)
  \/ \E a \in Accounts : HealthChanges(a)
  \/ Tick \/ MailChanges \/ MessageGoes \/ IndexChanges

Spec == Init /\ [][Next]_vars

(* Time passes, and a call that has begun goes on.                         *)
FairSpec == Spec /\ WF_vars(Tick) /\ \A c \in Callers : WF_vars(Step(c))

-----------------------------------------------------------------------------
(* The graceful degradation of the reads: while Mail answers and the       *)
(* message stays, a search of one mailbox, a look-up by Mail's own id with *)
(* no mailbox named and a thread from such an id all end with messages,    *)
(* whatever becomes of the index, the Keychain and the server meanwhile,   *)
(* and whatever other calls do to the breaker.                             *)
AlwaysAnswerable(r) ==
  \/ r.op = "search" /\ ~r.all
  \/ r.op = "get" /\ ~r.rfc /\ r.acct = None
  \/ r.op = "thread" /\ ~r.rfc

ReadsDegrade ==
  \A c \in Callers :
    steady[c] /\ home # None /\ res[c] # "none" /\ AlwaysAnswerable(req[c])
      => res[c] \in {"local", "imap", "script", "partial"}

(* An account whose server and password are good again, and stay so, gets  *)
(* its IMAP back for good: the calls that pass it by while its breaker is  *)
(* open do not keep it open.                                               *)
BreakerCloses ==
  \A a \in Accounts : <>[](health[a] = "ok") => <>[](~Open(a))

(* get_thread says that no account has the message only if each one        *)
(* answered so in this call, or is not set up for IMAP.                    *)
AbsenceEstablished ==
  \A c \in Callers :
    req[c].op = "thread" /\ req[c].rfc /\ res[c] = "not_found"
      => ruledOut[c] = Accounts
=============================================================================
