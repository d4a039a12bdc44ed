--------------------------------- MODULE SetUp ---------------------------------
(***************************************************************************)
(* `setup-imap` and what the server makes of it: the Keychain items        *)
(* (keychain.py), the two files of overrides (imap_overrides.py), the      *)
(* command that writes and verifies them (cli.py), and the configuration   *)
(* and the password that every IMAP request looks up (mail_connector.py).  *)
(*                                                                         *)
(* One account of Mail.  The command takes its name only and stores under  *)
(* it; callers of the server name the account by that or by its UUID.      *)
(***************************************************************************)
EXTENDS Naturals, FiniteSets

CONSTANTS
  Name, Uuid,                   (* the two ways to name the account        *)
  Passwords, Hosts, Ports, Emails,
  ICloudHosts, AppleAddresses,  (* is_icloud_imap_host, is_apple_hosted_... *)
  MailHost, MailPort, UserName, (* what Mail reports of the account        *)
  Alias,                        (* its first Apple-hosted address, or None *)
  Serves,                       (* the <<host, port>> that speak IMAP      *)
  MaxAttempts,                  (* _MAX_PASSWORD_ATTEMPTS                  *)
  MaxRuns,                      (* bound: how often the command is run     *)
  None

ASSUME SetUpAssumption ==
  /\ ICloudHosts \subseteq Hosts /\ AppleAddresses \subseteq Emails
  /\ MailHost \in Hosts /\ MailPort \in Ports /\ UserName \in Emails
  /\ Alias \in AppleAddresses \cup {None}
  /\ Serves \subseteq Hosts \X Ports
  /\ MaxAttempts \in Nat \ {0} /\ MaxRuns \in Nat
  /\ Name # Uuid /\ None \notin Passwords \cup Hosts \cup Ports \cup Emails

VARIABLES
  keychain, (* [item -> password or None]; an item has a service prefix,   *)
            (* "new" or "legacy", an identifier and a login                *)
  env,      (* the password in the account's environment variable, or None *)
  logins,   (* imap_login_overrides.json                                   *)
  servers,  (* imap_server_overrides.json                                  *)
  good,     (* the password and the login that the server accepts          *)
  run,      (* the command at work, or None                                *)
  last,     (* how the last one, or its last attempt, ended                *)
  runs      (* how many there were                                         *)

setUpVars == <<keychain, env, logins, servers, good, run, last, runs>>

Idents == {Name, Uuid}
Items  == {"new", "legacy"} \X Idents \X Emails
Server == [host : Hosts \cup {None}, port : Ports \cup {None}]
Creds  == [host : Hosts, port : Ports, email : Emails, password : Passwords \cup {None}]

(* A run of the command: what it was given, and what it made of that.      *)
Steps == {"prompt", "login", "server", "verify", "undoLogin", "undoServer",
          "dropLogin", "dropServer"}
Invocation == [at : Steps, attempt : 1 .. MaxAttempts, password : Passwords \cup {None},
               cliEmail : Emails \cup {None}, cliHost : Hosts \cup {None},
               cliPort : Ports \cup {None}, email : Emails, host : Hosts, port : Ports]

ASSUME NoInvocation == None \notin Invocation

SetUpTypeOK ==
  /\ run \in Invocation \cup {None}
  /\ last \in [outcome : {"none", "running", "cancelled", "ok", "unverified", "refused",
                         "uninstall", "killed"},
               creds : Creds \cup {None}, shadowed : BOOLEAN, stuck : BOOLEAN]
  /\ runs \in 0 .. MaxRuns
  /\ keychain \in [Items -> Passwords \cup {None}]
  /\ env \in Passwords \cup {None}
  /\ logins \in [Idents -> Emails \cup {None}]
  /\ servers \in [Idents -> Server]
  /\ good \in [email : Emails, password : Passwords]

-------------------------------------------------------------------------------
(* Run time                                                                *)

Or(x, y) == IF x = None THEN y ELSE x

(* _resolve_imap_config: the host's override decides about the iCloud rule,*)
(* and an override of the login has the last word.                         *)
HostOf(ident)  == Or(servers[ident].host, MailHost)
PortOf(ident)  == Or(servers[ident].port, MailPort)
Derived(host)  == IF host \in ICloudHosts /\ UserName \notin AppleAddresses
                  THEN Or(Alias, UserName) ELSE UserName
EmailOf(ident) == Or(logins[ident], Derived(HostOf(ident)))

(* get_imap_password: the environment, the new prefix, the legacy one.     *)
Found(ident, email) ==
  Or(env, Or(keychain[<<"new", ident, email>>], keychain[<<"legacy", ident, email>>]))

(* _get_imap_password_with_fallback: under the other identifier, too.      *)
Other(ident) == CHOOSE i \in Idents \ {ident} : TRUE
Password(ident, email) == Or(Found(ident, email), Found(Other(ident), email))

RunTime(ident) ==
  [host |-> HostOf(ident), port |-> PortOf(ident), email |-> EmailOf(ident),
   password |-> Password(ident, EmailOf(ident))]

-------------------------------------------------------------------------------
(* The command                                                             *)

(* delete_imap_password: one of the two, the new one first.  Mutant: the   *)
(* legacy one first.                                                       *)
DeletedLegacyFirst(ident, email) ==
  IF keychain[<<"legacy", ident, email>>] # None THEN <<"legacy", ident, email>>
  ELSE <<"new", ident, email>>
Deleted(ident, email) ==
  IF keychain[<<"new", ident, email>>] # None THEN <<"new", ident, email>>
  ELSE <<"legacy", ident, email>>

NoServer == [host |-> None, port |-> None]
Ended(outcome) == run' = None /\ last' = [last EXCEPT !.outcome = outcome]
Creds0 == [host |-> run.host, port |-> run.port, email |-> run.email, password |-> run.password]

(* run_setup_imap: the configuration is resolved once, as run time would.  *)
(* `shadowed` records the runs of which VerifiedIsUsed says nothing.       *)
Start(email, host, port) ==
  LET partial == /\ (host = None) # (port = None)
                 /\ Or(servers[Name].host, host) # host \/ Or(servers[Name].port, port) # port
      moved == /\ email = None /\ logins[Name] = None /\ host # None
               /\ (host \in ICloudHosts) # (HostOf(Name) \in ICloudHosts)
  IN  /\ run = None /\ runs < MaxRuns
      /\ runs' = runs + 1
      /\ run' = [at |-> "prompt", attempt |-> 1, password |-> None,
                 cliEmail |-> email, cliHost |-> host, cliPort |-> port,
                 email |-> Or(email, EmailOf(Name)),
                 host |-> Or(host, HostOf(Name)), port |-> Or(port, PortOf(Name))]
      /\ last' = [outcome |-> "running", creds |-> None, shadowed |-> partial \/ moved, stuck |-> FALSE]
      /\ UNCHANGED <<keychain, env, logins, servers, good>>

(* _prompt_write_verify.  An empty password costs an attempt.              *)
TypeNothing ==
  /\ run # None /\ run.at = "prompt"
  /\ IF run.attempt = MaxAttempts THEN Ended("cancelled")
     ELSE run' = [run EXCEPT !.attempt = run.attempt + 1] /\ UNCHANGED last
  /\ UNCHANGED <<keychain, env, logins, servers, good, runs>>

(* The end of the input, an interrupt, or a Keychain that refuses to write.*)
Cancel ==
  /\ run # None /\ run.at = "prompt"
  /\ Ended("cancelled")
  /\ UNCHANGED <<keychain, env, logins, servers, good, runs>>

TypePassword(password) ==
  /\ run # None /\ run.at = "prompt"
  /\ keychain' = [keychain EXCEPT ![<<"new", Name, run.email>>] = password]
  /\ run' = [run EXCEPT !.at = "login", !.password = password]
  /\ UNCHANGED <<env, logins, servers, good, last, runs>>

(* set_login_override, for an explicit --email.  Mutant: never.            *)
NoLoginOverride ==
  /\ run # None /\ run.at = "login"
  /\ run' = [run EXCEPT !.at = "server"]
  /\ UNCHANGED <<keychain, env, logins, servers, good, last, runs>>
SetLogin ==
  /\ run # None /\ run.at = "login"
  /\ logins' = IF run.cliEmail = None THEN logins ELSE [logins EXCEPT ![Name] = run.email]
  /\ run' = [run EXCEPT !.at = "server"]
  /\ UNCHANGED <<keychain, env, servers, good, last, runs>>

(* set_server_override replaces the account's entry.                       *)
SetServer ==
  /\ run # None /\ run.at = "server"
  /\ servers' = IF run.cliHost = None /\ run.cliPort = None THEN servers
                ELSE [servers EXCEPT ![Name] = [host |-> run.cliHost, port |-> run.cliPort]]
  /\ run' = [run EXCEPT !.at = "verify"]
  /\ UNCHANGED <<keychain, env, logins, good, last, runs>>

(* The login and a search of INBOX.                                        *)
Accepted ==
  /\ run # None /\ run.at = "verify"
  /\ <<run.host, run.port>> \in Serves
  /\ good = [email |-> run.email, password |-> run.password]
  /\ run' = None
  /\ last' = [last EXCEPT !.outcome = "ok", !.creds = Creds0]
  /\ UNCHANGED <<keychain, env, logins, servers, good, runs>>

(* The network or the protocol fails: everything is kept.                  *)
Unverified ==
  /\ run # None /\ run.at = "verify"
  /\ Ended("unverified")
  /\ UNCHANGED <<keychain, env, logins, servers, good, runs>>

(* LoginError: _rollback deletes the item, ignoring a Keychain that        *)
(* refuses (`stuck`), then the overrides, and there is another attempt.    *)
Rejected(stuck) ==
  /\ run # None /\ run.at = "verify"
  /\ <<run.host, run.port>> \in Serves
  /\ good # [email |-> run.email, password |-> run.password]
  /\ keychain' = IF stuck THEN keychain
                 ELSE [keychain EXCEPT ![Deleted(Name, run.email)] = None]
  /\ last' = [last EXCEPT !.outcome = "refused", !.creds = Creds0, !.stuck = stuck]
  /\ run' = [run EXCEPT !.at = "undoLogin"]
  /\ UNCHANGED <<env, logins, servers, good, runs>>

UndoLogin ==
  /\ run # None /\ run.at = "undoLogin"
  /\ logins' = IF run.cliEmail = None THEN logins ELSE [logins EXCEPT ![Name] = None]
  /\ run' = [run EXCEPT !.at = "undoServer"]
  /\ UNCHANGED <<keychain, env, servers, good, last, runs>>

UndoServer ==
  /\ run # None /\ run.at = "undoServer"
  /\ servers' = IF run.cliHost = None /\ run.cliPort = None THEN servers
                ELSE [servers EXCEPT ![Name] = NoServer]
  /\ run' = IF run.attempt = MaxAttempts THEN None
            ELSE [run EXCEPT !.at = "prompt", !.attempt = run.attempt + 1]
  /\ UNCHANGED <<keychain, env, logins, good, last, runs>>

(* --uninstall: the item, the login, the server.  Without an item, or when *)
(* the Keychain refuses, nothing is removed.                               *)
Uninstall(email) ==
  LET login == Or(email, EmailOf(Name))
      item == Deleted(Name, login)
  IN  /\ run = None /\ runs < MaxRuns
      /\ runs' = runs + 1
      /\ last' = [outcome |-> "uninstall", creds |-> None, shadowed |-> FALSE, stuck |-> FALSE]
      /\ \/ UNCHANGED <<keychain, run>>
         \/ /\ keychain[item] # None
            /\ keychain' = [keychain EXCEPT ![item] = None]
            /\ run' = [at |-> "dropLogin", attempt |-> 1, password |-> None,
                       cliEmail |-> email, cliHost |-> None, cliPort |-> None,
                       email |-> login, host |-> HostOf(Name), port |-> PortOf(Name)]
      /\ UNCHANGED <<env, logins, servers, good>>

DropLogin ==
  /\ run # None /\ run.at = "dropLogin"
  /\ logins' = [logins EXCEPT ![Name] = None]
  /\ run' = [run EXCEPT !.at = "dropServer"]
  /\ UNCHANGED <<keychain, env, servers, good, last, runs>>

DropServer ==
  /\ run # None /\ run.at = "dropServer"
  /\ servers' = [servers EXCEPT ![Name] = NoServer]
  /\ run' = None
  /\ UNCHANGED <<keychain, env, logins, good, last, runs>>

(* The terminal is closed between two of the steps.  In the roll-back the  *)
(* password has been refused all the same.                                 *)
Killed ==
  /\ run # None
  /\ Ended(IF run.at \in {"undoLogin", "undoServer"} THEN "refused" ELSE "killed")
  /\ UNCHANGED <<keychain, env, logins, servers, good, runs>>

(* Between runs, the provider revokes the password and issues another.     *)
Revoked(password) ==
  /\ run = None /\ password # good.password
  /\ good' = [good EXCEPT !.password = password]
  /\ UNCHANGED <<keychain, env, logins, servers, run, last, runs>>

-------------------------------------------------------------------------------
(* An item of an earlier version may be there.                             *)
SetUpInit ==
  /\ keychain \in {[i \in Items |-> IF i = item THEN p ELSE None] :
                     item \in {<<"legacy", Name, UserName>>}, p \in Passwords \cup {None}}
  /\ env \in {None, CHOOSE p \in Passwords : TRUE}
  /\ logins = [i \in Idents |-> None]
  /\ servers = [i \in Idents |-> NoServer]
  /\ good \in [email : Emails, password : Passwords]
  /\ run = None
  /\ last = [outcome |-> "none", creds |-> None, shadowed |-> FALSE, stuck |-> FALSE]
  /\ runs = 0

SetUpNext ==
  \/ \E email \in Emails \cup {None}, host \in Hosts \cup {None}, port \in Ports \cup {None} :
       Start(email, host, port)
  \/ TypeNothing \/ Cancel \/ SetLogin \/ SetServer \/ Accepted \/ Unverified
  \/ UndoLogin \/ UndoServer \/ DropLogin \/ DropServer \/ Killed
  \/ \E password \in Passwords : TypePassword(password) \/ Revoked(password)
  \/ \E stuck \in BOOLEAN : Rejected(stuck)
  \/ \E email \in Emails \cup {None} : Uninstall(email)

SetUpSpec == SetUpInit /\ [][SetUpNext]_setUpVars

-------------------------------------------------------------------------------
(* After a run that verified its credentials, run time uses exactly these: *)
(* the host, the port, the login and the password, whatever runs, failures *)
(* and crashes there were before ("so runtime resolution uses the same     *)
(* login we verify here"), also for a caller who gives the UUID, unless an *)
(* override is stored, which is looked up by name.  Excepted are a password*)
(* in the environment, a run that gives one of host and port when an       *)
(* earlier one gave the other, and a --host that moves the account to or   *)
(* from iCloud; each of these refutes it.                                  *)
VerifiedIsUsed ==
  last.outcome = "ok" /\ ~ last.shadowed /\ env = None =>
    /\ RunTime(Name) = last.creds
    /\ logins[Name] = None /\ servers[Name] = NoServer => RunTime(Uuid) = last.creds

(* A password that was refused is not what run time goes on to use ("so a  *)
(* rejected password never leaves a broken item that get_imap_password     *)
(* would happily return"), from its deletion until another attempt writes, *)
(* also when the roll-back is cut off, unless the Keychain refused to      *)
(* delete it, or the same password is in an item that the attempt did not  *)
(* write, or in the environment.                                           *)
RefusedIsForgotten ==
  last.outcome = "refused" /\ ~ last.stuck =>
    \/ RunTime(Name) # last.creds
    \/ run # None /\ run.at \in {"login", "server", "verify"}
    \/ env = last.creds.password
    \/ \E item \in Items \ {<<"new", Name, last.creds.email>>} :
         keychain[item] = last.creds.password
===============================================================================
