--------------------------- MODULE Connections_proofs ---------------------------
(***************************************************************************)
(* What an IMAP connection depends on: the credentials `setup-imap` has    *)
(* stored, and the pool of logged-in clients.  The two components share no *)
(* variable and no name, so one module extends both; neither proof uses    *)
(* the other.                                                              *)
(***************************************************************************)
EXTENDS ImapPool, SetUp, TLAPS

(***************************************************************************)
(* What a run of set-up verified is what run time uses, and what it refused*)
(* is not, for any passwords, hosts, ports and logins, any server, and any *)
(* number of runs and attempts.                                            *)
(*                                                                         *)
(* A run computes its host, port and login once and writes the stores one  *)
(* after the other; run time computes them from the stores.  What carries  *)
(* the proof is how the two are related at each step of a run: what was    *)
(* not given on the command line still comes out of the stores as it did   *)
(* (Coordinates, Login), and what has been written is there (Item).        *)
(***************************************************************************)

(* A run that has written its password, and one that takes stores away.    *)
Writing  == run.at \in {"login", "server", "verify"}
Dropping == run.at \in {"dropLogin", "dropServer"}

Given == run.cliHost # None \/ run.cliPort # None

Coordinates ==
  run # None /\ ~ Dropping =>
    /\ run.cliHost # None => run.host = run.cliHost
    /\ run.cliPort # None => run.port = run.cliPort
    /\ ~ Given => run.host = HostOf(Name) /\ run.port = PortOf(Name)
    /\ Given /\ ~ last.shadowed /\ run.cliHost = None => run.host = MailHost
    /\ Given /\ ~ last.shadowed /\ run.cliPort = None => run.port = MailPort
    /\ Given /\ run.at = "verify" =>
         servers[Name] = [host |-> run.cliHost, port |-> run.cliPort]

Login ==
  run # None /\ ~ Dropping =>
    /\ run.cliEmail # None => run.email = run.cliEmail
    /\ run.cliEmail = None =>
         IF logins[Name] # None THEN run.email = logins[Name]
         ELSE ~ last.shadowed => run.email = Derived(run.host)
    /\ run.cliEmail # None /\ run.at \in {"server", "verify"} =>
         logins[Name] = run.email

Item ==
  run # None =>
    /\ last.outcome # "ok"
    /\ run.at \in {"undoLogin", "undoServer"} => last.outcome = "refused"
    /\ Writing =>
         run.password \in Passwords /\ keychain[<<"new", Name, run.email>>] = run.password

(* Nothing touches the stores between a verified run and the next command. *)
Verified == last.outcome = "ok" => run = None

Refused ==
  last.outcome = "refused" =>
    /\ last.creds \in Creds /\ last.creds.password \in Passwords
    /\ \/ last.stuck
       \/ run # None /\ Writing
       \/ keychain[<<"new", Name, last.creds.email>>] = None

(* Nothing is stored under the UUID.                                       *)
ByName ==
  /\ logins[Uuid] = None /\ servers[Uuid] = NoServer
  /\ \A prefix \in {"new", "legacy"}, email \in Emails : keychain[<<prefix, Uuid, email>>] = None

SetUpInv == SetUpTypeOK /\ Coordinates /\ Login /\ Item /\ Verified /\ VerifiedIsUsed /\ Refused

-------------------------------------------------------------------------------
(* A password that run time finds is in the environment or in some item.   *)
LEMMA FoundSomewhere ==
  ASSUME SetUpTypeOK, NEW ident \in Idents, NEW email \in Emails, NEW p \in Passwords,
         Password(ident, email) = p
  PROVE  env = p \/ \E item \in Items : keychain[item] = p
<1>1. Other(ident) \in Idents
  BY SetUpAssumption DEF Other, Idents
<1>2. \A i \in Idents : /\ <<"new", i, email>> \in Items
                        /\ <<"legacy", i, email>> \in Items
  BY DEF Items
<1>3. p # None
  BY SetUpAssumption
<1> QED BY <1>1, <1>2, <1>3 DEF Password, Found, Or

(* What was refused is gone from the one item the attempt wrote, so run time *)
(* finds it only elsewhere.                                                *)
LEMMA RefusedSuffices == SetUpTypeOK /\ Refused => RefusedIsForgotten
<1> SUFFICES ASSUME SetUpTypeOK, Refused, last.outcome = "refused", ~ last.stuck,
                    RunTime(Name) = last.creds, ~ (run # None /\ Writing),
                    env # last.creds.password
             PROVE  \E item \in Items \ {<<"new", Name, last.creds.email>>} :
                      keychain[item] = last.creds.password
  BY DEF RefusedIsForgotten, Writing
<1>1. last.creds.email \in Emails /\ last.creds.password \in Passwords /\ Name \in Idents
  BY DEF Refused, SetUpTypeOK, Creds, Idents
<1>2. Password(Name, last.creds.email) = last.creds.password
  BY DEF RunTime
<1>3. keychain[<<"new", Name, last.creds.email>>] = None
  BY DEF Refused
<1>4. PICK item \in Items : keychain[item] = last.creds.password
  BY <1>1, <1>2, FoundSomewhere
<1>5. item # <<"new", Name, last.creds.email>>
  BY <1>1, <1>3, <1>4, SetUpAssumption
<1> QED BY <1>4, <1>5

(* The invariant holds at first.                                           *)
LEMMA InitSetUpInv == SetUpInit => SetUpInv
<1> SUFFICES ASSUME SetUpInit PROVE SetUpInv
  OBVIOUS
<1>1. /\ run = None
      /\ last = [outcome |-> "none", creds |-> None, shadowed |-> FALSE, stuck |-> FALSE]
  BY DEF SetUpInit
<1>2. SetUpTypeOK
  <2>1. keychain \in [Items -> Passwords \cup {None}]
    BY DEF SetUpInit
  <2>2. env \in Passwords \cup {None}
    BY DEF SetUpInit
  <2> QED BY <1>1, <2>1, <2>2, SetUpAssumption DEF SetUpInit, SetUpTypeOK, Idents, NoServer, Server
<1>3. Coordinates /\ Login /\ Item
  BY <1>1 DEF Coordinates, Login, Item
<1>4. Verified /\ VerifiedIsUsed /\ Refused
  BY <1>1 DEF Verified, VerifiedIsUsed, Refused
<1> QED BY <1>2, <1>3, <1>4 DEF SetUpInv

-------------------------------------------------------------------------------
(* The command begins.                                                     *)
LEMMA StepStart ==
  ASSUME SetUpInv, NEW email \in Emails \cup {None}, NEW host \in Hosts \cup {None},
         NEW port \in Ports \cup {None}, Start(email, host, port)
  PROVE  SetUpInv'
<1> DEFINE partial == /\ (host = None) # (port = None)
                      /\ Or(servers[Name].host, host) # host \/ Or(servers[Name].port, port) # port
           moved == /\ email = None /\ logins[Name] = None /\ host # None
                    /\ (host \in ICloudHosts) # (HostOf(Name) \in ICloudHosts)
           command == [at |-> "prompt", attempt |-> 1, password |-> None,
                       cliEmail |-> email, cliHost |-> host, cliPort |-> port,
                       email |-> Or(email, EmailOf(Name)),
                       host |-> Or(host, HostOf(Name)), port |-> Or(port, PortOf(Name))]
<1> USE DEF SetUpInv
<1>1. /\ run = None /\ runs < MaxRuns /\ runs' = runs + 1 /\ run' = command
      /\ last' = [outcome |-> "running", creds |-> None, shadowed |-> partial \/ moved, stuck |-> FALSE]
      /\ UNCHANGED <<keychain, env, logins, servers, good>>
  BY DEF Start
<1>2. servers[Name] \in Server /\ logins[Name] \in Emails \cup {None}
  BY DEF SetUpTypeOK, Idents
<1>3. HostOf(Name) \in Hosts /\ PortOf(Name) \in Ports
  BY <1>2, SetUpAssumption DEF HostOf, PortOf, Or, Server
<1>4. \A h : Derived(h) \in Emails
  BY SetUpAssumption DEF Derived, Or
<1>5. EmailOf(Name) \in Emails
  BY <1>2, <1>4 DEF EmailOf, Or
<1>6. command \in Invocation
  BY <1>3, <1>5, SetUpAssumption DEF Invocation, Steps, Or
<1>7. SetUpTypeOK'
  BY <1>1, <1>6, SetUpAssumption DEF SetUpTypeOK
<1>8. Coordinates'
  <2>1. host = None /\ port = None => Or(host, HostOf(Name)) = HostOf(Name) /\ Or(port, PortOf(Name)) = PortOf(Name)
    BY DEF Or
  <2>2. ~ partial /\ host = None /\ port # None => HostOf(Name) = MailHost
    BY <1>2 DEF HostOf, Or, Server
  <2>3. ~ partial /\ port = None /\ host # None => PortOf(Name) = MailPort
    BY <1>2 DEF PortOf, Or, Server
  <2>4. HostOf(Name)' = HostOf(Name) /\ PortOf(Name)' = PortOf(Name)
    BY <1>1 DEF HostOf, PortOf
  <2> HIDE DEF partial, moved
  <2> QED BY <1>1, <2>1, <2>2, <2>3, <2>4 DEF Coordinates, Dropping, Given, Or
<1>9. Login'
  <2>1. logins[Name] # None => EmailOf(Name) = logins[Name]
    BY DEF EmailOf, Or
  <2>2. logins[Name] = None => EmailOf(Name) = Derived(HostOf(Name))
    BY DEF EmailOf, Or
  <2>3. email = None /\ logins[Name] = None /\ ~ moved =>
          Derived(HostOf(Name)) = Derived(Or(host, HostOf(Name)))
    BY DEF Derived, Or
  <2> HIDE DEF partial, moved
  <2> QED BY <1>1, <2>1, <2>2, <2>3 DEF Login, Dropping, Or
<1>10. Item' /\ Verified' /\ Refused' /\ VerifiedIsUsed'
  BY <1>1 DEF Item, Writing, Verified, Refused, VerifiedIsUsed
<1> QED BY <1>7, <1>8, <1>9, <1>10

(* An attempt: the password, the login, the server, one write each.        *)
LEMMA StepTypePassword ==
  ASSUME SetUpInv, NEW password \in Passwords, TypePassword(password)
  PROVE  SetUpInv'
<1> USE DEF SetUpInv
<1>1. /\ run # None /\ run.at = "prompt" /\ run \in Invocation
      /\ keychain' = [keychain EXCEPT ![<<"new", Name, run.email>>] = password]
      /\ run' = [run EXCEPT !.at = "login", !.password = password]
      /\ UNCHANGED <<env, logins, servers, good, last, runs>>
  BY DEF TypePassword, SetUpTypeOK
<1>2. /\ run' \in Invocation /\ run'.at = "login" /\ run'.password = password
      /\ run'.email = run.email /\ run'.host = run.host
      /\ run'.port = run.port /\ run'.cliEmail = run.cliEmail
      /\ run'.cliHost = run.cliHost /\ run'.cliPort = run.cliPort
  BY <1>1 DEF Invocation, Steps, Idents
<1>3. run' # None
  BY <1>2, NoInvocation
<1>4. <<"new", Name, run.email>> \in Items
  BY <1>1 DEF Items, Idents, Invocation
<1>5. SetUpTypeOK'
  BY <1>1, <1>2 DEF SetUpTypeOK
<1>6. Coordinates'
  BY <1>1, <1>2 DEF Coordinates, Dropping, Given, HostOf, PortOf
<1>7. Login'
  BY <1>1, <1>2 DEF Login, Dropping, Derived
<1>8. Item'
  BY <1>1, <1>2, <1>4 DEF Item, Writing, SetUpTypeOK
<1>9. Verified' /\ VerifiedIsUsed'
  BY <1>1 DEF Item, Writing, Verified, VerifiedIsUsed
<1>10. Refused'
  BY <1>1, <1>2, <1>3 DEF Refused, Writing
<1> QED BY <1>5, <1>6, <1>7, <1>8, <1>9, <1>10

(* The login is written: run time derives the one the run uses.            *)
LEMMA StepSetLogin == ASSUME SetUpInv, SetLogin PROVE SetUpInv'
<1> USE DEF SetUpInv
<1>1. /\ run # None /\ run.at = "login" /\ run \in Invocation
      /\ logins' = IF run.cliEmail = None THEN logins ELSE [logins EXCEPT ![Name] = run.email]
      /\ run' = [run EXCEPT !.at = "server"]
      /\ UNCHANGED <<keychain, env, servers, good, last, runs>>
  BY DEF SetLogin, SetUpTypeOK
<1>2. /\ run' \in Invocation /\ run'.at = "server" /\ run'.password = run.password
      /\ run'.email = run.email /\ run'.host = run.host
      /\ run'.port = run.port /\ run'.cliEmail = run.cliEmail
      /\ run'.cliHost = run.cliHost /\ run'.cliPort = run.cliPort
      /\ Name \in Idents /\ run.email \in Emails
  BY <1>1 DEF Invocation, Steps, Idents
<1>3. run' # None
  BY <1>2, NoInvocation
<1>5. SetUpTypeOK'
  BY <1>1, <1>2 DEF SetUpTypeOK
<1>6. Coordinates'
  BY <1>1, <1>2 DEF Coordinates, Dropping, Given, HostOf, PortOf
<1>7. Login'
  BY <1>1, <1>2, SetUpAssumption DEF Login, Dropping, Derived, SetUpTypeOK
<1>8. Item'
  BY <1>1, <1>2 DEF Item, Writing
<1>9. Verified' /\ VerifiedIsUsed'
  BY <1>1 DEF Item, Writing, Verified, VerifiedIsUsed
<1>10. Refused'
  BY <1>1, <1>2, <1>3 DEF Refused, Writing
<1> QED BY <1>5, <1>6, <1>7, <1>8, <1>9, <1>10

(* The server is written: run time would connect where the run does.       *)
LEMMA StepSetServer == ASSUME SetUpInv, SetServer PROVE SetUpInv'
<1> USE DEF SetUpInv
<1>1. /\ run # None /\ run.at = "server" /\ run \in Invocation
      /\ servers' = IF run.cliHost = None /\ run.cliPort = None THEN servers
                    ELSE [servers EXCEPT ![Name] = [host |-> run.cliHost, port |-> run.cliPort]]
      /\ run' = [run EXCEPT !.at = "verify"]
      /\ UNCHANGED <<keychain, env, logins, good, last, runs>>
  BY DEF SetServer, SetUpTypeOK
<1>2. /\ run' \in Invocation /\ run'.at = "verify" /\ run'.password = run.password
      /\ run'.email = run.email /\ run'.host = run.host
      /\ run'.port = run.port /\ run'.cliEmail = run.cliEmail
      /\ run'.cliHost = run.cliHost /\ run'.cliPort = run.cliPort
      /\ Name \in Idents /\ run.email \in Emails
      /\ [host |-> run.cliHost, port |-> run.cliPort] \in Server
  BY <1>1 DEF Invocation, Steps, Idents, Server
<1>3. run' # None
  BY <1>2, NoInvocation
<1>5. SetUpTypeOK'
  BY <1>1, <1>2 DEF SetUpTypeOK
<1>6. Coordinates'
  <2>1. ~ Given => servers' = servers
    BY <1>1 DEF Given
  <2>2. Given => servers'[Name] = [host |-> run.cliHost, port |-> run.cliPort]
    BY <1>1, <1>2 DEF Given, SetUpTypeOK
  <2>3. Given' <=> Given
    BY <1>2 DEF Given
  <2> QED BY <1>1, <1>2, <2>1, <2>2, <2>3 DEF Coordinates, Dropping, HostOf, PortOf
<1>7. Login'
  BY <1>1, <1>2 DEF Login, Dropping, Derived
<1>8. Item'
  BY <1>1, <1>2 DEF Item, Writing
<1>9. Verified' /\ VerifiedIsUsed'
  BY <1>1 DEF Item, Writing, Verified, VerifiedIsUsed
<1>10. Refused'
  BY <1>1, <1>2, <1>3 DEF Refused, Writing
<1> QED BY <1>5, <1>6, <1>7, <1>8, <1>9, <1>10

-------------------------------------------------------------------------------
(* The run ends without a verdict, or its roll-back is cut off.            *)
LEMMA RunEnds ==
  ASSUME SetUpInv, NEW outcome \in {"cancelled", "unverified", "killed", "refused"}, Ended(outcome),
         outcome = "refused" => last.outcome = "refused" /\ ~ (run # None /\ Writing),
         UNCHANGED <<keychain, env, logins, servers, good, runs>>
  PROVE  SetUpInv'
<1> USE DEF SetUpInv
<1>1. run' = None /\ last' = [last EXCEPT !.outcome = outcome]
  BY DEF Ended
<1>2. /\ last'.outcome = outcome /\ last'.creds = last.creds /\ last'.stuck = last.stuck
  BY <1>1 DEF SetUpTypeOK
<1>3. SetUpTypeOK'
  BY <1>1 DEF SetUpTypeOK
<1>4. Coordinates' /\ Login' /\ Item'
  BY <1>1 DEF Coordinates, Login, Dropping, Item, Writing
<1>5. Verified' /\ VerifiedIsUsed' /\ Refused'
  BY <1>1, <1>2 DEF Verified, VerifiedIsUsed, Refused
<1> QED BY <1>3, <1>4, <1>5

(* Nothing is typed: the item that is there is verified, or the run ends.  *)
LEMMA StepTypeNothing == ASSUME SetUpInv, TypeNothing PROVE SetUpInv'
<1> USE DEF SetUpInv
<1>1. CASE run.attempt = MaxAttempts
  BY <1>1, RunEnds DEF TypeNothing
<1>2. CASE run.attempt # MaxAttempts
  <2>1. /\ run # None /\ run.at = "prompt" /\ run \in Invocation
        /\ run' = [run EXCEPT !.attempt = run.attempt + 1]
        /\ UNCHANGED <<keychain, env, logins, servers, good, runs, last>>
    BY <1>2 DEF TypeNothing, SetUpTypeOK
  <2>2. run.attempt + 1 \in 1 .. MaxAttempts
    BY <1>2, <2>1, SetUpAssumption DEF Invocation, Steps, Idents
  <2>3. /\ run' \in Invocation /\ run'.at = "prompt"
        /\ run'.email = run.email /\ run'.host = run.host
        /\ run'.port = run.port /\ run'.cliEmail = run.cliEmail
        /\ run'.cliHost = run.cliHost /\ run'.cliPort = run.cliPort
    BY <2>1, <2>2 DEF Invocation, Steps, Idents
  <2>4. SetUpTypeOK'
    BY <2>1, <2>3 DEF SetUpTypeOK
  <2>5. Coordinates'
    BY <2>1, <2>3 DEF Coordinates, Dropping, Given, HostOf, PortOf
  <2>6. Login' /\ Item'
    BY <2>1, <2>3 DEF Login, Dropping, Derived, Item, Writing
  <2>7. Verified' /\ VerifiedIsUsed' /\ Refused'
    BY <2>1, <2>3 DEF Item, Writing, Verified, VerifiedIsUsed, Refused, Writing
  <2> QED BY <2>4, <2>5, <2>6, <2>7
<1> QED BY <1>1, <1>2

(* The server accepts what the run put together, and the stores yield the  *)
(* same.                                                                   *)
LEMMA StepAccepted == ASSUME SetUpInv, ByName, Accepted PROVE SetUpInv'
<1> USE DEF SetUpInv
<1>1. /\ run # None /\ run.at = "verify" /\ run \in Invocation /\ run' = None
      /\ last' = [last EXCEPT !.outcome = "ok", !.creds = Creds0]
      /\ UNCHANGED <<keychain, env, logins, servers, good, runs>>
  BY DEF Accepted, SetUpTypeOK
<1>2. Creds0 \in Creds
  BY <1>1 DEF Creds0, Creds, Invocation
<1>3. /\ last'.outcome = "ok" /\ last'.creds = Creds0
      /\ last'.shadowed = last.shadowed
  BY <1>1 DEF SetUpTypeOK, Item, Writing
<1>4. SetUpTypeOK'
  BY <1>1, <1>2 DEF SetUpTypeOK
<1>5. Coordinates' /\ Login' /\ Item' /\ Verified' /\ Refused'
  BY <1>1, <1>3 DEF Coordinates, Login, Dropping, Item, Verified, Refused
<1>6. ASSUME ~ last.shadowed, env = None
      PROVE  /\ RunTime(Name) = Creds0
             /\ logins[Name] = None /\ servers[Name] = NoServer => RunTime(Uuid) = Creds0
  <2>1. HostOf(Name) = run.host /\ PortOf(Name) = run.port
    BY <1>1, <1>6 DEF Coordinates, Dropping, Given, HostOf, PortOf, Or, Invocation
  <2>2. EmailOf(Name) = run.email /\ run.email \in Emails
    BY <1>1, <1>6, <2>1, SetUpAssumption DEF Login, Dropping, EmailOf, Or, Invocation
  <2>3. run.password # None /\ keychain[<<"new", Name, run.email>>] = run.password
    BY <1>1, SetUpAssumption DEF Item, Writing
  <2>4. Password(Name, run.email) = run.password
    BY <1>6, <2>3 DEF Password, Found, Or
  <2>5. Other(Uuid) = Name
    BY SetUpAssumption DEF Other, Idents
  <2>6. Password(Uuid, run.email) = run.password
    <3>1. keychain[<<"new", Uuid, run.email>>] = None /\ keychain[<<"legacy", Uuid, run.email>>] = None
      BY <2>2 DEF ByName
    <3> QED BY <1>6, <2>3, <2>5, <3>1 DEF Password, Found, Or
  <2>7. ASSUME logins[Name] = None, servers[Name] = NoServer
        PROVE  RunTime(Uuid) = Creds0
    <3>1. HostOf(Uuid) = HostOf(Name) /\ PortOf(Uuid) = PortOf(Name)
      BY <2>7 DEF HostOf, PortOf, ByName
    <3>2. EmailOf(Uuid) = EmailOf(Name)
      BY <2>7, <3>1 DEF EmailOf, ByName
    <3> QED BY <2>1, <2>2, <2>6, <3>1, <3>2 DEF RunTime, Creds0
  <2> QED BY <2>1, <2>2, <2>4, <2>7 DEF RunTime, Creds0
<1>7. VerifiedIsUsed'
  BY <1>1, <1>3, <1>6 DEF VerifiedIsUsed, RunTime, HostOf, PortOf, EmailOf, Derived,
                           Password, Found
<1> QED BY <1>4, <1>5, <1>7

(* The server refuses it, and the item is deleted again.                   *)
LEMMA StepRejected ==
  ASSUME SetUpInv, NEW stuck \in BOOLEAN, Rejected(stuck)
  PROVE  SetUpInv'
<1> USE DEF SetUpInv
<1>1. /\ run # None /\ run.at = "verify" /\ run \in Invocation
      /\ keychain' = IF stuck THEN keychain
                     ELSE [keychain EXCEPT ![Deleted(Name, run.email)] = None]
      /\ last' = [last EXCEPT !.outcome = "refused", !.creds = Creds0, !.stuck = stuck]
      /\ run' = [run EXCEPT !.at = "undoLogin"]
      /\ UNCHANGED <<env, logins, servers, good, runs>>
  BY DEF Rejected, SetUpTypeOK
<1>2. Creds0 \in Creds /\ Creds0.password = run.password /\ Creds0.email = run.email
  BY <1>1 DEF Creds0, Creds, Invocation
<1>3. /\ last'.outcome = "refused" /\ last'.creds = Creds0 /\ last'.stuck = stuck
      /\ last'.shadowed = last.shadowed
  BY <1>1 DEF SetUpTypeOK
<1>4. /\ run' \in Invocation /\ run'.at = "undoLogin"
      /\ run'.email = run.email /\ run'.host = run.host
      /\ run'.port = run.port /\ run'.cliEmail = run.cliEmail
      /\ run'.cliHost = run.cliHost /\ run'.cliPort = run.cliPort
  BY <1>1 DEF Invocation, Steps
<1>5. Name \in Idents /\ run.email \in Emails
  BY <1>1 DEF Invocation, Idents
<1>6. <<"new", Name, run.email>> \in Items /\ <<"legacy", Name, run.email>> \in Items
  BY <1>5 DEF Items
<1>7. Deleted(Name, run.email) = <<"new", Name, run.email>>
  BY <1>1, SetUpAssumption DEF Deleted, Item, Writing
<1>8. SetUpTypeOK'
  <2>1. keychain' \in [Items -> Passwords \cup {None}]
    BY <1>1, <1>7 DEF SetUpTypeOK
  <2>2. last' \in [outcome : {"none", "running", "cancelled", "ok", "unverified", "refused",
                             "uninstall", "killed"},
                   creds : Creds \cup {None}, shadowed : BOOLEAN, stuck : BOOLEAN]
    BY <1>1, <1>2 DEF SetUpTypeOK
  <2> QED BY <1>1, <1>4, <2>1, <2>2 DEF SetUpTypeOK
<1>9. Coordinates'
  BY <1>1, <1>3, <1>4 DEF Coordinates, Dropping, Given, HostOf, PortOf
<1>10. Login'
  BY <1>1, <1>3, <1>4 DEF Login, Dropping, Derived
<1>11. Item' /\ Verified' /\ VerifiedIsUsed'
  BY <1>3, <1>4 DEF Item, Writing, Verified, VerifiedIsUsed
<1>12. Refused'
  <2>1. run.password \in Passwords
    BY <1>1 DEF Item, Writing
  <2>2. ~ stuck => keychain'[<<"new", Name, run.email>>] = None
    BY <1>1, <1>6, <1>7 DEF SetUpTypeOK
  <2> QED BY <1>2, <1>3, <2>1, <2>2 DEF Refused
<1> QED BY <1>8, <1>9, <1>10, <1>11, <1>12

(* The roll-back goes on with the login,                                   *)
LEMMA StepUndoLogin == ASSUME SetUpInv, UndoLogin PROVE SetUpInv'
<1> USE DEF SetUpInv
<1>1. /\ run # None /\ run.at = "undoLogin" /\ run \in Invocation
      /\ logins' = IF run.cliEmail = None THEN logins ELSE [logins EXCEPT ![Name] = None]
      /\ run' = [run EXCEPT !.at = "undoServer"]
      /\ UNCHANGED <<keychain, env, servers, good, last, runs>>
  BY DEF UndoLogin, SetUpTypeOK
<1>2. /\ run' \in Invocation /\ run'.at = "undoServer"
      /\ run'.email = run.email /\ run'.host = run.host
      /\ run'.port = run.port /\ run'.cliEmail = run.cliEmail
      /\ run'.cliHost = run.cliHost /\ run'.cliPort = run.cliPort
  BY <1>1 DEF Invocation, Steps
<1>3. SetUpTypeOK'
  BY <1>1, <1>2 DEF SetUpTypeOK
<1>4. Coordinates'
  BY <1>1, <1>2 DEF Coordinates, Dropping, Given, HostOf, PortOf
<1>5. Login'
  BY <1>1, <1>2 DEF Login, Dropping, Derived
<1>6. Item' /\ Verified' /\ VerifiedIsUsed' /\ Refused'
  BY <1>1, <1>2 DEF Item, Writing, Verified, VerifiedIsUsed, Refused
<1> QED BY <1>3, <1>4, <1>5, <1>6

(* ends with the server, and there may be another attempt.                 *)
LEMMA StepUndoServer == ASSUME SetUpInv, UndoServer PROVE SetUpInv'
<1> USE DEF SetUpInv
<1>1. /\ run # None /\ run.at = "undoServer" /\ run \in Invocation
      /\ servers' = IF run.cliHost = None /\ run.cliPort = None THEN servers
                    ELSE [servers EXCEPT ![Name] = NoServer]
      /\ run' = IF run.attempt = MaxAttempts THEN None
                ELSE [run EXCEPT !.at = "prompt", !.attempt = run.attempt + 1]
      /\ UNCHANGED <<keychain, env, logins, good, last, runs>>
  BY DEF UndoServer, SetUpTypeOK
<1>2. run' # None =>
        /\ run' \in Invocation /\ run'.at = "prompt"
        /\ run'.email = run.email /\ run'.host = run.host
        /\ run'.port = run.port /\ run'.cliEmail = run.cliEmail
        /\ run'.cliHost = run.cliHost /\ run'.cliPort = run.cliPort
  <2>1. run.attempt # MaxAttempts => run.attempt + 1 \in 1 .. MaxAttempts
    BY <1>1, SetUpAssumption DEF Invocation
  <2> QED BY <1>1, <2>1 DEF Invocation, Steps
<1>3. SetUpTypeOK'
  <2>1. NoServer \in Server
    BY DEF NoServer, Server
  <2>2. servers' \in [Idents -> Server]
    BY <1>1, <2>1 DEF SetUpTypeOK
  <2> QED BY <1>1, <1>2, <2>2 DEF SetUpTypeOK
<1>4. Coordinates'
  <2>1. CASE run' = None
    BY <2>1 DEF Coordinates
  <2>2. CASE run' # None
    <3>1. (Given' <=> Given) /\ run'.at # "verify" /\ (~ Given => servers' = servers)
      BY <1>1, <1>2, <2>2 DEF Given
    <3> QED BY <1>1, <1>2, <2>2, <3>1 DEF Coordinates, Dropping, HostOf, PortOf
  <2> QED BY <2>1, <2>2
<1>5. Login'
  BY <1>1, <1>2 DEF Login, Dropping, Derived
<1>6. Item' /\ Verified' /\ VerifiedIsUsed' /\ Refused'
  BY <1>1, <1>2 DEF Item, Writing, Verified, VerifiedIsUsed, Refused
<1> QED BY <1>3, <1>4, <1>5, <1>6

(* What an uninstall leaves in the stores is no run's.                     *)
LEMMA StepUninstall ==
  ASSUME SetUpInv, NEW email \in Emails \cup {None}, Uninstall(email)
  PROVE  SetUpInv'
<1> DEFINE login == Or(email, EmailOf(Name))
           item == Deleted(Name, login)
           command == [at |-> "dropLogin", attempt |-> 1, password |-> None,
                       cliEmail |-> email, cliHost |-> None, cliPort |-> None,
                       email |-> login, host |-> HostOf(Name), port |-> PortOf(Name)]
<1> USE DEF SetUpInv
<1>1. /\ run = None /\ runs < MaxRuns /\ runs' = runs + 1
      /\ last' = [outcome |-> "uninstall", creds |-> None, shadowed |-> FALSE, stuck |-> FALSE]
      /\ \/ UNCHANGED <<keychain, run>>
         \/ keychain' = [keychain EXCEPT ![item] = None] /\ run' = command
      /\ UNCHANGED <<env, logins, servers, good>>
  BY DEF Uninstall
<1>2. servers[Name] \in Server /\ logins[Name] \in Emails \cup {None}
  BY DEF SetUpTypeOK, Idents
<1>3. HostOf(Name) \in Hosts /\ PortOf(Name) \in Ports
  BY <1>2, SetUpAssumption DEF HostOf, PortOf, Or, Server
<1>4. login \in Emails
  BY <1>2, SetUpAssumption DEF EmailOf, Derived, Or
<1>5. command \in Invocation /\ command.at = "dropLogin"
  BY <1>3, <1>4, SetUpAssumption DEF Invocation, Steps
<1> HIDE DEF login, item, command
<1>6. SetUpTypeOK'
  <2>1. keychain' \in [Items -> Passwords \cup {None}]
    BY <1>1 DEF SetUpTypeOK
  <2>2. run' \in Invocation \cup {None}
    BY <1>1, <1>5 DEF SetUpTypeOK
  <2> QED BY <1>1, <2>1, <2>2, SetUpAssumption DEF SetUpTypeOK
<1>7. Coordinates' /\ Login' /\ Item' /\ Verified' /\ VerifiedIsUsed' /\ Refused'
  BY <1>1, <1>5 DEF Coordinates, Login, Dropping, Item, Writing, Verified, VerifiedIsUsed, Refused
<1> QED BY <1>6, <1>7

(* It goes on with the login and the server.                               *)
LEMMA StepDrop == ASSUME SetUpInv, DropLogin \/ DropServer PROVE SetUpInv'
<1> USE DEF SetUpInv
<1>1. /\ run # None /\ Dropping /\ run \in Invocation
      /\ logins' = [logins EXCEPT ![Name] = None] \/ logins' = logins
      /\ servers' = [servers EXCEPT ![Name] = NoServer] \/ servers' = servers
      /\ run' = None \/ run' = [run EXCEPT !.at = "dropServer"]
      /\ UNCHANGED <<keychain, env, good, last, runs>>
  BY DEF DropLogin, DropServer, Dropping, SetUpTypeOK
<1>2. run' # None => run' \in Invocation /\ run'.at = "dropServer"
  BY <1>1 DEF Invocation, Steps
<1>3. SetUpTypeOK'
  <2>1. NoServer \in Server
    BY DEF NoServer, Server
  <2>2. logins' \in [Idents -> Emails \cup {None}]
    BY <1>1 DEF SetUpTypeOK
  <2>3. servers' \in [Idents -> Server]
    BY <1>1, <2>1 DEF SetUpTypeOK
  <2> QED BY <1>1, <1>2, <2>2, <2>3 DEF SetUpTypeOK
<1>4. Coordinates' /\ Login'
  BY <1>2 DEF Coordinates, Login, Dropping
<1>5. Item' /\ Verified' /\ VerifiedIsUsed'
  BY <1>1, <1>2 DEF Item, Writing, Verified, VerifiedIsUsed
<1>6. Refused'
  BY <1>1, <1>2 DEF Refused, Writing, Dropping
<1> QED BY <1>3, <1>4, <1>5, <1>6

(* The terminal is closed.                                                 *)
LEMMA StepKilled == ASSUME SetUpInv, Killed PROVE SetUpInv'
<1>1. /\ run # None /\ UNCHANGED <<keychain, env, logins, servers, good, runs>>
      /\ Ended(IF run.at \in {"undoLogin", "undoServer"} THEN "refused" ELSE "killed")
  BY DEF Killed
<1>2. CASE run.at \in {"undoLogin", "undoServer"}
  BY <1>1, <1>2, RunEnds DEF SetUpInv, Item, Writing
<1>3. CASE run.at \notin {"undoLogin", "undoServer"}
  BY <1>1, <1>3, RunEnds
<1> QED BY <1>2, <1>3

(* The provider changes its mind between two runs.                         *)
LEMMA StepRevoked ==
  ASSUME SetUpInv, NEW password \in Passwords, Revoked(password)
  PROVE  SetUpInv'
<1> USE DEF SetUpInv
<1>1. /\ run = None /\ good' = [good EXCEPT !.password = password]
      /\ UNCHANGED <<keychain, env, logins, servers, run, last, runs>>
  BY DEF Revoked
<1>2. SetUpTypeOK'
  BY <1>1 DEF SetUpTypeOK
<1>3. Coordinates' /\ Login' /\ Item' /\ Verified' /\ Refused'
  BY <1>1 DEF Coordinates, Login, Item, Verified, Refused
<1>4. VerifiedIsUsed'
  BY <1>1 DEF VerifiedIsUsed, RunTime, HostOf, PortOf, EmailOf, Derived, Password, Found
<1> QED BY <1>2, <1>3, <1>4

(* Every step keeps the invariant.                                         *)
LEMMA StepSetUpInv == SetUpInv /\ ByName /\ [SetUpNext]_setUpVars => SetUpInv'
<1> SUFFICES ASSUME SetUpInv, ByName, [SetUpNext]_setUpVars PROVE SetUpInv'
  OBVIOUS
<1>1. CASE \E email \in Emails \cup {None}, host \in Hosts \cup {None}, port \in Ports \cup {None} :
             Start(email, host, port)
  BY <1>1, StepStart
<1>2. CASE TypeNothing
  BY <1>2, StepTypeNothing
<1>3. CASE Cancel \/ Unverified
  BY <1>3, RunEnds DEF Cancel, Unverified
<1>4. CASE SetLogin
  BY <1>4, StepSetLogin
<1>5. CASE SetServer
  BY <1>5, StepSetServer
<1>6. CASE Accepted
  BY <1>6, StepAccepted
<1>7. CASE \E password \in Passwords : TypePassword(password) \/ Revoked(password)
  BY <1>7, StepTypePassword, StepRevoked
<1>8. CASE \E stuck \in BOOLEAN : Rejected(stuck)
  BY <1>8, StepRejected
<1>9. CASE \E email \in Emails \cup {None} : Uninstall(email)
  BY <1>9, StepUninstall
<1>10. CASE UndoLogin \/ UndoServer \/ DropLogin \/ DropServer \/ Killed
  BY <1>10, StepUndoLogin, StepUndoServer, StepDrop, StepKilled
<1>11. CASE UNCHANGED setUpVars
  BY <1>11 DEF setUpVars, SetUpInv, SetUpTypeOK, Coordinates, Given, Login, Writing, Dropping, Item,
     Verified, Refused, VerifiedIsUsed, RunTime, HostOf, PortOf, EmailOf, Derived, Password, Found
<1> QED BY <1>1, <1>2, <1>3, <1>4, <1>5, <1>6, <1>7, <1>8, <1>9, <1>10, <1>11 DEF SetUpNext

-------------------------------------------------------------------------------
(* The command writes under the account's name only.                       *)
LEMMA StepByName == SetUpInv /\ ByName /\ [SetUpNext]_setUpVars => ByName'
<1> SUFFICES ASSUME SetUpInv, ByName, [SetUpNext]_setUpVars PROVE ByName'
  OBVIOUS
<1>1. Uuid # Name /\ Uuid \in Idents
  BY SetUpAssumption DEF Idents
<1>2. logins'[Uuid] = logins[Uuid]
  BY <1>1 DEF SetUpNext, setUpVars, Start, TypeNothing, Cancel, SetLogin, SetServer, Accepted,
     Unverified, UndoLogin, UndoServer, DropLogin, DropServer, Killed, TypePassword, Revoked,
     Rejected, Uninstall, SetUpInv, SetUpTypeOK
<1>3. servers'[Uuid] = servers[Uuid]
  BY <1>1 DEF SetUpNext, setUpVars, Start, TypeNothing, Cancel, SetLogin, SetServer, Accepted,
     Unverified, UndoLogin, UndoServer, DropLogin, DropServer, Killed, TypePassword, Revoked,
     Rejected, Uninstall, SetUpInv, SetUpTypeOK
<1>4. ASSUME NEW prefix \in {"new", "legacy"}, NEW email \in Emails
      PROVE  keychain'[<<prefix, Uuid, email>>] = keychain[<<prefix, Uuid, email>>]
  <2>1. <<prefix, Uuid, email>> \in Items
    BY <1>1 DEF Items
  <2>2. \A e, p : /\ <<prefix, Uuid, email>> # Deleted(Name, e)
                 /\ <<prefix, Uuid, email>> # <<"new", Name, e>>
    BY <1>1 DEF Deleted
  <2>3. \/ keychain' = keychain
        \/ \E e, p : keychain' = [keychain EXCEPT ![<<"new", Name, e>>] = p]
        \/ \E e : keychain' = [keychain EXCEPT ![Deleted(Name, e)] = None]
    BY DEF SetUpNext, setUpVars, Start, TypeNothing, Cancel, SetLogin, SetServer, Accepted,
       Unverified, UndoLogin, UndoServer, DropLogin, DropServer, Killed, TypePassword, Revoked,
       Rejected, Uninstall
  <2> QED BY <2>1, <2>2, <2>3 DEF SetUpInv, SetUpTypeOK
<1> QED BY <1>2, <1>3, <1>4 DEF ByName

(* At first nothing is stored but an old item of the name's.               *)
LEMMA InitByName == SetUpInit => ByName
BY SetUpAssumption DEF SetUpInit, ByName, Idents, Items

(* The invariant holds always.                                             *)
LEMMA AlwaysSetUpInv == SetUpSpec => []SetUpInv
<1>1. SetUpInit => SetUpInv /\ ByName
  BY InitSetUpInv, InitByName
<1>2. SetUpInv /\ ByName /\ [SetUpNext]_setUpVars => (SetUpInv /\ ByName)'
  BY StepSetUpInv, StepByName
<1> QED BY <1>1, <1>2, PTL DEF SetUpSpec

(* What the last run of set-up verified is what requests connect with (its *)
(* host, port, login and password), however many runs, attempts, roll-backs*)
(* and kills there were before, outside the cases the property excepts.    *)
THEOREM WhatWasVerified == SetUpSpec => []VerifiedIsUsed
<1>1. SetUpInv => VerifiedIsUsed
  BY DEF SetUpInv
<1> QED BY <1>1, AlwaysSetUpInv, PTL

(* A password that was refused is not what run time goes on to use.        *)
THEOREM WhatWasRefused == SetUpSpec => []RefusedIsForgotten
<1>1. SetUpInv => RefusedIsForgotten
  BY RefusedSuffices DEF SetUpInv
<1> QED BY <1>1, AlwaysSetUpInv, PTL

-------------------------------------------------------------------------------
(***************************************************************************)
(* The pool's safety for any number of threads, keys and clients.          *)
(*                                                                         *)
(* The cache lock alone does not give CachedLive or NoLeak: a client is    *)
(* logged out under its entry's lock, or (a stale one) under the cache     *)
(* lock.  What carries the proof is who may still put a client in danger:  *)
(* a thread about to log a client out has it out of the cache for good     *)
(* (Popped), a thread in a session can only find its client under its own  *)
(* key (OwnKey), and a thread that connects finds its slot empty (Slot).   *)
(***************************************************************************)

(* The locks are held by the threads at the labels they guard.             *)
EntryLocks ==
  /\ \A t \in Threads : pc[t] \in Locked => lock[held[t]] = t
  /\ \A c \in Conns : lock[c] # Free =>
       pc[lock[c]] \in Locked /\ held[lock[c]] = c

CacheLocks ==
  \A t \in Threads : pc[t] \in Guarded <=> cacheLock = t

(* The locals a label may use are set.                                     *)
Locals ==
  \A t \in Threads :
    /\ pc[t] \in Locked \cup {"dropStale", "wait"} <=> held[t] # NoConn
    /\ pc[t] \in {"lookup", "dropStale", "connect", "wait", "locked", "used",
                  "invalidate", "logout"} => key[t] \in Keys
    /\ todo[t] # {} => pc[t] \in {"drain", "closing"}

OneSlot ==
  \A j, k \in Keys : cache[j] # NoConn /\ cache[j] = cache[k] => j = k

OwnKey ==
  \A t \in Threads, k \in Keys :
    pc[t] \in {"wait", "locked", "used", "invalidate"} /\ cache[k] = held[t]
      => k = key[t]

Popped ==
  \A t \in Threads, k \in Keys :
    /\ pc[t] \in {"dropStale", "logout"} => cache[k] # held[t]
    /\ cache[k] \notin todo[t]
    /\ pc[t] = "closing" => held[t] \in todo[t]

Slot ==
  \A t \in Threads : pc[t] \in Guarded => cache[key[t]] = NoConn

LockInv  == TypeOK /\ EntryLocks /\ CacheLocks /\ Locals

CacheInv == OneSlot /\ OwnKey /\ Popped /\ Slot /\ CachedLive /\ NoLeak

IInv == LockInv /\ CacheInv

USE FreeAssumption, NoConnAssumption, IdleAssumption

(* At first nothing is cached or locked.                                   *)
LEMMA InitIInv == Init => IInv
BY DEF Init, IInv, LockInv, CacheInv, TypeOK, EntryLocks, CacheLocks, Locals,
       OneSlot, OwnKey, Popped, Slot, CachedLive, NoLeak, Labels, Locked, Guarded

(* Every step keeps the types, and the locks with the labels that hold them. *)
LEMMA StepLocks ==
  ASSUME LockInv, [Next]_vars
  PROVE  LockInv'
<1> USE DEF LockInv, TypeOK, Labels, EntryLocks, CacheLocks, Locals, Locked, Guarded
<1>1. ASSUME NEW t \in Threads, LookupFresh(t) PROVE LockInv'
  BY <1>1 DEF LookupFresh, Goto
<1>2. ASSUME NEW t \in Threads, LookupStale(t) PROVE LockInv'
  BY <1>2 DEF LookupStale, Goto
<1>3. ASSUME NEW t \in Threads, LookupMissing(t) PROVE LockInv'
  BY <1>3 DEF LookupMissing, Goto
<1>4. ASSUME NEW t \in Threads, DropStale(t) PROVE LockInv'
  BY <1>4 DEF DropStale, Goto
<1>5. ASSUME NEW t \in Threads, NEW c \in Conns, Connect(t, c) PROVE LockInv'
  BY <1>5 DEF Connect, SinceNow, Goto, Unreferenced
<1>6. ASSUME NEW t \in Threads, ConnectFails(t) PROVE LockInv'
  BY <1>6 DEF ConnectFails, Return, Goto
<1>7. ASSUME NEW t \in Threads, AcquireEntry(t) PROVE LockInv'
  BY <1>7 DEF AcquireEntry, Goto
<1>8. ASSUME NEW t \in Threads, Command(t) PROVE LockInv'
  BY <1>8 DEF Command, Goto
<1>9. ASSUME NEW t \in Threads, FinishOk(t) PROVE LockInv'
  BY <1>9 DEF FinishOk, SinceNow, Return, Goto
<1>10. ASSUME NEW t \in Threads, FinishOther(t) PROVE LockInv'
  BY <1>10 DEF FinishOther, Return, Goto
<1>11. ASSUME NEW t \in Threads, Fails(t) PROVE LockInv'
  BY <1>11 DEF Fails, Goto
<1>12. ASSUME NEW t \in Threads, Invalidate(t) PROVE LockInv'
  BY <1>12 DEF Invalidate, StillCached, Goto
<1>13. ASSUME NEW t \in Threads, Logout(t) PROVE LockInv'
  BY <1>13 DEF Logout, Return, Goto
<1>14. ASSUME NEW t \in Threads, TakeAll(t) PROVE LockInv'
  BY <1>14 DEF TakeAll, Goto
<1>15. ASSUME NEW t \in Threads, NEW c \in Conns, DrainLock(t, c) PROVE LockInv'
  BY <1>15 DEF DrainLock, Goto
<1>16. ASSUME NEW t \in Threads, DrainLogout(t) PROVE LockInv'
  BY <1>16 DEF DrainLogout, Goto
<1>17. ASSUME NEW t \in Threads, EndClose(t) PROVE LockInv'
  BY <1>17 DEF EndClose, Return, Goto
<1>18. ASSUME NEW t \in Threads, BeginClose(t) PROVE LockInv'
  BY <1>18 DEF BeginClose, Goto
<1>19. ASSUME NEW t \in Threads, NEW k \in Keys, Begin(t, k) PROVE LockInv'
  BY <1>19 DEF Begin, Goto
<1>20. ASSUME Tick PROVE LockInv'
  BY <1>20 DEF Tick, local
<1>21. ASSUME UNCHANGED vars PROVE LockInv'
  BY <1>21 DEF vars
<1> QED
  BY <1>1, <1>2, <1>3, <1>4, <1>5, <1>6, <1>7, <1>8, <1>9, <1>10, <1>11,
     <1>12, <1>13, <1>14, <1>15, <1>16, <1>17, <1>18, <1>19, <1>20, <1>21
  DEF Next, Call, Continue

(* Every step keeps the clients in the cache live and the others accounted *)
(* for.                                                                    *)
LEMMA StepCache ==
  ASSUME LockInv, CacheInv, [Next]_vars
  PROVE  CacheInv'
<1> USE DEF LockInv, CacheInv, TypeOK, EntryLocks, CacheLocks, Locals, Locked, Guarded,
            OneSlot, OwnKey, Popped, Slot, CachedLive, NoLeak
<1>1. ASSUME NEW t \in Threads, LookupFresh(t) PROVE CacheInv'
  <2>1. OneSlot'
    BY <1>1 DEF LookupFresh, Goto
  <2>2. OwnKey'
    BY <1>1 DEF LookupFresh, Goto
  <2>3. Popped'
    BY <1>1 DEF LookupFresh, Goto
  <2>4. Slot'
    BY <1>1 DEF LookupFresh, Goto
  <2>5. CachedLive'
    BY <1>1 DEF LookupFresh, Goto
  <2>6. NoLeak'
    BY <1>1 DEF LookupFresh, Goto
  <2> QED BY <2>1, <2>2, <2>3, <2>4, <2>5, <2>6
<1>2. ASSUME NEW t \in Threads, LookupStale(t) PROVE CacheInv'
  <2>1. OneSlot'
    BY <1>2 DEF LookupStale, Goto
  <2>2. OwnKey'
    BY <1>2 DEF LookupStale, Goto
  <2>3. Popped'
    BY <1>2 DEF LookupStale, Goto
  <2>4. Slot'
    BY <1>2 DEF LookupStale, Goto
  <2>5. CachedLive'
    BY <1>2 DEF LookupStale, Goto
  <2>6. NoLeak'
    BY <1>2 DEF LookupStale, Goto
  <2> QED BY <2>1, <2>2, <2>3, <2>4, <2>5, <2>6
<1>3. ASSUME NEW t \in Threads, LookupMissing(t) PROVE CacheInv'
  BY <1>3 DEF LookupMissing, Goto
<1>4. ASSUME NEW t \in Threads, DropStale(t) PROVE CacheInv'
  <2>1. OneSlot'
    BY <1>4 DEF DropStale, Goto
  <2>2. OwnKey'
    BY <1>4 DEF DropStale, Goto
  <2>3. Popped'
    BY <1>4 DEF DropStale, Goto
  <2>4. Slot'
    BY <1>4 DEF DropStale, Goto
  <2>5. CachedLive'
    BY <1>4 DEF DropStale, Goto
  <2>6. NoLeak'
    BY <1>4 DEF DropStale, Goto
  <2> QED BY <2>1, <2>2, <2>3, <2>4, <2>5, <2>6
<1>5. ASSUME NEW t \in Threads, NEW c \in Conns, Connect(t, c) PROVE CacheInv'
  <2>1. OneSlot'
    BY <1>5 DEF Connect, SinceNow, Goto, Unreferenced
  <2>2. OwnKey'
    BY <1>5 DEF Connect, SinceNow, Goto, Unreferenced
  <2>3. Popped'
    BY <1>5 DEF Connect, SinceNow, Goto, Unreferenced
  <2>4. Slot'
    BY <1>5 DEF Connect, SinceNow, Goto, Unreferenced
  <2>5. CachedLive'
    BY <1>5 DEF Connect, SinceNow, Goto, Unreferenced
  <2>6. NoLeak'
    BY <1>5 DEF Connect, SinceNow, Goto, Unreferenced
  <2> QED BY <2>1, <2>2, <2>3, <2>4, <2>5, <2>6
<1>6. ASSUME NEW t \in Threads, ConnectFails(t) PROVE CacheInv'
  BY <1>6 DEF ConnectFails, Return, Goto
<1>7. ASSUME NEW t \in Threads, AcquireEntry(t) PROVE CacheInv'
  BY <1>7 DEF AcquireEntry, Goto
<1>8. ASSUME NEW t \in Threads, Command(t) PROVE CacheInv'
  BY <1>8 DEF Command, Goto
<1>9. ASSUME NEW t \in Threads, FinishOk(t) PROVE CacheInv'
  BY <1>9 DEF FinishOk, SinceNow, Return, Goto
<1>10. ASSUME NEW t \in Threads, FinishOther(t) PROVE CacheInv'
  BY <1>10 DEF FinishOther, Return, Goto
<1>11. ASSUME NEW t \in Threads, Fails(t) PROVE CacheInv'
  BY <1>11 DEF Fails, Goto
<1>12. ASSUME NEW t \in Threads, Invalidate(t) PROVE CacheInv'
  <2>1. OneSlot'
    BY <1>12 DEF Invalidate, StillCached, Goto
  <2>2. OwnKey'
    BY <1>12 DEF Invalidate, StillCached, Goto
  <2>3. Popped'
    BY <1>12 DEF Invalidate, StillCached, Goto
  <2>4. Slot'
    BY <1>12 DEF Invalidate, StillCached, Goto
  <2>5. CachedLive'
    BY <1>12 DEF Invalidate, StillCached, Goto
  <2>6. NoLeak'
    BY <1>12 DEF Invalidate, StillCached, Goto
  <2> QED BY <2>1, <2>2, <2>3, <2>4, <2>5, <2>6
<1>13. ASSUME NEW t \in Threads, Logout(t) PROVE CacheInv'
  <2>1. OneSlot'
    BY <1>13 DEF Logout, Return, Goto
  <2>2. OwnKey'
    BY <1>13 DEF Logout, Return, Goto
  <2>3. Popped'
    BY <1>13 DEF Logout, Return, Goto
  <2>4. Slot'
    BY <1>13 DEF Logout, Return, Goto
  <2>5. CachedLive'
    BY <1>13 DEF Logout, Return, Goto
  <2>6. NoLeak'
    BY <1>13 DEF Logout, Return, Goto
  <2> QED BY <2>1, <2>2, <2>3, <2>4, <2>5, <2>6
<1>14. ASSUME NEW t \in Threads, TakeAll(t) PROVE CacheInv'
  <2>1. OneSlot'
    BY <1>14 DEF TakeAll, Goto
  <2>2. OwnKey'
    BY <1>14 DEF TakeAll, Goto
  <2>3. Popped'
    BY <1>14 DEF TakeAll, Goto
  <2>4. Slot'
    BY <1>14 DEF TakeAll, Goto
  <2>5. CachedLive'
    BY <1>14 DEF TakeAll, Goto
  <2>6. NoLeak'
    BY <1>14 DEF TakeAll, Goto
  <2> QED BY <2>1, <2>2, <2>3, <2>4, <2>5, <2>6
<1>15. ASSUME NEW t \in Threads, NEW c \in Conns, DrainLock(t, c) PROVE CacheInv'
  <2>1. OneSlot'
    BY <1>15 DEF DrainLock, Goto
  <2>2. OwnKey'
    BY <1>15 DEF DrainLock, Goto
  <2>3. Popped'
    BY <1>15 DEF DrainLock, Goto
  <2>4. Slot'
    BY <1>15 DEF DrainLock, Goto
  <2>5. CachedLive'
    BY <1>15 DEF DrainLock, Goto
  <2>6. NoLeak'
    BY <1>15 DEF DrainLock, Goto
  <2> QED BY <2>1, <2>2, <2>3, <2>4, <2>5, <2>6
<1>16. ASSUME NEW t \in Threads, DrainLogout(t) PROVE CacheInv'
  <2>1. OneSlot'
    BY <1>16 DEF DrainLogout, Goto
  <2>2. OwnKey'
    BY <1>16 DEF DrainLogout, Goto
  <2>3. Popped'
    BY <1>16 DEF DrainLogout, Goto
  <2>4. Slot'
    BY <1>16 DEF DrainLogout, Goto
  <2>5. CachedLive'
    BY <1>16 DEF DrainLogout, Goto
  <2>6. NoLeak'
    BY <1>16 DEF DrainLogout, Goto
  <2> QED BY <2>1, <2>2, <2>3, <2>4, <2>5, <2>6
<1>17. ASSUME NEW t \in Threads, EndClose(t) PROVE CacheInv'
  BY <1>17 DEF EndClose, Return, Goto
<1>18. ASSUME NEW t \in Threads, BeginClose(t) PROVE CacheInv'
  BY <1>18 DEF BeginClose, Goto
<1>19. ASSUME NEW t \in Threads, NEW k \in Keys, Begin(t, k) PROVE CacheInv'
  BY <1>19 DEF Begin, Goto
<1>20. ASSUME Tick PROVE CacheInv'
  BY <1>20 DEF Tick, local
<1>21. ASSUME UNCHANGED vars PROVE CacheInv'
  BY <1>21 DEF vars
<1> QED
  BY <1>1, <1>2, <1>3, <1>4, <1>5, <1>6, <1>7, <1>8, <1>9, <1>10, <1>11,
     <1>12, <1>13, <1>14, <1>15, <1>16, <1>17, <1>18, <1>19, <1>20, <1>21
  DEF Next, Call, Continue

(* The invariant holds throughout.                                         *)
LEMMA InvariantIInv == Spec => []IInv
<1>1. IInv /\ [Next]_vars => IInv'
  BY StepLocks, StepCache DEF IInv
<1> QED BY InitIInv, <1>1, PTL DEF Spec

(* The state of the pool stays well typed.                                 *)
THEOREM TypeCorrect == Spec => []TypeOK
<1>1. IInv => TypeOK
  BY DEF IInv, LockInv, CacheInv
<1> QED BY InvariantIInv, <1>1, PTL

(* However many threads race to look up, drop and close, the cache holds   *)
(* only logged-in clients (session() of imap_connector.py).                *)
THEOREM CacheSafe == Spec => []CachedLive
<1>1. IInv => CachedLive
  BY DEF IInv, LockInv, CacheInv
<1> QED BY InvariantIInv, <1>1, PTL

(* No interleaving of invalidation, idle reconnect and close() forgets a   *)
(* logged-in client.                                                       *)
THEOREM NothingLeaks == Spec => []NoLeak
<1>1. IInv => NoLeak
  BY DEF IInv, LockInv, CacheInv
<1> QED BY InvariantIInv, <1>1, PTL

(* Two threads are never inside the block of one client.                   *)
THEOREM MutualExclusion == Spec => []ExclusiveUse
<1>1. IInv => ExclusiveUse
  BY DEF IInv, LockInv, CacheInv, ExclusiveUse, EntryLocks, OneSlot
<1> QED BY InvariantIInv, <1>1, PTL
===============================================================================
