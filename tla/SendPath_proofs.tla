---------------------------- MODULE SendPath_proofs ----------------------------
(***************************************************************************)
(* NoSecondCopy, OneSentCopy and ReportIsTrue, for any sends, recipients   *)
(* and breaker time, and SendPath as an implementation of SendOnce.  The   *)
(* inductive invariant counts, for each message, the copies SMTP and Mail  *)
(* can have delivered by the label the send is at.                         *)
(***************************************************************************)
EXTENDS SendPath, TLAPS

(* What each of the two ways has delivered.                                *)
BySmtp(s) == IF heard[s] # "nothing" \/ pc[s] = "reply" THEN 1 ELSE 0
ByMail(s) == IF mail[s] = "sent" THEN 1 ELSE 0

Delivered ==
  \A s \in Sends :
    /\ \A r \in Recipients : got[s][r] <= BySmtp(s) + ByMail(s)
    /\ filed[s] <= BySmtp(s) + ByMail(s)
    /\ pc[s] \in {"reply", "quit", "copy"} /\ ~ autoFiles => filed[s] = 0

(* What SMTP has learnt, and what Mail is doing, at each label.            *)
Phases ==
  \A s \in Sends :
    /\ pc[s] \in {"ready", "config", "build", "guard", "login", "submit", "reply"}
         => heard[s] = "nothing"
    /\ pc[s] \in {"quit", "copy"} => heard[s] = "accepted"
    /\ heard[s] = "accepted" => mail[s] = "idle" /\ pc[s] \in {"quit", "copy", "ok"}
    /\ mail[s] # "idle" => pc[s] \in {"running", "ok", "failed"}
    /\ pc[s] = "running" => mail[s] # "idle"
    /\ pc[s] = "ok" => heard[s] = "accepted" \/ mail[s] = "sent"

(* A message that some way has taken has left.                             *)
Left ==
  \A s \in Sends :
    /\ pc[s] \in {"reply", "quit", "copy", "ok"} => \E r \in Recipients : got[s][r] > 0
    /\ mail[s] = "sent" => \A r \in Recipients : got[s][r] > 0

IInv == TypeOK /\ Delivered /\ Phases /\ Left

USE SendAssumption

(* At first nothing has been sent.                                         *)
LEMMA InitIInv == Init => IInv
BY DEF Init, IInv, TypeOK, Delivered, Phases, Left, BySmtp, ByMail, Labels

(* A step that moves one send from a label to another and delivers nothing,*)
(* between labels that promise the same.                                   *)
LEMMA StepIInv == IInv /\ [Next]_vars => IInv'
<1> SUFFICES ASSUME IInv, [Next]_vars
             PROVE  IInv'
  OBVIOUS
<1> USE DEF IInv, TypeOK, Delivered, Phases, Left, BySmtp, ByMail, Labels,
        Goto, FallBack, Deadline, world, modes
<1>1. ASSUME NEW s \in Sends, Start(s) PROVE IInv'
  <2>1. TypeOK'
    BY <1>1 DEF Start
  <2>2. Delivered'
    BY <1>1 DEF Start
  <2>3. Phases'
    BY <1>1 DEF Start
  <2>4. Left'
    BY <1>1 DEF Start
  <2> QED BY <2>1, <2>2, <2>3, <2>4
<1>2. ASSUME NEW s \in Sends, Configure(s) PROVE IInv'
  BY <1>2 DEF Configure
<1>3. ASSUME NEW s \in Sends, Build(s) PROVE IInv'
  <2>1. TypeOK'
    BY <1>3 DEF Build
  <2>2. Delivered'
    BY <1>3 DEF Build
  <2>3. Phases'
    BY <1>3 DEF Build
  <2>4. Left'
    BY <1>3 DEF Build
  <2> QED BY <2>1, <2>2, <2>3, <2>4
<1>4. ASSUME NEW s \in Sends, FetchFails(s) PROVE IInv'
  <2>1. TypeOK'
    BY <1>4 DEF FetchFails
  <2>2. Delivered'
    BY <1>4 DEF FetchFails
  <2>3. Phases'
    BY <1>4 DEF FetchFails
  <2>4. Left'
    BY <1>4 DEF FetchFails
  <2> QED BY <2>1, <2>2, <2>3, <2>4
<1>5. ASSUME NEW s \in Sends, Guard(s) PROVE IInv'
  BY <1>5 DEF Guard
<1>6. ASSUME NEW s \in Sends, Login(s) PROVE IInv'
  BY <1>6 DEF Login
<1>7. ASSUME NEW s \in Sends, LoginFails(s) PROVE IInv'
  BY <1>7 DEF LoginFails
<1>8. ASSUME NEW s \in Sends, Rejected(s) PROVE IInv'
  BY <1>8 DEF Rejected
<1>9. ASSUME NEW s \in Sends, NEW R \in (SUBSET Recipients) \ {{}}, Taken(s, R) PROVE IInv'
  <2>1. \A r \in Recipients : got[s][r] = 0
    BY <1>9 DEF Taken
  <2>2. filed[s] = 0
    BY <1>9 DEF Taken
  <2>3. got' \in [Sends -> [Recipients -> 0 .. 2]]
    BY <1>9, <2>1 DEF Taken, Deliver
  <2>4. /\ \A r \in Recipients : got'[s][r] = IF r \in R THEN 1 ELSE 0
        /\ \A t \in Sends \ {s} : got'[t] = got[t]
    BY <1>9, <2>1 DEF Taken, Deliver
  <2>5. /\ filed' \in [Sends -> 0 .. 2] /\ filed'[s] = IF autoFiles THEN 1 ELSE 0
        /\ \A t \in Sends \ {s} : filed'[t] = filed[t]
    BY <1>9, <2>2 DEF Taken
  <2>6. /\ pc[s] = "submit" /\ pc' = [pc EXCEPT ![s] = "reply"]
        /\ UNCHANGED <<testMode, autoFiles, heard, mail, cooling, lock>>
    BY <1>9 DEF Taken
  <2>7. TypeOK'
    BY <2>3, <2>5, <2>6
  <2>8. Delivered'
    BY <2>4, <2>5, <2>6
  <2>9. Phases'
    BY <2>6
  <2>10. Left'
    <3>1. PICK r \in Recipients : r \in R
      OBVIOUS
    <3>2. got'[s][r] > 0
      BY <2>4, <3>1
    <3>3. \A t \in Sends \ {s} : got'[t] = got[t] /\ mail'[t] = mail[t] /\ pc'[t] = pc[t]
      BY <2>4, <2>6
    <3>4. mail'[s] = mail[s] /\ mail[s] = "idle"
      BY <2>6
    <3> QED BY <3>1, <3>2, <3>3, <3>4
  <2> QED BY <2>7, <2>8, <2>9, <2>10
<1>10. ASSUME NEW s \in Sends, Accepted(s) PROVE IInv'
  BY <1>10 DEF Accepted
<1>11. ASSUME NEW s \in Sends, ReplyLost(s) PROVE IInv'
  BY <1>11 DEF ReplyLost
<1>12. ASSUME NEW s \in Sends, Quit(s) PROVE IInv'
  BY <1>12 DEF Quit
<1>13. ASSUME NEW s \in Sends, SaveCopy(s) PROVE IInv'
  BY <1>13 DEF SaveCopy, FilesSent
<1>14. ASSUME NEW s \in Sends, CopyFails(s) PROVE IInv'
  BY <1>14 DEF CopyFails
<1>15. ASSUME NEW s \in Sends, ScriptRefused(s) PROVE IInv'
  BY <1>15 DEF ScriptRefused
<1>16. ASSUME NEW s \in Sends, RunScript(s) PROVE IInv'
  BY <1>16 DEF RunScript
<1>17. ASSUME NEW s \in Sends, MailBusy(s) PROVE IInv'
  BY <1>17 DEF MailBusy
<1>18. ASSUME NEW s \in Sends, ScriptReturns(s) PROVE IInv'
  BY <1>18 DEF ScriptReturns
<1>19. ASSUME NEW s \in Sends, ScriptTimesOut(s) PROVE IInv'
  BY <1>19 DEF ScriptTimesOut
<1>20. ASSUME NEW s \in Sends, MailSends(s) PROVE IInv'
  <2>1. \A r \in Recipients : got[s][r] <= 1
    BY <1>20 DEF MailSends
  <2>2. filed[s] <= 1
    BY <1>20 DEF MailSends
  <2>3. got' \in [Sends -> [Recipients -> 0 .. 2]]
    BY <1>20, <2>1 DEF MailSends, Deliver
  <2>4. /\ \A r \in Recipients : got'[s][r] = got[s][r] + 1
        /\ \A t \in Sends \ {s} : got'[t] = got[t]
    BY <1>20 DEF MailSends, Deliver
  <2>5. /\ filed' \in [Sends -> 0 .. 2] /\ filed'[s] = filed[s] + 1
        /\ \A t \in Sends \ {s} : filed'[t] = filed[t]
    BY <1>20, <2>2 DEF MailSends
  <2>6. /\ mail[s] = "busy" /\ mail' = [mail EXCEPT ![s] = "sent"]
        /\ UNCHANGED <<testMode, autoFiles, pc, heard, cooling, lock>>
    BY <1>20 DEF MailSends
  <2>7. TypeOK'
    BY <2>3, <2>5, <2>6
  <2>8. Delivered'
    BY <2>4, <2>5, <2>6
  <2>9. Phases'
    BY <2>6
  <2>10. Left'
    <3>1. \A r \in Recipients : got'[s][r] > 0
      BY <2>4
    <3>2. pc[s] \in {"running", "ok", "failed"} /\ Recipients # {}
      BY <2>6
    <3>3. \A t \in Sends \ {s} : got'[t] = got[t] /\ mail'[t] = mail[t] /\ pc'[t] = pc[t]
      BY <2>4, <2>6
    <3> QED BY <3>1, <3>2, <3>3
  <2> QED BY <2>7, <2>8, <2>9, <2>10
<1>21. ASSUME NEW s \in Sends, MailRefuses(s) PROVE IInv'
  BY <1>21 DEF MailRefuses
<1>22. CASE Tick
  BY <1>22 DEF Tick
<1>23. CASE UNCHANGED vars
  BY <1>23 DEF vars
<1> HIDE DEF IInv
<1> QED
  BY <1>1, <1>2, <1>3, <1>4, <1>5, <1>6, <1>7, <1>8, <1>9, <1>10, <1>11, <1>12,
     <1>13, <1>14, <1>15, <1>16, <1>17, <1>18, <1>19, <1>20, <1>21, <1>22, <1>23
  DEF Next, Step, Submit

(* The invariant holds throughout.                                         *)
LEMMA Invariance == Spec => []IInv
<1>1. IInv /\ [Next]_vars => IInv'
  BY StepIInv
<1> QED
  BY InitIInv, <1>1, PTL DEF Spec

(* Every variable keeps its type; no recipient ever gets a third copy.     *)
THEOREM TypeCorrect == Spec => []TypeOK
<1>1. IInv => TypeOK
  BY DEF IInv
<1> QED BY Invariance, <1>1, PTL

(* A message whose SMTP reply was not lost is delivered once: no failure   *)
(* after acceptance reaches the AppleScript fallback of _try_smtp_send.    *)
THEOREM NeverTwice == Spec => []NoSecondCopy
<1>1. IInv => NoSecondCopy
  <2> SUFFICES ASSUME IInv, NEW s \in Sends, heard[s] # "lost", NEW r \in Recipients
               PROVE  got[s][r] <= 1
    BY DEF NoSecondCopy
  <2>1. BySmtp(s) + ByMail(s) <= 1
    BY DEF IInv, TypeOK, Phases, BySmtp, ByMail
  <2>2. got[s][r] <= BySmtp(s) + ByMail(s) /\ got[s][r] \in Nat
    BY DEF IInv, TypeOK, Delivered
  <2> QED BY <2>1, <2>2 DEF BySmtp, ByMail
<1> QED BY Invariance, <1>1, PTL

(* Sent holds at most one copy of such a message (_save_sent_copy).        *)
THEOREM FiledOnce == Spec => []OneSentCopy
<1>1. IInv => OneSentCopy
  <2> SUFFICES ASSUME IInv, NEW s \in Sends, heard[s] # "lost"
               PROVE  filed[s] <= 1
    BY DEF OneSentCopy
  <2>1. BySmtp(s) + ByMail(s) <= 1
    BY DEF IInv, TypeOK, Phases, BySmtp, ByMail
  <2>2. filed[s] <= BySmtp(s) + ByMail(s) /\ filed[s] \in Nat
    BY DEF IInv, TypeOK, Delivered
  <2> QED BY <2>1, <2>2 DEF BySmtp, ByMail
<1> QED BY Invariance, <1>1, PTL

(* A reported success has left, and an accepted message is no failure.     *)
THEOREM Truthful == Spec => []ReportIsTrue
<1>1. IInv => ReportIsTrue
  BY DEF IInv, Phases, Left, ReportIsTrue
<1> QED BY Invariance, <1>1, PTL

-------------------------------------------------------------------------------
(* The refinement.                                                         *)
LEMMA InitOnce == Init => Once!Init
BY DEF Init, Once!Init, Once!Unsent, Said, Doubt

(* What delivers or reports in SendPath is one step of SendOnce, and the   *)
(* rest leaves copies and reports alone.                                   *)
LEMMA StepOnce == IInv /\ [Next]_vars => [Once!Next]_(Once!vars)
<1> SUFFICES ASSUME IInv, [Next]_vars
             PROVE  [Once!Next]_(Once!vars)
  OBVIOUS
<1> DEFINE SameDoubt(s) == /\ heard'[s] = "lost" <=> heard[s] = "lost"
                           /\ heard[s] = "lost" => (mail'[s] = "sent" <=> mail[s] = "sent")
<1>0. ASSUME \A s \in Sends : SameDoubt(s)
      PROVE  UNCHANGED Doubt
  BY <1>0 DEF Doubt
<1>1. ASSUME UNCHANGED got, \A s \in Sends : SameDoubt(s),
             \A s \in Sends : pc'[s] \in {"ok", "failed"} <=> pc[s] \in {"ok", "failed"},
             \A s \in Sends : pc[s] \in {"ok", "failed"} => pc'[s] = pc[s]
      PROVE  [Once!Next]_(Once!vars)
  BY <1>0, <1>1 DEF Once!vars, Said
<1>2. ASSUME NEW s \in Sends, NEW answer \in {"ok", "failed"}, UNCHANGED <<got, heard, mail>>,
             pc[s] \notin {"ok", "failed"}, pc' = [pc EXCEPT ![s] = answer],
             answer = "ok" => \E r \in Recipients : got[s][r] > 0
      PROVE  [Once!Next]_(Once!vars)
  <2>1. Said' = [Said EXCEPT ![s] = answer] /\ Said[s] = "nothing"
    BY <1>2 DEF Said, IInv, TypeOK
  <2>2. answer = "ok" => got[s] # Once!Unsent
    BY <1>2 DEF Once!Unsent
  <2>3. Once!Report(s, answer)
    BY <1>0, <1>2, <2>1, <2>2 DEF Once!Report
  <2> QED BY <2>3 DEF Once!Next
<1>3. ASSUME NEW s \in Sends, NEW R \in (SUBSET Recipients) \ {{}}, Deliver(s, R),
             \A r \in Recipients : got[s][r] = 0, Said[s] # "ok", UNCHANGED Said,
             \A t \in Sends : SameDoubt(t)
      PROVE  [Once!Next]_(Once!vars)
  <2>1. got[s] = Once!Unsent
    BY <1>3 DEF Once!Unsent, IInv, TypeOK
  <2>2. Once!Leave(s, R)
    BY <1>0, <1>3, <2>1 DEF Once!Leave, Once!More, Deliver
  <2> QED BY <2>2 DEF Once!Next
<1> DEFINE Goal == [Once!Next]_(Once!vars)
<1> USE DEF IInv, TypeOK, Goto, FallBack, world, modes
<1>4. ASSUME NEW s \in Sends, Start(s) PROVE Goal
  BY <1>1, <1>4 DEF Start
<1>5. ASSUME NEW s \in Sends, Configure(s) PROVE Goal
  BY <1>1, <1>2, <1>5 DEF Configure
<1>6. ASSUME NEW s \in Sends, Build(s) PROVE Goal
  BY <1>1, <1>6 DEF Build
<1>7. ASSUME NEW s \in Sends, FetchFails(s) PROVE Goal
  BY <1>1, <1>2, <1>7 DEF FetchFails
<1>8. ASSUME NEW s \in Sends, Guard(s) PROVE Goal
  BY <1>1, <1>2, <1>8 DEF Guard
<1>9. ASSUME NEW s \in Sends, Login(s) PROVE Goal
  BY <1>1, <1>9 DEF Login
<1>10. ASSUME NEW s \in Sends, LoginFails(s) PROVE Goal
  BY <1>1, <1>10 DEF LoginFails
<1>11. ASSUME NEW s \in Sends, Rejected(s) PROVE Goal
  BY <1>1, <1>11 DEF Rejected
<1>12. ASSUME NEW s \in Sends, NEW R \in (SUBSET Recipients) \ {{}}, Taken(s, R)
       PROVE  Goal
  <2>1. \A r \in Recipients : got[s][r] = 0
    BY <1>12 DEF Taken, Delivered, Phases, BySmtp, ByMail
  <2>2. UNCHANGED Said /\ Said[s] # "ok" /\ Deliver(s, R)
    BY <1>12 DEF Taken, Said
  <2>3. UNCHANGED <<heard, mail>>
    BY <1>12 DEF Taken
  <2> QED BY <1>3, <2>1, <2>2, <2>3
<1>13. ASSUME NEW s \in Sends, Accepted(s) PROVE Goal
  BY <1>1, <1>13 DEF Accepted, Phases
<1>14. ASSUME NEW s \in Sends, ReplyLost(s) PROVE Goal
    <2>1. UNCHANGED <<got, Said>> /\ Said[s] = "nothing"
    BY <1>14 DEF ReplyLost, Said
  <2>2. Doubt' = [Doubt EXCEPT ![s] = "lost"] /\ Doubt[s] = "none"
    BY <1>14 DEF ReplyLost, Doubt, Phases
  <2>3. got[s] # Once!Unsent
    BY <1>14 DEF ReplyLost, Left, Once!Unsent
  <2>4. Once!LoseReply(s)
    BY <2>1, <2>2, <2>3 DEF Once!LoseReply
  <2> QED BY <2>4 DEF Once!Next
<1>15. ASSUME NEW s \in Sends, Quit(s) PROVE Goal
  BY <1>1, <1>15 DEF Quit
<1>16. ASSUME NEW s \in Sends, SaveCopy(s) PROVE Goal
  <2>1. UNCHANGED <<got, heard, mail>> /\ pc[s] = "copy" /\ pc' = [pc EXCEPT ![s] = "ok"]
    BY <1>16 DEF SaveCopy
  <2>2. \E r \in Recipients : got[s][r] > 0
    BY <2>1 DEF Left
  <2> QED BY <1>2, <2>1, <2>2
<1>17. ASSUME NEW s \in Sends, CopyFails(s) PROVE Goal
  <2>1. UNCHANGED <<got, heard, mail>> /\ pc[s] = "copy" /\ pc' = [pc EXCEPT ![s] = "ok"]
    BY <1>17 DEF CopyFails
  <2>2. \E r \in Recipients : got[s][r] > 0
    BY <2>1 DEF Left
  <2> QED BY <1>2, <2>1, <2>2
<1>18. ASSUME NEW s \in Sends, ScriptRefused(s) PROVE Goal
  BY <1>2, <1>18 DEF ScriptRefused
<1>19. ASSUME NEW s \in Sends, RunScript(s) PROVE Goal
  BY <1>1, <1>19 DEF RunScript, Phases
<1>20. ASSUME NEW s \in Sends, MailBusy(s) PROVE Goal
  BY <1>2, <1>20 DEF MailBusy
<1>21. ASSUME NEW s \in Sends, MailSends(s) PROVE Goal
  <2>1. heard[s] # "accepted" /\ pc[s] \in {"running", "failed"}
    BY <1>21 DEF MailSends, Phases
  <2>2. UNCHANGED Said /\ Said[s] # "ok" /\ Deliver(s, Recipients)
    BY <1>21, <2>1 DEF MailSends, Said
  <2>3. CASE heard[s] = "nothing"
    <3>1. BySmtp(s) + ByMail(s) = 0
      BY <1>21, <2>1, <2>3 DEF MailSends, BySmtp, ByMail
    <3>2. \A r \in Recipients : got[s][r] = 0
      BY <3>1 DEF Delivered
    <3>3. \A t \in Sends : SameDoubt(t)
      BY <1>21, <2>3 DEF MailSends, Doubt
    <3> QED BY <1>3, <2>2, <3>2, <3>3
  <2>4. CASE heard[s] = "lost"
    <3>1. Doubt[s] = "lost" /\ Doubt' = [Doubt EXCEPT ![s] = "resent"]
      BY <1>21, <2>4 DEF MailSends, Doubt
    <3>2. Once!LeaveAgain(s, Recipients)
      BY <2>2, <3>1 DEF Once!LeaveAgain, Once!More, Deliver
    <3> QED BY <3>2 DEF Once!Next
  <2> QED BY <2>1, <2>3, <2>4
<1>22. ASSUME NEW s \in Sends, MailRefuses(s) PROVE Goal
  BY <1>1, <1>22 DEF MailRefuses
<1>23. ASSUME NEW s \in Sends, ScriptReturns(s) PROVE Goal
  <2>1. mail[s] = "sent" => \E r \in Recipients : got[s][r] > 0
    BY DEF Left
  <2>2. PICK answer \in {"ok", "failed"} :
          pc' = [pc EXCEPT ![s] = answer] /\ (answer = "ok" => mail[s] = "sent")
    BY <1>23 DEF ScriptReturns
  <2> QED BY <1>2, <1>23, <2>1, <2>2 DEF ScriptReturns
<1>24. ASSUME NEW s \in Sends, ScriptTimesOut(s) PROVE Goal
  BY <1>2, <1>24 DEF ScriptTimesOut
<1>25. ASSUME Tick PROVE Goal
  BY <1>1, <1>25 DEF Tick
<1>26. ASSUME UNCHANGED vars PROVE Goal
  BY <1>1, <1>26 DEF vars
<1> HIDE DEF Goal, IInv, TypeOK, Goto, FallBack, world, modes
<1>27. ASSUME NEW s \in Sends, Step(s) PROVE Goal
  BY <1>4, <1>5, <1>6, <1>7, <1>8, <1>9, <1>10, <1>11, <1>12, <1>13, <1>14, <1>15,
     <1>16, <1>17, <1>18, <1>19, <1>20, <1>23, <1>24, <1>27, Zenon
     DEF Step, Submit
<1>28. Goal
  BY <1>21, <1>22, <1>25, <1>26, <1>27 DEF Next
<1> QED BY <1>28 DEF Goal

(* SMTP, its fallback and Mail together send once, or twice if the reply   *)
(* to the first was lost.                                                  *)
THEOREM Implements == Spec => ImplementsSendOnce
<1>1. Init => Once!Init
  BY InitOnce
<1>2. IInv /\ [Next]_vars => [Once!Next]_(Once!vars)
  BY StepOnce
<1> QED
  BY Invariance, <1>1, <1>2, PTL DEF Spec, ImplementsSendOnce, Once!Spec
===============================================================================
