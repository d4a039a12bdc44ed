------------------------- MODULE DraftLifecycle_proofs -------------------------
(***************************************************************************)
(* OneDraft, for any calls and any number of drafts.  A document is like a *)
(* token: a live draft, a message that has left, or a call that holds it   *)
(* between the delete of its old draft and the making of its new one.      *)
(* Delete moves it from a draft to a call, Make and Send from a call on.   *)
(* That it is lost only in the open (Conserved) needs the same.            *)
(*                                                                         *)
(* What a draft replies to or forwards, and the records of drafts, need    *)
(* more: every draft has a place in a chain of versions (Lineage), of which*)
(* at most one has been answered to the user and not been replaced, and    *)
(* its record goes with it.                                                *)
(***************************************************************************)
EXTENDS DraftLifecycle, TLAPS

(* A create_draft holds its document before it has made it, an update      *)
(* after it has deleted it.                                                *)
Holds(c, d) ==
  \/ c \in Creates /\ c = d /\ pc[c] \in {"ready", "make"}
  \/ c \in Updates /\ pc[c] \in {"forget", "make"} /\ Doc(c) = d

(* Drafts that were made have a document; what calls name was made.        *)
Made ==
  /\ \A i \in Ids : at[i] # "unmade" => doc[i] \in Creates
  /\ \A c \in Calls : told[c] # 0 => at[told[c]] # "unmade"
  /\ \A c \in Calls : target[c] # 0 => at[target[c]] # "unmade"
  /\ \A c \in Updates \cup Deletes : pc[c] \notin Ended \cup {"ready"} => target[c] # 0
  /\ \A c \in Creates : pc[c] \in {"ready", "make", "appended", "script", "poll", "persist"} \cup Ended
  /\ \A c \in Deletes : pc[c] \in {"ready", "delete", "forget"} \cup Ended
  /\ \A c \in Calls : pc[c] = "script" => Doc(c) \in unheard

One(d) ==
  /\ \A i, j \in Ids : Live(i) /\ Live(j) /\ doc[i] = d /\ doc[j] = d => i = j
  /\ \A i \in Ids : Live(i) /\ doc[i] = d => sent[d] = 0
  /\ sent[d] <= 1
  /\ \A c \in Calls : Holds(c, d) => sent[d] = 0
  /\ \A c \in Calls, i \in Ids : Holds(c, d) /\ Live(i) => doc[i] # d
  /\ \A b, c \in Calls : Holds(b, d) /\ Holds(c, d) => b = c

Tokens == \A d \in Creates \ unheard : One(d)

IInv == TypeOK /\ Made /\ Tokens

USE DraftAssumption

(* At first every create holds its document, and nothing is made.          *)
LEMMA InitIInv == Init => IInv
BY DEF Init, IInv, TypeOK, Made, Tokens, One, Holds, Doc, Live, Ids, Calls, Kinds, Labels, Ended, Free

(* A step that makes and sends nothing and lets no call take a document.   *)
LEMMA Quiet ==
  /\ Tokens
  /\ UNCHANGED <<doc, sent>> /\ unheard \subseteq unheard'
  /\ \A i \in Ids : Live(i)' => Live(i)
  /\ \A c \in Calls, d \in Creates : Holds(c, d)' => Holds(c, d)
  => Tokens'
<1> SUFFICES ASSUME Tokens, UNCHANGED <<doc, sent>>, unheard \subseteq unheard',
                    \A i \in Ids : Live(i)' => Live(i),
                    \A c \in Calls, d \in Creates : Holds(c, d)' => Holds(c, d),
                    NEW d \in Creates \ unheard'
             PROVE  One(d)'
  BY DEF Tokens
<1>1. One(d)
  BY DEF Tokens
<1> QED
  BY <1>1 DEF One

(* The new draft is the only version there is of its document, and the     *)
(* call lets the document go.                                              *)
LEMMA MakeStep ==
  ASSUME IInv, NEW c \in Calls, pc[c] \in {"make", "script"}, Make(c),
         NEW label \in {"appended", "poll"}, Goto(c, label),
         UNCHANGED <<sent, unheard, target>>
  PROVE  /\ at' \in [Ids -> {"unmade", "hidden", "shown", "gone"}]
         /\ doc' \in [Ids -> Creates \cup {Free}]
         /\ told' \in [Calls -> Ids \cup {0}]
         /\ Made' /\ Tokens'
<1> USE DEF IInv, TypeOK, Calls, Kinds
<1>0. PICK i \in Ids :
        /\ \A j \in Ids : at[j] = "unmade" <=> j >= i
        /\ at' = [at EXCEPT ![i] = "hidden"]
        /\ doc' = [doc EXCEPT ![i] = Doc(c)]
        /\ told' = [told EXCEPT ![c] = i]
  BY Zenon DEF Make
<1>1. /\ at[i] = "unmade"
      /\ at' = [at EXCEPT ![i] = "hidden"]
      /\ doc' = [doc EXCEPT ![i] = Doc(c)]
      /\ told' = [told EXCEPT ![c] = i]
  BY <1>0 DEF Ids
<1>2. Doc(c) \in Creates
  BY DEF Doc, Made, Ended
<1>3. /\ at' \in [Ids -> {"unmade", "hidden", "shown", "gone"}]
      /\ doc' \in [Ids -> Creates \cup {Free}]
      /\ told' \in [Calls -> Ids \cup {0}]
  BY <1>1, <1>2
<1>4. \A b \in Calls : (b \in Creates \/ target[b] # 0) => Doc(b)' = Doc(b)
  BY <1>1 DEF Doc, Made
<1>5. Made'
  BY <1>1, <1>2, <1>4 DEF Made, Goto, Ended
<1>6. \A b \in Calls, d \in Creates : Holds(b, d)' => Holds(b, d) /\ b # c
  BY <1>4 DEF Holds, Made, Goto, Ended
<1>7. \A j \in Ids : Live(j)' => j = i \/ (Live(j) /\ doc'[j] = doc[j])
  BY <1>1 DEF Live
<1>8. Tokens'
  <2> SUFFICES ASSUME NEW d \in Creates \ unheard
               PROVE  One(d)'
    BY DEF Tokens
  <2>1. One(d)
    BY DEF Tokens
  <2>2. CASE Doc(c) # d
    <3>1. \A j \in Ids : Live(j)' /\ doc'[j] = d => Live(j) /\ doc[j] = d
      BY <1>1, <1>7, <2>2
    <3> QED BY <1>6, <2>1, <3>1 DEF One
  <2>3. CASE Doc(c) = d
    <3>1. Holds(c, d)
      BY <2>3 DEF Holds, Doc, Made, Ended
    <3>2. \A b \in Calls : ~ Holds(b, d)'
      BY <1>6, <2>1, <3>1 DEF One
    <3>3. \A j \in Ids : Live(j)' /\ doc'[j] = d => j = i
      BY <1>7, <2>1, <3>1 DEF One
    <3>4. sent[d] = 0
      BY <2>1, <3>1 DEF One
    <3> QED BY <3>2, <3>3, <3>4 DEF One
  <2> QED BY <2>2, <2>3
<1> QED BY <1>3, <1>5, <1>8

(* Every step keeps the invariant.                                         *)
LEMMA StepIInv == IInv /\ [Next]_vars => IInv'
<1> SUFFICES ASSUME IInv, [Next]_vars
             PROVE  IInv'
  OBVIOUS
<1> USE DEF IInv, TypeOK, Calls, Kinds, Labels, Ended, mailbox, call, Goto
<1>1. ASSUME NEW c \in Calls, NEW kind \in Kinds, Create(c, kind) PROVE IInv'
  <2>1. TypeOK'
    BY <1>1 DEF Create
  <2>2. Made'
    BY <1>1 DEF Create, Made, Doc
  <2>3. \A j \in Ids : Live(j)' => Live(j)
    BY <1>1 DEF Create, Live
  <2>4. \A b \in Calls, d \in Creates : Holds(b, d)' => Holds(b, d)
    BY <1>1 DEF Create, Holds, Doc, Made
  <2>5. UNCHANGED <<doc, sent>> /\ unheard \subseteq unheard'
    BY <1>1 DEF Create
  <2> QED BY <2>1, <2>2, <2>3, <2>4, <2>5, Quiet
<1>2. ASSUME NEW c \in Calls, NEW i \in Ids, NEW other \in BOOLEAN, Read(c, i, other) PROVE IInv'
  <2>0. at[i] # "unmade" /\ i # 0
    BY <1>2 DEF Read, Names, Answered, Shown, Made, Ids
  <2>a. doc[i] \in Creates
    BY <2>0 DEF Made
  <2>1. TypeOK'
    BY <1>2, <2>0, <2>a DEF Read, Names
  <2>2. Made'
    BY <1>2, <2>0 DEF Read, Names, Answered, Shown, Made, Doc
  <2>3. \A j \in Ids : Live(j)' => Live(j)
    BY <1>2 DEF Read, Names, Answered, Shown, Live
  <2>4. \A b \in Calls, d \in Creates : Holds(b, d)' => Holds(b, d)
    BY <1>2 DEF Read, Names, Answered, Shown, Holds, Doc, Made
  <2>5. UNCHANGED <<doc, sent>> /\ unheard \subseteq unheard'
    BY <1>2 DEF Read, Names, Answered, Shown
  <2> QED BY <2>1, <2>2, <2>3, <2>4, <2>5, Quiet
<1>3. ASSUME NEW c \in Calls, NEW i \in Ids, NEW other \in BOOLEAN, NameForDelete(c, i, other) PROVE IInv'
  <2>0. at[i] # "unmade" /\ i # 0
    BY <1>3 DEF NameForDelete, Names, Answered, Shown, Made, Ids
  <2>a. doc[i] \in Creates
    BY <2>0 DEF Made
  <2>1. TypeOK'
    BY <1>3, <2>0, <2>a DEF NameForDelete, Names
  <2>2. Made'
    BY <1>3, <2>0 DEF NameForDelete, Names, Answered, Shown, Made, Doc
  <2>3. \A j \in Ids : Live(j)' => Live(j)
    BY <1>3 DEF NameForDelete, Names, Answered, Shown, Live
  <2>4. \A b \in Calls, d \in Creates : Holds(b, d)' => Holds(b, d)
    BY <1>3 DEF NameForDelete, Names, Answered, Shown, Holds, Doc, Made
  <2>5. UNCHANGED <<doc, sent>> /\ unheard \subseteq unheard'
    BY <1>3 DEF NameForDelete, Names, Answered, Shown
  <2> QED BY <2>1, <2>2, <2>3, <2>4, <2>5, Quiet
<1>4. ASSUME NEW c \in Calls, Resolve(c) PROVE IInv'
  <2>1. TypeOK'
    BY <1>4 DEF Resolve
  <2>2. Made'
    BY <1>4 DEF Resolve, Made, Doc
  <2>3. \A j \in Ids : Live(j)' => Live(j)
    BY <1>4 DEF Resolve, Live
  <2>4. \A b \in Calls, d \in Creates : Holds(b, d)' => Holds(b, d)
    BY <1>4 DEF Resolve, Holds, Doc, Made
  <2>5. UNCHANGED <<doc, sent>> /\ unheard \subseteq unheard'
    BY <1>4 DEF Resolve
  <2> QED BY <2>1, <2>2, <2>3, <2>4, <2>5, Quiet
<1>5. ASSUME NEW c \in Calls, Decline(c) PROVE IInv'
  <2>1. TypeOK'
    BY <1>5 DEF Decline
  <2>2. Made'
    BY <1>5 DEF Decline, Made, Doc
  <2>3. \A j \in Ids : Live(j)' => Live(j)
    BY <1>5 DEF Decline, Live
  <2>4. \A b \in Calls, d \in Creates : Holds(b, d)' => Holds(b, d)
    BY <1>5 DEF Decline, Holds, Doc, Made
  <2>5. UNCHANGED <<doc, sent>> /\ unheard \subseteq unheard'
    BY <1>5 DEF Decline
  <2> QED BY <2>1, <2>2, <2>3, <2>4, <2>5, Quiet
<1>6. ASSUME NEW c \in Calls, DeleteTimesOut(c) \/ DeleteErrs(c) PROVE IInv'
  <2>1. TypeOK'
    BY <1>6 DEF DeleteTimesOut, DeleteErrs
  <2>2. Made'
    BY <1>6 DEF DeleteTimesOut, DeleteErrs, Made, Doc
  <2>3. \A j \in Ids : Live(j)' => Live(j)
    BY <1>6 DEF DeleteTimesOut, DeleteErrs, Live
  <2>4. \A b \in Calls, d \in Creates : Holds(b, d)' => Holds(b, d)
    BY <1>6 DEF DeleteTimesOut, DeleteErrs, Holds, Doc, Made
  <2>5. UNCHANGED <<doc, sent>> /\ unheard \subseteq unheard'
    BY <1>6 DEF DeleteTimesOut, DeleteErrs
  <2> QED BY <2>1, <2>2, <2>3, <2>4, <2>5, Quiet
<1>7. ASSUME NEW c \in Calls, Forget(c) PROVE IInv'
  <2>1. TypeOK'
    BY <1>7 DEF Forget
  <2>2. Made'
    BY <1>7 DEF Forget, Made, Doc
  <2>3. \A j \in Ids : Live(j)' => Live(j)
    BY <1>7 DEF Forget, Live
  <2>4. \A b \in Calls, d \in Creates : Holds(b, d)' => Holds(b, d)
    BY <1>7 DEF Forget, Holds, Doc, Made
  <2>5. UNCHANGED <<doc, sent>> /\ unheard \subseteq unheard'
    BY <1>7 DEF Forget
  <2> QED BY <2>1, <2>2, <2>3, <2>4, <2>5, Quiet
<1>8. ASSUME NEW c \in Calls, Invalid(c) PROVE IInv'
  <2>1. TypeOK'
    BY <1>8 DEF Invalid
  <2>2. Made'
    BY <1>8 DEF Invalid, Made, Doc
  <2>3. \A j \in Ids : Live(j)' => Live(j)
    BY <1>8 DEF Invalid, Live
  <2>4. \A b \in Calls, d \in Creates : Holds(b, d)' => Holds(b, d)
    BY <1>8 DEF Invalid, Holds, Doc, Made
  <2>5. UNCHANGED <<doc, sent>> /\ unheard \subseteq unheard'
    BY <1>8 DEF Invalid
  <2> QED BY <2>1, <2>2, <2>3, <2>4, <2>5, Quiet
<1>9. ASSUME NEW c \in Calls, MakeFails(c) PROVE IInv'
  <2>1. TypeOK'
    BY <1>9 DEF MakeFails
  <2>2. Made'
    BY <1>9 DEF MakeFails, Made, Doc
  <2>3. \A j \in Ids : Live(j)' => Live(j)
    BY <1>9 DEF MakeFails, Live
  <2>4. \A b \in Calls, d \in Creates : Holds(b, d)' => Holds(b, d)
    BY <1>9 DEF MakeFails, Holds, Doc, Made
  <2>5. UNCHANGED <<doc, sent>> /\ unheard \subseteq unheard'
    BY <1>9 DEF MakeFails
  <2> QED BY <2>1, <2>2, <2>3, <2>4, <2>5, Quiet
<1>10. ASSUME NEW c \in Calls, Appended(c) PROVE IInv'
  <2>1. TypeOK'
    BY <1>10 DEF Appended
  <2>2. Made'
    BY <1>10 DEF Appended, Made, Doc
  <2>3. \A j \in Ids : Live(j)' => Live(j)
    BY <1>10 DEF Appended, Live
  <2>4. \A b \in Calls, d \in Creates : Holds(b, d)' => Holds(b, d)
    BY <1>10 DEF Appended, Holds, Doc, Made
  <2>5. UNCHANGED <<doc, sent>> /\ unheard \subseteq unheard'
    BY <1>10 DEF Appended
  <2> QED BY <2>1, <2>2, <2>3, <2>4, <2>5, Quiet
<1>11. ASSUME NEW c \in Calls, AppendLost(c) PROVE IInv'
  <2>0. Doc(c) \in Creates
    BY <1>11 DEF AppendLost, Doc, Made
  <2>1. TypeOK'
    BY <1>11, <2>0 DEF AppendLost
  <2>2. Made'
    BY <1>11, <2>0 DEF AppendLost, Made, Doc
  <2>3. \A j \in Ids : Live(j)' => Live(j)
    BY <1>11 DEF AppendLost, Live
  <2>4. \A b \in Calls, d \in Creates : Holds(b, d)' => Holds(b, d)
    BY <1>11 DEF AppendLost, Holds, Doc, Made
  <2>5. UNCHANGED <<doc, sent>> /\ unheard \subseteq unheard'
    BY <1>11 DEF AppendLost
  <2> QED BY <2>1, <2>2, <2>3, <2>4, <2>5, Quiet
<1>12. ASSUME NEW c \in Calls, Poll(c) PROVE IInv'
  <2>0. PICK i \in Shown :
          /\ told' = [told EXCEPT ![c] = i]
          /\ strayed' = IF doc[i] = Doc(c) THEN strayed ELSE strayed \cup {doc[i], Doc(c)}
    BY <1>12 DEF Poll
  <2>a. i \in Ids /\ doc[i] \in Creates /\ Doc(c) \in Creates
    BY <1>12 DEF Poll, Shown, Made, Doc
  <2>1. TypeOK'
    BY <1>12, <2>0, <2>a DEF Poll
  <2>2. Made'
    BY <1>12, <2>0 DEF Poll, Shown, Made, Doc
  <2>3. \A j \in Ids : Live(j)' => Live(j)
    BY <1>12 DEF Poll, Shown, Live
  <2>4. \A b \in Calls, d \in Creates : Holds(b, d)' => Holds(b, d)
    BY <1>12 DEF Poll, Shown, Holds, Doc, Made
  <2>5. UNCHANGED <<doc, sent>> /\ unheard \subseteq unheard'
    BY <1>12 DEF Poll, Shown
  <2> QED BY <2>1, <2>2, <2>3, <2>4, <2>5, Quiet
<1>13. ASSUME NEW c \in Calls, PollGivesUp(c) PROVE IInv'
  <2>1. TypeOK'
    BY <1>13 DEF PollGivesUp
  <2>2. Made'
    BY <1>13 DEF PollGivesUp, Made, Doc
  <2>3. \A j \in Ids : Live(j)' => Live(j)
    BY <1>13 DEF PollGivesUp, Live
  <2>4. \A b \in Calls, d \in Creates : Holds(b, d)' => Holds(b, d)
    BY <1>13 DEF PollGivesUp, Holds, Doc, Made
  <2>5. UNCHANGED <<doc, sent>> /\ unheard \subseteq unheard'
    BY <1>13 DEF PollGivesUp
  <2> QED BY <2>1, <2>2, <2>3, <2>4, <2>5, Quiet
<1>14. ASSUME NEW c \in Calls, ScriptTimesOut(c) PROVE IInv'
  <2>1. TypeOK'
    BY <1>14 DEF ScriptTimesOut
  <2>2. Made'
    BY <1>14 DEF ScriptTimesOut, Made, Doc
  <2>3. \A j \in Ids : Live(j)' => Live(j)
    BY <1>14 DEF ScriptTimesOut, Live
  <2>4. \A b \in Calls, d \in Creates : Holds(b, d)' => Holds(b, d)
    BY <1>14 DEF ScriptTimesOut, Holds, Doc, Made
  <2>5. UNCHANGED <<doc, sent>> /\ unheard \subseteq unheard'
    BY <1>14 DEF ScriptTimesOut
  <2> QED BY <2>1, <2>2, <2>3, <2>4, <2>5, Quiet
<1>15. ASSUME NEW c \in Calls, Busy(c) PROVE IInv'
  <2>1. TypeOK'
    BY <1>15 DEF Busy
  <2>2. Made'
    BY <1>15 DEF Busy, Made, Doc
  <2>3. \A j \in Ids : Live(j)' => Live(j)
    BY <1>15 DEF Busy, Live
  <2>4. \A b \in Calls, d \in Creates : Holds(b, d)' => Holds(b, d)
    BY <1>15 DEF Busy, Holds, Doc, Made
  <2>5. UNCHANGED <<doc, sent>> /\ unheard \subseteq unheard'
    BY <1>15 DEF Busy
  <2> QED BY <2>1, <2>2, <2>3, <2>4, <2>5, Quiet
<1>16. ASSUME NEW c \in Calls, Persist(c) PROVE IInv'
  <2>1. TypeOK'
    BY <1>16 DEF Persist
  <2>2. Made'
    BY <1>16 DEF Persist, Made, Doc
  <2>3. \A j \in Ids : Live(j)' => Live(j)
    BY <1>16 DEF Persist, Live
  <2>4. \A b \in Calls, d \in Creates : Holds(b, d)' => Holds(b, d)
    BY <1>16 DEF Persist, Holds, Doc, Made
  <2>5. UNCHANGED <<doc, sent>> /\ unheard \subseteq unheard'
    BY <1>16 DEF Persist
  <2> QED BY <2>1, <2>2, <2>3, <2>4, <2>5, Quiet
<1>17. ASSUME NEW c \in Calls, Delete(c) PROVE IInv'
  <2> DEFINE i == target[c]
  <2>1. TypeOK'
    BY <1>17 DEF Delete
  <2>2. Made'
    BY <1>17 DEF Delete, Made, Doc
  <2>3. Tokens'
    <3> SUFFICES ASSUME NEW d \in Creates \ unheard
                 PROVE  One(d)'
      BY <1>17 DEF Tokens, Delete
    <3>1. One(d) /\ UNCHANGED <<doc, sent, target>>
      BY <1>17 DEF Tokens, Delete
    <3>2. \A j \in Ids : Live(j)' => Live(j)
      BY <1>17 DEF Delete, Live
    <3>3. CASE at[i] = "shown" /\ doc[i] = d /\ c \in Updates
      <4>0. i \in Ids
        BY <1>17 DEF Delete, Made
      <4>1. Live(i) /\ sent[d] = 0 /\ \A b \in Calls : ~ Holds(b, d)
        BY <1>17, <3>1, <3>3, <4>0 DEF One, Live
      <4>2. \A b \in Calls : Holds(b, d)' => b = c
        BY <1>17, <3>1, <4>1 DEF Holds, Doc, Delete
      <4>3. \A j \in Ids : Live(j)' => doc[j] # d
        BY <1>17, <3>1, <3>2, <3>3, <4>0, <4>1 DEF One, Live, Delete
      <4> QED BY <3>1, <4>1, <4>2, <4>3 DEF One
    <3>4. CASE ~ (at[i] = "shown" /\ doc[i] = d /\ c \in Updates)
      <4>1. \A b \in Calls : Holds(b, d)' => Holds(b, d)
        BY <1>17, <3>1, <3>4 DEF Holds, Doc, Delete
      <4> QED BY <3>1, <3>2, <4>1 DEF One
    <3> QED BY <3>3, <3>4
  <2> QED BY <2>1, <2>2, <2>3
<1>18. ASSUME NEW c \in Calls, Send(c) PROVE IInv'
  <2>1. Doc(c) \in Creates /\ (Doc(c) \notin unheard => sent[Doc(c)] = 0)
    <3>1. Doc(c) \in Creates
      BY <1>18 DEF Send, Doc, Made
    <3> QED BY <1>18, <3>1 DEF Send, Tokens, One, Holds
  <2>2. TypeOK'
    BY <1>18, <2>1 DEF Send
  <2>3. Made'
    BY <1>18 DEF Send, Made, Doc
  <2>4. Tokens'
    <3> SUFFICES ASSUME NEW d \in Creates \ unheard
                 PROVE  One(d)'
      BY <1>18 DEF Tokens, Send
    <3>1. One(d) /\ UNCHANGED <<at, doc, target>>
      BY <1>18 DEF Tokens, Send
    <3>2. \A b \in Calls : Holds(b, d)' => Holds(b, d) /\ b # c
      BY <1>18 DEF Holds, Doc, Send
    <3>3. CASE Doc(c) = d
      <4>1. Holds(c, d) /\ sent'[d] = 1
        BY <1>18, <2>1, <3>3 DEF Holds, Send
      <4>2. \A b \in Calls : ~ Holds(b, d)'
        BY <3>1, <3>2, <4>1 DEF One
      <4>3. \A j \in Ids : Live(j)' => doc[j] # d
        BY <3>1, <4>1 DEF One, Live
      <4> QED BY <3>1, <4>1, <4>2, <4>3 DEF One
    <3>4. CASE Doc(c) # d
      <4>1. sent'[d] = sent[d] /\ \A j \in Ids : Live(j)' => Live(j)
        BY <1>18, <2>1, <3>1, <3>4 DEF Send, Live
      <4> QED BY <3>1, <3>2, <4>1 DEF One
    <3> QED BY <3>3, <3>4
  <2> QED BY <2>2, <2>3, <2>4
<1>19. ASSUME NEW c \in Calls, Append(c) PROVE IInv'
  <2>1. /\ pc[c] \in {"make", "script"} /\ Make(c) /\ Goto(c, "appended")
        /\ UNCHANGED <<sent, unheard, target>>
    BY <1>19 DEF Append
  <2>2. /\ at' \in [Ids -> {"unmade", "hidden", "shown", "gone"}]
        /\ doc' \in [Ids -> Creates \cup {Free}]
        /\ told' \in [Calls -> Ids \cup {0}]
        /\ Made' /\ Tokens'
    BY <2>1, MakeStep
  <2>3. thread' \in [Ids -> Kinds]
    BY <1>19 DEF Append, Make
  <2>4. TypeOK'
    BY <1>19, <2>2, <2>3 DEF Append, Shown
  <2> QED BY <2>2, <2>4
<1>20. ASSUME NEW c \in Calls, Script(c) PROVE IInv'
  <2>1. /\ pc[c] \in {"make", "script"} /\ Make(c) /\ Goto(c, "poll")
        /\ UNCHANGED <<sent, unheard, target>>
    BY <1>20 DEF Script
  <2>2. /\ at' \in [Ids -> {"unmade", "hidden", "shown", "gone"}]
        /\ doc' \in [Ids -> Creates \cup {Free}]
        /\ told' \in [Calls -> Ids \cup {0}]
        /\ Made' /\ Tokens'
    BY <2>1, MakeStep
  <2>3. thread' \in [Ids -> Kinds]
    BY <1>20 DEF Script, Make
  <2>4. TypeOK'
    BY <1>20, <2>2, <2>3 DEF Script, Shown
  <2> QED BY <2>2, <2>4
<1>21. ASSUME NEW i \in Ids, Surface(i) PROVE IInv'
  <2>1. TypeOK'
    BY <1>21 DEF Surface
  <2>2. Made'
    BY <1>21 DEF Surface, Made, Doc
  <2>3. \A j \in Ids : Live(j)' => Live(j)
    BY <1>21 DEF Surface, Live
  <2>4. \A b \in Calls, d \in Creates : Holds(b, d)' => Holds(b, d)
    BY <1>21 DEF Surface, Holds, Doc, Made
  <2>5. UNCHANGED <<doc, sent>> /\ unheard \subseteq unheard'
    BY <1>21 DEF Surface
  <2> QED BY <2>1, <2>2, <2>3, <2>4, <2>5, Quiet
<1>22. ASSUME Crash PROVE IInv'
  <2>1. TypeOK'
    BY <1>22 DEF Crash
  <2>2. Made'
    BY <1>22 DEF Crash, Made, Doc
  <2>3. \A j \in Ids : Live(j)' => Live(j)
    BY <1>22 DEF Crash, Live
  <2>4. \A b \in Calls, d \in Creates : Holds(b, d)' => Holds(b, d)
    BY <1>22 DEF Crash, Holds, Doc, Made
  <2>5. UNCHANGED <<doc, sent>> /\ unheard \subseteq unheard'
    BY <1>22 DEF Crash
  <2> QED BY <2>1, <2>2, <2>3, <2>4, <2>5, Quiet
<1>23. CASE UNCHANGED vars
  <2>1. UNCHANGED <<mailbox, store, pc, call, before, lock, strayed>>
    BY <1>23 DEF vars
  <2>2. TypeOK' /\ Made'
    BY <2>1 DEF Made, Doc
  <2>3. /\ \A j \in Ids : Live(j)' => Live(j)
        /\ \A b \in Calls, d \in Creates : Holds(b, d)' => Holds(b, d)
    BY <2>1 DEF Live, Holds, Doc
  <2> QED BY <2>1, <2>2, <2>3, Quiet
<1> HIDE DEF IInv, TypeOK, Calls, Kinds, Labels, Ended, mailbox, call, Goto
<1>24. ASSUME NEW c \in Calls, Step(c) PROVE IInv'
  BY <1>1, <1>2, <1>3, <1>4, <1>5, <1>6, <1>7, <1>8, <1>9, <1>10, <1>11, <1>12, <1>13,
     <1>14, <1>15, <1>16, <1>17, <1>18, <1>19, <1>20, <1>24, Zenon DEF Step, Open
<1> QED BY <1>21, <1>22, <1>23, <1>24 DEF Next

(* So the invariant holds throughout.                                      *)
LEMMA Invariance == Spec => []IInv
<1>1. IInv /\ [Next]_vars => IInv'
  BY StepIInv
<1> QED BY InitIInv, <1>1, PTL DEF Spec

(* Every variable keeps its type.                                          *)
THEOREM TypeCorrect == Spec => []TypeOK
<1>1. IInv => TypeOK
  BY DEF IInv
<1> QED BY Invariance, <1>1, PTL

(* Updates delete and make again; still a document is one draft or one sent*)
(* message, whoever else updates or deletes it and wherever calls stop.    *)
THEOREM NoFork == Spec => []OneDraft
<1>1. IInv => OneDraft
  BY DEF IInv, Tokens, One, OneDraft
<1> QED BY Invariance, <1>1, PTL
-------------------------------------------------------------------------------
(* A step that keeps the drafts, or leaves each one it takes, and each call*)
(* that has taken one, with somebody to answer for it.                     *)
LEMMA Answerable ==
  ASSUME IInv, Conserved,
         \A i \in Ids : doc'[i] = doc[i] \/ (at[i] = "unmade" /\ Live(i)'),
         \A d \in Creates : sent[d] > 0 => sent'[d] > 0,
         \A i \in Ids : Live(i) =>
           Live(i)' \/ \E c \in Updates \cup Deletes : target'[c] = i /\ Takes(c)',
         \A c \in Updates \cup Deletes : target[c] # 0 /\ Takes(c) =>
           /\ target'[c] = target[c]
           /\ \/ Takes(c)'
              \/ sent'[doc[target[c]]] > 0
              \/ \E i \in Ids : Live(i)' /\ doc'[i] = doc[target[c]]
  PROVE  Conserved'
<1> SUFFICES ASSUME NEW d \in Creates, NEW k \in Ids, doc'[k] = d,
                    ~ \E i \in Ids : Live(i)' /\ doc'[i] = d,
                    ~ sent'[d] > 0
             PROVE  \E c \in Updates \cup Deletes :
                      target'[c] # 0 /\ doc'[target'[c]] = d /\ Takes(c)'
  BY DEF Conserved
<1>1. doc[k] = d
  OBVIOUS
<1>2. \A i \in Ids : Live(i) => doc'[i] = doc[i]
  BY DEF Live
<1>3. \A c \in Updates \cup Deletes : target[c] # 0 =>
        target[c] \in Ids /\ doc'[target[c]] = doc[target[c]]
  BY DEF IInv, TypeOK, Made, Calls
<1>4. CASE \E i \in Ids : Live(i) /\ doc[i] = d
  <2>1. PICK i \in Ids : Live(i) /\ doc[i] = d
    BY <1>4
  <2>2. PICK c \in Updates \cup Deletes : target'[c] = i /\ Takes(c)'
    BY <1>2, <2>1
  <2>3. i # 0
    BY DEF Ids
  <2> QED BY <1>2, <2>1, <2>2, <2>3
<1>5. CASE \E c \in Updates \cup Deletes : target[c] # 0 /\ doc[target[c]] = d /\ Takes(c)
  BY <1>3, <1>5
<1> QED BY <1>1, <1>4, <1>5 DEF Conserved

(* A step that lets no draft go and leaves every call that took one where   *)
(* it can answer for it.                                                   *)
LEMMA Kept ==
  ASSUME IInv, Conserved, UNCHANGED <<doc, sent>>,
         \A i \in Ids : Live(i) => Live(i)',
         \A c \in Updates \cup Deletes : target[c] # 0 /\ Takes(c) =>
           target'[c] = target[c] /\ Takes(c)'
  PROVE  Conserved'
BY Answerable

(* A delete takes the draft, or may have taken it when it ended in an error*)
(* or timed out.                                                           *)
LEMMA Taken ==
  ASSUME IInv, Conserved, NEW c \in Calls, pc[c] = "delete",
         UNCHANGED <<doc, sent, target>>,
         \/ UNCHANGED at /\ Goto(c, "missed")
         \/ /\ at' \in {at, [at EXCEPT ![target[c]] = "gone"]}
            /\ Goto(c, "forget") \/ Goto(c, "erred") \/ Goto(c, "timedout")
  PROVE  Conserved'
<1> USE DEF IInv, TypeOK, Calls
<1>1. c \in Updates \cup Deletes /\ target[c] \in Ids
  BY DEF Made, Ended
<1>2. \A b \in Updates \cup Deletes : Takes(b) => b # c /\ Takes(b)'
  BY DEF Takes, Goto
<1>3. CASE UNCHANGED at
  BY <1>2, <1>3, Kept DEF Live
<1>4. CASE /\ at' = [at EXCEPT ![target[c]] = "gone"]
           /\ Goto(c, "forget") \/ Goto(c, "erred") \/ Goto(c, "timedout")
  <2>1. Takes(c)'
    BY <1>1, <1>4 DEF Takes, Goto
  <2>2. \A i \in Ids : Live(i) => Live(i)' \/ i = target[c]
    BY <1>4 DEF Live
  <2> QED BY <1>1, <1>2, <2>1, <2>2, Answerable
<1> QED BY <1>3, <1>4

(* A new draft is there for its document, and no other draft changes.      *)
LEMMA Replaced ==
  ASSUME IInv, Conserved, NEW c \in Calls, Make(c), NEW label \in Labels, Goto(c, label),
         UNCHANGED <<sent, target>>
  PROVE  Conserved'
<1>1. PICK i \in Ids : /\ \A j \in Ids : at[j] = "unmade" <=> j >= i
                      /\ at' = [at EXCEPT ![i] = "hidden"]
                      /\ doc' = [doc EXCEPT ![i] = Doc(c)]
  BY Zenon DEF Make
<1>2. at[i] = "unmade" /\ Live(i)' /\ doc'[i] = Doc(c)
  BY <1>1 DEF IInv, TypeOK, Ids, Live
<1>3. \A j \in Ids : j # i => doc'[j] = doc[j] /\ at'[j] = at[j]
  BY <1>1 DEF IInv, TypeOK
<1>4. \A b \in Calls : b # c => pc'[b] = pc[b]
  BY DEF Goto, IInv, TypeOK
<1>5. \A b \in Updates \cup Deletes : b # c /\ Takes(b) => Takes(b)'
  BY <1>4 DEF Takes, Calls
<1>6. c \in Updates \cup Deletes => Doc(c) = doc[target[c]]
  BY DEF Doc, DraftAssumption
<1> QED BY <1>2, <1>3, <1>5, <1>6, Answerable DEF Live

(* What deletes a draft holds its document or has an excuse.               *)
LEMMA StepConserved == IInv /\ Conserved /\ [Next]_vars => Conserved'
<1> SUFFICES ASSUME IInv, Conserved, [Next]_vars
             PROVE  Conserved'
  OBVIOUS
<1> USE DEF mailbox, call
<1>1. ASSUME NEW c \in Calls, NEW kind \in Kinds, Create(c, kind)
      PROVE  Conserved'
  BY <1>1, Kept DEF Create, Goto, IInv, TypeOK, Made, Live, Takes, Calls, Ended
<1>2. ASSUME NEW c \in Calls, NEW i \in Ids, NEW other \in BOOLEAN, Read(c, i, other)
      PROVE  Conserved'
  BY <1>2, Kept DEF Read, Names, Goto, IInv, TypeOK, Made, Live, Takes, Calls, Ended
<1>3. ASSUME NEW c \in Calls, NEW i \in Ids, NEW other \in BOOLEAN,
             NameForDelete(c, i, other)
      PROVE  Conserved'
  BY <1>3, Kept DEF NameForDelete, Names, Goto, IInv, TypeOK, Made, Live, Takes, Calls, Ended
<1>4. ASSUME NEW c \in Calls, Resolve(c)
      PROVE  Conserved'
  BY <1>4, Kept DEF Resolve, Goto, IInv, TypeOK, Made, Live, Takes, Calls, Ended
<1>5. ASSUME NEW c \in Calls, Decline(c)
      PROVE  Conserved'
  BY <1>5, Kept DEF Decline, Goto, IInv, TypeOK, Made, Live, Takes, Calls, Ended
<1>6. ASSUME NEW c \in Calls, Delete(c)
      PROVE  Conserved'
  BY <1>6, Taken DEF Delete
<1>7. ASSUME NEW c \in Calls, DeleteTimesOut(c) \/ DeleteErrs(c)
      PROVE  Conserved'
  <2>1. at' \in {at, [at EXCEPT ![target[c]] = "gone"]}
    BY <1>7 DEF DeleteTimesOut, DeleteErrs, IInv, TypeOK, Made, Ended, Calls
  <2> QED BY <1>7, <2>1, Taken DEF DeleteTimesOut, DeleteErrs
<1>8. ASSUME NEW c \in Calls, Forget(c)
      PROVE  Conserved'
  BY <1>8, Kept DEF Forget, Goto, IInv, TypeOK, Made, Live, Takes, Calls, Ended
<1>9. ASSUME NEW c \in Calls, Invalid(c)
      PROVE  Conserved'
  BY <1>9, Kept DEF Invalid, Goto, IInv, TypeOK, Made, Live, Takes, Calls, Ended
<1>10. ASSUME NEW c \in Calls, MakeFails(c)
      PROVE  Conserved'
  BY <1>10, Kept DEF MakeFails, Goto, IInv, TypeOK, Made, Live, Takes, Calls, Ended
<1>11. ASSUME NEW c \in Calls, Send(c)
      PROVE  Conserved'
  <2>1. UNCHANGED <<doc, at, target>> /\ sent' = [sent EXCEPT ![Doc(c)] = @ + 1]
    BY <1>11 DEF Send
  <2>2. Doc(c) = doc[target[c]] /\ Doc(c) \in Creates
    BY <1>11 DEF Send, Doc, IInv, TypeOK, Made, Ended, Calls
  <2>3. \A d \in Creates : sent[d] > 0 => sent'[d] > 0
    BY <2>1, <2>2 DEF IInv, TypeOK
  <2>4. sent'[doc[target[c]]] > 0
    BY <2>1, <2>2 DEF IInv, TypeOK
  <2>5. \A b \in Updates \cup Deletes : b # c /\ Takes(b) => Takes(b)'
    BY <1>11 DEF Send, Takes, Goto, IInv, TypeOK, Calls
  <2> QED BY <2>1, <2>3, <2>4, <2>5, Answerable DEF Live
<1>12. ASSUME NEW c \in Calls, Append(c)
      PROVE  Conserved'
  BY <1>12, Replaced, Zenon DEF Append, Labels
<1>13. ASSUME NEW c \in Calls, Appended(c)
      PROVE  Conserved'
  BY <1>13, Kept DEF Appended, Goto, IInv, TypeOK, Made, Live, Takes, Calls, Ended
<1>14. ASSUME NEW c \in Calls, AppendLost(c)
      PROVE  Conserved'
  BY <1>14, Kept DEF AppendLost, Goto, IInv, TypeOK, Made, Live, Takes, Calls, Ended
<1>15. ASSUME NEW c \in Calls, Script(c)
      PROVE  Conserved'
  BY <1>15, Replaced, Zenon DEF Script, Labels
<1>16. ASSUME NEW c \in Calls, Poll(c)
      PROVE  Conserved'
  BY <1>16, Kept DEF Poll, Goto, IInv, TypeOK, Made, Live, Takes, Calls, Ended
<1>17. ASSUME NEW c \in Calls, PollGivesUp(c)
      PROVE  Conserved'
  BY <1>17, Kept DEF PollGivesUp, Goto, IInv, TypeOK, Made, Live, Takes, Calls, Ended
<1>18. ASSUME NEW c \in Calls, ScriptTimesOut(c)
      PROVE  Conserved'
  BY <1>18, Kept DEF ScriptTimesOut, Goto, IInv, TypeOK, Made, Live, Takes, Calls, Ended
<1>19. ASSUME NEW c \in Calls, Busy(c)
      PROVE  Conserved'
  BY <1>19, Kept DEF Busy, Goto, IInv, TypeOK, Made, Live, Takes, Calls, Ended
<1>20. ASSUME NEW c \in Calls, Persist(c)
      PROVE  Conserved'
  BY <1>20, Kept DEF Persist, Goto, IInv, TypeOK, Made, Live, Takes, Calls, Ended
<1>21. ASSUME NEW i \in Ids, Surface(i)
       PROVE  Conserved'
  BY <1>21, Kept DEF Surface, IInv, TypeOK, Live, Takes, Calls
<1>22. ASSUME Crash
       PROVE  Conserved'
  BY <1>22, Kept DEF Crash, IInv, TypeOK, Live, Takes, Calls, Ended
<1>23. CASE UNCHANGED vars
  BY <1>23, Kept DEF vars, Live, Takes
<1>24. ASSUME NEW c \in Calls, Step(c)
       PROVE  Conserved'
  BY <1>1, <1>2, <1>3, <1>4, <1>5, <1>6, <1>7, <1>8, <1>9, <1>10, <1>11, <1>12, <1>13,
     <1>14, <1>15, <1>16, <1>17, <1>18, <1>19, <1>20, <1>24, Zenon DEF Step, Open
<1> QED BY <1>21, <1>22, <1>23, <1>24 DEF Next

(* At first no document has been lost.                                     *)
LEMMA InitConserved == Init => Conserved
BY DEF Init, Conserved, Ids, Free, Calls

(* A document is lost only to its delete_draft, or to an update that got   *)
(* past its gates and was cut off before it had made or sent the new draft.*)
THEOREM NothingLost == Spec => []Conserved
<1>1. IInv /\ Conserved /\ [Next]_vars => Conserved'
  BY StepConserved
<1> QED BY Invariance, InitConserved, <1>1, PTL DEF Spec
-------------------------------------------------------------------------------
(* What a draft was made as, and its record, of documents that have not    *)
(* strayed.                                                                *)
Working == {"make", "appended", "script", "poll", "persist"}

(* The call that will answer the document's next draft.                    *)
Owns(c, d) ==
  \/ c \in Creates /\ c = d /\ pc[c] \in {"ready"} \cup Working
  \/ c \in Updates /\ pc[c] \in {"forget"} \cup Working /\ Doc(c) = d

(* The versions of a document form a chain: at most one live draft of it   *)
(* was answered, and none while a call is about to answer one.             *)
Chain ==
  \A d \in Creates \ strayed :
    /\ \A b, c \in Calls : Owns(b, d) /\ Owns(c, d) => b = c
    /\ \A c \in Calls, i \in Ids : Owns(c, d) /\ Live(i) /\ doc[i] = d => ~ Answered(i)
    /\ \A i, j \in Ids :
         Live(i) /\ Live(j) /\ doc[i] = d /\ doc[j] = d /\ Answered(i) /\ Answered(j) => i = j

Named ==
  \A c \in Calls : target[c] # 0 /\ doc[target[c]] \notin strayed =>
    ~ alias[c] /\ Answered(target[c])

Places ==
  /\ \A c \in Calls : pc[c] \in {"ready", "resolve", "delete", "forget", "make"} => told[c] = 0
  /\ \A c \in Calls : told[c] # 0 => c \in Creates \/ target[c] # 0
  /\ \A c \in Calls : told[c] # 0 =>
       doc[told[c]] = Doc(c) \/ (doc[told[c]] \in strayed /\ Doc(c) \in strayed)
  /\ \A c \in Calls : pc[c] \in Working /\ told[c] # 0 /\ Doc(c) \notin strayed =>
       Live(told[c]) /\ thread[told[c]] = seed[c]
  /\ \A c \in Calls : pc[c] = "forget" => at[target[c]] = "gone"
  /\ \A i \in Ids : at[i] # "unmade" => pc[doc[i]] # "ready"

Seeds ==
  /\ \A i \in Ids : at[i] # "unmade" /\ doc[i] \notin strayed => thread[i] = seed[doc[i]]
  /\ \A c \in Updates : pc[c] = "delete" /\ Live(target[c]) /\ Doc(c) \notin strayed =>
       seed[c] = seed[Doc(c)]
  /\ \A c \in Updates : pc[c] \in {"forget"} \cup Working /\ Doc(c) \notin strayed =>
       seed[c] = seed[Doc(c)]

CutOff == {"forget", "erred", "timedout", "killed"}

Records ==
  /\ \A i \in Ids : store[i] # "none" => at[i] # "unmade"
  /\ \A i \in Ids : store[i] # "none" /\ doc[i] \notin strayed => store[i] = thread[i]
  /\ \A i \in Ids : Live(i) /\ Answered(i) /\ doc[i] \notin strayed => thread[i] \in {"new", store[i]}
  /\ \A i \in Ids : store[i] # "none" =>
       Live(i) \/ doc[i] \in strayed \/ \E c \in Calls : target[c] = i /\ pc[c] \in CutOff

Lineage == Chain /\ Named /\ Places /\ Seeds /\ Records

(* At first there are no versions.                                         *)
LEMMA InitLineage == Init => Lineage
BY DEF Init, Lineage, Chain, Named, Places, Seeds, Records, Owns, Answered, Live, Doc, Shown,
       Working, Ids, Calls, Free

(* A call goes on without touching a draft or a record, or stops there.    *)
Stopped == {"missed", "erred", "declined", "refused", "timedout", "failed", "killed"}

(* So all that was known of drafts and records is still so.                *)
LEMMA Stops ==
  ASSUME IInv, Lineage, pc' \in [Calls -> Labels],
         UNCHANGED <<at, doc, thread, store, target, alias, seed, told, strayed>>,
         \A c \in Calls :
           \/ pc'[c] = pc[c]
           \/ pc[c] \in Working \cup {"ready", "resolve", "delete"} /\ pc'[c] \in Stopped
           \/ pc[c] = "forget" /\ pc'[c] = "killed"
           \/ pc[c] = "make" /\ pc'[c] = "ok"
           \/ pc[c] = "appended" /\ pc'[c] \in {"persist", "script"}
  PROVE  Lineage'
<1> USE DEF Stopped, Working
<1>0. TypeOK /\ Made /\ Chain /\ Named /\ Places /\ Seeds /\ Records
  BY DEF IInv, Lineage
<1>1. \A i \in Ids : (Live(i)' <=> Live(i)) /\ (Answered(i)' <=> Answered(i))
  <2>1. \A c \in Calls : pc'[c] = "ok" => pc[c] \in {"ok", "make"}
    OBVIOUS
  <2>2. \A c \in Calls : pc[c] = "make" => told[c] = 0
    BY <1>0 DEF Places
  <2>3. \A c \in Calls, i \in Ids : pc'[c] = "ok" /\ told[c] = i => pc[c] = "ok"
    BY <2>1, <2>2 DEF Ids
  <2>4. \A c \in Calls : pc[c] = "ok" => pc'[c] = "ok"
    OBVIOUS
  <2> QED BY <2>3, <2>4 DEF Live, Answered
<1>2. \A c \in Calls, d \in Creates : Owns(c, d)' => Owns(c, d)
  BY DEF Owns, Doc
<1>3. Chain'
  BY <1>0, <1>1, <1>2 DEF Chain
<1>4. Named'
  <2>1. \A c \in Calls : target[c] \in Ids \cup {0}
    BY <1>0 DEF TypeOK
  <2> QED BY <1>0, <1>1, <2>1 DEF Named
<1>5. Places'
  <2>1. \A c \in Calls :
          /\ pc'[c] \in {"ready", "resolve", "delete", "forget", "make"} => pc'[c] = pc[c]
          /\ pc'[c] \in Working => pc[c] \in Working
    OBVIOUS
  <2>2. \A i \in Ids : at[i] # "unmade" => doc[i] \in Calls
    BY <1>0 DEF Made, Calls
  <2>3. \A c \in Calls : Doc(c)' = Doc(c) /\ (told[c] # 0 => (Live(told[c])' <=> Live(told[c])))
    BY DEF Doc, Live
  <2> QED BY <1>0, <2>1, <2>2, <2>3 DEF Places
<1>6. Seeds'
  <2>1. \A c \in Updates : c \in Calls /\ Doc(c)' = Doc(c)
    BY DEF Doc, Calls
  <2>2. \A c \in Updates : pc'[c] = "delete" => pc[c] = "delete"
    BY <2>1
  <2>3. \A c \in Updates :
          pc'[c] \in {"forget"} \cup Working => pc[c] \in {"forget"} \cup Working
    BY <2>1
  <2>4. \A c \in Updates : Live(target[c])' <=> Live(target[c])
    BY DEF Live
  <2> QED BY <1>0, <2>1, <2>2, <2>3, <2>4 DEF Seeds
<1>7. Records'
  <2>1. \A c \in Calls : pc[c] \in CutOff => pc'[c] \in CutOff
    BY DEF CutOff
  <2> QED BY <1>0, <1>1, <2>1 DEF Records, CutOff
<1> QED BY <1>3, <1>4, <1>5, <1>6, <1>7 DEF Lineage

(* create_draft settles what its document is; there is no draft of it yet. *)
LEMMA CreateLineage ==
  ASSUME IInv, Lineage, NEW c \in Calls, NEW kind \in Kinds, Create(c, kind)
  PROVE  Lineage'
<1>0. TypeOK /\ Made /\ Chain /\ Named /\ Places /\ Seeds /\ Records
  BY DEF IInv, Lineage
<1>1. /\ c \in Creates /\ c \notin Updates /\ c \notin Deletes /\ pc[c] = "ready"
      /\ UNCHANGED <<at, doc, thread, store, target, alias, told, before, lock, strayed>>
      /\ pc'[c] = "make" /\ \A b \in Calls : b # c => pc'[b] = pc[b] /\ seed'[b] = seed[b]
  BY <1>0 DEF Create, Goto, mailbox, TypeOK, DraftAssumption
<1>2. \A i \in Ids : (Live(i)' <=> Live(i)) /\ (Answered(i)' <=> Answered(i))
  BY <1>1 DEF Live, Answered
<1>3. Chain'
  <2>1. \A b \in Calls, d \in Creates : Owns(b, d)' => Owns(b, d)
    BY <1>1 DEF Owns, Doc, Working, Calls
  <2> QED BY <1>0, <1>1, <1>2, <2>1 DEF Chain
<1>4. Named'
  <2>1. \A b \in Calls : target[b] \in Ids \cup {0}
    BY <1>0 DEF TypeOK
  <2> QED BY <1>0, <1>1, <1>2, <2>1 DEF Named
<1>5. \A i \in Ids : at[i] # "unmade" => doc[i] \in Calls /\ doc[i] # c
  BY <1>0, <1>1 DEF Made, Places, Calls
<1>6. \A b \in Calls : Doc(b)' = Doc(b) /\ (told[b] # 0 => (Live(told[b])' <=> Live(told[b])))
  BY <1>1 DEF Doc, Live
<1>7. Places'
  <2>1. told[c] = 0
    BY <1>0, <1>1 DEF Places
  <2> QED BY <1>0, <1>1, <1>5, <1>6, <2>1 DEF Places
<1>8. Seeds'
  <2>1. \A b \in Updates : b \in Calls /\ b # c
    BY <1>1 DEF Calls
  <2>2. \A b \in Updates : pc[b] \in {"delete", "forget"} \cup Working =>
                             Doc(b) \in Calls /\ Doc(b) # c
    BY <1>0, <1>1, <1>5, <2>1 DEF Doc, Made, TypeOK, Working, Ended, DraftAssumption
  <2>3. \A b \in Updates : Live(target[b])' <=> Live(target[b])
    BY <1>1 DEF Live
  <2> QED BY <1>0, <1>1, <1>5, <1>6, <2>1, <2>2, <2>3 DEF Seeds
<1>9. Records'
  <2>1. \A b \in Calls : pc[b] \in CutOff => pc'[b] = pc[b]
    BY <1>1 DEF CutOff
  <2> QED BY <1>0, <1>1, <1>2, <2>1 DEF Records, CutOff
<1> QED BY <1>3, <1>4, <1>7, <1>8, <1>9 DEF Lineage

(* A call names a draft that was answered, by its id, or strays.           *)
LEMMA NamesLineage ==
  ASSUME IInv, Lineage, NEW c \in Updates \cup Deletes, pc[c] = "ready",
         NEW k \in Ids, NEW other \in BOOLEAN, Names(c, k, other),
         NEW label \in {"resolve", "missed", "delete"}, Goto(c, label),
         c \in Updates => label # "delete",
         UNCHANGED <<mailbox, store, seed, told, before, lock>>
  PROVE  Lineage'
<1>0. TypeOK /\ Made /\ Chain /\ Named /\ Places /\ Seeds /\ Records /\ c \in Calls
  BY DEF IInv, Lineage, Calls
<1>1. /\ c \notin Creates
      /\ UNCHANGED <<at, doc, thread, store, seed, told, before, lock>>
      /\ pc'[c] \in {"resolve", "missed", "delete"} /\ (c \in Updates => pc'[c] # "delete")
      /\ \A b \in Calls : b # c =>
           pc'[b] = pc[b] /\ target'[b] = target[b] /\ alias'[b] = alias[b]
      /\ target'[c] = k /\ k # 0 /\ strayed \subseteq strayed'
      /\ doc[k] \notin strayed' => Answered(k) /\ ~ alias'[c]
  BY <1>0 DEF Goto, mailbox, TypeOK, DraftAssumption, Names, Ids
<1>2. \A i \in Ids : (Live(i)' <=> Live(i)) /\ (Answered(i)' <=> Answered(i))
  BY <1>1 DEF Live, Answered
<1>3. \A b \in Calls : b # c => Doc(b)' = Doc(b)
  BY <1>1 DEF Doc
<1>4. Chain'
  <2>1. \A b \in Calls, d \in Creates : Owns(b, d)' => Owns(b, d)
    BY <1>1, <1>3 DEF Owns, Working
  <2> QED BY <1>0, <1>1, <1>2, <2>1 DEF Chain
<1>5. Named'
  <2>1. \A b \in Calls : target[b] \in Ids \cup {0}
    BY <1>0 DEF TypeOK
  <2> QED BY <1>0, <1>1, <1>2, <2>1 DEF Named
<1>6. Places'
  <2>1. told[c] = 0
    BY <1>0 DEF Places
  <2>3. \A i \in Ids : at[i] # "unmade" => doc[i] \in Calls
    BY <1>0 DEF Made, Calls
  <2>4. \A b \in Calls : told[b] # 0 => (Live(told[b])' <=> Live(told[b]))
    BY <1>1 DEF Live
  <2>5. \A b \in Calls : pc[b] = "forget" => b # c
    OBVIOUS
  <2>6. pc'[c] \notin Working /\ pc'[c] # "poll" /\ pc'[c] # "forget" /\ pc'[c] # "ready"
    BY <1>1 DEF Working
  <2> QED BY <1>0, <1>1, <1>3, <2>1, <2>3, <2>4, <2>5, <2>6 DEF Places, Working
<1>7. Seeds'
  <2>1. \A b \in Updates : pc'[b] \in {"delete", "forget"} \cup Working => b # c
    BY <1>1 DEF Working
  <2>2. \A b \in Updates : b \in Calls /\ (b # c => (Live(target[b])' <=> Live(target[b])))
    BY <1>1 DEF Live, Calls
  <2> QED BY <1>0, <1>1, <1>3, <2>1, <2>2 DEF Seeds
<1>8. Records'
  <2>1. \A b \in Calls : pc[b] \in CutOff =>
                           pc'[b] = pc[b] /\ target'[b] = target[b]
    BY <1>1 DEF CutOff
  <2> QED BY <1>0, <1>1, <1>2, <2>1 DEF Records, CutOff
<1> QED BY <1>4, <1>5, <1>6, <1>7, <1>8 DEF Lineage

(* The record says how the draft was made; without one it was made fresh.  *)
LEMMA ResolveLineage ==
  ASSUME IInv, Lineage, NEW c \in Calls, Resolve(c)
  PROVE  Lineage'
<1>0. TypeOK /\ Made /\ Chain /\ Named /\ Places /\ Seeds /\ Records
  BY DEF IInv, Lineage
<1>1. /\ pc[c] = "resolve" /\ c \in Updates /\ c \notin Creates
      /\ UNCHANGED <<at, doc, thread, store, target, alias, told, before, lock, strayed>>
      /\ pc'[c] = "delete"
      /\ \A b \in Calls : b # c => pc'[b] = pc[b] /\ seed'[b] = seed[b]
  BY <1>0 DEF Resolve, Goto, mailbox, TypeOK, DraftAssumption, Made, Ended, Calls
<1>2. \A i \in Ids : (Live(i)' <=> Live(i)) /\ (Answered(i)' <=> Answered(i))
  BY <1>1 DEF Live, Answered
<1>3. Chain'
  <2>1. \A b \in Calls, d \in Creates : Owns(b, d)' => Owns(b, d)
    BY <1>1 DEF Owns, Doc, Working
  <2> QED BY <1>0, <1>1, <1>2, <2>1 DEF Chain
<1>4. Named'
  <2>1. \A b \in Calls : target[b] \in Ids \cup {0}
    BY <1>0 DEF TypeOK
  <2> QED BY <1>0, <1>1, <1>2, <2>1 DEF Named
<1>5. \A i \in Ids : at[i] # "unmade" => doc[i] \in Calls /\ doc[i] # c
  BY <1>0, <1>1 DEF Made, Calls, DraftAssumption
<1>6. \A b \in Calls : Doc(b)' = Doc(b) /\ (told[b] # 0 => (Live(told[b])' <=> Live(told[b])))
  BY <1>1 DEF Doc, Live
<1>7. Places'
  <2>1. told[c] = 0
    BY <1>0, <1>1 DEF Places
  <2>3. pc'[c] \notin Working
    BY <1>1 DEF Working
  <2> QED BY <1>0, <1>1, <1>5, <1>6, <2>1, <2>3 DEF Places
<1>8. /\ target[c] \in Ids /\ at[target[c]] # "unmade" /\ Doc(c) = doc[target[c]]
      /\ Doc(c) \notin strayed => Answered(target[c]) /\ ~ alias[c]
  BY <1>0, <1>1 DEF Made, Named, TypeOK, Ended, Doc
<1>9. Live(target[c]) /\ Doc(c) \notin strayed => seed'[c] = thread[target[c]]
  <2> SUFFICES ASSUME Live(target[c]), Doc(c) \notin strayed
               PROVE  seed'[c] = thread[target[c]]
    OBVIOUS
  <2>1. PICK kind \in Kinds :
          /\ store[target[c]] # "none" => kind = store[target[c]]
          /\ store[target[c]] = "none" => kind \in {"new", thread[target[c]]}
          /\ seed' = [seed EXCEPT ![c] = kind]
    BY <1>8 DEF Resolve
  <2>2. seed'[c] = kind
    BY <1>0, <2>1 DEF TypeOK
  <2>3. CASE store[target[c]] # "none"
    BY <1>0, <1>8, <2>1, <2>2, <2>3 DEF Records, CutOff
  <2>4. CASE store[target[c]] = "none"
    <3>1. thread[target[c]] \in {"new", "none"} /\ thread[target[c]] \in Kinds
      BY <1>0, <1>8, <2>4 DEF Records, TypeOK
    <3> QED BY <2>1, <2>2, <2>4, <3>1 DEF Kinds
  <2> QED BY <2>3, <2>4
<1>10. Seeds'
  <2>1. \A b \in Updates : pc[b] \in {"delete", "forget"} \cup Working =>
                             Doc(b) \in Calls /\ Doc(b) # c
    BY <1>0, <1>1, <1>5 DEF Doc, Made, TypeOK, Working, Ended, Calls
  <2>2. \A b \in Updates : b \in Calls /\ (Live(target[b])' <=> Live(target[b]))
    BY <1>1 DEF Live, Calls
  <2>3. /\ seed'[Doc(c)] = seed[Doc(c)]
        /\ Doc(c) \notin strayed => thread[target[c]] = seed[Doc(c)]
    BY <1>0, <1>1, <1>5, <1>8 DEF Seeds
  <2>4. pc'[c] \notin {"forget"} \cup Working
    BY <1>1 DEF Working
  <2> QED BY <1>0, <1>1, <1>5, <1>6, <1>9, <2>1, <2>2, <2>3, <2>4 DEF Seeds
<1>11. Records'
  <2>1. \A b \in Calls : pc[b] \in CutOff => pc'[b] = pc[b]
    BY <1>1 DEF CutOff
  <2> QED BY <1>0, <1>1, <1>2, <2>1 DEF Records, CutOff
<1> QED BY <1>3, <1>4, <1>7, <1>10, <1>11 DEF Lineage
(* A delete takes the one draft of its document that was answered, so no   *)
(* call is about to answer another, and none has this one for its own.     *)
LEMMA VanishLineage ==
  ASSUME IInv, Lineage, NEW c \in Calls, pc[c] = "delete", at[target[c]] = "shown",
         at' = [at EXCEPT ![target[c]] = "gone"],
         NEW label \in {"forget", "erred", "timedout"}, Goto(c, label),
         UNCHANGED <<doc, thread, store, call, before, lock, strayed>>
  PROVE  Lineage'
<1> DEFINE t == target[c]
<1>0. TypeOK /\ Made /\ Chain /\ Named /\ Places /\ Seeds /\ Records
  BY DEF IInv, Lineage
<1>1. /\ c \in Updates \cup Deletes /\ c \notin Creates
      /\ UNCHANGED <<doc, thread, store, target, alias, seed, told, before, lock, strayed>>
      /\ pc'[c] \in {"forget", "erred", "timedout"}
      /\ \A b \in Calls : b # c => pc'[b] = pc[b]
  BY <1>0 DEF Goto, call, TypeOK, DraftAssumption, Made, Ended, Calls
<1>2. /\ t \in Ids /\ Live(t) /\ Doc(c) = doc[t] /\ doc[t] \in Creates
      /\ doc[t] \notin strayed => Answered(t)
      /\ at'[t] = "gone" /\ \A i \in Ids : i # t => at'[i] = at[i]
  BY <1>0, <1>1 DEF Made, Named, TypeOK, Ended, Doc, Live
<1>3. \A i \in Ids : (Live(i)' <=> Live(i) /\ i # t) /\ (Answered(i)' <=> Answered(i))
  BY <1>1, <1>2 DEF Live, Answered
<1>4. doc[t] \notin strayed => \A b \in Calls : ~ Owns(b, doc[t])
  BY <1>0, <1>2 DEF Chain
<1>5. \A b \in Calls : Doc(b)' = Doc(b)
  BY <1>1 DEF Doc
<1>6. Chain'
  <2>1. \A b \in Calls, d \in Creates : Owns(b, d)' => Owns(b, d) \/ (b = c /\ d = doc[t])
    BY <1>1, <1>2, <1>5 DEF Owns, Working
  <2>2. doc[t] \notin strayed => \A i \in Ids : Live(i)' /\ doc[i] = doc[t] => ~ Answered(i)
    BY <1>0, <1>2, <1>3 DEF Chain
  <2> QED BY <1>0, <1>1, <1>2, <1>3, <1>4, <2>1, <2>2 DEF Chain
<1>7. Named'
  <2>1. \A b \in Calls : target[b] \in Ids \cup {0}
    BY <1>0 DEF TypeOK
  <2> QED BY <1>0, <1>1, <1>3, <2>1 DEF Named
<1>8. \A i \in Ids : (at'[i] = "unmade" <=> at[i] = "unmade") /\ (at[i] = "gone" => at'[i] = "gone")
  BY <1>2 DEF Live
<1>9. Places'
  <2>1. told[c] = 0
    BY <1>0 DEF Places
  <2>3. \A i \in Ids : at[i] # "unmade" => doc[i] \in Calls
    BY <1>0 DEF Made, Calls
  <2>4. \A b \in Calls : pc[b] \in Working /\ told[b] # 0 /\ Doc(b) \notin strayed =>
          told[b] \in Ids /\ told[b] # t
    BY <1>0, <1>2, <1>4 DEF Places, TypeOK, Owns, Doc, Working, Made, Ended, Calls
  <2>5. \A b \in Calls : pc[b] = "forget" => target[b] \in Ids
    BY <1>0 DEF Made, Ended, TypeOK, Calls
  <2>6. \A b \in Calls : told[b] # 0 => told[b] \in Ids
    BY <1>0 DEF TypeOK
  <2>7. pc'[c] \notin Working /\ pc'[c] # "poll" /\ pc'[c] # "ready"
    BY <1>1 DEF Working
  <2> QED BY <1>0, <1>1, <1>2, <1>3, <1>5, <1>8, <2>1, <2>3, <2>4, <2>5, <2>6, <2>7 DEF Places
<1>10. Seeds'
  <2>1. \A b \in Updates : b \in Calls /\ target[b] \in Ids \cup {0}
    BY <1>0 DEF TypeOK, Calls
  <2>2. \A b \in Updates : pc[b] = "delete" => target[b] \in Ids
    BY <1>0, <2>1 DEF Made, Ended
  <2>3. c \in Updates /\ Doc(c) \notin strayed => seed[c] = seed[Doc(c)]
    BY <1>0, <1>2 DEF Seeds
  <2>4. \A b \in Updates : pc'[b] = "delete" => pc[b] = "delete"
    BY <1>1, <2>1
  <2>5. \A b \in Updates : pc'[b] \in {"forget"} \cup Working =>
                             b = c \/ pc[b] \in {"forget"} \cup Working
    BY <1>1, <2>1
  <2> QED BY <1>0, <1>1, <1>3, <1>5, <1>8, <2>1, <2>2, <2>3, <2>4, <2>5 DEF Seeds
<1>11. Records'
  <2>1. \A b \in Calls : pc[b] \in CutOff => pc'[b] = pc[b]
    BY <1>1 DEF CutOff
  <2> QED BY <1>0, <1>1, <1>3, <1>8, <2>1 DEF Records, CutOff
<1> QED BY <1>6, <1>7, <1>9, <1>10, <1>11 DEF Lineage

(* The record goes behind the draft; the call carries its seed on.         *)
LEMMA ForgetLineage ==
  ASSUME IInv, Lineage, NEW c \in Calls, Forget(c)
  PROVE  Lineage'
<1> DEFINE t == target[c]
<1>0. TypeOK /\ Made /\ Chain /\ Named /\ Places /\ Seeds /\ Records
  BY DEF IInv, Lineage
<1>1. /\ pc[c] = "forget" /\ c \notin Creates /\ t \in Ids /\ at[t] = "gone" /\ told[c] = 0
      /\ UNCHANGED <<at, doc, thread, target, alias, seed, told, before, lock, strayed>>
      /\ pc'[c] \in {"make", "ok"} /\ (c \in Updates => pc'[c] = "make")
      /\ \A b \in Calls : b # c => pc'[b] = pc[b]
      /\ IF alias[c] THEN store'[t] = store[t] ELSE store'[t] = "none"
      /\ \A i \in Ids : i # t => store'[i] = store[i]
      /\ alias[c] => doc[t] \in strayed
  BY <1>0 DEF Forget, Goto, mailbox, call, TypeOK, Made, Ended, Calls, Places, Named
<1>2. \A i \in Ids : (Live(i)' <=> Live(i)) /\ (Answered(i)' <=> Answered(i))
  BY <1>1 DEF Live, Answered, Ids
<1>3. \A b \in Calls : Doc(b)' = Doc(b) /\ (told[b] # 0 => (Live(told[b])' <=> Live(told[b])))
  BY <1>1 DEF Doc, Live
<1>4. Chain'
  <2>1. \A b \in Calls, d \in Creates : Owns(b, d)' => Owns(b, d)
    BY <1>1, <1>3 DEF Owns, Working
  <2> QED BY <1>0, <1>1, <1>2, <2>1 DEF Chain
<1>5. Named'
  <2>1. \A b \in Calls : target[b] \in Ids \cup {0}
    BY <1>0 DEF TypeOK
  <2> QED BY <1>0, <1>1, <1>2, <2>1 DEF Named
<1>6. Places'
  <2>1. \A i \in Ids : at[i] # "unmade" => doc[i] \in Calls
    BY <1>0 DEF Made, Calls
  <2> QED BY <1>0, <1>1, <1>3, <2>1 DEF Places
<1>7. Seeds'
  <2>1. \A b \in Updates : b \in Calls /\ (Live(target[b])' <=> Live(target[b]))
    BY <1>1 DEF Live, Calls
  <2> QED BY <1>0, <1>1, <1>3, <2>1 DEF Seeds
<1>8. Records'
  <2>1. \A b \in Calls : pc[b] \in CutOff /\ b # c => pc'[b] = pc[b]
    BY <1>1 DEF CutOff
  <2>2. ~ Live(t)
    BY <1>1 DEF Live
  <2> QED BY <1>0, <1>1, <1>2, <2>1, <2>2 DEF Records, CutOff
<1> QED BY <1>4, <1>5, <1>6, <1>7, <1>8 DEF Lineage
(* The call makes the draft as the update resolved it, and answers it only *)
(* when it has recorded it.                                                *)
LEMMA MakeLineage ==
  ASSUME IInv, Lineage, NEW c \in Calls, pc[c] \in {"make", "script"}, Make(c),
         NEW label \in {"appended", "poll"}, Goto(c, label),
         UNCHANGED <<store, target, alias, seed, strayed>>
  PROVE  Lineage'
<1>0. TypeOK /\ Made /\ Chain /\ Named /\ Places /\ Seeds /\ Records
  BY DEF IInv, Lineage
<1>a. PICK i \in Ids :
        /\ \A j \in Ids : at[j] = "unmade" <=> j >= i
        /\ at' = [at EXCEPT ![i] = "hidden"]
        /\ doc' = [doc EXCEPT ![i] = Doc(c)]
        /\ thread' = [thread EXCEPT ![i] = seed[c]]
        /\ told' = [told EXCEPT ![c] = i]
  BY Zenon DEF Make
<1>1. /\ at[i] = "unmade" /\ at'[i] = "hidden" /\ doc'[i] = Doc(c) /\ thread'[i] = seed[c]
      /\ \A j \in Ids : j # i => at'[j] = at[j] /\ doc'[j] = doc[j] /\ thread'[j] = thread[j]
      /\ told'[c] = i /\ i # 0
  BY <1>0, <1>a DEF TypeOK, Ids
<1>2. \A b \in Calls : b # c => pc'[b] = pc[b] /\ told'[b] = told[b]
  BY <1>0, <1>a DEF TypeOK, Goto
<1>3. pc'[c] \in {"appended", "poll"}
  BY <1>0 DEF TypeOK, Goto
<1>4. /\ Doc(c) \in Creates /\ pc[Doc(c)] # "ready" /\ (c \in Updates => Doc(c) # c)
      /\ Owns(c, Doc(c)) /\ (Doc(c) \notin strayed => seed[c] = seed[Doc(c)])
  <2>1. CASE c \in Creates
    BY <1>0, <2>1 DEF Doc, Owns, Working, DraftAssumption
  <2>2. CASE c \notin Creates
    <3>1. c \in Updates /\ target[c] \in Ids /\ at[target[c]] # "unmade"
      BY <1>0, <2>2 DEF Calls, Made, Ended, TypeOK
    <3> QED BY <1>0, <2>2, <3>1 DEF Doc, Made, Owns, Working, Seeds, Places, DraftAssumption
  <2> QED BY <2>1, <2>2
<1>5. \A j \in Ids : /\ Live(j)' <=> Live(j) \/ j = i
                     /\ Answered(j)' <=> Answered(j)
  <2>1. ~ Live(i)
    BY <1>1 DEF Live
  <2>2. \A b \in Calls : pc[b] = "ok" => b # c
    OBVIOUS
  <2> QED BY <1>1, <1>2, <1>3, <2>1, <2>2 DEF Live, Answered
<1>6. ~ Answered(i) /\ ~ Live(i) /\ \A b \in Calls : told[b] # i /\ target[b] # i
  BY <1>0, <1>1 DEF Answered, Made, Live
<1>7. \A b \in Calls : b \in Creates \/ target[b] # 0 => Doc(b)' = Doc(b)
  BY <1>0, <1>1, <1>6 DEF Doc, TypeOK
<1>8. \A b \in Calls : pc[b] \notin Ended \cup {"ready"} => Doc(b)' = Doc(b)
  BY <1>0, <1>7 DEF Made, Calls
<1>9. \A b \in Calls, d \in Creates : Owns(b, d)' => Owns(b, d)
  BY <1>2, <1>4, <1>8 DEF Owns, Working, Ended
<1>10. Chain'
  <2>1. \A d \in Creates, j \in Ids : Live(j)' /\ doc'[j] = d /\ Answered(j)' =>
                                        Live(j) /\ doc[j] = d /\ Answered(j)
    BY <1>1, <1>5, <1>6
  <2> QED BY <1>0, <1>9, <2>1 DEF Chain
<1>11. Named'
  <2>1. \A b \in Calls : target[b] \in Ids \cup {0}
    BY <1>0 DEF TypeOK
  <2> QED BY <1>0, <1>1, <1>5, <1>6, <2>1 DEF Named
<1>12. Places'
  <2>1. \A b \in Calls : pc'[b] \in {"ready", "resolve", "delete", "forget", "make"} => told'[b] = 0
    BY <1>0, <1>2, <1>3 DEF Places
  <2>2. \A b \in Calls : told'[b] # 0 =>
          /\ b \in Creates \/ target[b] # 0
          /\ doc'[told'[b]] = Doc(b)' \/ (doc'[told'[b]] \in strayed /\ Doc(b)' \in strayed)
    <3>1. ASSUME NEW b \in Calls, b # c, told[b] # 0
          PROVE  /\ b \in Creates \/ target[b] # 0
                 /\ doc'[told[b]] = Doc(b)' \/ (doc'[told[b]] \in strayed /\ Doc(b)' \in strayed)
      <4>1. told[b] \in Ids /\ told[b] # i /\ (b \in Creates \/ target[b] # 0)
        BY <1>0, <1>6, <3>1 DEF TypeOK, Places
      <4>2. Doc(b)' = Doc(b) /\ doc'[told[b]] = doc[told[b]]
        BY <1>1, <1>7, <4>1
      <4> QED BY <1>0, <3>1, <4>1, <4>2 DEF Places
    <3>2. (c \in Creates \/ target[c] # 0) /\ doc'[told'[c]] = Doc(c)'
      BY <1>0, <1>1, <1>8 DEF Ended, Made, Calls
    <3> QED BY <1>2, <3>1, <3>2
  <2>3. \A b \in Calls : pc'[b] \in Working /\ told'[b] # 0 /\ Doc(b)' \notin strayed =>
          at'[told'[b]] \in {"hidden", "shown"} /\ thread'[told'[b]] = seed[b]
    <3>1. ASSUME NEW b \in Calls, b # c, pc[b] \in Working, told[b] # 0, Doc(b)' \notin strayed
          PROVE  at'[told[b]] \in {"hidden", "shown"} /\ thread'[told[b]] = seed[b]
      <4>1. Doc(b)' = Doc(b)
        BY <1>8, <3>1 DEF Working, Ended
      <4>2. told[b] \in Ids /\ told[b] # i /\ Live(told[b]) /\ thread[told[b]] = seed[b]
        BY <1>0, <1>6, <3>1, <4>1 DEF TypeOK, Places
      <4> QED BY <1>1, <4>2 DEF Live
    <3>2. at'[told'[c]] \in {"hidden", "shown"} /\ thread'[told'[c]] = seed[c]
      BY <1>1
    <3>3. \A b \in Calls : pc'[b] \in Working /\ b # c => pc[b] \in Working /\ told'[b] = told[b]
      BY <1>2
    <3> QED BY <3>1, <3>2, <3>3
  <2>4. \A b \in Calls : pc'[b] = "forget" => at'[target[b]] = "gone"
    <3>1. \A b \in Calls : pc[b] = "forget" => target[b] \in Ids
      BY <1>0 DEF Made, Ended, TypeOK, Calls
    <3> QED BY <1>0, <1>1, <1>2, <1>3, <1>6, <3>1 DEF Places
  <2>5. \A j \in Ids : at'[j] # "unmade" => pc'[doc'[j]] # "ready"
    <3>1. \A j \in Ids : at[j] # "unmade" => doc[j] \in Calls
      BY <1>0 DEF Made, Calls
    <3>2. Doc(c) \in Calls
      BY <1>4 DEF Calls
    <3> QED BY <1>0, <1>1, <1>2, <1>3, <1>4, <3>1, <3>2 DEF Places
  <2> QED BY <2>1, <2>2, <2>3, <2>4, <2>5 DEF Places, Live
<1>13. Seeds'
  <2>1. \A b \in Updates : b \in Calls /\ target[b] \in Ids \cup {0}
    BY <1>0 DEF TypeOK, Calls
  <2>2. \A b \in Updates : pc[b] \in {"delete", "forget"} \cup Working =>
          target[b] \in Ids /\ Doc(b)' = Doc(b)
    BY <1>0, <1>8, <2>1 DEF Made, Ended, Working
  <2>3. \A b \in Updates : pc'[b] = "delete" => pc[b] = "delete"
    BY <1>2, <1>3, <2>1
  <2>4. \A b \in Updates : pc'[b] \in {"forget"} \cup Working => pc[b] \in {"forget"} \cup Working
    BY <1>2, <2>1 DEF Working
  <2> QED BY <1>0, <1>1, <1>4, <1>5, <1>6, <2>1, <2>2, <2>3, <2>4 DEF Seeds
<1>14. Records'
  <2>1. \A b \in Calls : pc[b] \in CutOff => pc'[b] = pc[b]
    BY <1>2 DEF CutOff
  <2>2. store[i] = "none"
    BY <1>0, <1>1 DEF Records, CutOff
  <2> QED BY <1>0, <1>1, <1>5, <1>6, <2>1, <2>2 DEF Records, CutOff
<1> QED BY <1>10, <1>11, <1>12, <1>13, <1>14 DEF Lineage

(* Whatever the script finds it takes for its own: it is its document's, or*)
(* the two have strayed.                                                   *)
LEMMA PollLineage ==
  ASSUME IInv, Lineage, NEW c \in Calls, pc[c] = "poll", Goto(c, "persist"),
         NEW k \in Shown \cup {0}, told' = [told EXCEPT ![c] = k],
         strayed \subseteq strayed',
         k # 0 => doc[k] = Doc(c) \/ (doc[k] \in strayed' /\ Doc(c) \in strayed'),
         UNCHANGED <<mailbox, store, target, alias, seed>>
  PROVE  Lineage'
<1>0. TypeOK /\ Made /\ Chain /\ Named /\ Places /\ Seeds /\ Records
  BY DEF IInv, Lineage
<1>1. /\ UNCHANGED <<at, doc, thread, store, target, alias, seed>>
      /\ pc'[c] = "persist" /\ told'[c] = k
      /\ \A b \in Calls : b # c => pc'[b] = pc[b] /\ told'[b] = told[b]
  BY <1>0 DEF Goto, mailbox, TypeOK
<1>2. \A i \in Ids : (Live(i)' <=> Live(i)) /\ (Answered(i)' <=> Answered(i))
  <2>1. \A b \in Calls : pc[b] = "ok" => b # c
    OBVIOUS
  <2> QED BY <1>1, <2>1 DEF Live, Answered
<1>3. \A b \in Calls : Doc(b)' = Doc(b)
  BY <1>1 DEF Doc
<1>4. Chain'
  <2>1. \A b \in Calls, d \in Creates : Owns(b, d)' => Owns(b, d)
    BY <1>1, <1>3 DEF Owns, Working
  <2> QED BY <1>0, <1>1, <1>2, <2>1 DEF Chain
<1>5. Named'
  <2>1. \A b \in Calls : target[b] \in Ids \cup {0}
    BY <1>0 DEF TypeOK
  <2> QED BY <1>0, <1>1, <1>2, <2>1 DEF Named
<1>6. Doc(c) \notin strayed => seed[c] = seed[Doc(c)]
  BY <1>0 DEF Seeds, Working, Doc, Made, Ended, Calls
<1>7. Places'
  <2>1. k # 0 /\ Doc(c) \notin strayed' => Live(k)' /\ thread[k] = seed[c]
    <3> SUFFICES ASSUME k # 0, Doc(c) \notin strayed'
                 PROVE  Live(k)' /\ thread[k] = seed[c]
      OBVIOUS
    <3>1. k \in Ids /\ at[k] = "shown" /\ doc[k] = Doc(c) /\ doc[k] \notin strayed
      BY DEF Shown
    <3> QED BY <1>0, <1>1, <1>6, <3>1 DEF Live, Seeds
  <2>2. \A i \in Ids : at[i] # "unmade" => doc[i] \in Calls
    BY <1>0 DEF Made, Calls
  <2>3. \A b \in Calls : b # c /\ told[b] # 0 => (Live(told[b])' <=> Live(told[b]))
    BY <1>1 DEF Live
  <2>4. Live(told[c])' <=> Live(k)'
    BY <1>1 DEF Live
  <2>5. c \in Creates \/ target[c] # 0
    BY <1>0 DEF Made, Ended, Calls
  <2> QED BY <1>0, <1>1, <1>3, <2>1, <2>2, <2>3, <2>4, <2>5 DEF Places, Working
<1>8. Seeds'
  <2>1. \A b \in Updates : b \in Calls /\ (Live(target[b])' <=> Live(target[b]))
    BY <1>1 DEF Live, Calls
  <2> QED BY <1>0, <1>1, <1>3, <1>6, <2>1 DEF Seeds
<1>9. Records'
  <2>1. \A b \in Calls : pc[b] \in CutOff => pc'[b] = pc[b]
    BY <1>1 DEF CutOff
  <2> QED BY <1>0, <1>1, <1>2, <2>1 DEF Records, CutOff
<1> QED BY <1>4, <1>5, <1>7, <1>8, <1>9 DEF Lineage
(* From here on the draft is answered, and the record agrees with it.      *)
LEMMA PersistLineage ==
  ASSUME IInv, Lineage, NEW c \in Calls, Persist(c)
  PROVE  Lineage'
<1> DEFINE k == told[c]
<1>0. TypeOK /\ Made /\ Chain /\ Named /\ Places /\ Seeds /\ Records
  BY DEF IInv, Lineage
<1>1. /\ pc[c] = "persist" /\ UNCHANGED <<at, doc, thread, target, alias, seed, told, before, lock, strayed>>
      /\ pc'[c] = "ok" /\ \A b \in Calls : b # c => pc'[b] = pc[b]
      /\ \A i \in Ids : i # k => store'[i] = store[i]
      /\ k \in Ids /\ seed[c] # "new" => store'[k] = seed[c]
      /\ seed[c] = "new" => store' = store
  BY <1>0 DEF Persist, Goto, mailbox, call, TypeOK, Ids
<1>2. k # 0 => /\ k \in Ids /\ at[k] # "unmade" /\ (doc[k] = Doc(c) \/ {doc[k], Doc(c)} \subseteq strayed)
               /\ Doc(c) \notin strayed => Live(k) /\ thread[k] = seed[c]
  BY <1>0, <1>1 DEF Places, Working, TypeOK, Made
<1>3. \A i \in Ids : (Live(i)' <=> Live(i)) /\ (Answered(i)' <=> Answered(i) \/ i = k)
  BY <1>1 DEF Live, Answered
<1>4. \A b \in Calls : Doc(b)' = Doc(b) /\ (told[b] # 0 => (Live(told[b])' <=> Live(told[b])))
  BY <1>1 DEF Doc, Live
<1>5. Doc(c) \in Creates /\ Owns(c, Doc(c))
  BY <1>0, <1>1 DEF Doc, Owns, Made, Ended, Working, TypeOK, Calls
<1>6. Chain'
  <2>1. \A b \in Calls, d \in Creates : Owns(b, d)' => Owns(b, d) /\ b # c
    BY <1>1, <1>4 DEF Owns, Working
  <2>2. \A b \in Calls, d \in Creates \ strayed : Owns(b, d)' => d # Doc(c)
    BY <1>0, <1>5, <2>1 DEF Chain
  <2>3. Doc(c) \notin strayed => \A i \in Ids : Live(i) /\ doc[i] = Doc(c) => ~ Answered(i)
    BY <1>0, <1>5 DEF Chain
  <2>4. \A b \in Calls, i \in Ids, d \in Creates \ strayed :
          Owns(b, d)' /\ Live(i)' /\ doc'[i] = d => ~ Answered(i)'
    BY <1>0, <1>1, <1>2, <1>3, <2>1, <2>2 DEF Chain, Ids
  <2>5. \A i, j \in Ids, d \in Creates \ strayed :
          Live(i)' /\ Live(j)' /\ doc'[i] = d /\ doc'[j] = d /\ Answered(i)' /\ Answered(j)' => i = j
    BY <1>0, <1>1, <1>2, <1>3, <2>3 DEF Chain, Ids
  <2> QED BY <1>0, <1>1, <2>1, <2>4, <2>5 DEF Chain
<1>7. Named'
  <2>1. \A b \in Calls : target[b] \in Ids \cup {0}
    BY <1>0 DEF TypeOK
  <2> QED BY <1>0, <1>1, <1>3, <2>1 DEF Named
<1>8. Places'
  <2>1. \A i \in Ids : at[i] # "unmade" => doc[i] \in Calls
    BY <1>0 DEF Made, Calls
  <2> QED BY <1>0, <1>1, <1>2, <1>4, <2>1 DEF Places, Working
<1>9. Seeds'
  <2>1. \A b \in Updates : b \in Calls /\ (Live(target[b])' <=> Live(target[b]))
    BY <1>1 DEF Live, Calls
  <2> QED BY <1>0, <1>1, <1>4, <2>1 DEF Seeds, Working
<1>10. Records'
  <2>1. \A b \in Calls : pc[b] \in CutOff => pc'[b] = pc[b]
    BY <1>1 DEF CutOff
  <2>2. \A i \in Ids : i # k \/ seed[c] = "new" => store'[i] = store[i]
    BY <1>1
  <2>3. k \in Ids => at[k] # "unmade" /\ (doc[k] \notin strayed => Live(k))
    BY <1>2 DEF Ids
  <2>4. k \in Ids /\ doc[k] \notin strayed =>
          IF seed[c] = "new" THEN thread[k] = "new" ELSE store'[k] = thread[k]
    BY <1>1, <1>2 DEF Ids
  <2> QED BY <1>0, <1>1, <1>3, <2>1, <2>2, <2>3, <2>4 DEF Records, CutOff
<1> QED BY <1>6, <1>7, <1>8, <1>9, <1>10 DEF Lineage

(* Mail shows a draft.                                                     *)
LEMMA SurfaceLineage ==
  ASSUME IInv, Lineage, NEW k \in Ids, Surface(k)
  PROVE  Lineage'
<1>0. TypeOK /\ Made /\ Chain /\ Named /\ Places /\ Seeds /\ Records
  BY DEF IInv, Lineage
<1>1. /\ UNCHANGED <<doc, thread, store, pc, target, alias, seed, told, before, lock, strayed>>
      /\ at[k] = "hidden" /\ at'[k] = "shown"
      /\ \A i \in Ids : i # k => at'[i] = at[i]
  BY <1>0 DEF Surface, call, TypeOK
<1>2. \A i \in Ids : (Live(i)' <=> Live(i)) /\ (Answered(i)' <=> Answered(i))
  BY <1>1 DEF Live, Answered
<1>3. \A b \in Calls : Doc(b)' = Doc(b)
  BY <1>1 DEF Doc
<1>4. Chain'
  <2>1. \A b \in Calls, d \in Creates : Owns(b, d)' => Owns(b, d)
    BY <1>1, <1>3 DEF Owns
  <2> QED BY <1>0, <1>1, <1>2, <2>1 DEF Chain
<1>5. Named'
  <2>1. \A b \in Calls : target[b] \in Ids \cup {0}
    BY <1>0 DEF TypeOK
  <2> QED BY <1>0, <1>1, <1>2, <2>1 DEF Named
<1>6. \A i \in Ids : (at'[i] = "unmade" <=> at[i] = "unmade") /\ (at[i] = "gone" => at'[i] = "gone")
  BY <1>1
<1>7. Places'
  <2>1. \A b \in Calls : told[b] # 0 => told[b] \in Ids
    BY <1>0 DEF TypeOK
  <2>2. \A b \in Calls : pc[b] = "forget" => target[b] \in Ids
    BY <1>0 DEF Made, Ended, TypeOK, Calls
  <2> QED BY <1>0, <1>1, <1>2, <1>3, <1>6, <2>1, <2>2 DEF Places, Working
<1>8. Seeds'
  <2>1. \A b \in Updates : b \in Calls /\ target[b] \in Ids \cup {0}
    BY <1>0 DEF TypeOK, Calls
  <2>2. \A b \in Updates : pc[b] = "delete" => target[b] \in Ids
    BY <1>0, <2>1 DEF Made, Ended
  <2> QED BY <1>0, <1>1, <1>2, <1>3, <1>6, <2>1, <2>2 DEF Seeds
<1>9. Records'
  BY <1>0, <1>1, <1>2, <1>6 DEF Records, CutOff
<1> QED BY <1>4, <1>5, <1>7, <1>8, <1>9 DEF Lineage

(* Every step keeps the account of versions.                               *)
LEMMA StepLineage ==
  ASSUME IInv, Lineage, [Next]_vars
  PROVE  Lineage'
<1>0. TypeOK /\ TypeOK' /\ Made /\ Places
  BY StepIInv DEF IInv, Lineage
<1>a. pc' \in [Calls -> Labels]
  BY <1>0 DEF TypeOK
<1> USE DEF mailbox, call
<1>1. ASSUME NEW c \in Calls, NEW kind \in Kinds, Create(c, kind)
      PROVE  Lineage'
  BY <1>1, CreateLineage
<1>2. ASSUME NEW c \in Calls, NEW i \in Ids, NEW other \in BOOLEAN, Read(c, i, other)
      PROVE  Lineage'
  <2> DEFINE label == IF at[i] = "shown" THEN "resolve" ELSE "missed"
  <2>1. label \in {"resolve", "missed", "delete"} /\ label # "delete"
    OBVIOUS
  <2>2. Goto(c, label) /\ c \in Updates /\ pc[c] = "ready" /\ Names(c, i, other)
    BY <1>2 DEF Read
  <2> HIDE DEF label
  <2> QED BY <1>2, <2>1, <2>2, NamesLineage DEF Read
<1>3. ASSUME NEW c \in Calls, NEW i \in Ids, NEW other \in BOOLEAN, NameForDelete(c, i, other)
      PROVE  Lineage'
  BY <1>3, NamesLineage DEF NameForDelete, DraftAssumption
<1>4. ASSUME NEW c \in Calls, Resolve(c)
      PROVE  Lineage'
  BY <1>4, ResolveLineage
<1>5. ASSUME NEW c \in Calls, Decline(c) \/ Busy(c) \/ Invalid(c) \/ MakeFails(c)
      PROVE  Lineage'
  <2>1. /\ pc[c] \in {"ready", "delete", "make", "script"}
        /\ Goto(c, "declined") \/ Goto(c, "refused") \/ Goto(c, "failed")
        /\ UNCHANGED <<mailbox, store, call, before, lock, strayed>>
    BY <1>5 DEF Decline, Busy, Invalid, MakeFails
  <2> QED BY <1>0, <1>a, <2>1, Stops DEF Goto, TypeOK, Stopped, Working
<1>6. ASSUME NEW c \in Calls, Delete(c)
      PROVE  Lineage'
  <2>1. CASE at[target[c]] = "shown"
    BY <1>6, <2>1, VanishLineage DEF Delete
  <2>2. CASE at[target[c]] # "shown"
    BY <1>0, <1>a, <1>6, <2>2, Stops DEF Delete, Goto, TypeOK, Stopped, Working
  <2> QED BY <2>1, <2>2
<1>7. ASSUME NEW c \in Calls, DeleteTimesOut(c) \/ DeleteErrs(c)
      PROVE  Lineage'
  <2>1. CASE at' = at
    BY <1>0, <1>a, <1>7, <2>1, Stops DEF DeleteTimesOut, DeleteErrs, Goto, TypeOK, Stopped, Working
  <2>2. CASE at' # at
    <3>1. target[c] \in Ids /\ pc[c] = "delete" /\ (Goto(c, "erred") \/ Goto(c, "timedout"))
      BY <1>0, <1>7 DEF DeleteTimesOut, DeleteErrs, TypeOK, Made, Ended, Calls
    <3>2. at[target[c]] = "shown" /\ at' = [at EXCEPT ![target[c]] = "gone"]
      BY <1>0, <1>7, <2>2, <3>1 DEF DeleteTimesOut, DeleteErrs, TypeOK
    <3> QED BY <1>7, <3>1, <3>2, VanishLineage DEF DeleteTimesOut, DeleteErrs
  <2> QED BY <2>1, <2>2
<1>8. ASSUME NEW c \in Calls, Forget(c)
      PROVE  Lineage'
  BY <1>8, ForgetLineage
<1>9. ASSUME NEW c \in Calls, Send(c) \/ Appended(c) \/ AppendLost(c)
      PROVE  Lineage'
  <2>1. /\ \/ pc[c] = "make" /\ (Goto(c, "ok") \/ Goto(c, "failed"))
           \/ pc[c] = "appended" /\ (Goto(c, "persist") \/ Goto(c, "script"))
        /\ UNCHANGED <<at, doc, thread, store, call, before, lock, strayed>>
    BY <1>9 DEF Send, Appended, AppendLost
  <2> QED BY <1>0, <1>a, <2>1, Stops DEF Goto, TypeOK, Stopped, Working
<1>10. ASSUME NEW c \in Calls, Append(c) \/ Script(c)
       PROVE  Lineage'
  <2>1. CASE Append(c)
    BY <2>1, MakeLineage, Zenon DEF Append
  <2>2. CASE Script(c)
    BY <2>2, MakeLineage, Zenon DEF Script
  <2> QED BY <1>10, <2>1, <2>2
<1>11. ASSUME NEW c \in Calls, Poll(c) \/ PollGivesUp(c)
       PROVE  Lineage'
  <2>1. CASE Poll(c)
    <3>1. PICK k \in Shown \ before :
            /\ told' = [told EXCEPT ![c] = k]
            /\ strayed' = IF doc[k] = Doc(c) THEN strayed ELSE strayed \cup {doc[k], Doc(c)}
      BY <2>1 DEF Poll
    <3> QED BY <2>1, <3>1, PollLineage DEF Poll
  <2>2. CASE PollGivesUp(c)
    BY <2>2, PollLineage DEF PollGivesUp
  <2> QED BY <1>11, <2>1, <2>2
<1>12. ASSUME NEW c \in Calls, ScriptTimesOut(c)
       PROVE  Lineage'
  BY <1>0, <1>a, <1>12, Stops DEF ScriptTimesOut, Goto, TypeOK, Stopped, Working
<1>13. ASSUME NEW c \in Calls, Persist(c)
       PROVE  Lineage'
  BY <1>13, PersistLineage
<1>14. ASSUME NEW i \in Ids, Surface(i)
       PROVE  Lineage'
  BY <1>14, SurfaceLineage
<1>15. ASSUME Crash
       PROVE  Lineage'
  <2>1. \A b \in Calls :
          \/ pc'[b] = pc[b]
          \/ pc[b] \in Working \cup {"ready", "resolve", "delete", "forget"} /\ pc'[b] = "killed"
    BY <1>0, <1>15 DEF Crash, Ended, TypeOK, Labels, Working
  <2> QED BY <1>a, <1>15, <2>1, Stops DEF Crash, Stopped
<1>16. CASE UNCHANGED vars
  BY <1>a, <1>16, Stops DEF vars
<1>17. ASSUME NEW c \in Calls, Step(c)
       PROVE  Lineage'
  BY <1>1, <1>2, <1>3, <1>4, <1>5, <1>6, <1>7, <1>8, <1>9, <1>10, <1>11, <1>12, <1>13, <1>17,
     Zenon DEF Step, Open
<1> QED BY <1>14, <1>15, <1>16, <1>17 DEF Next

(* So it holds throughout.                                                 *)
LEMMA LineageHolds == Spec => []Lineage
<1>1. IInv /\ Lineage /\ [Next]_vars => Lineage'
  BY StepLineage
<1> QED BY Invariance, InitLineage, <1>1, PTL DEF Spec

(* Through any chain of updates, timeouts, crashes and fallbacks a live    *)
(* draft is what it was created as, unless a call named a version of it by *)
(* an id no call had answered or an id diff took it for another's.         *)
THEOREM SeedFollows == Spec => []SeedKept
<1>1. IInv /\ Lineage => SeedKept
  BY DEF Lineage, Seeds, SeedKept, Live
<1> QED BY Invariance, LineageHolds, <1>1, PTL

(* With the same exception no record outlives its draft unless the call    *)
(* that deleted it was cut off in the delete or before it had cleared it.  *)
THEOREM StoreIsSwept == Spec => []NoOrphans
<1>1. IInv /\ Lineage => NoOrphans
  BY DEF IInv, TypeOK, Lineage, Records, CutOff, NoOrphans, Idle, Ended
<1> QED BY Invariance, LineageHolds, <1>1, PTL
=============================================================================
