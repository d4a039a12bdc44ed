-------------------------- MODULE MessageMoves_proofs --------------------------
(***************************************************************************)
(* No message is lost, none is doubled, and no count is too high, for any  *)
(* calls, messages, mailboxes and copies, any kind of server and any number*)
(* of moves by other clients.                                              *)
(*                                                                         *)
(* Conserved is not inductive: STORE flags the copies a session has found, *)
(* and that a copy is left unflagged follows only from the COPY before it. *)
(* The strengthening is Spare: between COPY and EXPUNGE every message has  *)
(* an unflagged copy under a UID that the session did not find.  It lasts  *)
(* because UIDs are never used again (Uids), and because no other session  *)
(* flags anything meanwhile (Sessions).                                    *)
(*                                                                         *)
(* OneCopy needs that no session but one between COPY and EXPUNGE is the   *)
(* reason for a second copy (Alone).  CountIsTrue needs an account of what *)
(* each call has moved, kept beside the UIDs it has found and the ids it   *)
(* has resolved (Counted).                                                 *)
(***************************************************************************)
EXTENDS MessageMoves, FiniteSetTheorems, TLAPS

(* The part of TypeOK the proof needs.                                     *)
Typed ==
  /\ of \in [Copies -> Messages]
  /\ at \in [Copies -> Boxes \cup {"unmade", "gone"}]
  /\ era \in [Copies -> Nat]
  /\ doomed \in SUBSET Copies
  /\ pc \in [Calls -> Labels]
  /\ from \in [Calls -> Boxes] /\ to \in [Calls -> Boxes]
  /\ uids \in [Calls -> SUBSET (Copies \X Nat)]

Sessions == session \in Calls \cup {Free} /\ \A c \in Calls : session = c <=> pc[c] \in InSession

(* A UID that was found is of a copy that exists; it was moved since, or it*)
(* is where it was found, or expunged there.                               *)
Uids ==
  \A c \in Calls :
    /\ pc[c] \notin InSession \ {"search"} => uids[c] = {}
    /\ \A i \in Copies, n \in Nat : <<i, n>> \in uids[c] =>
         /\ at[i] # "unmade" /\ n <= era[i]
         /\ n = era[i] => at[i] \in {from[c], "gone"}

Flagged == \A i \in doomed : at[i] # "unmade"

Kept(m, i) == of[i] = m /\ at[i] \in Boxes /\ i \notin doomed

Spare ==
  \A c \in Calls : pc[c] \in {"store", "expunge"} =>
    \A m \in Messages : \E i \in Copies : Kept(m, i) /\ <<i, era[i]>> \notin uids[c]

IInv == Typed /\ Sessions /\ Uids /\ Flagged /\ Spare /\ Conserved

(* What is not a mailbox.                                                  *)
LEMMA BoxNames == "unmade" \notin Boxes /\ "gone" \notin Boxes
BY MovesAssumption

(* The invariant holds at first.                                           *)
LEMMA InitIInv == Init => IInv
<1> SUFFICES ASSUME Init PROVE IInv
  OBVIOUS
<1>1. /\ pc = [c \in Calls |-> "ready"] /\ session = Free /\ doomed = {}
      /\ uids = [c \in Calls |-> {}] /\ era = [i \in Copies |-> 0]
      /\ of \in [Copies -> Messages] /\ at \in [Copies -> Boxes \cup {"unmade"}]
      /\ from = [c \in Calls |-> Inbox] /\ to = [c \in Calls |-> Inbox]
  BY DEF Init
<1>2. Typed
  BY <1>1, MovesAssumption DEF Typed, Labels
<1>3. Sessions /\ Uids /\ Flagged /\ Spare
  BY <1>1, MovesAssumption DEF Sessions, Uids, Flagged, Spare, InSession
<1>4. Conserved
  BY <1>1 DEF Init, Conserved
<1> QED BY <1>2, <1>3, <1>4 DEF IInv

-------------------------------------------------------------------------------
(* Steps that leave the mailboxes alone, and bring nobody behind a COPY.   *)
LEMMA Quiet ==
  ASSUME IInv, UNCHANGED <<of, at, era, doomed>>, Typed', Sessions',
         \A c \in Calls :
           /\ \/ uids'[c] = {}
              \/ from'[c] = from[c] /\ (uids'[c] = uids[c] \/ uids'[c] \subseteq Found(c))
           /\ pc'[c] \notin InSession \ {"search"} => uids'[c] = {}
           /\ pc'[c] \in {"store", "expunge"} => pc'[c] = pc[c] /\ uids'[c] = uids[c]
  PROVE  IInv'
<1> USE DEF IInv
<1>1. ASSUME NEW c \in Calls, NEW i \in Copies, NEW n \in Nat, <<i, n>> \in uids'[c]
      PROVE  at'[i] # "unmade" /\ n <= era'[i] /\ (n = era'[i] => at'[i] \in {from'[c], "gone"})
  <2>1. CASE <<i, n>> \in uids[c] /\ from'[c] = from[c]
    BY <2>1 DEF Uids
  <2>2. CASE <<i, n>> \in Found(c) /\ from'[c] = from[c]
    BY <2>2, BoxNames DEF Found, Typed
  <2> QED BY <1>1, <2>1, <2>2
<1>2. Uids'
  BY <1>1 DEF Uids
<1>3. Flagged' /\ Conserved'
  BY DEF Flagged, Conserved
<1>4. Spare'
  BY DEF Spare, Kept
<1> QED BY <1>2, <1>3, <1>4

(* Copies are moved, by a session or by somebody else.                     *)
LEMMA Moved ==
  ASSUME IInv, NEW S \in SUBSET Copies, NEW box \in Boxes,
         \A i \in S : at[i] \in Boxes, Relocate(S, box),
         UNCHANGED <<of, doomed, from, to, uids>>, Typed', Sessions',
         \A c \in Calls : \/ pc'[c] = pc[c]
                          \/ pc'[c] \in InSession \ {"search", "store", "expunge"}
  PROVE  IInv'
<1> USE DEF IInv
<1>1. \A i \in Copies :
        /\ i \in S => at'[i] = box /\ era'[i] = era[i] + 1
        /\ i \notin S => at'[i] = at[i] /\ era'[i] = era[i]
  BY DEF Relocate
<1>2. \A m \in Messages, i \in Copies : Kept(m, i) => Kept(m, i)'
  BY <1>1 DEF Kept
<1>3. Uids'
  BY <1>1, BoxNames DEF Uids, Typed
<1>4. Flagged'
  BY <1>1, BoxNames DEF Flagged, Typed
<1>5. Conserved'
  BY <1>2 DEF Conserved, Kept
<1>6. \A c \in Calls, i \in Copies :
        <<i, era[i]>> \notin uids[c] => <<i, era'[i]>> \notin uids'[c]
  <2> SUFFICES ASSUME NEW c \in Calls, NEW i \in Copies, <<i, era[i]>> \notin uids[c],
                      <<i, era'[i]>> \in uids[c]
               PROVE  FALSE
    OBVIOUS
  <2>1. era[i] \in Nat /\ era'[i] \in Nat /\ era'[i] <= era[i]
    BY DEF Uids, Typed
  <2> QED BY <1>1, <2>1
<1>7. Spare'
  BY <1>2, <1>6 DEF Spare
<1> QED BY <1>3, <1>4, <1>5, <1>7

(* Flagged copies are expunged.                                            *)
LEMMA Removed ==
  ASSUME IInv, NEW S \in SUBSET doomed, \A i \in S : at[i] \in Boxes,
         at' = [i \in Copies |-> IF i \in S THEN "gone" ELSE at[i]],
         UNCHANGED <<of, era, doomed, from, to, uids>>, Typed', Sessions',
         \A c \in Calls : \/ pc'[c] = pc[c]
                          \/ pc'[c] \in InSession \ {"search", "store", "expunge"}
  PROVE  IInv'
<1> USE DEF IInv
<1>1. \A m \in Messages, i \in Copies : Kept(m, i) => Kept(m, i)'
  BY DEF Kept
<1>2. Uids'
  BY DEF Uids, Typed
<1>3. Flagged'
  BY DEF Flagged, Typed
<1>4. Conserved'
  BY <1>1 DEF Conserved, Kept
<1>5. Spare'
  BY <1>1 DEF Spare
<1> QED BY <1>2, <1>3, <1>4, <1>5

(* STORE flags what was found, and every message has its spare copy.       *)
LEMMA StoreStep == ASSUME IInv, NEW c \in Calls, Store(c), Typed', Sessions' PROVE IInv'
<1> USE DEF IInv
<1>1. /\ pc[c] = "store" /\ pc' = [pc EXCEPT ![c] = "expunge"]
      /\ doomed' = doomed \cup Valid(c)
      /\ UNCHANGED <<of, at, era, session, from, uids>>
  BY DEF Store, Goto, mailbox, call, args, locks
<1>2. \A m \in Messages, i \in Copies :
        Kept(m, i) /\ <<i, era[i]>> \notin uids[c] => Kept(m, i)'
  BY <1>1 DEF Kept, Valid
<1>3. Uids'
  BY <1>1 DEF Uids, InSession, Typed
<1>4. Flagged'
  BY <1>1, BoxNames DEF Flagged, Valid, Typed
<1>5. Conserved'
  BY <1>1, <1>2 DEF Conserved, Spare, Kept
<1>6. \A d \in Calls : pc'[d] \in {"store", "expunge"} => d = c
  BY <1>1 DEF Sessions, InSession, Typed
<1>7. Spare'
  BY <1>1, <1>2, <1>6 DEF Spare
<1> QED BY <1>3, <1>4, <1>5, <1>7

(* COPY: the new copy of what was found is the spare one, its UID is new.  *)
LEMMA CopyStep == ASSUME IInv, NEW c \in Calls, Copy(c), Typed', Sessions' PROVE IInv'
<1> USE DEF IInv
<1>1. /\ pc[c] = "copy" /\ pc' = [pc EXCEPT ![c] = "store"]
      /\ UNCHANGED <<era, session, from, to, uids>>
  BY DEF Copy, Goto, call, args, locks
<1> PICK new \in [Valid(c) -> {i \in Copies : at[i] = "unmade"}] :
         /\ \A i, j \in Valid(c) : i < j <=> new[i] < new[j]
         /\ LET made == {new[i] : i \in Valid(c)}
                old(n) == CHOOSE i \in Valid(c) : new[i] = n IN
            /\ of' = [n \in Copies |-> IF n \in made THEN of[old(n)] ELSE of[n]]
            /\ at' = [n \in Copies |-> IF n \in made THEN to[c] ELSE at[n]]
            /\ doomed' = doomed \cup {n \in made : old(n) \in doomed}
  BY DEF Copy
<1> DEFINE made   == {new[i] : i \in Valid(c)}
           old(n) == CHOOSE i \in Valid(c) : new[i] = n
<1>2. /\ of' = [n \in Copies |-> IF n \in made THEN of[old(n)] ELSE of[n]]
      /\ at' = [n \in Copies |-> IF n \in made THEN to[c] ELSE at[n]]
      /\ doomed' = doomed \cup {n \in made : old(n) \in doomed}
  OBVIOUS
<1>3. \A n \in made : n \in Copies /\ at[n] = "unmade"
  OBVIOUS
<1>4. ASSUME NEW i \in Valid(c) PROVE old(new[i]) = i
  <2>1. old(new[i]) \in Valid(c) /\ new[old(new[i])] = new[i]
    OBVIOUS
  <2>2. Valid(c) \subseteq Nat /\ \A j \in Valid(c) : new[j] \in Nat
    <3>1. Copies \subseteq Nat /\ Valid(c) \subseteq Copies
      BY MovesAssumption DEF Copies, Valid
    <3> QED BY <3>1
  <2> HIDE DEF old
  <2> QED BY <2>1, <2>2
<1> HIDE DEF made, old
<1>5. \A m \in Messages, i \in Copies : Kept(m, i) => Kept(m, i)'
  BY <1>2, <1>3, BoxNames DEF Kept
<1>6. Uids'
  BY <1>1, <1>2, <1>3 DEF Uids, InSession, Typed
<1>7. Flagged'
  BY <1>2, <1>3, BoxNames DEF Flagged, Typed
<1>8. Conserved'
  BY <1>5 DEF Conserved, Kept
<1>9. \A d \in Calls : pc'[d] \in {"store", "expunge"} => d = c
  BY <1>1 DEF Sessions, InSession, Typed
<1>10. ASSUME NEW m \in Messages
       PROVE  \E i \in Copies : Kept(m, i)' /\ <<i, era'[i]>> \notin uids'[c]
  <2>1. PICK i \in Copies : Kept(m, i)
    BY DEF Conserved, Kept
  <2>2. CASE <<i, era[i]>> \notin uids[c]
    BY <1>1, <1>5, <2>1, <2>2
  <2>3. CASE <<i, era[i]>> \in uids[c]
    <3>1. i \in Valid(c)
      BY <2>1, <2>3, BoxNames DEF Kept, Uids, Typed, Valid
    <3>2. /\ new[i] \in made /\ new[i] \in Copies /\ at[new[i]] = "unmade"
          /\ old(new[i]) = i
      BY <1>3, <1>4, <3>1 DEF made
    <3>3. new[i] \notin doomed
      BY <3>2 DEF Flagged
    <3>4. Kept(m, new[i])'
      BY <1>2, <2>1, <3>2, <3>3 DEF Kept, Typed
    <3>5. <<new[i], era[new[i]]>> \notin uids[c]
      BY <3>2 DEF Uids, Typed
    <3> QED BY <1>1, <3>2, <3>4, <3>5
  <2> QED BY <2>2, <2>3
<1>11. Spare'
  BY <1>9, <1>10 DEF Spare
<1> QED BY <1>6, <1>7, <1>8, <1>11

-------------------------------------------------------------------------------
(* A step of a call keeps the types.                                       *)
LEMMA StepTyped == ASSUME IInv, NEW c \in Calls, Step(c) PROVE Typed'
<1> USE DEF IInv, Typed, vars, mailbox, account, args, call, locks, Goto
<1>0. {"imap", "resolve", "script", "running"} \cup InSession \cup Ended \subseteq Labels
  BY DEF Labels, InSession, Ended
<1> USE DEF InSession, Ended
<1>1. CASE SkipImap(c)
  BY <1>0, <1>1 DEF SkipImap
<1>2. CASE Connect(c)
  BY <1>0, <1>2 DEF Connect
<1>3. CASE Unsupported(c)
  BY <1>0, <1>3 DEF Unsupported
<1>4. CASE Search(c)
  BY <1>0, <1>4 DEF Search, Found
<1>5. CASE Move(c)
  BY <1>0, <1>5 DEF Move, Relocate
<1>6. CASE Copy(c)
  <2>1. of' \in [Copies -> Messages] /\ at' \in [Copies -> Boxes \cup {"unmade", "gone"}]
        /\ doomed' \in SUBSET Copies
    <3> PICK new \in [Valid(c) -> {i \in Copies : at[i] = "unmade"}] :
           LET made == {new[i] : i \in Valid(c)}
               old(m) == CHOOSE i \in Valid(c) : new[i] = m IN
           /\ of' = [m \in Copies |-> IF m \in made THEN of[old(m)] ELSE of[m]]
           /\ at' = [m \in Copies |-> IF m \in made THEN to[c] ELSE at[m]]
           /\ doomed' = doomed \cup {m \in made : old(m) \in doomed}
      BY <1>6 DEF Copy
    <3> DEFINE made   == {new[i] : i \in Valid(c)}
               old(m) == CHOOSE i \in Valid(c) : new[i] = m
    <3>1. /\ of' = [m \in Copies |-> IF m \in made THEN of[old(m)] ELSE of[m]]
          /\ at' = [m \in Copies |-> IF m \in made THEN to[c] ELSE at[m]]
          /\ doomed' = doomed \cup {m \in made : old(m) \in doomed}
      OBVIOUS
    <3>2. \A m \in made : old(m) \in Valid(c)
      OBVIOUS
    <3>3. made \subseteq Copies
      OBVIOUS
    <3>4. Valid(c) \subseteq Copies
      BY DEF Valid
    <3> HIDE DEF made, old
    <3>5. of' \in [Copies -> Messages]
      BY <3>1, <3>2, <3>4
    <3>6. at' \in [Copies -> Boxes \cup {"unmade", "gone"}]
      BY <3>1
    <3>7. doomed' \in SUBSET Copies
      BY <3>1, <3>3
    <3> QED BY <3>5, <3>6, <3>7
  <2> QED BY <1>0, <1>6, <2>1 DEF Copy
<1>7. CASE Store(c)
  BY <1>0, <1>7 DEF Store, Valid
<1>8. CASE Expunge(c)
  BY <1>0, <1>8 DEF Expunge
<1>9. CASE Answer(c)
  BY <1>0, <1>9 DEF Answer
<1>10. CASE Drops(c)
  BY <1>0, <1>10 DEF Drops
<1>11. CASE Resolve(c)
  BY <1>0, <1>11 DEF Resolve, Resolved
<1>12. CASE ResolveFails(c)
  BY <1>0, <1>12 DEF ResolveFails, Resolved
<1>13. CASE Script(c)
  BY <1>0, <1>13 DEF Script
<1>14. CASE ScriptFails(c)
  BY <1>0, <1>14 DEF ScriptFails
<1>15. CASE ScriptTimesOut(c)
  BY <1>0, <1>15 DEF ScriptTimesOut
<1> QED BY <1>1, <1>2, <1>3, <1>4, <1>5, <1>6, <1>7, <1>8, <1>9, <1>10, <1>11,
           <1>12, <1>13, <1>14, <1>15 DEF Step

(* The connection is with the call whose place says so.                    *)
LEMMA StepSessions == ASSUME IInv, NEW c \in Calls, Step(c) PROVE Sessions'
<1> USE MovesAssumption DEF IInv, Typed, Sessions, InSession, vars, mailbox, account, args,
        call, locks, Goto
<1>1. CASE SkipImap(c)
  BY <1>1 DEF SkipImap
<1>2. CASE Connect(c)
  BY <1>2 DEF Connect
<1>3. CASE Unsupported(c)
  BY <1>3 DEF Unsupported
<1>4. CASE Search(c)
  BY <1>4 DEF Search
<1>5. CASE Move(c)
  BY <1>5 DEF Move
<1>6. CASE Copy(c)
  BY <1>6 DEF Copy
<1>7. CASE Store(c)
  BY <1>7 DEF Store
<1>8. CASE Expunge(c)
  BY <1>8 DEF Expunge
<1>9. CASE Answer(c)
  BY <1>9 DEF Answer
<1>10. CASE Drops(c)
  BY <1>10 DEF Drops
<1>11. CASE Resolve(c)
  BY <1>11 DEF Resolve, Resolved
<1>12. CASE ResolveFails(c)
  BY <1>12 DEF ResolveFails, Resolved
<1>13. CASE Script(c)
  BY <1>13 DEF Script
<1>14. CASE ScriptFails(c)
  BY <1>14 DEF ScriptFails
<1>15. CASE ScriptTimesOut(c)
  BY <1>15 DEF ScriptTimesOut
<1> QED BY <1>1, <1>2, <1>3, <1>4, <1>5, <1>6, <1>7, <1>8, <1>9, <1>10, <1>11,
           <1>12, <1>13, <1>14, <1>15 DEF Step

(* Every step keeps the invariant: a call begins, ...                      *)
LEMMA OpenKeeps == ASSUME IInv, NEW c \in Calls, Open(c) PROVE IInv'
<1> PICK ids \in SUBSET Messages, kind \in Forms, source \in Boxes, destination \in Boxes :
         Begin(c, ids, kind, source, destination)
  BY DEF Open
<1>1. /\ pc[c] = "ready" /\ pc' = [pc EXCEPT ![c] = "imap"]
      /\ from' = [from EXCEPT ![c] = source] /\ to' = [to EXCEPT ![c] = destination]
      /\ UNCHANGED <<of, at, era, doomed, session, uids>>
  BY DEF Begin, Goto, mailbox, locks
<1>2. Typed'
  BY <1>1 DEF IInv, Typed, Labels
<1>3. Sessions'
  BY <1>1 DEF IInv, Sessions, Typed, InSession
<1>4. uids[c] = {}
  BY <1>1 DEF IInv, Uids, InSession
<1>5. \A d \in Calls : d # c => uids'[d] = uids[d] /\ from'[d] = from[d] /\ pc'[d] = pc[d]
  BY <1>1 DEF IInv, Typed
<1>6. pc'[c] = "imap" /\ uids'[c] = {}
  BY <1>1, <1>4 DEF IInv, Typed
<1>7. \A d \in Calls : pc'[d] \notin InSession \ {"search"} => uids'[d] = {}
  BY <1>5, <1>6 DEF IInv, Uids
<1> QED BY <1>1, <1>2, <1>3, <1>5, <1>6, <1>7, Quiet

(* ... goes on, ...                                                        *)
LEMMA StepKeeps == ASSUME IInv, NEW c \in Calls, Step(c) PROVE IInv'
<1>1. Typed' /\ Sessions'
  BY StepTyped, StepSessions
<1>2. \A d \in Calls : pc[d] \notin InSession \ {"search"} => uids[d] = {}
  BY DEF IInv, Uids
<1>3. ASSUME UNCHANGED <<of, at, era, doomed, from>>,
             \A d \in Calls \ {c} : pc'[d] = pc[d] /\ uids'[d] = uids[d],
             pc'[c] \notin {"store", "expunge"},
             pc'[c] \notin InSession \ {"search"} => uids'[c] = {},
             uids'[c] \in {uids[c], {}, Found(c)}
      PROVE  IInv'
  <2>1. \A d \in Calls :
          /\ \/ uids'[d] = {}
             \/ from'[d] = from[d] /\ (uids'[d] = uids[d] \/ uids'[d] \subseteq Found(d))
          /\ pc'[d] \notin InSession \ {"search"} => uids'[d] = {}
          /\ pc'[d] \in {"store", "expunge"} => pc'[d] = pc[d] /\ uids'[d] = uids[d]
    BY <1>2, <1>3
  <2> QED BY <1>1, <1>3, <2>1, Quiet
<1> USE DEF mailbox, account, args, call, locks, Goto, InSession
<1>4. CASE SkipImap(c)
  <2>1. /\ UNCHANGED <<of, at, era, doomed, from>>
        /\ \A d \in Calls \ {c} : pc'[d] = pc[d] /\ uids'[d] = uids[d]
        /\ pc'[c] \notin {"store", "expunge"}
        /\ pc'[c] \notin InSession \ {"search"} => uids'[c] = {}
        /\ uids'[c] \in {uids[c], {}, Found(c)}
    BY <1>2, <1>4 DEF SkipImap, IInv, Typed
  <2> QED BY <1>3, <2>1
<1>5. CASE Connect(c)
  <2>1. /\ UNCHANGED <<of, at, era, doomed, from>>
        /\ \A d \in Calls \ {c} : pc'[d] = pc[d] /\ uids'[d] = uids[d]
        /\ pc'[c] \notin {"store", "expunge"}
        /\ pc'[c] \notin InSession \ {"search"} => uids'[c] = {}
        /\ uids'[c] \in {uids[c], {}, Found(c)}
    BY <1>2, <1>5 DEF Connect, IInv, Typed
  <2> QED BY <1>3, <2>1
<1>6. CASE Unsupported(c)
  <2>1. /\ UNCHANGED <<of, at, era, doomed, from>>
        /\ \A d \in Calls \ {c} : pc'[d] = pc[d] /\ uids'[d] = uids[d]
        /\ pc'[c] \notin {"store", "expunge"}
        /\ pc'[c] \notin InSession \ {"search"} => uids'[c] = {}
        /\ uids'[c] \in {uids[c], {}, Found(c)}
    BY <1>2, <1>6 DEF Unsupported, IInv, Typed
  <2> QED BY <1>3, <2>1
<1>7. CASE Search(c)
  <2>1. /\ UNCHANGED <<of, at, era, doomed, from>>
        /\ \A d \in Calls \ {c} : pc'[d] = pc[d] /\ uids'[d] = uids[d]
        /\ pc'[c] \notin {"store", "expunge"}
        /\ pc'[c] \notin InSession \ {"search"} => uids'[c] = {}
        /\ uids'[c] \in {uids[c], {}, Found(c)}
    BY <1>2, <1>7 DEF Search, IInv, Typed
  <2> QED BY <1>3, <2>1
<1>8. CASE Move(c)
  <2>1. /\ Relocate(Valid(c), to[c]) /\ UNCHANGED <<of, doomed, from, to, uids>>
        /\ \A d \in Calls : pc'[d] = pc[d] \/ pc'[d] = "answer"
    BY <1>8 DEF Move, IInv, Typed
  <2>2. to[c] \in Boxes /\ Valid(c) \in SUBSET Copies /\ \A i \in Valid(c) : at[i] \in Boxes
    BY DEF Valid, IInv, Typed
  <2> QED BY <1>1, <2>1, <2>2, Moved
<1>9. CASE Copy(c)
  BY <1>1, <1>9, CopyStep
<1>10. CASE Store(c)
  BY <1>1, <1>10, StoreStep
<1>11. CASE Expunge(c)
  <2>1. /\ at' = [i \in Copies |-> IF i \in Valid(c) \cap doomed THEN "gone" ELSE at[i]]
        /\ UNCHANGED <<of, era, doomed, from, to, uids>>
        /\ \A d \in Calls : pc'[d] = pc[d] \/ pc'[d] = "answer"
    BY <1>11 DEF Expunge, IInv, Typed
  <2>2. \A i \in Valid(c) \cap doomed : at[i] \in Boxes
    BY DEF Valid, IInv, Typed
  <2> QED BY <1>1, <2>1, <2>2, Removed
<1>12. CASE Answer(c)
  <2>1. /\ UNCHANGED <<of, at, era, doomed, from>>
        /\ \A d \in Calls \ {c} : pc'[d] = pc[d] /\ uids'[d] = uids[d]
        /\ pc'[c] \notin {"store", "expunge"}
        /\ pc'[c] \notin InSession \ {"search"} => uids'[c] = {}
        /\ uids'[c] \in {uids[c], {}, Found(c)}
    BY <1>2, <1>12 DEF Answer, IInv, Typed
  <2> QED BY <1>3, <2>1
<1>13. CASE Drops(c)
  <2>1. /\ UNCHANGED <<of, at, era, doomed, from>>
        /\ \A d \in Calls \ {c} : pc'[d] = pc[d] /\ uids'[d] = uids[d]
        /\ pc'[c] \notin {"store", "expunge"}
        /\ pc'[c] \notin InSession \ {"search"} => uids'[c] = {}
        /\ uids'[c] \in {uids[c], {}, Found(c)}
    BY <1>2, <1>13 DEF Drops, IInv, Typed
  <2> QED BY <1>3, <2>1
<1>14. CASE Resolve(c)
  <2>1. /\ UNCHANGED <<of, at, era, doomed, from>>
        /\ \A d \in Calls \ {c} : pc'[d] = pc[d] /\ uids'[d] = uids[d]
        /\ pc'[c] \notin {"store", "expunge"}
        /\ pc'[c] \notin InSession \ {"search"} => uids'[c] = {}
        /\ uids'[c] \in {uids[c], {}, Found(c)}
    BY <1>2, <1>14 DEF Resolve, Resolved, IInv, Typed
  <2> QED BY <1>3, <2>1
<1>15. CASE ResolveFails(c)
  <2>1. /\ UNCHANGED <<of, at, era, doomed, from>>
        /\ \A d \in Calls \ {c} : pc'[d] = pc[d] /\ uids'[d] = uids[d]
        /\ pc'[c] \notin {"store", "expunge"}
        /\ pc'[c] \notin InSession \ {"search"} => uids'[c] = {}
        /\ uids'[c] \in {uids[c], {}, Found(c)}
    BY <1>2, <1>15 DEF ResolveFails, Resolved, IInv, Typed
  <2> QED BY <1>3, <2>1
<1>16. CASE Script(c)
  <2>1. /\ UNCHANGED <<of, at, era, doomed, from>>
        /\ \A d \in Calls \ {c} : pc'[d] = pc[d] /\ uids'[d] = uids[d]
        /\ pc'[c] \notin {"store", "expunge"}
        /\ pc'[c] \notin InSession \ {"search"} => uids'[c] = {}
        /\ uids'[c] \in {uids[c], {}, Found(c)}
    BY <1>2, <1>16 DEF Script, IInv, Typed
  <2> QED BY <1>3, <2>1
<1>17. CASE ScriptFails(c)
  <2>1. /\ UNCHANGED <<of, at, era, doomed, from>>
        /\ \A d \in Calls \ {c} : pc'[d] = pc[d] /\ uids'[d] = uids[d]
        /\ pc'[c] \notin {"store", "expunge"}
        /\ pc'[c] \notin InSession \ {"search"} => uids'[c] = {}
        /\ uids'[c] \in {uids[c], {}, Found(c)}
    BY <1>2, <1>17 DEF ScriptFails, IInv, Typed
  <2> QED BY <1>3, <2>1
<1>18. CASE ScriptTimesOut(c)
  <2>1. /\ UNCHANGED <<of, at, era, doomed, from>>
        /\ \A d \in Calls \ {c} : pc'[d] = pc[d] /\ uids'[d] = uids[d]
        /\ pc'[c] \notin {"store", "expunge"}
        /\ pc'[c] \notin InSession \ {"search"} => uids'[c] = {}
        /\ uids'[c] \in {uids[c], {}, Found(c)}
    BY <1>2, <1>18 DEF ScriptTimesOut, IInv, Typed
  <2> QED BY <1>3, <2>1
<1> QED BY <1>4, <1>5, <1>6, <1>7, <1>8, <1>9, <1>10, <1>11, <1>12, <1>13, <1>14,
           <1>15, <1>16, <1>17, <1>18 DEF Step

(* ... Mail works on a script, ...                                         *)
LEMMA MailKeeps == ASSUME IInv, NEW c \in Calls, MailStep(c) PROVE IInv'
<1> USE DEF mailbox, account, args, call, locks, Goto
<1>1. ASSUME UNCHANGED <<of, at, era, doomed, from, to, uids, session>>,
             pc' = pc \/ (pc[c] = "running" /\ \E l \in Ended : pc' = [pc EXCEPT ![c] = l])
      PROVE  IInv'
  <2>1. Typed' /\ Sessions'
    BY <1>1 DEF IInv, Typed, Sessions, Labels, InSession, Ended
  <2>2. \A d \in Calls : \/ pc'[d] = pc[d]
                         \/ pc[d] = "running" /\ pc'[d] \in Ended
    BY <1>1 DEF IInv, Typed
  <2>3. \A d \in Calls :
          /\ uids'[d] = uids[d] /\ from'[d] = from[d]
          /\ pc'[d] \notin InSession \ {"search"} => uids'[d] = {}
          /\ pc'[d] \in {"store", "expunge"} => pc'[d] = pc[d]
    BY <1>1, <2>2 DEF IInv, Uids, InSession, Ended
  <2> QED BY <1>1, <2>1, <2>3, Quiet
<1>2. CASE MailDone(c)
  <2>1. UNCHANGED <<of, at, era, doomed, from, to, uids, session>>
    BY <1>2 DEF MailDone
  <2>2. pc' = pc \/ (pc[c] = "running" /\ \E l \in Ended : pc' = [pc EXCEPT ![c] = l])
    BY <1>2 DEF MailDone, Ended
  <2> QED BY <1>1, <2>1, <2>2
<1>3. ASSUME NEW m \in Messages, MailIgnores(c, m) \/ MailMisses(c, m) PROVE IInv'
  BY <1>1, <1>3 DEF MailIgnores, MailMisses
<1>4. ASSUME NEW m \in Messages, MailMoves(c, m) PROVE IInv'
  <2>1. PICK i \in Copied(m, from[c]) : Relocate({i}, to[c])
    BY <1>4 DEF MailMoves
  <2>2. UNCHANGED <<of, doomed, from, to, uids, pc, session>>
    BY <1>4 DEF MailMoves
  <2>3. {i} \in SUBSET Copies /\ to[c] \in Boxes /\ at[i] \in Boxes
    BY DEF Copied, IInv, Typed
  <2>4. Typed' /\ Sessions'
    BY <2>1, <2>2, <2>3 DEF IInv, Typed, Sessions, Relocate
  <2> QED BY <2>1, <2>2, <2>3, <2>4, Moved
<1> QED BY <1>2, <1>3, <1>4 DEF MailStep

(* ... the breaker closes or another client does something, ...            *)
LEMMA OthersKeep ==
  ASSUME IInv,
         \/ BreakerCloses
         \/ \E i \in Copies : OtherExpunges(i) \/ \E box \in Boxes : OtherMoves(i, box)
  PROVE  IInv'
<1> USE DEF mailbox, account, args, call, locks
<1>1. CASE BreakerCloses
  <2>1. UNCHANGED <<of, at, era, doomed, from, to, uids, pc, session>>
    BY <1>1 DEF BreakerCloses
  <2>2. Typed' /\ Sessions'
    BY <2>1 DEF IInv, Typed, Sessions
  <2>3. \A d \in Calls : pc[d] \notin InSession \ {"search"} => uids[d] = {}
    BY DEF IInv, Uids
  <2> QED BY <2>1, <2>2, <2>3, Quiet
<1>2. ASSUME NEW i \in Copies, OtherExpunges(i) PROVE IInv'
  <2>1. /\ UNCHANGED <<of, era, doomed, from, to, uids, pc, session>>
        /\ i \in doomed /\ at[i] \in Boxes /\ at' = [at EXCEPT ![i] = "gone"]
    BY <1>2 DEF OtherExpunges
  <2>2. Typed' /\ Sessions'
    BY <2>1 DEF IInv, Typed, Sessions
  <2>3. at' = [j \in Copies |-> IF j \in {i} THEN "gone" ELSE at[j]]
    BY <2>1 DEF IInv, Typed
  <2> QED BY <2>1, <2>2, <2>3, Removed
<1>3. ASSUME NEW i \in Copies, NEW box \in Boxes, OtherMoves(i, box) PROVE IInv'
  <2>1. /\ UNCHANGED <<of, doomed, from, to, uids, pc, session>>
        /\ at[i] \in Boxes /\ Relocate({i}, box)
    BY <1>3 DEF OtherMoves
  <2>2. Typed' /\ Sessions'
    BY <2>1 DEF IInv, Typed, Sessions, Relocate
  <2> QED BY <2>1, <2>2, Moved
<1> QED BY <1>1, <1>2, <1>3

(* ... or nothing happens.                                                 *)
LEMMA StutterKeeps == IInv /\ UNCHANGED vars => IInv'
BY DEF IInv, Typed, Sessions, Uids, Flagged, Spare, Kept, Conserved,
       vars, mailbox, account, args, call, locks

(* Every step keeps the invariant.                                         *)
LEMMA StepIInv == IInv /\ [Next]_vars => IInv'
BY OpenKeeps, StepKeeps, MailKeeps, OthersKeep, StutterKeeps DEF Next

(* No message is lost: whatever fails half-way and whoever expunges what it*)
(* finds flagged, every message keeps a copy that nothing is about to      *)
(* remove (move_messages' COPY, STORE and EXPUNGE, and the fallback).      *)
THEOREM NothingLost == Spec => []Conserved
<1>1. IInv => Conserved
  BY DEF IInv
<1> QED BY <1>1, InitIInv, StepIInv, PTL DEF Spec
-------------------------------------------------------------------------------
(* That no message is doubled is not inductive either: two copies of one   *)
(* message are there between COPY and EXPUNGE, and a second session must   *)
(* not come upon them.  Sole: of any two copies of an undisturbed message, *)
(* one is under a UID which the session between STORE and EXPUNGE holds.   *)
(* Marked and Flags say that EXPUNGE removes what it holds, and that what  *)
(* another client could expunge is that, or disturbed.                     *)
Covers(c, i)  == pc[c] \in {"store", "expunge"} /\ <<i, era[i]>> \in uids[c]
Present(i, m) == of[i] = m /\ at[i] \in Boxes

Commands ==
  server # "uidplus" =>
    doomed = {} /\ \A c \in Calls : pc[c] \notin {"copy", "store", "expunge"}

Marked == \A c \in Calls : pc[c] = "expunge" => Valid(c) \subseteq doomed

Flags ==
  \A i \in doomed : at[i] \in Boxes /\ of[i] \notin disturbed =>
    \E c \in Calls : pc[c] = "expunge" /\ Covers(c, i)

Sole ==
  \A m \in Messages : server = "move" \/ m \notin disturbed =>
    \A i, j \in Copies : Present(i, m) /\ Present(j, m) =>
      i = j \/ \E c \in Calls : Covers(c, i) \/ Covers(c, j)

Alone == Commands /\ Marked /\ Flags /\ Sole

(* At first: the messages are counted out to as many copies, so that none  *)
(* gets two.                                                               *)
LEMMA InitAlone == Init => Alone /\ IsFiniteSet(Messages)
<1> SUFFICES ASSUME Init
             PROVE  Alone /\ IsFiniteSet(Messages)
  OBVIOUS
<1> DEFINE N == Cardinality(Messages)
           S == {i \in Copies : at[i] # "unmade"}
           f == [i \in S |-> of[i]]
<1>1. Copies \subseteq Nat /\ IsFiniteSet(Copies) /\ Copies = 1 .. MaxCopies
  BY MovesAssumption, FS_Interval DEF Copies
<1>2. IsFiniteSet(S)
  <2>1. S \subseteq Copies
    OBVIOUS
  <2> QED BY <1>1, <2>1, FS_Subset
<1>3. f \in Surjection(S, Messages)
  <2>1. f \in [S -> Messages]
    BY DEF Init
  <2>2. \A m \in Messages : \E i \in S : f[i] = m
    BY DEF Init
  <2> QED BY <2>1, <2>2 DEF Surjection
<1>4. IsFiniteSet(Messages) /\ N <= Cardinality(S) /\ (N = Cardinality(S) => f \in Injection(S, Messages))
  BY <1>2, <1>3, FS_Surjection
<1>5. N \in Nat /\ Cardinality(S) \in Nat
  BY <1>2, <1>4, FS_CardinalityType
<1>6. Cardinality(S) <= N
  <2>1. IsFiniteSet(1 .. N) /\ Cardinality(1 .. N) = N
    BY <1>5, FS_Interval
  <2>2. S \subseteq 1 .. N
    BY <1>1, <1>5 DEF Init
  <2> QED BY <2>1, <2>2, FS_Subset
<1>7. \A i, j \in S : of[i] = of[j] => i = j
  <2>1. f \in Injection(S, Messages)
    BY <1>4, <1>5, <1>6
  <2>2. \A i, j \in DOMAIN f : f[i] = f[j] => i = j
    BY <2>1 DEF Injection, IsInjective
  <2> QED BY <2>2
<1>8. \A m \in Messages, i, j \in Copies : Present(i, m) /\ Present(j, m) => i = j
  BY <1>7, BoxNames DEF Present
<1>9. doomed = {} /\ \A c \in Calls : pc[c] = "ready"
  BY DEF Init
<1>10. Commands /\ Marked /\ Flags /\ Sole
  BY <1>8, <1>9 DEF Commands, Marked, Flags, Sole
<1> QED BY <1>4, <1>10 DEF Alone

(* Steps that leave the mailboxes alone; a session that gives up between   *)
(* COPY and EXPUNGE disturbs what it holds.                                *)
LEMMA QuietAlone ==
  ASSUME IInv, Alone, UNCHANGED <<server, of, at, era, doomed>>, disturbed \subseteq disturbed',
         \A c \in Calls :
           /\ pc'[c] = "copy" => server = "uidplus"
           /\ \/ pc'[c] = pc[c] /\ uids'[c] = uids[c] /\ from'[c] = from[c]
              \/ /\ pc'[c] \notin {"store", "expunge"}
                 /\ pc[c] \in {"store", "expunge"} => \A u \in uids[c] : of[u[1]] \in disturbed'
  PROVE  Alone'
<1>0. Commands /\ Marked /\ Flags /\ Sole
  BY DEF Alone
<1>1. Commands' /\ Marked'
  BY <1>0 DEF Commands, Marked, Valid
<1>2. ASSUME NEW c \in Calls, NEW i \in Copies, Covers(c, i), of[i] \notin disturbed'
      PROVE  Covers(c, i)' /\ pc'[c] = pc[c]
  <2>1. <<i, era[i]>> \in uids[c] /\ pc[c] \in {"store", "expunge"}
    BY <1>2 DEF Covers
  <2>2. <<i, era[i]>>[1] = i
    OBVIOUS
  <2>3. ~ \A u \in uids[c] : of[u[1]] \in disturbed'
    BY <1>2, <2>1, <2>2
  <2> QED BY <1>2, <2>1, <2>3 DEF Covers
<1>3. Flags'
  BY <1>0, <1>2 DEF Flags, IInv, Typed
<1>4. Sole'
  <2> SUFFICES ASSUME NEW m \in Messages, server = "move" \/ m \notin disturbed',
                      NEW i \in Copies, NEW j \in Copies,
                      Present(i, m), Present(j, m), i # j
               PROVE  \E c \in Calls : Covers(c, i)' \/ Covers(c, j)'
    BY DEF Sole, Present
  <2>1. PICK c \in Calls : Covers(c, i) \/ Covers(c, j)
    BY <1>0 DEF Sole
  <2>2. m \notin disturbed'
    BY <1>0, <2>1 DEF Commands, Covers
  <2>3. of[i] = m /\ of[j] = m
    BY DEF Present
  <2> QED BY <1>2, <2>1, <2>2, <2>3
<1> QED BY <1>1, <1>3, <1>4 DEF Alone

(* A copy whose UID the session holds is disturbed when somebody moves it. *)
LEMMA MovedAlone ==
  ASSUME IInv, Alone, NEW S \in SUBSET Copies, NEW box \in Boxes,
         \A i \in S : at[i] \in Boxes, Relocate(S, box),
         UNCHANGED <<server, of, doomed, from, uids>>, disturbed \subseteq disturbed',
         \A c \in Calls : \/ pc'[c] = pc[c]
                          \/ {pc[c], pc'[c]} \cap {"copy", "store", "expunge"} = {},
         \A c \in Calls, i \in S : Covers(c, i) => of[i] \in disturbed'
  PROVE  Alone'
<1>0. Commands /\ Marked /\ Flags /\ Sole
  BY DEF Alone
<1>1. \A i \in Copies :
        /\ i \in S => at'[i] = box /\ era'[i] = era[i] + 1
        /\ i \notin S => at'[i] = at[i] /\ era'[i] = era[i]
  BY DEF Relocate
<1>2. ASSUME NEW i \in S, NEW c \in Calls
      PROVE  <<i, era'[i]>> \notin uids[c]
  <2>1. era[i] \in Nat /\ i \in Copies /\ era'[i] = era[i] + 1
    BY <1>1 DEF IInv, Typed
  <2>2. ~ (era[i] + 1 <= era[i])
    BY <2>1
  <2> QED BY <2>1, <2>2 DEF IInv, Uids
<1>3. \A c \in Calls : pc'[c] \in {"copy", "store", "expunge"} => pc'[c] = pc[c]
  OBVIOUS
<1>4. Commands'
  BY <1>0, <1>3 DEF Commands
<1>5. Marked'
  <2>1. \A c \in Calls : Valid(c)' \subseteq Valid(c)
    BY <1>1, <1>2 DEF Valid
  <2> QED BY <1>0, <1>3, <2>1 DEF Marked
<1>6. ASSUME NEW c \in Calls, NEW i \in Copies, Covers(c, i), of[i] \notin disturbed'
      PROVE  Covers(c, i)' /\ pc'[c] = pc[c]
  <2>1. i \notin S /\ pc'[c] = pc[c]
    BY <1>6 DEF Covers
  <2> QED BY <1>1, <1>6, <2>1 DEF Covers
<1>7. \A i \in Copies : at'[i] \in Boxes => at[i] \in Boxes
  BY <1>1
<1>8. Flags'
  BY <1>0, <1>6, <1>7 DEF Flags, IInv, Typed
<1>9. Sole'
  <2> SUFFICES ASSUME NEW m \in Messages, server = "move" \/ m \notin disturbed',
                      NEW i \in Copies, NEW j \in Copies,
                      Present(i, m)', Present(j, m)', i # j
               PROVE  \E c \in Calls : Covers(c, i)' \/ Covers(c, j)'
    BY DEF Sole
  <2>1. Present(i, m) /\ Present(j, m) /\ of[i] = m /\ of[j] = m
    BY <1>7 DEF Present
  <2>2. PICK c \in Calls : Covers(c, i) \/ Covers(c, j)
    BY <1>0, <2>1 DEF Sole
  <2>3. m \notin disturbed'
    BY <1>0, <2>2 DEF Commands, Covers
  <2> QED BY <1>6, <2>1, <2>2, <2>3
<1> QED BY <1>4, <1>5, <1>8, <1>9 DEF Alone

(* Flagged copies are expunged: all that a session holds, or some by others*)
LEMMA RemovedAlone ==
  ASSUME IInv, Alone, NEW S \in SUBSET doomed,
         at' = [i \in Copies |-> IF i \in S THEN "gone" ELSE at[i]],
         UNCHANGED <<server, of, era, doomed, from, uids, disturbed>>,
         \A c \in Calls :
           \/ pc'[c] = pc[c]
           \/ pc[c] = "expunge" /\ pc'[c] = "answer" /\ Valid(c) \cap doomed \subseteq S
  PROVE  Alone'
<1>0. Commands /\ Marked /\ Flags /\ Sole
  BY DEF Alone
<1>1. \A i \in Copies : at'[i] \in Boxes => at[i] \in Boxes /\ i \notin S
  BY BoxNames
<1>2. \A c \in Calls : pc'[c] \in {"copy", "store", "expunge"} => pc'[c] = pc[c]
  OBVIOUS
<1>3. ASSUME NEW c \in Calls, NEW i \in Copies, at'[i] \in Boxes, Covers(c, i)
      PROVE  Covers(c, i)' /\ pc'[c] = pc[c]
  <2>1. i \in Valid(c)
    BY <1>1, <1>3, BoxNames DEF Covers, IInv, Uids, Typed, Valid
  <2>2. pc[c] = "expunge" => i \in doomed
    BY <1>0, <2>1 DEF Marked
  <2>3. pc'[c] = pc[c]
    BY <1>1, <1>3, <2>1, <2>2
  <2> QED BY <1>3, <2>3 DEF Covers
<1>4. Commands' /\ Marked'
  BY <1>0, <1>2, BoxNames DEF Commands, Marked, Valid, IInv, Typed
<1>5. Flags'
  BY <1>0, <1>1, <1>3 DEF Flags, IInv, Typed
<1>6. Sole'
  BY <1>0, <1>1, <1>3 DEF Sole, Present
<1> QED BY <1>4, <1>5, <1>6 DEF Alone

(* STORE flags what the session holds.                                     *)
LEMMA StoreAlone == ASSUME IInv, Alone, NEW c \in Calls, Store(c) PROVE Alone'
<1>0. Commands /\ Marked /\ Flags /\ Sole /\ Typed /\ Sessions /\ Uids
  BY DEF Alone, IInv
<1>1. /\ pc[c] = "store" /\ pc' = [pc EXCEPT ![c] = "expunge"]
      /\ doomed' = doomed \cup Valid(c)
      /\ UNCHANGED <<server, of, at, era, from, uids, disturbed>>
  BY DEF Store, Goto, mailbox, call, args, account
<1>2. \A d \in Calls : d # c => pc'[d] = pc[d] /\ pc[d] \notin {"copy", "store", "expunge"}
  BY <1>0, <1>1 DEF Sessions, InSession, Typed
<1>3. pc'[c] = "expunge" /\ server = "uidplus"
  BY <1>0, <1>1 DEF Typed, Commands
<1>4. \A d \in Calls, i \in Copies : Covers(d, i) => Covers(d, i)'
  BY <1>1, <1>2, <1>3 DEF Covers
<1>5. Commands' /\ Marked'
  BY <1>1, <1>2, <1>3 DEF Commands, Marked, Valid
<1>6. Flags'
  <2>1. \A i \in Valid(c) : Covers(c, i)'
    BY <1>1, <1>3 DEF Covers, Valid
  <2>2. \A i \in doomed : i \in Copies
    BY <1>0 DEF Typed
  <2>3. \A d \in Calls : pc[d] = "expunge" => d # c
    BY <1>1
  <2> QED BY <1>0, <1>1, <1>2, <1>3, <2>1, <2>2, <2>3 DEF Flags
<1>7. Sole'
  BY <1>0, <1>1, <1>4 DEF Sole, Present
<1> QED BY <1>5, <1>6, <1>7 DEF Alone
(* COPY: each copy that was made is of one that was found.                 *)
LEMMA CopyMakes ==
  ASSUME NEW c \in Calls, Copy(c)
  PROVE  \E made \in SUBSET {i \in Copies : at[i] = "unmade"} : \E old \in [made -> Valid(c)] :
           /\ \A m, n \in made : old[m] = old[n] => m = n
           /\ of' = [n \in Copies |-> IF n \in made THEN of[old[n]] ELSE of[n]]
           /\ at' = [n \in Copies |-> IF n \in made THEN to[c] ELSE at[n]]
           /\ doomed' = doomed \cup {n \in made : old[n] \in doomed}
<1> PICK new \in [Valid(c) -> {i \in Copies : at[i] = "unmade"}] :
         LET made == {new[i] : i \in Valid(c)}
             origin(n) == CHOOSE i \in Valid(c) : new[i] = n IN
         /\ of' = [n \in Copies |-> IF n \in made THEN of[origin(n)] ELSE of[n]]
         /\ at' = [n \in Copies |-> IF n \in made THEN to[c] ELSE at[n]]
         /\ doomed' = doomed \cup {n \in made : origin(n) \in doomed}
  BY DEF Copy
<1> DEFINE made      == {new[i] : i \in Valid(c)}
           origin(n) == CHOOSE i \in Valid(c) : new[i] = n
           old       == [n \in made |-> origin(n)]
<1>1. /\ of' = [n \in Copies |-> IF n \in made THEN of[origin(n)] ELSE of[n]]
      /\ at' = [n \in Copies |-> IF n \in made THEN to[c] ELSE at[n]]
      /\ doomed' = doomed \cup {n \in made : origin(n) \in doomed}
  OBVIOUS
<1>2. made \in SUBSET {i \in Copies : at[i] = "unmade"}
  OBVIOUS
<1>3. \A n \in made : origin(n) \in Valid(c) /\ new[origin(n)] = n
  OBVIOUS
<1> HIDE DEF made, origin
<1>4. old \in [made -> Valid(c)] /\ \A n \in made : old[n] = origin(n) /\ new[old[n]] = n
  BY <1>3
<1> HIDE DEF old
<1>5. of' = [n \in Copies |-> IF n \in made THEN of[old[n]] ELSE of[n]]
  BY <1>1, <1>4
<1>6. doomed' = doomed \cup {n \in made : old[n] \in doomed}
  BY <1>1, <1>4
<1>7. \A m, n \in made : old[m] = old[n] => m = n
  BY <1>4
<1> HIDE DEF made, old
<1>8. \E o \in [made -> Valid(c)] :
        /\ \A m, n \in made : o[m] = o[n] => m = n
        /\ of' = [n \in Copies |-> IF n \in made THEN of[o[n]] ELSE of[n]]
        /\ at' = [n \in Copies |-> IF n \in made THEN to[c] ELSE at[n]]
        /\ doomed' = doomed \cup {n \in made : o[n] \in doomed}
  BY <1>1, <1>4, <1>5, <1>6, <1>7
<1> QED BY <1>2, <1>8

(* The session finds one copy of each message, and holds it.               *)
LEMMA CopyAlone == ASSUME IInv, Alone, NEW c \in Calls, Copy(c) PROVE Alone'
<1>0. Commands /\ Marked /\ Flags /\ Sole /\ Typed /\ Sessions /\ Uids
  BY DEF Alone, IInv
<1>1. /\ pc[c] = "copy" /\ pc' = [pc EXCEPT ![c] = "store"]
      /\ UNCHANGED <<server, era, from, uids, disturbed>>
  BY DEF Copy, Goto, call, args, account
<1> PICK made \in SUBSET {i \in Copies : at[i] = "unmade"} : \E old \in [made -> Valid(c)] :
         /\ \A m, n \in made : old[m] = old[n] => m = n
         /\ of' = [n \in Copies |-> IF n \in made THEN of[old[n]] ELSE of[n]]
         /\ at' = [n \in Copies |-> IF n \in made THEN to[c] ELSE at[n]]
         /\ doomed' = doomed \cup {n \in made : old[n] \in doomed}
  BY CopyMakes
<1> PICK old \in [made -> Valid(c)] :
         /\ \A m, n \in made : old[m] = old[n] => m = n
         /\ of' = [n \in Copies |-> IF n \in made THEN of[old[n]] ELSE of[n]]
         /\ at' = [n \in Copies |-> IF n \in made THEN to[c] ELSE at[n]]
         /\ doomed' = doomed \cup {n \in made : old[n] \in doomed}
  OBVIOUS
<1>2. \A d \in Calls : d # c => pc'[d] = pc[d] /\ pc[d] \notin {"copy", "store", "expunge"}
  BY <1>0, <1>1 DEF Sessions, InSession, Typed
<1>3. pc'[c] = "store" /\ server = "uidplus"
  BY <1>0, <1>1 DEF Typed, Commands
<1>4. \A d \in Calls, i \in Copies : ~ Covers(d, i)
  BY <1>1, <1>2 DEF Covers
<1>5. Commands' /\ Marked'
  BY <1>1, <1>2, <1>3 DEF Commands, Marked
<1>6. \A n \in made : /\ n \in Copies /\ at[n] = "unmade" /\ n \notin doomed
                      /\ of'[n] = of[old[n]] /\ old[n] \in Valid(c) /\ old[n] \notin made
                      /\ old[n] \in Copies /\ at[old[n]] \in Boxes
  BY <1>0, BoxNames DEF Flagged, Valid, Typed, IInv
<1>7. \A n \in Copies : n \notin made => of'[n] = of[n] /\ at'[n] = at[n]
  OBVIOUS
<1>8. Flags'
  <2>1. \A i \in doomed : at[i] \in Boxes => of[i] \in disturbed
    BY <1>0, <1>4 DEF Flags, Typed
  <2>2. \A i \in doomed' : at'[i] \in Boxes => of'[i] \in disturbed
    BY <1>0, <1>6, <1>7, <2>1 DEF Typed
  <2> QED BY <1>1, <2>2 DEF Flags
<1>9. Sole'
  <2> SUFFICES ASSUME NEW m \in Messages, m \notin disturbed,
                      NEW i \in Copies, NEW j \in Copies,
                      Present(i, m)', Present(j, m)', i # j
               PROVE  Covers(c, i)' \/ Covers(c, j)'
    BY <1>1, <1>3 DEF Sole
  <2>1. \A k, l \in Copies : Present(k, m) /\ Present(l, m) => k = l
    BY <1>0, <1>4 DEF Sole
  <2>2. \A n \in made : Present(n, m)' => Present(old[n], m) /\ Covers(c, old[n])'
    BY <1>1, <1>3, <1>6 DEF Present, Covers, Valid
  <2>3. \A n \in Copies \ made : Present(n, m)' => Present(n, m)
    BY <1>7 DEF Present
  <2>4. CASE i \in made /\ j \in made
    BY <1>6, <2>1, <2>2, <2>4
  <2>5. CASE i \in made /\ j \notin made
    BY <1>6, <2>1, <2>2, <2>3, <2>5
  <2>6. CASE i \notin made /\ j \in made
    BY <1>6, <2>1, <2>2, <2>3, <2>6
  <2>7. CASE i \notin made /\ j \notin made
    BY <2>1, <2>3, <2>7
  <2> QED BY <2>4, <2>5, <2>6, <2>7
<1> QED BY <1>5, <1>8, <1>9 DEF Alone

(* A copy that is moved under the session which holds it is disturbed.     *)
LEMMA DisturbCovers ==
  ASSUME NEW i \in Copies, Disturb(i)
  PROVE  disturbed \subseteq disturbed' /\ \A c \in Calls : Covers(c, i) => of[i] \in disturbed'
BY DEF Disturb, Covers, InSession

(* Every step keeps the account of copies.                                 *)
LEMMA StepAlone == ASSUME IInv, Alone, [Next]_vars PROVE Alone'
<1>0. Typed /\ Sessions /\ Uids /\ Commands /\ Marked
  BY DEF IInv, Alone
<1> USE DEF mailbox, account, args, call, locks, Goto
<1>1. ASSUME NEW c \in Calls, Open(c)
      PROVE  Alone'
  <2> PICK ids \in SUBSET Messages, kind \in Forms, source \in Boxes, destination \in Boxes :
           Begin(c, ids, kind, source, destination)
    BY <1>1 DEF Open
  <2>1. /\ UNCHANGED <<server, of, at, era, doomed, disturbed, uids>>
        /\ pc[c] = "ready" /\ pc'[c] = "imap"
        /\ \A d \in Calls : d # c => pc'[d] = pc[d] /\ from'[d] = from[d]
    BY <1>0 DEF Begin, Typed
  <2> QED BY <1>0, <2>1, QuietAlone DEF Commands
<1>2. ASSUME NEW c \in Calls,
             SkipImap(c) \/ Connect(c) \/ Unsupported(c) \/ Script(c) \/ ScriptFails(c)
               \/ ScriptTimesOut(c)
      PROVE  Alone'
  <2>1. /\ UNCHANGED <<server, of, at, era, doomed, disturbed, uids, from>>
        /\ pc[c] \notin {"copy", "store", "expunge"}
        /\ \E l \in {"search", "resolve", "running", "failed"} : pc' = [pc EXCEPT ![c] = l]
    BY <1>2 DEF SkipImap, Connect, Unsupported, Script, ScriptFails, ScriptTimesOut
  <2>2. /\ pc'[c] \in {"search", "resolve", "running", "failed"}
        /\ \A d \in Calls : d # c => pc'[d] = pc[d]
    BY <1>0, <2>1 DEF Typed
  <2> QED BY <1>0, <2>1, <2>2, QuietAlone DEF Commands
<1>3. ASSUME NEW c \in Calls, Search(c)
      PROVE  Alone'
  <2>1. /\ UNCHANGED <<server, of, at, era, doomed, disturbed, from>>
        /\ pc[c] = "search" /\ server \in {"uidplus", "move"}
        /\ \A d \in Calls : d # c => pc'[d] = pc[d] /\ uids'[d] = uids[d]
    BY <1>0, <1>3 DEF Search, Typed
  <2>2. pc'[c] \in {"ok", "move", "copy"} /\ (pc'[c] = "copy" => server = "uidplus")
    BY <1>0, <1>3, <2>1 DEF Search, Typed
  <2>3. \A d \in Calls : pc[d] = "copy" => server = "uidplus"
    BY <1>0 DEF Commands
  <2> QED BY <2>1, <2>2, <2>3, QuietAlone
<1>4. ASSUME NEW c \in Calls, Move(c)
      PROVE  Alone'
  <2>1. /\ Relocate(Valid(c), to[c]) /\ UNCHANGED <<server, of, doomed, from, uids, disturbed>>
        /\ \A d \in Calls : pc'[d] = pc[d] \/ (pc[d] = "move" /\ pc'[d] = "answer")
    BY <1>0, <1>4 DEF Move, Typed
  <2>2. \A d \in Calls, i \in Copies : ~ Covers(d, i)
    BY <1>0, <1>4 DEF Move, Covers, Sessions, InSession
  <2>3. to[c] \in Boxes /\ Valid(c) \in SUBSET Copies /\ \A i \in Valid(c) : at[i] \in Boxes
    BY <1>0 DEF Valid, Typed
  <2>4. \A d \in Calls : \/ pc'[d] = pc[d]
                         \/ {pc[d], pc'[d]} \cap {"copy", "store", "expunge"} = {}
    BY <2>1
  <2> QED BY <2>1, <2>2, <2>3, <2>4, MovedAlone
<1>5. ASSUME NEW c \in Calls, Copy(c)
      PROVE  Alone'
  BY <1>5, CopyAlone
<1>6. ASSUME NEW c \in Calls, Store(c)
      PROVE  Alone'
  BY <1>6, StoreAlone
<1>7. ASSUME NEW c \in Calls, Expunge(c)
      PROVE  Alone'
  <2>1. /\ at' = [i \in Copies |-> IF i \in Valid(c) \cap doomed THEN "gone" ELSE at[i]]
        /\ UNCHANGED <<server, of, era, doomed, from, uids, disturbed>>
        /\ pc[c] = "expunge"
        /\ \A d \in Calls : pc'[d] = pc[d] \/ (d = c /\ pc'[d] = "answer")
    BY <1>0, <1>7 DEF Expunge, Typed
  <2> QED BY <2>1, RemovedAlone
<1>8. ASSUME NEW c \in Calls, Answer(c)
      PROVE  Alone'
  <2>1. /\ UNCHANGED <<server, of, at, era, doomed, disturbed, from>>
        /\ pc[c] = "answer" /\ pc'[c] = "ok"
        /\ \A d \in Calls : d # c => pc'[d] = pc[d] /\ uids'[d] = uids[d]
    BY <1>0, <1>8 DEF Answer, Typed
  <2> QED BY <1>0, <2>1, QuietAlone DEF Commands
<1>9. ASSUME NEW c \in Calls, Drops(c)
      PROVE  Alone'
  <2>1. /\ UNCHANGED <<server, of, at, era, doomed, from>> /\ disturbed \subseteq disturbed'
        /\ pc[c] \in {"store", "expunge"} => \A u \in uids[c] : of[u[1]] \in disturbed'
        /\ pc'[c] = "resolve"
        /\ \A d \in Calls : d # c => pc'[d] = pc[d] /\ uids'[d] = uids[d]
    BY <1>0, <1>9 DEF Drops, Typed
  <2> QED BY <1>0, <2>1, QuietAlone DEF Commands
<1>10. ASSUME NEW c \in Calls, Resolve(c) \/ ResolveFails(c)
       PROVE  Alone'
  <2>1. /\ UNCHANGED <<server, of, at, era, doomed, disturbed, uids, from>>
        /\ pc[c] = "resolve"
        /\ \E l \in {"incomplete", "script"} : pc' = [pc EXCEPT ![c] = l]
    BY <1>10 DEF Resolve, ResolveFails, Resolved
  <2> QED BY <1>0, <2>1, QuietAlone DEF Typed, Commands
<1>11. ASSUME NEW c \in Calls, MailDone(c)
       PROVE  Alone'
  <2>1. /\ UNCHANGED <<server, of, at, era, doomed, disturbed, uids, from>>
        /\ \A d \in Calls :
             \/ pc'[d] = pc[d]
             \/ pc[d] = "running" /\ pc'[d] \in {"imapRequired", "ok"}
    BY <1>0, <1>11 DEF MailDone, Typed
  <2> QED BY <1>0, <2>1, QuietAlone DEF Commands
<1>12. ASSUME NEW c \in Calls, NEW m \in Messages, MailIgnores(c, m) \/ MailMisses(c, m)
       PROVE  Alone'
  <2>1. UNCHANGED <<server, of, at, era, doomed, disturbed, uids, from, pc>>
    BY <1>12 DEF MailIgnores, MailMisses
  <2> QED BY <1>0, <2>1, QuietAlone DEF Commands
<1>13. ASSUME NEW c \in Calls, NEW m \in Messages, MailMoves(c, m)
       PROVE  Alone'
  <2>1. PICK i \in Copied(m, from[c]) : Relocate({i}, to[c]) /\ Disturb(i)
    BY <1>13 DEF MailMoves
  <2>2. UNCHANGED <<server, of, doomed, from, uids, pc>>
    BY <1>13 DEF MailMoves
  <2>3. i \in Copies /\ {i} \in SUBSET Copies /\ to[c] \in Boxes /\ at[i] \in Boxes
    BY <1>0 DEF Copied, Typed
  <2> QED BY <2>1, <2>2, <2>3, DisturbCovers, MovedAlone
<1>14. ASSUME NEW i \in Copies, NEW box \in Boxes, OtherMoves(i, box)
       PROVE  Alone'
  <2>1. /\ UNCHANGED <<server, of, doomed, from, uids, pc>>
        /\ at[i] \in Boxes /\ Relocate({i}, box) /\ Disturb(i)
    BY <1>14 DEF OtherMoves
  <2> QED BY <2>1, DisturbCovers, MovedAlone
<1>15. ASSUME NEW i \in Copies, OtherExpunges(i)
       PROVE  Alone'
  <2>1. /\ UNCHANGED <<server, of, era, doomed, from, uids, pc, disturbed>>
        /\ i \in doomed /\ at' = [at EXCEPT ![i] = "gone"]
    BY <1>15 DEF OtherExpunges
  <2>2. at' = [j \in Copies |-> IF j \in {i} THEN "gone" ELSE at[j]]
    BY <1>0, <2>1 DEF Typed
  <2> QED BY <2>1, <2>2, RemovedAlone
<1>16. CASE BreakerCloses \/ UNCHANGED vars
  <2>1. UNCHANGED <<server, of, at, era, doomed, disturbed, uids, from, pc>>
    BY <1>16 DEF BreakerCloses, vars
  <2> QED BY <1>0, <2>1, QuietAlone DEF Commands
<1>17. ASSUME NEW c \in Calls, Step(c) \/ MailStep(c)
       PROVE  Alone'
  BY <1>2, <1>3, <1>4, <1>5, <1>6, <1>7, <1>8, <1>9, <1>10, <1>11, <1>12, <1>13, <1>17, Zenon
  DEF Step, MailStep
<1> QED BY <1>1, <1>14, <1>15, <1>16, <1>17 DEF Next

(* No message is doubled by the fallback, a retry, or a script that Mail   *)
(* finishes after its call has failed (move_messages, update_message),     *)
(* unless it is between COPY and EXPUNGE, was left there, or was moved by  *)
(* somebody else while a session had its UID.                              *)
THEOREM NoneDoubled == Spec => []OneCopy
<1>1. IInv /\ Alone => OneCopy
  <2> SUFFICES ASSUME IInv, Alone, NEW m \in Messages,
                      server = "move" \/ ~ (m \in disturbed \/ Midway(m))
               PROVE  Cardinality({i \in Copies : of[i] = m /\ at[i] \in Boxes}) = 1
    BY DEF OneCopy
  <2>1. PICK k \in Copies : Present(k, m)
    BY DEF IInv, Conserved, Present
  <2>2. ASSUME NEW i \in Copies, Present(i, m)
        PROVE  i = k
    <3> SUFFICES ASSUME NEW c \in Calls, NEW j \in {i, k}, Covers(c, j)
                 PROVE  FALSE
      BY <2>1, <2>2 DEF Alone, Sole
    <3>1. pc[c] \in {"store", "expunge"} /\ <<j, era[j]>> \in uids[c] /\ of[<<j, era[j]>>[1]] = m
      BY <2>1, <2>2 DEF Covers, Present
    <3>2. Midway(m)
      BY <3>1 DEF Midway
    <3>3. server # "move"
      BY <3>1 DEF Alone, Commands
    <3> QED BY <3>2, <3>3
  <2>3. {i \in Copies : of[i] = m /\ at[i] \in Boxes} = {k}
    BY <2>1, <2>2 DEF Present
  <2> QED BY <2>3, FS_Singleton
<1>2. IInv /\ Alone /\ [Next]_vars => IInv' /\ Alone'
  BY StepIInv, StepAlone
<1>3. Init => IInv /\ Alone
  BY InitIInv, InitAlone
<1> QED BY <1>1, <1>2, <1>3, PTL DEF Spec
-------------------------------------------------------------------------------
(* The count.  A session finds the messages it was asked for, each once,   *)
(* and when nobody has disturbed one of them it reaches all it found, so   *)
(* that the number of UIDs is the number of messages moved.  A script      *)
(* counts each message as it arrives, and no message twice (todo).         *)
Calm(c) == want[c] \cap disturbed = {}
Early   == {"ready", "imap", "resolve"} \cup InSession

Books ==
  /\ IsFiniteSet(Messages) /\ \A c \in Calls : IsFiniteSet(uids[c])
  /\ want \in [Calls -> SUBSET Messages] /\ todo \in [Calls -> SUBSET Messages]
  /\ tally \in [Calls -> Nat] /\ arrived \in [Calls -> SUBSET Messages]

Sought(c) ==
  /\ \A u \in uids[c] : of[u[1]] \in want[c]
  /\ Calm(c) => \A u, v \in uids[c] : of[u[1]] = of[v[1]] => u = v
  /\ Calm(c) /\ pc[c] \in {"move", "copy"} => \A u \in uids[c] : u[1] \in Valid(c)
  /\ Calm(c) /\ pc[c] \in {"store", "expunge", "answer"} => \A u \in uids[c] : of[u[1]] \in arrived[c]

Counts(c) ==
  /\ pc[c] \in Early => todo[c] = {} /\ tally[c] = 0
  /\ Calm(c) => tally[c] <= Cardinality(arrived[c] \ todo[c])

Counted == Books /\ \A c \in Calls : Sought(c) /\ Counts(c)

(* Sets of messages are finite.                                            *)
LEMMA Few ==
  ASSUME IsFiniteSet(Messages), NEW S \in SUBSET Messages
  PROVE  IsFiniteSet(S) /\ Cardinality(S) \in Nat
BY FS_Subset, FS_CardinalityType

(* At first nothing has been found or counted.                             *)
LEMMA InitCounted == ASSUME Init PROVE Counted
<1>1. IsFiniteSet(Messages) /\ IsFiniteSet({}) /\ Cardinality({}) = 0
  BY InitAlone, FS_EmptySet
<1>2. Books
  BY <1>1 DEF Init, Books
<1>3. \A c \in Calls : Sought(c) /\ Counts(c)
  <2> TAKE c \in Calls
  <2>1. /\ uids[c] = {} /\ todo[c] = {} /\ tally[c] = 0 /\ arrived[c] = {}
    BY DEF Init
  <2>2. arrived[c] \ todo[c] = {}
    BY <2>1
  <2> QED BY <1>1, <2>1, <2>2 DEF Sought, Counts
<1> QED BY <1>2, <1>3 DEF Counted

(* A call that a step is not about.                                        *)
LEMMA OtherCall ==
  ASSUME NEW d \in Calls, Sought(d), Counts(d), disturbed \subseteq disturbed',
         want'[d] = want[d], uids'[d] = uids[d], pc'[d] = pc[d],
         todo'[d] = todo[d], tally'[d] = tally[d], arrived'[d] = arrived[d],
         \A u \in uids[d] : of'[u[1]] = of[u[1]],
         Calm(d)' /\ pc[d] \in {"move", "copy"} => Valid(d) \subseteq Valid(d)'
  PROVE  Sought(d)' /\ Counts(d)'
<1>1. Calm(d)' => Calm(d)
  BY DEF Calm
<1>2. Sought(d)'
  BY <1>1 DEF Sought
<1>3. Counts(d)'
  BY <1>1 DEF Counts
<1> QED BY <1>2, <1>3

(* A call that goes on without UIDs and without moving anything.           *)
LEMMA OwnCall ==
  ASSUME Books, NEW c \in Calls, Counts(c), disturbed \subseteq disturbed', uids'[c] = {},
         tally'[c] = tally[c], arrived'[c] = arrived[c],
         todo'[c] = todo[c] \/ (todo'[c] \subseteq Messages /\ pc'[c] \notin Early),
         pc[c] \in Early \/ (want'[c] = want[c] /\ pc'[c] \notin Early /\ todo'[c] = todo[c])
  PROVE  Sought(c)' /\ Counts(c)'
<1>1. Sought(c)'
  BY DEF Sought
<1>2. CASE pc[c] \in Early
  <2>1. tally'[c] = 0 /\ arrived'[c] \in SUBSET Messages
    BY <1>2 DEF Counts, Books
  <2>2. (arrived[c] \ todo[c])' \in SUBSET Messages
    BY <2>1
  <2>3. Cardinality((arrived[c] \ todo[c])') \in Nat
    BY <2>2, Few DEF Books
  <2> QED BY <1>1, <1>2, <2>1, <2>3 DEF Counts
<1>3. CASE pc[c] \notin Early
  <2>1. Calm(c)' => Calm(c)
    BY <1>3 DEF Calm
  <2> QED BY <1>1, <1>3, <2>1 DEF Counts
<1> QED BY <1>2, <1>3

(* What a search finds is what was asked for, and no message twice.        *)
LEMMA SearchCounts ==
  ASSUME IInv, Alone, Books, NEW c \in Calls, Sought(c), Counts(c), Search(c)
  PROVE  Sought(c)' /\ Counts(c)' /\ IsFiniteSet(uids'[c])
<1>0. Typed /\ Sessions /\ Uids /\ Sole
  BY DEF IInv, Alone
<1>1. /\ pc[c] = "search" /\ uids'[c] = Found(c) /\ pc'[c] \in {"ok", "move", "copy"}
      /\ pc'[c] = "ok" => Found(c) = {}
      /\ UNCHANGED <<of, at, era, disturbed, from, want, todo, tally, arrived>>
  BY <1>0 DEF Search, mailbox, args, Typed, Goto
<1>2. \A u \in Found(c) : /\ u[1] \in Copies /\ of[u[1]] \in want[c] /\ at[u[1]] = from[c]
                          /\ u = <<u[1], era[u[1]]>>
  BY DEF Found
<1>3. \A d \in Calls, i \in Copies : ~ Covers(d, i)
  BY <1>0, <1>1 DEF Covers, Sessions, InSession
<1>4. ASSUME Calm(c), NEW u \in Found(c), NEW v \in Found(c), of[u[1]] = of[v[1]]
      PROVE  u = v
  <2> DEFINE m == of[u[1]]
  <2>1. m \in Messages /\ m \notin disturbed
    BY <1>0, <1>2, <1>4 DEF Calm, Typed
  <2>2. Present(u[1], m) /\ Present(v[1], m)
    BY <1>0, <1>2, <1>4 DEF Present, Typed
  <2>3. u[1] = v[1]
    BY <1>0, <1>2, <1>3, <2>1, <2>2 DEF Sole
  <2> QED BY <1>2, <2>3
<1>5. Sought(c)'
  <2>1. \A u \in Found(c) : u[1] \in Valid(c)'
    BY <1>1, <1>2 DEF Valid
  <2> QED BY <1>1, <1>2, <1>4, <2>1 DEF Sought, Calm
<1>6. Counts(c)'
  BY <1>1 DEF Counts, Calm, Early, InSession
<1>7. IsFiniteSet(uids'[c])
  <2> DEFINE T == {j \in Copies : form[c] = "rfc" /\ of[j] \in want[c] /\ at[j] = from[c]}
             f == [j \in T |-> <<j, era[j]>>]
  <2>1. f \in Surjection(T, Found(c))
    BY DEF Found, Surjection
  <2>2. IsFiniteSet(Copies) /\ T \in SUBSET Copies
    BY MovesAssumption, FS_Interval DEF Copies
  <2>3. IsFiniteSet(T)
    BY <2>2, FS_Subset
  <2> QED BY <1>1, <2>1, <2>3, FS_Surjection
<1> QED BY <1>5, <1>6, <1>7

(* MOVE and COPY reach every message that was found, if it is undisturbed. *)
LEMMA ArriveCounts ==
  ASSUME Books, IInv, NEW c \in Calls, Sought(c), Counts(c), pc[c] \in {"move", "copy"},
         Arrive(c, Valid(c)), pc'[c] \in {"store", "answer"},
         UNCHANGED <<disturbed, uids, want, todo, tally>>,
         \A u \in uids[c] : of'[u[1]] = of[u[1]]
  PROVE  Sought(c)' /\ Counts(c)'
<1>1. arrived'[c] = arrived[c] \cup {of[i] : i \in Valid(c)}
  BY DEF Arrive, Books
<1>2. Sought(c)'
  BY <1>1 DEF Sought, Calm
<1>3. todo[c] = {} /\ tally[c] = 0
  BY DEF Counts, Early, InSession
<1>4. Cardinality((arrived[c] \ todo[c])') \in Nat
  <2>1. \A i \in Valid(c) : of[i] \in Messages
    BY DEF IInv, Typed, Valid
  <2>2. arrived'[c] \in SUBSET Messages
    BY <1>1, <2>1 DEF Books
  <2>3. (arrived[c] \ todo[c])' \in SUBSET Messages
    BY <2>2
  <2> QED BY <2>3, Few DEF Books
<1> QED BY <1>2, <1>3, <1>4 DEF Counts

(* The answer counts the UIDs, and each is of another message that arrived.*)
LEMMA AnswerCounts ==
  ASSUME IInv, Books, NEW c \in Calls, Sought(c), Counts(c), Answer(c)
  PROVE  Sought(c)' /\ Counts(c)' /\ tally'[c] \in Nat
<1>1. /\ pc[c] = "answer" /\ uids'[c] = {} /\ tally'[c] = Cardinality(uids[c])
      /\ UNCHANGED <<disturbed, want, todo, arrived>>
  BY DEF Answer, args, Books, IInv, Typed
<1>2. pc'[c] \notin Early
  BY DEF Answer, Goto, Early, InSession, IInv, Typed
<1>3. tally'[c] \in Nat
  BY <1>1, FS_CardinalityType DEF Books
<1>4. Calm(c) => Cardinality(uids[c]) <= Cardinality(arrived[c])
  <2> SUFFICES ASSUME Calm(c)
               PROVE  Cardinality(uids[c]) <= Cardinality(arrived[c])
    OBVIOUS
  <2> DEFINE f == [u \in uids[c] |-> of[u[1]]]
  <2>1. f \in [uids[c] -> arrived[c]]
    BY <1>1 DEF Sought
  <2>2. \A u, v \in uids[c] : f[u] = f[v] => u = v
    BY DEF Sought
  <2>3. f \in Injection(uids[c], arrived[c])
    BY <2>1, <2>2 DEF Injection, IsInjective
  <2>4. IsFiniteSet(arrived[c])
    BY Few DEF Books
  <2> QED BY <2>3, <2>4, FS_Injection
<1>5. todo[c] = {}
  BY <1>1 DEF Counts, Early, InSession
<1>6. (arrived[c] \ todo[c])' = arrived[c]
  BY <1>1, <1>5
<1>7. Calm(c)' => tally'[c] <= Cardinality((arrived[c] \ todo[c])')
  BY <1>1, <1>4, <1>6 DEF Calm
<1> QED BY <1>1, <1>2, <1>3, <1>7 DEF Sought, Counts

(* One more message, counted or not.                                       *)
LEMMA OneMore ==
  ASSUME NEW A, IsFiniteSet(A), NEW m, m \notin A, NEW n \in Nat, n <= Cardinality(A)
  PROVE  n <= Cardinality(A \cup {m}) /\ n + 1 <= Cardinality(A \cup {m})
<1>1. Cardinality(A \cup {m}) = Cardinality(A) + 1
  BY FS_AddElement
<1>2. Cardinality(A) \in Nat
  BY FS_CardinalityType
<1> QED BY <1>1, <1>2

(* A script counts a message once it has left, and has it no longer to do. *)
LEMMA MailCounts ==
  ASSUME Books, IInv, NEW c \in Calls, NEW m \in todo[c], Sought(c), Counts(c),
         todo'[c] = todo[c] \ {m},
         \/ tally'[c] = tally[c] /\ arrived'[c] = arrived[c]
         \/ tally'[c] = tally[c] + 1 /\ arrived'[c] = arrived[c] \cup {m},
         disturbed \subseteq disturbed', UNCHANGED <<want, uids, pc>>
  PROVE  Sought(c)' /\ Counts(c)'
<1>1. pc[c] \notin Early
  BY DEF Counts
<1>2. uids[c] = {}
  BY <1>1 DEF IInv, Uids, Early, InSession
<1>3. ASSUME Calm(c)'
      PROVE  tally'[c] <= Cardinality(arrived'[c] \ todo'[c])
  <2>1. tally[c] <= Cardinality(arrived[c] \ todo[c])
    BY <1>3 DEF Calm, Counts
  <2>2. arrived[c] \ todo[c] \in SUBSET Messages /\ tally[c] \in Nat
    BY DEF Books
  <2>3. IsFiniteSet(arrived[c] \ todo[c]) /\ m \notin arrived[c] \ todo[c]
    BY <2>2, Few DEF Books
  <2>4. /\ tally[c] <= Cardinality((arrived[c] \ todo[c]) \cup {m})
        /\ tally[c] + 1 <= Cardinality((arrived[c] \ todo[c]) \cup {m})
    BY <2>1, <2>2, <2>3, OneMore
  <2>5. CASE tally'[c] = tally[c] /\ arrived'[c] = arrived[c]
    <3>1. \/ arrived'[c] \ todo'[c] = arrived[c] \ todo[c]
          \/ arrived'[c] \ todo'[c] = (arrived[c] \ todo[c]) \cup {m}
      BY <2>5
    <3> QED BY <2>1, <2>4, <2>5, <3>1
  <2>6. CASE tally'[c] = tally[c] + 1 /\ arrived'[c] = arrived[c] \cup {m}
    <3>1. arrived'[c] \ todo'[c] = (arrived[c] \ todo[c]) \cup {m}
      BY <2>6
    <3> QED BY <2>4, <2>6, <3>1
  <2> QED BY <2>5, <2>6
<1> QED BY <1>1, <1>2, <1>3 DEF Sought, Counts

(* A step of one call leaves the account of the others alone.              *)
LEMMA OneActs ==
  ASSUME Counted, NEW c \in Calls, Books', Sought(c)' /\ Counts(c)', disturbed \subseteq disturbed',
         \A d \in Calls \ {c} :
           /\ want'[d] = want[d] /\ uids'[d] = uids[d] /\ pc'[d] = pc[d]
           /\ todo'[d] = todo[d] /\ tally'[d] = tally[d] /\ arrived'[d] = arrived[d]
           /\ \A u \in uids[d] : of'[u[1]] = of[u[1]]
           /\ Calm(d)' /\ pc[d] \in {"move", "copy"} => Valid(d) \subseteq Valid(d)'
  PROVE  Counted'
<1>1. ASSUME NEW d \in Calls, d # c
      PROVE  Sought(d)' /\ Counts(d)'
  BY <1>1, OtherCall DEF Counted
<1> QED BY <1>1 DEF Counted

(* Under a session, only a copy that becomes disturbed is moved, ...       *)
LEMMA DisturbValid ==
  ASSUME IInv, Counted, NEW i \in Copies, NEW box \in Boxes, Disturb(i), Relocate({i}, box),
         UNCHANGED <<from, uids, want>>,
         NEW d \in Calls, Calm(d)', pc[d] \in {"move", "copy"}
  PROVE  Valid(d) \subseteq Valid(d)'
<1>1. i \notin Valid(d)
  <2> SUFFICES ASSUME <<i, era[i]>> \in uids[d]
               PROVE  FALSE
    BY DEF Valid
  <2>1. of[i] \in disturbed'
    BY DEF Disturb, InSession
  <2>2. of[<<i, era[i]>>[1]] \in want[d]
    BY DEF Counted, Sought
  <2> QED BY <2>1, <2>2 DEF Calm
<1> QED BY <1>1 DEF Valid, Relocate

(* ... and what another client expunges is none of what it has found.      *)
LEMMA ExpungeValid ==
  ASSUME IInv, Alone, Counted, NEW i \in doomed, at[i] \in Boxes, at' = [at EXCEPT ![i] = "gone"],
         UNCHANGED <<era, from, uids, want, disturbed>>,
         NEW d \in Calls, Calm(d), pc[d] \in {"move", "copy"}
  PROVE  Valid(d) \subseteq Valid(d)'
<1>0. i \in Copies /\ Typed /\ Sessions
  BY DEF IInv, Typed
<1>1. i \notin Valid(d)
  <2> SUFFICES ASSUME <<i, era[i]>> \in uids[d]
               PROVE  FALSE
    BY DEF Valid
  <2>1. of[<<i, era[i]>>[1]] \in want[d]
    BY DEF Counted, Sought
  <2>2. of[i] \notin disturbed
    BY <2>1 DEF Calm
  <2>3. \E e \in Calls : pc[e] = "expunge"
    BY <2>2 DEF Alone, Flags
  <2> QED BY <1>0, <2>3 DEF Sessions, InSession
<1> QED BY <1>0, <1>1 DEF Valid, Typed

(* Every step keeps the account of what was moved.                         *)
LEMMA StepCounted == ASSUME IInv, Alone, Counted, [Next]_vars PROVE Counted'
<1>0. Typed /\ Sessions /\ Uids /\ Books
  BY DEF IInv, Counted
<1> USE DEF mailbox, account, args, call, locks, Goto
<1>s. \A c \in Calls : pc[c] \notin InSession \ {"search"} => uids[c] = {}
  BY <1>0 DEF Uids
<1>e. IsFiniteSet({})
  BY FS_EmptySet
<1>i. \A c, d \in Calls : pc[c] \in InSession /\ d # c =>
        pc[d] \notin InSession /\ uids[d] = {}
  BY <1>0, <1>s DEF Sessions
<1>1. ASSUME NEW c \in Calls, Open(c)
      PROVE  Counted'
  <2> PICK ids \in SUBSET Messages, kind \in Forms, source \in Boxes, destination \in Boxes :
           Begin(c, ids, kind, source, destination)
    BY <1>1 DEF Open
  <2>1. /\ UNCHANGED <<of, at, era, disturbed, uids, todo, tally, arrived>>
        /\ want' = [want EXCEPT ![c] = ids] /\ pc[c] = "ready"
        /\ \A d \in Calls \ {c} : pc'[d] = pc[d] /\ want'[d] = want[d] /\ from'[d] = from[d]
    BY <1>0 DEF Begin, Typed, Books
  <2>2. Books'
    BY <1>0, <2>1 DEF Books
  <2>3. Sought(c)' /\ Counts(c)'
    BY <1>0, <1>s, <2>1, OwnCall DEF Early, InSession, Counted
  <2> QED BY <2>1, <2>2, <2>3, OneActs DEF Valid
<1>2. ASSUME NEW c \in Calls,
             \/ SkipImap(c) \/ Connect(c) \/ Unsupported(c)
             \/ Script(c) \/ ScriptFails(c) \/ ScriptTimesOut(c)
      PROVE  Counted'
  <2>1. /\ UNCHANGED <<of, at, era, disturbed, uids, from, want, todo, tally, arrived>>
        /\ \/ pc[c] \in {"imap", "search"}
           \/ pc[c] \in {"script", "running"} /\ pc'[c] \in {"running", "failed"}
        /\ \A d \in Calls \ {c} : pc'[d] = pc[d]
    BY <1>0, <1>2 DEF SkipImap, Connect, Unsupported, Script, ScriptFails, ScriptTimesOut, Typed
  <2>2. Books'
    BY <1>0, <2>1 DEF Books
  <2>3. Sought(c)' /\ Counts(c)'
    BY <1>0, <1>s, <2>1, OwnCall DEF Early, InSession, Counted
  <2> QED BY <2>1, <2>2, <2>3, OneActs DEF Valid
<1>3. ASSUME NEW c \in Calls, Search(c)
      PROVE  Counted'
  <2>1. /\ UNCHANGED <<of, at, era, disturbed, from, want, todo, tally, arrived>>
        /\ \A d \in Calls \ {c} : pc'[d] = pc[d] /\ uids'[d] = uids[d]
    BY <1>0, <1>3 DEF Search, Typed
  <2>2. Sought(c)' /\ Counts(c)' /\ IsFiniteSet(uids'[c])
    BY <1>0, <1>3, SearchCounts DEF Counted
  <2>3. Books'
    BY <1>0, <2>1, <2>2 DEF Books
  <2> QED BY <2>1, <2>2, <2>3, OneActs DEF Valid
<1>4. ASSUME NEW c \in Calls, Move(c) \/ Copy(c)
      PROVE  Counted'
  <2>1. /\ UNCHANGED <<disturbed, uids, from, want, todo, tally>>
        /\ Arrive(c, Valid(c)) /\ pc[c] \in {"move", "copy"} /\ pc'[c] \in {"store", "answer"}
        /\ \A d \in Calls \ {c} : pc'[d] = pc[d]
    BY <1>0, <1>4 DEF Move, Copy, Typed
  <2>2. \A u \in uids[c] : of'[u[1]] = of[u[1]]
    <3>1. \A u \in uids[c] : u[1] \in Copies /\ at[u[1]] # "unmade"
      BY <1>0 DEF Uids, Typed
    <3>2. CASE Move(c)
      BY <3>2 DEF Move
    <3>3. CASE Copy(c)
      <4>1. PICK made \in SUBSET {i \in Copies : at[i] = "unmade"} :
              \E old \in [made -> Valid(c)] :
                of' = [n \in Copies |-> IF n \in made THEN of[old[n]] ELSE of[n]]
        BY <3>3, CopyMakes
      <4>2. \A n \in Copies \ made : of'[n] = of[n]
        BY <4>1
      <4> QED BY <3>1, <4>2
    <3> QED BY <1>4, <3>2, <3>3
  <2>3. Sought(c)' /\ Counts(c)'
    BY <1>0, <2>1, <2>2, ArriveCounts DEF Counted
  <2>4. arrived' = [arrived EXCEPT ![c] = @ \cup {of[i] : i \in Valid(c)}]
    BY <2>1 DEF Arrive
  <2>5. \A i \in Valid(c) : of[i] \in Messages
    BY <1>0 DEF Valid, Typed
  <2>6. Books'
    BY <1>0, <2>1, <2>4, <2>5 DEF Books
  <2>7. \A d \in Calls \ {c} : pc[d] \notin InSession /\ uids[d] = {} /\ arrived'[d] = arrived[d]
    BY <1>0, <1>i, <2>1, <2>4 DEF InSession, Books
  <2> QED BY <2>1, <2>3, <2>6, <2>7, OneActs DEF InSession
<1>5. ASSUME NEW c \in Calls, Store(c) \/ Expunge(c)
      PROVE  Counted'
  <2>1. /\ UNCHANGED <<of, disturbed, uids, from, want, todo, tally, arrived>>
        /\ pc[c] \in {"store", "expunge"} /\ pc'[c] \in {"expunge", "answer"}
        /\ \A d \in Calls \ {c} : pc'[d] = pc[d]
    BY <1>0, <1>5 DEF Store, Expunge, Typed
  <2>2. Books'
    BY <1>0, <2>1 DEF Books
  <2>3. Sought(c)'
    BY <2>1 DEF Counted, Sought, Calm
  <2>4. Counts(c)'
    BY <2>1 DEF Counted, Counts, Calm, Early, InSession
  <2>5. \A d \in Calls \ {c} : pc[d] \notin InSession /\ uids[d] = {}
    BY <1>i, <2>1 DEF InSession
  <2> QED BY <2>1, <2>2, <2>3, <2>4, <2>5, OneActs DEF InSession
<1>6. ASSUME NEW c \in Calls, Answer(c)
      PROVE  Counted'
  <2>1. /\ UNCHANGED <<of, at, era, disturbed, from, want, todo, arrived>>
        /\ uids' = [uids EXCEPT ![c] = {}] /\ tally' = [tally EXCEPT ![c] = Cardinality(uids[c])]
        /\ \A d \in Calls \ {c} : pc'[d] = pc[d] /\ uids'[d] = uids[d] /\ tally'[d] = tally[d]
    BY <1>0, <1>6 DEF Answer, Typed, Books
  <2>2. Sought(c)' /\ Counts(c)' /\ tally'[c] \in Nat
    BY <1>0, <1>6, AnswerCounts DEF Counted
  <2>3. Books'
    BY <1>0, <1>e, <2>1, <2>2 DEF Books, Typed
  <2> QED BY <2>1, <2>2, <2>3, OneActs DEF Valid
<1>7. ASSUME NEW c \in Calls, Drops(c)
      PROVE  Counted'
  <2>1. /\ UNCHANGED <<of, at, era, from, want, todo, tally, arrived>>
        /\ disturbed \subseteq disturbed' /\ pc[c] \in InSession /\ pc'[c] = "resolve"
        /\ uids' = [uids EXCEPT ![c] = {}]
        /\ \A d \in Calls \ {c} : pc'[d] = pc[d] /\ uids'[d] = uids[d]
    BY <1>0, <1>7 DEF Drops, Typed
  <2>2. Books'
    BY <1>0, <1>e, <2>1 DEF Books, Typed
  <2>3. uids'[c] = {}
    BY <1>0, <2>1 DEF Typed
  <2>4. Sought(c)' /\ Counts(c)'
    BY <1>0, <2>1, <2>3, OwnCall DEF Early, Counted
  <2> QED BY <2>1, <2>2, <2>4, OneActs DEF Valid
<1>8. ASSUME NEW c \in Calls, Resolve(c) \/ ResolveFails(c)
      PROVE  Counted'
  <2>1. \E ids \in SUBSET want[c], unknown \in SUBSET Messages : Resolved(c, ids, unknown)
    <3>1. want[c] \in SUBSET Messages
      BY <1>0 DEF Books
    <3>2. CASE Resolve(c)
      BY <3>1, <3>2 DEF Resolve
    <3>3. CASE ResolveFails(c)
      BY <3>1, <3>3 DEF ResolveFails
    <3> QED BY <1>8, <3>2, <3>3
  <2> PICK ids \in SUBSET want[c], unknown \in SUBSET Messages : Resolved(c, ids, unknown)
    BY <2>1
  <2>2. /\ UNCHANGED <<of, at, era, disturbed, uids, from, want, tally, arrived>>
        /\ pc[c] = "resolve" /\ pc'[c] \in {"incomplete", "script"}
        /\ todo' = [todo EXCEPT ![c] = ids]
        /\ \A d \in Calls \ {c} : pc'[d] = pc[d] /\ todo'[d] = todo[d]
    BY <1>0, <1>8 DEF Resolve, ResolveFails, Resolved, Typed, Books
  <2>3. Books'
    BY <1>0, <2>2 DEF Books
  <2>4. todo'[c] \subseteq Messages
    BY <2>3 DEF Books
  <2>5. Sought(c)' /\ Counts(c)'
    BY <1>0, <1>s, <2>2, <2>4, OwnCall DEF Early, InSession, Counted
  <2> QED BY <2>2, <2>3, <2>5, OneActs DEF Valid
<1>9. ASSUME NEW c \in Calls, MailDone(c)
      PROVE  Counted'
  <2>1. UNCHANGED <<of, at, era, disturbed, uids, from, want, todo, tally, arrived>>
    BY <1>9 DEF MailDone
  <2>2. Books'
    BY <1>0, <2>1 DEF Books
  <2>3. CASE pc' = pc
    BY <2>1, <2>2, <2>3 DEF Counted, Sought, Counts, Calm, Valid
  <2>4. CASE pc' # pc
    <3>1. /\ pc[c] = "running" /\ pc'[c] \in {"imapRequired", "ok"}
          /\ \A d \in Calls \ {c} : pc'[d] = pc[d]
      BY <1>0, <1>9, <2>4 DEF MailDone, Typed
    <3>2. Sought(c)' /\ Counts(c)'
      BY <1>0, <1>s, <2>1, <3>1, OwnCall DEF Early, InSession, Counted
    <3> QED BY <2>1, <2>2, <3>1, <3>2, OneActs DEF Valid
  <2> QED BY <2>3, <2>4
<1>10. ASSUME NEW c \in Calls, NEW m \in Messages,
              MailMoves(c, m) \/ MailIgnores(c, m) \/ MailMisses(c, m)
       PROVE  Counted'
  <2>1. /\ m \in todo[c] /\ todo' = [todo EXCEPT ![c] = @ \ {m}]
        /\ UNCHANGED <<of, pc, want, uids, from>>
    BY <1>10 DEF MailMoves, MailIgnores, MailMisses
  <2>2. CASE MailMoves(c, m)
    <3>1. PICK i \in Copied(m, from[c]) :
            /\ Relocate({i}, to[c]) /\ Arrive(c, {i}) /\ Disturb(i)
            /\ tally' = [tally EXCEPT ![c] = @ + 1]
      BY <2>2 DEF MailMoves
    <3>2. i \in Copies /\ of[i] = m /\ to[c] \in Boxes /\ disturbed \subseteq disturbed'
      BY <1>0, <3>1 DEF Copied, Typed, Disturb
    <3>3. arrived' = [arrived EXCEPT ![c] = @ \cup {m}]
      BY <3>1, <3>2 DEF Arrive
    <3>4. Books'
      BY <1>0, <2>1, <3>1, <3>3 DEF Books
    <3>5. /\ todo'[c] = todo[c] \ {m} /\ tally'[c] = tally[c] + 1
          /\ arrived'[c] = arrived[c] \cup {m}
          /\ \A d \in Calls \ {c} :
               todo'[d] = todo[d] /\ tally'[d] = tally[d] /\ arrived'[d] = arrived[d]
      BY <1>0, <2>1, <3>1, <3>3 DEF Books
    <3>6. Sought(c)' /\ Counts(c)'
      BY <1>0, <2>1, <3>2, <3>5, MailCounts DEF Counted
    <3>7. \A d \in Calls : Calm(d)' /\ pc[d] \in {"move", "copy"} => Valid(d) \subseteq Valid(d)'
      BY <2>1, <3>1, <3>2, DisturbValid
    <3> QED BY <2>1, <3>2, <3>4, <3>5, <3>6, <3>7, OneActs
  <2>3. CASE MailIgnores(c, m) \/ MailMisses(c, m)
    <3>1. UNCHANGED <<at, era, disturbed, tally, arrived>>
      BY <2>3 DEF MailIgnores, MailMisses
    <3>2. Books'
      BY <1>0, <2>1, <3>1 DEF Books
    <3>3. todo'[c] = todo[c] \ {m} /\ \A d \in Calls \ {c} : todo'[d] = todo[d]
      BY <1>0, <2>1 DEF Books
    <3>4. Sought(c)' /\ Counts(c)'
      BY <1>0, <2>1, <3>1, <3>3, MailCounts DEF Counted
    <3> QED BY <2>1, <3>1, <3>2, <3>3, <3>4, OneActs DEF Valid
  <2> QED BY <1>10, <2>2, <2>3
<1>11. ASSUME NEW i \in Copies, NEW box \in Boxes, OtherMoves(i, box)
       PROVE  Counted'
  <2>1. /\ UNCHANGED <<of, uids, from, want, todo, tally, arrived, pc>>
        /\ Relocate({i}, box) /\ Disturb(i) /\ disturbed \subseteq disturbed'
    BY <1>11 DEF OtherMoves, Disturb
  <2>2. Books'
    BY <1>0, <2>1 DEF Books
  <2>3. \A d \in Calls : Calm(d)' /\ pc[d] \in {"move", "copy"} => Valid(d) \subseteq Valid(d)'
    BY <2>1, DisturbValid
  <2>4. \A d \in Calls : Sought(d)' /\ Counts(d)'
    BY <2>1, <2>3, OtherCall DEF Counted
  <2> QED BY <2>2, <2>4 DEF Counted
<1>12. ASSUME NEW i \in Copies, OtherExpunges(i)
       PROVE  Counted'
  <2>1. /\ UNCHANGED <<of, era, disturbed, uids, from, want, todo, tally, arrived, pc>>
        /\ i \in doomed /\ at[i] \in Boxes /\ at' = [at EXCEPT ![i] = "gone"]
    BY <1>12 DEF OtherExpunges
  <2>2. Books'
    BY <1>0, <2>1 DEF Books
  <2>3. \A d \in Calls : Calm(d)' /\ pc[d] \in {"move", "copy"} => Valid(d) \subseteq Valid(d)'
    BY <2>1, ExpungeValid DEF Calm
  <2>4. \A d \in Calls : Sought(d)' /\ Counts(d)'
    BY <2>1, <2>3, OtherCall DEF Counted
  <2> QED BY <2>2, <2>4 DEF Counted
<1>13. CASE BreakerCloses \/ UNCHANGED vars
  <2>1. UNCHANGED <<of, at, era, disturbed, uids, from, want, todo, tally, arrived, pc>>
    BY <1>13 DEF BreakerCloses, vars
  <2>2. Books'
    BY <1>0, <2>1 DEF Books
  <2>3. \A d \in Calls : Valid(d)' = Valid(d)
    BY <2>1 DEF Valid
  <2>4. \A d \in Calls : Sought(d)' /\ Counts(d)'
    BY <2>1, <2>3, OtherCall DEF Counted
  <2> QED BY <2>2, <2>4 DEF Counted
<1>14. ASSUME NEW c \in Calls, Step(c) \/ MailStep(c)
       PROVE  Counted'
  BY <1>2, <1>3, <1>4, <1>5, <1>6, <1>7, <1>8, <1>9, <1>10, <1>14, Zenon DEF Step, MailStep
<1> QED BY <1>1, <1>11, <1>12, <1>13, <1>14 DEF Next

(* The count a call ends with (move_messages' number of UIDs, the script's *)
(* counter) is never more than it has moved, unless somebody else moved a  *)
(* message of its between its search and its answer.                       *)
THEOREM CountsTruly == Spec => []CountIsTrue
<1>1. Counted => CountIsTrue
  <2> SUFFICES ASSUME Counted, NEW c \in Calls, Calm(c)
               PROVE  tally[c] <= Cardinality(arrived[c])
    BY DEF CountIsTrue, Calm
  <2>1. arrived[c] \in SUBSET Messages /\ arrived[c] \ todo[c] \in SUBSET arrived[c]
    BY DEF Counted, Books
  <2>2. IsFiniteSet(arrived[c]) /\ Cardinality(arrived[c]) \in Nat
    BY <2>1, Few DEF Counted, Books
  <2>3. /\ Cardinality(arrived[c] \ todo[c]) <= Cardinality(arrived[c])
        /\ Cardinality(arrived[c] \ todo[c]) \in Nat
    BY <2>1, <2>2, FS_Subset, FS_CardinalityType
  <2>4. tally[c] \in Nat /\ tally[c] <= Cardinality(arrived[c] \ todo[c])
    BY DEF Counted, Books, Counts
  <2> QED BY <2>2, <2>3, <2>4
<1>2. IInv /\ Alone /\ Counted /\ [Next]_vars => IInv' /\ Alone' /\ Counted'
  BY StepIInv, StepAlone, StepCounted
<1>3. Init => IInv /\ Alone /\ Counted
  BY InitIInv, InitAlone, InitCounted
<1> QED BY <1>1, <1>2, <1>3, PTL DEF Spec
===============================================================================
