-------------------------- MODULE ConfirmGate_proofs --------------------------
(***************************************************************************)
(* Consent, and the tier's limit, for any set of requests and operations,  *)
(* any digest, any clock.  The rate limiter plays no part in the consent:  *)
(* what carries its proof is where the answer a request holds comes from   *)
(* (Provenance) and which protocol the label it is at belongs to.  The     *)
(* limit counts slots against calls: the calls that asked cost nothing     *)
(* (Frugal), and there is a slot in the deque for every call that still    *)
(* counts (Covered), so that a call which finds room has it (Room).        *)
(***************************************************************************)
EXTENDS ConfirmGate, FiniteSetTheorems, SequenceTheorems, WellFoundedInduction,
        TLAPS

(* The part of TypeOK the proof needs.                                     *)
Typed ==
  /\ pc \in [Requests -> {"new", "tested", "lookup", "gate", "prompt", "act"}
                         \cup Ended]
  /\ op \in [Requests -> Ops \cup {NoOp}]
  /\ answer \in [Requests -> Answer \cup {NoAnswer}]
  /\ asked \subseteq Ops
  /\ answered \subseteq Answer

(* An answer a request carries was given by the user, to something asked.  *)
AnswersAsked == \A a \in answered : a.for \in asked

Provenance ==
  \A r \in Requests : modern /\ answer[r] # NoAnswer => answer[r] \in answered

(* Which protocol, and which labels, come with which locals.               *)
Labelled ==
  \A r \in Requests :
    /\ pc[r] # "new" => op[r] \in Ops
    /\ pc[r] = "prompt" => ~ modern

IInv == Typed /\ AnswersAsked /\ Provenance /\ Labelled /\ ConsentBeforeAct

(* At first no request has an answer.                                      *)
LEMMA InitIInv == Init => IInv
BY DEF Init, IInv, Typed, AnswersAsked, Provenance, Labelled, ConsentBeforeAct, Acting,
       Ended, Answer, NoAnswer

(* Every step keeps the invariant.                                         *)
LEMMA StepIInv == IInv /\ [Next]_vars => IInv'
<1> SUFFICES ASSUME IInv, [Next]_vars
             PROVE  IInv'
  OBVIOUS
<1> USE GateAssumption
    DEF IInv, Typed, AnswersAsked, Provenance, Labelled, ConsentBeforeAct, Acting,
        Ended, Answer, NoAnswer, Goto
<1>1. ASSUME NEW r \in Requests, NEW o \in Ops, NEW a \in answered \cup {NoAnswer},
             CheckTest(r, o, a)
      PROVE  IInv'
  <2>1. pc'[r] \notin {"prompt", "act", "acted"}
    BY <1>1 DEF CheckTest
  <2>2. \A s \in Requests \ {r} :
          pc'[s] = pc[s] /\ op'[s] = op[s] /\ answer'[s] = answer[s]
    BY <1>1 DEF CheckTest
  <2>3. Typed'
    BY <1>1 DEF CheckTest
  <2>4. (AnswersAsked /\ Provenance /\ Labelled)'
    BY <1>1, <2>1, <2>2 DEF CheckTest
  <2>5. ConsentBeforeAct'
    BY <1>1, <2>1, <2>2 DEF CheckTest
  <2> QED BY <2>3, <2>4, <2>5
<1>2. ASSUME NEW r \in Requests, CheckAppend(r) PROVE IInv'
  <2>1. Typed'
    BY <1>2 DEF CheckAppend
  <2>2. AnswersAsked' /\ Provenance'
    BY <1>2 DEF CheckAppend
  <2>3. Labelled'
    BY <1>2 DEF CheckAppend
  <2>4. ConsentBeforeAct'
    BY <1>2 DEF CheckAppend
  <2> QED BY <2>1, <2>2, <2>3, <2>4
<1>3. ASSUME NEW r \in Requests, LookedUp(r) PROVE IInv'
  BY <1>3 DEF LookedUp
<1>4. ASSUME NEW r \in Requests, Ask(r) PROVE IInv'
  <2>1. Typed'
    BY <1>4 DEF Ask
  <2>2. AnswersAsked' /\ Provenance'
    BY <1>4 DEF Ask
  <2>3. Labelled'
    BY <1>4 DEF Ask
  <2>4. ConsentBeforeAct'
    BY <1>4 DEF Ask
  <2> QED BY <2>1, <2>2, <2>3, <2>4
<1>5. ASSUME NEW r \in Requests, Honor(r) PROVE IInv'
  BY <1>5 DEF Honor, Matches
<1>6. ASSUME NEW r \in Requests, Elicit(r) PROVE IInv'
  BY <1>6 DEF Elicit
<1>7. ASSUME NEW r \in Requests, NEW yes \in BOOLEAN, PromptAnswered(r, yes) PROVE IInv'
  <2>1. Typed'
    BY <1>7 DEF PromptAnswered
  <2>2. AnswersAsked' /\ Provenance'
    BY <1>7 DEF PromptAnswered
  <2>3. Labelled'
    BY <1>7 DEF PromptAnswered
  <2>4. ConsentBeforeAct'
    BY <1>7 DEF PromptAnswered
  <2> QED BY <2>1, <2>2, <2>3, <2>4
<1>8. ASSUME NEW r \in Requests, PromptFails(r) PROVE IInv'
  BY <1>8 DEF PromptFails
<1>9. ASSUME NEW r \in Requests, Act(r) PROVE IInv'
  BY <1>9 DEF Act
<1>10. ASSUME NEW o \in asked, NEW yes \in BOOLEAN, UserAnswers(o, yes) PROVE IInv'
  BY <1>10 DEF UserAnswers
<1>11. CASE Tick
  BY <1>11 DEF Tick
<1>12. CASE UNCHANGED vars
  BY <1>12 DEF vars
<1> HIDE DEF IInv
<1> QED
  BY <1>1, <1>2, <1>3, <1>4, <1>5, <1>6, <1>7, <1>8, <1>9, <1>10, <1>11,
     <1>12
  DEF Next, Serve

(* No tool acts without the user's yes to a prompt of the same digest      *)
(* (_elicit_confirmation and _confirm_by_input_request fail closed).       *)
THEOREM Consent == Spec => []ConsentBeforeAct
<1>1. IInv => ConsentBeforeAct
  BY DEF IInv
<1> QED BY InitIInv, StepIInv, <1>1, PTL DEF Spec

-------------------------------------------------------------------------------
(* The window                                                              *)

(* Unexpired drops a head of the deque, the k - 1 calls before the first   *)
(* one that has not left the window.                                       *)
LEMMA DropsHead ==
  ASSUME NEW q \in Seq(Nat), NEW t \in Nat
  PROVE  \/ /\ Unexpired(q, t) = <<>>
            /\ \A i \in 1 .. Len(q) : q[i] + Window <= t
         \/ \E k \in 1 .. Len(q) :
              /\ Unexpired(q, t) = SubSeq(q, k, Len(q))
              /\ \A i \in 1 .. k - 1 : q[i] + Window <= t
<1> DEFINE kept == {i \in 1 .. Len(q) : q[i] + Window > t}
<1>1. \A i \in 1 .. Len(q) : q[i] + Window \in Nat
  BY GateAssumption
<1>2. CASE kept = {}
  BY <1>1, <1>2 DEF Unexpired
<1>3. CASE kept # {}
  <2>1. kept \subseteq Nat
    OBVIOUS
  <2> DEFINE less == {p \in Nat \X Nat : p[1] < p[2]}
  <2>2. IsWellFoundedOn(less, Nat)
    BY NatLessThanWellFounded DEF OpToRel
  <2> HIDE DEF kept, less
  <2>3. PICK k \in kept : \A j \in kept : ~ (<<j, k>> \in less)
    BY <1>3, <2>1, <2>2, WFMin
  <2> USE DEF kept, less
  <2>7. ASSUME NEW j \in kept PROVE k <= j
    <3>1. ~ (<<j, k>> \in less) /\ j \in Nat /\ k \in Nat
      BY <2>1, <2>3
    <3>2. ~ (j < k)
      BY <3>1
    <3> QED BY <3>1, <3>2
  <2> DEFINE first == CHOOSE i \in kept : \A j \in kept : i <= j
  <2>4. first \in kept /\ \A j \in kept : first <= j
    BY <2>7
  <2>5. Unexpired(q, t) = SubSeq(q, first, Len(q))
    BY <1>3 DEF Unexpired
  <2> HIDE DEF first
  <2>6. \A i \in 1 .. first - 1 : q[i] + Window <= t
    <3> SUFFICES ASSUME NEW i \in 1 .. first - 1 PROVE q[i] + Window <= t
      OBVIOUS
    <3>1. first \in 1 .. Len(q) /\ i \in 1 .. Len(q) /\ i \notin kept
      BY <2>4
    <3>2. q[i] + Window \in Nat /\ ~ (q[i] + Window > t)
      BY <1>1, <3>1
    <3> QED BY <3>2
  <2> QED BY <2>4, <2>5, <2>6
<1> HIDE DEF kept
<1> QED BY <1>2, <1>3

(* So it makes no deque longer.                                            *)
LEMMA Shorter ==
  ASSUME NEW q \in Seq(Nat), NEW t \in Nat
  PROVE  Unexpired(q, t) \in Seq(Nat) /\ Len(Unexpired(q, t)) <= Len(q)
<1>1. \/ Unexpired(q, t) = <<>>
      \/ \E k \in 1 .. Len(q) : Unexpired(q, t) = SubSeq(q, k, Len(q))
  BY DropsHead
<1>2. CASE Unexpired(q, t) = <<>>
  BY <1>2
<1>3. ASSUME NEW k \in 1 .. Len(q), Unexpired(q, t) = SubSeq(q, k, Len(q))
      PROVE  Unexpired(q, t) \in Seq(Nat) /\ Len(Unexpired(q, t)) <= Len(q)
  <2>1. SubSeq(q, k, Len(q)) \in Seq(Nat) /\ Len(SubSeq(q, k, Len(q))) = Len(q) - k + 1
    OBVIOUS
  <2> QED BY <1>3, <2>1
<1> QED BY <1>1, <1>2, <1>3

(* refund() drops the last call.                                           *)
LEMMA Refund ==
  ASSUME NEW q \in Seq(Nat)
  PROVE  /\ Refunded(q) \in Seq(Nat)
         /\ q = <<>> => Refunded(q) = <<>>
         /\ q # <<>> => /\ Len(Refunded(q)) = Len(q) - 1
                        /\ \A i \in 1 .. Len(q) - 1 : Refunded(q)[i] = q[i]
<1>1. CASE q = <<>>
  BY <1>1 DEF Refunded
<1>2. CASE q # <<>>
  <2> DEFINE n == Len(q) - 1
  <2>1. Refunded(q) = SubSeq(q, 1, n)
    BY <1>2 DEF Refunded
  <2>2. n \in Nat /\ 1 .. n \subseteq 1 .. Len(q)
    BY <1>2
  <2>3. \A i \in 1 .. n : q[i] \in Nat
    BY <2>2
  <2> HIDE DEF n
  <2>4. /\ SubSeq(q, 1, n) \in Seq(Nat)
        /\ Len(SubSeq(q, 1, n)) = IF 1 <= n THEN n - 1 + 1 ELSE 0
        /\ \A i \in 1 .. n - 1 + 1 : SubSeq(q, 1, n)[i] = q[1 + i - 1]
    BY <2>2, <2>3, SubSeqProperties
  <2>5. n - 1 + 1 = n /\ (IF 1 <= n THEN n - 1 + 1 ELSE 0) = n
    BY <2>2
  <2>6. \A i \in 1 .. n : 1 + i - 1 = i
    BY <2>2
  <2>7. Len(SubSeq(q, 1, n)) = n /\ \A i \in 1 .. n : SubSeq(q, 1, n)[i] = q[i]
    BY <2>4, <2>5, <2>6
  <2> QED BY <1>2, <2>1, <2>4, <2>7 DEF n
<1> QED BY <1>1, <1>2

(* The clock, the window and the stamps.                                   *)
Clocked ==
  /\ now \in Nat
  /\ window \in Seq(Nat)
  /\ stamp \in [Requests -> Nat]
  /\ DOMAIN pc = Requests

(* At first the window is empty.                                           *)
LEMMA InitClocked == Init => Clocked
BY DEF Init, Clocked

(* Slots are appended in the order of time, and leave at either end.       *)
LEMMA StepClocked == Clocked /\ [Next]_vars => Clocked'
<1> SUFFICES ASSUME Clocked, [Next]_vars
             PROVE  Clocked'
  OBVIOUS
<1> USE DEF Clocked, Goto
<1>1. ASSUME NEW r \in Requests, NEW o \in Ops, NEW a \in answered \cup {NoAnswer},
             CheckTest(r, o, a)
      PROVE  Clocked'
  BY <1>1, Shorter DEF CheckTest
<1>2. ASSUME NEW r \in Requests, Serve(r) PROVE Clocked'
  <2>1. CASE CheckAppend(r)
    BY <2>1 DEF CheckAppend, Slot
  <2>2. CASE Ask(r)
    BY <2>2, Refund DEF Ask
  <2>3. CASE LookedUp(r) \/ Honor(r) \/ Elicit(r) \/ PromptFails(r) \/ Act(r)
    BY <2>3 DEF LookedUp, Honor, Elicit, PromptFails, Act
  <2> QED BY <1>2, <2>1, <2>2, <2>3 DEF Serve
<1>3. ASSUME NEW r \in Requests, NEW yes \in BOOLEAN, PromptAnswered(r, yes) PROVE Clocked'
  BY <1>3 DEF PromptAnswered
<1>4. ASSUME NEW o \in asked, NEW yes \in BOOLEAN, UserAnswers(o, yes) PROVE Clocked'
  BY <1>4 DEF UserAnswers
<1>5. CASE Tick \/ UNCHANGED vars
  BY <1>5 DEF Tick, vars
<1> QED BY <1>1, <1>2, <1>3, <1>4, <1>5 DEF Next

-------------------------------------------------------------------------------
(* What asking costs                                                       *)

Spent == {r \in Requests :
  pc[r] \in {"lookup", "gate", "prompt", "act", "blocked", "notFound", "acted"}}

Frugal == IsFiniteSet(Spent) /\ Len(window) <= Cardinality(Spent)

(* A step after which the window is no longer and the same calls have      *)
(* taken a slot.                                                           *)
LEMMA SameSpent ==
  ASSUME Clocked, Clocked', Frugal, Spent' = Spent, Len(window') <= Len(window)
  PROVE  Frugal'
<1>1. Cardinality(Spent) \in Nat /\ Len(window) \in Nat /\ Len(window') \in Nat
  BY FS_CardinalityType DEF Frugal, Clocked
<1> QED BY <1>1 DEF Frugal

(* A slot is appended for one call and taken back when that call ends by   *)
(* asking.                                                                 *)
LEMMA StepFrugal == Clocked /\ Clocked' /\ Frugal /\ [Next]_vars => Frugal'
<1> SUFFICES ASSUME Clocked, Clocked', Frugal, [Next]_vars
             PROVE  Frugal'
  OBVIOUS
<1>1. Cardinality(Spent) \in Nat /\ Len(window) \in Nat
  BY FS_CardinalityType DEF Frugal, Clocked
<1>2. ASSUME NEW r \in Requests, NEW o \in Ops, NEW a \in answered \cup {NoAnswer},
             CheckTest(r, o, a)
      PROVE  Frugal'
  <2>1. Spent' = Spent
    BY <1>2 DEF CheckTest, Spent, Clocked, Goto
  <2>2. Len(window') <= Len(window)
    BY <1>2, Shorter DEF CheckTest, Clocked
  <2> QED BY <2>1, <2>2, SameSpent
<1>3. ASSUME NEW r \in Requests, CheckAppend(r) PROVE Frugal'
  <2>1. Spent' = Spent \cup {r} /\ r \notin Spent
    BY <1>3 DEF CheckAppend, Spent, Clocked, Goto
  <2>2. IsFiniteSet(Spent') /\ Cardinality(Spent') = Cardinality(Spent) + 1
    BY <2>1, FS_AddElement DEF Frugal
  <2>3. Len(window') = Len(window) + 1
    BY <1>3 DEF CheckAppend, Slot, Clocked
  <2> QED BY <1>1, <2>2, <2>3 DEF Frugal
<1>4. ASSUME NEW r \in Requests, Ask(r) PROVE Frugal'
  <2>1. Spent' = Spent \ {r} /\ r \in Spent
    BY <1>4 DEF Ask, Spent, Clocked, Goto
  <2>2. IsFiniteSet(Spent') /\ Cardinality(Spent') = Cardinality(Spent) - 1
    BY <2>1, FS_RemoveElement DEF Frugal
  <2>3. Cardinality(Spent') \in Nat
    BY <2>2, FS_CardinalityType
  <2>4. Len(window') = IF window = <<>> THEN 0 ELSE Len(window) - 1
    BY <1>4, Refund DEF Ask, Clocked
  <2> QED BY <1>1, <2>2, <2>3, <2>4 DEF Frugal
<1>5. ASSUME NEW r \in Requests, Serve(r) \/ \E yes \in BOOLEAN : PromptAnswered(r, yes),
             ~ CheckAppend(r), ~ Ask(r)
      PROVE  Frugal'
  <2>1. window' = window
    BY <1>5 DEF Serve, LookedUp, Honor, Elicit, PromptFails, Act, PromptAnswered
  <2>2. Spent' = Spent
    BY <1>5 DEF Serve, LookedUp, Honor, Elicit, PromptFails, Act, PromptAnswered, Spent,
                Clocked, Goto
  <2> QED BY <1>1, <2>1, <2>2, SameSpent
<1>6. CASE Tick \/ UNCHANGED vars \/ \E o \in asked, yes \in BOOLEAN : UserAnswers(o, yes)
  BY <1>1, <1>6, SameSpent DEF Tick, vars, UserAnswers, Spent
<1> QED BY <1>2, <1>3, <1>4, <1>5, <1>6 DEF Next

(* A call that was only asked about leaves no slot behind, in any tier,    *)
(* whatever the lookups of other calls do to the order of the slots.       *)
THEOREM AskingCostsNothing == Spec => []AskingIsFree
<1>1. Init => Frugal
  <2> SUFFICES ASSUME Init PROVE Frugal
    OBVIOUS
  <2>1. Spent = {} /\ Len(window) = 0
    BY DEF Init, Spent
  <2> QED BY <2>1, FS_EmptySet DEF Frugal
<1>2. Frugal => AskingIsFree
  BY DEF Frugal, Spent, AskingIsFree
<1> QED BY <1>1, <1>2, InitClocked, StepClocked, StepFrugal, PTL DEF Spec

-------------------------------------------------------------------------------
(* The limit of a tier in which every operation asks, so that the halves   *)
(* of check() are not separated.  (On worker threads the limit does not    *)
(* hold.)                                                                  *)
AllAsk == Ops = Confirmed

(* No refund meets the slot of a call that is looking something up: either *)
(* no operation does or, on the older protocol, nothing is refunded.       *)
Regular == LooksUp = {} \/ ~ modern

(* The calls whose slot has not been handed back, those of them that have  *)
(* not left the window, and the slots that have not.                       *)
Charged     == {r \in Requests :
  pc[r] \in {"lookup", "notFound", "gate", "prompt", "act", "blocked", "acted"}}
LiveAt(t)   == {r \in Charged : stamp[r] + Window > t}
Within(t)   == {r \in LiveAt(t) : stamp[r] <= t}
Slots(q, t) == {i \in 1 .. Len(q) : q[i] + Window > t}

(* One call at a time is in check() or before its prompt, and where none   *)
(* looks anything up, the last slot is that of the call before its prompt. *)
Turns ==
  \A r \in Requests :
    /\ pc[r] \in {"tested", "gate"} => loop = r
    /\ LooksUp = {} => pc[r] # "lookup"
    /\ LooksUp = {} /\ pc[r] = "gate" => window # <<>> /\ window[Len(window)] = stamp[r]

(* From now on there is a slot in the deque for each call it must count.   *)
Covered ==
  /\ IsFiniteSet(Charged)
  /\ \A t \in Nat : t >= now => Cardinality(LiveAt(t)) <= Cardinality(Slots(window, t))

(* A call that has passed the test found room for itself.                  *)
Room == \A r \in Requests : pc[r] = "tested" => Cardinality(LiveAt(stamp[r])) < MaxCalls

Bounded == \A t \in Nat : Cardinality(Within(t)) <= MaxCalls

(* The slots of a deque are as many as natural numbers can say.            *)
LEMMA SlotsFinite ==
  ASSUME NEW q \in Seq(Nat), NEW t \in Nat
  PROVE  /\ IsFiniteSet(Slots(q, t)) /\ Cardinality(Slots(q, t)) \in Nat
         /\ Cardinality(Slots(q, t)) <= Len(q)
<1> DEFINE n == Len(q)
<1>1. n \in Nat
  OBVIOUS
<1>2. Slots(q, t) \in SUBSET (1 .. n)
  BY DEF Slots
<1> HIDE DEF n
<1>3. IsFiniteSet(1 .. n) /\ Cardinality(1 .. n) = IF 1 > n THEN 0 ELSE n - 1 + 1
  BY <1>1, FS_Interval
<1>4. (IF 1 > n THEN 0 ELSE n - 1 + 1) = n
  BY <1>1
<1>5. IsFiniteSet(Slots(q, t)) /\ Cardinality(Slots(q, t)) <= n
  <2>1. Cardinality(1 .. n) = n
    BY <1>3, <1>4
  <2>2. IsFiniteSet(Slots(q, t)) /\ Cardinality(Slots(q, t)) <= Cardinality(1 .. n)
    BY <1>2, <1>3, FS_Subset
  <2> QED BY <2>1, <2>2
<1> QED BY <1>5, FS_CardinalityType DEF n

(* A slot more.                                                            *)
LEMMA SlotsAppend ==
  ASSUME NEW q \in Seq(Nat), NEW s \in Nat, NEW t \in Nat
  PROVE  Cardinality(Slots(Append(q, s), t)) =
           Cardinality(Slots(q, t)) + (IF s + Window > t THEN 1 ELSE 0)
<1>1. Len(q) + 1 \notin Slots(q, t)
  BY DEF Slots
<1>2. /\ Len(Append(q, s)) = Len(q) + 1 /\ Append(q, s)[Len(q) + 1] = s
      /\ \A i \in 1 .. Len(q) : Append(q, s)[i] = q[i]
  OBVIOUS
<1>3. CASE s + Window > t
  <2>1. Slots(Append(q, s), t) = Slots(q, t) \cup {Len(q) + 1}
    BY <1>2, <1>3 DEF Slots
  <2> QED BY <1>1, <1>3, <2>1, SlotsFinite, FS_AddElement
<1>4. CASE ~ (s + Window > t)
  <2>1. Slots(Append(q, s), t) = Slots(q, t)
    BY <1>2, <1>4 DEF Slots
  <2> QED BY <1>4, <2>1, SlotsFinite
<1> QED BY <1>3, <1>4

(* The newest slot handed back.                                            *)
LEMMA SlotsRefund ==
  ASSUME NEW q \in Seq(Nat), q # <<>>, NEW t \in Nat
  PROVE  Cardinality(Slots(Refunded(q), t)) =
           Cardinality(Slots(q, t)) - (IF q[Len(q)] + Window > t THEN 1 ELSE 0)
<1> DEFINE n == Len(q)
<1>1. n \in Nat /\ n >= 1 /\ Len(Refunded(q)) = n - 1
      /\ \A i \in 1 .. n - 1 : Refunded(q)[i] = q[i]
  BY Refund
<1>2. Slots(Refunded(q), t) = {i \in 1 .. n - 1 : q[i] + Window > t}
  BY <1>1 DEF Slots
<1>3. Slots(q, t) = {i \in 1 .. n : q[i] + Window > t}
  BY DEF Slots
<1>4. q[n] = q[Len(q)]
  OBVIOUS
<1>5. IsFiniteSet(Slots(q, t)) /\ Cardinality(Slots(q, t)) \in Nat
  BY SlotsFinite
<1> HIDE DEF n
<1>6. CASE q[n] + Window > t
  <2>1. Slots(Refunded(q), t) = Slots(q, t) \ {n} /\ n \in Slots(q, t)
    BY <1>1, <1>2, <1>3, <1>6
  <2> QED BY <1>4, <1>5, <1>6, <2>1, FS_RemoveElement
<1>7. CASE ~ (q[n] + Window > t)
  <2>1. Slots(Refunded(q), t) = Slots(q, t)
    BY <1>1, <1>2, <1>3, <1>7
  <2> QED BY <1>4, <1>5, <1>7, <2>1
<1> QED BY <1>6, <1>7

(* Dropping what has expired drops no slot that is still to be counted.    *)
LEMMA SlotsUnexpired ==
  ASSUME NEW q \in Seq(Nat), NEW n \in Nat, NEW t \in Nat, t >= n
  PROVE  Cardinality(Slots(q, t)) <= Cardinality(Slots(Unexpired(q, n), t))
<1>1. \A i \in 1 .. Len(q) : q[i] \in Nat /\ q[i] + Window \in Nat
  BY GateAssumption
<1>2. CASE Unexpired(q, n) = <<>> /\ \A i \in 1 .. Len(q) : q[i] + Window <= n
  <2>1. Slots(q, t) = {}
    BY <1>1, <1>2 DEF Slots
  <2>2. Slots(<<>>, t) = {}
    BY DEF Slots
  <2>3. Slots(Unexpired(q, n), t) = Slots(q, t)
    BY <1>2, <2>1, <2>2
  <2> QED BY <2>3, SlotsFinite
<1>3. ASSUME NEW k \in 1 .. Len(q), Unexpired(q, n) = SubSeq(q, k, Len(q)),
             \A i \in 1 .. k - 1 : q[i] + Window <= n
      PROVE  Cardinality(Slots(q, t)) <= Cardinality(Slots(Unexpired(q, n), t))
  <2> DEFINE u == Unexpired(q, n)
             f == [i \in Slots(q, t) |-> i - k + 1]
  <2>1. Len(u) = Len(q) - k + 1 /\ \A j \in 1 .. Len(q) - k + 1 : u[j] = q[k + j - 1]
    BY <1>3
  <2>2. u \in Seq(Nat)
    BY Shorter
  <2> HIDE DEF u
  <2>3. ASSUME NEW i \in Slots(q, t)
        PROVE  i - k + 1 \in Slots(u, t)
    <3>1. i \in 1 .. Len(q) /\ q[i] + Window > t
      BY DEF Slots
    <3>2. i >= k
      <4>1. i \notin 1 .. k - 1
        BY <1>1, <1>3, <3>1
      <4> QED BY <3>1, <4>1
    <3>3. i - k + 1 \in 1 .. Len(q) - k + 1 /\ k + (i - k + 1) - 1 = i
      BY <3>1, <3>2
    <3>4. u[i - k + 1] = q[i]
      BY <2>1, <3>3
    <3> QED BY <2>1, <3>1, <3>3, <3>4 DEF Slots
  <2>4. f \in [Slots(q, t) -> Slots(u, t)]
    BY <2>3
  <2>5. \A i, j \in Slots(q, t) : f[i] = f[j] => i = j
    BY DEF Slots
  <2>6. f \in Injection(Slots(q, t), Slots(u, t))
    BY <2>4, <2>5 DEF Injection, IsInjective
  <2>7. IsFiniteSet(Slots(u, t))
    BY <2>2, SlotsFinite
  <2> HIDE DEF f
  <2>8. Cardinality(Slots(q, t)) <= Cardinality(Slots(u, t))
    BY <2>6, <2>7, FS_Injection
  <2> QED BY <2>8 DEF u
<1> QED BY <1>2, <1>3, DropsHead

-------------------------------------------------------------------------------
(* The set of the charged calls is finite, and so are its parts.           *)
LEMMA LiveFinite ==
  ASSUME IsFiniteSet(Charged), NEW t
  PROVE  /\ IsFiniteSet(LiveAt(t)) /\ Cardinality(LiveAt(t)) \in Nat
         /\ IsFiniteSet(Within(t)) /\ Cardinality(Within(t)) \in Nat
<1>1. LiveAt(t) \in SUBSET Charged /\ Within(t) \in SUBSET Charged
  BY DEF LiveAt, Within
<1> QED BY <1>1, FS_Subset, FS_CardinalityType

(* A step that leaves the charged calls and the slots as they are.         *)
LEMMA SameCharged ==
  ASSUME Clocked, Clocked', Covered, Room, Bounded,
         Charged' = Charged, \A r \in Charged : stamp'[r] = stamp[r],
         now' >= now, window' = window,
         \A r \in Requests : pc'[r] = "tested" => pc[r] = "tested" /\ stamp'[r] = stamp[r]
  PROVE  Covered' /\ Room' /\ Bounded'
<1>1. \A t \in Nat : LiveAt(t)' = LiveAt(t) /\ Within(t)' = Within(t)
  BY DEF LiveAt, Within
<1>2. \A t \in Nat : t >= now' => t >= now
  BY DEF Clocked
<1>3. Covered'
  BY <1>1, <1>2 DEF Covered
<1>4. Room'
  <2> SUFFICES ASSUME NEW r \in Requests, pc'[r] = "tested"
               PROVE  Cardinality(LiveAt(stamp[r])') < MaxCalls
    BY DEF Room
  <2>1. pc[r] = "tested" /\ stamp'[r] = stamp[r] /\ stamp[r] \in Nat
    BY DEF Clocked
  <2>2. LiveAt(stamp[r])' = LiveAt(stamp[r])
    BY <2>1 DEF LiveAt
  <2> QED BY <2>1, <2>2 DEF Room
<1>5. Bounded'
  BY <1>1 DEF Bounded
<1> QED BY <1>3, <1>4, <1>5

Orderly == Clocked /\ IInv /\ (Regular => Turns /\ Covered /\ Room /\ Bounded)

(* check() reads the clock and finds room, or rejects the call.            *)
LEMMA TestOrderly ==
  ASSUME AllAsk, Regular, Orderly, Clocked', NEW r \in Requests, NEW o \in Ops,
         NEW a \in answered \cup {NoAnswer}, CheckTest(r, o, a)
  PROVE  Turns' /\ Covered' /\ Room' /\ Bounded'
<1>1. /\ pc[r] = "new" /\ loop = Free /\ now' = now
      /\ stamp' = [stamp EXCEPT ![r] = now]
      /\ window' = Unexpired(window, now)
      /\ pc'[r] \in {"limited", "tested"}
      /\ pc'[r] = "tested" => loop' = r /\ Len(window') < MaxCalls
      /\ \A s \in Requests \ {r} : pc'[s] = pc[s]
  <2>1. o \in Confirmed
    BY DEF AllAsk
  <2>2. Len(window') \in Nat /\ MaxCalls \in Nat
    BY GateAssumption DEF Clocked
  <2> QED BY <2>1, <2>2 DEF CheckTest, Goto, Full, Orderly, Clocked
<1>2. \A s \in Requests : pc[s] \notin {"tested", "gate"}
  BY <1>1, GateAssumption DEF Orderly, Turns
<1>3. Turns'
  BY <1>1, <1>2 DEF Orderly, Turns
<1>4. Charged' = Charged /\ \A s \in Charged : stamp'[s] = stamp[s]
  BY <1>1 DEF Charged, Orderly, Clocked
<1>5. \A t \in Nat : LiveAt(t)' = LiveAt(t) /\ Within(t)' = Within(t)
  BY <1>4 DEF LiveAt, Within
<1>6. window \in Seq(Nat) /\ now \in Nat /\ IsFiniteSet(Charged)
  BY DEF Orderly, Clocked, Covered
<1>7. Covered'
  <2> SUFFICES ASSUME NEW t \in Nat, t >= now
               PROVE  Cardinality(LiveAt(t)) <= Cardinality(Slots(Unexpired(window, now), t))
    BY <1>1, <1>4, <1>5, <1>6 DEF Covered
  <2>1. Cardinality(LiveAt(t)) <= Cardinality(Slots(window, t))
    BY DEF Orderly, Covered
  <2>2. Cardinality(Slots(window, t)) <= Cardinality(Slots(Unexpired(window, now), t))
    BY <1>6, SlotsUnexpired
  <2>3. /\ Cardinality(LiveAt(t)) \in Nat /\ Cardinality(Slots(window, t)) \in Nat
        /\ Cardinality(Slots(Unexpired(window, now), t)) \in Nat
    BY <1>6, LiveFinite, SlotsFinite, Shorter
  <2> QED BY <2>1, <2>2, <2>3
<1>8. Room'
  <2> SUFFICES ASSUME NEW s \in Requests, pc'[s] = "tested"
               PROVE  Cardinality(LiveAt(stamp[s])') < MaxCalls
    BY DEF Room
  <2>1. s = r /\ stamp'[s] = now
    BY <1>1, <1>2, <1>6 DEF Orderly, Clocked
  <2>2. LiveAt(stamp[s])' = LiveAt(now)
    BY <1>4, <2>1 DEF LiveAt
  <2>3. now >= now
    BY <1>6
  <2>4. Cardinality(LiveAt(now)) <= Cardinality(Slots(window', now))
    <3>1. now' = now /\ LiveAt(now)' = LiveAt(now)
      BY <1>1, <1>4 DEF LiveAt
    <3>2. Cardinality(LiveAt(now)) <= Cardinality(Slots(window, now))
      BY <1>6, <2>3 DEF Orderly, Covered
    <3>3. Cardinality(Slots(window, now)) <= Cardinality(Slots(Unexpired(window, now), now))
      BY <1>6, <2>3, SlotsUnexpired
    <3>4. /\ Cardinality(LiveAt(now)) \in Nat /\ Cardinality(Slots(window, now)) \in Nat
          /\ Cardinality(Slots(Unexpired(window, now), now)) \in Nat
      BY <1>6, LiveFinite, SlotsFinite, Shorter
    <3> QED BY <1>1, <3>2, <3>3, <3>4
  <2>5. /\ window' \in Seq(Nat) /\ Cardinality(Slots(window', now)) <= Len(window')
        /\ Cardinality(Slots(window', now)) \in Nat
    BY <1>1, <1>6, Shorter, SlotsFinite
  <2>6. Len(window') < MaxCalls /\ Len(window') \in Nat /\ MaxCalls \in Nat
    BY <1>1, <2>1, <2>5, GateAssumption
  <2>7. Cardinality(LiveAt(now)) \in Nat
    BY <1>6, LiveFinite
  <2> QED BY <2>2, <2>4, <2>5, <2>6, <2>7
<1>9. Bounded'
  BY <1>5 DEF Orderly, Bounded
<1> QED BY <1>3, <1>7, <1>8, <1>9

(* The slot is taken: by the one call at this point, with the room it      *)
(* found.                                                                  *)
LEMMA AppendOrderly ==
  ASSUME AllAsk, Regular, Orderly, NEW r \in Requests, CheckAppend(r)
  PROVE  Turns' /\ Covered' /\ Room' /\ Bounded'
<1>1. /\ pc[r] = "tested" /\ now' = now /\ stamp' = stamp
      /\ window' = Append(window, stamp[r])
      /\ \/ pc'[r] = "gate" /\ loop' = loop
         \/ pc'[r] = "lookup" /\ LooksUp # {}
      /\ \A s \in Requests \ {r} : pc'[s] = pc[s]
  <2>1. op[r] \in Confirmed
    BY DEF AllAsk, CheckAppend, Orderly, IInv, Labelled
  <2> QED BY <2>1 DEF CheckAppend, Slot, Goto, Orderly, Clocked
<1>2. \A s \in Requests \ {r} : pc[s] \notin {"tested", "gate"}
  BY <1>1 DEF Orderly, Turns
<1>3. /\ window \in Seq(Nat) /\ now \in Nat /\ IsFiniteSet(Charged) /\ stamp[r] \in Nat
      /\ \A s \in Requests : stamp[s] \in Nat
  BY DEF Orderly, Clocked, Covered
<1>4. Turns'
  <2>1. Append(window, stamp[r]) # <<>>
        /\ Append(window, stamp[r])[Len(Append(window, stamp[r]))] = stamp[r]
    BY <1>3
  <2>2. loop = r
    BY <1>1 DEF Orderly, Turns
  <2> QED BY <1>1, <1>2, <2>1, <2>2 DEF Orderly, Turns
<1>5. Charged' = Charged \cup {r} /\ r \notin Charged
  BY <1>1 DEF Charged
<1>6. \A t \in Nat : LiveAt(t)' = IF stamp[r] + Window > t THEN LiveAt(t) \cup {r} ELSE LiveAt(t)
  BY <1>1, <1>5 DEF LiveAt
<1>7. \A t : r \notin LiveAt(t) /\ r \notin Within(t)
  BY <1>5 DEF LiveAt, Within
<1>8. Covered'
  <2>1. IsFiniteSet(Charged')
    BY <1>3, <1>5, FS_AddElement
  <2>2. ASSUME NEW t \in Nat, t >= now
        PROVE  Cardinality(LiveAt(t)') <= Cardinality(Slots(window', t))
    <3>1. Cardinality(LiveAt(t)) <= Cardinality(Slots(window, t))
      BY <2>2 DEF Orderly, Covered
    <3>2. Cardinality(LiveAt(t)') =
            Cardinality(LiveAt(t)) + (IF stamp[r] + Window > t THEN 1 ELSE 0)
      <4>1. IsFiniteSet(LiveAt(t)) /\ Cardinality(LiveAt(t)) \in Nat
        BY <1>3, LiveFinite
      <4>2. Cardinality(LiveAt(t) \cup {r}) = Cardinality(LiveAt(t)) + 1
        BY <1>7, <4>1, FS_AddElement
      <4>3. LiveAt(t)' = IF stamp[r] + Window > t THEN LiveAt(t) \cup {r} ELSE LiveAt(t)
        BY <1>6
      <4>4. CASE stamp[r] + Window > t
        BY <4>2, <4>3, <4>4
      <4>5. CASE ~ (stamp[r] + Window > t)
        BY <4>1, <4>3, <4>5
      <4> QED BY <4>4, <4>5
    <3>3. Cardinality(Slots(window', t)) =
            Cardinality(Slots(window, t)) + (IF stamp[r] + Window > t THEN 1 ELSE 0)
      BY <1>1, <1>3, SlotsAppend
    <3>4. Cardinality(LiveAt(t)) \in Nat /\ Cardinality(Slots(window, t)) \in Nat
      BY <1>3, LiveFinite, SlotsFinite
    <3> QED BY <3>1, <3>2, <3>3, <3>4
  <2> QED BY <1>1, <2>1, <2>2 DEF Covered
<1>9. Room'
  BY <1>1, <1>2 DEF Room
<1>10. Bounded'
  <2> SUFFICES ASSUME NEW t \in Nat
               PROVE  Cardinality(Within(t)') <= MaxCalls
    BY DEF Bounded
  <2>1. Cardinality(Within(t)) <= MaxCalls
    BY DEF Orderly, Bounded
  <2>2. CASE stamp[r] <= t /\ stamp[r] + Window > t
    <3> DEFINE room == LiveAt(stamp[r])
    <3>1. Within(t)' = Within(t) \cup {r}
      BY <1>1, <1>6, <2>2 DEF Within
    <3>2. Within(t) \in SUBSET room
      <4> SUFFICES ASSUME NEW s \in Within(t) PROVE s \in room
        OBVIOUS
      <4>1. s \in Charged /\ s \in Requests /\ stamp[s] + Window > t
        BY DEF Within, LiveAt, Charged
      <4>2. stamp[s] + Window \in Nat /\ stamp[s] + Window > stamp[r]
        BY <1>3, <2>2, <4>1, GateAssumption
      <4> QED BY <4>1, <4>2 DEF LiveAt
    <3>3. Cardinality(room) < MaxCalls
      BY <1>1 DEF Orderly, Room
    <3>4. IsFiniteSet(room) /\ Cardinality(room) \in Nat
      BY <1>3, LiveFinite
    <3> HIDE DEF room
    <3>5. Cardinality(Within(t)) <= Cardinality(room)
      BY <3>2, <3>4, FS_Subset
    <3>6. IsFiniteSet(Within(t)) /\ Cardinality(Within(t)) \in Nat
      BY <1>3, LiveFinite
    <3>7. Cardinality(Within(t) \cup {r}) = Cardinality(Within(t)) + 1
      BY <1>7, <3>6, FS_AddElement
    <3> QED BY <3>1, <3>3, <3>4, <3>5, <3>6, <3>7, GateAssumption
  <2>3. CASE ~ (stamp[r] <= t /\ stamp[r] + Window > t)
    <3>1. Within(t)' = Within(t)
      BY <1>1, <1>6, <2>3 DEF Within
    <3> QED BY <2>1, <3>1
  <2> QED BY <2>2, <2>3
<1> QED BY <1>4, <1>8, <1>9, <1>10

(* An asking round hands back its own slot, which is the newest.           *)
LEMMA AskOrderly ==
  ASSUME Regular, Orderly, NEW r \in Requests, Ask(r)
  PROVE  Turns' /\ Covered' /\ Room' /\ Bounded'
<1>1. /\ pc[r] = "gate" /\ now' = now /\ stamp' = stamp
      /\ window' = Refunded(window)
      /\ pc'[r] = "asked"
      /\ \A s \in Requests \ {r} : pc'[s] = pc[s]
  BY DEF Ask, Goto, Orderly, Clocked
<1>2. \A s \in Requests \ {r} : pc[s] \notin {"tested", "gate"}
  BY <1>1 DEF Orderly, Turns
<1>3. /\ window \in Seq(Nat) /\ now \in Nat /\ IsFiniteSet(Charged) /\ stamp[r] \in Nat
  BY DEF Orderly, Clocked, Covered
<1>4. Turns'
  BY <1>1, <1>2 DEF Orderly, Turns
<1>5. Charged' = Charged \ {r} /\ r \in Charged
  BY <1>1 DEF Charged
<1>6. \A t : LiveAt(t)' = LiveAt(t) \ {r} /\ Within(t)' = Within(t) \ {r}
  BY <1>1, <1>5 DEF LiveAt, Within
<1>7. Covered'
  <2>1. IsFiniteSet(Charged')
    BY <1>3, <1>5, FS_RemoveElement
  <2>2. ASSUME NEW t \in Nat, t >= now
        PROVE  Cardinality(LiveAt(t)') <= Cardinality(Slots(window', t))
    <3>1. Cardinality(LiveAt(t)) <= Cardinality(Slots(window, t))
      BY <2>2 DEF Orderly, Covered
    <3>2. r \in LiveAt(t) <=> stamp[r] + Window > t
      BY <1>5 DEF LiveAt
    <3>3. Cardinality(LiveAt(t)') =
            Cardinality(LiveAt(t)) - (IF stamp[r] + Window > t THEN 1 ELSE 0)
      <4>1. IsFiniteSet(LiveAt(t)) /\ Cardinality(LiveAt(t)) \in Nat
        BY <1>3, LiveFinite
      <4>2. Cardinality(LiveAt(t) \ {r}) =
              IF r \in LiveAt(t) THEN Cardinality(LiveAt(t)) - 1 ELSE Cardinality(LiveAt(t))
        BY <4>1, FS_RemoveElement
      <4>3. LiveAt(t)' = LiveAt(t) \ {r}
        BY <1>6
      <4>4. CASE stamp[r] + Window > t
        BY <3>2, <4>2, <4>3, <4>4
      <4>5. CASE ~ (stamp[r] + Window > t)
        BY <3>2, <4>1, <4>2, <4>3, <4>5
      <4> QED BY <4>4, <4>5
    <3>4. Cardinality(Slots(window', t)) =
            Cardinality(Slots(window, t)) - (IF stamp[r] + Window > t THEN 1 ELSE 0)
      <4>1. LooksUp = {}
        BY DEF Ask, Regular
      <4>2. window # <<>> /\ window[Len(window)] = stamp[r]
        BY <1>1, <4>1 DEF Orderly, Turns
      <4> QED BY <1>1, <1>3, <4>2, SlotsRefund
    <3>5. Cardinality(LiveAt(t)) \in Nat /\ Cardinality(Slots(window, t)) \in Nat
      BY <1>3, LiveFinite, SlotsFinite
    <3> QED BY <3>1, <3>3, <3>4, <3>5
  <2> QED BY <1>1, <2>1, <2>2 DEF Covered
<1>8. Room'
  BY <1>1, <1>2 DEF Room
<1>9. Bounded'
  <2> SUFFICES ASSUME NEW t \in Nat
               PROVE  Cardinality(Within(t)') <= MaxCalls
    BY DEF Bounded
  <2>1. Cardinality(Within(t)) <= MaxCalls
    BY DEF Orderly, Bounded
  <2>2. IsFiniteSet(Within(t)) /\ Cardinality(Within(t)) \in Nat
    BY <1>3, LiveFinite
  <2>3. Cardinality(Within(t) \ {r}) \in Nat
        /\ Cardinality(Within(t) \ {r}) <= Cardinality(Within(t))
    <3>1. Within(t) \ {r} \in SUBSET Within(t)
      OBVIOUS
    <3> QED BY <2>2, <3>1, FS_Subset, FS_CardinalityType
  <2> QED BY <1>6, <2>1, <2>2, <2>3, GateAssumption
<1> QED BY <1>4, <1>7, <1>8, <1>9

(* A look-up, and what comes behind the gate: the slot stays, whatever the *)
(* answer.                                                                 *)
LEMMA BehindOrderly ==
  ASSUME Regular, Orderly, Clocked', NEW r \in Requests,
         \/ LookedUp(r) \/ Honor(r) \/ Elicit(r) \/ PromptFails(r) \/ Act(r)
         \/ \E yes \in BOOLEAN : PromptAnswered(r, yes)
  PROVE  Turns' /\ Covered' /\ Room' /\ Bounded'
<1>1. /\ pc[r] \in {"lookup", "gate", "prompt", "act"}
      /\ pc'[r] \in {"gate", "notFound", "prompt", "act", "blocked", "acted"}
      /\ pc'[r] = "gate" => pc[r] = "lookup" /\ loop = Free /\ loop' = r
      /\ pc'[r] # "gate" => loop' = loop \/ pc[r] = "gate"
      /\ UNCHANGED <<now, window, stamp>>
      /\ \A s \in Requests \ {r} : pc'[s] = pc[s]
  BY DEF LookedUp, Honor, Elicit, PromptFails, Act, PromptAnswered, Goto, Orderly, Clocked
<1>2. Turns'
  <2>1. CASE pc'[r] = "gate"
    <3>1. \A s \in Requests : pc[s] \notin {"tested", "gate"}
      BY <1>1, <2>1, GateAssumption DEF Orderly, Turns
    <3> QED BY <1>1, <2>1, <3>1 DEF Orderly, Turns
  <2>2. CASE pc'[r] # "gate"
    <3>1. ASSUME NEW s \in Requests, pc'[s] \in {"tested", "gate"}
          PROVE  s # r /\ pc[s] = pc'[s] /\ loop = s /\ loop' = s
      <4>1. s # r /\ pc[s] = pc'[s]
        BY <1>1, <2>2, <3>1
      <4>2. loop = s /\ pc[r] # "gate"
        BY <3>1, <4>1 DEF Orderly, Turns
      <4> QED BY <1>1, <2>2, <4>1, <4>2
    <3>2. ASSUME NEW s \in Requests, LooksUp = {} PROVE pc'[s] # "lookup"
      <4>1. pc[s] # "lookup"
        BY <3>2 DEF Orderly, Turns
      <4>2. CASE s = r
        BY <1>1, <4>2
      <4>3. CASE s # r
        BY <1>1, <4>1, <4>3
      <4> QED BY <4>2, <4>3
    <3> QED BY <1>1, <3>1, <3>2 DEF Orderly, Turns
  <2> QED BY <2>1, <2>2
<1>3. Charged' = Charged
  BY <1>1 DEF Charged
<1>4. now' >= now
  BY <1>1 DEF Orderly, Clocked
<1>5. \A s \in Requests : pc'[s] = "tested" => pc[s] = "tested"
  BY <1>1
<1> QED BY <1>1, <1>2, <1>3, <1>4, <1>5, SameCharged DEF Orderly

(* Every step keeps the account of slots and calls.                        *)
LEMMA StepOrderly == AllAsk /\ Orderly /\ [Next]_vars => Orderly'
<1> SUFFICES ASSUME AllAsk, Orderly, [Next]_vars
             PROVE  Orderly'
  OBVIOUS
<1>1. Clocked' /\ IInv'
  BY StepClocked, StepIInv DEF Orderly
<1>2. Regular' => Regular
  BY DEF Regular, Next, Serve, CheckTest, CheckAppend, LookedUp, Ask, Honor, Elicit, PromptFails,
         Act, PromptAnswered, UserAnswers, Tick, vars
<1> SUFFICES ASSUME Regular
             PROVE  Turns' /\ Covered' /\ Room' /\ Bounded'
  BY <1>1, <1>2 DEF Orderly
<1>3. ASSUME NEW r \in Requests, Serve(r) \/ \E yes \in BOOLEAN : PromptAnswered(r, yes)
      PROVE  Turns' /\ Covered' /\ Room' /\ Bounded'
  BY <1>1, <1>3, AppendOrderly, AskOrderly, BehindOrderly DEF Serve
<1>4. CASE Tick \/ UNCHANGED vars \/ \E o \in asked, yes \in BOOLEAN : UserAnswers(o, yes)
  <2>1. UNCHANGED <<window, loop, pc, stamp>> /\ now' >= now
    BY <1>4 DEF Tick, vars, UserAnswers, Orderly, Clocked
  <2>2. Turns' /\ Charged' = Charged
    BY <2>1 DEF Orderly, Turns, Charged
  <2> QED BY <1>1, <2>1, <2>2, SameCharged DEF Orderly
<1> QED BY <1>1, <1>3, <1>4, TestOrderly DEF Next

(* In a tier whose operations all ask, no window of time holds more calls  *)
(* that were let through than the tier allows, over any number of asking   *)
(* rounds, refunds, prompts that time out and ticks between the halves of  *)
(* check(), as long as no refund takes the slot of a call that looks       *)
(* something up.                                                           *)
THEOREM CallsAreLimited ==
  ASSUME AllAsk
  PROVE  Spec => [](Regular => WindowBound)
<1>1. Init => Orderly
  <2> SUFFICES ASSUME Init PROVE Orderly
    OBVIOUS
  <2>1. Charged = {} /\ \A r \in Requests : pc[r] = "new"
    BY DEF Init, Charged
  <2>2. \A t : LiveAt(t) = {} /\ Within(t) = {}
    BY <2>1 DEF LiveAt, Within
  <2>3. Clocked /\ MaxCalls \in Nat \ {0}
    BY InitClocked, GateAssumption
  <2>4. Cardinality({}) = 0 /\ IsFiniteSet({})
    BY FS_EmptySet
  <2>5. Covered
    <3>1. IsFiniteSet(Charged)
      BY <2>1, <2>4
    <3>2. ASSUME NEW t \in Nat
          PROVE  Cardinality(LiveAt(t)) <= Cardinality(Slots(window, t))
      <4>1. Cardinality(Slots(window, t)) \in Nat
        BY <2>3, SlotsFinite DEF Clocked
      <4>2. Cardinality(LiveAt(t)) = 0
        BY <2>2, <2>4
      <4> QED BY <4>1, <4>2
    <3> QED BY <3>1, <3>2 DEF Covered
  <2>6. Turns /\ Room /\ IInv
    BY <2>1, InitIInv DEF Turns, Room
  <2>7. Bounded
    <3>1. ASSUME NEW t \in Nat PROVE Cardinality(Within(t)) <= MaxCalls
      <4>1. Cardinality(Within(t)) = 0
        BY <2>2, <2>4
      <4> QED BY <2>3, <4>1
    <3> QED BY <3>1 DEF Bounded
  <2> QED BY <2>3, <2>5, <2>6, <2>7, InitIInv DEF Orderly
<1>2. Orderly => (Regular => WindowBound)
  <2> SUFFICES ASSUME Orderly, Regular, NEW t \in 0 .. now
               PROVE  Cardinality({r \in Requests : Acting(r) /\ stamp[r] <= t
                                                 /\ stamp[r] + Window > t}) <= MaxCalls
    BY DEF WindowBound
  <2> DEFINE S == {r \in Requests : Acting(r) /\ stamp[r] <= t /\ stamp[r] + Window > t}
  <2>1. t \in Nat /\ IsFiniteSet(Charged)
    BY DEF Orderly, Clocked, Covered
  <2>2. S \in SUBSET Within(t)
    BY DEF Within, LiveAt, Charged, Acting
  <2>3. Cardinality(Within(t)) <= MaxCalls
    BY <2>1 DEF Orderly, Bounded
  <2>4. IsFiniteSet(Within(t)) /\ Cardinality(Within(t)) \in Nat
    BY <2>1, LiveFinite
  <2> HIDE DEF S
  <2>5. Cardinality(S) <= Cardinality(Within(t)) /\ Cardinality(S) \in Nat
    BY <2>2, <2>4, FS_Subset, FS_CardinalityType
  <2>6. Cardinality(S) <= MaxCalls
    BY <2>3, <2>4, <2>5, GateAssumption
  <2> QED BY <2>6 DEF S
<1>3. Orderly /\ [Next]_vars => Orderly'
  BY StepOrderly
<1> QED BY <1>1, <1>2, <1>3, PTL DEF Spec

(* So for the sends, none of which looks anything up: the limit that       *)
(* RateLimiter promises holds on either protocol.                          *)
THEOREM SendsAreLimited ==
  ASSUME AllAsk, LooksUp = {}
  PROVE  Spec => []WindowBound
<1>1. Regular
  BY DEF Regular
<1> QED BY <1>1, CallsAreLimited, PTL
===============================================================================
