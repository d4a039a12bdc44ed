-------------------------- MODULE ReadBackends_proofs --------------------------
(***************************************************************************)
(* The graceful degradation of the reads, for any threads, accounts,       *)
(* questions and cooldown.  What carries the proof is at which labels a    *)
(* call of each kind can be (OnTrack): those from which every way out ends *)
(* with messages as long as Mail answers.  What the breakers, the index,   *)
(* the Keychain and the servers do plays no part.                          *)
(*                                                                         *)
(* Behind them, computations of these reads, each for any input: the walk  *)
(* of the reference graph by which get_thread collects a conversation      *)
(* through Mail, and the conversation every way collects; the window by    *)
(* which get_attachment_content reads a range of a base64 part over IMAP;  *)
(* what each backend answers to a search, and the search of all folders;   *)
(* what save_attachments leaves on disk, and under which names.            *)
(***************************************************************************)
EXTENDS ReadBackends, Algorithms, FiniteSetTheorems, SequenceTheorems,
        WellFoundedInduction, TLAPS

(* Mail has answered since the call began.                                 *)
Steady == \A c \in Callers : steady[c] => mail

(* The labels of a call whose answer does not depend on IMAP.              *)
Track(r) ==
  IF r.op = "search" THEN {"local", "imap", "asking", "script"}
  ELSE IF r.op = "get" THEN {"script"}
  ELSE {"anchor", "collect", "collecting", "gather"}

OnTrack ==
  \A c \in Callers : AlwaysAnswerable(req[c]) => pc[c] \in Track(req[c]) \cup {"idle"}

(* A search that asks the index, and a probe, have their account.          *)
AtAccount ==
  \A c \in Callers : pc[c] \in {"local", "probing"} => at[c] \in Accounts

IInv == TypeOK /\ Steady /\ OnTrack /\ AtAccount /\ ReadsDegrade

Labels == {"idle", "local", "imap", "asking", "script", "probe", "probing", "anchor",
           "collect", "collecting", "gather"}
Results == {"none", "local", "imap", "script", "partial", "not_found", "incomplete",
            "refused", "error"}
Answers == {"local", "imap", "script", "partial"}

(* The invariant holds at first.                                           *)
LEMMA InitIInv == Init => IInv
<1> SUFFICES ASSUME Init PROVE IInv
  OBVIOUS
<1> USE ReadAssumption DEF Init
<1>1. TypeOK
  BY DEF TypeOK, Health
<1>2. Steady
  BY DEF Steady
<1>3. OnTrack /\ AtAccount
  BY DEF OnTrack, AtAccount
<1>4. ReadsDegrade
  BY DEF ReadsDegrade
<1> QED BY <1>1, <1>2, <1>3, <1>4 DEF IInv

(* What every step of a call that has begun does: it goes to another label *)
(* of its track, or it ends, with messages if its answer depends on Mail   *)
(* alone, Mail answers and the message is there.                           *)
GoesOn(c) ==
  /\ pc' = [pc EXCEPT ![c] = pc'[c]] /\ pc'[c] \in Labels \ {"local"}
  /\ AlwaysAnswerable(req[c]) => pc'[c] \in Track(req[c]) \cup {"idle"}
Ends(c) ==
  /\ res' = [res EXCEPT ![c] = res'[c]] /\ res'[c] \in Results
  /\ AlwaysAnswerable(req[c]) /\ mail /\ home # None => res'[c] \in Answers \cup {res[c]}
Keeps(c) ==
  /\ UNCHANGED <<health, home, mail, index, req, steady>>
  /\ at' = [at EXCEPT ![c] = at'[c]] /\ at'[c] \in Accounts \cup {None}
  /\ pc'[c] = "probing" => at'[c] \in Accounts
  /\ left' \in [Accounts -> 0 .. Cooldown]
  /\ uuids' \in SUBSET Accounts
  /\ todo' \in [Callers -> SUBSET Accounts]
  /\ unsure' \in [Callers -> SUBSET Accounts]
  /\ ruledOut' \in [Callers -> SUBSET Accounts]

(* A step of one call that keeps the types keeps the invariant if the call *)
(* is still on its way, or ends as ReadsDegrade says.                      *)
LEMMA CallSteps ==
  ASSUME IInv, NEW c \in Callers, GoesOn(c), Ends(c), Keeps(c)
  PROVE  IInv'
<1> USE DEF GoesOn, Ends, Keeps
<1> USE DEF IInv
<1>1. TypeOK'
  BY DEF TypeOK, Labels, Results
<1>2. Steady'
  BY DEF Steady
<1>3. OnTrack'
  BY DEF OnTrack, TypeOK, AlwaysAnswerable, Track
<1>5. AtAccount'
  BY DEF AtAccount, TypeOK
<1>4. ReadsDegrade'
  BY DEF ReadsDegrade, TypeOK, AlwaysAnswerable, Steady, Answers
<1> QED BY <1>1, <1>2, <1>3, <1>4, <1>5

(* What an outcome does to the breaker keeps its type.                     *)
LEMMA Clears ==
  ASSUME IInv, NEW a, Cleared(a) \/ Logged(a) \/ Missed(a) \/ UNCHANGED left
  PROVE  left' \in [Accounts -> 0 .. Cooldown]
BY ReadAssumption DEF IInv, TypeOK, Cleared, Logged, Missed

(* A call begins on a way of its kind.                                     *)
LEMMA StepBegin ==
  ASSUME IInv, NEW c \in Callers, NEW r \in Asks, Begin(c, r)
  PROVE  IInv'
<1> USE DEF IInv
<1>1. r \in Search \cup Get \cup Thread
  BY ReadAssumption
<1>2. /\ pc[c] = "idle"
      /\ req' = [req EXCEPT ![c] = r]
      /\ steady' = [steady EXCEPT ![c] = mail]
      /\ UNCHANGED <<left, health, home, mail, index, uuids>>
  BY DEF Begin, dials
<1>3. FirstStep(r) \in Labels
  BY DEF FirstStep, Labels
<1>4. AlwaysAnswerable(r) => FirstStep(r) \in Track(r)
  BY <1>1 DEF FirstStep, AlwaysAnswerable, Track, Search, Get, Thread
<1>5. AlwaysAnswerable(r) => FirstStep(r) # "probe"
  BY <1>1 DEF FirstStep, AlwaysAnswerable, Search, Get, Thread
<1>6. PICK l \in Labels, q \in {"none", "error"} :
        /\ pc' = [pc EXCEPT ![c] = l]
        /\ res' = [res EXCEPT ![c] = q]
        /\ AlwaysAnswerable(r) => l = FirstStep(r) /\ q = "none"
  BY <1>3, <1>5 DEF Begin, End, Goto, Labels
<1>7. /\ at' \in [Callers -> Accounts \cup {None}]
      /\ todo' \in [Callers -> SUBSET Accounts]
      /\ unsure' \in [Callers -> SUBSET Accounts]
      /\ ruledOut' \in [Callers -> SUBSET Accounts]
  <2>1. r.op # "thread" => r.acct \in Accounts \cup {None}
    BY <1>1 DEF Search, Get, Thread
  <2> QED BY <2>1 DEF Begin, TypeOK, End
<1>8. TypeOK'
  BY <1>2, <1>6, <1>7 DEF TypeOK, Labels
<1>9. Steady'
  BY <1>2 DEF Steady, TypeOK
<1>10. OnTrack'
  BY <1>2, <1>4, <1>6 DEF OnTrack, TypeOK, AlwaysAnswerable, Track
<1>11. ReadsDegrade'
  BY <1>2, <1>6 DEF ReadsDegrade, TypeOK, AlwaysAnswerable
<1>12. AtAccount'
  <2>1. FirstStep(r) = "local" => r.acct \in Accounts /\ r.op # "thread"
    BY <1>1 DEF FirstStep, Search, Get, Thread
  <2>2. FirstStep(r) # "probing"
    BY DEF FirstStep
  <2>3. pc'[c] = "local" => at'[c] \in Accounts
    BY <2>1 DEF Begin, TypeOK, End, Goto
  <2>4. pc'[c] # "probing"
    BY <2>2 DEF Begin, TypeOK, End, Goto
  <2>5. \A d \in Callers \ {c} : pc'[d] = pc[d] /\ at'[d] = at[d]
    BY <1>6 DEF Begin, TypeOK
  <2> QED BY <2>3, <2>4, <2>5 DEF AtAccount
<1> QED BY <1>8, <1>9, <1>10, <1>11, <1>12

(* The steps of a call, each of them by what it does to the label, the     *)
(* result and the rest.                                                    *)
LEMMA StepCall == ASSUME IInv, NEW c \in Callers, Step(c) PROVE IInv'
<1> SUFFICES GoesOn(c) /\ Ends(c) /\ Keeps(c)
  BY CallSteps
<1> USE DEF End, Goto, Same, dials, Labels, Results, Answers, Track
<1>1. /\ pc \in [Callers -> Labels] /\ res \in [Callers -> Results]
      /\ at \in [Callers -> Accounts \cup {None}] /\ home \in Accounts \cup {None}
      /\ left \in [Accounts -> 0 .. Cooldown] /\ uuids \subseteq Accounts
      /\ todo \in [Callers -> SUBSET Accounts]
      /\ unsure \in [Callers -> SUBSET Accounts]
      /\ ruledOut \in [Callers -> SUBSET Accounts]
      /\ pc[c] \in {"local", "probing"} => at[c] \in Accounts
      /\ AlwaysAnswerable(req[c]) => pc[c] \in Track(req[c]) \cup {"idle"}
  BY DEF IInv, TypeOK, AtAccount, OnTrack
<1>2. CASE AskIndex(c)
  <2>1. GoesOn(c)
    BY <1>1, <1>2 DEF AskIndex, GoesOn
  <2>2. Ends(c)
    BY <1>1, <1>2 DEF AskIndex, Ends
  <2>3. Keeps(c)
    BY <1>1, <1>2 DEF AskIndex, Keeps
  <2> QED BY <2>1, <2>2, <2>3
<1>3. CASE CheckBreaker(c)
  <2>1. GoesOn(c)
    BY <1>1, <1>3 DEF CheckBreaker, GoesOn
  <2>2. Ends(c)
    BY <1>1, <1>3 DEF CheckBreaker, Ends
  <2>3. Keeps(c)
    BY <1>1, <1>3 DEF CheckBreaker, Keeps
  <2> QED BY <2>1, <2>2, <2>3
<1>4. CASE AskImap(c)
  <2>1. GoesOn(c)
    BY <1>1, <1>4 DEF AskImap, Caught, GoesOn
  <2>2. Ends(c)
    BY <1>1, <1>4 DEF AskImap, Caught, Ends, AlwaysAnswerable
  <2>3. left' \in [Accounts -> 0 .. Cooldown]
    BY <1>4, Clears DEF AskImap, Caught
  <2>4. Keeps(c)
    BY <1>1, <1>4, <2>3 DEF AskImap, Caught, Keeps
  <2> QED BY <2>1, <2>2, <2>4
<1>5. CASE RunScript(c)
  <2>1. GoesOn(c)
    BY <1>1, <1>5 DEF RunScript, GoesOn
  <2>2. Ends(c)
    BY <1>1, <1>5 DEF RunScript, Ends, AlwaysAnswerable
  <2>3. Keeps(c)
    BY <1>1, <1>5 DEF RunScript, Keeps
  <2> QED BY <2>1, <2>2, <2>3
<1>6. ASSUME NEW a \in Accounts, Probe(c, a) PROVE GoesOn(c) /\ Ends(c) /\ Keeps(c)
  <2>1. GoesOn(c)
    BY <1>1, <1>6 DEF Probe, GoesOn
  <2>2. Ends(c)
    BY <1>1, <1>6 DEF Probe, Ends
  <2>3. Keeps(c)
    BY <1>1, <1>6 DEF Probe, Keeps
  <2> QED BY <2>1, <2>2, <2>3
<1>7. CASE ProbeAnswered(c)
  <2>1. GoesOn(c)
    BY <1>1, <1>7 DEF ProbeAnswered, GoesOn
  <2>2. Ends(c)
    BY <1>1, <1>7 DEF ProbeAnswered, Ends, AlwaysAnswerable
  <2>3. left' \in [Accounts -> 0 .. Cooldown]
    BY <1>7, Clears DEF ProbeAnswered
  <2>4. Keeps(c)
    BY <1>1, <1>7, <2>3 DEF ProbeAnswered, Keeps
  <2> QED BY <2>1, <2>2, <2>4
<1>8. CASE ProbesOver(c)
  <2>1. GoesOn(c)
    BY <1>1, <1>8 DEF ProbesOver, GoesOn
  <2>2. Ends(c)
    BY <1>1, <1>8 DEF ProbesOver, Ends, AlwaysAnswerable
  <2>3. Keeps(c)
    BY <1>1, <1>8 DEF ProbesOver, Keeps
  <2> QED BY <2>1, <2>2, <2>3
<1>9. CASE AskAnchor(c)
  <2>1. GoesOn(c)
    BY <1>1, <1>9 DEF AskAnchor, GoesOn
  <2>2. Ends(c)
    BY <1>1, <1>9 DEF AskAnchor, Ends, AlwaysAnswerable
  <2>3. Keeps(c)
    BY <1>1, <1>9 DEF AskAnchor, Keeps
  <2> QED BY <2>1, <2>2, <2>3
<1>10. CASE CheckCollect(c)
  <2>1. GoesOn(c)
    BY <1>1, <1>10 DEF CheckCollect, GoesOn
  <2>2. Ends(c)
    BY <1>1, <1>10 DEF CheckCollect, Ends
  <2>3. Keeps(c)
    BY <1>1, <1>10 DEF CheckCollect, Keeps
  <2> QED BY <2>1, <2>2, <2>3
<1>11. CASE Collect(c)
  <2>1. GoesOn(c)
    BY <1>1, <1>11 DEF Collect, GoesOn
  <2>2. Ends(c)
    BY <1>1, <1>11 DEF Collect, Ends, AlwaysAnswerable
  <2>3. left' \in [Accounts -> 0 .. Cooldown]
    BY <1>11, Clears DEF Collect
  <2>4. Keeps(c)
    BY <1>1, <1>11, <2>3 DEF Collect, Keeps
  <2> QED BY <2>1, <2>2, <2>4
<1>12. CASE Gather(c)
  <2>1. GoesOn(c)
    BY <1>1, <1>12 DEF Gather, GoesOn
  <2>2. Ends(c)
    BY <1>1, <1>12 DEF Gather, Ends
  <2>3. Keeps(c)
    BY <1>1, <1>12 DEF Gather, Keeps
  <2> QED BY <2>1, <2>2, <2>3
<1> QED BY <1>2, <1>3, <1>4, <1>5, <1>6, <1>7, <1>8, <1>9, <1>10, <1>11, <1>12 DEF Step

(* Every step keeps the invariant.                                         *)
LEMMA StepIInv == IInv /\ [Next]_vars => IInv'
<1> SUFFICES ASSUME IInv, [Next]_vars PROVE IInv'
  OBVIOUS
<1>1. ASSUME NEW c \in Callers, NEW r \in Asks, Begin(c, r) PROVE IInv'
  BY <1>1, StepBegin
<1>2. ASSUME NEW c \in Callers, Step(c) PROVE IInv'
  BY <1>2, StepCall
<1> USE DEF IInv, calls, dials
<1>3. ASSUME NEW a \in Accounts, HealthChanges(a) PROVE IInv'
  <2>1. TypeOK'
    BY <1>3 DEF HealthChanges, TypeOK
  <2>2. (Steady /\ OnTrack /\ AtAccount /\ ReadsDegrade)'
    BY <1>3 DEF HealthChanges, Steady, OnTrack, AtAccount, ReadsDegrade
  <2> QED BY <2>1, <2>2
<1>4. CASE Tick
  <2>1. TypeOK'
    BY <1>4, ReadAssumption DEF Tick, TypeOK
  <2>2. (Steady /\ OnTrack /\ AtAccount /\ ReadsDegrade)'
    BY <1>4 DEF Tick, Steady, OnTrack, AtAccount, ReadsDegrade
  <2> QED BY <2>1, <2>2
<1>5. CASE MailChanges
  <2>1. TypeOK'
    BY <1>5 DEF MailChanges, TypeOK
  <2>2. (Steady /\ OnTrack /\ AtAccount /\ ReadsDegrade)'
    BY <1>5 DEF MailChanges, Steady, OnTrack, AtAccount, ReadsDegrade
  <2> QED BY <2>1, <2>2
<1>6. CASE MessageGoes
  <2>1. TypeOK'
    BY <1>6 DEF MessageGoes, TypeOK
  <2>2. (Steady /\ OnTrack /\ AtAccount /\ ReadsDegrade)'
    BY <1>6 DEF MessageGoes, Steady, OnTrack, AtAccount, ReadsDegrade
  <2> QED BY <2>1, <2>2
<1>7. CASE IndexChanges
  <2>1. TypeOK'
    BY <1>7 DEF IndexChanges, TypeOK
  <2>2. (Steady /\ OnTrack /\ AtAccount /\ ReadsDegrade)'
    BY <1>7 DEF IndexChanges, Steady, OnTrack, AtAccount, ReadsDegrade
  <2> QED BY <2>1, <2>2
<1>8. CASE UNCHANGED vars
  BY <1>8 DEF vars, TypeOK, Steady, OnTrack, AtAccount, ReadsDegrade
<1> QED BY <1>1, <1>2, <1>3, <1>4, <1>5, <1>6, <1>7, <1>8 DEF Next

-------------------------------------------------------------------------------
(* The invariant holds always.                                             *)
LEMMA AlwaysIInv == Spec => []IInv
BY InitIInv, StepIInv, PTL DEF Spec

(* The breakers' deadlines, the calls' places and their results are of     *)
(* their types: a cooldown never runs below zero or above its limit.       *)
THEOREM TypeCorrect == Spec => []TypeOK
<1>1. IInv => TypeOK
  BY DEF IInv
<1> QED BY <1>1, AlwaysIInv, PTL

(* A read that AppleScript can answer ends with messages, whatever fails   *)
(* in front of it, while Mail answers and the message stays.               *)
THEOREM AnsweredAnyway == Spec => []ReadsDegrade
<1>1. IInv => ReadsDegrade
  BY DEF IInv
<1> QED BY <1>1, AlwaysIInv, PTL

-------------------------------------------------------------------------------
(* Functions by recursion over the numbers up to some number.              *)

(* What holds first and from each number to the next holds all along: P is *)
(* the set of numbers it holds for.                                        *)
LEMMA Along ==
  ASSUME NEW a \in Nat, NEW b \in Nat, NEW P,
         a \in P, \A n \in a + 1 .. b : n - 1 \in P => n \in P
  PROVE  a .. b \subseteq P
<1> SUFFICES ASSUME NEW x \in a .. b, x \notin P PROVE FALSE
  OBVIOUS
<1> DEFINE bad  == {n \in a .. b : n \notin P}
           less == {p \in Nat \X Nat : p[1] < p[2]}
<1>1. IsWellFoundedOn(less, Nat)
  BY NatLessThanWellFounded DEF OpToRel
<1>2. bad \subseteq Nat /\ bad # {}
  OBVIOUS
<1>3. PICK m \in bad : \A j \in bad : ~ (<<j, m>> \in less)
  <2> HIDE DEF bad, less
  <2> QED BY <1>1, <1>2, WFMin
<1>4. m \in a .. b /\ m \notin P /\ m # a
  BY <1>3
<1>5. m \in a + 1 .. b /\ m - 1 \in a .. b /\ m - 1 \in Nat /\ m \in Nat /\ m - 1 < m
  BY <1>4
<1>6. <<m - 1, m>> \in less
  BY <1>5
<1>7. m - 1 \in P
  BY <1>3, <1>5, <1>6
<1> QED BY <1>4, <1>5, <1>7

(* f follows the steps from `start`.                                       *)
Follows(f, len, V, start, step) ==
  f \in [0 .. len -> V] /\ f[0] = start /\ \A n \in 1 .. len : f[n] = step[n][f[n - 1]]

(* There is such a function for any steps.                                 *)
LEMMA Recursion ==
  ASSUME NEW len \in Nat, NEW V, NEW start \in V, NEW step \in [1 .. len -> [V -> V]]
  PROVE  \E f : Follows(f, len, V, start, step)
<1> DEFINE Fits(f, m) == f[0] = start /\ \A n \in 1 .. m : f[n] = step[n][f[n - 1]]
           P == {m \in 0 .. len : \E f \in [0 .. len -> V] : Fits(f, m)}
<1>1. 0 \in P
  <2> DEFINE g == [n \in 0 .. len |-> start]
  <2>1. g \in [0 .. len -> V] /\ Fits(g, 0)
    OBVIOUS
  <2> HIDE DEF g
  <2> QED BY <2>1
<1>2. ASSUME NEW m \in 1 .. len, m - 1 \in P PROVE m \in P
  <2>1. PICK f \in [0 .. len -> V] : Fits(f, m - 1)
    BY <1>2
  <2>2. m - 1 \in 0 .. len /\ m \in 0 .. len /\ m # m - 1 /\ m # 0
    OBVIOUS
  <2> DEFINE v == step[m][f[m - 1]]
             g == [f EXCEPT ![m] = v]
  <2>3. v \in V
    BY <2>2
  <2> HIDE DEF v
  <2>4. g \in [0 .. len -> V] /\ g[m] = v /\ \A n \in 0 .. len : n # m => g[n] = f[n]
    BY <2>2, <2>3
  <2>5. ASSUME NEW n \in 1 .. m PROVE g[n] = step[n][g[n - 1]]
    <3>1. n - 1 \in 0 .. len /\ n - 1 # m /\ n \in 0 .. len
      OBVIOUS
    <3>2. g[n - 1] = f[n - 1]
      BY <2>4, <3>1
    <3>3. CASE n = m
      BY <2>4, <3>2, <3>3 DEF v
    <3>4. CASE n # m
      <4>1. n \in 1 .. m - 1
        BY <3>4
      <4> QED BY <2>1, <2>4, <3>1, <3>2, <3>4, <4>1
    <3> QED BY <3>3, <3>4
  <2>6. g[0] = start
    BY <2>1, <2>2, <2>4
  <2> HIDE DEF g
  <2> QED BY <2>2, <2>4, <2>5, <2>6
<1>3. len \in P
  <2> HIDE DEF P
  <2>1. 0 + 1 .. len = 1 .. len
    OBVIOUS
  <2>2. 0 .. len \subseteq P
    BY <1>1, <1>2, <2>1, Along
  <2> QED BY <2>2
<1> QED BY <1>3 DEF Follows

-------------------------------------------------------------------------------
(* walk_thread_graph                                                       *)

(* The walks: ids I of Mail's and R of the headers'.                       *)
Walks(I, R) == [accepted : SUBSET I, known : SUBSET R]

(* What Reach, Pass and Walk define by recursion, step by step.            *)
LEMMA ReachStepwise ==
  ASSUME NEW I, NEW R, NEW cands \in Seq(Candidate(I, R)), NEW known \in SUBSET R
  PROVE  /\ Reach(known, cands) \in [0 .. Len(cands) -> SUBSET R]
         /\ Reach(known, cands)[0] = known
         /\ \A n \in 1 .. Len(cands) :
              Reach(known, cands)[n] = Widened(cands, Reach(known, cands)[n - 1])
<1> DEFINE len  == Len(cands)
           V    == SUBSET R
           step == [n \in 1 .. len |-> [K \in V |-> Widened(cands, K)]]
           IsReach(f) == f = [n \in 0 .. len |-> IF n = 0 THEN known ELSE Widened(cands, f[n - 1])]
<1>1. len \in Nat
  OBVIOUS
<1>2. ASSUME NEW K \in V PROVE Widened(cands, K) \in V
  <2>1. ASSUME NEW k \in Linked(cands, K) PROVE cands[k].names \in SUBSET R
    <3>1. cands[k] \in Candidate(I, R)
      BY DEF Linked
    <3> QED BY <3>1 DEF Candidate
  <2>2. UNION {cands[k].names : k \in Linked(cands, K)} \subseteq R
    BY <2>1
  <2> QED BY <2>2 DEF Widened
<1>3. step \in [1 .. len -> [V -> V]]
  BY <1>2
<1>4. PICK f \in [0 .. len -> V] : f[0] = known /\ \A n \in 1 .. len : f[n] = step[n][f[n - 1]]
  <2> HIDE DEF step, len, V
  <2>1. known \in V
    BY DEF V
  <2>2. \E f : Follows(f, len, V, known, step)
    BY <1>1, <1>3, <2>1, Recursion
  <2> QED BY <2>2 DEF Follows
<1>5. IsReach(f)
  <2>1. \A n \in 0 .. len : f[n] = IF n = 0 THEN known ELSE Widened(cands, f[n - 1])
    <3> SUFFICES ASSUME NEW n \in 0 .. len, n # 0 PROVE f[n] = Widened(cands, f[n - 1])
      BY <1>4
    <3>1. n \in 1 .. len /\ n - 1 \in 0 .. len
      BY <1>1
    <3>2. f[n - 1] \in V
      BY <1>4, <3>1
    <3> HIDE DEF V, len
    <3> QED BY <1>4, <3>1, <3>2
  <2> HIDE DEF len, V, step
  <2> QED BY <1>4, <2>1
<1>6. IsReach(Reach(known, cands))
  <2>1. Reach(known, cands) = CHOOSE g : IsReach(g)
    BY Zenon DEF Reach
  <2> HIDE DEF IsReach
  <2> QED BY <1>5, <2>1
<1> DEFINE r == Reach(known, cands)
<1>7. /\ r = [n \in 0 .. len |-> IF n = 0 THEN known ELSE Widened(cands, r[n - 1])]
  BY <1>6
<1> HIDE DEF r
<1>8. r[0] = known /\ \A n \in 1 .. len : r[n] = Widened(cands, r[n - 1])
  <2> HIDE DEF len
  <2>1. 0 \in 0 .. len /\ \A n \in 1 .. len : n \in 0 .. len /\ n # 0
    BY <1>1
  <2> QED BY <1>7, <2>1
<1>9. r \in [0 .. len -> V]
  <2> DEFINE P == {n \in 0 .. len : r[n] \in V}
  <2>1. 0 \in P
    BY <1>1, <1>8
  <2>2. ASSUME NEW n \in 0 + 1 .. len, n - 1 \in P PROVE n \in P
    <3>1. n \in 1 .. len /\ n \in 0 .. len
      OBVIOUS
    <3> HIDE DEF len, V
    <3> QED BY <1>2, <1>8, <2>2, <3>1
  <2>3. 0 .. len \subseteq P
    <3> HIDE DEF P, len
    <3> QED BY <1>1, <2>1, <2>2, Along
  <2> HIDE DEF len, V
  <2> QED BY <1>7, <2>3
<1> QED BY <1>8, <1>9 DEF r

(* A candidate more.                                                       *)
LEMMA AcceptIs ==
  ASSUME NEW I, NEW R, NEW cand \in Candidate(I, R), NEW walk \in Walks(I, R)
  PROVE  Accept(walk, cand) \in Walks(I, R)
BY DEF Accept, Candidate, Walks

(* A pass, candidate by candidate.                                         *)
LEMMA PassStepwise ==
  ASSUME NEW I, NEW R, NEW cands \in Seq(Candidate(I, R)), NEW walk \in Walks(I, R)
  PROVE  /\ Pass(walk, cands) \in [0 .. Len(cands) -> Walks(I, R)]
         /\ Pass(walk, cands)[0] = walk
         /\ \A k \in 1 .. Len(cands) :
              Pass(walk, cands)[k] = Accept(Pass(walk, cands)[k - 1], cands[k])
<1> DEFINE len  == Len(cands)
           V    == Walks(I, R)
           step == [k \in 1 .. len |-> [w \in V |-> Accept(w, cands[k])]]
           IsPass(f) == f = [k \in 0 .. len |-> IF k = 0 THEN walk ELSE Accept(f[k - 1], cands[k])]
<1>1. len \in Nat /\ \A k \in 1 .. len : cands[k] \in Candidate(I, R)
  OBVIOUS
<1>2. \A k \in 1 .. len, w \in V : Accept(w, cands[k]) \in V
  BY <1>1, AcceptIs
<1>3. step \in [1 .. len -> [V -> V]]
  <2> HIDE DEF V, len
  <2> QED BY <1>2
<1>4. PICK f \in [0 .. len -> V] : f[0] = walk /\ \A n \in 1 .. len : f[n] = step[n][f[n - 1]]
  <2> HIDE DEF step, len, V
  <2>1. walk \in V
    BY DEF V
  <2>2. \E f : Follows(f, len, V, walk, step)
    BY <1>1, <1>3, <2>1, Recursion
  <2> QED BY <2>2 DEF Follows
<1>5. IsPass(f)
  <2>1. \A n \in 0 .. len : f[n] = IF n = 0 THEN walk ELSE Accept(f[n - 1], cands[n])
    <3> SUFFICES ASSUME NEW n \in 0 .. len, n # 0 PROVE f[n] = Accept(f[n - 1], cands[n])
      BY <1>4
    <3>1. n \in 1 .. len /\ n - 1 \in 0 .. len
      BY <1>1
    <3> HIDE DEF V, len
    <3>2. f[n - 1] \in V
      BY <1>4, <3>1
    <3> QED BY <1>4, <3>1, <3>2
  <2> HIDE DEF len, V, step
  <2> QED BY <1>4, <2>1
<1>6. IsPass(Pass(walk, cands))
  <2>1. Pass(walk, cands) = CHOOSE g : IsPass(g)
    BY Zenon DEF Pass
  <2> HIDE DEF IsPass
  <2> QED BY <1>5, <2>1
<1> DEFINE r == Pass(walk, cands)
<1>7. r = [n \in 0 .. len |-> IF n = 0 THEN walk ELSE Accept(r[n - 1], cands[n])]
  BY <1>6
<1> HIDE DEF r
<1>8. r[0] = walk /\ \A n \in 1 .. len : r[n] = Accept(r[n - 1], cands[n])
  <2> HIDE DEF len
  <2>1. 0 \in 0 .. len /\ \A n \in 1 .. len : n \in 0 .. len /\ n # 0
    BY <1>1
  <2> QED BY <1>7, <2>1
<1>9. r \in [0 .. len -> V]
  <2> DEFINE P == {n \in 0 .. len : r[n] \in V}
  <2>1. 0 \in P
    BY <1>1, <1>8
  <2>2. ASSUME NEW n \in 0 + 1 .. len, n - 1 \in P PROVE n \in P
    <3>1. n \in 1 .. len /\ n \in 0 .. len
      OBVIOUS
    <3> HIDE DEF len, V
    <3> QED BY <1>2, <1>8, <2>2, <3>1
  <2>3. 0 .. len \subseteq P
    <3> HIDE DEF P, len
    <3> QED BY <1>1, <2>1, <2>2, Along
  <2> HIDE DEF len, V
  <2> QED BY <1>7, <2>3
<1> QED BY <1>8, <1>9 DEF r

(* The walk, pass by pass.                                                 *)
LEMMA WalkStepwise ==
  ASSUME NEW I, NEW R, NEW cands \in Seq(Candidate(I, R)), NEW known \in SUBSET R
  PROVE  /\ Walk(known, cands) \in [0 .. MaxPasses -> Walks(I, R)]
         /\ Walk(known, cands)[0] = [accepted |-> {}, known |-> known]
         /\ \A n \in 1 .. MaxPasses :
              Walk(known, cands)[n] = Pass(Walk(known, cands)[n - 1], cands)[Len(cands)]
<1> DEFINE V     == Walks(I, R)
           first == [accepted |-> {}, known |-> known]
           Whole(w) == Pass(w, cands)[Len(cands)]
           step  == [n \in 1 .. MaxPasses |-> [w \in V |-> Whole(w)]]
           IsWalk(f) == f = [n \in 0 .. MaxPasses |-> IF n = 0 THEN first ELSE Whole(f[n - 1])]
<1>1. MaxPasses \in Nat /\ Len(cands) \in Nat
  BY ThreadsAssumption
<1>2. ASSUME NEW w \in V PROVE Whole(w) \in V
  <2>1. Pass(w, cands) \in [0 .. Len(cands) -> V]
    BY PassStepwise
  <2> HIDE DEF V
  <2> QED BY <1>1, <2>1
<1> HIDE DEF Whole
<1>3. step \in [1 .. MaxPasses -> [V -> V]]
  <2> HIDE DEF V
  <2> QED BY <1>2
<1>10. first \in V
  BY DEF Walks
<1>4. PICK f \in [0 .. MaxPasses -> V] :
        f[0] = first /\ \A n \in 1 .. MaxPasses : f[n] = step[n][f[n - 1]]
  <2> HIDE DEF step, V, first
  <2>2. \E f : Follows(f, MaxPasses, V, first, step)
    BY <1>1, <1>3, <1>10, Recursion
  <2> QED BY <2>2 DEF Follows
<1>5. IsWalk(f)
  <2> HIDE DEF first, V
  <2>1. \A n \in 0 .. MaxPasses : f[n] = IF n = 0 THEN first ELSE Whole(f[n - 1])
    <3> SUFFICES ASSUME NEW n \in 0 .. MaxPasses, n # 0 PROVE f[n] = Whole(f[n - 1])
      BY <1>4
    <3>1. n \in 1 .. MaxPasses /\ n - 1 \in 0 .. MaxPasses
      BY <1>1
    <3>2. f[n - 1] \in V
      BY <1>4, <3>1
    <3> QED BY <1>4, <3>1, <3>2
  <2> HIDE DEF step
  <2> QED BY <1>4, <2>1
<1>6. IsWalk(Walk(known, cands))
  <2>1. Walk(known, cands) = CHOOSE g : IsWalk(g)
    BY Zenon DEF Walk, Whole
  <2> HIDE DEF IsWalk
  <2> QED BY <1>5, <2>1
<1> DEFINE r == Walk(known, cands)
<1>7. r = [n \in 0 .. MaxPasses |-> IF n = 0 THEN first ELSE Whole(r[n - 1])]
  BY <1>6
<1> HIDE DEF r
<1>8. r[0] = first /\ \A n \in 1 .. MaxPasses : r[n] = Whole(r[n - 1])
  <2> HIDE DEF first
  <2>1. 0 \in 0 .. MaxPasses /\ \A n \in 1 .. MaxPasses : n \in 0 .. MaxPasses /\ n # 0
    BY <1>1
  <2> QED BY <1>7, <2>1
<1>9. r \in [0 .. MaxPasses -> V]
  <2> HIDE DEF first
  <2> DEFINE P == {n \in 0 .. MaxPasses : r[n] \in V}
  <2>1. 0 \in P
    BY <1>1, <1>8, <1>10
  <2>2. ASSUME NEW n \in 0 + 1 .. MaxPasses, n - 1 \in P PROVE n \in P
    <3>1. n \in 1 .. MaxPasses /\ n \in 0 .. MaxPasses
      BY <1>1
    <3> HIDE DEF V
    <3> QED BY <1>2, <1>8, <2>2, <3>1
  <2>3. 0 .. MaxPasses \subseteq P
    <3> HIDE DEF P
    <3> QED BY <1>1, <2>1, <2>2, Along
  <2> HIDE DEF V
  <2> QED BY <1>7, <2>3
<1> QED BY <1>8, <1>9 DEF r, Whole

(* More ids link more candidates.                                          *)
LEMMA LinkedGrows ==
  ASSUME NEW cands, NEW K, NEW M, K \subseteq M
  PROVE  Linked(cands, K) \subseteq Linked(cands, M) /\ Linked(cands, K) \subseteq DOMAIN cands
BY DEF Linked

(* Each widening links another candidate or is the last that adds an id, so*)
(* that there are no more of them than candidates; and the last links none.*)
LEMMA ReachCloses ==
  ASSUME NEW I, NEW R, NEW cands \in Seq(Candidate(I, R)), NEW known \in SUBSET R
  PROVE  LET reach == Reach(known, cands)
             all   == Len(cands)
         IN  /\ Widened(cands, reach[all]) = reach[all]
             /\ all # 0 => Linked(cands, reach[all]) = Linked(cands, reach[all - 1])
<1> DEFINE reach == Reach(known, cands)
           all   == Len(cands)
           L(n)  == Linked(cands, reach[n])
           names(S)  == UNION {cands[k].names : k \in S}
           Closed(n) == Widened(cands, reach[n]) = reach[n]
           P == {n \in 0 .. all : Closed(n) \/ Cardinality(L(n)) >= n + 1}
<1>1. all \in Nat /\ DOMAIN cands = 1 .. all
  OBVIOUS
<1>2. reach[0] = known /\ \A n \in 1 .. all : reach[n] = Widened(cands, reach[n - 1])
  BY ReachStepwise
<1> HIDE DEF reach, all
<1>3. IsFiniteSet(1 .. all) /\ Cardinality(1 .. all) = all
  <2>1. Cardinality(1 .. all) = IF 1 > all THEN 0 ELSE all - 1 + 1
    BY <1>1, FS_Interval
  <2>2. IsFiniteSet(1 .. all)
    BY <1>1, FS_Interval
  <2>3. all = 0 \/ ~ (1 > all)
    BY <1>1
  <2> QED BY <1>1, <2>1, <2>2, <2>3
<1>4. ASSUME NEW n
      PROVE  L(n) \subseteq 1 .. all /\ IsFiniteSet(L(n)) /\ Cardinality(L(n)) \in Nat
             /\ Cardinality(L(n)) <= all /\ (Cardinality(L(n)) = all => L(n) = 1 .. all)
  <2>1. L(n) \subseteq 1 .. all
    BY <1>1 DEF Linked
  <2> HIDE DEF L
  <2>2. IsFiniteSet(L(n)) /\ Cardinality(L(n)) <= Cardinality(1 .. all)
        /\ (Cardinality(L(n)) = Cardinality(1 .. all) => L(n) = 1 .. all)
    BY <1>3, <2>1, FS_Subset
  <2>3. Cardinality(L(n)) \in Nat
    BY <2>2, FS_CardinalityType
  <2> QED BY <1>3, <2>1, <2>2, <2>3
<1>5. ASSUME NEW n \in 1 .. all
      PROVE  reach[n - 1] \subseteq reach[n] /\ L(n - 1) \subseteq L(n)
             /\ reach[n] = reach[n - 1] \cup names(L(n - 1))
  <2>1. reach[n] = reach[n - 1] \cup names(L(n - 1))
    BY <1>2 DEF Widened
  <2>2. reach[n - 1] \subseteq reach[n]
    <3> HIDE DEF names, L
    <3> QED BY <2>1
  <2> QED BY <2>1, <2>2, LinkedGrows
<1>6. 0 \in P
  <2>1. CASE L(0) = {}
    <3>1. Closed(0)
      BY <2>1 DEF Widened
    <3> QED BY <1>1, <3>1
  <2>2. CASE L(0) # {}
    <3>1. Cardinality(L(0)) # 0
      <4>1. IsFiniteSet(L(0))
        BY <1>4
      <4> HIDE DEF L
      <4> QED BY <2>2, <4>1, FS_EmptySet
    <3>2. Cardinality(L(0)) >= 0 + 1
      BY <1>4, <3>1
    <3> HIDE DEF L, Closed
    <3> QED BY <1>1, <3>2
  <2> QED BY <2>1, <2>2
<1>7. ASSUME NEW n \in 1 .. all, n - 1 \in P PROVE n \in P
  <2>0. n \in 0 .. all /\ (n - 1) + 1 = n
    BY <1>1
  <2>1. CASE Closed(n - 1)
    <3>1. reach[n] = reach[n - 1]
      BY <1>2, <2>1
    <3>2. Closed(n)
      BY <2>1, <3>1
    <3> QED BY <2>0, <3>2
  <2>2. CASE L(n) = L(n - 1)
    <3>1. Closed(n)
      <4>1. names(L(n)) \subseteq reach[n]
        BY <1>5, <2>2
      <4>2. Widened(cands, reach[n]) = reach[n] \cup names(L(n))
        BY DEF Widened
      <4> HIDE DEF names, L
      <4> QED BY <4>1, <4>2
    <3> QED BY <2>0, <3>1
  <2>3. CASE L(n) # L(n - 1) /\ ~ Closed(n - 1)
    <3>1. Cardinality(L(n - 1)) >= n
      BY <1>7, <2>0, <2>3
    <3>2. IsFiniteSet(L(n)) /\ L(n - 1) \subseteq L(n)
      BY <1>4, <1>5
    <3>3. Cardinality(L(n - 1)) \in Nat /\ Cardinality(L(n)) \in Nat
      BY <1>4
    <3> HIDE DEF L, Closed
    <3>4. Cardinality(L(n - 1)) <= Cardinality(L(n)) /\ Cardinality(L(n - 1)) # Cardinality(L(n))
      BY <2>3, <3>2, FS_Subset
    <3>5. Cardinality(L(n)) >= n + 1
      BY <3>1, <3>3, <3>4
    <3> QED BY <2>0, <3>5
  <2> QED BY <2>1, <2>2, <2>3
<1>8. 0 .. all \subseteq P
  <2> HIDE DEF P
  <2>1. 0 + 1 .. all = 1 .. all
    BY <1>1
  <2> QED BY <1>1, <1>6, <1>7, <2>1, Along
<1>9. Closed(all)
  <2>1. all \in 0 .. all
    BY <1>1
  <2>2. Cardinality(L(all)) <= all /\ Cardinality(L(all)) \in Nat
    BY <1>4
  <2>3. Closed(all) \/ Cardinality(L(all)) >= all + 1
    BY <1>8, <2>1
  <2> HIDE DEF L, Closed
  <2> QED BY <1>1, <2>2, <2>3
<1>10. ASSUME all # 0 PROVE L(all) = L(all - 1)
  <2>1. all - 1 \in 0 .. all /\ all \in 1 .. all /\ (all - 1) + 1 = all
    BY <1>1, <1>10
  <2>2. CASE Closed(all - 1)
    <3>1. reach[all] = reach[all - 1]
      BY <1>2, <2>1, <2>2
    <3> QED BY <3>1
  <2>3. CASE Cardinality(L(all - 1)) >= all
    <3>1. L(all - 1) = 1 .. all
      <4>1. Cardinality(L(all - 1)) \in Nat /\ Cardinality(L(all - 1)) <= all
            /\ (Cardinality(L(all - 1)) = all => L(all - 1) = 1 .. all)
        BY <1>4
      <4> HIDE DEF L
      <4> QED BY <1>1, <2>3, <4>1
    <3>2. L(all) \subseteq 1 .. all /\ L(all - 1) \subseteq L(all)
      BY <1>4, <1>5, <2>1
    <3> HIDE DEF L
    <3> QED BY <3>1, <3>2
  <2>4. Closed(all - 1) \/ Cardinality(L(all - 1)) >= all
    BY <1>8, <2>1
  <2> QED BY <2>2, <2>3, <2>4
<1> QED BY <1>9, <1>10 DEF reach, all

(* A walk that knows and has accepted nothing but what `all` links, and knows*)
(* every id that the candidates it has accepted name.                      *)
Sound(walk, cands, known, all) ==
  /\ known \subseteq walk.known /\ walk.known \subseteq all
  /\ walk.accepted \subseteq {cands[k].id : k \in Linked(cands, all)}
  /\ \A k \in DOMAIN cands : cands[k].id \in walk.accepted => cands[k].names \subseteq walk.known

(* A candidate keeps OneEach, and is accepted if something links it.       *)
LEMMA AcceptSound ==
  ASSUME NEW I, NEW R, NEW cands \in Seq(Candidate(I, R)), OneEach(cands), NEW known \in SUBSET R,
         NEW all \in SUBSET R, Widened(cands, all) = all,
         NEW walk \in Walks(I, R), Sound(walk, cands, known, all), NEW k \in DOMAIN cands
  PROVE  /\ Sound(Accept(walk, cands[k]), cands, known, all)
         /\ walk.known \subseteq Accept(walk, cands[k]).known
         /\ walk.accepted \subseteq Accept(walk, cands[k]).accepted
         /\ cands[k].names \cap walk.known # {} => cands[k].id \in Accept(walk, cands[k]).accepted
<1>1. CASE cands[k].id \notin walk.accepted /\ cands[k].names \cap walk.known # {}
  <2> DEFINE on == Accept(walk, cands[k])
  <2>1. on.accepted = walk.accepted \cup {cands[k].id} /\ on.known = walk.known \cup cands[k].names
    BY <1>1 DEF Accept
  <2> HIDE DEF on
  <2>2. k \in Linked(cands, all)
    BY <1>1 DEF Sound, Linked
  <2>3. cands[k].names \subseteq all
    BY <2>2 DEF Widened
  <2>4. known \subseteq on.known /\ on.known \subseteq all
    BY <2>1, <2>3 DEF Sound
  <2>5. on.accepted \subseteq {cands[j].id : j \in Linked(cands, all)}
    BY <2>1, <2>2 DEF Sound
  <2>6. ASSUME NEW j \in DOMAIN cands, cands[j].id \in on.accepted
        PROVE  cands[j].names \subseteq on.known
    <3>1. CASE cands[j].id \in walk.accepted
      BY <2>1, <3>1 DEF Sound
    <3>2. CASE cands[j].id = cands[k].id
      <4>1. cands[j].names = cands[k].names
        BY <3>2 DEF OneEach
      <4> QED BY <2>1, <4>1
    <3> QED BY <2>1, <2>6, <3>1, <3>2
  <2>7. Sound(on, cands, known, all)
    BY <2>4, <2>5, <2>6 DEF Sound
  <2> QED BY <2>1, <2>7 DEF on
<1>2. CASE ~ (cands[k].id \notin walk.accepted /\ cands[k].names \cap walk.known # {})
  <2>1. Accept(walk, cands[k]) = walk
    BY <1>2 DEF Accept
  <2> QED BY <1>2, <2>1
<1> QED BY <1>1, <1>2

(* So does a pass, which accepts all that was linked when it began.        *)
LEMMA PassSound ==
  ASSUME NEW I, NEW R, NEW cands \in Seq(Candidate(I, R)), OneEach(cands), NEW known \in SUBSET R,
         NEW all \in SUBSET R, Widened(cands, all) = all,
         NEW walk \in Walks(I, R), Sound(walk, cands, known, all)
  PROVE  LET end == Pass(walk, cands)[Len(cands)]
         IN  /\ Sound(end, cands, known, all)
             /\ walk.known \subseteq end.known /\ walk.accepted \subseteq end.accepted
             /\ \A k \in Linked(cands, walk.known) : cands[k].id \in end.accepted
<1> DEFINE len   == Len(cands)
           after == Pass(walk, cands)
           Good(n) == /\ Sound(after[n], cands, known, all)
                      /\ walk.known \subseteq after[n].known
                      /\ walk.accepted \subseteq after[n].accepted
                      /\ \A k \in Linked(cands, walk.known) :
                           k <= n => cands[k].id \in after[n].accepted
           P == {n \in 0 .. len : Good(n)}
<1>1. len \in Nat /\ DOMAIN cands = 1 .. len
  OBVIOUS
<1>2. /\ after \in [0 .. len -> Walks(I, R)] /\ after[0] = walk
      /\ \A k \in 1 .. len : after[k] = Accept(after[k - 1], cands[k])
  BY PassStepwise
<1> HIDE DEF after, len
<1>3. \A k \in Linked(cands, walk.known) : k \in 1 .. len /\ cands[k].names \cap walk.known # {}
  BY <1>1 DEF Linked
<1>4. 0 \in P
  <2>1. \A k \in Linked(cands, walk.known) : ~ (k <= 0)
    BY <1>1, <1>3
  <2>2. Good(0)
    BY <1>2, <2>1
  <2> QED BY <1>1, <2>2
<1>5. ASSUME NEW n \in 1 .. len, n - 1 \in P PROVE n \in P
  <2> DEFINE old == after[n - 1]
             new == after[n]
  <2>1. n \in DOMAIN cands /\ n - 1 \in 0 .. len /\ n \in 0 .. len
    BY <1>1
  <2>2. old \in Walks(I, R) /\ new = Accept(old, cands[n])
    BY <1>2, <2>1
  <2>3. Good(n - 1)
    BY <1>5
  <2>4. /\ Sound(new, cands, known, all) /\ old.known \subseteq new.known
        /\ old.accepted \subseteq new.accepted
        /\ cands[n].names \cap old.known # {} => cands[n].id \in new.accepted
    <3>1. Sound(old, cands, known, all)
      BY <2>3
    <3> HIDE DEF old, new, P
    <3> QED BY <2>1, <2>2, <3>1, AcceptSound
  <2>5. walk.known \subseteq new.known /\ walk.accepted \subseteq new.accepted
    BY <2>3, <2>4
  <2>6. ASSUME NEW k \in Linked(cands, walk.known), k <= n PROVE cands[k].id \in new.accepted
    <3>1. CASE k = n
      <4>1. cands[n].names \cap old.known # {}
        BY <1>3, <2>3, <3>1
      <4> QED BY <2>4, <3>1, <4>1
    <3>2. CASE k # n
      <4>1. k <= n - 1
        BY <1>1, <1>3, <2>6, <3>2
      <4> QED BY <2>3, <2>4, <4>1
    <3> QED BY <3>1, <3>2
  <2>7. Good(n)
    BY <2>4, <2>5, <2>6
  <2> HIDE DEF Good
  <2> QED BY <2>1, <2>7
<1>6. 0 .. len \subseteq P
  <2> HIDE DEF P
  <2>1. 0 + 1 .. len = 1 .. len
    BY <1>1
  <2> QED BY <1>1, <1>4, <1>5, <2>1, Along
<1>7. Good(len)
  <2>1. len \in 0 .. len
    BY <1>1
  <2> HIDE DEF Good
  <2> QED BY <1>6, <2>1
<1>8. \A k \in Linked(cands, walk.known) : k <= len
  BY <1>1, <1>3
<1> QED BY <1>7, <1>8 DEF after, len

(* walk_thread_graph accepts every candidate that a chain of shared ids    *)
(* connects to the anchor, for any headers, the malformed ones included, in*)
(* whatever order Mail lists the candidates, if there are no more of them than*)
(* passes; and however many there are, none that no chain connects.  After n*)
(* passes the walk knows what n widenings reach, and they end as soon as one*)
(* of them links no further candidate.                                     *)
THEOREM WalkReachesAll ==
  ASSUME NEW I, NEW R, NEW cands \in Seq(Candidate(I, R)), OneEach(cands), NEW known \in SUBSET R
  PROVE  /\ WalkIsClosure(known, cands)
         /\ \A id \in WalkThreadGraph(known, cands) :
              \E k \in Linked(cands, Reach(known, cands)[Len(cands)]) : cands[k].id = id
<1> DEFINE len   == Len(cands)
           reach == Reach(known, cands)
           walk  == Walk(known, cands)
           L(n)  == Linked(cands, reach[n])
           Ids(S)  == {cands[k].id : k \in S}
           Good(n) == /\ Sound(walk[n], cands, known, reach[len])
                      /\ \A i \in 0 .. len : i <= n => reach[i] \subseteq walk[n].known
                      /\ \A i \in 0 .. len : i < n => Ids(L(i)) \subseteq walk[n].accepted
           P == {n \in 0 .. MaxPasses : Good(n)}
<1>1. len \in Nat /\ MaxPasses \in Nat \ {0} /\ DOMAIN cands = 1 .. len
  BY ThreadsAssumption
<1>2. /\ reach \in [0 .. len -> SUBSET R] /\ reach[0] = known
      /\ \A n \in 1 .. len : reach[n] = Widened(cands, reach[n - 1])
  BY ReachStepwise
<1>3. Widened(cands, reach[len]) = reach[len] /\ (len # 0 => L(len) = L(len - 1))
  BY ReachCloses
<1>4. /\ walk \in [0 .. MaxPasses -> Walks(I, R)] /\ walk[0] = [accepted |-> {}, known |-> known]
      /\ \A n \in 1 .. MaxPasses : walk[n] = Pass(walk[n - 1], cands)[len]
  BY WalkStepwise
<1> HIDE DEF reach, walk
<1>5. reach[len] \in SUBSET R /\ known \subseteq reach[len]
  <2> DEFINE Q == {n \in 0 .. len : known \subseteq reach[n]}
  <2>1. 0 \in Q
    BY <1>1, <1>2
  <2>2. ASSUME NEW n \in 1 .. len, n - 1 \in Q PROVE n \in Q
    BY <1>2, <2>2 DEF Widened
  <2>3. 0 .. len \subseteq Q
    <3> HIDE DEF Q, len
    <3>1. 0 + 1 .. len = 1 .. len
      BY <1>1
    <3> QED BY <1>1, <2>1, <2>2, <3>1, Along
  <2>4. len \in 0 .. len
    BY <1>1
  <2> HIDE DEF len
  <2> QED BY <1>2, <2>3, <2>4
<1> HIDE DEF len
<1>6. 0 \in P
  <2>1. Sound(walk[0], cands, known, reach[len])
    BY <1>4, <1>5 DEF Sound
  <2>2. \A i \in 0 .. len : i <= 0 => i = 0
    BY <1>1
  <2>3. \A i \in 0 .. len : ~ (i < 0)
    BY <1>1
  <2>4. Good(0)
    BY <1>2, <1>4, <2>1, <2>2, <2>3
  <2> QED BY <1>1, <2>4
<1>7. ASSUME NEW n \in 1 .. MaxPasses, n - 1 \in P PROVE n \in P
  <2> DEFINE old == walk[n - 1]
             new == walk[n]
  <2>1. n - 1 \in 0 .. MaxPasses /\ n \in 0 .. MaxPasses /\ n \in Nat
    BY <1>1
  <2>2. old \in Walks(I, R) /\ new = Pass(old, cands)[len]
    BY <1>4, <2>1
  <2>3. Good(n - 1)
    BY <1>7
  <2>4. /\ Sound(new, cands, known, reach[len])
        /\ old.known \subseteq new.known /\ old.accepted \subseteq new.accepted
        /\ \A k \in Linked(cands, old.known) : cands[k].id \in new.accepted
    <3>1. Sound(old, cands, known, reach[len])
      BY <2>3
    <3> DEFINE end == Pass(old, cands)[Len(cands)]
    <3>2. /\ Sound(end, cands, known, reach[len])
          /\ old.known \subseteq end.known /\ old.accepted \subseteq end.accepted
          /\ \A k \in Linked(cands, old.known) : cands[k].id \in end.accepted
      <4> HIDE DEF old, P
      <4> QED BY <1>3, <1>5, <2>2, <3>1, PassSound
    <3> QED BY <2>2, <3>2 DEF len
  <2> HIDE DEF old, new
  <2>5. ASSUME NEW i \in 0 .. len, i <= n - 1
        PROVE  reach[i] \subseteq old.known /\ Ids(L(i)) \subseteq new.accepted
    <3>1. reach[i] \subseteq old.known
      BY <2>3, <2>5 DEF old
    <3>2. L(i) \subseteq Linked(cands, old.known)
      BY <3>1, LinkedGrows
    <3> QED BY <2>4, <3>1, <3>2
  <2>6. ASSUME NEW i \in 0 .. len, i <= n PROVE reach[i] \subseteq new.known
    <3>1. CASE i <= n - 1
      BY <2>4, <2>5, <3>1
    <3>2. CASE i = n
      <4>1. n \in 1 .. len /\ n - 1 \in 0 .. len /\ n - 1 <= n - 1
        BY <1>1, <2>1, <3>2
      <4>2. reach[n - 1] \subseteq new.known /\ Ids(L(n - 1)) \subseteq new.accepted
        BY <2>4, <2>5, <4>1
      <4>3. ASSUME NEW k \in L(n - 1) PROVE cands[k].names \subseteq new.known
        <5>1. k \in DOMAIN cands /\ cands[k].id \in new.accepted
          BY <4>2 DEF Linked
        <5> QED BY <2>4, <5>1 DEF Sound
      <4>4. reach[n] = reach[n - 1] \cup UNION {cands[k].names : k \in L(n - 1)}
        BY <1>2, <4>1 DEF Widened
      <4> HIDE DEF L
      <4> QED BY <3>2, <4>2, <4>3, <4>4
    <3> QED BY <1>1, <2>1, <2>6, <3>1, <3>2
  <2>7. \A i \in 0 .. len : i < n => i <= n - 1
    BY <1>1, <2>1
  <2>8. Good(n)
    <3> HIDE DEF Ids, L
    <3> QED BY <2>4, <2>5, <2>6, <2>7 DEF new
  <2> HIDE DEF Good
  <2> QED BY <2>1, <2>8
<1>8. Good(MaxPasses)
  <2>1. 0 + 1 .. MaxPasses = 1 .. MaxPasses /\ MaxPasses \in 0 .. MaxPasses
    BY <1>1
  <2> HIDE DEF P
  <2>2. 0 .. MaxPasses \subseteq P
    BY <1>1, <1>6, <1>7, <2>1, Along
  <2>3. MaxPasses \in P
    BY <2>1, <2>2
  <2> HIDE DEF Good
  <2> QED BY <2>3 DEF P
<1>9. ASSUME len <= MaxPasses PROVE walk[MaxPasses].accepted = Ids(L(len))
  <2>1. walk[MaxPasses].accepted \subseteq Ids(L(len))
    BY <1>8 DEF Sound
  <2>2. CASE len = 0
    <3>1. L(len) = {}
      BY <1>1, <2>2 DEF Linked
    <3> HIDE DEF L
    <3> QED BY <2>1, <3>1
  <2>3. CASE len # 0
    <3>1. len - 1 \in 0 .. len /\ len - 1 < MaxPasses
      BY <1>1, <1>9, <2>3
    <3>2. Ids(L(len - 1)) \subseteq walk[MaxPasses].accepted
      BY <1>8, <3>1
    <3> HIDE DEF Ids, L
    <3> QED BY <1>3, <2>1, <2>3, <3>2
  <2> QED BY <2>2, <2>3
<1>10. walk[MaxPasses].accepted \subseteq Ids(L(len))
  BY <1>8 DEF Sound
<1> QED BY <1>9, <1>10 DEF WalkIsClosure, WalkThreadGraph, reach, walk, len

-------------------------------------------------------------------------------
(* The range of a base64 part                                              *)

(* Division, and multiplication by a number that is not known.             *)
LEMMA DivisionIs ==
  ASSUME NEW a \in Nat, NEW b \in Nat \ {0}
  PROVE  /\ a \div b \in Nat /\ a % b \in 0 .. b - 1
         /\ a = b * (a \div b) + (a % b)
OBVIOUS

LEMMA DivisionOnly ==
  ASSUME NEW b \in Nat \ {0}, NEW q \in Nat, NEW r \in 0 .. b - 1
  PROVE  (b * q + r) \div b = q /\ (b * q + r) % b = r
OBVIOUS

LEMMA Times ==
  ASSUME NEW a \in Int, NEW b \in Int, NEW c \in Nat, a <= b
  PROVE  a * c <= b * c
OBVIOUS

(* What the library's Min returns.                                         *)
LEMMA LeastIs ==
  ASSUME NEW S \in SUBSET Nat, NEW m \in S, \A x \in S : m <= x
  PROVE  Min(S) = m
<1>1. \E x \in S : \A y \in S : x <= y
  OBVIOUS
<1>2. Min(S) \in S /\ \A y \in S : Min(S) <= y
  BY <1>1 DEF Min
<1>3. Min(S) <= m /\ m <= Min(S) /\ Min(S) \in Nat /\ m \in Nat
  BY <1>2
<1> HIDE DEF Min
<1> QED BY <1>3

(* The characters of a part: four for three bytes.                         *)
LEMMA CharactersAre ==
  ASSUME NEW n \in Nat \ {0}
  PROVE  /\ Characters(n) \in Nat /\ Characters(n) >= 4 /\ Characters(n) % 4 = 0
         /\ Characters(n) \div 4 \in Nat /\ Characters(n) = 4 * (Characters(n) \div 4)
         /\ n <= 3 * (Characters(n) \div 4) /\ 3 * (Characters(n) \div 4) <= n + 2
         /\ 3 * (Characters(n) \div 4) - ((3 - (n % 3)) % 3) = n
<1>1. (n + 2) \div 3 \in Nat /\ (n + 2) \div 3 >= 1
  OBVIOUS
<1>2. n <= 3 * ((n + 2) \div 3) /\ 3 * ((n + 2) \div 3) <= n + 2
  OBVIOUS
<1>3. 3 * ((n + 2) \div 3) - ((3 - (n % 3)) % 3) = n
  OBVIOUS
<1>4. \A q \in Nat : (4 * q) \div 4 = q /\ (4 * q) % 4 = 0
  OBVIOUS
<1>5. Characters(n) \div 4 = (n + 2) \div 3 /\ Characters(n) % 4 = 0
  BY <1>1, <1>4 DEF Characters
<1> QED BY <1>1, <1>2, <1>3, <1>5 DEF Characters

(* The lines of a part.                                                    *)
LEMMA LinesAre ==
  ASSUME NEW n \in Nat \ {0}
  PROVE  /\ Lines(n) \in Nat \ {0}
         /\ (Lines(n) - 1) * Line < Characters(n) /\ Characters(n) <= Lines(n) * Line
<1> DEFINE chars == Characters(n)
           lines == Lines(n)
           rest  == (chars + Line - 1) % Line
<1>1. chars \in Nat /\ chars >= 4 /\ Line \in Nat \ {0}
  BY CharactersAre, AttachmentsAssumption
<1>2. chars + Line - 1 \in Nat
  BY <1>1
<1>3. lines \in Nat /\ rest \in 0 .. Line - 1 /\ chars + Line - 1 = Line * lines + rest
  BY <1>1, <1>2, DivisionIs DEF Lines
<1> HIDE DEF chars, lines, rest
<1>4. Line * lines >= chars /\ Line * lines <= chars + Line - 1
  BY <1>1, <1>3
<1>5. lines # 0
  BY <1>1, <1>4
<1>6. (lines - 1) * Line = Line * lines - Line /\ lines * Line = Line * lines
  BY <1>1, <1>3
<1>7. Line * lines \in Nat
  BY <1>1, <1>3
<1>8. (lines - 1) * Line < chars /\ chars <= lines * Line
  BY <1>1, <1>4, <1>6, <1>7
<1> QED BY <1>3, <1>5, <1>8 DEF chars, lines

(* The octets of a part, as the server counts and sends them.              *)
SizeOf(n, ended) == Characters(n) + 2 * (IF ended THEN Lines(n) ELSE Lines(n) - 1)

LEMMA TransferIs ==
  ASSUME NEW n \in Nat \ {0}, NEW ended \in BOOLEAN
  PROVE  /\ SizeOf(n, ended) \in Nat \ {0} /\ Len(Transfer(n, ended)) = SizeOf(n, ended)
         /\ DOMAIN Transfer(n, ended) = 1 .. SizeOf(n, ended)
         /\ \A k \in 1 .. SizeOf(n, ended) :
              Transfer(n, ended)[k] =
                LET row  == (k - 1) \div (Line + 2)
                    char == row * Line + ((k - 1) % (Line + 2))
                IN  IF (k - 1) % (Line + 2) >= Line \/ char >= Characters(n) THEN Null ELSE char
<1>1. Characters(n) \in Nat /\ Characters(n) >= 4 /\ Lines(n) \in Nat \ {0}
  BY CharactersAre, LinesAre
<1>2. SizeOf(n, ended) \in Nat \ {0}
  BY <1>1 DEF SizeOf
<1> DEFINE octet(k) == LET row  == (k - 1) \div (Line + 2)
                           char == row * Line + ((k - 1) % (Line + 2))
                       IN  IF (k - 1) % (Line + 2) >= Line \/ char >= Characters(n)
                           THEN Null ELSE char
<1>3. Transfer(n, ended) = [k \in 1 .. SizeOf(n, ended) |-> octet(k)]
  BY DEF Transfer, SizeOf
<1> HIDE DEF octet
<1>4. /\ Len(Transfer(n, ended)) = SizeOf(n, ended)
      /\ DOMAIN Transfer(n, ended) = 1 .. SizeOf(n, ended)
      /\ \A k \in 1 .. SizeOf(n, ended) : Transfer(n, ended)[k] = octet(k)
  BY <1>2, <1>3
<1> QED BY <1>2, <1>4 DEF octet

(* Where the number of lines lies, and what any fewer would hold.          *)
LEMMA LinesTried ==
  ASSUME NEW n \in Nat \ {0}, NEW ended \in BOOLEAN
  PROVE  LET size  == SizeOf(n, ended)
             full  == size \div (Line + 2)
             about == IF full > 5 THEN full - 4 ELSE 1
         IN  /\ full \in Nat /\ Lines(n) \in about .. full + 7
             /\ about \in Nat \ {0}
<1> DEFINE size  == SizeOf(n, ended)
           lines == Lines(n)
           chars == Characters(n)
           M     == Line + 2
           full  == size \div M
           rest  == size % M
<1>1. Line \in Nat \ {0} /\ chars \in Nat /\ lines \in Nat \ {0} /\ size \in Nat
  BY AttachmentsAssumption, CharactersAre, LinesAre, TransferIs
<1>2. (lines - 1) * Line < chars /\ chars <= lines * Line
  BY LinesAre
<1>3. size = chars + 2 * lines \/ size = chars + 2 * (lines - 1)
  BY DEF SizeOf
<1>4. M \in Nat \ {0}
  BY <1>1
<1>5. full \in Nat /\ rest \in 0 .. M - 1 /\ size = M * full + rest
  BY <1>1, <1>4, DivisionIs
<1> HIDE DEF size, lines, chars, full, rest
<1>6. (lines - 1) * M = (lines - 1) * Line + 2 * (lines - 1) /\ lines * M = lines * Line + 2 * lines
      /\ (lines - 1) * M \in Int /\ lines * M \in Int
      /\ lines * Line \in Int /\ (lines - 1) * Line \in Int
  BY <1>1
<1>7. (lines - 1) * M < size /\ size <= lines * M
  <2> HIDE DEF M
  <2> QED BY <1>1, <1>2, <1>3, <1>6
<1>8. M * full <= size /\ size < M * full + M /\ M * full \in Nat
  BY <1>1, <1>4, <1>5
<1>9. full <= lines
  <2> SUFFICES ASSUME full >= lines + 1 PROVE FALSE
    BY <1>1, <1>5
  <2>1. (lines + 1) * M <= full * M
    BY <1>1, <1>4, <1>5, Times
  <2>2. full * M = M * full /\ (lines + 1) * M = lines * M + M
    BY <1>1, <1>4, <1>5
  <2> HIDE DEF M
  <2> QED BY <1>1, <1>4, <1>6, <1>7, <1>8, <2>1, <2>2
<1>10. lines - 1 <= full
  <2> SUFFICES ASSUME full + 1 <= lines - 1 PROVE FALSE
    BY <1>1, <1>5
  <2>1. (full + 1) * M <= (lines - 1) * M
    BY <1>1, <1>4, <1>5, Times
  <2>2. (full + 1) * M = M * full + M
    BY <1>1, <1>4, <1>5
  <2> HIDE DEF M
  <2> QED BY <1>1, <1>4, <1>6, <1>7, <1>8, <2>1, <2>2
<1>11. lines \in (IF full > 5 THEN full - 4 ELSE 1) .. full + 7
  BY <1>1, <1>5, <1>9, <1>10
<1>12. (IF full > 5 THEN full - 4 ELSE 1) \in Nat \ {0}
  BY <1>5
<1> QED BY <1>5, <1>11, <1>12 DEF size, lines, full

(* The number of characters that _base64_body_octets finds.                *)
LEMMA BodyOctetsExact ==
  ASSUME NEW n \in Nat \ {0}, NEW ended \in BOOLEAN
  PROVE  BodyOctets(SizeOf(n, ended)) = Characters(n)
<1> DEFINE size  == SizeOf(n, ended)
           lines == Lines(n)
           chars == Characters(n)
           valid(x, l) == x > 0 /\ x % 4 = 0 /\ (l - 1) * Line < x /\ x <= l * Line
           about == IF size \div (Line + 2) > 1 THEN size \div (Line + 2) ELSE 1
           tried == (IF about > 5 THEN about - 4 ELSE 1) .. about + 7
           whole(l) == valid(size - 2 * l, l)
           open(l)  == valid(size - 2 * (l - 1), l)
           fits == {l \in tried : whole(l) \/ open(l)}
<1>1. Line \in Nat \ {0} /\ chars \in Nat /\ chars >= 4 /\ chars % 4 = 0
      /\ lines \in Nat \ {0} /\ size \in Nat
  BY AttachmentsAssumption, CharactersAre, LinesAre, TransferIs
<1>2. (lines - 1) * Line < chars /\ chars <= lines * Line
  BY LinesAre
<1>3. size = chars + 2 * (IF ended THEN lines ELSE lines - 1)
  BY DEF SizeOf
<1>4. lines \in tried /\ tried \subseteq Nat \ {0}
  <2> DEFINE full == size \div (Line + 2)
  <2>1. /\ full \in Nat /\ lines \in (IF full > 5 THEN full - 4 ELSE 1) .. full + 7
        /\ (IF full > 5 THEN full - 4 ELSE 1) \in Nat \ {0}
    BY LinesTried
  <2> HIDE DEF size, full, lines
  <2>2. lines \in Nat \ {0} /\ about = IF full > 1 THEN full ELSE 1
    BY <1>1 DEF full
  <2> HIDE DEF about
  <2> QED BY <2>1, <2>2
<1>5. BodyOctets(size) = IF fits = {} THEN size - (size % 4)
                         ELSE IF whole(Min(fits)) THEN size - 2 * Min(fits)
                         ELSE size - 2 * (Min(fits) - 1)
  BY DEF BodyOctets
<1> HIDE DEF size, lines, chars, tried
<1>6. ASSUME NEW l \in tried, whole(l) \/ open(l) PROVE lines <= l
  <2> SUFFICES ASSUME l <= lines - 1 PROVE FALSE
    BY <1>1, <1>4
  <2>1. l * Line <= (lines - 1) * Line /\ l \in Nat
    BY <1>1, <1>4, Times
  <2>2. l * Line \in Nat /\ (lines - 1) * Line \in Int
    BY <1>1, <2>1
  <2>3. l * Line < chars
    BY <1>1, <1>2, <2>1, <2>2
  <2>4. size - 2 * l <= l * Line \/ size - 2 * (l - 1) <= l * Line
    BY <1>6
  <2>5. size < chars + 2 * l
    BY <1>1, <2>1, <2>2, <2>3, <2>4
  <2>6. size >= chars + 2 * (lines - 1)
    BY <1>1, <1>3
  <2> QED BY <1>1, <2>1, <2>5, <2>6
<1>7. CASE ended
  <2>1. size - 2 * lines = chars
    BY <1>1, <1>3, <1>7
  <2>2. whole(lines)
    BY <1>1, <1>2, <2>1
  <2>3. lines \in fits
    BY <1>4, <2>2
  <2>4. Min(fits) = lines
    <3>1. \A l \in fits : lines <= l /\ l \in Nat
      BY <1>4, <1>6
    <3>2. fits \in SUBSET Nat
      BY <1>4
    <3> HIDE DEF fits
    <3> QED BY <2>3, <3>1, <3>2, LeastIs
  <2> HIDE DEF whole, fits
  <2> QED BY <1>5, <2>1, <2>2, <2>3, <2>4 DEF size, chars
<1>8. CASE ~ ended
  <2>1. size - 2 * (lines - 1) = chars /\ size - 2 * lines = chars - 2
    BY <1>1, <1>3, <1>8
  <2>2. open(lines)
    BY <1>1, <1>2, <2>1
  <2>3. ~ whole(lines)
    <3>1. (chars - 2) % 4 # 0
      BY <1>1
    <3> QED BY <2>1, <3>1
  <2>4. lines \in fits
    BY <1>4, <2>2
  <2>5. Min(fits) = lines
    <3>1. \A l \in fits : lines <= l /\ l \in Nat
      BY <1>4, <1>6
    <3>2. fits \in SUBSET Nat
      BY <1>4
    <3> HIDE DEF fits
    <3> QED BY <2>4, <3>1, <3>2, LeastIs
  <2> HIDE DEF whole, fits
  <2> QED BY <1>5, <2>1, <2>3, <2>4, <2>5 DEF size, chars
<1> QED BY <1>7, <1>8

(* How large a listing says that a part is.                                *)
LEMMA ListedWithin ==
  ASSUME NEW n \in Nat \ {0}, NEW ended \in BOOLEAN
  PROVE  ListedSize(n, ended) \in n - 1 .. n + 1
<1>1. ListedSize(n, ended) = 3 * (Characters(n) \div 4) - 1
  BY TransferIs, BodyOctetsExact DEF ListedSize
<1>2. Characters(n) \div 4 \in Nat /\ n <= 3 * (Characters(n) \div 4)
      /\ 3 * (Characters(n) \div 4) <= n + 2
  BY CharactersAre
<1> QED BY <1>1, <1>2

(* Where the characters of a part are: each in its place in its line, and  *)
(* nothing else is a character.                                            *)
Place(c) == c + 2 * (c \div Line)

LEMMA PlacesAre ==
  ASSUME NEW n \in Nat \ {0}, NEW ended \in BOOLEAN
  PROVE  /\ \A c \in 0 .. Characters(n) - 1 :
              /\ Place(c) \in 0 .. SizeOf(n, ended) - 1
              /\ Transfer(n, ended)[Place(c) + 1] = c
         /\ \A k \in 1 .. SizeOf(n, ended) :
              \/ Transfer(n, ended)[k] = Null
              \/ /\ Transfer(n, ended)[k] \in 0 .. Characters(n) - 1
                 /\ Place(Transfer(n, ended)[k]) + 1 = k
         /\ Place(Characters(n) - 1) >= SizeOf(n, ended) - 3
<1> DEFINE size  == SizeOf(n, ended)
           lines == Lines(n)
           chars == Characters(n)
           M     == Line + 2
           octets == Transfer(n, ended)
<1>1. Line \in Nat \ {0} /\ chars \in Nat /\ chars >= 4 /\ lines \in Nat \ {0} /\ size \in Nat \ {0}
  BY AttachmentsAssumption, CharactersAre, LinesAre, TransferIs
<1>2. (lines - 1) * Line < chars /\ chars <= lines * Line
  BY LinesAre
<1>3. size = chars + 2 * lines \/ size = chars + 2 * (lines - 1)
  BY DEF SizeOf
<1>4. M \in Nat \ {0}
  BY <1>1
<1>5. \A k \in 1 .. size :
        octets[k] = LET row  == (k - 1) \div M
                        char == row * Line + ((k - 1) % M)
                    IN  IF (k - 1) % M >= Line \/ char >= chars THEN Null ELSE char
  BY TransferIs
<1> HIDE DEF size, lines, chars, octets
<1>6. ASSUME NEW c \in 0 .. chars - 1
      PROVE  /\ c \div Line \in 0 .. lines - 1 /\ c % Line \in 0 .. Line - 1
             /\ c = (c \div Line) * Line + (c % Line)
             /\ Place(c) = M * (c \div Line) + (c % Line)
  <2> DEFINE row == c \div Line
             pos == c % Line
  <2>1. c \in Nat
    BY <1>1
  <2>2. row \in Nat /\ pos \in 0 .. Line - 1 /\ c = Line * row + pos
    BY <1>1, <2>1, DivisionIs
  <2>3. Place(c) = c + 2 * row
    BY DEF Place
  <2> HIDE DEF row, pos
  <2>4. Line * row = row * Line /\ M * row = row * Line + 2 * row /\ row * Line \in Nat
    BY <1>1, <2>2
  <2>5. row <= lines - 1
    <3> SUFFICES ASSUME lines <= row PROVE FALSE
      BY <1>1, <2>2
    <3>1. lines * Line <= row * Line
      BY <1>1, <2>2, Times
    <3>2. lines * Line \in Nat
      BY <1>1
    <3> QED BY <1>1, <1>2, <2>1, <2>2, <2>4, <3>1, <3>2
  <2>6. row \in 0 .. lines - 1 /\ c = row * Line + pos /\ Place(c) = M * row + pos
    <3> HIDE DEF M
    <3>1. M * row \in Int
      BY <1>4, <2>2
    <3> QED BY <1>1, <2>1, <2>2, <2>3, <2>4, <2>5, <3>1
  <2> QED BY <2>2, <2>6 DEF row, pos
<1>7. ASSUME NEW c \in 0 .. chars - 1
      PROVE  Place(c) \in 0 .. size - 1 /\ octets[Place(c) + 1] = c
  <2> DEFINE row == c \div Line
             pos == c % Line
  <2>1. row \in 0 .. lines - 1 /\ pos \in 0 .. Line - 1 /\ c = row * Line + pos
        /\ Place(c) = M * row + pos /\ Place(c) = c + 2 * row
    BY <1>6 DEF Place
  <2> HIDE DEF row, pos, M
  <2>2. Place(c) \in 0 .. size - 1
    BY <1>1, <1>3, <2>1
  <2>3. pos \in 0 .. M - 1 /\ row \in Nat
    BY <1>1, <2>1 DEF M
  <2>4. Place(c) \div M = row /\ Place(c) % M = pos
    BY <1>4, <2>1, <2>3, DivisionOnly
  <2>5. Place(c) + 1 \in 1 .. size /\ (Place(c) + 1) - 1 = Place(c)
    BY <1>1, <2>2
  <2>6. octets[Place(c) + 1] =
          IF pos >= Line \/ row * Line + pos >= chars THEN Null ELSE row * Line + pos
    BY <1>5, <2>4, <2>5
  <2>7. ~ (pos >= Line) /\ ~ (c >= chars)
    BY <1>1, <2>1
  <2> QED BY <2>1, <2>2, <2>6, <2>7
<1>8. ASSUME NEW k \in 1 .. size, octets[k] # Null
      PROVE  octets[k] \in 0 .. chars - 1 /\ Place(octets[k]) + 1 = k
  <2> DEFINE row == (k - 1) \div M
             pos == (k - 1) % M
  <2>1. k - 1 \in Nat
    BY <1>1
  <2>2. row \in Nat /\ pos \in 0 .. M - 1 /\ k - 1 = M * row + pos
    BY <1>4, <2>1, DivisionIs
  <2>3. octets[k] = IF pos >= Line \/ row * Line + pos >= chars THEN Null ELSE row * Line + pos
    BY <1>5
  <2> HIDE DEF row, pos
  <2>4. ~ (pos >= Line) /\ ~ (row * Line + pos >= chars) /\ octets[k] = row * Line + pos
    BY <1>8, <2>3
  <2>5. pos \in 0 .. Line - 1 /\ row * Line \in Nat /\ row * Line = Line * row
    BY <1>1, <2>2, <2>4
  <2>6. octets[k] \in 0 .. chars - 1
    BY <1>1, <2>4, <2>5
  <2>7. octets[k] \div Line = row
    BY <1>1, <2>2, <2>4, <2>5, DivisionOnly
  <2>8. M * row = Line * row + 2 * row /\ M * row \in Nat
    BY <1>1, <2>2
  <2>9. Place(octets[k]) = octets[k] + 2 * row
    BY <2>7 DEF Place
  <2>10. Place(octets[k]) + 1 = k
    <3> HIDE DEF M
    <3> QED BY <1>1, <2>1, <2>2, <2>4, <2>5, <2>8, <2>9
  <2> QED BY <2>6, <2>10
<1>9. Place(chars - 1) >= size - 3
  <2> DEFINE row == (chars - 1) \div Line
             pos == (chars - 1) % Line
  <2>1. chars - 1 \in 0 .. chars - 1
    BY <1>1
  <2>2. row \in 0 .. lines - 1 /\ pos \in 0 .. Line - 1 /\ chars - 1 = row * Line + pos
        /\ Place(chars - 1) = (chars - 1) + 2 * row
    BY <1>6, <2>1 DEF Place
  <2> HIDE DEF row, pos
  <2>3. row >= lines - 1
    <3> SUFFICES ASSUME row + 1 <= lines - 1 PROVE FALSE
      BY <1>1, <2>2
    <3>1. (row + 1) * Line <= (lines - 1) * Line /\ (row + 1) * Line = row * Line + Line
      BY <1>1, <2>2, Times
    <3>2. row * Line \in Nat /\ (lines - 1) * Line \in Int
      BY <1>1, <2>2
    <3> QED BY <1>1, <1>2, <2>2, <3>1, <3>2
  <2> QED BY <1>1, <1>3, <2>2, <2>3
<1> QED BY <1>7, <1>8, <1>9 DEF size, chars, octets

(* The places are in the order of the characters.                          *)
LEMMA PlacesInOrder ==
  ASSUME NEW c \in Nat, NEW d \in Nat
  PROVE  /\ Place(c) \in Nat
         /\ c < d => Place(c) < Place(d)
<1> DEFINE row == c \div Line
           tow == d \div Line
<1>1. Line \in Nat \ {0}
  BY AttachmentsAssumption
<1>2. row \in Nat /\ c % Line \in 0 .. Line - 1 /\ c = Line * row + (c % Line)
  BY <1>1, DivisionIs
<1>3. tow \in Nat /\ d % Line \in 0 .. Line - 1 /\ d = Line * tow + (d % Line)
  BY <1>1, DivisionIs
<1>4. Place(c) = c + 2 * row /\ Place(d) = d + 2 * tow
  BY DEF Place
<1> HIDE DEF row, tow
<1>5. ASSUME c < d PROVE row <= tow
  <2> SUFFICES ASSUME tow + 1 <= row PROVE FALSE
    BY <1>2, <1>3
  <2>1. (tow + 1) * Line <= row * Line
    BY <1>1, <1>2, <1>3, Times
  <2>2. row * Line = Line * row /\ (tow + 1) * Line = Line * tow + Line
        /\ Line * row \in Nat /\ Line * tow \in Nat
    BY <1>1, <1>2, <1>3
  <2> QED BY <1>1, <1>2, <1>3, <1>5, <2>1, <2>2
<1> QED BY <1>2, <1>3, <1>4, <1>5

(* What Kept defines by recursion, element by element.                     *)
LEMMA KeptStepwise ==
  ASSUME NEW V, NEW s \in Seq(V), NEW keep
  PROVE  /\ Kept(s, keep)[0] = <<>>
         /\ \A k \in 1 .. Len(s) :
              Kept(s, keep)[k] = IF s[k] \in keep THEN Append(Kept(s, keep)[k - 1], s[k])
                                 ELSE Kept(s, keep)[k - 1]
<1> DEFINE len  == Len(s)
           W    == Seq(V)
           On(k, v) == IF s[k] \in keep THEN Append(v, s[k]) ELSE v
           step == [k \in 1 .. len |-> [v \in W |-> On(k, v)]]
           IsKept(f) == f = [k \in 0 .. len |-> IF k = 0 THEN <<>> ELSE On(k, f[k - 1])]
<1>1. len \in Nat /\ \A k \in 1 .. len : s[k] \in V
  OBVIOUS
<1>2. \A k \in 1 .. len, v \in W : On(k, v) \in W
  BY <1>1
<1> HIDE DEF On
<1>3. step \in [1 .. len -> [W -> W]]
  <2> HIDE DEF W, len
  <2> QED BY <1>2
<1>4. PICK f \in [0 .. len -> W] : f[0] = <<>> /\ \A n \in 1 .. len : f[n] = step[n][f[n - 1]]
  <2>1. <<>> \in W
    OBVIOUS
  <2> HIDE DEF step, len, W
  <2>2. \E f : Follows(f, len, W, <<>>, step)
    BY <1>1, <1>3, <2>1, Recursion
  <2> QED BY <2>2 DEF Follows
<1>5. IsKept(f)
  <2> HIDE DEF W, len
  <2>1. \A n \in 0 .. len : f[n] = IF n = 0 THEN <<>> ELSE On(n, f[n - 1])
    <3> SUFFICES ASSUME NEW n \in 0 .. len, n # 0 PROVE f[n] = On(n, f[n - 1])
      BY <1>4
    <3>1. n \in 1 .. len /\ n - 1 \in 0 .. len
      BY <1>1
    <3>2. f[n - 1] \in W
      BY <1>4, <3>1
    <3> QED BY <1>4, <3>1, <3>2
  <2> HIDE DEF step
  <2> QED BY <1>4, <2>1
<1>6. IsKept(Kept(s, keep))
  <2>1. Kept(s, keep) = CHOOSE g : IsKept(g)
    BY Zenon DEF Kept, On
  <2> HIDE DEF IsKept
  <2> QED BY <1>5, <2>1
<1> DEFINE r == Kept(s, keep)
<1>7. r = [k \in 0 .. len |-> IF k = 0 THEN <<>> ELSE On(k, r[k - 1])]
  BY <1>6
<1> HIDE DEF r, len
<1>8. r[0] = <<>> /\ \A k \in 1 .. len : r[k] = On(k, r[k - 1])
  <2>1. 0 \in 0 .. len /\ \A k \in 1 .. len : k \in 0 .. len /\ k # 0
    BY <1>1
  <2> QED BY <1>7, <2>1
<1> QED BY <1>8 DEF r, len, On

(* The numbers from a to b - 1, in order.                                  *)
Row(a, b) == [j \in 1 .. b - a |-> a + j - 1]

(* pos tells where in s the numbers from a to b - 1 are, in this order, and*)
(* nothing else in s is in the set.                                        *)
Listed(s, keep, a, b, pos) ==
  /\ pos \in [a .. b - 1 -> 1 .. Len(s)]
  /\ \A c, d \in a .. b - 1 : c < d => pos[c] < pos[d]
  /\ \A c \in a .. b - 1 : s[pos[c]] = c /\ c \in keep
  /\ \A k \in 1 .. Len(s) : s[k] \in keep => s[k] \in a .. b - 1 /\ pos[s[k]] = k

(* If what s has of the set are those numbers, they are what is kept.      *)
LEMMA KeptRow ==
  ASSUME NEW V, NEW s \in Seq(V), NEW keep, NEW a \in Nat, NEW b \in Nat, a <= b,
         NEW pos, Listed(s, keep, a, b, pos)
  PROVE  Only(s, keep) = Row(a, b)
<1> DEFINE len == Len(s)
           kept == Kept(s, keep)
           Upto(k, m) == kept[k] = Row(a, m) /\ \A c \in a .. b - 1 : pos[c] <= k <=> c < m
           P == {k \in 0 .. len : \E m \in a .. b : Upto(k, m)}
<1>1. len \in Nat
  OBVIOUS
<1>2. kept[0] = <<>> /\ \A k \in 1 .. len :
        kept[k] = IF s[k] \in keep THEN Append(kept[k - 1], s[k]) ELSE kept[k - 1]
  BY KeptStepwise
<1>3. /\ \A c \in a .. b - 1 : pos[c] \in 1 .. len /\ s[pos[c]] = c /\ c \in keep
      /\ \A c, d \in a .. b - 1 : c < d => pos[c] < pos[d]
      /\ \A k \in 1 .. len : s[k] \in keep => s[k] \in a .. b - 1 /\ pos[s[k]] = k
  BY DEF Listed
<1> HIDE DEF kept, len
<1>4. 0 \in P
  <2>1. Row(a, a) = <<>>
    BY DEF Row
  <2>2. Upto(0, a)
    BY <1>1, <1>2, <1>3, <2>1
  <2> HIDE DEF Upto
  <2> QED BY <1>1, <2>2
<1>5. ASSUME NEW k \in 1 .. len, k - 1 \in P PROVE k \in P
  <2>0. k \in 0 .. len /\ k \in Nat
    BY <1>1
  <2>1. PICK m \in a .. b : Upto(k - 1, m)
    BY <1>5
  <2>2. CASE s[k] \in keep
    <3>1. s[k] \in a .. b - 1 /\ pos[s[k]] = k
      BY <1>3, <2>2
    <3>2. s[k] = m
      <4>1. ~ (s[k] < m)
        BY <1>1, <2>0, <2>1, <3>1
      <4>2. ASSUME m < s[k] PROVE FALSE
        <5>1. m \in a .. b - 1
          BY <3>1, <4>2
        <5>2. pos[m] < k /\ pos[m] \in Nat
          BY <1>1, <1>3, <3>1, <4>2, <5>1
        <5>3. pos[m] <= k - 1
          BY <2>0, <5>2
        <5> QED BY <2>1, <5>1, <5>3
      <4> QED BY <3>1, <4>1, <4>2
    <3>3. m \in a .. b - 1 /\ m + 1 \in a .. b /\ pos[m] = k
      BY <3>1, <3>2
    <3>4. kept[k] = Append(Row(a, m), m)
      BY <1>2, <2>1, <2>2, <3>2
    <3>5. Append(Row(a, m), m) = Row(a, m + 1)
      BY <3>3 DEF Row
    <3>6. ASSUME NEW c \in a .. b - 1 PROVE pos[c] <= k <=> c < m + 1
      <4>1. pos[c] \in Nat /\ pos[m] = k /\ m \in a .. b - 1
        BY <1>1, <1>3, <3>3
      <4>2. CASE c < m
        BY <2>0, <2>1, <3>3, <4>1, <4>2
      <4>3. CASE c = m
        BY <2>0, <3>3, <4>3
      <4>4. CASE m < c
        BY <1>3, <2>0, <4>1, <4>4
      <4> QED BY <3>3, <4>2, <4>3, <4>4
    <3>7. Upto(k, m + 1)
      BY <3>4, <3>5, <3>6
    <3> HIDE DEF Upto
    <3> QED BY <2>0, <3>3, <3>7
  <2>3. CASE s[k] \notin keep
    <3>1. kept[k] = Row(a, m)
      BY <1>2, <2>1, <2>3
    <3>2. ASSUME NEW c \in a .. b - 1 PROVE pos[c] <= k <=> c < m
      <4>1. pos[c] # k /\ pos[c] \in Nat
        BY <1>1, <1>3, <2>3
      <4> QED BY <2>0, <2>1, <4>1
    <3>3. Upto(k, m)
      BY <3>1, <3>2
    <3> HIDE DEF Upto
    <3> QED BY <2>0, <3>3
  <2> QED BY <2>2, <2>3
<1>6. len \in P
  <2>1. 0 + 1 .. len = 1 .. len /\ len \in 0 .. len
    BY <1>1
  <2> HIDE DEF P
  <2>2. 0 .. len \subseteq P
    BY <1>1, <1>4, <1>5, <2>1, Along
  <2> QED BY <2>1, <2>2
<1>7. PICK m \in a .. b : Upto(len, m)
  BY <1>6
<1>8. m = b
  <2> SUFFICES ASSUME m \in a .. b - 1 PROVE FALSE
    OBVIOUS
  <2>1. pos[m] <= len
    BY <1>1, <1>3
  <2> QED BY <1>7, <2>1
<1> QED BY <1>7, <1>8 DEF kept, len, Only

(* The size that the end of a part tells.                                  *)
LEMMA TailTells ==
  ASSUME NEW n \in Nat \ {0}, NEW ended \in BOOLEAN
  PROVE  SizeFromTail(Transfer(n, ended), n) = n
<1> DEFINE octets == Transfer(n, ended)
           size == SizeOf(n, ended)
           chars == Characters(n)
           from == IF size > TailSize THEN size - TailSize + 1 ELSE 1
           last == Place(chars - 1) + 1
           tail == {octets[k] : k \in from .. size} \ {Null}
<1>1. chars \in Nat /\ chars >= 4 /\ size \in Nat \ {0} /\ Len(octets) = size
      /\ TailSize \in Nat /\ TailSize > 2 /\ Null \notin Int
  BY CharactersAre, TransferIs, AttachmentsAssumption
<1>2. last \in 1 .. size /\ octets[last] = chars - 1 /\ last >= size - 2
  <2>1. /\ \A c \in 0 .. chars - 1 : Place(c) \in 0 .. size - 1 /\ octets[Place(c) + 1] = c
        /\ Place(chars - 1) >= size - 3
    BY PlacesAre
  <2>2. chars - 1 \in 0 .. chars - 1
    BY <1>1
  <2>3. Place(chars - 1) \in 0 .. size - 1
    BY <2>1, <2>2
  <2> HIDE DEF octets, size, chars
  <2> QED BY <1>1, <2>1, <2>2, <2>3
<1>3. SizeFromTail(octets, n) =
        3 * (Characters(n) \div 4) - (IF tail = {} THEN 0 ELSE (3 - (n % 3)) % 3)
  BY <1>1, BodyOctetsExact DEF SizeFromTail
<1>4. tail # {}
  <2> HIDE DEF octets, size, chars, last
  <2>1. last \in from .. size
    BY <1>1, <1>2
  <2>2. chars - 1 # Null
    BY <1>1
  <2> QED BY <1>2, <2>1, <2>2
<1>5. SizeFromTail(octets, n) = 3 * (Characters(n) \div 4) - ((3 - (n % 3)) % 3)
  <2> HIDE DEF tail
  <2> QED BY <1>3, <1>4
<1> QED BY <1>5, CharactersAre DEF octets

(* A window from the place of one character to that of another has the     *)
(* characters between them.                                                *)
LEMMA WindowHolds ==
  ASSUME NEW n \in Nat \ {0}, NEW ended \in BOOLEAN,
         NEW a \in Nat, NEW b \in Nat, a < b, b <= Characters(n)
  PROVE  LET size  == SizeOf(n, ended)
             first == TransferOffset(a, Characters(n), size)
             last  == TransferOffset(b, Characters(n), size)
             end   == IF last > size THEN size ELSE last
             part  == SubSeq(Transfer(n, ended), first + 1, end)
         IN  part \in Seq(Int \cup {Null}) /\ Only(part, Nat) = Row(a, b)
<1> DEFINE octets == Transfer(n, ended)
           size   == SizeOf(n, ended)
           chars  == Characters(n)
           first  == TransferOffset(a, chars, size)
           last   == TransferOffset(b, chars, size)
           end    == IF last > size THEN size ELSE last
           part   == SubSeq(octets, first + 1, end)
<1>1. chars \in Nat /\ chars >= 4 /\ size \in Nat \ {0}
      /\ Len(octets) = size /\ DOMAIN octets = 1 .. size
      /\ Null \notin Int /\ Line \in Nat \ {0}
  BY CharactersAre, TransferIs, AttachmentsAssumption
<1>2. /\ \A c \in 0 .. chars - 1 : Place(c) \in 0 .. size - 1 /\ octets[Place(c) + 1] = c
      /\ \A k \in 1 .. size : \/ octets[k] = Null
                              \/ octets[k] \in 0 .. chars - 1 /\ Place(octets[k]) + 1 = k
  BY PlacesAre
<1>3. \A c, d \in Nat : Place(c) \in Nat /\ (c < d => Place(c) < Place(d))
  BY PlacesInOrder
<1>4. octets \in Seq(Int \cup {Null})
  <2>1. octets = [k \in 1 .. size |-> octets[k]]
    BY DEF Transfer, SizeOf
  <2> HIDE DEF octets, size, chars
  <2>2. \A k \in 1 .. size : octets[k] \in Int \cup {Null}
    BY <1>1, <1>2
  <2> QED BY <1>1, <2>1, <2>2
<1>5. /\ first = Place(a) /\ end \in 0 .. size
      /\ \A c \in 0 .. chars - 1 : Place(c) < end <=> c < b
  <2>1. CASE size # chars
    <3>1. first = Place(a) /\ last = Place(b)
      BY <2>1 DEF TransferOffset, Place
    <3>2. last \in Nat /\ \A c \in 0 .. chars - 1 : Place(c) < last <=> c < b
      <4> HIDE DEF size, chars, octets, last
      <4>1. \A c \in 0 .. chars - 1 : c \in Nat
        BY <1>1
      <4>2. \A c \in Nat : (c < b => Place(c) < Place(b)) /\ (b < c => Place(b) < Place(c))
        BY <1>3
      <4>3. \A c \in Nat : c < b \/ c = b \/ b < c
        OBVIOUS
      <4>4. \A c \in Nat : Place(c) \in Nat
        BY <1>3
      <4>5. ASSUME NEW c \in 0 .. chars - 1 PROVE Place(c) < last <=> c < b
        <5>1. c \in Nat /\ Place(c) \in Nat /\ Place(b) \in Nat
          BY <4>1, <4>4
        <5> QED BY <3>1, <4>2, <4>3, <5>1
      <4> QED BY <3>1, <4>4, <4>5
    <3> HIDE DEF size, chars, octets, last, first
    <3>3. end \in 0 .. size
      BY <1>1, <3>2
    <3>4. ASSUME NEW c \in 0 .. chars - 1 PROVE Place(c) < end <=> c < b
      <4>1. Place(c) \in 0 .. size - 1 /\ (Place(c) < last <=> c < b)
        BY <1>2, <3>2
      <4> QED BY <1>1, <3>2, <4>1
    <3> QED BY <3>1, <3>3, <3>4
  <2>2. CASE size = chars
    <3>1. first = a /\ last = b
      BY <2>2 DEF TransferOffset
    <3>2. chars <= Line
      <4>1. Lines(n) \in Nat \ {0} /\ chars <= Lines(n) * Line
        BY LinesAre
      <4>2. Lines(n) = 1
        BY <1>1, <2>2, <4>1 DEF SizeOf
      <4> QED BY <1>1, <4>1, <4>2
    <3> HIDE DEF size, chars, octets, last, first
    <3>3. ASSUME NEW c \in 0 .. chars - 1 PROVE Place(c) = c
      <4>1. c \in 0 .. Line - 1 /\ Line * 0 + c = c
        BY <1>1, <3>2
      <4>2. c \div Line = 0
        BY <1>1, <4>1, DivisionOnly
      <4> QED BY <1>1, <4>2 DEF Place
    <3>4. end = b
      BY <1>1, <2>2, <3>1 DEF chars
    <3>5. a \in 0 .. chars - 1 /\ b \in 0 .. size
      BY <1>1, <2>2 DEF chars
    <3> QED BY <3>1, <3>3, <3>4, <3>5
  <2> QED BY <2>1, <2>2
<1> HIDE DEF octets, size, chars, first, last
<1>6. a \in 0 .. chars - 1 /\ b - 1 \in 0 .. chars - 1 /\ b - 1 < b /\ b <= chars
  BY <1>1 DEF chars
<1>7. first \in Nat /\ first < end
  <2>1. Place(b - 1) < end /\ Place(b - 1) \in Nat /\ Place(a) \in Nat
    BY <1>3, <1>5, <1>6
  <2>2. a = b - 1 \/ a < b - 1
    OBVIOUS
  <2>3. Place(a) <= Place(b - 1)
    BY <1>3, <1>6, <2>1, <2>2
  <2> HIDE DEF end
  <2> QED BY <1>1, <1>5, <2>1, <2>3
<1> HIDE DEF end
<1>8. /\ part \in Seq(Int \cup {Null}) /\ Len(part) = end - first
      /\ \A k \in 1 .. end - first : part[k] = octets[first + k]
  <2>1. first + 1 \in 1 .. size + 1 /\ end \in first .. size /\ end \in Nat
    BY <1>1, <1>5, <1>7
  <2>2. \A i \in first + 1 .. end : octets[i] \in Int \cup {Null}
    <3>1. \A i \in first + 1 .. end : i \in 1 .. size
      BY <1>1, <1>7, <2>1
    <3> QED BY <1>1, <1>4, <3>1
  <2>3. first + 1 \in Int /\ end \in Int /\ first + 1 <= end /\ end - (first + 1) + 1 = end - first
    BY <1>1, <1>7, <2>1
  <2>4. /\ part \in Seq(Int \cup {Null})
        /\ Len(part) = IF first + 1 <= end THEN end - (first + 1) + 1 ELSE 0
        /\ \A k \in 1 .. end - (first + 1) + 1 : part[k] = octets[(first + 1) + k - 1]
    BY <2>2, <2>3, SubSeqProperties
  <2>5. \A k \in 1 .. end - first : (first + 1) + k - 1 = first + k
    BY <1>7
  <2> HIDE DEF part
  <2> QED BY <2>3, <2>4, <2>5
<1> HIDE DEF part
<1> DEFINE pos == [c \in a .. b - 1 |-> Place(c) + 1 - first]
<1>9. ASSUME NEW c \in a .. b - 1
      PROVE  /\ c \in 0 .. chars - 1 /\ c \in Nat /\ pos[c] \in 1 .. Len(part)
             /\ part[pos[c]] = c
  <2>1. c \in 0 .. chars - 1 /\ c < b /\ c \in Nat
    BY <1>1, <1>6
  <2>2. Place(c) < end /\ Place(c) \in Nat /\ octets[Place(c) + 1] = c
    BY <1>2, <1>3, <1>5, <2>1
  <2>3. a = c \/ a < c
    OBVIOUS
  <2>4. Place(a) <= Place(c)
    BY <1>3, <2>1, <2>2, <2>3
  <2>5. pos[c] = Place(c) + 1 - first
    OBVIOUS
  <2>6. pos[c] \in 1 .. end - first /\ first + pos[c] = Place(c) + 1
    <3> HIDE DEF pos
    <3> QED BY <1>1, <1>5, <1>7, <2>2, <2>4, <2>5
  <2> HIDE DEF pos
  <2> QED BY <1>8, <2>1, <2>2, <2>6
<1>10. \A c, d \in a .. b - 1 : c < d => pos[c] < pos[d]
  <2> SUFFICES ASSUME NEW c \in a .. b - 1, NEW d \in a .. b - 1, c < d PROVE pos[c] < pos[d]
    OBVIOUS
  <2>1. Place(c) < Place(d) /\ Place(c) \in Nat /\ Place(d) \in Nat
    BY <1>3, <1>9
  <2> QED BY <1>7, <2>1
<1>11. ASSUME NEW k \in 1 .. Len(part), part[k] \in Nat
       PROVE  part[k] \in a .. b - 1 /\ pos[part[k]] = k
  <2>1. first + k \in 1 .. size /\ part[k] = octets[first + k] /\ first + k <= end /\ k \in Nat
    BY <1>1, <1>5, <1>7, <1>8
  <2>2. part[k] \in 0 .. chars - 1 /\ Place(part[k]) + 1 = first + k
    BY <1>1, <1>2, <1>11, <2>1
  <2>3. Place(part[k]) \in Nat /\ Place(part[k]) < end /\ Place(part[k]) >= first
    <3>1. Place(part[k]) \in Nat
      BY <1>3, <1>11
    <3>2. end \in Nat /\ first \in Nat /\ k >= 1
      BY <1>1, <1>5, <1>7
    <3> QED BY <2>1, <2>2, <3>1, <3>2
  <2>4. part[k] < b
    BY <1>5, <2>2, <2>3
  <2>5. ~ (part[k] < a)
    <3>1. part[k] < a => Place(part[k]) < Place(a)
      BY <1>3, <1>11
    <3> QED BY <1>5, <1>7, <2>3, <3>1
  <2>6. part[k] \in a .. b - 1
    BY <1>11, <2>4, <2>5
  <2>7. pos[part[k]] = Place(part[k]) + 1 - first
    BY <2>6
  <2> HIDE DEF pos
  <2> QED BY <1>7, <2>1, <2>2, <2>3, <2>6, <2>7
<1>12. pos \in [a .. b - 1 -> 1 .. Len(part)] /\ a <= b
  BY <1>9
<1>13. Only(part, Nat) = Row(a, b)
  <2> HIDE DEF pos
  <2>1. part \in Seq(Int \cup {Null})
    BY <1>8
  <2>2. \A c \in a .. b - 1 : part[pos[c]] = c /\ c \in Nat
    BY <1>9
  <2>3. \A k \in 1 .. Len(part) : part[k] \in Nat => part[k] \in a .. b - 1 /\ pos[part[k]] = k
    BY <1>11
  <2>4. Listed(part, Nat, a, b, pos)
    BY <1>10, <1>12, <2>2, <2>3 DEF Listed
  <2> QED BY <1>12, <2>1, <2>4, KeptRow
<1> QED BY <1>8, <1>13 DEF octets, size, chars, first, last, end, part

(* Whole groups of characters, decoded, up to the end of the part.         *)
LEMMA GroupsDecode ==
  ASSUME NEW n \in Nat \ {0}, NEW g \in Nat, NEW h \in Nat, g <= h, 3 * g <= n,
         NEW octets, Only(octets, Nat) = Row(4 * g, 4 * h)
  PROVE  /\ Decode(octets, n) = Row(3 * g, IF 3 * h > n THEN n ELSE 3 * h)
         /\ ~ Undecodable(octets)
<1> DEFINE chars  == Only(octets, Nat)
           groups == Len(chars) \div 4
           byte(k) == LET i == k \div 3 IN
                      IF chars[4 * i + 1] % 4 = 0
                      THEN 3 * (chars[4 * i + 1] \div 4) + (k % 3) ELSE Null
           bytes  == [k \in 1 .. 3 * groups |-> byte(k - 1)]
           keep   == {Null} \cup 0 .. n - 1
           upto   == IF 3 * h > n THEN n ELSE 3 * h
           pos    == [b \in 3 * g .. upto - 1 |-> b - 3 * g + 1]
<1>1. Decode(octets, n) = Only(bytes, keep)
  BY DEF Decode
<1>2. Len(chars) = 4 * h - 4 * g /\ \A j \in 1 .. 4 * h - 4 * g : chars[j] = 4 * g + j - 1
  <2>1. chars = [j \in 1 .. 4 * h - 4 * g |-> 4 * g + j - 1]
    BY DEF Row
  <2>2. 4 * h - 4 * g \in Nat
    OBVIOUS
  <2> HIDE DEF chars
  <2> QED BY <2>1, <2>2
<1>3. groups = h - g
  <2> HIDE DEF chars
  <2>1. Len(chars) = 4 * (h - g) /\ h - g \in Nat
    BY <1>2
  <2> QED BY <2>1
<1>0. ~ Undecodable(octets)
  <2>1. Undecodable(octets) <=> Len(chars) % 4 # 0
    BY DEF Undecodable
  <2> HIDE DEF chars
  <2>2. Len(chars) = 4 * (h - g) /\ h - g \in Nat
    BY <1>2
  <2> QED BY <2>1, <2>2
<1> HIDE DEF chars, groups
<1>4. ASSUME NEW k \in 1 .. 3 * (h - g) PROVE byte(k - 1) = 3 * g + k - 1
  <2> DEFINE i == (k - 1) \div 3
  <2>1. i \in 0 .. h - g - 1 /\ k - 1 = 3 * i + ((k - 1) % 3) /\ (k - 1) % 3 \in 0 .. 2
    OBVIOUS
  <2> HIDE DEF i
  <2>2. 4 * i + 1 \in 1 .. 4 * h - 4 * g
    BY <2>1
  <2>3. chars[4 * i + 1] = 4 * (g + i)
    BY <1>2, <2>1, <2>2
  <2>4. (4 * (g + i)) % 4 = 0 /\ (4 * (g + i)) \div 4 = g + i
    BY <2>1
  <2>5. byte(k - 1) = 3 * (g + i) + ((k - 1) % 3)
    BY <2>3, <2>4 DEF i
  <2> HIDE DEF byte
  <2> QED BY <2>1, <2>5
<1> HIDE DEF byte
<1>5. h - g \in Nat /\ 3 * groups = 3 * (h - g)
  BY <1>3
<1>6. bytes \in Seq(Int) /\ Len(bytes) = 3 * (h - g)
      /\ \A k \in 1 .. 3 * (h - g) : bytes[k] = 3 * g + k - 1
  <2>1. bytes = [k \in 1 .. 3 * (h - g) |-> 3 * g + k - 1]
    BY <1>4, <1>5
  <2> HIDE DEF bytes
  <2> QED BY <1>5, <2>1
<1> HIDE DEF bytes
<1>7. upto \in Nat /\ 3 * g <= upto /\ upto <= n /\ upto <= 3 * h
  OBVIOUS
<1>8. Listed(bytes, keep, 3 * g, upto, pos)
  <2>1. ASSUME NEW b \in 3 * g .. upto - 1
        PROVE  /\ pos[b] = b - 3 * g + 1 /\ pos[b] \in 1 .. 3 * (h - g)
               /\ bytes[pos[b]] = b /\ b \in keep
    <3>1. pos[b] = b - 3 * g + 1
      OBVIOUS
    <3>2. b - 3 * g + 1 \in 1 .. 3 * (h - g) /\ b \in 0 .. n - 1 /\ 3 * g + (b - 3 * g + 1) - 1 = b
      <4> HIDE DEF upto
      <4> QED BY <1>7
    <3> HIDE DEF pos, upto
    <3> QED BY <1>6, <3>1, <3>2
  <2>2. ASSUME NEW k \in 1 .. 3 * (h - g), bytes[k] \in keep
        PROVE  bytes[k] \in 3 * g .. upto - 1 /\ pos[bytes[k]] = k
    <3>1. bytes[k] = 3 * g + k - 1
      BY <1>6
    <3>2. bytes[k] # Null
      BY <3>1, AttachmentsAssumption
    <3>3. bytes[k] < n
      BY <2>2, <3>1, <3>2
    <3>4. bytes[k] \in 3 * g .. upto - 1
      BY <3>1, <3>3
    <3>5. pos[bytes[k]] = bytes[k] - 3 * g + 1
      BY <3>4
    <3> HIDE DEF pos, upto
    <3> QED BY <3>1, <3>4, <3>5
  <2>3. pos \in [3 * g .. upto - 1 -> 1 .. Len(bytes)]
    <3>1. \A b \in 3 * g .. upto - 1 : b - 3 * g + 1 \in 1 .. Len(bytes)
      BY <1>6, <2>1
    <3> HIDE DEF upto
    <3> QED BY <3>1
  <2>4. \A c, d \in 3 * g .. upto - 1 : c < d => pos[c] < pos[d]
    <3> SUFFICES ASSUME NEW c \in 3 * g .. upto - 1, NEW d \in 3 * g .. upto - 1, c < d
                 PROVE  pos[c] < pos[d]
      OBVIOUS
    <3>1. pos[c] = c - 3 * g + 1 /\ pos[d] = d - 3 * g + 1
      BY <2>1
    <3> HIDE DEF pos, upto
    <3> QED BY <1>7, <3>1
  <2>5. \A b \in 3 * g .. upto - 1 : bytes[pos[b]] = b /\ b \in keep
    BY <2>1
  <2>6. \A k \in 1 .. Len(bytes) :
          bytes[k] \in keep => bytes[k] \in 3 * g .. upto - 1 /\ pos[bytes[k]] = k
    BY <1>6, <2>2
  <2> HIDE DEF pos, upto, keep
  <2> QED BY <2>3, <2>4, <2>5, <2>6 DEF Listed
<1> HIDE DEF pos, upto, keep
<1>9. Only(bytes, keep) = Row(3 * g, upto)
  <2>1. 3 * g \in Nat
    OBVIOUS
  <2> QED BY <1>6, <1>7, <1>8, <2>1, KeptRow
<1> QED BY <1>0, <1>1, <1>5, <1>6, <1>9 DEF upto

(* The window of a range: whole groups, from that of its first byte to that*)
(* of its last.                                                            *)
LEMMA WindowDecodes ==
  ASSUME NEW n \in Nat \ {0}, NEW ended \in BOOLEAN,
         NEW offset \in Nat, NEW count \in Nat \ {0}, offset + count <= n
  PROVE  LET octets == Transfer(n, ended)
             w == TransferWindow(offset, count, Len(octets))
             g == offset \div 3
         IN  \E upto \in Nat :
               /\ offset + count <= upto
               /\ Decode(SubSeq(octets, w.first + 1, w.end), n) = Row(3 * g, upto)
               /\ ~ Undecodable(SubSeq(octets, w.first + 1, w.end))
<1> DEFINE octets == Transfer(n, ended)
           size   == SizeOf(n, ended)
           chars  == Characters(n)
           w      == TransferWindow(offset, count, Len(octets))
           g      == offset \div 3
           skip   == offset % 3
           m      == (skip + count + 2) \div 3
           q      == chars \div 4
           h      == IF g + m > q THEN q ELSE g + m
           first  == TransferOffset(4 * g, chars, size)
           last   == TransferOffset(4 * h, chars, size)
           end    == IF last > size THEN size ELSE last
           part   == SubSeq(octets, first + 1, end)
           upto   == IF 3 * h > n THEN n ELSE 3 * h
<1>1. chars \in Nat /\ chars = 4 * q /\ q \in Nat /\ n <= 3 * q
  BY CharactersAre
<1>2. g \in Nat /\ skip \in 0 .. 2 /\ offset = 3 * g + skip
  OBVIOUS
<1>3. m \in Nat /\ 3 * m >= skip + count /\ m >= 1
  <2> HIDE DEF skip
  <2> QED BY <1>2
<1>4. w.first = first /\ w.end = end
  <2> DEFINE stop == IF 4 * g + 4 * m > chars THEN chars ELSE 4 * g + 4 * m
             close == TransferOffset(stop, chars, size)
  <2>1. BodyOctets(Len(octets)) = chars /\ Len(octets) = size
    BY TransferIs, BodyOctetsExact
  <2>2. w.first = first /\ w.end = IF close > size THEN size ELSE close
    BY <2>1 DEF TransferWindow
  <2>3. stop = 4 * h
    <3> HIDE DEF chars, q, g, m, skip
    <3> QED BY <1>1, <1>2, <1>3
  <2> HIDE DEF w, octets, size, chars, stop, h
  <2> QED BY <2>2, <2>3
<1> HIDE DEF octets, size, w, skip, m, q, g, first, last, end
<1>5. h \in Nat /\ g < h /\ h <= q
  <2> HIDE DEF chars
  <2> QED BY <1>1, <1>2, <1>3
<1>6. 4 * g \in Nat /\ 4 * h \in Nat /\ 4 * g < 4 * h /\ 4 * h <= chars
  <2> HIDE DEF chars, h
  <2> QED BY <1>1, <1>2, <1>5
<1>7. Only(part, Nat) = Row(4 * g, 4 * h)
  <2> HIDE DEF h
  <2> QED BY <1>6, WindowHolds DEF octets, size, first, last, end
<1>8. upto \in Nat /\ offset + count <= upto
  <2> HIDE DEF chars
  <2> QED BY <1>1, <1>2, <1>3, <1>5
<1>9. Decode(part, n) = Row(3 * g, upto) /\ ~ Undecodable(part)
  <2>1. 3 * g <= n /\ g <= h
    <3> HIDE DEF h
    <3> QED BY <1>2, <1>5
  <2> HIDE DEF h, part
  <2> QED BY <1>2, <1>5, <1>7, <2>1, GroupsDecode
<1> HIDE DEF upto, part
<1>10. /\ offset + count <= upto
       /\ Decode(SubSeq(octets, w.first + 1, w.end), n) = Row(3 * g, upto)
       /\ ~ Undecodable(SubSeq(octets, w.first + 1, w.end))
  BY <1>4, <1>8, <1>9 DEF part
<1> QED BY <1>8, <1>10 DEF octets, w, g

(* A range read of a base64 part in lines of the standard length returns   *)
(* exactly the bytes of the range and the true size, without a fetch of    *)
(* the whole part, and fails only for a range behind the end; the listed   *)
(* size is within a byte of the true one.  So it is for parts of any size, *)
(* ranges of any length, and whether the last line is ended or not.        *)
(* _base64_body_octets finds the number of lines from the size alone,      *)
(* because no other number within its reach explains it (BodyOctetsExact); *)
(* _base64_transfer_offset then leads to the place of each character       *)
(* (PlacesAre), so that the window holds whole groups.                     *)
THEOREM RangeReadExact ==
  ASSUME NEW n \in Nat \ {0}, NEW ended \in BOOLEAN,
         NEW offset \in Nat, NEW max \in Nat \cup {Null}
  PROVE  RangeExact(n, ended, offset, max)
<1> DEFINE octets == Transfer(n, ended)
           stop   == Stop(offset, max, n)
           count  == stop - offset
           w      == TransferWindow(offset, count, Len(octets))
           part   == SubSeq(octets, w.first + 1, w.end)
           decoded == Decode(part, n)
           upto   == IF w.skip + count > Len(decoded) THEN Len(decoded) ELSE w.skip + count
           piece  == SubSeq(decoded, w.skip + 1, upto)
           got    == FetchRange(n, ended, offset, max)
<1>1. SizeFromTail(octets, n) = n
  BY TailTells
<1>2. got = IF offset > n \/ (count > 0 /\ Undecodable(part)) THEN [error |-> TRUE]
            ELSE IF count > 0 /\ Len(piece) < count
            THEN [error |-> FALSE, whole |-> TRUE, size |-> n,
                  bytes |-> SubSeq(Decode(octets, n), offset + 1, stop)]
            ELSE [error |-> FALSE, whole |-> FALSE, size |-> n,
                  bytes |-> IF count = 0 THEN <<>> ELSE piece]
  BY <1>1 DEF FetchRange, Piece
<1>3. ASSUME offset <= n PROVE stop \in Nat /\ offset <= stop /\ stop <= n /\ count \in Nat
  BY <1>3 DEF Stop
<1>4. ASSUME offset <= n, count # 0
      PROVE  ~ Undecodable(part) /\ piece = [k \in 1 .. count |-> offset + k - 1]
  <2> DEFINE g == offset \div 3
             skip == offset % 3
  <2>1. count \in Nat \ {0} /\ offset + count = stop /\ stop <= n /\ offset <= n
    <3> HIDE DEF stop
    <3> QED BY <1>3, <1>4
  <2>2. PICK end \in Nat : /\ offset + count <= end /\ decoded = Row(3 * g, end)
                           /\ ~ Undecodable(part)
    <3> HIDE DEF count, stop
    <3>1. count \in Nat \ {0} /\ offset + count <= n
      BY <2>1
    <3>2. \E end \in Nat : /\ offset + count <= end /\ decoded = Row(3 * g, end)
                          /\ ~ Undecodable(part)
      BY <3>1, WindowDecodes
    <3> QED BY <3>2
  <2>3. w.skip = skip
    BY DEF TransferWindow
  <2>4. g \in Nat /\ skip \in 0 .. 2 /\ offset = 3 * g + skip
    OBVIOUS
  <2> HIDE DEF w, octets, part, decoded, count, stop, g, skip
  <2>5. end - 3 * g \in Nat
    BY <2>1, <2>2, <2>4
  <2>6. decoded \in Seq(Int) /\ Len(decoded) = end - 3 * g
        /\ \A k \in 1 .. end - 3 * g : decoded[k] = 3 * g + k - 1
    <3>1. decoded = [j \in 1 .. end - 3 * g |-> 3 * g + j - 1]
      BY <2>2 DEF Row
    <3> QED BY <2>4, <2>5, <3>1
  <2>7. upto = skip + count
    BY <2>1, <2>2, <2>3, <2>4, <2>5, <2>6
  <2> HIDE DEF upto
  <2>8. skip + 1 \in Int /\ upto \in Int /\ skip + 1 <= upto /\ upto - (skip + 1) + 1 = count
        /\ \A i \in skip + 1 .. upto : i \in 1 .. end - 3 * g
    <3>1. skip \in Int /\ count \in Int /\ skip + count <= end - 3 * g /\ skip >= 0 /\ count >= 1
      BY <2>1, <2>2, <2>4
    <3> QED BY <2>5, <2>7, <3>1
  <2>9. ASSUME NEW i \in skip + 1 .. upto PROVE decoded[i] \in Int
    <3>1. i \in 1 .. end - 3 * g
      BY <2>8
    <3>2. decoded[i] = 3 * g + i - 1
      BY <2>6, <3>1
    <3> QED BY <2>4, <3>1, <3>2
  <2>10. /\ piece \in Seq(Int)
         /\ Len(piece) = IF skip + 1 <= upto THEN upto - (skip + 1) + 1 ELSE 0
         /\ \A k \in 1 .. upto - (skip + 1) + 1 : piece[k] = decoded[(skip + 1) + k - 1]
    BY <2>3, <2>8, <2>9, SubSeqProperties
  <2> HIDE DEF piece
  <2>11. ASSUME NEW k \in 1 .. count PROVE piece[k] = offset + k - 1
    <3>1. (skip + 1) + k - 1 \in skip + 1 .. upto /\ (skip + 1) + k - 1 = skip + k
      BY <2>1, <2>4, <2>7
    <3>2. piece[k] = 3 * g + (skip + k) - 1
      BY <2>6, <2>8, <2>10, <3>1
    <3> QED BY <2>1, <2>4, <3>2
  <2>12. piece \in Seq(Int) /\ Len(piece) = count
    BY <2>8, <2>10
  <2> QED BY <2>1, <2>2, <2>11, <2>12
<1>5. offset > n => got = [error |-> TRUE]
  BY <1>2
<1>6. ASSUME offset <= n
      PROVE  got = [error |-> FALSE, whole |-> FALSE, size |-> n,
                    bytes |-> [k \in 1 .. count |-> offset + k - 1]]
  <2>1. count \in Nat /\ ~ (offset > n) /\ (count # 0 => ~ Undecodable(part))
    BY <1>3, <1>4, <1>6
  <2>2. CASE count = 0
    <3>1. [k \in 1 .. count |-> offset + k - 1] = <<>>
      <4> HIDE DEF count
      <4> QED BY <2>2
    <3> HIDE DEF piece, part, count, got
    <3> QED BY <1>2, <2>1, <2>2, <3>1
  <2>3. CASE count # 0
    <3>1. piece = [k \in 1 .. count |-> offset + k - 1]
      BY <1>4, <1>6, <2>3
    <3> HIDE DEF piece, part, count, got
    <3>2. Len(piece) = count
      BY <2>1, <3>1
    <3> QED BY <1>2, <2>1, <2>3, <3>1, <3>2
  <2> QED BY <2>2, <2>3
<1>7. ListedSize(n, ended) \in n - 1 .. n + 1
  BY ListedWithin
<1>8. offset \in Nat /\ n \in Nat
  OBVIOUS
<1>9. got = IF offset > n THEN [error |-> TRUE]
            ELSE [error |-> FALSE, whole |-> FALSE, size |-> n,
                  bytes |-> [k \in 1 .. count |-> offset + k - 1]]
  <2> HIDE DEF got, count
  <2> QED BY <1>5, <1>6, <1>8
<1> QED BY <1>7, <1>9 DEF RangeExact

-------------------------------------------------------------------------------
(* Filters, and the threads get_thread collects                            *)

(* What a filter keeps: the elements that are in the set, in their order.  *)
KeptAt(s, keep, out, pos) ==
  /\ pos \in [1 .. Len(out) -> 1 .. Len(s)]
  /\ \A i, j \in 1 .. Len(out) : i < j => pos[i] < pos[j]
  /\ \A i \in 1 .. Len(out) : out[i] = s[pos[i]] /\ out[i] \in keep
  /\ \A k \in 1 .. Len(s) : s[k] \in keep => \E i \in 1 .. Len(out) : pos[i] = k

LEMMA OnlyIs ==
  ASSUME NEW V, NEW s \in Seq(V), NEW keep
  PROVE  Only(s, keep) \in Seq(V) /\ \E pos : KeptAt(s, keep, Only(s, keep), pos)
<1> DEFINE len == Len(s)
           kept == Kept(s, keep)
           Fits(k, out, pos) ==
             /\ pos \in [1 .. Len(out) -> 1 .. len]
             /\ \A i, j \in 1 .. Len(out) : i < j => pos[i] < pos[j]
             /\ \A i \in 1 .. Len(out) : out[i] = s[pos[i]] /\ out[i] \in keep /\ pos[i] <= k
             /\ \A l \in 1 .. k : s[l] \in keep => \E i \in 1 .. Len(out) : pos[i] = l
           P == {k \in 0 .. len : kept[k] \in Seq(V) /\ \E pos : Fits(k, kept[k], pos)}
<1>1. len \in Nat /\ \A k \in 1 .. len : s[k] \in V
  OBVIOUS
<1>2. kept[0] = <<>> /\ \A k \in 1 .. len :
        kept[k] = IF s[k] \in keep THEN Append(kept[k - 1], s[k]) ELSE kept[k - 1]
  BY KeptStepwise
<1> HIDE DEF kept, len
<1>3. 0 \in P
  <2>1. <<>> \in Seq(V) /\ Len(<<>>) = 0 /\ 1 .. 0 = {}
    OBVIOUS
  <2> DEFINE pos == [i \in 1 .. 0 |-> 1]
  <2>2. pos \in [1 .. 0 -> 1 .. len]
    OBVIOUS
  <2> HIDE DEF pos
  <2>3. Fits(0, <<>>, pos)
    BY <2>1, <2>2
  <2> HIDE DEF Fits
  <2>4. 0 \in 0 .. len
    BY <1>1
  <2> QED BY <1>2, <2>1, <2>3, <2>4
<1>4. ASSUME NEW k \in 1 .. len, k - 1 \in P PROVE k \in P
  <2>0. k \in 0 .. len /\ k - 1 \in 0 .. len
    BY <1>1
  <2>1. PICK pos : Fits(k - 1, kept[k - 1], pos)
    BY <1>4
  <2> DEFINE old == kept[k - 1]
             n == Len(old)
  <2>2. old \in Seq(V) /\ n \in Nat
    BY <1>4
  <2>3. CASE s[k] \notin keep
    <3>1. kept[k] = old
      BY <1>2, <2>3
    <3>2. Fits(k, old, pos)
      <4>1. \A i \in 1 .. n : pos[i] <= k
        BY <1>1, <2>0, <2>1, <2>2
      <4>2. \A l \in 1 .. k : l = k \/ l \in 1 .. k - 1
        BY <1>1
      <4> HIDE DEF old
      <4> QED BY <2>1, <2>3, <4>1, <4>2 DEF old
    <3> HIDE DEF Fits
    <3> QED BY <2>0, <2>2, <3>1, <3>2
  <2>4. CASE s[k] \in keep
    <3> DEFINE new == [i \in 1 .. n + 1 |-> IF i = n + 1 THEN k ELSE pos[i]]
               out == Append(old, s[k])
    <3>1. kept[k] = out
      BY <1>2, <2>4
    <3>2. out \in Seq(V) /\ Len(out) = n + 1 /\ out[n + 1] = s[k] /\ \A i \in 1 .. n : out[i] = old[i]
      BY <1>1, <2>2
    <3>3. \A i \in 1 .. n : pos[i] \in 1 .. len /\ pos[i] <= k - 1 /\ old[i] = s[pos[i]] /\ old[i] \in keep
      BY <2>1
    <3> HIDE DEF old, out
    <3>4. new \in [1 .. n + 1 -> 1 .. len] /\ new[n + 1] = k /\ \A i \in 1 .. n : new[i] = pos[i]
      <4> HIDE DEF n
      <4>1. \A i \in 1 .. n + 1 : i = n + 1 \/ i \in 1 .. n
        BY <2>2
      <4>2. n + 1 \in 1 .. n + 1 /\ \A i \in 1 .. n : i \in 1 .. n + 1 /\ i # n + 1
        BY <2>2
      <4> QED BY <3>3, <4>1, <4>2
    <3> HIDE DEF new, n
    <3>5. \A i, j \in 1 .. n + 1 : i < j => new[i] < new[j]
      <4> SUFFICES ASSUME NEW i \in 1 .. n + 1, NEW j \in 1 .. n + 1, i < j PROVE new[i] < new[j]
        OBVIOUS
      <4>1. i \in 1 .. n
        BY <2>2
      <4>2. CASE j = n + 1
        BY <1>1, <3>3, <3>4, <4>1, <4>2
      <4>3. CASE j # n + 1
        <5>1. j \in 1 .. n
          BY <2>2, <4>3
        <5> QED BY <2>1, <3>4, <4>1, <5>1 DEF n, old
      <4> QED BY <4>2, <4>3
    <3>6. \A i \in 1 .. n + 1 : out[i] = s[new[i]] /\ out[i] \in keep /\ new[i] <= k
      <4> SUFFICES ASSUME NEW i \in 1 .. n + 1 PROVE out[i] = s[new[i]] /\ out[i] \in keep /\ new[i] <= k
        OBVIOUS
      <4>1. CASE i = n + 1
        BY <2>0, <2>4, <3>2, <3>4, <4>1
      <4>2. CASE i # n + 1
        <5>1. i \in 1 .. n
          BY <2>2, <4>2
        <5> QED BY <1>1, <3>2, <3>3, <3>4, <5>1
      <4> QED BY <4>1, <4>2
    <3>7. \A l \in 1 .. k : s[l] \in keep => \E i \in 1 .. n + 1 : new[i] = l
      <4> SUFFICES ASSUME NEW l \in 1 .. k, s[l] \in keep PROVE \E i \in 1 .. n + 1 : new[i] = l
        OBVIOUS
      <4>1. CASE l = k
        <5>1. n + 1 \in 1 .. n + 1
          BY <2>2
        <5> QED BY <3>4, <4>1, <5>1
      <4>2. CASE l # k
        <5>1. l \in 1 .. k - 1
          BY <1>1, <4>2
        <5>2. PICK i \in 1 .. n : pos[i] = l
          BY <2>1, <5>1 DEF n, old
        <5>3. i \in 1 .. n + 1
          BY <2>2
        <5> QED BY <3>4, <5>2, <5>3
      <4> QED BY <4>1, <4>2
    <3>8. Fits(k, out, new)
      BY <3>2, <3>4, <3>5, <3>6, <3>7
    <3> HIDE DEF Fits
    <3> QED BY <2>0, <3>1, <3>2, <3>8
  <2> QED BY <2>3, <2>4
<1>5. len \in P
  <2>1. 0 + 1 .. len = 1 .. len /\ len \in 0 .. len
    BY <1>1
  <2> HIDE DEF P
  <2>2. 0 .. len \subseteq P
    BY <1>1, <1>3, <1>4, <2>1, Along
  <2> QED BY <2>1, <2>2
<1>6. Only(s, keep) = kept[len]
  BY DEF Only, kept, len
<1>7. PICK pos : Fits(len, kept[len], pos)
  BY <1>5
<1>8. KeptAt(s, keep, kept[len], pos)
  BY <1>7 DEF KeptAt, len
<1> QED BY <1>5, <1>6, <1>8

-------------------------------------------------------------------------------
(* The messages of an account and the ids that they name.                  *)
Messages(t) == DOMAIN t.parent

(* What Headers defines by recursion.                                      *)
LEMMA HeadersAre ==
  ASSUME NEW t, IsAccount(t)
  PROVE  \A m \in Messages(t) :
           Headers(t)[m] = IF t.parent[m] = 0 THEN {} ELSE {t.parent[m]} \cup Headers(t)[t.parent[m]]
<1> DEFINE n == Len(t.parent)
           W == SUBSET (1 .. n)
           On(f, m) == IF t.parent[m] = 0 THEN {} ELSE {t.parent[m]} \cup f[t.parent[m]]
           IsRefs(f) == f = [m \in 1 .. n |-> On(f, m)]
           Fits(f, k) == \A m \in 1 .. k : f[m] = On(f, m)
           P == {k \in 0 .. n : \E f \in [1 .. n -> W] : Fits(f, k)}
<1>1. /\ n \in Nat /\ Messages(t) = 1 .. n /\ DOMAIN t.parent = 1 .. n
      /\ \A m \in 1 .. n : t.parent[m] \in 0 .. m - 1
  BY DEF IsAccount, Messages
<1> HIDE DEF n
<1>2. 0 \in P
  <2> DEFINE f == [m \in 1 .. n |-> {}]
  <2>1. f \in [1 .. n -> W] /\ 1 .. 0 = {} /\ 0 \in 0 .. n
    BY <1>1
  <2> HIDE DEF f, W
  <2>2. Fits(f, 0)
    BY <2>1
  <2> HIDE DEF Fits
  <2> QED BY <2>1, <2>2
<1>3. ASSUME NEW k \in 1 .. n, k - 1 \in P PROVE k \in P
  <2>1. PICK f \in [1 .. n -> W] : Fits(f, k - 1)
    BY <1>3
  <2>2. t.parent[k] \in 0 .. k - 1 /\ k \in Nat
    BY <1>1
  <2> DEFINE v == On(f, k)
             g == [f EXCEPT ![k] = v]
  <2>3. v \in W
    <3>1. CASE t.parent[k] = 0
      BY <3>1
    <3>2. CASE t.parent[k] # 0
      <4>1. t.parent[k] \in 1 .. n
        BY <1>1, <2>2, <3>2
      <4>2. f[t.parent[k]] \in W
        BY <2>1, <4>1
      <4> QED BY <3>2, <4>1, <4>2
    <3> QED BY <3>1, <3>2
  <2> HIDE DEF v, W
  <2>4. g \in [1 .. n -> W] /\ g[k] = v /\ \A m \in 1 .. n : m # k => g[m] = f[m]
    BY <2>1, <2>3
  <2> HIDE DEF g
  <2>5. ASSUME NEW m \in 1 .. k PROVE g[m] = On(g, m)
    <3>1. m \in 1 .. n /\ t.parent[m] \in 0 .. m - 1
      BY <1>1
    <3>2. t.parent[m] # 0 => t.parent[m] \in 1 .. n /\ t.parent[m] # k
      BY <1>1, <3>1
    <3>3. On(g, m) = On(f, m)
      BY <2>4, <3>2
    <3>4. CASE m = k
      BY <2>4, <3>3, <3>4 DEF v
    <3>5. CASE m # k
      <4>1. m \in 1 .. k - 1
        BY <1>1, <3>5
      <4> HIDE DEF On
      <4> QED BY <2>1, <2>4, <3>1, <3>3, <3>5, <4>1
    <3> QED BY <3>4, <3>5
  <2>6. Fits(g, k)
    <3> HIDE DEF On
    <3> QED BY <2>5
  <2>7. k \in 0 .. n
    BY <1>1
  <2> HIDE DEF Fits
  <2> QED BY <2>4, <2>6, <2>7
<1>4. n \in P
  <2>1. 0 + 1 .. n = 1 .. n /\ n \in 0 .. n
    BY <1>1
  <2> HIDE DEF P
  <2>2. 0 .. n \subseteq P
    BY <1>1, <1>2, <1>3, <2>1, Along
  <2> QED BY <2>1, <2>2
<1>5. PICK f \in [1 .. n -> W] : Fits(f, n)
  BY <1>4
<1>6. IsRefs(f)
  <2> HIDE DEF On
  <2> QED BY <1>5
<1>7. IsRefs(Headers(t))
  <2>1. Headers(t) = CHOOSE g : g = [m \in DOMAIN t.parent |-> On(g, m)]
    BY Zenon DEF Headers
  <2>2. Headers(t) = CHOOSE g : IsRefs(g)
    BY <1>1, <2>1
  <2> HIDE DEF IsRefs
  <2> QED BY <1>6, <2>2
<1> DEFINE r == Headers(t)
<1>8. r = [m \in 1 .. n |-> On(r, m)]
  BY <1>7
<1> HIDE DEF r
<1>9. \A m \in 1 .. n : r[m] = On(r, m)
  <2> HIDE DEF On
  <2> QED BY <1>8
<1> QED BY <1>1, <1>9 DEF r

LEMMA NamedIs ==
  ASSUME NEW t, IsAccount(t), NEW m \in Messages(t)
  PROVE  /\ m \in Named(t, m)
         /\ t.parent[m] = 0 => Named(t, m) = {m}
         /\ t.parent[m] # 0 => /\ t.parent[m] \in Messages(t) /\ t.parent[m] < m
                               /\ Named(t, m) = {m} \cup Named(t, t.parent[m])
<1>1. Headers(t)[m] = IF t.parent[m] = 0 THEN {} ELSE {t.parent[m]} \cup Headers(t)[t.parent[m]]
  BY HeadersAre
<1>2. t.parent[m] \in Nat /\ t.parent[m] < m /\ m \in 1 .. Len(t.parent) /\ Messages(t) = 1 .. Len(t.parent)
  BY DEF IsAccount, Messages
<1>3. t.parent[m] # 0 => t.parent[m] \in 1 .. Len(t.parent)
  BY <1>2
<1> QED BY <1>1, <1>2, <1>3 DEF Named, References

(* The ids that a message names have the first message of its conversation *)
(* in common, and so have those of each message it names.                  *)
LEMMA Rooted ==
  ASSUME NEW t, IsAccount(t), NEW m \in Messages(t)
  PROVE  /\ Named(t, m) \subseteq Messages(t)
         /\ \A x \in Named(t, m) : Named(t, x) \subseteq Named(t, m)
         /\ \E r \in Named(t, m) : Named(t, r) = {r} /\ \A x \in Named(t, m) : r \in Named(t, x)
<1> DEFINE n == Len(t.parent)
           Good(i) == /\ Named(t, i) \subseteq 1 .. n
                      /\ \A x \in Named(t, i) : Named(t, x) \subseteq Named(t, i)
                      /\ \E r \in Named(t, i) : Named(t, r) = {r} /\ \A x \in Named(t, i) : r \in Named(t, x)
           P == {k \in 0 .. n : \A i \in 1 .. k : Good(i)}
<1>1. n \in Nat /\ Messages(t) = 1 .. n
  BY DEF IsAccount, Messages
<1> HIDE DEF n
<1>2. 0 \in P
  BY <1>1
<1>3. ASSUME NEW k \in 1 .. n, k - 1 \in P PROVE k \in P
  <2>1. \A i \in 1 .. k - 1 : Good(i)
    BY <1>3
  <2>2. /\ k \in Named(t, k)
        /\ t.parent[k] = 0 => Named(t, k) = {k}
        /\ t.parent[k] # 0 => /\ t.parent[k] \in 1 .. n /\ t.parent[k] < k
                              /\ Named(t, k) = {k} \cup Named(t, t.parent[k])
    BY <1>1, NamedIs
  <2>3. Good(k)
    <3>1. CASE t.parent[k] = 0
      BY <2>2, <3>1
    <3>2. CASE t.parent[k] # 0
      <4> DEFINE p == t.parent[k]
      <4>1. p \in 1 .. k - 1 /\ Named(t, k) = {k} \cup Named(t, p)
        BY <1>1, <2>2, <3>2
      <4> HIDE DEF p, Good
      <4>2. Good(p)
        BY <2>1, <4>1
      <4> USE DEF Good
      <4>3. PICK r \in Named(t, p) : Named(t, r) = {r} /\ \A x \in Named(t, p) : r \in Named(t, x)
        BY <4>2
      <4>4. \A x \in Named(t, k) : r \in Named(t, x) /\ Named(t, x) \subseteq Named(t, k)
        BY <4>1, <4>2, <4>3
      <4> QED BY <4>1, <4>2, <4>3, <4>4
    <3> QED BY <3>1, <3>2
  <2>4. \A i \in 1 .. k : i = k \/ i \in 1 .. k - 1
    BY <1>1
  <2> HIDE DEF Good
  <2>5. k \in 0 .. n
    BY <1>1
  <2> QED BY <2>1, <2>3, <2>4, <2>5
<1>4. m \in P /\ m \in 1 .. m
  <2>1. 0 + 1 .. n = 1 .. n /\ m \in 0 .. n /\ m \in 1 .. m
    BY <1>1
  <2> HIDE DEF P
  <2>2. 0 .. n \subseteq P
    BY <1>1, <1>2, <1>3, <2>1, Along
  <2> QED BY <2>1, <2>2
<1>5. Good(m)
  <2> HIDE DEF Good
  <2> QED BY <1>4
<1> QED BY <1>1, <1>5

(* A message that names one of the conversation is of it, and so are all   *)
(* that it names.                                                          *)
LEMMA ConversationCloses ==
  ASSUME NEW t, IsAccount(t), NEW a \in Messages(t), NEW m \in Messages(t),
         Named(t, m) \cap Conversation(t, a) # {}
  PROVE  m \in Conversation(t, a) /\ Named(t, m) \subseteq Conversation(t, a)
<1>1. PICK y \in Named(t, m) : y \in Messages(t) /\ Named(t, y) \cap Named(t, a) # {}
  BY DEF Conversation, Messages
<1>2. PICK z \in Named(t, y) : z \in Named(t, a)
  BY <1>1
<1>3. z \in Named(t, m)
  BY <1>1, <1>2, Rooted
<1>4. PICK r \in Named(t, m) : Named(t, r) = {r} /\ \A x \in Named(t, m) : r \in Named(t, x)
  BY Rooted
<1>5. PICK s \in Named(t, a) : Named(t, s) = {s} /\ \A x \in Named(t, a) : s \in Named(t, x)
  BY Rooted
<1>6. r = s
  <2>1. s \in Named(t, z) /\ z \in Messages(t)
    BY <1>2, <1>3, <1>5, Rooted
  <2>2. s \in Named(t, m)
    BY <1>3, <2>1, Rooted
  <2> QED BY <1>4, <1>5, <2>2
<1>7. ASSUME NEW x \in Named(t, m) PROVE x \in Conversation(t, a)
  <2>1. x \in Messages(t)
    BY <1>7, Rooted
  <2>2. s \in Named(t, x)
    BY <1>4, <1>6
  <2> QED BY <1>5, <2>1, <2>2 DEF Conversation, Messages
<1>8. m \in Named(t, m)
  BY NamedIs
<1> QED BY <1>7, <1>8

(* There is a least number.                                                *)
LEMMA LeastThere ==
  ASSUME NEW S \in SUBSET Nat, S # {}
  PROVE  Min(S) \in S /\ \A x \in S : Min(S) <= x
<1> DEFINE less == {p \in Nat \X Nat : p[1] < p[2]}
<1>1. IsWellFoundedOn(less, Nat)
  BY NatLessThanWellFounded DEF OpToRel
<1>2. PICK m \in S : \A j \in S : ~ (<<j, m>> \in less)
  <2> HIDE DEF less
  <2> QED BY <1>1, WFMin
<1>3. \A x \in S : m <= x
  <2>1. \A j \in S : j \in Nat /\ m \in Nat /\ (j < m => <<j, m>> \in less)
    OBVIOUS
  <2> HIDE DEF less
  <2>2. \A j \in S : ~ (j < m)
    BY <1>2, <2>1
  <2> QED BY <2>1, <2>2
<1>4. Min(S) = m
  BY <1>3, LeastIs
<1> QED BY <1>3, <1>4

(* The candidates that Mail lists: a copy in a folder that opens, with a   *)
(* subject that contains the anchor's.                                     *)
Listable(t) == {c \in Messages(t) \X Folders :
                  /\ c[2] \in t.open /\ c[1] \in t.subject /\ c[2] \in t.where[c[1]]}
RowOf(t, c) == [id |-> c, rfc |-> c[1], names |-> Named(t, c[1])]

LEMMA ElementsOf ==
  ASSUME NEW V, NEW s \in Seq(V)
  PROVE  Len(s) \in Nat /\ DOMAIN s = 1 .. Len(s) /\ \A i \in 1 .. Len(s) : s[i] \in V
OBVIOUS

LEMMA FolderHitsAre ==
  ASSUME NEW t, IsAccount(t), NEW f \in Folders
  PROVE  LET rows == FolderHits(t, f)
         IN  /\ rows \in Seq(Candidate(Messages(t) \X Folders, Messages(t)))
             /\ \A k \in DOMAIN rows : \E c \in Listable(t) : rows[k] = RowOf(t, c)
             /\ \A c \in Listable(t) : c[2] = f => \E k \in DOMAIN rows : rows[k] = RowOf(t, c)
<1> DEFINE n      == Len(t.parent)
           hits   == IF f \in t.open THEN In(t, f) \cap t.subject ELSE {}
           order  == Reverse([m \in DOMAIN t.parent |-> m])
           newest == Only(order, hits)
           I      == Messages(t) \X Folders
           rows   == [i \in DOMAIN newest |->
                        [id |-> <<newest[i], f>>, rfc |-> newest[i], names |-> Named(t, newest[i])]]
<1>1. n \in Nat /\ Messages(t) = 1 .. n /\ DOMAIN t.parent = 1 .. n
  BY DEF IsAccount, Messages
<1>2. order \in Seq(1 .. n) /\ Len(order) = n /\ \A m \in 1 .. n : order[n - m + 1] = m
  <2>1. [m \in DOMAIN t.parent |-> m] \in Seq(1 .. n) /\ Len([m \in DOMAIN t.parent |-> m]) = n
    <3> HIDE DEF n
    <3> QED BY <1>1
  <2>2. order = [i \in 1 .. n |-> n - i + 1]
    <3> HIDE DEF n
    <3> QED BY <1>1, <2>1 DEF Reverse
  <2> HIDE DEF order, n
  <2> QED BY <1>1, <2>2
<1> HIDE DEF order, n
<1>3. PICK pos : newest \in Seq(1 .. n) /\ KeptAt(order, hits, newest, pos)
  <2> HIDE DEF hits
  <2> QED BY <1>2, OnlyIs
<1>4. FolderHits(t, f) = rows
  BY DEF FolderHits, order
<1> HIDE DEF newest
<1>5. \A i \in DOMAIN newest : newest[i] \in 1 .. n /\ newest[i] \in hits
  <2> HIDE DEF hits
  <2>0. newest \in Seq(1 .. n)
    BY <1>3
  <2>1. DOMAIN newest = 1 .. Len(newest) /\ \A i \in 1 .. Len(newest) : newest[i] \in 1 .. n
    BY <2>0, ElementsOf
  <2>2. \A i \in 1 .. Len(newest) : newest[i] \in hits
    BY <1>3 DEF KeptAt
  <2> QED BY <2>1, <2>2
<1>6. ASSUME NEW m \in 1 .. n, m \in hits PROVE \E i \in DOMAIN newest : newest[i] = m
  <2>1. n - m + 1 \in 1 .. n /\ order[n - m + 1] = m
    BY <1>1, <1>2
  <2>2. PICK i \in 1 .. Len(newest) : pos[i] = n - m + 1
    BY <1>2, <1>3, <1>6, <2>1 DEF KeptAt
  <2>3. newest[i] = m /\ i \in DOMAIN newest
    BY <1>3, <2>1, <2>2 DEF KeptAt
  <2> QED BY <2>3
<1>7. rows \in Seq(Candidate(I, Messages(t)))
  <2>1. ASSUME NEW i \in DOMAIN newest PROVE rows[i] \in Candidate(I, Messages(t))
    <3>1. newest[i] \in Messages(t)
      BY <1>1, <1>5
    <3>2. Named(t, newest[i]) \subseteq Messages(t)
      BY <3>1, Rooted
    <3> QED BY <3>1, <3>2 DEF Candidate
  <2>2. DOMAIN newest = 1 .. Len(newest) /\ Len(newest) \in Nat
    BY <1>3
  <2>3. rows \in [1 .. Len(newest) -> Candidate(I, Messages(t))]
    <3> HIDE DEF I
    <3> QED BY <2>1, <2>2
  <2> HIDE DEF rows, I
  <2> QED BY <2>2, <2>3
<1>8. \A m \in 1 .. n : m \in hits <=> <<m, f>> \in Listable(t)
  BY <1>1 DEF Listable, In
<1>9. ASSUME NEW k \in DOMAIN rows PROVE \E c \in Listable(t) : rows[k] = RowOf(t, c)
  <2>1. <<newest[k], f>> \in Listable(t)
    BY <1>5, <1>8
  <2>2. rows[k] = RowOf(t, <<newest[k], f>>)
    BY DEF RowOf
  <2> QED BY <2>1, <2>2
<1>10. ASSUME NEW c \in Listable(t), c[2] = f PROVE \E k \in DOMAIN rows : rows[k] = RowOf(t, c)
  <2>1. c[1] \in 1 .. n /\ c = <<c[1], f>>
    BY <1>1, <1>10 DEF Listable
  <2>2. c[1] \in hits
    BY <1>8, <2>1
  <2> HIDE DEF hits
  <2>3. PICK i \in DOMAIN newest : newest[i] = c[1]
    BY <1>6, <2>1, <2>2
  <2>4. rows[i] = RowOf(t, c)
    BY <2>1, <2>3 DEF RowOf
  <2> QED BY <2>4
<1> HIDE DEF rows
<1> QED BY <1>4, <1>7, <1>9, <1>10

LEMMA SubjectHitsAre ==
  ASSUME NEW t, IsAccount(t)
  PROVE  LET rows == SubjectHits(t)
         IN  /\ rows \in Seq(Candidate(Messages(t) \X Folders, Messages(t)))
             /\ \A k \in DOMAIN rows : \E c \in Listable(t) : rows[k] = RowOf(t, c)
             /\ \A c \in Listable(t) : \E k \in DOMAIN rows : rows[k] = RowOf(t, c)
<1> DEFINE V == Candidate(Messages(t) \X Folders, Messages(t))
           Rows(s) == /\ s \in Seq(V)
                      /\ \A k \in DOMAIN s : \E c \in Listable(t) : s[k] = RowOf(t, c)
           Has(s, f) == \A c \in Listable(t) : c[2] = f => \E k \in DOMAIN s : s[k] = RowOf(t, c)
           x == FolderHits(t, Inbox)
           y == FolderHits(t, Sent)
           z == FolderHits(t, Trash)
<1>1. Inbox \in Folders /\ Sent \in Folders /\ Trash \in Folders
  BY DEF Folders
<1>2. Rows(x) /\ Has(x, Inbox) /\ Rows(y) /\ Has(y, Sent) /\ Rows(z) /\ Has(z, Trash)
  BY <1>1, FolderHitsAre
<1>3. SubjectHits(t) = (x \o y) \o z
  BY DEF SubjectHits
<1> HIDE DEF x, y, z
<1>4. ASSUME NEW u, NEW v, Rows(u), Rows(v)
      PROVE  Rows(u \o v) /\ \A f : Has(u, f) \/ Has(v, f) => Has(u \o v, f)
  <2> DEFINE w == u \o v
  <2>0. u \in Seq(V) /\ v \in Seq(V)
    BY <1>4
  <2>1. /\ w \in Seq(V) /\ Len(w) = Len(u) + Len(v) /\ Len(u) \in Nat /\ Len(v) \in Nat
        /\ DOMAIN u = 1 .. Len(u) /\ DOMAIN v = 1 .. Len(v) /\ DOMAIN w = 1 .. Len(w)
        /\ \A k \in 1 .. Len(u) : w[k] = u[k]
        /\ \A k \in 1 .. Len(v) : w[Len(u) + k] = v[k]
    <3> HIDE DEF V
    <3> QED BY <2>0
  <2> HIDE DEF w, V
  <2>2. \A k \in 1 .. Len(w) : k \in 1 .. Len(u) \/ (k - Len(u) \in 1 .. Len(v) /\ k = Len(u) + (k - Len(u)))
    BY <2>1
  <2>3. Rows(w)
    <3> SUFFICES ASSUME NEW k \in 1 .. Len(w) PROVE \E c \in Listable(t) : w[k] = RowOf(t, c)
      BY <2>1
    <3>1. CASE k \in 1 .. Len(u)
      BY <1>4, <2>1, <3>1
    <3>2. CASE k - Len(u) \in 1 .. Len(v) /\ k = Len(u) + (k - Len(u))
      <4>1. w[k] = v[k - Len(u)]
        BY <2>1, <3>2
      <4> QED BY <1>4, <2>1, <3>2, <4>1
    <3> QED BY <2>2, <3>1, <3>2
  <2>4. ASSUME NEW f, Has(u, f) \/ Has(v, f) PROVE Has(w, f)
    <3> SUFFICES ASSUME NEW c \in Listable(t), c[2] = f PROVE \E k \in DOMAIN w : w[k] = RowOf(t, c)
      OBVIOUS
    <3>1. CASE Has(u, f)
      <4>1. PICK k \in DOMAIN u : u[k] = RowOf(t, c)
        BY <3>1
      <4>2. k \in DOMAIN w /\ w[k] = RowOf(t, c)
        BY <2>1, <4>1
      <4> QED BY <4>2
    <3>2. CASE Has(v, f)
      <4>1. PICK k \in DOMAIN v : v[k] = RowOf(t, c)
        BY <3>2
      <4>2. Len(u) + k \in DOMAIN w /\ w[Len(u) + k] = RowOf(t, c)
        BY <2>1, <4>1
      <4> QED BY <4>2
    <3> QED BY <2>4, <3>1, <3>2
  <2> QED BY <2>3, <2>4 DEF w
<1>5. Rows(x \o y) /\ Has(x \o y, Inbox) /\ Has(x \o y, Sent)
  <2> HIDE DEF Rows, Has
  <2> QED BY <1>2, <1>4
<1>6. Rows((x \o y) \o z) /\ Has((x \o y) \o z, Inbox) /\ Has((x \o y) \o z, Sent)
      /\ Has((x \o y) \o z, Trash)
  <2> HIDE DEF Rows, Has
  <2> QED BY <1>2, <1>4, <1>5
<1>7. \A c \in Listable(t) : c[2] \in {Inbox, Sent, Trash}
  BY DEF Listable, Folders
<1> QED BY <1>3, <1>6, <1>7

(* A walk accepts what its first ids link, and nothing outside a set of ids*)
(* that no candidate widens.                                               *)
LEMMA WalkStays ==
  ASSUME NEW I, NEW R, NEW cands \in Seq(Candidate(I, R)), OneEach(cands), NEW known \in SUBSET R,
         NEW all \in SUBSET R, Widened(cands, all) = all, known \subseteq all
  PROVE  /\ WalkThreadGraph(known, cands) \subseteq {cands[k].id : k \in Linked(cands, all)}
         /\ \A k \in Linked(cands, known) : cands[k].id \in WalkThreadGraph(known, cands)
<1> DEFINE walk == Walk(known, cands)
           Good(n) == /\ Sound(walk[n], cands, known, all)
                      /\ n # 0 => \A k \in Linked(cands, known) : cands[k].id \in walk[n].accepted
           P == {n \in 0 .. MaxPasses : Good(n)}
<1>1. MaxPasses \in Nat \ {0}
  BY ThreadsAssumption
<1>2. /\ walk \in [0 .. MaxPasses -> Walks(I, R)] /\ walk[0] = [accepted |-> {}, known |-> known]
      /\ \A n \in 1 .. MaxPasses : walk[n] = Pass(walk[n - 1], cands)[Len(cands)]
  BY WalkStepwise
<1> HIDE DEF walk
<1>3. 0 \in P
  <2>1. Sound(walk[0], cands, known, all)
    BY <1>2 DEF Sound
  <2> QED BY <1>1, <2>1
<1>4. ASSUME NEW n \in 1 .. MaxPasses, n - 1 \in P PROVE n \in P
  <2>1. n - 1 \in 0 .. MaxPasses /\ n \in 0 .. MaxPasses
    BY <1>1
  <2>2. walk[n - 1] \in Walks(I, R) /\ Sound(walk[n - 1], cands, known, all)
    BY <1>2, <1>4, <2>1
  <2> DEFINE end == Pass(walk[n - 1], cands)[Len(cands)]
  <2>3. /\ Sound(end, cands, known, all)
        /\ \A k \in Linked(cands, walk[n - 1].known) : cands[k].id \in end.accepted
    BY <2>2, PassSound
  <2>4. end = walk[n]
    BY <1>2
  <2> HIDE DEF end
  <2>5. Linked(cands, known) \subseteq Linked(cands, walk[n - 1].known)
    BY <2>2, LinkedGrows DEF Sound
  <2> QED BY <2>1, <2>3, <2>4, <2>5
<1>5. Good(MaxPasses)
  <2>1. 0 + 1 .. MaxPasses = 1 .. MaxPasses /\ MaxPasses \in 0 .. MaxPasses
    BY <1>1
  <2> HIDE DEF P
  <2>2. 0 .. MaxPasses \subseteq P
    BY <1>1, <1>3, <1>4, <2>1, Along
  <2>3. MaxPasses \in P
    BY <2>1, <2>2
  <2> QED BY <2>3 DEF P
<1> QED BY <1>1, <1>5 DEF WalkThreadGraph, walk, Sound

(* So it does among the candidates of a conversation, of which one row may *)
(* be the anchor's own.                                                    *)
LEMMA ScriptThreadIs ==
  ASSUME NEW t, IsAccount(t), NEW a \in Messages(t)
  PROVE  LET byMail == {row[1] : row \in ScriptThread(t, a)}
         IN  /\ byMail \subseteq {a} \cup {c[1] : c \in Listable(t)}
             /\ byMail \subseteq Conversation(t, a) /\ a \in byMail
             /\ \A c \in Listable(t) : c[1] \in Conversation(t, a) => c[1] \in byMail
<1> DEFINE I      == Messages(t) \X Folders
           R      == Messages(t)
           hits   == SubjectHits(t)
           own    == SelectInSeq(hits, LAMBDA c : c.rfc = a)
           others == IF own = 0 THEN hits ELSE RemoveAt(hits, own)
           first  == IF own = 0 THEN <<a, Inbox>> ELSE hits[own].id
           known  == KnownIds(t, a)
           all    == Conversation(t, a)
           found  == WalkThreadGraph(known, others)
<1>1. /\ hits \in Seq(Candidate(I, R))
      /\ \A k \in DOMAIN hits : \E c \in Listable(t) : hits[k] = RowOf(t, c)
      /\ \A c \in Listable(t) : \E k \in DOMAIN hits : hits[k] = RowOf(t, c)
  BY SubjectHitsAre
<1>2. ScriptThread(t, a) = {first} \cup found
  BY DEF ScriptThread
<1>3. own = 0 \/ (own \in 1 .. Len(hits) /\ hits[own].rfc = a)
  <2> DEFINE J == {i \in 1 .. Len(hits) : hits[i].rfc = a}
  <2>1. own = IF J # {} THEN Min(J) ELSE 0
    BY DEF SelectInSeq
  <2>2. J # {} => Min(J) \in J
    <3>1. J \subseteq Nat
      BY <1>1
    <3> HIDE DEF J
    <3> QED BY <3>1, LeastThere
  <2> HIDE DEF hits
  <2> QED BY <2>1, <2>2
<1> HIDE DEF hits, own, found
<1>4. /\ others \in Seq(Candidate(I, R))
      /\ \A k \in DOMAIN others : \E j \in DOMAIN hits : others[k] = hits[j]
      /\ \A j \in DOMAIN hits : j # own => \E k \in DOMAIN others : others[k] = hits[j]
  <2>1. CASE own = 0
    BY <1>1, <2>1
  <2>2. CASE own # 0
    <3> DEFINE V == Candidate(I, R)
               len == Len(hits)
               u == SubSeq(hits, 1, own - 1)
               v == SubSeq(hits, own + 1, len)
    <3>1. own \in 1 .. len /\ len \in Nat /\ DOMAIN hits = 1 .. len /\ hits \in Seq(V)
      BY <1>1, <1>3, <2>2
    <3>2. others = u \o v
      BY <2>2 DEF RemoveAt
    <3> HIDE DEF V, others
    <3>3. u \in Seq(V) /\ Len(u) = own - 1 /\ \A k \in 1 .. own - 1 : u[k] = hits[k]
      BY <3>1
    <3>4. v \in Seq(V) /\ Len(v) = len - own /\ \A k \in 1 .. len - own : v[k] = hits[own + k]
      <4> HIDE DEF len
      <4>1. own + 1 \in 1 .. len + 1 /\ len \in own .. len /\ len \in 0 .. len
        BY <3>1
      <4>2. v = [k \in 1 .. len - own |-> hits[own + k]]
        BY <3>1, <4>1
      <4>3. \A k \in 1 .. len - own : own + k \in 1 .. len /\ hits[own + k] \in V
        BY <3>1
      <4> QED BY <3>1, <4>2, <4>3
    <3> HIDE DEF u, v
    <3>5. /\ others \in Seq(V) /\ Len(others) = len - 1 /\ DOMAIN others = 1 .. len - 1
          /\ \A k \in 1 .. own - 1 : others[k] = u[k]
          /\ \A k \in 1 .. len - own : others[own - 1 + k] = v[k]
      <4>1. own - 1 \in Nat /\ len - own \in Nat /\ own - 1 + (len - own) = len - 1
        BY <3>1
      <4> HIDE DEF len
      <4>2. others \in Seq(V) /\ Len(others) = len - 1
        <5>1. u \o v \in Seq(V) /\ Len(u \o v) = Len(u) + Len(v)
          BY <3>3, <3>4, ConcatProperties
        <5> QED BY <3>2, <3>3, <3>4, <4>1, <5>1
      <4>3. \A k \in 1 .. Len(u) : others[k] = u[k]
        BY <3>2, <3>3, <3>4
      <4>4. \A k \in 1 .. Len(v) : others[Len(u) + k] = v[k]
        BY <3>2, <3>3, <3>4
      <4>5. DOMAIN others = 1 .. Len(others)
        BY <4>2
      <4> QED BY <3>3, <3>4, <4>2, <4>3, <4>4, <4>5
    <3> HIDE DEF len
    <3>6. \A k \in 1 .. len - 1 : others[k] = hits[IF k < own THEN k ELSE k + 1]
      <4> SUFFICES ASSUME NEW k \in 1 .. len - 1 PROVE others[k] = hits[IF k < own THEN k ELSE k + 1]
        OBVIOUS
      <4>1. CASE k < own
        <5>1. k \in 1 .. own - 1
          BY <3>1, <4>1
        <5> QED BY <3>3, <3>5, <4>1, <5>1
      <4>2. CASE ~ (k < own)
        <5>1. k - own + 1 \in 1 .. len - own /\ own - 1 + (k - own + 1) = k /\ own + (k - own + 1) = k + 1
          BY <3>1, <4>2
        <5> QED BY <3>4, <3>5, <4>2, <5>1
      <4> QED BY <4>1, <4>2
    <3>7. \A k \in 1 .. len - 1 : (IF k < own THEN k ELSE k + 1) \in 1 .. len
      BY <3>1
    <3>8. ASSUME NEW j \in 1 .. len, j # own PROVE \E k \in 1 .. len - 1 : others[k] = hits[j]
      <4>1. CASE j < own
        <5>1. j \in 1 .. len - 1
          BY <3>1, <4>1
        <5> QED BY <3>6, <4>1, <5>1
      <4>2. CASE own < j
        <5>1. j - 1 \in 1 .. len - 1 /\ ~ (j - 1 < own) /\ (j - 1) + 1 = j
          BY <3>1, <4>2
        <5> QED BY <3>6, <5>1
      <4> QED BY <3>1, <3>8, <4>1, <4>2
    <3> QED BY <3>1, <3>5, <3>6, <3>7, <3>8 DEF V
  <2> QED BY <2>1, <2>2
<1> HIDE DEF others
<1>5. \A k \in DOMAIN others : \E c \in Listable(t) : others[k] = RowOf(t, c)
  BY <1>1, <1>4
<1>6. OneEach(others)
  BY <1>5 DEF OneEach, RowOf
<1>7. known = Named(t, a) /\ known \subseteq all /\ known \in SUBSET R /\ all \in SUBSET R /\ a \in all
  <2>1. a \in Named(t, a) /\ Named(t, a) \subseteq Messages(t)
    BY NamedIs, Rooted
  <2>2. Named(t, a) \cap Conversation(t, a) # {}
    BY <2>1 DEF Conversation, Messages
  <2>3. Named(t, a) \subseteq Conversation(t, a)
    BY <2>2, ConversationCloses
  <2>4. Conversation(t, a) \subseteq Messages(t)
    BY DEF Conversation, Messages
  <2> QED BY <2>1, <2>3, <2>4 DEF KnownIds, Named
<1> HIDE DEF known, all
<1>8. \A c \in Listable(t) : c \in I /\ c[1] \in Messages(t)
  BY DEF Listable
<1>9. \A k \in Linked(others, all) : \E c \in Listable(t) :
        others[k] = RowOf(t, c) /\ c[1] \in all /\ Named(t, c[1]) \subseteq all
  <2> SUFFICES ASSUME NEW k \in Linked(others, all)
               PROVE  \E c \in Listable(t) :
                        others[k] = RowOf(t, c) /\ c[1] \in all /\ Named(t, c[1]) \subseteq all
    OBVIOUS
  <2>1. k \in DOMAIN others /\ others[k].names \cap all # {}
    BY DEF Linked
  <2>2. PICK c \in Listable(t) : others[k] = RowOf(t, c)
    BY <1>5, <2>1
  <2>3. Named(t, c[1]) \cap Conversation(t, a) # {} /\ c[1] \in Messages(t)
    BY <1>8, <2>1, <2>2 DEF RowOf, all
  <2>4. c[1] \in Conversation(t, a) /\ Named(t, c[1]) \subseteq Conversation(t, a)
    BY <2>3, ConversationCloses
  <2> QED BY <2>2, <2>4 DEF all
<1>10. Widened(others, all) = all
  <2>1. ASSUME NEW k \in Linked(others, all) PROVE others[k].names \subseteq all
    <3>1. PICK c \in Listable(t) : others[k] = RowOf(t, c) /\ Named(t, c[1]) \subseteq all
      BY <1>9
    <3> QED BY <3>1 DEF RowOf
  <2> QED BY <2>1 DEF Widened
<1>11. /\ found \subseteq {others[k].id : k \in Linked(others, all)}
       /\ \A k \in Linked(others, known) : others[k].id \in found
  BY <1>4, <1>6, <1>7, <1>10, WalkStays DEF found
<1>12. \A row \in found : row \in Listable(t) /\ row[1] \in all
  <2> SUFFICES ASSUME NEW row \in found PROVE row \in Listable(t) /\ row[1] \in all
    OBVIOUS
  <2>1. PICK k \in Linked(others, all) : row = others[k].id
    BY <1>11
  <2>2. PICK c \in Listable(t) : others[k] = RowOf(t, c) /\ c[1] \in all
    BY <1>9
  <2>3. others[k].id = c
    BY <2>2 DEF RowOf
  <2> QED BY <2>1, <2>2, <2>3
<1>13. first[1] = a /\ (own # 0 => first \in Listable(t))
  <2>1. CASE own = 0
    BY <2>1
  <2>2. CASE own # 0
    <3>1. PICK c \in Listable(t) : hits[own] = RowOf(t, c)
      BY <1>1, <1>3, <2>2
    <3> QED BY <1>3, <2>2, <3>1 DEF RowOf
  <2> QED BY <2>1, <2>2
<1>14. ASSUME NEW c \in Listable(t), c[1] \in Conversation(t, a)
       PROVE  c \in found \/ c = first
  <2>1. PICK j \in DOMAIN hits : hits[j] = RowOf(t, c)
    BY <1>1
  <2>2. CASE j = own
    <3>1. own # 0
      BY <1>1, <2>1, <2>2
    <3> QED BY <2>1, <2>2, <3>1 DEF RowOf
  <2>3. CASE j # own
    <3>1. PICK k \in DOMAIN others : others[k] = RowOf(t, c)
      BY <1>4, <2>1, <2>3
    <3>2. k \in Linked(others, known)
      BY <1>7, <1>14, <3>1 DEF Linked, RowOf, Conversation
    <3> QED BY <1>11, <3>1, <3>2 DEF RowOf
  <2> QED BY <2>2, <2>3
<1> HIDE DEF first
<1> QED BY <1>2, <1>7, <1>12, <1>13, <1>14 DEF all

(* Every way by which get_thread collects a conversation finds all of it in*)
(* the folders that open and nothing else, up to what ThreadIsWhole allows,*)
(* for any account of well-formed replies and any anchor: replies of one   *)
(* conversation all name its first message, so one pass over the headers   *)
(* finds siblings and cousins too.                                         *)
THEOREM EveryThreadWhole ==
  ASSUME NEW t, IsAccount(t), NEW a \in DOMAIN t.parent
  PROVE  ThreadIsWhole(t, a)
<1> DEFINE whole  == Conversation(t, a) \cap UNION {In(t, f) : f \in OpenFolders(t)}
           byMail == {row[1] : row \in ScriptThread(t, a)}
<1>1. KnownIds(t, a) = Named(t, a) /\ a \in Messages(t) /\ a \in Conversation(t, a)
  <2>1. a \in Named(t, a)
    BY NamedIs DEF Messages
  <2> QED BY <2>1 DEF KnownIds, Named, Messages, Conversation
<1>2. \A f : In(t, f) \subseteq DOMAIN t.parent
  BY DEF In
<1>3. HeaderSearch(t, a) = whole
  <2>1. \A f : {m \in In(t, f) : Named(t, m) \cap KnownIds(t, a) # {}} = Conversation(t, a) \cap In(t, f)
    BY <1>1, <1>2 DEF Conversation
  <2> QED BY <2>1 DEF HeaderSearch
<1>4. /\ ByAllMail(t, a) \subseteq Conversation(t, a)
      /\ ByMailbox(t, a) = {} \/ ByMailbox(t, a) = whole
      /\ ByThread(t, a) \subseteq Conversation(t, a)
      /\ ByAllMail(t, a) = {} \/ whole \cap AllMail(t) \subseteq ByAllMail(t, a)
  BY DEF ByAllMail, ByMailbox, ByThread
<1>5. /\ ImapThread(t, a) \subseteq Conversation(t, a)
      /\ \/ whole \cap AllMail(t) \subseteq ImapThread(t, a)
         \/ "thread" \in t.offers /\ ImapThread(t, a) = ByThread(t, a)
  <2> DEFINE tiers == Tiers(t, a)
             answers == {k \in DOMAIN tiers : tiers[k] # {}}
  <2>1. /\ DOMAIN tiers = 1 .. 4
        /\ tiers[1] = {} \/ tiers[1] = ByAllMail(t, a)
        /\ tiers[2] = {} \/ tiers[2] = ByMailbox(t, a)
        /\ tiers[3] = {} \/ ("thread" \in t.offers /\ tiers[3] = ByThread(t, a))
        /\ tiers[4] = whole
    BY <1>3 DEF Tiers, Offered
  <2> HIDE DEF tiers
  <2>2. \A k \in DOMAIN tiers : tiers[k] \subseteq Conversation(t, a)
    BY <1>3, <1>4, <2>1
  <2>3. \A k \in DOMAIN tiers :
          \/ tiers[k] = {} \/ whole \cap AllMail(t) \subseteq tiers[k]
          \/ "thread" \in t.offers /\ tiers[k] = ByThread(t, a)
    BY <1>3, <1>4, <2>1
  <2>4. ImapThread(t, a) = IF answers = {} THEN {} ELSE tiers[Min(answers)]
    BY DEF ImapThread, tiers
  <2> HIDE DEF whole
  <2>5. answers # {} => Min(answers) \in DOMAIN tiers /\ tiers[Min(answers)] # {}
    <3>1. answers \subseteq Nat
      BY <2>1
    <3>2. answers # {} => Min(answers) \in answers
      <4> HIDE DEF answers
      <4> QED BY <3>1, LeastThere
    <3> QED BY <3>2
  <2>6. answers = {} => whole = {}
    BY <2>1
  <2> HIDE DEF answers
  <2> QED BY <2>2, <2>3, <2>4, <2>5, <2>6
<1>6. \A f \in OpenFolders(t) : Relevant(t, a, f) # {} => whole \cap In(t, f) \subseteq ByThread(t, a)
  BY DEF ByThread
<1>7. \A c \in Listable(t) : c[1] \in UNION {In(t, f) : f \in OpenFolders(t)}
  BY DEF Listable, In, OpenFolders, Messages
<1>8. \A m \in whole : m \in t.subject => \E f \in Folders : <<m, f>> \in Listable(t)
  BY DEF Listable, In, OpenFolders, Messages
<1>9. /\ byMail \subseteq {a} \cup {c[1] : c \in Listable(t)}
      /\ byMail \subseteq Conversation(t, a) /\ a \in byMail
      /\ \A c \in Listable(t) : c[1] \in Conversation(t, a) => c[1] \in byMail
  BY <1>1, ScriptThreadIs
<1> HIDE DEF byMail
<1>10. byMail \subseteq whole \cup {a}
  BY <1>7, <1>9
<1>11. whole \subseteq t.subject => byMail = whole \cup {a}
  <2>1. ASSUME NEW m \in whole, m \in t.subject PROVE m \in byMail
    <3>1. PICK f \in Folders : <<m, f>> \in Listable(t)
      BY <1>8, <2>1
    <3>2. <<m, f>>[1] \in Conversation(t, a)
      OBVIOUS
    <3>3. <<m, f>>[1] \in byMail
      BY <1>9, <3>1, <3>2
    <3> QED BY <3>3
  <2> HIDE DEF whole
  <2> QED BY <1>9, <1>10, <2>1
<1> QED BY <1>3, <1>5, <1>6, <1>10, <1>11 DEF ThreadIsWhole, byMail

-------------------------------------------------------------------------------
(* Searches                                                                *)

(* A list of numbers from the highest down, and the set of them.           *)
Descends(s, S) ==
  /\ s \in Seq(Nat) /\ S = {s[i] : i \in 1 .. Len(s)}
  /\ \A i, j \in 1 .. Len(s) : i < j => s[j] < s[i]

(* A filter keeps the order.                                               *)
LEMMA OnlyDescends ==
  ASSUME NEW s, NEW S, Descends(s, S), NEW keep
  PROVE  Descends(Only(s, keep), S \cap keep)
<1> DEFINE out == Only(s, keep)
<1>1. s \in Seq(Nat) /\ S = {s[i] : i \in 1 .. Len(s)} /\ \A i, j \in 1 .. Len(s) : i < j => s[j] < s[i]
  BY DEF Descends
<1>2. PICK pos : out \in Seq(Nat) /\ KeptAt(s, keep, out, pos)
  BY <1>1, OnlyIs
<1> HIDE DEF out
<1>3. /\ pos \in [1 .. Len(out) -> 1 .. Len(s)]
      /\ \A i, j \in 1 .. Len(out) : i < j => pos[i] < pos[j]
      /\ \A i \in 1 .. Len(out) : out[i] = s[pos[i]] /\ out[i] \in keep
      /\ \A k \in 1 .. Len(s) : s[k] \in keep => \E i \in 1 .. Len(out) : pos[i] = k
  BY <1>2 DEF KeptAt
<1>4. \A i, j \in 1 .. Len(out) : i < j => out[j] < out[i]
  BY <1>1, <1>3
<1>5. S \cap keep = {out[i] : i \in 1 .. Len(out)}
  <2>1. ASSUME NEW x \in S \cap keep PROVE \E i \in 1 .. Len(out) : out[i] = x
    <3>1. PICK k \in 1 .. Len(s) : s[k] = x
      BY <1>1
    <3>2. PICK i \in 1 .. Len(out) : pos[i] = k
      BY <1>3, <3>1
    <3> QED BY <1>3, <3>1, <3>2
  <2>2. \A i \in 1 .. Len(out) : out[i] \in S \cap keep
    BY <1>1, <1>3
  <2> QED BY <2>1, <2>2
<1> QED BY <1>2, <1>4, <1>5 DEF Descends, out

(* A set that a list without repetition enumerates has as many elements.   *)
LEMMA Enumerated ==
  ASSUME NEW n \in Nat, NEW f, NEW T, T = {f[i] : i \in 1 .. n},
         \A i, j \in 1 .. n : i # j => f[i] # f[j]
  PROVE  IsFiniteSet(T) /\ Cardinality(T) = n
<1> DEFINE g == [i \in 1 .. n |-> f[i]]
<1>1. g \in Bijection(1 .. n, T)
  BY DEF Bijection, Injection, Surjection, IsInjective
<1>2. ExistsBijection(1 .. n, T)
  BY <1>1 DEF ExistsBijection
<1>3. IsFiniteSet(1 .. n) /\ Cardinality(1 .. n) = n
  <2>1. Cardinality(1 .. n) = IF 1 > n THEN 0 ELSE n - 1 + 1
    BY FS_Interval
  <2>2. IsFiniteSet(1 .. n)
    BY FS_Interval
  <2> QED BY <2>1, <2>2
<1> QED BY <1>2, <1>3, FS_Bijection

(* In such a list, k - 1 numbers are higher than the k-th.                 *)
LEMMA HigherThan ==
  ASSUME NEW s, NEW S, Descends(s, S), NEW k \in 1 .. Len(s)
  PROVE  Cardinality({j \in S : j > s[k]}) = k - 1
<1> DEFINE T == {j \in S : j > s[k]}
<1>1. s \in Seq(Nat) /\ S = {s[i] : i \in 1 .. Len(s)} /\ \A i, j \in 1 .. Len(s) : i < j => s[j] < s[i]
  BY DEF Descends
<1>2. Len(s) \in Nat /\ \A i \in 1 .. Len(s) : s[i] \in Nat
  BY <1>1
<1>3. \A i \in 1 .. Len(s) : s[i] > s[k] <=> i < k
  <2> SUFFICES ASSUME NEW i \in 1 .. Len(s) PROVE s[i] > s[k] <=> i < k
    OBVIOUS
  <2>1. CASE i < k
    BY <1>1, <2>1
  <2>2. CASE i = k
    BY <1>2, <2>2
  <2>3. CASE k < i
    <3>1. s[i] < s[k]
      BY <1>1, <2>3
    <3> QED BY <1>2, <2>3, <3>1
  <2> QED BY <1>2, <2>1, <2>2, <2>3
<1>4. T = {s[i] : i \in 1 .. k - 1}
  <2>1. \A i \in 1 .. k - 1 : i \in 1 .. Len(s) /\ i < k
    BY <1>2
  <2>2. \A i \in 1 .. Len(s) : i < k => i \in 1 .. k - 1
    BY <1>2
  <2> QED BY <1>1, <1>3, <2>1, <2>2
<1>5. \A i, j \in 1 .. k - 1 : i # j => s[i] # s[j]
  <2> SUFFICES ASSUME NEW i \in 1 .. k - 1, NEW j \in 1 .. k - 1, i # j PROVE s[i] # s[j]
    OBVIOUS
  <2>1. i \in 1 .. Len(s) /\ j \in 1 .. Len(s) /\ (i < j \/ j < i)
    BY <1>2
  <2>2. s[i] < s[j] \/ s[j] < s[i]
    BY <1>1, <2>1
  <2> QED BY <1>2, <2>1, <2>2
<1>6. k - 1 \in Nat
  BY <1>2
<1> HIDE DEF T
<1> QED BY <1>4, <1>5, <1>6, Enumerated DEF T

(* The front of such a list has the newest of the set.                     *)
LEMMA FrontIsNewest ==
  ASSUME NEW s, NEW S, Descends(s, S), NEW n \in Nat \ {0}
  PROVE  Descends(FirstN(s, n), Newest(S, n))
<1> DEFINE len == Len(s)
           m == IF n >= len THEN len ELSE n
           out == FirstN(s, n)
<1>1. /\ s \in Seq(Nat) /\ S = {s[i] : i \in 1 .. len} /\ len \in Nat
      /\ \A i, j \in 1 .. len : i < j => s[j] < s[i]
      /\ \A i \in 1 .. len : s[i] \in Nat
  BY DEF Descends
<1>2. out \in Seq(Nat) /\ Len(out) = m /\ m \in Nat /\ m <= len /\ \A i \in 1 .. m : out[i] = s[i]
  <2>1. CASE n >= len
    BY <1>1, <2>1 DEF FirstN
  <2>2. CASE ~ (n >= len)
    <3>1. out = SubSeq(s, 1, n) /\ n \in 1 .. len /\ m = n
      BY <1>1, <2>2 DEF FirstN
    <3>2. \A i \in 1 .. n : s[i] \in Nat
      BY <1>1, <3>1
    <3> HIDE DEF out, m
    <3>3. out = [i \in 1 .. n |-> s[i]]
      BY <1>1, <3>1
    <3> QED BY <1>1, <3>1, <3>2, <3>3
  <2> QED BY <2>1, <2>2
<1>3. \A i \in 1 .. len : i \in 1 .. m <=> i - 1 < n
  BY <1>1
<1> HIDE DEF out, m
<1>4. n # Unset
  BY SearchAssumption
<1>5. \A i \in 1 .. len : s[i] \in Newest(S, n) <=> i \in 1 .. m
  <2> SUFFICES ASSUME NEW i \in 1 .. len PROVE s[i] \in Newest(S, n) <=> i \in 1 .. m
    OBVIOUS
  <2>1. Cardinality({j \in S : j > s[i]}) = i - 1
    BY HigherThan
  <2>2. s[i] \in S
    BY <1>1
  <2>3. s[i] \in Newest(S, n) <=> Cardinality({j \in S : j > s[i]}) < n
    BY <1>4, <2>2 DEF Newest
  <2> QED BY <1>3, <2>1, <2>3
<1>6. Newest(S, n) \subseteq S
  BY <1>4 DEF Newest
<1>7. \A i \in 1 .. m : i \in 1 .. len
  BY <1>1, <1>2
<1>8. Newest(S, n) = {out[i] : i \in 1 .. m}
  <2>1. ASSUME NEW x \in Newest(S, n) PROVE \E i \in 1 .. m : out[i] = x
    <3>1. PICK i \in 1 .. len : s[i] = x
      BY <1>1, <1>6
    <3> QED BY <1>2, <1>5, <2>1, <3>1
  <2>2. \A i \in 1 .. m : out[i] \in Newest(S, n)
    BY <1>2, <1>5, <1>7
  <2> QED BY <2>1, <2>2
<1>9. \A i, j \in 1 .. m : i < j => out[j] < out[i]
  BY <1>1, <1>2, <1>7
<1> QED BY <1>2, <1>8, <1>9 DEF Descends, out

(* The newest of those that are also in a set with all that are newer.     *)
LEMMA NewestWithin ==
  ASSUME NEW S \in SUBSET Nat, NEW U, \A i \in S \cap U, j \in S : j > i => j \in U, NEW n
  PROVE  Newest(S, n) \cap U = Newest(S \cap U, n)
<1>1. ASSUME NEW i \in S \cap U PROVE {j \in S : j > i} = {j \in S \cap U : j > i}
  OBVIOUS
<1>2. CASE n = Unset
  BY <1>2 DEF Newest
<1>3. CASE n # Unset
  <2>1. \A i \in S \cap U : i \in Newest(S, n) <=> i \in Newest(S \cap U, n)
    BY <1>1, <1>3 DEF Newest
  <2>2. Newest(S, n) \subseteq S /\ Newest(S \cap U, n) \subseteq S \cap U
    BY <1>3 DEF Newest
  <2> QED BY <2>1, <2>2
<1> QED BY <1>2, <1>3

(* The parts of a list that is put together, one after the other.          *)
LEMMA FlattenStepwise ==
  ASSUME NEW V, NEW seqs \in Seq(Seq(V)), Len(seqs) # 0
  PROVE  \E f \in [1 .. Len(seqs) -> Seq(V)] :
           /\ f[1] = seqs[1] /\ FlattenSeq(seqs) = f[Len(seqs)]
           /\ \A k \in 2 .. Len(seqs) : f[k] = f[k - 1] \o seqs[k]
<1> DEFINE n == Len(seqs)
           W == Seq(V)
           step == [k \in 1 .. n - 1 |-> [v \in W |-> v \o seqs[k + 1]]]
           IsFlat(f) == f = [i \in 1 .. n |-> IF i = 1 THEN seqs[i] ELSE f[i - 1] \o seqs[i]]
<1>1. n \in Nat \ {0} /\ n - 1 \in Nat /\ \A k \in 1 .. n : seqs[k] \in W
  OBVIOUS
<1> HIDE DEF n
<1>2. step \in [1 .. n - 1 -> [W -> W]]
  <2>1. \A k \in 1 .. n - 1 : k + 1 \in 1 .. n /\ seqs[k + 1] \in W
    BY <1>1
  <2>2. \A k \in 1 .. n - 1, v \in W : v \o seqs[k + 1] \in W
    BY <2>1
  <2> HIDE DEF W
  <2> QED BY <2>2
<1>3. PICK g \in [0 .. n - 1 -> W] : g[0] = seqs[1] /\ \A k \in 1 .. n - 1 : g[k] = step[k][g[k - 1]]
  <2>1. seqs[1] \in W
    BY <1>1
  <2> HIDE DEF step, W
  <2>2. \E g : Follows(g, n - 1, W, seqs[1], step)
    BY <1>1, <1>2, <2>1, Recursion
  <2> QED BY <2>2 DEF Follows
<1> DEFINE f == [i \in 1 .. n |-> g[i - 1]]
<1>4. f \in [1 .. n -> W] /\ f[1] = seqs[1]
  <2>1. \A i \in 1 .. n : i - 1 \in 0 .. n - 1
    BY <1>1
  <2>2. 1 \in 1 .. n /\ 1 - 1 = 0
    BY <1>1
  <2> HIDE DEF W
  <2> QED BY <1>3, <2>1, <2>2
<1>5. \A k \in 2 .. n : f[k] = f[k - 1] \o seqs[k]
  <2> SUFFICES ASSUME NEW k \in 2 .. n PROVE f[k] = f[k - 1] \o seqs[k]
    OBVIOUS
  <2>1. k \in 1 .. n /\ k - 1 \in 1 .. n /\ k - 1 \in 1 .. n - 1 /\ (k - 1) + 1 = k /\ (k - 1) - 1 \in 0 .. n - 1
    BY <1>1
  <2>2. f[k] = g[k - 1] /\ f[k - 1] = g[(k - 1) - 1]
    BY <2>1
  <2>3. g[(k - 1) - 1] \in W
    BY <1>3, <2>1
  <2> HIDE DEF W, f
  <2>4. g[k - 1] = step[k - 1][g[(k - 1) - 1]]
    BY <1>3, <2>1
  <2> QED BY <2>1, <2>2, <2>3, <2>4
<1> HIDE DEF f
<1>6. IsFlat(f)
  <2>1. ASSUME NEW i \in 1 .. n PROVE f[i] = IF i = 1 THEN seqs[i] ELSE f[i - 1] \o seqs[i]
    <3>1. i # 1 => i \in 2 .. n
      BY <1>1
    <3> QED BY <1>4, <1>5, <3>1
  <2> HIDE DEF W
  <2> QED BY <1>4, <2>1
<1> DEFINE r == CHOOSE h : IsFlat(h)
<1>7. FlattenSeq(seqs) = r[n]
  <2>1. Len(seqs) # 0
    OBVIOUS
  <2> QED BY <2>1 DEF FlattenSeq, n
<1>8. IsFlat(r)
  <2> HIDE DEF IsFlat
  <2> QED BY <1>6
<1> HIDE DEF r
<1>9. r = f
  <2> DEFINE P == {i \in 1 .. n : r[i] = f[i]}
  <2>1. \A i \in 1 .. n : r[i] = IF i = 1 THEN seqs[i] ELSE r[i - 1] \o seqs[i]
    BY <1>8
  <2>2. 1 \in P
    BY <1>1, <1>4, <2>1
  <2>3. ASSUME NEW i \in 1 + 1 .. n, i - 1 \in P PROVE i \in P
    <3>1. i \in 1 .. n /\ i # 1 /\ i \in 2 .. n
      BY <1>1
    <3> QED BY <1>5, <2>1, <2>3, <3>1
  <2>4. 1 .. n \subseteq P
    <3> HIDE DEF P
    <3> QED BY <1>1, <2>2, <2>3, Along
  <2>5. \A i \in 1 .. n : r[i] = f[i]
    BY <2>4
  <2>6. r = [i \in 1 .. n |-> r[i]]
    BY <1>8
  <2> HIDE DEF W, P
  <2> QED BY <1>4, <2>5, <2>6
<1> HIDE DEF W
<1> QED BY <1>4, <1>5, <1>7, <1>9 DEF n, W

LEMMA ListIs ==
  ASSUME NEW n \in Nat, NEW V, NEW f \in [1 .. n -> V]
  PROVE  f \in Seq(V) /\ Len(f) = n
OBVIOUS

(* The chunks from the newest end, one after the other, are the whole list,*)
(* the newest first.                                                       *)
LEMMA ChunksAre ==
  ASSUME NEW uids \in Seq(Nat), uids # <<>>, NEW size \in Nat \ {0}
  PROVE  Chunks(uids, size) = Reverse(uids)
<1> DEFINE len == Len(uids)
           count == (len + size - 1) \div size
           end(k) == len - (k - 1) * size
           first(k) == IF end(k) > size THEN end(k) - size + 1 ELSE 1
           part(k) == Reverse(SubSeq(uids, first(k), end(k)))
           seqs == [k \in 1 .. count |-> part(k)]
           rev == Reverse(uids)
           upto(k) == IF k * size > len THEN len ELSE k * size
           Leading(m) == [i \in 1 .. m |-> rev[i]]
<1>1. len \in Nat \ {0} /\ \A i \in 1 .. len : uids[i] \in Nat
  OBVIOUS
<1>2. rev = [i \in 1 .. len |-> uids[len - i + 1]]
  BY DEF Reverse
<1>3. Chunks(uids, size) = FlattenSeq(seqs)
  BY DEF Chunks
<1> HIDE DEF rev, len
<1>4. count \in Nat \ {0} /\ count * size >= len /\ (count - 1) * size < len
  <2> DEFINE all == len + size - 1
  <2>0. all \in Nat /\ count = all \div size
    BY <1>1
  <2> HIDE DEF count, all
  <2>1. all = size * count + (all % size) /\ all % size \in 0 .. size - 1 /\ count \in Nat
    BY <2>0, DivisionIs
  <2>2. size * count = count * size /\ (count - 1) * size = count * size - size /\ count * size \in Nat
    BY <2>1
  <2> USE DEF all
  <2>3. count * size >= len /\ count * size - size < len
    BY <1>1, <2>1, <2>2
  <2>4. count # 0
    BY <1>1, <2>1, <2>3
  <2> QED BY <2>1, <2>2, <2>3, <2>4
<1> HIDE DEF count
<1>5. ASSUME NEW k \in 1 .. count
      PROVE  LET p == (k - 1) * size
             IN  /\ p \in Nat /\ p < len /\ k * size = p + size
                 /\ part(k) = [i \in 1 .. upto(k) - p |-> rev[p + i]]
  <2> DEFINE p == (k - 1) * size
  <2>1. p \in Nat /\ k * size = p + size
    BY <1>4
  <2>2. p <= (count - 1) * size /\ (count - 1) * size \in Nat
    <3>1. k - 1 \in Nat /\ count - 1 \in Nat /\ k - 1 <= count - 1
      BY <1>4
    <3> QED BY <3>1, Times
  <2>3. p < len
    BY <1>1, <1>4, <2>1, <2>2
  <2> DEFINE e == len - p
             f == IF e > size THEN e - size + 1 ELSE 1
             w == upto(k) - p
  <2>4. end(k) = e /\ first(k) = f
    OBVIOUS
  <2>5. w = e - f + 1 /\ w \in Nat /\ f \in 1 .. e /\ e \in 1 .. len
    BY <1>1, <2>1, <2>3
  <2>6. part(k) = Reverse(SubSeq(uids, f, e))
    BY <2>4
  <2> HIDE DEF p, e, f, w, part
  <2>7. SubSeq(uids, f, e) = [i \in 1 .. w |-> uids[f + i - 1]]
    BY <1>1, <2>5
  <2>8. Len(SubSeq(uids, f, e)) = w
    BY <2>5, <2>7
  <2>9. part(k) = [i \in 1 .. w |-> uids[f + (w - i + 1) - 1]]
    <3>1. \A i \in 1 .. w : w - i + 1 \in 1 .. w
      BY <2>5
    <3> QED BY <2>6, <2>7, <2>8, <3>1 DEF Reverse
  <2>10. \A i \in 1 .. w : p + i \in 1 .. len /\ f + (w - i + 1) - 1 = len - (p + i) + 1
    BY <1>1, <2>1, <2>3, <2>5 DEF e
  <2>11. \A i \in 1 .. w : uids[f + (w - i + 1) - 1] = rev[p + i]
    BY <1>2, <2>10
  <2>12. part(k) = [i \in 1 .. w |-> rev[p + i]]
    BY <2>9, <2>11
  <2> QED BY <2>1, <2>3, <2>12 DEF p, w
<1>6. seqs \in Seq(Seq(Nat)) /\ Len(seqs) = count
  <2>1. \A i \in 1 .. len : rev[i] \in Nat
    BY <1>1, <1>2
  <2>2. ASSUME NEW k \in 1 .. count PROVE part(k) \in Seq(Nat)
    <3> DEFINE p == (k - 1) * size
               w == upto(k) - p
    <3>1. p \in Nat /\ p < len /\ part(k) = [i \in 1 .. w |-> rev[p + i]] /\ k * size = p + size
      BY <1>5
    <3> HIDE DEF p, part
    <3>2. w \in Nat /\ \A i \in 1 .. w : p + i \in 1 .. len
      BY <1>1, <3>1
    <3> HIDE DEF w
    <3>3. \A i \in 1 .. w : rev[p + i] \in Nat
      BY <2>1, <3>2
    <3> DEFINE g == [i \in 1 .. w |-> rev[p + i]]
    <3>4. g \in [1 .. w -> Nat] /\ part(k) = g
      BY <3>1, <3>3
    <3> HIDE DEF g
    <3> QED BY <3>2, <3>4
  <2> HIDE DEF part
  <2>3. seqs \in [1 .. count -> Seq(Nat)]
    BY <2>2
  <2> HIDE DEF seqs
  <2> QED BY <1>4, <2>3
<1>7. PICK f \in [1 .. count -> Seq(Nat)] :
        /\ f[1] = seqs[1] /\ FlattenSeq(seqs) = f[count]
        /\ \A k \in 2 .. count : f[k] = f[k - 1] \o seqs[k]
  <2> HIDE DEF seqs
  <2>1. Len(seqs) # 0
    BY <1>4, <1>6
  <2>2. \E f \in [1 .. Len(seqs) -> Seq(Nat)] :
           /\ f[1] = seqs[1] /\ FlattenSeq(seqs) = f[Len(seqs)]
           /\ \A k \in 2 .. Len(seqs) : f[k] = f[k - 1] \o seqs[k]
    BY <1>6, <2>1, FlattenStepwise
  <2> QED BY <1>6, <2>2
<1>8. \A k \in 1 .. count : seqs[k] = part(k)
  <2> HIDE DEF part
  <2> QED OBVIOUS
<1> HIDE DEF part, seqs
<1> DEFINE P == {k \in 1 .. count : f[k] = Leading(upto(k))}
<1>9. 1 \in P
  <2>1. 1 \in 1 .. count /\ (1 - 1) * size = 0
    BY <1>4
  <2>2. part(1) = [i \in 1 .. upto(1) - (1 - 1) * size |-> rev[(1 - 1) * size + i]]
    BY <1>5, <2>1
  <2>3. upto(1) - 0 = upto(1) /\ upto(1) \in Nat
    BY <1>1
  <2> HIDE DEF upto
  <2>4. part(1) = [i \in 1 .. upto(1) |-> rev[i]]
    BY <2>1, <2>2, <2>3
  <2> QED BY <1>7, <1>8, <2>1, <2>4
<1>10. ASSUME NEW k \in 1 + 1 .. count, k - 1 \in P PROVE k \in P
  <2> DEFINE p == (k - 1) * size
             m == upto(k)
  <2>1. k \in 1 .. count /\ k \in 2 .. count /\ k - 1 \in 1 .. count
    BY <1>4
  <2>2. p \in Nat /\ p < len /\ k * size = p + size /\ part(k) = [i \in 1 .. m - p |-> rev[p + i]]
    BY <1>5, <2>1
  <2>3. upto(k - 1) = p
    BY <1>1, <2>2
  <2>4. m \in Nat /\ p <= m /\ m - p \in Nat
    BY <1>1, <2>2
  <2>5. f[k] = Leading(p) \o part(k)
    BY <1>7, <1>8, <1>10, <2>1, <2>3
  <2> HIDE DEF p, m, part
  <2>6. Leading(p) \o [i \in 1 .. m - p |-> rev[p + i]] = Leading(m)
    <3> DEFINE a == Leading(p)
               b == [i \in 1 .. m - p |-> rev[p + i]]
               c == a \o b
    <3>1. Len(a) = p /\ Len(b) = m - p /\ p + (m - p) = m
      BY <2>2, <2>4
    <3>2. a \in [1 .. p -> Nat] /\ b \in [1 .. m - p -> Nat]
      <4>1. \A i \in 1 .. m : rev[i] \in Nat
        BY <1>1, <1>2, <2>2 DEF m
      <4>2. \A i \in 1 .. p : i \in 1 .. m
        BY <2>2, <2>4
      <4>3. \A i \in 1 .. m - p : p + i \in 1 .. m
        BY <2>2, <2>4
      <4> QED BY <4>1, <4>2, <4>3
    <3> HIDE DEF a, b
    <3>6. a \in Seq(Nat) /\ b \in Seq(Nat)
      BY <2>2, <2>4, <3>2, ListIs
    <3>3. c = [i \in 1 .. m |-> IF i <= p THEN a[i] ELSE b[i - p]]
      <4>1. c \in Seq(Nat) /\ Len(c) = m
            /\ \A i \in 1 .. m : c[i] = IF i <= p THEN a[i] ELSE b[i - p]
        <5>1. /\ a \o b \in Seq(Nat) /\ Len(a \o b) = Len(a) + Len(b)
              /\ \A i \in 1 .. Len(a) + Len(b) : (a \o b)[i] = IF i <= Len(a) THEN a[i] ELSE b[i - Len(a)]
          BY <3>6, ConcatProperties
        <5> QED BY <3>1, <5>1
      <4> HIDE DEF c
      <4> QED BY <4>1
    <3>4. ASSUME NEW i \in 1 .. m PROVE (IF i <= p THEN a[i] ELSE b[i - p]) = rev[i]
      <4>1. CASE i <= p
        <5>1. i \in 1 .. p
          BY <2>2, <2>4, <4>1
        <5> QED BY <4>1, <5>1 DEF a
      <4>2. CASE ~ (i <= p)
        <5>1. i - p \in 1 .. m - p /\ p + (i - p) = i
          BY <2>2, <2>4, <4>2
        <5> QED BY <4>2, <5>1 DEF b
      <4> QED BY <4>1, <4>2
    <3> HIDE DEF c
    <3>5. c = [i \in 1 .. m |-> rev[i]]
      BY <3>3, <3>4
    <3> QED BY <3>5 DEF a, b, c
  <2>7. f[k] = Leading(m)
    BY <2>2, <2>5, <2>6
  <2> QED BY <2>1, <2>7 DEF m
<1>11. f[count] = Leading(upto(count))
  <2>1. count \in 1 .. count /\ 1 \in Nat
    BY <1>4
  <2> HIDE DEF P
  <2>2. 1 .. count \subseteq P
    BY <1>4, <1>9, <1>10, <2>1, Along
  <2>3. count \in P
    BY <2>1, <2>2
  <2> QED BY <2>3 DEF P
<1>12. upto(count) = len
  <2>1. count * size \in Nat
    BY <1>4
  <2> QED BY <1>1, <1>4, <2>1
<1>13. Leading(len) = rev
  BY <1>2
<1> HIDE DEF upto
<1> QED BY <1>3, <1>7, <1>11, <1>12, <1>13 DEF rev

(* The places of a set, from the end of the mailbox.                       *)
LEMMA UidsDescend ==
  ASSUME NEW V, NEW box \in Seq(V), NEW S
  PROVE  Uids(box, S) \in Seq(Nat) /\ Descends(Reverse(Uids(box, S)), S \cap DOMAIN box)
<1> DEFINE n == Len(box)
           all == [i \in DOMAIN box |-> i]
           out == Uids(box, S)
           len == Len(out)
           rev == Reverse(out)
<1>1. n \in Nat /\ DOMAIN box = 1 .. n
  OBVIOUS
<1> HIDE DEF n
<1>2. all \in [1 .. n -> 1 .. n] /\ \A i \in 1 .. n : all[i] = i
  BY <1>1
<1> HIDE DEF all
<1>3. all \in Seq(1 .. n) /\ Len(all) = n
  BY <1>1, <1>2, ListIs
<1>4. PICK pos : out \in Seq(1 .. n) /\ KeptAt(all, S, out, pos)
  BY <1>3, OnlyIs DEF Uids, all
<1> HIDE DEF out
<1>5. len \in Nat /\ DOMAIN out = 1 .. len /\ \A i \in 1 .. len : out[i] \in 1 .. n
  BY <1>4, ElementsOf
<1> HIDE DEF len
<1>6. /\ pos \in [1 .. len -> 1 .. n] /\ \A i \in 1 .. len : out[i] = pos[i] /\ out[i] \in S
      /\ \A i, j \in 1 .. len : i < j => pos[i] < pos[j]
      /\ \A k \in 1 .. n : k \in S => \E i \in 1 .. len : pos[i] = k
  BY <1>2, <1>3, <1>4 DEF KeptAt, len
<1>7. rev = [i \in 1 .. len |-> out[len - i + 1]]
  BY DEF Reverse, len
<1>8. \A i \in 1 .. len : len - i + 1 \in 1 .. len /\ len - (len - i + 1) + 1 = i
  BY <1>5
<1>9. rev \in [1 .. len -> 1 .. n] /\ \A i \in 1 .. len : rev[i] = out[len - i + 1]
  BY <1>5, <1>7, <1>8
<1> HIDE DEF rev
<1>10. rev \in Seq(Nat) /\ Len(rev) = len
  <2>1. rev \in [1 .. len -> Nat]
    BY <1>1, <1>9
  <2> QED BY <1>5, <2>1, ListIs
<1>11. out \in Seq(Nat)
  BY <1>4, <1>5
<1>12. S \cap DOMAIN box = {rev[i] : i \in 1 .. len}
  <2>1. \A i \in 1 .. len : rev[i] \in S \cap 1 .. n
    BY <1>5, <1>6, <1>8, <1>9
  <2>2. ASSUME NEW x \in S \cap 1 .. n PROVE \E i \in 1 .. len : rev[i] = x
    <3>1. PICK i \in 1 .. len : out[i] = x
      BY <1>6
    <3>2. rev[len - i + 1] = x
      BY <1>8, <1>9, <3>1
    <3> QED BY <1>8, <3>2
  <2> QED BY <1>1, <2>1, <2>2
<1>13. \A i, j \in 1 .. len : i < j => rev[j] < rev[i]
  <2> SUFFICES ASSUME NEW i \in 1 .. len, NEW j \in 1 .. len, i < j PROVE rev[j] < rev[i]
    OBVIOUS
  <2>1. len - j + 1 < len - i + 1
    BY <1>5
  <2>2. pos[len - j + 1] < pos[len - i + 1]
    BY <1>6, <1>8, <2>1
  <2>3. rev[i] = pos[len - i + 1] /\ rev[j] = pos[len - j + 1]
    BY <1>6, <1>8, <1>9
  <2> QED BY <2>2, <2>3
<1> QED BY <1>10, <1>11, <1>12, <1>13 DEF Descends, rev, out

(* The end of a list is the front of its reverse.                          *)
LEMMA EndReversed ==
  ASSUME NEW s \in Seq(Nat), NEW n \in Nat \ {0}
  PROVE  LastN(s, n) \in Seq(Nat) /\ Reverse(LastN(s, n)) = FirstN(Reverse(s), n)
<1> DEFINE len == Len(s)
           rev == Reverse(s)
<1>1. len \in Nat /\ \A i \in 1 .. len : s[i] \in Nat
  OBVIOUS
<1>2. rev = [i \in 1 .. len |-> s[len - i + 1]]
  BY DEF Reverse
<1>3. Len(rev) = len
  BY <1>1, <1>2
<1>4. CASE n >= len
  BY <1>3, <1>4 DEF LastN, FirstN
<1>5. CASE ~ (n >= len)
  <2> DEFINE end == SubSeq(s, len - n + 1, len)
  <2>1. LastN(s, n) = end
    BY <1>5 DEF LastN
  <2>2. FirstN(rev, n) = SubSeq(rev, 1, n)
    BY <1>3, <1>5 DEF FirstN
  <2> HIDE DEF len, rev
  <2>3. len - n + 1 \in 1 .. len /\ len - (len - n + 1) + 1 = n
    BY <1>1, <1>5
  <2>4. end = [i \in 1 .. n |-> s[len - n + i]]
    BY <1>1, <2>3
  <2>5. \A i \in 1 .. n : len - n + i \in 1 .. len
    BY <1>1, <1>5
  <2>6. end \in [1 .. n -> Nat]
    BY <1>1, <2>4, <2>5
  <2> HIDE DEF end
  <2>7. end \in Seq(Nat) /\ Len(end) = n
    BY <2>6, ListIs
  <2>8. Reverse(end) = [i \in 1 .. n |-> end[n - i + 1]]
    BY <2>7 DEF Reverse
  <2>9. \A i \in 1 .. n : n - i + 1 \in 1 .. n /\ len - n + (n - i + 1) = len - i + 1 /\ i \in 1 .. len
    BY <1>1, <1>5
  <2>10. Reverse(end) = [i \in 1 .. n |-> rev[i]]
    <3>1. \A i \in 1 .. n : end[n - i + 1] = rev[i]
      BY <1>2, <2>4, <2>9
    <3> QED BY <2>8, <3>1
  <2>11. SubSeq(rev, 1, n) = [i \in 1 .. n |-> rev[i]]
    BY <1>1, <1>3, <1>5
  <2> QED BY <2>1, <2>2, <2>7, <2>10, <2>11 DEF rev
<1> QED BY <1>4, <1>5

LEMMA ReversedElements ==
  ASSUME NEW V, NEW s \in Seq(V)
  PROVE  Reverse(s) \in Seq(V) /\ Len(Reverse(s)) = Len(s) /\ ToSet(Reverse(s)) = ToSet(s)
<1> DEFINE len == Len(s)
           rev == Reverse(s)
<1>1. len \in Nat /\ DOMAIN s = 1 .. len /\ \A i \in 1 .. len : s[i] \in V
  BY ElementsOf
<1>2. rev = [i \in 1 .. len |-> s[len - i + 1]]
  BY DEF Reverse
<1> HIDE DEF len, rev
<1>3. \A i \in 1 .. len : len - i + 1 \in 1 .. len /\ len - (len - i + 1) + 1 = i
  BY <1>1
<1>4. rev \in [1 .. len -> V] /\ \A i \in 1 .. len : rev[i] = s[len - i + 1]
  BY <1>1, <1>2, <1>3
<1>5. rev \in Seq(V) /\ Len(rev) = len
  BY <1>1, <1>4, ListIs
<1>6. DOMAIN rev = 1 .. len
  BY <1>4
<1>7. \A i \in 1 .. len : s[i] = rev[len - i + 1]
  BY <1>3, <1>4
<1>8. {rev[i] : i \in 1 .. len} = {s[i] : i \in 1 .. len}
  BY <1>3, <1>4, <1>7
<1> QED BY <1>1, <1>5, <1>6, <1>8 DEF ToSet, len, rev

LEMMA OnlyElements ==
  ASSUME NEW V, NEW s \in Seq(V), NEW keep
  PROVE  ToSet(Only(s, keep)) = ToSet(s) \cap keep
<1> DEFINE out == Only(s, keep)
<1>1. PICK pos : out \in Seq(V) /\ KeptAt(s, keep, out, pos)
  BY OnlyIs
<1> HIDE DEF out
<1>2. DOMAIN s = 1 .. Len(s) /\ DOMAIN out = 1 .. Len(out)
  BY <1>1, ElementsOf
<1>3. /\ pos \in [1 .. Len(out) -> 1 .. Len(s)]
      /\ \A i \in 1 .. Len(out) : out[i] = s[pos[i]] /\ out[i] \in keep
      /\ \A k \in 1 .. Len(s) : s[k] \in keep => \E i \in 1 .. Len(out) : pos[i] = k
  BY <1>1 DEF KeptAt
<1>4. ASSUME NEW x \in ToSet(s) \cap keep PROVE x \in ToSet(out)
  <2>1. PICK k \in 1 .. Len(s) : s[k] = x
    BY <1>2 DEF ToSet
  <2>2. PICK i \in 1 .. Len(out) : pos[i] = k
    BY <1>3, <2>1
  <2> QED BY <1>2, <1>3, <2>1, <2>2 DEF ToSet
<1>5. \A i \in 1 .. Len(out) : out[i] \in ToSet(s) \cap keep
  BY <1>2, <1>3 DEF ToSet
<1> QED BY <1>2, <1>4, <1>5 DEF ToSet, out

LEMMA DescendsSet == ASSUME NEW s, NEW S, Descends(s, S) PROVE ToSet(s) = S /\ s \in Seq(Nat)
<1>1. s \in Seq(Nat) /\ S = {s[i] : i \in 1 .. Len(s)}
  BY DEF Descends
<1>2. DOMAIN s = 1 .. Len(s)
  BY <1>1, ElementsOf
<1> QED BY <1>1, <1>2 DEF ToSet

(* SINCE the day of the cutoff lets everything through that is more recent.*)
LEMMA DaysInOrder ==
  ASSUME NEW a \in Nat, NEW b \in Nat, a <= b
  PROVE  a \div Day <= b \div Day
<1> DEFINE x == a \div Day
           y == b \div Day
<1>1. Day \in Nat \ {0}
  BY SearchAssumption
<1>2. x \in Nat /\ a % Day \in 0 .. Day - 1 /\ a = Day * x + (a % Day)
  BY <1>1, DivisionIs
<1>3. y \in Nat /\ b % Day \in 0 .. Day - 1 /\ b = Day * y + (b % Day)
  BY <1>1, DivisionIs
<1> HIDE DEF x, y
<1> SUFFICES ASSUME y + 1 <= x PROVE FALSE
  BY <1>2, <1>3 DEF x, y
<1>4. (y + 1) * Day <= x * Day
  BY <1>1, <1>2, <1>3, Times
<1>5. x * Day = Day * x /\ (y + 1) * Day = Day * y + Day /\ Day * x \in Nat /\ Day * y \in Nat
  BY <1>1, <1>2, <1>3
<1> QED BY <1>1, <1>2, <1>3, <1>4, <1>5

(* IMAP.                                                                   *)
LEMMA ImapNewest ==
  ASSUME NEW box, IsMailbox(box), DatedInTime(box), NEW q \in Query, q.limit # 0, NEW gone
  PROVE  ToSet(ImapSearch(box, q, gone)) =
           IF q.att = Unset THEN Newest(Matches(box, q), q.limit) \ gone
           ELSE Newest(Matches(box, q) \ gone, q.limit)
<1> DEFINE H == {i \in DOMAIN box : /\ box[i].hit
                                    /\ q.cutoff = Unset \/ box[i].day >= q.cutoff \div Day}
           U == {i \in DOMAIN box : Recent(box[i], q)}
           K == {i \in DOMAIN box \ gone : HasWanted(box[i], q)}
           hits == SearchHits(box, q)
           cands == Candidates(box, q)
           C == IF q.limit = Unset \/ q.att # Unset THEN H ELSE Newest(H, q.limit)
           size == IF q.att # Unset /\ q.limit # Unset THEN FetchChunk ELSE Len(cands)
           taken == IF cands = <<>> THEN <<>> ELSE Chunks(cands, size)
           rows == Only(taken, K)
           shown == IF q.att = Unset \/ q.limit = Unset THEN rows
                    ELSE FirstN(rows, IF q.limit = 0 THEN 1 ELSE q.limit)
<1>1. /\ box \in Seq(Message) /\ DOMAIN box \subseteq Nat
      /\ \A i \in DOMAIN box : box[i].at \in Nat /\ box[i].day \in Nat
      /\ \A i, j \in DOMAIN box : i < j => box[i].at < box[j].at
  <2>1. box \in Seq(Message)
    BY DEF IsMailbox
  <2>2. DOMAIN box = 1 .. Len(box) /\ \A i \in 1 .. Len(box) : box[i] \in Message
    BY <2>1, ElementsOf
  <2> QED BY <2>1, <2>2 DEF IsMailbox, Message
<1>2. q.limit \in (Nat \ {0}) \cup {Unset} /\ q.cutoff \in Nat \cup {Unset}
      /\ Unset \notin Nat /\ FetchChunk \in Nat \ {0}
  BY SearchAssumption DEF Query
<1>3. hits \in Seq(Nat) /\ Descends(Reverse(hits), H)
  <2>1. hits = Uids(box, H)
    BY DEF SearchHits
  <2>2. H \cap DOMAIN box = H
    OBVIOUS
  <2> HIDE DEF H, hits
  <2> QED BY <1>1, <2>1, <2>2, UidsDescend
<1> HIDE DEF H, hits
<1>4. cands \in Seq(Nat) /\ Descends(Reverse(cands), C)
  <2>1. CASE q.limit = Unset \/ q.att # Unset
    BY <1>3, <2>1 DEF Candidates, hits
  <2>2. CASE ~ (q.limit = Unset \/ q.att # Unset)
    <3>1. cands = LastN(hits, q.limit) /\ C = Newest(H, q.limit) /\ q.limit \in Nat \ {0}
      BY <1>2, <2>2 DEF Candidates, hits
    <3>2. LastN(hits, q.limit) \in Seq(Nat) /\ Reverse(LastN(hits, q.limit)) = FirstN(Reverse(hits), q.limit)
      BY <1>3, <3>1, EndReversed
    <3> HIDE DEF cands, C
    <3> QED BY <1>3, <3>1, <3>2, FrontIsNewest
  <2> QED BY <2>1, <2>2
<1>5. ImapSearch(box, q, gone) = Only(Reverse(shown), U)
  BY DEF ImapSearch, CollectRows
<1> HIDE DEF cands, C
<1>6. taken = Reverse(cands)
  <2>1. CASE cands = <<>>
    BY <2>1 DEF Reverse
  <2>2. CASE cands # <<>>
    <3>1. size \in Nat \ {0}
      BY <1>2, <1>4, <2>2
    <3> HIDE DEF size
    <3> QED BY <1>4, <2>2, <3>1, ChunksAre
  <2> QED BY <2>1, <2>2
<1> HIDE DEF taken, K, U
<1>7. Descends(rows, C \cap K)
  BY <1>4, <1>6, OnlyDescends
<1> HIDE DEF rows
<1>8. shown \in Seq(Nat) /\ ToSet(shown) = IF q.att = Unset THEN C \cap K ELSE Newest(C \cap K, q.limit)
  <2>1. CASE q.att = Unset
    BY <1>7, <2>1, DescendsSet
  <2>2. CASE q.att # Unset /\ q.limit = Unset
    BY <1>7, <2>2, DescendsSet DEF Newest
  <2>3. CASE q.att # Unset /\ q.limit # Unset
    <3>1. shown = FirstN(rows, q.limit) /\ q.limit \in Nat \ {0}
      BY <1>2, <2>3
    <3> HIDE DEF shown
    <3>2. Descends(shown, Newest(C \cap K, q.limit))
      BY <1>7, <3>1, FrontIsNewest
    <3> QED BY <2>3, <3>2, DescendsSet
  <2> QED BY <2>1, <2>2, <2>3
<1> HIDE DEF shown
<1>9. ToSet(ImapSearch(box, q, gone)) = ToSet(shown) \cap U
  BY <1>5, <1>8, ReversedElements, OnlyElements
<1>10. H \cap U = {i \in DOMAIN box : box[i].hit /\ Recent(box[i], q)}
  <2>1. ASSUME NEW i \in DOMAIN box, Recent(box[i], q), q.cutoff # Unset
        PROVE  box[i].day >= q.cutoff \div Day
    <3>1. box[i].at \in Nat /\ q.cutoff \in Nat /\ q.cutoff <= box[i].at
      BY <1>1, <1>2, <2>1 DEF Recent
    <3>2. q.cutoff \div Day <= box[i].at \div Day
      BY <3>1, DaysInOrder
    <3>3. Day \in Nat \ {0}
      BY SearchAssumption
    <3>4. q.cutoff \div Day \in Nat /\ box[i].at \div Day \in Nat
      BY <3>1, <3>3, DivisionIs
    <3>5. box[i].day >= box[i].at \div Day /\ box[i].day \in Nat
      BY <1>1 DEF DatedInTime
    <3> QED BY <3>2, <3>4, <3>5
  <2> QED BY <2>1 DEF H, U
<1>11. /\ H \in SUBSET Nat
       /\ \A S \in SUBSET H : \A i \in S \cap U, j \in S : j > i => j \in U
  <2>1. H \subseteq DOMAIN box
    BY DEF H
  <2>2. ASSUME NEW i \in DOMAIN box, NEW j \in DOMAIN box, j > i, Recent(box[i], q)
        PROVE  Recent(box[j], q)
    <3>1. box[i].at < box[j].at /\ box[i].at \in Nat /\ box[j].at \in Nat
      <4>1. i < j
        BY <1>1, <2>2
      <4> QED BY <1>1, <4>1
    <3>2. q.cutoff = Unset \/ (q.cutoff \in Nat /\ box[i].at >= q.cutoff)
      BY <1>2, <2>2 DEF Recent
    <3> QED BY <3>1, <3>2 DEF Recent
  <2> QED BY <1>1, <2>1, <2>2 DEF U
<1>12. CASE q.att = Unset
  <2>1. K = DOMAIN box \ gone /\ Matches(box, q) = H \cap U /\ H \subseteq DOMAIN box
    BY <1>10, <1>12 DEF K, HasWanted, Matches, H
  <2>2. C = Newest(H, q.limit)
    BY <1>12 DEF C, Newest
  <2>3. Newest(H, q.limit) \cap U = Newest(H \cap U, q.limit)
    BY <1>11, NewestWithin
  <2>4. Newest(H, q.limit) \subseteq H
    BY DEF Newest
  <2> QED BY <1>8, <1>9, <1>12, <2>1, <2>2, <2>3, <2>4
<1>13. CASE q.att # Unset
  <2>1. C = H
    BY <1>13 DEF C
  <2>2. (H \cap K) \cap U = Matches(box, q) \ gone
    BY <1>10 DEF K, Matches
  <2>3. Newest(H \cap K, q.limit) \cap U = Newest((H \cap K) \cap U, q.limit)
    <3>1. H \cap K \in SUBSET H /\ H \cap K \in SUBSET Nat
      BY <1>11
    <3> QED BY <1>11, <3>1, NewestWithin
  <2> QED BY <1>8, <1>9, <1>13, <2>1, <2>2, <2>3
<1> QED BY <1>12, <1>13

LEMMA MailboxIs ==
  ASSUME NEW box, IsMailbox(box)
  PROVE  /\ box \in Seq(Message) /\ DOMAIN box = 1 .. Len(box) /\ DOMAIN box \subseteq Nat
         /\ \A i \in DOMAIN box : box[i].at \in Nat
         /\ \A i, j \in DOMAIN box : i < j <=> box[i].at < box[j].at
<1>1. box \in Seq(Message)
  BY DEF IsMailbox
<1>2. DOMAIN box = 1 .. Len(box) /\ \A i \in 1 .. Len(box) : box[i] \in Message
  BY <1>1, ElementsOf
<1>3. \A i, j \in DOMAIN box : i < j => box[i].at < box[j].at
  BY DEF IsMailbox
<1>4. \A i \in DOMAIN box : box[i].at \in Nat /\ i \in Nat
  BY <1>2 DEF Message
<1>5. \A i, j \in DOMAIN box : box[i].at < box[j].at => i < j
  <2> SUFFICES ASSUME NEW i \in DOMAIN box, NEW j \in DOMAIN box, box[i].at < box[j].at, ~ (i < j)
               PROVE  FALSE
    OBVIOUS
  <2>1. i = j \/ j < i
    BY <1>4
  <2>2. i = j \/ box[j].at < box[i].at
    BY <1>3, <2>1
  <2> QED BY <1>4, <2>2
<1> QED BY <1>1, <1>2, <1>3, <1>4, <1>5

(* AppleScript.                                                            *)
LEMMA ScriptNewest ==
  ASSUME NEW box, IsMailbox(box), NEW q \in Query, q.limit # 0
  PROVE  ToSet(ScriptSearch(box, q)) = Newest(Matches(box, q), q.limit)
<1> DEFINE scanned == {i \in DOMAIN box : \A j \in i .. Len(box) : Recent(box[j], q)}
           S == {i \in scanned : box[i].hit /\ HasWanted(box[i], q)}
           rows == Reverse(Uids(box, S))
<1>1. /\ box \in Seq(Message) /\ DOMAIN box = 1 .. Len(box) /\ DOMAIN box \subseteq Nat
      /\ \A i \in DOMAIN box : box[i].at \in Nat
      /\ \A i, j \in DOMAIN box : i < j <=> box[i].at < box[j].at
  BY MailboxIs
<1>2. q.limit \in (Nat \ {0}) \cup {Unset} /\ q.cutoff \in Nat \cup {Unset} /\ Unset \notin Nat
  BY SearchAssumption DEF Query
<1>3. scanned = {i \in DOMAIN box : Recent(box[i], q)}
  <2>1. ASSUME NEW i \in DOMAIN box, Recent(box[i], q), NEW j \in i .. Len(box)
        PROVE  Recent(box[j], q)
    <3>1. j \in DOMAIN box /\ (j = i \/ i < j)
      BY <1>1
    <3>2. box[i].at <= box[j].at
      BY <1>1, <3>1
    <3>3. box[i].at \in Nat /\ box[j].at \in Nat
      BY <1>1, <3>1
    <3> QED BY <1>2, <2>1, <3>2, <3>3 DEF Recent
  <2>2. \A i \in DOMAIN box : i \in i .. Len(box)
    BY <1>1
  <2> QED BY <2>1, <2>2
<1>4. S = Matches(box, q) /\ S \cap DOMAIN box = S
  BY <1>3 DEF Matches
<1>5. ScriptSearch(box, q) = IF q.limit \in {Unset, 0} THEN rows ELSE FirstN(rows, q.limit)
  BY DEF ScriptSearch
<1> HIDE DEF S
<1>6. Descends(rows, S)
  BY <1>1, <1>4, UidsDescend
<1> HIDE DEF rows
<1>7. CASE q.limit = Unset
  BY <1>4, <1>5, <1>6, <1>7, DescendsSet DEF Newest
<1>8. CASE q.limit # Unset
  <2>1. Descends(FirstN(rows, q.limit), Newest(S, q.limit))
    BY <1>2, <1>6, <1>8, FrontIsNewest
  <2> QED BY <1>2, <1>4, <1>5, <1>8, <2>1, DescendsSet
<1> QED BY <1>7, <1>8

(* The local index: the rows in the order of their dates are those from    *)
(* the end of the mailbox.                                                 *)
LEMMA LocalNewest ==
  ASSUME NEW box, IsMailbox(box), NEW q \in Query, q.limit # 0, LocalSupports(q)
  PROVE  ToSet(LocalSearch(box, q)) = Newest(Matches(box, q), q.limit)
<1> DEFINE S == {i \in DOMAIN box : box[i].hit /\ Recent(box[i], q)}
           rows == Sorted(S, LAMBDA i, j : box[i].at > box[j].at)
           down == Reverse(Uids(box, S))
<1>1. /\ box \in Seq(Message) /\ DOMAIN box = 1 .. Len(box) /\ DOMAIN box \subseteq Nat
      /\ \A i \in DOMAIN box : box[i].at \in Nat
      /\ \A i, j \in DOMAIN box : i < j <=> box[i].at < box[j].at
  BY MailboxIs
<1>2. q.limit \in (Nat \ {0}) \cup {Unset} /\ Unset \notin Nat
  BY SearchAssumption DEF Query
<1>3. S = Matches(box, q) /\ S \cap DOMAIN box = S
  BY DEF Matches, HasWanted, LocalSupports
<1>4. LocalSearch(box, q) = IF q.limit = Unset THEN rows ELSE FirstN(rows, q.limit)
  BY DEF LocalSearch
<1>5. rows = [n \in 1 .. Cardinality(S) |->
                CHOOSE x \in S : Cardinality({y \in S : box[y].at > box[x].at}) = n - 1]
  BY DEF Sorted
<1> HIDE DEF S, rows
<1>6. Descends(down, S)
  BY <1>1, <1>3, UidsDescend
<1> HIDE DEF down
<1>7. /\ down \in Seq(Nat) /\ Len(down) \in Nat /\ S = {down[i] : i \in 1 .. Len(down)}
      /\ \A i, j \in 1 .. Len(down) : i # j => down[i] # down[j]
  <2>1. /\ down \in Seq(Nat) /\ S = {down[i] : i \in 1 .. Len(down)}
        /\ \A i, j \in 1 .. Len(down) : i < j => down[j] < down[i]
    BY <1>6 DEF Descends
  <2>2. Len(down) \in Nat /\ \A i \in 1 .. Len(down) : down[i] \in Nat
    BY <2>1, ElementsOf
  <2>3. \A i, j \in 1 .. Len(down) : i # j => i < j \/ j < i
    BY <2>2
  <2>4. \A i, j \in 1 .. Len(down) : i # j => down[j] < down[i] \/ down[i] < down[j]
    BY <2>1, <2>3
  <2> QED BY <2>1, <2>2, <2>4
<1>8. Cardinality(S) = Len(down)
  BY <1>7, Enumerated
<1>9. S \subseteq DOMAIN box
  BY DEF S
<1>10. \A x \in S : {y \in S : box[y].at > box[x].at} = {y \in S : y > x}
  <2> SUFFICES ASSUME NEW x \in S, NEW y \in S PROVE box[y].at > box[x].at <=> y > x
    OBVIOUS
  <2>1. x \in DOMAIN box /\ y \in DOMAIN box /\ (x < y <=> box[x].at < box[y].at)
    BY <1>1, <1>9
  <2> QED BY <1>1, <2>1
<1>11. ASSUME NEW n \in 1 .. Len(down)
       PROVE  (CHOOSE x \in S : Cardinality({y \in S : box[y].at > box[x].at}) = n - 1) = down[n]
  <2> DEFINE Is(x) == x \in S /\ Cardinality({y \in S : box[y].at > box[x].at}) = n - 1
  <2>1. \A x : Is(x) => x = down[n]
    <3> SUFFICES ASSUME NEW x, Is(x) PROVE x = down[n]
      OBVIOUS
    <3>1. PICK k \in 1 .. Len(down) : x = down[k]
      BY <1>7
    <3>2. Cardinality({y \in S : y > down[k]}) = k - 1
      BY <1>6, HigherThan
    <3>3. k - 1 = n - 1
      BY <1>10, <3>1, <3>2
    <3> QED BY <1>7, <3>1, <3>3
  <2>2. Is(down[n])
    <3>1. Cardinality({y \in S : y > down[n]}) = n - 1
      BY <1>6, HigherThan
    <3>2. down[n] \in S
      BY <1>7
    <3> QED BY <1>10, <3>1, <3>2
  <2>3. (CHOOSE x \in S : Cardinality({y \in S : box[y].at > box[x].at}) = n - 1) = CHOOSE x : Is(x)
    OBVIOUS
  <2> HIDE DEF Is
  <2> QED BY <2>1, <2>2, <2>3
<1>12. rows = down
  <2>1. rows = [n \in 1 .. Len(down) |-> down[n]]
    BY <1>5, <1>8, <1>11
  <2> QED BY <1>7, <2>1
<1>13. CASE q.limit = Unset
  BY <1>3, <1>4, <1>6, <1>12, <1>13, DescendsSet DEF Newest
<1>14. CASE q.limit # Unset
  <2>1. Descends(FirstN(down, q.limit), Newest(S, q.limit))
    BY <1>2, <1>6, <1>14, FrontIsNewest
  <2> QED BY <1>2, <1>3, <1>4, <1>12, <1>14, <2>1, DescendsSet
<1> QED BY <1>13, <1>14

(* Whichever backend answers a search, the caller sees the same: the newest*)
(* messages that match, as many as the limit allows, up to those that      *)
(* vanish while IMAP is asked, for any mailbox whose messages arrived in   *)
(* the order of their dates, any query but one with the limit 0, any chunk *)
(* and any length of a day.                                                *)
THEOREM SearchesAgree ==
  ASSUME NEW box, IsMailbox(box), NEW q \in Query, q.limit # 0, NEW gone
  PROVE  SearchFindsNewest(box, q, gone)
BY ImapNewest, ScriptNewest, LocalNewest DEF SearchFindsNewest

LEMMA FlattenFrom ==
  ASSUME NEW V, NEW seqs \in Seq(Seq(V))
  PROVE  \E f \in [0 .. Len(seqs) -> Seq(V)] :
           /\ f[0] = <<>> /\ FlattenSeq(seqs) = f[Len(seqs)]
           /\ \A k \in 1 .. Len(seqs) : f[k] = f[k - 1] \o seqs[k]
<1> DEFINE n == Len(seqs)
           W == Seq(V)
<1>1. n \in Nat /\ <<>> \in W /\ \A k \in 1 .. n : seqs[k] \in W
  OBVIOUS
<1>2. CASE n = 0
  <2> DEFINE f == [i \in 0 .. 0 |-> <<>>]
  <2>1. seqs = <<>> /\ FlattenSeq(seqs) = seqs
    BY <1>2 DEF FlattenSeq
  <2>2. f \in [0 .. 0 -> W] /\ f[0] = <<>>
    BY <1>1
  <2> HIDE DEF f, W
  <2>3. 1 .. 0 = {}
    OBVIOUS
  <2> QED BY <1>2, <2>1, <2>2, <2>3 DEF W
<1>3. CASE n # 0
  <2>1. PICK g \in [1 .. n -> W] :
          /\ g[1] = seqs[1] /\ FlattenSeq(seqs) = g[n]
          /\ \A k \in 2 .. n : g[k] = g[k - 1] \o seqs[k]
    BY <1>3, FlattenStepwise
  <2> DEFINE f == [i \in 0 .. n |-> IF i = 0 THEN <<>> ELSE g[i]]
  <2> HIDE DEF n, W
  <2>2. \A i \in 0 .. n : i # 0 => i \in 1 .. n
    BY <1>1
  <2>3. f \in [0 .. n -> W] /\ f[0] = <<>> /\ \A i \in 1 .. n : f[i] = g[i]
    <3>1. \A i \in 1 .. n : i \in 0 .. n /\ i # 0
      BY <1>1
    <3>2. 0 \in 0 .. n
      BY <1>1
    <3> QED BY <1>1, <2>1, <2>2, <3>1, <3>2
  <2> HIDE DEF f
  <2>4. ASSUME NEW k \in 1 .. n PROVE f[k] = f[k - 1] \o seqs[k]
    <3>1. CASE k = 1
      <4>1. f[k] = seqs[k] /\ f[k - 1] = <<>>
        BY <2>1, <2>3, <3>1
      <4>2. seqs[k] \in Seq(V)
        BY <1>1 DEF W
      <4> QED BY <4>1, <4>2
    <3>2. CASE k # 1
      <4>1. k \in 2 .. n /\ k - 1 \in 1 .. n
        BY <1>1, <3>2
      <4> QED BY <2>1, <2>3, <4>1
    <3> QED BY <3>1, <3>2
  <2>5. n \in 1 .. n
    BY <1>1, <1>3
  <2> QED BY <2>1, <2>3, <2>4, <2>5 DEF n, W
<1> QED BY <1>2, <1>3

(* What Sorted yields: B is the set of the pairs of which the first is     *)
(* before the second.                                                      *)
Ranked(S, B) ==
  [n \in 1 .. Cardinality(S) |-> CHOOSE x \in S : Cardinality({y \in S : <<y, x>> \in B}) = n - 1]

LEMMA SortedIs ==
  ASSUME NEW S, IsFiniteSet(S), NEW B,
         \A x \in S : <<x, x>> \notin B,
         \A x, y \in S : x = y \/ <<x, y>> \in B \/ <<y, x>> \in B,
         \A x, y, z \in S : <<x, y>> \in B /\ <<y, z>> \in B => <<x, z>> \in B
  PROVE  /\ Cardinality(S) \in Nat
         /\ Ranked(S, B) \in [1 .. Cardinality(S) -> S]
         /\ \A x \in S : \E n \in 1 .. Cardinality(S) : Ranked(S, B)[n] = x
         /\ \A i, j \in 1 .. Cardinality(S) : i < j => <<Ranked(S, B)[i], Ranked(S, B)[j]>> \in B
<1> DEFINE N == Cardinality(S)
           Below(x) == {y \in S : <<y, x>> \in B}
           rank(x) == Cardinality(Below(x))
           r == [x \in S |-> rank(x) + 1]
           s == Ranked(S, B)
<1>1. N \in Nat
  BY FS_CardinalityType
<1>2. ASSUME NEW x \in S PROVE IsFiniteSet(Below(x)) /\ rank(x) \in 0 .. N - 1
  <2>1. Below(x) \subseteq S \ {x}
    OBVIOUS
  <2>2. IsFiniteSet(S \ {x}) /\ Cardinality(S \ {x}) = N - 1
    BY FS_RemoveElement
  <2> HIDE DEF Below
  <2>3. IsFiniteSet(Below(x)) /\ rank(x) <= N - 1
    BY <2>1, <2>2, FS_Subset
  <2>4. rank(x) \in Nat
    BY <2>3, FS_CardinalityType
  <2> QED BY <1>1, <2>3, <2>4
<1>3. ASSUME NEW x \in S, NEW y \in S, <<x, y>> \in B PROVE rank(x) < rank(y)
  <2>1. Below(x) \subseteq Below(y) /\ x \in Below(y) /\ x \notin Below(x)
    BY <1>3
  <2>2. IsFiniteSet(Below(y)) /\ rank(x) \in Nat /\ rank(y) \in Nat
    BY <1>1, <1>2
  <2> HIDE DEF Below
  <2>3. rank(x) <= rank(y) /\ (rank(x) = rank(y) => Below(y) = Below(x))
    BY <2>1, <2>2, FS_Subset
  <2>4. rank(x) # rank(y)
    BY <2>1, <2>3
  <2> QED BY <2>2, <2>3, <2>4
<1> HIDE DEF Below
<1>4. \A x, y \in S : rank(x) = rank(y) => x = y
  <2> SUFFICES ASSUME NEW x \in S, NEW y \in S, x # y PROVE rank(x) # rank(y)
    OBVIOUS
  <2>1. rank(x) < rank(y) \/ rank(y) < rank(x)
    BY <1>3
  <2>2. rank(x) \in Nat /\ rank(y) \in Nat
    BY <1>1, <1>2
  <2> HIDE DEF rank
  <2> QED BY <2>1, <2>2
<1> HIDE DEF rank
<1>5. r \in Injection(S, 1 .. N)
  <2>1. \A x \in S : r[x] \in 1 .. N
    BY <1>1, <1>2
  <2>2. \A x, y \in S : r[x] = r[y] => x = y
    <3>1. \A x \in S : rank(x) \in Nat
      BY <1>1, <1>2
    <3> QED BY <1>4, <3>1
  <2>3. r \in [S -> 1 .. N]
    BY <2>1
  <2> HIDE DEF r
  <2> QED BY <2>2, <2>3 DEF Injection, IsInjective
<1>6. r \in Surjection(S, 1 .. N)
  <2>1. IsFiniteSet(1 .. N) /\ Cardinality(1 .. N) = N
    <3>1. IsFiniteSet(1 .. N) /\ Cardinality(1 .. N) = IF 1 > N THEN 0 ELSE N - 1 + 1
      BY <1>1, FS_Interval
    <3> QED BY <1>1, <3>1
  <2> HIDE DEF r
  <2> QED BY <1>5, <2>1, FS_Injection
<1>7. ASSUME NEW n \in 1 .. N PROVE \E x \in S : rank(x) = n - 1
  <2>1. PICK x \in S : r[x] = n
    BY <1>6 DEF Surjection
  <2> QED BY <1>1, <1>2, <2>1
<1>8. s = [n \in 1 .. N |-> CHOOSE x \in S : rank(x) = n - 1]
  BY DEF Ranked, rank, Below
<1> HIDE DEF s, N
<1>9. ASSUME NEW n \in 1 .. N PROVE s[n] \in S /\ rank(s[n]) = n - 1
  BY <1>7, <1>8
<1>10. s \in [1 .. N -> S]
  BY <1>8, <1>9
<1>11. ASSUME NEW x \in S PROVE \E n \in 1 .. N : s[n] = x
  <2>1. rank(x) \in 0 .. N - 1
    BY <1>2
  <2>2. rank(x) + 1 \in 1 .. N /\ (rank(x) + 1) - 1 = rank(x)
    BY <1>1, <2>1
  <2>3. s[rank(x) + 1] \in S /\ rank(s[rank(x) + 1]) = rank(x)
    BY <1>9, <2>2
  <2> QED BY <1>4, <2>2, <2>3
<1>12. ASSUME NEW i \in 1 .. N, NEW j \in 1 .. N, i < j PROVE <<s[i], s[j]>> \in B
  <2>1. s[i] \in S /\ s[j] \in S /\ rank(s[i]) = i - 1 /\ rank(s[j]) = j - 1
    BY <1>9
  <2>2. i - 1 < j - 1 /\ ~ (j - 1 < i - 1) /\ i - 1 # j - 1
    BY <1>1, <1>12
  <2>3. s[i] # s[j]
    BY <2>1, <2>2
  <2>4. <<s[j], s[i]>> \notin B
    BY <1>3, <2>1, <2>2
  <2> QED BY <2>1, <2>3, <2>4
<1> QED BY <1>1, <1>10, <1>11, <1>12 DEF s, N

-------------------------------------------------------------------------------
(* The search of all folders                                             *)

(* A list of places that has those of a set once each, the real ones first.*)
RealFirst(s, folders, S) ==
  /\ s \in Seq(DOMAIN folders) /\ S = {s[i] : i \in 1 .. Len(s)}
  /\ \A i, j \in 1 .. Len(s) : i < j => s[i] # s[j] /\ (folders[s[i]].all => folders[s[j]].all)

LEMMA OnlyRealFirst ==
  ASSUME NEW folders, NEW s, NEW S, RealFirst(s, folders, S), NEW keep
  PROVE  RealFirst(Only(s, keep), folders, S \cap keep)
<1> DEFINE out == Only(s, keep)
           Ahead(k, l) == k # l /\ (folders[k].all => folders[l].all)
<1>1. /\ s \in Seq(DOMAIN folders) /\ S = {s[i] : i \in 1 .. Len(s)}
      /\ \A i, j \in 1 .. Len(s) : i < j => Ahead(s[i], s[j])
  BY DEF RealFirst
<1>2. PICK pos : out \in Seq(DOMAIN folders) /\ KeptAt(s, keep, out, pos)
  BY <1>1, OnlyIs
<1> HIDE DEF out, Ahead
<1>3. /\ pos \in [1 .. Len(out) -> 1 .. Len(s)]
      /\ \A i, j \in 1 .. Len(out) : i < j => pos[i] < pos[j]
      /\ \A i \in 1 .. Len(out) : out[i] = s[pos[i]] /\ out[i] \in keep
      /\ \A k \in 1 .. Len(s) : s[k] \in keep => \E i \in 1 .. Len(out) : pos[i] = k
  BY <1>2 DEF KeptAt
<1>4. ASSUME NEW i \in 1 .. Len(out), NEW j \in 1 .. Len(out), i < j PROVE Ahead(out[i], out[j])
  <2>1. pos[i] \in 1 .. Len(s) /\ pos[j] \in 1 .. Len(s) /\ pos[i] < pos[j]
    BY <1>3, <1>4
  <2>2. Ahead(s[pos[i]], s[pos[j]])
    BY <1>1, <2>1
  <2>3. out[i] = s[pos[i]] /\ out[j] = s[pos[j]]
    BY <1>3
  <2> QED BY <2>2, <2>3
<1>5. S \cap keep = {out[i] : i \in 1 .. Len(out)}
  <2>1. ASSUME NEW x \in S \cap keep PROVE \E i \in 1 .. Len(out) : out[i] = x
    <3>1. PICK k \in 1 .. Len(s) : s[k] = x
      BY <1>1
    <3>2. PICK i \in 1 .. Len(out) : pos[i] = k
      BY <1>3, <3>1
    <3> QED BY <1>3, <3>1, <3>2
  <2>2. \A i \in 1 .. Len(out) : out[i] \in S \cap keep
    BY <1>1, <1>3
  <2> QED BY <2>1, <2>2
<1> QED BY <1>2, <1>4, <1>5 DEF RealFirst, out, Ahead

LEMMA InOrderIs ==
  ASSUME NEW V, NEW folders \in Seq(V), \A k \in DOMAIN folders : folders[k].all \in BOOLEAN
  PROVE  RealFirst(InOrder(folders), folders, DOMAIN folders)
<1> DEFINE D == DOMAIN folders
           n == Len(folders)
           all == {k \in D : folders[k].all}
           places == AsListed(folders)
           u == Only(places, D \ all)
           v == Only(places, all)
           w == u \o v
<1>1. n \in Nat /\ D = 1 .. n
  OBVIOUS
<1>2. places \in [1 .. n -> D] /\ \A k \in D : places[k] = k
  BY <1>1 DEF AsListed
<1> HIDE DEF n, places
<1>3. places \in Seq(D) /\ Len(places) = n
  BY <1>1, <1>2, ListIs
<1>4. ASSUME NEW keep \in SUBSET D
      PROVE  LET out == Only(places, keep)
             IN  /\ out \in Seq(D) /\ \A i \in 1 .. Len(out) : out[i] \in keep
                 /\ \A k \in keep : \E i \in 1 .. Len(out) : out[i] = k
                 /\ \A i, j \in 1 .. Len(out) : i < j => out[i] # out[j]
  <2> DEFINE out == Only(places, keep)
  <2>1. PICK pos : out \in Seq(D) /\ KeptAt(places, keep, out, pos)
    BY <1>3, OnlyIs
  <2> HIDE DEF out, D
  <2>2. /\ pos \in [1 .. Len(out) -> 1 .. n]
        /\ \A i, j \in 1 .. Len(out) : i < j => pos[i] < pos[j]
        /\ \A i \in 1 .. Len(out) : out[i] = places[pos[i]] /\ out[i] \in keep
        /\ \A k \in 1 .. n : places[k] \in keep => \E i \in 1 .. Len(out) : pos[i] = k
    BY <1>3, <2>1 DEF KeptAt
  <2>3. \A i \in 1 .. Len(out) : out[i] = pos[i]
    BY <1>1, <1>2, <2>2
  <2>4. \A i \in 1 .. Len(out) : pos[i] \in Nat
    BY <1>1, <2>2
  <2>5. \A i, j \in 1 .. Len(out) : i < j => out[i] # out[j]
    BY <2>2, <2>3, <2>4
  <2>6. \A k \in keep : \E i \in 1 .. Len(out) : out[i] = k
    BY <1>1, <1>2, <2>2, <2>3
  <2> QED BY <2>1, <2>2, <2>5, <2>6 DEF out
<1>5. /\ u \in Seq(D) /\ \A i \in 1 .. Len(u) : u[i] \in D \ all
      /\ \A k \in D \ all : \E i \in 1 .. Len(u) : u[i] = k
      /\ \A i, j \in 1 .. Len(u) : i < j => u[i] # u[j]
  BY <1>4
<1>6. /\ v \in Seq(D) /\ \A i \in 1 .. Len(v) : v[i] \in all
      /\ \A k \in all : \E i \in 1 .. Len(v) : v[i] = k
      /\ \A i, j \in 1 .. Len(v) : i < j => v[i] # v[j]
  BY <1>4
<1>7. InOrder(folders) = w
  BY DEF InOrder, places
<1> HIDE DEF u, v
<1>8. /\ w \in Seq(D) /\ Len(w) = Len(u) + Len(v) /\ Len(u) \in Nat /\ Len(v) \in Nat
      /\ \A i \in 1 .. Len(u) + Len(v) : w[i] = IF i <= Len(u) THEN u[i] ELSE v[i - Len(u)]
  <2> HIDE DEF D
  <2>1. Len(u) \in Nat /\ Len(v) \in Nat
    BY <1>5, <1>6
  <2> QED BY <1>5, <1>6, <2>1, ConcatProperties
<1> HIDE DEF w
<1>9. \A i \in 1 .. Len(w) : i \in 1 .. Len(u) \/ i - Len(u) \in 1 .. Len(v)
  BY <1>8
<1>10. \A i \in 1 .. Len(u) : i \in 1 .. Len(w) /\ w[i] = u[i]
  BY <1>8
<1>11. \A i \in 1 .. Len(v) : Len(u) + i \in 1 .. Len(w) /\ w[Len(u) + i] = v[i]
  BY <1>8
<1>12. D = {w[i] : i \in 1 .. Len(w)}
  <2> HIDE DEF all
  <2>1. ASSUME NEW k \in D PROVE \E i \in 1 .. Len(w) : w[i] = k
    <3>1. CASE k \in all
      <4>1. PICK i \in 1 .. Len(v) : v[i] = k
        BY <1>6, <3>1
      <4> QED BY <1>11, <4>1
    <3>2. CASE k \notin all
      <4>1. PICK i \in 1 .. Len(u) : u[i] = k
        BY <1>5, <3>2
      <4> QED BY <1>10, <4>1
    <3> QED BY <3>1, <3>2
  <2>2. \A i \in 1 .. Len(w) : w[i] \in D
    <3> HIDE DEF D
    <3> QED BY <1>8
  <2> QED BY <2>1, <2>2
<1>13. ASSUME NEW i \in 1 .. Len(w), NEW j \in 1 .. Len(w), i < j
       PROVE  w[i] # w[j] /\ (w[i] \in all => w[j] \in all)
  <2> HIDE DEF all, D
  <2>1. CASE j \in 1 .. Len(u)
    <3>1. i \in 1 .. Len(u)
      BY <1>8, <1>13, <2>1
    <3> QED BY <1>5, <1>10, <1>13, <2>1, <3>1
  <2>2. CASE i \in 1 .. Len(u) /\ j - Len(u) \in 1 .. Len(v)
    <3>1. w[j] = v[j - Len(u)]
      <4>1. Len(u) + (j - Len(u)) = j
        BY <1>8
      <4> QED BY <1>11, <2>2, <4>1
    <3>2. w[i] \in D \ all /\ w[j] \in all
      BY <1>5, <1>6, <1>10, <2>2, <3>1
    <3> QED BY <3>2
  <2>3. CASE i - Len(u) \in 1 .. Len(v) /\ j - Len(u) \in 1 .. Len(v)
    <3>1. Len(u) + (j - Len(u)) = j /\ Len(u) + (i - Len(u)) = i /\ i - Len(u) < j - Len(u)
      BY <1>8, <1>13
    <3>2. w[i] = v[i - Len(u)] /\ w[j] = v[j - Len(u)]
      BY <1>11, <2>3, <3>1
    <3> QED BY <1>6, <2>3, <3>1, <3>2
  <2> QED BY <1>9, <2>1, <2>2, <2>3
<1>14. \A i \in 1 .. Len(w) : w[i] \in D
  BY <1>12
<1>15. \A k \in D : k \in all <=> folders[k].all
  OBVIOUS
<1> HIDE DEF D, all
<1>16. \A i, j \in 1 .. Len(w) : i < j => w[i] # w[j] /\ (folders[w[i]].all => folders[w[j]].all)
  BY <1>13, <1>14, <1>15
<1> QED BY <1>7, <1>8, <1>12, <1>16 DEF RealFirst, D

(* The rows of all folders: each match of each folder that opens, once, and*)
(* those of the real folders first.                                        *)
RowAt(folders, k, j) == FolderRow(folders[k], folders[k].ids[j])
Row3(Name, Id) == [id : Id, folder : Name, all : BOOLEAN]

LEMMA RowsAre ==
  ASSUME NEW Name, NEW Id, NEW folders, AreFolders(folders, Name, Id), NEW limit \in Nat \cup {Unset},
         \A k \in DOMAIN folders :
           folders[k].opens => limit = Unset \/ Len(folders[k].ids) <= limit
  PROVE  LET rows == FolderRows(folders, limit)
         IN  /\ rows \in Seq(Row3(Name, Id))
             /\ \A p \in 1 .. Len(rows) : \E k \in DOMAIN folders :
                  folders[k].opens /\ \E j \in DOMAIN folders[k].ids : rows[p] = RowAt(folders, k, j)
             /\ \A k \in DOMAIN folders : folders[k].opens =>
                  \A j \in DOMAIN folders[k].ids : \E p \in 1 .. Len(rows) : rows[p] = RowAt(folders, k, j)
             /\ \A p, q \in 1 .. Len(rows) : p < q => rows[p] # rows[q] /\ (rows[p].all => rows[q].all)
<1> DEFINE D == DOMAIN folders
           V == Row3(Name, Id)
           O == {k \in D : folders[k].opens}
           opened == Only(InOrder(folders), O)
           given(f) == IF limit = Unset THEN f.ids ELSE LastN(f.ids, limit)
           block(f) == [j \in DOMAIN given(f) |-> FolderRow(f, given(f)[j])]
           part(k) == [j \in DOMAIN folders[k].ids |-> RowAt(folders, k, j)]
           seqs == [i \in DOMAIN opened |-> block(folders[opened[i]])]
           rows == FolderRows(folders, limit)
           n == Len(opened)
           Ahead(x, y) == x # y /\ (x.all => y.all)
<1>1. /\ folders \in Seq(Folder(Name, Id)) /\ D = 1 .. Len(folders)
      /\ \A k \in D : /\ folders[k].name \in Name /\ folders[k].all \in BOOLEAN
                      /\ folders[k].ids \in Seq(Id)
      /\ \A j, k \in D : j # k => folders[j].name # folders[k].name
      /\ \A k \in D : \A i, j \in DOMAIN folders[k].ids :
           i # j => folders[k].ids[i] # folders[k].ids[j]
  <2>1. folders \in Seq(Folder(Name, Id))
    BY DEF AreFolders
  <2>2. D = 1 .. Len(folders) /\ \A k \in 1 .. Len(folders) : folders[k] \in Folder(Name, Id)
    BY <2>1, ElementsOf
  <2> QED BY <2>1, <2>2 DEF AreFolders, Folder
<1>2. RealFirst(opened, folders, O)
  <2>1. RealFirst(InOrder(folders), folders, D)
    BY <1>1, InOrderIs
  <2>2. D \cap O = O
    OBVIOUS
  <2> HIDE DEF D, O
  <2> QED BY <2>1, <2>2, OnlyRealFirst
<1>3. rows = FlattenSeq(seqs)
  BY DEF FolderRows
<1> HIDE DEF opened, rows
<1>4. /\ opened \in Seq(D) /\ O = {opened[i] : i \in 1 .. n}
      /\ \A i, j \in 1 .. n : i < j =>
           opened[i] # opened[j] /\ (folders[opened[i]].all => folders[opened[j]].all)
  BY <1>2 DEF RealFirst
<1>5. n \in Nat /\ DOMAIN opened = 1 .. n /\ \A i \in 1 .. n : opened[i] \in O
  <2> HIDE DEF D, O
  <2>1. n \in Nat /\ DOMAIN opened = 1 .. n
    BY <1>4, ElementsOf
  <2> QED BY <1>4, <2>1
<1> HIDE DEF n
<1>6. \A k \in O : block(folders[k]) = part(k)
  <2> SUFFICES ASSUME NEW k \in O PROVE block(folders[k]) = part(k)
    OBVIOUS
  <2>1. k \in D /\ (limit = Unset \/ Len(folders[k].ids) <= limit)
    OBVIOUS
  <2>2. given(folders[k]) = folders[k].ids
    <3>1. CASE limit = Unset
      BY <3>1
    <3>2. CASE limit # Unset
      <4>1. limit \in Nat /\ Len(folders[k].ids) \in Nat /\ limit >= Len(folders[k].ids)
        BY <1>1, <2>1, <3>2
      <4> QED BY <3>2, <4>1 DEF LastN
    <3> QED BY <3>1, <3>2
  <2> HIDE DEF given
  <2> QED BY <2>2 DEF RowAt
<1> HIDE DEF block
<1>7. seqs = [i \in 1 .. n |-> part(opened[i])]
  BY <1>5, <1>6
<1> HIDE DEF seqs
<1>8. ASSUME NEW k \in D
      PROVE  /\ part(k) \in Seq(V) /\ Len(part(k)) = Len(folders[k].ids)
             /\ Len(folders[k].ids) \in Nat /\ DOMAIN folders[k].ids = 1 .. Len(folders[k].ids)
             /\ \A j \in 1 .. Len(folders[k].ids) : part(k)[j] = RowAt(folders, k, j)
  <2> DEFINE m == Len(folders[k].ids)
  <2>1. m \in Nat /\ DOMAIN folders[k].ids = 1 .. m /\ \A j \in 1 .. m : folders[k].ids[j] \in Id
    BY <1>1, ElementsOf
  <2>2. \A j \in 1 .. m : RowAt(folders, k, j) \in V
    BY <1>1, <2>1 DEF RowAt, FolderRow, Row3
  <2> HIDE DEF m, V, D
  <2>3. part(k) \in [1 .. m -> V] /\ \A j \in 1 .. m : part(k)[j] = RowAt(folders, k, j)
    BY <2>1, <2>2
  <2> HIDE DEF part
  <2>4. part(k) \in Seq(V) /\ Len(part(k)) = m
    BY <2>1, <2>3, ListIs
  <2> QED BY <2>1, <2>3, <2>4 DEF m
<1> HIDE DEF part
<1>9. seqs \in Seq(Seq(V)) /\ Len(seqs) = n /\ \A i \in 1 .. n : seqs[i] = part(opened[i])
  <2>1. \A i \in 1 .. n : part(opened[i]) \in Seq(V)
    BY <1>5, <1>8
  <2> HIDE DEF V
  <2>2. seqs \in [1 .. n -> Seq(V)]
    BY <1>7, <2>1
  <2> QED BY <1>5, <1>7, <2>2, ListIs
<1>10. PICK f \in [0 .. n -> Seq(V)] :
         /\ f[0] = <<>> /\ rows = f[n] /\ \A i \in 1 .. n : f[i] = f[i - 1] \o part(opened[i])
  <2> HIDE DEF V
  <2>1. PICK f \in [0 .. Len(seqs) -> Seq(V)] :
           /\ f[0] = <<>> /\ FlattenSeq(seqs) = f[Len(seqs)]
           /\ \A k \in 1 .. Len(seqs) : f[k] = f[k - 1] \o seqs[k]
    BY <1>9, FlattenFrom
  <2> QED BY <1>3, <1>9, <2>1
<1> DEFINE A(m, s) == \A p \in 1 .. Len(s) : \E i \in 1 .. m :
                        \E j \in DOMAIN folders[opened[i]].ids : s[p] = RowAt(folders, opened[i], j)
           B(m, s) == \A i \in 1 .. m : \A j \in DOMAIN folders[opened[i]].ids :
                        \E p \in 1 .. Len(s) : s[p] = RowAt(folders, opened[i], j)
           C(s) == \A p, q \in 1 .. Len(s) : p < q => Ahead(s[p], s[q])
           P == {m \in 0 .. n : A(m, f[m]) /\ B(m, f[m]) /\ C(f[m])}
<1>11. 0 \in P
  <2>1. Len(f[0]) = 0 /\ 1 .. 0 = {}
    BY <1>10
  <2> QED BY <1>5, <2>1
<1>12. ASSUME NEW m \in 1 .. n, m - 1 \in P PROVE m \in P
  <2> DEFINE u == f[m - 1]
             k == opened[m]
             v == part(k)
             w == f[m]
             a == Len(u)
             b == Len(folders[k].ids)
  <2>1. m - 1 \in 0 .. n /\ m \in 0 .. n /\ m \in Nat /\ k \in D /\ m \in 1 .. m
    BY <1>5
  <2>2. A(m - 1, u) /\ B(m - 1, u) /\ C(u)
    BY <1>12
  <2>3. /\ v \in Seq(V) /\ Len(v) = b /\ b \in Nat /\ DOMAIN folders[k].ids = 1 .. b
        /\ \A j \in 1 .. b : v[j] = RowAt(folders, k, j)
    BY <1>8, <2>1
  <2>4. u \in Seq(V) /\ a \in Nat
    <3>1. u \in Seq(V)
      BY <1>10, <2>1
    <3> HIDE DEF V, u
    <3> QED BY <3>1, ElementsOf
  <2>5. w = u \o v
    <3> HIDE DEF P, V, a, b
    <3>1. \A i \in 1 .. n : f[i] = f[i - 1] \o part(opened[i])
      BY <1>10
    <3> QED BY <3>1
  <2> HIDE DEF u, v, w, k
  <2>6. w \in Seq(V) /\ Len(w) = a + b /\ \A p \in 1 .. a + b : w[p] = IF p <= a THEN u[p] ELSE v[p - a]
    <3> HIDE DEF V, P, a, b
    <3>1. /\ w \in Seq(V) /\ Len(w) = Len(u) + Len(v)
          /\ \A p \in 1 .. Len(u) + Len(v) : w[p] = IF p <= Len(u) THEN u[p] ELSE v[p - Len(u)]
      BY <2>3, <2>4, <2>5, ConcatProperties
    <3> QED BY <2>3, <3>1 DEF a
  <2> HIDE DEF a, b
  <2>7. /\ \A p \in 1 .. a : p \in 1 .. a + b /\ w[p] = u[p]
        /\ \A j \in 1 .. b : a + j \in 1 .. a + b /\ w[a + j] = v[j]
        /\ \A p \in 1 .. a + b : p \in 1 .. a \/ (p - a \in 1 .. b /\ w[p] = v[p - a])
    <3>1. \A p \in 1 .. a : p \in 1 .. a + b /\ p <= a
      BY <2>3, <2>4
    <3>2. \A j \in 1 .. b : a + j \in 1 .. a + b /\ ~ (a + j <= a) /\ (a + j) - a = j
      BY <2>3, <2>4
    <3>3. \A p \in 1 .. a + b : p \in 1 .. a \/ (p - a \in 1 .. b /\ ~ (p <= a))
      BY <2>3, <2>4
    <3> QED BY <2>6, <3>1, <3>2, <3>3
  <2>8. A(m, w)
    <3> SUFFICES ASSUME NEW p \in 1 .. a + b
                 PROVE  \E i \in 1 .. m :
                          \E j \in DOMAIN folders[opened[i]].ids : w[p] = RowAt(folders, opened[i], j)
      BY <2>6
    <3>1. CASE p \in 1 .. a
      <4>1. PICK i \in 1 .. m - 1 :
              \E j \in DOMAIN folders[opened[i]].ids : u[p] = RowAt(folders, opened[i], j)
        BY <2>2, <3>1 DEF a
      <4>2. i \in 1 .. m
        BY <2>1
      <4> QED BY <2>7, <3>1, <4>1, <4>2
    <3>2. CASE p - a \in 1 .. b /\ w[p] = v[p - a]
      BY <2>1, <2>3, <3>2 DEF k
    <3> QED BY <2>7, <3>1, <3>2
  <2>9. B(m, w)
    <3> SUFFICES ASSUME NEW i \in 1 .. m, NEW j \in DOMAIN folders[opened[i]].ids
                 PROVE  \E p \in 1 .. a + b : w[p] = RowAt(folders, opened[i], j)
      BY <2>6
    <3>1. CASE i = m
      BY <2>3, <2>7, <3>1 DEF k
    <3>2. CASE i # m
      <4>1. i \in 1 .. m - 1
        BY <2>1, <3>2
      <4>2. PICK p \in 1 .. a : u[p] = RowAt(folders, opened[i], j)
        BY <2>2, <4>1 DEF a
      <4> QED BY <2>7, <4>2
    <3> QED BY <3>1, <3>2
  <2>10. C(w)
    <3> SUFFICES ASSUME NEW p \in 1 .. a + b, NEW q \in 1 .. a + b, p < q PROVE Ahead(w[p], w[q])
      BY <2>6
    <3>1. CASE q \in 1 .. a
      <4>1. p \in 1 .. a
        BY <2>4, <3>1
      <4> HIDE DEF Ahead
      <4> QED BY <2>2, <2>7, <3>1, <4>1 DEF a
    <3>2. CASE p \in 1 .. a /\ q - a \in 1 .. b /\ w[q] = v[q - a]
      <4>0. PICK i \in 1 .. m - 1 :
              \E j \in DOMAIN folders[opened[i]].ids : u[p] = RowAt(folders, opened[i], j)
        BY <2>2, <3>2 DEF a
      <4>1. PICK j \in DOMAIN folders[opened[i]].ids : u[p] = RowAt(folders, opened[i], j)
        BY <4>0
      <4>2. w[p] = RowAt(folders, opened[i], j) /\ w[q] = RowAt(folders, k, q - a)
        BY <2>3, <2>7, <3>2, <4>1
      <4>3. i \in 1 .. n /\ i < m
        BY <1>5, <2>1
      <4>4. opened[i] # k /\ (folders[opened[i]].all => folders[k].all) /\ opened[i] \in D
        BY <1>4, <1>5, <4>3 DEF k
      <4>5. folders[opened[i]].name # folders[k].name
        BY <1>1, <2>1, <4>4
      <4>6. w[p].folder # w[q].folder /\ w[p].all = folders[opened[i]].all /\ w[q].all = folders[k].all
        BY <4>2, <4>5 DEF RowAt, FolderRow
      <4> QED BY <4>4, <4>6
    <3>3. CASE p - a \in 1 .. b /\ w[p] = v[p - a] /\ q - a \in 1 .. b /\ w[q] = v[q - a]
      <4>1. w[p] = RowAt(folders, k, p - a) /\ w[q] = RowAt(folders, k, q - a) /\ p - a # q - a
        BY <2>3, <2>4, <3>3
      <4>2. folders[k].ids[p - a] # folders[k].ids[q - a]
        BY <1>1, <2>1, <2>3, <3>3, <4>1
      <4>3. w[p].id # w[q].id /\ w[p].all = w[q].all
        BY <4>1, <4>2 DEF RowAt, FolderRow
      <4> QED BY <4>3
    <3>4. q \in 1 .. a \/ (p \in 1 .. a /\ q - a \in 1 .. b) \/ (p - a \in 1 .. b /\ q - a \in 1 .. b)
      BY <2>4, <2>7
    <3>5. (p \in 1 .. a \/ w[p] = v[p - a]) /\ (q \in 1 .. a \/ w[q] = v[q - a])
      BY <2>7
    <3>6. ~ (p \in 1 .. a /\ p - a \in 1 .. b)
      BY <2>4
    <3>7. ~ (q \in 1 .. a /\ q - a \in 1 .. b)
      BY <2>4
    <3> HIDE DEF Ahead
    <3> QED BY <3>1, <3>2, <3>3, <3>4, <3>5, <3>6, <3>7
  <2> HIDE DEF A, B, C
  <2> QED BY <2>1, <2>8, <2>9, <2>10 DEF w
<1>13. n \in P
  <2>1. 0 + 1 .. n = 1 .. n /\ n \in 0 .. n
    BY <1>5
  <2> HIDE DEF P
  <2>2. 0 .. n \subseteq P
    BY <1>5, <1>11, <1>12, <2>1, Along
  <2> QED BY <2>1, <2>2
<1>14. A(n, rows) /\ B(n, rows) /\ C(rows)
  <2> HIDE DEF A, B, C
  <2> QED BY <1>10, <1>13
<1>15. rows \in Seq(V)
  <2>1. n \in 0 .. n
    BY <1>5
  <2> HIDE DEF V
  <2> QED BY <1>10, <2>1
<1>16. \A p \in 1 .. Len(rows) : \E k \in D :
         folders[k].opens /\ \E j \in DOMAIN folders[k].ids : rows[p] = RowAt(folders, k, j)
  <2> SUFFICES ASSUME NEW p \in 1 .. Len(rows)
               PROVE  \E k \in D :
                        folders[k].opens /\ \E j \in DOMAIN folders[k].ids : rows[p] = RowAt(folders, k, j)
    OBVIOUS
  <2>1. PICK i \in 1 .. n : \E j \in DOMAIN folders[opened[i]].ids : rows[p] = RowAt(folders, opened[i], j)
    BY <1>14
  <2> QED BY <1>5, <2>1
<1>17. ASSUME NEW k \in D, folders[k].opens, NEW j \in DOMAIN folders[k].ids
       PROVE  \E p \in 1 .. Len(rows) : rows[p] = RowAt(folders, k, j)
  <2>1. PICK i \in 1 .. n : opened[i] = k
    BY <1>4, <1>17
  <2> QED BY <1>14, <2>1
<1> QED BY <1>14, <1>15, <1>16, <1>17 DEF rows, V

(* The rows AllFoldersFound expects, and the places of those the search    *)
(* keeps.                                                                  *)
Having(folders, Id, all) ==
  {c \in {k \in DOMAIN folders : folders[k].opens} \X Id :
     folders[c[1]].all = all /\ Contains(folders[c[1]].ids, c[2])}

Awaited(folders, Id) ==
  LET row(c)   == <<folders[c[1]].name, c[2]>>
      real     == {row(c) : c \in Having(folders, Id, FALSE)}
      archived == {row(c) : c \in {d \in Having(folders, Id, TRUE) : \A r \in real : r[2] # d[2]}}
  IN  real \cup archived

Retained(rows) ==
  {k \in DOMAIN rows : ~ (rows[k].all /\ \E j \in 1 .. k - 1 : rows[j].id = rows[k].id)}

LEMMA RetainedIs ==
  ASSUME NEW Name, NEW Id, NEW folders, AreFolders(folders, Name, Id), NEW limit \in Nat \cup {Unset},
         \A k \in DOMAIN folders :
           folders[k].opens => limit = Unset \/ Len(folders[k].ids) <= limit,
         NEW rows, rows = FolderRows(folders, limit)
  PROVE  /\ rows \in Seq(Row3(Name, Id))
         /\ Awaited(folders, Id) = {<<rows[k].folder, rows[k].id>> : k \in Retained(rows)}
         /\ \A k, l \in DOMAIN rows :
              k # l => <<rows[k].folder, rows[k].id>> # <<rows[l].folder, rows[l].id>>
<1> DEFINE D == DOMAIN folders
           N == Len(rows)
           g(k) == <<rows[k].folder, rows[k].id>>
           row(c) == <<folders[c[1]].name, c[2]>>
           inReal == Having(folders, Id, FALSE)
           inAll == Having(folders, Id, TRUE)
           real == {row(c) : c \in inReal}
           archived == {row(c) : c \in {d \in inAll : \A r \in real : r[2] # d[2]}}
           S == Retained(rows)
<1>1. /\ D \subseteq Nat
      /\ \A k \in D : /\ folders[k].all \in BOOLEAN
                      /\ folders[k].ids \in Seq(Id) /\ Len(folders[k].ids) \in Nat
                      /\ DOMAIN folders[k].ids = 1 .. Len(folders[k].ids)
                      /\ \A j \in DOMAIN folders[k].ids : folders[k].ids[j] \in Id
      /\ \A j, k \in D : j # k => /\ folders[j].name # folders[k].name
                                  /\ ~ (folders[j].all /\ folders[k].all)
  <2>1. folders \in Seq(Folder(Name, Id))
    BY DEF AreFolders
  <2>2. D = 1 .. Len(folders) /\ \A k \in 1 .. Len(folders) : folders[k] \in Folder(Name, Id)
    BY <2>1, ElementsOf
  <2>3. \A k \in D : folders[k].all \in BOOLEAN /\ folders[k].ids \in Seq(Id)
    BY <2>2 DEF Folder
  <2>4. ASSUME NEW k \in D
        PROVE  /\ Len(folders[k].ids) \in Nat /\ DOMAIN folders[k].ids = 1 .. Len(folders[k].ids)
               /\ \A j \in DOMAIN folders[k].ids : folders[k].ids[j] \in Id
    BY <2>3, ElementsOf
  <2> QED BY <2>2, <2>3, <2>4 DEF AreFolders
<1>2. /\ rows \in Seq(Row3(Name, Id))
      /\ \A p \in 1 .. N : \E k \in D :
           folders[k].opens /\ \E j \in DOMAIN folders[k].ids : rows[p] = RowAt(folders, k, j)
      /\ \A k \in D : folders[k].opens =>
           \A j \in DOMAIN folders[k].ids : \E p \in 1 .. N : rows[p] = RowAt(folders, k, j)
      /\ \A p, q \in 1 .. N : p < q => rows[p] # rows[q] /\ (rows[p].all => rows[q].all)
  BY RowsAre
<1>3. N \in Nat /\ DOMAIN rows = 1 .. N
  BY <1>2, ElementsOf
<1> HIDE DEF N
<1>4. \A k \in D : \A j \in DOMAIN folders[k].ids :
        RowAt(folders, k, j) = [id |-> folders[k].ids[j], folder |-> folders[k].name,
                                all |-> folders[k].all]
  BY DEF RowAt, FolderRow
<1>5. ASSUME NEW p \in 1 .. N
      PROVE  \E k \in D : \E j \in DOMAIN folders[k].ids :
               /\ folders[k].opens /\ rows[p].id = folders[k].ids[j]
               /\ rows[p].folder = folders[k].name /\ rows[p].all = folders[k].all
               /\ rows[p] = RowAt(folders, k, j)
  <2>1. PICK k \in D :
          folders[k].opens /\ \E j \in DOMAIN folders[k].ids : rows[p] = RowAt(folders, k, j)
    BY <1>2
  <2>2. PICK j \in DOMAIN folders[k].ids : rows[p] = RowAt(folders, k, j)
    BY <2>1
  <2> QED BY <1>4, <2>1, <2>2
(* Equal folders and ids: the same row.                                    *)
<1>6. ASSUME NEW p \in 1 .. N, NEW q \in 1 .. N, p # q PROVE g(p) # g(q)
  <2> SUFFICES ASSUME rows[p].folder = rows[q].folder, rows[p].id = rows[q].id PROVE FALSE
    OBVIOUS
  <2>1. PICK k \in D : \E j \in DOMAIN folders[k].ids :
          /\ rows[p].folder = folders[k].name /\ rows[p].id = folders[k].ids[j]
          /\ rows[p] = RowAt(folders, k, j)
    BY <1>5
  <2>2. PICK l \in D : \E j \in DOMAIN folders[l].ids :
          /\ rows[q].folder = folders[l].name /\ rows[q].id = folders[l].ids[j]
          /\ rows[q] = RowAt(folders, l, j)
    BY <1>5
  <2>3. k = l
    BY <1>1, <2>1, <2>2
  <2>4. rows[p] = rows[q]
    <3>1. PICK i \in DOMAIN folders[k].ids :
            rows[p].id = folders[k].ids[i] /\ rows[p] = RowAt(folders, k, i)
      BY <2>1
    <3>2. PICK j \in DOMAIN folders[k].ids :
            rows[q].id = folders[k].ids[j] /\ rows[q] = RowAt(folders, k, j)
      BY <2>2, <2>3
    <3>3. folders[k].ids[i] = folders[k].ids[j]
      BY <3>1, <3>2
    <3> QED BY <1>4, <3>1, <3>2, <3>3
  <2>5. p < q \/ q < p
    BY <1>3, <1>6
  <2> QED BY <1>2, <2>4, <2>5
<1>7. ASSUME NEW c \in {k \in D : folders[k].opens} \X Id
      PROVE  LET given == \E j \in DOMAIN folders[c[1]].ids : folders[c[1]].ids[j] = c[2]
             IN  /\ c \in inReal <=> given /\ folders[c[1]].all = FALSE
                 /\ c \in inAll <=> given /\ folders[c[1]].all = TRUE
  <2>1. c[1] \in D
    OBVIOUS
  <2>2. DOMAIN folders[c[1]].ids = 1 .. Len(folders[c[1]].ids)
    BY <1>1, <2>1
  <2>3. Contains(folders[c[1]].ids, c[2])
          <=> \E j \in DOMAIN folders[c[1]].ids : folders[c[1]].ids[j] = c[2]
    BY <2>2 DEF Contains
  <2> QED BY <2>3 DEF Having
<1>8. ASSUME NEW c \in inReal \cup inAll
      PROVE  \E p \in 1 .. N : /\ rows[p].id = c[2] /\ rows[p].folder = folders[c[1]].name
                               /\ c \in inReal => rows[p].all = FALSE
                               /\ c \in inAll => rows[p].all = TRUE
  <2>1. c \in {k \in D : folders[k].opens} \X Id
    BY DEF Having
  <2> HIDE DEF inReal, inAll
  <2>2. /\ c[1] \in D /\ folders[c[1]].opens
        /\ c \in inReal => folders[c[1]].all = FALSE
        /\ c \in inAll => folders[c[1]].all = TRUE
        /\ \E j \in DOMAIN folders[c[1]].ids : folders[c[1]].ids[j] = c[2]
    BY <1>7, <2>1
  <2>3. PICK j \in DOMAIN folders[c[1]].ids : folders[c[1]].ids[j] = c[2]
    BY <2>2
  <2>4. PICK p \in 1 .. N : rows[p] = RowAt(folders, c[1], j)
    BY <1>2, <2>2
  <2> QED BY <1>4, <2>2, <2>3, <2>4
<1>9. ASSUME NEW p \in 1 .. N
      PROVE  \E c : /\ row(c) = g(p) /\ c[2] = rows[p].id
                    /\ rows[p].all = FALSE => c \in inReal
                    /\ rows[p].all = TRUE => c \in inAll
  <2>1. PICK k \in D : \E j \in DOMAIN folders[k].ids :
          /\ folders[k].opens /\ rows[p].id = folders[k].ids[j]
          /\ rows[p].folder = folders[k].name /\ rows[p].all = folders[k].all
    BY <1>5
  <2> DEFINE c == <<k, rows[p].id>>
  <2>2. rows[p].id \in Id
    BY <1>1, <2>1
  <2>3. c \in {l \in D : folders[l].opens} \X Id /\ c[1] = k /\ c[2] = rows[p].id
    BY <2>1, <2>2
  <2> HIDE DEF c, inReal, inAll
  <2>4. \E j \in DOMAIN folders[c[1]].ids : folders[c[1]].ids[j] = c[2]
    BY <2>1, <2>3
  <2>5. (rows[p].all = FALSE => c \in inReal) /\ (rows[p].all = TRUE => c \in inAll)
    BY <1>7, <2>1, <2>3, <2>4
  <2> QED BY <2>1, <2>3, <2>5
<1> HIDE DEF inReal, inAll
<1>10. \A p \in 1 .. N : rows[p].all \in BOOLEAN
  BY <1>1, <1>5
<1>11. \A p \in 1 .. N : p \in S <=> ~ (rows[p].all /\ \E j \in 1 .. p - 1 : rows[j].id = rows[p].id)
  BY <1>3 DEF Retained
<1>12. S \subseteq 1 .. N
  BY <1>3 DEF Retained
<1> HIDE DEF S, g, row, D
<1>13. ASSUME NEW p \in S PROVE g(p) \in real \cup archived
  <2>1. PICK c : /\ row(c) = g(p) /\ c[2] = rows[p].id
                 /\ rows[p].all = FALSE => c \in inReal
                 /\ rows[p].all = TRUE => c \in inAll
    BY <1>9, <1>12
  <2>2. CASE rows[p].all = FALSE
    BY <2>1, <2>2
  <2>3. CASE rows[p].all = TRUE
    <3>1. ASSUME NEW d \in inReal, row(d)[2] = c[2] PROVE FALSE
      <4>1. row(d)[2] = d[2]
        BY DEF row
      <4>2. PICK q \in 1 .. N : rows[q].id = d[2] /\ rows[q].all = FALSE
        BY <1>8
      <4>3. p \in 1 .. N /\ ~ (p < q)
        BY <1>2, <1>12, <2>3, <4>2
      <4>4. p # q
        BY <2>3, <4>2
      <4>5. q \in 1 .. p - 1
        BY <1>3, <4>3, <4>4
      <4> QED BY <1>11, <2>1, <2>3, <3>1, <4>1, <4>2, <4>3, <4>5
    <3>2. c \in {d \in inAll : \A r \in real : r[2] # d[2]}
      BY <2>1, <2>3, <3>1
    <3> QED BY <2>1, <3>2
  <2> QED BY <1>10, <1>12, <2>2, <2>3
<1>14. ASSUME NEW e \in real PROVE \E p \in S : g(p) = e
  <2>1. PICK c \in inReal : e = row(c)
    OBVIOUS
  <2>2. PICK p \in 1 .. N : rows[p].id = c[2] /\ rows[p].folder = folders[c[1]].name /\ rows[p].all = FALSE
    BY <1>8
  <2>3. p \in S
    BY <1>11, <2>2
  <2> QED BY <2>1, <2>2, <2>3 DEF g, row
<1>15. ASSUME NEW e \in archived PROVE \E p \in S : g(p) = e
  <2>1. PICK c : c \in inAll /\ (\A r \in real : r[2] # c[2]) /\ e = row(c)
    OBVIOUS
  <2>2. PICK p \in 1 .. N : rows[p].id = c[2] /\ rows[p].folder = folders[c[1]].name /\ rows[p].all = TRUE
    BY <1>8, <2>1
  <2>3. ASSUME NEW j \in 1 .. p - 1, rows[j].id = rows[p].id PROVE FALSE
    <3>1. j \in 1 .. N /\ j < p
      BY <1>3
    <3>2. PICK d : /\ row(d) = g(j) /\ d[2] = rows[j].id
                   /\ rows[j].all = FALSE => d \in inReal
      BY <1>9, <3>1
    <3>3. CASE rows[j].all = FALSE
      <4>1. row(d) \in real /\ row(d)[2] = d[2]
        BY <3>2, <3>3 DEF row
      <4> QED BY <2>1, <2>2, <2>3, <3>2, <4>1
    <3>4. CASE rows[j].all = TRUE
      <4>1. PICK k \in D : rows[j].folder = folders[k].name /\ folders[k].all = TRUE
        BY <1>5, <3>1, <3>4
      <4>2. PICK l \in D : rows[p].folder = folders[l].name /\ folders[l].all = TRUE
        BY <1>5, <2>2
      <4>3. k = l
        BY <1>1, <4>1, <4>2 DEF D
      <4>4. g(j) = g(p)
        BY <2>3, <4>1, <4>2, <4>3 DEF g
      <4>5. j # p
        BY <1>3, <3>1
      <4> QED BY <1>6, <3>1, <4>4, <4>5
    <3> QED BY <1>10, <3>1, <3>3, <3>4
  <2>4. p \in S
    BY <1>11, <2>3
  <2> QED BY <2>1, <2>2, <2>4 DEF g, row
<1>16. real \cup archived = {g(k) : k \in S}
  <2> HIDE DEF real, archived
  <2> QED BY <1>13, <1>14, <1>15
<1>17. Awaited(folders, Id) = {g(k) : k \in S}
  BY <1>16 DEF Awaited, inReal, inAll, row
<1> QED BY <1>2, <1>3, <1>6, <1>17 DEF S, g

LEMMA LastNIs ==
  ASSUME NEW V, NEW s \in Seq(V), NEW n \in Nat \ {0}
  PROVE  \E off \in 0 .. Len(s) :
           /\ LastN(s, n) = [i \in 1 .. Len(s) - off |-> s[off + i]]
           /\ off = 0 \/ Len(s) - off = n
<1> DEFINE m == Len(s)
<1>1. m \in Nat /\ s = [i \in 1 .. m |-> s[i]]
  OBVIOUS
<1> HIDE DEF m
<1>2. CASE n >= m
  <2>1. LastN(s, n) = s
    BY <1>2 DEF LastN, m
  <2>2. 0 \in 0 .. m /\ m - 0 = m /\ \A i \in 1 .. m : 0 + i = i
    BY <1>1
  <2>3. [i \in 1 .. m - 0 |-> s[0 + i]] = [i \in 1 .. m |-> s[i]]
    BY <2>2
  <2> QED BY <1>1, <2>1, <2>2, <2>3 DEF m
<1>3. CASE ~ (n >= m)
  <2> DEFINE off == m - n
  <2>1. LastN(s, n) = SubSeq(s, off + 1, m)
    BY <1>3 DEF LastN, m
  <2>2. /\ off \in 0 .. m /\ m - off = n /\ m - (off + 1) + 1 = m - off
        /\ \A i \in 1 .. m - off : (off + 1) + i - 1 = off + i
    BY <1>1, <1>3
  <2> HIDE DEF off
  <2>3. SubSeq(s, off + 1, m) = [i \in 1 .. m - (off + 1) + 1 |-> s[(off + 1) + i - 1]]
    BY <1>1, <2>2
  <2>4. LastN(s, n) = [i \in 1 .. m - off |-> s[off + i]]
    BY <2>1, <2>2, <2>3
  <2> QED BY <2>2, <2>4 DEF m
<1> QED BY <1>2, <1>3

(* The search of all folders, for any folders of which at most one is an   *)
(* \All folder, any dates and any limit: it lists every message of those   *)
(* that open, a copy per real folder and one from the \All folder only     *)
(* when none of them has it, and of these the newest.                      *)
THEOREM AllFoldersListed ==
  ASSUME NEW Name, NEW Id, NEW folders, AreFolders(folders, Name, Id),
         NEW limit \in Nat \cup {Unset}, NEW dates \in [Id -> Nat]
  PROVE  AllFoldersFound(folders, limit, dates)
<1> DEFINE open == {k \in DOMAIN folders : folders[k].opens}
           expected == Awaited(folders, DOMAIN dates)
           found == FolderRows(folders, limit)
           kept == Retained(found)
           g(k) == <<found[k].folder, found[k].id>>
           older(j, k) == \/ dates[found[j].id] < dates[found[k].id]
                          \/ dates[found[j].id] = dates[found[k].id] /\ j < k
           B == {p \in kept \X kept : older(p[1], p[2])}
           sorted == Ranked(kept, B)
           shown == IF limit = Unset THEN sorted ELSE LastN(sorted, limit)
           result == AllFoldersSearch(folders, limit, dates)
           rows == {<<result[n].folder, result[n].id>> : n \in DOMAIN result}
<1> SUFFICES ASSUME limit # Unset => \A k \in open : Len(folders[k].ids) <= limit
             PROVE  /\ rows \subseteq expected
                    /\ Len(result) = Cardinality(rows)
                    /\ rows = expected \/ Cardinality(rows) = limit
                    /\ \A r \in rows, e \in expected \ rows : dates[e[2]] <= dates[r[2]]
  BY DEF AllFoldersFound, Awaited, Having
<1>0. DOMAIN dates = Id
  OBVIOUS
<1>1. /\ found \in Seq(Row3(Name, Id))
      /\ expected = {g(k) : k \in kept}
      /\ \A k, l \in DOMAIN found : k # l => g(k) # g(l)
  <2>1. \A k \in DOMAIN folders :
          folders[k].opens => limit = Unset \/ Len(folders[k].ids) <= limit
    OBVIOUS
  <2>2. expected = Awaited(folders, Id)
    BY <1>0
  <2>3. found = FolderRows(folders, limit)
    OBVIOUS
  <2> HIDE DEF expected, found
  <2> QED BY <2>1, <2>2, <2>3, RetainedIs
<1>2. result = IF limit = 0 THEN <<>> ELSE [n \in DOMAIN shown |-> found[shown[n]]]
  <2>1. Sorted(kept, older) = sorted
    <3> DEFINE before(x) == {y \in kept : older(y, x)}
               below(x) == {y \in kept : <<y, x>> \in B}
    <3>1. \A x \in kept : before(x) = below(x)
      OBVIOUS
    <3> HIDE DEF kept, B
    <3>2. Sorted(kept, older) =
            [n \in 1 .. Cardinality(kept) |-> CHOOSE x \in kept : Cardinality(before(x)) = n - 1]
      BY DEF Sorted
    <3>3. sorted =
            [n \in 1 .. Cardinality(kept) |-> CHOOSE x \in kept : Cardinality(below(x)) = n - 1]
      BY DEF Ranked
    <3> HIDE DEF before, below
    <3>4. ASSUME NEW n \in 1 .. Cardinality(kept)
          PROVE  (CHOOSE x \in kept : Cardinality(before(x)) = n - 1)
                   = (CHOOSE x \in kept : Cardinality(below(x)) = n - 1)
      <4>1. \A x : (x \in kept /\ Cardinality(before(x)) = n - 1)
                     <=> (x \in kept /\ Cardinality(below(x)) = n - 1)
        BY <3>1
      <4> QED BY <4>1, Zenon
    <3> QED BY <3>2, <3>3, <3>4
  <2> QED BY <2>1 DEF AllFoldersSearch, Retained
<1>3. kept \subseteq DOMAIN found
  BY DEF Retained
<1> HIDE DEF found, kept, expected, result
<1>4. Len(found) \in Nat /\ DOMAIN found = 1 .. Len(found)
  BY <1>1, ElementsOf
<1>5. IsFiniteSet(kept)
  <2>1. IsFiniteSet(1 .. Len(found))
    BY <1>4, FS_Interval
  <2> QED BY <1>3, <1>4, <2>1, FS_Subset
<1>6. \A k \in kept : k \in Nat /\ found[k].id \in Id /\ dates[found[k].id] \in Nat
  <2>1. \A k \in 1 .. Len(found) : found[k] \in Row3(Name, Id)
    BY <1>1, ElementsOf
  <2>2. \A k \in kept : found[k].id \in Id
    BY <1>3, <1>4, <2>1 DEF Row3
  <2> QED BY <1>3, <1>4, <2>2
<1> DEFINE N == Cardinality(kept)
<1>7. /\ N \in Nat /\ sorted \in [1 .. N -> kept]
      /\ \A x \in kept : \E n \in 1 .. N : sorted[n] = x
      /\ \A i, j \in 1 .. N : i < j => <<sorted[i], sorted[j]>> \in B
  <2>1. \A x \in kept : <<x, x>> \notin B
    BY <1>6
  <2>2. \A x, y \in kept : x = y \/ <<x, y>> \in B \/ <<y, x>> \in B
    BY <1>6
  <2>3. \A x, y, z \in kept : <<x, y>> \in B /\ <<y, z>> \in B => <<x, z>> \in B
    BY <1>6
  <2> HIDE DEF B
  <2> QED BY <1>5, <2>1, <2>2, <2>3, SortedIs
<1>8. \A i, j \in 1 .. N : i < j => sorted[i] # sorted[j]
                                    /\ dates[found[sorted[i]].id] <= dates[found[sorted[j]].id]
  <2> SUFFICES ASSUME NEW i \in 1 .. N, NEW j \in 1 .. N, i < j
               PROVE  /\ sorted[i] # sorted[j]
                      /\ dates[found[sorted[i]].id] <= dates[found[sorted[j]].id]
    OBVIOUS
  <2>1. sorted[i] \in kept /\ sorted[j] \in kept /\ <<sorted[i], sorted[j]>> \in B
    BY <1>7
  <2> HIDE DEF sorted
  <2>2. older(sorted[i], sorted[j])
    BY <2>1
  <2> QED BY <1>6, <2>1, <2>2
<1> HIDE DEF N, sorted, B
<1>9. CASE limit = 0
  <2>1. result = <<>>
    BY <1>2, <1>9
  <2>2. limit # Unset
    BY <1>9, SearchAssumption
  <2>3. ASSUME NEW e \in expected PROVE FALSE
    <3>1. PICK k \in open : \E i : i \in 1 .. Len(folders[k].ids)
      BY DEF expected, Awaited, Having, Contains
    <3>2. folders \in Seq(Folder(Name, Id))
      BY DEF AreFolders
    <3>3. folders[k] \in Folder(Name, Id)
      BY <3>2, ElementsOf
    <3>4. Len(folders[k].ids) \in Nat
      BY <3>3, ElementsOf DEF Folder
    <3> QED BY <1>9, <2>2, <3>1, <3>4
  <2>4. rows = {} /\ Len(result) = 0
    BY <2>1
  <2>5. Cardinality({}) = 0
    BY FS_EmptySet
  <2> HIDE DEF rows
  <2> QED BY <2>3, <2>4, <2>5
<1>10. CASE limit # 0
  <2>1. PICK off \in 0 .. N :
          /\ shown = [i \in 1 .. N - off |-> sorted[off + i]]
          /\ off = 0 \/ N - off = limit
    <3>1. sorted \in Seq(kept) /\ Len(sorted) = N
      BY <1>7, ListIs
    <3>2. CASE limit = Unset
      <4>1. 0 \in 0 .. N /\ N - 0 = N /\ \A i \in 1 .. N : 0 + i = i
        BY <1>7
      <4>2. sorted = [i \in 1 .. N |-> sorted[i]]
        BY <1>7
      <4>3. [i \in 1 .. N - 0 |-> sorted[0 + i]] = sorted
        BY <4>1, <4>2
      <4> QED BY <3>2, <4>1, <4>3
    <3>3. CASE limit # Unset
      <4>1. limit \in Nat \ {0}
        BY <1>10, <3>3
      <4> QED BY <3>1, <3>3, <4>1, LastNIs
    <3> QED BY <3>2, <3>3
  <2> DEFINE M == N - off
  <2>2. /\ M \in Nat /\ M <= N
        /\ \A i \in 1 .. M : off + i \in 1 .. N
        /\ \A m \in 1 .. N : m \in 1 .. off \/ (m - off \in 1 .. M /\ off + (m - off) = m)
        /\ \A m \in 1 .. off, i \in 1 .. M : m < off + i /\ m \in 1 .. N
        /\ \A i, j \in 1 .. M : i < j => off + i < off + j
    BY <1>7
  <2> HIDE DEF shown, M
  <2>3. DOMAIN shown = 1 .. M /\ \A i \in 1 .. M : shown[i] = sorted[off + i] /\ shown[i] \in kept
    BY <1>7, <2>1, <2>2 DEF M
  <2>4. result = [n \in 1 .. M |-> found[shown[n]]]
    BY <1>2, <1>10, <2>3
  <2>5. /\ Len(result) = M
        /\ rows = {g(shown[n]) : n \in 1 .. M}
    <3>1. DOMAIN result = 1 .. M /\ \A n \in 1 .. M : result[n] = found[shown[n]]
      BY <2>4
    <3>2. Len(result) = M
      BY <2>2, <2>4
    <3> QED BY <3>1, <3>2
  <2> HIDE DEF rows
  <2>6. ASSUME NEW i \in 1 .. M, NEW j \in 1 .. M, i # j PROVE g(shown[i]) # g(shown[j])
    <3>1. i < j \/ j < i
      BY <2>2, <2>6
    <3>2. shown[i] # shown[j]
      BY <1>8, <2>2, <2>3, <3>1
    <3> HIDE DEF g
    <3> QED BY <1>1, <1>3, <2>3, <3>2
  <2>7. Cardinality(rows) = M
    <3> DEFINE h == [n \in 1 .. M |-> g(shown[n])]
    <3>1. \A n \in 1 .. M : h[n] = g(shown[n])
      OBVIOUS
    <3> HIDE DEF h, g
    <3>2. rows = {h[n] : n \in 1 .. M}
      BY <2>5, <3>1
    <3>3. \A i, j \in 1 .. M : i # j => h[i] # h[j]
      BY <2>6, <3>1
    <3> QED BY <2>2, <3>2, <3>3, Enumerated
  <2>8. rows \subseteq expected
    BY <1>1, <2>3, <2>5
  <2>9. ASSUME NEW e \in expected \ rows
        PROVE  \E m \in 1 .. off : e = g(sorted[m])
    <3>1. PICK k \in kept : e = g(k)
      BY <1>1
    <3>2. PICK m \in 1 .. N : sorted[m] = k
      BY <1>7
    <3>3. ASSUME m - off \in 1 .. M, off + (m - off) = m PROVE FALSE
      <4>1. shown[m - off] = k
        BY <2>3, <3>2, <3>3
      <4> HIDE DEF g
      <4> QED BY <2>5, <3>1, <3>3, <4>1
    <3> QED BY <2>2, <3>1, <3>2, <3>3
  <2>10. rows = expected \/ Cardinality(rows) = limit
    <3>1. CASE off = 0
      <4>1. 1 .. off = {}
        BY <3>1
      <4> QED BY <2>8, <2>9, <4>1
    <3>2. CASE off # 0
      BY <2>1, <2>7, <3>2 DEF M
    <3> QED BY <3>1, <3>2
  <2>11. ASSUME NEW r \in rows, NEW e \in expected \ rows PROVE dates[e[2]] <= dates[r[2]]
    <3>1. PICK n \in 1 .. M : r = g(shown[n])
      BY <2>5
    <3>2. PICK m \in 1 .. off : e = g(sorted[m])
      BY <2>9
    <3>3. m \in 1 .. N /\ off + n \in 1 .. N /\ m < off + n
      BY <2>2
    <3>4. dates[found[sorted[m]].id] <= dates[found[sorted[off + n]].id]
      BY <1>8, <3>3
    <3>5. e[2] = found[sorted[m]].id /\ r[2] = found[sorted[off + n]].id
      BY <2>3, <3>1, <3>2
    <3> QED BY <3>4, <3>5
  <2> QED BY <2>5, <2>7, <2>8, <2>10, <2>11
<1> QED BY <1>9, <1>10
-------------------------------------------------------------------------------
(* What the four computations of a save define by recursion, step by step. *)
AllowState == [sum : Nat, allowed : Seq(Nat)]

LEMMA AllowedStepwise ==
  ASSUME NEW atts, NEW sel \in Seq(Nat), \A k \in 1 .. Len(sel) : atts[sel[k]].reported \in Nat,
         NEW total \in Nat
  PROVE  /\ Allowed(atts, sel, total) \in [0 .. Len(sel) -> AllowState]
         /\ Allowed(atts, sel, total)[0] = [sum |-> 0, allowed |-> <<>>]
         /\ \A k \in 1 .. Len(sel) : Allowed(atts, sel, total)[k] = Allow(Allowed(atts, sel, total)[k - 1], atts[sel[k]], sel[k], total)
<1> DEFINE len == Len(sel)
           W == AllowState
           start == [sum |-> 0, allowed |-> <<>>]
           On(k, v) == Allow(v, atts[sel[k]], sel[k], total)
           step == [k \in 1 .. len |-> [v \in W |-> On(k, v)]]
           Is(f) == f = [k \in 0 .. len |-> IF k = 0 THEN start ELSE On(k, f[k - 1])]
<1>1. len \in Nat
  OBVIOUS
<1>2. \A k \in 1 .. len, v \in W : On(k, v) \in W
  <2>1. \A k \in 1 .. len : sel[k] \in Nat
    OBVIOUS
  <2> SUFFICES ASSUME NEW k \in 1 .. len, NEW v \in W PROVE On(k, v) \in W
    OBVIOUS
  <2>2. v.sum \in Nat /\ v.allowed \in Seq(Nat)
    BY DEF AllowState
  <2>3. Append(v.allowed, sel[k]) \in Seq(Nat)
    BY <2>1, <2>2
  <2>4. v.sum + atts[sel[k]].reported \in Nat
    BY <2>2
  <2> QED BY <2>3, <2>4 DEF Allow, AllowState
<1>3. start \in W
  BY DEF AllowState
<1> HIDE DEF On, start, W, len
<1>4. step \in [1 .. len -> [W -> W]]
  BY <1>2
<1>5. PICK f \in [0 .. len -> W] : f[0] = start /\ \A n \in 1 .. len : f[n] = step[n][f[n - 1]]
  <2> HIDE DEF step
  <2>1. \E f : Follows(f, len, W, start, step)
    BY <1>1, <1>3, <1>4, Recursion
  <2> QED BY <2>1 DEF Follows
<1>6. Is(f)
  <2>1. \A n \in 0 .. len : f[n] = IF n = 0 THEN start ELSE On(n, f[n - 1])
    <3> SUFFICES ASSUME NEW n \in 0 .. len, n # 0 PROVE f[n] = On(n, f[n - 1])
      BY <1>5
    <3>1. n \in 1 .. len /\ n - 1 \in 0 .. len
      BY <1>1
    <3>2. f[n - 1] \in W
      BY <1>5, <3>1
    <3> QED BY <1>5, <3>1, <3>2
  <2> HIDE DEF step
  <2> QED BY <1>5, <2>1
<1>7. Allowed(atts, sel, total) = CHOOSE g : Is(g)
  BY Zenon DEF Allowed, On, start, len
<1>8. Is(Allowed(atts, sel, total))
  <2> HIDE DEF Is
  <2> QED BY <1>6, <1>7
<1> DEFINE r == Allowed(atts, sel, total)
<1>9. r = [k \in 0 .. len |-> IF k = 0 THEN start ELSE On(k, r[k - 1])]
  BY <1>8
<1> HIDE DEF r
<1>10. r[0] = start /\ \A k \in 1 .. len : r[k] = On(k, r[k - 1])
  <2>1. 0 \in 0 .. len /\ \A k \in 1 .. len : k \in 0 .. len /\ k # 0
    BY <1>1
  <2> QED BY <1>9, <2>1
<1>11. r \in [0 .. len -> W]
  <2> DEFINE good == {k \in 0 .. len : r[k] \in W}
  <2>1. 0 \in good
    BY <1>1, <1>3, <1>10
  <2>2. ASSUME NEW k \in 0 + 1 .. len, k - 1 \in good PROVE k \in good
    <3>1. k \in 1 .. len /\ k \in 0 .. len
      BY <1>1
    <3> QED BY <1>2, <1>10, <2>2, <3>1
  <2>3. 0 .. len \subseteq good
    <3> HIDE DEF good
    <3> QED BY <1>1, <2>1, <2>2, Along
  <2> QED BY <1>9, <2>3
<1> QED BY <1>10, <1>11 DEF r, len, On, start, W

Target(P) == [index : Nat, name : Seq(P)]

(* The names of attachments, and of the numbers in front of them.          *)
Nameable(P, atts, allowed) ==
  \A k \in 1 .. Len(allowed) : atts[allowed[k]].name \in Seq(P) /\ Digits[allowed[k] - 1] \in P

LEMMA TargetsStepwise ==
  ASSUME NEW P, NEW atts, NEW allowed \in Seq(Nat),
         Nameable(P, atts, allowed)
  PROVE  /\ Targets(atts, allowed) \in [0 .. Len(allowed) -> Seq(Target(P))]
         /\ Targets(atts, allowed)[0] = <<>>
         /\ \A k \in 1 .. Len(allowed) : Targets(atts, allowed)[k] = 
           AddTarget(Targets(atts, allowed)[k - 1], atts[allowed[k]], allowed[k])
<1> DEFINE len == Len(allowed)
           W == Seq(Target(P))
           start == <<>>
           On(k, v) == AddTarget(v, atts[allowed[k]], allowed[k])
           step == [k \in 1 .. len |-> [v \in W |-> On(k, v)]]
           Is(f) == f = [k \in 0 .. len |-> IF k = 0 THEN start ELSE On(k, f[k - 1])]
<1>1. len \in Nat
  OBVIOUS
<1>2. \A k \in 1 .. len, v \in W : On(k, v) \in W
  <2> SUFFICES ASSUME NEW k \in 1 .. len, NEW v \in W PROVE On(k, v) \in W
    OBVIOUS
  <2>1. allowed[k] \in Nat /\ atts[allowed[k]].name \in Seq(P) /\ Digits[allowed[k] - 1] \in P
    BY DEF Nameable
  <2>2. <<Digits[allowed[k] - 1]>> \o atts[allowed[k]].name \in Seq(P)
    BY <2>1
  <2>3. NameOf(v, atts[allowed[k]], allowed[k]) \in Seq(P)
    BY <2>1, <2>2 DEF NameOf
  <2>4. [index |-> allowed[k], name |-> NameOf(v, atts[allowed[k]], allowed[k])] \in Target(P)
    BY <2>1, <2>3 DEF Target
  <2> QED BY <2>4 DEF AddTarget
<1>3. start \in W
  OBVIOUS
<1> HIDE DEF On, start, W, len
<1>4. step \in [1 .. len -> [W -> W]]
  BY <1>2
<1>5. PICK f \in [0 .. len -> W] : f[0] = start /\ \A n \in 1 .. len : f[n] = step[n][f[n - 1]]
  <2> HIDE DEF step
  <2>1. \E f : Follows(f, len, W, start, step)
    BY <1>1, <1>3, <1>4, Recursion
  <2> QED BY <2>1 DEF Follows
<1>6. Is(f)
  <2>1. \A n \in 0 .. len : f[n] = IF n = 0 THEN start ELSE On(n, f[n - 1])
    <3> SUFFICES ASSUME NEW n \in 0 .. len, n # 0 PROVE f[n] = On(n, f[n - 1])
      BY <1>5
    <3>1. n \in 1 .. len /\ n - 1 \in 0 .. len
      BY <1>1
    <3>2. f[n - 1] \in W
      BY <1>5, <3>1
    <3> QED BY <1>5, <3>1, <3>2
  <2> HIDE DEF step
  <2> QED BY <1>5, <2>1
<1>7. Targets(atts, allowed) = CHOOSE g : Is(g)
  BY Zenon DEF Targets, On, start, len
<1>8. Is(Targets(atts, allowed))
  <2> HIDE DEF Is
  <2> QED BY <1>6, <1>7
<1> DEFINE r == Targets(atts, allowed)
<1>9. r = [k \in 0 .. len |-> IF k = 0 THEN start ELSE On(k, r[k - 1])]
  BY <1>8
<1> HIDE DEF r
<1>10. r[0] = start /\ \A k \in 1 .. len : r[k] = On(k, r[k - 1])
  <2>1. 0 \in 0 .. len /\ \A k \in 1 .. len : k \in 0 .. len /\ k # 0
    BY <1>1
  <2> QED BY <1>9, <2>1
<1>11. r \in [0 .. len -> W]
  <2> DEFINE good == {k \in 0 .. len : r[k] \in W}
  <2>1. 0 \in good
    BY <1>1, <1>3, <1>10
  <2>2. ASSUME NEW k \in 0 + 1 .. len, k - 1 \in good PROVE k \in good
    <3>1. k \in 1 .. len /\ k \in 0 .. len
      BY <1>1
    <3> QED BY <1>2, <1>10, <2>2, <3>1
  <2>3. 0 .. len \subseteq good
    <3> HIDE DEF good
    <3> QED BY <1>1, <2>1, <2>2, Along
  <2> QED BY <1>9, <2>3
<1> QED BY <1>10, <1>11 DEF r, len, On, start, W

(* The directories with files of F and contents of C.                      *)
Directories(F, C) == UNION {[D -> C] : D \in SUBSET F}

LEMMA DirectoriesAre ==
  ASSUME NEW F, NEW C, NEW D \in SUBSET F, NEW dir \in [D -> C]
  PROVE  dir \in Directories(F, C)
BY DEF Directories

LEMMA ADirectory ==
  ASSUME NEW F, NEW C, NEW dir \in Directories(F, C)
  PROVE  DOMAIN dir \subseteq F /\ dir \in [DOMAIN dir -> C]
BY DEF Directories

LEMMA WrittenStepwise ==
  ASSUME NEW F, NEW C, NEW dir \in Directories(F, C), NEW atts, NEW V, NEW targets \in Seq(V),
         \A k \in 1 .. Len(targets) : /\ FsKey(targets[k].name) \in F
                                      /\ Body(atts[targets[k].index]) \in C
  PROVE  /\ Written(atts, dir, targets) \in [0 .. Len(targets) -> Directories(F, C)]
         /\ Written(atts, dir, targets)[0] = dir
         /\ \A k \in 1 .. Len(targets) : Written(atts, dir, targets)[k] = 
           Put(Written(atts, dir, targets)[k - 1], targets[k].name, Body(atts[targets[k].index]))
<1> DEFINE len == Len(targets)
           W == Directories(F, C)
           start == dir
           On(k, v) == Put(v, targets[k].name, Body(atts[targets[k].index]))
           step == [k \in 1 .. len |-> [v \in W |-> On(k, v)]]
           Is(f) == f = [k \in 0 .. len |-> IF k = 0 THEN start ELSE On(k, f[k - 1])]
<1>1. len \in Nat
  OBVIOUS
<1>2. \A k \in 1 .. len, v \in W : On(k, v) \in W
  <2> SUFFICES ASSUME NEW k \in 1 .. len, NEW v \in W PROVE On(k, v) \in W
    OBVIOUS
  <2> DEFINE key == FsKey(targets[k].name)
             b == Body(atts[targets[k].index])
  <2>1. key \in F /\ b \in C
    OBVIOUS
  <2>2. DOMAIN v \subseteq F /\ v \in [DOMAIN v -> C]
    BY ADirectory
  <2> HIDE DEF key, b, W
  <2>3. [f \in DOMAIN v \cup {key} |-> IF f = key THEN b ELSE v[f]] \in [DOMAIN v \cup {key} -> C]
    BY <2>1, <2>2
  <2>4. [f \in DOMAIN v \cup {key} |-> IF f = key THEN b ELSE v[f]] \in Directories(F, C)
    BY <2>1, <2>2, <2>3, DirectoriesAre
  <2> QED BY <2>4 DEF Put, key, b, W
<1>3. start \in W
  OBVIOUS
<1> HIDE DEF On, start, W, len
<1>4. step \in [1 .. len -> [W -> W]]
  BY <1>2
<1>5. PICK f \in [0 .. len -> W] : f[0] = start /\ \A n \in 1 .. len : f[n] = step[n][f[n - 1]]
  <2> HIDE DEF step
  <2>1. \E f : Follows(f, len, W, start, step)
    BY <1>1, <1>3, <1>4, Recursion
  <2> QED BY <2>1 DEF Follows
<1>6. Is(f)
  <2>1. \A n \in 0 .. len : f[n] = IF n = 0 THEN start ELSE On(n, f[n - 1])
    <3> SUFFICES ASSUME NEW n \in 0 .. len, n # 0 PROVE f[n] = On(n, f[n - 1])
      BY <1>5
    <3>1. n \in 1 .. len /\ n - 1 \in 0 .. len
      BY <1>1
    <3>2. f[n - 1] \in W
      BY <1>5, <3>1
    <3> QED BY <1>5, <3>1, <3>2
  <2> HIDE DEF step
  <2> QED BY <1>5, <2>1
<1>7. Written(atts, dir, targets) = CHOOSE g : Is(g)
  BY Zenon DEF Written, On, start, len
<1>8. Is(Written(atts, dir, targets))
  <2> HIDE DEF Is
  <2> QED BY <1>6, <1>7
<1> DEFINE r == Written(atts, dir, targets)
<1>9. r = [k \in 0 .. len |-> IF k = 0 THEN start ELSE On(k, r[k - 1])]
  BY <1>8
<1> HIDE DEF r
<1>10. r[0] = start /\ \A k \in 1 .. len : r[k] = On(k, r[k - 1])
  <2>1. 0 \in 0 .. len /\ \A k \in 1 .. len : k \in 0 .. len /\ k # 0
    BY <1>1
  <2> QED BY <1>9, <2>1
<1>11. r \in [0 .. len -> W]
  <2> DEFINE good == {k \in 0 .. len : r[k] \in W}
  <2>1. 0 \in good
    BY <1>1, <1>3, <1>10
  <2>2. ASSUME NEW k \in 0 + 1 .. len, k - 1 \in good PROVE k \in good
    <3>1. k \in 1 .. len /\ k \in 0 .. len
      BY <1>1
    <3> QED BY <1>2, <1>10, <2>2, <3>1
  <2>3. 0 .. len \subseteq good
    <3> HIDE DEF good
    <3> QED BY <1>1, <2>1, <2>2, Along
  <2> QED BY <1>9, <2>3
<1> QED BY <1>10, <1>11 DEF r, len, On, start, W

LEMMA PrunedStepwise ==
  ASSUME NEW F, NEW C, \A c \in C : c.size \in Nat, NEW dir \in Directories(F, C),
         NEW V, NEW targets \in Seq(V)
  PROVE  /\ Pruned(dir, targets) \in [0 .. Len(targets) -> [dir : Directories(F, C), sum : Nat]]
         /\ Pruned(dir, targets)[0] = [dir |-> dir, sum |-> 0]
         /\ \A k \in 1 .. Len(targets) : Pruned(dir, targets)[k] = Check(Pruned(dir, targets)[k - 1], FsKey(targets[k].name))
<1> DEFINE len == Len(targets)
           W == [dir : Directories(F, C), sum : Nat]
           start == [dir |-> dir, sum |-> 0]
           On(k, v) == Check(v, FsKey(targets[k].name))
           step == [k \in 1 .. len |-> [v \in W |-> On(k, v)]]
           Is(f) == f = [k \in 0 .. len |-> IF k = 0 THEN start ELSE On(k, f[k - 1])]
<1>1. len \in Nat
  OBVIOUS
<1>2. \A k \in 1 .. len, v \in W : On(k, v) \in W
  <2> SUFFICES ASSUME NEW k \in 1 .. len, NEW v \in W PROVE On(k, v) \in W
    OBVIOUS
  <2> DEFINE key == FsKey(targets[k].name)
             d == v.dir
             less == [f \in DOMAIN d \ {key} |-> d[f]]
  <2>1. v = [dir |-> d, sum |-> v.sum] /\ d \in Directories(F, C) /\ v.sum \in Nat
    OBVIOUS
  <2>2. DOMAIN d \subseteq F /\ d \in [DOMAIN d -> C]
    BY <2>1, ADirectory
  <2> HIDE DEF key, d
  <2>3. DOMAIN d \ {key} \in SUBSET F /\ less \in [DOMAIN d \ {key} -> C]
    BY <2>2
  <2> HIDE DEF less
  <2>4. less \in Directories(F, C)
    BY <2>3, DirectoriesAre
  <2>5. key \in DOMAIN d => v.sum + d[key].size \in Nat
    BY <2>1, <2>2
  <2>6. /\ [v EXCEPT !.dir = less] = [dir |-> less, sum |-> v.sum]
        /\ [v EXCEPT !.sum = v.sum + d[key].size] = [dir |-> d, sum |-> v.sum + d[key].size]
    BY <2>1
  <2>7. \/ Check(v, key) = v
        \/ Check(v, key) = [v EXCEPT !.dir = less]
        \/ key \in DOMAIN d /\ Check(v, key) = [v EXCEPT !.sum = v.sum + d[key].size]
    BY DEF Check, d, less
  <2>8. Check(v, key) \in W
    BY <2>1, <2>4, <2>5, <2>6, <2>7
  <2> QED BY <2>8 DEF key
<1>3. start \in W
  OBVIOUS
<1> HIDE DEF On, start, W, len
<1>4. step \in [1 .. len -> [W -> W]]
  BY <1>2
<1>5. PICK f \in [0 .. len -> W] : f[0] = start /\ \A n \in 1 .. len : f[n] = step[n][f[n - 1]]
  <2> HIDE DEF step
  <2>1. \E f : Follows(f, len, W, start, step)
    BY <1>1, <1>3, <1>4, Recursion
  <2> QED BY <2>1 DEF Follows
<1>6. Is(f)
  <2>1. \A n \in 0 .. len : f[n] = IF n = 0 THEN start ELSE On(n, f[n - 1])
    <3> SUFFICES ASSUME NEW n \in 0 .. len, n # 0 PROVE f[n] = On(n, f[n - 1])
      BY <1>5
    <3>1. n \in 1 .. len /\ n - 1 \in 0 .. len
      BY <1>1
    <3>2. f[n - 1] \in W
      BY <1>5, <3>1
    <3> QED BY <1>5, <3>1, <3>2
  <2> HIDE DEF step
  <2> QED BY <1>5, <2>1
<1>7. Pruned(dir, targets) = CHOOSE g : Is(g)
  BY Zenon DEF Pruned, On, start, len
<1>8. Is(Pruned(dir, targets))
  <2> HIDE DEF Is
  <2> QED BY <1>6, <1>7
<1> DEFINE r == Pruned(dir, targets)
<1>9. r = [k \in 0 .. len |-> IF k = 0 THEN start ELSE On(k, r[k - 1])]
  BY <1>8
<1> HIDE DEF r
<1>10. r[0] = start /\ \A k \in 1 .. len : r[k] = On(k, r[k - 1])
  <2>1. 0 \in 0 .. len /\ \A k \in 1 .. len : k \in 0 .. len /\ k # 0
    BY <1>1
  <2> QED BY <1>9, <2>1
<1>11. r \in [0 .. len -> W]
  <2> DEFINE good == {k \in 0 .. len : r[k] \in W}
  <2>1. 0 \in good
    BY <1>1, <1>3, <1>10
  <2>2. ASSUME NEW k \in 0 + 1 .. len, k - 1 \in good PROVE k \in good
    <3>1. k \in 1 .. len /\ k \in 0 .. len
      BY <1>1
    <3> QED BY <1>2, <1>10, <2>2, <3>1
  <2>3. 0 .. len \subseteq good
    <3> HIDE DEF good
    <3> QED BY <1>1, <2>1, <2>2, Along
  <2> QED BY <1>9, <2>3
<1> QED BY <1>10, <1>11 DEF r, len, On, start, W

(* What is allowed: where in the selection it was, and what it added.      *)
AllowedAt(atts, sel, total, k, pos) ==
  LET after == Allowed(atts, sel, total)
      out == after[k].allowed
  IN  /\ pos \in [1 .. Len(out) -> 1 .. k]
      /\ \A i, j \in 1 .. Len(out) : i < j => pos[i] < pos[j]
      /\ \A i \in 1 .. Len(out) :
           /\ out[i] = sel[pos[i]] /\ atts[out[i]].reported <= PerCap
           /\ after[pos[i]].sum = after[pos[i] - 1].sum + atts[out[i]].reported

LEMMA AllowedIs ==
  ASSUME NEW atts, NEW sel \in Seq(Nat), \A k \in 1 .. Len(sel) : atts[sel[k]].reported \in Nat,
         NEW total \in Nat
  PROVE  LET after == Allowed(atts, sel, total)
         IN  /\ after \in [0 .. Len(sel) -> AllowState] /\ after[0].sum = 0
             /\ \A k \in 0 .. Len(sel) : after[k].sum <= total
             /\ \A k \in 1 .. Len(sel) : after[k - 1].sum <= after[k].sum
             /\ \E pos : AllowedAt(atts, sel, total, Len(sel), pos)
<1> DEFINE after == Allowed(atts, sel, total)
           n == Len(sel)
<1>1. n \in Nat /\ \A k \in 1 .. n : sel[k] \in Nat
  OBVIOUS
<1>2. /\ after \in [0 .. n -> AllowState] /\ after[0] = [sum |-> 0, allowed |-> <<>>]
      /\ \A k \in 1 .. n : after[k] = Allow(after[k - 1], atts[sel[k]], sel[k], total)
  BY AllowedStepwise
<1> HIDE DEF after, n
<1>3. \A k \in 0 .. n : after[k].sum \in Nat /\ after[k].allowed \in Seq(Nat)
  BY <1>2 DEF AllowState
<1>4. ASSUME NEW k \in 1 .. n
      PROVE  /\ k - 1 \in 0 .. n /\ k \in 0 .. n
             /\ \/ after[k] = after[k - 1]
                \/ /\ after[k].sum = after[k - 1].sum + atts[sel[k]].reported
                   /\ after[k].sum <= total /\ atts[sel[k]].reported <= PerCap
                   /\ after[k].allowed = Append(after[k - 1].allowed, sel[k])
  <2>1. k - 1 \in 0 .. n /\ k \in 0 .. n
    BY <1>1
  <2>2. PerCap \in Nat /\ atts[sel[k]].reported \in Nat /\ after[k - 1].sum \in Nat
    <3>1. PerCap \in Nat
      BY AttachmentsAssumption
    <3>2. atts[sel[k]].reported \in Nat
      BY DEF n
    <3> QED BY <1>3, <2>1, <3>1, <3>2
  <2> DEFINE u == after[k - 1]
             v == after[k]
             r == atts[sel[k]].reported
             i == sel[k]
  <2>3. v = Allow(u, atts[i], i, total)
    BY <1>2
  <2> HIDE DEF u, v
  <2>4. \/ v = u
        \/ /\ ~ (r > PerCap) /\ ~ (u.sum + r > total)
           /\ v = [sum |-> u.sum + r, allowed |-> Append(u.allowed, i)]
    BY <2>3 DEF Allow
  <2>5. u.sum \in Nat /\ r \in Nat
    BY <2>2 DEF u
  <2> HIDE DEF r, i
  <2>6. \/ v = u
        \/ /\ v.sum = u.sum + r /\ v.sum <= total /\ r <= PerCap
           /\ v.allowed = Append(u.allowed, i)
    <3>1. CASE ~ (r > PerCap) /\ ~ (u.sum + r > total) /\ v = [sum |-> u.sum + r, allowed |-> Append(u.allowed, i)]
      <4>1. v.sum = u.sum + r /\ v.allowed = Append(u.allowed, i)
        BY <3>1
      <4>2. r <= PerCap /\ u.sum + r <= total
        BY <2>2, <2>5, <3>1
      <4> QED BY <4>1, <4>2
    <3> QED BY <2>4, <3>1
  <2> QED BY <2>1, <2>6 DEF u, v, r, i
<1>5. \A k \in 1 .. n : after[k - 1].sum <= after[k].sum
  <2> SUFFICES ASSUME NEW k \in 1 .. n PROVE after[k - 1].sum <= after[k].sum
    OBVIOUS
  <2>1. atts[sel[k]].reported \in Nat
    BY DEF n
  <2>2. after[k - 1].sum \in Nat
    BY <1>3, <1>4
  <2>3. CASE after[k] = after[k - 1]
    BY <2>2, <2>3
  <2>4. CASE after[k].sum = after[k - 1].sum + atts[sel[k]].reported
    BY <2>1, <2>2, <2>4
  <2> QED BY <1>4, <2>3, <2>4
<1>6. \A k \in 0 .. n : after[k].sum <= total
  <2> DEFINE good == {k \in 0 .. n : after[k].sum <= total}
  <2>1. 0 \in good
    BY <1>1, <1>2
  <2>2. ASSUME NEW k \in 0 + 1 .. n, k - 1 \in good PROVE k \in good
    BY <1>4, <2>2
  <2> HIDE DEF good
  <2>3. 0 .. n \subseteq good
    BY <1>1, <2>1, <2>2, Along
  <2> QED BY <2>3 DEF good
<1> DEFINE At(k, pos) == AllowedAt(atts, sel, total, k, pos)
           good == {k \in 0 .. n : \E pos : At(k, pos)}
<1>7. 0 \in good
  <2>1. after[0].allowed = <<>> /\ 0 \in 0 .. n
    BY <1>1, <1>2
  <2>2. Len(after[0].allowed) = 0 /\ 1 .. 0 = {}
    BY <2>1
  <2>3. [i \in {} |-> 0] \in [{} -> 1 .. 0]
    OBVIOUS
  <2>4. At(0, [i \in {} |-> 0])
    BY <2>2, <2>3 DEF AllowedAt, after
  <2> QED BY <2>1, <2>4
<1>8. ASSUME NEW k \in 0 + 1 .. n, k - 1 \in good PROVE k \in good
  <2> DEFINE was == after[k - 1].allowed
             out == after[k].allowed
             a == Len(was)
  <2>1. PICK pos : At(k - 1, pos)
    BY <1>8
  <2>2. k \in 1 .. n /\ k - 1 \in 0 .. n /\ k \in 0 .. n /\ k \in Nat
    BY <1>1
  <2>3. /\ pos \in [1 .. a -> 1 .. k - 1]
        /\ \A i, j \in 1 .. a : i < j => pos[i] < pos[j]
        /\ \A i \in 1 .. a : /\ was[i] = sel[pos[i]] /\ atts[was[i]].reported <= PerCap
                             /\ after[pos[i]].sum = after[pos[i] - 1].sum + atts[was[i]].reported
    BY <2>1 DEF AllowedAt, after
  <2>4. was \in Seq(Nat) /\ a \in Nat
    <3>1. was \in Seq(Nat)
      BY <1>3, <2>2
    <3> HIDE DEF was
    <3> QED BY <3>1
  <2>5. CASE after[k] = after[k - 1]
    <3>1. \A i \in 1 .. k - 1 : i \in 1 .. k
      BY <2>2
    <3>2. pos \in [1 .. a -> 1 .. k]
      BY <2>3, <3>1
    <3>3. At(k, pos)
      BY <2>3, <2>5, <3>2 DEF AllowedAt, after
    <3> QED BY <2>2, <3>3
  <2>6. CASE /\ after[k].sum = after[k - 1].sum + atts[sel[k]].reported
             /\ atts[sel[k]].reported <= PerCap
             /\ after[k].allowed = Append(after[k - 1].allowed, sel[k])
    <3> DEFINE new == [i \in 1 .. a + 1 |-> IF i = a + 1 THEN k ELSE pos[i]]
    <3> HIDE DEF was, a
    <3>1. out = Append(was, sel[k]) /\ sel[k] \in Nat
      BY <1>1, <2>2, <2>6 DEF was
    <3> HIDE DEF out
    <3>2. /\ Len(out) = a + 1 /\ out[a + 1] = sel[k]
          /\ \A i \in 1 .. a : out[i] = was[i]
      BY <2>4, <3>1 DEF a
    <3>3. /\ \A i \in 1 .. a + 1 : i \in 1 .. a \/ i = a + 1
          /\ \A i \in 1 .. a : i \in 1 .. a + 1 /\ i # a + 1
          /\ a + 1 \in 1 .. a + 1 /\ k \in 1 .. k
      BY <2>2, <2>4
    <3>4. /\ \A i \in 1 .. a : new[i] = pos[i] /\ pos[i] \in 1 .. k - 1
          /\ new[a + 1] = k
      BY <2>3, <3>3
    <3>5. \A i \in 1 .. k - 1 : i \in 1 .. k /\ i < k
      BY <2>2
    <3>6. new \in [1 .. a + 1 -> 1 .. k]
      <4>1. \A i \in 1 .. a + 1 : new[i] \in 1 .. k
        BY <3>3, <3>4, <3>5
      <4> QED BY <4>1
    <3> HIDE DEF new
    <3>7. ASSUME NEW i \in 1 .. a + 1, NEW j \in 1 .. a + 1, i < j PROVE new[i] < new[j]
      <4>1. i \in 1 .. a
        BY <2>4, <3>7
      <4>2. CASE j = a + 1
        BY <3>4, <3>5, <4>1, <4>2
      <4>3. CASE j \in 1 .. a
        BY <2>3, <3>4, <3>7, <4>1, <4>3
      <4> QED BY <3>3, <4>2, <4>3
    <3>8. ASSUME NEW i \in 1 .. a + 1
          PROVE  /\ out[i] = sel[new[i]] /\ atts[out[i]].reported <= PerCap
                 /\ after[new[i]].sum = after[new[i] - 1].sum + atts[out[i]].reported
      <4>1. CASE i = a + 1
        BY <2>6, <3>2, <3>4, <4>1
      <4>2. CASE i \in 1 .. a
        BY <2>3, <3>2, <3>4, <4>2
      <4> QED BY <3>3, <4>1, <4>2
    <3>9. At(k, new)
      BY <3>2, <3>6, <3>7, <3>8 DEF AllowedAt, after, out
    <3> QED BY <2>2, <3>9
  <2> QED BY <1>4, <2>2, <2>5, <2>6
<1>9. n \in good
  <2> HIDE DEF good
  <2>1. 0 .. n \subseteq good
    BY <1>1, <1>7, <1>8, Along
  <2>2. n \in 0 .. n
    BY <1>1
  <2> QED BY <2>1, <2>2
<1> QED BY <1>2, <1>5, <1>6, <1>9 DEF after, n

(* The targets: one for each that is allowed, and the name of each.        *)
TargetAt(atts, allowed, targets, k) ==
  /\ targets[k].index = allowed[k]
  /\ targets[k].name =
       IF \E j \in 1 .. k - 1 : FsKey(targets[j].name) = FsKey(atts[allowed[k]].name)
       THEN <<Digits[allowed[k] - 1]>> \o atts[allowed[k]].name ELSE atts[allowed[k]].name

LEMMA TargetsAre ==
  ASSUME NEW P, NEW atts, NEW allowed \in Seq(Nat),
         Nameable(P, atts, allowed)
  PROVE  /\ SaveTargets(atts, allowed) \in Seq(Target(P))
         /\ Len(SaveTargets(atts, allowed)) = Len(allowed)
         /\ \A k \in 1 .. Len(allowed) : TargetAt(atts, allowed, SaveTargets(atts, allowed), k)
<1> DEFINE after == Targets(atts, allowed)
           n == Len(allowed)
           good == {k \in 0 .. n : Len(after[k]) = k /\ \A i \in 1 .. k : TargetAt(atts, allowed, after[k], i)}
<1>1. n \in Nat
  OBVIOUS
<1>2. /\ after \in [0 .. n -> Seq(Target(P))] /\ after[0] = <<>>
      /\ \A k \in 1 .. n :
           after[k] = AddTarget(after[k - 1], atts[allowed[k]], allowed[k])
  <2> HIDE DEF good
  <2> QED BY TargetsStepwise
<1> HIDE DEF after, n
<1>3. 0 \in good
  <2>1. Len(after[0]) = 0 /\ 1 .. 0 = {}
    BY <1>2
  <2> QED BY <1>1, <2>1
<1>4. ASSUME NEW k \in 0 + 1 .. n, k - 1 \in good PROVE k \in good
  <2> DEFINE was == after[k - 1]
             out == after[k]
             new == [index |-> allowed[k], name |-> NameOf(was, atts[allowed[k]], allowed[k])]
  <2>1. k \in 1 .. n /\ k - 1 \in 0 .. n /\ k \in 0 .. n /\ k \in Nat
    BY <1>1
  <2>2. Len(was) = k - 1 /\ (\A i \in 1 .. k - 1 : TargetAt(atts, allowed, was, i)) /\ was \in Seq(Target(P))
    BY <1>2, <1>4, <2>1
  <2>3. out = Append(was, new)
    BY <1>2, <2>1 DEF AddTarget
  <2> HIDE DEF was, out
  <2>4. /\ Len(out) = k /\ out[k] = new
        /\ \A i \in 1 .. k - 1 : out[i] = was[i]
    <3> HIDE DEF new
    <3>1. /\ Len(out) = Len(was) + 1 /\ out[Len(was) + 1] = new
          /\ \A i \in 1 .. Len(was) : out[i] = was[i]
      BY <2>2, <2>3
    <3>2. (k - 1) + 1 = k
      BY <2>1
    <3> QED BY <2>2, <3>1, <3>2
  <2>5. DOMAIN was = 1 .. k - 1
    BY <2>2
  <2>6. \A i \in 1 .. k : i \in 1 .. k - 1 \/ i = k
    BY <2>1
  <2>7. ASSUME NEW i \in 1 .. k - 1 PROVE TargetAt(atts, allowed, out, i)
    <3>1. \A j \in 1 .. i - 1 : j \in 1 .. k - 1
      BY <2>1
    <3>2. \A j \in 1 .. i - 1 : out[j] = was[j]
      BY <2>4, <3>1
    <3>3. (\E j \in 1 .. i - 1 : FsKey(out[j].name) = FsKey(atts[allowed[i]].name))
            <=> (\E j \in 1 .. i - 1 : FsKey(was[j].name) = FsKey(atts[allowed[i]].name))
      BY <3>2
    <3>4. out[i] = was[i] /\ TargetAt(atts, allowed, was, i)
      BY <2>2, <2>4
    <3> QED BY <3>3, <3>4 DEF TargetAt
  <2>8. TargetAt(atts, allowed, out, k)
    <3>1. (\E j \in 1 .. k - 1 : FsKey(out[j].name) = FsKey(atts[allowed[k]].name))
            <=> (\E j \in DOMAIN was : FsKey(was[j].name) = FsKey(atts[allowed[k]].name))
      BY <2>4, <2>5
    <3>2. out[k].index = allowed[k] /\ out[k].name = NameOf(was, atts[allowed[k]], allowed[k])
      BY <2>4
    <3> QED BY <3>1, <3>2 DEF NameOf, TargetAt
  <2> QED BY <2>1, <2>4, <2>6, <2>7, <2>8 DEF out
<1>5. n \in good /\ n \in 0 .. n
  <2> HIDE DEF good
  <2>1. 0 .. n \subseteq good
    BY <1>1, <1>3, <1>4, Along
  <2>2. n \in 0 .. n
    BY <1>1
  <2> QED BY <2>1, <2>2
<1>6. SaveTargets(atts, allowed) = after[n]
  BY DEF SaveTargets, after, n
<1>7. after[n] \in Seq(Target(P)) /\ Len(after[n]) = n
  BY <1>2, <1>5
<1>8. \A k \in 1 .. n : TargetAt(atts, allowed, after[n], k)
  BY <1>5
<1> HIDE DEF good
<1> QED BY <1>6, <1>7, <1>8 DEF n

(* A running total.                                                        *)
Grows(total, m) == total \in [0 .. m -> Nat] /\ \A j \in 1 .. m : total[j - 1] <= total[j]

LEMMA GrowsOn ==
  ASSUME NEW m \in Nat, NEW total, Grows(total, m), NEW i \in 0 .. m, NEW j \in i .. m
  PROVE  total[i] <= total[j]
<1> DEFINE good == {k \in i .. m : total[i] <= total[k]}
<1>1. i \in Nat /\ \A k \in i .. m : k \in 0 .. m
  OBVIOUS
<1>2. \A k \in 0 .. m : total[k] \in Nat
  BY DEF Grows
<1>3. i \in good
  BY <1>1, <1>2
<1>4. ASSUME NEW k \in i + 1 .. m, k - 1 \in good PROVE k \in good
  <2>1. k \in 1 .. m /\ k \in i .. m /\ k - 1 \in i .. m
    BY <1>1
  <2>2. total[k - 1] <= total[k] /\ total[i] <= total[k - 1]
    BY <1>4, <2>1 DEF Grows
  <2>3. total[i] \in Nat /\ total[k - 1] \in Nat /\ total[k] \in Nat
    BY <1>1, <1>2, <2>1
  <2> QED BY <2>1, <2>2, <2>3
<1> HIDE DEF good
<1>5. i .. m \subseteq good
  BY <1>1, <1>3, <1>4, Along
<1> QED BY <1>5 DEF good

(* Weights that are steps of a running total, each another one, add up to  *)
(* no more than the total: the first k of them, by taking the last of these*)
(* out of the total.                                                       *)
Steps(total, place, weight, k) ==
  \A i \in 1 .. k : total[place[i]] = total[place[i] - 1] + weight[i]

AddsUp(sum, weight, n) ==
  /\ sum \in [0 .. n -> Nat] /\ sum[0] = 0
  /\ \A k \in 1 .. n : sum[k] = sum[k - 1] + weight[k]

LEMMA StepsFit ==
  ASSUME NEW m \in Nat, NEW n \in Nat, NEW weight \in [1 .. n -> Nat],
         NEW place \in [1 .. n -> 1 .. m], \A i, j \in 1 .. n : place[i] = place[j] => i = j,
         NEW sum, AddsUp(sum, weight, n),
         NEW given, Grows(given, m), Steps(given, place, weight, n)
  PROVE  sum[n] <= given[m]
<1> DEFINE good == {k \in 0 .. n : \A total : Grows(total, m) /\ Steps(total, place, weight, k)
                                              => sum[k] <= total[m]}
<1>1. 0 \in good
  <2> SUFFICES ASSUME NEW total, Grows(total, m) PROVE sum[0] <= total[m]
    OBVIOUS
  <2>1. total[m] \in Nat
    BY DEF Grows
  <2> QED BY <2>1 DEF AddsUp
<1>2. ASSUME NEW k \in 0 + 1 .. n, k - 1 \in good PROVE k \in good
  <2>1. k \in 1 .. n /\ k \in 0 .. n /\ k - 1 \in 0 .. n /\ k \in Nat
    OBVIOUS
  <2> SUFFICES ASSUME NEW total, Grows(total, m), Steps(total, place, weight, k) PROVE sum[k] <= total[m]
    BY <2>1
  <2> DEFINE p == place[k]
             w == weight[k]
             less == [j \in 0 .. m |-> IF j >= p THEN total[j] - w ELSE total[j]]
  <2>2. p \in 1 .. m /\ w \in Nat /\ p \in 0 .. m /\ p - 1 \in 0 .. m /\ m \in 0 .. m /\ m \in p .. m
    BY <2>1
  <2>3. \A j \in 0 .. m : total[j] \in Nat
    BY DEF Grows
  <2>4. total[p] = total[p - 1] + w
    BY <2>1 DEF Steps
  <2>5. \A j \in p .. m : total[p] <= total[j]
    BY <2>2, GrowsOn
  <2> HIDE DEF p, w
  <2>6. ASSUME NEW j \in p .. m PROVE j \in 0 .. m /\ total[j] - w \in Nat
    <3>1. j \in 0 .. m
      BY <2>2
    <3>2. total[j] \in Nat /\ total[p - 1] \in Nat /\ total[p] <= total[j]
      BY <2>2, <2>3, <2>5, <3>1
    <3> DEFINE x == total[j]
               y == total[p - 1]
    <3>3. x \in Nat /\ y \in Nat /\ w \in Nat /\ y + w <= x
      BY <2>2, <2>4, <3>2
    <3> HIDE DEF x, y
    <3>4. x - w \in Nat
      BY <3>3
    <3> QED BY <3>1, <3>4 DEF x
  <2>7. /\ \A j \in p .. m : less[j] = total[j] - w
        /\ \A j \in 0 .. p - 1 : less[j] = total[j]
        /\ \A j \in 0 .. m : less[j] \in Nat
    <3>1. ASSUME NEW j \in p .. m PROVE less[j] = total[j] - w /\ less[j] \in Nat
      <4>1. j \in 0 .. m /\ j >= p
        BY <2>2
      <4>2. less[j] = total[j] - w
        BY <4>1
      <4> QED BY <2>6, <4>2
    <3>2. ASSUME NEW j \in 0 .. p - 1 PROVE less[j] = total[j] /\ less[j] \in Nat
      <4>1. j \in 0 .. m /\ ~ (j >= p)
        BY <2>2
      <4>2. less[j] = total[j]
        BY <4>1
      <4> QED BY <2>3, <4>1, <4>2
    <3>3. \A j \in 0 .. m : j \in p .. m \/ j \in 0 .. p - 1
      BY <2>2
    <3> HIDE DEF less
    <3> QED BY <3>1, <3>2, <3>3
  <2>8. Grows(less, m)
    <3>1. less \in [0 .. m -> Nat]
      BY <2>7
    <3> HIDE DEF less
    <3>2. ASSUME NEW j \in 1 .. m PROVE less[j - 1] <= less[j]
      <4>1. j \in 0 .. m /\ j - 1 \in 0 .. m
        OBVIOUS
      <4>2. total[j - 1] <= total[j]
        BY DEF Grows
      <4>3. total[j - 1] \in Nat /\ total[j] \in Nat
        BY <2>3, <4>1
      <4>4. CASE j = p
        <5>1. j \in p .. m /\ j - 1 \in 0 .. p - 1
          BY <2>2, <4>4
        <5>2. less[j] = total[j] - w /\ less[j - 1] = total[j - 1]
          BY <2>7, <5>1
        <5>3. total[j] = total[j - 1] + w
          BY <2>4, <4>4
        <5> QED BY <2>2, <4>3, <5>2, <5>3
      <4>5. CASE j < p
        <5>1. j \in 0 .. p - 1 /\ j - 1 \in 0 .. p - 1
          BY <2>2, <4>5
        <5>2. less[j] = total[j] /\ less[j - 1] = total[j - 1]
          BY <2>7, <5>1
        <5> QED BY <4>2, <5>2
      <4>6. CASE j > p
        <5>1. j \in p .. m /\ j - 1 \in p .. m
          BY <2>2, <4>6
        <5>2. less[j] = total[j] - w /\ less[j - 1] = total[j - 1] - w
          BY <2>7, <5>1
        <5> QED BY <2>2, <4>2, <4>3, <5>2
      <4> QED BY <2>2, <4>4, <4>5, <4>6
    <3> QED BY <3>1, <3>2 DEF Grows
  <2>9. Steps(less, place, weight, k - 1)
    <3> SUFFICES ASSUME NEW i \in 1 .. k - 1 PROVE less[place[i]] = less[place[i] - 1] + weight[i]
      BY DEF Steps
    <3> DEFINE q == place[i]
    <3>1. i \in 1 .. n /\ i \in 1 .. k /\ i # k
      BY <2>1
    <3>2. q \in 1 .. m /\ q # p /\ weight[i] \in Nat
      BY <2>1, <3>1 DEF p
    <3>3. total[q] = total[q - 1] + weight[i]
      BY <3>1 DEF Steps
    <3> HIDE DEF q, less
    <3>4. q \in 0 .. m /\ q - 1 \in 0 .. m
      BY <3>2
    <3>5. total[q] \in Nat /\ total[q - 1] \in Nat
      BY <2>3, <3>4
    <3>6. CASE q > p
      <4>1. q \in p .. m /\ q - 1 \in p .. m
        BY <2>2, <3>2, <3>6
      <4>2. less[q] = total[q] - w /\ less[q - 1] = total[q - 1] - w
        BY <2>7, <4>1
      <4>3. less[q] = less[q - 1] + weight[i]
        BY <2>2, <3>2, <3>3, <3>5, <4>2
      <4> QED BY <4>3 DEF q
    <3>7. CASE q < p
      <4>1. q \in 0 .. p - 1 /\ q - 1 \in 0 .. p - 1
        BY <2>2, <3>2, <3>7
      <4>2. less[q] = total[q] /\ less[q - 1] = total[q - 1]
        BY <2>7, <4>1
      <4>3. less[q] = less[q - 1] + weight[i]
        BY <3>3, <4>2
      <4> QED BY <4>3 DEF q
    <3> QED BY <2>2, <3>2, <3>6, <3>7
  <2>10. sum[k - 1] <= less[m]
    <3> HIDE DEF less
    <3> QED BY <1>2, <2>8, <2>9
  <2>11. less[m] = total[m] - w
    <3> HIDE DEF less
    <3> QED BY <2>2, <2>7
  <2>12. sum[k] = sum[k - 1] + w /\ sum[k - 1] \in Nat
    BY <2>1 DEF w, AddsUp
  <2>13. total[m] \in Nat
    BY <2>2, <2>3
  <2> HIDE DEF less
  <2> QED BY <2>2, <2>10, <2>11, <2>12, <2>13
<1>3. n \in good
  <2> HIDE DEF good
  <2>1. 0 .. n \subseteq good
    BY <1>1, <1>2, Along
  <2> QED BY <2>1
<1> QED BY <1>3

(* What the sizes add up to, file by file.                                 *)
Sized(dir, order, n) == \A k \in 1 .. n : dir[order[k]].size \in Nat

AddsUpTo(dir, order, n) ==
  /\ Sizes(dir, order) \in [0 .. n -> Nat]
  /\ Sizes(dir, order)[0] = 0
  /\ \A k \in 1 .. n : Sizes(dir, order)[k] = Sizes(dir, order)[k - 1] + dir[order[k]].size

LEMMA SizesStepwise ==
  ASSUME NEW dir, NEW order, Len(order) \in Nat, Sized(dir, order, Len(order))
  PROVE  AddsUpTo(dir, order, Len(order))
<1> DEFINE n == Len(order)
           step == [k \in 1 .. n |-> [v \in Nat |-> v + dir[order[k]].size]]
           Is(f) == f = [k \in 0 .. n |-> IF k = 0 THEN 0 ELSE f[k - 1] + dir[order[k]].size]
<1> HIDE DEF n
<1>0. n \in Nat /\ Sized(dir, order, n)
  BY DEF n
<1>1. step \in [1 .. n -> [Nat -> Nat]]
  BY <1>0 DEF Sized
<1>2. PICK f \in [0 .. n -> Nat] : f[0] = 0 /\ \A k \in 1 .. n : f[k] = step[k][f[k - 1]]
  <2> HIDE DEF step
  <2>1. \E f : Follows(f, n, Nat, 0, step)
    BY <1>0, <1>1, Recursion
  <2> QED BY <2>1 DEF Follows
<1>3. ASSUME NEW k \in 1 .. n PROVE k - 1 \in 0 .. n /\ f[k] = f[k - 1] + dir[order[k]].size
  <2>1. k - 1 \in 0 .. n
    BY <1>0
  <2>2. f[k - 1] \in Nat /\ f[k] = step[k][f[k - 1]]
    BY <1>2, <2>1
  <2> QED BY <2>1, <2>2 DEF step
<1>4. Is(f)
  BY <1>2, <1>3
<1>5. Sizes(dir, order) = CHOOSE g : Is(g)
  BY Zenon DEF Sizes, n
<1>6. Is(Sizes(dir, order))
  <2> HIDE DEF Is
  <2> QED BY <1>4, <1>5
<1> DEFINE r == Sizes(dir, order)
<1>7. r = [k \in 0 .. n |-> IF k = 0 THEN 0 ELSE r[k - 1] + dir[order[k]].size]
  BY <1>6
<1> HIDE DEF r
<1>8. r[0] = 0 /\ \A k \in 1 .. n : r[k] = r[k - 1] + dir[order[k]].size
  <2>1. 0 \in 0 .. n /\ \A k \in 1 .. n : k \in 0 .. n /\ k # 0
    BY <1>0
  <2> QED BY <1>7, <2>1
<1>9. r \in [0 .. n -> Nat]
  <2> DEFINE good == {k \in 0 .. n : r[k] \in Nat}
  <2>1. 0 \in good
    BY <1>0, <1>8
  <2>2. ASSUME NEW k \in 0 + 1 .. n, k - 1 \in good PROVE k \in good
    <3>1. k \in 1 .. n /\ k \in 0 .. n /\ dir[order[k]].size \in Nat
      BY <1>0 DEF Sized
    <3>2. r[k] = r[k - 1] + dir[order[k]].size /\ r[k - 1] \in Nat
      BY <1>8, <2>2, <3>1
    <3> QED BY <3>1, <3>2
  <2>3. 0 .. n \subseteq good
    <3> HIDE DEF good
    <3> QED BY <1>0, <2>1, <2>2, Along
  <2> QED BY <1>7, <2>3
<1> QED BY <1>8, <1>9 DEF r, n, AddsUpTo

(* So the bytes of files whose sizes are steps of a total fit into it.     *)
LEMMA BytesFit ==
  ASSUME NEW dir, NEW files, \A f \in files : dir[f].size \in Nat,
         NEW m \in Nat, NEW place \in [files -> 1 .. m],
         \A f, g \in files : place[f] = place[g] => f = g,
         NEW total, Grows(total, m),
         \A f \in files : total[place[f]] = total[place[f] - 1] + dir[f].size
  PROVE  Bytes(dir, files) \in Nat /\ Bytes(dir, files) <= total[m]
<1> DEFINE order == SetToSeq(files)
           n == Cardinality(files)
<1>0. IsFiniteSet(files)
  <2>1. place \in Injection(files, 1 .. m)
    BY DEF Injection, IsInjective
  <2>2. IsFiniteSet(1 .. m)
    BY FS_Interval
  <2> QED BY <2>1, <2>2, FS_Injection
<1>1. n \in Nat /\ \E f \in [1 .. n -> files] : IsInjective(f)
  <2>1. n \in Nat /\ ExistsBijection(1 .. n, files)
    BY <1>0, FS_CardinalityType
  <2>2. PICK f \in Bijection(1 .. n, files) : TRUE
    BY <2>1 DEF ExistsBijection
  <2>3. f \in [1 .. n -> files] /\ IsInjective(f)
    BY <2>2 DEF Bijection, Injection
  <2> QED BY <2>1, <2>3
<1>2. order \in [1 .. n -> files] /\ IsInjective(order)
  BY <1>1 DEF SetToSeq
<1>3. Len(order) = n
  BY <1>1, <1>2
<1> HIDE DEF order, n
<1>4. \A k \in 1 .. n : order[k] \in files /\ dir[order[k]].size \in Nat
  BY <1>2
<1>5. /\ Sizes(dir, order) \in [0 .. n -> Nat] /\ Sizes(dir, order)[0] = 0
      /\ \A k \in 1 .. n : Sizes(dir, order)[k] = Sizes(dir, order)[k - 1] + dir[order[k]].size
  <2>1. Sized(dir, order, n)
    BY <1>4 DEF Sized
  <2>2. Len(order) \in Nat /\ Sized(dir, order, Len(order))
    BY <1>1, <1>3, <2>1
  <2>3. AddsUpTo(dir, order, Len(order))
    BY <2>2, SizesStepwise
  <2> QED BY <1>3, <2>3 DEF AddsUpTo
<1> DEFINE weight == [k \in 1 .. n |-> dir[order[k]].size]
           at_ == [k \in 1 .. n |-> place[order[k]]]
           sum == Sizes(dir, order)
<1>6. weight \in [1 .. n -> Nat] /\ at_ \in [1 .. n -> 1 .. m]
  BY <1>4
<1>7. \A i, j \in 1 .. n : at_[i] = at_[j] => i = j
  BY <1>2, <1>4 DEF IsInjective
<1>8. \A k \in 1 .. n : sum[k] = sum[k - 1] + weight[k]
  BY <1>5
<1>9. Steps(total, at_, weight, n)
  BY <1>4 DEF Steps
<1>12. sum[n] \in Nat
  <2>1. n \in 0 .. n
    BY <1>1
  <2> QED BY <1>5, <2>1
<1> HIDE DEF weight, at_, sum
<1>10. sum[n] <= total[m]
  <2>1. AddsUp(sum, weight, n)
    BY <1>5, <1>8 DEF sum, AddsUp
  <2> QED BY <1>1, <1>6, <1>7, <1>9, <2>1, StepsFit
<1>11. Bytes(dir, files) = sum[n]
  BY <1>3 DEF Bytes, order, sum
<1> QED BY <1>10, <1>11, <1>12

(* The files that the first m targets name.                                *)
Key(targets, k)  == FsKey(targets[k].name)
KeysTo(targets, m) == {Key(targets, k) : k \in 1 .. m}

(* What is written: the bodies of the targets, to the files they name.     *)
HasWritten(w, dir, atts, targets, m) ==
  /\ DOMAIN w = DOMAIN dir \cup KeysTo(targets, m)
  /\ \A f \in DOMAIN dir \ KeysTo(targets, m) : w[f] = dir[f]
  /\ \A f \in KeysTo(targets, m) :
       \E k \in 1 .. m : Key(targets, k) = f /\ w[f] = Body(atts[targets[k].index])

Writable(F, C, atts, targets) ==
  \A k \in 1 .. Len(targets) : Key(targets, k) \in F /\ Body(atts[targets[k].index]) \in C

LEMMA WrittenIs ==
  ASSUME NEW F, NEW C, NEW dir \in Directories(F, C), NEW atts, NEW V, NEW targets \in Seq(V),
         Writable(F, C, atts, targets)
  PROVE  /\ WriteAll(atts, dir, targets) \in Directories(F, C)
         /\ HasWritten(WriteAll(atts, dir, targets), dir, atts, targets, Len(targets))
<1> DEFINE after == Written(atts, dir, targets)
           n == Len(targets)
           good == {k \in 0 .. n : HasWritten(after[k], dir, atts, targets, k)}
<1>1. n \in Nat
  OBVIOUS
<1>2. /\ after \in [0 .. n -> Directories(F, C)] /\ after[0] = dir
      /\ \A k \in 1 .. n : after[k] = Put(after[k - 1], targets[k].name, Body(atts[targets[k].index]))
  BY WrittenStepwise DEF Writable, Key
<1> HIDE DEF after, n
<1>3. 0 \in good
  <2>1. KeysTo(targets, 0) = {}
    BY DEF KeysTo
  <2>2. HasWritten(dir, dir, atts, targets, 0)
    BY <2>1 DEF HasWritten
  <2> QED BY <1>1, <1>2, <2>2
<1>4. ASSUME NEW k \in 0 + 1 .. n, k - 1 \in good PROVE k \in good
  <2> DEFINE u == after[k - 1]
             w == after[k]
             key == Key(targets, k)
             b == Body(atts[targets[k].index])
             K == KeysTo(targets, k - 1)
             L == KeysTo(targets, k)
  <2>1. k \in 1 .. n /\ k - 1 \in 0 .. n /\ k \in 0 .. n /\ k \in 1 .. k /\ \A j \in 1 .. k - 1 : j \in 1 .. k
    BY <1>1
  <2>2. HasWritten(u, dir, atts, targets, k - 1)
    BY <1>4
  <2>3. w = [f \in DOMAIN u \cup {key} |-> IF f = key THEN b ELSE u[f]]
    BY <1>2, <2>1 DEF Put, Key
  <2>4. L = K \cup {key}
    <3>1. \A j \in 1 .. k : j \in 1 .. k - 1 \/ j = k
      BY <2>1
    <3> QED BY <2>1, <3>1 DEF KeysTo
  <2>5. /\ DOMAIN u = DOMAIN dir \cup K
        /\ \A f \in DOMAIN dir \ K : u[f] = dir[f]
        /\ \A f \in K : \E j \in 1 .. k - 1 : Key(targets, j) = f /\ u[f] = Body(atts[targets[j].index])
    BY <2>2 DEF HasWritten
  <2> HIDE DEF u, w, K, L
  <2>6. DOMAIN w = DOMAIN dir \cup L
    BY <2>3, <2>4, <2>5
  <2>7. /\ w[key] = b
        /\ \A f \in DOMAIN w : f # key => f \in DOMAIN u /\ w[f] = u[f]
    BY <2>3
  <2> HIDE DEF key, b
  <2>8. \A f \in DOMAIN dir \ L : w[f] = dir[f]
    BY <2>4, <2>5, <2>6, <2>7
  <2>9. ASSUME NEW f \in L PROVE \E j \in 1 .. k : Key(targets, j) = f /\ w[f] = Body(atts[targets[j].index])
    <3>1. CASE f = key
      BY <2>1, <2>7, <3>1 DEF key, b
    <3>2. CASE f # key
      <4>1. f \in K /\ w[f] = u[f]
        BY <2>4, <2>6, <2>7, <3>2
      <4> QED BY <2>1, <2>5, <4>1
    <3> QED BY <3>1, <3>2
  <2>10. HasWritten(w, dir, atts, targets, k)
    BY <2>6, <2>8, <2>9 DEF HasWritten, L
  <2> QED BY <2>1, <2>10 DEF w
<1>5. n \in good /\ n \in 0 .. n
  <2> HIDE DEF good
  <2>1. 0 .. n \subseteq good
    BY <1>1, <1>3, <1>4, Along
  <2> QED BY <1>1, <2>1
<1>6. WriteAll(atts, dir, targets) = after[n]
  BY DEF WriteAll, after, n
<1> QED BY <1>2, <1>5, <1>6 DEF n

(* The three outcomes of a check of one target.                            *)
Sizable(C) == \A c \in C : c.size \in Nat

LEMMA CheckIs ==
  ASSUME NEW F, NEW C, Sizable(C), NEW s \in [dir : Directories(F, C), sum : Nat], NEW key
  PROVE  \/ key \notin DOMAIN s.dir /\ Check(s, key) = s
         \/ /\ key \in DOMAIN s.dir
            /\ ~ (s.dir[key].size <= PerCap /\ s.sum + s.dir[key].size <= TotalCap)
            /\ Check(s, key) = [dir |-> [f \in DOMAIN s.dir \ {key} |-> s.dir[f]], sum |-> s.sum]
         \/ /\ key \in DOMAIN s.dir
            /\ s.dir[key].size <= PerCap /\ s.sum + s.dir[key].size <= TotalCap
            /\ Check(s, key) = [dir |-> s.dir, sum |-> s.sum + s.dir[key].size]
<1> DEFINE d == s.dir
           z == d[key].size
           less == [f \in DOMAIN d \ {key} |-> d[f]]
<1>1. s = [dir |-> d, sum |-> s.sum] /\ d \in Directories(F, C) /\ s.sum \in Nat
  OBVIOUS
<1>2. d \in [DOMAIN d -> C]
  BY <1>1, ADirectory
<1>3. PerCap \in Nat /\ TotalCap \in Nat
  BY AttachmentsAssumption
<1> HIDE DEF d
<1>4. CASE key \notin DOMAIN d
  BY <1>4 DEF Check, d
<1>5. CASE key \in DOMAIN d
  <2>1. z \in Nat
    BY <1>2, <1>5 DEF Sizable
  <2> HIDE DEF z, less
  <2>2. [s EXCEPT !.dir = less] = [dir |-> less, sum |-> s.sum] /\ [s EXCEPT !.sum = s.sum + z] = [dir |-> d, sum |-> s.sum + z]
    BY <1>1
  <2>3. CASE z > PerCap \/ s.sum + z > TotalCap
    <3>1. Check(s, key) = [s EXCEPT !.dir = less]
      BY <1>5, <2>3 DEF Check, d, z, less
    <3>2. ~ (z <= PerCap /\ s.sum + z <= TotalCap)
      BY <1>1, <1>3, <2>1, <2>3
    <3> QED BY <1>5, <2>2, <3>1, <3>2 DEF d, z, less
  <2>4. CASE ~ (z > PerCap \/ s.sum + z > TotalCap)
    <3>1. Check(s, key) = [s EXCEPT !.sum = s.sum + z]
      BY <1>5, <2>4 DEF Check, d, z
    <3>2. z <= PerCap /\ s.sum + z <= TotalCap
      BY <1>1, <1>3, <2>1, <2>4
    <3> QED BY <1>5, <2>2, <3>1, <3>2 DEF d, z
  <2> QED BY <2>3, <2>4
<1> QED BY <1>4, <1>5 DEF d

(* What pruning the first k targets does: it removes files these name, and *)
(* those it leaves are in the caps.                                        *)
HasPruned(s, dir, targets, k) ==
  /\ DOMAIN s[k].dir \subseteq DOMAIN dir
  /\ DOMAIN dir \ KeysTo(targets, k) \subseteq DOMAIN s[k].dir
  /\ \A f \in DOMAIN s[k].dir : s[k].dir[f] = dir[f]
  /\ s[k].sum <= TotalCap
  /\ \A j \in 1 .. k :
       /\ s[j - 1].sum <= s[j].sum
       /\ Key(targets, j) \in DOMAIN s[k].dir =>
            /\ dir[Key(targets, j)].size <= PerCap
            /\ s[j].sum = s[j - 1].sum + dir[Key(targets, j)].size

LEMMA PrunedIs ==
  ASSUME NEW F, NEW C, Sizable(C), NEW dir \in Directories(F, C), NEW V, NEW targets \in Seq(V)
  PROVE  /\ Pruned(dir, targets) \in [0 .. Len(targets) -> [dir : Directories(F, C), sum : Nat]]
         /\ HasPruned(Pruned(dir, targets), dir, targets, Len(targets))
<1> DEFINE s == Pruned(dir, targets)
           n == Len(targets)
           good == {k \in 0 .. n : HasPruned(s, dir, targets, k)}
<1>1. n \in Nat
  OBVIOUS
<1>2. /\ s \in [0 .. n -> [dir : Directories(F, C), sum : Nat]]
      /\ s[0] = [dir |-> dir, sum |-> 0]
      /\ \A k \in 1 .. n : s[k] = Check(s[k - 1], Key(targets, k))
  <2>1. \A c \in C : c.size \in Nat
    BY DEF Sizable
  <2> QED BY <2>1, PrunedStepwise DEF Key
<1> HIDE DEF s, n
<1>3. 0 \in good
  <2>1. s[0].dir = dir /\ s[0].sum = 0 /\ 1 .. 0 = {}
    BY <1>2
  <2>2. 0 <= TotalCap
    BY AttachmentsAssumption
  <2>3. HasPruned(s, dir, targets, 0)
    BY <2>1, <2>2 DEF HasPruned
  <2> QED BY <1>1, <2>3
<1>4. ASSUME NEW k \in 0 + 1 .. n, k - 1 \in good PROVE k \in good
  <2> DEFINE u == s[k - 1]
             v == s[k]
             key == Key(targets, k)
             K == KeysTo(targets, k - 1)
             L == KeysTo(targets, k)
             z == dir[key].size
  <2>1. k \in 1 .. n /\ k - 1 \in 0 .. n /\ k \in 0 .. n /\ k \in 1 .. k /\ \A j \in 1 .. k - 1 : j \in 1 .. k
    BY <1>1
  <2>2. HasPruned(s, dir, targets, k - 1)
    BY <1>4
  <2>3. u \in [dir : Directories(F, C), sum : Nat] /\ v = Check(u, key)
    BY <1>2, <2>1
  <2>4. L = K \cup {key}
    <3>1. \A j \in 1 .. k : j \in 1 .. k - 1 \/ j = k
      BY <2>1
    <3> QED BY <2>1, <3>1 DEF KeysTo
  <2>5. /\ DOMAIN u.dir \subseteq DOMAIN dir /\ DOMAIN dir \ K \subseteq DOMAIN u.dir
        /\ \A f \in DOMAIN u.dir : u.dir[f] = dir[f]
        /\ u.sum <= TotalCap
    BY <2>2 DEF HasPruned
  <2>6. dir \in [DOMAIN dir -> C]
    BY ADirectory
  <2>7. key \in DOMAIN dir => z \in Nat
    BY <2>6 DEF Sizable
  <2> HIDE DEF key, u, v, K, L
  <2>8. \/ key \notin DOMAIN u.dir /\ v = u
        \/ key \in DOMAIN u.dir /\ v = [dir |-> [f \in DOMAIN u.dir \ {key} |-> u.dir[f]], sum |-> u.sum]
        \/ /\ key \in DOMAIN u.dir
           /\ u.dir[key].size <= PerCap /\ u.sum + u.dir[key].size <= TotalCap
           /\ v = [dir |-> u.dir, sum |-> u.sum + u.dir[key].size]
    BY <2>3, CheckIs
  <2>9. u.sum \in Nat
    BY <2>3
  <2>10. /\ DOMAIN v.dir \subseteq DOMAIN u.dir /\ DOMAIN u.dir \ {key} \subseteq DOMAIN v.dir
         /\ \A f \in DOMAIN v.dir : v.dir[f] = u.dir[f]
         /\ u.sum <= v.sum /\ v.sum <= TotalCap
         /\ key \in DOMAIN v.dir => z <= PerCap /\ v.sum = u.sum + z
    <3>1. CASE key \notin DOMAIN u.dir /\ v = u
      BY <2>5, <2>9, <3>1
    <3>2. CASE v = [dir |-> [f \in DOMAIN u.dir \ {key} |-> u.dir[f]], sum |-> u.sum]
      <4>1. v.dir = [f \in DOMAIN u.dir \ {key} |-> u.dir[f]] /\ v.sum = u.sum
        BY <3>2
      <4> QED BY <2>5, <2>9, <4>1
    <3>3. CASE /\ key \in DOMAIN u.dir
               /\ u.dir[key].size <= PerCap /\ u.sum + u.dir[key].size <= TotalCap
               /\ v = [dir |-> u.dir, sum |-> u.sum + u.dir[key].size]
      <4>1. v.dir = u.dir /\ v.sum = u.sum + u.dir[key].size
        BY <3>3
      <4>2. u.dir[key].size = z /\ z \in Nat
        BY <2>5, <2>7, <3>3
      <4> HIDE DEF z
      <4>3. u.sum <= u.sum + z
        BY <2>9, <4>2
      <4> QED BY <3>3, <4>1, <4>2, <4>3
    <3> QED BY <2>8, <3>1, <3>2, <3>3
  <2> HIDE DEF z
  <2>11. ASSUME NEW j \in 1 .. k
         PROVE  /\ s[j - 1].sum <= s[j].sum
                /\ Key(targets, j) \in DOMAIN v.dir =>
                     /\ dir[Key(targets, j)].size <= PerCap
                     /\ s[j].sum = s[j - 1].sum + dir[Key(targets, j)].size
    <3>1. CASE j = k
      BY <2>10, <3>1 DEF u, v, z, key
    <3>2. CASE j \in 1 .. k - 1
      <4>1. /\ s[j - 1].sum <= s[j].sum
            /\ Key(targets, j) \in DOMAIN u.dir =>
                     /\ dir[Key(targets, j)].size <= PerCap
                     /\ s[j].sum = s[j - 1].sum + dir[Key(targets, j)].size
        BY <2>2, <3>2 DEF HasPruned, u
      <4> QED BY <2>10, <4>1
    <3>3. j = k \/ j \in 1 .. k - 1
      BY <2>1
    <3> QED BY <3>1, <3>2, <3>3
  <2>12. /\ DOMAIN v.dir \subseteq DOMAIN dir /\ DOMAIN dir \ L \subseteq DOMAIN v.dir
         /\ \A f \in DOMAIN v.dir : v.dir[f] = dir[f]
    BY <2>4, <2>5, <2>10
  <2>13. HasPruned(s, dir, targets, k)
    BY <2>10, <2>11, <2>12 DEF HasPruned, v, L
  <2> QED BY <2>1, <2>13
<1>5. n \in good /\ n \in 0 .. n
  <2> HIDE DEF good
  <2>1. 0 .. n \subseteq good
    BY <1>1, <1>3, <1>4, Along
  <2> QED BY <1>1, <2>1
<1> QED BY <1>2, <1>5 DEF s, n

(* Files whose sizes were budgeted before they were written are not pruned.*)
Budgeted(dir, targets, total, m, pos) ==
  /\ Grows(total, m) /\ total[m] <= TotalCap
  /\ pos \in [1 .. Len(targets) -> 1 .. m]
  /\ \A i, j \in 1 .. Len(targets) : i < j => pos[i] < pos[j]
  /\ \A k \in 1 .. Len(targets) :
       /\ dir[Key(targets, k)].size <= PerCap
       /\ total[pos[k]] = total[pos[k] - 1] + dir[Key(targets, k)].size

LEMMA PrunesNothing ==
  ASSUME NEW F, NEW C, Sizable(C), NEW dir \in Directories(F, C), NEW V, NEW targets \in Seq(V),
         NEW total, NEW m \in Nat, NEW pos, Budgeted(dir, targets, total, m, pos)
  PROVE  Prune(dir, targets) = dir
<1> DEFINE s == Pruned(dir, targets)
           n == Len(targets)
           upto(k) == IF k = 0 THEN 0 ELSE pos[k]
           good == {k \in 0 .. n : s[k].dir = dir /\ s[k].sum <= total[upto(k)]}
<1>1. n \in Nat
  OBVIOUS
<1>2. /\ s \in [0 .. n -> [dir : Directories(F, C), sum : Nat]]
      /\ s[0] = [dir |-> dir, sum |-> 0]
      /\ \A k \in 1 .. n : s[k] = Check(s[k - 1], Key(targets, k))
  <2>1. \A c \in C : c.size \in Nat
    BY DEF Sizable
  <2> QED BY <2>1, PrunedStepwise DEF Key
<1>3. /\ Grows(total, m) /\ total[m] <= TotalCap
      /\ pos \in [1 .. n -> 1 .. m]
      /\ \A i, j \in 1 .. n : i < j => pos[i] < pos[j]
      /\ \A k \in 1 .. n : /\ dir[Key(targets, k)].size <= PerCap
                           /\ total[pos[k]] = total[pos[k] - 1] + dir[Key(targets, k)].size
  BY DEF Budgeted
<1> HIDE DEF s, n
<1>4. \A i \in 0 .. m : total[i] \in Nat
  BY <1>3 DEF Grows
<1>5. 0 \in good
  <2>1. s[0].dir = dir /\ s[0].sum = 0 /\ upto(0) = 0 /\ 0 \in 0 .. n /\ 0 \in 0 .. m
    BY <1>1, <1>2
  <2> QED BY <1>4, <2>1
<1>6. ASSUME NEW k \in 0 + 1 .. n, k - 1 \in good PROVE k \in good
  <2> DEFINE u == s[k - 1]
             key == Key(targets, k)
             z == dir[key].size
             p == pos[k]
             q == upto(k - 1)
  <2>1. k \in 1 .. n /\ k - 1 \in 0 .. n /\ k \in 0 .. n /\ k # 0
    BY <1>1
  <2>2. u.dir = dir /\ u.sum <= total[q]
    BY <1>6
  <2>3. p \in 1 .. m /\ z <= PerCap /\ total[p] = total[p - 1] + z /\ upto(k) = p
    BY <1>3, <2>1
  <2>4. q \in 0 .. p - 1
    <3>1. CASE k - 1 = 0
      BY <2>3, <3>1
    <3>2. CASE k - 1 # 0
      <4>1. k - 1 \in 1 .. n /\ k - 1 < k
        BY <2>1, <3>2
      <4>2. pos[k - 1] < p /\ pos[k - 1] \in 1 .. m /\ q = pos[k - 1]
        BY <1>3, <2>1, <3>2, <4>1
      <4> QED BY <2>3, <4>2
    <3> QED BY <3>1, <3>2
  <2>5. u \in [dir : Directories(F, C), sum : Nat] /\ s[k] = Check(u, key)
    BY <1>2, <2>1
  <2>6. dir \in [DOMAIN dir -> C]
    BY ADirectory
  <2>7. key \in DOMAIN dir => z \in Nat
    BY <2>6 DEF Sizable
  <2> HIDE DEF u, key, p, q, upto, z
  <2>8. p \in 0 .. m /\ p - 1 \in 0 .. m /\ q \in 0 .. m /\ p - 1 \in q .. m /\ m \in p .. m /\ p \in q .. m
    BY <2>3, <2>4
  <2>9. total[q] <= total[p - 1] /\ total[q] <= total[p] /\ total[p] <= total[m]
    BY <1>3, <2>8, GrowsOn
  <2>10. total[q] \in Nat /\ total[p - 1] \in Nat /\ total[p] \in Nat /\ total[m] \in Nat /\ u.sum \in Nat /\ TotalCap \in Nat
    <3>1. m \in 0 .. m
      OBVIOUS
    <3> QED BY <1>4, <2>5, <2>8, <3>1, AttachmentsAssumption
  <2>11. \/ key \notin DOMAIN dir /\ s[k] = u
         \/ key \in DOMAIN dir /\ ~ (z <= PerCap /\ u.sum + z <= TotalCap)
         \/ key \in DOMAIN dir /\ s[k] = [dir |-> dir, sum |-> u.sum + z]
    BY <2>2, <2>5, CheckIs DEF z
  <2>12. CASE key \notin DOMAIN dir /\ s[k] = u
    <3>1. s[k].dir = dir /\ s[k].sum <= total[p]
      BY <2>2, <2>9, <2>10, <2>12
    <3> QED BY <2>1, <2>3, <3>1
  <2>13. CASE key \in DOMAIN dir
    <3>1. z \in Nat
      BY <2>7, <2>13
    <3>2. u.sum + z <= total[p]
      BY <2>2, <2>3, <2>9, <2>10, <3>1
    <3>3. u.sum + z <= TotalCap
      BY <1>3, <2>9, <2>10, <3>1, <3>2
    <3>4. s[k] = [dir |-> dir, sum |-> u.sum + z]
      BY <2>3, <2>11, <2>13, <3>3
    <3>5. s[k].dir = dir /\ s[k].sum <= total[p]
      BY <3>2, <3>4
    <3> QED BY <2>1, <2>3, <3>5
  <2> QED BY <2>11, <2>12, <2>13
<1>7. n \in good
  <2> HIDE DEF good
  <2>1. 0 .. n \subseteq good
    BY <1>1, <1>5, <1>6, Along
  <2>2. n \in 0 .. n
    BY <1>1
  <2> QED BY <2>1, <2>2
<1>8. Prune(dir, targets) = s[n].dir
  BY DEF Prune, s, n
<1> QED BY <1>7, <1>8

(* Attachments that can be saved, and a selection of them.                 *)
Savable(P, atts, indices) ==
  /\ atts \in Seq(Attachment(P)) /\ \A i \in DOMAIN atts : Digits[i - 1] \in P
  /\ indices = Null \/ (indices \in Seq(Nat) /\ ToSet(indices) \subseteq DOMAIN atts)

(* The targets, each with its place in a running total of reported sizes.  *)
FitsIn(atts, targets, limit, m, sums, pos) ==
  /\ m \in Nat /\ Grows(sums, m) /\ sums[m] <= limit
  /\ pos \in [1 .. Len(targets) -> 1 .. m]
  /\ \A i, j \in 1 .. Len(targets) : i < j => pos[i] < pos[j]
  /\ \A k \in 1 .. Len(targets) :
       /\ atts[targets[k].index].reported <= PerCap
       /\ sums[pos[k]] = sums[pos[k] - 1] + atts[targets[k].index].reported

AreTargets(P, atts, targets) ==
  /\ targets \in Seq(Target(P))
  /\ \A k \in 1 .. Len(targets) : targets[k].index \in DOMAIN atts
  /\ \E allowed \in Seq(Nat) : /\ Len(allowed) = Len(targets)
                               /\ \A k \in 1 .. Len(targets) : TargetAt(atts, allowed, targets, k)

LEMMA TargetsFit ==
  ASSUME NEW P, NEW atts, NEW indices, Savable(P, atts, indices), NEW limit \in Nat
  PROVE  /\ AreTargets(P, atts, SaveTargets(atts, WithinCaps(atts, indices, limit)))
         /\ \E m, sums, pos :
              FitsIn(atts, SaveTargets(atts, WithinCaps(atts, indices, limit)), limit, m, sums, pos)
<1> DEFINE sel == Selection(indices, atts)
           m == Len(sel)
           after == Allowed(atts, sel, limit)
           allowed == WithinCaps(atts, indices, limit)
           n == Len(allowed)
           targets == SaveTargets(atts, allowed)
           sums == [k \in 0 .. m |-> after[k].sum]
<1>1. /\ DOMAIN atts = 1 .. Len(atts) /\ Len(atts) \in Nat
      /\ \A i \in DOMAIN atts : i \in Nat /\ atts[i] \in Attachment(P) /\ Digits[i - 1] \in P
  BY DEF Savable
<1>2. sel \in Seq(Nat) /\ \A k \in 1 .. m : sel[k] \in DOMAIN atts
  <2>1. CASE indices = Null
    <3>1. sel = [i \in 1 .. Len(atts) |-> i]
      BY <1>1, <2>1 DEF Selection
    <3>2. [i \in 1 .. Len(atts) |-> i] \in Seq(Nat) /\ Len([i \in 1 .. Len(atts) |-> i]) = Len(atts)
      BY <1>1
    <3>3. m = Len(atts) /\ \A k \in 1 .. Len(atts) : sel[k] = k
      BY <3>1, <3>2
    <3> QED BY <1>1, <3>1, <3>2, <3>3
  <2>2. CASE indices # Null
    <3>1. sel = indices /\ indices \in Seq(Nat) /\ ToSet(indices) \subseteq DOMAIN atts
      BY <2>2 DEF Selection, Savable
    <3>2. \A k \in 1 .. Len(indices) : indices[k] \in ToSet(indices)
      BY <3>1 DEF ToSet
    <3> QED BY <3>1, <3>2
  <2> QED BY <2>1, <2>2
<1> HIDE DEF sel, m
<1>3. m \in Nat /\ m = Len(sel)
  BY <1>2 DEF m
<1>4. \A k \in 1 .. Len(sel) : atts[sel[k]].reported \in Nat
  <2> SUFFICES ASSUME NEW k \in 1 .. Len(sel) PROVE atts[sel[k]].reported \in Nat
    OBVIOUS
  <2>1. atts[sel[k]] \in Attachment(P)
    BY <1>1, <1>2, <1>3
  <2> QED BY <2>1 DEF Attachment
<1>5. /\ after \in [0 .. m -> AllowState] /\ after[0].sum = 0
      /\ \A k \in 0 .. m : after[k].sum <= limit
      /\ \A k \in 1 .. m : after[k - 1].sum <= after[k].sum
      /\ \E pos : AllowedAt(atts, sel, limit, m, pos)
  BY <1>2, <1>3, <1>4, AllowedIs
<1>6. PICK pos : AllowedAt(atts, sel, limit, m, pos)
  BY <1>5
<1>7. allowed = after[m].allowed
  BY <1>3 DEF WithinCaps, sel
<1> HIDE DEF allowed
<1>8. /\ pos \in [1 .. n -> 1 .. m]
      /\ \A i, j \in 1 .. n : i < j => pos[i] < pos[j]
      /\ \A i \in 1 .. n : /\ allowed[i] = sel[pos[i]] /\ atts[allowed[i]].reported <= PerCap
                           /\ after[pos[i]].sum = after[pos[i] - 1].sum + atts[allowed[i]].reported
  BY <1>6, <1>7 DEF AllowedAt
<1> HIDE DEF after
<1>9. \A k \in 0 .. m : after[k].sum \in Nat /\ after[k].allowed \in Seq(Nat)
  BY <1>5 DEF AllowState
<1>10. allowed \in Seq(Nat) /\ n \in Nat
  <2>1. m \in 0 .. m
    BY <1>3
  <2> QED BY <1>7, <1>9, <2>1
<1>11. \A k \in 1 .. n : allowed[k] \in DOMAIN atts
  BY <1>2, <1>8
<1>12. Nameable(P, atts, allowed)
  <2> SUFFICES ASSUME NEW k \in 1 .. n PROVE atts[allowed[k]].name \in Seq(P) /\ Digits[allowed[k] - 1] \in P
    BY DEF Nameable
  <2>1. allowed[k] \in DOMAIN atts /\ atts[allowed[k]] \in Attachment(P)
    BY <1>1, <1>11
  <2> QED BY <1>1, <2>1 DEF Attachment
<1>13. /\ targets \in Seq(Target(P)) /\ Len(targets) = n
       /\ \A k \in 1 .. n : TargetAt(atts, allowed, targets, k)
  BY <1>10, <1>12, TargetsAre
<1> HIDE DEF targets, n
<1>14. \A k \in 1 .. n : targets[k].index = allowed[k]
  BY <1>13 DEF TargetAt
<1>15. AreTargets(P, atts, targets)
  <2>1. Len(allowed) = n
    BY DEF n
  <2> QED BY <1>10, <1>11, <1>13, <1>14, <2>1 DEF AreTargets
<1>16. FitsIn(atts, targets, limit, m, sums, pos)
  <2>1. /\ \A k \in 0 .. m : sums[k] = after[k].sum
        /\ sums \in [0 .. m -> Nat]
    BY <1>9
  <2> HIDE DEF sums
  <2>2. \A k \in 1 .. m : k \in 0 .. m /\ k - 1 \in 0 .. m
    BY <1>3
  <2>3. Grows(sums, m)
    BY <1>5, <2>1, <2>2 DEF Grows
  <2>4. sums[m] <= limit
    <3>1. m \in 0 .. m
      BY <1>3
    <3> QED BY <1>5, <2>1, <3>1
  <2>5. ASSUME NEW k \in 1 .. n
        PROVE  /\ atts[targets[k].index].reported <= PerCap
               /\ sums[pos[k]] = sums[pos[k] - 1] + atts[targets[k].index].reported
    <3>1. pos[k] \in 1 .. m
      BY <1>8
    <3>2. sums[pos[k]] = after[pos[k]].sum /\ sums[pos[k] - 1] = after[pos[k] - 1].sum
      BY <2>1, <2>2, <3>1
    <3> QED BY <1>8, <1>14, <3>2
  <2> QED BY <1>3, <1>8, <1>13, <2>3, <2>4, <2>5 DEF FitsIn
<1> QED BY <1>3, <1>15, <1>16 DEF targets, allowed

(* Targets can be written: their bodies are contents.                      *)
LEMMA TargetsWritable ==
  ASSUME NEW P, NEW atts \in Seq(Attachment(P)), NEW targets,
         \A k \in 1 .. Len(targets) : targets[k].index \in DOMAIN atts,
         NEW F, \A k \in 1 .. Len(targets) : Key(targets, k) \in F
  PROVE  Writable(F, Content(P), atts, targets)
<1> SUFFICES ASSUME NEW k \in 1 .. Len(targets) PROVE Body(atts[targets[k].index]) \in Content(P)
  BY DEF Writable
<1>1. atts[targets[k].index] \in Attachment(P)
  OBVIOUS
<1> QED BY <1>1 DEF Attachment, Content, Body

LEMMA ContentSizable == ASSUME NEW P PROVE Sizable(Content(P))
BY DEF Sizable, Content

(* Through Mail: what is left was counted in the pruning's own total.      *)
LEMMA CapsByScript ==
  ASSUME NEW P, NEW atts, NEW indices, Savable(P, atts, indices), NEW failed,
         NEW dir, dir \in [DOMAIN dir -> Content(P)],
         NEW after, after = SaveByScript(atts, indices, dir, failed)
  PROVE  /\ Bytes(after, Changed(dir, after)) <= TotalCap
         /\ \A f \in Changed(dir, after) : after[f].size <= PerCap
<1> DEFINE targets == SaveTargets(atts, WithinCaps(atts, indices, TotalCap))
           wanted == {t \in ToSet(targets) : t.index \notin failed}
           saved == Only(targets, wanted)
           w == WriteAll(atts, dir, saved)
           n == Len(targets)
           s == Pruned(w, targets)
           F == DOMAIN dir \cup KeysTo(targets, n)
           C == Content(P)
           files == Changed(dir, after)
<1>1. AreTargets(P, atts, targets)
  BY TargetsFit, AttachmentsAssumption
<1>2. after = Prune(w, targets)
  BY DEF SaveByScript
<1> HIDE DEF targets
<1>3. /\ targets \in Seq(Target(P)) /\ n \in Nat
      /\ \A k \in 1 .. n : targets[k].index \in DOMAIN atts
  BY <1>1 DEF AreTargets
<1> HIDE DEF wanted
<1>4. saved \in Seq(Target(P)) /\ \A i \in 1 .. Len(saved) : \E k \in 1 .. n : saved[i] = targets[k]
  <2>1. saved \in Seq(Target(P)) /\ \E pos : KeptAt(targets, wanted, saved, pos)
    BY <1>3, OnlyIs
  <2>2. PICK pos : KeptAt(targets, wanted, saved, pos)
    BY <2>1
  <2> QED BY <2>1, <2>2 DEF KeptAt
<1> HIDE DEF saved
<1>5. KeysTo(saved, Len(saved)) \subseteq KeysTo(targets, n)
  <2>1. \A i \in 1 .. Len(saved) : \E k \in 1 .. n : Key(saved, i) = Key(targets, k)
    BY <1>4 DEF Key
  <2> QED BY <2>1 DEF KeysTo
<1>6. dir \in Directories(F, C)
  BY DirectoriesAre
<1>7. w \in Directories(F, C) /\ HasWritten(w, dir, atts, saved, Len(saved))
  <2>1. \A i \in 1 .. Len(saved) : saved[i].index \in DOMAIN atts
    BY <1>3, <1>4
  <2>2. \A i \in 1 .. Len(saved) : Key(saved, i) \in F
    BY <1>5 DEF KeysTo
  <2>3. atts \in Seq(Attachment(P))
    BY DEF Savable
  <2> HIDE DEF F
  <2>4. Writable(F, C, atts, saved)
    BY <2>1, <2>2, <2>3, TargetsWritable
  <2> HIDE DEF C
  <2> QED BY <1>4, <1>6, <2>4, WrittenIs
<1>8. Sizable(C)
  BY ContentSizable
<1> HIDE DEF w, F, C, n
<1>9. s \in [0 .. n -> [dir : Directories(F, C), sum : Nat]] /\ HasPruned(s, w, targets, n)
  BY <1>3, <1>7, <1>8, PrunedIs DEF n
<1>10. after = s[n].dir
  BY <1>2 DEF Prune, n
<1> HIDE DEF s
<1>11. /\ DOMAIN after \subseteq DOMAIN w
       /\ \A f \in DOMAIN after : after[f] = w[f]
       /\ s[n].sum <= TotalCap
       /\ \A j \in 1 .. n : /\ s[j - 1].sum <= s[j].sum
                            /\ Key(targets, j) \in DOMAIN after =>
                                 /\ w[Key(targets, j)].size <= PerCap
                                 /\ s[j].sum = s[j - 1].sum + w[Key(targets, j)].size
  BY <1>9, <1>10 DEF HasPruned
<1>12. \A f \in files : f \in DOMAIN after /\ \E k \in 1 .. n : Key(targets, k) = f
  <2> SUFFICES ASSUME NEW f \in files PROVE f \in DOMAIN after /\ f \in KeysTo(targets, n)
    BY DEF KeysTo
  <2>1. f \in DOMAIN after /\ (f \notin DOMAIN dir \/ after[f] # dir[f])
    BY DEF Changed
  <2>2. CASE f \notin KeysTo(saved, Len(saved))
    <3>1. f \in DOMAIN dir /\ w[f] = dir[f]
      BY <1>7, <1>11, <2>1, <2>2 DEF HasWritten
    <3> QED BY <1>11, <2>1, <3>1
  <2> QED BY <1>5, <2>1, <2>2
<1> DEFINE place == [f \in files |-> CHOOSE k \in 1 .. n : Key(targets, k) = f]
           total == [k \in 0 .. n |-> s[k].sum]
<1> HIDE DEF files
<1>13. /\ place \in [files -> 1 .. n]
       /\ \A f \in files : Key(targets, place[f]) = f
  <2>1. \A f \in files : place[f] \in 1 .. n /\ Key(targets, place[f]) = f
    BY <1>12
  <2> QED BY <2>1
<1>14. /\ total \in [0 .. n -> Nat]
       /\ \A k \in 0 .. n : total[k] = s[k].sum
  BY <1>9
<1> HIDE DEF place, total
<1>15. n \in Nat /\ \A k \in 1 .. n : k \in 0 .. n /\ k - 1 \in 0 .. n
  BY <1>3 DEF n
<1>16. Grows(total, n) /\ total[n] <= TotalCap
  <2>1. n \in 0 .. n
    BY <1>15
  <2> QED BY <1>11, <1>14, <1>15, <2>1 DEF Grows
<1>17. ASSUME NEW f \in files
       PROVE  /\ after[f].size \in Nat /\ after[f].size <= PerCap
              /\ total[place[f]] = total[place[f] - 1] + after[f].size
  <2>1. place[f] \in 1 .. n /\ Key(targets, place[f]) = f /\ f \in DOMAIN after
    BY <1>12, <1>13
  <2>2. after[f] = w[f] /\ f \in DOMAIN w
    BY <1>11, <2>1
  <2>3. w \in [DOMAIN w -> C]
    BY <1>7, ADirectory
  <2>4. w[f].size \in Nat
    BY <1>8, <2>2, <2>3 DEF Sizable
  <2>5. w[f].size <= PerCap /\ s[place[f]].sum = s[place[f] - 1].sum + w[f].size
    BY <1>11, <2>1
  <2> QED BY <1>14, <1>15, <2>1, <2>2, <2>4, <2>5
<1>18. \A f, g \in files : place[f] = place[g] => f = g
  BY <1>13
<1>20. Bytes(after, files) \in Nat /\ Bytes(after, files) <= total[n]
  BY <1>13, <1>15, <1>16, <1>17, <1>18, BytesFit
<1>21. Bytes(after, files) <= TotalCap
  <2>1. total[n] \in Nat /\ total[n] <= TotalCap
    <3>1. n \in 0 .. n
      BY <1>15
    <3> QED BY <1>14, <1>16, <3>1
  <2> QED BY <1>20, <2>1, AttachmentsAssumption
<1> QED BY <1>17, <1>21 DEF files

(* The attachments with their exact sizes, as the message itself has them. *)
Exact(atts) == [i \in DOMAIN atts |-> [atts[i] EXCEPT !.reported = atts[i].size]]

(* They differ from those that Mail lists in what is reported.             *)
ExactlyAs(P, exact, atts) ==
  /\ DOMAIN exact = DOMAIN atts
  /\ \A i \in DOMAIN atts : /\ exact[i] \in Attachment(P) /\ exact[i].reported = exact[i].size
                            /\ exact[i].name = atts[i].name /\ Body(exact[i]) = Body(atts[i])

LEMMA ExactSavable ==
  ASSUME NEW P, NEW atts, NEW indices, Savable(P, atts, indices)
  PROVE  Savable(P, Exact(atts), indices) /\ ExactlyAs(P, Exact(atts), atts)
<1> DEFINE exact == Exact(atts)
<1>1. atts \in Seq(Attachment(P)) /\ DOMAIN atts = 1 .. Len(atts) /\ Len(atts) \in Nat
  BY DEF Savable
<1>2. DOMAIN exact = DOMAIN atts
  BY DEF Exact
<1>3. ASSUME NEW i \in DOMAIN atts
      PROVE  /\ exact[i] \in Attachment(P) /\ exact[i].reported = exact[i].size
             /\ exact[i].name = atts[i].name /\ Body(exact[i]) = Body(atts[i])
  <2>1. atts[i] \in Attachment(P)
    BY <1>1
  <2>2. exact[i] = [name |-> atts[i].name, size |-> atts[i].size, reported |-> atts[i].size]
    BY <2>1 DEF Exact, Attachment
  <2> HIDE DEF exact
  <2> QED BY <2>1, <2>2 DEF Attachment, Body
<1>4. exact \in Seq(Attachment(P))
  <2>1. exact = [i \in 1 .. Len(atts) |-> exact[i]]
    BY <1>1 DEF Exact
  <2> HIDE DEF exact
  <2>2. \A i \in 1 .. Len(atts) : exact[i] \in Attachment(P)
    BY <1>1, <1>3
  <2> QED BY <1>1, <2>1, <2>2
<1> HIDE DEF exact
<1>5. Savable(P, exact, indices)
  BY <1>2, <1>4 DEF Savable
<1> QED BY <1>2, <1>3, <1>5 DEF exact, ExactlyAs

(* From the message: what is written was counted in what was allowed, with *)
(* one more file, the message.                                             *)
FromTargets(after, files, atts, targets) ==
  \A f \in files : \E k \in 1 .. Len(targets) :
    Key(targets, k) = f /\ after[f] = Body(atts[targets[k].index])

Truthful(atts) == \A i \in DOMAIN atts : atts[i].reported = atts[i].size
Indexed(atts, targets) == \A k \in 1 .. Len(targets) : targets[k].index \in DOMAIN atts
OneOfSize(after, extra, size) == /\ \A f, g \in extra : f = g
                                 /\ \A f \in extra : after[f].size = size

LEMMA SavedFit ==
  ASSUME NEW P, NEW atts \in Seq(Attachment(P)), NEW targets,
         Truthful(atts), Indexed(atts, targets),
         NEW budget \in Nat, NEW m, NEW sums, NEW pos, FitsIn(atts, targets, budget, m, sums, pos),
         NEW after, NEW files, NEW extra,
         FromTargets(after, files \ extra, atts, targets),
         NEW size \in Nat, budget + size <= TotalCap, OneOfSize(after, extra, size)
  PROVE  /\ Bytes(after, files) <= TotalCap
         /\ \A f \in files \ extra : after[f].size <= PerCap
<1> DEFINE n == Len(targets)
           Of(f) == CHOOSE k \in 1 .. n : Key(targets, k) = f /\ after[f] = Body(atts[targets[k].index])
           place == [f \in files |-> IF f \in extra THEN m + 1 ELSE pos[Of(f)]]
           total == [k \in 0 .. m + 1 |-> IF k = m + 1 THEN sums[m] + size ELSE sums[k]]
<1>1. /\ m \in Nat /\ sums \in [0 .. m -> Nat] /\ \A j \in 1 .. m : sums[j - 1] <= sums[j]
      /\ sums[m] <= budget
      /\ pos \in [1 .. n -> 1 .. m]
      /\ \A i, j \in 1 .. n : i < j => pos[i] < pos[j]
      /\ \A k \in 1 .. n : /\ atts[targets[k].index].reported <= PerCap
                           /\ sums[pos[k]] = sums[pos[k] - 1] + atts[targets[k].index].reported
  BY DEF FitsIn, Grows
<1>0. /\ \A i \in DOMAIN atts : atts[i].reported = atts[i].size
      /\ \A k \in 1 .. n : targets[k].index \in DOMAIN atts
      /\ \A f, g \in extra : f = g
      /\ \A f \in extra : after[f].size = size
  BY DEF Truthful, Indexed, OneOfSize
<1>2. \A f \in files \ extra : /\ Of(f) \in 1 .. n /\ Key(targets, Of(f)) = f
                               /\ after[f] = Body(atts[targets[Of(f)].index])
  BY DEF FromTargets
<1> HIDE DEF Of, n
<1>3. ASSUME NEW f \in files \ extra
      PROVE  /\ pos[Of(f)] \in 1 .. m /\ after[f].size \in Nat /\ after[f].size <= PerCap
             /\ sums[pos[Of(f)]] = sums[pos[Of(f)] - 1] + after[f].size
  <2>1. Of(f) \in 1 .. n /\ targets[Of(f)].index \in DOMAIN atts
    BY <1>0, <1>2
  <2> DEFINE a == atts[targets[Of(f)].index]
  <2>2. a \in Attachment(P) /\ a.reported = a.size
    BY <1>0, <2>1
  <2>3. after[f].size = a.reported
    <3>1. after[f] = Body(a)
      BY <1>2
    <3>2. Body(a).size = a.size
      BY DEF Body
    <3> QED BY <2>2, <3>1, <3>2
  <2>4. a.reported \in Nat
    BY <2>2 DEF Attachment
  <2>5. a.reported <= PerCap /\ sums[pos[Of(f)]] = sums[pos[Of(f)] - 1] + a.reported
    BY <1>1, <2>1
  <2> HIDE DEF a
  <2> QED BY <1>1, <2>1, <2>3, <2>4, <2>5
<1>4. /\ m \in 0 .. m /\ m + 1 \in 0 .. m + 1 /\ m + 1 \in 1 .. m + 1 /\ m + 1 \in Nat
      /\ \A k \in 1 .. m : k \in 0 .. m /\ k - 1 \in 0 .. m /\ k \in 1 .. m + 1
      /\ \A k \in 0 .. m : k \in 0 .. m + 1 /\ k # m + 1
      /\ \A k \in 0 .. m + 1 : k \in 0 .. m \/ k = m + 1
      /\ \A k \in 1 .. m + 1 : k \in 1 .. m \/ k = m + 1
      /\ (m + 1) - 1 = m
  BY <1>1
<1>5. sums[m] \in Nat /\ \A k \in 0 .. m : sums[k] \in Nat
  BY <1>1, <1>4
<1>6. total[m + 1] = sums[m] + size /\ \A k \in 0 .. m : total[k] = sums[k]
  BY <1>4
<1>7. total \in [0 .. m + 1 -> Nat]
  <2>1. \A k \in 0 .. m + 1 : total[k] \in Nat
    <3> HIDE DEF total
    <3>1. total[m + 1] \in Nat /\ \A k \in 0 .. m : total[k] \in Nat
      BY <1>5, <1>6
    <3> QED BY <1>4, <3>1
  <2> QED BY <2>1
<1> HIDE DEF total
<1>8. Grows(total, m + 1)
  <2>1. ASSUME NEW j \in 1 .. m + 1 PROVE total[j - 1] <= total[j]
    <3>1. CASE j \in 1 .. m
      BY <1>1, <1>4, <1>6, <3>1
    <3>2. CASE j = m + 1
      <4>1. total[j - 1] = sums[m] /\ total[j] = sums[m] + size
        BY <1>4, <1>6, <3>2
      <4> QED BY <1>5, <4>1
    <3> QED BY <1>4, <3>1, <3>2
  <2> QED BY <1>7, <2>1 DEF Grows
<1>9. \A f \in files : IF f \in extra THEN place[f] = m + 1 ELSE place[f] = pos[Of(f)]
  OBVIOUS
<1>10. place \in [files -> 1 .. m + 1]
  <2>1. \A f \in files : place[f] \in 1 .. m + 1
    <3> HIDE DEF place
    <3> QED BY <1>3, <1>4, <1>9
  <2> QED BY <2>1
<1> HIDE DEF place
<1>11. ASSUME NEW f \in files
       PROVE  after[f].size \in Nat /\ total[place[f]] = total[place[f] - 1] + after[f].size
  <2>1. CASE f \in extra
    <3>1. place[f] = m + 1 /\ after[f].size = size
      BY <1>0, <1>9, <2>1
    <3> QED BY <1>4, <1>6, <3>1
  <2>2. CASE f \notin extra
    <3>1. place[f] = pos[Of(f)] /\ pos[Of(f)] \in 1 .. m
      BY <1>3, <1>9, <2>2
    <3>2. total[place[f]] = sums[place[f]] /\ total[place[f] - 1] = sums[place[f] - 1]
      BY <1>4, <1>6, <3>1
    <3> QED BY <1>3, <2>2, <3>1, <3>2
  <2> QED BY <2>1, <2>2
<1>12. ASSUME NEW f \in files, NEW g \in files, place[f] = place[g] PROVE f = g
  <2>1. ASSUME NEW h \in files \ extra PROVE place[h] = pos[Of(h)] /\ place[h] # m + 1
    <3>1. place[h] = pos[Of(h)] /\ pos[Of(h)] \in 1 .. m
      BY <1>3, <1>9
    <3> QED BY <1>4, <3>1
  <2>2. CASE f \in extra /\ g \in extra
    BY <1>0, <2>2
  <2>3. CASE f \notin extra /\ g \notin extra
    <3>1. pos[Of(f)] = pos[Of(g)] /\ Of(f) \in 1 .. n /\ Of(g) \in 1 .. n
      BY <1>2, <1>12, <2>1, <2>3
    <3>2. ~ (Of(f) < Of(g)) /\ ~ (Of(g) < Of(f))
      <4>1. pos[Of(f)] \in 1 .. m /\ pos[Of(g)] \in 1 .. m
        BY <1>1, <3>1
      <4>2. ~ (pos[Of(f)] < pos[Of(g)]) /\ ~ (pos[Of(g)] < pos[Of(f)])
        BY <3>1, <4>1
      <4> QED BY <1>1, <3>1, <4>2
    <3>3. Of(f) = Of(g)
      BY <3>1, <3>2
    <3> QED BY <1>2, <2>3, <3>3
  <2>4. f \in extra => place[f] = m + 1
    BY <1>9
  <2>5. g \in extra => place[g] = m + 1
    BY <1>9
  <2> QED BY <1>12, <2>1, <2>2, <2>3, <2>4, <2>5
<1>13. Bytes(after, files) \in Nat /\ Bytes(after, files) <= total[m + 1]
  <2>1. \A f \in files : after[f].size \in Nat
    BY <1>11
  <2>2. \A f \in files : total[place[f]] = total[place[f] - 1] + after[f].size
    BY <1>11
  <2>3. \A f, g \in files : place[f] = place[g] => f = g
    BY <1>12
  <2> QED BY <1>4, <1>8, <1>10, <2>1, <2>2, <2>3, BytesFit
<1>14. Bytes(after, files) <= TotalCap
  <2>1. sums[m] + size <= TotalCap
    BY <1>1, <1>5, AttachmentsAssumption
  <2>2. TotalCap \in Nat
    BY AttachmentsAssumption
  <2> QED BY <1>5, <1>6, <1>13, <2>1, <2>2
<1> QED BY <1>3, <1>14

(* What _save_from_raw_message computes on the way.                        *)
Left(message) ==
  IF ~ Writes(message) THEN TotalCap
  ELSE IF message.size > TotalCap THEN 0 ELSE TotalCap - message.size
RawTargets(atts, indices, message) ==
  SaveTargets(Exact(atts), WithinCaps(Exact(atts), indices, Left(message)))
RawWritten(atts, indices, dir, message) ==
  WriteAll(Exact(atts), dir, RawTargets(atts, indices, message))
RawKept(atts, indices, dir, message) ==
  Prune(RawWritten(atts, indices, dir, message), RawTargets(atts, indices, message))
RawEml(atts, indices, dir, subject, message) ==
  IF message = Null THEN Null
  ELSE EmlTarget(RawKept(atts, indices, dir, message), RawTargets(atts, indices, message),
                 subject, message)

LEMMA RawIs ==
  ASSUME NEW atts, NEW indices, NEW dir, NEW subject, NEW message
  PROVE  SaveFromRaw(atts, indices, dir, subject, message) =
           [dir |-> IF RawEml(atts, indices, dir, subject, message) = Null \/ ~ Writes(message)
                    THEN RawKept(atts, indices, dir, message)
                    ELSE Put(RawKept(atts, indices, dir, message),
                             RawEml(atts, indices, dir, subject, message), message),
            targets |-> RawTargets(atts, indices, message),
            eml |-> RawEml(atts, indices, dir, subject, message)]
BY Zenon DEF SaveFromRaw, RawEml, RawKept, RawWritten, RawTargets, Left, Exact

LEMMA LeftIs ==
  ASSUME NEW P, NEW message \in Content(P) \cup {Null}
  PROVE  /\ Left(message) \in Nat /\ Left(message) <= TotalCap
         /\ Writes(message) => /\ message.size \in Nat /\ message.size <= PerCap
                               /\ PerCap <= TotalCap => Left(message) + message.size <= TotalCap
<1>1. TotalCap \in Nat /\ PerCap \in Nat
  BY AttachmentsAssumption
<1>2. CASE ~ Writes(message)
  BY <1>1, <1>2 DEF Left
<1>3. CASE Writes(message)
  <2>1. message \in Content(P) /\ message.size <= PerCap
    BY <1>3 DEF Writes
  <2>2. message.size \in Nat
    BY <2>1 DEF Content
  <2> DEFINE size == message.size
  <2>3. Left(message) = IF size > TotalCap THEN 0 ELSE TotalCap - size
    BY <1>3 DEF Left
  <2> HIDE DEF size
  <2>4. size \in Nat /\ size <= PerCap
    BY <2>1, <2>2 DEF size
  <2>5. Left(message) \in Nat /\ Left(message) <= TotalCap /\ (PerCap <= TotalCap => Left(message) + size <= TotalCap)
    BY <1>1, <2>3, <2>4
  <2> QED BY <2>4, <2>5 DEF size
<1> QED BY <1>2, <1>3

LEMMA RawWrites ==
  ASSUME NEW P, NEW atts, NEW indices, Savable(P, atts, indices),
         NEW dir, dir \in [DOMAIN dir -> Content(P)], NEW message \in Content(P) \cup {Null},
         NEW targets, targets = RawTargets(atts, indices, message),
         NEW w, w = RawWritten(atts, indices, dir, message)
  PROVE  /\ AreTargets(P, Exact(atts), targets)
         /\ \E m, sums, pos : FitsIn(Exact(atts), targets, Left(message), m, sums, pos)
         /\ \E F : w \in Directories(F, Content(P))
         /\ HasWritten(w, dir, Exact(atts), targets, Len(targets))
         /\ HasPruned(Pruned(w, targets), w, targets, Len(targets))
<1> DEFINE exact == Exact(atts)
           n == Len(targets)
           F == DOMAIN dir \cup KeysTo(targets, n)
           C == Content(P)
<1>1. Savable(P, exact, indices) /\ Left(message) \in Nat
  BY ExactSavable, LeftIs
<1> HIDE DEF exact
<1>2. targets = SaveTargets(exact, WithinCaps(exact, indices, Left(message)))
  BY DEF RawTargets, exact
<1>3. AreTargets(P, exact, targets) /\ \E m, sums, pos : FitsIn(exact, targets, Left(message), m, sums, pos)
  BY <1>1, <1>2, TargetsFit
<1>4. targets \in Seq(Target(P)) /\ \A k \in 1 .. n : targets[k].index \in DOMAIN exact
  BY <1>3 DEF AreTargets
<1>5. dir \in Directories(F, C)
  BY DirectoriesAre
<1>6. Writable(F, C, exact, targets)
  <2>1. \A k \in 1 .. n : Key(targets, k) \in F
    BY DEF KeysTo
  <2>2. exact \in Seq(Attachment(P))
    BY <1>1 DEF Savable
  <2> HIDE DEF F
  <2> QED BY <1>4, <2>1, <2>2, TargetsWritable
<1>7. w = WriteAll(exact, dir, targets)
  BY DEF RawWritten, exact
<1> HIDE DEF F, C, n
<1>8. w \in Directories(F, C) /\ HasWritten(w, dir, exact, targets, n)
  BY <1>4, <1>5, <1>6, <1>7, WrittenIs DEF n
<1>9. HasPruned(Pruned(w, targets), w, targets, n)
  BY <1>4, <1>8, ContentSizable, PrunedIs DEF C, n
<1> QED BY <1>3, <1>8, <1>9 DEF exact, C, n

LEMMA EmlIs ==
  ASSUME NEW dir, NEW targets, NEW subject, NEW message, NEW eml,
         eml = EmlTarget(dir, targets, subject, message), eml # Null
  PROVE  /\ \A k \in DOMAIN targets : FsKey(eml) # FsKey(targets[k].name)
         /\ FsKey(eml) \notin DOMAIN dir \/ dir[FsKey(eml)] = message
<1> DEFINE candidate(n) == IF n = 1 THEN <<subject>> ELSE <<subject, Digits[n]>>
           taken == {FsKey(targets[k].name) : k \in DOMAIN targets}
           free == {n \in 1 .. MaxNames :
                      /\ FsKey(candidate(n)) \notin taken
                      /\ FsKey(candidate(n)) \notin DOMAIN dir \/ dir[FsKey(candidate(n))] = message}
<1>1. eml = IF free = {} THEN Null ELSE candidate(Min(free))
  BY Zenon DEF EmlTarget
<1>2. free # {} /\ eml = candidate(Min(free))
  BY <1>1
<1>3. free \in SUBSET Nat
  BY AttachmentsAssumption
<1>4. Min(free) \in free
  <2> HIDE DEF free
  <2> QED BY <1>2, <1>3, LeastThere
<1>5. FsKey(eml) \notin taken /\ (FsKey(eml) \notin DOMAIN dir \/ dir[FsKey(eml)] = message)
  <2> HIDE DEF candidate, taken
  <2>1. \A n \in free : /\ FsKey(candidate(n)) \notin taken
                        /\ FsKey(candidate(n)) \notin DOMAIN dir \/ dir[FsKey(candidate(n))] = message
    OBVIOUS
  <2> HIDE DEF free
  <2> QED BY <1>2, <1>4, <2>1
<1> QED BY <1>5

(* Two targets have one file only when they are one attachment: the number *)
(* in front of a name is the attachment's, and no name begins with one.    *)
LEMMA KeyIs ==
  ASSUME NEW P, NEW name \in Seq(P), Len(name) = 1, NEW d, d \notin {"a", "A"}
  PROVE  /\ DOMAIN FsKey(name) = 1 .. 1
         /\ DOMAIN FsKey(<<d>> \o name) = 1 .. 2
         /\ FsKey(<<d>> \o name)[1] = d
<1>1. DOMAIN name = 1 .. 1
  OBVIOUS
<1>2. DOMAIN (<<d>> \o name) = 1 .. 2 /\ (<<d>> \o name)[1] = d
  <2>1. <<d>> \in Seq({d} \cup P) /\ name \in Seq({d} \cup P)
    OBVIOUS
  <2> DEFINE head == <<d>>
  <2>2. Len(head) = 1 /\ head[1] = d /\ Len(name) = 1
    OBVIOUS
  <2> HIDE DEF head
  <2> DEFINE V == {d} \cup P
  <2>4. head \in Seq(V) /\ name \in Seq(V)
    BY <2>1 DEF head
  <2> HIDE DEF V
  <2>5. head \o name \in Seq(V) /\ Len(head \o name) = Len(head) + Len(name)
    BY <2>4, ConcatProperties
  <2>6. (head \o name)[1] = head[1]
    <3>1. 1 \in 1 .. Len(head) + Len(name) /\ 1 <= Len(head)
      BY <2>2
    <3>2. \A i \in 1 .. Len(head) + Len(name) :
            (head \o name)[i] = IF i <= Len(head) THEN head[i] ELSE name[i - Len(head)]
      BY <2>4, ConcatProperties
    <3> QED BY <3>1, <3>2
  <2>3. DOMAIN (head \o name) = 1 .. 2 /\ (head \o name)[1] = d
    BY <2>2, <2>5, <2>6
  <2> QED BY <2>3 DEF head
<1> DEFINE long == <<d>> \o name
<1> HIDE DEF long
<1>3. FsKey(long)[1] = d /\ DOMAIN FsKey(long) = 1 .. 2
  BY <1>2 DEF FsKey, long
<1> QED BY <1>1, <1>3 DEF FsKey, long

LEMMA KeysAgree ==
  ASSUME NEW P, NEW atts \in Seq(Attachment(P)), NEW targets, AreTargets(P, atts, targets),
         \A i \in DOMAIN atts : Len(atts[i].name) = 1 /\ i - 1 \in DOMAIN Digits,
         NEW j \in 1 .. Len(targets), NEW k \in 1 .. Len(targets),
         Key(targets, j) = Key(targets, k)
  PROVE  targets[j].index = targets[k].index
<1> DEFINE n == Len(targets)
<1>1. PICK allowed \in Seq(Nat) : \A i \in 1 .. n : TargetAt(atts, allowed, targets, i)
  BY DEF AreTargets
<1>2. \A i \in 1 .. n : targets[i].index \in DOMAIN atts /\ targets[i].index = allowed[i]
  BY <1>1 DEF AreTargets, TargetAt
<1> DEFINE plain(i) == atts[targets[i].index].name
           front(i) == Digits[targets[i].index - 1]
<1>3. \A i \in 1 .. n :
        Key(targets, i) = IF \E l \in 1 .. i - 1 : Key(targets, l) = FsKey(plain(i))
                          THEN FsKey(<<front(i)>> \o plain(i)) ELSE FsKey(plain(i))
  <2> SUFFICES ASSUME NEW i \in 1 .. n
               PROVE  Key(targets, i) = IF \E l \in 1 .. i - 1 : Key(targets, l) = FsKey(plain(i))
                                        THEN FsKey(<<front(i)>> \o plain(i)) ELSE FsKey(plain(i))
    OBVIOUS
  <2>1. TargetAt(atts, allowed, targets, i) /\ targets[i].index = allowed[i]
    BY <1>1, <1>2
  <2> QED BY <2>1 DEF TargetAt, Key
<1>4. ASSUME NEW i \in 1 .. n
      PROVE  /\ front(i) \notin {"a", "A"} /\ targets[i].index - 1 \in DOMAIN Digits /\ targets[i].index \in Nat
             /\ DOMAIN FsKey(plain(i)) = 1 .. 1
             /\ DOMAIN FsKey(<<front(i)>> \o plain(i)) = 1 .. 2
             /\ FsKey(<<front(i)>> \o plain(i))[1] = front(i)
  <2>1. targets[i].index \in DOMAIN atts /\ targets[i].index - 1 \in DOMAIN Digits
    BY <1>2
  <2>2. front(i) \notin {"a", "A"}
    BY <2>1, AttachmentsAssumption
  <2>3. atts[targets[i].index] \in Attachment(P) /\ Len(plain(i)) = 1 /\ targets[i].index \in Nat
    BY <2>1
  <2>4. plain(i) \in Seq(P)
    BY <2>3 DEF Attachment
  <2> HIDE DEF plain, front
  <2> QED BY <2>1, <2>2, <2>3, <2>4, KeyIs
<1> HIDE DEF plain, front, n
<1>5. 1 .. 1 # 1 .. 2
  <2>1. 2 \in 1 .. 2 /\ 2 \notin 1 .. 1
    OBVIOUS
  <2> QED BY <2>1
<1>6. ASSUME NEW a \in 1 .. n, NEW b \in 1 .. n, a < b, Key(targets, a) = Key(targets, b)
      PROVE  targets[a].index = targets[b].index
  <2>1. a \in 1 .. b - 1
    BY <1>6
  <2>2. Key(targets, b) # FsKey(plain(b))
    <3>1. CASE \E l \in 1 .. b - 1 : Key(targets, l) = FsKey(plain(b))
      BY <1>3, <1>4, <1>5, <3>1
    <3>2. CASE ~ \E l \in 1 .. b - 1 : Key(targets, l) = FsKey(plain(b))
      BY <1>6, <2>1, <3>2
    <3> QED BY <3>1, <3>2
  <2>3. Key(targets, b) = FsKey(<<front(b)>> \o plain(b))
    BY <1>3, <2>2
  <2>4. Key(targets, a) = FsKey(<<front(a)>> \o plain(a))
    BY <1>3, <1>4, <1>5, <1>6, <2>3
  <2>5. front(a) = front(b)
    BY <1>4, <1>6, <2>3, <2>4
  <2>6. targets[a].index - 1 = targets[b].index - 1
    BY <1>4, <2>5, AttachmentsAssumption DEF front
  <2> DEFINE x == targets[a].index
             y == targets[b].index
  <2>7. x \in Nat /\ y \in Nat /\ x - 1 = y - 1
    BY <1>4, <2>6
  <2> HIDE DEF x, y
  <2>8. x = y
    BY <2>7
  <2> QED BY <2>8 DEF x, y
<1>7. j < k \/ k < j \/ j = k
  OBVIOUS
<1> QED BY <1>6, <1>7 DEF n

(* From the message: within the caps.                                      *)
LEMMA CapsFromRaw ==
  ASSUME NEW P, NEW atts, NEW indices, Savable(P, atts, indices), PerCap <= TotalCap,
         NEW dir, dir \in [DOMAIN dir -> Content(P)],
         NEW subject, NEW message \in Content(P) \cup {Null},
         NEW after, after = SaveFromRaw(atts, indices, dir, subject, message).dir
  PROVE  /\ Bytes(after, Changed(dir, after)) <= TotalCap
         /\ \A f \in Changed(dir, after) : after[f].size <= PerCap
<1> DEFINE exact == Exact(atts)
           targets == RawTargets(atts, indices, message)
           w == RawWritten(atts, indices, dir, message)
           kept == RawKept(atts, indices, dir, message)
           eml == IF Writes(message) THEN RawEml(atts, indices, dir, subject, message) ELSE Null
           budget == Left(message)
           n == Len(targets)
           s == Pruned(w, targets)
           extra == IF eml = Null THEN {} ELSE {FsKey(eml)}
           size == IF eml = Null THEN 0 ELSE message.size
           files == Changed(dir, after)
<1>1. after = IF eml = Null THEN kept ELSE Put(kept, eml, message)
  BY RawIs
<1>2. /\ kept = s[n].dir
      /\ eml # Null => Writes(message)
  BY DEF RawKept, Prune, RawEml
<1>3. /\ budget \in Nat /\ budget <= TotalCap
      /\ Writes(message) => message.size \in Nat /\ message.size <= PerCap /\ budget + message.size <= TotalCap
  BY LeftIs
<1> HIDE DEF targets, w, kept, eml, budget
<1>4. /\ AreTargets(P, exact, targets)
      /\ \E m, sums, pos : FitsIn(exact, targets, budget, m, sums, pos)
      /\ HasWritten(w, dir, exact, targets, n)
      /\ HasPruned(s, w, targets, n)
  BY RawWrites DEF targets, w, budget
<1>5. /\ exact \in Seq(Attachment(P))
      /\ \A i \in DOMAIN exact : exact[i].reported = exact[i].size
  <2>1. Savable(P, exact, indices) /\ ExactlyAs(P, exact, atts)
    BY ExactSavable
  <2> HIDE DEF exact
  <2> QED BY <2>1 DEF Savable, ExactlyAs
<1> HIDE DEF exact, s, n
<1>6. PICK m, sums, pos : FitsIn(exact, targets, budget, m, sums, pos)
  BY <1>4
<1>7. \A k \in 1 .. n : targets[k].index \in DOMAIN exact
  BY <1>4 DEF AreTargets, n
<1>8. /\ DOMAIN after \subseteq DOMAIN kept \cup extra
      /\ \A f \in DOMAIN after \ extra : after[f] = kept[f]
      /\ \A f \in DOMAIN after \cap extra : after[f] = message
  BY <1>1 DEF Put
<1>9. DOMAIN kept \subseteq DOMAIN w /\ \A f \in DOMAIN kept : kept[f] = w[f]
  BY <1>2, <1>4 DEF HasPruned
<1>10. FromTargets(after, files \ extra, exact, targets)
  <2> SUFFICES ASSUME NEW f \in files \ extra
               PROVE  \E k \in 1 .. n : Key(targets, k) = f /\ after[f] = Body(exact[targets[k].index])
    BY DEF FromTargets, n
  <2>1. f \in DOMAIN after /\ (f \notin DOMAIN dir \/ after[f] # dir[f])
    BY DEF Changed
  <2>2. f \in DOMAIN w /\ after[f] = w[f]
    BY <1>8, <1>9, <2>1
  <2>3. f \in KeysTo(targets, n)
    BY <1>4, <2>1, <2>2 DEF HasWritten
  <2> QED BY <1>4, <2>2, <2>3 DEF HasWritten
<1>11. size \in Nat /\ budget + size <= TotalCap
  BY <1>2, <1>3
<1>12. \A f, g \in extra : f = g
  OBVIOUS
<1>13. \A f \in files : f \in DOMAIN after
  BY DEF Changed
<1>14. extra \cap files = {} \/ (eml # Null /\ \A f \in extra \cap files : after[f].size = message.size)
  BY <1>8, <1>13
<1> DEFINE N == extra \cap files
<1>15. \A f \in N : after[f].size = size /\ after[f].size <= PerCap
  BY <1>2, <1>3, <1>14
<1> HIDE DEF extra, size, files
<1>16. files \ N = files \ extra /\ \A f, g \in N : f = g
  BY <1>12
<1> HIDE DEF N
<1>17. /\ Bytes(after, files) <= TotalCap
       /\ \A f \in files \ N : after[f].size <= PerCap
  <2>1. FromTargets(after, files \ N, exact, targets)
    BY <1>10, <1>16
  <2>2. Indexed(exact, targets) /\ Truthful(exact)
    BY <1>5, <1>7 DEF n, Indexed, Truthful
  <2>3. OneOfSize(after, N, size)
    BY <1>15, <1>16 DEF OneOfSize
  <2>4. exact \in Seq(Attachment(P)) /\ budget \in Nat /\ size \in Nat /\ budget + size <= TotalCap
    BY <1>3, <1>5, <1>11
  <2> QED BY <1>6, <2>1, <2>2, <2>3, <2>4, SavedFit
<1> QED BY <1>15, <1>17 DEF files

(* Every attachment that a save takes from the message is kept.            *)
LEMMA SavedWhole ==
  ASSUME NEW P, NEW atts, NEW indices, Savable(P, atts, indices),
         NEW dir, dir \in [DOMAIN dir -> Content(P)],
         NEW message \in Content(P) \cup {Null},
         \A i \in DOMAIN atts : Len(atts[i].name) = 1 /\ i - 1 \in DOMAIN Digits,
         NEW targets, targets = RawTargets(atts, indices, message),
         NEW w, w = RawWritten(atts, indices, dir, message)
  PROVE  /\ Prune(w, targets) = w
         /\ \A k \in 1 .. Len(targets) :
              /\ Key(targets, k) \in DOMAIN w
              /\ w[Key(targets, k)] = Body(atts[targets[k].index])
<1> DEFINE exact == Exact(atts)
           n == Len(targets)
           budget == Left(message)
<1>1. /\ AreTargets(P, exact, targets)
      /\ \E m, sums, pos : FitsIn(exact, targets, budget, m, sums, pos)
      /\ \E F : w \in Directories(F, Content(P))
      /\ HasWritten(w, dir, exact, targets, n)
  BY RawWrites
<1>2. /\ exact \in Seq(Attachment(P)) /\ DOMAIN exact = DOMAIN atts
      /\ \A i \in DOMAIN exact : /\ exact[i].reported = exact[i].size
                                 /\ exact[i].name = atts[i].name
                                 /\ Body(exact[i]) = Body(atts[i])
  <2>1. Savable(P, exact, indices) /\ ExactlyAs(P, exact, atts)
    BY ExactSavable
  <2> HIDE DEF exact
  <2> QED BY <2>1 DEF Savable, ExactlyAs
<1>3. budget \in Nat /\ budget <= TotalCap
  BY LeftIs
<1> HIDE DEF exact, budget
<1>4. PICK F : w \in Directories(F, Content(P))
  BY <1>1
<1>5. PICK m, sums, pos : FitsIn(exact, targets, budget, m, sums, pos)
  BY <1>1
<1>6. targets \in Seq(Target(P)) /\ \A k \in 1 .. n : targets[k].index \in DOMAIN exact
  BY <1>1 DEF AreTargets
<1>7. ASSUME NEW k \in 1 .. n
      PROVE  /\ Key(targets, k) \in DOMAIN w
             /\ w[Key(targets, k)] = Body(exact[targets[k].index])
  <2>1. Key(targets, k) \in KeysTo(targets, n)
    BY DEF KeysTo
  <2>2. PICK j \in 1 .. n : /\ Key(targets, j) = Key(targets, k)
                            /\ w[Key(targets, k)] = Body(exact[targets[j].index])
    BY <1>1, <2>1 DEF HasWritten
  <2>3. \A i \in DOMAIN exact : Len(exact[i].name) = 1 /\ i - 1 \in DOMAIN Digits
    BY <1>2
  <2>4. targets[j].index = targets[k].index
    BY <1>1, <1>2, <2>2, <2>3, KeysAgree
  <2> QED BY <1>1, <2>1, <2>2, <2>4 DEF HasWritten
<1>8. \A k \in 1 .. n : w[Key(targets, k)].size = exact[targets[k].index].reported
  <2> SUFFICES ASSUME NEW k \in 1 .. n PROVE w[Key(targets, k)].size = exact[targets[k].index].reported
    OBVIOUS
  <2>1. Body(exact[targets[k].index]).size = exact[targets[k].index].size
    BY DEF Body
  <2> QED BY <1>2, <1>6, <1>7, <2>1
<1>9. Budgeted(w, targets, sums, m, pos)
  <2>1. sums[m] \in Nat /\ TotalCap \in Nat
    <3>1. m \in Nat /\ m \in 0 .. m /\ sums \in [0 .. m -> Nat]
      BY <1>5 DEF FitsIn, Grows
    <3> QED BY <3>1, AttachmentsAssumption
  <2>2. sums[m] <= TotalCap
    BY <1>3, <1>5, <2>1 DEF FitsIn
  <2> QED BY <1>5, <1>8, <2>2 DEF FitsIn, Budgeted
<1>10. Prune(w, targets) = w
  <2>1. m \in Nat
    BY <1>5 DEF FitsIn
  <2> QED BY <1>4, <1>6, <1>9, <2>1, ContentSizable, PrunesNothing
<1>11. \A k \in 1 .. n : Body(exact[targets[k].index]) = Body(atts[targets[k].index])
  BY <1>2, <1>6
<1> QED BY <1>7, <1>10, <1>11

(* However the attachments are saved, what a call leaves on disk is within *)
(* the caps, whatever sizes Mail reported (mail_connector.py               *)
(* _prune_oversized_written, _save_from_raw_message).                      *)
THEOREM SavesWithinCaps ==
  ASSUME NEW P, NEW atts, NEW indices, Savable(P, atts, indices),
         NEW dir, dir \in [DOMAIN dir -> Content(P)],
         NEW subject, NEW message \in Content(P) \cup {Null}, NEW failed
  PROVE  CapsKept(atts, indices, dir, subject, message, failed)
<1> SUFFICES ASSUME PerCap <= TotalCap,
                    NEW after \in {SaveFromRaw(atts, indices, dir, subject, message).dir,
                                   SaveByScript(atts, indices, dir, failed)}
             PROVE  /\ Bytes(after, Changed(dir, after)) <= TotalCap
                    /\ \A k \in Changed(dir, after) : after[k].size <= PerCap
  BY Zenon DEF CapsKept
<1>1. CASE after = SaveFromRaw(atts, indices, dir, subject, message).dir
  BY <1>1, CapsFromRaw
<1>2. CASE after = SaveByScript(atts, indices, dir, failed)
  BY <1>2, CapsByScript
<1> QED BY <1>1, <1>2

(* A save writes each attachment it saves to a file of its own, and the    *)
(* message to none of these, nor over another file (mail_connector.py      *)
(* _compute_attachment_save_targets, _eml_target).                         *)
THEOREM SavesEach ==
  ASSUME NEW P, NEW atts, NEW indices, Savable(P, atts, indices),
         \A i \in DOMAIN atts : i - 1 \in DOMAIN Digits,
         NEW dir, dir \in [DOMAIN dir -> Content(P)],
         NEW subject, NEW message \in Content(P) \cup {Null}
  PROVE  EachKept(atts, indices, dir, subject, message)
<1> DEFINE targets == RawTargets(atts, indices, message)
           w == RawWritten(atts, indices, dir, message)
           kept == RawKept(atts, indices, dir, message)
           eml == RawEml(atts, indices, dir, subject, message)
           result == SaveFromRaw(atts, indices, dir, subject, message)
           keys == {Key(targets, k) : k \in DOMAIN targets}
           n == Len(targets)
<1>1. /\ result.dir = IF eml = Null \/ ~ Writes(message) THEN kept ELSE Put(kept, eml, message)
      /\ result.targets = targets /\ result.eml = eml
  BY RawIs
<1>2. kept = Prune(w, targets)
  BY DEF RawKept
<1>3. eml # Null => eml = EmlTarget(kept, targets, subject, message)
  BY DEF RawEml
<1>4. /\ DOMAIN targets = 1 .. n
      /\ HasWritten(w, dir, Exact(atts), targets, n)
      /\ HasPruned(Pruned(w, targets), w, targets, n)
  <2>1. /\ AreTargets(P, Exact(atts), targets)
        /\ HasWritten(w, dir, Exact(atts), targets, n)
        /\ HasPruned(Pruned(w, targets), w, targets, n)
    BY RawWrites
  <2> HIDE DEF targets
  <2>2. targets \in Seq(Target(P))
    BY <2>1 DEF AreTargets
  <2> QED BY <2>1, <2>2
<1>5. ASSUME \A i \in DOMAIN atts : Len(atts[i].name) = 1
      PROVE  kept = w /\ \A k \in 1 .. n : /\ Key(targets, k) \in DOMAIN w
                                           /\ w[Key(targets, k)] = Body(atts[targets[k].index])
  BY <1>2, <1>5, SavedWhole
<1> HIDE DEF targets, w, kept, eml, n
<1>6. eml # Null => /\ FsKey(eml) \notin keys
                    /\ FsKey(eml) \notin DOMAIN kept \/ kept[FsKey(eml)] = message
  BY <1>3, EmlIs DEF Key
<1>7. ASSUME \A i \in DOMAIN atts : Len(atts[i].name) = 1, NEW k \in DOMAIN targets
      PROVE  result.dir[Key(targets, k)] = Body(atts[targets[k].index])
  <2>1. kept[Key(targets, k)] = Body(atts[targets[k].index]) /\ Key(targets, k) \in DOMAIN kept
    BY <1>4, <1>5, <1>7
  <2>2. eml # Null => Key(targets, k) # FsKey(eml)
    BY <1>6
  <2> HIDE DEF result
  <2> QED BY <1>1, <2>1, <2>2 DEF Put
<1>8. ASSUME eml # Null, FsKey(eml) \in DOMAIN dir \ keys PROVE dir[FsKey(eml)] = message
  <2>1. FsKey(eml) \notin KeysTo(targets, n)
    BY <1>4, <1>8 DEF KeysTo
  <2>2. FsKey(eml) \in DOMAIN w /\ w[FsKey(eml)] = dir[FsKey(eml)]
    BY <1>4, <1>8, <2>1 DEF HasWritten
  <2>3. FsKey(eml) \in DOMAIN kept /\ kept[FsKey(eml)] = w[FsKey(eml)]
    <3>1. kept = Pruned(w, targets)[n].dir
      BY <1>2 DEF Prune, n
    <3> QED BY <1>4, <2>1, <2>2, <3>1 DEF HasPruned
  <2> QED BY <1>6, <1>8, <2>2, <2>3
<1> HIDE DEF result
<1>9. keys = {FsKey(targets[k].name) : k \in DOMAIN targets}
  BY DEF Key
<1> QED BY <1>1, <1>7, <1>8, <1>9 DEF EachKept, Key, result
-------------------------------------------------------------------------------
(* What has been chosen.                                                   *)
Chosen ==
  \/ data \in [kind : {"search"}, box : Boxes] /\ ask \in {Null} \cup [q : Queries, gone : Vanishing]
  \/ data \in [kind : {"folders"}, folders : FolderLists] /\ ask \in {Null} \cup Limits
  \/ data \in [kind : {"thread"}, account : MailAccounts] /\ ask \in {Null} \cup data.account.subject
  \/ data \in [kind : {"walk"}, cands : CandidateLists] /\ ask \in {Null} \cup KnownIdSets
  \/ data \in [kind : {"save"}, atts : AttachmentLists]
     /\ \/ ask = Null
        \/ ask \in Saves /\ (ask.indices = Null \/ ToSet(ask.indices) \subseteq DOMAIN data.atts)
  \/ data \in [kind : {"range"}, n : PartSizes, ended : BOOLEAN] /\ ask \in {Null} \cup Ranges

LEMMA AlwaysChosen == AlgorithmsSpec => []Chosen
<1>1. AlgorithmsInit => Chosen
  BY DEF AlgorithmsInit, Chosen
<1>2. Chosen /\ [AlgorithmsNext]_<<data, ask>> => Chosen'
  <2> SUFFICES ASSUME Chosen, [AlgorithmsNext]_<<data, ask>> PROVE Chosen'
    OBVIOUS
  <2>1. CASE AskSearch
    BY <2>1 DEF AskSearch, Asking, Chosen
  <2>2. CASE AskFolders
    BY <2>2 DEF AskFolders, Asking, Chosen
  <2>3. CASE AskThread
    BY <2>3 DEF AskThread, Asking, Chosen
  <2>4. CASE AskWalk
    BY <2>4 DEF AskWalk, Asking, Chosen
  <2>5. CASE AskSave
    BY <2>5 DEF AskSave, Asking, Chosen
  <2>6. CASE AskRange
    BY <2>6 DEF AskRange, Asking, Chosen
  <2>7. CASE UNCHANGED <<data, ask>>
    BY <2>7 DEF Chosen
  <2> QED BY <2>1, <2>2, <2>3, <2>4, <2>5, <2>6, <2>7 DEF AlgorithmsNext
<1> QED BY <1>1, <1>2, PTL DEF AlgorithmsSpec

(* The properties of the algorithms, each for any data and requests of its*)
(* kind that InputsAssumption allows.  A search finds the newest matches  *)
(* (search_messages of each backend).                                     *)
THEOREM AlgorithmsSearch == AlgorithmsSpec => []NewestMatching
<1>1. Chosen => NewestMatching
  <2> SUFFICES ASSUME Chosen, Asked("search") PROVE SearchFindsNewest(data.box, ask.q, ask.gone)
    BY DEF NewestMatching
  <2>1. data.box \in Boxes /\ ask.q \in Queries
    BY DEF Chosen, Asked
  <2>2. IsMailbox(data.box) /\ ask.q \in Query /\ ask.q.limit # 0
    BY <2>1, InputsAssumption
  <2> QED BY <2>2, SearchesAgree
<1> QED BY <1>1, AlwaysChosen, PTL

(* A search of all folders lists each message once (imap_connector.py     *)
(* _search_all_folders).                                                  *)
THEOREM AlgorithmsFolders == AlgorithmsSpec => []AllFoldersExact
<1>1. Chosen => AllFoldersExact
  <2> SUFFICES ASSUME Chosen, Asked("folders") PROVE AllFoldersFound(data.folders, ask, Dates)
    BY DEF AllFoldersExact
  <2>1. data.folders \in FolderLists /\ ask \in Limits
    BY DEF Chosen, Asked
  <2>2. AreFolders(data.folders, FolderNames, MessageIds) /\ ask \in Nat \cup {Unset} /\ Dates \in [MessageIds -> Nat]
    BY <2>1, InputsAssumption
  <2> QED BY <2>2, AllFoldersListed
<1> QED BY <1>1, AlwaysChosen, PTL

(* A conversation is whole however it is collected (get_thread).          *)
THEOREM AlgorithmsThread == AlgorithmsSpec => []WholeThread
<1>1. Chosen => WholeThread
  <2> SUFFICES ASSUME Chosen, Asked("thread") PROVE ThreadIsWhole(data.account, ask)
    BY DEF WholeThread
  <2>1. data.account \in MailAccounts /\ ask \in data.account.subject
    BY DEF Chosen, Asked
  <2>2. IsAccount(data.account)
    BY <2>1, InputsAssumption
  <2>3. ask \in DOMAIN data.account.parent
    BY <2>1, <2>2 DEF IsAccount
  <2> QED BY <2>2, <2>3, EveryThreadWhole
<1> QED BY <1>1, AlwaysChosen, PTL

(* walk_thread_graph accepts what is connected to what is known, no more. *)
THEOREM AlgorithmsWalk == AlgorithmsSpec => []WalkClosed
<1>1. Chosen => WalkClosed
  <2> SUFFICES ASSUME Chosen, Asked("walk") PROVE WalkIsClosure(ask, data.cands)
    BY DEF WalkClosed
  <2>1. data.cands \in CandidateLists /\ ask \in KnownIdSets
    BY DEF Chosen, Asked
  <2>2. data.cands \in Seq(Candidate(MessageIds, MessageIds)) /\ OneEach(data.cands) /\ ask \in SUBSET MessageIds
    BY <2>1, InputsAssumption
  <2> QED BY <2>2, WalkReachesAll
<1> QED BY <1>1, AlwaysChosen, PTL

(* A range read returns the bytes of the range (fetch_attachment_payload).*)
THEOREM AlgorithmsRange == AlgorithmsSpec => []WindowExact
<1>1. Chosen => WindowExact
  <2> SUFFICES ASSUME Chosen, Asked("range") PROVE RangeExact(data.n, data.ended, ask.offset, ask.max)
    BY DEF WindowExact
  <2>1. data.n \in PartSizes /\ data.ended \in BOOLEAN /\ ask \in Ranges
    BY DEF Chosen, Asked
  <2>2. data.n \in Nat \ {0} /\ ask.offset \in Nat /\ ask.max \in Nat \cup {Null}
    BY <2>1, InputsAssumption
  <2> QED BY <2>1, <2>2, RangeReadExact
<1> QED BY <1>1, AlwaysChosen, PTL

(* A save that is asked for has such inputs.                               *)
Parts == NameParts \cup {Digits[n] : n \in DOMAIN Digits}

LEMMA SaveAsked ==
  ASSUME Chosen, Asked("save")
  PROVE  /\ Savable(Parts, data.atts, ask.indices)
         /\ \A i \in DOMAIN data.atts : i - 1 \in DOMAIN Digits
         /\ ask.dir \in [DOMAIN ask.dir -> Content(Parts)]
         /\ ask.message \in Content(Parts) \cup {Null}
<1>1. /\ data.atts \in AttachmentLists /\ ask \in Saves
      /\ ask.indices = Null \/ ToSet(ask.indices) \subseteq DOMAIN data.atts
  BY DEF Chosen, Asked
<1>2. /\ data.atts \in Seq(Attachment(NameParts))
      /\ \A i \in DOMAIN data.atts : i - 1 \in DOMAIN Digits
      /\ ask.indices = Null \/ ask.indices \in Seq(Nat)
      /\ ask.dir \in [DOMAIN ask.dir -> Content(NameParts)]
      /\ ask.message \in Content(NameParts) \cup {Null}
  BY <1>1, InputsAssumption
<1>3. Seq(NameParts) \subseteq Seq(Parts)
  <2>1. NameParts \subseteq Parts
    BY DEF Parts
  <2> HIDE DEF Parts
  <2> QED BY <2>1
<1>4. Content(NameParts) \subseteq Content(Parts) /\ Attachment(NameParts) \subseteq Attachment(Parts)
  <2> HIDE DEF Parts
  <2> QED BY <1>3 DEF Content, Attachment
<1>5. data.atts \in Seq(Attachment(Parts)) /\ \A i \in DOMAIN data.atts : Digits[i - 1] \in Parts
  <2>1. \A i \in DOMAIN data.atts : Digits[i - 1] \in Parts
    BY <1>2 DEF Parts
  <2> HIDE DEF Parts
  <2> QED BY <1>2, <1>4, <2>1
<1> HIDE DEF Parts
<1> QED BY <1>1, <1>2, <1>4, <1>5 DEF Savable

(* What a save leaves on disk is within the caps (save_attachments).      *)
THEOREM AlgorithmsCaps == AlgorithmsSpec => []CapsHold
<1>1. Chosen => CapsHold
  <2> SUFFICES ASSUME Chosen, Asked("save")
               PROVE  CapsKept(data.atts, ask.indices, ask.dir, ask.subject, ask.message, ask.failed)
    BY DEF CapsHold
  <2> QED BY SaveAsked, SavesWithinCaps
<1> QED BY <1>1, AlwaysChosen, PTL

(* A save loses no attachment to another, nor another file to the message *)
(* (save_attachments).                                                    *)
THEOREM AlgorithmsSave == AlgorithmsSpec => []NothingOverwritten
<1>1. Chosen => NothingOverwritten
  <2> SUFFICES ASSUME Chosen, Asked("save")
               PROVE  EachKept(data.atts, ask.indices, ask.dir, ask.subject, ask.message)
    BY DEF NothingOverwritten
  <2> QED BY SaveAsked, SavesEach
<1> QED BY <1>1, AlwaysChosen, PTL
===============================================================================
