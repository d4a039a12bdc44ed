------------------------------ MODULE Rules_proofs ------------------------------
(***************************************************************************)
(* The rule tools, for any rules, names, actions and calls.  Up to its     *)
(* script a call changes nothing, and the proof follows its yes (Gated).   *)
(* What a script leaves, cut off after any statement, is shown by          *)
(* induction over its statements: the rule it is at has none but its old   *)
(* actions and those asked for (At), and what has been set is still set    *)
(* (Shows), because no statement of a plan undoes an earlier one (Undone,  *)
(* Plan).  The verdict on each kind of script (Verdict) then gives the     *)
(* invariants.                                                             *)
(***************************************************************************)
EXTENDS Rules, FiniteSets, SequenceTheorems, WellFoundedInduction, TLAPS

(* What holds first and from each number to the next holds all along: P is *)
(* the set of numbers it holds for.                                        *)
LEMMA Along ==
  ASSUME NEW a \in Nat, NEW b \in Nat, NEW P,
         a \in P, \A n \in a + 1 .. b : n - 1 \in P => n \in P
  PROVE  a .. b \subseteq P
<1> SUFFICES ASSUME NEW x \in a .. b, x \notin P PROVE FALSE
  OBVIOUS
<1> DEFINE bad  == {n \in a .. b : n \notin P}
           less == {p \in Nat \X Nat : p[1] < p[2]}
<1>1. IsWellFoundedOn(less, Nat)
  BY NatLessThanWellFounded DEF OpToRel
<1>2. bad \subseteq Nat /\ bad # {}
  OBVIOUS
<1>3. PICK m \in bad : \A j \in bad : ~ (<<j, m>> \in less)
  <2> HIDE DEF bad, less
  <2> QED BY <1>1, <1>2, WFMin
<1>4. m \in a .. b /\ m \notin P /\ m # a
  BY <1>3
<1>5. m \in a + 1 .. b /\ m - 1 \in a .. b /\ m - 1 \in Nat /\ m \in Nat /\ m - 1 < m
  BY <1>4
<1>6. <<m - 1, m>> \in less
  BY <1>5
<1>7. m - 1 \in P
  BY <1>3, <1>5, <1>6
<1> QED BY <1>4, <1>5, <1>7

(* The states of a run: the first is where it starts, and each comes from  *)
(* the one before by a statement.                                          *)
LEMMA RanStepwise ==
  ASSUME NEW script, Len(script) \in Nat, NEW start
  PROVE  /\ Ran(script, start)[0] = start
         /\ \A n \in 1 .. Len(script) :
              Ran(script, start)[n] = Statement(Ran(script, start)[n - 1], script[n])
<1> DEFINE len == Len(script)
           IsRun(f, m) == f = [n \in 0 .. m |-> IF n = 0 THEN start
                                                ELSE Statement(f[n - 1], script[n])]
           P == {m \in 0 .. len : \E f : IsRun(f, m)}
<1>1. 0 \in P
  <2> DEFINE g == [n \in 0 .. 0 |-> start]
  <2>1. IsRun(g, 0)
    OBVIOUS
  <2> HIDE DEF g
  <2> QED BY <2>1
<1>2. ASSUME NEW m \in 1 .. len, m - 1 \in P PROVE m \in P
  <2>1. PICK f : IsRun(f, m - 1)
    BY <1>2
  <2> DEFINE g == [n \in 0 .. m |-> IF n = m THEN Statement(f[m - 1], script[m]) ELSE f[n]]
  <2>2. \A n \in 0 .. m : g[n] = IF n = 0 THEN start ELSE Statement(g[n - 1], script[n])
    <3> TAKE n \in 0 .. m
    <3>1. CASE n = m
      <4>1. m - 1 \in 0 .. m /\ m - 1 # m /\ n # 0
        BY <1>2, <3>1
      <4> QED BY <3>1, <4>1
    <3>2. CASE n # m /\ n # 0
      <4>1. n \in 0 .. m - 1 /\ n - 1 \in 0 .. m /\ n - 1 # m
        BY <3>2
      <4>2. f[n] = Statement(f[n - 1], script[n])
        BY <2>1, <3>2, <4>1
      <4> QED BY <3>2, <4>1, <4>2
    <3>3. CASE n = 0
      <4>1. f[0] = start /\ 0 \in 0 .. m - 1 /\ 0 # m
        BY <2>1
      <4> QED BY <3>3, <4>1
    <3> QED BY <3>1, <3>2, <3>3
  <2>3. IsRun(g, m)
    <3> DEFINE h == [n \in 0 .. m |-> IF n = 0 THEN start ELSE Statement(g[n - 1], script[n])]
    <3>1. g = h
      <4> HIDE DEF P
      <4> QED BY <2>2
    <3> QED BY <3>1
  <2> HIDE DEF g
  <2> QED BY <2>3
<1>3. len \in P
  <2> HIDE DEF P
  <2>1. 0 + 1 .. len = 1 .. len
    OBVIOUS
  <2>2. 0 .. len \subseteq P
    BY <1>1, <1>2, <2>1, Along
  <2> QED BY <2>2
<1>4. PICK f : IsRun(f, len)
  BY <1>3
<1>5. IsRun(Ran(script, start), len)
  BY <1>4, Zenon DEF Ran
<1> QED BY <1>5

-------------------------------------------------------------------------------
(* The statements that change the rule a script is at.                     *)
Fits(o) ==
       {Do("on", a) : a \in o.acts}
  \cup {Do("off", a) : a \in Supported}
  \cup {Do("dest", o.dest) : x \in o.acts}
  \cup (IF o.scope # None THEN {Do("scope", o.scope)} ELSE {})
  \cup (IF o.enabled # None THEN {Do("enabled", o.enabled)} ELSE {})
  \cup (IF o.name # None THEN {Do("name", o.name)} ELSE {})

Verbs == {"on", "off", "dest", "scope", "enabled", "name"}

(* The pairs of verbs of which the second would undo the first, or would   *)
(* find the reference gone.                                                *)
Undone == {<<"enabled", "off">>, <<"on", "off">>} \cup ({"name"} \X Verbs)

Ordered(s) == \A m, n \in 1 .. Len(s) : m < n => <<s[m].do, s[n].do>> \notin Undone

Follows(s, t) == \A x \in ToSet(s), y \in ToSet(t) : <<x.do, y.do>> \notin Undone

Then(s, t) == s \o t

(* A sequence of such statements in such an order.                         *)
Plan(o, s) == s \in Seq(Fits(o)) /\ Ordered(s)

(* Nothing, and one statement, are such sequences.                         *)
LEMMA Single ==
  ASSUME NEW o
  PROVE  /\ Plan(o, <<>>) /\ ToSet(<<>>) = {}
         /\ \A t \in Fits(o) : Plan(o, <<t>>) /\ ToSet(<<t>>) = {t}
BY DEF Plan, Ordered, ToSet

(* Two of them after each other are one if the second undoes nothing.      *)
LEMMA Joined ==
  ASSUME NEW o, NEW s, NEW t, Plan(o, s), Plan(o, t), Follows(s, t)
  PROVE  /\ Plan(o, Then(s, t))
         /\ \A x : x \in ToSet(Then(s, t)) <=> x \in ToSet(s) \/ x \in ToSet(t)
<1>1. s \in Seq(Fits(o)) /\ t \in Seq(Fits(o)) /\ Len(s) \in Nat /\ Len(t) \in Nat
  BY DEF Plan
<1> DEFINE st == s \o t
<1>2. /\ st \in Seq(Fits(o)) /\ Len(st) = Len(s) + Len(t)
      /\ DOMAIN s = 1 .. Len(s) /\ DOMAIN t = 1 .. Len(t) /\ DOMAIN st = 1 .. Len(st)
      /\ \A n \in 1 .. Len(s) : st[n] = s[n]
      /\ \A n \in Len(s) + 1 .. Len(s) + Len(t) : st[n] = t[n - Len(s)]
  BY <1>1
<1> HIDE DEF st
<1>3. Ordered(st)
  <2> SUFFICES ASSUME NEW m \in 1 .. Len(st), NEW n \in 1 .. Len(st), m < n
               PROVE  <<st[m].do, st[n].do>> \notin Undone
    BY DEF Ordered
  <2>1. CASE n <= Len(s)
    <3>1. m \in 1 .. Len(s) /\ n \in 1 .. Len(s) /\ st[m] = s[m] /\ st[n] = s[n]
      BY <1>1, <1>2, <2>1
    <3> QED BY <3>1 DEF Ordered, Plan
  <2>2. CASE m <= Len(s) /\ n > Len(s)
    <3>1. m \in 1 .. Len(s) /\ n - Len(s) \in 1 .. Len(t)
      BY <1>1, <1>2, <2>2
    <3>2. st[m] = s[m] /\ st[n] = t[n - Len(s)]
      BY <1>1, <1>2, <2>2
    <3>3. st[m] \in ToSet(s) /\ st[n] \in ToSet(t)
      BY <1>2, <3>1, <3>2 DEF ToSet
    <3> QED BY <3>3 DEF Follows
  <2>3. CASE m > Len(s)
    <3>1. /\ m - Len(s) \in 1 .. Len(t) /\ n - Len(s) \in 1 .. Len(t) /\ m - Len(s) < n - Len(s)
          /\ st[m] = t[m - Len(s)] /\ st[n] = t[n - Len(s)]
      BY <1>1, <1>2, <2>3
    <3> QED BY <3>1 DEF Ordered, Plan
  <2> QED BY <1>1, <1>2, <2>1, <2>2, <2>3
<1>4. ToSet(st) = ToSet(s) \cup ToSet(t)
  <2>1. ASSUME NEW n \in 1 .. Len(st) PROVE st[n] \in ToSet(s) \cup ToSet(t)
    <3>1. CASE n <= Len(s)
      BY <1>1, <1>2, <3>1 DEF ToSet
    <3>2. CASE n > Len(s)
      <4>1. n - Len(s) \in 1 .. Len(t) /\ st[n] = t[n - Len(s)]
        BY <1>1, <1>2, <3>2
      <4> QED BY <1>2, <4>1 DEF ToSet
    <3> QED BY <1>1, <1>2, <3>1, <3>2
  <2>2. ToSet(s) \subseteq ToSet(st)
    BY <1>1, <1>2 DEF ToSet
  <2>3. ASSUME NEW n \in 1 .. Len(t) PROVE t[n] \in ToSet(st)
    <3>0. Len(s) + n \in Len(s) + 1 .. Len(s) + Len(t) /\ (Len(s) + n) - Len(s) = n
      BY <1>1
    <3>1. Len(s) + n \in 1 .. Len(st)
      BY <1>1, <1>2
    <3>3. st[Len(s) + n] = t[n]
      BY <1>2, <3>0
    <3>2. Len(s) + n \in DOMAIN st
      BY <1>2, <3>1
    <3> QED BY <3>2, <3>3 DEF ToSet
  <2> QED BY <1>1, <1>2, <2>1, <2>2, <2>3 DEF ToSet
<1> QED BY <1>2, <1>3, <1>4 DEF Plan, st, Then

(* The statements for the actions: every action is turned on, and nothing  *)
(* else is done but to name the target.                                    *)
LEMMA ActionLinesPlanned ==
  ASSUME NEW o \in Asked
  PROVE  /\ Plan(o, ActionLines(o))
         /\ {Do("on", a) : a \in o.acts} \subseteq ToSet(ActionLines(o))
         /\ "move" \in o.acts => Do("dest", o.dest) \in ToSet(ActionLines(o))
         /\ \A t \in ToSet(ActionLines(o)) : t.do \in {"on", "dest"}
<1> DEFINE a1 == When("move" \in o.acts, Do("on", "move"))
           a2 == When("move" \in o.acts, Do("dest", o.dest))
           a3 == When("read" \in o.acts, Do("on", "read"))
           a4 == When("delete" \in o.acts, Do("on", "delete"))
           b2 == Then(a1, a2)
           b3 == Then(b2, a3)
<1>1. o.acts \subseteq Supported /\ Supported = {"move", "read", "delete"}
  BY DEF Asked, Supported
<1>2. Plan(o, a1) /\ ToSet(a1) = IF "move" \in o.acts THEN {Do("on", "move")} ELSE {}
  <2>1. "move" \in o.acts => Do("on", "move") \in Fits(o)
    BY DEF Fits
  <2> QED BY <2>1, Single DEF When
<1>3. Plan(o, a2) /\ ToSet(a2) = IF "move" \in o.acts THEN {Do("dest", o.dest)} ELSE {}
  <2>1. "move" \in o.acts => Do("dest", o.dest) \in Fits(o)
    BY DEF Fits
  <2> QED BY <2>1, Single DEF When
<1>4. Plan(o, a3) /\ ToSet(a3) = IF "read" \in o.acts THEN {Do("on", "read")} ELSE {}
  <2>1. "read" \in o.acts => Do("on", "read") \in Fits(o)
    BY DEF Fits
  <2> QED BY <2>1, Single DEF When
<1>5. Plan(o, a4) /\ ToSet(a4) = IF "delete" \in o.acts THEN {Do("on", "delete")} ELSE {}
  <2>1. "delete" \in o.acts => Do("on", "delete") \in Fits(o)
    BY DEF Fits
  <2> QED BY <2>1, Single DEF When
<1> HIDE DEF a1, a2, a3, a4, b2, b3
<1>6. Plan(o, b2) /\ \A x : x \in ToSet(b2) <=> x \in ToSet(a1) \/ x \in ToSet(a2)
  <2>1. Follows(a1, a2)
    BY <1>2, <1>3 DEF Follows, Undone, Do, Verbs
  <2>2. Plan(o, a1) /\ Plan(o, a2)
    BY <1>2, <1>3
  <2> QED BY <2>1, <2>2, Joined DEF b2
<1>7. Plan(o, b3) /\ \A x : x \in ToSet(b3) <=> x \in ToSet(b2) \/ x \in ToSet(a3)
  <2>0. /\ \A x \in ToSet(b2) : x.do \in {"on", "dest"}
        /\ \A y \in ToSet(a3) : y.do \in {"on"}
    BY <1>2, <1>3, <1>4, <1>6 DEF Do
  <2>1. Follows(b2, a3)
    BY <2>0 DEF Follows, Undone, Verbs
  <2>2. Plan(o, b2) /\ Plan(o, a3)
    BY <1>4, <1>6
  <2> QED BY <2>1, <2>2, Joined DEF b3
<1>8. Plan(o, Then(b3, a4)) /\ \A x : x \in ToSet(Then(b3, a4)) <=> x \in ToSet(b3) \/ x \in ToSet(a4)
  <2>0. /\ \A x \in ToSet(b3) : x.do \in {"on", "dest"}
        /\ \A y \in ToSet(a4) : y.do \in {"on"}
    BY <1>2, <1>3, <1>4, <1>5, <1>6, <1>7 DEF Do
  <2>1. Follows(b3, a4)
    BY <2>0 DEF Follows, Undone, Verbs
  <2>2. Plan(o, b3) /\ Plan(o, a4)
    BY <1>5, <1>7
  <2> QED BY <2>1, <2>2, Joined
<1>9. ActionLines(o) = Then(b3, a4)
  BY DEF Then, ActionLines, a1, a2, a3, a4, b2, b3
<1> QED BY <1>1, <1>2, <1>3, <1>4, <1>5, <1>6, <1>7, <1>8, <1>9 DEF Do

(* create_rule's script turns nothing off and sets everything it was given.*)
LEMMA SettingsPlanned ==
  ASSUME NEW o \in Ops, o.tool = "create"
  PROVE  /\ Plan(o, Settings(o))
         /\ \A t \in ToSet(Settings(o)) : t.do \in {"on", "dest", "scope", "enabled"}
         /\ {Do("scope", o.scope), Do("enabled", o.enabled)} \subseteq ToSet(Settings(o))
         /\ {Do("on", a) : a \in o.acts} \subseteq ToSet(Settings(o))
         /\ "move" \in o.acts => Do("dest", o.dest) \in ToSet(Settings(o))
<1> DEFINE a1 == << Do("scope", o.scope) >>
           a2 == ActionLines(o)
           a3 == << Do("enabled", o.enabled) >>
           b2 == Then(a1, a2)
<1>1. o \in Asked /\ o.scope # None /\ o.enabled # None
  BY RuleAssumption
<1>2. Plan(o, a1) /\ ToSet(a1) = {Do("scope", o.scope)}
  <2>1. Do("scope", o.scope) \in Fits(o)
    BY <1>1 DEF Fits
  <2> QED BY <2>1, Single
<1>3. Plan(o, a3) /\ ToSet(a3) = {Do("enabled", o.enabled)}
  <2>1. Do("enabled", o.enabled) \in Fits(o)
    BY <1>1 DEF Fits
  <2> QED BY <2>1, Single
<1>4. /\ Plan(o, a2)
      /\ {Do("on", a) : a \in o.acts} \subseteq ToSet(a2)
      /\ "move" \in o.acts => Do("dest", o.dest) \in ToSet(a2)
      /\ \A t \in ToSet(a2) : t.do \in {"on", "dest"}
  BY <1>1, ActionLinesPlanned
<1>5. Settings(o) = Then(b2, a3)
  BY DEF Then, Settings
<1> HIDE DEF a1, a2, a3, b2
<1>6. Plan(o, b2) /\ \A x : x \in ToSet(b2) <=> x \in ToSet(a1) \/ x \in ToSet(a2)
  <2>0. /\ \A x \in ToSet(a1) : x.do \in {"scope"}
        /\ \A y \in ToSet(a2) : y.do \in {"on", "dest"}
    BY <1>2, <1>4 DEF Do
  <2>1. Follows(a1, a2)
    BY <2>0 DEF Follows, Undone, Verbs
  <2>2. Plan(o, a1) /\ Plan(o, a2)
    BY <1>2, <1>4
  <2> QED BY <2>1, <2>2, Joined DEF b2
<1>7. Plan(o, Then(b2, a3)) /\ \A x : x \in ToSet(Then(b2, a3)) <=> x \in ToSet(b2) \/ x \in ToSet(a3)
  <2>0. /\ \A x \in ToSet(b2) : x.do \in {"scope", "on", "dest"}
        /\ \A y \in ToSet(a3) : y.do \in {"enabled"}
    BY <1>2, <1>3, <1>4, <1>6 DEF Do
  <2>1. Follows(b2, a3)
    BY <2>0 DEF Follows, Undone, Verbs
  <2>2. Plan(o, b2) /\ Plan(o, a3)
    BY <1>3, <1>6
  <2> QED BY <2>1, <2>2, Joined
<1> QED BY <1>2, <1>3, <1>4, <1>5, <1>6, <1>7 DEF Do

(* update_rule's script turns every action off before it turns those on    *)
(* that it was given, and sets enabled and then the name behind them.      *)
LEMMA EditsPlanned ==
  ASSUME NEW o \in Ops
  PROVE  /\ Plan(o, Edits(o))
         /\ o.scope # None => Do("scope", o.scope) \in ToSet(Edits(o))
         /\ o.enabled # None => Do("enabled", o.enabled) \in ToSet(Edits(o))
         /\ o.name # None => Do("name", o.name) \in ToSet(Edits(o))
         /\ o.acts # {} =>
              /\ {Do("on", a) : a \in o.acts} \subseteq ToSet(Edits(o))
              /\ {Do("off", a) : a \in Supported} \subseteq ToSet(Edits(o))
              /\ "move" \in o.acts => Do("dest", o.dest) \in ToSet(Edits(o))
<1> DEFINE a1 == When(o.scope # None, Do("scope", o.scope))
           a2 == IF o.acts # {} THEN ResetLines \o ActionLines(o) ELSE <<>>
           a3 == When(o.enabled # None, Do("enabled", o.enabled))
           a4 == When(o.name # None, Do("name", o.name))
           b2 == Then(a1, a2)
           b3 == Then(b2, a3)
<1>1. o \in Asked
  BY RuleAssumption
<1>2. Plan(o, a1) /\ ToSet(a1) = IF o.scope # None THEN {Do("scope", o.scope)} ELSE {}
  BY Single DEF Fits, When
<1>3. Plan(o, a3) /\ ToSet(a3) = IF o.enabled # None THEN {Do("enabled", o.enabled)} ELSE {}
  BY Single DEF Fits, When
<1>4. Plan(o, a4) /\ ToSet(a4) = IF o.name # None THEN {Do("name", o.name)} ELSE {}
  BY Single DEF Fits, When
<1>5. /\ Plan(o, a2)
      /\ \A t \in ToSet(a2) : t.do \in {"off", "on", "dest"}
      /\ o.acts # {} =>
              /\ {Do("on", a) : a \in o.acts} \subseteq ToSet(a2)
              /\ {Do("off", a) : a \in Supported} \subseteq ToSet(a2)
              /\ "move" \in o.acts => Do("dest", o.dest) \in ToSet(a2)
  <2>1. CASE o.acts = {}
    BY <2>1 DEF Plan, Ordered, ToSet
  <2>2. CASE o.acts # {}
    <3> DEFINE off == ResetLines
               on  == ActionLines(o)
    <3>1. /\ Plan(o, off)
          /\ ToSet(off) = {Do("off", "move"), Do("off", "read"), Do("off", "delete")}
      <4>1. {Do("off", "move"), Do("off", "read"), Do("off", "delete")} \subseteq Fits(o)
        BY DEF Fits, Supported
      <4>2. ResetLines \in Seq(Fits(o)) /\ Len(ResetLines) = 3
        BY <4>1 DEF ResetLines
      <4>3. Ordered(ResetLines)
        BY <4>2 DEF Ordered, ResetLines, Undone, Do
      <4>4. ToSet(ResetLines) = {Do("off", "move"), Do("off", "read"), Do("off", "delete")}
        BY <4>2 DEF ToSet, ResetLines
      <4> QED BY <4>2, <4>3, <4>4 DEF Plan
    <3>2. /\ Plan(o, on)
          /\ {Do("on", a) : a \in o.acts} \subseteq ToSet(on)
          /\ "move" \in o.acts => Do("dest", o.dest) \in ToSet(on)
          /\ \A t \in ToSet(on) : t.do \in {"on", "dest"}
      BY <1>1, ActionLinesPlanned
    <3>3. a2 = Then(off, on)
      BY <2>2 DEF Then
    <3> HIDE DEF a2, off, on
    <3>4. Follows(off, on)
      BY <3>1, <3>2 DEF Follows, Undone, Do, Verbs
    <3>5. Plan(o, a2) /\ \A x : x \in ToSet(a2) <=> x \in ToSet(off) \/ x \in ToSet(on)
      BY <3>1, <3>2, <3>3, <3>4, Joined
    <3>6. {Do("off", a) : a \in Supported} \subseteq ToSet(off)
      BY <3>1 DEF Supported
    <3> QED BY <3>1, <3>2, <3>5, <3>6 DEF Do
  <2> HIDE DEF a2
  <2> QED BY <2>1, <2>2
<1>6. Edits(o) = Then(b3, a4)
  BY DEF Then, Edits
<1> HIDE DEF a1, a2, a3, a4, b2, b3
<1>7. Plan(o, b2) /\ \A x : x \in ToSet(b2) <=> x \in ToSet(a1) \/ x \in ToSet(a2)
  <2>1. Follows(a1, a2)
    BY <1>2, <1>5 DEF Follows, Undone, Do, Verbs
  <2>2. Plan(o, a1) /\ Plan(o, a2)
    BY <1>2, <1>5
  <2> QED BY <2>1, <2>2, Joined DEF b2
<1>8. Plan(o, b3) /\ \A x : x \in ToSet(b3) <=> x \in ToSet(b2) \/ x \in ToSet(a3)
  <2>0. /\ \A x \in ToSet(b2) : x.do \in {"scope", "off", "on", "dest"}
        /\ \A y \in ToSet(a3) : y.do \in {"enabled"}
    BY <1>2, <1>3, <1>5, <1>7 DEF Do
  <2>1. Follows(b2, a3)
    BY <2>0 DEF Follows, Undone, Verbs
  <2>2. Plan(o, b2) /\ Plan(o, a3)
    BY <1>3, <1>7
  <2> QED BY <2>1, <2>2, Joined DEF b3
<1>9. Plan(o, Then(b3, a4)) /\ \A x : x \in ToSet(Then(b3, a4)) <=> x \in ToSet(b3) \/ x \in ToSet(a4)
  <2>0. /\ \A x \in ToSet(b3) : x.do \in {"scope", "off", "on", "dest", "enabled"}
        /\ \A y \in ToSet(a4) : y.do \in {"name"}
    BY <1>2, <1>3, <1>4, <1>5, <1>7, <1>8 DEF Do
  <2>1. Follows(b3, a4)
    BY <2>0 DEF Follows, Undone, Verbs
  <2>2. Plan(o, b3) /\ Plan(o, a4)
    BY <1>4, <1>8
  <2> QED BY <2>1, <2>2, Joined
<1> QED BY <1>2, <1>3, <1>4, <1>5, <1>6, <1>7, <1>8, <1>9

-------------------------------------------------------------------------------
(* What the statements of a script can be.                                 *)
LEMMA Fitting ==
  ASSUME NEW o \in Asked, NEW t \in Fits(o)
  PROVE  /\ t = Do(t.do, t.arg) /\ t.do \in Verbs
         /\ t.do = "on" => t.arg \in o.acts
         /\ t.do = "off" => t.arg \in Supported
         /\ t.do = "dest" => t.arg = o.dest
         /\ t.do = "scope" => t.arg = o.scope /\ o.scope \in {"all", "any"}
         /\ t.do = "enabled" => t.arg = o.enabled /\ o.enabled \in BOOLEAN
         /\ t.do = "name" => t.arg = o.name /\ o.name \in Names
BY DEF Fits, Do, Verbs, Asked

(* One statement changes one property of a rule.  To turn an action off    *)
(* reverts what a script has made of enabled.                              *)
LEMMA EditedIs ==
  ASSUME NEW o \in Asked, NEW t \in Fits(o), NEW r \in Rule, NEW was \in Rule
  PROVE  LET e == Edited(r, was, t) IN
           /\ e \in Rule
           /\ e.acts = IF t.do = "on" THEN r.acts \cup {t.arg}
                       ELSE IF t.do = "off" THEN r.acts \ {t.arg} ELSE r.acts
           /\ e.dest = IF t.do = "dest" THEN t.arg ELSE r.dest
           /\ e.scope = IF t.do = "scope" THEN t.arg ELSE r.scope
           /\ e.enabled = IF t.do = "enabled" THEN t.arg
                          ELSE IF t.do = "off" THEN was.enabled ELSE r.enabled
           /\ e.name = IF t.do = "name" THEN t.arg ELSE r.name
<1> USE DEF Edited, Rule
<1>1. t.do \in {"on", "off", "dest", "scope", "enabled", "name"}
  BY Fitting DEF Verbs
<1>2. CASE t.do = "on"
  BY <1>2, Fitting DEF Asked
<1>3. CASE t.do = "off"
  BY <1>3
<1>4. CASE t.do = "dest"
  BY <1>4, Fitting DEF Asked
<1>5. CASE t.do = "scope"
  BY <1>5, Fitting
<1>6. CASE t.do = "enabled"
  BY <1>6, Fitting
<1>7. CASE t.do = "name"
  BY <1>7, Fitting
<1> QED BY <1>1, <1>2, <1>3, <1>4, <1>5, <1>6, <1>7

Runs == [list : Seq(Rule), pos : Nat, was : Rule, held : BOOLEAN,
         error : {None, "notFound", "changed", "failed"}]

(* Where a script is that edits the rule at p of the list `base`: no other *)
(* rule has changed, and this one has no new action it was not to get, all *)
(* it had which the tools do not know, and its name or the one it was to   *)
(* get.                                                                    *)
At(s, o, base, p) ==
  /\ s \in Runs /\ s.pos = p /\ s.error \in {None, "failed"}
  /\ Len(s.list) = Len(base)
  /\ \A j \in 1 .. Len(base) : j # p => s.list[j] = base[j]
  /\ s.list[p].acts \subseteq base[p].acts \cup o.acts
  /\ base[p].acts \cap Unsupported \subseteq s.list[p].acts
  /\ s.list[p].name \in {base[p].name, o.name}

(* What the statements that have run have made of the rule.                *)
Shows(s, o, p, ran) ==
  /\ Do("scope", o.scope) \in ran => s.list[p].scope = o.scope
  /\ Do("enabled", o.enabled) \in ran => s.list[p].enabled = o.enabled
  /\ Do("name", o.name) \in ran => s.list[p].name = o.name
  /\ Do("dest", o.dest) \in ran => s.list[p].dest = o.dest
  /\ \A a \in o.acts : Do("on", a) \in ran => a \in s.list[p].acts
  /\ \A a \in Supported \ o.acts : Do("off", a) \in ran => a \notin s.list[p].acts
  /\ s.held \/ \E u \in ran : u.do = "name"

(* A further statement of a plan keeps both.                               *)
LEMMA EditStep ==
  ASSUME NEW o \in Asked, NEW t \in Fits(o), NEW base \in Seq(Rule), NEW p \in 1 .. Len(base),
         NEW s, At(s, o, base, p), NEW ran, s.error = None => Shows(s, o, p, ran),
         \A u \in ran : <<u.do, t.do>> \notin Undone
  PROVE  LET next == Statement(s, t) IN
           /\ At(next, o, base, p)
           /\ next.error = None => Shows(next, o, p, ran \cup {t})
<1> DEFINE next == Statement(s, t)
<1>1. CASE s.error # None
  BY <1>1 DEF Statement
<1>2. CASE s.error = None
  <2>0. /\ s \in Runs /\ s.list \in Seq(Rule) /\ DOMAIN s.list = 1 .. Len(base)
        /\ s.list[p] \in Rule /\ s.was \in Rule /\ s.pos = p
    BY DEF At, Runs
  <2>1. /\ t.do \in Verbs
        /\ t.do = "on" => t.arg \in o.acts
        /\ t.do = "off" => t.arg \in Supported
        /\ t.do = "dest" => t.arg = o.dest
        /\ t.do = "scope" => t.arg = o.scope
        /\ t.do = "enabled" => t.arg = o.enabled
        /\ t.do = "name" => t.arg = o.name
    BY Fitting
  <2>2. s.held
    BY <1>2, <2>1 DEF Shows, Undone
  <2>3. t.do \notin {"make", "guard", "remove"}
    BY <2>1 DEF Verbs
  <2>4. CASE t.do = "dest" /\ t.arg \in Lost
    <3>1. next = [s EXCEPT !.error = "failed"]
      BY <1>2, <2>0, <2>2, <2>3, <2>4 DEF Statement
    <3>2. At(next, o, base, p)
      BY <2>0, <3>1 DEF At, Runs
    <3>3. next.error # None
      BY <2>0, <3>1, RuleAssumption DEF Ended, Runs
    <3> QED BY <3>2, <3>3
  <2>5. CASE ~ (t.do = "dest" /\ t.arg \in Lost)
    <3> DEFINE e == Edited(s.list[p], s.was, t)
    <3>1. next = [s EXCEPT !.list[s.pos] = e, !.held = t.do # "name"]
      BY <1>2, <2>0, <2>2, <2>3, <2>5 DEF Statement
    <3>2. /\ e \in Rule
          /\ e.acts = IF t.do = "on" THEN s.list[p].acts \cup {t.arg}
                      ELSE IF t.do = "off" THEN s.list[p].acts \ {t.arg} ELSE s.list[p].acts
          /\ e.dest = IF t.do = "dest" THEN t.arg ELSE s.list[p].dest
          /\ e.scope = IF t.do = "scope" THEN t.arg ELSE s.list[p].scope
          /\ t.do = "enabled" => e.enabled = t.arg
          /\ t.do \notin {"enabled", "off"} => e.enabled = s.list[p].enabled
          /\ e.name = IF t.do = "name" THEN t.arg ELSE s.list[p].name
      <4>1. \A r \in Rule, was \in Rule :
              LET x == Edited(r, was, t) IN
              /\ x \in Rule
              /\ x.acts = IF t.do = "on" THEN r.acts \cup {t.arg}
                          ELSE IF t.do = "off" THEN r.acts \ {t.arg} ELSE r.acts
              /\ x.dest = IF t.do = "dest" THEN t.arg ELSE r.dest
              /\ x.scope = IF t.do = "scope" THEN t.arg ELSE r.scope
              /\ x.enabled = IF t.do = "enabled" THEN t.arg
                             ELSE IF t.do = "off" THEN was.enabled ELSE r.enabled
              /\ x.name = IF t.do = "name" THEN t.arg ELSE r.name
        BY EditedIs
      <4> QED BY <2>0, <4>1
    <3> HIDE DEF e, next
    <3>3. /\ next.list = [s.list EXCEPT ![p] = e] /\ next.pos = p
          /\ next.held = (t.do # "name") /\ next.error = None
          /\ next.list[p] = e
          /\ next \in Runs
      <4>1. [s.list EXCEPT ![p] = e] \in Seq(Rule) /\ [s.list EXCEPT ![p] = e][p] = e
        BY <2>0, <3>2
      <4>2. next = [s EXCEPT !.list = [s.list EXCEPT ![p] = e], !.held = t.do # "name"]
        BY <2>0, <3>1 DEF Runs
      <4> QED BY <1>2, <2>0, <4>1, <4>2 DEF Runs
    <3>4. At(next, o, base, p)
      <4>1. Len(next.list) = Len(base)
        BY <2>0, <3>3 DEF At
      <4>2. \A j \in 1 .. Len(base) : j # p => next.list[j] = base[j]
        BY <2>0, <3>3 DEF At
      <4>3. e.acts \subseteq base[p].acts \cup o.acts
        BY <2>1, <3>2 DEF At
      <4>4. base[p].acts \cap Unsupported \subseteq e.acts
        BY <2>1, <3>2 DEF At, Supported, Unsupported
      <4>5. e.name \in {base[p].name, o.name}
        BY <2>1, <3>2 DEF At
      <4> QED BY <3>3, <4>1, <4>2, <4>3, <4>4, <4>5 DEF At
    <3>5. Shows(next, o, p, ran \cup {t})
      <4> USE DEF Shows, Do
      <4>1. Do("scope", o.scope) \in ran \cup {t} => e.scope = o.scope
        BY <1>2, <2>1, <3>2
      <4>2. Do("enabled", o.enabled) \in ran \cup {t} => e.enabled = o.enabled
        <5>1. CASE Do("enabled", o.enabled) \in ran
          <6>1. t.do # "off"
            BY <5>1 DEF Undone
          <6> QED BY <1>2, <2>1, <3>2, <5>1, <6>1
        <5> QED BY <2>1, <3>2, <5>1
      <4>3. Do("name", o.name) \in ran \cup {t} => e.name = o.name
        BY <1>2, <2>1, <3>2
      <4>4. Do("dest", o.dest) \in ran \cup {t} => e.dest = o.dest
        BY <1>2, <2>1, <3>2
      <4>5. ASSUME NEW a \in o.acts, Do("on", a) \in ran \cup {t} PROVE a \in e.acts
        <5>1. CASE Do("on", a) \in ran
          <6>1. t.do # "off"
            BY <5>1 DEF Undone
          <6> QED BY <1>2, <3>2, <5>1, <6>1
        <5> QED BY <3>2, <4>5, <5>1
      <4>6. ASSUME NEW a \in Supported \ o.acts, Do("off", a) \in ran \cup {t}
            PROVE  a \notin e.acts
        <5>1. CASE Do("off", a) \in ran
          BY <1>2, <2>1, <3>2, <5>1
        <5> QED BY <3>2, <4>6, <5>1
      <4>7. next.held \/ \E u \in ran \cup {t} : u.do = "name"
        BY <3>3
      <4> HIDE DEF Do
      <4> QED BY <3>3, <4>1, <4>2, <4>3, <4>4, <4>5, <4>6, <4>7
    <3> QED BY <3>4, <3>5 DEF next
  <2> QED BY <2>4, <2>5
<1> QED BY <1>1, <1>2

(* So does a run of the statements behind the first of a script.           *)
LEMMA PlanRuns ==
  ASSUME NEW o \in Asked, NEW plan, Plan(o, plan), NEW base \in Seq(Rule), NEW p \in 1 .. Len(base),
         NEW f, At(f[1], o, base, p), f[1].held,
         \A n \in 1 .. Len(plan) : f[n + 1] = Statement(f[n], plan[n])
  PROVE  \A n \in 0 .. Len(plan) :
           /\ At(f[n + 1], o, base, p)
           /\ f[n + 1].error = None => Shows(f[n + 1], o, p, {plan[m] : m \in 1 .. n})
<1> DEFINE ran(n) == {plan[m] : m \in 1 .. n}
           Good(n) == /\ At(f[n + 1], o, base, p)
                      /\ f[n + 1].error = None => Shows(f[n + 1], o, p, ran(n))
           P == {n \in 0 .. Len(plan) : Good(n)}
<1>1. plan \in Seq(Fits(o)) /\ Len(plan) \in Nat /\ \A n \in 1 .. Len(plan) : plan[n] \in Fits(o)
  BY DEF Plan
<1>2. 0 \in P
  <2>1. ran(0) = {}
    OBVIOUS
  <2>2. Shows(f[1], o, p, {})
    BY DEF Shows
  <2> HIDE DEF ran
  <2>3. Good(0)
    <3>1. 0 + 1 = 1
      OBVIOUS
    <3> QED BY <2>1, <2>2, <3>1
  <2> HIDE DEF Good
  <2> QED BY <1>1, <2>3
<1>3. ASSUME NEW n \in 1 .. Len(plan), n - 1 \in P PROVE n \in P
  <2>1. (n - 1) + 1 = n /\ n \in Nat
    BY <1>1
  <2>2. At(f[n], o, base, p) /\ (f[n].error = None => Shows(f[n], o, p, ran(n - 1)))
    <3> HIDE DEF ran
    <3> QED BY <1>3, <2>1
  <2>3. \A u \in ran(n - 1) : <<u.do, plan[n].do>> \notin Undone
    <3>1. ASSUME NEW m \in 1 .. n - 1 PROVE <<plan[m].do, plan[n].do>> \notin Undone
      <4>1. m \in 1 .. Len(plan) /\ m < n
        BY <1>1
      <4> QED BY <4>1 DEF Plan, Ordered
    <3> QED BY <3>1
  <2>4. ran(n) = ran(n - 1) \cup {plan[n]}
    <3>1. 1 .. n = 1 .. n - 1 \cup {n}
      BY <2>1
    <3> QED BY <3>1
  <2>5. f[n + 1] = Statement(f[n], plan[n]) /\ plan[n] \in Fits(o)
    BY <1>1
  <2> HIDE DEF ran
  <2>6. Good(n)
    <3> DEFINE s == f[n]
               t == plan[n]
               before == ran(n - 1)
    <3>1. /\ t \in Fits(o) /\ At(s, o, base, p) /\ (s.error = None => Shows(s, o, p, before))
          /\ \A u \in before : <<u.do, t.do>> \notin Undone
      BY <2>2, <2>3, <2>5
    <3> HIDE DEF s, t, before
    <3>2. /\ At(Statement(s, t), o, base, p)
          /\ Statement(s, t).error = None => Shows(Statement(s, t), o, p, before \cup {t})
      BY <3>1, EditStep
    <3> QED BY <2>4, <2>5, <3>2 DEF s, t, before
  <2> HIDE DEF Good
  <2> QED BY <2>6, <1>1
<1>4. 0 .. Len(plan) \subseteq P
  <2> HIDE DEF P
  <2>1. 0 + 1 .. Len(plan) = 1 .. Len(plan)
    BY <1>1
  <2> QED BY <1>1, <1>2, <1>3, <2>1, Along
<1> QED BY <1>4

(* A script's first statement, and those behind it.                        *)
LEMMA FirstAndRest ==
  ASSUME NEW S, NEW plan \in Seq(S), NEW first, NEW start
  PROVE  LET script == <<first>> \o plan
             f == Ran(script, start)
         IN
           /\ Len(script) \in Nat /\ Len(script) = Len(plan) + 1
           /\ f[0] = start
           /\ f[1] = Statement(start, first)
           /\ \A n \in 1 .. Len(plan) : f[n + 1] = Statement(f[n], plan[n])
<1> DEFINE script == <<first>> \o plan
<1>1. /\ Len(script) \in Nat /\ Len(script) = Len(plan) + 1 /\ Len(plan) \in Nat
      /\ script[1] = first
      /\ \A n \in 1 .. Len(plan) : script[n + 1] = plan[n]
  <2>1. Len(<<first>>) = 1 /\ <<first>> \in Seq({first}) /\ <<first>>[1] = first
    OBVIOUS
  <2> QED BY <2>1
<1> DEFINE f == Ran(script, start)
<1>2. f[0] = start /\ \A n \in 1 .. Len(script) : f[n] = Statement(f[n - 1], script[n])
  <2>1. Len(script) \in Nat
    BY <1>1
  <2> HIDE DEF script
  <2> QED BY <2>1, RanStepwise
<1>3. f[1] = Statement(start, first)
  <2> HIDE DEF f, script
  <2> QED BY <1>1, <1>2
<1>4. ASSUME NEW n \in 1 .. Len(plan) PROVE f[n + 1] = Statement(f[n], plan[n])
  <2>1. n + 1 \in 1 .. Len(script) /\ (n + 1) - 1 = n
    BY <1>1
  <2> HIDE DEF f, script
  <2> QED BY <1>1, <1>2, <2>1
<1> QED BY <1>1, <1>2, <1>3, <1>4

(* A script that has failed is over.                                       *)
LEMMA Stuck ==
  ASSUME NEW f, NEW len \in Nat, NEW plan, f[1].error # None,
         \A n \in 1 .. len : f[n + 1] = Statement(f[n], plan[n])
  PROVE  \A n \in 0 .. len : f[n + 1] = f[1]
<1> DEFINE P == {n \in 0 .. len : f[n + 1] = f[1]}
<1>1. 0 \in P
  OBVIOUS
<1>2. ASSUME NEW n \in 1 .. len, n - 1 \in P PROVE n \in P
  <2>1. (n - 1) + 1 = n
    OBVIOUS
  <2>2. f[n] = f[1]
    BY <1>2, <2>1
  <2>3. f[n + 1] = Statement(f[1], plan[n])
    BY <2>2
  <2>4. f[n + 1] = f[1]
    BY <2>3 DEF Statement
  <2> QED BY <2>4
<1>3. 0 .. len \subseteq P
  <2> HIDE DEF P
  <2>1. 0 + 1 .. len = 1 .. len
    OBVIOUS
  <2> QED BY <1>1, <1>2, <2>1, Along
<1> QED BY <1>3

Start(list, i, was) == [list |-> list, pos |-> i, was |-> was, held |-> TRUE, error |-> None]

(* create_rule's script after k statements: nothing, or a rule at the end  *)
(* of the list with some of what it was asked for; all of it when none has *)
(* failed and all have run.                                                *)
LEMMA CreateRuns ==
  ASSUME NEW o \in Ops, o.tool = "create", NEW list \in Seq(Rule), NEW k \in Nat
  PROVE  LET script == <<Do("make", NewRule(o))>> \o Settings(o)
             start  == Start(list, 0, NewRule(o))
             end    == Ran(script, start)[k]
             base   == Append(list, NewRule(o))
             p      == Len(list) + 1
         IN  /\ Len(script) \in Nat
             /\ NewRule(o) \in Rule /\ base \in Seq(Rule) /\ p \in 1 .. Len(base) /\ base[p] = NewRule(o)
             /\ k = 0 => end = start
             /\ k \in 1 .. Len(script) => At(end, o, base, p)
             /\ k = Len(script) /\ end.error = None => Shows(end, o, p, ToSet(Settings(o)))
<1> DEFINE plan   == Settings(o)
           script == <<Do("make", NewRule(o))>> \o plan
           start  == Start(list, 0, NewRule(o))
           f      == Ran(script, start)
           base   == Append(list, NewRule(o))
           p      == Len(list) + 1
<1>1. o \in Asked /\ o.name \in Names
  BY RuleAssumption DEF Asked
<1>2. NewRule(o) \in Rule
  BY <1>1 DEF NewRule, Rule
<1>3. Plan(o, plan) /\ plan \in Seq(Fits(o)) /\ Len(plan) \in Nat
  BY SettingsPlanned DEF Plan
<1>4. /\ Len(script) \in Nat /\ Len(script) = Len(plan) + 1
      /\ f[0] = start
      /\ f[1] = Statement(start, Do("make", NewRule(o)))
      /\ \A n \in 1 .. Len(plan) : f[n + 1] = Statement(f[n], plan[n])
  <2> HIDE DEF plan, start
  <2> QED BY <1>3, FirstAndRest
<1>5. base \in Seq(Rule) /\ Len(base) = p /\ p \in 1 .. Len(base) /\ base[p] = NewRule(o)
  BY <1>2
<1>6. f[1] = [start EXCEPT !.list = base, !.pos = p]
  BY <1>4 DEF Statement, Start, Do
<1>7. At(f[1], o, base, p) /\ f[1].held
  <2> HIDE DEF f
  <2>1. f[1] = [list |-> base, pos |-> p, was |-> NewRule(o), held |-> TRUE, error |-> None]
    BY <1>6 DEF Start
  <2>2. f[1] \in Runs
    BY <1>2, <1>5, <2>1 DEF Runs
  <2> HIDE DEF base, p
  <2> QED BY <1>2, <1>5, <2>1, <2>2 DEF At
<1> HIDE DEF f, script, start, base, p, plan
<1>8. \A n \in 0 .. Len(plan) :
        /\ At(f[n + 1], o, base, p)
        /\ f[n + 1].error = None => Shows(f[n + 1], o, p, {plan[m] : m \in 1 .. n})
  BY <1>1, <1>3, <1>4, <1>5, <1>7, PlanRuns
<1>9. {plan[m] : m \in 1 .. Len(plan)} = ToSet(plan)
  BY <1>3 DEF ToSet
<1>10. ASSUME k \in 1 .. Len(script)
       PROVE  /\ At(f[k], o, base, p)
              /\ k = Len(script) /\ f[k].error = None => Shows(f[k], o, p, ToSet(plan))
  <2>1. k - 1 \in 0 .. Len(plan) /\ (k - 1) + 1 = k /\ (k = Len(script) => k - 1 = Len(plan))
    BY <1>3, <1>4, <1>10
  <2> QED BY <1>8, <1>9, <2>1
<1>11. Len(script) # 0
  BY <1>3, <1>4
<1> QED BY <1>2, <1>4, <1>5, <1>10, <1>11 DEF f, script, start, base, p, plan

(* The guard lets a script pass only at a rule of the name it was given.   *)
LEMMA Guarded ==
  ASSUME NEW list \in Seq(Rule), NEW i \in 1 .. Len(list), NEW name
  PROVE  LET next == Statement(Start(list, i, list[i]), Do("guard", name)) IN
           IF list[i].name = name THEN next = Start(list, i, list[i])
           ELSE next.error = "changed" /\ next.list = list
<1> DEFINE s == Start(list, i, list[i])
           t == Do("guard", name)
           next == Statement(s, t)
<1>1. s.error = None /\ s.held /\ s.pos = i /\ s.list = list /\ i \in DOMAIN list
  BY DEF Start
<1>2. t.do = "guard" /\ t.arg = name
  BY DEF Do
<1>3. CASE list[i].name # name
  <2>1. next = [s EXCEPT !.error = "changed"]
    <3> HIDE DEF s, t
    <3> QED BY <1>1, <1>2, <1>3 DEF Statement
  <2> QED BY <1>3, <2>1 DEF Start
<1>4. CASE list[i].name = name
  <2>1. next = [s EXCEPT !.list[s.pos] = Edited(@, s.was, t), !.held = t.do # "name"]
    <3> HIDE DEF s, t
    <3> QED BY <1>1, <1>2, <1>4 DEF Statement
  <2>2. Edited(list[i], s.was, t) = list[i]
    BY <1>2 DEF Edited
  <2>3. [list EXCEPT ![i] = list[i]] = list
    OBVIOUS
  <2>4. next = [s EXCEPT !.list = [list EXCEPT ![i] = Edited(list[i], s.was, t)], !.held = TRUE]
    <3> HIDE DEF t
    <3> QED BY <1>1, <1>2, <2>1 DEF Start
  <2>5. next = [s EXCEPT !.list = list, !.held = TRUE]
    BY <2>2, <2>3, <2>4
  <2>6. next = s
    BY <2>5 DEF Start
  <2> QED BY <1>4, <2>6
<1> QED BY <1>3, <1>4

(* update_rule's script after k statements: nothing, or some edits of the  *)
(* rule at the position, which had the name that was looked up; all of     *)
(* them when none has failed and all have run.                             *)
LEMMA UpdateRuns ==
  ASSUME NEW o \in Ops, NEW list \in Seq(Rule), NEW i \in 1 .. Len(list), NEW name, NEW k \in Nat
  PROVE  LET script == <<Do("guard", name)>> \o Edits(o)
             start  == Start(list, i, list[i])
             end    == Ran(script, start)[k]
         IN  /\ Len(script) \in Nat
             /\ k = 0 => end = start
             /\ k \in 1 .. Len(script) =>
                  IF list[i].name = name THEN At(end, o, list, i)
                  ELSE end.list = list /\ end.error = "changed"
             /\ k = Len(script) /\ end.error = None => Shows(end, o, i, ToSet(Edits(o)))
<1> DEFINE plan   == Edits(o)
           script == <<Do("guard", name)>> \o plan
           start  == Start(list, i, list[i])
           f      == Ran(script, start)
<1>1. o \in Asked
  BY RuleAssumption
<1>3. Plan(o, plan) /\ plan \in Seq(Fits(o)) /\ Len(plan) \in Nat
  BY EditsPlanned DEF Plan
<1>4. /\ Len(script) \in Nat /\ Len(script) = Len(plan) + 1
      /\ f[0] = start
      /\ f[1] = Statement(start, Do("guard", name))
      /\ \A n \in 1 .. Len(plan) : f[n + 1] = Statement(f[n], plan[n])
  <2> HIDE DEF plan, start
  <2> QED BY <1>3, FirstAndRest
<1>5. IF list[i].name = name THEN f[1] = start
      ELSE f[1].error = "changed" /\ f[1].list = list
  <2> HIDE DEF f
  <2> QED BY <1>4, Guarded
<1> HIDE DEF f, script, plan
<1>6. ASSUME k \in 1 .. Len(script)
      PROVE  k - 1 \in 0 .. Len(plan) /\ (k - 1) + 1 = k /\ (k = Len(script) => k - 1 = Len(plan))
  BY <1>3, <1>4, <1>6
<1>7. CASE list[i].name = name
  <2>1. At(f[1], o, list, i) /\ f[1].held
    <3>1. start \in Runs
      BY DEF Start, Runs
    <3> QED BY <1>5, <1>7, <3>1 DEF At, Start
  <2> HIDE DEF start
  <2>2. \A n \in 0 .. Len(plan) :
          /\ At(f[n + 1], o, list, i)
          /\ f[n + 1].error = None => Shows(f[n + 1], o, i, {plan[m] : m \in 1 .. n})
    BY <1>1, <1>3, <1>4, <2>1, PlanRuns
  <2>3. {plan[m] : m \in 1 .. Len(plan)} = ToSet(plan)
    BY <1>3 DEF ToSet
  <2>4. ASSUME k \in 1 .. Len(script)
        PROVE  /\ At(f[k], o, list, i)
               /\ k = Len(script) /\ f[k].error = None => Shows(f[k], o, i, ToSet(plan))
    BY <1>6, <2>2, <2>3, <2>4
  <2>5. Len(script) # 0
    BY <1>3, <1>4
  <2> QED BY <1>4, <1>7, <2>4, <2>5 DEF f, script, start, plan
<1>8. CASE list[i].name # name
  <2>1. f[1].error # None
    BY <1>5, <1>8, RuleAssumption DEF Ended, Refused
  <2>2. \A n \in 0 .. Len(plan) : f[n + 1] = f[1]
    BY <1>3, <1>4, <2>1, Stuck
  <2>3. ASSUME k \in 1 .. Len(script) PROVE f[k] = f[1]
    BY <1>6, <2>2, <2>3
  <2>5. Len(script) # 0
    BY <1>3, <1>4
  <2>6. k = Len(script) => f[k].error # None
    BY <1>4, <2>1, <2>3, <2>5
  <2> QED BY <1>4, <1>5, <1>8, <2>3, <2>6 DEF f, script, start, plan
<1> QED BY <1>7, <1>8

(* delete_rule's script: the rule goes with the last statement, and had    *)
(* the name that was looked up.                                            *)
LEMMA DeleteRuns ==
  ASSUME NEW list \in Seq(Rule), NEW i \in 1 .. Len(list), NEW name, NEW k \in Nat
  PROVE  LET script == <<Do("guard", name)>> \o <<Do("remove", None)>>
             start  == Start(list, i, list[i])
             end    == Ran(script, start)[k]
         IN  /\ Len(script) = 2
             /\ k \in 0 .. 1 => end.list = list
             /\ k \in 0 .. 2 =>
                  \/ end.list = list /\ (end.error = None \/ end.error = "changed")
                  \/ list[i].name = name /\ end.list = RemoveAt(list, i) /\ end.error = None
<1> DEFINE S      == {Do("remove", None)}
           plan   == <<Do("remove", None)>>
           script == <<Do("guard", name)>> \o plan
           start  == Start(list, i, list[i])
           f      == Ran(script, start)
<1>1. plan \in Seq(S) /\ Len(plan) = 1 /\ plan[1] = Do("remove", None)
  OBVIOUS
<1>2. /\ Len(script) = 2
      /\ f[0] = start
      /\ f[1] = Statement(start, Do("guard", name))
      /\ f[2] = Statement(f[1], Do("remove", None))
  <2> HIDE DEF S, plan, start
  <2>0. plan \in Seq(S)
    BY <1>1
  <2>1. /\ Len(script) = Len(plan) + 1
        /\ f[0] = start
        /\ f[1] = Statement(start, Do("guard", name))
        /\ \A n \in 1 .. Len(plan) : f[n + 1] = Statement(f[n], plan[n])
    BY <2>0, FirstAndRest
  <2>2. f[1 + 1] = Statement(f[1], plan[1]) /\ 1 + 1 = 2
    BY <1>1, <2>1
  <2> QED BY <1>1, <2>1, <2>2
<1>3. IF list[i].name = name THEN f[1] = start
      ELSE f[1].error = "changed" /\ f[1].list = list
  <2> HIDE DEF f
  <2> QED BY <1>2, Guarded
<1>4. CASE list[i].name = name
  <2> HIDE DEF f
  <2>1. start.error = None /\ start.held /\ start.pos = i /\ start.list = list /\ i \in DOMAIN list
    BY DEF Start
  <2>2. f[2] = [start EXCEPT !.list = RemoveAt(list, i)]
    <3> HIDE DEF start
    <3> QED BY <1>2, <1>3, <1>4, <2>1 DEF Statement, Do
  <2>3. f[2].list = RemoveAt(list, i) /\ f[2].error = None
    BY <2>2 DEF Start
  <2> HIDE DEF start
  <2>4. k \in 0 .. 2 => k = 0 \/ k = 1 \/ k = 2
    OBVIOUS
  <2>5. /\ k \in 0 .. 1 => f[k].list = list
        /\ k \in 0 .. 2 =>
             \/ f[k].list = list /\ (f[k].error = None \/ f[k].error = "changed")
             \/ list[i].name = name /\ f[k].list = RemoveAt(list, i) /\ f[k].error = None
    <3>1. f[0].list = list /\ f[0].error = None /\ f[1].list = list /\ f[1].error = None
      BY <1>2, <1>3, <1>4, <2>1
    <3>2. k \in 0 .. 1 => k = 0 \/ k = 1
      OBVIOUS
    <3> QED BY <1>4, <2>3, <2>4, <3>1, <3>2
  <2> QED BY <1>2, <2>5 DEF f, script, plan, start
<1>5. CASE list[i].name # name
  <2> HIDE DEF f
  <2>1. f[1].error # None
    BY <1>3, <1>5, RuleAssumption DEF Ended, Refused
  <2>2. f[2] = f[1]
    BY <1>2, <2>1 DEF Statement
  <2>3. f[0].list = list /\ f[0].error = None
    BY <1>2 DEF Start
  <2>4. k \in 0 .. 2 => k = 0 \/ k = 1 \/ k = 2
    OBVIOUS
  <2> QED BY <1>2, <1>3, <1>5, <2>2, <2>3, <2>4 DEF f
<1> QED BY <1>4, <1>5

(* A script for a position where there is no rule changes nothing.         *)
LEMMA MissRuns ==
  ASSUME NEW S, NEW plan \in Seq(S), NEW name, NEW was, NEW list \in Seq(Rule), NEW k \in Nat
  PROVE  LET script == <<Do("guard", name)>> \o plan
             end    == Ran(script, Start(list, 0, was))[k]
         IN  /\ Len(script) \in Nat
             /\ k \in 0 .. Len(script) => end.list = list /\ end.error \in {None, "notFound"}
<1> DEFINE script == <<Do("guard", name)>> \o plan
           start  == Start(list, 0, was)
           f      == Ran(script, start)
<1>1. /\ Len(script) \in Nat /\ Len(script) = Len(plan) + 1 /\ Len(plan) \in Nat
      /\ f[0] = start
      /\ f[1] = Statement(start, Do("guard", name))
      /\ \A n \in 1 .. Len(plan) : f[n + 1] = Statement(f[n], plan[n])
  <2> HIDE DEF start
  <2> QED BY FirstAndRest
<1>2. f[1] = [start EXCEPT !.error = "notFound"]
  <2> HIDE DEF f
  <2>1. start.error = None /\ start.pos \notin DOMAIN start.list
    BY DEF Start
  <2> DEFINE t == Do("guard", name)
  <2>2. t.do = "guard"
    BY DEF Do
  <2> HIDE DEF start, t
  <2>3. Statement(start, t) = [start EXCEPT !.error = "notFound"]
    BY <2>1, <2>2 DEF Statement
  <2> QED BY <1>1, <2>3 DEF t
<1>3. /\ f[1].error = "notFound" /\ f[1].list = list
      /\ f[0].error = None /\ f[0].list = list
  <2> HIDE DEF f
  <2> QED BY <1>1, <1>2 DEF Start
<1> HIDE DEF f, script, start
<1>4. f[1].error # None
  BY <1>3, RuleAssumption DEF Ended, Refused
<1>5. \A n \in 0 .. Len(plan) : f[n + 1] = f[1]
  BY <1>1, <1>4, Stuck
<1>6. ASSUME k \in 0 .. Len(script) PROVE f[k] = f[0] \/ f[k] = f[1]
  <2>1. CASE k # 0
    <3>1. k - 1 \in 0 .. Len(plan) /\ (k - 1) + 1 = k
      BY <1>1, <1>6, <2>1
    <3>2. f[(k - 1) + 1] = f[1]
      BY <1>5, <3>1
    <3> QED BY <3>1, <3>2
  <2> QED BY <2>1
<1> QED BY <1>1, <1>3, <1>6 DEF f, script, start

-------------------------------------------------------------------------------
(* The list holds rules, calls are at the labels of the code, and what a   *)
(* call has changed was a rule and is one.                                 *)
TypeOK ==
  /\ modern \in BOOLEAN
  /\ rules \in Seq(Rule)
  /\ pc \in [Calls -> {"new", "lookup", "gate", "check", "script"} \cup Ended]
  /\ op \in [Calls -> Ops \cup {None}]
  /\ looked \in [Calls -> Names \cup {None}]
  /\ hit \in [Calls -> Rule \cup {None}]
  /\ left \in [Calls -> Rule \cup {None}]

(* A call comes to its scripts only with the yes it needs, and has changed *)
(* nothing before they run.                                                *)
Gated(c) ==
  /\ pc[c] # "new" => op[c] \in Ops
  /\ pc[c] = "lookup" => op[c].tool # "create"
  /\ pc[c] = "check" => op[c].tool = "update"
  /\ pc[c] \in {"check", "script"} /\ NeedsYes(op[c]) => Shown(c) \in said
  /\ pc[c] \in {"new", "lookup", "gate", "check", "script"} \cup Refused =>
       hit[c] = None /\ left[c] = None

(* The invariants, for one call.                                           *)
Confirmed(c) ==
  hit[c] # None => hit[c].name = looked[c] /\ (NeedsYes(op[c]) => Shown(c) \in said)

Harmless(c) ==
  left[c] # None =>
    LET before == IF hit[c] = None THEN {} ELSE hit[c].acts
    IN  (left[c].acts \ before) \cap {"move", "delete"} # {} => Shown(c) \in said

Done(c) ==
  pc[c] = "ok" /\ left[c] # None =>
    LET o == op[c] IN
      /\ o.name # None => left[c].name = o.name
      /\ o.enabled # None => left[c].enabled = o.enabled
      /\ o.scope # None => left[c].scope = o.scope
      /\ o.acts # {} => left[c].acts \cap Supported = o.acts
      /\ "move" \in o.acts => left[c].dest = o.dest
      /\ hit[c] # None => hit[c].acts \cap Unsupported \subseteq left[c].acts

CallInv(c) == Gated(c) /\ Confirmed(c) /\ Harmless(c) /\ Done(c)

IInv == TypeOK /\ \A c \in Calls : CallInv(c)

(* It holds at first.                                                      *)
LEMMA InitIInv == Init => IInv
<1> SUFFICES ASSUME Init PROVE IInv
  OBVIOUS
<1>1. TypeOK
  BY RuleAssumption DEF Init, TypeOK
<1>2. \A c \in Calls : CallInv(c)
  BY DEF Init, CallInv, Gated, Confirmed, Harmless, Done
<1> QED BY <1>1, <1>2 DEF IInv

(* What concerns a call stays true while the call does nothing.            *)
Rests(d) ==
  /\ pc'[d] = pc[d] /\ op'[d] = op[d] /\ looked'[d] = looked[d]
  /\ hit'[d] = hit[d] /\ left'[d] = left[d]

LEMMA OthersKeep ==
  ASSUME NEW d \in Calls, CallInv(d), Rests(d), said \subseteq said'
  PROVE  CallInv(d)'
<1>1. Shown(d)' = Shown(d)
  BY DEF Rests, Shown
<1>2. Gated(d)'
  BY <1>1 DEF CallInv, Gated, Rests
<1>3. Confirmed(d)'
  BY <1>1 DEF CallInv, Confirmed, Rests
<1>4. Harmless(d)'
  BY <1>1 DEF CallInv, Harmless, Rests
<1>5. Done(d)'
  BY DEF CallInv, Done, Rests
<1> QED BY <1>2, <1>3, <1>4, <1>5 DEF CallInv

(* Before the scripts a step of a call only has to keep its gate.          *)
LEMMA BeforeScripts ==
  ASSUME IInv, NEW c \in Calls, \A d \in Calls \ {c} : Rests(d), said \subseteq said',
         UNCHANGED <<hit, left>>, hit[c] = None, left[c] = None, TypeOK', Gated(c)'
  PROVE  IInv'
<1>1. ASSUME NEW d \in Calls \ {c} PROVE CallInv(d)'
  BY OthersKeep DEF IInv
<1>2. CallInv(c)'
  BY DEF CallInv, Confirmed, Harmless, Done
<1> QED BY <1>1, <1>2 DEF IInv

(* The tools' gates.                                                       *)
LEMMA StepRequest ==
  ASSUME IInv, NEW c \in Calls, NEW o \in Ops, Request(c, o)
  PROVE  IInv'
<1> USE DEF Request, Goto
<1>1. TypeOK'
  BY DEF IInv, TypeOK
<1>2. \A d \in Calls \ {c} : Rests(d)
  BY DEF IInv, TypeOK, Rests
<1>3. hit[c] = None /\ left[c] = None
  BY DEF IInv, CallInv, Gated
<1>4. pc'[c] \in {"gate", "lookup"} /\ op'[c] = o /\ (pc'[c] = "lookup" => o.tool # "create")
  BY DEF IInv, TypeOK
<1>5. Gated(c)'
  BY <1>3, <1>4 DEF Gated
<1> QED BY <1>1, <1>2, <1>3, <1>5, BeforeScripts

(* The look-up, with which what is asked of the user is fixed.             *)
LEMMA StepLookUp ==
  ASSUME IInv, NEW c \in Calls, LookUp(c)
  PROVE  IInv'
<1> USE DEF LookUp, Goto
<1>1. TypeOK'
  <2>1. op[c].at \in DOMAIN rules => rules[op[c].at].name \in Names
    <3>1. rules \in Seq(Rule)
      BY DEF IInv, TypeOK
    <3>2. op[c].at \in DOMAIN rules => rules[op[c].at] \in Rule
      BY <3>1
    <3> QED BY <3>2 DEF Rule
  <2>2. looked' \in [Calls -> Names \cup {None}]
    <3> DEFINE name == rules[op[c].at].name
    <3> HIDE DEF name
    <3>1. looked' = looked \/ (name \in Names /\ looked' = [looked EXCEPT ![c] = name])
      BY <2>1 DEF name
    <3> QED BY <3>1 DEF IInv, TypeOK
  <2>3. pc' \in [Calls -> {"new", "lookup", "gate", "check", "script"} \cup Ended]
    BY DEF IInv, TypeOK, Ended, Refused
  <2> QED BY <2>2, <2>3 DEF IInv, TypeOK
<1>2. \A d \in Calls \ {c} : Rests(d)
  BY DEF IInv, TypeOK, Rests
<1>3. hit[c] = None /\ left[c] = None
  BY DEF IInv, CallInv, Gated
<1>4. pc'[c] \in {"gate", "notFound"} /\ op[c] \in Ops
  BY DEF IInv, TypeOK, CallInv, Gated
<1>5. Gated(c)'
  BY <1>3, <1>4 DEF Gated
<1> QED BY <1>1, <1>2, <1>3, <1>5, BeforeScripts

(* Past the gate a call is refused, or at its scripts.                     *)
LEMMA PastGate ==
  ASSUME NEW c \in Calls, op[c] \in Ops
  PROVE  /\ Past(c) \in {"unsupported", "invalid", "check", "script"}
         /\ Past(c) = "check" => op[c].tool = "update"
BY DEF Past

(* What needs no yes, the yes, the no and the check of the action's target.*)
LEMMA StepUnasked ==
  ASSUME IInv, NEW c \in Calls, Unasked(c)
  PROVE  IInv'
<1> USE DEF Unasked, Goto, call
<1>0. op[c] \in Ops
  BY DEF IInv, CallInv, Gated
<1>1. TypeOK'
  BY <1>0, PastGate DEF IInv, TypeOK, Ended, Refused
<1>2. \A d \in Calls \ {c} : Rests(d)
  BY DEF IInv, TypeOK, Rests
<1>3. hit[c] = None /\ left[c] = None
  BY DEF IInv, CallInv, Gated
<1>4. pc'[c] = Past(c) /\ Shown(c)' = Shown(c)
  BY DEF IInv, TypeOK, Shown
<1>5. Gated(c)'
  BY <1>0, <1>3, <1>4, PastGate DEF Gated
<1> QED BY <1>1, <1>2, <1>3, <1>5, BeforeScripts

LEMMA StepYes ==
  ASSUME IInv, NEW c \in Calls, Yes(c)
  PROVE  IInv'
<1> USE DEF Yes, Goto, call
<1>0. op[c] \in Ops
  BY DEF IInv, CallInv, Gated
<1>1. TypeOK'
  BY <1>0, PastGate DEF IInv, TypeOK, Ended, Refused
<1>2. \A d \in Calls \ {c} : Rests(d)
  BY DEF IInv, TypeOK, Rests
<1>3. hit[c] = None /\ left[c] = None
  BY DEF IInv, CallInv, Gated
<1>4. /\ pc'[c] = IF ~ modern THEN Past(c)
                  ELSE IF op[c].tool = "create" THEN "gate" ELSE "lookup"
      /\ Shown(c)' = Shown(c) /\ Shown(c) \in said' /\ said \subseteq said'
  BY DEF IInv, TypeOK, Shown
<1>5. Gated(c)'
  BY <1>0, <1>3, <1>4, PastGate DEF Gated
<1> QED BY <1>1, <1>2, <1>3, <1>4, <1>5, BeforeScripts

LEMMA StepNo ==
  ASSUME IInv, NEW c \in Calls, No(c)
  PROVE  IInv'
<1> USE DEF No, Goto, call
<1>1. TypeOK'
  BY DEF IInv, TypeOK, Ended, Refused
<1>2. \A d \in Calls \ {c} : Rests(d)
  BY DEF IInv, TypeOK, Rests
<1>3. hit[c] = None /\ left[c] = None /\ op[c] \in Ops
  BY DEF IInv, CallInv, Gated
<1>4. pc'[c] = "blocked"
  BY DEF IInv, TypeOK
<1>5. Gated(c)'
  BY <1>3, <1>4 DEF Gated
<1> QED BY <1>1, <1>2, <1>3, <1>5, BeforeScripts

LEMMA StepCheck ==
  ASSUME IInv, NEW c \in Calls, Check(c)
  PROVE  IInv'
<1> USE DEF Check, Goto, call
<1>4. pc'[c] \in {"notFound", "unsupported", "ok", "script"}
  BY DEF IInv, TypeOK
<1>1. TypeOK'
  BY DEF IInv, TypeOK, Ended, Refused
<1>2. \A d \in Calls \ {c} : Rests(d)
  BY DEF IInv, TypeOK, Rests
<1>3. /\ hit[c] = None /\ left[c] = None /\ op[c] \in Ops
      /\ NeedsYes(op[c]) => Shown(c) \in said
  BY DEF IInv, CallInv, Gated
<1>5. Shown(c)' = Shown(c)
  BY DEF Shown
<1>6. Gated(c)'
  BY <1>3, <1>4, <1>5 DEF Gated
<1> QED BY <1>1, <1>2, <1>3, <1>6, BeforeScripts

-------------------------------------------------------------------------------
(* A rule as a call asked for it.                                          *)
AsAsked(o, r) ==
  /\ o.name # None => r.name = o.name
  /\ o.enabled # None => r.enabled = o.enabled
  /\ o.scope # None => r.scope = o.scope
  /\ o.acts # {} => r.acts \cap Supported = o.acts
  /\ "move" \in o.acts => r.dest = o.dest

(* What is said of a script that has got from `list` to `end`, `all` of it *)
(* or a part: it fails before it changes anything or at a mailbox that is  *)
(* lost; it changes a rule of the name that was looked up, with no new     *)
(* actions but those asked for; and it does all it was asked if all ran.   *)
Verdict(o, list, i, name, end, all) ==
  /\ end.list \in Seq(Rule)
  /\ end.error \in {None, "notFound", "changed", "failed"}
  /\ end.list # list =>
       /\ end.error \in {None, "failed"}
       /\ i # 0 => i \in 1 .. Len(list) /\ list[i].name = name
       /\ o.tool # "delete" =>
            LET r == end.list[end.pos]
                before == IF i = 0 THEN {} ELSE list[i].acts
            IN  /\ r \in Rule /\ r.acts \subseteq before \cup o.acts
                /\ end.error = None /\ all =>
                     AsAsked(o, r) /\ before \cap Unsupported \subseteq r.acts

(* The verdict on each kind of script.                                     *)
LEMMA CreateVerdict ==
  ASSUME NEW o \in Ops, o.tool = "create", NEW list \in Seq(Rule), NEW name, NEW k \in Nat
  PROVE  LET script == <<Do("make", NewRule(o))>> \o Settings(o)
             end    == Ran(script, Start(list, 0, NewRule(o)))[k]
         IN  k <= Len(script) => Verdict(o, list, 0, name, end, k = Len(script))
<1> DEFINE script == <<Do("make", NewRule(o))>> \o Settings(o)
           start  == Start(list, 0, NewRule(o))
           end    == Ran(script, start)[k]
           base   == Append(list, NewRule(o))
           p      == Len(list) + 1
           r      == end.list[p]
<1>1. /\ Len(script) \in Nat
      /\ base \in Seq(Rule) /\ p \in 1 .. Len(base) /\ base[p] = NewRule(o)
      /\ k = 0 => end = start
      /\ k \in 1 .. Len(script) => At(end, o, base, p)
      /\ k = Len(script) /\ end.error = None => Shows(end, o, p, ToSet(Settings(o)))
  BY CreateRuns
<1>2. o \in Asked /\ o.name \in Names
  BY RuleAssumption DEF Asked
<1> SUFFICES ASSUME k <= Len(script) PROVE Verdict(o, list, 0, name, end, k = Len(script))
  OBVIOUS
<1> HIDE DEF script, start, end, base, p
<1>3. CASE k = 0
  <2>1. end.list = list /\ end.error = None
    BY <1>1, <1>3 DEF start, Start
  <2> QED BY <2>1 DEF Verdict
<1>4. CASE k # 0
  <2>1. At(end, o, base, p)
    BY <1>1, <1>4
  <2>2. /\ end.list \in Seq(Rule) /\ end.pos = p /\ end.error \in {None, "failed"}
        /\ r \in Rule
    BY <1>1, <2>1 DEF At, Runs
  <2>3. r.acts \subseteq o.acts /\ r.name = o.name
    BY <1>1, <2>1 DEF At, NewRule
  <2>4. ASSUME end.error = None, k = Len(script) PROVE AsAsked(o, r)
    <3>1. Shows(end, o, p, ToSet(Settings(o)))
      BY <1>1, <2>4
    <3>2. r.scope = o.scope /\ r.enabled = o.enabled
      BY <3>1, SettingsPlanned DEF Shows
    <3>3. "move" \in o.acts => r.dest = o.dest
      BY <3>1, SettingsPlanned DEF Shows
    <3>4. o.acts \subseteq r.acts
      BY <3>1, SettingsPlanned DEF Shows
    <3>5. r.acts \cap Supported = o.acts
      BY <1>2, <2>3, <3>4 DEF Asked
    <3> QED BY <2>3, <3>2, <3>3, <3>5 DEF AsAsked
  <2> HIDE DEF r
  <2>5. {} \cap Unsupported \subseteq r.acts
    OBVIOUS
  <2> QED BY <2>2, <2>3, <2>4, <2>5 DEF Verdict, r
<1> QED BY <1>3, <1>4

LEMMA UpdateVerdict ==
  ASSUME NEW o \in Ops, o.tool = "update", NEW list \in Seq(Rule), NEW i \in 1 .. Len(list),
         NEW name, NEW k \in Nat
  PROVE  LET script == <<Do("guard", name)>> \o Edits(o)
             end    == Ran(script, Start(list, i, list[i]))[k]
         IN  k <= Len(script) => Verdict(o, list, i, name, end, k = Len(script))
<1> DEFINE script == <<Do("guard", name)>> \o Edits(o)
           start  == Start(list, i, list[i])
           end    == Ran(script, start)[k]
           r      == end.list[i]
<1>1. /\ Len(script) \in Nat
      /\ k = 0 => end = start
      /\ k \in 1 .. Len(script) =>
           IF list[i].name = name THEN At(end, o, list, i)
           ELSE end.list = list /\ end.error = "changed"
      /\ k = Len(script) /\ end.error = None => Shows(end, o, i, ToSet(Edits(o)))
  BY UpdateRuns
<1>2. o \in Asked
  BY RuleAssumption
<1> SUFFICES ASSUME k <= Len(script) PROVE Verdict(o, list, i, name, end, k = Len(script))
  OBVIOUS
<1> HIDE DEF script, start, end
<1>3. CASE k = 0
  <2>1. end.list = list /\ end.error = None
    BY <1>1, <1>3 DEF start, Start
  <2> QED BY <2>1 DEF Verdict
<1>4. CASE k # 0 /\ list[i].name # name
  <2>1. end.list = list /\ end.error = "changed"
    BY <1>1, <1>4
  <2> QED BY <2>1 DEF Verdict
<1>5. CASE k # 0 /\ list[i].name = name
  <2>1. At(end, o, list, i)
    BY <1>1, <1>5
  <2>2. /\ end.list \in Seq(Rule) /\ end.pos = i /\ end.error \in {None, "failed"}
        /\ r \in Rule
    BY <2>1 DEF At, Runs
  <2>3. /\ r.acts \subseteq list[i].acts \cup o.acts
        /\ list[i].acts \cap Unsupported \subseteq r.acts
    BY <2>1 DEF At
  <2>4. ASSUME end.error = None, k = Len(script) PROVE AsAsked(o, r)
    <3>1. Shows(end, o, i, ToSet(Edits(o)))
      BY <1>1, <2>4
    <3>2. /\ o.scope # None => r.scope = o.scope
          /\ o.enabled # None => r.enabled = o.enabled
          /\ o.name # None => r.name = o.name
      BY <3>1, EditsPlanned DEF Shows
    <3>3. ASSUME o.acts # {} PROVE r.acts \cap Supported = o.acts
      <4>1. o.acts \subseteq r.acts
        BY <3>1, <3>3, EditsPlanned DEF Shows
      <4>2. \A a \in Supported \ o.acts : a \notin r.acts
        BY <3>1, <3>3, EditsPlanned DEF Shows
      <4> QED BY <1>2, <4>1, <4>2 DEF Asked
    <3>4. "move" \in o.acts => r.dest = o.dest
      BY <3>1, EditsPlanned DEF Shows
    <3> QED BY <3>2, <3>3, <3>4 DEF AsAsked
  <2> HIDE DEF r
  <2> QED BY <1>5, <2>2, <2>3, <2>4 DEF Verdict, r
<1> QED BY <1>3, <1>4, <1>5

(* A rule fewer.                                                           *)
LEMMA Removed ==
  ASSUME NEW list \in Seq(Rule), NEW i \in 1 .. Len(list)
  PROVE  RemoveAt(list, i) \in Seq(Rule)
<1>1. SubSeq(list, 1, i - 1) \in Seq(Rule) /\ SubSeq(list, i + 1, Len(list)) \in Seq(Rule)
  <2>1. \A j \in 1 .. i - 1 : j \in 1 .. Len(list)
    OBVIOUS
  <2>2. \A j \in i + 1 .. Len(list) : j \in 1 .. Len(list)
    OBVIOUS
  <2> QED BY <2>1, <2>2, SubSeqProperties
<1> QED BY <1>1 DEF RemoveAt

LEMMA DeleteVerdict ==
  ASSUME NEW o \in Ops, o.tool = "delete", NEW list \in Seq(Rule), NEW i \in 1 .. Len(list),
         NEW name, NEW k \in Nat
  PROVE  LET script == <<Do("guard", name)>> \o <<Do("remove", None)>>
             end    == Ran(script, Start(list, i, list[i]))[k]
         IN  k <= Len(script) => Verdict(o, list, i, name, end, k = Len(script))
<1> DEFINE script == <<Do("guard", name)>> \o <<Do("remove", None)>>
           start  == Start(list, i, list[i])
           end    == Ran(script, start)[k]
<1>1. /\ Len(script) = 2
      /\ k \in 0 .. 2 =>
           \/ end.list = list /\ (end.error = None \/ end.error = "changed")
           \/ list[i].name = name /\ end.list = RemoveAt(list, i) /\ end.error = None
  BY DeleteRuns
<1> HIDE DEF script, start, end
<1>2. SUFFICES ASSUME k <= Len(script) PROVE Verdict(o, list, i, name, end, k = Len(script))
  BY DEF script, start, end
<1>3. k \in 0 .. 2
  BY <1>1, <1>2
<1> QED BY <1>1, <1>3, Removed DEF Verdict

LEMMA MissVerdict ==
  ASSUME NEW o \in Ops, NEW S, NEW plan \in Seq(S), NEW list \in Seq(Rule),
         NEW name, NEW was, NEW k \in Nat
  PROVE  LET script == <<Do("guard", name)>> \o plan
             end    == Ran(script, Start(list, 0, was))[k]
         IN  k <= Len(script) => Verdict(o, list, 0, name, end, k = Len(script))
<1> DEFINE script == <<Do("guard", name)>> \o plan
           start  == Start(list, 0, was)
           end    == Ran(script, start)[k]
<1>1. /\ Len(script) \in Nat
      /\ k \in 0 .. Len(script) => end.list = list /\ end.error \in {None, "notFound"}
  BY MissRuns
<1> HIDE DEF script, start, end
<1>2. SUFFICES ASSUME k <= Len(script) PROVE Verdict(o, list, 0, name, end, k = Len(script))
  BY DEF script, start, end
<1>3. k \in 0 .. Len(script)
  BY <1>1, <1>2
<1> QED BY <1>1, <1>3 DEF Verdict

(* Where a script's reference leads: nowhere, or to a rule of the list.    *)
LEMMA Referred ==
  ASSUME TypeOK, NEW c \in Calls, op[c] \in Ops, NEW i \in Referents(c)
  PROVE  i = 0 \/ (op[c].tool # "create" /\ i \in 1 .. Len(rules))
<1>1. rules \in Seq(Rule) /\ DOMAIN rules = 1 .. Len(rules)
  BY DEF TypeOK
<1> QED BY <1>1 DEF Referents

(* Every script of the three tools has that verdict.                       *)
LEMMA ScriptVerdict ==
  ASSUME IInv, NEW c \in Calls, op[c] \in Ops, NEW k \in Nat, NEW i \in Referents(c)
  PROVE  LET o   == op[c]
             was == IF i = 0 THEN NewRule(o) ELSE rules[i]
             end == Ran(Script(c), Start(rules, i, was))[k]
         IN  k <= Len(Script(c)) => Verdict(o, rules, i, looked[c], end, k = Len(Script(c)))
<1> DEFINE o   == op[c]
           was == IF i = 0 THEN NewRule(o) ELSE rules[i]
           end == Ran(Script(c), Start(rules, i, was))[k]
<1>1. o \in Ops /\ o.tool \in {"create", "update", "delete"} /\ rules \in Seq(Rule)
  BY RuleAssumption DEF Asked, IInv, TypeOK
<1>2. i = 0 \/ (o.tool # "create" /\ i \in 1 .. Len(rules))
  BY Referred DEF IInv
<1>3. CASE o.tool = "create"
  <2>1. Script(c) = <<Do("make", NewRule(o))>> \o Settings(o)
    BY <1>3 DEF Script
  <2>2. i = 0 /\ was = NewRule(o)
    BY <1>2, <1>3
  <2> DEFINE name == looked[c]
  <2> HIDE DEF o, name
  <2>3. LET script == <<Do("make", NewRule(o))>> \o Settings(o)
            run    == Ran(script, Start(rules, 0, NewRule(o)))[k]
        IN  k <= Len(script) => Verdict(o, rules, 0, name, run, k = Len(script))
    BY <1>1, <1>3, CreateVerdict
  <2> QED BY <2>1, <2>2, <2>3 DEF o, name
<1>4. CASE o.tool = "update"
  <2>1. Script(c) = <<Do("guard", looked[c])>> \o Edits(o)
    BY <1>4 DEF Script, Guard
  <2>2. CASE i = 0
    <3> DEFINE plan == Edits(o)
               S    == Fits(o)
               name == looked[c]
    <3>1. plan \in Seq(S)
      BY <1>1, EditsPlanned DEF Plan
    <3>2. Script(c) = <<Do("guard", name)>> \o plan
      BY <2>1
    <3> HIDE DEF o, was, plan, S, name
    <3>3. LET script == <<Do("guard", name)>> \o plan
              run    == Ran(script, Start(rules, 0, was))[k]
          IN  k <= Len(script) => Verdict(o, rules, 0, name, run, k = Len(script))
      BY <1>1, <3>1, MissVerdict
    <3> QED BY <2>2, <3>2, <3>3 DEF o, was, name
  <2>3. CASE i # 0
    <3>1. i \in 1 .. Len(rules) /\ was = rules[i]
      BY <1>2, <2>3
    <3> DEFINE name == looked[c]
    <3> HIDE DEF o, name
    <3>2. LET script == <<Do("guard", name)>> \o Edits(o)
              run    == Ran(script, Start(rules, i, rules[i]))[k]
          IN  k <= Len(script) => Verdict(o, rules, i, name, run, k = Len(script))
      BY <1>1, <1>4, <3>1, UpdateVerdict
    <3> QED BY <2>1, <3>1, <3>2 DEF o, name
  <2> QED BY <2>2, <2>3
<1>5. CASE o.tool = "delete"
  <2>1. Script(c) = <<Do("guard", looked[c])>> \o <<Do("remove", None)>>
    BY <1>5 DEF Script, Guard
  <2>2. CASE i = 0
    <3> DEFINE plan == <<Do("remove", None)>>
               S    == {Do("remove", None)}
               name == looked[c]
    <3>1. plan \in Seq(S)
      OBVIOUS
    <3>2. Script(c) = <<Do("guard", name)>> \o plan
      BY <2>1
    <3> HIDE DEF o, was, plan, S, name
    <3>3. LET script == <<Do("guard", name)>> \o plan
              run    == Ran(script, Start(rules, 0, was))[k]
          IN  k <= Len(script) => Verdict(o, rules, 0, name, run, k = Len(script))
      BY <1>1, <3>1, MissVerdict
    <3> QED BY <2>2, <3>2, <3>3 DEF o, was, name
  <2>3. CASE i # 0
    <3>1. i \in 1 .. Len(rules) /\ was = rules[i]
      BY <1>2, <2>3
    <3> DEFINE name == looked[c]
    <3> HIDE DEF o, name
    <3>2. LET script == <<Do("guard", name)>> \o <<Do("remove", None)>>
              run    == Ran(script, Start(rules, i, rules[i]))[k]
          IN  k <= Len(script) => Verdict(o, rules, i, name, run, k = Len(script))
      BY <1>1, <1>5, <3>1, DeleteVerdict
    <3> QED BY <2>1, <3>1, <3>2 DEF o, name
  <2> QED BY <2>2, <2>3
<1> QED BY <1>1, <1>3, <1>4, <1>5

(* What a call's script leaves behind is what it records of it, and within *)
(* what it may do.                                                         *)
LEMMA StepRunScript ==
  ASSUME IInv, NEW c \in Calls, NEW k \in 0 .. 12, NEW i, RunScript(c, k, i)
  PROVE  IInv'
<1> DEFINE o      == op[c]
           script == Script(c)
           was    == IF i = 0 THEN NewRule(o) ELSE rules[i]
           end    == Ran(script, Start(rules, i, was))[k]
           r      == end.list[end.pos]
           before == IF i = 0 THEN {} ELSE rules[i].acts
<1>1. /\ pc[c] = "script" /\ k <= Len(script) /\ i \in Referents(c)
      /\ rules' = end.list
      /\ IF rules' = rules THEN UNCHANGED <<hit, left>>
         ELSE /\ hit' = [hit EXCEPT ![c] = IF i = 0 THEN None ELSE was]
              /\ left' = [left EXCEPT ![c] = IF o.tool = "delete" THEN None ELSE r]
      /\ pc' = [pc EXCEPT ![c] = IF end.error # None THEN end.error
                                 ELSE IF k < Len(script) THEN "timedout" ELSE "ok"]
      /\ UNCHANGED <<modern, op, looked, said, edits>>
  BY DEF RunScript, Goto, Start
<1>2. /\ o \in Ops /\ hit[c] = None /\ left[c] = None
      /\ NeedsYes(o) => Shown(c) \in said
  BY <1>1 DEF IInv, CallInv, Gated
<1>3. Verdict(o, rules, i, looked[c], end, k = Len(script))
  BY <1>1, <1>2, ScriptVerdict
<1>4. i = 0 \/ (o.tool # "create" /\ i \in 1 .. Len(rules))
  BY <1>1, <1>2, Referred DEF IInv
<1>5. /\ hit \in [Calls -> Rule \cup {None}] /\ left \in [Calls -> Rule \cup {None}]
      /\ pc \in [Calls -> {"new", "lookup", "gate", "check", "script"} \cup Ended]
      /\ rules \in Seq(Rule)
  BY DEF IInv, TypeOK
<1>6. i # 0 => was \in Rule /\ was = rules[i] /\ before = was.acts
  BY <1>4, <1>5
<1>7. Shown(c)' = Shown(c) /\ op'[c] = o
  BY <1>1 DEF Shown
<1> HIDE DEF o, script, was, end
<1>8. pc'[c] = IF end.error # None THEN end.error
               ELSE IF k < Len(script) THEN "timedout" ELSE "ok"
  BY <1>1, <1>5
<1>9. rules' # rules =>
        /\ hit'[c] = (IF i = 0 THEN None ELSE was)
        /\ left'[c] = (IF o.tool = "delete" THEN None ELSE r)
  BY <1>1, <1>5
<1>10. rules' = rules => hit'[c] = None /\ left'[c] = None
  BY <1>1, <1>2
<1>17. /\ end.error \in {None, "notFound", "changed", "failed"}
       /\ None \notin Rule /\ None \notin Ended
  BY <1>3, RuleAssumption DEF Verdict
<1>11. TypeOK'
  <2>1. rules' \in Seq(Rule)
    BY <1>1, <1>3 DEF Verdict
  <2>2. pc'[c] \in Ended
    BY <1>3, <1>8, <1>17 DEF Ended, Refused
  <2>3. pc' \in [Calls -> {"new", "lookup", "gate", "check", "script"} \cup Ended]
    BY <1>1, <1>5, <2>2
  <2>4. hit' \in [Calls -> Rule \cup {None}]
    BY <1>1, <1>5, <1>6
  <2>5. o.tool # "delete" /\ rules' # rules => r \in Rule
    BY <1>1, <1>3 DEF Verdict
  <2>6. left' \in [Calls -> Rule \cup {None}]
    BY <1>1, <1>5, <2>5
  <2> QED BY <1>1, <2>1, <2>3, <2>4, <2>6 DEF IInv, TypeOK
<1>12. Gated(c)'
  <2>1. pc'[c] \in Ended
    BY <1>8, <1>17 DEF Ended, Refused
  <2>2. ASSUME pc'[c] \in Refused PROVE rules' = rules
    <3>1. end.error \in {"notFound", "changed"}
      BY <1>8, <1>17, <2>2 DEF Refused
    <3>2. end.error \notin {None, "failed"}
      BY <3>1, RuleAssumption DEF Ended, Refused
    <3> QED BY <1>1, <1>3, <3>2 DEF Verdict
  <2> QED BY <1>2, <1>7, <1>10, <2>1, <2>2 DEF Gated, Ended, Refused
<1>13. Confirmed(c)'
  <2>1. ASSUME hit'[c] # None PROVE i # 0 /\ rules' # rules /\ hit'[c] = was
    BY <1>9, <1>10, <2>1
  <2>2. ASSUME hit'[c] # None PROVE hit'[c].name = looked'[c]
    <3>1. rules[i].name = looked[c]
      BY <1>1, <1>3, <2>1, <2>2 DEF Verdict
    <3> QED BY <1>1, <1>6, <2>1, <2>2, <3>1
  <2> QED BY <1>1, <1>2, <1>7, <2>2 DEF Confirmed
<1>14. Harmless(c)'
  <2> SUFFICES ASSUME left'[c] # None,
                      (left'[c].acts \ (IF hit'[c] = None THEN {} ELSE hit'[c].acts))
                        \cap {"move", "delete"} # {}
               PROVE  Shown(c)' \in said'
    BY DEF Harmless
  <2>1. rules' # rules /\ o.tool # "delete" /\ left'[c] = r
    BY <1>9, <1>10
  <2>2. r.acts \subseteq before \cup o.acts
    BY <1>1, <1>3, <2>1 DEF Verdict
  <2>3. (IF hit'[c] = None THEN {} ELSE hit'[c].acts) = before
    BY <1>6, <1>9, <1>17, <2>1
  <2>4. NeedsYes(o)
    BY <2>1, <2>2, <2>3 DEF NeedsYes, Dangerous
  <2> QED BY <1>1, <1>2, <1>7, <2>4
<1>15. Done(c)'
  <2> SUFFICES ASSUME pc'[c] = "ok", left'[c] # None
               PROVE  AsAsked(o, left'[c])
                      /\ (hit'[c] # None => hit'[c].acts \cap Unsupported \subseteq left'[c].acts)
    BY <1>7 DEF Done, AsAsked
  <2>1. rules' # rules /\ o.tool # "delete" /\ left'[c] = r
    BY <1>9, <1>10
  <2>2. end.error = None /\ k = Len(script)
    BY <1>1, <1>3, <1>8, <1>17 DEF Verdict
  <2>3. AsAsked(o, r) /\ before \cap Unsupported \subseteq r.acts
    BY <1>1, <1>3, <2>1, <2>2 DEF Verdict
  <2>4. hit'[c] # None => hit'[c].acts = before
    BY <1>6, <1>9, <2>1
  <2> QED BY <2>1, <2>3, <2>4
<1>16. ASSUME NEW d \in Calls \ {c} PROVE CallInv(d)'
  <2>1. Rests(d)
    BY <1>1, <1>5 DEF Rests
  <2> QED BY <1>1, <2>1, OthersKeep DEF IInv
<1> QED BY <1>11, <1>12, <1>13, <1>14, <1>15, <1>16 DEF IInv, CallInv

(* The user's edits touch no call.                                         *)
LEMMA StepUser ==
  ASSUME IInv, rules' \in Seq(Rule), UNCHANGED <<modern, pc, call, said>>
  PROVE  IInv'
<1>1. TypeOK'
  BY DEF IInv, TypeOK, call
<1>2. \A d \in Calls : CallInv(d)'
  BY OthersKeep DEF IInv, Rests, call
<1> QED BY <1>1, <1>2 DEF IInv

LEMMA StepUserRemoves ==
  ASSUME IInv, NEW i, UserRemoves(i)
  PROVE  IInv'
<1>1. rules \in Seq(Rule) /\ i \in 1 .. Len(rules)
  BY DEF IInv, TypeOK, UserRemoves
<1>2. rules' \in Seq(Rule)
  BY <1>1, Removed DEF UserRemoves
<1> QED BY <1>2, StepUser DEF UserRemoves

LEMMA StepUserScripts ==
  ASSUME IInv, NEW i, UserScripts(i)
  PROVE  IInv'
<1> DEFINE r == [rules[i] EXCEPT !.acts = @ \cup Unsupported]
<1>1. rules \in Seq(Rule) /\ i \in 1 .. Len(rules) /\ rules[i] \in Rule
  BY DEF IInv, TypeOK, UserScripts
<1>2. r \in Rule
  BY <1>1 DEF Rule
<1>3. rules' = [rules EXCEPT ![i] = r]
  BY <1>1 DEF UserScripts
<1> HIDE DEF r
<1>4. rules' \in Seq(Rule)
  BY <1>1, <1>2, <1>3
<1> QED BY <1>4, StepUser DEF UserScripts

(* Every step keeps the invariant.                                         *)
LEMMA StepIInv == IInv /\ [Next]_vars => IInv'
<1> SUFFICES ASSUME IInv, [Next]_vars PROVE IInv'
  OBVIOUS
<1>1. CASE UNCHANGED vars
  BY <1>1, StepUser DEF vars, IInv, TypeOK
<1>2. ASSUME NEW c \in Calls, NEW o \in Ops, Request(c, o) PROVE IInv'
  BY <1>2, StepRequest
<1>3. ASSUME NEW c \in Calls, LookUp(c) PROVE IInv'
  BY <1>3, StepLookUp
<1>4. ASSUME NEW c \in Calls, Unasked(c) \/ Yes(c) \/ No(c) PROVE IInv'
  BY <1>4, StepUnasked, StepYes, StepNo
<1>5. ASSUME NEW c \in Calls, Check(c) PROVE IInv'
  BY <1>5, StepCheck
<1>6. ASSUME NEW c \in Calls, NEW k \in 0 .. 12, NEW i \in 0 .. MaxRules, RunScript(c, k, i)
      PROVE  IInv'
  BY <1>6, StepRunScript
<1>7. ASSUME NEW i \in 1 .. MaxRules, UserRemoves(i) \/ UserScripts(i) PROVE IInv'
  BY <1>7, StepUserRemoves, StepUserScripts
<1> QED BY <1>1, <1>2, <1>3, <1>4, <1>5, <1>6, <1>7 DEF Next

(* The inductive invariant holds in every reachable state.                 *)
LEMMA AlwaysIInv == Spec => []IInv
<1> QED BY InitIInv, StepIInv, PTL DEF Spec

-------------------------------------------------------------------------------
(* The three tools keep Mail's list a list of rules, whatever the calls    *)
(* that interleave, the scripts that stop half-way and the user's edits.   *)
THEOREM RulesTyped == Spec => []TypeOK
<1>1. IInv => TypeOK
  BY DEF IInv
<1> QED BY <1>1, AlwaysIInv, PTL

(* However the list shifts between the look-up, the prompt and the script, *)
(* a rule that update_rule or delete_rule changes has the name the call    *)
(* found at its position, and the user said yes to it where the tool asks. *)
THEOREM OnlyTheConfirmed == Spec => []ConfirmedRule
<1>1. IInv => ConfirmedRule
  BY DEF IInv, CallInv, Confirmed, ConfirmedRule
<1> QED BY <1>1, AlwaysIInv, PTL

(* No script gives a rule an action that moves, forwards or deletes mail   *)
(* without a yes to a prompt that named it, wherever the script stops.     *)
THEOREM NoDangerUnasked == Spec => []DangerNeedsYes
<1>1. IInv => DangerNeedsYes
  BY DEF IInv, CallInv, Harmless, DangerNeedsYes
<1> QED BY <1>1, AlwaysIInv, PTL

(* A tool that reports success has done all it was asked, in the order     *)
(* _build_action_lines and update_rule give its statements; one that       *)
(* reports a refusal, or a rule that has changed, has done nothing.        *)
THEOREM ReportsTruly == Spec => []ReportIsTrue
<1>1. IInv => ReportIsTrue
  BY DEF IInv, CallInv, Gated, Done, ReportIsTrue
<1> QED BY <1>1, AlwaysIInv, PTL
===============================================================================
