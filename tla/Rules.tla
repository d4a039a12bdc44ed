-------------------------------- MODULE Rules --------------------------------
(***************************************************************************)
(* create_rule, update_rule and delete_rule: the tools of server.py over   *)
(* the rule scripts of mail_connector.py and Mail's ordered list of rules. *)
(* Mail gives a rule no id, so a call names one by its position, shows the *)
(* user the name it finds there, and hopes to meet the same rule when its  *)
(* script runs.  Other calls, and the user in Mail's window, change the    *)
(* list meanwhile.                                                         *)
(*                                                                         *)
(* A script is a sequence of statements.  No other script comes between    *)
(* them, but it stops at the first that fails, and a script that times out *)
(* has run some of them.                                                   *)
(***************************************************************************)
EXTENDS Naturals, Sequences, SequencesExt

CONSTANTS
  Calls,       (* tool calls: a bound on the behaviour                     *)
  Names,       (* rule names, which need not be unique                     *)
  Boxes, Lost, (* mailboxes, and those that no longer exist                *)
  Ops,         (* what a call may ask for                                  *)
  Starts,      (* the lists of rules to begin with                         *)
  MaxRules, MaxEdits,  (* bounds on the list and on the user's edits       *)
  None         (* a name, mailbox or value that is not given               *)

(* "move" stands for move_to, copy_to and forward_to, which take an        *)
(* argument, "script" for the actions the tools do not know.               *)
Unsupported == {"script"}
Supported   == {"move", "read", "delete"}
Rule == [name : Names, acts : SUBSET (Supported \cup Unsupported),
         dest : Boxes \cup {None}, scope : {"all", "any"}, enabled : BOOLEAN]

(* The arguments of the three tools; create_rule has them all.             *)
Asked == [tool : {"create", "update", "delete"}, name : Names \cup {None},
          acts : SUBSET Supported, dest : Boxes \cup {None},
          scope : {"all", "any", None}, enabled : BOOLEAN \cup {None},
          at : Nat, conditions : BOOLEAN]

Refused == {"notFound", "changed", "unsupported", "blocked", "invalid"}
Ended   == Refused \cup {"ok", "failed", "timedout"}

ASSUME RuleAssumption ==
  /\ None \notin Names \cup Boxes /\ None \notin BOOLEAN /\ None \notin Rule
  /\ None \notin {"all", "any"} \cup Ended
  /\ Lost \subseteq Boxes
  /\ Starts \subseteq Seq(Rule)
  /\ Ops \subseteq Asked
  /\ \A o \in Ops : o.tool = "create" => None \notin {o.name, o.scope} /\ o.enabled # None

VARIABLES
  modern,  (* the connection speaks the 2026-07-28 protocol                *)
  rules,   (* Mail's list                                                  *)
  pc, op,  (* where each call is, and what it asks for                     *)
  looked,  (* the name it found at its position                            *)
  said,    (* the prompts the user has said yes to                         *)
  hit,     (* the rule its script changed, as it was, or None              *)
  left,    (* and as the script left it, or None                           *)
  edits    (* how often the user has changed the list                      *)

call == <<op, looked, hit, left>>
vars == <<modern, rules, pc, call, said, edits>>

Init ==
  /\ modern \in BOOLEAN
  /\ rules \in Starts
  /\ pc = [c \in Calls |-> "new"]
  /\ op = [c \in Calls |-> None]
  /\ looked = [c \in Calls |-> None]
  /\ said = {}
  /\ hit = [c \in Calls |-> None]
  /\ left = [c \in Calls |-> None]
  /\ edits = 0

Goto(c, label) == pc' = [pc EXCEPT ![c] = label]

-------------------------------------------------------------------------------
(* The gates of the tools                                                  *)

(* The actions that can move, disclose or delete mail.  Mutant: a rule     *)
(* that moves mail needs no prompt.                                        *)
DangerousLess == {"delete"}
Dangerous     == {"move", "delete"}

(* Whether a call asks first: a delete always, a create or update with     *)
(* dangerous actions, an update that changes what the rule matches (new    *)
(* conditions are refused only behind the prompt, see Past).               *)
NeedsYes(o) ==
  \/ o.tool = "delete"
  \/ o.acts \cap Dangerous # {}
  \/ o.tool = "update" /\ (o.conditions \/ o.scope # None)

(* What the prompt shows and its digest covers.  Not what an update does.  *)
Shown(c) ==
  IF op[c].tool = "create"
    THEN [tool |-> "create", name |-> op[c].name, acts |-> op[c].acts \cap Dangerous]
    ELSE [tool |-> op[c].tool, name |-> looked[c], at |-> op[c].at]

(* The client calls a tool.  create_rule goes straight to its gate.        *)
Request(c, o) ==
  /\ pc[c] = "new" /\ op[c] = None
  /\ op' = [op EXCEPT ![c] = o]
  /\ Goto(c, IF o.tool = "create" THEN "gate" ELSE "lookup")
  /\ UNCHANGED <<modern, rules, looked, said, hit, left, edits>>

(* _resolve_rule_name: a script of its own, awaited.                       *)
LookUp(c) ==
  /\ pc[c] = "lookup"
  /\ IF op[c].at \in DOMAIN rules
       THEN /\ looked' = [looked EXCEPT ![c] = rules[op[c].at].name]
            /\ Goto(c, "gate")
       ELSE Goto(c, "notFound") /\ UNCHANGED looked
  /\ UNCHANGED <<modern, rules, op, said, hit, left, edits>>

(* _validate_rule_actions: a rule does something, and a move says where.   *)
(* Checked behind the gate, so the user may be asked in vain.              *)
Valid(o) ==
  /\ o.tool = "create" => o.acts # {}
  /\ "move" \in o.acts => o.dest # None

(* After the gate, update_rule rejects new conditions, which Mail cannot   *)
(* take, and goes on to check the rule's actions.                          *)
Past(c) ==
  IF op[c].tool = "update" /\ op[c].conditions THEN "unsupported"
  ELSE IF ~ Valid(op[c]) THEN "invalid"
  ELSE IF op[c].tool = "update" THEN "check" ELSE "script"

Unasked(c) ==
  /\ pc[c] = "gate"
  /\ ~ NeedsYes(op[c]) \/ (modern /\ Shown(c) \in said)
  /\ Goto(c, Past(c))
  /\ UNCHANGED <<modern, rules, call, said, edits>>

(* The user answers the prompt.  On a modern connection a yes comes with a *)
(* new request, which starts from the look-up; else the call was waiting.  *)
Yes(c) ==
  /\ pc[c] = "gate" /\ NeedsYes(op[c])
  /\ said' = said \cup {Shown(c)}
  /\ Goto(c, IF ~ modern THEN Past(c)
             ELSE IF op[c].tool = "create" THEN "gate" ELSE "lookup")
  /\ UNCHANGED <<modern, rules, call, edits>>

No(c) ==
  /\ pc[c] = "gate" /\ NeedsYes(op[c])
  /\ Goto(c, "blocked")
  /\ UNCHANGED <<modern, rules, call, said, edits>>

-------------------------------------------------------------------------------
(* The scripts                                                             *)

When(given, statement) == IF given THEN <<statement>> ELSE <<>>
Do(verb, value) == [do |-> verb, arg |-> value]

(* _build_action_lines.                                                    *)
ActionLines(o) ==
     When("move" \in o.acts, Do("on", "move"))
  \o When("move" \in o.acts, Do("dest", o.dest))
  \o When("read" \in o.acts, Do("on", "read"))
  \o When("delete" \in o.acts, Do("on", "delete"))

(* The flags update_rule turns off before it sets those it was given.      *)
ResetLines == << Do("off", "move"), Do("off", "read"), Do("off", "delete") >>

(* What update_rule sets, in order: enabled after the resets, which revert *)
(* it, and the name last, since the script's reference goes by it.         *)
(* Mutant: the order of the parameters.                                    *)
EditsAsGiven(o) ==
     When(o.name # None, Do("name", o.name))
  \o When(o.enabled # None, Do("enabled", o.enabled))
  \o When(o.scope # None, Do("scope", o.scope))
  \o (IF o.acts # {} THEN ResetLines \o ActionLines(o) ELSE <<>>)

Edits(o) ==
     When(o.scope # None, Do("scope", o.scope))
  \o (IF o.acts # {} THEN ResetLines \o ActionLines(o) ELSE <<>>)
  \o When(o.enabled # None, Do("enabled", o.enabled))
  \o When(o.name # None, Do("name", o.name))

(* _rule_name_guard.  Mutant: the position alone says which rule.          *)
Unguarded(c) == <<>>
Guard(c)     == << Do("guard", looked[c]) >>

NewRule(o) == [name |-> o.name, acts |-> {}, dest |-> None, scope |-> "all", enabled |-> TRUE]

(* What create_rule's script sets on the rule it has made.                 *)
Settings(o) == << Do("scope", o.scope) >> \o ActionLines(o) \o << Do("enabled", o.enabled) >>

Script(c) ==
  CASE op[c].tool = "create" -> << Do("make", NewRule(op[c])) >> \o Settings(op[c])
    [] op[c].tool = "update" -> Guard(c) \o Edits(op[c])
    [] op[c].tool = "delete" -> Guard(c) \o << Do("remove", None) >>

(* One statement on a rule; `was` is the rule when the script began.       *)
Edited(r, was, t) ==
  CASE t.do = "on"      -> [r EXCEPT !.acts = @ \cup {t.arg}]
    [] t.do = "off"     -> [r EXCEPT !.acts = @ \ {t.arg}, !.enabled = was.enabled]
    [] t.do = "dest"    -> [r EXCEPT !.dest = t.arg]
    [] t.do = "scope"   -> [r EXCEPT !.scope = t.arg]
    [] t.do = "enabled" -> [r EXCEPT !.enabled = t.arg]
    [] t.do = "name"    -> [r EXCEPT !.name = t.arg]
    [] OTHER            -> r

(* One statement of a script.  `held` is lost once the rule it refers to   *)
(* has another name.                                                       *)
Statement(s, t) ==
  IF s.error # None THEN s
  ELSE IF t.do = "make" THEN [s EXCEPT !.list = Append(@, t.arg), !.pos = Len(s.list) + 1]
  ELSE IF s.pos \notin DOMAIN s.list \/ ~ s.held THEN [s EXCEPT !.error = "notFound"]
  ELSE IF t.do = "dest" /\ t.arg \in Lost THEN [s EXCEPT !.error = "failed"]
  ELSE IF t.do = "guard" /\ s.list[s.pos].name # t.arg THEN [s EXCEPT !.error = "changed"]
  ELSE IF t.do = "remove" THEN [s EXCEPT !.list = RemoveAt(@, s.pos)]
  ELSE [s EXCEPT !.list[s.pos] = Edited(@, s.was, t), !.held = t.do # "name"]

(* The states of a run of a script, by the number of statements that ran.  *)
Ran(script, start) ==
  LET after[n \in 0 .. Len(script)] ==
        IF n = 0 THEN start ELSE Statement(after[n - 1], script[n])
  IN  after

(* The rule a script's reference means: the one at the position or, since  *)
(* Mail resolves it by its name, the first of that name.                   *)
Referents(c) ==
  IF op[c].tool = "create" \/ op[c].at \notin DOMAIN rules THEN {0}
  ELSE {op[c].at} \cup (IF op[c].tool = "delete" THEN {} ELSE
         {i \in DOMAIN rules : /\ rules[i].name = rules[op[c].at].name
                               /\ \A j \in 1 .. i - 1 : rules[j].name # rules[i].name})

(* _check_supported_actions: again a script of its own.                    *)
Check(c) ==
  /\ pc[c] = "check"
  /\ Goto(c, IF op[c].at \notin DOMAIN rules THEN "notFound"
             ELSE IF rules[op[c].at].acts \cap Unsupported # {} THEN "unsupported"
             ELSE IF Edits(op[c]) = <<>> THEN "ok"
             ELSE "script")
  /\ UNCHANGED <<modern, rules, call, said, edits>>

(* The script runs, or the first k statements of it before osascript is    *)
(* killed.                                                                 *)
RunScript(c, k, i) ==
  LET script == Script(c)
      was    == IF i = 0 THEN NewRule(op[c]) ELSE rules[i]
      start  == [list |-> rules, pos |-> i, was |-> was, held |-> TRUE, error |-> None]
      end    == Ran(script, start)[k]
  IN  /\ pc[c] = "script" /\ k <= Len(script) /\ i \in Referents(c)
      /\ op[c].tool = "create" => Len(rules) < MaxRules
      /\ rules' = end.list
      /\ IF rules' = rules THEN UNCHANGED <<hit, left>>
         ELSE /\ hit' = [hit EXCEPT ![c] = IF i = 0 THEN None ELSE was]
              /\ left' = [left EXCEPT ![c] = IF op[c].tool = "delete" THEN None
                                             ELSE end.list[end.pos]]
      /\ Goto(c, IF end.error # None THEN end.error
                 ELSE IF k < Len(script) THEN "timedout" ELSE "ok")
  /\ UNCHANGED <<modern, op, looked, said, edits>>

-------------------------------------------------------------------------------
(* The user, in Mail's window: a rule goes, or gets an action the tools do *)
(* not know.                                                               *)
UserRemoves(i) ==
  /\ edits < MaxEdits /\ i \in DOMAIN rules
  /\ rules' = RemoveAt(rules, i)
  /\ edits' = edits + 1
  /\ UNCHANGED <<modern, pc, call, said>>

UserScripts(i) ==
  /\ edits < MaxEdits /\ i \in DOMAIN rules
  /\ rules' = [rules EXCEPT ![i].acts = @ \cup Unsupported]
  /\ edits' = edits + 1
  /\ UNCHANGED <<modern, pc, call, said>>

Next ==
  \/ \E c \in Calls :
       \/ \E o \in Ops : Request(c, o)
       \/ LookUp(c) \/ Unasked(c) \/ Yes(c) \/ No(c) \/ Check(c)
       \/ \E k \in 0 .. 12, i \in 0 .. MaxRules : RunScript(c, k, i)
  \/ \E i \in 1 .. MaxRules : UserRemoves(i) \/ UserScripts(i)

Spec == Init /\ [][Next]_vars

-------------------------------------------------------------------------------
(* A rule that a call changes or deletes has the name which stood at the   *)
(* position when the call looked, and, where the tool asks, the name the   *)
(* user said yes to, however the list has shifted since.                   *)
ConfirmedRule ==
  \A c \in Calls : hit[c] # None =>
    /\ hit[c].name = looked[c]
    /\ NeedsYes(op[c]) => Shown(c) \in said

(* No rule gets an action that moves, forwards or deletes mail unless the  *)
(* user has said yes to a prompt that named it, also when the script stops *)
(* half-way.                                                               *)
DangerNeedsYes ==
  \A c \in Calls : left[c] # None =>
    LET before == IF hit[c] = None THEN {} ELSE hit[c].acts
    IN  (left[c].acts \ before) \cap {"move", "delete"} # {} => Shown(c) \in said

(* A call that reports success has done all of what it was asked and kept  *)
(* the actions it does not know; one that says it was refused, or that the *)
(* rule is no longer the one confirmed, has changed nothing.               *)
ReportIsTrue ==
  \A c \in Calls :
    /\ pc[c] \in Refused => hit[c] = None /\ left[c] = None
    /\ pc[c] = "ok" /\ left[c] # None =>
         LET o == op[c] IN
           /\ o.name # None => left[c].name = o.name
           /\ o.enabled # None => left[c].enabled = o.enabled
           /\ o.scope # None => left[c].scope = o.scope
           /\ o.acts # {} => left[c].acts \cap Supported = o.acts
           /\ "move" \in o.acts => left[c].dest = o.dest
           /\ hit[c] # None => hit[c].acts \cap Unsupported \subseteq left[c].acts
===============================================================================
