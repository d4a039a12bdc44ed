------------------------------ MODULE ConfirmGate ------------------------------
(***************************************************************************)
(* The gates a tool of one rate-limit tier passes before it acts: the      *)
(* sliding window of RateLimiter (security.py) and the user's confirmation *)
(* (server.py, _elicit_confirmation).  A confirmed tool is `async def` and *)
(* runs on the event loop, which it keeps until its next await; the other  *)
(* tools run on worker threads beside it.                                  *)
(*                                                                         *)
(* On an MCP 2026-07-28 connection (`modern`) a confirmation takes two     *)
(* requests: an asking round, which hands its slot back, and a retry with  *)
(* the answer and the digest of what was asked.  On the older protocol the *)
(* tool waits for the answer, for a limited time.                          *)
(***************************************************************************)
EXTENDS Naturals, Sequences, FiniteSets

CONSTANTS
  Requests,     (* tool calls the client makes: a bound on the behaviour   *)
  Ops,          (* what a call asks for: the operation and its arguments   *)
  Confirmed,    (* the operations that ask the user first                  *)
  LooksUp,      (* those that await Mail between rate check and prompt     *)
  Digest,       (* [Ops -> ...]: the digest of what the prompt covers      *)
  MaxCalls, Window,  (* the tier's limit                                   *)
  MaxTime,      (* a bound on the clock                                    *)
  NoOp, Free

ASSUME GateAssumption ==
  /\ Confirmed \subseteq Ops /\ LooksUp \subseteq Confirmed
  /\ NoOp \notin Ops /\ Free \notin Requests
  /\ MaxCalls \in Nat \ {0} /\ Window \in Nat \ {0} /\ MaxTime \in Nat
  /\ Ops = DOMAIN Digest

VARIABLES
  modern,   (* the connection speaks the 2026-07-28 protocol               *)
  now,      (* time.monotonic()                                            *)
  window,   (* the tier's deque of call times                              *)
  loop,     (* the request that has the event loop                         *)
  pc,       (* where each request is                                       *)
  op,       (* what each request asks for                                  *)
  answer,   (* modern: the answer and state it carries; older: the reply   *)
            (* its prompt got in time                                      *)
  stamp,    (* the time a request read in check()                          *)
  asked,    (* modern: what the user has been asked                        *)
  answered  (* modern: the user's answers, each to what was shown          *)

vars == <<modern, now, window, loop, pc, op, answer, stamp, asked, answered>>

Answer   == [for : Ops, yes : BOOLEAN]
NoAnswer == [for |-> NoOp, yes |-> FALSE]

Ended == {"limited", "notFound", "asked", "blocked", "acted"}

TypeOK ==
  /\ modern \in BOOLEAN
  /\ now \in 0 .. MaxTime
  /\ window \in Seq(0 .. MaxTime)
  /\ loop \in Requests \cup {Free}
  /\ pc \in [Requests -> {"new", "tested", "lookup", "gate", "prompt", "act"}
                         \cup Ended]
  /\ op \in [Requests -> Ops \cup {NoOp}]
  /\ answer \in [Requests -> Answer \cup {NoAnswer}]
  /\ stamp \in [Requests -> 0 .. MaxTime]
  /\ asked \subseteq Ops
  /\ answered \subseteq Answer

Init ==
  /\ modern \in BOOLEAN
  /\ now = 0
  /\ window = <<>>
  /\ loop = Free
  /\ pc = [r \in Requests |-> "new"]
  /\ op = [r \in Requests |-> NoOp]
  /\ answer = [r \in Requests |-> NoAnswer]
  /\ stamp = [r \in Requests |-> 0]
  /\ asked = {}
  /\ answered = {}

Goto(r, label) == pc' = [pc EXCEPT ![r] = label]

-------------------------------------------------------------------------------
(* RateLimiter                                                             *)

(* The deque without the calls at its head that left the window.           *)
Unexpired(q, t) ==
  LET kept == {i \in 1 .. Len(q) : q[i] + Window > t}
  IN  IF kept = {} THEN <<>>
      ELSE SubSeq(q, CHOOSE i \in kept : \A j \in kept : i <= j, Len(q))

(* The tier has no slot left.  Mutant: one call too many.                  *)
OverFull(q) == Len(q) > MaxCalls
Full(q)     == Len(q) >= MaxCalls

(* The first half of check(): read the clock, drop what expired, compare.  *)
(* On a worker thread another check() may come before the second half.     *)
CheckTest(r, o, a) ==
  /\ pc[r] = "new"
  /\ o \in Confirmed => loop = Free
  /\ a # NoAnswer => modern /\ a \in answered /\ o \in Confirmed
  /\ op' = [op EXCEPT ![r] = o]
  /\ answer' = [answer EXCEPT ![r] = a]
  /\ stamp' = [stamp EXCEPT ![r] = now]
  /\ window' = Unexpired(window, now)
  /\ IF Full(window')
       THEN Goto(r, "limited") /\ UNCHANGED loop
       ELSE /\ Goto(r, "tested")
            /\ loop' = IF o \in Confirmed THEN r ELSE loop
  /\ UNCHANGED <<modern, now, asked, answered>>

(* What a slot records, the time of the call.  Mutant: when it expires.    *)
ExpirySlot(r) == stamp[r] + Window
Slot(r)       == stamp[r]

(* The second half: take the slot.  The tool goes on to its lookup, which  *)
(* awaits, to its prompt, or to its action.                                *)
CheckAppend(r) ==
  /\ pc[r] = "tested"
  /\ window' = Append(window, Slot(r))
  /\ IF op[r] \in LooksUp
       THEN Goto(r, "lookup") /\ loop' = Free
       ELSE /\ Goto(r, IF op[r] \in Confirmed THEN "gate" ELSE "act")
            /\ UNCHANGED loop
  /\ UNCHANGED <<modern, now, op, answer, stamp, asked, answered>>

(* refund(): give back the newest slot.  Mutant: nothing is given back.    *)
Kept(q)     == q
Refunded(q) == IF q = <<>> THEN q ELSE SubSeq(q, 1, Len(q) - 1)

(* _resolve_rule_name has answered; the tool has the event loop again.     *)
LookedUp(r) ==
  /\ pc[r] = "lookup"
  /\ loop = Free
  /\ \/ Goto(r, "gate") /\ loop' = r
     \/ Goto(r, "notFound") /\ UNCHANGED loop
  /\ UNCHANGED <<modern, now, window, op, answer, stamp, asked, answered>>

-------------------------------------------------------------------------------
(* Confirmation over two requests                                          *)

(* request_state is the digest of what was asked: an answer counts only    *)
(* when it matches the digest of this request.  Mutant: any answer counts. *)
AnyAnswer(r) == answer[r] # NoAnswer
Matches(r) == answer[r] # NoAnswer /\ Digest[answer[r].for] = Digest[op[r]]

Ask(r) ==
  /\ pc[r] = "gate" /\ modern
  /\ ~ Matches(r)
  /\ window' = Refunded(window)
  /\ asked' = asked \cup {op[r]}
  /\ Goto(r, "asked")
  /\ loop' = Free
  /\ UNCHANGED <<modern, now, op, answer, stamp, answered>>

Honor(r) ==
  /\ pc[r] = "gate" /\ modern
  /\ Matches(r)
  /\ Goto(r, IF answer[r].yes THEN "act" ELSE "blocked")
  /\ loop' = Free
  /\ UNCHANGED <<modern, now, window, op, answer, stamp, asked, answered>>

(* The client shows the user what it was asked and keeps the answer.       *)
UserAnswers(o, yes) ==
  /\ modern
  /\ o \in asked
  /\ answered' = answered \cup {[for |-> o, yes |-> yes]}
  /\ UNCHANGED <<modern, now, window, loop, pc, op, answer, stamp, asked>>

-------------------------------------------------------------------------------
(* Confirmation inside one request                                         *)

(* Send the prompt and wait; or there is no context to send it with.       *)
Elicit(r) ==
  /\ pc[r] = "gate" /\ ~ modern
  /\ Goto(r, "prompt") \/ Goto(r, "blocked")
  /\ loop' = Free
  /\ UNCHANGED <<modern, now, window, op, answer, stamp, asked, answered>>

(* The answer arrives in time.                                             *)
PromptAnswered(r, yes) ==
  /\ pc[r] = "prompt"
  /\ answer' = [answer EXCEPT ![r] = [for |-> op[r], yes |-> yes]]
  /\ Goto(r, IF yes THEN "act" ELSE "blocked")
  /\ UNCHANGED <<modern, now, window, loop, op, stamp, asked, answered>>

(* Mutants: the call proceeds, as before #226; the wait has no end.        *)
PromptFailsOpen(r) ==
  /\ pc[r] = "prompt"
  /\ Goto(r, "act")
  /\ UNCHANGED <<modern, now, window, loop, op, answer, stamp, asked, answered>>

PromptHangs(r) == FALSE

(* fail_after expires, or the client cannot prompt: the call is blocked.   *)
(* An answer that comes later finds nobody waiting.                        *)
PromptFails(r) ==
  /\ pc[r] = "prompt"
  /\ Goto(r, "blocked")
  /\ UNCHANGED <<modern, now, window, loop, op, answer, stamp, asked, answered>>

-------------------------------------------------------------------------------
Act(r) ==
  /\ pc[r] = "act"
  /\ Goto(r, "acted")
  /\ UNCHANGED <<modern, now, window, loop, op, answer, stamp, asked, answered>>

Tick ==
  /\ now < MaxTime
  /\ now' = now + 1
  /\ UNCHANGED <<modern, window, loop, pc, op, answer, stamp, asked, answered>>

(* What the server does with a request it has taken.                       *)
Serve(r) ==
  \/ CheckAppend(r) \/ LookedUp(r) \/ Ask(r) \/ Honor(r) \/ Elicit(r)
  \/ PromptFails(r) \/ Act(r)

Next ==
  \/ Tick
  \/ \E r \in Requests :
       \/ \E o \in Ops, a \in answered \cup {NoAnswer} : CheckTest(r, o, a)
       \/ Serve(r)
       \/ \E yes \in BOOLEAN : PromptAnswered(r, yes)
  \/ \E o \in asked, yes \in BOOLEAN : UserAnswers(o, yes)

Spec == Init /\ [][Next]_vars

(* The server's own steps are fair: the event loop runs what is ready, a   *)
(* lookup is bounded by the AppleScript timeout and a prompt by            *)
(* fail_after.  The user and the client owe nothing.                       *)
Fairness ==
  \A r \in Requests :
    /\ WF_vars(CheckAppend(r)) /\ SF_vars(LookedUp(r))
    /\ WF_vars(Ask(r) \/ Honor(r) \/ Elicit(r))
    /\ WF_vars(PromptFails(r)) /\ WF_vars(Act(r))

FairSpec == Spec /\ Fairness

-------------------------------------------------------------------------------
Acting(r) == pc[r] \in {"act", "acted"}

(* The limit of the tier: among the calls that were let through to act, no *)
(* window of `Window` holds more than MaxCalls, whatever asking rounds,    *)
(* refunds and rejected calls came between.                                *)
WindowBound ==
  \A t \in 0 .. now :
    Cardinality({r \in Requests : Acting(r) /\ stamp[r] <= t
                                            /\ stamp[r] + Window > t}) <= MaxCalls

(* A confirmed tool acts only after the user said yes to a prompt with the *)
(* same digest, in time; a yes that arrives late, a no, a missing context  *)
(* or a failing client never lets it through.                              *)
ConsentBeforeAct ==
  \A r \in Requests : Acting(r) /\ op[r] \in Confirmed =>
    /\ answer[r].yes
    /\ Digest[answer[r].for] = Digest[op[r]]
    /\ modern => answer[r] \in answered /\ answer[r].for \in asked

(* An asking round is not charged: a call that was only asked about leaves *)
(* no slot of its own behind, so once the client has confirmed, the slots  *)
(* taken are those of calls that went past the gate or are still at it.    *)
AskingIsFree ==
  Len(window) <= Cardinality({r \in Requests :
    pc[r] \in {"lookup", "gate", "prompt", "act", "blocked", "notFound", "acted"}})

(* Every request ends, also when the client takes a prompt and never       *)
(* answers it (Claude Code in print mode).                                 *)
RequestsEnd ==
  \A r \in Requests : pc[r] # "new" ~> pc[r] \in Ended
===============================================================================
