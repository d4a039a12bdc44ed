-------------------------- MODULE MailboxTree_proofs --------------------------
(***************************************************************************)
(* For any account, any calls and any number of edits by the owner:        *)
(*                                                                         *)
(* DestroyedOnlyInStaging.  The shape of the tree plays no part: what      *)
(* carries the proof is that a call counts and deletes only behind its     *)
(* prompt (Behind), that it comes to the prompt only by a check of its     *)
(* path, and that what it was asked never changes afterwards (Settled).    *)
(*                                                                         *)
(* StagingSucceeds.  What a call that nothing has spoilt has listed is     *)
(* still what there is (Steady), and the others' commands either leave the *)
(* tree or spoil it (Beside).                                              *)
(*                                                                         *)
(* TypeCorrect.  RENAME and CREATE leave a tree (RenamedTree, MadeTree).   *)
(***************************************************************************)
EXTENDS MailboxTree, SequenceTheorems, TLAPS

Labels ==
  Ended \cup {"new", "prompt", "list", "ensure", "mailEnsure", "move", "rename", "count", "delete",
              "imapRename", "mailRename", "mailCreate"}

Typed ==
  /\ pc \in [Calls -> Labels]
  /\ want \in [Calls -> Wants \cup {None}]
  /\ yes \in [Calls -> BOOLEAN]
  /\ killer \in [Messages -> Calls \cup {None}]

(* A path that the tools may delete for good.                              *)
MayGo(w) == w.tool = "delete" /\ (StagingOn => w.at[1] \in {Leaf(Staging), Leaf(Variant)})

Behind ==
  \A c \in Calls :
    /\ pc[c] \in {"prompt", "count", "delete"} => MayGo(want[c])
    /\ pc[c] \in {"count", "delete"} => yes[c]

(* A call that has destroyed a message is past the steps at which what it  *)
(* wants, and the answer to its prompt, are set.                           *)
Settled ==
  \A m \in Messages : killer[m] # None => pc[killer[m]] \notin {"new", "prompt"}

IInv == Typed /\ Behind /\ Settled /\ DestroyedWhereAsked

(* The tool's test, which does not mind the case, is true of no other name *)
(* than the two that differ in case only.                                  *)
LEMMA StagingByName ==
  ASSUME NEW w \in Wants, InStaging(w.at)
  PROVE  w.at[1] \in {Leaf(Staging), Leaf(Variant)}
<1>1. w.at \in Seq(Leaves) /\ w.at # <<>>
  BY TreeAssumption DEF Paths
<1>2. w.at[1] \in Names \X Seq(Nat)
  BY <1>1 DEF Leaves
<1>3. w.at[1] = <<w.at[1][1], w.at[1][2]>>
  BY <1>2
<1>4. CASE w.at[1][1] = Variant
  <2>1. <<Staging, w.at[1][2]>> = <<Staging, <<>> >>
    BY <1>4 DEF InStaging, Fold, Leaf
  <2>2. w.at[1][2] = <<>>
    BY <2>1
  <2> QED BY <1>3, <1>4, <2>2 DEF Leaf
<1>5. CASE w.at[1][1] # Variant
  BY <1>5 DEF InStaging, Fold
<1> QED BY <1>4, <1>5

(* The invariant holds at first.                                           *)
LEMMA InitIInv == Init => IInv
<1> SUFFICES ASSUME Init PROVE IInv
  OBVIOUS
<1>1. /\ pc = [c \in Calls |-> "new"]
      /\ want = [c \in Calls |-> None]
      /\ yes = [c \in Calls |-> FALSE]
      /\ killer = [m \in Messages |-> None]
  BY DEF Init
<1>2. Typed
  BY <1>1 DEF Typed, Labels
<1>3. Behind
  BY <1>1 DEF Behind
<1>4. Settled /\ DestroyedWhereAsked
  BY <1>1 DEF Settled, DestroyedWhereAsked
<1> QED BY <1>2, <1>3, <1>4 DEF IInv

(* Steps that leave alone what is asked, answered and destroyed, and bring *)
(* nobody to the labels of a delete.                                       *)
LEMMA Elsewhere ==
  ASSUME IInv, UNCHANGED <<want, yes, killer>>, pc' \in [Calls -> Labels],
         \A c \in Calls : pc'[c] = pc[c] \/
           (pc[c] # "new" /\ pc'[c] \notin {"new", "prompt", "count", "delete"})
  PROVE  IInv'
<1> USE DEF IInv
<1>1. Typed'
  BY DEF Typed
<1>2. Behind'
  BY DEF Behind
<1>3. Settled'
  BY DEF Settled, Typed
<1>4. DestroyedWhereAsked'
  BY DEF DestroyedWhereAsked
<1> QED BY <1>1, <1>2, <1>3, <1>4

(* The tools' checks: a call reaches its prompt only with a path that may  *)
(* go.                                                                     *)
LEMMA StepRequest ==
  ASSUME IInv, NEW c \in Calls, NEW w \in Wants, Request(c, w)
  PROVE  IInv'
<1> DEFINE label ==
      CASE w.tool = "delete" ->
             IF ~ StagingOn \/ InStaging(w.at) THEN "prompt"
             ELSE IF w.at = InboxPath \/ IsGmail(w.at) THEN "refused" ELSE "list"
        [] w.tool = "update" ->
             IF IsGmail(w.at) \/ (~ w.rename /\ IsGmail(w.to)) THEN "refused"
             ELSE IF w.rename THEN "mailRename" ELSE "imapRename"
        [] w.tool = "create" -> "mailCreate"
        [] w.tool = "messages" -> "list"
<1>1. /\ pc[c] = "new"
      /\ want' = [want EXCEPT ![c] = w]
      /\ yes' = yes /\ killer' = killer
      /\ pc' = [pc EXCEPT ![c] = label]
  BY DEF Request, tree, Goto
<1>2. label \in {"refused", "list", "prompt", "mailRename", "imapRename", "mailCreate"}
  <2>1. w.tool \in {"delete", "update", "create", "messages"}
    BY TreeAssumption
  <2> QED BY <2>1
<1>3. label = "prompt" => MayGo(w)
  <2>1. w.tool \in {"delete", "update", "create", "messages"}
    BY TreeAssumption
  <2>2. w.tool # "delete" => label # "prompt"
    BY <2>1
  <2>3. w.tool = "delete" /\ StagingOn /\ ~ InStaging(w.at) => label # "prompt"
    OBVIOUS
  <2> QED BY <2>2, <2>3, StagingByName DEF MayGo
<1> HIDE DEF label
<1> USE DEF IInv
<1>4. Typed'
  BY <1>1, <1>2 DEF Typed, Labels, Ended
<1>5. Behind'
  BY <1>1, <1>2, <1>3 DEF Typed, Behind
<1>6. Settled'
  BY <1>1 DEF Typed, Settled
<1>7. DestroyedWhereAsked'
  BY <1>1 DEF Typed, Settled, DestroyedWhereAsked
<1> QED BY <1>4, <1>5, <1>6, <1>7

(* The user answers.                                                       *)
LEMMA StepPrompt ==
  ASSUME IInv, NEW c \in Calls, NEW reply \in BOOLEAN, Prompt(c, reply)
  PROVE  IInv'
<1>1. /\ pc[c] = "prompt"
      /\ yes' = [yes EXCEPT ![c] = reply]
      /\ pc'[c] \in {"blocked", "refused", "count"}
      /\ pc'[c] = "count" => reply
      /\ pc' = [pc EXCEPT ![c] = pc'[c]]
      /\ want' = want /\ killer' = killer
  BY DEF Prompt, tree, Goto, IInv, Typed
<1> USE DEF IInv
<1>2. Typed'
  BY <1>1 DEF Typed, Labels, Ended
<1>3. Behind'
  BY <1>1 DEF Typed, Behind
<1>4. Settled'
  BY <1>1 DEF Typed, Settled
<1>5. DestroyedWhereAsked'
  BY <1>1 DEF Typed, Settled, DestroyedWhereAsked
<1> QED BY <1>2, <1>3, <1>4, <1>5

(* The count, and the only step that destroys messages.                    *)
LEMMA StepCount ==
  ASSUME IInv, NEW c \in Calls, Count(c)
  PROVE  IInv'
<1>1. /\ pc[c] = "count"
      /\ pc'[c] \in {"refused", "notFound", "notEmpty", "delete"}
      /\ pc' = [pc EXCEPT ![c] = pc'[c]]
      /\ want' = want /\ yes' = yes /\ killer' = killer
  BY DEF Count, tree, call, Goto, IInv, Typed
<1> USE DEF IInv
<1>2. Typed'
  BY <1>1 DEF Typed, Labels, Ended
<1>3. Behind'
  BY <1>1 DEF Typed, Behind
<1>4. (Settled /\ DestroyedWhereAsked)'
  BY <1>1 DEF Typed, Settled, DestroyedWhereAsked
<1> QED BY <1>2, <1>3, <1>4

(* What DELETE takes with it was under the staging mailbox, after a yes.   *)
LEMMA StepDelete ==
  ASSUME IInv, NEW c \in Calls, Delete(c)
  PROVE  IInv'
<1>1. /\ pc[c] = "delete"
      /\ pc'[c] \in {"notFound", "failed", "ok"}
      /\ pc' = [pc EXCEPT ![c] = pc'[c]]
      /\ want' = want /\ yes' = yes
  BY DEF Delete, Changes, Failing, call, Goto, IInv, Typed
<1>2. \A m \in Messages : killer'[m] \in {killer[m], c}
  BY DEF Delete, IInv, Typed
<1>3. killer' \in [Messages -> Calls \cup {None}]
  BY <1>2 DEF Delete, IInv, Typed
<1> USE DEF IInv
<1>4. Typed'
  BY <1>1, <1>3 DEF Typed, Labels, Ended
<1>5. Behind'
  BY <1>1 DEF Typed, Behind
<1>6. Settled'
  BY <1>1, <1>2 DEF Typed, Settled
<1>7. DestroyedWhereAsked'
  BY <1>1, <1>2 DEF Typed, Behind, MayGo, DestroyedWhereAsked
<1> QED BY <1>4, <1>5, <1>6, <1>7

(* The other steps of a call.                                              *)
LEMMA StepOther ==
  ASSUME IInv, NEW c \in Calls,
         \/ NoImap(c) \/ List(c) \/ Ensure(c) \/ MailEnsure(c) \/ StageRename(c) \/ ImapRename(c)
         \/ MailRename(c) \/ MailCreate(c) \/ MoveMessages(c) \/ Breaks(c)
  PROVE  IInv'
<1> DEFINE Later == Labels \ {"new", "prompt", "count", "delete"}
<1> SUFFICES /\ UNCHANGED <<want, yes, killer>>
             /\ pc[c] # "new" /\ \E l \in Later : pc' = [pc EXCEPT ![c] = l]
  BY Elsewhere DEF IInv, Typed, Labels
<1> USE DEF Goto, tree, call
<1>0. Failing(c) \in Later /\ "failed" \in Later
  BY DEF Failing, Labels, Ended
<1>1. CASE List(c)
  <2> DEFINE label ==
        IF want[c].tool = "messages" THEN "ensure"
        ELSE IF want[c].at \notin Existing THEN "notFound"
        ELSE IF Inside(want[c].at, Root) THEN "refused" ELSE "ensure"
  <2>1. label \in Later
    BY DEF Labels, Ended
  <2> HIDE DEF label
  <2>2. pc' = [pc EXCEPT ![c] = label]
    BY <1>1 DEF List, label
  <2> QED BY <1>1, <2>1, <2>2 DEF List
<1>2. CASE Ensure(c)
  BY <1>0, <1>2 DEF Ensure, After, Changes, Labels, Ended
<1>3. CASE StageRename(c)
  BY <1>0, <1>3 DEF StageRename, Changes, Labels, Ended
<1>4. CASE ImapRename(c)
  BY <1>0, <1>4 DEF ImapRename, InboxRename, Changes, Labels, Ended
<1>5. CASE MailRename(c)
  BY <1>0, <1>5 DEF MailRename, InboxRename, Changes, Labels, Ended
<1>6. CASE MailCreate(c)
  BY <1>0, <1>6 DEF MailCreate, Changes, Labels, Ended
<1>7. CASE MoveMessages(c)
  BY <1>7 DEF MoveMessages, Labels, Ended
<1>8. CASE Breaks(c)
  BY <1>0, <1>8 DEF Breaks, Busy, Labels, Ended
<1>9. CASE MailEnsure(c)
  BY <1>0, <1>9 DEF MailEnsure, Changes, Labels, Ended
<1>10. CASE NoImap(c)
  BY <1>10 DEF NoImap, Labels, Ended
<1> QED BY <1>1, <1>2, <1>3, <1>4, <1>5, <1>6, <1>7, <1>8, <1>9, <1>10

(* Every step keeps the invariant.                                         *)
LEMMA StepIInv == IInv /\ [Next]_vars => IInv'
<1> SUFFICES ASSUME IInv, [Next]_vars PROVE IInv'
  OBVIOUS
<1>1. ASSUME NEW c \in Calls,
             \/ \E w \in Wants : Request(c, w)
             \/ \E reply \in BOOLEAN : Prompt(c, reply)
             \/ NoImap(c) \/ List(c) \/ Ensure(c) \/ MailEnsure(c) \/ StageRename(c)
             \/ Count(c) \/ Delete(c)
             \/ ImapRename(c) \/ MailRename(c) \/ MailCreate(c) \/ MoveMessages(c) \/ Breaks(c)
      PROVE  IInv'
  BY <1>1, StepRequest, StepPrompt, StepCount, StepDelete, StepOther
<1>2. ASSUME NEW m \in Messages, NEW b \in Boxes, Arrive(m, b) PROVE IInv'
  BY <1>2, Elsewhere DEF Arrive, call, IInv, Typed
<1>3. CASE OwnerEdits
  BY <1>3, Elsewhere DEF OwnerEdits, call, IInv, Typed
<1>4. CASE UNCHANGED vars
  BY <1>4, Elsewhere DEF vars, tree, call, IInv, Typed
<1> QED BY <1>1, <1>2, <1>3, <1>4 DEF Next

-------------------------------------------------------------------------------
(* With staging on, messages are destroyed only by a delete the user said  *)
(* yes to, of the staging mailbox or of one inside it.                     *)
THEOREM DestroyedOnlyInStaging == Spec => []DestroyedWhereAsked
<1>1. Init => IInv
  BY InitIInv
<1>2. IInv /\ [Next]_vars => IInv'
  BY StepIInv
<1>3. IInv => DestroyedWhereAsked
  BY DEF IInv
<1> QED BY <1>1, <1>2, <1>3, PTL DEF Spec

-------------------------------------------------------------------------------
(* What the commands leave is a tree                                       *)

Parts == Leaves

(* A name without a number is a leaf.                                      *)
LEMMA LeafOfName ==
  ASSUME NEW n \in Names
  PROVE  Leaf(n) \in Leaves
<1>1. <<>> \in Seq(Nat)
  OBVIOUS
<1> QED BY <1>1 DEF Leaf, Leaves

(* The staging mailbox has a path.                                         *)
LEMMA RootIsPath == Root \in Paths
<1>1. Root \in Seq(Leaves) /\ Root # <<>>
  BY TreeAssumption, LeafOfName DEF Root
<1> QED BY <1>1 DEF Paths

(* What RENAME leaves of a path behind the mailbox it renames.             *)
Rest(p, q) == SubSeq(p, Len(q) + 1, Len(p))

(* A path is what it is inside of and the rest; the rest can be put behind *)
(* another path.                                                           *)
LEMMA Transplanted ==
  ASSUME NEW p \in Seq(Parts), NEW q \in Seq(Parts), NEW r \in Seq(Parts), Inside(p, q)
  PROVE  /\ p = q \o Rest(p, q)
         /\ r \o Rest(p, q) \in Seq(Parts)
         /\ Len(r \o Rest(p, q)) = Len(r) + Len(p) - Len(q)
         /\ Inside(r \o Rest(p, q), r)
<1> DEFINE x == Rest(p, q)
<1>1. /\ Len(p) \in Nat /\ Len(q) \in Nat /\ Len(q) <= Len(p)
      /\ SubSeq(q, 1, Len(q)) = SubSeq(p, 1, Len(q))
  BY DEF Inside, IsPrefix
<1>2. \A i \in 1 .. Len(q) : q[i] = p[i]
  <2> TAKE i \in 1 .. Len(q)
  <2>1. SubSeq(q, 1, Len(q))[i] = q[i] /\ SubSeq(p, 1, Len(q))[i] = p[i]
    BY <1>1
  <2> QED BY <1>1, <2>1
<1>3. /\ x \in Seq(Parts) /\ Len(x) = Len(p) - Len(q)
      /\ \A i \in 1 .. Len(x) : x[i] = p[Len(q) + i]
  BY <1>1 DEF Rest
<1> HIDE DEF x
<1>4. /\ r \o x \in Seq(Parts) /\ Len(r \o x) = Len(r) + Len(x)
      /\ \A i \in 1 .. Len(r) : (r \o x)[i] = r[i]
  <2>1. Len(x) \in Nat /\ Len(r) \in Nat
    BY <1>3
  <2>2. /\ r \o x \in Seq(Parts) /\ Len(r \o x) = Len(r) + Len(x)
        /\ \A i \in 1 .. Len(r) + Len(x) : (r \o x)[i] = IF i <= Len(r) THEN r[i] ELSE x[i - Len(r)]
    BY <1>3, ConcatProperties, Zenon
  <2>3. \A i \in 1 .. Len(r) : (r \o x)[i] = r[i]
    <3> TAKE i \in 1 .. Len(r)
    <3>1. i \in 1 .. Len(r) + Len(x) /\ i <= Len(r)
      BY <2>1
    <3> QED BY <2>2, <3>1
  <2> QED BY <2>2, <2>3
<1>5. p = q \o x
  <2>1. /\ q \o x \in Seq(Parts) /\ Len(q \o x) = Len(p)
        /\ \A i \in 1 .. Len(q) : (q \o x)[i] = q[i]
        /\ \A i \in Len(q) + 1 .. Len(p) : (q \o x)[i] = x[i - Len(q)]
    BY <1>1, <1>3
  <2>2. \A i \in 1 .. Len(p) : (q \o x)[i] = p[i]
    <3> TAKE i \in 1 .. Len(p)
    <3>1. CASE i \in 1 .. Len(q)
      BY <1>2, <2>1, <3>1
    <3>2. CASE i \notin 1 .. Len(q)
      <4>1. i - Len(q) \in 1 .. Len(x) /\ i \in Len(q) + 1 .. Len(p)
        BY <1>1, <1>3, <3>2
      <4>2. x[i - Len(q)] = p[Len(q) + (i - Len(q))] /\ Len(q) + (i - Len(q)) = i
        BY <1>1, <1>3, <4>1
      <4> QED BY <2>1, <4>1, <4>2
    <3> QED BY <3>1, <3>2
  <2> QED BY <2>1, <2>2, SeqEqual
<1>6. Inside(r \o x, r)
  <2>1. Len(r) \in Nat /\ Len(r) <= Len(r \o x)
    BY <1>1, <1>3, <1>4
  <2>2. SubSeq(r, 1, Len(r)) = SubSeq(r \o x, 1, Len(r))
    BY <1>4, <2>1
  <2> QED BY <2>1, <2>2 DEF Inside, IsPrefix
<1> QED BY <1>1, <1>3, <1>4, <1>5, <1>6 DEF x

(* Two paths that get the same path by it were the same.                   *)
LEMMA TransplantedOnce ==
  ASSUME NEW p \in Seq(Parts), NEW o \in Seq(Parts), NEW q \in Seq(Parts), NEW r \in Seq(Parts),
         Inside(p, q), Inside(o, q), r \o Rest(p, q) = r \o Rest(o, q)
  PROVE  p = o
<1>1. Rest(p, q) \in Seq(Parts) /\ Rest(o, q) \in Seq(Parts)
  BY DEF Rest, Inside, IsPrefix
<1>2. \A s, t, v \in Seq(Parts) : s \o t = s \o v => t = v
  BY ConcatSimplifications, Zenon
<1>3. Rest(p, q) = Rest(o, q)
  BY <1>1, <1>2
<1>4. p = q \o Rest(p, q) /\ o = q \o Rest(o, q)
  BY Transplanted
<1> QED BY <1>3, <1>4

(* What a RENAME that is not refused leaves is a tree.                     *)
LEMMA RenamedTree ==
  ASSUME IsTree(path), NEW b \in Boxes, path[b] # None, NEW to \in Paths, CanRename(b, to)
  PROVE  IsTree(Renamed(b, to))
<1> DEFINE new == Renamed(b, to)
<1>1. /\ DOMAIN new = Boxes
      /\ \A d \in Boxes : Carried(d, b) => new[d] = to \o Rest(path[d], path[b])
      /\ \A d \in Boxes : ~ Carried(d, b) => new[d] = path[d]
  BY DEF Renamed, Moved, Rest
<1>2. \A d \in Boxes : Carried(d, b) =>
        /\ path[d] \in Seq(Parts) /\ path[b] \in Seq(Parts) /\ to \in Seq(Parts) /\ Inside(path[d], path[b])
        /\ path[d] # None /\ new[d] \in Paths /\ new[d] \notin Existing
  <2> TAKE d \in Boxes
  <2> HAVE Carried(d, b)
  <2>1. /\ path[d] \in Seq(Parts) /\ path[b] \in Seq(Parts) /\ to \in Seq(Parts) /\ to # <<>>
        /\ path[d] # None /\ Inside(path[d], path[b])
    BY DEF IsTree, Carried, Paths, Parts
  <2>2. /\ new[d] \in Seq(Parts)
        /\ Len(new[d]) = Len(to) + Len(path[d]) - Len(path[b])
    <3>1. /\ to \o Rest(path[d], path[b]) \in Seq(Parts)
          /\ Len(to \o Rest(path[d], path[b])) = Len(to) + Len(path[d]) - Len(path[b])
      BY <2>1, Transplanted
    <3> QED BY <1>1, <3>1
  <2>3. Len(path[b]) <= Len(path[d]) /\ Len(to) > 0
    BY <2>1 DEF Inside, IsPrefix
  <2>4. new[d] # <<>>
    <3> HIDE DEF new
    <3>1. Len(path[d]) \in Nat /\ Len(path[b]) \in Nat /\ Len(to) \in Nat
      BY <2>1
    <3>2. Len(new[d]) # 0
      BY <2>2, <2>3, <3>1
    <3>3. Len(<<>>) = 0
      OBVIOUS
    <3> QED BY <3>2, <3>3, Zenon
  <2>5. new[d] \notin Existing
    BY <1>1 DEF CanRename, Moved, Rest
  <2> QED BY <2>1, <2>2, <2>4, <2>5 DEF Paths, Parts
<1>3. ASSUME NEW d \in Boxes, new[d] # None PROVE new[d] \in Paths
  BY <1>1, <1>2, <1>3 DEF IsTree
<1>4. ASSUME NEW d \in Boxes, NEW e \in Boxes, new[d] = new[e], new[d] # None PROVE d = e
  <2>1. CASE Carried(d, b) /\ Carried(e, b)
    <3>1. path[d] = path[e]
      <4>1. to \o Rest(path[d], path[b]) = to \o Rest(path[e], path[b])
        BY <1>1, <1>4, <2>1
      <4>2. /\ path[d] \in Seq(Parts) /\ path[e] \in Seq(Parts)
            /\ path[b] \in Seq(Parts) /\ to \in Seq(Parts)
            /\ Inside(path[d], path[b]) /\ Inside(path[e], path[b])
        BY <1>2, <2>1
      <4> QED BY <4>1, <4>2, TransplantedOnce
    <3> QED BY <1>2, <2>1, <3>1 DEF IsTree
  <2>2. CASE ~ Carried(d, b) /\ ~ Carried(e, b)
    BY <1>1, <1>4, <2>2 DEF IsTree
  <2>3. CASE Carried(d, b) # Carried(e, b)
    <3>1. \A f \in Boxes : ~ Carried(f, b) /\ new[f] # None => new[f] \in Existing
      BY <1>1 DEF Existing
    <3> QED BY <1>2, <1>4, <2>3, <3>1 DEF Carried
  <2> QED BY <2>1, <2>2, <2>3
<1> QED BY <1>1, <1>3, <1>4 DEF IsTree

(* CREATE adds one, at a path that was free.                               *)
LEMMA MadeTree ==
  ASSUME IsTree(path), NEW to \in Paths \ Existing, NEW new \in Made(to)
  PROVE  IsTree(new)
<1>1. PICK b \in Boxes : path[b] = None /\ new = [path EXCEPT ![b] = to]
  BY DEF Made
<1>2. DOMAIN new = Boxes /\ new[b] = to /\ \A d \in Boxes \ {b} : new[d] = path[d]
  BY <1>1 DEF IsTree
<1>3. \A d \in Boxes \ {b} : new[d] # None => new[d] # to
  BY <1>2 DEF Existing
<1> QED BY <1>2, <1>3 DEF IsTree

(* DELETE takes one mailbox away.                                          *)
LEMMA RemovedTree ==
  ASSUME IsTree(path), NEW b \in Boxes
  PROVE  IsTree([path EXCEPT ![b] = None])
BY DEF IsTree

-------------------------------------------------------------------------------
(* When staging may fail                                                   *)

Framed ==
  /\ pc \in [Calls -> Labels]
  /\ spoilt \in [Calls -> BOOLEAN]
  /\ DOMAIN want = Calls /\ DOMAIN listed = Calls
  /\ IsTree(path)

(* What a call that nothing has spoilt still knows of the tree: its LIST   *)
(* is what there is, but for the staging mailbox it has made since, and    *)
(* the mailbox it stages is where it was, outside the staging mailbox.     *)
Steady(c) ==
  /\ pc[c] # "new" => want[c] \in Wants
  /\ pc[c] \in {"imapRename", "mailRename"} => want[c].tool = "update"
  /\ pc[c] = "mailCreate" => want[c].tool = "create"
  /\ pc[c] = "ensure" /\ ~ spoilt[c] =>
       /\ listed[c] = Existing
       /\ want[c].tool # "messages" => want[c].at \in Existing
  /\ pc[c] \in {"rename", "move"} /\ ~ spoilt[c] => Root \in Existing
  /\ pc[c] = "rename" /\ ~ spoilt[c] => Existing \subseteq listed[c] \cup {Root}
  /\ pc[c] \in {"mailEnsure", "move"} => want[c].tool = "messages"
  /\ pc[c] = "ensure" /\ want[c].tool # "messages" => ~ Inside(want[c].at, Root)
  /\ pc[c] = "rename" => ~ Inside(want[c].at, Root)
  /\ pc[c] = "rename" /\ ~ spoilt[c] => want[c].at \in Existing

Undisturbed == Framed /\ \A c \in Calls : Steady(c)

(* The step does not make c's staging fail, or has an excuse.              *)
Excused(c) ==
  pc[c] # "failed" /\ pc'[c] = "failed" /\ want[c].tool \in {"delete", "messages"} =>
    spoilt'[c] \/ (pc[c] = "rename" /\ LeftUnder(c))

Proper == Undisturbed' /\ \A c \in Calls : Excused(c)

(* What a step of c is to the calls beside it: either the tree stays, or   *)
(* those under way are spoilt.                                             *)
Beside(c) ==
  \A d \in Calls \ {c} :
    /\ pc'[d] = pc[d] /\ want'[d] = want[d] /\ listed'[d] = listed[d]
    /\ spoilt[d] => spoilt'[d]
    /\ path' = path \/ (Busy(d) => spoilt'[d])

(* Either way the others know what they knew.                              *)
LEMMA BesideSteady ==
  ASSUME NEW c, Beside(c), NEW d \in Calls \ {c}, Steady(d)
  PROVE  Steady(d)'
<1>1. /\ pc'[d] = pc[d] /\ want'[d] = want[d] /\ listed'[d] = listed[d]
      /\ spoilt[d] => spoilt'[d]
      /\ path' = path \/ (Busy(d) => spoilt'[d])
  BY DEF Beside
<1>2. CASE path' = path
  <2>1. Existing' = Existing
    BY <1>2 DEF Existing
  <2> QED BY <1>1, <2>1 DEF Steady
<1>3. CASE Busy(d) => spoilt'[d]
  <2>1. pc[d] \in {"ensure", "rename", "move"} => spoilt'[d]
    BY <1>3 DEF Busy, Ended
  <2> QED BY <1>1, <2>1 DEF Steady
<1> QED BY <1>1, <1>2, <1>3

(* It is enough, then, to look at the call that takes the step.            *)
LEMMA Together ==
  ASSUME Undisturbed, NEW c, Framed', Beside(c), c \in Calls => Steady(c)' /\ Excused(c)
  PROVE  Proper
<1>1. ASSUME NEW d \in Calls \ {c} PROVE Steady(d)' /\ Excused(d)
  <2>1. Steady(d)'
    BY BesideSteady DEF Undisturbed
  <2>2. Excused(d)
    BY DEF Beside, Excused
  <2> QED BY <2>1, <2>2
<1> QED BY <1>1 DEF Undisturbed, Proper

(* A command that changes the tree, with or without its reply.             *)
LEMMA ChangesBeside ==
  ASSUME Framed, NEW c \in Calls, NEW new, NEW label \in Labels, Changes(c, new, label),
         Busy(c), IsTree(new), UNCHANGED <<want, listed>>
  PROVE  /\ Framed' /\ Beside(c) /\ path' = new
         /\ \/ pc'[c] = label /\ spoilt'[c] = spoilt[c]
            \/ pc'[c] = Failing(c) /\ spoilt'[c]
<1>1. path' = new
  BY DEF Changes
<1>2. CASE Goto(c, label) /\ Spoils(c)
  <2>1. pc' = [pc EXCEPT ![c] = label]
        /\ spoilt' = [d \in Calls |-> spoilt[d] \/ (d # c /\ Busy(d))]
    BY <1>2 DEF Goto, Spoils
  <2>2. spoilt' \in [Calls -> BOOLEAN] /\ spoilt'[c] = spoilt[c]
    BY <2>1 DEF Framed
  <2>3. \A d \in Calls \ {c} : spoilt'[d] = (spoilt[d] \/ Busy(d))
    BY <2>1
  <2>4. Framed'
    BY <1>1, <2>1, <2>2 DEF Framed, IsTree
  <2>5. Beside(c)
    BY <2>1, <2>3 DEF Beside, Framed
  <2> QED BY <1>1, <2>1, <2>2, <2>4, <2>5 DEF Framed
<1>3. CASE Goto(c, Failing(c)) /\ spoilt' = [d \in Calls |-> spoilt[d] \/ Busy(d)]
  <2>1. pc' = [pc EXCEPT ![c] = Failing(c)] /\ Failing(c) \in Labels
    BY <1>3 DEF Goto, Failing, Labels, Ended
  <2>2. spoilt' \in [Calls -> BOOLEAN] /\ spoilt'[c]
    BY <1>3 DEF Framed
  <2>3. \A d \in Calls \ {c} : spoilt'[d] = (spoilt[d] \/ Busy(d))
    BY <1>3
  <2>4. Framed'
    BY <1>1, <2>1, <2>2 DEF Framed, IsTree
  <2>5. Beside(c)
    BY <2>1, <2>3 DEF Beside, Framed
  <2> QED BY <1>1, <2>1, <2>2, <2>4, <2>5 DEF Framed
<1> QED BY <1>2, <1>3 DEF Changes

(* A step that leaves the tree and what is spoilt alone.                   *)
LEMMA QuietBeside ==
  ASSUME Framed, NEW c \in Calls, NEW label \in Labels, Goto(c, label),
         UNCHANGED <<want, listed, path, spoilt>>
  PROVE  Framed' /\ Beside(c) /\ pc'[c] = label /\ Existing' = Existing
BY DEF Framed, IsTree, Beside, Goto, Existing

(* The staging mailbox, made.                                              *)
LEMMA MadeRoot ==
  ASSUME Framed, NEW new \in Made(Root), path' = new
  PROVE  Existing' = Existing \cup {Root}
<1>1. PICK b \in Boxes : path[b] = None /\ new = [path EXCEPT ![b] = Root]
  BY DEF Made
<1>2. Root # None
  BY RootIsPath, TreeAssumption
<1>3. DOMAIN new = Boxes /\ new[b] = Root /\ \A d \in Boxes \ {b} : new[d] = path[d]
  BY <1>1 DEF Framed, IsTree
<1> QED BY <1>1, <1>2, <1>3 DEF Existing

(* The tools' checks, and the answer of the user.                          *)
LEMMA BeginSteady ==
  ASSUME Undisturbed, NEW c \in Calls,
         \/ \E w \in Wants : Request(c, w)
         \/ \E reply \in BOOLEAN : Prompt(c, reply)
         \/ NoImap(c) \/ Count(c)
  PROVE  Proper
<1> DEFINE Begun == {"prompt", "refused", "blocked", "list", "count", "notFound", "notEmpty",
                     "delete", "mailEnsure", "mailRename", "imapRename", "mailCreate"}
<1>1. ASSUME NEW w \in Wants, Request(c, w)
      PROVE  /\ pc'[c] \in Begun /\ pc' = [pc EXCEPT ![c] = pc'[c]]
             /\ want' = [want EXCEPT ![c] = w]
             /\ pc'[c] \in {"imapRename", "mailRename"} => w.tool = "update"
             /\ pc'[c] = "mailCreate" => w.tool = "create"
             /\ pc'[c] # "mailEnsure"
  <2> DEFINE label ==
        CASE w.tool = "delete" ->
               IF ~ StagingOn \/ InStaging(w.at) THEN "prompt"
               ELSE IF w.at = InboxPath \/ IsGmail(w.at) THEN "refused" ELSE "list"
          [] w.tool = "update" ->
               IF IsGmail(w.at) \/ (~ w.rename /\ IsGmail(w.to)) THEN "refused"
               ELSE IF w.rename THEN "mailRename" ELSE "imapRename"
          [] w.tool = "create" -> "mailCreate"
          [] w.tool = "messages" -> "list"
  <2>1. w.tool \in {"delete", "update", "create", "messages"}
    BY TreeAssumption
  <2>2. label \in Begun
    BY <2>1
  <2>3. w.tool = "delete" => label \in {"prompt", "refused", "list"}
    OBVIOUS
  <2>4. w.tool = "messages" => label = "list"
    OBVIOUS
  <2>41. /\ w.tool = "update" => label \in {"refused", "mailRename", "imapRename"}
         /\ w.tool = "create" => label = "mailCreate"
    OBVIOUS
  <2>5. pc' = [pc EXCEPT ![c] = label] /\ want' = [want EXCEPT ![c] = w]
    BY <1>1 DEF Request, Goto
  <2> HIDE DEF label
  <2>42. w.tool # "messages" => label # "mailEnsure"
    BY <2>1, <2>3, <2>41
  <2>6. pc'[c] = label
    BY <2>5 DEF Undisturbed, Framed
  <2> QED BY <2>1, <2>2, <2>3, <2>4, <2>41, <2>42, <2>5, <2>6
<1>2. ASSUME \/ \E reply \in BOOLEAN : Prompt(c, reply)
             \/ NoImap(c) \/ Count(c)
      PROVE  /\ pc'[c] \in {"blocked", "refused", "count", "notFound", "notEmpty", "delete", "mailEnsure"}
             /\ pc' = [pc EXCEPT ![c] = pc'[c]] /\ want' = want /\ pc[c] # "new"
             /\ pc'[c] = "mailEnsure" => want[c].tool = "messages"
  BY <1>2 DEF Prompt, NoImap, Count, Goto, call, Undisturbed, Framed
<1>3. UNCHANGED <<path, listed, spoilt>>
  BY DEF Request, Prompt, NoImap, Count, tree, call
<1>4. /\ pc'[c] \in Begun /\ pc' = [pc EXCEPT ![c] = pc'[c]]
      /\ DOMAIN want' = Calls /\ \A d \in Calls \ {c} : want'[d] = want[d]
      /\ want'[c] \in Wants
      /\ pc'[c] \in {"imapRename", "mailRename"} => want'[c].tool = "update"
      /\ pc'[c] = "mailCreate" => want'[c].tool = "create"
      /\ pc'[c] = "mailEnsure" => want'[c].tool = "messages"
  <2>1. CASE \E w \in Wants : Request(c, w)
    BY <1>1, <2>1 DEF Undisturbed, Framed
  <2>2. CASE (\E reply \in BOOLEAN : Prompt(c, reply)) \/ NoImap(c) \/ Count(c)
    BY <1>2, <2>2 DEF Undisturbed, Framed, Steady
  <2> QED BY <2>1, <2>2
<1>5. Framed'
  BY <1>3, <1>4 DEF Undisturbed, Framed, IsTree, Labels, Ended
<1>6. Beside(c)
  BY <1>3, <1>4 DEF Beside, Undisturbed, Framed
<1>7. Steady(c)' /\ Excused(c)
  BY <1>4 DEF Steady, Excused
<1> QED BY <1>5, <1>6, <1>7, Together

(* What LIST shows is what there is.                                       *)
LEMMA ListSteady ==
  ASSUME Undisturbed, NEW c \in Calls, List(c)
  PROVE  Proper
<1>1. /\ listed' = [listed EXCEPT ![c] = Existing]
      /\ UNCHANGED <<want, path, spoilt>>
      /\ pc' = [pc EXCEPT ![c] = pc'[c]]
      /\ pc'[c] \in {"ensure", "notFound", "refused"}
      /\ pc[c] = "list"
      /\ pc'[c] = "ensure" /\ want[c].tool # "messages" =>
           want[c].at \in Existing /\ ~ Inside(want[c].at, Root)
  BY DEF List, Goto, tree, Undisturbed, Framed
<1>2. listed'[c] = Existing /\ Existing' = Existing
  BY <1>1 DEF Undisturbed, Framed, Existing
<1>3. Framed'
  BY <1>1 DEF Undisturbed, Framed, IsTree, Labels, Ended
<1>4. Beside(c)
  BY <1>1 DEF Beside, Undisturbed, Framed
<1>5. Steady(c)' /\ Excused(c)
  <2>1. Steady(c)
    BY DEF Undisturbed
  <2> QED BY <1>1, <1>2, <2>1 DEF Steady, Excused
<1> QED BY <1>3, <1>4, <1>5, Together

(* _ensure_folder: what LIST did not show is not there, unless something   *)
(* came between, so CREATE is not refused.                                 *)
LEMMA EnsureSteady ==
  ASSUME Undisturbed, NEW c \in Calls, Ensure(c)
  PROVE  Proper
<1>0. /\ pc[c] = "ensure" /\ UNCHANGED <<want, listed>> /\ Framed /\ Steady(c)
      /\ After(c) \in {"move", "rename"} /\ After(c) \in Labels /\ Busy(c)
      /\ After(c) = "rename" <=> want[c].tool # "messages"
      /\ Failing(c) \in {"failed", "mailEnsure"} /\ Failing(c) \in Labels
      /\ Failing(c) = "mailEnsure" => want[c].tool = "messages"
  BY DEF Ensure, call, Undisturbed, After, Failing, Labels, Ended, Busy
<1>1. CASE Root \in listed[c]
  <2>1. Goto(c, After(c)) /\ UNCHANGED <<path, spoilt>>
    BY <1>1 DEF Ensure
  <2>2. Framed' /\ Beside(c) /\ pc'[c] = After(c) /\ Existing' = Existing
    BY <1>0, <2>1, QuietBeside
  <2>3. Steady(c)' /\ Excused(c)
    BY <1>0, <1>1, <2>1, <2>2 DEF Steady, Excused
  <2> QED BY <2>2, <2>3, Together
<1>2. CASE Root \notin listed[c] /\ Root \in Existing
  <2>1. Goto(c, Failing(c)) /\ UNCHANGED <<path, spoilt>>
    BY <1>2 DEF Ensure
  <2>2. Framed' /\ Beside(c) /\ pc'[c] = Failing(c)
    BY <1>0, <2>1, QuietBeside
  <2>3. Steady(c)' /\ Excused(c)
    BY <1>0, <1>2, <2>1, <2>2 DEF Steady, Excused
  <2> QED BY <2>2, <2>3, Together
<1>3. CASE Root \notin listed[c] /\ Root \notin Existing
  <2>1. PICK new \in Made(Root) : Changes(c, new, After(c))
    BY <1>3 DEF Ensure
  <2>2. IsTree(new)
    BY <1>0, <1>3, <2>1, RootIsPath, MadeTree DEF Framed
  <2>3. /\ Framed' /\ Beside(c) /\ path' = new
        /\ \/ pc'[c] = After(c) /\ spoilt'[c] = spoilt[c]
           \/ pc'[c] = Failing(c) /\ spoilt'[c]
    BY <1>0, <2>1, <2>2, ChangesBeside
  <2>4. Existing' = Existing \cup {Root}
    BY <1>0, <2>3, MadeRoot
  <2>5. Steady(c)' /\ Excused(c)
    BY <1>0, <2>3, <2>4 DEF Steady, Excused
  <2> QED BY <2>3, <2>5, Together
<1> QED BY <1>1, <1>2, <1>3

(* Mail makes the staging mailbox unless it is there.                      *)
LEMMA MailEnsureSteady ==
  ASSUME Undisturbed, NEW c \in Calls, MailEnsure(c)
  PROVE  Proper
<1>0. /\ pc[c] = "mailEnsure" /\ UNCHANGED <<want, listed>> /\ Framed /\ Steady(c)
      /\ "move" \in Labels /\ Busy(c) /\ Failing(c) = "failed"
  BY DEF MailEnsure, call, Undisturbed, Failing, Labels, Ended, Busy
<1>1. CASE Root \in Existing
  <2>1. Goto(c, "move") /\ UNCHANGED <<path, spoilt>>
    BY <1>1 DEF MailEnsure
  <2>2. Framed' /\ Beside(c) /\ pc'[c] = "move" /\ Existing' = Existing
    BY <1>0, <2>1, QuietBeside
  <2>3. Steady(c)' /\ Excused(c)
    BY <1>0, <1>1, <2>1, <2>2 DEF Steady, Excused
  <2> QED BY <2>2, <2>3, Together
<1>2. CASE Root \notin Existing
  <2>1. PICK new \in Made(Root) : Changes(c, new, "move")
    BY <1>2 DEF MailEnsure
  <2>2. IsTree(new)
    BY <1>0, <1>2, <2>1, RootIsPath, MadeTree DEF Framed
  <2>3. /\ Framed' /\ Beside(c) /\ path' = new
        /\ \/ pc'[c] = "move" /\ spoilt'[c] = spoilt[c]
           \/ pc'[c] = "failed" /\ spoilt'[c]
    BY <1>0, <2>1, <2>2, ChangesBeside
  <2>4. Existing' = Existing \cup {Root}
    BY <1>0, <2>3, MadeRoot
  <2>5. Steady(c)' /\ Excused(c)
    BY <1>0, <2>3, <2>4 DEF Steady, Excused
  <2> QED BY <2>3, <2>5, Together
<1> QED BY <1>1, <1>2

(* The name that stage_mailbox takes was in no LIST, and is not the staging *)
(* mailbox itself.                                                         *)
LEMMA FreeName ==
  ASSUME NEW c \in Calls, want[c] \in Wants, NEW to \in FreeNames(c)
  PROVE  to \in Paths /\ to \notin listed[c] /\ to # Root /\ Len(to) = 2 /\ to[1] = Root[1]
<1>1. to \notin listed[c] /\ \E leaf \in Parts : to = Append(Root, leaf)
  <2> DEFINE leaf == Last(want[c].at)
  <2>1. leaf \in Parts
    <3>1. want[c].at \in Seq(Parts) /\ want[c].at # <<>>
      BY TreeAssumption DEF Paths, Parts
    <3>2. Len(want[c].at) \in 1 .. Len(want[c].at)
      BY <3>1
    <3> QED BY <3>1, <3>2 DEF Last
  <2>2. PICK n \in 1 .. SuffixLimit :
          /\ to = [k \in 1 .. SuffixLimit |-> Append(Root, Numbered(leaf, k))][n]
          /\ to \notin listed[c]
    BY DEF FreeNames
  <2>3. to = Append(Root, Numbered(leaf, n))
    BY <2>2
  <2> HIDE DEF leaf
  <2>4. leaf[1] \in Names /\ leaf[2] \in Seq(Nat) /\ n \in Nat
    BY <2>1, TreeAssumption DEF Parts, Leaves
  <2>5. Append(leaf[2], n) \in Seq(Nat)
    BY <2>4
  <2>6. Numbered(leaf, n) \in Parts
    BY <2>1, <2>4, <2>5 DEF Numbered, Parts, Leaves
  <2> QED BY <2>2, <2>3, <2>6
<1>2. Root \in Seq(Parts) /\ Len(Root) = 1
  BY TreeAssumption, LeafOfName DEF Root, Parts
<1>3. to \in Seq(Parts) /\ Len(to) = 2 /\ to[1] = Root[1]
  <2>1. PICK leaf \in Parts : to = Append(Root, leaf)
    BY <1>1
  <2>2. Append(Root, leaf) \in Seq(Parts) /\ Len(Append(Root, leaf)) = Len(Root) + 1
    BY <1>2
  <2>3. Len(Append(Root, leaf)) = 2
    BY <1>2, <2>2
  <2>4. Append(Root, leaf)[1] = Root[1]
    BY <1>2, <2>2
  <2> QED BY <2>1, <2>2, <2>3, <2>4
<1>4. to # <<>> /\ to # Root
  BY <1>2, <1>3
<1> QED BY <1>1, <1>3, <1>4 DEF Paths, Parts

(* A mailbox outside the staging mailbox is not renamed into itself.       *)
LEMMA Outside ==
  ASSUME NEW at \in Paths, ~ Inside(at, Root), NEW to \in Paths, Len(to) = 2, to[1] = Root[1]
  PROVE  ~ Inside(to, at)
<1> SUFFICES ASSUME Inside(to, at) PROVE FALSE
  OBVIOUS
<1>1. at \in Seq(Parts) /\ at # <<>> /\ to \in Seq(Parts) /\ Len(at) \in Nat \ {0}
  BY DEF Paths, Parts
<1>2. SubSeq(at, 1, Len(at))[1] = at[1] /\ SubSeq(to, 1, Len(at))[1] = to[1]
  BY <1>1
<1>3. at[1] = Root[1]
  BY <1>2 DEF Inside, IsPrefix
<1>4. Root \in Seq(Parts) /\ Len(Root) = 1
  BY TreeAssumption, LeafOfName DEF Root, Parts
<1>5. SubSeq(Root, 1, 1) = SubSeq(at, 1, 1)
  BY <1>1, <1>3, <1>4
<1>6. Inside(at, Root)
  BY <1>1, <1>4, <1>5 DEF Inside, IsPrefix
<1> QED BY <1>6

(* stage_mailbox's RENAME: its source is there, and its target is free; a  *)
(* path that a child of the mailbox would get may be taken, by something   *)
(* under that name.                                                        *)
LEMMA StageSteady ==
  ASSUME Undisturbed, NEW c \in Calls, StageRename(c)
  PROVE  Proper
<1>0. /\ pc[c] = "rename" /\ UNCHANGED <<want, listed>> /\ Framed /\ Steady(c) /\ Busy(c)
      /\ want[c] \in Wants /\ IsTree(path)
  BY DEF StageRename, Undisturbed, Steady, Framed, Busy, Ended
<1>1. CASE Goto(c, "refused") /\ UNCHANGED <<path, spoilt>>
  <2>1. Framed' /\ Beside(c) /\ pc'[c] = "refused"
    BY <1>0, <1>1, QuietBeside DEF Labels, Ended
  <2>2. Steady(c)' /\ Excused(c)
    BY <1>0, <2>1 DEF Steady, Excused
  <2> QED BY <2>1, <2>2, Together
<1>2. ASSUME NEW to \in FreeNames(c), NEW b \in Boxes, path[b] = want[c].at,
             CanRename(b, to), Changes(c, Renamed(b, to), "staged")
      PROVE  Proper
  <2>1. IsTree(Renamed(b, to)) /\ "staged" \in Labels
    <3>1. path[b] # None
      BY <1>0, <1>2, TreeAssumption DEF Paths
    <3> QED BY <1>0, <1>2, <3>1, FreeName, RenamedTree DEF Labels, Ended
  <2>2. /\ Framed' /\ Beside(c)
        /\ \/ pc'[c] = "staged" /\ spoilt'[c] = spoilt[c]
           \/ pc'[c] = "failed" /\ spoilt'[c]
    BY <1>0, <1>2, <2>1, ChangesBeside DEF Failing
  <2>3. Steady(c)' /\ Excused(c)
    BY <1>0, <2>2 DEF Steady, Excused
  <2> QED BY <2>2, <2>3, Together
<1>3. ASSUME NEW to \in FreeNames(c),
             \/ Root \notin Existing
             \/ ~ \E b \in Boxes : path[b] = want[c].at /\ CanRename(b, to),
             Goto(c, "failed"), UNCHANGED <<path, spoilt>>
      PROVE  Proper
  <2>1. Framed' /\ Beside(c) /\ pc'[c] = "failed"
    BY <1>0, <1>3, QuietBeside DEF Labels, Ended
  <2>2. to \in Paths /\ to \notin listed[c] /\ to # Root /\ Len(to) = 2 /\ to[1] = Root[1]
    BY <1>0, FreeName
  <2>3. spoilt[c] \/ LeftUnder(c)
    <3> SUFFICES ASSUME ~ spoilt[c] PROVE LeftUnder(c)
      OBVIOUS
    <3>1. /\ Root \in Existing /\ to \notin Existing /\ ~ Inside(want[c].at, Root)
          /\ want[c].at \in Existing
      BY <1>0, <2>2 DEF Steady
    <3>2. PICK b \in Boxes : path[b] = want[c].at /\ path[b] # None
      BY <3>1 DEF Existing
    <3>3. path[b] \in Paths
      BY <1>0, <3>2 DEF IsTree
    <3>4. ~ Inside(to, path[b])
      BY <2>2, <3>1, <3>2, <3>3, Outside
    <3>41. to # InboxPath
      <4>1. Len(InboxPath) = 1
        BY DEF InboxPath
      <4> QED BY <2>2, <4>1
    <3>5. PICK d \in Boxes : Carried(d, b) /\ Moved(d, b, to) \in Existing
      BY <1>3, <3>1, <3>2, <3>4, <3>41 DEF CanRename
    <3>6. PICK e \in Boxes : path[e] = Moved(d, b, to) /\ path[e] \notin {None, to}
      BY <3>1, <3>5 DEF Existing
    <3>7. Inside(Moved(d, b, to), to)
      <4>1. /\ path[d] \in Seq(Parts) /\ path[b] \in Seq(Parts) /\ to \in Seq(Parts)
            /\ Inside(path[d], path[b])
        BY <1>0, <2>2, <3>3, <3>5 DEF IsTree, Carried, Paths, Parts
      <4>2. Inside(to \o Rest(path[d], path[b]), to)
        BY <4>1, Transplanted
      <4> QED BY <4>2 DEF Moved, Rest
    <3> QED BY <3>6, <3>7 DEF LeftUnder
  <2>4. Steady(c)' /\ Excused(c)
    BY <1>0, <1>3, <2>1, <2>3 DEF Steady, Excused
  <2> QED BY <2>1, <2>4, Together
<1> QED BY <1>1, <1>2, <1>3 DEF StageRename

(* The commands of the other tools, and DELETE.                            *)
LEMMA CommandSteady ==
  ASSUME Undisturbed, NEW c \in Calls,
         Delete(c) \/ ImapRename(c) \/ MailRename(c) \/ MailCreate(c)
  PROVE  Proper
<1>0. /\ UNCHANGED <<want, listed>> /\ Framed /\ Steady(c) /\ Busy(c)
      /\ pc[c] \in {"delete", "imapRename", "mailRename", "mailCreate"}
      /\ {"ok", "notFound", "failed"} \subseteq Labels
  BY DEF Delete, ImapRename, MailRename, MailCreate, call, Undisturbed, Busy, Labels, Ended
<1>1. ASSUME NEW new, Changes(c, new, "ok"), IsTree(new)
      PROVE  Proper
  <2>1. /\ Framed' /\ Beside(c)
        /\ \/ pc'[c] = "ok" /\ spoilt'[c] = spoilt[c]
           \/ pc'[c] = "failed" /\ spoilt'[c]
    BY <1>0, <1>1, ChangesBeside DEF Failing
  <2>2. Steady(c)' /\ Excused(c)
    BY <1>0, <2>1 DEF Steady, Excused
  <2> QED BY <2>1, <2>2, Together
<1>2. ASSUME NEW label \in {"notFound", "failed"}, Goto(c, label), UNCHANGED <<path, spoilt>>,
             label = "failed" => pc[c] # "delete"
      PROVE  Proper
  <2>1. Framed' /\ Beside(c) /\ pc'[c] = label
    BY <1>0, <1>2, QuietBeside
  <2>2. label = "failed" => want'[c].tool \notin {"delete", "messages"}
    BY <1>0, <1>2 DEF Steady
  <2>3. Steady(c)' /\ Excused(c)
    BY <1>0, <2>1, <2>2 DEF Steady, Excused
  <2> QED BY <2>1, <2>3, Together
<1>3. want[c] \in Wants /\ IsTree(path) /\ want[c].at \in Paths
      /\ (pc[c] \in {"imapRename", "mailRename"} => want[c].to \in Paths)
      /\ want[c].at # None
  BY <1>0, TreeAssumption DEF Steady, Framed
<1>4. ASSUME NEW b \in Boxes, path[b] = want[c].at, CanRename(b, want[c].to),
             pc[c] \in {"imapRename", "mailRename"}
      PROVE  IsTree(Renamed(b, want[c].to))
  BY <1>3, <1>4, RenamedTree
<1>41. ASSUME InboxRename(c), pc[c] \in {"imapRename", "mailRename"}
       PROVE  Proper
  BY <1>1, <1>2, <1>3, <1>41, MadeTree DEF InboxRename
<1>5. CASE Delete(c)
  <2>1. \A b \in Boxes : IsTree([path EXCEPT ![b] = None])
    BY <1>3, RemovedTree
  <2> QED BY <1>1, <1>2, <1>5, <2>1 DEF Delete, Verbatim
<1>6. CASE ImapRename(c)
  BY <1>1, <1>2, <1>4, <1>41, <1>6 DEF ImapRename, Verbatim
<1>7. CASE MailRename(c)
  BY <1>1, <1>2, <1>4, <1>41, <1>7 DEF MailRename
<1>8. CASE MailCreate(c)
  BY <1>1, <1>2, <1>3, <1>8, MadeTree DEF MailCreate
<1> QED BY <1>5, <1>6, <1>7, <1>8

(* Messages find the staging mailbox where _ensure_folder left it.         *)
LEMMA MoveSteady ==
  ASSUME Undisturbed, NEW c \in Calls, MoveMessages(c)
  PROVE  Proper
<1>0. /\ pc[c] = "move" /\ UNCHANGED <<want, listed, path>> /\ Framed /\ Steady(c)
      /\ {"staged", "notFound", "failed"} \subseteq Labels
  BY DEF MoveMessages, call, Undisturbed, Labels, Ended
<1>1. CASE Goto(c, "staged") /\ Spoils(c)
  <2>1. /\ pc' = [pc EXCEPT ![c] = "staged"]
        /\ spoilt' = [d \in Calls |-> spoilt[d] \/ (d # c /\ Busy(d))]
    BY <1>1 DEF Goto, Spoils
  <2>2. spoilt' \in [Calls -> BOOLEAN] /\ \A d \in Calls : spoilt[d] => spoilt'[d]
    BY <2>1
  <2>3. Framed' /\ Beside(c) /\ pc'[c] = "staged"
    BY <1>0, <2>1, <2>2 DEF Framed, Beside
  <2>4. Steady(c)' /\ Excused(c)
    BY <1>0, <2>3 DEF Steady, Excused
  <2> QED BY <2>3, <2>4, Together
<1>2. CASE /\ Goto(c, IF Root \in Existing THEN "notFound" ELSE "failed")
           /\ UNCHANGED spoilt
  <2>1. PICK label \in {"notFound", "failed"} :
          Goto(c, label) /\ (label = "failed" => Root \notin Existing)
    BY <1>2
  <2>2. Framed' /\ Beside(c) /\ pc'[c] = label
    BY <1>0, <1>2, <2>1, QuietBeside
  <2>3. label = "failed" => spoilt'[c]
    BY <1>0, <1>2, <2>1 DEF Steady
  <2>4. Steady(c)' /\ Excused(c)
    BY <1>0, <2>1, <2>2, <2>3 DEF Steady, Excused
  <2> QED BY <2>2, <2>4, Together
<1> QED BY <1>1, <1>2 DEF MoveMessages

(* Every step keeps what the calls know, and makes none fail without       *)
(* excuse.                                                                 *)
LEMMA StepUndisturbed == Undisturbed /\ [Next]_vars => Proper
<1> SUFFICES ASSUME Undisturbed, [Next]_vars PROVE Proper
  OBVIOUS
<1>1. ASSUME NEW c \in Calls, Breaks(c) PROVE Proper
  <2>1. /\ pc' = [pc EXCEPT ![c] = Failing(c)] /\ spoilt' = [spoilt EXCEPT ![c] = TRUE]
        /\ UNCHANGED <<want, listed, path>> /\ Framed /\ pc[c] # "new" /\ Steady(c)
    BY <1>1 DEF Breaks, Busy, Goto, tree, call, Undisturbed
  <2>11. /\ Failing(c) \in {"failed", "mailEnsure"} /\ Failing(c) \in Labels
         /\ Failing(c) = "mailEnsure" => want[c].tool = "messages"
    BY DEF Failing, Labels, Ended
  <2>2. Framed' /\ Beside(c) /\ pc'[c] = Failing(c) /\ spoilt'[c]
    BY <2>1, <2>11 DEF Framed, IsTree, Beside
  <2>3. Steady(c)' /\ Excused(c)
    BY <2>1, <2>11, <2>2 DEF Steady, Excused
  <2> QED BY <2>2, <2>3, Together
<1>2. CASE OwnerEdits
  <2>1. /\ spoilt' = [c \in Calls |-> spoilt[c] \/ Busy(c)]
        /\ UNCHANGED <<want, listed, pc>> /\ Framed
    BY <1>2 DEF OwnerEdits, call, Undisturbed
  <2>2. spoilt' \in [Calls -> BOOLEAN]
        /\ \A d \in Calls : spoilt'[d] = (spoilt[d] \/ Busy(d))
    BY <2>1 DEF Framed
  <2>3. IsTree(path')
    <3>1. PICK b \in {d \in Boxes : path[d] # None} :
            \/ path' = [path EXCEPT ![b] = None]
            \/ \E n \in Names : CanRename(b, << Leaf(n) >>) /\ path' = Renamed(b, << Leaf(n) >>)
      BY <1>2 DEF OwnerEdits
    <3>2. \A n \in Names : << Leaf(n) >> \in Paths
      <4> TAKE n \in Names
      <4>1. << Leaf(n) >> \in Seq(Leaves) /\ << Leaf(n) >> # <<>>
        BY LeafOfName
      <4> QED BY <4>1 DEF Paths
    <3> QED BY <2>1, <3>1, <3>2, RenamedTree, RemovedTree DEF Framed
  <2>4. Framed'
    BY <2>1, <2>2, <2>3 DEF Framed, IsTree
  <2>5. Beside(None)
    BY <2>1, <2>2 DEF Beside
  <2>6. None \notin Calls
    BY TreeAssumption
  <2> QED BY <2>4, <2>5, <2>6, Together
<1>3. CASE UNCHANGED vars \/ \E m \in Messages, b \in Boxes : Arrive(m, b)
  <2>1. UNCHANGED <<want, listed, pc, path, spoilt>> /\ Framed
    BY <1>3 DEF vars, tree, call, Arrive, Undisturbed
  <2>2. Framed' /\ Beside(None)
    BY <2>1 DEF Framed, IsTree, Beside
  <2>3. None \notin Calls
    BY TreeAssumption
  <2> QED BY <2>2, <2>3, Together
<1> QED BY <1>1, <1>2, <1>3, BeginSteady, ListSteady, EnsureSteady, MailEnsureSteady, StageSteady,
           CommandSteady, MoveSteady DEF Next

(* At first no call knows anything, and the tree is one to begin with.     *)
LEMMA InitUndisturbed == Init => Undisturbed
<1> SUFFICES ASSUME Init PROVE Undisturbed
  OBVIOUS
<1>1. IsTree(path)
  BY TreeAssumption DEF Init
<1>2. Framed
  BY <1>1 DEF Init, Framed, Labels
<1>3. \A c \in Calls : Steady(c)
  BY DEF Init, Steady
<1> QED BY <1>2, <1>3 DEF Undisturbed

(* A mailbox, or a message, that is there gets to the staging mailbox      *)
(* unless somebody changed the tree or a connection broke while its call   *)
(* was under way, or something is left under the name it would get: the    *)
(* LIST, CREATE and RENAME of stage_mailbox never contradict each other    *)
(* on their own.                                                           *)
THEOREM StagingSucceeds == Spec => StagingFailsOnlyWhenSpoilt
<1>1. Undisturbed /\ [Next]_vars => Undisturbed'
  BY StepUndisturbed DEF Proper
<1>2. Undisturbed /\ [Next]_vars =>
        [\A c \in Calls :
           pc[c] # "failed" /\ pc'[c] = "failed" /\ want[c].tool \in {"delete", "messages"} =>
             spoilt'[c] \/ (pc[c] = "rename" /\ LeftUnder(c))]_vars
  BY StepUndisturbed DEF Proper, Excused
<1> QED BY <1>1, <1>2, InitUndisturbed, PTL DEF Spec, StagingFailsOnlyWhenSpoilt

(* Type correctness, and with it that two mailboxes never have one path,   *)
(* whatever the commands of the calls and the owner's edits do to the tree *)
(* in whatever order.                                                      *)
THEOREM TypeCorrect == Spec => []TypeOK
<1> DEFINE Located == server \in Servers /\ where \in [Messages -> Boxes \cup {None}]
           Inv == IInv /\ Undisturbed /\ Located
<1>1. Init => Inv
  <2>1. Init => Located
    BY DEF Init
  <2> QED BY <2>1, InitIInv, InitUndisturbed
<1>2. Inv /\ [Next]_vars => Inv'
  <2> SUFFICES ASSUME Located, [Next]_vars PROVE Located'
    BY StepIInv, StepUndisturbed DEF Proper
  <2>1. UNCHANGED server
    BY DEF Next, vars, Request, Prompt, NoImap, List, Ensure, MailEnsure, StageRename, Count, Delete, ImapRename,
           MailRename, MailCreate, MoveMessages, Breaks, Arrive, OwnerEdits
  <2>2. CASE \E c \in Calls : MoveMessages(c)
    BY <2>1, <2>2 DEF MoveMessages
  <2>3. CASE \E m \in Messages, b \in Boxes : Arrive(m, b)
    BY <2>1, <2>3 DEF Arrive
  <2>4. CASE UNCHANGED where
    BY <2>1, <2>4
  <2>5. UNCHANGED where \/ (\E c \in Calls : MoveMessages(c))
          \/ \E m \in Messages, b \in Boxes : Arrive(m, b)
    BY DEF Next, vars, tree, Request, Prompt, NoImap, List, Ensure, MailEnsure, StageRename, Count, Delete,
           ImapRename, MailRename, MailCreate, Breaks, OwnerEdits
  <2> QED BY <2>2, <2>3, <2>4, <2>5
<1>3. Inv => TypeOK
  BY DEF IInv, Typed, Undisturbed, Framed, TypeOK
<1> QED BY <1>1, <1>2, <1>3, PTL DEF Spec
===============================================================================
