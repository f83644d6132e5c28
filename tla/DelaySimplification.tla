------------------------- MODULE DelaySimplification -------------------------
(* Conditional answers and their simplification (emu/slgdelay.c).  A ground   *)
(* goal has one answer, whose delay lists are the ways it was derived from    *)
(* literals with no truth value yet.  A literal that gets one is removed, or  *)
(* removes the lists it is in; what becomes true or fails by that goes on to  *)
(* others, through procedures that call each other recursively while they     *)
(* walk the lists of uses: the stack is explicit, and a step is one round of  *)
(* a loop.  The engine around it derives answers, from literals it delayed    *)
(* some time before, and completes tables.                                    *)
EXTENDS Integers, Sequences, FiniteSetsExt, Functions

CONSTANTS
  Goals,
  ListIds,     \* the delay lists that exist at one time
  MaxAnswers,  \* bound on the derivations
  MaxLiterals, \* bound on the literals of all of them
  MaxOpen,     \* bound on the derivations in progress
  Outdated     \* a delayed negation of a goal that became true before its completion is kept

ASSUME GoalsAssumption == IsFiniteSet(Goals) /\ IsFiniteSet(ListIds)
ASSUME BoundsAssumption == MaxAnswers \in Nat /\ MaxLiterals \in Nat /\ MaxOpen \in Nat

VARIABLES
  complete,    \* goals with a completed table
  leaf,        \* the answer of a goal: "none", "cond" or "uncond"
  asi,         \* goals whose answer has an ASI
  lists,       \* the delay lists in use: whose they are, and their elements
  pdes, ndes,  \* the lists that use a goal's answer, and its negation
  stack,       \* the procedures called, the innermost first
  deferred,    \* dyn_simplify_neg_fails_stack
  depth,       \* simplification_depth_gl
  closing,     \* what is left to do of the SCC that is completed
  open,        \* derivations in progress, with the literals delayed so far
  born,        \* history: how many answers a goal has had
  rules        \* history: the derivations

tableVars == <<complete, leaf, asi>>
linkVars == <<lists, pdes, ndes>>
callVars == <<stack, deferred, depth>>
engineVars == <<closing, open, born, rules>>
vars == <<tableVars, linkVars, callVars, engineVars>>

Pos(g) == <<"pos", g>>
Neg(g) == <<"neg", g>>
Elements == {"pos", "neg"} \X Goals

(* A literal of the engine names an answer by its leaf, a negated goal by its *)
(* subgoal frame.                                                             *)
Literals == {"pos", "neg"} \X Goals \X Nat
Element(l) == <<l[1], l[2]>>

AtRest == stack = <<>> /\ closing = {}
Fails(g) == leaf[g] = "none"    \* subgoal_fails
ListsOf(g) == {i \in DOMAIN lists : lists[i].of = g}

Init ==
  /\ complete = {} /\ asi = {}
  /\ leaf = [g \in Goals |-> "none"]
  /\ lists = <<>> /\ pdes = [g \in Goals |-> {}] /\ ndes = [g \in Goals |-> {}]
  /\ stack = <<>> /\ deferred = <<>> /\ depth = 0
  /\ closing = {} /\ open = {} /\ rules = {}
  /\ born = [g \in Goals |-> 0]

-----------------------------------------------------------------------------
(* Delay lists and their uses.                                                *)

(* intern_delay_list, record_de_usage.                                        *)
Linked(i, g, body) ==
  /\ lists' = [k \in DOMAIN lists \cup {i} |->
                 IF k = i THEN [of |-> g, body |-> body] ELSE lists[k]]
  /\ pdes' = [h \in Goals |-> IF Pos(h) \in body THEN pdes[h] \cup {i} ELSE pdes[h]]
  /\ ndes' = [h \in Goals |-> IF Neg(h) \in body THEN ndes[h] \cup {i} ELSE ndes[h]]

(* Lists are released with their elements and the uses recorded for these.    *)
UsesKept(uses, sign, ids) == uses
Unused(uses, sign, ids) ==
  [g \in Goals |-> uses[g] \ {i \in ids : <<sign, g>> \in lists[i].body}]
Released(ids) ==
  /\ lists' = Restrict(lists, DOMAIN lists \ ids)
  /\ pdes' = Unused(pdes, "pos", ids) /\ ndes' = Unused(ndes, "neg", ids)

(* remove_pnde, remove_de_from_dl.                                            *)
Removed(i, e) ==
  /\ lists' = [lists EXCEPT ![i].body = @ \ {e}]
  /\ pdes' = [g \in Goals |-> IF e = Pos(g) THEN pdes[g] \ {i} ELSE pdes[g]]
  /\ ndes' = [g \in Goals |-> IF e = Neg(g) THEN ndes[g] \ {i} ELSE ndes[g]]

-----------------------------------------------------------------------------
(* The procedures.  A frame is the rest of a call: a loop over the uses of    *)
(* its goal, or what follows the call made last.                              *)

Frame(proc, g) == [proc |-> proc, goal |-> g]
Runs(proc, g) == stack # <<>> /\ Head(stack) = Frame(proc, g)
Push(frames) == stack' = frames \o stack
Pop(frames) == stack' = frames \o Tail(stack)

(* handle_empty_dl_creation(dl) after its element e is removed: the owner of  *)
(* the list becomes unconditional, unless it is already; its lists are        *)
(* released before the loop of simplify_pos_unconditional.                    *)
Emptied(i, e, rest) ==
  LET g == lists[i].of IN
  IF leaf[g] = "cond"
  THEN /\ Released(ListsOf(g))
       /\ leaf' = [leaf EXCEPT ![g] = "uncond"]
       /\ stack' = <<Frame("posTrue", g), Frame("emptied", g)>> \o rest
       /\ depth' = depth + 1
  ELSE Removed(i, e) /\ UNCHANGED <<leaf, depth>> /\ stack' = rest

(* An element that holds is taken out of a list.                              *)
Hold(i, e, rest) ==
  IF lists[i].body = {e} THEN Emptied(i, e, rest)
  ELSE Removed(i, e) /\ UNCHANGED <<leaf, depth>> /\ stack' = rest

PosTrue(g) ==
  /\ Runs("posTrue", g)
  /\ \/ /\ \E i \in pdes[g] : Hold(i, Pos(g), stack)
        /\ UNCHANGED asi
     \/ /\ pdes[g] = {}
        /\ asi' = asi \ {g} /\ depth' = depth - 1 /\ Pop(<<>>)
        /\ UNCHANGED <<leaf, linkVars>>
  /\ UNCHANGED <<complete, deferred, engineVars>>

(* The rest of handle_empty_dl_creation: early completion, and               *)
(* simplify_neg_succeeds.                                                     *)
AfterEmptied(g) ==
  /\ Runs("emptied", g)
  /\ complete' = complete \cup {g}
  /\ Pop(<<Frame("negTrue", g)>>) /\ depth' = depth + 1
  /\ UNCHANGED <<leaf, asi, linkVars, deferred, engineVars>>

(* A list with an element that fails goes; with the last list of an answer,   *)
(* the answer (handle_unsupported_answer_subst, delete_branch).               *)
DropsAnswer(i) == ListsOf(lists[i].of) = {i}
Drop(i) ==
  LET g == lists[i].of IN
  /\ g \in asi /\ leaf[g] # "none"
  /\ Released({i})
  /\ IF DropsAnswer(i)
     THEN /\ leaf' = [leaf EXCEPT ![g] = "none"]
          /\ Push(<<Frame("posFalse", g), Frame("unsupported", g)>>)
          /\ depth' = depth + 1
     ELSE UNCHANGED <<leaf, stack, depth>>

(* simplify_neg_succeeds, and simplify_pos_unsupported.                       *)
NegTrue(g) ==
  /\ Runs("negTrue", g)
  /\ \/ \E i \in ndes[g] : Drop(i)
     \/ /\ ndes[g] = {} /\ depth' = depth - 1 /\ Pop(<<>>)
        /\ UNCHANGED <<leaf, linkVars>>
  /\ UNCHANGED <<complete, asi, deferred, engineVars>>

PosFalse(g) ==
  /\ Runs("posFalse", g)
  /\ \/ \E i \in pdes[g] : Drop(i)
     \/ /\ pdes[g] = {} /\ depth' = depth - 1 /\ Pop(<<>>)
        /\ UNCHANGED <<leaf, linkVars>>
  /\ UNCHANGED <<complete, asi, deferred, engineVars>>

(* simplify_neg_fails: a call made inside another is left to the outer one,   *)
(* and then does not count its depth back.                                    *)
InNegFails == \E k \in DOMAIN stack : stack[k].proc = "negFails"
NegFailsCall(g, rest) ==
  /\ depth' = depth + 1
  /\ IF InNegFails THEN deferred' = <<g>> \o deferred /\ stack' = rest
     ELSE stack' = <<Frame("negFails", g)>> \o rest /\ UNCHANGED deferred

(* The rest of handle_unsupported_answer_subst.                               *)
FailsForGood(g) == g \in complete /\ Fails(g)
AfterUnsupported(g) ==
  /\ Runs("unsupported", g)
  /\ IF FailsForGood(g) THEN NegFailsCall(g, Tail(stack))
     ELSE Pop(<<>>) /\ UNCHANGED <<deferred, depth>>
  /\ asi' = asi \ {g}
  /\ UNCHANGED <<complete, leaf, linkVars, engineVars>>

RestKept == deferred
Rest == Tail(deferred)

NegFails(g) ==
  /\ Runs("negFails", g)
  /\ \/ \E i \in ndes[g] : Hold(i, Neg(g), stack) /\ UNCHANGED deferred
     \/ /\ ndes[g] = {} /\ deferred # <<>>
        /\ Pop(<<Frame("negFails", Head(deferred))>>) /\ deferred' = Rest
        /\ UNCHANGED <<leaf, linkVars, depth>>
     \/ /\ ndes[g] = {} /\ deferred = <<>>
        /\ depth' = depth - 1 /\ Pop(<<>>)
        /\ UNCHANGED <<leaf, linkVars, deferred>>
  /\ UNCHANGED <<complete, asi, engineVars>>

-----------------------------------------------------------------------------
(* The engine.                                                                *)

(* What may be delayed: a conditional answer that is returned, and a negated  *)
(* goal that is incomplete and not known to be true, or has a conditional     *)
(* answer.                                                                    *)
Delayable ==
  {<<"pos", g, born[g]>> : g \in {h \in Goals : leaf[h] = "cond"}} \cup
  {<<"neg", g, 0>> : g \in {h \in Goals : leaf[h] = "cond" \/ (leaf[h] = "none" /\ h \notin complete)}}

Delay(g, body) ==
  /\ AtRest /\ g \notin complete
  /\ Cardinality(open) < MaxOpen /\ Cardinality(rules) + Cardinality(open) < MaxAnswers
  /\ body \subseteq Delayable
  /\ Cardinality(body) + FoldSet(LAMBDA d, n : Cardinality(d.body) + n, 0, rules \cup open)
       <= MaxLiterals
  /\ open' = open \cup {[head |-> g, body |-> body]}
  /\ UNCHANGED <<tableVars, linkVars, callVars, closing, born, rules>>

(* is_failing_delay_element, was_simplifiable.                                *)
FailingElement(l) == IF l[1] = "neg" THEN l[2] \in complete /\ leaf[l[2]] = "uncond" ELSE FALSE
SimplifiedNever(l) == FALSE
WasSimplifiable(l) ==
  IF l[1] = "neg" THEN FailsForGood(l[2]) ELSE leaf[l[2]] = "uncond"

(* Literals of a derivation in progress that an incomplete goal has decided:  *)
(* an answer removed since, whose leaf is freed, and a goal that became true. *)
Freed(l) == l[1] = "pos" /\ (born[l[2]] # l[3] \/ leaf[l[2]] = "none")
TrueEarly(l) == l[1] = "neg" /\ leaf[l[2]] = "uncond" /\ l[2] \notin complete

(* new_answer_dealloc refuses the answer of a complete goal, or one of which  *)
(* a literal fails.                                                           *)
Refused(d) == d.head \in complete \/ \E l \in d.body : FailingElement(l)
Fail(d) ==    \* or it fails at a literal after those it delayed
  /\ AtRest /\ d \in open /\ open' = open \ {d}
  /\ UNCHANGED <<tableVars, linkVars, callVars, closing, born, rules>>

(* do_delay_stuff, up to the test for simplify_neg_succeeds.                  *)
NewAnswer(d) ==
  LET g == d.head
      found == leaf[g] # "none"
      body == {Element(l) : l \in {k \in d.body : ~WasSimplifiable(k)}}
      interned == body # {} /\ leaf[g] # "uncond"
      birth == IF found THEN born[g] ELSE born[g] + 1
  IN
  /\ AtRest /\ d \in open /\ ~Refused(d) /\ \A l \in d.body : ~Freed(l) /\ (Outdated \/ ~TrueEarly(l))
  /\ open' = open \ {d}
  /\ born' = [born EXCEPT ![g] = birth]
  /\ rules' = rules \cup {[head |-> g, birth |-> birth, body |-> d.body]}
  /\ \/ /\ interned /\ DOMAIN lists # ListIds    \* bound
        /\ leaf' = [leaf EXCEPT ![g] = "cond"] /\ asi' = asi \cup {g}
        /\ LET i == CHOOSE k \in ListIds \ DOMAIN lists : TRUE IN Linked(i, g, body)
        /\ stack' = <<>> /\ depth' = 0
     \/ /\ ~interned /\ leaf[g] = "cond"
        /\ Released(ListsOf(g)) /\ leaf' = [leaf EXCEPT ![g] = "uncond"]
        /\ stack' = <<Frame("posTrue", g), Frame("found", g)>> /\ depth' = 1
        /\ UNCHANGED asi
     \/ /\ ~interned /\ leaf[g] # "cond"
        /\ leaf' = [leaf EXCEPT ![g] = "uncond"]
        /\ stack' = <<Frame(IF found THEN "found" ELSE "new", g)>> /\ depth' = 0
        /\ UNCHANGED <<asi, linkVars>>
  /\ UNCHANGED <<complete, deferred, closing>>

(* Then an answer that is true makes its negation fail; and a new answer of a *)
(* ground goal completes its table early.                                     *)
AfterAnswer(g) ==
  /\ Runs("found", g) \/ Runs("new", g)
  /\ IF ndes[g] # {}
     THEN Pop(<<Frame("negTrue", g)>>) /\ depth' = depth + 1
     ELSE Pop(<<>>) /\ UNCHANGED depth
  /\ complete' = IF Runs("new", g) THEN complete \cup {g} ELSE complete
  /\ UNCHANGED <<leaf, asi, linkVars, deferred, engineVars>>

(* An SCC whose goals have nothing left to derive, and depend only on what is *)
(* complete or among them, is completed (CompleteSimplifyAndReclaim).         *)
Complete(scc) ==
  /\ AtRest /\ scc # {} /\ scc \cap complete = {}
  /\ \A d \in open : d.head \notin scc
  /\ \A r \in rules : r.head \in scc => \A l \in r.body : l[2] \in scc \cup complete
  /\ closing' = scc
  /\ UNCHANGED <<tableVars, linkVars, callVars, open, born, rules>>

CloseTable(g) ==
  /\ stack = <<>> /\ g \in closing
  /\ complete' = complete \cup {g} /\ closing' = closing \ {g}
  /\ IF Fails(g) /\ ndes[g] # {} THEN NegFailsCall(g, <<>>) ELSE UNCHANGED callVars
  /\ UNCHANGED <<leaf, asi, linkVars, open, born, rules>>

Simplify == \E g \in Goals :
  \/ PosTrue(g) \/ AfterEmptied(g) \/ NegTrue(g) \/ PosFalse(g)
  \/ AfterUnsupported(g) \/ NegFails(g) \/ AfterAnswer(g) \/ CloseTable(g)

Next ==
  \/ Simplify
  \/ \E g \in Goals, body \in SUBSET Delayable : Delay(g, body)
  \/ \E d \in open : Fail(d) \/ NewAnswer(d)
  \/ \E scc \in SUBSET Goals : Complete(scc)
  \/ AtRest /\ UNCHANGED vars    \* no query

Spec == Init /\ [][Next]_vars

-----------------------------------------------------------------------------
(* Properties.                                                                *)

Procedures == {"posTrue", "emptied", "negTrue", "posFalse", "unsupported", "negFails",
               "found", "new"}

(* Types of the variables.                                                    *)
TypeOK ==
  /\ complete \subseteq Goals /\ asi \subseteq Goals /\ closing \subseteq Goals
  /\ leaf \in [Goals -> {"none", "cond", "uncond"}]
  /\ DOMAIN lists \subseteq ListIds
  /\ \A i \in DOMAIN lists : lists[i] \in [of : Goals, body : SUBSET Elements]
  /\ pdes \in [Goals -> SUBSET ListIds] /\ ndes \in [Goals -> SUBSET ListIds]
  /\ stack \in Seq([proc : Procedures, goal : Goals]) /\ deferred \in Seq(Goals)
  /\ depth \in Int /\ born \in [Goals -> Nat]
  /\ \A d \in open : d.head \in Goals /\ d.body \subseteq Literals

(* Nothing that is freed can be reached: the recorded uses are the elements   *)
(* of the lists in use, at every moment of a simplification; a list belongs   *)
(* to an answer that is conditional, and a positive element to one whose ASI  *)
(* exists.                                                                    *)
LinksHold ==
  /\ TypeOK
  /\ \A g \in Goals :
       /\ pdes[g] = {i \in DOMAIN lists : Pos(g) \in lists[i].body}
       /\ ndes[g] = {i \in DOMAIN lists : Neg(g) \in lists[i].body}
       /\ leaf[g] = "cond" <=> ListsOf(g) # {}
       /\ leaf[g] = "cond" \/ pdes[g] # {} => g \in asi
  /\ \A i \in DOMAIN lists : lists[i].body # {}

(* The truth values that the derivations and completions so far decide.       *)
AnswersSoFar == {<<r.head, r.birth>> : r \in rules}
AnswersOf(g) == {a \in AnswersSoFar : a[1] = g}
Holds(l, T, F) == IF l[1] = "pos" THEN <<l[2], l[3]>> \in T
                  ELSE l[2] \in complete /\ AnswersOf(l[2]) \subseteq F
Breaks(l, T, F) == IF l[1] = "pos" THEN <<l[2], l[3]>> \in F
                   ELSE AnswersOf(l[2]) \cap T # {}
Deciding ==
  LET known[n \in Nat] ==
        IF n = 0 THEN [T |-> {}, F |-> {}]
        ELSE LET b == known[n - 1] IN
             [T |-> {a \in AnswersSoFar : \E r \in rules :
                       <<r.head, r.birth>> = a /\ \A l \in r.body : Holds(l, b.T, b.F)},
              F |-> {a \in AnswersSoFar : \A r \in rules :
                       <<r.head, r.birth>> = a => \E l \in r.body : Breaks(l, b.T, b.F)}]
  IN known[2 * Cardinality(AnswersSoFar) + 1]

(* The residual program does not depend on the order of simplification: when  *)
(* nothing runs, the tables hold the answers that the derivations decide, and *)
(* the delay lists of an undecided answer are its derivations without the     *)
(* literals that hold and without those that have one which does not.         *)
ResidualIsReduct ==
  AtRest =>
    LET k == Deciding IN
    \A g \in Goals :
      LET a == <<g, born[g]>>
          mine == {r \in rules : <<r.head, r.birth>> = a}
      IN /\ leaf[g] = "uncond" <=> a \in k.T
         /\ leaf[g] = "none" <=> born[g] = 0 \/ a \in k.F
         /\ leaf[g] = "cond" =>
              {lists[i].body : i \in ListsOf(g)} =
                {{Element(l) : l \in {m \in r.body : ~Holds(m, k.T, k.F)}} :
                   r \in {s \in mine : \A l \in s.body : ~Breaks(l, k.T, k.F)}}

(* Simplification ends, whatever lists the procedures share: every round of   *)
(* a loop and every return leaves less to do.                                 *)
Weight(proc) == IF proc \in {"emptied", "unsupported", "found", "new"} THEN 2 ELSE 1
LeftToDo ==
  4 * FoldFunction(LAMBDA l, n : Cardinality(l.body) + n, 0, lists)
    + FoldFunction(LAMBDA f, n : Weight(f.proc) + n, 0, stack)
    + Len(deferred) + 2 * Cardinality(closing)
Shrinks == [][~AtRest => LeftToDo' < LeftToDo]_vars

(* "Too many nested simplifications": what counts is their nesting.           *)
DepthIsNesting == AtRest => depth = 0
=============================================================================
