---------------------- MODULE DelaySimplificationProofs ----------------------
(* LinksHold of DelaySimplification, for any finite sets of goals and of      *)
(* delay lists and any bounds: simplification never follows a link to a delay *)
(* list, a delay element or an ASI that was freed.                            *)
EXTENDS DelaySimplification, SequenceTheorems, TLAPS

-----------------------------------------------------------------------------
(* What LinksHold needs besides types: the frames of the stack remember what  *)
(* their calls have done.  An answer whose uses are walked because it became  *)
(* true is unconditional; one that lost its last list is gone, and its uses   *)
(* are too when the walk over them has returned.                              *)
FrameType == [proc : Procedures, goal : Goals]

StackOk(s, lf, pd) ==
  \A k \in 1 .. Len(s) :
    LET g == s[k].goal IN
    /\ s[k].proc = "posTrue" => lf[g] = "uncond"
    /\ s[k].proc = "unsupported" =>
         lf[g] = "none" /\ (pd[g] = {} \/ (k > 1 /\ s[k - 1] = Frame("posFalse", g)))

Types ==
  /\ complete \subseteq Goals /\ asi \subseteq Goals /\ closing \subseteq Goals
  /\ leaf \in [Goals -> {"none", "cond", "uncond"}]
  /\ DOMAIN lists \subseteq ListIds /\ lists \in [DOMAIN lists -> [of : Goals, body : SUBSET Elements]]
  /\ stack \in Seq(FrameType) /\ deferred \in Seq(Goals)
  /\ depth \in Int /\ born \in [Goals -> Nat]
  /\ \A d \in open : d.head \in Goals /\ d.body \subseteq Literals

UsesExact ==
  /\ pdes = [g \in Goals |-> {i \in DOMAIN lists : Pos(g) \in lists[i].body}]
  /\ ndes = [g \in Goals |-> {i \in DOMAIN lists : Neg(g) \in lists[i].body}]
NoneEmpty == \A i \in DOMAIN lists : lists[i].body # {}
OwnersConditional == \A g \in Goals : leaf[g] = "cond" <=> ListsOf(g) # {}
AsiKept == \A g \in Goals : leaf[g] = "cond" \/ pdes[g] # {} => g \in asi

LinkInv ==
  /\ Types /\ UsesExact /\ NoneEmpty /\ OwnersConditional /\ AsiKept
  /\ StackOk(stack, leaf, pdes)

LEMMA InvImpliesLinks == LinkInv => LinksHold
BY DEF LinkInv, LinksHold, TypeOK, Types, UsesExact, NoneEmpty, OwnersConditional, AsiKept,
       FrameType

-----------------------------------------------------------------------------
(* The stack.                                                                 *)
LEMMA StackLess ==
  ASSUME NEW s \in Seq(FrameType), NEW lf, NEW pd, NEW lf2, NEW pd2, StackOk(s, lf, pd),
         \A g \in Goals : lf[g] # "cond" => lf2[g] = lf[g],
         \A g \in Goals : pd2[g] \subseteq pd[g]
  PROVE  StackOk(s, lf2, pd2)
<1> SUFFICES ASSUME NEW k \in 1 .. Len(s)
             PROVE  LET g == s[k].goal IN
                    /\ s[k].proc = "posTrue" => lf2[g] = "uncond"
                    /\ s[k].proc = "unsupported" =>
                         lf2[g] = "none" /\ (pd2[g] = {} \/ (k > 1 /\ s[k - 1] = Frame("posFalse", g)))
  BY DEF StackOk
<1>1. s[k] \in FrameType
  OBVIOUS
<1>2. s[k].goal \in Goals
  BY <1>1 DEF FrameType
<1> QED BY <1>2 DEF StackOk

LEMMA StackPop ==
  ASSUME NEW s \in Seq(FrameType), s # <<>>, NEW lf, NEW pd, StackOk(s, lf, pd),
         s[1].proc = "posFalse" => pd[s[1].goal] = {}
  PROVE  Tail(s) \in Seq(FrameType) /\ StackOk(Tail(s), lf, pd)
<1>1. /\ Tail(s) \in Seq(FrameType) /\ Len(Tail(s)) = Len(s) - 1 /\ Len(s) \in Nat
      /\ \A k \in 1 .. Len(Tail(s)) : Tail(s)[k] = s[k + 1]
  OBVIOUS
<1> SUFFICES ASSUME NEW k \in 1 .. Len(Tail(s))
             PROVE  LET g == Tail(s)[k].goal IN
                    /\ Tail(s)[k].proc = "posTrue" => lf[g] = "uncond"
                    /\ Tail(s)[k].proc = "unsupported" =>
                         /\ lf[g] = "none"
                         /\ pd[g] = {} \/ (k > 1 /\ Tail(s)[k - 1] = Frame("posFalse", g))
  BY <1>1 DEF StackOk
<1>2. k + 1 \in 1 .. Len(s) /\ Tail(s)[k] = s[k + 1] /\ (k > 1 => Tail(s)[k - 1] = s[k])
  BY <1>1
<1>3. k = 1 => (s[k] = Frame("posFalse", s[k + 1].goal) => pd[s[k + 1].goal] = {})
  BY DEF Frame
<1>4. /\ s[k + 1].proc = "posTrue" => lf[s[k + 1].goal] = "uncond"
      /\ s[k + 1].proc = "unsupported" =>
           /\ lf[s[k + 1].goal] = "none"
           /\ pd[s[k + 1].goal] = {} \/ s[k] = Frame("posFalse", s[k + 1].goal)
  <2>1. (k + 1) - 1 = k
    OBVIOUS
  <2> QED BY <1>2, <2>1 DEF StackOk
<1> QED BY <1>2, <1>3, <1>4

LEMMA StackPush ==
  ASSUME NEW s \in Seq(FrameType), NEW f \in FrameType, NEW lf, NEW pd, StackOk(s, lf, pd),
         f.proc = "posTrue" => lf[f.goal] = "uncond",
         f.proc = "unsupported" => lf[f.goal] = "none" /\ pd[f.goal] = {}
  PROVE  <<f>> \o s \in Seq(FrameType) /\ StackOk(<<f>> \o s, lf, pd)
<1> DEFINE r == <<f>> \o s
<1>1. /\ r \in Seq(FrameType) /\ Len(r) = Len(s) + 1 /\ Len(s) \in Nat /\ r[1] = f
      /\ \A k \in 2 .. Len(r) : r[k] = s[k - 1]
  OBVIOUS
<1> HIDE DEF r
<1>2. ASSUME NEW k \in 1 .. Len(r)
      PROVE  LET g == r[k].goal IN
             /\ r[k].proc = "posTrue" => lf[g] = "uncond"
             /\ r[k].proc = "unsupported" =>
                  lf[g] = "none" /\ (pd[g] = {} \/ (k > 1 /\ r[k - 1] = Frame("posFalse", g)))
  <2>1. CASE k = 1
    BY <1>1, <2>1
  <2>2. CASE k # 1
    <3>1. k - 1 \in 1 .. Len(s) /\ r[k] = s[k - 1] /\ (k - 1 > 1 => r[k - 1] = s[k - 2])
      BY <1>1, <2>2
    <3> QED BY <3>1, <2>2 DEF StackOk
  <2> QED BY <2>1, <2>2
<1> QED BY <1>1, <1>2 DEF StackOk, r

LEMMA ConcatTwo ==
  ASSUME NEW s \in Seq(FrameType), NEW a \in FrameType, NEW b \in FrameType
  PROVE  <<a, b>> \o s = <<a>> \o (<<b>> \o s)
<1>1. /\ <<a, b>> \o s \in Seq(FrameType) /\ Len(<<a, b>> \o s) = Len(s) + 2
      /\ <<a>> \o (<<b>> \o s) \in Seq(FrameType) /\ Len(<<a>> \o (<<b>> \o s)) = Len(s) + 2
  OBVIOUS
<1>2. ASSUME NEW k \in 1 .. Len(s) + 2
      PROVE  (<<a, b>> \o s)[k] = (<<a>> \o (<<b>> \o s))[k]
  OBVIOUS
<1> QED BY <1>1, <1>2, SeqEqual

(* The two frames of an answer that lost its last list.                       *)
LEMMA StackPushGone ==
  ASSUME NEW s \in Seq(FrameType), NEW g \in Goals, NEW lf, NEW pd, StackOk(s, lf, pd),
         lf[g] = "none"
  PROVE  LET r == <<Frame("posFalse", g), Frame("unsupported", g)>> \o s
         IN  r \in Seq(FrameType) /\ StackOk(r, lf, pd)
<1> DEFINE a == Frame("posFalse", g) b == Frame("unsupported", g) r == <<a, b>> \o s
<1>0. a \in FrameType /\ b \in FrameType /\ a.proc = "posFalse" /\ b.proc = "unsupported"
      /\ b.goal = g /\ a = Frame("posFalse", g)
  BY DEF Frame, FrameType, Procedures
<1> HIDE DEF a, b
<1>1. /\ r \in Seq(FrameType) /\ Len(r) = Len(s) + 2 /\ Len(s) \in Nat /\ r[1] = a /\ r[2] = b
      /\ \A k \in 3 .. Len(r) : r[k] = s[k - 2]
  BY <1>0
<1> HIDE DEF r
<1>2. ASSUME NEW k \in 1 .. Len(r)
      PROVE  LET h == r[k].goal IN
             /\ r[k].proc = "posTrue" => lf[h] = "uncond"
             /\ r[k].proc = "unsupported" =>
                  lf[h] = "none" /\ (pd[h] = {} \/ (k > 1 /\ r[k - 1] = Frame("posFalse", h)))
  <2>1. CASE k = 1
    BY <1>0, <1>1, <2>1
  <2>2. CASE k = 2
    BY <1>0, <1>1, <2>2
  <2>3. CASE k > 2
    <3>1. k - 2 \in 1 .. Len(s) /\ r[k] = s[k - 2] /\ (k - 2 > 1 => r[k - 1] = s[k - 3])
      BY <1>1, <2>3
    <3> QED BY <3>1, <2>3 DEF StackOk
  <2> QED BY <2>1, <2>2, <2>3
<1>3. StackOk(r, lf, pd)
  BY <1>2 DEF StackOk
<1> QED BY <1>1, <1>3 DEF r, a, b
-----------------------------------------------------------------------------
(* The links: what the three ways to change them keep.                        *)
LinksOk ==
  /\ DOMAIN lists \subseteq ListIds /\ lists \in [DOMAIN lists -> [of : Goals, body : SUBSET Elements]]
  /\ UsesExact /\ NoneEmpty

LEMMA ReleasedLinks ==
  ASSUME LinkInv, NEW ids \in SUBSET DOMAIN lists, Released(ids)
  PROVE  /\ LinksOk'
         /\ \A g \in Goals : pdes'[g] \subseteq pdes[g] /\ ListsOf(g)' = ListsOf(g) \ ids
<1>1. lists' = [i \in DOMAIN lists \ ids |-> lists[i]]
  BY DEF Released, Restrict
<1>2. /\ pdes' = [g \in Goals |-> pdes[g] \ {i \in ids : Pos(g) \in lists[i].body}]
      /\ ndes' = [g \in Goals |-> ndes[g] \ {i \in ids : Neg(g) \in lists[i].body}]
  BY DEF Released, Unused, Pos, Neg
<1>3. pdes' = [g \in Goals |-> {i \in DOMAIN lists' : Pos(g) \in lists'[i].body}]
  <2>1. ASSUME NEW g \in Goals
        PROVE  pdes[g] \ {i \in ids : Pos(g) \in lists[i].body}
                 = {i \in DOMAIN lists' : Pos(g) \in lists'[i].body}
    BY <1>1 DEF LinkInv, UsesExact
  <2> QED BY <1>2, <2>1
<1>4. ndes' = [g \in Goals |-> {i \in DOMAIN lists' : Neg(g) \in lists'[i].body}]
  <2>1. ASSUME NEW g \in Goals
        PROVE  ndes[g] \ {i \in ids : Neg(g) \in lists[i].body}
                 = {i \in DOMAIN lists' : Neg(g) \in lists'[i].body}
    BY <1>1 DEF LinkInv, UsesExact
  <2> QED BY <1>2, <2>1
<1>5. UsesExact'
  BY <1>3, <1>4 DEF UsesExact, Pos, Neg
<1>6. /\ DOMAIN lists' = DOMAIN lists \ ids
      /\ lists' \in [DOMAIN lists' -> [of : Goals, body : SUBSET Elements]]
      /\ NoneEmpty'
  BY <1>1 DEF LinkInv, Types, NoneEmpty
<1>7. ASSUME NEW g \in Goals PROVE pdes'[g] \subseteq pdes[g] /\ ListsOf(g)' = ListsOf(g) \ ids
  BY <1>1, <1>2 DEF ListsOf
<1> QED BY <1>5, <1>6, <1>7 DEF LinksOk, LinkInv, Types

LEMMA RemovedLinks ==
  ASSUME LinkInv, NEW i \in DOMAIN lists, NEW e, lists[i].body # {e}, Removed(i, e)
  PROVE  /\ LinksOk'
         /\ \A g \in Goals : pdes'[g] \subseteq pdes[g] /\ ListsOf(g)' = ListsOf(g)
<1>0. lists \in [DOMAIN lists -> [of : Goals, body : SUBSET Elements]]
  BY DEF LinkInv, Types
<1>1. /\ DOMAIN lists' = DOMAIN lists
      /\ lists' \in [DOMAIN lists -> [of : Goals, body : SUBSET Elements]]
      /\ lists'[i].of = lists[i].of /\ lists'[i].body = lists[i].body \ {e}
      /\ \A k \in DOMAIN lists : k # i => lists'[k] = lists[k]
  BY <1>0 DEF Removed
<1>2. NoneEmpty'
  BY <1>1 DEF NoneEmpty, LinkInv
<1>3. /\ pdes' = [g \in Goals |-> IF e = Pos(g) THEN pdes[g] \ {i} ELSE pdes[g]]
      /\ ndes' = [g \in Goals |-> IF e = Neg(g) THEN ndes[g] \ {i} ELSE ndes[g]]
  BY DEF Removed
<1>4. pdes' = [g \in Goals |-> {k \in DOMAIN lists' : Pos(g) \in lists'[k].body}]
  <2>1. ASSUME NEW g \in Goals
        PROVE  (IF e = Pos(g) THEN pdes[g] \ {i} ELSE pdes[g])
                 = {k \in DOMAIN lists' : Pos(g) \in lists'[k].body}
    BY <1>1 DEF LinkInv, UsesExact
  <2> QED BY <1>3, <2>1
<1>5. ndes' = [g \in Goals |-> {k \in DOMAIN lists' : Neg(g) \in lists'[k].body}]
  <2>1. ASSUME NEW g \in Goals
        PROVE  (IF e = Neg(g) THEN ndes[g] \ {i} ELSE ndes[g])
                 = {k \in DOMAIN lists' : Neg(g) \in lists'[k].body}
    BY <1>1 DEF LinkInv, UsesExact
  <2> QED BY <1>3, <2>1
<1>6. UsesExact'
  BY <1>4, <1>5 DEF UsesExact, Pos, Neg
<1>7. ASSUME NEW g \in Goals PROVE pdes'[g] \subseteq pdes[g] /\ ListsOf(g)' = ListsOf(g)
  BY <1>1, <1>3 DEF ListsOf
<1> QED BY <1>1, <1>2, <1>6, <1>7 DEF LinksOk, LinkInv, Types

LEMMA LinkedLinks ==
  ASSUME LinkInv, NEW i \in ListIds \ DOMAIN lists, NEW g \in Goals,
         NEW body \in SUBSET Elements, body # {}, Linked(i, g, body)
  PROVE  /\ LinksOk'
         /\ \A h \in Goals : /\ pdes'[h] = IF Pos(h) \in body THEN pdes[h] \cup {i} ELSE pdes[h]
                            /\ ListsOf(h)' = IF h = g THEN ListsOf(h) \cup {i} ELSE ListsOf(h)
<1>0. lists \in [DOMAIN lists -> [of : Goals, body : SUBSET Elements]]
  BY DEF LinkInv, Types
<1>1. /\ DOMAIN lists' = DOMAIN lists \cup {i}
      /\ lists' \in [DOMAIN lists' -> [of : Goals, body : SUBSET Elements]]
      /\ lists'[i].of = g /\ lists'[i].body = body
      /\ \A k \in DOMAIN lists : lists'[k] = lists[k]
  BY <1>0 DEF Linked
<1>2. NoneEmpty'
  BY <1>1 DEF NoneEmpty, LinkInv
<1>3. /\ pdes' = [h \in Goals |-> IF Pos(h) \in body THEN pdes[h] \cup {i} ELSE pdes[h]]
      /\ ndes' = [h \in Goals |-> IF Neg(h) \in body THEN ndes[h] \cup {i} ELSE ndes[h]]
  BY DEF Linked
<1>4. pdes' = [h \in Goals |-> {k \in DOMAIN lists' : Pos(h) \in lists'[k].body}]
  <2>1. ASSUME NEW h \in Goals
        PROVE  (IF Pos(h) \in body THEN pdes[h] \cup {i} ELSE pdes[h])
                 = {k \in DOMAIN lists' : Pos(h) \in lists'[k].body}
    BY <1>1 DEF LinkInv, UsesExact
  <2> QED BY <1>3, <2>1
<1>5. ndes' = [h \in Goals |-> {k \in DOMAIN lists' : Neg(h) \in lists'[k].body}]
  <2>1. ASSUME NEW h \in Goals
        PROVE  (IF Neg(h) \in body THEN ndes[h] \cup {i} ELSE ndes[h])
                 = {k \in DOMAIN lists' : Neg(h) \in lists'[k].body}
    BY <1>1 DEF LinkInv, UsesExact
  <2> QED BY <1>3, <2>1
<1>6. UsesExact'
  BY <1>4, <1>5 DEF UsesExact, Pos, Neg
<1>7. ASSUME NEW h \in Goals
      PROVE  /\ pdes'[h] = IF Pos(h) \in body THEN pdes[h] \cup {i} ELSE pdes[h]
             /\ ListsOf(h)' = IF h = g THEN ListsOf(h) \cup {i} ELSE ListsOf(h)
  BY <1>1, <1>3 DEF ListsOf
<1> QED BY <1>1, <1>2, <1>6, <1>7 DEF LinksOk, LinkInv, Types

LEMMA SameLinks ==
  ASSUME LinkInv, UNCHANGED linkVars
  PROVE  LinksOk' /\ \A g \in Goals : ListsOf(g)' = ListsOf(g)
BY DEF LinkInv, Types, LinksOk, UsesExact, NoneEmpty, ListsOf, linkVars, Pos, Neg

-----------------------------------------------------------------------------
(* What the procedures do to a list.                                          *)
Others == <<complete, asi, closing, open, born>>

LEMMA HoldKeeps ==
  ASSUME LinkInv, NEW i \in DOMAIN lists, NEW e, Hold(i, e, stack), UNCHANGED Others,
         deferred' \in Seq(Goals)
  PROVE  LinkInv'
<1> DEFINE g == lists[i].of
<1>0. g \in Goals /\ i \in ListsOf(g)
  BY DEF LinkInv, Types, ListsOf
<1>1. leaf[g] = "cond"
  BY <1>0 DEF LinkInv, OwnersConditional
<1>2. stack \in Seq(FrameType) /\ StackOk(stack, leaf, pdes) /\ depth \in Int
      /\ leaf \in [Goals -> {"none", "cond", "uncond"}]
  BY DEF LinkInv, Types
<1>3. CASE lists[i].body = {e}
  <2>1. /\ Released(ListsOf(g)) /\ leaf' = [leaf EXCEPT ![g] = "uncond"]
        /\ stack' = <<Frame("posTrue", g), Frame("emptied", g)>> \o stack
        /\ depth' = depth + 1
    BY <1>1, <1>3 DEF Hold, Emptied
  <2>2. ListsOf(g) \in SUBSET DOMAIN lists
    BY DEF ListsOf
  <2>3. /\ LinksOk'
        /\ \A h \in Goals : pdes'[h] \subseteq pdes[h] /\ ListsOf(h)' = ListsOf(h) \ ListsOf(g)
    BY <2>1, <2>2, ReleasedLinks
  <2>4. StackOk(stack, leaf', pdes')
    <3>1. \A h \in Goals : leaf[h] # "cond" => leaf'[h] = leaf[h]
      BY <2>1, <1>1, <1>2
    <3> HIDE DEF g
    <3> QED BY <3>1, <1>2, <2>3, StackLess
  <2>5. stack' \in Seq(FrameType) /\ StackOk(stack', leaf', pdes')
    <3> DEFINE a == Frame("posTrue", g) b == Frame("emptied", g)
    <3>1. a \in FrameType /\ b \in FrameType /\ a.proc = "posTrue" /\ a.goal = g /\ b.proc = "emptied"
      BY <1>0 DEF Frame, FrameType, Procedures
    <3>2. leaf'[g] = "uncond"
      BY <2>1, <1>0, <1>2
    <3>3. stack' = <<a, b>> \o stack
      BY <2>1
    <3> HIDE DEF a, b, g
    <3>4. <<b>> \o stack \in Seq(FrameType) /\ StackOk(<<b>> \o stack, leaf', pdes')
      BY <1>2, <2>4, <3>1, StackPush
    <3>5. /\ <<a>> \o (<<b>> \o stack) \in Seq(FrameType)
          /\ StackOk(<<a>> \o (<<b>> \o stack), leaf', pdes')
      BY <3>1, <3>2, <3>4, StackPush
    <3>6. <<a, b>> \o stack = <<a>> \o (<<b>> \o stack)
      BY <1>2, <3>1, ConcatTwo
    <3> QED BY <3>3, <3>5, <3>6
  <2>6. OwnersConditional'
    <3>1. \A h \in Goals : h # g => ListsOf(h) \ ListsOf(g) = ListsOf(h)
      BY DEF ListsOf
    <3>2. ASSUME NEW h \in Goals PROVE leaf'[h] = "cond" <=> ListsOf(h)' # {}
      BY <2>1, <2>3, <3>1, <1>2 DEF LinkInv, OwnersConditional
    <3> QED BY <3>2 DEF OwnersConditional, ListsOf
  <2>7. AsiKept'
    BY <2>1, <2>3, <1>2 DEF LinkInv, AsiKept, Others
  <2> HIDE DEF g
  <2> QED BY <2>1, <2>3, <2>5, <2>6, <2>7, <1>0, <1>2
          DEF LinkInv, LinksOk, Types, Others
<1>4. CASE lists[i].body # {e}
  <2>1. Removed(i, e) /\ leaf' = leaf /\ depth' = depth /\ stack' = stack
    BY <1>4 DEF Hold
  <2>2. LinksOk' /\ \A h \in Goals : pdes'[h] \subseteq pdes[h] /\ ListsOf(h)' = ListsOf(h)
    BY <1>4, <2>1, RemovedLinks
  <2>3. StackOk(stack', leaf', pdes')
    BY <1>2, <2>1, <2>2, StackLess
  <2>4. OwnersConditional'
    <3>1. ASSUME NEW h \in Goals PROVE leaf'[h] = "cond" <=> ListsOf(h)' # {}
      BY <2>1, <2>2 DEF LinkInv, OwnersConditional
    <3> QED BY <3>1 DEF OwnersConditional, ListsOf
  <2>5. AsiKept'
    BY <2>1, <2>2 DEF LinkInv, AsiKept, Others
  <2> QED BY <2>1, <2>2, <2>3, <2>4, <2>5, <1>2 DEF LinkInv, LinksOk, Types, Others
<1> QED BY <1>3, <1>4

LEMMA DropKeeps ==
  ASSUME LinkInv, NEW i \in DOMAIN lists, Drop(i), UNCHANGED Others, deferred' = deferred
  PROVE  LinkInv'
<1> DEFINE g == lists[i].of
<1>0. g \in Goals /\ i \in ListsOf(g)
  BY DEF LinkInv, Types, ListsOf
<1>1. leaf[g] = "cond"
  BY <1>0 DEF LinkInv, OwnersConditional
<1>2. stack \in Seq(FrameType) /\ StackOk(stack, leaf, pdes) /\ depth \in Int
      /\ leaf \in [Goals -> {"none", "cond", "uncond"}]
  BY DEF LinkInv, Types
<1>3. Released({i})
  BY DEF Drop
<1>4. LinksOk' /\ \A h \in Goals : pdes'[h] \subseteq pdes[h] /\ ListsOf(h)' = ListsOf(h) \ {i}
  <2>1. {i} \in SUBSET DOMAIN lists
    OBVIOUS
  <2> QED BY <1>3, <2>1, ReleasedLinks
<1>5. \A h \in Goals : h # g => i \notin ListsOf(h)
  BY DEF ListsOf
<1>6. CASE ListsOf(g) = {i}
  <2>1. /\ leaf' = [leaf EXCEPT ![g] = "none"] /\ depth' = depth + 1
        /\ stack' = <<Frame("posFalse", g), Frame("unsupported", g)>> \o stack
    BY <1>6 DEF Drop, DropsAnswer, Push
  <2>2. StackOk(stack, leaf', pdes')
    <3>1. \A h \in Goals : leaf[h] # "cond" => leaf'[h] = leaf[h]
      BY <2>1, <1>1, <1>2
    <3> HIDE DEF g
    <3> QED BY <3>1, <1>2, <1>4, StackLess
  <2>3. leaf'[g] = "none"
    BY <2>1, <1>0, <1>2
  <2>4. stack' \in Seq(FrameType) /\ StackOk(stack', leaf', pdes')
    <3> HIDE DEF g
    <3> QED BY <2>1, <2>2, <2>3, <1>0, <1>2, StackPushGone
  <2>5. OwnersConditional'
    <3>1. ASSUME NEW h \in Goals PROVE leaf'[h] = "cond" <=> ListsOf(h)' # {}
      BY <2>1, <1>4, <1>5, <1>6, <1>2 DEF LinkInv, OwnersConditional
    <3> QED BY <3>1 DEF OwnersConditional, ListsOf
  <2>6. AsiKept'
    BY <2>1, <1>4, <1>2 DEF LinkInv, AsiKept, Others
  <2> HIDE DEF g
  <2> QED BY <2>1, <2>4, <2>5, <2>6, <1>0, <1>2, <1>4 DEF LinkInv, LinksOk, Types, Others
<1>7. CASE ListsOf(g) # {i}
  <2>1. leaf' = leaf /\ depth' = depth /\ stack' = stack
    BY <1>7 DEF Drop, DropsAnswer
  <2>2. StackOk(stack', leaf', pdes')
    BY <1>2, <2>1, <1>4, StackLess
  <2>3. OwnersConditional'
    <3>1. ASSUME NEW h \in Goals PROVE leaf'[h] = "cond" <=> ListsOf(h)' # {}
      BY <2>1, <1>0, <1>4, <1>5, <1>7 DEF LinkInv, OwnersConditional
    <3> QED BY <3>1 DEF OwnersConditional, ListsOf
  <2>4. AsiKept'
    BY <2>1, <1>4 DEF LinkInv, AsiKept, Others
  <2> QED BY <2>1, <2>2, <2>3, <2>4, <1>2, <1>4 DEF LinkInv, LinksOk, Types, Others
<1> QED BY <1>6, <1>7

-----------------------------------------------------------------------------
(* Returns and calls.                                                         *)
OpenTyped == \A d \in open : d.head \in Goals /\ d.body \subseteq Literals

LEMMA CallKeeps ==
  ASSUME LinkInv, UNCHANGED <<leaf, linkVars, born>>,
         stack' \in Seq(FrameType), StackOk(stack', leaf, pdes),
         complete' \subseteq Goals, closing' \subseteq Goals, asi' \subseteq Goals,
         \A g \in Goals : leaf[g] = "cond" \/ pdes[g] # {} => g \in asi',
         deferred' \in Seq(Goals), depth' \in Int, OpenTyped'
  PROVE  LinkInv'
<1>1. LinksOk' /\ \A g \in Goals : ListsOf(g)' = ListsOf(g)
  BY SameLinks
<1>2. OwnersConditional'
  <2>1. ASSUME NEW g \in Goals PROVE leaf'[g] = "cond" <=> ListsOf(g)' # {}
    BY <1>1 DEF LinkInv, OwnersConditional
  <2> QED BY <2>1 DEF OwnersConditional, ListsOf
<1>3. AsiKept' /\ StackOk(stack', leaf', pdes')
  BY DEF AsiKept, linkVars
<1> QED BY <1>1, <1>2, <1>3 DEF LinkInv, LinksOk, Types, OpenTyped

LEMMA Returned ==
  ASSUME LinkInv, NEW p, NEW g, Runs(p, g), p = "posFalse" => pdes[g] = {}
  PROVE  /\ Tail(stack) \in Seq(FrameType) /\ StackOk(Tail(stack), leaf, pdes)
         /\ <<>> \o Tail(stack) = Tail(stack)
<1>1. stack \in Seq(FrameType) /\ stack # <<>> /\ StackOk(stack, leaf, pdes)
  BY DEF LinkInv, Types, Runs
<1>2. stack[1].proc = "posFalse" => pdes[stack[1].goal] = {}
  BY <1>1 DEF Runs, Frame
<1>3. Tail(stack) \in Seq(FrameType) /\ StackOk(Tail(stack), leaf, pdes)
  BY <1>1, <1>2, StackPop
<1> QED BY <1>3

LEMMA Called ==
  ASSUME LinkInv, NEW s \in Seq(FrameType), StackOk(s, leaf, pdes), NEW g \in Goals,
         NEW p \in {"negTrue", "negFails", "emptied"}
  PROVE  <<Frame(p, g)>> \o s \in Seq(FrameType) /\ StackOk(<<Frame(p, g)>> \o s, leaf, pdes)
<1>1. Frame(p, g) \in FrameType /\ Frame(p, g).proc = p
  BY DEF Frame, FrameType, Procedures
<1> QED BY <1>1, StackPush

LEMMA NegFailsCalled ==
  ASSUME LinkInv, NEW g \in Goals, NEW rest \in Seq(FrameType), StackOk(rest, leaf, pdes),
         NegFailsCall(g, rest)
  PROVE  /\ stack' \in Seq(FrameType) /\ StackOk(stack', leaf, pdes)
         /\ deferred' \in Seq(Goals) /\ depth' \in Int
<1>1. deferred \in Seq(Goals) /\ depth \in Int
  BY DEF LinkInv, Types
<1>2. <<g>> \o deferred \in Seq(Goals)
  BY <1>1
<1>3. depth' \in Int
  BY <1>1 DEF NegFailsCall
<1>4. CASE deferred' = <<g>> \o deferred /\ stack' = rest
  <2>1. deferred' \in Seq(Goals)
    BY <1>2, <1>4
  <2> QED BY <1>3, <1>4, <2>1
<1>5. CASE stack' = <<Frame("negFails", g)>> \o rest /\ deferred' = deferred
  <2> DEFINE r == <<Frame("negFails", g)>> \o rest
  <2>1. r \in Seq(FrameType) /\ StackOk(r, leaf, pdes)
    BY Called
  <2>2. stack' = r /\ deferred' \in Seq(Goals)
    BY <1>1, <1>5
  <2> HIDE DEF r
  <2> QED BY <1>3, <2>1, <2>2
<1> QED BY <1>4, <1>5 DEF NegFailsCall

-----------------------------------------------------------------------------
(* Every step keeps the invariant.                                            *)
LEMMA PosTrueKeeps ==
  ASSUME LinkInv, NEW g \in Goals, PosTrue(g) PROVE LinkInv'
<1>0. UNCHANGED <<complete, deferred, closing, open, born>> /\ Runs("posTrue", g)
  BY DEF PosTrue, engineVars
<1>1. deferred \in Seq(Goals) /\ depth \in Int /\ complete \subseteq Goals
      /\ closing \subseteq Goals /\ asi \subseteq Goals /\ OpenTyped'
  BY <1>0 DEF LinkInv, Types, OpenTyped
<1>2. CASE (\E i \in pdes[g] : Hold(i, Pos(g), stack)) /\ UNCHANGED asi
  <2>1. PICK i \in pdes[g] : Hold(i, Pos(g), stack)
    BY <1>2
  <2>2. i \in DOMAIN lists
    BY DEF LinkInv, UsesExact
  <2> QED BY <1>0, <1>1, <1>2, <2>1, <2>2, HoldKeeps DEF Others
<1>3. CASE /\ pdes[g] = {} /\ asi' = asi \ {g} /\ depth' = depth - 1 /\ Pop(<<>>)
           /\ UNCHANGED <<leaf, linkVars>>
  <2>1. leaf[g] = "uncond"
    <3>1. stack \in Seq(FrameType) /\ stack # <<>> /\ stack[1] = Frame("posTrue", g)
      BY <1>0 DEF LinkInv, Types, Runs
    <3>2. 1 \in 1 .. Len(stack) /\ stack[1].proc = "posTrue" /\ stack[1].goal = g
      BY <3>1 DEF Frame
    <3> QED BY <3>2 DEF LinkInv, StackOk
  <2>2. stack' \in Seq(FrameType) /\ StackOk(stack', leaf, pdes)
    BY <1>0, <1>3, Returned DEF Pop
  <2>3. \A h \in Goals : leaf[h] = "cond" \/ pdes[h] # {} => h \in asi'
    BY <1>3, <2>1 DEF LinkInv, AsiKept
  <2> QED BY <1>0, <1>1, <1>3, <2>2, <2>3, CallKeeps
<1> QED BY <1>2, <1>3 DEF PosTrue

LEMMA AfterEmptiedKeeps ==
  ASSUME LinkInv, NEW g \in Goals, AfterEmptied(g) PROVE LinkInv'
<1>1. Runs("emptied", g) /\ UNCHANGED <<leaf, asi, linkVars, deferred, closing, open, born>>
      /\ stack' = <<Frame("negTrue", g)>> \o Tail(stack) /\ depth' = depth + 1
      /\ complete' = complete \cup {g}
  BY DEF AfterEmptied, engineVars, Pop
<1>2. Tail(stack) \in Seq(FrameType) /\ StackOk(Tail(stack), leaf, pdes)
  BY <1>1, Returned
<1>3. stack' \in Seq(FrameType) /\ StackOk(stack', leaf, pdes)
  BY <1>1, <1>2, Called
<1>4. /\ deferred' \in Seq(Goals) /\ depth' \in Int /\ complete' \subseteq Goals
      /\ closing' \subseteq Goals /\ asi' \subseteq Goals /\ OpenTyped'
      /\ \A h \in Goals : leaf[h] = "cond" \/ pdes[h] # {} => h \in asi'
  BY <1>1 DEF LinkInv, Types, OpenTyped, AsiKept
<1> QED BY <1>1, <1>3, <1>4, CallKeeps

LEMMA NegTrueKeeps ==
  ASSUME LinkInv, NEW g \in Goals, NegTrue(g) PROVE LinkInv'
<1>0. UNCHANGED <<complete, asi, deferred, closing, open, born>> /\ Runs("negTrue", g)
  BY DEF NegTrue, engineVars
<1>1. CASE \E i \in ndes[g] : Drop(i)
  <2>1. PICK i \in ndes[g] : Drop(i)
    BY <1>1
  <2>2. i \in DOMAIN lists
    BY DEF LinkInv, UsesExact
  <2> QED BY <1>0, <2>1, <2>2, DropKeeps DEF Others
<1>2. CASE depth' = depth - 1 /\ Pop(<<>>) /\ UNCHANGED <<leaf, linkVars>>
  <2>1. stack' \in Seq(FrameType) /\ StackOk(stack', leaf, pdes)
    BY <1>0, <1>2, Returned DEF Pop
  <2>2. /\ deferred' \in Seq(Goals) /\ depth' \in Int /\ complete' \subseteq Goals
        /\ closing' \subseteq Goals /\ asi' \subseteq Goals /\ OpenTyped'
        /\ \A h \in Goals : leaf[h] = "cond" \/ pdes[h] # {} => h \in asi'
    BY <1>0, <1>2 DEF LinkInv, Types, OpenTyped, AsiKept
  <2> QED BY <1>0, <1>2, <2>1, <2>2, CallKeeps
<1> QED BY <1>1, <1>2 DEF NegTrue

LEMMA PosFalseKeeps ==
  ASSUME LinkInv, NEW g \in Goals, PosFalse(g) PROVE LinkInv'
<1>0. UNCHANGED <<complete, asi, deferred, closing, open, born>> /\ Runs("posFalse", g)
  BY DEF PosFalse, engineVars
<1>1. CASE \E i \in pdes[g] : Drop(i)
  <2>1. PICK i \in pdes[g] : Drop(i)
    BY <1>1
  <2>2. i \in DOMAIN lists
    BY DEF LinkInv, UsesExact
  <2> QED BY <1>0, <2>1, <2>2, DropKeeps DEF Others
<1>2. CASE pdes[g] = {} /\ depth' = depth - 1 /\ Pop(<<>>) /\ UNCHANGED <<leaf, linkVars>>
  <2>1. stack' \in Seq(FrameType) /\ StackOk(stack', leaf, pdes)
    BY <1>0, <1>2, Returned DEF Pop
  <2>2. /\ deferred' \in Seq(Goals) /\ depth' \in Int /\ complete' \subseteq Goals
        /\ closing' \subseteq Goals /\ asi' \subseteq Goals /\ OpenTyped'
        /\ \A h \in Goals : leaf[h] = "cond" \/ pdes[h] # {} => h \in asi'
    BY <1>0, <1>2 DEF LinkInv, Types, OpenTyped, AsiKept
  <2> QED BY <1>0, <1>2, <2>1, <2>2, CallKeeps
<1> QED BY <1>1, <1>2 DEF PosFalse

LEMMA AfterUnsupportedKeeps ==
  ASSUME LinkInv, NEW g \in Goals, AfterUnsupported(g) PROVE LinkInv'
<1>0. /\ UNCHANGED <<complete, leaf, linkVars, closing, open, born>> /\ Runs("unsupported", g)
      /\ asi' = asi \ {g}
  BY DEF AfterUnsupported, engineVars
<1>1. Tail(stack) \in Seq(FrameType) /\ StackOk(Tail(stack), leaf, pdes)
      /\ <<>> \o Tail(stack) = Tail(stack)
  BY <1>0, Returned
<1>2. leaf[g] = "none" /\ pdes[g] = {}
  <2>1. stack \in Seq(FrameType) /\ stack # <<>> /\ stack[1] = Frame("unsupported", g)
    BY <1>0 DEF LinkInv, Types, Runs
  <2>2. 1 \in 1 .. Len(stack) /\ stack[1].proc = "unsupported" /\ stack[1].goal = g
    BY <2>1 DEF Frame
  <2> QED BY <2>2 DEF LinkInv, StackOk
<1>3. /\ complete' \subseteq Goals /\ closing' \subseteq Goals /\ asi' \subseteq Goals /\ OpenTyped'
      /\ \A h \in Goals : leaf[h] = "cond" \/ pdes[h] # {} => h \in asi'
  BY <1>0, <1>2 DEF LinkInv, Types, OpenTyped, AsiKept
<1>4. /\ stack' \in Seq(FrameType) /\ StackOk(stack', leaf, pdes)
      /\ deferred' \in Seq(Goals) /\ depth' \in Int
  <2>1. CASE FailsForGood(g)
    <3>1. NegFailsCall(g, Tail(stack))
      BY <2>1 DEF AfterUnsupported
    <3> QED BY <1>1, <3>1, NegFailsCalled
  <2>2. CASE ~FailsForGood(g)
    BY <1>1, <2>2 DEF AfterUnsupported, Pop, LinkInv, Types
  <2> QED BY <2>1, <2>2
<1> QED BY <1>0, <1>3, <1>4, CallKeeps

LEMMA NegFailsKeeps ==
  ASSUME LinkInv, NEW g \in Goals, NegFails(g) PROVE LinkInv'
<1>0. UNCHANGED <<complete, asi, closing, open, born>> /\ Runs("negFails", g)
  BY DEF NegFails, engineVars
<1>1. deferred \in Seq(Goals) /\ depth \in Int
  BY DEF LinkInv, Types
<1>2. /\ complete' \subseteq Goals /\ closing' \subseteq Goals /\ asi' \subseteq Goals /\ OpenTyped'
      /\ \A h \in Goals : leaf[h] = "cond" \/ pdes[h] # {} => h \in asi'
  BY <1>0 DEF LinkInv, Types, OpenTyped, AsiKept
<1>3. /\ Tail(stack) \in Seq(FrameType) /\ StackOk(Tail(stack), leaf, pdes)
      /\ <<>> \o Tail(stack) = Tail(stack)
  BY <1>0, Returned
<1>4. CASE \E i \in ndes[g] : Hold(i, Neg(g), stack) /\ UNCHANGED deferred
  <2>1. PICK i \in ndes[g] : Hold(i, Neg(g), stack) /\ UNCHANGED deferred
    BY <1>4
  <2>2. i \in DOMAIN lists
    BY DEF LinkInv, UsesExact
  <2> QED BY <1>0, <1>1, <2>1, <2>2, HoldKeeps DEF Others
<1>5. CASE /\ deferred # <<>> /\ Pop(<<Frame("negFails", Head(deferred))>>) /\ deferred' = Rest
           /\ UNCHANGED <<leaf, linkVars, depth>>
  <2>1. Head(deferred) \in Goals /\ Tail(deferred) \in Seq(Goals)
    BY <1>1, <1>5
  <2>2. stack' \in Seq(FrameType) /\ StackOk(stack', leaf, pdes)
    BY <1>3, <1>5, <2>1, Called DEF Pop
  <2> QED BY <1>0, <1>1, <1>2, <1>5, <2>1, <2>2, CallKeeps DEF Rest
<1>6. CASE depth' = depth - 1 /\ Pop(<<>>) /\ UNCHANGED <<leaf, linkVars, deferred>>
  BY <1>0, <1>1, <1>2, <1>3, <1>6, CallKeeps DEF Pop
<1> QED BY <1>4, <1>5, <1>6 DEF NegFails

LEMMA AfterAnswerKeeps ==
  ASSUME LinkInv, NEW g \in Goals, AfterAnswer(g) PROVE LinkInv'
<1>0. UNCHANGED <<leaf, asi, linkVars, deferred, closing, open, born>>
  BY DEF AfterAnswer, engineVars
<1>1. /\ Tail(stack) \in Seq(FrameType) /\ StackOk(Tail(stack), leaf, pdes)
      /\ <<>> \o Tail(stack) = Tail(stack)
  BY Returned DEF AfterAnswer
<1>2. stack' \in Seq(FrameType) /\ StackOk(stack', leaf, pdes)
  BY <1>1, Called DEF AfterAnswer, Pop
<1>3. /\ deferred' \in Seq(Goals) /\ depth' \in Int /\ complete' \subseteq Goals
      /\ closing' \subseteq Goals /\ asi' \subseteq Goals /\ OpenTyped'
      /\ \A h \in Goals : leaf[h] = "cond" \/ pdes[h] # {} => h \in asi'
  BY <1>0 DEF AfterAnswer, LinkInv, Types, OpenTyped, AsiKept
<1> QED BY <1>0, <1>2, <1>3, CallKeeps

LEMMA CloseTableKeeps ==
  ASSUME LinkInv, NEW g \in Goals, CloseTable(g) PROVE LinkInv'
<1>0. /\ UNCHANGED <<leaf, asi, linkVars, open, born>> /\ stack = <<>>
      /\ complete' = complete \cup {g} /\ closing' = closing \ {g}
  BY DEF CloseTable
<1>1. /\ complete' \subseteq Goals /\ closing' \subseteq Goals /\ asi' \subseteq Goals /\ OpenTyped'
      /\ \A h \in Goals : leaf[h] = "cond" \/ pdes[h] # {} => h \in asi'
  BY <1>0 DEF LinkInv, Types, OpenTyped, AsiKept
<1>2. stack \in Seq(FrameType) /\ StackOk(stack, leaf, pdes) /\ deferred \in Seq(Goals) /\ depth \in Int
  BY DEF LinkInv, Types
<1>3. /\ stack' \in Seq(FrameType) /\ StackOk(stack', leaf, pdes)
      /\ deferred' \in Seq(Goals) /\ depth' \in Int
  <2>1. CASE NegFailsCall(g, stack)
    BY <1>2, <2>1, NegFailsCalled
  <2>2. CASE UNCHANGED callVars
    BY <1>2, <2>2 DEF callVars
  <2> QED BY <1>0, <2>1, <2>2 DEF CloseTable
<1> QED BY <1>0, <1>1, <1>3, CallKeeps

(* The element of a list that is interned is one of a conditional answer, or  *)
(* negative.                                                                  *)
LEMMA NewAnswerKeeps ==
  ASSUME LinkInv, NEW d \in open, NewAnswer(d) PROVE LinkInv'
<1> DEFINE g == d.head
           body == {Element(l) : l \in {k \in d.body : ~WasSimplifiable(k)}}
           interned == body # {} /\ leaf[g] # "uncond"
           birth == IF leaf[g] # "none" THEN born[g] ELSE born[g] + 1
<1>0. /\ AtRest /\ \A l \in d.body : ~Freed(l)
      /\ open' = open \ {d} /\ born' = [born EXCEPT ![g] = birth]
      /\ UNCHANGED <<complete, deferred, closing>>
  BY DEF NewAnswer
<1>1. g \in Goals /\ d.body \subseteq Literals
  BY DEF LinkInv, Types
<1>2. /\ leaf \in [Goals -> {"none", "cond", "uncond"}] /\ born' \in [Goals -> Nat]
      /\ deferred' \in Seq(Goals) /\ depth \in Int /\ complete' \subseteq Goals
      /\ closing' \subseteq Goals /\ OpenTyped'
  <2>1. birth \in Nat
    BY <1>1 DEF LinkInv, Types
  <2> HIDE DEF birth
  <2> QED BY <1>0, <1>1, <2>1 DEF LinkInv, Types, OpenTyped
<1>3. body \in SUBSET Elements
  BY <1>1 DEF Element, Elements, Literals
<1>4. ASSUME NEW h \in Goals, Pos(h) \in body PROVE leaf[h] = "cond"
  <2>1. PICK l \in d.body : ~WasSimplifiable(l) /\ Element(l) = Pos(h)
    BY <1>4
  <2>2. l[1] = "pos" /\ l[2] = h
    BY <2>1 DEF Element, Pos
  <2>3. leaf[h] # "none" /\ leaf[h] # "uncond"
    BY <1>0, <2>1, <2>2 DEF Freed, WasSimplifiable
  <2> QED BY <1>2, <2>3
<1>5. CASE /\ interned /\ DOMAIN lists # ListIds
           /\ leaf' = [leaf EXCEPT ![g] = "cond"] /\ asi' = asi \cup {g}
           /\ LET i == CHOOSE k \in ListIds \ DOMAIN lists : TRUE IN Linked(i, g, body)
           /\ stack' = <<>> /\ depth' = 0
  <2> DEFINE i == CHOOSE k \in ListIds \ DOMAIN lists : TRUE
  <2>1. i \in ListIds \ DOMAIN lists
    BY <1>5 DEF LinkInv, Types
  <2>2. Linked(i, g, body) /\ body # {}
    BY <1>5
  <2>3. leaf'[g] = "cond" /\ \A h \in Goals : h # g => leaf'[h] = leaf[h]
    BY <1>1, <1>2, <1>5
  <2>4. asi' = asi \cup {g} /\ stack' = <<>> /\ depth' = 0
        /\ leaf' \in [Goals -> {"none", "cond", "uncond"}]
    BY <1>1, <1>2, <1>5
  <2> HIDE DEF i, body
  <2>5. /\ LinksOk'
        /\ \A h \in Goals : /\ pdes'[h] = IF Pos(h) \in body THEN pdes[h] \cup {i} ELSE pdes[h]
                           /\ ListsOf(h)' = IF h = g THEN ListsOf(h) \cup {i} ELSE ListsOf(h)
    <3>1. LinkInv /\ g \in Goals /\ i \in ListIds \ DOMAIN lists
      BY <1>1, <2>1
    <3> QED BY ONLY <1>3, <2>2, <3>1, LinkedLinks
  <2>6. OwnersConditional'
    <3>1. ASSUME NEW h \in Goals PROVE leaf'[h] = "cond" <=> ListsOf(h)' # {}
      BY <2>3, <2>5 DEF LinkInv, OwnersConditional
    <3> QED BY <3>1 DEF OwnersConditional, ListsOf
  <2>7. AsiKept'
    <3>1. ASSUME NEW h \in Goals, leaf'[h] = "cond" \/ pdes'[h] # {} PROVE h \in asi'
      BY <1>4, <2>3, <2>4, <2>5, <3>1 DEF LinkInv, AsiKept
    <3> QED BY <3>1 DEF AsiKept
  <2>8. stack' \in Seq(FrameType) /\ StackOk(stack', leaf', pdes')
    BY <2>4 DEF StackOk
  <2>9. asi' \subseteq Goals
    BY <1>1, <2>4 DEF LinkInv, Types
  <2> QED BY <1>2, <2>4, <2>5, <2>6, <2>7, <2>8, <2>9 DEF LinkInv, LinksOk, Types, OpenTyped
<1>6. CASE /\ ~interned /\ leaf[g] = "cond"
           /\ Released(ListsOf(g)) /\ leaf' = [leaf EXCEPT ![g] = "uncond"]
           /\ stack' = <<Frame("posTrue", g), Frame("found", g)>> /\ depth' = 1
           /\ UNCHANGED asi
  <2>1. leaf'[g] = "uncond" /\ \A h \in Goals : h # g => leaf'[h] = leaf[h]
    BY <1>1, <1>2, <1>6
  <2>2. leaf' \in [Goals -> {"none", "cond", "uncond"}]
    BY <1>2, <1>6
  <2>3. ListsOf(g) \in SUBSET DOMAIN lists
    BY DEF ListsOf
  <2> HIDE DEF body, g
  <2>4. /\ LinksOk'
        /\ \A h \in Goals : pdes'[h] \subseteq pdes[h] /\ ListsOf(h)' = ListsOf(h) \ ListsOf(g)
    BY <1>6, <2>3, ReleasedLinks
  <2>5. OwnersConditional'
    <3>1. \A h \in Goals : h # g => ListsOf(h) \ ListsOf(g) = ListsOf(h)
      BY DEF ListsOf
    <3>2. ASSUME NEW h \in Goals PROVE leaf'[h] = "cond" <=> ListsOf(h)' # {}
      BY <2>1, <2>4, <3>1 DEF LinkInv, OwnersConditional
    <3> QED BY <3>2 DEF OwnersConditional, ListsOf
  <2>6. AsiKept'
    BY <1>6, <2>1, <2>4 DEF LinkInv, AsiKept
  <2>7. stack' \in Seq(FrameType) /\ StackOk(stack', leaf', pdes')
    <3> DEFINE a == Frame("posTrue", g) b == Frame("found", g)
    <3>1. a \in FrameType /\ b \in FrameType /\ a.proc = "posTrue" /\ a.goal = g /\ b.proc = "found"
      BY <1>1 DEF Frame, FrameType, Procedures
    <3>2. stack' = <<a, b>>
      BY <1>6
    <3> HIDE DEF a, b
    <3>3. /\ stack' \in Seq(FrameType) /\ Len(stack') = 2
          /\ stack'[1] = a /\ stack'[2] = b
      BY <3>1, <3>2
    <3>4. \A k \in 1 .. 2 : k = 1 \/ k = 2
      OBVIOUS
    <3>5. ASSUME NEW k \in 1 .. Len(stack')
          PROVE  /\ stack'[k].proc = "posTrue" => leaf'[stack'[k].goal] = "uncond"
                 /\ stack'[k].proc # "unsupported"
      BY <2>1, <3>1, <3>3, <3>4
    <3> QED BY <3>3, <3>5 DEF StackOk
  <2> QED BY <1>2, <1>6, <2>2, <2>4, <2>5, <2>6, <2>7 DEF LinkInv, LinksOk, Types, OpenTyped
<1>7. CASE /\ ~interned /\ leaf[g] # "cond"
           /\ leaf' = [leaf EXCEPT ![g] = "uncond"]
           /\ stack' = <<Frame(IF leaf[g] # "none" THEN "found" ELSE "new", g)>> /\ depth' = 0
           /\ UNCHANGED <<asi, linkVars>>
  <2>1. leaf'[g] = "uncond" /\ \A h \in Goals : h # g => leaf'[h] = leaf[h]
    BY <1>1, <1>2, <1>7
  <2>2. leaf' \in [Goals -> {"none", "cond", "uncond"}]
    BY <1>2, <1>7
  <2>3. LinksOk' /\ \A h \in Goals : ListsOf(h)' = ListsOf(h)
    BY <1>7, SameLinks
  <2> HIDE DEF body, g
  <2>4. OwnersConditional'
    <3>1. ASSUME NEW h \in Goals PROVE leaf'[h] = "cond" <=> ListsOf(h)' # {}
      BY <1>7, <2>1, <2>3 DEF LinkInv, OwnersConditional
    <3> QED BY <3>1 DEF OwnersConditional, ListsOf
  <2>5. AsiKept'
    BY <1>7, <2>1 DEF LinkInv, AsiKept, linkVars
  <2>6. stack' \in Seq(FrameType) /\ StackOk(stack', leaf', pdes')
    <3>1. PICK p \in {"found", "new"} : stack' = <<Frame(p, g)>>
      BY <1>7
    <3>2. Frame(p, g) \in FrameType /\ Frame(p, g).proc = p
      BY <1>1 DEF Frame, FrameType, Procedures
    <3>3. stack' \in Seq(FrameType) /\ Len(stack') = 1 /\ stack'[1].proc = p
      BY <3>1, <3>2
    <3>4. ASSUME NEW k \in 1 .. Len(stack')
          PROVE  stack'[k].proc # "posTrue" /\ stack'[k].proc # "unsupported"
      BY <3>3
    <3> QED BY <3>3, <3>4 DEF StackOk
  <2> QED BY <1>2, <1>7, <2>2, <2>3, <2>4, <2>5, <2>6 DEF LinkInv, LinksOk, Types, OpenTyped
<1> QED BY <1>5, <1>6, <1>7 DEF NewAnswer

(* A derivation in progress that starts, delays or fails, and the completion  *)
(* of an SCC that begins, change no table.                                    *)
LEMMA EngineKeeps ==
  ASSUME LinkInv, UNCHANGED <<tableVars, linkVars, callVars, born>>,
         closing' \subseteq Goals, OpenTyped'
  PROVE  LinkInv'
<1>1. /\ stack' \in Seq(FrameType) /\ StackOk(stack', leaf, pdes) /\ deferred' \in Seq(Goals)
      /\ depth' \in Int /\ complete' \subseteq Goals /\ asi' \subseteq Goals
      /\ \A g \in Goals : leaf[g] = "cond" \/ pdes[g] # {} => g \in asi'
      /\ UNCHANGED <<leaf, linkVars, born>>
  BY DEF LinkInv, Types, AsiKept, tableVars, callVars
<1> QED BY <1>1, CallKeeps

LEMMA DelayKeeps ==
  ASSUME LinkInv, NEW g \in Goals, NEW body \in SUBSET Delayable, Delay(g, body) PROVE LinkInv'
<1>1. body \subseteq Literals
  BY DEF Delayable, Literals, LinkInv, Types
<1>2. open' = open \cup {[head |-> g, body |-> body]} /\ closing' = closing
  BY DEF Delay
<1>3. closing' \subseteq Goals /\ OpenTyped'
  BY <1>1, <1>2 DEF LinkInv, Types, OpenTyped
<1> QED BY <1>3, EngineKeeps DEF Delay

LEMMA NextKeeps == LinkInv /\ [Next]_vars => LinkInv'
<1> SUFFICES ASSUME LinkInv, [Next]_vars PROVE LinkInv'
  OBVIOUS
<1>1. CASE Simplify
  BY <1>1, PosTrueKeeps, AfterEmptiedKeeps, NegTrueKeeps, PosFalseKeeps, AfterUnsupportedKeeps,
     NegFailsKeeps, AfterAnswerKeeps, CloseTableKeeps DEF Simplify
<1>2. CASE \E g \in Goals, body \in SUBSET Delayable : Delay(g, body)
  BY <1>2, DelayKeeps
<1>3. CASE \E d \in open : Fail(d)
  BY <1>3, EngineKeeps DEF Fail, LinkInv, Types, OpenTyped
<1>4. CASE \E d \in open : NewAnswer(d)
  BY <1>4, NewAnswerKeeps
<1>5. CASE \E scc \in SUBSET Goals : Complete(scc)
  BY <1>5, EngineKeeps DEF Complete, LinkInv, Types, OpenTyped
<1>6. CASE UNCHANGED vars
  BY <1>6, EngineKeeps DEF vars, engineVars, LinkInv, Types, OpenTyped
<1> QED BY <1>1, <1>2, <1>3, <1>4, <1>5, <1>6 DEF Next

LEMMA InitHolds == Init => LinkInv
<1> SUFFICES ASSUME Init PROVE LinkInv
  OBVIOUS
<1>1. lists = <<>> /\ DOMAIN lists = {}
  BY DEF Init
<1>2. Types
  BY <1>1 DEF Init, Types
<1>3. UsesExact /\ NoneEmpty /\ OwnersConditional /\ AsiKept
  BY <1>1 DEF Init, UsesExact, NoneEmpty, OwnersConditional, AsiKept, ListsOf
<1>4. StackOk(stack, leaf, pdes)
  BY DEF Init, StackOk
<1> QED BY <1>2, <1>3, <1>4 DEF LinkInv

(* Every link of the delay lists is exact at every moment of a                *)
(* simplification: what its recursive procedures free                         *)
(* (release_all_dls, delete_branch, the ASI) is used by no other.             *)
THEOREM LinksAreHeld == Spec => []LinksHold
<1>1. Spec => []LinkInv
  BY InitHolds, NextKeeps, PTL DEF Spec
<1> QED BY <1>1, InvImpliesLinks, PTL
=============================================================================
