---------------------- MODULE IncrementalTablingProofs ----------------------
(* TypeOK, GraphAgrees, CountsCover and VisitorsCounted of                    *)
(* IncrementalTabling, for any finite sets of subgoals and leaves, any        *)
(* programs and any bounds, as long as no exception ends a re-evaluation: no  *)
(* traversal follows an edge to a freed call node, no count leaves its range  *)
(* or falls behind the affected tables below it, and no trie is recomputed    *)
(* with a query inside.                                                       *)
EXTENDS IncrementalTabling, FiniteSetTheorems, SequenceTheorems, TLAPS

NodeType == [live : BOOLEAN, falsecount : 0 .. CountRange - 1,
             deleted : BOOLEAN, direct : BOOLEAN]
TableType == [state : {"none", "incomplete", "complete"},
              answers : SUBSET Answers, previous : SUBSET Answers,
              changed : BOOLEAN, visitors : Int]
ItemType == [sub : Subgoals, use : {"call", "if", "return"}]

-----------------------------------------------------------------------------
(* The traversals of the graph.                                               *)

(* A traversal changes the counts and marks of call nodes that exist.         *)
SameNodes(nd) ==
  /\ nd \in [Nodes -> NodeType]
  /\ \A n \in Nodes : nd[n].live = node[n].live

LEMMA NewNodeTyped == /\ NewNode \in NodeType /\ NoNode \in NodeType
                        /\ NewNode.live = TRUE /\ NoNode.live = FALSE
<1>1. 0 \in 0 .. CountRange - 1
  BY BoundsAssumption
<1>2. NoNode \in NodeType /\ NoNode.live = FALSE
  BY <1>1 DEF NoNode, NodeType
<1> QED BY <1>2 DEF NewNode, NodeType

LEMMA EdgesCounted ==
  ASSUME NEW S, S \subseteq Goals, NEW n
  PROVE  /\ IsFiniteSet(Edges(S, n))
         /\ Cardinality(Edges(S, n)) \in Nat
<1>1. IsFiniteSet(Goals)
  BY SetsAssumption, FS_Union DEF Goals
<1>2. Edges(S, n) \in SUBSET Goals
  BY DEF Edges
<1> QED BY <1>1, <1>2, FS_Subset, FS_CardinalityType

LEMMA InvalidationKeepsNodes ==
  ASSUME NEW g \in Goals, node \in [Nodes -> NodeType]
  PROVE  SameNodes(Invalidation(g))
<1> DEFINE hit == Closure(Subgoals \cup {g}, {g}, LAMBDA S :
                       {t \in Subgoals : ~node[Cur(t)].deleted
                                         /\ Edges(S, Cur(t)) # {}})
           count(n) == (node[n].falsecount + Cardinality(Edges(hit, n))
                            + (IF n = <<g, "current">> THEN 1 ELSE 0)) % CountRange
<1>1. hit \subseteq Goals
  BY DEF Closure, Goals
<1>2. ASSUME NEW n \in Nodes
      PROVE  count(n) \in 0 .. CountRange - 1
  <2>1. Cardinality(Edges(hit, n)) \in Nat
    BY <1>1, EdgesCounted
  <2>2. node[n].falsecount \in Nat
    BY BoundsAssumption DEF NodeType
  <2> DEFINE k == node[n].falsecount + Cardinality(Edges(hit, n))
                    + (IF n = <<g, "current">> THEN 1 ELSE 0)
  <2>3. k \in Nat
    <3> HIDE DEF hit
    <3> QED BY <2>1, <2>2
  <2> HIDE DEF k
  <2>4. k % CountRange \in 0 .. CountRange - 1
    BY <2>3, BoundsAssumption
  <2> QED BY <2>4 DEF k
<1>3. InvalidatedFrom(g) = [n \in Nodes |->
        [node[n] EXCEPT !.falsecount = count(n),
                        !.deleted = @ \/ \E t \in hit \cap Subgoals : n = Cur(t)]]
  BY DEF InvalidatedFrom
<1>4. SameNodes(InvalidatedFrom(g))
  <2> DEFINE mark(n) == \E t \in hit \cap Subgoals : n = Cur(t)
             next(n) == [node[n] EXCEPT !.falsecount = count(n), !.deleted = @ \/ mark(n)]
  <2>1. InvalidatedFrom(g) = [n \in Nodes |-> next(n)]
    BY <1>3
  <2>2. ASSUME NEW n \in Nodes
        PROVE  next(n) \in NodeType /\ next(n).live = node[n].live
    <3>1. (node[n].deleted \/ mark(n)) \in BOOLEAN
      OBVIOUS
    <3>2. node[n] \in NodeType
      OBVIOUS
    <3> HIDE DEF count, mark, hit
    <3> QED BY <1>2, <3>1, <3>2 DEF NodeType
  <2> HIDE DEF next
  <2> QED BY <2>1, <2>2 DEF SameNodes
<1> QED BY <1>4 DEF Invalidation, SameNodes

LEMMA CountLeft ==
  ASSUME NEW a \in 0 .. CountRange - 1, NEW b \in Nat, ~(a <= b)
  PROVE  a - b \in 0 .. CountRange - 1
BY BoundsAssumption

LEMMA NoChangeKeepsNodes ==
  ASSUME NEW unchanged \in SUBSET Subgoals, node \in [Nodes -> NodeType]
  PROVE  SameNodes(NoChange(unchanged))
<1> DEFINE Sources(S) == unchanged \cup {n[1] : n \in S}
           Step(S) == {n \in Nodes : /\ node[n].falsecount > 0
                                     /\ node[n].falsecount <= Cardinality(Edges(Sources(S), n))}
           closed == {S \in SUBSET Nodes : {} \cup Step(S) \subseteq S}
           valid == {x \in Nodes : \A S \in closed : x \in S}
<1>1. ASSUME NEW S \in SUBSET Nodes PROVE Sources(S) \subseteq Goals
  BY DEF Nodes, Goals
<1>2. ASSUME NEW n \in Nodes, n \notin valid, node[n].falsecount > 0
      PROVE  node[n].falsecount - Cardinality(Edges(Sources(valid), n)) \in 0 .. CountRange - 1
  <2>1. Cardinality(Edges(Sources(valid), n)) \in Nat
    BY <1>1, EdgesCounted
  <2>2. node[n].falsecount \in 0 .. CountRange - 1
    BY DEF NodeType
  <2> DEFINE edges == Cardinality(Edges(Sources(valid), n))
  <2>10. edges \in Nat
    BY <2>1
  <2> SUFFICES ~(node[n].falsecount <= edges)
    <3> QED BY <2>10, <2>2, CountLeft
  <2>3. SUFFICES ASSUME node[n].falsecount <= edges,
                        NEW S \in closed
                 PROVE  n \in S
    <3> HIDE DEF edges, Step
    <3> QED BY <1>2
  <2>4. Edges(Sources(valid), n) \in SUBSET Edges(Sources(S), n)
    BY DEF Edges
  <2>5. /\ IsFiniteSet(Edges(Sources(S), n))
        /\ Cardinality(Edges(Sources(S), n)) \in Nat
    BY <1>1, EdgesCounted
  <2>6. Cardinality(Edges(Sources(valid), n)) <= Cardinality(Edges(Sources(S), n))
    <3> HIDE DEF valid, Sources
    <3> QED BY <2>4, <2>5, FS_Subset
  <2>7. node[n].falsecount \in Nat
    BY BoundsAssumption DEF NodeType
  <2>8. node[n].falsecount <= Cardinality(Edges(Sources(S), n))
    <3> HIDE DEF valid, Sources
    <3> QED BY <2>1, <2>3, <2>5, <2>6, <2>7
  <2>9. n \in Step(S)
    BY <1>2, <2>8
  <2> QED BY <2>9
<1>3. NoChange(unchanged) = [n \in Nodes |->
        IF n \in valid THEN [node[n] EXCEPT !.falsecount = 0, !.deleted = FALSE,
                                          !.direct = FALSE]
        ELSE IF node[n].falsecount > 0
          THEN [node[n] EXCEPT !.falsecount = @ - Cardinality(Edges(Sources(valid), n))]
          ELSE node[n]]
  BY DEF NoChange, Closure
<1> DEFINE left(n) == node[n].falsecount - Cardinality(Edges(Sources(valid), n))
           next(n) == IF n \in valid THEN [node[n] EXCEPT !.falsecount = 0, !.deleted = FALSE,
                                                         !.direct = FALSE]
                      ELSE IF node[n].falsecount > 0
                        THEN [node[n] EXCEPT !.falsecount = left(n)]
                        ELSE node[n]
<1>4. ASSUME NEW n \in Nodes
      PROVE  next(n) \in NodeType /\ next(n).live = node[n].live
  <2>1. 0 \in 0 .. CountRange - 1
    BY BoundsAssumption
  <2>2. n \notin valid /\ node[n].falsecount > 0 => left(n) \in 0 .. CountRange - 1
    BY <1>2
  <2>3. node[n] \in NodeType
    OBVIOUS
  <2> HIDE DEF valid, left
  <2> QED BY <2>1, <2>2, <2>3 DEF NodeType
<1>5. NoChange(unchanged) = [n \in Nodes |-> next(n)]
  BY <1>3
<1> HIDE DEF next
<1> QED BY <1>4, <1>5 DEF SameNodes

LEMMA MarkedKeepsNodes ==
  ASSUME NEW R, node \in [Nodes -> NodeType]
  PROVE  SameNodes(Marked(R))
BY DEF Marked, SameNodes, NodeType

(* A lazy call list is a list of calls of tables.                             *)
LEMMA LazyListTyped ==
  ASSUME NEW s \in Subgoals, NEW l \in LazyLists(s), NEW use \in {"call", "if", "return"}
  PROVE  [i \in DOMAIN l |-> [sub |-> l[i], use |-> IF i < Len(l) THEN "if" ELSE use]]
           \in Seq(ItemType)
<1> DEFINE R == ToRecompute(s)
           n == Cardinality(R)
<1>1. R \subseteq Subgoals
  BY DEF ToRecompute, Closure
<1>2. n \in Nat
  BY <1>1, SetsAssumption, FS_Subset, FS_CardinalityType
<1>3. l \in [1 .. n -> R]
  BY DEF LazyLists
<1>4. [i \in DOMAIN l |-> [sub |-> l[i], use |-> IF i < Len(l) THEN "if" ELSE use]]
        \in [1 .. n -> ItemType]
  <2> HIDE DEF n
  <2> QED BY <1>1, <1>3 DEF ItemType
<1> HIDE DEF n
<1> QED BY <1>2, <1>4, IsASeq

-----------------------------------------------------------------------------
(* The completion stack.                                                      *)
In(sc, s) == \E i \in DOMAIN sc : s \in sc[i]
Stack(sc) ==
  /\ sc \in Seq(SUBSET Subgoals)
  /\ \A i, j \in DOMAIN sc : i # j => sc[i] \cap sc[j] = {}

LEMMA InIsUnion == \A sc, s : In(sc, s) <=> s \in UNION Range(sc)
BY DEF In, Range

LEMMA StackPush ==
  ASSUME NEW sc, NEW g \in Subgoals, Stack(sc), ~In(sc, g)
  PROVE  /\ Stack(Append(sc, {g}))
         /\ \A s : In(Append(sc, {g}), s) <=> In(sc, s) \/ s = g
<1> DEFINE new == Append(sc, {g})
<1>1. sc \in Seq(SUBSET Subgoals) /\ Len(sc) \in Nat /\ DOMAIN sc = 1 .. Len(sc)
  BY DEF Stack
<1>2. /\ new \in Seq(SUBSET Subgoals) /\ DOMAIN new = 1 .. Len(sc) + 1
      /\ \A i \in 1 .. Len(sc) : new[i] = sc[i]
      /\ new[Len(sc) + 1] = {g}
  BY <1>1
<1> HIDE DEF new
<1>3. \A s : In(new, s) <=> In(sc, s) \/ s = g
  BY <1>1, <1>2 DEF In
<1>4. \A i, j \in DOMAIN new : i # j => new[i] \cap new[j] = {}
  BY <1>1, <1>2 DEF In, Stack
<1> QED BY <1>2, <1>3, <1>4 DEF Stack, new

LEMMA StackPop ==
  ASSUME NEW sc, Stack(sc), sc # <<>>
  PROVE  /\ Stack(Front(sc)) /\ Last(sc) \subseteq Subgoals
         /\ \A s : s \in Last(sc) => In(sc, s)
         /\ \A s : In(Front(sc), s) <=> In(sc, s) /\ s \notin Last(sc)
<1> DEFINE n == Len(sc)
           new == Front(sc)
<1>1. sc \in Seq(SUBSET Subgoals) /\ n \in Nat \ {0} /\ DOMAIN sc = 1 .. n
  BY DEF Stack
<1>2. /\ new \in Seq(SUBSET Subgoals) /\ DOMAIN new = 1 .. n - 1
      /\ \A i \in 1 .. n - 1 : new[i] = sc[i]
  BY <1>1 DEF Front
<1>3. Last(sc) = sc[n] /\ sc[n] \subseteq Subgoals
  BY <1>1 DEF Last
<1> HIDE DEF new, n
<1>4. \A s : In(new, s) <=> In(sc, s) /\ s \notin Last(sc)
  BY <1>1, <1>2, <1>3 DEF In, Stack
<1>5. \A s : s \in Last(sc) => In(sc, s)
  BY <1>1, <1>3 DEF In
<1> QED BY <1>1, <1>2, <1>3, <1>4, <1>5 DEF Stack, new

(* The SCCs from the k-th to the youngest become one.                         *)
Merged(sc, k) == Append(SubSeq(sc, 1, k - 1), UNION {sc[i] : i \in k .. Len(sc)})

LEMMA MergedAt ==
  ASSUME NEW sc, NEW k \in DOMAIN sc, Stack(sc)
  PROVE  /\ Merged(sc, k) \in Seq(SUBSET Subgoals) /\ DOMAIN Merged(sc, k) = 1 .. k
         /\ \A i \in 1 .. k - 1 : Merged(sc, k)[i] = sc[i]
         /\ \A s : s \in Merged(sc, k)[k] <=> \E i \in k .. Len(sc) : s \in sc[i]
<1> DEFINE top == UNION {sc[i] : i \in k .. Len(sc)}
           new == Merged(sc, k)
<1>1. /\ sc \in Seq(SUBSET Subgoals) /\ Len(sc) \in Nat /\ DOMAIN sc = 1 .. Len(sc)
      /\ k \in 1 .. Len(sc)
  BY DEF Stack
<1>2. top \in SUBSET Subgoals
  BY <1>1
<1>3. new = Append(SubSeq(sc, 1, k - 1), top)
  BY DEF Merged
<1>4. \A s : s \in top <=> \E i \in k .. Len(sc) : s \in sc[i]
  BY DEF top
<1> HIDE DEF top, new
<1>5. /\ SubSeq(sc, 1, k - 1) \in Seq(SUBSET Subgoals) /\ Len(SubSeq(sc, 1, k - 1)) = k - 1
      /\ \A i \in 1 .. k - 1 : SubSeq(sc, 1, k - 1)[i] = sc[i]
  BY <1>1
<1>6. /\ new \in Seq(SUBSET Subgoals) /\ DOMAIN new = 1 .. k
      /\ \A i \in 1 .. k - 1 : new[i] = sc[i]
      /\ new[k] = top
  BY <1>1, <1>2, <1>3, <1>5
<1> QED BY <1>4, <1>6 DEF new

LEMMA StackMerge ==
  ASSUME NEW sc, NEW k \in DOMAIN sc, Stack(sc)
  PROVE  Stack(Merged(sc, k)) /\ \A s : In(Merged(sc, k), s) <=> In(sc, s)
<1> DEFINE new == Merged(sc, k)
<1>1. /\ sc \in Seq(SUBSET Subgoals) /\ Len(sc) \in Nat /\ DOMAIN sc = 1 .. Len(sc)
      /\ k \in 1 .. Len(sc)
  BY DEF Stack
<1>2. /\ new \in Seq(SUBSET Subgoals) /\ DOMAIN new = 1 .. k
      /\ \A i \in 1 .. k - 1 : new[i] = sc[i]
      /\ \A s : s \in new[k] <=> \E i \in k .. Len(sc) : s \in sc[i]
  BY MergedAt
<1> HIDE DEF new
<1>3. \A s : In(new, s) <=> In(sc, s)
  BY <1>1, <1>2 DEF In
<1>4. ASSUME NEW i \in 1 .. k - 1
      PROVE  new[i] \cap new[k] = {}
  BY <1>1, <1>2, <1>4 DEF Stack
<1>5. \A i, j \in DOMAIN new : i # j => new[i] \cap new[j] = {}
  BY <1>1, <1>2, <1>4 DEF Stack
<1> QED BY <1>2, <1>3, <1>5 DEF Stack, new

-----------------------------------------------------------------------------
(* The invariant.                                                             *)
Lives(tb, nd, sc) ==
  \A s \in Subgoals : /\ nd[Cur(s)].live = (tb[s].state # "none")
                      /\ nd[Prev(s)].live => tb[s].state = "incomplete"
                      /\ (tb[s].state = "incomplete") = In(sc, s)
Agree(o, i, nd) ==
  \A g \in Goals, n \in Nodes :
    /\ n \in o[g] <=> g \in i[n]
    /\ n \in o[g] => nd[n].live /\ (g \in Subgoals => nd[Cur(g)].live)

GraphTyped ==
  /\ table \in [Subgoals -> TableType] /\ node \in [Nodes -> NodeType]
  /\ out \in [Goals -> SUBSET Nodes] /\ inn \in [Nodes -> SUBSET Goals]
RestTyped ==
  /\ facts \in [Leaves -> SUBSET Answers] /\ updates \in 0 .. MaxUpdates
  /\ called \in [Subgoals -> SUBSET Goals] /\ lazy \in [Callers -> Seq(ItemType)]

GraphInv ==
  /\ GraphTyped /\ RestTyped /\ Stack(sccs)
  /\ Lives(table, node, sccs) /\ Agree(out, inn, node)

LEMMA InvImplies == GraphInv => TypeOK /\ GraphAgrees
BY InIsUnion DEF GraphInv, GraphTyped, RestTyped, Lives, Agree, TypeOK, GraphAgrees,
                 TableType, NodeType, Incomplete

LEMMA NodesAreCurOrPrev ==
  /\ \A s \in Subgoals : Cur(s) \in Nodes /\ Prev(s) \in Nodes
  /\ \A s, t : Cur(s) # Prev(t) /\ (Cur(s) = Cur(t) <=> s = t) /\ (Prev(s) = Prev(t) <=> s = t)
BY DEF Cur, Prev, Nodes

LEMMA InitHolds == Init => GraphInv
<1> SUFFICES ASSUME Init PROVE GraphInv
  OBVIOUS
<1>1. GraphTyped
  BY NewNodeTyped DEF Init, GraphTyped, NoTable, TableType
<1>2. RestTyped
  BY BoundsAssumption DEF Init, RestTyped
<1>3. Stack(sccs) /\ \A s : ~In(sccs, s)
  BY DEF Init, Stack, In
<1>4. Lives(table, node, sccs)
  <2> SUFFICES ASSUME NEW s \in Subgoals
               PROVE  /\ node[Cur(s)].live = (table[s].state # "none")
                      /\ node[Prev(s)].live => table[s].state = "incomplete"
                      /\ (table[s].state = "incomplete") = In(sccs, s)
    BY DEF Lives
  <2>1. node[Cur(s)].live = FALSE /\ node[Prev(s)].live = FALSE
    BY NodesAreCurOrPrev, NewNodeTyped DEF Init
  <2>2. table[s].state = "none"
    BY DEF Init, NoTable
  <2> QED BY <1>3, <2>1, <2>2 DEF In
<1>5. Agree(out, inn, node)
  BY DEF Init, Agree
<1> QED BY <1>1, <1>2, <1>3, <1>4, <1>5 DEF GraphInv

-----------------------------------------------------------------------------
(* Steps that change counts, marks and what is left to do, not the graph.     *)
SameStates ==
  /\ table' \in [Subgoals -> TableType]
  /\ \A s \in Subgoals : table'[s].state = table[s].state

LEMMA GraphKept ==
  ASSUME GraphInv, SameStates, SameNodes(node'), UNCHANGED <<out, inn, sccs>>, RestTyped'
  PROVE  GraphInv'
<1>1. GraphTyped'
  BY DEF GraphInv, GraphTyped, SameStates, SameNodes
<1>2. Lives(table, node, sccs)'
  BY NodesAreCurOrPrev DEF GraphInv, Lives, SameStates, SameNodes
<1>3. Agree(out, inn, node)'
  BY NodesAreCurOrPrev DEF GraphInv, Agree, SameNodes
<1> QED BY <1>1, <1>2, <1>3 DEF GraphInv

LEMMA NothingChanged ==
  ASSUME GraphInv
  PROVE  /\ UNCHANGED node => SameNodes(node')
         /\ UNCHANGED table => SameStates
BY DEF GraphInv, GraphTyped, SameNodes, SameStates

(* The visitors, the answers or the marks of a change of a table change.      *)
LEMMA VisitorsKept ==
  ASSUME GraphInv, NEW S
  PROVE  /\ Forget(table, S) \in [Subgoals -> TableType]
         /\ \A s \in Subgoals : Forget(table, S)[s].state = table[s].state
BY DEF GraphInv, GraphTyped, Forget, TableType

LEMMA OneVisitor ==
  ASSUME GraphInv, NEW s, NEW v,
         s \in Subgoals => v \in Int, table' = [table EXCEPT ![s].visitors = v]
  PROVE  SameStates
BY DEF GraphInv, GraphTyped, TableType, SameStates

LEMMA ItemsLeft ==
  ASSUME GraphInv, NEW p \in Callers, lazy[p] # <<>>
  PROVE  /\ Head(lazy[p]) \in ItemType /\ Tail(lazy[p]) \in Seq(ItemType)
BY DEF GraphInv, RestTyped

LEMMA NewAnswerKeeps ==
  ASSUME GraphInv, NEW s \in Subgoals, NEW a \in Answers, NewAnswer(s, a)
  PROVE  GraphInv'
<1> DEFINE tb == [table[s] EXCEPT !.answers = @ \cup {a}, !.previous = @ \ {a},
                                  !.changed = @ \/ a \notin table[s].previous]
<1>1. table[s] \in TableType
  BY DEF GraphInv, GraphTyped
<1>2. (table[s].changed \/ a \notin table[s].previous) \in BOOLEAN
  OBVIOUS
<1>3. tb \in TableType /\ tb.state = table[s].state
  BY <1>1, <1>2 DEF TableType
<1>4. table' = [table EXCEPT ![s] = tb]
  BY DEF NewAnswer
<1>5. SameStates
  <2> HIDE DEF tb
  <2> QED BY <1>3, <1>4 DEF SameStates, GraphInv, GraphTyped
<1>6. SameNodes(node') /\ UNCHANGED <<out, inn, sccs>> /\ RestTyped'
  BY NothingChanged DEF NewAnswer, evalVars, RestTyped, GraphInv
<1> QED BY <1>5, <1>6, GraphKept

LEMMA LazySkipKeeps ==
  ASSUME GraphInv, NEW p \in Callers, lazy[p] # <<>>, lazy' = [lazy EXCEPT ![p] = Tail(@)],
         UNCHANGED <<facts, table, node, out, inn, sccs, called, updates>>
  PROVE  GraphInv'
<1>1. RestTyped'
  BY ItemsLeft DEF GraphInv, RestTyped
<1> QED BY <1>1, NothingChanged, GraphKept

LEMMA ReevaluateKeeps ==
  ASSUME GraphInv, NEW p \in Callers, NEW g \in Subgoals, NEW use \in {"call", "if", "return"},
         NEW rest \in Seq(ItemType), Reevaluate(p, g, use, rest)
  PROVE  GraphInv'
<1>1. SameNodes(node')
  BY MarkedKeepsNodes DEF Reevaluate, GraphInv, GraphTyped
<1>2. SameStates
  BY VisitorsKept DEF Reevaluate, SameStates
<1>3. PICK l \in LazyLists(g) :
        lazy' = [lazy EXCEPT ![p] =
                  [i \in DOMAIN l |->
                     [sub |-> l[i], use |-> IF i < Len(l) THEN "if" ELSE use]] \o rest]
  BY DEF Reevaluate
<1>4. RestTyped'
  <2> DEFINE items == [i \in DOMAIN l |->
                     [sub |-> l[i], use |-> IF i < Len(l) THEN "if" ELSE use]]
  <2>1. items \in Seq(ItemType)
    BY LazyListTyped
  <2> HIDE DEF items
  <2>2. items \o rest \in Seq(ItemType)
    BY <2>1
  <2>3. lazy' = [lazy EXCEPT ![p] = items \o rest]
    BY <1>3 DEF items
  <2> QED BY <2>2, <2>3 DEF Reevaluate, GraphInv, RestTyped
<1> QED BY <1>1, <1>2, <1>4, GraphKept DEF Reevaluate

LEMMA QueryKeeps ==
  ASSUME GraphInv, NEW s \in Subgoals, Query(s)
  PROVE  GraphInv'
<1>1. <<[sub |-> s, use |-> "call"]>> \in Seq(ItemType)
  BY DEF ItemType
<1>2. RestTyped'
  BY <1>1 DEF Query, GraphInv, RestTyped, Callers
<1> QED BY <1>2, NothingChanged, GraphKept DEF Query

LEMMA ReturnKeeps ==
  ASSUME GraphInv, Return
  PROVE  GraphInv'
<1> DEFINE s == Head(lazy[Top]).sub
<1>1. s \in Subgoals
  BY ItemsLeft DEF Return, Callers, ItemType
<1>2. table[s].visitors + 1 \in Int
  BY <1>1 DEF GraphInv, GraphTyped, TableType
<1>3. SameStates
  <2>1. CASE UNCHANGED table
    BY <2>1, NothingChanged
  <2>2. CASE table' = [table EXCEPT ![s].visitors = table[s].visitors + 1]
    <3> HIDE DEF s
    <3> QED BY <1>2, <2>2, OneVisitor
  <2> QED BY <1>1, <2>1, <2>2 DEF Return, GraphInv, GraphTyped
<1>4. RestTyped'
  BY DEF Return, GraphInv, RestTyped, Callers
<1> QED BY <1>3, <1>4, NothingChanged, GraphKept DEF Return

LEMMA CursorsKeep ==
  ASSUME GraphInv, Resume \/ Close
  PROVE  GraphInv'
<1> DEFINE s == Last(cursors).sub
<1>1. s \in Subgoals => table[s].visitors - 1 \in Int
  BY DEF GraphInv, GraphTyped, TableType
<1>2. SameStates
  <2>1. CASE UNCHANGED table
    BY <2>1, NothingChanged
  <2>2. CASE table' = [table EXCEPT ![s].visitors = @ - 1]
    <3>1. table' = [table EXCEPT ![s].visitors = table[s].visitors - 1]
      <4>1. CASE s \in Subgoals
        BY <2>2, <4>1 DEF GraphInv, GraphTyped
      <4>2. CASE s \notin Subgoals
        BY <2>2, <4>2 DEF GraphInv, GraphTyped
      <4> QED BY <4>1, <4>2
    <3> HIDE DEF s
    <3> QED BY <1>1, <3>1, OneVisitor
  <2> QED BY <2>1, <2>2 DEF Resume, Close, Unvisited
<1>3. RestTyped'
  BY DEF Resume, Close, evalVars, GraphInv, RestTyped
<1> QED BY <1>2, <1>3, NothingChanged, GraphKept DEF Resume, Close, evalVars

LEMMA UpdateKeeps ==
  ASSUME GraphInv, NEW l \in Leaves, NEW f \in SUBSET Answers, Update(l, f)
  PROVE  GraphInv'
<1>1. SameNodes(node')
  BY InvalidationKeepsNodes DEF Update, Goals, GraphInv, GraphTyped
<1>2. RestTyped'
  BY BoundsAssumption DEF Update, evalVars, GraphInv, RestTyped
<1> QED BY <1>1, <1>2, NothingChanged, GraphKept DEF Update, evalVars

LEMMA InvalidateKeeps ==
  ASSUME GraphInv, NEW s \in Subgoals, Invalidate(s)
  PROVE  GraphInv'
<1>1. SameNodes(node')
  BY InvalidationKeepsNodes DEF Invalidate, Goals, GraphInv, GraphTyped
<1>2. RestTyped'
  BY DEF Invalidate, evalVars, GraphInv, RestTyped
<1> QED BY <1>1, <1>2, NothingChanged, GraphKept DEF Invalidate, evalVars

-----------------------------------------------------------------------------
(* Calls.  The caller has a call node: it is incomplete, or the top level,    *)
(* which has none.                                                            *)
LEMMA RunningIsIncomplete ==
  ASSUME GraphInv, NEW p \in Callers, Runs(p)
  PROVE  p = Top \/ (p \in Subgoals /\ table[p].state = "incomplete" /\ node[Cur(p)].live)
<1>1. CASE sccs = <<>>
  BY <1>1 DEF Runs
<1>2. CASE sccs # <<>>
  <2>1. p \in Last(sccs) /\ p \in Subgoals /\ In(sccs, p)
    BY <1>2, StackPop DEF Runs, GraphInv
  <2> QED BY <2>1 DEF GraphInv, Lives
<1> QED BY <1>1, <1>2

EdgesTyped(o, i) == o \in [Goals -> SUBSET Nodes] /\ i \in [Nodes -> SUBSET Goals]

LEMMA EdgeAdded ==
  ASSUME NEW o, NEW i, NEW nd, EdgesTyped(o, i), Agree(o, i, nd),
         NEW g \in Goals, NEW p \in Callers, AddEdge(o, i, g, p),
         p # Top => nd[Cur(p)].live, g \in Subgoals => nd[Cur(g)].live
  PROVE  EdgesTyped(out', inn') /\ Agree(out', inn', nd)
<1>1. CASE p = Top
  BY <1>1 DEF AddEdge
<1>2. CASE p # Top
  <2>1. p \in Subgoals /\ Cur(p) \in Nodes
    BY <1>2, NodesAreCurOrPrev DEF Callers
  <2>2. /\ out' = [o EXCEPT ![g] = @ \cup {Cur(p)}]
        /\ inn' = [i EXCEPT ![Cur(p)] = @ \cup {g}]
    BY <1>2 DEF AddEdge
  <2>3. EdgesTyped(out', inn')
    BY <2>1, <2>2 DEF EdgesTyped
  <2>4. Agree(out', inn', nd)
    BY <1>2, <2>1, <2>2 DEF EdgesTyped, Agree
  <2> QED BY <2>3, <2>4
<1> QED BY <1>1, <1>2

LEMMA RestOfCall ==
  ASSUME GraphInv, NEW p \in Callers, NEW g \in Goals, NEW use \in {"call", "if", "return"},
         NEW rest \in Seq(ItemType), p = Top => g \in Subgoals
  PROVE  /\ Consumers(p, g, use) \in [Subgoals -> SUBSET Goals]
         /\ Goes(p, g, use, rest) => lazy' \in [Callers -> Seq(ItemType)]
<1>1. Consumers(p, g, use) \in [Subgoals -> SUBSET Goals]
  BY DEF Consumers, GraphInv, RestTyped
<1>2. g \in Subgoals => <<[sub |-> g, use |-> "return"]>> \in Seq(ItemType)
  BY DEF ItemType
<1>3. (IF p = Top /\ use = "call" THEN <<[sub |-> g, use |-> "return"]>> ELSE rest)
        \in Seq(ItemType)
  BY <1>2
<1>4. Goes(p, g, use, rest) => lazy' \in [Callers -> Seq(ItemType)]
  BY <1>3 DEF Goes, GraphInv, RestTyped
<1> QED BY <1>1, <1>4

LEMMA CallLeafKeeps ==
  ASSUME GraphInv, NEW s \in Subgoals, NEW l \in Leaves, Runs(s), CallLeaf(s, l)
  PROVE  GraphInv'
<1>1. s # Top /\ s \in Callers /\ l \in Goals /\ l \notin Subgoals
  BY TopAssumption, SetsAssumption DEF Goals, Callers
<1>2. node[Cur(s)].live
  BY <1>1, RunningIsIncomplete
<1>3. EdgesTyped(out', inn') /\ Agree(out', inn', node)
  BY <1>1, <1>2, EdgeAdded DEF CallLeaf, GraphInv, GraphTyped, EdgesTyped
<1>4. RestTyped'
  BY <1>1 DEF CallLeaf, Consumers, GraphInv, RestTyped
<1> QED BY <1>3, <1>4 DEF CallLeaf, GraphInv, GraphTyped, EdgesTyped, Lives

LEMMA FindTableKeeps ==
  ASSUME GraphInv, NEW p \in Callers, Runs(p), NEW g \in Subgoals,
         NEW use \in {"call", "if", "return"}, NEW rest \in Seq(ItemType),
         FindTable(p, g, use, rest)
  PROVE  GraphInv'
<1>1. g \in Goals /\ node[Cur(g)].live
  BY DEF FindTable, Complete, Incomplete, Goals, GraphInv, Lives
<1>2. EdgesTyped(out', inn') /\ Agree(out', inn', node)
  BY <1>1, EdgeAdded, RunningIsIncomplete DEF FindTable, GraphInv, GraphTyped, EdgesTyped
<1>3. Stack(sccs') /\ \A s : In(sccs', s) <=> In(sccs, s)
  <2>1. CASE Complete(g)
    BY <2>1 DEF FindTable, GraphInv
  <2>2. CASE ~Complete(g)
    <3>1. In(sccs, g)
      BY <2>2 DEF FindTable, Incomplete, Complete, GraphInv, Lives
    <3> DEFINE k == CHOOSE i \in DOMAIN sccs : g \in sccs[i]
    <3>2. k \in DOMAIN sccs
      BY <3>1 DEF In
    <3>3. sccs' = Merged(sccs, k)
      BY <2>2 DEF FindTable, Merged
    <3> HIDE DEF k
    <3> QED BY <3>2, <3>3, StackMerge DEF GraphInv
  <2> QED BY <2>1, <2>2
<1>4. RestTyped'
  BY <1>1, RestOfCall DEF FindTable, GraphInv, RestTyped
<1>5. Lives(table, node, sccs)'
  <2>1. \A s \in Subgoals : In(sccs', s) = In(sccs, s)
    BY <1>3 DEF In
  <2> QED BY <2>1 DEF FindTable, GraphInv, Lives
<1> QED BY <1>2, <1>3, <1>4, <1>5 DEF FindTable, GraphInv, GraphTyped, EdgesTyped

LEMMA ProduceKeeps ==
  ASSUME GraphInv, NEW p \in Callers, Runs(p), NEW g \in Subgoals,
         NEW use \in {"call", "if", "return"}, NEW rest \in Seq(ItemType),
         Produce(p, g, use, rest)
  PROVE  GraphInv'
<1> DEFINE i0 == IF Complete(g) THEN [inn EXCEPT ![Cur(g)] = {}, ![Prev(g)] = inn[Cur(g)]]
                 ELSE inn
<1>1. /\ g \in Goals /\ Cur(g) \in Nodes /\ Prev(g) \in Nodes /\ Cur(g) # Prev(g)
      /\ ~In(sccs, g) /\ ~node[Prev(g)].live
      /\ Complete(g) => node[Cur(g)].live
      /\ ~Complete(g) => ~node[Cur(g)].live
  <2>1. table[g].state \in {"none", "incomplete", "complete"}
    BY DEF GraphInv, GraphTyped, TableType
  <2>2. /\ node[Cur(g)].live = (table[g].state # "none")
        /\ node[Prev(g)].live => table[g].state = "incomplete"
        /\ (table[g].state = "incomplete") = In(sccs, g)
    BY DEF GraphInv, Lives
  <2>3. table[g].state # "incomplete"
    BY DEF Produce, Incomplete
  <2> QED BY <2>1, <2>2, <2>3, NodesAreCurOrPrev DEF Complete, Goals, In
<1>2. Stack(sccs') /\ \A s : In(sccs', s) <=> In(sccs, s) \/ s = g
  BY <1>1, StackPush DEF Produce, GraphInv
<1>3. /\ node' \in [Nodes -> NodeType]
      /\ node'[Cur(g)].live = TRUE
      /\ Complete(g) => node'[Prev(g)].live = TRUE
      /\ \A n \in Nodes : n # Cur(g) /\ n # Prev(g) => node'[n] = node[n]
      /\ ~Complete(g) => node'[Prev(g)] = node[Prev(g)]
  <2>4. node[Cur(g)] \in NodeType /\ 0 \in 0 .. CountRange - 1
    BY <1>1, BoundsAssumption DEF GraphInv, GraphTyped
  <2>1. [node[Cur(g)] EXCEPT !.falsecount = 0, !.deleted = TRUE] \in NodeType
    BY <2>4 DEF NodeType
  <2>2. [node[Cur(g)] EXCEPT !.falsecount = 0, !.deleted = TRUE].live = node[Cur(g)].live
    BY <1>1 DEF GraphInv, GraphTyped, NodeType
  <2>3. node[Cur(g)].live \in BOOLEAN
    BY <1>1 DEF GraphInv, GraphTyped, NodeType
  <2> QED BY <1>1, <2>1, <2>2, <2>3, NewNodeTyped DEF Produce, GraphInv, GraphTyped
<1>4. EdgesTyped(Handover(g), i0)
  BY <1>1 DEF Handover, EdgesTyped, GraphInv, GraphTyped
<1>5. Agree(Handover(g), i0, node')
  <2>1. CASE Complete(g)
    <3> SUFFICES ASSUME NEW x \in Goals, NEW n \in Nodes
                 PROVE  /\ n \in Handover(g)[x] <=> x \in i0[n]
                        /\ n \in Handover(g)[x] =>
                             node'[n].live /\ (x \in Subgoals => node'[Cur(x)].live)
      BY DEF Agree
    <3>1. Prev(g) \notin out[x] /\ x \notin inn[Prev(g)]
      BY <1>1 DEF GraphInv, Agree
    <3>2. x \in Subgoals => Cur(x) \in Nodes /\ Cur(x) # Prev(g)
      BY NodesAreCurOrPrev
    <3>3. out[x] \subseteq Nodes
      BY DEF GraphInv, GraphTyped
    <3>4. n \in Handover(g)[x] <=>
            \/ n = Prev(g) /\ Cur(g) \in out[x]
            \/ n # Cur(g) /\ n # Prev(g) /\ n \in out[x]
      BY <1>1, <3>1 DEF Handover
    <3>5. x \in i0[n] <=>
            \/ n = Prev(g) /\ Cur(g) \in out[x]
            \/ n # Cur(g) /\ n # Prev(g) /\ n \in out[x]
      BY <1>1, <2>1, <3>1 DEF GraphInv, GraphTyped, Agree
    <3> HIDE DEF i0
    <3>6. n \in Handover(g)[x] => node'[n].live
      BY <1>1, <1>3, <2>1, <3>4 DEF GraphInv, Agree
    <3>7. n \in Handover(g)[x] /\ x \in Subgoals => node'[Cur(x)].live
      BY <1>1, <1>3, <3>2, <3>4 DEF GraphInv, Agree
    <3> QED BY <3>4, <3>5, <3>6, <3>7
  <2>2. CASE ~Complete(g)
    <3>1. \A x \in Goals : Cur(g) \notin out[x]
      BY <1>1, <2>2 DEF GraphInv, Agree
    <3>2. Handover(g) = out
      BY <3>1 DEF Handover, GraphInv, GraphTyped
    <3>3. \A n \in Nodes : node[n].live => node'[n].live
      BY <1>1, <1>3, <2>2
    <3>4. \A x \in Subgoals : Cur(x) \in Nodes
      BY NodesAreCurOrPrev
    <3> QED BY <2>2, <3>2, <3>3, <3>4 DEF Agree, GraphInv
  <2> QED BY <2>1, <2>2
<1>6. p # Top => p \in Subgoals /\ p # g /\ node'[Cur(p)].live
  BY <1>3, RunningIsIncomplete, NodesAreCurOrPrev DEF Produce, Incomplete
<1>7. EdgesTyped(out', inn') /\ Agree(out', inn', node')
  <2>1. AddEdge(Handover(g), i0, g, p)
    BY DEF Produce
  <2> HIDE DEF i0
  <2> QED BY <1>1, <1>3, <1>4, <1>5, <1>6, <2>1, EdgeAdded
<1>8. /\ table' \in [Subgoals -> TableType]
      /\ \A s \in Subgoals : table'[s].state = IF s = g THEN "incomplete" ELSE table[s].state
  <2> DEFINE new == [NoTable EXCEPT !.state = "incomplete", !.previous = table[g].answers]
  <2>1. table[g].answers \in SUBSET Answers
    BY DEF GraphInv, GraphTyped, TableType
  <2>2. new \in TableType /\ new.state = "incomplete"
    <3>1. NoTable \in TableType
      BY DEF NoTable, TableType
    <3> QED BY <2>1, <3>1 DEF TableType
  <2>3. table' = [table EXCEPT ![g] = new]
    BY DEF Produce
  <2> HIDE DEF new
  <2> QED BY <2>2, <2>3 DEF GraphInv, GraphTyped
<1>9. Lives(table, node, sccs)'
  <2> SUFFICES ASSUME NEW s \in Subgoals
               PROVE  /\ node'[Cur(s)].live = (table'[s].state # "none")
                      /\ node'[Prev(s)].live => table'[s].state = "incomplete"
                      /\ (table'[s].state = "incomplete") = In(sccs', s)
    BY DEF Lives
  <2>1. CASE s = g
    BY <1>2, <1>3, <1>8, <2>1 DEF In
  <2>2. CASE s # g
    <3>1. node'[Cur(s)] = node[Cur(s)] /\ node'[Prev(s)] = node[Prev(s)]
      BY <1>3, <2>2, NodesAreCurOrPrev
    <3>2. In(sccs', s) = In(sccs, s)
      BY <1>2, <2>2 DEF In
    <3> QED BY <1>8, <2>2, <3>1, <3>2 DEF GraphInv, Lives
  <2> QED BY <2>1, <2>2
<1>10. RestTyped'
  BY <1>1, RestOfCall DEF Produce, GraphInv, RestTyped
<1> QED BY <1>2, <1>3, <1>7, <1>8, <1>9, <1>10 DEF GraphInv, GraphTyped, EdgesTyped

LEMMA CallTableKeeps ==
  ASSUME GraphInv, NEW p \in Callers, Runs(p), NEW g \in Subgoals,
         NEW use \in {"call", "if", "return"}, NEW rest \in Seq(ItemType),
         CallTable(p, g, use, rest)
  PROVE  GraphInv'
BY FindTableKeeps, ReevaluateKeeps, ProduceKeeps DEF CallTable

LEMMA CallGoalKeeps ==
  ASSUME GraphInv, NEW s \in Subgoals, NEW g \in Goals, CallGoal(s, g)
  PROVE  GraphInv'
<1>1. s \in Callers /\ Runs(s) /\ <<>> \in Seq(ItemType)
  BY DEF CallGoal, Callers
<1>2. CASE g \in Leaves /\ CallLeaf(s, g)
  BY <1>1, <1>2, CallLeafKeeps
<1>3. CASE g \in Subgoals /\ CallTable(s, g, "call", <<>>)
  BY <1>1, <1>3, CallTableKeeps
<1> QED BY <1>2, <1>3 DEF CallGoal

LEMMA LazyCallKeeps ==
  ASSUME GraphInv, NEW p \in Callers, LazyCall(p)
  PROVE  GraphInv'
<1> DEFINE item == Head(lazy[p])
<1>1. /\ Runs(p) /\ lazy[p] # <<>> /\ item \in ItemType
      /\ Tail(lazy[p]) \in Seq(ItemType)
  BY ItemsLeft DEF LazyCall
<1>2. item.sub \in Subgoals /\ item.use \in {"call", "if", "return"}
  BY <1>1 DEF ItemType
<1>3. CASE /\ lazy' = [lazy EXCEPT ![p] = Tail(@)]
           /\ UNCHANGED <<facts, table, node, out, inn, sccs, called, updates>>
  BY <1>1, <1>3, LazySkipKeeps
<1>4. CASE CallTable(p, item.sub, item.use, Tail(lazy[p]))
  <2> HIDE DEF item
  <2> QED BY <1>1, <1>2, <1>4, CallTableKeeps
<1> QED BY <1>3, <1>4 DEF LazyCall

-----------------------------------------------------------------------------
(* Nodes that leave the graph.                                                *)
OutLeft(from, gone) == [g \in Goals |-> IF g \in from THEN {} ELSE out[g] \ gone]
InnLeft(from, gone) == [n \in Nodes |-> IF n \in gone THEN {} ELSE inn[n] \ from]

LEMMA NodesGone ==
  ASSUME GraphInv, NEW gone \in SUBSET Nodes, NEW from \in SUBSET Subgoals,
         \A s \in Subgoals : Cur(s) \in gone <=> s \in from,
         \A n \in Nodes \ gone : node[n].live => node'[n].live,
         out' = OutLeft(from, gone), inn' = InnLeft(from, gone)
  PROVE  EdgesTyped(out', inn') /\ Agree(out', inn', node')
<1>1. EdgesTyped(out', inn')
  BY DEF EdgesTyped, OutLeft, InnLeft, GraphInv, GraphTyped
<1>2. Agree(out', inn', node')
  <2> SUFFICES ASSUME NEW g \in Goals, NEW n \in Nodes
               PROVE  /\ n \in out'[g] <=> g \in inn'[n]
                      /\ n \in out'[g] =>
                           node'[n].live /\ (g \in Subgoals => node'[Cur(g)].live)
    BY DEF Agree
  <2>1. n \in out'[g] <=> g \notin from /\ n \notin gone /\ n \in out[g]
    BY DEF OutLeft
  <2>2. g \in inn'[n] <=> g \notin from /\ n \notin gone /\ g \in inn[n]
    BY DEF InnLeft
  <2>3. g \in Subgoals => Cur(g) \in Nodes
    BY NodesAreCurOrPrev
  <2> QED BY <2>1, <2>2, <2>3 DEF Agree, GraphInv
<1> QED BY <1>1, <1>2

LEMMA CompleteSccKeeps ==
  ASSUME GraphInv, CompleteScc
  PROVE  GraphInv'
<1> DEFINE C == Last(sccs)
           unchanged == {s \in C : /\ node[Prev(s)].live /\ ~table[s].changed
                                   /\ table[s].previous = {}}
           counted == NoChange(unchanged)
           old == Replaced(C)
<1>1. /\ sccs # <<>> /\ sccs' = Front(sccs)
      /\ table' = [s \in Subgoals |->
           IF s \in C THEN [NoTable EXCEPT !.state = "complete", !.answers = table[s].answers]
           ELSE table[s]]
      /\ node' = [n \in Nodes |-> IF n \in old THEN NoNode ELSE counted[n]]
      /\ out' = [g \in Goals |-> out[g] \ old]
      /\ inn' = [n \in Nodes |-> IF n \in old THEN {} ELSE inn[n]]
      /\ called' = [s \in Subgoals |-> IF s \in C THEN {} ELSE called[s]]
      /\ UNCHANGED <<facts, lazy, updates>>
  BY DEF CompleteScc
<1>2. /\ Stack(sccs') /\ C \subseteq Subgoals
      /\ \A s : s \in C => In(sccs, s)
      /\ \A s : In(sccs', s) <=> In(sccs, s) /\ s \notin C
  BY <1>1, StackPop DEF GraphInv
<1>3. SameNodes(counted)
  <2>1. unchanged \in SUBSET Subgoals
    BY <1>2
  <2> HIDE DEF unchanged
  <2> QED BY <2>1, NoChangeKeepsNodes DEF GraphInv, GraphTyped
<1>4. /\ old \in SUBSET Nodes
      /\ \A s \in Subgoals : Cur(s) \notin old /\ (Prev(s) \in old <=> s \in C)
  BY <1>2, NodesAreCurOrPrev DEF Replaced
<1> HIDE DEF counted, old, C
<1>5. /\ node' \in [Nodes -> NodeType]
      /\ \A n \in Nodes : node'[n].live = (n \notin old /\ node[n].live)
  <2>1. \A n \in Nodes : node[n].live \in BOOLEAN
    BY DEF GraphInv, GraphTyped, NodeType
  <2> QED BY <1>1, <1>3, <2>1, NewNodeTyped DEF SameNodes
<1>6. /\ table' \in [Subgoals -> TableType]
      /\ \A s \in Subgoals : table'[s].state = IF s \in C THEN "complete" ELSE table[s].state
  <2> SUFFICES ASSUME NEW s \in Subgoals
               PROVE  /\ table'[s] \in TableType
                      /\ table'[s].state = IF s \in C THEN "complete" ELSE table[s].state
    BY <1>1
  <2>1. NoTable \in TableType
    BY DEF NoTable, TableType
  <2>2. table[s] \in TableType
    BY DEF GraphInv, GraphTyped
  <2>3. table[s].answers \in SUBSET Answers
    BY <2>2 DEF TableType
  <2> QED BY <1>1, <2>1, <2>2, <2>3 DEF TableType
<1>7. EdgesTyped(out', inn') /\ Agree(out', inn', node')
  <2>1. out' = OutLeft({}, old) /\ inn' = InnLeft({}, old)
    BY <1>1 DEF OutLeft, InnLeft, GraphInv, GraphTyped
  <2>2. \A s \in Subgoals : Cur(s) \in old <=> s \in {}
    BY <1>4
  <2>3. \A n \in Nodes \ old : node[n].live => node'[n].live
    BY <1>5
  <2> QED BY <1>4, <2>1, <2>2, <2>3, NodesGone
<1>8. Lives(table, node, sccs)'
  <2> SUFFICES ASSUME NEW s \in Subgoals
               PROVE  /\ node'[Cur(s)].live = (table'[s].state # "none")
                      /\ node'[Prev(s)].live => table'[s].state = "incomplete"
                      /\ (table'[s].state = "incomplete") = In(sccs', s)
    BY DEF Lives
  <2>1. /\ node[Cur(s)].live = (table[s].state # "none")
        /\ node[Prev(s)].live => table[s].state = "incomplete"
        /\ (table[s].state = "incomplete") = In(sccs, s)
    BY DEF GraphInv, Lives
  <2>2. In(sccs', s) = (In(sccs, s) /\ s \notin C)
    BY <1>2 DEF In
  <2>3. s \in C => In(sccs, s)
    BY <1>2
  <2> QED BY <1>4, <1>5, <1>6, <2>1, <2>2, <2>3, NodesAreCurOrPrev DEF In
<1>9. RestTyped'
  BY <1>1 DEF GraphInv, RestTyped
<1> QED BY <1>2, <1>5, <1>6, <1>7, <1>8, <1>9 DEF GraphInv, GraphTyped, EdgesTyped

LEMMA AbolishKeeps ==
  ASSUME GraphInv, NEW s \in Subgoals, Abolish(s)
  PROVE  GraphInv'
<1>1. /\ SameNodes(Invalidation(s)) /\ Cur(s) \in Nodes
  BY InvalidationKeepsNodes, NodesAreCurOrPrev DEF Goals, GraphInv, GraphTyped
<1>2. /\ node' \in [Nodes -> NodeType]
      /\ \A n \in Nodes : node'[n].live = (n # Cur(s) /\ node[n].live)
  <2>1. \A n \in Nodes : node[n].live \in BOOLEAN
    BY DEF GraphInv, GraphTyped, NodeType
  <2> QED BY <1>1, <2>1, NewNodeTyped DEF Abolish, SameNodes
<1>3. EdgesTyped(out', inn') /\ Agree(out', inn', node')
  <2>1. out' = OutLeft({s}, {Cur(s)}) /\ inn' = InnLeft({s}, {Cur(s)})
    BY DEF Abolish, OutLeft, InnLeft, GraphInv, GraphTyped
  <2>2. \A t \in Subgoals : Cur(t) \in {Cur(s)} <=> t \in {s}
    BY NodesAreCurOrPrev
  <2>3. \A n \in Nodes \ {Cur(s)} : node[n].live => node'[n].live
    BY <1>2
  <2>4. {Cur(s)} \in SUBSET Nodes /\ {s} \in SUBSET Subgoals
    BY <1>1
  <2> QED BY <2>1, <2>2, <2>3, <2>4, NodesGone
<1>4. /\ table' \in [Subgoals -> TableType]
      /\ \A t \in Subgoals : table'[t].state = IF t = s THEN "none" ELSE table[t].state
  <2>1. NoTable \in TableType /\ NoTable.state = "none"
    BY DEF NoTable, TableType
  <2> QED BY <2>1 DEF Abolish, GraphInv, GraphTyped
<1>5. Lives(table, node, sccs)'
  <2> SUFFICES ASSUME NEW t \in Subgoals
               PROVE  /\ node'[Cur(t)].live = (table'[t].state # "none")
                      /\ node'[Prev(t)].live => table'[t].state = "incomplete"
                      /\ (table'[t].state = "incomplete") = In(sccs', t)
    BY DEF Lives
  <2>1. /\ node[Cur(t)].live = (table[t].state # "none")
        /\ node[Prev(t)].live => table[t].state = "incomplete"
        /\ (table[t].state = "incomplete") = In(sccs, t)
    BY DEF GraphInv, Lives
  <2>2. sccs' = sccs /\ table[s].state = "complete"
    BY DEF Abolish, evalVars, Complete
  <2>3. table[t].state \in {"none", "incomplete", "complete"}
    BY DEF GraphInv, GraphTyped, TableType
  <2>4. /\ node'[Cur(t)].live = (t # s /\ node[Cur(t)].live)
        /\ node'[Prev(t)].live = node[Prev(t)].live
    <3>1. node[Prev(t)].live \in BOOLEAN
      BY NodesAreCurOrPrev DEF GraphInv, GraphTyped, NodeType
    <3> QED BY <1>2, <3>1, NodesAreCurOrPrev
  <2>5. CASE t = s
    BY <1>4, <2>1, <2>2, <2>4, <2>5
  <2>6. CASE t # s
    BY <1>4, <2>1, <2>2, <2>4, <2>6
  <2> QED BY <2>5, <2>6
<1>6. RestTyped'
  BY DEF Abolish, evalVars, GraphInv, RestTyped
<1> QED BY <1>2, <1>3, <1>4, <1>5, <1>6 DEF Abolish, evalVars, GraphInv, GraphTyped, EdgesTyped

LEMMA ThrowKeeps ==
  ASSUME GraphInv, ThrowsAnywhere = FALSE, Throw
  PROVE  GraphInv'
<1> DEFINE C == UNION Range(sccs)
           gone == {Cur(s) : s \in C}
<1>1. /\ \A s \in C : ~node[Prev(s)].live
      /\ table' = [s \in Subgoals |-> IF s \in C THEN NoTable ELSE table[s]]
      /\ node' = [n \in Nodes |-> IF n \in gone THEN NoNode ELSE node[n]]
      /\ out' = [g \in Goals |-> IF g \in C THEN {} ELSE out[g] \ gone]
      /\ inn' = [n \in Nodes |-> IF n \in gone THEN {} ELSE inn[n] \ C]
      /\ sccs' = <<>> /\ called' = [s \in Subgoals |-> {}]
      /\ lazy' = [p \in Callers |-> <<>>] /\ UNCHANGED <<facts, updates>>
  BY DEF Throw
<1>2. C \subseteq Subgoals /\ \A s : s \in C <=> In(sccs, s)
  BY InIsUnion DEF GraphInv, Stack, Range
<1>3. /\ gone \in SUBSET Nodes
      /\ \A s \in Subgoals : Prev(s) \notin gone /\ (Cur(s) \in gone <=> s \in C)
  BY <1>2, NodesAreCurOrPrev
<1> HIDE DEF C, gone
<1>4. /\ node' \in [Nodes -> NodeType]
      /\ \A n \in Nodes : node'[n].live = (n \notin gone /\ node[n].live)
  <2>1. \A n \in Nodes : node[n].live \in BOOLEAN
    BY DEF GraphInv, GraphTyped, NodeType
  <2> QED BY <1>1, <2>1, NewNodeTyped DEF GraphInv, GraphTyped
<1>5. EdgesTyped(out', inn') /\ Agree(out', inn', node')
  <2>1. out' = OutLeft(C, gone) /\ inn' = InnLeft(C, gone)
    BY <1>1 DEF OutLeft, InnLeft
  <2> QED BY <1>2, <1>3, <1>4, <2>1, NodesGone
<1>6. /\ table' \in [Subgoals -> TableType]
      /\ \A s \in Subgoals : table'[s].state = IF s \in C THEN "none" ELSE table[s].state
  <2>1. NoTable \in TableType /\ NoTable.state = "none"
    BY DEF NoTable, TableType
  <2> QED BY <1>1, <2>1 DEF GraphInv, GraphTyped
<1>7. Stack(sccs') /\ \A s : ~In(sccs', s)
  BY <1>1 DEF Stack, In
<1>8. Lives(table, node, sccs)'
  <2> SUFFICES ASSUME NEW s \in Subgoals
               PROVE  /\ node'[Cur(s)].live = (table'[s].state # "none")
                      /\ node'[Prev(s)].live => table'[s].state = "incomplete"
                      /\ (table'[s].state = "incomplete") = In(sccs', s)
    BY DEF Lives
  <2>1. /\ node[Cur(s)].live = (table[s].state # "none")
        /\ node[Prev(s)].live => table[s].state = "incomplete"
        /\ table[s].state = "incomplete" <=> s \in C
    BY <1>2 DEF GraphInv, Lives
  <2>2. In(sccs', s) = FALSE
    BY <1>7 DEF In
  <2> QED BY <1>1, <1>3, <1>4, <1>6, <2>1, <2>2, NodesAreCurOrPrev
<1>9. RestTyped'
  BY <1>1 DEF GraphInv, RestTyped
<1> QED BY <1>4, <1>5, <1>6, <1>7, <1>8, <1>9 DEF GraphInv, GraphTyped, EdgesTyped

-----------------------------------------------------------------------------
LEMMA NextKeeps ==
  ASSUME GraphInv, ThrowsAnywhere = FALSE, [Next]_vars
  PROVE  GraphInv'
<1>1. CASE Engine
  BY <1>1, CallGoalKeeps, NewAnswerKeeps, LazyCallKeeps, CompleteSccKeeps, ReturnKeeps
     DEF Engine
<1>2. CASE \E s \in Subgoals : Query(s) \/ Invalidate(s) \/ Abolish(s)
  BY <1>2, QueryKeeps, InvalidateKeeps, AbolishKeeps
<1>3. CASE \E l \in Leaves, f \in SUBSET Answers : Update(l, f)
  BY <1>3, UpdateKeeps
<1>4. CASE Resume \/ Close
  BY <1>4, CursorsKeep
<1>5. CASE Throw
  BY <1>5, ThrowKeeps
<1>6. CASE UNCHANGED vars
  <2>1. RestTyped'
    BY <1>6 DEF vars, evalVars, RestTyped, GraphInv
  <2> QED BY <1>6, <2>1, NothingChanged, GraphKept DEF vars, evalVars
<1> QED BY <1>1, <1>2, <1>3, <1>4, <1>5, <1>6 DEF Next

LEMMA InvHolds ==
  ASSUME ThrowsAnywhere = FALSE
  PROVE  Spec => []GraphInv
<1>1. GraphInv /\ [Next]_vars => GraphInv'
  BY NextKeeps
<1> QED BY <1>1, InitHolds, PTL DEF Spec

(* The outedges and inedges of the call graph agree, and none leads to or     *)
(* from a call node that deallocate_call or deallocate_previous_call freed    *)
(* (call_graph_xsb.c), as long as no exception ends a re-evaluation.          *)
THEOREM GraphStaysWhole ==
  ASSUME ThrowsAnywhere = FALSE
  PROVE  Spec => []GraphAgrees
<1>1. GraphInv => GraphAgrees
  BY InvImplies
<1> QED BY <1>1, InvHolds, PTL

(* Counts, marks and edges have their types under the same condition: the     *)
(* count of a node stays in its range through invalidation and the            *)
(* propagation of an unchanged table, and a node has a predecessor only while *)
(* its table is recomputed.                                                   *)
THEOREM TypesHold ==
  ASSUME ThrowsAnywhere = FALSE
  PROVE  Spec => []TypeOK
<1>1. GraphInv => TypeOK
  BY InvImplies
<1> QED BY <1>1, InvHolds, PTL

-----------------------------------------------------------------------------
(* Counts.  A table waits for those below it that are affected, and for those *)
(* that are being recomputed: these may turn out unchanged and then take      *)
(* their part out of the count.  What an incomplete table has called is up to *)
(* date or is completed with it or before it.                                 *)
CountOf(s)     == node[Cur(s)].falsecount
Deps(s)        == Subgoals \cap inn[Cur(s)]
Pending(t)     == Affected(t) \/ node[Prev(t)].live
PendingDeps(s) == {t \in Deps(s) : Pending(t)}

Covered(s) ==
  Complete(s) =>
    /\ CountOf(s) >= Cardinality(PendingDeps(s))
    /\ node[Cur(s)].deleted <=> CountOf(s) > 0
    /\ node[Cur(s)].direct => CountOf(s) > 0
Starts(s)       == Incomplete(s) => node[Cur(s)] = NewNode
OldUncounted(s) == node[Prev(s)].falsecount = 0
OrderedDeps ==
  \A i \in DOMAIN sccs : \A s \in sccs[i] : \A t \in Deps(s) :
    /\ ~Affected(t)
    /\ Incomplete(t) => \E j \in DOMAIN sccs : i <= j /\ t \in sccs[j]

CoverInv ==
  /\ \A s \in Subgoals : Covered(s) /\ Starts(s) /\ OldUncounted(s)
  /\ OrderedDeps

(* No count is so near its width that one traversal could take it beyond.     *)
CountsLow == \A s \in Subgoals : CountOf(s) + Cardinality(Goals) + 1 < CountRange

LEMMA Smaller ==
  ASSUME NEW A, NEW B, A \subseteq B, B \subseteq Goals
  PROVE  /\ Cardinality(A) \in Nat /\ Cardinality(B) \in Nat
         /\ Cardinality(A) <= Cardinality(B) /\ IsFiniteSet(A) /\ IsFiniteSet(B)
<1>1. IsFiniteSet(Goals)
  BY SetsAssumption, FS_Union DEF Goals
<1>2. IsFiniteSet(B) /\ IsFiniteSet(A)
  BY <1>1, FS_Subset
<1> QED BY <1>2, FS_Subset, FS_CardinalityType

LEMMA CountTyped ==
  ASSUME GraphInv, NEW n \in Nodes
  PROVE  /\ node[n].falsecount \in 0 .. CountRange - 1 /\ node[n].falsecount \in Nat
         /\ node[n].live \in BOOLEAN /\ node[n].deleted \in BOOLEAN
         /\ node[n].direct \in BOOLEAN /\ node[n] \in NodeType
<1>1. node[n] \in NodeType
  BY DEF GraphInv, GraphTyped
<1>2. /\ node[n].falsecount \in 0 .. CountRange - 1
      /\ node[n].live \in BOOLEAN /\ node[n].deleted \in BOOLEAN /\ node[n].direct \in BOOLEAN
  BY <1>1 DEF NodeType
<1>3. node[n].falsecount \in Nat
  BY <1>2, BoundsAssumption
<1> QED BY <1>1, <1>2, <1>3

LEMMA NewNodeFields ==
  /\ NewNode.falsecount = 0 /\ NewNode.deleted = FALSE /\ NewNode.direct = FALSE
  /\ NoNode.falsecount = 0
BY DEF NewNode, NoNode

(* A table that neither gains counts nor something to wait for.               *)
LEMMA StaysCovered ==
  ASSUME NEW s \in Subgoals, GraphInv, Complete(s) /\ Covered(s), CountOf(s)' = CountOf(s),
         node'[Cur(s)].deleted = node[Cur(s)].deleted,
         node'[Cur(s)].direct => node[Cur(s)].direct \/ CountOf(s) > 0,
         PendingDeps(s)' \subseteq PendingDeps(s)
  PROVE  Covered(s)'
<1>1. PendingDeps(s) \subseteq Goals
  BY DEF PendingDeps, Deps, Goals
<1> DEFINE pd == PendingDeps(s)
<1>2. PICK pd2 : pd2 = PendingDeps(s)'
  OBVIOUS
<1>3. /\ Cardinality(pd2) <= Cardinality(pd) /\ Cardinality(pd2) \in Nat
      /\ Cardinality(pd) \in Nat
  BY <1>1, <1>2, Smaller
<1>4. CountOf(s) \in Nat
  BY CountTyped, NodesAreCurOrPrev DEF CountOf
<1>5. CountOf(s) >= Cardinality(pd2)
  BY <1>3, <1>4 DEF Covered
<1>6. CountOf(s)' >= Cardinality(PendingDeps(s)')
  BY <1>2, <1>5
<1> QED BY <1>6 DEF Covered, CountOf

(* Steps that leave the nodes, the edges between tables and the stack.        *)
LEMMA CoverKept ==
  ASSUME GraphInv, CoverInv, SameStates, UNCHANGED <<node, sccs>>,
         \A s \in Subgoals : Deps(s)' = Deps(s)
  PROVE  CoverInv'
<1>1. \A s \in Subgoals : (Complete(s)' <=> Complete(s)) /\ (Incomplete(s)' <=> Incomplete(s))
  BY DEF SameStates, Complete, Incomplete
<1>2. ASSUME NEW s \in Subgoals PROVE Covered(s)'
  <2>1. PendingDeps(s)' = PendingDeps(s)
    BY DEF PendingDeps, Pending, Affected
  <2> QED BY <1>1, <2>1 DEF CoverInv, Covered, CountOf
<1>3. \A s \in Subgoals : Starts(s)' /\ OldUncounted(s)'
  BY <1>1 DEF CoverInv, Starts, OldUncounted
<1>4. OrderedDeps'
  <2> SUFFICES ASSUME NEW i \in DOMAIN sccs, NEW s \in sccs[i], NEW t \in Deps(s)'
               PROVE  /\ ~Affected(t)'
                      /\ Incomplete(t)' => \E j \in DOMAIN sccs : i <= j /\ t \in sccs[j]
    BY DEF OrderedDeps
  <2>1. s \in Subgoals
    BY DEF GraphInv, Stack
  <2>2. t \in Deps(s) /\ t \in Subgoals
    BY <2>1 DEF Deps
  <2> QED BY <1>1, <2>1, <2>2 DEF CoverInv, OrderedDeps, Affected
<1> QED BY <1>2, <1>3, <1>4 DEF CoverInv

-----------------------------------------------------------------------------
(* The traversal from g is the least set that its step does not leave.        *)
Hits(g, hit) ==
  /\ hit \subseteq Subgoals \cup {g} /\ g \in hit
  /\ \A t \in Subgoals : ~node[Cur(t)].deleted /\ Edges(hit, Cur(t)) # {} => t \in hit
  /\ \A t \in hit : t # g => ~node[Cur(t)].deleted /\ Edges(hit, Cur(t)) # {}
Hit(nd, g, hit) ==
  nd = [n \in Nodes |->
          [node[n] EXCEPT
             !.falsecount = (@ + Cardinality(Edges(hit, n))
                               + (IF n = <<g, "current">> THEN 1 ELSE 0)) % CountRange,
             !.deleted = @ \/ \E t \in hit \cap Subgoals : n = Cur(t)]]

LEMMA Traversal ==
  ASSUME NEW g \in Goals
  PROVE  \E hit : Hits(g, hit) /\ Hit(InvalidatedFrom(g), g, hit)
<1> DEFINE U == Subgoals \cup {g}
           Step(S) == {t \in Subgoals : ~node[Cur(t)].deleted /\ Edges(S, Cur(t)) # {}}
           closed == {S \in SUBSET U : {g} \cup Step(S) \subseteq S}
           hit == {x \in U : \A S \in closed : x \in S}
<1>1. \A S, T : S \subseteq T => Step(S) \subseteq Step(T)
  BY DEF Edges
<1>2. \A S \in closed : hit \subseteq S
  OBVIOUS
<1>3. Step(hit) \subseteq hit
  <2>1. \A S \in closed : Step(hit) \subseteq S
    <3> TAKE S \in closed
    <3>1. Step(hit) \subseteq Step(S)
      <4> HIDE DEF hit, closed, Step
      <4> QED BY <1>1, <1>2
    <3> QED BY <3>1
  <2>2. Step(hit) \subseteq U
    OBVIOUS
  <2> HIDE DEF Step, closed
  <2> QED BY <2>1, <2>2
<1>4. g \in hit
  OBVIOUS
<1>5. {g} \cup Step(hit) \in closed
  <2> DEFINE S0 == {g} \cup Step(hit)
  <2>1. S0 \subseteq hit
    <3> HIDE DEF Step, hit
    <3> QED BY <1>3, <1>4
  <2>2. Step(S0) \subseteq Step(hit)
    <3> HIDE DEF Step, hit, S0
    <3> QED BY <1>1, <2>1
  <2>3. Step(hit) \subseteq U
    OBVIOUS
  <2> HIDE DEF Step, hit
  <2> QED BY <2>2, <2>3
<1>6. hit \subseteq {g} \cup Step(hit)
  <2> HIDE DEF Step, hit, closed
  <2> QED BY <1>2, <1>5
<1>7. Hits(g, hit)
  <2>1. hit \subseteq Subgoals \cup {g}
    OBVIOUS
  <2>2. \A t \in hit : t # g => t \in Step(hit)
    <3> HIDE DEF Step, hit
    <3> QED BY <1>6
  <2> HIDE DEF hit
  <2> QED BY <1>3, <1>4, <2>1, <2>2 DEF Hits
<1>8. Hit(InvalidatedFrom(g), g, hit)
  BY DEF InvalidatedFrom, Closure, Hit
<1> HIDE DEF hit
<1> QED BY <1>7, <1>8

LEMMA HitCounts ==
  ASSUME GraphInv, CountsLow, NEW g \in Goals, NEW hit, Hits(g, hit), NEW nd, Hit(nd, g, hit),
         NEW s \in Subgoals
  PROVE  /\ nd[Cur(s)].falsecount = CountOf(s) + Cardinality(Edges(hit, Cur(s)))
                                      + (IF s = g THEN 1 ELSE 0)
         /\ Cardinality(Edges(hit, Cur(s))) \in Nat
         /\ Cardinality(Edges(hit, Cur(s))) = 0 <=> Edges(hit, Cur(s)) = {}
         /\ nd[Cur(s)].deleted <=> node[Cur(s)].deleted \/ s \in hit
         /\ nd[Cur(s)].direct = node[Cur(s)].direct
<1>1. hit \subseteq Goals
  BY DEF Hits, Goals
<1> DEFINE e == Cardinality(Edges(hit, Cur(s)))
           one == IF s = g THEN 1 ELSE 0
<1>2. Edges(hit, Cur(s)) \subseteq Goals
  BY <1>1 DEF Edges
<1>3. e \in Nat /\ e <= Cardinality(Goals) /\ Cardinality(Goals) \in Nat
  BY <1>2, Smaller
<1>4. e = 0 <=> Edges(hit, Cur(s)) = {}
  BY <1>2, Smaller, FS_EmptySet
<1>5. Cur(s) \in Nodes /\ (Cur(s) = <<g, "current">> <=> s = g)
  BY NodesAreCurOrPrev DEF Cur
<1>6. CountOf(s) \in Nat /\ CountOf(s) + Cardinality(Goals) + 1 < CountRange
  BY <1>5, CountTyped DEF CountsLow, CountOf
<1>7. CountOf(s) + e + one \in 0 .. CountRange - 1
  <2> HIDE DEF e
  <2> QED BY <1>3, <1>6, BoundsAssumption
<1>8. (CountOf(s) + e + one) % CountRange = CountOf(s) + e + one
  <2> DEFINE k == CountOf(s) + e + one
  <2>1. k \in 0 .. CountRange - 1
    BY <1>7
  <2> HIDE DEF k
  <2>2. k % CountRange = k
    BY <2>1, BoundsAssumption
  <2> QED BY <2>2 DEF k
<1> DEFINE mark == \E t \in hit \cap Subgoals : Cur(s) = Cur(t)
           F == (node[Cur(s)].falsecount + e
                   + (IF Cur(s) = <<g, "current">> THEN 1 ELSE 0)) % CountRange
<1>9. nd[Cur(s)] = [node[Cur(s)] EXCEPT !.falsecount = F, !.deleted = @ \/ mark]
  BY <1>5 DEF Hit
<1>10. mark <=> s \in hit
  BY NodesAreCurOrPrev
<1>11. F = CountOf(s) + e + one
  BY <1>5, <1>8 DEF CountOf
<1>12. node[Cur(s)] \in NodeType /\ node[Cur(s)].deleted \in BOOLEAN
  BY <1>5, CountTyped
<1> HIDE DEF mark, F, e, one
<1>13. /\ nd[Cur(s)].falsecount = F /\ nd[Cur(s)].deleted = (node[Cur(s)].deleted \/ mark)
       /\ nd[Cur(s)].direct = node[Cur(s)].direct
  BY <1>9, <1>12 DEF NodeType
<1>14. nd[Cur(s)].deleted <=> node[Cur(s)].deleted \/ s \in hit
  BY <1>10, <1>13
<1> QED BY <1>3, <1>4, <1>11, <1>13, <1>14 DEF e, one

(* An invalidation, when no table is incomplete: the count of a table grows   *)
(* by one for each of those below it that the invalidation affects.           *)
Quiet == \A s \in Subgoals : ~Incomplete(s)
Newly(nd, s) == {t \in Deps(s) : ~Affected(t) /\ nd[Cur(t)].falsecount # 0}
Invalidated(nd) ==
  \A s \in Subgoals :
    /\ nd[Prev(s)].falsecount = 0 /\ nd[Cur(s)].falsecount \in Nat
    /\ Affected(s) => nd[Cur(s)].falsecount # 0
    /\ Complete(s) =>
         /\ nd[Cur(s)].falsecount >= CountOf(s) + Cardinality(Newly(nd, s))
         /\ nd[Cur(s)].deleted <=> nd[Cur(s)].falsecount > 0
         /\ nd[Cur(s)].direct = node[Cur(s)].direct

LEMMA QuietPrevDead ==
  ASSUME GraphInv, Quiet, NEW s \in Subgoals
  PROVE  /\ node[Prev(s)].live = FALSE
         /\ \A g \in Goals : Prev(s) \notin out[g]
<1>1. node[Prev(s)].live = FALSE
  BY CountTyped, NodesAreCurOrPrev DEF GraphInv, Lives, Quiet, Incomplete
<1> QED BY <1>1, NodesAreCurOrPrev DEF GraphInv, Agree

LEMMA InvalidatedCounts ==
  ASSUME GraphInv, CoverInv, CountsLow, Quiet, NEW g \in Goals,
         g \in Subgoals => Complete(g)
  PROVE  Invalidated(Invalidation(g))
<1>0. ASSUME NEW s \in Subgoals
      PROVE  CountOf(s) \in Nat /\ Cur(s) \in Nodes /\ Prev(s) \in Nodes
  BY CountTyped, NodesAreCurOrPrev DEF CountOf
<1>1. CASE g \in Subgoals /\ node[Cur(g)].deleted
  <2>1. Invalidation(g) = node
    BY <1>1 DEF Invalidation
  <2>2. ASSUME NEW s \in Subgoals PROVE Newly(node, s) = {}
    BY DEF Newly, Affected
  <2>3. Invalidated(node)
    <3> SUFFICES ASSUME NEW s \in Subgoals
                 PROVE  /\ node[Prev(s)].falsecount = 0 /\ CountOf(s) \in Nat
                        /\ Complete(s) =>
                             /\ CountOf(s) >= CountOf(s) + Cardinality(Newly(node, s))
                             /\ node[Cur(s)].deleted <=> CountOf(s) > 0
      BY DEF Invalidated, CountOf, Affected
    <3>1. Cardinality(Newly(node, s)) = 0
      BY <2>2, FS_EmptySet
    <3>2. CountOf(s) >= CountOf(s) + 0
      BY <1>0
    <3> QED BY <1>0, <3>1, <3>2 DEF CoverInv, OldUncounted, Covered
  <2> QED BY <2>1, <2>3
<1>2. CASE ~(g \in Subgoals /\ node[Cur(g)].deleted)
  <2>1. PICK hit : Hits(g, hit) /\ Hit(InvalidatedFrom(g), g, hit)
    BY Traversal
  <2>2. PICK nd : nd = InvalidatedFrom(g)
    OBVIOUS
  <2>3. Invalidation(g) = nd /\ Hit(nd, g, hit)
    BY <1>2, <2>1, <2>2 DEF Invalidation
  <2>4. ASSUME NEW s \in Subgoals PROVE nd[Prev(s)].falsecount = 0
    <3>1. Edges(hit, Prev(s)) = {}
      BY <2>1, QuietPrevDead DEF Edges, Hits, Goals
    <3>2. Cardinality(Edges(hit, Prev(s))) = 0
      BY <3>1, FS_EmptySet
    <3>3. Prev(s) # <<g, "current">> /\ Prev(s) \in Nodes /\ node[Prev(s)] \in NodeType
      BY <1>0, CountTyped DEF Prev
    <3>4. node[Prev(s)].falsecount = 0
      BY DEF CoverInv, OldUncounted
    <3> DEFINE mark == \E t \in hit \cap Subgoals : Prev(s) = Cur(t)
               F == (node[Prev(s)].falsecount + Cardinality(Edges(hit, Prev(s)))
                       + (IF Prev(s) = <<g, "current">> THEN 1 ELSE 0)) % CountRange
    <3>5. nd[Prev(s)] = [node[Prev(s)] EXCEPT !.falsecount = F, !.deleted = @ \/ mark]
      BY <2>3, <3>3 DEF Hit
    <3>6. F = 0
      BY <3>2, <3>3, <3>4, BoundsAssumption
    <3> HIDE DEF F, mark
    <3> QED BY <3>3, <3>5, <3>6 DEF NodeType
  <2>5. ASSUME NEW s \in Subgoals
        PROVE  /\ nd[Cur(s)].falsecount \in Nat
               /\ Affected(s) => nd[Cur(s)].falsecount # 0
               /\ ~Affected(s) /\ nd[Cur(s)].falsecount # 0
                    => s = g \/ Edges(hit, Cur(s)) # {}
               /\ s = g \/ Edges(hit, Cur(s)) # {} => nd[Cur(s)].falsecount > 0
               /\ Affected(s) => nd[Cur(s)].falsecount > 0
    <3> DEFINE e == Cardinality(Edges(hit, Cur(s)))
    <3>1. /\ nd[Cur(s)].falsecount = CountOf(s) + e + (IF s = g THEN 1 ELSE 0)
          /\ e \in Nat /\ (e = 0 <=> Edges(hit, Cur(s)) = {})
      BY <2>1, <2>3, HitCounts
    <3> HIDE DEF e
    <3> QED BY <1>0, <3>1 DEF Affected, CountOf
  <2>6. ASSUME NEW s \in Subgoals, Complete(s)
        PROVE  nd[Cur(s)].deleted <=> nd[Cur(s)].falsecount > 0
    <3>1. node[Cur(s)].deleted <=> Affected(s)
      BY <1>0, <2>6 DEF CoverInv, Covered, Affected, CountOf
    <3>2. nd[Cur(s)].deleted <=> node[Cur(s)].deleted \/ s \in hit
      BY <2>1, <2>3, HitCounts
    <3>3. s \in hit => s = g \/ Edges(hit, Cur(s)) # {}
      BY <2>1 DEF Hits
    <3>4. Edges(hit, Cur(s)) # {} => node[Cur(s)].deleted \/ s \in hit
      BY <2>1 DEF Hits
    <3>5. s = g => s \in hit
      BY <2>1 DEF Hits
    <3>6. /\ Affected(s) \/ s = g \/ Edges(hit, Cur(s)) # {} => nd[Cur(s)].falsecount > 0
          /\ nd[Cur(s)].falsecount > 0
               => Affected(s) \/ s = g \/ Edges(hit, Cur(s)) # {}
      BY <2>5
    <3> QED BY <3>1, <3>2, <3>3, <3>4, <3>5, <3>6
  <2>7. ASSUME NEW s \in Subgoals, Complete(s)
        PROVE  nd[Cur(s)].falsecount >= CountOf(s) + Cardinality(Newly(nd, s))
    <3>1. ASSUME NEW t \in Newly(nd, s) PROVE t \in Edges(hit, Cur(s))
      <4>1. t \in Subgoals /\ t \in inn[Cur(s)] /\ ~Affected(t) /\ nd[Cur(t)].falsecount # 0
        BY DEF Newly, Deps
      <4>2. Cur(s) \in out[t] /\ node[Cur(t)].live
        BY <1>0, <4>1 DEF GraphInv, Agree, Goals
      <4>3. Complete(t)
        <5>1. table[t].state \in {"none", "incomplete", "complete"}
          BY <4>1 DEF GraphInv, GraphTyped, TableType
        <5> QED BY <4>1, <4>2, <5>1 DEF GraphInv, Lives, Quiet, Complete, Incomplete
      <4>4. ~node[Cur(t)].deleted
        BY <1>0, <4>1, <4>3 DEF CoverInv, Covered, Affected, CountOf
      <4>5. t \in hit
        BY <2>1, <2>5, <4>1, <4>4 DEF Hits
      <4> QED BY <4>2, <4>5 DEF Edges
    <3>2. Edges(hit, Cur(s)) \subseteq Goals
      BY <2>1 DEF Edges, Hits, Goals
    <3>3. /\ Cardinality(Newly(nd, s)) <= Cardinality(Edges(hit, Cur(s)))
          /\ Cardinality(Newly(nd, s)) \in Nat /\ Cardinality(Edges(hit, Cur(s))) \in Nat
      BY <3>1, <3>2, Smaller
    <3>4. nd[Cur(s)].falsecount = CountOf(s) + Cardinality(Edges(hit, Cur(s)))
                                      + (IF s = g THEN 1 ELSE 0)
      BY <2>1, <2>3, HitCounts
    <3> QED BY <1>0, <3>3, <3>4
  <2>8. ASSUME NEW s \in Subgoals PROVE nd[Cur(s)].direct = node[Cur(s)].direct
    BY <2>1, <2>3, HitCounts
  <2>9. Invalidated(nd)
    BY <2>4, <2>5, <2>6, <2>7, <2>8 DEF Invalidated
  <2> QED BY <2>3, <2>9
<1> QED BY <1>1, <1>2

LEMMA IdleIsQuiet == GraphInv /\ sccs = <<>> => Quiet
<1> SUFFICES ASSUME GraphInv, sccs = <<>>, NEW s \in Subgoals PROVE ~Incomplete(s)
  BY DEF Quiet
<1>1. \A x : ~In(sccs, x)
  BY DEF In
<1>2. In(sccs, s) = FALSE
  BY <1>1 DEF In
<1> QED BY <1>2 DEF GraphInv, Lives, Incomplete

LEMMA IdleIsQuietNext == GraphInv' /\ sccs' = <<>> => Quiet'
<1> SUFFICES ASSUME GraphInv', sccs' = <<>>, NEW s \in Subgoals PROVE ~Incomplete(s)'
  BY DEF Quiet
<1>1. \A x : ~In(sccs', x)
  BY DEF In
<1>2. In(sccs', s) = FALSE
  BY <1>1 DEF In
<1> QED BY <1>2 DEF GraphInv, Lives, Incomplete

LEMMA TwoSets ==
  ASSUME NEW A, NEW B, NEW C, A \subseteq B \cup C, B \subseteq Goals, C \subseteq Goals
  PROVE  /\ Cardinality(A) \in Nat /\ Cardinality(B) \in Nat /\ Cardinality(C) \in Nat
         /\ Cardinality(A) <= Cardinality(B) + Cardinality(C)
<1>1. /\ Cardinality(B) \in Nat /\ Cardinality(C) \in Nat /\ IsFiniteSet(B) /\ IsFiniteSet(C)
      /\ Cardinality(A) \in Nat /\ Cardinality(A) <= Cardinality(B \cup C)
  BY Smaller
<1>2. Cardinality(B \cup C) = Cardinality(B) + Cardinality(C) - Cardinality(B \cap C)
  BY <1>1, FS_Union
<1>3. Cardinality(B \cap C) \in Nat
  BY Smaller
<1> DEFINE b == Cardinality(B)
           c == Cardinality(C)
           d == Cardinality(B \cap C)
           u == Cardinality(B \cup C)
           a == Cardinality(A)
<1>4. a \in Nat /\ b \in Nat /\ c \in Nat /\ d \in Nat /\ a <= u /\ u = b + c - d
  BY <1>1, <1>2, <1>3
<1> HIDE DEF a, b, c, d, u
<1>5. a <= b + c
  BY <1>4
<1> QED BY <1>1, <1>5 DEF a, b, c

(* The steps of an idle engine that invalidate tables.                        *)
LEMMA QuietCover ==
  ASSUME GraphInv, GraphInv', CoverInv, Quiet, Quiet', NEW nd, Invalidated(nd),
         \A s \in Subgoals : node'[Prev(s)] = nd[Prev(s)],
         \A s \in Subgoals : Complete(s)' => /\ Complete(s) /\ node'[Cur(s)] = nd[Cur(s)]
                                             /\ Deps(s)' \subseteq Deps(s)
  PROVE  CoverInv'
<1>1. \A s \in Subgoals : Starts(s)' /\ OldUncounted(s)'
  BY DEF Quiet, Starts, OldUncounted, Invalidated
<1>2. OrderedDeps'
  <2>1. \A i \in DOMAIN sccs' : sccs'[i] = {}
    <3> SUFFICES ASSUME NEW i \in DOMAIN sccs', NEW s \in sccs'[i] PROVE FALSE
      OBVIOUS
    <3>1. sccs' \in Seq(SUBSET Subgoals)
      BY DEF GraphInv, Stack
    <3>2. s \in Subgoals
      BY <3>1
    <3>3. In(sccs', s) = TRUE
      BY DEF In
    <3> QED BY <3>2, <3>3 DEF GraphInv, Lives, Quiet, Incomplete
  <2> QED BY <2>1 DEF OrderedDeps
<1>3. ASSUME NEW s \in Subgoals, Complete(s)' PROVE Covered(s)'
  <2>1. PICK pd : pd = PendingDeps(s)'
    OBVIOUS
  <2>2. pd \subseteq PendingDeps(s) \cup Newly(nd, s)
    <3> SUFFICES ASSUME NEW t \in pd PROVE t \in PendingDeps(s) \cup Newly(nd, s)
      OBVIOUS
    <3>1. t \in Deps(s)' /\ t \in Subgoals /\ t \in Deps(s) /\ Pending(t)'
      BY <1>3, <2>1 DEF PendingDeps, Deps
    <3>2. node'[Prev(t)].live = FALSE
      BY <3>1, CountTyped, NodesAreCurOrPrev DEF GraphInv, GraphTyped, NodeType, Lives, Quiet,
         Incomplete
    <3>3. node'[Cur(t)].falsecount # 0
      BY <3>1, <3>2 DEF Pending, Affected
    <3>4. node'[Cur(t)].live
      <4>1. Cur(s) \in Nodes /\ t \in inn'[Cur(s)] /\ t \in Goals
        BY <3>1, NodesAreCurOrPrev DEF Deps, Goals
      <4> QED BY <3>1, <4>1 DEF GraphInv, Agree
    <3>5. Complete(t)'
      <4>1. table'[t].state \in {"none", "incomplete", "complete"}
        BY <3>1 DEF GraphInv, GraphTyped, TableType
      <4> QED BY <3>1, <3>4, <4>1 DEF GraphInv, Lives, Quiet, Complete, Incomplete
    <3>6. nd[Cur(t)].falsecount # 0
      BY <3>1, <3>3, <3>5
    <3> QED BY <3>1, <3>6 DEF PendingDeps, Pending, Newly
  <2>3. /\ Cardinality(pd) \in Nat /\ Cardinality(PendingDeps(s)) \in Nat
        /\ Cardinality(Newly(nd, s)) \in Nat
        /\ Cardinality(pd) <= Cardinality(PendingDeps(s)) + Cardinality(Newly(nd, s))
    <3>1. PendingDeps(s) \subseteq Goals /\ Newly(nd, s) \subseteq Goals
      BY DEF PendingDeps, Newly, Deps, Goals
    <3> QED BY <2>2, <3>1, TwoSets
  <2>4. CountOf(s) \in Nat /\ CountOf(s) >= Cardinality(PendingDeps(s))
    BY <1>3, CountTyped, NodesAreCurOrPrev DEF CoverInv, Covered, CountOf
  <2>5. /\ nd[Cur(s)].falsecount >= CountOf(s) + Cardinality(Newly(nd, s))
        /\ nd[Cur(s)].falsecount \in Nat
        /\ nd[Cur(s)].deleted <=> nd[Cur(s)].falsecount > 0
        /\ nd[Cur(s)].direct = node[Cur(s)].direct
        /\ Affected(s) => nd[Cur(s)].falsecount # 0
    BY <1>3 DEF Invalidated
  <2>6. nd[Cur(s)].falsecount >= Cardinality(pd)
    BY <2>3, <2>4, <2>5
  <2>7. nd[Cur(s)].direct => nd[Cur(s)].falsecount > 0
    <3>1. node[Cur(s)].direct => CountOf(s) > 0
      BY <1>3 DEF CoverInv, Covered
    <3>2. CountOf(s) > 0 => nd[Cur(s)].falsecount # 0
      BY <2>4, <2>5 DEF CountOf, Affected
    <3> QED BY <2>5, <3>1, <3>2
  <2> QED BY <1>3, <2>1, <2>5, <2>6, <2>7 DEF Covered, CountOf
<1>4. \A s \in Subgoals : Covered(s)'
  BY <1>3 DEF Covered
<1> QED BY <1>1, <1>2, <1>4 DEF CoverInv

LEMMA IdleStepsCover ==
  ASSUME GraphInv, GraphInv', CoverInv, CountsLow, NEW g \in Goals,
         \/ g \in Leaves /\ \E f \in SUBSET Answers : Update(g, f)
         \/ g \in Subgoals /\ (Invalidate(g) \/ Abolish(g))
  PROVE  CoverInv'
<1>1. Quiet /\ (g \in Subgoals => Complete(g)) /\ sccs' = <<>>
  BY IdleIsQuiet, SetsAssumption DEF Update, Invalidate, Abolish, Idle, evalVars
<1>2. Invalidated(Invalidation(g))
  BY <1>1, InvalidatedCounts
<1>3. Quiet'
  BY <1>1, IdleIsQuietNext
<1>4. PICK nd : nd = Invalidation(g)
  OBVIOUS
<1>5. CASE node' = nd /\ UNCHANGED <<table, inn>>
  BY <1>1, <1>2, <1>3, <1>4, <1>5, QuietCover DEF Complete, Deps
<1>6. CASE g \in Subgoals /\ Abolish(g)
  <2>1. /\ node' = [nd EXCEPT ![Cur(g)] = NoNode] /\ table' = [table EXCEPT ![g] = NoTable]
        /\ inn' = [n \in Nodes |-> IF n = Cur(g) THEN {} ELSE inn[n] \ {g}]
    BY <1>4, <1>6 DEF Abolish
  <2>2. DOMAIN nd = Nodes /\ nd = [n \in Nodes |-> nd[n]]
    BY <1>4, InvalidationKeepsNodes DEF GraphInv, GraphTyped, SameNodes
  <2>3. \A s \in Subgoals : /\ node'[Prev(s)] = nd[Prev(s)]
                            /\ s # g => node'[Cur(s)] = nd[Cur(s)]
    BY <2>1, <2>2, NodesAreCurOrPrev
  <2>4. \A s \in Subgoals : Complete(s)' => s # g /\ Complete(s) /\ Deps(s)' \subseteq Deps(s)
    <3>1. NoTable.state # "complete"
      BY DEF NoTable
    <3> QED BY <2>1, <3>1, NodesAreCurOrPrev DEF GraphInv, GraphTyped, Complete, Deps
  <2> QED BY <1>1, <1>2, <1>3, <1>4, <2>3, <2>4, QuietCover
<1> QED BY <1>4, <1>5, <1>6 DEF Update, Invalidate

(* What a traversal lists for re-evaluation is affected.                      *)
LEMMA RecomputesAffected ==
  ASSUME NEW g \in Subgoals
  PROVE  \A t \in ToRecompute(g) : t \in Subgoals /\ (t = g \/ Affected(t))
<1> DEFINE Step(S) == {t \in Below(S) : ~node[Cur(t)].direct}
           closed == {S \in SUBSET Subgoals : {g} \cup Step(S) \subseteq S}
           low == {t \in Subgoals : t = g \/ Affected(t)}
<1>1. low \in closed
  BY DEF Below
<1>2. ToRecompute(g) = {x \in Subgoals : \A S \in closed : x \in S}
  BY DEF ToRecompute, Closure
<1> HIDE DEF closed, low
<1>3. ToRecompute(g) \subseteq low
  BY <1>1, <1>2
<1> QED BY <1>3 DEF low

LEMMA ReevaluateCovers ==
  ASSUME GraphInv, CoverInv, NEW p \in Callers, NEW g \in Subgoals, NEW use, NEW rest,
         Reevaluate(p, g, use, rest)
  PROVE  CoverInv'
<1>1. PICK R : R = ToRecompute(g)
  OBVIOUS
<1>2. /\ node' = Marked(R) /\ UNCHANGED <<inn, sccs>> /\ Complete(g) /\ Affected(g)
      /\ \A s \in Subgoals : table'[s].state = table[s].state
  BY <1>1, VisitorsKept DEF Reevaluate
<1>3. \A t \in R : t \in Subgoals /\ Affected(t)
  BY <1>1, <1>2, RecomputesAffected
<1>4. ASSUME NEW n \in Nodes
      PROVE  /\ node'[n].falsecount = node[n].falsecount
             /\ node'[n].live = node[n].live /\ node'[n].deleted = node[n].deleted
             /\ n \notin {Cur(s) : s \in R} => node'[n] = node[n]
  BY <1>2, CountTyped DEF Marked, NodeType
<1>5. \A s \in Subgoals : s \notin R => node'[Cur(s)] = node[Cur(s)]
  BY <1>4, NodesAreCurOrPrev
<1>6. \A s \in Subgoals : /\ (Affected(s)' <=> Affected(s)) /\ (Pending(s)' <=> Pending(s))
                          /\ CountOf(s)' = CountOf(s)
  BY <1>4, NodesAreCurOrPrev DEF Affected, Pending, CountOf
<1>7. ASSUME NEW s \in Subgoals, Complete(s) PROVE Covered(s)'
  <2>1. PendingDeps(s)' \subseteq PendingDeps(s)
    BY <1>2, <1>6 DEF PendingDeps, Deps
  <2>2. node'[Cur(s)].deleted = node[Cur(s)].deleted
    BY <1>4, NodesAreCurOrPrev
  <2>3. Affected(s) => CountOf(s) > 0
    BY CountTyped, NodesAreCurOrPrev DEF Affected, CountOf
  <2>4. node'[Cur(s)].direct => node[Cur(s)].direct \/ CountOf(s) > 0
    BY <1>3, <1>5, <2>3
  <2> QED BY <1>6, <1>7, <2>1, <2>2, <2>4, StaysCovered DEF CoverInv
<1>8. ASSUME NEW s \in Subgoals PROVE Starts(s)' /\ OldUncounted(s)'
  <2>1. Incomplete(s) => ~Affected(s)
    BY NewNodeFields DEF CoverInv, Starts, Affected
  <2>2. Starts(s)'
    BY <1>2, <1>3, <1>5, <2>1 DEF CoverInv, Starts, Incomplete
  <2>3. OldUncounted(s)'
    BY <1>4, NodesAreCurOrPrev DEF CoverInv, OldUncounted
  <2> QED BY <2>2, <2>3
<1>9. OrderedDeps'
  <2> SUFFICES ASSUME NEW i \in DOMAIN sccs, NEW s \in sccs[i], NEW t \in Deps(s)
               PROVE  /\ ~Affected(t)'
                      /\ Incomplete(t)' => \E j \in DOMAIN sccs : i <= j /\ t \in sccs[j]
    BY <1>2 DEF OrderedDeps, Deps
  <2>1. t \in Subgoals
    BY DEF Deps
  <2> QED BY <1>2, <1>6, <2>1 DEF CoverInv, OrderedDeps, Incomplete
<1>10. \A s \in Subgoals : Covered(s)'
  BY <1>2, <1>7 DEF Covered, Complete
<1> QED BY <1>8, <1>9, <1>10 DEF CoverInv

LEMMA CallLeafCovers ==
  ASSUME GraphInv, CoverInv, NEW s \in Subgoals, NEW l \in Leaves, CallLeaf(s, l)
  PROVE  CoverInv'
<1>1. s # Top /\ l \notin Subgoals
  BY TopAssumption, SetsAssumption DEF Goals
<1>2. inn' = [inn EXCEPT ![Cur(s)] = @ \cup {l}] /\ UNCHANGED <<table, node, sccs>>
  BY <1>1 DEF CallLeaf, AddEdge
<1>3. ASSUME NEW t \in Subgoals PROVE Deps(t)' = Deps(t)
  <2>1. Cur(t) \in Nodes
    BY NodesAreCurOrPrev
  <2>2. inn'[Cur(t)] = inn[Cur(t)] \/ inn'[Cur(t)] = inn[Cur(t)] \cup {l}
    BY <1>2, <2>1 DEF GraphInv, GraphTyped
  <2> QED BY <1>1, <2>2 DEF Deps
<1>4. SameStates
  BY <1>2, NothingChanged
<1> QED BY <1>2, <1>3, <1>4, CoverKept

(* The edge from what is called to its caller.                                *)
LEMMA CallAddsDep ==
  ASSUME NEW o, NEW i, NEW g \in Goals, NEW p \in Callers, AddEdge(o, i, g, p),
         i \in [Nodes -> SUBSET Goals]
  PROVE  /\ \A s \in Subgoals : s # p => inn'[Cur(s)] = i[Cur(s)]
         /\ p \in Subgoals => inn'[Cur(p)] \subseteq i[Cur(p)] \cup {g}
<1>1. CASE p = Top
  BY <1>1 DEF AddEdge
<1>2. CASE p # Top
  <2>1. inn' = [i EXCEPT ![Cur(p)] = @ \cup {g}]
    BY <1>2 DEF AddEdge
  <2> QED BY <2>1, NodesAreCurOrPrev
<1> QED BY <1>1, <1>2

LEMMA FindTableCovers ==
  ASSUME GraphInv, CoverInv, NEW p \in Callers, Runs(p), NEW g \in Subgoals, NEW use, NEW rest,
         FindTable(p, g, use, rest)
  PROVE  CoverInv'
<1>1. /\ UNCHANGED <<table, node>> /\ AddEdge(out, inn, g, p) /\ g \in Goals
      /\ Incomplete(g) \/ (Complete(g) /\ ~Affected(g))
  BY DEF FindTable, Goals
<1>2. /\ \A s \in Subgoals : s # p => Deps(s)' = Deps(s)
      /\ p \in Subgoals => Deps(p)' \subseteq Deps(p) \cup {g}
  <2>1. /\ \A s \in Subgoals : s # p => inn'[Cur(s)] = inn[Cur(s)]
        /\ p \in Subgoals => inn'[Cur(p)] \subseteq inn[Cur(p)] \cup {g}
    BY <1>1, CallAddsDep DEF GraphInv, GraphTyped
  <2> QED BY <2>1 DEF Deps
<1>3. p \in Subgoals => /\ sccs # <<>> /\ p \in sccs[Len(sccs)] /\ Incomplete(p)
  BY RunningIsIncomplete, TopAssumption DEF Runs, Last, Incomplete, Goals
<1>4. \A s \in Subgoals : /\ (Affected(s)' <=> Affected(s)) /\ (Pending(s)' <=> Pending(s))
                          /\ (Complete(s)' <=> Complete(s)) /\ (Incomplete(s)' <=> Incomplete(s))
  BY <1>1 DEF Affected, Pending, Complete, Incomplete
<1>5. ASSUME NEW s \in Subgoals, Complete(s) PROVE Covered(s)'
  <2>1. s # p
    BY <1>3, <1>5 DEF Complete, Incomplete
  <2>2. PendingDeps(s)' \subseteq PendingDeps(s)
    BY <1>2, <1>4, <2>1 DEF PendingDeps, Deps
  <2> QED BY <1>1, <1>5, <2>2, StaysCovered DEF CoverInv, CountOf
<1>6. \A s \in Subgoals : Covered(s)' /\ Starts(s)' /\ OldUncounted(s)'
  BY <1>1, <1>4, <1>5 DEF CoverInv, Covered, Starts, OldUncounted
<1>7. ~Affected(g)
  BY <1>1, NewNodeFields DEF CoverInv, Starts, Affected
<1>8. sccs \in Seq(SUBSET Subgoals) /\ Len(sccs) \in Nat /\ DOMAIN sccs = 1 .. Len(sccs)
  BY DEF GraphInv, Stack
<1>9. ASSUME sccs' = sccs, Complete(g) PROVE OrderedDeps'
  <2> SUFFICES ASSUME NEW i \in DOMAIN sccs, NEW s \in sccs[i], NEW t \in Deps(s)'
               PROVE  /\ ~Affected(t)'
                      /\ Incomplete(t)' => \E j \in DOMAIN sccs : i <= j /\ t \in sccs[j]
    BY <1>9 DEF OrderedDeps
  <2>1. t \in Subgoals /\ s \in Subgoals
    BY <1>8 DEF Deps
  <2>2. t \in Deps(s) \/ t = g
    BY <1>2, <2>1
  <2>3. ~Incomplete(g)
    BY <1>9 DEF Complete, Incomplete
  <2> QED BY <1>4, <1>7, <2>1, <2>2, <2>3 DEF CoverInv, OrderedDeps
<1>10. ASSUME ~Complete(g) PROVE OrderedDeps'
  <2>1. In(sccs, g)
    BY <1>1, <1>10 DEF Incomplete, GraphInv, Lives
  <2> DEFINE k == CHOOSE i \in DOMAIN sccs : g \in sccs[i]
  <2>2. k \in DOMAIN sccs /\ g \in sccs[k]
    BY <2>1 DEF In
  <2>3. sccs' = Merged(sccs, k)
    BY <1>10 DEF FindTable, Merged
  <2> HIDE DEF k
  <2>4. PICK new : new = Merged(sccs, k)
    OBVIOUS
  <2>5. /\ DOMAIN new = 1 .. k /\ \A i \in 1 .. k - 1 : new[i] = sccs[i]
        /\ \A s : s \in new[k] <=> \E i \in k .. Len(sccs) : s \in sccs[i]
        /\ new \in Seq(SUBSET Subgoals)
    BY <2>2, <2>4, MergedAt DEF GraphInv
  <2>6. k \in 1 .. Len(sccs) /\ g \in new[k]
    BY <1>8, <2>2, <2>5
  <2> SUFFICES ASSUME NEW i \in 1 .. k, NEW s \in new[i], NEW t \in Deps(s)'
               PROVE  /\ ~Affected(t)'
                      /\ Incomplete(t)' => \E j \in 1 .. k : i <= j /\ t \in new[j]
    BY <2>3, <2>4, <2>5 DEF OrderedDeps
  <2>7. t \in Subgoals /\ s \in Subgoals
    <3>1. new \in Seq(SUBSET Subgoals) /\ i \in DOMAIN new
      BY <2>5
    <3>2. new[i] \in SUBSET Subgoals
      BY <3>1
    <3> QED BY <3>2 DEF Deps
  <2>8. CASE t = g
    BY <1>4, <1>7, <2>6, <2>7, <2>8
  <2>9. CASE t # g
    <3>1. t \in Deps(s)
      BY <1>2, <2>7, <2>9
    <3>2. PICK i0 \in DOMAIN sccs : s \in sccs[i0] /\ i <= i0
      BY <1>8, <2>5, <2>6
    <3>3. ~Affected(t)'
      BY <1>4, <2>7, <3>1, <3>2 DEF CoverInv, OrderedDeps
    <3>4. ASSUME Incomplete(t) PROVE \E j \in 1 .. k : i <= j /\ t \in new[j]
      <4>1. PICK j0 \in DOMAIN sccs : i0 <= j0 /\ t \in sccs[j0]
        BY <3>1, <3>2, <3>4 DEF CoverInv, OrderedDeps
      <4>2. CASE j0 < k
        BY <1>8, <2>5, <2>6, <3>2, <4>1, <4>2
      <4>3. CASE k <= j0
        BY <1>8, <2>5, <2>6, <4>1, <4>3
      <4> QED BY <1>8, <2>6, <4>2, <4>3
    <3> QED BY <1>4, <2>7, <3>3, <3>4
  <2> QED BY <2>8, <2>9
<1>11. OrderedDeps'
  BY <1>9, <1>10 DEF FindTable
<1> QED BY <1>6, <1>11 DEF CoverInv

(* A table that is recomputed starts with a node of its own.                  *)
LEMMA ProduceFacts ==
  ASSUME GraphInv, CoverInv, NEW p \in Callers, Runs(p), NEW g \in Subgoals, NEW use, NEW rest,
         Produce(p, g, use, rest)
  PROVE  /\ node'[Cur(g)] = NewNode /\ node'[Prev(g)].falsecount = 0
         /\ \A s \in Subgoals : s # g => node'[Cur(s)] = node[Cur(s)] /\ node'[Prev(s)] = node[Prev(s)]
         /\ \A s \in Subgoals : table'[s].state = IF s = g THEN "incomplete" ELSE table[s].state
         /\ sccs' = Append(sccs, {g}) /\ ~In(sccs, g) /\ ~Incomplete(g)
         /\ \A s \in Subgoals : s # g /\ s # p => Deps(s)' = Deps(s)
         /\ p \in Subgoals => p # g /\ Deps(p)' \subseteq Deps(p) \cup {g}
         /\ Deps(g)' = {}
         /\ Complete(g) => Affected(g)
         /\ ~Complete(g) => \A n \in Nodes : g \notin inn[n]
<1>1. /\ g \in Goals /\ Cur(g) \in Nodes /\ Prev(g) \in Nodes /\ Cur(g) # Prev(g)
      /\ ~In(sccs, g) /\ ~Incomplete(g) /\ (Complete(g) => Affected(g))
      /\ ~Complete(g) => ~node[Cur(g)].live
  <2>1. table[g].state \in {"none", "incomplete", "complete"}
    BY DEF GraphInv, GraphTyped, TableType
  <2>2. /\ node[Cur(g)].live = (table[g].state # "none")
        /\ (table[g].state = "incomplete") = In(sccs, g)
    BY DEF GraphInv, Lives
  <2>3. ~Incomplete(g) /\ (Complete(g) => Affected(g))
    BY DEF Produce
  <2> QED BY <2>1, <2>2, <2>3, NodesAreCurOrPrev DEF Complete, Incomplete, Goals, In
<1>2. /\ node'[Cur(g)] = NewNode
      /\ \A n \in Nodes : n # Cur(g) /\ n # Prev(g) => node'[n] = node[n]
      /\ ~Complete(g) => node'[Prev(g)] = node[Prev(g)]
      /\ Complete(g) => node'[Prev(g)] = [node[Cur(g)] EXCEPT !.falsecount = 0, !.deleted = TRUE]
  BY <1>1 DEF Produce, GraphInv, GraphTyped
<1>3. node'[Prev(g)].falsecount = 0
  <2>1. node[Cur(g)] \in NodeType
    BY <1>1, CountTyped
  <2>2. [node[Cur(g)] EXCEPT !.falsecount = 0, !.deleted = TRUE].falsecount = 0
    BY <2>1 DEF NodeType
  <2> QED BY <1>2, <2>2 DEF CoverInv, OldUncounted
<1>4. \A s \in Subgoals : s # g => node'[Cur(s)] = node[Cur(s)] /\ node'[Prev(s)] = node[Prev(s)]
  BY <1>2, NodesAreCurOrPrev
<1>5. \A s \in Subgoals : table'[s].state = IF s = g THEN "incomplete" ELSE table[s].state
  <2>1. [NoTable EXCEPT !.state = "incomplete", !.previous = table[g].answers].state
          = "incomplete"
    BY DEF NoTable
  <2> QED BY <2>1 DEF Produce, GraphInv, GraphTyped
<1> DEFINE i0 == IF Complete(g) THEN [inn EXCEPT ![Cur(g)] = {}, ![Prev(g)] = inn[Cur(g)]]
                 ELSE inn
<1>6. /\ AddEdge(Handover(g), i0, g, p) /\ sccs' = Append(sccs, {g})
  BY DEF Produce
<1>7. ~Complete(g) => inn[Cur(g)] = {} /\ \A n \in Nodes : g \notin inn[n]
  BY <1>1 DEF GraphInv, GraphTyped, Agree
<1>8. /\ i0 \in [Nodes -> SUBSET Goals] /\ i0[Cur(g)] = {}
      /\ \A s \in Subgoals : s # g => i0[Cur(s)] = inn[Cur(s)]
  BY <1>1, <1>7, NodesAreCurOrPrev DEF GraphInv, GraphTyped
<1> HIDE DEF i0
<1>9. p \in Subgoals => p # g
  BY <1>1, RunningIsIncomplete, TopAssumption DEF Incomplete, Goals
<1>10. /\ \A s \in Subgoals : s # p => inn'[Cur(s)] = i0[Cur(s)]
       /\ p \in Subgoals => inn'[Cur(p)] \subseteq i0[Cur(p)] \cup {g}
  BY <1>1, <1>6, <1>8, CallAddsDep
<1>11. /\ \A s \in Subgoals : s # g /\ s # p => Deps(s)' = Deps(s)
       /\ p \in Subgoals => Deps(p)' \subseteq Deps(p) \cup {g}
       /\ Deps(g)' = {}
  <2>1. g # p
    BY <1>9
  <2> QED BY <1>8, <1>9, <1>10, <2>1 DEF Deps
<1> QED BY <1>1, <1>2, <1>3, <1>4, <1>5, <1>6, <1>7, <1>9, <1>11

LEMMA ProduceCovers ==
  ASSUME GraphInv, CoverInv, NEW p \in Callers, Runs(p), NEW g \in Subgoals, NEW use, NEW rest,
         Produce(p, g, use, rest)
  PROVE  CoverInv'
<1>1. /\ node'[Cur(g)] = NewNode /\ node'[Prev(g)].falsecount = 0
      /\ \A s \in Subgoals : s # g => node'[Cur(s)] = node[Cur(s)] /\ node'[Prev(s)] = node[Prev(s)]
      /\ \A s \in Subgoals : table'[s].state = IF s = g THEN "incomplete" ELSE table[s].state
      /\ sccs' = Append(sccs, {g}) /\ ~In(sccs, g) /\ ~Incomplete(g)
      /\ \A s \in Subgoals : s # g /\ s # p => Deps(s)' = Deps(s)
      /\ p \in Subgoals => p # g /\ Deps(p)' \subseteq Deps(p) \cup {g}
      /\ Deps(g)' = {}
      /\ Complete(g) => Affected(g)
      /\ ~Complete(g) => \A n \in Nodes : g \notin inn[n]
  BY ProduceFacts
<1>2. \A s \in Subgoals : s # g =>
        /\ (Affected(s)' <=> Affected(s)) /\ (Pending(s)' <=> Pending(s))
        /\ CountOf(s)' = CountOf(s)
        /\ (Complete(s)' <=> Complete(s)) /\ (Incomplete(s)' <=> Incomplete(s))
  BY <1>1 DEF Affected, Pending, CountOf, Complete, Incomplete
<1>3. ~Affected(g)' /\ Incomplete(g)'
  BY <1>1, NewNodeFields DEF Affected, Incomplete
<1>4. ASSUME NEW s \in Subgoals, Complete(s)' PROVE Covered(s)'
  <2>1. s # g /\ Complete(s)
    BY <1>2, <1>3, <1>4 DEF Complete, Incomplete
  <2>2. p \in Subgoals => Incomplete(p)
    BY RunningIsIncomplete, TopAssumption DEF Incomplete, Goals
  <2>3. s # p
    BY <2>1, <2>2 DEF Complete, Incomplete
  <2>4. PendingDeps(s)' \subseteq PendingDeps(s)
    <3>1. g \in Deps(s) => Pending(g)
      BY <1>1, NodesAreCurOrPrev DEF Deps, Pending
    <3> QED BY <1>1, <1>2, <2>1, <2>3, <3>1 DEF PendingDeps, Deps
  <2> QED BY <1>1, <1>2, <2>1, <2>4, StaysCovered DEF CoverInv
<1>5. \A s \in Subgoals : Covered(s)' /\ Starts(s)' /\ OldUncounted(s)'
  BY <1>1, <1>2, <1>4 DEF CoverInv, Covered, Starts, OldUncounted
<1>6. OrderedDeps'
  <2> DEFINE n == Len(sccs)
  <2>1. sccs \in Seq(SUBSET Subgoals) /\ n \in Nat /\ DOMAIN sccs = 1 .. n
    BY DEF GraphInv, Stack
  <2>2. PICK new : new = sccs'
    OBVIOUS
  <2>3. DOMAIN new = 1 .. n + 1 /\ (\A i \in 1 .. n : new[i] = sccs[i]) /\ new[n + 1] = {g}
    BY <1>1, <2>1, <2>2
  <2> HIDE DEF n
  <2> SUFFICES ASSUME NEW i \in 1 .. n + 1, NEW s \in new[i], NEW t \in Deps(s)'
               PROVE  /\ ~Affected(t)'
                      /\ Incomplete(t)' => \E j \in 1 .. n + 1 : i <= j /\ t \in new[j]
    BY <2>2, <2>3 DEF OrderedDeps
  <2>4. CASE t = g
    BY <1>3, <2>1, <2>3, <2>4
  <2>5. CASE t # g
    <3>1. s # g
      BY <1>1
    <3>2. i \in 1 .. n /\ s \in sccs[i] /\ s \in Subgoals
      BY <2>1, <2>3, <3>1
    <3>3. t \in Deps(s) /\ t \in Subgoals
      BY <1>1, <2>5, <3>1, <3>2 DEF Deps
    <3>4. /\ ~Affected(t)
          /\ Incomplete(t) => \E j \in 1 .. n : i <= j /\ t \in sccs[j]
      BY <2>1, <3>2, <3>3 DEF CoverInv, OrderedDeps
    <3>5. ASSUME Incomplete(t) PROVE \E j \in 1 .. n + 1 : i <= j /\ t \in new[j]
      <4>1. PICK j \in 1 .. n : i <= j /\ t \in sccs[j]
        BY <3>4, <3>5
      <4> QED BY <2>1, <2>3, <4>1
    <3> QED BY <1>2, <2>5, <3>3, <3>4, <3>5
  <2> QED BY <2>4, <2>5
<1> QED BY <1>5, <1>6 DEF CoverInv

LEMMA ThrowCovers ==
  ASSUME GraphInv, GraphInv', CoverInv, ThrowsAnywhere = FALSE, Throw
  PROVE  CoverInv'
<1> DEFINE C == UNION Range(sccs)
           gone == {Cur(s) : s \in C}
<1>1. /\ \A s \in C : ~node[Prev(s)].live
      /\ table' = [s \in Subgoals |-> IF s \in C THEN NoTable ELSE table[s]]
      /\ node' = [n \in Nodes |-> IF n \in gone THEN NoNode ELSE node[n]]
      /\ inn' = [n \in Nodes |-> IF n \in gone THEN {} ELSE inn[n] \ C]
      /\ sccs' = <<>>
  BY DEF Throw
<1>2. \A s \in Subgoals : Cur(s) \in Nodes /\ Prev(s) \in Nodes /\ Prev(s) \notin gone
                          /\ (Cur(s) \in gone <=> s \in C)
  BY NodesAreCurOrPrev
<1> HIDE DEF C, gone
<1>3. \A s \in Subgoals : /\ node'[Prev(s)] = node[Prev(s)]
                          /\ s \notin C => node'[Cur(s)] = node[Cur(s)]
                          /\ s \notin C => Deps(s)' = Deps(s) \ C
  BY <1>1, <1>2 DEF Deps
<1>4. Quiet'
  BY <1>1, IdleIsQuietNext
<1>5. \A s \in Subgoals : Complete(s)' => Complete(s) /\ s \notin C
  BY <1>1 DEF Complete, NoTable
<1>6. ASSUME NEW s \in Subgoals, Complete(s)' PROVE Covered(s)'
  <2>1. s \notin C /\ Complete(s)
    BY <1>5, <1>6
  <2>2. PendingDeps(s)' \subseteq PendingDeps(s)
    BY <1>3, <2>1 DEF PendingDeps, Deps, Pending, Affected
  <2> QED BY <1>3, <2>1, <2>2, StaysCovered DEF CoverInv, CountOf
<1>7. \A s \in Subgoals : Covered(s)' /\ Starts(s)' /\ OldUncounted(s)'
  BY <1>3, <1>4, <1>6 DEF CoverInv, Covered, Starts, OldUncounted, Quiet
<1>8. OrderedDeps'
  BY <1>1 DEF OrderedDeps
<1> QED BY <1>7, <1>8 DEF CoverInv

(* What propagate_no_change takes out of the counts: the nodes that come to   *)
(* zero are those whose whole count stands for unchanged tables.              *)
Sources(u, V) == u \cup {n[1] : n \in V}
Valid(u, V) ==
  /\ V \subseteq Nodes
  /\ \A n \in Nodes :
       n \in V <=> /\ node[n].falsecount > 0
                   /\ node[n].falsecount <= Cardinality(Edges(Sources(u, V), n))
Least(u, V) ==
  \A S \in SUBSET Nodes :
    (\A n \in Nodes : /\ node[n].falsecount > 0
                      /\ node[n].falsecount <= Cardinality(Edges(Sources(u, S), n))
                      => n \in S)
    => V \subseteq S
Uncounted(nd, u, V) ==
  nd = [n \in Nodes |->
          IF n \in V THEN [node[n] EXCEPT !.falsecount = 0, !.deleted = FALSE, !.direct = FALSE]
          ELSE IF node[n].falsecount > 0
            THEN [node[n] EXCEPT !.falsecount = @ - Cardinality(Edges(Sources(u, V), n))]
            ELSE node[n]]

LEMMA MoreSources ==
  ASSUME GraphInv, NEW u \in SUBSET Subgoals, NEW S \in SUBSET Nodes, NEW T \in SUBSET S,
         NEW n \in Nodes, node[n].falsecount <= Cardinality(Edges(Sources(u, T), n))
  PROVE  node[n].falsecount <= Cardinality(Edges(Sources(u, S), n))
<1>1. Sources(u, S) \subseteq Goals /\ Sources(u, T) \subseteq Sources(u, S)
  BY DEF Sources, Nodes, Goals
<1>2. /\ Edges(Sources(u, T), n) \subseteq Edges(Sources(u, S), n)
      /\ Edges(Sources(u, S), n) \subseteq Goals
  BY <1>1 DEF Edges
<1>3. /\ Cardinality(Edges(Sources(u, T), n)) <= Cardinality(Edges(Sources(u, S), n))
      /\ Cardinality(Edges(Sources(u, T), n)) \in Nat
      /\ Cardinality(Edges(Sources(u, S), n)) \in Nat
  BY <1>2, Smaller
<1>4. node[n].falsecount \in Nat
  BY CountTyped
<1> QED BY <1>3, <1>4

LEMMA Propagation ==
  ASSUME GraphInv, NEW u \in SUBSET Subgoals
  PROVE  \E V : Valid(u, V) /\ Least(u, V) /\ Uncounted(NoChange(u), u, V)
<1> DEFINE Step(S) == {n \in Nodes : /\ node[n].falsecount > 0
                                     /\ node[n].falsecount <= Cardinality(Edges(Sources(u, S), n))}
           closed == {S \in SUBSET Nodes : {} \cup Step(S) \subseteq S}
           valid == {x \in Nodes : \A S \in closed : x \in S}
<1>1. \A S \in SUBSET Nodes : \A T \in SUBSET S : Step(T) \subseteq Step(S)
  BY MoreSources
<1>2. \A S \in closed : S \in SUBSET Nodes /\ valid \in SUBSET S
  OBVIOUS
<1>3. Step(valid) \subseteq valid
  <2>1. \A S \in closed : Step(valid) \subseteq S
    <3> TAKE S \in closed
    <3>1. Step(valid) \subseteq Step(S)
      <4> HIDE DEF valid, closed, Step
      <4> QED BY <1>1, <1>2
    <3> QED BY <3>1
  <2>2. Step(valid) \subseteq Nodes
    OBVIOUS
  <2> HIDE DEF Step, closed
  <2> QED BY <2>1, <2>2
<1>4. Step(valid) \in closed
  <2>1. valid \in SUBSET Nodes /\ Step(valid) \in SUBSET valid
    BY <1>3
  <2>2. Step(Step(valid)) \subseteq Step(valid)
    <3> HIDE DEF Step, valid
    <3> QED BY <1>1, <2>1
  <2>3. Step(valid) \subseteq Nodes
    OBVIOUS
  <2> HIDE DEF Step, valid
  <2> QED BY <2>2, <2>3
<1>5. valid \subseteq Step(valid)
  <2> HIDE DEF Step, valid, closed
  <2> QED BY <1>2, <1>4
<1>6. Valid(u, valid)
  <2>1. \A n \in Nodes : n \in valid <=> n \in Step(valid)
    <3> HIDE DEF Step, valid
    <3> QED BY <1>3, <1>5
  <2>2. valid \subseteq Nodes
    OBVIOUS
  <2> HIDE DEF valid
  <2> QED BY <2>1, <2>2 DEF Valid
<1>7. Uncounted(NoChange(u), u, valid)
  BY DEF NoChange, Closure, Uncounted, Sources
<1>8. Least(u, valid)
  <2> SUFFICES ASSUME NEW S \in SUBSET Nodes,
                      \A n \in Nodes :
                        /\ node[n].falsecount > 0
                        /\ node[n].falsecount <= Cardinality(Edges(Sources(u, S), n))
                        => n \in S
               PROVE  valid \subseteq S
    BY DEF Least
  <2>1. S \in closed
    OBVIOUS
  <2> HIDE DEF closed, valid
  <2> QED BY <1>2, <2>1
<1> HIDE DEF valid
<1> QED BY <1>6, <1>7, <1>8

LeftOf(nd, u, V, n) ==
  /\ n \in V => /\ nd[n].falsecount = 0 /\ nd[n].deleted = FALSE /\ nd[n].direct = FALSE
                /\ node[n].falsecount > 0
                /\ node[n].falsecount <= Cardinality(Edges(Sources(u, V), n))
  /\ n \notin V /\ node[n].falsecount > 0 =>
       /\ nd[n].falsecount = node[n].falsecount - Cardinality(Edges(Sources(u, V), n))
       /\ nd[n].falsecount > 0 /\ nd[n].deleted = node[n].deleted
       /\ nd[n].direct = node[n].direct
  /\ node[n].falsecount = 0 => n \notin V /\ nd[n] = node[n]

LEMMA UncountedFields ==
  ASSUME GraphInv, NEW u \in SUBSET Subgoals, NEW V, Valid(u, V), NEW nd, Uncounted(nd, u, V),
         NEW n \in Nodes
  PROVE  LeftOf(nd, u, V, n)
<1> DEFINE e == Cardinality(Edges(Sources(u, V), n))
           left == node[n].falsecount - e
<1>1. Sources(u, V) \subseteq Goals /\ e \in Nat
  <2>1. Sources(u, V) \subseteq Goals
    BY DEF Sources, Nodes, Goals, Valid
  <2> QED BY <2>1, EdgesCounted
<1>2. node[n] \in NodeType /\ node[n].falsecount \in Nat
  BY CountTyped
<1>3. n \in V <=> node[n].falsecount > 0 /\ node[n].falsecount <= e
  BY DEF Valid
<1>4. nd[n] = IF n \in V THEN [node[n] EXCEPT !.falsecount = 0, !.deleted = FALSE,
                                              !.direct = FALSE]
              ELSE IF node[n].falsecount > 0 THEN [node[n] EXCEPT !.falsecount = left]
              ELSE node[n]
  BY DEF Uncounted
<1> HIDE DEF e, left
<1>5. n \in V => nd[n].falsecount = 0 /\ nd[n].deleted = FALSE /\ nd[n].direct = FALSE
  BY <1>2, <1>4 DEF NodeType
<1>6. n \notin V /\ node[n].falsecount > 0 =>
         /\ nd[n].falsecount = left /\ nd[n].deleted = node[n].deleted
         /\ nd[n].direct = node[n].direct
  BY <1>2, <1>4 DEF NodeType
<1>7. node[n].falsecount = 0 => n \notin V /\ nd[n] = node[n]
  BY <1>3, <1>4
<1>8. n \notin V /\ node[n].falsecount > 0 => left = node[n].falsecount - e /\ left > 0
  BY <1>1, <1>2, <1>3 DEF left
<1> QED BY <1>1, <1>3, <1>5, <1>6, <1>7, <1>8 DEF e, LeftOf

(* A part that leaves a set takes its own size with it.                       *)
LEMMA PartGone ==
  ASSUME NEW A, NEW B, NEW E, B \subseteq Goals, E \subseteq B, A \subseteq B \ E
  PROVE  /\ Cardinality(A) \in Nat /\ Cardinality(B) \in Nat /\ Cardinality(E) \in Nat
         /\ Cardinality(A) + Cardinality(E) <= Cardinality(B)
<1>1. /\ Cardinality(A) \in Nat /\ Cardinality(B) \in Nat /\ Cardinality(E) \in Nat
      /\ IsFiniteSet(A) /\ IsFiniteSet(E)
  BY Smaller
<1>2. A \cup E \subseteq B /\ A \cap E = {}
  OBVIOUS
<1>3. Cardinality(A \cup E) <= Cardinality(B)
  BY <1>2, Smaller
<1>4. Cardinality(A \cup E) = Cardinality(A) + Cardinality(E) - Cardinality(A \cap E)
  BY <1>1, FS_Union
<1>5. Cardinality(A \cap E) = 0
  BY <1>2, FS_EmptySet
<1> DEFINE a == Cardinality(A)
           b == Cardinality(B)
           e == Cardinality(E)
           u == Cardinality(A \cup E)
<1>6. a \in Nat /\ b \in Nat /\ e \in Nat /\ u <= b /\ u = a + e - 0
  BY <1>1, <1>3, <1>4, <1>5
<1> HIDE DEF a, b, e, u
<1>7. a + e <= b
  BY <1>6
<1> QED BY <1>1, <1>7 DEF a, b, e

(* The completion of the tables of C: those of u are unchanged, and nd is what*)
(* their propagation leaves of the counts.                                    *)
SccDone(C, u, V, nd) ==
  /\ u \in SUBSET C /\ C \subseteq Subgoals /\ \A s \in C : Incomplete(s)
  /\ Valid(u, V) /\ Least(u, V) /\ Uncounted(nd, u, V)
  /\ \A s \in C : s \in u <=> /\ node[Prev(s)].live /\ ~table[s].changed
                              /\ table[s].previous = {}
  /\ \A s \in Subgoals : /\ node'[Cur(s)] = nd[Cur(s)]
                         /\ node'[Prev(s)] = IF s \in C THEN NoNode ELSE nd[Prev(s)]
                         /\ inn'[Cur(s)] = inn[Cur(s)] /\ Deps(s)' = Deps(s)
  /\ \A s \in Subgoals : /\ table'[s].state = IF s \in C THEN "complete" ELSE table[s].state
                         /\ table'[s].answers = table[s].answers
                         /\ s \notin C => table'[s] = table[s]

LEMMA CompleteSccFacts ==
  ASSUME GraphInv, CoverInv, CompleteScc
  PROVE  \E u, V, nd : SccDone(Last(sccs), u, V, nd)
<1> DEFINE C == Last(sccs)
           u0 == {s \in C : node[Prev(s)].live /\ ~table[s].changed /\ table[s].previous = {}}
           counted == NoChange(u0)
           old == Replaced(C)
<1>1. /\ table' = [s \in Subgoals |->
           IF s \in C THEN [NoTable EXCEPT !.state = "complete", !.answers = table[s].answers]
           ELSE table[s]]
      /\ node' = [n \in Nodes |-> IF n \in old THEN NoNode ELSE counted[n]]
      /\ inn' = [n \in Nodes |-> IF n \in old THEN {} ELSE inn[n]]
      /\ sccs # <<>>
  BY DEF CompleteScc
<1>2. C \subseteq Subgoals /\ \A s \in C : In(sccs, s)
  BY <1>1, StackPop DEF GraphInv
<1>11. \A s \in C : Incomplete(s)
  BY <1>2 DEF GraphInv, Lives, Incomplete, In
<1>3. \A s \in Subgoals : /\ Cur(s) \in Nodes /\ Prev(s) \in Nodes
                          /\ Cur(s) \notin old /\ (Prev(s) \in old <=> s \in C)
  BY <1>2, NodesAreCurOrPrev DEF Replaced
<1>4. u0 \in SUBSET C /\ u0 \in SUBSET Subgoals
      /\ \A s \in C : s \in u0 <=> /\ node[Prev(s)].live /\ ~table[s].changed
                                   /\ table[s].previous = {}
  BY <1>2
<1>5. PICK u : u = u0
  OBVIOUS
<1>6. PICK nd : nd = counted
  OBVIOUS
<1> HIDE DEF u0, old
<1>7. nd = NoChange(u) /\ u \in SUBSET C /\ u \in SUBSET Subgoals
      /\ \A s \in C : s \in u <=> /\ node[Prev(s)].live /\ ~table[s].changed
                                  /\ table[s].previous = {}
  BY <1>4, <1>5, <1>6
<1>8. PICK V : Valid(u, V) /\ Least(u, V) /\ Uncounted(nd, u, V)
  BY <1>7, Propagation
<1> HIDE DEF C, counted
<1>9. \A s \in Subgoals : /\ node'[Cur(s)] = nd[Cur(s)]
                          /\ node'[Prev(s)] = IF s \in C THEN NoNode ELSE nd[Prev(s)]
                          /\ inn'[Cur(s)] = inn[Cur(s)] /\ Deps(s)' = Deps(s)
  BY <1>1, <1>3, <1>6 DEF Deps
<1>10. \A s \in Subgoals : /\ table'[s].state = IF s \in C THEN "complete" ELSE table[s].state
                           /\ table'[s].answers = table[s].answers
                           /\ s \notin C => table'[s] = table[s]
  BY <1>1 DEF NoTable
<1>12. SccDone(C, u, V, nd)
  BY <1>2, <1>7, <1>8, <1>9, <1>10, <1>11 DEF SccDone
<1> QED BY <1>12 DEF C

(* What the sources of the propagation were waiting for or re-evaluating is   *)
(* settled by the step, and no table waits for them any more.                 *)
SccLeaves(C, u, V, nd, s) ==
  /\ Incomplete(s)' <=> Incomplete(s) /\ s \notin C
  /\ Complete(s)' => Complete(s) \/ s \in C
  /\ Complete(s) => s \notin C
  /\ CountOf(s) = 0 => nd[Cur(s)] = node[Cur(s)]
  /\ CountOf(s) \in Nat /\ nd[Prev(s)] = node[Prev(s)] /\ Prev(s) \notin V
  /\ LeftOf(nd, u, V, Cur(s))
  /\ Affected(s)' => Affected(s)
  /\ node'[Prev(s)].live => node[Prev(s)].live /\ s \notin C
  /\ Incomplete(s) => CountOf(s) = 0 /\ ~Affected(s)
  /\ Edges(Sources(u, V), Cur(s)) \subseteq PendingDeps(s)
  /\ PendingDeps(s)' \subseteq PendingDeps(s) \ Edges(Sources(u, V), Cur(s))

LEMMA SccPending ==
  ASSUME GraphInv, CoverInv, NEW C, NEW u, NEW V, NEW nd, SccDone(C, u, V, nd)
  PROVE  /\ \A s \in Subgoals : SccLeaves(C, u, V, nd, s)
         /\ \A s \in Sources(u, V) : s \in Subgoals /\ Pending(s) /\ ~Pending(s)'
<1>3. /\ u \in SUBSET C /\ Valid(u, V) /\ Uncounted(nd, u, V) /\ C \subseteq Subgoals
      /\ \A s \in u : node[Prev(s)].live
      /\ \A s \in Subgoals : /\ node'[Cur(s)] = nd[Cur(s)]
                             /\ node'[Prev(s)] = IF s \in C THEN NoNode ELSE nd[Prev(s)]
                             /\ Deps(s)' = Deps(s)
      /\ \A s \in Subgoals :
           table'[s].state = IF s \in C THEN "complete" ELSE table[s].state
  BY DEF SccDone
<1>4. u \in SUBSET Subgoals
  BY <1>3
<1>5. \A s \in C : Incomplete(s)
  BY DEF SccDone
<1>6. ASSUME NEW s \in Subgoals
      PROVE  /\ Incomplete(s)' <=> Incomplete(s) /\ s \notin C
             /\ Complete(s)' => Complete(s) \/ s \in C
             /\ Complete(s) => s \notin C
  BY <1>3, <1>5 DEF Incomplete, Complete
<1>17. \A m \in Nodes : LeftOf(nd, u, V, m)
  BY <1>3, <1>4, UncountedFields
<1>7. ASSUME NEW s \in Subgoals
      PROVE  /\ CountOf(s) = 0 => nd[Cur(s)] = node[Cur(s)]
             /\ nd[Prev(s)] = node[Prev(s)] /\ Prev(s) \notin V
             /\ CountOf(s) \in Nat /\ Cur(s) \in Nodes /\ Prev(s) \in Nodes
             /\ LeftOf(nd, u, V, Cur(s))
  <2>1. Cur(s) \in Nodes /\ Prev(s) \in Nodes
    BY NodesAreCurOrPrev
  <2>2. LeftOf(nd, u, V, Cur(s)) /\ LeftOf(nd, u, V, Prev(s))
    BY <1>17, <2>1
  <2>3. CountOf(s) \in Nat
    BY <2>1, CountTyped DEF CountOf
  <2>4. node[Prev(s)].falsecount = 0
    BY DEF CoverInv, OldUncounted
  <2> QED BY <2>1, <2>2, <2>3, <2>4 DEF LeftOf, CountOf
<1>8. ASSUME NEW s \in Subgoals PROVE Affected(s)' => Affected(s)
  BY <1>3, <1>7 DEF Affected, CountOf
<1>9. ASSUME NEW s \in Subgoals
      PROVE  node'[Prev(s)].live => node[Prev(s)].live /\ s \notin C
  BY <1>3, <1>7, NewNodeTyped
<1>10. ASSUME NEW s \in Subgoals PROVE Incomplete(s) => CountOf(s) = 0 /\ ~Affected(s)
  BY NewNodeFields DEF CoverInv, Starts, Affected, CountOf
<1>11. ASSUME NEW s \in Sources(u, V)
       PROVE  s \in Subgoals /\ Pending(s) /\ ~Pending(s)'
  <2>1. CASE s \in u
    <3>1. s \in C /\ s \in Subgoals /\ node[Prev(s)].live
      BY <1>3, <2>1
    <3>2. ~Affected(s)
      BY <1>5, <1>10, <3>1
    <3> QED BY <1>8, <1>9, <3>1, <3>2 DEF Pending
  <2>2. CASE s \notin u
    <3>1. PICK m \in V : s = m[1]
      BY <2>2 DEF Sources
    <3>2. m \in Nodes
      BY <1>3, <3>1 DEF Valid
    <3>3. s \in Subgoals /\ (m = Cur(s) \/ m = Prev(s))
      BY <3>1, <3>2 DEF Nodes, Cur, Prev
    <3>4. m = Cur(s)
      BY <1>7, <3>1, <3>3
    <3>5. CountOf(s) > 0 /\ nd[Cur(s)].falsecount = 0
      BY <1>7, <3>1, <3>3, <3>4 DEF LeftOf, CountOf
    <3>6. Affected(s) /\ ~Affected(s)'
      BY <1>3, <1>7, <3>3, <3>5 DEF Affected, CountOf
    <3>7. ~node[Prev(s)].live
      BY <1>10, <3>3, <3>6 DEF GraphInv, Lives, Incomplete
    <3> QED BY <1>9, <3>3, <3>6, <3>7 DEF Pending
  <2> QED BY <2>1, <2>2
<1>12. ASSUME NEW s \in Subgoals
       PROVE  /\ Edges(Sources(u, V), Cur(s)) \subseteq PendingDeps(s)
              /\ PendingDeps(s)' \subseteq PendingDeps(s) \ Edges(Sources(u, V), Cur(s))
  <2>1. ASSUME NEW t \in Edges(Sources(u, V), Cur(s)) PROVE t \in PendingDeps(s)
    <3>1. t \in Sources(u, V) /\ Cur(s) \in out[t]
      BY DEF Edges
    <3>2. t \in Subgoals /\ Pending(t) /\ t \in Goals
      BY <1>11, <3>1 DEF Goals
    <3>3. t \in inn[Cur(s)]
      BY <1>7, <3>1, <3>2 DEF GraphInv, Agree
    <3> QED BY <3>2, <3>3 DEF PendingDeps, Deps
  <2>2. ASSUME NEW t \in PendingDeps(s)'
        PROVE  t \in PendingDeps(s) /\ t \notin Edges(Sources(u, V), Cur(s))
    <3>1. t \in Deps(s) /\ Pending(t)' /\ t \in Subgoals
      BY <1>3 DEF PendingDeps, Deps
    <3>2. Pending(t)
      BY <1>8, <1>9, <3>1 DEF Pending
    <3>3. t \notin Sources(u, V)
      BY <1>11, <3>1
    <3> QED BY <3>1, <3>2, <3>3 DEF PendingDeps, Edges
  <2> QED BY <2>1, <2>2
<1>13. ASSUME NEW s \in Subgoals PROVE SccLeaves(C, u, V, nd, s)
  BY <1>6, <1>7, <1>8, <1>9, <1>10, <1>12 DEF SccLeaves
<1> QED BY <1>11, <1>13

LEMMA CompleteSccCovers ==
  ASSUME GraphInv, CoverInv, CompleteScc
  PROVE  CoverInv'
<1> DEFINE n == Len(sccs)
<1>1. PICK C : C = Last(sccs)
  OBVIOUS
<1>2. /\ sccs # <<>> /\ sccs' = Front(sccs)
      /\ sccs \in Seq(SUBSET Subgoals) /\ n \in Nat \ {0} /\ DOMAIN sccs = 1 .. n
      /\ C = sccs[n] /\ C \subseteq Subgoals
      /\ DOMAIN sccs' = 1 .. n - 1 /\ \A i \in 1 .. n - 1 : sccs'[i] = sccs[i]
      /\ \A s : In(sccs', s) <=> In(sccs, s) /\ s \notin C
      /\ \A s \in C : In(sccs, s)
  <2>1. sccs # <<>> /\ sccs' = Front(sccs)
    BY DEF CompleteScc
  <2>2. sccs \in Seq(SUBSET Subgoals) /\ n \in Nat \ {0} /\ DOMAIN sccs = 1 .. n
    BY <2>1 DEF GraphInv, Stack
  <2>3. C = sccs[n]
    BY <1>1, <2>2 DEF Last
  <2>4. DOMAIN sccs' = 1 .. n - 1 /\ \A i \in 1 .. n - 1 : sccs'[i] = sccs[i]
    BY <2>1, <2>2 DEF Front
  <2>5. C \subseteq Subgoals /\ (\A s : In(sccs', s) <=> In(sccs, s) /\ s \notin C)
        /\ \A s \in C : In(sccs, s)
    BY <1>1, <2>1, StackPop DEF GraphInv
  <2> QED BY <2>1, <2>2, <2>3, <2>4, <2>5
<1> HIDE DEF n
<1>3. PICK u, V, nd : SccDone(C, u, V, nd)
  BY <1>1, CompleteSccFacts
<1>4. /\ \A s \in Subgoals : /\ node'[Cur(s)] = nd[Cur(s)]
                             /\ node'[Prev(s)] = IF s \in C THEN NoNode ELSE nd[Prev(s)]
                             /\ Deps(s)' = Deps(s)
      /\ \A s \in C : Incomplete(s)
  BY <1>3 DEF SccDone
<1>6. ASSUME NEW s \in Subgoals PROVE SccLeaves(C, u, V, nd, s)
  BY <1>3, SccPending
<1>7. ASSUME NEW s \in Subgoals
      PROVE  /\ Incomplete(s)' <=> Incomplete(s) /\ s \notin C
             /\ Complete(s)' => Complete(s) \/ s \in C
             /\ Complete(s) => s \notin C
             /\ CountOf(s) = 0 => nd[Cur(s)] = node[Cur(s)]
             /\ CountOf(s) \in Nat /\ nd[Prev(s)] = node[Prev(s)]
             /\ Affected(s)' => Affected(s)
             /\ node'[Prev(s)].live => node[Prev(s)].live /\ s \notin C
             /\ Incomplete(s) => CountOf(s) = 0 /\ ~Affected(s)
  BY <1>6 DEF SccLeaves
<1>12. ASSUME NEW s \in Subgoals, Complete(s) PROVE Covered(s)'
  <2>1. PICK e : e = Edges(Sources(u, V), Cur(s))
    OBVIOUS
  <2>2. PICK pd : pd = PendingDeps(s)'
    OBVIOUS
  <2>3. /\ e \subseteq PendingDeps(s) /\ PendingDeps(s) \subseteq Goals
        /\ pd \subseteq PendingDeps(s) \ e
    BY <1>6, <2>1, <2>2 DEF SccLeaves, PendingDeps, Deps, Goals
  <2>5. /\ Cardinality(pd) \in Nat /\ Cardinality(PendingDeps(s)) \in Nat /\ Cardinality(e) \in Nat
        /\ Cardinality(pd) + Cardinality(e) <= Cardinality(PendingDeps(s))
    BY <2>3, PartGone
  <2>6. /\ CountOf(s) >= Cardinality(PendingDeps(s)) /\ CountOf(s) \in Nat
        /\ node[Cur(s)].deleted <=> CountOf(s) > 0
        /\ node[Cur(s)].direct => CountOf(s) > 0
    BY <1>7, <1>12 DEF CoverInv, Covered
  <2>7. /\ Cur(s) \in V => /\ nd[Cur(s)].falsecount = 0 /\ nd[Cur(s)].deleted = FALSE
                           /\ nd[Cur(s)].direct = FALSE /\ CountOf(s) <= Cardinality(e)
        /\ Cur(s) \notin V /\ CountOf(s) > 0 =>
             /\ nd[Cur(s)].falsecount = CountOf(s) - Cardinality(e)
             /\ nd[Cur(s)].falsecount > 0 /\ nd[Cur(s)].deleted = node[Cur(s)].deleted
             /\ nd[Cur(s)].direct = node[Cur(s)].direct
        /\ CountOf(s) = 0 => Cur(s) \notin V /\ nd[Cur(s)] = node[Cur(s)]
    BY <1>6, <2>1 DEF SccLeaves, LeftOf, CountOf
  <2>8. nd[Cur(s)].falsecount >= Cardinality(pd)
    <3>1. CASE Cur(s) \in V
      BY <2>5, <2>6, <2>7, <3>1
    <3>2. CASE Cur(s) \notin V /\ CountOf(s) > 0
      BY <2>5, <2>6, <2>7, <3>2
    <3>3. CASE CountOf(s) = 0
      <4>1. nd[Cur(s)].falsecount = CountOf(s)
        BY <2>7, <3>3 DEF CountOf
      <4> QED BY <2>5, <2>6, <3>3, <4>1
    <3> QED BY <2>6, <2>7, <3>1, <3>2, <3>3
  <2>9. /\ nd[Cur(s)].deleted <=> nd[Cur(s)].falsecount > 0
        /\ nd[Cur(s)].direct => nd[Cur(s)].falsecount > 0
    <3>1. CASE CountOf(s) = 0
      BY <2>6, <2>7, <3>1 DEF CountOf
    <3>2. CASE CountOf(s) > 0
      BY <2>6, <2>7, <3>2
    <3> QED BY <2>6, <3>1, <3>2
  <2> QED BY <1>4, <2>2, <2>8, <2>9 DEF Covered, CountOf
<1>13. ASSUME NEW s \in C PROVE Covered(s)'
  <2>1. s \in Subgoals /\ node[Cur(s)] = NewNode /\ CountOf(s) = 0
    BY <1>2, <1>4, <1>7 DEF CoverInv, Starts
  <2>2. node'[Cur(s)] = NewNode
    BY <1>4, <1>7, <2>1
  <2>3. PendingDeps(s)' = {}
    <3> SUFFICES ASSUME NEW t \in Subgoals, t \in Deps(s), Pending(t)' PROVE FALSE
      BY <1>4, <2>1 DEF PendingDeps, Deps
    <3>1. /\ ~Affected(t)
          /\ Incomplete(t) => \E j \in DOMAIN sccs : n <= j /\ t \in sccs[j]
      BY <1>2 DEF CoverInv, OrderedDeps
    <3>2. Incomplete(t) => t \in C
      BY <1>2, <3>1
    <3>3. node[Prev(t)].live /\ t \notin C
      BY <1>7, <3>1 DEF Pending
    <3> QED BY <3>2, <3>3 DEF GraphInv, Lives, Incomplete
  <2>4. Cardinality(PendingDeps(s)') = 0
    BY <2>3, FS_EmptySet
  <2> QED BY <2>2, <2>4, NewNodeFields DEF Covered, CountOf
<1>14. \A s \in Subgoals : Covered(s)'
  BY <1>7, <1>12, <1>13 DEF Covered
<1>15. ASSUME NEW s \in Subgoals PROVE Starts(s)' /\ OldUncounted(s)'
  <2>1. Starts(s)'
    BY <1>4, <1>7 DEF CoverInv, Starts
  <2>2. OldUncounted(s)'
    BY <1>4, <1>7, NewNodeFields DEF CoverInv, OldUncounted
  <2> QED BY <2>1, <2>2
<1>16. OrderedDeps'
  <2> SUFFICES ASSUME NEW i \in 1 .. n - 1, NEW s \in sccs[i], NEW t \in Deps(s)'
               PROVE  /\ ~Affected(t)'
                      /\ Incomplete(t)' => \E j \in 1 .. n - 1 : i <= j /\ t \in sccs[j]
    BY <1>2 DEF OrderedDeps
  <2>1. i \in DOMAIN sccs /\ s \in Subgoals
    BY <1>2
  <2>2. t \in Deps(s) /\ t \in Subgoals
    BY <1>4, <2>1 DEF Deps
  <2>3. /\ ~Affected(t)
        /\ Incomplete(t) => \E j \in DOMAIN sccs : i <= j /\ t \in sccs[j]
    BY <2>1, <2>2 DEF CoverInv, OrderedDeps
  <2>4. ASSUME Incomplete(t)' PROVE \E j \in 1 .. n - 1 : i <= j /\ t \in sccs[j]
    <3>1. Incomplete(t) /\ t \notin C
      BY <1>7, <2>2, <2>4
    <3>2. PICK j \in DOMAIN sccs : i <= j /\ t \in sccs[j]
      BY <2>3, <3>1
    <3>3. j # n
      BY <1>2, <3>1, <3>2
    <3> QED BY <1>2, <3>2, <3>3
  <2> QED BY <1>7, <2>2, <2>3, <2>4
<1> QED BY <1>14, <1>15, <1>16 DEF CoverInv

LEMMA PlainStepsCover ==
  ASSUME GraphInv, GraphInv', CoverInv, UNCHANGED <<node, inn, sccs>>,
         \/ UNCHANGED table
         \/ \E s \in Subgoals, a \in Answers : NewAnswer(s, a)
         \/ \E s, v : table' = [table EXCEPT ![s].visitors = v]
  PROVE  CoverInv'
<1>1. \A s \in Subgoals : table'[s].state = table[s].state
  <2>1. CASE \E s \in Subgoals, a \in Answers : NewAnswer(s, a)
    <3>1. PICK s \in Subgoals, a \in Answers : NewAnswer(s, a)
      BY <2>1
    <3> DEFINE tb == [table[s] EXCEPT !.answers = @ \cup {a}, !.previous = @ \ {a},
                                      !.changed = @ \/ a \notin table[s].previous]
    <3>2. table' = [table EXCEPT ![s] = tb] /\ table[s] \in TableType
      BY <3>1 DEF NewAnswer, GraphInv, GraphTyped
    <3>3. tb.state = table[s].state
      BY <3>2 DEF TableType
    <3> HIDE DEF tb
    <3> QED BY <3>2, <3>3 DEF GraphInv, GraphTyped
  <2>2. CASE \E s, v : table' = [table EXCEPT ![s].visitors = v]
    BY <2>2 DEF GraphInv, GraphTyped, TableType
  <2> QED BY <2>1, <2>2
<1>2. SameStates
  BY <1>1 DEF SameStates, GraphInv, GraphTyped
<1> QED BY <1>2, CoverKept DEF Deps

LEMMA CallTableCovers ==
  ASSUME GraphInv, CoverInv, NEW p \in Callers, Runs(p), NEW g \in Subgoals, NEW use, NEW rest,
         CallTable(p, g, use, rest)
  PROVE  CoverInv'
BY FindTableCovers, ReevaluateCovers, ProduceCovers DEF CallTable

LEMMA LazyCallCovers ==
  ASSUME GraphInv, GraphInv', CoverInv, NEW p \in Callers, LazyCall(p)
  PROVE  CoverInv'
<1> DEFINE item == Head(lazy[p])
<1>1. Runs(p) /\ item \in ItemType
  BY ItemsLeft DEF LazyCall
<1>2. item.sub \in Subgoals
  BY <1>1 DEF ItemType
<1>3. CASE UNCHANGED <<table, node, inn, sccs>>
  BY <1>3, PlainStepsCover
<1>4. CASE CallTable(p, item.sub, item.use, Tail(lazy[p]))
  <2> HIDE DEF item
  <2> QED BY <1>1, <1>2, <1>4, CallTableCovers
<1> QED BY <1>3, <1>4 DEF LazyCall

LEMMA NextCovers ==
  ASSUME GraphInv, GraphInv', CoverInv, CountsLow, ThrowsAnywhere = FALSE, [Next]_vars
  PROVE  CoverInv'
<1>1. CASE \E s \in Subgoals, g \in Goals : CallGoal(s, g)
  <2>1. PICK s \in Subgoals, g \in Goals : CallGoal(s, g)
    BY <1>1
  <2>2. s \in Callers /\ Runs(s)
    BY <2>1 DEF CallGoal, Callers
  <2> QED BY <2>1, <2>2, CallLeafCovers, CallTableCovers DEF CallGoal
<1>2. CASE \E s \in Subgoals, a \in Answers : NewAnswer(s, a)
  BY <1>2, PlainStepsCover DEF NewAnswer, evalVars
<1>3. CASE \E p \in Callers : LazyCall(p)
  BY <1>3, LazyCallCovers
<1>4. CASE CompleteScc
  BY <1>4, CompleteSccCovers
<1>5. CASE Return
  <2>1. UNCHANGED <<node, inn, sccs>>
    BY <1>5 DEF Return
  <2>2. UNCHANGED table \/ \E s, v : table' = [table EXCEPT ![s].visitors = v]
    BY <1>5 DEF Return
  <2> QED BY <2>1, <2>2, PlainStepsCover
<1>6. CASE Resume \/ Close
  <2>1. UNCHANGED <<node, inn, sccs>>
    BY <1>6 DEF Resume, Close, evalVars
  <2>2. UNCHANGED table \/ \E s, v : table' = [table EXCEPT ![s].visitors = v]
    BY <1>6 DEF Resume, Close, Unvisited
  <2> QED BY <2>1, <2>2, PlainStepsCover
<1>7. CASE \E s \in Subgoals : Query(s) \/ Invalidate(s) \/ Abolish(s)
  <2>1. PICK s \in Subgoals : Query(s) \/ Invalidate(s) \/ Abolish(s)
    BY <1>7
  <2>2. s \in Goals
    BY DEF Goals
  <2>3. CASE Query(s)
    BY <2>3, PlainStepsCover DEF Query
  <2> QED BY <2>1, <2>2, <2>3, IdleStepsCover
<1>8. CASE \E l \in Leaves, f \in SUBSET Answers : Update(l, f)
  <2>1. PICK l \in Leaves : \E f \in SUBSET Answers : Update(l, f)
    BY <1>8
  <2>2. l \in Goals
    BY DEF Goals
  <2> QED BY <2>1, <2>2, IdleStepsCover
<1>9. CASE Throw
  BY <1>9, ThrowCovers
<1>10. CASE UNCHANGED vars
  BY <1>10, PlainStepsCover DEF vars, evalVars
<1> QED BY <1>1, <1>2, <1>3, <1>4, <1>5, <1>6, <1>7, <1>8, <1>9, <1>10 DEF Next, Engine

LEMMA CoverHolds == Init => CoverInv
<1> SUFFICES ASSUME Init PROVE CoverInv
  OBVIOUS
<1>1. \A s \in Subgoals : table[s].state = "none" /\ node[Prev(s)] = NoNode
  BY NodesAreCurOrPrev DEF Init, NoTable
<1>2. \A s \in Subgoals : Covered(s) /\ Starts(s) /\ OldUncounted(s)
  BY <1>1, NewNodeFields DEF Covered, Starts, OldUncounted, Complete, Incomplete
<1>3. OrderedDeps
  BY DEF Init, OrderedDeps
<1> QED BY <1>2, <1>3 DEF CoverInv

(* The count of a table is never below the number of the affected tables it   *)
(* depends on: neither an invalidation that stops at marked tables nor an     *)
(* unchanged table that is counted out (invalidate_call, propagate_no_change) *)
(* leaves a table whose count a single one of them could clear.  Counts that  *)
(* come near the width of falsecount are excluded.                            *)
THEOREM CountsStayAhead ==
  ASSUME ThrowsAnywhere = FALSE
  PROVE  Spec /\ []CountsLow => []CountsCover
<1>1. GraphInv /\ CoverInv => CountsCover
  <2> SUFFICES ASSUME GraphInv, CoverInv, NEW s \in Subgoals, Complete(s)
               PROVE  /\ node[Cur(s)].falsecount
                           >= Cardinality({t \in Subgoals \cap inn[Cur(s)] : Affected(t)})
                      /\ node[Cur(s)].deleted = (node[Cur(s)].falsecount > 0)
                      /\ node[Cur(s)].direct => node[Cur(s)].falsecount > 0
    BY DEF CountsCover
  <2>1. /\ CountOf(s) >= Cardinality(PendingDeps(s)) /\ CountOf(s) = node[Cur(s)].falsecount
        /\ node[Cur(s)].deleted <=> node[Cur(s)].falsecount > 0
        /\ node[Cur(s)].direct => node[Cur(s)].falsecount > 0
    BY DEF CoverInv, Covered, CountOf
  <2>2. CountOf(s) \in Nat /\ node[Cur(s)].deleted \in BOOLEAN
    BY CountTyped, NodesAreCurOrPrev DEF CountOf
  <2> DEFINE below == {t \in Subgoals \cap inn[Cur(s)] : Affected(t)}
  <2>3. below \subseteq PendingDeps(s) /\ PendingDeps(s) \subseteq Goals
    BY DEF PendingDeps, Deps, Pending, Goals
  <2> HIDE DEF below
  <2>4. /\ Cardinality(below) <= Cardinality(PendingDeps(s))
        /\ Cardinality(below) \in Nat /\ Cardinality(PendingDeps(s)) \in Nat
    BY <2>3, Smaller
  <2>5. CountOf(s) >= Cardinality(below)
    BY <2>1, <2>2, <2>4
  <2>6. node[Cur(s)].deleted = (node[Cur(s)].falsecount > 0)
    BY <2>1, <2>2
  <2> QED BY <2>1, <2>5, <2>6 DEF below
<1>2. GraphInv /\ GraphInv' /\ CoverInv /\ CountsLow /\ [Next]_vars => CoverInv'
  BY NextCovers
<1> QED BY <1>1, <1>2, InvHolds, CoverHolds, PTL DEF Spec

-----------------------------------------------------------------------------
(* Visitors.  A table that is listed for re-evaluation has been left by its   *)
(* open queries; the lists are made while no choice point of an affected      *)
(* table is spent, and the top level returns only from tables that are up to  *)
(* date.                                                                      *)
CursorType == [sub : Subgoals, mode : {"trie", "list", "spent"}, set : SUBSET Answers]
Within(s)  == {k \in DOMAIN cursors : cursors[k].sub = s /\ cursors[k].mode # "list"}

Counted(s) ==
  /\ Complete(s) => table[s].visitors = Cardinality(Within(s))
  /\ ~Complete(s) => Within(s) = {}
LeftAlone(s) == Complete(s) /\ node[Cur(s)].direct => Within(s) = {}
SpentFresh ==
  ~Idle => \A k \in DOMAIN cursors : cursors[k].mode = "spent" => ~Affected(cursors[k].sub)
ItemFresh(p, item) ==
  item.use = "return" => p = Top /\ ~Affected(item.sub) /\ table[item.sub].state # "none"
FreshItems(p, l) == \A i \in DOMAIN l : ItemFresh(p, l[i])
ReturnsFresh == \A p \in Callers : FreshItems(p, lazy[p])

VisInv ==
  /\ cursors \in Seq(CursorType)
  /\ \A s \in Subgoals : Counted(s) /\ LeftAlone(s)
  /\ SpentFresh /\ ReturnsFresh

(* What is left to do stays so as long as no table is affected or goes.       *)
StaysFresh(s) ==
  /\ Affected(s)' => Affected(s)
  /\ table[s].state # "none" => table'[s].state # "none"

LEMMA FreshStays ==
  ASSUME NEW p, NEW l \in Seq(ItemType), FreshItems(p, l), \A s \in Subgoals : StaysFresh(s)
  PROVE  FreshItems(p, l)'
<1> SUFFICES ASSUME NEW i \in DOMAIN l PROVE ItemFresh(p, l[i])'
  BY DEF FreshItems
<1>1. l[i] \in ItemType
  OBVIOUS
<1>2. l[i].sub \in Subgoals
  BY <1>1 DEF ItemType
<1> QED BY <1>2 DEF FreshItems, ItemFresh, StaysFresh

LEMMA OneListChanges ==
  ASSUME GraphInv, ReturnsFresh, NEW p \in Callers, NEW new \in Seq(ItemType),
         lazy' = [lazy EXCEPT ![p] = new], FreshItems(p, new)',
         \A s \in Subgoals : StaysFresh(s)
  PROVE  ReturnsFresh'
<1> SUFFICES ASSUME NEW q \in Callers PROVE FreshItems(q, lazy[q])'
  BY DEF ReturnsFresh
<1>1. PICK l : l = lazy[q]
  OBVIOUS
<1>2. l \in Seq(ItemType) /\ FreshItems(q, l)
  BY <1>1 DEF GraphInv, RestTyped, ReturnsFresh
<1>3. FreshItems(q, l)'
  BY <1>2, FreshStays
<1>4. lazy'[q] = IF q = p THEN new ELSE l
  BY <1>1 DEF GraphInv, RestTyped
<1> QED BY <1>3, <1>4

LEMMA NoListChanges ==
  ASSUME GraphInv, ReturnsFresh, UNCHANGED lazy, \A s \in Subgoals : StaysFresh(s)
  PROVE  ReturnsFresh'
<1> SUFFICES ASSUME NEW q \in Callers PROVE FreshItems(q, lazy[q])'
  BY DEF ReturnsFresh
<1>1. PICK l : l = lazy[q]
  OBVIOUS
<1>2. l \in Seq(ItemType) /\ FreshItems(q, l)
  BY <1>1 DEF GraphInv, RestTyped, ReturnsFresh
<1>3. FreshItems(q, l)'
  BY <1>2, FreshStays
<1> QED BY <1>1, <1>3

LEMMA FreshRest ==
  ASSUME GraphInv, ReturnsFresh, NEW p \in Callers, lazy[p] # <<>>
  PROVE  FreshItems(p, Tail(lazy[p])) /\ Tail(lazy[p]) \in Seq(ItemType)
<1>1. PICK l : l = lazy[p]
  OBVIOUS
<1>2. l \in Seq(ItemType) /\ l # <<>> /\ FreshItems(p, l)
  BY <1>1 DEF GraphInv, RestTyped, ReturnsFresh
<1>3. PICK r : r = Tail(l)
  OBVIOUS
<1>4. /\ r \in Seq(ItemType) /\ Len(l) \in Nat /\ DOMAIN l = 1 .. Len(l)
      /\ DOMAIN r = 1 .. Len(l) - 1 /\ \A i \in 1 .. Len(l) - 1 : r[i] = l[i + 1]
  BY <1>2, <1>3
<1>5. FreshItems(p, r)
  BY <1>2, <1>4 DEF FreshItems
<1> QED BY <1>1, <1>3, <1>4, <1>5

LEMMA FreshJoin ==
  ASSUME NEW p, NEW a \in Seq(ItemType), NEW b \in Seq(ItemType), FreshItems(p, b),
         \A i \in DOMAIN a : a[i].use # "return"
  PROVE  FreshItems(p, a \o b) /\ a \o b \in Seq(ItemType)
<1>1. PICK c : c = a \o b
  OBVIOUS
<1>2. /\ c \in Seq(ItemType) /\ Len(a) \in Nat /\ Len(b) \in Nat
      /\ DOMAIN c = 1 .. Len(a) + Len(b) /\ DOMAIN a = 1 .. Len(a) /\ DOMAIN b = 1 .. Len(b)
      /\ \A i \in 1 .. Len(a) + Len(b) : c[i] = IF i <= Len(a) THEN a[i] ELSE b[i - Len(a)]
  BY <1>1
<1>3. \A i \in DOMAIN c : c[i].use # "return" \/ \E j \in DOMAIN b : c[i] = b[j]
  <2> SUFFICES ASSUME NEW i \in DOMAIN c
               PROVE  c[i].use # "return" \/ \E j \in DOMAIN b : c[i] = b[j]
    OBVIOUS
  <2>1. CASE i <= Len(a)
    BY <1>2, <2>1
  <2>2. CASE ~(i <= Len(a))
    <3>1. i - Len(a) \in DOMAIN b /\ c[i] = b[i - Len(a)]
      BY <1>2, <2>2
    <3> QED BY <3>1
  <2> QED BY <2>1, <2>2
<1>4. FreshItems(p, c)
  BY <1>3 DEF FreshItems, ItemFresh
<1> QED BY <1>1, <1>2, <1>4

LEMMA WithinFinite ==
  ASSUME cursors \in Seq(CursorType), NEW s
  PROVE  /\ IsFiniteSet(Within(s)) /\ Cardinality(Within(s)) \in Nat
         /\ Cardinality(Within(s)) = 0 <=> Within(s) = {}
<1>1. DOMAIN cursors = 1 .. Len(cursors) /\ Len(cursors) \in Nat
  OBVIOUS
<1>2. IsFiniteSet(1 .. Len(cursors))
  BY <1>1, FS_Interval
<1>3. Within(s) \subseteq 1 .. Len(cursors)
  BY <1>1 DEF Within
<1> QED BY <1>2, <1>3, FS_Subset, FS_CardinalityType, FS_EmptySet

(* Steps that leave the choice points.                                        *)
VisitsKept(s) ==
  /\ Complete(s)' /\ Complete(s) => table'[s].visitors = table[s].visitors
  /\ Complete(s)' /\ ~Complete(s) => table'[s].visitors = 0
  /\ Complete(s)' /\ Complete(s) /\ node'[Cur(s)].direct => node[Cur(s)].direct
  /\ Complete(s) /\ ~Complete(s)' => Within(s) = {}

LEMMA VisitsStay ==
  ASSUME VisInv, NEW s \in Subgoals, Within(s)' = Within(s), VisitsKept(s)
  PROVE  Counted(s)' /\ LeftAlone(s)'
<1>1. Cardinality(Within(s)) = 0 <=> Within(s) = {}
  BY WithinFinite DEF VisInv
<1>2. Counted(s) /\ LeftAlone(s)
  BY DEF VisInv
<1>3. Counted(s)'
  BY <1>1, <1>2 DEF Counted, VisitsKept
<1>4. LeftAlone(s)'
  BY <1>2 DEF Counted, LeftAlone, VisitsKept
<1> QED BY <1>3, <1>4

LEMMA CursorsKept ==
  ASSUME VisInv, UNCHANGED cursors, \A s \in Subgoals : VisitsKept(s),
         SpentFresh', ReturnsFresh'
  PROVE  VisInv'
<1>1. \A s \in Subgoals : Within(s)' = Within(s)
  BY DEF Within
<1>2. \A s \in Subgoals : Counted(s)' /\ LeftAlone(s)'
  BY <1>1, VisitsStay
<1> QED BY <1>2 DEF VisInv

LEMMA SpentStays ==
  ASSUME VisInv, UNCHANGED cursors, Idle' \/ ~Idle, \A s \in Subgoals : StaysFresh(s)
  PROVE  SpentFresh'
<1> SUFFICES ASSUME ~Idle', NEW k \in DOMAIN cursors, cursors[k].mode = "spent"
             PROVE  ~Affected(cursors[k].sub)'
  BY DEF SpentFresh
<1>1. PICK s : s = cursors[k].sub
  OBVIOUS
<1>2. cursors[k] \in CursorType
  BY DEF VisInv
<1>3. s \in Subgoals /\ ~Affected(s)
  BY <1>1, <1>2 DEF VisInv, SpentFresh, CursorType
<1>4. ~Affected(s)'
  BY <1>3 DEF StaysFresh
<1> QED BY <1>1, <1>4

(* Steps that change neither the nodes nor a state nor the visitors.          *)
LEMMA PlainVisits ==
  ASSUME GraphInv, VisInv, UNCHANGED <<node, cursors>>, Idle' \/ ~Idle, ReturnsFresh',
         \A s \in Subgoals : /\ table'[s].state = table[s].state
                             /\ table'[s].visitors = table[s].visitors
  PROVE  VisInv'
<1>1. \A s \in Subgoals : StaysFresh(s) /\ VisitsKept(s)
  BY DEF StaysFresh, VisitsKept, Affected, Complete
<1> QED BY <1>1, SpentStays, CursorsKept

LEMMA BusyCaller ==
  ASSUME GraphInv, NEW p \in Callers, Runs(p)
  PROVE  /\ p \in Subgoals => ~Idle
         /\ lazy[p] # <<>> => ~Idle
<1>1. p \in Subgoals => sccs # <<>>
  BY TopAssumption DEF Runs, Goals
<1>2. sccs = <<>> => p = Top
  BY DEF Runs
<1> QED BY <1>1, <1>2 DEF Idle

LEMMA CallLeafVisits ==
  ASSUME GraphInv, VisInv, NEW s \in Subgoals, NEW l, CallLeaf(s, l)
  PROVE  VisInv'
<1>1. ReturnsFresh'
  BY NoListChanges DEF CallLeaf, VisInv, StaysFresh, Affected
<1> QED BY <1>1, PlainVisits DEF CallLeaf, Idle

(* What the top level is to return from once the call is made.                *)
LEMMA GoesFresh ==
  ASSUME GraphInv, ReturnsFresh, \A s \in Subgoals : StaysFresh(s), NEW p \in Callers,
         NEW g \in Subgoals, NEW use, use # "return", NEW rest \in Seq(ItemType),
         FreshItems(p, rest), Goes(p, g, use, rest),
         ~Affected(g)', table'[g].state # "none"
  PROVE  ReturnsFresh'
<1>1. PICK item : item = [sub |-> g, use |-> "return"]
  OBVIOUS
<1>2. item \in ItemType /\ item.sub = g /\ item.use = "return"
  BY <1>1 DEF ItemType
<1>3. PICK l : l = <<item>>
  OBVIOUS
<1>4. l \in Seq(ItemType) /\ DOMAIN l = {1} /\ l[1] = item
  BY <1>2, <1>3
<1>5. CASE p = Top /\ use = "call"
  <2>1. FreshItems(p, l)'
    BY <1>2, <1>4, <1>5 DEF FreshItems, ItemFresh
  <2>2. lazy' = [lazy EXCEPT ![p] = l]
    BY <1>1, <1>3, <1>5 DEF Goes
  <2> QED BY <1>4, <2>1, <2>2, OneListChanges
<1>6. CASE ~(p = Top /\ use = "call")
  <2>1. FreshItems(p, rest)'
    BY FreshStays
  <2>2. lazy' = [lazy EXCEPT ![p] = rest]
    BY <1>6 DEF Goes
  <2> QED BY <2>1, <2>2, OneListChanges
<1> QED BY <1>5, <1>6

LEMMA FindTableVisits ==
  ASSUME GraphInv, CoverInv, VisInv, ~Idle, NEW p \in Callers, NEW g \in Subgoals,
         NEW use, use # "return", NEW rest \in Seq(ItemType), FreshItems(p, rest),
         FindTable(p, g, use, rest)
  PROVE  VisInv'
<1>1. /\ UNCHANGED <<table, node, cursors>> /\ Goes(p, g, use, rest)
      /\ Incomplete(g) \/ (Complete(g) /\ ~Affected(g))
  BY DEF FindTable
<1>2. ~Affected(g) /\ table[g].state # "none"
  BY <1>1, NewNodeFields DEF CoverInv, Starts, Affected, Incomplete, Complete
<1>3. \A s \in Subgoals : StaysFresh(s)
  BY <1>1 DEF StaysFresh, Affected
<1>4. ReturnsFresh'
  <2>1. ~Affected(g)' /\ table'[g].state # "none"
    BY <1>1, <1>2 DEF Affected
  <2> QED BY <1>1, <1>3, <2>1, GoesFresh DEF VisInv
<1> QED BY <1>1, <1>4, PlainVisits

LEMMA ProduceVisits ==
  ASSUME GraphInv, CoverInv, VisInv, ~Idle, NEW p \in Callers, Runs(p), NEW g \in Subgoals,
         NEW use, use # "return", NEW rest \in Seq(ItemType), FreshItems(p, rest),
         Produce(p, g, use, rest)
  PROVE  VisInv'
<1>1. /\ node'[Cur(g)] = NewNode
      /\ \A s \in Subgoals : s # g => node'[Cur(s)] = node[Cur(s)]
      /\ \A s \in Subgoals : table'[s].state = IF s = g THEN "incomplete" ELSE table[s].state
  BY ProduceFacts
<1>2. /\ Goes(p, g, use, rest) /\ UNCHANGED cursors
      /\ Complete(g) => node[Cur(g)].direct
      /\ \A s \in Subgoals : s # g => table'[s] = table[s]
  BY DEF Produce, GraphInv, GraphTyped
<1>3. ~Affected(g)' /\ table'[g].state # "none" /\ ~Complete(g)'
  BY <1>1, NewNodeFields DEF Affected, Complete
<1>4. \A s \in Subgoals : StaysFresh(s)
  BY <1>1, <1>2, <1>3 DEF StaysFresh, Affected
<1>5. \A s \in Subgoals : VisitsKept(s)
  <2>1. Within(g) = {}
    BY <1>2 DEF VisInv, Counted, LeftAlone
  <2> QED BY <1>1, <1>2, <1>3, <2>1 DEF VisitsKept, Complete
<1>6. ReturnsFresh'
  BY <1>2, <1>3, <1>4, GoesFresh DEF VisInv
<1>7. SpentFresh'
  BY <1>2, <1>4, SpentStays
<1> QED BY <1>2, <1>5, <1>6, <1>7, CursorsKept

(* find_the_visitors leaves no choice point in the tables of the list.        *)
LEMMA ListsBelow ==
  ASSUME NEW g \in Subgoals
  PROVE  ToRecompute(g) \subseteq {g} \cup Below(ToRecompute(g))
<1> DEFINE Step(S) == {t \in Below(S) : ~node[Cur(t)].direct}
           closed == {S \in SUBSET Subgoals : {g} \cup Step(S) \subseteq S}
           R == {x \in Subgoals : \A S \in closed : x \in S}
           low == {g} \cup Step(R)
<1>1. ToRecompute(g) = R
  BY DEF ToRecompute, Closure
<1>2. \A S, T : S \subseteq T => Step(S) \subseteq Step(T)
  BY DEF Below
<1>3. \A S \in closed : R \subseteq S /\ Step(S) \subseteq S
  OBVIOUS
<1>4. low \subseteq R
  <2>1. \A S \in closed : Step(R) \subseteq S
    <3> TAKE S \in closed
    <3>1. Step(R) \subseteq Step(S)
      <4> HIDE DEF R, closed, Step
      <4> QED BY <1>2, <1>3
    <3> QED BY <3>1
  <2>2. Step(R) \subseteq Subgoals
    BY DEF Below
  <2>3. g \in R
    OBVIOUS
  <2>4. Step(R) \subseteq R
    <3> HIDE DEF Step, closed
    <3> QED BY <2>1, <2>2
  <2> HIDE DEF R, Step
  <2> QED BY <2>3, <2>4
<1>5. low \in closed
  <2>1. Step(low) \subseteq Step(R)
    <3> HIDE DEF R, Step, low
    <3> QED BY <1>2, <1>4
  <2>2. low \subseteq Subgoals
    BY DEF Below
  <2> HIDE DEF R, Step
  <2> QED BY <2>1, <2>2
<1>6. R \subseteq low
  <2> HIDE DEF R, low, closed, Step
  <2> QED BY <1>3, <1>5
<1>7. low \subseteq {g} \cup Below(R)
  OBVIOUS
<1> HIDE DEF R, low
<1> QED BY <1>1, <1>6, <1>7

LEMMA LeftTyped ==
  ASSUME GraphInv, NEW c \in CursorType
  PROVE  Left(c) \in SUBSET Answers
<1>1. c.sub \in Subgoals /\ c.mode \in {"trie", "list", "spent"} /\ c.set \in SUBSET Answers
  BY DEF CursorType
<1>2. table[c.sub].answers \in SUBSET Answers
  BY <1>1 DEF GraphInv, GraphTyped, TableType
<1> QED BY <1>1, <1>2 DEF Left

(* What is left of the queries in D is copied out of their tables.            *)
CopiedOut(D) ==
  cursors' = [k \in DOMAIN cursors |->
                IF k \in D THEN [cursors[k] EXCEPT !.mode = "list", !.set = Left(cursors[k])]
                ELSE cursors[k]]

LEMMA CopiesTyped ==
  ASSUME GraphInv, cursors \in Seq(CursorType), NEW D, CopiedOut(D)
  PROVE  /\ cursors' \in Seq(CursorType) /\ DOMAIN cursors' = DOMAIN cursors
         /\ \A k \in DOMAIN cursors : /\ cursors'[k].sub = cursors[k].sub
                                      /\ k \in D => cursors'[k].mode = "list"
                                      /\ k \notin D => cursors'[k] = cursors[k]
<1> DEFINE n == Len(cursors)
<1>1. n \in Nat /\ DOMAIN cursors = 1 .. n
  OBVIOUS
<1>2. ASSUME NEW k \in DOMAIN cursors
      PROVE  /\ cursors'[k] \in CursorType /\ cursors'[k].sub = cursors[k].sub
             /\ k \in D => cursors'[k].mode = "list"
             /\ k \notin D => cursors'[k] = cursors[k]
  <2>1. PICK c : c = cursors[k]
    OBVIOUS
  <2>2. c \in CursorType
    BY <2>1
  <2>3. PICK rest : rest = Left(c)
    OBVIOUS
  <2>4. rest \in SUBSET Answers
    BY <2>2, <2>3, LeftTyped
  <2>5. cursors'[k] = IF k \in D THEN [c EXCEPT !.mode = "list", !.set = rest] ELSE c
    BY <2>1, <2>3 DEF CopiedOut
  <2>6. /\ cursors'[k] \in CursorType /\ cursors'[k].sub = c.sub
        /\ k \in D => cursors'[k].mode = "list"
        /\ k \notin D => cursors'[k] = c
    BY <2>2, <2>4, <2>5 DEF CursorType
  <2> QED BY <2>1, <2>6
<1>3. DOMAIN cursors' = DOMAIN cursors /\ cursors' = [k \in DOMAIN cursors |-> cursors'[k]]
  BY DEF CopiedOut
<1>4. cursors' \in [1 .. n -> CursorType]
  <2> HIDE DEF n
  <2> QED BY <1>1, <1>2, <1>3
<1>5. cursors' \in Seq(CursorType)
  <2> HIDE DEF n
  <2> QED BY <1>1, <1>4, IsASeq
<1> QED BY <1>2, <1>3, <1>5

LEMMA ReevaluateVisits ==
  ASSUME GraphInv, VisInv, ~Idle, NEW p \in Callers, NEW g \in Subgoals,
         NEW use \in {"call", "if"}, NEW rest \in Seq(ItemType), FreshItems(p, rest),
         Reevaluate(p, g, use, rest)
  PROVE  VisInv'
<1>1. PICK R : R = ToRecompute(g)
  OBVIOUS
<1>2. PICK V : V = Visited({g} \cup Below(R))
  OBVIOUS
<1>3. /\ Complete(g) /\ Affected(g) /\ node' = Marked(R) /\ cursors' = Copied(V)
      /\ table' = Forget(table, V) /\ UNCHANGED sccs
  BY <1>1, <1>2 DEF Reevaluate
<1>4. /\ \A s \in V : s \in Subgoals /\ Affected(s)
      /\ \A s \in R : s \in Subgoals /\ (s \in V \/ table[s].visitors = 0)
  <2>1. R \subseteq {g} \cup Below(R)
    BY <1>1, ListsBelow
  <2>2. \A s \in Below(R) : s \in Subgoals /\ Affected(s)
    BY DEF Below
  <2>3. V = {s \in {g} \cup Below(R) : table[s].visitors # 0}
    BY <1>2 DEF Visited
  <2> HIDE DEF Below
  <2> QED BY <1>3, <2>1, <2>2, <2>3
<1>5. cursors \in Seq(CursorType) /\ \A s \in Subgoals : Counted(s) /\ LeftAlone(s)
  BY DEF VisInv
<1> DEFINE D == {k \in DOMAIN cursors : cursors[k].mode = "trie" /\ cursors[k].sub \in V}
<1>6. /\ cursors' \in Seq(CursorType) /\ DOMAIN cursors' = DOMAIN cursors
      /\ \A k \in DOMAIN cursors : /\ cursors'[k].sub = cursors[k].sub
                                   /\ k \in D => cursors'[k].mode = "list"
                                   /\ k \notin D => cursors'[k] = cursors[k]
  <2>1. CopiedOut(D)
    BY <1>3 DEF Copied, CopiedOut
  <2> HIDE DEF D
  <2> QED BY <1>5, <2>1, CopiesTyped
<1>7. ASSUME NEW s \in V PROVE Within(s)' = {}
  <2> SUFFICES ASSUME NEW k \in DOMAIN cursors, cursors[k].sub = s, k \notin D,
                      cursors[k].mode # "list"
               PROVE  FALSE
    BY <1>6 DEF Within
  <2>1. cursors[k] \in CursorType
    BY <1>5
  <2>2. cursors[k].mode = "spent"
    BY <2>1 DEF CursorType
  <2>3. ~Affected(s)
    BY <2>2 DEF VisInv, SpentFresh
  <2> QED BY <1>4, <2>3
<1>8. ASSUME NEW s \in Subgoals \ V PROVE Within(s)' = Within(s)
  BY <1>6, <1>8 DEF Within
<1>9. ASSUME NEW s \in Subgoals
      PROVE  /\ node'[Cur(s)].falsecount = node[Cur(s)].falsecount
             /\ s \notin R => node'[Cur(s)] = node[Cur(s)]
  <2>1. Cur(s) \in Nodes /\ node[Cur(s)] \in NodeType
    BY CountTyped, NodesAreCurOrPrev
  <2>2. Cur(s) \in {Cur(t) : t \in R} <=> s \in R
    BY NodesAreCurOrPrev
  <2>3. node'[Cur(s)] = IF s \in R THEN [node[Cur(s)] EXCEPT !.direct = TRUE]
                        ELSE node[Cur(s)]
    BY <1>3, <2>1, <2>2 DEF Marked
  <2> QED BY <2>1, <2>3 DEF NodeType
<1>10. ASSUME NEW s \in Subgoals
       PROVE  /\ table'[s].state = table[s].state
              /\ table'[s].visitors = IF s \in V THEN 0 ELSE table[s].visitors
  <2>1. table[s] \in TableType /\ table'[s] = IF s \in V THEN [table[s] EXCEPT !.visitors = 0]
                                              ELSE table[s]
    BY <1>3 DEF Forget, GraphInv, GraphTyped
  <2> QED BY <2>1 DEF TableType
<1>11. ASSUME NEW s \in Subgoals PROVE Counted(s)' /\ LeftAlone(s)'
  <2>1. Complete(s)' <=> Complete(s)
    BY <1>10 DEF Complete
  <2>2. CASE s \in V
    <3>1. Within(s)' = {} /\ table'[s].visitors = 0
      BY <1>7, <1>10, <2>2
    <3>2. Cardinality(Within(s)') = 0
      BY <3>1, FS_EmptySet
    <3> QED BY <3>1, <3>2 DEF Counted, LeftAlone
  <2>3. CASE s \notin V
    <3>1. Within(s)' = Within(s) /\ table'[s].visitors = table[s].visitors
      BY <1>8, <1>10, <2>3
    <3>2. Counted(s)'
      BY <1>5, <2>1, <3>1 DEF Counted
    <3>3. CASE s \in R
      <4>1. Complete(s) => Cardinality(Within(s)) = 0
        BY <1>4, <1>5, <2>3, <3>3 DEF Counted
      <4>2. Complete(s) => Within(s) = {}
        BY <1>5, <4>1, WithinFinite
      <4> QED BY <2>1, <3>1, <3>2, <4>2 DEF LeftAlone
    <3>4. CASE s \notin R
      BY <1>5, <1>9, <2>1, <3>1, <3>2, <3>4 DEF LeftAlone
    <3> QED BY <3>3, <3>4
  <2> QED BY <2>2, <2>3
<1>12. \A s \in Subgoals : StaysFresh(s)
  BY <1>9, <1>10 DEF StaysFresh, Affected
<1>13. SpentFresh'
  <2> SUFFICES ASSUME NEW k, k \in DOMAIN cursors', cursors'[k].mode = "spent"
               PROVE  ~Affected(cursors[k].sub)'
    BY DEF SpentFresh
  <2>1. k \in DOMAIN cursors /\ cursors'[k] = cursors[k]
    BY <1>6
  <2>2. PICK s : s = cursors[k].sub
    OBVIOUS
  <2>3. s \in Subgoals
    <3>1. cursors[k] \in CursorType
      BY <1>5, <2>1
    <3> QED BY <2>2, <3>1 DEF CursorType
  <2>4. ~Affected(s)
    BY <2>1, <2>2 DEF VisInv, SpentFresh
  <2>5. ~Affected(s)'
    BY <1>12, <2>3, <2>4 DEF StaysFresh
  <2>6. s = cursors'[k].sub
    BY <2>1, <2>2
  <2> QED BY <2>5, <2>6
<1>14. ReturnsFresh'
  <2>1. PICK l \in LazyLists(g) :
          lazy' = [lazy EXCEPT ![p] =
                    [i \in DOMAIN l |->
                       [sub |-> l[i], use |-> IF i < Len(l) THEN "if" ELSE use]] \o rest]
    BY DEF Reevaluate
  <2>2. PICK a : a = [i \in DOMAIN l |-> [sub |-> l[i], use |-> IF i < Len(l) THEN "if" ELSE use]]
    OBVIOUS
  <2>3. a \in Seq(ItemType)
    BY <2>2, LazyListTyped
  <2>4. \A i \in DOMAIN a : a[i].use # "return"
    BY <2>2
  <2>5. PICK new : new = a \o rest
    OBVIOUS
  <2>6. FreshItems(p, new) /\ new \in Seq(ItemType)
    BY <2>3, <2>4, <2>5, FreshJoin
  <2>7. FreshItems(p, new)'
    BY <1>12, <2>6, FreshStays
  <2>8. lazy' = [lazy EXCEPT ![p] = new]
    BY <2>1, <2>2, <2>5
  <2> QED BY <1>12, <2>6, <2>7, <2>8, OneListChanges DEF VisInv
<1> QED BY <1>6, <1>11, <1>13, <1>14 DEF VisInv

LEMMA CompleteSccVisits ==
  ASSUME GraphInv, CoverInv, VisInv, CompleteScc
  PROVE  VisInv'
<1>1. PICK C : C = Last(sccs)
  OBVIOUS
<1>2. /\ sccs # <<>> /\ UNCHANGED <<lazy, cursors>>
      /\ table' = [s \in Subgoals |->
           IF s \in C THEN [NoTable EXCEPT !.state = "complete", !.answers = table[s].answers]
           ELSE table[s]]
  BY <1>1 DEF CompleteScc
<1>3. PICK u, V, nd :
           /\ u \in SUBSET C /\ Valid(u, V) /\ Uncounted(nd, u, V)
           /\ \A s \in Subgoals : node'[Cur(s)] = nd[Cur(s)]
  BY <1>1, CompleteSccFacts DEF SccDone
<1>4. C \subseteq Subgoals /\ \A s \in C : ~Complete(s)
  BY <1>1, <1>2, StackPop DEF GraphInv, Lives, Complete, In
<1>5. \A m \in Nodes : LeftOf(nd, u, V, m)
  BY <1>3, <1>4, UncountedFields
<1>6. ASSUME NEW s \in Subgoals
      PROVE  /\ Affected(s)' => Affected(s)
             /\ node'[Cur(s)].direct => node[Cur(s)].direct
  <2>1. LeftOf(nd, u, V, Cur(s)) /\ node[Cur(s)].falsecount \in Nat
    BY <1>5, NodesAreCurOrPrev, CountTyped
  <2> QED BY <1>3, <2>1 DEF LeftOf, Affected
<1>7. ASSUME NEW s \in Subgoals
      PROVE  /\ s \in C => table'[s].state = "complete" /\ table'[s].visitors = 0
             /\ s \notin C => table'[s] = table[s]
  BY <1>2 DEF NoTable
<1>8. \A s \in Subgoals : StaysFresh(s)
  BY <1>6, <1>7 DEF StaysFresh
<1>9. \A s \in Subgoals : VisitsKept(s)
  BY <1>4, <1>6, <1>7 DEF VisitsKept, Complete
<1>10. ReturnsFresh'
  BY <1>2, <1>8, NoListChanges DEF VisInv
<1>11. SpentFresh'
  BY <1>2, <1>8, SpentStays DEF Idle
<1> QED BY <1>2, <1>9, <1>10, <1>11, CursorsKept

LEMMA ThrowVisits ==
  ASSUME GraphInv, VisInv, Throw
  PROVE  VisInv'
<1> DEFINE C == UNION Range(sccs)
           gone == {Cur(s) : s \in C}
<1>1. /\ table' = [s \in Subgoals |-> IF s \in C THEN NoTable ELSE table[s]]
      /\ node' = [n \in Nodes |-> IF n \in gone THEN NoNode ELSE node[n]]
      /\ sccs' = <<>> /\ lazy' = [p \in Callers |-> <<>>] /\ UNCHANGED cursors
  BY DEF Throw
<1>2. \A s \in Subgoals : Cur(s) \in Nodes /\ (Cur(s) \in gone <=> s \in C)
  BY NodesAreCurOrPrev
<1>3. \A s \in C : ~Complete(s)
  <2>1. C \subseteq Subgoals /\ \A s : s \in C <=> In(sccs, s)
    BY InIsUnion DEF GraphInv, Stack, Range
  <2> HIDE DEF C
  <2> QED BY <2>1 DEF GraphInv, Lives, Complete
<1> HIDE DEF C, gone
<1>4. \A s \in Subgoals : VisitsKept(s)
  <2>1. NoTable.state # "complete"
    BY DEF NoTable
  <2> QED BY <1>1, <1>2, <1>3, <2>1 DEF VisitsKept, Complete
<1>5. ReturnsFresh'
  BY <1>1 DEF ReturnsFresh, FreshItems
<1>6. SpentFresh'
  BY <1>1 DEF SpentFresh, Idle, Callers
<1> QED BY <1>1, <1>4, <1>5, <1>6, CursorsKept

LEMMA QueryVisits ==
  ASSUME GraphInv, VisInv, SpentQueries = FALSE, NEW s \in Subgoals, Query(s)
  PROVE  VisInv'
<1>1. /\ UNCHANGED <<table, node, cursors>> /\ Top \in Callers
      /\ lazy' = [lazy EXCEPT ![Top] = <<[sub |-> s, use |-> "call"]>>]
      /\ \A k \in DOMAIN cursors :
           cursors[k].mode = "spent" => ~Affected(cursors[k].sub)
  BY DEF Query, Callers
<1>2. PICK item : item = [sub |-> s, use |-> "call"]
  OBVIOUS
<1>3. PICK new : new = <<item>>
  OBVIOUS
<1>4. item \in ItemType /\ item.use = "call"
  BY <1>2 DEF ItemType
<1>5. new \in Seq(ItemType) /\ FreshItems(Top, new)'
  BY <1>3, <1>4 DEF FreshItems, ItemFresh
<1>6. \A t \in Subgoals : StaysFresh(t) /\ VisitsKept(t)
  BY <1>1 DEF StaysFresh, VisitsKept, Affected, Complete
<1>7. ReturnsFresh'
  BY <1>1, <1>2, <1>3, <1>5, <1>6, OneListChanges DEF VisInv
<1>8. SpentFresh'
  BY <1>1 DEF SpentFresh, Affected
<1> QED BY <1>1, <1>6, <1>7, <1>8, CursorsKept

LEMMA SpendTyped ==
  ASSUME NEW c \in CursorType, c.mode = "trie"
  PROVE  Spend(c) \in CursorType /\ Spend(c).sub = c.sub /\ Spend(c).mode # "list"
BY DEF Spend, CursorType

LEMMA ReturnVisits ==
  ASSUME GraphInv, CoverInv, VisInv, Return
  PROVE  VisInv'
<1>1. Top \in Callers /\ lazy[Top] # <<>>
  BY DEF Callers, Return
<1>2. PICK item : item = Head(lazy[Top])
  OBVIOUS
<1>3. PICK s : s = item.sub
  OBVIOUS
<1>4. /\ sccs = <<>> /\ item.use = "return" /\ lazy' = [lazy EXCEPT ![Top] = <<>>]
      /\ UNCHANGED <<node, sccs>>
      /\ \/ UNCHANGED <<cursors, table>>
         \/ \E a \in table[s].answers :
              /\ cursors' = Append(cursors, Spend([sub |-> s, mode |-> "trie", set |-> {a}]))
              /\ table' = [table EXCEPT ![s].visitors = @ + 1]
  BY <1>2, <1>3 DEF Return
<1>5. s \in Subgoals /\ ~Affected(s) /\ table[s].state # "none"
  <2>1. PICK l : l = lazy[Top]
    OBVIOUS
  <2>2. l \in Seq(ItemType) /\ l # <<>> /\ FreshItems(Top, l)
    BY <1>1, <2>1 DEF GraphInv, RestTyped, VisInv, ReturnsFresh
  <2>3. 1 \in DOMAIN l /\ item = l[1] /\ item \in ItemType
    BY <1>2, <2>1, <2>2
  <2>4. ItemFresh(Top, item)
    BY <2>2, <2>3 DEF FreshItems
  <2> QED BY <1>3, <1>4, <2>3, <2>4 DEF ItemFresh, ItemType
<1>6. Complete(s) /\ node[Cur(s)].direct = FALSE
  <2>1. table[s].state \in {"none", "incomplete", "complete"}
    BY <1>5 DEF GraphInv, GraphTyped, TableType
  <2>2. Complete(s)
    BY <1>4, <1>5, <2>1, IdleIsQuiet DEF Quiet, Incomplete, Complete
  <2>3. node[Cur(s)].direct \in BOOLEAN
    BY <1>5, CountTyped, NodesAreCurOrPrev
  <2>4. CountOf(s) = 0
    BY <1>5 DEF Affected, CountOf
  <2> QED BY <1>5, <2>2, <2>3, <2>4 DEF CoverInv, Covered
<1>7. \A t \in Subgoals : table'[t].state = table[t].state
  <2>1. CASE UNCHANGED table
    BY <2>1
  <2>2. CASE table' = [table EXCEPT ![s].visitors = @ + 1]
    BY <2>2 DEF GraphInv, GraphTyped, TableType
  <2> QED BY <1>4, <2>1, <2>2
<1>8. \A t \in Subgoals : StaysFresh(t)
  BY <1>4, <1>7 DEF StaysFresh, Affected
<1>9. ReturnsFresh'
  <2>1. PICK new : new = <<>>
    OBVIOUS
  <2>2. new \in Seq(ItemType) /\ FreshItems(Top, new)'
    BY <2>1 DEF FreshItems
  <2> QED BY <1>1, <1>4, <1>8, <2>1, <2>2, OneListChanges DEF VisInv
<1>10. SpentFresh'
  BY <1>1, <1>4 DEF SpentFresh, Idle, GraphInv, RestTyped
<1>11. CASE UNCHANGED <<cursors, table>>
  <2>1. \A t \in Subgoals : VisitsKept(t)
    BY <1>4, <1>11 DEF VisitsKept, Complete
  <2> QED BY <1>9, <1>10, <1>11, <2>1, CursorsKept
<1>12. ASSUME NEW a \in table[s].answers,
              cursors' = Append(cursors, Spend([sub |-> s, mode |-> "trie", set |-> {a}])),
              table' = [table EXCEPT ![s].visitors = @ + 1]
       PROVE  VisInv'
  <2>1. PICK c0 : c0 = [sub |-> s, mode |-> "trie", set |-> {a}]
    OBVIOUS
  <2>2. PICK c : c = Spend(c0)
    OBVIOUS
  <2>3. table[s].answers \subseteq Answers /\ table[s].visitors \in Int /\ table[s] \in TableType
    BY <1>5 DEF GraphInv, GraphTyped, TableType
  <2>4. c0 \in CursorType /\ c0.mode = "trie" /\ c0.sub = s
    BY <1>5, <2>1, <2>3 DEF CursorType
  <2>5. c \in CursorType /\ c.sub = s /\ c.mode # "list"
    BY <2>2, <2>4, SpendTyped
  <2> DEFINE n == Len(cursors)
  <2>6. /\ cursors \in Seq(CursorType) /\ n \in Nat /\ DOMAIN cursors = 1 .. n
        /\ cursors' = Append(cursors, c)
    BY <1>12, <2>1, <2>2 DEF VisInv
  <2>7. /\ cursors' \in Seq(CursorType) /\ DOMAIN cursors' = 1 .. n + 1
        /\ cursors'[n + 1] = c /\ \A k \in 1 .. n : cursors'[k] = cursors[k]
    BY <2>5, <2>6
  <2> HIDE DEF n
  <2>8. ASSUME NEW t \in Subgoals
        PROVE  Within(t)' = IF t = s THEN Within(t) \cup {n + 1} ELSE Within(t)
    BY <2>5, <2>6, <2>7 DEF Within
  <2>9. ASSUME NEW t \in Subgoals, t # s PROVE Counted(t)' /\ LeftAlone(t)'
    <3>1. VisitsKept(t)
      BY <1>4, <1>7, <1>12, <2>9 DEF VisitsKept, Complete, GraphInv, GraphTyped
    <3> QED BY <2>8, <2>9, <3>1, VisitsStay
  <2>10. Counted(s)' /\ LeftAlone(s)'
    <3>1. /\ IsFiniteSet(Within(s)) /\ Cardinality(Within(s)) \in Nat
      BY <2>6, WithinFinite
    <3>2. n + 1 \notin Within(s)
      BY <2>6 DEF Within
    <3>3. Cardinality(Within(s) \cup {n + 1}) = Cardinality(Within(s)) + 1
      BY <3>1, <3>2, FS_AddElement
    <3>4. table'[s].visitors = table[s].visitors + 1
      BY <1>5, <1>12, <2>3 DEF GraphInv, GraphTyped, TableType
    <3>5. table[s].visitors = Cardinality(Within(s))
      BY <1>5, <1>6 DEF VisInv, Counted
    <3>6. Complete(s)' /\ node'[Cur(s)].direct = FALSE
      BY <1>4, <1>5, <1>6, <1>7 DEF Complete
    <3>7. Cardinality(Within(s)') = Cardinality(Within(s)) + 1
      BY <1>5, <2>8, <3>3
    <3> QED BY <3>4, <3>5, <3>6, <3>7 DEF Counted, LeftAlone
  <2> QED BY <1>9, <1>10, <2>7, <2>9, <2>10 DEF VisInv
<1> QED BY <1>4, <1>11, <1>12

(* The open queries go on or end: no query runs meanwhile.                    *)
LEMMA IdleReturns ==
  ASSUME ReturnsFresh, Idle, UNCHANGED <<lazy, sccs>>
  PROVE  ReturnsFresh' /\ SpentFresh'
<1>1. SpentFresh'
  BY DEF SpentFresh, Idle
<1>2. ASSUME NEW p \in Callers, NEW i \in DOMAIN lazy[p] PROVE lazy[p][i].use # "return"
  BY DEF ReturnsFresh, FreshItems, ItemFresh, Idle
<1>3. ReturnsFresh'
  BY <1>2 DEF ReturnsFresh, FreshItems, ItemFresh
<1> QED BY <1>1, <1>3

LEMMA ResumeVisits ==
  ASSUME GraphInv, VisInv, Resume
  PROVE  VisInv'
<1> DEFINE n == Len(cursors)
<1>1. /\ cursors # <<>> /\ UNCHANGED <<table, node, lazy, sccs>> /\ Idle
      /\ cursors \in Seq(CursorType)
  BY DEF Resume, evalVars, VisInv
<1>2. n \in Nat \ {0} /\ DOMAIN cursors = 1 .. n
  BY <1>1
<1>3. PICK c : c = cursors[n]
  OBVIOUS
<1>4. c \in CursorType /\ Last(cursors) = c
  BY <1>1, <1>2, <1>3 DEF Last
<1>5. c.sub \in Subgoals /\ c.set \subseteq Answers /\ table[c.sub].answers \subseteq Answers
  BY <1>4 DEF CursorType, GraphInv, GraphTyped, TableType
<1> HIDE DEF n
<1>6. ReturnsFresh' /\ SpentFresh'
  BY <1>1, IdleReturns DEF VisInv
<1>7. ASSUME NEW d \in CursorType, d.sub = c.sub, d.mode = "list" <=> c.mode = "list",
             cursors' = [cursors EXCEPT ![n] = d]
      PROVE  cursors' \in Seq(CursorType) /\ \A s \in Subgoals : Within(s)' = Within(s)
  <2>1. cursors' \in Seq(CursorType)
    BY <1>1, <1>2, <1>7
  <2>2. /\ DOMAIN cursors' = 1 .. n
        /\ \A k \in 1 .. n : cursors'[k].sub = cursors[k].sub
                             /\ (cursors'[k].mode = "list" <=> cursors[k].mode = "list")
    BY <1>1, <1>2, <1>3, <1>7
  <2>3. \A s \in Subgoals : Within(s)' = Within(s)
    BY <1>2, <2>2 DEF Within
  <2> QED BY <2>1, <2>3
<1>8. cursors' \in Seq(CursorType) /\ \A s \in Subgoals : Within(s)' = Within(s)
  <2>1. ASSUME NEW a \in table[c.sub].answers, c.mode = "trie",
               cursors' = [cursors EXCEPT ![n] = Spend([c EXCEPT !.set = @ \cup {a}])]
        PROVE  cursors' \in Seq(CursorType) /\ \A s \in Subgoals : Within(s)' = Within(s)
    <3>1. PICK c0 : c0 = [c EXCEPT !.set = @ \cup {a}]
      OBVIOUS
    <3>2. c0 \in CursorType /\ c0.mode = "trie" /\ c0.sub = c.sub
      <4>1. c.set \cup {a} \in SUBSET Answers
        BY <1>5
      <4> QED BY <1>4, <2>1, <3>1, <4>1 DEF CursorType
    <3>3. PICK d : d = Spend(c0)
      OBVIOUS
    <3>4. d \in CursorType /\ d.sub = c.sub /\ d.mode # "list"
      BY <3>2, <3>3, SpendTyped
    <3>5. cursors' = [cursors EXCEPT ![n] = d]
      BY <2>1, <3>1, <3>3
    <3> QED BY <1>7, <2>1, <3>4, <3>5
  <2>2. ASSUME NEW a \in c.set, c.mode = "list", cursors' = Front(cursors)
        PROVE  cursors' \in Seq(CursorType) /\ \A s \in Subgoals : Within(s)' = Within(s)
    <3>1. /\ cursors' \in Seq(CursorType) /\ DOMAIN cursors' = 1 .. n - 1
          /\ \A k \in 1 .. n - 1 : cursors'[k] = cursors[k]
      BY <1>1, <1>2, <2>2 DEF Front, n
    <3>2. \A k \in 1 .. n : k \in 1 .. n - 1 \/ k = n
      BY <1>2
    <3>3. \A s \in Subgoals : Within(s)' = Within(s)
      BY <1>2, <1>3, <2>2, <3>1, <3>2 DEF Within
    <3> QED BY <3>1, <3>3
  <2>3. ASSUME NEW a \in c.set, c.mode = "list",
               cursors' = [cursors EXCEPT ![n].set = @ \ {a}]
        PROVE  cursors' \in Seq(CursorType) /\ \A s \in Subgoals : Within(s)' = Within(s)
    <3>1. PICK d : d = [c EXCEPT !.set = @ \ {a}]
      OBVIOUS
    <3>2. d \in CursorType /\ d.mode = "list" /\ d.sub = c.sub
      BY <1>4, <1>5, <2>3, <3>1 DEF CursorType
    <3>3. cursors' = [cursors EXCEPT ![n] = d]
      BY <1>1, <1>2, <1>3, <2>3, <3>1
    <3> QED BY <1>7, <2>3, <3>2, <3>3
  <2>4. \/ c.mode = "trie" /\ \E a \in table[c.sub].answers :
             cursors' = [cursors EXCEPT ![n] = Spend([c EXCEPT !.set = @ \cup {a}])]
        \/ c.mode = "list" /\ \E a \in c.set :
             \/ cursors' = Front(cursors)
             \/ cursors' = [cursors EXCEPT ![n].set = @ \ {a}]
    BY <1>4 DEF Resume, n
  <2> QED BY <2>1, <2>2, <2>3, <2>4
<1>9. \A s \in Subgoals : VisitsKept(s)
  BY <1>1 DEF VisitsKept, Complete
<1>10. \A s \in Subgoals : Counted(s)' /\ LeftAlone(s)'
  BY <1>8, <1>9, VisitsStay
<1> QED BY <1>6, <1>8, <1>10 DEF VisInv

LEMMA CloseVisits ==
  ASSUME GraphInv, VisInv, Close
  PROVE  VisInv'
<1> DEFINE n == Len(cursors)
<1>1. /\ cursors # <<>> /\ UNCHANGED <<node, lazy, sccs>> /\ Idle
      /\ cursors \in Seq(CursorType) /\ cursors' = Front(cursors)
  BY DEF Close, evalVars, VisInv
<1>2. n \in Nat \ {0} /\ DOMAIN cursors = 1 .. n
  BY <1>1
<1>3. PICK c : c = cursors[n]
  OBVIOUS
<1>4. c \in CursorType /\ Last(cursors) = c
  BY <1>1, <1>2, <1>3 DEF Last
<1>5. PICK s : s = c.sub
  OBVIOUS
<1>6. s \in Subgoals
  BY <1>4, <1>5 DEF CursorType
<1>7. /\ cursors' \in Seq(CursorType) /\ DOMAIN cursors' = 1 .. n - 1
      /\ \A k \in 1 .. n - 1 : cursors'[k] = cursors[k]
  BY <1>1, <1>2 DEF Front
<1>8. IF c.mode = "list" THEN table' = table
      ELSE table' = [table EXCEPT ![s].visitors = @ - 1]
  BY <1>4, <1>5 DEF Close, Unvisited
<1> HIDE DEF n
<1>9. ReturnsFresh' /\ SpentFresh'
  BY <1>1, IdleReturns DEF VisInv
<1>10. \A k \in 1 .. n : k \in 1 .. n - 1 \/ k = n
  BY <1>2
<1>11. ASSUME NEW t \in Subgoals, t # s \/ c.mode = "list"
       PROVE  Counted(t)' /\ LeftAlone(t)'
  <2>1. Within(t)' = Within(t)
    BY <1>2, <1>3, <1>5, <1>7, <1>10, <1>11 DEF Within
  <2>2. table'[t] = table[t]
    BY <1>8, <1>11 DEF GraphInv, GraphTyped
  <2>3. VisitsKept(t)
    BY <1>1, <2>2 DEF VisitsKept, Complete
  <2> QED BY <2>1, <2>3, VisitsStay
<1>12. ASSUME c.mode # "list" PROVE Counted(s)' /\ LeftAlone(s)'
  <2>1. n \in Within(s) /\ n \notin 1 .. n - 1
    BY <1>2, <1>3, <1>5, <1>12 DEF Within
  <2>2. Within(s)' = Within(s) \ {n}
    BY <1>2, <1>7, <1>10, <2>1 DEF Within
  <2>3. Complete(s) /\ table[s].visitors = Cardinality(Within(s))
        /\ node[Cur(s)].direct = FALSE
    <3>1. Complete(s) /\ table[s].visitors = Cardinality(Within(s))
      BY <1>6, <2>1 DEF VisInv, Counted
    <3>2. node[Cur(s)].direct \in BOOLEAN
      BY <1>6, CountTyped, NodesAreCurOrPrev
    <3> QED BY <1>6, <2>1, <3>1, <3>2 DEF VisInv, LeftAlone
  <2>4. IsFiniteSet(Within(s)) /\ Cardinality(Within(s)) \in Nat
    BY <1>1, WithinFinite
  <2>5. Cardinality(Within(s) \ {n}) = Cardinality(Within(s)) - 1
    BY <2>1, <2>4, FS_RemoveElement
  <2>6. table'[s].visitors = table[s].visitors - 1 /\ table'[s].state = table[s].state
    BY <1>6, <1>8, <1>12 DEF GraphInv, GraphTyped, TableType
  <2>7. Cardinality(Within(s)') = Cardinality(Within(s)) - 1
    BY <2>2, <2>5
  <2> QED BY <1>1, <2>3, <2>6, <2>7 DEF Counted, LeftAlone, Complete
<1>13. \A t \in Subgoals : Counted(t)' /\ LeftAlone(t)'
  BY <1>11, <1>12
<1> QED BY <1>7, <1>9, <1>13 DEF VisInv

LEMMA IdleStepsVisits ==
  ASSUME GraphInv, CoverInv, CountsLow, VisInv, NEW g \in Goals,
         \/ g \in Leaves /\ \E f \in SUBSET Answers : Update(g, f)
         \/ g \in Subgoals /\ (Invalidate(g) \/ Abolish(g))
  PROVE  VisInv'
<1>1. /\ Quiet /\ (g \in Subgoals => Complete(g)) /\ Idle /\ UNCHANGED <<sccs, lazy>>
  BY IdleIsQuiet, SetsAssumption DEF Update, Invalidate, Abolish, Idle, evalVars
<1>2. PICK nd : nd = Invalidation(g)
  OBVIOUS
<1>3. Invalidated(nd)
  BY <1>1, <1>2, InvalidatedCounts
<1>4. ReturnsFresh' /\ SpentFresh'
  BY <1>1, IdleReturns DEF VisInv
<1>5. CASE node' = nd /\ UNCHANGED <<table, cursors>>
  <2>1. \A s \in Subgoals : VisitsKept(s)
    BY <1>3, <1>5 DEF VisitsKept, Complete, Invalidated
  <2> QED BY <1>4, <1>5, <2>1, CursorsKept
<1>6. CASE g \in Subgoals /\ Abolish(g)
  <2> DEFINE D == {k \in DOMAIN cursors : cursors[k].sub = g /\ cursors[k].mode # "list"}
  <2>1. /\ node' = [nd EXCEPT ![Cur(g)] = NoNode] /\ table' = [table EXCEPT ![g] = NoTable]
        /\ CopiedOut(D)
    BY <1>2, <1>6 DEF Abolish, CopiedOut
  <2>2. cursors \in Seq(CursorType)
    BY DEF VisInv
  <2>3. /\ cursors' \in Seq(CursorType) /\ DOMAIN cursors' = DOMAIN cursors
        /\ \A k \in DOMAIN cursors : /\ cursors'[k].sub = cursors[k].sub
                                     /\ k \in D => cursors'[k].mode = "list"
                                     /\ k \notin D => cursors'[k] = cursors[k]
    <3> HIDE DEF D
    <3> QED BY <2>1, <2>2, CopiesTyped
  <2>4. DOMAIN nd = Nodes
    BY <1>2, InvalidationKeepsNodes DEF GraphInv, GraphTyped, SameNodes
  <2>5. \A s \in Subgoals : s # g => node'[Cur(s)] = nd[Cur(s)] /\ table'[s] = table[s]
    BY <2>1, <2>4, NodesAreCurOrPrev DEF GraphInv, GraphTyped
  <2>6. ASSUME NEW s \in Subgoals, s # g PROVE Counted(s)' /\ LeftAlone(s)'
    <3>1. Within(s)' = Within(s)
      BY <2>3, <2>6 DEF Within
    <3>2. VisitsKept(s)
      BY <1>3, <2>5, <2>6 DEF VisitsKept, Complete, Invalidated
    <3> QED BY <3>1, <3>2, VisitsStay
  <2>7. Counted(g)' /\ LeftAlone(g)'
    <3>1. Within(g)' = {}
      BY <2>3 DEF Within
    <3>2. ~Complete(g)'
      BY <1>6, <2>1 DEF Complete, NoTable, GraphInv, GraphTyped
    <3> QED BY <3>1, <3>2 DEF Counted, LeftAlone
  <2> QED BY <1>4, <2>3, <2>6, <2>7 DEF VisInv
<1> QED BY <1>2, <1>5, <1>6 DEF Update, Invalidate

LEMMA CallTableVisits ==
  ASSUME GraphInv, CoverInv, VisInv, ~Idle, NEW p \in Callers, Runs(p), NEW g \in Subgoals,
         NEW use \in {"call", "if"}, NEW rest \in Seq(ItemType), FreshItems(p, rest),
         CallTable(p, g, use, rest)
  PROVE  VisInv'
<1>1. use # "return"
  OBVIOUS
<1> QED BY <1>1, FindTableVisits, ReevaluateVisits, ProduceVisits DEF CallTable

LEMMA CallGoalVisits ==
  ASSUME GraphInv, CoverInv, VisInv, NEW s \in Subgoals, NEW g \in Goals, CallGoal(s, g)
  PROVE  VisInv'
<1>1. s \in Callers /\ Runs(s)
  BY DEF CallGoal, Callers
<1>2. ~Idle
  BY <1>1, BusyCaller
<1>3. PICK rest : rest = <<>>
  OBVIOUS
<1>4. rest \in Seq(ItemType) /\ FreshItems(s, rest)
  BY <1>3 DEF FreshItems
<1>5. CASE g \in Leaves /\ CallLeaf(s, g)
  BY <1>5, CallLeafVisits
<1>6. CASE g \in Subgoals /\ CallTable(s, g, "call", rest)
  BY <1>1, <1>2, <1>4, <1>6, CallTableVisits
<1> QED BY <1>3, <1>5, <1>6 DEF CallGoal

LEMMA LazyCallVisits ==
  ASSUME GraphInv, CoverInv, VisInv, NEW p \in Callers, LazyCall(p)
  PROVE  VisInv'
<1>1. Runs(p) /\ lazy[p] # <<>>
  BY DEF LazyCall
<1>2. ~Idle
  BY <1>1, BusyCaller
<1>3. PICK item : item = Head(lazy[p])
  OBVIOUS
<1>4. PICK rest : rest = Tail(lazy[p])
  OBVIOUS
<1>5. /\ item \in ItemType /\ item.sub \in Subgoals
      /\ rest \in Seq(ItemType) /\ FreshItems(p, rest)
  BY <1>1, <1>3, <1>4, ItemsLeft, FreshRest DEF VisInv, ItemType
<1>6. \/ lazy' = [lazy EXCEPT ![p] = rest] /\ UNCHANGED <<table, node, sccs, cursors>>
      \/ item.use \in {"call", "if"} /\ CallTable(p, item.sub, item.use, rest)
  BY <1>3, <1>4 DEF LazyCall
<1>7. CASE lazy' = [lazy EXCEPT ![p] = rest] /\ UNCHANGED <<table, node, sccs, cursors>>
  <2>1. \A s \in Subgoals : StaysFresh(s)
    BY <1>7 DEF StaysFresh, Affected
  <2>2. FreshItems(p, rest)'
    BY <1>5, <2>1, FreshStays
  <2>3. ReturnsFresh'
    BY <1>5, <1>7, <2>1, <2>2, OneListChanges DEF VisInv
  <2> QED BY <1>2, <1>7, <2>3, PlainVisits
<1>8. CASE item.use \in {"call", "if"} /\ CallTable(p, item.sub, item.use, rest)
  <2>1. PICK g, use : g = item.sub /\ use = item.use
    OBVIOUS
  <2>2. g \in Subgoals /\ use \in {"call", "if"} /\ CallTable(p, g, use, rest)
    BY <1>5, <1>8, <2>1
  <2> QED BY <1>1, <1>2, <1>5, <2>2, CallTableVisits
<1> QED BY <1>6, <1>7, <1>8

LEMMA NewAnswerVisits ==
  ASSUME GraphInv, VisInv, NEW s \in Subgoals, NEW a \in Answers, NewAnswer(s, a)
  PROVE  VisInv'
<1>1. /\ UNCHANGED <<node, cursors, lazy, sccs>>
      /\ table' = [table EXCEPT ![s].answers = @ \cup {a}, ![s].previous = @ \ {a},
                                ![s].changed = @ \/ a \notin table[s].previous]
  BY DEF NewAnswer, evalVars
<1>2. \A t \in Subgoals : table'[t].state = table[t].state
                          /\ table'[t].visitors = table[t].visitors
  <2> DEFINE tb == [table[s] EXCEPT !.answers = @ \cup {a}, !.previous = @ \ {a},
                                    !.changed = @ \/ a \notin table[s].previous]
  <2>1. table' = [table EXCEPT ![s] = tb] /\ table[s] \in TableType
    BY <1>1 DEF GraphInv, GraphTyped
  <2>2. tb.state = table[s].state /\ tb.visitors = table[s].visitors
    BY <2>1 DEF TableType
  <2> HIDE DEF tb
  <2> QED BY <2>1, <2>2 DEF GraphInv, GraphTyped
<1>3. ReturnsFresh'
  <2>1. \A t \in Subgoals : StaysFresh(t)
    BY <1>1, <1>2 DEF StaysFresh, Affected
  <2> QED BY <1>1, <2>1, NoListChanges DEF VisInv
<1> QED BY <1>1, <1>2, <1>3, PlainVisits DEF Idle

LEMMA NextVisits ==
  ASSUME GraphInv, CoverInv, CountsLow, VisInv, SpentQueries = FALSE, [Next]_vars
  PROVE  VisInv'
<1>1. CASE Engine
  BY <1>1, CallGoalVisits, NewAnswerVisits, LazyCallVisits, CompleteSccVisits, ReturnVisits
     DEF Engine
<1>2. CASE \E s \in Subgoals : Query(s) \/ Invalidate(s) \/ Abolish(s)
  <2>1. PICK s \in Subgoals : Query(s) \/ Invalidate(s) \/ Abolish(s)
    BY <1>2
  <2>2. s \in Goals
    BY DEF Goals
  <2> QED BY <2>1, <2>2, QueryVisits, IdleStepsVisits
<1>3. CASE \E l \in Leaves, f \in SUBSET Answers : Update(l, f)
  <2>1. PICK l \in Leaves : \E f \in SUBSET Answers : Update(l, f)
    BY <1>3
  <2>2. l \in Goals
    BY DEF Goals
  <2> QED BY <2>1, <2>2, IdleStepsVisits
<1>4. CASE Resume \/ Close \/ Throw
  BY <1>4, ResumeVisits, CloseVisits, ThrowVisits
<1>5. CASE UNCHANGED vars
  <2>1. ReturnsFresh'
    BY <1>5 DEF vars, evalVars, VisInv, ReturnsFresh, FreshItems, ItemFresh, Affected
  <2> QED BY <1>5, <2>1, PlainVisits DEF vars, evalVars, Idle
<1> QED BY <1>1, <1>2, <1>3, <1>4, <1>5 DEF Next

LEMMA VisitsHold == Init => VisInv
<1> SUFFICES ASSUME Init PROVE VisInv
  OBVIOUS
<1>1. cursors = <<>> /\ \A s \in Subgoals : ~Complete(s)
  BY DEF Init, NoTable, Complete
<1>2. cursors \in Seq(CursorType) /\ \A s : Within(s) = {}
  BY <1>1 DEF Within
<1>3. SpentFresh
  BY <1>1 DEF SpentFresh
<1>4. ReturnsFresh
  BY DEF Init, ReturnsFresh, FreshItems
<1> QED BY <1>1, <1>2, <1>3, <1>4 DEF VisInv, Counted, LeftAlone

(* The visitors of a complete table are the choice points in its trie, and a  *)
(* table that is recomputed has none: find_the_visitors (call_graph_xsb.c)    *)
(* leaves no query inside a trie that is then freed.  It holds for queries    *)
(* that are not called over a spent choice point of an affected table.        *)
THEOREM VisitorsAreCounted ==
  ASSUME ThrowsAnywhere = FALSE, SpentQueries = FALSE
  PROVE  Spec /\ []CountsLow => []VisitorsCounted
<1>1. VisInv => VisitorsCounted
  BY DEF VisInv, VisitorsCounted, Counted, Within
<1>2. GraphInv /\ GraphInv' /\ CoverInv /\ CountsLow /\ [Next]_vars => CoverInv'
  BY NextCovers
<1>3. GraphInv /\ CoverInv /\ CountsLow /\ VisInv /\ [Next]_vars => VisInv'
  BY NextVisits
<1> QED BY <1>1, <1>2, <1>3, InvHolds, CoverHolds, VisitsHold, PTL DEF Spec
=============================================================================
