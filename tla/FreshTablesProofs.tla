------------------------- MODULE FreshTablesProofs -------------------------
(* No answer is taken from a stale table: IncrementalTabling keeps what the   *)
(* complete and unaffected tables hold equal to the least model of their      *)
(* clauses over the facts (FreshTables!Meaning), through updates, lazy        *)
(* re-evaluation and the propagation of unchanged tables                      *)
(* (emu/call_graph_xsb.c, emu/tables.c); and the queries, open ones included, *)
(* return what FreshTables lets them return (emu/tc_insts_xsb_i.h).           *)
EXTENDS IncrementalTablingProofs, EntryLists

-----------------------------------------------------------------------------
(* A function that is applied again and again.                                *)
IterUpTo(X, T, x0, n, w) ==
  /\ w \in [0 .. n -> X] /\ w[0] = x0
  /\ \A k \in 0 .. n : k # 0 => w[k] = T[w[k - 1]]
Iterates(X, T, x0, d) ==
  /\ d \in [Nat -> X] /\ d[0] = x0
  /\ \A n \in Nat : d[n + 1] = T[d[n]]

LEMMA IterExistsUpTo ==
  ASSUME NEW X, NEW x0 \in X, NEW T \in [X -> X], NEW n \in Nat
  PROVE  \E w : IterUpTo(X, T, x0, n, w)
<1> DEFINE S == {k \in Nat : \E w : IterUpTo(X, T, x0, k, w)}
<1>1. 0 \in S
  <2>1. IterUpTo(X, T, x0, 0, [i \in 0 .. 0 |-> x0])
    BY DEF IterUpTo
  <2> QED BY <2>1
<1>2. ASSUME NEW k \in S PROVE k + 1 \in S
  <2>1. PICK w : IterUpTo(X, T, x0, k, w)
    OBVIOUS
  <2>2. k \in Nat /\ w \in [0 .. k -> X] /\ w[0] = x0 /\ w[k] \in X
        /\ \A i \in 0 .. k : i # 0 => w[i] = T[w[i - 1]]
    BY <2>1 DEF IterUpTo
  <2> DEFINE v == [i \in 0 .. k + 1 |-> IF i = k + 1 THEN T[w[k]] ELSE w[i]]
  <2>3. v \in [0 .. k + 1 -> X] /\ v[0] = x0
    BY <2>2
  <2>4. ASSUME NEW i \in 0 .. k + 1, i # 0 PROVE v[i] = T[v[i - 1]]
    <3>1. i - 1 \in 0 .. k /\ i - 1 # k + 1 /\ v[i - 1] = w[i - 1]
      BY <2>2, <2>4
    <3>2. CASE i = k + 1
      <4>1. v[i] = T[w[k]] /\ i - 1 = k
        BY <2>2, <3>2
      <4> HIDE DEF v
      <4> QED BY <3>1, <4>1
    <3>3. CASE i # k + 1
      <4>1. v[i] = w[i] /\ i \in 0 .. k
        BY <2>2, <3>3
      <4> HIDE DEF v
      <4> QED BY <2>2, <2>4, <3>1, <4>1
    <3> QED BY <3>2, <3>3
  <2> HIDE DEF v
  <2>5. IterUpTo(X, T, x0, k + 1, v)
    BY <2>3, <2>4 DEF IterUpTo
  <2> QED BY <2>2, <2>5
<1> HIDE DEF S
<1>3. S \subseteq Nat
  BY DEF S
<1>4. n \in S
  BY <1>1, <1>2, <1>3, SetInduction
<1> QED BY <1>4 DEF S

LEMMA IterUnique ==
  ASSUME NEW X, NEW x0 \in X, NEW T \in [X -> X], NEW n \in Nat, NEW m \in Nat, NEW w, NEW v,
         IterUpTo(X, T, x0, n, w), IterUpTo(X, T, x0, m, v), NEW i \in Nat, i <= n, i <= m
  PROVE  w[i] = v[i]
<1> DEFINE S == {k \in Nat : k <= n /\ k <= m => w[k] = v[k]}
<1>1. 0 \in S
  BY DEF IterUpTo
<1>2. ASSUME NEW k \in S PROVE k + 1 \in S
  <2>1. k \in Nat
    OBVIOUS
  <2> SUFFICES ASSUME k + 1 <= n, k + 1 <= m PROVE w[k + 1] = v[k + 1]
    BY <2>1
  <2>2. w[k] = v[k] /\ k + 1 \in 0 .. n /\ k + 1 \in 0 .. m /\ k + 1 # 0 /\ (k + 1) - 1 = k
    BY <2>1
  <2> QED BY <2>2 DEF IterUpTo
<1> HIDE DEF S
<1>3. S \subseteq Nat
  BY DEF S
<1>4. i \in S
  BY <1>1, <1>2, <1>3, SetInduction
<1> QED BY <1>4 DEF S

LEMMA IterExists ==
  ASSUME NEW X, NEW x0 \in X, NEW T \in [X -> X]
  PROVE  \E d : Iterates(X, T, x0, d)
<1> DEFINE W(n) == CHOOSE w : IterUpTo(X, T, x0, n, w)
           d == [n \in Nat |-> W(n)[n]]
<1>1. ASSUME NEW n \in Nat PROVE IterUpTo(X, T, x0, n, W(n))
  BY IterExistsUpTo
<1>2. ASSUME NEW n \in Nat PROVE d[n] = W(n)[n] /\ d[n] \in X
  <2>1. d[n] = W(n)[n]
    OBVIOUS
  <2>2. W(n)[n] \in X
    <3> HIDE DEF W
    <3> QED BY <1>1 DEF IterUpTo
  <2> HIDE DEF d, W
  <2> QED BY <2>1, <2>2
<1> HIDE DEF W
<1>3. d \in [Nat -> X]
  BY <1>2
<1> HIDE DEF d
<1>4. d[0] = x0
  BY <1>1, <1>2 DEF IterUpTo
<1>5. ASSUME NEW n \in Nat PROVE d[n + 1] = T[d[n]]
  <2>1. /\ n + 1 \in Nat /\ n + 1 \in 0 .. n + 1 /\ n + 1 # 0
        /\ (n + 1) - 1 = n /\ n <= n /\ n <= n + 1
    OBVIOUS
  <2>2. W(n + 1)[n + 1] = T[W(n + 1)[n]]
    BY <1>1, <2>1 DEF IterUpTo
  <2>3. W(n + 1)[n] = W(n)[n]
    BY <1>1, <2>1, IterUnique
  <2> QED BY <1>2, <2>1, <2>2, <2>3
<1> QED BY <1>3, <1>4, <1>5 DEF Iterates

-----------------------------------------------------------------------------
(* The least model.  It is what the iteration of FreshTables!Meaning reaches: *)
(* each round derives something new until nothing is left, and there are no   *)
(* more answers than rounds.                                                  *)
Valuations == [Subgoals -> SUBSET Answers]
ValIn(fct, v, g) == IF g \in Leaves THEN fct[g] ELSE v[g]
Follows(cl, fct, v, s) ==
  {a \in Answers : \E b \in cl[s] : \A i \in DOMAIN b : a \in ValIn(fct, v, b[i])}
Model(cl, fct, v) == \A s \in Subgoals : Follows(cl, fct, v, s) \subseteq v[s]
Round(cl, fct) == [v \in Valuations |-> [s \in Subgoals |-> Follows(cl, fct, v, s)]]
Nothing0 == [s \in Subgoals |-> {}]

ClausesTyped(cl) == cl \in [Subgoals -> SUBSET Seq(Goals)]

LEMMA RoundTyped ==
  ASSUME NEW cl, NEW fct
  PROVE  Round(cl, fct) \in [Valuations -> Valuations] /\ Nothing0 \in Valuations
BY DEF Round, Valuations, Follows, Nothing0

LEMMA MoreFollows ==
  ASSUME NEW cl, ClausesTyped(cl), NEW fct, NEW v, NEW w,
         \A s \in Subgoals : v[s] \subseteq w[s], NEW s \in Subgoals
  PROVE  Follows(cl, fct, v, s) \subseteq Follows(cl, fct, w, s)
<1> SUFFICES ASSUME NEW a \in Follows(cl, fct, v, s) PROVE a \in Follows(cl, fct, w, s)
  OBVIOUS
<1>1. PICK b \in cl[s] : \A i \in DOMAIN b : a \in ValIn(fct, v, b[i])
  BY DEF Follows
<1>2. b \in Seq(Goals)
  BY DEF ClausesTyped
<1>3. \A i \in DOMAIN b : b[i] \in Goals
  BY <1>2
<1>4. \A i \in DOMAIN b : a \in ValIn(fct, w, b[i])
  BY <1>1, <1>3 DEF ValIn, Goals
<1> QED BY <1>1, <1>4 DEF Follows

LEMMA MeaningIterates ==
  ASSUME NEW cl, ClausesTyped(cl), NEW fct
  PROVE  \E d : /\ Iterates(Valuations, Round(cl, fct), Nothing0, d)
                /\ Fresh!Meaning(cl, fct) = d[Cardinality(Subgoals) * Cardinality(Answers)]
<1> DEFINE Next0(before) ==
      LET val == [g \in Subgoals \cup Leaves |-> IF g \in Leaves THEN fct[g] ELSE before[g]]
      IN [s \in Subgoals |-> UNION {Fresh!Join(b, val) : b \in cl[s]}]
           Is(d) == d = [n \in Nat |-> IF n = 0 THEN [s \in Subgoals |-> {}]
                                       ELSE Next0(d[n - 1])]
<1>1. ASSUME NEW v \in Valuations PROVE Next0(v) = Round(cl, fct)[v]
  <2> DEFINE val == [g \in Subgoals \cup Leaves |-> IF g \in Leaves THEN fct[g] ELSE v[g]]
  <2>1. ASSUME NEW s \in Subgoals
        PROVE  UNION {Fresh!Join(b, val) : b \in cl[s]} = Follows(cl, fct, v, s)
    <3>1. ASSUME NEW b \in cl[s]
          PROVE  Fresh!Join(b, val) =
                   {a \in Answers : \A i \in DOMAIN b : a \in ValIn(fct, v, b[i])}
      <4>1. b \in Seq(Goals)
        BY DEF ClausesTyped
      <4>2. \A i \in DOMAIN b : b[i] \in Subgoals \cup Leaves
        BY <4>1 DEF Goals
      <4>3. \A i \in DOMAIN b : val[b[i]] = ValIn(fct, v, b[i])
        BY <4>2 DEF ValIn
      <4> HIDE DEF val
      <4> QED BY <4>3 DEF Fresh!Join
    <3> HIDE DEF val
    <3>2. Follows(cl, fct, v, s) =
            UNION {{a \in Answers : \A i \in DOMAIN b : a \in ValIn(fct, v, b[i])} : b \in cl[s]}
      BY DEF Follows
    <3> QED BY <3>1, <3>2
  <2>2. Next0(v) = [s \in Subgoals |-> UNION {Fresh!Join(b, val) : b \in cl[s]}]
    OBVIOUS
  <2> HIDE DEF val, Next0
  <2> QED BY <2>1, <2>2 DEF Round
<1>2. \E d : Is(d) /\ Iterates(Valuations, Round(cl, fct), Nothing0, d)
  <2>1. PICK d : Iterates(Valuations, Round(cl, fct), Nothing0, d)
    BY RoundTyped, IterExists
  <2>2. d \in [Nat -> Valuations] /\ d[0] = Nothing0
        /\ \A n \in Nat : d[n + 1] = Round(cl, fct)[d[n]]
    BY <2>1 DEF Iterates
  <2>3. ASSUME NEW n \in Nat
        PROVE  d[n] = IF n = 0 THEN [s \in Subgoals |-> {}] ELSE Next0(d[n - 1])
    <3>1. CASE n = 0
      BY <2>2, <3>1 DEF Nothing0
    <3>2. CASE n # 0
      <4>1. n - 1 \in Nat /\ (n - 1) + 1 = n
        BY <3>2
      <4>2. d[n] = Round(cl, fct)[d[n - 1]] /\ d[n - 1] \in Valuations
        BY <2>2, <4>1
      <4>3. Next0(d[n - 1]) = Round(cl, fct)[d[n - 1]]
        BY <1>1, <4>2
      <4> HIDE DEF Next0
      <4> QED BY <3>2, <4>2, <4>3
    <3> QED BY <3>1, <3>2
  <2> HIDE DEF Next0
  <2>4. Is(d)
    BY <2>2, <2>3
  <2> QED BY <2>1, <2>4
<1> DEFINE D == CHOOSE d : Is(d)
<1>3. Is(D)
  <2> HIDE DEF Is
  <2> QED BY <1>2
<1>4. Fresh!Meaning(cl, fct) = D[Cardinality(Subgoals) * Cardinality(Answers)]
  <2>1. \A S : Fresh!Cardinality(S) = Cardinality(S)
    BY DEF Fresh!Cardinality, Cardinality
  <2>2. Fresh!Meaning(cl, fct) = D[Fresh!Cardinality(Subgoals) * Fresh!Cardinality(Answers)]
    BY DEF Fresh!Meaning
  <2> HIDE DEF D
  <2> QED BY <2>1, <2>2
<1>5. Iterates(Valuations, Round(cl, fct), Nothing0, D)
  <2>1. PICK d : Is(d) /\ Iterates(Valuations, Round(cl, fct), Nothing0, d)
    BY <1>2
  <2>2. ASSUME NEW n \in Nat PROVE D[n] = d[n]
    <3> DEFINE S == {k \in Nat : D[k] = d[k]}
    <3> HIDE DEF D, Next0
    <3>1. \A k \in Nat : /\ D[k] = IF k = 0 THEN [s \in Subgoals |-> {}] ELSE Next0(D[k - 1])
                         /\ d[k] = IF k = 0 THEN [s \in Subgoals |-> {}] ELSE Next0(d[k - 1])
      <4>1. ASSUME NEW f, Is(f), NEW k \in Nat
            PROVE  f[k] = IF k = 0 THEN [s \in Subgoals |-> {}] ELSE Next0(f[k - 1])
        BY <4>1
      <4> HIDE DEF Is
      <4> QED BY <1>3, <2>1, <4>1
    <3>2. 0 \in S
      BY <3>1
    <3>3. ASSUME NEW k \in S PROVE k + 1 \in S
      <4>1. k \in Nat /\ k + 1 \in Nat /\ k + 1 # 0 /\ (k + 1) - 1 = k /\ D[k] = d[k]
        OBVIOUS
      <4>2. D[k + 1] = Next0(D[k]) /\ d[k + 1] = Next0(d[k])
        BY <3>1, <4>1
      <4> QED BY <4>1, <4>2
    <3> HIDE DEF S
    <3>4. n \in S
      BY <3>2, <3>3, SetInduction
    <3> QED BY <3>4 DEF S
  <2>3. d \in [Nat -> Valuations]
    BY <2>1 DEF Iterates
  <2>4. D = [n \in Nat |-> D[n]]
    <3> HIDE DEF D, Next0
    <3> QED BY <1>3
  <2> HIDE DEF D
  <2>5. D = d
    BY <2>2, <2>3, <2>4
  <2> HIDE DEF Is
  <2> QED BY <2>1, <2>5
<1> HIDE DEF D
<1> QED BY <1>4, <1>5

LEMMA MeaningIsLeast ==
  ASSUME NEW cl, ClausesTyped(cl), NEW fct,
         NEW v \in Valuations, Model(cl, fct, v), NEW s \in Subgoals
  PROVE  Fresh!Meaning(cl, fct)[s] \subseteq v[s]
<1>1. PICK d : /\ Iterates(Valuations, Round(cl, fct), Nothing0, d)
               /\ Fresh!Meaning(cl, fct) = d[Cardinality(Subgoals) * Cardinality(Answers)]
  BY MeaningIterates
<1>2. d \in [Nat -> Valuations] /\ d[0] = Nothing0
      /\ \A n \in Nat : d[n + 1] = Round(cl, fct)[d[n]]
  BY <1>1 DEF Iterates
<1> DEFINE S == {n \in Nat : \A t \in Subgoals : d[n][t] \subseteq v[t]}
           N == Cardinality(Subgoals) * Cardinality(Answers)
<1>3. 0 \in S
  BY <1>2 DEF Nothing0
<1>4. ASSUME NEW n \in S PROVE n + 1 \in S
  <2>1. n \in Nat /\ n + 1 \in Nat /\ \A t \in Subgoals : d[n][t] \subseteq v[t]
    OBVIOUS
  <2>2. d[n] \in Valuations /\ d[n + 1] = Round(cl, fct)[d[n]]
    BY <1>2, <2>1
  <2>3. ASSUME NEW t \in Subgoals PROVE d[n + 1][t] \subseteq v[t]
    <3>1. d[n + 1][t] = Follows(cl, fct, d[n], t)
      BY <2>2 DEF Round
    <3>2. Follows(cl, fct, d[n], t) \subseteq Follows(cl, fct, v, t)
      BY <2>1, MoreFollows
    <3> QED BY <3>1, <3>2 DEF Model
  <2> QED BY <2>1, <2>3
<1>5. N \in Nat
  <2>1. Cardinality(Subgoals) \in Nat /\ Cardinality(Answers) \in Nat
    BY SetsAssumption, AnswersAssumption, FS_CardinalityType
  <2> QED BY <2>1
<1> HIDE DEF N
<1>6. S \subseteq Nat
  OBVIOUS
<1> HIDE DEF S
<1>7. N \in S
  BY <1>3, <1>4, <1>5, <1>6, SetInduction
<1>8. Fresh!Meaning(cl, fct) = d[N]
  BY <1>1 DEF N
<1> QED BY <1>7, <1>8 DEF S

(* The rounds grow, and stop after as many of them as there can be answers.   *)
Pairs(v) == {x \in Subgoals \X Answers : x[2] \in v[x[1]]}

LEMMA PairsFinite ==
  ASSUME NEW v
  PROVE  /\ IsFiniteSet(Pairs(v)) /\ Cardinality(Pairs(v)) \in Nat
         /\ Cardinality(Pairs(v)) <= Cardinality(Subgoals) * Cardinality(Answers)
<1>1. /\ IsFiniteSet(Subgoals \X Answers)
      /\ Cardinality(Subgoals \X Answers) = Cardinality(Subgoals) * Cardinality(Answers)
  BY SetsAssumption, AnswersAssumption, FS_Product
<1>2. Pairs(v) \subseteq Subgoals \X Answers
  BY DEF Pairs
<1>3. IsFiniteSet(Pairs(v)) /\ Cardinality(Pairs(v)) <= Cardinality(Subgoals \X Answers)
  BY <1>1, <1>2, FS_Subset
<1> QED BY <1>1, <1>3, FS_CardinalityType

LEMMA PairsGrow ==
  ASSUME NEW v \in Valuations, NEW w \in Valuations, v # w,
         \A s \in Subgoals : v[s] \subseteq w[s]
  PROVE  Cardinality(Pairs(v)) + 1 <= Cardinality(Pairs(w))
<1>1. PICK s \in Subgoals : v[s] # w[s]
  BY DEF Valuations
<1>2. PICK a \in Answers : a \in w[s] /\ a \notin v[s]
  BY <1>1 DEF Valuations
<1>3. /\ <<s, a>> \in Pairs(w) /\ <<s, a>> \notin Pairs(v) /\ Pairs(v) \subseteq Pairs(w)
  BY <1>2 DEF Pairs
<1>4. IsFiniteSet(Pairs(v)) /\ IsFiniteSet(Pairs(w))
      /\ Cardinality(Pairs(v)) \in Nat /\ Cardinality(Pairs(w)) \in Nat
  BY PairsFinite
<1>5. Cardinality(Pairs(v) \cup {<<s, a>>}) = Cardinality(Pairs(v)) + 1
  BY <1>3, <1>4, FS_AddElement
<1>6. Cardinality(Pairs(v) \cup {<<s, a>>}) <= Cardinality(Pairs(w))
  BY <1>3, <1>4, FS_Subset
<1> QED BY <1>4, <1>5, <1>6

LEMMA MeaningIsModel ==
  ASSUME NEW cl, ClausesTyped(cl), NEW fct
  PROVE  /\ Fresh!Meaning(cl, fct) \in Valuations
         /\ Model(cl, fct, Fresh!Meaning(cl, fct))
<1>1. PICK d : /\ Iterates(Valuations, Round(cl, fct), Nothing0, d)
               /\ Fresh!Meaning(cl, fct) = d[Cardinality(Subgoals) * Cardinality(Answers)]
  BY MeaningIterates
<1>2. d \in [Nat -> Valuations] /\ d[0] = Nothing0
      /\ \A n \in Nat : d[n + 1] = Round(cl, fct)[d[n]]
  BY <1>1 DEF Iterates
<1>3. ASSUME NEW n \in Nat
      PROVE  \A t \in Subgoals : d[n + 1][t] = Follows(cl, fct, d[n], t)
  BY <1>2 DEF Round
<1> DEFINE S == {n \in Nat : \A t \in Subgoals : d[n][t] \subseteq d[n + 1][t]}
           N == Cardinality(Subgoals) * Cardinality(Answers)
<1>4. N \in Nat
  <2>1. Cardinality(Subgoals) \in Nat /\ Cardinality(Answers) \in Nat
    BY SetsAssumption, AnswersAssumption, FS_CardinalityType
  <2> QED BY <2>1
<1>5. Fresh!Meaning(cl, fct) = d[N]
  BY <1>1
<1> HIDE DEF N
<1>6. 0 \in S
  BY <1>2 DEF Nothing0
<1>7. ASSUME NEW n \in S PROVE n + 1 \in S
  <2>1. n \in Nat /\ n + 1 \in Nat /\ \A t \in Subgoals : d[n][t] \subseteq d[n + 1][t]
    OBVIOUS
  <2>2. ASSUME NEW t \in Subgoals PROVE d[n + 1][t] \subseteq d[(n + 1) + 1][t]
    <3>1. /\ d[n + 1][t] = Follows(cl, fct, d[n], t)
          /\ d[(n + 1) + 1][t] = Follows(cl, fct, d[n + 1], t)
      BY <1>3, <2>1
    <3> QED BY <2>1, <3>1, MoreFollows
  <2> QED BY <2>1, <2>2
<1>8. S \subseteq Nat
  OBVIOUS
<1>9. ASSUME NEW n \in Nat PROVE \A t \in Subgoals : d[n][t] \subseteq d[n + 1][t]
  <2> HIDE DEF S
  <2>1. n \in S
    BY <1>6, <1>7, <1>8, SetInduction
  <2> QED BY <2>1 DEF S
<1> HIDE DEF S
<1>10. ASSUME \A n \in 0 .. N : d[n + 1] # d[n] PROVE FALSE
  <2> DEFINE R == {n \in Nat : n <= N + 1 => n <= Cardinality(Pairs(d[n]))}
  <2>1. 0 \in R
    <3>1. Cardinality(Pairs(d[0])) \in Nat
      BY PairsFinite
    <3> QED BY <3>1
  <2>2. ASSUME NEW n \in R PROVE n + 1 \in R
    <3>1. n \in Nat
      OBVIOUS
    <3> SUFFICES ASSUME n + 1 <= N + 1 PROVE n + 1 <= Cardinality(Pairs(d[n + 1]))
      BY <3>1
    <3>2. n \in 0 .. N /\ n <= Cardinality(Pairs(d[n]))
      BY <1>4, <3>1
    <3>3. d[n] \in Valuations /\ d[n + 1] \in Valuations /\ d[n + 1] # d[n]
      BY <1>2, <1>10, <3>1, <3>2
    <3>4. Cardinality(Pairs(d[n])) + 1 <= Cardinality(Pairs(d[n + 1]))
      BY <1>9, <3>1, <3>3, PairsGrow
    <3>5. Cardinality(Pairs(d[n])) \in Nat /\ Cardinality(Pairs(d[n + 1])) \in Nat
      BY PairsFinite
    <3> QED BY <3>1, <3>2, <3>4, <3>5
  <2>3. R \subseteq Nat
    OBVIOUS
  <2>4. N + 1 \in R
    <3> HIDE DEF R
    <3> QED BY <1>4, <2>1, <2>2, <2>3, SetInduction
  <2>5. N + 1 <= Cardinality(Pairs(d[N + 1]))
    BY <1>4, <2>4
  <2>6. Cardinality(Pairs(d[N + 1])) <= N /\ Cardinality(Pairs(d[N + 1])) \in Nat
    BY PairsFinite DEF N
  <2> QED BY <1>4, <2>5, <2>6
<1>11. PICK m \in 0 .. N : d[m + 1] = d[m]
  BY <1>10
<1>12. ASSUME NEW k \in Nat PROVE d[m + k] = d[m]
  <2> DEFINE R == {n \in Nat : d[m + n] = d[m]}
  <2>0. m \in Nat
    BY <1>4, <1>11
  <2>1. 0 \in R
    BY <2>0
  <2>2. ASSUME NEW n \in R PROVE n + 1 \in R
    <3>1. n \in Nat /\ d[m + n] = d[m] /\ m + n \in Nat /\ (m + n) + 1 = m + (n + 1)
      BY <2>0
    <3>2. d[(m + n) + 1] = Round(cl, fct)[d[m + n]] /\ d[m + 1] = Round(cl, fct)[d[m]]
      BY <1>2, <2>0, <3>1
    <3> QED BY <1>11, <3>1, <3>2
  <2>3. R \subseteq Nat
    OBVIOUS
  <2> HIDE DEF R
  <2>4. k \in R
    BY <2>1, <2>2, <2>3, SetInduction
  <2> QED BY <2>4 DEF R
<1>13. d[N] = d[m] /\ d[N + 1] = d[m] /\ N + 1 \in Nat
  <2>1. N - m \in Nat /\ (N + 1) - m \in Nat /\ m + (N - m) = N /\ m + ((N + 1) - m) = N + 1
    BY <1>4, <1>11
  <2>2. d[m + (N - m)] = d[m] /\ d[m + ((N + 1) - m)] = d[m]
    BY <1>12, <2>1
  <2> QED BY <1>4, <2>1, <2>2
<1>14. \A t \in Subgoals : Follows(cl, fct, d[N], t) = d[N][t]
  BY <1>3, <1>4, <1>13
<1>15. d[N] \in Valuations
  BY <1>2, <1>4
<1> QED BY <1>5, <1>14, <1>15 DEF Model

-----------------------------------------------------------------------------
(* The invariant.  What a goal holds for those that depend on it: a table     *)
(* that is being recomputed still holds the answers it may derive again.      *)
Held(g) ==
  IF g \in Leaves THEN facts[g]
  ELSE IF Complete(g) THEN table[g].answers
  ELSE table[g].answers \cup table[g].previous
Altered(t) == Incomplete(t) /\ table[t].changed

(* All that the count of a table stands for may still turn out unchanged.     *)
Clean(s) ==
  /\ CountOf(s) = Cardinality(PendingDeps(s))
  /\ \A t \in Deps(s) : ~Altered(t)
(* A clause that has been followed to its end has given its answers, and one  *)
(* that has not was left at a goal without them.                              *)
Closed(s) ==
  \A body \in program[s], a \in Answers :
    \/ \E i \in DOMAIN body : body[i] \in inn[Cur(s)] /\ a \notin Held(body[i])
    \/ Range(body) \subseteq inn[Cur(s)] /\ a \in table[s].answers
Supported(s) ==
  \A a \in table[s].answers : \E body \in program[s] : \A i \in DOMAIN body :
     body[i] \in inn[Cur(s)] /\ a \in Held(body[i])
Derived(s) ==
  \A a \in table[s].answers : \E body \in program[s] : \A i \in DOMAIN body :
     body[i] \in inn[Cur(s)] /\ a \in ValueOf(body[i])
Means == Fresh!Meaning(program, facts)

DepsLive(s) == Complete(s) => \A t \in Deps(s) : Complete(t) \/ node[Prev(t)].live
Settled(s)  == Complete(s) /\ Clean(s) => Closed(s) /\ Supported(s)
Working(s)  == Incomplete(s) => called[s] \subseteq inn[Cur(s)] /\ Derived(s)
Sound(s) ==
  Incomplete(s) \/ (Complete(s) /\ ~Affected(s)) => table[s].answers \subseteq Means[s]

FreshInv ==
  /\ ClausesTyped(program)
  /\ \A s \in Subgoals : DepsLive(s) /\ Settled(s) /\ Working(s) /\ Sound(s)

LEMMA SettledKept ==
  ASSUME NEW s \in Subgoals, Settled(s), program' = program,
         Complete(s)' /\ Clean(s)' =>
           /\ Complete(s) /\ Clean(s) /\ inn'[Cur(s)] = inn[Cur(s)]
           /\ table'[s].answers = table[s].answers
           /\ \A g \in inn[Cur(s)] : Held(g)' = Held(g)
  PROVE  Settled(s)'
<1> SUFFICES ASSUME Complete(s)', Clean(s)' PROVE Closed(s)' /\ Supported(s)'
  BY DEF Settled
<1>1. /\ Closed(s) /\ Supported(s) /\ inn'[Cur(s)] = inn[Cur(s)]
      /\ table'[s].answers = table[s].answers
      /\ \A g \in inn[Cur(s)] : Held(g)' = Held(g)
  BY DEF Settled
<1>2. Closed(s)'
  <2> SUFFICES ASSUME NEW body \in program[s], NEW a \in Answers
               PROVE  \/ \E i \in DOMAIN body : body[i] \in inn[Cur(s)] /\ a \notin Held(body[i])'
                      \/ Range(body) \subseteq inn[Cur(s)] /\ a \in table[s].answers
    BY <1>1 DEF Closed
  <2>1. CASE \E i \in DOMAIN body : body[i] \in inn[Cur(s)] /\ a \notin Held(body[i])
    <3>1. PICK i \in DOMAIN body : body[i] \in inn[Cur(s)] /\ a \notin Held(body[i])
      BY <2>1
    <3>2. PICK g : g = body[i]
      OBVIOUS
    <3>3. g \in inn[Cur(s)] /\ a \notin Held(g)'
      BY <1>1, <3>1, <3>2
    <3> QED BY <3>2, <3>3
  <2>2. CASE Range(body) \subseteq inn[Cur(s)] /\ a \in table[s].answers
    BY <2>2
  <2> QED BY <1>1, <2>1, <2>2 DEF Closed
<1>3. Supported(s)'
  <2> SUFFICES ASSUME NEW a \in table[s].answers
               PROVE  \E body \in program[s] : \A i \in DOMAIN body :
                        body[i] \in inn[Cur(s)] /\ a \in Held(body[i])'
    BY <1>1 DEF Supported
  <2>1. PICK body \in program[s] : \A i \in DOMAIN body :
                        body[i] \in inn[Cur(s)] /\ a \in Held(body[i])
    BY <1>1 DEF Supported
  <2>2. ASSUME NEW i \in DOMAIN body PROVE body[i] \in inn[Cur(s)] /\ a \in Held(body[i])'
    <3>1. PICK g : g = body[i]
      OBVIOUS
    <3>2. g \in inn[Cur(s)] /\ a \in Held(g)'
      BY <1>1, <2>1, <3>1
    <3> QED BY <3>1, <3>2
  <2> QED BY <2>2
<1> QED BY <1>2, <1>3

LEMMA WorkingKept ==
  ASSUME GraphInv, NEW s \in Subgoals, Working(s), UNCHANGED <<program, facts>>,
         Incomplete(s)' =>
           /\ Incomplete(s) /\ called'[s] \subseteq inn'[Cur(s)]
           /\ inn[Cur(s)] \subseteq inn'[Cur(s)] /\ table'[s].answers = table[s].answers
           /\ \A t \in Deps(s) : table[t].answers \subseteq table'[t].answers
  PROVE  Working(s)'
<1> SUFFICES ASSUME Incomplete(s)' PROVE called'[s] \subseteq inn'[Cur(s)] /\ Derived(s)'
  BY DEF Working
<1>1. Derived(s) /\ inn[Cur(s)] \subseteq Goals
  BY NodesAreCurOrPrev DEF Working, GraphInv, GraphTyped
<1>2. \A g \in inn[Cur(s)] : ValueOf(g) \subseteq ValueOf(g)'
  BY <1>1 DEF ValueOf, Deps, Goals
<1>3. ASSUME NEW a \in table[s].answers
      PROVE  \E body \in program[s] : \A i \in DOMAIN body :
               body[i] \in inn'[Cur(s)] /\ a \in ValueOf(body[i])'
  <2>1. PICK body \in program[s] : \A i \in DOMAIN body :
                        body[i] \in inn[Cur(s)] /\ a \in ValueOf(body[i])
    BY <1>1 DEF Derived
  <2>2. ASSUME NEW i \in DOMAIN body PROVE body[i] \in inn'[Cur(s)] /\ a \in ValueOf(body[i])'
    <3>1. PICK g : g = body[i]
      OBVIOUS
    <3>2. g \in inn'[Cur(s)] /\ a \in ValueOf(g)'
      BY <1>2, <2>1, <3>1
    <3> QED BY <3>1, <3>2
  <2> QED BY <2>2
<1> QED BY <1>3 DEF Derived

LEMMA CleanKept ==
  ASSUME NEW s \in Subgoals, CountOf(s)' = CountOf(s), Deps(s)' = Deps(s),
         \A t \in Deps(s) : /\ Pending(t)' <=> Pending(t)
                            /\ Altered(t) => Altered(t)'
  PROVE  Clean(s)' => Clean(s)
<1>1. PendingDeps(s)' = PendingDeps(s)
  BY DEF PendingDeps
<1> QED BY <1>1 DEF Clean

(* Steps that leave all of it alone.                                          *)
SameTables ==
  \A s \in Subgoals : /\ table'[s].state = table[s].state
                      /\ table'[s].answers = table[s].answers
                      /\ table'[s].previous = table[s].previous
                      /\ table'[s].changed = table[s].changed
SameCounts ==
  \A s \in Subgoals : /\ CountOf(s)' = CountOf(s)
                      /\ node'[Prev(s)].live = node[Prev(s)].live

LEMMA NothingFresh ==
  ASSUME GraphInv, FreshInv, UNCHANGED <<program, facts, inn, called>>, SameTables, SameCounts
  PROVE  FreshInv'
<1>1. ASSUME NEW s \in Subgoals
      PROVE  /\ Complete(s)' <=> Complete(s)
             /\ Incomplete(s)' <=> Incomplete(s)
             /\ Affected(s)' <=> Affected(s)
             /\ Pending(s)' <=> Pending(s)
             /\ Altered(s)' <=> Altered(s)
             /\ Deps(s)' = Deps(s)
  BY DEF SameTables, SameCounts, Complete, Incomplete, Affected, Pending, Altered, Deps, CountOf
<1>2. \A g \in Goals : Held(g)' = Held(g)
  BY <1>1 DEF Held, SameTables, Goals
<1>3. Means' = Means
  BY DEF Means
<1> SUFFICES ASSUME NEW s \in Subgoals
             PROVE  DepsLive(s)' /\ Settled(s)' /\ Working(s)' /\ Sound(s)'
  BY DEF FreshInv
<1>4. DepsLive(s) /\ Settled(s) /\ Working(s) /\ Sound(s)
  BY DEF FreshInv
<1>5. Deps(s) \subseteq Subgoals /\ inn[Cur(s)] \subseteq Goals
  BY NodesAreCurOrPrev DEF Deps, GraphInv, GraphTyped
<1>6. DepsLive(s)'
  BY <1>1, <1>4, <1>5 DEF DepsLive, SameCounts
<1>7. Clean(s)' => Clean(s)
  BY <1>1, <1>5, CleanKept DEF SameCounts
<1>8. Settled(s)'
  BY <1>1, <1>2, <1>4, <1>5, <1>7, SettledKept DEF SameTables
<1>9. Working(s)'
  BY <1>1, <1>4, <1>5, WorkingKept DEF SameTables, Working
<1>10. Sound(s)'
  BY <1>1, <1>3, <1>4 DEF Sound, SameTables
<1> QED BY <1>6, <1>8, <1>9, <1>10

LEMMA VisitorsFresh ==
  ASSUME GraphInv, FreshInv, UNCHANGED <<program, facts, node, inn, called>>,
         UNCHANGED table \/ \E s, v : table' = [table EXCEPT ![s].visitors = v]
  PROVE  FreshInv'
<1>1. SameTables
  BY DEF SameTables, GraphInv, GraphTyped, TableType
<1>2. SameCounts
  BY DEF SameCounts, CountOf
<1> QED BY <1>1, <1>2, NothingFresh

LEMMA ReevaluateFresh ==
  ASSUME GraphInv, FreshInv, NEW p \in Callers, NEW g \in Subgoals, NEW use, NEW rest,
         Reevaluate(p, g, use, rest)
  PROVE  FreshInv'
<1>1. PICK R, V : node' = Marked(R) /\ table' = Forget(table, V)
                  /\ UNCHANGED <<program, facts, inn, called>>
  BY DEF Reevaluate
<1>2. SameTables
  BY <1>1 DEF Forget, SameTables, GraphInv, GraphTyped, TableType
<1>3. ASSUME NEW n \in Nodes
      PROVE  node'[n].falsecount = node[n].falsecount /\ node'[n].live = node[n].live
  BY <1>1, CountTyped DEF Marked, NodeType
<1>4. SameCounts
  BY <1>3, NodesAreCurOrPrev DEF SameCounts, CountOf
<1> QED BY <1>1, <1>2, <1>4, NothingFresh

(* A call adds an edge to an incomplete table, and leaves the others theirs.  *)
LEMMA CallFresh ==
  ASSUME GraphInv, FreshInv, UNCHANGED <<program, facts, table, node>>,
         NEW p \in Callers, Runs(p), NEW g \in Goals,
         NEW use, AddEdge(out, inn, g, p), called' = Consumers(p, g, use)
  PROVE  FreshInv'
<1>1. ASSUME NEW s \in Subgoals
      PROVE  /\ s # p => inn'[Cur(s)] = inn[Cur(s)]
             /\ s = p => inn'[Cur(s)] = inn[Cur(s)] \cup {g}
             /\ s = p => Incomplete(s)
             /\ called'[s] \subseteq called[s] \cup (IF s = p THEN {g} ELSE {})
  <2>1. s = p => Incomplete(s) /\ p # Top
    BY RunningIsIncomplete, TopAssumption DEF Incomplete, Goals
  <2>2. s # p => inn'[Cur(s)] = inn[Cur(s)]
    <3>1. inn \in [Nodes -> SUBSET Goals]
      BY DEF GraphInv, GraphTyped
    <3>2. CASE p = Top
      BY <3>2 DEF AddEdge
    <3>3. CASE p # Top
      <4>1. inn' = [inn EXCEPT ![Cur(p)] = @ \cup {g}]
        BY <3>3 DEF AddEdge
      <4> QED BY <3>1, <4>1, NodesAreCurOrPrev
    <3> QED BY <3>2, <3>3
  <2>3. s = p => inn'[Cur(s)] = inn[Cur(s)] \cup {g}
    BY <2>1, NodesAreCurOrPrev DEF AddEdge, GraphInv, GraphTyped
  <2>4. called'[s] \subseteq called[s] \cup (IF s = p THEN {g} ELSE {})
    BY DEF Consumers, GraphInv, RestTyped
  <2> QED BY <2>1, <2>2, <2>3, <2>4
<1>2. ASSUME NEW s \in Subgoals
      PROVE  /\ Complete(s)' <=> Complete(s)
             /\ Incomplete(s)' <=> Incomplete(s)
             /\ Affected(s)' <=> Affected(s)
             /\ Pending(s)' <=> Pending(s)
             /\ Altered(s)' <=> Altered(s)
             /\ Complete(s) => s # p
  BY <1>1 DEF Complete, Incomplete, Affected, Pending, Altered
<1>3. \A x \in Goals : Held(x)' = Held(x)
  BY <1>2 DEF Held, Goals
<1>4. Means' = Means
  BY DEF Means
<1> SUFFICES ASSUME NEW s \in Subgoals
             PROVE  DepsLive(s)' /\ Settled(s)' /\ Working(s)' /\ Sound(s)'
  BY DEF FreshInv
<1>5. DepsLive(s) /\ Settled(s) /\ Working(s) /\ Sound(s)
  BY DEF FreshInv
<1>6. Deps(s) \subseteq Subgoals /\ inn[Cur(s)] \subseteq Goals
  BY NodesAreCurOrPrev DEF Deps, GraphInv, GraphTyped
<1>7. Complete(s) => Deps(s)' = Deps(s)
  BY <1>1, <1>2 DEF Deps
<1>8. DepsLive(s)'
  BY <1>2, <1>5, <1>6, <1>7 DEF DepsLive
<1>9. Complete(s) => (Clean(s)' => Clean(s))
  BY <1>2, <1>6, <1>7, CleanKept DEF CountOf
<1>10. Settled(s)'
  BY <1>1, <1>2, <1>3, <1>5, <1>6, <1>9, SettledKept
<1>11. Working(s)'
  BY <1>1, <1>2, <1>5, WorkingKept DEF Working
<1>12. Sound(s)'
  BY <1>2, <1>4, <1>5 DEF Sound
<1> QED BY <1>8, <1>10, <1>11, <1>12

LEMMA CallLeafFresh ==
  ASSUME GraphInv, FreshInv, NEW s \in Subgoals, NEW l \in Leaves, Runs(s), CallLeaf(s, l)
  PROVE  FreshInv'
<1>1. s \in Callers /\ l \in Goals
  BY DEF Callers, Goals
<1> QED BY <1>1, CallFresh DEF CallLeaf

LEMMA FindTableFresh ==
  ASSUME GraphInv, FreshInv, NEW p \in Callers, Runs(p), NEW g \in Subgoals, NEW use, NEW rest,
         FindTable(p, g, use, rest)
  PROVE  FreshInv'
BY CallFresh DEF FindTable, Goals

(* A table that is recomputed is one that those below it wait for.            *)
LEMMA ProduceFresh ==
  ASSUME GraphInv, CoverInv, FreshInv, NEW p \in Callers, Runs(p), NEW g \in Subgoals,
         NEW use, NEW rest, Produce(p, g, use, rest)
  PROVE  FreshInv'
<1>1. /\ node'[Cur(g)] = NewNode
      /\ \A s \in Subgoals : s # g => node'[Cur(s)] = node[Cur(s)] /\ node'[Prev(s)] = node[Prev(s)]
      /\ ~Incomplete(g) /\ (Complete(g) => Affected(g))
      /\ p \in Subgoals => p # g
      /\ ~Complete(g) => \A n \in Nodes : g \notin inn[n]
      /\ sccs' = Append(sccs, {g}) /\ ~In(sccs, g)
  BY ProduceFacts
<1>2. /\ table' = [table EXCEPT ![g] =
                 [NoTable EXCEPT !.state = "incomplete", !.previous = table[g].answers]]
      /\ g \in Goals /\ Cur(g) \in Nodes /\ Prev(g) \in Nodes /\ UNCHANGED <<program, facts>>
      /\ called' = [Consumers(p, g, use) EXCEPT ![g] = {}]
  BY NodesAreCurOrPrev DEF Produce, Goals
<1>3. /\ table'[g].state = "incomplete" /\ table'[g].answers = {}
      /\ table'[g].previous = table[g].answers /\ table'[g].changed = FALSE
      /\ \A s \in Subgoals : s # g => table'[s] = table[s]
  BY <1>2 DEF GraphInv, GraphTyped, NoTable
<1>4. Complete(g) => node'[Prev(g)].live = TRUE
  <2> SUFFICES ASSUME Complete(g) PROVE node'[Prev(g)].live = TRUE
    OBVIOUS
  <2>1. node'[Prev(g)] = [node[Cur(g)] EXCEPT !.falsecount = 0, !.deleted = TRUE]
    BY <1>2 DEF Produce, GraphInv, GraphTyped
  <2>2. node[Cur(g)] \in NodeType /\ node[Cur(g)].live = TRUE
    BY <1>2, CountTyped DEF GraphInv, Lives, Complete
  <2> QED BY <2>1, <2>2 DEF NodeType
<1> DEFINE i0 == IF Complete(g) THEN [inn EXCEPT ![Cur(g)] = {}, ![Prev(g)] = inn[Cur(g)]]
                 ELSE inn
<1>5. /\ i0 \in [Nodes -> SUBSET Goals]
      /\ \A s \in Subgoals : s # g => i0[Cur(s)] = inn[Cur(s)]
  BY <1>2, NodesAreCurOrPrev DEF GraphInv, GraphTyped
<1>6. AddEdge(Handover(g), i0, g, p)
  BY DEF Produce
<1> HIDE DEF i0
<1>7. ASSUME NEW s \in Subgoals, s # g
      PROVE  /\ s # p => inn'[Cur(s)] = inn[Cur(s)]
             /\ s = p => inn'[Cur(s)] = inn[Cur(s)] \cup {g}
             /\ s = p => Incomplete(s)
             /\ called'[s] \subseteq called[s] \cup (IF s = p THEN {g} ELSE {})
  <2>1. s = p => Incomplete(s) /\ p # Top
    BY RunningIsIncomplete, TopAssumption DEF Incomplete, Goals
  <2>2. s # p => inn'[Cur(s)] = inn[Cur(s)]
    BY <1>2, <1>5, <1>6, <1>7, CallAddsDep
  <2>3. s = p => inn'[Cur(s)] = inn[Cur(s)] \cup {g}
    <3> SUFFICES ASSUME s = p PROVE inn'[Cur(s)] = inn[Cur(s)] \cup {g}
      OBVIOUS
    <3>1. inn' = [i0 EXCEPT ![Cur(p)] = @ \cup {g}]
      BY <1>6, <2>1 DEF AddEdge
    <3>2. Cur(p) \in Nodes /\ i0[Cur(p)] = inn[Cur(p)]
      BY <1>5, <1>7, NodesAreCurOrPrev
    <3> QED BY <1>5, <3>1, <3>2
  <2>4. called'[s] \subseteq called[s] \cup (IF s = p THEN {g} ELSE {})
    BY <1>2, <1>7 DEF Consumers, GraphInv, RestTyped
  <2> QED BY <2>1, <2>2, <2>3, <2>4
<1>8. ASSUME NEW s \in Subgoals, s # g
      PROVE  /\ Complete(s)' <=> Complete(s)
             /\ Incomplete(s)' <=> Incomplete(s)
             /\ Affected(s)' <=> Affected(s)
             /\ Pending(s)' <=> Pending(s)
             /\ Altered(s)' <=> Altered(s)
             /\ Complete(s) => s # p
  BY <1>1, <1>3, <1>7, <1>8 DEF Complete, Incomplete, Affected, Pending, Altered
<1>9. Incomplete(g)' /\ ~Complete(g)' /\ ~Altered(g)' /\ ~Altered(g)
      /\ (Complete(g) => Pending(g)' /\ Pending(g))
  BY <1>1, <1>3, <1>4 DEF Incomplete, Complete, Altered, Pending
<1>10. ASSUME NEW x \in Goals, x = g => Complete(g) PROVE Held(x)' = Held(x)
  <2>1. CASE x = g
    BY <1>2, <1>3, <1>9, <1>10, <2>1 DEF Held
  <2>2. CASE x # g
    BY <1>2, <1>3, <1>8, <2>2 DEF Held, Goals
  <2> QED BY <2>1, <2>2
<1>11. Means' = Means
  BY <1>2 DEF Means
<1> SUFFICES ASSUME NEW s \in Subgoals
             PROVE  DepsLive(s)' /\ Settled(s)' /\ Working(s)' /\ Sound(s)'
  BY <1>2 DEF FreshInv
<1>12. CASE s = g
  <2>1. DepsLive(s)' /\ Settled(s)'
    BY <1>9, <1>12 DEF DepsLive, Settled
  <2>2. Working(s)'
    <3>1. called'[g] = {}
      BY <1>2 DEF Consumers, GraphInv, RestTyped
    <3>2. Derived(g)'
      BY <1>3 DEF Derived
    <3> QED BY <1>12, <3>1, <3>2 DEF Working
  <2>3. Sound(s)'
    BY <1>3, <1>12 DEF Sound
  <2> QED BY <2>1, <2>2, <2>3
<1>13. CASE s # g
  <2>1. DepsLive(s) /\ Settled(s) /\ Working(s) /\ Sound(s)
    BY DEF FreshInv
  <2>2. Deps(s) \subseteq Subgoals /\ inn[Cur(s)] \subseteq Goals /\ Cur(s) \in Nodes
    BY NodesAreCurOrPrev DEF Deps, GraphInv, GraphTyped
  <2>3. g \in inn[Cur(s)] => Complete(g)
    BY <1>1, <2>2
  <2>4. Complete(s) => Deps(s)' = Deps(s) /\ inn'[Cur(s)] = inn[Cur(s)]
    BY <1>7, <1>8, <1>13 DEF Deps
  <2>5. DepsLive(s)'
    <3> SUFFICES ASSUME Complete(s), NEW t \in Deps(s) PROVE Complete(t)' \/ node'[Prev(t)].live
      BY <1>8, <1>13, <2>4 DEF DepsLive
    <3>1. Complete(t) \/ node[Prev(t)].live
      BY <2>1 DEF DepsLive
    <3>2. CASE t = g
      BY <1>4, <2>3, <3>2 DEF Deps
    <3>3. CASE t # g
      BY <1>1, <1>8, <2>2, <3>1, <3>3
    <3> QED BY <3>2, <3>3
  <2>6. Complete(s) => (Clean(s)' => Clean(s))
    <3> SUFFICES ASSUME Complete(s) PROVE Clean(s)' => Clean(s)
      OBVIOUS
    <3>1. CountOf(s)' = CountOf(s)
      BY <1>1, <1>13 DEF CountOf
    <3>2. \A t \in Deps(s) : (Pending(t)' <=> Pending(t)) /\ (Altered(t) => Altered(t)')
      BY <1>8, <1>9, <2>2, <2>3 DEF Deps
    <3> QED BY <2>4, <3>1, <3>2, CleanKept
  <2>7. Settled(s)'
    <3>1. \A x \in inn[Cur(s)] : Held(x)' = Held(x)
      BY <1>10, <2>2, <2>3
    <3>2. table'[s] = table[s]
      BY <1>3, <1>13
    <3> QED BY <1>2, <1>8, <1>13, <2>1, <2>4, <2>6, <3>1, <3>2, SettledKept
  <2>8. Working(s)'
    <3> SUFFICES ASSUME Incomplete(s) PROVE Working(s)'
      BY <1>8, <1>13 DEF Working
    <3>1. g \notin Deps(s)
      <4>1. PICK i \in DOMAIN sccs : s \in sccs[i]
        BY DEF GraphInv, Lives, Incomplete, In
      <4>2. \A t \in Deps(s) : ~Affected(t)
        BY <4>1 DEF CoverInv, OrderedDeps
      <4> QED BY <1>1, <2>3, <4>2 DEF Deps
    <3>2. \A t \in Deps(s) : table[t].answers \subseteq table'[t].answers
      BY <1>3, <2>2, <3>1
    <3> QED BY <1>2, <1>3, <1>7, <1>13, <2>1, <3>2, WorkingKept DEF Working
  <2>9. Sound(s)'
    BY <1>3, <1>8, <1>11, <1>13, <2>1 DEF Sound
  <2> QED BY <2>5, <2>7, <2>8, <2>9
<1> QED BY <1>12, <1>13

(* What an incomplete table depends on is being computed or is up to date.    *)
LEMMA DepsOfIncomplete ==
  ASSUME GraphInv, CoverInv, NEW s \in Subgoals, Incomplete(s), NEW t \in Deps(s)
  PROVE  /\ t \in Subgoals /\ ~Affected(t) /\ (Complete(t) \/ Incomplete(t))
<1>1. PICK i \in DOMAIN sccs : s \in sccs[i]
  BY DEF GraphInv, Lives, Incomplete, In
<1>2. ~Affected(t) /\ t \in Subgoals /\ t \in inn[Cur(s)]
  BY <1>1 DEF CoverInv, OrderedDeps, Deps
<1>3. node[Cur(t)].live
  BY <1>2, NodesAreCurOrPrev DEF GraphInv, Agree, Goals
<1>4. table[t].state \in {"none", "incomplete", "complete"}
  BY <1>2 DEF GraphInv, GraphTyped, TableType
<1> QED BY <1>2, <1>3, <1>4 DEF GraphInv, Lives, Complete, Incomplete

(* An answer that every goal of a body has under the meaning is in it.        *)
LEMMA MeaningHas ==
  ASSUME ClausesTyped(program), NEW s \in Subgoals, NEW body \in program[s], NEW a \in Answers,
         \A i \in DOMAIN body : a \in ValIn(facts, Means, body[i])
  PROVE  a \in Means[s]
<1>1. Model(program, facts, Means)
  BY MeaningIsModel DEF Means
<1>2. a \in Follows(program, facts, Means, s)
  BY DEF Follows
<1> QED BY <1>1, <1>2 DEF Model

LEMMA NewAnswerFresh ==
  ASSUME GraphInv, CoverInv, FreshInv, NEW t \in Subgoals, NEW a \in Answers, NewAnswer(t, a)
  PROVE  FreshInv'
<1>1. /\ UNCHANGED <<program, facts, node, inn, called>> /\ Derivable(t, a)
      /\ Incomplete(t)
  BY RunningIsIncomplete, TopAssumption DEF NewAnswer, evalVars, Callers, Incomplete, Goals
<1>2. /\ table'[t].state = table[t].state /\ table'[t].answers = table[t].answers \cup {a}
      /\ table'[t].previous = table[t].previous \ {a}
      /\ table'[t].changed = (table[t].changed \/ a \notin table[t].previous)
      /\ \A s \in Subgoals : s # t => table'[s] = table[s]
  <2>1. table' = [table EXCEPT ![t].answers = @ \cup {a}, ![t].previous = @ \ {a},
                            ![t].changed = @ \/ a \notin table[t].previous]
    BY DEF NewAnswer
  <2> QED BY <2>1 DEF GraphInv, GraphTyped, TableType
<1>3. ASSUME NEW s \in Subgoals
      PROVE  /\ Complete(s)' <=> Complete(s)
             /\ Incomplete(s)' <=> Incomplete(s)
             /\ Affected(s)' <=> Affected(s)
             /\ Pending(s)' <=> Pending(s)
             /\ Altered(s) => Altered(s)'
             /\ Deps(s)' = Deps(s)
  BY <1>1, <1>2 DEF Complete, Incomplete, Affected, Pending, Altered, Deps
<1>4. ASSUME NEW x \in Goals, x = t => ~Altered(t)' PROVE Held(x)' = Held(x)
  <2>1. CASE x = t
    <3>1. a \in table[t].previous
      BY <1>1, <1>2, <1>3, <1>4, <2>1 DEF Altered
    <3>2. ~Complete(t) /\ ~Complete(t)'
      BY <1>1, <1>3 DEF Complete, Incomplete
    <3> QED BY <1>1, <1>2, <2>1, <3>1, <3>2 DEF Held
  <2>2. CASE x # t
    BY <1>1, <1>2, <1>3, <2>2 DEF Held, Goals
  <2> QED BY <2>1, <2>2
<1>5. Means' = Means
  BY <1>1 DEF Means
<1>6. PICK body \in program[t] : Range(body) \subseteq called[t] /\ a \in Common(Range(body))
  BY <1>1 DEF Derivable
<1>7. \A i \in DOMAIN body : /\ body[i] \in Range(body) /\ body[i] \in inn[Cur(t)]
                             /\ a \in ValueOf(body[i])
  <2>1. called[t] \subseteq inn[Cur(t)]
    BY <1>1 DEF FreshInv, Working
  <2> QED BY <1>6, <2>1 DEF Common, Range
<1>8. inn[Cur(t)] \subseteq Goals
  BY NodesAreCurOrPrev DEF GraphInv, GraphTyped
<1>9. a \in Means[t]
  <2>1. ASSUME NEW i \in DOMAIN body PROVE a \in ValIn(facts, Means, body[i])
    <3>1. PICK g : g = body[i]
      OBVIOUS
    <3>2. g \in inn[Cur(t)] /\ a \in ValueOf(g) /\ g \in Goals
      BY <1>7, <1>8, <3>1
    <3>3. CASE g \in Leaves
      BY <3>1, <3>2, <3>3 DEF ValIn, ValueOf
    <3>4. CASE g \notin Leaves
      <4>1. g \in Deps(t) /\ g \in Subgoals
        BY <3>2, <3>4 DEF Deps, Goals
      <4>2. ~Affected(g) /\ (Complete(g) \/ Incomplete(g))
        BY <1>1, <4>1, DepsOfIncomplete
      <4>3. a \in Means[g]
        BY <3>2, <3>4, <4>1, <4>2 DEF FreshInv, Sound, ValueOf
      <4> QED BY <3>1, <3>4, <4>3 DEF ValIn
    <3> QED BY <3>3, <3>4
  <2> QED BY <2>1, MeaningHas DEF FreshInv
<1> SUFFICES ASSUME NEW s \in Subgoals
             PROVE  DepsLive(s)' /\ Settled(s)' /\ Working(s)' /\ Sound(s)'
  BY <1>1 DEF FreshInv
<1>10. DepsLive(s) /\ Settled(s) /\ Working(s) /\ Sound(s)
  BY DEF FreshInv
<1>11. Deps(s) \subseteq Subgoals /\ inn[Cur(s)] \subseteq Goals
  BY NodesAreCurOrPrev DEF Deps, GraphInv, GraphTyped
<1>12. DepsLive(s)'
  BY <1>1, <1>3, <1>10, <1>11 DEF DepsLive
<1>13. Settled(s)'
  <2>1. CountOf(s)' = CountOf(s)
    BY <1>1 DEF CountOf
  <2>2. Clean(s)' => Clean(s)
    BY <1>3, <1>11, <2>1, CleanKept
  <2>3. Clean(s)' => (t \in Deps(s) => ~Altered(t)')
    BY <1>3 DEF Clean
  <2>4. Clean(s)' => \A x \in inn[Cur(s)] : Held(x)' = Held(x)
    BY <1>4, <1>11, <2>3 DEF Deps
  <2>5. Complete(s) => table'[s] = table[s]
    BY <1>1, <1>2 DEF Complete, Incomplete
  <2> QED BY <1>1, <1>3, <1>10, <2>2, <2>4, <2>5, SettledKept
<1>14. Working(s)'
  <2>1. CASE s = t
    <3>1. called[s] \subseteq inn[Cur(s)] /\ Derived(s)
      BY <1>1, <1>10, <2>1 DEF Working
    <3>2. \A x \in inn[Cur(s)] : ValueOf(x) \subseteq ValueOf(x)'
      BY <1>1, <1>2, <1>11 DEF ValueOf, Goals
    <3>3. ASSUME NEW b \in table'[s].answers
          PROVE  \E bd \in program[s] : \A i \in DOMAIN bd :
                   bd[i] \in inn[Cur(s)] /\ b \in ValueOf(bd[i])'
      <4>1. PICK bd \in program[s] : \A i \in DOMAIN bd :
                   bd[i] \in inn[Cur(s)] /\ b \in ValueOf(bd[i])
        BY <1>2, <1>7, <2>1, <3>1 DEF Derived
      <4>2. ASSUME NEW i \in DOMAIN bd PROVE bd[i] \in inn[Cur(s)] /\ b \in ValueOf(bd[i])'
        <5>1. PICK g : g = bd[i]
          OBVIOUS
        <5>2. g \in inn[Cur(s)] /\ b \in ValueOf(g)'
          BY <3>2, <4>1, <5>1
        <5> QED BY <5>1, <5>2
      <4> QED BY <4>2
    <3>4. Derived(s)'
      BY <1>1, <3>3 DEF Derived
    <3> QED BY <1>1, <3>1, <3>4 DEF Working
  <2>2. CASE s # t
    <3>1. table'[s] = table[s] /\ \A u \in Deps(s) : table[u].answers \subseteq table'[u].answers
      BY <1>2, <1>11, <2>2
    <3> QED BY <1>1, <1>3, <1>10, <3>1, WorkingKept DEF Working
  <2> QED BY <2>1, <2>2
<1>15. Sound(s)'
  <2>1. CASE s = t
    <3>1. table[s].answers \subseteq Means[s]
      BY <1>1, <1>10, <2>1 DEF Sound
    <3> QED BY <1>2, <1>5, <1>9, <2>1, <3>1 DEF Sound
  <2>2. CASE s # t
    BY <1>2, <1>3, <1>5, <1>10, <2>2 DEF Sound
  <2> QED BY <2>1, <2>2
<1> QED BY <1>12, <1>13, <1>14, <1>15

(* What a table that is not affected depends on is complete and not affected  *)
(* either.                                                                    *)
LEMMA DepsOfFresh ==
  ASSUME GraphInv, CoverInv, FreshInv, NEW s \in Subgoals, Complete(s), ~Affected(s)
  PROVE  /\ PendingDeps(s) = {} /\ Clean(s)
         /\ \A t \in Deps(s) : t \in Subgoals /\ Complete(t) /\ ~Affected(t)
<1>1. CountOf(s) = 0
  BY DEF Affected, CountOf
<1>2. PendingDeps(s) \subseteq Goals
  BY DEF PendingDeps, Deps, Goals
<1>3. Cardinality(PendingDeps(s)) \in Nat /\ IsFiniteSet(PendingDeps(s))
  BY <1>2, Smaller
<1>4. CountOf(s) >= Cardinality(PendingDeps(s))
  BY DEF CoverInv, Covered
<1>5. Cardinality(PendingDeps(s)) = 0
  BY <1>1, <1>3, <1>4
<1>6. PendingDeps(s) = {}
  BY <1>3, <1>5, FS_EmptySet
<1>7. \A t \in Deps(s) : t \in Subgoals /\ Complete(t) /\ ~Affected(t)
  BY <1>6 DEF PendingDeps, Pending, Deps, FreshInv, DepsLive
<1>8. Clean(s)
  BY <1>1, <1>5, <1>7 DEF Clean, Altered, Complete, Incomplete
<1> QED BY <1>6, <1>7, <1>8

(* The tables that are not affected are a model of their clauses.             *)
LEMMA FreshHolds ==
  ASSUME GraphInv, CoverInv, FreshInv
  PROVE  NoStaleTable
<1> SUFFICES ASSUME NEW s \in Subgoals, Complete(s), ~Affected(s)
             PROVE  table[s].answers = Means[s]
  BY DEF NoStaleTable, Means
<1>1. table[s].answers \subseteq Means[s]
  BY DEF FreshInv, Sound
<1> DEFINE fresh == {t \in Subgoals : Complete(t) /\ ~Affected(t)}
           v == [t \in Subgoals |-> IF t \in fresh THEN table[t].answers ELSE Answers]
<1>2. v \in Valuations
  BY DEF Valuations, GraphInv, GraphTyped, TableType
<1>3. ASSUME NEW t \in Subgoals, NEW a \in Follows(program, facts, v, t) PROVE a \in v[t]
  <2>1. CASE t \notin fresh
    BY <2>1 DEF Follows
  <2>2. CASE t \in fresh
    <3>1. PICK b \in program[t] : \A i \in DOMAIN b : a \in ValIn(facts, v, b[i])
      BY <1>3 DEF Follows
    <3>2. a \in Answers
      BY <1>3 DEF Follows
    <3>3. Clean(t) /\ \A u \in Deps(t) : u \in fresh
      BY <2>2, DepsOfFresh
    <3>4. Closed(t)
      BY <2>2, <3>3 DEF FreshInv, Settled
    <3>5. inn[Cur(t)] \subseteq Goals
      BY NodesAreCurOrPrev DEF GraphInv, GraphTyped
    <3>6. \A g \in inn[Cur(t)] : ValIn(facts, v, g) = Held(g)
      <4> SUFFICES ASSUME NEW g \in inn[Cur(t)] PROVE ValIn(facts, v, g) = Held(g)
        OBVIOUS
      <4>1. CASE g \in Leaves
        BY <4>1 DEF ValIn, Held
      <4>2. CASE g \notin Leaves
        <5>1. g \in fresh /\ g \in Subgoals
          BY <3>3, <3>5, <4>2 DEF Goals, Deps
        <5> QED BY <4>2, <5>1 DEF ValIn, Held
      <4> QED BY <4>1, <4>2
    <3>7. ~ \E i \in DOMAIN b : b[i] \in inn[Cur(t)] /\ a \notin Held(b[i])
      <4> SUFFICES ASSUME NEW i \in DOMAIN b, b[i] \in inn[Cur(t)] PROVE a \in Held(b[i])
        OBVIOUS
      <4>1. PICK g : g = b[i]
        OBVIOUS
      <4>2. a \in ValIn(facts, v, g) /\ g \in inn[Cur(t)]
        BY <3>1, <4>1
      <4>3. a \in Held(g)
        <5> HIDE DEF v
        <5> QED BY <3>6, <4>2
      <4> QED BY <4>1, <4>3
    <3>8. a \in table[t].answers
      BY <3>2, <3>4, <3>7 DEF Closed
    <3> QED BY <2>2, <3>8
  <2> QED BY <2>1, <2>2
<1> HIDE DEF v, fresh
<1>4. Model(program, facts, v)
  BY <1>3 DEF Model
<1>5. Means[s] \subseteq v[s]
  BY <1>2, <1>4, MeaningIsLeast DEF Means, FreshInv
<1>6. v[s] = table[s].answers
  BY DEF v, fresh
<1> QED BY <1>1, <1>5, <1>6

LEMMA SameSize ==
  ASSUME NEW A, NEW B, A \subseteq B, B \subseteq Goals, Cardinality(B) <= Cardinality(A)
  PROVE  A = B
<1> SUFFICES ASSUME NEW x \in B, x \notin A PROVE FALSE
  OBVIOUS
<1>1. /\ Cardinality(A) \in Nat /\ Cardinality(B) \in Nat /\ Cardinality({x}) \in Nat
      /\ Cardinality(A) + Cardinality({x}) <= Cardinality(B)
  BY PartGone
<1>2. Cardinality({x}) = 1
  BY FS_Singleton
<1> QED BY <1>1, <1>2

(* Steps of an idle engine that invalidate tables.                            *)
LEMMA HitsClean ==
  ASSUME GraphInv, CoverInv, CountsLow, NEW g \in Goals, NEW hit, Hits(g, hit),
         NEW nd, Hit(nd, g, hit), NEW s \in Subgoals, Complete(s),
         NEW X, X \subseteq PendingDeps(s) \cup Edges(hit, Cur(s)),
         nd[Cur(s)].falsecount = Cardinality(X)
  PROVE  /\ CountOf(s) = Cardinality(PendingDeps(s))
         /\ Edges(hit, Cur(s)) \subseteq X
<1>1. PICK e : e = Edges(hit, Cur(s))
  OBVIOUS
<1>2. PICK pd : pd = PendingDeps(s)
  OBVIOUS
<1>3. e \subseteq Goals /\ pd \subseteq Goals
  BY <1>1, <1>2 DEF Edges, Hits, Goals, PendingDeps, Deps
<1>4. /\ nd[Cur(s)].falsecount = CountOf(s) + Cardinality(e) + (IF s = g THEN 1 ELSE 0)
      /\ Cardinality(e) \in Nat
  BY <1>1, HitCounts
<1>5. CountOf(s) \in Nat /\ CountOf(s) >= Cardinality(pd)
  BY <1>2, CountTyped, NodesAreCurOrPrev DEF CoverInv, Covered, CountOf
<1>6. /\ Cardinality(X) \in Nat /\ Cardinality(pd) \in Nat
      /\ Cardinality(X) <= Cardinality(pd) + Cardinality(e)
  BY <1>1, <1>2, <1>3, TwoSets
<1>7. CountOf(s) = Cardinality(pd)
  BY <1>4, <1>5, <1>6
<1>8. e \subseteq X
  <2> SUFFICES ASSUME NEW x \in e, x \notin X PROVE FALSE
    OBVIOUS
  <2>1. PICK e1 : e1 = e \ {x}
    OBVIOUS
  <2>2. X \subseteq pd \cup e1 /\ e1 \subseteq Goals
    BY <1>1, <1>2, <1>3, <2>1
  <2>3. Cardinality(X) <= Cardinality(pd) + Cardinality(e1) /\ Cardinality(e1) \in Nat
    BY <1>3, <2>2, TwoSets
  <2>4. Cardinality(e1) + Cardinality({x}) <= Cardinality(e)
    BY <1>3, <2>1, PartGone
  <2>5. Cardinality({x}) = 1
    BY FS_Singleton
  <2> QED BY <1>4, <1>5, <1>6, <2>3, <2>4, <2>5
<1> QED BY <1>1, <1>2, <1>7, <1>8

(* A table whose count stands for no more than X after an invalidation.       *)
LEMMA InvalidationClean ==
  ASSUME GraphInv, CoverInv, CountsLow, Quiet, NEW g \in Goals, g \in Subgoals => Complete(g),
         NEW s \in Subgoals, Complete(s), NEW X, X \subseteq Deps(s),
         \A t \in X : Complete(t) /\ Invalidation(g)[Cur(t)].falsecount # 0,
         Invalidation(g)[Cur(s)].falsecount = Cardinality(X)
  PROVE  Clean(s) /\ (g \in inn[Cur(s)] => g \in X)
<1>1. \A t \in Deps(s) : ~Altered(t) /\ t \in Subgoals
  BY DEF Quiet, Altered, Deps
<1>2. PICK nd : nd = Invalidation(g)
  OBVIOUS
<1>3. CASE g \in Subgoals /\ node[Cur(g)].deleted
  <2>1. nd = node
    BY <1>2, <1>3 DEF Invalidation
  <2>2. X \subseteq PendingDeps(s) /\ PendingDeps(s) \subseteq Goals
    BY <1>2, <2>1 DEF PendingDeps, Pending, Affected, Deps, Goals
  <2>3. CountOf(s) = Cardinality(X) /\ CountOf(s) >= Cardinality(PendingDeps(s))
    BY <1>2, <2>1 DEF CoverInv, Covered, CountOf
  <2>4. X = PendingDeps(s)
    <3>1. Cardinality(PendingDeps(s)) \in Nat /\ Cardinality(X) \in Nat
      BY <2>2, Smaller
    <3>2. Cardinality(PendingDeps(s)) <= Cardinality(X)
      BY <2>3, <3>1
    <3> QED BY <2>2, <3>2, SameSize
  <2>5. Affected(g)
    <3>1. CountOf(g) > 0 /\ CountOf(g) \in Nat
      BY <1>3, CountTyped, NodesAreCurOrPrev DEF CoverInv, Covered, CountOf
    <3> QED BY <3>1 DEF Affected, CountOf
  <2>6. g \in inn[Cur(s)] => g \in PendingDeps(s)
    BY <1>3, <2>5 DEF PendingDeps, Deps, Pending
  <2> QED BY <1>1, <2>3, <2>4, <2>6 DEF Clean
<1>4. CASE ~(g \in Subgoals /\ node[Cur(g)].deleted)
  <2>1. PICK hit : Hits(g, hit) /\ Hit(InvalidatedFrom(g), g, hit)
    BY Traversal
  <2>2. Hit(nd, g, hit)
    BY <1>2, <1>4, <2>1 DEF Invalidation
  <2>3. ASSUME NEW t \in X PROVE t \in PendingDeps(s) \cup Edges(hit, Cur(s))
    <3>1. t \in Subgoals /\ t \in Deps(s) /\ Complete(t) /\ nd[Cur(t)].falsecount # 0
      BY <1>1, <1>2
    <3>2. CASE Affected(t)
      BY <3>1, <3>2 DEF PendingDeps, Pending
    <3>3. CASE ~Affected(t)
      <4>1. CountOf(t) = 0 /\ ~node[Cur(t)].deleted
        BY <3>1, <3>3, CountTyped, NodesAreCurOrPrev DEF Affected, CountOf, CoverInv, Covered
      <4>2. /\ nd[Cur(t)].falsecount = CountOf(t) + Cardinality(Edges(hit, Cur(t)))
                                      + (IF t = g THEN 1 ELSE 0)
            /\ Cardinality(Edges(hit, Cur(t))) \in Nat
            /\ Cardinality(Edges(hit, Cur(t))) = 0 <=> Edges(hit, Cur(t)) = {}
        BY <2>1, <2>2, <3>1, HitCounts
      <4>3. t = g \/ Edges(hit, Cur(t)) # {}
        BY <3>1, <4>1, <4>2
      <4>4. t \in hit
        BY <2>1, <3>1, <4>1, <4>3 DEF Hits
      <4>5. Cur(s) \in out[t]
        BY <3>1, NodesAreCurOrPrev DEF GraphInv, Agree, Deps, Goals
      <4> QED BY <4>4, <4>5 DEF Edges
    <3> QED BY <3>2, <3>3
  <2>4. CountOf(s) = Cardinality(PendingDeps(s)) /\ Edges(hit, Cur(s)) \subseteq X
    <3>1. nd[Cur(s)].falsecount = Cardinality(X)
      BY <1>2
    <3> QED BY <2>1, <2>2, <2>3, <3>1, HitsClean
  <2>5. g \in inn[Cur(s)] => g \in Edges(hit, Cur(s))
    BY <2>1, NodesAreCurOrPrev DEF Hits, Edges, GraphInv, Agree
  <2> QED BY <1>1, <2>4, <2>5 DEF Clean
<1> QED BY <1>3, <1>4

LEMMA PendingWhenQuiet ==
  ASSUME GraphInv, Quiet, NEW s \in Subgoals, NEW t \in Deps(s)
  PROVE  t \in Subgoals /\ Complete(t) /\ (Pending(t) => Affected(t))
<1>1. t \in Subgoals /\ t \in inn[Cur(s)] /\ t \in Goals
  BY DEF Deps, Goals
<1>2. node[Cur(t)].live
  BY <1>1, NodesAreCurOrPrev DEF GraphInv, Agree
<1>3. table[t].state \in {"none", "incomplete", "complete"}
  BY <1>1 DEF GraphInv, GraphTyped, TableType
<1>4. Complete(t)
  BY <1>1, <1>2, <1>3 DEF GraphInv, Lives, Quiet, Complete, Incomplete
<1>5. node[Prev(t)].live = FALSE
  BY <1>1, QuietPrevDead
<1> QED BY <1>1, <1>4, <1>5 DEF Pending

LEMMA PendingWhenQuietNext ==
  ASSUME GraphInv', Quiet', NEW s \in Subgoals, NEW t \in Deps(s)'
  PROVE  t \in Subgoals /\ Complete(t)' /\ (Pending(t)' => Affected(t)')
<1>1. t \in Subgoals /\ t \in inn'[Cur(s)] /\ t \in Goals
  BY DEF Deps, Goals
<1>2. node'[Cur(t)].live
  BY <1>1, NodesAreCurOrPrev DEF GraphInv, Agree
<1>3. table'[t].state \in {"none", "incomplete", "complete"}
  BY <1>1 DEF GraphInv, GraphTyped, TableType
<1>4. Complete(t)'
  BY <1>1, <1>2, <1>3 DEF GraphInv, Lives, Quiet, Complete, Incomplete
<1>5. node'[Prev(t)].live = FALSE
  BY <1>1, NodesAreCurOrPrev DEF GraphInv, GraphTyped, NodeType, Lives, Quiet, Incomplete
<1> QED BY <1>1, <1>4, <1>5 DEF Pending

(* A table that an update leaves unaffected depends on nothing that it        *)
(* affects.                                                                   *)
LEMMA SparedTables ==
  ASSUME GraphInv, CoverInv, FreshInv, CountsLow, Quiet,
         NEW g \in Goals, g \in Subgoals => Complete(g),
         NEW s \in Subgoals, Complete(s), Invalidation(g)[Cur(s)].falsecount = 0
  PROVE  /\ ~Affected(s) /\ Clean(s) /\ g \notin inn[Cur(s)]
         /\ \A t \in Deps(s) : t \in Subgoals /\ Complete(t)
                               /\ Invalidation(g)[Cur(t)].falsecount = 0
<1>1. PICK nd : nd = Invalidation(g)
  OBVIOUS
<1>2. Invalidated(nd)
  BY <1>1, InvalidatedCounts
<1>3. /\ Affected(s) => nd[Cur(s)].falsecount # 0
      /\ nd[Cur(s)].falsecount >= CountOf(s) + Cardinality(Newly(nd, s))
  BY <1>2 DEF Invalidated
<1>4. ~Affected(s) /\ CountOf(s) = 0 /\ nd[Cur(s)].falsecount = 0
  BY <1>1, <1>3 DEF Affected, CountOf
<1>5. Newly(nd, s) = {}
  <2>1. Newly(nd, s) \subseteq Goals
    BY DEF Newly, Deps, Goals
  <2>2. Cardinality(Newly(nd, s)) \in Nat /\ IsFiniteSet(Newly(nd, s))
    BY <2>1, Smaller
  <2>3. Cardinality(Newly(nd, s)) = 0
    BY <1>3, <1>4, <2>2
  <2> QED BY <2>2, <2>3, FS_EmptySet
<1>6. Clean(s) /\ \A t \in Deps(s) : t \in Subgoals /\ Complete(t) /\ ~Affected(t)
  BY <1>4, DepsOfFresh
<1>7. \A t \in Deps(s) : nd[Cur(t)].falsecount = 0
  BY <1>5, <1>6 DEF Newly
<1>8. g \notin inn[Cur(s)]
  <2>1. PICK X : X = {}
    OBVIOUS
  <2>2. Invalidation(g)[Cur(s)].falsecount = Cardinality(X)
    BY <1>1, <1>4, <2>1, FS_EmptySet
  <2>3. g \in inn[Cur(s)] => g \in X
    BY <2>1, <2>2, InvalidationClean
  <2> QED BY <2>1, <2>3
<1> QED BY <1>1, <1>4, <1>6, <1>7, <1>8

LEMMA UpdateSound ==
  ASSUME GraphInv, CoverInv, FreshInv, CountsLow, Quiet, NEW l \in Leaves, NEW fct,
         \A x \in Leaves : x # l => fct[x] = facts[x],
         NEW s \in Subgoals, Complete(s), Invalidation(l)[Cur(s)].falsecount = 0
  PROVE  table[s].answers \subseteq Fresh!Meaning(program, fct)[s]
<1> DEFINE spared == {t \in Subgoals : Complete(t) /\ Invalidation(l)[Cur(t)].falsecount = 0}
<1>1. PICK new : new = Fresh!Meaning(program, fct)
  OBVIOUS
<1>2. new \in Valuations /\ Model(program, fct, new)
  BY <1>1, MeaningIsModel DEF FreshInv
<1> DEFINE v == [t \in Subgoals |-> IF t \in spared THEN table[t].answers \cap new[t] ELSE Answers]
<1>3. v \in Valuations
  BY <1>2 DEF Valuations, GraphInv, GraphTyped, TableType
<1>4. l \in Goals /\ l \notin Subgoals
  BY SetsAssumption DEF Goals
<1>5. ASSUME NEW t \in spared
      PROVE  /\ t \in Subgoals /\ Complete(t) /\ ~Affected(t) /\ Clean(t) /\ l \notin inn[Cur(t)]
             /\ \A u \in Deps(t) : u \in spared
  BY <1>4, SparedTables
<1> HIDE DEF spared
<1>6. ASSUME NEW t \in Subgoals, NEW a \in Follows(program, facts, v, t) PROVE a \in v[t]
  <2>1. CASE t \notin spared
    BY <2>1 DEF Follows
  <2>2. CASE t \in spared
    <3>1. PICK b \in program[t] : \A i \in DOMAIN b : a \in ValIn(facts, v, b[i])
      BY <1>6 DEF Follows
    <3>2. a \in Answers
      BY <1>6 DEF Follows
    <3>3. Closed(t)
      BY <1>5, <2>2 DEF FreshInv, Settled
    <3>4. inn[Cur(t)] \subseteq Goals
      BY <1>6, NodesAreCurOrPrev DEF GraphInv, GraphTyped
    <3>5. \A g \in inn[Cur(t)] : /\ ValIn(facts, v, g) \subseteq Held(g)
                                 /\ ValIn(facts, v, g) \subseteq ValIn(fct, new, g)
      <4> SUFFICES ASSUME NEW g \in inn[Cur(t)]
                   PROVE  /\ ValIn(facts, v, g) \subseteq Held(g)
                          /\ ValIn(facts, v, g) \subseteq ValIn(fct, new, g)
        OBVIOUS
      <4>1. CASE g \in Leaves
        <5>1. g # l
          BY <1>5, <2>2
        <5> QED BY <4>1, <5>1 DEF ValIn, Held
      <4>2. CASE g \notin Leaves
        <5>1. g \in spared /\ g \in Subgoals /\ Complete(g)
          BY <1>5, <2>2, <3>4, <4>2 DEF Goals, Deps
        <5> QED BY <4>2, <5>1 DEF ValIn, Held
      <4> QED BY <4>1, <4>2
    <3> HIDE DEF v
    <3>6. \A i \in DOMAIN b :
            b[i] \in inn[Cur(t)] => a \in Held(b[i]) /\ a \in ValIn(fct, new, b[i])
      <4> SUFFICES ASSUME NEW i \in DOMAIN b, b[i] \in inn[Cur(t)]
                   PROVE  a \in Held(b[i]) /\ a \in ValIn(fct, new, b[i])
        OBVIOUS
      <4>1. PICK g : g = b[i]
        OBVIOUS
      <4>2. a \in ValIn(facts, v, g) /\ g \in inn[Cur(t)]
        BY <3>1, <4>1
      <4>3. a \in Held(g) /\ a \in ValIn(fct, new, g)
        BY <3>5, <4>2
      <4> QED BY <4>1, <4>3
    <3>7. Range(b) \subseteq inn[Cur(t)] /\ a \in table[t].answers
      BY <3>2, <3>3, <3>6 DEF Closed
    <3>8. \A i \in DOMAIN b : a \in ValIn(fct, new, b[i])
      BY <3>6, <3>7 DEF Range
    <3>9. a \in Follows(program, fct, new, t)
      BY <3>1, <3>2, <3>8 DEF Follows
    <3>10. a \in new[t]
      BY <1>2, <1>6, <3>9 DEF Model
    <3> QED BY <1>6, <2>2, <3>7, <3>10 DEF v
  <2> QED BY <2>1, <2>2
<1>7. s \in spared
  BY DEF spared
<1>8. table[s].answers \subseteq Means[s]
  BY <1>5, <1>7 DEF FreshInv, Sound
<1>9. v[s] \subseteq new[s]
  BY <1>7
<1> HIDE DEF v
<1>10. Model(program, facts, v)
  BY <1>6 DEF Model
<1>11. Means[s] \subseteq v[s]
  BY <1>3, <1>10, MeaningIsLeast DEF Means, FreshInv
<1> QED BY <1>1, <1>8, <1>9, <1>11

LEMMA IdleFresh ==
  ASSUME GraphInv, GraphInv', CoverInv, FreshInv, CountsLow, Quiet, Quiet', program' = program,
         NEW g \in Goals, g \in Subgoals => Complete(g), NEW gone, gone \subseteq Subgoals \cap {g},
         \A s \in Subgoals : Complete(s)' =>
           /\ Complete(s) /\ node'[Cur(s)] = Invalidation(g)[Cur(s)] /\ table'[s] = table[s]
           /\ inn'[Cur(s)] = inn[Cur(s)] \ gone,
         \/ g \in Leaves /\ \A x \in Leaves : x # g => facts'[x] = facts[x]
         \/ g \in Subgoals /\ facts' = facts
  PROVE  FreshInv'
<1>1. PICK nd : nd = Invalidation(g)
  OBVIOUS
<1>2. Invalidated(nd)
  BY <1>1, InvalidatedCounts
<1> SUFFICES ASSUME NEW s \in Subgoals
             PROVE  DepsLive(s)' /\ Settled(s)' /\ Working(s)' /\ Sound(s)'
  BY DEF FreshInv
<1>3. DepsLive(s)'
  BY PendingWhenQuietNext DEF DepsLive
<1>4. Working(s)'
  BY DEF Quiet, Working
<1>5. Settled(s)'
  <2> SUFFICES ASSUME Complete(s)', Clean(s)'
               PROVE  /\ Complete(s) /\ Clean(s) /\ inn'[Cur(s)] = inn[Cur(s)]
                      /\ table'[s].answers = table[s].answers
                      /\ \A x \in inn[Cur(s)] : Held(x)' = Held(x)
    BY SettledKept DEF FreshInv
  <2>1. Complete(s) /\ table'[s] = table[s] /\ nd[Cur(s)].falsecount = CountOf(s)'
        /\ inn'[Cur(s)] = inn[Cur(s)] \ gone
    BY <1>1 DEF CountOf
  <2>2. PICK X : X = PendingDeps(s)'
    OBVIOUS
  <2>3. nd[Cur(s)].falsecount = Cardinality(X)
    BY <2>1, <2>2 DEF Clean
  <2>4. ASSUME NEW t \in X
        PROVE  t \in Deps(s) /\ t \notin gone /\ Complete(t) /\ nd[Cur(t)].falsecount # 0
    <3>1. t \in Deps(s)' /\ Pending(t)'
      BY <2>2 DEF PendingDeps
    <3>2. t \in Subgoals /\ Complete(t)' /\ Affected(t)'
      BY <3>1, PendingWhenQuietNext
    <3>3. t \in Deps(s) /\ t \notin gone
      BY <2>1, <3>1 DEF Deps
    <3> QED BY <1>1, <3>2, <3>3 DEF Affected
  <2>5. Clean(s) /\ (g \in inn[Cur(s)] => g \in X)
    BY <1>1, <2>1, <2>3, <2>4, InvalidationClean
  <2>6. gone \cap inn[Cur(s)] = {}
    BY <2>4, <2>5
  <2>7. ASSUME NEW x \in inn[Cur(s)] PROVE Held(x)' = Held(x)
    <3>1. x \in Goals
      BY NodesAreCurOrPrev DEF GraphInv, GraphTyped
    <3>2. CASE x \in Leaves
      <4>1. g \in Leaves => x # g
        BY <2>4, <2>5, SetsAssumption DEF Deps
      <4> QED BY <3>2, <4>1 DEF Held
    <3>3. CASE x \notin Leaves
      <4>1. x \in Deps(s)'
        BY <2>1, <2>6, <3>1, <3>3 DEF Deps, Goals
      <4>2. Complete(x)' /\ x \in Subgoals
        BY <4>1, PendingWhenQuietNext
      <4> QED BY <3>3, <4>2 DEF Held
    <3> QED BY <3>2, <3>3
  <2> QED BY <2>1, <2>5, <2>6, <2>7
<1>6. Sound(s)'
  <2> SUFFICES ASSUME Complete(s)', ~Affected(s)' PROVE table'[s].answers \subseteq Means'[s]
    BY DEF Sound, Quiet
  <2>1. Complete(s) /\ table'[s] = table[s] /\ nd[Cur(s)].falsecount = 0
    BY <1>1 DEF Affected
  <2>2. CASE g \in Leaves /\ \A x \in Leaves : x # g => facts'[x] = facts[x]
    <3>1. Means' = Fresh!Meaning(program, facts')
      BY DEF Means
    <3>2. PICK fct : fct = facts'
      OBVIOUS
    <3>3. table[s].answers \subseteq Fresh!Meaning(program, fct)[s]
      BY <1>1, <2>1, <2>2, <3>2, UpdateSound
    <3> QED BY <2>1, <3>1, <3>2, <3>3
  <2>3. CASE facts' = facts
    <3>1. ~Affected(s)
      BY <1>2, <2>1 DEF Invalidated
    <3>2. Means' = Means
      BY <2>3 DEF Means
    <3> QED BY <2>1, <3>1, <3>2 DEF FreshInv, Sound
  <2> QED BY <2>2, <2>3
<1> QED BY <1>3, <1>4, <1>5, <1>6

LEMMA IdleStepsFresh ==
  ASSUME GraphInv, GraphInv', CoverInv, FreshInv, CountsLow, NEW g \in Goals,
         \/ g \in Leaves /\ \E f \in SUBSET Answers : Update(g, f)
         \/ g \in Subgoals /\ (Invalidate(g) \/ Abolish(g))
  PROVE  FreshInv'
<1>1. Quiet /\ (g \in Subgoals => Complete(g)) /\ sccs' = <<>> /\ program' = program
  BY IdleIsQuiet, SetsAssumption DEF Update, Invalidate, Abolish, Idle, evalVars
<1>2. Quiet'
  BY <1>1, IdleIsQuietNext
<1>3. PICK nd : nd = Invalidation(g)
  OBVIOUS
<1>4. DOMAIN nd = Nodes
  BY <1>3, InvalidationKeepsNodes DEF GraphInv, GraphTyped, SameNodes
<1>5. CASE node' = nd /\ UNCHANGED <<table, inn>>
           /\ (\/ g \in Leaves /\ \A x \in Leaves : x # g => facts'[x] = facts[x]
               \/ g \in Subgoals /\ facts' = facts)
  <2>1. PICK gone : gone = {}
    OBVIOUS
  <2>3. gone \subseteq Subgoals \cap {g}
    BY <2>1
  <2>2. \A s \in Subgoals : Complete(s)' =>
           /\ Complete(s) /\ node'[Cur(s)] = Invalidation(g)[Cur(s)] /\ table'[s] = table[s]
           /\ inn'[Cur(s)] = inn[Cur(s)] \ gone
    BY <1>3, <1>5, <2>1 DEF Complete
  <2> QED BY <1>1, <1>2, <1>5, <2>2, <2>3, IdleFresh
<1>6. CASE g \in Subgoals /\ Abolish(g)
  <2>1. /\ node' = [nd EXCEPT ![Cur(g)] = NoNode] /\ table' = [table EXCEPT ![g] = NoTable]
        /\ inn' = [n \in Nodes |-> IF n = Cur(g) THEN {} ELSE inn[n] \ {g}]
        /\ facts' = facts
    BY <1>3, <1>6 DEF Abolish
  <2>2. PICK gone : gone = {g}
    OBVIOUS
  <2>6. gone \subseteq Subgoals \cap {g}
    BY <1>6, <2>2
  <2>7. g \in Subgoals /\ facts' = facts
    BY <1>6, <2>1
  <2>3. \A s \in Subgoals : Complete(s)' => s # g
    BY <2>1 DEF Complete, NoTable, GraphInv, GraphTyped
  <2>4. \A s \in Subgoals : s # g =>
           /\ node'[Cur(s)] = nd[Cur(s)] /\ table'[s] = table[s]
           /\ inn'[Cur(s)] = inn[Cur(s)] \ gone
    BY <1>4, <2>1, <2>2, NodesAreCurOrPrev DEF GraphInv, GraphTyped
  <2>5. \A s \in Subgoals : Complete(s)' =>
           /\ Complete(s) /\ node'[Cur(s)] = Invalidation(g)[Cur(s)] /\ table'[s] = table[s]
           /\ inn'[Cur(s)] = inn[Cur(s)] \ gone
    BY <1>3, <2>3, <2>4 DEF Complete
  <2> QED BY <1>1, <1>2, <2>5, <2>6, <2>7, IdleFresh
<1>7. ASSUME g \in Leaves, NEW f \in SUBSET Answers, Update(g, f)
      PROVE  \A x \in Leaves : x # g => facts'[x] = facts[x]
  BY <1>7 DEF Update, GraphInv, RestTyped
<1>8. ASSUME Invalidate(g) PROVE facts' = facts /\ node' = nd /\ UNCHANGED <<table, inn>>
  BY <1>3, <1>8 DEF Invalidate
<1>9. ASSUME NEW f, Update(g, f) PROVE node' = nd /\ UNCHANGED <<table, inn>>
  BY <1>3, <1>9 DEF Update
<1> QED BY <1>5, <1>6, <1>7, <1>8, <1>9

(* An exception ends tables that nothing complete depends on.                 *)
LEMMA ThrowFresh ==
  ASSUME GraphInv, GraphInv', CoverInv, FreshInv, ThrowsAnywhere = FALSE, Throw
  PROVE  FreshInv'
<1> DEFINE C == UNION Range(sccs)
           gone == {Cur(s) : s \in C}
<1>1. /\ \A s \in C : ~node[Prev(s)].live
      /\ table' = [s \in Subgoals |-> IF s \in C THEN NoTable ELSE table[s]]
      /\ node' = [n \in Nodes |-> IF n \in gone THEN NoNode ELSE node[n]]
      /\ inn' = [n \in Nodes |-> IF n \in gone THEN {} ELSE inn[n] \ C]
      /\ sccs' = <<>> /\ UNCHANGED <<program, facts>>
  BY DEF Throw
<1>2. \A s \in Subgoals : Cur(s) \in Nodes /\ Prev(s) \in Nodes /\ Prev(s) \notin gone
                          /\ (Cur(s) \in gone <=> s \in C)
  BY NodesAreCurOrPrev
<1>3. \A s \in Subgoals : s \in C <=> Incomplete(s)
  BY InIsUnion DEF GraphInv, Lives, Incomplete
<1>4. C \subseteq Subgoals
  BY DEF GraphInv, Stack, Range
<1> HIDE DEF C, gone
<1>5. \A s \in Subgoals : /\ node'[Prev(s)] = node[Prev(s)]
                          /\ s \notin C => /\ node'[Cur(s)] = node[Cur(s)] /\ table'[s] = table[s]
                                           /\ inn'[Cur(s)] = inn[Cur(s)] \ C
  BY <1>1, <1>2
<1>6. Quiet'
  BY <1>1, IdleIsQuietNext
<1>7. \A s \in Subgoals : Complete(s)' <=> Complete(s)
  <2>1. \A s \in Subgoals : s \in C => ~Complete(s)' /\ ~Complete(s)
    BY <1>1, <1>3 DEF Complete, Incomplete, NoTable
  <2> QED BY <1>5, <2>1 DEF Complete
<1> SUFFICES ASSUME NEW s \in Subgoals
             PROVE  DepsLive(s)' /\ Settled(s)' /\ Working(s)' /\ Sound(s)'
  BY <1>1 DEF FreshInv
<1>8. Working(s)'
  BY <1>6 DEF Quiet, Working
<1>9. DepsLive(s)'
  BY <1>6, PendingWhenQuietNext DEF DepsLive
<1>10. Complete(s) => s \notin C
  BY <1>3 DEF Complete, Incomplete
<1>11. Settled(s)'
  <2> SUFFICES ASSUME Complete(s), Clean(s)'
               PROVE  /\ Clean(s) /\ inn'[Cur(s)] = inn[Cur(s)]
                      /\ table'[s].answers = table[s].answers
                      /\ \A x \in inn[Cur(s)] : Held(x)' = Held(x)
    BY <1>1, <1>7, SettledKept DEF FreshInv
  <2>1. ASSUME NEW t \in Deps(s) PROVE t \in Subgoals /\ t \notin C /\ Complete(t)
    <3>1. t \in Subgoals /\ (Complete(t) \/ node[Prev(t)].live)
      BY DEF Deps, FreshInv, DepsLive
    <3>2. node[Prev(t)].live => Incomplete(t)
      BY <3>1 DEF GraphInv, Lives, Incomplete
    <3> QED BY <1>1, <1>3, <3>1, <3>2 DEF Complete, Incomplete
  <2>2. inn[Cur(s)] \subseteq Goals
    BY NodesAreCurOrPrev DEF GraphInv, GraphTyped
  <2>3. inn'[Cur(s)] = inn[Cur(s)]
    BY <1>4, <1>5, <1>10, <2>1 DEF Deps
  <2>4. \A t \in Deps(s) : /\ Pending(t)' <=> Pending(t)
                           /\ Altered(t) => Altered(t)'
    BY <1>5, <2>1 DEF Pending, Affected, Altered, Incomplete
  <2>5. Clean(s)
    BY <1>5, <1>10, <2>3, <2>4, CleanKept DEF CountOf, Deps
  <2>6. \A x \in inn[Cur(s)] : Held(x)' = Held(x)
    BY <1>1, <1>5, <2>1, <2>2 DEF Held, Goals, Deps, Complete
  <2> QED BY <1>5, <1>10, <2>3, <2>5, <2>6
<1>12. Sound(s)'
  <2>1. Means' = Means
    BY <1>1 DEF Means
  <2>2. ~Incomplete(s)'
    BY <1>6 DEF Quiet
  <2> QED BY <1>5, <1>7, <1>10, <2>1, <2>2 DEF FreshInv, Sound, Affected
<1> QED BY <1>8, <1>9, <1>11, <1>12

(* The completion of a component.  What its tables depend on is complete with *)
(* them, or was before.                                                       *)
LEMMA SccDeps ==
  ASSUME GraphInv, CoverInv, CompleteScc, NEW s \in Last(sccs)
  PROVE  /\ s \in Subgoals /\ Incomplete(s)
         /\ \A t \in Deps(s) : t \in Subgoals /\ ~Affected(t) /\ (Complete(t) \/ t \in Last(sccs))
<1> DEFINE n == Len(sccs)
<1>1. sccs # <<>> /\ sccs \in Seq(SUBSET Subgoals)
  BY DEF CompleteScc, GraphInv, Stack
<1>2. n \in Nat \ {0} /\ DOMAIN sccs = 1 .. n /\ Last(sccs) = sccs[n]
  BY <1>1 DEF Last
<1>3. s \in Subgoals /\ In(sccs, s)
  BY <1>1, StackPop DEF GraphInv
<1>4. Incomplete(s)
  BY <1>3 DEF GraphInv, Lives, Incomplete
<1> HIDE DEF n
<1>5. ASSUME NEW t \in Deps(s)
      PROVE  t \in Subgoals /\ ~Affected(t) /\ (Complete(t) \/ t \in Last(sccs))
  <2>1. t \in Subgoals /\ ~Affected(t) /\ (Complete(t) \/ Incomplete(t))
    BY <1>3, <1>4, DepsOfIncomplete
  <2>2. Incomplete(t) => \E j \in DOMAIN sccs : n <= j /\ t \in sccs[j]
    BY <1>2 DEF CoverInv, OrderedDeps
  <2>3. Incomplete(t) => t \in Last(sccs)
    BY <1>2, <2>2
  <2> QED BY <2>1, <2>3
<1> QED BY <1>3, <1>4, <1>5

(* A clause that has been called to its end gave its answers, and one that    *)
(* has not was left at a goal without an answer.                              *)
LEMMA CalledToTheEnd ==
  ASSUME ClausesTyped(program), CompleteScc, NEW s \in Last(sccs), s \in Subgoals,
         NEW body \in program[s], NEW a \in Answers,
         \A i \in DOMAIN body : body[i] \in called[s] => a \in ValueOf(body[i])
  PROVE  Range(body) \subseteq called[s] /\ a \in table[s].answers
<1>1. /\ \A g \in Goals \ called[s] : ~Callable(s, g)
      /\ a \notin table[s].answers => ~Derivable(s, a)
  BY DEF CompleteScc
<1>2. body \in Seq(Goals)
  BY DEF ClausesTyped
<1> DEFINE n == Len(body)
           T == {k \in Nat : k <= n => Prefix(body, k) \subseteq called[s]}
<1>3. n \in Nat /\ DOMAIN body = 1 .. n /\ \A i \in 1 .. n : body[i] \in Goals
  BY <1>2
<1>4. ASSUME NEW k \in 0 .. n, Prefix(body, k) \subseteq called[s]
      PROVE  a \in Common(Prefix(body, k))
  <2>1. ASSUME NEW j \in 1 .. k PROVE a \in ValueOf(body[j])
    <3>1. body[j] \in called[s] /\ j \in DOMAIN body
      BY <1>3, <1>4 DEF Prefix
    <3> QED BY <3>1
  <2>2. ASSUME NEW g \in Prefix(body, k) PROVE a \in ValueOf(g)
    <3>1. PICK j \in 1 .. k : g = body[j]
      BY DEF Prefix
    <3> QED BY <2>1, <3>1
  <2> QED BY <2>2 DEF Common
<1> HIDE DEF n
<1>5. 0 \in T
  BY DEF Prefix
<1>6. ASSUME NEW k \in 0 .. n - 1, k \in T PROVE k + 1 \in T
  <2>1. k \in 0 .. n /\ k + 1 \in 1 .. n /\ k + 1 \in Nat /\ Prefix(body, k) \subseteq called[s]
    BY <1>3, <1>6
  <2>2. a \in Common(Prefix(body, k))
    BY <1>4, <2>1
  <2>3. (k + 1) - 1 = k
    BY <2>1
  <2>4. Callable(s, body[k + 1])
    BY <1>3, <2>1, <2>2, <2>3 DEF Callable
  <2>5. body[k + 1] \in called[s]
    BY <1>1, <1>3, <2>1, <2>4
  <2>6. ASSUME NEW j \in 1 .. k + 1 PROVE body[j] \in called[s]
    <3>1. j \in 1 .. k \/ j = k + 1
      BY <2>1
    <3> QED BY <2>1, <2>5, <3>1 DEF Prefix
  <2>7. Prefix(body, k + 1) \subseteq called[s]
    BY <2>6 DEF Prefix
  <2> QED BY <2>1, <2>7
<1>7. T \subseteq Nat
  OBVIOUS
<1> HIDE DEF T
<1>8. \A k \in 0 .. n : k \in T
  BY <1>3, <1>5, <1>6, <1>7, SetInduction
<1>9. Prefix(body, n) \subseteq called[s] /\ n \in 0 .. n
  BY <1>3, <1>8 DEF T
<1>10. Range(body) = Prefix(body, n)
  BY <1>3 DEF Range, Prefix
<1>11. a \in Common(Range(body)) /\ Range(body) \subseteq called[s]
  BY <1>4, <1>9, <1>10
<1>12. Derivable(s, a)
  BY <1>11 DEF Derivable
<1> QED BY <1>1, <1>11, <1>12

LEMMA SccMemberFresh ==
  ASSUME GraphInv, CoverInv, FreshInv, CompleteScc, NEW u, NEW V, NEW nd,
         SccDone(Last(sccs), u, V, nd), NEW s \in Last(sccs)
  PROVE  DepsLive(s)' /\ Settled(s)' /\ Working(s)' /\ Sound(s)'
<1>1. PICK C : C = Last(sccs)
  OBVIOUS
<1>2. /\ s \in Subgoals /\ Incomplete(s) /\ s \in C
      /\ \A t \in Deps(s) : t \in Subgoals /\ ~Affected(t) /\ (Complete(t) \/ t \in C)
  BY <1>1, SccDeps
<1>3. /\ \A t \in Subgoals : /\ table'[t].state = IF t \in C THEN "complete" ELSE table[t].state
                             /\ table'[t].answers = table[t].answers
      /\ inn'[Cur(s)] = inn[Cur(s)] /\ Deps(s)' = Deps(s)
      /\ program' = program /\ facts' = facts
  <2>1. SccDone(C, u, V, nd)
    BY <1>1
  <2>2. program' = program /\ facts' = facts
    BY DEF CompleteScc
  <2> QED BY <1>2, <2>1, <2>2 DEF SccDone
<1>4. \A t \in Deps(s) : Complete(t)' /\ t \in Subgoals
  BY <1>2, <1>3 DEF Complete
<1>5. /\ DepsLive(s) /\ Working(s) /\ Sound(s) /\ ClausesTyped(program)
      /\ inn[Cur(s)] \subseteq Goals
  BY <1>2, NodesAreCurOrPrev DEF FreshInv, GraphInv, GraphTyped
<1>6. called[s] \subseteq inn[Cur(s)] /\ Derived(s)
  BY <1>2, <1>5 DEF Working
<1>7. ASSUME NEW g \in inn[Cur(s)] PROVE Held(g)' = ValueOf(g)
  <2>1. CASE g \in Leaves
    BY <1>3, <2>1 DEF Held, ValueOf
  <2>2. CASE g \notin Leaves
    <3>1. g \in Deps(s)
      BY <1>5, <2>2 DEF Goals, Deps
    <3> QED BY <1>3, <1>4, <2>2, <3>1 DEF Held, ValueOf
  <2> QED BY <2>1, <2>2
<1>8. Closed(s)'
  <2> SUFFICES ASSUME NEW body \in program[s], NEW a \in Answers,
                      \A i \in DOMAIN body : body[i] \in inn[Cur(s)] => a \in Held(body[i])'
               PROVE  Range(body) \subseteq inn[Cur(s)] /\ a \in table[s].answers
    BY <1>2, <1>3 DEF Closed
  <2>1. ASSUME NEW i \in DOMAIN body, body[i] \in called[s] PROVE a \in ValueOf(body[i])
    <3>1. PICK g : g = body[i]
      OBVIOUS
    <3>2. g \in inn[Cur(s)] /\ a \in Held(g)'
      BY <1>6, <2>1, <3>1
    <3> QED BY <1>7, <3>1, <3>2
  <2>2. Range(body) \subseteq called[s] /\ a \in table[s].answers
    BY <1>2, <1>5, <2>1, CalledToTheEnd
  <2> QED BY <1>6, <2>2
<1>9. Supported(s)'
  <2> SUFFICES ASSUME NEW a \in table[s].answers
               PROVE  \E body \in program[s] : \A i \in DOMAIN body :
                        body[i] \in inn[Cur(s)] /\ a \in Held(body[i])'
    BY <1>2, <1>3 DEF Supported
  <2>1. PICK body \in program[s] : \A i \in DOMAIN body :
                        body[i] \in inn[Cur(s)] /\ a \in ValueOf(body[i])
    BY <1>6 DEF Derived
  <2>2. ASSUME NEW i \in DOMAIN body PROVE body[i] \in inn[Cur(s)] /\ a \in Held(body[i])'
    <3>1. PICK g : g = body[i]
      OBVIOUS
    <3>2. g \in inn[Cur(s)] /\ a \in Held(g)'
      BY <1>7, <2>1, <3>1
    <3> QED BY <3>1, <3>2
  <2> QED BY <2>2
<1>10. ~Incomplete(s)'
  BY <1>2, <1>3 DEF Incomplete
<1>11. Sound(s)'
  BY <1>2, <1>3, <1>5 DEF Sound, Means
<1>12. DepsLive(s)'
  BY <1>3, <1>4 DEF DepsLive
<1> QED BY <1>8, <1>9, <1>10, <1>11, <1>12 DEF Settled, Working

(* The counts of a table that waits for nothing else: the tables of the       *)
(* component that it depends on are unchanged.                                *)
LEMMA SccClean ==
  ASSUME GraphInv, CoverInv, FreshInv, NEW C, NEW u, NEW V, NEW nd, SccDone(C, u, V, nd),
         NEW s \in Subgoals, Complete(s), Clean(s)'
  PROVE  Clean(s) /\ \A t \in Deps(s) \cap C : t \in u
<1>1. PICK e : e = Edges(Sources(u, V), Cur(s))
  OBVIOUS
<1>2. PICK left : left = PendingDeps(s)'
  OBVIOUS
<1>3. PICK pd : pd = PendingDeps(s)
  OBVIOUS
<1>4. /\ \A t \in Subgoals : SccLeaves(C, u, V, nd, t)
      /\ \A t \in Sources(u, V) : t \in Subgoals /\ Pending(t) /\ ~Pending(t)'
  BY SccPending
<1>5. /\ node'[Cur(s)] = nd[Cur(s)] /\ Deps(s)' = Deps(s)
      /\ \A t \in Subgoals : t \notin C => table'[t] = table[t]
      /\ \A t \in C : t \in Subgoals /\ Incomplete(t)
      /\ \A t \in u : ~table[t].changed
      /\ V \subseteq Nodes
  BY DEF SccDone, Valid
<1>6. /\ e \subseteq pd /\ left \subseteq pd \ e /\ pd \subseteq Goals
      /\ e \subseteq Goals /\ left \subseteq Goals
  BY <1>1, <1>2, <1>3, <1>4 DEF SccLeaves, PendingDeps, Deps, Goals
<1>7. /\ Cardinality(pd) \in Nat /\ Cardinality(e) \in Nat /\ Cardinality(left) \in Nat
      /\ Cardinality(e) <= Cardinality(pd)
      /\ Cardinality(left) + Cardinality(e) <= Cardinality(pd)
  BY <1>6, Smaller, PartGone
<1>8. CountOf(s) \in Nat /\ CountOf(s) >= Cardinality(pd)
  BY <1>3, <1>4 DEF CoverInv, Covered, SccLeaves
<1>9. nd[Cur(s)].falsecount = Cardinality(left) /\ \A t \in Deps(s) : ~Altered(t)'
  BY <1>2, <1>5 DEF Clean, CountOf
<1>10. LeftOf(nd, u, V, Cur(s))
  BY <1>4 DEF SccLeaves
<1>11. CountOf(s) = Cardinality(pd) /\ pd = left \cup e
  <2>1. CASE CountOf(s) = 0
    <3>1. Cardinality(pd) = 0 /\ IsFiniteSet(pd)
      BY <1>6, <1>7, <1>8, <2>1, Smaller
    <3>2. pd = {}
      BY <3>1, FS_EmptySet
    <3> QED BY <1>6, <2>1, <3>1, <3>2
  <2>2. CASE Cur(s) \in V
    <3>1. CountOf(s) <= Cardinality(e)
      BY <1>1, <1>10, <2>2 DEF LeftOf, CountOf
    <3>2. CountOf(s) = Cardinality(pd) /\ Cardinality(pd) <= Cardinality(e)
      BY <1>7, <1>8, <3>1
    <3>3. e = pd
      BY <1>6, <3>2, SameSize
    <3> QED BY <1>6, <3>2, <3>3
  <2>3. CASE CountOf(s) # 0 /\ Cur(s) \notin V
    <3>1. nd[Cur(s)].falsecount = CountOf(s) - Cardinality(e)
      BY <1>1, <1>8, <1>10, <2>3 DEF LeftOf, CountOf
    <3>2. /\ CountOf(s) = Cardinality(pd)
          /\ Cardinality(pd) = Cardinality(left) + Cardinality(e)
      BY <1>7, <1>8, <1>9, <3>1
    <3>3. PICK both : both = left \cup e
      OBVIOUS
    <3>4. both \subseteq pd /\ both \subseteq Goals /\ e \subseteq both /\ left \subseteq both \ e
      BY <1>6, <3>3
    <3>5. Cardinality(left) + Cardinality(e) <= Cardinality(both)
      BY <3>4, PartGone
    <3>6. both = pd
      BY <1>6, <3>2, <3>4, <3>5, SameSize
    <3> QED BY <3>2, <3>3, <3>6
  <2> QED BY <2>1, <2>2, <2>3
<1>12. ASSUME NEW t \in Deps(s), t \in C PROVE t \in u
  <2>1. Incomplete(t) /\ ~Complete(t) /\ t \in Subgoals
    BY <1>5, <1>12 DEF Incomplete, Complete
  <2>2. node[Prev(t)].live
    BY <2>1 DEF FreshInv, DepsLive
  <2>3. t \in pd
    BY <1>3, <2>2 DEF PendingDeps, Pending
  <2>4. CountOf(t) = 0 /\ ~Affected(t) /\ ~Affected(t)' /\ ~node'[Prev(t)].live
        /\ Prev(t) \notin V
    BY <1>4, <1>12, <2>1 DEF SccLeaves
  <2>5. t \notin left
    BY <1>2, <2>4 DEF PendingDeps, Pending
  <2>6. t \in Sources(u, V)
    BY <1>1, <1>11, <2>3, <2>5 DEF Edges
  <2>7. Cur(t) \notin V
    BY <1>4, <2>1, <2>4 DEF SccLeaves, LeftOf, CountOf
  <2>8. ASSUME NEW m \in V PROVE t # m[1]
    <3>1. m \in Nodes
      BY <1>5
    <3>2. t = m[1] => m = Cur(t) \/ m = Prev(t)
      BY <3>1 DEF Nodes, Cur, Prev
    <3> QED BY <2>4, <2>7, <3>2
  <2> QED BY <2>6, <2>8 DEF Sources
<1>13. ASSUME NEW t \in Deps(s) PROVE ~Altered(t)
  <2>1. t \in Subgoals
    BY DEF Deps
  <2>2. CASE t \in C
    BY <1>5, <1>12, <2>2 DEF Altered
  <2>3. CASE t \notin C
    BY <1>5, <1>9, <2>1, <2>3 DEF Altered, Incomplete
  <2> QED BY <2>2, <2>3
<1> QED BY <1>3, <1>11, <1>12, <1>13 DEF Clean

(* A table that the propagation brings to zero is fresh: what it waited for   *)
(* is unchanged, or was brought to zero before it.                            *)
LEMMA SccSound ==
  ASSUME GraphInv, CoverInv, FreshInv, NEW C, NEW u, NEW V, NEW nd, SccDone(C, u, V, nd),
         NEW s \in Subgoals, Cur(s) \in V
  PROVE  table[s].answers \subseteq Means[s]
<1> DEFINE S == {n \in V : \A t \in Subgoals : n = Cur(t) => table[t].answers \subseteq Means[t]}
<1>1. /\ \A t \in Subgoals : SccLeaves(C, u, V, nd, t)
      /\ Valid(u, V) /\ Least(u, V) /\ V \subseteq Nodes /\ u \in SUBSET Subgoals
      /\ \A t \in u : Incomplete(t) /\ ~table[t].changed /\ table[t].previous = {}
  BY SccPending DEF SccDone, Valid
<1>2. S \subseteq V /\ \A t \in Subgoals : Cur(t) \in S => table[t].answers \subseteq Means[t]
  OBVIOUS
<1>3. ASSUME NEW n \in Nodes, node[n].falsecount > 0,
             node[n].falsecount <= Cardinality(Edges(Sources(u, S), n))
      PROVE  n \in S
  <2> HIDE DEF S
  <2>1. n \in V
    <3>1. node[n].falsecount <= Cardinality(Edges(Sources(u, V), n))
      BY <1>1, <1>2, <1>3, MoreSources
    <3> QED BY <1>1, <1>3, <3>1 DEF Valid
  <2>2. ASSUME NEW t \in Subgoals, n = Cur(t) PROVE table[t].answers \subseteq Means[t]
    <3>1. PICK e : e = Edges(Sources(u, S), Cur(t))
      OBVIOUS
    <3>2. PICK pd : pd = PendingDeps(t)
      OBVIOUS
    <3>3. CountOf(t) > 0 /\ CountOf(t) \in Nat /\ CountOf(t) <= Cardinality(e)
      BY <1>1, <1>3, <2>2, <3>1 DEF CountOf, SccLeaves
    <3>4. e \subseteq pd /\ pd \subseteq Goals
      BY <1>1, <1>2, <3>1, <3>2 DEF SccLeaves, Edges, Sources, PendingDeps, Deps, Goals
    <3>5. Cardinality(e) \in Nat /\ Cardinality(pd) \in Nat /\ Cardinality(e) <= Cardinality(pd)
          /\ IsFiniteSet(e)
      BY <3>4, Smaller
    <3>6. Complete(t)
      <4>1. e # {}
        BY <3>3, FS_EmptySet
      <4>2. PICK g : g \in pd
        BY <3>4, <4>1
      <4>3. g \in Goals /\ g \in inn[Cur(t)] /\ Cur(t) \in Nodes
        BY <3>2, <4>2, NodesAreCurOrPrev DEF PendingDeps, Deps, Goals
      <4>4. node[Cur(t)].live
        BY <4>3 DEF GraphInv, Agree
      <4>5. table[t].state # "none" /\ table[t].state \in {"none", "incomplete", "complete"}
        BY <4>4 DEF GraphInv, Lives, GraphTyped, TableType
      <4>6. ~Incomplete(t)
        BY <1>1, <3>3 DEF SccLeaves
      <4> QED BY <4>5, <4>6 DEF Complete, Incomplete
    <3>7. CountOf(t) >= Cardinality(pd)
      BY <3>2, <3>6 DEF CoverInv, Covered
    <3>8. e = pd /\ CountOf(t) = Cardinality(pd)
      <4>1. Cardinality(pd) <= Cardinality(e) /\ CountOf(t) = Cardinality(pd)
        BY <3>3, <3>5, <3>7
      <4> QED BY <3>4, <4>1, SameSize
    <3>9. ASSUME NEW x \in Deps(t)
          PROVE  /\ x \in Subgoals /\ ~Altered(x)
                 /\ Held(x) \subseteq Means[x]
      <4>1. x \in Subgoals /\ x \notin Leaves
        BY SetsAssumption DEF Deps
      <4>2. CASE x \in u
        <5>1. table[x].answers \subseteq Means[x]
          BY <1>1, <4>1, <4>2 DEF FreshInv, Sound
        <5>2. Held(x) = table[x].answers
          BY <1>1, <4>1, <4>2 DEF Held
        <5> QED BY <1>1, <4>1, <4>2, <5>1, <5>2 DEF Altered
      <4>3. CASE x \in pd /\ x \notin u
        <5>1. x \in Sources(u, S)
          BY <3>1, <3>8, <4>3 DEF Edges
        <5>2. PICK m \in S : x = m[1]
          BY <4>3, <5>1 DEF Sources
        <5>3. m \in Nodes /\ m \in V
          BY <1>1, <1>2, <5>2
        <5>4. m = Cur(x) \/ m = Prev(x)
          BY <5>2, <5>3 DEF Nodes, Cur, Prev
        <5>5. m = Cur(x)
          BY <1>1, <4>1, <5>3, <5>4 DEF SccLeaves
        <5>6. table[x].answers \subseteq Means[x]
          BY <1>2, <4>1, <5>2, <5>5
        <5>7. ~Incomplete(x)
          BY <1>1, <4>1, <5>3, <5>5 DEF SccLeaves, LeftOf, CountOf
        <5>8. ~node[Prev(x)].live
          BY <4>1, <5>7 DEF GraphInv, Lives, Incomplete
        <5>9. Complete(x)
          BY <3>6, <5>8 DEF FreshInv, DepsLive
        <5> QED BY <4>1, <5>6, <5>7, <5>9 DEF Held, Altered
      <4>4. CASE x \notin pd
        <5>1. ~Affected(x) /\ ~node[Prev(x)].live
          BY <3>2, <4>4 DEF PendingDeps, Pending
        <5>2. Complete(x)
          BY <3>6, <5>1 DEF FreshInv, DepsLive
        <5>3. table[x].answers \subseteq Means[x]
          BY <4>1, <5>1, <5>2 DEF FreshInv, Sound
        <5> QED BY <4>1, <5>2, <5>3 DEF Held, Altered, Complete, Incomplete
      <4> QED BY <4>2, <4>3, <4>4
    <3>10. Supported(t)
      <4>1. Clean(t)
        BY <3>2, <3>8, <3>9 DEF Clean
      <4> QED BY <3>6, <4>1 DEF FreshInv, Settled
    <3> SUFFICES ASSUME NEW a \in table[t].answers PROVE a \in Means[t]
      OBVIOUS
    <3>11. PICK body \in program[t] : \A i \in DOMAIN body :
             body[i] \in inn[Cur(t)] /\ a \in Held(body[i])
      BY <3>10 DEF Supported
    <3>12. a \in Answers /\ inn[Cur(t)] \subseteq Goals
      BY NodesAreCurOrPrev DEF GraphInv, GraphTyped, TableType
    <3>13. ASSUME NEW i \in DOMAIN body PROVE a \in ValIn(facts, Means, body[i])
      <4>1. PICK g : g = body[i]
        OBVIOUS
      <4>2. g \in inn[Cur(t)] /\ a \in Held(g) /\ g \in Goals
        BY <3>11, <3>12, <4>1
      <4>3. CASE g \in Leaves
        BY <4>1, <4>2, <4>3 DEF Held, ValIn
      <4>4. CASE g \notin Leaves
        <5>1. g \in Deps(t)
          BY <4>2, <4>4 DEF Goals, Deps
        <5> QED BY <3>9, <4>1, <4>2, <4>4, <5>1 DEF ValIn
      <4> QED BY <4>3, <4>4
    <3> QED BY <3>12, <3>13, MeaningHas DEF FreshInv
  <2> QED BY <2>1, <2>2 DEF S
<1>4. S \in SUBSET Nodes
  BY <1>1
<1> HIDE DEF S
<1>5. V \subseteq S
  BY <1>1, <1>3, <1>4 DEF Least
<1> QED BY <1>2, <1>5

LEMMA SccOtherFresh ==
  ASSUME GraphInv, CoverInv, FreshInv, CompleteScc, NEW u, NEW V, NEW nd,
         SccDone(Last(sccs), u, V, nd), NEW s \in Subgoals, s \notin Last(sccs)
  PROVE  DepsLive(s)' /\ Settled(s)' /\ Working(s)' /\ Sound(s)'
<1>1. PICK C : C = Last(sccs)
  OBVIOUS
<1>2. /\ \A t \in Subgoals : /\ table'[t].state = IF t \in C THEN "complete" ELSE table[t].state
                             /\ table'[t].answers = table[t].answers
                             /\ t \notin C => table'[t] = table[t]
                             /\ node'[Prev(t)] = IF t \in C THEN NoNode ELSE nd[Prev(t)]
      /\ node'[Cur(s)] = nd[Cur(s)] /\ inn'[Cur(s)] = inn[Cur(s)] /\ Deps(s)' = Deps(s)
      /\ program' = program /\ facts' = facts /\ called'[s] = called[s]
      /\ SccDone(C, u, V, nd) /\ s \notin C
      /\ \A t \in u : Incomplete(t) /\ table[t].previous = {}
  <2>1. SccDone(C, u, V, nd) /\ s \notin C
    BY <1>1
  <2>2. program' = program /\ facts' = facts
    BY DEF CompleteScc
  <2>3. called'[s] = called[s]
    BY <1>1, <2>1 DEF CompleteScc
  <2>4. /\ \A t \in Subgoals : /\ table'[t].state = IF t \in C THEN "complete" ELSE table[t].state
                               /\ table'[t].answers = table[t].answers
                               /\ t \notin C => table'[t] = table[t]
                               /\ node'[Prev(t)] = IF t \in C THEN NoNode ELSE nd[Prev(t)]
        /\ node'[Cur(s)] = nd[Cur(s)] /\ inn'[Cur(s)] = inn[Cur(s)] /\ Deps(s)' = Deps(s)
    BY <2>1 DEF SccDone
  <2>5. \A t \in u : Incomplete(t) /\ table[t].previous = {}
    BY <2>1 DEF SccDone
  <2> QED BY <2>1, <2>2, <2>3, <2>4, <2>5
<1>3. \A t \in Subgoals : SccLeaves(C, u, V, nd, t)
  BY <1>2, SccPending
<1>4. /\ DepsLive(s) /\ Settled(s) /\ Working(s) /\ Sound(s)
      /\ Deps(s) \subseteq Subgoals /\ inn[Cur(s)] \subseteq Goals
  BY NodesAreCurOrPrev DEF FreshInv, Deps, GraphInv, GraphTyped
<1>5. (Complete(s)' <=> Complete(s)) /\ (Incomplete(s)' <=> Incomplete(s))
  BY <1>2 DEF Complete, Incomplete
<1>6. DepsLive(s)'
  <2> SUFFICES ASSUME Complete(s), NEW t \in Deps(s) PROVE Complete(t)' \/ node'[Prev(t)].live
    BY <1>2, <1>5 DEF DepsLive
  <2>1. t \in Subgoals /\ (Complete(t) \/ node[Prev(t)].live)
    BY <1>4 DEF DepsLive
  <2>2. CASE t \in C
    BY <1>2, <2>1, <2>2 DEF Complete
  <2>3. CASE t \notin C
    BY <1>2, <1>3, <2>1, <2>3 DEF Complete, SccLeaves
  <2> QED BY <2>2, <2>3
<1>7. Settled(s)'
  <2>1. ASSUME Complete(s)', Clean(s)'
        PROVE  Complete(s) /\ Clean(s) /\ \A g \in inn[Cur(s)] : Held(g)' = Held(g)
    <3>1. Complete(s) /\ Clean(s) /\ \A t \in Deps(s) \cap C : t \in u
      BY <1>2, <1>5, <2>1, SccClean
    <3>2. ASSUME NEW g \in inn[Cur(s)] PROVE Held(g)' = Held(g)
      <4>1. CASE g \in Leaves
        BY <1>2, <4>1 DEF Held
      <4>2. CASE g \notin Leaves
        <5>1. g \in Subgoals /\ g \in Deps(s)
          BY <1>4, <4>2 DEF Goals, Deps
        <5>2. CASE g \in C
          <6>1. g \in u /\ ~Complete(g) /\ Complete(g)'
            BY <1>2, <3>1, <5>1, <5>2 DEF Complete, Incomplete
          <6> QED BY <1>2, <4>2, <5>1, <6>1 DEF Held
        <5>3. CASE g \notin C
          BY <1>2, <4>2, <5>1, <5>3 DEF Held, Complete
        <5> QED BY <5>2, <5>3
      <4> QED BY <4>1, <4>2
    <3> QED BY <3>1, <3>2
  <2> QED BY <1>2, <1>4, <2>1, SettledKept
<1>8. Working(s)'
  BY <1>2, <1>4, <1>5, WorkingKept DEF Working
<1>9. Sound(s)'
  <2>1. ASSUME Complete(s), ~Affected(s)', Affected(s) PROVE table[s].answers \subseteq Means[s]
    <3>1. Cur(s) \in V
      BY <1>2, <1>3, <2>1 DEF SccLeaves, LeftOf, Affected, CountOf
    <3> QED BY <1>2, <3>1, SccSound
  <2> QED BY <1>2, <1>4, <1>5, <2>1 DEF Sound, Means
<1> QED BY <1>6, <1>7, <1>8, <1>9

LEMMA CompleteSccFresh ==
  ASSUME GraphInv, CoverInv, FreshInv, CompleteScc
  PROVE  FreshInv'
<1>1. PICK u, V, nd : SccDone(Last(sccs), u, V, nd)
  BY CompleteSccFacts
<1>2. \A s \in Subgoals : DepsLive(s)' /\ Settled(s)' /\ Working(s)' /\ Sound(s)'
  BY <1>1, SccMemberFresh, SccOtherFresh
<1>3. program' = program
  BY DEF CompleteScc
<1> QED BY <1>2, <1>3 DEF FreshInv, ClausesTyped

-----------------------------------------------------------------------------
LEMMA CallTableFresh ==
  ASSUME GraphInv, CoverInv, FreshInv, NEW p \in Callers, Runs(p), NEW g \in Subgoals,
         NEW use, NEW rest, CallTable(p, g, use, rest)
  PROVE  FreshInv'
BY FindTableFresh, ReevaluateFresh, ProduceFresh DEF CallTable

LEMMA LazyCallFresh ==
  ASSUME GraphInv, CoverInv, FreshInv, NEW p \in Callers, LazyCall(p)
  PROVE  FreshInv'
<1>1. Runs(p) /\ lazy[p] # <<>>
  BY DEF LazyCall
<1>2. PICK item : item = Head(lazy[p])
  OBVIOUS
<1>3. item.sub \in Subgoals
  BY <1>1, <1>2, ItemsLeft DEF ItemType
<1>4. CASE UNCHANGED <<program, facts, table, node, inn, called>>
  BY <1>4, VisitorsFresh
<1>5. CASE CallTable(p, item.sub, item.use, Tail(lazy[p]))
  BY <1>1, <1>3, <1>5, CallTableFresh
<1> QED BY <1>2, <1>4, <1>5 DEF LazyCall

LEMMA NextFresh ==
  ASSUME GraphInv, GraphInv', CoverInv, FreshInv, CountsLow, ThrowsAnywhere = FALSE, [Next]_vars
  PROVE  FreshInv'
<1>1. CASE \E s \in Subgoals, g \in Goals : CallGoal(s, g)
  <2>1. PICK s \in Subgoals, g \in Goals : CallGoal(s, g)
    BY <1>1
  <2>2. s \in Callers /\ Runs(s)
    BY <2>1 DEF CallGoal, Callers
  <2> QED BY <2>1, <2>2, CallLeafFresh, CallTableFresh DEF CallGoal
<1>2. CASE \E s \in Subgoals, a \in Answers : NewAnswer(s, a)
  BY <1>2, NewAnswerFresh
<1>3. CASE \E p \in Callers : LazyCall(p)
  BY <1>3, LazyCallFresh
<1>4. CASE CompleteScc
  BY <1>4, CompleteSccFresh
<1>5. CASE Return
  <2>1. UNCHANGED <<program, facts, node, inn, called>>
    BY <1>5 DEF Return
  <2>2. UNCHANGED table \/ \E s, v : table' = [table EXCEPT ![s].visitors = v]
    BY <1>5 DEF Return
  <2> QED BY <2>1, <2>2, VisitorsFresh
<1>6. CASE Resume \/ Close
  <2>1. UNCHANGED <<program, facts, node, inn, called>>
    BY <1>6 DEF Resume, Close, evalVars
  <2>2. UNCHANGED table \/ \E s, v : table' = [table EXCEPT ![s].visitors = v]
    BY <1>6 DEF Resume, Close, Unvisited
  <2> QED BY <2>1, <2>2, VisitorsFresh
<1>7. CASE \E s \in Subgoals : Query(s) \/ Invalidate(s) \/ Abolish(s)
  <2>1. PICK s \in Subgoals : Query(s) \/ Invalidate(s) \/ Abolish(s)
    BY <1>7
  <2>2. s \in Goals
    BY DEF Goals
  <2>3. CASE Query(s)
    BY <2>3, VisitorsFresh DEF Query
  <2> QED BY <2>1, <2>2, <2>3, IdleStepsFresh
<1>8. CASE \E l \in Leaves, f \in SUBSET Answers : Update(l, f)
  <2>1. PICK l \in Leaves : \E f \in SUBSET Answers : Update(l, f)
    BY <1>8
  <2>2. l \in Goals
    BY DEF Goals
  <2> QED BY <2>1, <2>2, IdleStepsFresh
<1>9. CASE Throw
  BY <1>9, ThrowFresh
<1>10. CASE UNCHANGED vars
  BY <1>10, VisitorsFresh DEF vars, evalVars
<1> QED BY <1>1, <1>2, <1>3, <1>4, <1>5, <1>6, <1>7, <1>8, <1>9, <1>10 DEF Next, Engine

LEMMA FreshAtStart == Init => FreshInv
<1> SUFFICES ASSUME Init PROVE FreshInv
  OBVIOUS
<1>1. \A s \in Subgoals : table[s].state = "none"
  BY DEF Init, NoTable
<1>2. ClausesTyped(program)
  BY ProgramsAssumption DEF Init, ClausesTyped
<1> QED BY <1>1, <1>2 DEF FreshInv, DepsLive, Settled, Working, Sound, Complete, Incomplete

(* The answers that a call takes from a complete table that is not marked as  *)
(* affected are those that its clauses derive from the facts as they are:     *)
(* invalidate_call reaches every table that an update may change, and         *)
(* propagate_no_change (call_graph_xsb.c) clears the mark of a table only     *)
(* when all that it depends on came out as it was.  An exception that ends a  *)
(* re-evaluation, and counts that come near the width of falsecount, are      *)
(* excluded.                                                                  *)
THEOREM NothingIsStale ==
  ASSUME ThrowsAnywhere = FALSE
  PROVE  Spec /\ []CountsLow => []NoStaleTable
<1>1. GraphInv /\ GraphInv' /\ CoverInv /\ CountsLow /\ [Next]_vars => CoverInv'
  BY NextCovers
<1>2. GraphInv /\ GraphInv' /\ CoverInv /\ FreshInv /\ CountsLow /\ [Next]_vars => FreshInv'
  BY NextFresh
<1>3. GraphInv /\ CoverInv /\ FreshInv => NoStaleTable
  BY FreshHolds
<1> QED BY <1>1, <1>2, <1>3, InvHolds, CoverHolds, FreshAtStart, PTL DEF Spec

-----------------------------------------------------------------------------
(* The query that runs and the open ones, as FreshTables sees them.           *)
LastOf(l) == l[Len(l)]
Asked   == IF lazy[Top] = <<>> THEN Top ELSE LastOf(lazy[Top]).sub
View(c) == [sub |-> c.sub, rest |-> Left(c)]
Views   == [k \in DOMAIN cursors |-> View(cursors[k])]

(* The list of the top level ends with the call, or the return, of the query. *)
OneCall(l) == \A i \in DOMAIN l : l[i].use = "if" <=> i < Len(l)

LEMMA AbstractStutter ==
  ASSUME UNCHANGED <<program, facts>>, Asked' = Asked, Views' = Views
  PROVE  [Fresh!FreshNext]_Fresh!freshVars
BY DEF Fresh!freshVars, Asked, Views, View, LastOf, Last

LEMMA AbstractAsk ==
  ASSUME NEW s \in Subgoals, UNCHANGED <<program, facts>>, Views' = Views,
         Asked = Top, Asked' = s
  PROVE  Fresh!FreshNext
<1>1. Fresh!Ask(s)
  BY DEF Fresh!Ask, Asked, Views, View, LastOf, Last
<1> QED BY <1>1 DEF Fresh!FreshNext

LEMMA AbstractRespond ==
  ASSUME NEW all, all = Means[Asked], Asked # Top, Asked' = Top, UNCHANGED <<program, facts>>,
         \/ all = {} /\ Views' = Views
         \/ \E a \in all : Views' = Append(Views, [sub |-> Asked, rest |-> all \ {a}])
  PROVE  Fresh!FreshNext
<1>1. Fresh!Respond
  BY DEF Fresh!Respond, Asked, Views, View, LastOf, Last, Means
<1> QED BY <1>1 DEF Fresh!FreshNext

LEMMA AbstractNextAnswer ==
  ASSUME Asked = Top, Asked' = Top, UNCHANGED <<program, facts>>, Views # <<>>,
         NEW a \in LastOf(Views).rest,
         \/ Views' = [Views EXCEPT ![Len(Views)].rest = @ \ {a}]
         \/ LastOf(Views).rest = {a} /\ Views' = Front(Views)
  PROVE  Fresh!FreshNext
<1>1. Fresh!NextAnswer
  BY DEF Fresh!NextAnswer, Asked, Views, View, LastOf, Last, Fresh!Last, Fresh!Front, Front
<1> QED BY <1>1 DEF Fresh!FreshNext

LEMMA AbstractClose ==
  ASSUME Asked = Top, Asked' = Top, UNCHANGED <<program, facts>>, Views # <<>>,
         Views' = Front(Views)
  PROVE  Fresh!FreshNext
<1>1. Fresh!Close
  BY DEF Fresh!Close, Asked, Views, View, LastOf, Last, Fresh!Last, Fresh!Front, Front
<1> QED BY <1>1 DEF Fresh!FreshNext

LEMMA AbstractChange ==
  ASSUME Asked = Top, Asked' = Top, UNCHANGED program, Views' = Views,
         NEW l \in Leaves, NEW f \in SUBSET Answers, facts' = [facts EXCEPT ![l] = f]
  PROVE  Fresh!FreshNext
<1>1. Fresh!ChangeFacts
  BY DEF Fresh!ChangeFacts, Asked, Views, View, LastOf, Last
<1> QED BY <1>1 DEF Fresh!FreshNext

LEMMA AbstractGiveUp ==
  ASSUME Asked # Top, Asked' = Top, UNCHANGED <<program, facts>>, Views' = Views
  PROVE  Fresh!FreshNext
<1>1. Fresh!GiveUp
  BY DEF Fresh!GiveUp, Asked, Views, View, LastOf, Last
<1> QED BY <1>1 DEF Fresh!FreshNext

-----------------------------------------------------------------------------
(* The list of the top level.                                                 *)
LEMMA ListRest ==
  ASSUME NEW l \in Seq(ItemType), l # <<>>, OneCall(l)
  PROVE  /\ Head(l).use = "if" => /\ Tail(l) # <<>> /\ OneCall(Tail(l))
                                  /\ LastOf(Tail(l)) = LastOf(l)
         /\ Head(l).use # "if" => Tail(l) = <<>> /\ LastOf(l) = Head(l)
<1>1. PICK r : r = Tail(l)
  OBVIOUS
<1>2. /\ Len(l) \in Nat \ {0} /\ DOMAIN l = 1 .. Len(l) /\ Head(l) = l[1]
      /\ r \in Seq(ItemType) /\ Len(r) = Len(l) - 1 /\ DOMAIN r = 1 .. Len(r)
      /\ \A i \in 1 .. Len(l) - 1 : r[i] = l[i + 1]
  BY <1>1
<1>3. Head(l).use = "if" <=> 1 < Len(l)
  BY <1>2 DEF OneCall
<1>4. ASSUME 1 < Len(l) PROVE r # <<>> /\ OneCall(r) /\ LastOf(r) = LastOf(l)
  <2>1. r # <<>> /\ Len(r) \in 1 .. Len(l) - 1
    BY <1>2, <1>4
  <2>2. ASSUME NEW i \in DOMAIN r PROVE r[i].use = "if" <=> i < Len(r)
    <3>1. i + 1 \in DOMAIN l /\ r[i] = l[i + 1] /\ (i + 1 < Len(l) <=> i < Len(r))
      BY <1>2
    <3> QED BY <3>1 DEF OneCall
  <2>3. r[Len(r)] = l[Len(l)]
    <3>1. Len(r) + 1 = Len(l)
      BY <1>2
    <3> QED BY <1>2, <2>1, <3>1
  <2> QED BY <2>1, <2>2, <2>3 DEF OneCall, LastOf
<1>5. ASSUME ~(1 < Len(l)) PROVE r = <<>> /\ LastOf(l) = Head(l)
  <2>1. Len(l) = 1 /\ Len(r) = 0
    BY <1>2, <1>5
  <2> QED BY <1>2, <2>1 DEF LastOf
<1> QED BY <1>1, <1>3, <1>4, <1>5

LEMMA ListJoined ==
  ASSUME NEW a \in Seq(ItemType), NEW r \in Seq(ItemType), a # <<>>, NEW use,
         \A i \in DOMAIN a : a[i].use = IF i < Len(a) THEN "if" ELSE use,
         use = "if" => r # <<>> /\ OneCall(r),
         use # "if" => r = <<>>
  PROVE  /\ a \o r # <<>> /\ OneCall(a \o r)
         /\ LastOf(a \o r) = IF use = "if" THEN LastOf(r) ELSE LastOf(a)
<1>1. PICK c : c = a \o r
  OBVIOUS
<1>2. /\ c \in Seq(ItemType) /\ Len(a) \in Nat \ {0} /\ Len(r) \in Nat
      /\ Len(c) = Len(a) + Len(r) /\ DOMAIN c = 1 .. Len(c)
      /\ DOMAIN a = 1 .. Len(a) /\ DOMAIN r = 1 .. Len(r)
      /\ \A i \in 1 .. Len(a) + Len(r) : c[i] = IF i <= Len(a) THEN a[i] ELSE r[i - Len(a)]
  BY <1>1
<1>3. c # <<>>
  BY <1>2
<1>4. CASE use = "if"
  <2>1. Len(r) > 0 /\ OneCall(r)
    BY <1>2, <1>4
  <2>2. ASSUME NEW i \in DOMAIN c PROVE c[i].use = "if" <=> i < Len(c)
    <3>1. CASE i <= Len(a)
      BY <1>2, <1>4, <2>1, <3>1
    <3>2. CASE ~(i <= Len(a))
      <4>1. /\ i - Len(a) \in DOMAIN r /\ c[i] = r[i - Len(a)]
            /\ (i - Len(a) < Len(r) <=> i < Len(c))
        BY <1>2, <3>2
      <4> QED BY <2>1, <4>1 DEF OneCall
    <3> QED BY <3>1, <3>2
  <2>3. c[Len(c)] = r[Len(r)]
    BY <1>2, <2>1
  <2> QED BY <1>1, <1>3, <1>4, <2>2, <2>3 DEF OneCall, LastOf
<1>5. CASE use # "if"
  <2>1. Len(r) = 0 /\ Len(c) = Len(a)
    BY <1>2, <1>5
  <2>2. \A i \in DOMAIN c : c[i].use = "if" <=> i < Len(c)
    BY <1>2, <1>5, <2>1
  <2>3. c[Len(c)] = a[Len(a)]
    BY <1>2, <2>1
  <2> QED BY <1>1, <1>3, <1>5, <2>2, <2>3 DEF OneCall, LastOf
<1> QED BY <1>4, <1>5

(* A call leaves the query that runs to be answered.                          *)
LEMMA CallAsks ==
  ASSUME GraphInv, NEW g \in Subgoals, NEW use \in {"call", "if"}, NEW r \in Seq(ItemType),
         use = "if" => r # <<>> /\ OneCall(r),
         use = "call" => r = <<>>,
         CallTable(Top, g, use, r), NEW new, new = lazy'[Top]
  PROVE  /\ new # <<>> /\ OneCall(new)
         /\ LastOf(new).sub = IF use = "if" THEN LastOf(r).sub ELSE g
<1>1. Top \in Callers /\ lazy \in [Callers -> Seq(ItemType)]
  BY DEF Callers, GraphInv, RestTyped
<1>2. CASE Goes(Top, g, use, r)
  <2>1. CASE use = "call"
    <3>1. PICK item : item = [sub |-> g, use |-> "return"]
      OBVIOUS
    <3>2. new = <<item>> /\ item.sub = g /\ item.use = "return"
      BY <1>1, <1>2, <2>1, <3>1 DEF Goes
    <3>3. new # <<>> /\ DOMAIN new = {1} /\ Len(new) = 1 /\ new[1] = item
      BY <3>2
    <3> QED BY <2>1, <3>2, <3>3 DEF OneCall, LastOf
  <2>2. CASE use = "if"
    <3>1. new = r
      BY <1>1, <1>2, <2>2 DEF Goes
    <3> QED BY <2>2, <3>1
  <2> QED BY <2>1, <2>2
<1>3. CASE Reevaluate(Top, g, use, r)
  <2>1. PICK l \in LazyLists(g) :
          lazy' = [lazy EXCEPT ![Top] =
                     [i \in DOMAIN l |->
                        [sub |-> l[i], use |-> IF i < Len(l) THEN "if" ELSE use]] \o r]
    BY <1>3 DEF Reevaluate
  <2>2. PICK a : a = [i \in DOMAIN l |-> [sub |-> l[i], use |-> IF i < Len(l) THEN "if" ELSE use]]
    OBVIOUS
  <2>3. a \in Seq(ItemType)
    BY <2>2, LazyListTyped
  <2>4. new = a \o r
    BY <1>1, <2>1, <2>2
  <2>5. PICK n, R : n = Cardinality(R) /\ R = ToRecompute(g)
    OBVIOUS
  <2>6. R \subseteq Subgoals /\ g \in R
    BY <2>5 DEF ToRecompute, Closure
  <2>7. n \in Nat
    BY <2>5, <2>6, SetsAssumption, FS_Subset, FS_CardinalityType
  <2>8. l \in [1 .. n -> R] /\ Range(l) = R /\ l[n] = g
    BY <2>5 DEF LazyLists
  <2>9. n # 0
    <3>1. \E i \in DOMAIN l : TRUE
      BY <2>6, <2>8 DEF Range
    <3> QED BY <2>8, <3>1
  <2>10. Len(l) = n /\ DOMAIN l = 1 .. n /\ l \in Seq(R)
    BY <2>7, <2>8, IsASeq
  <2>11. DOMAIN a = 1 .. n /\ Len(a) = n /\ n \in DOMAIN a
    BY <2>2, <2>3, <2>7, <2>9, <2>10
  <2>12. /\ a # <<>> /\ LastOf(a).sub = g
         /\ \A i \in DOMAIN a : a[i].use = IF i < Len(a) THEN "if" ELSE use
    BY <2>2, <2>8, <2>10, <2>11 DEF LastOf
  <2>13. use # "if" => r = <<>>
    OBVIOUS
  <2>14. a \in Seq(ItemType) /\ r \in Seq(ItemType) /\ a # <<>>
    BY <2>3, <2>12
  <2>15. /\ a \o r # <<>> /\ OneCall(a \o r)
         /\ LastOf(a \o r) = IF use = "if" THEN LastOf(r) ELSE LastOf(a)
    <3>1. use = "if" => r # <<>> /\ OneCall(r)
      OBVIOUS
    <3>2. \A i \in DOMAIN a : a[i].use = IF i < Len(a) THEN "if" ELSE use
      BY <2>12
    <3> QED BY ONLY <2>13, <2>14, <3>1, <3>2, ListJoined
  <2> QED BY <2>4, <2>12, <2>15
<1> QED BY <1>2, <1>3 DEF CallTable, FindTable, Produce

-----------------------------------------------------------------------------
(* The open queries.                                                          *)
LEMMA ViewsKept ==
  ASSUME VisInv, UNCHANGED cursors,
         \A s \in Subgoals : Within(s) = {} \/ table'[s].answers = table[s].answers
  PROVE  Views' = Views
<1>1. ASSUME NEW k \in DOMAIN cursors PROVE View(cursors[k])' = View(cursors[k])
  <2>1. PICK c : c = cursors[k]
    OBVIOUS
  <2>2. c \in CursorType /\ c = cursors'[k]
    BY <2>1 DEF VisInv
  <2>3. PICK s : s = c.sub
    OBVIOUS
  <2>4. s \in Subgoals
    BY <2>2, <2>3 DEF CursorType
  <2>5. c.mode = "trie" => table'[s].answers = table[s].answers
    BY <2>1, <2>3, <2>4 DEF Within
  <2>6. Left(c)' = Left(c)
    BY <2>2, <2>3, <2>5 DEF Left, CursorType
  <2> QED BY <2>1, <2>2, <2>6 DEF View
<1> QED BY <1>1 DEF Views

LEMMA ViewsCopied ==
  ASSUME GraphInv, VisInv, NEW D, CopiedOut(D),
         \A k \in DOMAIN cursors : \/ k \in D \/ cursors[k].mode # "trie"
                                   \/ table'[cursors[k].sub].answers = table[cursors[k].sub].answers
  PROVE  Views' = Views
<1>1. DOMAIN cursors' = DOMAIN cursors
  BY DEF CopiedOut
<1>2. ASSUME NEW k \in DOMAIN cursors PROVE View(cursors[k])' = View(cursors[k])
  <2>1. PICK c : c = cursors[k]
    OBVIOUS
  <2>2. c \in CursorType
    BY <2>1 DEF VisInv
  <2>3. PICK rest : rest = Left(c)
    OBVIOUS
  <2>4. PICK d : d = cursors'[k]
    OBVIOUS
  <2>5. d = IF k \in D THEN [c EXCEPT !.mode = "list", !.set = rest] ELSE c
    BY <2>1, <2>3, <2>4 DEF CopiedOut
  <2>6. CASE k \in D
    <3>1. d.mode = "list" /\ d.set = rest /\ d.sub = c.sub
      BY <2>2, <2>5, <2>6 DEF CursorType
    <3>2. Left(d)' = rest
      BY <3>1 DEF Left
    <3> QED BY <2>1, <2>3, <2>4, <3>1, <3>2 DEF View
  <2>7. CASE k \notin D
    <3>1. d = c /\ (c.mode = "trie" => table'[c.sub].answers = table[c.sub].answers)
      BY <2>1, <2>5, <2>7
    <3>2. Left(c)' = Left(c)
      BY <2>2, <3>1 DEF Left, CursorType
    <3> QED BY <2>1, <2>4, <3>1, <3>2 DEF View
  <2> QED BY <2>6, <2>7
<1> QED BY <1>1, <1>2 DEF Views

(* No call changes what an open query has still to return.                    *)
LEMMA CallKeepsViews ==
  ASSUME GraphInv, VisInv, NEW p, NEW g \in Subgoals, NEW use, NEW r,
         CallTable(p, g, use, r)
  PROVE  Views' = Views /\ UNCHANGED <<program, facts>>
<1>1. CASE FindTable(p, g, use, r)
  BY <1>1, ViewsKept DEF FindTable
<1>2. CASE Produce(p, g, use, r)
  <2>1. Within(g) = {}
    BY <1>2 DEF Produce, VisInv, Counted, LeftAlone
  <2>2. \A s \in Subgoals : s # g => table'[s] = table[s]
    BY <1>2 DEF Produce, GraphInv, GraphTyped
  <2> QED BY <1>2, <2>1, <2>2, ViewsKept DEF Produce
<1>3. CASE Reevaluate(p, g, use, r)
  <2>1. PICK V : cursors' = Copied(V) /\ table' = Forget(table, V)
    BY <1>3 DEF Reevaluate
  <2> DEFINE D == {k \in DOMAIN cursors : cursors[k].mode = "trie" /\ cursors[k].sub \in V}
  <2>2. CopiedOut(D)
    BY <2>1 DEF Copied, CopiedOut
  <2>3. \A s \in Subgoals : table'[s].answers = table[s].answers
    BY <2>1 DEF Forget, GraphInv, GraphTyped, TableType
  <2>4. \A k \in DOMAIN cursors : table'[cursors[k].sub].answers = table[cursors[k].sub].answers
    <3> SUFFICES ASSUME NEW k \in DOMAIN cursors
                 PROVE  table'[cursors[k].sub].answers = table[cursors[k].sub].answers
      OBVIOUS
    <3>1. PICK c : c = cursors[k]
      OBVIOUS
    <3>2. c.sub \in Subgoals
      <4>1. c \in CursorType
        BY <3>1 DEF VisInv
      <4> QED BY <4>1 DEF CursorType
    <3> QED BY <2>3, <3>1, <3>2
  <2> HIDE DEF D
  <2> QED BY <1>3, <2>2, <2>4, ViewsCopied DEF Reevaluate
<1> QED BY <1>1, <1>2, <1>3 DEF CallTable

(* An engine step that leaves the list of the top level.                      *)
TopKept == lazy'[Top] = lazy[Top]

LEMMA TopStutter ==
  ASSUME TopKept, UNCHANGED <<program, facts>>, Views' = Views, OneCall(lazy[Top])
  PROVE  [Fresh!FreshNext]_Fresh!freshVars /\ OneCall(lazy[Top])'
<1>1. Asked' = Asked
  BY DEF Asked, TopKept
<1>2. OneCall(lazy[Top])'
  BY DEF TopKept, OneCall
<1> QED BY <1>1, <1>2, AbstractStutter

LEMMA CallGoalRefines ==
  ASSUME GraphInv, VisInv, OneCall(lazy[Top]), NEW s \in Subgoals, NEW g \in Goals, CallGoal(s, g)
  PROVE  [Fresh!FreshNext]_Fresh!freshVars /\ OneCall(lazy[Top])'
<1>1. s # Top /\ lazy \in [Callers -> Seq(ItemType)] /\ Top \in Callers
  BY TopAssumption DEF Goals, Callers, GraphInv, RestTyped
<1>2. CASE CallLeaf(s, g)
  <2>1. Views' = Views
    BY <1>2, ViewsKept DEF CallLeaf
  <2> QED BY <1>2, <2>1, TopStutter DEF CallLeaf, TopKept
<1>3. CASE g \in Subgoals /\ CallTable(s, g, "call", <<>>)
  <2>1. Views' = Views /\ UNCHANGED <<program, facts>>
    BY <1>3, CallKeepsViews
  <2>2. TopKept
    BY <1>1, <1>3 DEF TopKept, CallTable, FindTable, Produce, Reevaluate, Goes
  <2> QED BY <2>1, <2>2, TopStutter
<1> QED BY <1>2, <1>3 DEF CallGoal

LEMMA LazyCallRefines ==
  ASSUME GraphInv, VisInv, OneCall(lazy[Top]), NEW p \in Callers, LazyCall(p)
  PROVE  [Fresh!FreshNext]_Fresh!freshVars /\ OneCall(lazy[Top])'
<1>1. lazy \in [Callers -> Seq(ItemType)] /\ Top \in Callers /\ lazy[p] # <<>>
  BY DEF Callers, GraphInv, RestTyped, LazyCall
<1>2. PICK item, r : item = Head(lazy[p]) /\ r = Tail(lazy[p])
  OBVIOUS
<1>3. item \in ItemType /\ r \in Seq(ItemType) /\ item.sub \in Subgoals
  BY <1>1, <1>2, ItemsLeft DEF ItemType
<1>4. \/ /\ item.use = "if" /\ lazy' = [lazy EXCEPT ![p] = r]
         /\ UNCHANGED <<program, facts, table, cursors>>
      \/ item.use \in {"call", "if"} /\ CallTable(p, item.sub, item.use, r)
  BY <1>2 DEF LazyCall
<1>5. Views' = Views /\ UNCHANGED <<program, facts>>
  <2>1. CASE UNCHANGED <<program, facts, table, cursors>>
    BY <2>1, ViewsKept
  <2> QED BY <1>3, <1>4, <2>1, CallKeepsViews
<1>6. CASE p # Top
  <2>1. TopKept
    BY <1>1, <1>4, <1>6 DEF TopKept, CallTable, FindTable, Produce, Reevaluate, Goes
  <2> QED BY <1>5, <2>1, TopStutter
<1>7. CASE p = Top
  <2>1. PICK l, new : l = lazy[Top] /\ new = lazy'[Top]
    OBVIOUS
  <2>2. l \in Seq(ItemType) /\ l # <<>> /\ OneCall(l) /\ item = Head(l) /\ r = Tail(l)
    BY <1>1, <1>2, <1>7, <2>1
  <2>3. /\ item.use = "if" => r # <<>> /\ OneCall(r) /\ LastOf(r) = LastOf(l)
        /\ item.use # "if" => r = <<>> /\ LastOf(l) = item
    BY <2>2, ListRest
  <2>4. new # <<>> /\ OneCall(new) /\ LastOf(new).sub = LastOf(l).sub
    <3>1. CASE item.use = "if" /\ lazy' = [lazy EXCEPT ![p] = r]
      <4>1. new = r
        BY <1>1, <1>7, <2>1, <3>1
      <4> QED BY <2>3, <3>1, <4>1
    <3>2. CASE item.use \in {"call", "if"} /\ CallTable(p, item.sub, item.use, r)
      <4>1. PICK g, use : g = item.sub /\ use = item.use
        OBVIOUS
      <4>2. CallTable(Top, g, use, r) /\ g \in Subgoals /\ use \in {"call", "if"}
        BY <1>3, <1>7, <3>2, <4>1
      <4>3. /\ new # <<>> /\ OneCall(new)
            /\ LastOf(new).sub = IF use = "if" THEN LastOf(r).sub ELSE g
        BY <1>3, <2>1, <2>3, <4>1, <4>2, CallAsks
      <4> QED BY <2>3, <4>1, <4>2, <4>3
    <3> QED BY <1>4, <3>1, <3>2
  <2>5. Asked' = Asked
    BY <2>1, <2>2, <2>4 DEF Asked
  <2>6. OneCall(lazy[Top])'
    BY <2>1, <2>4 DEF OneCall
  <2> QED BY <1>5, <2>5, <2>6, AbstractStutter
<1> QED BY <1>6, <1>7

LEMMA PlainRefines ==
  ASSUME GraphInv, VisInv, OneCall(lazy[Top]),
         \/ \E s \in Subgoals, a \in Answers : NewAnswer(s, a)
         \/ CompleteScc
         \/ \E s \in Subgoals : Invalidate(s) \/ Abolish(s)
         \/ UNCHANGED vars
  PROVE  [Fresh!FreshNext]_Fresh!freshVars /\ OneCall(lazy[Top])'
<1>1. TopKept /\ UNCHANGED <<program, facts>>
  BY DEF TopKept, NewAnswer, CompleteScc, Invalidate, Abolish, vars, evalVars
<1>2. CASE \E s \in Subgoals, a \in Answers : NewAnswer(s, a)
  <2>1. PICK s \in Subgoals, a \in Answers : NewAnswer(s, a)
    BY <1>2
  <2>2. Incomplete(s)
    <3>1. Runs(s) /\ s # Top /\ s \in Callers
      BY <2>1, TopAssumption DEF NewAnswer, Goals, Callers
    <3> QED BY <3>1, RunningIsIncomplete DEF Incomplete
  <2>3. Within(s) = {}
    BY <2>2 DEF VisInv, Counted, Complete, Incomplete
  <2>4. UNCHANGED cursors /\ \A t \in Subgoals : t # s => table'[t] = table[t]
    BY <2>1 DEF NewAnswer, GraphInv, GraphTyped
  <2>5. Views' = Views
    BY <2>3, <2>4, ViewsKept
  <2> QED BY <1>1, <2>5, TopStutter
<1>3. CASE CompleteScc
  <2>1. UNCHANGED cursors /\ \A t \in Subgoals : table'[t].answers = table[t].answers
    BY <1>3 DEF CompleteScc, NoTable
  <2>2. Views' = Views
    BY <2>1, ViewsKept
  <2> QED BY <1>1, <2>2, TopStutter
<1>4. CASE \E s \in Subgoals : Invalidate(s)
  <2>1. UNCHANGED <<cursors, table>>
    BY <1>4 DEF Invalidate
  <2>2. Views' = Views
    BY <2>1, ViewsKept
  <2> QED BY <1>1, <2>2, TopStutter
<1>5. CASE \E s \in Subgoals : Abolish(s)
  <2>1. PICK s \in Subgoals : Abolish(s)
    BY <1>5
  <2> DEFINE D == {k \in DOMAIN cursors : cursors[k].sub = s /\ cursors[k].mode # "list"}
  <2>2. CopiedOut(D) /\ table' = [table EXCEPT ![s] = NoTable]
    BY <2>1 DEF Abolish, CopiedOut
  <2>3. ASSUME NEW k \in DOMAIN cursors
        PROVE  \/ k \in D \/ cursors[k].mode # "trie"
               \/ table'[cursors[k].sub].answers = table[cursors[k].sub].answers
    BY <2>2 DEF GraphInv, GraphTyped
  <2> HIDE DEF D
  <2>4. Views' = Views
    BY <2>2, <2>3, ViewsCopied
  <2> QED BY <1>1, <2>4, TopStutter
<1>6. CASE UNCHANGED vars
  <2>1. UNCHANGED <<cursors, table>>
    BY <1>6 DEF vars
  <2>2. Views' = Views
    BY <2>1, ViewsKept
  <2> QED BY <1>1, <2>2, TopStutter
<1> QED BY <1>2, <1>3, <1>4, <1>5, <1>6

-----------------------------------------------------------------------------
(* The steps of the top level.                                                *)
LEMMA TopHasList ==
  ASSUME GraphInv
  PROVE  /\ Top \in Callers /\ lazy[Top] \in Seq(ItemType)
         /\ lazy[Top] # <<>> => Asked \in Subgoals /\ Asked # Top
<1>1. Top \in Callers /\ lazy[Top] \in Seq(ItemType)
  BY DEF Callers, GraphInv, RestTyped
<1>2. PICK l : l = lazy[Top]
  OBVIOUS
<1>3. ASSUME l # <<>> PROVE LastOf(l).sub \in Subgoals
  <2>1. Len(l) \in DOMAIN l /\ l[Len(l)] \in ItemType
    BY <1>1, <1>2, <1>3
  <2> QED BY <2>1 DEF LastOf, ItemType
<1>4. Top \notin Subgoals
  BY TopAssumption DEF Goals
<1> QED BY <1>1, <1>2, <1>3, <1>4 DEF Asked

LEMMA QueryRefines ==
  ASSUME GraphInv, VisInv, NEW s \in Subgoals, Query(s)
  PROVE  [Fresh!FreshNext]_Fresh!freshVars /\ OneCall(lazy[Top])'
<1>1. /\ UNCHANGED <<program, facts, table, cursors>> /\ lazy[Top] = <<>>
      /\ lazy' = [lazy EXCEPT ![Top] = <<[sub |-> s, use |-> "call"]>>]
  BY DEF Query, Idle
<1>2. PICK item, new : item = [sub |-> s, use |-> "call"] /\ new = <<item>>
  OBVIOUS
<1>3. lazy'[Top] = new
  BY <1>1, <1>2, TopHasList DEF GraphInv, RestTyped
<1>4. new # <<>> /\ DOMAIN new = {1} /\ Len(new) = 1 /\ new[1] = item
      /\ item.sub = s /\ item.use = "call"
  BY <1>2
<1>5. OneCall(lazy[Top])'
  BY <1>3, <1>4 DEF OneCall
<1>6. Asked = Top /\ Asked' = s
  BY <1>1, <1>3, <1>4 DEF Asked, LastOf
<1>7. Views' = Views
  BY <1>1, ViewsKept
<1> QED BY <1>1, <1>5, <1>6, <1>7, AbstractAsk

LEMMA UpdateRefines ==
  ASSUME GraphInv, VisInv, OneCall(lazy[Top]), NEW l \in Leaves, NEW f \in SUBSET Answers,
         Update(l, f)
  PROVE  [Fresh!FreshNext]_Fresh!freshVars /\ OneCall(lazy[Top])'
<1>1. /\ UNCHANGED <<program, table, cursors, lazy>> /\ lazy[Top] = <<>>
      /\ facts' = [facts EXCEPT ![l] = f]
  BY DEF Update, Idle, evalVars
<1>2. Asked = Top /\ Asked' = Top /\ Views' = Views /\ OneCall(lazy[Top])'
  BY <1>1, ViewsKept DEF Asked, OneCall
<1> QED BY <1>1, <1>2, AbstractChange

LEMMA ThrowRefines ==
  ASSUME GraphInv, VisInv, Throw
  PROVE  [Fresh!FreshNext]_Fresh!freshVars /\ OneCall(lazy[Top])'
<1> DEFINE C == UNION Range(sccs)
<1>1. /\ table' = [s \in Subgoals |-> IF s \in C THEN NoTable ELSE table[s]]
      /\ UNCHANGED <<program, facts, cursors>> /\ lazy' = [p \in Callers |-> <<>>]
  BY DEF Throw
<1>2. \A s \in Subgoals : s \in C => ~Complete(s)
  <2>1. \A s : s \in C <=> In(sccs, s)
    BY InIsUnion
  <2> HIDE DEF C
  <2> QED BY <2>1 DEF GraphInv, Lives, Complete
<1> HIDE DEF C
<1>3. Views' = Views
  <2>1. \A s \in Subgoals : Within(s) = {} \/ table'[s].answers = table[s].answers
    BY <1>1, <1>2 DEF VisInv, Counted
  <2> QED BY <1>1, <2>1, ViewsKept
<1>4. lazy'[Top] = <<>>
  BY <1>1, TopHasList
<1>5. Asked' = Top /\ OneCall(lazy[Top])'
  BY <1>4 DEF Asked, OneCall
<1>6. CASE Asked = Top
  BY <1>1, <1>3, <1>5, <1>6, AbstractStutter
<1>7. CASE Asked # Top
  BY <1>1, <1>3, <1>5, <1>7, AbstractGiveUp
<1> QED BY <1>5, <1>6, <1>7

(* The query returns from a complete table, which is not stale.               *)
LEMMA ReturnRefines ==
  ASSUME GraphInv, CoverInv, FreshInv, VisInv, OneCall(lazy[Top]), Return
  PROVE  [Fresh!FreshNext]_Fresh!freshVars /\ OneCall(lazy[Top])'
<1>1. PICK l, item, s : l = lazy[Top] /\ item = Head(l) /\ s = item.sub
  OBVIOUS
<1>2. /\ sccs = <<>> /\ l # <<>> /\ item.use = "return" /\ lazy' = [lazy EXCEPT ![Top] = <<>>]
      /\ UNCHANGED <<program, facts>>
      /\ \/ table[s].answers = {} /\ UNCHANGED <<cursors, table>>
         \/ \E a \in table[s].answers :
              /\ cursors' = Append(cursors, Spend([sub |-> s, mode |-> "trie", set |-> {a}]))
              /\ table' = [table EXCEPT ![s].visitors = @ + 1]
  BY <1>1 DEF Return
<1>3. l \in Seq(ItemType) /\ FreshItems(Top, l) /\ 1 \in DOMAIN l /\ item = l[1]
  <2>1. l \in Seq(ItemType) /\ FreshItems(Top, l)
    BY <1>1, TopHasList DEF VisInv, ReturnsFresh
  <2> QED BY <1>1, <1>2, <2>1
<1>4. s \in Subgoals /\ ~Affected(s) /\ table[s].state # "none"
  <2>1. item \in ItemType /\ ItemFresh(Top, item)
    BY <1>3 DEF FreshItems
  <2> QED BY <1>1, <1>2, <2>1 DEF ItemFresh, ItemType
<1>5. Complete(s)
  <2>1. table[s].state \in {"none", "incomplete", "complete"}
    BY <1>4 DEF GraphInv, GraphTyped, TableType
  <2> QED BY <1>2, <1>4, <2>1, IdleIsQuiet DEF Quiet, Incomplete, Complete
<1>6. PICK all : all = table[s].answers
  OBVIOUS
<1>7. all = Means[s] /\ all \in SUBSET Answers
  <2>1. all = Means[s]
    BY <1>4, <1>5, <1>6, FreshHolds DEF NoStaleTable, Means
  <2> QED BY <1>4, <1>6, <2>1 DEF GraphInv, GraphTyped, TableType
<1>8. Asked = s /\ Asked # Top
  <2>1. LastOf(l) = item
    BY <1>1, <1>2, <1>3, ListRest
  <2> QED BY <1>1, <1>2, <2>1, TopHasList DEF Asked
<1>9. lazy'[Top] = <<>>
  BY <1>2, TopHasList DEF GraphInv, RestTyped
<1>10. Asked' = Top /\ OneCall(lazy[Top])'
  BY <1>9 DEF Asked, OneCall
<1>11. CASE all = {} /\ UNCHANGED <<cursors, table>>
  <2>1. Views' = Views
    BY <1>11, ViewsKept
  <2> QED BY <1>2, <1>7, <1>8, <1>10, <1>11, <2>1, AbstractRespond
<1>12. ASSUME NEW a \in all,
              cursors' = Append(cursors, Spend([sub |-> s, mode |-> "trie", set |-> {a}])),
              table' = [table EXCEPT ![s].visitors = @ + 1]
       PROVE  Views' = Append(Views, [sub |-> s, rest |-> all \ {a}])
  <2>1. PICK c0, c : c0 = [sub |-> s, mode |-> "trie", set |-> {a}] /\ c = Spend(c0)
    OBVIOUS
  <2>2. \A t \in Subgoals : table'[t].answers = table[t].answers
    BY <1>12 DEF GraphInv, GraphTyped, TableType
  <2>3. c.sub = s /\ Left(c)' = all \ {a}
    <3>1. c0.sub = s /\ c0.mode = "trie" /\ c0.set = {a}
      BY <2>1
    <3>2. CASE {a} = all
      <4>1. c.sub = s /\ c.mode = "spent"
        BY <1>6, <2>1, <3>1, <3>2 DEF Spend
      <4> QED BY <3>2, <4>1 DEF Left
    <3>3. CASE {a} # all
      <4>1. c = c0
        BY <1>6, <2>1, <3>1, <3>3 DEF Spend
      <4> QED BY <1>4, <1>6, <2>2, <3>1, <4>1 DEF Left
    <3> QED BY <3>2, <3>3
  <2>4. PICK v : v = [sub |-> s, rest |-> all \ {a}]
    OBVIOUS
  <2>5. View(c)' = v
    BY <2>3, <2>4 DEF View
  <2>0. PICK n : n = Len(cursors)
    OBVIOUS
  <2>6. cursors \in Seq(CursorType) /\ n \in Nat /\ DOMAIN cursors = 1 .. n
    BY <2>0 DEF VisInv
  <2>7. cursors' = Append(cursors, c)
    BY <1>12, <2>1
  <2>8. /\ DOMAIN cursors' = 1 .. n + 1 /\ cursors'[n + 1] = c
        /\ \A k \in 1 .. n : cursors'[k] = cursors[k]
    BY <2>0, <2>6, <2>7
  <2>9. ASSUME NEW k \in 1 .. n PROVE View(cursors[k])' = View(cursors[k])
    <3>1. PICK d : d = cursors[k]
      OBVIOUS
    <3>2. d \in CursorType /\ d = cursors'[k]
      BY <2>6, <2>8, <3>1
    <3>3. d.sub \in Subgoals
      BY <3>2 DEF CursorType
    <3>4. Left(d)' = Left(d)
      BY <2>2, <3>2, <3>3 DEF Left, CursorType
    <3> QED BY <3>1, <3>2, <3>4 DEF View
  <2>10. /\ Views' = [k \in 1 .. n + 1 |-> View(cursors[k])']
         /\ Views = [k \in 1 .. n |-> View(cursors[k])]
    BY <2>6, <2>8 DEF Views
  <2>11. Len(Views) = n /\ Views = [k \in 1 .. n |-> Views[k]]
    BY <2>6, <2>10
  <2>12. View(cursors[n + 1])' = v
    BY <2>5, <2>8 DEF View, Left
  <2>13. Append(Views, v) = [k \in 1 .. n + 1 |-> IF k = n + 1 THEN v ELSE Views[k]]
    BY <2>6, <2>11
  <2>14. ASSUME NEW k \in 1 .. n + 1
         PROVE  View(cursors[k])' = IF k = n + 1 THEN v ELSE Views[k]
    <3>1. k = n + 1 \/ k \in 1 .. n
      BY <2>6
    <3>2. CASE k \in 1 .. n
      <4>1. k # n + 1 /\ Views[k] = View(cursors[k])
        BY <2>6, <2>10, <3>2
      <4> QED BY <2>9, <3>2, <4>1
    <3> QED BY <2>12, <3>1, <3>2
  <2> QED BY <2>4, <2>10, <2>13, <2>14
<1>13. CASE \E a \in all : cursors' = Append(cursors, Spend([sub |-> s, mode |-> "trie", set |-> {a}]))
                           /\ table' = [table EXCEPT ![s].visitors = @ + 1]
  <2>1. \E a \in all : Views' = Append(Views, [sub |-> s, rest |-> all \ {a}])
    BY <1>12, <1>13
  <2> QED BY <1>2, <1>7, <1>8, <1>10, <2>1, AbstractRespond
<1> QED BY <1>2, <1>6, <1>11, <1>13

(* The youngest open query goes on, or ends.                                  *)
LEMMA YoungestView ==
  ASSUME VisInv, cursors # <<>>, NEW n, n = Len(cursors)
  PROVE  /\ n \in Nat \ {0} /\ DOMAIN cursors = 1 .. n /\ cursors \in Seq(CursorType)
         /\ Views = [k \in 1 .. n |-> View(cursors[k])] /\ Len(Views) = n /\ Views # <<>>
         /\ LastOf(Views).rest = Left(cursors[n])
<1>1. n \in Nat \ {0} /\ DOMAIN cursors = 1 .. n /\ cursors \in Seq(CursorType)
  BY DEF VisInv
<1>2. Views = [k \in 1 .. n |-> View(cursors[k])]
  BY <1>1 DEF Views
<1>3. Len(Views) = n /\ Views # <<>> /\ Views[n] = View(cursors[n])
  BY <1>1, <1>2
<1>4. LastOf(Views).rest = Left(cursors[n])
  BY <1>3 DEF LastOf, View
<1> QED BY <1>1, <1>2, <1>3, <1>4

LEMMA OldViews ==
  ASSUME VisInv, NEW k \in DOMAIN cursors, cursors'[k] = cursors[k],
         \A t \in Subgoals : table'[t].answers = table[t].answers
  PROVE  View(cursors[k])' = View(cursors[k])
<1>1. PICK d : d = cursors[k]
  OBVIOUS
<1>2. d \in CursorType /\ d = cursors'[k]
  BY <1>1 DEF VisInv
<1>3. d.sub \in Subgoals
  BY <1>2 DEF CursorType
<1>4. Left(d)' = Left(d)
  BY <1>2, <1>3 DEF Left, CursorType
<1> QED BY <1>1, <1>2, <1>4 DEF View

LEMMA YoungestCloses ==
  ASSUME VisInv, cursors # <<>>, cursors' = Front(cursors),
         \A t \in Subgoals : table'[t].answers = table[t].answers
  PROVE  Views' = Front(Views)
<1>1. PICK n : n = Len(cursors)
  OBVIOUS
<1>2. /\ n \in Nat \ {0} /\ DOMAIN cursors = 1 .. n /\ cursors \in Seq(CursorType)
      /\ Views = [k \in 1 .. n |-> View(cursors[k])] /\ Len(Views) = n
  BY <1>1, YoungestView
<1>3. /\ DOMAIN cursors' = 1 .. n - 1
      /\ \A k \in 1 .. n - 1 : k \in DOMAIN cursors /\ cursors'[k] = cursors[k]
  BY <1>1, <1>2 DEF Front
<1>4. \A k \in 1 .. n - 1 : View(cursors[k])' = View(cursors[k]) /\ Views[k] = View(cursors[k])
  BY <1>2, <1>3, OldViews
<1>5. Views' = [k \in 1 .. n - 1 |-> View(cursors[k])']
  BY <1>3 DEF Views
<1>6. Views \in Seq(Range(Views))
  BY <1>2, IsASeq DEF Range
<1>7. Front(Views) = [k \in 1 .. n - 1 |-> Views[k]]
  BY <1>2, <1>6 DEF Front
<1> QED BY <1>4, <1>5, <1>7

LEMMA YoungestGoesOn ==
  ASSUME VisInv, cursors # <<>>, UNCHANGED table, NEW n, n = Len(cursors), NEW d, NEW a,
         cursors' = [cursors EXCEPT ![n] = d], d.sub = cursors[n].sub,
         Left(d) = Left(cursors[n]) \ {a}
  PROVE  Views' = [Views EXCEPT ![Len(Views)].rest = @ \ {a}]
<1>1. /\ n \in Nat \ {0} /\ DOMAIN cursors = 1 .. n
      /\ Views = [k \in 1 .. n |-> View(cursors[k])] /\ Len(Views) = n
  BY YoungestView
<1>2. /\ DOMAIN cursors' = 1 .. n /\ cursors'[n] = d
      /\ \A k \in 1 .. n : k # n => cursors'[k] = cursors[k]
  BY <1>1
<1>3. PICK c, v, w : c = cursors[n] /\ v = View(c) /\ w = [v EXCEPT !.rest = @ \ {a}]
  OBVIOUS
<1>4. Left(d)' = Left(c) \ {a}
  BY <1>3 DEF Left
<1>5. w = [sub |-> c.sub, rest |-> Left(c) \ {a}]
  BY <1>3 DEF View
<1>6. View(d)' = w
  BY <1>3, <1>4, <1>5 DEF View
<1>7. ASSUME NEW k \in 1 .. n PROVE View(cursors[k])' = IF k = n THEN w ELSE Views[k]
  <2>1. CASE k = n
    <3>1. PICK e : e = cursors'[k]
      OBVIOUS
    <3>2. e = d
      BY <1>2, <2>1, <3>1
    <3> QED BY <1>6, <2>1, <3>1, <3>2 DEF View, Left
  <2>2. CASE k # n
    BY <1>1, <1>2, <2>2, OldViews
  <2> QED BY <2>1, <2>2
<1>8. Views' = [k \in 1 .. n |-> View(cursors[k])']
  BY <1>2 DEF Views
<1>9. [Views EXCEPT ![Len(Views)].rest = @ \ {a}] = [k \in 1 .. n |-> IF k = n THEN w ELSE Views[k]]
  BY <1>1, <1>3
<1> QED BY <1>7, <1>8, <1>9

LEMMA ResumeRefines ==
  ASSUME GraphInv, VisInv, OneCall(lazy[Top]), Resume
  PROVE  [Fresh!FreshNext]_Fresh!freshVars /\ OneCall(lazy[Top])'
<1>1. /\ cursors # <<>> /\ UNCHANGED <<program, facts, table, lazy>> /\ lazy[Top] = <<>>
  BY DEF Resume, Idle, evalVars
<1>2. PICK n, c : n = Len(cursors) /\ c = cursors[n]
  OBVIOUS
<1>3. /\ n \in Nat \ {0} /\ DOMAIN cursors = 1 .. n /\ cursors \in Seq(CursorType)
      /\ Views # <<>> /\ LastOf(Views).rest = Left(c)
  BY <1>1, <1>2, YoungestView
<1>4. c \in CursorType /\ Last(cursors) = c
  BY <1>2, <1>3 DEF Last
<1>5. Asked = Top /\ Asked' = Top /\ OneCall(lazy[Top])'
  BY <1>1 DEF Asked, OneCall
<1>6. \/ c.mode = "trie" /\ \E a \in table[c.sub].answers \ c.set :
           cursors' = [cursors EXCEPT ![n] = Spend([c EXCEPT !.set = @ \cup {a}])]
      \/ c.mode = "list" /\ \E a \in c.set :
           cursors' = IF c.set = {a} THEN Front(cursors)
                      ELSE [cursors EXCEPT ![n].set = @ \ {a}]
  BY <1>2, <1>4 DEF Resume
<1>7. ASSUME NEW a, c.mode = "trie", a \in table[c.sub].answers \ c.set,
             cursors' = [cursors EXCEPT ![n] = Spend([c EXCEPT !.set = @ \cup {a}])]
      PROVE  a \in LastOf(Views).rest /\ Views' = [Views EXCEPT ![Len(Views)].rest = @ \ {a}]
  <2>1. PICK c0, d : c0 = [c EXCEPT !.set = @ \cup {a}] /\ d = Spend(c0)
    OBVIOUS
  <2>2. c0.sub = c.sub /\ c0.mode = "trie" /\ c0.set = c.set \cup {a}
    BY <1>4, <1>7, <2>1 DEF CursorType
  <2>3. Left(c) = table[c.sub].answers \ c.set
    BY <1>7 DEF Left
  <2>4. d.sub = c.sub /\ Left(d) = Left(c) \ {a}
    <3>1. CASE c0.set = table[c0.sub].answers
      <4>1. d = [c0 EXCEPT !.mode = "spent"]
        BY <2>1, <3>1 DEF Spend
      <4>2. d.sub = c.sub /\ d.mode = "spent"
        BY <1>4, <2>1, <2>2, <4>1 DEF CursorType
      <4> QED BY <2>2, <2>3, <3>1, <4>2 DEF Left
    <3>2. CASE c0.set # table[c0.sub].answers
      <4>1. d = c0
        BY <2>1, <3>2 DEF Spend
      <4> QED BY <2>2, <2>3, <4>1 DEF Left
    <3> QED BY <3>1, <3>2
  <2>5. cursors' = [cursors EXCEPT ![n] = d]
    BY <1>7, <2>1
  <2>6. /\ UNCHANGED table /\ cursors # <<>> /\ n = Len(cursors)
        /\ d.sub = cursors[n].sub /\ Left(d) = Left(cursors[n]) \ {a}
    BY <1>1, <1>2, <2>4
  <2>7. Views' = [Views EXCEPT ![Len(Views)].rest = @ \ {a}]
    BY ONLY VisInv, <2>5, <2>6, YoungestGoesOn
  <2> QED BY <1>3, <1>7, <2>3, <2>7
<1>8. ASSUME NEW a, c.mode = "list", a \in c.set,
             cursors' = IF c.set = {a} THEN Front(cursors)
                        ELSE [cursors EXCEPT ![n].set = @ \ {a}]
      PROVE  /\ a \in LastOf(Views).rest
             /\ \/ Views' = [Views EXCEPT ![Len(Views)].rest = @ \ {a}]
                \/ LastOf(Views).rest = {a} /\ Views' = Front(Views)
  <2>1. Left(c) = c.set
    BY <1>8 DEF Left
  <2>2. CASE c.set = {a}
    <3>1. cursors' = Front(cursors) /\ LastOf(Views).rest = {a}
      BY <1>3, <1>8, <2>1, <2>2
    <3>2. \A t \in Subgoals : table'[t].answers = table[t].answers
      BY <1>1
    <3> QED BY <1>1, <3>1, <3>2, YoungestCloses
  <2>3. CASE c.set # {a}
    <3>1. PICK d : d = [c EXCEPT !.set = @ \ {a}]
      OBVIOUS
    <3>2. d.sub = c.sub /\ d.mode = "list" /\ d.set = c.set \ {a}
      BY <1>4, <1>8, <3>1 DEF CursorType
    <3>3. Left(d) = Left(c) \ {a}
      BY <2>1, <3>2 DEF Left
    <3>4. cursors' = [cursors EXCEPT ![n] = d]
      BY <1>2, <1>3, <1>8, <2>3, <3>1
    <3>5. /\ UNCHANGED table /\ cursors # <<>> /\ n = Len(cursors)
          /\ d.sub = cursors[n].sub /\ Left(d) = Left(cursors[n]) \ {a}
      BY <1>1, <1>2, <3>2, <3>3
    <3>6. Views' = [Views EXCEPT ![Len(Views)].rest = @ \ {a}]
      BY ONLY VisInv, <3>4, <3>5, YoungestGoesOn
    <3> QED BY <1>3, <1>8, <2>1, <3>6
  <2> QED BY <2>2, <2>3
<1>9. PICK a \in LastOf(Views).rest :
        \/ Views' = [Views EXCEPT ![Len(Views)].rest = @ \ {a}]
        \/ LastOf(Views).rest = {a} /\ Views' = Front(Views)
  BY <1>6, <1>7, <1>8
<1> QED BY <1>1, <1>3, <1>5, <1>9, AbstractNextAnswer

LEMMA CloseRefines ==
  ASSUME GraphInv, VisInv, OneCall(lazy[Top]), Close
  PROVE  [Fresh!FreshNext]_Fresh!freshVars /\ OneCall(lazy[Top])'
<1>1. /\ cursors # <<>> /\ UNCHANGED <<program, facts, lazy>> /\ lazy[Top] = <<>>
      /\ cursors' = Front(cursors)
  BY DEF Close, Idle, evalVars
<1>2. \A t \in Subgoals : table'[t].answers = table[t].answers
  <2>1. PICK s, v : table' = table \/ table' = [table EXCEPT ![s].visitors = v]
    BY DEF Close, Unvisited
  <2> QED BY <2>1 DEF GraphInv, GraphTyped, TableType
<1>3. Views # <<>> /\ Views' = Front(Views)
  BY <1>1, <1>2, YoungestView, YoungestCloses
<1>4. Asked = Top /\ Asked' = Top /\ OneCall(lazy[Top])'
  BY <1>1 DEF Asked, OneCall
<1> QED BY <1>1, <1>3, <1>4, AbstractClose

LEMMA NextRefines ==
  ASSUME GraphInv, CoverInv, FreshInv, VisInv, OneCall(lazy[Top]), [Next]_vars
  PROVE  [Fresh!FreshNext]_Fresh!freshVars /\ OneCall(lazy[Top])'
BY PlainRefines, CallGoalRefines, LazyCallRefines, ReturnRefines, QueryRefines, UpdateRefines,
   ResumeRefines, CloseRefines, ThrowRefines DEF Next, Engine

LEMMA RefinesAtStart == Init => Fresh!FreshInit /\ OneCall(lazy[Top])
<1> SUFFICES ASSUME Init PROVE Fresh!FreshInit /\ OneCall(lazy[Top])
  OBVIOUS
<1>1. lazy[Top] = <<>> /\ cursors = <<>>
  BY DEF Init, Callers
<1>2. Fresh!FreshInit
  BY <1>1 DEF Fresh!FreshInit
<1> QED BY <1>1, <1>2 DEF OneCall

(* View consistency (incr_tabling.tex 142-156): a query returns the answers   *)
(* that its clauses derive from the facts at its call, and the open queries   *)
(* go on returning them through updates, re-evaluations in place and          *)
(* abolish_table_call: find_the_visitors copies what is left to them before   *)
(* their trie changes.  Besides the conditions of NothingIsStale, no query is *)
(* called over a spent choice point of its affected table.                    *)
THEOREM OpenQueriesKeepTheirView ==
  ASSUME ThrowsAnywhere = FALSE, SpentQueries = FALSE
  PROVE  Spec /\ []CountsLow => ImplementsFreshTables
<1>1. GraphInv /\ GraphInv' /\ CoverInv /\ CountsLow /\ [Next]_vars => CoverInv'
  BY NextCovers
<1>2. GraphInv /\ GraphInv' /\ CoverInv /\ FreshInv /\ CountsLow /\ [Next]_vars => FreshInv'
  BY NextFresh
<1>3. GraphInv /\ CoverInv /\ CountsLow /\ VisInv /\ [Next]_vars => VisInv'
  BY NextVisits
<1>4. GraphInv /\ CoverInv /\ FreshInv /\ VisInv /\ OneCall(lazy[Top]) /\ [Next]_vars
      => [Fresh!FreshNext]_Fresh!freshVars /\ OneCall(lazy[Top])'
  BY NextRefines
<1>5. Init => Fresh!FreshInit /\ OneCall(lazy[Top]) /\ FreshInv /\ VisInv /\ CoverInv
  BY RefinesAtStart, FreshAtStart, VisitsHold, CoverHolds
<1> QED BY <1>1, <1>2, <1>3, <1>4, <1>5, InvHolds, PTL
       DEF Spec, ImplementsFreshTables, Fresh!FreshSpec
=============================================================================
