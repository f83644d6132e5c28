----------------------------- MODULE EntryLists -----------------------------
(* Lists linked through next_entry, as th_vec and mq_table of                 *)
(* emu/thread_xsb.c hold them: what it is for a set of entries to be such a   *)
(* list, that a walk along next_entry meets exactly that set, and what the    *)
(* insertions and removals of the code do to it.                              *)
EXTENDS Integers, FiniteSets, FiniteSetTheorems, WellFoundedInduction, TLAPS

(* A set of natural numbers has a least element, and what it implies for a    *)
(* proof by induction: whatever holds of 0, and of n + 1 with n, holds.       *)
LEMMA LeastNat ==
  ASSUME NEW T, T \subseteq Nat, T # {}
  PROVE  \E m \in T : \A k \in T : m <= k
<1> DEFINE R == {ss \in Nat \X Nat : ss[1] < ss[2]}
<1>1. IsWellFoundedOn(R, Nat)
  BY NatLessThanWellFounded DEF OpToRel
<1>2. PICK m \in T : \A y \in T : ~ (<<y, m>> \in R)
  BY <1>1, WFMin
<1>3. ASSUME NEW k \in T PROVE m <= k
  <2>1. k \in Nat /\ m \in Nat
    OBVIOUS
  <2>2. ~ (k < m)
    BY <1>2, <2>1
  <2> QED BY <2>1, <2>2
<1> QED BY <1>3

LEMMA SetInduction ==
  ASSUME NEW n \in Nat, NEW T, 0 \in T, \A k \in 0 .. n - 1 : k \in T => k + 1 \in T
  PROVE  \A k \in 0 .. n : k \in T
<1> DEFINE bad == {k \in 0 .. n : k \notin T}
<1> SUFFICES ASSUME bad # {} PROVE FALSE
  OBVIOUS
<1>1. PICK m \in bad : \A k \in bad : m <= k
  <2>1. bad \subseteq Nat
    OBVIOUS
  <2> HIDE DEF bad
  <2> QED BY <2>1, LeastNat
<1>2. m # 0 /\ m - 1 \in 0 .. n - 1 /\ m - 1 \in 0 .. n
  BY <1>1
<1>3. m - 1 \in T
  BY <1>1, <1>2
<1>4. m - 1 + 1 = m
  BY <1>1
<1> QED BY <1>1, <1>2, <1>3, <1>4

-----------------------------------------------------------------------------
(* Lists.  S is the table, null no entry, L the entries of the list.  A rank  *)
(* that grows along the links keeps out cycles; it need not count.            *)
Ranked(S, next, L) ==
  \E r \in [S -> Int] : \A i \in L : next[i] \in L => r[i] < r[next[i]]

IsList(S, null, next, head, L) ==
  /\ L \subseteq S
  /\ IF head = null THEN L = {} ELSE head \in L
  /\ \A i \in L : next[i] = null \/ (next[i] \in L /\ next[i] # head)
  /\ \A i \in L : i # head => \E j \in L : next[j] = i
  /\ \A i, j \in L : next[i] = next[j] /\ next[i] # null => i = j
  /\ Ranked(S, next, L)

(* prev_entry inverts next_entry.                                             *)
IsInverted(null, next, prev, head, L) ==
  /\ \A i \in L : prev[i] = null <=> i = head
  /\ \A i \in L : next[i] # null => prev[next[i]] = i

(* A walk of n steps from p.                                                  *)
IsWalk(null, next, p, n, w) ==
  w = [i \in 0 .. n |-> IF i = 0 THEN p
                        ELSE IF w[i - 1] = null THEN null ELSE next[w[i - 1]]]

-----------------------------------------------------------------------------
(* Walks.                                                                     *)

(* There is a walk of any length, so that the recursive definition gives one. *)
LEMMA WalkExists ==
  ASSUME NEW null, NEW next, NEW p, NEW n \in Nat
  PROVE  \E w : IsWalk(null, next, p, n, w)
<1> DEFINE T == {k \in Nat : \E w : IsWalk(null, next, p, k, w)}
<1>1. 0 \in T
  <2>1. IsWalk(null, next, p, 0, [i \in 0 .. 0 |-> p])
    BY DEF IsWalk
  <2> QED BY <2>1
<1>2. ASSUME NEW k \in 0 .. n - 1, k \in T
      PROVE  k + 1 \in T
  <2>1. PICK w : IsWalk(null, next, p, k, w)
    BY <1>2
  <2> DEFINE v == [i \in 0 .. k + 1 |->
                     IF i = k + 1 THEN IF w[k] = null THEN null ELSE next[w[k]] ELSE w[i]]
  <2>2. \A i \in 0 .. k : w[i] = IF i = 0 THEN p
                                 ELSE IF w[i - 1] = null THEN null ELSE next[w[i - 1]]
    BY <2>1 DEF IsWalk
  <2>3. ASSUME NEW i \in 0 .. k + 1
        PROVE  v[i] = IF i = 0 THEN p
                      ELSE IF v[i - 1] = null THEN null ELSE next[v[i - 1]]
    <3>1. CASE i = k + 1
      <4>1. v[i - 1] = w[k] /\ i # 0
        BY <3>1
      <4> QED BY <3>1, <4>1
    <3>2. CASE i # k + 1
      <4>1. i \in 0 .. k /\ (i # 0 => i - 1 \in 0 .. k + 1 /\ i - 1 # k + 1)
        BY <3>2
      <4>2. v[i] = w[i] /\ (i # 0 => v[i - 1] = w[i - 1])
        BY <3>2, <4>1
      <4> HIDE DEF v
      <4> QED BY <2>2, <4>1, <4>2
    <3> QED BY <3>1, <3>2
  <2>4. v = [i \in 0 .. k + 1 |-> IF i = 0 THEN p
                                  ELSE IF v[i - 1] = null THEN null ELSE next[v[i - 1]]]
    <3>1. v = [i \in 0 .. k + 1 |-> v[i]]
      OBVIOUS
    <3> HIDE DEF v
    <3> QED BY <2>3, <3>1
  <2> HIDE DEF v
  <2>5. IsWalk(null, next, p, k + 1, v)
    BY <2>4 DEF IsWalk
  <2> QED BY <2>5
<1> HIDE DEF T
<1>3. n \in T
  BY <1>1, <1>2, SetInduction
<1> QED BY <1>3 DEF T

(* A finite set of ranks has a least one.                                     *)
LEMMA NoLeastRank ==
  ASSUME NEW S, NEW r \in [S -> Int], NEW M, M \subseteq S, M # {}, IsFiniteSet(M),
         \A y \in M : \E z \in M : r[z] < r[y]
  PROVE  FALSE
<1> DEFINE Below(y) == {z \in M : r[z] < r[y]}
           T == {Cardinality(Below(y)) : y \in M}
<1>1. \A y \in M : IsFiniteSet(Below(y)) /\ Cardinality(Below(y)) \in Nat
  <2>1. \A y \in M : Below(y) \subseteq M
    OBVIOUS
  <2> HIDE DEF Below
  <2> QED BY <2>1, FS_Subset, FS_CardinalityType
<1>2. T \subseteq Nat /\ T # {}
  BY <1>1
<1>3. PICK m \in T : \A k \in T : m <= k
  <2> HIDE DEF T
  <2> QED BY <1>2, LeastNat
<1>4. PICK y \in M : m = Cardinality(Below(y))
  OBVIOUS
<1>5. PICK z \in M : r[z] < r[y]
  OBVIOUS
<1>6. z \in Below(y) /\ z \notin Below(z) /\ Below(z) \subseteq Below(y)
  <2>1. \A x \in M : r[x] \in Int
    OBVIOUS
  <2> QED BY <1>5, <2>1
<1>7. Below(z) \subseteq Below(y) \ {z}
  BY <1>6
<1> HIDE DEF Below
<1>8. Cardinality(Below(z)) <= Cardinality(Below(y) \ {z})
  BY <1>1, <1>7, FS_Subset, FS_RemoveElement
<1>9. Cardinality(Below(y) \ {z}) = Cardinality(Below(y)) - 1
  BY <1>1, <1>6, FS_RemoveElement
<1>10. m <= Cardinality(Below(z))
  BY <1>3
<1> QED BY <1>1, <1>4, <1>8, <1>9, <1>10

LEMMA ListWalk ==
  ASSUME NEW S, NEW null, null \notin S, NEW next, NEW head, NEW L, IsFiniteSet(S),
         IsList(S, null, next, head, L),
         NEW n \in Nat, Cardinality(S) <= n, NEW w, IsWalk(null, next, head, n, w)
  PROVE  /\ {w[i] : i \in 0 .. n} \ {null} = L
         /\ w[n] = null
         /\ \A i \in 0 .. n : w[i] \in L \cup {null}
<1>1. \A i \in 0 .. n : w[i] = IF i = 0 THEN head
                               ELSE IF w[i - 1] = null THEN null ELSE next[w[i - 1]]
  BY DEF IsWalk
<1>2. \A i \in L : next[i] = null \/ next[i] \in L
  BY DEF IsList
<1>3. \A i \in 0 .. n : w[i] \in L \cup {null}
  <2> DEFINE T == {i \in 0 .. n : w[i] \in L \cup {null}}
  <2>1. 0 \in T
    BY <1>1 DEF IsList
  <2>2. ASSUME NEW k \in 0 .. n - 1, k \in T
        PROVE  k + 1 \in T
    <3>1. k + 1 \in 0 .. n /\ k + 1 # 0 /\ k + 1 - 1 = k
      OBVIOUS
    <3>2. w[k + 1] = IF w[k] = null THEN null ELSE next[w[k]]
      BY <1>1, <3>1
    <3> QED BY <1>2, <2>2, <3>1, <3>2
  <2> HIDE DEF T
  <2>3. \A k \in 0 .. n : k \in T
    BY <2>1, <2>2, SetInduction
  <2> QED BY <2>3 DEF T
<1>4. PICK r \in [S -> Int] : \A i \in L : next[i] \in L => r[i] < r[next[i]]
  BY DEF IsList, Ranked
<1>5. L \subseteq S /\ null \notin L
  BY DEF IsList
(* Ranks grow along the walk, so that it meets no entry twice.                *)
<1>6. \A j \in 0 .. n : \A i \in 0 .. n :
        i < j /\ w[j] # null => w[i] # null /\ r[w[i]] < r[w[j]]
  <2> DEFINE T == {j \in 0 .. n : \A i \in 0 .. n :
                     i < j /\ w[j] # null => w[i] # null /\ r[w[i]] < r[w[j]]}
  <2>1. 0 \in T
    OBVIOUS
  <2>2. ASSUME NEW k \in 0 .. n - 1, k \in T
        PROVE  k + 1 \in T
    <3>1. k \in 0 .. n /\ k + 1 \in 0 .. n /\ k + 1 # 0 /\ k + 1 - 1 = k
      OBVIOUS
    <3>2. w[k + 1] = IF w[k] = null THEN null ELSE next[w[k]]
      BY <1>1, <3>1
    <3>3. ASSUME NEW i \in 0 .. n, i < k + 1, w[k + 1] # null
          PROVE  w[i] # null /\ r[w[i]] < r[w[k + 1]]
      <4>1. w[k] # null /\ w[k] \in L /\ w[k + 1] = next[w[k]] /\ w[k + 1] \in L
        BY <1>3, <3>1, <3>2, <3>3
      <4>2. r[w[k]] < r[w[k + 1]]
        BY <1>4, <4>1
      <4>3. CASE i = k
        BY <4>1, <4>2, <4>3
      <4>4. CASE i # k
        <5>1. i < k
          BY <3>3, <4>4
        <5>2. w[i] # null /\ r[w[i]] < r[w[k]]
          BY <2>2, <4>1, <5>1
        <5>3. w[i] \in S /\ w[k] \in S /\ w[k + 1] \in S
          BY <1>3, <1>5, <4>1, <5>2
        <5> QED BY <4>2, <5>2, <5>3
      <4> QED BY <4>3, <4>4
    <3> QED BY <3>1, <3>3
  <2> HIDE DEF T
  <2>3. \A k \in 0 .. n : k \in T
    BY <2>1, <2>2, SetInduction
  <2> QED BY <2>3 DEF T
<1>7. w[n] = null
  <2> SUFFICES ASSUME w[n] # null PROVE FALSE
    OBVIOUS
  <2>1. \A i \in 0 .. n : w[i] # null /\ w[i] \in S
    <3>1. \A i \in 0 .. n : i < n => w[i] # null
      BY <1>6
    <3> QED BY <1>3, <1>5, <3>1
  <2>2. \A i, j \in 0 .. n : i # j => w[i] # w[j]
    <3> SUFFICES ASSUME NEW i \in 0 .. n, NEW j \in 0 .. n, i < j
                 PROVE  w[i] # w[j]
      OBVIOUS
    <3>1. r[w[i]] < r[w[j]] /\ r[w[i]] \in Int
      BY <1>6, <2>1
    <3> QED BY <3>1
  <2>3. IsFiniteSet(0 .. n) /\ Cardinality(0 .. n) = n + 1
    BY FS_Interval
  <2>4. Cardinality(S) < Cardinality(0 .. n)
    BY <2>3, FS_CardinalityType
  <2> DEFINE v == [i \in 0 .. n |-> w[i]]
             D == 0 .. n
  <2>5. v \in [D -> S]
    BY <2>1
  <2>6. \E i, j \in D : i # j /\ v[i] = v[j]
    <3> HIDE DEF v, D
    <3>1. IsFiniteSet(D) /\ Cardinality(S) < Cardinality(D)
      BY <2>3, <2>4 DEF D
    <3> QED BY <2>5, <3>1, FS_PigeonHole
  <2> QED BY <2>2, <2>6
<1>8. ASSUME NEW x \in L
      PROVE  \E i \in 0 .. n : w[i] = x
  (* Otherwise some entry of least rank is not met, but the one before it is. *)
  <2> SUFFICES ASSUME x \notin {w[i] : i \in 0 .. n} PROVE FALSE
    OBVIOUS
  <2> DEFINE Missed == {y \in L : y \notin {w[i] : i \in 0 .. n}}
  <2>1. ASSUME NEW y \in Missed PROVE \E z \in Missed : next[z] = y
    <3>1. y # head
      BY <1>1
    <3>2. PICK z \in L : next[z] = y
      BY <3>1 DEF IsList
    <3>3. ASSUME NEW i \in 0 .. n, w[i] = z
          PROVE  FALSE
      <4>1. i # n
        BY <1>5, <1>7, <3>3
      <4>2. i + 1 \in 0 .. n /\ i + 1 # 0 /\ i + 1 - 1 = i
        BY <4>1
      <4>3. w[i + 1] = y
        BY <1>1, <1>5, <3>2, <3>3, <4>2
      <4> QED BY <4>2, <4>3
    <3> QED BY <3>2, <3>3
  <2>2. Missed # {} /\ Missed \subseteq S
    BY <1>5
  <2>3. IsFiniteSet(Missed)
    BY <2>2, FS_Subset
  <2> HIDE DEF Missed
  <2>4. ASSUME NEW y \in Missed
        PROVE  \E z \in Missed : r[z] < r[y]
    BY <1>4, <2>1, <2>4 DEF Missed
  <2> QED BY <1>4, <2>2, <2>3, <2>4, NoLeastRank
<1> QED BY <1>3, <1>5, <1>7, <1>8
-----------------------------------------------------------------------------
(* What changes a list.                                                       *)

LEMMA ListKept ==
  ASSUME NEW S, NEW null, NEW next, NEW head, NEW L, IsList(S, null, next, head, L),
         NEW nx, \A i \in L : nx[i] = next[i]
  PROVE  IsList(S, null, nx, head, L)
BY DEF IsList, Ranked

(* An entry becomes the head.                                                 *)
LEMMA ListPush ==
  ASSUME NEW S, NEW null, null \notin S, NEW next, NEW head, NEW L,
         IsList(S, null, next, head, L), NEW x \in S, x \notin L,
         NEW nx, nx[x] = head, \A i \in L : nx[i] = next[i]
  PROVE  IsList(S, null, nx, x, L \cup {x})
<1>1. PICK r \in [S -> Int] : \A i \in L : next[i] \in L => r[i] < r[next[i]]
  BY DEF IsList, Ranked
<1>2. L \subseteq S
  BY DEF IsList
<1> DEFINE q == [i \in S |-> IF i = x THEN IF head = null THEN 0 ELSE r[head] - 1 ELSE r[i]]
<1>3. q \in [S -> Int] /\ q[x] = (IF head = null THEN 0 ELSE r[head] - 1)
      /\ \A i \in L : q[i] = r[i] /\ r[i] \in Int
  BY <1>2 DEF IsList
<1>4. ASSUME NEW i \in L \cup {x}, nx[i] \in L \cup {x}
      PROVE  q[i] < q[nx[i]]
  <2> HIDE DEF q
  <2>1. CASE i = x
    <3>1. nx[i] = head /\ head # null /\ head \in L
      BY <1>2, <1>4, <2>1 DEF IsList
    <3> QED BY <1>3, <2>1, <3>1
  <2>2. CASE i # x
    <3>1. i \in L /\ nx[i] = next[i] /\ next[i] \in L
      BY <1>2, <1>4, <2>2 DEF IsList
    <3> QED BY <1>1, <1>3, <3>1
  <2> QED BY <2>1, <2>2
<1>5. Ranked(S, nx, L \cup {x})
  <2> HIDE DEF q
  <2> QED BY <1>3, <1>4 DEF Ranked
<1>6. \A i \in L \cup {x} : nx[i] = null \/ (nx[i] \in L \cup {x} /\ nx[i] # x)
  BY <1>2 DEF IsList
<1>7. \A i \in L \cup {x} : i # x => \E j \in L \cup {x} : nx[j] = i
  <2> TAKE i \in L \cup {x}
  <2> HAVE i # x
  <2>1. CASE i = head
    BY <2>1
  <2>2. CASE i # head
    <3>1. PICK j \in L : next[j] = i
      BY <2>2 DEF IsList
    <3> QED BY <3>1
  <2> QED BY <2>1, <2>2
<1>8. \A i, j \in L \cup {x} : nx[i] = nx[j] /\ nx[i] # null => i = j
  <2>1. \A i \in L : nx[i] # nx[x] \/ nx[i] = null
    BY DEF IsList
  <2> QED BY <2>1 DEF IsList
<1> QED BY <1>2, <1>5, <1>6, <1>7, <1>8 DEF IsList

(* An entry is put behind another.                                            *)
LEMMA ListInsert ==
  ASSUME NEW S, NEW null, null \notin S, NEW next, NEW head, NEW L,
         IsList(S, null, next, head, L), NEW x \in S, x \notin L, NEW p \in L,
         NEW nx, nx[x] = next[p], nx[p] = x, \A i \in L : i # p => nx[i] = next[i]
  PROVE  IsList(S, null, nx, head, L \cup {x})
<1>1. PICK r \in [S -> Int] : \A i \in L : next[i] \in L => r[i] < r[next[i]]
  BY DEF IsList, Ranked
<1>2. L \subseteq S
  BY DEF IsList
<1> DEFINE q == [i \in S |-> IF i = x THEN 2 * r[p] + 1 ELSE 2 * r[i]]
<1>3. q \in [S -> Int] /\ q[x] = 2 * r[p] + 1 /\ \A i \in L : q[i] = 2 * r[i] /\ r[i] \in Int
  BY <1>2
<1>4. ASSUME NEW i \in L \cup {x}, nx[i] \in L \cup {x}
      PROVE  q[i] < q[nx[i]]
  <2> HIDE DEF q
  <2>1. CASE i = x
    <3>1. nx[i] = next[p] /\ next[p] \in L
      BY <1>2, <1>4, <2>1 DEF IsList
    <3>2. r[p] < r[next[p]]
      BY <1>1, <3>1
    <3> QED BY <1>3, <2>1, <3>1, <3>2
  <2>2. CASE i = p
    BY <1>3, <2>2
  <2>3. CASE i # x /\ i # p
    <3>1. i \in L /\ nx[i] = next[i] /\ next[i] \in L
      BY <1>2, <1>4, <2>3 DEF IsList
    <3> QED BY <1>1, <1>3, <3>1
  <2> QED BY <2>1, <2>2, <2>3
<1>5. Ranked(S, nx, L \cup {x})
  <2> HIDE DEF q
  <2> QED BY <1>3, <1>4 DEF Ranked
<1>6. head # null /\ head \in L /\ head # x
  BY DEF IsList
<1>7. \A i \in L \cup {x} : nx[i] = null \/ (nx[i] \in L \cup {x} /\ nx[i] # head)
  BY <1>6 DEF IsList
<1>8. \A i \in L \cup {x} : i # head => \E j \in L \cup {x} : nx[j] = i
  <2> TAKE i \in L \cup {x}
  <2> HAVE i # head
  <2>1. CASE i = x
    BY <2>1
  <2>2. CASE i # x
    <3>1. PICK j \in L : next[j] = i
      BY <2>2 DEF IsList
    <3> QED BY <3>1
  <2> QED BY <2>1, <2>2
<1>9. \A i, j \in L \cup {x} : nx[i] = nx[j] /\ nx[i] # null => i = j
  <2>1. \A i \in L : i # p => nx[i] # x
    BY <1>2 DEF IsList
  <2>2. \A i \in L : i # p => nx[i] # nx[x] \/ nx[i] = null
    BY DEF IsList
  <2>3. nx[x] # nx[p]
    BY <1>2 DEF IsList
  <2> QED BY <2>1, <2>2, <2>3 DEF IsList
<1> QED BY <1>2, <1>5, <1>6, <1>7, <1>8, <1>9 DEF IsList

(* An entry is taken out: the head, or the one behind p.                      *)
LEMMA ListRemove ==
  ASSUME NEW S, IsFiniteSet(S), NEW null, null \notin S, NEW next, NEW head, NEW L,
         IsList(S, null, next, head, L), NEW x \in L, NEW nx, NEW hd,
         \/ x = head /\ hd = next[x] /\ \A i \in L \ {x} : nx[i] = next[i]
         \/ /\ x # head /\ hd = head
            /\ \E p \in L : /\ next[p] = x /\ nx[p] = next[x]
                            /\ \A i \in L \ {x} : i # p => nx[i] = next[i]
  PROVE  IsList(S, null, nx, hd, L \ {x})
<1>1. PICK r \in [S -> Int] : \A i \in L : next[i] \in L => r[i] < r[next[i]]
  BY DEF IsList, Ranked
<1>2. L \subseteq S /\ \A i \in L : r[i] \in Int
  BY DEF IsList
<1>3. next[x] # x
  BY <1>1, <1>2
<1>4. CASE x = head /\ hd = next[x] /\ \A i \in L \ {x} : nx[i] = next[i]
  <2>1. Ranked(S, nx, L \ {x})
    BY <1>1, <1>4 DEF Ranked
  <2>2. IF hd = null THEN L \ {x} = {} ELSE hd \in L \ {x}
    <3>1. CASE hd = null
      <4> SUFFICES ASSUME L \ {x} # {} PROVE FALSE
        BY <3>1
      <4>1. \A i \in L \ {x} : \E j \in L \ {x} : next[j] = i
        BY <1>2, <1>4, <3>1 DEF IsList
      <4>2. \A i \in L \ {x} : \E j \in L \ {x} : r[j] < r[i]
        BY <1>1, <4>1
      <4> DEFINE M == L \ {x}
      <4>3. M \subseteq S /\ IsFiniteSet(M) /\ M # {} /\ \A i \in M : \E j \in M : r[j] < r[i]
        BY <1>2, <4>2, FS_Subset
      <4> HIDE DEF M
      <4> QED BY <4>3, NoLeastRank
    <3>2. CASE hd # null
      BY <1>3, <1>4, <3>2 DEF IsList
    <3> QED BY <3>1, <3>2
  <2>3. \A i \in L \ {x} : nx[i] = null \/ (nx[i] \in L \ {x} /\ nx[i] # hd)
    BY <1>4 DEF IsList
  <2>4. \A i \in L \ {x} : i # hd => \E j \in L \ {x} : nx[j] = i
    BY <1>4 DEF IsList
  <2>5. \A i, j \in L \ {x} : nx[i] = nx[j] /\ nx[i] # null => i = j
    BY <1>4 DEF IsList
  <2> QED BY <1>2, <2>1, <2>2, <2>3, <2>4, <2>5 DEF IsList
<1>5. CASE x # head /\ hd = head
           /\ \E p \in L : /\ next[p] = x /\ nx[p] = next[x]
                           /\ \A i \in L \ {x} : i # p => nx[i] = next[i]
  <2>1. PICK p \in L : /\ next[p] = x /\ nx[p] = next[x]
                       /\ \A i \in L \ {x} : i # p => nx[i] = next[i]
    BY <1>5
  <2>2. p # x /\ x # null /\ head # null /\ head \in L
    BY <1>2, <1>3, <2>1 DEF IsList
  <2>3. r[p] < r[x] /\ (next[x] \in L => r[x] < r[next[x]])
    BY <1>1, <2>1
  <2>4. ASSUME NEW i \in L \ {x}, nx[i] \in L \ {x}
        PROVE  r[i] < r[nx[i]]
    <3>1. CASE i = p
      BY <1>2, <2>1, <2>3, <2>4, <3>1
    <3>2. CASE i # p
      BY <1>1, <2>1, <2>4, <3>2
    <3> QED BY <3>1, <3>2
  <2>5. Ranked(S, nx, L \ {x})
    BY <2>4 DEF Ranked
  <2>6. \A i \in L \ {x} : i # p => nx[i] # x
    BY <1>2, <2>1, <2>2 DEF IsList
  <2>7. \A i \in L \ {x} : nx[i] = null \/ (nx[i] \in L \ {x} /\ nx[i] # head)
    BY <1>3, <2>1, <2>6 DEF IsList
  <2>8. \A i \in L \ {x} : i # head => \E j \in L \ {x} : nx[j] = i
    <3> TAKE i \in L \ {x}
    <3> HAVE i # head
    <3>1. PICK j \in L : next[j] = i
      BY DEF IsList
    <3>2. CASE j = x
      BY <2>1, <2>2, <3>1, <3>2
    <3>3. CASE j # x
      <4>1. j # p
        BY <2>1, <3>1
      <4> QED BY <2>1, <3>1, <3>3, <4>1
    <3> QED BY <3>2, <3>3
  <2>9. \A i, j \in L \ {x} : nx[i] = nx[j] /\ nx[i] # null => i = j
    <3>1. \A i \in L \ {x} : i # p /\ nx[i] = nx[p] => nx[i] = null
      BY <2>1 DEF IsList
    <3>2. \A i, j \in L \ {x} : i # p /\ j # p /\ nx[i] = nx[j] /\ nx[i] # null => i = j
      BY <2>1 DEF IsList
    <3> QED BY <3>1, <3>2
  <2> QED BY <1>2, <1>5, <2>2, <2>5, <2>7, <2>8, <2>9 DEF IsList
<1> QED BY <1>4, <1>5

(* The last entry of a list that has one; what is put behind it is the last.  *)
LEMMA ListAppend ==
  ASSUME NEW S, NEW null, null \notin S, NEW next, NEW head, NEW L,
         IsList(S, null, next, head, L), NEW x \in S, x \notin L,
         NEW p \in L, next[p] = null,
         NEW nx, nx[x] = null, nx[p] = x, \A i \in L : i # p => nx[i] = next[i]
  PROVE  IsList(S, null, nx, head, L \cup {x})
BY ListInsert

-----------------------------------------------------------------------------
(* The same with prev_entry.                                                  *)

LEMMA InvertedPush ==
  ASSUME NEW S, NEW null, null \notin S, NEW next, NEW prev, NEW head, NEW L,
         IsList(S, null, next, head, L), IsInverted(null, next, prev, head, L),
         NEW x \in S, x \notin L, NEW nx, nx[x] = head, \A i \in L : nx[i] = next[i],
         NEW pv, pv[x] = null, \A i \in L : pv[i] = IF i = head THEN x ELSE prev[i]
  PROVE  IsInverted(null, nx, pv, x, L \cup {x})
<1>1. L \subseteq S /\ \A i \in L : next[i] # head \/ next[i] = null
  BY DEF IsList
<1>2. \A i \in L \cup {x} : pv[i] = null <=> i = x
  BY <1>1 DEF IsInverted
<1>3. \A i \in L \cup {x} : nx[i] # null => pv[nx[i]] = i
  <2>1. CASE head = null
    BY <2>1 DEF IsList
  <2>2. CASE head # null
    <3>1. head \in L
      BY <2>2 DEF IsList
    <3>2. pv[nx[x]] = x
      BY <3>1
    <3>3. \A i \in L : nx[i] # null => pv[nx[i]] = i
      BY <1>1 DEF IsList, IsInverted
    <3> QED BY <3>2, <3>3
  <2> QED BY <2>1, <2>2
<1> QED BY <1>2, <1>3 DEF IsInverted

LEMMA InvertedInsert ==
  ASSUME NEW S, NEW null, null \notin S, NEW next, NEW prev, NEW head, NEW L,
         IsList(S, null, next, head, L), IsInverted(null, next, prev, head, L),
         NEW x \in S, x \notin L, NEW p \in L,
         NEW nx, nx[x] = next[p], nx[p] = x, \A i \in L : i # p => nx[i] = next[i],
         NEW pv, pv[x] = p, \A i \in L : pv[i] = IF i = next[p] THEN x ELSE prev[i]
  PROVE  IsInverted(null, nx, pv, head, L \cup {x})
<1>1. L \subseteq S /\ head \in L /\ next[p] # head
  BY DEF IsList
<1>2. \A i \in L \cup {x} : pv[i] = null <=> i = head
  BY <1>1 DEF IsInverted
<1>3. nx[x] # null => pv[nx[x]] = x
  BY DEF IsList
<1>4. \A i \in L : nx[i] # null => pv[nx[i]] = i
  <2>1. pv[nx[p]] = p
    OBVIOUS
  <2>2. \A i \in L : i # p /\ next[i] # null => next[i] # next[p] /\ next[i] \in L
    BY DEF IsList
  <2> QED BY <2>1, <2>2 DEF IsInverted
<1> QED BY <1>2, <1>3, <1>4 DEF IsInverted

(* What th_delete and queue_dealloc do to unlink an entry.                    *)
TakesOut(x, next, prev, head, L, nx, pv, hd) ==
  /\ \A i \in L \ {x} : nx[i] = IF i = prev[x] THEN next[x] ELSE next[i]
  /\ \A i \in L \ {x} : pv[i] = IF i = next[x] THEN prev[x] ELSE prev[i]
  /\ hd = IF head = x THEN next[x] ELSE head

LEMMA Unlinked ==
  ASSUME NEW S, IsFiniteSet(S), NEW null, null \notin S,
         NEW next, NEW prev, NEW head, NEW L,
         IsList(S, null, next, head, L), IsInverted(null, next, prev, head, L),
         NEW x \in L, NEW nx, NEW pv, NEW hd, TakesOut(x, next, prev, head, L, nx, pv, hd)
  PROVE  /\ IsList(S, null, nx, hd, L \ {x})
         /\ IsInverted(null, nx, pv, hd, L \ {x})
<1>0. /\ \A i \in L \ {x} : nx[i] = IF i = prev[x] THEN next[x] ELSE next[i]
      /\ \A i \in L \ {x} : pv[i] = IF i = next[x] THEN prev[x] ELSE prev[i]
      /\ hd = IF head = x THEN next[x] ELSE head
  BY DEF TakesOut
<1>1. L \subseteq S /\ head \in L /\ next[x] # head /\ next[x] # x /\ head # null
  <2>1. PICK r \in [S -> Int] : \A i \in L : next[i] \in L => r[i] < r[next[i]]
    BY DEF IsList, Ranked
  <2> QED BY <2>1 DEF IsList
<1>2. CASE x = head
  <2>1. prev[x] = null /\ hd = next[x] /\ \A i \in L \ {x} : nx[i] = next[i]
    BY <1>0, <1>1, <1>2 DEF IsInverted
  <2>2. IsList(S, null, nx, hd, L \ {x})
    BY <2>1, <1>2, ListRemove
  <2>3. \A i \in L \ {x} : pv[i] = null <=> i = hd
    BY <1>0, <1>1, <1>2, <2>1 DEF IsInverted
  <2>4. \A i \in L \ {x} : nx[i] # null => pv[nx[i]] = i
    <3>1. \A i \in L \ {x} : next[i] # null => next[i] \in L \ {x} /\ next[i] # next[x]
      BY <1>1, <1>2 DEF IsList
    <3> QED BY <1>0, <2>1, <3>1 DEF IsInverted
  <2> QED BY <2>2, <2>3, <2>4 DEF IsInverted
<1>3. CASE x # head
  <2>1. PICK p \in L : next[p] = x
    BY <1>3 DEF IsList
  <2>2. prev[x] = p /\ p # x /\ hd = head /\ x # null
    BY <1>0, <1>1, <1>3, <2>1 DEF IsInverted
  <2>3. nx[p] = next[x] /\ \A i \in L \ {x} : i # p => nx[i] = next[i]
    BY <1>0, <2>2
  <2>4. IsList(S, null, nx, hd, L \ {x})
    BY <1>3, <2>1, <2>2, <2>3, ListRemove
  <2>5. \A i \in L \ {x} : pv[i] = null <=> i = hd
    BY <1>0, <1>1, <2>2 DEF IsInverted
  <2>6. nx[p] # null => pv[nx[p]] = p
    BY <1>0, <1>1, <2>2, <2>3 DEF IsList
  <2>7. \A i \in L \ {x} : i # p /\ nx[i] # null => pv[nx[i]] = i
    <3>1. \A i \in L \ {x} : i # p /\ next[i] # null =>
            next[i] \in L \ {x} /\ next[i] # next[x]
      BY <2>1, <2>2 DEF IsList
    <3> QED BY <1>0, <2>3, <3>1 DEF IsInverted
  <2> QED BY <2>4, <2>5, <2>6, <2>7 DEF IsInverted
<1> QED BY <1>2, <1>3

LEMMA InvertedKept ==
  ASSUME NEW S, NEW null, NEW next, NEW prev, NEW head, NEW L,
         IsList(S, null, next, head, L), IsInverted(null, next, prev, head, L),
         NEW nx, \A i \in L : nx[i] = next[i], NEW pv, \A i \in L : pv[i] = prev[i]
  PROVE  IsInverted(null, nx, pv, head, L)
BY DEF IsInverted, IsList
=============================================================================
