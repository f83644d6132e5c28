-------------------------- MODULE SharedTablesProofs --------------------------
(* TypeOK of SharedTables for every program and any number of threads; and,   *)
(* as long as a thread that takes over others waits for nobody itself and has *)
(* not been reset (LeaderIsFree), CompletedClosed and WalkEnds.               *)
EXTENDS SharedTables, EntryLists, SequenceTheorems

-----------------------------------------------------------------------------
(* A completion stack st, the clauses of frame c being resolved.              *)

Leads(st, i) == i > 1 => st[i - 1].level < st[i].level

(* The levels: an SCC is a run of frames, the oldest its leader; the caller   *)
(* of a frame is in the SCC of the frame below it, and c in the youngest.     *)
Levels(st, c) ==
  /\ \A i \in 1 .. Len(st) :
       /\ st[i].parent < i /\ st[i].level <= i
       /\ i > 1 => st[i].parent >= 1 /\ st[st[i].parent].level = st[i - 1].level
  /\ \A i, k \in 1 .. Len(st) : i < k => st[i].level <= st[k].level
  /\ c = 0 => st = <<>>
  /\ c > 0 => st[c].level = st[Len(st)].level

(* The clauses that have still to be resolved are of c and its callers.       *)
Depths(st, c) ==
  /\ \A j \in 1 .. Len(st) : j > c => st[j].todo = {}
  /\ \A i, j \in 1 .. Len(st) : st[i].parent < j /\ j < i => st[j].todo = {}

Shape(st, c) ==
  /\ st \in Seq(Frame) /\ c \in 0 .. Len(st)
  /\ Levels(st, c) /\ Depths(st, c)

(* What adjust_level records of the calls: r is of a table that is complete,  *)
(* of a frame that frame i pushed, or of one in its SCC.                      *)
Tied(st, i, r) ==
  \E k \in 1 .. Len(st) :
    st[k].sub = r /\ (st[k].parent = i \/ st[k].level = st[i].level)

(* All calls are recorded but those, of frame c, in pend.                     *)
Recorded(cg, st, c, done, pend) ==
  \A i \in 1 .. Len(st) : \A r \in cg[st[i].sub] \ st[i].todo :
    r \in done \/ Tied(st, i, r) \/ (i = c /\ r \in pend)

LEMMA FrameFields ==
  ASSUME NEW st \in Seq(Frame), NEW i \in 1 .. Len(st)
  PROVE  /\ st[i] \in Frame
         /\ st[i].sub \in Subgoals /\ st[i].level \in Nat /\ st[i].parent \in Nat
         /\ st[i].todo \subseteq Subgoals
<1>1. st[i] \in Frame
  OBVIOUS
<1> QED BY <1>1 DEF Frame

LEMMA RecordedMore ==
  ASSUME NEW cg, NEW st, NEW c, NEW done, NEW pend, Recorded(cg, st, c, done, pend),
         NEW more, NEW left, done \subseteq more, pend \subseteq left \cup more
  PROVE  Recorded(cg, st, c, more, left)
BY DEF Recorded

-----------------------------------------------------------------------------
(* A new frame.                                                               *)
LEMMA PushShape ==
  ASSUME NEW st, NEW c, Shape(st, c), NEW s \in Subgoals, NEW todo \in SUBSET Subgoals
  PROVE  Shape(Append(st, [sub |-> s, level |-> Len(st) + 1, todo |-> todo, parent |-> c]),
               Len(st) + 1)
<1> DEFINE f == [sub |-> s, level |-> Len(st) + 1, todo |-> todo, parent |-> c]
           n == Len(st)
           new == Append(st, f)
<1>1. st \in Seq(Frame) /\ n \in Nat /\ c \in 0 .. n /\ Levels(st, c) /\ Depths(st, c)
  BY DEF Shape
<1>2. /\ f \in Frame /\ f.sub = s /\ f.level = n + 1 /\ f.todo = todo /\ f.parent = c
  BY <1>1 DEF Frame
<1> HIDE DEF f
<1>3. /\ new \in Seq(Frame) /\ Len(new) = n + 1 /\ new[n + 1] = f
      /\ \A i \in 1 .. n : new[i] = st[i]
  BY <1>1, <1>2
<1> HIDE DEF new, n
<1>4. n = Len(st)
  BY DEF n
<1>5. \A i \in 1 .. n : /\ st[i].level \in Nat /\ st[i].parent \in Nat /\ st[i].level <= i
                        /\ st[i].level <= n
  BY <1>1, <1>4, FrameFields DEF Levels
<1>6. c = 0 => n = 0
  BY <1>1, <1>4 DEF Levels
<1>7. Levels(new, n + 1)
  <2>1. ASSUME NEW i \in 1 .. n + 1
        PROVE  /\ new[i].parent < i /\ new[i].level <= i
               /\ i > 1 => /\ new[i].parent >= 1
                           /\ new[new[i].parent].level = new[i - 1].level
    <3>1. CASE i = n + 1
      <4>1. new[i].parent = c /\ new[i].level = n + 1 /\ c < n + 1
        BY <1>1, <1>2, <1>3, <3>1
      <4>2. ASSUME i > 1 PROVE c >= 1 /\ new[c].level = new[i - 1].level
        <5>1. c \in 1 .. n /\ i - 1 = n /\ n \in 1 .. n
          BY <1>1, <1>6, <3>1, <4>2
        <5>2. st[c].level = st[n].level
          BY <1>1, <1>4, <5>1 DEF Levels
        <5> QED BY <1>3, <5>1, <5>2
      <4> QED BY <1>1, <3>1, <4>1, <4>2
    <3>2. CASE i \in 1 .. n
      <4>1. /\ st[i].parent < i /\ st[i].level <= i
            /\ i > 1 => st[i].parent >= 1 /\ st[st[i].parent].level = st[i - 1].level
        BY <1>1, <1>4, <3>2 DEF Levels
      <4>2. i > 1 => st[i].parent \in 1 .. n /\ i - 1 \in 1 .. n
        BY <1>1, <1>5, <3>2, <4>1
      <4> QED BY <1>3, <3>2, <4>1, <4>2
    <3> QED BY <1>1, <3>1, <3>2
  <2>2. ASSUME NEW i \in 1 .. n + 1, NEW k \in 1 .. n + 1, i < k
        PROVE  new[i].level <= new[k].level
    <3>1. i \in 1 .. n
      BY <1>1, <2>2
    <3>2. CASE k = n + 1
      BY <1>1, <1>2, <1>3, <1>5, <3>1, <3>2
    <3>3. CASE k \in 1 .. n
      BY <1>1, <1>3, <1>4, <2>2, <3>1, <3>3 DEF Levels
    <3> QED BY <1>1, <3>2, <3>3
  <2>3. n + 1 # 0
    BY <1>1
  <2> QED BY <1>3, <2>1, <2>2, <2>3 DEF Levels
<1>8. Depths(new, n + 1)
  <2>1. ASSUME NEW i \in 1 .. n + 1, NEW j \in 1 .. n + 1, new[i].parent < j, j < i
        PROVE  new[j].todo = {}
    <3>1. j \in 1 .. n
      BY <1>1, <2>1
    <3>2. CASE i = n + 1
      <4>1. j > c
        BY <1>2, <1>3, <2>1, <3>2
      <4> QED BY <1>1, <1>3, <1>4, <3>1, <4>1 DEF Depths
    <3>3. CASE i \in 1 .. n
      BY <1>1, <1>3, <1>4, <2>1, <3>1, <3>3 DEF Depths
    <3> QED BY <1>1, <3>2, <3>3
  <2>2. \A j \in 1 .. n + 1 : ~ (j > n + 1)
    BY <1>1
  <2> QED BY <1>3, <2>1, <2>2 DEF Depths
<1>9. n + 1 \in 0 .. Len(new)
  BY <1>1, <1>3
<1>10. Shape(new, n + 1)
  BY <1>3, <1>7, <1>8, <1>9 DEF Shape
<1> QED BY <1>10 DEF new, n, f

LEMMA PushRecords ==
  ASSUME NEW cg, NEW st, NEW c, Shape(st, c), NEW s \in Subgoals, cg[s] \in SUBSET Subgoals,
         NEW done, Recorded(cg, st, c, done, {s})
  PROVE  Recorded(cg, Append(st, [sub |-> s, level |-> Len(st) + 1, todo |-> cg[s],
                                  parent |-> c]), Len(st) + 1, done, {})
<1> DEFINE f == [sub |-> s, level |-> Len(st) + 1, todo |-> cg[s], parent |-> c]
           n == Len(st)
           new == Append(st, f)
<1>1. st \in Seq(Frame) /\ n \in Nat
  BY DEF Shape
<1>2. /\ f.sub = s /\ f.todo = cg[s] /\ f.parent = c
  OBVIOUS
<1> HIDE DEF f
<1>3. /\ Len(new) = n + 1 /\ new[n + 1] = f
      /\ \A i \in 1 .. n : new[i] = st[i]
  BY <1>1
<1> HIDE DEF new
<1> SUFFICES ASSUME NEW i \in 1 .. Len(new), NEW r \in cg[new[i].sub] \ new[i].todo
             PROVE  r \in done \/ Tied(new, i, r)
  BY DEF Recorded, new, f
<1>4. i \in 1 .. n
  BY <1>1, <1>2, <1>3
<1>5. r \in done \/ Tied(st, i, r) \/ (i = c /\ r = s)
  BY <1>3, <1>4 DEF Recorded
<1>6. CASE Tied(st, i, r)
  <2>1. PICK k \in 1 .. n : st[k].sub = r /\ (st[k].parent = i \/ st[k].level = st[i].level)
    BY <1>6 DEF Tied
  <2>2. k \in 1 .. Len(new)
    BY <1>1, <1>3
  <2> QED BY <1>3, <1>4, <2>1, <2>2 DEF Tied
<1>7. CASE i = c /\ r = s
  <2>1. n + 1 \in 1 .. Len(new)
    BY <1>1, <1>3
  <2> QED BY <1>2, <1>3, <1>7, <2>1 DEF Tied
<1> QED BY <1>5, <1>6, <1>7

-----------------------------------------------------------------------------
(* adjust_level joins the frames from k to the youngest.                      *)
Joined(st, k) ==
  [j \in 1 .. Len(st) |-> IF j >= k /\ st[j].level >= st[k].level
                          THEN [st[j] EXCEPT !.level = st[k].level] ELSE st[j]]

LEMMA JoinedFrames ==
  ASSUME NEW st, NEW c, Shape(st, c), NEW k \in 1 .. Len(st)
  PROVE  /\ Joined(st, k) \in Seq(Frame) /\ Len(Joined(st, k)) = Len(st)
         /\ \A j \in 1 .. Len(st) :
              /\ Joined(st, k)[j].sub = st[j].sub /\ Joined(st, k)[j].todo = st[j].todo
              /\ Joined(st, k)[j].parent = st[j].parent
              /\ Joined(st, k)[j].level = IF j >= k THEN st[k].level ELSE st[j].level
<1> DEFINE new == Joined(st, k)
           n == Len(st)
<1>1. st \in Seq(Frame) /\ n \in Nat
  BY DEF Shape
<1>2. \A j \in 1 .. n : st[j] \in Frame
  BY <1>1
<1>3. \A j \in 1 .. n : st[j].level \in Nat
  BY <1>1, FrameFields
<1>4. ASSUME NEW j \in 1 .. n, j >= k PROVE st[j].level >= st[k].level
  <2>1. CASE j = k
    BY <1>3, <2>1
  <2>2. CASE j > k
    BY <1>3, <2>2 DEF Shape, Levels
  <2> QED BY <1>4, <2>1, <2>2
<1>5. ASSUME NEW j \in 1 .. n
      PROVE  new[j] = IF j >= k THEN [st[j] EXCEPT !.level = st[k].level] ELSE st[j]
  BY <1>4, <1>5 DEF Joined
<1>6. ASSUME NEW j \in 1 .. n
      PROVE  /\ new[j] \in Frame
             /\ new[j].sub = st[j].sub /\ new[j].todo = st[j].todo
             /\ new[j].parent = st[j].parent
             /\ new[j].level = IF j >= k THEN st[k].level ELSE st[j].level
  <2>1. st[j] \in Frame /\ st[k].level \in Nat
    BY <1>2, <1>3
  <2> QED BY <1>5, <2>1 DEF Frame
<1>7. new = [j \in 1 .. n |-> new[j]] /\ DOMAIN new = 1 .. n
  BY DEF Joined
<1>8. new \in Seq(Frame) /\ Len(new) = n
  <2>1. new \in [1 .. n -> Frame]
    BY <1>6, <1>7
  <2> HIDE DEF new
  <2> QED BY <1>1, <2>1
<1> QED BY <1>6, <1>8

LEMMA JoinedShape ==
  ASSUME NEW st, NEW c, Shape(st, c), NEW k \in 1 .. Len(st)
  PROVE  Shape(Joined(st, k), c)
<1> DEFINE new == Joined(st, k)
           n == Len(st)
<1>1. st \in Seq(Frame) /\ n \in Nat /\ c \in 0 .. n /\ Levels(st, c) /\ Depths(st, c)
  BY DEF Shape
<1>2. /\ new \in Seq(Frame) /\ Len(new) = n
      /\ \A j \in 1 .. n :
           /\ new[j].todo = st[j].todo /\ new[j].parent = st[j].parent
           /\ new[j].level = IF j >= k THEN st[k].level ELSE st[j].level
  BY JoinedFrames
<1> HIDE DEF new, n
<1>3. \A j \in 1 .. n : st[j].level \in Nat /\ st[j].parent \in Nat
  BY <1>1, FrameFields DEF n
<1>4. \A i, j \in 1 .. n : i < j => st[i].level <= st[j].level
  BY <1>1 DEF Levels, n
<1>5. k \in 1 .. n
  BY DEF n
<1>6. ASSUME NEW i \in 1 .. n, NEW j \in 1 .. n, i <= j, st[i].level = st[j].level
      PROVE  new[i].level = new[j].level
  <2>1. CASE i < k /\ j >= k
    <3>1. st[i].level <= st[k].level
      BY <1>4, <1>5, <2>1
    <3>2. st[k].level <= st[j].level
      BY <1>3, <1>4, <1>5, <2>1
    <3> QED BY <1>2, <1>3, <1>5, <1>6, <2>1, <3>1, <3>2
  <2>2. CASE j < k
    BY <1>2, <1>5, <1>6, <2>2
  <2>3. CASE i >= k
    BY <1>2, <1>5, <1>6, <2>3
  <2> QED BY <1>5, <2>1, <2>2, <2>3
<1>7. Levels(new, c)
  <2>1. ASSUME NEW i \in 1 .. n
        PROVE  /\ new[i].parent < i /\ new[i].level <= i
               /\ i > 1 => /\ new[i].parent >= 1
                           /\ new[new[i].parent].level = new[i - 1].level
    <3>1. /\ st[i].parent < i /\ st[i].level <= i
          /\ i > 1 => st[i].parent >= 1 /\ st[st[i].parent].level = st[i - 1].level
      BY <1>1 DEF Levels, n
    <3>2. new[i].level <= i
      <4>1. CASE i >= k
        <5>1. st[k].level <= st[i].level
          BY <1>3, <1>4, <1>5, <4>1
        <5> QED BY <1>2, <1>3, <1>5, <3>1, <4>1, <5>1
      <4>2. CASE i < k
        BY <1>2, <1>5, <3>1, <4>2
      <4> QED BY <1>5, <4>1, <4>2
    <3>3. ASSUME i > 1 PROVE new[st[i].parent].level = new[i - 1].level
      <4>1. st[i].parent \in 1 .. n /\ i - 1 \in 1 .. n /\ st[i].parent <= i - 1
        BY <1>1, <1>3, <3>1, <3>3
      <4> QED BY <1>6, <3>1, <3>3, <4>1
    <3> QED BY <1>2, <3>1, <3>2, <3>3
  <2>2. ASSUME NEW i \in 1 .. n, NEW j \in 1 .. n, i < j PROVE new[i].level <= new[j].level
    <3>1. CASE i < k /\ j >= k
      <4>1. st[i].level <= st[k].level
        BY <1>4, <1>5, <3>1
      <4> QED BY <1>2, <1>5, <3>1, <4>1
    <3>2. CASE j < k
      BY <1>2, <1>4, <1>5, <2>2, <3>2
    <3>3. CASE i >= k
      BY <1>2, <1>3, <1>5, <2>2, <3>3
    <3> QED BY <1>5, <3>1, <3>2, <3>3
  <2>3. c # 0
    <3>1. n # 0
      BY <1>1, <1>5
    <3> QED BY <1>1, <3>1 DEF Levels, n
  <2>4. new[c].level = new[n].level
    <3>1. c \in 1 .. n /\ n \in 1 .. n /\ c <= n
      BY <1>1, <2>3
    <3>2. st[c].level = st[n].level
      BY <1>1, <3>1 DEF Levels, n
    <3> QED BY <1>6, <3>1, <3>2
  <2> QED BY <1>2, <2>1, <2>2, <2>3, <2>4 DEF Levels
<1>8. Depths(new, c)
  BY <1>1, <1>2 DEF Depths, n
<1>9. Shape(new, c)
  BY <1>1, <1>2, <1>7, <1>8 DEF Shape
<1> QED BY <1>9 DEF new

(* The frame whose clauses are resolved is among them.                        *)
LEMMA JoinedTies ==
  ASSUME NEW st, NEW c, Shape(st, c), c > 0, NEW k \in 1 .. Len(st)
  PROVE  Joined(st, k)[k].level = Joined(st, k)[c].level
<1> DEFINE new == Joined(st, k)
           n == Len(st)
<1>1. \A j \in 1 .. n : new[j].level = IF j >= k THEN st[k].level ELSE st[j].level
  BY JoinedFrames
<1>2. st \in Seq(Frame) /\ n \in Nat /\ c \in 1 .. n /\ Levels(st, c)
  BY DEF Shape
<1> HIDE DEF new, n
<1>3. \A j \in 1 .. n : st[j].level \in Nat
  BY <1>2, FrameFields DEF n
<1>4. \A i, j \in 1 .. n : i < j => st[i].level <= st[j].level
  BY <1>2 DEF Levels, n
<1>5. k \in 1 .. n
  BY DEF n
<1>6. CASE c >= k
  BY <1>1, <1>2, <1>5, <1>6 DEF new
<1>7. CASE c < k
  <2>1. st[c].level <= st[k].level /\ st[c].level = st[n].level /\ n \in 1 .. n
    BY <1>2, <1>4, <1>5, <1>7 DEF Levels, n
  <2>2. st[k].level <= st[n].level
    BY <1>3, <1>4, <1>5, <2>1
  <2> QED BY <1>1, <1>2, <1>3, <1>5, <1>7, <2>1, <2>2 DEF new
<1> QED BY <1>2, <1>5, <1>6, <1>7

(* The call of the subgoal of frame k, which c made, is recorded.             *)
LEMMA JoinedRecords ==
  ASSUME NEW cg, NEW st, NEW c, Shape(st, c), NEW k \in 1 .. Len(st),
         NEW done, Recorded(cg, st, c, done, {st[k].sub})
  PROVE  Recorded(cg, Joined(st, k), c, done, {})
<1> DEFINE new == Joined(st, k)
           n == Len(st)
<1>1. /\ Len(new) = n
      /\ \A j \in 1 .. n :
           /\ new[j].sub = st[j].sub /\ new[j].todo = st[j].todo
           /\ new[j].parent = st[j].parent
           /\ new[j].level = IF j >= k THEN st[k].level ELSE st[j].level
  BY JoinedFrames
<1>2. st \in Seq(Frame) /\ n \in Nat /\ c \in 0 .. n /\ Levels(st, c)
  BY DEF Shape
<1> HIDE DEF new, n
<1>3. \A j \in 1 .. n : st[j].level \in Nat
  BY <1>2, FrameFields DEF n
<1>4. \A i, j \in 1 .. n : i < j => st[i].level <= st[j].level
  BY <1>2 DEF Levels, n
<1>5. k \in 1 .. n
  BY DEF n
<1> SUFFICES ASSUME NEW i \in 1 .. n, NEW r \in cg[new[i].sub] \ new[i].todo
             PROVE  r \in done \/ Tied(new, i, r)
  BY <1>1 DEF Recorded, new
<1>6. r \in done \/ Tied(st, i, r) \/ (i = c /\ r = st[k].sub)
  BY <1>1 DEF Recorded, n
<1>7. CASE Tied(st, i, r)
  <2>1. PICK j \in 1 .. n : st[j].sub = r /\ (st[j].parent = i \/ st[j].level = st[i].level)
    BY <1>7 DEF Tied, n
  <2>2. ASSUME st[j].level = st[i].level PROVE new[j].level = new[i].level
    <3>1. CASE i < k /\ j >= k
      <4>1. st[i].level <= st[k].level /\ st[k].level <= st[j].level
        BY <1>3, <1>4, <1>5, <3>1
      <4> QED BY <1>1, <1>3, <1>5, <2>2, <3>1, <4>1
    <3>2. CASE j < k /\ i >= k
      <4>1. st[j].level <= st[k].level /\ st[k].level <= st[i].level
        BY <1>3, <1>4, <1>5, <3>2
      <4> QED BY <1>1, <1>3, <1>5, <2>2, <3>2, <4>1
    <3>3. CASE i < k /\ j < k
      BY <1>1, <2>2, <1>5, <3>3
    <3>4. CASE i >= k /\ j >= k
      BY <1>1, <1>5, <3>4
    <3> QED BY <1>5, <3>1, <3>2, <3>3, <3>4
  <2> QED BY <1>1, <2>1, <2>2 DEF Tied
<1>8. CASE i = c /\ r = st[k].sub
  <2>1. c > 0
    BY <1>2, <1>8
  <2>2. new[k].level = new[c].level
    BY <2>1, JoinedTies DEF new
  <2> QED BY <1>1, <1>5, <1>8, <2>2 DEF Tied
<1> QED BY <1>6, <1>7, <1>8

-----------------------------------------------------------------------------
(* The frames from a leader on are removed: a reset, or a completion.         *)
LEMMA LeaderIsBelow ==
  ASSUME NEW st, NEW c, Shape(st, c), NEW n \in 1 .. Len(st), Leads(st, n)
  PROVE  n <= c
<1>1. st \in Seq(Frame) /\ c \in 0 .. Len(st) /\ Levels(st, c)
  BY DEF Shape
<1>2. \A j \in 1 .. Len(st) : st[j].level \in Nat
  BY <1>1, FrameFields
<1>3. c >= 1
  BY <1>1 DEF Levels
<1> SUFFICES ASSUME c < n PROVE FALSE
  BY <1>1
<1>4. n - 1 \in 1 .. Len(st) /\ c <= n - 1 /\ Len(st) \in 1 .. Len(st) /\ c \in 1 .. Len(st)
  BY <1>1, <1>3
<1>5. st[n - 1].level < st[n].level
  BY <1>1, <1>3, <1>4 DEF Leads
<1>6. st[c].level <= st[n - 1].level
  BY <1>1, <1>2, <1>4 DEF Levels
<1>7. st[n].level <= st[Len(st)].level
  BY <1>1, <1>2, <1>4 DEF Levels
<1>8. st[c].level = st[Len(st)].level
  BY <1>1, <1>3 DEF Levels
<1> QED BY <1>2, <1>4, <1>5, <1>6, <1>7, <1>8

LEMMA CutFrames ==
  ASSUME NEW st \in Seq(Frame), NEW n \in 1 .. Len(st)
  PROVE  /\ SubSeq(st, 1, n - 1) \in Seq(Frame) /\ Len(SubSeq(st, 1, n - 1)) = n - 1
         /\ \A i \in 1 .. n - 1 : SubSeq(st, 1, n - 1)[i] = st[i]
<1> DEFINE m == n - 1
<1>1. m \in Int /\ 1 \in Int /\ \A i \in 1 .. m : st[i] \in Frame
  OBVIOUS
<1>2. m \in Nat /\ (1 <= m => m - 1 + 1 = m) /\ (~ (1 <= m) => m = 0) /\ m - 1 + 1 = m
  OBVIOUS
<1> HIDE DEF m
<1>3. /\ SubSeq(st, 1, m) \in Seq(Frame)
      /\ Len(SubSeq(st, 1, m)) = IF 1 <= m THEN m - 1 + 1 ELSE 0
      /\ \A i \in 1 .. m - 1 + 1 : SubSeq(st, 1, m)[i] = st[1 + i - 1]
  BY <1>1, SubSeqProperties
<1>4. \A i \in 1 .. m : 1 + i - 1 = i
  BY <1>2
<1>5. Len(SubSeq(st, 1, m)) = m /\ \A i \in 1 .. m : SubSeq(st, 1, m)[i] = st[i]
  BY <1>2, <1>3, <1>4
<1> QED BY <1>3, <1>5 DEF m

LEMMA CutShape ==
  ASSUME NEW st, NEW c, Shape(st, c), NEW n \in 1 .. Len(st), Leads(st, n)
  PROVE  Shape(SubSeq(st, 1, n - 1), st[n].parent)
<1> DEFINE new == SubSeq(st, 1, n - 1)
           p == st[n].parent
<1>1. st \in Seq(Frame) /\ Levels(st, c) /\ Depths(st, c)
  BY DEF Shape
<1>2. new \in Seq(Frame) /\ Len(new) = n - 1 /\ \A i \in 1 .. n - 1 : new[i] = st[i]
  BY <1>1, CutFrames
<1>3. \A j \in 1 .. Len(st) : st[j].level \in Nat /\ st[j].parent \in Nat
  BY <1>1, FrameFields
<1>4. /\ p \in 0 .. n - 1
      /\ n > 1 => p >= 1 /\ st[p].level = st[n - 1].level
  BY <1>1, <1>3 DEF Levels
<1> HIDE DEF new
<1>5. Levels(new, p)
  <2>1. ASSUME NEW i \in 1 .. n - 1
        PROVE  /\ new[i].parent < i /\ new[i].level <= i
               /\ i > 1 => /\ new[i].parent >= 1
                           /\ new[new[i].parent].level = new[i - 1].level
    <3>1. i \in 1 .. Len(st) /\ new[i] = st[i]
      BY <1>2
    <3>2. /\ st[i].parent < i /\ st[i].level <= i
          /\ i > 1 => st[i].parent >= 1 /\ st[st[i].parent].level = st[i - 1].level
      BY <1>1, <3>1 DEF Levels
    <3>3. i > 1 => st[i].parent \in 1 .. n - 1 /\ i - 1 \in 1 .. n - 1
      BY <1>3, <3>1, <3>2
    <3> QED BY <1>2, <3>1, <3>2, <3>3
  <2>2. ASSUME NEW i \in 1 .. n - 1, NEW k \in 1 .. n - 1, i < k
        PROVE  new[i].level <= new[k].level
    <3>1. i \in 1 .. Len(st) /\ k \in 1 .. Len(st)
      OBVIOUS
    <3> QED BY <1>1, <1>2, <2>2, <3>1 DEF Levels
  <2>3. p = 0 => new = <<>>
    BY <1>2, <1>4
  <2>4. p > 0 => new[p].level = new[n - 1].level
    <3>1. p > 0 => p \in 1 .. n - 1 /\ n - 1 \in 1 .. n - 1
      <4>1. Len(st) \in Nat /\ n \in 1 .. Len(st)
        BY <1>1
      <4> HIDE DEF p
      <4> QED BY <4>1, <1>4
    <3> QED BY <1>2, <1>4, <3>1
  <2> QED BY <1>2, <2>1, <2>2, <2>3, <2>4 DEF Levels
<1>6. Depths(new, p)
  <2>1. ASSUME NEW j \in 1 .. n - 1, j > p PROVE new[j].todo = {}
    <3>1. j \in 1 .. Len(st) /\ j < n
      OBVIOUS
    <3> QED BY <1>1, <1>2, <2>1, <3>1 DEF Depths
  <2>2. ASSUME NEW i \in 1 .. n - 1, NEW j \in 1 .. n - 1, new[i].parent < j, j < i
        PROVE  new[j].todo = {}
    <3>1. i \in 1 .. Len(st) /\ j \in 1 .. Len(st)
      BY <1>1
    <3> QED BY <1>1, <1>2, <2>2, <3>1 DEF Depths
  <2> QED BY <1>2, <2>1, <2>2 DEF Depths
<1>7. p \in 0 .. Len(new)
  BY <1>2, <1>4
<1> HIDE DEF p
<1>8. Shape(new, p)
  BY <1>2, <1>5, <1>6, <1>7 DEF Shape
<1> QED BY <1>8 DEF new, p

(* Below a leader only its caller has called a frame from it on, and that     *)
(* the leader.                                                                *)
LEMMA TiedBelow ==
  ASSUME NEW st, NEW c, Shape(st, c), NEW n \in 1 .. Len(st), Leads(st, n),
         NEW i \in 1 .. n - 1, NEW k \in n .. Len(st),
         st[k].parent = i \/ st[k].level = st[i].level
  PROVE  k = n /\ i = st[n].parent
<1>1. st \in Seq(Frame) /\ Levels(st, c)
  BY DEF Shape
<1>2. \A j \in 1 .. Len(st) : st[j].level \in Nat /\ st[j].parent \in Nat
  BY <1>1, FrameFields
<1>3. \A g, h \in 1 .. Len(st) : g <= h => st[g].level <= st[h].level
  BY <1>1, <1>2 DEF Levels
<1>4. /\ n - 1 \in 1 .. Len(st) /\ st[n - 1].level < st[n].level /\ i \in 1 .. Len(st)
      /\ k \in 1 .. Len(st)
  BY DEF Leads
<1>5. st[i].level <= st[n - 1].level /\ st[n].level <= st[k].level
  BY <1>3, <1>4
<1>6. st[k].parent = i
  BY <1>2, <1>4, <1>5
<1>7. ASSUME k # n PROVE FALSE
  <2>1. k - 1 \in 1 .. Len(st) /\ n <= k - 1 /\ k > 1
    BY <1>7
  <2>2. st[i].level = st[k - 1].level
    BY <1>1, <1>4, <1>6, <2>1 DEF Levels
  <2>3. st[n].level <= st[k - 1].level
    BY <1>3, <2>1
  <2> QED BY <1>2, <1>4, <1>5, <2>1, <2>2, <2>3
<1> QED BY <1>6, <1>7

LEMMA CutRecords ==
  ASSUME NEW cg, NEW st, NEW c, Shape(st, c), NEW n \in 1 .. Len(st), Leads(st, n),
         NEW done, NEW pend, Recorded(cg, st, c, done, pend)
  PROVE  Recorded(cg, SubSeq(st, 1, n - 1), st[n].parent, done, {st[n].sub})
<1> DEFINE new == SubSeq(st, 1, n - 1)
<1>1. st \in Seq(Frame)
  BY DEF Shape
<1>2. Len(new) = n - 1 /\ \A i \in 1 .. n - 1 : new[i] = st[i]
  BY <1>1, CutFrames
<1> HIDE DEF new
<1> SUFFICES ASSUME NEW i \in 1 .. n - 1, NEW r \in cg[new[i].sub] \ new[i].todo
             PROVE  r \in done \/ Tied(new, i, r) \/ (i = st[n].parent /\ r = st[n].sub)
  BY <1>2 DEF Recorded, new
<1>3. i \in 1 .. Len(st) /\ i # c
  BY LeaderIsBelow DEF Shape
<1>4. r \in done \/ Tied(st, i, r)
  BY <1>2, <1>3 DEF Recorded
<1>5. CASE Tied(st, i, r)
  <2>1. PICK k \in 1 .. Len(st) :
          st[k].sub = r /\ (st[k].parent = i \/ st[k].level = st[i].level)
    BY <1>5 DEF Tied
  <2>2. CASE k \in 1 .. n - 1
    BY <1>2, <2>1, <2>2 DEF Tied
  <2>3. CASE k \in n .. Len(st)
    BY <2>1, <2>3, TiedBelow
  <2> QED BY <2>2, <2>3
<1> QED BY <1>4, <1>5

-----------------------------------------------------------------------------
(* The clauses of c: it makes a call, or has made them all.                   *)
Taken(st, c, s) == [st EXCEPT ![c].todo = @ \ {s}]

LEMMA TakenFrames ==
  ASSUME NEW st, NEW c, Shape(st, c), c > 0, NEW s \in Subgoals
  PROVE  /\ Taken(st, c, s) \in Seq(Frame) /\ Len(Taken(st, c, s)) = Len(st)
         /\ \A j \in 1 .. Len(st) :
              /\ Taken(st, c, s)[j].sub = st[j].sub
              /\ Taken(st, c, s)[j].parent = st[j].parent
              /\ Taken(st, c, s)[j].level = st[j].level
              /\ \A r : r \in Taken(st, c, s)[j].todo <=> r \in st[j].todo /\ (j = c => r # s)
<1> DEFINE f == [st[c] EXCEPT !.todo = @ \ {s}]
<1>0. st \in Seq(Frame) /\ c \in 1 .. Len(st)
  BY DEF Shape
<1>1. st[c] \in Frame /\ Taken(st, c, s) = [st EXCEPT ![c] = f]
  BY <1>0 DEF Taken
<1>2. /\ f \in Frame /\ f.sub = st[c].sub /\ f.parent = st[c].parent
      /\ f.level = st[c].level /\ f.todo = st[c].todo \ {s}
  BY <1>1 DEF Frame
<1> HIDE DEF f
<1>3. /\ [st EXCEPT ![c] = f] \in Seq(Frame) /\ Len([st EXCEPT ![c] = f]) = Len(st)
      /\ \A j \in 1 .. Len(st) : [st EXCEPT ![c] = f][j] = IF j = c THEN f ELSE st[j]
  BY <1>0, <1>2, ExceptSeq
<1> QED BY <1>1, <1>2, <1>3

LEMMA TakenShape ==
  ASSUME NEW st, NEW c, Shape(st, c), c > 0, NEW s \in Subgoals
  PROVE  Shape(Taken(st, c, s), c)
<1> DEFINE new == Taken(st, c, s)
<1>1. st \in Seq(Frame) /\ c \in 1 .. Len(st) /\ Levels(st, c) /\ Depths(st, c)
  BY DEF Shape
<1>2. /\ new \in Seq(Frame) /\ Len(new) = Len(st)
      /\ \A j \in 1 .. Len(st) :
           /\ new[j].parent = st[j].parent /\ new[j].level = st[j].level
           /\ \A r : r \in new[j].todo => r \in st[j].todo
  BY TakenFrames
<1> HIDE DEF new
<1>3. \A j \in 1 .. Len(st) : st[j].level \in Nat /\ st[j].parent \in Nat
  BY <1>1, FrameFields
<1>4. Levels(new, c)
  <2>1. ASSUME NEW i \in 1 .. Len(st)
        PROVE  /\ new[i].parent < i /\ new[i].level <= i
               /\ i > 1 => /\ new[i].parent >= 1
                           /\ new[new[i].parent].level = new[i - 1].level
    <3>1. /\ st[i].parent < i /\ st[i].level <= i
          /\ i > 1 => st[i].parent >= 1 /\ st[st[i].parent].level = st[i - 1].level
      BY <1>1 DEF Levels
    <3>2. i > 1 => st[i].parent \in 1 .. Len(st) /\ i - 1 \in 1 .. Len(st)
      BY <1>3, <3>1
    <3> QED BY <1>2, <3>1, <3>2
  <2>2. Len(st) \in 1 .. Len(st)
    BY <1>1
  <2> QED BY <1>1, <1>2, <2>1, <2>2 DEF Levels
<1>5. Depths(new, c)
  <2>1. \A j \in 1 .. Len(st) : st[j].todo = {} => new[j].todo = {}
    BY <1>2
  <2> QED BY <1>1, <1>2, <2>1 DEF Depths
<1> QED BY <1>1, <1>2, <1>4, <1>5 DEF Shape, new

LEMMA TakenRecords ==
  ASSUME NEW cg, NEW st, NEW c, Shape(st, c), c > 0, NEW s \in Subgoals,
         NEW done, Recorded(cg, st, c, done, {})
  PROVE  Recorded(cg, Taken(st, c, s), c, done, {s})
<1> DEFINE new == Taken(st, c, s)
<1>1. st \in Seq(Frame) /\ c \in 1 .. Len(st)
  BY DEF Shape
<1>2. /\ Len(new) = Len(st)
      /\ \A j \in 1 .. Len(st) :
           /\ new[j].sub = st[j].sub
           /\ new[j].parent = st[j].parent /\ new[j].level = st[j].level
           /\ \A r : r \in new[j].todo <=> r \in st[j].todo /\ (j = c => r # s)
  BY TakenFrames
<1> HIDE DEF new
<1> SUFFICES ASSUME NEW i \in 1 .. Len(st), NEW r \in cg[new[i].sub] \ new[i].todo
             PROVE  r \in done \/ Tied(new, i, r) \/ (i = c /\ r = s)
  BY <1>2 DEF Recorded, new
<1>3. CASE r \in cg[st[i].sub] \ st[i].todo
  <2>1. r \in done \/ Tied(st, i, r)
    BY <1>3 DEF Recorded
  <2> QED BY <1>2, <2>1 DEF Tied
<1>4. CASE r \notin cg[st[i].sub] \ st[i].todo
  BY <1>2, <1>4
<1> QED BY <1>3, <1>4

LEMMA BackShape ==
  ASSUME NEW st, NEW c, Shape(st, c), c > 0, ~ Leads(st, c), st[c].todo = {}
  PROVE  Shape(st, st[c].parent) /\ st[c].parent > 0
<1> DEFINE p == st[c].parent
<1>1. st \in Seq(Frame) /\ c \in 1 .. Len(st) /\ Levels(st, c) /\ Depths(st, c)
  BY DEF Shape
<1>2. st[c].level \in Nat /\ p \in Nat
  BY <1>1, FrameFields
<1>3. c > 1 /\ ~ (st[c - 1].level < st[c].level) /\ c - 1 \in 1 .. Len(st)
  BY <1>1 DEF Leads
<1>4. st[c - 1].level \in Nat /\ st[c - 1].level <= st[c].level
  BY <1>1, <1>3, FrameFields DEF Levels
<1>5. p >= 1 /\ p < c /\ st[p].level = st[c].level
  BY <1>1, <1>2, <1>3, <1>4 DEF Levels
<1>6. Levels(st, p)
  BY <1>1, <1>2, <1>5 DEF Levels
<1>7. Depths(st, p)
  <2>1. ASSUME NEW j \in 1 .. Len(st), j > p PROVE st[j].todo = {}
    <3>1. CASE j < c
      BY <1>1, <2>1, <3>1 DEF Depths
    <3>2. CASE j > c
      BY <1>1, <3>2 DEF Depths
    <3> QED BY <1>1, <3>1, <3>2
  <2> QED BY <1>1, <2>1 DEF Depths
<1> QED BY <1>1, <1>2, <1>5, <1>6, <1>7 DEF Shape

LEMMA BackRecords ==
  ASSUME NEW cg, NEW st, NEW c, NEW p, NEW done, Recorded(cg, st, c, done, {})
  PROVE  Recorded(cg, st, p, done, {})
BY DEF Recorded

(* What a leader whose clauses are resolved depends on is from it on.         *)
LEMMA LeaderClosed ==
  ASSUME NEW cg, NEW st, NEW c, Shape(st, c), c > 0, Leads(st, c), st[c].todo = {},
         NEW done, Recorded(cg, st, c, done, {}),
         NEW j \in c .. Len(st), NEW r \in cg[st[j].sub]
  PROVE  r \in done \/ \E k \in c .. Len(st) : st[k].sub = r
<1>1. /\ st \in Seq(Frame) /\ c \in 1 .. Len(st) /\ Levels(st, c) /\ Depths(st, c)
      /\ j \in 1 .. Len(st)
  BY DEF Shape
<1>2. \A i \in 1 .. Len(st) : st[i].level \in Nat /\ st[i].parent \in Nat
  BY <1>1, FrameFields
<1>3. st[j].todo = {}
  <2>1. CASE j = c
    BY <2>1
  <2>2. CASE j > c
    BY <1>1, <2>2 DEF Depths
  <2> QED BY <1>1, <2>1, <2>2
<1>4. r \in done \/ Tied(st, j, r)
  BY <1>1, <1>3 DEF Recorded
<1>5. CASE Tied(st, j, r)
  <2>1. PICK k \in 1 .. Len(st) :
          st[k].sub = r /\ (st[k].parent = j \/ st[k].level = st[j].level)
    BY <1>5 DEF Tied
  <2>2. ASSUME k < c PROVE FALSE
    <3>1. st[k].parent < k
      BY <1>1 DEF Levels
    <3>2. st[k].level = st[j].level
      BY <1>1, <1>2, <2>1, <2>2, <3>1
    <3>3. c - 1 \in 1 .. Len(st) /\ k <= c - 1 /\ st[c - 1].level < st[c].level
      BY <1>1, <2>2 DEF Leads
    <3>4. st[k].level <= st[c - 1].level
      BY <1>1, <1>2, <3>3 DEF Levels
    <3>5. st[c].level <= st[j].level
      BY <1>1, <1>2 DEF Levels
    <3> QED BY <1>1, <1>2, <3>2, <3>3, <3>4, <3>5
  <2>3. k \in c .. Len(st)
    BY <1>1, <2>2
  <2> QED BY <2>1, <2>3
<1> QED BY <1>4, <1>5

-----------------------------------------------------------------------------
(* The invariant of the threads.                                              *)
Labels == {"call", "lock", "wait", "reset", "run", "wake", "done", "undefined",
           "negLock", "negWait", "negReset"}
Leading(t) == pc[t] \in {"reset", "negReset"}

Types ==
  /\ calls \in Programs /\ pc \in [Threads -> Labels]
  /\ stack \in [Threads -> Seq(Frame)] /\ cur \in [Threads -> Nat]
  /\ goal \in [Threads -> Subgoals]
  /\ restart \in [Threads -> Subgoals \cup {Nobody}]
  /\ sgf \in [Threads -> Subgoals \cup {Nobody}]
  /\ waitSub \in [Threads -> Subgoals \cup {Nobody}]
  /\ waitTid \in [Threads -> Threads \cup {Nobody}]
  /\ resetThread \in [Threads -> BOOLEAN] /\ deadlockLeader \in [Threads -> BOOLEAN]
  /\ victims \in [Threads -> Seq(Threads)] /\ woken \in [Threads -> SUBSET Subgoals]
  /\ tid \in [Subgoals -> Threads \cup {Nobody}] /\ grabbed \in [Subgoals -> BOOLEAN]
  /\ completed \subseteq Subgoals
  /\ fault \in {"none", "running", "frame", "chain", "negation"}

(* The tables a leader has marked are those of its first frames.              *)
SubsTo(t, n) == {stack[t][i].sub : i \in cur[t] .. n}
Completing(t) == Leads(stack[t], cur[t]) /\ stack[t][cur[t]].todo = {}
Marks(t) ==
  /\ pc[t] \notin {"run", "wake", "undefined"} => woken[t] = {}
  /\ pc[t] = "run" /\ woken[t] # {} =>
       /\ Completing(t) /\ cur[t] + Cardinality(woken[t]) <= Len(stack[t])
       /\ woken[t] = SubsTo(t, cur[t] + Cardinality(woken[t]) - 1)
  /\ pc[t] = "wake" => Completing(t) /\ woken[t] = SubsTo(t, Len(stack[t]))
  /\ woken[t] \subseteq completed

Stands(t) ==
  /\ Shape(stack[t], cur[t])
  /\ pc[t] \in {"run", "wake"} => cur[t] > 0
  /\ pc[t] \in {"lock", "wait"} /\ resetThread[t] => restart[t] # Nobody
  /\ ~ Leading(t) /\ pc[t] # "undefined" => victims[t] = <<>>
  /\ Marks(t)

StackInv == Types /\ \A t \in Threads : Stands(t)

LEMMA StackInvImplies == StackInv => TypeOK
<1> SUFFICES ASSUME StackInv PROVE TypeOK
  OBVIOUS
<1>1. \A t \in Threads : cur[t] \in 0 .. Len(stack[t])
  BY DEF StackInv, Stands, Shape
<1> QED BY <1>1 DEF StackInv, Types, TypeOK, Labels

(* The call that has not been made: the one in progress, or the one that a    *)
(* reset has put in its place.                                                *)
Pending(t) ==
  IF pc[t] \in {"call", "reset"} THEN {goal[t]}
  ELSE IF pc[t] \in {"lock", "wait"} THEN IF resetThread[t] THEN {restart[t]} ELSE {goal[t]}
  ELSE IF pc[t] \in {"negLock", "negWait", "negReset"}
       THEN IF restart[t] # Nobody THEN {restart[t]} ELSE {goal[t]}
  ELSE {}
Written(t) ==
  pc[t] # "undefined" => Recorded(calls, stack[t], cur[t], completed, Pending(t))

LEMMA InitStack == Init => StackInv /\ \A t \in Threads : Written(t)
<1> SUFFICES ASSUME Init PROVE StackInv /\ \A t \in Threads : Written(t)
  OBVIOUS
<1>1. Types
  BY DEF Init, Types, Labels
<1>2. ASSUME NEW t \in Threads PROVE Stands(t) /\ Written(t)
  <2>1. stack[t] = <<>> /\ cur[t] = 0 /\ woken[t] = {} /\ pc[t] = "call" /\ victims[t] = <<>>
    BY DEF Init
  <2>2. Len(<<>>) = 0 /\ <<>> \in Seq(Frame) /\ 1 .. 0 = {}
    OBVIOUS
  <2>3. Shape(stack[t], cur[t])
    BY <2>1, <2>2 DEF Shape, Levels, Depths
  <2>4. Recorded(calls, stack[t], cur[t], completed, Pending(t))
    BY <2>1, <2>2 DEF Recorded
  <2> QED BY <2>1, <2>3, <2>4 DEF Stands, Marks, Leading, Written
<1> QED BY <1>1, <1>2 DEF StackInv

-----------------------------------------------------------------------------
(* The other threads.                                                         *)
Apart(q) ==
  /\ stack'[q] = stack[q] /\ cur'[q] = cur[q] /\ goal'[q] = goal[q]
  /\ restart'[q] = restart[q] /\ resetThread'[q] = resetThread[q]
  /\ woken'[q] = woken[q] /\ victims'[q] = victims[q]
  /\ \/ pc'[q] \in {pc[q], "undefined"}
     \/ pc[q] = "wait" /\ pc'[q] = "lock"
     \/ pc[q] = "negWait" /\ pc'[q] = "negLock"
OthersApart(t) == \A q \in Threads \ {t} : Apart(q)
Grows == calls' = calls /\ completed \subseteq completed'

LEMMA ApartStands ==
  ASSUME NEW q \in Threads, Apart(q), Grows
  PROVE  (Stands(q) => Stands(q)') /\ (Written(q) => Written(q)')
<1>1. ASSUME Stands(q) PROVE Stands(q)'
  <2>1. Shape(stack[q], cur[q])'
    BY <1>1 DEF Stands, Apart
  <2>2. Marks(q)'
    <3>1. Completing(q)' = Completing(q) /\ \A n : SubsTo(q, n)' = SubsTo(q, n)
      BY DEF Completing, SubsTo, Apart
    <3> QED BY <1>1, <3>1 DEF Marks, Stands, Apart, Grows
  <2> QED BY <1>1, <2>1, <2>2 DEF Stands, Apart, Leading
<1>2. ASSUME Written(q), pc'[q] # "undefined"
      PROVE  Recorded(calls', stack'[q], cur'[q], completed', Pending(q)')
  <2>1. Pending(q)' = Pending(q) /\ pc[q] # "undefined"
    BY <1>2 DEF Pending, Apart
  <2>2. Recorded(calls, stack[q], cur[q], completed, Pending(q))
    BY <1>2, <2>1 DEF Written
  <2>3. Recorded(calls, stack[q], cur[q], completed', Pending(q))
    BY <2>2, RecordedMore DEF Grows
  <2> QED BY <2>1, <2>3 DEF Apart, Grows
<1> QED BY <1>1, <1>2 DEF Written

-----------------------------------------------------------------------------
(* A thread whose stack stays.                                                *)
StackStays(t) ==
  stack'[t] = stack[t] /\ cur'[t] = cur[t] /\ woken'[t] = woken[t] /\ Grows

LEMMA StackStaysFor ==
  ASSUME StackInv, NEW t \in Threads, StackStays(t), woken[t] = {},
         pc'[t] \notin {"wake", "undefined"}, pc'[t] = "run" => cur[t] > 0,
         pc'[t] \in {"lock", "wait"} /\ resetThread'[t] => restart'[t] # Nobody,
         ~ Leading(t)' => victims'[t] = <<>>
  PROVE  /\ Stands(t)'
         /\ \A pend : /\ Recorded(calls, stack[t], cur[t], completed, pend)
                      /\ pend \subseteq Pending(t)' \cup completed
                      => Written(t)'
<1>1. Shape(stack[t], cur[t])'
  BY DEF StackInv, Stands, StackStays
<1>2. Stands(t)'
  BY <1>1 DEF StackInv, Stands, StackStays, Marks
<1>3. ASSUME NEW pend, Recorded(calls, stack[t], cur[t], completed, pend),
             pend \subseteq Pending(t)' \cup completed
      PROVE  Written(t)'
  <2>1. Recorded(calls, stack[t], cur[t], completed', Pending(t)')
    BY <1>3, RecordedMore DEF StackStays, Grows
  <2> QED BY <2>1 DEF Written, StackStays, Grows
<1> QED BY <1>2, <1>3

LEMMA NotMarking ==
  ASSUME StackInv, NEW t \in Threads, pc[t] \notin {"run", "wake", "undefined"}
  PROVE  woken[t] = {}
BY DEF StackInv, Stands, Marks

LEMMA GoOnIsRun == ASSUME NEW t, NEW i, GoOn(t, i) = "run" PROVE i # 0
BY DEF GoOn

LEMMA CallCompletedStep ==
  ASSUME StackInv, NEW t \in Threads, CallCompleted(t)
  PROVE  Types' /\ OthersApart(t) /\ Stands(t)' /\ (Written(t) => Written(t)')
<1>0. pc[t] = "call" /\ goal[t] \in completed /\ cur[t] \in Nat
  BY DEF CallCompleted, StackInv, Types
<1>1. pc' = [pc EXCEPT ![t] = GoOn(t, cur[t])] /\ GoOn(t, cur[t]) \in {"done", "run"}
  BY DEF CallCompleted, Goto, GoOn
<1>2. pc'[t] \in {"done", "run"} /\ (pc'[t] = "run" => cur[t] > 0)
  BY <1>0, <1>1 DEF StackInv, Types, GoOn
<1>3. Types'
  BY <1>1 DEF CallCompleted, StackInv, Types, Labels, waitVars, tableVars
<1>4. OthersApart(t)
  BY <1>1 DEF CallCompleted, OthersApart, Apart, StackInv, Types, waitVars
<1>5. /\ StackStays(t) /\ woken[t] = {} /\ victims'[t] = <<>> /\ Pending(t)' = {}
      /\ Pending(t) = {goal[t]}
  BY <1>0, <1>2, NotMarking
     DEF CallCompleted, StackStays, Grows, tableVars, StackInv, Stands, Leading, Pending
<1>6. Stands(t)' /\ (Written(t) => Written(t)')
  BY <1>0, <1>2, <1>5, StackStaysFor DEF Written
<1> QED BY <1>3, <1>4, <1>6

LEMMA CallForeignStep ==
  ASSUME StackInv, NEW t \in Threads, CallForeign(t)
  PROVE  Types' /\ OthersApart(t) /\ Stands(t)' /\ (Written(t) => Written(t)')
<1>0. pc[t] = "call"
  BY DEF CallForeign
<1>1. pc' = [pc EXCEPT ![t] = "lock"] /\ resetThread' = [resetThread EXCEPT ![t] = FALSE]
  BY DEF CallForeign, Goto
<1>2. pc'[t] = "lock" /\ ~ resetThread'[t]
  BY <1>1 DEF StackInv, Types
<1>3. Types'
  BY <1>1 DEF CallForeign, StackInv, Types, Labels, tableVars
<1>4. OthersApart(t)
  BY <1>1 DEF CallForeign, OthersApart, Apart, StackInv, Types
<1>5. /\ StackStays(t) /\ woken[t] = {} /\ victims'[t] = <<>> /\ Pending(t)' = {goal[t]}
      /\ Pending(t) = {goal[t]}
  BY <1>0, <1>2, NotMarking
     DEF CallForeign, StackStays, Grows, tableVars, StackInv, Stands, Leading, Pending
<1>6. Stands(t)' /\ (Written(t) => Written(t)')
  BY <1>0, <1>2, <1>5, StackStaysFor DEF Written
<1> QED BY <1>3, <1>4, <1>6

LEMMA StopWaitingStep ==
  ASSUME StackInv, NEW t \in Threads, StopWaiting(t)
  PROVE  Types' /\ OthersApart(t) /\ Stands(t)' /\ (Written(t) => Written(t)')
<1>0. /\ pc[t] \in {"lock", "negLock"} /\ goal[t] \in completed /\ cur[t] \in Nat
      /\ Stands(t)
  BY DEF StopWaiting, InLoop, WaitOf, StackInv, Types
<1>1. restart[t] # Nobody => restart[t] \in Subgoals
  BY DEF StackInv, Types
<1>2. WasReset(t) => restart[t] # Nobody
  BY <1>0 DEF WasReset, Stands
<1>3. \/ /\ WasReset(t) /\ pc' = [pc EXCEPT ![t] = "call"]
         /\ goal' = [goal EXCEPT ![t] = restart[t]]
      \/ /\ ~ WasReset(t) /\ pc' = [pc EXCEPT ![t] = GoOn(t, cur[t])] /\ goal' = goal
  BY DEF StopWaiting, Goto
<1>4. GoOn(t, cur[t]) \in {"done", "run"}
  BY DEF GoOn
<1>5. pc'[t] \in {"call", "done", "run"} /\ (pc'[t] = "run" => cur[t] > 0)
  BY <1>0, <1>3 DEF StackInv, Types, GoOn
<1>6. Types'
  <2>1. pc' \in [Threads -> Labels] /\ goal' \in [Threads -> Subgoals]
    BY <1>1, <1>2, <1>3, <1>4 DEF StackInv, Types, Labels
  <2>2. /\ waitTid' \in [Threads -> Threads \cup {Nobody}]
        /\ waitSub' \in [Threads -> Subgoals \cup {Nobody}]
    BY DEF StopWaiting, StackInv, Types
  <2> QED BY <2>1, <2>2 DEF StopWaiting, StackInv, Types, tableVars
<1>7. OthersApart(t)
  BY <1>3 DEF StopWaiting, OthersApart, Apart, StackInv, Types
<1>8. /\ StackStays(t) /\ woken[t] = {} /\ victims'[t] = <<>>
  BY <1>0, NotMarking DEF StopWaiting, StackStays, Grows, tableVars, Stands, Leading
<1>9. Pending(t) \subseteq Pending(t)' \cup completed
  <2>1. CASE WasReset(t)
    <3>1. Pending(t) = {restart[t]}
      BY <1>0, <2>1 DEF WasReset, Pending
    <3>2. pc'[t] = "call" /\ goal'[t] = restart[t]
      BY <1>3, <2>1 DEF StackInv, Types
    <3> QED BY <3>1, <3>2 DEF Pending
  <2>2. CASE ~ WasReset(t)
    BY <1>0, <2>2 DEF WasReset, Pending
  <2> QED BY <2>1, <2>2
<1>10. Stands(t)' /\ (Written(t) => Written(t)')
  BY <1>0, <1>5, <1>8, <1>9, StackStaysFor DEF Written
<1> QED BY <1>6, <1>7, <1>10

LEMMA WaitStep ==
  ASSUME StackInv, NEW t \in Threads, Wait(t)
  PROVE  Types' /\ OthersApart(t) /\ Stands(t)' /\ (Written(t) => Written(t)')
<1>0. /\ pc[t] \in {"lock", "negLock"} /\ Stands(t)
  BY DEF Wait, InLoop, WaitOf, StackInv
<1>1. /\ pc' = [pc EXCEPT ![t] = WaitOf[pc[t]]]
      /\ WaitOf[pc[t]] = IF pc[t] = "lock" THEN "wait" ELSE "negWait"
  BY <1>0 DEF Wait, Goto, WaitOf
<1>2. pc'[t] = IF pc[t] = "lock" THEN "wait" ELSE "negWait"
  BY <1>1 DEF StackInv, Types
<1>3. Types'
  <2>1. pc' \in [Threads -> Labels]
    BY <1>0, <1>1 DEF StackInv, Types, Labels
  <2>2. tid[goal[t]] \in Threads \cup {Nobody} /\ goal[t] \in Subgoals
    BY DEF StackInv, Types
  <2>3. /\ waitTid' \in [Threads -> Threads \cup {Nobody}]
        /\ waitSub' \in [Threads -> Subgoals \cup {Nobody}]
        /\ deadlockLeader' \in [Threads -> BOOLEAN]
    BY <2>2 DEF Wait, StackInv, Types
  <2> QED BY <2>1, <2>3 DEF Wait, StackInv, Types, tableVars
<1>4. OthersApart(t)
  BY <1>1 DEF Wait, OthersApart, Apart, StackInv, Types
<1>5. /\ StackStays(t) /\ woken[t] = {} /\ victims'[t] = <<>> /\ Pending(t)' = Pending(t)
      /\ restart'[t] = restart[t] /\ resetThread'[t] = resetThread[t]
  BY <1>0, <1>2, NotMarking
     DEF Wait, StackStays, Grows, tableVars, Stands, Leading, Pending
<1>6. Stands(t)' /\ (Written(t) => Written(t)')
  BY <1>0, <1>2, <1>5, StackStaysFor DEF Written, Stands
<1> QED BY <1>3, <1>4, <1>6

LEMMA SpuriousStep ==
  ASSUME StackInv, NEW t \in Threads, Spurious(t)
  PROVE  Types' /\ OthersApart(t) /\ Stands(t)' /\ (Written(t) => Written(t)')
<1>0. /\ pc[t] \in {"wait", "negWait"} /\ Stands(t)
  BY DEF Spurious, LockOf, StackInv
<1>1. /\ pc' = [pc EXCEPT ![t] = LockOf[pc[t]]]
      /\ LockOf[pc[t]] = IF pc[t] = "wait" THEN "lock" ELSE "negLock"
  BY <1>0 DEF Spurious, Goto, LockOf
<1>2. pc'[t] = IF pc[t] = "wait" THEN "lock" ELSE "negLock"
  BY <1>1 DEF StackInv, Types
<1>3. Types'
  <2>1. pc' \in [Threads -> Labels]
    BY <1>0, <1>1 DEF StackInv, Types, Labels
  <2> QED BY <2>1 DEF Spurious, StackInv, Types, waitVars, tableVars
<1>4. OthersApart(t)
  BY <1>1 DEF Spurious, OthersApart, Apart, StackInv, Types, waitVars
<1>5. /\ StackStays(t) /\ woken[t] = {} /\ victims'[t] = <<>> /\ Pending(t)' = Pending(t)
      /\ restart'[t] = restart[t] /\ resetThread'[t] = resetThread[t]
  BY <1>0, <1>2, NotMarking
     DEF Spurious, StackStays, Grows, waitVars, tableVars, Stands, Leading, Pending
<1>6. Stands(t)' /\ (Written(t) => Written(t)')
  BY <1>0, <1>2, <1>5, StackStaysFor DEF Written, Stands
<1> QED BY <1>3, <1>4, <1>6

-----------------------------------------------------------------------------
(* The walk along waiting_for_tid, and the contexts it meets.                 *)
Steps == Cardinality(Threads)

LEMMA StepsIsNat == Steps \in Nat
BY ProgramsAssumption, FS_CardinalityType DEF Steps

LEMMA WaitPathIsWalk ==
  ASSUME NEW u
  PROVE  IsWalk(Nobody, waitTid, u, Steps, WaitPath(u))
<1>1. \E w : IsWalk(Nobody, waitTid, u, Steps, w)
  BY StepsIsNat, WalkExists
<1>2. \E w : w = [i \in 0 .. Cardinality(Threads) |->
                    IF i = 0 THEN u ELSE IF w[i - 1] = Nobody THEN Nobody
                                         ELSE waitTid[w[i - 1]]]
  BY <1>1 DEF IsWalk, Steps
<1> DEFINE W == WaitPath(u)
<1>3. W = CHOOSE w : w = [i \in 0 .. Cardinality(Threads) |->
                    IF i = 0 THEN u ELSE IF w[i - 1] = Nobody THEN Nobody
                                         ELSE waitTid[w[i - 1]]]
  BY DEF WaitPath
<1> HIDE DEF W
<1>4. W = [i \in 0 .. Cardinality(Threads) |->
                    IF i = 0 THEN u ELSE IF W[i - 1] = Nobody THEN Nobody
                                         ELSE waitTid[W[i - 1]]]
  BY <1>2, <1>3, Zenon
<1> QED BY <1>4 DEF W, IsWalk, Steps

LEMMA WaitPathSteps ==
  ASSUME Types, NEW u \in Threads \cup {Nobody}
  PROVE  /\ DOMAIN WaitPath(u) = 0 .. Steps /\ WaitPath(u)[0] = u
         /\ \A i \in 0 .. Steps : WaitPath(u)[i] \in Threads \cup {Nobody}
         /\ \A i \in 1 .. Steps :
              WaitPath(u)[i] = IF WaitPath(u)[i - 1] = Nobody THEN Nobody
                               ELSE waitTid[WaitPath(u)[i - 1]]
<1> DEFINE W == WaitPath(u)
<1>1. W = [i \in 0 .. Steps |-> IF i = 0 THEN u ELSE IF W[i - 1] = Nobody THEN Nobody
                                                     ELSE waitTid[W[i - 1]]]
  BY WaitPathIsWalk DEF IsWalk
<1> HIDE DEF W
<1>2. Steps \in Nat
  BY StepsIsNat
<1>3. DOMAIN W = 0 .. Steps /\ W[0] = u
  BY <1>1, <1>2
<1>4. \A i \in 1 .. Steps : W[i] = IF W[i - 1] = Nobody THEN Nobody ELSE waitTid[W[i - 1]]
  BY <1>1, <1>2
<1>5. \A i \in 0 .. Steps : W[i] \in Threads \cup {Nobody}
  <2> DEFINE T == {i \in 0 .. Steps : W[i] \in Threads \cup {Nobody}}
  <2>1. 0 \in T
    BY <1>2, <1>3
  <2>2. ASSUME NEW k \in 0 .. Steps - 1, k \in T PROVE k + 1 \in T
    <3>1. k + 1 \in 1 .. Steps /\ k + 1 \in 0 .. Steps /\ k + 1 - 1 = k
      BY <1>2
    <3>2. W[k + 1] = IF W[k] = Nobody THEN Nobody ELSE waitTid[W[k]]
      BY <1>4, <3>1
    <3> QED BY <2>2, <3>1, <3>2 DEF Types
  <2> HIDE DEF T
  <2>3. \A k \in 0 .. Steps : k \in T
    BY <1>2, <2>1, <2>2, SetInduction
  <2> QED BY <2>3 DEF T
<1> QED BY <1>3, <1>4, <1>5 DEF W

LEMMA ChainOfThreads ==
  ASSUME Types, NEW u \in Threads \cup {Nobody}, NEW t \in Threads, WouldDeadlock(u, t)
  PROVE  /\ Chain(u, t) \in Seq(Threads)
         /\ \A i \in 1 .. Len(Chain(u, t)) : Chain(u, t)[i] # t
<1> DEFINE W == WaitPath(u)
           Met == {i \in 0 .. Steps : W[i] = t}
<1>1. /\ DOMAIN W = 0 .. Steps
      /\ \A i \in 0 .. Steps : W[i] \in Threads \cup {Nobody}
      /\ \A i \in 1 .. Steps : W[i] = IF W[i - 1] = Nobody THEN Nobody
                                      ELSE waitTid[W[i - 1]]
  BY WaitPathSteps
<1>2. Steps \in Nat
  BY StepsIsNat
<1> DEFINE n == CHOOSE i \in DOMAIN W : W[i] = t /\ \A j \in DOMAIN W : W[j] = t => i <= j
<1>3. Chain(u, t) = [i \in 1 .. n |-> W[i - 1]]
  BY DEF Chain
<1>4. \E i \in DOMAIN W : W[i] = t /\ \A j \in DOMAIN W : W[j] = t => i <= j
  <2>1. Met \subseteq Nat /\ Met # {}
    BY <1>1, <1>2 DEF WouldDeadlock
  <2>2. \E i \in Met : \A j \in Met : i <= j
    <3> HIDE DEF Met
    <3> QED BY <2>1, LeastNat
  <2> QED BY <1>1, <2>2
<1> HIDE DEF W
<1>5. n \in 0 .. Steps /\ W[n] = t /\ \A j \in 0 .. Steps : W[j] = t => n <= j
  BY <1>1, <1>4
<1> HIDE DEF n
<1>6. t # Nobody
  BY NobodyAssumption
<1>7. \A i \in 0 .. n : W[i] # Nobody
  <2> DEFINE T == {i \in 0 .. n : W[n - i] # Nobody}
  <2>1. 0 \in T
    BY <1>2, <1>5, <1>6
  <2>2. ASSUME NEW k \in 0 .. n - 1, k \in T PROVE k + 1 \in T
    <3>1. n - k \in 1 .. Steps /\ k + 1 \in 0 .. n /\ n - k - 1 = n - (k + 1)
      BY <1>2, <1>5
    <3>2. W[n - k] # Nobody
      BY <2>2
    <3>3. W[n - k - 1] # Nobody
      BY <1>1, <3>1, <3>2
    <3> QED BY <3>1, <3>3
  <2> HIDE DEF T
  <2>3. n \in Nat
    BY <1>2, <1>5
  <2>4. \A k \in 0 .. n : k \in T
    BY <2>1, <2>2, <2>3, SetInduction
  <2> SUFFICES ASSUME NEW i \in 0 .. n PROVE W[i] # Nobody
    OBVIOUS
  <2>5. n - i \in 0 .. n /\ n - (n - i) = i
    BY <2>3
  <2>6. n - i \in T
    BY <2>4, <2>5
  <2> QED BY <2>5, <2>6 DEF T
<1>8. \A i \in 1 .. n : W[i - 1] \in Threads /\ W[i - 1] # t
  <2> SUFFICES ASSUME NEW i \in 1 .. n PROVE W[i - 1] \in Threads /\ W[i - 1] # t
    OBVIOUS
  <2>1. i - 1 \in 0 .. Steps /\ i - 1 \in 0 .. n /\ ~ (n <= i - 1)
    BY <1>2, <1>5
  <2> QED BY <1>1, <1>5, <1>7, <2>1
<1>9. n \in Nat
  BY <1>2, <1>5
<1> DEFINE ch == [i \in 1 .. n |-> W[i - 1]]
<1>10. /\ ch \in Seq(Threads) /\ Len(ch) = n /\ \A i \in 1 .. n : ch[i] = W[i - 1]
  BY <1>8, <1>9
<1> HIDE DEF ch
<1>11. Chain(u, t) = ch
  BY <1>3 DEF ch
<1> QED BY <1>8, <1>10, <1>11

-----------------------------------------------------------------------------
(* A thread takes the lead.                                                   *)

(* After an undefined step no thread goes on.                                 *)
LEMMA UndefinedKeeps ==
  ASSUME StackInv, NEW t \in Threads, Grows, pc' = [q \in Threads |-> "undefined"],
         stack' = stack, cur' = cur, woken' = woken
  PROVE  Stands(t)' /\ Written(t)'
<1>1. Shape(stack[t], cur[t])' /\ Marks(t)'
  BY DEF StackInv, Stands, Marks, Grows
<1> QED BY <1>1 DEF Stands, Written, Leading

LEMMA UsurpStep ==
  ASSUME StackInv, NEW t \in Threads, Usurp(t)
  PROVE  /\ Types' /\ OthersApart(t) /\ Stands(t)'
         /\ ~ (pc'[t] = "reset" /\ resetThread[t]) => (Written(t) => Written(t)')
<1> DEFINE l == IF pc[t] = "lock" THEN "reset" ELSE "negReset"
<1>0. /\ pc[t] \in {"lock", "negLock"} /\ Stands(t)
  BY DEF Usurp, InLoop, WaitOf, StackInv
<1>1. \/ pc' = [pc EXCEPT ![t] = l] /\ fault' = fault
      \/ pc' = [q \in Threads |-> "undefined"] /\ fault' = "chain"
  BY <1>0 DEF Usurp, Goto, ResetOf, Undefined
<1>2. pc'[t] = l \/ pc' = [q \in Threads |-> "undefined"]
  BY <1>1 DEF StackInv, Types
<1>3. tid[goal[t]] \in Threads \cup {Nobody} /\ goal[t] \in Subgoals
  BY DEF StackInv, Types
<1>4. Chain(tid[goal[t]], t) \in Seq(Threads)
  BY <1>3, ChainOfThreads DEF Usurp, StackInv
<1>5. Types'
  <2>1. pc' \in [Threads -> Labels] /\ fault' \in {"none", "running", "frame", "chain", "negation"}
    BY <1>0, <1>1 DEF StackInv, Types, Labels
  <2>2. /\ victims' \in [Threads -> Seq(Threads)]
        /\ sgf' \in [Threads -> Subgoals \cup {Nobody}]
    BY <1>3, <1>4 DEF Usurp, StackInv, Types
  <2>3. waitTid' \in [Threads -> Threads \cup {Nobody}]
    BY DEF Usurp, StackInv, Types
  <2> QED BY <2>1, <2>2, <2>3 DEF Usurp, StackInv, Types, tableVars
<1>6. OthersApart(t)
  <2>1. ASSUME NEW q \in Threads, q # t PROVE pc'[q] \in {pc[q], "undefined"}
    BY <1>1, <2>1 DEF StackInv, Types
  <2> QED BY <2>1 DEF Usurp, OthersApart, Apart, StackInv, Types
<1>7. /\ StackStays(t) /\ woken[t] = {}
      /\ goal'[t] = goal[t] /\ restart'[t] = restart[t] /\ resetThread'[t] = resetThread[t]
  BY <1>0, NotMarking DEF Usurp, StackStays, Grows, tableVars
<1>8. CASE pc' = [q \in Threads |-> "undefined"]
  <2>1. stack' = stack /\ cur' = cur /\ woken' = woken /\ Grows
    BY DEF Usurp, tableVars, Grows
  <2> QED BY <1>5, <1>6, <1>8, <2>1, UndefinedKeeps
<1>9. CASE pc'[t] = l
  <2>1. Stands(t)'
    BY <1>7, <1>9, StackStaysFor DEF Leading
  <2>2. ASSUME ~ (pc'[t] = "reset" /\ resetThread[t]), Written(t) PROVE Written(t)'
    <3>1. Pending(t)' = Pending(t)
      BY <1>0, <1>7, <1>9, <2>2 DEF Pending
    <3>2. Recorded(calls, stack[t], cur[t], completed, Pending(t))
      BY <1>0, <2>2 DEF Written
    <3> QED BY <1>7, <1>9, <3>1, <3>2, StackStaysFor DEF Leading
  <2> QED BY <1>5, <1>6, <2>1, <2>2
<1> QED BY <1>2, <1>8, <1>9

-----------------------------------------------------------------------------
(* Resets.                                                                    *)
LEMMA AdvanceVictim ==
  ASSUME Types, NEW t \in Threads, Advance(t)
  PROVE  /\ Leading(t) /\ Head(victims[t]) \in Threads /\ Tail(victims[t]) \in Seq(Threads)
         /\ victims' \in [Threads -> Seq(Threads)]
         /\ \A q \in Threads : victims'[q] = IF q = t THEN Tail(victims[t]) ELSE victims[q]
         /\ waitTid' = [waitTid EXCEPT ![Head(victims[t])] = t]
         /\ waitTid' \in [Threads -> Threads \cup {Nobody}]
         /\ sgf' \in [Threads -> Subgoals \cup {Nobody}]
<1>1. victims[t] \in Seq(Threads) /\ victims[t] # <<>>
  BY DEF Types, Advance
<1>2. Head(victims[t]) \in Threads /\ Tail(victims[t]) \in Seq(Threads)
  BY <1>1
<1>3. waitTid' = [waitTid EXCEPT ![Head(victims[t])] = t]
  BY DEF Advance, WaitsForLeader
<1> QED BY <1>2, <1>3 DEF Advance, Types, Leading

LEMMA ResetNothingStep ==
  ASSUME StackInv, NEW t \in Threads, ResetNothing(t)
  PROVE  Types' /\ OthersApart(t) /\ Stands(t)' /\ (Written(t) => Written(t)')
<1>0. Types /\ Advance(t) /\ Stands(t)
  BY DEF ResetNothing, StackInv
<1>1. Types'
  BY <1>0, AdvanceVictim DEF ResetNothing, Advance, Types
<1>2. OthersApart(t)
  BY <1>0, AdvanceVictim DEF ResetNothing, Advance, OthersApart, Apart
<1>3. /\ StackStays(t) /\ woken[t] = {} /\ Pending(t)' = Pending(t) /\ Leading(t)'
      /\ pc[t] \in {"reset", "negReset"} /\ pc'[t] = pc[t]
  BY <1>0, AdvanceVictim, NotMarking
     DEF ResetNothing, Advance, StackStays, Grows, Leading, Pending
<1>4. Stands(t)' /\ (Written(t) => Written(t)')
  BY <1>3, StackStaysFor DEF Written
<1> QED BY <1>1, <1>2, <1>4

(* Undefined steps leave the stacks as they are.                              *)
LEMMA ResetUndefinedStep ==
  ASSUME StackInv, NEW t \in Threads, ResetUndefined(t)
  PROVE  Types' /\ (\A q \in Threads : Stands(q)' /\ Written(q)')
<1>0. Types /\ Advance(t) /\ pc' = [q \in Threads |-> "undefined"]
  BY DEF ResetUndefined, StackInv, Undefined
<1>1. fault' \in {"running", "frame"}
  BY DEF ResetUndefined, Undefined
<1>2. pc' \in [Threads -> Labels]
  BY <1>0 DEF Labels
<1>3. Types'
  BY <1>0, <1>1, <1>2, AdvanceVictim DEF ResetUndefined, Advance, Types
<1>4. Grows /\ stack' = stack /\ cur' = cur /\ woken' = woken
  BY <1>0 DEF ResetUndefined, Advance, Grows
<1> QED BY <1>0, <1>3, <1>4, UndefinedKeeps

LEMMA FrameIsThere ==
  ASSUME NEW u, NEW s, stack[u] \in Seq(Frame), OnStack(u, s)
  PROVE  FrameOf(u, s) \in 1 .. Len(stack[u]) /\ stack[u][FrameOf(u, s)].sub = s
<1>1. \E i \in DOMAIN stack[u] : stack[u][i].sub = s
  BY DEF OnStack
<1>2. FrameOf(u, s) \in DOMAIN stack[u] /\ stack[u][FrameOf(u, s)].sub = s
  BY <1>1 DEF FrameOf
<1> QED BY <1>2

LEMMA BottomLeaderLeads ==
  ASSUME NEW u, NEW s, stack[u] \in Seq(Frame), OnStack(u, s)
  PROVE  /\ BottomLeader(u, s) \in 1 .. Len(stack[u])
         /\ Leads(stack[u], BottomLeader(u, s))
<1> DEFINE n == FrameOf(u, s)
           T == {n - i : i \in {j \in 1 .. n : IsLeader(u, j)}}
<1>1. n \in 1 .. Len(stack[u])
  BY FrameIsThere
<1> HIDE DEF n
<1>2. T \subseteq Nat /\ T # {}
  <2>1. 1 \in 1 .. n /\ IsLeader(u, 1)
    BY <1>1 DEF IsLeader
  <2> QED BY <1>1, <2>1
<1>3. PICK m \in T : \A k \in T : m <= k
  <2> HIDE DEF T
  <2> QED BY <1>2, LeastNat
<1>4. PICK i \in 1 .. n : IsLeader(u, i) /\ m = n - i
  BY <1>3
<1>5. \A j \in i + 1 .. n : ~ IsLeader(u, j)
  <2> SUFFICES ASSUME NEW j \in i + 1 .. n, IsLeader(u, j) PROVE FALSE
    OBVIOUS
  <2>1. j \in 1 .. n
    BY <1>1, <1>4
  <2>2. n - j \in T
    BY <2>1
  <2>3. m <= n - j
    BY <1>3, <2>2
  <2> QED BY <1>1, <1>4, <2>3
<1>6. BottomLeader(u, s) =
        CHOOSE i2 \in 1 .. n : IsLeader(u, i2) /\ \A j \in i2 + 1 .. n : ~ IsLeader(u, j)
  BY DEF BottomLeader, n
<1>7. BottomLeader(u, s) \in 1 .. n /\ IsLeader(u, BottomLeader(u, s))
  BY <1>4, <1>5, <1>6
<1> QED BY <1>1, <1>7 DEF IsLeader, Leads

(* The frames from a leader on are taken from u, which goes back to the call  *)
(* of the leader.                                                             *)
LEMMA CutThread ==
  ASSUME StackInv, NEW u \in Threads, NEW n \in 1 .. Len(stack[u]), Leads(stack[u], n),
         Grows, pc[u] \notin {"run", "wake", "undefined"}, woken'[u] = woken[u],
         stack'[u] = SubSeq(stack[u], 1, n - 1), cur'[u] = Caller(u, n),
         pc'[u] \in {"call", "lock", "wait", "negLock", "negWait"},
         restart'[u] = stack[u][n].sub, victims'[u] = <<>>,
         pc'[u] = "call" => goal'[u] = stack[u][n].sub,
         pc'[u] \in {"lock", "wait"} => resetThread'[u]
  PROVE  Stands(u)' /\ (Written(u) => Written(u)')
<1>1. Shape(stack[u], cur[u]) /\ woken[u] = {}
  BY NotMarking DEF StackInv, Stands
<1>2. Shape(stack'[u], cur'[u])
  BY <1>1, CutShape DEF Caller
<1>3. restart'[u] \in Subgoals /\ restart'[u] # Nobody
  <2>1. stack[u] \in Seq(Frame)
    BY DEF StackInv, Types
  <2> QED BY <2>1, FrameFields, NobodyAssumption
<1>4. Stands(u)'
  BY <1>1, <1>2, <1>3 DEF Stands, Marks, Leading
<1>5. Pending(u)' = {stack[u][n].sub}
  BY <1>3 DEF Pending
<1>6. ASSUME Written(u) PROVE Written(u)'
  <2>1. Recorded(calls, stack[u], cur[u], completed, Pending(u))
    BY <1>6 DEF Written
  <2>2. Recorded(calls, SubSeq(stack[u], 1, n - 1), stack[u][n].parent, completed,
                 {stack[u][n].sub})
    BY <1>1, <2>1, CutRecords
  <2>3. Recorded(calls, SubSeq(stack[u], 1, n - 1), stack[u][n].parent, completed',
                 {stack[u][n].sub})
    BY <2>2, RecordedMore DEF Grows
  <2> QED BY <1>5, <2>3 DEF Written, Caller, Grows
<1> QED BY <1>4, <1>6

LEMMA ResetThreadStep ==
  ASSUME StackInv, NEW t \in Threads, ResetThread(t)
  PROVE  /\ Types' /\ \A q \in Threads : Stands(q)' /\ (Written(q) => Written(q)')
<1>a. Types /\ Advance(t) /\ Leading(t) /\ Head(victims[t]) \in Threads
  BY AdvanceVictim DEF ResetThread, StackInv
<1>b. PICK u \in Threads : u = Head(victims[t])
  BY <1>a
<1> DEFINE s == sgf[t]
           n == BottomLeader(u, s)
<1>0. /\ Types /\ Advance(t) /\ Leading(t) /\ u \in Threads
      /\ \A q \in Threads : victims'[q] = IF q = t THEN Tail(victims[t]) ELSE victims[q]
      /\ victims' \in [Threads -> Seq(Threads)]
      /\ waitTid' \in [Threads -> Threads \cup {Nobody}]
      /\ sgf' \in [Threads -> Subgoals \cup {Nobody}]
  BY <1>a, AdvanceVictim
<1>1. /\ Stopped(u) /\ OnStack(u, s)
      /\ stack' = [stack EXCEPT ![u] = SubSeq(@, 1, n - 1)]
      /\ cur' = [cur EXCEPT ![u] = Caller(u, n)]
      /\ restart' = [restart EXCEPT ![u] = stack[u][n].sub]
      /\ waitSub' = [waitSub EXCEPT ![u] = stack[u][n].sub]
      /\ resetThread' = [resetThread EXCEPT ![u] = TRUE]
      /\ pc' = pc /\ fault' = fault
  BY <1>b DEF ResetThread
<1>2. /\ tid' = [r \in Subgoals |-> IF r \in Lost(u, n) THEN t ELSE tid[r]]
      /\ grabbed' = [r \in Subgoals |-> r \in Lost(u, n) \/ grabbed[r]]
  BY <1>b DEF ResetThread
<1> HIDE DEF s
<1>3. pc[u] \in {"lock", "wait", "negLock", "negWait"} /\ u # t
  BY <1>0, <1>1 DEF Stopped, InLoop, WaitOf, LockOf, Leading
<1>4. stack[u] \in Seq(Frame) /\ n \in 1 .. Len(stack[u]) /\ Leads(stack[u], n)
  BY <1>0, <1>1, BottomLeaderLeads DEF Types
<1> HIDE DEF n
<1>5. /\ SubSeq(stack[u], 1, n - 1) \in Seq(Frame)
      /\ stack[u][n].sub \in Subgoals /\ stack[u][n].parent \in Nat
  BY <1>4, CutFrames, FrameFields
<1>6. Types'
  <2>1. /\ stack' \in [Threads -> Seq(Frame)] /\ cur' \in [Threads -> Nat]
        /\ restart' \in [Threads -> Subgoals \cup {Nobody}]
        /\ waitSub' \in [Threads -> Subgoals \cup {Nobody}]
        /\ resetThread' \in [Threads -> BOOLEAN]
    BY <1>0, <1>1, <1>5 DEF Types, Caller
  <2>2. /\ tid' \in [Subgoals -> Threads \cup {Nobody}]
        /\ grabbed' \in [Subgoals -> BOOLEAN]
    BY <1>0, <1>2 DEF Types
  <2> QED BY <1>0, <1>1, <2>1, <2>2 DEF Advance, Types
<1>7. Grows /\ goal' = goal /\ woken' = woken
  BY <1>0 DEF Advance, Grows
<1>8. Stands(u)' /\ (Written(u) => Written(u)')
  <2>1. /\ stack'[u] = SubSeq(stack[u], 1, n - 1) /\ cur'[u] = Caller(u, n)
        /\ restart'[u] = stack[u][n].sub /\ resetThread'[u] /\ pc'[u] = pc[u]
        /\ woken'[u] = woken[u]
    BY <1>0, <1>1, <1>7 DEF Types
  <2>2. victims'[u] = <<>>
    BY <1>0, <1>3 DEF StackInv, Stands, Leading
  <2> QED BY <1>0, <1>3, <1>4, <1>7, <2>1, <2>2, CutThread
<1>9. Stands(t)' /\ (Written(t) => Written(t)')
  <2>1. /\ StackStays(t) /\ restart'[t] = restart[t] /\ resetThread'[t] = resetThread[t]
        /\ pc' = pc
    BY <1>0, <1>1, <1>3, <1>7 DEF StackStays, Types
  <2>2. woken[t] = {} /\ Leading(t)' /\ Pending(t)' = Pending(t)
    BY <1>0, <1>7, <2>1, NotMarking DEF Leading, Pending
  <2> QED BY <1>0, <2>1, <2>2, StackStaysFor DEF Written, Leading
<1>10. ASSUME NEW q \in Threads, q # u, q # t PROVE Stands(q)' /\ (Written(q) => Written(q)')
  <2>1. Apart(q)
    BY <1>0, <1>1, <1>7, <1>10 DEF Apart, Types
  <2> QED BY <1>7, <2>1, ApartStands DEF StackInv
<1> QED BY <1>6, <1>8, <1>9, <1>10

LEMMA LeadNegativeStep ==
  ASSUME StackInv, NEW t \in Threads, LeadNegative(t)
  PROVE  /\ Types' /\ \A q \in Threads : Stands(q)' /\ (Written(q) => Written(q)')
<1>0. /\ Types /\ pc[t] = "negReset" /\ victims[t] = <<>>
      /\ Grows /\ woken' = woken /\ victims' = victims
  BY DEF LeadNegative, StackInv, Grows
<1>1. CASE stack[t] = <<>> \/ ~ Computes(t, Last(stack[t]).sub)
  <2>1. /\ pc' = [q \in Threads |-> "undefined"] /\ fault' \in {"frame", "negation"}
        /\ stack' = stack /\ cur' = cur
    BY <1>1 DEF LeadNegative, Undefined
  <2>2. Types'
    BY <1>0, <1>1, <2>1 DEF LeadNegative, Types, Labels
  <2> QED BY <1>0, <2>1, <2>2, UndefinedKeeps
<1>2. CASE stack[t] # <<>> /\ Computes(t, Last(stack[t]).sub)
  <2> DEFINE s == Last(stack[t]).sub
             n == BottomLeader(t, s)
  <2>1. /\ stack' = [stack EXCEPT ![t] = SubSeq(@, 1, n - 1)]
        /\ cur' = [cur EXCEPT ![t] = Caller(t, n)]
        /\ goal' = [goal EXCEPT ![t] = stack[t][n].sub]
        /\ restart' = [restart EXCEPT ![t] = stack[t][n].sub]
        /\ resetThread' = [resetThread EXCEPT ![t] = TRUE]
        /\ pc' = [pc EXCEPT ![t] = "call"] /\ fault' = fault
    BY <1>2 DEF LeadNegative, Goto
  <2>2. /\ tid' = [r \in Subgoals |-> IF r \in Lost(t, n) THEN t ELSE tid[r]]
        /\ grabbed' = [r \in Subgoals |-> r \in Lost(t, n) \/ grabbed[r]]
    BY <1>2 DEF LeadNegative
  <2>3. stack[t] \in Seq(Frame) /\ OnStack(t, s)
    <3>1. stack[t] \in Seq(Frame)
      BY <1>0 DEF Types
    <3>2. Len(stack[t]) \in DOMAIN stack[t]
      BY <1>2, <3>1
    <3> QED BY <3>1, <3>2 DEF OnStack, Last
  <2> HIDE DEF s
  <2>4. n \in 1 .. Len(stack[t]) /\ Leads(stack[t], n)
    BY <2>3, BottomLeaderLeads
  <2> HIDE DEF n
  <2>5. /\ SubSeq(stack[t], 1, n - 1) \in Seq(Frame)
        /\ stack[t][n].sub \in Subgoals /\ stack[t][n].parent \in Nat
    BY <2>3, <2>4, CutFrames, FrameFields
  <2>6. Types'
    <3>1. /\ stack' \in [Threads -> Seq(Frame)] /\ cur' \in [Threads -> Nat]
          /\ restart' \in [Threads -> Subgoals \cup {Nobody}]
          /\ goal' \in [Threads -> Subgoals]
          /\ resetThread' \in [Threads -> BOOLEAN] /\ pc' \in [Threads -> Labels]
      BY <1>0, <2>1, <2>5 DEF Types, Caller, Labels
    <3>2. /\ tid' \in [Subgoals -> Threads \cup {Nobody}]
          /\ grabbed' \in [Subgoals -> BOOLEAN]
      BY <1>0, <2>2 DEF Types
    <3> QED BY <1>0, <2>1, <3>1, <3>2 DEF LeadNegative, Types
  <2>7. Stands(t)' /\ (Written(t) => Written(t)')
    <3>1. /\ stack'[t] = SubSeq(stack[t], 1, n - 1) /\ cur'[t] = Caller(t, n)
          /\ restart'[t] = stack[t][n].sub /\ goal'[t] = stack[t][n].sub
          /\ pc'[t] = "call" /\ woken'[t] = woken[t] /\ victims'[t] = <<>>
      BY <1>0, <2>1 DEF Types
    <3> QED BY <1>0, <2>4, <3>1, CutThread
  <2>8. ASSUME NEW q \in Threads, q # t PROVE Stands(q)' /\ (Written(q) => Written(q)')
    <3>1. Apart(q)
      BY <1>0, <2>1, <2>8 DEF Apart, Types
    <3> QED BY <1>0, <3>1, ApartStands DEF StackInv
  <2> QED BY <2>6, <2>7, <2>8
<1> QED BY <1>1, <1>2

-----------------------------------------------------------------------------
(* New producers.                                                             *)
LEMMA PushThread ==
  ASSUME StackInv, NEW t \in Threads, NEW s \in Subgoals, Push(t, s), Grows,
         pc[t] \notin {"run", "wake", "undefined"}, woken' = woken, victims'[t] = <<>>,
         Pending(t) = {s}
  PROVE  /\ stack' \in [Threads -> Seq(Frame)] /\ cur' \in [Threads -> Nat]
         /\ pc' \in [Threads -> Labels]
         /\ \A q \in Threads \ {t} : stack'[q] = stack[q] /\ cur'[q] = cur[q] /\ pc'[q] = pc[q]
         /\ Stands(t)' /\ (Written(t) => Written(t)')
<1> DEFINE st == stack[t]
           f == [sub |-> s, level |-> Len(st) + 1, todo |-> calls[s], parent |-> cur[t]]
<1>0. Types /\ Shape(st, cur[t]) /\ woken[t] = {}
  BY NotMarking DEF StackInv, Stands
<1>1. /\ stack' = [stack EXCEPT ![t] = Append(@, [sub |-> s, level |-> Len(@) + 1,
                                              todo |-> calls[s], parent |-> cur[t]])]
      /\ cur' = [cur EXCEPT ![t] = Len(stack[t]) + 1]
      /\ pc' = [pc EXCEPT ![t] = "run"]
  BY DEF Push, Goto
<1>2. stack' = [stack EXCEPT ![t] = Append(st, f)]
  BY <1>0, <1>1 DEF Types
<1>3. calls[s] \in SUBSET Subgoals
  BY <1>0, ProgramsAssumption DEF Types
<1>4. Shape(Append(st, f), Len(st) + 1)
  BY <1>0, <1>3, PushShape
<1>5. Append(st, f) \in Seq(Frame) /\ Len(st) + 1 \in Nat /\ Len(st) + 1 > 0
  BY <1>0, <1>4 DEF Shape
<1>6. Recorded(calls, st, cur[t], completed, {s}) =>
        Recorded(calls, Append(st, f), Len(st) + 1, completed', {})
  <2>1. ASSUME Recorded(calls, st, cur[t], completed, {s})
        PROVE  Recorded(calls, Append(st, f), Len(st) + 1, completed, {})
    BY <1>0, <1>3, <2>1, PushRecords
  <2> HIDE DEF f
  <2> QED BY <2>1, RecordedMore DEF Grows
<1> HIDE DEF f
<1>7. /\ stack'[t] = Append(st, f) /\ cur'[t] = Len(st) + 1 /\ pc'[t] = "run"
  BY <1>0, <1>1, <1>2 DEF Types
<1>8. Stands(t)'
  BY <1>0, <1>4, <1>5, <1>7 DEF Stands, Marks, Leading, Grows
<1>9. Written(t) => Written(t)'
  BY <1>6, <1>7 DEF Written, Pending, Grows
<1> QED BY <1>0, <1>1, <1>2, <1>5, <1>8, <1>9 DEF Types, Labels

LEMMA CallNewStep ==
  ASSUME StackInv, NEW t \in Threads, CallNew(t)
  PROVE  Types' /\ OthersApart(t) /\ Stands(t)' /\ (Written(t) => Written(t)')
<1>0. /\ Types /\ Grows /\ goal[t] \in Subgoals /\ pc[t] = "call" /\ woken' = woken
      /\ victims' = victims /\ victims[t] = <<>> /\ Pending(t) = {goal[t]}
      /\ Push(t, goal[t])
  BY DEF CallNew, StackInv, Types, Grows, Stands, Leading, Pending
<1>1. /\ stack' \in [Threads -> Seq(Frame)] /\ cur' \in [Threads -> Nat]
      /\ pc' \in [Threads -> Labels]
      /\ \A q \in Threads \ {t} : stack'[q] = stack[q] /\ cur'[q] = cur[q] /\ pc'[q] = pc[q]
      /\ Stands(t)' /\ (Written(t) => Written(t)')
  BY <1>0, PushThread
<1>2. tid' \in [Subgoals -> Threads \cup {Nobody}]
  BY <1>0 DEF CallNew, Types
<1>3. Types'
  BY <1>0, <1>1, <1>2 DEF CallNew, Types, waitVars
<1>4. OthersApart(t)
  BY <1>0, <1>1 DEF CallNew, OthersApart, Apart, waitVars
<1> QED BY <1>1, <1>3, <1>4

LEMMA CallGrabbedStep ==
  ASSUME StackInv, NEW t \in Threads, CallGrabbed(t)
  PROVE  Types' /\ OthersApart(t) /\ Stands(t)' /\ (Written(t) => Written(t)')
<1>0. /\ Types /\ Grows /\ goal[t] \in Subgoals /\ pc[t] = "call" /\ woken' = woken
      /\ victims' = victims /\ victims[t] = <<>> /\ Pending(t) = {goal[t]}
      /\ Push(t, goal[t])
  BY DEF CallGrabbed, StackInv, Types, Grows, Stands, Leading, Pending
<1>1. /\ stack' \in [Threads -> Seq(Frame)] /\ cur' \in [Threads -> Nat]
      /\ pc' \in [Threads -> Labels]
      /\ \A q \in Threads \ {t} : stack'[q] = stack[q] /\ cur'[q] = cur[q] /\ pc'[q] = pc[q]
      /\ Stands(t)' /\ (Written(t) => Written(t)')
  BY <1>0, PushThread
<1>2. grabbed' \in [Subgoals -> BOOLEAN]
  BY <1>0 DEF CallGrabbed, Types
<1>3. Types'
  BY <1>0, <1>1, <1>2 DEF CallGrabbed, Types, waitVars
<1>4. OthersApart(t)
  BY <1>0, <1>1 DEF CallGrabbed, OthersApart, Apart, waitVars
<1> QED BY <1>1, <1>3, <1>4

LEMMA LeadStep ==
  ASSUME StackInv, NEW t \in Threads, Lead(t)
  PROVE  Types' /\ OthersApart(t) /\ Stands(t)' /\ (Written(t) => Written(t)')
<1>0. /\ Types /\ Grows /\ goal[t] \in Subgoals /\ pc[t] = "reset" /\ woken' = woken
      /\ victims' = victims /\ victims[t] = <<>> /\ Pending(t) = {goal[t]}
      /\ Push(t, goal[t])
  BY DEF Lead, StackInv, Types, Grows, Pending
<1>1. /\ stack' \in [Threads -> Seq(Frame)] /\ cur' \in [Threads -> Nat]
      /\ pc' \in [Threads -> Labels]
      /\ \A q \in Threads \ {t} : stack'[q] = stack[q] /\ cur'[q] = cur[q] /\ pc'[q] = pc[q]
      /\ Stands(t)' /\ (Written(t) => Written(t)')
  BY <1>0, PushThread
<1>2. grabbed' \in [Subgoals -> BOOLEAN] /\ deadlockLeader' \in [Threads -> BOOLEAN]
  BY <1>0 DEF Lead, Types
<1>3. Types'
  BY <1>0, <1>1, <1>2 DEF Lead, Types
<1>4. OthersApart(t)
  BY <1>0, <1>1 DEF Lead, OthersApart, Apart
<1> QED BY <1>1, <1>3, <1>4

-----------------------------------------------------------------------------
(* The clauses.                                                               *)
LEMMA AdjustedJoins ==
  ASSUME NEW t, NEW s, stack[t] \in Seq(Frame)
  PROVE  Adjusted(t, s) = Joined(stack[t], FrameOf(t, s))
BY DEF Adjusted, Joined

LEMMA CallOwnStep ==
  ASSUME StackInv, NEW t \in Threads, CallOwn(t)
  PROVE  Types' /\ OthersApart(t) /\ Stands(t)' /\ (Written(t) => Written(t)')
<1> DEFINE s == goal[t]
           k == FrameOf(t, s)
           st == stack[t]
<1>0. /\ Types /\ Stands(t) /\ Grows /\ pc[t] = "call" /\ woken' = woken /\ cur' = cur
      /\ woken[t] = {} /\ victims' = victims /\ victims[t] = <<>>
      /\ goal' = goal /\ restart' = restart /\ resetThread' = resetThread
  BY NotMarking DEF CallOwn, StackInv, Grows, tableVars, waitVars, Stands, Leading
<1>1. CASE ~ OnStack(t, s)
  <2>1. pc' = [q \in Threads |-> "undefined"] /\ fault' = "frame" /\ stack' = stack
    BY <1>1 DEF CallOwn, Undefined
  <2>2. Types'
    BY <1>0, <2>1 DEF CallOwn, Types, Labels, tableVars, waitVars
  <2>3. OthersApart(t)
    BY <1>0, <2>1 DEF OthersApart, Apart
  <2> QED BY <1>0, <2>1, <2>2, <2>3, UndefinedKeeps
<1>2. CASE OnStack(t, s)
  <2>1. /\ stack' = [stack EXCEPT ![t] = Adjusted(t, s)]
        /\ pc' = [pc EXCEPT ![t] = GoOn(t, cur[t])] /\ fault' = fault
    BY <1>2 DEF CallOwn, Goto
  <2>2. st \in Seq(Frame) /\ k \in 1 .. Len(st) /\ st[k].sub = s /\ Shape(st, cur[t])
    BY <1>0, <1>2, FrameIsThere DEF Types, Stands
  <2>3. Adjusted(t, s) = Joined(st, k)
    BY <2>2, AdjustedJoins
  <2>4. Joined(st, k) \in Seq(Frame) /\ Shape(Joined(st, k), cur[t])
    BY <2>2, JoinedFrames, JoinedShape
  <2>5. GoOn(t, cur[t]) \in {"done", "run"} /\ (GoOn(t, cur[t]) = "run" => cur[t] > 0)
    BY <1>0 DEF GoOn, Types
  <2>6. /\ stack'[t] = Joined(st, k) /\ pc'[t] = GoOn(t, cur[t])
        /\ stack' \in [Threads -> Seq(Frame)] /\ pc' \in [Threads -> Labels]
    BY <1>0, <2>1, <2>3, <2>4, <2>5 DEF Types, Labels
  <2>7. Types'
    BY <1>0, <2>1, <2>6 DEF CallOwn, Types, tableVars, waitVars
  <2>8. OthersApart(t)
    BY <1>0, <2>1 DEF OthersApart, Apart, Types
  <2>9. Stands(t)'
    BY <1>0, <2>4, <2>5, <2>6 DEF Stands, Marks, Leading, Grows
  <2>10. ASSUME Written(t) PROVE Written(t)'
    <3>1. Recorded(calls, st, cur[t], completed, {st[k].sub})
      BY <1>0, <2>2, <2>10 DEF Written, Pending
    <3>2. Recorded(calls, Joined(st, k), cur[t], completed, {})
      BY <2>2, <3>1, JoinedRecords
    <3>3. Recorded(calls, Joined(st, k), cur[t], completed', {})
      BY <1>0, <3>2, RecordedMore DEF Grows
    <3>4. Pending(t)' = {}
      BY <2>5, <2>6 DEF Pending
    <3> QED BY <1>0, <2>6, <3>3, <3>4 DEF Written, Grows
  <2> QED BY <2>7, <2>8, <2>9, <2>10
<1> QED BY <1>1, <1>2

(* A thread that has clauses left marks nothing.                              *)
LEMMA Unmarked ==
  ASSUME StackInv, NEW t \in Threads, pc[t] = "run",
         ~ Leads(stack[t], cur[t]) \/ stack[t][cur[t]].todo # {}
  PROVE  woken[t] = {}
BY DEF StackInv, Stands, Marks, Completing

LEMMA ResolveStep ==
  ASSUME StackInv, NEW t \in Threads, NEW s \in Subgoals, Resolve(t, s)
  PROVE  Types' /\ OthersApart(t) /\ Stands(t)' /\ (Written(t) => Written(t)')
<1> DEFINE st == stack[t]
           c == cur[t]
<1>0. /\ Types /\ Stands(t) /\ Grows /\ pc[t] = "run" /\ woken' = woken /\ cur' = cur
      /\ victims' = victims /\ victims[t] = <<>> /\ woken[t] = {}
      /\ restart' = restart /\ resetThread' = resetThread
  BY Unmarked DEF Resolve, StackInv, Grows, tableVars, waitVars, Stands, Leading
<1>1. Shape(st, c) /\ c > 0
  BY <1>0 DEF Stands
<1>2. stack' = [stack EXCEPT ![t] = Taken(st, c, s)]
  BY DEF Resolve, Taken
<1>3. goal' = [goal EXCEPT ![t] = s] /\ pc' = [pc EXCEPT ![t] = "call"]
  BY DEF Resolve, Goto
<1>4. Taken(st, c, s) \in Seq(Frame) /\ Shape(Taken(st, c, s), c)
  BY <1>1, TakenFrames, TakenShape
<1>5. stack'[t] = Taken(st, c, s) /\ goal'[t] = s /\ pc'[t] = "call"
  BY <1>0, <1>2, <1>3 DEF Types
<1>6. Types'
  <2>1. /\ stack' \in [Threads -> Seq(Frame)] /\ pc' \in [Threads -> Labels]
        /\ goal' \in [Threads -> Subgoals]
    <3> HIDE DEF st, c
    <3> QED BY <1>0, <1>2, <1>3, <1>4 DEF Types, Labels
  <2> QED BY <1>0, <2>1 DEF Resolve, Types, tableVars, waitVars
<1>7. OthersApart(t)
  BY <1>0, <1>2, <1>3 DEF OthersApart, Apart, Types
<1>8. Stands(t)'
  BY <1>0, <1>4, <1>5 DEF Stands, Marks, Leading, Grows
<1>9. ASSUME Written(t) PROVE Written(t)'
  <2>1. Recorded(calls, st, c, completed, {})
    BY <1>0, <1>9 DEF Written, Pending
  <2>2. Recorded(calls, Taken(st, c, s), c, completed, {s})
    BY <1>1, <2>1, TakenRecords
  <2>3. Recorded(calls, Taken(st, c, s), c, completed', {s})
    BY <1>0, <2>2, RecordedMore DEF Grows
  <2>4. Pending(t)' = {s}
    BY <1>5 DEF Pending
  <2> QED BY <1>0, <1>5, <2>3, <2>4 DEF Written, Grows
<1> QED BY <1>6, <1>7, <1>8, <1>9

LEMMA NegateStep ==
  ASSUME StackInv, NEW t \in Threads, NEW s \in Subgoals, Negate(t, s)
  PROVE  Types' /\ OthersApart(t) /\ Stands(t)' /\ (Written(t) => Written(t)')
<1> DEFINE c == cur[t]
           k == FrameOf(t, s)
           st == IF tid[s] = t THEN Joined(stack[t], k) ELSE stack[t]
<1>0. /\ Types /\ Stands(t) /\ Grows /\ pc[t] = "run" /\ woken' = woken /\ cur' = cur
      /\ victims' = victims /\ victims[t] = <<>> /\ woken[t] = {}
      /\ resetThread' = resetThread
  BY Unmarked DEF Negate, StackInv, Grows, tableVars, waitVars, Stands, Leading
<1>1. CASE tid[s] = t /\ ~ OnStack(t, s)
  <2>1. /\ pc' = [q \in Threads |-> "undefined"] /\ fault' = "frame" /\ stack' = stack
        /\ restart' = restart /\ goal' = goal
    BY <1>1 DEF Negate, Undefined
  <2>2. Types'
    BY <1>0, <2>1 DEF Negate, Types, Labels, tableVars, waitVars
  <2>3. OthersApart(t)
    BY <1>0, <2>1 DEF OthersApart, Apart
  <2> QED BY <1>0, <2>1, <2>2, <2>3, UndefinedKeeps
<1>2. CASE ~ (tid[s] = t /\ ~ OnStack(t, s))
  <2>1. stack[t] \in Seq(Frame) /\ Shape(stack[t], c) /\ c > 0
    BY <1>0 DEF Types, Stands
  <2>2. tid[s] = t => k \in 1 .. Len(stack[t]) /\ stack[t][k].sub = s
    BY <1>2, <2>1, FrameIsThere
  <2>3. Adjusted(t, s) = Joined(stack[t], k)
    BY <2>1, AdjustedJoins
  <2>4. /\ stack' = [stack EXCEPT ![t] = Taken(st, c, s)] /\ fault' = fault
        /\ \/ tid[s] = t /\ pc' = pc /\ restart' = restart /\ goal' = goal
           \/ /\ tid[s] # t /\ pc' = [pc EXCEPT ![t] = "negLock"]
              /\ goal' = [goal EXCEPT ![t] = s]
              /\ restart' = [restart EXCEPT ![t] = Nobody]
    BY <1>2, <2>3 DEF Negate, Goto, Taken
  <2>5. Shape(st, c)
    BY <2>1, <2>2, JoinedShape
  <2> HIDE DEF st
  <2>6. Taken(st, c, s) \in Seq(Frame) /\ Shape(Taken(st, c, s), c)
    BY <2>1, <2>5, TakenFrames, TakenShape
  <2>7. /\ stack'[t] = Taken(st, c, s)
        /\ \/ tid[s] = t /\ pc'[t] = "run"
           \/ tid[s] # t /\ pc'[t] = "negLock" /\ goal'[t] = s /\ restart'[t] = Nobody
    BY <1>0, <2>4 DEF Types
  <2>8. Types'
    <3>1. /\ stack' \in [Threads -> Seq(Frame)] /\ pc' \in [Threads -> Labels]
          /\ goal' \in [Threads -> Subgoals]
          /\ restart' \in [Threads -> Subgoals \cup {Nobody}]
      <4> HIDE DEF c, k
      <4>1. stack' \in [Threads -> Seq(Frame)]
        BY <1>0, <2>4, <2>6 DEF Types
      <4>2. CASE tid[s] = t
        BY <1>0, <2>4, <4>1, <4>2 DEF Types
      <4>3. CASE tid[s] # t
        <5>1. /\ pc' = [pc EXCEPT ![t] = "negLock"] /\ goal' = [goal EXCEPT ![t] = s]
              /\ restart' = [restart EXCEPT ![t] = Nobody]
          BY <2>4, <4>3
        <5>2. pc' \in [Threads -> Labels]
          BY <1>0, <5>1 DEF Types, Labels
        <5>3. goal' \in [Threads -> Subgoals]
          BY <1>0, <5>1 DEF Types
        <5>4. restart' \in [Threads -> Subgoals \cup {Nobody}]
          BY <1>0, <5>1 DEF Types
        <5> QED BY <4>1, <5>2, <5>3, <5>4
      <4> QED BY <4>2, <4>3
    <3> QED BY <1>0, <2>4, <3>1 DEF Negate, Types, tableVars, waitVars
  <2>9. OthersApart(t)
    BY <1>0, <2>4 DEF OthersApart, Apart, Types
  <2>10. Stands(t)'
    BY <1>0, <2>1, <2>6, <2>7 DEF Stands, Marks, Leading, Grows
  <2>11. ASSUME Written(t) PROVE Written(t)'
    <3>1. Recorded(calls, stack[t], c, completed, {})
      BY <1>0, <2>11 DEF Written, Pending
    <3>2. Recorded(calls, st, c, completed, {})
      <4>1. CASE tid[s] = t
        <5>1. Recorded(calls, stack[t], c, completed, {stack[t][k].sub})
          BY <3>1, RecordedMore
        <5> QED BY <2>1, <2>2, <4>1, <5>1, JoinedRecords DEF st
      <4>2. CASE tid[s] # t
        BY <3>1, <4>2 DEF st
      <4> QED BY <4>1, <4>2
    <3>3. Recorded(calls, Taken(st, c, s), c, completed, {s})
      BY <2>1, <2>5, <3>2, TakenRecords
    <3>4. CASE tid[s] = t
      <4>1. st = Joined(stack[t], k) /\ k \in 1 .. Len(stack[t])
        BY <2>2, <3>4 DEF st
      <4>2. /\ Len(st) = Len(stack[t]) /\ st[k].sub = s /\ st[k].level = st[c].level
        BY <2>1, <2>2, <3>4, <4>1, JoinedFrames, JoinedTies
      <4>3. c \in 1 .. Len(st) /\ k \in 1 .. Len(st)
        BY <2>1, <4>1, <4>2 DEF Shape
      <4>4. /\ Len(Taken(st, c, s)) = Len(st) /\ Taken(st, c, s)[k].sub = s
            /\ Taken(st, c, s)[k].level = Taken(st, c, s)[c].level
        BY <2>1, <2>5, <4>2, <4>3, TakenFrames
      <4>5. Tied(Taken(st, c, s), c, s)
        BY <4>3, <4>4 DEF Tied
      <4>6. Recorded(calls, Taken(st, c, s), c, completed, {})
        BY <3>3, <4>5 DEF Recorded
      <4>7. Pending(t)' = {}
        BY <2>7, <3>4 DEF Pending
      <4> QED BY <1>0, <2>7, <4>6, <4>7 DEF Written, Negate, Grows, tableVars
    <3>5. CASE tid[s] # t
      <4>1. Pending(t)' = {s}
        BY <2>7, <3>5 DEF Pending
      <4> QED BY <1>0, <2>7, <3>3, <4>1 DEF Written, Negate, Grows, tableVars
    <3> QED BY <3>4, <3>5
  <2> QED BY <2>8, <2>9, <2>10, <2>11
<1> QED BY <1>1, <1>2

LEMMA BackToCallerStep ==
  ASSUME StackInv, NEW t \in Threads, BackToCaller(t)
  PROVE  Types' /\ OthersApart(t) /\ Stands(t)' /\ (Written(t) => Written(t)')
<1> DEFINE st == stack[t]
           c == cur[t]
<1>0. /\ Types /\ Stands(t) /\ Grows /\ pc[t] = "run" /\ st[c].todo = {} /\ ~ Leads(st, c)
  BY DEF BackToCaller, Exhausted, StackInv, Grows, tableVars, IsLeader, Leads
<1>1. /\ pc' = pc /\ stack' = stack /\ woken' = woken /\ victims' = victims
      /\ restart' = restart /\ resetThread' = resetThread /\ goal' = goal
      /\ cur' = [cur EXCEPT ![t] = st[c].parent]
  BY <1>0 DEF BackToCaller, waitVars, Caller, Types
<1>2. woken[t] = {} /\ Shape(st, c) /\ c > 0 /\ victims[t] = <<>>
  BY <1>0, Unmarked DEF Stands, Leading
<1>3. Shape(st, st[c].parent) /\ st[c].parent > 0
  BY <1>0, <1>2, BackShape
<1>4. st[c].parent \in Nat
  BY <1>2, <1>3 DEF Shape
<1>5. Types'
  BY <1>0, <1>1, <1>4 DEF BackToCaller, Types, tableVars, waitVars
<1>6. OthersApart(t)
  BY <1>0, <1>1 DEF OthersApart, Apart, Types
<1>7. stack'[t] = st /\ cur'[t] = st[c].parent /\ pc'[t] = "run"
  BY <1>0, <1>1 DEF Types
<1>8. Stands(t)'
  BY <1>0, <1>1, <1>2, <1>3, <1>7 DEF Stands, Marks, Leading, Grows
<1>9. ASSUME Written(t) PROVE Written(t)'
  <2>1. Recorded(calls, st, c, completed, {})
    BY <1>0, <1>9 DEF Written, Pending
  <2>2. Recorded(calls, st, st[c].parent, completed, {})
    BY <2>1, BackRecords
  <2>3. Pending(t)' = {} /\ completed' = completed
    BY <1>7 DEF Pending, BackToCaller, tableVars
  <2> QED BY <1>0, <1>7, <2>2, <2>3 DEF Written, Grows
<1> QED BY <1>5, <1>6, <1>8, <1>9

-----------------------------------------------------------------------------
(* The completion of an SCC.                                                  *)
LEMMA MarkCompletedStep ==
  ASSUME StackInv, NEW t \in Threads, MarkCompleted(t)
  PROVE  /\ Types' /\ OthersApart(t) /\ Stands(t)' /\ (Written(t) => Written(t)')
         /\ Grows /\ Completing(t) /\ cur[t] > 0 /\ pc[t] = "run"
         /\ stack' = stack /\ cur' = cur
         /\ \E j \in cur[t] .. Len(stack[t]) :
              /\ completed' = completed \cup {stack[t][j].sub}
              /\ woken' = [woken EXCEPT ![t] = @ \cup {stack[t][j].sub}]
<1> DEFINE st == stack[t]
           c == cur[t]
           m == Cardinality(woken[t])
           s == st[c + m].sub
<1>0. /\ Types /\ Stands(t) /\ pc[t] = "run" /\ Completing(t)
  BY DEF MarkCompleted, Exhausted, StackInv, IsLeader, Leads, Completing
<1>1. /\ completed' = completed \cup {s} /\ woken' = [woken EXCEPT ![t] = @ \cup {s}]
      /\ pc' = [pc EXCEPT ![t] = IF c + m = Len(st) THEN "wake" ELSE "run"]
      /\ stack' = stack /\ cur' = cur /\ goal' = goal /\ restart' = restart
      /\ resetThread' = resetThread /\ victims' = victims /\ calls' = calls
  BY DEF MarkCompleted, Goto, waitVars
<1>2. Shape(st, c) /\ c > 0 /\ st \in Seq(Frame) /\ c \in 1 .. Len(st) /\ Len(st) \in Nat
  BY <1>0 DEF Stands, Shape
<1>3. IsFiniteSet(woken[t]) /\ m \in Nat /\ (woken[t] = {} <=> m = 0)
  <2>1. woken[t] \subseteq Subgoals
    BY <1>0 DEF Types
  <2>2. IsFiniteSet(woken[t])
    BY <2>1, ProgramsAssumption, FS_Subset
  <2> QED BY <2>2, FS_CardinalityType, FS_EmptySet
<1> HIDE DEF m
<1>4. c + m \in c .. Len(st) /\ woken[t] = SubsTo(t, c + m - 1)
  <2>1. CASE woken[t] = {}
    <3>1. m = 0
      BY <1>3, <2>1
    <3>2. SubsTo(t, c + m - 1) = {}
      BY <1>2, <3>1 DEF SubsTo
    <3> QED BY <1>2, <2>1, <3>1, <3>2
  <2>2. CASE woken[t] # {}
    BY <1>0, <1>2, <1>3, <2>2 DEF Stands, Marks, m
  <2> QED BY <2>1, <2>2
<1> HIDE DEF s
<1>5. s \in Subgoals
  BY <1>2, <1>4, FrameFields DEF s
<1>6. Types'
  BY <1>0, <1>1, <1>5 DEF MarkCompleted, Types, Labels, waitVars
<1>7. OthersApart(t)
  BY <1>0, <1>1 DEF OthersApart, Apart, Types
<1>8. Grows
  BY <1>1 DEF Grows
<1>9. /\ woken'[t] = woken[t] \cup {s}
      /\ pc'[t] = IF c + m = Len(st) THEN "wake" ELSE "run"
  BY <1>0, <1>1 DEF Types
<1>10. woken'[t] = SubsTo(t, c + m)
  <2>1. \A i \in c .. c + m : i \in c .. c + m - 1 \/ i = c + m
    BY <1>2, <1>3
  <2>2. \A i \in c .. c + m - 1 : i \in c .. c + m
    BY <1>2, <1>3
  <2>3. c + m \in c .. c + m
    BY <1>2, <1>3
  <2>4. SubsTo(t, c + m) = SubsTo(t, c + m - 1) \cup {st[c + m].sub}
    BY <2>1, <2>2, <2>3 DEF SubsTo
  <2> QED BY <1>4, <1>9, <2>4 DEF s
<1>11. Marks(t)'
  <2>1. Completing(t)' /\ \A n : SubsTo(t, n)' = SubsTo(t, n)
    BY <1>0, <1>1 DEF Completing, SubsTo
  <2>2. woken'[t] \subseteq completed'
    BY <1>0, <1>1, <1>9 DEF Stands, Marks
  <2>3. CASE c + m = Len(st)
    <3>1. pc'[t] = "wake" /\ woken'[t] = SubsTo(t, Len(st))
      BY <1>9, <1>10, <2>3
    <3> QED BY <1>1, <2>1, <2>2, <3>1 DEF Marks
  <2>4. CASE c + m # Len(st)
    <3>1. pc'[t] = "run"
      BY <1>9, <2>4
    <3>2. CASE s \in woken[t]
      <4>1. woken'[t] = woken[t]
        BY <1>9, <3>2
      <4>2. woken[t] # {}
        BY <3>2
      <4> QED BY <1>0, <1>1, <2>1, <2>2, <3>1, <4>1, <4>2 DEF Stands, Marks
    <3>3. CASE s \notin woken[t]
      <4>1. Cardinality(woken'[t]) = m + 1
        BY <1>3, <1>9, <3>3, FS_AddElement DEF m
      <4>2. c + (m + 1) <= Len(st) /\ c + (m + 1) - 1 = c + m
        BY <1>2, <1>3, <1>4, <2>4
      <4> QED BY <1>1, <1>10, <2>1, <2>2, <3>1, <4>1, <4>2 DEF Marks
    <3> QED BY <3>2, <3>3
  <2> QED BY <2>3, <2>4
<1>12. Stands(t)'
  BY <1>0, <1>1, <1>2, <1>9, <1>11 DEF Stands, Leading
<1>13. ASSUME Written(t) PROVE Written(t)'
  <2>1. Recorded(calls, st, c, completed, {})
    BY <1>0, <1>13 DEF Written, Pending
  <2>2. Recorded(calls, st, c, completed', {})
    BY <1>8, <2>1, RecordedMore DEF Grows
  <2>3. Pending(t)' = {}
    BY <1>9 DEF Pending
  <2> QED BY <1>1, <2>2, <2>3 DEF Written
<1> QED BY <1>0, <1>1, <1>2, <1>4, <1>6, <1>7, <1>8, <1>12, <1>13 DEF s

LEMMA WakeStep ==
  ASSUME StackInv, NEW t \in Threads, Wake(t)
  PROVE  /\ Types' /\ OthersApart(t) /\ Stands(t)' /\ (Written(t) => Written(t)')
         /\ completed' = completed /\ calls' = calls
         /\ Marking(t) \subseteq completed
<1> DEFINE st == stack[t]
           c == cur[t]
           p == st[c].parent
<1>0. /\ Types /\ Stands(t) /\ pc[t] = "wake" /\ Completing(t) /\ c > 0
      /\ woken[t] = SubsTo(t, Len(st)) /\ woken[t] \subseteq completed /\ victims[t] = <<>>
  BY DEF Wake, StackInv, Stands, Marks, Leading
<1>1. /\ stack' = [stack EXCEPT ![t] = SubSeq(st, 1, c - 1)]
      /\ cur' = [cur EXCEPT ![t] = p] /\ woken' = [woken EXCEPT ![t] = {}]
      /\ goal' = goal /\ restart' = restart /\ resetThread' = resetThread
      /\ victims' = victims /\ calls' = calls /\ completed' = completed
  BY DEF Wake, waitVars, tableVars, Caller
<1>2. \A u \in Threads :
        pc'[u] = IF u = t THEN GoOn(t, p) ELSE IF u \in Wakes(t) THEN LockOf[pc[u]] ELSE pc[u]
  BY DEF Wake, Caller
<1>3. /\ st \in Seq(Frame) /\ Shape(st, c) /\ c \in 1 .. Len(st) /\ Leads(st, c)
  BY <1>0 DEF Stands, Shape, Completing
<1>4. /\ SubSeq(st, 1, c - 1) \in Seq(Frame) /\ p \in Nat /\ st[c].sub \in Subgoals
      /\ Shape(SubSeq(st, 1, c - 1), p)
  BY <1>3, CutFrames, CutShape, FrameFields
<1>5. \A u \in Wakes(t) : \/ pc[u] = "wait" /\ LockOf[pc[u]] = "lock"
                          \/ pc[u] = "negWait" /\ LockOf[pc[u]] = "negLock"
  BY DEF Wakes, Waiting, LockOf
<1>6. GoOn(t, p) \in {"done", "run"} /\ (GoOn(t, p) = "run" => p > 0)
  BY <1>4 DEF GoOn
<1>7. pc' \in [Threads -> Labels]
  <2>1. pc' = [u \in Threads |-> pc'[u]]
    BY DEF Wake
  <2>2. \A u \in Threads : pc'[u] \in Labels
    BY <1>0, <1>2, <1>5, <1>6 DEF Types, Labels
  <2> QED BY <2>1, <2>2
<1>8. stack'[t] = SubSeq(st, 1, c - 1) /\ cur'[t] = p /\ woken'[t] = {} /\ pc'[t] = GoOn(t, p)
  BY <1>0, <1>1, <1>2 DEF Types
<1> HIDE DEF p
<1>9. Types'
  <2>1. /\ stack' \in [Threads -> Seq(Frame)] /\ cur' \in [Threads -> Nat]
        /\ woken' \in [Threads -> SUBSET Subgoals]
    BY <1>0, <1>1, <1>4 DEF Types
  <2> QED BY <1>0, <1>1, <1>7, <2>1 DEF Wake, Types, waitVars, tableVars
<1>10. OthersApart(t)
  <2>1. ASSUME NEW q \in Threads, q # t PROVE Apart(q)
    <3>1. \/ pc'[q] = pc[q]
          \/ pc[q] = "wait" /\ pc'[q] = "lock"
          \/ pc[q] = "negWait" /\ pc'[q] = "negLock"
      BY <1>2, <1>5, <2>1
    <3> QED BY <1>0, <1>1, <2>1, <3>1 DEF Apart, Types
  <2> QED BY <2>1 DEF OthersApart
<1>11. Stands(t)'
  BY <1>0, <1>1, <1>4, <1>6, <1>8 DEF Stands, Marks, Leading
<1>12. ASSUME Written(t) PROVE Written(t)'
  <2>1. Recorded(calls, st, c, completed, {})
    BY <1>0, <1>12 DEF Written, Pending
  <2>2. Recorded(calls, SubSeq(st, 1, c - 1), p, completed, {st[c].sub})
    BY <1>3, <2>1, CutRecords DEF p
  <2>3. st[c].sub \in completed
    BY <1>0, <1>3 DEF SubsTo
  <2>4. Recorded(calls, SubSeq(st, 1, c - 1), p, completed, {})
    BY <2>2, <2>3, RecordedMore
  <2>5. Pending(t)' = {}
    BY <1>6, <1>8 DEF Pending
  <2> QED BY <1>1, <1>8, <2>4, <2>5 DEF Written
<1>13. Marking(t) \subseteq completed
  BY <1>0 DEF Marking, SubsTo
<1> QED BY <1>1, <1>9, <1>10, <1>11, <1>12, <1>13

-----------------------------------------------------------------------------
(* Every step.                                                                *)
LEMMA NextGrows ==
  ASSUME [Next]_vars
  PROVE  Grows
<1>1. CASE UNCHANGED vars
  BY <1>1 DEF vars, tableVars, Grows
<1>2. CASE Next
  <2>1. PICK t \in Threads : Continue(t) \/ Spurious(t)
    BY <1>2 DEF Next
  <2>2. CASE CallNew(t) \/ CallCompleted(t) \/ CallGrabbed(t) \/ CallOwn(t) \/ CallForeign(t)
    BY <2>2 DEF CallNew, CallCompleted, CallGrabbed, CallOwn, CallForeign, tableVars, Grows
  <2>3. CASE StopWaiting(t) \/ Wait(t) \/ Usurp(t) \/ Spurious(t)
    BY <2>3 DEF StopWaiting, Wait, Usurp, Spurious, tableVars, Grows
  <2>4. CASE ResetNothing(t) \/ ResetThread(t) \/ ResetUndefined(t)
    BY <2>4 DEF ResetNothing, ResetThread, ResetUndefined, Advance, Grows
  <2>5. CASE Lead(t) \/ LeadNegative(t)
    BY <2>5 DEF Lead, LeadNegative, Grows
  <2>6. CASE \E s \in Subgoals : Resolve(t, s) \/ Negate(t, s)
    BY <2>6 DEF Resolve, Negate, tableVars, Grows
  <2>7. CASE BackToCaller(t) \/ MarkCompleted(t) \/ Wake(t)
    BY <2>7 DEF BackToCaller, MarkCompleted, Wake, tableVars, Grows
  <2> QED BY <2>1, <2>2, <2>3, <2>4, <2>5, <2>6, <2>7 DEF Continue
<1> QED BY <1>1, <1>2

(* A thread that was reset does not become a deadlock leader by a usurpation. *)
UsurpsAfresh(t) == Usurp(t) /\ pc'[t] = "reset" => ~ resetThread[t]

LEMMA StackStep ==
  ASSUME StackInv, [Next]_vars
  PROVE  /\ StackInv'
         /\ (\A t \in Threads : Written(t) /\ UsurpsAfresh(t))
            => \A t \in Threads : Written(t)'
<1> DEFINE Keeps == /\ Types' /\ \A q \in Threads : Stands(q)'
                    /\ (\A t \in Threads : Written(t) /\ UsurpsAfresh(t))
                       => \A t \in Threads : Written(t)'
<1>0. Grows
  BY NextGrows
<1>1. ASSUME UNCHANGED vars PROVE Keeps
  <2>1. \A q \in Threads : Apart(q)
    BY <1>1 DEF vars, threadVars, waitVars, Apart
  <2>2. Types'
    BY <1>1 DEF vars, threadVars, waitVars, tableVars, StackInv, Types
  <2> QED BY <1>0, <2>1, <2>2, ApartStands DEF StackInv
<1>2. ASSUME NEW t \in Threads, Types', OthersApart(t), Stands(t)',
             Written(t) /\ UsurpsAfresh(t) => Written(t)'
      PROVE  Keeps
  <2>1. \A q \in Threads \ {t} : Stands(q)' /\ (Written(q) => Written(q)')
    BY <1>0, <1>2, ApartStands DEF OthersApart, StackInv
  <2> QED BY <1>2, <2>1
<1>3. ASSUME Next PROVE Keeps
  <2>1. PICK t \in Threads : Continue(t) \/ Spurious(t)
    BY <1>3 DEF Next
  <2>2. CASE CallNew(t)
    BY <1>2, <2>2, CallNewStep
  <2>3. CASE CallCompleted(t)
    BY <1>2, <2>3, CallCompletedStep
  <2>4. CASE CallGrabbed(t)
    BY <1>2, <2>4, CallGrabbedStep
  <2>5. CASE CallOwn(t)
    BY <1>2, <2>5, CallOwnStep
  <2>6. CASE CallForeign(t)
    BY <1>2, <2>6, CallForeignStep
  <2>7. CASE StopWaiting(t)
    BY <1>2, <2>7, StopWaitingStep
  <2>8. CASE Wait(t)
    BY <1>2, <2>8, WaitStep
  <2>9. CASE Usurp(t)
    BY <1>2, <2>9, UsurpStep DEF UsurpsAfresh
  <2>10. CASE ResetNothing(t)
    BY <1>2, <2>10, ResetNothingStep
  <2>11. CASE ResetThread(t)
    BY <2>11, ResetThreadStep
  <2>12. CASE ResetUndefined(t)
    BY <2>12, ResetUndefinedStep
  <2>13. CASE Lead(t)
    BY <1>2, <2>13, LeadStep
  <2>14. CASE LeadNegative(t)
    BY <2>14, LeadNegativeStep
  <2>15. CASE \E s \in Subgoals : Resolve(t, s)
    BY <1>2, <2>15, ResolveStep
  <2>16. CASE \E s \in Subgoals : Negate(t, s)
    BY <1>2, <2>16, NegateStep
  <2>17. CASE BackToCaller(t)
    BY <1>2, <2>17, BackToCallerStep
  <2>18. CASE MarkCompleted(t)
    BY <1>2, <2>18, MarkCompletedStep
  <2>19. CASE Wake(t)
    BY <1>2, <2>19, WakeStep
  <2>20. CASE Spurious(t)
    BY <1>2, <2>20, SpuriousStep
  <2> HIDE DEF Keeps
  <2> QED BY <2>1, <2>2, <2>3, <2>4, <2>5, <2>6, <2>7, <2>8, <2>9, <2>10, <2>11, <2>12,
             <2>13, <2>14, <2>15, <2>16, <2>17, <2>18, <2>19, <2>20 DEF Continue
<1> QED BY <1>1, <1>3 DEF StackInv

(* In every program and with any number of threads the completion stack of a  *)
(* thread is one of SCCs, cur a frame of the youngest of them or below, and a *)
(* chain of contexts one of threads: no reset (deadlock.c:71) and no call     *)
(* leaves a thread in a frame that its stack has lost.                        *)
THEOREM TypeCorrect == Spec => []TypeOK
<1>1. Init => StackInv
  BY InitStack
<1>2. StackInv /\ [Next]_vars => StackInv'
  BY StackStep
<1>3. StackInv => TypeOK
  BY StackInvImplies
<1> QED BY <1>1, <1>2, <1>3, PTL DEF Spec

-----------------------------------------------------------------------------
(* The tables that are marked.                                                *)
SameMarks(q) ==
  woken'[q] = woken[q] /\ (woken[q] # {} => stack'[q] = stack[q] /\ cur'[q] = cur[q])

LEMMA SameMarking ==
  ASSUME NEW q \in Threads, SameMarks(q)
  PROVE  Marking(q)' = Marking(q)
BY DEF SameMarks, Marking

LEMMA StoppedUnmarked ==
  ASSUME StackInv, NEW u \in Threads, Stopped(u)
  PROVE  woken[u] = {}
<1>1. pc[u] \in {"lock", "negLock", "wait", "negWait"}
  BY DEF Stopped, InLoop, WaitOf, LockOf
<1> QED BY <1>1, NotMarking

LEMMA MarksStay ==
  ASSUME StackInv, [Next]_vars,
         ~ \E t \in Threads : MarkCompleted(t) \/ Wake(t)
  PROVE  completed' = completed /\ \A q \in Threads : SameMarks(q)
<1>0. Types
  BY DEF StackInv
<1>1. CASE UNCHANGED vars
  BY <1>1 DEF vars, threadVars, tableVars, SameMarks
<1>2. ASSUME NEW t \in Threads, woken' = woken, completed' = completed, woken[t] = {},
             stack' = [stack EXCEPT ![t] = stack'[t]], cur' = [cur EXCEPT ![t] = cur'[t]]
      PROVE  completed' = completed /\ \A q \in Threads : SameMarks(q)
  BY <1>0, <1>2 DEF SameMarks, Types
<1>3. CASE Next
  <2>1. PICK t \in Threads : Continue(t) \/ Spurious(t)
    BY <1>3 DEF Next
  <2>2. CASE CallNew(t) \/ CallCompleted(t) \/ CallGrabbed(t) \/ CallOwn(t) \/ CallForeign(t)
    <3>1. woken[t] = {}
      BY <2>2, NotMarking DEF CallNew, CallCompleted, CallGrabbed, CallOwn, CallForeign
    <3>2. /\ woken' = woken /\ completed' = completed
          /\ stack' = [stack EXCEPT ![t] = stack'[t]] /\ cur' = [cur EXCEPT ![t] = cur'[t]]
      BY <1>0, <2>2 DEF CallNew, CallCompleted, CallGrabbed, CallOwn, CallForeign, Push,
                        tableVars, Types
    <3> QED BY <1>2, <3>1, <3>2
  <2>3. CASE StopWaiting(t) \/ Wait(t) \/ Usurp(t) \/ Spurious(t)
    BY <2>3 DEF StopWaiting, Wait, Usurp, Spurious, tableVars, SameMarks
  <2>4. CASE ResetNothing(t) \/ ResetUndefined(t)
    BY <2>4 DEF ResetNothing, ResetUndefined, Advance, SameMarks
  <2>5. CASE ResetThread(t)
    <3>1. PICK u \in Threads : u = Head(victims[t])
      BY <1>0, <2>5, AdvanceVictim DEF ResetThread
    <3>2. woken[u] = {}
      BY <2>5, <3>1, StoppedUnmarked DEF ResetThread
    <3>3. /\ woken' = woken /\ completed' = completed
          /\ stack' = [stack EXCEPT ![u] = stack'[u]] /\ cur' = [cur EXCEPT ![u] = cur'[u]]
      BY <1>0, <2>5, <3>1 DEF ResetThread, Advance, Types
    <3> QED BY <1>2, <3>2, <3>3
  <2>6. CASE Lead(t) \/ LeadNegative(t)
    <3>1. woken[t] = {}
      BY <2>6, NotMarking DEF Lead, LeadNegative
    <3>2. woken' = woken /\ completed' = completed
      BY <2>6 DEF Lead, LeadNegative
    <3>3. stack' = [stack EXCEPT ![t] = stack'[t]] /\ cur' = [cur EXCEPT ![t] = cur'[t]]
      <4>1. CASE Lead(t)
        BY <1>0, <4>1 DEF Lead, Push, Types
      <4>2. CASE LeadNegative(t) /\ (stack[t] = <<>> \/ ~ Computes(t, Last(stack[t]).sub))
        BY <1>0, <4>2 DEF LeadNegative, Types
      <4>3. CASE LeadNegative(t) /\ stack[t] # <<>> /\ Computes(t, Last(stack[t]).sub)
        BY <1>0, <4>3 DEF LeadNegative, Types
      <4> QED BY <2>6, <4>1, <4>2, <4>3
    <3> QED BY <1>2, <3>1, <3>2, <3>3
  <2>7. CASE \E s \in Subgoals : Resolve(t, s) \/ Negate(t, s)
    <3>1. PICK s \in Subgoals : Resolve(t, s) \/ Negate(t, s)
      BY <2>7
    <3>2. woken[t] = {}
      BY <3>1, Unmarked DEF Resolve, Negate
    <3>3. /\ woken' = woken /\ completed' = completed
          /\ stack' = [stack EXCEPT ![t] = stack'[t]] /\ cur' = [cur EXCEPT ![t] = cur'[t]]
      <4>1. CASE Resolve(t, s)
        BY <1>0, <4>1 DEF Resolve, tableVars, Types
      <4>2. CASE Negate(t, s)
        BY <1>0, <4>2 DEF Negate, tableVars, Types
      <4> QED BY <3>1, <4>1, <4>2
    <3> QED BY <1>2, <3>2, <3>3
  <2>8. CASE BackToCaller(t)
    <3>1. woken[t] = {}
      BY <2>8 DEF BackToCaller, Exhausted, StackInv, Stands, Marks, Completing, Leads, IsLeader
    <3>2. /\ woken' = woken /\ completed' = completed
          /\ stack' = [stack EXCEPT ![t] = stack'[t]] /\ cur' = [cur EXCEPT ![t] = cur'[t]]
      BY <1>0, <2>8 DEF BackToCaller, tableVars, Types
    <3> QED BY <1>2, <3>1, <3>2
  <2> QED BY <2>1, <2>2, <2>3, <2>4, <2>5, <2>6, <2>7, <2>8 DEF Continue
<1> QED BY <1>1, <1>3

LEMMA ClosedStep ==
  ASSUME StackInv, [Next]_vars, \A t \in Threads : Written(t), CompletedClosed
  PROVE  CompletedClosed'
<1>0. calls' = calls
  BY NextGrows DEF Grows
<1>1. CASE ~ \E t \in Threads : MarkCompleted(t) \/ Wake(t)
  <2>1. completed' = completed /\ \A q \in Threads : Marking(q)' = Marking(q)
    BY <1>1, MarksStay, SameMarking
  <2> QED BY <1>0, <2>1 DEF CompletedClosed
<1>2. ASSUME NEW t \in Threads, MarkCompleted(t) PROVE CompletedClosed'
  <2>0. Types /\ Stands(t) /\ Written(t)
    BY DEF StackInv
  <2>1. /\ Completing(t) /\ cur[t] > 0 /\ pc[t] = "run" /\ stack' = stack /\ cur' = cur
    BY <1>2, MarkCompletedStep
  <2>2. PICK j \in cur[t] .. Len(stack[t]) :
          /\ completed' = completed \cup {stack[t][j].sub}
          /\ woken' = [woken EXCEPT ![t] = @ \cup {stack[t][j].sub}]
    BY <1>2, MarkCompletedStep
  <2>3. \A q \in Threads : Marking(q) \subseteq Marking(q)'
    BY <2>0, <2>1, <2>2 DEF Marking, Types
  <2>4. Marking(t)' = {stack[t][i].sub : i \in cur[t] .. Len(stack[t])}
    BY <2>0, <2>1, <2>2 DEF Marking, Types
  <2>5. ASSUME NEW s \in completed', NEW r \in calls[s]
        PROVE  r \in completed' \cup UNION {Marking(q)' : q \in Threads}
    <3>1. CASE s \in completed
      BY <2>2, <2>3, <2>5, <3>1 DEF CompletedClosed
    <3>2. CASE s = stack[t][j].sub
      <4>1. Recorded(calls, stack[t], cur[t], completed, {})
        BY <2>0, <2>1 DEF Written, Pending
      <4>2. /\ Shape(stack[t], cur[t]) /\ Leads(stack[t], cur[t])
            /\ stack[t][cur[t]].todo = {}
        BY <2>0, <2>1 DEF Stands, Completing
      <4>3. r \in completed \/ \E k \in cur[t] .. Len(stack[t]) : stack[t][k].sub = r
        <5>1. r \in calls[stack[t][j].sub]
          BY <2>5, <3>2
        <5>2. /\ Shape(stack[t], cur[t]) /\ cur[t] > 0 /\ Leads(stack[t], cur[t])
              /\ stack[t][cur[t]].todo = {}
              /\ Recorded(calls, stack[t], cur[t], completed, {})
              /\ j \in cur[t] .. Len(stack[t])
          BY <2>1, <4>1, <4>2
        <5> QED BY <5>1, <5>2, LeaderClosed
      <4> QED BY <2>2, <2>4, <4>3
    <3> QED BY <2>2, <3>1, <3>2
  <2> QED BY <1>0, <2>5 DEF CompletedClosed
<1>3. ASSUME NEW t \in Threads, Wake(t) PROVE CompletedClosed'
  <2>1. completed' = completed /\ Marking(t) \subseteq completed /\ OthersApart(t)
    BY <1>3, WakeStep
  <2>2. \A q \in Threads \ {t} : Marking(q)' = Marking(q)
    BY <2>1, SameMarking DEF OthersApart, Apart, SameMarks
  <2> QED BY <1>0, <2>1, <2>2 DEF CompletedClosed
<1> QED BY <1>1, <1>2, <1>3

(* The calls are recorded, and what is marked is closed under them.           *)
ClosedInv == StackInv /\ (\A t \in Threads : Written(t)) /\ CompletedClosed

(* A table is completed only with all the tables it depends on, through any   *)
(* number of takeovers (usurp.h, deadlock.c:71, complete_local.h:423): the    *)
(* leader an SCC is completed by has recorded in the levels and the callers   *)
(* of its frames every call that has been made.  It takes that a thread that  *)
(* was reset while it waited, whose call has been put aside for the one it    *)
(* restarts with, does not take over others with the call it had made; when   *)
(* it does, a table is completed too early (TablesTakenOver.cfg).             *)
THEOREM LeadersComplete == Spec /\ []LeaderIsFree => []CompletedClosed
<1>1. Init => ClosedInv
  <2>1. Init => CompletedClosed
    BY DEF Init, CompletedClosed
  <2> QED BY <2>1, InitStack DEF ClosedInv
<1>2. ClosedInv /\ LeaderIsFree' /\ [Next]_vars => ClosedInv'
  <2> SUFFICES ASSUME ClosedInv, LeaderIsFree', [Next]_vars PROVE ClosedInv'
    OBVIOUS
  <2>1. \A t \in Threads : UsurpsAfresh(t)
    BY DEF UsurpsAfresh, Usurp, LeaderIsFree
  <2> QED BY <2>1, StackStep, ClosedStep DEF ClosedInv
<1>3. ClosedInv => CompletedClosed
  BY DEF ClosedInv
<1> QED BY <1>1, <1>2, <1>3, PTL DEF Spec

-----------------------------------------------------------------------------
(* waiting_for_tid.  A walk of as many steps as there are threads leaves      *)
(* every set of threads that it would not leave by its end.                   *)
LEMMA WalkLeaves ==
  ASSUME Types, WalkEnds, NEW ts \in SUBSET Threads, NEW u \in ts, NEW t,
         \A q \in ts \ {t} : waitTid[q] \in ts,
         \A i \in 0 .. Steps : WaitPath(u)[i] # t
  PROVE  FALSE
<1> DEFINE W == WaitPath(u)
<1>0. Nobody \notin ts /\ IsFiniteSet(Threads) /\ Steps \in Nat
  BY NobodyAssumption, ProgramsAssumption, StepsIsNat
<1>1. /\ W[0] = u /\ \A i \in 0 .. Steps : W[i] # t
      /\ \A i \in 1 .. Steps : W[i] = IF W[i - 1] = Nobody THEN Nobody ELSE waitTid[W[i - 1]]
  BY WaitPathSteps
<1> HIDE DEF W
<1>2. \A i \in 1 .. Steps : W[i - 1] \in ts => W[i] = waitTid[W[i - 1]] /\ W[i] \in ts
  <2> SUFFICES ASSUME NEW i \in 1 .. Steps, W[i - 1] \in ts
               PROVE  W[i] = waitTid[W[i - 1]] /\ W[i] \in ts
    OBVIOUS
  <2>1. i - 1 \in 0 .. Steps
    BY <1>0
  <2> QED BY <1>0, <1>1, <2>1
<1>3. \A i \in 0 .. Steps : W[i] \in ts
  <2> DEFINE T == {i \in 0 .. Steps : W[i] \in ts}
  <2>1. 0 \in T
    BY <1>0, <1>1
  <2>2. ASSUME NEW k \in 0 .. Steps - 1, k \in T PROVE k + 1 \in T
    <3>1. k + 1 \in 1 .. Steps /\ k + 1 \in 0 .. Steps /\ k + 1 - 1 = k
      BY <1>0
    <3> QED BY <1>2, <2>2, <3>1
  <2> HIDE DEF T
  <2>3. \A k \in 0 .. Steps : k \in T
    BY <1>0, <2>1, <2>2, SetInduction
  <2> QED BY <2>3 DEF T
<1>4. PICK i, j \in 0 .. Steps : i < j /\ W[i] = W[j]
  <2> DEFINE f == [k \in 0 .. Steps |-> W[k]]
  <2>1. f \in [0 .. Steps -> Threads]
    BY <1>3
  <2>2. IsFiniteSet(0 .. Steps) /\ Cardinality(0 .. Steps) = Steps + 1
    BY <1>0, FS_Interval
  <2>3. Cardinality(Threads) < Cardinality(0 .. Steps)
    BY <1>0, <2>2 DEF Steps
  <2>4. \E x, y \in 0 .. Steps : x # y /\ f[x] = f[y]
    <3> HIDE DEF f
    <3> QED BY <1>0, <2>1, <2>2, <2>3, FS_PigeonHole
  <2>5. PICK x, y \in 0 .. Steps : x # y /\ W[x] = W[y]
    BY <2>4
  <2>6. x < y \/ y < x
    BY <1>0, <2>5
  <2> QED BY <2>5, <2>6
<1> DEFINE M == {W[k] : k \in i .. j - 1}
<1>5. M \in SUBSET Threads /\ M # {}
  <2>1. i \in i .. j - 1 /\ i .. j - 1 \subseteq 0 .. Steps
    BY <1>0, <1>4
  <2> QED BY <1>3, <2>1
<1>6. ASSUME NEW k \in i .. j - 1 PROVE waitTid[W[k]] \in M
  <2>1. k + 1 \in 1 .. Steps /\ k + 1 - 1 = k /\ k \in 0 .. Steps
    BY <1>0, <1>4
  <2>2. W[k + 1] = waitTid[W[k]]
    BY <1>2, <1>3, <2>1
  <2>3. CASE k + 1 = j
    <3>1. i \in i .. j - 1
      BY <1>0, <1>4
    <3> QED BY <1>4, <2>2, <2>3, <3>1
  <2>4. CASE k + 1 # j
    <3>1. k + 1 \in i .. j - 1
      BY <1>0, <1>4, <2>4
    <3> QED BY <2>2, <3>1
  <2> QED BY <2>3, <2>4
<1>7. \A q \in M : waitTid[q] \in M
  BY <1>6
<1> HIDE DEF M
<1> QED BY <1>5, <1>7 DEF WalkEnds

(* Links that are only cleared close no cycle.                                *)
LEMMA ClearedEnds ==
  ASSUME WalkEnds, \A q \in Threads : waitTid'[q] \in {waitTid[q], Nobody}
  PROVE  WalkEnds'
<1> SUFFICES ASSUME NEW ts \in SUBSET Threads, ts # {}, \A q \in ts : waitTid'[q] \in ts
             PROVE  FALSE
  BY DEF WalkEnds
<1>1. \A q \in ts : waitTid[q] \in ts
  BY NobodyAssumption
<1> QED BY <1>1 DEF WalkEnds

LEMMA WaitEnds ==
  ASSUME Types, WalkEnds, NEW t \in Threads, Wait(t)
  PROVE  WalkEnds'
<1> DEFINE u == tid[goal[t]]
<1>0. u \in Threads \cup {Nobody} /\ waitTid' = [waitTid EXCEPT ![t] = u]
  BY DEF Types, Wait
<1>1. DOMAIN WaitPath(u) = 0 .. Steps /\ \A i \in DOMAIN WaitPath(u) : WaitPath(u)[i] # t
  <2>1. ~ WouldDeadlock(u, t)
    BY DEF Wait
  <2> HIDE DEF u
  <2> QED BY <1>0, <2>1, WaitPathSteps DEF WouldDeadlock
<1> SUFFICES ASSUME NEW ts \in SUBSET Threads, ts # {}, \A q \in ts : waitTid'[q] \in ts
             PROVE  FALSE
  BY DEF WalkEnds
<1>2. \A q \in ts \ {t} : waitTid[q] \in ts
  BY <1>0 DEF Types
<1>3. CASE t \notin ts
  BY <1>2, <1>3 DEF WalkEnds
<1>4. CASE t \in ts
  <2>1. waitTid'[t] = u
    BY <1>0 DEF Types
  <2>2. u \in ts
    BY <1>4, <2>1
  <2> HIDE DEF u
  <2> QED BY <1>1, <1>2, <2>2, WalkLeaves
<1> QED BY <1>3, <1>4

LEMMA AdvanceEnds ==
  ASSUME Types, WalkEnds, NEW t \in Threads, Advance(t), waitTid[t] = Nobody,
         t \notin ToSet(victims[t])
  PROVE  WalkEnds'
<1>1. PICK v \in Threads : v = Head(victims[t])
  BY AdvanceVictim
<1>2. waitTid' = [waitTid EXCEPT ![v] = t]
  BY <1>1 DEF Advance, WaitsForLeader
<1>3. v # t
  <2>1. victims[t] \in Seq(Threads) /\ victims[t] # <<>>
    BY DEF Types, Advance
  <2>2. 1 \in DOMAIN victims[t] /\ v = victims[t][1]
    BY <1>1, <2>1
  <2>3. v \in ToSet(victims[t])
    BY <2>2 DEF ToSet
  <2> QED BY <2>3
<1> SUFFICES ASSUME NEW ts \in SUBSET Threads, ts # {}, \A q \in ts : waitTid'[q] \in ts
             PROVE  FALSE
  BY DEF WalkEnds
<1>4. t \notin ts
  BY <1>2, <1>3, NobodyAssumption DEF Types
<1>5. v \notin ts
  BY <1>2, <1>4 DEF Types
<1>6. \A q \in ts : waitTid[q] \in ts
  BY <1>2, <1>5 DEF Types
<1> QED BY <1>6 DEF WalkEnds

-----------------------------------------------------------------------------
(* A leader does not come to itself along its chain.                          *)
OthersChained == \A t \in Threads : t \notin ToSet(victims[t])
LinksInv == StackInv /\ OthersChained /\ WalkEnds

LEMMA ClearedLinks ==
  ASSUME OthersChained, WalkEnds, victims' = victims,
         \A q \in Threads : waitTid'[q] \in {waitTid[q], Nobody}
  PROVE  OthersChained' /\ WalkEnds'
BY ClearedEnds DEF OthersChained

LEMMA LinksStep ==
  ASSUME LinksInv, LeaderIsFree, [Next]_vars
  PROVE  LinksInv'
<1>0. Types /\ OthersChained /\ WalkEnds /\ StackInv /\ StackInv'
  BY StackStep DEF LinksInv, StackInv
<1> SUFFICES OthersChained' /\ WalkEnds'
  BY <1>0 DEF LinksInv
<1>1. ASSUME victims' = victims, waitTid' = waitTid PROVE OthersChained' /\ WalkEnds'
  BY <1>0, <1>1, ClearedLinks
<1>2. ASSUME NEW t \in Threads, Advance(t) PROVE OthersChained' /\ WalkEnds'
  <2>1. waitTid[t] = Nobody
    BY <1>2 DEF Advance, LeaderIsFree
  <2>2. WalkEnds'
    BY <1>0, <1>2, <2>1, AdvanceEnds DEF OthersChained
  <2>3. victims[t] \in Seq(Threads) /\ victims[t] # <<>>
    BY <1>0, <1>2 DEF Types, Advance
  <2>4. ToSet(Tail(victims[t])) \subseteq ToSet(victims[t])
    <3>1. \A i \in DOMAIN Tail(victims[t]) :
            i + 1 \in DOMAIN victims[t] /\ Tail(victims[t])[i] = victims[t][i + 1]
      BY <2>3
    <3> QED BY <3>1 DEF ToSet
  <2>5. OthersChained'
    BY <1>0, <1>2, <2>4, AdvanceVictim DEF OthersChained
  <2> QED BY <2>2, <2>5
<1>3. CASE UNCHANGED vars
  BY <1>1, <1>3 DEF vars, threadVars, waitVars
<1>4. CASE Next
  <2>1. PICK t \in Threads : Continue(t) \/ Spurious(t)
    BY <1>4 DEF Next
  <2>2. CASE CallNew(t) \/ CallCompleted(t) \/ CallGrabbed(t) \/ CallOwn(t) \/ CallForeign(t)
    BY <1>1, <2>2 DEF CallNew, CallCompleted, CallGrabbed, CallOwn, CallForeign, waitVars
  <2>3. CASE StopWaiting(t)
    <3>1. victims' = victims /\ waitTid' = [waitTid EXCEPT ![t] = Nobody]
      BY <2>3 DEF StopWaiting
    <3> QED BY <1>0, <3>1, ClearedLinks DEF Types
  <2>4. CASE Wait(t)
    <3>1. victims' = victims
      BY <2>4 DEF Wait
    <3> QED BY <1>0, <2>4, <3>1, WaitEnds DEF OthersChained
  <2>5. CASE Usurp(t)
    <3> DEFINE chain == Chain(tid[goal[t]], t)
    <3>1. /\ victims' = [victims EXCEPT ![t] = chain] /\ WouldDeadlock(tid[goal[t]], t)
          /\ waitTid' = [u \in Threads |-> IF u \in ToSet(chain) THEN Nobody ELSE waitTid[u]]
      BY <2>5 DEF Usurp
    <3>2. tid[goal[t]] \in Threads \cup {Nobody}
      BY <1>0 DEF Types
    <3>3. chain \in Seq(Threads) /\ \A i \in 1 .. Len(chain) : chain[i] # t
      BY <1>0, <3>1, <3>2, ChainOfThreads
    <3> HIDE DEF chain
    <3>4. t \notin ToSet(chain)
      BY <3>3 DEF ToSet
    <3>5. OthersChained'
      BY <1>0, <3>1, <3>4 DEF Types, OthersChained
    <3>6. \A q \in Threads : waitTid'[q] \in {waitTid[q], Nobody}
      BY <3>1
    <3> QED BY <1>0, <3>5, <3>6, ClearedEnds
  <2>6. CASE Spurious(t) \/ BackToCaller(t) \/ MarkCompleted(t) \/ Wake(t)
    BY <1>1, <2>6 DEF Spurious, BackToCaller, MarkCompleted, Wake, waitVars
  <2>7. CASE ResetNothing(t) \/ ResetThread(t) \/ ResetUndefined(t)
    BY <1>2, <2>7 DEF ResetNothing, ResetThread, ResetUndefined
  <2>8. CASE Lead(t) \/ LeadNegative(t)
    BY <1>1, <2>8 DEF Lead, LeadNegative
  <2>9. CASE \E s \in Subgoals : Resolve(t, s) \/ Negate(t, s)
    BY <1>1, <2>9 DEF Resolve, Negate, waitVars
  <2> QED
    BY <2>1, <2>2, <2>3, <2>4, <2>5, <2>6, <2>7, <2>8, <2>9 DEF Continue
<1> QED BY <1>3, <1>4

(* would_deadlock, which follows waiting_for_tid under completing_mut, comes  *)
(* to an end (deadlock.c:26): the one who would close a cycle does not wait   *)
(* but resets the others, who wait for it from then on.  It takes that it     *)
(* waits for nobody itself meanwhile.                                         *)
THEOREM WalksEnd == Spec /\ []LeaderIsFree => []WalkEnds
<1>1. Init => LinksInv
  <2> SUFFICES ASSUME Init PROVE LinksInv
    OBVIOUS
  <2>1. OthersChained
    BY DEF Init, OthersChained, ToSet
  <2>2. WalkEnds
    BY NobodyAssumption DEF Init, WalkEnds
  <2> QED BY <2>1, <2>2, InitStack DEF LinksInv
<1>2. LinksInv /\ LeaderIsFree /\ [Next]_vars => LinksInv'
  BY LinksStep
<1>3. LinksInv => WalkEnds
  BY DEF LinksInv
<1> QED BY <1>1, <1>2, <1>3, PTL DEF Spec
=============================================================================
