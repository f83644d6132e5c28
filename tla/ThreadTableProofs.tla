-------------------------- MODULE ThreadTableProofs --------------------------
(* TypeOK, ListsPartition and RunningOwnsEntry of ThreadTable, for a table    *)
(* that is never full, as long as no creation fails and no join meets a       *)
(* detach, or another join, of the same thread; when the incarnations of an   *)
(* entry suffice, that the table implements ThreadLife; and, when no detach   *)
(* comes while a thread exits, NoDanglingAlias and ExitBallsKept.             *)
EXTENDS ThreadTable, EntryLists

LEMMA SlotsAreFinite ==
  IsFiniteSet(Slots) /\ Cardinality(Slots) = NSlots /\ NULL \notin Slots
BY SlotsAssumption, FS_Interval DEF Slots, NULL

LEMMA WalkIsWalk ==
  ASSUME NEW tb, NEW p
  PROVE  IsWalk(NULL, tb.next, p, NSlots, Walk(tb, p))
<1>1. NSlots \in Nat
  BY SlotsAssumption
<1>0. \E w : IsWalk(NULL, tb.next, p, NSlots, w)
  BY <1>1, WalkExists
<1>2. \E w : w = [i \in 0 .. NSlots |-> IF i = 0 THEN p
                        ELSE IF w[i - 1] = NULL THEN NULL ELSE tb.next[w[i - 1]]]
  BY <1>0 DEF IsWalk
<1> DEFINE W == Walk(tb, p)
<1>3. W = CHOOSE w : w = [i \in 0 .. NSlots |-> IF i = 0 THEN p
                        ELSE IF w[i - 1] = NULL THEN NULL ELSE tb.next[w[i - 1]]]
  BY DEF Walk
<1> HIDE DEF W
<1>4. W = [i \in 0 .. NSlots |-> IF i = 0 THEN p
                        ELSE IF W[i - 1] = NULL THEN NULL ELSE tb.next[W[i - 1]]]
  BY <1>2, <1>3, Zenon
<1> QED BY <1>4 DEF W, IsWalk

-----------------------------------------------------------------------------
(* The assumptions.                                                           *)

(* The free list never runs empty.                                            *)
RoomLeft == MaxLive \in 1 .. NSlots - 1

(* No thread is on one of the error paths of thread_create, which call        *)
(* th_delete without th_mutex.                                                *)
NoFailedCreation == \A p \in PThreads : pc[p] \notin {"markfailed", "clash"}

(* No thread detaches one that another is joining, or joins itself or a       *)
(* thread that is joining it.                                                 *)
NoJoinRace ==
  \A p \in PThreads :
    /\ pc[p] = "detach" => joinid[req[p].tid] \notin PThreads
    /\ pc[p] = "join" => ~ WouldDeadlock(p, req[p].tid)

Undisturbed == NoFailedCreation /\ NoJoinRace

(* It is so when a single thread joins and detaches, and never itself.        *)
OneJoiner == SelfJoins = FALSE /\ \A p, q \in Joiners \cup Detachers : p = q

-----------------------------------------------------------------------------
(* The invariant.                                                             *)

Creating == {"counting", "alias", "spawn"}
Asking == {"join", "joining", "joined", "detach", "detached"}
Leaving == {"exit", "uncount", "uncount2", "gone"}
Labels == {"unborn", "born", "idle", "mark", "answer"} \cup Creating \cup Asking \cup Leaving

ReqType == [kind : {"none", "create", "exit", "join", "detach"}, h : Ids \cup {NoId},
            alias : Aliases \cup {Nobody}, detached : BOOLEAN,
            tid : PThreads \cup {Nobody}, aliased : BOOLEAN, ball : BOOLEAN]

TabType == [next : [Slots -> Entries], prev : [Slots -> Entries],
            free : Entries, last : Entries, first : Entries,
            incarn : [Slots -> 0 .. IncMask],
            valid : [Slots -> BOOLEAN], detached : [Slots -> BOOLEAN],
            exited : [Slots -> BOOLEAN], aliased : [Slots -> BOOLEAN],
            ball : [Slots -> BOOLEAN],
            ctxt : [Slots -> PThreads \cup {Nobody}],
            tid : [Slots -> PThreads \cup {Nobody}]]

RestTyped ==
  /\ joinid \in [PThreads -> PThreads \cup {Nobody, "detached", "joined"}]
  /\ thMutex \in PThreads \cup {Nobody}
  /\ aliasOf \in [Aliases -> Ids \cup {NoId}]
  /\ born \subseteq Ids /\ balls \in Seq(born) /\ returned \subseteq born \X born

TypeInv ==
  /\ tab \in TabType
  /\ pc \in [PThreads -> Labels]
  /\ req \in [PThreads -> ReqType]
  /\ self \in [PThreads -> Ids \cup {NoId}]
  /\ RestTyped
  /\ \A p \in PThreads :
       /\ pc[p] # "unborn" => self[p] \in born
       /\ pc[p] \in Creating \cup {"mark", "answer"} \cup Asking => req[p].h \in born
       /\ pc[p] = "alias" => req[p].alias \in Aliases

Live(tb) == Reach(tb, tb.first)
Unused(tb) == Reach(tb, tb.free)

Lists(tb, live, free) ==
  /\ IsList(Slots, NULL, tb.next, tb.first, live)
  /\ IsInverted(NULL, tb.next, tb.prev, tb.first, live)
  /\ IsList(Slots, NULL, tb.next, tb.free, free)
  /\ live \cap free = {} /\ live \cup free = Slots
  /\ tb.last \in free /\ tb.next[tb.last] = NULL
  /\ Cardinality(live) <= MaxLive
ListsInv == Lists(tab, Live(tab), Unused(tab))

(* From its creation until it exits detached, is joined, or is detached after *)
(* its exit, a thread holds its entry.                                        *)
Alive(q) == pc[q] \notin {"unborn", "uncount", "uncount2", "gone"}
Pending(q) == \E p \in PThreads : pc[p] \in {"joined", "detached"} /\ req[p].tid = q
Awaited(q) == joinid[q] \notin {"joined", "detached"}
Holds(q) == pc[q] # "unborn" /\ (Alive(q) \/ Awaited(q) \/ Pending(q))
Marked(q) == joinid[q] = "detached" /\ ~ Pending(q)
Starting(p) == pc[p] \in Creating

HolderAt(q) ==
  LET i == self[q].slot
  IN  /\ i \in Live(tab) /\ tab.incarn[i] = self[q].incarn /\ tab.tid[i] = q
      /\ Active(q) => tab.valid[i]
      /\ tab.exited[i] <=> ~ Alive(q)
      /\ tab.detached[i] <=> Marked(q)
HolderInv == \A q \in PThreads : Holds(q) => HolderAt(q)

StartingAt(p) ==
  LET i == req[p].h.slot
  IN  /\ i \in Live(tab) /\ tab.incarn[i] = req[p].h.incarn
      /\ ~ tab.exited[i] /\ tab.detached[i] = req[p].detached
StartingInv == \A p \in PThreads : Starting(p) => StartingAt(p)

OneHolder ==
  \A p, q \in PThreads :
    /\ p # q /\ Holds(p) /\ Holds(q) => self[p].slot # self[q].slot
    /\ p # q /\ Starting(p) /\ Starting(q) => req[p].h.slot # req[q].h.slot
    /\ Starting(p) /\ Holds(q) => req[p].h.slot # self[q].slot

(* The thread of an entry that was given up stays in its field tid.           *)
LastOwner ==
  \A i \in Slots : tab.tid[i] # Nobody => /\ pc[tab.tid[i]] # "unborn"
                                           /\ self[tab.tid[i]].slot = i

(* What a request to join or to detach knows of the thread, and the thread    *)
(* of the request.                                                            *)
AskerAt(p) ==
  LET q == req[p].tid
  IN  /\ pc[p] \in Asking => /\ p \in Joiners \cup Detachers
                             /\ q \in PThreads /\ pc[q] # "unborn"
      /\ pc[p] \in {"join", "detach"} => (Awaited(q) => self[q] = req[p].h)
      /\ pc[p] = "join" => SelfJoins \/ p # q
      /\ pc[p] = "joining" => joinid[q] = p /\ self[q] = req[p].h
      /\ pc[p] = "joined" => joinid[q] = "joined" /\ pc[q] = "gone" /\ self[q] = req[p].h
      /\ pc[p] = "detached" => joinid[q] = "detached" /\ self[q] = req[p].h
AskedAt(q) ==
  /\ joinid[q] \in PThreads => pc[joinid[q]] = "joining" /\ req[joinid[q]].tid = q
  /\ joinid[q] = "joined" => pc[q] = "gone"
AskInv ==
  /\ \A p \in PThreads : AskerAt(p) /\ AskedAt(p)
  /\ \A p, s \in PThreads : p # s /\ {pc[p], pc[s]} \subseteq {"joined", "detached"}
                              => req[p].tid # req[s].tid

TableInv ==
  TypeInv /\ ListsInv /\ HolderInv /\ StartingInv /\ OneHolder /\ LastOwner /\ AskInv

-----------------------------------------------------------------------------
(* The operations on the table.                                               *)

(* A walk from the head of a list meets the list and ends at NULL.            *)
LEMMA WalkIsList ==
  ASSUME NEW tb, NEW p, NEW L, IsList(Slots, NULL, tb.next, p, L)
  PROVE  /\ Reach(tb, p) = L /\ Walk(tb, p)[NSlots] = NULL
         /\ \A i \in 0 .. NSlots : Walk(tb, p)[i] \in L \cup {NULL}
<1>1. NSlots \in Nat /\ Cardinality(Slots) <= NSlots
  BY SlotsAssumption, SlotsAreFinite
<1> DEFINE w == Walk(tb, p)
<1>2. IsWalk(NULL, tb.next, p, NSlots, w)
  BY WalkIsWalk
<1> HIDE DEF w
<1>3. /\ {w[i] : i \in 0 .. NSlots} \ {NULL} = L /\ w[NSlots] = NULL
      /\ \A i \in 0 .. NSlots : w[i] \in L \cup {NULL}
  BY <1>1, <1>2, SlotsAreFinite, ListWalk, SMTT(30)
<1> QED BY <1>3 DEF w, Reach

LEMMA ListsAreReached ==
  ASSUME NEW tb, NEW live, NEW free, Lists(tb, live, free)
  PROVE  Live(tb) = live /\ Unused(tb) = free
BY WalkIsList DEF Lists, Live, Unused

(* Where th_new inserts an entry is in the list.                              *)
LEMMA BeforeIsListed ==
  ASSUME NEW tb \in TabType, NEW live, IsList(Slots, NULL, tb.next, tb.first, live),
         NEW pos \in Slots, tb.first # NULL
  PROVE  Before(tb, pos) \in live
<1> DEFINE w == Walk(tb, tb.first)
           End == {i \in 0 .. NSlots : w[i] = NULL}
           Here == {i \in 0 .. NSlots : w[i] # NULL /\ ~ tb.next[w[i]] > pos}
<1>1. NSlots \in Nat /\ NSlots # 0
  BY SlotsAssumption
<1>2. w[NSlots] = NULL /\ \A i \in 0 .. NSlots : w[i] \in live \cup {NULL}
  BY WalkIsList
<1>3. IsWalk(NULL, tb.next, tb.first, NSlots, w)
  BY WalkIsWalk
<1> HIDE DEF w
<1>4. w[0] = tb.first /\ \A i \in 1 .. NSlots :
        w[i] = IF w[i - 1] = NULL THEN NULL ELSE tb.next[w[i - 1]]
  BY <1>1, <1>3 DEF IsWalk
<1>5. PICK k \in End : \A i \in End : k <= i
  <2>1. End \subseteq Nat /\ End # {}
    BY <1>1, <1>2
  <2> QED BY <2>1, LeastNat
<1>6. k \in 1 .. NSlots /\ w[k - 1] # NULL
  BY <1>1, <1>4, <1>5
<1>7. k - 1 \in Here
  BY <1>1, <1>4, <1>5, <1>6 DEF NULL, Slots
<1>8. PICK i \in Here : \A j \in Here : i <= j
  <2>1. Here \subseteq Nat /\ Here # {}
    BY <1>1, <1>7
  <2> QED BY <2>1, LeastNat
<1>9. \A j \in 0 .. i - 1 : tb.next[w[j]] > pos
  BY <1>1, <1>5, <1>6, <1>7, <1>8
<1> DEFINE good(j) == /\ w[j] # NULL /\ ~ tb.next[w[j]] > pos
                      /\ \A m \in 0 .. j - 1 : tb.next[w[m]] > pos
           there == CHOOSE j \in 0 .. NSlots : good(j)
<1>10. \E j \in 0 .. NSlots : good(j)
  BY <1>8, <1>9
<1>11. there \in 0 .. NSlots /\ good(there)
  <2> HIDE DEF good
  <2> QED BY <1>10
<1>12. Before(tb, pos) = w[there]
  BY DEF Before, w
<1> QED BY <1>2, <1>11, <1>12

(* The fields besides the links of the list of threads.                      *)
SameStatus(tb, t1) ==
  /\ t1.incarn = tb.incarn /\ t1.detached = tb.detached /\ t1.exited = tb.exited
  /\ t1.aliased = tb.aliased /\ t1.ball = tb.ball /\ t1.ctxt = tb.ctxt /\ t1.tid = tb.tid
OnlyLinks(tb, t1) ==
  SameStatus(tb, t1) /\ t1.valid = tb.valid /\ t1.free = tb.free /\ t1.last = tb.last
LinksKept(tb, t1, S) == \A i \in S : t1.next[i] = tb.next[i]
StatusKept(tb, t1, S) ==
  \A i \in S : /\ t1.incarn[i] = tb.incarn[i] /\ t1.valid[i] = tb.valid[i]
               /\ t1.detached[i] = tb.detached[i] /\ t1.exited[i] = tb.exited[i]
IsFresh(tb, t1, pos, d) ==
  /\ t1.tid = tb.tid
  /\ t1.detached[pos] = d /\ t1.exited[pos] = FALSE
  /\ t1.incarn[pos] = NextIncarn(tb.incarn[pos])
  /\ StatusKept(tb, t1, Slots \ {pos})
IsNoted(tb, t1, pos, a) ==
  t1.aliased = [tb.aliased EXCEPT ![pos] = a] /\ t1.ball = [tb.ball EXCEPT ![pos] = FALSE]

(* The entry at pos joins the list of threads, and nothing else changes.      *)
LEMMA Inserted ==
  ASSUME NEW tb \in TabType, NEW live, NEW pos \in Slots, pos \notin live,
         IsList(Slots, NULL, tb.next, tb.first, live),
         IsInverted(NULL, tb.next, tb.prev, tb.first, live),
         NEW t1, t1 = InsertEntry(tb, pos)
  PROVE  /\ t1 \in TabType /\ OnlyLinks(tb, t1)
         /\ IsList(Slots, NULL, t1.next, t1.first, live \cup {pos})
         /\ IsInverted(NULL, t1.next, t1.prev, t1.first, live \cup {pos})
         /\ LinksKept(tb, t1, Slots \ (live \cup {pos}))
<1>1. NULL \notin Slots /\ live \subseteq Slots
  BY SlotsAreFinite DEF IsList
<1>2. CASE tb.first = NULL \/ tb.first > pos
  <2>1. t1 = AtHead(tb, pos)
    BY <1>2 DEF InsertEntry
  <2>2. /\ t1 \in TabType
        /\ OnlyLinks(tb, t1)
        /\ t1.first = pos /\ t1.next[pos] = tb.first
        /\ \A i \in Slots : i # pos => t1.next[i] = tb.next[i]
        /\ t1.prev[pos] = NULL
        /\ \A i \in Slots : i # pos => t1.prev[i] = IF i = tb.first THEN pos ELSE tb.prev[i]
    <3> DEFINE pv == [i \in Slots |-> IF i = pos THEN NULL
                                     ELSE IF i = tb.first THEN pos ELSE tb.prev[i]]
               nx == [tb.next EXCEPT ![pos] = tb.first]
    <3>1. t1 = [tb EXCEPT !.prev = pv, !.next = nx, !.first = pos]
      BY <2>1 DEF AtHead
    <3>2. tb.next \in [Slots -> Entries] /\ tb.prev \in [Slots -> Entries] /\ tb.first \in Entries
      BY DEF TabType
    <3>3. /\ nx \in [Slots -> Entries] /\ nx[pos] = tb.first
          /\ \A i \in Slots : i # pos => nx[i] = tb.next[i]
      BY <3>2
    <3>4. pv \in [Slots -> Entries] /\ pv[pos] = NULL
      BY <3>2 DEF Entries
    <3>5. \A i \in Slots : i # pos => pv[i] = IF i = tb.first THEN pos ELSE tb.prev[i]
      OBVIOUS
    <3> HIDE DEF pv, nx
    <3>6. t1.prev = pv /\ t1.next = nx /\ t1.first = pos
      BY <3>1 DEF TabType
    <3>7. t1 \in TabType
      BY <3>1, <3>3, <3>4 DEF TabType, Entries
    <3>8. OnlyLinks(tb, t1)
      BY <3>1 DEF TabType, OnlyLinks, SameStatus
    <3> QED BY <3>3, <3>4, <3>5, <3>6, <3>7, <3>8
  <2>3. IsList(Slots, NULL, t1.next, t1.first, live \cup {pos})
    BY <1>1, <2>2, ListPush
  <2>4. IsInverted(NULL, t1.next, t1.prev, t1.first, live \cup {pos})
    BY <1>1, <2>2, InvertedPush
  <2> QED BY <2>2, <2>3, <2>4 DEF LinksKept
<1>3. CASE ~ (tb.first = NULL \/ tb.first > pos)
  <2> DEFINE p == Before(tb, pos)
  <2>1. t1 = Behind(tb, p, pos)
    BY <1>3 DEF InsertEntry
  <2>2. p \in live
    BY <1>3, BeforeIsListed
  <2> HIDE DEF p
  <2>3. /\ t1 \in TabType
        /\ OnlyLinks(tb, t1)
        /\ t1.first = tb.first /\ t1.next[pos] = tb.next[p] /\ t1.next[p] = pos
        /\ \A i \in Slots : i # pos /\ i # p => t1.next[i] = tb.next[i]
        /\ t1.prev[pos] = p
        /\ \A i \in Slots : i # pos => t1.prev[i] = IF i = tb.next[p] THEN pos ELSE tb.prev[i]
    <3> DEFINE pv == [i \in Slots |-> IF i = pos THEN p
                                     ELSE IF i = tb.next[p] THEN pos ELSE tb.prev[i]]
               nx == [tb.next EXCEPT ![pos] = tb.next[p], ![p] = pos]
    <3>1. t1 = [tb EXCEPT !.prev = pv, !.next = nx]
      BY <2>1 DEF Behind
    <3>2. p \in Slots /\ p # pos /\ tb.next \in [Slots -> Entries] /\ tb.prev \in [Slots -> Entries]
      BY <1>1, <2>2 DEF TabType
    <3>3. /\ nx \in [Slots -> Entries] /\ nx[pos] = tb.next[p] /\ nx[p] = pos
          /\ \A i \in Slots : i # pos /\ i # p => nx[i] = tb.next[i]
      BY <3>2 DEF Entries
    <3>4. pv \in [Slots -> Entries] /\ pv[pos] = p
      BY <3>2 DEF Entries
    <3>5. \A i \in Slots : i # pos => pv[i] = IF i = tb.next[p] THEN pos ELSE tb.prev[i]
      OBVIOUS
    <3> HIDE DEF pv, nx
    <3>6. t1.prev = pv /\ t1.next = nx /\ t1.first = tb.first
      BY <3>1 DEF TabType
    <3>7. t1 \in TabType
      BY <3>1, <3>3, <3>4 DEF TabType
    <3>8. OnlyLinks(tb, t1)
      BY <3>1 DEF TabType, OnlyLinks, SameStatus
    <3> QED BY <3>3, <3>4, <3>5, <3>6, <3>7, <3>8
  <2>4. IsList(Slots, NULL, t1.next, t1.first, live \cup {pos})
    <3>1. NULL \notin Slots /\ IsList(Slots, NULL, tb.next, tb.first, live)
          /\ pos \in Slots /\ pos \notin live
      BY <1>1
    <3>2. t1.next[pos] = tb.next[p] /\ t1.next[p] = pos
          /\ \A i \in live : i # p => t1.next[i] = tb.next[i]
      BY <1>1, <2>3
    <3>3. IsList(Slots, NULL, t1.next, tb.first, live \cup {pos})
      BY ONLY <2>2, <3>1, <3>2, ListInsert
    <3> QED BY <2>3, <3>3
  <2>5. IsInverted(NULL, t1.next, t1.prev, t1.first, live \cup {pos})
    <3>1. /\ \A i \in live : i # p => t1.next[i] = tb.next[i]
          /\ \A i \in live : t1.prev[i] = IF i = tb.next[p] THEN pos ELSE tb.prev[i]
      BY <1>1, <2>3
    <3>2. t1.first = tb.first /\ t1.next[pos] = tb.next[p] /\ t1.next[p] = pos /\ t1.prev[pos] = p
      BY <2>3
    <3> DEFINE next == tb.next  prev == tb.prev  nx == t1.next  pv == t1.prev
    <3>3. /\ IsList(Slots, NULL, next, tb.first, live)
          /\ IsInverted(NULL, next, prev, tb.first, live)
          /\ nx[pos] = next[p] /\ nx[p] = pos /\ pv[pos] = p
          /\ \A i \in live : i # p => nx[i] = next[i]
          /\ \A i \in live : pv[i] = IF i = next[p] THEN pos ELSE prev[i]
      BY <3>1, <3>2
    <3> HIDE DEF next, prev, nx, pv
    <3>4. IsInverted(NULL, nx, pv, tb.first, live \cup {pos})
      BY <1>1, <2>2, <3>3, InvertedInsert
    <3> QED BY <3>2, <3>4 DEF nx, pv
  <2> QED BY <1>1, <2>2, <2>3, <2>4, <2>5 DEF LinksKept
<1> QED BY <1>2, <1>3

LEMMA StatusTyped ==
  ASSUME NEW tb \in TabType, NEW in \in [Slots -> 0 .. IncMask], NEW dt \in [Slots -> BOOLEAN],
         NEW al \in [Slots -> BOOLEAN], NEW ct \in [Slots -> PThreads \cup {Nobody}],
         NEW ex \in [Slots -> BOOLEAN], NEW va \in [Slots -> BOOLEAN],
         NEW ba \in [Slots -> BOOLEAN]
  PROVE  [tb EXCEPT !.ctxt = ct, !.incarn = in, !.detached = dt, !.aliased = al,
                    !.exited = ex, !.valid = va, !.ball = ba] \in TabType
BY DEF TabType

(* th_new, when the free list has more than one entry.                        *)
LEMMA ThNewLists ==
  ASSUME RoomLeft, NEW tb \in TabType, NEW live, NEW free, Lists(tb, live, free),
         Cardinality(live) < MaxLive,
         NEW p \in PThreads \cup {Nobody}, NEW d, d \in BOOLEAN, NEW a, a \in BOOLEAN,
         NEW pos, pos = tb.free, NEW t2, t2 = ThNew(tb, p, d, a)
  PROVE  /\ pos \in free /\ pos \in Slots
         /\ t2 \in TabType /\ Lists(t2, live \cup {pos}, free \ {pos})
         /\ IsFresh(tb, t2, pos, d) /\ IsNoted(tb, t2, pos, a)
<1> DEFINE t0 == [tb EXCEPT !.free = tb.next[pos]]
           t1 == InsertEntry(t0, pos)
<1>1. /\ NULL \notin Slots /\ IsFiniteSet(Slots) /\ Cardinality(Slots) = NSlots
      /\ live \subseteq Slots /\ free \subseteq Slots /\ live \cap free = {}
      /\ live \cup free = Slots /\ NSlots \in Nat /\ MaxLive \in 1 .. NSlots - 1
  BY SlotsAreFinite, SlotsAssumption DEF Lists, IsList, RoomLeft
<1>2. pos \in free /\ pos \in Slots
  BY <1>1 DEF Lists, IsList
<1>3. /\ Cardinality(live \cup {pos}) <= MaxLive
      /\ free \ {pos} # {}
  <2>1. IsFiniteSet(live) /\ Cardinality(live) \in Nat
    BY <1>1, FS_Subset, FS_CardinalityType
  <2>2. Cardinality(live \cup {pos}) = Cardinality(live) + 1
    BY <1>1, <1>2, <2>1, FS_AddElement
  <2>3. Cardinality(live \cup {pos}) < Cardinality(Slots)
    BY <1>1, <2>1, <2>2
  <2>4. live \cup {pos} # Slots
    <3> SUFFICES ASSUME live \cup {pos} = Slots PROVE FALSE
      OBVIOUS
    <3>1. Cardinality(live \cup {pos}) = Cardinality(Slots)
      OBVIOUS
    <3> QED BY <1>1, <2>1, <2>2, <2>3, <3>1
  <2>5. Cardinality(live \cup {pos}) <= MaxLive
    BY <1>1, <2>1, <2>2
  <2> QED BY <1>1, <1>2, <2>4, <2>5
<1>4. t0 \in TabType
  BY <1>2 DEF TabType
<1>5. IsList(Slots, NULL, tb.next, tb.next[pos], free \ {pos})
  <2>1. IsList(Slots, NULL, tb.next, pos, free)
    BY DEF Lists
  <2> DEFINE nx == tb.next
  <2>2. IsList(Slots, NULL, nx, nx[pos], free \ {pos})
    <3> HIDE DEF nx
    <3>1. IsList(Slots, NULL, nx, pos, free)
      BY <2>1 DEF nx
    <3> QED BY <1>1, <1>2, <3>1, ListRemove
  <2> QED BY <2>2
<1>6. tb.next[pos] # NULL /\ tb.last \in free \ {pos}
  BY <1>3, <1>5 DEF IsList, Lists
<1>7. /\ IsList(Slots, NULL, t0.next, t0.first, live)
      /\ IsInverted(NULL, t0.next, t0.prev, t0.first, live)
  BY DEF Lists, TabType
<1>8. /\ t1 \in TabType
      /\ OnlyLinks(t0, t1)
      /\ IsList(Slots, NULL, t1.next, t1.first, live \cup {pos})
      /\ IsInverted(NULL, t1.next, t1.prev, t1.first, live \cup {pos})
      /\ LinksKept(t0, t1, Slots \ (live \cup {pos}))
  <2>1. pos \notin live
    BY <1>1, <1>2
  <2> HIDE DEF t0
  <2>2. t1 = InsertEntry(t0, pos)
    OBVIOUS
  <2> HIDE DEF t1
  <2> QED BY <2>2, <1>2, <1>4, <1>7, <2>1, Inserted
<1>9. t2 = [t1 EXCEPT !.ctxt[pos] = p, !.incarn[pos] = NextIncarn(@),
                 !.detached[pos] = d, !.aliased[pos] = a,
                 !.exited[pos] = FALSE, !.valid[pos] = FALSE, !.ball[pos] = FALSE]
  BY DEF ThNew
<1>10. \A n \in 0 .. IncMask : NextIncarn(n) \in 0 .. IncMask
  BY SlotsAssumption DEF NextIncarn
<1> HIDE DEF t1
<1>11. /\ t2 \in TabType
       /\ t2.next = t1.next /\ t2.prev = t1.prev /\ t2.first = t1.first
       /\ t2.free = t1.free /\ t2.last = t1.last /\ t2.tid = t1.tid
       /\ t2.detached[pos] = d /\ t2.exited[pos] = FALSE
       /\ t2.incarn[pos] = NextIncarn(t1.incarn[pos])
       /\ StatusKept(t1, t2, Slots \ {pos}) /\ IsNoted(t1, t2, pos, a)
  <2>1. t1.incarn[pos] \in 0 .. IncMask /\ NextIncarn(t1.incarn[pos]) \in 0 .. IncMask
    BY <1>2, <1>8, <1>10 DEF TabType
  <2>2. t1 \in TabType
    BY <1>8
  <2>3. t2 \in TabType
    <3> DEFINE in == [t1.incarn EXCEPT ![pos] = NextIncarn(@)]
               dt == [t1.detached EXCEPT ![pos] = d]
               al == [t1.aliased EXCEPT ![pos] = a]
               ct == [t1.ctxt EXCEPT ![pos] = p]
               ex == [t1.exited EXCEPT ![pos] = FALSE]
               va == [t1.valid EXCEPT ![pos] = FALSE]
               ba == [t1.ball EXCEPT ![pos] = FALSE]
    <3>1. t2 = [t1 EXCEPT !.ctxt = ct, !.incarn = in, !.detached = dt, !.aliased = al,
                          !.exited = ex, !.valid = va, !.ball = ba]
      BY <1>9
    <3>2. in \in [Slots -> 0 .. IncMask]
      BY <1>2, <2>1, <2>2 DEF TabType
    <3>3. /\ dt \in [Slots -> BOOLEAN] /\ al \in [Slots -> BOOLEAN]
          /\ ex \in [Slots -> BOOLEAN] /\ va \in [Slots -> BOOLEAN]
          /\ ba \in [Slots -> BOOLEAN]
      BY <1>2, <2>2 DEF TabType
    <3>4. ct \in [Slots -> PThreads \cup {Nobody}]
      BY <1>2, <2>2 DEF TabType
    <3> HIDE DEF in, dt, al, ct, ex, va, ba, t0
    <3>5. [t1 EXCEPT !.ctxt = ct, !.incarn = in, !.detached = dt, !.aliased = al,
                     !.exited = ex, !.valid = va, !.ball = ba] \in TabType
      BY <2>2, <3>2, <3>3, <3>4, StatusTyped
    <3> QED BY <3>1, <3>5
  <2>4. /\ t2.next = t1.next /\ t2.prev = t1.prev /\ t2.first = t1.first
        /\ t2.free = t1.free /\ t2.last = t1.last /\ t2.tid = t1.tid
    BY <1>9, <2>2 DEF TabType
  <2>5. /\ t2.detached[pos] = d /\ t2.exited[pos] = FALSE
        /\ t2.incarn[pos] = NextIncarn(t1.incarn[pos])
    BY <1>2, <1>9, <2>2 DEF TabType
  <2>6. StatusKept(t1, t2, Slots \ {pos})
    BY <1>9, <2>2 DEF TabType, StatusKept
  <2>7. IsNoted(t1, t2, pos, a)
    BY <1>9, <2>2 DEF TabType, IsNoted
  <2> QED BY <2>3, <2>4, <2>5, <2>6, <2>7
<1>12. /\ t1.free = tb.next[pos] /\ t1.last = tb.last /\ t1.tid = tb.tid
       /\ t1.incarn = tb.incarn /\ t1.valid = tb.valid
       /\ t1.detached = tb.detached /\ t1.exited = tb.exited
       /\ t1.aliased = tb.aliased /\ t1.ball = tb.ball
       /\ \A i \in free \ {pos} : t1.next[i] = tb.next[i]
  BY <1>1, <1>8 DEF TabType, OnlyLinks, SameStatus, LinksKept
<1>13. IsList(Slots, NULL, t2.next, t2.free, free \ {pos})
  BY <1>5, <1>11, <1>12, ListKept
<1>14. Lists(t2, live \cup {pos}, free \ {pos})
  BY <1>1, <1>2, <1>3, <1>6, <1>8, <1>11, <1>12, <1>13 DEF Lists
<1> QED BY <1>2, <1>11, <1>12, <1>14 DEF StatusKept, IsFresh, IsNoted

(* th_delete.                                                                 *)
LEMMA UnlinkTyped ==
  ASSUME NEW tb \in TabType, NEW x \in Slots, NEW t1, t1 = Unlink(tb, x)
  PROVE  /\ t1 \in TabType /\ SameStatus(tb, t1) /\ t1.valid = tb.valid
         /\ t1.free = tb.free /\ t1.last = tb.last
         /\ t1.first = (IF tb.first = x THEN tb.next[x] ELSE tb.first)
         /\ t1.next = [j \in Slots |-> IF j = tb.prev[x] THEN tb.next[x] ELSE tb.next[j]]
         /\ t1.prev = [j \in Slots |-> IF j = tb.next[x] THEN tb.prev[x] ELSE tb.prev[j]]
<1> DEFINE nx == [j \in Slots |-> IF j = tb.prev[x] THEN tb.next[x] ELSE tb.next[j]]
           pv == [j \in Slots |-> IF j = tb.next[x] THEN tb.prev[x] ELSE tb.prev[j]]
           hd == IF tb.first = x THEN tb.next[x] ELSE tb.first
           t0 == [tb EXCEPT !.next = nx, !.first = hd]
<1>1. UnlinkForwardOnly(tb, x) = t0
  BY DEF UnlinkForwardOnly
<1>2. t0.next = nx /\ t0.prev = tb.prev /\ t0.first = hd
  BY DEF TabType
<1>3. nx \in [Slots -> Entries] /\ pv \in [Slots -> Entries] /\ hd \in Entries
  BY DEF TabType
<1>4. t1 = [tb EXCEPT !.next = nx, !.first = hd, !.prev = pv]
  <2>1. t1 = [t0 EXCEPT !.prev = [j \in Slots |-> IF j = tb.next[x] THEN tb.prev[x]
                                                  ELSE t0.prev[j]]]
    BY <1>1 DEF Unlink
  <2> HIDE DEF nx, hd
  <2>2. t1 = [t0 EXCEPT !.prev = pv]
    BY <1>2, <2>1
  <2> QED BY <2>2 DEF TabType
<1> HIDE DEF nx, pv, hd
<1>5. t1 \in TabType
  BY <1>3, <1>4 DEF TabType
<1>6. SameStatus(tb, t1) /\ t1.valid = tb.valid /\ t1.free = tb.free /\ t1.last = tb.last
  BY <1>4 DEF TabType, SameStatus
<1>7. t1.first = hd /\ t1.next = nx /\ t1.prev = pv
  BY <1>4 DEF TabType
<1> QED BY <1>5, <1>6, <1>7 DEF nx, pv, hd

LEMMA ToFreeTyped ==
  ASSUME NEW tb \in TabType, NEW x \in Slots, tb.free # NULL, tb.last \in Slots, tb.last # x,
         NEW t1, t1 = ToFree(tb, x)
  PROVE  /\ t1 \in TabType /\ SameStatus(tb, t1) /\ t1.valid = [tb.valid EXCEPT ![x] = FALSE]
         /\ t1.free = tb.free /\ t1.last = x /\ t1.first = tb.first /\ t1.prev = tb.prev
         /\ t1.next = [tb.next EXCEPT ![tb.last] = x, ![x] = NULL]
<1> DEFINE nx == [tb.next EXCEPT ![tb.last] = x, ![x] = NULL]
           va == [tb.valid EXCEPT ![x] = FALSE]
<1>1. t1 = [[tb EXCEPT !.next = nx, !.last = x] EXCEPT !.valid[x] = FALSE]
  BY DEF ToFree, ToFreeStillValid
<1>2. nx \in [Slots -> Entries] /\ va \in [Slots -> BOOLEAN]
  BY DEF TabType, Entries
<1>3. t1 = [tb EXCEPT !.next = nx, !.last = x, !.valid = va]
  <2> HIDE DEF nx
  <2> QED BY <1>1 DEF TabType
<1> HIDE DEF nx, va
<1>4. t1 \in TabType
  BY <1>2, <1>3 DEF TabType, Entries
<1>5. SameStatus(tb, t1) /\ t1.free = tb.free /\ t1.first = tb.first /\ t1.prev = tb.prev
  BY <1>3 DEF TabType, SameStatus
<1>6. t1.valid = va /\ t1.last = x /\ t1.next = nx
  BY <1>3 DEF TabType
<1> QED BY <1>4, <1>5, <1>6 DEF nx, va

IsDeleted(tb, t1, x) == SameStatus(tb, t1) /\ t1.valid = [tb.valid EXCEPT ![x] = FALSE]

LEMMA ThDeleteLists ==
  ASSUME NEW tb \in TabType, NEW live, NEW free, Lists(tb, live, free), NEW x \in live,
         NEW t2, t2 = ThDelete(tb, x)
  PROVE  /\ t2 \in TabType /\ Lists(t2, live \ {x}, free \cup {x})
         /\ IsDeleted(tb, t2, x)
<1> DEFINE t1 == Unlink(tb, x)
<1>1. /\ NULL \notin Slots /\ IsFiniteSet(Slots) /\ live \subseteq Slots /\ free \subseteq Slots
      /\ live \cap free = {} /\ live \cup free = Slots /\ x \in Slots /\ x \notin free
      /\ tb.last \in free /\ tb.next[tb.last] = NULL
  BY SlotsAreFinite DEF Lists, IsList
<1>2. /\ t1 \in TabType /\ SameStatus(tb, t1) /\ t1.valid = tb.valid
      /\ t1.free = tb.free /\ t1.last = tb.last
      /\ t1.first = (IF tb.first = x THEN tb.next[x] ELSE tb.first)
      /\ t1.next = [j \in Slots |-> IF j = tb.prev[x] THEN tb.next[x] ELSE tb.next[j]]
      /\ t1.prev = [j \in Slots |-> IF j = tb.next[x] THEN tb.prev[x] ELSE tb.prev[j]]
  BY <1>1, UnlinkTyped
<1> HIDE DEF t1
<1>3. t2 = ToFree(t1, x)
  BY DEF ThDelete, t1
<1>4. tb.free # NULL /\ tb.last # x /\ tb.last \in Slots
  BY <1>1 DEF Lists, IsList
<1>5. /\ t2 \in TabType /\ SameStatus(t1, t2) /\ t2.valid = [t1.valid EXCEPT ![x] = FALSE]
      /\ t2.free = t1.free /\ t2.last = x /\ t2.first = t1.first /\ t2.prev = t1.prev
      /\ t2.next = [t1.next EXCEPT ![t1.last] = x, ![x] = NULL]
  <2>1. x \in Slots /\ t1 \in TabType
    BY <1>1, <1>2
  <2>2. t1.free # NULL /\ t1.last \in Slots /\ t1.last # x
    BY <1>2, <1>4
  <2> QED BY <2>1, <2>2, <1>3, ToFreeTyped
<1> DEFINE next == tb.next  prev == tb.prev  nx == t2.next  pv == t2.prev
<1>6. /\ nx[x] = NULL /\ nx[tb.last] = x
      /\ \A j \in Slots : j # x /\ j # tb.last =>
           nx[j] = IF j = prev[x] THEN next[x] ELSE next[j]
      /\ \A j \in Slots : pv[j] = IF j = next[x] THEN prev[x] ELSE prev[j]
  BY <1>1, <1>2, <1>4, <1>5 DEF TabType
<1>7. prev[x] \notin free
  <2>1. IsList(Slots, NULL, next, tb.first, live) /\ IsInverted(NULL, next, prev, tb.first, live)
    BY DEF Lists
  <2> HIDE DEF next, prev
  <2>2. x = tb.first => prev[x] = NULL
    BY <2>1 DEF IsInverted
  <2>3. x # tb.first => prev[x] \in live
    BY <1>1, <2>1 DEF IsInverted, IsList
  <2> QED BY <1>1, <2>2, <2>3
<1>8. /\ IsList(Slots, NULL, nx, t2.first, live \ {x})
      /\ IsInverted(NULL, nx, pv, t2.first, live \ {x})
  <2>1. IsList(Slots, NULL, next, tb.first, live) /\ IsInverted(NULL, next, prev, tb.first, live)
    BY DEF Lists
  <2>2. t2.first = (IF tb.first = x THEN next[x] ELSE tb.first)
    BY <1>2, <1>5
  <2> HIDE DEF next, prev, nx, pv
  <2>3. /\ \A i \in live \ {x} : nx[i] = IF i = prev[x] THEN next[x] ELSE next[i]
        /\ \A i \in live \ {x} : pv[i] = IF i = next[x] THEN prev[x] ELSE prev[i]
    BY <1>1, <1>6
  <2> DEFINE head == tb.first  hd == t2.first
  <2> HIDE DEF head, hd
  <2>4. /\ IsList(Slots, NULL, next, head, live) /\ IsInverted(NULL, next, prev, head, live)
        /\ hd = IF head = x THEN next[x] ELSE head
    BY <2>1, <2>2 DEF head, hd
  <2>5. TakesOut(x, next, prev, head, live, nx, pv, hd)
    BY <2>3, <2>4 DEF TakesOut
  <2>6. /\ IsList(Slots, NULL, nx, hd, live \ {x})
        /\ IsInverted(NULL, nx, pv, hd, live \ {x})
    BY <1>1, <2>4, <2>5, Unlinked
  <2> QED BY <2>6 DEF hd
<1>9. IsList(Slots, NULL, nx, tb.free, free \cup {x})
  <2>1. IsList(Slots, NULL, next, tb.free, free) /\ next[tb.last] = NULL
    BY <1>1 DEF Lists
  <2> HIDE DEF next, prev, nx, pv
  <2>2. \A i \in free : i # tb.last => nx[i] = next[i]
    BY <1>1, <1>6, <1>7
  <2> QED BY <1>1, <1>6, <2>1, <2>2, ListAppend
<1>10. Cardinality(live \ {x}) <= MaxLive
  <2>1. IsFiniteSet(live) /\ Cardinality(live) \in Nat /\ Cardinality(live) <= MaxLive
    BY <1>1, FS_Subset, FS_CardinalityType DEF Lists
  <2>2. Cardinality(live \ {x}) = Cardinality(live) - 1
    BY <2>1, FS_RemoveElement
  <2> QED BY <2>1, <2>2, SlotsAssumption
<1>11. Lists(t2, live \ {x}, free \cup {x})
  BY <1>1, <1>2, <1>5, <1>6, <1>8, <1>9, <1>10 DEF Lists
<1>12. SameStatus(tb, t2)
  BY <1>2, <1>5 DEF SameStatus
<1> QED BY <1>2, <1>5, <1>11, <1>12 DEF IsDeleted

(* Balls that are retracted leave a sequence of the others.                   *)
LEMMA SeqMonotone ==
  ASSUME NEW S, NEW T, S \subseteq T, NEW s \in Seq(S)
  PROVE  s \in Seq(T)
OBVIOUS

LEMMA PushedTyped ==
  ASSUME NEW S, NEW s \in Seq(S), NEW x \in S
  PROVE  <<x>> \o s \in Seq(S)
<1>1. <<x>> \in Seq(S)
  OBVIOUS
<1> QED BY <1>1

KeptAt(b, h, k, i) == IF b[i] = h THEN k[i - 1] ELSE Append(k[i - 1], b[i])
IsKept(b, h, n, k) == k = [i \in 0 .. n |-> IF i = 0 THEN <<>> ELSE KeptAt(b, h, k, i)]
KeptUpto(b, h, S, m, k) ==
  k \in [0 .. m -> Seq(S)] /\ k[0] = <<>> /\ \A i \in 1 .. m : k[i] = KeptAt(b, h, k, i)

LEMMA KeptNext ==
  ASSUME NEW b, NEW h, NEW S, NEW m \in Nat, b[m + 1] \in S, NEW k, KeptUpto(b, h, S, m, k)
  PROVE  \E f : KeptUpto(b, h, S, m + 1, f)
<1> DEFINE x == KeptAt(b, h, k, m + 1)
           f == [i \in 0 .. m + 1 |-> IF i = m + 1 THEN x ELSE k[i]]
<1>1. k[m] \in Seq(S)
  BY DEF KeptUpto
<1>2. x \in Seq(S)
  <2>1. (m + 1) - 1 = m
    OBVIOUS
  <2>2. x = IF b[m + 1] = h THEN k[m] ELSE Append(k[m], b[m + 1])
    BY <2>1 DEF KeptAt
  <2> HIDE DEF x
  <2> QED BY <1>1, <2>2
<1> HIDE DEF x
<1>3. f \in [0 .. m + 1 -> Seq(S)]
  BY <1>2 DEF KeptUpto
<1>4. f[m + 1] = x /\ \A i \in 0 .. m : f[i] = k[i]
  OBVIOUS
<1> HIDE DEF f
<1>5. ASSUME NEW i \in 1 .. m + 1
      PROVE  f[i] = KeptAt(b, h, f, i)
  <2>1. f[i - 1] = k[i - 1]
    BY <1>4
  <2>2. KeptAt(b, h, f, i) = KeptAt(b, h, k, i)
    BY <2>1 DEF KeptAt
  <2>3. CASE i = m + 1
    BY <1>4, <2>2, <2>3 DEF x
  <2>4. CASE i # m + 1
    <3>1. i \in 1 .. m
      BY <2>4
    <3>2. f[i] = k[i] /\ k[i] = KeptAt(b, h, k, i)
      BY <1>4, <3>1 DEF KeptUpto
    <3> QED BY <2>2, <3>2
  <2> QED BY <2>3, <2>4
<1>6. f[0] = <<>>
  BY <1>4 DEF KeptUpto
<1>7. KeptUpto(b, h, S, m + 1, f)
  BY <1>3, <1>5, <1>6 DEF KeptUpto
<1> QED BY <1>7

LEMMA KeptExists ==
  ASSUME NEW b, NEW h, NEW S, NEW n \in Nat, \A i \in 1 .. n : b[i] \in S
  PROVE  \E k : KeptUpto(b, h, S, n, k)
<1> DEFINE T == {m \in 0 .. n : \E k : KeptUpto(b, h, S, m, k)}
<1>1. 0 \in T
  <2> DEFINE k == [i \in 0 .. 0 |-> <<>>]
  <2>1. k \in [0 .. 0 -> Seq(S)] /\ k[0] = <<>>
    OBVIOUS
  <2> HIDE DEF k
  <2>2. KeptUpto(b, h, S, 0, k)
    BY <2>1 DEF KeptUpto
  <2> QED BY <2>2
<1>2. \A m \in 0 .. n - 1 : m \in T => m + 1 \in T
  <2> TAKE m \in 0 .. n - 1
  <2> HAVE m \in T
  <2>1. PICK k : KeptUpto(b, h, S, m, k)
    OBVIOUS
  <2>2. m \in Nat /\ m + 1 \in 0 .. n /\ b[m + 1] \in S
    OBVIOUS
  <2>3. \E f : KeptUpto(b, h, S, m + 1, f)
    BY <2>1, <2>2, KeptNext
  <2> QED BY <2>2, <2>3
<1> HIDE DEF T
<1>3. n \in T
  BY <1>1, <1>2, SetInduction
<1> QED BY <1>3 DEF T

LEMMA KeptSteps ==
  ASSUME NEW b, NEW h, NEW n \in Nat, NEW k, IsKept(b, h, n, k)
  PROVE  k[0] = <<>> /\ \A i \in 1 .. n : k[i] = KeptAt(b, h, k, i)
<1> DEFINE e(i) == KeptAt(b, h, k, i)
<1>1. k = [i \in 0 .. n |-> IF i = 0 THEN <<>> ELSE e(i)]
  BY DEF IsKept
<1> HIDE DEF e
<1>2. k[0] = <<>> /\ \A i \in 1 .. n : k[i] = e(i)
  BY <1>1
<1> QED BY <1>2 DEF e

LEMMA KeptTyped ==
  ASSUME NEW b, NEW h, NEW S, NEW n \in Nat, \A i \in 1 .. n : b[i] \in S,
         NEW k, IsKept(b, h, n, k)
  PROVE  k[n] \in Seq(S)
<1> DEFINE T == {i \in 0 .. n : k[i] \in Seq(S)}
<1>1. k[0] = <<>> /\ \A i \in 1 .. n : k[i] = KeptAt(b, h, k, i)
  BY KeptSteps
<1>2. 0 \in T
  <2>1. <<>> \in Seq(S) /\ 0 \in 0 .. n
    OBVIOUS
  <2>2. k[0] \in Seq(S)
    BY <1>1, <2>1, Zenon
  <2> QED BY <2>1, <2>2
<1>3. \A m \in 0 .. n - 1 : m \in T => m + 1 \in T
  <2> TAKE m \in 0 .. n - 1
  <2> HAVE m \in T
  <2>1. m + 1 \in 1 .. n /\ b[m + 1] \in S /\ k[m] \in Seq(S) /\ (m + 1) - 1 = m
    OBVIOUS
  <2>2. k[m + 1] = IF b[m + 1] = h THEN k[m] ELSE Append(k[m], b[m + 1])
    BY <1>1, <2>1 DEF KeptAt
  <2>3. k[m + 1] \in Seq(S)
    BY <2>1, <2>2
  <2> QED BY <2>1, <2>3
<1> HIDE DEF T
<1>4. n \in T
  BY <1>2, <1>3, SetInduction
<1> QED BY <1>4 DEF T

LEMMA Retracted ==
  ASSUME NEW S, balls \in Seq(S), NEW h
  PROVE  \E k : IsKept(balls, h, Len(balls), k) /\ RetractBalls(h) = k[Len(balls)]
<1> DEFINE n == Len(balls)
           kept == CHOOSE k : IsKept(balls, h, n, k)
<1>1. n \in Nat /\ \A i \in 1 .. n : balls[i] \in S
  OBVIOUS
<1>2. RetractBalls(h) = kept[n]
  BY DEF RetractBalls, IsKept, KeptAt
<1> HIDE DEF n
<1>3. PICK f : KeptUpto(balls, h, S, n, f)
  BY <1>1, KeptExists
<1>4. IsKept(balls, h, n, f)
  <2> DEFINE e(i) == KeptAt(balls, h, f, i)
  <2>1. f \in [0 .. n -> Seq(S)] /\ f[0] = <<>> /\ \A i \in 1 .. n : f[i] = e(i)
    BY <1>3 DEF KeptUpto
  <2> HIDE DEF e
  <2>2. f = [i \in 0 .. n |-> IF i = 0 THEN <<>> ELSE e(i)]
    BY <1>1, <2>1
  <2> QED BY <2>2 DEF IsKept, e
<1>5. IsKept(balls, h, n, kept)
  BY <1>4
<1> QED BY <1>2, <1>5 DEF n

LEMMA RetractedTyped ==
  ASSUME NEW S, balls \in Seq(S), NEW h
  PROVE  RetractBalls(h) \in Seq(S)
<1>1. PICK k : IsKept(balls, h, Len(balls), k) /\ RetractBalls(h) = k[Len(balls)]
  BY Retracted
<1>2. Len(balls) \in Nat /\ \A i \in 1 .. Len(balls) : balls[i] \in S
  OBVIOUS
<1> QED BY <1>1, <1>2, KeptTyped

-----------------------------------------------------------------------------
(* The properties from the invariant, and the initial states.                 *)

LEMMA TypeInvImplies == TypeInv => TypeOK
<1> SUFFICES ASSUME TypeInv PROVE TypeOK
  OBVIOUS
<1>1. balls \in Seq(Ids)
  BY SeqMonotone DEF TypeInv, RestTyped
<1> QED BY <1>1 DEF TypeInv, RestTyped, TypeOK, TabType

LEMMA ListsInvImplies == ListsInv => ListsPartition
<1> DEFINE live == Live(tab)  free == Unused(tab)
<1> SUFFICES ASSUME Lists(tab, live, free)
             PROVE  ListsPartition
  BY DEF ListsInv
<1>1. Walk(tab, tab.first)[NSlots] = NULL /\ Walk(tab, tab.free)[NSlots] = NULL
  BY WalkIsList DEF Lists
<1>2. live = Reach(tab, tab.first) /\ free = Reach(tab, tab.free)
  BY DEF Live, Unused
<1> HIDE DEF live, free
<1>3. /\ live \cap free = {} /\ live \cup free = Slots
      /\ \A i \in live : tab.prev[i] = NULL <=> i = tab.first
      /\ \A i \in live : tab.next[i] # NULL => tab.prev[tab.next[i]] = i
  BY DEF Lists, IsInverted
<1> QED BY <1>1, <1>2, <1>3 DEF ListsPartition

LEMMA TableInvImplies == TableInv => TypeOK /\ ListsPartition /\ RunningOwnsEntry
<1> SUFFICES ASSUME TableInv PROVE TypeOK /\ ListsPartition /\ RunningOwnsEntry
  OBVIOUS
<1>1. ASSUME NEW p \in PThreads, Active(p)
      PROVE  /\ self[p].slot \in Live(tab) /\ tab.incarn[self[p].slot] = self[p].incarn
             /\ tab.tid[self[p].slot] = p /\ tab.valid[self[p].slot]
  BY <1>1 DEF TableInv, HolderInv, HolderAt, Holds, Alive, Active
<1>2. ASSUME NEW p \in PThreads, Active(p)
      PROVE  IdOf(tab, self[p].slot) = self[p]
  <2>1. self[p] \in Ids
    BY <1>2 DEF TableInv, TypeInv, RestTyped, Active
  <2> QED BY <1>1, <1>2, <2>1 DEF IdOf, Ids
<1> QED BY <1>1, <1>2, TypeInvImplies, ListsInvImplies DEF TableInv, RunningOwnsEntry, Live

LEMMA FirstTable ==
  ASSUME RoomLeft
  PROVE  Table0 \in TabType /\ Lists(Table0, {}, Slots)
<1>1. NSlots \in Nat \ {0} /\ MaxLive \in Nat /\ IncMask \in Nat
  BY SlotsAssumption
<1>2. Table0 \in TabType
  BY <1>1 DEF Table0, TabType, Entries, Slots, NULL
<1> DEFINE next == [i \in Slots |-> IF i = NSlots - 1 THEN NULL ELSE i + 1]
<1>3. Table0.next = next /\ Table0.first = NULL /\ Table0.free = 0 /\ Table0.last = NSlots - 1
  BY DEF Table0
<1>4. \A i \in Slots : next[i] = IF i = NSlots - 1 THEN NULL ELSE i + 1
  OBVIOUS
<1> HIDE DEF next
<1>5. Ranked(Slots, next, Slots)
  <2> DEFINE r == [i \in Slots |-> i]
  <2>1. r \in [Slots -> Int] /\ \A i \in Slots : next[i] \in Slots => r[i] < r[next[i]]
    BY <1>1, <1>4 DEF Slots, NULL
  <2> QED BY <2>1 DEF Ranked
<1>6. IsList(Slots, NULL, next, 0, Slots)
  <2>1. \A i \in Slots : next[i] = NULL \/ (next[i] \in Slots /\ next[i] # 0)
    BY <1>1, <1>4 DEF Slots, NULL
  <2>2. ASSUME NEW i \in Slots, i # 0
        PROVE  \E j \in Slots : next[j] = i
    <3>1. i - 1 \in Slots /\ next[i - 1] = i
      BY <1>1, <1>4, <2>2 DEF Slots, NULL
    <3> QED BY <3>1
  <2>3. \A i, j \in Slots : next[i] = next[j] /\ next[i] # NULL => i = j
    BY <1>1, <1>4 DEF Slots, NULL
  <2>4. 0 \in Slots /\ 0 # NULL
    BY <1>1 DEF Slots, NULL
  <2> QED BY <1>5, <2>1, <2>2, <2>3, <2>4 DEF IsList
<1>7. Ranked(Slots, next, {})
  <2> DEFINE r == [i \in Slots |-> i]
  <2>1. r \in [Slots -> Int]
    BY <1>1 DEF Slots
  <2> QED BY <2>1 DEF Ranked
<1>8. IsList(Slots, NULL, next, NULL, {}) /\ IsInverted(NULL, next, Table0.prev, NULL, {})
  BY <1>7 DEF IsList, IsInverted
<1>9. Cardinality({}) <= MaxLive
  BY <1>1, FS_EmptySet
<1>10. NSlots - 1 \in Slots /\ next[NSlots - 1] = NULL
  BY <1>1, <1>4 DEF Slots
<1> QED BY <1>2, <1>3, <1>6, <1>8, <1>9, <1>10 DEF Lists

LEMMA InitInv == ASSUME RoomLeft PROVE Init => TableInv /\ Live(tab) = {0}
<1> SUFFICES ASSUME Init PROVE TableInv /\ Live(tab) = {0}
  OBVIOUS
<1> DEFINE t == ThNew(Table0, Main, FALSE, FALSE)
           id0 == [slot |-> 0, incarn |-> 0]
<1>1. NSlots \in Nat \ {0} /\ MaxLive \in 1 .. NSlots - 1 /\ IncMask \in Nat /\ Main \in PThreads
  BY SlotsAssumption, PThreadsAssumption DEF RoomLeft
<1>2. 0 \in Slots /\ Table0.free = 0 /\ Cardinality({}) < MaxLive
  BY <1>1, FS_EmptySet DEF Table0, Slots
<1>3. /\ t \in TabType /\ Lists(t, {} \cup {0}, Slots \ {0})
      /\ t.tid = Table0.tid /\ t.detached[0] = FALSE /\ t.exited[0] = FALSE
      /\ t.incarn[0] = NextIncarn(Table0.incarn[0])
  <2> DEFINE no == FALSE  none == {}  pos == 0
  <2>1. /\ t = ThNew(Table0, Main, no, no) /\ no \in BOOLEAN /\ pos = Table0.free
        /\ Lists(Table0, none, Slots) /\ Cardinality(none) < MaxLive
        /\ Table0 \in TabType /\ Main \in PThreads \cup {Nobody}
    BY <1>1, <1>2, FirstTable
  <2> HIDE DEF t, no, none, pos
  <2>2. /\ t \in TabType /\ Lists(t, none \cup {pos}, Slots \ {pos})
        /\ IsFresh(Table0, t, pos, no)
    BY <2>1, ThNewLists
  <2> QED BY <2>2 DEF no, none, pos, IsFresh
<1>4. t.incarn[0] = 0 /\ \A i \in Slots : t.tid[i] = Nobody
  <2>1. Table0.incarn[0] = IncMask /\ \A i \in Slots : Table0.tid[i] = Nobody
    BY <1>2 DEF Table0
  <2>2. NextIncarn(IncMask) = 0
    BY <1>1 DEF NextIncarn
  <2> QED BY <1>3, <2>1, <2>2
<1> HIDE DEF t
<1>5. tab = [t EXCEPT !.tid[0] = Main, !.valid[0] = TRUE]
  BY DEF Init, t
<1>6. /\ tab \in TabType
      /\ tab.next = t.next /\ tab.prev = t.prev /\ tab.first = t.first /\ tab.free = t.free
      /\ tab.last = t.last /\ tab.incarn = t.incarn
      /\ tab.detached = t.detached /\ tab.exited = t.exited
      /\ tab.valid[0] /\ tab.tid[0] = Main /\ \A i \in Slots \ {0} : tab.tid[i] = t.tid[i]
  <2> DEFINE td == [t.tid EXCEPT ![0] = Main]  va == [t.valid EXCEPT ![0] = TRUE]
  <2>1. tab = [t EXCEPT !.tid = td, !.valid = va]
    BY <1>5
  <2>2. td \in [Slots -> PThreads \cup {Nobody}] /\ va \in [Slots -> BOOLEAN]
    BY <1>1, <1>3 DEF TabType
  <2>3. td[0] = Main /\ va[0] /\ \A i \in Slots \ {0} : td[i] = t.tid[i]
    BY <1>2, <1>3 DEF TabType
  <2> HIDE DEF td, va
  <2> QED BY <1>3, <2>1, <2>2, <2>3 DEF TabType
<1>7. Lists(tab, {0}, Slots \ {0})
  BY <1>3, <1>6 DEF Lists
<1>8. Live(tab) = {0} /\ ListsInv
  BY <1>7, ListsAreReached DEF ListsInv
<1>9. TypeInv
  <2>1. id0 \in Ids
    BY <1>1, <1>2 DEF Ids
  <2>2. RestTyped
    BY <1>1, <2>1 DEF Init, RestTyped
  <2>3. NoReq \in ReqType
    BY <1>1 DEF NoReq, ReqType
  <2>4. /\ pc \in [PThreads -> Labels] /\ req \in [PThreads -> ReqType]
        /\ self \in [PThreads -> Ids \cup {NoId}]
    BY <2>1, <2>3 DEF Init, Labels
  <2>5. \A p \in PThreads :
          /\ pc[p] # "unborn" => self[p] \in born
          /\ pc[p] \notin Creating \cup {"mark", "answer"} \cup Asking /\ pc[p] # "alias"
    BY DEF Init, Creating, Asking
  <2> QED BY <1>6, <2>2, <2>4, <2>5 DEF TypeInv
<1>10. \A q \in PThreads : /\ pc[q] \in {"idle", "unborn"} /\ (pc[q] # "unborn" <=> q = Main)
                           /\ joinid[q] = Nobody
  BY DEF Init
<1>11. self[Main] = id0
  BY <1>1 DEF Init
<1>12. \A q \in PThreads : ~ Starting(q) /\ (Holds(q) <=> q = Main) /\ ~ Pending(q)
  BY <1>10 DEF Starting, Holds, Pending, Creating, Alive
<1>13. HolderInv
  BY <1>3, <1>4, <1>6, <1>8, <1>10, <1>11, <1>12, PThreadsAssumption
     DEF HolderInv, HolderAt, Alive, Marked, Active
<1>14. StartingInv /\ OneHolder
  BY <1>12 DEF StartingInv, OneHolder
<1>15. LastOwner
  BY <1>1, <1>4, <1>6, <1>10, <1>11 DEF LastOwner
<1>16. AskInv
  BY <1>10, PThreadsAssumption DEF AskInv, AskerAt, AskedAt, Asking
<1> QED BY <1>8, <1>9, <1>13, <1>14, <1>15, <1>16 DEF TableInv

-----------------------------------------------------------------------------
(* What the steps have in common.                                             *)

(* Thread p goes to l with a request in hand.                                 *)
OnlyReq(p) == \A q \in PThreads : q # p => pc'[q] = pc[q] /\ req'[q] = req[q]
WithId == Creating \cup {"mark", "answer"} \cup Asking

LEMMA Moved ==
  ASSUME TypeInv, NEW p \in PThreads, NEW l \in Labels, Goto(p, l)
  PROVE  /\ pc' \in [PThreads -> Labels] /\ pc'[p] = l
         /\ \A q \in PThreads : q # p => pc'[q] = pc[q]
BY DEF TypeInv, Goto

LEMMA Asked ==
  ASSUME TypeInv, NEW p \in PThreads, NEW r \in ReqType, Ask(p, r)
  PROVE  /\ req' \in [PThreads -> ReqType] /\ req'[p] = r
         /\ \A q \in PThreads : q # p => req'[q] = req[q]
BY DEF TypeInv, Ask

LEMMA NoReqTyped == NoReq \in ReqType
BY DEF NoReq, ReqType

LEMMA TypeStep ==
  ASSUME TypeInv, NEW p \in PThreads, tab' \in TabType, pc' \in [PThreads -> Labels],
         req' \in [PThreads -> ReqType], OnlyReq(p), self' = self, RestTyped',
         born \subseteq born', pc[p] # "unborn",
         pc'[p] \in WithId => req'[p].h \in born', pc'[p] = "alias" => req'[p].alias \in Aliases
  PROVE  TypeInv'
<1>1. \A q \in PThreads :
         /\ pc'[q] # "unborn" => self'[q] \in born'
         /\ pc'[q] \in WithId => req'[q].h \in born'
         /\ pc'[q] = "alias" => req'[q].alias \in Aliases
  BY DEF TypeInv, OnlyReq, WithId
<1>2. self' \in [PThreads -> Ids \cup {NoId}]
  BY DEF TypeInv
<1> QED BY <1>1, <1>2 DEF TypeInv, WithId

(* Who holds an entry stays as it was, except that a thread gives one up or   *)
(* ceases to be a creator.                                                    *)
SameHolders ==
  \A q \in PThreads :
    /\ pc[q] # "unborn" => pc'[q] # "unborn"
    /\ Holds(q)' => Holds(q) /\ (Alive(q)' <=> Alive(q)) /\ (Marked(q)' <=> Marked(q))
    /\ Active(q)' => Active(q) \/ tab'.valid[self[q].slot]
    /\ Starting(q)' => /\ Starting(q) /\ req'[q].h = req[q].h
                       /\ req'[q].detached = req[q].detached
SameEntries ==
  /\ tab'.incarn = tab.incarn /\ tab'.exited = tab.exited
  /\ tab'.detached = tab.detached /\ tab'.tid = tab.tid
  /\ \A i \in Slots : tab.valid[i] => tab'.valid[i]
  /\ Live(tab') = Live(tab)

LEMMA Steady ==
  ASSUME TableInv, self' = self, SameHolders, SameEntries
  PROVE  HolderInv' /\ StartingInv' /\ OneHolder' /\ LastOwner'
<1>1. Live(tab) \subseteq Slots
  BY DEF TableInv, ListsInv, Lists, IsList
<1>2. HolderInv'
  <2> SUFFICES ASSUME NEW q \in PThreads, Holds(q)'
               PROVE  HolderAt(q)'
    BY DEF HolderInv
  <2>1. /\ Holds(q) /\ (Alive(q)' <=> Alive(q)) /\ (Marked(q)' <=> Marked(q))
        /\ Active(q)' => Active(q) \/ tab'.valid[self[q].slot]
    BY DEF SameHolders
  <2>2. HolderAt(q)
    BY <2>1 DEF TableInv, HolderInv
  <2> QED BY <1>1, <2>1, <2>2 DEF HolderAt, SameEntries
<1>3. StartingInv'
  BY DEF TableInv, SameHolders, SameEntries, StartingInv, StartingAt
<1>4. OneHolder'
  BY DEF TableInv, SameHolders, OneHolder
<1>5. LastOwner'
  <2> SUFFICES ASSUME NEW i \in Slots, tab'.tid[i] # Nobody
               PROVE  pc'[tab'.tid[i]] # "unborn" /\ self'[tab'.tid[i]].slot = i
    BY DEF LastOwner
  <2>1. tab.tid[i] \in PThreads /\ tab'.tid = tab.tid
    BY DEF SameEntries, TableInv, TypeInv, TabType
  <2> QED BY <2>1 DEF TableInv, LastOwner, SameHolders, SameEntries
<1> QED BY <1>2, <1>3, <1>4, <1>5

(* Nobody begins or ends to ask for, or to await, a thread; p may cease.      *)
LEMMA SameAskers ==
  ASSUME TableInv, NEW p \in PThreads, OnlyReq(p), self' = self, joinid' = joinid,
         pc[p] # "joining", pc'[p] \notin Asking,
         pc[p] # "unborn" => pc'[p] # "unborn", pc[p] = "gone" => pc'[p] = "gone"
  PROVE  AskInv'
<1>1. ASSUME NEW q \in PThreads PROVE AskerAt(q)'
  <2>1. CASE q = p
    BY <2>1 DEF AskerAt, Asking
  <2>2. CASE q # p
    <3>1. AskerAt(q) /\ pc'[q] = pc[q] /\ req'[q] = req[q]
      BY <2>2 DEF OnlyReq, TableInv, AskInv
    <3>2. \A s \in PThreads : /\ pc[s] # "unborn" => pc'[s] # "unborn"
                              /\ pc[s] = "gone" => pc'[s] = "gone"
      BY DEF OnlyReq
    <3> QED BY <3>1, <3>2 DEF AskerAt, Awaited, Asking
  <2> QED BY <2>1, <2>2
<1>2. ASSUME NEW q \in PThreads PROVE AskedAt(q)'
  <2>1. AskedAt(q)
    BY DEF TableInv, AskInv
  <2> QED BY <2>1 DEF AskedAt, OnlyReq
<1>3. \A q, s \in PThreads : q # s /\ {pc'[q], pc'[s]} \subseteq {"joined", "detached"}
                               => req'[q].tid # req'[s].tid
  BY DEF OnlyReq, TableInv, AskInv, Asking
<1> QED BY <1>1, <1>2, <1>3 DEF AskInv

(* The usual case: p is not pending, and neither dies nor is made.            *)
LEMMA AloneStep ==
  ASSUME TableInv, TypeInv', NEW p \in PThreads, OnlyReq(p), self' = self, joinid' = joinid,
         ListsInv', SameEntries, {pc[p], pc'[p]} \cap {"joined", "detached", "unborn"} = {},
         pc[p] # "joining", pc'[p] \notin Asking, pc[p] = "gone" => pc'[p] = "gone",
         Alive(p)' <=> Alive(p), Active(p)' => Active(p) \/ tab'.valid[self[p].slot],
         Starting(p)' => Starting(p) /\ req'[p] = req[p]
  PROVE  TableInv'
<1>1. \A q \in PThreads : Pending(q)' <=> Pending(q)
  BY DEF OnlyReq, Pending
<1>2. \A q \in PThreads : /\ Alive(q)' <=> Alive(q)
                          /\ Active(q)' => Active(q) \/ tab'.valid[self[q].slot]
                          /\ Starting(q)' => Starting(q) /\ req'[q] = req[q]
                          /\ pc'[q] # "unborn" <=> pc[q] # "unborn"
  BY DEF OnlyReq, Alive, Active, Starting
<1>3. \A q \in PThreads : (Holds(q)' <=> Holds(q)) /\ (Marked(q)' <=> Marked(q))
  BY <1>1, <1>2 DEF Holds, Marked, Awaited
<1>4. SameHolders
  BY <1>2, <1>3 DEF SameHolders
<1>5. AskInv'
  BY SameAskers
<1>6. HolderInv' /\ StartingInv' /\ OneHolder' /\ LastOwner'
  BY <1>4, Steady
<1> QED BY <1>5, <1>6 DEF TableInv

LEMMA SameTable == ASSUME TableInv, tab' = tab PROVE ListsInv' /\ SameEntries /\ tab' \in TabType
BY DEF TableInv, TypeInv, ListsInv, SameEntries

-----------------------------------------------------------------------------
(* The steps of a creation.                                                   *)

LEMMA EndSetupInv ==
  ASSUME TableInv, NEW p \in PThreads, EndSetup(p)
  PROVE  TableInv'
<1>1. PICK l \in {"spawn", "alias"} : Goto(p, l) /\ (l = "alias" => req[p].alias # Nobody)
  BY DEF EndSetup
<1>2. /\ pc[p] = "counting" /\ tab' = tab /\ self' = self /\ req' = req /\ joinid' = joinid
      /\ thMutex' = Nobody /\ UNCHANGED <<aliasOf, balls, born, returned>>
  BY DEF EndSetup
<1>3. pc' \in [PThreads -> Labels] /\ pc'[p] = l /\ \A q \in PThreads : q # p => pc'[q] = pc[q]
  BY <1>1, Moved DEF TableInv, Labels, Creating
<1>4. OnlyReq(p)
  BY <1>2, <1>3 DEF OnlyReq
<1>5. TypeInv'
  <2>1. req[p] \in ReqType /\ req[p].h \in born
    BY <1>2 DEF TableInv, TypeInv, Creating
  <2>2. RestTyped'
    BY <1>2 DEF TableInv, TypeInv, RestTyped
  <2>3. pc'[p] = "alias" => req'[p].alias \in Aliases
    BY <1>1, <1>2, <1>3, <2>1 DEF ReqType
  <2>4. tab' \in TabType /\ req' \in [PThreads -> ReqType]
    BY <1>2 DEF TableInv, TypeInv
  <2> QED BY <1>2, <1>3, <1>4, <2>1, <2>2, <2>3, <2>4, TypeStep DEF TableInv
<1> QED BY <1>1, <1>2, <1>3, <1>4, <1>5, SameTable, AloneStep
        DEF Alive, Active, Starting, Creating, Asking

LEMMA AddAliasInv ==
  ASSUME TableInv, NEW p \in PThreads, AddAlias(p), pc'[p] # "clash"
  PROVE  TableInv'
<1>1. /\ pc[p] = "alias" /\ tab' = tab /\ self' = self /\ req' = req /\ joinid' = joinid
      /\ thMutex' = thMutex /\ UNCHANGED <<balls, born, returned>>
  BY DEF AddAlias
<1>2. Goto(p, "spawn") /\ aliasOf' = [aliasOf EXCEPT ![req[p].alias] = req[p].h]
  BY <1>1 DEF AddAlias, Goto, TableInv, TypeInv
<1>3. /\ pc' \in [PThreads -> Labels] /\ pc'[p] = "spawn"
      /\ \A q \in PThreads : q # p => pc'[q] = pc[q]
  BY <1>2, Moved DEF TableInv, Labels, Creating
<1>4. OnlyReq(p)
  BY <1>1, <1>3 DEF OnlyReq
<1>5. TypeInv'
  <2>1. req[p].h \in born /\ req[p].h \in Ids
    BY <1>1 DEF TableInv, TypeInv, RestTyped, Creating
  <2>2. RestTyped'
    BY <1>1, <1>2, <2>1 DEF TableInv, TypeInv, RestTyped
  <2>3. tab' \in TabType /\ req' \in [PThreads -> ReqType]
    BY <1>1 DEF TableInv, TypeInv
  <2> QED BY <1>1, <1>3, <1>4, <2>1, <2>2, <2>3, TypeStep DEF TableInv
<1> QED BY <1>1, <1>3, <1>4, <1>5, SameTable, AloneStep
        DEF Alive, Active, Starting, Creating, Asking

(* The entry is marked valid by its creator, and by its thread.               *)
LEMMA Validated ==
  ASSUME TableInv, NEW i \in Slots, NEW t \in [Slots -> PThreads \cup {Nobody}],
         t = tab.tid, tab' = [tab EXCEPT !.tid = t, !.valid[i] = TRUE]
  PROVE  ListsInv' /\ SameEntries /\ tab' \in TabType /\ tab'.valid[i]
<1> DEFINE va == [tab.valid EXCEPT ![i] = TRUE]
<1>1. tab \in TabType
  BY DEF TableInv, TypeInv
<1>2. tab' = [tab EXCEPT !.valid = va]
  BY <1>1 DEF TabType
<1>3. va \in [Slots -> BOOLEAN] /\ va[i] /\ \A j \in Slots : tab.valid[j] => va[j]
  BY <1>1 DEF TabType
<1> HIDE DEF va
<1>4. /\ tab' \in TabType /\ tab'.valid = va
      /\ tab'.next = tab.next /\ tab'.prev = tab.prev /\ tab'.first = tab.first
      /\ tab'.free = tab.free /\ tab'.last = tab.last /\ tab'.incarn = tab.incarn
      /\ tab'.exited = tab.exited /\ tab'.detached = tab.detached /\ tab'.tid = tab.tid
  BY <1>1, <1>2, <1>3 DEF TabType
<1>5. Lists(tab', Live(tab), Unused(tab))
  BY <1>4 DEF TableInv, ListsInv, Lists
<1>6. Live(tab') = Live(tab) /\ Unused(tab') = Unused(tab)
  BY <1>5, ListsAreReached
<1> QED BY <1>3, <1>4, <1>5, <1>6 DEF ListsInv, SameEntries

LEMMA MarkInv ==
  ASSUME TableInv, NEW p \in PThreads, Mark(p), pc[p] # "markfailed"
  PROVE  TableInv'
<1>1. /\ pc[p] = "mark" /\ self' = self /\ joinid' = joinid /\ thMutex' = thMutex
      /\ UNCHANGED <<aliasOf, balls, born, returned>>
      /\ Goto(p, "idle") /\ Ask(p, NoReq)
      /\ tab' = [tab EXCEPT !.valid[req[p].h.slot] = TRUE]
  BY DEF Mark, Done, Elsewhere
<1>2. req[p].h \in born /\ req[p].h.slot \in Slots
  BY <1>1 DEF TableInv, TypeInv, RestTyped, Ids
<1>3. tab' = [tab EXCEPT !.tid = tab.tid, !.valid[req[p].h.slot] = TRUE]
  BY <1>1 DEF TableInv, TypeInv, TabType
<1>4. ListsInv' /\ SameEntries /\ tab' \in TabType
  BY <1>2, <1>3, Validated DEF TableInv, TypeInv, TabType
<1>5. /\ pc' \in [PThreads -> Labels] /\ pc'[p] = "idle"
      /\ \A q \in PThreads : q # p => pc'[q] = pc[q]
  BY <1>1, Moved DEF TableInv, Labels
<1>6. req' \in [PThreads -> ReqType] /\ \A q \in PThreads : q # p => req'[q] = req[q]
  BY <1>1, Asked, NoReqTyped DEF TableInv
<1>7. OnlyReq(p)
  BY <1>5, <1>6 DEF OnlyReq
<1>8. TypeInv'
  <2>1. RestTyped'
    BY <1>1 DEF TableInv, TypeInv, RestTyped
  <2> QED BY <1>1, <1>4, <1>5, <1>6, <1>7, <2>1, TypeStep DEF TableInv, WithId, Creating, Asking
<1> QED BY <1>1, <1>4, <1>5, <1>7, <1>8, AloneStep DEF Alive, Active, Starting, Creating, Asking

LEMMA RunThreadInv ==
  ASSUME TableInv, NEW p \in PThreads, RunThread(p)
  PROVE  TableInv'
<1>1. /\ pc[p] = "born" /\ self' = self /\ joinid' = joinid /\ thMutex' = thMutex
      /\ UNCHANGED <<aliasOf, balls, born, returned>>
      /\ Goto(p, "idle") /\ req' = req
      /\ tab' = [tab EXCEPT !.tid[self[p].slot] = p, !.valid[self[p].slot] = TRUE]
  BY DEF RunThread, Elsewhere
<1>2. self[p].slot \in Slots /\ tab.tid[self[p].slot] = p
  <2>1. self[p] \in Ids
    BY <1>1 DEF TableInv, TypeInv, RestTyped
  <2>2. Holds(p)
    BY <1>1 DEF Holds, Alive
  <2> QED BY <2>1, <2>2 DEF Ids, TableInv, HolderInv, HolderAt
<1> DEFINE i == self[p].slot
           t == [tab.tid EXCEPT ![i] = p]
<1>3. t = tab.tid /\ t \in [Slots -> PThreads \cup {Nobody}]
  BY <1>2 DEF TableInv, TypeInv, TabType
<1>4. tab' = [tab EXCEPT !.tid = t, !.valid[i] = TRUE]
  BY <1>1
<1> HIDE DEF t
<1>5. ListsInv' /\ SameEntries /\ tab' \in TabType /\ tab'.valid[i]
  BY <1>2, <1>3, <1>4, Validated
<1>6. /\ pc' \in [PThreads -> Labels] /\ pc'[p] = "idle"
      /\ \A q \in PThreads : q # p => pc'[q] = pc[q]
  BY <1>1, Moved DEF TableInv, Labels
<1>7. OnlyReq(p)
  BY <1>1, <1>6 DEF OnlyReq
<1>8. TypeInv'
  <2>1. RestTyped' /\ req' \in [PThreads -> ReqType]
    BY <1>1 DEF TableInv, TypeInv, RestTyped
  <2> QED BY <1>1, <1>5, <1>6, <1>7, <2>1, TypeStep DEF TableInv, WithId, Creating, Asking
<1> QED BY <1>1, <1>5, <1>6, <1>7, <1>8, AloneStep DEF Alive, Active, Starting, Creating, Asking

-----------------------------------------------------------------------------
(* The steps of an exit.                                                      *)

LEMMA LeavePrologInv ==
  ASSUME TableInv, NEW p \in PThreads, NEW b \in BOOLEAN, LeaveProlog(p, b)
  PROVE  TableInv'
<1> DEFINE r == [NoReq EXCEPT !.kind = "exit", !.h = self[p], !.ball = b]
<1>1. /\ pc[p] = "idle" /\ tab' = tab /\ self' = self /\ joinid' = joinid
      /\ thMutex' = thMutex /\ UNCHANGED <<born, returned>>
      /\ Goto(p, "exit") /\ Ask(p, r)
      /\ aliasOf' \in {aliasOf, RemoveAllAliases, RemoveAliases(self[p])}
      /\ balls' \in {balls, <<self[p]>> \o balls}
  BY DEF LeaveProlog
<1>2. self[p] \in born /\ self[p] \in Ids /\ r \in ReqType
  BY <1>1 DEF TableInv, TypeInv, RestTyped, NoReq, ReqType
<1> HIDE DEF r
<1>3. /\ pc' \in [PThreads -> Labels] /\ pc'[p] = "exit"
      /\ \A q \in PThreads : q # p => pc'[q] = pc[q]
  BY <1>1, Moved DEF TableInv, Labels, Leaving
<1>4. req' \in [PThreads -> ReqType] /\ \A q \in PThreads : q # p => req'[q] = req[q]
  BY <1>1, <1>2, Asked DEF TableInv
<1>5. OnlyReq(p)
  BY <1>3, <1>4 DEF OnlyReq
<1>6. TypeInv'
  <2>1. aliasOf' \in [Aliases -> Ids \cup {NoId}]
    BY <1>1 DEF TableInv, TypeInv, RestTyped, RemoveAllAliases, RemoveAliases
  <2>2. balls' \in Seq(born')
    <3>1. balls \in Seq(born) /\ born' = born
      BY <1>1 DEF TableInv, TypeInv, RestTyped
    <3>2. <<self[p]>> \o balls \in Seq(born)
      BY <1>2, <3>1, PushedTyped
    <3> QED BY <1>1, <3>1, <3>2
  <2>3. RestTyped'
    BY <1>1, <2>1, <2>2 DEF TableInv, TypeInv, RestTyped
  <2>4. tab' \in TabType
    BY <1>1 DEF TableInv, TypeInv
  <2> QED BY <1>1, <1>3, <1>4, <1>5, <2>3, <2>4, TypeStep
          DEF TableInv, WithId, Creating, Asking
<1> QED BY <1>1, <1>3, <1>5, <1>6, SameTable, AloneStep
        DEF Alive, Active, Starting, Creating, Asking

LEMMA UncountInv ==
  ASSUME TableInv, NEW p \in PThreads, Uncount(p) \/ PthreadExit(p)
  PROVE  TableInv'
<1>1. PICK l \in {"uncount2", "gone"} : Goto(p, l)
  BY DEF Uncount, PthreadExit
<1>2. /\ pc[p] \in {"uncount", "uncount2"} /\ tab' = tab /\ self' = self /\ req' = req
      /\ joinid' = joinid /\ thMutex' = thMutex /\ UNCHANGED <<aliasOf, balls, born, returned>>
  BY DEF Uncount, PthreadExit
<1>3. pc' \in [PThreads -> Labels] /\ pc'[p] = l /\ \A q \in PThreads : q # p => pc'[q] = pc[q]
  BY <1>1, Moved DEF TableInv, Labels, Leaving
<1>4. OnlyReq(p)
  BY <1>2, <1>3 DEF OnlyReq
<1>5. TypeInv'
  <2>1. RestTyped' /\ tab' \in TabType /\ req' \in [PThreads -> ReqType]
    BY <1>2 DEF TableInv, TypeInv, RestTyped
  <2> QED BY <1>2, <1>3, <1>4, <2>1, TypeStep DEF TableInv, WithId, Creating, Asking
<1> QED BY <1>2, <1>3, <1>4, <1>5, SameTable, AloneStep
        DEF Alive, Active, Starting, Creating, Asking

(* The entry at i is deleted: no thread holds it any more.                    *)
LEMMA Deleted ==
  ASSUME TableInv, NEW tb, NEW i \in Slots, i \in Live(tab), tab' = ThDelete(tb, i),
         tb \in {tab, [tab EXCEPT !.ctxt[i] = Nobody]}
  PROVE  /\ ListsInv' /\ tab' \in TabType /\ Live(tab') = Live(tab) \ {i}
         /\ tab'.incarn = tab.incarn /\ tab'.exited = tab.exited
         /\ tab'.detached = tab.detached /\ tab'.tid = tab.tid
         /\ tab'.aliased = tab.aliased /\ tab'.ball = tab.ball
         /\ \A j \in Slots : j # i /\ tab.valid[j] => tab'.valid[j]
<1>1. tab \in TabType /\ Lists(tab, Live(tab), Unused(tab))
  BY DEF TableInv, TypeInv, ListsInv
<1>2. /\ tb \in TabType /\ tb.next = tab.next /\ tb.prev = tab.prev /\ tb.first = tab.first
      /\ tb.free = tab.free /\ tb.last = tab.last /\ tb.incarn = tab.incarn
      /\ tb.exited = tab.exited /\ tb.detached = tab.detached /\ tb.tid = tab.tid
      /\ tb.valid = tab.valid /\ tb.aliased = tab.aliased /\ tb.ball = tab.ball
  <2>1. CASE tb = tab
    BY <1>1, <2>1
  <2>2. CASE tb = [tab EXCEPT !.ctxt[i] = Nobody]
    <3> DEFINE c == [tab.ctxt EXCEPT ![i] = Nobody]
    <3>1. tb = [tab EXCEPT !.ctxt = c] /\ c \in [Slots -> PThreads \cup {Nobody}]
      BY <1>1, <2>2 DEF TabType
    <3> HIDE DEF c
    <3> QED BY <1>1, <3>1 DEF TabType
  <2> QED BY <2>1, <2>2
<1> DEFINE live == Live(tab)  free == Unused(tab)
<1> HIDE DEF live, free
<1>3. Lists(tb, live, free) /\ i \in live
  BY <1>1, <1>2 DEF Lists, live, free
<1>4. /\ tab' \in TabType /\ Lists(tab', live \ {i}, free \cup {i})
      /\ IsDeleted(tb, tab', i)
  BY <1>2, <1>3, ThDeleteLists
<1>5. Live(tab') = live \ {i} /\ Unused(tab') = free \cup {i}
  BY <1>4, ListsAreReached
<1>6. ListsInv'
  BY <1>4, <1>5 DEF ListsInv
<1>7. \A j \in Slots : j # i /\ tab.valid[j] => tab'.valid[j]
  BY <1>1, <1>2, <1>4 DEF TabType, IsDeleted
<1> QED BY <1>2, <1>4, <1>5, <1>6, <1>7 DEF live, IsDeleted, SameStatus

(* The thread q gives its entry up.                                           *)
GivesUp(s) ==
  /\ ~ Holds(s)'
  /\ \A q \in PThreads :
       /\ pc[q] # "unborn" => pc'[q] # "unborn"
       /\ q # s /\ Holds(q)' => Holds(q) /\ (Alive(q)' <=> Alive(q)) /\ (Marked(q)' <=> Marked(q))
       /\ q # s /\ Active(q)' => Active(q)
       /\ Starting(q)' => Starting(q) /\ req'[q] = req[q]

LEMMA GivenUp ==
  ASSUME TableInv, self' = self, NEW s \in PThreads, Holds(s), GivesUp(s),
         NEW tb, NEW i, i = self[s].slot, tab' = ThDelete(tb, i),
         tb \in {tab, [tab EXCEPT !.ctxt[i] = Nobody]}
  PROVE  /\ ListsInv' /\ tab' \in TabType
         /\ HolderInv' /\ StartingInv' /\ OneHolder' /\ LastOwner'
<1>1. Live(tab) \subseteq Slots
  BY DEF TableInv, ListsInv, Lists, IsList
<1>2. i \in Live(tab) /\ i \in Slots
  BY <1>1 DEF TableInv, HolderInv, HolderAt
<1>3. /\ ListsInv' /\ tab' \in TabType /\ Live(tab') = Live(tab) \ {i}
      /\ tab'.incarn = tab.incarn /\ tab'.exited = tab.exited
      /\ tab'.detached = tab.detached /\ tab'.tid = tab.tid
      /\ \A j \in Slots : j # i /\ tab.valid[j] => tab'.valid[j]
  BY <1>2, Deleted
<1>4. HolderInv'
  <2> SUFFICES ASSUME NEW q \in PThreads, Holds(q)'
               PROVE  HolderAt(q)'
    BY DEF HolderInv
  <2>1. /\ q # s /\ Holds(q) /\ (Alive(q)' <=> Alive(q)) /\ (Marked(q)' <=> Marked(q))
        /\ Active(q)' => Active(q)
    BY DEF GivesUp
  <2>2. HolderAt(q) /\ self[q].slot # i
    BY <2>1 DEF TableInv, HolderInv, OneHolder
  <2> QED BY <1>1, <1>3, <2>1, <2>2 DEF HolderAt
<1>5. StartingInv'
  <2> SUFFICES ASSUME NEW q \in PThreads, Starting(q)'
               PROVE  StartingAt(q)'
    BY DEF StartingInv
  <2>1. Starting(q) /\ req'[q] = req[q]
    BY DEF GivesUp
  <2>2. StartingAt(q) /\ req[q].h.slot # i
    BY <2>1 DEF TableInv, StartingInv, OneHolder
  <2> QED BY <1>3, <2>1, <2>2 DEF StartingAt
<1>6. OneHolder'
  BY DEF TableInv, GivesUp, OneHolder
<1>7. LastOwner'
  <2> SUFFICES ASSUME NEW j \in Slots, tab'.tid[j] # Nobody
               PROVE  pc'[tab'.tid[j]] # "unborn" /\ self'[tab'.tid[j]].slot = j
    BY DEF LastOwner
  <2>1. tab.tid[j] \in PThreads
    BY <1>3 DEF TableInv, TypeInv, TabType
  <2> QED BY <1>3, <2>1 DEF TableInv, LastOwner, GivesUp
<1> QED BY <1>3, <1>4, <1>5, <1>6, <1>7

LEMMA ExitDeletes ==
  ASSUME TableInv, NEW p \in PThreads, ExitTable(p), tab.detached[self[p].slot]
  PROVE  TableInv'
<1> DEFINE i == self[p].slot
           tb == [tab EXCEPT !.ctxt[i] = Nobody]
<1>1. /\ pc[p] = "exit" /\ self' = self /\ req' = req /\ joinid' = joinid
      /\ thMutex' = thMutex /\ UNCHANGED <<aliasOf, balls, born, returned>>
      /\ Goto(p, "uncount") /\ tab' = ExitEntry(tab, i, req[p].ball)
  BY DEF ExitTable, Elsewhere
<1>2. /\ pc' \in [PThreads -> Labels] /\ pc'[p] = "uncount"
      /\ \A q \in PThreads : q # p => pc'[q] = pc[q]
  BY <1>1, Moved DEF TableInv, Labels, Leaving
<1>3. Holds(p) /\ HolderAt(p) /\ Marked(p)
  BY <1>1 DEF TableInv, HolderInv, HolderAt, Holds, Alive
<1>4. tab' = ThDelete(tb, i)
  <2>1. tb.detached = tab.detached
    BY DEF TableInv, TypeInv, TabType
  <2> QED BY <1>1, <2>1 DEF ExitEntry
<1>5. \A q \in PThreads : Pending(q)' <=> Pending(q)
  BY <1>1, <1>2 DEF Pending
<1>6. GivesUp(p)
  <2>1. ~ Holds(p)'
    BY <1>1, <1>2, <1>3, <1>5 DEF Holds, Alive, Awaited, Marked
  <2>2. ASSUME NEW q \in PThreads, q # p
        PROVE  /\ Holds(q)' => Holds(q)
               /\ Alive(q)' <=> Alive(q)
               /\ Marked(q)' <=> Marked(q)
               /\ Active(q)' => Active(q)
    BY <1>1, <1>2, <1>5, <2>2 DEF Holds, Alive, Awaited, Marked, Active
  <2>3. \A q \in PThreads : /\ pc[q] # "unborn" => pc'[q] # "unborn"
                            /\ Starting(q)' => Starting(q) /\ req'[q] = req[q]
    BY <1>1, <1>2 DEF Starting, Creating
  <2> QED BY <2>1, <2>2, <2>3 DEF GivesUp
<1> HIDE DEF tb
<1>7. /\ ListsInv' /\ tab' \in TabType
      /\ HolderInv' /\ StartingInv' /\ OneHolder' /\ LastOwner'
  BY <1>1, <1>3, <1>4, <1>6, GivenUp DEF tb
<1>8. OnlyReq(p)
  BY <1>1, <1>2 DEF OnlyReq
<1>9. TypeInv'
  <2>1. RestTyped' /\ req' \in [PThreads -> ReqType]
    BY <1>1 DEF TableInv, TypeInv, RestTyped
  <2> QED BY <1>1, <1>2, <1>7, <1>8, <2>1, TypeStep DEF TableInv, WithId, Creating, Asking
<1>10. AskInv'
  BY <1>1, <1>2, <1>8, SameAskers DEF Asking
<1> QED BY <1>7, <1>9, <1>10 DEF TableInv

LEMMA ExitKeeps ==
  ASSUME TableInv, NEW p \in PThreads, ExitTable(p), ~ tab.detached[self[p].slot]
  PROVE  TableInv'
<1> DEFINE i == self[p].slot
<1>1. /\ pc[p] = "exit" /\ self' = self /\ req' = req /\ joinid' = joinid
      /\ thMutex' = thMutex /\ UNCHANGED <<aliasOf, balls, born, returned>>
      /\ Goto(p, "uncount") /\ tab' = ExitEntry(tab, i, req[p].ball)
  BY DEF ExitTable, Elsewhere
<1>2. /\ pc' \in [PThreads -> Labels] /\ pc'[p] = "uncount"
      /\ \A q \in PThreads : q # p => pc'[q] = pc[q]
  BY <1>1, Moved DEF TableInv, Labels, Leaving
<1>3. Holds(p) /\ HolderAt(p) /\ ~ Marked(p)
  BY <1>1 DEF TableInv, HolderInv, HolderAt, Holds, Alive
<1>4. Live(tab) \subseteq Slots /\ i \in Slots
  BY <1>3 DEF TableInv, ListsInv, Lists, IsList, HolderAt
<1>5. /\ tab' \in TabType /\ tab'.exited[i]
      /\ \A j \in Slots : j # i => tab'.exited[j] = tab.exited[j]
      /\ tab'.next = tab.next /\ tab'.prev = tab.prev /\ tab'.first = tab.first
      /\ tab'.free = tab.free /\ tab'.last = tab.last /\ tab'.incarn = tab.incarn
      /\ tab'.detached = tab.detached /\ tab'.tid = tab.tid /\ tab'.valid = tab.valid
  <2> DEFINE c == [tab.ctxt EXCEPT ![i] = Nobody]
             e == [tab.exited EXCEPT ![i] = TRUE]
             b == [tab.ball EXCEPT ![i] = req[p].ball]
  <2>1. tab \in TabType /\ req[p].ball \in BOOLEAN
    BY DEF TableInv, TypeInv, ReqType
  <2>2. tab' = [tab EXCEPT !.ctxt = c, !.exited = e, !.ball = b]
    BY <1>1, <2>1 DEF ExitEntry, TabType
  <2>3. /\ c \in [Slots -> PThreads \cup {Nobody}] /\ e \in [Slots -> BOOLEAN]
        /\ b \in [Slots -> BOOLEAN] /\ e[i] /\ \A j \in Slots : j # i => e[j] = tab.exited[j]
    BY <1>4, <2>1 DEF TabType
  <2> HIDE DEF c, e, b
  <2> QED BY <2>1, <2>2, <2>3 DEF TabType
<1>6. Lists(tab', Live(tab), Unused(tab))
  BY <1>5 DEF TableInv, ListsInv, Lists
<1>7. Live(tab') = Live(tab) /\ ListsInv'
  BY <1>6, ListsAreReached DEF ListsInv
<1>8. \A q \in PThreads : Pending(q)' <=> Pending(q)
  BY <1>1, <1>2 DEF Pending
<1>9. \A q \in PThreads :
        /\ Holds(q)' => Holds(q)
        /\ Marked(q)' <=> Marked(q)
        /\ q # p => (Alive(q)' <=> Alive(q))
        /\ Active(q)' => Active(q)
        /\ Starting(q)' => Starting(q)
        /\ pc[q] # "unborn" => pc'[q] # "unborn"
  BY <1>1, <1>2, <1>8 DEF Holds, Alive, Awaited, Marked, Active, Starting, Creating
<1>10. HolderInv'
  <2> SUFFICES ASSUME NEW q \in PThreads, Holds(q)'
               PROVE  HolderAt(q)'
    BY DEF HolderInv
  <2>1. HolderAt(q) /\ Holds(q)
    BY <1>9 DEF TableInv, HolderInv
  <2>2. CASE q = p
    BY <1>1, <1>2, <1>3, <1>5, <1>7, <1>9, <2>1, <2>2 DEF HolderAt, Alive, Active
  <2>3. CASE q # p
    <3>1. self[q].slot # i
      BY <1>3, <2>1, <2>3 DEF TableInv, OneHolder
    <3> QED BY <1>1, <1>4, <1>5, <1>7, <1>9, <2>1, <2>3, <3>1 DEF HolderAt
  <2> QED BY <2>2, <2>3
<1>11. StartingInv'
  <2> SUFFICES ASSUME NEW q \in PThreads, Starting(q)'
               PROVE  StartingAt(q)'
    BY DEF StartingInv
  <2>1. StartingAt(q) /\ req[q].h.slot # i
    BY <1>3, <1>9 DEF TableInv, StartingInv, OneHolder
  <2> QED BY <1>1, <1>4, <1>5, <1>7, <2>1 DEF StartingAt
<1>12. OneHolder'
  BY <1>1, <1>9 DEF TableInv, OneHolder
<1>13. LastOwner'
  <2> SUFFICES ASSUME NEW j \in Slots, tab'.tid[j] # Nobody
               PROVE  pc'[tab'.tid[j]] # "unborn" /\ self'[tab'.tid[j]].slot = j
    BY DEF LastOwner
  <2>1. tab.tid[j] \in PThreads
    BY <1>5 DEF TableInv, TypeInv, TabType
  <2> QED BY <1>1, <1>5, <1>9, <2>1 DEF TableInv, LastOwner
<1>14. OnlyReq(p)
  BY <1>1, <1>2 DEF OnlyReq
<1>15. TypeInv'
  <2>1. RestTyped' /\ req' \in [PThreads -> ReqType]
    BY <1>1 DEF TableInv, TypeInv, RestTyped
  <2> QED BY <1>1, <1>2, <1>5, <1>14, <2>1, TypeStep DEF TableInv, WithId, Creating, Asking
<1>16. AskInv'
  BY <1>1, <1>2, <1>14, SameAskers DEF Asking
<1> QED BY <1>7, <1>10, <1>11, <1>12, <1>13, <1>15, <1>16 DEF TableInv

-----------------------------------------------------------------------------
(* The steps of a join and of a detach.                                       *)

(* th_get gives a thread that has run; one that is still awaited is the one   *)
(* asked for.                                                                 *)
LEMMA GotThread ==
  ASSUME TableInv, NEW h \in born, ThGet(h) # Nobody
  PROVE  /\ ThGet(h) \in PThreads /\ pc[ThGet(h)] # "unborn"
         /\ Holds(ThGet(h)) => self[ThGet(h)] = h
<1>1. h \in Ids /\ h.slot \in Slots
  BY DEF TableInv, TypeInv, RestTyped, Ids
<1>2. /\ tab.incarn[h.slot] = h.incarn /\ ThGet(h) = tab.tid[h.slot]
  BY DEF ThGet
<1> DEFINE q == tab.tid[h.slot]
<1>3. q \in PThreads /\ pc[q] # "unborn" /\ self[q].slot = h.slot
  BY <1>1, <1>2 DEF TableInv, TypeInv, TabType, LastOwner
<1>4. self[q] \in Ids
  BY <1>3 DEF TableInv, TypeInv, RestTyped
<1>5. Holds(q) => self[q] = h
  BY <1>1, <1>2, <1>3, <1>4 DEF TableInv, HolderInv, HolderAt, Ids
<1> QED BY <1>2, <1>3, <1>5

LEMMA GetInv ==
  ASSUME TableInv, NEW p \in PThreads, NEW h \in born, JoinGet(p, h) \/ DetachGet(p, h)
  PROVE  TableInv'
<1>0. PICK q : q = ThGet(h)
  OBVIOUS
<1>1. PICK l \in {"join", "detach"} : \E r \in {"join", "detach"} :
        /\ Goto(p, l) /\ Ask(p, [NoReq EXCEPT !.kind = r, !.h = h, !.tid = q])
        /\ (l = "join" => SelfJoins \/ h # self[p])
  BY <1>0 DEF JoinGet, DetachGet
<1>2. PICK kind \in {"join", "detach"} : Ask(p, [NoReq EXCEPT !.kind = kind, !.h = h, !.tid = q])
  BY <1>1
<1>3. /\ pc[p] = "idle" /\ tab' = tab /\ self' = self /\ joinid' = joinid
      /\ thMutex' = thMutex /\ UNCHANGED <<aliasOf, balls, born, returned>>
      /\ p \in Joiners \cup Detachers /\ q # Nobody
  BY <1>0 DEF JoinGet, DetachGet, Elsewhere
<1>4. q \in PThreads /\ pc[q] # "unborn" /\ (Holds(q) => self[q] = h) /\ h \in Ids
  BY <1>0, <1>3, GotThread DEF TableInv, TypeInv, RestTyped
<1>5. pc' \in [PThreads -> Labels] /\ pc'[p] = l /\ \A s \in PThreads : s # p => pc'[s] = pc[s]
  BY <1>1, Moved DEF TableInv, Labels, Asking
<1>6. /\ req' \in [PThreads -> ReqType] /\ req'[p].tid = q /\ req'[p].h = h
      /\ \A s \in PThreads : s # p => req'[s] = req[s]
  <2> DEFINE r == [NoReq EXCEPT !.kind = kind, !.h = h, !.tid = q]
  <2>1. r \in ReqType /\ r.tid = q /\ r.h = h
    BY <1>4 DEF NoReq, ReqType
  <2> HIDE DEF r
  <2> QED BY <1>2, <2>1, Asked DEF TableInv, r
<1>7. OnlyReq(p)
  BY <1>5, <1>6 DEF OnlyReq
<1>8. TypeInv'
  <2>1. RestTyped' /\ tab' \in TabType
    BY <1>3 DEF TableInv, TypeInv, RestTyped
  <2> QED BY <1>3, <1>5, <1>6, <1>7, <2>1, TypeStep DEF TableInv
<1>9. \A s \in PThreads :
        /\ Pending(s)' <=> Pending(s)
        /\ Alive(s)' <=> Alive(s)
        /\ Active(s)' <=> Active(s)
        /\ Starting(s)' => Starting(s) /\ req'[s] = req[s]
        /\ pc'[s] # "unborn" <=> pc[s] # "unborn"
  BY <1>3, <1>5, <1>6 DEF Pending, Alive, Active, Starting, Creating
<1>10. SameHolders
  BY <1>3, <1>9 DEF SameHolders, Holds, Marked, Awaited
<1>11. HolderInv' /\ StartingInv' /\ OneHolder' /\ LastOwner' /\ ListsInv'
  BY <1>3, <1>10, Steady, SameTable
<1>12. AskerAt(p)'
  <2>1. Awaited(q)' => self'[q] = h
    BY <1>3, <1>4 DEF Holds, Awaited
  <2>2. pc'[p] = "join" => SelfJoins \/ p # q
    BY <1>1, <1>3, <1>4, <1>5 DEF Holds, Alive
  <2>3. pc'[q] # "unborn"
    BY <1>4, <1>9
  <2> QED BY <1>3, <1>4, <1>5, <1>6, <2>1, <2>2, <2>3 DEF AskerAt, Awaited
<1>13. AskInv'
  <2>1. ASSUME NEW s \in PThreads, s # p PROVE AskerAt(s)'
    <3>1. AskerAt(s) /\ pc'[s] = pc[s] /\ req'[s] = req[s]
      BY <1>7, <2>1 DEF OnlyReq, TableInv, AskInv
    <3>2. \A t \in PThreads : /\ pc[t] # "unborn" => pc'[t] # "unborn"
                              /\ pc[t] = "gone" => pc'[t] = "gone"
      BY <1>3, <1>5
    <3> QED BY <1>3, <3>1, <3>2 DEF AskerAt, Awaited, Asking
  <2>2. ASSUME NEW s \in PThreads PROVE AskedAt(s)'
    <3>1. AskedAt(s)
      BY DEF TableInv, AskInv
    <3> QED BY <1>3, <1>5, <1>6, <3>1 DEF AskedAt
  <2>3. \A s, t \in PThreads : s # t /\ {pc'[s], pc'[t]} \subseteq {"joined", "detached"}
                               => req'[s].tid # req'[t].tid
    BY <1>5, <1>6 DEF TableInv, AskInv
  <2> QED BY <1>12, <2>1, <2>2, <2>3 DEF AskInv
<1> QED BY <1>8, <1>11, <1>13 DEF TableInv

LEMMA JoinRefusedInv ==
  ASSUME TableInv, NoJoinRace, NEW p \in PThreads, JoinRefused(p)
  PROVE  TableInv'
<1>1. /\ pc[p] = "join" /\ tab' = tab /\ self' = self /\ joinid' = joinid
      /\ thMutex' = thMutex /\ UNCHANGED <<aliasOf, balls, born, returned>>
      /\ Goto(p, "idle") /\ Ask(p, NoReq)
  BY DEF JoinRefused, NoJoinRace, Done, Elsewhere
<1>2. /\ pc' \in [PThreads -> Labels] /\ pc'[p] = "idle"
      /\ \A q \in PThreads : q # p => pc'[q] = pc[q]
  BY <1>1, Moved DEF TableInv, Labels
<1>3. req' \in [PThreads -> ReqType] /\ \A q \in PThreads : q # p => req'[q] = req[q]
  BY <1>1, Asked, NoReqTyped DEF TableInv
<1>4. OnlyReq(p)
  BY <1>2, <1>3 DEF OnlyReq
<1>5. TypeInv'
  <2>1. RestTyped' /\ tab' \in TabType
    BY <1>1 DEF TableInv, TypeInv, RestTyped
  <2> QED BY <1>1, <1>2, <1>3, <1>4, <2>1, TypeStep DEF TableInv, WithId, Creating, Asking
<1> QED BY <1>1, <1>2, <1>4, <1>5, SameTable, AloneStep
        DEF Alive, Active, Starting, Creating, Asking

LEMMA JoinAnswerInv ==
  ASSUME TableInv, NEW p \in PThreads, JoinAnswer(p)
  PROVE  TableInv'
<1>1. /\ pc[p] = "answer" /\ tab' = tab /\ self' = self /\ joinid' = joinid
      /\ thMutex' = thMutex /\ born' = born /\ Goto(p, "idle") /\ Ask(p, NoReq)
      /\ aliasOf' \in {aliasOf, RemoveAllAliases}
      /\ \/ balls' = balls /\ returned' = returned
         \/ /\ balls # <<>> /\ balls' = RetractBalls(Head(balls))
            /\ returned' = returned \cup {<<req[p].h, Head(balls)>>}
  BY DEF JoinAnswer, Done
<1>2. /\ pc' \in [PThreads -> Labels] /\ pc'[p] = "idle"
      /\ \A q \in PThreads : q # p => pc'[q] = pc[q]
  BY <1>1, Moved DEF TableInv, Labels
<1>3. req' \in [PThreads -> ReqType] /\ \A q \in PThreads : q # p => req'[q] = req[q]
  BY <1>1, Asked, NoReqTyped DEF TableInv
<1>4. OnlyReq(p)
  BY <1>2, <1>3 DEF OnlyReq
<1>5. RestTyped'
  <2>1. aliasOf' \in [Aliases -> Ids \cup {NoId}]
    BY <1>1 DEF TableInv, TypeInv, RestTyped, RemoveAllAliases
  <2>2. /\ balls \in Seq(born) /\ returned \subseteq born \X born /\ req[p].h \in born
        /\ born' = born
    BY <1>1 DEF TableInv, TypeInv, RestTyped
  <2>3. balls' \in Seq(born) /\ returned' \subseteq born \X born
    <3>1. CASE balls' = balls /\ returned' = returned
      BY <2>2, <3>1
    <3>2. CASE /\ balls # <<>> /\ balls' = RetractBalls(Head(balls))
               /\ returned' = returned \cup {<<req[p].h, Head(balls)>>}
      <4>1. Head(balls) \in born
        BY <2>2, <3>2
      <4>2. RetractBalls(Head(balls)) \in Seq(born)
        BY <2>2, RetractedTyped
      <4> QED BY <2>2, <3>2, <4>1, <4>2
    <3> QED BY <1>1, <3>1, <3>2
  <2> QED BY <1>1, <2>1, <2>2, <2>3 DEF TableInv, TypeInv, RestTyped
<1>6. TypeInv'
  <2>1. tab' \in TabType
    BY <1>1 DEF TableInv, TypeInv
  <2> QED BY <1>1, <1>2, <1>3, <1>4, <1>5, <2>1, TypeStep
          DEF TableInv, WithId, Creating, Asking
<1> QED BY <1>1, <1>2, <1>4, <1>6, SameTable, AloneStep
        DEF Alive, Active, Starting, Creating, Asking

LEMMA JoinWaitsInv ==
  ASSUME TableInv, NEW p \in PThreads, JoinWaits(p)
  PROVE  TableInv'
<1>0. PICK q : q = req[p].tid
  OBVIOUS
<1>1. /\ pc[p] = "join" /\ tab' = tab /\ self' = self /\ req' = req
      /\ joinid' = [joinid EXCEPT ![q] = p] /\ joinid[q] = Nobody
      /\ thMutex' = thMutex /\ UNCHANGED <<aliasOf, balls, born, returned>>
      /\ Goto(p, "joining")
  BY <1>0 DEF JoinWaits, Joinable
<1>2. /\ q \in PThreads /\ pc[q] # "unborn" /\ self[q] = req[p].h
      /\ p \in Joiners \cup Detachers /\ p # "detached" /\ p # "joined" /\ p # Nobody
  BY <1>0, <1>1, PThreadsAssumption DEF TableInv, AskInv, AskerAt, Asking, Awaited
<1>3. /\ pc' \in [PThreads -> Labels] /\ pc'[p] = "joining"
      /\ \A s \in PThreads : s # p => pc'[s] = pc[s]
  BY <1>1, Moved DEF TableInv, Labels, Asking
<1>4. OnlyReq(p)
  BY <1>1, <1>3 DEF OnlyReq
<1>5. /\ joinid' \in [PThreads -> PThreads \cup {Nobody, "detached", "joined"}]
      /\ joinid'[q] = p /\ \A s \in PThreads : s # q => joinid'[s] = joinid[s]
  BY <1>1, <1>2 DEF TableInv, TypeInv, RestTyped
<1>6. TypeInv'
  <2>1. RestTyped' /\ tab' \in TabType /\ req' \in [PThreads -> ReqType]
    BY <1>1, <1>5 DEF TableInv, TypeInv, RestTyped
  <2>2. req[p].h \in born
    BY <1>1 DEF TableInv, TypeInv, Asking
  <2> QED BY <1>1, <1>3, <1>4, <2>1, <2>2, TypeStep DEF TableInv
<1>7. \A s \in PThreads :
        /\ Pending(s)' <=> Pending(s)
        /\ Alive(s)' <=> Alive(s)
        /\ Active(s)' <=> Active(s)
        /\ Starting(s)' => Starting(s) /\ req'[s] = req[s]
        /\ pc'[s] # "unborn" <=> pc[s] # "unborn"
        /\ pc'[s] = "gone" <=> pc[s] = "gone"
        /\ Awaited(s)' <=> Awaited(s)
        /\ joinid'[s] = "detached" <=> joinid[s] = "detached"
        /\ joinid'[s] = "joined" <=> joinid[s] = "joined"
  BY <1>1, <1>2, <1>3, <1>5, PThreadsAssumption
     DEF Pending, Alive, Active, Starting, Creating, Awaited
<1>8. SameHolders
  BY <1>7 DEF SameHolders, Holds, Marked
<1>9. HolderInv' /\ StartingInv' /\ OneHolder' /\ LastOwner' /\ ListsInv'
  BY <1>1, <1>8, Steady, SameTable
<1>10. AskInv'
  <2>1. ASSUME NEW s \in PThreads PROVE AskerAt(s)'
    <3>1. AskerAt(s) /\ (pc[s] \in Asking => req[s].tid \in PThreads)
      BY DEF TableInv, AskInv, AskerAt
    <3>2. CASE s = p
      BY <1>0, <1>1, <1>2, <1>3, <1>5, <1>7, <3>2 DEF AskerAt
    <3>3. CASE s # p
      <4>1. pc'[s] = pc[s] /\ req'[s] = req[s]
        BY <1>1, <1>3, <3>3
      <4>2. pc[s] = "joining" => req[s].tid # q
        BY <1>1, <3>1, PThreadsAssumption DEF AskerAt
      <4> QED BY <1>1, <1>5, <1>7, <3>1, <4>1, <4>2 DEF AskerAt, Asking
    <3> QED BY <3>2, <3>3
  <2>2. ASSUME NEW s \in PThreads PROVE AskedAt(s)'
    <3>1. AskedAt(s)
      BY DEF TableInv, AskInv
    <3>2. CASE s = q
      BY <1>0, <1>1, <1>2, <1>3, <1>5, <3>2 DEF AskedAt
    <3>3. CASE s # q
      BY <1>1, <1>3, <1>5, <1>7, <3>1, <3>3 DEF AskedAt
    <3> QED BY <3>2, <3>3
  <2>3. \A s, t \in PThreads : s # t /\ {pc'[s], pc'[t]} \subseteq {"joined", "detached"}
                               => req'[s].tid # req'[t].tid
    BY <1>1, <1>3 DEF TableInv, AskInv
  <2> QED BY <2>1, <2>2, <2>3 DEF AskInv
<1> QED BY <1>6, <1>9, <1>10 DEF TableInv

(* p has joined or detached the thread q, and is to see to its entry.         *)
LEMMA BecomesPending ==
  ASSUME TableInv, TypeInv', NEW p \in PThreads, NEW q \in PThreads, OnlyReq(p),
         NEW l \in {"joined", "detached"}, pc'[p] = l, pc[p] \in {"join", "joining", "detach"},
         req[p].tid = q, req'[p].tid = q, req'[p].h = req[p].h, self[q] = req[p].h,
         joinid[q] \in PThreads \cup {Nobody}, joinid[q] \in {p, Nobody},
         joinid' = [joinid EXCEPT ![q] = l], l = "joined" => pc[q] = "gone",
         joinid[q] = Nobody => pc[p] # "joining", tab' = tab, self' = self
  PROVE  TableInv'
<1>1. /\ pc[q] # "unborn" /\ p \in Joiners \cup Detachers
      /\ l = "joined" => q # p
      /\ joinid[q] \notin {"detached", "joined"} /\ p \notin {"detached", "joined", Nobody}
  BY PThreadsAssumption DEF TableInv, AskInv, AskerAt, Asking
<1>2. joinid'[q] = l /\ \A s \in PThreads : s # q => joinid'[s] = joinid[s]
  BY DEF TableInv, TypeInv, RestTyped
<1>3. \A s \in PThreads : pc[s] \in {"joined", "detached"} => req[s].tid # q
  BY <1>1 DEF TableInv, AskInv, AskerAt
<1>4. Pending(q)' /\ ~ Pending(q) /\ \A s \in PThreads : s # q => (Pending(s)' <=> Pending(s))
  BY <1>3 DEF Pending, OnlyReq
<1>5. \A s \in PThreads :
        /\ Alive(s)' <=> Alive(s)
        /\ Active(s)' <=> Active(s)
        /\ Starting(s)' => Starting(s) /\ req'[s] = req[s]
        /\ pc'[s] # "unborn" <=> pc[s] # "unborn"
        /\ pc'[s] = "gone" <=> pc[s] = "gone"
        /\ s # q => (Awaited(s)' <=> Awaited(s))
        /\ Awaited(s)' => Awaited(s)
        /\ s # q => (joinid'[s] = "detached" <=> joinid[s] = "detached")
  BY <1>1, <1>2 DEF OnlyReq, Alive, Active, Starting, Creating, Awaited
<1>6. SameHolders
  <2>1. ASSUME NEW s \in PThreads
        PROVE  (Holds(s)' => Holds(s)) /\ (Marked(s)' <=> Marked(s))
    <3>1. CASE s = q
      BY <1>1, <1>4, <1>5, <3>1 DEF Holds, Marked, Awaited
    <3>2. CASE s # q
      BY <1>4, <1>5, <3>2 DEF Holds, Marked
    <3> QED BY <3>1, <3>2
  <2> QED BY <1>5, <2>1 DEF SameHolders
<1>7. HolderInv' /\ StartingInv' /\ OneHolder' /\ LastOwner' /\ ListsInv'
  BY <1>6, Steady, SameTable
<1>8. AskInv'
  <2>1. ASSUME NEW s \in PThreads PROVE AskerAt(s)'
    <3>1. AskerAt(s)
      BY DEF TableInv, AskInv
    <3>2. CASE s = p
      <4>1. /\ pc'[q] # "unborn" /\ joinid'[q] = l /\ self'[q] = req'[p].h
            /\ l = "joined" => pc'[q] = "gone"
        BY <1>1, <1>2, <1>5
      <4> QED BY <1>1, <3>2, <4>1 DEF AskerAt, Asking
    <3>3. CASE s # p
      <4>1. pc'[s] = pc[s] /\ req'[s] = req[s]
        BY <3>3 DEF OnlyReq
      <4>2. pc[s] \in {"joining", "joined", "detached"} => req[s].tid # q
        BY <1>1, <1>3, <3>1, <3>3, PThreadsAssumption DEF AskerAt
      <4> QED BY <1>2, <1>5, <3>1, <4>1, <4>2 DEF AskerAt, Asking
    <3> QED BY <3>2, <3>3
  <2>2. ASSUME NEW s \in PThreads PROVE AskedAt(s)'
    <3>1. AskedAt(s)
      BY DEF TableInv, AskInv
    <3>2. CASE s = q
      BY <1>1, <1>2, <1>5, <3>2, PThreadsAssumption DEF AskedAt
    <3>3. CASE s # q
      BY <1>2, <1>5, <3>1, <3>3 DEF AskedAt, OnlyReq
    <3> QED BY <3>2, <3>3
  <2>3. \A s, t \in PThreads : s # t /\ {pc'[s], pc'[t]} \subseteq {"joined", "detached"}
                               => req'[s].tid # req'[t].tid
    <3> SUFFICES ASSUME NEW s \in PThreads, NEW t \in PThreads, s # t,
                        pc'[s] \in {"joined", "detached"}, pc'[t] \in {"joined", "detached"}
                 PROVE  req'[s].tid # req'[t].tid
      OBVIOUS
    <3>1. CASE s = p
      BY <1>3, <3>1 DEF OnlyReq
    <3>2. CASE t = p
      BY <1>3, <3>2 DEF OnlyReq
    <3>3. CASE s # p /\ t # p
      BY <3>3 DEF OnlyReq, TableInv, AskInv
    <3> QED BY <3>1, <3>2, <3>3
  <2> QED BY <2>1, <2>2, <2>3 DEF AskInv
<1> QED BY <1>7, <1>8 DEF TableInv

LEMMA JoinReturnsInv ==
  ASSUME TableInv, NEW p \in PThreads, JoinReturns(p)
  PROVE  TableInv'
<1>0. PICK q : q = req[p].tid
  OBVIOUS
<1> DEFINE r == [req[p] EXCEPT !.aliased = tab.aliased[req[p].h.slot], !.ball = req[q].ball]
<1>1. /\ pc[p] = "joining" /\ pc[q] = "gone" /\ tab' = tab /\ self' = self
      /\ joinid' = [joinid EXCEPT ![q] = "joined"]
      /\ thMutex' = thMutex /\ UNCHANGED <<aliasOf, balls, born, returned>>
      /\ Goto(p, "joined") /\ Ask(p, r)
  BY <1>0 DEF JoinReturns
<1>2. q \in PThreads /\ joinid[q] = p /\ self[q] = req[p].h /\ req[p].h \in born
  BY <1>0, <1>1 DEF TableInv, TypeInv, AskInv, AskerAt, Asking
<1>3. r \in ReqType /\ r.tid = q /\ r.h = req[p].h
  <2>1. /\ req[p] \in ReqType /\ req[q].ball \in BOOLEAN
        /\ tab.aliased[req[p].h.slot] \in BOOLEAN
    BY <1>2 DEF TableInv, TypeInv, RestTyped, ReqType, TabType, Ids
  <2> QED BY <1>0, <2>1 DEF ReqType
<1> HIDE DEF r
<1>4. /\ pc' \in [PThreads -> Labels] /\ pc'[p] = "joined"
      /\ \A s \in PThreads : s # p => pc'[s] = pc[s]
  BY <1>1, Moved DEF TableInv, Labels, Asking
<1>5. /\ req' \in [PThreads -> ReqType] /\ req'[p] = r
      /\ \A s \in PThreads : s # p => req'[s] = req[s]
  BY <1>1, <1>3, Asked DEF TableInv
<1>6. OnlyReq(p)
  BY <1>4, <1>5 DEF OnlyReq
<1>7. TypeInv'
  <2>1. RestTyped' /\ tab' \in TabType
    BY <1>1, <1>2 DEF TableInv, TypeInv, RestTyped
  <2> QED BY <1>1, <1>2, <1>3, <1>4, <1>5, <1>6, <2>1, TypeStep DEF TableInv
<1> QED BY <1>0, <1>1, <1>2, <1>3, <1>4, <1>5, <1>6, <1>7, PThreadsAssumption, BecomesPending

LEMMA PthreadDetachInv ==
  ASSUME TableInv, NoJoinRace, NEW p \in PThreads, PthreadDetach(p)
  PROVE  TableInv'
<1>0. PICK q : q = req[p].tid
  OBVIOUS
<1>1. /\ pc[p] = "detach" /\ tab' = tab /\ self' = self
      /\ thMutex' = thMutex /\ UNCHANGED <<aliasOf, balls, born, returned>>
      /\ joinid[q] \notin PThreads
  BY <1>0 DEF PthreadDetach, NoJoinRace
<1>2. q \in PThreads /\ (Awaited(q) => self[q] = req[p].h) /\ req[p].h \in born
  BY <1>0, <1>1 DEF TableInv, TypeInv, AskInv, AskerAt, Asking
<1>3. CASE joinid[q] \in {"detached", "joined"}
  <2>1. joinid' = joinid /\ Goto(p, "idle") /\ Ask(p, NoReq)
    BY <1>0, <1>3, PThreadsAssumption DEF PthreadDetach, Done
  <2>2. /\ pc' \in [PThreads -> Labels] /\ pc'[p] = "idle"
        /\ \A s \in PThreads : s # p => pc'[s] = pc[s]
    BY <2>1, Moved DEF TableInv, Labels
  <2>3. req' \in [PThreads -> ReqType] /\ \A s \in PThreads : s # p => req'[s] = req[s]
    BY <2>1, Asked, NoReqTyped DEF TableInv
  <2>4. OnlyReq(p)
    BY <2>2, <2>3 DEF OnlyReq
  <2>5. TypeInv'
    <3>1. RestTyped' /\ tab' \in TabType
      BY <1>1, <2>1 DEF TableInv, TypeInv, RestTyped
    <3> QED BY <1>1, <2>2, <2>3, <2>4, <3>1, TypeStep DEF TableInv, WithId, Creating, Asking
  <2> QED BY <1>1, <2>1, <2>2, <2>4, <2>5, SameTable, AloneStep
          DEF Alive, Active, Starting, Creating, Asking
<1>4. CASE joinid[q] = Nobody
  <2>1. joinid' = [joinid EXCEPT ![q] = "detached"] /\ Goto(p, "detached") /\ req' = req
    BY <1>0, <1>4, PThreadsAssumption DEF PthreadDetach
  <2>2. /\ pc' \in [PThreads -> Labels] /\ pc'[p] = "detached"
        /\ \A s \in PThreads : s # p => pc'[s] = pc[s]
    BY <2>1, Moved DEF TableInv, Labels, Asking
  <2>3. OnlyReq(p)
    BY <2>1, <2>2 DEF OnlyReq
  <2>4. TypeInv'
    <3>1. RestTyped' /\ tab' \in TabType /\ req' \in [PThreads -> ReqType]
      BY <1>1, <1>2, <2>1 DEF TableInv, TypeInv, RestTyped
    <3> QED BY <1>1, <1>2, <2>1, <2>2, <2>3, <3>1, TypeStep DEF TableInv
  <2>5. self[q] = req[p].h
    BY <1>2, <1>4, PThreadsAssumption DEF Awaited
  <2> QED BY <1>0, <1>1, <1>2, <1>4, <2>1, <2>2, <2>3, <2>4, <2>5, BecomesPending
<1> QED BY <1>1, <1>2, <1>3, <1>4 DEF TableInv, TypeInv, RestTyped

LEMMA JoinDeleteInv ==
  ASSUME TableInv, NEW p \in PThreads, JoinDelete(p)
  PROVE  TableInv'
<1>0. PICK q : q = req[p].tid
  OBVIOUS
<1>1. /\ pc[p] = "joined" /\ self' = self /\ req' = req /\ joinid' = joinid
      /\ thMutex' = thMutex /\ UNCHANGED <<aliasOf, balls, born, returned>>
      /\ Goto(p, "answer") /\ tab' = ThDelete(tab, req[p].h.slot)
  BY DEF JoinDelete, Elsewhere
<1>2. /\ q \in PThreads /\ joinid[q] = "joined" /\ pc[q] = "gone" /\ self[q] = req[p].h
      /\ req[p].h \in born
  BY <1>0, <1>1 DEF TableInv, TypeInv, AskInv, AskerAt, Asking
<1>3. /\ pc' \in [PThreads -> Labels] /\ pc'[p] = "answer"
      /\ \A s \in PThreads : s # p => pc'[s] = pc[s]
  BY <1>1, Moved DEF TableInv, Labels
<1>4. Pending(q) /\ Holds(q)
  BY <1>0, <1>1, <1>2 DEF Pending, Holds
<1>5. ~ Pending(q)' /\ \A s \in PThreads : s # q => (Pending(s)' <=> Pending(s))
  <2>1. \A s \in PThreads : s # p /\ pc[s] \in {"joined", "detached"} => req[s].tid # q
    BY <1>0, <1>1 DEF TableInv, AskInv
  <2> QED BY <1>0, <1>1, <1>3, <2>1 DEF Pending
<1>6. GivesUp(q)
  <2>1. ~ Holds(q)'
    BY <1>1, <1>2, <1>3, <1>5 DEF Holds, Alive, Awaited
  <2>2. ASSUME NEW s \in PThreads, s # q
        PROVE  /\ Holds(s)' => Holds(s)
               /\ Alive(s)' <=> Alive(s)
               /\ Marked(s)' <=> Marked(s)
               /\ Active(s)' => Active(s)
    BY <1>1, <1>3, <1>5, <2>2 DEF Holds, Alive, Awaited, Marked, Active
  <2>3. \A s \in PThreads : /\ pc[s] # "unborn" => pc'[s] # "unborn"
                            /\ Starting(s)' => Starting(s) /\ req'[s] = req[s]
    BY <1>1, <1>3 DEF Starting, Creating
  <2> QED BY <2>1, <2>2, <2>3 DEF GivesUp
<1>7. /\ ListsInv' /\ tab' \in TabType
      /\ HolderInv' /\ StartingInv' /\ OneHolder' /\ LastOwner'
  <2>1. PICK i : i = self[q].slot
    OBVIOUS
  <2> QED BY <1>1, <1>2, <1>4, <1>6, <2>1, GivenUp
<1>8. OnlyReq(p)
  BY <1>1, <1>3 DEF OnlyReq
<1>9. TypeInv'
  <2>1. RestTyped' /\ req' \in [PThreads -> ReqType]
    BY <1>1 DEF TableInv, TypeInv, RestTyped
  <2> QED BY <1>1, <1>2, <1>3, <1>7, <1>8, <2>1, TypeStep DEF TableInv, WithId
<1>10. AskInv'
  BY <1>1, <1>3, <1>8, SameAskers DEF Asking
<1> QED BY <1>7, <1>9, <1>10 DEF TableInv

(* The last step of thread_detach, of the thread q.                           *)
DetachesAt(p, q) ==
  /\ q \in PThreads /\ pc[p] = "detached" /\ req[p].tid = q
  /\ joinid[q] = "detached" /\ self[q] = req[p].h /\ Pending(q) /\ Holds(q) /\ HolderAt(q)
  /\ self' = self /\ joinid' = joinid /\ pc'[p] = "idle" /\ OnlyReq(p)
  /\ ~ Pending(q)' /\ \A s \in PThreads : s # q => (Pending(s)' <=> Pending(s))
  /\ tab' \in TabType => TypeInv'

LEMMA DetachTableStep ==
  ASSUME TableInv, NEW p \in PThreads, DetachTable(p), NEW q, q = req[p].tid
  PROVE  DetachesAt(p, q) /\ AskInv' /\ tab' = DetachEntry(tab, self[q].slot)
<1>1. /\ pc[p] = "detached" /\ self' = self /\ joinid' = joinid
      /\ thMutex' = thMutex /\ UNCHANGED <<born, returned>>
      /\ Goto(p, "idle") /\ Ask(p, NoReq) /\ tab' = DetachEntry(tab, req[p].h.slot)
      /\ aliasOf' \in {aliasOf, RemoveAliases(req[p].h)}
      /\ balls' \in {balls, RetractBalls(req[p].h)}
  BY DEF DetachTable, Done
<1>2. /\ q \in PThreads /\ joinid[q] = "detached" /\ self[q] = req[p].h
      /\ req[p].h \in born
  BY <1>1 DEF TableInv, TypeInv, AskInv, AskerAt, Asking
<1>3. /\ pc' \in [PThreads -> Labels] /\ pc'[p] = "idle"
      /\ \A s \in PThreads : s # p => pc'[s] = pc[s]
  BY <1>1, Moved DEF TableInv, Labels
<1>4. req' \in [PThreads -> ReqType] /\ \A s \in PThreads : s # p => req'[s] = req[s]
  BY <1>1, Asked, NoReqTyped DEF TableInv
<1>5. OnlyReq(p)
  BY <1>3, <1>4 DEF OnlyReq
<1>6. Pending(q) /\ Holds(q) /\ HolderAt(q)
  <2>1. Pending(q)
    BY <1>1 DEF Pending
  <2>2. pc[q] # "unborn"
    BY <1>1 DEF TableInv, AskInv, AskerAt, Asking
  <2> QED BY <1>2, <2>1, <2>2 DEF Holds, TableInv, HolderInv
<1>7. ~ Pending(q)' /\ \A s \in PThreads : s # q => (Pending(s)' <=> Pending(s))
  <2>1. \A s \in PThreads : s # p /\ pc[s] \in {"joined", "detached"} => req[s].tid # q
    BY <1>1 DEF TableInv, AskInv
  <2> QED BY <1>1, <1>3, <1>4, <2>1 DEF Pending
<1>8. RestTyped'
  <2>1. aliasOf' \in [Aliases -> Ids \cup {NoId}]
    BY <1>1 DEF TableInv, TypeInv, RestTyped, RemoveAliases
  <2>2. balls' \in Seq(born)
    BY <1>1, <1>2, RetractedTyped DEF TableInv, TypeInv, RestTyped
  <2> QED BY <1>1, <2>1, <2>2 DEF TableInv, TypeInv, RestTyped
<1>9. ASSUME tab' \in TabType PROVE TypeInv'
  BY <1>1, <1>3, <1>4, <1>5, <1>8, <1>9, TypeStep DEF TableInv, WithId, Creating, Asking
<1>10. AskInv'
  BY <1>1, <1>3, <1>5, SameAskers DEF Asking
<1> QED BY <1>1, <1>2, <1>3, <1>5, <1>6, <1>7, <1>9, <1>10 DEF DetachesAt

LEMMA DetachDeletesInv ==
  ASSUME TableInv, NEW p \in PThreads, DetachTable(p),
         NEW q, q = req[p].tid, tab.exited[self[q].slot]
  PROVE  TableInv'
<1>1. DetachesAt(p, q) /\ AskInv' /\ tab' = DetachEntry(tab, self[q].slot)
  BY DetachTableStep
<1>2. q \in PThreads /\ Holds(q) /\ ~ Alive(q) /\ self' = self
  BY <1>1 DEF DetachesAt, HolderAt
<1>3. p # q /\ pc[p] = "detached" /\ pc'[p] = "idle"
  BY <1>1, <1>2 DEF DetachesAt, Alive
<1>4. GivesUp(q)
  <2>1. ~ Holds(q)'
    BY <1>1, <1>2, <1>3 DEF DetachesAt, OnlyReq, Holds, Alive, Awaited
  <2>2. ASSUME NEW s \in PThreads, s # q
        PROVE  /\ Holds(s)' => Holds(s)
               /\ Alive(s)' <=> Alive(s)
               /\ Marked(s)' <=> Marked(s)
               /\ Active(s)' => Active(s)
    <3>1. /\ Pending(s)' <=> Pending(s)
          /\ joinid' = joinid
          /\ pc'[s] = pc[s] \/ {pc'[s], pc[s]} \subseteq {"idle", "detached"}
      BY <1>1, <1>3, <2>2 DEF DetachesAt, OnlyReq
    <3> QED BY <3>1 DEF Holds, Alive, Awaited, Marked, Active
  <2>3. \A s \in PThreads : /\ pc[s] # "unborn" => pc'[s] # "unborn"
                            /\ Starting(s)' => Starting(s) /\ req'[s] = req[s]
    BY <1>1, <1>3 DEF DetachesAt, OnlyReq, Starting, Creating
  <2> QED BY <2>1, <2>2, <2>3 DEF GivesUp
<1>5. /\ ListsInv' /\ tab' \in TabType
      /\ HolderInv' /\ StartingInv' /\ OneHolder' /\ LastOwner'
  <2>1. PICK i : i = self[q].slot
    OBVIOUS
  <2>2. tab' = ThDelete(tab, i)
    BY <1>1, <2>1 DEF DetachEntry
  <2> QED BY <1>2, <1>4, <2>1, <2>2, GivenUp
<1> QED BY <1>1, <1>5 DEF TableInv, DetachesAt

LEMMA DetachMarksInv ==
  ASSUME TableInv, NEW p \in PThreads, DetachTable(p),
         NEW q, q = req[p].tid, ~ tab.exited[self[q].slot]
  PROVE  TableInv'
<1>0. PICK i : i = self[q].slot
  OBVIOUS
<1>1. DetachesAt(p, q) /\ AskInv' /\ tab' = DetachEntry(tab, i)
  BY <1>0, DetachTableStep
<1>2. /\ q \in PThreads /\ Holds(q) /\ Alive(q) /\ HolderAt(q)
      /\ self' = self /\ joinid' = joinid /\ joinid[q] = "detached" /\ ~ Pending(q)'
      /\ pc[p] = "detached" /\ pc'[p] = "idle"
      /\ \A s \in PThreads : s # p => pc'[s] = pc[s] /\ req'[s] = req[s]
  BY <1>1 DEF DetachesAt, HolderAt, OnlyReq
<1>3. Live(tab) \subseteq Slots /\ i \in Slots
  BY <1>0, <1>2 DEF TableInv, ListsInv, Lists, IsList, HolderAt
<1>4. /\ tab' \in TabType /\ tab'.detached[i]
      /\ \A j \in Slots : j # i => tab'.detached[j] = tab.detached[j]
      /\ tab'.next = tab.next /\ tab'.prev = tab.prev /\ tab'.first = tab.first
      /\ tab'.free = tab.free /\ tab'.last = tab.last /\ tab'.incarn = tab.incarn
      /\ tab'.exited = tab.exited /\ tab'.tid = tab.tid /\ tab'.valid = tab.valid
  <2> DEFINE d == [tab.detached EXCEPT ![i] = TRUE]
  <2>1. tab \in TabType
    BY DEF TableInv, TypeInv
  <2>2. tab' = [tab EXCEPT !.detached = d]
    BY <1>0, <1>1, <2>1 DEF DetachEntry, TabType
  <2>3. d \in [Slots -> BOOLEAN] /\ d[i] /\ \A j \in Slots : j # i => d[j] = tab.detached[j]
    BY <1>3, <2>1 DEF TabType
  <2> HIDE DEF d
  <2> QED BY <2>1, <2>2, <2>3 DEF TabType
<1>5. Lists(tab', Live(tab), Unused(tab))
  BY <1>4 DEF TableInv, ListsInv, Lists
<1>6. Live(tab') = Live(tab) /\ ListsInv'
  BY <1>5, ListsAreReached DEF ListsInv
<1>7. \A s \in PThreads :
        /\ Alive(s)' <=> Alive(s)
        /\ Active(s)' <=> Active(s)
        /\ Starting(s)' => Starting(s) /\ req'[s] = req[s]
        /\ pc[s] # "unborn" <=> pc'[s] # "unborn"
        /\ s # q => (Pending(s)' <=> Pending(s))
  BY <1>1, <1>2 DEF DetachesAt, Alive, Active, Starting, Creating
<1>8. \A s \in PThreads : /\ Holds(s)' => Holds(s)
                          /\ s # q => (Marked(s)' <=> Marked(s))
  BY <1>2, <1>7 DEF Holds, Marked, Awaited
<1>9. HolderInv'
  <2> SUFFICES ASSUME NEW s \in PThreads, Holds(s)'
               PROVE  HolderAt(s)'
    BY DEF HolderInv
  <2>1. HolderAt(s) /\ Holds(s)
    BY <1>8 DEF TableInv, HolderInv
  <2>2. CASE s = q
    <3>1. Marked(q)'
      BY <1>2 DEF Marked
    <3> QED BY <1>0, <1>2, <1>4, <1>6, <1>7, <2>1, <2>2, <3>1 DEF HolderAt
  <2>3. CASE s # q
    <3>1. self[s].slot # i
      BY <1>0, <1>2, <2>1, <2>3 DEF TableInv, OneHolder
    <3> QED BY <1>2, <1>3, <1>4, <1>6, <1>7, <1>8, <2>1, <2>3, <3>1 DEF HolderAt
  <2> QED BY <2>2, <2>3
<1>10. StartingInv'
  <2> SUFFICES ASSUME NEW s \in PThreads, Starting(s)'
               PROVE  StartingAt(s)'
    BY DEF StartingInv
  <2>1. StartingAt(s) /\ req'[s] = req[s] /\ req[s].h.slot # i
    BY <1>0, <1>2, <1>7 DEF TableInv, StartingInv, OneHolder
  <2> QED BY <1>3, <1>4, <1>6, <2>1 DEF StartingAt
<1>11. OneHolder'
  BY <1>2, <1>7, <1>8 DEF TableInv, OneHolder
<1>12. LastOwner'
  <2> SUFFICES ASSUME NEW j \in Slots, tab'.tid[j] # Nobody
               PROVE  pc'[tab'.tid[j]] # "unborn" /\ self'[tab'.tid[j]].slot = j
    BY DEF LastOwner
  <2>1. tab.tid[j] \in PThreads
    BY <1>4 DEF TableInv, TypeInv, TabType
  <2> QED BY <1>2, <1>4, <1>7, <2>1 DEF TableInv, LastOwner
<1> QED BY <1>1, <1>4, <1>6, <1>9, <1>10, <1>11, <1>12 DEF TableInv, DetachesAt

-----------------------------------------------------------------------------
(* The steps that make an entry and a thread.                                 *)

LEMMA SetupInv ==
  ASSUME RoomLeft, TableInv, NEW p \in PThreads, NEW d \in Modes,
         NEW a \in Aliases \cup {Nobody}, Setup(p, d, a)
  PROVE  TableInv'
<1>0. PICK pos : pos = tab.free
  OBVIOUS
<1>1. PICK h : h = [slot |-> pos, incarn |-> tab'.incarn[pos]]
  OBVIOUS
<1> DEFINE r == [NoReq EXCEPT !.kind = "create", !.h = h, !.alias = a, !.detached = d]
<1>2. /\ pc[p] = "idle" /\ self' = self /\ joinid' = joinid /\ thMutex' = p
      /\ UNCHANGED <<aliasOf, balls, returned>> /\ Goto(p, "counting")
      /\ Cardinality(Live(tab)) < MaxLive /\ tab' = ThNew(tab, Nobody, d, a # Nobody)
  BY DEF Setup, Live
<1>3. Ask(p, r) /\ born' = born \cup {h}
  BY <1>0, <1>1 DEF Setup, IdOf
<1>4. d \in BOOLEAN
  BY ModesAssumption
<1>5. /\ pos \in Unused(tab) /\ pos \in Slots
      /\ tab' \in TabType /\ Lists(tab', Live(tab) \cup {pos}, Unused(tab) \ {pos})
      /\ IsFresh(tab, tab', pos, d)
  <2> DEFINE live == Live(tab)  free == Unused(tab)  al == (a # Nobody)
  <2>1. /\ tab \in TabType /\ Lists(tab, live, free) /\ Cardinality(live) < MaxLive
        /\ al \in BOOLEAN /\ tab' = ThNew(tab, Nobody, d, al) /\ Nobody \in PThreads \cup {Nobody}
    BY <1>2 DEF TableInv, TypeInv, ListsInv
  <2> HIDE DEF live, free, al
  <2>2. /\ pos \in free /\ pos \in Slots
        /\ tab' \in TabType /\ Lists(tab', live \cup {pos}, free \ {pos})
        /\ IsFresh(tab, tab', pos, d)
    BY <1>0, <1>4, <2>1, ThNewLists
  <2> QED BY <2>2 DEF live, free
<1>6. /\ Live(tab') = Live(tab) \cup {pos} /\ ListsInv'
      /\ Live(tab) \subseteq Slots /\ pos \notin Live(tab)
  <2>1. Live(tab') = Live(tab) \cup {pos} /\ Unused(tab') = Unused(tab) \ {pos}
    BY <1>5, ListsAreReached
  <2>2. ListsInv'
    BY <1>5, <2>1 DEF ListsInv
  <2>3. Live(tab) \subseteq Slots /\ Live(tab) \cap Unused(tab) = {}
    BY DEF ListsInv, TableInv, Lists, IsList
  <2> QED BY <1>5, <2>1, <2>2, <2>3
<1>7. h \in Ids /\ h.slot = pos /\ h.incarn = tab'.incarn[pos]
  BY <1>1, <1>5 DEF TabType, Ids
<1>8. r \in ReqType /\ r.h = h /\ r.detached = d
  BY <1>4, <1>7 DEF NoReq, ReqType
<1> HIDE DEF r
<1>9. /\ pc' \in [PThreads -> Labels] /\ pc'[p] = "counting"
      /\ \A s \in PThreads : s # p => pc'[s] = pc[s]
  BY <1>2, Moved DEF TableInv, Labels, Creating
<1>10. /\ req' \in [PThreads -> ReqType] /\ req'[p] = r
       /\ \A s \in PThreads : s # p => req'[s] = req[s]
  BY <1>3, <1>8, Asked DEF TableInv
<1>11. OnlyReq(p)
  BY <1>9, <1>10 DEF OnlyReq
<1>12. TypeInv'
  <2>1. RestTyped'
    <3>1. balls' \in Seq(born')
      BY <1>2, <1>3, SeqMonotone DEF TableInv, TypeInv, RestTyped
    <3> QED BY <1>2, <1>3, <1>7, <3>1 DEF TableInv, TypeInv, RestTyped
  <2>2. born \subseteq born' /\ req'[p].h \in born'
    BY <1>3, <1>8, <1>10
  <2> QED BY <1>2, <1>5, <1>9, <1>10, <1>11, <2>1, <2>2, TypeStep DEF TableInv
<1>13. \A s \in PThreads :
         /\ Pending(s)' <=> Pending(s)
         /\ Alive(s)' <=> Alive(s)
         /\ Active(s)' <=> Active(s)
         /\ s # p => (Starting(s)' <=> Starting(s)) /\ req'[s] = req[s]
         /\ pc'[s] # "unborn" <=> pc[s] # "unborn"
  BY <1>2, <1>9, <1>10 DEF Pending, Alive, Active, Starting, Creating
<1>14. \A s \in PThreads : (Holds(s)' <=> Holds(s)) /\ (Marked(s)' <=> Marked(s))
  BY <1>2, <1>13 DEF Holds, Marked, Awaited
<1>15. \A i \in Slots : i # pos => /\ tab'.incarn[i] = tab.incarn[i] /\ tab'.valid[i] = tab.valid[i]
                                   /\ tab'.exited[i] = tab.exited[i]
                                   /\ tab'.detached[i] = tab.detached[i]
  BY <1>5 DEF IsFresh, StatusKept
<1>16. tab'.tid = tab.tid /\ tab'.detached[pos] = d /\ tab'.exited[pos] = FALSE
  BY <1>5 DEF IsFresh
<1>17. HolderInv'
  <2> SUFFICES ASSUME NEW s \in PThreads, Holds(s)'
               PROVE  HolderAt(s)'
    BY DEF HolderInv
  <2>1. HolderAt(s)
    BY <1>14 DEF TableInv, HolderInv
  <2>2. self[s].slot \in Slots /\ self[s].slot # pos
    BY <1>6, <2>1 DEF HolderAt
  <2> QED BY <1>2, <1>6, <1>13, <1>14, <1>15, <1>16, <2>1, <2>2 DEF HolderAt
<1>18. StartingInv'
  <2> SUFFICES ASSUME NEW s \in PThreads, Starting(s)'
               PROVE  StartingAt(s)'
    BY DEF StartingInv
  <2>1. CASE s = p
    BY <1>6, <1>7, <1>8, <1>10, <1>16, <2>1 DEF StartingAt
  <2>2. CASE s # p
    <3>1. StartingAt(s) /\ req'[s] = req[s]
      BY <1>13, <2>2 DEF TableInv, StartingInv
    <3>2. req[s].h.slot \in Slots /\ req[s].h.slot # pos
      BY <1>6, <3>1 DEF StartingAt
    <3> QED BY <1>6, <1>15, <3>1, <3>2 DEF StartingAt
  <2> QED BY <2>1, <2>2
<1>19. OneHolder'
  <2>1. req'[p].h.slot = pos
    BY <1>7, <1>8, <1>10
  <2>2. ASSUME NEW s \in PThreads, Holds(s)' PROVE self'[s] = self[s] /\ self[s].slot # pos
    BY <1>2, <1>6, <1>14, <2>2 DEF TableInv, HolderInv, HolderAt
  <2>3. ASSUME NEW s \in PThreads, s # p, Starting(s)'
        PROVE  Starting(s) /\ req'[s] = req[s] /\ req[s].h.slot # pos
    BY <1>6, <1>13, <2>3 DEF TableInv, StartingInv, StartingAt
  <2> QED BY <1>14, <2>1, <2>2, <2>3 DEF TableInv, OneHolder
<1>20. LastOwner'
  <2> SUFFICES ASSUME NEW j \in Slots, tab'.tid[j] # Nobody
               PROVE  pc'[tab'.tid[j]] # "unborn" /\ self'[tab'.tid[j]].slot = j
    BY DEF LastOwner
  <2>1. tab.tid[j] \in PThreads
    BY <1>16 DEF TableInv, TypeInv, TabType
  <2> QED BY <1>2, <1>13, <1>16, <2>1 DEF TableInv, LastOwner
<1>21. AskInv'
  BY <1>2, <1>9, <1>11, SameAskers DEF Asking
<1> QED BY <1>6, <1>12, <1>17, <1>18, <1>19, <1>20, <1>21 DEF TableInv

LEMMA SpawnInv ==
  ASSUME TableInv, NEW p \in PThreads, NEW c \in PThreads, Spawn(p, c)
  PROVE  TableInv'
<1>0. PICK i : i = req[p].h.slot
  OBVIOUS
<1>1. /\ pc[p] = "spawn" /\ pc[c] = "unborn" /\ c # p /\ req' = req
      /\ thMutex' = thMutex /\ UNCHANGED <<aliasOf, balls, born, returned>>
      /\ pc' = [pc EXCEPT ![p] = "mark", ![c] = "born"]
      /\ self' = [self EXCEPT ![c] = req[p].h]
      /\ joinid' = [joinid EXCEPT ![c] = IF req[p].detached THEN "detached" ELSE Nobody]
      /\ tab' = [tab EXCEPT !.tid[i] = c, !.ctxt[i] = c]
  BY <1>0 DEF Spawn
<1>2. Starting(p) /\ StartingAt(p) /\ req[p].h \in born /\ req[p].h \in Ids
  BY <1>1 DEF Starting, Creating, TableInv, StartingInv, TypeInv, RestTyped
<1>3. Live(tab) \subseteq Slots /\ i \in Live(tab) /\ i \in Slots
  BY <1>0, <1>2 DEF TableInv, ListsInv, Lists, IsList, StartingAt
<1>4. /\ pc' \in [PThreads -> Labels] /\ pc'[p] = "mark" /\ pc'[c] = "born"
      /\ \A s \in PThreads : s \notin {p, c} => pc'[s] = pc[s]
  BY <1>1 DEF TableInv, TypeInv, Labels
<1>5. /\ self' \in [PThreads -> Ids \cup {NoId}] /\ self'[c] = req[p].h
      /\ \A s \in PThreads : s # c => self'[s] = self[s]
  BY <1>1, <1>2 DEF TableInv, TypeInv
<1>6. /\ joinid' \in [PThreads -> PThreads \cup {Nobody, "detached", "joined"}]
      /\ joinid'[c] = (IF req[p].detached THEN "detached" ELSE Nobody)
      /\ \A s \in PThreads : s # c => joinid'[s] = joinid[s]
  BY <1>1 DEF TableInv, TypeInv, RestTyped
<1>7. /\ tab' \in TabType /\ tab'.tid[i] = c
      /\ \A j \in Slots : j # i => tab'.tid[j] = tab.tid[j]
      /\ tab'.next = tab.next /\ tab'.prev = tab.prev /\ tab'.first = tab.first
      /\ tab'.free = tab.free /\ tab'.last = tab.last /\ tab'.incarn = tab.incarn
      /\ tab'.exited = tab.exited /\ tab'.detached = tab.detached /\ tab'.valid = tab.valid
  <2> DEFINE t == [tab.tid EXCEPT ![i] = c]
             x == [tab.ctxt EXCEPT ![i] = c]
  <2>1. tab \in TabType
    BY DEF TableInv, TypeInv
  <2>2. tab' = [tab EXCEPT !.tid = t, !.ctxt = x]
    BY <1>1, <2>1 DEF TabType
  <2>3. /\ t \in [Slots -> PThreads \cup {Nobody}] /\ x \in [Slots -> PThreads \cup {Nobody}]
        /\ t[i] = c /\ \A j \in Slots : j # i => t[j] = tab.tid[j]
    BY <1>3, <2>1 DEF TabType
  <2> HIDE DEF t, x
  <2> QED BY <2>1, <2>2, <2>3 DEF TabType
<1>8. Lists(tab', Live(tab), Unused(tab))
  BY <1>7 DEF TableInv, ListsInv, Lists
<1>9. Live(tab') = Live(tab) /\ ListsInv'
  BY <1>8, ListsAreReached DEF ListsInv
<1>10. TypeInv'
  <2>1. RestTyped' /\ req' \in [PThreads -> ReqType]
    BY <1>1, <1>6 DEF TableInv, TypeInv, RestTyped
  <2>2. \A s \in PThreads :
          /\ pc'[s] # "unborn" => self'[s] \in born'
          /\ pc'[s] \in WithId => req'[s].h \in born'
          /\ pc'[s] = "alias" => req'[s].alias \in Aliases
    BY <1>1, <1>2, <1>4, <1>5 DEF TableInv, TypeInv, WithId, Creating, Asking
  <2> QED BY <1>4, <1>5, <1>7, <2>1, <2>2 DEF TypeInv, WithId
<1>11. \A s \in PThreads : pc[s] \in Asking => req[s].tid # c /\ req[s].tid \in PThreads
  BY <1>1 DEF TableInv, AskInv, AskerAt
<1>12. \A s \in PThreads : Pending(s)' <=> Pending(s)
  BY <1>1, <1>4 DEF Pending
<1>13. ~ Pending(c)'
  BY <1>11, <1>12 DEF Pending, Asking
<1>14. \A s \in PThreads : s # c =>
         /\ Alive(s)' <=> Alive(s)
         /\ Active(s)' => Active(s)
         /\ Starting(s)' => Starting(s) /\ s # p
         /\ pc'[s] # "unborn" <=> pc[s] # "unborn"
         /\ pc'[s] = "gone" <=> pc[s] = "gone"
  BY <1>1, <1>4 DEF Alive, Active, Starting, Creating
<1>15. \A s \in PThreads : s # c => /\ Holds(s)' <=> Holds(s)
                                    /\ Marked(s)' <=> Marked(s)
  BY <1>6, <1>12, <1>14 DEF Holds, Marked, Awaited
<1>16. Alive(c)' /\ ~ Active(c)' /\ ~ Starting(c)'
  BY <1>4 DEF Alive, Active, Starting, Creating
<1>17. Marked(c)' <=> req[p].detached
  BY <1>6, <1>13, PThreadsAssumption DEF Marked
<1>18. HolderInv'
  <2> SUFFICES ASSUME NEW s \in PThreads, Holds(s)'
               PROVE  HolderAt(s)'
    BY DEF HolderInv
  <2>1. CASE s = c
    BY <1>0, <1>2, <1>3, <1>5, <1>7, <1>9, <1>16, <1>17, <2>1 DEF HolderAt, StartingAt
  <2>2. CASE s # c
    <3>1. HolderAt(s) /\ self[s].slot # i
      BY <1>0, <1>2, <1>15, <2>2 DEF TableInv, HolderInv, OneHolder
    <3>2. self[s].slot \in Slots
      BY <1>3, <3>1 DEF HolderAt
    <3> QED BY <1>5, <1>7, <1>9, <1>14, <1>15, <2>2, <3>1, <3>2 DEF HolderAt
  <2> QED BY <2>1, <2>2
<1>19. StartingInv'
  <2> SUFFICES ASSUME NEW s \in PThreads, Starting(s)'
               PROVE  StartingAt(s)'
    BY DEF StartingInv
  <2>1. StartingAt(s)
    BY <1>14, <1>16 DEF TableInv, StartingInv
  <2> QED BY <1>1, <1>7, <1>9, <2>1 DEF StartingAt
<1>20. OneHolder'
  <2>1. self'[c].slot = i
    BY <1>0, <1>5
  <2>2. ASSUME NEW s \in PThreads, Holds(s)', s # c
        PROVE  Holds(s) /\ self'[s] = self[s] /\ self[s].slot # i
    BY <1>0, <1>2, <1>5, <1>15, <2>2 DEF TableInv, OneHolder
  <2>3. ASSUME NEW s \in PThreads, Starting(s)'
        PROVE  Starting(s) /\ req'[s] = req[s] /\ req[s].h.slot # i
    BY <1>0, <1>1, <1>2, <1>14, <1>16, <2>3 DEF TableInv, OneHolder
  <2> QED BY <2>1, <2>2, <2>3 DEF TableInv, OneHolder
<1>21. LastOwner'
  <2> SUFFICES ASSUME NEW j \in Slots, tab'.tid[j] # Nobody
               PROVE  pc'[tab'.tid[j]] # "unborn" /\ self'[tab'.tid[j]].slot = j
    BY DEF LastOwner
  <2>1. CASE j = i
    BY <1>0, <1>4, <1>5, <1>7, <2>1
  <2>2. CASE j # i
    <3>1. tab'.tid[j] = tab.tid[j] /\ tab.tid[j] \in PThreads
      BY <1>7, <2>2 DEF TableInv, TypeInv, TabType
    <3>2. pc[tab.tid[j]] # "unborn" /\ self[tab.tid[j]].slot = j
      BY <3>1 DEF TableInv, LastOwner
    <3> QED BY <1>1, <1>5, <1>14, <3>1, <3>2
  <2> QED BY <2>1, <2>2
<1>22. AskInv'
  <2>1. ASSUME NEW s \in PThreads PROVE AskerAt(s)'
    <3>1. CASE pc'[s] \in Asking
      <4>1. pc'[s] = pc[s] /\ req'[s] = req[s] /\ AskerAt(s)
        BY <1>1, <1>4, <3>1 DEF Asking, TableInv, AskInv
      <4> QED BY <1>5, <1>6, <1>11, <1>14, <3>1, <4>1 DEF AskerAt, Awaited, Asking
    <3>2. CASE pc'[s] \notin Asking
      BY <3>2 DEF AskerAt, Asking
    <3> QED BY <3>1, <3>2
  <2>2. ASSUME NEW s \in PThreads PROVE AskedAt(s)'
    <3>1. CASE s = c
      BY <1>6, <3>1, PThreadsAssumption DEF AskedAt
    <3>2. CASE s # c
      <4>1. AskedAt(s) /\ joinid'[s] = joinid[s]
        BY <1>6, <3>2 DEF TableInv, AskInv
      <4> QED BY <1>1, <1>4, <1>14, <3>2, <4>1 DEF AskedAt
    <3> QED BY <3>1, <3>2
  <2>3. \A s, t \in PThreads : s # t /\ {pc'[s], pc'[t]} \subseteq {"joined", "detached"}
                               => req'[s].tid # req'[t].tid
    BY <1>1, <1>4 DEF TableInv, AskInv
  <2> QED BY <2>1, <2>2, <2>3 DEF AskInv
<1> QED BY <1>9, <1>10, <1>18, <1>19, <1>20, <1>21, <1>22 DEF TableInv

-----------------------------------------------------------------------------
(* The specification.                                                         *)

LEMMA NextInv ==
  ASSUME RoomLeft, TableInv, Undisturbed, NoFailedCreation', [Next]_vars
  PROVE  TableInv'
<1>1. CASE UNCHANGED vars
  <2>1. /\ tab' = tab /\ pc' = pc /\ self' = self /\ req' = req /\ joinid' = joinid
        /\ thMutex' = thMutex /\ UNCHANGED <<aliasOf, balls, born, returned>>
    BY <1>1 DEF vars
  <2>2. TypeInv'
    BY <2>1 DEF TableInv, TypeInv, RestTyped
  <2>3. SameHolders
    BY <2>1 DEF SameHolders, Holds, Alive, Awaited, Pending, Marked, Active, Starting
  <2>4. AskInv'
    BY <2>1 DEF TableInv, AskInv, AskerAt, AskedAt, Awaited
  <2> QED BY <2>1, <2>2, <2>3, <2>4, SameTable, Steady DEF TableInv
<1>2. ASSUME NEW p \in PThreads, Call(p) PROVE TableInv'
  <2>1. ASSUME NEW d \in Modes, NEW a \in Aliases \cup {Nobody}, Setup(p, d, a) PROVE TableInv'
    BY <2>1, SetupInv
  <2>2. ASSUME NEW b \in BOOLEAN, LeaveProlog(p, b) PROVE TableInv'
    BY <2>2, LeavePrologInv
  <2>3. ASSUME NEW h \in born, JoinGet(p, h) \/ DetachGet(p, h) PROVE TableInv'
    BY <2>3, GetInv
  <2> QED BY <1>2, <2>1, <2>2, <2>3 DEF Call
<1>3. ASSUME NEW p \in PThreads, Continue(p) PROVE TableInv'
  <2>1. /\ pc[p] \in Labels /\ pc[p] \notin {"markfailed", "clash"}
        /\ pc'[p] \notin {"markfailed", "clash"} /\ pc \in [PThreads -> Labels]
    BY DEF TableInv, TypeInv, Undisturbed, NoFailedCreation
  <2>2. ~ (SpawnFails(p) \/ Undo(p) \/ UndoUnlink(p) \/ UndoLink(p) \/ UndoToFree(p))
    BY <2>1 DEF SpawnFails, Goto, Undo, UndoUnlink, UndoLink, UndoToFree, Labels, Creating,
                Asking, Leaving
  <2>3. CASE EndSetup(p) \/ AddAlias(p) \/ Mark(p) \/ RunThread(p)
    BY <2>1, <2>3, EndSetupInv, AddAliasInv, MarkInv, RunThreadInv
  <2>4. ASSUME NEW c \in PThreads, Spawn(p, c) PROVE TableInv'
    BY <2>4, SpawnInv
  <2>5. CASE ExitTable(p) \/ Uncount(p) \/ PthreadExit(p)
    BY <2>5, ExitDeletes, ExitKeeps, UncountInv
  <2>6. CASE JoinRefused(p) \/ JoinWaits(p) \/ JoinReturns(p) \/ JoinDelete(p) \/ JoinAnswer(p)
    BY <2>6, JoinRefusedInv, JoinWaitsInv, JoinReturnsInv, JoinDeleteInv, JoinAnswerInv
       DEF Undisturbed
  <2>7. CASE PthreadDetach(p) \/ DetachTable(p)
    BY <2>7, PthreadDetachInv, DetachDeletesInv, DetachMarksInv DEF Undisturbed
  <2> QED BY <1>3, <2>2, <2>3, <2>4, <2>5, <2>6, <2>7 DEF Continue
<1> QED BY <1>1, <1>2, <1>3 DEF Next

(* What a single joiner and detacher cannot do.                               *)
LEMMA OneJoinerNoRace == ASSUME OneJoiner, TableInv PROVE NoJoinRace
<1> SUFFICES ASSUME NEW p \in PThreads
             PROVE  /\ pc[p] = "detach" => joinid[req[p].tid] \notin PThreads
                    /\ pc[p] = "join" => ~ WouldDeadlock(p, req[p].tid)
  BY DEF NoJoinRace
<1>1. ASSUME pc[p] = "detach" PROVE joinid[req[p].tid] \notin PThreads
  <2> SUFFICES ASSUME joinid[req[p].tid] \in PThreads PROVE FALSE
    OBVIOUS
  <2>1. p \in Joiners \cup Detachers /\ req[p].tid \in PThreads
    BY <1>1 DEF TableInv, AskInv, AskerAt, Asking
  <2>2. PICK s \in PThreads : s = joinid[req[p].tid]
    OBVIOUS
  <2>3. pc[s] = "joining" /\ s \in Joiners \cup Detachers
    BY <2>1, <2>2 DEF TableInv, AskInv, AskedAt, AskerAt, Asking
  <2>4. s = p
    BY <2>1, <2>3 DEF OneJoiner
  <2> QED BY <1>1, <2>3, <2>4
<1>2. ASSUME pc[p] = "join" PROVE ~ WouldDeadlock(p, req[p].tid)
  <2>1. p # req[p].tid /\ p \in Joiners \cup Detachers /\ req[p].tid \in PThreads
    BY <1>2 DEF TableInv, AskInv, AskerAt, Asking, OneJoiner
  <2>2. joinid[p] # req[p].tid
    <3> SUFFICES ASSUME joinid[p] = req[p].tid PROVE FALSE
      OBVIOUS
    <3>1. pc[req[p].tid] = "joining" /\ req[p].tid \in Joiners \cup Detachers
      BY <2>1 DEF TableInv, AskInv, AskedAt, AskerAt, Asking
    <3> QED BY <2>1, <3>1 DEF OneJoiner
  <2> QED BY <2>1, <2>2 DEF WouldDeadlock
<1> QED BY <1>1, <1>2

(* While the table has room, TableInv is an invariant.                        *)
THEOREM TableInvariant == ASSUME RoomLeft PROVE Spec /\ []Undisturbed => []TableInv
<1>1. Init => TableInv
  BY InitInv
<1>2. TableInv /\ Undisturbed /\ Undisturbed' /\ [Next]_vars => TableInv'
  BY NextInv DEF Undisturbed
<1> QED BY <1>1, <1>2, PTL DEF Spec

(* Every field of th_vec, and every register of a request, keeps its type: no *)
(* request follows a link or an id out of the table.                          *)
THEOREM TypesHold == ASSUME RoomLeft PROVE Spec /\ []Undisturbed => []TypeOK
<1>1. TableInv => TypeOK
  BY TableInvImplies
<1> QED BY <1>1, TableInvariant, PTL

(* The list of threads and the free list of th_vec stay two lists, with every *)
(* entry on one of them and prev_entry true on the former.                    *)
THEOREM ListsStayApart == ASSUME RoomLeft PROVE Spec /\ []Undisturbed => []ListsPartition
<1>1. TableInv => ListsPartition
  BY TableInvImplies
<1> QED BY <1>1, TableInvariant, PTL

(* th_delete takes no entry from a thread that runs.                          *)
THEOREM EntryIsKept == ASSUME RoomLeft PROVE Spec /\ []Undisturbed => []RunningOwnsEntry
<1>1. TableInv => RunningOwnsEntry
  BY TableInvImplies
<1> QED BY <1>1, TableInvariant, PTL

-----------------------------------------------------------------------------
(* The assumption on the constants alone: pthread_create never fails, no      *)
(* thread has an alias, and a single thread joins and detaches.               *)
NoFailures == Failures = 0 /\ Aliases = {}

LEMMA NothingFails ==
  ASSUME NoFailures, TypeInv, NoFailedCreation, failures = 0, [Next]_vars
  PROVE  NoFailedCreation' /\ failures' = 0
<1>1. pc \in [PThreads -> Labels]
  BY DEF TypeInv
<1>2. CASE UNCHANGED vars
  BY <1>2 DEF vars, NoFailedCreation
<1>3. ASSUME NEW p \in PThreads, Call(p) PROVE NoFailedCreation' /\ failures' = 0
  <2>1. failures' = 0 /\ \E l \in {"counting", "exit", "join", "detach"} : Goto(p, l)
    BY <1>3 DEF Call, Setup, LeaveProlog, JoinGet, DetachGet, Elsewhere
  <2> QED BY <1>1, <2>1 DEF NoFailedCreation, Goto
<1>4. ASSUME NEW p \in PThreads, Continue(p) PROVE NoFailedCreation' /\ failures' = 0
  <2>1. pc[p] \in Labels /\ pc[p] # "alias" /\ pc[p] \notin {"markfailed", "clash"}
    BY <1>1 DEF NoFailures, TypeInv, NoFailedCreation
  <2>2. ~ (AddAlias(p) \/ SpawnFails(p) \/ Undo(p) \/ UndoUnlink(p) \/ UndoLink(p)
           \/ UndoToFree(p))
    BY <2>1 DEF NoFailures, AddAlias, SpawnFails, Undo, UndoUnlink, UndoLink, UndoToFree,
                Labels, Creating, Asking, Leaving
  <2>3. ASSUME NEW c \in PThreads, Spawn(p, c) PROVE NoFailedCreation' /\ failures' = 0
    BY <1>1, <2>3 DEF Spawn, NoFailedCreation
  <2>4. CASE EndSetup(p) \/ Mark(p) \/ RunThread(p) \/ ExitTable(p) \/ Uncount(p)
             \/ PthreadExit(p)
    <3>1. failures' = 0 /\ \E l \in {"spawn", "alias", "idle", "uncount", "uncount2", "gone"} :
            Goto(p, l)
      BY <2>1, <2>4, <1>4 DEF NoFailures, EndSetup, Mark, Done, RunThread, ExitTable, Uncount,
         PthreadExit, Elsewhere
    <3> QED BY <1>1, <3>1 DEF NoFailedCreation, Goto
  <2>5. CASE JoinRefused(p) \/ JoinWaits(p) \/ JoinReturns(p) \/ JoinDelete(p)
             \/ JoinAnswer(p) \/ PthreadDetach(p) \/ DetachTable(p)
    <3>1. failures' = 0 /\ \E l \in {"idle", "joining", "joined", "answer", "detached"} :
            Goto(p, l)
      BY <2>5 DEF JoinRefused, JoinWaits, JoinReturns, JoinDelete, JoinAnswer, PthreadDetach,
         DetachTable, Done, Elsewhere
    <3> QED BY <1>1, <3>1 DEF NoFailedCreation, Goto
  <2> QED BY <1>4, <2>2, <2>3, <2>4, <2>5 DEF Continue
<1> QED BY <1>2, <1>3, <1>4 DEF Next

(* Without failures, and with one joiner, nothing else is assumed.            *)
THEOREM OneJoinerIsSafe ==
  ASSUME RoomLeft, NoFailures, OneJoiner
  PROVE  Spec => [](TypeOK /\ ListsPartition /\ RunningOwnsEntry)
<1> DEFINE Inv == TableInv /\ NoFailedCreation /\ failures = 0
<1>1. Init => Inv
  <2>1. Init => NoFailedCreation /\ failures = 0
    BY DEF Init, NoFailedCreation
  <2> QED BY <2>1, InitInv
<1>2. Inv /\ [Next]_vars => Inv'
  <2> SUFFICES ASSUME Inv, [Next]_vars PROVE Inv'
    OBVIOUS
  <2>1. NoFailedCreation' /\ failures' = 0
    BY NothingFails DEF TableInv
  <2>2. Undisturbed
    BY OneJoinerNoRace DEF Undisturbed
  <2> QED BY <2>1, <2>2, NextInv
<1>3. Inv => TypeOK /\ ListsPartition /\ RunningOwnsEntry
  BY TableInvImplies
<1> QED BY <1>1, <1>2, <1>3, PTL DEF Spec

-----------------------------------------------------------------------------
(* ThreadTable implements ThreadLife.                                         *)

(* The incarnations of an entry suffice for the threads of the process, of    *)
(* which the main thread never gives its entry up.                            *)
IdsSuffice == IsFiniteSet(PThreads) /\ Cardinality(PThreads) <= IncMask + 2

(* The ids that are, or were, of a thread, and those of threads in creation.  *)
Given == {self[q] : q \in PThreads} \cup {req[q].h : q \in {s \in PThreads : Starting(s)}}
GivenAt(i) == {n \in 0 .. IncMask : [slot |-> i, incarn |-> n] \in Given}

(* An entry gives its incarnations in their order.                            *)
IncarnInv ==
  \A i \in Slots : \/ tab.incarn[i] = IncMask /\ GivenAt(i) = {}
                   \/ GivenAt(i) = 0 .. tab.incarn[i]

(* The id of a thread in creation is of no other thread; the main thread      *)
(* stays.                                                                     *)
FreshInv ==
  /\ \A p, q \in PThreads : Starting(p) => self[q] # req[p].h
  /\ \A p \in PThreads : pc[p] = "unborn" => self[p] = NoId
  /\ pc[Main] \notin Leaving \cup {"unborn"}

LifeInv == TableInv /\ IncarnInv /\ FreshInv

(* lifeOf, id by id.                                                          *)
InTable(h) == h.slot \in Live(tab) /\ tab.incarn[h.slot] = h.incarn
LifeAt(h) ==
  IF h \notin {self[p] : p \in PThreads} THEN "none"
  ELSE IF ~ InTable(h) THEN "gone"
  ELSE IF tab.exited[h.slot] THEN "exited"
  ELSE IF tab.detached[h.slot] THEN "detached" ELSE "running"

LEMMA LifeIs == lifeOf = [h \in Ids |-> LifeAt(h)]
<1>1. ASSUME NEW h \in Ids
      PROVE  h \in {IdOf(tab, i) : i \in Reach(tab, tab.first)} <=> InTable(h)
  <2>1. h = [slot |-> h.slot, incarn |-> h.incarn]
    BY DEF Ids
  <2> QED BY <2>1 DEF IdOf, InTable, Live
<1> QED BY <1>1 DEF lifeOf, LifeAt

LEMMA LifeIsNext == lifeOf' = [h \in Ids |-> LifeAt(h)']
<1>1. (lifeOf = [h \in Ids |-> LifeAt(h)])'
  BY LifeIs, PTL
<1> QED BY <1>1

(* A step changes the life of h alone.                                        *)
LEMMA LifeChanges ==
  ASSUME NEW h \in Ids, NEW from, NEW to, LifeAt(h) = from, LifeAt(h)' = to,
         \A g \in Ids : g # h => LifeAt(g)' = LifeAt(g)
  PROVE  TL!Becomes(h, from, to)
<1>1. lifeOf' = [lifeOf EXCEPT ![h] = to]
  BY LifeIs, LifeIsNext
<1>2. lifeOf[h] = from
  BY LifeIs
<1> QED BY <1>1, <1>2 DEF TL!Becomes

LEMMA LifeStays ==
  ASSUME \A g \in Ids : LifeAt(g)' = LifeAt(g)
  PROVE  UNCHANGED lifeOf
BY LifeIs, LifeIsNext

LEMMA SameLife ==
  ASSUME self' = self, Live(tab') = Live(tab), tab'.incarn = tab.incarn,
         tab'.exited = tab.exited, tab'.detached = tab.detached
  PROVE  UNCHANGED lifeOf
<1>1. \A g \in Ids : LifeAt(g)' = LifeAt(g)
  BY DEF LifeAt, InTable
<1> QED BY <1>1, LifeStays

-----------------------------------------------------------------------------
(* Ids do not come back.                                                      *)

LEMMA NextIncarnIs ==
  ASSUME NEW n \in 0 .. IncMask
  PROVE  NextIncarn(n) = IF n = IncMask THEN 0 ELSE n + 1
BY SlotsAssumption DEF NextIncarn

(* The entries on the free list have incarnations to give.                    *)
LEMMA IncarnLeft ==
  ASSUME IdsSuffice, LifeInv, NEW c \in PThreads, pc[c] = "unborn",
         NEW i \in Slots, i \notin Live(tab), GivenAt(i) = 0 .. IncMask
  PROVE  FALSE
<1> DEFINE S == {p \in PThreads : self[p] \in Ids /\ self[p].slot = i}
           f == [p \in S |-> self[p].incarn]
<1>1. f \in Surjection(S, 0 .. IncMask)
  <2>1. f \in [S -> 0 .. IncMask]
    BY DEF Ids
  <2>2. ASSUME NEW n \in 0 .. IncMask PROVE \E p \in S : f[p] = n
    <3>1. [slot |-> i, incarn |-> n] \in Given
      BY DEF GivenAt
    <3>2. \A q \in PThreads : Starting(q) => req[q].h # [slot |-> i, incarn |-> n]
      BY DEF LifeInv, TableInv, StartingInv, StartingAt
    <3>3. PICK p \in PThreads : self[p] = [slot |-> i, incarn |-> n]
      BY <3>1, <3>2 DEF Given
    <3>4. p \in S
      BY <3>3 DEF Ids
    <3> QED BY <3>3, <3>4
  <2> QED BY <2>1, <2>2 DEF Surjection
<1>2. c \notin S
  BY SlotsAreFinite DEF LifeInv, FreshInv, NoId
<1>3. Main \in PThreads /\ Main # c /\ Main \notin S
  <2>1. Main \in PThreads /\ Holds(Main) /\ Main # c
    BY PThreadsAssumption DEF Holds, Alive, LifeInv, FreshInv, Leaving
  <2> QED BY <2>1 DEF LifeInv, TableInv, HolderInv, HolderAt
<1>4. S \subseteq (PThreads \ {c}) \ {Main}
  BY <1>2, <1>3
<1> HIDE DEF S, f
<1>5. IsFiniteSet(PThreads \ {c}) /\ Cardinality(PThreads \ {c}) = Cardinality(PThreads) - 1
  BY FS_RemoveElement DEF IdsSuffice
<1>6. /\ IsFiniteSet((PThreads \ {c}) \ {Main})
      /\ Cardinality((PThreads \ {c}) \ {Main}) = Cardinality(PThreads) - 2
  <2>1. Main \in PThreads \ {c}
    BY <1>3
  <2>2. Cardinality(PThreads) \in Nat
    BY FS_CardinalityType DEF IdsSuffice
  <2>3. /\ IsFiniteSet((PThreads \ {c}) \ {Main})
        /\ Cardinality((PThreads \ {c}) \ {Main}) = Cardinality(PThreads \ {c}) - 1
    BY <1>5, <2>1, FS_RemoveElement
  <2> QED BY <1>5, <2>2, <2>3
<1>7. IsFiniteSet(S) /\ Cardinality(S) <= Cardinality((PThreads \ {c}) \ {Main})
  BY <1>4, <1>6, FS_Subset
<1>8. Cardinality(0 .. IncMask) <= Cardinality(S)
  BY <1>1, <1>7, FS_Surjection
<1>9. Cardinality(0 .. IncMask) = IncMask + 1
  BY SlotsAssumption, FS_Interval
<1>10. Cardinality(PThreads) \in Nat /\ Cardinality(S) \in Nat
  BY <1>7, FS_CardinalityType DEF IdsSuffice
<1> QED BY <1>6, <1>7, <1>8, <1>9, <1>10, SlotsAssumption DEF IdsSuffice

(* The next incarnation of such an entry was not given before.                *)
LEMMA NextIsFresh ==
  ASSUME IdsSuffice, LifeInv, NEW c \in PThreads, pc[c] = "unborn",
         NEW i \in Slots, i \notin Live(tab), NEW n, n = NextIncarn(tab.incarn[i])
  PROVE  /\ n \in 0 .. IncMask /\ n \notin GivenAt(i)
         /\ GivenAt(i) \cup {n} = 0 .. n
<1>1. tab.incarn[i] \in 0 .. IncMask
  BY DEF LifeInv, TableInv, TypeInv, TabType
<1>2. CASE tab.incarn[i] = IncMask /\ GivenAt(i) = {}
  BY <1>1, <1>2, NextIncarnIs, SlotsAssumption
<1>3. CASE GivenAt(i) = 0 .. tab.incarn[i]
  <2>1. tab.incarn[i] # IncMask
    BY <1>3, IncarnLeft
  <2> QED BY <1>1, <1>3, <2>1, NextIncarnIs, SlotsAssumption
<1> QED BY <1>2, <1>3 DEF LifeInv, IncarnInv
-----------------------------------------------------------------------------
(* The steps.                                                                 *)

(* Thread p goes on; no id is given.                                          *)
GoesOn(p) ==
  /\ self' = self /\ OnlyReq(p) /\ "unborn" \notin {pc[p], pc'[p]}
  /\ Starting(p)' <=> Starting(p)
  /\ Starting(p) => req'[p].h = req[p].h
  /\ p = Main => pc'[p] \notin Leaving

LEMMA NoIdGiven ==
  ASSUME LifeInv, TableInv', NEW p \in PThreads, GoesOn(p), tab'.incarn = tab.incarn
  PROVE  LifeInv'
<1>1. \A q \in PThreads : /\ Starting(q)' <=> Starting(q)
                          /\ Starting(q) => req'[q].h = req[q].h
                          /\ pc'[q] = "unborn" => pc[q] = "unborn"
  BY DEF GoesOn, OnlyReq, Starting
<1>2. Given' = Given
  BY <1>1 DEF Given, GoesOn
<1>3. \A i \in Slots : GivenAt(i)' = GivenAt(i)
  BY <1>2 DEF GivenAt
<1>4. IncarnInv'
  BY <1>3 DEF LifeInv, IncarnInv
<1>5. FreshInv'
  <2>1. pc'[Main] \notin Leaving \cup {"unborn"}
    BY <1>1, PThreadsAssumption DEF LifeInv, FreshInv, GoesOn, OnlyReq
  <2> QED BY <1>1, <2>1 DEF LifeInv, FreshInv, GoesOn
<1> QED BY <1>4, <1>5 DEF LifeInv

(* A request that takes one step of its own.                                  *)
LEMMA Walks ==
  ASSUME LifeInv, NEW p \in PThreads, pc[p] # "unborn", self' = self,
         NEW l \in Labels \ {"unborn"}, Goto(p, l), req' = req \/ \E r : Ask(p, r),
         l \in Creating <=> pc[p] \in Creating, pc[p] \in Creating => req' = req,
         p = Main => l \notin Leaving
  PROVE  GoesOn(p)
<1>1. /\ pc'[p] = l /\ \A q \in PThreads : q # p => pc'[q] = pc[q]
  BY Moved DEF LifeInv, TableInv
<1>2. \A q \in PThreads : q # p => req'[q] = req[q]
  BY DEF Ask, LifeInv, TableInv, TypeInv
<1> QED BY <1>1, <1>2 DEF GoesOn, OnlyReq, Starting

(* The calls and the steps that do not concern the lists nor the state of an  *)
(* entry.                                                                     *)
Unseen(p) ==
  \/ EndSetup(p) \/ (AddAlias(p) /\ pc'[p] # "clash") \/ (Mark(p) /\ pc[p] # "markfailed")
  \/ RunThread(p) \/ (\E b \in BOOLEAN : LeaveProlog(p, b)) \/ Uncount(p) \/ PthreadExit(p)
  \/ (\E h \in born : JoinGet(p, h) \/ DetachGet(p, h)) \/ JoinRefused(p) \/ JoinWaits(p)
  \/ JoinReturns(p) \/ JoinAnswer(p) \/ PthreadDetach(p)

LEMMA UnseenGoesOn ==
  ASSUME LifeInv, NEW p \in PThreads, Unseen(p)
  PROVE  GoesOn(p)
<1>0. pc[Main] \notin Leaving \cup {"unborn"} /\ pc \in [PThreads -> Labels]
  BY DEF LifeInv, FreshInv, TableInv, TypeInv
<1>1. CASE EndSetup(p)
  <2>1. PICK l \in {"spawn", "alias"} : Goto(p, l)
    BY <1>1 DEF EndSetup
  <2> QED BY <1>1, <2>1, Walks DEF EndSetup, Labels, Creating, Leaving
<1>2. CASE AddAlias(p) /\ pc'[p] # "clash"
  <2>1. Goto(p, "spawn")
    BY <1>0, <1>2 DEF AddAlias, Goto
  <2> QED BY <1>2, <2>1, Walks DEF AddAlias, Labels, Creating, Leaving
<1>3. CASE Mark(p) /\ pc[p] # "markfailed"
  BY <1>3, Walks DEF Mark, Done, Elsewhere, Labels, Creating, Leaving
<1>4. CASE RunThread(p)
  BY <1>4, Walks DEF RunThread, Elsewhere, Labels, Creating, Leaving
<1>5. ASSUME NEW b \in BOOLEAN, LeaveProlog(p, b) PROVE GoesOn(p)
  <2>1. /\ pc[p] = "idle" /\ p # Main /\ self' = self /\ Goto(p, "exit") /\ \E r : Ask(p, r)
    BY <1>5 DEF LeaveProlog
  <2> QED BY <2>1, Walks DEF Labels, Creating, Leaving
<1>6. CASE Uncount(p) \/ PthreadExit(p)
  <2>1. PICK l \in {"uncount2", "gone"} : Goto(p, l)
    BY <1>6 DEF Uncount, PthreadExit
  <2>2. self' = self /\ req' = req /\ pc[p] \in {"uncount", "uncount2"} /\ p # Main
    BY <1>0, <1>6 DEF Uncount, PthreadExit, Leaving
  <2> QED BY <2>1, <2>2, Walks DEF Labels, Creating, Leaving
<1>7. ASSUME NEW h \in born, JoinGet(p, h) \/ DetachGet(p, h) PROVE GoesOn(p)
  <2>1. PICK l \in {"join", "detach"} : Goto(p, l)
    BY <1>7 DEF JoinGet, DetachGet
  <2>2. self' = self /\ (\E r : Ask(p, r)) /\ pc[p] = "idle"
    BY <1>7 DEF JoinGet, DetachGet, Elsewhere
  <2> QED BY <2>1, <2>2, Walks DEF Labels, Creating, Leaving, Asking
<1>8. CASE JoinRefused(p) \/ JoinWaits(p) \/ JoinReturns(p) \/ JoinAnswer(p) \/ PthreadDetach(p)
  <2>1. PICK l \in {"joined", "idle", "joining", "detached"} : Goto(p, l)
    BY <1>8 DEF JoinRefused, JoinWaits, JoinReturns, JoinAnswer, PthreadDetach, Done
  <2>2. /\ self' = self /\ (req' = req \/ \E r : Ask(p, r))
        /\ pc[p] \in {"join", "joining", "answer", "detach"}
    BY <1>8 DEF JoinRefused, JoinWaits, JoinReturns, JoinAnswer, PthreadDetach, Done, Elsewhere
  <2> QED BY <2>1, <2>2, Walks DEF Labels, Creating, Leaving, Asking
<1> QED BY <1>1, <1>2, <1>3, <1>4, <1>5, <1>6, <1>7, <1>8 DEF Unseen

LEMMA UnseenEntries ==
  ASSUME TableInv, NEW p \in PThreads, Unseen(p)
  PROVE  SameEntries
<1>1. CASE tab' = tab
  BY <1>1, SameTable
<1>2. CASE Mark(p) /\ pc[p] # "markfailed"
  <2>1. pc[p] = "mark" /\ tab' = [tab EXCEPT !.valid[req[p].h.slot] = TRUE]
    BY <1>2 DEF Mark
  <2>2. req[p].h.slot \in Slots
    BY <2>1 DEF TableInv, TypeInv, RestTyped, Ids
  <2>3. tab' = [tab EXCEPT !.tid = tab.tid, !.valid[req[p].h.slot] = TRUE]
    BY <2>1 DEF TableInv, TypeInv, TabType
  <2> QED BY <2>2, <2>3, Validated DEF TableInv, TypeInv, TabType
<1>3. CASE RunThread(p)
  <2>1. pc[p] = "born" /\ tab' = [tab EXCEPT !.tid[self[p].slot] = p, !.valid[self[p].slot] = TRUE]
    BY <1>3 DEF RunThread
  <2>2. self[p].slot \in Slots /\ tab.tid[self[p].slot] = p
    <3>1. self[p] \in Ids
      BY <2>1 DEF TableInv, TypeInv, RestTyped
    <3>2. Holds(p)
      BY <2>1 DEF Holds, Alive
    <3> QED BY <3>1, <3>2 DEF Ids, TableInv, HolderInv, HolderAt
  <2>3. PICK t : t = [tab.tid EXCEPT ![self[p].slot] = p]
    OBVIOUS
  <2>4. t = tab.tid /\ t \in [Slots -> PThreads \cup {Nobody}]
    BY <2>2, <2>3 DEF TableInv, TypeInv, TabType
  <2>5. tab' = [tab EXCEPT !.tid = t, !.valid[self[p].slot] = TRUE]
    BY <2>1, <2>3
  <2> QED BY <2>2, <2>4, <2>5, Validated
<1> QED BY <1>1, <1>2, <1>3 DEF Unseen, EndSetup, AddAlias, LeaveProlog, Uncount, PthreadExit,
        JoinGet, DetachGet, JoinRefused, JoinWaits, JoinReturns, JoinAnswer, PthreadDetach

(* Entry i, of the id h, leaves the list of threads.                          *)
LEMMA EntryGone ==
  ASSUME TableInv, NEW h \in Ids, InTable(h), h \in {self[p] : p \in PThreads}, self' = self,
         NEW tb, tb \in {tab, [tab EXCEPT !.ctxt[h.slot] = Nobody]},
         tab' = ThDelete(tb, h.slot)
  PROVE  LifeAt(h)' = "gone" /\ \A g \in Ids : g # h => LifeAt(g)' = LifeAt(g)
<1>1. h.slot \in Slots /\ h.slot \in Live(tab)
  BY DEF Ids, InTable
<1>2. PICK i \in Slots : i = h.slot
  BY <1>1
<1>3. /\ Live(tab') = Live(tab) \ {i} /\ tab'.incarn = tab.incarn
      /\ tab'.exited = tab.exited /\ tab'.detached = tab.detached
  BY <1>1, <1>2, Deleted
<1>4. LifeAt(h)' = "gone"
  BY <1>2, <1>3 DEF LifeAt, InTable
<1>5. ASSUME NEW g \in Ids, g # h PROVE LifeAt(g)' = LifeAt(g)
  <2>1. g.slot = i => g.incarn # h.incarn
    BY <1>2, <1>5 DEF Ids
  <2>2. InTable(g)' <=> InTable(g)
    BY <1>2, <1>3, <2>1 DEF InTable
  <2> QED BY <1>3, <2>2 DEF LifeAt
<1> QED BY <1>4, <1>5

(* What the owner of an entry shows of it.                                    *)
LEMMA HolderLife ==
  ASSUME TableInv, NEW q \in PThreads, Holds(q)
  PROVE  /\ self[q] \in Ids /\ InTable(self[q]) /\ self[q].slot \in Slots
         /\ LifeAt(self[q]) = IF ~ Alive(q) THEN "exited"
                              ELSE IF Marked(q) THEN "detached" ELSE "running"
<1>1. HolderAt(q)
  BY DEF TableInv, HolderInv
<1>2. self[q] \in Ids
  BY DEF Holds, TableInv, TypeInv, RestTyped
<1> QED BY <1>1, <1>2 DEF HolderAt, InTable, LifeAt, Ids

LEMMA ExitTableStep ==
  ASSUME LifeInv, NEW p \in PThreads, ExitTable(p)
  PROVE  GoesOn(p) /\ tab'.incarn = tab.incarn /\ TL!LifeNext
<1>7. PICK h : h = self[p]
  OBVIOUS
<1>0. TableInv
  BY DEF LifeInv
<1>1. /\ pc[p] = "exit" /\ self' = self /\ req' = req /\ Goto(p, "uncount") /\ p # Main
      /\ tab' = ExitEntry(tab, h.slot, req[p].ball)
  BY <1>7 DEF ExitTable, Elsewhere, LifeInv, FreshInv, Leaving
<1>2. GoesOn(p)
  BY <1>1, Walks DEF Labels, Creating, Leaving
<1>3. Holds(p) /\ Alive(p)
  BY <1>1 DEF Holds, Alive
<1>4. /\ h \in Ids /\ InTable(h) /\ h.slot \in Slots
      /\ LifeAt(h) = IF Marked(p) THEN "detached" ELSE "running"
      /\ tab.detached[h.slot] <=> Marked(p)
  BY <1>0, <1>3, <1>7, HolderLife DEF TableInv, HolderInv, HolderAt
<1>5. CASE tab.detached[h.slot]
  <2>0. PICK tb : tb = [tab EXCEPT !.ctxt[h.slot] = Nobody]
    OBVIOUS
  <2>1. tab' = ThDelete(tb, h.slot)
    BY <1>0, <1>1, <1>5, <2>0 DEF ExitEntry, TableInv, TypeInv, TabType
  <2>2. LifeAt(h)' = "gone" /\ \A g \in Ids : g # h => LifeAt(g)' = LifeAt(g)
    <3>1. h \in {self[s] : s \in PThreads} /\ tb \in {tab, [tab EXCEPT !.ctxt[h.slot] = Nobody]}
      BY <1>7, <2>0
    <3> QED BY <1>0, <1>1, <1>4, <2>1, <3>1, EntryGone
  <2>3. TL!ExitDetached(h)
    BY <1>4, <1>5, <2>2, LifeChanges DEF TL!ExitDetached
  <2>4. tab'.incarn = tab.incarn
    <3>1. PICK i \in Slots : i = h.slot
      BY <1>4
    <3> QED BY <1>0, <1>4, <2>0, <2>1, <3>1, Deleted DEF InTable
  <2> QED BY <1>2, <1>4, <2>3, <2>4 DEF TL!LifeNext
<1>6. CASE ~ tab.detached[h.slot]
  <2> DEFINE c == [tab.ctxt EXCEPT ![h.slot] = Nobody]
             e == [tab.exited EXCEPT ![h.slot] = TRUE]
             b == [tab.ball EXCEPT ![h.slot] = req[p].ball]
  <2>1. tab \in TabType
    BY <1>0 DEF TableInv, TypeInv
  <2>2. tab' = [tab EXCEPT !.ctxt = c, !.exited = e, !.ball = b]
    BY <1>1, <1>6, <2>1 DEF ExitEntry, TabType
  <2>3. e[h.slot] /\ \A j \in Slots : j # h.slot => e[j] = tab.exited[j]
    BY <1>4, <2>1 DEF TabType
  <2> HIDE DEF c, e, b
  <2>4. /\ tab'.exited = e /\ tab'.next = tab.next /\ tab'.first = tab.first
        /\ tab'.incarn = tab.incarn /\ tab'.detached = tab.detached
    BY <2>1, <2>2 DEF TabType
  <2>5. Live(tab') = Live(tab)
    <3>1. Lists([tab EXCEPT !.ctxt = c, !.exited = e, !.ball = b], Live(tab), Unused(tab))
      BY <1>0, <2>1 DEF TabType, TableInv, ListsInv, Lists
    <3> QED BY <2>2, <3>1, ListsAreReached
  <2>6. LifeAt(h)' = "exited"
    BY <1>1, <1>4, <2>3, <2>4, <2>5 DEF LifeAt, InTable
  <2>7. ASSUME NEW g \in Ids, g # h PROVE LifeAt(g)' = LifeAt(g)
    <3>1. InTable(g)' <=> InTable(g)
      BY <2>4, <2>5 DEF InTable
    <3>2. InTable(g) => g.slot # h.slot /\ g.slot \in Slots
      BY <1>4, <2>7 DEF InTable, Ids
    <3> QED BY <1>1, <2>3, <2>4, <3>1, <3>2 DEF LifeAt
  <2>8. TL!Exit(h)
    BY <1>4, <1>6, <2>6, <2>7, LifeChanges DEF TL!Exit
  <2> QED BY <1>2, <1>4, <2>4, <2>8 DEF TL!LifeNext
<1> QED BY <1>5, <1>6

LEMMA JoinDeleteStep ==
  ASSUME LifeInv, NEW p \in PThreads, JoinDelete(p)
  PROVE  GoesOn(p) /\ tab'.incarn = tab.incarn /\ TL!LifeNext
<1>0. PICK q : q = req[p].tid
  OBVIOUS
<1>10. PICK h : h = self[q]
  OBVIOUS
<1>1. TableInv
  BY DEF LifeInv
<1>2. /\ pc[p] = "joined" /\ self' = self /\ req' = req /\ Goto(p, "answer")
      /\ tab' = ThDelete(tab, req[p].h.slot)
  BY DEF JoinDelete, Elsewhere
<1>3. /\ q \in PThreads /\ pc[q] = "gone" /\ h = req[p].h
  BY <1>0, <1>1, <1>2, <1>10 DEF TableInv, AskInv, AskerAt, Asking
<1>4. GoesOn(p)
  BY <1>2, Walks DEF Labels, Creating, Leaving
<1>5. Pending(q) /\ Holds(q) /\ ~ Alive(q)
  BY <1>0, <1>2, <1>3 DEF Pending, Holds, Alive
<1>6. h \in Ids /\ InTable(h) /\ h.slot \in Slots /\ LifeAt(h) = "exited"
  BY <1>1, <1>3, <1>5, <1>10, HolderLife
<1>7. LifeAt(h)' = "gone" /\ \A g \in Ids : g # h => LifeAt(g)' = LifeAt(g)
  BY <1>1, <1>2, <1>3, <1>6, <1>10, EntryGone
<1>8. TL!Reclaim(h)
  BY <1>6, <1>7, LifeChanges DEF TL!Reclaim
<1>9. tab'.incarn = tab.incarn
  <2>1. PICK i \in Slots : i = h.slot
    BY <1>6
  <2> QED BY <1>1, <1>2, <1>3, <1>6, <2>1, Deleted DEF InTable
<1> QED BY <1>4, <1>6, <1>8, <1>9 DEF TL!LifeNext

LEMMA DetachTableLife ==
  ASSUME LifeInv, NEW p \in PThreads, DetachTable(p)
  PROVE  GoesOn(p) /\ tab'.incarn = tab.incarn /\ TL!LifeNext
<1>0. PICK q : q = req[p].tid
  OBVIOUS
<1>8. PICK h : h = self[q]
  OBVIOUS
<1>1. TableInv
  BY DEF LifeInv
<1>2. DetachesAt(p, q) /\ tab' = DetachEntry(tab, h.slot)
  BY <1>0, <1>1, <1>8, DetachTableStep
<1>3. /\ q \in PThreads /\ self' = self /\ Holds(q) /\ Pending(q)
      /\ tab.exited[h.slot] <=> ~ Alive(q)
  BY <1>2, <1>8 DEF DetachesAt, HolderAt
<1>4. GoesOn(p)
  BY <1>2 DEF DetachesAt, GoesOn, Starting, Creating, Leaving
<1>5. /\ h \in Ids /\ InTable(h) /\ h.slot \in Slots
      /\ LifeAt(h) = IF ~ Alive(q) THEN "exited" ELSE "running"
  BY <1>1, <1>3, <1>8, HolderLife DEF Marked
<1>6. CASE tab.exited[h.slot]
  <2>1. tab' = ThDelete(tab, h.slot)
    BY <1>2, <1>6 DEF DetachEntry
  <2>2. LifeAt(h)' = "gone" /\ \A g \in Ids : g # h => LifeAt(g)' = LifeAt(g)
    BY <1>1, <1>3, <1>5, <1>8, <2>1, EntryGone
  <2>3. TL!Reclaim(h)
    BY <1>3, <1>5, <1>6, <2>2, LifeChanges DEF TL!Reclaim
  <2>4. tab'.incarn = tab.incarn
    <3>1. PICK i \in Slots : i = h.slot
      BY <1>5
    <3> QED BY <1>1, <1>5, <2>1, <3>1, Deleted DEF InTable
  <2> QED BY <1>4, <1>5, <2>3, <2>4 DEF TL!LifeNext
<1>7. CASE ~ tab.exited[h.slot]
  <2> DEFINE d == [tab.detached EXCEPT ![h.slot] = TRUE]
  <2>1. tab \in TabType
    BY <1>1 DEF TableInv, TypeInv
  <2>2. tab' = [tab EXCEPT !.detached = d]
    BY <1>2, <1>7, <2>1 DEF DetachEntry, TabType
  <2>3. d[h.slot] /\ \A j \in Slots : j # h.slot => d[j] = tab.detached[j]
    BY <1>5, <2>1 DEF TabType
  <2> HIDE DEF d
  <2>4. /\ tab'.detached = d /\ tab'.incarn = tab.incarn /\ tab'.exited = tab.exited
    BY <2>1, <2>2 DEF TabType
  <2>5. Live(tab') = Live(tab)
    <3>1. Lists([tab EXCEPT !.detached = d], Live(tab), Unused(tab))
      BY <1>1, <2>1 DEF TabType, TableInv, ListsInv, Lists
    <3> QED BY <2>2, <3>1, ListsAreReached
  <2>6. LifeAt(h)' = "detached"
    BY <1>3, <1>5, <1>7, <2>3, <2>4, <2>5 DEF LifeAt, InTable
  <2>7. ASSUME NEW g \in Ids, g # h PROVE LifeAt(g)' = LifeAt(g)
    <3>1. InTable(g)' <=> InTable(g)
      BY <2>4, <2>5 DEF InTable
    <3>2. InTable(g) => g.slot # h.slot /\ g.slot \in Slots
      BY <1>5, <2>7 DEF InTable, Ids
    <3> QED BY <1>3, <2>3, <2>4, <3>1, <3>2 DEF LifeAt
  <2>8. TL!Detach(h)
    BY <1>3, <1>5, <1>7, <2>6, <2>7, LifeChanges DEF TL!Detach
  <2> QED BY <1>4, <1>5, <2>4, <2>8 DEF TL!LifeNext
<1> QED BY <1>6, <1>7

-----------------------------------------------------------------------------
(* The steps that give an id.                                                 *)

(* A full turn of an entry would give it an id that was given before.         *)
(* The entry that xsb_thread_setup takes.                                     *)
LEMMA SetupTable ==
  ASSUME RoomLeft, TableInv, NEW p \in PThreads, NEW d \in Modes,
         NEW a \in Aliases \cup {Nobody}, Setup(p, d, a), NEW pos, pos = tab.free
  PROVE  /\ pos \in Slots /\ pos \notin Live(tab) /\ Live(tab') = Live(tab) \cup {pos}
         /\ IsFresh(tab, tab', pos, d) /\ IsNoted(tab, tab', pos, a # Nobody)
<1>1. ASSUME NEW tb \in TabType, NEW live, NEW free, Lists(tb, live, free),
             Cardinality(live) < MaxLive, NEW dt, dt \in BOOLEAN, NEW al, al \in BOOLEAN,
             NEW x, x = tb.free, NEW t, t = ThNew(tb, Nobody, dt, al)
      PROVE  /\ x \in free /\ x \in Slots
             /\ t \in TabType /\ Lists(t, live \cup {x}, free \ {x})
             /\ IsFresh(tb, t, x, dt) /\ IsNoted(tb, t, x, al)
  <2>1. Nobody \in PThreads \cup {Nobody}
    OBVIOUS
  <2> QED BY ONLY RoomLeft, <1>1, <2>1, ThNewLists
<1> DEFINE live == Live(tab)  free == Unused(tab)  al == (a # Nobody)
<1>2. /\ tab \in TabType /\ Lists(tab, live, free) /\ Cardinality(live) < MaxLive
      /\ al \in BOOLEAN /\ d \in BOOLEAN /\ tab' = ThNew(tab, Nobody, d, al)
  BY ModesAssumption DEF Setup, Live, TableInv, TypeInv, ListsInv
<1> HIDE DEF live, free, al
<1>3. /\ pos \in free /\ pos \in Slots
      /\ tab' \in TabType /\ Lists(tab', live \cup {pos}, free \ {pos})
      /\ IsFresh(tab, tab', pos, d) /\ IsNoted(tab, tab', pos, al)
  BY <1>1, <1>2
<1>4. Live(tab') = live \cup {pos} /\ pos \notin live
  BY <1>2, <1>3, ListsAreReached DEF Lists
<1> QED BY <1>3, <1>4 DEF live, al

LEMMA SetupStep ==
  ASSUME RoomLeft, IdsSuffice, LifeInv, TableInv', NEW p \in PThreads, NEW d \in Modes,
         NEW a \in Aliases \cup {Nobody}, Setup(p, d, a)
  PROVE  LifeInv' /\ UNCHANGED lifeOf
<1>0. PICK pos : pos = tab.free
  OBVIOUS
<1>1. PICK n : n = NextIncarn(tab.incarn[pos])
  OBVIOUS
<1>2. PICK h : h = [slot |-> pos, incarn |-> n]
  OBVIOUS
<1>3. /\ pc[p] = "idle" /\ self' = self /\ Goto(p, "counting")
      /\ \E c \in PThreads : pc[c] = "unborn"
      /\ Cardinality(Live(tab)) < MaxLive /\ tab' = ThNew(tab, Nobody, d, a # Nobody)
      /\ \E r : req' = [req EXCEPT ![p] = r] /\ r.h = IdOf(tab', pos)
  <2>1. Ask(p, [NoReq EXCEPT !.kind = "create", !.h = IdOf(tab', pos), !.alias = a,
                             !.detached = d])
    BY <1>0 DEF Setup
  <2>2. [NoReq EXCEPT !.kind = "create", !.h = IdOf(tab', pos), !.alias = a,
                      !.detached = d].h = IdOf(tab', pos)
    BY DEF NoReq
  <2> QED BY <2>1, <2>2 DEF Setup, Live, Ask
<1>4. /\ pos \in Slots /\ pos \notin Live(tab) /\ Live(tab') = Live(tab) \cup {pos}
      /\ IsFresh(tab, tab', pos, d)
  BY <1>0, SetupTable DEF LifeInv
<1>5. /\ n \in 0 .. IncMask /\ n \notin GivenAt(pos) /\ GivenAt(pos) \cup {n} = 0 .. n
  BY <1>1, <1>3, <1>4, NextIsFresh
<1>6. /\ tab'.incarn[pos] = n
      /\ \A i \in Slots : i # pos => /\ tab'.incarn[i] = tab.incarn[i]
                                     /\ tab'.exited[i] = tab.exited[i]
                                     /\ tab'.detached[i] = tab.detached[i]
  BY <1>1, <1>4 DEF IsFresh, StatusKept
<1>7. h \in Ids /\ h \notin Given /\ h.slot = pos /\ h.incarn = n
  BY <1>2, <1>4, <1>5 DEF GivenAt, Ids
<1>8. /\ pc'[p] = "counting" /\ req'[p].h = h
      /\ \A q \in PThreads : q # p => pc'[q] = pc[q] /\ req'[q] = req[q]
  <2>1. IdOf(tab', pos) = h
    BY <1>2, <1>6 DEF IdOf
  <2>2. pc \in [PThreads -> Labels] /\ req \in [PThreads -> ReqType]
    BY DEF LifeInv, TableInv, TypeInv
  <2> QED BY <1>3, <2>1, <2>2 DEF Goto
<1>9. Given' = Given \cup {h}
  <2>1. ~ Starting(p) /\ Starting(p)' /\ \A q \in PThreads : q # p => (Starting(q)' <=> Starting(q))
    BY <1>3, <1>8 DEF Starting, Creating
  <2> QED BY <1>3, <1>8, <2>1 DEF Given
<1>10. IncarnInv'
  <2> SUFFICES ASSUME NEW i \in Slots
               PROVE  \/ tab'.incarn[i] = IncMask /\ GivenAt(i)' = {}
                      \/ GivenAt(i)' = 0 .. tab'.incarn[i]
    BY DEF IncarnInv
  <2>1. CASE i = pos
    <3>1. GivenAt(pos)' = GivenAt(pos) \cup {n}
      BY <1>2, <1>5, <1>9 DEF GivenAt
    <3> QED BY <1>5, <1>6, <2>1, <3>1
  <2>2. CASE i # pos
    <3>1. GivenAt(i)' = GivenAt(i)
      BY <1>2, <1>9, <2>2 DEF GivenAt
    <3> QED BY <1>6, <2>2, <3>1 DEF LifeInv, IncarnInv
  <2> QED BY <2>1, <2>2
<1>11. FreshInv'
  <2>1. ASSUME NEW s \in PThreads, NEW q \in PThreads, Starting(s)' PROVE self'[q] # req'[s].h
    <3>1. CASE s = p
      BY <1>3, <1>7, <1>8, <3>1 DEF Given
    <3>2. CASE s # p
      BY <1>3, <1>8, <2>1, <3>2 DEF LifeInv, FreshInv, Starting
    <3> QED BY <3>1, <3>2
  <2>2. \A s \in PThreads : pc'[s] = "unborn" => self'[s] = NoId
    BY <1>3, <1>8 DEF LifeInv, FreshInv
  <2>3. pc'[Main] \notin Leaving \cup {"unborn"}
    BY <1>8, PThreadsAssumption DEF LifeInv, FreshInv, Leaving
  <2> QED BY <2>1, <2>2, <2>3 DEF FreshInv
<1>12. UNCHANGED lifeOf
  <2> SUFFICES ASSUME NEW g \in Ids PROVE LifeAt(g)' = LifeAt(g)
    BY LifeStays
  <2>1. CASE g.slot # pos
    <3>1. g.slot \in Slots
      BY DEF Ids
    <3> QED BY <1>3, <1>4, <1>6, <2>1, <3>1 DEF LifeAt, InTable
  <2>2. CASE g.slot = pos /\ g.incarn = n
    <3>1. g = h
      BY <1>2, <2>2 DEF Ids
    <3> QED BY <1>3, <1>7, <3>1 DEF LifeAt, Given
  <2>3. CASE g.slot = pos /\ g.incarn # n
    <3>1. ~ InTable(g) /\ ~ InTable(g)'
      BY <1>4, <1>6, <2>3 DEF InTable
    <3> QED BY <1>3, <3>1 DEF LifeAt
  <2> QED BY <2>1, <2>2, <2>3
<1> QED BY <1>10, <1>11, <1>12 DEF LifeInv

LEMMA SpawnStep ==
  ASSUME LifeInv, TableInv', NEW p \in PThreads, NEW c \in PThreads, Spawn(p, c)
  PROVE  LifeInv' /\ TL!LifeNext
<1>0. PICK h : h = req[p].h
  OBVIOUS
<1>1. /\ pc[p] = "spawn" /\ pc[c] = "unborn" /\ c # p /\ req' = req
      /\ pc' = [pc EXCEPT ![p] = "mark", ![c] = "born"]
      /\ self' = [self EXCEPT ![c] = h]
      /\ tab' = [tab EXCEPT !.tid[h.slot] = c, !.ctxt[h.slot] = c]
  BY <1>0 DEF Spawn
<1>2. TableInv /\ Starting(p) /\ StartingAt(p) /\ h \in Ids /\ self[c] = NoId
  BY <1>0, <1>1 DEF Starting, Creating, LifeInv, FreshInv, TableInv, StartingInv, TypeInv, RestTyped
<1>3. /\ pc'[p] = "mark" /\ pc'[c] = "born" /\ self'[c] = h
      /\ \A q \in PThreads : q \notin {p, c} => pc'[q] = pc[q]
      /\ \A q \in PThreads : q # c => self'[q] = self[q]
  BY <1>1, <1>2 DEF TableInv, TypeInv
<1>4. h \notin {self[q] : q \in PThreads} /\ NoId \notin Ids
  BY <1>0, <1>2, SlotsAreFinite DEF LifeInv, FreshInv, NoId, Ids
<1>5. ASSUME NEW g \in Ids
      PROVE  g \in {self'[q] : q \in PThreads} <=> g = h \/ g \in {self[q] : q \in PThreads}
  BY <1>2, <1>3, <1>4
<1>6. /\ tab'.next = tab.next /\ tab'.first = tab.first /\ tab'.incarn = tab.incarn
      /\ tab'.exited = tab.exited /\ tab'.detached = tab.detached
  <2>1. PICK t, x : tab' = [tab EXCEPT !.tid = t, !.ctxt = x]
    BY <1>1
  <2> QED BY <1>2, <2>1 DEF TableInv, TypeInv, TabType
<1>7. Live(tab') = Live(tab)
  <2>1. Lists(tab', Live(tab), Unused(tab))
    <3>1. PICK t, x : tab' = [tab EXCEPT !.tid = t, !.ctxt = x]
      BY <1>1
    <3>2. /\ tab'.prev = tab.prev /\ tab'.free = tab.free /\ tab'.last = tab.last
      BY <1>2, <3>1 DEF TableInv, TypeInv, TabType
    <3> QED BY <1>2, <1>6, <3>2 DEF TableInv, ListsInv, Lists
  <2> QED BY <2>1, ListsAreReached
<1>8. \A q \in PThreads : Starting(q)' <=> Starting(q) /\ q # p
  BY <1>1, <1>3 DEF Starting, Creating
<1>9. \A i \in Slots : GivenAt(i)' = GivenAt(i)
  <2>1. ASSUME NEW g \in Ids PROVE g \in Given' <=> g \in Given
    <3>1. g \in {req'[q].h : q \in {s \in PThreads : Starting(s)'}} \/ g = h
            <=> g \in {req[q].h : q \in {s \in PThreads : Starting(s)}} \/ g = h
      BY <1>0, <1>1, <1>8
    <3>2. h \in {req[q].h : q \in {s \in PThreads : Starting(s)}}
      BY <1>0, <1>2
    <3> QED BY <1>5, <3>1, <3>2 DEF Given
  <2>2. \A i \in Slots : \A n \in 0 .. IncMask : [slot |-> i, incarn |-> n] \in Ids
    BY DEF Ids
  <2> QED BY <2>1, <2>2 DEF GivenAt
<1>10. IncarnInv'
  BY <1>6, <1>9 DEF LifeInv, IncarnInv
<1>11. FreshInv'
  <2>1. ASSUME NEW s \in PThreads, NEW q \in PThreads, Starting(s)' PROVE self'[q] # req'[s].h
    <3>1. Starting(s) /\ s # p /\ req'[s] = req[s]
      BY <1>1, <1>8, <2>1
    <3>2. CASE q = c
      BY <1>0, <1>2, <1>3, <3>1, <3>2 DEF TableInv, OneHolder
    <3>3. CASE q # c
      BY <1>3, <3>1, <3>3 DEF LifeInv, FreshInv
    <3> QED BY <3>2, <3>3
  <2>2. \A s \in PThreads : pc'[s] = "unborn" => self'[s] = NoId
    BY <1>3 DEF LifeInv, FreshInv
  <2>3. pc'[Main] \notin Leaving \cup {"unborn"}
    BY <1>3, PThreadsAssumption DEF LifeInv, FreshInv, Leaving
  <2> QED BY <2>1, <2>2, <2>3 DEF FreshInv
<1>12. LifeAt(h) = "none"
  BY <1>4 DEF LifeAt
<1>13. LifeAt(h)' = IF req[p].detached THEN "detached" ELSE "running"
  BY <1>0, <1>2, <1>5, <1>6, <1>7 DEF LifeAt, InTable, StartingAt
<1>14. \A g \in Ids : g # h => LifeAt(g)' = LifeAt(g)
  BY <1>5, <1>6, <1>7 DEF LifeAt, InTable
<1>15. TL!Create(h) \/ TL!CreateDetached(h)
  <2>1. CASE req[p].detached
    BY <1>2, <1>12, <1>13, <1>14, <2>1, LifeChanges DEF TL!CreateDetached
  <2>2. CASE ~ req[p].detached
    BY <1>2, <1>12, <1>13, <1>14, <2>2, LifeChanges DEF TL!Create
  <2> QED BY <2>1, <2>2
<1> QED BY <1>2, <1>10, <1>11, <1>15 DEF LifeInv, TL!LifeNext

-----------------------------------------------------------------------------
(* The specification.                                                         *)

LEMMA InitLife == ASSUME RoomLeft PROVE Init => LifeInv /\ TL!LifeInit
<1> SUFFICES ASSUME Init PROVE LifeInv /\ TL!LifeInit
  OBVIOUS
<1>1. PICK h : h = [slot |-> 0, incarn |-> 0]
  OBVIOUS
<1>2. /\ NSlots \in Nat \ {0} /\ MaxLive \in 1 .. NSlots - 1 /\ IncMask \in Nat
      /\ Main \in PThreads /\ 0 \in Slots /\ h \in Ids /\ NoId \notin Ids
  BY <1>1, SlotsAssumption, PThreadsAssumption DEF RoomLeft, Slots, Ids, NoId, NULL
<1>3. TableInv
  BY InitInv
<1>4. /\ \A p \in PThreads : pc[p] = IF p = Main THEN "idle" ELSE "unborn"
      /\ \A p \in PThreads : self[p] = IF p = Main THEN h ELSE NoId
      /\ joinid[Main] = Nobody
  BY <1>1, <1>2 DEF Init
<1>5. ASSUME NEW i \in Slots
      PROVE  tab.incarn[i] = IF i = 0 THEN 0 ELSE IncMask
  <2>1. CASE i = 0
    <3>1. Holds(Main)
      BY <1>2, <1>4 DEF Holds, Alive
    <3> QED BY <1>1, <1>2, <1>3, <1>4, <2>1, <3>1 DEF TableInv, HolderInv, HolderAt
  <2>2. CASE i # 0
    <3> DEFINE t == ThNew(Table0, Main, FALSE, FALSE)
               no == FALSE  none == {}  pos == 0
    <3>1. /\ t = ThNew(Table0, Main, no, no) /\ no \in BOOLEAN /\ pos = Table0.free
          /\ Lists(Table0, none, Slots) /\ Cardinality(none) < MaxLive
          /\ Table0 \in TabType /\ Main \in PThreads \cup {Nobody}
      BY <1>2, FirstTable, FS_EmptySet DEF Table0
    <3>2. tab = [t EXCEPT !.tid[0] = Main, !.valid[0] = TRUE]
      BY DEF Init
    <3>3. Table0.incarn[i] = IncMask
      BY DEF Table0
    <3> HIDE DEF t, no, none, pos
    <3>4. /\ t \in TabType /\ Lists(t, none \cup {pos}, Slots \ {pos})
          /\ IsFresh(Table0, t, pos, no) /\ IsNoted(Table0, t, pos, no)
      BY ONLY RoomLeft, <3>1, ThNewLists
    <3>5. t.incarn[i] = IncMask
      BY <2>2, <3>3, <3>4 DEF IsFresh, StatusKept, pos
    <3> QED BY <2>2, <3>2, <3>4, <3>5 DEF TabType
  <2> QED BY <2>1, <2>2
<1>6. \A p \in PThreads : ~ Starting(p)
  BY <1>4 DEF Starting, Creating
<1>7. \A g \in Ids : g \in {self[p] : p \in PThreads} <=> g = h
  BY <1>2, <1>4
<1>8. IncarnInv
  <2> SUFFICES ASSUME NEW i \in Slots
               PROVE  \/ tab.incarn[i] = IncMask /\ GivenAt(i) = {}
                      \/ GivenAt(i) = 0 .. tab.incarn[i]
    BY DEF IncarnInv
  <2>1. \A n \in 0 .. IncMask : [slot |-> i, incarn |-> n] \in Given <=> i = 0 /\ n = 0
    <3>1. \A n \in 0 .. IncMask : /\ [slot |-> i, incarn |-> n] \in Ids
                                  /\ [slot |-> i, incarn |-> n] = h <=> i = 0 /\ n = 0
      BY <1>1 DEF Ids
    <3> QED BY <1>6, <1>7, <3>1 DEF Given
  <2>2. CASE i = 0
    BY <1>2, <1>5, <2>1, <2>2 DEF GivenAt
  <2>3. CASE i # 0
    BY <1>5, <2>1, <2>3 DEF GivenAt
  <2> QED BY <2>2, <2>3
<1>9. FreshInv
  BY <1>2, <1>4, <1>6 DEF FreshInv, Leaving
<1>10. LifeAt(h) = "running"
  <2>1. Holds(Main) /\ Alive(Main) /\ ~ Marked(Main)
    BY <1>2, <1>4, PThreadsAssumption DEF Holds, Alive, Marked
  <2> QED BY <1>2, <1>3, <1>4, <2>1, HolderLife
<1>11. \A g \in Ids : g # h => LifeAt(g) = "none"
  BY <1>7 DEF LifeAt
<1>12. TL!LifeInit
  <2>1. lifeOf = [g \in Ids |-> IF g = h THEN "running" ELSE "none"]
    BY <1>10, <1>11, LifeIs
  <2> QED BY <1>2, <2>1 DEF TL!LifeInit
<1> QED BY <1>3, <1>8, <1>9, <1>12 DEF LifeInv

LEMMA NextLife ==
  ASSUME RoomLeft, IdsSuffice, LifeInv, Undisturbed, NoFailedCreation', [Next]_vars
  PROVE  LifeInv' /\ [TL!LifeNext]_lifeOf
<1>1. TableInv'
  BY NextInv DEF LifeInv
<1>2. CASE UNCHANGED vars
  <2>1. UNCHANGED <<tab, pc, self, req>>
    BY <1>2 DEF vars
  <2>2. IncarnInv' /\ FreshInv'
    BY <2>1 DEF LifeInv, IncarnInv, GivenAt, Given, Starting, FreshInv
  <2>3. UNCHANGED lifeOf
    BY <2>1, SameLife
  <2> QED BY <1>1, <2>2, <2>3 DEF LifeInv
<1>3. ASSUME NEW p \in PThreads, Unseen(p) PROVE LifeInv' /\ UNCHANGED lifeOf
  <2>1. GoesOn(p) /\ SameEntries
    BY <1>3, UnseenGoesOn, UnseenEntries DEF LifeInv
  <2>2. LifeInv'
    BY <1>1, <2>1, NoIdGiven DEF SameEntries
  <2>3. UNCHANGED lifeOf
    BY <2>1, SameLife DEF SameEntries, GoesOn
  <2> QED BY <2>2, <2>3
<1>4. ASSUME NEW p \in PThreads, Call(p) PROVE LifeInv' /\ UNCHANGED lifeOf
  <2>1. ASSUME NEW d \in Modes, NEW a \in Aliases \cup {Nobody}, Setup(p, d, a)
        PROVE  LifeInv' /\ UNCHANGED lifeOf
    BY <1>1, <2>1, SetupStep
  <2> QED BY <1>3, <1>4, <2>1 DEF Call, Unseen
<1>5. ASSUME NEW p \in PThreads, Continue(p) PROVE LifeInv' /\ [TL!LifeNext]_lifeOf
  <2>1. /\ pc[p] \in Labels /\ pc[p] \notin {"markfailed", "clash"}
        /\ pc'[p] \notin {"markfailed", "clash"} /\ pc \in [PThreads -> Labels]
    BY DEF LifeInv, TableInv, TypeInv, Undisturbed, NoFailedCreation
  <2>2. ~ (SpawnFails(p) \/ Undo(p) \/ UndoUnlink(p) \/ UndoLink(p) \/ UndoToFree(p))
    BY <2>1 DEF SpawnFails, Goto, Undo, UndoUnlink, UndoLink, UndoToFree, Labels, Creating,
                Asking, Leaving
  <2>3. ASSUME NEW c \in PThreads, Spawn(p, c) PROVE LifeInv' /\ TL!LifeNext
    BY <1>1, <2>3, SpawnStep
  <2>4. CASE ExitTable(p)
    BY <1>1, <2>4, ExitTableStep, NoIdGiven
  <2>5. CASE JoinDelete(p)
    BY <1>1, <2>5, JoinDeleteStep, NoIdGiven
  <2>6. CASE DetachTable(p)
    BY <1>1, <2>6, DetachTableLife, NoIdGiven
  <2> QED BY <1>3, <1>5, <2>1, <2>2, <2>3, <2>4, <2>5, <2>6 DEF Continue, Unseen
<1> QED BY <1>2, <1>4, <1>5 DEF Next

(* The table implements the life of a thread that the documentation gives: a  *)
(* thread is running or detached when it is created, its entry goes when it   *)
(* exits detached, is joined or is detached after its exit, and an id that is *)
(* gone does not come back.                                                   *)
THEOREM TableRefinesLife ==
  ASSUME RoomLeft, IdsSuffice PROVE Spec /\ []Undisturbed => ImplementsThreadLife
<1>1. Init => LifeInv /\ TL!LifeInit
  BY InitLife
<1>2. LifeInv /\ Undisturbed /\ Undisturbed' /\ [Next]_vars
        => LifeInv' /\ [TL!LifeNext]_lifeOf
  BY NextLife DEF Undisturbed
<1> QED BY <1>1, <1>2, PTL DEF Spec, ImplementsThreadLife, TL!LifeSpec

(* As in OneJoinerIsSafe, without a condition on what the program does.       *)
THEOREM OneJoinerRefinesLife ==
  ASSUME RoomLeft, IdsSuffice, NoFailures, OneJoiner PROVE Spec => ImplementsThreadLife
<1> DEFINE Inv == TableInv /\ NoFailedCreation /\ failures = 0
<1>1. Init => Inv
  <2>1. Init => NoFailedCreation /\ failures = 0
    BY DEF Init, NoFailedCreation
  <2> QED BY <2>1, InitInv
<1>2. Inv => Undisturbed
  BY OneJoinerNoRace DEF Undisturbed
<1>3. Inv /\ [Next]_vars => Inv'
  <2> SUFFICES ASSUME Inv, [Next]_vars PROVE Inv'
    OBVIOUS
  <2>1. NoFailedCreation' /\ failures' = 0
    BY NothingFails DEF TableInv
  <2> QED BY <1>2, <2>1, NextInv
<1> QED BY <1>1, <1>2, <1>3, TableRefinesLife, PTL DEF Spec

-----------------------------------------------------------------------------
(* The aliases.  No thread is detached between its look at its own entry and  *)
(* its exit.                                                                  *)
NoLateDetach == \A p \in PThreads : DetachTable(p) => pc[req[p].tid] # "exit"

(* What a join and a creation know of the alias.                              *)
AliasedInv ==
  \A p \in PThreads :
    /\ pc[p] = "joined" => req[p].aliased = tab.aliased[req[p].h.slot]
    /\ Starting(p) => (tab.aliased[req[p].h.slot] <=> req[p].alias # Nobody)

(* Somebody will retract the aliases of h: the one that takes its entry, or   *)
(* the one that has taken it for a join.                                      *)
AliasKnown(h) ==
  \/ /\ InTable(h) /\ tab.aliased[h.slot]
     /\ \A q \in PThreads : pc[q] = "exit" /\ self[q] = h => ~ tab.detached[h.slot]
  \/ \E p \in PThreads : pc[p] = "answer" /\ req[p].aliased
AliasInv == \A a \in Aliases : aliasOf[a] = NoId \/ AliasKnown(aliasOf[a])

DanglingInv == TableInv /\ AliasedInv /\ AliasInv

LEMMA DanglingInvImplies == DanglingInv => NoDanglingAlias
<1> SUFFICES ASSUME DanglingInv, Quiet, NEW a \in Aliases, aliasOf[a] # NoId
             PROVE  \E i \in Reach(tab, tab.first) : IdOf(tab, i) = aliasOf[a]
  BY DEF NoDanglingAlias
<1>1. InTable(aliasOf[a])
  BY DEF DanglingInv, AliasInv, AliasKnown, Quiet
<1>2. aliasOf[a] \in Ids
  BY DEF DanglingInv, TableInv, TypeInv, RestTyped
<1>3. aliasOf[a] = [slot |-> aliasOf[a].slot, incarn |-> aliasOf[a].incarn]
  BY <1>2 DEF Ids
<1> QED BY <1>1, <1>3 DEF InTable, Live, IdOf

(* A thread with an entry, and its request.                                   *)
AsAliased(p) ==
  /\ pc'[p] = "joined" => req'[p].aliased = tab.aliased[req'[p].h.slot]
  /\ Starting(p)' => Starting(p) /\ req'[p] = req[p]

LEMMA AliasedStep ==
  ASSUME AliasedInv, NEW p \in PThreads, OnlyReq(p), tab'.aliased = tab.aliased, AsAliased(p)
  PROVE  AliasedInv'
<1> SUFFICES ASSUME NEW q \in PThreads
             PROVE  /\ pc'[q] = "joined" => req'[q].aliased = tab'.aliased[req'[q].h.slot]
                    /\ Starting(q)' => (tab'.aliased[req'[q].h.slot] <=> req'[q].alias # Nobody)
  BY DEF AliasedInv
<1>1. CASE q = p
  BY <1>1 DEF AliasedInv, AsAliased
<1>2. CASE q # p
  BY <1>2 DEF AliasedInv, OnlyReq, Starting
<1> QED BY <1>1, <1>2

LEMMA KnownNext ==
  ASSUME NEW a \in Aliases, NEW g, g = aliasOf'[a], g # NoId => AliasKnown(g)'
  PROVE  (aliasOf[a] = NoId \/ AliasKnown(aliasOf[a]))'
BY DEF AliasKnown, InTable

LEMMA AliasStep ==
  ASSUME TypeInv, AliasInv,
         \A a \in Aliases : aliasOf'[a] = NoId \/ aliasOf'[a] = aliasOf[a],
         ASSUME NEW h \in Ids, AliasKnown(h), \E a \in Aliases : aliasOf[a] = h /\ aliasOf'[a] = h
         PROVE  AliasKnown(h)'
  PROVE  AliasInv'
<1> SUFFICES ASSUME NEW a \in Aliases
             PROVE  (aliasOf[a] = NoId \/ AliasKnown(aliasOf[a]))'
  BY DEF AliasInv
<1>1. PICK g : g = aliasOf'[a]
  OBVIOUS
<1>2. ASSUME g # NoId PROVE AliasKnown(g)'
  <2>1. aliasOf[a] = g
    BY <1>1, <1>2
  <2>2. AliasKnown(aliasOf[a])
    BY <1>2, <2>1 DEF AliasInv
  <2>3. AliasKnown(g) /\ g \in Ids
    BY <1>2, <2>1, <2>2 DEF TypeInv, RestTyped
  <2> QED BY <1>1, <1>2, <2>1, <2>3
<1> QED BY <1>1, <1>2, KnownNext

(* The steps that change neither an entry, as far as aliases go, nor an       *)
(* alias.                                                                     *)
Plain(p) ==
  /\ OnlyReq(p) /\ self' = self /\ aliasOf' = aliasOf /\ SameEntries
  /\ tab'.aliased = tab.aliased /\ AsAliased(p)
  /\ pc[p] # "answer" /\ (pc'[p] = "exit" => pc[p] = "exit")

LEMMA PlainStep ==
  ASSUME DanglingInv, NEW p \in PThreads, Plain(p)
  PROVE  AliasedInv' /\ AliasInv'
<1>1. AliasedInv'
  BY AliasedStep DEF DanglingInv, Plain
<1>2. ASSUME NEW h, AliasKnown(h) PROVE AliasKnown(h)'
  <2>1. CASE \E q \in PThreads : pc[q] = "answer" /\ req[q].aliased
    BY <2>1 DEF Plain, OnlyReq, AliasKnown
  <2>2. CASE /\ InTable(h) /\ tab.aliased[h.slot]
             /\ \A q \in PThreads : pc[q] = "exit" /\ self[q] = h => ~ tab.detached[h.slot]
    <3>1. InTable(h)' /\ tab'.aliased[h.slot]
      BY <2>2 DEF Plain, SameEntries, InTable
    <3>2. \A q \in PThreads : pc'[q] = "exit" => pc[q] = "exit"
      BY DEF Plain, OnlyReq
    <3> QED BY <2>2, <3>1, <3>2 DEF AliasKnown, Plain, SameEntries
  <2> QED BY <1>2, <2>1, <2>2 DEF AliasKnown
<1>3. AliasInv'
  BY <1>2, AliasStep DEF DanglingInv, TableInv, Plain
<1> QED BY <1>1, <1>3

LEMMA WalksAlone ==
  ASSUME TableInv, NEW p \in PThreads, NEW l \in Labels, Goto(p, l),
         req' = req \/ \E r : Ask(p, r)
  PROVE  OnlyReq(p) /\ pc'[p] = l
<1>1. pc'[p] = l /\ \A q \in PThreads : q # p => pc'[q] = pc[q]
  BY Moved DEF TableInv
<1>2. \A q \in PThreads : q # p => req'[q] = req[q]
  BY DEF Ask, TableInv, TypeInv
<1> QED BY <1>1, <1>2 DEF OnlyReq

LEMMA IdleAgain ==
  ASSUME TableInv, NEW p \in PThreads, Done(p)
  PROVE  OnlyReq(p) /\ pc'[p] = "idle"
BY WalksAlone DEF Done, Labels

Unnoticed(p) ==
  \/ EndSetup(p) \/ (Mark(p) /\ pc[p] # "markfailed") \/ RunThread(p)
  \/ Uncount(p) \/ PthreadExit(p)
  \/ (\E h \in born : JoinGet(p, h) \/ DetachGet(p, h)) \/ JoinRefused(p) \/ JoinWaits(p)
  \/ JoinReturns(p) \/ PthreadDetach(p)

LEMMA UnnoticedIsPlain ==
  ASSUME TableInv, NoJoinRace, NEW p \in PThreads, Unnoticed(p)
  PROVE  Plain(p)
<1>1. SameEntries
  BY UnseenEntries DEF Unnoticed, Unseen
<1>2. self' = self /\ aliasOf' = aliasOf
  BY DEF Unnoticed, EndSetup, Mark, RunThread, Uncount, PthreadExit, JoinGet, DetachGet,
         JoinRefused, JoinWaits, JoinReturns, PthreadDetach, Elsewhere
<1>3. tab'.aliased = tab.aliased
  <2>1. CASE tab' = tab
    BY <2>1
  <2>2. CASE Mark(p) \/ RunThread(p)
    BY <2>2 DEF Mark, RunThread, TableInv, TypeInv, TabType
  <2> QED BY <2>1, <2>2 DEF Unnoticed, EndSetup, Uncount, PthreadExit, JoinGet, DetachGet,
              JoinRefused, JoinWaits, JoinReturns, PthreadDetach
<1>4. /\ OnlyReq(p) /\ AsAliased(p)
      /\ pc[p] # "answer" /\ (pc'[p] = "exit" => pc[p] = "exit")
  <2>1. CASE EndSetup(p)
    <3>1. PICK l \in {"spawn", "alias"} : Goto(p, l)
      BY <2>1 DEF EndSetup
    <3>2. pc[p] = "counting" /\ req' = req
      BY <2>1 DEF EndSetup
    <3> QED BY <3>1, <3>2, WalksAlone DEF AsAliased, Starting, Labels, Creating
  <2>2. CASE Mark(p) /\ pc[p] # "markfailed"
    BY <2>2, IdleAgain DEF Mark, AsAliased, Starting, Creating
  <2>3. CASE RunThread(p)
    BY <2>3, WalksAlone DEF RunThread, Labels, AsAliased, Starting, Creating
  <2>4. CASE Uncount(p) \/ PthreadExit(p)
    <3>1. PICK l \in {"uncount2", "gone"} : Goto(p, l)
      BY <2>4 DEF Uncount, PthreadExit
    <3>2. pc[p] \in {"uncount", "uncount2"} /\ req' = req
      BY <2>4 DEF Uncount, PthreadExit
    <3> QED BY <3>1, <3>2, WalksAlone DEF Labels, Leaving, AsAliased, Starting, Creating
  <2>5. ASSUME NEW h \in born, JoinGet(p, h) \/ DetachGet(p, h)
        PROVE  /\ OnlyReq(p) /\ AsAliased(p)
               /\ pc[p] # "answer" /\ (pc'[p] = "exit" => pc[p] = "exit")
    <3>1. PICK l \in {"join", "detach"} : Goto(p, l)
      BY <2>5 DEF JoinGet, DetachGet
    <3>2. (\E r : Ask(p, r)) /\ pc[p] = "idle"
      BY <2>5 DEF JoinGet, DetachGet
    <3> QED BY <3>1, <3>2, WalksAlone DEF Labels, Asking, AsAliased, Starting, Creating
  <2>6. CASE JoinRefused(p)
    BY <2>6, IdleAgain DEF JoinRefused, NoJoinRace, AsAliased, Starting, Creating
  <2>7. CASE JoinWaits(p)
    BY <2>7, WalksAlone DEF JoinWaits, Labels, Asking, AsAliased, Starting, Creating
  <2>8. CASE JoinReturns(p)
    <3>1. PICK r : /\ r = [req[p] EXCEPT !.aliased = tab.aliased[req[p].h.slot],
                                         !.ball = req[req[p].tid].ball]
                   /\ Ask(p, r) /\ Goto(p, "joined") /\ pc[p] = "joining"
      BY <2>8 DEF JoinReturns
    <3>2. r.h = req[p].h /\ r.aliased = tab.aliased[req[p].h.slot] /\ req'[p] = r
      BY <3>1 DEF Ask, TableInv, TypeInv, ReqType
    <3> QED BY <3>1, <3>2, WalksAlone DEF Labels, Asking, AsAliased, Starting, Creating
  <2>9. CASE PthreadDetach(p)
    <3>1. PICK l \in {"idle", "detached"} : Goto(p, l)
      BY <2>9 DEF PthreadDetach, Done
    <3>2. (req' = req \/ \E r : Ask(p, r)) /\ pc[p] = "detach"
      BY <2>9 DEF PthreadDetach, Done
    <3> QED BY <3>1, <3>2, WalksAlone DEF Labels, Asking, AsAliased, Starting, Creating
  <2> QED BY <2>1, <2>2, <2>3, <2>4, <2>5, <2>6, <2>7, <2>8, <2>9 DEF Unnoticed
<1> QED BY <1>1, <1>2, <1>3, <1>4 DEF Plain

LEMMA AddAliasAliases ==
  ASSUME DanglingInv, NEW p \in PThreads, AddAlias(p), pc'[p] # "clash"
  PROVE  AliasedInv' /\ AliasInv'
<1>0. PICK h : h = req[p].h
  OBVIOUS
<1>1. /\ pc[p] = "alias" /\ tab' = tab /\ self' = self /\ req' = req /\ Starting(p)
      /\ TableInv
  BY DEF AddAlias, Starting, Creating, DanglingInv
<1>2. req[p].alias \in Aliases /\ req[p].alias # Nobody
  BY <1>1, PThreadsAssumption DEF TableInv, TypeInv
<1>3. Goto(p, "spawn") /\ aliasOf' = [aliasOf EXCEPT ![req[p].alias] = h]
  BY <1>0, <1>1 DEF AddAlias, Goto, TableInv, TypeInv
<1>4. OnlyReq(p) /\ pc'[p] = "spawn" /\ pc \in [PThreads -> Labels]
  BY <1>1, <1>3, WalksAlone DEF Labels, Creating, TableInv, TypeInv
<1>5. AliasedInv'
  BY <1>1, <1>4, AliasedStep DEF AsAliased, Starting, Creating, DanglingInv
<1>6. ASSUME NEW g, AliasKnown(g) PROVE AliasKnown(g)'
  BY <1>1, <1>4, <1>6 DEF AliasKnown, OnlyReq, InTable
<1>7. AliasKnown(h)'
  <2>1. InTable(h) /\ tab.aliased[h.slot]
    BY <1>0, <1>1, <1>2 DEF TableInv, StartingInv, StartingAt, InTable, DanglingInv, AliasedInv
  <2>2. ASSUME NEW q \in PThreads, pc[q] = "exit", self[q] = h PROVE FALSE
    BY <1>0, <1>1, <2>2 DEF Holds, Alive, TableInv, OneHolder
  <2> QED BY <1>1, <1>4, <2>1, <2>2 DEF AliasKnown, InTable, OnlyReq
<1>8. AliasInv'
  <2> SUFFICES ASSUME NEW a \in Aliases
               PROVE  (aliasOf[a] = NoId \/ AliasKnown(aliasOf[a]))'
    BY DEF AliasInv
  <2>1. PICK g : g = aliasOf'[a]
    OBVIOUS
  <2>2. g = h \/ g = aliasOf[a]
    BY <1>1, <1>3, <2>1 DEF TableInv, TypeInv, RestTyped
  <2>3. aliasOf[a] = NoId \/ AliasKnown(aliasOf[a])
    BY DEF DanglingInv, AliasInv
  <2>4. g # NoId => AliasKnown(g)'
    BY <1>6, <1>7, <2>2, <2>3
  <2> QED BY <2>1, <2>4, KnownNext
<1> QED BY <1>5, <1>8

LEMMA LeaveAliases ==
  ASSUME DanglingInv, NEW p \in PThreads, NEW b \in BOOLEAN, LeaveProlog(p, b)
  PROVE  AliasedInv' /\ AliasInv'
<1>1. /\ pc[p] = "idle" /\ tab' = tab /\ self' = self /\ Goto(p, "exit")
      /\ \E r : Ask(p, r)
      /\ TableInv
  BY DEF LeaveProlog, DanglingInv
<1>2. OnlyReq(p) /\ pc'[p] = "exit"
  BY <1>1, WalksAlone DEF Labels, Leaving
<1>3. AliasedInv'
  BY <1>1, <1>2, AliasedStep DEF AsAliased, Starting, Creating, DanglingInv
<1>4. ASSUME NEW a \in Aliases
      PROVE  /\ aliasOf'[a] = NoId \/ aliasOf'[a] = aliasOf[a]
             /\ aliasOf[a] = self[p] /\ tab.detached[self[p].slot] /\ tab.aliased[self[p].slot]
                  => aliasOf'[a] = NoId
  BY <1>1 DEF LeaveProlog, RemoveAllAliases, RemoveAliases
<1>5. ASSUME NEW h \in Ids, AliasKnown(h), \E a \in Aliases : aliasOf[a] = h /\ aliasOf'[a] = h
      PROVE  AliasKnown(h)'
  <2>1. CASE \E q \in PThreads : pc[q] = "answer" /\ req[q].aliased
    BY <1>1, <1>2, <2>1 DEF OnlyReq, AliasKnown
  <2>2. CASE /\ InTable(h) /\ tab.aliased[h.slot]
             /\ \A q \in PThreads : pc[q] = "exit" /\ self[q] = h => ~ tab.detached[h.slot]
    <3>1. self[p] = h => ~ tab.detached[h.slot]
      BY <1>4, <1>5, <2>2, SlotsAreFinite DEF NoId, Ids
    <3>2. InTable(h)' /\ tab'.aliased[h.slot]
      BY <1>1, <2>2 DEF InTable
    <3>3. \A q \in PThreads : pc'[q] = "exit" /\ self'[q] = h => ~ tab'.detached[h.slot]
      BY <1>1, <1>2, <2>2, <3>1 DEF OnlyReq
    <3> QED BY <3>2, <3>3 DEF AliasKnown
  <2> QED BY <1>5, <2>1, <2>2 DEF AliasKnown
<1> QED BY <1>3, <1>4, <1>5, AliasStep DEF DanglingInv, TableInv

LEMMA SetupAliases ==
  ASSUME RoomLeft, DanglingInv, NEW p \in PThreads, NEW d \in Modes,
         NEW a \in Aliases \cup {Nobody}, Setup(p, d, a)
  PROVE  AliasedInv' /\ AliasInv'
<1>0. PICK pos : pos = tab.free
  OBVIOUS
<1>1. TableInv
  BY DEF DanglingInv
<1>2. /\ pos \in Slots /\ pos \notin Live(tab) /\ Live(tab') = Live(tab) \cup {pos}
      /\ IsFresh(tab, tab', pos, d) /\ IsNoted(tab, tab', pos, a # Nobody)
  BY <1>0, <1>1, SetupTable
<1>3. /\ tab'.aliased[pos] = (a # Nobody)
      /\ \A i \in Slots : i # pos => /\ tab'.incarn[i] = tab.incarn[i]
                                     /\ tab'.detached[i] = tab.detached[i]
                                     /\ tab'.aliased[i] = tab.aliased[i]
  BY <1>1, <1>2 DEF IsFresh, IsNoted, StatusKept, TableInv, TypeInv, TabType
<1>4. PICK r : /\ r = [NoReq EXCEPT !.kind = "create", !.h = IdOf(tab', pos), !.alias = a,
                                    !.detached = d]
               /\ Ask(p, r) /\ Goto(p, "counting")
  BY <1>0 DEF Setup
<1>5. r.h.slot = pos /\ r.alias = a
  BY <1>4 DEF NoReq, IdOf
<1>6. OnlyReq(p) /\ pc'[p] = "counting" /\ req'[p] = r
  BY <1>1, <1>4, WalksAlone DEF Labels, Creating, Ask, TableInv, TypeInv
<1>7. self' = self /\ aliasOf' = aliasOf /\ pc[p] = "idle" /\ Live(tab) \subseteq Slots
  BY <1>1 DEF Setup, TableInv, ListsInv, Lists, IsList
<1>8. AliasedInv'
  <2> SUFFICES ASSUME NEW q \in PThreads
               PROVE  /\ pc'[q] = "joined" => req'[q].aliased = tab'.aliased[req'[q].h.slot]
                      /\ Starting(q)' => (tab'.aliased[req'[q].h.slot] <=> req'[q].alias # Nobody)
    BY DEF AliasedInv
  <2>1. CASE q = p
    BY <1>3, <1>5, <1>6, <2>1
  <2>2. CASE q # p
    <3>1. pc'[q] = pc[q] /\ req'[q] = req[q]
      BY <1>6, <2>2 DEF OnlyReq
    <3>2. pc[q] = "joined" => req[q].h.slot \in Live(tab)
      <4> HAVE pc[q] = "joined"
      <4>1. req[q].tid \in PThreads /\ self[req[q].tid] = req[q].h /\ Holds(req[q].tid)
        BY <1>1 DEF TableInv, AskInv, AskerAt, Asking, Holds, Pending
      <4> QED BY <1>1, <4>1 DEF TableInv, HolderInv, HolderAt
    <3>3. Starting(q) => req[q].h.slot \in Live(tab)
      BY <1>1 DEF TableInv, StartingInv, StartingAt
    <3> QED BY <1>2, <1>3, <1>7, <3>1, <3>2, <3>3 DEF DanglingInv, AliasedInv, Starting
  <2> QED BY <2>1, <2>2
<1>9. ASSUME NEW h, AliasKnown(h) PROVE AliasKnown(h)'
  <2>1. CASE \E q \in PThreads : pc[q] = "answer" /\ req[q].aliased
    BY <1>6, <1>7, <2>1 DEF OnlyReq, AliasKnown
  <2>2. CASE /\ InTable(h) /\ tab.aliased[h.slot]
             /\ \A q \in PThreads : pc[q] = "exit" /\ self[q] = h => ~ tab.detached[h.slot]
    <3>1. h.slot \in Slots /\ h.slot # pos
      BY <1>2, <1>7, <2>2 DEF InTable
    <3>2. InTable(h)' /\ tab'.aliased[h.slot] /\ tab'.detached[h.slot] = tab.detached[h.slot]
      BY <1>2, <1>3, <2>2, <3>1 DEF InTable
    <3>3. \A q \in PThreads : pc'[q] = "exit" => pc[q] = "exit"
      BY <1>6, <1>7 DEF OnlyReq
    <3> QED BY <1>7, <2>2, <3>2, <3>3 DEF AliasKnown
  <2> QED BY <1>9, <2>1, <2>2 DEF AliasKnown
<1>10. AliasInv'
  BY <1>7, <1>9, AliasStep DEF DanglingInv, TableInv
<1> QED BY <1>8, <1>10

LEMMA SpawnAliases ==
  ASSUME DanglingInv, NEW p \in PThreads, NEW c \in PThreads, Spawn(p, c)
  PROVE  AliasedInv' /\ AliasInv'
<1>0. TableInv
  BY DEF DanglingInv
<1>1. /\ pc[p] = "spawn" /\ pc[c] = "unborn" /\ c # p /\ req' = req /\ aliasOf' = aliasOf
      /\ pc' = [pc EXCEPT ![p] = "mark", ![c] = "born"]
      /\ self' = [self EXCEPT ![c] = req[p].h]
      /\ tab' = [tab EXCEPT !.tid[req[p].h.slot] = c, !.ctxt[req[p].h.slot] = c]
  BY DEF Spawn
<1>2. /\ pc'[p] = "mark" /\ pc'[c] = "born"
      /\ \A q \in PThreads : q \notin {p, c} => pc'[q] = pc[q]
      /\ \A q \in PThreads : q # c => self'[q] = self[q]
  BY <1>0, <1>1 DEF TableInv, TypeInv
<1>3. /\ Live(tab') = Live(tab) /\ tab'.incarn = tab.incarn
      /\ tab'.detached = tab.detached /\ tab'.aliased = tab.aliased
  <2>1. PICK t, x : tab' = [tab EXCEPT !.tid = t, !.ctxt = x]
    BY <1>1
  <2>2. /\ tab'.next = tab.next /\ tab'.first = tab.first /\ tab'.prev = tab.prev
        /\ tab'.free = tab.free /\ tab'.last = tab.last /\ tab'.incarn = tab.incarn
        /\ tab'.detached = tab.detached /\ tab'.aliased = tab.aliased
    BY <1>0, <2>1 DEF TableInv, TypeInv, TabType
  <2>3. Lists(tab', Live(tab), Unused(tab))
    BY <1>0, <2>2 DEF TableInv, ListsInv, Lists
  <2> QED BY <2>2, <2>3, ListsAreReached
<1>4. AliasedInv'
  <2>1. \A q \in PThreads : /\ pc'[q] = "joined" => pc[q] = "joined"
                            /\ Starting(q)' => Starting(q)
    BY <1>1, <1>2 DEF Starting, Creating
  <2> QED BY <1>1, <1>3, <2>1 DEF DanglingInv, AliasedInv
<1>5. ASSUME NEW h, AliasKnown(h) PROVE AliasKnown(h)'
  <2>1. \A q \in PThreads : pc'[q] = "exit" => pc[q] = "exit" /\ self'[q] = self[q]
    BY <1>1, <1>2
  <2>2. \A q \in PThreads : pc[q] = "answer" => pc'[q] = "answer"
    BY <1>1, <1>2
  <2> QED BY <1>1, <1>3, <1>5, <2>1, <2>2 DEF AliasKnown, InTable
<1>6. AliasInv'
  BY <1>1, <1>5, AliasStep DEF DanglingInv, TableInv
<1> QED BY <1>4, <1>6

(* The entry of h leaves the list of threads.                                 *)
LEMMA TakenAliases ==
  ASSUME TableInv, NEW h \in Ids, InTable(h),
         NEW tb, tb \in {tab, [tab EXCEPT !.ctxt[h.slot] = Nobody]},
         tab' = ThDelete(tb, h.slot),
         NEW g \in Ids, g # h, InTable(g), tab.aliased[g.slot]
  PROVE  /\ InTable(g)' /\ tab'.aliased[g.slot]
         /\ tab'.detached[g.slot] = tab.detached[g.slot]
<1>1. h.slot \in Slots /\ h.slot \in Live(tab)
  BY DEF Ids, InTable
<1>2. PICK i \in Slots : i = h.slot
  BY <1>1
<1>3. /\ Live(tab') = Live(tab) \ {i} /\ tab'.incarn = tab.incarn
      /\ tab'.aliased = tab.aliased /\ tab'.detached = tab.detached
  BY <1>1, <1>2, Deleted
<1>4. CASE g.slot # i
  BY <1>3, <1>4 DEF InTable
<1>5. CASE g.slot = i
  BY <1>2, <1>5 DEF InTable, Ids
<1> QED BY <1>4, <1>5

LEMMA ExitAliases ==
  ASSUME DanglingInv, NEW p \in PThreads, ExitTable(p)
  PROVE  AliasedInv' /\ AliasInv'
<1>0. PICK h : h = self[p]
  OBVIOUS
<1>1. /\ pc[p] = "exit" /\ self' = self /\ req' = req /\ Goto(p, "uncount")
      /\ aliasOf' = aliasOf /\ tab' = ExitEntry(tab, h.slot, req[p].ball) /\ TableInv
  BY <1>0 DEF ExitTable, Elsewhere, DanglingInv
<1>2. OnlyReq(p) /\ pc'[p] = "uncount"
  BY <1>1, WalksAlone DEF Labels, Leaving
<1>3. h \in Ids /\ InTable(h) /\ h.slot \in Slots
  BY <1>0, <1>1, HolderLife DEF Holds, Alive
<1>4. ASSUME NEW g \in Ids, InTable(g), tab.aliased[g.slot], g = h => ~ tab.detached[h.slot]
      PROVE  /\ InTable(g)' /\ tab'.aliased[g.slot]
             /\ tab'.detached[g.slot] = tab.detached[g.slot]
  <2>1. CASE tab.detached[h.slot]
    <3>1. PICK tb : tb = [tab EXCEPT !.ctxt[h.slot] = Nobody]
      OBVIOUS
    <3>2. tab' = ThDelete(tb, h.slot)
      BY <1>1, <2>1, <3>1 DEF ExitEntry, TableInv, TypeInv, TabType
    <3> QED BY <1>1, <1>3, <1>4, <2>1, <3>1, <3>2, TakenAliases
  <2>2. CASE ~ tab.detached[h.slot]
    <3>1. PICK c, e, b : tab' = [tab EXCEPT !.ctxt = c, !.exited = e, !.ball = b]
      BY <1>1, <2>2 DEF ExitEntry
    <3>2. /\ tab'.next = tab.next /\ tab'.first = tab.first /\ tab'.incarn = tab.incarn
          /\ tab'.aliased = tab.aliased /\ tab'.detached = tab.detached
          /\ tab'.prev = tab.prev /\ tab'.free = tab.free /\ tab'.last = tab.last
      BY <1>1, <3>1 DEF TableInv, TypeInv, TabType
    <3>3. Live(tab') = Live(tab)
      <4>1. Lists(tab', Live(tab), Unused(tab))
        BY <1>1, <3>2 DEF TableInv, ListsInv, Lists
      <4> QED BY <4>1, ListsAreReached
    <3> QED BY <1>4, <3>2, <3>3 DEF InTable
  <2> QED BY <2>1, <2>2
<1>5. tab'.aliased = tab.aliased
  <2>1. CASE tab.detached[h.slot]
    <3>1. PICK tb, i : tb = [tab EXCEPT !.ctxt[h.slot] = Nobody] /\ i = h.slot
      OBVIOUS
    <3>2. tab' = ThDelete(tb, i)
      BY <1>1, <2>1, <3>1 DEF ExitEntry, TableInv, TypeInv, TabType
    <3> QED BY <1>1, <1>3, <3>1, <3>2, Deleted DEF InTable
  <2>2. CASE ~ tab.detached[h.slot]
    BY <1>1, <2>2 DEF ExitEntry, TableInv, TypeInv, TabType
  <2> QED BY <2>1, <2>2
<1>6. AliasedInv'
  BY <1>1, <1>2, <1>5, AliasedStep DEF AsAliased, Starting, Creating, DanglingInv
<1>7. ASSUME NEW g \in Ids, AliasKnown(g) PROVE AliasKnown(g)'
  <2>1. CASE \E q \in PThreads : pc[q] = "answer" /\ req[q].aliased
    BY <1>1, <1>2, <2>1 DEF OnlyReq, AliasKnown
  <2>2. CASE /\ InTable(g) /\ tab.aliased[g.slot]
             /\ \A q \in PThreads : pc[q] = "exit" /\ self[q] = g => ~ tab.detached[g.slot]
    <3>1. g = h => ~ tab.detached[h.slot]
      BY <1>0, <1>1, <2>2
    <3>2. /\ InTable(g)' /\ tab'.aliased[g.slot]
          /\ tab'.detached[g.slot] = tab.detached[g.slot]
      BY <1>4, <2>2, <3>1
    <3>3. \A q \in PThreads : pc'[q] = "exit" => pc[q] = "exit"
      BY <1>1, <1>2 DEF OnlyReq
    <3> QED BY <1>1, <2>2, <3>2, <3>3 DEF AliasKnown
  <2> QED BY <1>7, <2>1, <2>2 DEF AliasKnown
<1>8. AliasInv'
  BY <1>1, <1>7, AliasStep DEF DanglingInv, TableInv
<1> QED BY <1>6, <1>8

LEMMA JoinDeleteAliases ==
  ASSUME DanglingInv, NEW p \in PThreads, JoinDelete(p)
  PROVE  AliasedInv' /\ AliasInv'
<1>0. PICK q, h : q = req[p].tid /\ h = req[p].h
  OBVIOUS
<1>1. /\ pc[p] = "joined" /\ self' = self /\ req' = req /\ Goto(p, "answer")
      /\ aliasOf' = aliasOf /\ tab' = ThDelete(tab, h.slot) /\ TableInv
  BY <1>0 DEF JoinDelete, Elsewhere, DanglingInv
<1>2. OnlyReq(p) /\ pc'[p] = "answer"
  BY <1>1, WalksAlone DEF Labels
<1>3. q \in PThreads /\ h = self[q] /\ Holds(q)
  BY <1>0, <1>1 DEF TableInv, AskInv, AskerAt, Asking, Holds, Pending
<1>4. h \in Ids /\ InTable(h) /\ h.slot \in Slots
  BY <1>1, <1>3, HolderLife
<1>5. tab'.aliased = tab.aliased
  <2>1. PICK i : i = h.slot
    OBVIOUS
  <2> QED BY <1>1, <1>4, <2>1, Deleted DEF InTable
<1>6. AliasedInv'
  BY <1>1, <1>2, <1>5, AliasedStep DEF AsAliased, Starting, Creating, DanglingInv
<1>7. ASSUME NEW g \in Ids, AliasKnown(g) PROVE AliasKnown(g)'
  <2>1. CASE \E s \in PThreads : pc[s] = "answer" /\ req[s].aliased
    BY <1>1, <1>2, <2>1 DEF OnlyReq, AliasKnown
  <2>2. CASE /\ InTable(g) /\ tab.aliased[g.slot]
             /\ \A s \in PThreads : pc[s] = "exit" /\ self[s] = g => ~ tab.detached[g.slot]
    <3>1. CASE g = h
      <4>1. req[p].aliased
        BY <1>0, <1>1, <2>2, <3>1 DEF DanglingInv, AliasedInv
      <4> QED BY <1>1, <1>2, <4>1 DEF AliasKnown
    <3>2. CASE g # h
      <4>1. /\ InTable(g)' /\ tab'.aliased[g.slot]
            /\ tab'.detached[g.slot] = tab.detached[g.slot]
        <5>1. PICK tb : tb = tab
          OBVIOUS
        <5> QED BY <1>1, <1>4, <2>2, <3>2, <5>1, TakenAliases
      <4>2. \A s \in PThreads : pc'[s] = "exit" => pc[s] = "exit"
        BY <1>1, <1>2 DEF OnlyReq
      <4> QED BY <1>1, <2>2, <4>1, <4>2 DEF AliasKnown
    <3> QED BY <3>1, <3>2
  <2> QED BY <1>7, <2>1, <2>2 DEF AliasKnown
<1>8. AliasInv'
  BY <1>1, <1>7, AliasStep DEF DanglingInv, TableInv
<1> QED BY <1>6, <1>8

LEMMA AnswerAliases ==
  ASSUME DanglingInv, NEW p \in PThreads, JoinAnswer(p)
  PROVE  AliasedInv' /\ AliasInv'
<1>1. /\ pc[p] = "answer" /\ self' = self /\ tab' = tab /\ Done(p) /\ TableInv
      /\ aliasOf' = IF req[p].aliased THEN RemoveAllAliases ELSE aliasOf
  BY DEF JoinAnswer, DanglingInv
<1>2. OnlyReq(p) /\ pc'[p] = "idle"
  BY <1>1, IdleAgain
<1>3. AliasedInv'
  BY <1>1, <1>2, AliasedStep DEF AsAliased, Starting, Creating, DanglingInv
<1>4. CASE req[p].aliased
  BY <1>1, <1>3, <1>4 DEF RemoveAllAliases, AliasInv
<1>5. CASE ~ req[p].aliased
  <2>1. ASSUME NEW g \in Ids, AliasKnown(g) PROVE AliasKnown(g)'
    <3>1. CASE \E q \in PThreads : pc[q] = "answer" /\ req[q].aliased
      BY <1>2, <1>5, <3>1 DEF OnlyReq, AliasKnown
    <3>2. CASE /\ InTable(g) /\ tab.aliased[g.slot]
               /\ \A q \in PThreads : pc[q] = "exit" /\ self[q] = g => ~ tab.detached[g.slot]
      <4>1. \A q \in PThreads : pc'[q] = "exit" => pc[q] = "exit"
        BY <1>2 DEF OnlyReq
      <4> QED BY <1>1, <3>2, <4>1 DEF AliasKnown, InTable
    <3> QED BY <2>1, <3>1, <3>2 DEF AliasKnown
  <2> QED BY <1>1, <1>3, <1>5, <2>1, AliasStep DEF DanglingInv, TableInv
<1> QED BY <1>4, <1>5

LEMMA DetachAliases ==
  ASSUME DanglingInv, NoLateDetach, NEW p \in PThreads, DetachTable(p)
  PROVE  AliasedInv' /\ AliasInv'
<1>0. PICK q, h : q = req[p].tid /\ h = req[p].h
  OBVIOUS
<1>1. /\ pc[p] = "detached" /\ Done(p) /\ self' = self /\ pc[q] # "exit" /\ TableInv
      /\ aliasOf' = IF tab.exited[h.slot] /\ ~ tab.detached[h.slot] /\ tab.aliased[h.slot]
                    THEN RemoveAliases(h) ELSE aliasOf
      /\ tab' = DetachEntry(tab, h.slot)
  BY <1>0 DEF DetachTable, NoLateDetach, DanglingInv
<1>2. OnlyReq(p) /\ pc'[p] = "idle"
  BY <1>1, IdleAgain
<1>3. q \in PThreads /\ self[q] = h /\ Holds(q) /\ HolderAt(q) /\ Pending(q)
  BY <1>0, <1>1, DetachTableStep DEF DetachesAt
<1>4. h \in Ids /\ InTable(h) /\ h.slot \in Slots /\ ~ tab.detached[h.slot]
  BY <1>1, <1>3, HolderLife DEF HolderAt, Marked
<1>5. tab'.aliased = tab.aliased
  <2>1. CASE tab.exited[h.slot]
    <3>1. PICK i : i = h.slot
      OBVIOUS
    <3> QED BY <1>1, <1>4, <2>1, <3>1, Deleted DEF InTable, DetachEntry
  <2>2. CASE ~ tab.exited[h.slot]
    BY <1>1, <2>2 DEF DetachEntry, TableInv, TypeInv, TabType
  <2> QED BY <2>1, <2>2
<1>6. AliasedInv'
  BY <1>1, <1>2, <1>5, AliasedStep DEF AsAliased, Starting, Creating, DanglingInv
<1>7. ASSUME NEW g \in Ids, AliasKnown(g), \E a \in Aliases : aliasOf[a] = g /\ aliasOf'[a] = g
      PROVE  AliasKnown(g)'
  <2>1. CASE \E s \in PThreads : pc[s] = "answer" /\ req[s].aliased
    BY <1>1, <1>2, <2>1 DEF OnlyReq, AliasKnown
  <2>2. CASE /\ InTable(g) /\ tab.aliased[g.slot]
             /\ \A s \in PThreads : pc[s] = "exit" /\ self[s] = g => ~ tab.detached[g.slot]
    <3>0. \A s \in PThreads : pc'[s] = "exit" => pc[s] = "exit"
      BY <1>2 DEF OnlyReq
    <3>1. CASE tab.exited[h.slot]
      <4>1. g # h
        <5> SUFFICES ASSUME g = h PROVE FALSE
          OBVIOUS
        <5>1. aliasOf' = RemoveAliases(h)
          BY <1>1, <1>4, <2>2, <3>1
        <5> QED BY <1>7, <5>1, SlotsAreFinite DEF RemoveAliases, NoId, Ids
      <4>2. PICK tb : tb = tab
        OBVIOUS
      <4>3. tab' = ThDelete(tb, h.slot)
        BY <1>1, <3>1, <4>2 DEF DetachEntry
      <4>4. /\ InTable(g)' /\ tab'.aliased[g.slot]
            /\ tab'.detached[g.slot] = tab.detached[g.slot]
        BY <1>1, <1>4, <2>2, <4>1, <4>2, <4>3, TakenAliases
      <4> QED BY <1>1, <2>2, <3>0, <4>4 DEF AliasKnown
    <3>2. CASE ~ tab.exited[h.slot]
      <4>1. PICK d : d = [tab.detached EXCEPT ![h.slot] = TRUE]
        OBVIOUS
      <4>2. tab' = [tab EXCEPT !.detached = d]
        BY <1>1, <3>2, <4>1 DEF DetachEntry, TableInv, TypeInv, TabType
      <4>3. /\ tab'.next = tab.next /\ tab'.first = tab.first /\ tab'.incarn = tab.incarn
            /\ tab'.prev = tab.prev /\ tab'.free = tab.free /\ tab'.last = tab.last
            /\ tab'.detached = d
        BY <1>1, <4>2 DEF TableInv, TypeInv, TabType
      <4>4. Live(tab') = Live(tab)
        <5>1. Lists(tab', Live(tab), Unused(tab))
          BY <1>1, <4>3 DEF TableInv, ListsInv, Lists
        <5> QED BY <5>1, ListsAreReached
      <4>5. InTable(g)' /\ tab'.aliased[g.slot]
        BY <1>5, <2>2, <4>3, <4>4 DEF InTable
      <4>6. g.slot = h.slot => g = h
        BY <1>4, <2>2 DEF InTable, Ids
      <4>7. ASSUME NEW s \in PThreads, pc[s] = "exit", self[s] = g PROVE ~ tab'.detached[g.slot]
        <5>1. Holds(s) /\ s # q
          BY <1>1, <4>7 DEF Holds, Alive
        <5>2. g.slot # h.slot
          BY <1>1, <1>3, <4>7, <5>1 DEF TableInv, OneHolder
        <5>3. g.slot \in Slots
          BY DEF Ids
        <5> QED BY <1>1, <2>2, <4>1, <4>3, <4>7, <5>2, <5>3 DEF TableInv, TypeInv, TabType
      <4> QED BY <1>1, <3>0, <4>5, <4>7 DEF AliasKnown
    <3> QED BY <3>1, <3>2
  <2> QED BY <1>7, <2>1, <2>2 DEF AliasKnown
<1>8. AliasInv'
  BY <1>1, <1>7, AliasStep DEF DanglingInv, TableInv, RemoveAliases
<1> QED BY <1>6, <1>8

LEMMA InitDangling == ASSUME RoomLeft PROVE Init => DanglingInv
<1> SUFFICES ASSUME Init PROVE AliasedInv /\ AliasInv
  BY InitInv DEF DanglingInv
<1>1. \A p \in PThreads : pc[p] \in {"idle", "unborn"}
  BY DEF Init
<1>2. \A a \in Aliases : aliasOf[a] = NoId
  BY DEF Init
<1> QED BY <1>1, <1>2 DEF AliasedInv, AliasInv, Starting, Creating

LEMMA NextDangling ==
  ASSUME RoomLeft, DanglingInv, Undisturbed, NoFailedCreation', [Next]_vars,
         [NoLateDetach]_vars
  PROVE  DanglingInv'
<1>1. TableInv /\ TableInv' /\ NoJoinRace
  BY NextInv DEF DanglingInv, Undisturbed
<1>2. CASE UNCHANGED vars
  <2>1. UNCHANGED <<tab, pc, self, req, aliasOf>>
    BY <1>2 DEF vars
  <2>2. AliasedInv' /\ AliasInv'
    BY <2>1 DEF DanglingInv, AliasedInv, AliasInv, AliasKnown, InTable, Starting
  <2> QED BY <1>1, <2>2 DEF DanglingInv
<1>3. ASSUME NEW p \in PThreads, Unnoticed(p) PROVE DanglingInv'
  BY <1>1, <1>3, UnnoticedIsPlain, PlainStep DEF DanglingInv
<1>4. ASSUME NEW p \in PThreads, Call(p) PROVE DanglingInv'
  <2>1. ASSUME NEW d \in Modes, NEW a \in Aliases \cup {Nobody}, Setup(p, d, a)
        PROVE  DanglingInv'
    BY <1>1, <2>1, SetupAliases DEF DanglingInv
  <2>2. ASSUME NEW b \in BOOLEAN, LeaveProlog(p, b) PROVE DanglingInv'
    BY <1>1, <2>2, LeaveAliases DEF DanglingInv
  <2> QED BY <1>3, <1>4, <2>1, <2>2 DEF Call, Unnoticed
<1>5. ASSUME NoLateDetach, NEW p \in PThreads, Continue(p) PROVE DanglingInv'
  <2>1. /\ pc[p] \in Labels /\ pc[p] \notin {"markfailed", "clash"}
        /\ pc'[p] \notin {"markfailed", "clash"} /\ pc \in [PThreads -> Labels]
    BY <1>1 DEF TableInv, TypeInv, Undisturbed, NoFailedCreation
  <2>2. ~ (SpawnFails(p) \/ Undo(p) \/ UndoUnlink(p) \/ UndoLink(p) \/ UndoToFree(p))
    BY <2>1 DEF SpawnFails, Goto, Undo, UndoUnlink, UndoLink, UndoToFree, Labels, Creating,
                Asking, Leaving
  <2>3. ASSUME NEW c \in PThreads, Spawn(p, c) PROVE DanglingInv'
    BY <1>1, <2>3, SpawnAliases DEF DanglingInv
  <2>4. CASE AddAlias(p) \/ ExitTable(p) \/ JoinDelete(p) \/ JoinAnswer(p) \/ DetachTable(p)
    BY <1>1, <1>5, <2>1, <2>4, AddAliasAliases, ExitAliases, JoinDeleteAliases, AnswerAliases,
       DetachAliases DEF DanglingInv
  <2> QED BY <1>3, <1>5, <2>1, <2>2, <2>3, <2>4 DEF Continue, Unnoticed
<1> QED BY <1>2, <1>4, <1>5 DEF Next

(* thread_exit, thread_join and thread_detach retract the aliases of every    *)
(* thread whose entry they take, unless it was detached too late for its own  *)
(* exit to see.                                                               *)
THEOREM NoAliasDangles ==
  ASSUME RoomLeft
  PROVE  Spec /\ []Undisturbed /\ [][NoLateDetach]_vars => []NoDanglingAlias
<1>1. Init => DanglingInv
  BY InitDangling
<1>2. DanglingInv /\ Undisturbed /\ Undisturbed' /\ [Next]_vars /\ [NoLateDetach]_vars
        => DanglingInv'
  BY NextDangling DEF Undisturbed
<1>3. DanglingInv => NoDanglingAlias
  BY DanglingInvImplies
<1> QED BY <1>1, <1>2, <1>3, PTL DEF Spec

-----------------------------------------------------------------------------
(* The balls.                                                                 *)
BallSet(b) == {b[i] : i \in DOMAIN b}
NoRepeat(b) == \A i, j \in DOMAIN b : b[i] = b[j] => i = j

LEMMA AppendedBall ==
  ASSUME NEW S, NEW s \in Seq(S), NEW x \in S
  PROVE  /\ BallSet(Append(s, x)) = BallSet(s) \cup {x}
         /\ NoRepeat(s) /\ x \notin BallSet(s) => NoRepeat(Append(s, x))
<1> DEFINE t == Append(s, x)  n == Len(s)
<1>1. /\ n \in Nat /\ DOMAIN s = 1 .. n /\ DOMAIN t = 1 .. n + 1
      /\ t[n + 1] = x /\ \A i \in 1 .. n : t[i] = s[i]
  OBVIOUS
<1> HIDE DEF t, n
<1>2. BallSet(t) = BallSet(s) \cup {x}
  <2>1. \A i \in 1 .. n + 1 : i = n + 1 \/ i \in 1 .. n
    BY <1>1
  <2>2. \A i \in 1 .. n : i \in 1 .. n + 1
    BY <1>1
  <2>3. n + 1 \in 1 .. n + 1
    BY <1>1
  <2> QED BY <1>1, <2>1, <2>2, <2>3 DEF BallSet
<1>3. ASSUME NoRepeat(s), x \notin BallSet(s) PROVE NoRepeat(t)
  <2> SUFFICES ASSUME NEW i \in 1 .. n + 1, NEW j \in 1 .. n + 1, t[i] = t[j] PROVE i = j
    BY <1>1 DEF NoRepeat
  <2>1. \A m \in 1 .. n : s[m] # x
    BY <1>1, <1>3 DEF BallSet
  <2>2. CASE i = n + 1
    <3>1. j \notin 1 .. n
      BY <1>1, <2>1, <2>2
    <3> QED BY <1>1, <2>2, <3>1
  <2>3. CASE j = n + 1
    <3>1. i \notin 1 .. n
      BY <1>1, <2>1, <2>3
    <3> QED BY <1>1, <2>3, <3>1
  <2>4. CASE i \in 1 .. n /\ j \in 1 .. n
    BY <1>1, <1>3, <2>4 DEF NoRepeat
  <2> QED BY <1>1, <2>2, <2>3, <2>4
<1> QED BY <1>2, <1>3 DEF t

LEMMA PushedBall ==
  ASSUME NEW S, NEW s \in Seq(S), NEW x \in S
  PROVE  /\ BallSet(<<x>> \o s) = BallSet(s) \cup {x}
         /\ NoRepeat(s) /\ x \notin BallSet(s) => NoRepeat(<<x>> \o s)
<1> DEFINE t == <<x>> \o s  n == Len(s)
<1>1. /\ n \in Nat /\ DOMAIN s = 1 .. n /\ DOMAIN t = 1 .. n + 1
      /\ t[1] = x /\ \A i \in 2 .. n + 1 : t[i] = s[i - 1]
  <2>1. <<x>> \in Seq(S) /\ Len(<<x>>) = 1 /\ <<x>>[1] = x
    OBVIOUS
  <2>2. n \in Nat /\ DOMAIN s = 1 .. n
    OBVIOUS
  <2>3. Len(t) = n + 1 /\ DOMAIN t = 1 .. Len(t)
    BY <2>1
  <2>4. t[1] = x
    BY <2>1, <2>2
  <2>5. ASSUME NEW i \in 2 .. n + 1 PROVE t[i] = s[i - 1]
    BY <2>1, <2>2
  <2> QED BY <2>2, <2>3, <2>4, <2>5
<1> HIDE DEF t, n
<1>2. BallSet(t) = BallSet(s) \cup {x}
  <2>1. \A i \in 1 .. n + 1 : i = 1 \/ (i \in 2 .. n + 1 /\ i - 1 \in 1 .. n)
    BY <1>1
  <2>2. \A i \in 1 .. n : i + 1 \in 2 .. n + 1 /\ i + 1 \in 1 .. n + 1 /\ (i + 1) - 1 = i
    BY <1>1
  <2>3. 1 \in 1 .. n + 1
    BY <1>1
  <2>4. \A i \in 1 .. n : t[i + 1] = s[i]
    BY <1>1, <2>2
  <2>5. BallSet(t) \subseteq BallSet(s) \cup {x}
    BY <1>1, <2>1 DEF BallSet
  <2>6. BallSet(s) \subseteq BallSet(t)
    <3> SUFFICES ASSUME NEW i \in 1 .. n PROVE s[i] \in BallSet(t)
      BY <1>1 DEF BallSet
    <3>1. i + 1 \in DOMAIN t /\ t[i + 1] = s[i]
      BY <1>1, <2>2, <2>4
    <3> QED BY <3>1 DEF BallSet
  <2>7. x \in BallSet(t)
    BY <1>1, <2>3 DEF BallSet
  <2> QED BY <2>5, <2>6, <2>7
<1>3. ASSUME NoRepeat(s), x \notin BallSet(s) PROVE NoRepeat(t)
  <2> SUFFICES ASSUME NEW i \in 1 .. n + 1, NEW j \in 1 .. n + 1, t[i] = t[j] PROVE i = j
    BY <1>1 DEF NoRepeat
  <2>1. \A m \in 1 .. n : s[m] # x
    BY <1>1, <1>3 DEF BallSet
  <2>5. \A m \in 2 .. n + 1 : t[m] # x
    <3>1. \A m \in 2 .. n + 1 : m - 1 \in 1 .. n
      BY <1>1
    <3> QED BY <1>1, <2>1, <3>1
  <2>2. CASE i = 1
    <3>1. j \notin 2 .. n + 1
      BY <1>1, <2>2, <2>5
    <3> QED BY <1>1, <2>2, <3>1
  <2>3. CASE j = 1
    <3>1. i \notin 2 .. n + 1
      BY <1>1, <2>3, <2>5
    <3> QED BY <1>1, <2>3, <3>1
  <2>4. CASE i \in 2 .. n + 1 /\ j \in 2 .. n + 1
    <3>1. i - 1 \in 1 .. n /\ j - 1 \in 1 .. n /\ s[i - 1] = s[j - 1]
      BY <1>1, <2>4
    <3>2. i - 1 = j - 1
      BY <1>1, <1>3, <3>1 DEF NoRepeat
    <3> QED BY <2>4, <3>2
  <2> QED BY <1>1, <2>2, <2>3, <2>4
<1> QED BY <1>2, <1>3 DEF t

LEMMA RetractedBalls ==
  ASSUME NEW S, balls \in Seq(S), NoRepeat(balls), NEW h
  PROVE  BallSet(RetractBalls(h)) = BallSet(balls) \ {h} /\ NoRepeat(RetractBalls(h))
<1>1. PICK k : IsKept(balls, h, Len(balls), k) /\ RetractBalls(h) = k[Len(balls)]
  BY Retracted
<1>2. PICK b, n : b = balls /\ n = Len(balls)
  OBVIOUS
<1>3. /\ n \in Nat /\ b \in Seq(S) /\ DOMAIN b = 1 .. n /\ NoRepeat(b) /\ IsKept(b, h, n, k)
      /\ \A i \in 1 .. n : b[i] \in S
  BY <1>1, <1>2
<1> DEFINE first(m) == {b[i] : i \in 1 .. m}
           T == {m \in 0 .. n : /\ k[m] \in Seq(S)
                                /\ BallSet(k[m]) = first(m) \ {h} /\ NoRepeat(k[m])}
<1>4. 0 \in T
  <2>1. k[0] = <<>>
    BY <1>3, KeptSteps
  <2>2. first(0) = {} /\ 0 \in 0 .. n
    BY <1>3
  <2>3. <<>> \in Seq(S) /\ BallSet(<<>>) = {} /\ NoRepeat(<<>>)
    BY DEF BallSet, NoRepeat
  <2> QED BY <2>1, <2>2, <2>3
<1>5. \A m \in 0 .. n - 1 : m \in T => m + 1 \in T
  <2> TAKE m \in 0 .. n - 1
  <2> HAVE m \in T
  <2>1. m + 1 \in 1 .. n /\ b[m + 1] \in S /\ (m + 1) - 1 = m /\ m + 1 \in 0 .. n
    BY <1>3
  <2>2. PICK x : x = b[m + 1]
    OBVIOUS
  <2>3. k[m + 1] = IF x = h THEN k[m] ELSE Append(k[m], x)
    BY <1>3, <2>1, <2>2, KeptSteps DEF KeptAt
  <2>4. first(m + 1) = first(m) \cup {x}
    <3>1. \A i \in 1 .. m + 1 : i = m + 1 \/ i \in 1 .. m
      BY <1>3
    <3>2. \A i \in 1 .. m : i \in 1 .. m + 1
      BY <1>3
    <3>3. m + 1 \in 1 .. m + 1
      BY <1>3
    <3> QED BY <2>2, <3>1, <3>2, <3>3
  <2>5. x \notin first(m)
    <3> SUFFICES ASSUME NEW i \in 1 .. m, x = b[i] PROVE FALSE
      OBVIOUS
    <3>1. i \in 1 .. n /\ i # m + 1
      BY <1>3
    <3> QED BY <1>3, <2>1, <2>2, <3>1 DEF NoRepeat
  <2> HIDE DEF first
  <2>6. k[m] \in Seq(S) /\ BallSet(k[m]) = first(m) \ {h} /\ NoRepeat(k[m])
    OBVIOUS
  <2>7. k[m + 1] \in Seq(S) /\ BallSet(k[m + 1]) = first(m + 1) \ {h} /\ NoRepeat(k[m + 1])
    <3>1. CASE x = h
      BY <2>3, <2>4, <2>6, <3>1
    <3>2. CASE x # h
      <4>1. /\ BallSet(Append(k[m], x)) = BallSet(k[m]) \cup {x}
            /\ NoRepeat(k[m]) /\ x \notin BallSet(k[m]) => NoRepeat(Append(k[m], x))
        BY <2>1, <2>2, <2>6, AppendedBall
      <4>2. Append(k[m], x) \in Seq(S)
        BY <2>1, <2>2, <2>6
      <4> QED BY <2>3, <2>4, <2>5, <2>6, <3>2, <4>1, <4>2
    <3> QED BY <3>1, <3>2
  <2> QED BY <2>1, <2>7
<1> HIDE DEF T
<1>6. n \in T
  BY <1>3, <1>4, <1>5, SetInduction
<1>7. first(n) = BallSet(b)
  BY <1>3 DEF BallSet
<1> QED BY <1>1, <1>2, <1>6, <1>7 DEF T

(* Every entry in use is of a thread, or of one in creation.                  *)
LiveOwned ==
  \A i \in Live(tab) : \/ \E q \in PThreads : Holds(q) /\ self[q].slot = i
                       \/ \E p \in PThreads : Starting(p) /\ req[p].h.slot = i

(* No two threads had the same id.                                            *)
Unique ==
  \A p, q \in PThreads : p # q /\ "unborn" \notin {pc[p], pc[q]} => self[p] # self[q]

(* What a join and an entry know of the ball of a thread.                     *)
Answered(q) == \E p \in PThreads : pc[p] = "answer" /\ req[p].tid = q
AnswerAt(p) ==
  LET q == req[p].tid
  IN  /\ q \in PThreads /\ pc[q] = "gone" /\ ~ Holds(q) /\ self[q] = req[p].h
      /\ \A s \in PThreads : s # p /\ pc[s] = "answer" => req[s].tid # q
AnswerInv == \A p \in PThreads : pc[p] = "answer" => AnswerAt(p)
TermInv ==
  /\ \A p \in PThreads : pc[p] \in {"joined", "answer"} => req[p].ball = req[req[p].tid].ball
  /\ \A q \in PThreads : Holds(q) /\ ~ Alive(q) => tab.ball[self[q].slot] = req[q].ball

(* The ball of q is kept: its entry is in use, or a join is about to answer   *)
(* with it.                                                                   *)
Keeps(q) ==
  /\ pc[q] \in Leaving /\ req[q].ball
  /\ \/ Holds(q) /\ (pc[q] = "exit" => ~ tab.detached[self[q].slot])
     \/ Answered(q)
BallInv == BallSet(balls) = {self[q] : q \in {s \in PThreads : Keeps(s)}} /\ NoRepeat(balls)

BallParts == LiveOwned /\ Unique /\ AnswerInv /\ TermInv /\ BallInv
KeptInv == LifeInv /\ BallParts

LEMMA KeptInvImplies == KeptInv => ExitBallsKept
<1> SUFFICES ASSUME KeptInv, Quiet PROVE ExitBallsKept
  BY DEF ExitBallsKept
<1>1. TableInv /\ BallParts /\ \A q \in PThreads : pc[q] \in {"unborn", "idle", "gone"}
  BY DEF KeptInv, LifeInv, Quiet
<1>2. ASSUME NEW q \in PThreads, Keeps(q)
      PROVE  \E i \in Live(tab) : /\ tab.exited[i] /\ tab.ball[i] /\ IdOf(tab, i) = self[q]
  <2>1. pc[q] = "gone" /\ Holds(q) /\ req[q].ball /\ ~ Alive(q)
    BY <1>1, <1>2 DEF Keeps, Answered, Leaving, Alive
  <2>2. HolderAt(q) /\ self[q] \in Ids
    BY <1>1, <2>1, HolderLife DEF TableInv, HolderInv
  <2>3. tab.ball[self[q].slot]
    BY <1>1, <2>1 DEF BallParts, TermInv
  <2>4. IdOf(tab, self[q].slot) = self[q]
    BY <2>2 DEF IdOf, HolderAt, Ids
  <2> QED BY <2>1, <2>2, <2>3, <2>4 DEF HolderAt
<1>3. ASSUME NEW i \in Live(tab), tab.exited[i], tab.ball[i]
      PROVE  \E q \in PThreads : Keeps(q) /\ self[q] = IdOf(tab, i)
  <2>1. \A p \in PThreads : ~ Starting(p)
    BY <1>1 DEF Starting, Creating
  <2>2. PICK q \in PThreads : Holds(q) /\ self[q].slot = i
    BY <1>1, <2>1 DEF BallParts, LiveOwned
  <2>3. HolderAt(q) /\ self[q] \in Ids
    BY <1>1, <2>2, HolderLife DEF TableInv, HolderInv
  <2>4. ~ Alive(q) /\ pc[q] = "gone"
    BY <1>1, <1>3, <2>2, <2>3 DEF HolderAt, Alive, Holds
  <2>5. req[q].ball
    BY <1>1, <1>3, <2>2, <2>4 DEF BallParts, TermInv
  <2>6. self[q] = IdOf(tab, i)
    BY <2>2, <2>3 DEF IdOf, HolderAt, Ids
  <2> QED BY <2>2, <2>4, <2>5, <2>6 DEF Keeps, Leaving
<1>4. BallSet(balls) = {IdOf(tab, i) : i \in {j \in Live(tab) : tab.exited[j] /\ tab.ball[j]}}
  BY <1>1, <1>2, <1>3 DEF BallParts, BallInv
<1> QED BY <1>1, <1>4 DEF ExitBallsKept, Live, BallSet, NoRepeat, BallParts, BallInv

-----------------------------------------------------------------------------
(* The steps that concern neither who has an entry nor a ball.                *)
SameThread(q) ==
  /\ pc'[q] = "unborn" <=> pc[q] = "unborn"
  /\ Holds(q)' <=> Holds(q)
  /\ Alive(q)' <=> Alive(q)
  /\ pc'[q] \in Leaving <=> pc[q] \in Leaving
  /\ pc'[q] = "exit" <=> pc[q] = "exit"
  /\ pc[q] = "gone" => pc'[q] = "gone"
  /\ pc[q] \in Leaving => req'[q] = req[q]
  /\ pc'[q] = "answer" <=> pc[q] = "answer"
  /\ pc[q] = "answer" => req'[q] = req[q]
  /\ Starting(q)' <=> Starting(q)
  /\ Starting(q) => req'[q].h = req[q].h
  /\ pc'[q] = "joined" => \/ pc[q] = "joined" /\ req'[q] = req[q]
                          \/ LET t == req'[q].tid
                             IN  t \in PThreads /\ pc[t] = "gone" /\ req'[q].ball = req[t].ball
Aside ==
  /\ self' = self /\ balls' = balls /\ SameEntries /\ tab'.ball = tab.ball
  /\ \A q \in PThreads : SameThread(q)

LEMMA AsideStep == ASSUME KeptInv, Aside PROVE BallParts'
<1>0. TableInv /\ BallParts /\ self' = self /\ balls' = balls /\ \A q \in PThreads : SameThread(q)
  BY DEF KeptInv, LifeInv, Aside
<1>1. \A q \in PThreads : Answered(q)' <=> Answered(q)
  BY <1>0 DEF Answered, SameThread
<1>2. LiveOwned'
  BY <1>0 DEF BallParts, LiveOwned, SameThread, Aside, SameEntries
<1>3. Unique'
  BY <1>0 DEF BallParts, Unique, SameThread
<1>4. AnswerInv'
  BY <1>0 DEF BallParts, AnswerInv, AnswerAt, SameThread
<1>5. TermInv'
  <2>1. ASSUME NEW p \in PThreads, pc'[p] \in {"joined", "answer"}
        PROVE  req'[p].ball = req'[req'[p].tid].ball
    <3>1. CASE pc[p] \in {"joined", "answer"} /\ req'[p] = req[p]
      <4>1. req[p].tid \in PThreads /\ pc[req[p].tid] = "gone"
        BY <1>0, <3>1 DEF TableInv, AskInv, AskerAt, Asking, BallParts, AnswerInv, AnswerAt
      <4> QED BY <1>0, <3>1, <4>1 DEF SameThread, Leaving, BallParts, TermInv
    <3>2. CASE LET t == req'[p].tid
               IN  t \in PThreads /\ pc[t] = "gone" /\ req'[p].ball = req[t].ball
      BY <1>0, <3>2 DEF SameThread, Leaving
    <3> QED BY <1>0, <2>1, <3>1, <3>2 DEF SameThread
  <2>2. ASSUME NEW q \in PThreads, Holds(q)', ~ Alive(q)'
        PROVE  tab'.ball[self'[q].slot] = req'[q].ball
    <3>1. Holds(q) /\ ~ Alive(q) /\ pc[q] \in Leaving
      BY <1>0, <2>2 DEF SameThread, Holds, Alive, Leaving
    <3> QED BY <1>0, <3>1 DEF SameThread, BallParts, TermInv, Aside
  <2> QED BY <2>1, <2>2 DEF TermInv
<1>6. BallInv'
  <2>1. \A q \in PThreads : Keeps(q)' <=> Keeps(q)
    BY <1>0, <1>1 DEF Keeps, SameThread, Aside, SameEntries
  <2> QED BY <1>0, <2>1 DEF BallParts, BallInv
<1> QED BY <1>2, <1>3, <1>4, <1>5, <1>6 DEF BallParts

(* The threads that wait for p, and those that take it, stay the same.        *)
SameAsked ==
  \A q \in PThreads : (Awaited(q)' \/ Pending(q)') <=> (Awaited(q) \/ Pending(q))

LEMMA AsideThreads ==
  ASSUME NEW p \in PThreads, GoesOn(p), SameAsked,
         {pc[p], pc'[p]} \cap {"answer", "exit"} = {},
         pc'[p] \in Leaving <=> pc[p] \in Leaving,
         pc'[p] \in {"uncount", "uncount2", "gone"} <=> pc[p] \in {"uncount", "uncount2", "gone"},
         pc[p] # "gone", pc[p] \in Leaving => req' = req,
         pc'[p] = "joined" => LET t == req'[p].tid
                              IN  t \in PThreads /\ pc[t] = "gone" /\ req'[p].ball = req[t].ball
  PROVE  \A q \in PThreads : SameThread(q)
<1> SUFFICES ASSUME NEW q \in PThreads PROVE SameThread(q)
  OBVIOUS
<1>1. CASE q = p
  <2>1. Alive(q)' <=> Alive(q)
    BY <1>1 DEF Alive, GoesOn
  <2>2. Holds(q)' <=> Holds(q)
    BY <1>1, <2>1 DEF Holds, SameAsked, GoesOn
  <2> QED BY <1>1, <2>1, <2>2 DEF SameThread, GoesOn
<1>2. CASE q # p
  <2>1. pc'[q] = pc[q] /\ req'[q] = req[q]
    BY <1>2 DEF GoesOn, OnlyReq
  <2>2. Alive(q)' <=> Alive(q)
    BY <2>1 DEF Alive
  <2>3. Holds(q)' <=> Holds(q)
    BY <2>1, <2>2 DEF Holds, SameAsked
  <2> QED BY <2>1, <2>2, <2>3 DEF SameThread, Starting
<1> QED BY <1>1, <1>2

LEMMA SameAskedAlone ==
  ASSUME NEW p \in PThreads, OnlyReq(p), joinid' = joinid,
         {pc[p], pc'[p]} \cap {"joined", "detached"} = {}
  PROVE  SameAsked
<1>1. \A q \in PThreads : Pending(q)' <=> Pending(q)
  BY DEF Pending, OnlyReq
<1> QED BY <1>1 DEF SameAsked, Awaited

LEMMA SameAskedTaken ==
  ASSUME NEW p \in PThreads, NEW q \in PThreads, OnlyReq(p), Awaited(q),
         pc[p] \notin {"joined", "detached"},
         \A s \in PThreads : s # q => joinid'[s] = joinid[s],
         \/ pc'[p] \notin {"joined", "detached"} /\ Awaited(q)'
         \/ pc'[p] \in {"joined", "detached"} /\ req'[p].tid = q
  PROVE  SameAsked
<1>1. \A s \in PThreads : s # q => (Pending(s)' <=> Pending(s))
  BY DEF Pending, OnlyReq
<1>2. Awaited(q)' \/ Pending(q)'
  BY DEF Pending
<1> QED BY <1>1, <1>2 DEF SameAsked, Awaited

Unheard(p) == Unnoticed(p) \/ (AddAlias(p) /\ pc'[p] # "clash")

LEMMA UnheardIsAside ==
  ASSUME LifeInv, NoJoinRace, NEW p \in PThreads, Unheard(p)
  PROVE  Aside
<1>0. GoesOn(p) /\ TableInv /\ OnlyReq(p) /\ pc \in [PThreads -> Labels]
  BY UnseenGoesOn DEF Unheard, Unnoticed, Unseen, LifeInv, GoesOn, TableInv, TypeInv
<1>1. SameEntries
  BY <1>0, UnseenEntries DEF Unheard, Unnoticed, Unseen
<1>2. self' = self /\ balls' = balls
  BY DEF Unheard, Unnoticed, EndSetup, AddAlias, Mark, RunThread, Uncount, PthreadExit,
         JoinGet, DetachGet, JoinRefused, JoinWaits, JoinReturns, PthreadDetach, Elsewhere
<1>3. tab'.ball = tab.ball
  <2>1. CASE tab' = tab
    BY <2>1
  <2>2. CASE Mark(p) \/ RunThread(p)
    BY <1>0, <2>2 DEF Mark, RunThread, TableInv, TypeInv, TabType
  <2> QED BY <2>1, <2>2 DEF Unheard, Unnoticed, EndSetup, AddAlias, Uncount, PthreadExit,
              JoinGet, DetachGet, JoinRefused, JoinWaits, JoinReturns, PthreadDetach
<1>4. CASE \/ EndSetup(p) \/ (AddAlias(p) /\ pc'[p] # "clash") \/ (Mark(p) /\ pc[p] # "markfailed")
           \/ RunThread(p) \/ (\E h \in born : JoinGet(p, h) \/ DetachGet(p, h))
           \/ JoinRefused(p)
  <2>1. PICK l \in {"spawn", "alias", "idle", "join", "detach"} : pc'[p] = l
    <3>1. PICK l \in {"spawn", "alias", "idle", "join", "detach"} : Goto(p, l)
      <4>1. CASE AddAlias(p) /\ pc'[p] # "clash"
        BY <1>0, <4>1 DEF AddAlias, Goto
      <4> QED BY <1>4, <4>1 DEF EndSetup, Mark, RunThread, JoinGet, DetachGet, JoinRefused,
                  NoJoinRace, Done
    <3> QED BY <1>0, <3>1 DEF Goto
  <2>2. /\ pc[p] \in {"counting", "alias", "mark", "born", "idle", "join"} /\ joinid' = joinid
    BY <1>4 DEF EndSetup, AddAlias, Mark, RunThread, JoinGet, DetachGet, JoinRefused, Elsewhere
  <2>3. SameAsked
    BY <1>0, <2>1, <2>2, SameAskedAlone
  <2>4. \A q \in PThreads : SameThread(q)
    BY <1>0, <2>1, <2>2, <2>3, AsideThreads DEF Leaving
  <2> QED BY <1>1, <1>2, <1>3, <2>4 DEF Aside
<1>5. CASE Uncount(p) \/ PthreadExit(p)
  <2>1. /\ pc[p] \in {"uncount", "uncount2"} /\ pc'[p] \in {"uncount2", "gone"}
        /\ joinid' = joinid /\ req' = req
    BY <1>0, <1>5 DEF Uncount, PthreadExit, Goto
  <2>2. SameAsked
    BY <1>0, <2>1, SameAskedAlone
  <2>3. \A q \in PThreads : SameThread(q)
    BY <1>0, <2>1, <2>2, AsideThreads DEF Leaving
  <2> QED BY <1>1, <1>2, <1>3, <2>3 DEF Aside
<1>6. CASE JoinWaits(p)
  <2>0. PICK q : q = req[p].tid
    OBVIOUS
  <2>1. /\ pc[p] = "join" /\ pc'[p] = "joining" /\ joinid[q] = Nobody
        /\ joinid' = [joinid EXCEPT ![q] = p] /\ req' = req
    BY <1>0, <1>6, <2>0 DEF JoinWaits, Joinable, Goto
  <2>2. q \in PThreads /\ p \notin {"detached", "joined"} /\ Nobody \notin {"detached", "joined"}
    BY <1>0, <2>0, <2>1, PThreadsAssumption DEF TableInv, AskInv, AskerAt, Asking
  <2>3. joinid'[q] = p /\ \A s \in PThreads : s # q => joinid'[s] = joinid[s]
    BY <1>0, <2>1, <2>2 DEF TableInv, TypeInv, RestTyped
  <2>4. Awaited(q) /\ Awaited(q)'
    BY <2>1, <2>2, <2>3 DEF Awaited
  <2>5. SameAsked
    BY <1>0, <2>1, <2>2, <2>3, <2>4, SameAskedTaken
  <2>6. \A s \in PThreads : SameThread(s)
    BY <1>0, <2>1, <2>5, AsideThreads DEF Leaving
  <2> QED BY <1>1, <1>2, <1>3, <2>6 DEF Aside
<1>7. CASE JoinReturns(p)
  <2>0. PICK q, r : /\ q = req[p].tid
                    /\ r = [req[p] EXCEPT !.aliased = tab.aliased[req[p].h.slot],
                                          !.ball = req[q].ball]
    OBVIOUS
  <2>1. /\ pc[p] = "joining" /\ pc'[p] = "joined" /\ pc[q] = "gone"
        /\ joinid' = [joinid EXCEPT ![q] = "joined"] /\ req'[p] = r
    BY <1>0, <1>7, <2>0 DEF JoinReturns, Goto, Ask, TableInv, TypeInv
  <2>2. q \in PThreads /\ joinid[q] = p /\ p \notin {"detached", "joined"}
    BY <1>0, <2>0, <2>1, PThreadsAssumption DEF TableInv, AskInv, AskerAt, Asking
  <2>3. \A s \in PThreads : s # q => joinid'[s] = joinid[s]
    BY <1>0, <2>1, <2>2 DEF TableInv, TypeInv, RestTyped
  <2>4. r.tid = q /\ r.ball = req[q].ball
    BY <1>0, <2>0 DEF TableInv, TypeInv, ReqType
  <2>5. SameAsked
    BY <1>0, <2>1, <2>2, <2>3, <2>4, SameAskedTaken DEF Awaited
  <2>6. \A s \in PThreads : SameThread(s)
    BY <1>0, <2>1, <2>2, <2>4, <2>5, AsideThreads DEF Leaving
  <2> QED BY <1>1, <1>2, <1>3, <2>6 DEF Aside
<1>8. CASE PthreadDetach(p)
  <2>0. PICK q : q = req[p].tid
    OBVIOUS
  <2>1. pc[p] = "detach" /\ q \in PThreads /\ joinid[q] \in {Nobody, "detached", "joined"}
    BY <1>0, <1>8, <2>0 DEF PthreadDetach, NoJoinRace, TableInv, TypeInv, RestTyped, AskInv,
       AskerAt, Asking
  <2>2. CASE joinid[q] = Nobody
    <3>1. /\ pc'[p] = "detached" /\ joinid' = [joinid EXCEPT ![q] = "detached"] /\ req' = req
          /\ Nobody \notin {"detached", "joined"}
      BY <1>0, <1>8, <2>0, <2>2, PThreadsAssumption DEF PthreadDetach, Goto
    <3>2. \A s \in PThreads : s # q => joinid'[s] = joinid[s]
      BY <1>0, <2>1, <3>1 DEF TableInv, TypeInv, RestTyped
    <3>3. SameAsked
      BY <1>0, <2>0, <2>1, <2>2, <3>1, <3>2, SameAskedTaken DEF Awaited
    <3>4. \A s \in PThreads : SameThread(s)
      BY <1>0, <2>1, <3>1, <3>3, AsideThreads DEF Leaving
    <3> QED BY <1>1, <1>2, <1>3, <3>4 DEF Aside
  <2>3. CASE joinid[q] \in {"detached", "joined"}
    <3>1. pc'[p] = "idle" /\ joinid' = joinid
      BY <1>0, <1>8, <2>0, <2>3, PThreadsAssumption DEF PthreadDetach, Done, Goto
    <3>2. SameAsked
      BY <1>0, <2>1, <3>1, SameAskedAlone
    <3>3. \A s \in PThreads : SameThread(s)
      BY <1>0, <2>1, <3>1, <3>2, AsideThreads DEF Leaving
    <3> QED BY <1>1, <1>2, <1>3, <3>3 DEF Aside
  <2> QED BY <2>1, <2>2, <2>3
<1> QED BY <1>4, <1>5, <1>6, <1>7, <1>8 DEF Unheard, Unnoticed

-----------------------------------------------------------------------------
(* The steps that concern the ball of one thread x at most.                   *)
SameLeaver(q) ==
  /\ pc[q] = "unborn" => pc'[q] \notin Leaving
  /\ pc[q] # "unborn" =>
       /\ self'[q] = self[q]
       /\ Holds(q)' <=> Holds(q)
       /\ Alive(q)' <=> Alive(q)
       /\ pc'[q] \in Leaving <=> pc[q] \in Leaving
       /\ pc'[q] = "exit" <=> pc[q] = "exit"
       /\ pc[q] \in Leaving => req'[q] = req[q]
       /\ Holds(q) => LET i == self[q].slot
                      IN  tab'.ball[i] = tab.ball[i] /\ tab'.detached[i] = tab.detached[i]
LeaversBut(x) ==
  /\ \A q \in PThreads : q # x => SameLeaver(q)
  /\ \A t \in PThreads : pc[t] = "gone" => /\ pc'[t] = "gone" /\ req'[t] = req[t]
                                           /\ self'[t] = self[t]
                                           /\ Holds(t)' => Holds(t)
AnswersBut(x) ==
  \A s \in PThreads :
    /\ pc'[s] \in {"joined", "answer"} => pc[s] \in {"joined", "answer"} /\ req'[s] = req[s]
    /\ pc[s] = "joined" /\ pc'[s] = "answer" => ~ Holds(req[s].tid)'
    /\ req[s].tid = x \/ (pc'[s] = "answer" <=> pc[s] = "answer")

LEMMA AskedOfGone ==
  ASSUME KeptInv, NEW s \in PThreads, pc[s] \in {"joined", "answer"}, NEW t, t = req[s].tid
  PROVE  /\ t \in PThreads /\ pc[t] = "gone" /\ self[t] = req[s].h
         /\ Holds(t) <=> pc[s] = "joined"
<1>1. CASE pc[s] = "joined"
  BY <1>1 DEF KeptInv, LifeInv, TableInv, AskInv, AskerAt, Asking, Holds, Pending
<1>2. CASE pc[s] = "answer"
  BY <1>2 DEF KeptInv, BallParts, AnswerInv, AnswerAt
<1> QED BY <1>1, <1>2

LEMMA OneAnswer ==
  ASSUME KeptInv, NEW x, AnswersBut(x), LeaversBut(x)
  PROVE  /\ AnswerInv'
         /\ \A p \in PThreads : pc'[p] \in {"joined", "answer"} =>
                                  req'[p].ball = req'[req'[p].tid].ball
         /\ \A q \in PThreads : q # x => (Answered(q)' <=> Answered(q))
<1>1. ASSUME NEW s \in PThreads, pc'[s] \in {"joined", "answer"}, NEW t, t = req[s].tid
      PROVE  /\ pc[s] \in {"joined", "answer"} /\ req'[s] = req[s]
             /\ t \in PThreads /\ pc[t] = "gone" /\ pc'[t] = "gone" /\ self'[t] = req[s].h
             /\ req'[t] = req[t]
  <2>1. pc[s] \in {"joined", "answer"} /\ req'[s] = req[s]
    BY <1>1 DEF AnswersBut
  <2>2. t \in PThreads /\ pc[t] = "gone" /\ self[t] = req[s].h
    BY <1>1, <2>1, AskedOfGone
  <2> QED BY <2>1, <2>2 DEF LeaversBut
<1>2. ASSUME NEW s \in PThreads, pc'[s] = "answer" PROVE AnswerAt(s)'
  <2>0. PICK t : t = req[s].tid
    OBVIOUS
  <2>1. /\ pc[s] \in {"joined", "answer"} /\ req'[s] = req[s]
        /\ t \in PThreads /\ pc[t] = "gone" /\ pc'[t] = "gone" /\ self'[t] = req[s].h
    BY <1>1, <1>2, <2>0
  <2>2. ~ Holds(t)'
    <3>1. CASE pc[s] = "joined"
      BY <1>2, <2>0, <3>1 DEF AnswersBut
    <3>2. CASE pc[s] = "answer"
      BY <2>0, <2>1, <3>2, AskedOfGone DEF LeaversBut
    <3> QED BY <2>1, <3>1, <3>2
  <2>3. ASSUME NEW r \in PThreads, r # s, pc'[r] = "answer", req'[r].tid = t PROVE FALSE
    <3>1. pc[r] \in {"joined", "answer"} /\ req[r].tid = t
      BY <1>1, <2>3
    <3>2. pc[r] = pc[s]
      BY <2>0, <2>1, <3>1, AskedOfGone
    <3>3. CASE pc[s] = "joined"
      BY <2>0, <2>3, <3>1, <3>2, <3>3 DEF KeptInv, LifeInv, TableInv, AskInv
    <3>4. CASE pc[s] = "answer"
      BY <2>0, <2>3, <3>1, <3>2, <3>4 DEF KeptInv, BallParts, AnswerInv, AnswerAt
    <3> QED BY <2>1, <3>3, <3>4
  <2>4. /\ pc'[t] = "gone" /\ ~ Holds(t)' /\ self'[t] = req'[s].h /\ t = req'[s].tid
        /\ t \in PThreads
    BY <2>0, <2>1, <2>2
  <2>5. \A r \in PThreads : r # s /\ pc'[r] = "answer" => req'[r].tid # t
    BY <2>3
  <2> QED BY <2>4, <2>5 DEF AnswerAt
<1>3. ASSUME NEW s \in PThreads, pc'[s] \in {"joined", "answer"}
      PROVE  req'[s].ball = req'[req'[s].tid].ball
  <2>1. PICK t : t = req[s].tid
    OBVIOUS
  <2>2. /\ pc[s] \in {"joined", "answer"} /\ req'[s] = req[s] /\ req'[t] = req[t]
    BY <1>1, <1>3, <2>1
  <2> QED BY <2>1, <2>2 DEF KeptInv, BallParts, TermInv
<1>4. ASSUME NEW q \in PThreads, q # x PROVE Answered(q)' <=> Answered(q)
  <2>1. ASSUME NEW s \in PThreads
        PROVE  pc'[s] = "answer" /\ req'[s].tid = q <=> pc[s] = "answer" /\ req[s].tid = q
    BY <1>4, <2>1 DEF AnswersBut
  <2> QED BY <2>1 DEF Answered
<1> QED BY <1>2, <1>3, <1>4 DEF AnswerInv

Keepers == {self[q] : q \in {s \in PThreads : Keeps(s)}}

LEMMA OneKeeper ==
  ASSUME KeptInv, NEW x \in PThreads, pc[x] # "unborn", self'[x] = self[x],
         \A q \in PThreads : q # x => SameLeaver(q) /\ (Answered(q)' <=> Answered(q))
  PROVE  /\ (Keeps(x)' <=> Keeps(x)) => Keepers' = Keepers
         /\ ~ Keeps(x)' => Keepers' = Keepers \ {self[x]}
         /\ Keeps(x)' => Keepers' = Keepers \cup {self[x]}
         /\ ~ Keeps(x) => self[x] \notin Keepers
<1>1. ASSUME NEW q \in PThreads, q # x
      PROVE  (Keeps(q)' <=> Keeps(q)) /\ (Keeps(q) => self'[q] = self[q] /\ self[q] # self[x])
  <2>1. SameLeaver(q) /\ (Answered(q)' <=> Answered(q))
    BY <1>1
  <2>2. CASE pc[q] = "unborn"
    BY <2>1, <2>2 DEF SameLeaver, Keeps, Leaving
  <2>3. CASE pc[q] # "unborn"
    <3>1. self[q] # self[x]
      BY <1>1, <2>3 DEF KeptInv, BallParts, Unique
    <3> QED BY <2>1, <2>3, <3>1 DEF SameLeaver, Keeps
  <2> QED BY <2>2, <2>3
<1>2. Keepers' = {self'[q] : q \in {s \in PThreads : Keeps(s)'}}
  BY DEF Keepers
<1> QED BY <1>1, <1>2 DEF Keepers

LEMMA KeepersAre == BallInv <=> BallSet(balls) = Keepers /\ NoRepeat(balls)
BY DEF BallInv, Keepers

LEMMA BallsTyped == ASSUME KeptInv PROVE balls \in Seq(born)
BY DEF KeptInv, LifeInv, TableInv, TypeInv, RestTyped

LEMMA OneBall ==
  ASSUME KeptInv, NEW x \in PThreads, pc[x] # "unborn", self'[x] = self[x],
         \A q \in PThreads : q # x => SameLeaver(q) /\ (Answered(q)' <=> Answered(q)),
         \/ balls' = balls /\ (Keeps(x)' <=> Keeps(x))
         \/ balls' = <<self[x]>> \o balls /\ ~ Keeps(x) /\ Keeps(x)'
         \/ balls' = RetractBalls(self[x]) /\ ~ Keeps(x)'
  PROVE  BallInv'
<1>1. BallSet(balls) = Keepers /\ NoRepeat(balls) /\ balls \in Seq(born) /\ self[x] \in born
  BY KeepersAre, BallsTyped DEF KeptInv, BallParts, LifeInv, TableInv, TypeInv
<1>2. PICK h : h = self[x]
  OBVIOUS
<1>3. CASE balls' = balls /\ (Keeps(x)' <=> Keeps(x))
  <2>1. Keepers' = Keepers
    BY <1>3, OneKeeper
  <2> QED BY <1>1, <1>3, <2>1 DEF BallInv, Keepers
<1>4. CASE balls' = <<self[x]>> \o balls /\ ~ Keeps(x) /\ Keeps(x)'
  <2>1. Keepers' = Keepers \cup {h} /\ h \notin Keepers
    BY <1>2, <1>4, OneKeeper
  <2>2. PICK b : b = balls
    OBVIOUS
  <2>3. BallSet(<<h>> \o b) = BallSet(b) \cup {h} /\ NoRepeat(<<h>> \o b)
    BY <1>1, <1>2, <2>1, <2>2, PushedBall
  <2> QED BY <1>1, <1>2, <1>4, <2>1, <2>2, <2>3 DEF BallInv, Keepers
<1>5. CASE balls' = RetractBalls(self[x]) /\ ~ Keeps(x)'
  <2>1. Keepers' = Keepers \ {h}
    BY <1>2, <1>5, OneKeeper
  <2>2. BallSet(RetractBalls(h)) = BallSet(balls) \ {h} /\ NoRepeat(RetractBalls(h))
    BY <1>1, RetractedBalls
  <2>3. balls' = RetractBalls(h)
    BY <1>2, <1>5
  <2> QED BY <1>1, <2>1, <2>2, <2>3 DEF BallInv, Keepers
<1> QED BY <1>3, <1>4, <1>5

LEMMA LeaverStep ==
  ASSUME KeptInv, NEW x \in PThreads, pc[x] # "unborn", self'[x] = self[x],
         AnswersBut(x), LeaversBut(x), LiveOwned', Unique',
         Holds(x)' /\ ~ Alive(x)' => tab'.ball[self[x].slot] = req'[x].ball,
         \/ balls' = balls /\ (Keeps(x)' <=> Keeps(x))
         \/ balls' = <<self[x]>> \o balls /\ ~ Keeps(x) /\ Keeps(x)'
         \/ balls' = RetractBalls(self[x]) /\ ~ Keeps(x)'
  PROVE  BallParts'
<1>1. /\ AnswerInv'
      /\ \A p \in PThreads : pc'[p] \in {"joined", "answer"} =>
                               req'[p].ball = req'[req'[p].tid].ball
      /\ \A q \in PThreads : q # x => (Answered(q)' <=> Answered(q))
  BY OneAnswer
<1>2. \A q \in PThreads : q # x => SameLeaver(q)
  BY DEF LeaversBut
<1>3. BallInv'
  BY <1>1, <1>2, OneBall
<1>4. ASSUME NEW q \in PThreads, Holds(q)', ~ Alive(q)'
      PROVE  tab'.ball[self'[q].slot] = req'[q].ball
  <2>1. CASE q = x
    BY <1>4, <2>1
  <2>2. CASE q # x
    <3>1. SameLeaver(q)
      BY <1>2, <2>2
    <3>2. pc[q] # "unborn"
      BY <1>4, <3>1 DEF SameLeaver, Holds, Alive, Leaving
    <3>3. Holds(q) /\ ~ Alive(q) /\ pc[q] \in Leaving
      BY <1>4, <3>1, <3>2 DEF SameLeaver, Alive, Leaving
    <3> QED BY <3>1, <3>2, <3>3 DEF SameLeaver, KeptInv, BallParts, TermInv
  <2> QED BY <2>1, <2>2
<1>5. TermInv'
  BY <1>1, <1>4 DEF TermInv
<1> QED BY <1>1, <1>3, <1>5 DEF BallParts

LEMMA LeaverStays ==
  ASSUME NEW p \in PThreads, OnlyReq(p), self' = self, NEW q \in PThreads,
         \/ q # p
         \/ {pc[q], pc'[q]} \cap (Leaving \cup {"unborn"}) = {},
         (Awaited(q) \/ Pending(q))' <=> (Awaited(q) \/ Pending(q)),
         Holds(q) => LET i == self[q].slot
                     IN  tab'.ball[i] = tab.ball[i] /\ tab'.detached[i] = tab.detached[i]
  PROVE  SameLeaver(q) /\ (Holds(q)' <=> Holds(q))
<1>1. CASE q # p
  <2>1. pc'[q] = pc[q] /\ req'[q] = req[q]
    BY <1>1 DEF OnlyReq
  <2>2. (Alive(q)' <=> Alive(q)) /\ (Holds(q)' <=> Holds(q))
    BY <2>1 DEF Alive, Holds
  <2> QED BY <2>1, <2>2 DEF SameLeaver, Leaving
<1>2. CASE {pc[q], pc'[q]} \cap (Leaving \cup {"unborn"}) = {}
  <2>1. Alive(q) /\ Alive(q)' /\ Holds(q) /\ Holds(q)'
    BY <1>2 DEF Alive, Holds, Leaving
  <2> QED BY <1>2, <2>1 DEF SameLeaver, Leaving
<1> QED BY <1>1, <1>2

LEMMA GoneStays ==
  ASSUME NEW p \in PThreads, OnlyReq(p), self' = self, pc[p] # "gone",
         \A t \in PThreads : Holds(t)' => Holds(t)
  PROVE  \A t \in PThreads : pc[t] = "gone" => /\ pc'[t] = "gone" /\ req'[t] = req[t]
                                               /\ self'[t] = self[t]
                                               /\ Holds(t)' => Holds(t)
BY DEF OnlyReq

LEMMA UniqueStays ==
  ASSUME Unique, self' = self, \A q \in PThreads : pc[q] = "unborn" => pc'[q] = "unborn"
  PROVE  Unique'
<1> SUFFICES ASSUME NEW p \in PThreads, NEW q \in PThreads, p # q,
                    pc'[p] # "unborn", pc'[q] # "unborn"
             PROVE  self'[p] # self'[q]
  BY DEF Unique
<1>1. pc[p] # "unborn" /\ pc[q] # "unborn"
  OBVIOUS
<1>2. self[p] # self[q]
  BY <1>1 DEF Unique
<1> QED BY <1>2

LEMMA SetupBalls ==
  ASSUME RoomLeft, KeptInv, NEW p \in PThreads, NEW d \in Modes,
         NEW a \in Aliases \cup {Nobody}, Setup(p, d, a)
  PROVE  BallParts'
<1>0. PICK pos : pos = tab.free
  OBVIOUS
<1>1. TableInv /\ BallParts
  BY DEF KeptInv, LifeInv
<1>2. /\ pos \in Slots /\ pos \notin Live(tab) /\ Live(tab') = Live(tab) \cup {pos}
      /\ IsFresh(tab, tab', pos, d) /\ IsNoted(tab, tab', pos, a # Nobody)
  BY <1>0, <1>1, SetupTable
<1>3. \A i \in Slots : i # pos => tab'.ball[i] = tab.ball[i] /\ tab'.detached[i] = tab.detached[i]
  BY <1>1, <1>2 DEF IsFresh, IsNoted, StatusKept, TableInv, TypeInv, TabType
<1>4. PICK r : /\ r = [NoReq EXCEPT !.kind = "create", !.h = IdOf(tab', pos), !.alias = a,
                                    !.detached = d]
               /\ Ask(p, r) /\ Goto(p, "counting")
  BY <1>0 DEF Setup
<1>5. r.h.slot = pos
  BY <1>4 DEF NoReq, IdOf
<1>6. OnlyReq(p) /\ pc'[p] = "counting" /\ req'[p] = r
  BY <1>1, <1>4, WalksAlone DEF Labels, Creating, Ask, TableInv, TypeInv
<1>7. self' = self /\ balls' = balls /\ joinid' = joinid /\ pc[p] = "idle"
  BY DEF Setup
<1>8. SameAsked
  BY <1>6, <1>7, SameAskedAlone
<1>9. \A q \in PThreads : SameLeaver(q) /\ (Holds(q)' <=> Holds(q))
  <2> SUFFICES ASSUME NEW q \in PThreads PROVE SameLeaver(q) /\ (Holds(q)' <=> Holds(q))
    OBVIOUS
  <2>1. Holds(q) => self[q].slot \in Live(tab) /\ self[q].slot \in Slots
    BY <1>1, HolderLife DEF InTable
  <2>2. q = p => {pc[q], pc'[q]} \cap (Leaving \cup {"unborn"}) = {}
    BY <1>6, <1>7 DEF Leaving
  <2> QED BY <1>2, <1>3, <1>6, <1>7, <1>8, <2>1, <2>2, LeaverStays DEF SameAsked
<1>10. LiveOwned'
  <2> SUFFICES ASSUME NEW i \in Live(tab')
               PROVE  \/ \E q \in PThreads : Holds(q)' /\ self'[q].slot = i
                      \/ \E s \in PThreads : Starting(s)' /\ req'[s].h.slot = i
    BY DEF LiveOwned
  <2>1. CASE i = pos
    BY <1>5, <1>6, <2>1 DEF Starting, Creating
  <2>2. CASE i \in Live(tab)
    <3>1. ASSUME NEW s \in PThreads, Starting(s) PROVE Starting(s)' /\ req'[s] = req[s]
      BY <1>6, <1>7, <3>1 DEF Starting, Creating, OnlyReq
    <3> QED BY <1>1, <1>7, <1>9, <2>2, <3>1 DEF BallParts, LiveOwned
  <2> QED BY <1>2, <2>1, <2>2
<1>11. Unique'
  BY <1>1, <1>6, <1>7, UniqueStays DEF BallParts, OnlyReq
<1>12. LeaversBut(p) /\ AnswersBut(p)
  <2>1. LeaversBut(p)
    BY <1>6, <1>7, <1>9, GoneStays DEF LeaversBut
  <2>2. AnswersBut(p)
    BY <1>6, <1>7 DEF AnswersBut, OnlyReq
  <2> QED BY <2>1, <2>2
<1>13. ~ Keeps(p) /\ ~ Keeps(p)' /\ Alive(p)'
  BY <1>6, <1>7 DEF Keeps, Leaving, Alive
<1> QED BY <1>7, <1>10, <1>11, <1>12, <1>13, LeaverStep

LEMMA SpawnBalls ==
  ASSUME KeptInv, NEW p \in PThreads, NEW c \in PThreads, Spawn(p, c)
  PROVE  BallParts'
<1>0. PICK h : h = req[p].h
  OBVIOUS
<1>1. /\ pc[p] = "spawn" /\ pc[c] = "unborn" /\ c # p /\ req' = req /\ balls' = balls
      /\ pc' = [pc EXCEPT ![p] = "mark", ![c] = "born"]
      /\ self' = [self EXCEPT ![c] = h]
      /\ joinid' = [joinid EXCEPT ![c] = IF req[p].detached THEN "detached" ELSE Nobody]
      /\ tab' = [tab EXCEPT !.tid[h.slot] = c, !.ctxt[h.slot] = c]
      /\ TableInv /\ BallParts
  BY <1>0 DEF Spawn, KeptInv, LifeInv
<1>2. /\ pc'[p] = "mark" /\ pc'[c] = "born" /\ self'[c] = h
      /\ \A q \in PThreads : q \notin {p, c} => pc'[q] = pc[q]
      /\ \A q \in PThreads : q # c => self'[q] = self[q] /\ joinid'[q] = joinid[q]
  BY <1>1 DEF TableInv, TypeInv, RestTyped
<1>3. /\ Live(tab') = Live(tab) /\ tab'.ball = tab.ball /\ tab'.detached = tab.detached
  <2>1. PICK t, x : tab' = [tab EXCEPT !.tid = t, !.ctxt = x]
    BY <1>1
  <2>2. /\ tab'.next = tab.next /\ tab'.first = tab.first /\ tab'.prev = tab.prev
        /\ tab'.free = tab.free /\ tab'.last = tab.last
        /\ tab'.ball = tab.ball /\ tab'.detached = tab.detached
    BY <1>1, <2>1 DEF TableInv, TypeInv, TabType
  <2>3. Lists(tab', Live(tab), Unused(tab))
    BY <1>1, <2>2 DEF TableInv, ListsInv, Lists
  <2> QED BY <2>2, <2>3, ListsAreReached
<1>4. \A q \in PThreads : Pending(q)' <=> Pending(q)
  BY <1>1, <1>2 DEF Pending
<1>5. \A q \in PThreads : q # c => SameLeaver(q) /\ (Holds(q)' <=> Holds(q))
  <2> SUFFICES ASSUME NEW q \in PThreads, q # c
               PROVE  SameLeaver(q) /\ (Holds(q)' <=> Holds(q))
    OBVIOUS
  <2>1. /\ pc'[q] \in Leaving <=> pc[q] \in Leaving
        /\ pc'[q] = "exit" <=> pc[q] = "exit"
        /\ pc'[q] = "unborn" <=> pc[q] = "unborn"
        /\ Alive(q)' <=> Alive(q)
    BY <1>1, <1>2 DEF Leaving, Alive
  <2>2. Holds(q)' <=> Holds(q)
    BY <1>2, <1>4, <2>1 DEF Holds, Awaited
  <2> QED BY <1>1, <1>2, <1>3, <2>1, <2>2 DEF SameLeaver, Leaving
<1>6. SameLeaver(c) /\ Holds(c)' /\ Alive(c)'
  BY <1>1, <1>2 DEF SameLeaver, Leaving, Holds, Alive
<1>7. LiveOwned'
  <2> SUFFICES ASSUME NEW i \in Live(tab)
               PROVE  \/ \E q \in PThreads : Holds(q)' /\ self'[q].slot = i
                      \/ \E s \in PThreads : Starting(s)' /\ req'[s].h.slot = i
    BY <1>3 DEF LiveOwned
  <2>1. CASE \E q \in PThreads : Holds(q) /\ self[q].slot = i
    <3>1. PICK q \in PThreads : Holds(q) /\ self[q].slot = i
      BY <2>1
    <3>2. q # c
      BY <1>1, <3>1 DEF Holds
    <3> QED BY <1>2, <1>5, <3>1, <3>2
  <2>2. CASE \E s \in PThreads : Starting(s) /\ req[s].h.slot = i
    <3>1. PICK s \in PThreads : Starting(s) /\ req[s].h.slot = i
      BY <2>2
    <3>2. CASE s = p
      BY <1>0, <1>2, <1>6, <3>1, <3>2
    <3>3. CASE s # p
      <4>1. s # c
        BY <1>1, <3>1 DEF Starting, Creating
      <4> QED BY <1>1, <1>2, <3>1, <3>3, <4>1 DEF Starting
    <3> QED BY <3>2, <3>3
  <2> QED BY <1>1, <2>1, <2>2 DEF BallParts, LiveOwned
<1>8. Unique'
  <2> SUFFICES ASSUME NEW q \in PThreads, NEW s \in PThreads, q # s,
                      pc'[q] # "unborn", pc'[s] # "unborn"
               PROVE  self'[q] # self'[s]
    BY DEF Unique
  <2>1. \A t \in PThreads : self[t] # h
    BY <1>0, <1>1 DEF KeptInv, LifeInv, FreshInv, Starting, Creating
  <2>2. CASE q # c /\ s # c
    <3>1. pc[q] # "unborn" /\ pc[s] # "unborn"
      BY <1>1, <1>2, <2>2
    <3> QED BY <1>1, <1>2, <2>2, <3>1 DEF BallParts, Unique
  <2>3. CASE q = c \/ s = c
    BY <1>2, <2>1, <2>3
  <2> QED BY <2>2, <2>3
<1>9. LeaversBut(p)
  <2>1. \A t \in PThreads : pc[t] = "gone" => t \notin {p, c}
    BY <1>1
  <2> QED BY <1>1, <1>2, <1>5, <1>6, <2>1 DEF LeaversBut
<1>10. AnswersBut(p)
  BY <1>1, <1>2 DEF AnswersBut
<1>11. ~ Keeps(p) /\ ~ Keeps(p)' /\ Alive(p)' /\ self'[p] = self[p]
  BY <1>1, <1>2 DEF Keeps, Leaving, Alive
<1> QED BY <1>1, <1>7, <1>8, <1>9, <1>10, <1>11, LeaverStep

LEMMA LeaveBalls ==
  ASSUME KeptInv, NEW p \in PThreads, NEW b \in BOOLEAN, LeaveProlog(p, b)
  PROVE  BallParts'
<1>0. TableInv /\ BallParts
  BY DEF KeptInv, LifeInv
<1>1. PICK r : /\ r = [NoReq EXCEPT !.kind = "exit", !.h = self[p], !.ball = b]
               /\ Ask(p, r) /\ Goto(p, "exit")
  BY DEF LeaveProlog
<1>2. /\ pc[p] = "idle" /\ self' = self /\ joinid' = joinid /\ tab' = tab /\ r.ball = b
      /\ balls' = IF b /\ ~ tab.detached[self[p].slot] THEN <<self[p]>> \o balls ELSE balls
  BY <1>1 DEF LeaveProlog, NoReq
<1>3. OnlyReq(p) /\ pc'[p] = "exit" /\ req'[p] = r
  BY <1>0, <1>1, WalksAlone DEF Labels, Leaving, Ask, TableInv, TypeInv
<1>4. SameAsked
  BY <1>2, <1>3, SameAskedAlone
<1>5. \A q \in PThreads : q # p => SameLeaver(q) /\ (Holds(q)' <=> Holds(q))
  BY <1>2, <1>3, <1>4, LeaverStays DEF SameAsked
<1>6. Holds(p) /\ Holds(p)' /\ Alive(p) /\ Alive(p)'
  BY <1>2, <1>3 DEF Holds, Alive
<1>7. LiveOwned'
  <2>1. \A s \in PThreads : Starting(s) => Starting(s)' /\ req'[s] = req[s]
    BY <1>2, <1>3 DEF Starting, Creating, OnlyReq
  <2> QED BY <1>0, <1>2, <1>5, <1>6, <2>1 DEF BallParts, LiveOwned
<1>8. Unique'
  BY <1>0, <1>2, <1>3, UniqueStays DEF BallParts, OnlyReq
<1>9. LeaversBut(p)
  BY <1>2, <1>3, <1>5, <1>6, GoneStays DEF LeaversBut
<1>10. AnswersBut(p)
  BY <1>2, <1>3 DEF AnswersBut, OnlyReq
<1>11. ~ Keeps(p) /\ (Keeps(p)' <=> b /\ ~ tab.detached[self[p].slot])
  <2>1. ~ Answered(p)'
    BY <1>0, <1>2, <1>3 DEF Answered, BallParts, AnswerInv, AnswerAt, OnlyReq
  <2> QED BY <1>2, <1>3, <1>6, <2>1 DEF Keeps, Leaving
<1> QED BY <1>2, <1>6, <1>7, <1>8, <1>9, <1>10, <1>11, LeaverStep

(* The entry of the thread x leaves the list of threads.                      *)
LEMMA EntryTaken ==
  ASSUME TableInv, LiveOwned, NEW x \in PThreads, Holds(x), self' = self, NEW h, h = self[x],
         NEW tb, tb \in {tab, [tab EXCEPT !.ctxt[h.slot] = Nobody]},
         tab' = ThDelete(tb, h.slot),
         \A q \in PThreads : q # x => (Holds(q) => Holds(q)'),
         \A s \in PThreads : Starting(s) => Starting(s)' /\ req'[s] = req[s]
  PROVE  LiveOwned' /\ tab'.ball = tab.ball /\ tab'.detached = tab.detached
<1>1. h.slot \in Slots /\ h.slot \in Live(tab)
  BY HolderLife DEF InTable
<1>2. PICK i \in Slots : i = h.slot
  BY <1>1
<1>3. /\ Live(tab') = Live(tab) \ {i} /\ tab'.ball = tab.ball /\ tab'.detached = tab.detached
  BY <1>1, <1>2, Deleted
<1>4. LiveOwned'
  BY <1>2, <1>3 DEF LiveOwned
<1> QED BY <1>3, <1>4

LEMMA ExitBalls ==
  ASSUME KeptInv, NEW p \in PThreads, ExitTable(p)
  PROVE  BallParts'
<1>0. TableInv /\ BallParts
  BY DEF KeptInv, LifeInv
<1>1. PICK h : h = self[p]
  OBVIOUS
<1>2. /\ pc[p] = "exit" /\ self' = self /\ req' = req /\ balls' = balls /\ joinid' = joinid
      /\ Goto(p, "uncount") /\ tab' = ExitEntry(tab, h.slot, req[p].ball)
  BY <1>1 DEF ExitTable, Elsewhere
<1>3. OnlyReq(p) /\ pc'[p] = "uncount"
  BY <1>0, <1>2, WalksAlone DEF Labels, Leaving
<1>4. Holds(p) /\ Alive(p) /\ HolderAt(p) /\ ~ Alive(p)'
  BY <1>0, <1>2, <1>3 DEF Holds, Alive, TableInv, HolderInv
<1>5. h.slot \in Slots /\ h.slot \in Live(tab)
  BY <1>0, <1>1, <1>4, HolderLife DEF InTable
<1>6. SameAsked
  BY <1>2, <1>3, SameAskedAlone
<1>7. Pending(p)' <=> Pending(p)
  BY <1>2, <1>3 DEF Pending, OnlyReq
<1>8. tab.detached[h.slot] <=> ~ Holds(p)'
  <2>1. joinid[p] # "joined"
    BY <1>0, <1>2 DEF TableInv, AskInv, AskedAt
  <2>2. tab.detached[h.slot] <=> Marked(p)
    BY <1>1, <1>4 DEF HolderAt
  <2> QED BY <1>2, <1>3, <1>4, <1>7, <2>1, <2>2 DEF Holds, Awaited, Marked
<1>9. \A q \in PThreads : q # p => (Holds(q)' <=> Holds(q))
  BY <1>2, <1>3, <1>6 DEF SameAsked, Holds, OnlyReq, Alive
<1>10. \A s \in PThreads : Starting(s) => Starting(s)' /\ req'[s] = req[s]
  BY <1>2, <1>3 DEF Starting, Creating, OnlyReq
<1>11. /\ LiveOwned' /\ tab'.detached = tab.detached
       /\ \A i \in Slots : i # h.slot => tab'.ball[i] = tab.ball[i]
       /\ ~ tab.detached[h.slot] => tab'.ball[h.slot] = req[p].ball
  <2>1. CASE tab.detached[h.slot]
    <3>1. PICK tb : tb = [tab EXCEPT !.ctxt[h.slot] = Nobody]
      OBVIOUS
    <3>2. tab' = ThDelete(tb, h.slot)
      BY <1>2, <2>1, <3>1 DEF ExitEntry
    <3>3. LiveOwned' /\ tab'.ball = tab.ball /\ tab'.detached = tab.detached
      BY <1>0, <1>1, <1>2, <1>4, <1>9, <1>10, <3>1, <3>2, EntryTaken DEF BallParts
    <3> QED BY <2>1, <3>3
  <2>2. CASE ~ tab.detached[h.slot]
    <3>1. PICK c, e, b : /\ b = [tab.ball EXCEPT ![h.slot] = req[p].ball]
                         /\ tab' = [tab EXCEPT !.ctxt = c, !.exited = e, !.ball = b]
      BY <1>0, <1>2, <2>2 DEF ExitEntry, TableInv, TypeInv, TabType
    <3>2. /\ tab'.next = tab.next /\ tab'.first = tab.first /\ tab'.prev = tab.prev
          /\ tab'.free = tab.free /\ tab'.last = tab.last
          /\ tab'.ball = b /\ tab'.detached = tab.detached
      BY <1>0, <3>1 DEF TableInv, TypeInv, TabType
    <3>3. Live(tab') = Live(tab)
      <4>1. Lists(tab', Live(tab), Unused(tab))
        BY <1>0, <3>2 DEF TableInv, ListsInv, Lists
      <4> QED BY <4>1, ListsAreReached
    <3>4. LiveOwned'
      BY <1>0, <1>2, <1>8, <1>9, <1>10, <2>2, <3>3 DEF BallParts, LiveOwned
    <3>5. /\ b[h.slot] = req[p].ball
          /\ \A i \in Slots : i # h.slot => b[i] = tab.ball[i]
      BY <1>0, <1>5, <3>1 DEF TableInv, TypeInv, TabType
    <3> QED BY <3>2, <3>4, <3>5
  <2> QED BY <2>1, <2>2
<1>12. \A q \in PThreads : q # p => SameLeaver(q)
  <2> SUFFICES ASSUME NEW q \in PThreads, q # p PROVE SameLeaver(q)
    OBVIOUS
  <2>1. Holds(q) => self[q].slot # h.slot /\ self[q].slot \in Slots
    BY <1>0, <1>1, <1>4, HolderLife DEF TableInv, OneHolder
  <2> QED BY <1>2, <1>3, <1>6, <1>11, <2>1, LeaverStays DEF SameAsked
<1>13. Unique'
  BY <1>0, <1>2, <1>3, UniqueStays DEF BallParts, OnlyReq
<1>14. LeaversBut(p)
  BY <1>2, <1>3, <1>4, <1>9, <1>12, GoneStays DEF LeaversBut
<1>15. AnswersBut(p)
  BY <1>2, <1>3 DEF AnswersBut, OnlyReq
<1>16. Keeps(p)' <=> Keeps(p)
  <2>1. ~ Answered(p) /\ ~ Answered(p)'
    BY <1>0, <1>2, <1>3 DEF Answered, BallParts, AnswerInv, AnswerAt, OnlyReq
  <2> QED BY <1>1, <1>2, <1>3, <1>4, <1>8, <2>1 DEF Keeps, Leaving
<1>17. Holds(p)' => tab'.ball[self[p].slot] = req'[p].ball
  BY <1>1, <1>2, <1>8, <1>11
<1> QED BY <1>2, <1>11, <1>13, <1>14, <1>15, <1>16, <1>17, LeaverStep

LEMMA JoinDeleteBalls ==
  ASSUME KeptInv, NEW p \in PThreads, JoinDelete(p)
  PROVE  BallParts'
<1>0. TableInv /\ BallParts
  BY DEF KeptInv, LifeInv
<1>1. PICK q, h : q = req[p].tid /\ h = req[p].h
  OBVIOUS
<1>2. /\ pc[p] = "joined" /\ self' = self /\ req' = req /\ balls' = balls /\ joinid' = joinid
      /\ Goto(p, "answer") /\ tab' = ThDelete(tab, h.slot)
  BY <1>1 DEF JoinDelete, Elsewhere
<1>3. OnlyReq(p) /\ pc'[p] = "answer"
  BY <1>0, <1>2, WalksAlone DEF Labels
<1>4. /\ q \in PThreads /\ pc[q] = "gone" /\ h = self[q] /\ Holds(q) /\ joinid[q] = "joined"
      /\ q # p
  BY <1>0, <1>1, <1>2 DEF TableInv, AskInv, AskerAt, Asking, Holds, Pending
<1>5. ~ Pending(q)' /\ \A s \in PThreads : s # q => (Pending(s)' <=> Pending(s))
  <2>1. \A s \in PThreads : s # p /\ pc[s] \in {"joined", "detached"} => req[s].tid # q
    BY <1>0, <1>1, <1>2 DEF TableInv, AskInv
  <2> QED BY <1>1, <1>2, <1>3, <2>1 DEF Pending, OnlyReq
<1>6. pc'[q] = "gone" /\ req'[q] = req[q] /\ ~ Holds(q)'
  BY <1>2, <1>3, <1>4, <1>5 DEF OnlyReq, Holds, Alive, Awaited
<1>7. \A s \in PThreads : Starting(s) => Starting(s)' /\ req'[s] = req[s]
  BY <1>2, <1>3 DEF Starting, Creating, OnlyReq
<1>8. \A s \in PThreads : s # q => (Awaited(s) \/ Pending(s))' <=> (Awaited(s) \/ Pending(s))
  BY <1>2, <1>5 DEF Awaited
<1>9. \A s \in PThreads : s # q => (Holds(s)' <=> Holds(s))
  BY <1>2, <1>3, <1>8 DEF Holds, Alive, OnlyReq
<1>10. LiveOwned' /\ tab'.ball = tab.ball /\ tab'.detached = tab.detached
  <2>1. PICK tb : tb = tab
    OBVIOUS
  <2> QED BY <1>0, <1>2, <1>4, <1>7, <1>9, <2>1, EntryTaken DEF BallParts
<1>11. \A s \in PThreads : s # q => SameLeaver(s)
  <2> SUFFICES ASSUME NEW s \in PThreads, s # q PROVE SameLeaver(s)
    OBVIOUS
  <2>1. s = p => {pc[s], pc'[s]} \cap (Leaving \cup {"unborn"}) = {}
    BY <1>2, <1>3 DEF Leaving
  <2>2. (Awaited(s) \/ Pending(s))' <=> (Awaited(s) \/ Pending(s))
    BY <1>8
  <2> QED BY <1>2, <1>3, <1>10, <2>1, <2>2, LeaverStays
<1>12. Unique'
  BY <1>0, <1>2, <1>3, UniqueStays DEF BallParts, OnlyReq
<1>13. LeaversBut(q)
  BY <1>2, <1>3, <1>6, <1>9, <1>11, GoneStays DEF LeaversBut
<1>14. AnswersBut(q)
  BY <1>1, <1>2, <1>3, <1>6 DEF AnswersBut, OnlyReq
<1>15. Keeps(q)' <=> Keeps(q)
  <2>1. Answered(q)'
    BY <1>1, <1>2, <1>3 DEF Answered
  <2> QED BY <1>4, <1>6, <2>1 DEF Keeps, Leaving
<1> QED BY <1>2, <1>4, <1>6, <1>10, <1>12, <1>13, <1>14, <1>15, LeaverStep

LEMMA JoinAnswerBalls ==
  ASSUME KeptInv, JoinReturnsOwnBall', NEW p \in PThreads, JoinAnswer(p)
  PROVE  BallParts'
<1>0. TableInv /\ BallParts
  BY DEF KeptInv, LifeInv
<1>1. PICK q, h : q = req[p].tid /\ h = req[p].h
  OBVIOUS
<1>2. /\ pc[p] = "answer" /\ self' = self /\ joinid' = joinid /\ tab' = tab /\ Done(p)
      /\ balls' = IF req[p].ball /\ balls # <<>> THEN RetractBalls(Head(balls)) ELSE balls
      /\ req[p].ball /\ balls # <<>> => <<h, Head(balls)>> \in returned'
  BY <1>1 DEF JoinAnswer
<1>3. OnlyReq(p) /\ pc'[p] = "idle"
  BY <1>0, <1>2, IdleAgain
<1>4. /\ q \in PThreads /\ pc[q] = "gone" /\ h = self[q] /\ ~ Holds(q)
      /\ req[p].ball = req[q].ball /\ q # p
      /\ \A s \in PThreads : s # p /\ pc[s] = "answer" => req[s].tid # q
  BY <1>0, <1>1, <1>2 DEF BallParts, AnswerInv, AnswerAt, TermInv
<1>5. SameAsked
  BY <1>2, <1>3, SameAskedAlone
<1>6. \A s \in PThreads : SameLeaver(s) /\ (Holds(s)' <=> Holds(s))
  <2> SUFFICES ASSUME NEW s \in PThreads PROVE SameLeaver(s) /\ (Holds(s)' <=> Holds(s))
    OBVIOUS
  <2>1. s = p => {pc[s], pc'[s]} \cap (Leaving \cup {"unborn"}) = {}
    BY <1>2, <1>3 DEF Leaving
  <2>2. (Awaited(s) \/ Pending(s))' <=> (Awaited(s) \/ Pending(s))
    BY <1>5 DEF SameAsked
  <2> QED BY <1>2, <1>3, <2>1, <2>2, LeaverStays
<1>7. LiveOwned'
  <2>1. \A s \in PThreads : Starting(s) => Starting(s)' /\ req'[s] = req[s]
    BY <1>2, <1>3 DEF Starting, Creating, OnlyReq
  <2> QED BY <1>0, <1>2, <1>6, <2>1 DEF BallParts, LiveOwned
<1>8. Unique'
  BY <1>0, <1>2, <1>3, UniqueStays DEF BallParts, OnlyReq
<1>9. LeaversBut(q)
  BY <1>2, <1>3, <1>6, GoneStays DEF LeaversBut
<1>10. AnswersBut(q)
  BY <1>1, <1>2, <1>3 DEF AnswersBut, OnlyReq
<1>11. ~ Keeps(q)' /\ (Keeps(q) <=> req[p].ball)
  <2>1. Answered(q) /\ ~ Answered(q)'
    BY <1>1, <1>2, <1>3, <1>4 DEF Answered, OnlyReq
  <2> QED BY <1>4, <1>6, <2>1 DEF Keeps, Leaving
<1>12. \/ balls' = balls /\ (Keeps(q)' <=> Keeps(q))
       \/ balls' = RetractBalls(self[q]) /\ ~ Keeps(q)'
  <2>1. CASE req[p].ball
    <3>1. self[q] \in BallSet(balls)
      BY <1>0, <1>4, <1>11, <2>1 DEF BallParts, BallInv
    <3>2. balls # <<>>
      BY <3>1 DEF BallSet
    <3>3. Head(balls) = h
      BY <1>2, <2>1, <3>2 DEF JoinReturnsOwnBall
    <3> QED BY <1>2, <1>4, <1>11, <2>1, <3>2, <3>3
  <2>2. CASE ~ req[p].ball
    BY <1>2, <1>11, <2>2
  <2> QED BY <2>1, <2>2
<1>13. ~ Holds(q)' /\ pc[q] # "unborn" /\ self'[q] = self[q]
  BY <1>2, <1>4, <1>6
<1> QED BY <1>4, <1>7, <1>8, <1>9, <1>10, <1>12, <1>13, LeaverStep

LEMMA DetachBalls ==
  ASSUME KeptInv, NoLateDetach, NEW p \in PThreads, DetachTable(p)
  PROVE  BallParts'
<1>0. TableInv /\ BallParts
  BY DEF KeptInv, LifeInv
<1>1. PICK q, h : q = req[p].tid /\ h = req[p].h
  OBVIOUS
<1>2. /\ pc[p] = "detached" /\ self' = self /\ joinid' = joinid /\ pc[q] # "exit"
      /\ balls' = IF tab.exited[h.slot] /\ tab.ball[h.slot] THEN RetractBalls(h) ELSE balls
      /\ tab' = DetachEntry(tab, h.slot) /\ Done(p)
  BY <1>1 DEF DetachTable, NoLateDetach
<1>3. OnlyReq(p) /\ pc'[p] = "idle"
  BY <1>0, <1>2, IdleAgain
<1>4. /\ q \in PThreads /\ self[q] = h /\ Holds(q) /\ HolderAt(q) /\ joinid[q] = "detached"
      /\ ~ Pending(q)' /\ \A s \in PThreads : s # q => (Pending(s)' <=> Pending(s))
  BY <1>0, <1>1, DetachTableStep DEF DetachesAt
<1>5. h.slot \in Slots
  BY <1>0, <1>4, HolderLife
<1>6. \A s \in PThreads : Starting(s) => Starting(s)' /\ req'[s] = req[s]
  BY <1>2, <1>3 DEF Starting, Creating, OnlyReq
<1>7. \A s \in PThreads : s # q => (Awaited(s) \/ Pending(s))' <=> (Awaited(s) \/ Pending(s))
  BY <1>2, <1>4 DEF Awaited
<1>8. \A s \in PThreads : Alive(s)' <=> Alive(s)
  BY <1>2, <1>3 DEF Alive, OnlyReq
<1>9. /\ \A s \in PThreads : s # q => (Holds(s)' <=> Holds(s))
      /\ Holds(q)' <=> Alive(q)
  <2>1. \A s \in PThreads : pc'[s] = "unborn" <=> pc[s] = "unborn"
    BY <1>2, <1>3 DEF OnlyReq
  <2> QED BY <1>2, <1>4, <1>7, <1>8, <2>1 DEF Holds, Awaited
<1>10. /\ LiveOwned' /\ tab'.ball = tab.ball
       /\ \A i \in Slots : i # h.slot => tab'.detached[i] = tab.detached[i]
  <2>1. CASE tab.exited[h.slot]
    <3>1. PICK tb : tb = tab
      OBVIOUS
    <3>2. tab' = ThDelete(tb, h.slot)
      BY <1>2, <2>1, <3>1 DEF DetachEntry
    <3> QED BY <1>0, <1>2, <1>4, <1>6, <1>9, <3>1, <3>2, EntryTaken DEF BallParts
  <2>2. CASE ~ tab.exited[h.slot]
    <3>1. PICK d : d = [tab.detached EXCEPT ![h.slot] = TRUE]
      OBVIOUS
    <3>2. tab' = [tab EXCEPT !.detached = d]
      BY <1>0, <1>2, <2>2, <3>1 DEF DetachEntry, TableInv, TypeInv, TabType
    <3>3. /\ tab'.next = tab.next /\ tab'.first = tab.first /\ tab'.ball = tab.ball
          /\ tab'.prev = tab.prev /\ tab'.free = tab.free /\ tab'.last = tab.last
          /\ tab'.detached = d
      BY <1>0, <3>2 DEF TableInv, TypeInv, TabType
    <3>4. Live(tab') = Live(tab)
      <4>1. Lists(tab', Live(tab), Unused(tab))
        BY <1>0, <3>3 DEF TableInv, ListsInv, Lists
      <4> QED BY <4>1, ListsAreReached
    <3>5. \A s \in PThreads : Holds(s)' <=> Holds(s)
      BY <1>4, <1>9, <2>2 DEF HolderAt
    <3>6. LiveOwned'
      BY <1>0, <1>2, <1>6, <3>4, <3>5 DEF BallParts, LiveOwned
    <3>7. \A i \in Slots : i # h.slot => d[i] = tab.detached[i]
      BY <1>0, <3>1 DEF TableInv, TypeInv, TabType
    <3> QED BY <3>3, <3>6, <3>7
  <2> QED BY <2>1, <2>2
<1>11. \A s \in PThreads : s # q => SameLeaver(s)
  <2> SUFFICES ASSUME NEW s \in PThreads, s # q PROVE SameLeaver(s)
    OBVIOUS
  <2>1. s = p => {pc[s], pc'[s]} \cap (Leaving \cup {"unborn"}) = {}
    BY <1>2, <1>3 DEF Leaving
  <2>2. (Awaited(s) \/ Pending(s))' <=> (Awaited(s) \/ Pending(s))
    BY <1>7
  <2>3. Holds(s) => self[s].slot # h.slot /\ self[s].slot \in Slots
    BY <1>0, <1>4, HolderLife DEF TableInv, OneHolder
  <2> QED BY <1>2, <1>3, <1>10, <2>1, <2>2, <2>3, LeaverStays
<1>12. Unique'
  BY <1>0, <1>2, <1>3, UniqueStays DEF BallParts, OnlyReq
<1>13. LeaversBut(q)
  <2>1. \A t \in PThreads : Holds(t)' => Holds(t)
    BY <1>4, <1>9
  <2> QED BY <1>2, <1>3, <1>11, <2>1, GoneStays DEF LeaversBut
<1>14. AnswersBut(q)
  BY <1>2, <1>3 DEF AnswersBut, OnlyReq
<1>15. ~ Answered(q) /\ ~ Answered(q)'
  BY <1>0, <1>2, <1>3, <1>4 DEF Answered, BallParts, AnswerInv, AnswerAt, OnlyReq
<1>16. \/ balls' = balls /\ (Keeps(q)' <=> Keeps(q))
       \/ balls' = RetractBalls(self[q]) /\ ~ Keeps(q)'
  <2>1. CASE tab.exited[h.slot]
    <3>1. ~ Alive(q) /\ ~ Holds(q)' /\ ~ Keeps(q)'
      BY <1>4, <1>9, <1>15, <2>1 DEF HolderAt, Keeps
    <3>2. tab.ball[h.slot] = req[q].ball
      BY <1>0, <1>4, <3>1 DEF BallParts, TermInv
    <3> QED BY <1>2, <1>4, <2>1, <3>1, <3>2 DEF Keeps
  <2>2. CASE ~ tab.exited[h.slot]
    <3>1. Alive(q)
      BY <1>4, <2>2 DEF HolderAt
    <3>2. pc[q] \notin Leaving /\ pc'[q] \notin Leaving
      BY <1>2, <1>3, <1>4, <3>1 DEF Alive, Leaving, OnlyReq
    <3> QED BY <1>2, <2>2, <3>2 DEF Keeps
  <2> QED BY <2>1, <2>2
<1>17. /\ Holds(q)' /\ ~ Alive(q)' => tab'.ball[self[q].slot] = req'[q].ball
       /\ pc[q] # "unborn" /\ self'[q] = self[q]
  BY <1>2, <1>4, <1>8, <1>9 DEF Holds
<1> QED BY <1>4, <1>10, <1>12, <1>13, <1>14, <1>16, <1>17, LeaverStep

LEMMA InitKept == ASSUME RoomLeft PROVE Init => KeptInv
<1> SUFFICES ASSUME Init PROVE BallParts
  BY InitLife DEF KeptInv
<1>1. \A p \in PThreads : pc[p] = IF p = Main THEN "idle" ELSE "unborn"
  BY DEF Init
<1>2. LiveOwned
  <2>1. Holds(Main) /\ self[Main].slot = 0 /\ Main \in PThreads
    BY <1>1, PThreadsAssumption DEF Init, Holds, Alive
  <2> QED BY <2>1, InitInv DEF LiveOwned
<1>3. Unique
  BY <1>1 DEF Unique
<1>4. AnswerInv /\ TermInv
  BY <1>1 DEF AnswerInv, TermInv, Alive, Holds
<1>5. BallInv
  <2>1. BallSet(balls) = {} /\ NoRepeat(balls)
    BY DEF Init, BallSet, NoRepeat
  <2> QED BY <1>1, <2>1 DEF BallInv, Keeps, Leaving
<1> QED BY <1>2, <1>3, <1>4, <1>5 DEF BallParts

LEMMA NextKept ==
  ASSUME RoomLeft, IdsSuffice, KeptInv, Undisturbed, NoFailedCreation', JoinReturnsOwnBall',
         [Next]_vars, [NoLateDetach]_vars
  PROVE  KeptInv'
<1>1. LifeInv' /\ LifeInv /\ NoJoinRace
  BY NextLife DEF KeptInv, Undisturbed
<1>2. CASE UNCHANGED vars
  <2>1. UNCHANGED <<tab, pc, self, req, balls, joinid>>
    BY <1>2 DEF vars
  <2>2. Aside
    <3>1. \A q \in PThreads : (Holds(q)' <=> Holds(q)) /\ (Alive(q)' <=> Alive(q))
      BY <2>1 DEF Holds, Alive, Awaited, Pending
    <3>2. \A q \in PThreads : SameThread(q)
      BY <2>1, <3>1 DEF SameThread, Starting
    <3> QED BY <2>1, <3>2 DEF Aside, SameEntries
  <2> QED BY <1>1, <2>2, AsideStep DEF KeptInv
<1>3. ASSUME NEW p \in PThreads, Unheard(p) PROVE KeptInv'
  BY <1>1, <1>3, UnheardIsAside, AsideStep DEF KeptInv
<1>4. ASSUME NEW p \in PThreads, Call(p) PROVE KeptInv'
  <2>1. ASSUME NEW d \in Modes, NEW a \in Aliases \cup {Nobody}, Setup(p, d, a)
        PROVE  KeptInv'
    BY <1>1, <2>1, SetupBalls DEF KeptInv
  <2>2. ASSUME NEW b \in BOOLEAN, LeaveProlog(p, b) PROVE KeptInv'
    BY <1>1, <2>2, LeaveBalls DEF KeptInv
  <2> QED BY <1>3, <1>4, <2>1, <2>2 DEF Call, Unheard, Unnoticed
<1>5. ASSUME NoLateDetach, NEW p \in PThreads, Continue(p) PROVE KeptInv'
  <2>1. /\ pc[p] \in Labels /\ pc[p] \notin {"markfailed", "clash"}
        /\ pc'[p] \notin {"markfailed", "clash"} /\ pc \in [PThreads -> Labels]
    BY <1>1 DEF LifeInv, TableInv, TypeInv, Undisturbed, NoFailedCreation
  <2>2. ~ (SpawnFails(p) \/ Undo(p) \/ UndoUnlink(p) \/ UndoLink(p) \/ UndoToFree(p))
    BY <2>1 DEF SpawnFails, Goto, Undo, UndoUnlink, UndoLink, UndoToFree, Labels, Creating,
                Asking, Leaving
  <2>3. ASSUME NEW c \in PThreads, Spawn(p, c) PROVE KeptInv'
    BY <1>1, <2>3, SpawnBalls DEF KeptInv
  <2>4. CASE ExitTable(p) \/ JoinDelete(p) \/ JoinAnswer(p) \/ DetachTable(p)
    BY <1>1, <1>5, <2>4, ExitBalls, JoinDeleteBalls, JoinAnswerBalls, DetachBalls DEF KeptInv
  <2> QED BY <1>3, <1>5, <2>1, <2>2, <2>3, <2>4 DEF Continue, Unheard, Unnoticed
<1> QED BY <1>2, <1>4, <1>5 DEF Next

(* The ball of a thread is asserted when it exits and retracted by the one    *)
(* that joins it, or detaches it after its exit: as long as thread_join_1     *)
(* finds the ball of its own thread, no ball is lost, left over or doubled.   *)
THEOREM BallsAreKept ==
  ASSUME RoomLeft, IdsSuffice
  PROVE  Spec /\ []Undisturbed /\ [][NoLateDetach]_vars /\ []JoinReturnsOwnBall
           => []ExitBallsKept
<1>1. Init => KeptInv
  BY InitKept
<1>2. /\ KeptInv /\ Undisturbed /\ Undisturbed' /\ JoinReturnsOwnBall'
      /\ [Next]_vars /\ [NoLateDetach]_vars
      => KeptInv'
  BY NextKept DEF Undisturbed
<1>3. KeptInv => ExitBallsKept
  BY KeptInvImplies
<1> QED BY <1>1, <1>2, <1>3, PTL DEF Spec

-----------------------------------------------------------------------------
(* A single thread throws.                                                    *)
OneThrower == \A p, q \in Throwers : p = q

ThrowerInv == \A q \in PThreads : pc[q] \in Leaving /\ req[q].ball => q \in Throwers
OwnBallInv == KeptInv /\ ThrowerInv /\ JoinReturnsOwnBall

LEMMA ThrowerStep ==
  ASSUME LifeInv, ThrowerInv, Undisturbed, NoFailedCreation', [Next]_vars
  PROVE  ThrowerInv'
<1>0. TableInv /\ NoJoinRace /\ \A q \in PThreads : pc[q] \in Labels
  BY DEF LifeInv, TableInv, TypeInv, Undisturbed
<1> SUFFICES ASSUME NEW q \in PThreads, pc'[q] \in Leaving, req'[q].ball
             PROVE  q \in Throwers
  BY DEF ThrowerInv
<1>1. CASE pc[q] \in Leaving /\ req'[q] = req[q]
  BY <1>1 DEF ThrowerInv
<1>2. CASE UNCHANGED vars
  BY <1>1, <1>2 DEF vars
<1>3. ASSUME NEW p \in PThreads, Unheard(p) PROVE q \in Throwers
  <2>1. SameThread(q)
    BY <1>0, <1>3, UnheardIsAside DEF Aside
  <2> QED BY <1>1, <2>1 DEF SameThread
<1>4. ASSUME NEW p \in PThreads, Call(p) PROVE q \in Throwers
  <2>1. ASSUME NEW d \in Modes, NEW a \in Aliases \cup {Nobody}, Setup(p, d, a)
        PROVE  q \in Throwers
    <3>1. Goto(p, "counting") /\ \E r : Ask(p, r)
      BY <2>1 DEF Setup
    <3>2. OnlyReq(p) /\ pc'[p] = "counting"
      BY <1>0, <3>1, WalksAlone DEF Labels, Creating
    <3> QED BY <1>1, <3>2 DEF OnlyReq, Leaving
  <2>2. ASSUME NEW b \in BOOLEAN, LeaveProlog(p, b) PROVE q \in Throwers
    <3>1. PICK r : /\ r = [NoReq EXCEPT !.kind = "exit", !.h = self[p], !.ball = b]
                   /\ Ask(p, r) /\ Goto(p, "exit")
      BY <2>2 DEF LeaveProlog
    <3>2. r.ball = b
      BY <3>1 DEF NoReq
    <3>3. OnlyReq(p) /\ req'[p] = r
      BY <1>0, <3>1, WalksAlone DEF Labels, Leaving, Ask, TableInv, TypeInv
    <3>4. b => p \in Throwers
      BY <2>2 DEF LeaveProlog
    <3>5. \A s \in PThreads : s # p => pc'[s] = pc[s] /\ req'[s] = req[s]
      BY <3>3 DEF OnlyReq
    <3> QED BY <1>1, <3>2, <3>3, <3>4, <3>5
  <2> QED BY <1>3, <1>4, <2>1, <2>2 DEF Call, Unheard, Unnoticed
<1>5. ASSUME NEW p \in PThreads, Continue(p) PROVE q \in Throwers
  <2>1. /\ pc[p] \in Labels /\ pc[p] \notin {"markfailed", "clash"}
        /\ pc'[p] \notin {"markfailed", "clash"} /\ pc \in [PThreads -> Labels]
    BY <1>0 DEF TableInv, TypeInv, Undisturbed, NoFailedCreation
  <2>2. ~ (SpawnFails(p) \/ Undo(p) \/ UndoUnlink(p) \/ UndoLink(p) \/ UndoToFree(p))
    BY <2>1 DEF SpawnFails, Goto, Undo, UndoUnlink, UndoLink, UndoToFree, Labels, Creating,
                Asking, Leaving
  <2>3. ASSUME NEW c \in PThreads, Spawn(p, c) PROVE q \in Throwers
    BY <1>1, <2>1, <2>3 DEF Spawn, Leaving
  <2>4. CASE ExitTable(p)
    BY <1>1, <2>1, <2>4 DEF ExitTable, Goto, Leaving
  <2>5. CASE JoinDelete(p) \/ JoinAnswer(p) \/ DetachTable(p)
    <3>1. OnlyReq(p) /\ pc'[p] \in {"answer", "idle"}
      BY <1>0, <2>5, WalksAlone, IdleAgain DEF JoinDelete, JoinAnswer, DetachTable, Labels
    <3> QED BY <1>1, <3>1 DEF OnlyReq, Leaving
  <2> QED BY <1>3, <1>5, <2>1, <2>2, <2>3, <2>4, <2>5 DEF Continue, Unheard, Unnoticed
<1> QED BY <1>2, <1>4, <1>5 DEF Next

LEMMA OwnBallStep ==
  ASSUME OneThrower, OwnBallInv, [Next]_vars PROVE JoinReturnsOwnBall'
<1>1. CASE returned' = returned
  BY <1>1 DEF OwnBallInv, JoinReturnsOwnBall
<1>2. ASSUME NEW p \in PThreads, JoinAnswer(p) PROVE JoinReturnsOwnBall'
  <2>1. PICK q, h : q = req[p].tid /\ h = req[p].h
    OBVIOUS
  <2>2. pc[p] = "answer" /\ returned' \in {returned, returned \cup {<<h, Head(balls)>>}}
    BY <1>2, <2>1 DEF JoinAnswer
  <2>3. CASE ~ (req[p].ball /\ balls # <<>>)
    BY <1>1, <1>2, <2>3 DEF JoinAnswer
  <2>4. CASE req[p].ball /\ balls # <<>>
    <3>1. /\ q \in PThreads /\ pc[q] = "gone" /\ h = self[q] /\ req[q].ball
      BY <2>1, <2>2, <2>4 DEF OwnBallInv, KeptInv, BallParts, AnswerInv, AnswerAt, TermInv
    <3>2. Head(balls) \in BallSet(balls)
      <4>1. balls \in Seq(born)
        BY BallsTyped DEF OwnBallInv
      <4>2. 1 \in DOMAIN balls /\ Head(balls) = balls[1]
        BY <2>4, <4>1
      <4> QED BY <4>2 DEF BallSet
    <3>3. PICK s \in PThreads : Keeps(s) /\ Head(balls) = self[s]
      BY <3>2 DEF OwnBallInv, KeptInv, BallParts, BallInv
    <3>4. s = q
      BY <3>1, <3>3 DEF OneThrower, OwnBallInv, ThrowerInv, Keeps, Leaving
    <3>5. h = Head(balls)
      BY <3>1, <3>3, <3>4
    <3> QED BY <2>2, <3>5 DEF OwnBallInv, JoinReturnsOwnBall
  <2> QED BY <2>3, <2>4
<1>3. CASE UNCHANGED vars
  BY <1>1, <1>3 DEF vars
<1>4. ASSUME NEW p \in PThreads, Call(p) \/ Continue(p), ~ JoinAnswer(p)
      PROVE  returned' = returned
  BY <1>4 DEF Call, Continue, Setup, LeaveProlog, JoinGet, DetachGet, EndSetup, AddAlias, Spawn,
     SpawnFails, Mark, RunThread, Undo, UndoUnlink, UndoLink, UndoToFree, ExitTable, Uncount,
     PthreadExit, JoinRefused, JoinWaits, JoinReturns, JoinDelete, PthreadDetach, DetachTable,
     Elsewhere
<1> QED BY <1>1, <1>2, <1>3, <1>4 DEF Next

(* thread_join/2 returns the status of its own thread, as the manual says,    *)
(* and keeps every ball, when a single thread throws: the ball that           *)
(* thread_join_1 finds can only be the one it looks for.                      *)
THEOREM OneThrowerIsAnswered ==
  ASSUME RoomLeft, IdsSuffice, OneThrower
  PROVE  Spec /\ []Undisturbed /\ [][NoLateDetach]_vars
           => []JoinReturnsOwnBall /\ []ExitBallsKept
<1>1. Init => OwnBallInv
  <2>1. Init => ThrowerInv /\ JoinReturnsOwnBall
    BY DEF Init, ThrowerInv, JoinReturnsOwnBall, NoReq
  <2> QED BY <2>1, InitKept DEF OwnBallInv
<1>2. OwnBallInv /\ Undisturbed /\ Undisturbed' /\ [Next]_vars /\ [NoLateDetach]_vars
        => OwnBallInv'
  <2> SUFFICES ASSUME OwnBallInv, Undisturbed, Undisturbed', [Next]_vars, [NoLateDetach]_vars
               PROVE  OwnBallInv'
    OBVIOUS
  <2>1. JoinReturnsOwnBall' /\ NoFailedCreation'
    BY OwnBallStep DEF Undisturbed
  <2>2. KeptInv'
    BY <2>1, NextKept DEF OwnBallInv
  <2>3. ThrowerInv'
    BY <2>1, ThrowerStep DEF OwnBallInv, KeptInv
  <2> QED BY <2>1, <2>2, <2>3 DEF OwnBallInv
<1>3. OwnBallInv => JoinReturnsOwnBall /\ ExitBallsKept
  BY KeptInvImplies DEF OwnBallInv
<1> QED BY <1>1, <1>2, <1>3, PTL DEF Spec
=============================================================================
