-------------------------- MODULE MessageQueueProofs --------------------------
(* Theorems about MessageQueue, for every set of threads and slots, capacity  *)
(* and bound: type correctness, the possession of a queue's mutex from TRY to *)
(* ACCEPT, and the quiet of a deleted queue; while the free list has a slot,  *)
(* the two lists of mq_table, the count of waiters and the reuse of slots;    *)
(* that no freed cell is touched when nobody is signalled; and, then, that    *)
(* the queues implement those of TermQueue.                                   *)
EXTENDS MessageQueue, EntryLists, FiniteSetTheorems, SequenceTheorems, TLAPS

USE DEF NULL, Slots

-----------------------------------------------------------------------------
(* The order in which init_mq_table links the slots names each slot once.     *)
LEMMA TableEnumerates ==
  /\ table \in Seq(PubSlots) /\ Len(table) \in Nat
  /\ \A s \in PubSlots : \E i \in 1 .. Len(table) : table[i] = s
  /\ \A i, j \in 1 .. Len(table) : table[i] = table[j] => i = j
<1> DEFINE n == Cardinality(PubSlots)
           IsTable(f) == f \in [1 .. n -> PubSlots] /\ IsInjective(f)
<1>1. n \in Nat /\ ExistsBijection(1 .. n, PubSlots)
  BY FS_CardinalityType, SlotsAssumption
<1>2. \E f : IsTable(f)
  BY <1>1 DEF ExistsBijection, Bijection, Injection, IsInjective
<1>3. IsTable(table)
  BY <1>2 DEF table, SetToSeq
<1>4. table \in Injection(1 .. n, PubSlots)
  BY <1>3 DEF Injection, IsInjective
<1>5. IsFiniteSet(1 .. n) /\ Cardinality(1 .. n) = n
  BY <1>1, FS_Interval
<1>6. table \in Surjection(1 .. n, PubSlots)
  BY <1>4, <1>5, FS_Injection, SlotsAssumption
<1>7. table \in Seq(PubSlots) /\ Len(table) = n
  BY <1>1, <1>3
<1> QED BY <1>1, <1>3, <1>6, <1>7 DEF Surjection, IsInjective
-----------------------------------------------------------------------------
(* Type correctness.  TypeOK is not inductive: a send appends op[t].n and     *)
(* op[t].want, and an exit takes qid[s] for its request.                      *)
Labels == {"idle", "send", "try", "peek", "wait", "woken", "got", "go", "bcast",
           "init", "freeing", "dead"}

RequestType == [kind : {"none", "send", "get", "peek", "create", "destroy", "exit"},
                h : Handle \cup {NoHandle}, n : 0 .. MaxSends, want : Kinds \cup {"none"}]

GoodRequest(l, r) ==
  /\ l \in Labels /\ r \in RequestType
  /\ l \notin {"idle", "dead"} => r.h \in Handle
  /\ l = "send" => r.kind = "send"
  /\ r.kind = "send" => r.n \in 1 .. MaxSends
  /\ r.kind \in {"send", "get", "peek"} => r.want \in Kinds

RequestInv ==
  /\ pc \in [Threads -> Labels] /\ op \in [Threads -> RequestType]
  /\ \A t \in Threads : GoodRequest(pc[t], op[t])

CellInv ==
  /\ cur \in [Threads -> -1 .. MaxSends]
  /\ msg \in [Threads -> Kinds \cup {"unbound", "last"}]
  /\ cells \in [Slots -> Seq(Cell)]

CountInv ==
  /\ asynint \in [Threads -> BOOLEAN] /\ signalled \subseteq Threads
  /\ calls \in [send : 0 .. MaxSends, create : Nat, signal : Nat]
  /\ nThreads \in [Slots -> Int]

LockInv ==
  /\ mqMutex \in [Slots -> Threads \cup {Nobody}]
  /\ mutexOwner \in [Slots -> Threads \cup {Nobody}]

IdInv ==
  /\ qid \in [Slots -> Handle \cup {NoHandle}]
  /\ \A s \in PrivSlots : qid[s] \in Handle
  /\ incarn \in [Slots -> 0 .. IncMask]
  /\ deleted \in [Slots -> BOOLEAN]
  /\ used \subseteq Handle

LinkInv ==
  /\ next \in [PubSlots -> PubSlots \cup {NULL}]
  /\ prev \in [PubSlots -> PubSlots \cup {NULL}]
  /\ ends \in [{"free", "last", "queue"} -> PubSlots \cup {NULL}]
  /\ fault \in BOOLEAN

TypeInv == RequestInv /\ CellInv /\ CountInv /\ LockInv /\ IdInv /\ LinkInv

LEMMA TypeInvImplies == TypeInv => TypeOK
BY DEF TypeInv, RequestInv, CellInv, CountInv, LockInv, IdInv, LinkInv, TypeOK, Labels,
       GoodRequest, RequestType

LEMMA InitType == Init => TypeInv
<1> SUFFICES ASSUME Init PROVE TypeInv
  OBVIOUS
<1> USE ThreadsAssumption, SlotsAssumption, KindsAssumption, BoundsAssumption DEF Init
<1>1. Idle \in RequestType
  BY DEF Idle, RequestType
<1>2. RequestInv
  BY <1>1 DEF RequestInv, GoodRequest, Labels, Idle
<1>3. CellInv /\ CountInv /\ LockInv
  BY DEF CellInv, CountInv, LockInv
<1>4. IdInv
  BY DEF IdInv, Handle
<1>5. next \in [PubSlots -> PubSlots \cup {NULL}]
  <2>1. ASSUME NEW s \in PubSlots
        PROVE  LET i == CHOOSE j \in 1 .. Len(table) : table[j] = s
               IN  (IF i = Len(table) THEN NULL ELSE table[i + 1]) \in PubSlots \cup {NULL}
    <3> DEFINE i == CHOOSE j \in 1 .. Len(table) : table[j] = s
    <3>1. i \in 1 .. Len(table)
      BY TableEnumerates
    <3>2. i # Len(table) => i + 1 \in 1 .. Len(table)
      <4>1. Len(table) \in Nat /\ i \in Nat
        BY <3>1, TableEnumerates
      <4> HIDE DEF i
      <4> QED BY <3>1, <4>1
    <3>3. \A j \in 1 .. Len(table) : table[j] \in PubSlots
      BY TableEnumerates
    <3> QED BY <3>2, <3>3
  <2> QED BY <2>1
<1>6. ends \in [{"free", "last", "queue"} -> PubSlots \cup {NULL}]
  <2>1. CASE table = <<>>
    BY <2>1
  <2>2. CASE table # <<>>
    <3>1. Head(table) \in PubSlots /\ Last(table) \in PubSlots
      BY <2>2, TableEnumerates DEF Last
    <3> QED BY <2>2, <3>1
  <2> QED BY <2>1, <2>2
<1>7. LinkInv
  BY <1>5, <1>6 DEF LinkInv
<1> QED BY <1>2, <1>3, <1>4, <1>7 DEF TypeInv

LEMMA RemoveAtType ==
  ASSUME NEW S, NEW q \in Seq(S), NEW i \in 1 .. Len(q)
  PROVE  RemoveAt(q, i) \in Seq(S)
<1>1. SubSeq(q, 1, i - 1) \in Seq(S)
  BY SubSeqProperties
<1>2. SubSeq(q, i + 1, Len(q)) \in Seq(S)
  BY SubSeqProperties
<1> QED BY <1>1, <1>2 DEF RemoveAt

(* What an action does to the request of its thread.                          *)
LEMMA SlotType ==
  ASSUME RequestInv, NEW t \in Threads, pc[t] \notin {"idle", "dead"}
  PROVE  op[t].h \in Handle /\ slotOf(t) \in Slots
BY DEF RequestInv, GoodRequest, slotOf, Handle

LEMMA Moved ==
  ASSUME RequestInv, NEW t \in Threads, NEW l, NEW r, GoodRequest(l, r),
         pc' = [pc EXCEPT ![t] = l], op' = [op EXCEPT ![t] = r]
  PROVE  RequestInv'
<1>1. l \in Labels /\ r \in RequestType
  BY DEF GoodRequest
<1>2. pc' \in [Threads -> Labels] /\ op' \in [Threads -> RequestType]
  BY <1>1 DEF RequestInv
<1>3. ASSUME NEW u \in Threads PROVE GoodRequest(pc'[u], op'[u])
  <2>1. CASE u = t
    BY <2>1 DEF RequestInv
  <2>2. CASE u # t
    BY <2>2 DEF RequestInv
  <2> QED BY <2>1, <2>2
<1> QED BY <1>2, <1>3 DEF RequestInv, GoodRequest

LEMMA Went ==
  ASSUME RequestInv, NEW t \in Threads, NEW l \in Labels, Goto(t, l), UNCHANGED op,
         pc[t] \notin {"idle", "dead"} \/ l \in {"idle", "dead"}, l # "send"
  PROVE  RequestInv'
<1>1. GoodRequest(l, op[t])
  BY DEF RequestInv, GoodRequest
<1>2. op' = [op EXCEPT ![t] = op[t]]
  BY DEF RequestInv
<1> QED BY <1>1, <1>2, Moved DEF Goto

LEMMA Returned ==
  ASSUME RequestInv, NEW t \in Threads, Return(t)
  PROVE  RequestInv'
<1>1. Idle \in RequestType
  BY BoundsAssumption DEF Idle, RequestType
<1>2. GoodRequest("idle", Idle)
  BY <1>1 DEF GoodRequest, Labels, Idle
<1> QED BY <1>2, Moved DEF Return, Goto

LEMMA Started ==
  ASSUME RequestInv, IdInv, NEW t \in Threads, NEW l \in {"send", "try", "peek"},
         NEW kind \in {"send", "get", "peek"}, NEW h \in used, NEW n \in 0 .. MaxSends,
         NEW k \in Kinds, Start(t, l, kind, h, n, k),
         l = "send" => kind = "send", kind = "send" => n \in 1 .. MaxSends
  PROVE  RequestInv'
<1> DEFINE r == [kind |-> kind, h |-> h, n |-> n, want |-> k]
<1>1. h \in Handle
  BY DEF IdInv
<1>2. r \in RequestType
  BY <1>1 DEF RequestType
<1>3. GoodRequest(l, r)
  BY <1>1, <1>2 DEF GoodRequest, Labels
<1> QED BY <1>3, Moved DEF Start, Goto

LEMMA Managed ==
  ASSUME RequestInv, NEW t \in Threads, NEW l \in Labels \ {"send"},
         NEW kind \in {"create", "destroy", "exit"}, NEW h \in Handle, Goto(t, l),
         op' = [op EXCEPT ![t] = [kind |-> kind, h |-> h, n |-> 0, want |-> "none"]]
  PROVE  RequestInv'
<1> DEFINE r == [kind |-> kind, h |-> h, n |-> 0, want |-> "none"]
<1>1. r \in RequestType
  BY BoundsAssumption DEF RequestType
<1>2. GoodRequest(l, r)
  BY <1>1 DEF GoodRequest
<1> QED BY <1>2, Moved DEF Goto

(* What an action does to the chain of a queue.                               *)
LEMMA FirstCell ==
  ASSUME CellInv, NEW s \in Slots, cells[s] # <<>>
  PROVE  Head(cells[s]).n \in 1 .. MaxSends /\ Head(cells[s]).kind \in Kinds
<1>1. Head(cells[s]) \in Cell
  BY HeadTailProperties DEF CellInv
<1> QED BY <1>1 DEF Cell

LEMMA ChainIndex ==
  ASSUME CellInv, NEW s \in Slots, NEW n, InChain(s, n)
  PROVE  IndexOf(s, n) \in 1 .. Len(cells[s]) /\ cells[s][IndexOf(s, n)].n = n
BY DEF InChain, IndexOf

LEMMA NextCell ==
  ASSUME CellInv, NEW s \in Slots, NEW n, InChain(s, n), n # Last(cells[s]).n
  PROVE  LET c == cells[s][IndexOf(s, n) + 1]
         IN  c.n \in 1 .. MaxSends /\ c.kind \in Kinds
<1> DEFINE i == IndexOf(s, n)
<1>1. cells[s] \in Seq(Cell) /\ Len(cells[s]) \in Nat
  BY LenProperties DEF CellInv
<1>2. i \in 1 .. Len(cells[s]) /\ cells[s][i].n = n
  BY ChainIndex
<1>3. i # Len(cells[s])
  BY <1>2 DEF Last
<1> HIDE DEF i
<1>4. i + 1 \in 1 .. Len(cells[s])
  BY <1>1, <1>2, <1>3
<1>5. cells[s][i + 1] \in Cell
  BY <1>1, <1>4, ElementOfSeq
<1> QED BY <1>5 DEF i, Cell

LEMMA Took ==
  ASSUME CellInv, NEW t \in Threads, NEW s \in Slots, cells[s] # <<>>, TakeFirst(t, s),
         UNCHANGED cells
  PROVE  CellInv'
<1>1. Head(cells[s]).n \in -1 .. MaxSends /\ Head(cells[s]).kind \in Kinds
  BY FirstCell, BoundsAssumption
<1> QED BY <1>1 DEF CellInv, TakeFirst

LEMMA Chained ==
  ASSUME CellInv, RequestInv, NEW t \in Threads, pc[t] \notin {"idle", "dead"},
         op[t].kind = "send", Put(t, slotOf(t)), UNCHANGED <<cur, msg>>
  PROVE  CellInv'
<1> DEFINE c == [n |-> op[t].n, kind |-> op[t].want, to |-> op[t].h]
           s == slotOf(t)
<1>1. op[t].n \in 1 .. MaxSends /\ op[t].want \in Kinds
  BY DEF RequestInv, GoodRequest
<1>2. op[t].h \in Handle /\ s \in Slots
  BY SlotType
<1>3. c \in Cell
  BY <1>1, <1>2 DEF Cell
<1> HIDE DEF c, s
<1>4. cells' = [cells EXCEPT ![s] = Append(@, c)]
  BY DEF Put, c, s
<1> QED BY <1>2, <1>3, <1>4 DEF CellInv

LEMMA NextType == TypeInv /\ [Next]_vars => TypeInv'
<1> SUFFICES ASSUME TypeInv, [Next]_vars PROVE TypeInv'
  OBVIOUS
<1> USE ThreadsAssumption, SlotsAssumption, KindsAssumption, BoundsAssumption DEF TypeInv
<1> USE DEF threadVars, signalVars, queueVars, listVars
<1>1. ASSUME NEW t \in Threads, NEW h \in used, NEW k \in Kinds, CallSend(t, h,
   k) PROVE TypeInv'
  <2>1. RequestInv'
    <3>1. calls'.send \in 1 .. MaxSends
      BY <1>1 DEF CallSend, CountInv
    <3> HIDE DEF TypeInv
    <3> QED BY <1>1, <3>1, Started DEF TypeInv, CallSend
  <2>2. CellInv'
    BY <1>1 DEF CallSend, Start, CellInv
  <2>3. CountInv'
    BY <1>1 DEF CallSend, Start, CountInv
  <2>4. LockInv'
    BY <1>1 DEF CallSend, Start, LockInv
  <2>5. IdInv'
    BY <1>1 DEF CallSend, Start, IdInv
  <2>6. LinkInv'
    BY <1>1 DEF CallSend, Start, LinkInv
  <2> QED BY <2>1, <2>2, <2>3, <2>4, <2>5, <2>6
<1>2. ASSUME NEW t \in Threads, NEW h \in used, NEW k \in Kinds, CallGet(t, h,
   k) PROVE TypeInv'
  <2>1. RequestInv'
    BY <1>2, Started DEF CallGet
  <2>2. CellInv'
    BY <1>2 DEF CallGet, Start, CellInv
  <2>3. CountInv'
    BY <1>2 DEF CallGet, Start, CountInv
  <2>4. LockInv'
    BY <1>2 DEF CallGet, Start, LockInv
  <2>5. IdInv'
    BY <1>2 DEF CallGet, Start, IdInv
  <2>6. LinkInv'
    BY <1>2 DEF CallGet, Start, LinkInv
  <2> QED BY <2>1, <2>2, <2>3, <2>4, <2>5, <2>6
<1>3. ASSUME NEW t \in Threads, NEW h \in used, NEW k \in Kinds, CallPeek(t, h,
   k) PROVE TypeInv'
  <2>1. RequestInv'
    BY <1>3, Started DEF CallPeek
  <2>2. CellInv'
    BY <1>3 DEF CallPeek, Start, CellInv
  <2>3. CountInv'
    BY <1>3 DEF CallPeek, Start, CountInv
  <2>4. LockInv'
    BY <1>3 DEF CallPeek, Start, LockInv
  <2>5. IdInv'
    BY <1>3 DEF CallPeek, Start, IdInv
  <2>6. LinkInv'
    BY <1>3 DEF CallPeek, Start, LinkInv
  <2> QED BY <2>1, <2>2, <2>3, <2>4, <2>5, <2>6
<1>4. ASSUME NEW t \in Threads, CreateQueue(t) PROVE TypeInv'
  <2>1. RequestInv'
    <3>1. ends.free \in PubSlots
      BY <1>4 DEF CreateQueue, LinkInv
    <3>2. [slot |-> ends.free, incarn |-> 0] \in Handle
      BY <3>1 DEF Handle
    <3> QED BY <1>4, <3>2, Managed DEF CreateQueue, Labels
  <2>2. CellInv'
    BY <1>4 DEF CreateQueue, CellInv
  <2>3. CountInv'
    BY <1>4 DEF CreateQueue, CountInv
  <2>4. LockInv'
    BY <1>4 DEF CreateQueue, LockInv
  <2>5. IdInv'
    BY <1>4 DEF CreateQueue, Handle, IdInv
  <2>6. LinkInv'
    BY <1>4 DEF CreateQueue, LinkInv
  <2> QED BY <2>1, <2>2, <2>3, <2>4, <2>5, <2>6
<1>5. ASSUME NEW t \in Threads, NEW h \in used, DestroyQueue(t, h) PROVE TypeInv'
  <2>1. RequestInv'
    <3>1. h \in Handle
      BY DEF IdInv
    <3> QED BY <1>5, <3>1, Managed DEF DestroyQueue, Destroy, Labels
  <2>2. CellInv'
    BY <1>5 DEF DestroyQueue, Destroy, CellInv
  <2>3. CountInv'
    BY <1>5 DEF DestroyQueue, Destroy, CountInv
  <2>4. LockInv'
    BY <1>5 DEF DestroyQueue, Destroy, LockInv
  <2>5. IdInv'
    BY <1>5 DEF DestroyQueue, Destroy, IdInv
  <2>6. LinkInv'
    BY <1>5 DEF DestroyQueue, Destroy, LinkInv
  <2> QED BY <2>1, <2>2, <2>3, <2>4, <2>5, <2>6
<1>6. ASSUME NEW t \in Threads, NEW s \in PrivSlots, ExitThread(t, s) PROVE TypeInv'
  <2>1. RequestInv'
    <3>1. qid[s] \in Handle
      BY DEF IdInv
    <3> QED BY <1>6, <3>1, Managed DEF ExitThread, Destroy, Labels
  <2>2. CellInv'
    BY <1>6 DEF ExitThread, Destroy, CellInv
  <2>3. CountInv'
    BY <1>6 DEF ExitThread, Destroy, CountInv
  <2>4. LockInv'
    BY <1>6 DEF ExitThread, Destroy, LockInv
  <2>5. IdInv'
    BY <1>6 DEF ExitThread, Destroy, Handle, IdInv
  <2>6. LinkInv'
    BY <1>6 DEF ExitThread, Destroy, LinkInv
  <2> QED BY <2>1, <2>2, <2>3, <2>4, <2>5, <2>6
<1>7. ASSUME NEW t \in Threads, SendMessage(t) PROVE TypeInv'
  <2>1. RequestInv'
    BY <1>7, Returned, Went DEF SendMessage, ExistenceError, Suspend, Put, Labels
  <2>2. CellInv'
    <3>1. op[t].kind = "send"
      BY <1>7 DEF SendMessage, RequestInv, GoodRequest
    <3>2. CASE UNCHANGED <<cur, msg, cells>>
      BY <3>2 DEF CellInv
    <3>3. CASE Put(t, slotOf(t)) /\ UNCHANGED <<cur, msg>>
      BY <1>7, <3>1, <3>3, Chained DEF SendMessage
    <3> QED BY <1>7, <3>2, <3>3 DEF SendMessage, ExistenceError
  <2>3. CountInv'
    BY <1>7 DEF SendMessage, ExistenceError, Enter, CountInv
  <2>4. LockInv'
    BY <1>7 DEF SendMessage, ExistenceError, Suspend, Put, Release, SetOwner, LockInv
  <2>5. IdInv'
    BY <1>7 DEF SendMessage, IdInv
  <2>6. LinkInv'
    BY <1>7 DEF SendMessage, LinkInv
  <2> QED BY <2>1, <2>2, <2>3, <2>4, <2>5, <2>6
<1>8. ASSUME NEW t \in Threads, TryMessage(t) PROVE TypeInv'
  <2>1. RequestInv'
    BY <1>8, Returned, Went DEF TryMessage, ExistenceError, Suspend, TakeFirst, Labels
  <2>2. CellInv'
    <3>1. CASE UNCHANGED <<cur, msg, cells>>
      BY <3>1 DEF CellInv
    <3>2. CASE cells[slotOf(t)] # <<>> /\ TakeFirst(t, slotOf(t)) /\ UNCHANGED cells
      BY <1>8, <3>2, SlotType, Took DEF TryMessage
    <3> QED BY <1>8, <3>1, <3>2 DEF TryMessage, ExistenceError
  <2>3. CountInv'
    BY <1>8 DEF TryMessage, ExistenceError, Enter, CountInv
  <2>4. LockInv'
    BY <1>8 DEF TryMessage, ExistenceError, Suspend, TakeFirst, Release, SetOwner, LockInv
  <2>5. IdInv'
    BY <1>8 DEF TryMessage, IdInv
  <2>6. LinkInv'
    BY <1>8 DEF TryMessage, LinkInv
  <2> QED BY <2>1, <2>2, <2>3, <2>4, <2>5, <2>6
<1>9. ASSUME NEW t \in Threads, PeekMessage(t) PROVE TypeInv'
  <2>1. RequestInv'
    BY <1>9, Returned, Went DEF PeekMessage, ExistenceError, TakeFirst, Labels
  <2>2. CellInv'
    <3>1. CASE UNCHANGED <<cur, cells>>
               /\ (UNCHANGED msg \/ msg' = [msg EXCEPT ![t] = "last"])
      BY <3>1 DEF CellInv
    <3>2. CASE cells[slotOf(t)] # <<>> /\ TakeFirst(t, slotOf(t)) /\ UNCHANGED cells
      BY <1>9, <3>2, SlotType, Took DEF PeekMessage
    <3> QED BY <1>9, <3>1, <3>2 DEF PeekMessage, ExistenceError
  <2>3. CountInv'
    BY <1>9 DEF PeekMessage, ExistenceError, CountInv
  <2>4. LockInv'
    BY <1>9 DEF PeekMessage, ExistenceError, TakeFirst, SetOwner, LockInv
  <2>5. IdInv'
    BY <1>9 DEF PeekMessage, IdInv
  <2>6. LinkInv'
    BY <1>9 DEF PeekMessage, LinkInv
  <2> QED BY <2>1, <2>2, <2>3, <2>4, <2>5, <2>6
<1>10. ASSUME NEW t \in Threads, WakeInterrupted(t) PROVE TypeInv'
  <2>1. RequestInv'
    BY <1>10, Returned, Went DEF WakeInterrupted, Labels
  <2>2. CountInv'
    BY <1>10, SlotType DEF WakeInterrupted, Leave, CountInv
  <2>3. CellInv'
    BY <1>10 DEF WakeInterrupted, CellInv
  <2>4. LockInv'
    BY <1>10 DEF WakeInterrupted, SetOwner, LockInv
  <2>5. IdInv'
    BY <1>10 DEF WakeInterrupted, IdInv
  <2>6. LinkInv'
    BY <1>10 DEF WakeInterrupted, LinkInv
  <2> QED BY <2>1, <2>2, <2>3, <2>4, <2>5, <2>6
<1>11. ASSUME NEW t \in Threads, WakeDeleted(t) PROVE TypeInv'
  <2>1. RequestInv'
    BY <1>11, Returned, Went DEF WakeDeleted, Labels
  <2>2. CountInv'
    BY <1>11, SlotType DEF WakeDeleted, Leave, CountInv
  <2>3. CellInv'
    BY <1>11 DEF WakeDeleted, CellInv
  <2>4. LockInv'
    BY <1>11 DEF WakeDeleted, SetOwner, LockInv
  <2>5. IdInv'
    BY <1>11 DEF WakeDeleted, IdInv
  <2>6. LinkInv'
    BY <1>11 DEF WakeDeleted, LinkInv
  <2> QED BY <2>1, <2>2, <2>3, <2>4, <2>5, <2>6
<1>12. ASSUME NEW t \in Threads, WakeRetest(t) PROVE TypeInv'
  <2>1. RequestInv'
    BY <1>12, Went DEF WakeRetest, Suspend, Put, TakeFirst, Labels
  <2>2. CellInv'
    <3>1. CASE UNCHANGED <<cur, msg, cells>>
      BY <3>1 DEF CellInv
    <3>2. CASE op[t].kind = "send" /\ Put(t, slotOf(t)) /\ UNCHANGED <<cur, msg>>
      BY <1>12, <3>2, Chained DEF WakeRetest
    <3>3. CASE cells[slotOf(t)] # <<>> /\ TakeFirst(t, slotOf(t)) /\ UNCHANGED cells
      BY <1>12, <3>3, SlotType, Took DEF WakeRetest
    <3> QED BY <1>12, <3>1, <3>2, <3>3 DEF WakeRetest
  <2>3. CountInv'
    BY <1>12, SlotType DEF WakeRetest, Leave, CountInv
  <2>4. LockInv'
    BY <1>12 DEF WakeRetest, Suspend, Put, TakeFirst, Release, SetOwner, LockInv
  <2>5. IdInv'
    BY <1>12 DEF WakeRetest, IdInv
  <2>6. LinkInv'
    BY <1>12 DEF WakeRetest, LinkInv
  <2> QED BY <2>1, <2>2, <2>3, <2>4, <2>5, <2>6
<1>13. ASSUME NEW t \in Threads, Resume(t) PROVE TypeInv'
  <2>1. RequestInv'
    BY <1>13, Went DEF Resume, Labels
  <2>2. CellInv'
    BY <1>13 DEF Resume, CellInv
  <2>3. CountInv'
    BY <1>13 DEF Resume, CountInv
  <2>4. LockInv'
    BY <1>13 DEF Resume, LockInv
  <2>5. IdInv'
    BY <1>13 DEF Resume, IdInv
  <2>6. LinkInv'
    BY <1>13 DEF Resume, LinkInv
  <2> QED BY <2>1, <2>2, <2>3, <2>4, <2>5, <2>6
<1>14. ASSUME NEW t \in Threads, HandleInterrupt(t) PROVE TypeInv'
  <2>1. RequestInv'
    <3>1. CASE UNCHANGED pc
      BY <1>14, <3>1 DEF HandleInterrupt, RequestInv, GoodRequest
    <3>2. CASE pc' = [pc EXCEPT ![t] = "dead"]
      BY <1>14, <3>2, Went DEF HandleInterrupt, Goto, Labels
    <3> QED BY <1>14, <3>1, <3>2 DEF HandleInterrupt, RequestInv
  <2>2. CellInv'
    BY <1>14 DEF HandleInterrupt, Freed, CellInv
  <2>3. CountInv'
    BY <1>14 DEF HandleInterrupt, CountInv
  <2>4. LockInv'
    BY <1>14 DEF HandleInterrupt, LockInv
  <2>5. IdInv'
    BY <1>14 DEF HandleInterrupt, IdInv
  <2>6. LinkInv'
    BY <1>14 DEF HandleInterrupt, LinkInv
  <2> QED BY <2>1, <2>2, <2>3, <2>4, <2>5, <2>6
<1>15. ASSUME NEW t \in Threads, AcceptMessage(t) PROVE TypeInv'
  <2>1. RequestInv'
    <3>1. CASE UNCHANGED <<pc, op>>
      BY <3>1 DEF RequestInv, GoodRequest
    <3> QED BY <1>15, <3>1, Returned, Went DEF AcceptMessage, Labels
  <2>2. CellInv'
    <3> DEFINE s == slotOf(t)
               q == RemoveAt(cells[s], IndexOf(s, cur[t]))
    <3>1. s \in Slots
      BY <1>15, SlotType DEF AcceptMessage
    <3>2. ASSUME InChain(s, cur[t]) PROVE q \in Seq(Cell)
      BY <3>1, <3>2, ChainIndex, RemoveAtType DEF CellInv
    <3>3. \/ InChain(s, cur[t]) /\ cells' = [cells EXCEPT ![s] = q]
          \/ UNCHANGED cells
      BY <1>15 DEF AcceptMessage
    <3>4. UNCHANGED <<cur, msg>>
      BY <1>15 DEF AcceptMessage
    <3> HIDE DEF s, q
    <3> QED BY <3>1, <3>2, <3>3, <3>4 DEF CellInv
  <2>3. CountInv'
    BY <1>15 DEF AcceptMessage, CountInv
  <2>4. LockInv'
    BY <1>15 DEF AcceptMessage, Release, SetOwner, LockInv
  <2>5. IdInv'
    BY <1>15 DEF AcceptMessage, IdInv
  <2>6. LinkInv'
    BY <1>15 DEF AcceptMessage, LinkInv
  <2> QED BY <2>1, <2>2, <2>3, <2>4, <2>5, <2>6
<1>16. ASSUME NEW t \in Threads, RetryMessage(t) PROVE TypeInv'
  <2>1. RequestInv'
    <3>1. CASE UNCHANGED <<pc, op>>
      BY <3>1 DEF RequestInv, GoodRequest
    <3> QED BY <1>16, <3>1, Went DEF RetryMessage, Suspend, Labels
  <2>2. CellInv'
    <3> DEFINE s == slotOf(t)
               c == cells[s][IndexOf(s, cur[t]) + 1]
    <3>1. s \in Slots
      BY <1>16, SlotType DEF RetryMessage
    <3>2. ASSUME InChain(s, cur[t]), cur[t] # Last(cells[s]).n
          PROVE  c.n \in -1 .. MaxSends /\ c.kind \in Kinds
      BY <3>1, <3>2, NextCell
    <3>3. \/ UNCHANGED cur /\ (UNCHANGED msg \/ msg' = [msg EXCEPT ![t] = "last"])
          \/ /\ InChain(s, cur[t]) /\ cur[t] # Last(cells[s]).n
             /\ cur' = [cur EXCEPT ![t] = c.n] /\ msg' = [msg EXCEPT ![t] = c.kind]
      BY <1>16 DEF RetryMessage
    <3>4. UNCHANGED cells
      BY <1>16 DEF RetryMessage, queueVars
    <3> HIDE DEF s, c
    <3> QED BY <3>2, <3>3, <3>4 DEF CellInv
  <2>3. CountInv'
    BY <1>16, SlotType DEF RetryMessage, Enter, CountInv
  <2>4. LockInv'
    BY <1>16 DEF RetryMessage, Suspend, Release, SetOwner, LockInv
  <2>5. IdInv'
    BY <1>16 DEF RetryMessage, IdInv
  <2>6. LinkInv'
    BY <1>16 DEF RetryMessage, LinkInv
  <2> QED BY <2>1, <2>2, <2>3, <2>4, <2>5, <2>6
<1>17. ASSUME NEW t \in Threads, RepeekMessage(t) PROVE TypeInv'
  <2>1. RequestInv'
    <3>1. CASE UNCHANGED <<pc, op>>
      BY <3>1 DEF RequestInv, GoodRequest
    <3> QED BY <1>17, <3>1, Went DEF RepeekMessage, Labels
  <2>2. CellInv'
    <3> DEFINE s == slotOf(t)
               c == cells[s][IndexOf(s, cur[t]) + 1]
    <3>1. s \in Slots
      BY <1>17, SlotType DEF RepeekMessage
    <3>2. ASSUME InChain(s, cur[t]), cur[t] # Last(cells[s]).n
          PROVE  c.n \in -1 .. MaxSends /\ c.kind \in Kinds
      BY <3>1, <3>2, NextCell
    <3>3. \/ UNCHANGED cur /\ (UNCHANGED msg \/ msg' = [msg EXCEPT ![t] = "last"])
          \/ /\ InChain(s, cur[t]) /\ cur[t] # Last(cells[s]).n
             /\ cur' = [cur EXCEPT ![t] = c.n] /\ msg' = [msg EXCEPT ![t] = c.kind]
      BY <1>17 DEF RepeekMessage
    <3>4. UNCHANGED cells
      BY <1>17 DEF RepeekMessage, queueVars
    <3> HIDE DEF s, c
    <3> QED BY <3>2, <3>3, <3>4 DEF CellInv
  <2>3. CountInv'
    BY <1>17 DEF RepeekMessage, CountInv
  <2>4. LockInv'
    BY <1>17 DEF RepeekMessage, LockInv
  <2>5. IdInv'
    BY <1>17 DEF RepeekMessage, IdInv
  <2>6. LinkInv'
    BY <1>17 DEF RepeekMessage, LinkInv
  <2> QED BY <2>1, <2>2, <2>3, <2>4, <2>5, <2>6
<1>18. ASSUME NEW t \in Threads, UnlockQueue(t) PROVE TypeInv'
  <2>1. RequestInv'
    BY <1>18, Returned DEF UnlockQueue
  <2>2. CellInv'
    BY <1>18 DEF UnlockQueue, CellInv
  <2>3. CountInv'
    BY <1>18 DEF UnlockQueue, CountInv
  <2>4. LockInv'
    BY <1>18 DEF UnlockQueue, Release, LockInv
  <2>5. IdInv'
    BY <1>18 DEF UnlockQueue, IdInv
  <2>6. LinkInv'
    BY <1>18 DEF UnlockQueue, LinkInv
  <2> QED BY <2>1, <2>2, <2>3, <2>4, <2>5, <2>6
<1>19. ASSUME NEW t \in Threads, Broadcast(t) PROVE TypeInv'
  <2>1. RequestInv'
    <3>1. Idle \in RequestType
      BY DEF Idle, RequestType
    <3> QED BY <1>19, <3>1 DEF Broadcast, Waiting, RequestInv, GoodRequest, Labels, Idle
  <2>2. CellInv'
    BY <1>19 DEF Broadcast, CellInv
  <2>3. CountInv'
    BY <1>19 DEF Broadcast, CountInv
  <2>4. LockInv'
    BY <1>19 DEF Broadcast, LockInv
  <2>5. IdInv'
    BY <1>19 DEF Broadcast, IdInv
  <2>6. LinkInv'
    BY <1>19 DEF Broadcast, LinkInv
  <2> QED BY <2>1, <2>2, <2>3, <2>4, <2>5, <2>6
<1>20. ASSUME NEW t \in Threads, InitQueue(t) PROVE TypeInv'
  <2>1. RequestInv'
    BY <1>20, Returned DEF InitQueue
  <2>2. CellInv'
    <3>1. cells' = [cells EXCEPT ![slotOf(t)] = <<>>] /\ UNCHANGED <<cur, msg>>
      BY <1>20 DEF InitQueue, Renew
    <3>2. <<>> \in Seq(Cell)
      BY EmptySeq
    <3> QED BY <3>1, <3>2 DEF CellInv
  <2>3. CountInv'
    BY <1>20, SlotType DEF InitQueue, Renew, CountInv
  <2>4. IdInv'
    <3> DEFINE s == slotOf(t)
    <3>1. s \in Slots
      BY <1>20, SlotType DEF InitQueue
    <3>2. NextIncarn(incarn[s]) \in 0 .. IncMask
      BY <3>1 DEF NextIncarn, IdInv
    <3>3. /\ incarn' = [incarn EXCEPT ![s] = NextIncarn(@)]
          /\ deleted' = [deleted EXCEPT ![s] = FALSE]
          /\ qid' = [qid EXCEPT ![s] = [slot |-> s, incarn |-> incarn'[s]]]
          /\ used' = used \cup {qid'[s]}
      BY <1>20 DEF InitQueue, Renew
    <3> HIDE DEF s
    <3> QED BY <3>1, <3>2, <3>3 DEF IdInv, Handle
  <2>5. LockInv'
    BY <1>20 DEF InitQueue, Renew, SetOwner, LockInv
  <2>6. LinkInv'
    BY <1>20 DEF InitQueue, LinkInv
  <2> QED BY <2>1, <2>2, <2>3, <2>4, <2>5, <2>6
<1>21. ASSUME NEW t \in Threads, Dealloc(t) PROVE TypeInv'
  <2>1. RequestInv'
    BY <1>21, Returned DEF Dealloc
  <2>2. CellInv'
    <3>1. cells' = [cells EXCEPT ![slotOf(t)] = <<>>] /\ UNCHANGED <<cur, msg>>
      BY <1>21 DEF Dealloc
    <3>2. <<>> \in Seq(Cell)
      BY EmptySeq
    <3> QED BY <3>1, <3>2 DEF CellInv
  <2>3. CountInv'
    BY <1>21 DEF Dealloc, CountInv
  <2>4. LockInv'
    BY <1>21 DEF Dealloc, LockInv
  <2>5. IdInv'
    BY <1>21 DEF Dealloc, IdInv
  <2>6. LinkInv'
    BY <1>21 DEF Dealloc, Unlink, LinkInv
  <2> QED BY <2>1, <2>2, <2>3, <2>4, <2>5, <2>6
<1>22. ASSUME NEW t \in Threads, Spurious(t) PROVE TypeInv'
  <2>1. RequestInv'
    BY <1>22, Went DEF Spurious, Labels
  <2>2. CellInv'
    BY <1>22 DEF Spurious, CellInv
  <2>3. CountInv'
    BY <1>22 DEF Spurious, CountInv
  <2>4. LockInv'
    BY <1>22 DEF Spurious, LockInv
  <2>5. IdInv'
    BY <1>22 DEF Spurious, IdInv
  <2>6. LinkInv'
    BY <1>22 DEF Spurious, LinkInv
  <2> QED BY <2>1, <2>2, <2>3, <2>4, <2>5, <2>6
<1>23. ASSUME NEW s \in PrivSlots, SetupThread(s) PROVE TypeInv'
  <2>1. RequestInv'
    BY <1>23 DEF SetupThread, RequestInv, GoodRequest
  <2>2. CellInv'
    BY <1>23 DEF SetupThread, Renew, CellInv
  <2>3. CountInv'
    BY <1>23 DEF SetupThread, Renew, CountInv
  <2>4. LockInv'
    BY <1>23 DEF SetupThread, Renew, SetOwner, LockInv
  <2>5. IdInv'
    BY <1>23 DEF SetupThread, Renew, NextIncarn, Handle, IdInv
  <2>6. LinkInv'
    BY <1>23 DEF SetupThread, LinkInv
  <2> QED BY <2>1, <2>2, <2>3, <2>4, <2>5, <2>6
<1>24. ASSUME NEW u \in Threads, NEW goal \in SignalKinds, Signal(u, goal) PROVE TypeInv'
  <2>1. RequestInv'
    BY <1>24 DEF Signal, RequestInv, GoodRequest
  <2>2. CellInv'
    BY <1>24 DEF Signal, CellInv
  <2>3. CountInv'
    BY <1>24 DEF Signal, CountInv
  <2>4. LockInv'
    BY <1>24 DEF Signal, LockInv
  <2>5. IdInv'
    BY <1>24 DEF Signal, IdInv
  <2>6. LinkInv'
    BY <1>24 DEF Signal, LinkInv
  <2> QED BY <2>1, <2>2, <2>3, <2>4, <2>5, <2>6
<1>25. ASSUME NEW u \in Threads, ThreadInterrupt(u) PROVE TypeInv'
  <2>1. RequestInv'
    BY <1>25 DEF ThreadInterrupt, Waiting, RequestInv, GoodRequest, Labels
  <2>2. CellInv'
    BY <1>25 DEF ThreadInterrupt, CellInv
  <2>3. CountInv'
    BY <1>25 DEF ThreadInterrupt, CountInv
  <2>4. LockInv'
    BY <1>25 DEF ThreadInterrupt, LockInv
  <2>5. IdInv'
    BY <1>25 DEF ThreadInterrupt, IdInv
  <2>6. LinkInv'
    BY <1>25 DEF ThreadInterrupt, LinkInv
  <2> QED BY <2>1, <2>2, <2>3, <2>4, <2>5, <2>6
<1>26. ASSUME UNCHANGED vars PROVE TypeInv'
  BY <1>26 DEF vars, RequestInv, CellInv, CountInv, LockInv, IdInv, LinkInv, GoodRequest
<1> QED
  BY <1>1, <1>2, <1>3, <1>4, <1>5, <1>6, <1>7, <1>8, <1>9, <1>10, <1>11, <1>12, <1>13,
     <1>14, <1>15, <1>16, <1>17, <1>18, <1>19, <1>20, <1>21, <1>22, <1>23, <1>24, <1>25,
        <1>26 DEF Next, Request, Continue

(* Type correctness of MessageQueue: every variable stays in its range, for   *)
(* every set of threads, slots and kinds and with signals at any moment       *)
(* (emu/thread_xsb.c, the message queue requests).                            *)
THEOREM TypeCorrect == Spec => []TypeOK
<1>1. TypeInv /\ [Next]_vars => TypeInv'
  BY NextType
<1> QED BY <1>1, InitType, TypeInvImplies, PTL DEF Spec

-----------------------------------------------------------------------------
(* Without signals a thread that is between TRY and ACCEPT, or inside a peek, *)
(* holds the mutex, and the queue is not deleted meanwhile, because a         *)
(* destruction locks.                                                         *)
NoInterrupts == signalled = {} /\ \A t \in Threads : ~ asynint[t]

GoodKind(l, k) ==
  /\ l = "try" => k = "get"
  /\ l = "peek" => k = "peek"
  /\ l \in {"wait", "woken"} => k \in {"send", "get"}
  /\ l \in {"got", "go"} => k \in {"get", "peek"}

KindInv == \A t \in Threads : GoodKind(pc[t], op[t].kind)

Holds(t) ==
  pc[t] \in {"got", "go"} =>
    /\ mqMutex[slotOf(t)] = t
    /\ op[t].kind = "get" => mutexOwner[slotOf(t)] = t
    /\ ~ deleted[slotOf(t)]

HoldingInv == \A t \in Threads : Holds(t)

LockedInv == TypeInv /\ NoInterrupts /\ KindInv /\ HoldingInv

LEMMA InitLocked == Init => LockedInv
BY InitType DEF Init, LockedInv, NoInterrupts, KindInv, GoodKind, HoldingInv, Holds

(* A thread t that works on a slot s which is free or its own disturbs nobody *)
(* else.                                                                      *)
LEMMA OthersHold ==
  ASSUME TypeInv, HoldingInv, NEW t \in Threads, NEW s, Free(s) \/ mqMutex[s] = t,
         \A r \in Slots \ {s} : /\ mqMutex'[r] = mqMutex[r]
                              /\ mutexOwner'[r] = mutexOwner[r]
                              /\ deleted'[r] = deleted[r],
         \A u \in Threads \ {t} : /\ op'[u] = op[u]
                                /\ (pc'[u] = pc[u] \/ pc'[u] \notin {"got", "go"})
  PROVE  \A u \in Threads \ {t} : Holds(u)'
<1> SUFFICES ASSUME NEW u \in Threads \ {t}, pc'[u] \in {"got", "go"}
             PROVE  Holds(u)'
  BY DEF Holds
<1>1. pc[u] = pc'[u] /\ op'[u] = op[u] /\ slotOf(u)' = slotOf(u)
  BY DEF slotOf
<1>2. mqMutex[slotOf(u)] = u
  BY <1>1 DEF HoldingInv, Holds
<1>3. slotOf(u) \in Slots \ {s}
  BY <1>1, <1>2, SlotType, ThreadsAssumption DEF Free, TypeInv
<1> QED BY <1>1, <1>3 DEF HoldingInv, Holds

LEMMA NextLocked ==
  ASSUME SignalKinds = {}, LockedInv, [Next]_vars
  PROVE  LockedInv'
<1> USE DEF LockedInv
<1>0. TypeInv'
  BY NextType
<1> SUFFICES NoInterrupts' /\ KindInv' /\ HoldingInv'
  BY <1>0
<1> USE DEF threadVars, signalVars, queueVars, listVars
<1>1. ASSUME NEW t \in Threads, NEW h \in used, NEW k \in Kinds, CallSend(t, h,
   k) PROVE NoInterrupts' /\ KindInv' /\ HoldingInv'
  <2>1. NoInterrupts'
    BY <1>1 DEF CallSend, Start, NoInterrupts
  <2>2. KindInv'
    BY <1>1 DEF CallSend, Start, Goto, KindInv, GoodKind, TypeInv, RequestInv
  <2>3. Holds(t)'
    BY <1>1 DEF CallSend, Start, Goto, slotOf, NoInterrupts, KindInv, GoodKind,
       HoldingInv, Holds, TypeInv, RequestInv
  <2>4. \A u \in Threads \ {t} : Holds(u)'
    BY <1>1, OthersHold DEF CallSend, Start, Goto, slotOf, Free, TypeInv, RequestInv,
       LockInv, IdInv, HoldingInv, Holds
  <2> QED BY <2>1, <2>2, <2>3, <2>4 DEF HoldingInv
<1>2. ASSUME NEW t \in Threads, NEW h \in used, NEW k \in Kinds, CallGet(t, h,
   k) PROVE NoInterrupts' /\ KindInv' /\ HoldingInv'
  <2>1. NoInterrupts'
    BY <1>2 DEF CallGet, Start, NoInterrupts
  <2>2. KindInv'
    BY <1>2 DEF CallGet, Start, Goto, KindInv, GoodKind, TypeInv, RequestInv
  <2>3. Holds(t)'
    BY <1>2 DEF CallGet, Start, Goto, slotOf, NoInterrupts, KindInv, GoodKind, HoldingInv,
       Holds, TypeInv, RequestInv
  <2>4. \A u \in Threads \ {t} : Holds(u)'
    BY <1>2, OthersHold DEF CallGet, Start, Goto, slotOf, Free, TypeInv, RequestInv,
       LockInv, IdInv, HoldingInv, Holds
  <2> QED BY <2>1, <2>2, <2>3, <2>4 DEF HoldingInv
<1>3. ASSUME NEW t \in Threads, NEW h \in used, NEW k \in Kinds, CallPeek(t, h,
   k) PROVE NoInterrupts' /\ KindInv' /\ HoldingInv'
  <2>1. NoInterrupts'
    BY <1>3 DEF CallPeek, Start, NoInterrupts
  <2>2. KindInv'
    BY <1>3 DEF CallPeek, Start, Goto, KindInv, GoodKind, TypeInv, RequestInv
  <2>3. Holds(t)'
    BY <1>3 DEF CallPeek, Start, Goto, slotOf, NoInterrupts, KindInv, GoodKind,
       HoldingInv, Holds, TypeInv, RequestInv
  <2>4. \A u \in Threads \ {t} : Holds(u)'
    BY <1>3, OthersHold DEF CallPeek, Start, Goto, slotOf, Free, TypeInv, RequestInv,
       LockInv, IdInv, HoldingInv, Holds
  <2> QED BY <2>1, <2>2, <2>3, <2>4 DEF HoldingInv
<1>4. ASSUME NEW t \in Threads,
   CreateQueue(t) PROVE NoInterrupts' /\ KindInv' /\ HoldingInv'
  <2>1. NoInterrupts'
    BY <1>4 DEF CreateQueue, NoInterrupts
  <2>2. KindInv'
    BY <1>4 DEF CreateQueue, Goto, Idle, Handle, KindInv, GoodKind, TypeInv, RequestInv
  <2>3. Holds(t)'
    BY <1>4 DEF CreateQueue, Goto, Idle, Handle, slotOf, NoInterrupts, KindInv, GoodKind,
       HoldingInv, Holds, TypeInv, RequestInv
  <2>4. \A u \in Threads \ {t} : Holds(u)'
    BY <1>4, OthersHold DEF CreateQueue, Goto, Idle, Handle, slotOf, Free, TypeInv,
       RequestInv, LockInv, IdInv, HoldingInv, Holds
  <2> QED BY <2>1, <2>2, <2>3, <2>4 DEF HoldingInv
<1>5. ASSUME NEW t \in Threads, NEW h \in used, DestroyQueue(t,
   h) PROVE NoInterrupts' /\ KindInv' /\ HoldingInv'
  <2> DEFINE s == h.slot
  <2>1. NoInterrupts'
    BY <1>5 DEF DestroyQueue, Destroy, NoInterrupts
  <2>2. s \in Slots /\ Free(s)
    BY <1>5, SlotType DEF DestroyQueue, Destroy, TypeInv, IdInv, Handle
  <2>3. \A r \in Slots \ {s} : /\ mqMutex'[r] = mqMutex[r]
                               /\ mutexOwner'[r] = mutexOwner[r]
                               /\ deleted'[r] = deleted[r]
    BY <1>5 DEF DestroyQueue, Destroy, TypeInv, IdInv
  <2>4. \A u \in Threads \ {t} : op'[u] = op[u] /\ pc'[u] = pc[u]
    BY <1>5 DEF DestroyQueue, Destroy, Goto, TypeInv, RequestInv
  <2>5. KindInv'
    BY <1>5, <2>4 DEF DestroyQueue, Destroy, Goto, KindInv, GoodKind, TypeInv, RequestInv
  <2>6. Holds(t)'
    BY <1>5 DEF DestroyQueue, Destroy, Goto, Holds, TypeInv, RequestInv
  <2>7. \A u \in Threads \ {t} : Holds(u)'
    BY <2>2, <2>3, <2>4, OthersHold
  <2> QED BY <2>1, <2>5, <2>6, <2>7 DEF HoldingInv
<1>6. ASSUME NEW t \in Threads, NEW p \in PrivSlots, ExitThread(t,
   p) PROVE NoInterrupts' /\ KindInv' /\ HoldingInv'
  <2> DEFINE s == qid[p].slot
  <2>1. NoInterrupts'
    BY <1>6 DEF ExitThread, Destroy, NoInterrupts
  <2>2. s \in Slots /\ Free(s)
    BY <1>6, SlotType DEF ExitThread, Destroy, TypeInv, IdInv, Handle
  <2>3. \A r \in Slots \ {s} : /\ mqMutex'[r] = mqMutex[r]
                               /\ mutexOwner'[r] = mutexOwner[r]
                               /\ deleted'[r] = deleted[r]
    BY <1>6 DEF ExitThread, Destroy, TypeInv, IdInv
  <2>4. \A u \in Threads \ {t} : op'[u] = op[u] /\ pc'[u] = pc[u]
    BY <1>6 DEF ExitThread, Destroy, Goto, TypeInv, RequestInv
  <2>5. KindInv'
    BY <1>6, <2>4 DEF ExitThread, Destroy, Goto, KindInv, GoodKind, TypeInv, RequestInv
  <2>6. Holds(t)'
    BY <1>6 DEF ExitThread, Destroy, Goto, Holds, TypeInv, RequestInv
  <2>7. \A u \in Threads \ {t} : Holds(u)'
    BY <2>2, <2>3, <2>4, OthersHold
  <2> QED BY <2>1, <2>5, <2>6, <2>7 DEF HoldingInv
<1>7. ASSUME NEW t \in Threads,
   SendMessage(t) PROVE NoInterrupts' /\ KindInv' /\ HoldingInv'
  <2> DEFINE s == slotOf(t)
  <2>1. NoInterrupts'
    BY <1>7 DEF SendMessage, NoInterrupts
  <2>2. s \in Slots /\ Free(s)
    BY <1>7, SlotType DEF SendMessage, TypeInv
  <2>3. \A r \in Slots \ {s} : /\ mqMutex'[r] = mqMutex[r]
                               /\ mutexOwner'[r] = mutexOwner[r]
                               /\ deleted'[r] = deleted[r]
    BY <1>7 DEF SendMessage, ExistenceError, Suspend, Put, Release, SetOwner, TypeInv,
       LockInv
  <2>4. \A u \in Threads \ {t} : op'[u] = op[u] /\ pc'[u] = pc[u]
    BY <1>7 DEF SendMessage, ExistenceError, Suspend, Put, Release, SetOwner, Return,
       Goto, TypeInv, RequestInv
  <2>5. KindInv'
    BY <1>7, <2>4 DEF SendMessage, ExistenceError, Suspend, Put, Release, SetOwner,
       Return, Goto, KindInv, GoodKind, TypeInv, RequestInv, GoodRequest
  <2>6. Holds(t)'
    BY <1>7 DEF SendMessage, ExistenceError, Suspend, Put, Release, SetOwner, Return,
       Goto, Holds, TypeInv, RequestInv
  <2>7. \A u \in Threads \ {t} : Holds(u)'
    BY <2>2, <2>3, <2>4, OthersHold
  <2> QED BY <2>1, <2>5, <2>6, <2>7 DEF HoldingInv
<1>8. ASSUME NEW t \in Threads, TryMessage(t) PROVE NoInterrupts' /\ KindInv' /\ HoldingInv'
  <2> DEFINE s == slotOf(t)
  <2>1. NoInterrupts'
    BY <1>8 DEF TryMessage, NoInterrupts
  <2>2. s \in Slots /\ Free(s)
    BY <1>8, SlotType DEF TryMessage, TypeInv
  <2>3. \A r \in Slots \ {s} : /\ mqMutex'[r] = mqMutex[r]
                               /\ mutexOwner'[r] = mutexOwner[r]
                               /\ deleted'[r] = deleted[r]
    BY <1>8 DEF TryMessage, ExistenceError, Suspend, TakeFirst, Release, SetOwner,
       TypeInv, LockInv
  <2>4. \A u \in Threads \ {t} : op'[u] = op[u] /\ pc'[u] = pc[u]
    BY <1>8 DEF TryMessage, ExistenceError, Suspend, TakeFirst, Release, SetOwner, Return,
       Goto, TypeInv, RequestInv
  <2>5. KindInv'
    BY <1>8, <2>4 DEF TryMessage, ExistenceError, Suspend, TakeFirst, Release, SetOwner,
       Return, Goto, KindInv, GoodKind, TypeInv, RequestInv
  <2>6. Holds(t)'
    <3>1. CASE pc'[t] \notin {"got", "go"}
      BY <3>1 DEF Holds
    <3>2. CASE pc'[t] = "got"
      <4>0. ~ Stale(op[t].h) /\ ~ deleted[s]
        <5>1. ~ Stale(op[t].h)
          BY <1>8, <3>2 DEF TryMessage, ExistenceError, Return, Goto, TypeInv, RequestInv
        <5> QED BY <5>1 DEF Stale, slotOf
      <4>1. UNCHANGED <<op,
         deleted>> /\ ~ deleted[s] /\ mqMutex' = [mqMutex EXCEPT ![s] = t]
        BY <1>8, <3>2, <4>0 DEF TryMessage, ExistenceError, Suspend, TakeFirst, Release,
           SetOwner, Return, Goto, NoInterrupts, TypeInv, RequestInv
      <4>2. op[t].kind = "get" => mutexOwner' = [mutexOwner EXCEPT ![s] = t]
        BY <1>8, <3>2 DEF TryMessage, ExistenceError, Suspend, TakeFirst, Release,
           SetOwner, Return, Goto, KindInv, GoodKind, TypeInv, RequestInv
      <4>3. slotOf(t)' = s
        BY <4>1 DEF slotOf
      <4> QED BY <2>2, <4>1, <4>2, <4>3 DEF Holds, TypeInv, LockInv
    <3> QED BY <1>8, <3>1, <3>2 DEF TryMessage, ExistenceError, Suspend, TakeFirst,
       Release, SetOwner, Return, Goto, TypeInv, RequestInv
  <2>7. \A u \in Threads \ {t} : Holds(u)'
    BY <2>2, <2>3, <2>4, OthersHold
  <2> QED BY <2>1, <2>5, <2>6, <2>7 DEF HoldingInv
<1>9. ASSUME NEW t \in Threads,
   PeekMessage(t) PROVE NoInterrupts' /\ KindInv' /\ HoldingInv'
  <2> DEFINE s == slotOf(t)
  <2>1. NoInterrupts'
    BY <1>9 DEF PeekMessage, NoInterrupts
  <2>2. s \in Slots /\ Free(s)
    BY <1>9, SlotType DEF PeekMessage, TypeInv
  <2>3. \A r \in Slots \ {s} : /\ mqMutex'[r] = mqMutex[r]
                               /\ mutexOwner'[r] = mutexOwner[r]
                               /\ deleted'[r] = deleted[r]
    BY <1>9 DEF PeekMessage, ExistenceError, TakeFirst, SetOwner, TypeInv, LockInv
  <2>4. \A u \in Threads \ {t} : op'[u] = op[u] /\ pc'[u] = pc[u]
    BY <1>9 DEF PeekMessage, ExistenceError, TakeFirst, SetOwner, Return, Goto, TypeInv,
       RequestInv
  <2>5. KindInv'
    BY <1>9, <2>4 DEF PeekMessage, ExistenceError, TakeFirst, SetOwner, Return, Goto,
       KindInv, GoodKind, TypeInv, RequestInv
  <2>6. Holds(t)'
    <3>1. CASE pc'[t] \notin {"got", "go"}
      BY <3>1 DEF Holds
    <3>2. CASE pc'[t] = "got"
      <4>0. ~ Stale(op[t].h) /\ ~ deleted[s]
        <5>1. ~ Stale(op[t].h)
          BY <1>9, <3>2 DEF PeekMessage, ExistenceError, Return, Goto, TypeInv, RequestInv
        <5> QED BY <5>1 DEF Stale, slotOf
      <4>1. UNCHANGED <<op,
         deleted>> /\ ~ deleted[s] /\ mqMutex' = [mqMutex EXCEPT ![s] = t]
        BY <1>9, <3>2, <4>0 DEF PeekMessage, ExistenceError, TakeFirst, SetOwner, Return,
           Goto, NoInterrupts, TypeInv, RequestInv
      <4>2. op[t].kind = "get" => mutexOwner' = [mutexOwner EXCEPT ![s] = t]
        BY <1>9, <3>2 DEF PeekMessage, ExistenceError, TakeFirst, SetOwner, Return, Goto,
           KindInv, GoodKind, TypeInv, RequestInv
      <4>3. slotOf(t)' = s
        BY <4>1 DEF slotOf
      <4> QED BY <2>2, <4>1, <4>2, <4>3 DEF Holds, TypeInv, LockInv
    <3> QED BY <1>9, <3>1, <3>2 DEF PeekMessage, ExistenceError, TakeFirst, SetOwner,
       Return, Goto, TypeInv, RequestInv
  <2>7. \A u \in Threads \ {t} : Holds(u)'
    BY <2>2, <2>3, <2>4, OthersHold
  <2> QED BY <2>1, <2>5, <2>6, <2>7 DEF HoldingInv
<1>10. ASSUME NEW t \in Threads,
   WakeInterrupted(t) PROVE NoInterrupts' /\ KindInv' /\ HoldingInv'
  <2>1. NoInterrupts'
    BY <1>10 DEF WakeInterrupted, NoInterrupts
  <2>2. KindInv'
    BY <1>10 DEF WakeInterrupted, Leave, SetOwner, Return, Goto, Idle, slotOf, KindInv,
       GoodKind, TypeInv, RequestInv
  <2>3. Holds(t)'
    BY <1>10 DEF WakeInterrupted, Leave, SetOwner, Return, Goto, Idle, slotOf,
       NoInterrupts, KindInv, GoodKind, HoldingInv, Holds, TypeInv, RequestInv
  <2>4. \A u \in Threads \ {t} : Holds(u)'
    BY <1>10, OthersHold DEF WakeInterrupted, Leave, SetOwner, Return, Goto, Idle, slotOf,
       Free, TypeInv, RequestInv, LockInv, IdInv, HoldingInv, Holds
  <2> QED BY <2>1, <2>2, <2>3, <2>4 DEF HoldingInv
<1>11. ASSUME NEW t \in Threads,
   WakeDeleted(t) PROVE NoInterrupts' /\ KindInv' /\ HoldingInv'
  <2>1. NoInterrupts'
    BY <1>11 DEF WakeDeleted, NoInterrupts
  <2>2. KindInv'
    BY <1>11 DEF WakeDeleted, Leave, SetOwner, Return, Goto, Idle, slotOf, KindInv,
       GoodKind, TypeInv, RequestInv
  <2>3. Holds(t)'
    BY <1>11 DEF WakeDeleted, Leave, SetOwner, Return, Goto, Idle, slotOf, NoInterrupts,
       KindInv, GoodKind, HoldingInv, Holds, TypeInv, RequestInv
  <2>4. \A u \in Threads \ {t} : Holds(u)'
    BY <1>11, OthersHold DEF WakeDeleted, Leave, SetOwner, Return, Goto, Idle, slotOf,
       Free, TypeInv, RequestInv, LockInv, IdInv, HoldingInv, Holds
  <2> QED BY <2>1, <2>2, <2>3, <2>4 DEF HoldingInv
<1>12. ASSUME NEW t \in Threads,
   WakeRetest(t) PROVE NoInterrupts' /\ KindInv' /\ HoldingInv'
  <2> DEFINE s == slotOf(t)
  <2>1. NoInterrupts'
    BY <1>12 DEF WakeRetest, NoInterrupts
  <2>2. s \in Slots /\ Free(s)
    BY <1>12, SlotType DEF WakeRetest, TypeInv
  <2>3. \A r \in Slots \ {s} : /\ mqMutex'[r] = mqMutex[r]
                               /\ mutexOwner'[r] = mutexOwner[r]
                               /\ deleted'[r] = deleted[r]
    BY <1>12 DEF WakeRetest, Suspend, Put, TakeFirst, Release, SetOwner, TypeInv, LockInv
  <2>4. \A u \in Threads \ {t} : op'[u] = op[u] /\ pc'[u] = pc[u]
    BY <1>12 DEF WakeRetest, Suspend, Put, TakeFirst, Release, SetOwner, Return, Goto,
       TypeInv, RequestInv
  <2>5. KindInv'
    BY <1>12, <2>4 DEF WakeRetest, Suspend, Put, TakeFirst, Release, SetOwner, Return,
       Goto, KindInv, GoodKind, TypeInv, RequestInv
  <2>6. Holds(t)'
    <3>1. CASE pc'[t] \notin {"got", "go"}
      BY <3>1 DEF Holds
    <3>2. CASE pc'[t] = "got"
      <4>0. ~ deleted[s]
        BY <1>12 DEF WakeRetest
      <4>1. UNCHANGED <<op,
         deleted>> /\ ~ deleted[s] /\ mqMutex' = [mqMutex EXCEPT ![s] = t]
        BY <1>12, <3>2, <4>0 DEF WakeRetest, Suspend, Put, TakeFirst, Release, SetOwner,
           Return, Goto, NoInterrupts, TypeInv, RequestInv
      <4>2. op[t].kind = "get" => mutexOwner' = [mutexOwner EXCEPT ![s] = t]
        BY <1>12, <3>2 DEF WakeRetest, Suspend, Put, TakeFirst, Release, SetOwner, Return,
           Goto, KindInv, GoodKind, TypeInv, RequestInv
      <4>3. slotOf(t)' = s
        BY <4>1 DEF slotOf
      <4> QED BY <2>2, <4>1, <4>2, <4>3 DEF Holds, TypeInv, LockInv
    <3> QED BY <1>12, <3>1, <3>2 DEF WakeRetest, Suspend, Put, TakeFirst, Release,
       SetOwner, Return, Goto, TypeInv, RequestInv
  <2>7. \A u \in Threads \ {t} : Holds(u)'
    BY <2>2, <2>3, <2>4, OthersHold
  <2> QED BY <2>1, <2>5, <2>6, <2>7 DEF HoldingInv
<1>13. ASSUME NEW t \in Threads, Resume(t) PROVE NoInterrupts' /\ KindInv' /\ HoldingInv'
  <2>1. NoInterrupts'
    BY <1>13 DEF Resume, NoInterrupts
  <2>2. KindInv'
    BY <1>13 DEF Resume, Goto, KindInv, GoodKind, TypeInv, RequestInv
  <2>3. Holds(t)'
    BY <1>13 DEF Resume, Goto, slotOf, NoInterrupts, KindInv, GoodKind, HoldingInv, Holds,
       TypeInv, RequestInv
  <2>4. \A u \in Threads \ {t} : Holds(u)'
    BY <1>13, OthersHold DEF Resume, Goto, slotOf, Free, TypeInv, RequestInv, LockInv,
       IdInv, HoldingInv, Holds
  <2> QED BY <2>1, <2>2, <2>3, <2>4 DEF HoldingInv
<1>14. ASSUME NEW t \in Threads,
   HandleInterrupt(t) PROVE NoInterrupts' /\ KindInv' /\ HoldingInv'
  BY <1>14 DEF HandleInterrupt, NoInterrupts
<1>15. ASSUME NEW t \in Threads,
   AcceptMessage(t) PROVE NoInterrupts' /\ KindInv' /\ HoldingInv'
  <2>1. NoInterrupts'
    BY <1>15 DEF AcceptMessage, NoInterrupts
  <2>2. KindInv'
    BY <1>15 DEF AcceptMessage, Release, SetOwner, Return, Goto, Idle, slotOf, KindInv,
       GoodKind, TypeInv, RequestInv
  <2>3. Holds(t)'
    BY <1>15 DEF AcceptMessage, Release, SetOwner, Return, Goto, Idle, slotOf,
       NoInterrupts, KindInv, GoodKind, HoldingInv, Holds, TypeInv, RequestInv
  <2>4. \A u \in Threads \ {t} : Holds(u)'
    BY <1>15, OthersHold DEF AcceptMessage, Release, SetOwner, Return, Goto, Idle, slotOf,
       Free, TypeInv, RequestInv, LockInv, IdInv, HoldingInv, Holds
  <2> QED BY <2>1, <2>2, <2>3, <2>4 DEF HoldingInv
<1>16. ASSUME NEW t \in Threads,
   RetryMessage(t) PROVE NoInterrupts' /\ KindInv' /\ HoldingInv'
  <2>1. NoInterrupts'
    BY <1>16 DEF RetryMessage, NoInterrupts
  <2>2. KindInv'
    BY <1>16 DEF RetryMessage, Suspend, Enter, Release, SetOwner, Goto, slotOf, KindInv,
       GoodKind, TypeInv, RequestInv
  <2>3. Holds(t)'
    BY <1>16 DEF RetryMessage, Suspend, Enter, Release, SetOwner, Goto, slotOf,
       NoInterrupts, KindInv, GoodKind, HoldingInv, Holds, TypeInv, RequestInv
  <2>4. \A u \in Threads \ {t} : Holds(u)'
    <3>1. mqMutex[slotOf(t)] = t
      BY <1>16 DEF RetryMessage, HoldingInv, Holds
    <3>2. \A r \in Slots \ {slotOf(t)} : /\ mqMutex'[r] = mqMutex[r]
                                        /\ mutexOwner'[r] = mutexOwner[r]
                                        /\ deleted'[r] = deleted[r]
      BY <1>16 DEF RetryMessage, Suspend, Release, SetOwner, TypeInv, LockInv
    <3>3. \A u \in Threads \ {t} : op'[u] = op[u] /\ pc'[u] = pc[u]
      BY <1>16 DEF RetryMessage, Suspend, Goto, TypeInv, RequestInv
    <3> QED BY <3>1, <3>2, <3>3, OthersHold
  <2> QED BY <2>1, <2>2, <2>3, <2>4 DEF HoldingInv
<1>17. ASSUME NEW t \in Threads,
   RepeekMessage(t) PROVE NoInterrupts' /\ KindInv' /\ HoldingInv'
  <2>1. NoInterrupts'
    BY <1>17 DEF RepeekMessage, NoInterrupts
  <2>2. KindInv'
    BY <1>17 DEF RepeekMessage, Goto, slotOf, KindInv, GoodKind, TypeInv, RequestInv
  <2>3. Holds(t)'
    BY <1>17 DEF RepeekMessage, Goto, slotOf, NoInterrupts, KindInv, GoodKind, HoldingInv,
       Holds, TypeInv, RequestInv
  <2>4. \A u \in Threads \ {t} : Holds(u)'
    BY <1>17, OthersHold DEF RepeekMessage, Goto, slotOf, Free, TypeInv, RequestInv,
       LockInv, IdInv, HoldingInv, Holds
  <2> QED BY <2>1, <2>2, <2>3, <2>4 DEF HoldingInv
<1>18. ASSUME NEW t \in Threads,
   UnlockQueue(t) PROVE NoInterrupts' /\ KindInv' /\ HoldingInv'
  <2>1. NoInterrupts'
    BY <1>18 DEF UnlockQueue, NoInterrupts
  <2>2. KindInv'
    BY <1>18 DEF UnlockQueue, Release, Return, Goto, Idle, slotOf, KindInv, GoodKind,
       TypeInv, RequestInv
  <2>3. Holds(t)'
    BY <1>18 DEF UnlockQueue, Release, Return, Goto, Idle, slotOf, NoInterrupts, KindInv,
       GoodKind, HoldingInv, Holds, TypeInv, RequestInv
  <2>4. \A u \in Threads \ {t} : Holds(u)'
    BY <1>18, OthersHold DEF UnlockQueue, Release, Return, Goto, Idle, slotOf, Free,
       TypeInv, RequestInv, LockInv, IdInv, HoldingInv, Holds
  <2> QED BY <2>1, <2>2, <2>3, <2>4 DEF HoldingInv
<1>19. ASSUME NEW t \in Threads, Broadcast(t) PROVE NoInterrupts' /\ KindInv' /\ HoldingInv'
  <2>1. NoInterrupts'
    BY <1>19 DEF Broadcast, NoInterrupts
  <2>2. KindInv'
    BY <1>19 DEF Broadcast, Idle, Waiting, KindInv, GoodKind, TypeInv, RequestInv
  <2>3. Holds(t)'
    BY <1>19 DEF Broadcast, Idle, Waiting, slotOf, NoInterrupts, KindInv, GoodKind,
       HoldingInv, Holds, TypeInv, RequestInv
  <2>4. \A u \in Threads \ {t} : Holds(u)'
    BY <1>19, OthersHold DEF Broadcast, Idle, Waiting, slotOf, Free, TypeInv, RequestInv,
       LockInv, IdInv, HoldingInv, Holds
  <2> QED BY <2>1, <2>2, <2>3, <2>4 DEF HoldingInv
<1>20. ASSUME NEW t \in Threads, InitQueue(t) PROVE NoInterrupts' /\ KindInv' /\ HoldingInv'
  <2>1. NoInterrupts'
    BY <1>20 DEF InitQueue, Renew, NoInterrupts
  <2>2. KindInv'
    BY <1>20 DEF InitQueue, Renew, SetOwner, Return, Goto, Idle, Handle, slotOf, KindInv,
       GoodKind, TypeInv, RequestInv
  <2>3. Holds(t)'
    BY <1>20 DEF InitQueue, Renew, SetOwner, Return, Goto, Idle, Handle, slotOf,
       NoInterrupts, KindInv, GoodKind, HoldingInv, Holds, TypeInv, RequestInv
  <2>4. \A u \in Threads \ {t} : Holds(u)'
    BY <1>20, OthersHold DEF InitQueue, Renew, SetOwner, Return, Goto, Idle, Handle,
       slotOf, Free, TypeInv, RequestInv, LockInv, IdInv, HoldingInv, Holds
  <2> QED BY <2>1, <2>2, <2>3, <2>4 DEF HoldingInv
<1>21. ASSUME NEW t \in Threads, Dealloc(t) PROVE NoInterrupts' /\ KindInv' /\ HoldingInv'
  <2>1. NoInterrupts'
    BY <1>21 DEF Dealloc, NoInterrupts
  <2>2. KindInv'
    BY <1>21 DEF Dealloc, Unlink, Return, Goto, Idle, slotOf, KindInv, GoodKind, TypeInv,
       RequestInv
  <2>3. Holds(t)'
    BY <1>21 DEF Dealloc, Unlink, Return, Goto, Idle, slotOf, NoInterrupts, KindInv,
       GoodKind, HoldingInv, Holds, TypeInv, RequestInv
  <2>4. \A u \in Threads \ {t} : Holds(u)'
    BY <1>21, OthersHold DEF Dealloc, Unlink, Return, Goto, Idle, slotOf, Free, TypeInv,
       RequestInv, LockInv, IdInv, HoldingInv, Holds
  <2> QED BY <2>1, <2>2, <2>3, <2>4 DEF HoldingInv
<1>22. ASSUME NEW t \in Threads, Spurious(t) PROVE NoInterrupts' /\ KindInv' /\ HoldingInv'
  <2>1. NoInterrupts'
    BY <1>22 DEF Spurious, NoInterrupts
  <2>2. KindInv'
    BY <1>22 DEF Spurious, Goto, KindInv, GoodKind, TypeInv, RequestInv
  <2>3. Holds(t)'
    BY <1>22 DEF Spurious, Goto, slotOf, NoInterrupts, KindInv, GoodKind, HoldingInv,
       Holds, TypeInv, RequestInv
  <2>4. \A u \in Threads \ {t} : Holds(u)'
    BY <1>22, OthersHold DEF Spurious, Goto, slotOf, Free, TypeInv, RequestInv, LockInv,
       IdInv, HoldingInv, Holds
  <2> QED BY <2>1, <2>2, <2>3, <2>4 DEF HoldingInv
<1>23. ASSUME NEW s \in PrivSlots,
   SetupThread(s) PROVE NoInterrupts' /\ KindInv' /\ HoldingInv'
  <2>1. NoInterrupts' /\ KindInv'
    BY <1>23 DEF SetupThread, NoInterrupts, KindInv, GoodKind
  <2>2. ASSUME NEW u \in Threads PROVE Holds(u)'
    BY <1>23, ThreadsAssumption, SlotType DEF SetupThread, Renew, Free, SetOwner,
       HoldingInv, Holds,
       TypeInv, LockInv, IdInv, slotOf
  <2> QED BY <2>1, <2>2 DEF HoldingInv
<1>24. ASSUME NEW u \in Threads, NEW goal \in SignalKinds, Signal(u,
   goal) PROVE NoInterrupts' /\ KindInv' /\ HoldingInv'
  BY <1>24 DEF Signal, NoInterrupts
<1>25. ASSUME NEW u \in Threads,
   ThreadInterrupt(u) PROVE NoInterrupts' /\ KindInv' /\ HoldingInv'
  BY <1>25 DEF ThreadInterrupt, NoInterrupts
<1>26. ASSUME UNCHANGED vars PROVE NoInterrupts' /\ KindInv' /\ HoldingInv'
  BY <1>26 DEF vars, NoInterrupts, KindInv, GoodKind, HoldingInv, Holds, slotOf
<1> QED
  BY <1>1, <1>2, <1>3, <1>4, <1>5, <1>6, <1>7, <1>8, <1>9, <1>10, <1>11, <1>12, <1>13,
     <1>14, <1>15, <1>16, <1>17, <1>18, <1>19, <1>20, <1>21, <1>22, <1>23, <1>24, <1>25,
        <1>26 DEF Next, Request, Continue

(* From TRY to ACCEPT a receiver, and for its peek a peeker, holds the        *)
(* queue's mutex whatever the other threads do, if no thread is signalled     *)
(* (comment on THREAD_TRY_MESSAGE, emu/thread_xsb.c:1511-1513).               *)
THEOREM ReceiverHolds ==
  ASSUME SignalKinds = {}
  PROVE  Spec => []ReceiverHoldsQueue
<1>1. LockedInv /\ [Next]_vars => LockedInv'
  BY NextLocked
<1>2. LockedInv => ReceiverHoldsQueue
  BY DEF LockedInv, HoldingInv, Holds, ReceiverHoldsQueue
<1> QED BY <1>1, <1>2, InitLocked, PTL DEF Spec

-----------------------------------------------------------------------------
(* A deleted queue: who suspends or changes the chain has found the queue     *)
(* open and holds its mutex, or resumes a wait and tests q->deleted.          *)
NoNewWaiter(s) ==
  \A u \in Threads : (pc'[u] \in {"wait", "woken"} /\ slotOf(u)' = s)
                       => pc[u] \in {"wait", "woken"} /\ slotOf(u) = s

QuietStep ==
  \A s \in Slots : (deleted[s] /\ deleted'[s]) =>
    NoNewWaiter(s) /\ cells'[s] \in {cells[s], <<>>}

LEMMA NextQuiet ==
  ASSUME SignalKinds = {}, LockedInv, [Next]_vars
  PROVE  QuietStep
<1> USE DEF LockedInv, TypeInv, threadVars, signalVars, queueVars, listVars
<1> SUFFICES ASSUME NEW s \in Slots, deleted[s], deleted'[s]
             PROVE  NoNewWaiter(s) /\ cells'[s] \in {cells[s], <<>>}
  BY DEF QuietStep
<1>1. ASSUME NEW t \in Threads, NEW h \in used, NEW k \in Kinds, CallSend(t, h, k)
      PROVE  NoNewWaiter(s) /\ cells'[s] \in {cells[s], <<>>}
  <2>1. NoNewWaiter(s)
    BY <1>1 DEF CallSend, Start, Goto, slotOf, NoNewWaiter, RequestInv
  <2>2. cells'[s] \in {cells[s], <<>>}
    BY <1>1 DEF CallSend, Start, slotOf, CellInv, IdInv
  <2> QED BY <2>1, <2>2
<1>2. ASSUME NEW t \in Threads, NEW h \in used, NEW k \in Kinds, CallGet(t, h, k)
      PROVE  NoNewWaiter(s) /\ cells'[s] \in {cells[s], <<>>}
  <2>1. NoNewWaiter(s)
    BY <1>2 DEF CallGet, Start, Goto, slotOf, NoNewWaiter, RequestInv
  <2>2. cells'[s] \in {cells[s], <<>>}
    BY <1>2 DEF CallGet, Start, slotOf, CellInv, IdInv
  <2> QED BY <2>1, <2>2
<1>3. ASSUME NEW t \in Threads, NEW h \in used, NEW k \in Kinds, CallPeek(t, h, k)
      PROVE  NoNewWaiter(s) /\ cells'[s] \in {cells[s], <<>>}
  <2>1. NoNewWaiter(s)
    BY <1>3 DEF CallPeek, Start, Goto, slotOf, NoNewWaiter, RequestInv
  <2>2. cells'[s] \in {cells[s], <<>>}
    BY <1>3 DEF CallPeek, Start, slotOf, CellInv, IdInv
  <2> QED BY <2>1, <2>2
<1>4. ASSUME NEW t \in Threads, CreateQueue(t)
      PROVE  NoNewWaiter(s) /\ cells'[s] \in {cells[s], <<>>}
  <2>1. NoNewWaiter(s)
    BY <1>4 DEF CreateQueue, Goto, Idle, slotOf, NoNewWaiter, RequestInv
  <2>2. cells'[s] \in {cells[s], <<>>}
    BY <1>4 DEF CreateQueue, slotOf, CellInv, IdInv
  <2> QED BY <2>1, <2>2
<1>5. ASSUME NEW t \in Threads, NEW h \in used, DestroyQueue(t, h)
      PROVE  NoNewWaiter(s) /\ cells'[s] \in {cells[s], <<>>}
  <2>1. NoNewWaiter(s)
    BY <1>5 DEF DestroyQueue, Destroy, Goto, Idle, slotOf, NoNewWaiter, RequestInv
  <2>2. cells'[s] \in {cells[s], <<>>}
    BY <1>5 DEF DestroyQueue, Destroy, slotOf, CellInv, IdInv
  <2> QED BY <2>1, <2>2
<1>6. ASSUME NEW t \in Threads, NEW p \in PrivSlots, ExitThread(t, p)
      PROVE  NoNewWaiter(s) /\ cells'[s] \in {cells[s], <<>>}
  <2>1. NoNewWaiter(s)
    BY <1>6 DEF ExitThread, Destroy, Goto, Idle, slotOf, NoNewWaiter, RequestInv
  <2>2. cells'[s] \in {cells[s], <<>>}
    BY <1>6 DEF ExitThread, Destroy, slotOf, CellInv, IdInv
  <2> QED BY <2>1, <2>2
<1>7. ASSUME NEW t \in Threads, SendMessage(t)
      PROVE  NoNewWaiter(s) /\ cells'[s] \in {cells[s], <<>>}
  <2>1. NoNewWaiter(s)
    BY <1>7 DEF SendMessage, ExistenceError, Suspend, Put, Release, SetOwner, Return,
       Goto, Idle, slotOf, Stale, NoNewWaiter, RequestInv
  <2>2. cells'[s] \in {cells[s], <<>>}
    BY <1>7 DEF SendMessage, ExistenceError, Put, slotOf, Stale, CellInv, IdInv
  <2> QED BY <2>1, <2>2
<1>8. ASSUME NEW t \in Threads, TryMessage(t)
      PROVE  NoNewWaiter(s) /\ cells'[s] \in {cells[s], <<>>}
  <2>1. NoNewWaiter(s)
    BY <1>8 DEF TryMessage, ExistenceError, Suspend, TakeFirst, Release, SetOwner, Return,
       Goto, Idle, slotOf, Stale, NoNewWaiter, RequestInv
  <2>2. cells'[s] \in {cells[s], <<>>}
    BY <1>8 DEF TryMessage, ExistenceError, slotOf, Stale, CellInv, IdInv
  <2> QED BY <2>1, <2>2
<1>9. ASSUME NEW t \in Threads, PeekMessage(t)
      PROVE  NoNewWaiter(s) /\ cells'[s] \in {cells[s], <<>>}
  <2>1. NoNewWaiter(s)
    BY <1>9 DEF PeekMessage, ExistenceError, TakeFirst, SetOwner, Return, Goto, Idle,
       slotOf, NoNewWaiter, RequestInv
  <2>2. cells'[s] \in {cells[s], <<>>}
    BY <1>9 DEF PeekMessage, ExistenceError, slotOf, CellInv, IdInv
  <2> QED BY <2>1, <2>2
<1>10. ASSUME NEW t \in Threads, WakeInterrupted(t)
      PROVE  NoNewWaiter(s) /\ cells'[s] \in {cells[s], <<>>}
  <2>1. NoNewWaiter(s)
    BY <1>10 DEF WakeInterrupted, SetOwner, Return, Goto, Idle, slotOf, NoNewWaiter,
       RequestInv
  <2>2. cells'[s] \in {cells[s], <<>>}
    BY <1>10 DEF WakeInterrupted, slotOf, CellInv, IdInv
  <2> QED BY <2>1, <2>2
<1>11. ASSUME NEW t \in Threads, WakeDeleted(t)
      PROVE  NoNewWaiter(s) /\ cells'[s] \in {cells[s], <<>>}
  <2>1. NoNewWaiter(s)
    BY <1>11 DEF WakeDeleted, SetOwner, Return, Goto, Idle, slotOf, NoNewWaiter, RequestInv
  <2>2. cells'[s] \in {cells[s], <<>>}
    BY <1>11 DEF WakeDeleted, slotOf, CellInv, IdInv
  <2> QED BY <2>1, <2>2
<1>12. ASSUME NEW t \in Threads, WakeRetest(t)
      PROVE  NoNewWaiter(s) /\ cells'[s] \in {cells[s], <<>>}
  <2>1. NoNewWaiter(s)
    BY <1>12 DEF WakeRetest, Suspend, Put, TakeFirst, Release, SetOwner, Goto, slotOf,
       NoNewWaiter, RequestInv
  <2>2. cells'[s] \in {cells[s], <<>>}
    BY <1>12 DEF WakeRetest, Put, slotOf, CellInv, IdInv
  <2> QED BY <2>1, <2>2
<1>13. ASSUME NEW t \in Threads, Resume(t)
      PROVE  NoNewWaiter(s) /\ cells'[s] \in {cells[s], <<>>}
  <2>1. NoNewWaiter(s)
    BY <1>13 DEF Resume, Goto, slotOf, NoNewWaiter, RequestInv
  <2>2. cells'[s] \in {cells[s], <<>>}
    BY <1>13 DEF Resume, slotOf, CellInv, IdInv
  <2> QED BY <2>1, <2>2
<1>14. ASSUME NEW t \in Threads, HandleInterrupt(t)
      PROVE  NoNewWaiter(s) /\ cells'[s] \in {cells[s], <<>>}
  BY <1>14 DEF HandleInterrupt, NoInterrupts
<1>15. ASSUME NEW t \in Threads, AcceptMessage(t)
      PROVE  NoNewWaiter(s) /\ cells'[s] \in {cells[s], <<>>}
  <2>1. NoNewWaiter(s)
    BY <1>15 DEF AcceptMessage, Release, SetOwner, Return, Goto, Idle, slotOf, HoldingInv,
       Holds, NoNewWaiter, RequestInv
  <2>2. cells'[s] \in {cells[s], <<>>}
    BY <1>15 DEF AcceptMessage, slotOf, HoldingInv, Holds, CellInv, IdInv
  <2> QED BY <2>1, <2>2
<1>16. ASSUME NEW t \in Threads, RetryMessage(t)
      PROVE  NoNewWaiter(s) /\ cells'[s] \in {cells[s], <<>>}
  <2>1. NoNewWaiter(s)
    BY <1>16 DEF RetryMessage, Suspend, Release, SetOwner, Goto, slotOf, HoldingInv,
       Holds, NoNewWaiter, RequestInv
  <2>2. cells'[s] \in {cells[s], <<>>}
    BY <1>16 DEF RetryMessage, slotOf, HoldingInv, Holds, CellInv, IdInv
  <2> QED BY <2>1, <2>2
<1>17. ASSUME NEW t \in Threads, RepeekMessage(t)
      PROVE  NoNewWaiter(s) /\ cells'[s] \in {cells[s], <<>>}
  <2>1. NoNewWaiter(s)
    BY <1>17 DEF RepeekMessage, Goto, slotOf, NoNewWaiter, RequestInv
  <2>2. cells'[s] \in {cells[s], <<>>}
    BY <1>17 DEF RepeekMessage, slotOf, CellInv, IdInv
  <2> QED BY <2>1, <2>2
<1>18. ASSUME NEW t \in Threads, UnlockQueue(t)
      PROVE  NoNewWaiter(s) /\ cells'[s] \in {cells[s], <<>>}
  <2>1. NoNewWaiter(s)
    BY <1>18 DEF UnlockQueue, Release, Return, Goto, Idle, slotOf, NoNewWaiter, RequestInv
  <2>2. cells'[s] \in {cells[s], <<>>}
    BY <1>18 DEF UnlockQueue, slotOf, CellInv, IdInv
  <2> QED BY <2>1, <2>2
<1>19. ASSUME NEW t \in Threads, Broadcast(t)
      PROVE  NoNewWaiter(s) /\ cells'[s] \in {cells[s], <<>>}
  <2>1. NoNewWaiter(s)
    BY <1>19 DEF Broadcast, Idle, Waiting, slotOf, NoNewWaiter, RequestInv
  <2>2. cells'[s] \in {cells[s], <<>>}
    BY <1>19 DEF Broadcast, slotOf, CellInv, IdInv
  <2> QED BY <2>1, <2>2
<1>20. ASSUME NEW t \in Threads, InitQueue(t)
      PROVE  NoNewWaiter(s) /\ cells'[s] \in {cells[s], <<>>}
  <2>1. NoNewWaiter(s)
    BY <1>20 DEF InitQueue, Renew, SetOwner, Return, Goto, Idle, slotOf, NoNewWaiter,
       RequestInv
  <2>2. cells'[s] \in {cells[s], <<>>}
    BY <1>20 DEF InitQueue, Renew, slotOf, CellInv, IdInv
  <2> QED BY <2>1, <2>2
<1>21. ASSUME NEW t \in Threads, Dealloc(t)
      PROVE  NoNewWaiter(s) /\ cells'[s] \in {cells[s], <<>>}
  <2>1. NoNewWaiter(s)
    BY <1>21 DEF Dealloc, Unlink, Return, Goto, Idle, slotOf, NoNewWaiter, RequestInv
  <2>2. cells'[s] \in {cells[s], <<>>}
    BY <1>21 DEF Dealloc, slotOf, CellInv, IdInv
  <2> QED BY <2>1, <2>2
<1>22. ASSUME NEW t \in Threads, Spurious(t)
      PROVE  NoNewWaiter(s) /\ cells'[s] \in {cells[s], <<>>}
  <2>1. NoNewWaiter(s)
    BY <1>22 DEF Spurious, Goto, slotOf, NoNewWaiter, RequestInv
  <2>2. cells'[s] \in {cells[s], <<>>}
    BY <1>22 DEF Spurious, slotOf, CellInv, IdInv
  <2> QED BY <2>1, <2>2
<1>23. ASSUME NEW p \in PrivSlots, SetupThread(p)
      PROVE  NoNewWaiter(s) /\ cells'[s] \in {cells[s], <<>>}
  <2>1. NoNewWaiter(s)
    BY <1>23 DEF SetupThread, Renew, SetOwner, slotOf, NoNewWaiter, RequestInv
  <2>2. cells'[s] \in {cells[s], <<>>}
    BY <1>23 DEF SetupThread, Renew, slotOf, CellInv, IdInv
  <2> QED BY <2>1, <2>2
<1>24. ASSUME NEW u \in Threads, NEW goal \in SignalKinds, Signal(u, goal)
      PROVE  NoNewWaiter(s) /\ cells'[s] \in {cells[s], <<>>}
  BY <1>24 DEF Signal, NoInterrupts
<1>25. ASSUME NEW u \in Threads, ThreadInterrupt(u)
      PROVE  NoNewWaiter(s) /\ cells'[s] \in {cells[s], <<>>}
  BY <1>25 DEF ThreadInterrupt, NoInterrupts
<1>26. ASSUME UNCHANGED vars PROVE NoNewWaiter(s) /\ cells'[s] \in {cells[s], <<>>}
  BY <1>26 DEF vars, NoNewWaiter, slotOf
<1> QED
  BY <1>1, <1>2, <1>3, <1>4, <1>5, <1>6, <1>7, <1>8, <1>9, <1>10, <1>11, <1>12, <1>13,
     <1>14, <1>15, <1>16, <1>17, <1>18, <1>19, <1>20, <1>21, <1>22, <1>23, <1>24, <1>25,
        <1>26 DEF Next, Request, Continue

(* A deleted public queue gains neither a waiter nor a message before its     *)
(* slot is initialised again, if no thread is signalled (check_deleted and    *)
(* wait_on_queue, emu/thread_xsb.c).                                          *)
THEOREM DeletedQuiet ==
  ASSUME SignalKinds = {}
  PROVE  Spec => DeletedStaysQuiet
<1>1. LockedInv /\ [Next]_vars => LockedInv'
  BY NextLocked
<1>2. LockedInv /\ [Next]_vars =>
        [\A s \in PubSlots : (deleted[s] /\ deleted'[s]) =>
           /\ Waiters(s)' \subseteq Waiters(s)
           /\ cells'[s] \in {cells[s], <<>>}]_vars
  <2> SUFFICES ASSUME LockedInv, [Next]_vars, NEW s \in PubSlots, deleted[s], deleted'[s]
               PROVE  Waiters(s)' \subseteq Waiters(s) /\ cells'[s] \in {cells[s], <<>>}
    OBVIOUS
  <2>1. NoNewWaiter(s) /\ cells'[s] \in {cells[s], <<>>}
    BY NextQuiet DEF QuietStep
  <2> QED BY <2>1 DEF NoNewWaiter, Waiters
<1> QED BY <1>1, <1>2, InitLocked, PTL DEF Spec, DeletedStaysQuiet

-----------------------------------------------------------------------------
(* mq_table.  While fewer than all its public slots are queues, the lists are *)
(* two, a slot on its way from one to the other is nobody else's, and the     *)
(* count of waiters is right, whoever is signalled or cancelled.              *)
SlotsLeft == MaxOpen < Cardinality(PubSlots)

Queues == Chain(ends.queue)
Frees == Chain(ends.free)

Linked(nx, pv, e, L, F) ==
  /\ IsList(PubSlots, NULL, nx, e.queue, L)
  /\ IsInverted(NULL, nx, pv, e.queue, L)
  /\ IsList(PubSlots, NULL, nx, e.free, F)
  /\ L \cap F = {} /\ L \cup F = PubSlots
  /\ e.last \in F /\ nx[e.last] = NULL
  /\ Cardinality(L) <= MaxOpen
ChainsInv == Linked(next, prev, ends, Queues, Frees)

WaitsIn(t) == pc[t] \in {"wait", "woken"}

(* A thread that initialises or deallocates the slot of its request.          *)
Working(t) == pc[t] \in {"init", "freeing"}
WorkInv ==
  /\ \A t \in Threads : Working(t) /\ slotOf(t) \in PubSlots => slotOf(t) \in Queues
  /\ \A t \in Threads : pc[t] = "init" => slotOf(t) \in PubSlots
  /\ \A t, u \in Threads : t # u /\ Working(t) /\ Working(u) /\ slotOf(t) = slotOf(u)
                             => slotOf(t) \notin PubSlots

(* No id reaches the queue of such a slot, and nobody is left in it.          *)
Dormant(s) == s \in Frees \/ \E t \in Threads : Working(t) /\ slotOf(t) = s
AsleepAt(s) ==
  (deleted[s] \/ qid[s] = NoHandle) /\ mqMutex[s] = Nobody /\ Waiters(s) = {}
SleepInv == \A s \in PubSlots : Dormant(s) => AsleepAt(s)

(* A request that an interrupt has not sent back has its queue's mutex.       *)
Grips(t) == pc[t] \in {"got", "go"} /\ (op[t].kind = "peek" \/ msg[t] # "unbound")
GripInv == \A t \in Threads : Grips(t) => mqMutex[slotOf(t)] = t

(* The private queue a thread exits from is its slot's.                       *)
HomeInv == \A s \in PrivSlots : qid[s].slot = s

SlotParts == ChainsInv /\ WorkInv /\ SleepInv /\ GripInv /\ HomeInv /\ WaitersCounted
SlotInv == TypeInv /\ SlotParts

LEMMA PubSlotsFinite ==
  /\ IsFiniteSet(PubSlots) /\ Cardinality(PubSlots) \in Nat /\ NULL \notin PubSlots
  /\ PubSlots \subseteq Slots /\ PrivSlots \subseteq Slots
BY SlotsAssumption, FS_CardinalityType

(* The set that Chain walks through, for any links.                           *)
ChainOf(nx, p) ==
  LET walk[i \in 0 .. Cardinality(PubSlots)] ==
        IF i = 0 THEN p ELSE IF walk[i - 1] = NULL THEN NULL ELSE nx[walk[i - 1]]
  IN  {walk[i] : i \in DOMAIN walk} \ {NULL}

LEMMA ChainIsList ==
  ASSUME NEW nx, NEW p, NEW L, IsList(PubSlots, NULL, nx, p, L)
  PROVE  ChainOf(nx, p) = L
<1> DEFINE n == Cardinality(PubSlots)
           IsIt(w) == w = [i \in 0 .. n |-> IF i = 0 THEN p
                             ELSE IF w[i - 1] = NULL THEN NULL ELSE nx[w[i - 1]]]
           W == CHOOSE w : IsIt(w)
<1>1. n \in Nat /\ NULL \notin PubSlots /\ IsFiniteSet(PubSlots) /\ Cardinality(PubSlots) <= n
  BY PubSlotsFinite
<1>2. \E w : IsIt(w)
  <2>1. PICK w : IsWalk(NULL, nx, p, n, w)
    <3> HIDE DEF n
    <3> QED BY <1>1, WalkExists
  <2>2. IsIt(w)
    BY <2>1 DEF IsWalk
  <2> QED BY <2>2
<1>3. IsIt(W)
  <2> HIDE DEF IsIt
  <2> QED BY <1>2
<1>4. ChainOf(nx, p) = {W[i] : i \in DOMAIN W} \ {NULL}
  BY DEF ChainOf
<1>5. IsWalk(NULL, nx, p, n, W) /\ DOMAIN W = 0 .. n
  BY <1>3 DEF IsWalk
<1> HIDE DEF n, W
<1>6. {W[i] : i \in 0 .. n} \ {NULL} = L
  BY <1>1, <1>5, ListWalk
<1> QED BY <1>4, <1>5, <1>6

LEMMA ChainsAre ==
  /\ Queues = ChainOf(next, ends.queue) /\ Frees = ChainOf(next, ends.free)
  /\ Queues' = ChainOf(next', ends'.queue) /\ Frees' = ChainOf(next', ends'.free)
BY DEF Queues, Frees, Chain, ChainOf

LEMMA ChainsLinked ==
  ASSUME NEW L, NEW F, Linked(next', prev', ends', L, F)
  PROVE  ChainsInv' /\ Queues' = L /\ Frees' = F
<1>1. ChainOf(next', ends'.queue) = L /\ ChainOf(next', ends'.free) = F
  BY ChainIsList DEF Linked
<1>2. Queues' = L /\ Frees' = F
  BY <1>1, ChainsAre
<1> QED BY <1>2 DEF ChainsInv

(* What the lists say of their slots.                                         *)
LEMMA ListedSlots ==
  ASSUME ChainsInv
  PROVE  /\ Queues \subseteq PubSlots /\ Frees \subseteq PubSlots
         /\ Queues \cap Frees = {} /\ Queues \cup Frees = PubSlots
         /\ IsFiniteSet(Queues) /\ Cardinality(Queues) \in Nat
<1>1. Queues \subseteq PubSlots /\ Queues \cap Frees = {} /\ Queues \cup Frees = PubSlots
  BY DEF ChainsInv, Linked, IsList
<1> QED BY <1>1, PubSlotsFinite, FS_Subset, FS_CardinalityType

LEMMA SlotInvImplies == SlotInv => WaitersCounted /\ FreeSlotUnused /\ ListsPartition
<1> SUFFICES ASSUME SlotInv PROVE WaitersCounted /\ FreeSlotUnused /\ ListsPartition
  OBVIOUS
<1> USE DEF SlotInv, SlotParts
<1>1. /\ Queues \subseteq PubSlots /\ Frees \subseteq PubSlots
      /\ Queues \cap Frees = {} /\ Queues \cup Frees = PubSlots
  BY ListedSlots
<1>2. FreeSlotUnused
  <2> SUFFICES ASSUME NEW s \in Frees \cup {slotOf(t) : t \in {u \in Threads : pc[u] = "init"}},
                      NEW t \in Threads
               PROVE  /\ pc[t] \in {"wait", "woken", "freeing"} => slotOf(t) # s
                      /\ mqMutex[s] # t
    BY DEF FreeSlotUnused, Frees
  <2>1. s \in PubSlots /\ Dormant(s)
    BY <1>1 DEF WorkInv, Dormant, Working
  <2>2. AsleepAt(s)
    BY <2>1 DEF SleepInv
  <2>3. ASSUME pc[t] = "freeing" PROVE slotOf(t) # s
    <3>1. CASE s \in Frees
      BY <1>1, <2>1, <2>3, <3>1 DEF WorkInv, Working
    <3>2. CASE s \notin Frees
      <4>1. PICK u \in Threads : pc[u] = "init" /\ slotOf(u) = s
        BY <3>2
      <4>2. u # t
        BY <2>3, <4>1
      <4> QED BY <2>1, <2>3, <4>1, <4>2 DEF WorkInv, Working
    <3> QED BY <3>1, <3>2
  <2>4. pc[t] \in {"wait", "woken"} => slotOf(t) # s
    BY <2>2 DEF AsleepAt, Waiters
  <2> QED BY <2>2, <2>3, <2>4, ThreadsAssumption DEF AsleepAt
<1>3. ListsPartition
  BY <1>1 DEF ListsPartition, Queues, Frees, WorkInv, Working
<1> QED BY <1>2, <1>3

-----------------------------------------------------------------------------
(* A step of thread t that leaves the lists, the marks and the ids alone.     *)
Apart(t) ==
  \A u \in Threads : u # t =>
    /\ op'[u] = op[u] /\ msg'[u] = msg[u]
    /\ pc'[u] = pc[u] \/ {pc[u], pc'[u]} \subseteq {"wait", "woken"}
Calm(t) ==
  /\ UNCHANGED <<next, prev, ends, qid, deleted>> /\ Apart(t)
  /\ \A r \in Slots :
       \/ mqMutex'[r] = mqMutex[r]
       \/ /\ r = slotOf(t) /\ ~ AsleepAt(r)
          /\ {mqMutex[r], mqMutex'[r]} \subseteq {t, Nobody}
  /\ Working(t)' => pc'[t] = pc[t] /\ op'[t] = op[t]
  /\ WaitsIn(t)' => op'[t] = op[t] /\ (WaitsIn(t) \/ ~ AsleepAt(slotOf(t)))
  /\ Grips(t)' => mqMutex'[op'[t].h.slot] = t

LEMMA CalmStep ==
  ASSUME SlotInv, NEW t \in Threads, Calm(t)
  PROVE  ChainsInv' /\ WorkInv' /\ SleepInv' /\ GripInv' /\ HomeInv'
<1> USE DEF SlotInv, SlotParts
<1>1. ChainsInv' /\ Queues' = Queues /\ Frees' = Frees
  <2>1. Linked(next', prev', ends', Queues, Frees)
    BY DEF ChainsInv, Calm
  <2> QED BY <2>1, ChainsLinked
<1>2. ASSUME NEW u \in Threads, Working(u)'
      PROVE  Working(u) /\ pc'[u] = pc[u] /\ slotOf(u)' = slotOf(u)
  BY <1>2 DEF Calm, Apart, Working, slotOf
<1>3. WorkInv'
  BY <1>1, <1>2 DEF WorkInv, Working
<1>4. ASSUME NEW s \in PubSlots, AsleepAt(s) PROVE AsleepAt(s)'
  <2>1. mqMutex'[s] = Nobody /\ (deleted'[s] \/ qid'[s] = NoHandle)
    BY <1>4, PubSlotsFinite DEF Calm, AsleepAt
  <2>2. ASSUME NEW u \in Threads, WaitsIn(u)', slotOf(u)' = s PROVE FALSE
    <3>1. WaitsIn(u) /\ slotOf(u) = s
      BY <1>4, <2>2 DEF Calm, Apart, WaitsIn, slotOf
    <3> QED BY <1>4, <3>1 DEF AsleepAt, Waiters, WaitsIn
  <2> QED BY <2>1, <2>2 DEF AsleepAt, Waiters, WaitsIn
<1>5. SleepInv'
  <2> SUFFICES ASSUME NEW s \in PubSlots, Dormant(s)' PROVE AsleepAt(s)'
    BY DEF SleepInv
  <2>1. Dormant(s)
    BY <1>1, <1>2 DEF Dormant
  <2> QED BY <1>4, <2>1 DEF SleepInv
<1>6. GripInv'
  <2> SUFFICES ASSUME NEW u \in Threads, Grips(u)' PROVE (mqMutex[slotOf(u)] = u)'
    BY DEF GripInv
  <2>1. CASE u = t
    BY <2>1 DEF Calm, slotOf
  <2>2. CASE u # t
    <3>1. Grips(u) /\ slotOf(u)' = slotOf(u)
      BY <2>2 DEF Calm, Apart, Grips, slotOf
    <3>2. mqMutex[slotOf(u)] = u /\ slotOf(u) \in Slots
      BY <3>1, SlotType DEF GripInv, Grips, TypeInv
    <3> QED BY <2>2, <3>1, <3>2, ThreadsAssumption DEF Calm
  <2> QED BY <2>1, <2>2
<1>7. HomeInv'
  BY DEF HomeInv, Calm
<1> QED BY <1>1, <1>3, <1>5, <1>6, <1>7

-----------------------------------------------------------------------------
(* q->n_threads.                                                              *)
LEMMA WaitersFinite ==
  ASSUME NEW s PROVE IsFiniteSet(Waiters(s)) /\ Cardinality(Waiters(s)) \in Nat
                     /\ IsFiniteSet(Waiters(s)') /\ Cardinality(Waiters(s)') \in Nat
<1>1. Waiters(s) \subseteq Threads /\ Waiters(s)' \subseteq Threads
  BY DEF Waiters
<1> QED BY <1>1, ThreadsAssumption, FS_Subset, FS_CardinalityType

LEMMA StillCounted ==
  ASSUME WaitersCounted, nThreads' = nThreads,
         \A u \in Threads : /\ WaitsIn(u)' <=> WaitsIn(u)
                            /\ WaitsIn(u) => op'[u] = op[u]
  PROVE  WaitersCounted'
<1>1. \A s \in PubSlots : Waiters(s)' = Waiters(s)
  BY DEF Waiters, WaitsIn, slotOf
<1> QED BY <1>1 DEF WaitersCounted

LEMMA OneMore ==
  ASSUME TypeInv, WaitersCounted, NEW t \in Threads, pc[t] \notin {"idle", "dead"}, ~ WaitsIn(t),
         op' = op, Goto(t, "wait"), Enter(slotOf(t))
  PROVE  WaitersCounted'
<1> DEFINE s == slotOf(t)
<1>1. s \in Slots /\ pc'[t] = "wait" /\ \A u \in Threads : u # t => pc'[u] = pc[u]
  BY SlotType DEF TypeInv, RequestInv, Goto
<1>2. \A r \in PubSlots : nThreads'[r] = IF r = s THEN nThreads[r] + 1 ELSE nThreads[r]
  BY PubSlotsFinite DEF Enter, TypeInv, CountInv
<1>3. \A r \in PubSlots : Waiters(r)' = IF r = s THEN Waiters(r) \cup {t} ELSE Waiters(r)
  BY <1>1 DEF Waiters, slotOf
<1>4. \A r \in PubSlots : t \notin Waiters(r)
  BY DEF Waiters, WaitsIn
<1> HIDE DEF s
<1>5. ASSUME NEW r \in PubSlots
      PROVE  Cardinality(Waiters(r) \cup {t}) = Cardinality(Waiters(r)) + 1
  BY <1>4, WaitersFinite, FS_AddElement
<1> QED BY <1>2, <1>3, <1>5 DEF WaitersCounted

LEMMA OneLess ==
  ASSUME TypeInv, WaitersCounted, NEW t \in Threads, pc[t] = "woken", ~ WaitsIn(t)',
         \A u \in Threads : u # t => pc'[u] = pc[u] /\ op'[u] = op[u], Leave(slotOf(t))
  PROVE  WaitersCounted'
<1> DEFINE s == slotOf(t)
<1>1. s \in Slots
  BY SlotType DEF TypeInv
<1>2. \A r \in PubSlots : nThreads'[r] = IF r = s THEN nThreads[r] - 1 ELSE nThreads[r]
  BY PubSlotsFinite DEF Leave, TypeInv, CountInv
<1>3. \A r \in PubSlots : Waiters(r)' = IF r = s THEN Waiters(r) \ {t} ELSE Waiters(r)
  BY DEF Waiters, WaitsIn, slotOf
<1>4. t \in Waiters(s)
  BY DEF Waiters
<1> HIDE DEF s
<1>5. s \in PubSlots => Cardinality(Waiters(s) \ {t}) = Cardinality(Waiters(s)) - 1
  BY <1>4, WaitersFinite, FS_RemoveElement
<1> QED BY <1>2, <1>3, <1>5, WaitersFinite DEF WaitersCounted

-----------------------------------------------------------------------------
(* The steps that leave the lists alone.                                      *)
LEMMA Awake ==
  ASSUME SlotInv, NEW t \in Threads, pc[t] \notin {"idle", "dead"},
         ~ Stale(op[t].h) \/ WaitsIn(t) \/ Grips(t)
  PROVE  ~ AsleepAt(slotOf(t))
<1> USE DEF SlotInv, SlotParts
<1>1. op[t].h \in Handle /\ slotOf(t) \in Slots
  BY SlotType DEF TypeInv
<1>2. CASE ~ Stale(op[t].h)
  <2>1. qid[slotOf(t)] = op[t].h /\ ~ deleted[slotOf(t)]
    BY <1>2 DEF Stale, slotOf
  <2>2. op[t].h # NoHandle
    BY <1>1, SlotsAssumption DEF NoHandle, slotOf
  <2> QED BY <2>1, <2>2 DEF AsleepAt
<1>3. CASE WaitsIn(t)
  BY <1>3 DEF AsleepAt, Waiters, WaitsIn
<1>4. CASE Grips(t)
  BY <1>4, ThreadsAssumption DEF AsleepAt, GripInv
<1> QED BY <1>2, <1>3, <1>4

LEMMA StartSlots ==
  ASSUME SlotInv, NEW t \in Threads, NEW l \in {"send", "try", "peek"}, NEW kind, NEW h,
         NEW n, NEW k, Start(t, l, kind, h, n, k)
  PROVE  SlotParts'
<1> USE DEF SlotInv, SlotParts, TypeInv
<1>1. pc[t] = "idle" /\ pc'[t] = l
      /\ \A u \in Threads : u # t => pc'[u] = pc[u] /\ op'[u] = op[u] /\ msg'[u] = msg[u]
  BY DEF Start, Goto, RequestInv
<1>2. UNCHANGED <<next, prev, ends, qid, deleted, mqMutex, nThreads>>
  BY DEF Start, listVars, queueVars
<1>3. Calm(t)
  BY <1>1, <1>2 DEF Calm, Apart, Working, WaitsIn, Grips
<1>4. WaitersCounted'
  BY <1>1, <1>2, StillCounted DEF WaitsIn
<1> QED BY <1>3, <1>4, CalmStep

LEMMA SendSlots ==
  ASSUME SlotInv, NEW t \in Threads, SendMessage(t)
  PROVE  SlotParts'
<1> USE DEF SlotInv, SlotParts, TypeInv
<1>1. pc[t] = "send" /\ slotOf(t) \in Slots /\ mqMutex[slotOf(t)] = Nobody
  BY SlotType DEF SendMessage, Free
<1>2. \A u \in Threads : u # t => pc'[u] = pc[u] /\ op'[u] = op[u] /\ msg'[u] = msg[u]
  BY DEF SendMessage, ExistenceError, Suspend, Put, Return, Goto, RequestInv
<1>3. UNCHANGED <<next, prev, ends, qid, deleted, mqMutex>>
  BY <1>1 DEF SendMessage, ExistenceError, Suspend, Put, Release, LockInv, listVars
<1>4. \/ pc'[t] \in {"idle", "bcast"} /\ UNCHANGED nThreads
      \/ /\ ~ Stale(op[t].h) /\ pc'[t] = "wait" /\ Goto(t, "wait") /\ UNCHANGED op
         /\ Enter(slotOf(t))
  BY DEF SendMessage, ExistenceError, Suspend, Put, Return, Goto, RequestInv
<1>5. Calm(t)
  BY <1>1, <1>2, <1>3, <1>4, Awake DEF Calm, Apart, Working, WaitsIn, Grips
<1>6. WaitersCounted'
  BY <1>1, <1>2, <1>4, StillCounted, OneMore DEF WaitsIn
<1> QED BY <1>5, <1>6, CalmStep

LEMMA TrySlots ==
  ASSUME SlotInv, NEW t \in Threads, TryMessage(t)
  PROVE  SlotParts'
<1> USE DEF SlotInv, SlotParts, TypeInv
<1> DEFINE s == slotOf(t)
<1>1. pc[t] = "try" /\ s \in Slots /\ mqMutex[s] = Nobody
  BY SlotType DEF TryMessage, Free
<1>2. \A u \in Threads : u # t => pc'[u] = pc[u] /\ op'[u] = op[u] /\ msg'[u] = msg[u]
  BY DEF TryMessage, ExistenceError, Suspend, TakeFirst, Return, Goto, RequestInv, CellInv
<1>3. UNCHANGED <<next, prev, ends, qid, deleted>>
  BY DEF TryMessage, listVars
<1>4. \/ pc'[t] = "idle" /\ UNCHANGED <<mqMutex, nThreads>>
      \/ /\ ~ Stale(op[t].h) /\ pc'[t] = "wait" /\ Goto(t, "wait") /\ UNCHANGED op
         /\ Enter(s) /\ UNCHANGED mqMutex
      \/ /\ ~ Stale(op[t].h) /\ pc'[t] = "got" /\ UNCHANGED <<op, nThreads>>
         /\ mqMutex' = [mqMutex EXCEPT ![s] = t]
  BY <1>1 DEF TryMessage, ExistenceError, Suspend, TakeFirst, Return, Goto, Release,
     RequestInv, LockInv
<1>5. ~ Stale(op[t].h) => ~ AsleepAt(s)
  BY <1>1, Awake
<1>6. \A r \in Slots : \/ mqMutex'[r] = mqMutex[r]
                       \/ /\ r = s /\ ~ AsleepAt(r)
                          /\ {mqMutex[r], mqMutex'[r]} \subseteq {t, Nobody}
  BY <1>1, <1>4, <1>5 DEF LockInv
<1>7. Grips(t)' => mqMutex'[op'[t].h.slot] = t
  BY <1>1, <1>4 DEF Grips, slotOf, LockInv
<1>8. Calm(t)
  BY <1>2, <1>3, <1>4, <1>5, <1>6, <1>7 DEF Calm, Apart, Working, WaitsIn
<1>9. WaitersCounted'
  BY <1>1, <1>2, <1>4, StillCounted, OneMore DEF WaitsIn
<1> QED BY <1>8, <1>9, CalmStep

LEMMA PeekSlots ==
  ASSUME SlotInv, NEW t \in Threads, PeekMessage(t)
  PROVE  SlotParts'
<1> USE DEF SlotInv, SlotParts, TypeInv
<1> DEFINE s == slotOf(t)
<1>1. pc[t] = "peek" /\ s \in Slots /\ mqMutex[s] = Nobody
  BY SlotType DEF PeekMessage, Free
<1>2. \A u \in Threads : u # t => pc'[u] = pc[u] /\ op'[u] = op[u] /\ msg'[u] = msg[u]
  BY DEF PeekMessage, ExistenceError, TakeFirst, Return, Goto, RequestInv, CellInv
<1>3. UNCHANGED <<next, prev, ends, qid, deleted, nThreads>>
  BY DEF PeekMessage, ExistenceError, listVars
<1>4. \/ pc'[t] = "idle" /\ UNCHANGED mqMutex
      \/ /\ ~ Stale(op[t].h) /\ pc'[t] = "got" /\ UNCHANGED op
         /\ mqMutex' = [mqMutex EXCEPT ![s] = t]
  BY <1>1 DEF PeekMessage, ExistenceError, TakeFirst, Return, Goto, RequestInv
<1>5. ~ Stale(op[t].h) => ~ AsleepAt(s)
  BY <1>1, Awake
<1>6. \A r \in Slots : \/ mqMutex'[r] = mqMutex[r]
                       \/ /\ r = s /\ ~ AsleepAt(r)
                          /\ {mqMutex[r], mqMutex'[r]} \subseteq {t, Nobody}
  BY <1>1, <1>4, <1>5 DEF LockInv
<1>7. Grips(t)' => mqMutex'[op'[t].h.slot] = t
  BY <1>1, <1>4 DEF Grips, slotOf, LockInv
<1>8. Calm(t)
  BY <1>2, <1>3, <1>4, <1>5, <1>6, <1>7 DEF Calm, Apart, Working, WaitsIn
<1>9. WaitersCounted'
  BY <1>1, <1>2, <1>3, <1>4, StillCounted DEF WaitsIn
<1> QED BY <1>8, <1>9, CalmStep

LEMMA InterruptedSlots ==
  ASSUME SlotInv, NEW t \in Threads, WakeInterrupted(t)
  PROVE  SlotParts'
<1> USE DEF SlotInv, SlotParts, TypeInv
<1>1. pc[t] = "woken" /\ pc'[t] \in {"got", "idle"} /\ ~ Grips(t)' /\ Leave(slotOf(t))
  BY DEF WakeInterrupted, Return, Goto, Grips, RequestInv, CellInv
<1>2. \A u \in Threads : u # t => pc'[u] = pc[u] /\ op'[u] = op[u] /\ msg'[u] = msg[u]
  BY DEF WakeInterrupted, Return, Goto, RequestInv, CellInv
<1>3. UNCHANGED <<next, prev, ends, qid, deleted, mqMutex>>
  BY DEF WakeInterrupted, listVars
<1>4. Calm(t)
  BY <1>1, <1>2, <1>3 DEF Calm, Apart, Working, WaitsIn
<1>5. WaitersCounted'
  BY <1>1, <1>2, OneLess DEF WaitsIn
<1> QED BY <1>4, <1>5, CalmStep

LEMMA RetestSlots ==
  ASSUME SlotInv, NEW t \in Threads, WakeRetest(t)
  PROVE  SlotParts'
<1> USE DEF SlotInv, SlotParts, TypeInv
<1> DEFINE s == slotOf(t)
<1>1. pc[t] = "woken" /\ s \in Slots /\ mqMutex[s] = Nobody
  BY SlotType DEF WakeRetest, Free
<1>2. \A u \in Threads : u # t => pc'[u] = pc[u] /\ op'[u] = op[u] /\ msg'[u] = msg[u]
  BY DEF WakeRetest, Suspend, Put, TakeFirst, Goto, RequestInv, CellInv
<1>3. UNCHANGED <<next, prev, ends, qid, deleted>> /\ op'[t] = op[t]
  BY DEF WakeRetest, Suspend, Put, TakeFirst, listVars
<1>4. \/ pc'[t] = "wait" /\ UNCHANGED <<mqMutex, nThreads>>
      \/ pc'[t] = "bcast" /\ UNCHANGED mqMutex /\ Leave(s)
      \/ pc'[t] = "got" /\ mqMutex' = [mqMutex EXCEPT ![s] = t] /\ Leave(s)
  BY <1>1 DEF WakeRetest, Suspend, Put, TakeFirst, Goto, Release, RequestInv, LockInv
<1>5. ~ AsleepAt(s)
  BY <1>1, Awake DEF WaitsIn
<1>6. \A r \in Slots : \/ mqMutex'[r] = mqMutex[r]
                       \/ /\ r = s /\ ~ AsleepAt(r)
                          /\ {mqMutex[r], mqMutex'[r]} \subseteq {t, Nobody}
  BY <1>1, <1>4, <1>5 DEF LockInv
<1>7. Grips(t)' => mqMutex'[op'[t].h.slot] = t
  BY <1>1, <1>3, <1>4 DEF Grips, slotOf, LockInv
<1>8. Calm(t)
  BY <1>2, <1>3, <1>4, <1>5, <1>6, <1>7 DEF Calm, Apart, Working, WaitsIn
<1>9. WaitersCounted'
  <2>1. CASE pc'[t] = "wait" /\ UNCHANGED nThreads
    <3>1. \A u \in Threads : /\ WaitsIn(u)' <=> WaitsIn(u)
                             /\ WaitsIn(u) => op'[u] = op[u]
      BY <1>1, <1>2, <1>3, <2>1 DEF WaitsIn
    <3> QED BY <2>1, <3>1, StillCounted
  <2>2. CASE pc'[t] \in {"bcast", "got"} /\ Leave(s)
    BY <1>1, <1>2, <2>2, OneLess DEF WaitsIn
  <2> QED BY <1>4, <2>1, <2>2
<1> QED BY <1>8, <1>9, CalmStep

LEMMA InterruptSlots ==
  ASSUME SlotInv, NEW t \in Threads, HandleInterrupt(t)
  PROVE  SlotParts'
<1> USE DEF SlotInv, SlotParts, TypeInv
<1>1. /\ pc[t] \in {"idle", "got"} /\ pc'[t] \in {pc[t], "dead"} /\ UNCHANGED <<op, msg>>
      /\ \A u \in Threads : u # t => pc'[u] = pc[u]
  BY DEF HandleInterrupt, RequestInv
<1>2. UNCHANGED <<next, prev, ends, qid, deleted, mqMutex, nThreads>>
  BY DEF HandleInterrupt, queueVars, listVars
<1>3. Grips(t)' => mqMutex'[op'[t].h.slot] = t
  BY <1>1, <1>2 DEF Grips, GripInv, slotOf
<1>4. Calm(t)
  BY <1>1, <1>2, <1>3 DEF Calm, Apart, Working, WaitsIn
<1>5. WaitersCounted'
  BY <1>1, <1>2, StillCounted DEF WaitsIn
<1> QED BY <1>4, <1>5, CalmStep

(* Spurious wake-ups and proceed_sub.                                         *)
LEMMA GoesOnSlots ==
  ASSUME SlotInv, NEW t \in Threads, Spurious(t) \/ Resume(t)
  PROVE  SlotParts'
<1> USE DEF SlotInv, SlotParts, TypeInv
<1>1. /\ \/ pc[t] = "wait" /\ pc'[t] = "woken"
         \/ pc[t] = "got" /\ pc'[t] = "go"
      /\ \A u \in Threads : u # t => pc'[u] = pc[u]
  BY DEF Spurious, Resume, Goto, RequestInv
<1>2. UNCHANGED <<op, msg, next, prev, ends, qid, deleted, mqMutex, nThreads>>
  BY DEF Spurious, Resume, queueVars, listVars
<1>3. Grips(t)' => mqMutex'[op'[t].h.slot] = t
  BY <1>1, <1>2 DEF Grips, GripInv, slotOf
<1>4. Calm(t)
  BY <1>1, <1>2, <1>3 DEF Calm, Apart, Working, WaitsIn
<1>5. WaitersCounted'
  BY <1>1, <1>2, StillCounted DEF WaitsIn
<1> QED BY <1>4, <1>5, CalmStep

LEMMA AcceptSlots ==
  ASSUME SlotInv, NEW t \in Threads, AcceptMessage(t)
  PROVE  SlotParts'
<1> USE DEF SlotInv, SlotParts, TypeInv
<1> DEFINE s == slotOf(t)
<1>1. pc[t] = "go" /\ s \in Slots
  BY SlotType DEF AcceptMessage
<1>2. \A u \in Threads : u # t => pc'[u] = pc[u] /\ op'[u] = op[u]
  BY DEF AcceptMessage, Return, Goto, RequestInv
<1>3. UNCHANGED <<next, prev, ends, qid, deleted, msg, nThreads>>
  BY DEF AcceptMessage
<1>4. \/ /\ pc'[t] \in {"idle", "bcast"}
         /\ mqMutex[s] \in {t, Nobody} /\ mqMutex' = [mqMutex EXCEPT ![s] = Nobody]
      \/ UNCHANGED <<pc, op, mqMutex>>
  BY DEF AcceptMessage, Return, Goto, CheckLock, OwnsMutex, Free, Release, RequestInv
<1>5. mqMutex[s] = t => ~ AsleepAt(s)
  BY ThreadsAssumption DEF AsleepAt
<1>6. \A r \in Slots : \/ mqMutex'[r] = mqMutex[r]
                       \/ /\ r = s /\ ~ AsleepAt(r)
                          /\ {mqMutex[r], mqMutex'[r]} \subseteq {t, Nobody}
  BY <1>1, <1>4, <1>5 DEF LockInv
<1>7. Grips(t)' => mqMutex'[op'[t].h.slot] = t
  BY <1>3, <1>4 DEF Grips, GripInv, slotOf
<1>8. Calm(t)
  BY <1>1, <1>2, <1>3, <1>4, <1>6, <1>7 DEF Calm, Apart, Working, WaitsIn
<1>9. WaitersCounted'
  BY <1>1, <1>2, <1>3, <1>4, StillCounted DEF WaitsIn
<1> QED BY <1>8, <1>9, CalmStep

LEMMA RetrySlots ==
  ASSUME SlotInv, NEW t \in Threads, RetryMessage(t)
  PROVE  SlotParts'
<1> USE DEF SlotInv, SlotParts, TypeInv
<1> DEFINE s == slotOf(t)
<1>1. pc[t] = "go" /\ s \in Slots /\ Grips(t) /\ mqMutex[s] = t
  BY SlotType DEF RetryMessage, Unifies, Grips, GripInv
<1>2. \A u \in Threads : u # t => pc'[u] = pc[u] /\ msg'[u] = msg[u]
  BY DEF RetryMessage, Suspend, Goto, RequestInv, CellInv
<1>3. UNCHANGED <<op, next, prev, ends, qid, deleted>>
  BY DEF RetryMessage, listVars
<1>4. \/ /\ pc'[t] = "wait" /\ Goto(t, "wait") /\ Enter(s)
         /\ mqMutex' = [mqMutex EXCEPT ![s] = Nobody]
      \/ pc'[t] \in {"got", "go"} /\ UNCHANGED <<mqMutex, nThreads>>
  BY <1>1 DEF RetryMessage, Suspend, Goto, Release, RequestInv
<1>5. ~ AsleepAt(s)
  BY <1>1, Awake
<1>6. \A r \in Slots : \/ mqMutex'[r] = mqMutex[r]
                       \/ /\ r = s /\ ~ AsleepAt(r)
                          /\ {mqMutex[r], mqMutex'[r]} \subseteq {t, Nobody}
  BY <1>1, <1>4, <1>5 DEF LockInv
<1>7. Grips(t)' => mqMutex'[op'[t].h.slot] = t
  BY <1>1, <1>3, <1>4 DEF Grips, slotOf
<1>8. Calm(t)
  BY <1>2, <1>3, <1>4, <1>5, <1>6, <1>7 DEF Calm, Apart, Working, WaitsIn
<1>9. WaitersCounted'
  BY <1>1, <1>2, <1>3, <1>4, StillCounted, OneMore DEF WaitsIn
<1> QED BY <1>8, <1>9, CalmStep

LEMMA RepeekSlots ==
  ASSUME SlotInv, NEW t \in Threads, RepeekMessage(t) \/ UnlockQueue(t)
  PROVE  SlotParts'
<1> USE DEF SlotInv, SlotParts, TypeInv
<1> DEFINE s == slotOf(t)
<1>1. pc[t] = "go" /\ s \in Slots /\ Grips(t) /\ mqMutex[s] = t
  BY SlotType DEF RepeekMessage, UnlockQueue, Grips, GripInv
<1>2. \A u \in Threads : u # t => pc'[u] = pc[u] /\ op'[u] = op[u] /\ msg'[u] = msg[u]
  BY DEF RepeekMessage, UnlockQueue, Return, Goto, RequestInv, CellInv
<1>3. UNCHANGED <<next, prev, ends, qid, deleted, nThreads>>
  BY DEF RepeekMessage, UnlockQueue, queueVars, listVars
<1>4. \/ pc'[t] = "idle" /\ mqMutex' = [mqMutex EXCEPT ![s] = Nobody]
      \/ pc'[t] \in {"got", "go"} /\ UNCHANGED <<op, mqMutex>>
  BY <1>1 DEF RepeekMessage, UnlockQueue, Return, Goto, Release, RequestInv, queueVars
<1>5. ~ AsleepAt(s)
  BY <1>1, Awake
<1>6. \A r \in Slots : \/ mqMutex'[r] = mqMutex[r]
                       \/ /\ r = s /\ ~ AsleepAt(r)
                          /\ {mqMutex[r], mqMutex'[r]} \subseteq {t, Nobody}
  BY <1>1, <1>4, <1>5 DEF LockInv
<1>7. Grips(t)' => mqMutex'[op'[t].h.slot] = t
  BY <1>1, <1>4 DEF Grips, slotOf
<1>8. Calm(t)
  BY <1>2, <1>3, <1>4, <1>6, <1>7 DEF Calm, Apart, Working, WaitsIn
<1>9. WaitersCounted'
  BY <1>1, <1>2, <1>3, <1>4, StillCounted DEF WaitsIn
<1> QED BY <1>8, <1>9, CalmStep

LEMMA BroadcastSlots ==
  ASSUME SlotInv, NEW t \in Threads, Broadcast(t)
  PROVE  SlotParts'
<1> USE DEF SlotInv, SlotParts, TypeInv
<1>1. /\ pc[t] = "bcast" /\ pc'[t] = "idle"
      /\ \A u \in Threads : u # t =>
           op'[u] = op[u] /\ (pc'[u] = pc[u] \/ (pc[u] = "wait" /\ pc'[u] = "woken"))
  BY DEF Broadcast, Waiting, RequestInv
<1>2. UNCHANGED <<msg, next, prev, ends, qid, deleted, mqMutex, nThreads>>
  BY DEF Broadcast, queueVars, listVars
<1>3. Calm(t)
  BY <1>1, <1>2 DEF Calm, Apart, Working, WaitsIn, Grips
<1>4. WaitersCounted'
  BY <1>1, <1>2, StillCounted DEF WaitsIn
<1> QED BY <1>3, <1>4, CalmStep

(* The two halves of thread_signal_1, to whatever thread.                     *)
LEMMA SignalSlots ==
  ASSUME SlotInv, NEW t \in Threads,
         (\E goal \in SignalKinds : Signal(t, goal)) \/ ThreadInterrupt(t)
  PROVE  SlotParts'
<1> USE DEF SlotInv, SlotParts, TypeInv
<1>1. \A u \in Threads : pc'[u] = pc[u] \/ (pc[u] = "wait" /\ pc'[u] = "woken")
  BY DEF Signal, ThreadInterrupt, Waiting, threadVars, RequestInv
<1>2. UNCHANGED <<op, msg, next, prev, ends, qid, deleted, mqMutex, nThreads>>
  BY DEF Signal, ThreadInterrupt, threadVars, queueVars, listVars
<1>3. Grips(t)' => mqMutex'[op'[t].h.slot] = t
  BY <1>1, <1>2 DEF Grips, GripInv, slotOf
<1>4. Calm(t)
  BY <1>1, <1>2, <1>3 DEF Calm, Apart, Working, WaitsIn
<1>5. WaitersCounted'
  BY <1>1, <1>2, StillCounted DEF WaitsIn
<1> QED BY <1>4, <1>5, CalmStep

LEMMA SlotStutter ==
  ASSUME SlotInv, UNCHANGED vars
  PROVE  SlotParts'
<1> USE DEF SlotInv, SlotParts
<1>1. UNCHANGED <<pc, op, msg, next, prev, ends, qid, deleted, mqMutex, nThreads>>
  BY DEF vars, threadVars, queueVars, listVars
<1>2. ChainsInv' /\ Queues' = Queues /\ Frees' = Frees
  BY <1>1 DEF ChainsInv, Queues, Frees, Chain
<1>3. WorkInv' /\ GripInv' /\ HomeInv'
  BY <1>1, <1>2 DEF WorkInv, Working, GripInv, Grips, HomeInv, slotOf
<1>4. SleepInv'
  BY <1>1, <1>2 DEF SleepInv, Dormant, Working, AsleepAt, Waiters, slotOf
<1>5. WaitersCounted'
  BY <1>1, StillCounted DEF WaitsIn
<1> QED BY <1>2, <1>3, <1>4, <1>5

-----------------------------------------------------------------------------
(* The steps that decide who deallocates a destroyed queue.                   *)
LEMMA Retires ==
  ASSUME SlotInv, WaitersCounted', NEW t \in Threads, NEW s,
         UNCHANGED <<next, prev, ends, qid, mqMutex>>,
         \A r \in Slots : deleted[r] => deleted'[r],
         \A u \in Threads : u # t => pc'[u] = pc[u] /\ op'[u] = op[u] /\ msg'[u] = msg[u],
         pc'[t] \in {"idle", "bcast", "freeing"},
         pc'[t] = "freeing" => slotOf(t)' = s,
         pc'[t] = "freeing" /\ s \in PubSlots =>
           ~ AsleepAt(s) /\ deleted'[s] /\ mqMutex[s] = Nobody /\ nThreads'[s] = 0
  PROVE  SlotParts'
<1> USE DEF SlotInv, SlotParts
<1>1. ChainsInv' /\ Queues' = Queues /\ Frees' = Frees
  <2>1. Linked(next', prev', ends', Queues, Frees)
    BY DEF ChainsInv
  <2> QED BY <2>1, ChainsLinked
<1>2. Queues \cap Frees = {} /\ Queues \cup Frees = PubSlots
  BY ListedSlots
<1>3. ASSUME NEW u \in Threads, u # t
      PROVE  pc'[u] = pc[u] /\ slotOf(u)' = slotOf(u) /\ (Working(u)' <=> Working(u))
  BY <1>3 DEF slotOf, Working
<1>4. Working(t)' => pc'[t] = "freeing" /\ slotOf(t)' = s
  BY DEF Working
<1>5. Working(t)' /\ s \in PubSlots => ~ Dormant(s)
  BY <1>4 DEF SleepInv
<1>6. WorkInv'
  <2>1. ASSUME NEW u \in Threads, Working(u)', slotOf(u)' \in PubSlots
        PROVE  slotOf(u)' \in Queues'
    <3>1. CASE u = t
      BY <1>1, <1>2, <1>4, <1>5, <2>1, <3>1 DEF Dormant
    <3>2. CASE u # t
      BY <1>1, <1>3, <2>1, <3>2 DEF WorkInv
    <3> QED BY <3>1, <3>2
  <2>2. ASSUME NEW u \in Threads, pc'[u] = "init" PROVE slotOf(u)' \in PubSlots
    BY <1>3, <2>2 DEF WorkInv
  <2>3. ASSUME NEW u \in Threads, NEW v \in Threads, u # v, Working(u)', Working(v)',
               slotOf(u)' = slotOf(v)'
        PROVE  slotOf(u)' \notin PubSlots
    <3>1. CASE u # t /\ v # t
      BY <1>3, <2>3, <3>1 DEF WorkInv
    <3>2. CASE u = t
      BY <1>3, <1>4, <1>5, <2>3, <3>2 DEF Dormant
    <3>3. CASE v = t
      BY <1>3, <1>4, <1>5, <2>3, <3>3 DEF Dormant
    <3> QED BY <3>1, <3>2, <3>3
  <2> QED BY <2>1, <2>2, <2>3 DEF WorkInv
<1>7. \A r : Waiters(r)' \subseteq Waiters(r)
  BY DEF Waiters, slotOf
<1>8. SleepInv'
  <2> SUFFICES ASSUME NEW r \in PubSlots, Dormant(r)' PROVE AsleepAt(r)'
    BY DEF SleepInv
  <2>1. CASE Dormant(r)
    <3>1. AsleepAt(r)
      BY <2>1 DEF SleepInv
    <3> QED BY <1>7, <3>1, PubSlotsFinite DEF AsleepAt
  <2>2. CASE ~ Dormant(r)
    <3>1. Working(t)' /\ r = s
      BY <1>1, <1>3, <1>4, <2>2 DEF Dormant
    <3>2. pc'[t] = "freeing" /\ nThreads'[s] = 0 /\ deleted'[s] /\ mqMutex[s] = Nobody
      BY <1>4, <3>1
    <3>3. Waiters(s)' = {}
      <4>1. Cardinality(Waiters(s)') = 0
        BY <3>1, <3>2 DEF WaitersCounted
      <4> QED BY <4>1, WaitersFinite, FS_EmptySet
    <3> QED BY <3>1, <3>2, <3>3 DEF AsleepAt
  <2> QED BY <2>1, <2>2
<1>9. GripInv'
  <2> SUFFICES ASSUME NEW u \in Threads, Grips(u)' PROVE (mqMutex[slotOf(u)] = u)'
    BY DEF GripInv
  <2>1. u # t
    BY DEF Grips
  <2>2. Grips(u) /\ slotOf(u)' = slotOf(u)
    BY <2>1 DEF Grips, slotOf
  <2> QED BY <2>2 DEF GripInv
<1>10. HomeInv'
  BY DEF HomeInv
<1> QED BY <1>1, <1>6, <1>8, <1>9, <1>10

LEMMA DestroySlots ==
  ASSUME SlotInv, NEW t \in Threads,
         \/ \E h \in used : DestroyQueue(t, h)
         \/ \E s \in PrivSlots : ExitThread(t, s)
  PROVE  SlotParts'
<1> USE DEF SlotInv, SlotParts, TypeInv
<1>1. PICK kind \in {"destroy", "exit"}, h \in Handle :
        Destroy(t, kind, h) /\ (h.slot \in PubSlots => ~ AsleepAt(h.slot))
  <2>1. CASE \E h \in used : DestroyQueue(t, h)
    <3>1. PICK h \in used : DestroyQueue(t, h)
      BY <2>1
    <3>2. h \in Handle /\ qid[h.slot] = h /\ ~ deleted[h.slot]
      BY <3>1 DEF IdInv, DestroyQueue, Stale
    <3>3. h # NoHandle
      BY <3>2, SlotsAssumption DEF NoHandle, Handle
    <3> QED BY <3>1, <3>2, <3>3 DEF DestroyQueue, AsleepAt
  <2>2. CASE \E s \in PrivSlots : ExitThread(t, s)
    <3>1. PICK s \in PrivSlots : ExitThread(t, s)
      BY <2>2
    <3>2. qid[s] \in Handle /\ qid[s].slot \notin PubSlots
      BY SlotsAssumption DEF IdInv, HomeInv
    <3> QED BY <3>1, <3>2 DEF ExitThread
  <2> QED BY <2>1, <2>2
<1> DEFINE s == h.slot
<1>2. s \in Slots
  BY DEF Handle
<1>3. /\ pc[t] = "idle" /\ Free(s) /\ deleted' = [deleted EXCEPT ![s] = TRUE]
      /\ pc'[t] = (IF nThreads[s] = 0 THEN "freeing" ELSE "bcast") /\ op'[t].h = h
      /\ \A u \in Threads : u # t => pc'[u] = pc[u] /\ op'[u] = op[u] /\ msg'[u] = msg[u]
  BY <1>1 DEF Destroy, NobodyWaits, Goto, RequestInv
<1>4. UNCHANGED <<next, prev, ends, qid, mqMutex, nThreads>>
  BY <1>1 DEF Destroy, listVars
<1>5. WaitersCounted'
  BY <1>3, <1>4, StillCounted DEF WaitsIn
<1>6. slotOf(t)' = s
  BY <1>3 DEF slotOf
<1>7. /\ \A r \in Slots : deleted[r] => deleted'[r]
      /\ deleted'[s] /\ mqMutex[s] = Nobody
  BY <1>2, <1>3 DEF IdInv, Free
<1>8. /\ pc'[t] \in {"idle", "bcast", "freeing"}
      /\ pc'[t] = "freeing" => nThreads'[s] = 0
  BY <1>3, <1>4
<1>9. s \in PubSlots => ~ AsleepAt(s)
  BY <1>1
<1> HIDE DEF s, SlotInv, SlotParts, TypeInv
<1> QED BY <1>3, <1>4, <1>5, <1>6, <1>7, <1>8, <1>9, Retires

LEMMA WakeDeletedSlots ==
  ASSUME SlotInv, NEW t \in Threads, WakeDeleted(t)
  PROVE  SlotParts'
<1> USE DEF SlotInv, SlotParts, TypeInv
<1> DEFINE s == slotOf(t)
<1>1. /\ pc[t] = "woken" /\ s \in Slots /\ mqMutex[s] = Nobody /\ deleted[s] /\ Leave(s)
      /\ pc'[t] \in {"idle", "freeing"}
      /\ pc'[t] = "freeing" => op' = op /\ nThreads'[s] = 0
  BY SlotType DEF WakeDeleted, Free, NobodyWaits, Return, Goto, RequestInv
<1>2. \A u \in Threads : u # t => pc'[u] = pc[u] /\ op'[u] = op[u] /\ msg'[u] = msg[u]
  BY DEF WakeDeleted, Return, Goto, RequestInv
<1>3. UNCHANGED <<next, prev, ends, qid, mqMutex, deleted>>
  BY DEF WakeDeleted, listVars
<1>4. WaitersCounted'
  BY <1>1, <1>2, OneLess DEF WaitsIn
<1>5. ~ AsleepAt(s)
  BY <1>1, Awake DEF WaitsIn
<1>6. pc'[t] = "freeing" => slotOf(t)' = s
  BY <1>1 DEF slotOf
<1>7. PICK r : r = s
  OBVIOUS
<1> HIDE DEF s, SlotInv, SlotParts, TypeInv
<1>8. /\ \A q \in Slots : deleted[q] => deleted'[q]
      /\ pc'[t] \in {"idle", "bcast", "freeing"}
      /\ pc'[t] = "freeing" => slotOf(t)' = r
      /\ pc'[t] = "freeing" /\ r \in PubSlots =>
           ~ AsleepAt(r) /\ deleted'[r] /\ mqMutex[r] = Nobody /\ nThreads'[r] = 0
  BY <1>1, <1>3, <1>5, <1>6, <1>7
<1> QED BY <1>2, <1>3, <1>4, <1>8, Retires

-----------------------------------------------------------------------------
(* The steps that renew a slot or move it from one list to the other.         *)
LEMMA InitQueueSlots ==
  ASSUME SlotInv, NEW t \in Threads, InitQueue(t)
  PROVE  SlotParts'
<1> USE DEF SlotInv, SlotParts, TypeInv
<1> DEFINE s == slotOf(t)
<1>1. /\ pc[t] = "init" /\ Working(t) /\ pc'[t] = "idle"
      /\ \A u \in Threads : u # t => pc'[u] = pc[u] /\ op'[u] = op[u]
  BY DEF InitQueue, Return, Goto, Working, RequestInv
<1>2. UNCHANGED <<next, prev, ends, mqMutex, msg>>
  BY DEF InitQueue
<1>3. s \in PubSlots /\ s \in Queues /\ s \in Slots /\ AsleepAt(s)
  BY <1>1, PubSlotsFinite DEF WorkInv, SleepInv, Dormant
<1>4. \A r \in Slots \ {s} : deleted'[r] = deleted[r] /\ qid'[r] = qid[r]
                             /\ nThreads'[r] = nThreads[r]
  BY DEF InitQueue, Renew, IdInv, CountInv
<1>5. nThreads'[s] = 0
  BY <1>3 DEF InitQueue, Renew, CountInv
<1>6. ChainsInv' /\ Queues' = Queues /\ Frees' = Frees
  <2>1. Linked(next', prev', ends', Queues, Frees)
    BY <1>2 DEF ChainsInv
  <2> QED BY <2>1, ChainsLinked
<1>7. ASSUME NEW u \in Threads, Working(u)'
      PROVE  u # t /\ Working(u) /\ pc'[u] = pc[u] /\ slotOf(u)' = slotOf(u)
  BY <1>1, <1>7 DEF Working, slotOf
<1>8. WorkInv'
  BY <1>6, <1>7 DEF WorkInv, Working
<1>9. \A r : Waiters(r)' = Waiters(r)
  BY <1>1 DEF Waiters, slotOf
<1>10. SleepInv'
  <2> SUFFICES ASSUME NEW r \in PubSlots, Dormant(r)' PROVE AsleepAt(r)'
    BY DEF SleepInv
  <2>1. Dormant(r)
    BY <1>6, <1>7 DEF Dormant
  <2>2. r # s
    <3> SUFFICES ASSUME r = s PROVE FALSE
      OBVIOUS
    <3>1. s \notin Frees
      BY <1>3, ListedSlots
    <3>2. PICK u \in Threads : Working(u)' /\ slotOf(u)' = s
      BY <1>6, <3>1 DEF Dormant
    <3> QED BY <1>1, <1>3, <1>7, <3>2 DEF WorkInv
  <2>3. deleted'[r] = deleted[r] /\ qid'[r] = qid[r]
    BY <1>4, <2>2, PubSlotsFinite
  <2> QED BY <1>2, <1>9, <2>1, <2>3 DEF SleepInv, AsleepAt
<1>11. GripInv'
  <2> SUFFICES ASSUME NEW u \in Threads, Grips(u)' PROVE (mqMutex[slotOf(u)] = u)'
    BY DEF GripInv
  <2>1. Grips(u) /\ slotOf(u)' = slotOf(u)
    BY <1>1, <1>2 DEF Grips, slotOf
  <2> QED BY <1>2, <2>1 DEF GripInv
<1>12. HomeInv'
  <2>1. \A r \in PrivSlots : r \in Slots \ {s}
    BY <1>3, SlotsAssumption
  <2> QED BY <1>4, <2>1 DEF HomeInv
<1>13. WaitersCounted'
  <2> SUFFICES ASSUME NEW r \in PubSlots PROVE nThreads'[r] = Cardinality(Waiters(r)')
    BY DEF WaitersCounted
  <2>1. CASE r = s
    <3>1. Waiters(r)' = {}
      BY <1>3, <1>9, <2>1 DEF AsleepAt
    <3> QED BY <1>5, <2>1, <3>1, FS_EmptySet
  <2>2. CASE r # s
    BY <1>4, <1>9, <2>2, PubSlotsFinite DEF WaitersCounted
  <2> QED BY <2>1, <2>2
<1> QED BY <1>6, <1>8, <1>10, <1>11, <1>12, <1>13

LEMMA SetupSlots ==
  ASSUME SlotInv, NEW s \in PrivSlots, SetupThread(s)
  PROVE  SlotParts'
<1> USE DEF SlotInv, SlotParts, TypeInv
<1>1. UNCHANGED <<pc, op, msg, next, prev, ends, mqMutex>>
  BY DEF SetupThread, threadVars
<1>2. s \in Slots /\ \A r \in PubSlots : r \in Slots /\ r # s
  BY SlotsAssumption
<1>3. \A r \in PubSlots : deleted'[r] = deleted[r] /\ qid'[r] = qid[r]
                          /\ nThreads'[r] = nThreads[r]
  BY <1>2 DEF SetupThread, Renew, IdInv, CountInv
<1>4. ChainsInv' /\ Queues' = Queues /\ Frees' = Frees
  <2>1. Linked(next', prev', ends', Queues, Frees)
    BY <1>1 DEF ChainsInv
  <2> QED BY <2>1, ChainsLinked
<1>5. WorkInv' /\ GripInv'
  BY <1>1, <1>4 DEF WorkInv, Working, GripInv, Grips, slotOf
<1>6. \A r \in PubSlots : (Dormant(r)' <=> Dormant(r)) /\ Waiters(r)' = Waiters(r)
  BY <1>1, <1>4 DEF Dormant, Working, Waiters, slotOf
<1>7. SleepInv' /\ WaitersCounted'
  BY <1>1, <1>3, <1>6 DEF SleepInv, AsleepAt, WaitersCounted
<1>8. HomeInv'
  <2>1. qid'[s].slot = s /\ \A r \in Slots : r # s => qid'[r] = qid[r]
    BY <1>2 DEF SetupThread, Renew, IdInv
  <2> QED BY <2>1 DEF HomeInv
<1> QED BY <1>4, <1>5, <1>7, <1>8

LEMMA CreateSlots ==
  ASSUME SlotsLeft, SlotInv, NEW t \in Threads, CreateQueue(t)
  PROVE  SlotParts'
<1> USE DEF SlotInv, SlotParts, TypeInv
<1>0. PICK s : s = ends.free
  OBVIOUS
<1>1. /\ pc[t] = "idle" /\ pc'[t] = "init" /\ op'[t].h.slot = s
      /\ \A u \in Threads : u # t => pc'[u] = pc[u] /\ op'[u] = op[u]
  BY <1>0 DEF CreateQueue, Goto, RequestInv
<1>2. UNCHANGED <<msg, mqMutex, deleted, qid, nThreads>>
  BY DEF CreateQueue, queueVars
<1>3. /\ s # NULL /\ Cardinality(Queues) < MaxOpen
      /\ ends'.free = next[s] /\ ends'.queue = s /\ ends'.last = ends.last
      /\ \A q \in PubSlots : prev'[q] = IF q = s THEN NULL
                                        ELSE IF q = ends.queue THEN s ELSE prev[q]
      /\ next' = [next EXCEPT ![s] = ends.queue]
  BY <1>0 DEF CreateQueue, LinkInv, Queues
<1>4. /\ Queues \subseteq PubSlots /\ Frees \subseteq PubSlots
      /\ Queues \cap Frees = {} /\ Queues \cup Frees = PubSlots
      /\ IsFiniteSet(Queues) /\ Cardinality(Queues) \in Nat
  BY ListedSlots
<1>5. s \in Frees /\ s \in PubSlots /\ s \notin Queues
  BY <1>0, <1>3, <1>4 DEF ChainsInv, Linked, IsList
<1>6. next'[s] = ends.queue /\ \A i \in PubSlots : i # s => next'[i] = next[i]
  BY <1>3, <1>5 DEF LinkInv
<1> DEFINE L == Queues \cup {s}
           F == Frees \ {s}
<1>7. IsList(PubSlots, NULL, next', s, L)
  <2>1. \A i \in Queues : next'[i] = next[i]
    BY <1>4, <1>5, <1>6
  <2> QED BY <1>5, <1>6, <2>1, PubSlotsFinite, ListPush DEF ChainsInv, Linked
<1>8. IsInverted(NULL, next', prev', s, L)
  <2>1. \A i \in Queues : next'[i] = next[i]
    BY <1>4, <1>5, <1>6
  <2>2. prev'[s] = NULL /\ \A i \in Queues : prev'[i] = IF i = ends.queue THEN s ELSE prev[i]
    BY <1>3, <1>4, <1>5
  <2> QED BY <1>5, <1>6, <2>1, <2>2, PubSlotsFinite, InvertedPush DEF ChainsInv, Linked
<1>9. IsList(PubSlots, NULL, next', next[s], F)
  <2>1. \A i \in Frees \ {s} : next'[i] = next[i]
    BY <1>4, <1>6
  <2>2. PICK hd : hd = next[s]
    OBVIOUS
  <2>3. IsList(PubSlots, NULL, next', hd, F)
    BY <1>0, <1>5, <2>1, <2>2, PubSlotsFinite, ListRemove DEF ChainsInv, Linked
  <2> QED BY <2>2, <2>3
<1>10. Cardinality(L) = Cardinality(Queues) + 1
  BY <1>4, <1>5, FS_AddElement
<1>11. F # {}
  (* A free slot is left: there are more slots than queues may be.            *)
  <2> SUFFICES ASSUME F = {} PROVE FALSE
    OBVIOUS
  <2>1. PubSlots = L
    BY <1>4, <1>5
  <2>2. Cardinality(PubSlots) = Cardinality(Queues) + 1
    BY <1>10, <2>1
  <2> HIDE DEF L, F
  <2> QED BY <1>3, <1>4, <2>2, BoundsAssumption, PubSlotsFinite DEF SlotsLeft
<1>12. next[s] # NULL /\ ends.last \in F /\ next'[ends.last] = NULL
  <2>1. next[s] # NULL
    BY <1>9, <1>11 DEF IsList
  <2>2. ends.last \in Frees /\ next[ends.last] = NULL
    BY DEF ChainsInv, Linked
  <2> QED BY <1>4, <1>6, <2>1, <2>2
<1>13. ChainsInv' /\ Queues' = L /\ Frees' = F
  <2>1. L \cap F = {} /\ L \cup F = PubSlots
    BY <1>4, <1>5
  <2>2. Cardinality(L) <= MaxOpen
    BY <1>3, <1>4, <1>10, BoundsAssumption
  <2> HIDE DEF L, F
  <2>3. Linked(next', prev', ends', L, F)
    BY <1>3, <1>7, <1>8, <1>9, <1>12, <2>1, <2>2 DEF Linked
  <2> QED BY <2>3, ChainsLinked
<1>14. ASSUME NEW u \in Threads, u # t
       PROVE  pc'[u] = pc[u] /\ slotOf(u)' = slotOf(u) /\ (Working(u)' <=> Working(u))
  BY <1>1, <1>14 DEF slotOf, Working
<1>15. slotOf(t)' = s
  BY <1>1 DEF slotOf
<1>16. \A u \in Threads : Working(u) => slotOf(u) # s
  BY <1>4, <1>5 DEF WorkInv
<1>17. WorkInv'
  <2>1. ASSUME NEW u \in Threads, Working(u)', slotOf(u)' \in PubSlots
        PROVE  slotOf(u)' \in Queues'
    BY <1>13, <1>14, <1>15, <2>1 DEF WorkInv
  <2>2. ASSUME NEW u \in Threads, pc'[u] = "init" PROVE slotOf(u)' \in PubSlots
    BY <1>5, <1>14, <1>15, <2>2 DEF WorkInv
  <2>3. ASSUME NEW u \in Threads, NEW v \in Threads, u # v, Working(u)', Working(v)',
               slotOf(u)' = slotOf(v)'
        PROVE  slotOf(u)' \notin PubSlots
    BY <1>14, <1>15, <1>16, <2>3 DEF WorkInv
  <2> QED BY <2>1, <2>2, <2>3 DEF WorkInv
<1>18. \A r : Waiters(r)' = Waiters(r)
  BY <1>1 DEF Waiters, slotOf
<1>19. SleepInv'
  <2> SUFFICES ASSUME NEW r \in PubSlots, Dormant(r)' PROVE AsleepAt(r)'
    BY DEF SleepInv
  <2>1. Dormant(r)
    BY <1>5, <1>13, <1>14, <1>15 DEF Dormant
  <2> QED BY <1>2, <1>18, <2>1 DEF SleepInv, AsleepAt
<1>20. GripInv'
  <2> SUFFICES ASSUME NEW u \in Threads, Grips(u)' PROVE (mqMutex[slotOf(u)] = u)'
    BY DEF GripInv
  <2>1. Grips(u) /\ slotOf(u)' = slotOf(u)
    BY <1>1, <1>2 DEF Grips, slotOf
  <2> QED BY <1>2, <2>1 DEF GripInv
<1>21. HomeInv' /\ WaitersCounted'
  BY <1>2, <1>18 DEF HomeInv, WaitersCounted
<1> QED BY <1>13, <1>17, <1>19, <1>20, <1>21

LEMMA DeallocLists ==
  ASSUME SlotInv, NEW t \in Threads, Dealloc(t), NEW s \in PubSlots, s = slotOf(t)
  PROVE  ChainsInv' /\ Queues' = Queues \ {s} /\ Frees' = Frees \cup {s}
<1> USE DEF SlotInv, SlotParts, TypeInv
<1>1. /\ Queues \subseteq PubSlots /\ Frees \subseteq PubSlots
      /\ Queues \cap Frees = {} /\ Queues \cup Frees = PubSlots
      /\ IsFiniteSet(Queues) /\ Cardinality(Queues) \in Nat
  BY ListedSlots
<1>2. s \in Queues /\ s \notin Frees
  BY <1>1 DEF Dealloc, WorkInv, Working
<1>3. ends.last \in Frees /\ next[ends.last] = NULL /\ ends.free # NULL /\ ends.last # s
  BY <1>2 DEF ChainsInv, Linked, IsList
<1>4. /\ \A q \in PubSlots : prev'[q] = IF q = next[s] THEN prev[s] ELSE prev[q]
      /\ \A q \in PubSlots : next'[q] = IF q = s THEN NULL
                                        ELSE IF q = ends.last THEN s
                                        ELSE IF q = prev[s] THEN next[s] ELSE next[q]
      /\ ends'.free = ends.free /\ ends'.last = s
      /\ ends'.queue = IF ends.queue = s THEN next[s] ELSE ends.queue
  BY <1>3 DEF Dealloc, Unlink
<1>5. prev[s] \notin Frees
  <2>1. CASE s = ends.queue
    BY <1>1, <1>2, <2>1, PubSlotsFinite DEF ChainsInv, Linked, IsInverted
  <2>2. CASE s # ends.queue
    <3>1. PICK p \in Queues : next[p] = s
      BY <1>2, <2>2 DEF ChainsInv, Linked, IsList
    <3> QED BY <1>1, <3>1, PubSlotsFinite DEF ChainsInv, Linked, IsInverted
  <2> QED BY <2>1, <2>2
<1>6. /\ IsList(PubSlots, NULL, next', ends'.queue, Queues \ {s})
      /\ IsInverted(NULL, next', prev', ends'.queue, Queues \ {s})
  <2>1. PICK hd : hd = ends'.queue
    OBVIOUS
  <2>2. TakesOut(s, next, prev, ends.queue, Queues, next', prev', hd)
    BY <1>1, <1>3, <1>4, <2>1 DEF TakesOut
  <2>3. /\ IsList(PubSlots, NULL, next', hd, Queues \ {s})
        /\ IsInverted(NULL, next', prev', hd, Queues \ {s})
    BY <1>2, <2>2, PubSlotsFinite, Unlinked DEF ChainsInv, Linked
  <2> QED BY <2>1, <2>3
<1>7. IsList(PubSlots, NULL, next', ends.free, Frees \cup {s})
  <2>1. PICK p \in Frees : p = ends.last
    BY <1>3
  <2>2. next'[s] = NULL /\ next'[p] = s /\ next[p] = NULL
    BY <1>1, <1>3, <1>4, <2>1
  <2>3. \A i \in Frees : i # p => next'[i] = next[i]
    BY <1>1, <1>2, <1>4, <1>5, <2>1
  <2> QED BY <1>2, <2>2, <2>3, PubSlotsFinite, ListAppend DEF ChainsInv, Linked
<1> DEFINE L == Queues \ {s}
           F == Frees \cup {s}
<1>8. L \cap F = {} /\ L \cup F = PubSlots /\ s \in F
  BY <1>1, <1>2
<1>9. Cardinality(L) <= MaxOpen
  <2>1. Cardinality(L) = Cardinality(Queues) - 1
    BY <1>1, <1>2, FS_RemoveElement
  <2> HIDE DEF L
  <2> QED BY <1>1, <2>1, BoundsAssumption DEF ChainsInv, Linked
<1> HIDE DEF L, F
<1>10. Linked(next', prev', ends', L, F)
  BY <1>4, <1>6, <1>7, <1>8, <1>9 DEF Linked, L, F
<1> QED BY <1>10, ChainsLinked DEF L, F

LEMMA DeallocSlots ==
  ASSUME SlotInv, NEW t \in Threads, Dealloc(t)
  PROVE  SlotParts'
<1> USE DEF SlotInv, SlotParts, TypeInv
<1>0. PICK s : s = slotOf(t)
  OBVIOUS
<1>1. /\ pc[t] = "freeing" /\ pc'[t] = "idle" /\ Working(t)
      /\ \A u \in Threads : u # t => pc'[u] = pc[u] /\ op'[u] = op[u]
  BY DEF Dealloc, Return, Goto, Working, RequestInv
<1>2. UNCHANGED <<msg, mqMutex, deleted, qid, nThreads>>
  BY DEF Dealloc
<1>3. /\ ChainsInv' /\ Frees' \subseteq Frees \cup {s}
      /\ \A r \in Queues : r # s => r \in Queues'
  <2>1. CASE s \in PubSlots
    BY <1>0, <2>1, DeallocLists
  <2>2. CASE s \notin PubSlots
    <3>1. UNCHANGED <<next, prev, ends>>
      BY <1>0, <2>2 DEF Dealloc
    <3>2. Linked(next', prev', ends', Queues, Frees)
      BY <3>1 DEF ChainsInv
    <3> QED BY <3>2, ChainsLinked
  <2> QED BY <2>1, <2>2
<1>4. ASSUME NEW u \in Threads, Working(u)'
      PROVE  /\ u # t /\ Working(u) /\ pc'[u] = pc[u] /\ slotOf(u)' = slotOf(u)
             /\ slotOf(u) \in PubSlots => slotOf(u) # s
  BY <1>0, <1>1, <1>4 DEF WorkInv, Working, slotOf
<1>5. WorkInv'
  <2>1. ASSUME NEW u \in Threads, Working(u)', slotOf(u)' \in PubSlots
        PROVE  slotOf(u)' \in Queues'
    BY <1>3, <1>4, <2>1 DEF WorkInv
  <2>2. ASSUME NEW u \in Threads, pc'[u] = "init" PROVE slotOf(u)' \in PubSlots
    BY <1>4, <2>2 DEF WorkInv, Working
  <2>3. ASSUME NEW u \in Threads, NEW v \in Threads, u # v, Working(u)', Working(v)',
               slotOf(u)' = slotOf(v)'
        PROVE  slotOf(u)' \notin PubSlots
    BY <1>4, <2>3 DEF WorkInv
  <2> QED BY <2>1, <2>2, <2>3 DEF WorkInv
<1>6. \A r : Waiters(r)' = Waiters(r)
  BY <1>1 DEF Waiters, slotOf
<1>7. SleepInv'
  <2> SUFFICES ASSUME NEW r \in PubSlots, Dormant(r)' PROVE AsleepAt(r)'
    BY DEF SleepInv
  <2>1. Dormant(r)
    BY <1>0, <1>1, <1>3, <1>4 DEF Dormant
  <2> QED BY <1>2, <1>6, <2>1 DEF SleepInv, AsleepAt
<1>8. GripInv'
  <2> SUFFICES ASSUME NEW u \in Threads, Grips(u)' PROVE (mqMutex[slotOf(u)] = u)'
    BY DEF GripInv
  <2>1. Grips(u) /\ slotOf(u)' = slotOf(u)
    BY <1>1, <1>2 DEF Grips, slotOf
  <2> QED BY <1>2, <2>1 DEF GripInv
<1>9. HomeInv' /\ WaitersCounted'
  BY <1>2, <1>6 DEF HomeInv, WaitersCounted
<1> QED BY <1>3, <1>5, <1>7, <1>8, <1>9

LEMMA NextSlots ==
  ASSUME SlotsLeft, SlotInv, [Next]_vars
  PROVE  SlotInv'
<1>1. TypeInv'
  BY NextType DEF SlotInv
<1>2. SlotParts'
  <2>1. ASSUME NEW t \in Threads, Request(t) PROVE SlotParts'
    BY <2>1, StartSlots, CreateSlots, DestroySlots
       DEF Request, CallSend, CallGet, CallPeek
  <2>2. ASSUME NEW t \in Threads, Continue(t) \/ Spurious(t) PROVE SlotParts'
    BY <2>2, SendSlots, TrySlots, PeekSlots, InterruptedSlots, WakeDeletedSlots,
       RetestSlots, GoesOnSlots, InterruptSlots, AcceptSlots, RetrySlots, RepeekSlots,
       BroadcastSlots, InitQueueSlots, DeallocSlots DEF Continue
  <2>3. ASSUME Next PROVE SlotParts'
    BY <2>1, <2>2, <2>3, SetupSlots, SignalSlots DEF Next
  <2> QED BY <2>3, SlotStutter
<1> QED BY <1>1, <1>2 DEF SlotInv

-----------------------------------------------------------------------------
(* init_mq_table links all slots into the free list.                          *)
LEMMA InitSlots ==
  ASSUME SlotsLeft, Init
  PROVE  SlotInv
<1>1. TypeInv
  BY InitType
<1> DEFINE n == Len(table)
           idx == [s \in PubSlots |-> CHOOSE j \in 1 .. Len(table) : table[j] = s]
<1>2. /\ n \in Nat /\ \A j \in 1 .. n : table[j] \in PubSlots
      /\ \A i, j \in 1 .. n : table[i] = table[j] => i = j
  BY TableEnumerates
<1>3. \A s \in PubSlots : idx[s] \in 1 .. n /\ table[idx[s]] = s
  BY TableEnumerates
<1>4. \A s \in PubSlots : next[s] = IF idx[s] = n THEN NULL ELSE table[idx[s] + 1]
  BY DEF Init
<1>5. n >= 1 /\ table # <<>>
  <2>1. PubSlots # {}
    BY FS_EmptySet, BoundsAssumption DEF SlotsLeft
  <2> HIDE DEF idx
  <2>2. n >= 1
    BY <1>2, <1>3, <2>1
  <2> QED BY <2>2
<1>6. ends.queue = NULL /\ ends.free = table[1] /\ ends.last = table[n]
  BY <1>5, TableEnumerates DEF Init, Last
<1> HIDE DEF n, idx
<1>7. \A j \in 1 .. n : idx[table[j]] = j
  BY <1>2, <1>3
<1>8. IsList(PubSlots, NULL, next, ends.free, PubSlots)
  <2>1. table[1] \in PubSlots /\ table[1] # NULL /\ idx[table[1]] = 1
    BY <1>2, <1>5, <1>7, PubSlotsFinite
  <2>2. ASSUME NEW i \in PubSlots, next[i] # NULL
        PROVE  /\ next[i] \in PubSlots /\ idx[next[i]] = idx[i] + 1 /\ next[i] # table[1]
    <3>1. idx[i] # n /\ next[i] = table[idx[i] + 1]
      BY <1>4, <2>2
    <3>2. idx[i] + 1 \in 1 .. n /\ idx[i] \in 1 .. n
      BY <1>2, <1>3, <3>1
    <3> QED BY <1>2, <1>7, <2>1, <3>1, <3>2
  <2>3. \A i \in PubSlots : i # table[1] => \E j \in PubSlots : next[j] = i
    <3> SUFFICES ASSUME NEW i \in PubSlots, i # table[1]
                 PROVE  \E j \in PubSlots : next[j] = i
      OBVIOUS
    <3>1. idx[i] \in 1 .. n /\ idx[i] # 1
      BY <1>3
    <3>2. idx[i] - 1 \in 1 .. n /\ idx[i] - 1 # n /\ (idx[i] - 1) + 1 = idx[i]
      BY <1>2, <3>1
    <3>3. next[table[idx[i] - 1]] = i
      BY <1>2, <1>3, <1>4, <1>7, <3>2
    <3> QED BY <1>2, <3>2, <3>3
  <2>4. \A i, j \in PubSlots : next[i] = next[j] /\ next[i] # NULL => i = j
    <3> SUFFICES ASSUME NEW i \in PubSlots, NEW j \in PubSlots, next[i] = next[j],
                        next[i] # NULL
                 PROVE  i = j
      OBVIOUS
    <3>1. idx[i] + 1 = idx[j] + 1
      BY <2>2
    <3>2. idx[i] \in 1 .. n /\ idx[j] \in 1 .. n
      BY <1>3
    <3>3. idx[i] = idx[j]
      BY <1>2, <3>1, <3>2
    <3> QED BY <1>3, <3>3
  <2>5. Ranked(PubSlots, next, PubSlots)
    <3>1. idx \in [PubSlots -> Int]
      BY <1>2, <1>3 DEF idx
    <3>2. \A i \in PubSlots : next[i] \in PubSlots => idx[i] < idx[next[i]]
      BY <1>2, <1>3, <2>2, PubSlotsFinite
    <3> QED BY <3>1, <3>2 DEF Ranked
  <2> QED BY <1>6, <2>1, <2>2, <2>3, <2>4, <2>5 DEF IsList
<1>9. IsList(PubSlots, NULL, next, NULL, {}) /\ IsInverted(NULL, next, prev, NULL, {})
  <2>1. [s \in PubSlots |-> 0] \in [PubSlots -> Int]
    OBVIOUS
  <2>2. Ranked(PubSlots, next, {})
    BY <2>1 DEF Ranked
  <2> QED BY <2>2 DEF IsList, IsInverted
<1>10. table[n] \in PubSlots /\ next[table[n]] = NULL
  BY <1>2, <1>4, <1>5, <1>7
<1>11. Queues = {} /\ Frees = PubSlots
  BY <1>6, <1>8, <1>9, ChainIsList, ChainsAre
<1>12. ChainsInv
  <2>1. Cardinality({}) <= MaxOpen
    BY FS_EmptySet, BoundsAssumption
  <2> QED BY <1>6, <1>8, <1>9, <1>10, <1>11, <2>1 DEF ChainsInv, Linked
<1>13. \A t \in Threads : pc[t] = "idle"
  BY DEF Init
<1>14. WorkInv /\ GripInv /\ HomeInv
  BY <1>13, SlotsAssumption DEF WorkInv, Working, GripInv, Grips, HomeInv, Init
<1>15. \A s : Waiters(s) = {}
  BY <1>13 DEF Waiters
<1>16. SleepInv
  BY <1>15, PubSlotsFinite DEF SleepInv, AsleepAt, Init
<1>17. WaitersCounted
  BY <1>15, FS_EmptySet, PubSlotsFinite DEF WaitersCounted, Init
<1> QED BY <1>1, <1>12, <1>14, <1>16, <1>17 DEF SlotInv, SlotParts

(* q->n_threads is the number of threads inside wait_on_queue, through        *)
(* destructions, reuse of the slot, interrupts and cancellations, while fewer *)
(* public queues exist than mq_table has slots.                               *)
THEOREM CountIsRight ==
  ASSUME SlotsLeft
  PROVE  Spec => []WaitersCounted
<1>1. Init => SlotInv
  BY InitSlots
<1>2. SlotInv /\ [Next]_vars => SlotInv'
  BY NextSlots
<1> QED BY <1>1, <1>2, SlotInvImplies, PTL DEF Spec

(* A slot that waits to be reused, or is being initialised, has nobody left   *)
(* in it (comments of queue_dealloc and destroy_message_queue).               *)
THEOREM FreeSlotIsUnused ==
  ASSUME SlotsLeft
  PROVE  Spec => []FreeSlotUnused
<1>1. Init => SlotInv
  BY InitSlots
<1>2. SlotInv /\ [Next]_vars => SlotInv'
  BY NextSlots
<1> QED BY <1>1, <1>2, SlotInvImplies, PTL DEF Spec

(* mq_first_queue and mq_first_free partition the public slots, and a queue   *)
(* is deallocated once.                                                       *)
THEOREM SlotListsStayApart ==
  ASSUME SlotsLeft
  PROVE  Spec => []ListsPartition
<1>1. Init => SlotInv
  BY InitSlots
<1>2. SlotInv /\ [Next]_vars => SlotInv'
  BY NextSlots
<1> QED BY <1>1, <1>2, SlotInvImplies, PTL DEF Spec

-----------------------------------------------------------------------------
(* Freed cells and foreign mutexes.  A request between TRY and ACCEPT stands  *)
(* on a cell of the chain, since who changes the chain of a queue has its     *)
(* mutex, or deallocates it when nobody can reach it.  The latter fails for a *)
(* private queue whose entry is given to a new thread while a receiver of the *)
(* old one is about to deallocate it.                                         *)
RenewalWaits ==
  \A t \in Threads : pc[t] = "freeing" /\ slotOf(t) \in PrivSlots => deleted[slotOf(t)]

Placed(t) ==
  pc[t] \in {"got", "go"} /\ (op[t].kind = "get" \/ msg[t] # "last")
    => InChain(slotOf(t), cur[t])
PlaceInv == \A t \in Threads : Placed(t)

FaultFreeInv == LockedInv /\ SlotInv /\ PlaceInv /\ ~ fault

Untouched(t) ==
  \A u \in Threads : u # t /\ pc[u] \in {"got", "go"} =>
    cells'[slotOf(u)] = cells[slotOf(u)]

LEMMA Touches ==
  ASSUME LockedInv, NEW t, NEW s \in Slots,
         Free(s) \/ mqMutex[s] = t \/ deleted[s],
         \A r \in Slots : r # s => cells'[r] = cells[r]
  PROVE  Untouched(t)
<1> SUFFICES ASSUME NEW u \in Threads, u # t, pc[u] \in {"got", "go"}
             PROVE  cells'[slotOf(u)] = cells[slotOf(u)]
  BY DEF Untouched
<1>1. slotOf(u) \in Slots /\ mqMutex[slotOf(u)] = u /\ ~ deleted[slotOf(u)]
  BY SlotType DEF LockedInv, HoldingInv, Holds, TypeInv
<1> QED BY <1>1, ThreadsAssumption DEF Free

LEMMA StaysPlaced ==
  ASSUME PlaceInv, NEW t, Untouched(t), Placed(t)',
         \A u \in Threads : u # t =>
           /\ op'[u] = op[u] /\ cur'[u] = cur[u] /\ msg'[u] = msg[u]
           /\ pc'[u] = pc[u] \/ pc'[u] \notin {"got", "go"}
  PROVE  PlaceInv'
<1> SUFFICES ASSUME NEW u \in Threads, u # t PROVE Placed(u)'
  BY DEF PlaceInv
<1>1. CASE pc'[u] \notin {"got", "go"}
  BY <1>1 DEF Placed
<1>2. CASE pc'[u] \in {"got", "go"}
  <2>1. pc'[u] = pc[u] /\ cells'[slotOf(u)] = cells[slotOf(u)] /\ slotOf(u)' = slotOf(u)
    BY <1>2 DEF Untouched, slotOf
  <2>2. InChain(slotOf(u), cur[u])' <=> InChain(slotOf(u), cur[u])
    BY <2>1 DEF InChain
  <2> QED BY <2>1, <2>2 DEF PlaceInv, Placed
<1> QED BY <1>1, <1>2

LEMMA OnFirst ==
  ASSUME CellInv, NEW s \in Slots, cells[s] # <<>>
  PROVE  InChain(s, Head(cells[s]).n)
<1>1. 1 \in 1 .. Len(cells[s]) /\ Head(cells[s]) = cells[s][1]
  BY HeadTailProperties, LenProperties, EmptySeq DEF CellInv
<1> QED BY <1>1 DEF InChain

LEMMA OnNext ==
  ASSUME CellInv, NEW s \in Slots, NEW n, InChain(s, n), n # Last(cells[s]).n
  PROVE  InChain(s, cells[s][IndexOf(s, n) + 1].n)
<1> DEFINE i == IndexOf(s, n)
<1>1. Len(cells[s]) \in Nat
  BY LenProperties DEF CellInv
<1>2. i \in 1 .. Len(cells[s]) /\ cells[s][i].n = n
  BY ChainIndex
<1>3. i # Len(cells[s])
  BY <1>2 DEF Last
<1> HIDE DEF i
<1>4. i + 1 \in 1 .. Len(cells[s])
  BY <1>1, <1>2, <1>3
<1> QED BY <1>4 DEF InChain, i

(* The steps of a thread that leave the chains alone, or have the mutex.      *)
LEMMA LockingPlaces ==
  ASSUME FaultFreeInv, NEW t \in Threads,
         SendMessage(t) \/ TryMessage(t) \/ PeekMessage(t) \/ WakeRetest(t)
  PROVE  PlaceInv' /\ ~ fault'
<1> USE DEF FaultFreeInv, LockedInv, TypeInv
<1> DEFINE s == slotOf(t)
<1>1. s \in Slots /\ Free(s) /\ pc[t] \in {"send", "try", "peek", "woken"}
  BY SlotType DEF SendMessage, TryMessage, PeekMessage, WakeRetest
<1>2. \A r \in Slots : r # s => cells'[r] = cells[r]
  BY <1>1 DEF SendMessage, TryMessage, PeekMessage, WakeRetest, ExistenceError, Suspend,
     Put, TakeFirst, CellInv
<1>3. \A u \in Threads : u # t =>
        op'[u] = op[u] /\ cur'[u] = cur[u] /\ msg'[u] = msg[u] /\ pc'[u] = pc[u]
  <2>1. \A u \in Threads : u # t => op'[u] = op[u] /\ pc'[u] = pc[u]
    BY DEF SendMessage, TryMessage, PeekMessage, WakeRetest, ExistenceError, Suspend,
       Put, TakeFirst, Return, Goto, RequestInv
  <2>2. \A u \in Threads : u # t => cur'[u] = cur[u] /\ msg'[u] = msg[u]
    BY DEF SendMessage, TryMessage, PeekMessage, WakeRetest, ExistenceError, Suspend,
       Put, TakeFirst, CellInv
  <2> QED BY <2>1, <2>2
<1>4. \/ pc'[t] \notin {"got", "go"}
      \/ op' = op /\ op[t].kind = "peek" /\ msg'[t] = "last"
      \/ op' = op /\ cells' = cells /\ cells[s] # <<>> /\ cur'[t] = Head(cells[s]).n
  <2>1. CASE SendMessage(t)
    BY <2>1 DEF SendMessage, ExistenceError, Suspend, Put, Return, Goto, RequestInv
  <2>2. CASE TryMessage(t)
    BY <2>2 DEF TryMessage, ExistenceError, Suspend, TakeFirst, Return, Goto, RequestInv,
       CellInv
  <2>3. CASE PeekMessage(t)
    <3>1. op[t].kind = "peek"
      BY <2>3 DEF PeekMessage, KindInv, GoodKind
    <3> QED BY <2>3, <3>1 DEF PeekMessage, ExistenceError, TakeFirst, Return, Goto,
               RequestInv, CellInv
  <2>4. CASE WakeRetest(t)
    BY <2>4 DEF WakeRetest, Suspend, Put, TakeFirst, Goto, RequestInv, CellInv
  <2> QED BY <2>1, <2>2, <2>3, <2>4
<1>5. Placed(t)'
  <2>1. CASE op' = op /\ cells' = cells /\ cells[s] # <<>> /\ cur'[t] = Head(cells[s]).n
    <3>1. InChain(s, cur'[t])
      BY <1>1, <2>1, OnFirst
    <3>2. InChain(slotOf(t), cur[t])'
      BY <2>1, <3>1 DEF InChain, slotOf
    <3> QED BY <3>2 DEF Placed
  <2>2. CASE pc'[t] \notin {"got", "go"}
    BY <2>2 DEF Placed
  <2>3. CASE op' = op /\ op[t].kind = "peek" /\ msg'[t] = "last"
    BY <2>3 DEF Placed
  <2> QED BY <1>4, <2>1, <2>2, <2>3
<1>6. Untouched(t)
  <2> HIDE DEF s
  <2> QED BY <1>1, <1>2, Touches
<1>7. ~ fault'
  BY DEF SendMessage, TryMessage, PeekMessage, WakeRetest
<1> QED BY <1>3, <1>5, <1>6, <1>7, StaysPlaced

LEMMA ReadingPlaces ==
  ASSUME FaultFreeInv, NEW t \in Threads,
         AcceptMessage(t) \/ RetryMessage(t) \/ RepeekMessage(t) \/ UnlockQueue(t)
  PROVE  PlaceInv' /\ ~ fault'
<1> USE DEF FaultFreeInv, LockedInv, TypeInv
<1> DEFINE s == slotOf(t)
<1>1. pc[t] = "go" /\ s \in Slots /\ mqMutex[s] = t
  BY SlotType DEF AcceptMessage, RetryMessage, RepeekMessage, UnlockQueue, HoldingInv, Holds
<1>2. op[t].kind = "get" \/ msg[t] # "last" => InChain(s, cur[t])
  BY <1>1 DEF PlaceInv, Placed
<1>3. \A r \in Slots : r # s => cells'[r] = cells[r]
  BY <1>1 DEF AcceptMessage, RetryMessage, RepeekMessage, UnlockQueue, CellInv, queueVars
<1>4. \A u \in Threads : u # t =>
        op'[u] = op[u] /\ cur'[u] = cur[u] /\ msg'[u] = msg[u] /\ pc'[u] = pc[u]
  <2>1. \A u \in Threads : u # t => op'[u] = op[u] /\ pc'[u] = pc[u]
    BY DEF AcceptMessage, RetryMessage, RepeekMessage, UnlockQueue, Suspend, Return, Goto,
       RequestInv
  <2>2. \A u \in Threads : u # t => cur'[u] = cur[u] /\ msg'[u] = msg[u]
    BY DEF AcceptMessage, RetryMessage, RepeekMessage, UnlockQueue, CellInv
  <2> QED BY <2>1, <2>2
<1>5. /\ ~ fault'
      /\ \/ pc'[t] \notin {"got", "go"}
         \/ op' = op /\ op[t].kind = "peek" /\ msg'[t] = "last"
         \/ /\ op' = op /\ cells' = cells /\ InChain(s, cur[t]) /\ cur[t] # Last(cells[s]).n
            /\ cur'[t] = cells[s][IndexOf(s, cur[t]) + 1].n
  <2>1. CASE AcceptMessage(t)
    BY <1>1, <1>2, <2>1 DEF AcceptMessage, OwnsMutex, Return, Goto, RequestInv
  <2>2. CASE RetryMessage(t)
    BY <1>2, <2>2 DEF RetryMessage, Suspend, Goto, RequestInv, CellInv
  <2>3. CASE RepeekMessage(t)
    BY <1>2, <2>3 DEF RepeekMessage, Goto, RequestInv, CellInv, queueVars
  <2>4. CASE UnlockQueue(t)
    BY <2>4 DEF UnlockQueue, Return, Goto, RequestInv
  <2> QED BY <2>1, <2>2, <2>3, <2>4
<1>6. Placed(t)'
  <2>1. CASE /\ op' = op /\ cells' = cells /\ InChain(s, cur[t]) /\ cur[t] # Last(cells[s]).n
             /\ cur'[t] = cells[s][IndexOf(s, cur[t]) + 1].n
    <3>1. InChain(s, cur'[t])
      BY <1>1, <2>1, OnNext
    <3>2. InChain(slotOf(t), cur[t])'
      BY <2>1, <3>1 DEF InChain, slotOf
    <3> QED BY <3>2 DEF Placed
  <2>2. CASE pc'[t] \notin {"got", "go"}
    BY <2>2 DEF Placed
  <2>3. CASE op' = op /\ op[t].kind = "peek" /\ msg'[t] = "last"
    BY <2>3 DEF Placed
  <2> QED BY <1>5, <2>1, <2>2, <2>3
<1>7. Untouched(t)
  <2> HIDE DEF s
  <2> QED BY <1>1, <1>3, Touches
<1> QED BY <1>4, <1>5, <1>6, <1>7, StaysPlaced

(* A queue that is deallocated, and an initialised one, has no reader.        *)
LEMMA RenewingPlaces ==
  ASSUME FaultFreeInv, RenewalWaits, NEW t,
         \/ t \in Threads /\ (InitQueue(t) \/ Dealloc(t))
         \/ t = Nobody /\ \E p \in PrivSlots : SetupThread(p)
  PROVE  PlaceInv' /\ ~ fault'
<1> USE DEF FaultFreeInv, LockedInv, TypeInv
<1>1. PICK s \in Slots : /\ Free(s) \/ deleted[s]
                         /\ \A r \in Slots : r # s => cells'[r] = cells[r]
  <2>1. CASE t \in Threads /\ InitQueue(t)
    <3>1. slotOf(t) \in Slots
      BY <2>1, SlotType DEF InitQueue
    <3> QED BY <2>1, <3>1 DEF InitQueue, Renew, CellInv
  <2>2. CASE t \in Threads /\ Dealloc(t)
    <3>1. slotOf(t) \in Slots /\ pc[t] = "freeing" /\ Working(t)
      BY <2>2, SlotType DEF Dealloc, Working
    <3>2. Free(slotOf(t)) \/ deleted[slotOf(t)]
      BY <2>2, <3>1 DEF SlotInv, SlotParts, SleepInv, Dormant, AsleepAt, Free, RenewalWaits
    <3> QED BY <2>2, <3>1, <3>2 DEF Dealloc, CellInv
  <2>3. CASE \E p \in PrivSlots : SetupThread(p)
    BY <2>3 DEF SetupThread, Renew, CellInv
  <2> QED BY <2>1, <2>2, <2>3
<1>2. Untouched(t)
  BY <1>1, Touches
<1>3. \A u \in Threads : u # t => op'[u] = op[u] /\ pc'[u] = pc[u]
  BY DEF InitQueue, Dealloc, SetupThread, Return, Goto, RequestInv, threadVars
<1>4. UNCHANGED <<cur, msg, fault>>
  BY DEF InitQueue, Dealloc, SetupThread, threadVars
<1>5. CASE t \in Threads
  <2>1. pc'[t] = "idle"
    BY <1>5, ThreadsAssumption DEF InitQueue, Dealloc, Return, Goto, RequestInv
  <2>2. Placed(t)'
    BY <2>1 DEF Placed
  <2> QED BY <1>2, <1>3, <1>4, <2>2, StaysPlaced
<1>6. CASE t \notin Threads
  <2> SUFFICES ASSUME NEW u \in Threads PROVE Placed(u)'
    BY <1>4 DEF PlaceInv
  <2>1. u # t
    BY <1>6
  <2>2. op'[u] = op[u] /\ pc'[u] = pc[u] /\ slotOf(u)' = slotOf(u)
    BY <1>3, <2>1 DEF slotOf
  <2>3. CASE pc[u] \in {"got", "go"}
    <3>1. cells'[slotOf(u)] = cells[slotOf(u)]
      BY <1>2, <2>1, <2>3 DEF Untouched
    <3>2. InChain(slotOf(u), cur[u])' <=> InChain(slotOf(u), cur[u])
      BY <1>4, <2>2, <3>1 DEF InChain
    <3> QED BY <1>4, <2>2, <3>2 DEF PlaceInv, Placed
  <2>4. CASE pc[u] \notin {"got", "go"}
    BY <2>2, <2>4 DEF Placed
  <2> QED BY <2>3, <2>4
<1> QED BY <1>5, <1>6

(* The other steps.                                                           *)
LEMMA OtherPlaces ==
  ASSUME PlaceInv, ~ fault, UNCHANGED <<cur, msg, cells, fault>>,
         \A u \in Threads :
           \/ pc'[u] \notin {"got", "go"}
           \/ op'[u] = op[u] /\ pc[u] \in {"got", "go"}
  PROVE  PlaceInv' /\ ~ fault'
<1> SUFFICES ASSUME NEW u \in Threads PROVE Placed(u)'
  BY DEF PlaceInv
<1>1. CASE pc'[u] \notin {"got", "go"}
  BY <1>1 DEF Placed
<1>2. CASE op'[u] = op[u] /\ pc[u] \in {"got", "go"}
  BY <1>2 DEF PlaceInv, Placed, InChain, slotOf
<1> QED BY <1>1, <1>2

LEMMA NextPlaced ==
  ASSUME SlotsLeft, SignalKinds = {}, FaultFreeInv, RenewalWaits, [Next]_vars
  PROVE  FaultFreeInv'
<1> USE DEF FaultFreeInv
<1>1. LockedInv' /\ SlotInv'
  BY NextLocked, NextSlots
<1> USE DEF LockedInv, TypeInv
<1>2. PlaceInv' /\ ~ fault'
  <2>1. ASSUME NEW t \in Threads,
               \/ Request(t) \/ WakeDeleted(t) \/ Resume(t) \/ Spurious(t) \/ Broadcast(t)
        PROVE  PlaceInv' /\ ~ fault'
    <3>1. UNCHANGED <<cur, msg, cells, fault>>
      BY <2>1 DEF Request, WakeDeleted, Resume, Spurious, Broadcast, CallSend, CallGet,
         CallPeek, Start, CreateQueue, DestroyQueue, ExitThread, Destroy, queueVars
    <3>2. ASSUME NEW u \in Threads
          PROVE  \/ pc'[u] \notin {"got", "go"}
                 \/ op'[u] = op[u] /\ pc[u] \in {"got", "go"}
      <4>1. CASE Request(t)
        BY <4>1 DEF Request, CallSend, CallGet, CallPeek, Start, CreateQueue,
           DestroyQueue, ExitThread, Destroy, Goto, RequestInv
      <4>2. CASE WakeDeleted(t)
        BY <4>2 DEF WakeDeleted, Return, Goto, RequestInv
      <4>3. CASE Resume(t) \/ Spurious(t)
        BY <4>3 DEF Resume, Spurious, Goto, RequestInv
      <4>4. CASE Broadcast(t)
        BY <4>4 DEF Broadcast, RequestInv
      <4> QED BY <2>1, <4>1, <4>2, <4>3, <4>4
    <3> QED BY <3>1, <3>2, OtherPlaces
  <2>2. ASSUME NEW t \in Threads PROVE ~ WakeInterrupted(t) /\ ~ HandleInterrupt(t)
    BY DEF NoInterrupts, WakeInterrupted, HandleInterrupt
  <2>3. ASSUME NEW t \in Threads PROVE ~ ThreadInterrupt(t)
    BY DEF NoInterrupts, ThreadInterrupt
  <2>4. ASSUME NEW t \in Threads, Continue(t) \/ Spurious(t) \/ Request(t)
        PROVE  PlaceInv' /\ ~ fault'
    BY <2>1, <2>2, <2>4, LockingPlaces, ReadingPlaces, RenewingPlaces DEF Continue
  <2>5. ASSUME NEW s \in PrivSlots, SetupThread(s) PROVE PlaceInv' /\ ~ fault'
    BY <2>5, RenewingPlaces
  <2>6. CASE UNCHANGED vars
    BY <2>6, OtherPlaces DEF vars, threadVars, queueVars
  <2>7. CASE Next
    BY <2>3, <2>4, <2>5, <2>7 DEF Next
  <2> QED BY <2>6, <2>7
<1> QED BY <1>1, <1>2

(* Without signals no request touches a freed cell or releases a mutex it     *)
(* does not hold, as long as no private queue is given to a new thread while  *)
(* a receiver of the old one still has to deallocate it.                      *)
THEOREM NothingFreedIsTouched ==
  ASSUME SlotsLeft, SignalKinds = {}
  PROVE  Spec /\ []RenewalWaits => []NoFault
<1>1. Init => FaultFreeInv
  <2>1. Init => PlaceInv /\ ~ fault
    BY DEF Init, PlaceInv, Placed
  <2> QED BY <2>1, InitLocked, InitSlots DEF FaultFreeInv
<1>2. FaultFreeInv /\ RenewalWaits /\ [Next]_vars => FaultFreeInv'
  BY NextPlaced
<1>3. FaultFreeInv => NoFault
  BY DEF FaultFreeInv, NoFault
<1> QED BY <1>1, <1>2, <1>3, PTL DEF Spec
-----------------------------------------------------------------------------
(* The abstract queues.  A request in progress carries a stamp that no chain  *)
(* and no earlier receipt has; a receiver has passed only cells of another    *)
(* kind; a request that suspended is served by the queue of its id or, by     *)
(* then, a deleted one; and every creation uses an id of its own.             *)
Pending(t) == op[t].kind = "send" /\ pc[t] \in {"send", "wait", "woken"}
Unseen(n) == (\A s \in Slots : ~ InChain(s, n)) /\ \A g \in got : g.n # n
StampInv ==
  /\ \A t \in Threads : Pending(t) =>
       /\ op[t].n <= calls.send /\ Unseen(op[t].n)
       /\ \A u \in Threads : u # t /\ Pending(u) => op[u].n # op[t].n
  /\ \A s \in Slots : \A i, j \in 1 .. Len(cells[s]) :
       /\ cells[s][i].n <= calls.send
       /\ cells[s][i].n = cells[s][j].n => i = j
  /\ \A g \in got : g.n \in 1 .. calls.send

Reads(t) == pc[t] \in {"got", "go"} /\ op[t].kind = "get"
Stands(t, j) ==
  /\ cells[slotOf(t)][j].n = cur[t] /\ cells[slotOf(t)][j].kind = msg[t]
  /\ \A b \in 1 .. j - 1 : cells[slotOf(t)][b].kind # op[t].want
WalkInv == \A t \in Threads : Reads(t) => \E j \in 1 .. Len(cells[slotOf(t)]) : Stands(t, j)

Asks(t) == pc[t] \in {"wait", "woken", "got", "go"}
ServedInv == \A t \in Threads : Asks(t) => op[t].h = qid[slotOf(t)] \/ deleted[slotOf(t)]

Made(s) == IF s \in PubSlots THEN incarn[s] + 1 ELSE incarn[s]
Awaited(s) == \E t \in Threads : pc[t] = "init" /\ slotOf(t) = s
Named(s) ==
  /\ qid[s] = [slot |-> s, incarn |-> incarn[s]]
  /\ \A h \in used : h.slot = s => h.incarn <= incarn[s]
  /\ Made(s) <= calls.create
  /\ Awaited(s) => Made(s) < calls.create
Unnamed(s) ==
  /\ s \in PubSlots /\ qid[s] = NoHandle /\ incarn[s] = IncMask
  /\ \A h \in used : h.slot # s
  /\ Awaited(s) => calls.create >= 1
CreationInv == calls.create <= MaxCreates /\ \A s \in Slots : Named(s) \/ Unnamed(s)

QueueParts == RenewalWaits /\ StampInv /\ WalkInv /\ ServedInv /\ CreationInv
QueueInv == FaultFreeInv /\ QueueParts

(* Fewer creations than incarnations: no id comes back.                       *)
IdsLast == IF PrivSlots = {} THEN MaxCreates <= IncMask + 1 ELSE MaxCreates <= IncMask

(* No thread of the old queue is left in a private slot given to a new thread. *)
EntryLeft ==
  \A s \in PrivSlots : SetupThread(s) =>
    \A t \in Threads : pc[t] \in {"wait", "woken", "freeing"} => slotOf(t) # s

LEMMA InitQueues == Init => QueueParts
<1> SUFFICES ASSUME Init PROVE QueueParts
  OBVIOUS
<1>1. /\ \A t \in Threads : pc[t] = "idle"
      /\ \A s \in Slots : cells[s] = <<>>
      /\ got = {} /\ calls.create = 0
      /\ \A s \in PubSlots : qid[s] = NoHandle /\ incarn[s] = IncMask
      /\ \A s \in PrivSlots : qid[s] = [slot |-> s, incarn |-> 0] /\ incarn[s] = 0
      /\ used = {[slot |-> s, incarn |-> 0] : s \in PrivSlots}
  BY SlotsAssumption DEF Init
<1>2. RenewalWaits /\ WalkInv /\ ServedInv
  BY <1>1 DEF RenewalWaits, WalkInv, Reads, ServedInv, Asks
<1>3. StampInv
  BY <1>1 DEF StampInv, Pending
<1>4. CreationInv
  <2>1. \A s \in Slots : ~ Awaited(s)
    BY <1>1 DEF Awaited
  <2>2. \A s \in PubSlots : Unnamed(s)
    BY <1>1, <2>1, SlotsAssumption DEF Unnamed
  <2>3. ASSUME NEW s \in PrivSlots PROVE Named(s)
    <3>1. s \notin PubSlots /\ Made(s) = 0
      BY <1>1, SlotsAssumption DEF Made
    <3>2. \A h \in used : h.incarn = 0
      BY <1>1
    <3>3. qid[s] = [slot |-> s, incarn |-> incarn[s]]
      BY <1>1
    <3>4. calls.create = 0 /\ Made(s) = 0 /\ incarn[s] = 0
      BY <1>1, <3>1
    <3>5. Made(s) <= calls.create
      BY ONLY <3>4
    <3>6. \A h \in used : h.incarn <= incarn[s]
      BY <3>2, <3>4
    <3> QED BY <2>1, <3>3, <3>5, <3>6 DEF Named
  <2> QED BY <1>1, <2>2, <2>3, BoundsAssumption DEF CreationInv
<1> QED BY <1>2, <1>3, <1>4 DEF QueueParts

(* What a step of thread t leaves to the others.                              *)
Others(t) ==
  \A u \in Threads : u # t =>
    /\ op'[u] = op[u] /\ cur'[u] = cur[u] /\ msg'[u] = msg[u]
    /\ pc'[u] = pc[u] \/ {pc[u], pc'[u]} \subseteq {"wait", "woken"}

LEMMA StepsApart ==
  ASSUME TypeInv, NoInterrupts, NEW t \in Threads,
         Request(t) \/ Continue(t) \/ Spurious(t)
  PROVE  Others(t)
<1> USE DEF TypeInv
<1> SUFFICES ASSUME NEW u \in Threads, u # t
             PROVE  /\ op'[u] = op[u] /\ cur'[u] = cur[u] /\ msg'[u] = msg[u]
                    /\ pc'[u] = pc[u] \/ {pc[u], pc'[u]} \subseteq {"wait", "woken"}
  BY DEF Others
<1>1. CASE Request(t)
  BY <1>1 DEF Request, CallSend, CallGet, CallPeek, Start, CreateQueue, DestroyQueue,
     ExitThread, Destroy, Goto, RequestInv
<1>2. CASE SendMessage(t) \/ TryMessage(t) \/ PeekMessage(t) \/ WakeRetest(t)
  <2>1. op'[u] = op[u] /\ pc'[u] = pc[u]
    BY <1>2 DEF SendMessage, TryMessage, PeekMessage, WakeRetest, ExistenceError, Suspend,
       Put, TakeFirst, Return, Goto, RequestInv
  <2>2. cur'[u] = cur[u] /\ msg'[u] = msg[u]
    BY <1>2 DEF SendMessage, TryMessage, PeekMessage, WakeRetest, ExistenceError, Suspend,
       Put, TakeFirst, CellInv
  <2> QED BY <2>1, <2>2
<1>3. CASE AcceptMessage(t) \/ RetryMessage(t) \/ RepeekMessage(t) \/ UnlockQueue(t)
  <2>1. op'[u] = op[u] /\ pc'[u] = pc[u]
    BY <1>3 DEF AcceptMessage, RetryMessage, RepeekMessage, UnlockQueue, Suspend, Return,
       Goto, RequestInv
  <2>2. cur'[u] = cur[u] /\ msg'[u] = msg[u]
    BY <1>3 DEF AcceptMessage, RetryMessage, RepeekMessage, UnlockQueue, CellInv
  <2> QED BY <2>1, <2>2
<1>4. CASE WakeDeleted(t) \/ Resume(t) \/ Spurious(t) \/ InitQueue(t) \/ Dealloc(t)
  BY <1>4 DEF WakeDeleted, Resume, Spurious, InitQueue, Dealloc, Return, Goto, RequestInv
<1>5. CASE Broadcast(t)
  BY <1>5 DEF Broadcast, Waiting, RequestInv
<1>6. ~ WakeInterrupted(t) /\ ~ HandleInterrupt(t)
  BY DEF NoInterrupts, WakeInterrupted, HandleInterrupt
<1> QED BY <1>1, <1>2, <1>3, <1>4, <1>5, <1>6 DEF Continue

-----------------------------------------------------------------------------
(* Stamps.                                                                    *)
LEMMA ChainLength ==
  ASSUME CellInv, NEW s \in Slots
  PROVE  cells[s] \in Seq(Cell) /\ Len(cells[s]) \in Nat
BY LenProperties DEF CellInv

LEMMA CellStamp ==
  ASSUME CellInv, StampInv, NEW s \in Slots, NEW i \in 1 .. Len(cells[s])
  PROVE  cells[s][i].n \in 1 .. MaxSends /\ cells[s][i].n <= calls.send
         /\ \A j \in 1 .. Len(cells[s]) : cells[s][i].n = cells[s][j].n => i = j
<1>1. cells[s][i] \in Cell
  BY ElementOfSeq, ChainLength
<1>2. cells[s][i].n \in 1 .. MaxSends
  BY <1>1 DEF Cell
<1> QED BY <1>2 DEF StampInv

(* A step that sends nothing, receives nothing and at most empties a chain.   *)
LEMMA StampsStay ==
  ASSUME TypeInv, StampInv, got' = got, calls'.send = calls.send,
         \A s \in Slots : cells'[s] = cells[s] \/ cells'[s] = <<>>,
         \A u \in Threads : Pending(u)' => Pending(u) /\ op'[u] = op[u]
  PROVE  StampInv'
<1>1. \A s \in Slots : \A n : InChain(s, n)' => InChain(s, n)
  BY DEF InChain
<1>2. \A n : Unseen(n) => Unseen(n)'
  BY <1>1 DEF Unseen
<1>3. ASSUME NEW s \in Slots, NEW i \in 1 .. Len(cells'[s]), NEW j \in 1 .. Len(cells'[s])
      PROVE  cells'[s][i].n <= calls'.send /\ (cells'[s][i].n = cells'[s][j].n => i = j)
  BY <1>3 DEF StampInv
<1> QED BY <1>2, <1>3 DEF StampInv

LEMMA CallSendStamps ==
  ASSUME TypeInv, StampInv, NEW t \in Threads, NEW h, NEW k, CallSend(t, h, k)
  PROVE  StampInv'
<1> PICK n : n = calls.send + 1
  OBVIOUS
<1>1. /\ calls'.send = n /\ calls.send \in Nat /\ UNCHANGED <<cells, got>>
      /\ op'[t].n = n
      /\ \A u \in Threads : u # t => op'[u] = op[u] /\ pc'[u] = pc[u]
  BY DEF CallSend, Start, Goto, TypeInv, RequestInv, CountInv, queueVars, listVars
<1>2. Unseen(n)'
  BY <1>1 DEF StampInv, Unseen, InChain
<1>3. \A m : Unseen(m)' <=> Unseen(m)
  BY <1>1 DEF Unseen, InChain
<1>4. ASSUME NEW u \in Threads, Pending(u)', u # t
      PROVE  op'[u].n <= calls.send /\ op[u] = op'[u] /\ Pending(u)
  BY <1>1, <1>4 DEF Pending, StampInv
<1>n. n \in Int /\ n > calls.send
  BY <1>1
<1>5. op'[t].n <= calls'.send
  BY <1>1
<1>6. ASSUME NEW u \in Threads, Pending(u)', NEW v \in Threads, Pending(v)', u # v
      PROVE  op'[u].n # op'[v].n
  <2>1. CASE u = t
    BY <1>1, <1>4, <1>6, <2>1
  <2>2. CASE v = t
    BY <1>1, <1>4, <1>6, <2>2
  <2>3. CASE u # t /\ v # t
    BY <1>4, <1>6, <2>3 DEF StampInv
  <2> QED BY <2>1, <2>2, <2>3
<1>7. ASSUME NEW u \in Threads, Pending(u)'
      PROVE  op'[u].n <= calls'.send /\ Unseen(op[u].n)'
  <2>1. CASE u = t
    BY <1>1, <1>2, <2>1
  <2>2. CASE u # t
    <3>1. Unseen(op[u].n)
      BY <1>4, <1>7, <2>2 DEF StampInv
    <3>2. op'[u].n <= calls'.send
      <4>1. op[u].n \in Int
        BY DEF TypeInv, RequestInv, RequestType
      <4>2. op[u].n <= calls.send
        BY <1>4, <1>7, <2>2
      <4> QED BY <1>1, <2>2, <4>1, <4>2
    <3> QED BY <1>1, <1>3, <2>2, <3>1, <3>2
  <2> QED BY <2>1, <2>2
<1>8. ASSUME NEW s \in Slots, NEW i \in 1 .. Len(cells[s]), NEW j \in 1 .. Len(cells[s])
      PROVE  cells[s][i].n <= n /\ (cells[s][i].n = cells[s][j].n => i = j)
  <2>1. cells[s][i].n \in Int /\ cells[s][i].n <= calls.send
    BY CellStamp DEF TypeInv
  <2>2. cells[s][i].n = cells[s][j].n => i = j
    BY CellStamp DEF TypeInv
  <2> QED BY <1>1, <2>1, <2>2
<1>9. \A g \in got : g.n \in 1 .. n
  BY <1>1 DEF StampInv
<1> QED BY <1>1, <1>6, <1>7, <1>8, <1>9 DEF StampInv

LEMMA AppendedCells ==
  ASSUME NEW S, NEW q \in Seq(S), NEW c \in S
  PROVE  /\ Len(Append(q, c)) = Len(q) + 1 /\ Len(q) \in Nat
         /\ \A i \in 1 .. Len(q) : Append(q, c)[i] = q[i]
         /\ Append(q, c)[Len(q) + 1] = c
BY AppendProperties, LenProperties

(* A term is linked at the end of an open queue that has room.                *)
Puts(t) ==
  /\ Pending(t) /\ pc'[t] = "bcast" /\ UNCHANGED op
  /\ \A u \in Threads : u # t /\ Pending(u)' => Pending(u)
  /\ slotOf(t) \in Slots
  /\ op[t].h = qid[slotOf(t)] /\ ~ deleted[slotOf(t)] /\ ~ Full(slotOf(t))
  /\ cells' = [cells EXCEPT ![slotOf(t)] =
                 Append(@, [n |-> op[t].n, kind |-> op[t].want, to |-> op[t].h])]
  /\ UNCHANGED <<qid, incarn, deleted, used, got, calls>>

LEMMA PutStamps ==
  ASSUME TypeInv, StampInv, NEW t \in Threads, Puts(t)
  PROVE  StampInv'
<1> DEFINE s == slotOf(t)
           c == [n |-> op[t].n, kind |-> op[t].want, to |-> op[t].h]
<1>1. c \in Cell /\ c.n = op[t].n /\ op[t].n <= calls.send /\ Unseen(op[t].n)
  BY DEF Puts, Pending, TypeInv, RequestInv, GoodRequest, StampInv, Cell, Handle, RequestType
<1>2. s \in Slots /\ cells[s] \in Seq(Cell) /\ Len(cells[s]) \in Nat
  BY ChainLength DEF Puts, TypeInv
<1>3. cells'[s] = Append(cells[s], c) /\ \A r \in Slots : r # s => cells'[r] = cells[r]
  BY <1>2 DEF Puts, TypeInv, CellInv
<1> HIDE DEF c
<1>4. /\ Len(cells'[s]) = Len(cells[s]) + 1 /\ cells'[s][Len(cells[s]) + 1] = c
      /\ \A i \in 1 .. Len(cells[s]) : cells'[s][i] = cells[s][i]
  BY <1>1, <1>2, <1>3, AppendedCells
<1> HIDE DEF s
<1>5. \A i \in 1 .. Len(cells[s]) : cells[s][i].n # op[t].n
  BY <1>1, <1>2 DEF Unseen, InChain
<1>6. ASSUME NEW r \in Slots, NEW i \in 1 .. Len(cells'[r]), NEW j \in 1 .. Len(cells'[r])
      PROVE  cells'[r][i].n <= calls.send /\ (cells'[r][i].n = cells'[r][j].n => i = j)
  <2>1. CASE r # s
    BY <1>3, <2>1 DEF StampInv
  <2>2. CASE r = s
    <3>1. i \in 1 .. Len(cells[s]) \/ i = Len(cells[s]) + 1
      BY <1>2, <1>4, <2>2
    <3>2. j \in 1 .. Len(cells[s]) \/ j = Len(cells[s]) + 1
      BY <1>2, <1>4, <2>2
    <3>3. i \in 1 .. Len(cells[s]) => cells'[s][i].n <= calls.send /\ cells'[s][i].n # op[t].n
      BY <1>2, <1>4, <1>5 DEF StampInv
    <3>4. j \in 1 .. Len(cells[s]) => cells'[s][j].n # op[t].n
      BY <1>2, <1>4, <1>5 DEF StampInv
    <3>5. i \in 1 .. Len(cells[s]) /\ j \in 1 .. Len(cells[s]) =>
            (cells'[s][i].n = cells'[s][j].n => i = j)
      BY <1>2, <1>4, CellStamp DEF TypeInv
    <3> QED BY <1>1, <1>4, <2>2, <3>1, <3>2, <3>3, <3>4, <3>5
  <2> QED BY <2>1, <2>2
<1>7. ASSUME NEW r \in Slots, NEW n, InChain(r, n)' PROVE InChain(r, n) \/ n = op[t].n
  <2>1. CASE r # s
    BY <1>3, <1>7, <2>1 DEF InChain
  <2>2. CASE r = s
    BY <1>1, <1>2, <1>4, <1>7, <2>2 DEF InChain
  <2> QED BY <2>1, <2>2
<1>8. ASSUME NEW u \in Threads, Pending(u)'
      PROVE  u # t /\ Pending(u)
  BY <1>8 DEF Puts, Pending
<1>9. ASSUME NEW u \in Threads, Pending(u)'
      PROVE  Unseen(op[u].n)'
  <2>1. op[u].n # op[t].n /\ Unseen(op[u].n)
    BY <1>8, <1>9 DEF StampInv, Puts
  <2> QED BY <1>7, <2>1 DEF Unseen, Puts
<1>10. UNCHANGED <<op, calls, got>>
  BY DEF Puts
<1> QED BY <1>6, <1>8, <1>9, <1>10 DEF StampInv

(* A cell is unlinked from the chain of an open queue.                        *)
LEMMA RemovedCells ==
  ASSUME NEW S, NEW q \in Seq(S), NEW x \in 1 .. Len(q)
  PROVE  /\ Len(q) \in Nat /\ Len(RemoveAt(q, x)) = Len(q) - 1
         /\ \A i \in 1 .. Len(q) - 1 : RemoveAt(q, x)[i] = IF i < x THEN q[i] ELSE q[i + 1]
<1> PICK n : n = Len(q)
  OBVIOUS
<1>1. n \in Nat /\ x \in 1 .. n
  BY LenProperties
<1>2. /\ SubSeq(q, 1, x - 1) \in Seq(S) /\ Len(SubSeq(q, 1, x - 1)) = x - 1
      /\ \A i \in 1 .. x - 1 : SubSeq(q, 1, x - 1)[i] = q[i]
  BY <1>1, SubSeqProperties
<1>3. /\ SubSeq(q, x + 1, n) \in Seq(S) /\ Len(SubSeq(q, x + 1, n)) = n - x
      /\ \A i \in 1 .. n - x : SubSeq(q, x + 1, n)[i] = q[x + i]
  BY <1>1, SubSeqProperties
<1>4. PICK a \in Seq(S), b \in Seq(S) : a = SubSeq(q, 1, x - 1) /\ b = SubSeq(q, x + 1, n)
  BY <1>2, <1>3
<1>5. Len(a) = x - 1 /\ Len(b) = n - x
  BY <1>2, <1>3, <1>4
<1>6. RemoveAt(q, x) = a \o b
  BY <1>4 DEF RemoveAt
<1>7. Len(a \o b) = n - 1
  <2>1. Len(a \o b) = Len(a) + Len(b)
    BY ConcatProperties
  <2> QED BY <1>1, <1>5, <2>1
<1>8. ASSUME NEW i \in 1 .. n - 1 PROVE (a \o b)[i] = IF i < x THEN q[i] ELSE q[i + 1]
  <2>1. i \in 1 .. Len(a) + Len(b)
    BY <1>1, <1>5
  <2>2. (a \o b)[i] = IF i <= Len(a) THEN a[i] ELSE b[i - Len(a)]
    BY <2>1, ConcatProperties
  <2>3. CASE i < x
    <3>1. i <= Len(a) /\ i \in 1 .. x - 1
      BY <1>1, <1>5, <2>3
    <3>2. a[i] = q[i]
      BY <1>2, <1>4, <3>1
    <3> QED BY <2>2, <2>3, <3>1, <3>2
  <2>4. CASE ~ i < x
    <3>1. (a \o b)[i] = b[i - (x - 1)]
      BY <1>1, <1>5, <2>2, <2>4
    <3>2. i - (x - 1) \in 1 .. n - x
      BY <1>1, <2>4
    <3>3. b[i - (x - 1)] = q[x + (i - (x - 1))]
      BY <1>3, <1>4, <3>2
    <3>4. x + (i - (x - 1)) = i + 1
      BY <1>1
    <3> QED BY <2>4, <3>1, <3>3, <3>4
  <2> QED BY <2>3, <2>4
<1> QED BY <1>1, <1>6, <1>7, <1>8

Takes(t) ==
  /\ Reads(t) /\ Unifies(t) /\ pc'[t] \in {"idle", "bcast"}
  /\ \A u \in Threads : u # t /\ Pending(u)' => Pending(u) /\ op'[u] = op[u]
  /\ slotOf(t) \in Slots
  /\ op[t].h = qid[slotOf(t)] /\ ~ deleted[slotOf(t)] /\ InChain(slotOf(t), cur[t])
  /\ cells' = [cells EXCEPT ![slotOf(t)] = RemoveAt(@, IndexOf(slotOf(t), cur[t]))]
  /\ got' = got \cup {[n |-> cur[t], by |-> op[t].h, want |-> op[t].want]}
  /\ UNCHANGED <<qid, incarn, deleted, used, calls>>

LEMMA TakeStamps ==
  ASSUME TypeInv, StampInv, NEW t \in Threads, Takes(t)
  PROVE  StampInv'
<1> DEFINE s == slotOf(t)
           x == IndexOf(s, cur[t])
<1>1. s \in Slots /\ cells[s] \in Seq(Cell) /\ Len(cells[s]) \in Nat
  BY ChainLength DEF Takes, TypeInv
<1>2. x \in 1 .. Len(cells[s]) /\ cells[s][x].n = cur[t]
  BY <1>1, ChainIndex DEF Takes, TypeInv
<1>3. cells'[s] = RemoveAt(cells[s], x) /\ \A r \in Slots : r # s => cells'[r] = cells[r]
  BY <1>1 DEF Takes, TypeInv, CellInv
<1> HIDE DEF x, s
<1>4. /\ Len(cells'[s]) = Len(cells[s]) - 1
      /\ \A i \in 1 .. Len(cells[s]) - 1 :
           cells'[s][i] = IF i < x THEN cells[s][i] ELSE cells[s][i + 1]
  BY <1>1, <1>2, <1>3, RemovedCells
<1>5. ASSUME NEW i \in 1 .. Len(cells'[s])
      PROVE  \E k \in 1 .. Len(cells[s]) : cells'[s][i] = cells[s][k] /\ k # x
                                          /\ k = IF i < x THEN i ELSE i + 1
  BY <1>1, <1>2, <1>4
<1>6. ASSUME NEW r \in Slots, NEW i \in 1 .. Len(cells'[r]), NEW j \in 1 .. Len(cells'[r])
      PROVE  cells'[r][i].n <= calls.send /\ (cells'[r][i].n = cells'[r][j].n => i = j)
  <2>1. CASE r # s
    BY <1>3, <2>1, CellStamp DEF TypeInv
  <2>2. CASE r = s
    <3>1. PICK k \in 1 .. Len(cells[s]) : cells'[s][i] = cells[s][k]
                                          /\ k = IF i < x THEN i ELSE i + 1
      BY <1>5, <2>2
    <3>2. PICK l \in 1 .. Len(cells[s]) : cells'[s][j] = cells[s][l]
                                          /\ l = IF j < x THEN j ELSE j + 1
      BY <1>5, <2>2
    <3>3. cells[s][k].n <= calls.send /\ (cells[s][k].n = cells[s][l].n => k = l)
      BY <1>1, CellStamp DEF TypeInv
    <3>4. k = l => i = j
      BY <1>2, <1>4, <2>2, <3>1, <3>2
    <3> QED BY <2>2, <3>1, <3>2, <3>3, <3>4
  <2> QED BY <2>1, <2>2
<1>7. ASSUME NEW r \in Slots, NEW n, InChain(r, n)' PROVE InChain(r, n)
  <2>1. CASE r # s
    BY <1>3, <1>7, <2>1 DEF InChain
  <2>2. CASE r = s
    BY <1>5, <1>7, <2>2 DEF InChain
  <2> QED BY <2>1, <2>2
<1>8. ASSUME NEW u \in Threads, Pending(u)'
      PROVE  Pending(u) /\ op'[u] = op[u]
  <2>1. u # t
    BY <1>8 DEF Takes, Pending
  <2> QED BY <1>8, <2>1 DEF Takes
<1>9. ASSUME NEW u \in Threads, Pending(u)'
      PROVE  Unseen(op[u].n)'
  <2>1. Unseen(op[u].n)
    BY <1>8, <1>9 DEF StampInv
  <2>2. op[u].n # cur[t]
    BY <2>1 DEF Unseen, Takes
  <2> QED
    <3>1. op'[u] = op[u]
      BY <1>8, <1>9
    <3>2. \A g \in got' : g \in got \/ g.n = cur[t]
      BY DEF Takes
    <3> QED BY <1>7, <2>1, <2>2, <3>1, <3>2 DEF Unseen
<1>10. \A g \in got' : g.n \in 1 .. calls.send
  <2>1. cur[t] \in 1 .. calls.send
    <3>1. cells[s][x].n \in 1 .. MaxSends /\ cells[s][x].n <= calls.send
      BY <1>1, <1>2, CellStamp DEF TypeInv
    <3>2. calls.send \in Int
      BY DEF TypeInv, CountInv
    <3> QED BY <1>2, <3>1, <3>2
  <2> QED BY <2>1 DEF Takes, StampInv
<1>11. calls' = calls
  BY DEF Takes
<1> QED BY <1>6, <1>8, <1>9, <1>10, <1>11 DEF StampInv

-----------------------------------------------------------------------------
(* What each step does to the queues.                                         *)
Looks(t) ==
  /\ UNCHANGED <<cells, qid, incarn, deleted, used, got>>
  /\ calls'.send = calls.send
  /\ \A u \in Threads : Pending(u)' => Pending(u) /\ op'[u] = op[u]

LEMMA Waking ==
  ASSUME TypeInv, NEW t \in Threads, Others(t), Pending(t)' => Pending(t) /\ op'[t] = op[t]
  PROVE  \A u \in Threads : Pending(u)' => Pending(u) /\ op'[u] = op[u]
<1> SUFFICES ASSUME NEW u \in Threads, Pending(u)', u # t PROVE Pending(u) /\ op'[u] = op[u]
  OBVIOUS
<1> QED BY DEF Others, Pending

LEMMA SendKinds ==
  ASSUME LockedInv, ServedInv, NEW t \in Threads, SendMessage(t)
  PROVE  Puts(t) \/ Looks(t)
<1> USE DEF LockedInv, TypeInv
<1> DEFINE s == slotOf(t)
<1>1. pc[t] = "send" /\ op[t].kind = "send" /\ Pending(t) /\ s \in Slots
  BY SlotType DEF SendMessage, RequestInv, GoodRequest, Pending
<1>2. Others(t)
  BY StepsApart DEF Continue
<1>3. UNCHANGED <<qid, incarn, deleted, used, got, calls>>
  BY DEF SendMessage, listVars
<1>4. CASE ~ Stale(op[t].h) /\ ~ Full(s) /\ Put(t, s)
  <2>1. pc'[t] = "bcast" /\ UNCHANGED op
    BY <1>4 DEF Put, Goto, RequestInv
  <2>2. \A u \in Threads : u # t /\ Pending(u)' => Pending(u)
    BY <1>2 DEF Others, Pending
  <2> QED BY <1>1, <1>3, <1>4, <2>1, <2>2 DEF Puts, Put, Stale, slotOf
<1>5. CASE UNCHANGED cells /\ (pc'[t] = "idle" \/ UNCHANGED op)
  <2>1. Pending(t)' => Pending(t) /\ op'[t] = op[t]
    BY <1>1, <1>5 DEF Pending
  <2> QED BY <1>2, <1>3, <1>5, <2>1, Waking DEF Looks
<1>6. \/ ~ Stale(op[t].h) /\ ~ Full(s) /\ Put(t, s)
      \/ UNCHANGED cells /\ (pc'[t] = "idle" \/ UNCHANGED op)
  BY DEF SendMessage, ExistenceError, Return, Goto, RequestInv
<1> QED BY <1>4, <1>5, <1>6

LEMMA RetestKinds ==
  ASSUME LockedInv, ServedInv, NEW t \in Threads, WakeRetest(t)
  PROVE  Puts(t) \/ Looks(t)
<1> USE DEF LockedInv, TypeInv
<1> DEFINE s == slotOf(t)
<1>1. /\ pc[t] = "woken" /\ s \in Slots /\ ~ deleted[s] /\ op[t].h = qid[s]
      /\ op[t].kind = "send" => Pending(t)
  BY SlotType DEF WakeRetest, Pending, ServedInv, Asks
<1>2. Others(t)
  BY StepsApart DEF Continue
<1>3. UNCHANGED <<qid, incarn, deleted, used, got, calls>>
  BY DEF WakeRetest, listVars
<1>4. CASE op[t].kind = "send" /\ ~ Full(s) /\ Put(t, s)
  <2>1. pc'[t] = "bcast" /\ UNCHANGED op
    BY <1>4 DEF Put, Goto, RequestInv
  <2>2. \A u \in Threads : u # t /\ Pending(u)' => Pending(u)
    BY <1>2 DEF Others, Pending
  <2> QED BY <1>1, <1>3, <1>4, <2>1, <2>2 DEF Puts, Put
<1>5. CASE UNCHANGED <<cells, op>>
  <2>1. Pending(t)' => Pending(t) /\ op'[t] = op[t]
    BY <1>1, <1>5 DEF Pending
  <2> QED BY <1>2, <1>3, <1>5, <2>1, Waking DEF Looks
<1> QED BY <1>4, <1>5 DEF WakeRetest

LEMMA AcceptKinds ==
  ASSUME FaultFreeInv, ServedInv, NEW t \in Threads, AcceptMessage(t)
  PROVE  Takes(t)
<1> USE DEF FaultFreeInv, LockedInv, TypeInv
<1> DEFINE s == slotOf(t)
<1>1. /\ pc[t] = "go" /\ op[t].kind = "get" /\ s \in Slots /\ mqMutex[s] = t
      /\ ~ deleted[s] /\ op[t].h = qid[s] /\ InChain(s, cur[t])
  BY SlotType DEF AcceptMessage, HoldingInv, Holds, ServedInv, Asks, PlaceInv, Placed
<1>2. Others(t)
  BY StepsApart DEF Continue
<1>3. /\ UNCHANGED <<qid, incarn, deleted, used, calls>>
      /\ pc'[t] \in {"idle", "bcast"} /\ Unifies(t)
      /\ cells' = [cells EXCEPT ![s] = RemoveAt(@, IndexOf(s, cur[t]))]
      /\ got' = got \cup {[n |-> cur[t], by |-> op[t].h, want |-> op[t].want]}
  BY <1>1 DEF AcceptMessage, OwnsMutex, Return, Goto, RequestInv
<1>4. \A u \in Threads : u # t /\ Pending(u)' => Pending(u) /\ op'[u] = op[u]
  BY <1>2 DEF Others, Pending
<1> QED BY <1>1, <1>3, <1>4 DEF Takes, Reads

LEMMA LookKinds ==
  ASSUME LockedInv, NEW t \in Threads,
         \/ \E h \in used, k \in Kinds : CallGet(t, h, k) \/ CallPeek(t, h, k)
         \/ CreateQueue(t) \/ TryMessage(t) \/ PeekMessage(t) \/ WakeDeleted(t)
         \/ Resume(t) \/ RetryMessage(t) \/ RepeekMessage(t) \/ UnlockQueue(t)
         \/ Broadcast(t) \/ Spurious(t)
  PROVE  Looks(t)
<1> USE DEF LockedInv, TypeInv
<1>1. ASSUME UNCHANGED <<cells, qid, incarn, deleted, used, got>>, calls'.send = calls.send,
             Others(t), Pending(t)' => Pending(t) /\ op'[t] = op[t]
      PROVE  Looks(t)
  BY <1>1, Waking DEF Looks
<1> USE DEF queueVars, listVars
<1>2. ASSUME NEW h \in used, NEW k \in Kinds, CallGet(t, h, k) \/ CallPeek(t, h, k)
      PROVE  Looks(t)
  <2>1. Others(t)
    BY <1>2 DEF Others, CallGet, CallPeek, Start, Goto, RequestInv
  <2>2. ~ Pending(t)'
    BY <1>2 DEF CallGet, CallPeek, Start, Goto, Pending, RequestInv
  <2> QED BY <1>1, <1>2, <2>1, <2>2 DEF CallGet, CallPeek, Start
<1>3. CASE CreateQueue(t)
  <2>1. Others(t)
    BY <1>3 DEF Others, CreateQueue, Goto, RequestInv
  <2>2. ~ Pending(t)' /\ calls'.send = calls.send
    BY <1>3 DEF CreateQueue, Goto, Pending, RequestInv, CountInv
  <2> QED BY <1>1, <1>3, <2>1, <2>2 DEF CreateQueue
<1>4. CASE TryMessage(t) \/ PeekMessage(t)
  <2>1. Others(t)
    BY <1>4, StepsApart DEF Continue
  <2>2. ~ Pending(t)'
    BY <1>4 DEF TryMessage, PeekMessage, ExistenceError, Suspend, TakeFirst, Return, Goto,
       Idle, Pending, RequestInv, KindInv, GoodKind
  <2> QED BY <1>1, <1>4, <2>1, <2>2 DEF TryMessage, PeekMessage, ExistenceError
<1>5. CASE WakeDeleted(t) \/ Resume(t)
  <2>1. Others(t)
    BY <1>5, StepsApart DEF Continue
  <2>2. ~ Pending(t)'
    BY <1>5 DEF WakeDeleted, Resume, Return, Goto, Pending, RequestInv
  <2> QED BY <1>1, <1>5, <2>1, <2>2 DEF WakeDeleted, Resume
<1>6. CASE RetryMessage(t) \/ RepeekMessage(t) \/ UnlockQueue(t)
  <2>1. Others(t)
    BY <1>6, StepsApart DEF Continue
  <2>2. ~ Pending(t)'
    BY <1>6 DEF RetryMessage, RepeekMessage, UnlockQueue, Suspend, Return, Goto, Idle,
       Pending, RequestInv
  <2> QED BY <1>1, <1>6, <2>1, <2>2 DEF RetryMessage, RepeekMessage, UnlockQueue
<1>7. CASE Broadcast(t)
  <2>1. Others(t)
    BY <1>7, StepsApart DEF Continue
  <2>2. ~ Pending(t)'
    BY <1>7 DEF Broadcast, Pending, RequestInv
  <2> QED BY <1>1, <1>7, <2>1, <2>2 DEF Broadcast
<1>8. CASE Spurious(t)
  <2>1. Others(t)
    BY <1>8, StepsApart
  <2>2. Pending(t)' => Pending(t) /\ op'[t] = op[t]
    BY <1>8 DEF Spurious, Goto, Pending, RequestInv
  <2> QED BY <1>1, <1>8, <2>1, <2>2 DEF Spurious
<1> QED BY <1>2, <1>3, <1>4, <1>5, <1>6, <1>7, <1>8

-----------------------------------------------------------------------------
(* A receiver has passed only cells of another kind than it wants.            *)
LEMMA StepsUntouched ==
  ASSUME FaultFreeInv, RenewalWaits, NEW t \in Threads,
         Request(t) \/ Continue(t) \/ Spurious(t)
  PROVE  Untouched(t)
<1> USE DEF FaultFreeInv, LockedInv, TypeInv
<1> DEFINE s == slotOf(t)
<1>1. CASE cells' = cells
  BY <1>1 DEF Untouched
<1>2. CASE SendMessage(t) \/ WakeRetest(t)
  <2>1. s \in Slots /\ Free(s)
    BY <1>2, SlotType DEF SendMessage, WakeRetest
  <2>2. \A r \in Slots : r # s => cells'[r] = cells[r]
    BY <1>2, <2>1 DEF SendMessage, WakeRetest, ExistenceError, Suspend, Put, TakeFirst, CellInv
  <2> HIDE DEF s
  <2> QED BY <2>1, <2>2, Touches
<1>3. CASE AcceptMessage(t)
  <2>1. s \in Slots /\ mqMutex[s] = t
    BY <1>3, SlotType DEF AcceptMessage, HoldingInv, Holds
  <2>2. \A r \in Slots : r # s => cells'[r] = cells[r]
    BY <1>3, <2>1 DEF AcceptMessage, CellInv
  <2> HIDE DEF s
  <2> QED BY <2>1, <2>2, Touches
<1>4. CASE InitQueue(t)
  <2>1. s \in Slots /\ Free(s)
    BY <1>4, SlotType DEF InitQueue, Renew
  <2>2. \A r \in Slots : r # s => cells'[r] = cells[r]
    BY <1>4, <2>1 DEF InitQueue, Renew, CellInv
  <2> HIDE DEF s
  <2> QED BY <2>1, <2>2, Touches
<1>5. CASE Dealloc(t)
  <2>1. s \in Slots /\ pc[t] = "freeing" /\ Working(t)
    BY <1>5, SlotType DEF Dealloc, Working
  <2>2. Free(s) \/ deleted[s]
    BY <2>1 DEF SlotInv, SlotParts, SleepInv, Dormant, AsleepAt, Free, RenewalWaits
  <2>3. \A r \in Slots : r # s => cells'[r] = cells[r]
    BY <1>5, <2>1 DEF Dealloc, CellInv
  <2> HIDE DEF s
  <2> QED BY <2>1, <2>2, <2>3, Touches
<1>6. CASE Request(t) \/ Spurious(t) \/ TryMessage(t) \/ PeekMessage(t) \/ WakeDeleted(t)
           \/ Resume(t) \/ RetryMessage(t) \/ RepeekMessage(t) \/ UnlockQueue(t) \/ Broadcast(t)
  <2>1. cells' = cells
    BY <1>6 DEF Request, CallSend, CallGet, CallPeek, Start, CreateQueue, DestroyQueue,
       ExitThread, Destroy, Spurious, TryMessage, PeekMessage, ExistenceError, WakeDeleted,
       Resume, RetryMessage, RepeekMessage, UnlockQueue, Broadcast, queueVars
  <2> QED BY <1>1, <2>1
<1>7. ~ WakeInterrupted(t) /\ ~ HandleInterrupt(t)
  BY DEF NoInterrupts, WakeInterrupted, HandleInterrupt
<1> QED BY <1>2, <1>3, <1>4, <1>5, <1>6, <1>7 DEF Continue

StandsWell(t) == \E j \in 1 .. Len(cells[slotOf(t)]) : Stands(t, j)

LEMMA WalkStays ==
  ASSUME WalkInv,
         \A u \in Threads : Reads(u)' =>
           \/ StandsWell(u)'
           \/ /\ Reads(u) /\ op'[u] = op[u] /\ cur'[u] = cur[u] /\ msg'[u] = msg[u]
              /\ cells'[slotOf(u)] = cells[slotOf(u)]
  PROVE  WalkInv'
<1> SUFFICES ASSUME NEW u \in Threads, Reads(u)' PROVE StandsWell(u)'
  BY DEF WalkInv, StandsWell
<1>1. CASE /\ Reads(u) /\ op'[u] = op[u] /\ cur'[u] = cur[u] /\ msg'[u] = msg[u]
           /\ cells'[slotOf(u)] = cells[slotOf(u)]
  <2>1. slotOf(u)' = slotOf(u)
    BY <1>1 DEF slotOf
  <2>2. PICK j \in 1 .. Len(cells[slotOf(u)]) : Stands(u, j)
    BY <1>1 DEF WalkInv
  <2>3. Stands(u, j)' /\ j \in 1 .. Len(cells'[slotOf(u)])
    BY <1>1, <2>1, <2>2 DEF Stands
  <2> QED BY <2>1, <2>3 DEF StandsWell
<1> QED BY <1>1

LEMMA WalksApart ==
  ASSUME FaultFreeInv, RenewalWaits, WalkInv, NEW t \in Threads,
         Request(t) \/ Continue(t) \/ Spurious(t),
         Reads(t)' => \/ StandsWell(t)'
                      \/ Reads(t) /\ UNCHANGED <<op, cur, msg, cells>>
  PROVE  WalkInv'
<1>1. Others(t) /\ Untouched(t)
  BY StepsApart, StepsUntouched DEF FaultFreeInv, LockedInv
<1>2. ASSUME NEW u \in Threads, u # t, Reads(u)'
      PROVE  /\ Reads(u) /\ op'[u] = op[u] /\ cur'[u] = cur[u] /\ msg'[u] = msg[u]
             /\ cells'[slotOf(u)] = cells[slotOf(u)]
  BY <1>1, <1>2 DEF Others, Untouched, Reads
<1> QED BY <1>2, WalkStays

LEMMA OnHead ==
  ASSUME TypeInv, NEW t \in Threads, slotOf(t) \in Slots, cells[slotOf(t)] # <<>>,
         TakeFirst(t, slotOf(t)), UNCHANGED <<op, cells>>
  PROVE  StandsWell(t)'
<1> DEFINE s == slotOf(t)
<1>1. 1 \in 1 .. Len(cells[s]) /\ Head(cells[s]) = cells[s][1]
  BY ChainLength, HeadTailProperties, EmptySeq DEF TypeInv
<1>2. cur'[t] = cells[s][1].n /\ msg'[t] = cells[s][1].kind
  BY <1>1 DEF TakeFirst, TypeInv, CellInv
<1>3. slotOf(t)' = slotOf(t)
  BY DEF slotOf
<1>4. Stands(t, 1)'
  BY <1>2, <1>3 DEF Stands
<1> QED BY <1>1, <1>3, <1>4 DEF StandsWell

LEMMA OnSuccessor ==
  ASSUME TypeInv, StampInv, WalkInv, NEW t \in Threads, RetryMessage(t), pc'[t] = "got",
         ~ fault'
  PROVE  StandsWell(t)'
<1> DEFINE s == slotOf(t)
           i == IndexOf(s, cur[t])
<1>1. /\ pc[t] = "go" /\ Reads(t) /\ s \in Slots /\ ~ Unifies(t)
      /\ UNCHANGED <<op, cells>> /\ slotOf(t)' = s
  BY SlotType DEF RetryMessage, Reads, TypeInv, slotOf
<1>2. /\ InChain(s, cur[t]) /\ cur[t] # Last(cells[s]).n
      /\ cur'[t] = cells[s][i + 1].n /\ msg'[t] = cells[s][i + 1].kind
  BY DEF RetryMessage, Suspend, Goto, TypeInv, RequestInv, CellInv
<1>3. i \in 1 .. Len(cells[s]) /\ cells[s][i].n = cur[t]
  BY <1>1, <1>2, ChainIndex DEF TypeInv
<1>4. PICK j \in 1 .. Len(cells[s]) : Stands(t, j)
  BY <1>1 DEF WalkInv
<1> HIDE DEF i
<1>5. j = i
  BY <1>1, <1>3, <1>4, CellStamp DEF TypeInv, Stands
<1>6. cells[s][i].kind # op[t].want /\ \A b \in 1 .. i - 1 : cells[s][b].kind # op[t].want
  BY <1>1, <1>4, <1>5 DEF Stands, Unifies
<1>7. Len(cells[s]) \in Nat /\ i # Len(cells[s])
  BY <1>1, <1>2, <1>3, ChainLength DEF TypeInv, Last
<1>8. i + 1 \in 1 .. Len(cells[s])
  BY <1>3, <1>7
<1>9. \A b \in 1 .. (i + 1) - 1 : cells[s][b].kind # op[t].want
  BY <1>3, <1>6, <1>7
<1> DEFINE k == i + 1
<1>10. k \in 1 .. Len(cells[s]) /\ cur'[t] = cells[s][k].n /\ msg'[t] = cells[s][k].kind
       /\ \A b \in 1 .. k - 1 : cells[s][b].kind # op[t].want
  BY <1>2, <1>8, <1>9
<1>11. PICK m \in 1 .. Len(cells[s]) : cur'[t] = cells[s][m].n /\ msg'[t] = cells[s][m].kind
       /\ \A b \in 1 .. m - 1 : cells[s][b].kind # op[t].want
  BY <1>10
<1>12. Stands(t, m)'
  BY <1>1, <1>11 DEF Stands
<1> QED BY <1>1, <1>11, <1>12 DEF StandsWell

LEMMA NextWalk ==
  ASSUME FaultFreeInv, ~ fault', QueueParts, NEW t \in Threads,
         Request(t) \/ Continue(t) \/ Spurious(t)
  PROVE  WalkInv'
<1> USE DEF QueueParts
<1> SUFFICES ASSUME Reads(t)'
             PROVE  StandsWell(t)' \/ (Reads(t) /\ UNCHANGED <<op, cur, msg, cells>>)
  BY WalksApart
<1> USE DEF FaultFreeInv, LockedInv, TypeInv
<1>1. pc'[t] \in {"got", "go"} /\ op'[t].kind = "get"
  BY DEF Reads
<1>2. ~ Request(t) /\ ~ Spurious(t) /\ ~ SendMessage(t) /\ ~ WakeDeleted(t)
  BY <1>1 DEF Request, CallSend, CallGet, CallPeek, Start, CreateQueue, DestroyQueue,
     ExitThread, Destroy, Spurious, SendMessage, ExistenceError, Suspend, Put, WakeDeleted,
     Return, Goto, RequestInv
<1>3. ~ AcceptMessage(t) /\ ~ UnlockQueue(t) /\ ~ Broadcast(t) /\ ~ InitQueue(t) /\ ~ Dealloc(t)
  BY <1>1 DEF AcceptMessage, UnlockQueue, Broadcast, InitQueue, Dealloc, Return, Goto, RequestInv
<1>4. ~ PeekMessage(t) /\ ~ RepeekMessage(t)
  BY <1>1 DEF PeekMessage, RepeekMessage, ExistenceError, Return, Goto, Idle, RequestInv,
     KindInv, GoodKind, TakeFirst
<1>5. ~ WakeInterrupted(t) /\ ~ HandleInterrupt(t)
  BY DEF NoInterrupts, WakeInterrupted, HandleInterrupt
<1>6. CASE TryMessage(t) \/ WakeRetest(t)
  <2>1. slotOf(t) \in Slots
    BY <1>6, SlotType DEF TryMessage, WakeRetest
  <2>2. cells[slotOf(t)] # <<>> /\ TakeFirst(t, slotOf(t)) /\ UNCHANGED <<op, cells>>
    BY <1>1, <1>6 DEF TryMessage, WakeRetest, ExistenceError, Suspend, Put, Return, Goto,
       RequestInv
  <2>3. TypeInv
    OBVIOUS
  <2>4. StandsWell(t)'
    BY ONLY <2>1, <2>2, <2>3, t \in Threads, OnHead
  <2> QED BY <2>4
<1>7. CASE RetryMessage(t)
  <2>1. pc'[t] = "got"
    BY <1>1, <1>7 DEF RetryMessage, Suspend, Goto, RequestInv
  <2>2. TypeInv /\ StampInv /\ WalkInv /\ ~ fault'
    OBVIOUS
  <2>3. StandsWell(t)'
    BY ONLY <1>7, <2>1, <2>2, t \in Threads, OnSuccessor
  <2> QED BY <2>3
<1>8. CASE Resume(t)
  BY <1>1, <1>8 DEF Resume, Reads, queueVars
<1> QED BY <1>2, <1>3, <1>4, <1>5, <1>6, <1>7, <1>8 DEF Continue

-----------------------------------------------------------------------------
(* Who suspended or holds a chain is served by the queue of its id.           *)
LEMMA ServedStays ==
  ASSUME ServedInv, NEW t \in Threads, Others(t), qid' = qid,
         \A s : deleted[s] => deleted'[s],
         Asks(t)' => \/ op'[t].h = qid[slotOf(t)'] \/ deleted'[slotOf(t)']
                     \/ Asks(t) /\ op'[t] = op[t]
  PROVE  ServedInv'
<1> SUFFICES ASSUME NEW u \in Threads, Asks(u)'
             PROVE  op'[u].h = qid'[slotOf(u)'] \/ deleted'[slotOf(u)']
  BY DEF ServedInv
<1>1. CASE Asks(u) /\ op'[u] = op[u]
  <2>1. slotOf(u)' = slotOf(u)
    BY <1>1 DEF slotOf
  <2> QED BY <1>1, <2>1 DEF ServedInv
<1>2. CASE u = t
  BY <1>1, <1>2
<1>3. CASE u # t
  <2>1. Asks(u) /\ op'[u] = op[u]
    BY <1>3 DEF Others, Asks
  <2> QED BY <1>1, <2>1
<1> QED BY <1>2, <1>3

LEMMA NextServed ==
  ASSUME LockedInv, ServedInv, NEW t \in Threads,
         Request(t) \/ Continue(t) \/ Spurious(t), ~ InitQueue(t)
  PROVE  ServedInv'
<1> USE DEF LockedInv, TypeInv
<1>1. Others(t)
  BY StepsApart
<1>2. ~ WakeInterrupted(t) /\ ~ HandleInterrupt(t)
  BY DEF NoInterrupts, WakeInterrupted, HandleInterrupt
<1>3. qid' = qid
  BY <1>2 DEF Request, Continue, CallSend, CallGet, CallPeek, Start, CreateQueue, DestroyQueue,
     ExitThread, Destroy, Spurious, SendMessage, TryMessage, PeekMessage, WakeDeleted,
     WakeRetest, Resume, AcceptMessage, RetryMessage, RepeekMessage, UnlockQueue, Broadcast,
     Dealloc, queueVars
<1>4. CASE DestroyQueue(t, op'[t].h) \/ \E p \in PrivSlots : ExitThread(t, p)
  <2>1. \A s : deleted[s] => deleted'[s]
    <3>1. ASSUME NEW h, Destroy(t, op'[t].kind, h) PROVE \A s : deleted[s] => deleted'[s]
      BY <3>1 DEF Destroy, IdInv
    <3> QED BY <1>4, <3>1 DEF DestroyQueue, ExitThread, Destroy, RequestInv
  <2>2. ~ Asks(t)'
    BY <1>4 DEF DestroyQueue, ExitThread, Destroy, Goto, Asks, RequestInv
  <2> QED BY <1>1, <1>3, <2>1, <2>2, ServedStays
<1>5. CASE deleted' = deleted
  <2>1. Asks(t)' => \/ op'[t].h = qid[slotOf(t)'] \/ deleted'[slotOf(t)']
                    \/ Asks(t) /\ op'[t] = op[t]
    <3>1. CASE SendMessage(t) \/ TryMessage(t) \/ PeekMessage(t)
      BY <3>1 DEF SendMessage, TryMessage, PeekMessage, ExistenceError, Suspend, Put,
         TakeFirst, Return, Goto, Stale, Asks, slotOf, RequestInv
    <3>2. CASE Request(t)
      BY <3>2 DEF Request, CallSend, CallGet, CallPeek, Start, CreateQueue, DestroyQueue,
         ExitThread, Destroy, Goto, Asks, RequestInv
    <3>3. CASE WakeDeleted(t) \/ AcceptMessage(t) \/ UnlockQueue(t) \/ Broadcast(t) \/ Dealloc(t)
      BY <3>3 DEF WakeDeleted, AcceptMessage, UnlockQueue, Broadcast, Dealloc, Return, Goto,
         Asks, RequestInv
    <3>4. CASE Spurious(t) \/ WakeRetest(t) \/ Resume(t) \/ RetryMessage(t) \/ RepeekMessage(t)
      BY <3>4 DEF Spurious, WakeRetest, Resume, RetryMessage, RepeekMessage, Suspend, Put,
         TakeFirst, Goto, Asks, RequestInv
    <3> QED BY <1>2, <3>1, <3>2, <3>3, <3>4 DEF Continue
  <2> QED BY <1>1, <1>3, <1>5, <2>1, ServedStays
<1>6. deleted' = deleted \/ DestroyQueue(t, op'[t].h) \/ \E p \in PrivSlots : ExitThread(t, p)
  <2>1. ASSUME NEW h \in used, DestroyQueue(t, h) PROVE DestroyQueue(t, op'[t].h)
    <3>1. op'[t].h = h
      BY <2>1 DEF DestroyQueue, Destroy, RequestInv
    <3> QED BY <2>1, <3>1
  <2> QED BY <1>2, <2>1 DEF Request, Continue, CallSend, CallGet, CallPeek, Start, CreateQueue,
     Spurious, SendMessage, TryMessage, PeekMessage, WakeDeleted,
     WakeRetest, Resume, AcceptMessage, RetryMessage, RepeekMessage, UnlockQueue, Broadcast,
     Dealloc, queueVars
<1> QED BY <1>4, <1>5, <1>6

(* A renewed slot has nobody left in it.                                      *)
LEMMA RenewedServed ==
  ASSUME TypeInv, HoldingInv, ServedInv, NEW s \in Slots, Renew(s),
         \A u \in Threads : WaitsIn(u) => slotOf(u) # s,
         \A u \in Threads : Asks(u)' => Asks(u) /\ op'[u] = op[u]
  PROVE  ServedInv'
<1> SUFFICES ASSUME NEW u \in Threads, Asks(u)'
             PROVE  op'[u].h = qid'[slotOf(u)'] \/ deleted'[slotOf(u)']
  BY DEF ServedInv
<1>1. Asks(u) /\ op'[u] = op[u] /\ slotOf(u)' = slotOf(u) /\ slotOf(u) \in Slots
  BY SlotType DEF slotOf, Asks, TypeInv
<1>2. slotOf(u) # s
  BY <1>1, ThreadsAssumption DEF Asks, WaitsIn, HoldingInv, Holds, Renew, Free
<1>3. qid'[slotOf(u)] = qid[slotOf(u)] /\ deleted'[slotOf(u)] = deleted[slotOf(u)]
  BY <1>1, <1>2 DEF Renew, TypeInv, IdInv
<1> QED BY <1>1, <1>3 DEF ServedInv

LEMMA InitQueueServed ==
  ASSUME FaultFreeInv, ServedInv, NEW t \in Threads, InitQueue(t)
  PROVE  ServedInv'
<1> USE DEF FaultFreeInv, LockedInv, TypeInv
<1>1. Others(t) /\ pc[t] = "init" /\ pc'[t] = "idle" /\ Renew(slotOf(t))
  BY StepsApart DEF Continue, InitQueue, Return, Goto, RequestInv
<1>2. slotOf(t) \in PubSlots /\ slotOf(t) \in Slots /\ AsleepAt(slotOf(t))
  BY <1>1, PubSlotsFinite DEF SlotInv, SlotParts, WorkInv, SleepInv, Dormant, Working
<1>3. \A u \in Threads : WaitsIn(u) => slotOf(u) # slotOf(t)
  BY <1>2 DEF AsleepAt, Waiters, WaitsIn
<1>4. \A u \in Threads : Asks(u)' => Asks(u) /\ op'[u] = op[u]
  BY <1>1 DEF Others, Asks
<1> QED BY <1>1, <1>2, <1>3, <1>4, RenewedServed

LEMMA SetupServed ==
  ASSUME FaultFreeInv, ServedInv, EntryLeft, NEW s \in PrivSlots, SetupThread(s)
  PROVE  ServedInv'
<1>1. \A u \in Threads : WaitsIn(u) => slotOf(u) # s
  BY DEF EntryLeft, WaitsIn
<1>2. s \in Slots /\ Renew(s) /\ UNCHANGED <<pc, op>>
  BY DEF SetupThread, threadVars
<1>3. \A u \in Threads : Asks(u)' => Asks(u) /\ op'[u] = op[u]
  BY <1>2 DEF Asks
<1> QED BY <1>1, <1>2, <1>3, RenewedServed DEF FaultFreeInv, LockedInv

(* A private slot that somebody is about to deallocate is deleted.            *)
LEMMA NextRenewal ==
  ASSUME LockedInv, RenewalWaits, NEW t \in Threads,
         Request(t) \/ Continue(t) \/ Spurious(t),
         InitQueue(t) => slotOf(t) \in PubSlots
  PROVE  RenewalWaits'
<1> USE DEF LockedInv, TypeInv
<1>1. Others(t)
  BY StepsApart
<1>2. ~ WakeInterrupted(t) /\ ~ HandleInterrupt(t)
  BY DEF NoInterrupts, WakeInterrupted, HandleInterrupt
<1>3. \A p \in PrivSlots : deleted[p] => deleted'[p]
  <2>1. CASE InitQueue(t)
    BY <2>1, SlotsAssumption DEF InitQueue, Renew, IdInv
  <2>2. CASE Request(t)
    BY <2>2 DEF Request, CallSend, CallGet, CallPeek, Start, CreateQueue, DestroyQueue,
       ExitThread, Destroy, IdInv, queueVars
  <2>3. CASE ~ InitQueue(t) /\ ~ Request(t)
    BY <1>2, <2>3 DEF Continue, Spurious, SendMessage, TryMessage, PeekMessage, WakeDeleted,
       WakeRetest, Resume, AcceptMessage, RetryMessage, RepeekMessage, UnlockQueue,
       Broadcast, Dealloc, queueVars
  <2> QED BY <2>1, <2>2, <2>3
<1>4. ASSUME pc'[t] = "freeing" PROVE deleted'[slotOf(t)']
  <2>1. ~ InitQueue(t) /\ ~ SendMessage(t) /\ ~ TryMessage(t) /\ ~ PeekMessage(t)
    BY <1>4 DEF InitQueue, SendMessage, TryMessage, PeekMessage, ExistenceError, Suspend,
       Put, TakeFirst, Return, Goto, RequestInv
  <2>2. ~ WakeRetest(t) /\ ~ Resume(t) /\ ~ AcceptMessage(t) /\ ~ RetryMessage(t)
    BY <1>4 DEF WakeRetest, Resume, AcceptMessage, RetryMessage, Suspend, Put, TakeFirst,
       Return, Goto, RequestInv
  <2>3. ~ RepeekMessage(t) /\ ~ UnlockQueue(t) /\ ~ Broadcast(t) /\ ~ Dealloc(t) /\ ~ Spurious(t)
    BY <1>4 DEF RepeekMessage, UnlockQueue, Broadcast, Dealloc, Spurious, Return, Goto, RequestInv
  <2>4. CASE WakeDeleted(t)
    BY <1>4, <2>4 DEF WakeDeleted, Return, Goto, RequestInv, slotOf
  <2>5. CASE Request(t)
    <3>1. ASSUME NEW kind, NEW h, h.slot \in Slots, Destroy(t, kind, h)
          PROVE  deleted'[slotOf(t)']
      BY <3>1 DEF Destroy, slotOf, RequestInv, IdInv
    <3>2. ASSUME NEW h \in used, DestroyQueue(t, h) PROVE deleted'[slotOf(t)']
      BY <3>1, <3>2 DEF DestroyQueue, IdInv, Handle
    <3>3. ASSUME NEW p \in PrivSlots, ExitThread(t, p) PROVE deleted'[slotOf(t)']
      BY <3>1, <3>3 DEF ExitThread, IdInv, Handle
    <3>4. ~ CreateQueue(t) /\ \A h \in used, k \in Kinds :
            ~ CallSend(t, h, k) /\ ~ CallGet(t, h, k) /\ ~ CallPeek(t, h, k)
      BY <1>4 DEF CreateQueue, CallSend, CallGet, CallPeek, Start, Goto, RequestInv
    <3> QED BY <2>5, <3>2, <3>3, <3>4 DEF Request
  <2> QED BY <1>2, <2>1, <2>2, <2>3, <2>4, <2>5 DEF Continue
<1>5. ASSUME NEW u \in Threads, u # t, pc'[u] = "freeing", slotOf(u)' \in PrivSlots
      PROVE  deleted'[slotOf(u)']
  <2>1. pc[u] = "freeing" /\ slotOf(u)' = slotOf(u)
    BY <1>1, <1>5 DEF Others, slotOf
  <2> QED BY <1>3, <1>5, <2>1 DEF RenewalWaits
<1> QED BY <1>4, <1>5 DEF RenewalWaits

LEMMA SetupRenewal ==
  ASSUME TypeInv, RenewalWaits, EntryLeft, NEW s \in PrivSlots, SetupThread(s)
  PROVE  RenewalWaits'
<1>1. \A r \in Slots : r # s => deleted'[r] = deleted[r]
  BY DEF SetupThread, Renew, TypeInv, IdInv
<1>2. UNCHANGED <<pc, op>>
  BY DEF SetupThread, threadVars
<1> QED BY <1>1, <1>2 DEF RenewalWaits, EntryLeft, slotOf

-----------------------------------------------------------------------------
(* Ids.                                                                       *)
LEMMA CreationsStay ==
  ASSUME CreationInv, UNCHANGED <<qid, incarn, used>>, calls'.create = calls.create,
         \A u \in Threads : pc'[u] = "init" => pc[u] = "init" /\ op'[u] = op[u]
  PROVE  CreationInv'
<1>1. \A s : Awaited(s)' => Awaited(s)
  BY DEF Awaited, slotOf
<1> QED BY <1>1 DEF CreationInv, Named, Unnamed, Made

LEMMA CreateCreations ==
  ASSUME TypeInv, CreationInv, NEW t \in Threads, CreateQueue(t)
  PROVE  CreationInv'
<1>1. /\ UNCHANGED <<qid, incarn, used>>
      /\ calls'.create = calls.create + 1 /\ calls.create \in Nat /\ calls.create < MaxCreates
  BY DEF CreateQueue, queueVars, TypeInv, CountInv
<1>2. ASSUME NEW s \in Slots, Named(s) PROVE Named(s)'
  <2>1. Made(s)' = Made(s) /\ Made(s) \in Int
    BY <1>1 DEF Made, TypeInv, IdInv
  <2>2. Made(s) < calls'.create
    BY <1>1, <1>2, <2>1 DEF Named
  <2> QED BY <1>1, <1>2, <2>1, <2>2 DEF Named
<1>3. ASSUME NEW s \in Slots, Unnamed(s) PROVE Unnamed(s)'
  BY <1>1, <1>3 DEF Unnamed
<1>4. calls'.create <= MaxCreates
  BY <1>1, BoundsAssumption
<1> QED BY <1>2, <1>3, <1>4 DEF CreationInv

Renames(s) ==
  /\ s \in Slots /\ Renew(s) /\ qid'[s] \in Handle \ used /\ qid'[s].slot = s
  /\ used' = used \cup {qid'[s]} /\ \A r \in Slots : r # s => qid'[r] = qid[r]

(* A slot takes an incarnation it never had.                                  *)
LEMMA NewName ==
  ASSUME IdsLast, TypeInv, CreationInv, NEW s \in Slots, Renew(s), NEW n \in Nat,
         n <= MaxCreates, Unnamed(s) => n >= 1,
         Named(s) => Made(s) < n
  PROVE  /\ qid'[s] = [slot |-> s, incarn |-> incarn'[s]] /\ qid'[s] \in Handle \ used
         /\ used' = used \cup {qid'[s]}
         /\ \A r \in Slots : r # s => qid'[r] = qid[r] /\ incarn'[r] = incarn[r]
         /\ Made(s)' <= n
         /\ \A h \in used' : h.slot = s => h.incarn <= incarn'[s]
<1>1. /\ incarn'[s] = NextIncarn(incarn[s])
      /\ qid'[s] = [slot |-> s, incarn |-> incarn'[s]] /\ used' = used \cup {qid'[s]}
      /\ \A r \in Slots : r # s => qid'[r] = qid[r] /\ incarn'[r] = incarn[r]
  BY DEF Renew, TypeInv, IdInv
<1>2. incarn[s] \in 0 .. IncMask /\ IncMask \in Nat
  BY BoundsAssumption DEF TypeInv, IdInv
<1>3. CASE Unnamed(s)
  <2>1. incarn'[s] = 0 /\ s \in PubSlots
    BY <1>1, <1>2, <1>3 DEF Unnamed, NextIncarn
  <2>2. qid'[s] \in Handle
    BY <1>1, <1>2, <2>1 DEF Handle
  <2>3. \A h \in used : h.slot # s
    BY <1>3 DEF Unnamed
  <2> QED BY <1>1, <1>3, <2>1, <2>2, <2>3 DEF Made
<1>4. CASE Named(s)
  <2>1. incarn[s] + 1 <= IncMask
    <3>1. CASE s \in PubSlots
      BY <1>2, <1>4, <3>1, BoundsAssumption DEF IdsLast, Made
    <3>2. CASE s \in PrivSlots
      BY <1>2, <1>4, <3>2, BoundsAssumption, SlotsAssumption DEF IdsLast, Made
    <3> QED BY <3>1, <3>2
  <2>2. incarn'[s] = incarn[s] + 1
    BY <1>1, <1>2, <2>1 DEF NextIncarn
  <2>3. qid'[s] \in Handle
    BY <1>1, <1>2, <2>1, <2>2 DEF Handle
  <2>4. \A h \in used : h.slot = s => h.incarn <= incarn[s] /\ h.incarn \in Int
    BY <1>4 DEF Named, TypeInv, IdInv, Handle
  <2>5. qid'[s] \notin used
    BY <1>1, <1>2, <2>2, <2>4
  <2>6. \A h \in used' : h.slot = s => h.incarn <= incarn'[s]
    BY <1>1, <1>2, <2>2, <2>4
  <2>7. Made(s)' <= n
    BY <1>2, <1>4, <2>2 DEF Made
  <2> QED BY <1>1, <2>3, <2>5, <2>6, <2>7
<1> QED BY <1>3, <1>4 DEF CreationInv

LEMMA InitQueueCreations ==
  ASSUME IdsLast, SlotInv, CreationInv, NEW t \in Threads, InitQueue(t)
  PROVE  CreationInv' /\ slotOf(t) \in PubSlots /\ Renames(slotOf(t))
<1> USE DEF SlotInv, SlotParts, TypeInv
<1> PICK s : s = slotOf(t)
  OBVIOUS
<1>1. /\ pc[t] = "init" /\ pc'[t] = "idle" /\ Renew(s) /\ UNCHANGED calls
      /\ \A u \in Threads : u # t => pc'[u] = pc[u] /\ op'[u] = op[u]
  BY DEF InitQueue, Return, Goto, RequestInv
<1>2. s \in PubSlots /\ s \in Slots /\ Awaited(s)
  BY <1>1, PubSlotsFinite DEF WorkInv, Awaited
<1>3. calls.create \in Nat /\ calls.create <= MaxCreates
  BY DEF CountInv, CreationInv
<1>4. (Unnamed(s) => calls.create >= 1) /\ (Named(s) => Made(s) < calls.create)
  BY <1>2 DEF Unnamed, Named
<1>5. /\ qid'[s] = [slot |-> s, incarn |-> incarn'[s]] /\ qid'[s] \in Handle \ used
      /\ used' = used \cup {qid'[s]}
      /\ \A r \in Slots : r # s => qid'[r] = qid[r] /\ incarn'[r] = incarn[r]
      /\ Made(s)' <= calls.create
      /\ \A h \in used' : h.slot = s => h.incarn <= incarn'[s]
  BY ONLY IdsLast, TypeInv, CreationInv, <1>1, <1>2, <1>3, <1>4, NewName
<1>6. \A r : Awaited(r)' => Awaited(r) /\ r # s
  <2> SUFFICES ASSUME NEW u \in Threads, pc'[u] = "init"
               PROVE  pc[u] = "init" /\ slotOf(u)' = slotOf(u) /\ slotOf(u) # s
    BY DEF Awaited
  <2>1. u # t
    BY <1>1
  <2>2. pc[u] = "init" /\ slotOf(u)' = slotOf(u)
    BY <1>1, <2>1 DEF slotOf
  <2> QED BY <1>1, <1>2, <2>1, <2>2 DEF WorkInv, Working
<1>7. Named(s)'
  BY <1>1, <1>5, <1>6 DEF Named
<1>8. ASSUME NEW r \in Slots, r # s PROVE Named(r)' \/ Unnamed(r)'
  <2>1. \A h \in used' : h.slot = r => h \in used
    BY <1>5, <1>8
  <2>2. qid'[r] = qid[r] /\ incarn'[r] = incarn[r] /\ Made(r)' = Made(r)
    BY <1>5, <1>8 DEF Made
  <2>3. Named(r) \/ Unnamed(r)
    BY DEF CreationInv
  <2>4. CASE Named(r)
    BY <1>1, <1>6, <2>1, <2>2, <2>4 DEF Named
  <2>5. CASE Unnamed(r)
    BY <1>1, <1>6, <2>1, <2>2, <2>5 DEF Unnamed
  <2> QED BY <2>3, <2>4, <2>5
<1>9. Renames(s)
  BY <1>1, <1>2, <1>5 DEF Renames
<1> QED BY <1>1, <1>2, <1>3, <1>7, <1>8, <1>9 DEF CreationInv

LEMMA SetupCreations ==
  ASSUME IdsLast, SlotInv, CreationInv, NEW s \in PrivSlots, SetupThread(s)
  PROVE  CreationInv' /\ Renames(s)
<1> USE DEF SlotInv, SlotParts, TypeInv
<1>1. /\ Renew(s) /\ s \in Slots /\ s \notin PubSlots /\ UNCHANGED <<pc, op>>
      /\ calls.create < MaxCreates /\ calls'.create = calls.create + 1
  BY SlotsAssumption DEF SetupThread, threadVars, CountInv
<1> PICK n : n = calls'.create
  OBVIOUS
<1>2. n \in Nat /\ n <= MaxCreates /\ n = calls.create + 1 /\ calls.create \in Nat
  BY <1>1, BoundsAssumption DEF CountInv
<1>3. ~ Unnamed(s) /\ Named(s)
  BY <1>1 DEF Unnamed, CreationInv
<1>4. Made(s) < n
  <2>1. Made(s) <= calls.create /\ Made(s) \in Int
    BY <1>1, <1>3 DEF Named, Made, IdInv
  <2> QED BY <1>2, <2>1
<1>5. /\ qid'[s] = [slot |-> s, incarn |-> incarn'[s]] /\ qid'[s] \in Handle \ used
      /\ used' = used \cup {qid'[s]}
      /\ \A r \in Slots : r # s => qid'[r] = qid[r] /\ incarn'[r] = incarn[r]
      /\ Made(s)' <= n
      /\ \A h \in used' : h.slot = s => h.incarn <= incarn'[s]
  BY ONLY IdsLast, TypeInv, CreationInv, <1>1, <1>2, <1>3, <1>4, NewName
<1>6. \A r : (Awaited(r)' <=> Awaited(r)) /\ (Awaited(r) => r # s)
  BY <1>1 DEF Awaited, slotOf, WorkInv
<1>7. Named(s)'
  BY <1>2, <1>5, <1>6 DEF Named
<1>8. ASSUME NEW r \in Slots, r # s PROVE Named(r)' \/ Unnamed(r)'
  <2>1. \A h \in used' : h.slot = r => h \in used
    BY <1>5, <1>8
  <2>2. /\ qid'[r] = qid[r] /\ incarn'[r] = incarn[r] /\ Made(r)' = Made(r)
        /\ Made(r) \in Int
    BY <1>5, <1>8 DEF Made, IdInv
  <2>3. Named(r) \/ Unnamed(r)
    BY DEF CreationInv
  <2>4. CASE Named(r)
    <3>1. Made(r)' <= calls'.create /\ (Awaited(r)' => Made(r)' < calls'.create)
      BY <1>2, <1>6, <2>2, <2>4 DEF Named
    <3> QED BY <2>1, <2>2, <2>4, <3>1 DEF Named
  <2>5. CASE Unnamed(r)
    BY <1>2, <1>6, <2>1, <2>2, <2>5 DEF Unnamed
  <2> QED BY <2>3, <2>4, <2>5
<1>9. Renames(s)
  BY <1>1, <1>5 DEF Renames
<1> QED BY <1>2, <1>7, <1>8, <1>9 DEF CreationInv

LEMMA NextCreations ==
  ASSUME IdsLast, FaultFreeInv, CreationInv, NEW t \in Threads,
         Request(t) \/ Continue(t) \/ Spurious(t)
  PROVE  CreationInv'
<1> USE DEF FaultFreeInv, LockedInv, TypeInv
<1>1. Others(t)
  BY StepsApart
<1>2. CASE InitQueue(t)
  BY <1>2, InitQueueCreations
<1>3. CASE CreateQueue(t)
  BY <1>3, CreateCreations
<1>4. CASE ~ InitQueue(t) /\ ~ CreateQueue(t)
  <2>1. ~ WakeInterrupted(t) /\ ~ HandleInterrupt(t)
    BY DEF NoInterrupts, WakeInterrupted, HandleInterrupt
  <2>2. UNCHANGED <<qid, incarn, used>> /\ calls'.create = calls.create
    <3>1. CASE Request(t)
      BY <1>4, <3>1 DEF Request, CallSend, CallGet, CallPeek, Start, DestroyQueue,
         ExitThread, Destroy, queueVars, listVars, CountInv
    <3>2. CASE ~ Request(t)
      BY <1>4, <2>1, <3>2 DEF Continue, Spurious, SendMessage, TryMessage, PeekMessage,
         WakeDeleted, WakeRetest, Resume, AcceptMessage, RetryMessage, RepeekMessage,
         UnlockQueue, Broadcast, Dealloc, queueVars, listVars
    <3> QED BY <3>1, <3>2
  <2>3. pc'[t] # "init"
    <3>1. CASE Request(t)
      BY <1>4, <3>1 DEF Request, CallSend, CallGet, CallPeek, Start, DestroyQueue,
         ExitThread, Destroy, Goto, RequestInv
    <3>2. CASE ~ Request(t)
      BY <1>4, <2>1, <3>2 DEF Continue, Spurious, SendMessage, TryMessage, PeekMessage,
         ExistenceError, Suspend, Put, TakeFirst, WakeDeleted,
         WakeRetest, Resume, AcceptMessage, RetryMessage, RepeekMessage,
         UnlockQueue, Broadcast, Dealloc, Return, Goto, RequestInv
    <3> QED BY <3>1, <3>2
  <2>4. \A u \in Threads : pc'[u] = "init" => pc[u] = "init" /\ op'[u] = op[u]
    BY <1>1, <2>3 DEF Others
  <2> QED BY <2>2, <2>4, CreationsStay
<1> QED BY <1>2, <1>3, <1>4

-----------------------------------------------------------------------------
(* The inductive invariant.                                                   *)
Destroys(t) ==
  /\ t \in Managers
  /\ (\E h \in used : DestroyQueue(t, h)) \/ \E p \in PrivSlots : ExitThread(t, p)

LEMMA StepKinds ==
  ASSUME FaultFreeInv, QueueParts, NEW t \in Threads,
         Request(t) \/ Continue(t) \/ Spurious(t)
  PROVE  \/ Puts(t) \/ Takes(t) \/ Looks(t) \/ Destroys(t) \/ InitQueue(t) \/ Dealloc(t)
         \/ \E h \in used, k \in Kinds : CallSend(t, h, k)
<1> USE DEF FaultFreeInv, QueueParts
<1>1. ~ WakeInterrupted(t) /\ ~ HandleInterrupt(t)
  BY DEF LockedInv, NoInterrupts, WakeInterrupted, HandleInterrupt
<1>2. CASE Request(t)
  BY <1>2, LookKinds DEF Request, Destroys
<1>3. CASE Spurious(t)
  BY <1>3, LookKinds
<1>4. CASE Continue(t)
  BY <1>1, <1>4, SendKinds, RetestKinds, AcceptKinds, LookKinds DEF Continue
<1> QED BY <1>2, <1>3, <1>4

LEMMA EmptiedStamps ==
  ASSUME TypeInv, NoInterrupts, StampInv, NEW t \in Threads,
         Destroys(t) \/ InitQueue(t) \/ Dealloc(t)
  PROVE  StampInv'
<1> USE DEF TypeInv
<1>1. Others(t)
  <2>1. Destroys(t) => Request(t)
    BY DEF Destroys, Request, DestroyQueue, ExitThread, Destroy
  <2>2. Others(t) \/ ~ Destroys(t)
    BY <2>1, StepsApart
  <2> QED BY <2>2, StepsApart DEF Continue
<1>2. ~ Pending(t)'
  BY DEF Destroys, DestroyQueue, ExitThread, Destroy, InitQueue, Dealloc, Return, Goto,
     Pending, RequestInv
<1>3. got' = got /\ calls'.send = calls.send
  BY DEF Destroys, DestroyQueue, ExitThread, Destroy, InitQueue, Dealloc, listVars
<1>4. \A s \in Slots : cells'[s] = cells[s] \/ cells'[s] = <<>>
  <2>1. CASE Destroys(t)
    BY <2>1 DEF Destroys, DestroyQueue, ExitThread, Destroy
  <2>2. CASE InitQueue(t) \/ Dealloc(t)
    BY <2>2 DEF InitQueue, Dealloc, Renew, CellInv
  <2> QED BY <2>1, <2>2
<1>5. \A u \in Threads : Pending(u)' => Pending(u) /\ op'[u] = op[u]
  BY <1>1, <1>2, Waking
<1> QED BY <1>3, <1>4, <1>5, StampsStay

LEMMA NextStamps ==
  ASSUME FaultFreeInv, QueueParts, NEW t \in Threads,
         Request(t) \/ Continue(t) \/ Spurious(t)
  PROVE  StampInv'
<1> USE DEF FaultFreeInv, QueueParts, LockedInv
<1>1. CASE Looks(t)
  BY <1>1, StampsStay DEF Looks
<1>2. CASE \E h \in used, k \in Kinds : CallSend(t, h, k)
  BY <1>2, CallSendStamps
<1> QED BY <1>1, <1>2, StepKinds, PutStamps, TakeStamps, EmptiedStamps

LEMMA SetupQueues ==
  ASSUME IdsLast, FaultFreeInv, QueueParts, EntryLeft, NEW s \in PrivSlots, SetupThread(s)
  PROVE  QueueParts'
<1> USE DEF FaultFreeInv, QueueParts, LockedInv
<1>1. RenewalWaits' /\ ServedInv' /\ CreationInv'
  BY SetupRenewal, SetupServed, SetupCreations
<1>2. /\ UNCHANGED <<pc, op, cur, msg, got>> /\ calls'.send = calls.send
      /\ \A r \in Slots : r # s => cells'[r] = cells[r]
      /\ s \in Slots /\ cells'[s] = <<>> /\ Free(s)
  BY DEF SetupThread, threadVars, Renew, TypeInv, CellInv, CountInv
<1>3. StampInv'
  <2>1. \A r \in Slots : cells'[r] = cells[r] \/ cells'[r] = <<>>
    BY <1>2
  <2>2. \A u \in Threads : Pending(u)' => Pending(u) /\ op'[u] = op[u]
    BY <1>2 DEF Pending
  <2> QED BY <1>2, <2>1, <2>2, StampsStay
<1>4. WalkInv'
  <2>1. Untouched(Nobody)
    BY <1>2, Touches
  <2>2. ASSUME NEW u \in Threads, Reads(u)'
        PROVE  /\ Reads(u) /\ op'[u] = op[u] /\ cur'[u] = cur[u] /\ msg'[u] = msg[u]
               /\ cells'[slotOf(u)] = cells[slotOf(u)]
    BY <1>2, <2>1, <2>2, ThreadsAssumption DEF Reads, Untouched
  <2> QED BY <2>2, WalkStays
<1> QED BY <1>1, <1>3, <1>4

LEMMA QueuesStutter ==
  ASSUME QueueParts, UNCHANGED vars
  PROVE  QueueParts'
<1> USE DEF QueueParts, vars, threadVars, signalVars, queueVars, listVars
<1>1. RenewalWaits' /\ ServedInv'
  BY DEF RenewalWaits, ServedInv, Asks, slotOf
<1>2. StampInv'
  BY DEF StampInv, Pending, Unseen, InChain
<1>3. WalkInv'
  BY DEF WalkInv, Reads, Stands, slotOf
<1>4. CreationInv'
  BY CreationsStay
<1> QED BY <1>1, <1>2, <1>3, <1>4

LEMMA NextQueues ==
  ASSUME SlotsLeft, SignalKinds = {}, IdsLast, QueueInv, [Next]_vars, [EntryLeft]_vars
  PROVE  QueueInv'
<1> USE DEF QueueInv
<1>1. FaultFreeInv'
  BY NextPlaced DEF QueueParts
<1>2. ASSUME NEW t \in Threads, Request(t) \/ Continue(t) \/ Spurious(t)
      PROVE  QueueParts'
  <2>1. StampInv' /\ WalkInv' /\ CreationInv'
    BY <1>1, <1>2, NextStamps, NextWalk, NextCreations DEF QueueParts, FaultFreeInv
  <2>2. ServedInv'
    BY <1>2, NextServed, InitQueueServed DEF QueueParts, FaultFreeInv
  <2>3. RenewalWaits'
    BY <1>2, NextRenewal, InitQueueCreations DEF QueueParts, FaultFreeInv
  <2> QED BY <2>1, <2>2, <2>3 DEF QueueParts
<1>3. ASSUME NEW s \in PrivSlots, SetupThread(s), EntryLeft PROVE QueueParts'
  BY <1>3, SetupQueues
<1>4. CASE UNCHANGED vars
  BY <1>1, <1>4, QueuesStutter
<1>5. CASE Next /\ EntryLeft
  <2>1. \A u \in Threads : ~ ThreadInterrupt(u)
    BY DEF ThreadInterrupt, FaultFreeInv, LockedInv, NoInterrupts
  <2>2. \A u \in Threads, goal \in SignalKinds : ~ Signal(u, goal)
    OBVIOUS
  <2>3. QueueParts'
    BY <1>2, <1>3, <1>5, <2>1, <2>2 DEF Next
  <2> QED BY <1>1, <2>3
<1> QED BY <1>4, <1>5

-----------------------------------------------------------------------------
(* The mapping.                                                               *)
Views == [i \in OpenIds |-> cells[i.slot]]

LEMMA OpenOnes ==
  ASSUME CreationInv
  PROVE  /\ \A i : i \in OpenIds <=> \E s \in Slots : qid[s] = i /\ i # NoHandle /\ ~ deleted[s]
         /\ \A i \in OpenIds : i.slot \in Slots /\ qid[i.slot] = i /\ ~ deleted[i.slot]
         /\ \A s \in Slots : qid[s] # NoHandle => qid[s].slot = s
<1>1. \A i : i \in OpenIds <=> \E s \in Slots : qid[s] = i /\ i # NoHandle /\ ~ deleted[s]
  BY DEF OpenIds
<1>2. \A s \in Slots : qid[s] # NoHandle => qid[s].slot = s
  <2>1. \A s \in Slots : Named(s) => qid[s].slot = s
    BY DEF Named
  <2>2. \A s \in Slots : Unnamed(s) => qid[s] = NoHandle
    BY DEF Unnamed
  <2> QED BY <2>1, <2>2 DEF CreationInv
<1> QED BY <1>1, <1>2

LEMMA NoStep ==
  ASSUME UNCHANGED <<cells, qid, deleted, used, got>>
  PROVE  UNCHANGED TQ!tqVars
BY DEF TQ!tqVars, OpenIds

LEMMA HandlesNamed == NoHandle \notin Handle
BY SlotsAssumption DEF NoHandle, Handle

LEMMA AbstractSend ==
  ASSUME TypeInv, StampInv, CreationInv, NEW t \in Threads, Puts(t)
  PROVE  TQ!TQNext
<1> DEFINE s == slotOf(t)
<1> PICK i, n, k : i = op[t].h /\ n = op[t].n /\ k = op[t].want
  OBVIOUS
<1> DEFINE c == [n |-> n, kind |-> k, to |-> i]
<1>1. /\ i \in Handle /\ s \in Slots /\ i.slot = s /\ k \in Kinds
      /\ n \in 1 .. MaxSends
  BY DEF Puts, Pending, TypeInv, RequestInv, GoodRequest, RequestType, slotOf
<1>2. i \in OpenIds
  BY <1>1, OpenOnes, HandlesNamed DEF Puts
<1>3. OpenIds' = OpenIds
  BY DEF Puts, OpenIds
<1>4. \A j \in OpenIds : j # i => j.slot # s /\ j.slot \in Slots
  BY <1>1, <1>2, OpenOnes
<1>5. cells'[s] = Append(cells[s], c) /\ \A r \in Slots : r # s => cells'[r] = cells[r]
  BY <1>1 DEF Puts, TypeInv, CellInv
<1>6. Views' = [Views EXCEPT ![i] = Append(@, c)]
  <2> HIDE DEF c, s
  <2>1. ASSUME NEW j \in OpenIds
        PROVE  cells'[j.slot] = IF j = i THEN Append(Views[i], c) ELSE Views[j]
    BY <1>1, <1>2, <1>4, <1>5 DEF Views
  <2> QED BY <1>2, <1>3, <2>1 DEF Views
<1>7. \A j \in OpenIds : \A b \in 1 .. Len(Views[j]) : Views[j][b].n # n
  <2>1. Unseen(n)
    BY DEF Puts, StampInv
  <2> QED BY <2>1, OpenOnes DEF Unseen, InChain, Views
<1>8. \A g \in got : g.n # n
  BY DEF Puts, StampInv, Unseen
<1>9. MaxTerms # 0 => Len(Views[i]) < MaxTerms
  <2>1. Len(cells[s]) \in Nat
    BY <1>1, ChainLength DEF TypeInv
  <2> QED BY <1>1, <1>2, <2>1, BoundsAssumption DEF Puts, Full, Views
<1>10. TQ!Send(i, n, k)
  <2>1. DOMAIN Views = OpenIds
    BY DEF Views
  <2>2. UNCHANGED <<used, got>>
    BY DEF Puts
  <2> QED BY <1>2, <1>6, <1>7, <1>8, <1>9, <2>1, <2>2 DEF TQ!Send, TQ!Open, Views
<1> QED BY ONLY <1>1, <1>10 DEF TQ!TQNext

LEMMA AbstractGet ==
  ASSUME TypeInv, StampInv, WalkInv, CreationInv, NEW t \in Threads, msg[t] # "unbound", Takes(t)
  PROVE  TQ!TQNext
<1> DEFINE s == slotOf(t)
<1> PICK i : i = op[t].h
  OBVIOUS
<1> PICK k : k = op[t].want
  OBVIOUS
<1>1. i \in Handle /\ s \in Slots /\ i.slot = s /\ k \in Kinds
  BY DEF Takes, Reads, TypeInv, RequestInv, GoodRequest, RequestType, slotOf
<1>2. i \in OpenIds
  BY <1>1, OpenOnes, HandlesNamed DEF Takes
<1>3. OpenIds' = OpenIds
  BY DEF Takes, OpenIds
<1>4. \A j \in OpenIds : j # i => j.slot # s /\ j.slot \in Slots
  BY <1>1, <1>2, OpenOnes
<1> PICK x : x = IndexOf(s, cur[t])
  OBVIOUS
<1>5. x \in 1 .. Len(cells[s]) /\ cells[s][x].n = cur[t]
  BY <1>1, ChainIndex DEF Takes, TypeInv
<1>6. cells'[s] = RemoveAt(cells[s], x) /\ \A r \in Slots : r # s => cells'[r] = cells[r]
  BY <1>1 DEF Takes, TypeInv, CellInv
<1>7. cells[s][x].kind = k /\ \A b \in 1 .. x - 1 : cells[s][b].kind # k
  <2>1. PICK j \in 1 .. Len(cells[s]) : Stands(t, j)
    BY DEF WalkInv, Takes
  <2>2. j = x
    BY <1>1, <1>5, <2>1, CellStamp DEF TypeInv, Stands
  <2>3. msg[t] = k
    BY DEF Takes, Unifies
  <2> QED BY <2>1, <2>2, <2>3 DEF Stands
<1> HIDE DEF s
<1>8. Views' = [Views EXCEPT ![i] = RemoveAt(@, x)]
  <2>1. ASSUME NEW j \in OpenIds
        PROVE  cells'[j.slot] = IF j = i THEN RemoveAt(Views[i], x) ELSE Views[j]
    BY <1>1, <1>2, <1>4, <1>6 DEF Views
  <2> QED BY <1>2, <1>3, <2>1 DEF Views
<1>9. Views[i] = cells[s] /\ DOMAIN Views = OpenIds
  BY <1>1, <1>2 DEF Views
<1>10. got' = got \cup {[n |-> Views[i][x].n, by |-> i, want |-> k]} /\ UNCHANGED used
  BY <1>5, <1>9 DEF Takes
<1>11. TQ!Get(i, k)
  <2>1. \A q, j : TQ!RemoveAt(q, j) = RemoveAt(q, j)
    BY DEF TQ!RemoveAt, RemoveAt
  <2>2. /\ i \in DOMAIN Views /\ x \in 1 .. Len(Views[i]) /\ Views[i][x].kind = k
        /\ \A b \in 1 .. x - 1 : Views[i][b].kind # k
    BY <1>2, <1>5, <1>7, <1>9
  <2>3. Views' = [Views EXCEPT ![i] = TQ!RemoveAt(@, x)]
    BY <1>8, <2>1
  <2> QED BY ONLY <1>10, <2>2, <2>3 DEF TQ!Get, TQ!Open, Views
<1> QED BY <1>1, <1>11 DEF TQ!TQNext

LEMMA AbstractDestroy ==
  ASSUME FaultFreeInv, CreationInv, NEW t \in Threads, Destroys(t)
  PROVE  TQ!TQNext
<1> USE DEF FaultFreeInv, LockedInv, TypeInv
<1>1. PICK kind, h : h \in Handle /\ qid[h.slot] = h /\ ~ deleted[h.slot] /\ Destroy(t, kind, h)
  <2>1. ASSUME NEW h \in used, DestroyQueue(t, h)
        PROVE  h \in Handle /\ qid[h.slot] = h /\ ~ deleted[h.slot] /\ Destroy(t, "destroy", h)
    BY <2>1 DEF DestroyQueue, Stale, IdInv
  <2>2. ASSUME NEW p \in PrivSlots, ExitThread(t, p)
        PROVE  /\ qid[p] \in Handle /\ qid[qid[p].slot] = qid[p] /\ ~ deleted[qid[p].slot]
               /\ Destroy(t, "exit", qid[p])
    <3>1. qid[p].slot = p
      BY DEF SlotInv, SlotParts, HomeInv
    <3> QED BY <2>2, <3>1 DEF ExitThread, IdInv
  <2> QED BY <2>1, <2>2 DEF Destroys
<1>2. /\ h.slot \in Slots /\ UNCHANGED <<qid, cells, used, got>>
      /\ deleted' = [deleted EXCEPT ![h.slot] = TRUE]
  BY <1>1 DEF Destroy, Handle, listVars
<1>3. h \in OpenIds
  BY <1>1, <1>2, OpenOnes, HandlesNamed
<1>4. \A i : i \in OpenIds' <=> i \in OpenIds /\ i # h
  <2>1. \A i : i \in OpenIds' <=> \E s \in Slots : qid[s] = i /\ i # NoHandle /\ ~ deleted'[s]
    BY <1>2 DEF OpenIds
  <2>2. \A s \in Slots : deleted'[s] <=> deleted[s] \/ s = h.slot
    BY <1>2 DEF IdInv
  <2>3. \A s \in Slots : qid[s] # NoHandle => (s = h.slot <=> qid[s] = h)
    BY <1>1, OpenOnes
  <2> QED BY <2>1, <2>2, <2>3, OpenOnes
<1>5. Views' = [j \in OpenIds \ {h} |-> Views[j]]
  BY <1>2, <1>4 DEF Views
<1>6. TQ!Destroy(h)
  <2>1. DOMAIN Views = OpenIds
    BY DEF Views
  <2> QED BY <1>2, <1>3, <1>5, <2>1 DEF TQ!Destroy, TQ!Open, Views
<1> QED BY ONLY <1>1, <1>6 DEF TQ!TQNext

LEMMA AbstractNew ==
  ASSUME TypeInv, CreationInv, NEW s \in Slots, Renames(s), qid[s] = NoHandle \/ deleted[s],
         got' = got
  PROVE  TQ!TQNext
<1> PICK n : n = qid'[s]
  OBVIOUS
<1>1. /\ n \in Handle \ used /\ n.slot = s /\ used' = used \cup {n}
      /\ cells' = [cells EXCEPT ![s] = <<>>] /\ deleted' = [deleted EXCEPT ![s] = FALSE]
      /\ \A r \in Slots : r # s => qid'[r] = qid[r]
  BY DEF Renames, Renew
<1>2. \A r \in Slots : deleted'[r] <=> deleted[r] /\ r # s
  BY <1>1 DEF TypeInv, IdInv
<1>3. \A i : i \in OpenIds' <=> i \in OpenIds \/ i = n
  <2>1. \A i : i \in OpenIds' <=> \E r \in Slots : qid'[r] = i /\ i # NoHandle /\ ~ deleted'[r]
    BY DEF OpenIds
  <2>2. n # NoHandle
    BY <1>1, HandlesNamed
  <2> QED BY <1>1, <1>2, <2>1, <2>2, OpenOnes
<1>4. n \notin OpenIds
  <2>1. n.slot = s
    BY <1>1
  <2> QED BY <1>1, <2>1, OpenOnes, HandlesNamed
<1>5. \A j \in OpenIds : j.slot # s /\ cells'[j.slot] = cells[j.slot]
  <2>1. \A j \in OpenIds : j.slot # s /\ j.slot \in Slots
    BY OpenOnes, HandlesNamed
  <2> QED BY <1>1, <2>1 DEF TypeInv, CellInv
<1>6. Views' = [j \in OpenIds \cup {n} |-> IF j = n THEN <<>> ELSE Views[j]]
  <2>1. cells'[n.slot] = <<>>
    BY <1>1 DEF TypeInv, CellInv
  <2> QED BY <1>3, <1>4, <1>5, <2>1 DEF Views
<1>7. TQ!NewQueue(n)
  <2>1. DOMAIN Views = OpenIds
    BY DEF Views
  <2> QED BY <1>1, <1>6, <2>1 DEF TQ!NewQueue, TQ!Open, Views
<1> QED BY ONLY <1>1, <1>7 DEF TQ!TQNext

LEMMA DeallocRefines ==
  ASSUME FaultFreeInv, RenewalWaits, CreationInv, NEW t \in Threads, Dealloc(t)
  PROVE  UNCHANGED TQ!tqVars
<1> USE DEF FaultFreeInv, LockedInv, TypeInv
<1> PICK s : s = slotOf(t)
  OBVIOUS
<1>1. /\ s \in Slots /\ pc[t] = "freeing" /\ Working(t) /\ UNCHANGED <<qid, deleted, used, got>>
      /\ cells' = [cells EXCEPT ![s] = <<>>]
  BY SlotType DEF Dealloc, Working
<1>2. deleted[s] \/ qid[s] = NoHandle
  BY <1>1 DEF SlotInv, SlotParts, SleepInv, Dormant, AsleepAt, RenewalWaits
<1>3. \A j \in OpenIds : cells'[j.slot] = cells[j.slot]
  <2>1. \A j \in OpenIds : j.slot \in Slots /\ j.slot # s
    BY <1>2, OpenOnes, HandlesNamed
  <2> QED BY <1>1, <2>1 DEF CellInv
<1>4. OpenIds' = OpenIds
  BY <1>1 DEF OpenIds
<1> QED BY <1>1, <1>3, <1>4 DEF TQ!tqVars

LEMMA NextRefines ==
  ASSUME SlotsLeft, SignalKinds = {}, IdsLast, QueueInv, [Next]_vars
  PROVE  [TQ!TQNext]_(TQ!tqVars)
<1> USE DEF QueueInv
<1>1. ASSUME NEW t \in Threads, Request(t) \/ Continue(t) \/ Spurious(t)
      PROVE  TQ!TQNext \/ UNCHANGED TQ!tqVars
  <2>1. CASE Puts(t)
    BY <2>1, AbstractSend DEF FaultFreeInv, LockedInv, QueueParts
  <2>2. CASE Takes(t)
    <3>1. msg[t] # "unbound"
      <4>1. PICK j \in 1 .. Len(cells[slotOf(t)]) : Stands(t, j)
        BY <2>2 DEF QueueParts, WalkInv, Takes
      <4>2. slotOf(t) \in Slots
        BY <2>2 DEF Takes
      <4>3. cells[slotOf(t)][j] \in Cell
        BY <4>1, <4>2, ChainLength, ElementOfSeq DEF FaultFreeInv, LockedInv, TypeInv
      <4> QED BY <4>1, <4>3, KindsAssumption DEF Stands, Cell
    <3> QED BY <2>2, <3>1, AbstractGet DEF FaultFreeInv, LockedInv, QueueParts
  <2>3. CASE Looks(t)
    BY <2>3, NoStep DEF Looks
  <2>4. CASE Destroys(t)
    BY <2>4, AbstractDestroy DEF QueueParts
  <2>5. CASE InitQueue(t)
    <3>1. Renames(slotOf(t)) /\ slotOf(t) \in PubSlots /\ slotOf(t) \in Slots
      BY <2>5, InitQueueCreations, PubSlotsFinite DEF FaultFreeInv, QueueParts
    <3>2. AsleepAt(slotOf(t)) /\ got' = got
      BY <2>5, <3>1 DEF InitQueue, FaultFreeInv, SlotInv, SlotParts, SleepInv, Dormant, Working
    <3> QED BY <3>1, <3>2, AbstractNew DEF AsleepAt, FaultFreeInv, LockedInv, QueueParts
  <2>6. CASE Dealloc(t)
    BY <2>6, DeallocRefines DEF QueueParts
  <2>7. CASE \E h \in used, k \in Kinds : CallSend(t, h, k)
    BY <2>7, NoStep DEF CallSend, Start, queueVars, listVars
  <2> QED BY <1>1, <2>1, <2>2, <2>3, <2>4, <2>5, <2>6, <2>7, StepKinds
<1>2. ASSUME NEW p \in PrivSlots, SetupThread(p) PROVE TQ!TQNext
  <2>1. Renames(p)
    BY <1>2, SetupCreations DEF FaultFreeInv, QueueParts
  <2>2. p \in Slots /\ deleted[p] /\ got' = got
    BY <1>2 DEF SetupThread
  <2> QED BY <2>1, <2>2, AbstractNew DEF FaultFreeInv, LockedInv, QueueParts
<1>3. CASE UNCHANGED vars
  BY <1>3, NoStep DEF vars, queueVars, listVars
<1>4. CASE Next
  <2>1. \A u \in Threads : ~ ThreadInterrupt(u)
    BY DEF ThreadInterrupt, FaultFreeInv, LockedInv, NoInterrupts
  <2>2. \A u \in Threads, goal \in SignalKinds : ~ Signal(u, goal)
    OBVIOUS
  <2> QED BY <1>1, <1>2, <1>4, <2>1, <2>2 DEF Next
<1> QED BY <1>3, <1>4

LEMMA InitRefines == Init => TQ!TQInit
<1> SUFFICES ASSUME Init PROVE TQ!TQInit
  OBVIOUS
<1> DEFINE P == {[slot |-> s, incarn |-> 0] : s \in PrivSlots}
<1>1. OpenIds = P
  <2>1. \A s \in PubSlots : qid[s] = NoHandle
    BY DEF Init
  <2>2. \A s \in PrivSlots : qid[s] = [slot |-> s, incarn |-> 0] /\ s \notin PubSlots
    BY SlotsAssumption DEF Init
  <2>3. \A s \in PrivSlots : [slot |-> s, incarn |-> 0] # NoHandle
    BY SlotsAssumption DEF NoHandle
  <2>4. \A s \in Slots : ~ deleted[s]
    BY DEF Init
  <2> QED BY <2>1, <2>2, <2>3, <2>4 DEF OpenIds
<1>2. \A i \in P : cells[i.slot] = <<>>
  BY DEF Init
<1>3. used = P /\ got = {}
  BY DEF Init
<1>4. Views = [i \in P |-> <<>>]
  BY <1>1, <1>2 DEF Views
<1> QED BY <1>3, <1>4 DEF TQ!TQInit, Views

(* Without signals the queues behave as the abstract ones of TermQueue: a     *)
(* term sent arrives once at the queue of the id it was sent to, a receiver   *)
(* gets the first one that unifies, the capacity holds, and an id is dead     *)
(* when its queue is destroyed.  The free list of mq_table keeps a slot, no   *)
(* id comes back, and a private queue is given to a new thread when the old   *)
(* one has nobody left in it.                                                 *)
THEOREM QueueRefinesTermQueue ==
  ASSUME SlotsLeft, SignalKinds = {}, IdsLast
  PROVE  Spec /\ [][EntryLeft]_vars => ImplementsTermQueue
<1>1. Init => QueueInv
  <2>1. Init => PlaceInv /\ ~ fault
    BY DEF Init, PlaceInv, Placed
  <2> QED BY <2>1, InitLocked, InitSlots, InitQueues DEF QueueInv, FaultFreeInv
<1>2. QueueInv /\ [Next]_vars /\ [EntryLeft]_vars => QueueInv'
  BY NextQueues
<1>3. QueueInv /\ [Next]_vars => [TQ!TQNext]_(TQ!tqVars)
  BY NextRefines
<1>4. Init => TQ!TQInit
  BY InitRefines
<1> QED BY <1>1, <1>2, <1>3, <1>4, PTL DEF Spec, ImplementsTermQueue
=============================================================================
