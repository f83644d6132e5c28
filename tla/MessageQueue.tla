---------------------------- MODULE MessageQueue ----------------------------
(* Prolog message queues of the multi-threaded engine: emu/thread_xsb.c       *)
(* (THREAD_SEND_MESSAGE ... XSB_MESSAGE_QUEUE_DESTROY, wait_on_queue,         *)
(* destroy_message_queue, queue_dealloc, init_message_queue) together with    *)
(* the Prolog loops of lib/mutex_xsb.P that drive them, and the part of the   *)
(* thread interrupt (XSB_THREAD_INTERRUPT, proceed_sub, '_$thread_int') that  *)
(* reaches a thread using a queue.                                            *)
(*                                                                            *)
(* A slot of mq_table is public (message_queue_create/2) or private (the      *)
(* queue a thread is born with).  A step is what a thread does between two    *)
(* acquisitions of a mutex, two waits, or a wait and a broadcast.             *)
EXTENDS Integers, SequencesExt

CONSTANTS
  Threads,     \* threads that use queues
  PubSlots,    \* entries of mq_table for public queues
  PrivSlots,   \* entries of mq_table for private queues
  Kinds,       \* what tells messages apart when a receiver unifies
  MaxTerms,    \* max_size of every queue; 0 is MQ_UNBOUNDED
  IncMask,     \* INC_MASK_RIGHT: incarnations are taken modulo IncMask + 1
  Senders, Receivers, Peekers, Managers,  \* who may start which operation
  MaxSends, MaxCreates, MaxSignals,       \* bounds on the calls made
  MaxOpen,     \* bound on the public queues that exist at a time
  SignalKinds, \* subset of {"goal", "cancel"}: what signals carry
  Nobody       \* no thread: a free mutex, mutex_owner = -1

Slots == PubSlots \cup PrivSlots

ASSUME ThreadsAssumption ==
  /\ Nobody \notin Threads /\ IsFiniteSet(Threads)
  /\ Senders \cup Receivers \cup Peekers \cup Managers \subseteq Threads
ASSUME SlotsAssumption ==
  /\ PubSlots \cap PrivSlots = {} /\ IsFiniteSet(PubSlots)
  /\ Nobody \notin Slots /\ "NULL" \notin Slots
ASSUME KindsAssumption == Kinds \cap {"unbound", "last"} = {}
ASSUME BoundsAssumption ==
  /\ MaxTerms \in Nat /\ IncMask \in Nat
  /\ MaxSends \in Nat /\ MaxCreates \in Nat /\ MaxSignals \in Nat /\ MaxOpen \in Nat
  /\ SignalKinds \subseteq {"goal", "cancel"}

(* A queue id: THREAD_ENTRY and THREAD_INCARN of the integer Prolog sees.     *)
Handle == [slot : Slots, incarn : 0 .. IncMask]
NoHandle == [slot |-> Nobody, incarn |-> 0]

(* A cell of the chain: a term and, for the properties, the id it was sent to. *)
(* current_mq_cell is 0 for NULL, -1 for a cell of the signal queue, freed.    *)
Cell == [n : 1 .. MaxSends, kind : Kinds, to : Handle]
Freed == -1

(* A NULL next_entry; mq_table read in order, as init_mq_table links it.      *)
NULL == "NULL"
table == SetToSeq(PubSlots)

Idle == [kind |-> "none", h |-> NoHandle, n |-> 0, want |-> "none"]

VARIABLES
  pc,          \* where each thread stands
  op,          \* the request it is in: kind, queue id, message sent or wanted
  cur,         \* th->current_mq_cell
  msg,         \* what the request bound MaybeMessage to
  asynint,     \* THREADINT_MARK in th->_asynint_val
  sigq,        \* the thread's signal queue
  signalled,   \* threads with a signal queued whose interrupt is still due
  mqMutex,     \* holder of q->mq_mutex
  mutexOwner,  \* q->mutex_owner
  qid,         \* q->id
  incarn,      \* q->incarn
  deleted,     \* q->deleted
  nThreads,    \* q->n_threads
  cells,       \* the chain first_message .. last_message; its length is q->size
  next, prev,  \* q->next_entry, q->prev_entry of the public slots
  ends,        \* mq_first_free, mq_last_free and mq_first_queue
  used,        \* queue ids handed to Prolog so far
  got,         \* history: the messages received, by which call
  calls,       \* calls made: sends, creates, signals
  fault        \* an undefined step was taken: a freed cell or a foreign mutex

threadVars == <<pc, op, cur, msg>>
signalVars == <<asynint, sigq, signalled>>
queueVars  == <<mqMutex, mutexOwner, qid, incarn, deleted, nThreads, cells>>
listVars   == <<next, prev, ends, used, got>>
vars == <<threadVars, signalVars, queueVars, listVars, calls, fault>>

-----------------------------------------------------------------------------
(* The state of a queue as a request sees it.                                 *)

slotOf(t) == op[t].h.slot

(* The condition of check_deleted, and two incomplete forms of it.            *)
StaleByMarkOnly(h) == deleted[h.slot]
StaleByIdOnly(h) == qid[h.slot] # h
Stale(h) == qid[h.slot] # h \/ deleted[h.slot]

Full(s) == MaxTerms # 0 /\ Len(cells[s]) >= MaxTerms

(* The slots reached from p through next_entry; NULL ends the walk.           *)
Chain(p) ==
  LET walk[i \in 0 .. Cardinality(PubSlots)] ==
        IF i = 0 THEN p ELSE IF walk[i - 1] = NULL THEN NULL ELSE next[walk[i - 1]]
  IN  {walk[i] : i \in DOMAIN walk} \ {NULL}

IndexOf(s, n) == CHOOSE i \in 1 .. Len(cells[s]) : cells[s][i].n = n

InChain(s, n) == \E i \in 1 .. Len(cells[s]) : cells[s][i].n = n

Goto(t, l) == pc' = [pc EXCEPT ![t] = l]

(* The request ends, with success or with an existence error.                 *)
Return(t) == Goto(t, "idle") /\ op' = [op EXCEPT ![t] = Idle]

AlwaysFree(s) == TRUE
Free(s) == mqMutex[s] = Nobody
Release(s) == mqMutex' = [mqMutex EXCEPT ![s] = Nobody]
SetOwner(s, t) == mutexOwner' = [mutexOwner EXCEPT ![s] = t]

-----------------------------------------------------------------------------
Init ==
  /\ pc = [t \in Threads |-> "idle"]
  /\ op = [t \in Threads |-> Idle]
  /\ cur = [t \in Threads |-> 0]
  /\ msg = [t \in Threads |-> "unbound"]
  /\ asynint = [t \in Threads |-> FALSE]
  /\ sigq = [t \in Threads |-> <<>>]
  /\ signalled = {}
  /\ mqMutex = [s \in Slots |-> Nobody]
  /\ mutexOwner = [s \in Slots |-> Nobody]
  /\ qid = [s \in Slots |-> IF s \in PubSlots THEN NoHandle
                            ELSE [slot |-> s, incarn |-> 0]]
  /\ incarn = [s \in Slots |-> IF s \in PubSlots THEN IncMask ELSE 0]
  /\ deleted = [s \in Slots |-> FALSE]
  /\ nThreads = [s \in Slots |-> 0]
  /\ cells = [s \in Slots |-> <<>>]
  /\ next = [s \in PubSlots |->
               LET i == CHOOSE j \in 1 .. Len(table) : table[j] = s
               IN  IF i = Len(table) THEN NULL ELSE table[i + 1]]
  /\ prev = [s \in PubSlots |-> NULL]
  /\ ends = IF table = <<>> THEN [free |-> NULL, last |-> NULL, queue |-> NULL]
            ELSE [free |-> Head(table), last |-> Last(table), queue |-> NULL]
  /\ used = {[slot |-> s, incarn |-> 0] : s \in PrivSlots}
  /\ got = {}
  /\ calls = [send |-> 0, create |-> 0, signal |-> 0]
  /\ fault = FALSE

-----------------------------------------------------------------------------
(* Starting a request.  The call instruction looks at the interrupt vector    *)
(* first, so a thread with a pending interrupt handles that instead.          *)

Start(t, l, kind, h, n, want) ==
  /\ pc[t] = "idle" /\ ~ asynint[t]
  /\ Goto(t, l)
  /\ op' = [op EXCEPT ![t] = [kind |-> kind, h |-> h, n |-> n, want |-> want]]
  /\ UNCHANGED <<cur, msg, signalVars, queueVars, listVars, fault>>

CallSend(t, h, k) ==
  /\ calls.send < MaxSends
  /\ calls' = [calls EXCEPT !.send = @ + 1]
  /\ Start(t, "send", "send", h, calls'.send, k)

CallGet(t, h, k) == Start(t, "try", "get", h, 0, k) /\ UNCHANGED calls

CallPeek(t, h, k) == Start(t, "peek", "peek", h, 0, k) /\ UNCHANGED calls

-----------------------------------------------------------------------------
(* q->n_threads counts the threads inside wait_on_queue.                      *)
Enter(s) == nThreads' = [nThreads EXCEPT ![s] = @ + 1]
LeaveUncounted(s) == UNCHANGED nThreads
Leave(s) == nThreads' = [nThreads EXCEPT ![s] = @ - 1]

(* Who finds n threads left in a deleted queue deallocates it.                *)
SomebodyWaits(n) == n >= 0
NobodyWaits(n) == n = 0

(* Suspending in wait_on_queue: q->n_threads is incremented and the mutex is  *)
(* given up in one step, mutex_owner reset.  th->cond_var_ptr is set exactly  *)
(* while pc is "wait" or "woken".                                             *)
Suspend(t, s) ==
  /\ Goto(t, "wait")
  /\ Release(s) /\ SetOwner(s, Nobody)

(* The cell is linked at the end and the mutex released; has_messages is      *)
(* broadcast afterwards.                                                      *)
Put(t, s) ==
  /\ cells' = [cells EXCEPT ![s] = Append(@, [n |-> op[t].n, kind |-> op[t].want,
                                                to |-> op[t].h])]
  /\ Release(s) /\ SetOwner(s, Nobody)
  /\ Goto(t, "bcast") /\ UNCHANGED op

(* The thread keeps the mutex and looks at the first cell; a thread that kept *)
(* its old current_mq_cell after a wait would look at the wrong one.          *)
TakeWhereLeft(t, s) ==
  /\ cur' = [cur EXCEPT ![t] = IF @ = 0 THEN Head(cells[s]).n ELSE @]
  /\ msg' = [msg EXCEPT ![t] = Head(cells[s]).kind]
  /\ mqMutex' = [mqMutex EXCEPT ![s] = t]
  /\ Goto(t, "got")
TakeFirst(t, s) ==
  /\ cur' = [cur EXCEPT ![t] = Head(cells[s]).n]
  /\ msg' = [msg EXCEPT ![t] = Head(cells[s]).kind]
  /\ mqMutex' = [mqMutex EXCEPT ![s] = t]
  /\ Goto(t, "got")

(* check_deleted on a stale id: the mutex is unlocked without resetting       *)
(* mutex_owner (still t if the queue was locked with lock_message_queue).     *)
ExistenceError(t, s, owner) ==
  /\ SetOwner(s, owner)
  /\ Return(t)
  /\ UNCHANGED <<cur, msg, mqMutex, nThreads, cells>>

(* THREAD_SEND_MESSAGE.                                                       *)
SendMessage(t) ==
  LET s == slotOf(t) IN
  /\ pc[t] = "send" /\ Free(s)
  /\ \/ Stale(op[t].h) /\ ExistenceError(t, s, t)
     \/ /\ ~ Stale(op[t].h) /\ Full(s)
        /\ Suspend(t, s)
        /\ Enter(s)
        /\ UNCHANGED <<op, cur, msg, cells>>
     \/ /\ ~ Stale(op[t].h) /\ ~ Full(s)
        /\ Put(t, s)
        /\ UNCHANGED <<cur, msg, nThreads>>
  /\ UNCHANGED <<signalVars, qid, incarn, deleted, listVars, calls, fault>>

(* THREAD_TRY_MESSAGE.                                                        *)
TryMessage(t) ==
  LET s == slotOf(t) IN
  /\ pc[t] = "try" /\ Free(s)
  /\ \/ Stale(op[t].h) /\ ExistenceError(t, s, t)
     \/ /\ ~ Stale(op[t].h) /\ cells[s] = <<>>
        /\ Suspend(t, s)
        /\ Enter(s)
        /\ UNCHANGED <<op, cur, msg, cells>>
     \/ /\ ~ Stale(op[t].h) /\ cells[s] # <<>>
        /\ TakeFirst(t, s) /\ SetOwner(s, t)
        /\ UNCHANGED <<op, nThreads, cells>>
  /\ UNCHANGED <<signalVars, qid, incarn, deleted, listVars, calls, fault>>

(* THREAD_PEEK_MESSAGE locks the mutex without recording an owner.            *)
PeekMessage(t) ==
  LET s == slotOf(t) IN
  /\ pc[t] = "peek" /\ Free(s)
  /\ \/ Stale(op[t].h) /\ ExistenceError(t, s, mutexOwner[s])
     \/ /\ ~ Stale(op[t].h) /\ cells[s] = <<>>
        /\ msg' = [msg EXCEPT ![t] = "last"]
        /\ mqMutex' = [mqMutex EXCEPT ![s] = t]
        /\ Goto(t, "got")
        /\ UNCHANGED <<op, cur, mutexOwner, nThreads, cells>>
     \/ /\ ~ Stale(op[t].h) /\ cells[s] # <<>>
        /\ TakeFirst(t, s)
        /\ UNCHANGED <<op, mutexOwner, nThreads, cells>>
  /\ UNCHANGED <<signalVars, qid, incarn, deleted, listVars, calls, fault>>

-----------------------------------------------------------------------------
(* The rest of wait_on_queue, and the loop around it, once the mutex is       *)
(* reacquired.  The interrupt is looked at before q->deleted.                 *)

WakeInterrupted(t) ==
  LET s == slotOf(t) IN
  /\ pc[t] = "woken" /\ Free(s) /\ asynint[t]
  /\ Leave(s)
  /\ SetOwner(s, t)
  /\ IF op[t].kind = "get"
       THEN /\ Goto(t, "got") /\ UNCHANGED op
            /\ msg' = [msg EXCEPT ![t] = "unbound"]
       ELSE Return(t) /\ UNCHANGED msg
  /\ UNCHANGED <<cur, signalVars, mqMutex, qid, incarn, deleted, cells,
                 listVars, calls, fault>>

WakeDeleted(t) ==
  LET s == slotOf(t) IN
  /\ pc[t] = "woken" /\ Free(s) /\ ~ asynint[t] /\ deleted[s]
  /\ Leave(s)
  /\ SetOwner(s, t)
  /\ IF NobodyWaits(nThreads'[s]) THEN Goto(t, "freeing") /\ UNCHANGED op ELSE Return(t)
  /\ UNCHANGED <<cur, msg, signalVars, mqMutex, qid, incarn, deleted, cells,
                 listVars, calls, fault>>

WakeRetest(t) ==
  LET s == slotOf(t) IN
  /\ pc[t] = "woken" /\ Free(s) /\ ~ asynint[t] /\ ~ deleted[s]
  /\ \/ /\ IF op[t].kind = "send" THEN Full(s) ELSE cells[s] = <<>>
        /\ Suspend(t, s)
        /\ UNCHANGED <<op, cur, msg, nThreads, cells>>
     \/ /\ op[t].kind = "send" /\ ~ Full(s)
        /\ Put(t, s)
        /\ Leave(s)
        /\ UNCHANGED <<cur, msg>>
     \/ /\ op[t].kind = "get" /\ cells[s] # <<>>
        /\ TakeFirst(t, s) /\ SetOwner(s, t)
        /\ Leave(s)
        /\ UNCHANGED <<op, cells>>
  /\ UNCHANGED <<signalVars, qid, incarn, deleted, listVars, calls, fault>>

(* pthread_cond_wait may return without a broadcast.                          *)
Spurious(t) ==
  /\ pc[t] = "wait" /\ Goto(t, "woken")
  /\ UNCHANGED <<op, cur, msg, signalVars, queueVars, listVars, calls, fault>>

-----------------------------------------------------------------------------
(* proceed_sub: a request that returned to Prolog runs '_$thread_int' before  *)
(* anything else if THREADINT_MARK is set, with whatever mutex it holds.      *)

Resume(t) ==
  /\ pc[t] = "got" /\ ~ asynint[t] /\ Goto(t, "go")
  /\ UNCHANGED <<op, cur, msg, signalVars, queueVars, listVars, calls, fault>>

(* execute_messages_on_signal_queue: the queued goals are peeked, received    *)
(* (which leaves current_mq_cell on a freed cell) and called; a cancellation  *)
(* throws, and the thread leaves its request without passing through          *)
(* THREAD_ACCEPT_MESSAGE or THREAD_UNLOCK_QUEUE.                              *)
HandleInterrupt(t) ==
  /\ pc[t] \in {"idle", "got"} /\ asynint[t]
  /\ asynint' = [asynint EXCEPT ![t] = FALSE]
  /\ sigq' = [sigq EXCEPT ![t] = <<>>]
  /\ cur' = [cur EXCEPT ![t] = IF sigq[t] = <<>> THEN @ ELSE Freed]
  /\ pc' = [pc EXCEPT ![t] = IF Contains(sigq[t], "cancel") THEN "dead" ELSE @]
  /\ UNCHANGED <<op, msg, signalled, queueVars, listVars, calls, fault>>

-----------------------------------------------------------------------------
(* After the unification in thread_get_message_1 and thread_peek_message_1.   *)

Unifies(t) == msg[t] \in {"unbound", op[t].want}

(* checklock_message_queue: a thread that mutex_owner does not name locks.    *)
CheckLock(t, s) == mutexOwner[s] = t \/ Free(s)

(* A thread taken for the owner may no longer hold the mutex.                 *)
OwnsMutex(t, s) == mutexOwner[s] # t \/ mqMutex[s] = t

(* size + 1 == max_size, tested once size is decremented.                     *)
WasFullTestedEarly(s) == Len(cells[s]) + 1 = MaxTerms
WasFull(s) == Len(cells[s]) = MaxTerms

(* THREAD_ACCEPT_MESSAGE unlinks current_mq_cell and frees it; has_free_cells *)
(* is broadcast when the queue was full.  Unlinking a cell that is not in the *)
(* chain, or releasing a mutex the thread does not hold, is undefined.        *)
AcceptMessage(t) ==
  LET s == slotOf(t) IN
  /\ pc[t] = "go" /\ op[t].kind = "get" /\ Unifies(t)
  /\ CheckLock(t, s)
  /\ IF OwnsMutex(t, s) /\ InChain(s, cur[t])
       THEN /\ cells' = [cells EXCEPT ![s] = RemoveAt(@, IndexOf(s, cur[t]))]
            /\ got' = got \cup {[n |-> cur[t], by |-> op[t].h, want |-> op[t].want]}
            /\ Release(s) /\ SetOwner(s, Nobody)
            /\ IF WasFull(s) THEN Goto(t, "bcast") /\ UNCHANGED op ELSE Return(t)
            /\ UNCHANGED fault
       ELSE fault' = TRUE /\ UNCHANGED <<pc, op, cells, got, mqMutex, mutexOwner>>
  /\ UNCHANGED <<cur, msg, signalVars, qid, incarn, deleted, nThreads,
                 next, prev, ends, used, calls>>

(* THREAD_RETRY_MESSAGE: at the last cell the thread suspends and will start  *)
(* again from the first one.  The mutex has been held since TRY, so checklock *)
(* finds it owned and check_deleted cannot find the queue deleted.            *)
RetryMessage(t) ==
  LET s == slotOf(t) IN
  /\ pc[t] = "go" /\ op[t].kind = "get" /\ ~ Unifies(t)
  /\ CheckLock(t, s)
  /\ \/ /\ cells[s] # <<>> /\ cur[t] = Last(cells[s]).n
        /\ Suspend(t, s)
        /\ Enter(s)
        /\ UNCHANGED <<cur, msg, fault>>
     \/ /\ InChain(s, cur[t]) /\ cur[t] # Last(cells[s]).n
        /\ LET c == cells[s][IndexOf(s, cur[t]) + 1] IN
             /\ cur' = [cur EXCEPT ![t] = c.n]
             /\ msg' = [msg EXCEPT ![t] = c.kind]
        /\ Goto(t, "got")
        /\ UNCHANGED <<mqMutex, mutexOwner, nThreads, fault>>
     \/ /\ ~ InChain(s, cur[t]) /\ fault' = TRUE
        /\ UNCHANGED <<pc, cur, msg, mqMutex, mutexOwner, nThreads>>
  /\ UNCHANGED <<op, signalVars, qid, incarn, deleted, cells, listVars, calls>>

(* THREAD_REPEEK_MESSAGE, while the cells seen do not unify.                  *)
RepeekMessage(t) ==
  LET s == slotOf(t) IN
  /\ pc[t] = "go" /\ op[t].kind = "peek"
  /\ msg[t] \notin {"last", op[t].want}
  /\ \/ /\ cells[s] # <<>> /\ cur[t] = Last(cells[s]).n
        /\ msg' = [msg EXCEPT ![t] = "last"]
        /\ Goto(t, "got") /\ UNCHANGED <<cur, fault>>
     \/ /\ InChain(s, cur[t]) /\ cur[t] # Last(cells[s]).n
        /\ LET c == cells[s][IndexOf(s, cur[t]) + 1] IN
             /\ cur' = [cur EXCEPT ![t] = c.n]
             /\ msg' = [msg EXCEPT ![t] = c.kind]
        /\ Goto(t, "got") /\ UNCHANGED fault
     \/ /\ ~ InChain(s, cur[t]) /\ fault' = TRUE
        /\ UNCHANGED <<pc, cur, msg>>
  /\ UNCHANGED <<op, signalVars, queueVars, listVars, calls>>

(* THREAD_UNLOCK_QUEUE ends a peek, found or not.                             *)
UnlockQueue(t) ==
  /\ pc[t] = "go" /\ op[t].kind = "peek" /\ msg[t] \in {"last", op[t].want}
  /\ Release(slotOf(t)) /\ Return(t)
  /\ UNCHANGED <<cur, msg, signalVars, mutexOwner, qid, incarn, deleted,
                 nThreads, cells, listVars, calls, fault>>

-----------------------------------------------------------------------------
(* Broadcasts, made after the mutex is released.                              *)

(* Which waits a broadcast of a finished request ends; without the one of     *)
(* THREAD_SEND_MESSAGE, or with one of the two of destroy_message_queue.      *)
wakesNotOnSend == [send |-> {}, get |-> {"send"},
                   destroy |-> {"get", "send"}, exit |-> {"get", "send"}]
wakesReadersOnDestroy == [send |-> {"get"}, get |-> {"send"},
                          destroy |-> {"get"}, exit |-> {"get"}]
wakes == [send |-> {"get"}, get |-> {"send"},
          destroy |-> {"get", "send"}, exit |-> {"get", "send"}]

Waiting(s, kinds) == {u \in Threads : pc[u] = "wait" /\ slotOf(u) = s /\ op[u].kind \in kinds}

Broadcast(t) ==
  /\ pc[t] = "bcast"
  /\ pc' = [u \in Threads |->
              IF u = t THEN "idle"
              ELSE IF u \in Waiting(slotOf(t), wakes[op[t].kind]) THEN "woken" ELSE pc[u]]
  /\ op' = [op EXCEPT ![t] = Idle]
  /\ UNCHANGED <<cur, msg, signalVars, queueVars, listVars, calls, fault>>

-----------------------------------------------------------------------------
(* Creation and destruction.                                                  *)

(* MESSAGE_QUEUE_CREATE under pub_mq_mutex: the first free slot is inserted at *)
(* the head of the queues.  An empty free list is a resource error that       *)
(* changes nothing.                                                           *)
CreateQueue(t) ==
  LET s == ends.free IN
  /\ pc[t] = "idle" /\ ~ asynint[t]
  /\ calls.create < MaxCreates /\ Cardinality(Chain(ends.queue)) < MaxOpen
  /\ s # NULL
  /\ calls' = [calls EXCEPT !.create = @ + 1]
  /\ ends' = [ends EXCEPT !.free = next[s], !.queue = s]
  /\ prev' = [q \in PubSlots |-> IF q = s THEN NULL
                                 ELSE IF q = ends.queue THEN s ELSE prev[q]]
  /\ next' = [next EXCEPT ![s] = ends.queue]
  /\ Goto(t, "init")
  /\ op' = [op EXCEPT ![t] = [kind |-> "create", h |-> [slot |-> s, incarn |-> 0],
                                n |-> 0, want |-> "none"]]
  /\ UNCHANGED <<cur, msg, signalVars, queueVars, used, got, fault>>

(* (incarn + 1) & INC_MASK_RIGHT                                              *)
NextIncarnUnmasked(i) == i + 1
NextIncarn(i) == (i + 1) % (IncMask + 1)

(* init_message_queue; a public queue takes the next incarnation of its slot, *)
(* a private one that of its thread's entry, which th_new has incremented.    *)
Renew(s) ==
  /\ Free(s)
  /\ cells' = [cells EXCEPT ![s] = <<>>]
  /\ nThreads' = [nThreads EXCEPT ![s] = 0]
  /\ deleted' = [deleted EXCEPT ![s] = FALSE]
  /\ SetOwner(s, Nobody)
  /\ incarn' = [incarn EXCEPT ![s] = NextIncarn(@)]
  /\ qid' = [qid EXCEPT ![s] = [slot |-> s, incarn |-> incarn'[s]]]
  /\ used' = used \cup {qid'[s]}

InitQueue(t) ==
  /\ pc[t] = "init" /\ Renew(slotOf(t))
  /\ Return(t)
  /\ UNCHANGED <<cur, msg, signalVars, mqMutex, next, prev, ends, got, calls, fault>>

(* destroy_message_queue, up to the broadcast or queue_dealloc that follows.  *)
(* A thread's exit destroys its private queue without check_deleted.          *)
Destroy(t, kind, h) ==
  /\ pc[t] = "idle" /\ ~ asynint[t] /\ Free(h.slot)
  /\ deleted' = [deleted EXCEPT ![h.slot] = TRUE]
  /\ Goto(t, IF NobodyWaits(nThreads[h.slot]) THEN "freeing" ELSE "bcast")
  /\ op' = [op EXCEPT ![t] = [kind |-> kind, h |-> h, n |-> 0, want |-> "none"]]
  /\ UNCHANGED <<cur, msg, signalVars, mqMutex, mutexOwner, qid, incarn,
                 nThreads, cells, listVars, calls, fault>>

DestroyQueue(t, h) == h.slot \in PubSlots /\ ~ Stale(h) /\ Destroy(t, "destroy", h)

ExitThread(t, s) == ~ deleted[s] /\ Destroy(t, "exit", qid[s])

(* xsb_thread_setup gives the entry, and with it the queue, to a new thread.  *)
(* th_mutex is held from the exit's destroy_message_queue to its end.         *)
SetupThread(s) ==
  /\ deleted[s] /\ calls.create < MaxCreates
  /\ \A t \in Threads : ~ (op[t].kind = "exit" /\ slotOf(t) = s)
  /\ calls' = [calls EXCEPT !.create = @ + 1]
  /\ Renew(s)
  /\ UNCHANGED <<threadVars, signalVars, mqMutex, next, prev, ends, got, fault>>

(* queue_dealloc, under pub_mq_mutex: a public slot leaves the list of queues  *)
(* and is appended to the free list.  next_entry serves both lists, and a     *)
(* slot that becomes the whole free list keeps the one it had.                *)
Unlink(s) ==
  LET nx == [q \in PubSlots |-> IF q = prev[s] THEN next[s] ELSE next[q]]
      first == IF ends.queue = s THEN next[s] ELSE ends.queue
  IN
  /\ prev' = [q \in PubSlots |-> IF q = next[s] THEN prev[s] ELSE prev[q]]
  /\ IF ends.free = NULL
       THEN /\ next' = nx
            /\ ends' = [free |-> s, last |-> s, queue |-> first]
       ELSE /\ next' = [q \in PubSlots |-> IF q = s THEN NULL
                                           ELSE IF q = ends.last THEN s ELSE nx[q]]
            /\ ends' = [free |-> ends.free, last |-> s, queue |-> first]

Dealloc(t) ==
  LET s == slotOf(t) IN
  /\ pc[t] = "freeing"
  /\ cells' = [cells EXCEPT ![s] = <<>>]
  /\ IF s \in PubSlots
       THEN Unlink(s)
       ELSE UNCHANGED <<next, prev, ends>>
  /\ Return(t)
  /\ UNCHANGED <<cur, msg, signalVars, mqMutex, mutexOwner, qid, incarn,
                 deleted, nThreads, used, got, calls, fault>>

-----------------------------------------------------------------------------
(* Signals (external: the signalling thread neither waits nor holds a mutex). *)

(* thread_signal_1 first puts the goal on the signal queue ...                *)
Signal(u, goal) ==
  /\ calls.signal < MaxSignals /\ pc[u] # "dead"
  /\ calls' = [calls EXCEPT !.signal = @ + 1]
  /\ sigq' = [sigq EXCEPT ![u] = Append(@, goal)]
  /\ signalled' = signalled \cup {u}
  /\ UNCHANGED <<threadVars, asynint, queueVars, listVars, fault>>

(* ... then XSB_THREAD_INTERRUPT sets the mark and broadcasts on              *)
(* ctxt->cond_var_ptr, holding th_mutex but not the queue's mutex.            *)
ThreadInterrupt(u) ==
  /\ u \in signalled
  /\ signalled' = signalled \ {u}
  /\ asynint' = [asynint EXCEPT ![u] = pc[u] # "dead"]
  /\ pc' = IF pc[u] \in {"wait", "woken"}
             THEN [v \in Threads |->
                     IF v \in Waiting(slotOf(u), {op[u].kind}) THEN "woken" ELSE pc[v]]
             ELSE pc
  /\ UNCHANGED <<op, cur, msg, sigq, queueVars, listVars, calls, fault>>

-----------------------------------------------------------------------------
(* What a thread does without deciding to: the continuation of its request.   *)
Continue(t) ==
  \/ SendMessage(t) \/ TryMessage(t) \/ PeekMessage(t)
  \/ WakeInterrupted(t) \/ WakeDeleted(t) \/ WakeRetest(t)
  \/ Resume(t) \/ HandleInterrupt(t)
  \/ AcceptMessage(t) \/ RetryMessage(t) \/ RepeekMessage(t) \/ UnlockQueue(t)
  \/ Broadcast(t) \/ InitQueue(t) \/ Dealloc(t)

Request(t) ==
  \/ t \in Senders /\ \E h \in used, k \in Kinds : CallSend(t, h, k)
  \/ t \in Receivers /\ \E h \in used, k \in Kinds : CallGet(t, h, k)
  \/ t \in Peekers /\ \E h \in used, k \in Kinds : CallPeek(t, h, k)
  \/ t \in Managers /\ CreateQueue(t)
  \/ t \in Managers /\ \E h \in used : DestroyQueue(t, h)
  \/ t \in Managers /\ \E s \in PrivSlots : ExitThread(t, s)

(* After an undefined step anything may happen: nothing more is said.         *)
Next ==
  /\ ~ fault
  /\ \/ \E t \in Threads : Request(t) \/ Continue(t) \/ Spurious(t)
     \/ \E s \in PrivSlots : SetupThread(s)
     \/ \E u \in Threads, goal \in SignalKinds : Signal(u, goal)
     \/ \E u \in Threads : ThreadInterrupt(u)

Spec == Init /\ [][Next]_vars

(* A thread inside a request keeps running; a mutex released again and again  *)
(* is eventually granted to each thread waiting for it.                       *)
FairSpec ==
  /\ Spec
  /\ \A t \in Threads : SF_vars(~ fault /\ Continue(t))
  /\ \A u \in Threads : WF_vars(~ fault /\ ThreadInterrupt(u))

-----------------------------------------------------------------------------
(* Properties.                                                                *)

(* The queues as the predicates promise them.                                 *)
OpenIds == {qid[s] : s \in {r \in Slots : qid[r] # NoHandle /\ ~ deleted[r]}}

Waiters(s) == {t \in Threads : pc[t] \in {"wait", "woken"} /\ slotOf(t) = s}

\* Every variable stays in its range; n_threads may be any integer.
TypeOK ==
  /\ pc \in [Threads -> {"idle", "send", "try", "peek", "wait", "woken", "got",
                         "go", "bcast", "init", "freeing", "dead"}]
  /\ \A t \in Threads : op[t].h = NoHandle \/ op[t].h \in Handle
  /\ cur \in [Threads -> -1 .. MaxSends]
  /\ msg \in [Threads -> Kinds \cup {"unbound", "last"}]
  /\ asynint \in [Threads -> BOOLEAN] /\ signalled \subseteq Threads
  /\ mqMutex \in [Slots -> Threads \cup {Nobody}]
  /\ mutexOwner \in [Slots -> Threads \cup {Nobody}]
  /\ qid \in [Slots -> Handle \cup {NoHandle}]
  /\ incarn \in [Slots -> 0 .. IncMask]
  /\ next \in [PubSlots -> PubSlots \cup {NULL}] /\ prev \in [PubSlots -> PubSlots \cup {NULL}]
  /\ ends \in [{"free", "last", "queue"} -> PubSlots \cup {NULL}]
  /\ deleted \in [Slots -> BOOLEAN] /\ nThreads \in [Slots -> Int]
  /\ \A s \in Slots : cells[s] \in Seq(Cell)
  /\ used \subseteq Handle /\ fault \in BOOLEAN

\* q->n_threads is the number of threads inside wait_on_queue: destroy and the
\* last waiter decide on it who deallocates, across interrupts and slot reuse.
WaitersCounted == \A s \in PubSlots : nThreads[s] = Cardinality(Waiters(s))

\* A slot waits to be reused only when no thread of its last queue still waits
\* in it, holds its mutex or is about to deallocate it (comments of
\* queue_dealloc and destroy_message_queue).
FreeSlotUnused ==
  \A s \in Chain(ends.free) \cup {slotOf(t) : t \in {u \in Threads : pc[u] = "init"}} :
    \A t \in Threads : /\ pc[t] \in {"wait", "woken", "freeing"} => slotOf(t) # s
                       /\ mqMutex[s] # t

\* Each public slot is on exactly one of the two lists, and a destroyed queue
\* is deallocated by one thread only.
ListsPartition ==
  /\ Chain(ends.free) \cap Chain(ends.queue) = {}
  /\ Chain(ends.free) \cup Chain(ends.queue) = PubSlots
  /\ \A t, u \in Threads :
       (t # u /\ pc[t] = "freeing" /\ pc[u] = "freeing" /\ slotOf(t) \in PubSlots)
         => slotOf(t) # slotOf(u)

\* From TRY to ACCEPT a receiver, and for its peek a peeker, holds the queue's
\* mutex, and mutex_owner names the receiver (comment on THREAD_TRY_MESSAGE):
\* the requests in between rely on it and do not lock.
ReceiverHoldsQueue ==
  \A t \in Threads : pc[t] \in {"got", "go"} =>
    /\ mqMutex[slotOf(t)] = t
    /\ op[t].kind = "get" => mutexOwner[slotOf(t)] = t

\* No request touches a freed cell or releases a mutex it does not hold.
NoFault == ~ fault

\* A queue is freed and linked out of the public list only when it is marked
\* deleted, and a deleted one never gains a message or a waiter again before
\* it is renewed.
DeletedStaysQuiet ==
  [][\A s \in PubSlots : (deleted[s] /\ deleted'[s]) =>
       /\ Waiters(s)' \subseteq Waiters(s)
       /\ cells'[s] \in {cells[s], <<>>}]_vars

TQ == INSTANCE TermQueue WITH
        Ids <- Handle, Stamps <- 1 .. MaxSends, Preset <- {[slot |-> s, incarn |-> 0] : s \in PrivSlots},
        queues <- [i \in OpenIds |-> cells[i.slot]],
        known <- used

\* Sends, receives and destructions behave as on an abstract queue: a stale id
\* reaches no later queue of the slot, capacity holds, and a receiver takes the
\* first message that unifies.
ImplementsTermQueue == TQ!TQInit /\ [][TQ!TQNext]_(TQ!tqVars)

\* A destroyed queue is deallocated in the end ("let the last one really
\* delete it", destroy_message_queue).
DestroyedReclaimed ==
  \A s \in PubSlots : deleted[s] ~> (s \in Chain(ends.free) \/ ~ deleted[s])

\* No wakeup of a receiver is lost: suspended on a queue that holds a message it
\* wants (has_messages, broadcast after the mutex is released), it goes on.
ReceiverWoken ==
  \A t \in Threads :
    (pc[t] = "wait" /\ op[t].kind = "get"
       /\ \E i \in 1 .. Len(cells[slotOf(t)]) : cells[slotOf(t)][i].kind = op[t].want)
      ~> pc[t] # "wait"

\* Nor one of a sender: has_free_cells is broadcast only by the request that
\* found the queue full, and a sender suspended on a queue with room goes on.
SenderWoken ==
  \A t \in Threads :
    (pc[t] = "wait" /\ op[t].kind = "send" /\ ~ Full(slotOf(t))) ~> pc[t] # "wait"

-----------------------------------------------------------------------------
(* Two properties that interrupts refute: README.md, 2.9.                     *)

\* A cancelled thread leaves no queue mutex behind ("clean up its mutexes",
\* docs/userman/threads.tex:496).
DeadHoldsNothing ==
  \A t \in Threads : pc[t] = "dead" => \A s \in Slots : mqMutex[s] # t

\* A thread whose interrupt mark is set handles it, blocked on a queue or not.
SignalHandled == \A t \in Threads : asynint[t] ~> (~ asynint[t] \/ pc[t] = "dead")
=============================================================================
