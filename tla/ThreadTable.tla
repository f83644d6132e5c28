----------------------------- MODULE ThreadTable -----------------------------
(* The thread table th_vec of emu/thread_xsb.c, its list of threads and its   *)
(* free list, and the requests that change it: thread_create/2,3,             *)
(* thread_join/2, thread_detach/1 and the exit of a thread, with what         *)
(* syslib/thread.P keeps beside it (aliases and exit balls).                  *)
(*                                                                            *)
(* A section of the code under th_mutex is one step; code that changes the    *)
(* table without th_mutex is cut into smaller steps.                          *)
EXTENDS Integers, Sequences, FiniteSets

CONSTANTS
  PThreads,    \* POSIX threads the process may run; each runs once
  Main,        \* the one that calls init_system_threads
  NSlots,      \* max_threads_glc, the length of th_vec
  IncMask,     \* INC_MASK_RIGHT
  Aliases,     \* alias names
  Creators, Joiners, Detachers, Throwers,  \* who may start which request
  Modes,       \* subset of BOOLEAN: the values of the option detached(_)
  MaxLive,     \* bound on the entries in use
  SelfJoins,   \* whether a thread may be asked to join itself
  Failures,    \* bound on the calls of pthread_create that fail
  Nobody       \* no thread, no alias

ASSUME PThreadsAssumption ==
  /\ Main \in PThreads /\ Nobody \notin PThreads \cup Aliases
  /\ {"detached", "joined"} \cap (PThreads \cup {Nobody}) = {}
  /\ Creators \cup Joiners \cup Detachers \cup Throwers \subseteq PThreads
ASSUME SlotsAssumption ==
  /\ NSlots \in Nat \ {0} /\ IncMask \in Nat /\ Failures \in Nat /\ MaxLive \in Nat
ASSUME ModesAssumption == Modes \subseteq BOOLEAN /\ SelfJoins \in BOOLEAN

(* Entries are compared by address: NULL is below every entry.                *)
NULL == -1
Slots == 0 .. NSlots - 1
Entries == Slots \cup {NULL}

(* A thread id: THREAD_ENTRY and THREAD_INCARN.                               *)
Ids == [slot : Slots, incarn : 0 .. IncMask]
NoId == [slot |-> NULL, incarn |-> 0]

VARIABLES
  tab,       \* th_vec, field by field, and the heads of its lists
  pc,        \* where each POSIX thread stands
  self,      \* th->tid
  req,       \* the request a thread is in
  joinid,    \* POSIX: nobody, "detached", "joined", or the thread joining it
  thMutex,   \* holder of th_mutex, when a section needs more than one step
  numThreads, count,  \* flags[NUM_THREADS], and what a thread has read of it
  aliasOf,   \* '_$alias_dynamic'(Alias, THREAD_ALIAS, Id)
  balls,     \* '_$thread_exit_ball'(Id, _), the last one asserted first
  failures,  \* calls of pthread_create that failed
  born,      \* history: ids handed out by th_new
  returned,  \* history: whose ball thread_join/2 returned for which thread
  fault      \* memory outside th_vec was written

vars == <<tab, pc, self, req, joinid, thMutex, numThreads, count, aliasOf,
          balls, failures, born, returned, fault>>

-----------------------------------------------------------------------------
(* The lists.  A walk reads next_entry from p; it has i + 1 entries when it   *)
(* has not met NULL before.                                                   *)
Walk(tb, p) ==
  LET w[i \in 0 .. NSlots] ==
        IF i = 0 THEN p ELSE IF w[i - 1] = NULL THEN NULL ELSE tb.next[w[i - 1]]
  IN  w
Reach(tb, p) == {Walk(tb, p)[i] : i \in 0 .. NSlots} \ {NULL}

(* Where th_new inserts pos behind the head: after the first entry whose      *)
(* next_entry does not lie above pos.                                         *)
Before(tb, pos) ==
  LET w == Walk(tb, tb.first)
      i == CHOOSE i \in 0 .. NSlots :
             /\ w[i] # NULL /\ ~ tb.next[w[i]] > pos
             /\ \A j \in 0 .. i - 1 : tb.next[w[j]] > pos
  IN  w[i]

AtHead(tb, pos) ==
  [tb EXCEPT !.prev = [i \in Slots |-> IF i = pos THEN NULL
                                       ELSE IF i = tb.first THEN pos ELSE @[i]],
             !.next[pos] = tb.first, !.first = pos]

Behind(tb, p, pos) ==
  [tb EXCEPT !.prev = [i \in Slots |-> IF i = pos THEN p
                                       ELSE IF i = tb.next[p] THEN pos ELSE @[i]],
             !.next = [@ EXCEPT ![pos] = tb.next[p], ![p] = pos]]

InsertNoBackLink(tb, pos) ==
  IF tb.first = NULL \/ tb.first > pos
  THEN [tb EXCEPT !.next[pos] = tb.first, !.first = pos, !.prev[pos] = NULL]
  ELSE [Behind(tb, Before(tb, pos), pos) EXCEPT !.prev = [tb.prev EXCEPT ![pos] = NULL]]

InsertEntry(tb, pos) ==
  IF tb.first = NULL \/ tb.first > pos THEN AtHead(tb, pos)
  ELSE Behind(tb, Before(tb, pos), pos)

NextIncarnUnmasked(n) == n + 1
FirstIncarn(n) == 0
NextIncarn(n) == (n + 1) % (IncMask + 1)

(* th_new takes the head of the free list.                                    *)
ThNew(tb, p, detached, aliased) ==
  LET pos == tb.free
      t1 == InsertEntry([tb EXCEPT !.free = tb.next[pos]], pos)
  IN  [t1 EXCEPT !.ctxt[pos] = p, !.incarn[pos] = NextIncarn(@),
                 !.detached[pos] = detached, !.aliased[pos] = aliased,
                 !.exited[pos] = FALSE, !.valid[pos] = FALSE, !.ball[pos] = FALSE]

(* th_delete, in two halves.  When the free list is empty the entry becomes   *)
(* the whole list, but keeps its next_entry.                                  *)
UnlinkForwardOnly(tb, i) ==
  [tb EXCEPT
     !.next = [j \in Slots |-> IF j = tb.prev[i] THEN tb.next[i] ELSE @[j]],
     !.first = IF @ = i THEN tb.next[i] ELSE @]

Unlink(tb, i) ==
  [UnlinkForwardOnly(tb, i) EXCEPT
     !.prev = [j \in Slots |-> IF j = tb.next[i] THEN tb.prev[i] ELSE @[j]]]

ToFreeStillValid(tb, i) ==
  [tb EXCEPT !.next = [@ EXCEPT ![tb.last] = i, ![i] = NULL], !.last = i]

ToFree(tb, i) ==
  IF tb.free = NULL THEN [tb EXCEPT !.free = i, !.last = i, !.valid[i] = FALSE]
  ELSE [ToFreeStillValid(tb, i) EXCEPT !.valid[i] = FALSE]

ThDelete(tb, i) == ToFree(Unlink(tb, i), i)

(* th_get: the POSIX thread of a valid id, or nobody.                         *)
ThGet(h) == IF tab.incarn[h.slot] = h.incarn /\ tab.valid[h.slot]
            THEN tab.tid[h.slot] ELSE Nobody

IdOf(tb, i) == [slot |-> i, incarn |-> tb.incarn[i]]

-----------------------------------------------------------------------------
NoReq == [kind |-> "none", h |-> NoId, alias |-> Nobody, detached |-> FALSE,
          tid |-> Nobody, aliased |-> FALSE, ball |-> FALSE]

(* init_thread_table, then init_system_threads for the main thread.           *)
Table0 ==
  [next  |-> [i \in Slots |-> IF i = NSlots - 1 THEN NULL ELSE i + 1],
   prev  |-> [i \in Slots |-> NULL],
   free  |-> 0, last |-> NSlots - 1, first |-> NULL,
   incarn   |-> [i \in Slots |-> IncMask],
   valid    |-> [i \in Slots |-> FALSE],
   detached |-> [i \in Slots |-> FALSE],
   exited   |-> [i \in Slots |-> FALSE],
   aliased  |-> [i \in Slots |-> FALSE],
   ball     |-> [i \in Slots |-> FALSE],
   ctxt     |-> [i \in Slots |-> Nobody],
   tid      |-> [i \in Slots |-> Nobody]]

Init ==
  /\ tab = [ThNew(Table0, Main, FALSE, FALSE) EXCEPT !.tid[0] = Main, !.valid[0] = TRUE]
  /\ pc = [p \in PThreads |-> IF p = Main THEN "idle" ELSE "unborn"]
  /\ self = [p \in PThreads |-> IF p = Main THEN [slot |-> 0, incarn |-> 0] ELSE NoId]
  /\ req = [p \in PThreads |-> NoReq]
  /\ joinid = [p \in PThreads |-> Nobody]
  /\ thMutex = Nobody
  /\ numThreads = 1 /\ count = [p \in PThreads |-> 0]
  /\ aliasOf = [a \in Aliases |-> NoId]
  /\ balls = <<>>
  /\ failures = 0
  /\ born = {[slot |-> 0, incarn |-> 0]}
  /\ returned = {}
  /\ fault = FALSE

Goto(p, l) == pc' = [pc EXCEPT ![p] = l]
Ask(p, r) == req' = [req EXCEPT ![p] = r]
Done(p) == Goto(p, "idle") /\ Ask(p, NoReq)

(* Steps that leave everything but pc, req and the table as it is.            *)
Elsewhere == UNCHANGED <<self, joinid, thMutex, numThreads, count, aliasOf, balls,
                         failures, born, returned, fault>>

(* flags[NUM_THREADS] is loaded in one step and stored in another.            *)
LoadCount(p) == count' = [count EXCEPT ![p] = numThreads]
StoreCount(p, n) == numThreads' = n /\ count' = [count EXCEPT ![p] = 0]

-----------------------------------------------------------------------------
(* thread_create.  With an alias Prolog calls xsb_thread_setup, enters the    *)
(* alias and calls xsb_thread_create_1; without one C does the first and the  *)
(* last.  A full table is a resource error: the request has no step.          *)

Setup(p, detached, alias) ==
  /\ pc[p] = "idle" /\ p \in Creators
  /\ \E c \in PThreads : pc[c] = "unborn"
  /\ Cardinality(Reach(tab, tab.first)) < MaxLive
  /\ thMutex = Nobody /\ tab.free # NULL
  /\ tab' = ThNew(tab, Nobody, detached, alias # Nobody)
  /\ thMutex' = p /\ LoadCount(p) /\ Goto(p, "counting")
  /\ LET h == IdOf(tab', tab.free)
     IN  /\ Ask(p, [NoReq EXCEPT !.kind = "create", !.h = h, !.alias = alias,
                                 !.detached = detached])
         /\ born' = born \cup {h}
  /\ UNCHANGED <<self, joinid, numThreads, aliasOf, balls, failures, returned, fault>>

EndSetup(p) ==
  /\ pc[p] = "counting"
  /\ StoreCount(p, count[p] + 1)
  /\ thMutex' = Nobody
  /\ Goto(p, IF req[p].alias = Nobody THEN "spawn" ELSE "alias")
  /\ UNCHANGED <<tab, self, req, joinid, aliasOf, balls, failures, born, returned, fault>>

(* add_aliases_flag_error; an alias in use ends the request.                  *)
AddAlias(p) ==
  LET a == req[p].alias
  IN  /\ pc[p] = "alias"
      /\ IF aliasOf[a] = NoId
         THEN aliasOf' = [aliasOf EXCEPT ![a] = req[p].h] /\ Goto(p, "spawn")
         ELSE UNCHANGED aliasOf /\ Goto(p, "clash")
      /\ UNCHANGED <<tab, self, req, joinid, thMutex, numThreads, count, balls, failures,
                     born, returned, fault>>

(* pthread_create, which stores the new thread in th_vec[pos].tid.            *)
Spawn(p, c) ==
  /\ pc[p] = "spawn" /\ pc[c] = "unborn"
  /\ pc' = [pc EXCEPT ![p] = "mark", ![c] = "born"]
  /\ self' = [self EXCEPT ![c] = req[p].h]
  /\ joinid' = [joinid EXCEPT ![c] = IF req[p].detached THEN "detached" ELSE Nobody]
  /\ tab' = [tab EXCEPT !.tid[req[p].h.slot] = c, !.ctxt[req[p].h.slot] = c]
  /\ UNCHANGED <<req, thMutex, numThreads, count, aliasOf, balls, failures, born,
                 returned, fault>>

SpawnFails(p) ==
  /\ pc[p] = "spawn" /\ failures < Failures
  /\ failures' = failures + 1
  /\ Goto(p, "markfailed")
  /\ UNCHANGED <<tab, self, req, joinid, thMutex, numThreads, count, aliasOf, balls,
                 born, returned, fault>>

(* th_vec[pos].valid = TRUE after pthread_create, without th_mutex.           *)
Mark(p) ==
  /\ pc[p] \in {"mark", "markfailed"}
  /\ tab' = [tab EXCEPT !.valid[req[p].h.slot] = TRUE]
  /\ IF pc[p] = "mark" THEN Done(p) ELSE Goto(p, "undo") /\ UNCHANGED req
  /\ Elsewhere

(* xsb_thread_run under th_mutex.                                             *)
RunThread(c) ==
  /\ pc[c] = "born" /\ thMutex = Nobody
  /\ tab' = [tab EXCEPT !.tid[self[c].slot] = c, !.valid[self[c].slot] = TRUE]
  /\ Goto(c, "idle")
  /\ UNCHANGED req /\ Elsewhere

(* The error paths: flags[NUM_THREADS]-- and th_delete without th_mutex.      *)
(* XSB_RECLAIM_THREAD_SETUP passes the whole id where th_delete takes the     *)
(* entry: an id with an incarnation lies outside th_vec.                      *)
Undo(p) ==
  /\ pc[p] \in {"undo", "clash"}
  /\ LoadCount(p)
  /\ Goto(p, IF pc[p] = "undo" THEN "undo2" ELSE "clash2")
  /\ UNCHANGED <<tab, self, req, joinid, thMutex, numThreads, aliasOf, balls, failures,
                 born, returned, fault>>

UndoUnlink(p) ==
  /\ pc[p] \in {"undo2", "clash2"}
  /\ StoreCount(p, count[p] - 1)
  /\ IF pc[p] = "clash2" /\ req[p].h.incarn # 0
     THEN fault' = TRUE /\ UNCHANGED tab /\ Goto(p, "idle") /\ Ask(p, NoReq)
     ELSE /\ tab' = Unlink(tab, req[p].h.slot)
          /\ Goto(p, "undo3") /\ UNCHANGED <<req, fault>>
  /\ UNCHANGED <<self, joinid, thMutex, aliasOf, balls, failures, born, returned>>

UndoLink(p) ==
  LET i == req[p].h.slot
  IN  /\ pc[p] = "undo3"
      /\ tab' = IF tab.free = NULL THEN [tab EXCEPT !.free = i]
                ELSE [tab EXCEPT !.next[tab.last] = i]
      /\ Goto(p, IF tab.free = NULL THEN "undo5" ELSE "undo4")
      /\ UNCHANGED req /\ Elsewhere

UndoToFree(p) ==
  LET i == req[p].h.slot
  IN  /\ pc[p] \in {"undo4", "undo5"}
      /\ tab' = [tab EXCEPT !.last = i, !.valid[i] = FALSE,
                            !.next[i] = IF pc[p] = "undo4" THEN NULL ELSE @]
      /\ Done(p) /\ Elsewhere

-----------------------------------------------------------------------------
(* The exit of a thread.  Prolog asks whether the entry is detached and       *)
(* removes the aliases or asserts the ball; after an exception the id in      *)
(* remove_alias is unbound, and every alias goes.                             *)

RemoveNoAlias(h) == aliasOf
RemoveAliases(h) == [a \in Aliases |-> IF aliasOf[a] = h THEN NoId ELSE aliasOf[a]]
RemoveAllAliases == [a \in Aliases |-> NoId]
KeepBalls(h) == balls
RetractBalls(h) ==
  LET kept[i \in 0 .. Len(balls)] ==
        IF i = 0 THEN <<>>
        ELSE IF balls[i] = h THEN kept[i - 1] ELSE Append(kept[i - 1], balls[i])
  IN  kept[Len(balls)]

LeaveProlog(p, ball) ==
  LET i == self[p].slot
  IN  /\ pc[p] = "idle" /\ p # Main
      /\ ball => p \in Throwers
      /\ Goto(p, "exit")
      /\ Ask(p, [NoReq EXCEPT !.kind = "exit", !.h = self[p], !.ball = ball])
      /\ IF tab.detached[i] /\ tab.aliased[i]
         THEN aliasOf' = IF ball THEN RemoveAllAliases ELSE RemoveAliases(self[p])
         ELSE UNCHANGED aliasOf
      /\ balls' = IF ball /\ ~ tab.detached[i] THEN <<self[p]>> \o balls ELSE balls
      /\ UNCHANGED <<tab, self, joinid, thMutex, numThreads, count, failures, born,
                     returned, fault>>

(* XSB_THREAD_EXIT under th_mutex.                                            *)
ExitNeverDeletes(tb, i, ball) ==
  [tb EXCEPT !.ctxt[i] = Nobody, !.exited[i] = TRUE, !.ball[i] = ball]

ExitEntry(tb, i, ball) ==
  LET t1 == [tb EXCEPT !.ctxt[i] = Nobody]
  IN  IF tb.detached[i] THEN ThDelete(t1, i)
      ELSE [t1 EXCEPT !.exited[i] = TRUE, !.ball[i] = ball]

ExitTable(p) ==
  /\ pc[p] = "exit" /\ thMutex = Nobody
  /\ tab' = ExitEntry(tab, self[p].slot, req[p].ball)
  /\ Goto(p, "uncount")
  /\ UNCHANGED req /\ Elsewhere

Uncount(p) ==
  /\ pc[p] = "uncount"
  /\ LoadCount(p) /\ Goto(p, "uncount2")
  /\ UNCHANGED <<tab, self, req, joinid, thMutex, numThreads, aliasOf, balls, failures,
                 born, returned, fault>>

(* flags[NUM_THREADS]-- is stored, and pthread_exit.                          *)
PthreadExit(p) ==
  /\ pc[p] = "uncount2"
  /\ StoreCount(p, count[p] - 1)
  /\ Goto(p, "gone")
  /\ UNCHANGED <<tab, self, req, joinid, thMutex, aliasOf, balls, failures, born,
                 returned, fault>>

-----------------------------------------------------------------------------
(* XSB_THREAD_JOIN.  th_get and th_delete are under th_mutex, pthread_join    *)
(* is between them.                                                           *)

JoinGet(p, h) ==
  /\ pc[p] = "idle" /\ p \in Joiners /\ thMutex = Nobody
  /\ SelfJoins \/ h # self[p]
  /\ ThGet(h) # Nobody
  /\ Ask(p, [NoReq EXCEPT !.kind = "join", !.h = h, !.tid = ThGet(h)])
  /\ Goto(p, "join")
  /\ UNCHANGED tab /\ Elsewhere

(* EDEADLK is neither EINVAL nor ESRCH, and the code goes on as if the thread *)
(* had been joined.                                                           *)
WouldDeadlock(p, q) == q = p \/ joinid[p] = q
Joinable(q) == joinid[q] = Nobody

JoinRefused(p) ==
  LET q == req[p].tid
  IN  /\ pc[p] = "join"
      /\ IF WouldDeadlock(p, q)
         THEN \E rval \in BOOLEAN :
                /\ Goto(p, "joined")
                /\ Ask(p, [req[p] EXCEPT !.ball = rval,
                                         !.aliased = tab.aliased[req[p].h.slot]])
         ELSE ~ Joinable(q) /\ Done(p)
      /\ UNCHANGED tab /\ Elsewhere

JoinWaits(p) ==
  LET q == req[p].tid
  IN  /\ pc[p] = "join" /\ ~ WouldDeadlock(p, q) /\ Joinable(q)
      /\ joinid' = [joinid EXCEPT ![q] = p]
      /\ Goto(p, "joining")
      /\ UNCHANGED <<tab, self, req, thMutex, numThreads, count, aliasOf, balls, failures,
                     born, returned, fault>>

(* pthread_join returns, with the value given to pthread_exit; the code reads *)
(* th_vec[..].aliased before it takes th_mutex again.                         *)
JoinReturns(p) ==
  LET q == req[p].tid
  IN  /\ pc[p] = "joining" /\ pc[q] = "gone"
      /\ joinid' = [joinid EXCEPT ![q] = "joined"]
      /\ Goto(p, "joined")
      /\ Ask(p, [req[p] EXCEPT !.aliased = tab.aliased[req[p].h.slot],
                               !.ball = req[q].ball])
      /\ UNCHANGED <<tab, self, thMutex, numThreads, count, aliasOf, balls, failures,
                     born, returned, fault>>

JoinDelete(p) ==
  /\ pc[p] = "joined" /\ thMutex = Nobody
  /\ tab' = ThDelete(tab, req[p].h.slot)
  /\ Goto(p, "answer")
  /\ UNCHANGED req /\ Elsewhere

(* thread_join_1: Id is not bound when the aliases are removed nor when the   *)
(* ball is looked up; the ball that is found binds it.                        *)
JoinAnswer(p) ==
  LET wanted == req[p].ball /\ balls # <<>>
  IN  /\ pc[p] = "answer"
      /\ aliasOf' = IF req[p].aliased THEN RemoveAllAliases ELSE aliasOf
      /\ balls' = IF wanted THEN RetractBalls(Head(balls)) ELSE balls
      /\ returned' = IF wanted THEN returned \cup {<<req[p].h, Head(balls)>>} ELSE returned
      /\ Done(p)
      /\ UNCHANGED <<tab, self, joinid, thMutex, numThreads, count, failures, born, fault>>

-----------------------------------------------------------------------------
(* XSB_THREAD_DETACH: th_get, pthread_detach, and the entry under th_mutex.   *)

DetachGet(p, h) ==
  /\ pc[p] = "idle" /\ p \in Detachers /\ thMutex = Nobody
  /\ ThGet(h) # Nobody
  /\ Ask(p, [NoReq EXCEPT !.kind = "detach", !.h = h, !.tid = ThGet(h)])
  /\ Goto(p, "detach")
  /\ UNCHANGED tab /\ Elsewhere

(* pthread_detach succeeds and does nothing when another thread is joining.   *)
PthreadDetach(p) ==
  LET q == req[p].tid
  IN  /\ pc[p] = "detach"
      /\ joinid' = IF joinid[q] = Nobody THEN [joinid EXCEPT ![q] = "detached"] ELSE joinid
      /\ IF joinid[q] \in {"detached", "joined"} THEN Done(p)
         ELSE Goto(p, "detached") /\ UNCHANGED req
      /\ UNCHANGED <<tab, self, thMutex, numThreads, count, aliasOf, balls, failures, born,
                     returned, fault>>

DetachOnlyMarks(tb, i) == [tb EXCEPT !.detached[i] = TRUE]
DetachDeletes(tb, i) == ThDelete(tb, i)
DetachEntry(tb, i) ==
  IF tb.exited[i] THEN ThDelete(tb, i) ELSE [tb EXCEPT !.detached[i] = TRUE]

DetachTable(p) ==
  LET i == req[p].h.slot
  IN  /\ pc[p] = "detached" /\ thMutex = Nobody
      /\ tab' = DetachEntry(tab, i)
      /\ aliasOf' = IF tab.exited[i] /\ ~ tab.detached[i] /\ tab.aliased[i]
                    THEN RemoveAliases(req[p].h) ELSE aliasOf
      /\ balls' = IF tab.exited[i] /\ tab.ball[i] THEN RetractBalls(req[p].h) ELSE balls
      /\ Done(p)
      /\ UNCHANGED <<self, joinid, thMutex, numThreads, count, failures, born, returned,
                     fault>>

-----------------------------------------------------------------------------
Continue(p) ==
  \/ EndSetup(p) \/ AddAlias(p) \/ (\E c \in PThreads : Spawn(p, c)) \/ SpawnFails(p)
  \/ Mark(p) \/ RunThread(p) \/ Undo(p) \/ UndoUnlink(p) \/ UndoLink(p) \/ UndoToFree(p)
  \/ ExitTable(p) \/ Uncount(p) \/ PthreadExit(p)
  \/ JoinRefused(p) \/ JoinWaits(p) \/ JoinReturns(p) \/ JoinDelete(p) \/ JoinAnswer(p)
  \/ PthreadDetach(p) \/ DetachTable(p)

Call(p) ==
  \/ \E d \in Modes, a \in Aliases \cup {Nobody} : Setup(p, d, a)
  \/ \E b \in BOOLEAN : LeaveProlog(p, b)
  \/ \E h \in born : JoinGet(p, h) \/ DetachGet(p, h)

Next == \E p \in PThreads : Call(p) \/ Continue(p)

Spec == Init /\ [][Next]_vars

(* A running thread is scheduled and gets a mutex that is free often enough.  *)
FairSpec == Spec /\ \A p \in PThreads : SF_vars(Continue(p))

-----------------------------------------------------------------------------
Active(p) == pc[p] \notin {"unborn", "born", "exit", "uncount", "uncount2", "gone"}
Quiet == \A p \in PThreads : pc[p] \in {"unborn", "idle", "gone"}

(* No th_delete without th_mutex is going on.                                 *)
Settled == \A p \in PThreads : pc[p] \notin {"undo3", "undo4", "undo5"}

(* Every field of the table, and every register of a request, has its type.   *)
TypeOK ==
  /\ tab \in [next : [Slots -> Entries], prev : [Slots -> Entries],
              free : Entries, last : Entries, first : Entries,
              incarn : [Slots -> 0 .. IncMask],
              valid : [Slots -> BOOLEAN], detached : [Slots -> BOOLEAN],
              exited : [Slots -> BOOLEAN], aliased : [Slots -> BOOLEAN],
              ball : [Slots -> BOOLEAN],
              ctxt : [Slots -> PThreads \cup {Nobody}],
              tid : [Slots -> PThreads \cup {Nobody}]]
  /\ self \in [PThreads -> Ids \cup {NoId}]
  /\ joinid \in [PThreads -> PThreads \cup {Nobody, "detached", "joined"}]
  /\ thMutex \in PThreads \cup {Nobody}
  /\ aliasOf \in [Aliases -> Ids \cup {NoId}]
  /\ balls \in Seq(Ids) /\ born \subseteq Ids /\ returned \subseteq born \X born

(* The list of threads and the free list are NULL-terminated, share no entry  *)
(* and leave none out, and prev_entry inverts next_entry on the former, when  *)
(* the table is settled.                                                      *)
ListsPartition ==
  Settled =>
  LET live == Reach(tab, tab.first)
      free == Reach(tab, tab.free)
  IN  /\ Walk(tab, tab.first)[NSlots] = NULL /\ Walk(tab, tab.free)[NSlots] = NULL
      /\ live \cap free = {} /\ live \cup free = Slots
      /\ \A i \in live : tab.prev[i] = NULL <=> i = tab.first
      /\ \A i \in live : tab.next[i] # NULL => tab.prev[tab.next[i]] = i

(* From the moment it runs until it gives its entry up, a thread owns the     *)
(* entry named by its id: listed, of its incarnation, leading back to it.     *)
RunningOwnsEntry ==
  \A p \in PThreads : Active(p) =>
    /\ self[p].slot \in Reach(tab, tab.first)
    /\ IdOf(tab, self[p].slot) = self[p]
    /\ tab.tid[self[p].slot] = p /\ tab.valid[self[p].slot]

(* threads.tex: a thread is valid if it has not terminated, or is joinable    *)
(* and not joined.  An entry on the free list is of no such thread.           *)
FreeIsInvalid == Settled => \A i \in Reach(tab, tab.free) : ~ tab.valid[i]

(* thread.P: the aliases of a thread are retracted after it is gone.  The one *)
(* of a thread that pthread_create could not make stays.                      *)
NoDanglingAlias ==
  Quiet /\ failures = 0 => \A a \in Aliases :
    aliasOf[a] = NoId \/ \E i \in Reach(tab, tab.first) : IdOf(tab, i) = aliasOf[a]

(* The ball of a thread that exited by an exception is kept, once, until the  *)
(* thread is joined or detached; nobody else's ball is.                       *)
ExitBallsKept ==
  Quiet =>
    /\ {balls[i] : i \in DOMAIN balls} =
         {IdOf(tab, i) : i \in {j \in Reach(tab, tab.first) : tab.exited[j] /\ tab.ball[j]}}
    /\ \A i, j \in DOMAIN balls : balls[i] = balls[j] => i = j

(* A thread id, as the documentation speaks of it: "none" until its POSIX     *)
(* thread is created.                                                         *)
lifeOf ==
  LET live == {IdOf(tab, i) : i \in Reach(tab, tab.first)}
      known == {self[p] : p \in PThreads}
  IN  [h \in Ids |-> IF h \notin known THEN "none"
                    ELSE IF h \notin live THEN "gone"
                    ELSE IF tab.exited[h.slot] THEN "exited"
                    ELSE IF tab.detached[h.slot] THEN "detached" ELSE "running"]

TL == INSTANCE ThreadLife WITH Ids <- Ids, life <- lifeOf

(* The table implements the life of a thread that the documentation gives.    *)
ImplementsThreadLife == TL!LifeSpec

(* What is kept of a thread that was detached is removed once it terminates,  *)
(* whichever of the detaching and the exiting thread comes last.              *)
DetachedReclaimed ==
  \A h \in Ids :
    (\E p \in PThreads : self[p] = h /\ pc[p] = "gone" /\ joinid[p] = "detached")
      ~> lifeOf[h] \in {"none", "gone"}

-----------------------------------------------------------------------------
(* Properties that some program refutes: README.md, 2.9.                     *)

(* The operations that "abort when more than 1 thread is active" test         *)
(* flags[NUM_THREADS]: when it is 1 nobody else runs Prolog.                  *)
AloneWhenCounted ==
  numThreads = 1 => Cardinality({p \in PThreads : Active(p)}) <= 1

(* threads.tex: an alias remains active for its thread until it is joined.    *)
(* It never goes while the thread runs its goal.                              *)
AliasKept ==
  [][\A a \in Aliases, p \in PThreads :
       aliasOf[a] = self[p] /\ Active(p) /\ self[p] # NoId /\ pc'[p] # "exit"
         => aliasOf'[a] = aliasOf[a]]_vars

(* threads.tex: thread_join/2 returns the status of the associated thread.    *)
JoinReturnsOwnBall == \A r \in returned : r[1] = r[2]

(* An alias in use is a permission error, not a write outside the table.      *)
NoFault == ~ fault
=============================================================================
