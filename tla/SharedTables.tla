----------------------------- MODULE SharedTables -----------------------------
(* Shared tables of the multi-threaded engine (SHARED_COMPL_TABLES): a thread *)
(* that calls the incomplete table of another one waits for it; the thread    *)
(* that would close a cycle of waiting threads resets the others, takes their *)
(* subgoals over and goes on (emu/usurp.h, emu/deadlock.c), until the SCC is  *)
(* completed and the waiting threads are woken (emu/complete_xsb_i.h,         *)
(* emu/complete_local.h).                                                     *)
(*                                                                            *)
(* A program is its call graph: what the clauses of each subgoal call, in any *)
(* order and whatever the answers are.  A step is what a thread does between  *)
(* two acquisitions of completing_mut, the reset of one thread, or the mark   *)
(* on one table.                                                              *)
EXTENDS Integers, SequencesExt

CONSTANTS
  Threads, Subgoals,
  Programs,    \* call graphs: functions from subgoals to sets of subgoals
  Negation,    \* the calls that may be tnot/1: "none", "stratified" or "any"
  Nobody       \* thread id -1, a NULL context or subgoal

ASSUME NobodyAssumption == Nobody \notin Threads \cup Subgoals
ASSUME ProgramsAssumption ==
  /\ Programs \subseteq [Subgoals -> SUBSET Subgoals]
  /\ IsFiniteSet(Threads) /\ IsFiniteSet(Subgoals)

VARIABLES
  calls,       \* the program that runs
  pc,          \* where each thread stands
  stack,       \* its completion stack, the oldest frame first
  cur,         \* the frame whose clauses it resolves; 0 is the top-level query
  goal,        \* producer_sf of the call it makes
  restart,     \* the call its reset program counter leads to, Nobody if not reset
  resetThread, deadlockLeader,  \* th->reset_thread, th->is_deadlock_leader
  waitTid, waitSub,    \* th->waiting_for_tid, th->waiting_for_subgoal
  victims,     \* the contexts chained by tmp_next, still to be reset
  sgf,         \* the subgoal that the next of them computes
  tid,         \* subg_tid of each subgoal, Nobody while it has no table
  grabbed,     \* subg_grabbed
  completed,   \* is_completed
  woken,       \* subgoals marked by a thread, whose broadcast is still due
  fault        \* the undefined step taken: "none", "running", "frame", "chain"
               \* or "negation"

threadVars == <<pc, cur, goal, restart, victims, sgf, woken>>
waitVars == <<resetThread, deadlockLeader, waitTid, waitSub>>
tableVars == <<tid, grabbed, completed>>
vars == <<calls, threadVars, stack, waitVars, tableVars, fault>>

(* A frame: its subgoal, level (level_num up to its order), the calls still   *)
(* to make, and the frame of the caller.                                      *)
Frame == [sub : Subgoals, level : Nat, todo : SUBSET Subgoals, parent : Nat]

Init ==
  /\ calls \in Programs
  /\ pc = [t \in Threads |-> "call"] /\ stack = [t \in Threads |-> <<>>]
  /\ cur = [t \in Threads |-> 0] /\ goal \in [Threads -> Subgoals]
  /\ restart = [t \in Threads |-> Nobody]
  /\ resetThread = [t \in Threads |-> FALSE]
  /\ deadlockLeader = [t \in Threads |-> FALSE]
  /\ waitTid = [t \in Threads |-> Nobody] /\ waitSub = [t \in Threads |-> Nobody]
  /\ victims = [t \in Threads |-> <<>>] /\ sgf = [t \in Threads |-> Nobody]
  /\ tid = [s \in Subgoals |-> Nobody] /\ grabbed = [s \in Subgoals |-> FALSE]
  /\ completed = {} /\ woken = [t \in Threads |-> {}]
  /\ fault = "none"

-----------------------------------------------------------------------------
(* The completion stack.                                                      *)

Goto(t, l) == pc' = [pc EXCEPT ![t] = l]

(* A step the code leaves undefined: nothing is said of what comes after.     *)
Undefined(kind) == pc' = [t \in Threads |-> "undefined"] /\ fault' = kind

OnStack(t, s) == \E i \in DOMAIN stack[t] : stack[t][i].sub = s
FrameOf(t, s) == CHOOSE i \in DOMAIN stack[t] : stack[t][i].sub = s
IsLeader(t, i) == i > 1 => stack[t][i - 1].level < stack[t][i].level

(* The frame to backtrack to below frame i.                                   *)
CallerIsFrame(t, i) == i
Caller(t, i) == stack[t][i].parent

(* The top-level query or the clauses of frame i go on.                       *)
GoOn(t, i) == IF i = 0 THEN "done" ELSE "run"

(* A new producer.                                                            *)
Push(t, s) ==
  /\ stack' = [stack EXCEPT ![t] = Append(@, [sub |-> s, level |-> Len(@) + 1,
                                              todo |-> calls[s], parent |-> cur[t]])]
  /\ cur' = [cur EXCEPT ![t] = Len(stack[t]) + 1]
  /\ Goto(t, "run")

(* adjust_level: the frames from that of s to the youngest join one SCC.      *)
AdjustedAlone(t, s) ==
  [stack[t] EXCEPT ![Len(stack[t])].level = stack[t][FrameOf(t, s)].level]
Adjusted(t, s) ==
  LET i == FrameOf(t, s)
      level == stack[t][i].level
  IN  [j \in DOMAIN stack[t] |->
         IF j >= i /\ stack[t][j].level >= level
         THEN [stack[t][j] EXCEPT !.level = level] ELSE stack[t][j]]

-----------------------------------------------------------------------------
(* tabletry of the call in goal.                                              *)

CallNew(t) ==
  LET s == goal[t]
  IN  /\ pc[t] = "call" /\ tid[s] = Nobody
      /\ tid' = [tid EXCEPT ![s] = t]
      /\ Push(t, s)
      /\ UNCHANGED <<calls, goal, restart, victims, sgf, woken, waitVars, grabbed,
                     completed, fault>>

CallCompleted(t) ==
  /\ pc[t] = "call" /\ goal[t] \in completed
  /\ Goto(t, GoOn(t, cur[t]))
  /\ UNCHANGED <<calls, stack, cur, goal, restart, victims, sgf, woken, waitVars,
                 tableVars, fault>>

(* usurp.h: a deadlock leader takes a grabbed subgoal without completing_mut. *)
Grabs(t, s) == grabbed[s] /\ deadlockLeader[t]

CallGrabbed(t) ==
  LET s == goal[t]
  IN  /\ pc[t] = "call" /\ tid[s] # Nobody /\ s \notin completed /\ Grabs(t, s)
      /\ grabbed' = [grabbed EXCEPT ![s] = FALSE]
      /\ Push(t, s)
      /\ UNCHANGED <<calls, goal, restart, victims, sgf, woken, waitVars, tid, completed,
                     fault>>

(* A consumer of a table of one's own.                                        *)
CallOwn(t) ==
  LET s == goal[t]
  IN  /\ pc[t] = "call" /\ tid[s] = t /\ s \notin completed /\ ~ Grabs(t, s)
      /\ IF OnStack(t, s)
         THEN /\ stack' = [stack EXCEPT ![t] = Adjusted(t, s)]
              /\ Goto(t, GoOn(t, cur[t])) /\ UNCHANGED fault
         ELSE Undefined("frame") /\ UNCHANGED stack
      /\ UNCHANGED <<calls, cur, goal, restart, victims, sgf, woken, waitVars, tableVars>>

CallForeign(t) ==
  LET s == goal[t]
  IN  /\ pc[t] = "call" /\ tid[s] \notin {t, Nobody} /\ s \notin completed
      /\ ~ Grabs(t, s)
      /\ resetThread' = [resetThread EXCEPT ![t] = FALSE]
      /\ Goto(t, "lock")
      /\ UNCHANGED <<calls, stack, cur, goal, restart, victims, sgf, woken,
                     deadlockLeader, waitTid, waitSub, tableVars, fault>>

-----------------------------------------------------------------------------
(* The loop of usurp.h, and that of a negative call (bineg_xsb_i.h), under    *)
(* completing_mut.                                                            *)
WaitOf  == [lock |-> "wait", negLock |-> "negWait"]
LockOf  == [wait |-> "lock", negWait |-> "negLock"]
ResetOf == [lock |-> "reset", negLock |-> "negReset"]
InLoop(t) == pc[t] \in DOMAIN WaitOf

(* The threads met from u along waiting_for_tid, u included.                  *)
WaitPath(u) ==
  LET p[i \in 0 .. Cardinality(Threads)] ==
        IF i = 0 THEN u ELSE IF p[i - 1] = Nobody THEN Nobody ELSE waitTid[p[i - 1]]
  IN  p
WouldDeadlockOneHop(u, t) == u = t \/ waitTid[u] = t
WouldDeadlock(u, t) == \E i \in DOMAIN WaitPath(u) : WaitPath(u)[i] = t

(* The contexts from u to the one before t.                                   *)
Chain(u, t) ==
  LET p == WaitPath(u)
      n == CHOOSE i \in DOMAIN p : p[i] = t /\ \A j \in DOMAIN p : p[j] = t => i <= j
  IN  [i \in 1 .. n |-> p[i - 1]]

(* The table is complete.  A positive call looks at reset_thread, which it    *)
(* has cleared; a negative one goes on wherever pcreg leads.                  *)
WasReset(t) == IF pc[t] = "lock" THEN resetThread[t] ELSE restart[t] # Nobody
StopWaiting(t) ==
  /\ InLoop(t) /\ goal[t] \in completed
  /\ waitTid' = [waitTid EXCEPT ![t] = Nobody]
  /\ waitSub' = [waitSub EXCEPT ![t] = Nobody]
  /\ IF WasReset(t)
     THEN Goto(t, "call") /\ goal' = [goal EXCEPT ![t] = restart[t]]
     ELSE Goto(t, GoOn(t, cur[t])) /\ UNCHANGED goal
  /\ UNCHANGED <<calls, stack, cur, restart, victims, sgf, woken, resetThread,
                 deadlockLeader, tableVars, fault>>

Wait(t) ==
  LET s == goal[t]
  IN  /\ InLoop(t) /\ s \notin completed /\ ~ WouldDeadlock(tid[s], t)
      /\ waitTid' = [waitTid EXCEPT ![t] = tid[s]]
      /\ waitSub' = [waitSub EXCEPT ![t] = s]
      /\ deadlockLeader' = [deadlockLeader EXCEPT ![t] = @ /\ pc[t] = "negLock"]
      /\ Goto(t, WaitOf[pc[t]])
      /\ UNCHANGED <<calls, stack, cur, goal, restart, victims, sgf, woken, resetThread,
                     tableVars, fault>>

(* The first half of reset_other_threads; then completing_mut is released.    *)
(* A context has one tmp_next: chained again while another leader is still to *)
(* come along it, without the mutex, it sends that one along a mixed chain.   *)
StillChained(t) == UNION {ToSet(victims[w]) : w \in Threads \ {t}}

Usurp(t) ==
  LET s == goal[t]
      chain == Chain(tid[s], t)
  IN  /\ InLoop(t) /\ s \notin completed /\ WouldDeadlock(tid[s], t)
      /\ victims' = [victims EXCEPT ![t] = chain]
      /\ sgf' = [sgf EXCEPT ![t] = s]
      /\ waitTid' = [u \in Threads |-> IF u \in ToSet(chain) THEN Nobody ELSE waitTid[u]]
      /\ IF ToSet(chain) \cap StillChained(t) = {}
         THEN Goto(t, ResetOf[pc[t]]) /\ UNCHANGED fault
         ELSE Undefined("chain")
      /\ UNCHANGED <<calls, stack, cur, goal, restart, woken, resetThread, deadlockLeader,
                     waitSub, tableVars>>

(* pthread_cond_wait returns without a broadcast for this table: spuriously,  *)
(* or because another table of the predicate was completed.                   *)
Spurious(t) ==
  /\ pc[t] \in DOMAIN LockOf /\ Goto(t, LockOf[pc[t]])
  /\ UNCHANGED <<calls, stack, cur, goal, restart, victims, sgf, woken, waitVars,
                 tableVars, fault>>

(* The second half, without completing_mut: reset_thread of the first context *)
(* of the chain, which has its subgoals, from the leader of the SCC of sgf to *)
(* the youngest, marked grabbed.                                              *)
BottomLeader(u, s) ==
  LET n == FrameOf(u, s)
  IN  CHOOSE i \in 1 .. n : IsLeader(u, i) /\ \A j \in i + 1 .. n : ~ IsLeader(u, j)

LostAlone(u, b) == {stack[u][b].sub}
Lost(u, b) == {stack[u][i].sub : i \in b .. Len(stack[u])} \ completed

(* The thread to wait for from now on, and the subgoal the next one computes. *)
NotWaiting(t) == waitTid
WaitsForLeader(t) == [waitTid EXCEPT ![Head(victims[t])] = t]

Advance(t) ==
  /\ pc[t] \in {"reset", "negReset"} /\ victims[t] # <<>>
  /\ victims' = [victims EXCEPT ![t] = Tail(@)]
  /\ sgf' = [sgf EXCEPT ![t] = waitSub[Head(victims[t])]]
  /\ waitTid' = WaitsForLeader(t)
  /\ UNCHANGED <<calls, goal, woken, deadlockLeader, completed>>

Computes(u, s) == tid[s] = u

(* Another thread has grabbed the subgoal meanwhile.                          *)
ResetNothing(t) ==
  LET u == Head(victims[t])
  IN  /\ Advance(t) /\ sgf[t] # Nobody /\ ~ Computes(u, sgf[t])
      /\ UNCHANGED <<pc, stack, cur, restart, resetThread, waitSub, tid, grabbed, fault>>

(* A thread that is in one of the loops has its stacks where it left them.    *)
Stopped(u) == InLoop(u) \/ pc[u] \in DOMAIN LockOf

ResetThread(t) ==
  LET u == Head(victims[t])
      s == sgf[t]
      n == BottomLeader(u, s)
      lost == Lost(u, n)
  IN  /\ Advance(t) /\ s # Nobody /\ Computes(u, s) /\ Stopped(u) /\ OnStack(u, s)
      /\ grabbed' = [r \in Subgoals |-> r \in lost \/ grabbed[r]]
      /\ tid' = [r \in Subgoals |-> IF r \in lost THEN t ELSE tid[r]]
      /\ stack' = [stack EXCEPT ![u] = SubSeq(@, 1, n - 1)]
      /\ cur' = [cur EXCEPT ![u] = Caller(u, n)]
      /\ restart' = [restart EXCEPT ![u] = stack[u][n].sub]
      /\ waitSub' = [waitSub EXCEPT ![u] = stack[u][n].sub]
      /\ resetThread' = [resetThread EXCEPT ![u] = TRUE]
      /\ UNCHANGED <<pc, fault>>

(* The stacks of a running thread are rewritten, or searched for a frame that *)
(* is not there.                                                              *)
ResetUndefined(t) ==
  LET u == Head(victims[t])
      s == sgf[t]
  IN  /\ Advance(t)
      /\ s # Nobody => (Computes(u, s) /\ ~ (Stopped(u) /\ OnStack(u, s)))
      /\ Undefined(IF s # Nobody /\ Stopped(u) THEN "frame" ELSE "running")
      /\ UNCHANGED <<stack, cur, restart, resetThread, waitSub, tid, grabbed>>

(* The leader becomes the producer of the subgoal it called.                  *)
Lead(t) ==
  LET s == goal[t]
  IN  /\ pc[t] = "reset" /\ victims[t] = <<>>
      /\ deadlockLeader' = [deadlockLeader EXCEPT ![t] = TRUE]
      /\ grabbed' = [grabbed EXCEPT ![s] = FALSE]
      /\ Push(t, s)
      /\ UNCHANGED <<calls, goal, restart, victims, sgf, woken, resetThread, waitTid,
                     waitSub, tid, completed, fault>>

(* The leader of a negative call gives its own SCC up (reset_leader) and goes *)
(* back to the call of its leader, without is_deadlock_leader.  If another    *)
(* thread has taken its youngest table over, reset_thread returns early and   *)
(* the clause negates a table that is not complete.                           *)
LeadNegative(t) ==
  /\ pc[t] = "negReset" /\ victims[t] = <<>>
  /\ IF stack[t] = <<>> \/ ~ Computes(t, Last(stack[t]).sub)
     THEN /\ Undefined(IF stack[t] = <<>> THEN "frame" ELSE "negation")
          /\ UNCHANGED <<stack, cur, goal, restart, resetThread, tid, grabbed>>
     ELSE LET n == BottomLeader(t, Last(stack[t]).sub)
              lost == Lost(t, n)
          IN  /\ grabbed' = [r \in Subgoals |-> r \in lost \/ grabbed[r]]
              /\ tid' = [r \in Subgoals |-> IF r \in lost THEN t ELSE tid[r]]
              /\ stack' = [stack EXCEPT ![t] = SubSeq(@, 1, n - 1)]
              /\ cur' = [cur EXCEPT ![t] = Caller(t, n)]
              /\ goal' = [goal EXCEPT ![t] = stack[t][n].sub]
              /\ restart' = [restart EXCEPT ![t] = stack[t][n].sub]
              /\ resetThread' = [resetThread EXCEPT ![t] = TRUE]
              /\ Goto(t, "call") /\ UNCHANGED fault
  /\ UNCHANGED <<calls, victims, sgf, woken, deadlockLeader, waitTid, waitSub, completed>>

-----------------------------------------------------------------------------
(* The clauses of a subgoal, and check_complete.                              *)

Resolve(t, s) ==
  /\ pc[t] = "run" /\ s \in stack[t][cur[t]].todo
  /\ stack' = [stack EXCEPT ![t][cur[t]].todo = @ \ {s}]
  /\ goal' = [goal EXCEPT ![t] = s]
  /\ Goto(t, "call")
  /\ UNCHANGED <<calls, cur, restart, victims, sgf, woken, waitVars, tableVars, fault>>

(* tnot/1.  Of a goal without a table it is a call, after which the goal is   *)
(* complete or in the SCC of the caller; of another it is is_incomplete,      *)
(* which suspends the clause at an incomplete table of one's own and waits    *)
(* for that of another thread.                                                *)
Reaches(s) ==
  LET r[i \in 0 .. Cardinality(Subgoals)] ==
        IF i = 0 THEN {s} ELSE r[i - 1] \cup UNION {calls[q] : q \in r[i - 1]}
  IN  r[Cardinality(Subgoals)]
Negatable(r, s) ==
  Negation = "any" \/ (Negation = "stratified" /\ r \notin Reaches(s))

Negate(t, s) ==
  /\ pc[t] = "run" /\ s \in stack[t][cur[t]].todo /\ Negatable(stack[t][cur[t]].sub, s)
  /\ tid[s] # Nobody /\ s \notin completed
  /\ IF tid[s] = t /\ ~ OnStack(t, s)
     THEN Undefined("frame") /\ UNCHANGED <<stack, restart, goal>>
     ELSE LET st == IF tid[s] = t THEN Adjusted(t, s) ELSE stack[t]
          IN  /\ stack' = [stack EXCEPT ![t] = [st EXCEPT ![cur[t]].todo = @ \ {s}]]
              /\ IF tid[s] = t THEN UNCHANGED <<pc, restart, goal>>
                 ELSE /\ Goto(t, "negLock") /\ goal' = [goal EXCEPT ![t] = s]
                      /\ restart' = [restart EXCEPT ![t] = Nobody]
              /\ UNCHANGED fault
  /\ UNCHANGED <<calls, cur, victims, sgf, woken, waitVars, tableVars>>

Exhausted(t) == pc[t] = "run" /\ stack[t][cur[t]].todo = {}

(* Not the leader: its clauses are done, and the caller goes on.              *)
BackToCaller(t) ==
  /\ Exhausted(t) /\ ~ IsLeader(t, cur[t])
  /\ cur' = [cur EXCEPT ![t] = Caller(t, @)]
  /\ UNCHANGED <<calls, pc, stack, goal, restart, victims, sgf, woken, waitVars,
                 tableVars, fault>>

(* The leader marks the tables of its SCC as completed, one after the other,  *)
(* without completing_mut; then it wakes whoever waits for them, under it.    *)
MarkCompleted(t) ==
  LET i == cur[t]
      j == i + Cardinality(woken[t])
      s == stack[t][j].sub
  IN  /\ Exhausted(t) /\ IsLeader(t, i)
      /\ completed' = completed \cup {s}
      /\ woken' = [woken EXCEPT ![t] = @ \cup {s}]
      /\ Goto(t, IF j = Len(stack[t]) THEN "wake" ELSE "run")
      /\ UNCHANGED <<calls, stack, cur, goal, restart, victims, sgf, waitVars, tid,
                     grabbed, fault>>

Waiting == {u \in Threads : pc[u] \in DOMAIN LockOf}
WakesOwn(t) == {u \in Waiting : goal[u] = stack[t][cur[t]].sub}
Wakes(t) == {u \in Waiting : goal[u] \in woken[t]}

Wake(t) ==
  LET i == cur[t]
      p == Caller(t, i)
  IN  /\ pc[t] = "wake"
      /\ pc' = [u \in Threads |-> IF u = t THEN GoOn(t, p)
                                  ELSE IF u \in Wakes(t) THEN LockOf[pc[u]] ELSE pc[u]]
      /\ woken' = [woken EXCEPT ![t] = {}]
      /\ stack' = [stack EXCEPT ![t] = SubSeq(@, 1, i - 1)]
      /\ cur' = [cur EXCEPT ![t] = p]
      /\ UNCHANGED <<calls, goal, restart, victims, sgf, waitVars, tableVars, fault>>

-----------------------------------------------------------------------------
Continue(t) ==
  \/ CallNew(t) \/ CallCompleted(t) \/ CallGrabbed(t) \/ CallOwn(t) \/ CallForeign(t)
  \/ StopWaiting(t) \/ Wait(t) \/ Usurp(t)
  \/ ResetNothing(t) \/ ResetThread(t) \/ ResetUndefined(t) \/ Lead(t) \/ LeadNegative(t)
  \/ (\E s \in Subgoals : Resolve(t, s) \/ Negate(t, s))
  \/ BackToCaller(t) \/ MarkCompleted(t) \/ Wake(t)

Next == \E t \in Threads : Continue(t) \/ Spurious(t)

Spec == Init /\ [][Next]_vars
FairSpec == Spec /\ \A t \in Threads : WF_vars(Continue(t))

-----------------------------------------------------------------------------
(* Every field has its type; a thread resolves a frame of its stack.          *)
TypeOK ==
  /\ pc \in [Threads -> {"call", "lock", "wait", "reset", "run", "wake", "done",
                        "undefined", "negLock", "negWait", "negReset"}]
  /\ \A t \in Threads : /\ stack[t] \in Seq(Frame) /\ cur[t] \in 0 .. Len(stack[t])
                        /\ victims[t] \in Seq(Threads) /\ woken[t] \subseteq Subgoals
  /\ goal \in [Threads -> Subgoals]
  /\ {restart, sgf, waitSub} \subseteq [Threads -> Subgoals \cup {Nobody}]
  /\ waitTid \in [Threads -> Threads \cup {Nobody}]
  /\ {resetThread, deadlockLeader} \subseteq [Threads -> BOOLEAN]
  /\ tid \in [Subgoals -> Threads \cup {Nobody}]
  /\ grabbed \in [Subgoals -> BOOLEAN] /\ completed \subseteq Subgoals
  /\ calls \in Programs /\ fault \in {"none", "running", "frame", "chain", "negation"}

(* The tables t is marking as completed.                                      *)
Marking(t) ==
  IF woken[t] = {} THEN {} ELSE {stack[t][i].sub : i \in cur[t] .. Len(stack[t])}

(* t waits for a table that u computes.                                       *)
WaitsFor(t, u) == t \in Waiting /\ goal[t] \notin completed /\ tid[goal[t]] = u

(* An incomplete table is computed by one thread, the one its subg_tid names, *)
(* through any number of takeovers (usurp.h:8-13, deadlock.c:56).             *)
OneProducer ==
  \A s \in Subgoals \ completed, t \in Threads : OnStack(t, s) => tid[s] = t

(* A table is completed only with all the tables its clauses call, whoever    *)
(* computed them and however often they were taken over: the SCC found by     *)
(* adjust_level is never too small (complete_local.h:418).                    *)
CompletedClosed ==
  \A s \in completed :
    calls[s] \subseteq completed \cup UNION {Marking(t) : t \in Threads}

(* The walk of would_deadlock along waiting_for_tid ends (deadlock.c:26-32):  *)
(* it runs under completing_mut, and a cycle that does not hold the caller    *)
(* would keep it there for ever.                                              *)
WalkEnds ==
  \A ts \in (SUBSET Threads) \ {{}} : \E t \in ts : waitTid[t] \notin ts

(* No threads wait for the tables of one another, whatever waiting_for_tid    *)
(* says of them: the last one to wait sees the cycle (usurp.h:24).            *)
NoDeadlock ==
  \A ts \in (SUBSET Threads) \ {{}} : \E t \in ts : \A u \in ts : ~ WaitsFor(t, u)

(* A thread that takes over others waits for nobody, and has not been reset   *)
(* while it waited: what it goes on with is the call it made (usurp.h:24-33). *)
LeaderIsFree ==
  \A t \in Threads : /\ pc[t] \in {"reset", "negReset"} => waitTid[t] = Nobody
                     /\ pc[t] = "reset" => ~ resetThread[t]

(* Every query returns, unless the engine is lost: no broadcast is missed and *)
(* no table is taken over for ever (usurp.h:36, complete_local.h:488).        *)
EveryCallReturns == \A t \in Threads : <>(pc[t] \in {"done", "undefined"})

-----------------------------------------------------------------------------
(* What the code does not keep to.                                            *)

(* subg_compl_stack_ptr is followed only in the stack of the thread that has  *)
(* the frame: by adjust_level for a consumer (slginsts_xsb_i.h:574) or a      *)
(* suspension (bineg_xsb_i.h:186), and by bottom_leader for a reset           *)
(* (deadlock.c:40).  The leader of a negative call loses its own frames, and  *)
(* does not call their subgoals as a deadlock leader would.                   *)
FramesAreFound == fault # "frame"

(* A thread takes over others only when the tables they wait for are          *)
(* incomplete and in the SCC of the one it calls.  waiting_for_tid outlives   *)
(* the completion of the table until the waiting thread has run again, so     *)
(* that the thread that completed it sees a cycle (usurp.h:40).               *)
TakesOverOneScc ==
  [][\A t \in Threads : victims'[t] # <<>> /\ InLoop(t) =>
       \A u \in ToSet(victims'[t]) : /\ goal[u] \notin completed
                                     /\ goal[u] \in Reaches(goal[t])
                                     /\ goal[t] \in Reaches(goal[u])]_vars
=============================================================================
