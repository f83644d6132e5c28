# A TLA+ verification of XSB

XSB is a Prolog system with tabling: a WAM engine (`XSB/emu`, C) that suspends
and resumes goals over shared answer tables (SLG resolution), a compiler and
libraries in Prolog (`XSB/cmplib`, `XSB/syslib`, `XSB/lib`), and, when it is
configured with `--enable-mt`, POSIX threads with message queues, mutexes and
shared tables. Paths below are relative to `src/`.

This directory holds the models of the parts of that system whose behaviour
depends on the order in which several threads, calls or callbacks act, the TLC
configurations that check them, and the proofs about them.

## 1. Inventory

### 1.1 The multi-threaded engine

| component | state | operations | source |
|---|---|---|---|
| thread table | `th_vec[MAX_THREADS]`: context, pthread, valid, exited, detached, status, incarnation, links of two lists (`th_first_thread` .. `th_last_thread`, `th_first_free`..`th_last_free`), `flags[NUM_THREADS]`, all under `th_mutex`; `'_$thread_alias'`, `'_$thread_exit_ball'` of `syslib/thread.P` | thread_create/2,3, start, exit, thread_join/2, thread_detach/1, aliases, thread_property/2 | `emu/thread_xsb.c`, `syslib/thread.P` |
| message queues | `mq_table[max_threads + max_mqueues]`: one private queue per thread slot and the public ones; cells, size, limit, `n_threads`, `deleted`, two condition variables and a mutex each; lists of free and of live public queues under `mq_mutex` | message_queue_create/1,2, thread_send_message/2, thread_get_message/2, thread_peek_message/2, message_queue_destroy/1, initialisation with its thread | `emu/thread_xsb.c`, `lib/mutex_xsb.P` |
| user mutexes | a chain of frames, each with a recursive POSIX mutex, `num_locks`, `owner`; `'_$alias'` of the mutex | mutex_create, mutex_lock, mutex_trylock, mutex_unlock, mutex_destroy, mutex_unlock_all, release at exit | `emu/thread_xsb.c`, `lib/mutex_xsb.P` |
| system mutexes | `sys_mut[MAX_SYS_MUTEXES]`, each with an owner for the release on exceptions | lock and unlock macros, `release_held_mutexes` | `emu/thread_xsb.c`, `emu/thread_xsb.h` |
| thread signals | `asynint_val` of each thread, `enable_cancel`, `to_be_cancelled`, `cond_var_ptr`, the queue of signalled goals | thread_cancel/1, thread_signal/2, thread_enable_cancel/0, the tests at call and proceed | `emu/thread_xsb.c`, `emu/emudef.h`, `syslib/thread.P` |
| shared tables | `subg_tid`, `subg_grabbed` of each subgoal, `waiting_for_tid`, `waiting_for_subgoal`, `reset_thread`, `is_deadlock_leader` of each thread, `completing_mut`, a condition variable per table | a call to the incomplete table of another thread, completion, deadlock and usurpation | `emu/usurp.h`, `emu/deadlock.c`, `emu/complete_xsb_i.h`, `emu/bineg_xsb_i.h` |
| concurrent completion | dependency lists between threads | the alternative to shared tables, not selected by `build/configure.in:1239-1243` | `emu/conc_compl.c` |
| trie read-write lock | readers, writers, holder | lock and unlock of a dynamic trie | `emu/rw_lock.c` |
| timer | a second thread, a mutex and a condition variable | timed calls | `emu/timer_xsb.c` |
| C interface | `xsb_ready`, `xsb_synch_mut`, two condition variables | a C thread hands a query over to the engine's thread and waits | `emu/cinterf.c`, `emu/emuloop.c` |

### 1.2 The sequential engine

| component | state | operations | source |
|---|---|---|---|
| SLG engine | completion stack, choice points, consumers and their last answer, depth-first numbers | call, new answer, answer return, check-complete, early completion, exception | `emu/slginsts_xsb_i.h`, `emu/complete_local.h`, `emu/schedrev_xsb_i.h`, `emu/scc_xsb.c` |
| well-founded delays | delay lists and elements, the uses of each answer | new conditional answer, simplification, residual program | `emu/slgdelay.c`, `emu/wfs_xsb_i.h` |
| incremental tabling | call graph: in and out edges, `falsecount`, `recomputable`, `deleted`, `changed`, visitors | dynamic change, invalidation, lazy recomputation, abolish | `emu/incr_xsb.c`, `emu/call_graph_xsb.c`, `emu/tc_insts_xsb_i.h` |
| tabling tries | call and answer tries, time-stamp indices | check/insert, delete, collect | `emu/tries.c`, `emu/tr_utils.c`, `emu/tst_*.c` |
| dynamic clauses | clause references, marked clauses awaiting collection | assert, retract, collection | `emu/biassert.c` |
| memory | heap, stacks, chunks, pools, findall buffers, global variables of storage | growth, collection, allocation | `emu/heap_xsb.c`, `emu/gc_*.h`, `emu/struct_manager.c`, `emu/findall.c`, `emu/storage_xsb.c` |
| symbols, I/O, built-ins, loader | symbol tables, files | | `emu/psc_xsb.c`, `emu/io_builtins_xsb.c`, `emu/loader_xsb.c` |

### 1.3 How they interact

A Prolog thread is one POSIX thread running `emuloop` on its own context. All
threads share the tables above. `xsb_thread_create_1` makes the entry of the
thread table and, with it, the thread's private message queue; the exit of the
thread (`XSB_THREAD_EXIT`) destroys the queue, releases its mutexes and gives
the entry back, or leaves it to `thread_join/2`. `thread_signal/2` and
`thread_cancel/1` set a mark in another thread's `asynint_val` and broadcast the
condition variable that thread may be blocked on; the mark is seen at the next
call or proceed, or after the wait. Many predicates are two calls of the engine
with Prolog between them (an alias is looked up, then used; a message is
offered, unified, then accepted), so other threads act in the middle, and an
interrupt may be handled there.

### 1.4 What is hard, and what makes it right

* *Reuse.* Entries and queue slots come back with a new incarnation; whoever
  slept on, or looked up, the old one must notice. Right: a reused slot carries
  nothing of its last life, ids are never mistaken for one another.
* *Mutual exclusion that spans calls.* The mutex of a queue is taken in one
  built-in and released in another. Right: it is held by the receiver from one
  to the other and by nobody else's mistake released.
* *The last one frees.* A destroyed queue is deallocated by its last waiter.
  Right: it is deallocated, once, when nobody waits.
* *Blocking.* Right: whoever waits for what becomes available is woken.
* *Two lists through one table.* Right: each entry is in one of them, always.
* *Exit.* Right: an exited thread holds nothing.
* *Shared tables.* Right: a table is completed by one thread at a time, no cycle
  of waiting threads survives, nobody waits for a completed table.
* *Simplification, incremental updates.* Right: the result does not depend on
  the order, counts return to zero, every table that depends on a change is
  invalidated and no table is used when it is out of date.

The hazards, at their lines, are in `PROJECT.json`.

## 2. Modules

| module | what it is |
|---|---|
| `MessageQueue` | message queues, private and public, with the interrupt of a thread that uses one |
| `TermQueue` | the abstract queue: bounded sequences of terms known by ids |
| `MessageQueueProofs` | theorems about `MessageQueue` |
| `ThreadTable` | `th_vec`, its two lists, creation, exit, join, detach, aliases and exit balls |
| `ThreadLife` | the abstract life of a thread id |
| `ThreadTableProofs` | theorems about `ThreadTable` |
| `EntryLists` | lemmas about lists linked through `next_entry`, used by the proofs about both tables, and an induction over numbers |
| `UserMutex` | Prolog mutexes |
| `UserMutexProofs` | theorems about `UserMutex` |
| `SharedTables` | calls, waits, takeovers and completion of shared tables |
| `SharedTablesProofs` | theorems about `SharedTables` |
| `IncrementalTabling` | the dependency graph of incremental tables, updates, lazy re-evaluation, open queries |
| `FreshTables` | the abstract incremental tables: each query is answered from the facts at its call |
| `IncrementalTablingProofs` | theorems about the graph, the counts and the open queries of `IncrementalTabling` |
| `FreshTablesProofs` | the theorems about the answers of its tables and of its open queries |
| `DelaySimplification` | conditional answers, their delay lists and simplification |
| `DelaySimplificationProofs` | theorems about `DelaySimplification` |
| `MC...` | programs and symmetries that the configurations name |

Definitions of a model that stand for a wrong variant of the code (`SomebodyWaits`,
`StaleByIdOnly`, `UnlinkForwardOnly`, ...) stand before the right one and are
used by nothing: `PROJECT.json` pairs each of them, as a mutant, with the
property it must break.

### 2.1 MessageQueue

One step is what a thread does between two acquisitions of a mutex, two waits,
or a wait and a broadcast. `pc[t]` says where thread `t` stands:

| `pc` | in the code |
|---|---|
| `idle` | outside any queue request |
| `send`, `try`, `peek` | about to lock the mutex of the queue for THREAD_SEND/TRY/PEEK_MESSAGE |
| `wait`, `woken` | inside `pthread_cond_wait` in `wait_on_queue`, before and after it is signalled |
| `got` | a request returned to Prolog, its interrupt mark not yet looked at (`proceed_sub`) |
| `go` | unification in `thread_get_message_1`, `thread_peek_message_1`, then ACCEPT, RETRY, REPEEK or UNLOCK |
| `bcast` | after the mutex is released, before `pthread_cond_broadcast` |
| `init` | between the insertion of a new queue and `init_message_queue` |
| `freeing` | about to run `queue_dealloc` |
| `dead` | cancelled |

`destroy_message_queue` makes its two broadcasts after it released the mutex, and
both are the one step `Broadcast`: a state in which only the receivers are awake
is one that `Spurious` reaches too.

`mqMutex` is the POSIX mutex, `mutexOwner` the field beside it; the code tests
the field and relies on the mutex, so they are two variables. `next`, `prev` and
`ends` are the links as the code stores them, one `next_entry` for both lists.
`cells[s]` is the chain of cells with its length for `q->size`. `qid`,
`incarn`, `deleted`, `nThreads` are the fields of those names. `got` and the
`to` of a cell are history. `fault` is set by a step whose result the code
leaves undefined (a freed cell is read, a mutex of somebody else is released);
nothing is said of what comes after.

`TermQueue` is what the predicates promise, and `ImplementsTermQueue` the
refinement: an open queue is a slot with its id that is not `deleted`.

| run | question | instance |
|---|---|---|
| `queue_safety` | is a freed cell ever touched, does a destroyed queue stay quiet, do the queues behave as the abstract ones? | 3 threads (a sender and receiver, a receiver and peeker, a manager), one slot created twice, room for 1 term, 2 terms of 2 kinds, no signals |
| `queue_slots` | is `n_threads` exact, does a slot come back only when nobody is left in it, do the two lists stay disjoint and complete? | 3 public slots of which at most 2 are queues, the private queue of a thread that exits, 3 creations by two managers, a receiver, one goal or cancellation |
| `queue_live` | is everybody woken, is a destroyed queue reclaimed? | 2 senders, 2 receivers, 1 queue for 1 term, no signals |

The bounds. Two terms in a queue for one make a sender wait; two receivers make
a wrong receiver wake; two kinds make a receiver pass a cell over and suspend
behind it; two creations of a slot with two incarnations bring an id of the old
queue to the new one, `IncMask = 1` being the smallest width that tells them
apart; with `MaxCreates = IncMask + 1` no id comes back (the real width is
`INC_MASK_RIGHT = 0x3ff`, and an id does come back after 1024 creations of the
same slot, which the refinement then excludes: `Ids \ known`). Three slots with
two queues at a time let both lists have two entries, and a slot be unlinked
from the middle, without ever emptying the free list.

### 2.2 ThreadTable

`tab` is `th_vec` by fields with the heads of its lists. A section under
`th_mutex` is one step; `th_delete` called without it (a failed
`pthread_create`, XSB_RECLAIM_THREAD_SETUP) is cut into the unlinking, the
append to the free list and the clearing of the entry; the decrement of
`flags[NUM_THREADS]` after `th_mutex` is released is a read and a write.
`joinid` is POSIX: who joined or detached a thread. The aliases and exit balls
of `syslib/thread.P` are `aliasOf` and `balls`; a thrown ball models an exit by
thread_exit/1, the only one that asserts a ball from the exit handler.
`ThreadLife` is the documented life of a thread id; `ImplementsThreadLife`
checks that an id is never reclaimed twice, never reclaimed while it runs and
never comes back in the instance.

| run | question | instance |
|---|---|---|
| `table_life` | do the lists stay whole, does a running thread own its entry, is each thread reclaimed once and in the end? | main and 2 joinable threads, joined and detached by main at any moment of their exit, 4 entries of which 3 are in use at most |
| `table_reuse` | whose alias, whose exit term, when one entry is used by one thread after the other? | main and 2 threads, 2 entries, joinable or created detached, an alias, balls thrown, one failure of pthread_create |

`IncMask` is 1 in `table_life`, where no entry is used twice after its first
incarnation, and 3 in `table_reuse`, one more than the entry can be allocated
again (two threads and one failure), so that ids do not come back.

### 2.3 UserMutex

A mutex is found by its alias in Prolog and used in a later call of the engine:
two steps. `mutex_unlock_all` walks the chain one unlock at a time, because it
reads `num_locks` after it has released the mutex. The POSIX mutex (`holder`,
`held`) and what the frame records of it (`owner`, `numLocks`) are separate, and
so are the steps that get a mutex (`Lock`) and record it (`SetFields`). That two
threads' assignments to `num_locks` may overlap and lose one is not modelled.

| run | question | instance |
|---|---|---|
| `mutex_locks` | is the recorded owner the holder, is the holder on record, does the exit of a thread release its mutexes and end? | 2 threads that both exit, 8 requests, 2 mutexes: one whose locks are paired, one (`Unpaired`) that is nested to depth 2, tried, destroyed and released by mutex_unlock_all/0 |

A mutex is paired when nobody locks it twice or tries it; of the unpaired ones
`HolderIsRecorded` and `GoneHoldsNothing` say nothing, because there the record
is wrong (`MutexTry.cfg`, `MutexNested.cfg`). A thread outside `Hasty` locks or
destroys only while no other walks the chain to release its mutexes: the walk is
not protected, and 2.9 shows what happens otherwise. Two mutexes let one be
removed from the chain while the other is held; a third thread adds interleaving
but no new order of two requests on one mutex.

### 2.4 SharedTables

A program is a call graph, and each thread has one query. `stack[t]` is the
completion stack, `level` the level numbers up to their order, `todo` the calls
the clauses of a frame have still to make, `parent` the frame that the choice
point below leads to. A clause makes its calls in any order but does not wait
for answers before it makes the next one; whether a call has answers plays no
role. `pc[t]`:

| `pc` | in the code |
|---|---|
| `call` | `tabletry`, before the tests of `usurp.h` |
| `lock` | about to hold `completing_mut` for a round of the loop of `usurp.h` |
| `wait` | in `pthread_cond_wait` |
| `reset` | in the second half of `reset_other_threads`, the mutex released, one victim per step |
| `run` | the clauses of frame `cur[t]`, or `check_complete` once they are exhausted; the marks on the tables of an SCC are set one per step |
| `wake` | the marks are set, the broadcasts due |
| `negLock`, `negWait`, `negReset` | the same three for the loop of `is_incomplete` (`bineg_xsb_i.h`), which a negative call of an incomplete table enters |
| `done`, `undefined` | the query has returned; the code says nothing of what follows |

`Negation` says which calls may be `tnot/1`: none, those of stratified programs
(the caller cannot be reached from the goal), or any. A negative call of a goal
without a table is a call followed by nothing, for the goal is then complete or
in the caller's SCC; `Negate` is the other case, in which `is_incomplete`
suspends the clause or waits. Its loop has no way out for a thread that was
reset: `restart` keeps where its program counter leads, and the thread goes there
only when the table it no longer needs is complete.

`waitTid` and `tid` are kept apart: the first is what `would_deadlock` follows,
the second what a thread really waits for. `fault` says which undefined step was
taken: a running thread was reset, a completion frame was looked for in a
stack that has none for the subgoal, two leaders chain one context through its
only `tmp_next`, or a clause went on to negate a table that is not complete
(`reset_leader` does nothing when another thread has the youngest table; never
reached while `OneProducer` holds). The walk of `would_deadlock` is one step: it
runs under `completing_mut`, under which every link is set and cleared but those
from a thread in `reset_other_threads`'s chain to the leader that resets it.

| run | question | instance |
|---|---|---|
| `tables_shared` | has a table one producer, is it completed with all it depends on, does the walk of `would_deadlock` end, does no cycle of waiting threads stay, is no leader itself being reset? | 3 threads, 3 subgoals, all 64 call graphs without self-calls, every query, every call positive or negative, symmetry of threads and of subgoals |
| `tables_live` | does every query return? | 2 threads, the same programs with the negative calls that keep them stratified, no symmetry |
| `tables_takeover` | *violated*: a thread takes over another whose table is complete | 2 threads, the same programs, positive calls |

Three threads and three subgoals let a chain of two victims be reset, a subgoal
be grabbed and called again by the leader, a leader be taken over in its turn,
and a victim be found to have lost its subgoal meanwhile. A call of a subgoal to
itself is a consumer that joins no frames. Where the code takes a step it leaves
undefined the other properties stop: in acyclic graphs the stale link of
`tables_takeover` leads to the reset of a running thread, and the restart of a
leader after a negative call follows a frame that is gone (`TablesLive.cfg` with
the invariant `FramesAreFound`). `EveryCallReturns` counts such a query as returned.
Two subgoals show none of the departures of positive calls, and three only that of
`tables_takeover`. `OneProducer` is refuted by a program of four, `CompletedClosed` by one
of five, and so are `LeaderIsFree`, `WalkEnds` and `NoDeadlock`, for which four are enough
(`TakenOver` with `c` calling `d` itself; `TablesTakenOver.cfg`). What the run shows of
them is that, with three threads, nothing of three subgoals does it; the theorems of
section 3 say what the larger programs must avoid. Nor do three subgoals reach the mixed
chain of contexts; four do (`a` calls `b` and `c`, `c` calls `d`, `d` calls `b` and `c`).

### 2.5 IncrementalTabling

| in the model | in the code |
|---|---|
| `node[Cur(s)]`, `node[Prev(s)]` | the call node of a table, and `prev_call` while the table is re-evaluated; `falsecount`, `deleted`, and `direct` for `recomputable` |
| `out`, `inn` | outedges and inedges, two copies of one graph |
| `table` | the subgoal frame: its state, answers, `changed` and the answers kept for the comparison, `visitors` |
| `sccs`, `called` | the completion stack, and what each incomplete subgoal consumes |
| `lazy` | what is left of the lazy call list of each caller, and the return of a query |
| `cursors` | the choice points of open queries: in the trie, spent at the last answer, or over the copy that `find_the_visitors` made |

A step is a call, an answer, the completion of the youngest SCC, one item of a
lazy list, or a request of the top level. A traversal of the graph
(`dfs_outedges`, `propagate_no_change`, `dfs_dependency_edges`) is one step,
because nothing interrupts it, and is written as what it does to the counts over
the set it reaches, a least fixpoint (`Closure`); the
lists the third can make are all the orders that put a table after those below
it. `FreshTables` knows neither tables nor counts: a query takes its answers from
the least model of the facts at its call and keeps them.

| run | question | instance |
|---|---|---|
| `incr_safety` | is a table that is not marked ever stale, do the edges agree in both directions, does `falsecount` cover the affected tables below? | 3 tables over 2 leaves in three programs (a chain, a cycle, a conditional call), 2 updates, invalidation, abolish, exceptions, one query at a time |
| `incr_views` | is each query answered from the facts at its call and left alone after, are visitors counted, does each query end? | 2 tables over a leaf, 2 answers, 2 open queries, 2 updates |

The bounds. Two updates let an invalidation meet tables already marked, a table
that is brought up to date between them, and one that derives its old answers
again; the cycle makes one traversal meet a node over several edges; the
conditional call changes the edges from one evaluation to the next. Two answers
are needed for a query that has returned one and not the other, two queries for
one that is older than a re-evaluation and not the youngest choice point.
`CountRange` is 16, above every count the instance can reach; `IncrWrap.cfg`
shows what the real width, 14 bits, does when it is passed.

### 2.6 DelaySimplification

Six procedures of `slgdelay.c` call each other recursively over lists they free
on the way. The C stack is `stack`, and a frame is the rest of a call:

| frame | in the code |
|---|---|
| `posTrue`, `posFalse` | the loops of `simplify_pos_unconditional` and `simplify_pos_unsupported` over the positive uses of an answer |
| `negTrue`, `negFails` | the loops of `simplify_neg_succeeds` and `simplify_neg_fails` over its negative uses |
| `emptied`, `unsupported` | what `handle_empty_dl_creation` and `handle_unsupported_answer_subst` do after their first call |
| `found`, `new` | what `new_answer_dealloc` does after `do_delay_stuff` |

A round of a loop is one step and takes any list of the uses that are left. The
code takes them in the order of the links, each saved before the call that may
free it; to let the model take any list says that the order does not matter, and
`LinksHold` that what is left are links to lists that exist. The engine around
it is what `slgdelay.c` sees of it: derivations delay literals that may be
delayed at that moment, are interned or refused later, and SCCs are completed
when nothing they depend on is left. `born` tells an answer from one derived
again after it was deleted, and `rules` remembers the derivations.

| run | question | instance |
|---|---|---|
| `delay_order` | are the links exact at every moment, are the answers left the reduct of the derivations, does each step leave less to do, and is no simplification ever stuck? | 4 goals, 3 derivations with 4 literals in all, 2 of them in progress at one time, 3 lists, symmetry of goals |

Three derivations and four goals are the least that bring a call of
`simplify_neg_fails` inside another which the outer one must take up for the
answers to be right; without the fourth goal the mutant that forgets it is not
found. Deadlock is checked here: `Next` lets the engine do nothing only when no
procedure is active.

### 2.7 Role sets and deadlock

Each model of threads has sets of those that may start each kind of request
(`Senders`, `Creators`, `Destroyers`, `Hasty`, ...). They are Prolog programs: a
program in which only the main thread joins is an instance with
`Joiners = {main}`. A run with expectation "pass" says what such programs can
rely on, 2.9 what the others cannot.

`CHECK_DEADLOCK FALSE` stands in every configuration of the other modules
because the programs may stop: the calls are bounded, all threads may have
exited, and a thread that reads an empty queue nobody writes to waits for ever,
as in the code. That nobody waits for what is there is what the liveness
properties check.

### 2.8 Fairness

`MessageQueue`: strong fairness of each thread's continuation, because a POSIX
mutex that is released again and again is granted in the end to each thread
blocked on it, and the thread that holds one keeps running (the engine never
blocks elsewhere inside a request); weak fairness of `ThreadInterrupt`, the
second half of a call already begun. New requests, spurious wake-ups and
signals are under no fairness. `ThreadTable` and `UserMutex`: strong fairness of
each thread's continuation, for `th_mutex` and the user mutexes. `SharedTables`:
weak fairness of each thread's continuation, without spurious wake-ups; no step
of it waits for a mutex that others can take again and again, a section under
`completing_mut` being one step that is always possible. `IncrementalTabling`:
weak fairness of the engine, one thread that goes on by itself once it is called;
the top level is under none. `DelaySimplification` needs no fairness: `Shrinks`
bounds what is left to do by a number that every step lowers.

### 2.9 Programs that refute a property

The code keeps some of its promises only to programs that stay within limits
nothing states. One such departure is a run of the project (`tables_takeover`;
the finding in `PROJECT.json` quotes the text it contradicts). Each of the others
has a configuration of its own that gives a counterexample in a few seconds:
`tlc -config <configuration> <module>`, with the MC module where there is one.
"Refutes" names the property, which the runs of 2.1-2.6 check for programs that
avoid the case, or which stands in the last section of its module.

| configuration | refutes | what happens | where | against |
|---|---|---|---|---|
| `QueueGoalSignal.cfg` | `NoFault` | the wait of THREAD_TRY_MESSAGE ended by a signal returns success with the mutex released and nothing bound; ACCEPT then works on a freed cell, and so it does after a goal handled between TRY and ACCEPT | `emu/thread_xsb.c:1518` | `userman/threads.tex:1087-1092` |
| `QueueExhausted.cfg` | `ListsPartition` | `queue_dealloc` at an empty free list makes the slot the whole list with its old `next_entry`, which leads into the list of live queues; the creation after next initialises a live queue again | `emu/thread_xsb.c:359` | "get entry from free list", `emu/thread_xsb.c:1424` |
| `QueuePrivateReuse.cfg` | `ImplementsTermQueue` | `wait_on_queue` looks at `deleted` but not at `id` after the wait: a sender blocked on the queue of a thread that exits puts its term in the queue of the entry's next thread | `emu/thread_xsb.c:1015` | `emu/thread_xsb.c:385-387` |
| `QueueCancelHolding.cfg` | `DeadHoldsNothing` | a thread cancelled between THREAD_TRY_MESSAGE and ACCEPT, or inside a peek, keeps the mutex of the queue | `emu/emudef.h:415` | `userman/threads.tex:494-497` |
| `QueueLeak.cfg` | `DestroyedReclaimed` | the last waiter leaves a destroyed queue because of an interrupt, tested first, and nobody deallocates it | `emu/thread_xsb.c:1023` | "let the last one really delete it", `emu/thread_xsb.c:386-387` |
| `QueueLostInterrupt.cfg` | `SignalHandled` | a mark set after the last check and before the wait is not seen by the blocked thread | `emu/thread_xsb.c:1010` | `userman/threads.tex:1028-1032` |
| `TableExhausted.cfg` | `ListsPartition` | `th_delete` at an empty free list does the same to the thread table: the lists run into each other | `emu/thread_xsb.c:502` | "either next free slot or next thread", `emu/thread_xsb.c:116` |
| `TableJoinDetach.cfg` | `ImplementsThreadLife` | a thread detached while it is being joined is deleted by its exit and by the join | `emu/thread_xsb.c:1178` | `userman/threads.tex:977-979` |
| `TableStaleValid.cfg` | `FreeIsInvalid` | the creator marks the entry valid after the detached thread has run, exited and freed it | `emu/thread_xsb.c:643` | `userman/threads.tex:285-287` |
| `TableCount.cfg` | `AloneWhenCounted` | `flags[NUM_THREADS]--` outside `th_mutex` overwrites an increment: the count is 1 while two threads run | `emu/thread_xsb.c:1132` | "when more than 1 thread is active", `emu/biassert.c:3796` |
| `TableAliasLost.cfg` | `AliasKept` | `thread_join_1` removes aliases with an unbound id: the alias of every thread | `syslib/thread.P:164` | `userman/threads.tex:833-834` |
| `TableBalls.cfg` | `JoinReturnsOwnBall` | `thread_join_1` looks the exit term up with an unbound id and takes the last asserted | `syslib/thread.P:172` | `userman/threads.tex:909-910` |
| `TableClash.cfg` | `NoFault` | XSB_RECLAIM_THREAD_SETUP passes an id with its incarnation where `th_delete` expects the index | `emu/thread_xsb.c:1724` | `userman/threads.tex:869-872` |
| `MutexTry.cfg` | `HolderAlwaysRecorded` | `mutex_trylock/1` sets neither `owner` nor `num_locks` | `emu/thread_xsb.c:1252` | `userman/threads.tex:1628-1629` |
| `MutexUnlockAll.cfg` | `UnlockAllSucceeds` | `num_locks` is decremented after the mutex is released; another thread's lock is taken for one of its own and its unlock is refused | `emu/thread_xsb.c:879` | `userman/threads.tex:1680-1681` |
| `MutexDestroyHeld.cfg` | `HeldIsNamed` | `mutex_destroy/1` removes the alias and then finds the mutex locked | `lib/mutex_xsb.P:116` | `userman/threads.tex:1654-1655` |
| `MutexDestroyRace.cfg` | `NoFault` | a mutex is freed between the lookup of its alias and the lock | `lib/mutex_xsb.P:90` | `lib/mutex_xsb.P:28-32` |
| `MutexChain.cfg` | `NamedIsChained` | two creations at a time lose one mutex from the chain | `emu/thread_xsb.c:832` | `userman/threads.tex:1680-1681` |
| `MutexStranger.cfg` | `HolderIsRecorded` | `num_locks` is decremented before POSIX refuses the unlock | `emu/thread_xsb.c:1262` | `userman/threads.tex:1700-1702` |
| `MutexNested.cfg` | `ExitReleasesAll` | a mutex locked twice and unlocked once: `unlock_mutex` clears `owner` at the first unlock, and the exit of the thread, which looks for its own id there, passes the mutex over | `emu/thread_xsb.c:856` | "after releasing any mutexes held by", `userman/threads.tex:948-949` |
| `MutexWalk.cfg` | `GoneHoldsNothing` | the release at exit follows the chain while another thread takes a mutex out of it, and passes over the rest | `emu/thread_xsb.c:873` | `userman/threads.tex:948-949` |
| `TablesTakenOver.cfg` | `CompletedClosed` (also `LeaderIsFree`, `WalkEnds`, `NoDeadlock`) | the consequence of the stale link of `tables_takeover`: a thread whose table has come true runs on, calls another table and is reset there, with the call of that table still in hand; it finds a cycle, takes over and goes on with this call instead of the one it restarts with. The frame below is then completed without a table it depends on; and the leader, itself linked to the one that reset it, closes a cycle in `waiting_for_tid`, along which the next `would_deadlock` never ends | `emu/usurp.h:24`, `emu/deadlock.c:137` | "no answer is returned outside of an SCC until the SCC has been completely evaluated", `userman/threads.tex:226-227` |
| `TablesTakenOver.cfg` with `Programs <- TwoLeaders` | `OneProducer` | a leader takes a subgoal that another leader, taken over since, had grabbed and not called; `subg_tid` goes on naming the other | `emu/usurp.h:8` | "marked to be computed for leader", `emu/tab_structs.h:717-718` |
| `TablesLive.cfg` with `Spec` and the invariant `FramesAreFound` | `FramesAreFound` | a thread whose negative call closes a cycle resets itself without becoming a deadlock leader, and takes the call it restarts for a consumer of its own table, whose frame it has just lost; through a stale link this takes two threads and a stratified program | `emu/bineg_xsb_i.h:150`, `emu/usurp.h:8` | "marked to be computed for leader", `emu/tab_structs.h:717-718` |
| `IncrWrap.cfg` | `NoStaleTable` | `falsecount` has 14 bits and nothing stops it: one more invalidation than it can count makes an affected table look valid | `emu/call_graph_xsb.c:725` | `userman/incr_tabling.tex:139-141` |
| `IncrViewLost.cfg` | `ImplementsFreshTables` | `find_the_visitors` tests the instruction of a choice point with `IsInAnswerTrie`, which a choice point at the last answer of the trie does not pass: it is not counted, and one beneath it is left on the trie that is recomputed | `emu/call_graph_xsb.c:818` | `userman/incr_tabling.tex:142-156` |
| `IncrZombie.cfg` | `TypeOK` | an exception in a re-evaluation removes the new call node of a table; the old one stays in the graph | `emu/tr_utils.c:4998` | – |
| `DelayOutdated.cfg` | `ResidualIsReduct` | the negation of a goal that got an unconditional answer after it was delayed, and is not complete yet, is interned: `is_failing_delay_element` asks for completion | `emu/slgdelay.c:418` | – |

(`userman/` is `XSB/docs/userman/`.) Two more departures of the thread table need
no configuration of their own. A thread that joins itself (`SelfJoins = TRUE`)
gets EDEADLK, which is neither EINVAL nor ESRCH, and deletes its own entry
(`emu/thread_xsb.c:1163`, against `userman/threads.tex:905-907`); and two
creations that fail at the same time (`Failures = 2`) both call `th_delete`
without `th_mutex` and lose an entry (`emu/thread_xsb.c:650`, against the comment
at `emu/thread_xsb.c:418`). They are why section 3 assumes what it does. A failed `pthread_create` also leaves the
alias of the thread that was not created (`syslib/thread.P`, thread_create/3
enters it first), which is why `NoDanglingAlias` says nothing once one has
failed; and a thread detached between its check of aliases and its exit keeps
its own, because `retract_aliases` is returned after `pthread_exit`
(`emu/thread_xsb.c:1144`), which is why nobody detaches in `table_reuse`.

Nor does the depth of simplifications: with `DepthIsNesting` as its invariant,
`DelaySafety.cfg` gives a counterexample. The early return of `simplify_neg_fails`
(`emu/slgdelay.c:1395`) leaves `simplification_depth_gl` one too high; at 25 (or
100) the process ends with "too many nested simplifications".

## 3. What is proved

Thirty-one theorems in eight modules; `PROJECT.json` lists them. An assumption written
`ASSUME` is about the constants; one written `[]P` in front of the arrow is about
the behaviour, and says what the program must avoid for the code to be right.

`EntryLists` has the facts about links that `th_vec` and `mq_table` share, for any
table: what it is for a set to be the list from a head (`IsList`: closed under
`next_entry` up to NULL, each entry but the head the successor of exactly one, and
ranked, which keeps cycles out), that a walk of as many steps as the table has
entries meets exactly that set, and what an insertion at the head, a removal from
the middle and an append at the tail do to it. The invariants name the two sets of each table and say nothing of walks.

`MessageQueueProofs`, for every set of threads and kinds, every finite set of
public slots and every set of private ones, any capacity and any bounds:

* `TypeCorrect`: `Spec => []TypeOK`, signals included.
* `ReceiverHolds`: if no thread is ever interrupted, a receiver (and a peeker)
  holds the queue's mutex from the request that offers a cell to the one that
  ends it, and `mutex_owner` names the receiver.
* `DeletedQuiet`: if no thread is ever interrupted, a destroyed queue gains
  neither a waiter nor a message before its slot is renewed.
* `CountIsRight`, `FreeSlotIsUnused`, `SlotListsStayApart`: with fewer queues than
  public slots (`SlotsLeft`) and whatever signals, `[]WaitersCounted`,
  `[]FreeSlotUnused` and `[]ListsPartition`.
* `NothingFreedIsTouched`: with `SlotsLeft` and no signals, `[]NoFault` as long as
  `[]RenewalWaits`: no private queue is given to a new thread while a receiver of
  the old one stands before `queue_dealloc`.
* `QueueRefinesTermQueue`: `MessageQueue` implements `TermQueue`
  (`ImplementsTermQueue`), with `SlotsLeft`, no signals and `IdsLast` (no more creations
  than a slot has incarnations), as long as `[][EntryLeft]_vars`: a private queue goes
  to a new thread only when nobody waits in the old one or is about to deallocate it.
  Without private queues the last condition is void.

All but the first and those of `CountIsRight` assume `SignalKinds = {}`. They cannot do without: a
signal ends `wait_on_queue` with the mutex released, which `QueueGoalSignal.cfg`
shows. `SlotsLeft` is needed because of `QueueExhausted.cfg`, `RenewalWaits`
because `queue_dealloc` does not look at `id`, the hazard of `QueuePrivateReuse.cfg`,
and `EntryLeft` because a request that wakes up does not look at it either, which is
what that run shows. `IdsLast` is needed because `incarn` is taken modulo
`IncMask + 1`: an id that comes back names another queue.

The argument. `TypeInv` is `TypeOK` made inductive: the request of a thread in
each `pc` has a real queue id (`RequestInv`, without which `slotOf(t)` is not a
slot), cells have real messages (`CellInv`), the links stay in the table
(`LinkInv`), counters are bounded by the calls made (`CountInv`), a lock is held
by a thread or nobody (`LockInv`), ids by slots (`IdInv`). `LockedInv` adds
that no mark is set (`NoInterrupts`), what kind of request each `pc` belongs to
(`KindInv`), and the converse the theorem is about: a thread in `got` or `go`
holds the mutex, so that no second thread can be in either on the same slot
(`HoldingInv`). A step of another thread on that slot needs `Free(s)`, which the
holder contradicts; a step that releases the mutex belongs to the holder. The
steps that need neither, and would break a weaker invariant, are ACCEPT's
`checklock_message_queue` (a thread which `mutex_owner` names does not lock)
and the error exits that write `mutex_owner` without a lock. `DeletedQuiet`
follows by one lemma per action: only SEND, TRY and RETRY add a waiter; the
first two look at `deleted` under the mutex, and RETRY holds it since a TRY that
did, while `destroy_message_queue` needs it.

`SlotInv` is the invariant of the slots. Its parts: the two lists are lists, apart
and complete (`ChainsInv`); a slot that a thread initialises or deallocates is on
the list of queues and nobody else does so (`WorkInv`); no id reaches such a slot, or
a free one, nobody waits in it and its mutex is free (`SleepInv`); a request which no
interrupt has sent back has the mutex of its queue (`GripInv`, what is left of
`HoldingInv` when there are signals); a private queue stays with its slot (`HomeInv`).
The delicate step is
the last waiter that leaves a destroyed queue: it finds `n_threads = 0` and goes to
`freeing`, and `WaitersCounted` is what says that nobody else can find the same.
`FaultFreeInv` adds to this and `LockedInv` that the cell a receiver stands on is
in the chain of the queue (`PlaceInv`): who changes the chain of a queue holds its
mutex, or deallocates it when, by `SlotInv`, nobody can reach it.

The refinement takes a step to one of `TermQueue`'s actions or to a stutter: the
abstract queue of an id is the content of the slot whose `id` it is, if that slot is
not marked `deleted`. `FaultFreeInv` is not enough for it. `QueueInv` adds that the
term of a send in progress is in no chain and was received by nobody (`StampInv`:
a send suspended on a full queue is tried again and must not be put twice); that a
receiver has passed only cells of another kind than it wants, so that the cell it
accepts is the first of its kind even though it walked the chain over several waits,
during which others appended (`WalkInv`); that a request which has waited is served
by the queue of its own id, or by one marked `deleted` which it then leaves
(`ServedInv`, where a private entry given away breaks the argument); and that the
incarnation a slot gets next was never used (`CreationInv`). Of all steps only the
put, or the acceptance, of a request that woke up in the queue of another thread
corresponds to nothing, and `EntryLeft` excludes it.

`ThreadTableProofs`, for every finite set of threads, any number of entries and any
bounds, with fewer live threads than entries (`RoomLeft`):

* `TypesHold`, `ListsStayApart`, `EntryIsKept`: `[]TypeOK`, `[]ListsPartition` and
  `[]RunningOwnsEntry` as long as `[]Undisturbed`: no thread is on an error path of
  thread_create, which changes the lists without `th_mutex`, none detaches a thread
  that is being joined, and no join would deadlock.
* `OneJoinerIsSafe`: the same three without an assumption on the behaviour, for
  programs in which one thread joins and detaches, never itself, no
  `pthread_create` fails and there are no aliases to clash.
* `TableRefinesLife`: `ThreadTable` implements `ThreadLife` (`ImplementsThreadLife`)
  as long as `[]Undisturbed`, when the process has at most `IncMask + 2` threads, the
  main one among them (`IdsSuffice`); `OneJoinerRefinesLife`: the same for the programs
  of `OneJoinerIsSafe`. The instance of `TableLife.cfg` is one of those.
* `NoAliasDangles`: `[]NoDanglingAlias` as long as `[]Undisturbed` and
  `[][NoLateDetach]_vars`: nobody is detached between its look at its own entry and its
  exit (the second departure about aliases at the end of 2.9).
* `BallsAreKept`: `[]ExitBallsKept` under the same conditions and `IdsSuffice`, as long
  as `[]JoinReturnsOwnBall`: a join answers with the ball of the thread it joined.
* `OneThrowerIsAnswered`: with `OneThrower` (at most one thread of the program throws),
  `[]JoinReturnsOwnBall` itself, hence `[]ExitBallsKept` without assuming it.

`TableBalls.cfg` shows that two threads that throw are enough to refute
`JoinReturnsOwnBall`; `TableReuse.cfg` checks `NoDanglingAlias` and `ExitBallsKept` in a
table that does fill up, and with a failing creation, so on this side the run covers what
the theorems exclude.

`TableExhausted.cfg`, `TableJoinDetach.cfg`, `TableClash.cfg` and the two departures
at the end of 2.9 are the programs that the assumptions exclude. `TableInv` says
that the two lists are lists, apart and complete (`ListsInv`), that a thread which
exists, or has still to be joined, has an entry with its incarnation, whose `exited`
and `detached` are true exactly when the thread has exited and when POSIX has it
detached (`HolderInv`), that an entry in creation is on the list of threads
(`StartingInv`), and that no two of these share an entry (`OneHolder`). What the code
relies on without saying it is that exactly one of the exit of a thread, its join and
its detach deletes the entry; `AskInv` ties each request in progress to the thread it
is about, by the value of `joinid`: while a thread waits in `pthread_join`, or has
just joined or detached, the entry it is going to delete is still that thread's, and
no other request is about to do the same.

The refinement adds to `TableInv` which ids were given: an entry gives its
incarnations in their order, so that the ones given are 0 up to its `incarn`, or none
(`IncarnInv`), and the id of a thread in creation is of no thread that ever ran
(`FreshInv`). An id comes back when an entry has given all of them and is free: then
there were `IncMask + 1` threads at this entry, besides the main thread, which stays
at its own, and the one to be created (`IncarnLeft`, a count of the threads). Then
each step is an action of `ThreadLife` or a stutter: the POSIX creation is `Create` or
`CreateDetached`, the exit under `th_mutex` is `Exit` or `ExitDetached` as `detached`
says, the `th_delete` of a join is `Reclaim`, and the last step of a detach is
`Reclaim` or `Detach` as `exited` says (`SpawnStep`, `ExitTableStep`,
`JoinDeleteStep`, `DetachTableLife`).

`DanglingInv` adds to `TableInv` what a join and a creation know of `aliased`
(`AliasedInv`: the copy a join took before `th_delete`, and that the flag of an entry in
creation says whether it has an alias), and for each alias that there is somebody who
will retract it (`AliasKnown`): its entry is on the list of threads and flagged, and no
thread with that entry is leaving detached, or a join has deleted the entry and is about
to retract. That somebody is unique by `TableInv`, which is why one lemma per request
that deletes (`ExitAliases`, `JoinDeleteAliases`, `AnswerAliases`, `DetachAliases`)
suffices.

`KeptInv` adds to the invariant of the refinement that every entry in use is of a thread
or a creation (`LiveOwned`), that no two threads had the same id (`Unique`), that a join
which is about to answer is the only one about its thread, which has exited and lost its
entry (`AnswerInv`), and that joins and entries agree with the thread on whether it threw
(`TermInv`). `BallInv` is then the exact content of the facts: once each, the ids of the
threads that threw and whose entry is in use, or whose join is about to answer. An exit
asserts one that was not there because ids are unique; a join retracts the ball it found,
and by the hypothesis that is its own. With one thrower there is only one ball it can find.

`UserMutexProofs`, for every set of threads and frames and every role set:

* `OwnerIsHolder`: `Spec => []OwnerHolds`. `owner` is written only by a thread
  that has just got the mutex, and cleared before it is released; the invariant
  adds the types of the records the argument reads and that a thread between
  `pthread_mutex_lock` and the assignments has the mutex (`LockedHeld`).
* `HolderRecorded`: with `Strangers = {}` and `Hasty = {}`,
  `Spec => []HolderIsRecorded`. Both assumptions are needed (`MutexStranger.cfg`;
  a walk that runs into a lock leaves a count of another thread's locks). The
  invariant says what the record of a paired mutex is at each `pc` of a request:
  behind by one between the POSIX call and the assignment that follows it
  (`PairedRecord`), that no two threads are in such a gap on the same mutex
  (`PairedCalls`), and that a thread which walks the chain walks it alone
  (`WalksAlone`).
* `TypeCorrect`: `Spec => []TypeOK`. That a recursive mutex is not held more often
  than its bound is not immediate: a thread that is granted a mutex was let ask for
  it when it held fewer, and nobody else changes that while it waits (`HeldInv`).
* `ExitReleases`: with `Strangers = {}`, `Hasty = {}` and one creator,
  `Spec => []GoneHoldsNothing`. The walk of an exiting thread is not protected, so
  the invariant must say where it is: every paired mutex the thread still holds is
  at or behind its position in the chain (`ExitInv`). New mutexes go to the front and
  cannot be its own, because it asks for nothing any more; the chain that a creator
  has read is a prefix-extension of the one it will write (`ChainInv`), which is
  where a second creator (`MutexChain.cfg`) breaks the argument.

`SharedTablesProofs`, for all finite sets of threads and subgoals, any programs and choice of
negative calls:

* `TypeCorrect`: `Spec => []TypeOK`, whatever the program does.
* `LeadersComplete`: `[]CompletedClosed` as long as `[]LeaderIsFree`.
* `WalksEnd`: `[]WalkEnds` as long as `[]LeaderIsFree`.

`LeaderIsFree` says of a thread that takes over others that it was not reset while it
waited and waits for nobody itself; the first half serves `LeadersComplete`, the second
`WalksEnd`. `tables_shared` finds it true of every program of three subgoals, and the
theorems are not about those alone: that the proof of either could not do without it is
what led to `TakenOver`, in which a leader is not free and both properties fail
(`TablesTakenOver.cfg`). What the two theorems say of the code is thus that this is the
only way in which they can fail.

`StackInv` says what `TypeOK` rests on: the frames a thread resolves clauses of
(`Shape`). Equal levels are runs, so that an SCC is a run of frames with its leader
first; the caller of a frame is in the SCC of the frame below it, and `cur` in the
youngest (`Levels`). Then the leader that `bottom_leader` walks to exists, the frames
below it keep a `Shape`, and the caller of the first frame lost is one of those that are
left, where the thread goes on. Above `cur`, and between a frame and its caller, there
are no calls left to make (`Depths`). One lemma per way to change a stack (`PushShape`,
the join by `adjust_level`, a call taken from the clauses, the return to a caller, the
cut of a reset or a completion) and one per action use it.

`ClosedInv` adds where each call that was made is to be found (`Recorded`): the table is
complete, or its frame was pushed by the caller's, or is in the caller's SCC, or it is
the call in hand, which belongs to `cur` (`Written`). A reset that is answered by the
restart of the first lost frame puts that call back in hand; it is a leader that goes on
with another one which loses it. When a leader marks its SCC, `Depths` says that all its
calls were made, and the levels that every one recorded leads to a complete table or
into the SCC itself (`Marks`).

`LinksInv`, for `WalkEnds`, needs little besides: the walk of `would_deadlock`, which
takes as many steps as there are threads, has left every cycle or met the thread it is
about; a thread which waits therefore closes no cycle, one that takes over or stops
waiting only removes links, and each victim is then linked to the leader, which waits
for nobody and is not in its own chain (`OthersChained`).

`DelaySimplificationProofs`, for every finite set of goals and of lists and any
bounds, whether or not outdated negations are kept:

* `LinksAreHeld`: `Spec => []LinksHold`. The invariant adds what the frames of
  the stack remember (`StackOk`): an answer whose positive uses are walked
  because it became true is unconditional until the walk returns; one that lost
  its last list is gone, and when `simplify_pos_unsupported` has returned no use
  of it is left. Without the first, the ASI that `simplify_pos_unconditional`
  frees at its end might have been needed again by a call it made; without the
  second, the ASI freed after an answer was deleted might still have uses. The
  proof has one lemma per way to change the links (release, removal of one
  element, interning), one for what each does to a list (`HoldKeeps`,
  `DropKeeps`), and one per procedure.

`IncrementalTablingProofs`, for every finite set of subgoals and of leaves, any
programs, answers and bounds, with `ThrowsAnywhere = FALSE`:

* `GraphStaysWhole`: `Spec => []GraphAgrees`.
* `TypesHold`: `Spec => []TypeOK`.
* `CountsStayAhead`: `[]CountsCover` as long as `[]CountsLow`: no `falsecount` is so
  near its width that one traversal of the graph could pass it (`IncrWrap.cfg`).
* `VisitorsAreCounted`: with `SpentQueries = FALSE` as well, `[]VisitorsCounted`
  under the same condition. `IncrViewLost.cfg` is the query it excludes.

The assumption is needed: an exception inside a re-evaluation leaves the node the
table had before (`IncrZombie.cfg`). `GraphInv` adds that a table has a call node
exactly while it exists (`Lives`), a previous one only while it is incomplete,
and that the incomplete tables are those of the completion stack, each in one
SCC (`Stack`). What is delicate is the step that completes an SCC: it moves the
edges of a new node in place of the old one, or frees the old one and everything
that leads to it, for all tables of the SCC at once; the lemmas on the stack (a call pushes an SCC, merges some, a completion pops one) and on
the edges (one edge added, the nodes of a set freed) are stated apart from it.
That counts stay in range uses that `Closure` is a fixpoint: a count that the
propagation of no change leaves positive is above the number of edges that lower
it, for otherwise its node would be in the fixpoint.

`CountsCover` compares the count of a table with the affected tables below it, and
is not inductive: when one of them is re-evaluated it is affected no longer, yet its
part is taken out of the count only when it turns out unchanged. `CoverInv` counts
the tables below that are affected or being re-evaluated (`PendingDeps`), says that
`deleted` is set exactly when the count is positive, that an incomplete table starts
from a node without counts, and that what it has called is up to date or is
completed with it or before it (`OrderedDeps`): the edges a completion moves from a
new node to its old place bring no debt with them. An invalidation reaches each
table once per edge from a table that was not marked before it, which is what turns
the fixpoint of `dfs_outedges` into a bound on the count; the propagation of an
unchanged table takes one from a count for each table it clears, and each of those
leaves `PendingDeps`.

`VisInv` adds the choice points: the visitors of a complete table are those in its
trie, a table marked by a direct change that is still complete has been left by all
of them (`LeftAlone`), and the lazy list of the top level returns only from tables
that are up to date (`ReturnsFresh`), so that no query enters a trie between the copy
`find_the_visitors` makes and the recomputation. Spent choice points are the gap
(`SpentFresh`).

`FreshTablesProofs`, for the same instances and finitely many answers:

* `NothingIsStale`: `[]NoStaleTable` as long as `[]CountsLow`;
* `OpenQueriesKeepTheirView`: `IncrementalTabling` implements `FreshTables`
  (`ImplementsFreshTables`) as long as `[]CountsLow`, for `SpentQueries = FALSE`. With
  `SpentQueries` it does not: `IncrViewLost.cfg`.

`FreshTables!Meaning` is computed by rounds. That it is the least model of the
clauses (`MeaningIsModel`, `MeaningIsLeast`) follows because the rounds only grow and
there are no more answers than rounds; each induction is over a set of numbers
(`SetInduction` of `EntryLists`), which the provers can instantiate. A complete table
that is not affected depends only on tables like it (`DepsOfFresh`), so these tables
together are a model, and their answers are at least the meaning. That they are no
more cannot be read off the state: an affected table may hold anything. `FreshInv`
says what its answers still are, as long as its whole count stands for tables that
may turn out unchanged (`Clean`): what its clauses derived from what those below
held (`Settled`, over `Held`, the answers a table that is recomputed had or may get
again). It adds that a table in computation derives only what follows from its
consumed goals (`Working`) and only what is in the meaning (`Sound`), and that a
complete table depends on nothing that is gone for good (`DepsLive`). The delicate
steps are two. An update: the tables it leaves unaffected reach nothing it affects
(`SparedTables`), so the meaning of their clauses is the same before and after. And
the completion of an SCC, where `propagate_no_change` brings tables to zero in a
cascade: it is a least fixpoint (`Least`), and the tables of it whose answers are in
the meaning are closed under its step (`SccSound`), because a count that comes to
zero is the number of all the pending tables below, each unchanged or brought to zero
before. That the completed tables themselves are closed under their clauses is the
condition for completion (`CalledToTheEnd`).

The refinement takes a step of the code to `Ask`, `Respond`, `NextAnswer`, `Close`,
`ChangeFacts` or `GiveUp`, or to a stutter: one lemma per action (`QueryRefines` to
`ThrowRefines`) over one per abstract action (`AbstractAsk` to `AbstractGiveUp`). It
rests on both invariants above and on the shape of the list of the top level
(`OneCall`: only its last item is the call or the return of the query, the others are
re-evaluations), by which lazy re-evaluation does not change the query that runs
(`CallAsks`, `ListRest`, `ListJoined`). The answers of a query are the meaning because
it returns from a table that is complete and not affected (`ReturnsFresh`, then
`FreshHolds`). What an open query has still to return is unchanged by a step because
no choice point is within a table that is recomputed or deleted (`ViewsKept`, from
`Counted` and `LeftAlone`) or because it is copied first (`ViewsCopied`).

Not proved, and checked by TLC only:

* liveness (`MessagesReceived` and its like, `DetachedReclaimed`, `ExitEnds`,
  `QueryReturns`, `EveryCallReturns`) and deadlock, which are about fairness and
  ENABLED;
* `OneProducer`, `NoDeadlock` and `LeaderIsFree`, true of three subgoals and refuted by
  programs of four (2.9), so that there is nothing to prove for every instance;
  `NoDeadlock` fails for a moment even where `LeaderIsFree` holds, while one of the
  threads of the cycle has still to be reset;
* `ResidualIsReduct`, which compares a state with a least model of the derivations,
  and `Shrinks`, a sum over all that is left to do: an induction over
  the derivations.

## 4. Not modelled

The reasons are in `PROJECT.json` under each component. In short: the
interpreter, unification, the tries, the garbage collectors and the compiler
are sequential algorithms over terms; the trie read-write lock and concurrent
completion are not compiled in any configuration the build offers. Within the
modelled components:

* threads: `xsb_ccall_thread_create`, the walk of thread_property/2 with an
  unbound thread, exit handlers and statuses, disabling of cancellation,
  interrupts other than THREADINT_MARK;
* shared tables: subsumptive calls, exceptions, early completion, and calls made
  after an answer;
* incremental tabling: updates made inside an evaluation, early completion,
  conditional answers, subsumptive, abstracted and opaque calls, the transitive
  abolish, `outcount`, and the inspection built-ins;
* delays: goals with several answers and delayed variables, call subsumption,
  private tables, answer completion (`force_answer_true`,
  `force_answer_false`), and the inspection of the residual program.

## 5. Plan

What would add most, in this order:

1. Shared tables: exceptions in the computation of a shared table, and calls
   that follow an answer.
2. Incremental tabling: an update inside an evaluation, and conditional answers,
   which join it to the delays.
3. Delays: answer completion over the residual program, and the exact and
   approximate completion of SCCs (`slginsts_xsb_i.h`, `complete_local.h`,
   `scc_xsb.c`) over an abstract program graph.
4. Thread signals (`enable_cancel`, `to_be_cancelled`, the marks of
   `asynint_val`), the timer's second thread, the hand-over of the C interface,
   the walk of thread_property/2.
5. Clause references and their collection (`biassert.c`), pools
   (`struct_manager.c`), findall records.
