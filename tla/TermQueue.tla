------------------------------ MODULE TermQueue ------------------------------
(* What the queue predicates of lib/mutex_xsb.P promise: a queue is a bounded *)
(* sequence of terms known by its id; thread_send_message/2 appends,          *)
(* thread_get_message/2 takes the first term that unifies, and an id dies     *)
(* with its queue.                                                            *)
EXTENDS Integers, SequencesExt

CONSTANTS Ids,       \* queue ids
          Kinds,     \* what tells terms apart when a receiver unifies
          MaxTerms,  \* capacity of a queue, 0 for none
          Stamps,    \* what tells apart two terms of one kind
          Preset     \* ids of the queues that exist from the start

VARIABLES queues,    \* the terms on each open queue
          known,     \* ids ever given out
          got        \* which call, on which id, received which term
tqVars == <<queues, known, got>>

TQInit == /\ queues = [i \in Preset |-> <<>>]
          /\ known = Preset
          /\ got = {}

Open == DOMAIN queues

NewQueue(i) ==
  /\ i \in Ids \ known
  /\ known' = known \cup {i}
  /\ queues' = [j \in Open \cup {i} |-> IF j = i THEN <<>> ELSE queues[j]]
  /\ UNCHANGED got

(* A term is put on one queue, once.                                          *)
Send(i, n, k) ==
  /\ i \in Open
  /\ \A j \in Open : \A b \in 1 .. Len(queues[j]) : queues[j][b].n # n
  /\ \A g \in got : g.n # n
  /\ MaxTerms # 0 => Len(queues[i]) < MaxTerms
  /\ queues' = [queues EXCEPT ![i] = Append(@, [n |-> n, kind |-> k, to |-> i])]
  /\ UNCHANGED <<known, got>>

Get(i, k) ==
  /\ i \in Open
  /\ \E j \in 1 .. Len(queues[i]) :
       /\ queues[i][j].kind = k
       /\ \A b \in 1 .. j - 1 : queues[i][b].kind # k
       /\ queues' = [queues EXCEPT ![i] = RemoveAt(@, j)]
       /\ got' = got \cup {[n |-> queues[i][j].n, by |-> i, want |-> k]}
  /\ UNCHANGED known

Destroy(i) ==
  /\ i \in Open
  /\ queues' = [j \in Open \ {i} |-> queues[j]]
  /\ UNCHANGED <<known, got>>

TQNext ==
  \/ \E i \in Ids : NewQueue(i) \/ Destroy(i)
  \/ \E i \in Ids, k \in Kinds : Get(i, k)
  \/ \E i \in Ids, k \in Kinds, n \in Stamps : Send(i, n, k)

TQSpec == TQInit /\ [][TQNext]_tqVars
=============================================================================
