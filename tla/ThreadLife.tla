----------------------------- MODULE ThreadLife -----------------------------
(* What the thread predicates promise about a thread (docs/userman/threads.tex *)
(* 282-300, 974-981): a thread is valid if it has not terminated, or if it is *)
(* joinable and has not been joined; what is kept of it is removed when it is *)
(* joined, when it is detached after it terminated, or when it terminates     *)
(* detached, and a thread id never comes back.                                *)
CONSTANT Ids
VARIABLE life  \* none, running, detached, exited or gone, of every thread id

LifeInit == \E i \in Ids : life = [j \in Ids |-> IF j = i THEN "running" ELSE "none"]

Becomes(i, from, to) == life[i] = from /\ life' = [life EXCEPT ![i] = to]

Create(i)        == Becomes(i, "none", "running")
CreateDetached(i) == Becomes(i, "none", "detached")
Detach(i)        == Becomes(i, "running", "detached")
Exit(i)          == Becomes(i, "running", "exited")
ExitDetached(i)  == Becomes(i, "detached", "gone")
Reclaim(i)       == Becomes(i, "exited", "gone")

LifeNext == \E i \in Ids :
  \/ Create(i) \/ CreateDetached(i) \/ Detach(i)
  \/ Exit(i) \/ ExitDetached(i) \/ Reclaim(i)

LifeSpec == LifeInit /\ [][LifeNext]_life
=============================================================================
