--------------------------- MODULE MCSharedTables ---------------------------
EXTENDS SharedTables
CONSTANTS t1, t2, t3, a, b, c, d, e
(* Every call graph in which no subgoal calls itself.                         *)
AllPrograms ==
  {p \in [Subgoals -> SUBSET Subgoals] : \A s \in Subgoals : s \notin p[s]}
(* A thread whose own call has come true meanwhile is taken over.             *)
TakenOver == {a :> {b, d} @@ b :> {} @@ c :> {e} @@ d :> {b, c} @@ e :> {d}}
(* A leader takes a subgoal that another leader has grabbed.                  *)
TwoLeaders == {a :> {b} @@ b :> {a, d} @@ c :> {b, c} @@ d :> {a, c} @@ e :> {}}
Symmetry == {p @@ q : p \in Permutations(Threads), q \in Permutations(Subgoals)}
=============================================================================
