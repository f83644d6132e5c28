-------------------------- MODULE IncrementalTabling --------------------------
(* Incremental tabling: the dependency graph between dynamic calls and tables *)
(* (emu/call_graph_xsb.c), the invalidation of the tables that an update      *)
(* affects, their lazy re-evaluation when one of them is called               *)
(* (emu/tables.c, emu/slginsts_xsb_i.h, syslib/increval.P), and the open      *)
(* queries that must keep the answers they were called with                   *)
(* (emu/tc_insts_xsb_i.h).                                                    *)
(*                                                                            *)
(* Clauses are sequences of goals.  An answer of a body is an answer of each  *)
(* of its goals; a goal is called once those before it have an answer in      *)
(* common.  Subgoals that depend on each other are evaluated together; which  *)
(* of them goes on, and in which clause, is left open.                        *)
EXTENDS Integers, SequencesExt

CONSTANTS
  Subgoals, Leaves,  \* incremental tables; calls of incremental dynamic predicates
  Answers,
  Programs,          \* functions from subgoals to sets of bodies
  Top,               \* the top-level query, a NULL ptcpreg
  CountRange,        \* 2^14: the width of falsecount
  MaxUpdates,        \* bound on the changes of the facts
  MaxCursors,        \* bound on the queries open at one time
  SpentQueries,      \* a query is called over a spent choice point of its table
  ThrowsAnywhere     \* an exception may end a re-evaluation

Goals == Subgoals \cup Leaves

ASSUME TopAssumption == Top \notin Goals
ASSUME SetsAssumption ==
  IsFiniteSet(Subgoals) /\ IsFiniteSet(Leaves) /\ Subgoals \cap Leaves = {}
ASSUME BoundsAssumption == CountRange \in Nat \ {0} /\ MaxUpdates \in Nat
ASSUME AnswersAssumption == IsFiniteSet(Answers)
ASSUME ProgramsAssumption == \A cl \in Programs : cl \in [Subgoals -> SUBSET Seq(Goals)]

VARIABLES
  program, facts,
  table,     \* the subgoal frame of each subgoal, with what prev_call says of it
  node,      \* its call node, and the one it replaces while it is re-evaluated
  out, inn,  \* outedges and inedges
  sccs,      \* the completion stack, as the sets of subgoals to complete together
  called,    \* the goals each incomplete subgoal consumes
  lazy,      \* what is left of the lazy call list of each caller
  cursors,   \* the choice points of the open queries, the oldest first
  updates

evalVars == <<sccs, called, lazy>>
vars == <<program, facts, table, node, out, inn, evalVars, cursors, updates>>

Callers == Subgoals \cup {Top}
Cur(s)  == <<s, "current">>     \* producer_sf->callnode
Prev(s) == <<s, "previous">>    \* its prev_call
Nodes   == Subgoals \X {"current", "previous"}

NoTable == [state |-> "none", answers |-> {}, previous |-> {}, changed |-> FALSE,
            visitors |-> 0]
NoNode  == [live |-> FALSE, falsecount |-> 0, deleted |-> FALSE, direct |-> FALSE]
NewNode == [NoNode EXCEPT !.live = TRUE]

Complete(s)   == table[s].state = "complete"
Incomplete(s) == table[s].state = "incomplete"
Affected(s)   == node[Cur(s)].falsecount # 0

Init ==
  /\ program \in Programs
  /\ facts \in [Leaves -> SUBSET Answers]
  /\ table = [s \in Subgoals |-> NoTable]
  /\ node = [n \in Nodes |-> NoNode]
  /\ out = [g \in Goals |-> {}] /\ inn = [n \in Nodes |-> {}]
  /\ sccs = <<>> /\ called = [s \in Subgoals |-> {}]
  /\ lazy = [p \in Callers |-> <<>>]
  /\ cursors = <<>> /\ updates = 0

-----------------------------------------------------------------------------
(* The dependency graph.                                                      *)

(* What a traversal of U reaches from start: the least set that contains      *)
(* start and from which no step leads out.                                    *)
Closure(U, start, Step(_)) ==
  LET closed == {S \in SUBSET U : start \cup Step(S) \subseteq S}
  IN {x \in U : \A S \in closed : x \in S}

Edges(from, n) == {g \in from : n \in out[g]}

(* addcalledge(goal -> the table that calls it); the top level has no node.   *)
AddEdge(o, i, g, p) ==
  IF p = Top THEN out' = o /\ inn' = i
  ELSE /\ out' = [o EXCEPT ![g] = @ \cup {Cur(p)}]
       /\ inn' = [i EXCEPT ![Cur(p)] = @ \cup {g}]

(* dfs_outedges: it stops at tables that are marked already, and counts every *)
(* edge it follows.                                                           *)
InvalidatedOneHop(g) ==
  [n \in Nodes |-> IF n \in out[g] \/ n = <<g, "current">>
                   THEN [node[n] EXCEPT !.falsecount = (@ + 1) % CountRange,
                                        !.deleted = TRUE]
                   ELSE node[n]]
InvalidatedFrom(g) ==
  LET hit == Closure(Subgoals \cup {g}, {g}, LAMBDA S :
                       {t \in Subgoals : ~node[Cur(t)].deleted
                                         /\ Edges(S, Cur(t)) # {}})
  IN [n \in Nodes |->
        [node[n] EXCEPT
          !.falsecount = (@ + Cardinality(Edges(hit, n))
                            + (IF n = <<g, "current">> THEN 1 ELSE 0)) % CountRange,
          !.deleted = @ \/ \E t \in hit \cap Subgoals : n = Cur(t)]]

(* invalidate_call; the count of a leaf is never read.                        *)
Invalidation(g) ==
  IF g \in Subgoals /\ node[Cur(g)].deleted THEN node ELSE InvalidatedFrom(g)

(* propagate_no_change from the tables whose answers are as they were.        *)
NoChangeUncounted(unchanged) ==
  [n \in Nodes |-> IF \E s \in unchanged : n \in out[s]
                   THEN [node[n] EXCEPT !.falsecount = 0, !.deleted = FALSE,
                                        !.direct = FALSE]
                   ELSE node[n]]
NoChange(unchanged) ==
  LET Sources(S) == unchanged \cup {n[1] : n \in S}
      valid == Closure(Nodes, {}, LAMBDA S :
                 {n \in Nodes : /\ node[n].falsecount > 0
                                /\ node[n].falsecount <= Cardinality(Edges(Sources(S), n))})
  IN [n \in Nodes |->
        IF n \in valid THEN [node[n] EXCEPT !.falsecount = 0, !.deleted = FALSE,
                                          !.direct = FALSE]
        ELSE IF node[n].falsecount > 0
          THEN [node[n] EXCEPT !.falsecount = @ - Cardinality(Edges(Sources(valid), n))]
          ELSE node[n]]

(* dfs_dependency_edges: the affected tables below s that no earlier          *)
(* traversal has listed, and those it looks at.                               *)
Below(S) == {t \in Subgoals : Affected(t) /\ \E s \in S : t \in inn[Cur(s)]}
ToRecompute(s) == Closure(Subgoals, {s}, LAMBDA S : {t \in Below(S) : ~node[Cur(t)].direct})

(* The lists it can make of them: a table comes after those it depends on,    *)
(* but for the tables of a cycle.                                             *)
LazyLists(s) ==
  LET R == ToRecompute(s)
      under == [t \in R |-> Closure(R, {t}, LAMBDA S : Below(S) \cap R)]
      n == Cardinality(R)
  IN {l \in [1 .. n -> R] :
        /\ Range(l) = R /\ l[n] = s
        /\ \A i, j \in 1 .. n : i < j /\ l[j] \in under[l[i]] => l[i] \in under[l[j]]}

(* What an open query has still to return.                                    *)
Left(c) == CASE c.mode = "spent" -> {}
             [] c.mode = "list"  -> c.set
             [] c.mode = "trie"  -> table[c.sub].answers \ c.set

(* find_the_visitors copies what is left to the choice points of a table that *)
(* still have an answer to return, and forgets all of its visitors.           *)
CopiedNothing(S) == cursors
Copied(S) ==
  [k \in DOMAIN cursors |->
     LET c == cursors[k] IN
     IF c.mode = "trie" /\ c.sub \in S
     THEN [c EXCEPT !.mode = "list", !.set = Left(c)] ELSE c]
Visited(S) == {s \in S : table[s].visitors # 0}
ForgetNobody(tb, S) == tb
Forget(tb, S) == [s \in Subgoals |->
                    IF s \in S THEN [tb[s] EXCEPT !.visitors = 0] ELSE tb[s]]

(* The tables of a lazy call list are recomputed when they are called next.   *)
MarkedNone(R) == node
Marked(R) == [n \in Nodes |-> IF n \in {Cur(s) : s \in R}
                              THEN [node[n] EXCEPT !.direct = TRUE] ELSE node[n]]

(* The table is given a new call node: the edges lead on to the old one, until*)
(* the table is complete.                                                     *)
HandoverNothing(s) == out
Handover(s) == [g \in Goals |-> IF Cur(s) \in out[g]
                                THEN (out[g] \ {Cur(s)}) \cup {Prev(s)} ELSE out[g]]
ReplacedNone(C) == {}
Replaced(C) == {Prev(s) : s \in C}

-----------------------------------------------------------------------------
(* Calls.                                                                     *)

Idle == sccs = <<>> /\ lazy[Top] = <<>>
Runs(p) == IF sccs = <<>> THEN p = Top ELSE p \in Last(sccs)

(* What the caller still has to do once the call is made: the top level       *)
(* returns from the table when it is complete, a clause consumes its answers, *)
(* and a call of call_if_affected fails back into the list.                   *)
Goes(p, g, use, rest) ==
  lazy' = [lazy EXCEPT ![p] =
    IF p = Top /\ use = "call" THEN <<[sub |-> g, use |-> "return"]>> ELSE rest]
Consumers(p, g, use) ==
  IF p \in Subgoals /\ use = "call" THEN [called EXCEPT ![p] = @ \cup {g}] ELSE called

(* A call of an incremental dynamic predicate (slginsts_xsb_i.h 795-825).     *)
CallLeaf(s, l) ==
  /\ AddEdge(out, inn, l, s)
  /\ called' = Consumers(s, l, "call")
  /\ UNCHANGED <<program, facts, table, node, sccs, lazy, cursors, updates>>

(* The table is being computed, or is complete and not affected.              *)
FindTable(p, g, use, rest) ==
  /\ Incomplete(g) \/ (Complete(g) /\ ~Affected(g))
  /\ AddEdge(out, inn, g, p)
  /\ sccs' = IF Complete(g) THEN sccs
             ELSE LET k == CHOOSE i \in DOMAIN sccs : g \in sccs[i]
                  IN Append(SubSeq(sccs, 1, k - 1),
                            UNION {sccs[i] : i \in k .. Len(sccs)})
  /\ Goes(p, g, use, rest) /\ called' = Consumers(p, g, use)
  /\ UNCHANGED <<program, facts, table, node, cursors, updates>>

(* The table is affected: the call is replaced by that of lazy_reeval_trap,   *)
(* with the list of the tables to bring up to date before it.                 *)
Reevaluate(p, g, use, rest) ==
  /\ Complete(g) /\ Affected(g) /\ ~node[Cur(g)].direct
  /\ LET R == ToRecompute(g)
         V == Visited({g} \cup Below(R))
     IN /\ node' = Marked(R)
        /\ cursors' = Copied(V) /\ table' = Forget(table, V)
  /\ \E l \in LazyLists(g) :
       lazy' = [lazy EXCEPT ![p] =
                  [i \in DOMAIN l |->
                     [sub |-> l[i], use |-> IF i < Len(l) THEN "if" ELSE use]] \o rest]
  /\ UNCHANGED <<program, facts, out, inn, sccs, called, updates>>

(* A new producer: the first call, or the one that recomputes an affected     *)
(* table in place, with its old node and answers kept for the comparison.     *)
Produce(p, g, use, rest) ==
  /\ ~Incomplete(g) /\ (Complete(g) => Affected(g) /\ node[Cur(g)].direct)
  /\ table' = [table EXCEPT ![g] =
                 [NoTable EXCEPT !.state = "incomplete", !.previous = table[g].answers]]
  /\ node' = IF Complete(g)
             THEN [node EXCEPT ![Cur(g)] = NewNode,
                               ![Prev(g)] = [node[Cur(g)] EXCEPT !.falsecount = 0,
                                                                 !.deleted = TRUE]]
             ELSE [node EXCEPT ![Cur(g)] = NewNode]
  /\ AddEdge(Handover(g),
             IF Complete(g) THEN [inn EXCEPT ![Cur(g)] = {}, ![Prev(g)] = inn[Cur(g)]]
             ELSE inn,
             g, p)
  /\ sccs' = Append(sccs, {g})
  /\ Goes(p, g, use, rest) /\ called' = [Consumers(p, g, use) EXCEPT ![g] = {}]
  /\ UNCHANGED <<program, facts, cursors, updates>>

CallTable(p, g, use, rest) ==
  \/ FindTable(p, g, use, rest)
  \/ Reevaluate(p, g, use, rest)
  \/ Produce(p, g, use, rest)

-----------------------------------------------------------------------------
(* Evaluation.                                                                *)

ValueOf(g) == IF g \in Leaves THEN facts[g] ELSE table[g].answers
Common(goals) == {a \in Answers : \A g \in goals : a \in ValueOf(g)}
Prefix(body, i) == {body[j] : j \in 1 .. i}

Callable(s, g) ==
  \E body \in program[s] : \E i \in DOMAIN body :
    /\ body[i] = g /\ Prefix(body, i - 1) \subseteq called[s]
    /\ Common(Prefix(body, i - 1)) # {}
Derivable(s, a) ==
  \E body \in program[s] :
    /\ Range(body) \subseteq called[s] /\ a \in Common(Range(body))

CallGoal(s, g) ==
  /\ Runs(s) /\ lazy[s] = <<>> /\ g \notin called[s] /\ Callable(s, g)
  /\ \/ g \in Leaves /\ CallLeaf(s, g)
     \/ g \in Subgoals /\ CallTable(s, g, "call", <<>>)

(* new_answer_dealloc: an answer of the old table is restored, any other one  *)
(* changes the table.                                                         *)
NewAnswer(s, a) ==
  /\ Runs(s) /\ a \notin table[s].answers /\ Derivable(s, a)
  /\ table' = [table EXCEPT ![s].answers = @ \cup {a}, ![s].previous = @ \ {a},
                            ![s].changed = @ \/ a \notin table[s].previous]
  /\ UNCHANGED <<program, facts, node, out, inn, evalVars, cursors, updates>>

(* lazy_reeval_1: the next call of the list.                                  *)
LazyCall(p) ==
  /\ Runs(p) /\ lazy[p] # <<>>
  /\ LET item == Head(lazy[p]) IN
       \/ /\ item.use = "if" /\ ~Affected(item.sub)
          /\ lazy' = [lazy EXCEPT ![p] = Tail(@)]
          /\ UNCHANGED <<program, facts, table, node, out, inn, sccs, called,
                         cursors, updates>>
       \/ /\ item.use = "call" \/ (item.use = "if" /\ Affected(item.sub))
          /\ CallTable(p, item.sub, item.use, Tail(lazy[p]))

(* The youngest SCC has nothing left to resolve: its tables are complete.  A  *)
(* table that derived what it held before takes its part out of the counts of *)
(* those that depend on it; the old nodes leave the graph                     *)
(* (complete_local.h 400-491, tables.c 739-803).                              *)
CompleteScc ==
  /\ sccs # <<>>
  /\ LET C == Last(sccs)
         unchanged == {s \in C : /\ node[Prev(s)].live /\ ~table[s].changed
                                 /\ table[s].previous = {}}
         counted == NoChange(unchanged)
         old == Replaced(C)
     IN /\ \A s \in C :
             /\ lazy[s] = <<>>
             /\ \A g \in Goals \ called[s] : ~Callable(s, g)
             /\ \A a \in Answers \ table[s].answers : ~Derivable(s, a)
        /\ table' = [s \in Subgoals |->
             IF s \in C THEN [NoTable EXCEPT !.state = "complete",
                                             !.answers = table[s].answers]
             ELSE table[s]]
        /\ node' = [n \in Nodes |-> IF n \in old THEN NoNode ELSE counted[n]]
        /\ out' = [g \in Goals |-> out[g] \ old]
        /\ inn' = [n \in Nodes |-> IF n \in old THEN {} ELSE inn[n]]
        /\ called' = [s \in Subgoals |-> IF s \in C THEN {} ELSE called[s]]
  /\ sccs' = Front(sccs)
  /\ UNCHANGED <<program, facts, lazy, cursors, updates>>

-----------------------------------------------------------------------------
(* The top level.                                                             *)

(* A query of s.  The choice point of a spent query of an affected table is   *)
(* cut first, unless SpentQueries.                                            *)
Query(s) ==
  /\ Idle /\ Len(cursors) < MaxCursors
  /\ SpentQueries \/ \A k \in DOMAIN cursors :
       cursors[k].mode = "spent" => ~Affected(cursors[k].sub)
  /\ lazy' = [lazy EXCEPT ![Top] = <<[sub |-> s, use |-> "call"]>>]
  /\ UNCHANGED <<program, facts, table, node, out, inn, sccs, called, cursors, updates>>

(* trie_root: the query fails, or it counts as a visitor of the trie and      *)
(* returns its first answer.                                                  *)
Spend(c) == IF c.set = table[c.sub].answers THEN [c EXCEPT !.mode = "spent"] ELSE c

Return ==
  /\ sccs = <<>> /\ lazy[Top] # <<>> /\ Head(lazy[Top]).use = "return"
  /\ LET s == Head(lazy[Top]).sub IN
       \/ table[s].answers = {} /\ UNCHANGED <<cursors, table>>
       \/ \E a \in table[s].answers :
            /\ cursors' = Append(cursors,
                            Spend([sub |-> s, mode |-> "trie", set |-> {a}]))
            /\ table' = [table EXCEPT ![s].visitors = @ + 1]
  /\ lazy' = [lazy EXCEPT ![Top] = <<>>]
  /\ UNCHANGED <<program, facts, node, out, inn, sccs, called, updates>>

(* Backtracking into the trie, or into the list that find_the_visitors made.  *)
Resume ==
  /\ Idle /\ cursors # <<>>
  /\ LET c == Last(cursors) IN
       \/ /\ c.mode = "trie"
          /\ \E a \in table[c.sub].answers \ c.set :
               cursors' = [cursors EXCEPT ![Len(cursors)] =
                             Spend([c EXCEPT !.set = @ \cup {a}])]
       \/ /\ c.mode = "list"
          /\ \E a \in c.set :
               cursors' = IF c.set = {a} THEN Front(cursors)
                          ELSE [cursors EXCEPT ![Len(cursors)].set = @ \ {a}]
  /\ UNCHANGED <<program, facts, table, node, out, inn, evalVars, updates>>

(* trie_fail, or a cut: the choice point goes, and with that of the root the  *)
(* visitor it stands for (for a cut: CHECK_TRIE_ROOT).                        *)
Unvisited(c) == IF c.mode = "list" THEN table
                ELSE [table EXCEPT ![c.sub].visitors = @ - 1]

Close ==
  /\ Idle /\ cursors # <<>>
  /\ cursors' = Front(cursors)
  /\ table' = Unvisited(Last(cursors))
  /\ UNCHANGED <<program, facts, node, out, inn, evalVars, updates>>

(* incr_assert and incr_retract: the tables are invalidated, then the facts   *)
(* change.                                                                    *)
Update(l, f) ==
  /\ Idle /\ updates < MaxUpdates /\ f # facts[l]
  /\ node' = Invalidation(l)
  /\ facts' = [facts EXCEPT ![l] = f] /\ updates' = updates + 1
  /\ UNCHANGED <<program, table, out, inn, evalVars, cursors>>

(* incr_invalidate_call.                                                      *)
Invalidate(s) ==
  /\ Idle /\ Complete(s) /\ ~node[Cur(s)].deleted
  /\ node' = Invalidation(s)
  /\ UNCHANGED <<program, facts, table, out, inn, evalVars, cursors, updates>>

(* abolish_table_call: the table is invalidated and leaves the graph; if it   *)
(* has visitors it is kept for them only.                                     *)
Abolish(s) ==
  /\ Idle /\ Complete(s)
  /\ table' = [table EXCEPT ![s] = NoTable]
  /\ node' = [Invalidation(s) EXCEPT ![Cur(s)] = NoNode]
  /\ out' = [g \in Goals |-> IF g = s THEN {} ELSE out[g] \ {Cur(s)}]
  /\ inn' = [n \in Nodes |-> IF n = Cur(s) THEN {} ELSE inn[n] \ {s}]
  /\ cursors' = [k \in DOMAIN cursors |->
       LET c == cursors[k] IN
       IF c.sub = s /\ c.mode # "list"
       THEN [c EXCEPT !.mode = "list", !.set = Left(c)] ELSE c]
  /\ UNCHANGED <<program, facts, evalVars, updates>>

(* An exception that the top level catches: remove_incomplete_tries deletes   *)
(* the incomplete tables with their current nodes and the outedges; the old   *)
(* node of a re-evaluation stays.                                             *)
Throw ==
  /\ ~Idle
  /\ LET C == UNION Range(sccs)
         gone == {Cur(s) : s \in C}
     IN /\ ThrowsAnywhere \/ \A s \in C : ~node[Prev(s)].live
        /\ table' = [s \in Subgoals |-> IF s \in C THEN NoTable ELSE table[s]]
        /\ node' = [n \in Nodes |-> IF n \in gone THEN NoNode ELSE node[n]]
        /\ out' = [g \in Goals |-> IF g \in C THEN {} ELSE out[g] \ gone]
        /\ inn' = [n \in Nodes |-> IF n \in gone THEN {} ELSE inn[n] \ C]
  /\ sccs' = <<>> /\ called' = [s \in Subgoals |-> {}]
  /\ lazy' = [p \in Callers |-> <<>>]
  /\ UNCHANGED <<program, facts, cursors, updates>>

Engine ==
  \/ \E s \in Subgoals, g \in Goals : CallGoal(s, g)
  \/ \E s \in Subgoals, a \in Answers : NewAnswer(s, a)
  \/ \E p \in Callers : LazyCall(p)
  \/ CompleteScc \/ Return

Next ==
  \/ Engine
  \/ \E s \in Subgoals : Query(s) \/ Invalidate(s) \/ Abolish(s)
  \/ \E l \in Leaves, f \in SUBSET Answers : Update(l, f)
  \/ Resume \/ Close \/ Throw

Spec == Init /\ [][Next]_vars
FairSpec == Spec /\ WF_vars(Engine)

-----------------------------------------------------------------------------
(* Properties.                                                                *)

(* The open queries and the one that runs, as the abstract specification sees *)
(* them.                                                                      *)
Fresh == INSTANCE FreshTables WITH
  Nothing <- Top,
  asked <- IF lazy[Top] = <<>> THEN Top ELSE Last(lazy[Top]).sub,
  views <- [k \in DOMAIN cursors |->
              [sub |-> cursors[k].sub, rest |-> Left(cursors[k])]]

(* Types; the count of a node stays below its width, and the call nodes that  *)
(* exist are those of the tables and of the re-evaluations.                   *)
TypeOK ==
  /\ facts \in [Leaves -> SUBSET Answers]
  /\ table \in [Subgoals -> [state : {"none", "incomplete", "complete"},
                             answers : SUBSET Answers, previous : SUBSET Answers,
                             changed : BOOLEAN, visitors : Int]]
  /\ node \in [Nodes -> [live : BOOLEAN, falsecount : 0 .. CountRange - 1,
                         deleted : BOOLEAN, direct : BOOLEAN]]
  /\ out \in [Goals -> SUBSET Nodes] /\ inn \in [Nodes -> SUBSET Goals]
  /\ called \in [Subgoals -> SUBSET Goals] /\ updates \in 0 .. MaxUpdates
  /\ \A s \in Subgoals : /\ node[Cur(s)].live = (table[s].state # "none")
                          /\ node[Prev(s)].live => Incomplete(s)
                          /\ Incomplete(s) = (s \in UNION Range(sccs))

(* A complete table that no count marks as affected holds what its clauses    *)
(* derive from the facts as they are now: the answers a call takes from it    *)
(* are never stale (incr_tabling.tex 139-141).                                *)
NoStaleTable ==
  LET meaning == Fresh!Meaning(program, facts) IN
  \A s \in Subgoals : Complete(s) /\ ~Affected(s) => table[s].answers = meaning[s]

(* The outedges and the inedges are the same graph, and no edge leaves or     *)
(* meets a node that has been deallocated: no remove_some fails for a missing *)
(* key, and no traversal follows a freed node.                                *)
GraphAgrees ==
  \A g \in Goals, n \in Nodes :
    /\ n \in out[g] <=> g \in inn[n]
    /\ n \in out[g] => node[n].live /\ (g \in Subgoals => node[Cur(g)].live)

(* falsecount is at least the number of affected tables a table depends on,   *)
(* so that none of them can clear it alone; a table is marked (deleted), and  *)
(* listed for re-evaluation (recomputable), only while it is affected.        *)
CountsCover ==
  \A s \in Subgoals : Complete(s) =>
    LET n == node[Cur(s)] IN
    /\ n.falsecount >= Cardinality({t \in Subgoals \cap inn[Cur(s)] : Affected(t)})
    /\ n.deleted = (n.falsecount > 0)
    /\ n.direct => n.falsecount > 0

(* The visitors of a complete table are the choice points in its trie, and no *)
(* choice point is left in the trie of a table that is being recomputed.      *)
VisitorsCounted ==
  \A s \in Subgoals :
    LET in == {k \in DOMAIN cursors : cursors[k].sub = s /\ cursors[k].mode # "list"} IN
    /\ Complete(s) => table[s].visitors = Cardinality(in)
    /\ ~Complete(s) => in = {}

(* View consistency (incr_tabling.tex 142-156): a query answers from the      *)
(* facts at its call, and updates, re-evaluations and abolishes in between    *)
(* change nothing of what it still returns.                                   *)
ImplementsFreshTables == Fresh!FreshSpec

(* Every query returns or fails: the lazy lists end, and no two tables wait   *)
(* for each other to be brought up to date.                                   *)
QueryReturns == lazy[Top] # <<>> ~> lazy[Top] = <<>>
=============================================================================
