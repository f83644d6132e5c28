----------------------------- MODULE FreshTables ------------------------------
(* What incremental tabling promises its caller (docs/userman/incr_tabling.tex *)
(* 139-156): the answers of a query are those that the clauses derive from    *)
(* the dynamic facts at the moment of the call, and an open query goes on     *)
(* returning them whatever updates come later.                                *)
EXTENDS Naturals, SequencesExt

CONSTANTS
  Subgoals, Leaves,   \* tabled calls, and calls of dynamic predicates
  Answers,
  Nothing             \* no query

VARIABLES
  program,  \* the clause bodies of each subgoal, as sequences of goals
  facts,    \* the answers of each leaf
  asked,    \* the query that runs
  views     \* the open queries, the oldest first: what each has still to return

freshVars == <<program, facts, asked, views>>

(* The answers that every goal of a body has, under a valuation of the goals. *)
Join(body, val) == {a \in Answers : \A i \in DOMAIN body : a \in val[body[i]]}

(* The least valuation of the subgoals that satisfies every clause.           *)
Meaning(clauses, fct) ==
  LET derived[n \in Nat] ==
        IF n = 0 THEN [s \in Subgoals |-> {}]
        ELSE LET before == derived[n - 1]
                 val == [g \in Subgoals \cup Leaves |->
                           IF g \in Leaves THEN fct[g] ELSE before[g]]
             IN [s \in Subgoals |-> UNION {Join(b, val) : b \in clauses[s]}]
  IN derived[Cardinality(Subgoals) * Cardinality(Answers)]

FreshInit == asked = Nothing /\ views = <<>>

Ask(s) ==
  /\ asked = Nothing /\ asked' = s
  /\ UNCHANGED <<program, facts, views>>

(* The query returns its first answer, or fails.                              *)
Respond ==
  LET all == Meaning(program, facts)[asked] IN
  /\ asked # Nothing /\ asked' = Nothing
  /\ \/ all = {} /\ UNCHANGED views
     \/ \E a \in all : views' = Append(views, [sub |-> asked, rest |-> all \ {a}])
  /\ UNCHANGED <<program, facts>>

(* Backtracking into the youngest open query returns its next answer.         *)
NextAnswer ==
  /\ asked = Nothing /\ views # <<>>
  /\ \E a \in Last(views).rest :
       \/ views' = [views EXCEPT ![Len(views)].rest = @ \ {a}]
       \/ Last(views).rest = {a} /\ views' = Front(views)
  /\ UNCHANGED <<program, facts, asked>>

(* The youngest open query fails or is cut.                                   *)
Close ==
  /\ asked = Nothing /\ views # <<>> /\ views' = Front(views)
  /\ UNCHANGED <<program, facts, asked>>

ChangeFacts ==
  /\ asked = Nothing
  /\ \E l \in Leaves, f \in SUBSET Answers : facts' = [facts EXCEPT ![l] = f]
  /\ UNCHANGED <<program, asked, views>>

GiveUp == asked # Nothing /\ asked' = Nothing /\ UNCHANGED <<program, facts, views>>

FreshNext ==
  \/ \E s \in Subgoals : Ask(s)
  \/ Respond \/ NextAnswer \/ Close \/ ChangeFacts \/ GiveUp

FreshSpec == FreshInit /\ [][FreshNext]_freshVars
=============================================================================
