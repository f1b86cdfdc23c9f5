--------------------------- MODULE MCBudgetStore ---------------------------
(***************************************************************************)
(* An instance of BudgetStore for TLC.                                     *)
(***************************************************************************)
EXTENDS BudgetStore, TLC

CONSTANTS r1, r2, m1

\* One key that inherits its team's budget, and a reload that gives the same
\* key a budget of its own.  The budget caps the model as well as the total,
\* and half of the total is used already, so reservations of one token compete
\* for both counters and one may fail after its first scope.  Key and team
\* share their id, which only the scope of a counter tells apart.  Day 1
\* starts a new month.
MCBudget == [period |-> "month", max_tokens |-> 2, per_model |-> (m1 :> 1)]
MCBudgets == {MCBudget}
MCApiKeys ==
  {[id |-> 1, team_id |-> 1, budget |-> NoBudget, rpm_limit |-> 1,
    concurrency_limit |-> 1],
   [id |-> 1, team_id |-> 1, budget |-> MCBudget, rpm_limit |-> 0,
    concurrency_limit |-> 0]}
MCSeed ==
  [u \in UsageKey |-> IF u.scope = 2 /\ u.period_start = 0 THEN 1 ELSE 0]
MCMonthStart == [d \in 0..MaxDay |-> d]
=============================================================================
