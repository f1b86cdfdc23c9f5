---------------------------- MODULE BudgetStore ----------------------------
(***************************************************************************)
(* Admission control of the router: the token counters, the RPM slot and   *)
(* the concurrency gauge of RamBudgetStore (src/src/budget/mod.rs), driven *)
(* by the requests that call it (handle_generate, CompletionReporter).     *)
(*                                                                         *)
(* Every request is a task of a multi-threaded runtime.  A counter is one  *)
(* AtomicU64: the load and the compare-and-swap of reserve_scope are two   *)
(* steps, so other requests may move the counter between them; a commit    *)
(* and a rollback touch the scopes of a reservation one after the other.   *)
(* The gauge is tested and raised under the write lock of its map entry,   *)
(* which is one step.                                                      *)
(*                                                                         *)
(* An entry missing from the usage map and an entry holding 0 are the same *)
(* here: reserve_scope inserts 0, and entries are never removed.           *)
(***************************************************************************)
EXTENDS Naturals, FiniteSets

CONSTANTS
  Requests,     \* the requests, one task each
  ApiKeys,      \* the ApiKey records a config snapshot may hand to a request
  KeyIds,       \* ids of API keys
  Teams,        \* ids of teams
  Models,       \* public model names
  Budgets,      \* the Budget records that may be configured
  NoBudget,     \* Option::None for a budget
  NoModel,      \* the model "" of a total scope
  Seed,         \* counter values loaded from usage_ledger before listening
  MaxEst,       \* largest estimate of a request (bound)
  MaxActual,    \* largest usage an upstream reports (bound)
  MaxCap,       \* no configured cap is larger
  MonthStart,   \* the first day of the month of each day
  MaxDay        \* the clock stops on this day (bound)

\* SCOPE_KEY_TOTAL, SCOPE_KEY_MODEL, SCOPE_TEAM_TOTAL, SCOPE_TEAM_MODEL
Scopes == 0..3

\* struct UsageKey: one token counter.
UsageKey == [scope : Scopes, id : KeyIds \cup Teams,
             model : Models \cup {NoModel}, period_start : 0..MaxDay]

\* struct Budget: per_model holds the models that have a cap of their own.
IsBudget(b) ==
  /\ b.period \in {"day", "month"}
  /\ b.max_tokens \in 0..MaxCap
  /\ DOMAIN b.per_model \subseteq Models
  /\ \A m \in DOMAIN b.per_model : b.per_model[m] \in 0..MaxCap

\* struct ApiKey: what admission reads of it.  0 stands for "no limit", which
\* is how reserve and acquire_concurrency read both None and Some(0).
IsApiKey(k) ==
  /\ k.id \in KeyIds
  /\ k.team_id \in Teams
  /\ k.budget \in Budgets \cup {NoBudget}
  /\ k.rpm_limit \in Nat
  /\ k.concurrency_limit \in Nat

ASSUME BudgetStoreAssumptions ==
  /\ IsFiniteSet(Requests)
  /\ NoModel \notin Models
  /\ NoBudget \notin Budgets
  /\ MaxEst \in Nat /\ MaxActual \in Nat /\ MaxCap \in Nat
  /\ MaxDay \in Nat
  /\ MonthStart \in [0..MaxDay -> 0..MaxDay]
  /\ ApiKeys # {} /\ Models # {}
  /\ \A b \in Budgets : IsBudget(b)
  /\ \A k \in ApiKeys : IsApiKey(k)
  /\ Seed \in [UsageKey -> Nat]

VARIABLES
  usage,         \* RamBudgetStore.usage
  inflight,      \* RamBudgetStore.inflight
  team_budgets,  \* RamBudgetStore.team_budgets
  day,           \* the clock, in days
  pc,            \* where each request is
  key, model,    \* the ApiKey record and the model of each request
  est,           \* est_tokens
  eff,           \* result of effective_budget, with the period it selects
  stage,         \* which scope reserve is working on
  cur,           \* the value `current` loaded from the counter
  scopes,        \* BudgetReservation.scopes: keys reserved, est tokens each
  actual,        \* actual_tokens handed to commit
  guard,         \* does the request own a slot of its key's gauge?
  committed,     \* history: tokens committed to each counter
  over           \* history: tokens committed beyond their reservation

store == <<usage, inflight, team_budgets, day>>
task  == <<pc, key, model, est, eff, stage, cur, scopes, actual, guard>>
vars  == <<usage, inflight, team_budgets, day, pc, key, model, est, eff,
           stage, cur, scopes, actual, guard, committed, over>>

SaturatingSub(a, b) == IF a >= b THEN a - b ELSE 0

\* Mutant of PeriodStart: the month starts a day early.
PeriodStartOffByOne(period, now) ==
  IF period = "month" THEN MonthStart[now] - 1 ELSE now

\* period_start(period, now): the first day of the day or month of `now`.
PeriodStart(period, now) ==
  IF period = "month" THEN MonthStart[now] ELSE now

(***************************************************************************)
(* reserve                                                                 *)
(***************************************************************************)

\* effective_budget: the key's own budget overrides its team's.
EffectiveBudget(k) ==
  LET own  == [is_key |-> TRUE, id |-> k.id, budget |-> k.budget,
               period |-> PeriodStart(k.budget.period, day)]
      team == [is_key |-> FALSE, id |-> k.team_id,
               budget |-> team_budgets[k.team_id],
               period |-> PeriodStart(team_budgets[k.team_id].period, day)]
  IN CASE k.budget # NoBudget -> own
       [] k.budget = NoBudget /\ team_budgets[k.team_id] # NoBudget -> team
       [] OTHER -> NoBudget

TotalKey(e) ==
  [scope |-> IF e.is_key THEN 0 ELSE 2, id |-> e.id,
   model |-> NoModel, period_start |-> e.period]

ModelKey(e, m) ==
  [scope |-> IF e.is_key THEN 1 ELSE 3, id |-> e.id,
   model |-> m, period_start |-> e.period]

\* The counter reserve_scope is called for, and its limit.
Target(r) ==
  IF stage[r] = "total" THEN TotalKey(eff[r]) ELSE ModelKey(eff[r], model[r])

Limit(r) ==
  IF stage[r] = "total" THEN eff[r].budget.max_tokens
                        ELSE eff[r].budget.per_model[model[r]]

\* reserve is called: it picks the budget that applies and the period.
Begin(r, k, m, e) ==
  /\ pc[r] = "idle"
  /\ key' = [key EXCEPT ![r] = k]
  /\ model' = [model EXCEPT ![r] = m]
  /\ est' = [est EXCEPT ![r] = e]
  /\ eff' = [eff EXCEPT ![r] = EffectiveBudget(k)]
  /\ pc' = [pc EXCEPT ![r] = IF EffectiveBudget(k) = NoBudget
                             THEN "rpm" ELSE "load"]
  /\ UNCHANGED <<store, stage, cur, scopes, actual, guard, committed, over>>

\* reserve_scope: load the counter.
Load(r) ==
  /\ pc[r] = "load"
  /\ cur' = [cur EXCEPT ![r] = usage[Target(r)]]
  /\ pc' = [pc EXCEPT ![r] = "cas"]
  /\ UNCHANGED <<store, key, model, est, eff, stage, scopes, actual, guard,
                 committed, over>>

Fits(r) == est[r] <= SaturatingSub(Limit(r), cur[r])

\* The amount does not fit: Err, after the scopes reserved so far are undone.
Deny(r) ==
  /\ pc[r] = "cas"
  /\ ~Fits(r)
  /\ pc' = [pc EXCEPT ![r] = "undo"]
  /\ UNCHANGED <<store, key, model, est, eff, stage, cur, scopes, actual,
                 guard, committed, over>>

\* Mutant of CasRetry: tries again with the value it had.
CasRetryStale(r) ==
  /\ pc[r] = "cas"
  /\ Fits(r)
  /\ usage[Target(r)] # cur[r]
  /\ UNCHANGED vars

\* The compare-and-swap failed: try again from the value it observed.
CasRetry(r) ==
  /\ pc[r] = "cas"
  /\ Fits(r)
  /\ usage[Target(r)] # cur[r]
  /\ cur' = [cur EXCEPT ![r] = usage[Target(r)]]
  /\ UNCHANGED <<store, pc, key, model, est, eff, stage, scopes, actual,
                 guard, committed, over>>

\* Mutant of CasOk: a fetch_add after the check instead of the swap.
CasOkBlind(r) ==
  /\ pc[r] = "cas"
  /\ Fits(r)
  /\ usage' = [usage EXCEPT ![Target(r)] = @ + est[r]]
  /\ scopes' = [scopes EXCEPT ![r] = @ \cup {Target(r)}]
  /\ pc' = [pc EXCEPT ![r] = "rpm"]
  /\ UNCHANGED <<inflight, team_budgets, day, key, model, est, eff, stage,
                 cur, actual, guard, committed, over>>

\* The compare-and-swap succeeded: the scope is reserved, and reserve goes on
\* with the model scope, if the budget caps this model, or with the RPM slot.
CasOk(r) ==
  /\ pc[r] = "cas"
  /\ Fits(r)
  /\ usage[Target(r)] = cur[r]
  /\ usage' = [usage EXCEPT ![Target(r)] = cur[r] + est[r]]
  /\ scopes' = [scopes EXCEPT ![r] = @ \cup {Target(r)}]
  /\ LET next == stage[r] = "total" /\ model[r] \in DOMAIN eff[r].budget.per_model
     IN /\ stage' = [stage EXCEPT ![r] = IF next THEN "model" ELSE @]
        /\ pc' = [pc EXCEPT ![r] = IF next THEN "load" ELSE "rpm"]
  /\ UNCHANGED <<inflight, team_budgets, day, key, model, est, eff, cur,
                 actual, guard, committed, over>>

\* take_rpm.  Which requests find the bucket empty is the business of module
\* RpmBucket; here a limited key may be admitted or refused.
TakeRpm(r) ==
  /\ pc[r] = "rpm"
  /\ \/ pc' = [pc EXCEPT ![r] = "reserved"]
     \/ /\ key[r].rpm_limit > 0
        /\ pc' = [pc EXCEPT ![r] = "undo"]
  /\ UNCHANGED <<store, key, model, est, eff, stage, cur, scopes, actual,
                 guard, committed, over>>

(***************************************************************************)
(* acquire_concurrency, and the end of a request                           *)
(***************************************************************************)

\* No limit: a guard that owns nothing.
AcquireUnlimited(r) ==
  /\ pc[r] = "reserved"
  /\ key[r].concurrency_limit = 0
  /\ pc' = [pc EXCEPT ![r] = "running"]
  /\ UNCHANGED <<store, key, model, est, eff, stage, cur, scopes, actual,
                 guard, committed, over>>

\* Mutant of AcquireSlot: one slot too many.
AcquireSlotOffByOne(r) ==
  /\ pc[r] = "reserved"
  /\ key[r].concurrency_limit > 0
  /\ inflight[key[r].id] <= key[r].concurrency_limit
  /\ inflight' = [inflight EXCEPT ![key[r].id] = @ + 1]
  /\ guard' = [guard EXCEPT ![r] = TRUE]
  /\ pc' = [pc EXCEPT ![r] = "running"]
  /\ UNCHANGED <<usage, team_budgets, day, key, model, est, eff, stage, cur,
                 scopes, actual, committed, over>>

\* A slot of the key's gauge is taken.
AcquireSlot(r) ==
  /\ pc[r] = "reserved"
  /\ key[r].concurrency_limit > 0
  /\ inflight[key[r].id] < key[r].concurrency_limit
  /\ inflight' = [inflight EXCEPT ![key[r].id] = @ + 1]
  /\ guard' = [guard EXCEPT ![r] = TRUE]
  /\ pc' = [pc EXCEPT ![r] = "running"]
  /\ UNCHANGED <<usage, team_budgets, day, key, model, est, eff, stage, cur,
                 scopes, actual, committed, over>>

\* None: the handler answers 429 and drops the reservation.
AcquireRefused(r) ==
  /\ pc[r] = "reserved"
  /\ key[r].concurrency_limit > 0
  /\ inflight[key[r].id] >= key[r].concurrency_limit
  /\ pc' = [pc EXCEPT ![r] = "undo"]
  /\ UNCHANGED <<store, key, model, est, eff, stage, cur, scopes, actual,
                 guard, committed, over>>

\* CompletionReporter::finish commits what the upstream reported.
Commit(r, a) ==
  /\ pc[r] = "running"
  /\ actual' = [actual EXCEPT ![r] = a]
  /\ pc' = [pc EXCEPT ![r] = "commit"]
  /\ UNCHANGED <<store, key, model, est, eff, stage, cur, scopes, guard,
                 committed, over>>

\* The request is dropped without a commit: client gone, no backend, error.
Abort(r) ==
  /\ pc[r] = "running"
  /\ pc' = [pc EXCEPT ![r] = "undo"]
  /\ UNCHANGED <<store, key, model, est, eff, stage, cur, scopes, actual,
                 guard, committed, over>>

\* The loops of commit_scopes and rollback_scopes: total scope first.
NextScope(r, u) ==
  /\ u \in scopes[r]
  /\ u.model # NoModel => scopes[r] = {u}

\* Mutant of Adjusted: what the completion did not use is not given back.
AdjustedNoRefund(n, amount, used) ==
  IF used >= amount THEN n + (used - amount) ELSE n

\* add: fetch_add of what the completion used beyond the reservation.
\* sub: fetch_update that gives back, stopping at 0.
Adjusted(n, amount, used) ==
  IF used >= amount THEN n + (used - amount)
                    ELSE SaturatingSub(n, amount - used)

\* One round of commit_scopes: the reserved amount becomes the actual one.
SettleScope(r, u) ==
  /\ pc[r] = "commit"
  /\ NextScope(r, u)
  /\ usage' = [usage EXCEPT ![u] = Adjusted(@, est[r], actual[r])]
  /\ scopes' = [scopes EXCEPT ![r] = @ \ {u}]
  /\ committed' = [committed EXCEPT ![u] = @ + actual[r]]
  /\ over' = [over EXCEPT ![u] = @ + SaturatingSub(actual[r], est[r])]
  /\ UNCHANGED <<inflight, team_budgets, day, pc, key, model, est, eff,
                 stage, cur, actual, guard>>

\* One round of rollback_scopes.
UndoScope(r, u) ==
  /\ pc[r] = "undo"
  /\ NextScope(r, u)
  /\ usage' = [usage EXCEPT ![u] = SaturatingSub(@, est[r])]
  /\ scopes' = [scopes EXCEPT ![r] = @ \ {u}]
  /\ UNCHANGED <<inflight, team_budgets, day, pc, key, model, est, eff,
                 stage, cur, actual, guard, committed, over>>

\* Mutant of Release: the guard goes away without its slot.
ReleaseLeaks(r) ==
  /\ pc[r] \in {"commit", "undo"}
  /\ guard[r]
  /\ guard' = [guard EXCEPT ![r] = FALSE]
  /\ UNCHANGED <<store, pc, key, model, est, eff, stage, cur, scopes, actual,
                 committed, over>>

\* ConcurrencyGuard::drop.  CompletionReporter drops the guard after the
\* reservation; an early return of proxy_forward drops it before.
Release(r) ==
  /\ pc[r] \in {"commit", "undo"}
  /\ guard[r]
  /\ guard' = [guard EXCEPT ![r] = FALSE]
  /\ inflight' = [inflight EXCEPT ![key[r].id] = SaturatingSub(@, 1)]
  /\ UNCHANGED <<usage, team_budgets, day, pc, key, model, est, eff, stage,
                 cur, scopes, actual, committed, over>>

\* Nothing is left to settle.
Finish(r) ==
  /\ pc[r] \in {"commit", "undo"}
  /\ scopes[r] = {} /\ ~guard[r]
  /\ pc' = [pc EXCEPT ![r] = "done"]
  /\ UNCHANGED <<store, key, model, est, eff, stage, cur, scopes, actual,
                 guard, committed, over>>

(***************************************************************************)
(* The environment: configuration reloads and the clock                    *)
(***************************************************************************)

\* sync_teams: each team's entry is replaced, or removed when the team is
\* gone, disabled or without budget.  Entries are written one at a time, and
\* requests run in between.
SyncTeam(t, b) ==
  /\ team_budgets' = [team_budgets EXCEPT ![t] = b]
  /\ UNCHANGED <<usage, inflight, day, task, committed, over>>

NextDay ==
  /\ day < MaxDay
  /\ day' = day + 1
  /\ UNCHANGED <<usage, inflight, team_budgets, task, committed, over>>

(***************************************************************************)
(* The specification                                                       *)
(***************************************************************************)

\* seed_usage stores the ledger's sums before the router listens.
Init ==
  /\ usage = Seed
  /\ inflight = [k \in KeyIds |-> 0]
  /\ team_budgets \in [Teams -> Budgets \cup {NoBudget}]
  /\ day = 0
  /\ pc = [r \in Requests |-> "idle"]
  /\ key = [r \in Requests |-> CHOOSE k \in ApiKeys : TRUE]
  /\ model = [r \in Requests |-> CHOOSE m \in Models : TRUE]
  /\ est = [r \in Requests |-> 0]
  /\ eff = [r \in Requests |-> NoBudget]
  /\ stage = [r \in Requests |-> "total"]
  /\ cur = [r \in Requests |-> 0]
  /\ scopes = [r \in Requests |-> {}]
  /\ actual = [r \in Requests |-> 0]
  /\ guard = [r \in Requests |-> FALSE]
  /\ committed = [u \in UsageKey |-> 0]
  /\ over = [u \in UsageKey |-> 0]

\* One step of the task that serves request r.
RequestStep(r) ==
  \/ \E k \in ApiKeys, m \in Models, e \in 0..MaxEst : Begin(r, k, m, e)
  \/ Load(r)
  \/ Deny(r)
  \/ CasRetry(r)
  \/ CasOk(r)
  \/ TakeRpm(r)
  \/ AcquireUnlimited(r)
  \/ AcquireSlot(r)
  \/ AcquireRefused(r)
  \/ \E a \in 0..MaxActual : Commit(r, a)
  \/ Abort(r)
  \/ \E u \in UsageKey : SettleScope(r, u)
  \/ \E u \in UsageKey : UndoScope(r, u)
  \/ Release(r)
  \/ Finish(r)

Next ==
  \/ \E r \in Requests : RequestStep(r)
  \/ \E t \in Teams, b \in Budgets \cup {NoBudget} : SyncTeam(t, b)
  \/ NextDay

Spec == Init /\ [][Next]_vars

\* The runtime keeps polling every task.  Nothing is assumed of a request while
\* it is running: no timeout of the proxy ends one whose answer is buffered.
Fairness ==
  \A r \in Requests : WF_vars(pc[r] \notin {"idle", "running"} /\ RequestStep(r))

FairSpec == Spec /\ Fairness

(***************************************************************************)
(* Properties                                                              *)
(***************************************************************************)

Effective ==
  [is_key : BOOLEAN, id : KeyIds \cup Teams, budget : Budgets,
   period : 0..MaxDay]

PCs == {"idle", "load", "cas", "rpm", "reserved", "running", "commit",
        "undo", "done"}

\* Type invariant of the store, the tasks and the history variables.
TypeOK ==
  /\ usage \in [UsageKey -> Nat]
  /\ inflight \in [KeyIds -> Nat]
  /\ team_budgets \in [Teams -> Budgets \cup {NoBudget}]
  /\ day \in 0..MaxDay
  /\ pc \in [Requests -> PCs]
  /\ key \in [Requests -> ApiKeys]
  /\ model \in [Requests -> Models]
  /\ est \in [Requests -> 0..MaxEst]
  /\ eff \in [Requests -> Effective \cup {NoBudget}]
  /\ stage \in [Requests -> {"total", "model"}]
  /\ cur \in [Requests -> Nat]
  /\ scopes \in [Requests -> SUBSET UsageKey]
  /\ actual \in [Requests -> 0..MaxActual]
  /\ guard \in [Requests -> BOOLEAN]
  /\ committed \in [UsageKey -> Nat]
  /\ over \in [UsageKey -> Nat]

\* The tokens counter u holds for reservations that are still open.
Held(u) ==
  {x \in Requests \X (1..MaxEst) : u \in scopes[x[1]] /\ x[2] <= est[x[1]]}

\* Conservation: a counter is exactly the seed it booted with, plus what the
\* completions committed to it, plus what open reservations hold, whatever the
\* interleaving of reserve, commit and rollback (budget/mod.rs:400-434).  In
\* particular the saturating subtractions never saturate, so no tokens are
\* forgiven, and a dropped reservation leaves nothing behind, even when the
\* day or the configured budget changed in between.
Conservation ==
  \A u \in UsageKey :
    usage[u] = Seed[u] + committed[u] + Cardinality(Held(u))

\* The caps that may be configured for counter u.
CapsOf(u) ==
  {b.max_tokens : b \in {b \in Budgets : u.model = NoModel}}
    \cup {b.per_model[u.model] : b \in {b \in Budgets : u.model \in DOMAIN b.per_model}}

\* Admission: a counter that moved past the seed it booted with stays within
\* a cap configured for it, except for what completions reported beyond their
\* estimates: concurrent reservations never add up to more than the cap
\* (budget/mod.rs:379-397).
AdmissionBound ==
  \A u \in UsageKey :
    \/ usage[u] <= Seed[u] + over[u]
    \/ \E c \in CapsOf(u) : usage[u] <= c + over[u]

\* The requests that own a slot of key id k.
Holders(k) == {r \in Requests : guard[r] /\ key[r].id = k}

\* The gauge of a key counts exactly the guards alive, so slots are neither
\* leaked nor released twice (budget/mod.rs:74-80 and 329-335).
GaugeExact ==
  \A k \in KeyIds : inflight[k] = Cardinality(Holders(k))

\* A request holds its key's slot only if the limit it was admitted under was
\* not exhausted: no more holders than the largest limit given to that key.
ConcurrencyBound ==
  \A k \in KeyIds :
    Holders(k) # {} =>
      \E x \in ApiKeys : x.id = k /\ Cardinality(Holders(k)) <= x.concurrency_limit

\* A request that asked for admission gets to run or ends with nothing reserved
\* and no slot held, and one that stops running ends in the same way: the retry
\* loop of reserve_scope cannot spin for ever against finitely many
\* competitors, and RAII settles every path.
EveryRequestSettles ==
  \A r \in Requests :
    pc[r] \notin {"idle", "running"} ~>
      \/ pc[r] = "running"
      \/ pc[r] = "done" /\ scopes[r] = {} /\ ~guard[r]
=============================================================================
