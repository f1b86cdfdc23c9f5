------------------------- MODULE BudgetStoreProofs -------------------------
(***************************************************************************)
(* The safety properties of BudgetStore, for any number of requests, keys, *)
(* teams and models and every budget and amount.                           *)
(*                                                                         *)
(* The counters are related to the reservations by counting: Held(u) is a  *)
(* set with one element for every token counter u holds in reserve, so     *)
(* that a reservation adds est elements to it and a settlement takes them  *)
(* away.                                                                   *)
(***************************************************************************)
EXTENDS BudgetStore, FiniteSetTheorems, TLAPS

(***************************************************************************)
(* The inductive part: what a request owns at each point of reserve        *)
(***************************************************************************)

\* What request r has reserved and holds, as a function of where it is.
Owns(r) ==
  /\ pc[r] = "idle" => scopes[r] = {} /\ stage[r] = "total"
  /\ pc[r] \in {"load", "cas"} =>
       /\ eff[r] \in Effective
       /\ stage[r] = "total" => scopes[r] = {}
       /\ stage[r] = "model" => /\ scopes[r] = {TotalKey(eff[r])}
                                /\ model[r] \in DOMAIN eff[r].budget.per_model
  /\ guard[r] => pc[r] \in {"running", "commit", "undo"}

Bookkeeping == TypeOK /\ \A r \in Requests : Owns(r)

\* PeriodStart yields a day.
LEMMA PeriodStartType ==
  ASSUME TypeOK, NEW p
  PROVE  PeriodStart(p, day) \in 0..MaxDay
BY BudgetStoreAssumptions DEF TypeOK, PeriodStart

\* effective_budget yields a budget with its period, or none.
LEMMA EffectiveBudgetType ==
  ASSUME TypeOK, NEW k \in ApiKeys
  PROVE  EffectiveBudget(k) \in Effective \cup {NoBudget}
<1>1. IsApiKey(k)
  BY BudgetStoreAssumptions
<1>2. CASE k.budget # NoBudget
  <2>1. k.budget \in Budgets /\ k.id \in KeyIds
    BY <1>1, <1>2 DEF IsApiKey
  <2> QED BY <1>2, <2>1, PeriodStartType DEF EffectiveBudget, Effective
<1>3. CASE k.budget = NoBudget /\ team_budgets[k.team_id] # NoBudget
  <2>1. k.team_id \in Teams /\ team_budgets[k.team_id] \in Budgets
    BY <1>1, <1>3 DEF IsApiKey, TypeOK
  <2> QED BY <1>3, <2>1, PeriodStartType DEF EffectiveBudget, Effective
<1>4. CASE k.budget = NoBudget /\ team_budgets[k.team_id] = NoBudget
  BY <1>4 DEF EffectiveBudget
<1> QED BY <1>2, <1>3, <1>4

\* The counter reserve_scope works on is one of the store's.
LEMMA TargetType ==
  ASSUME TypeOK, NEW r \in Requests, eff[r] \in Effective
  PROVE  /\ Target(r) \in UsageKey
         /\ TotalKey(eff[r]) \in UsageKey
         /\ stage[r] = "total" => Target(r) = TotalKey(eff[r])
         /\ stage[r] = "model" => Target(r) # TotalKey(eff[r])
<1>1. model[r] \in Models /\ NoModel \notin Models
  BY BudgetStoreAssumptions DEF TypeOK
<1>2. TotalKey(eff[r]) \in UsageKey
  BY DEF TotalKey, UsageKey, Scopes, Effective
<1>3. ModelKey(eff[r], model[r]) \in UsageKey
  BY <1>1 DEF ModelKey, UsageKey, Scopes, Effective
<1>4. ModelKey(eff[r], model[r]) # TotalKey(eff[r])
  <2>1. ModelKey(eff[r], model[r]).model # TotalKey(eff[r]).model
    BY <1>1 DEF ModelKey, TotalKey
  <2> QED BY <2>1
<1> QED BY <1>2, <1>3, <1>4 DEF Target

\* saturating_sub stays in the naturals, and never exceeds what it starts from.
LEMMA SaturatingSubType ==
  ASSUME NEW a \in Nat, NEW b \in Nat
  PROVE  /\ SaturatingSub(a, b) \in Nat
         /\ SaturatingSub(a, b) <= a
         /\ b <= a => SaturatingSub(a, b) = a - b
BY DEF SaturatingSub

\* Adjusted settles est reserved tokens as `used` tokens.
LEMMA AdjustedType ==
  ASSUME NEW n \in Nat, NEW amount \in Nat, NEW used \in Nat
  PROVE  /\ Adjusted(n, amount, used) \in Nat
         /\ Adjusted(n, amount, used) <= n + SaturatingSub(used, amount)
         /\ amount <= n => Adjusted(n, amount, used) = (n - amount) + used
BY DEF Adjusted, SaturatingSub

\* One step keeps the types and what each request owns.
LEMMA BookkeepingStep ==
  ASSUME Bookkeeping, [Next]_vars
  PROVE  Bookkeeping'
<1> USE BudgetStoreAssumptions
<1>1. CASE UNCHANGED vars
  BY <1>1 DEF Bookkeeping, TypeOK, Owns, vars
<1>2. ASSUME NEW r \in Requests, NEW k \in ApiKeys, NEW m \in Models,
             NEW e \in 0..MaxEst, Begin(r, k, m, e)
      PROVE  Bookkeeping'
  <2>1. EffectiveBudget(k) \in Effective \cup {NoBudget}
    BY EffectiveBudgetType DEF Bookkeeping
  <2>2. TypeOK'
    BY <1>2, <2>1 DEF Begin, Bookkeeping, TypeOK, PCs, store
  <2>3. ASSUME NEW q \in Requests PROVE Owns(q)'
    BY <1>2, <2>1, <2>3 DEF Begin, Bookkeeping, TypeOK, Owns
  <2> QED BY <2>2, <2>3 DEF Bookkeeping
<1>3. ASSUME NEW r \in Requests, Load(r) PROVE Bookkeeping'
  <2>1. usage[Target(r)] \in Nat
    BY <1>3, TargetType DEF Load, Bookkeeping, Owns, TypeOK
  <2>2. TypeOK'
    BY <1>3, <2>1 DEF Load, Bookkeeping, TypeOK, PCs, store
  <2>3. ASSUME NEW q \in Requests PROVE Owns(q)'
    BY <1>3, <2>3 DEF Load, Bookkeeping, TypeOK, Owns
  <2> QED BY <2>2, <2>3 DEF Bookkeeping
<1>4. ASSUME NEW r \in Requests, Deny(r) PROVE Bookkeeping'
  <2>1. TypeOK'
    BY <1>4 DEF Deny, Bookkeeping, TypeOK, PCs, store
  <2>2. ASSUME NEW q \in Requests PROVE Owns(q)'
    BY <1>4, <2>2 DEF Deny, Bookkeeping, TypeOK, Owns
  <2> QED BY <2>1, <2>2 DEF Bookkeeping
<1>5. ASSUME NEW r \in Requests, CasRetry(r) PROVE Bookkeeping'
  <2>1. usage[Target(r)] \in Nat
    BY <1>5, TargetType DEF CasRetry, Bookkeeping, Owns, TypeOK
  <2>2. TypeOK'
    BY <1>5, <2>1 DEF CasRetry, Bookkeeping, TypeOK, PCs, store
  <2>3. ASSUME NEW q \in Requests PROVE Owns(q)'
    BY <1>5, <2>3 DEF CasRetry, Bookkeeping, TypeOK, Owns
  <2> QED BY <2>2, <2>3 DEF Bookkeeping
<1>6. ASSUME NEW r \in Requests, CasOk(r) PROVE Bookkeeping'
  <2> DEFINE more == stage[r] = "total" /\ model[r] \in DOMAIN eff[r].budget.per_model
  <2>1. /\ pc[r] = "cas" /\ eff[r] \in Effective
        /\ Target(r) \in UsageKey
        /\ stage[r] = "total" => Target(r) = TotalKey(eff[r]) /\ scopes[r] = {}
    BY <1>6, TargetType DEF CasOk, Bookkeeping, Owns, TypeOK
  <2>2. /\ pc' = [pc EXCEPT ![r] = IF more THEN "load" ELSE "rpm"]
        /\ stage' = [stage EXCEPT ![r] = IF more THEN "model" ELSE stage[r]]
    BY <1>6 DEF CasOk, Bookkeeping, TypeOK
  <2>3. TypeOK'
    <3>1. usage' \in [UsageKey -> Nat]
      <4>1. cur[r] + est[r] \in Nat
        BY DEF Bookkeeping, TypeOK
      <4>2. usage \in [UsageKey -> Nat]
        BY DEF Bookkeeping, TypeOK
      <4>3. usage' = [usage EXCEPT ![Target(r)] = cur[r] + est[r]]
        BY <1>6 DEF CasOk
      <4> QED BY <4>1, <4>2, <4>3, <2>1
    <3>2. scopes' \in [Requests -> SUBSET UsageKey]
      BY <1>6, <2>1 DEF CasOk, Bookkeeping, TypeOK
    <3>3. pc' \in [Requests -> PCs] /\ stage' \in [Requests -> {"total", "model"}]
      BY <2>2 DEF Bookkeeping, TypeOK, PCs
    <3> QED BY <3>1, <3>2, <3>3, <1>6 DEF CasOk, Bookkeeping, TypeOK
  <2>4. ASSUME NEW q \in Requests, q # r PROVE Owns(q)'
    BY <1>6, <2>2, <2>4 DEF CasOk, Bookkeeping, TypeOK, Owns, TotalKey
  <2>5. Owns(r)'
    <3>1. CASE more
      <4>1. scopes'[r] = {TotalKey(eff[r])}
        BY <3>1, <1>6, <2>1 DEF CasOk, Bookkeeping, TypeOK
      <4> QED BY <3>1, <4>1, <1>6, <2>1, <2>2 DEF CasOk, Bookkeeping, TypeOK, Owns, TotalKey
    <3>2. CASE ~more
      BY <3>2, <1>6, <2>1, <2>2 DEF CasOk, Bookkeeping, TypeOK, Owns
    <3> QED BY <3>1, <3>2
  <2> QED BY <2>3, <2>4, <2>5 DEF Bookkeeping
<1>7. ASSUME NEW r \in Requests, TakeRpm(r) PROVE Bookkeeping'
  <2>1. TypeOK'
    BY <1>7 DEF TakeRpm, Bookkeeping, TypeOK, PCs, store
  <2>2. ASSUME NEW q \in Requests PROVE Owns(q)'
    BY <1>7, <2>2 DEF TakeRpm, Bookkeeping, TypeOK, Owns
  <2> QED BY <2>1, <2>2 DEF Bookkeeping
<1>8. ASSUME NEW r \in Requests, AcquireUnlimited(r) \/ AcquireRefused(r)
      PROVE  Bookkeeping'
  <2>1. TypeOK'
    BY <1>8 DEF AcquireUnlimited, AcquireRefused, Bookkeeping, TypeOK, PCs, store
  <2>2. ASSUME NEW q \in Requests PROVE Owns(q)'
    BY <1>8, <2>2 DEF AcquireUnlimited, AcquireRefused, Bookkeeping, TypeOK, Owns
  <2> QED BY <2>1, <2>2 DEF Bookkeeping
<1>9. ASSUME NEW r \in Requests, AcquireSlot(r) PROVE Bookkeeping'
  <2>1. key[r].id \in KeyIds
    BY DEF Bookkeeping, TypeOK, IsApiKey
  <2>2. TypeOK'
    <3>1. inflight' \in [KeyIds -> Nat]
      BY <1>9, <2>1 DEF AcquireSlot, Bookkeeping, TypeOK
    <3>2. guard' \in [Requests -> BOOLEAN] /\ pc' \in [Requests -> PCs]
      BY <1>9 DEF AcquireSlot, Bookkeeping, TypeOK, PCs
    <3> QED BY <3>1, <3>2, <1>9 DEF AcquireSlot, Bookkeeping, TypeOK
  <2>3. ASSUME NEW q \in Requests PROVE Owns(q)'
    BY <1>9, <2>3 DEF AcquireSlot, Bookkeeping, TypeOK, Owns
  <2> QED BY <2>2, <2>3 DEF Bookkeeping
<1>10. ASSUME NEW r \in Requests, NEW a \in 0..MaxActual, Commit(r, a)
       PROVE  Bookkeeping'
  <2>1. TypeOK'
    BY <1>10 DEF Commit, Bookkeeping, TypeOK, PCs, store
  <2>2. ASSUME NEW q \in Requests PROVE Owns(q)'
    BY <1>10, <2>2 DEF Commit, Bookkeeping, TypeOK, Owns
  <2> QED BY <2>1, <2>2 DEF Bookkeeping
<1>11. ASSUME NEW r \in Requests, Abort(r) \/ Finish(r) PROVE Bookkeeping'
  <2>1. TypeOK'
    BY <1>11 DEF Abort, Finish, Bookkeeping, TypeOK, PCs, store
  <2>2. ASSUME NEW q \in Requests PROVE Owns(q)'
    BY <1>11, <2>2 DEF Abort, Finish, Bookkeeping, TypeOK, Owns
  <2> QED BY <2>1, <2>2 DEF Bookkeeping
<1>12. ASSUME NEW r \in Requests, NEW u \in UsageKey, SettleScope(r, u)
       PROVE  Bookkeeping'
  <2>1. /\ Adjusted(usage[u], est[r], actual[r]) \in Nat
        /\ SaturatingSub(actual[r], est[r]) \in Nat
        /\ actual[r] \in Nat
    <3>1. usage[u] \in Nat /\ est[r] \in Nat /\ actual[r] \in Nat
      BY DEF Bookkeeping, TypeOK
    <3> QED BY <3>1, AdjustedType, SaturatingSubType
  <2>2. TypeOK'
    <3>1. usage' \in [UsageKey -> Nat] /\ scopes' \in [Requests -> SUBSET UsageKey]
      BY <1>12, <2>1 DEF SettleScope, Bookkeeping, TypeOK
    <3>2. committed' \in [UsageKey -> Nat]
      <4>1. committed \in [UsageKey -> Nat]
        BY DEF Bookkeeping, TypeOK
      <4>2. committed' = [committed EXCEPT ![u] = committed[u] + actual[r]]
        BY <1>12 DEF SettleScope
      <4>3. committed[u] + actual[r] \in Nat
        BY <4>1, <2>1
      <4> QED BY <4>1, <4>2, <4>3
    <3>3. over' \in [UsageKey -> Nat]
      <4>1. over \in [UsageKey -> Nat]
        BY DEF Bookkeeping, TypeOK
      <4>2. over' = [over EXCEPT ![u] = over[u] + SaturatingSub(actual[r], est[r])]
        BY <1>12 DEF SettleScope
      <4>3. over[u] + SaturatingSub(actual[r], est[r]) \in Nat
        BY <4>1, <2>1
      <4> QED BY <4>1, <4>2, <4>3
    <3> QED BY <3>1, <3>2, <3>3, <1>12 DEF SettleScope, Bookkeeping, TypeOK
  <2>3. ASSUME NEW q \in Requests PROVE Owns(q)'
    BY <1>12, <2>3 DEF SettleScope, Bookkeeping, TypeOK, Owns, TotalKey
  <2> QED BY <2>2, <2>3 DEF Bookkeeping
<1>13. ASSUME NEW r \in Requests, NEW u \in UsageKey, UndoScope(r, u)
       PROVE  Bookkeeping'
  <2>1. SaturatingSub(usage[u], est[r]) \in Nat
    <3>1. usage[u] \in Nat /\ est[r] \in Nat
      BY DEF Bookkeeping, TypeOK
    <3> QED BY <3>1, SaturatingSubType
  <2>2. TypeOK'
    BY <1>13, <2>1 DEF UndoScope, Bookkeeping, TypeOK
  <2>3. ASSUME NEW q \in Requests PROVE Owns(q)'
    BY <1>13, <2>3 DEF UndoScope, Bookkeeping, TypeOK, Owns, TotalKey
  <2> QED BY <2>2, <2>3 DEF Bookkeeping
<1>14. ASSUME NEW r \in Requests, Release(r) PROVE Bookkeeping'
  <2>1. /\ key[r].id \in KeyIds
        /\ SaturatingSub(inflight[key[r].id], 1) \in Nat
    BY SaturatingSubType DEF Bookkeeping, TypeOK, IsApiKey
  <2>2. TypeOK'
    BY <1>14, <2>1 DEF Release, Bookkeeping, TypeOK
  <2>3. ASSUME NEW q \in Requests PROVE Owns(q)'
    BY <1>14, <2>3 DEF Release, Bookkeeping, TypeOK, Owns
  <2> QED BY <2>2, <2>3 DEF Bookkeeping
<1>15. ASSUME NEW t \in Teams, NEW b \in Budgets \cup {NoBudget}, SyncTeam(t, b)
       PROVE  Bookkeeping'
  BY <1>15 DEF SyncTeam, Bookkeeping, TypeOK, Owns, task
<1>16. ASSUME NextDay PROVE Bookkeeping'
  BY <1>16 DEF NextDay, Bookkeeping, TypeOK, Owns, task
<1> QED
  BY <1>1, <1>2, <1>3, <1>4, <1>5, <1>6, <1>7, <1>8, <1>9, <1>10, <1>11, <1>12,
     <1>13, <1>14, <1>15, <1>16 DEF Next, RequestStep

\* The types, and what each request owns at each point of reserve.
THEOREM BookkeepingHolds == Spec => []Bookkeeping
<1>1. Init => Bookkeeping
  BY BudgetStoreAssumptions DEF Init, Bookkeeping, TypeOK, Owns, PCs
<1>2. Bookkeeping /\ [Next]_vars => Bookkeeping'
  BY BookkeepingStep
<1> QED BY <1>1, <1>2, PTL DEF Spec

\* The store, the tasks and the history keep their types; in particular the
\* saturating subtractions keep the counters natural (budget/mod.rs:425-434).
THEOREM TypeCorrect == Spec => []TypeOK
BY BookkeepingHolds, PTL DEF Bookkeeping

(***************************************************************************)
(* Conservation                                                            *)
(***************************************************************************)

\* The tokens request r holds in each of its scopes.
Tokens(r) == {r} \X (1..est[r])

\* There are est of them.
LEMMA TokensCount ==
  ASSUME TypeOK, NEW r \in Requests
  PROVE  IsFiniteSet(Tokens(r)) /\ Cardinality(Tokens(r)) = est[r]
<1>1. est[r] \in Nat
  BY BudgetStoreAssumptions DEF TypeOK
<1>2. IsFiniteSet(1..est[r]) /\ Cardinality(1..est[r]) = est[r]
  BY <1>1, FS_Interval
<1>3. IsFiniteSet({r}) /\ Cardinality({r}) = 1
  BY FS_Singleton
<1>4. /\ IsFiniteSet(Tokens(r))
      /\ Cardinality(Tokens(r)) = Cardinality({r}) * Cardinality(1..est[r])
  BY <1>2, <1>3, FS_Product DEF Tokens
<1> QED BY <1>1, <1>2, <1>3, <1>4

\* What a counter holds is finite, so counting it makes sense.
LEMMA HeldFinite ==
  ASSUME TypeOK, NEW u
  PROVE  IsFiniteSet(Held(u)) /\ Cardinality(Held(u)) \in Nat
<1>1. IsFiniteSet(Requests) /\ IsFiniteSet(1..MaxEst)
  BY BudgetStoreAssumptions, FS_Interval
<1>2. IsFiniteSet(Requests \X (1..MaxEst))
  BY <1>1, FS_Product
<1>3. Held(u) \in SUBSET (Requests \X (1..MaxEst))
  BY DEF Held
<1>4. IsFiniteSet(Held(u))
  BY <1>2, <1>3, FS_Subset
<1> QED BY <1>4, FS_CardinalityType

\* A step that changes neither the scopes nor the estimate of a request that
\* has scopes changes nothing of what the counters hold.
LEMMA HeldUnchanged ==
  ASSUME Bookkeeping, NEW u,
         UNCHANGED scopes,
         \A r \in Requests : scopes[r] # {} => est'[r] = est[r]
  PROVE  Held(u)' = Held(u)
BY DEF Held

\* A reservation adds the request's tokens to the counter it reserved, and to
\* no other.
LEMMA HeldGrows ==
  ASSUME Bookkeeping, NEW r \in Requests, NEW v \in UsageKey, v \notin scopes[r],
         scopes' = [scopes EXCEPT ![r] = @ \cup {v}], UNCHANGED est
  PROVE  /\ Cardinality(Held(v)') = Cardinality(Held(v)) + est[r]
         /\ \A u \in UsageKey : u # v => Held(u)' = Held(u)
<1> USE BudgetStoreAssumptions
<1>1. scopes \in [Requests -> SUBSET UsageKey] /\ est \in [Requests -> 0..MaxEst]
  BY DEF Bookkeeping, TypeOK
<1>2. Tokens(r) \subseteq Requests \X (1..MaxEst)
  BY <1>1 DEF Tokens
<1>3. Held(v)' = Held(v) \cup Tokens(r)
  <2>1. ASSUME NEW x \in Requests \X (1..MaxEst)
        PROVE  x \in Held(v)' <=> x \in Held(v) \/ x \in Tokens(r)
    BY <1>1 DEF Held, Tokens
  <2> QED BY <1>2, <2>1 DEF Held
<1>4. Held(v) \cap Tokens(r) = {}
  BY DEF Held, Tokens
<1>5. /\ IsFiniteSet(Held(v)) /\ Cardinality(Held(v)) \in Nat
      /\ IsFiniteSet(Tokens(r)) /\ Cardinality(Tokens(r)) = est[r]
      /\ est[r] \in Nat
  BY <1>1, HeldFinite, TokensCount DEF Bookkeeping
<1>6. Cardinality(Held(v) \cup Tokens(r)) = Cardinality(Held(v)) + est[r] - Cardinality({})
  BY <1>4, <1>5, FS_Union
<1>7. Cardinality(Held(v)') = Cardinality(Held(v)) + est[r]
  BY <1>3, <1>5, <1>6, FS_EmptySet
<1>8. ASSUME NEW u \in UsageKey, u # v PROVE Held(u)' = Held(u)
  BY <1>1, <1>8 DEF Held
<1> QED BY <1>7, <1>8

\* A settlement takes the request's tokens out of the counter it settles, and
\* out of no other; they were there.
LEMMA HeldShrinks ==
  ASSUME Bookkeeping, NEW r \in Requests, NEW v \in UsageKey, v \in scopes[r],
         scopes' = [scopes EXCEPT ![r] = @ \ {v}], UNCHANGED est
  PROVE  /\ est[r] <= Cardinality(Held(v))
         /\ Cardinality(Held(v)') = Cardinality(Held(v)) - est[r]
         /\ \A u \in UsageKey : u # v => Held(u)' = Held(u)
<1> USE BudgetStoreAssumptions
<1>1. scopes \in [Requests -> SUBSET UsageKey] /\ est \in [Requests -> 0..MaxEst]
  BY DEF Bookkeeping, TypeOK
<1>2. Tokens(r) \subseteq Held(v)
  BY <1>1 DEF Tokens, Held
<1>3. Held(v)' = Held(v) \ Tokens(r)
  <2>1. ASSUME NEW x \in Requests \X (1..MaxEst)
        PROVE  x \in Held(v)' <=> x \in Held(v) /\ x \notin Tokens(r)
    BY <1>1 DEF Held, Tokens
  <2> QED BY <2>1 DEF Held
<1>4. /\ IsFiniteSet(Held(v)) /\ Cardinality(Held(v)) \in Nat
      /\ IsFiniteSet(Tokens(r)) /\ Cardinality(Tokens(r)) = est[r]
  BY HeldFinite, TokensCount DEF Bookkeeping
<1>5. Held(v) \cap Tokens(r) = Tokens(r)
  BY <1>2
<1>6. Cardinality(Held(v) \ Tokens(r)) = Cardinality(Held(v)) - est[r]
  <2>1. Cardinality(Held(v) \ Tokens(r))
          = Cardinality(Held(v)) - Cardinality(Held(v) \cap Tokens(r))
    BY <1>4, FS_Difference
  <2> QED BY <2>1, <1>4, <1>5
<1>7. est[r] <= Cardinality(Held(v))
  BY <1>2, <1>4, FS_Subset
<1>8. ASSUME NEW u \in UsageKey, u # v PROVE Held(u)' = Held(u)
  BY <1>1, <1>8 DEF Held
<1> QED BY <1>3, <1>6, <1>7, <1>8

\* The steps that move no counter keep Conservation.
LEMMA QuietStep ==
  ASSUME Bookkeeping, Conservation, UNCHANGED <<usage, committed, scopes>>,
         \A r \in Requests : scopes[r] # {} => est'[r] = est[r]
  PROVE  Conservation'
BY HeldUnchanged DEF Conservation

\* One step keeps Conservation.
LEMMA ConservationStep ==
  ASSUME Bookkeeping, Conservation, [Next]_vars
  PROVE  Conservation'
<1>1. CASE UNCHANGED vars
  BY <1>1, QuietStep DEF vars
<1>2. ASSUME NEW r \in Requests, NEW k \in ApiKeys, NEW m \in Models,
             NEW e \in 0..MaxEst, Begin(r, k, m, e)
      PROVE  Conservation'
  <2>1. scopes[r] = {} /\ est \in [Requests -> 0..MaxEst]
    BY <1>2 DEF Begin, Bookkeeping, Owns, TypeOK
  <2> QED BY <1>2, <2>1, QuietStep DEF Begin, store
<1>3. ASSUME NEW r \in Requests,
             \/ Load(r) \/ Deny(r) \/ CasRetry(r) \/ TakeRpm(r)
             \/ AcquireUnlimited(r) \/ AcquireSlot(r) \/ AcquireRefused(r)
             \/ Abort(r) \/ Release(r) \/ Finish(r)
             \/ \E a \in 0..MaxActual : Commit(r, a)
      PROVE  Conservation'
  BY <1>3, QuietStep
     DEF Load, Deny, CasRetry, TakeRpm, AcquireUnlimited, AcquireSlot,
         AcquireRefused, Abort, Release, Finish, Commit, store
<1>4. ASSUME NEW r \in Requests, CasOk(r) PROVE Conservation'
  <2>0. PICK v \in UsageKey : v = Target(r)
    BY <1>4, TargetType DEF CasOk, Bookkeeping, Owns, TypeOK
  <2>1. v \notin scopes[r]
    BY <1>4, <2>0, TargetType DEF CasOk, Bookkeeping, Owns, TypeOK
  <2>2. /\ usage' = [usage EXCEPT ![v] = usage[v] + est[r]]
        /\ scopes' = [scopes EXCEPT ![r] = @ \cup {v}]
        /\ UNCHANGED <<est, committed>>
    BY <1>4, <2>0 DEF CasOk
  <2>3. /\ Cardinality(Held(v)') = Cardinality(Held(v)) + est[r]
        /\ \A u \in UsageKey : u # v => Held(u)' = Held(u)
    BY <2>1, <2>2, HeldGrows
  <2>4. ASSUME NEW u \in UsageKey
        PROVE  usage'[u] = Seed[u] + committed'[u] + Cardinality(Held(u)')
    <3>1. /\ usage \in [UsageKey -> Nat] /\ committed[u] \in Nat /\ Seed[u] \in Nat
          /\ est[r] \in Nat /\ Cardinality(Held(u)) \in Nat
      <4>1. est[r] \in Nat
        BY BudgetStoreAssumptions DEF Bookkeeping, TypeOK
      <4>2. Cardinality(Held(u)) \in Nat
        BY HeldFinite DEF Bookkeeping
      <4> QED BY <4>1, <4>2, BudgetStoreAssumptions DEF Bookkeeping, TypeOK
    <3>2. usage[u] = Seed[u] + committed[u] + Cardinality(Held(u))
      BY DEF Conservation
    <3>3. CASE u = v
      BY <3>1, <3>2, <3>3, <2>1, <2>2, <2>3
    <3>4. CASE u # v
      BY <3>1, <3>2, <3>4, <2>1, <2>2, <2>3
    <3> QED BY <3>3, <3>4
  <2> QED BY <2>4 DEF Conservation
<1>5. ASSUME NEW r \in Requests, NEW v \in UsageKey,
             SettleScope(r, v) \/ UndoScope(r, v)
      PROVE  Conservation'
  <2>1. /\ v \in scopes[r]
        /\ scopes' = [scopes EXCEPT ![r] = @ \ {v}]
        /\ UNCHANGED est
    BY <1>5 DEF SettleScope, UndoScope, NextScope
  <2>2. /\ est[r] <= Cardinality(Held(v))
        /\ Cardinality(Held(v)') = Cardinality(Held(v)) - est[r]
        /\ \A u \in UsageKey : u # v => Held(u)' = Held(u)
    BY <2>1, HeldShrinks
  <2>3. /\ usage \in [UsageKey -> Nat] /\ committed \in [UsageKey -> Nat]
        /\ est[r] \in Nat /\ actual[r] \in Nat
    BY BudgetStoreAssumptions DEF Bookkeeping, TypeOK
  <2>4. ASSUME NEW u \in UsageKey
        PROVE  /\ usage[u] = Seed[u] + committed[u] + Cardinality(Held(u))
               /\ Seed[u] \in Nat /\ Cardinality(Held(u)) \in Nat
    BY BudgetStoreAssumptions, HeldFinite DEF Bookkeeping, Conservation
  <2>5. est[r] <= usage[v]
    BY <2>2, <2>3, <2>4
  <2>6. CASE SettleScope(r, v)
    <3>1. /\ usage' = [usage EXCEPT ![v] = usage[v] - est[r] + actual[r]]
          /\ committed' = [committed EXCEPT ![v] = committed[v] + actual[r]]
      BY <2>3, <2>5, <2>6, AdjustedType DEF SettleScope
    <3>2. ASSUME NEW u \in UsageKey
          PROVE  usage'[u] = Seed[u] + committed'[u] + Cardinality(Held(u)')
      <4>1. CASE u = v
        BY <4>1, <3>1, <2>2, <2>3, <2>4
      <4>2. CASE u # v
        BY <4>2, <3>1, <2>2, <2>3, <2>4
      <4> QED BY <4>1, <4>2
    <3> QED BY <3>2 DEF Conservation
  <2>7. CASE UndoScope(r, v)
    <3>1. /\ usage' = [usage EXCEPT ![v] = usage[v] - est[r]]
          /\ committed' = committed
      BY <2>3, <2>5, <2>7, SaturatingSubType DEF UndoScope
    <3>2. ASSUME NEW u \in UsageKey
          PROVE  usage'[u] = Seed[u] + committed'[u] + Cardinality(Held(u)')
      <4>1. CASE u = v
        BY <4>1, <3>1, <2>2, <2>3, <2>4
      <4>2. CASE u # v
        BY <4>2, <3>1, <2>2, <2>3, <2>4
      <4> QED BY <4>1, <4>2
    <3> QED BY <3>2 DEF Conservation
  <2> QED BY <1>5, <2>6, <2>7
<1>6. ASSUME NEW t \in Teams, NEW b \in Budgets \cup {NoBudget}, SyncTeam(t, b)
      PROVE  Conservation'
  BY <1>6, QuietStep DEF SyncTeam, task
<1>7. ASSUME NextDay PROVE Conservation'
  BY <1>7, QuietStep DEF NextDay, task
<1> QED
  BY <1>1, <1>2, <1>3, <1>4, <1>5, <1>6, <1>7 DEF Next, RequestStep

\* A counter is its seed, plus what was committed, plus what open reservations
\* hold, in every interleaving of reserve, commit and rollback: no tokens are
\* lost, leaked or forgiven by a saturating subtraction (budget/mod.rs:348-434).
THEOREM ConservationHolds == Spec => []Conservation
<1>1. Init => Conservation
  <2> SUFFICES ASSUME Init, NEW u \in UsageKey
               PROVE  usage[u] = Seed[u] + committed[u] + Cardinality(Held(u))
    BY DEF Conservation
  <2>1. Held(u) = {}
    BY DEF Init, Held
  <2>2. Seed[u] \in Nat /\ usage[u] = Seed[u] /\ committed[u] = 0
    BY BudgetStoreAssumptions DEF Init
  <2> QED BY <2>1, <2>2, FS_EmptySet
<1>2. Bookkeeping /\ Conservation /\ [Next]_vars => Conservation'
  BY ConservationStep
<1> QED BY <1>1, <1>2, BookkeepingHolds, PTL DEF Spec

(***************************************************************************)
(* AdmissionBound                                                          *)
(***************************************************************************)

\* The bound of one counter.
WithinCap(u) ==
  \/ usage[u] <= Seed[u] + over[u]
  \/ \E c \in CapsOf(u) : usage[u] <= c + over[u]

\* Caps are natural numbers.
LEMMA CapsType ==
  ASSUME NEW u \in UsageKey
  PROVE  CapsOf(u) \subseteq Nat
BY BudgetStoreAssumptions DEF CapsOf, IsBudget

\* The limit reserve_scope checks is a cap configured for its counter.
LEMMA LimitIsCap ==
  ASSUME Bookkeeping, NEW r \in Requests, pc[r] = "cas"
  PROVE  Limit(r) \in CapsOf(Target(r))
<1>1. /\ eff[r] \in Effective /\ eff[r].budget \in Budgets
      /\ model[r] \in Models
  BY DEF Bookkeeping, Owns, Effective, TypeOK
<1>2. CASE stage[r] = "total"
  <2>1. Target(r).model = NoModel
    BY <1>2 DEF Target, TotalKey
  <2> QED BY <1>1, <1>2, <2>1 DEF Limit, CapsOf
<1>3. CASE stage[r] = "model"
  <2>1. Target(r).model = model[r] /\ model[r] \in DOMAIN eff[r].budget.per_model
    BY <1>3 DEF Target, ModelKey, Bookkeeping, Owns
  <2> QED BY <1>1, <1>3, <2>1 DEF Limit, CapsOf
<1> QED BY <1>2, <1>3 DEF Bookkeeping, TypeOK

\* A counter that is not raised, and whose overrun is not lowered, stays within.
LEMMA WithinCapKept ==
  ASSUME NEW u \in UsageKey, TypeOK, TypeOK', WithinCap(u),
         usage'[u] - usage[u] <= over'[u] - over[u]
  PROVE  WithinCap(u)'
<1>1. /\ usage[u] \in Nat /\ usage'[u] \in Nat
      /\ over[u] \in Nat /\ over'[u] \in Nat /\ Seed[u] \in Nat
  BY BudgetStoreAssumptions DEF TypeOK
<1>2. CASE usage[u] <= Seed[u] + over[u]
  BY <1>1, <1>2 DEF WithinCap
<1>3. ASSUME NEW c \in CapsOf(u), usage[u] <= c + over[u] PROVE WithinCap(u)'
  <2>1. c \in Nat
    BY CapsType
  <2>2. usage'[u] <= c + over'[u]
    BY <1>1, <1>3, <2>1
  <2> QED BY <2>2 DEF WithinCap, CapsOf
<1> QED BY <1>2, <1>3 DEF WithinCap

\* One step keeps AdmissionBound.
LEMMA AdmissionBoundStep ==
  ASSUME Bookkeeping, Bookkeeping', AdmissionBound, [Next]_vars
  PROVE  AdmissionBound'
<1> SUFFICES ASSUME NEW u \in UsageKey PROVE WithinCap(u)'
  BY DEF AdmissionBound, WithinCap, CapsOf
<1>1. WithinCap(u)
  BY DEF AdmissionBound, WithinCap
<1>2. TypeOK /\ TypeOK' /\ usage[u] \in Nat /\ over[u] \in Nat
  BY DEF Bookkeeping, TypeOK
<1>3. CASE UNCHANGED <<usage, over>>
  BY <1>1, <1>2, <1>3, WithinCapKept
<1>4. ASSUME NEW r \in Requests, CasOk(r) PROVE WithinCap(u)'
  <2>1. /\ usage' = [usage EXCEPT ![Target(r)] = cur[r] + est[r]]
        /\ usage[Target(r)] = cur[r] /\ UNCHANGED over /\ pc[r] = "cas"
        /\ est[r] <= SaturatingSub(Limit(r), cur[r])
    BY <1>4 DEF CasOk, Fits
  <2>2. CASE u # Target(r)
    <3>1. usage'[u] = usage[u] /\ over'[u] = over[u]
      BY <1>2, <2>1, <2>2 DEF TypeOK
    <3> QED BY <3>1, <1>1, <1>2, WithinCapKept
  <2>3. CASE u = Target(r)
    <3>1. Limit(r) \in CapsOf(u) /\ Limit(r) \in Nat
      BY <2>1, <2>3, LimitIsCap, CapsType
    <3>2. usage'[u] = cur[r] + est[r] /\ cur[r] \in Nat /\ est[r] \in Nat
      BY <1>2, <2>1, <2>3, BudgetStoreAssumptions DEF TypeOK
    <3>3. CASE cur[r] + est[r] <= Limit(r)
      <4>1. usage'[u] <= Limit(r) + over'[u]
        BY <3>1, <3>2, <3>3, <1>2, <2>1
      <4> QED BY <3>1, <4>1 DEF WithinCap, CapsOf
    <3>4. CASE est[r] = 0
      <4>1. usage'[u] = usage[u]
        BY <3>2, <3>4, <2>1, <2>3
      <4> QED BY <4>1, <1>1, <1>2, <2>1, WithinCapKept
    <3>5. cur[r] + est[r] <= Limit(r) \/ est[r] = 0
      BY <2>1, <3>1, <3>2 DEF SaturatingSub
    <3> QED BY <3>3, <3>4, <3>5
  <2> QED BY <2>2, <2>3
<1>5. ASSUME NEW r \in Requests, NEW v \in UsageKey, SettleScope(r, v)
      PROVE  WithinCap(u)'
  <2>1. est[r] \in Nat /\ actual[r] \in Nat
    BY <1>2, BudgetStoreAssumptions DEF TypeOK
  <2>2. /\ usage' = [usage EXCEPT ![v] = Adjusted(usage[v], est[r], actual[r])]
        /\ over' = [over EXCEPT ![v] = over[v] + SaturatingSub(actual[r], est[r])]
    BY <1>5 DEF SettleScope
  <2>3. CASE u # v
    <3>1. usage'[u] = usage[u] /\ over'[u] = over[u]
      BY <1>2, <2>2, <2>3 DEF TypeOK
    <3> QED BY <3>1, <1>1, <1>2, WithinCapKept
  <2>4. CASE u = v
    <3>1. /\ Adjusted(usage[u], est[r], actual[r]) \in Nat
          /\ Adjusted(usage[u], est[r], actual[r]) <= usage[u] + SaturatingSub(actual[r], est[r])
          /\ SaturatingSub(actual[r], est[r]) \in Nat
      BY <1>2, <2>1, AdjustedType, SaturatingSubType
    <3>2. /\ usage'[u] = Adjusted(usage[u], est[r], actual[r])
          /\ over'[u] = over[u] + SaturatingSub(actual[r], est[r])
      BY <1>2, <2>2, <2>4 DEF TypeOK
    <3>3. usage'[u] - usage[u] <= over'[u] - over[u]
      BY <3>1, <3>2, <1>2
    <3> QED BY <3>3, <1>1, <1>2, WithinCapKept
  <2> QED BY <2>3, <2>4
<1>6. ASSUME NEW r \in Requests, NEW v \in UsageKey, UndoScope(r, v)
      PROVE  WithinCap(u)'
  <2>1. /\ usage' = [usage EXCEPT ![v] = SaturatingSub(usage[v], est[r])]
        /\ UNCHANGED over
    BY <1>6 DEF UndoScope
  <2>2. est[r] \in Nat /\ usage[v] \in Nat
    BY <1>2, BudgetStoreAssumptions DEF TypeOK
  <2>3. SaturatingSub(usage[v], est[r]) \in Nat /\ SaturatingSub(usage[v], est[r]) <= usage[v]
    BY <2>2, SaturatingSubType
  <2>4. usage'[u] - usage[u] <= over'[u] - over[u]
    BY <1>2, <2>1, <2>2, <2>3 DEF TypeOK
  <2> QED BY <2>4, <1>1, <1>2, WithinCapKept
<1> QED
  BY <1>3, <1>4, <1>5, <1>6
     DEF Next, RequestStep, Begin, Load, Deny, CasRetry, TakeRpm,
         AcquireUnlimited, AcquireSlot, AcquireRefused, Commit, Abort, Release,
         Finish, SyncTeam, NextDay, store, vars

\* Concurrent reservations never add up to more than a cap: a counter exceeds
\* every cap only by what it booted with and by what completions reported
\* beyond their estimates (budget/mod.rs:379-397).
THEOREM AdmissionBoundHolds == Spec => []AdmissionBound
<1>1. Init => AdmissionBound
  BY BudgetStoreAssumptions DEF Init, AdmissionBound
<1>2. Bookkeeping /\ Bookkeeping' /\ AdmissionBound /\ [Next]_vars => AdmissionBound'
  BY AdmissionBoundStep
<1> QED BY <1>1, <1>2, BookkeepingHolds, PTL DEF Spec

(***************************************************************************)
(* The concurrency gauge                                                   *)
(***************************************************************************)

\* The requests that hold a slot of a key are finitely many.
LEMMA HoldersFinite ==
  ASSUME NEW k
  PROVE  IsFiniteSet(Holders(k)) /\ Cardinality(Holders(k)) \in Nat
<1>1. Holders(k) \in SUBSET Requests
  BY DEF Holders
<1>2. IsFiniteSet(Holders(k))
  BY <1>1, BudgetStoreAssumptions, FS_Subset
<1> QED BY <1>2, FS_CardinalityType

\* No more holders than a limit the key was given, and the gauge counts them.
GaugeInv == GaugeExact /\ ConcurrencyBound

\* A step that leaves the gauge, the guards and the key of every holder alone.
LEMMA GaugeQuiet ==
  ASSUME GaugeInv, UNCHANGED <<inflight, guard>>,
         \A r \in Requests : guard[r] => key'[r] = key[r]
  PROVE  GaugeInv'
<1>1. \A k : Holders(k)' = Holders(k)
  BY DEF Holders
<1> QED BY <1>1 DEF GaugeInv, GaugeExact, ConcurrencyBound

\* One step keeps the gauge exact and its holders within the limit.
LEMMA GaugeStep ==
  ASSUME Bookkeeping, GaugeInv, [Next]_vars
  PROVE  GaugeInv'
<1>1. CASE UNCHANGED <<inflight, guard, key>>
  BY <1>1, GaugeQuiet
<1>2. ASSUME NEW r \in Requests, NEW k \in ApiKeys, NEW m \in Models,
             NEW e \in 0..MaxEst, Begin(r, k, m, e)
      PROVE  GaugeInv'
  <2>1. ~guard[r] /\ UNCHANGED <<inflight, guard>>
    BY <1>2 DEF Begin, store, Bookkeeping, Owns
  <2>2. \A q \in Requests : q # r => key'[q] = key[q]
    BY <1>2 DEF Begin, Bookkeeping, TypeOK
  <2> QED BY <2>1, <2>2, GaugeQuiet
<1>3. ASSUME NEW r \in Requests, AcquireSlot(r) PROVE GaugeInv'
  <2>1. PICK id \in KeyIds : id = key[r].id
    BY BudgetStoreAssumptions DEF Bookkeeping, TypeOK, IsApiKey
  <2>2. /\ inflight' = [inflight EXCEPT ![id] = inflight[id] + 1]
        /\ inflight[id] < key[r].concurrency_limit
        /\ guard' = [guard EXCEPT ![r] = TRUE] /\ UNCHANGED key
        /\ ~guard[r]
    BY <1>3, <2>1 DEF AcquireSlot, Bookkeeping, Owns
  <2>3. /\ inflight \in [KeyIds -> Nat] /\ guard \in [Requests -> BOOLEAN]
        /\ key[r] \in ApiKeys /\ key[r].concurrency_limit \in Nat
    BY BudgetStoreAssumptions DEF Bookkeeping, TypeOK, IsApiKey
  <2>4. Holders(id)' = Holders(id) \cup {r} /\ r \notin Holders(id)
    BY <2>1, <2>2, <2>3 DEF Holders
  <2>5. Cardinality(Holders(id)') = Cardinality(Holders(id)) + 1
    BY <2>4, HoldersFinite, FS_AddElement
  <2>6. \A k \in KeyIds : k # id => Holders(k)' = Holders(k)
    BY <2>1, <2>2, <2>3 DEF Holders
  <2>7. inflight[id] = Cardinality(Holders(id))
    BY DEF GaugeInv, GaugeExact
  <2>8. GaugeExact'
    BY <2>2, <2>3, <2>5, <2>6, <2>7 DEF GaugeInv, GaugeExact
  <2>9. Cardinality(Holders(id)') <= key[r].concurrency_limit
    BY <2>2, <2>3, <2>5, <2>7, HoldersFinite
  <2>10. ConcurrencyBound'
    BY <2>1, <2>3, <2>6, <2>9 DEF GaugeInv, ConcurrencyBound
  <2> QED BY <2>8, <2>10 DEF GaugeInv
<1>4. ASSUME NEW r \in Requests, Release(r) PROVE GaugeInv'
  <2>1. PICK id \in KeyIds : id = key[r].id
    BY BudgetStoreAssumptions DEF Bookkeeping, TypeOK, IsApiKey
  <2>2. /\ inflight' = [inflight EXCEPT ![id] = SaturatingSub(inflight[id], 1)]
        /\ guard' = [guard EXCEPT ![r] = FALSE] /\ UNCHANGED key
        /\ guard[r]
    BY <1>4, <2>1 DEF Release
  <2>3. inflight \in [KeyIds -> Nat] /\ guard \in [Requests -> BOOLEAN]
    BY DEF Bookkeeping, TypeOK
  <2>4. Holders(id)' = Holders(id) \ {r} /\ r \in Holders(id)
    BY <2>1, <2>2, <2>3 DEF Holders
  <2>5. Cardinality(Holders(id)') = Cardinality(Holders(id)) - 1
    BY <2>4, HoldersFinite, FS_RemoveElement
  <2>6. \A k \in KeyIds : k # id => Holders(k)' = Holders(k)
    BY <2>1, <2>2, <2>3 DEF Holders
  <2>7. inflight[id] = Cardinality(Holders(id))
    BY DEF GaugeInv, GaugeExact
  <2>8. Cardinality(Holders(id)) \in Nat /\ Cardinality(Holders(id)) # 0
    BY <2>4, HoldersFinite, FS_EmptySet
  <2>9. SaturatingSub(inflight[id], 1) = Cardinality(Holders(id)')
    BY <2>3, <2>5, <2>7, <2>8 DEF SaturatingSub
  <2>10. GaugeExact'
    BY <2>2, <2>3, <2>6, <2>9 DEF GaugeInv, GaugeExact
  <2>11. \E x \in ApiKeys : x.id = id /\ Cardinality(Holders(id)') <= x.concurrency_limit
    <3>1. PICK x \in ApiKeys : x.id = id /\ Cardinality(Holders(id)) <= x.concurrency_limit
      BY <2>4 DEF GaugeInv, ConcurrencyBound
    <3>2. x.concurrency_limit \in Nat
      BY BudgetStoreAssumptions DEF IsApiKey
    <3> QED BY <3>1, <3>2, <2>5, <2>8
  <2>12. ConcurrencyBound'
    BY <2>6, <2>11 DEF GaugeInv, ConcurrencyBound
  <2> QED BY <2>10, <2>12 DEF GaugeInv
<1> QED
  BY <1>1, <1>2, <1>3, <1>4
     DEF Next, RequestStep, Load, Deny, CasRetry, CasOk, TakeRpm,
         AcquireUnlimited, AcquireRefused, Commit, Abort, SettleScope,
         UndoScope, Finish, SyncTeam, NextDay, store, task, vars

\* The gauge and its bound hold initially and are kept by every step.
LEMMA GaugeInvHolds == Spec => []GaugeInv
<1>1. Init => GaugeInv
  <2> SUFFICES ASSUME Init PROVE GaugeInv
    OBVIOUS
  <2>1. \A k : Holders(k) = {}
    BY DEF Init, Holders
  <2>2. \A k \in KeyIds : inflight[k] = 0
    BY DEF Init
  <2> QED BY <2>1, <2>2, FS_EmptySet DEF GaugeInv, GaugeExact, ConcurrencyBound
<1>2. Bookkeeping /\ GaugeInv /\ [Next]_vars => GaugeInv'
  BY GaugeStep
<1> QED BY <1>1, <1>2, BookkeepingHolds, PTL DEF Spec

\* The gauge of a key counts exactly the guards alive: no slot is leaked or
\* released twice (budget/mod.rs:74-80 and 253-286).
THEOREM GaugeExactHolds == Spec => []GaugeExact
BY GaugeInvHolds, PTL DEF GaugeInv

\* No key ever has more requests in flight than a limit it was given
\* (budget/mod.rs:253-286).
THEOREM ConcurrencyBoundHolds == Spec => []ConcurrencyBound
BY GaugeInvHolds, PTL DEF GaugeInv
=============================================================================
