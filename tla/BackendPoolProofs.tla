------------------------- MODULE BackendPoolProofs -------------------------
(***************************************************************************)
(* The safety properties of BackendPool, for any number of requests and    *)
(* backends and every limit.                                               *)
(*                                                                         *)
(* The counter of an entry is exact only because of what the tasks own at  *)
(* each point (Owned), because nobody leases a backend twice (Fresh) and   *)
(* because an entry stays while somebody holds a guard of it (Guarded).    *)
(* None of these holds without the others, so they are proved together.    *)
(* The slots are fewer than the counter can count, so that it wraps around *)
(* only in an entry whose counter has been torn.                           *)
(***************************************************************************)
EXTENDS BackendPool, FiniteSetTheorems, TLAPS

(***************************************************************************)
(* The inductive invariant                                                 *)
(***************************************************************************)

GuardLabels ==
  {"until", "swap", "arm", "probe", "room", "inc", "undo", "rearm",
   "ok_until", "ok_probe", "fail_load", "trip", "fail_until", "extend",
   "fail_probe", "reset"}
NoteLabels ==
  {"note", "noted", "ok_until", "ok_probe", "fail_load", "trip",
   "fail_until", "extend", "fail_probe", "reset"}
TryLabels ==
  {"until", "swap", "arm", "probe", "room", "take", "inc", "undo", "rearm"}

Single(S) == \A x, y \in S : x = y

\* Whatever the task has leased is excluded, and what it looks at is not.
Fresh(a) ==
  /\ leases[a] \subseteq excluded[a]
  /\ \A c \in cands[a] : c.backend \notin excluded[a]
  /\ pc[a] \in TryLabels => at[a] \notin excluded[a]
  /\ pc[a] \in {"take", "inc"} => cands[a] = {}

\* The leases a task owns, as a function of where it is.
Owned(a) ==
  /\ pc[a] = "idle" => leases[a] = {}
  /\ pc[a] = "leased" => at[a] \in leases[a] /\ Single(leases[a] \ {at[a]})
  /\ pc[a] # "leased" => Single(leases[a])
  /\ a # HealthLoop /\ pc[a] \in NoteLabels => after[a] # "idle"
  /\ a = HealthLoop => /\ leases[a] = {} /\ after[a] = "idle"
                       /\ pc[a] \in {"idle"} \cup NoteLabels

\* The entry a task holds a guard of is there.
Guarded(a) == pc[a] \in GuardLabels => present[at[a]]

Tasks == \A a \in Actors : Fresh(a) /\ Owned(a) /\ Guarded(a)

IInv == TypeOK /\ Tasks /\ InflightExact /\ MaxRespected

(***************************************************************************)
(* Steps that leave the slots alone                                        *)
(***************************************************************************)

\* Nobody takes or returns a slot, and no entry is created.
Quiet ==
  /\ UNCHANGED <<leases, torn>>
  /\ \A b \in Backends : present'[b] => present[b] /\ inflight'[b] = inflight[b]
  /\ \A a \in Actors : \/ pc[a] # "undo" /\ pc'[a] # "undo"
                       \/ pc[a] = "undo" /\ pc'[a] = "undo" /\ at'[a] = at[a]

\* Such a step keeps the counters exact.
LEMMA QuietStep ==
  ASSUME IInv, TypeOK', Tasks', Quiet
  PROVE  IInv'
<1>1. ASSUME NEW b \in Backends
      PROVE  Leasing(b)' = Leasing(b) /\ Returning(b)' = Returning(b)
  BY DEF Quiet, Leasing, Returning
<1>2. InflightExact' /\ MaxRespected'
  BY <1>1 DEF Quiet, IInv, InflightExact, MaxRespected, MaxInflight, Min2
<1> QED BY <1>2 DEF IInv

\* The steps of choose_candidate.
LEMMA SelectStep ==
  ASSUME IInv, NEW a \in Requests, NEW b \in Backends,
         \/ Start(a) \/ Look(a, b) \/ CheckUntil(a)
         \/ SwapHalfOpen(a) \/ ArmProbe(a) \/ CheckProbe(a)
         \/ CheckRoom(a) \/ SecondPass(a) \/ CounterFails(a)
         \/ Pick(a) \/ NoCandidate(a)
  PROVE  IInv'
<1> USE BackendPoolAssumptions DEF Goto, state, world, scan, syncs
<1>1. a \in Actors /\ a # HealthLoop
  BY DEF Actors
<1>2. CASE Start(a)
  <2>1. TypeOK'
    BY <1>1, <1>2 DEF Start, Rescan, Choose, Members, Backends, IInv, TypeOK, Labels
  <2>2. ASSUME NEW q \in Actors PROVE (Fresh(q) /\ Owned(q) /\ Guarded(q))'
    BY <1>1, <1>2, <2>2 DEF Start, Rescan, Choose, IInv, TypeOK,
       Tasks, Fresh, Owned, Guarded, TryLabels, NoteLabels, GuardLabels, Single
  <2>3. Quiet
    BY <1>1, <1>2 DEF Start, Rescan, Choose, IInv, TypeOK, Quiet
  <2> QED BY <2>1, <2>2, <2>3, QuietStep DEF Tasks
<1>3. CASE Look(a, b)
  <2>1. TypeOK'
    BY <1>1, <1>3 DEF Look, Circuits, IInv, TypeOK, Labels
  <2>2. ASSUME NEW q \in Actors PROVE (Fresh(q) /\ Owned(q) /\ Guarded(q))'
    BY <1>1, <1>3, <2>2 DEF Look, Circuits, IInv, TypeOK,
       Tasks, Fresh, Owned, Guarded, TryLabels, NoteLabels, GuardLabels, Single
  <2>3. Quiet
    BY <1>1, <1>3 DEF Look, Circuits, IInv, TypeOK, Quiet
  <2> QED BY <2>1, <2>2, <2>3, QuietStep DEF Tasks
<1>4. CASE CheckUntil(a)
  <2>1. TypeOK'
    BY <1>1, <1>4 DEF CheckUntil, IInv, TypeOK, Labels
  <2>2. ASSUME NEW q \in Actors PROVE (Fresh(q) /\ Owned(q) /\ Guarded(q))'
    BY <1>1, <1>4, <2>2 DEF CheckUntil, IInv, TypeOK,
       Tasks, Fresh, Owned, Guarded, TryLabels, NoteLabels, GuardLabels, Single
  <2>3. Quiet
    BY <1>1, <1>4 DEF CheckUntil, IInv, TypeOK, Quiet
  <2> QED BY <2>1, <2>2, <2>3, QuietStep DEF Tasks
<1>5. CASE SwapHalfOpen(a)
  <2>1. TypeOK'
    <3>1. circuit' \in [Backends -> Circuits]
      <4>1. circuit \in [Backends -> Circuits]
        BY DEF IInv, TypeOK
      <4>2. circuit' = circuit \/ circuit' = [circuit EXCEPT ![at[a]] = "half"]
        BY <1>5 DEF SwapHalfOpen
      <4> QED BY <4>1, <4>2 DEF Circuits
    <3>2. pc' \in [Actors -> Labels]
      <4>1. pc \in [Actors -> Labels]
        BY DEF IInv, TypeOK
      <4>2. \E l \in {"arm", "scan"} : pc' = [pc EXCEPT ![a] = l]
        BY <1>5 DEF SwapHalfOpen
      <4> QED BY <4>1, <4>2 DEF Labels
    <3> QED BY <1>5, <3>1, <3>2 DEF SwapHalfOpen, IInv, TypeOK
  <2>2. ASSUME NEW q \in Actors PROVE (Fresh(q) /\ Owned(q) /\ Guarded(q))'
    <3>1. CASE circuit[at[a]] = "open"
      BY <1>1, <1>5, <2>2, <3>1 DEF SwapHalfOpen, IInv, TypeOK,
       Tasks, Fresh, Owned, Guarded, TryLabels, NoteLabels, GuardLabels, Single
    <3>2. CASE circuit[at[a]] # "open"
      BY <1>1, <1>5, <2>2, <3>2 DEF SwapHalfOpen, IInv, TypeOK,
       Tasks, Fresh, Owned, Guarded, TryLabels, NoteLabels, GuardLabels, Single
    <3> QED BY <3>1, <3>2
  <2>3. Quiet
    <3>1. CASE circuit[at[a]] = "open"
      BY <1>1, <1>5, <3>1 DEF SwapHalfOpen, IInv, TypeOK, Quiet
    <3>2. CASE circuit[at[a]] # "open"
      BY <1>1, <1>5, <3>2 DEF SwapHalfOpen, IInv, TypeOK, Quiet
    <3> QED BY <3>1, <3>2
  <2> QED BY <2>1, <2>2, <2>3, QuietStep DEF Tasks
<1>6. CASE ArmProbe(a)
  <2>1. TypeOK'
    BY <1>1, <1>6 DEF ArmProbe, IInv, TypeOK, Labels
  <2>2. ASSUME NEW q \in Actors PROVE (Fresh(q) /\ Owned(q) /\ Guarded(q))'
    BY <1>1, <1>6, <2>2 DEF ArmProbe, IInv, TypeOK,
       Tasks, Fresh, Owned, Guarded, TryLabels, NoteLabels, GuardLabels, Single
  <2>3. Quiet
    BY <1>1, <1>6 DEF ArmProbe, IInv, TypeOK, Quiet
  <2> QED BY <2>1, <2>2, <2>3, QuietStep DEF Tasks
<1>7. CASE CheckProbe(a)
  <2>1. TypeOK'
    BY <1>1, <1>7 DEF CheckProbe, IInv, TypeOK, Labels
  <2>2. ASSUME NEW q \in Actors PROVE (Fresh(q) /\ Owned(q) /\ Guarded(q))'
    BY <1>1, <1>7, <2>2 DEF CheckProbe, IInv, TypeOK,
       Tasks, Fresh, Owned, Guarded, TryLabels, NoteLabels, GuardLabels, Single
  <2>3. Quiet
    BY <1>1, <1>7 DEF CheckProbe, IInv, TypeOK, Quiet
  <2> QED BY <2>1, <2>2, <2>3, QuietStep DEF Tasks
<1>8. CASE CheckRoom(a)
  <2>1. TypeOK'
    BY <1>1, <1>8 DEF CheckRoom, IInv, TypeOK, Labels
  <2>2. ASSUME NEW q \in Actors PROVE (Fresh(q) /\ Owned(q) /\ Guarded(q))'
    BY <1>1, <1>8, <2>2 DEF CheckRoom, IInv, TypeOK,
       Tasks, Fresh, Owned, Guarded, TryLabels, NoteLabels, GuardLabels, Single
  <2>3. Quiet
    BY <1>1, <1>8 DEF CheckRoom, IInv, TypeOK, Quiet
  <2> QED BY <2>1, <2>2, <2>3, QuietStep DEF Tasks
<1>9. CASE SecondPass(a)
  <2>1. TypeOK'
    BY <1>1, <1>9 DEF SecondPass, Found, Members, Backends, IInv, TypeOK, Labels
  <2>2. ASSUME NEW q \in Actors PROVE (Fresh(q) /\ Owned(q) /\ Guarded(q))'
    BY <1>1, <1>9, <2>2 DEF SecondPass, Scanned, IInv, TypeOK,
       Tasks, Fresh, Owned, Guarded, TryLabels, NoteLabels, GuardLabels, Single
  <2>3. Quiet
    BY <1>1, <1>9 DEF SecondPass, Scanned, IInv, TypeOK, Quiet
  <2> QED BY <2>1, <2>2, <2>3, QuietStep DEF Tasks
<1>10. CASE CounterFails(a)
  <2>1. TypeOK'
    BY <1>1, <1>10 DEF CounterFails, IInv, TypeOK, Labels
  <2>2. ASSUME NEW q \in Actors PROVE (Fresh(q) /\ Owned(q) /\ Guarded(q))'
    BY <1>1, <1>10, <2>2 DEF CounterFails, Scanned, IInv, TypeOK,
       Tasks, Fresh, Owned, Guarded, TryLabels, NoteLabels, GuardLabels, Single
  <2>3. Quiet
    BY <1>1, <1>10 DEF CounterFails, Scanned, IInv, TypeOK, Quiet
  <2> QED BY <2>1, <2>2, <2>3, QuietStep DEF Tasks
<1>11. CASE Pick(a)
  <2>1. TypeOK'
    BY <1>1, <1>11 DEF Pick, IInv, TypeOK, Labels
  <2>2. ASSUME NEW q \in Actors PROVE (Fresh(q) /\ Owned(q) /\ Guarded(q))'
    BY <1>1, <1>11, <2>2 DEF Pick, IInv, TypeOK,
       Tasks, Fresh, Owned, Guarded, TryLabels, NoteLabels, GuardLabels, Single
  <2>3. Quiet
    BY <1>1, <1>11 DEF Pick, IInv, TypeOK, Quiet
  <2> QED BY <2>1, <2>2, <2>3, QuietStep DEF Tasks
<1>12. CASE NoCandidate(a)
  <2> DEFINE next == group[a] = "primary" /\ Fallback \ excluded[a] # {}
  <2>1. /\ \/ next /\ Choose(a, "fallback") /\ UNCHANGED <<half, excluded>>
           \/ ~next /\ leases[a] # {} /\ Goto(a, "serving") /\ UNCHANGED <<half, scan>>
           \/ ~next /\ leases[a] = {} /\ End(a)
        /\ UNCHANGED <<state, world, at, leases, ok, hit, seen, after>>
    BY <1>12 DEF NoCandidate
  <2>2. TypeOK'
    <3>1. CASE next /\ Choose(a, "fallback") /\ UNCHANGED <<half, excluded>>
      BY <1>1, <2>1, <3>1 DEF Choose, Members, Backends, IInv, TypeOK, Labels
    <3>2. CASE Goto(a, "serving") /\ UNCHANGED <<half, scan>>
      BY <1>1, <2>1, <3>2 DEF IInv, TypeOK, Labels
    <3>3. CASE End(a)
      BY <1>1, <2>1, <3>3 DEF End, IInv, TypeOK, Labels
    <3> QED BY <2>1, <3>1, <3>2, <3>3
  <2>3. ASSUME NEW q \in Actors PROVE (Fresh(q) /\ Owned(q) /\ Guarded(q))'
    BY <1>1, <1>12, <2>3 DEF NoCandidate, Choose, Scanned, End, IInv, TypeOK,
       Tasks, Fresh, Owned, Guarded, TryLabels, NoteLabels, GuardLabels, Single
  <2>4. Quiet
    BY <1>1, <1>12 DEF NoCandidate, Choose, Scanned, End, IInv, TypeOK, Quiet
  <2> QED BY <2>2, <2>3, <2>4, QuietStep DEF Tasks
<1> QED BY <1>2, <1>3, <1>4, <1>5, <1>6, <1>7, <1>8, <1>9, <1>10, <1>11, <1>12

(***************************************************************************)
(* Steps that take or return a slot                                        *)
(***************************************************************************)

\* The tasks are finitely many, so the slots can be counted.
LEMMA SlotsFinite ==
  ASSUME NEW b
  PROVE  /\ IsFiniteSet(Leasing(b)) /\ Cardinality(Leasing(b)) \in Nat
         /\ IsFiniteSet(Returning(b)) /\ Cardinality(Returning(b)) \in Nat
<1>1. IsFiniteSet(Actors)
  BY BackendPoolAssumptions, FS_AddElement DEF Actors
<1>2. Leasing(b) \subseteq Actors /\ Returning(b) \subseteq Actors
  BY DEF Leasing, Returning
<1> QED BY <1>1, <1>2, FS_Subset, FS_CardinalityType

\* There are fewer slots than the counter can count.
LEMMA FewSlots ==
  ASSUME NEW S \in SUBSET Actors, NEW T \in SUBSET Actors
  PROVE  Cardinality(S) + Cardinality(T) < CounterSize
<1>1. IsFiniteSet(Actors)
  BY BackendPoolAssumptions, FS_AddElement DEF Actors
<1>2. /\ Cardinality(S) <= Cardinality(Actors) /\ Cardinality(S) \in Nat
      /\ Cardinality(T) <= Cardinality(Actors) /\ Cardinality(T) \in Nat
      /\ Cardinality(Actors) \in Nat
  BY <1>1, FS_Subset, FS_CardinalityType
<1> QED BY <1>2, BackendPoolAssumptions

\* The limit is a number.
LEMMA MaxInflightType ==
  ASSUME NEW b \in Backends
  PROVE  MaxInflight(b) \in Nat
BY BackendPoolAssumptions DEF MaxInflight, Min2

\* A step that takes or returns slots of one backend only: it is enough to
\* count those.
LEMMA OneBackend ==
  ASSUME IInv, NEW c \in Backends,
         \A d \in Backends \ {c} :
           /\ Leasing(d)' = Leasing(d) /\ Returning(d)' = Returning(d)
           /\ inflight'[d] = inflight[d] /\ (present'[d] => present[d])
           /\ d \in torn => d \in torn',
         present'[c] /\ c \notin torn' =>
           inflight'[c] = Cardinality(Leasing(c)') + Cardinality(Returning(c)'),
         c \notin torn' /\ MaxInflight(c) > 0 =>
           Cardinality(Leasing(c)') <= MaxInflight(c)
  PROVE  InflightExact' /\ MaxRespected'
<1>1. ASSUME NEW d \in Backends, present'[d], d \notin torn'
      PROVE  inflight'[d] = Cardinality(Leasing(d)') + Cardinality(Returning(d)')
  BY <1>1 DEF IInv, InflightExact
<1>2. ASSUME NEW d \in Backends, d \notin torn', MaxInflight(d) > 0
      PROVE  Cardinality(Leasing(d)') <= MaxInflight(d)
  BY <1>2 DEF IInv, MaxRespected
<1> QED BY <1>1, <1>2 DEF InflightExact, MaxRespected, MaxInflight, Min2

\* The steps of acquire_primary.
LEMMA TakeStep ==
  ASSUME IInv, NEW a \in Requests,
         \/ TakeFails(a) \/ Take(a) \/ Rearm(a)
         \/ Inc(a) \/ Undo(a)
  PROVE  IInv'
<1> USE BackendPoolAssumptions DEF Goto, state, world, scan, syncs
<1>1. a \in Actors /\ a # HealthLoop
  BY DEF Actors
<1>2. CASE TakeFails(a)
  <2>1. TypeOK'
    BY <1>1, <1>2 DEF TakeFails, Exclude, Choose, Members, Backends, IInv, TypeOK, Labels
  <2>2. ASSUME NEW q \in Actors PROVE (Fresh(q) /\ Owned(q) /\ Guarded(q))'
    BY <1>1, <1>2, <2>2 DEF TakeFails, Exclude, Choose, IInv, TypeOK,
       Tasks, Fresh, Owned, Guarded, TryLabels, NoteLabels, GuardLabels, Single
  <2>3. Quiet
    BY <1>1, <1>2 DEF TakeFails, Exclude, Choose, IInv, TypeOK, Quiet
  <2> QED BY <2>1, <2>2, <2>3, QuietStep DEF Tasks
<1>3. CASE Take(a)
  <2>1. TypeOK'
    BY <1>1, <1>3 DEF Take, IInv, TypeOK, Labels
  <2>2. ASSUME NEW q \in Actors PROVE (Fresh(q) /\ Owned(q) /\ Guarded(q))'
    BY <1>1, <1>3, <2>2 DEF Take, IInv, TypeOK,
       Tasks, Fresh, Owned, Guarded, TryLabels, NoteLabels, GuardLabels, Single
  <2>3. Quiet
    BY <1>1, <1>3 DEF Take, IInv, TypeOK, Quiet
  <2> QED BY <2>1, <2>2, <2>3, QuietStep DEF Tasks
<1>4. CASE Rearm(a)
  <2>1. TypeOK'
    BY <1>1, <1>4 DEF Rearm, Exclude, Choose, Members, Backends, IInv, TypeOK, Labels
  <2>2. ASSUME NEW q \in Actors PROVE (Fresh(q) /\ Owned(q) /\ Guarded(q))'
    BY <1>1, <1>4, <2>2 DEF Rearm, Exclude, Choose, IInv, TypeOK,
       Tasks, Fresh, Owned, Guarded, TryLabels, NoteLabels, GuardLabels, Single
  <2>3. Quiet
    BY <1>1, <1>4 DEF Rearm, Exclude, Choose, IInv, TypeOK, Quiet
  <2> QED BY <2>1, <2>2, <2>3, QuietStep DEF Tasks
<1>5. CASE Inc(a)
  <2> PICK c \in Backends : c = at[a]
    BY <1>1 DEF IInv, TypeOK
  <2>1. /\ present[c] /\ c \notin leases[a]
        /\ pc[a] = "inc" /\ inflight' = [inflight EXCEPT ![c] = WrappingInc(@)]
        /\ UNCHANGED <<present, torn>>
        /\ inflight \in [Backends -> 0..(CounterSize - 1)]
    BY <1>1, <1>5 DEF Inc, IInv, TypeOK, Tasks, Fresh, Guarded, GuardLabels, TryLabels
  <2>2. TypeOK'
    <3>1. inflight' \in [Backends -> 0..(CounterSize - 1)]
      <4>1. WrappingInc(inflight[c]) \in 0..(CounterSize - 1)
        BY <2>1 DEF WrappingInc
      <4> QED BY <2>1, <4>1
    <3>2. pc' \in [Actors -> Labels]
      <4>1. pc \in [Actors -> Labels]
        BY DEF IInv, TypeOK
      <4>2. \E l \in {"leased", "undo"} : pc' = [pc EXCEPT ![a] = l]
        BY <1>5 DEF Inc
      <4> QED BY <4>1, <4>2 DEF Labels
    <3>3. leases' \in [Actors -> SUBSET Backends]
      BY <1>1, <1>5 DEF Inc, IInv, TypeOK
    <3>4. excluded' \in [Actors -> SUBSET Backends]
      BY <1>1, <1>5 DEF Inc, IInv, TypeOK
    <3> QED BY <1>5, <3>1, <3>2, <3>3, <3>4 DEF Inc, IInv, TypeOK
  <2>3. ASSUME NEW q \in Actors PROVE (Fresh(q) /\ Owned(q) /\ Guarded(q))'
    BY <1>1, <1>5, <2>3 DEF Inc, IInv, TypeOK,
       Tasks, Fresh, Owned, Guarded, TryLabels, NoteLabels, GuardLabels, Single
  <2>4. inflight'[c] = WrappingInc(inflight[c])
    BY <2>1
  <2>5. c \notin torn =>
          inflight[c] = Cardinality(Leasing(c)) + Cardinality(Returning(c))
    BY <2>1 DEF IInv, InflightExact
  <2>6. CASE HasRoom(c)
    <3>1. ASSUME NEW d \in Backends
          PROVE  /\ Returning(d)' = Returning(d)
                 /\ d # c => Leasing(d)' = Leasing(d)
      <4>1. /\ pc' = [pc EXCEPT ![a] = "leased"] /\ at' = at
            /\ leases' = [leases EXCEPT ![a] = @ \cup {c}]
        BY <1>5, <2>6 DEF Inc
      <4>2. Returning(d)' = Returning(d)
        BY <1>1, <2>1, <4>1 DEF IInv, TypeOK, Returning
      <4>3. d # c => Leasing(d)' = Leasing(d)
        BY <1>1, <4>1 DEF IInv, TypeOK, Leasing
      <4> QED BY <4>2, <4>3
    <3>2. Leasing(c)' = Leasing(c) \cup {a} /\ a \notin Leasing(c)
      BY <1>1, <1>5, <2>1, <2>6 DEF Inc, IInv, TypeOK, Leasing
    <3>3. Cardinality(Leasing(c)') = Cardinality(Leasing(c)) + 1
      BY <3>2, SlotsFinite, FS_AddElement
    <3>4. ASSUME c \notin torn
          PROVE  inflight'[c] = Cardinality(Leasing(c)') + Cardinality(Returning(c)')
      <4>1. Leasing(c)' \subseteq Actors /\ Returning(c)' \subseteq Actors
        BY DEF Leasing, Returning
      <4>2. Cardinality(Leasing(c)') + Cardinality(Returning(c)') < CounterSize
        BY <4>1, FewSlots
      <4>3. inflight[c] + 1 = Cardinality(Leasing(c)') + Cardinality(Returning(c)')
        BY <2>5, <3>1, <3>3, <3>4, SlotsFinite
      <4> QED BY <2>4, <4>2, <4>3, BackendPoolAssumptions DEF WrappingInc
    <3>5. c \notin torn /\ MaxInflight(c) > 0 =>
            Cardinality(Leasing(c)') <= MaxInflight(c)
      BY <2>5, <2>6, <3>3, SlotsFinite, MaxInflightType DEF HasRoom
    <3>6. InflightExact' /\ MaxRespected'
      <4>1. ASSUME NEW d \in Backends \ {c}
            PROVE  /\ Leasing(d)' = Leasing(d) /\ Returning(d)' = Returning(d)
                   /\ inflight'[d] = inflight[d] /\ present'[d] = present[d]
        BY <2>1, <3>1
      <4> QED BY <2>1, <3>4, <3>5, <4>1, OneBackend
    <3> QED BY <2>2, <2>3, <3>6 DEF IInv, Tasks
  <2>7. CASE ~HasRoom(c)
    <3>1. ASSUME NEW d \in Backends
          PROVE  /\ Leasing(d)' = Leasing(d)
                 /\ d # c => Returning(d)' = Returning(d)
      BY <1>1, <1>5, <2>7 DEF Inc, IInv, TypeOK, Leasing, Returning
    <3>2. Returning(c)' = Returning(c) \cup {a} /\ a \notin Returning(c)
      BY <1>1, <1>5, <2>1, <2>7 DEF Inc, IInv, TypeOK, Returning
    <3>3. Cardinality(Returning(c)') = Cardinality(Returning(c)) + 1
      BY <3>2, SlotsFinite, FS_AddElement
    <3>4. ASSUME c \notin torn
          PROVE  inflight'[c] = Cardinality(Leasing(c)') + Cardinality(Returning(c)')
      <4>1. Leasing(c)' \subseteq Actors /\ Returning(c)' \subseteq Actors
        BY DEF Leasing, Returning
      <4>2. Cardinality(Leasing(c)') + Cardinality(Returning(c)') < CounterSize
        BY <4>1, FewSlots
      <4>3. inflight[c] + 1 = Cardinality(Leasing(c)') + Cardinality(Returning(c)')
        BY <2>5, <3>1, <3>3, <3>4, SlotsFinite
      <4> QED BY <2>4, <4>2, <4>3, BackendPoolAssumptions DEF WrappingInc
    <3>5. InflightExact' /\ MaxRespected'
      <4>1. ASSUME NEW d \in Backends \ {c}
            PROVE  /\ Leasing(d)' = Leasing(d) /\ Returning(d)' = Returning(d)
                   /\ inflight'[d] = inflight[d] /\ present'[d] = present[d]
        BY <2>1, <3>1
      <4>2. c \notin torn' /\ MaxInflight(c) > 0 =>
              Cardinality(Leasing(c)') <= MaxInflight(c)
        BY <2>1, <3>1 DEF IInv, MaxRespected
      <4> QED BY <2>1, <3>4, <4>1, <4>2, OneBackend
    <3> QED BY <2>2, <2>3, <3>5 DEF IInv, Tasks
  <2> QED BY <2>6, <2>7
<1>6. CASE Undo(a)
  <2> PICK c \in Backends : c = at[a]
    BY <1>1 DEF IInv, TypeOK
  <2>1. /\ present[c]
        /\ pc[a] = "undo" /\ inflight' = [inflight EXCEPT ![c] = WrappingDec(@)]
        /\ inflight \in [Backends -> 0..(CounterSize - 1)]
        /\ pc'[a] # "undo" /\ UNCHANGED <<at, leases, present, torn>>
        /\ \A q \in Actors : q # a => pc'[q] = pc[q]
    BY <1>1, <1>6 DEF Undo, Exclude, Choose, IInv, TypeOK, Tasks, Guarded, GuardLabels
  <2>2. Returning(c)' = Returning(c) \ {a} /\ a \in Returning(c)
    BY <1>1, <2>1 DEF Returning
  <2>3. /\ Cardinality(Returning(c)') = Cardinality(Returning(c)) - 1
        /\ Cardinality(Returning(c)') \in Nat
    BY <2>2, SlotsFinite, FS_RemoveElement, FS_CardinalityType
  <2>4. c \notin torn =>
          inflight[c] = Cardinality(Leasing(c)) + Cardinality(Returning(c))
    BY <2>1 DEF IInv, InflightExact
  <2>5. /\ inflight'[c] = WrappingDec(inflight[c])
        /\ WrappingDec(inflight[c]) \in 0..(CounterSize - 1)
    BY <2>1 DEF WrappingDec
  <2>6. TypeOK'
    <3>1. inflight' \in [Backends -> 0..(CounterSize - 1)]
      BY <2>1, <2>5
    <3>2. pc' \in [Actors -> Labels]
      <4>1. pc \in [Actors -> Labels]
        BY DEF IInv, TypeOK
      <4>2. \E l \in {"rearm", "scan"} : pc' = [pc EXCEPT ![a] = l]
        BY <1>6 DEF Undo, Exclude, Choose
      <4> QED BY <4>1, <4>2 DEF Labels
    <3>3. /\ excluded' \in [Actors -> SUBSET Backends]
          /\ group' \in [Actors -> {"primary", "fallback"}]
      <4>1. /\ excluded \in [Actors -> SUBSET Backends]
            /\ group \in [Actors -> {"primary", "fallback"}]
        BY DEF IInv, TypeOK
      <4>2. /\ excluded' = excluded \/ excluded' = [excluded EXCEPT ![a] = @ \cup {c}]
            /\ group' = group \/ group' = [group EXCEPT ![a] = group[a]]
        BY <1>6 DEF Undo, Exclude, Choose
      <4> QED BY <1>1, <4>1, <4>2
    <3>4. todo' \in [Actors -> SUBSET Backends]
      <4>1. todo \in [Actors -> SUBSET Backends]
        BY DEF IInv, TypeOK
      <4>2. todo' = todo \/ todo' = [todo EXCEPT ![a] = Members(group[a])]
        BY <1>6 DEF Undo, Exclude, Choose
      <4>3. Members(group[a]) \subseteq Backends
        BY DEF Members, Backends
      <4> QED BY <4>1, <4>2, <4>3
    <3>5. /\ cands' \in [Actors -> SUBSET [backend : Backends, half : BOOLEAN]]
          /\ first' \in [Actors -> SUBSET Backends]
          /\ late' \in [Actors -> SUBSET Backends]
      BY <1>1, <1>6 DEF Undo, Exclude, Choose, IInv, TypeOK
    <3> QED BY <1>6, <3>1, <3>2, <3>3, <3>4, <3>5 DEF Undo, IInv, TypeOK
  <2>7. ASSUME NEW q \in Actors PROVE (Fresh(q) /\ Owned(q) /\ Guarded(q))'
    BY <1>1, <1>6, <2>7 DEF Undo, Exclude, Choose, IInv, TypeOK,
       Tasks, Fresh, Owned, Guarded, TryLabels, NoteLabels, GuardLabels, Single
  <2>9. ASSUME NEW d \in Backends
        PROVE  /\ Leasing(d)' = Leasing(d)
               /\ d # c => Returning(d)' = Returning(d)
    BY <1>1, <2>1 DEF Leasing, Returning
  <2>10. ASSUME c \notin torn
         PROVE  inflight'[c] = Cardinality(Leasing(c)') + Cardinality(Returning(c)')
    <3>1. inflight[c] # 0 /\ inflight[c] \in Nat
      BY <2>1, <2>3, <2>4, <2>10, SlotsFinite
    <3>2. inflight'[c] = inflight[c] - 1
      BY <2>5, <3>1 DEF WrappingDec
    <3> QED BY <2>3, <2>4, <2>9, <2>10, <3>1, <3>2, SlotsFinite
  <2>11. InflightExact' /\ MaxRespected'
    <3>1. ASSUME NEW d \in Backends \ {c}
          PROVE  /\ Leasing(d)' = Leasing(d) /\ Returning(d)' = Returning(d)
                 /\ inflight'[d] = inflight[d] /\ present'[d] = present[d]
      BY <2>1, <2>9
    <3>2. c \notin torn' /\ MaxInflight(c) > 0 =>
            Cardinality(Leasing(c)') <= MaxInflight(c)
      BY <2>1, <2>9 DEF IInv, MaxRespected
    <3> QED BY <2>1, <2>10, <3>1, <3>2, OneBackend
  <2> QED BY <2>6, <2>7, <2>11 DEF IInv, Tasks
<1> QED BY <1>2, <1>3, <1>4, <1>5, <1>6

\* A lease is dropped: BackendLease::drop counts it down once.
LEMMA ReleaseStep ==
  ASSUME IInv, NEW a \in Actors, NEW b \in leases[a], Dec(b),
         leases' = [leases EXCEPT ![a] = @ \ {b}],
         UNCHANGED <<present, torn, at>>,
         \A q \in Actors : (pc[q] # "undo" /\ pc'[q] # "undo") \/ pc'[q] = pc[q]
  PROVE  /\ inflight' \in [Backends -> 0..(CounterSize - 1)]
         /\ InflightExact' /\ MaxRespected'
<1> USE BackendPoolAssumptions
<1>1. b \in Backends /\ TypeOK
  BY DEF IInv, TypeOK
<1>2. Leasing(b)' = Leasing(b) \ {a} /\ a \in Leasing(b)
  BY <1>1 DEF Leasing, TypeOK
<1>3. /\ Cardinality(Leasing(b)') = Cardinality(Leasing(b)) - 1
      /\ Cardinality(Leasing(b)') \in Nat
  BY <1>2, SlotsFinite, FS_RemoveElement, FS_CardinalityType
<1>4. ASSUME NEW d \in Backends
      PROVE  /\ Returning(d)' = Returning(d)
             /\ d # b => Leasing(d)' = Leasing(d)
  BY <1>1 DEF Leasing, Returning, TypeOK
<1>5. inflight' \in [Backends -> 0..(CounterSize - 1)]
  <2>1. inflight[b] \in 0..(CounterSize - 1)
    BY <1>1 DEF TypeOK
  <2>2. SaturatingSub(inflight[b], 1) \in 0..(CounterSize - 1)
    BY <2>1 DEF SaturatingSub
  <2> QED BY <1>1, <2>1, <2>2 DEF Dec, TypeOK
<1>6. present[b] /\ b \notin torn =>
        inflight'[b] = Cardinality(Leasing(b)') + Cardinality(Returning(b)')
  <2> HAVE present[b] /\ b \notin torn
  <2>1. inflight[b] = Cardinality(Leasing(b)) + Cardinality(Returning(b))
    BY <1>1 DEF IInv, InflightExact
  <2>2. inflight[b] >= 1 /\ inflight[b] \in Nat
    BY <1>3, <2>1, SlotsFinite
  <2>3. inflight'[b] = inflight[b] - 1
    BY <1>1, <2>2 DEF Dec, SaturatingSub, TypeOK
  <2> QED BY <1>1, <1>3, <1>4, <2>1, <2>3, SlotsFinite
<1>7. b \notin torn /\ MaxInflight(b) > 0 =>
        Cardinality(Leasing(b)') <= MaxInflight(b)
  BY <1>1, <1>3, SlotsFinite, MaxInflightType DEF IInv, MaxRespected
<1>8. \A d \in Backends \ {b} : inflight'[d] = inflight[d]
  BY <1>1 DEF Dec, TypeOK
<1>9. InflightExact' /\ MaxRespected'
  BY <1>1, <1>4, <1>6, <1>7, <1>8, OneBackend
<1> QED BY <1>5, <1>9

\* What proxy_forward does with a lease.
LEMMA ForwardStep ==
  ASSUME IInv, NEW a \in Requests, NEW b \in Backends,
         \/ Abandon(a) \/ Respond(a) \/ EndServing(a)
         \/ DropOldLease(a, b) \/ Drop(a)
  PROVE  IInv'
<1> USE BackendPoolAssumptions DEF Goto, state, world, scan, syncs
<1>1. a \in Actors /\ a # HealthLoop
  BY DEF Actors
<1>2. CASE Abandon(a)
  <2>1. TypeOK'
    BY <1>1, <1>2 DEF Abandon, IInv, TypeOK, Labels
  <2>2. ASSUME NEW q \in Actors PROVE (Fresh(q) /\ Owned(q) /\ Guarded(q))'
    BY <1>1, <1>2, <2>2 DEF Abandon, IInv, TypeOK,
       Tasks, Fresh, Owned, Guarded, TryLabels, NoteLabels, GuardLabels, Single
  <2>3. Quiet
    BY <1>1, <1>2 DEF Abandon, IInv, TypeOK, Quiet
  <2> QED BY <2>1, <2>2, <2>3, QuietStep DEF Tasks
<1>3. CASE Respond(a)
  <2>1. TypeOK'
    BY <1>1, <1>3 DEF Respond, IInv, TypeOK, Labels
  <2>2. ASSUME NEW q \in Actors PROVE (Fresh(q) /\ Owned(q) /\ Guarded(q))'
    BY <1>1, <1>3, <2>2 DEF Respond, IInv, TypeOK,
       Tasks, Fresh, Owned, Guarded, TryLabels, NoteLabels, GuardLabels, Single
  <2>3. Quiet
    BY <1>1, <1>3 DEF Respond, IInv, TypeOK, Quiet
  <2> QED BY <2>1, <2>2, <2>3, QuietStep DEF Tasks
<1>4. CASE EndServing(a)
  <2>1. TypeOK'
    BY <1>1, <1>4 DEF EndServing, IInv, TypeOK, Labels
  <2>2. ASSUME NEW q \in Actors PROVE (Fresh(q) /\ Owned(q) /\ Guarded(q))'
    BY <1>1, <1>4, <2>2 DEF EndServing, IInv, TypeOK,
       Tasks, Fresh, Owned, Guarded, TryLabels, NoteLabels, GuardLabels, Single
  <2>3. Quiet
    BY <1>1, <1>4 DEF EndServing, IInv, TypeOK, Quiet
  <2> QED BY <2>1, <2>2, <2>3, QuietStep DEF Tasks
<1>5. CASE DropOldLease(a, b)
  <2>1. b \in leases[a] /\ Dec(b) /\ leases' = [leases EXCEPT ![a] = @ \ {b}]
    BY <1>5 DEF DropOldLease
  <2>2. inflight' \in [Backends -> 0..(CounterSize - 1)] /\ InflightExact' /\ MaxRespected'
    BY <1>1, <1>5, <2>1, ReleaseStep DEF DropOldLease
  <2>3. TypeOK'
    BY <1>1, <1>5, <2>2 DEF DropOldLease, IInv, TypeOK, Labels
  <2>4. ASSUME NEW q \in Actors PROVE (Fresh(q) /\ Owned(q) /\ Guarded(q))'
    BY <1>1, <1>5, <2>4 DEF DropOldLease, IInv, TypeOK,
       Tasks, Fresh, Owned, Guarded, TryLabels, NoteLabels, GuardLabels, Single
  <2> QED BY <2>2, <2>3, <2>4 DEF IInv, Tasks
<1>6. CASE Drop(a)
  <2>1. /\ UNCHANGED <<present, torn, at>>
        /\ leases' = [leases EXCEPT ![a] = {}]
        /\ \A q \in Actors : (pc[q] # "undo" /\ pc'[q] # "undo") \/ pc'[q] = pc[q]
    BY <1>1, <1>6 DEF Drop, Rescan, Choose, End, IInv, TypeOK
  <2>2. ASSUME inflight' \in [Backends -> 0..(CounterSize - 1)] PROVE TypeOK'
    <3>1. CASE pc[a] = "dropretry"
      <4>1. Choose(a, "primary") /\ UNCHANGED <<half, excluded>>
        BY <1>6, <3>1 DEF Drop, Rescan
      <4>2. UNCHANGED <<present, enabled, circuit, probe, until, failures, world,
                        at, ok, hit, seen, after>>
        BY <1>6 DEF Drop
      <4> QED BY <1>1, <2>1, <2>2, <4>1, <4>2 DEF Choose, Members, Backends, IInv,
                 TypeOK, Labels
    <3>2. CASE pc[a] # "dropretry"
      <4>1. End(a)
        BY <1>6, <3>2 DEF Drop
      <4>2. UNCHANGED <<present, enabled, circuit, probe, until, failures, world,
                        at, ok, hit, seen, after>>
        BY <1>6 DEF Drop
      <4> QED BY <1>1, <2>1, <2>2, <4>1, <4>2 DEF End, IInv, TypeOK, Labels
    <3> QED BY <3>1, <3>2
  <2>3. ASSUME NEW q \in Actors PROVE (Fresh(q) /\ Owned(q) /\ Guarded(q))'
    BY <1>1, <1>6, <2>3 DEF Drop, Rescan, Choose, End, IInv, TypeOK,
       Tasks, Fresh, Owned, Guarded, TryLabels, NoteLabels, GuardLabels, Single
  <2>4. CASE leases[a] = {} /\ UNCHANGED inflight
    <3>1. leases' = leases
      BY <1>1, <2>1, <2>4 DEF IInv, TypeOK
    <3>2. Quiet
      BY <1>1, <1>6, <2>1, <2>4, <3>1 DEF Drop, IInv, TypeOK, Quiet
    <3>3. TypeOK'
      BY <2>2, <2>4 DEF IInv, TypeOK
    <3> QED BY <2>3, <3>2, <3>3, QuietStep DEF Tasks
  <2>5. CASE \E c \in leases[a] : Dec(c)
    <3>1. PICK c \in leases[a] : Dec(c)
      BY <2>5
    <3>2. leases[a] = {c}
      BY <1>1, <1>6, <3>1 DEF Drop, IInv, Tasks, Owned, Single
    <3>3. leases' = [leases EXCEPT ![a] = @ \ {c}]
      BY <1>1, <2>1, <3>2 DEF IInv, TypeOK
    <3>4. inflight' \in [Backends -> 0..(CounterSize - 1)] /\ InflightExact' /\ MaxRespected'
      BY <1>1, <2>1, <3>1, <3>3, ReleaseStep
    <3> QED BY <2>2, <2>3, <3>4 DEF IInv, Tasks
  <2> QED BY <1>6, <2>4, <2>5 DEF Drop
<1> QED BY <1>2, <1>3, <1>4, <1>5, <1>6

\* The steps of note_result and the return from it, for requests and the
\* health loop.
LEMMA NoteResultStep ==
  ASSUME IInv, NEW a \in Actors,
         \/ Note(a) \/ NoteOkUntil(a) \/ NoteOkProbe(a)
         \/ NoteFailLoad(a) \/ NoteTrip(a) \/ NoteUntil(a)
         \/ NoteFailProbe(a) \/ NoteReset(a) \/ AfterNote(a)
  PROVE  IInv'
<1> USE BackendPoolAssumptions DEF Goto, state, world, scan, syncs
<1>1. a \in Actors
  BY DEF Actors
<1>2. CASE Note(a)
  <2>1. TypeOK'
    <3>1. circuit' \in [Backends -> Circuits]
      <4>1. circuit \in [Backends -> Circuits]
        BY DEF IInv, TypeOK
      <4>2. circuit' = circuit \/ circuit' = [circuit EXCEPT ![at[a]] = "closed"]
        BY <1>2 DEF Note
      <4> QED BY <4>1, <4>2 DEF Circuits
    <3>2. failures' \in [Backends -> 0..FailureThreshold]
      <4>1. failures \in [Backends -> 0..3] /\ at[a] \in Backends
        BY <1>1 DEF IInv, TypeOK, FailureThreshold
      <4>2. \/ failures' = failures
            \/ failures' = [failures EXCEPT ![at[a]] = Min2(failures[at[a]] + 1, 3)]
        BY <1>2 DEF Note, FailureThreshold
      <4>3. Min2(failures[at[a]] + 1, 3) \in 0..3
        BY <4>1 DEF Min2
      <4> QED BY <4>1, <4>2, <4>3 DEF FailureThreshold
    <3>3. hit' \in [Actors -> BOOLEAN]
      <4>1. hit \in [Actors -> BOOLEAN]
        BY DEF IInv, TypeOK
      <4>2. \/ hit' = hit
            \/ hit' = [hit EXCEPT ![a] = failures[at[a]] + 1 >= FailureThreshold]
        BY <1>2 DEF Note
      <4>3. (failures[at[a]] + 1 >= FailureThreshold) \in BOOLEAN
        OBVIOUS
      <4> QED BY <4>1, <4>2, <4>3, Zenon
    <3>4. pc' \in [Actors -> Labels]
      <4>1. pc \in [Actors -> Labels]
        BY DEF IInv, TypeOK
      <4>2. \E l \in {"noted", "ok_until", "fail_load"} : pc' = [pc EXCEPT ![a] = l]
        BY <1>2 DEF Note
      <4> QED BY <4>1, <4>2 DEF Labels
    <3> QED BY <1>2, <3>1, <3>2, <3>3, <3>4 DEF Note, IInv, TypeOK
  <2>2. ASSUME NEW q \in Actors PROVE (Fresh(q) /\ Owned(q) /\ Guarded(q))'
    <3>1. CASE ~present[at[a]]
      BY <1>1, <1>2, <2>2, <3>1 DEF Note, IInv, TypeOK,
       Tasks, Fresh, Owned, Guarded, TryLabels, NoteLabels, GuardLabels, Single
    <3>2. CASE present[at[a]] /\ ok[a]
      BY <1>1, <1>2, <2>2, <3>2 DEF Note, IInv, TypeOK,
       Tasks, Fresh, Owned, Guarded, TryLabels, NoteLabels, GuardLabels, Single
    <3>3. CASE present[at[a]] /\ ~ok[a]
      BY <1>1, <1>2, <2>2, <3>3 DEF Note, IInv, TypeOK,
       Tasks, Fresh, Owned, Guarded, TryLabels, NoteLabels, GuardLabels, Single
    <3> QED BY <1>2, <3>1, <3>2, <3>3 DEF Note
  <2>3. Quiet
    <3>1. CASE ~present[at[a]]
      BY <1>1, <1>2, <3>1 DEF Note, IInv, TypeOK, Quiet
    <3>2. CASE present[at[a]] /\ ok[a]
      BY <1>1, <1>2, <3>2 DEF Note, IInv, TypeOK, Quiet
    <3>3. CASE present[at[a]] /\ ~ok[a]
      BY <1>1, <1>2, <3>3 DEF Note, IInv, TypeOK, Quiet
    <3> QED BY <1>2, <3>1, <3>2, <3>3 DEF Note
  <2> QED BY <2>1, <2>2, <2>3, QuietStep DEF Tasks
<1>3. CASE NoteOkUntil(a)
  <2>1. TypeOK'
    BY <1>1, <1>3 DEF NoteOkUntil, IInv, TypeOK, Labels
  <2>2. ASSUME NEW q \in Actors PROVE (Fresh(q) /\ Owned(q) /\ Guarded(q))'
    BY <1>1, <1>3, <2>2 DEF NoteOkUntil, IInv, TypeOK,
       Tasks, Fresh, Owned, Guarded, TryLabels, NoteLabels, GuardLabels, Single
  <2>3. Quiet
    BY <1>1, <1>3 DEF NoteOkUntil, IInv, TypeOK, Quiet
  <2> QED BY <2>1, <2>2, <2>3, QuietStep DEF Tasks
<1>4. CASE NoteOkProbe(a)
  <2>1. TypeOK'
    BY <1>1, <1>4 DEF NoteOkProbe, IInv, TypeOK, Labels
  <2>2. ASSUME NEW q \in Actors PROVE (Fresh(q) /\ Owned(q) /\ Guarded(q))'
    BY <1>1, <1>4, <2>2 DEF NoteOkProbe, IInv, TypeOK,
       Tasks, Fresh, Owned, Guarded, TryLabels, NoteLabels, GuardLabels, Single
  <2>3. Quiet
    BY <1>1, <1>4 DEF NoteOkProbe, IInv, TypeOK, Quiet
  <2> QED BY <2>1, <2>2, <2>3, QuietStep DEF Tasks
<1>5. CASE NoteFailLoad(a)
  <2>1. TypeOK'
    BY <1>1, <1>5 DEF NoteFailLoad, Circuits, IInv, TypeOK, Labels
  <2>2. ASSUME NEW q \in Actors PROVE (Fresh(q) /\ Owned(q) /\ Guarded(q))'
    BY <1>1, <1>5, <2>2 DEF NoteFailLoad, Circuits, IInv, TypeOK,
       Tasks, Fresh, Owned, Guarded, TryLabels, NoteLabels, GuardLabels, Single
  <2>3. Quiet
    BY <1>1, <1>5 DEF NoteFailLoad, Circuits, IInv, TypeOK, Quiet
  <2> QED BY <2>1, <2>2, <2>3, QuietStep DEF Tasks
<1>6. CASE NoteTrip(a)
  <2>1. TypeOK'
    <3>1. circuit' \in [Backends -> Circuits]
      <4>1. circuit \in [Backends -> Circuits]
        BY DEF IInv, TypeOK
      <4>2. circuit' = circuit \/ circuit' = [circuit EXCEPT ![at[a]] = "open"]
        BY <1>6 DEF NoteTrip
      <4> QED BY <4>1, <4>2 DEF Circuits
    <3>2. pc' \in [Actors -> Labels]
      <4>1. pc \in [Actors -> Labels]
        BY DEF IInv, TypeOK
      <4>2. \E l \in {"fail_until", "noted"} : pc' = [pc EXCEPT ![a] = l]
        BY <1>6 DEF NoteTrip
      <4> QED BY <4>1, <4>2 DEF Labels
    <3> QED BY <1>6, <3>1, <3>2 DEF NoteTrip, IInv, TypeOK
  <2>2. ASSUME NEW q \in Actors PROVE (Fresh(q) /\ Owned(q) /\ Guarded(q))'
    <3>1. CASE circuit[at[a]] = seen[a]
      BY <1>1, <1>6, <2>2, <3>1 DEF NoteTrip, IInv, TypeOK,
       Tasks, Fresh, Owned, Guarded, TryLabels, NoteLabels, GuardLabels, Single
    <3>2. CASE circuit[at[a]] # seen[a]
      BY <1>1, <1>6, <2>2, <3>2 DEF NoteTrip, IInv, TypeOK,
       Tasks, Fresh, Owned, Guarded, TryLabels, NoteLabels, GuardLabels, Single
    <3> QED BY <3>1, <3>2
  <2>3. Quiet
    <3>1. CASE circuit[at[a]] = seen[a]
      BY <1>1, <1>6, <3>1 DEF NoteTrip, IInv, TypeOK, Quiet
    <3>2. CASE circuit[at[a]] # seen[a]
      BY <1>1, <1>6, <3>2 DEF NoteTrip, IInv, TypeOK, Quiet
    <3> QED BY <3>1, <3>2
  <2> QED BY <2>1, <2>2, <2>3, QuietStep DEF Tasks
<1>7. CASE NoteUntil(a)
  <2>1. TypeOK'
    BY <1>1, <1>7 DEF NoteUntil, IInv, TypeOK, Labels
  <2>2. ASSUME NEW q \in Actors PROVE (Fresh(q) /\ Owned(q) /\ Guarded(q))'
    BY <1>1, <1>7, <2>2 DEF NoteUntil, IInv, TypeOK,
       Tasks, Fresh, Owned, Guarded, TryLabels, NoteLabels, GuardLabels, Single
  <2>3. Quiet
    BY <1>1, <1>7 DEF NoteUntil, IInv, TypeOK, Quiet
  <2> QED BY <2>1, <2>2, <2>3, QuietStep DEF Tasks
<1>8. CASE NoteFailProbe(a)
  <2>1. TypeOK'
    BY <1>1, <1>8 DEF NoteFailProbe, IInv, TypeOK, Labels
  <2>2. ASSUME NEW q \in Actors PROVE (Fresh(q) /\ Owned(q) /\ Guarded(q))'
    BY <1>1, <1>8, <2>2 DEF NoteFailProbe, IInv, TypeOK,
       Tasks, Fresh, Owned, Guarded, TryLabels, NoteLabels, GuardLabels, Single
  <2>3. Quiet
    BY <1>1, <1>8 DEF NoteFailProbe, IInv, TypeOK, Quiet
  <2> QED BY <2>1, <2>2, <2>3, QuietStep DEF Tasks
<1>9. CASE NoteReset(a)
  <2>1. TypeOK'
    BY <1>1, <1>9 DEF NoteReset, FailureThreshold, IInv, TypeOK, Labels
  <2>2. ASSUME NEW q \in Actors PROVE (Fresh(q) /\ Owned(q) /\ Guarded(q))'
    BY <1>1, <1>9, <2>2 DEF NoteReset, IInv, TypeOK,
       Tasks, Fresh, Owned, Guarded, TryLabels, NoteLabels, GuardLabels, Single
  <2>3. Quiet
    BY <1>1, <1>9 DEF NoteReset, IInv, TypeOK, Quiet
  <2> QED BY <2>1, <2>2, <2>3, QuietStep DEF Tasks
<1>10. CASE AfterNote(a)
  <2>1. TypeOK'
    <3>1. pc' \in [Actors -> Labels]
      <4>1. /\ pc \in [Actors -> Labels]
            /\ after[a] \in {"idle", "serving", "retry", "drop", "dropretry"}
        BY <1>1 DEF IInv, TypeOK
      <4>2. pc' = [pc EXCEPT ![a] = IF after[a] = "retry" THEN "scan" ELSE after[a]]
        BY <1>10 DEF AfterNote, Rescan, Choose
      <4>3. (IF after[a] = "retry" THEN "scan" ELSE after[a]) \in Labels
        BY <4>1 DEF Labels
      <4> QED BY <4>1, <4>2, <4>3
    <3>2. group' \in [Actors -> {"primary", "fallback"}]
      BY <1>1, <1>10 DEF AfterNote, Rescan, Choose, IInv, TypeOK
    <3>3. todo' \in [Actors -> SUBSET Backends]
      BY <1>1, <1>10 DEF AfterNote, Rescan, Choose, Members, Backends, IInv, TypeOK
    <3>4. cands' \in [Actors -> SUBSET [backend : Backends, half : BOOLEAN]]
      BY <1>1, <1>10 DEF AfterNote, Rescan, Choose, IInv, TypeOK
    <3>5. first' \in [Actors -> SUBSET Backends]
      BY <1>1, <1>10 DEF AfterNote, Rescan, Choose, IInv, TypeOK
    <3>6. late' \in [Actors -> SUBSET Backends]
      BY <1>1, <1>10 DEF AfterNote, Rescan, Choose, IInv, TypeOK
    <3>7. /\ half' \in [Actors -> BOOLEAN] /\ ok' \in [Actors -> BOOLEAN]
          /\ hit' \in [Actors -> BOOLEAN]
          /\ after' \in [Actors -> {"idle", "serving", "retry", "drop", "dropretry"}]
      BY <1>1, <1>10 DEF AfterNote, IInv, TypeOK
    <3>8. seen' \in [Actors -> Circuits]
      BY <1>1, <1>10 DEF AfterNote, Circuits, IInv, TypeOK
    <3> QED BY <1>10, <3>1, <3>2, <3>3, <3>4, <3>5, <3>6, <3>7, <3>8
            DEF AfterNote, IInv, TypeOK
  <2>2. /\ pc[a] = "noted" /\ pc'[a] = (IF after[a] = "retry" THEN "scan" ELSE after[a])
        /\ after[a] \in {"idle", "serving", "retry", "drop", "dropretry"}
        /\ cands' = cands \/ cands' = [cands EXCEPT ![a] = {}]
        /\ UNCHANGED <<present, at, excluded, leases>> /\ after'[a] = "idle"
        /\ \A q \in Actors : q # a => pc'[q] = pc[q] /\ after'[q] = after[q]
    BY <1>1, <1>10 DEF AfterNote, Rescan, Choose, IInv, TypeOK
  <2>3. ASSUME NEW q \in Actors PROVE (Fresh(q) /\ Owned(q) /\ Guarded(q))'
    <3>1. /\ Fresh(q) /\ Owned(q) /\ Guarded(q)
          /\ cands \in [Actors -> SUBSET [backend : Backends, half : BOOLEAN]]
      BY DEF IInv, Tasks, TypeOK
    <3>2. CASE q = a
      BY <2>2, <3>1, <3>2 DEF Fresh, Owned, Guarded, TryLabels, NoteLabels,
         GuardLabels, Single
    <3>3. CASE q # a
      BY <2>2, <3>1, <3>3 DEF Fresh, Owned, Guarded
    <3> QED BY <3>2, <3>3
  <2>4. Quiet
    BY <1>1, <1>10, <2>2 DEF AfterNote, IInv, TypeOK, Quiet
  <2> QED BY <2>1, <2>3, <2>4, QuietStep DEF Tasks
<1> QED BY <1>2, <1>3, <1>4, <1>5, <1>6, <1>7, <1>8, <1>9, <1>10

\* The fields of a new entry have their types.
LEMMA NewEntryType ==
  ASSUME TypeOK, NEW b \in Backends, NewEntry(b)
  PROVE  /\ inflight' \in [Backends -> 0..(CounterSize - 1)]
         /\ circuit' \in [Backends -> Circuits]
         /\ probe' \in [Backends -> BOOLEAN]
         /\ until' \in [Backends -> {"none", "future", "past"}]
         /\ failures' \in [Backends -> 0..FailureThreshold]
<1>1. 0 \in 0..(CounterSize - 1)
  <2>1. {} \subseteq Actors
    OBVIOUS
  <2>2. Cardinality({}) + Cardinality({}) < CounterSize
    BY <2>1, FewSlots
  <2> QED BY <2>2, FS_EmptySet, BackendPoolAssumptions
<1>2. inflight' \in [Backends -> 0..(CounterSize - 1)]
  BY <1>1 DEF NewEntry, TypeOK
<1>3. circuit' \in [Backends -> Circuits]
  BY DEF NewEntry, TypeOK, Circuits
<1>4. probe' \in [Backends -> BOOLEAN]
  BY DEF NewEntry, TypeOK
<1>5. until' \in [Backends -> {"none", "future", "past"}]
  BY DEF NewEntry, TypeOK
<1>6. failures' \in [Backends -> 0..FailureThreshold]
  BY DEF NewEntry, TypeOK, FailureThreshold
<1> QED BY <1>2, <1>3, <1>4, <1>5, <1>6

\* The health loop looks at a backend, rows are edited, time passes.
LEMMA WorldStep ==
  ASSUME IInv, NEW b \in Backends,
         HealthCheck(b) \/ AdminEdit(b) \/ Expire(b) \/ Flip(b)
  PROVE  IInv'
<1> USE BackendPoolAssumptions DEF Goto, state, world, scan, syncs
<1>1. HealthLoop \in Actors
  BY DEF Actors
<1>2. CASE HealthCheck(b)
  <2>1. TypeOK'
    BY <1>1, <1>2 DEF HealthCheck, IInv, TypeOK, Labels
  <2>2. ASSUME NEW q \in Actors PROVE (Fresh(q) /\ Owned(q) /\ Guarded(q))'
    BY <1>1, <1>2, <2>2 DEF HealthCheck, IInv, TypeOK,
       Tasks, Fresh, Owned, Guarded, TryLabels, NoteLabels, GuardLabels, Single
  <2>3. Quiet
    BY <1>1, <1>2 DEF HealthCheck, IInv, TypeOK, Quiet
  <2> QED BY <2>1, <2>2, <2>3, QuietStep DEF Tasks
<1>3. CASE AdminEdit(b)
  <2>1. TypeOK'
    BY <1>1, <1>3 DEF AdminEdit, IInv, TypeOK, Labels
  <2>2. ASSUME NEW q \in Actors PROVE (Fresh(q) /\ Owned(q) /\ Guarded(q))'
    BY <1>1, <1>3, <2>2 DEF AdminEdit, IInv, TypeOK,
       Tasks, Fresh, Owned, Guarded, TryLabels, NoteLabels, GuardLabels, Single
  <2>3. Quiet
    BY <1>1, <1>3 DEF AdminEdit, IInv, TypeOK, Quiet
  <2> QED BY <2>1, <2>2, <2>3, QuietStep DEF Tasks
<1>4. CASE Expire(b)
  <2>1. TypeOK'
    BY <1>1, <1>4 DEF Expire, IInv, TypeOK, Labels
  <2>2. ASSUME NEW q \in Actors PROVE (Fresh(q) /\ Owned(q) /\ Guarded(q))'
    BY <1>1, <1>4, <2>2 DEF Expire, IInv, TypeOK,
       Tasks, Fresh, Owned, Guarded, TryLabels, NoteLabels, GuardLabels, Single
  <2>3. Quiet
    BY <1>1, <1>4 DEF Expire, IInv, TypeOK, Quiet
  <2> QED BY <2>1, <2>2, <2>3, QuietStep DEF Tasks
<1>5. CASE Flip(b)
  <2>1. TypeOK'
    BY <1>1, <1>5 DEF Flip, IInv, TypeOK, Labels
  <2>2. ASSUME NEW q \in Actors PROVE (Fresh(q) /\ Owned(q) /\ Guarded(q))'
    BY <1>1, <1>5, <2>2 DEF Flip, IInv, TypeOK,
       Tasks, Fresh, Owned, Guarded, TryLabels, NoteLabels, GuardLabels, Single
  <2>3. Quiet
    BY <1>1, <1>5 DEF Flip, IInv, TypeOK, Quiet
  <2> QED BY <2>1, <2>2, <2>3, QuietStep DEF Tasks
<1> QED BY <1>2, <1>3, <1>4, <1>5

\* sync_backends, called with any snapshot, beside any number of other calls.
LEMMA SyncCallStep ==
  ASSUME IInv, NEW s \in Syncers, SyncStep(s)
  PROVE  IInv'
<1> USE BackendPoolAssumptions DEF state, world, scan, syncs
<1>1. CASE SyncLoad(s)
  <2>1. TypeOK'
    BY <1>1 DEF SyncLoad, IInv, TypeOK
  <2>2. ASSUME NEW q \in Actors PROVE (Fresh(q) /\ Owned(q) /\ Guarded(q))'
    BY <1>1, <2>2 DEF SyncLoad, IInv, Tasks, Fresh, Owned, Guarded
  <2>3. Quiet
    BY <1>1 DEF SyncLoad, Quiet
  <2> QED BY <2>1, <2>2, <2>3, QuietStep DEF Tasks
<1>2. CASE SyncStart(s)
  <2>1. TypeOK'
    BY <1>2 DEF SyncStart, IInv, TypeOK
  <2>2. ASSUME NEW q \in Actors PROVE (Fresh(q) /\ Owned(q) /\ Guarded(q))'
    BY <1>2, <2>2 DEF SyncStart, IInv, Tasks, Fresh, Owned, Guarded
  <2>3. Quiet
    BY <1>2 DEF SyncStart, Quiet
  <2> QED BY <2>1, <2>2, <2>3, QuietStep DEF Tasks
<1>3. ASSUME NEW b \in Backends, SyncDisable(s, b) PROVE IInv'
  <2>1. TypeOK'
    BY <1>3 DEF SyncDisable, IInv, TypeOK
  <2>2. ASSUME NEW q \in Actors PROVE (Fresh(q) /\ Owned(q) /\ Guarded(q))'
    BY <1>3, <2>2 DEF SyncDisable, IInv, Tasks, Fresh, Owned, Guarded
  <2>3. Quiet
    BY <1>3 DEF SyncDisable, Quiet
  <2> QED BY <2>1, <2>2, <2>3, QuietStep DEF Tasks
<1>4. ASSUME NEW b \in Backends, SyncRemove(s, b) PROVE IInv'
  <2>1. NewEntry(b)
    BY <1>4 DEF SyncRemove
  <2>2. TypeOK'
    BY <1>4, <2>1, NewEntryType DEF SyncRemove, IInv, TypeOK
  <2>3. ASSUME NEW q \in Actors PROVE (Fresh(q) /\ Owned(q) /\ Guarded(q))'
    <3>1. Fresh(q) /\ Owned(q) /\ Guarded(q)
      BY DEF IInv, Tasks
    <3>2. Guarded(q)'
      BY <1>4, <2>3, <3>1 DEF SyncRemove, Guarding, Guarded, GuardLabels, IInv, TypeOK
    <3> QED BY <1>4, <3>1, <3>2 DEF SyncRemove, Fresh, Owned
  <2>4. Quiet
    BY <1>4, <2>1 DEF SyncRemove, NewEntry, IInv, TypeOK, Quiet
  <2> QED BY <2>2, <2>3, <2>4, QuietStep DEF Tasks
<1>5. ASSUME NEW b \in Backends, NEW e \in BOOLEAN, SyncUpsert(s, b, e) PROVE IInv'
  <2>1. /\ UNCHANGED <<pc, at, leases, excluded, cands, after>>
        /\ present' = present \/ present' = [present EXCEPT ![b] = TRUE]
    BY <1>5 DEF SyncUpsert
  <2>2. ASSUME NEW q \in Actors PROVE (Fresh(q) /\ Owned(q) /\ Guarded(q))'
    <3>1. Fresh(q) /\ Owned(q) /\ Guarded(q)
      BY DEF IInv, Tasks
    <3>2. Guarded(q)'
      BY <2>1, <3>1 DEF Guarded, IInv, TypeOK
    <3> QED BY <2>1, <3>1, <3>2 DEF Fresh, Owned
  <2>3. CASE present[b]
    <3>1. TypeOK'
      BY <1>5, <2>3 DEF SyncUpsert, IInv, TypeOK
    <3>2. Quiet
      BY <1>5, <2>3 DEF SyncUpsert, IInv, TypeOK, Quiet
    <3> QED BY <2>2, <3>1, <3>2, QuietStep DEF Tasks
  <2>4. CASE ~present[b]
    <3>1. /\ NewEntry(b) /\ present' = [present EXCEPT ![b] = TRUE]
          /\ torn' = IF Leasing(b) = {} THEN torn \ {b} ELSE torn \cup {b}
      BY <1>5, <2>4 DEF SyncUpsert
    <3>2. TypeOK'
      BY <1>5, <3>1, NewEntryType DEF SyncUpsert, IInv, TypeOK
    <3>3. \A q \in Actors : ~(pc[q] = "undo" /\ at[q] = b)
      BY <2>4 DEF IInv, Tasks, Guarded, GuardLabels
    <3>4. ASSUME b \notin torn'
          PROVE  Cardinality(Leasing(b)') = 0 /\ Cardinality(Returning(b)') = 0
      <4>1. Leasing(b)' = {} /\ Returning(b)' = {}
        BY <2>1, <3>1, <3>3, <3>4 DEF Leasing, Returning
      <4> QED BY <4>1, FS_EmptySet
    <3>5. ASSUME NEW d \in Backends \ {b}
          PROVE  /\ Leasing(d)' = Leasing(d) /\ Returning(d)' = Returning(d)
                 /\ inflight'[d] = inflight[d] /\ present'[d] = present[d]
                 /\ d \in torn => d \in torn'
      BY <2>1, <3>1 DEF Leasing, Returning, NewEntry, IInv, TypeOK
    <3>6. inflight'[b] = 0
      BY <3>1 DEF NewEntry, IInv, TypeOK
    <3>7. InflightExact' /\ MaxRespected'
      BY <3>4, <3>5, <3>6, OneBackend, MaxInflightType
    <3> QED BY <2>2, <3>2, <3>7 DEF IInv, Tasks
  <2> QED BY <2>3, <2>4
<1> QED BY <1>1, <1>2, <1>3, <1>4, <1>5 DEF SyncStep

(***************************************************************************)
(* The theorems                                                            *)
(***************************************************************************)

\* The invariant holds when the router starts.
LEMMA InitIInv ==
  ASSUME Init
  PROVE  IInv
<1> USE BackendPoolAssumptions
<1>1. SomeBackend \in Backends
  BY DEF SomeBackend, Backends
<1>2. TypeOK
  <2>1. 0 \in 0..(CounterSize - 1)
    <3>1. Cardinality({}) + Cardinality({}) < CounterSize
      BY FewSlots
    <3> QED BY <3>1, FS_EmptySet
  <2>2. inflight \in [Backends -> 0..(CounterSize - 1)]
    BY <2>1 DEF Init
  <2> QED BY <1>1, <2>2 DEF Init, TypeOK, Labels, Circuits, FailureThreshold
<1>3. Tasks
  BY DEF Init, Tasks, Fresh,
       Owned, Guarded, TryLabels, NoteLabels, GuardLabels, Single
<1>5. ASSUME NEW b \in Backends
      PROVE  Leasing(b) = {} /\ Returning(b) = {}
  BY DEF Init, Leasing, Returning
<1>6. ASSUME NEW b \in Backends
      PROVE  Cardinality(Leasing(b)) = 0 /\ Cardinality(Returning(b)) = 0
  BY <1>5, FS_EmptySet
<1>7. InflightExact /\ MaxRespected
  BY <1>6, MaxInflightType DEF Init, InflightExact, MaxRespected
<1> QED BY <1>2, <1>3, <1>7 DEF IInv

\* Every step preserves it.
LEMMA NextIInv ==
  ASSUME IInv, [Next]_vars
  PROVE  IInv'
<1>1. CASE UNCHANGED vars
  <2>1. TypeOK'
    BY <1>1 DEF vars, IInv, TypeOK
  <2>2. Tasks'
    BY <1>1 DEF vars, IInv, Tasks, Fresh, Owned, Guarded
  <2>3. Quiet
    BY <1>1 DEF vars, IInv, Quiet
  <2> QED BY <2>1, <2>2, <2>3, QuietStep
<1>2. ASSUME NEW a \in Requests, Start(a) \/ RequestStep(a) \/ EndServing(a)
      PROVE  IInv'
  <2>1. a \in Actors
    BY DEF Actors
  <2>2. PICK b \in Backends : TRUE
    BY BackendPoolAssumptions DEF Backends
  <2> QED BY <1>2, <2>1, <2>2, SelectStep, TakeStep, ForwardStep, NoteResultStep
             DEF RequestStep, NoteStep
<1>3. CASE HealthStep
  <2>1. HealthLoop \in Actors /\ Local \subseteq Backends
    BY BackendPoolAssumptions DEF Actors
  <2> QED BY <1>3, <2>1, WorldStep, NoteResultStep DEF HealthStep, NoteStep
<1>4. ASSUME NEW b \in Backends,
             AdminEdit(b) \/ Expire(b) \/ Flip(b)
      PROVE  IInv'
  BY <1>4, WorldStep
<1>5. ASSUME NEW s \in setting.syncers, SyncStep(s) PROVE IInv'
  <2>1. s \in Syncers
    BY DEF IInv, TypeOK, AllSettings
  <2> QED BY <1>5, <2>1, SyncCallStep
<1> QED BY <1>1, <1>2, <1>3, <1>4, <1>5 DEF Next

\* It holds in every state.
LEMMA Invariance == Spec => []IInv
BY InitIInv, NextIInv, PTL DEF Spec

\* The fields of the pool, of the tasks and of the syncs keep their types.
THEOREM TypeCorrect == Spec => []TypeOK
<1>1. IInv => TypeOK
  BY DEF IInv
<1> QED BY <1>1, Invariance, PTL

\* The inflight counter of an entry is the number of leases alive plus the
\* increments about to be undone (route/mod.rs:381-389 and 766-774), for any
\* number of parallel syncs with snapshots of any age (294-313), except where a
\* sync has created the entry beside leases of the one it replaces.
THEOREM InflightExactHolds == Spec => []InflightExact
<1>1. IInv => InflightExact
  BY DEF IInv
<1> QED BY <1>1, Invariance, PTL

\* However many requests race for the slots of a backend, no more than its
\* limit ever hold a lease (route/mod.rs:372), with the same exception.
THEOREM MaxRespectedHolds == Spec => []MaxRespected
<1>1. IInv => MaxRespected
  BY DEF IInv
<1> QED BY <1>1, Invariance, PTL

\* A request never leases a backend it has tried, and never owns more than two
\* leases (proxy/mod.rs:1417 and 1615-1627).
THEOREM RetriesElsewhereHolds == Spec => []RetriesElsewhere
<1>1. ASSUME IInv PROVE RetriesElsewhere
  <2>1. ASSUME NEW a \in Requests, NEW b \in Backends, pc[a] = "inc", at[a] = b
        PROVE  b \notin excluded[a] \cup leases[a]
    BY <1>1, <2>1 DEF IInv, Tasks, Fresh, TryLabels, Actors
  <2>2. ASSUME NEW a \in Requests PROVE Cardinality(leases[a]) <= 2
    <3>1. \E x, y \in Backends : leases[a] \subseteq {x, y}
      <4>1. a \in Actors /\ at[a] \in Backends /\ leases[a] \subseteq Backends
        BY <1>1 DEF IInv, TypeOK, Actors
      <4>2. CASE pc[a] = "leased"
        BY <1>1, <4>1, <4>2 DEF IInv, Tasks, Owned, Single
      <4>3. CASE pc[a] # "leased"
        BY <1>1, <4>1, <4>3 DEF IInv, Tasks, Owned, Single
      <4> QED BY <4>2, <4>3
    <3>2. PICK x, y \in Backends : leases[a] \subseteq {x, y}
      BY <3>1
    <3>3. IsFiniteSet({x}) /\ Cardinality({x}) = 1
      BY FS_Singleton
    <3>4. {x, y} = {x} \cup {y}
      OBVIOUS
    <3>5. IsFiniteSet({x, y}) /\ Cardinality({x, y}) <= 2
      BY <3>3, <3>4, FS_AddElement
    <3> QED BY <3>2, <3>5, FS_Subset, FS_CardinalityType
  <2> QED BY <2>1, <2>2 DEF RetriesElsewhere
<1> QED BY <1>1, Invariance, PTL
=============================================================================
