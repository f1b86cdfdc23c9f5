------------------------- MODULE BridgeStreamProofs -------------------------
(***************************************************************************)
(* What the translator of the bridge does to a stream of any length: the   *)
(* events it sends are always the beginning of a stream that an Anthropic  *)
(* client accepts, complete once it has finished, and carry what the       *)
(* upstream said.                                                          *)
(*                                                                         *)
(* The operators fold over sequences.  A fold is a recursive function, so  *)
(* it is first shown to exist and to obey its equation; everything else is *)
(* by induction on the length, in the form of NatSetInduction.             *)
(***************************************************************************)
EXTENDS BridgeStream, FiniteSetTheorems, SequenceTheorems, TLAPS

(***************************************************************************)
(* Induction                                                               *)
(***************************************************************************)

\* Induction on a set of numbers: if it leaves out x, then the predecessor
\* maps the numbers up to x that it leaves out into fewer of them.
LEMMA NatSetInduction ==
  ASSUME NEW S, 0 \in S, \A n \in Nat : n \in S => n + 1 \in S
  PROVE  \A n \in Nat : n \in S
<1> SUFFICES ASSUME NEW x \in Nat, x \notin S PROVE FALSE
  OBVIOUS
<1> DEFINE U == {y \in 0..x : y \notin S}
           f == [y \in U |-> y - 1]
<1>1. x \in U /\ U \subseteq 0..x
  OBVIOUS
<1>2. IsFiniteSet(U) /\ IsFiniteSet(U \ {x}) /\ Cardinality(U \ {x}) = Cardinality(U) - 1
  <2>1. IsFiniteSet(0..x)
    BY FS_Interval
  <2>2. IsFiniteSet(U)
    BY <1>1, <2>1, FS_Subset
  <2> HIDE DEF U
  <2> QED BY <1>1, <2>2, FS_RemoveElement
<1>3. \A y \in U : y - 1 \in U \ {x}
  OBVIOUS
<1>4. f \in Injection(U, U \ {x})
  BY <1>3 DEF Injection, IsInjective
<1>5. Cardinality(U) <= Cardinality(U \ {x})
  BY <1>2, <1>4, FS_Injection
<1>6. Cardinality(U) \in Nat
  BY <1>2, FS_CardinalityType
<1> QED BY <1>2, <1>5, <1>6

\* A set of numbers has a least one.
LEMMA LeastNumber ==
  ASSUME NEW S \in SUBSET Nat, S # {}
  PROVE  \E m \in S : \A n \in S : m <= n
<1> SUFFICES ASSUME \A m \in S : \E n \in S : n < m PROVE FALSE
  OBVIOUS
<1> DEFINE T == {n \in Nat : \A m \in 0..n : m \notin S}
<1>1. 0 \in T
  OBVIOUS
<1>2. \A n \in Nat : n \in T => n + 1 \in T
  OBVIOUS
<1> HIDE DEF T
<1>3. \A n \in Nat : n \in T
  BY <1>1, <1>2, NatSetInduction
<1>4. PICK x \in S : TRUE
  OBVIOUS
<1>5. x \in T
  BY <1>3, <1>4
<1> QED BY <1>4, <1>5 DEF T

\* Two functions that begin alike and go on alike ...
Parallel(f, g, m) ==
  /\ f[0] = g[0]
  /\ \A n \in 1..m : f[n - 1] = g[n - 1] => f[n] = g[n]

\* ... are alike.
LEMMA ParallelRuns ==
  ASSUME NEW f, NEW g, NEW m \in Nat, Parallel(f, g, m)
  PROVE  \A n \in 0..m : f[n] = g[n]
<1> DEFINE T == {n \in Nat : n <= m => f[n] = g[n]}
<1>1. 0 \in T
  BY DEF Parallel
<1>2. ASSUME NEW n \in Nat, n \in T PROVE n + 1 \in T
  <2> SUFFICES ASSUME n + 1 <= m PROVE f[n + 1] = g[n + 1]
    OBVIOUS
  <2>1. n + 1 \in 1..m /\ (n + 1) - 1 = n /\ f[n] = g[n]
    BY <1>2
  <2> QED BY <2>1 DEF Parallel
<1> HIDE DEF T
<1>3. \A n \in Nat : n \in T
  BY <1>1, <1>2, NatSetInduction
<1> QED BY <1>3 DEF T

\* Runs of a fold over m elements, with values in V.
IsStep(step, m, V) == step \in [1..m -> [V -> V]]
IsRun(g, base, step, m, V) ==
  /\ g \in [0..m -> V]
  /\ g[0] = base
  /\ \A n \in 1..m : g[n] = step[n][g[n - 1]]

\* A recursive function obeys the step as long as its values are in V ...
Follows(f, base, step, m, V) ==
  /\ f[0] = base
  /\ \A n \in 1..m : f[n - 1] \in V => f[n] = step[n][f[n - 1]]

\* ... and so takes the values of the run.
LEMMA SameRun ==
  ASSUME NEW f, NEW g, NEW base, NEW step, NEW m \in Nat, NEW V,
         IsRun(g, base, step, m, V), Follows(f, base, step, m, V)
  PROVE  \A n \in 0..m : f[n] = g[n]
<1>1. Parallel(f, g, m)
  BY DEF Parallel, IsRun, Follows
<1> QED BY <1>1, ParallelRuns

\* A fold that stays in a set of values exists.
LEMMA RunExists ==
  ASSUME NEW V, NEW base \in V, NEW m \in Nat, NEW step, IsStep(step, m, V)
  PROVE  \E g : IsRun(g, base, step, m, V)
<1> USE DEF IsStep, IsRun
<1> DEFINE Run(k, g) == IsRun(g, base, step, k, V)
           T == {k \in Nat : k <= m => \E g : Run(k, g)}
<1>1. 0 \in T
  <2>1. Run(0, [n \in 0..0 |-> base])
    OBVIOUS
  <2> QED BY <2>1
<1>2. ASSUME NEW k \in Nat, k \in T PROVE k + 1 \in T
  <2> SUFFICES ASSUME k + 1 <= m PROVE \E g : Run(k + 1, g)
    OBVIOUS
  <2>1. PICK g : Run(k, g)
    BY <1>2
  <2> DEFINE h == [n \in 0..(k + 1) |-> IF n <= k THEN g[n] ELSE step[k + 1][g[k]]]
  <2>2. step[k + 1][g[k]] \in V
    BY <2>1
  <2>3. \A n \in 0..k : h[n] = g[n]
    OBVIOUS
  <2>4. h[k + 1] = step[k + 1][g[k]]
    OBVIOUS
  <2>5. h \in [0..(k + 1) -> V]
    BY <2>1, <2>2
  <2> HIDE DEF h
  <2>6. ASSUME NEW n \in 1..(k + 1) PROVE h[n] = step[n][h[n - 1]]
    <3>1. CASE n \in 1..k
      BY <2>1, <2>3, <3>1
    <3>2. CASE n = k + 1
      BY <2>3, <2>4, <3>2
    <3> QED BY <3>1, <3>2
  <2>7. Run(k + 1, h)
    BY <2>1, <2>3, <2>5, <2>6
  <2> QED BY <2>7
<1> HIDE DEF T
<1>3. m \in T
  BY <1>1, <1>2, NatSetInduction
<1> QED BY <1>3 DEF T

(***************************************************************************)
(* The elements of a sequence that are in a set                            *)
(***************************************************************************)

\* The run of Only.
OnlyRun(g, s, set) ==
  /\ g[0] = <<>>
  /\ \A n \in 1..Len(s) :
       g[n] = IF s[n] \in set THEN Append(g[n - 1], s[n]) ELSE g[n - 1]

\* It exists.
LEMMA OnlyDef ==
  ASSUME NEW S, NEW s \in Seq(S), NEW set
  PROVE  \E g : /\ g \in [0..Len(s) -> Seq(S \cap set)]
                /\ OnlyRun(g, s, set)
                /\ Only(s, set) = g[Len(s)]
<1>1. PICK m \in Nat : m = Len(s)
  BY LenProperties
<1>2. PICK V : V = Seq(S \cap set)
  OBVIOUS
<1>3. PICK base \in V : base = <<>>
  BY <1>2, EmptySeq
<1> DEFINE Add(n, v) == IF s[n] \in set THEN Append(v, s[n]) ELSE v
           Def(g) == [n \in 0..m |-> IF n = 0 THEN <<>> ELSE Add(n, g[n - 1])]
<1>4. \A n \in 1..m, v \in V : Add(n, v) \in V
  BY <1>1, <1>2, ElementOfSeq, AppendProperties
<1>5. Only(s, set) = (CHOOSE g : g = Def(g))[m]
  BY <1>1 DEF Only
<1> HIDE DEF Add
<1>6. PICK step : IsStep(step, m, V) /\ \A n \in 1..m, v \in V : step[n][v] = Add(n, v)
  <2>1. IsStep([n \in 1..m |-> [v \in V |-> Add(n, v)]], m, V)
    BY <1>4 DEF IsStep
  <2> QED BY <2>1
<1>7. PICK g : IsRun(g, base, step, m, V)
  BY <1>6, RunExists
<1>8. g \in [0..m -> V] /\ g[0] = base /\ \A n \in 1..m : g[n] = Add(n, g[n - 1])
  <2>1. g \in [0..m -> V] /\ g[0] = base /\ \A n \in 1..m : g[n] = step[n][g[n - 1]]
    BY <1>7 DEF IsRun
  <2>2. \A n \in 1..m : g[n - 1] \in V
    BY <2>1
  <2> QED BY <1>6, <2>1, <2>2
<1>9. g = Def(g)
  <2>1. \A n \in 0..m : g[n] = Def(g)[n]
    BY <1>3, <1>8
  <2> QED BY <1>8, <2>1
<1>10. PICK f : f = Def(f) /\ Only(s, set) = f[m]
  <2> HIDE DEF Def
  <2> QED BY <1>5, <1>9
<1>11. Follows(f, base, step, m, V)
  <2>1. \A n \in 0..m : f[n] = Def(f)[n]
    <3> HIDE DEF Def
    <3> QED BY <1>10
  <2> QED BY <1>3, <1>6, <2>1 DEF Follows
<1>12. \A n \in 0..m : f[n] = g[n]
  BY <1>7, <1>11, SameRun
<1>13. g \in [0..Len(s) -> Seq(S \cap set)] /\ OnlyRun(g, s, set)
  BY <1>1, <1>2, <1>3, <1>8 DEF Add, OnlyRun
<1>14. Only(s, set) = g[Len(s)]
  BY <1>1, <1>10, <1>12
<1> QED BY <1>13, <1>14

\* What is in the set, in a sequence.
LEMMA OnlyType ==
  ASSUME NEW S, NEW s \in Seq(S), NEW set
  PROVE  Only(s, set) \in Seq(S \cap set)
<1>1. Len(s) \in Nat
  BY LenProperties
<1> QED BY <1>1, OnlyDef

\* Nothing of nothing.
LEMMA OnlyEmpty ==
  ASSUME NEW set
  PROVE  Only(<<>>, set) = <<>>
<1>1. <<>> \in Seq({}) /\ Len(<<>>) = 0
  BY EmptySeq
<1>2. PICK g : OnlyRun(g, <<>>, set) /\ Only(<<>>, set) = g[Len(<<>>)]
  BY <1>1, OnlyDef
<1> QED BY <1>1, <1>2 DEF OnlyRun

\* One element more.
LEMMA OnlyAppend ==
  ASSUME NEW S, NEW s \in Seq(S), NEW x \in S, NEW set
  PROVE  Only(Append(s, x), set) =
           IF x \in set THEN Append(Only(s, set), x) ELSE Only(s, set)
<1>1. PICK m \in Nat : m = Len(s)
  BY LenProperties
<1>2. PICK t \in Seq(S) : t = Append(s, x)
  BY AppendProperties
<1>3. /\ Len(t) = m + 1 /\ t[m + 1] = x
      /\ \A n \in 1..m : t[n] = s[n]
  BY <1>1, <1>2, AppendProperties
<1>4. PICK f : OnlyRun(f, s, set) /\ Only(s, set) = f[Len(s)]
  BY OnlyDef
<1>5. PICK g : OnlyRun(g, t, set) /\ Only(t, set) = g[Len(t)]
  BY OnlyDef
<1>6. Parallel(f, g, m)
  BY <1>1, <1>3, <1>4, <1>5 DEF Parallel, OnlyRun
<1>7. f[m] = g[m]
  BY <1>6, ParallelRuns
<1>8. g[m + 1] = IF t[m + 1] \in set THEN Append(g[(m + 1) - 1], t[m + 1]) ELSE g[(m + 1) - 1]
  BY <1>3, <1>5 DEF OnlyRun
<1>9. (m + 1) - 1 = m
  OBVIOUS
<1> QED BY <1>1, <1>2, <1>3, <1>4, <1>5, <1>7, <1>8, <1>9

(***************************************************************************)
(* The reader                                                              *)
(***************************************************************************)

Names == {"message_start", "block_start", "block_stop", "message_delta", "message_stop",
          "error", "text", "thinking", "signature", "tool"}
Events == [name : Names, index : Nat]
Points == {"new", "message", "block", "closing", "stopped", "failed", "rejected"}
Clients == [at : Points, next : Nat]
NewClient == [at |-> "new", next |-> 0]

\* The client after all the events.
Client(events) == Reading(events)[Len(events)]

\* An event leads a client to another state.
LEMMA AcceptType ==
  ASSUME NEW s \in Clients, NEW ev \in Events
  PROVE  Accept(s, ev) \in Clients
<1>1. s.at \in Points /\ s.next \in Nat
  BY DEF Clients
<1>2. \A at \in Points : [s EXCEPT !.at = at] \in Clients
  BY DEF Clients
<1>3. [at |-> "block", next |-> s.next + 1] \in Clients
  BY <1>1 DEF Clients, Points
<1>4. Accept(s, ev) \in {s, [at |-> "block", next |-> s.next + 1]}
                        \cup {[s EXCEPT !.at = at] : at \in Points}
  BY DEF Accept, Points
<1> QED BY <1>2, <1>3, <1>4

\* The run of Reading.
ClientRun(g, events) ==
  /\ g[0] = NewClient
  /\ \A n \in 1..Len(events) : g[n] = Accept(g[n - 1], events[n])

\* It exists.
LEMMA ReadingDef ==
  ASSUME NEW events \in Seq(Events)
  PROVE  \E g : /\ g \in [0..Len(events) -> Clients]
                /\ ClientRun(g, events)
                /\ Client(events) = g[Len(events)]
<1>1. PICK m \in Nat : m = Len(events)
  BY LenProperties
<1>2. PICK base \in Clients : base = NewClient
  BY DEF Clients, Points, NewClient
<1> DEFINE Add(n, v) == Accept(v, events[n])
           Def(g) == [n \in 0..m |-> IF n = 0 THEN NewClient ELSE Add(n, g[n - 1])]
<1>3. \A n \in 1..m, v \in Clients : Add(n, v) \in Clients
  BY <1>1, ElementOfSeq, AcceptType
<1>4. Client(events) = (CHOOSE g : g = Def(g))[m]
  BY <1>1 DEF Client, Reading, NewClient
<1> HIDE DEF Add
<1>5. PICK step : /\ IsStep(step, m, Clients)
                  /\ \A n \in 1..m, v \in Clients : step[n][v] = Add(n, v)
  <2>1. IsStep([n \in 1..m |-> [v \in Clients |-> Add(n, v)]], m, Clients)
    BY <1>3 DEF IsStep
  <2> QED BY <2>1
<1>6. PICK g : IsRun(g, base, step, m, Clients)
  BY <1>5, RunExists
<1>7. g \in [0..m -> Clients] /\ g[0] = base /\ \A n \in 1..m : g[n] = Add(n, g[n - 1])
  <2>1. /\ g \in [0..m -> Clients] /\ g[0] = base
        /\ \A n \in 1..m : g[n] = step[n][g[n - 1]]
    BY <1>6 DEF IsRun
  <2>2. \A n \in 1..m : g[n - 1] \in Clients
    BY <2>1
  <2> QED BY <1>5, <2>1, <2>2
<1>8. g = Def(g)
  <2>1. \A n \in 0..m : g[n] = Def(g)[n]
    BY <1>2, <1>7
  <2> QED BY <1>7, <2>1
<1>9. PICK f : f = Def(f) /\ Client(events) = f[m]
  <2> HIDE DEF Def
  <2> QED BY <1>4, <1>8
<1>10. Follows(f, base, step, m, Clients)
  <2>1. \A n \in 0..m : f[n] = Def(f)[n]
    <3> HIDE DEF Def
    <3> QED BY <1>9
  <2> QED BY <1>2, <1>5, <2>1 DEF Follows
<1>11. \A n \in 0..m : f[n] = g[n]
  BY <1>6, <1>10, SameRun
<1>12. g \in [0..Len(events) -> Clients] /\ ClientRun(g, events)
  BY <1>1, <1>2, <1>7 DEF Add, ClientRun
<1> QED BY <1>1, <1>9, <1>11, <1>12

\* A client that has seen nothing.
LEMMA ClientEmpty == Client(<<>>) = NewClient
<1>1. <<>> \in Seq(Events) /\ Len(<<>>) = 0
  BY EmptySeq
<1>2. PICK g : ClientRun(g, <<>>) /\ Client(<<>>) = g[Len(<<>>)]
  BY <1>1, ReadingDef
<1> QED BY <1>1, <1>2 DEF ClientRun

\* One event more.
LEMMA ClientAppend ==
  ASSUME NEW events \in Seq(Events), NEW ev \in Events
  PROVE  /\ Append(events, ev) \in Seq(Events)
         /\ Client(events) \in Clients
         /\ Client(Append(events, ev)) = Accept(Client(events), ev)
<1>1. PICK m \in Nat : m = Len(events)
  BY LenProperties
<1>2. PICK t \in Seq(Events) : t = Append(events, ev)
  BY AppendProperties
<1>3. /\ Len(t) = m + 1 /\ t[m + 1] = ev
      /\ \A n \in 1..m : t[n] = events[n]
  BY <1>1, <1>2, AppendProperties
<1>4. PICK f : /\ f \in [0..Len(events) -> Clients] /\ ClientRun(f, events)
               /\ Client(events) = f[Len(events)]
  BY ReadingDef
<1>5. PICK g : ClientRun(g, t) /\ Client(t) = g[Len(t)]
  BY ReadingDef
<1>6. Parallel(f, g, m)
  BY <1>1, <1>3, <1>4, <1>5 DEF Parallel, ClientRun
<1>7. f[m] = g[m]
  BY <1>6, ParallelRuns
<1>8. g[m + 1] = Accept(g[(m + 1) - 1], t[m + 1]) /\ (m + 1) - 1 = m
  BY <1>3, <1>5 DEF ClientRun
<1>9. f[m] \in Clients
  BY <1>1, <1>4
<1> QED BY <1>1, <1>2, <1>3, <1>4, <1>5, <1>7, <1>8, <1>9

\* What a client can put together, event by event.
Spoken == {"text", "thinking", "tool"}

\* The names of the events are a sequence.
LEMMA NamesType ==
  ASSUME NEW events \in Seq(Events)
  PROVE  [i \in DOMAIN events |-> events[i].name] \in Seq(Names)
<1>1. /\ Len(events) \in Nat /\ DOMAIN events = 1..Len(events)
      /\ \A i \in 1..Len(events) : events[i] \in Events
  BY LenProperties, ElementOfSeq
<1>2. [i \in 1..Len(events) |-> events[i].name] \in [1..Len(events) -> Names]
  BY <1>1 DEF Events
<1> QED BY <1>1, <1>2, SeqDef

\* An event that has not been said adds nothing.
LEMMA ContentAppend ==
  ASSUME NEW events \in Seq(Events), NEW ev \in Events
  PROVE  /\ Content(events) \in Seq(Spoken)
         /\ Content(Append(events, ev)) =
              IF ev.name \in Spoken THEN Append(Content(events), ev.name)
              ELSE Content(events)
<1> DEFINE names(s) == [i \in DOMAIN s |-> s[i].name]
<1>1. names(events) \in Seq(Names) /\ ev.name \in Names
  BY NamesType DEF Events
<1>2. names(Append(events, ev)) = Append(names(events), ev.name)
  <2>1. PICK m \in Nat : m = Len(events) /\ DOMAIN events = 1..m
    BY LenProperties
  <2>2. PICK t \in Seq(Events) : t = Append(events, ev)
    BY AppendProperties
  <2>3. /\ Len(t) = m + 1 /\ DOMAIN t = 1..(m + 1) /\ t[m + 1] = ev
        /\ \A n \in 1..m : t[n] = events[n]
    BY <2>1, <2>2, AppendProperties, LenProperties
  <2>4. names(t) \in Seq(Names) /\ Len(names(t)) = m + 1
    BY <2>3, NamesType
  <2>5. Len(names(events)) = m
    BY <2>1, <1>1
  <2>6. PICK u \in Seq(Names) : u = Append(names(events), ev.name)
    BY <1>1, AppendProperties
  <2>7. /\ Len(u) = m + 1 /\ u[m + 1] = ev.name
        /\ \A n \in 1..m : u[n] = names(events)[n]
    BY <1>1, <2>5, <2>6, AppendProperties
  <2>8. \A n \in 1..(m + 1) : names(t)[n] = u[n]
    BY <2>1, <2>3, <2>7
  <2>9. names(t) = u
    <3> HIDE DEF names
    <3> QED BY <2>4, <2>7, <2>8, SeqEqual
  <2> QED BY <2>2, <2>6, <2>9
<1>3. \A s : Content(s) = Only(names(s), Spoken)
  BY DEF Content, Spoken
<1> HIDE DEF names
<1>4. Only(names(events), Spoken) \in Seq(Names \cap Spoken)
  BY <1>1, OnlyType
<1>5. Names \cap Spoken = Spoken
  BY DEF Spoken, Names
<1>6. PICK u \in Seq(Names) : u = names(events)
  BY <1>1
<1>7. Only(Append(u, ev.name), Spoken) =
        IF ev.name \in Spoken THEN Append(Only(u, Spoken), ev.name) ELSE Only(u, Spoken)
  <2>1. PICK name \in Names : name = ev.name
    BY <1>1
  <2>2. Only(Append(u, name), Spoken) =
          IF name \in Spoken THEN Append(Only(u, Spoken), name) ELSE Only(u, Spoken)
    BY OnlyAppend, Zenon
  <2> QED BY <2>1, <2>2
<1>8. Content(events) = Only(u, Spoken) /\ Content(Append(events, ev)) = Only(Append(u, ev.name), Spoken)
  BY <1>2, <1>3, <1>6
<1> QED BY <1>4, <1>5, <1>6, <1>7, <1>8

\* Nothing was said yet.
LEMMA ContentEmpty == Content(<<>>) = <<>>
<1>1. [i \in DOMAIN <<>> |-> <<>>[i].name] = <<>>
  OBVIOUS
<1> QED BY <1>1, OnlyEmpty DEF Content

(***************************************************************************)
(* Flattening                                                              *)
(***************************************************************************)

\* The run of FlattenSeq.
FlattenRun(g, seqs) ==
  /\ g[0] = <<>>
  /\ \A n \in 1..Len(seqs) : g[n] = g[n - 1] \o seqs[n]

\* It exists.
LEMMA FlattenDef ==
  ASSUME NEW S, NEW seqs \in Seq(Seq(S))
  PROVE  \E g : /\ g \in [0..Len(seqs) -> Seq(S)]
                /\ FlattenRun(g, seqs)
                /\ FlattenSeq(seqs) = g[Len(seqs)]
<1>1. PICK m \in Nat : m = Len(seqs)
  BY LenProperties
<1>2. PICK V : V = Seq(S)
  OBVIOUS
<1>3. PICK base \in V : base = <<>>
  BY <1>2, EmptySeq
<1> DEFINE Add(n, v) == v \o seqs[n]
           Def(g) == [n \in 1..m |-> IF n = 1 THEN seqs[n] ELSE Add(n, g[n - 1])]
<1>4. \A n \in 1..m : Add(n, base) = seqs[n] /\ \A v \in V : Add(n, v) \in V
  <2>1. \A n \in 1..m : seqs[n] \in Seq(S)
    BY <1>1, ElementOfSeq
  <2> QED BY <1>2, <1>3, <2>1, ConcatProperties, ConcatEmptySeq
<1>5. m # 0 => FlattenSeq(seqs) = (CHOOSE g : g = Def(g))[m]
  BY <1>1 DEF FlattenSeq
<1> HIDE DEF Add
<1>6. PICK step : IsStep(step, m, V) /\ \A n \in 1..m, v \in V : step[n][v] = Add(n, v)
  <2>1. IsStep([n \in 1..m |-> [v \in V |-> Add(n, v)]], m, V)
    BY <1>4 DEF IsStep
  <2> QED BY <2>1
<1>7. PICK g : IsRun(g, base, step, m, V)
  BY <1>6, RunExists
<1>8. g \in [0..m -> V] /\ g[0] = base /\ \A n \in 1..m : g[n] = Add(n, g[n - 1])
  <2>1. g \in [0..m -> V] /\ g[0] = base /\ \A n \in 1..m : g[n] = step[n][g[n - 1]]
    BY <1>7 DEF IsRun
  <2>2. \A n \in 1..m : g[n - 1] \in V
    BY <2>1
  <2> QED BY <1>6, <2>1, <2>2
<1>9. FlattenSeq(seqs) = g[m]
  <2>1. CASE m = 0
    <3>1. seqs = <<>>
      BY <1>1, <2>1, EmptySeq
    <3>2. FlattenSeq(seqs) = seqs
      BY <1>1, <2>1 DEF FlattenSeq
    <3> QED BY <1>3, <1>8, <2>1, <3>1, <3>2
  <2>2. CASE m # 0
    <3>1. PICK h : h = [n \in 1..m |-> g[n]]
      OBVIOUS
    <3>2. h = Def(h)
      <4>1. ASSUME NEW n \in 1..m PROVE h[n] = Def(h)[n]
        <5>1. CASE n = 1
          BY <1>4, <1>8, <3>1, <5>1
        <5>2. CASE n # 1
          BY <1>8, <3>1, <5>2
        <5> QED BY <5>1, <5>2
      <4> QED BY <3>1, <4>1
    <3>3. PICK f : f = Def(f) /\ FlattenSeq(seqs) = f[m]
      <4> HIDE DEF Def
      <4> QED BY <1>5, <2>2, <3>2
    <3>4. PICK e : e = [n \in 0..m |-> IF n = 0 THEN base ELSE f[n]]
      OBVIOUS
    <3>5. Follows(e, base, step, m, V)
      <4>1. \A n \in 1..m : f[n] = Def(f)[n]
        <5> HIDE DEF Def
        <5> QED BY <3>3
      <4>2. ASSUME NEW n \in 1..m, e[n - 1] \in V PROVE e[n] = step[n][e[n - 1]]
        <5>1. CASE n = 1
          <6>1. e[n - 1] = base /\ e[n] = seqs[n]
            BY <3>4, <4>1, <5>1
          <6> QED BY <1>4, <1>6, <6>1
        <5>2. CASE n # 1
          <6>1. e[n] = Add(n, e[n - 1])
            BY <3>4, <4>1, <5>2
          <6> QED BY <1>6, <4>2, <6>1
        <5> QED BY <5>1, <5>2
      <4>3. e[0] = base
        BY <3>4
      <4> QED BY <4>2, <4>3 DEF Follows
    <3>6. \A n \in 0..m : e[n] = g[n]
      BY <1>7, <3>5, SameRun
    <3>7. e[m] = f[m] /\ e[m] = g[m]
      BY <2>2, <3>4, <3>6
    <3> QED BY <3>3, <3>7
  <2> QED BY <2>1, <2>2
<1>10. g \in [0..Len(seqs) -> Seq(S)] /\ FlattenRun(g, seqs)
  BY <1>1, <1>2, <1>3, <1>8 DEF Add, FlattenRun
<1> QED BY <1>1, <1>9, <1>10

(***************************************************************************)
(* What an event tells the client                                          *)
(***************************************************************************)

\* The client is at a point, has seen `next` blocks and put together `said`.
At(out, at, next, said) ==
  /\ out \in Seq(Events) /\ said \in Seq(Spoken) /\ next \in Nat
  /\ Client(out) = [at |-> at, next |-> next]
  /\ Content(out) = said

\* One event more.
LEMMA Tell ==
  ASSUME NEW out, NEW at, NEW next, NEW said, At(out, at, next, said),
         NEW name \in Names, NEW index \in Nat
  PROVE  /\ out \o <<Ev(name, index)>> \in Seq(Events)
         /\ Client(out \o <<Ev(name, index)>>) =
              Accept([at |-> at, next |-> next], Ev(name, index))
         /\ Content(out \o <<Ev(name, index)>>) =
              IF name \in Spoken THEN Append(said, name) ELSE said
<1>1. Ev(name, index) \in Events /\ Ev(name, index).name = name
  BY DEF Ev, Events
<1>2. out \in Seq(Events)
  BY DEF At
<1>3. out \o <<Ev(name, index)>> = Append(out, Ev(name, index))
  BY <1>1, <1>2, AppendIsConcat
<1> QED BY <1>1, <1>2, <1>3, ClientAppend, ContentAppend DEF At

\* The events one by one, as the client accepts them.
LEMMA TellStart ==
  ASSUME NEW out, NEW next, NEW said, At(out, "new", next, said)
  PROVE  At(out \o <<Ev("message_start", 0)>>, "message", next, said)
<1>1. "message_start" \in Names /\ "message_start" \notin Spoken /\ 0 \in Nat
  BY DEF Names, Spoken
<1>2. Accept([at |-> "new", next |-> next], Ev("message_start", 0))
        = [at |-> "message", next |-> next]
  BY DEF Accept, Ev
<1> QED BY <1>1, <1>2, Tell DEF At

\* Joining streams is associative.
LEMMA EventsAssociative ==
  ASSUME NEW x \in Seq(Events), NEW y \in Seq(Events), NEW z \in Seq(Events)
  PROVE  (x \o y) \o z = x \o (y \o z)
BY ConcatAssociative

\* A block opens with the next index.
LEMMA TellBlockStart ==
  ASSUME NEW out, NEW next, NEW said, At(out, "message", next, said)
  PROVE  At(out \o <<Ev("block_start", next)>>, "block", next + 1, said)
<1>1. "block_start" \in Names /\ "block_start" \notin Spoken /\ next \in Nat /\ next + 1 \in Nat
  BY DEF Names, Spoken, At
<1>2. Accept([at |-> "message", next |-> next], Ev("block_start", next))
        = [at |-> "block", next |-> next + 1]
  BY DEF Accept, Ev
<1> QED BY <1>1, <1>2, Tell DEF At

\* A delta of the open block adds a piece of content.
LEMMA TellDelta ==
  ASSUME NEW out, NEW next \in Nat, NEW said, At(out, "block", next + 1, said),
         NEW name \in Spoken
  PROVE  At(out \o <<Ev(name, next)>>, "block", next + 1, Append(said, name))
<1>1. name \in Names /\ name \in Deltas /\ name # "block_stop" /\ name # "error"
  BY DEF Names, Spoken, Deltas
<1>2. Accept([at |-> "block", next |-> next + 1], Ev(name, next))
        = [at |-> "block", next |-> next + 1]
  <2>1. PICK m \in Nat : m = next + 1 /\ next = m - 1
    OBVIOUS
  <2>2. Accept([at |-> "block", next |-> m], Ev(name, next)) = [at |-> "block", next |-> m]
    BY <1>1, <2>1 DEF Accept, Ev
  <2> QED BY <2>1, <2>2
<1>3. Append(said, name) \in Seq(Spoken)
  BY AppendProperties DEF At
<1> QED BY <1>1, <1>2, <1>3, Tell DEF At

\* The signature of a thinking block is no content.
LEMMA TellSignature ==
  ASSUME NEW out, NEW next \in Nat, NEW said, At(out, "block", next + 1, said)
  PROVE  At(out \o <<Ev("signature", next)>>, "block", next + 1, said)
<1>1. "signature" \in Names /\ "signature" \in Deltas /\ "signature" \notin Spoken
  BY DEF Names, Spoken, Deltas
<1>2. Accept([at |-> "block", next |-> next + 1], Ev("signature", next))
        = [at |-> "block", next |-> next + 1]
  <2>1. next = (next + 1) - 1
    OBVIOUS
  <2> QED BY <1>1, <2>1 DEF Accept, Ev
<1> QED BY <1>1, <1>2, Tell DEF At

\* The open block is closed.
LEMMA TellBlockStop ==
  ASSUME NEW out, NEW next \in Nat, NEW said, At(out, "block", next + 1, said)
  PROVE  At(out \o <<Ev("block_stop", next)>>, "message", next + 1, said)
<1>1. "block_stop" \in Names /\ "block_stop" \notin Deltas /\ "block_stop" \notin Spoken
  BY DEF Names, Spoken, Deltas
<1>2. Accept([at |-> "block", next |-> next + 1], Ev("block_stop", next))
        = [at |-> "message", next |-> next + 1]
  <2>1. next = (next + 1) - 1
    OBVIOUS
  <2> QED BY <1>1, <2>1 DEF Accept, Ev
<1> QED BY <1>1, <1>2, Tell DEF At

\* The message ends once it has had a block.
LEMMA TellMessageDelta ==
  ASSUME NEW out, NEW next, NEW said, At(out, "message", next, said), next > 0
  PROVE  At(out \o <<Ev("message_delta", 0)>>, "closing", next, said)
<1>1. "message_delta" \in Names /\ "message_delta" \notin Spoken /\ 0 \in Nat
  BY DEF Names, Spoken
<1>2. Accept([at |-> "message", next |-> next], Ev("message_delta", 0))
        = [at |-> "closing", next |-> next]
  BY DEF Accept, Ev
<1> QED BY <1>1, <1>2, Tell DEF At

\* After message_delta comes message_stop.
LEMMA TellMessageStop ==
  ASSUME NEW out, NEW next, NEW said, At(out, "closing", next, said)
  PROVE  At(out \o <<Ev("message_stop", 0)>>, "stopped", next, said)
<1>1. "message_stop" \in Names /\ "message_stop" \notin Spoken /\ 0 \in Nat
  BY DEF Names, Spoken
<1>2. Accept([at |-> "closing", next |-> next], Ev("message_stop", 0))
        = [at |-> "stopped", next |-> next]
  BY DEF Accept, Ev
<1> QED BY <1>1, <1>2, Tell DEF At

\* sse_event makes events.
LEMMA EvType ==
  ASSUME NEW name \in Names, NEW index \in Nat
  PROVE  Ev(name, index) \in Events /\ <<Ev(name, index)>> \in Seq(Events)
<1>1. Ev(name, index) \in Events
  BY DEF Ev, Events
<1> QED BY <1>1

\* Two events at once.
LEMMA Both ==
  ASSUME NEW S, NEW s \in Seq(S), NEW a \in S, NEW b \in S
  PROVE  s \o <<a, b>> = (s \o <<a>>) \o <<b>> /\ <<a, b>> \in Seq(S)
<1>1. <<a>> \in Seq(S) /\ <<b>> \in Seq(S)
  OBVIOUS
<1>2. <<a>> \o <<b>> = Append(<<a>>, b)
  BY <1>1, AppendIsConcat
<1>3. PICK u \in Seq(S) : u = <<a, b>>
  <2>1. <<a, b>> \in Seq(S)
    OBVIOUS
  <2> QED BY <2>1
<1>4. PICK v \in Seq(S) : v = Append(<<a>>, b)
  BY <1>1, AppendProperties
<1>5. Len(u) = 2 /\ u[1] = a /\ u[2] = b
  BY <1>3
<1>6. Len(<<a>>) = 1 /\ <<a>>[1] = a
  OBVIOUS
<1>7. Len(v) = 2 /\ v[1] = a /\ v[2] = b
  BY <1>1, <1>4, <1>6, AppendProperties
<1>8. \A i \in 1..Len(u) : u[i] = v[i]
  BY <1>5, <1>7
<1>9. u = v
  BY <1>5, <1>7, <1>8, SeqEqual
<1>10. (s \o <<a>>) \o <<b>> = s \o (<<a>> \o <<b>>)
  BY <1>1, ConcatAssociative
<1>11. <<a>> \o <<b>> = u
  BY <1>2, <1>4, <1>9
<1> QED BY <1>3, <1>10, <1>11

\* The two events at the end of finalize.
LEMMA TellEnd ==
  ASSUME NEW out, NEW next, NEW said, At(out, "message", next, said), next > 0
  PROVE  At(out \o <<Ev("message_delta", 0), Ev("message_stop", 0)>>, "stopped", next, said)
<1>1. Ev("message_delta", 0) \in Events /\ Ev("message_stop", 0) \in Events
  BY EvType DEF Names
<1>2. At((out \o <<Ev("message_delta", 0)>>) \o <<Ev("message_stop", 0)>>,
         "stopped", next, said)
  BY TellMessageDelta, TellMessageStop
<1>3. out \o <<Ev("message_delta", 0), Ev("message_stop", 0)>>
        = (out \o <<Ev("message_delta", 0)>>) \o <<Ev("message_stop", 0)>>
  BY <1>1, Both DEF At
<1> QED BY <1>2, <1>3

\* The error event ends a stream between blocks, or one that has not begun.
LEMMA TellError ==
  ASSUME NEW out, NEW at \in {"new", "message"}, NEW next, NEW said,
         At(out, at, next, said)
  PROVE  At(out \o <<Ev("error", 0)>>, "failed", next, said)
<1>1. "error" \in Names /\ "error" \notin Spoken /\ "error" \notin Deltas /\ 0 \in Nat
  BY DEF Names, Spoken, Deltas
<1>2. Accept([at |-> at, next |-> next], Ev("error", 0))
        = [at |-> "failed", next |-> next]
  BY <1>1 DEF Accept, Ev
<1> QED BY <1>1, <1>2, Tell DEF At

(***************************************************************************)
(* The translator                                                          *)
(***************************************************************************)

OpenBlocks == [kind : {"text", "thinking"}, index : Nat]
CallStates == [name : BOOLEAN, args : {"", "head", "json", "bad"}]
ToolMaps == UNION {[K -> CallStates] : K \in {K \in SUBSET Nat : IsFiniteSet(K)}}
Translators ==
  [started : BOOLEAN, finished : BOOLEAN, next : Nat, open : OpenBlocks \cup {None},
   tools : ToolMaps, emitted : BOOLEAN, usage : BOOLEAN, error : {None, "failed"},
   out : Seq(Events)]

\* Where the client of a translator that has not finished is: what the translator
\* knows of the open block and of the next index is what the client has seen.
Tracks(t, said) ==
  IF ~t.started THEN t.open = None /\ t.next = 0 /\ At(t.out, "new", 0, said)
  ELSE IF t.open = None THEN At(t.out, "message", t.next, said)
  ELSE t.next = t.open.index + 1 /\ At(t.out, "block", t.open.index + 1, said)

Live(t, said) ==
  /\ t \in Translators /\ ~t.finished /\ t.error = None
  /\ t.emitted <=> t.next > 0
  /\ Tracks(t, said)

\* It has finished: with an error event, or with the whole message.
Failed(t) ==
  /\ t \in Translators /\ t.finished /\ t.error = "failed"
  /\ Client(t.out).at = "failed"

Stopped(t, said) ==
  /\ t \in Translators /\ t.finished /\ t.error = None
  /\ Client(t.out).at = "stopped" /\ Content(t.out) = said

\* What the helpers leave alone.
Same(t, s) == s.tools = t.tools /\ s.usage = t.usage

\* A block that is open is a block.
LEMMA OpenIsBlock ==
  ASSUME NEW t \in Translators, t.open # None
  PROVE  t.open \in OpenBlocks /\ t.open.index \in Nat
         /\ t.open.kind \in {"text", "thinking"}
<1>1. t.open \in OpenBlocks
  BY DEF Translators
<1> QED BY <1>1 DEF OpenBlocks

\* No calls yet.
LEMMA NoCalls == <<>> \in ToolMaps /\ DOMAIN <<>> = {}
<1>1. <<>> \in Seq(CallStates) /\ Len(<<>>) = 0
  BY EmptySeq
<1>2. <<>> \in [1..0 -> CallStates] /\ 1..0 = {}
  BY <1>1, LenProperties
<1>3. IsFiniteSet({}) /\ {} \in SUBSET Nat
  BY FS_EmptySet
<1> QED BY <1>2, <1>3 DEF ToolMaps

\* The calls of a translator are finitely many.
LEMMA FiniteCalls ==
  ASSUME NEW tools \in ToolMaps
  PROVE  /\ IsFiniteSet(DOMAIN tools) /\ DOMAIN tools \in SUBSET Nat
         /\ tools \in [DOMAIN tools -> CallStates]
BY DEF ToolMaps

\* A new translator has told the client nothing.
LEMMA NewLive == Live(NewTranslator, <<>>) /\ NewTranslator.tools = <<>>
<1>1. <<>> \in Seq(Events) /\ <<>> \in ToolMaps /\ <<>> \in Seq(Spoken)
  BY EmptySeq, NoCalls
<1>2. NewTranslator \in Translators
  BY <1>1 DEF NewTranslator, Translators
<1>3. At(<<>>, "new", 0, <<>>)
  BY <1>1, ClientEmpty, ContentEmpty DEF At, NewClient
<1> QED BY <1>2, <1>3 DEF NewTranslator, Live, Tracks

\* ensure_started
LEMMA EnsureStartedLive ==
  ASSUME NEW t, NEW said, Live(t, said)
  PROVE  LET s == EnsureStarted(t)
         IN Live(s, said) /\ s.started /\ Same(t, s) /\ s.open = t.open /\ s.next = t.next
<1>1. CASE t.started
  BY <1>1 DEF EnsureStarted, Same
<1>2. CASE ~t.started
  <2>1. PICK s : s = EnsureStarted(t)
    OBVIOUS
  <2>2. t \in Translators
    BY DEF Live
  <2>3. s = [t EXCEPT !.out = @ \o <<Ev("message_start", 0)>>, !.started = TRUE]
    BY <1>2, <2>1, <2>2 DEF EnsureStarted, Emit, Translators
  <2>4. At(t.out \o <<Ev("message_start", 0)>>, "message", 0, said)
    BY <1>2, TellStart DEF Live, Tracks
  <2>5. t.out \o <<Ev("message_start", 0)>> \in Seq(Events)
    BY <2>4 DEF At
  <2>6. s \in Translators
    BY <2>2, <2>3, <2>5 DEF Translators
  <2>7. /\ s.started /\ s.open = t.open /\ s.next = t.next /\ s.emitted = t.emitted
        /\ s.finished = t.finished /\ s.error = t.error /\ s.tools = t.tools
        /\ s.usage = t.usage /\ s.out = t.out \o <<Ev("message_start", 0)>>
    BY <2>2, <2>3 DEF Translators
  <2> QED BY <1>2, <2>1, <2>4, <2>6, <2>7 DEF Live, Tracks, Same
<1> QED BY <1>1, <1>2

\* close_open: the client is between two blocks.
LEMMA CloseOpenLive ==
  ASSUME NEW t, NEW said, Live(t, said)
  PROVE  LET s == CloseOpen(t)
         IN /\ Live(s, said) /\ s.open = None
            /\ s.started = t.started /\ Same(t, s) /\ s.next = t.next
<1>1. CASE t.open = None
  BY <1>1 DEF CloseOpen, Same
<1>2. CASE t.open # None
  <2>1. PICK s : s = CloseOpen(t)
    OBVIOUS
  <2>2. t \in Translators /\ t.started /\ t.next = t.open.index + 1
        /\ At(t.out, "block", t.open.index + 1, said)
    BY <1>2 DEF Live, Tracks
  <2>3. PICK i \in Nat : i = t.open.index
    BY <1>2, <2>2, OpenIsBlock
  <2>4. PICK out : /\ s = [t EXCEPT !.out = out, !.open = None]
                   /\ At(out, "message", i + 1, said)
    <3>1. CASE t.open.kind = "thinking"
      <4>1. s = [t EXCEPT !.out = @ \o (<<Ev("signature", i)>> \o <<Ev("block_stop", i)>>),
                          !.open = None]
        BY <1>2, <2>1, <2>2, <2>3, <3>1 DEF CloseOpen, Emit, Translators
      <4>2. At((t.out \o <<Ev("signature", i)>>) \o <<Ev("block_stop", i)>>,
               "message", i + 1, said)
        BY <2>2, <2>3, TellSignature, TellBlockStop
      <4>3. /\ <<Ev("signature", i)>> \in Seq(Events) /\ <<Ev("block_stop", i)>> \in Seq(Events)
            /\ t.out \in Seq(Events)
        BY <2>2, EvType DEF Names, At
      <4>4. t.out \o (<<Ev("signature", i)>> \o <<Ev("block_stop", i)>>)
              = (t.out \o <<Ev("signature", i)>>) \o <<Ev("block_stop", i)>>
        BY <4>3, ConcatAssociative
      <4> QED BY <4>1, <4>2, <4>4
    <3>2. CASE t.open.kind # "thinking"
      <4>1. s = [t EXCEPT !.out = @ \o (<<>> \o <<Ev("block_stop", i)>>), !.open = None]
        BY <1>2, <2>1, <2>2, <2>3, <3>2 DEF CloseOpen, Emit, Translators
      <4>2. At(t.out \o <<Ev("block_stop", i)>>, "message", i + 1, said)
        BY <2>2, <2>3, TellBlockStop
      <4>3. <<Ev("block_stop", i)>> \in Seq(Events)
        BY EvType DEF Names
      <4>4. <<>> \o <<Ev("block_stop", i)>> = <<Ev("block_stop", i)>>
        BY <4>3, ConcatEmptySeq
      <4> QED BY <4>1, <4>2, <4>4
    <3> QED BY <3>1, <3>2
  <2>5. out \in Seq(Events)
    BY <2>4 DEF At
  <2>6. s \in Translators
    BY <2>2, <2>4, <2>5 DEF Translators
  <2>7. /\ s.started = t.started /\ s.open = None /\ s.next = t.next /\ s.emitted = t.emitted
        /\ s.finished = t.finished /\ s.error = t.error /\ s.tools = t.tools
        /\ s.usage = t.usage /\ s.out = out
    BY <2>2, <2>4 DEF Translators
  <2> QED BY <2>1, <2>2, <2>3, <2>4, <2>6, <2>7 DEF Live, Tracks, Same
<1> QED BY <1>1, <1>2

\* open_text and open_thinking
LEMMA OpenBlockLive ==
  ASSUME NEW t, NEW said, Live(t, said), NEW kind \in {"text", "thinking"}
  PROVE  LET s == OpenBlock(t, kind)
         IN Live(s, said) /\ s.started /\ s.open # None /\ Same(t, s)
<1>1. CASE t.open # None /\ t.open.kind = kind
  BY <1>1 DEF OpenBlock, Same, Live, Tracks
<1>2. CASE ~(t.open # None /\ t.open.kind = kind)
  <2>1. PICK s : s = CloseOpen(EnsureStarted(t))
    OBVIOUS
  <2>2. Live(s, said) /\ s.started /\ s.open = None /\ Same(t, s)
    <3>1. PICK r : r = EnsureStarted(t) /\ Live(r, said) /\ r.started /\ Same(t, r)
      BY EnsureStartedLive
    <3> QED BY <2>1, <3>1, CloseOpenLive DEF Same
  <2>3. PICK u : u = OpenBlock(t, kind)
    OBVIOUS
  <2>4. s \in Translators /\ s.next \in Nat
    BY <2>2 DEF Live, Translators
  <2>5. PICK block : block = [kind |-> kind, index |-> s.next]
    OBVIOUS
  <2>6. block \in OpenBlocks /\ block.index = s.next /\ block # None
    BY <2>4, <2>5, BridgeAssumptions DEF OpenBlocks
  <2>7. u = [s EXCEPT !.out = @ \o <<Ev("block_start", s.next)>>, !.next = @ + 1,
                      !.emitted = TRUE, !.open = block]
    BY <1>2, <2>1, <2>3, <2>4, <2>5 DEF OpenBlock, Emit, Translators
  <2>8. At(s.out \o <<Ev("block_start", s.next)>>, "block", s.next + 1, said)
    BY <2>2, TellBlockStart DEF Live, Tracks
  <2>9. s.out \o <<Ev("block_start", s.next)>> \in Seq(Events)
    BY <2>8 DEF At
  <2>10. u \in Translators
    <3>1. s.next + 1 \in Nat /\ block \in OpenBlocks \cup {None}
      BY <2>4, <2>6
    <3> QED BY <2>4, <2>7, <2>9, <3>1 DEF Translators
  <2>11. /\ u.started = s.started /\ u.open = block /\ u.next = s.next + 1 /\ u.emitted
         /\ u.finished = s.finished /\ u.error = s.error /\ u.tools = s.tools
         /\ u.usage = s.usage /\ u.out = s.out \o <<Ev("block_start", s.next)>>
    BY <2>4, <2>7 DEF Translators
  <2> QED BY <2>2, <2>3, <2>4, <2>6, <2>8, <2>10, <2>11 DEF Live, Tracks, Same
<1> QED BY <1>1, <1>2

\* emit_text and emit_thinking
LEMMA EmitDeltaLive ==
  ASSUME NEW t, NEW said, Live(t, said), NEW kind \in {"text", "thinking"}
  PROVE  Live(EmitDelta(t, kind), Append(said, kind)) /\ Same(t, EmitDelta(t, kind))
<1>1. PICK s : s = OpenBlock(t, kind) /\ Live(s, said) /\ s.started /\ s.open # None /\ Same(t, s)
  BY OpenBlockLive
<1>2. s \in Translators
  BY <1>1 DEF Live
<1>3. PICK i \in Nat : i = s.open.index
  BY <1>1, <1>2, OpenIsBlock
<1>4. s.next = i + 1 /\ At(s.out, "block", i + 1, said)
  BY <1>1, <1>3 DEF Live, Tracks
<1>5. PICK u : u = EmitDelta(t, kind) /\ u = [s EXCEPT !.out = @ \o <<Ev(kind, i)>>]
  BY <1>1, <1>3 DEF EmitDelta, Emit
<1>6. At(s.out \o <<Ev(kind, i)>>, "block", i + 1, Append(said, kind))
  BY <1>4, TellDelta DEF Spoken
<1>7. s.out \o <<Ev(kind, i)>> \in Seq(Events)
  BY <1>6 DEF At
<1>8. u \in Translators
  BY <1>2, <1>5, <1>7 DEF Translators
<1>9. /\ u.started = s.started /\ u.open = s.open /\ u.next = s.next /\ u.emitted = s.emitted
      /\ u.finished = s.finished /\ u.error = s.error /\ u.tools = s.tools
      /\ u.usage = s.usage /\ u.out = s.out \o <<Ev(kind, i)>>
  BY <1>2, <1>5 DEF Translators
<1> QED BY <1>1, <1>3, <1>4, <1>5, <1>6, <1>8, <1>9 DEF Live, Tracks, Same

\* fail: the open block is closed first, so the client accepts the error.
LEMMA FailLive ==
  ASSUME NEW t, NEW said, Live(t, said)
  PROVE  Failed(Fail(t)) /\ Same(t, Fail(t))
<1>1. PICK s : s = CloseOpen(t) /\ Live(s, said) /\ s.open = None /\ Same(t, s)
  BY CloseOpenLive
<1>2. s \in Translators
  BY <1>1 DEF Live
<1>3. PICK u : u = Fail(t)
  OBVIOUS
<1>4. u = [s EXCEPT !.out = @ \o <<Ev("error", 0)>>, !.error = "failed", !.finished = TRUE]
  BY <1>1, <1>2, <1>3 DEF Fail, Emit, Live, Translators
<1>5. PICK at \in {"new", "message"}, next \in Nat : At(s.out, at, next, said)
  BY <1>1, <1>2 DEF Live, Tracks, Translators
<1>6. At(s.out \o <<Ev("error", 0)>>, "failed", next, said)
  BY <1>5, TellError
<1>7. s.out \o <<Ev("error", 0)>> \in Seq(Events)
  BY <1>6 DEF At
<1>8. u \in Translators
  BY <1>2, <1>4, <1>7 DEF Translators
<1>9. /\ u.finished /\ u.error = "failed" /\ u.tools = s.tools /\ u.usage = s.usage
      /\ u.out = s.out \o <<Ev("error", 0)>>
  BY <1>2, <1>4 DEF Translators
<1>10. Client(u.out).at = "failed"
  BY <1>6, <1>9 DEF At
<1> QED BY <1>1, <1>3, <1>8, <1>9, <1>10 DEF Failed, Same

(***************************************************************************)
(* Blocks in one go                                                        *)
(***************************************************************************)

\* The deltas of a whole block, and what they say.
BlockDeltas == {<<>>, <<"text">>, <<"tool">>, <<"thinking", "signature">>}
Voice(deltas) == IF deltas = <<>> THEN <<>> ELSE <<deltas[1]>>

\* A block in one go is a block to the client.
LEMMA TellBlock ==
  ASSUME NEW out, NEW next, NEW said, At(out, "message", next, said),
         NEW deltas \in BlockDeltas
  PROVE  /\ WholeBlock(next, deltas) \in Seq(Events)
         /\ At(out \o WholeBlock(next, deltas), "message", next + 1, said \o Voice(deltas))
<1> DEFINE middle == [d \in DOMAIN deltas |-> Ev(deltas[d], next)]
           start == <<Ev("block_start", next)>>
           stop == <<Ev("block_stop", next)>>
<1>1. next \in Nat /\ out \in Seq(Events) /\ said \in Seq(Spoken)
  BY DEF At
<1>2. start \in Seq(Events) /\ stop \in Seq(Events)
  BY <1>1, EvType DEF Names
<1>3. At(out \o start, "block", next + 1, said)
  BY TellBlockStart
<1>4. /\ middle \in Seq(Events)
      /\ At((out \o start) \o middle, "block", next + 1, said \o Voice(deltas))
  <2>1. CASE deltas = <<>>
    <3>1. middle = <<>> /\ Voice(deltas) = <<>>
      BY <2>1 DEF Voice
    <3>2. (out \o start) \o <<>> = out \o start /\ said \o <<>> = said
      BY <1>1, <1>3, ConcatEmptySeq DEF At
    <3>3. <<>> \in Seq(Events)
      BY EmptySeq
    <3> HIDE DEF middle
    <3> QED BY <1>3, <3>1, <3>2, <3>3
  <2>2. CASE \E word \in {"text", "tool"} : deltas = <<word>>
    <3>1. PICK word \in {"text", "tool"} : deltas = <<word>>
      BY <2>2
    <3>2. middle = <<Ev(word, next)>>
      BY <3>1
    <3>3. Voice(deltas) = <<word>>
      BY <3>1 DEF Voice
    <3>4. said \o <<word>> = Append(said, word)
      BY <1>1, <3>1, AppendIsConcat DEF Spoken
    <3>5. <<Ev(word, next)>> \in Seq(Events)
      BY <1>1, <3>1, EvType DEF Names
    <3>6. At((out \o start) \o <<Ev(word, next)>>, "block", next + 1, Append(said, word))
      BY <1>1, <1>3, <3>1, TellDelta DEF Spoken
    <3> HIDE DEF middle
    <3> QED BY <3>2, <3>3, <3>4, <3>5, <3>6
  <2>3. CASE deltas = <<"thinking", "signature">>
    <3> DEFINE a == Ev("thinking", next)
               b == Ev("signature", next)
    <3>1. middle = <<a, b>>
      BY <2>3
    <3>2. Voice(deltas) = <<"thinking">>
      BY <2>3 DEF Voice
    <3>3. said \o <<"thinking">> = Append(said, "thinking")
      BY <1>1, AppendIsConcat DEF Spoken
    <3>4. At((out \o start) \o <<a>>, "block", next + 1, Append(said, "thinking"))
      BY <1>1, <1>3, TellDelta DEF Spoken
    <3>5. At(((out \o start) \o <<a>>) \o <<b>>, "block", next + 1, Append(said, "thinking"))
      BY <1>1, <3>4, TellSignature
    <3>6. a \in Events /\ b \in Events
      BY <1>1, EvType DEF Names
    <3>7. out \o start \in Seq(Events)
      BY <1>3 DEF At
    <3> HIDE DEF a, b, start
    <3>8. (out \o start) \o <<a, b>> = ((out \o start) \o <<a>>) \o <<b>>
          /\ <<a, b>> \in Seq(Events)
      BY <3>6, <3>7, Both
    <3> HIDE DEF middle
    <3> QED BY <3>1, <3>2, <3>3, <3>5, <3>8
  <2> QED BY <2>1, <2>2, <2>3 DEF BlockDeltas
<1>5. At(((out \o start) \o middle) \o stop, "message", next + 1, said \o Voice(deltas))
  <2> HIDE DEF middle, start
  <2> QED BY <1>1, <1>4, TellBlockStop
<1>6. WholeBlock(next, deltas) = start \o middle \o stop
  BY DEF WholeBlock
<1> HIDE DEF start, middle, stop
<1>7. /\ out \o (start \o middle \o stop) = ((out \o start) \o middle) \o stop
      /\ start \o middle \o stop \in Seq(Events)
  <2>1. PICK a \in Seq(Events), b \in Seq(Events), c \in Seq(Events) :
          a = start /\ b = middle /\ c = stop
    BY <1>2, <1>4
  <2>2. PICK ab \in Seq(Events) : ab = a \o b
    BY ConcatProperties
  <2>3. out \in Seq(Events)
    BY <1>1
  <2>4. (out \o ab) \o c = out \o (ab \o c)
    BY <2>3, EventsAssociative
  <2>5. ab \o c \in Seq(Events)
    BY ConcatProperties
  <2>6. (out \o a) \o b = out \o (a \o b)
    BY <2>3, EventsAssociative
  <2> QED BY <2>1, <2>2, <2>4, <2>5, <2>6
<1> QED BY <1>5, <1>6, <1>7

\* The events of a block.
LEMMA WholeBlockType ==
  ASSUME NEW index \in Nat, NEW deltas \in BlockDeltas
  PROVE  WholeBlock(index, deltas) \in Seq(Events)
<1> DEFINE middle == [d \in DOMAIN deltas |-> Ev(deltas[d], index)]
<1>1. deltas \in Seq(Names)
  <2>1. \A x \in Names, y \in Names : <<x>> \in Seq(Names) /\ <<x, y>> \in Seq(Names)
    OBVIOUS
  <2>2. "text" \in Names /\ "tool" \in Names /\ "thinking" \in Names /\ "signature" \in Names
    BY DEF Names
  <2>3. <<>> \in Seq(Names)
    BY EmptySeq
  <2> QED BY <2>1, <2>2, <2>3 DEF BlockDeltas
<1>2. PICK m \in Nat : m = Len(deltas) /\ DOMAIN deltas = 1..m
  BY <1>1, LenProperties
<1>3. \A d \in 1..m : deltas[d] \in Names
  BY <1>1, <1>2, ElementOfSeq
<1>4. \A d \in 1..m : Ev(deltas[d], index) \in Events
  BY <1>3, EvType
<1>5. middle \in [1..m -> Events]
  BY <1>2, <1>4
<1> HIDE DEF middle
<1>6. middle \in Seq(Events)
  BY <1>2, <1>5, SeqDef
<1>7. PICK start \in Seq(Events) : start = <<Ev("block_start", index)>>
  BY EvType DEF Names
<1>8. PICK stop \in Seq(Events) : stop = <<Ev("block_stop", index)>>
  BY EvType DEF Names
<1>9. PICK s \in Seq(Events) : s = start \o middle
  BY <1>6, ConcatProperties
<1>10. s \o stop \in Seq(Events)
  BY ConcatProperties
<1>11. WholeBlock(index, deltas) = start \o middle \o stop
  BY <1>7, <1>8 DEF WholeBlock, middle
<1> QED BY <1>9, <1>10, <1>11

\* A row of m blocks from an index on, and what it says.
IsBlocks(seqs, index, ds, m) ==
  /\ DOMAIN seqs = 1..m /\ seqs = [k \in 1..m |-> seqs[k]]
  /\ \A k \in 1..m : ds[k] \in BlockDeltas /\ seqs[k] = WholeBlock(index + (k - 1), ds[k])

Voices(c, ds, m) == \A k \in 1..m : c[k] = c[k - 1] \o Voice(ds[k])

\* The client reads them all.
LEMMA TellBlocks ==
  ASSUME NEW out, NEW next, NEW c, At(out, "message", next, c[0]),
         NEW m \in Nat, NEW ds, NEW seqs, IsBlocks(seqs, next, ds, m), Voices(c, ds, m)
  PROVE  At(out \o FlattenSeq(seqs), "message", next + m, c[m])
<1>1. next \in Nat /\ out \in Seq(Events)
  BY DEF At
<1>2. \A k \in 1..m : seqs[k] \in Seq(Events)
  <2> SUFFICES ASSUME NEW k \in 1..m PROVE seqs[k] \in Seq(Events)
    OBVIOUS
  <2>1. PICK i \in Nat : i = next + (k - 1)
    BY <1>1
  <2> QED BY <2>1, WholeBlockType DEF IsBlocks
<1>3. seqs \in Seq(Seq(Events)) /\ Len(seqs) = m
  <2>1. seqs \in [1..m -> Seq(Events)]
    BY <1>2 DEF IsBlocks
  <2> QED BY <2>1, SeqDef
<1>4. PICK g : /\ g \in [0..m -> Seq(Events)]
               /\ FlattenRun(g, seqs)
               /\ FlattenSeq(seqs) = g[m]
  BY <1>3, FlattenDef
<1> DEFINE T == {k \in Nat : k <= m => At(out \o g[k], "message", next + k, c[k])}
<1>5. 0 \in T
  <2>1. out \o g[0] = out
    BY <1>1, <1>4, ConcatEmptySeq DEF FlattenRun
  <2>2. next + 0 = next
    BY <1>1
  <2> QED BY <2>1, <2>2
<1>6. ASSUME NEW k \in Nat, k \in T PROVE k + 1 \in T
  <2> SUFFICES ASSUME k + 1 <= m
               PROVE  At(out \o g[k + 1], "message", next + (k + 1), c[k + 1])
    OBVIOUS
  <2>1. At(out \o g[k], "message", next + k, c[k])
    BY <1>6
  <2>2. k + 1 \in 1..m /\ (k + 1) - 1 = k /\ k \in 0..m /\ next + (k + 1) = (next + k) + 1
    BY <1>1
  <2>3. seqs[k + 1] = WholeBlock(next + k, ds[k + 1]) /\ ds[k + 1] \in BlockDeltas
    BY <2>2 DEF IsBlocks
  <2>4. At((out \o g[k]) \o seqs[k + 1], "message", (next + k) + 1, c[k] \o Voice(ds[k + 1]))
    BY <2>1, <2>3, TellBlock
  <2>5. g[k + 1] = g[k] \o seqs[k + 1]
    BY <1>3, <1>4, <2>2 DEF FlattenRun
  <2>6. c[k + 1] = c[k] \o Voice(ds[k + 1])
    BY <2>2 DEF Voices
  <2>7. (out \o g[k]) \o seqs[k + 1] = out \o (g[k] \o seqs[k + 1])
    <3>1. g[k] \in Seq(Events) /\ seqs[k + 1] \in Seq(Events)
      BY <1>2, <1>4, <2>2
    <3>2. PICK a \in Seq(Events), b \in Seq(Events) : a = g[k] /\ b = seqs[k + 1]
      BY <3>1
    <3>3. (out \o a) \o b = out \o (a \o b)
      BY <1>1, ConcatAssociative
    <3> QED BY <3>2, <3>3
  <2> QED BY <2>2, <2>4, <2>5, <2>6, <2>7
<1> HIDE DEF T
<1>7. m \in T
  BY <1>5, <1>6, NatSetInduction
<1> QED BY <1>4, <1>7 DEF T

(***************************************************************************)
(* The end of a stream                                                     *)
(***************************************************************************)

\* The tool calls before the first that cannot be translated.
LEMMA GoodTools ==
  ASSUME NEW tools \in ToolMaps
  PROVE  LET bad == Broken(tools)
             good == Cardinality({k \in DOMAIN tools : \A j \in bad : k < j})
         IN good \in Nat /\ (bad = {} => good = Cardinality(DOMAIN tools))
<1>1. PICK G : G = {k \in DOMAIN tools : \A j \in Broken(tools) : k < j}
  OBVIOUS
<1>2. IsFiniteSet(DOMAIN tools) /\ G \in SUBSET (DOMAIN tools)
  BY <1>1, FiniteCalls
<1>3. IsFiniteSet(G)
  BY <1>2, FS_Subset
<1>4. Cardinality(G) \in Nat
  BY <1>3, FS_CardinalityType
<1>5. Broken(tools) = {} => G = DOMAIN tools
  BY <1>1
<1> QED BY <1>1, <1>4, <1>5

\* So many tool calls, as the client puts them together.
ToolCalls(n) == [i \in 1..n |-> "tool"]

\* The tool calls that finalize tells are one by one those that came.
LEMMA ToolCallsType ==
  ASSUME NEW n \in Nat
  PROVE  /\ ToolCalls(n) \in Seq({"tool"}) /\ Len(ToolCalls(n)) = n
         /\ ToolCalls(n + 1) = ToolCalls(n) \o <<"tool">>
         /\ ToolCalls(0) = <<>>
<1>1. \A k \in Nat : ToolCalls(k) \in Seq({"tool"}) /\ Len(ToolCalls(k)) = k
  <2> SUFFICES ASSUME NEW k \in Nat PROVE ToolCalls(k) \in Seq({"tool"}) /\ Len(ToolCalls(k)) = k
    OBVIOUS
  <2>1. ToolCalls(k) \in [1..k -> {"tool"}]
    BY DEF ToolCalls
  <2>2. ToolCalls(k) \in Seq({"tool"})
    BY <2>1, SeqDef
  <2> QED BY <2>2 DEF ToolCalls
<1>2. ToolCalls(n + 1) = Append(ToolCalls(n), "tool")
  <2>1. PICK u \in Seq({"tool"}) : u = Append(ToolCalls(n), "tool") /\ Len(u) = n + 1
    BY <1>1, AppendProperties
  <2>2. PICK v \in Seq({"tool"}) : v = ToolCalls(n + 1) /\ Len(v) = n + 1
    BY <1>1
  <2>3. \A i \in 1..(n + 1) : u[i] \in {"tool"} /\ v[i] \in {"tool"}
    BY <2>1, <2>2, ElementOfSeq
  <2>4. u = v
    BY <2>1, <2>2, <2>3, SeqEqual
  <2> QED BY <2>1, <2>2, <2>4
<1>3. Append(ToolCalls(n), "tool") = ToolCalls(n) \o <<"tool">>
  BY <1>1, AppendIsConcat
<1>4. ToolCalls(0) = <<>>
  BY <1>1, EmptySeq
<1> QED BY <1>1, <1>2, <1>3, <1>4

\* The tool calls become blocks of their own.
LEMMA CallsLive ==
  ASSUME NEW s, NEW said, Live(s, said), s.started, s.open = None, NEW good \in Nat
  PROVE  LET blocks == FlattenSeq([k \in 1..good |-> WholeBlock(s.next + k - 1, <<"tool">>)])
             called == [Emit(s, blocks) EXCEPT !.next = @ + good, !.tools = <<>>,
                                               !.emitted = @ \/ good > 0]
         IN /\ Live(called, said \o ToolCalls(good)) /\ called.started /\ called.open = None
            /\ called.usage = s.usage
<1>1. s \in Translators /\ s.next \in Nat /\ At(s.out, "message", s.next, said)
  BY DEF Live, Tracks, Translators
<1>2. PICK seqs : seqs = [k \in 1..good |-> WholeBlock(s.next + k - 1, <<"tool">>)]
  OBVIOUS
<1>3. PICK ds : ds = [k \in 1..good |-> <<"tool">>]
  OBVIOUS
<1>4. PICK c : c = [k \in 0..good |-> said \o ToolCalls(k)]
  OBVIOUS
<1>5. IsBlocks(seqs, s.next, ds, good)
  <2>1. ASSUME NEW k \in 1..good
        PROVE  seqs[k] = WholeBlock(s.next + (k - 1), ds[k]) /\ ds[k] \in BlockDeltas
    <3>1. s.next + k - 1 = s.next + (k - 1)
      BY <1>1
    <3>2. seqs[k] = WholeBlock(s.next + k - 1, <<"tool">>) /\ ds[k] = <<"tool">>
      BY <1>2, <1>3
    <3> QED BY <3>1, <3>2 DEF BlockDeltas
  <2>2. DOMAIN seqs = 1..good /\ seqs = [k \in 1..good |-> seqs[k]]
    BY <1>2
  <2> QED BY <2>1, <2>2 DEF IsBlocks
<1>6. Voices(c, ds, good)
  <2> SUFFICES ASSUME NEW k \in 1..good PROVE c[k] = c[k - 1] \o Voice(ds[k])
    BY DEF Voices
  <2>1. c[k] = said \o ToolCalls(k) /\ c[k - 1] = said \o ToolCalls(k - 1)
    BY <1>4
  <2>2. Voice(ds[k]) = <<"tool">>
    BY <1>3 DEF Voice
  <2>3. k - 1 \in Nat /\ (k - 1) + 1 = k
    OBVIOUS
  <2>4. ToolCalls(k) = ToolCalls(k - 1) \o <<"tool">> /\ ToolCalls(k - 1) \in Seq({"tool"})
    BY <2>3, ToolCallsType
  <2>5. PICK a \in Seq(Spoken), b \in Seq(Spoken) : a = ToolCalls(k - 1) /\ b = <<"tool">>
    <3>1. {"tool"} \subseteq Spoken /\ <<"tool">> \in Seq({"tool"})
      BY DEF Spoken
    <3> QED BY <2>4, <3>1, SeqMonotonic
  <2>6. said \in Seq(Spoken)
    BY <1>1 DEF At
  <2>7. (said \o a) \o b = said \o (a \o b)
    BY <2>6, ConcatAssociative
  <2> QED BY <2>1, <2>2, <2>4, <2>5, <2>7
<1>7. c[0] = said /\ c[good] = said \o ToolCalls(good)
  <2>1. ToolCalls(0) = <<>>
    BY ToolCallsType
  <2>3. 0 \in 0..good /\ good \in 0..good
    OBVIOUS
  <2>4. \A k \in 0..good : c[k] = said \o ToolCalls(k)
    BY <1>4
  <2>2. said \o <<>> = said
    BY <1>1, ConcatEmptySeq DEF At
  <2> QED BY <2>1, <2>2, <2>3, <2>4
<1>8. At(s.out, "message", s.next, c[0])
  BY <1>1, <1>7
<1>9. At(s.out \o FlattenSeq(seqs), "message", s.next + good, said \o ToolCalls(good))
  BY <1>5, <1>6, <1>7, <1>8, TellBlocks
<1>10. PICK out \in Seq(Events) : out = s.out \o FlattenSeq(seqs)
  BY <1>9 DEF At
<1>11. PICK called : called = [s EXCEPT !.out = out, !.next = @ + good, !.tools = <<>>,
                                       !.emitted = @ \/ good > 0]
  OBVIOUS
<1>12. <<>> \in ToolMaps /\ s.next + good \in Nat
  BY <1>1, NoCalls
<1>13. called \in Translators
  BY <1>1, <1>11, <1>12 DEF Translators
<1>14. /\ called.started = s.started /\ called.open = s.open /\ called.next = s.next + good
       /\ called.emitted = (s.emitted \/ good > 0) /\ called.finished = s.finished
       /\ called.error = s.error /\ called.usage = s.usage /\ called.out = out
  BY <1>1, <1>11 DEF Translators
<1>15. called.emitted <=> called.next > 0
  <2>1. s.emitted <=> s.next > 0
    BY DEF Live
  <2>2. (s.next > 0 \/ good > 0) <=> s.next + good > 0
    BY <1>1
  <2> QED BY <1>14, <2>1, <2>2
<1>16. Live(called, said \o ToolCalls(good))
  BY <1>9, <1>10, <1>13, <1>14, <1>15 DEF Live, Tracks
<1>17. called = [Emit(s, FlattenSeq(seqs)) EXCEPT !.next = @ + good, !.tools = <<>>,
                                                  !.emitted = @ \/ good > 0]
  BY <1>1, <1>10, <1>11 DEF Emit, Translators
<1> QED BY <1>2, <1>14, <1>16, <1>17

\* A message without a block gets an empty one.
LEMMA FilledLive ==
  ASSUME NEW s, NEW said, Live(s, said), s.started, s.open = None
  PROVE  LET filled == IF s.emitted THEN s
                       ELSE [Emit(s, WholeBlock(s.next, <<>>)) EXCEPT
                               !.next = @ + 1, !.emitted = TRUE]
         IN /\ Live(filled, said) /\ filled.started /\ filled.open = None
            /\ filled.next > 0 /\ filled.usage = s.usage
<1>1. s \in Translators /\ s.next \in Nat /\ At(s.out, "message", s.next, said)
  BY DEF Live, Tracks, Translators
<1>2. CASE s.emitted
  BY <1>2 DEF Live
<1>3. CASE ~s.emitted
  <2>1. At(s.out \o WholeBlock(s.next, <<>>), "message", s.next + 1, said)
    <3>1. <<>> \in BlockDeltas /\ Voice(<<>>) = <<>>
      BY DEF BlockDeltas, Voice
    <3>2. said \o <<>> = said
      BY <1>1, ConcatEmptySeq DEF At
    <3> QED BY <1>1, <3>1, <3>2, TellBlock
  <2>2. PICK out \in Seq(Events) : out = s.out \o WholeBlock(s.next, <<>>)
    BY <2>1 DEF At
  <2>3. PICK filled : filled = [s EXCEPT !.out = out, !.next = @ + 1, !.emitted = TRUE]
    OBVIOUS
  <2>4. filled \in Translators
    <3>1. s.next + 1 \in Nat
      BY <1>1
    <3> QED BY <1>1, <2>3, <3>1 DEF Translators
  <2>5. /\ filled.started = s.started /\ filled.open = s.open /\ filled.next = s.next + 1
        /\ filled.emitted /\ filled.finished = s.finished
        /\ filled.error = s.error /\ filled.usage = s.usage /\ filled.out = out
    BY <1>1, <2>3 DEF Translators
  <2>6. filled.next > 0
    BY <1>1, <2>5
  <2>7. Live(filled, said)
    BY <2>1, <2>2, <2>4, <2>5, <2>6 DEF Live, Tracks
  <2>8. filled = [Emit(s, WholeBlock(s.next, <<>>)) EXCEPT !.next = @ + 1, !.emitted = TRUE]
    BY <1>1, <2>2, <2>3 DEF Emit, Translators
  <2> QED BY <1>3, <2>5, <2>6, <2>7, <2>8
<1> QED BY <1>2, <1>3

\* finalize: the message is complete, or a tool call cannot be translated.
LEMMA FinalizeLive ==
  ASSUME NEW t, NEW said, Live(t, said)
  PROVE  /\ Finalize(t).usage = t.usage
         /\ IF Broken(t.tools) = {}
            THEN Stopped(Finalize(t), said \o ToolCalls(Cardinality(DOMAIN t.tools)))
            ELSE Failed(Finalize(t))
<1>1. PICK s : s = CloseOpen(EnsureStarted(t))
  OBVIOUS
<1>2. Live(s, said) /\ s.started /\ s.open = None /\ Same(t, s)
  <2>1. PICK r : r = EnsureStarted(t) /\ Live(r, said) /\ r.started /\ Same(t, r)
    BY EnsureStartedLive
  <2> QED BY <1>1, <2>1, CloseOpenLive DEF Same
<1>3. s.tools \in ToolMaps /\ s.tools = t.tools /\ s.usage = t.usage
  BY <1>2 DEF Live, Translators, Same
<1>4. PICK bad : bad = Broken(s.tools)
  OBVIOUS
<1>5. PICK good : good = Cardinality({k \in DOMAIN s.tools : \A j \in bad : k < j})
  OBVIOUS
<1>6. good \in Nat /\ (bad = {} => good = Cardinality(DOMAIN t.tools))
  BY <1>3, <1>4, <1>5, GoodTools
<1>7. PICK called :
        called = [Emit(s, FlattenSeq([k \in 1..good |-> WholeBlock(s.next + k - 1, <<"tool">>)]))
                    EXCEPT !.next = @ + good, !.tools = <<>>, !.emitted = @ \/ good > 0]
  OBVIOUS
<1>8. Live(called, said \o ToolCalls(good)) /\ called.started /\ called.open = None
      /\ called.usage = s.usage
  BY <1>2, <1>6, <1>7, CallsLive
<1>9. PICK filled :
        filled = IF called.emitted THEN called
                 ELSE [Emit(called, WholeBlock(called.next, <<>>)) EXCEPT
                         !.next = @ + 1, !.emitted = TRUE]
  OBVIOUS
<1>10. Live(filled, said \o ToolCalls(good)) /\ filled.started /\ filled.open = None
       /\ filled.next > 0 /\ filled.usage = s.usage
  BY <1>8, <1>9, FilledLive
<1>11. Finalize(t) =
         IF bad # {} THEN Fail(called)
         ELSE [Emit(filled, <<Ev("message_delta", 0), Ev("message_stop", 0)>>) EXCEPT
                 !.finished = TRUE]
  BY <1>1, <1>4, <1>5, <1>7, <1>9 DEF Finalize
<1>12. CASE bad # {}
  BY <1>3, <1>4, <1>8, <1>11, <1>12, FailLive DEF Same
<1>13. CASE bad = {}
  <2>1. filled \in Translators /\ At(filled.out, "message", filled.next, said \o ToolCalls(good))
    BY <1>10 DEF Live, Tracks
  <2>2. PICK out : out = filled.out \o <<Ev("message_delta", 0), Ev("message_stop", 0)>>
    OBVIOUS
  <2>3. At(out, "stopped", filled.next, said \o ToolCalls(good))
    BY <1>10, <2>1, <2>2, TellEnd
  <2>4. PICK u : u = Finalize(t) /\ u = [filled EXCEPT !.out = out, !.finished = TRUE]
    BY <1>11, <1>13, <2>1, <2>2 DEF Emit, Translators
  <2>5. u \in Translators
    BY <2>1, <2>3, <2>4 DEF Translators, At
  <2>6. u.finished /\ u.error = filled.error /\ u.out = out /\ u.usage = filled.usage
    BY <2>1, <2>4 DEF Translators
  <2>7. filled.error = None
    BY <1>10 DEF Live
  <2>8. Stopped(u, said \o ToolCalls(good))
    BY <2>3, <2>5, <2>6, <2>7 DEF Stopped, At
  <2> QED BY <1>3, <1>4, <1>6, <1>10, <1>13, <2>4, <2>6, <2>8
<1> QED BY <1>12, <1>13

(***************************************************************************)
(* What the upstream said                                                  *)
(***************************************************************************)

WordKinds == {"text", "thinking", "huge"}
Word(line) == IF line = "huge" THEN "text" ELSE line
Spell(words) == [i \in DOMAIN words |-> IF words[i] = "huge" THEN "text" ELSE words[i]]

\* Text and thinking, as they came.
Words(lines) == Spell(Only(lines, WordKinds))

HasDone(lines) == \E i \in 1..Len(lines) : lines[i] = "done"

\* Lines with content are lines.
LEMMA WordKindsLines == LineKinds \cap WordKinds = WordKinds
BY DEF LineKinds, PlainLines, WordKinds

\* Each word is spelt as one delta.
LEMMA SpellType ==
  ASSUME NEW words \in Seq(WordKinds)
  PROVE  /\ Spell(words) \in Seq(Spoken) /\ Len(Spell(words)) = Len(words)
         /\ \A i \in 1..Len(words) : Spell(words)[i] = Word(words[i])
<1>1. PICK m \in Nat : m = Len(words) /\ DOMAIN words = 1..m
  BY LenProperties
<1>2. \A i \in 1..m : words[i] \in WordKinds
  BY <1>1, ElementOfSeq
<1>3. \A i \in 1..m : Word(words[i]) \in Spoken
  BY <1>2 DEF Word, WordKinds, Spoken
<1>4. Spell(words) = [i \in 1..m |-> Word(words[i])]
  BY <1>1 DEF Spell, Word
<1>5. Spell(words) \in [1..m -> Spoken]
  BY <1>3, <1>4
<1>6. Spell(words) \in Seq(Spoken) /\ Len(Spell(words)) = m
  <2>1. PICK s \in [1..m -> Spoken] : s = Spell(words)
    BY <1>5
  <2> QED BY <2>1, SeqDef
<1> QED BY <1>1, <1>4, <1>6

\* Spelling goes word by word.
LEMMA SpellAppend ==
  ASSUME NEW words \in Seq(WordKinds), NEW word \in WordKinds
  PROVE  Spell(Append(words, word)) = Append(Spell(words), Word(word))
<1>1. PICK m \in Nat : m = Len(words)
  BY LenProperties
<1>2. PICK u \in Seq(WordKinds) :
        /\ u = Append(words, word) /\ Len(u) = m + 1 /\ u[m + 1] = word
        /\ \A i \in 1..m : u[i] = words[i]
  <2>1. PICK u \in Seq(WordKinds) : u = Append(words, word)
    BY AppendProperties
  <2>2. /\ Len(u) = m + 1 /\ u[m + 1] = word
        /\ \A i \in 1..m : u[i] = words[i]
    BY <1>1, <2>1, AppendProperties
  <2> QED BY <2>1, <2>2
<1>3. Word(word) \in Spoken
  BY DEF Word, WordKinds, Spoken
<1>4. PICK a \in Seq(Spoken) : a = Spell(u) /\ Len(a) = m + 1
                              /\ \A i \in 1..(m + 1) : a[i] = Word(u[i])
  BY <1>2, SpellType
<1>5. PICK b \in Seq(Spoken) : b = Spell(words) /\ Len(b) = m
                              /\ \A i \in 1..m : b[i] = Word(words[i])
  BY <1>1, SpellType
<1>6. PICK c \in Seq(Spoken) :
        /\ c = Append(b, Word(word)) /\ Len(c) = m + 1 /\ c[m + 1] = Word(word)
        /\ \A i \in 1..m : c[i] = b[i]
  <2>1. PICK c \in Seq(Spoken) : c = Append(b, Word(word))
    BY <1>3, AppendProperties
  <2>2. /\ Len(c) = m + 1 /\ c[m + 1] = Word(word)
        /\ \A i \in 1..m : c[i] = b[i]
    BY <1>3, <1>5, <2>1, AppendProperties
  <2> QED BY <2>1, <2>2
<1>7. \A i \in 1..(m + 1) : a[i] = c[i]
  <2> SUFFICES ASSUME NEW i \in 1..(m + 1) PROVE a[i] = c[i]
    OBVIOUS
  <2>1. CASE i = m + 1
    BY <1>2, <1>4, <1>6, <2>1
  <2>2. CASE i \in 1..m
    BY <1>2, <1>4, <1>5, <1>6, <2>2
  <2> QED BY <2>1, <2>2
<1>8. a = c
  BY <1>4, <1>6, <1>7, SeqEqual
<1> QED BY <1>2, <1>4, <1>5, <1>6, <1>8

\* A line adds its word, if it has one.
LEMMA WordsAppend ==
  ASSUME NEW lines \in Seq(LineKinds), NEW line \in LineKinds
  PROVE  /\ Words(lines) \in Seq(Spoken)
         /\ Words(Append(lines, line)) =
              IF line \in WordKinds THEN Append(Words(lines), Word(line)) ELSE Words(lines)
<1>1. PICK u \in Seq(WordKinds) : u = Only(lines, WordKinds)
  BY OnlyType, WordKindsLines
<1>2. Only(Append(lines, line), WordKinds) =
        IF line \in WordKinds THEN Append(u, line) ELSE u
  BY <1>1, OnlyAppend
<1>3. CASE line \in WordKinds
  BY <1>1, <1>2, <1>3, SpellType, SpellAppend DEF Words
<1>4. CASE line \notin WordKinds
  BY <1>1, <1>2, <1>4, SpellType DEF Words
<1> QED BY <1>3, <1>4

\* No lines, no words.
LEMMA WordsEmpty == Words(<<>>) = <<>>
<1>1. <<>> \in Seq(WordKinds) /\ Len(<<>>) = 0
  BY EmptySeq
<1>2. PICK s \in Seq(Spoken) : s = Spell(<<>>) /\ Len(s) = 0
  BY <1>1, SpellType
<1>3. s = <<>>
  BY <1>2, EmptySeq
<1> QED BY <1>2, <1>3, OnlyEmpty DEF Words

\* A line adds the index of its piece, if it has one.
LEMMA IndexesAppend ==
  ASSUME NEW lines \in Seq(LineKinds), NEW line \in LineKinds
  PROVE  Indexes(Append(lines, line)) =
           Indexes(lines) \cup (IF line \in ToolLines THEN {PieceOf[line].index} ELSE {})
<1>1. PICK m \in Nat : m = Len(lines) /\ DOMAIN lines = 1..m
  BY LenProperties
<1>2. PICK u \in Seq(LineKinds) : u = Append(lines, line)
  BY AppendProperties
<1>3. /\ DOMAIN u = 1..(m + 1) /\ u[m + 1] = line
      /\ \A i \in 1..m : u[i] = lines[i]
  BY <1>1, <1>2, AppendProperties, LenProperties
<1>4. \A x : x \in Indexes(u) <=> x \in Indexes(lines)
               \/ (line \in ToolLines /\ x = PieceOf[line].index)
  <2> SUFFICES ASSUME NEW x
               PROVE  x \in Indexes(u) <=> x \in Indexes(lines)
                        \/ (line \in ToolLines /\ x = PieceOf[line].index)
    OBVIOUS
  <2>1. x \in Indexes(lines) <=>
          \E i \in 1..m : lines[i] \in ToolLines /\ x = PieceOf[lines[i]].index
    BY <1>1 DEF Indexes
  <2>2. x \in Indexes(u) <=>
          \E i \in 1..(m + 1) : u[i] \in ToolLines /\ x = PieceOf[u[i]].index
    BY <1>3 DEF Indexes
  <2>3. ASSUME NEW i \in 1..(m + 1) PROVE i \in 1..m \/ i = m + 1
    OBVIOUS
  <2>4. 1..m \subseteq 1..(m + 1) /\ m + 1 \in 1..(m + 1)
    OBVIOUS
  <2> QED BY <1>3, <2>1, <2>2, <2>3, <2>4
<1> QED BY <1>2, <1>4

\* No lines, no calls.
LEMMA IndexesEmpty == Indexes(<<>>) = {}
<1>1. DOMAIN <<>> = {}
  BY NoCalls
<1> QED BY <1>1 DEF Indexes

\* The tool calls of these lines.
CallsOf(lines) == ToolCalls(Cardinality(Indexes(lines)))

\* The place of the first [DONE].
LEMMA FirstDone ==
  ASSUME NEW lines \in Seq(LineKinds)
  PROVE  LET end == SelectInSeq(lines, LAMBDA l : l = "done")
         IN /\ ~HasDone(lines) => end = 0
            /\ HasDone(lines) => /\ end \in 1..Len(lines) /\ lines[end] = "done"
                                 /\ \A i \in 1..(end - 1) : lines[i] # "done"
<1> DEFINE I == {i \in 1..Len(lines) : lines[i] = "done"}
           end == SelectInSeq(lines, LAMBDA l : l = "done")
<1>1. Len(lines) \in Nat
  BY LenProperties
<1>2. end = IF I # {} THEN Min(I) ELSE 0
  BY DEF SelectInSeq
<1>3. HasDone(lines) <=> I # {}
  BY DEF HasDone
<1>4. I # {} => Min(I) \in I /\ \A n \in I : Min(I) <= n
  <2> SUFFICES ASSUME I # {} PROVE Min(I) \in I /\ \A n \in I : Min(I) <= n
    OBVIOUS
  <2>1. I \in SUBSET Nat
    BY <1>1
  <2> HIDE DEF I
  <2>2. \E m \in I : \A n \in I : m <= n
    BY <2>1, LeastNumber
  <2> QED BY <2>2 DEF Min
<1> HIDE DEF end
<1>5. CASE I = {}
  BY <1>2, <1>3, <1>5 DEF end
<1>6. CASE I # {}
  <2>1. end \in I /\ \A n \in I : end <= n
    <3> HIDE DEF I
    <3> QED BY <1>2, <1>4, <1>6
  <2>2. end \in 1..Len(lines) /\ lines[end] = "done" /\ \A i \in 1..(end - 1) : lines[i] # "done"
    BY <1>1, <2>1
  <2> QED BY <1>3, <1>6, <2>2 DEF end
<1> QED BY <1>5, <1>6

\* Before [DONE] it is everything.
LEMMA SaidBefore ==
  ASSUME NEW lines \in Seq(LineKinds), ~HasDone(lines)
  PROVE  Said(lines) = Words(lines) \o CallsOf(lines)
<1>1. PICK end : end = SelectInSeq(lines, LAMBDA l : l = "done") /\ end = 0
  BY FirstDone
<1> QED BY <1>1 DEF Said, Words, Spell, WordKinds, CallsOf, ToolCalls

\* What is said up to some place.
SaidUpto(lines, end) ==
  Words(SubSeq(lines, 1, end)) \o CallsOf(SubSeq(lines, 1, end))

\* What is said ends at the first [DONE].
LEMMA SaidIsUpto ==
  ASSUME NEW lines \in Seq(LineKinds), NEW end \in 1..Len(lines), lines[end] = "done",
         \A i \in 1..(end - 1) : lines[i] # "done"
  PROVE  Said(lines) = SaidUpto(lines, end)
<1>1. PICK n : n = SelectInSeq(lines, LAMBDA l : l = "done")
  OBVIOUS
<1>2. HasDone(lines)
  BY DEF HasDone
<1>3. /\ n \in 1..Len(lines) /\ lines[n] = "done"
      /\ \A i \in 1..(n - 1) : lines[i] # "done"
  BY <1>1, <1>2, FirstDone
<1>4. Len(lines) \in Nat
  BY LenProperties
<1>5. n = end
  BY <1>3, <1>4
<1>6. n # 0
  BY <1>3
<1> QED BY <1>1, <1>5, <1>6 DEF Said, SaidUpto, Words, Spell, WordKinds, CallsOf, ToolCalls

\* [DONE] adds nothing ...
LEMMA SaidDone ==
  ASSUME NEW lines \in Seq(LineKinds), ~HasDone(lines)
  PROVE  /\ Said(Append(lines, "done")) = Words(lines) \o CallsOf(lines)
         /\ HasDone(Append(lines, "done"))
<1>1. "done" \in LineKinds /\ "done" \notin WordKinds /\ "done" \notin ToolLines
  BY BridgeAssumptions DEF LineKinds, PlainLines, WordKinds
<1>2. PICK m \in Nat : m = Len(lines)
  BY LenProperties
<1>3. PICK u \in Seq(LineKinds) : u = Append(lines, "done")
  BY <1>1, AppendProperties
<1>4. Len(u) = m + 1 /\ u[m + 1] = "done" /\ \A i \in 1..m : u[i] = lines[i]
  BY <1>1, <1>2, <1>3, AppendProperties
<1>5. (m + 1) - 1 = m /\ m + 1 \in 1..(m + 1)
  OBVIOUS
<1>6. \A i \in 1..((m + 1) - 1) : u[i] # "done"
  BY <1>2, <1>4, <1>5 DEF HasDone
<1>7. Said(u) = SaidUpto(u, m + 1)
  BY <1>4, <1>5, <1>6, SaidIsUpto
<1>8. SubSeq(u, 1, m + 1) = u
  BY <1>4, SubSeqFull
<1>9. Words(u) = Words(lines)
  BY <1>1, <1>3, WordsAppend
<1>10. CallsOf(u) = CallsOf(lines)
  BY <1>1, <1>3, IndexesAppend DEF CallsOf
<1>11. HasDone(u)
  BY <1>4, <1>5 DEF HasDone
<1> QED BY <1>3, <1>7, <1>8, <1>9, <1>10, <1>11 DEF SaidUpto

\* ... and nothing is added after it.
LEMMA SaidAfter ==
  ASSUME NEW lines \in Seq(LineKinds), HasDone(lines), NEW line \in LineKinds
  PROVE  Said(Append(lines, line)) = Said(lines) /\ HasDone(Append(lines, line))
<1>1. PICK m \in Nat : m = Len(lines)
  BY LenProperties
<1>2. PICK end \in 1..m : lines[end] = "done" /\ \A i \in 1..(end - 1) : lines[i] # "done"
  <2>1. PICK n : n = SelectInSeq(lines, LAMBDA l : l = "done")
    OBVIOUS
  <2> QED BY <1>1, <2>1, FirstDone
<1>3. PICK u \in Seq(LineKinds) : u = Append(lines, line)
  BY AppendProperties
<1>4. Len(u) = m + 1 /\ \A i \in 1..m : u[i] = lines[i]
  BY <1>1, <1>3, AppendProperties
<1>5. end \in 1..(m + 1) /\ u[end] = "done" /\ \A i \in 1..(end - 1) : u[i] # "done"
  BY <1>2, <1>4
<1>6. Said(lines) = SaidUpto(lines, end)
  BY <1>1, <1>2, SaidIsUpto
<1>7. Said(u) = SaidUpto(u, end)
  BY <1>4, <1>5, SaidIsUpto
<1>8. SubSeq(u, 1, end) = SubSeq(lines, 1, end)
  <2>1. PICK s \in Seq(LineKinds) : s = <<line>>
    <3>1. <<line>> \in Seq(LineKinds)
      OBVIOUS
    <3> QED BY <3>1
  <2>2. u = lines \o s
    BY <1>3, <2>1, AppendIsConcat
  <2>3. 1 \in 1..Len(lines) /\ end \in 1..Len(lines)
    BY <1>1, <1>2
  <2> QED BY <2>2, <2>3, SubSeqOfConcat1
<1>9. HasDone(u)
  BY <1>4, <1>5 DEF HasDone
<1> QED BY <1>3, <1>6, <1>7, <1>8, <1>9 DEF SaidUpto

(***************************************************************************)
(* The lines                                                               *)
(***************************************************************************)

\* A translator that has read these lines: it goes on, it failed, or it stopped
\* at [DONE] with all that was said before.
Hears(t, lines) ==
  /\ Live(t, Words(lines)) /\ ~HasDone(lines)
  /\ DOMAIN t.tools = Indexes(lines)

Heard(t, lines) ==
  /\ lines \in Seq(LineKinds) /\ t \in Translators
  /\ \/ Hears(t, lines)
     \/ Failed(t)
     \/ Stopped(t, Said(lines)) /\ HasDone(lines)

\* A translator that has read all there was.
Over(t, lines) ==
  /\ t \in Translators
  /\ Failed(t) \/ Stopped(t, Said(lines))

\* A new translator has heard nothing.
LEMMA NewHeard == Heard(NewTranslator, <<>>)
<1>1. <<>> \in Seq(LineKinds) /\ Len(<<>>) = 0
  BY EmptySeq
<1>2. ~HasDone(<<>>)
  BY <1>1 DEF HasDone
<1>3. DOMAIN NewTranslator.tools = Indexes(<<>>)
  BY NewLive, NoCalls, IndexesEmpty
<1> QED BY <1>1, <1>2, <1>3, NewLive, WordsEmpty DEF Heard, Hears, Live

\* Lines that were there are there.
LEMMA AppendKeeps ==
  ASSUME NEW lines \in Seq(LineKinds), NEW line \in LineKinds
  PROVE  /\ Append(lines, line) \in Seq(LineKinds)
         /\ HasDone(Append(lines, line)) => HasDone(lines) \/ line = "done"
<1>1. PICK m \in Nat : m = Len(lines)
  BY LenProperties
<1>2. PICK u \in Seq(LineKinds) : u = Append(lines, line)
  BY AppendProperties
<1>3. Len(u) = m + 1 /\ u[m + 1] = line /\ \A i \in 1..m : u[i] = lines[i]
  BY <1>1, <1>2, AppendProperties
<1>4. HasDone(u) => HasDone(lines) \/ line = "done"
  BY <1>1, <1>3 DEF HasDone
<1> QED BY <1>2, <1>4

\* finalize, for a translator that has read these lines.
LEMMA FinalizeHears ==
  ASSUME NEW t, NEW lines \in Seq(LineKinds), Hears(t, lines)
  PROVE  \/ Failed(Finalize(t))
         \/ Stopped(Finalize(t), Words(lines) \o CallsOf(lines))
BY FinalizeLive DEF Hears, CallsOf

\* tool_delta and legacy_tool_delta: one of the calls changes, or there is one more.
LEMMA ToolDeltaType ==
  ASSUME NEW t \in Translators, NEW line \in ToolLines
  PROVE  \E tools \in ToolMaps :
           /\ ToolDelta(t, line) = [t EXCEPT !.tools = tools]
           /\ DOMAIN tools = DOMAIN t.tools \cup {PieceOf[line].index}
<1>1. PICK call \in Pieces : call = PieceOf[line]
  BY BridgeAssumptions
<1>2. PICK old : old = IF call.index \in DOMAIN t.tools THEN t.tools[call.index]
                       ELSE [name |-> FALSE, args |-> ""]
  OBVIOUS
<1>3. PICK new : new = [name |-> old.name \/ call.name, args |-> Joined(old.args, call.args)]
  OBVIOUS
<1>4. PICK K : K = DOMAIN t.tools \cup {call.index}
  OBVIOUS
<1>5. PICK tools : tools = [k \in K |-> IF k = call.index THEN new ELSE t.tools[k]]
  OBVIOUS
<1>6. /\ IsFiniteSet(DOMAIN t.tools) /\ DOMAIN t.tools \in SUBSET Nat
      /\ t.tools \in [DOMAIN t.tools -> CallStates]
  <2>1. t.tools \in ToolMaps
    BY DEF Translators
  <2> QED BY <2>1, FiniteCalls
<1>7. old \in CallStates
  BY <1>2, <1>6 DEF CallStates
<1>8. new \in CallStates
  <2>1. old.name \in BOOLEAN /\ old.args \in {"", "head", "json", "bad"}
    BY <1>7 DEF CallStates
  <2>2. call.args \in {"none", "whole", "head", "rest", "object"}
    BY <1>1 DEF Pieces
  <2>3. Joined(old.args, call.args) \in {"", "head", "json", "bad"}
    BY <2>1, <2>2 DEF Joined
  <2>4. (old.name \/ call.name) \in BOOLEAN
    OBVIOUS
  <2> QED BY <1>3, <2>3, <2>4 DEF CallStates
<1>9. IsFiniteSet(K) /\ K \in SUBSET Nat
  <2>1. call.index \in Nat
    BY <1>1 DEF Pieces
  <2> QED BY <1>4, <1>6, <2>1, FS_AddElement
<1>10. tools \in [K -> CallStates] /\ DOMAIN tools = K
  BY <1>4, <1>5, <1>6, <1>8
<1>11. tools \in ToolMaps
  BY <1>9, <1>10 DEF ToolMaps
<1>12. ToolDelta(t, line) = [t EXCEPT !.tools = tools]
  BY <1>1, <1>2, <1>3, <1>4, <1>5 DEF ToolDelta
<1> QED BY <1>1, <1>4, <1>10, <1>11, <1>12

\* process_line and process_value: every line keeps it so.
LEMMA ProcessLineHears ==
  ASSUME NEW t, NEW lines, Heard(t, lines), Hears(t, lines), NEW line \in LineKinds
  PROVE  Heard(ProcessLine(t, line), Append(lines, line))
<1>1. lines \in Seq(LineKinds) /\ t \in Translators
  BY DEF Heard
<1>2. PICK new \in Seq(LineKinds) : new = Append(lines, line)
  BY <1>1, AppendKeeps
<1>3. HasDone(new) => HasDone(lines) \/ line = "done"
  BY <1>1, <1>2, AppendKeeps
<1>4. Live(t, Words(lines)) /\ ~t.finished /\ ~HasDone(lines)
  BY DEF Hears, Live
<1>5. PICK s : s = ProcessLine(t, line)
  OBVIOUS
<1>6. /\ line \notin ToolLines => Indexes(new) = Indexes(lines)
      /\ line \in ToolLines => Indexes(new) = Indexes(lines) \cup {PieceOf[line].index}
  BY <1>1, <1>2, IndexesAppend
<1>7. line \in PlainLines => line \notin ToolLines
  BY BridgeAssumptions
<1>8. Words(new) = IF line \in WordKinds THEN Append(Words(lines), Word(line)) ELSE Words(lines)
  BY <1>1, <1>2, WordsAppend
<1>9. line \in WordKinds => Heard(s, new)
  <2> SUFFICES ASSUME line \in WordKinds PROVE Heard(s, new)
    OBVIOUS
  <2>1. /\ s = EmitDelta(t, Word(line)) /\ Word(line) \in {"text", "thinking"}
        /\ line \notin ToolLines /\ line # "done"
    BY <1>4, <1>5, <1>7 DEF ProcessLine, PlainLines, Word, WordKinds, TapUsage, OwnUsage
  <2>2. Live(s, Words(new)) /\ Same(t, s)
    BY <1>4, <1>8, <2>1, EmitDeltaLive
  <2>3. s \in Translators
    BY <2>2 DEF Live
  <2> QED BY <1>1, <1>3, <1>4, <1>6, <2>1, <2>2, <2>3 DEF Heard, Hears, Same
<1>10. line \in ToolLines => Heard(s, new)
  <2> SUFFICES ASSUME line \in ToolLines PROVE Heard(s, new)
    OBVIOUS
  <2>1. line \notin PlainLines
    BY BridgeAssumptions
  <2>2. line \notin WordKinds /\ line # "done" /\ s = ToolDelta(t, line)
    BY <1>4, <1>5, <2>1 DEF ProcessLine, PlainLines, WordKinds, TapUsage, OwnUsage
  <2>3. PICK tools \in ToolMaps :
          /\ s = [t EXCEPT !.tools = tools]
          /\ DOMAIN tools = DOMAIN t.tools \cup {PieceOf[line].index}
    BY <1>1, <2>2, ToolDeltaType
  <2>4. s \in Translators
    BY <1>1, <2>3 DEF Translators
  <2>5. /\ s.started = t.started /\ s.open = t.open /\ s.next = t.next /\ s.emitted = t.emitted
        /\ s.finished = t.finished /\ s.error = t.error /\ s.tools = tools
        /\ s.out = t.out
    BY <1>1, <2>3 DEF Translators
  <2>6. Live(s, Words(new))
    BY <1>4, <1>8, <2>2, <2>4, <2>5 DEF Live, Tracks
  <2>7. DOMAIN s.tools = Indexes(new)
    BY <1>6, <2>3, <2>5 DEF Hears
  <2> QED BY <1>3, <1>4, <2>2, <2>4, <2>6, <2>7 DEF Heard, Hears
<1>11. line = "finish" => Heard(s, new)
  <2> SUFFICES ASSUME line = "finish" PROVE Heard(s, new)
    OBVIOUS
  <2>1. line \notin WordKinds /\ line # "done" /\ line \notin ToolLines /\ s = CloseOpen(t)
    BY <1>4, <1>5, <1>7 DEF ProcessLine, PlainLines, WordKinds, TapUsage, OwnUsage
  <2>2. Live(s, Words(new)) /\ Same(t, s)
    BY <1>4, <1>8, <2>1, CloseOpenLive
  <2>3. s \in Translators
    BY <2>2 DEF Live
  <2> QED BY <1>1, <1>3, <1>4, <1>6, <2>1, <2>2, <2>3 DEF Heard, Hears, Same
<1>12. line \in TapUsage \cup OwnUsage => Heard(s, new)
  <2> SUFFICES ASSUME line \in TapUsage \cup OwnUsage PROVE Heard(s, new)
    OBVIOUS
  <2>1. /\ line \notin WordKinds /\ line # "done" /\ line \notin ToolLines
        /\ s = [t EXCEPT !.usage = TRUE] \/ s = t
    BY <1>4, <1>5, <1>7 DEF ProcessLine, PlainLines, WordKinds, TapUsage, OwnUsage
  <2>2. s \in Translators
    BY <1>1, <2>1 DEF Translators
  <2>3. /\ s.started = t.started /\ s.open = t.open /\ s.next = t.next /\ s.emitted = t.emitted
        /\ s.finished = t.finished /\ s.error = t.error /\ s.tools = t.tools
        /\ s.out = t.out
    BY <1>1, <2>1 DEF Translators
  <2>4. Live(s, Words(new))
    BY <1>4, <1>8, <2>1, <2>2, <2>3 DEF Live, Tracks
  <2> QED BY <1>3, <1>4, <1>6, <2>1, <2>2, <2>3, <2>4 DEF Heard, Hears
<1>13. line = "done" => Heard(s, new)
  <2> SUFFICES ASSUME line = "done" PROVE Heard(s, new)
    OBVIOUS
  <2>1. s = Finalize(t)
    BY <1>4, <1>5, <1>7 DEF ProcessLine, PlainLines, OwnUsage
  <2>2. Failed(s) \/ Stopped(s, Words(lines) \o CallsOf(lines))
    BY <1>1, <2>1, FinalizeHears
  <2>3. Said(new) = Words(lines) \o CallsOf(lines) /\ HasDone(new)
    BY <1>1, <1>2, <1>4, SaidDone
  <2>4. s \in Translators
    BY <2>2 DEF Failed, Stopped
  <2> QED BY <1>1, <1>3, <2>2, <2>3, <2>4 DEF Heard
<1>14. line = "junk" => Heard(s, new)
  <2> SUFFICES ASSUME line = "junk" PROVE Heard(s, new)
    OBVIOUS
  <2>1. s = Fail(t)
    BY <1>4, <1>5, <1>7 DEF ProcessLine, PlainLines, OwnUsage
  <2>2. Failed(s) /\ Same(t, s)
    BY <1>4, <2>1, FailLive
  <2>3. s \in Translators
    BY <2>2 DEF Failed
  <2> QED BY <1>1, <1>3, <2>2, <2>3 DEF Heard, Same
<1>15. \/ line \in WordKinds \/ line \in ToolLines \/ line \in TapUsage \cup OwnUsage
       \/ line \in {"finish", "done", "junk"}
  BY DEF LineKinds, PlainLines, WordKinds
<1> QED BY <1>2, <1>5, <1>9, <1>10, <1>11, <1>12, <1>13, <1>14, <1>15

\* process_line: one more line is heard, or the translator has ended and ignores it.
LEMMA ProcessLineHeard ==
  ASSUME NEW t, NEW lines, Heard(t, lines), NEW line \in LineKinds
  PROVE  Heard(ProcessLine(t, line), Append(lines, line))
<1>1. CASE Hears(t, lines)
  BY <1>1, ProcessLineHears
<1>2. CASE Failed(t) \/ (Stopped(t, Said(lines)) /\ HasDone(lines))
  <2>1. ProcessLine(t, line) = t
    BY <1>2 DEF ProcessLine, Failed, Stopped
  <2>2. lines \in Seq(LineKinds) /\ t \in Translators
    BY DEF Heard
  <2>3. HasDone(lines) => Said(Append(lines, line)) = Said(lines) /\ HasDone(Append(lines, line))
    BY <2>2, SaidAfter
  <2> QED BY <1>2, <2>1, <2>2, <2>3, AppendKeeps DEF Heard
<1> QED BY <1>1, <1>2 DEF Heard

\* fail and abort
LEMMA FailHeard ==
  ASSUME NEW t, NEW lines, Heard(t, lines)
  PROVE  Heard(Fail(t), lines) /\ Over(Fail(t), lines)
<1>1. CASE Hears(t, lines)
  <2>1. Failed(Fail(t)) /\ Same(t, Fail(t))
    BY <1>1, FailLive DEF Hears
  <2> QED BY <2>1 DEF Heard, Over, Failed, Same
<1>2. CASE Failed(t) \/ (Stopped(t, Said(lines)) /\ HasDone(lines))
  <2>1. Fail(t) = t
    BY <1>2 DEF Fail, Failed, Stopped
  <2> QED BY <1>2, <2>1 DEF Heard, Over
<1> QED BY <1>1, <1>2 DEF Heard

\* The run of Feed.
FeedRun(g, t, chunk) ==
  /\ g[0] = t
  /\ \A n \in 1..Len(chunk) : g[n] = ProcessLine(g[n - 1], chunk[n])

\* It exists.
LEMMA FeedDef ==
  ASSUME NEW t, NEW lines, Heard(t, lines), NEW chunk \in Seq(LineKinds), NEW tail
  PROVE  \E g : /\ FeedRun(g, t, chunk)
                /\ Feed(t, chunk, tail) =
                     IF tail = "huge" THEN Fail(g[Len(chunk)]) ELSE g[Len(chunk)]
<1>1. PICK m \in Nat : m = Len(chunk)
  BY LenProperties
<1>2. PICK V : V = {x \in Translators : \E read : Heard(x, read)}
  OBVIOUS
<1>3. t \in V
  BY <1>2 DEF Heard
<1> DEFINE Add(n, v) == ProcessLine(v, chunk[n])
           Def(g) == [n \in 0..m |-> IF n = 0 THEN t ELSE Add(n, g[n - 1])]
<1>4. \A n \in 1..m, v \in V : Add(n, v) \in V
  <2> SUFFICES ASSUME NEW n \in 1..m, NEW v \in V PROVE Add(n, v) \in V
    OBVIOUS
  <2>1. chunk[n] \in LineKinds
    BY <1>1, ElementOfSeq
  <2>2. PICK read : Heard(v, read)
    BY <1>2
  <2>3. Heard(Add(n, v), Append(read, chunk[n]))
    BY <2>1, <2>2, ProcessLineHeard
  <2> QED BY <1>2, <2>3 DEF Heard
<1>5. Feed(t, chunk, tail) =
        IF tail = "huge" THEN Fail((CHOOSE g : g = Def(g))[m]) ELSE (CHOOSE g : g = Def(g))[m]
  BY <1>1 DEF Feed
<1> HIDE DEF Add
<1>6. PICK step : IsStep(step, m, V) /\ \A n \in 1..m, v \in V : step[n][v] = Add(n, v)
  <2>1. IsStep([n \in 1..m |-> [v \in V |-> Add(n, v)]], m, V)
    BY <1>4 DEF IsStep
  <2> QED BY <2>1
<1>7. PICK g : IsRun(g, t, step, m, V)
  BY <1>3, <1>6, RunExists
<1>8. g \in [0..m -> V] /\ g[0] = t /\ \A n \in 1..m : g[n] = Add(n, g[n - 1])
  <2>1. g \in [0..m -> V] /\ g[0] = t /\ \A n \in 1..m : g[n] = step[n][g[n - 1]]
    BY <1>7 DEF IsRun
  <2>2. \A n \in 1..m : g[n - 1] \in V
    BY <2>1
  <2> QED BY <1>6, <2>1, <2>2
<1>9. g = Def(g)
  <2>1. \A n \in 0..m : g[n] = Def(g)[n]
    BY <1>8
  <2> QED BY <1>8, <2>1
<1>10. PICK f : /\ f = Def(f)
                /\ Feed(t, chunk, tail) = IF tail = "huge" THEN Fail(f[m]) ELSE f[m]
  <2> HIDE DEF Def
  <2>1. PICK f : f = (CHOOSE g2 : g2 = Def(g2))
    OBVIOUS
  <2>2. f = Def(f)
    BY <1>9, <2>1
  <2> QED BY <1>5, <2>1, <2>2
<1>11. Follows(f, t, step, m, V)
  <2>1. \A n \in 0..m : f[n] = Def(f)[n]
    <3> HIDE DEF Def
    <3> QED BY <1>10
  <2> QED BY <1>6, <2>1 DEF Follows
<1>12. \A n \in 0..m : f[n] = g[n]
  BY <1>7, <1>11, SameRun
<1>13. FeedRun(g, t, chunk)
  BY <1>1, <1>8 DEF Add, FeedRun
<1>14. f[m] = g[Len(chunk)]
  BY <1>1, <1>12
<1> QED BY <1>10, <1>13, <1>14

\* What has been read after each line of a chunk.
Grows(p, s, chunk) ==
  /\ p[0] = s
  /\ \A n \in 1..Len(chunk) : p[n] = Append(p[n - 1], chunk[n])
  /\ p[Len(chunk)] = s \o chunk

\* The first j elements of a sequence.
Begins(u, total, j, S) ==
  u \in Seq(S) /\ Len(u) = j /\ \A i \in 1..j : u[i] = total[i]

\* A chunk can be added to what was read line by line.
LEMMA LineByLine ==
  ASSUME NEW S, NEW s \in Seq(S), NEW chunk \in Seq(S)
  PROVE  \E p : Grows(p, s, chunk)
<1>1. PICK m \in Nat : m = Len(chunk)
  BY LenProperties
<1>2. PICK k \in Nat : k = Len(s)
  BY LenProperties
<1>3. PICK total \in Seq(S) : total = s \o chunk
  BY ConcatProperties
<1>4. /\ Len(total) = k + m
      /\ \A i \in 1..(k + m) : total[i] = IF i <= k THEN s[i] ELSE chunk[i - k]
  BY <1>1, <1>2, <1>3, ConcatProperties
<1>5. \A i \in 1..(k + m) : total[i] \in S
  BY <1>4, ElementOfSeq
<1> DEFINE Pre(n) == [i \in 1..(k + n) |-> total[i]]
<1>6. ASSUME NEW n \in 0..m
      PROVE  Pre(n) \in Seq(S) /\ Len(Pre(n)) = k + n /\ \A i \in 1..(k + n) : Pre(n)[i] = total[i]
  <2>1. PICK j \in Nat : j = k + n
    OBVIOUS
  <2>2. PICK u : u = [i \in 1..j |-> total[i]]
    OBVIOUS
  <2>3. u \in [1..j -> S]
    BY <1>5, <2>1, <2>2
  <2>4. u \in Seq(S)
    BY <2>3, SeqDef
  <2> QED BY <2>1, <2>2, <2>3, <2>4
<1>7. PICK p : p = [n \in 0..m |-> Pre(n)]
  OBVIOUS
<1>8. \A n \in 0..m : Begins(p[n], total, k + n, S)
  <2> SUFFICES ASSUME NEW n \in 0..m PROVE Begins(p[n], total, k + n, S)
    OBVIOUS
  <2>1. p[n] = Pre(n)
    BY <1>7
  <2> HIDE DEF Pre
  <2> QED BY <1>6, <2>1 DEF Begins
<1>9. p[0] = s
  <2>1. PICK u : u = p[0] /\ Begins(u, total, k, S)
    <3>1. 0 \in 0..m /\ k + 0 = k
      OBVIOUS
    <3> QED BY <1>8, <3>1
  <2>2. u \in Seq(S) /\ Len(u) = k /\ \A i \in 1..k : u[i] = s[i]
    BY <1>4, <2>1 DEF Begins
  <2> QED BY <1>2, <2>1, <2>2, SeqEqual
<1>10. ASSUME NEW n \in 1..m PROVE p[n] = Append(p[n - 1], chunk[n])
  <2>1. PICK u : u = p[n] /\ Begins(u, total, k + n, S)
    BY <1>8
  <2>2. PICK v : v = p[n - 1] /\ Begins(v, total, k + (n - 1), S)
    <3>1. n - 1 \in 0..m
      OBVIOUS
    <3> QED BY <1>8, <3>1
  <2>3. chunk[n] \in S
    BY <1>1, ElementOfSeq
  <2>4. PICK w \in Seq(S) : w = Append(v, chunk[n])
    BY <2>2, <2>3, AppendProperties DEF Begins
  <2>5. /\ Len(w) = Len(v) + 1 /\ w[Len(v) + 1] = chunk[n]
        /\ \A i \in 1..Len(v) : w[i] = v[i]
    BY <2>2, <2>3, <2>4, AppendProperties DEF Begins
  <2>6. Len(w) = k + n /\ w[k + n] = chunk[n] /\ \A i \in 1..(k + n - 1) : w[i] = total[i]
    BY <2>2, <2>5 DEF Begins
  <2>7. total[k + n] = chunk[n]
    BY <1>4
  <2>8. \A i \in 1..(k + n) : u[i] = w[i]
    <3> SUFFICES ASSUME NEW i \in 1..(k + n) PROVE u[i] = w[i]
      OBVIOUS
    <3>1. u[i] = total[i]
      BY <2>1 DEF Begins
    <3>2. CASE i = k + n
      BY <2>6, <2>7, <3>1, <3>2
    <3>3. CASE i \in 1..(k + n - 1)
      BY <2>6, <3>1, <3>3
    <3> QED BY <3>2, <3>3
  <2>9. u = w
    BY <2>1, <2>6, <2>8, SeqEqual DEF Begins
  <2> QED BY <2>1, <2>2, <2>4, <2>9
<1>11. p[m] = s \o chunk
  <2>1. PICK u : u = p[m] /\ Begins(u, total, k + m, S)
    BY <1>8
  <2>2. u = total
    BY <1>4, <2>1, SeqEqual DEF Begins
  <2> QED BY <1>3, <2>1, <2>2
<1>12. Grows(p, s, chunk)
  BY <1>1, <1>9, <1>10, <1>11 DEF Grows
<1> QED BY <1>12

\* feed: the lines of a chunk, however many.
LEMMA FeedHeard ==
  ASSUME NEW t, NEW lines, Heard(t, lines), NEW chunk \in Seq(LineKinds), NEW tail
  PROVE  Heard(Feed(t, chunk, tail), lines \o chunk)
<1>1. PICK m \in Nat : m = Len(chunk)
  BY LenProperties
<1>2. lines \in Seq(LineKinds)
  BY DEF Heard
<1>3. PICK p : Grows(p, lines, chunk)
  BY <1>2, LineByLine
<1>4. PICK g : /\ FeedRun(g, t, chunk)
               /\ Feed(t, chunk, tail) = IF tail = "huge" THEN Fail(g[m]) ELSE g[m]
  BY <1>1, FeedDef
<1> DEFINE T == {n \in Nat : n <= m => Heard(g[n], p[n])}
<1>5. 0 \in T
  BY <1>3, <1>4 DEF FeedRun, Grows
<1>6. ASSUME NEW n \in Nat, n \in T PROVE n + 1 \in T
  <2> SUFFICES ASSUME n + 1 <= m PROVE Heard(g[n + 1], p[n + 1])
    OBVIOUS
  <2>1. n + 1 \in 1..m /\ (n + 1) - 1 = n /\ Heard(g[n], p[n])
    BY <1>6
  <2>2. g[n + 1] = ProcessLine(g[n], chunk[n + 1]) /\ p[n + 1] = Append(p[n], chunk[n + 1])
    BY <1>1, <1>3, <1>4, <2>1 DEF FeedRun, Grows
  <2>3. chunk[n + 1] \in LineKinds
    BY <1>1, <2>1, ElementOfSeq
  <2> QED BY <2>1, <2>2, <2>3, ProcessLineHeard
<1> HIDE DEF T
<1>7. m \in T
  BY <1>5, <1>6, NatSetInduction
<1>8. Heard(g[m], lines \o chunk)
  <2>1. Heard(g[m], p[m])
    BY <1>7 DEF T
  <2> QED BY <1>1, <1>3, <2>1 DEF Grows
<1> QED BY <1>4, <1>8, FailHeard

\* finish: a last line without a newline, and the end of the message.
LEMMA FinishHeard ==
  ASSUME NEW t, NEW lines, Heard(t, lines), NEW tail \in LineKinds \cup {None}
  PROVE  Over(FinishStream(t, tail), IF tail = None THEN lines ELSE Append(lines, tail))
<1>1. PICK s : s = IF tail = None THEN t ELSE ProcessLine(t, tail)
  OBVIOUS
<1>2. PICK read : read = IF tail = None THEN lines ELSE Append(lines, tail)
  OBVIOUS
<1>3. Heard(s, read)
  BY <1>1, <1>2, ProcessLineHeard
<1>4. FinishStream(t, tail) = IF s.finished THEN s ELSE Finalize(s)
  BY <1>1 DEF FinishStream
<1>5. read \in Seq(LineKinds)
  BY <1>3 DEF Heard
<1>6. CASE Hears(s, read)
  <2>1. ~s.finished /\ ~HasDone(read)
    BY <1>6 DEF Hears, Live
  <2>2. Failed(Finalize(s)) \/ Stopped(Finalize(s), Words(read) \o CallsOf(read))
    BY <1>5, <1>6, FinalizeHears
  <2>3. Said(read) = Words(read) \o CallsOf(read)
    BY <1>5, <2>1, SaidBefore
  <2>4. Over(Finalize(s), read)
    BY <1>5, <2>2, <2>3 DEF Over, Failed, Stopped
  <2> QED BY <1>2, <1>4, <2>1, <2>4
<1>7. CASE Failed(s) \/ Stopped(s, Said(read))
  <2>1. s.finished /\ s \in Translators
    BY <1>7 DEF Failed, Stopped
  <2>2. Over(s, read)
    BY <1>5, <1>7, <2>1 DEF Over
  <2> QED BY <1>2, <1>4, <2>1, <2>2
<1> QED BY <1>3, <1>6, <1>7 DEF Heard

(***************************************************************************)
(* A whole document                                                        *)
(***************************************************************************)

BlockKinds == {"thinking", "text", "tool", "empty"}

\* What a row of blocks says, block by block.
LEMMA VoicesExist ==
  ASSUME NEW said \in Seq(Spoken), NEW m \in Nat, NEW ds, \A k \in 1..m : ds[k] \in BlockDeltas
  PROVE  \E c : c[0] = said /\ Voices(c, ds, m)
<1>1. PICK V : V = Seq(Spoken)
  OBVIOUS
<1> DEFINE Add(n, v) == v \o Voice(ds[n])
<1>2. \A n \in 1..m, v \in V : Add(n, v) \in V
  <2> SUFFICES ASSUME NEW n \in 1..m, NEW v \in V PROVE Add(n, v) \in V
    OBVIOUS
  <2>1. Voice(ds[n]) \in Seq(Spoken)
    <3>1. \A x \in Spoken : <<x>> \in Seq(Spoken)
      OBVIOUS
    <3>2. <<>> \in Seq(Spoken)
      BY EmptySeq
    <3>3. ds[n] \in BlockDeltas
      OBVIOUS
    <3>4. ds[n] = <<>> \/ ds[n][1] \in Spoken
      BY <3>3 DEF BlockDeltas, Spoken
    <3> QED BY <3>1, <3>2, <3>4 DEF Voice
  <2> QED BY <1>1, <2>1, ConcatProperties
<1> HIDE DEF Add
<1>3. PICK step : IsStep(step, m, V) /\ \A n \in 1..m, v \in V : step[n][v] = Add(n, v)
  <2>1. IsStep([n \in 1..m |-> [v \in V |-> Add(n, v)]], m, V)
    BY <1>2 DEF IsStep
  <2> QED BY <2>1
<1>4. PICK c : IsRun(c, said, step, m, V)
  BY <1>1, <1>3, RunExists
<1>5. c[0] = said /\ \A n \in 1..m : c[n] = Add(n, c[n - 1])
  <2>1. c \in [0..m -> V] /\ c[0] = said /\ \A n \in 1..m : c[n] = step[n][c[n - 1]]
    BY <1>4 DEF IsRun
  <2>2. \A n \in 1..m : c[n - 1] \in V
    BY <2>1
  <2> QED BY <1>3, <2>1, <2>2
<1> QED BY <1>5 DEF Add, Voices

\* build_message: at least one block, each of a kind that message_to_sse knows.
LEMMA BuildMessageType ==
  ASSUME NEW S, NEW doc \in Seq(S), BuildMessage(doc) # None
  PROVE  BuildMessage(doc) \in Seq(BlockKinds) /\ Len(BuildMessage(doc)) > 0
<1>1. \A kind \in {"thinking", "text", "tool"} : Only(doc, {kind}) \in Seq(BlockKinds)
  <2> SUFFICES ASSUME NEW kind \in {"thinking", "text", "tool"}
               PROVE  Only(doc, {kind}) \in Seq(BlockKinds)
    OBVIOUS
  <2>1. Only(doc, {kind}) \in Seq(S \cap {kind})
    BY OnlyType
  <2>2. S \cap {kind} \subseteq BlockKinds
    BY DEF BlockKinds
  <2> QED BY <2>1, <2>2, SeqMonotonic
<1>2. PICK a \in Seq(BlockKinds) : a = Only(doc, {"thinking"})
  BY <1>1
<1>3. PICK b \in Seq(BlockKinds) : b = Only(doc, {"text"})
  BY <1>1
<1>4. PICK c \in Seq(BlockKinds) : c = Only(doc, {"tool"})
  BY <1>1
<1>5. PICK ab \in Seq(BlockKinds) : ab = a \o b
  BY ConcatProperties
<1>6. PICK content \in Seq(BlockKinds) : content = ab \o c
  BY ConcatProperties
<1>7. BuildMessage(doc) = IF content = <<>> THEN <<"empty">> ELSE content
  BY <1>2, <1>3, <1>4, <1>5, <1>6 DEF BuildMessage
<1>8. CASE content = <<>>
  <2>1. "empty" \in BlockKinds
    BY DEF BlockKinds
  <2>2. <<"empty">> \in Seq(BlockKinds) /\ Len(<<"empty">>) = 1
    BY <2>1
  <2> QED BY <1>7, <1>8, <2>2
<1>9. CASE content # <<>>
  <2>1. Len(content) \in Nat \ {0}
    BY <1>9, EmptySeq
  <2> QED BY <1>7, <1>9, <2>1
<1> QED BY <1>8, <1>9

\* message_to_sse: the client reads the whole message.
LEMMA MessageAccepted ==
  ASSUME NEW content \in Seq(BlockKinds), Len(content) > 0
  PROVE  /\ MessageToSse(content) \in Seq(Events)
         /\ Client(MessageToSse(content)).at = "stopped"
<1>1. PICK m \in Nat : m = Len(content) /\ DOMAIN content = 1..m
  BY LenProperties
<1>2. PICK ds : ds = [k \in 1..m |-> DeltasOf(content[k])]
  OBVIOUS
<1>3. \A k \in 1..m : ds[k] = DeltasOf(content[k]) /\ ds[k] \in BlockDeltas
  <2> SUFFICES ASSUME NEW k \in 1..m
               PROVE  ds[k] = DeltasOf(content[k]) /\ ds[k] \in BlockDeltas
    OBVIOUS
  <2>1. ds[k] = DeltasOf(content[k])
    BY <1>2
  <2>2. content[k] \in BlockKinds
    BY <1>1, ElementOfSeq
  <2>3. DeltasOf(content[k]) \in BlockDeltas
    BY <2>2 DEF DeltasOf, BlockDeltas, BlockKinds
  <2> QED BY <2>1, <2>3
<1>4. PICK seqs : seqs = [i \in DOMAIN content |-> WholeBlock(i - 1, DeltasOf(content[i]))]
  OBVIOUS
<1>5. IsBlocks(seqs, 0, ds, m)
  <2>1. DOMAIN seqs = 1..m /\ seqs = [k \in 1..m |-> seqs[k]]
    BY <1>1, <1>4
  <2>2. ASSUME NEW k \in 1..m PROVE seqs[k] = WholeBlock(0 + (k - 1), ds[k])
    <3>1. 0 + (k - 1) = k - 1
      OBVIOUS
    <3> QED BY <1>1, <1>3, <1>4, <3>1
  <2> QED BY <1>3, <2>1, <2>2 DEF IsBlocks
<1>6. At(<<>>, "new", 0, <<>>)
  BY NewLive DEF Live, Tracks, NewTranslator
<1>7. PICK start \in Seq(Events) : start = <<Ev("message_start", 0)>>
  BY EvType DEF Names
<1>8. At(start, "message", 0, <<>>)
  <2>1. <<>> \o start = start
    BY ConcatEmptySeq
  <2> QED BY <1>6, <1>7, <2>1, TellStart
<1>9. PICK c : c[0] = <<>> /\ Voices(c, ds, m)
  <2>1. <<>> \in Seq(Spoken)
    BY EmptySeq
  <2> QED BY <1>3, <2>1, VoicesExist
<1>10. At(start \o FlattenSeq(seqs), "message", 0 + m, c[m])
  BY <1>5, <1>8, <1>9, TellBlocks
<1>11. 0 + m > 0
  BY <1>1
<1>12. At((start \o FlattenSeq(seqs)) \o <<Ev("message_delta", 0), Ev("message_stop", 0)>>,
          "stopped", 0 + m, c[m])
  BY <1>10, <1>11, TellEnd
<1>13. MessageToSse(content) =
         (start \o FlattenSeq(seqs)) \o <<Ev("message_delta", 0), Ev("message_stop", 0)>>
  BY <1>4, <1>7 DEF MessageToSse
<1> QED BY <1>12, <1>13 DEF At
=============================================================================
