---------------------------- MODULE LedgerProofs ----------------------------
(***************************************************************************)
(* The safety properties of Ledger, for any set of events, every capacity  *)
(* of the channels and every batch size.                                   *)
(*                                                                         *)
(* An event that the writer takes out of one place is found in another:    *)
(* that needs to know what the writer still has to append (Batching: the   *)
(* batch may be cleared because the file has it, and `work` may be         *)
(* overwritten because it is empty) and how far a replay has come          *)
(* (Replaying: the replayed file may be removed because the table has it,  *)
(* and may get its name back because no new file has that name).           *)
(***************************************************************************)
EXTENDS Ledger, SequenceTheorems, TLAPS

(***************************************************************************)
(* The inductive invariant                                                 *)
(***************************************************************************)

\* What the writer still has to put away, as a function of where it is.
Batching ==
  /\ pc # "append" => work = <<>>
  /\ failed => pc = "append" /\ Range(batch) \subseteq Range(work) \cup InFile(file)
  /\ Len(batch) >= BatchSize => pc = "insert" \/ failed

\* The lines before pos are in the table, and no other file can be overwritten.
Replaying ==
  pc = "replay" =>
    /\ file.lines = <<>>
    /\ \A i \in DOMAIN replay.lines :
         i < pos => Range(replay.lines[i]) \cap Events \subseteq db

IInv == TypeOK /\ Batching /\ Replaying


(***************************************************************************)
(* Sequences and files                                                     *)
(***************************************************************************)

\* Appending adds one event.
LEMMA RangeAppend ==
  ASSUME NEW S, NEW s \in Seq(S), NEW x \in S
  PROVE  Range(Append(s, x)) = Range(s) \cup {x}
<1>1. /\ Append(s, x) \in Seq(S) /\ Len(Append(s, x)) = Len(s) + 1
      /\ \A i \in 1..Len(s) : Append(s, x)[i] = s[i]
      /\ Append(s, x)[Len(s) + 1] = x
  BY AppendProperties
<1>2. Range(Append(s, x)) = {Append(s, x)[i] : i \in 1..(Len(s) + 1)}
  BY <1>1, RangeEquality
<1>3. Range(s) = {s[i] : i \in 1..Len(s)}
  BY RangeEquality
<1>4. Len(s) \in Nat
  BY LenProperties
<1>5. ASSUME NEW y PROVE y \in Range(Append(s, x)) => y \in Range(s) \cup {x}
  BY <1>1, <1>2, <1>3, <1>4
<1>6. ASSUME NEW y PROVE y \in Range(s) \cup {x} => y \in Range(Append(s, x))
  BY <1>1, <1>2, <1>3, <1>4
<1> QED BY <1>5, <1>6

\* A queue is its head and the rest.
LEMMA RangeHeadTail ==
  ASSUME NEW S, NEW s \in Seq(S), s # <<>>
  PROVE  /\ Head(s) \in S /\ Tail(s) \in Seq(S) /\ Len(Tail(s)) = Len(s) - 1
         /\ Range(s) = {Head(s)} \cup Range(Tail(s))
<1>1. /\ Head(s) \in S /\ Tail(s) \in Seq(S) /\ Len(Tail(s)) = Len(s) - 1
      /\ Len(s) \in Nat \ {0} /\ Head(s) = s[1]
      /\ \A i \in 1..Len(Tail(s)) : Tail(s)[i] = s[i + 1]
  BY HeadTailProperties, EmptySeq
<1>2. /\ Range(s) = {s[i] : i \in 1..Len(s)}
      /\ Range(Tail(s)) = {Tail(s)[i] : i \in 1..Len(Tail(s))}
  BY <1>1, RangeEquality
<1>3. ASSUME NEW y \in Range(s) PROVE y = Head(s) \/ y \in Range(Tail(s))
  <2>1. PICK i \in 1..Len(s) : y = s[i]
    BY <1>2
  <2>2. CASE i = 1
    BY <1>1, <2>1, <2>2
  <2>3. CASE i # 1
    <3>1. i - 1 \in 1..Len(Tail(s)) /\ Tail(s)[i - 1] = s[i]
      BY <1>1, <2>3
    <3> QED BY <1>2, <2>1, <3>1
  <2> QED BY <2>2, <2>3
<1>4. Head(s) \in Range(s)
  BY <1>1, <1>2
<1>5. ASSUME NEW y \in Range(Tail(s)) PROVE y \in Range(s)
  <2>1. PICK i \in 1..Len(Tail(s)) : y = Tail(s)[i]
    BY <1>2
  <2>2. i + 1 \in 1..Len(s) /\ s[i + 1] = y
    BY <1>1, <2>1
  <2> QED BY <1>2, <2>2
<1> QED BY <1>1, <1>3, <1>4, <1>5

\* The events of a queue of one, and of none.
LEMMA RangeSmall ==
  /\ Range(<<>>) = {}
  /\ \A x : Range(<<x>>) = {x}
<1>1. Range(<<>>) = {}
  BY DEF Range
<1>2. ASSUME NEW x PROVE Range(<<x>>) = {x}
  BY DEF Range
<1> QED BY <1>1, <1>2

\* An event of a line is in the file.
LEMMA InFileElement ==
  ASSUME NEW f, NEW y
  PROVE  y \in InFile(f) <=>
           y \in Events /\ \E j \in DOMAIN f.lines : y \in Range(f.lines[j])
<1> DEFINE R(j) == Range(f.lines[j])
           D == DOMAIN f.lines
           U == UNION {R(j) : j \in D}
<1> HIDE DEF R, D
<1>1. ASSUME y \in U PROVE \E j \in D : y \in R(j)
  <2>1. PICK A \in {R(j) : j \in D} : y \in A
    BY <1>1
  <2>2. PICK j \in D : A = R(j)
    OBVIOUS
  <2> QED BY <2>1, <2>2
<1>2. ASSUME NEW j \in D, y \in R(j) PROVE y \in U
  <2>1. R(j) \in {R(k) : k \in D}
    OBVIOUS
  <2> QED BY <1>2, <2>1
<1>3. InFile(f) = U \cap Events
  BY DEF InFile, R, D
<1> HIDE DEF U
<1>4. y \in InFile(f) <=> y \in Events /\ \E j \in D : y \in R(j)
  BY <1>1, <1>2, <1>3
<1> QED BY <1>4 DEF R, D

\* Writing an event to a file adds it to what is in the file; writing part of a
\* line adds nothing.
LEMMA WrittenFile ==
  ASSUME NEW f, IsFile(f), NEW x \in Events \cup {Torn}
  PROVE  /\ IsFile(Written(f, x))
         /\ InFile(Written(f, x)) = InFile(f) \cup ({x} \cap Events)
<1> DEFINE g == Written(f, x)
           Line == Seq(Events \cup {Torn})
<1>1. f.lines \in Seq(Line) /\ f.open \in BOOLEAN /\ (f.open => f.lines # <<>>)
  BY DEF IsFile
<1>2. CASE f.open
  <2> DEFINE n == Len(f.lines)
  <2>1. n \in 1..Len(f.lines) /\ n \in Nat /\ DOMAIN f.lines = 1..n
    BY <1>1, <1>2, EmptySeq, LenProperties
  <2>2. f.lines[n] \in Line /\ Append(f.lines[n], x) \in Line
    BY <1>1, <2>1, ElementOfSeq, AppendProperties
  <2>3. g.lines = [f.lines EXCEPT ![n] = Append(f.lines[n], x)]
    BY <1>2 DEF Written
  <2>4. /\ g.lines \in Seq(Line) /\ Len(g.lines) = n
        /\ \A j \in 1..n :
             g.lines[j] = IF j = n THEN Append(f.lines[n], x) ELSE f.lines[j]
    BY <1>1, <2>1, <2>2, <2>3, ExceptSeq
  <2>5. DOMAIN g.lines = 1..n
    BY <2>4, LenProperties
  <2>6. Range(Append(f.lines[n], x)) = Range(f.lines[n]) \cup {x}
    BY <2>2, RangeAppend
  <2>7. g.lines # <<>>
    BY <2>1, <2>4, EmptySeq
  <2>8. IsFile(g)
    BY <1>2, <2>4, <2>7 DEF IsFile, Written
  <2>9. ASSUME NEW y \in Events
        PROVE  y \in InFile(g) <=> y \in InFile(f) \/ y = x
    <3>1. y \in InFile(g) <=> \E j \in 1..n : y \in Range(g.lines[j])
      BY <2>5, InFileElement, Zenon
    <3>2. y \in InFile(f) <=> \E j \in 1..n : y \in Range(f.lines[j])
      BY <2>1, InFileElement, Zenon
    <3> HIDE DEF g, n
    <3>3. y \in InFile(g) => y \in InFile(f) \/ y = x
      BY <2>4, <2>6, <3>1, <3>2
    <3>4. y \in InFile(f) \/ y = x => y \in InFile(g)
      BY <2>1, <2>4, <2>6, <3>1, <3>2
    <3> QED BY <3>3, <3>4
  <2>10. ASSUME NEW y PROVE y \in InFile(g) \/ y \in InFile(f) => y \in Events
    BY InFileElement
  <2> HIDE DEF g
  <2>11. InFile(g) = InFile(f) \cup ({x} \cap Events)
    BY <2>9, <2>10
  <2> QED BY <2>8, <2>11 DEF g
<1>3. CASE ~f.open
  <2> DEFINE n == Len(f.lines)
  <2>1. n \in Nat /\ DOMAIN f.lines = 1..n
    BY <1>1, LenProperties
  <2>2. <<x>> \in Line
    OBVIOUS
  <2>3. g.lines = Append(f.lines, <<x>>)
    BY <1>3 DEF Written
  <2>4. /\ g.lines \in Seq(Line) /\ Len(g.lines) = n + 1 /\ g.lines # <<>>
        /\ \A j \in 1..n : g.lines[j] = f.lines[j]
        /\ g.lines[n + 1] = <<x>>
    BY <1>1, <2>2, <2>3, AppendProperties
  <2>5. DOMAIN g.lines = 1..(n + 1)
    BY <2>4, LenProperties
  <2>6. IsFile(g)
    BY <1>3, <2>4 DEF IsFile, Written
  <2>7. ASSUME NEW y \in Events
        PROVE  y \in InFile(g) <=> y \in InFile(f) \/ y = x
    <3>1. y \in InFile(g) <=> \E j \in 1..(n + 1) : y \in Range(g.lines[j])
      BY <2>5, InFileElement, Zenon
    <3>2. y \in InFile(f) <=> \E j \in 1..n : y \in Range(f.lines[j])
      BY <2>1, InFileElement, Zenon
    <3>3. Range(g.lines[n + 1]) = {x}
      BY <2>4, RangeSmall
    <3>4. \A j \in 1..(n + 1) : j \in 1..n \/ j = n + 1
      BY <2>1
    <3>5. n + 1 \in 1..(n + 1) /\ \A j \in 1..n : j \in 1..(n + 1)
      BY <2>1
    <3> HIDE DEF g, n
    <3>6. y \in InFile(g) => y \in InFile(f) \/ y = x
      BY <2>4, <3>1, <3>2, <3>3, <3>4
    <3>7. y \in InFile(f) \/ y = x => y \in InFile(g)
      BY <2>4, <3>1, <3>2, <3>3, <3>5
    <3> QED BY <3>6, <3>7
  <2>8. ASSUME NEW y PROVE y \in InFile(g) \/ y \in InFile(f) => y \in Events
    BY InFileElement
  <2> HIDE DEF g
  <2>9. InFile(g) = InFile(f) \cup ({x} \cap Events)
    BY <2>7, <2>8
  <2> QED BY <2>6, <2>9 DEF g
<1> QED BY <1>1, <1>2, <1>3

\* A newline ends the line and takes nothing out of the file.
LEMMA ClosedFile ==
  ASSUME NEW f, IsFile(f)
  PROVE  /\ IsFile([f EXCEPT !.open = FALSE])
         /\ [f EXCEPT !.open = FALSE].lines = f.lines
         /\ InFile([f EXCEPT !.open = FALSE]) = InFile(f)
BY DEF IsFile, InFile

\* A file that is not there holds nothing.
LEMMA NoFileEmpty ==
  IsFile(NoFile) /\ NoFile.lines = <<>> /\ InFile(NoFile) = {}
BY DEF IsFile, InFile, NoFile

(***************************************************************************)
(* The invariant is inductive                                              *)
(***************************************************************************)

\* Where the task resumes after a write.
LEMMA ResumeType ==
  ASSUME NEW h
  PROVE  Resume(h) \in {"stopped", "connect", "select"}
BY DEF Resume

\* The invariant holds when the router starts.
LEMMA InitIInv ==
  ASSUME Init
  PROVE  IInv
<1>1. <<>> \in Seq(Events) /\ Len(<<>>) = 0
  BY EmptySeq
<1>2. {pool, failed, dbUp, closed} \subseteq BOOLEAN
  BY DEF Init
<1>3. TypeOK
  BY <1>1, <1>2, LedgerAssumptions, NoFileEmpty DEF Init, TypeOK
<1>4. Batching
  BY <1>1, LedgerAssumptions DEF Init, Batching
<1>5. Replaying
  BY DEF Init, Replaying
<1> QED BY <1>3, <1>4, <1>5 DEF IInv

\* A request task records an event.
LEMMA RecordStep ==
  ASSUME IInv, NEW e \in Events, Record(e)
  PROVE  IInv'
<1> USE DEF disk
<1>1. /\ primary \in Seq(Events) /\ overflow \in Seq(Events)
      /\ Len(primary) \in Nat /\ Len(overflow) \in Nat
  BY LenProperties DEF IInv, TypeOK
<1>2. /\ \/ primary' = primary
         \/ Len(primary) < PrimaryCap /\ primary' = Append(primary, e)
      /\ \/ overflow' = overflow
         \/ Len(overflow) < OverflowCap /\ overflow' = Append(overflow, e)
  BY DEF Record
<1>3. /\ primary' \in Seq(Events) /\ Len(primary') <= PrimaryCap
      /\ overflow' \in Seq(Events) /\ Len(overflow') <= OverflowCap
  <2>1. /\ Append(primary, e) \in Seq(Events)
        /\ Len(Append(primary, e)) = Len(primary) + 1
        /\ Append(overflow, e) \in Seq(Events)
        /\ Len(Append(overflow, e)) = Len(overflow) + 1
    BY <1>1, AppendProperties
  <2>2. PrimaryCap \in Nat /\ OverflowCap \in Nat
    BY LedgerAssumptions
  <2>3. Len(primary) <= PrimaryCap /\ Len(overflow) <= OverflowCap
    BY DEF IInv, TypeOK
  <2>4. primary' \in Seq(Events) /\ Len(primary') <= PrimaryCap
    BY <1>1, <1>2, <2>1, <2>2, <2>3
  <2>5. overflow' \in Seq(Events) /\ Len(overflow') <= OverflowCap
    BY <1>1, <1>2, <2>1, <2>2, <2>3
  <2> QED BY <2>4, <2>5
<1>4. fresh' \subseteq Events /\ dropped' \subseteq Events
  BY DEF Record, IInv, TypeOK
<1>5. TypeOK'
  BY <1>3, <1>4 DEF Record, IInv, TypeOK
<1>6. Batching' /\ Replaying'
  BY DEF Record, IInv, Batching, Replaying
<1> QED BY <1>5, <1>6 DEF IInv

\* The writer takes an event out of a channel, or its timer fires, or the
\* channels are closed.
LEMMA SelectStep ==
  ASSUME IInv, RecvPrimary \/ RecvOverflow \/ Tick \/ RecvClosed
  PROVE  IInv'
<1> USE DEF disk, source, ram
<1>1. /\ primary \in Seq(Events) /\ overflow \in Seq(Events) /\ batch \in Seq(Events)
      /\ Len(primary) \in Nat /\ Len(overflow) \in Nat /\ Len(batch) \in Nat
  BY LenProperties DEF IInv, TypeOK
<1>2. CASE RecvPrimary
  <2>1. /\ pc = "select" /\ Head(primary) \in Events /\ Tail(primary) \in Seq(Events)
        /\ Len(Tail(primary)) = Len(primary) - 1
    BY <1>1, <1>2, RangeHeadTail DEF RecvPrimary
  <2>2. ~failed /\ work = <<>> /\ Len(batch) < BatchSize
    BY <1>1, <2>1, LedgerAssumptions DEF IInv, Batching
  <2>3. CASE pool
    <3>1. /\ batch' = Append(batch, Head(primary)) /\ work' = work
          /\ pc' = (IF Len(batch) + 1 >= BatchSize THEN "insert" ELSE "select")
      BY <1>2, <2>3 DEF RecvPrimary
    <3>2. batch' \in Seq(Events) /\ Len(batch') = Len(batch) + 1
      BY <1>1, <2>1, <3>1, AppendProperties
    <3>3. TypeOK'
      BY <1>1, <1>2, <2>1, <2>2, <2>3, <3>1, <3>2, LedgerAssumptions
         DEF RecvPrimary, IInv, TypeOK
    <3>4. Batching' /\ Replaying'
      BY <1>1, <1>2, <2>2, <3>1, <3>2, LedgerAssumptions
         DEF RecvPrimary, Batching, Replaying
    <3> QED BY <3>3, <3>4 DEF IInv
  <2>4. CASE ~pool
    <3>1. work' = <<Head(primary)>> /\ pc' = "append" /\ batch' = batch
      BY <1>2, <2>4 DEF RecvPrimary
    <3>2. work' \in Seq(Events)
      BY <2>1, <3>1
    <3>3. TypeOK'
      BY <1>1, <1>2, <2>1, <2>2, <3>1, <3>2, LedgerAssumptions
         DEF RecvPrimary, IInv, TypeOK
    <3>4. Batching' /\ Replaying'
      BY <1>1, <1>2, <2>2, <3>1, LedgerAssumptions
         DEF RecvPrimary, Batching, Replaying
    <3> QED BY <3>3, <3>4 DEF IInv
  <2> QED BY <2>3, <2>4
<1>3. CASE RecvOverflow
  <2>1. /\ pc = "select" /\ Head(overflow) \in Events /\ Tail(overflow) \in Seq(Events)
        /\ Len(Tail(overflow)) = Len(overflow) - 1
    BY <1>1, <1>3, RangeHeadTail DEF RecvOverflow
  <2>2. work' \in Seq(Events)
    BY <1>3, <2>1 DEF RecvOverflow
  <2>3. TypeOK'
    BY <1>1, <1>3, <2>1, <2>2, LedgerAssumptions DEF RecvOverflow, IInv, TypeOK
  <2>4. Batching' /\ Replaying'
    BY <1>1, <1>3, <2>1, LedgerAssumptions DEF RecvOverflow, IInv, Batching, Replaying
  <2> QED BY <2>3, <2>4 DEF IInv
<1>4. CASE Tick
  <2>1. TypeOK'
    BY <1>4 DEF Tick, IInv, TypeOK
  <2>2. Batching' /\ Replaying'
    BY <1>1, <1>4, LedgerAssumptions DEF Tick, IInv, Batching, Replaying
  <2> QED BY <2>1, <2>2 DEF IInv
<1>5. CASE RecvClosed
  <2>1. TypeOK'
    BY <1>1, <1>5, EmptySeq, LedgerAssumptions DEF RecvClosed, IInv, TypeOK
  <2>2. Batching' /\ Replaying'
    BY <1>1, <1>5, LedgerAssumptions DEF RecvClosed, IInv, Batching, Replaying
  <2> QED BY <2>1, <2>2 DEF IInv
<1> QED BY <1>2, <1>3, <1>4, <1>5

\* The writer flushes its batch: to the table, or to the file.
LEMMA FlushStep ==
  ASSUME IInv, \/ InsertOk \/ InsertFails \/ WriteLine \/ Newline
               \/ Appended \/ AppendFails
  PROVE  IInv'
<1> USE DEF disk, source, ram
<1>1. /\ batch \in Seq(Events) /\ work \in Seq(Events) /\ IsFile(file) /\ IsFile(replay)
      /\ Len(batch) \in Nat /\ Range(batch) \subseteq Events
      /\ <<>> \in Seq(Events) /\ Len(<<>>) = 0
      /\ {pool, failed, dbUp, closed} \subseteq BOOLEAN
  BY LenProperties, RangeOfSeq, EmptySeq DEF IInv, TypeOK
<1>2. CASE InsertOk
  <2>1. db' \subseteq Events
    BY <1>1, <1>2 DEF InsertOk, IInv, TypeOK
  <2>2. pc' \in {"stopped", "connect", "select"}
    BY <1>2, ResumeType DEF InsertOk
  <2>3. TypeOK'
    BY <1>1, <1>2, <2>1, <2>2, LedgerAssumptions DEF InsertOk, IInv, TypeOK
  <2>4. Batching' /\ Replaying'
    BY <1>1, <1>2, <2>2, LedgerAssumptions DEF InsertOk, IInv, Batching, Replaying
  <2> QED BY <2>3, <2>4 DEF IInv
<1>3. CASE InsertFails
  <2>1. db' \subseteq Events /\ dbUp' \in BOOLEAN
    BY <1>1, <1>3 DEF InsertFails, IInv, TypeOK
  <2>2. TypeOK'
    BY <1>1, <1>3, <2>1 DEF InsertFails, IInv, TypeOK
  <2>3. Batching' /\ Replaying'
    BY <1>3 DEF InsertFails, Batching, Replaying
  <2> QED BY <2>2, <2>3 DEF IInv
<1>4. CASE WriteLine
  <2>1. /\ pc = "append" /\ Head(work) \in Events /\ Tail(work) \in Seq(Events)
        /\ Range(work) = {Head(work)} \cup Range(Tail(work))
    BY <1>1, <1>4, RangeHeadTail DEF WriteLine
  <2>2. /\ IsFile(file') /\ InFile(file') = InFile(file) \cup {Head(work)}
    BY <1>1, <1>4, <2>1, WrittenFile DEF WriteLine
  <2>3. TypeOK'
    BY <1>4, <2>1, <2>2 DEF WriteLine, IInv, TypeOK
  <2>4. Batching' /\ Replaying'
    BY <1>4, <2>1, <2>2 DEF WriteLine, IInv, Batching, Replaying
  <2> QED BY <2>3, <2>4 DEF IInv
<1>5. CASE Newline
  <2>1. /\ IsFile(file') /\ file'.lines = file.lines /\ InFile(file') = InFile(file)
        /\ IsFile(replay') /\ replay'.lines = replay.lines
    BY <1>1, <1>5, ClosedFile DEF Newline
  <2>2. newlines' \in Nat
    BY <1>5 DEF Newline, IInv, TypeOK
  <2>3. TypeOK'
    BY <1>5, <2>1, <2>2 DEF Newline, IInv, TypeOK
  <2>4. Batching' /\ Replaying'
    BY <1>5, <2>1 DEF Newline, IInv, Batching, Replaying
  <2> QED BY <2>3, <2>4 DEF IInv
<1>6. CASE Appended
  <2>1. /\ pc' \in {"stopped", "connect", "select"} /\ failed' = FALSE
        /\ batch' = (IF failed THEN <<>> ELSE batch) /\ pool' = (pool /\ ~failed)
        /\ work = <<>> /\ work' = work
    BY <1>6, ResumeType DEF Appended
  <2>2. pool' \in BOOLEAN
    BY <2>1
  <2>3. batch' \in Seq(Events) /\ Len(batch') <= BatchSize /\ (batch' # <<>> => pool')
    BY <1>1, <2>1, LedgerAssumptions DEF IInv, TypeOK
  <2>4. TypeOK'
    BY <1>6, <2>1, <2>2, <2>3 DEF Appended, IInv, TypeOK
  <2>5. Batching' /\ Replaying'
    BY <1>1, <1>6, <2>1, LedgerAssumptions DEF Appended, IInv, Batching, Replaying
  <2> QED BY <2>4, <2>5 DEF IInv
<1>7. CASE AppendFails
  <2>1. /\ pc' \in {"stopped", "connect", "select"} /\ failed' = FALSE
        /\ batch' = <<>> /\ work' = <<>>
        /\ UNCHANGED <<source, dropped, disk, pos, db, dbUp>>
        /\ pool' = FALSE \/ pool' = pool
        /\ primary' = <<>> \/ primary' = primary
        /\ overflow' = <<>> \/ overflow' = overflow
    BY <1>7, ResumeType DEF AppendFails
  <2>2. TypeOK'
    <3>1. {pool', failed', dbUp', closed'} \subseteq BOOLEAN
      BY <1>1, <2>1, Zenon DEF source
    <3>2. /\ primary' \in Seq(Events) /\ Len(primary') <= PrimaryCap
          /\ overflow' \in Seq(Events) /\ Len(overflow') <= OverflowCap
      <4>1. PrimaryCap \in Nat /\ OverflowCap \in Nat
        BY LedgerAssumptions
      <4>2. /\ primary \in Seq(Events) /\ Len(primary) <= PrimaryCap
            /\ overflow \in Seq(Events) /\ Len(overflow) <= OverflowCap
        BY DEF IInv, TypeOK
      <4>3. 0 <= PrimaryCap /\ 0 <= OverflowCap
        BY <4>1
      <4> QED BY <1>1, <2>1, <4>2, <4>3, Zenon
    <3> QED BY <1>1, <2>1, <3>1, <3>2, LedgerAssumptions DEF IInv, TypeOK
  <2>3. Batching' /\ Replaying'
    BY <1>1, <2>1, LedgerAssumptions DEF Batching, Replaying
  <2> QED BY <2>2, <2>3 DEF IInv
<1> QED BY <1>2, <1>3, <1>4, <1>5, <1>6, <1>7

\* The writer reconnects and replays the fallback file.
LEMMA ReplayStep ==
  ASSUME IInv, Connect \/ ConnectFails \/ ReplayLine \/ ReplayDone \/ ReplayFails
  PROVE  IInv'
<1> USE DEF disk, source, ram
<1>1. /\ IsFile(file) /\ IsFile(replay) /\ IsFile(NoFile) /\ NoFile.lines = <<>>
      /\ {pool, failed, dbUp, closed} \subseteq BOOLEAN
      /\ pos \in Nat \ {0} /\ db \subseteq Events
  BY NoFileEmpty DEF IInv, TypeOK
<1>2. CASE Connect
  <2>1. /\ pc = "connect" /\ pc' \in {"select", "replay"}
        /\ pool' = TRUE \/ pool' = pool
        /\ UNCHANGED <<fresh, closed, primary, overflow, batch, work, dropped, failed,
                       newlines, db, dbUp>>
        /\ \/ UNCHANGED <<file, replay, pos>> /\ pc' = "select"
           \/ replay' = file /\ file' = NoFile /\ pos' = 1
    BY <1>2 DEF Connect
  <2>2. TypeOK'
    <3>1. {pool', failed', dbUp', closed'} \subseteq BOOLEAN
      BY <1>1, <2>1, Zenon
    <3>2. IsFile(file') /\ IsFile(replay') /\ pos' \in Nat \ {0}
      BY <1>1, <2>1
    <3>3. batch' # <<>> => pool'
      <4>1. batch' = batch /\ (batch # <<>> => pool)
        BY <2>1 DEF IInv, TypeOK
      <4>2. pool' = TRUE \/ pool' = pool
        BY <2>1
      <4> QED BY <4>1, <4>2, Zenon
    <3> QED BY <2>1, <3>1, <3>2, <3>3 DEF IInv, TypeOK
  <2>3. Batching'
    BY <2>1 DEF IInv, Batching
  <2>4. Replaying'
    <3>1. DOMAIN replay'.lines = 1..Len(replay'.lines)
      BY <2>2, LenProperties DEF TypeOK, IsFile
    <3> QED BY <1>1, <2>1, <3>1 DEF Replaying
  <2> QED BY <2>2, <2>3, <2>4 DEF IInv
<1>3. CASE ConnectFails
  <2>1. TypeOK'
    BY <1>3 DEF ConnectFails, IInv, TypeOK
  <2>2. Batching' /\ Replaying'
    BY <1>3 DEF ConnectFails, IInv, Batching, Replaying
  <2> QED BY <2>1, <2>2 DEF IInv
<1>4. CASE ReplayLine
  <2>1. /\ pos \in 1..Len(replay.lines)
        /\ replay.lines \in Seq(Seq(Events \cup {Torn}))
    BY <1>1, <1>4, LenProperties DEF ReplayLine, IsFile
  <2>2. replay.lines[pos] \in Seq(Events \cup {Torn})
    BY <2>1, ElementOfSeq
  <2>3. Range(replay.lines[pos]) \subseteq Events
    <3>1. Len(replay.lines[pos]) = 1 /\ replay.lines[pos][1] # Torn
      BY <1>4 DEF ReplayLine, Readable
    <3>2. replay.lines[pos][1] \in Events
      BY <2>2, <3>1, ElementOfSeq
    <3>3. Range(replay.lines[pos]) = {replay.lines[pos][i] : i \in 1..1}
      BY <2>2, <3>1, RangeEquality
    <3> QED BY <3>2, <3>3
  <2>4. TypeOK'
    BY <1>1, <1>4, <2>3 DEF ReplayLine, IInv, TypeOK
  <2>5. Batching'
    BY <1>4 DEF ReplayLine, IInv, Batching
  <2>6. Replaying'
    <3>1. /\ pc' = "replay" /\ pc = "replay" /\ pos' = pos + 1
          /\ file' = file /\ replay' = replay
          /\ db' = db \cup Range(replay.lines[pos])
      BY <1>4 DEF ReplayLine
    <3>2. file.lines = <<>>
      BY <3>1 DEF IInv, Replaying
    <3>3. ASSUME NEW i \in DOMAIN replay.lines, i < pos + 1
          PROVE  Range(replay.lines[i]) \cap Events \subseteq db'
      <4>1. i \in Nat
        BY <2>1, LenProperties
      <4>2. CASE i = pos
        BY <3>1, <4>2
      <4>3. CASE i < pos
        BY <3>1, <4>3 DEF IInv, Replaying
      <4> QED BY <1>1, <3>3, <4>1, <4>2, <4>3
    <3> QED BY <3>1, <3>2, <3>3 DEF Replaying
  <2> QED BY <2>4, <2>5, <2>6 DEF IInv
<1>5. CASE ReplayDone \/ ReplayFails
  <2>1. /\ pc = "replay" /\ pc' = "select" /\ pool' = TRUE /\ pos' = 1
        /\ UNCHANGED <<fresh, closed, primary, overflow, batch, work, dropped, failed,
                       db, dbUp>>
        /\ newlines' = 0 \/ newlines' = newlines
        /\ file' = file \/ file' = replay
        /\ replay' = replay \/ replay' = NoFile
    BY <1>5 DEF ReplayDone, ReplayFails
  <2>2. TypeOK'
    <3>1. {pool', failed', dbUp', closed'} \subseteq BOOLEAN
      BY <1>1, <2>1, Zenon
    <3>2. IsFile(file') /\ IsFile(replay') /\ newlines' \in Nat
      BY <1>1, <2>1 DEF IInv, TypeOK
    <3> QED BY <2>1, <3>1, <3>2 DEF IInv, TypeOK
  <2>3. Batching' /\ Replaying'
    BY <2>1 DEF IInv, Batching, Replaying
  <2> QED BY <2>2, <2>3 DEF IInv
<1> QED BY <1>2, <1>3, <1>4, <1>5

\* The database comes and goes, the server stops, the process dies.
LEMMA WorldStep ==
  ASSUME IInv, FlipDb \/ Shutdown \/ Crash
  PROVE  IInv'
<1> USE DEF disk, source, ram
<1>1. /\ {pool, failed, dbUp, closed} \subseteq BOOLEAN /\ IsFile(file)
      /\ <<>> \in Seq(Events) /\ Len(<<>>) = 0
  BY EmptySeq DEF IInv, TypeOK
<1>2. CASE FlipDb \/ Shutdown
  <2>1. /\ UNCHANGED <<fresh, ram, dropped, pc, pool, why, failed, disk, pos, db>>
        /\ dbUp' = ~dbUp \/ dbUp' = dbUp
        /\ closed' = TRUE \/ closed' = closed
    BY <1>2 DEF FlipDb, Shutdown
  <2>2. {pool', failed', dbUp', closed'} \subseteq BOOLEAN
    BY <1>1, <2>1, Zenon
  <2>3. TypeOK'
    BY <2>1, <2>2 DEF IInv, TypeOK
  <2>4. Batching' /\ Replaying'
    BY <2>1 DEF IInv, Batching, Replaying
  <2> QED BY <2>3, <2>4 DEF IInv
<1>3. CASE Crash
  <2>1. /\ closed' = FALSE /\ failed' = FALSE /\ pool' = dbUp /\ pc' = "select"
        /\ primary' = <<>> /\ overflow' = <<>> /\ batch' = <<>> /\ work' = <<>>
        /\ newlines' = 0 /\ pos' = 1
        /\ UNCHANGED <<fresh, dropped, replay, db, dbUp>>
        /\ file' = file \/ file' = Written(file, Torn)
    BY <1>3 DEF Crash
  <2>2. {pool', failed', dbUp', closed'} \subseteq BOOLEAN
    BY <1>1, <2>1, Zenon
  <2>3. IsFile(file')
    BY <1>1, <2>1, WrittenFile
  <2>4. TypeOK'
    BY <1>1, <2>1, <2>2, <2>3, LedgerAssumptions DEF IInv, TypeOK
  <2>5. Batching' /\ Replaying'
    BY <1>1, <2>1, LedgerAssumptions DEF Batching, Replaying
  <2> QED BY <2>4, <2>5 DEF IInv
<1> QED BY <1>2, <1>3

\* Every step preserves it.
LEMMA NextIInv ==
  ASSUME IInv, [Next]_vars
  PROVE  IInv'
<1>1. CASE UNCHANGED vars
  BY <1>1 DEF vars, IInv, TypeOK, Batching, Replaying
<1>2. ASSUME NEW e \in Events, Record(e) PROVE IInv'
  BY <1>2, RecordStep
<1>3. CASE WriterStep
  BY <1>3, SelectStep, FlushStep, ReplayStep DEF WriterStep
<1> QED BY <1>1, <1>2, <1>3, FlushStep, WorldStep DEF Next

\* It holds in every state.
LEMMA Invariance == Spec => []IInv
BY InitIInv, NextIInv, PTL DEF Spec

(***************************************************************************)
(* Where an event goes                                                     *)
(***************************************************************************)

\* What was replayed is in the table when the last line has been.
LEMMA ReplayedInTable ==
  ASSUME IInv, ReplayDone
  PROVE  InFile(replay) \subseteq db
<1>1. /\ pc = "replay" /\ pos > Len(replay.lines) /\ pos \in Nat
      /\ replay.lines \in Seq(Seq(Events \cup {Torn}))
  BY DEF ReplayDone, IInv, TypeOK, IsFile
<1>2. DOMAIN replay.lines = 1..Len(replay.lines) /\ Len(replay.lines) \in Nat
  BY <1>1, LenProperties
<1>3. ASSUME NEW j \in DOMAIN replay.lines
      PROVE  Range(replay.lines[j]) \cap Events \subseteq db
  <2>1. j < pos
    BY <1>1, <1>2
  <2> QED BY <1>1, <2>1 DEF IInv, Replaying
<1>4. ASSUME NEW y \in InFile(replay) PROVE y \in db
  <2>1. PICK j \in DOMAIN replay.lines : y \in Range(replay.lines[j]) /\ y \in Events
    BY InFileElement
  <2> QED BY <1>3, <2>1
<1> QED BY <1>4

\* The steps of the writer and of the world keep what is in the files, or put
\* it in the table; only Connect overwrites a file.
LEMMA FilesStep ==
  ASSUME IInv, Next
  PROVE  /\ InFile(file) \subseteq (InFiles \cup db)'
         /\ Connect \/ InFile(replay) \subseteq (InFiles \cup db)'
         /\ db \subseteq db'
<1> USE DEF disk, source, ram, InFiles
<1>1. IsFile(file) /\ IsFile(replay)
  BY DEF IInv, TypeOK
<1>2. CASE WriteLine
  <2>1. Head(work) \in Events
    BY <1>2, RangeHeadTail DEF WriteLine, IInv, TypeOK
  <2>2. InFile(file') = InFile(file) \cup {Head(work)}
    BY <1>1, <1>2, <2>1, WrittenFile DEF WriteLine
  <2> QED BY <1>2, <2>2 DEF WriteLine
<1>3. CASE Newline
  <2>1. InFile(file') = InFile(file) /\ InFile(replay') = InFile(replay)
    BY <1>1, <1>3, ClosedFile DEF Newline
  <2> QED BY <1>3, <2>1 DEF Newline
<1>4. CASE Connect
  BY <1>4 DEF Connect
<1>5. CASE ReplayDone
  BY <1>5, ReplayedInTable DEF ReplayDone
<1>6. CASE ReplayFails
  <2>1. file.lines = <<>>
    BY <1>6 DEF ReplayFails, IInv, Replaying
  <2>2. InFile(file) = {}
    <3>1. DOMAIN file.lines = {}
      BY <2>1
    <3> QED BY <3>1, InFileElement
  <2> QED BY <1>6, <2>2 DEF ReplayFails
<1>7. CASE Crash
  <2>1. InFile(Written(file, Torn)) = InFile(file)
    BY <1>1, WrittenFile, LedgerAssumptions
  <2> QED BY <1>7, <2>1 DEF Crash
<1>8. CASE InsertOk \/ InsertFails \/ ReplayLine
  BY <1>8 DEF InsertOk, InsertFails, ReplayLine
<1>9. CASE \/ \E e \in Events : Record(e)
           \/ RecvPrimary \/ RecvOverflow \/ Tick \/ RecvClosed
           \/ Appended \/ AppendFails \/ ConnectFails \/ FlipDb \/ Shutdown
  BY <1>9 DEF Record, RecvPrimary, RecvOverflow, Tick, RecvClosed, Appended,
     AppendFails, ConnectFails, FlipDb, Shutdown
<1> QED BY <1>2, <1>3, <1>4, <1>5, <1>6, <1>7, <1>8, <1>9 DEF Next, WriterStep

\* What leaves the memory of the writer in a step goes to a file or the table.
LEMMA MemoryStep ==
  ASSUME IInv, Next, ~LossyStep
  PROVE  /\ InMemory \cup (fresh \ fresh') \subseteq
              InMemory' \cup InFile(file)' \cup db' \cup dropped'
         /\ dropped \subseteq dropped'
<1> USE DEF disk, source, ram, InMemory
<1>1. /\ primary \in Seq(Events) /\ overflow \in Seq(Events)
      /\ batch \in Seq(Events) /\ work \in Seq(Events) /\ IsFile(file)
  BY DEF IInv, TypeOK
<1>2. ASSUME NEW e \in Events, Record(e)
      PROVE  /\ InMemory \cup (fresh \ fresh') \subseteq InMemory' \cup dropped'
             /\ dropped \subseteq dropped'
  <2>1. /\ Range(Append(primary, e)) = Range(primary) \cup {e}
        /\ Range(Append(overflow, e)) = Range(overflow) \cup {e}
    BY <1>1, RangeAppend
  <2>2. fresh \ fresh' \subseteq {e}
    BY <1>2 DEF Record
  <2> QED BY <1>2, <2>1, <2>2 DEF Record
<1>3. CASE RecvPrimary
  <2>1. /\ Head(primary) \in Events
        /\ Range(primary) = {Head(primary)} \cup Range(Tail(primary))
    BY <1>1, <1>3, RangeHeadTail DEF RecvPrimary
  <2>2. Range(Append(batch, Head(primary))) = Range(batch) \cup {Head(primary)}
    BY <1>1, <2>1, RangeAppend
  <2>3. Range(<<Head(primary)>>) = {Head(primary)} /\ Range(<<>>) = {}
    BY RangeSmall
  <2>4. work = <<>>
    BY <1>3 DEF RecvPrimary, IInv, Batching
  <2>5. /\ primary' = Tail(primary) /\ UNCHANGED <<overflow, dropped, fresh>>
        /\ \/ batch' = Append(batch, Head(primary)) /\ work' = work
           \/ work' = <<Head(primary)>> /\ batch' = batch
    BY <1>3 DEF RecvPrimary
  <2>6. fresh \ fresh' = {}
    BY <2>5
  <2> QED BY <2>1, <2>2, <2>3, <2>4, <2>5, <2>6
<1>4. CASE RecvOverflow
  <2>1. /\ Head(overflow) \in Events
        /\ Range(overflow) = {Head(overflow)} \cup Range(Tail(overflow))
    BY <1>1, <1>4, RangeHeadTail DEF RecvOverflow
  <2>2. Range(<<Head(overflow)>>) = {Head(overflow)} /\ Range(<<>>) = {}
    BY RangeSmall
  <2>3. work = <<>>
    BY <1>4 DEF RecvOverflow, IInv, Batching
  <2> QED BY <1>4, <2>1, <2>2, <2>3 DEF RecvOverflow
<1>5. CASE RecvClosed
  <2>1. overflow = <<>>
    BY <1>5 DEF LossyStep
  <2> QED BY <1>5, <2>1 DEF RecvClosed
<1>6. CASE InsertOk
  BY <1>6 DEF InsertOk
<1>7. CASE InsertFails
  <2>1. work = <<>> /\ Range(<<>>) = {}
    BY <1>7, RangeSmall DEF InsertFails, IInv, Batching
  <2> QED BY <1>7, <2>1 DEF InsertFails
<1>8. CASE WriteLine
  <2>1. /\ Head(work) \in Events
        /\ Range(work) = {Head(work)} \cup Range(Tail(work))
    BY <1>1, <1>8, RangeHeadTail DEF WriteLine
  <2>2. InFile(file') = InFile(file) \cup {Head(work)}
    BY <1>1, <1>8, <2>1, WrittenFile DEF WriteLine
  <2> QED BY <1>8, <2>1, <2>2 DEF WriteLine
<1>9. CASE Appended
  <2>1. work = <<>> /\ Range(<<>>) = {}
    BY <1>9, RangeSmall DEF Appended
  <2>2. failed => Range(batch) \subseteq InFile(file)
    BY <2>1 DEF IInv, Batching
  <2> QED BY <1>9, <2>1, <2>2 DEF Appended
<1>10. CASE \/ Tick \/ Newline \/ Connect \/ ConnectFails \/ ReplayLine
            \/ ReplayDone \/ ReplayFails \/ FlipDb \/ Shutdown
  BY <1>10 DEF Tick, Newline, Connect, ConnectFails, ReplayLine, ReplayDone,
     ReplayFails, FlipDb, Shutdown
<1>11. ~Crash /\ ~AppendFails
  BY DEF LossyStep
<1> QED
  BY <1>2, <1>3, <1>4, <1>5, <1>6, <1>7, <1>8, <1>9, <1>10, <1>11 DEF Next, WriterStep

(***************************************************************************)
(* The theorems                                                            *)
(***************************************************************************)

\* Channels and batch stay within their bounds, the files stay files, and a
\* batch is never left without a pool (ledger/mod.rs:113-205).
THEOREM TypeCorrect == Spec => []TypeOK
<1>1. IInv => TypeOK
  BY DEF IInv
<1> QED BY <1>1, Invariance, PTL

\* No step but the lossy ones takes a recorded event out of the memory, the
\* files, the table and the drop counter (ledger/mod.rs:54-66, 113-173 and
\* 208-312).
THEOREM NoSilentLossHolds == Spec => NoSilentLoss
<1>1. ASSUME IInv, [Next]_vars
      PROVE  [LossyStep \/ Accountable \cup (fresh \ fresh') \subseteq Accountable']_vars
  <2>1. CASE UNCHANGED vars
    BY <2>1
  <2>2. CASE Next /\ ~LossyStep
    <3>1. /\ InMemory \cup (fresh \ fresh') \subseteq
               InMemory' \cup InFile(file)' \cup db' \cup dropped'
          /\ dropped \subseteq dropped'
      BY <1>1, <2>2, MemoryStep
    <3>2. /\ InFile(file) \subseteq (InFiles \cup db)'
          /\ Connect \/ InFile(replay) \subseteq (InFiles \cup db)'
          /\ db \subseteq db'
      BY <1>1, <2>2, FilesStep
    <3>3. Connect => InFile(replay) \subseteq db
      BY <2>2 DEF LossyStep
    <3> QED BY <3>1, <3>2, <3>3 DEF Accountable, InFiles
  <2> QED BY <1>1, <2>1, <2>2
<1> QED BY <1>1, Invariance, PTL DEF Spec, NoSilentLoss

\* Neither a crash nor a disk error takes an event out of the files that is not
\* in the table; only the rename over an old *.replay does
\* (ledger/mod.rs:268-288).
THEOREM FilesKeptHolds == Spec => FilesKept
<1>1. ASSUME IInv, [Next]_vars
      PROVE  [InFile(file) \cup (IF Connect THEN {} ELSE InFile(replay))
                \subseteq (InFiles \cup db)']_vars
  <2>1. CASE UNCHANGED vars
    BY <2>1
  <2>2. CASE Next
    BY <1>1, <2>2, FilesStep
  <2> QED BY <1>1, <2>1, <2>2
<1> QED BY <1>1, Invariance, PTL DEF Spec, FilesKept
=============================================================================
