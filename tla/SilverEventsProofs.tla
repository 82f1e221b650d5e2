------------------------- MODULE SilverEventsProofs -------------------------
(***************************************************************************)
(* Theorems about SilverEvents, for every set of records, window length,   *)
(* overlap and number of retries: how its rows stay unique, never go back  *)
(* and miss no copy, whatever windows are read, read again and overlap.    *)
(***************************************************************************)
EXTENDS SilverEvents, FiniteSetTheorems, WellFoundedInduction, TLAPS

----------------------------------------------------------------------------
(* The order of copies *)

\* What a copy is made of.
LEMMA CopyType ==
  ASSUME NEW c \in Copy
  PROVE  /\ c.ingest \in Nat /\ c.record \in Record
         /\ c.record.partition \in Nat /\ c.record.offset \in Nat
         /\ IdOf(c) \in Id
         /\ c = [record |-> c.record, ingest |-> c.ingest]
BY RecordAssumption, TimeAssumption DEF Copy, Time, IdOf

\* Precedes is a strict total order of copies: no two tie.
LEMMA PrecedesIsTotal ==
  ASSUME NEW c \in Copy, NEW d \in Copy
  PROVE  /\ ~ (Precedes(c, d) /\ Precedes(d, c))
         /\ c # d => Precedes(c, d) \/ Precedes(d, c)
<1>1. ~ (Precedes(c, d) /\ Precedes(d, c))
  BY CopyType DEF Precedes
<1>2. ASSUME c # d PROVE Precedes(c, d) \/ Precedes(d, c)
  <2>1. CASE c.ingest = d.ingest /\ c.record.partition = d.record.partition
               /\ c.record.offset = d.record.offset
    <3>1. c.record = d.record
      BY <2>1, CopyType, OffsetsAreUnique
    <3>2. c = d
      BY <2>1, <3>1, CopyType
    <3> QED
      BY <1>2, <3>2
  <2>2. CASE ~ (c.ingest = d.ingest /\ c.record.partition = d.record.partition
                  /\ c.record.offset = d.record.offset)
    BY <2>2, CopyType DEF Precedes
  <2> QED
    BY <2>1, <2>2
<1> QED
  BY <1>1, <1>2

\* The order of copies is transitive.
LEMMA PrecedesIsTransitive ==
  ASSUME NEW c \in Copy, NEW d \in Copy, NEW e \in Copy, Precedes(c, d), Precedes(d, e)
  PROVE  Precedes(c, e)
BY CopyType DEF Precedes

LessThan == {ss \in Nat \X Nat : ss[1] < ss[2]}

\* Of a set of numbers one is the least.
LEMMA LeastNumber ==
  ASSUME NEW S \in SUBSET Nat, S # {}
  PROVE  \E m \in S : \A x \in S : m <= x
<1>1. IsWellFoundedOn(LessThan, Nat)
  BY NatLessThanWellFounded, Zenon DEF OpToRel, LessThan
<1>2. PICK m \in S : \A x \in S : ~ (<<x, m>> \in LessThan)
  BY <1>1, WFMin
<1>3. ASSUME NEW x \in S PROVE m <= x
  <2>1. <<x, m>> \in Nat \X Nat /\ <<x, m>>[1] = x /\ <<x, m>>[2] = m
    OBVIOUS
  <2>2. ~ (x < m)
    BY <1>2, <2>1, Zenon DEF LessThan
  <2> QED
    BY <2>2
<1> QED
  BY <1>3

\* Of finitely many copies one precedes all others: the one fewest copies precede.
LEMMA FirstCopy ==
  ASSUME NEW S \in SUBSET Copy, S # {}, IsFiniteSet(S)
  PROVE  \E c \in S : \A d \in S \ {c} : Precedes(c, d)
<1> DEFINE Before(c) == {d \in S : Precedes(d, c)}
<1>1. \A c \in S : IsFiniteSet(Before(c)) /\ Cardinality(Before(c)) \in Nat
  BY FS_Subset, FS_CardinalityType
<1>2. PICK c \in S : \A d \in S : Cardinality(Before(c)) <= Cardinality(Before(d))
  <2> DEFINE N == {Cardinality(Before(d)) : d \in S}
  <2>1. N \in SUBSET Nat /\ N # {}
    BY <1>1
  <2>2. PICK n \in N : \A m \in N : n <= m
    BY <2>1, LeastNumber
  <2> QED
    BY <2>2
<1>3. ASSUME NEW d \in S \ {c}, ~ Precedes(c, d) PROVE FALSE
  <2>1. Precedes(d, c)
    BY <1>3, PrecedesIsTotal
  <2>2. Before(d) \subseteq Before(c)
    BY <2>1, PrecedesIsTransitive
  <2>3. d \in Before(c) /\ d \notin Before(d)
    BY <2>1, PrecedesIsTotal
  <2>4. Cardinality(Before(d)) < Cardinality(Before(c))
    <3> HIDE DEF Before
    <3>1. Cardinality(Before(d)) <= Cardinality(Before(c))
            /\ Cardinality(Before(d)) # Cardinality(Before(c))
      BY <1>1, <2>2, <2>3, FS_Subset
    <3> QED
      BY <1>1, <3>1
  <2> QED
    BY <1>1, <1>2, <2>4
<1> QED
  BY <1>3

\* Deduplication keeps one copy of each event, that precedes the others.
LEMMA DedupKeepsOne ==
  ASSUME NEW S \in SUBSET Copy, IsFiniteSet(S)
  PROVE  /\ Dedup(S) \subseteq S
         /\ IdsOf(Dedup(S)) = IdsOf(S)
         /\ \A c, d \in Dedup(S) : IdOf(c) = IdOf(d) => c = d
         /\ \A c \in Dedup(S), d \in S : IdOf(c) = IdOf(d) => ~ Precedes(d, c)
<1>1. Dedup(S) \subseteq S
  BY DEF Dedup
<1>2. \A c, d \in Dedup(S) : IdOf(c) = IdOf(d) => c = d
  BY <1>1, PrecedesIsTotal DEF Dedup
<1>3. \A c \in Dedup(S), d \in S : IdOf(c) = IdOf(d) => ~ Precedes(d, c)
  BY <1>1, PrecedesIsTotal DEF Dedup
<1>4. ASSUME NEW e \in S PROVE IdOf(e) \in IdsOf(Dedup(S))
  <2> DEFINE E == {d \in S : IdOf(d) = IdOf(e)}
  <2>1. E \in SUBSET Copy /\ E # {} /\ IsFiniteSet(E)
    BY FS_Subset
  <2>2. PICK c \in E : \A d \in E \ {c} : Precedes(c, d)
    BY <2>1, FirstCopy
  <2>3. c \in Dedup(S)
    BY <2>2 DEF Dedup
  <2> QED
    BY <2>2, <2>3 DEF IdsOf
<1>5. IdsOf(Dedup(S)) = IdsOf(S)
  BY <1>1, <1>4 DEF IdsOf
<1> QED
  BY <1>1, <1>2, <1>3, <1>5

----------------------------------------------------------------------------
(* The MERGE *)

\* What a MERGE of B, looking in the partitions D, leaves of T.
Kept(T, B, D) == BagToSet(T) \ UNION {Matched(T, c, D) : c \in B}

\* Rows that it does not replace stay as often as they were, and each copy comes in once.
LEMMA MergeRows ==
  ASSUME NEW T, IsABag(T), NEW B, NEW D
  PROVE  /\ IsABag(Merge(T, B, D))
         /\ BagToSet(Merge(T, B, D)) = Kept(T, B, D) \cup B
         /\ \A c \in B : c \notin Kept(T, B, D) => Merge(T, B, D)[c] = 1
         /\ \A t \in Kept(T, B, D) : t \notin B => Merge(T, B, D)[t] = T[t]
<1> DEFINE K == Kept(T, B, D)
<1>1. \A t \in K : T[t] \in Nat /\ T[t] > 0
  BY DEF IsABag, BagToSet, Kept
<1>2. Merge(T, B, D) = [e \in K \cup B |-> (IF e \in K THEN T[e] ELSE 0)
                                             + (IF e \in B THEN 1 ELSE 0)]
  BY DEF Merge, Kept, (+), BagToSet, SetToBag
<1> HIDE DEF K
<1> QED
  BY <1>1, <1>2 DEF IsABag, BagToSet, K

\* A MERGE loses no event: a row is only replaced by a row of the same event.
LEMMA MergeKeepsIds ==
  ASSUME NEW T, IsABag(T), NEW B, NEW D
  PROVE  IdsOf(BagToSet(Merge(T, B, D))) = IdsOf(BagToSet(T)) \cup IdsOf(B)
<1>1. BagToSet(Merge(T, B, D)) = Kept(T, B, D) \cup B
  BY MergeRows
<1>2. \A t \in BagToSet(T) : t \in Kept(T, B, D) \/ IdOf(t) \in IdsOf(B)
  BY DEF Kept, Matched, IdsOf
<1>3. Kept(T, B, D) \subseteq BagToSet(T)
  BY DEF Kept
<1> QED
  BY <1>1, <1>2, <1>3 DEF IdsOf

\* Event i has at most one row in T.
OneRow(T, i) ==
  \A t, u \in BagToSet(T) : IdOf(t) = i /\ IdOf(u) = i => t = u /\ T[t] = 1

\* A MERGE finds the row of each dated event of its batch, as it looks in the partition
\* of the event's own date.
LEMMA MergeKeepsOneRow ==
  ASSUME NEW T, IsABag(T), NEW B,
         \A c, d \in B : IdOf(c) = IdOf(d) => c = d,
         NEW i, Dated(i), OneRow(T, i)
  PROVE  OneRow(Merge(T, B, BatchDates(B)), i)
<1> DEFINE D == BatchDates(B)
           N == Merge(T, B, D)
<1>1. BagToSet(N) = Kept(T, B, D) \cup B
  BY MergeRows
<1>2. CASE i \in IdsOf(B)
  <2>1. PICK c \in B : IdOf(c) = i
    BY <1>2 DEF IdsOf
  <2>2. EventDate[i] \in D
    BY <2>1 DEF BatchDates, Dated
  <2>3. \A t \in BagToSet(T) : IdOf(t) = i => t \in Matched(T, c, D)
    BY <2>1, <2>2 DEF Matched
  <2>4. \A t \in Kept(T, B, D) : IdOf(t) # i
    BY <2>1, <2>3 DEF Kept
  <2>5. \A t \in BagToSet(N) : IdOf(t) = i => t = c
    BY <1>1, <2>1, <2>4
  <2>6. N[c] = 1
    BY <2>1, <2>4, MergeRows
  <2> QED
    BY <2>5, <2>6 DEF OneRow
<1>3. CASE i \notin IdsOf(B)
  <2>1. \A t \in BagToSet(N) : IdOf(t) = i => t \in Kept(T, B, D) /\ t \notin B
    BY <1>1, <1>3 DEF IdsOf
  <2>2. \A t \in Kept(T, B, D) : t \in BagToSet(T)
    BY DEF Kept
  <2>3. \A t \in Kept(T, B, D) : t \notin B => N[t] = T[t]
    BY MergeRows
  <2> QED
    BY <2>1, <2>2, <2>3 DEF OneRow
<1> QED
  BY <1>2, <1>3

\* The rows of an event as RowsOf counts them.
LEMMA RowsCounted ==
  ASSUME IsABag(silver), NEW i
  PROVE  /\ OneRow(silver, i) => Cardinality(RowsOf(i)) <= 1
         /\ i \in IdsOf(BagToSet(silver)) => RowsOf(i) # {}
<1>1. \A t \in BagToSet(silver) : silver[t] \in Nat /\ silver[t] > 0
  BY DEF IsABag, BagToSet
<1>2. ASSUME i \in IdsOf(BagToSet(silver)) PROVE RowsOf(i) # {}
  <2>1. PICK t \in BagToSet(silver) : IdOf(t) = i
    BY <1>2 DEF IdsOf
  <2>2. <<t, 1>> \in {t} \X (1 .. silver[t])
    BY <1>1
  <2> QED
    BY <2>1, <2>2 DEF RowsOf
<1>3. ASSUME OneRow(silver, i) PROVE Cardinality(RowsOf(i)) <= 1
  <2>1. CASE RowsOf(i) = {}
    BY <2>1, FS_EmptySet
  <2>2. CASE RowsOf(i) # {}
    <3>1. PICK t \in BagToSet(silver) : IdOf(t) = i
      BY <2>2 DEF RowsOf
    <3>2. {u \in BagToSet(silver) : IdOf(u) = i} = {t} /\ silver[t] = 1
      BY <1>3, <3>1 DEF OneRow
    <3>3. RowsOf(i) = {t} \X (1 .. 1)
      BY <3>2 DEF RowsOf
    <3>4. {t} \X (1 .. 1) = {<<t, 1>>}
      OBVIOUS
    <3>5. Cardinality({<<t, 1>>}) = 1
      BY FS_Singleton, Zenon
    <3> QED
      BY <3>3, <3>4, <3>5
  <2> QED
    BY <2>1, <2>2
<1> QED
  BY <1>2, <1>3

----------------------------------------------------------------------------
(* The invariant *)

\* Copies are not from the future, and none is unfinished for longer than MaxDelay; runs
\* cover complete intervals only, the latest at last.
TimesFit ==
  /\ \A c \in unfinished \cup bronze : c.ingest <= clock
  /\ \A c \in unfinished : clock <= c.ingest + MaxDelay
  /\ latest * Interval <= clock
  /\ covered \subseteq 1 .. latest
  /\ step # "idle" /\ interval # 0 => interval = latest /\ window = ScheduledWindow(latest)

\* The batch has one copy of each event that the window holds, and what earlier attempts
\* of the run merged is in it again, as the window still holds it.
BatchIsWindow ==
  /\ IsFiniteSet(unfinished \cup bronze)
  /\ step \in {"read", "merged"} =>
       /\ batch \subseteq Read(window)
       /\ \A c, d \in batch : IdOf(c) = IdOf(d) => c = d
  /\ step = "idle" => handed = {}
  /\ handed \subseteq IdsOf(Read(window))
  /\ RetrySeesWhatItMerged

\* Rows are copies that were ingested before the end of some merged window, and a batch
\* that was just read has no copy that comes after a row from the same window.
RowsAreBehind ==
  /\ BagToSet(silver) \subseteq bronze
  /\ \A t \in BagToSet(silver) : t.ingest < reach
  /\ step = "read" =>
       \A t \in BagToSet(silver), u \in batch :
         InWindow(t, window) /\ IdOf(t) = IdOf(u) => ~ Precedes(t, u)

DatedHaveOneRow == \A i \in Id : Dated(i) => OneRow(silver, i)

IInv ==
  /\ TypeOK
  /\ TimesFit
  /\ BatchIsWindow
  /\ RowsAreBehind
  /\ DatedHaveOneRow

\* The invariant holds of the empty table.
LEMMA InitInvariant == Init => IInv
<1> SUFFICES ASSUME Init PROVE IInv
  OBVIOUS
<1> USE DEF Init
<1>1. BagToSet(silver) = {} /\ IsABag(silver)
  BY DEF BagToSet, EmptyBag, SetToBag, IsABag
<1>2. TypeOK
  BY <1>1, TimeAssumption DEF TypeOK, Time
<1>3. TimesFit
  BY TimeAssumption DEF TimesFit
<1>4. BatchIsWindow
  BY FS_EmptySet DEF BatchIsWindow, RetrySeesWhatItMerged
<1>5. RowsAreBehind /\ DatedHaveOneRow
  BY <1>1 DEF RowsAreBehind, DatedHaveOneRow, OneRow
<1> QED
  BY <1>2, <1>3, <1>4, <1>5 DEF IInv

\* What a MERGE of a batch with dates does to Silver.
LEMMA MergeBatchRows ==
  ASSUME IInv, MergeBatch, BatchDates(batch) # {}
  PROVE  /\ silver' = Merge(silver, batch, BatchDates(batch))
         /\ IsABag(silver')
         /\ BagToSet(silver') \subseteq BagToSet(silver) \cup batch
         /\ IdsOf(BagToSet(silver')) = IdsOf(BagToSet(silver)) \cup IdsOf(batch)
         /\ \A i \in Id : Dated(i) => OneRow(silver', i)
<1>1. /\ silver' = Merge(silver, batch, BatchDates(batch))
      /\ IsABag(silver)
      /\ \A c, d \in batch : IdOf(c) = IdOf(d) => c = d
  BY DEF MergeBatch, IInv, TypeOK, BatchIsWindow
<1>2. BagToSet(silver') \subseteq BagToSet(silver) \cup batch
  BY <1>1, MergeRows DEF Kept
<1>3. \A i \in Id : Dated(i) => OneRow(silver', i)
  BY <1>1, MergeKeepsOneRow DEF IInv, DatedHaveOneRow
<1> QED
  BY <1>1, <1>2, <1>3, MergeRows, MergeKeepsIds

\* A batch without dates leaves Silver alone.
LEMMA MergeBatchSkips ==
  ASSUME MergeBatch, BatchDates(batch) = {}
  PROVE  UNCHANGED <<silver, reach, handed>>
BY DEF MergeBatch

\* Every step leaves the variables well-formed.
LEMMA StepTypes == IInv /\ [Next]_vars => TypeOK'
<1> SUFFICES ASSUME IInv, [Next]_vars PROVE TypeOK'
  OBVIOUS
<1> USE DEF TypeOK, flink, history
<1>0. TypeOK
  BY DEF IInv
<1>1. CASE Tick
  BY <1>0, <1>1, TimeAssumption DEF Tick, run, Time
<1>2. CASE Ingest
  BY <1>0, <1>2 DEF Ingest, run, Copy
<1>3. CASE FinishFiles
  BY <1>0, <1>3 DEF FinishFiles, run
<1>4. CASE StartScheduled
  BY <1>0, <1>4, TimeAssumption DEF StartScheduled, Begin, ScheduledWindow, Time
<1>5. CASE StartByHand
  <2>1. \A w \in WindowsByHand : w \in [from : Int, to : Int]
    BY <1>0, TimeAssumption, WindowsAssumption DEF WindowsByHand, Time
  <2> QED
    BY <1>0, <1>5, <2>1, TimeAssumption DEF StartByHand, Begin
<1>6. CASE ReadWindow
  BY <1>0, <1>6 DEF ReadWindow, Dedup, Read
<1>7. CASE MergeBatch
  <2>1. IsABag(silver') /\ BagToSet(silver') \subseteq Copy
    BY <1>0, <1>7, MergeBatchRows, MergeBatchSkips
  <2>2. reach' \in Int /\ handed' \subseteq Id
    BY <1>0, <1>7, CopyType DEF MergeBatch, IdsOf
  <2> QED
    BY <1>0, <1>7, <2>1, <2>2 DEF MergeBatch
<1>8. CASE Succeed
  BY <1>0, <1>8, TimeAssumption DEF Succeed, EndRun
<1>9. CASE FailAttempt
  BY <1>0, <1>9, TimeAssumption DEF FailAttempt
<1>10. CASE FailRun
  BY <1>0, <1>10 DEF FailRun, EndRun
<1>11. CASE UNCHANGED vars
  BY <1>0, <1>11 DEF vars, run
<1> QED
  BY <1>1, <1>2, <1>3, <1>4, <1>5, <1>6, <1>7, <1>8, <1>9, <1>10, <1>11
  DEF Next, RunStep

\* The number of the last complete interval.
LEMMA Intervals ==
  ASSUME NEW t \in Nat
  PROVE  /\ t \div Interval \in Nat
         /\ (t \div Interval) * Interval <= t
         /\ t < (t \div Interval + 1) * Interval
BY TimeAssumption

\* Copies and intervals stay within what the clock has reached.
LEMMA StepTimes == IInv /\ [Next]_vars => TimesFit'
<1> SUFFICES ASSUME IInv, [Next]_vars PROVE TimesFit'
  OBVIOUS
<1> USE DEF TimesFit, flink, history
<1>0. /\ TimesFit /\ clock \in Nat /\ latest \in Nat /\ interval \in Nat
      /\ unfinished \subseteq Copy /\ bronze \subseteq Copy
  BY TimeAssumption DEF IInv, TypeOK, Time
<1>1. CASE Tick
  BY <1>0, <1>1, CopyType, TimeAssumption DEF Tick, run
<1>2. CASE Ingest
  <2>1. PICK r \in Record : unfinished' = unfinished \cup {[record |-> r, ingest |-> clock]}
    BY <1>2 DEF Ingest
  <2> QED
    BY <1>0, <1>2, <2>1, TimeAssumption DEF Ingest, run
<1>3. CASE FinishFiles
  BY <1>0, <1>3 DEF FinishFiles, run
<1>4. CASE StartScheduled
  <2>1. /\ latest' = clock \div Interval /\ interval' = latest'
        /\ window' = ScheduledWindow(latest')
        /\ latest < latest'
        /\ UNCHANGED <<clock, unfinished, bronze, covered>>
    BY <1>4 DEF StartScheduled, Begin, ScheduledWindow
  <2>2. latest' \in Nat /\ latest' * Interval <= clock
    BY <1>0, <2>1, Intervals
  <2>3. 1 .. latest \subseteq 1 .. latest'
    BY <1>0, <2>1, <2>2
  <2> QED
    BY <1>0, <2>1, <2>2, <2>3
<1>5. CASE StartByHand
  BY <1>0, <1>5 DEF StartByHand, Begin
<1>6. CASE ReadWindow
  BY <1>0, <1>6 DEF ReadWindow
<1>7. CASE MergeBatch
  BY <1>0, <1>7 DEF MergeBatch
<1>8. CASE Succeed
  <2>1. {interval} \ {0} \subseteq 1 .. latest
    BY <1>0, <1>8 DEF Succeed
  <2> QED
    BY <1>0, <1>8, <2>1 DEF Succeed, EndRun
<1>9. CASE FailAttempt
  BY <1>0, <1>9 DEF FailAttempt
<1>10. CASE FailRun
  BY <1>0, <1>10 DEF FailRun, EndRun
<1>11. CASE UNCHANGED vars
  BY <1>0, <1>11 DEF vars, run
<1> QED
  BY <1>1, <1>2, <1>3, <1>4, <1>5, <1>6, <1>7, <1>8, <1>9, <1>10, <1>11
  DEF Next, RunStep

\* The batch is what the window holds, and holds what the run has merged.
LEMMA StepBatch == IInv /\ [Next]_vars => BatchIsWindow'
<1> SUFFICES ASSUME IInv, [Next]_vars PROVE BatchIsWindow'
  OBVIOUS
<1> USE DEF BatchIsWindow, RetrySeesWhatItMerged, flink, history
<1>0. BatchIsWindow /\ batch \subseteq Copy /\ bronze \subseteq Copy
  BY DEF IInv, TypeOK
<1>1. CASE Tick
  BY <1>0, <1>1 DEF Tick, run, Read
<1>2. CASE Ingest
  <2>1. PICK r \in Record : unfinished' = unfinished \cup {[record |-> r, ingest |-> clock]}
    BY <1>2 DEF Ingest
  <2>2. (unfinished \cup bronze)'
          = (unfinished \cup bronze) \cup {[record |-> r, ingest |-> clock]}
    BY <1>2, <2>1 DEF Ingest
  <2>3. IsFiniteSet((unfinished \cup bronze)')
    BY <1>0, <2>2, FS_AddElement
  <2> QED
    BY <1>0, <1>2, <2>3 DEF Ingest, run, Read
<1>3. CASE FinishFiles
  <2>1. /\ (unfinished \cup bronze)' = unfinished \cup bronze
        /\ bronze \subseteq bronze'
        /\ UNCHANGED <<step, window, batch, handed>>
    BY <1>3 DEF FinishFiles, run
  <2>2. Read(window) \subseteq Read(window)'
    BY <2>1 DEF Read
  <2>3. IdsOf(Read(window)) \subseteq IdsOf(Read(window))'
    BY <2>2 DEF IdsOf
  <2> QED
    BY <1>0, <2>1, <2>2, <2>3
<1>4. CASE StartScheduled \/ StartByHand
  <2>1. step' = "start" /\ handed' = {} /\ UNCHANGED <<unfinished, bronze>>
    BY <1>4 DEF StartScheduled, StartByHand, Begin
  <2> QED
    BY <1>0, <2>1
<1>5. CASE ReadWindow
  <2>1. /\ batch' = Dedup(Read(window)) /\ step' = "read"
        /\ UNCHANGED <<unfinished, bronze, window, handed>>
    BY <1>5 DEF ReadWindow
  <2>2. Read(window) \subseteq Copy /\ IsFiniteSet(Read(window))
    BY <1>0, FS_Subset DEF Read
  <2>3. /\ batch' \subseteq Read(window) /\ IdsOf(batch') = IdsOf(Read(window))
        /\ \A c, d \in batch' : IdOf(c) = IdOf(d) => c = d
    BY <2>1, <2>2, DedupKeepsOne
  <2>4. Read(window)' = Read(window)
    BY <2>1 DEF Read
  <2> QED
    BY <1>0, <2>1, <2>3, <2>4
<1>6. CASE MergeBatch
  <2>1. /\ handed' \subseteq handed \cup IdsOf(batch)
        /\ step = "read" /\ step' = "merged"
        /\ UNCHANGED <<unfinished, bronze, window, batch>>
    BY <1>6 DEF MergeBatch
  <2>2. IdsOf(batch) \subseteq IdsOf(Read(window)) /\ Read(window)' = Read(window)
    BY <1>0, <2>1 DEF IdsOf, Read
  <2> QED
    BY <1>0, <2>1, <2>2
<1>7. CASE Succeed \/ FailRun
  <2>1. step' = "idle" /\ handed' = {} /\ UNCHANGED <<unfinished, bronze>>
    BY <1>7 DEF Succeed, FailRun, EndRun
  <2> QED
    BY <1>0, <2>1
<1>8. CASE FailAttempt
  <2>1. step' = "start" /\ UNCHANGED <<unfinished, bronze, window, handed>>
    BY <1>8 DEF FailAttempt
  <2> QED
    BY <1>0, <2>1 DEF Read
<1>9. CASE UNCHANGED vars
  BY <1>0, <1>9 DEF vars, run, Read
<1> QED
  BY <1>1, <1>2, <1>3, <1>4, <1>5, <1>6, <1>7, <1>8, <1>9 DEF Next, RunStep

\* Rows stay behind the reach of the windows, one for each dated event.
LEMMA StepRows == IInv /\ [Next]_vars => RowsAreBehind' /\ DatedHaveOneRow'
<1> SUFFICES ASSUME IInv, [Next]_vars PROVE RowsAreBehind' /\ DatedHaveOneRow'
  OBVIOUS
<1> USE DEF RowsAreBehind, DatedHaveOneRow, flink, history
<1>0. /\ RowsAreBehind /\ DatedHaveOneRow
      /\ bronze \subseteq Copy /\ reach \in Int /\ window \in [from : Int, to : Int]
  BY DEF IInv, TypeOK
<1>1. CASE Tick \/ Ingest \/ FinishFiles
  <2>1. bronze \subseteq bronze' /\ UNCHANGED <<silver, step, window, batch, reach>>
    BY <1>1 DEF Tick, Ingest, FinishFiles, run
  <2> QED
    BY <1>0, <2>1
<1>2. CASE StartScheduled \/ StartByHand \/ Succeed \/ FailRun \/ FailAttempt
  <2>1. step' # "read" /\ UNCHANGED <<bronze, silver, reach>>
    BY <1>2 DEF StartScheduled, StartByHand, Begin, Succeed, FailRun, EndRun, FailAttempt
  <2> QED
    BY <1>0, <2>1
<1>3. CASE ReadWindow
  <2>1. batch' = Dedup(Read(window)) /\ UNCHANGED <<bronze, silver, window, reach>>
    BY <1>3 DEF ReadWindow
  <2>2. Read(window) \subseteq Copy /\ IsFiniteSet(Read(window))
    BY <1>0, FS_Subset DEF Read, IInv, BatchIsWindow
  <2>3. ASSUME NEW t \in BagToSet(silver), NEW u \in batch',
               InWindow(t, window), IdOf(t) = IdOf(u)
        PROVE  ~ Precedes(t, u)
    <3>1. t \in Read(window)
      BY <1>0, <2>3 DEF Read
    <3> QED
      BY <2>1, <2>2, <2>3, <3>1, DedupKeepsOne
  <2> QED
    BY <1>0, <2>1, <2>3
<1>4. CASE MergeBatch
  <2>1. step' = "merged" /\ UNCHANGED <<bronze, window, batch>>
    BY <1>4 DEF MergeBatch
  <2>2. CASE BatchDates(batch) = {}
    BY <1>0, <1>4, <2>1, <2>2, MergeBatchSkips
  <2>3. CASE BatchDates(batch) # {}
    <3>1. /\ BagToSet(silver') \subseteq BagToSet(silver) \cup batch
          /\ \A i \in Id : Dated(i) => OneRow(silver', i)
      BY <1>4, <2>3, MergeBatchRows
    <3>2. reach' \in Int /\ reach' >= reach /\ reach' >= window.to
      BY <1>0, <1>4, <2>3 DEF MergeBatch
    <3>3. batch \subseteq bronze /\ \A c \in batch : c.ingest < window.to
      BY <1>4 DEF MergeBatch, IInv, TypeOK, BatchIsWindow, Read, InWindow
    <3>4. ASSUME NEW t \in BagToSet(silver') PROVE t \in bronze /\ t.ingest < reach'
      <4>1. t \in bronze /\ (t.ingest < reach \/ t.ingest < window.to)
        BY <1>0, <3>1, <3>3
      <4>2. t.ingest \in Nat
        BY <1>0, <4>1, CopyType
      <4> QED
        BY <1>0, <3>2, <4>1, <4>2
    <3> QED
      BY <2>1, <3>1, <3>4
  <2> QED
    BY <2>2, <2>3
<1>5. CASE UNCHANGED vars
  BY <1>0, <1>5 DEF vars, run
<1> QED
  BY <1>1, <1>2, <1>3, <1>4, <1>5 DEF Next, RunStep

\* The invariant of the windows, copies and rows holds in every state.
THEOREM SilverInvariant == Spec => []IInv
<1>1. IInv /\ [Next]_vars => IInv'
  BY StepTypes, StepTimes, StepBatch, StepRows DEF IInv
<1> QED
  BY <1>1, InitInvariant, PTL DEF Spec

\* The variables keep their types: Silver is a bag of copies that Bronze has, an attempt's
\* batch comes from Bronze, and no task fails more often than it may.
THEOREM SilverTypes == Spec => []TypeOK
<1>1. IInv => TypeOK
  BY DEF IInv
<1> QED
  BY <1>1, SilverInvariant, PTL

\* The date-pruned MERGE keeps one row of each event whose time parses, whatever windows
\* are read, read again by hand or by a retry, and overlap.
THEOREM DatedEventsStayUnique == Spec => []DatedEventsAreUnique
<1>1. IInv => DatedEventsAreUnique
  BY RowsCounted DEF IInv, TypeOK, DatedHaveOneRow, DatedEventsAreUnique
<1> QED
  BY <1>1, SilverInvariant, PTL

\* An attempt that follows one that died reads every event that one merged: the dates and
\* keys that later tasks get from it leave out nothing the run changed.
THEOREM RetriesSeeWhatTheyMerged == Spec => []RetrySeesWhatItMerged
<1>1. IInv => RetrySeesWhatItMerged
  BY DEF IInv, BatchIsWindow
<1> QED
  BY <1>1, SilverInvariant, PTL

\* The MERGE of a window that ends no earlier than any merged before replaces no row by a
\* copy that the deduplication would have put behind it.
LEMMA MergeGoesForward ==
  ASSUME IInv, [Next]_vars, silver' # silver, step = "read", window.to >= reach,
         NEW t \in BagToSet(silver), NEW u \in BagToSet(silver'),
         IdOf(t) = IdOf(u), Dated(IdOf(t))
  PROVE  ~ Precedes(t, u)
<1>1. MergeBatch /\ BatchDates(batch) # {}
  BY DEF Next, RunStep, Tick, Ingest, FinishFiles, StartScheduled, StartByHand, Begin,
         ReadWindow, MergeBatch, Succeed, EndRun, FailAttempt, FailRun, vars, run, history
<1>2. u \in BagToSet(silver) \cup batch
  BY <1>1, MergeBatchRows
<1>3. t \in Copy /\ u \in Copy /\ reach \in Int /\ window \in [from : Int, to : Int]
  BY <1>2 DEF IInv, TypeOK
<1>4. CASE u \in BagToSet(silver)
  <2>1. t = u
    BY <1>3, <1>4, CopyType DEF IInv, DatedHaveOneRow, OneRow
  <2> QED
    BY <1>3, <2>1, PrecedesIsTotal
<1>5. CASE u \in batch
  <2>1. InWindow(u, window)
    BY <1>5 DEF IInv, BatchIsWindow, Read
  <2>2. CASE InWindow(t, window)
    BY <1>5, <2>2 DEF IInv, RowsAreBehind
  <2>3. CASE ~ InWindow(t, window)
    <3>1. t.ingest < reach
      BY DEF IInv, RowsAreBehind
    <3>2. t.ingest < u.ingest
      BY <1>3, <2>1, <2>3, <3>1, CopyType DEF InWindow
    <3> QED
      BY <1>3, <3>2, CopyType DEF Precedes
  <2> QED
    BY <2>2, <2>3
<1> QED
  BY <1>2, <1>4, <1>5

\* As long as windows are merged in the order of their ends, no MERGE puts an earlier copy
\* in the place of a later one.
THEOREM WindowsInOrderGoForward == Spec => InOrderMergesGoForward
<1>1. IInv /\ [Next]_vars =>
        [step = "read" /\ step' = "merged" /\ window.to >= reach =>
           \A t \in BagToSet(silver), u \in BagToSet(silver') :
             IdOf(t) = IdOf(u) /\ Dated(IdOf(t)) => ~ Precedes(t, u)]_silver
  BY MergeGoesForward
<1> QED
  BY <1>1, SilverInvariant, PTL DEF Spec, InOrderMergesGoForward

----------------------------------------------------------------------------
(* Windows that overlap by the longest delay miss no copy *)

\* What the run of an interval has read and merged when its end makes the interval
\* covered: every event of the copies that no later window holds.
RunCovers ==
  /\ step \in {"read", "merged"} /\ interval # 0 =>
       \A c \in unfinished \cup bronze :
         LastWindow(c) = interval => IdOf(c) \in IdsOf(batch)
  /\ step = "merged" =>
       \A i \in IdsOf(batch) : Dated(i) => i \in IdsOf(BagToSet(silver))
  /\ \A c \in unfinished \cup bronze :
       LastWindow(c) \in covered /\ Dated(IdOf(c)) => IdOf(c) \in IdsOf(BagToSet(silver))

\* The last window that holds a copy ends an overlap after it, or later.
LEMMA LastWindowBounds ==
  ASSUME NEW c \in Copy
  PROVE  /\ LastWindow(c) \in Nat
         /\ (LastWindow(c) - 1) * Interval <= c.ingest + Overlap
         /\ c.ingest + Overlap < LastWindow(c) * Interval
<1> DEFINE n == (c.ingest + Overlap) \div Interval
<1>1. c.ingest + Overlap \in Nat
  BY CopyType, TimeAssumption
<1>2. n \in Nat /\ n * Interval <= c.ingest + Overlap /\ c.ingest + Overlap < (n + 1) * Interval
  BY <1>1, Intervals
<1>3. LastWindow(c) = n + 1
  BY DEF LastWindow
<1> HIDE DEF n
<1> QED
  BY <1>2, <1>3

\* When the run of an interval reads, the copies no later window holds are all in Bronze,
\* and in its window.
LEMMA WindowIsComplete ==
  ASSUME MaxDelay <= Overlap, IInv, step = "start", interval # 0,
         NEW c \in unfinished \cup bronze, LastWindow(c) = interval
  PROVE  c \in Read(window)
<1>1. /\ c \in Copy /\ clock \in Nat /\ latest \in Nat
      /\ interval = latest /\ window = ScheduledWindow(latest)
      /\ latest * Interval <= clock
  BY DEF IInv, TypeOK, TimesFit, Time
<1>2. /\ (latest - 1) * Interval <= c.ingest + Overlap
      /\ c.ingest + Overlap < latest * Interval
  BY <1>1, LastWindowBounds
<1>3. c \notin unfinished
  <2>1. c.ingest + MaxDelay < clock
    BY <1>1, <1>2, CopyType, TimeAssumption
  <2>2. \A d \in unfinished : clock <= d.ingest + MaxDelay
    BY DEF IInv, TimesFit
  <2> QED
    BY <1>1, <2>1, <2>2, CopyType, TimeAssumption
<1>4. InWindow(c, window)
  <2> DEFINE a == (latest - 1) * Interval
             b == latest * Interval
  <2>1. a \in Int /\ b \in Int
    BY <1>1, TimeAssumption
  <2>2. a <= c.ingest + Overlap /\ c.ingest + Overlap < b
    BY <1>2
  <2>3. window.from = a - Overlap /\ window.to = b
    BY <1>1 DEF ScheduledWindow
  <2> HIDE DEF a, b
  <2> QED
    BY <1>1, <2>1, <2>2, <2>3, CopyType, TimeAssumption DEF InWindow
<1> QED
  BY <1>3, <1>4 DEF Read

\* A copy that arrives now belongs to a window that no run has read.
LEMMA NewCopyIsAhead ==
  ASSUME IInv, NEW c \in Copy, c.ingest = clock
  PROVE  LastWindow(c) > latest
<1>1. clock \in Nat /\ latest \in Nat /\ latest * Interval <= clock
  BY DEF IInv, TypeOK, TimesFit, Time
<1>2. LastWindow(c) \in Nat /\ clock + Overlap < LastWindow(c) * Interval
  BY LastWindowBounds
<1>3. latest * Interval < LastWindow(c) * Interval
  BY <1>1, <1>2, TimeAssumption
<1> QED
  BY <1>1, <1>2, <1>3, TimeAssumption

\* A run in progress covers the copies its window is the last one to hold.
LEMMA StepCovers ==
  ASSUME MaxDelay <= Overlap, IInv, RunCovers, [Next]_vars
  PROVE  RunCovers'
<1> USE DEF RunCovers, flink, history
<1>0. /\ unfinished \cup bronze \subseteq Copy
      /\ covered \subseteq 1 .. latest /\ latest \in Nat
      /\ step # "idle" /\ interval # 0 => interval = latest
  BY DEF IInv, TypeOK, TimesFit
<1>1. CASE Tick
  BY <1>1 DEF Tick, run, LastWindow
<1>2. CASE Ingest
  <2>1. PICK c \in Copy : c.ingest = clock /\ unfinished' = unfinished \cup {c}
    BY <1>2 DEF Ingest, Copy, IInv, TypeOK
  <2>2. LastWindow(c) > latest /\ LastWindow(c) \in Nat
    BY <2>1, NewCopyIsAhead, LastWindowBounds
  <2>3. LastWindow(c) \notin covered /\ (step # "idle" /\ interval # 0 => LastWindow(c) # interval)
    BY <1>0, <2>2
  <2>4. UNCHANGED <<bronze, silver, step, interval, batch, covered>>
    BY <1>2 DEF Ingest, run
  <2> QED
    BY <2>1, <2>3, <2>4 DEF LastWindow
<1>3. CASE FinishFiles
  <2>1. /\ (unfinished \cup bronze)' = unfinished \cup bronze
        /\ UNCHANGED <<silver, step, interval, batch, covered>>
    BY <1>3 DEF FinishFiles, run
  <2> QED
    BY <2>1 DEF LastWindow
<1>4. CASE StartScheduled \/ StartByHand \/ FailAttempt \/ FailRun
  <2>1. step' \in {"idle", "start"} /\ UNCHANGED <<unfinished, bronze, silver, covered>>
    BY <1>4 DEF StartScheduled, StartByHand, Begin, FailAttempt, FailRun, EndRun
  <2> QED
    BY <2>1 DEF LastWindow
<1>5. CASE ReadWindow
  <2>1. /\ batch' = Dedup(Read(window)) /\ step = "start" /\ step' = "read"
        /\ UNCHANGED <<unfinished, bronze, silver, interval, covered>>
    BY <1>5 DEF ReadWindow
  <2>2. IdsOf(batch') = IdsOf(Read(window))
    <3>1. Read(window) \subseteq Copy /\ IsFiniteSet(Read(window))
      BY <1>0, FS_Subset DEF Read, IInv, BatchIsWindow
    <3> QED
      BY <2>1, <3>1, DedupKeepsOne
  <2>3. ASSUME interval # 0, NEW c \in unfinished \cup bronze, LastWindow(c) = interval
        PROVE  IdOf(c) \in IdsOf(batch')
    BY <2>1, <2>2, <2>3, WindowIsComplete DEF IdsOf
  <2> QED
    BY <2>1, <2>3 DEF LastWindow
<1>6. CASE MergeBatch
  <2>1. step = "read" /\ UNCHANGED <<unfinished, bronze, interval, batch, covered>>
    BY <1>6 DEF MergeBatch
  <2>2. /\ IdsOf(BagToSet(silver)) \subseteq IdsOf(BagToSet(silver'))
        /\ \A i \in IdsOf(batch) : Dated(i) => i \in IdsOf(BagToSet(silver'))
    <3>1. CASE BatchDates(batch) # {}
      BY <1>6, <3>1, MergeBatchRows
    <3>2. CASE BatchDates(batch) = {}
      <4>1. \A i \in IdsOf(batch) : ~ Dated(i)
        BY <3>2 DEF BatchDates, IdsOf, Dated
      <4> QED
        BY <1>6, <3>2, <4>1, MergeBatchSkips
    <3> QED
      BY <3>1, <3>2
  <2> QED
    BY <2>1, <2>2 DEF LastWindow
<1>7. CASE Succeed
  <2>1. /\ step = "merged" /\ step' = "idle" /\ covered' = covered \cup ({interval} \ {0})
        /\ UNCHANGED <<unfinished, bronze, silver>>
    BY <1>7 DEF Succeed, EndRun
  <2> QED
    BY <2>1 DEF LastWindow
<1>8. CASE UNCHANGED vars
  BY <1>8 DEF vars, run, LastWindow
<1> QED
  BY <1>1, <1>2, <1>3, <1>4, <1>5, <1>6, <1>7, <1>8 DEF Next, RunStep

\* If no copy takes longer than the overlap from its ingest_ts to a finished part file, no
\* copy slips between windows: the event of one whose last window was read and merged is
\* in Silver.
THEOREM WindowsAlwaysCoverBronze ==
  ASSUME MaxDelay <= Overlap
  PROVE  Spec => []WindowsCoverBronze
<1>1. Init => RunCovers
  BY DEF Init, RunCovers
<1>2. IInv /\ RunCovers /\ [Next]_vars => RunCovers'
  BY StepCovers
<1>3. IInv /\ RunCovers => WindowsCoverBronze
  BY RowsCounted DEF RunCovers, WindowsCoverBronze, IInv, TypeOK
<1> QED
  BY <1>1, <1>2, <1>3, SilverInvariant, PTL DEF Spec
=============================================================================
