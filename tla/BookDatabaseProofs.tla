------------------------- MODULE BookDatabaseProofs -------------------------
(***************************************************************************)
(* Theorems about BookDatabase: its types, that memory is not ahead of the *)
(* file, that only overlapping history requests get in each other's way,   *)
(* and that a history is complete and has no more bins than it should.     *)
(***************************************************************************)
EXTENDS BookDatabase, AmountLemmas, TLAPS

\* An insert that has begun has a date, one that is past its commit is in the book, and
\* one that has failed was swallowed.
InsertsAccounted ==
  \A i \in Inserts :
    /\ insert[i] \in {"begun", "written"} => date[i] # None
    /\ insert[i] = "committed" => book[i] # None
    /\ insert[i] = "failed" => i \in swallowed

\* Two requests at a time have both been marked.
TogetherOverlap ==
  \A g, h \in UnderWay : g # h => g \in overlapped /\ h \in overlapped

\* Whoever is alone has the handle it opened, and it is open.
AloneHasHandle == \A h \in UnderWay \ overlapped : handle = h /\ h \in openHandles

\* A query fails once it is made.
RefusedLate == \A h \in refused : history[h] \notin {"new", "open"}

HandleInv == RefusedLate /\ TogetherOverlap /\ AloneHasHandle /\ TroubleOnlyByOverlap

IInv == TypeOK /\ InsertsAccounted /\ RememberedIsBooked /\ HandleInv

-----------------------------------------------------------------------------

LEMMA NoneIsNoTime == None \notin Time /\ Time \subseteq Nat
  BY BookAssumption DEF Time

LEMMA BookInit == ASSUME Init PROVE IInv
<1> USE BookAssumption DEF Init
<1>1. TypeOK
  <2>1. 0 \in Time
    BY DEF Time
  <2>2. ASSUME NEW h \in Histories PROVE answer[h].at \in Time /\ answer[h].err \in BOOLEAN
    <3>1. answer[h] = [items |-> <<>>, at |-> 0, err |-> FALSE]
      OBVIOUS
    <3>2. answer[h].at = 0 /\ answer[h].err \in BOOLEAN
      BY ONLY <3>1
    <3> QED
      BY ONLY <2>1, <3>2
  <2>3. DOMAIN answer = Histories
    OBVIOUS
  <2> QED
    BY <2>2, <2>3 DEF TypeOK, Time
<1>2. InsertsAccounted /\ RememberedIsBooked
  BY DEF InsertsAccounted, RememberedIsBooked, Rows
<1>3. HandleInv
  BY DEF HandleInv, RefusedLate, TogetherOverlap, AloneHasHandle,
         TroubleOnlyByOverlap, UnderWay, Queried
<1> QED
  BY <1>1, <1>2, <1>3 DEF IInv

(* The start of a window is a whole number: Step divides. *)
LEMMA WindowIsInt ==
  ASSUME NEW h \in Histories, NEW t \in Nat PROVE From(h, t) \in Int
<1>1. Offset[h] \in Nat /\ (t + Offset[h]) \div Step \in Int
  BY BookAssumption
<1>2. ((t + Offset[h]) \div Step) * Step \in Int
  BY <1>1, BookAssumption
<1>3. Step * Bins \in Int
  BY BookAssumption
<1> QED
  BY <1>1, <1>2, <1>3, BookAssumption DEF From, Till

-----------------------------------------------------------------------------
(* The steps of an insert, and the end of the process *)

LEMMA ExitStep == ASSUME IInv, NEW i \in Inserts, Exit(i) PROVE IInv'
<1> USE DEF Exit
<1>1. TypeOK'
  BY BookAssumption DEF IInv, TypeOK
<1>2. InsertsAccounted'
  BY DEF IInv, TypeOK, InsertsAccounted
<1>3. RememberedIsBooked'
  BY DEF RememberedIsBooked
<1>4. UnderWay' = {} /\ Queried' \subseteq Queried
  BY DEF IInv, TypeOK, UnderWay, Queried
<1>5. RefusedLate'
  BY DEF IInv, TypeOK, HandleInv, RefusedLate
<1>6. HandleInv'
  BY <1>4, <1>5 DEF IInv, HandleInv, TogetherOverlap, AloneHasHandle, TroubleOnlyByOverlap
<1> QED
  BY <1>1, <1>2, <1>3, <1>6 DEF IInv

LEMMA InsertStep ==
  ASSUME IInv, NEW i \in Inserts,
         Begin(i) \/ Exec(i) \/ ExecFails(i) \/ Commit(i) \/ CommitFails(i) \/ Remember(i)
  PROVE  IInv'
<1>1. now \in Time /\ now # None
  BY NoneIsNoTime DEF IInv, TypeOK
<1>2. UNCHANGED <<handle, openHandles, history, refused, overlapped>>
  BY DEF Begin, Exec, ExecFails, Commit, CommitFails, Remember, reading
<1>3. HandleInv'
  BY <1>2 DEF IInv, HandleInv, RefusedLate, TogetherOverlap, AloneHasHandle,
         TroubleOnlyByOverlap, UnderWay,
              Queried
<1>4. CASE Begin(i)
  <2>1. TypeOK'
    BY <1>1, <1>4 DEF Begin, IInv, TypeOK, reading
  <2>2. InsertsAccounted' /\ RememberedIsBooked'
    BY <1>1, <1>4 DEF Begin, IInv, TypeOK, InsertsAccounted, RememberedIsBooked, Rows
  <2> QED
    BY <1>3, <2>1, <2>2 DEF IInv
<1>5. CASE Exec(i)
  <2>1. TypeOK'
    BY <1>5 DEF Exec, IInv, TypeOK, reading
  <2>2. InsertsAccounted' /\ RememberedIsBooked'
    BY <1>5 DEF Exec, IInv, TypeOK, InsertsAccounted, RememberedIsBooked, Rows
  <2> QED
    BY <1>3, <2>1, <2>2 DEF IInv
<1>6. CASE ExecFails(i)
  <2>1. TypeOK'
    BY <1>6 DEF ExecFails, IInv, TypeOK, reading
  <2>2. InsertsAccounted' /\ RememberedIsBooked'
    BY <1>6 DEF ExecFails, IInv, TypeOK, InsertsAccounted, RememberedIsBooked, Rows
  <2> QED
    BY <1>3, <2>1, <2>2 DEF IInv
<1>7. CASE Commit(i)
  <2>1. date[i] \in Time /\ date[i] # None
    BY <1>7 DEF Commit, IInv, TypeOK, InsertsAccounted
  <2>2. TypeOK'
    BY <1>7, <2>1 DEF Commit, IInv, TypeOK, reading
  <2>3. InsertsAccounted'
    BY <1>7, <2>1 DEF Commit, IInv, TypeOK, InsertsAccounted
  <2>4. Rows \subseteq Rows'
    BY <1>7, <2>1 DEF Commit, IInv, TypeOK, Rows
  <2>5. RememberedIsBooked'
    BY <1>7, <2>4 DEF Commit, IInv, RememberedIsBooked
  <2> QED
    BY <1>3, <2>2, <2>3, <2>5 DEF IInv
<1>8. CASE CommitFails(i)
  <2>1. TypeOK'
    BY <1>8, BookAssumption DEF CommitFails, IInv, TypeOK, reading
  <2>2. InsertsAccounted' /\ RememberedIsBooked'
    BY <1>8 DEF CommitFails, IInv, TypeOK, InsertsAccounted, RememberedIsBooked, Rows
  <2> QED
    BY <1>3, <2>1, <2>2 DEF IInv
<1>9. CASE Remember(i)
  <2>1. TypeOK'
    BY <1>9 DEF Remember, IInv, TypeOK, reading
  <2>2. InsertsAccounted' /\ RememberedIsBooked'
    BY <1>9 DEF Remember, IInv, TypeOK, InsertsAccounted, RememberedIsBooked, Rows
  <2> QED
    BY <1>3, <2>1, <2>2 DEF IInv
<1> QED
  BY <1>4, <1>5, <1>6, <1>7, <1>8, <1>9

-----------------------------------------------------------------------------
(* The steps of a history request *)

LEMMA OpenStep == ASSUME IInv, NEW h \in Histories, Open(h) PROVE IInv'
<1> USE DEF Open
<1>1. TypeOK'
  <2>1. from' \in [Histories -> Int]
    BY WindowIsInt, NoneIsNoTime DEF IInv, TypeOK
  <2>2. Rows \subseteq Inserts /\ UnderWay \subseteq Histories
    BY DEF Rows, UnderWay
  <2> QED
    BY <2>1, <2>2 DEF IInv, TypeOK, inserting
<1>2. InsertsAccounted' /\ RememberedIsBooked'
  BY DEF IInv, InsertsAccounted, RememberedIsBooked, Rows, inserting
<1>3. UnderWay' = UnderWay \cup {h} /\ Queried' = Queried
  BY DEF IInv, TypeOK, UnderWay, Queried
<1>4. h \notin UnderWay
  BY DEF UnderWay
<1>5. TogetherOverlap' /\ RefusedLate'
  BY <1>3 DEF IInv, TypeOK, HandleInv, TogetherOverlap, RefusedLate
<1>6. AloneHasHandle'
  BY <1>3, <1>4 DEF AloneHasHandle
<1>7. TroubleOnlyByOverlap'
  BY <1>3, <1>4 DEF IInv, HandleInv, TroubleOnlyByOverlap
<1> QED
  BY <1>1, <1>2, <1>5, <1>6, <1>7 DEF IInv, HandleInv

LEMMA QueryStep == ASSUME IInv, NEW h \in Histories, Query(h) PROVE IInv'
<1> USE DEF Query
<1>1. TypeOK'
  <2>1. /\ DOMAIN answer' = Histories
        /\ \A g \in Histories : answer'[g].at \in Time /\ answer'[g].err \in BOOLEAN
    <3>1. ASSUME NEW items, answer' = [answer EXCEPT ![h] =
                   [items |-> items, at |-> now, err |-> items # Items(InWindow(from[h]))]]
          PROVE  /\ DOMAIN answer' = Histories
                 /\ \A g \in Histories : answer'[g].at \in Time /\ answer'[g].err \in BOOLEAN
      BY <3>1 DEF IInv, TypeOK
    <3>2. CASE UNCHANGED answer
      BY <3>2 DEF IInv, TypeOK
    <3> QED
      BY <3>1, <3>2
  <2> QED
    BY <2>1 DEF IInv, TypeOK, inserting
<1>2. InsertsAccounted' /\ RememberedIsBooked'
  BY DEF IInv, InsertsAccounted, RememberedIsBooked, Rows, inserting
<1>3. UnderWay' = UnderWay /\ Queried' = Queried \cup {h} /\ h \in UnderWay
  BY DEF IInv, TypeOK, UnderWay, Queried
<1>4. TogetherOverlap' /\ AloneHasHandle' /\ RefusedLate'
  BY <1>3 DEF IInv, TypeOK, HandleInv, TogetherOverlap, AloneHasHandle, RefusedLate
<1>5. h \notin refused
  BY DEF IInv, HandleInv, RefusedLate
<1>6. h \in refused' => h \in overlapped
  BY <1>3, <1>5 DEF IInv, HandleInv, AloneHasHandle
<1>7. TroubleOnlyByOverlap'
  BY <1>3, <1>6 DEF IInv, HandleInv, TroubleOnlyByOverlap
<1> QED
  BY <1>1, <1>2, <1>4, <1>7 DEF IInv, HandleInv

(* Who closes another's handle, or leaves its own, was not alone. *)
LEMMA CloseStep == ASSUME IInv, NEW h \in Histories, Close(h) PROVE IInv'
<1> USE DEF Close
<1>1. TypeOK'
  BY DEF IInv, TypeOK, inserting
<1>2. InsertsAccounted' /\ RememberedIsBooked'
  BY DEF IInv, InsertsAccounted, RememberedIsBooked, Rows, inserting
<1>3. UnderWay' = UnderWay \ {h} /\ Queried' = Queried /\ h \in UnderWay
  BY DEF IInv, TypeOK, UnderWay, Queried
<1>4. TogetherOverlap' /\ RefusedLate'
  BY <1>3 DEF IInv, TypeOK, HandleInv, TogetherOverlap, RefusedLate
<1>5. AloneHasHandle'
  BY <1>3 DEF IInv, HandleInv, TogetherOverlap, AloneHasHandle
<1>6. h \notin overlapped => handle = h
  BY <1>3 DEF IInv, HandleInv, AloneHasHandle
<1>7. TroubleOnlyByOverlap'
  BY <1>3, <1>6 DEF IInv, HandleInv, TroubleOnlyByOverlap
<1> QED
  BY <1>1, <1>2, <1>4, <1>5, <1>7 DEF IInv, HandleInv

-----------------------------------------------------------------------------

LEMMA BookStep == ASSUME IInv, [Next]_vars PROVE IInv'
<1>1. CASE Tick
  <2>1. TypeOK'
    BY <1>1, BookAssumption DEF Tick, IInv, TypeOK, Time, inserting, reading
  <2>2. (InsertsAccounted /\ RememberedIsBooked)'
    BY <1>1 DEF Tick, IInv, InsertsAccounted, RememberedIsBooked, Rows, inserting
  <2>3. HandleInv'
    BY <1>1 DEF Tick, IInv, HandleInv, RefusedLate, TogetherOverlap, AloneHasHandle,
                TroubleOnlyByOverlap, UnderWay, Queried, reading
  <2> QED
    BY <2>1, <2>2, <2>3 DEF IInv
<1>2. ASSUME NEW i \in Inserts, BeginFails(i) \/ PrepareFails(i) PROVE IInv'
  BY <1>2, ExitStep DEF BeginFails, PrepareFails
<1>3. ASSUME NEW i \in Inserts,
             Begin(i) \/ Exec(i) \/ ExecFails(i) \/ Commit(i) \/ CommitFails(i) \/ Remember(i)
      PROVE  IInv'
  BY <1>3, InsertStep
<1>4. ASSUME NEW h \in Histories, Open(h) \/ Query(h) \/ Close(h) PROVE IInv'
  BY <1>4, OpenStep, QueryStep, CloseStep
<1>5. CASE UNCHANGED vars
  BY <1>5
    DEF vars, inserting, reading, IInv, TypeOK, InsertsAccounted, RememberedIsBooked, Rows,
              HandleInv, RefusedLate, TogetherOverlap, AloneHasHandle, TroubleOnlyByOverlap,
              UnderWay, Queried
<1> QED
  BY <1>1, <1>2, <1>3, <1>4, <1>5 DEF Next

LEMMA BookInvariant == Spec => []IInv
<1>1. Init => IInv
  BY BookInit
<1>2. IInv /\ [Next]_vars => IInv'
  BY BookStep
<1> QED
  BY <1>1, <1>2, PTL DEF Spec

(* Type correctness, and that only the insert that is writing has the file's lock.        *)
THEOREM TypeCorrect == Spec => []TypeOK
<1>1. IInv => TypeOK
  BY DEF IInv
<1> QED
  BY <1>1, BookInvariant, PTL

(* Memory is never ahead of the file, but for swallowed errors: for any number of         *)
(* inserts, in any order, and any number of process exits.                                *)
THEOREM MemoryBehindBook == Spec => []RememberedIsBooked
<1>1. IInv => RememberedIsBooked
  BY DEF IInv
<1> QED
  BY <1>1, BookInvariant, PTL

(* A history request that is alone neither fails on a closed handle nor leaves one open.  *)
THEOREM AloneIsSound == Spec => []TroubleOnlyByOverlap
<1>1. IInv => TroubleOnlyByOverlap
  BY DEF IInv, HandleInv
<1> QED
  BY <1>1, BookInvariant, PTL

-----------------------------------------------------------------------------
(***************************************************************************)
(* Bins: numbers of steps.                                                 *)
(***************************************************************************)
LEMMA Product ==
  ASSUME NEW d \in Nat \ {0}, NEW x \in Int, NEW y \in Int
  PROVE  d * x \in Int /\ (x <= y => d * x <= d * y) /\ (x + 1 <= y => (d * x) + d <= d * y)
<1>1. d * x \in Int /\ d * y \in Int /\ d * (y - x) \in Int /\ d * (y - x) = (d * y) - (d * x)
  OBVIOUS
<1>2. x <= y => d * (y - x) >= 0
  OBVIOUS
<1>3. x + 1 <= y => d * (y - x) >= d
  OBVIOUS
<1> QED
  BY <1>1, <1>2, <1>3

\* The bin that the window of a request begins with, counted from Go's zero time.
FirstBin(h) == ((started[h] + Offset[h]) \div Step) - Bins + 1

(* A window begins with a bin, and has Bins of them. *)
LEMMA WindowStart ==
  ASSUME NEW h \in Histories, started[h] \in Nat
  PROVE  /\ FirstBin(h) \in Int /\ Offset[h] \in 0 .. Step - 1
         /\ FirstBin(h) + Bins - 1 = (started[h] + Offset[h]) \div Step
         /\ From(h, started[h]) = (FirstBin(h) * Step) - Offset[h]
<1>0. Offset[h] \in 0 .. Step - 1 /\ Step \in Nat \ {0} /\ Bins \in Nat \ {0}
  BY BookAssumption
<1>1. PICK q \in Int : q = (started[h] + Offset[h]) \div Step
  BY <1>0, Division
<1>2. From(h, started[h]) = (q * Step - Offset[h] + Step) - (Step * Bins)
  <2>1. Till(h, started[h]) = q * Step - Offset[h] + Step
    BY <1>1 DEF Till
  <2>2. From(h, started[h]) = Till(h, started[h]) - Step * Bins
    BY DEF From
  <2> QED
    BY <2>1, <2>2, Zenon
<1>3. q * Step + Step - (Step * Bins) = (q - Bins + 1) * Step
  BY <1>0
<1> DEFINE qs == q * Step
           sb == Step * Bins
           fs == (q - Bins + 1) * Step
<1>4. qs \in Int /\ sb \in Int /\ fs \in Int /\ qs + Step - sb = fs
      /\ From(h, started[h]) = (qs - Offset[h] + Step) - sb
  BY <1>0, <1>2, <1>3
<1> HIDE DEF qs, sb, fs
<1>5. From(h, started[h]) = fs - Offset[h]
  BY <1>0, <1>4
<1> QED
  BY <1>0, <1>1, <1>5 DEF FirstBin, fs

(* The number of a bin that begins before, or ends after, a second. *)
LEMMA BinOf ==
  ASSUME NEW x \in Int, NEW a \in Int
  PROVE  /\ x \div Step \in Int
         /\ x >= a * Step => x \div Step >= a
         /\ x < a * Step => x \div Step <= a - 1
<1>0. Step \in Nat \ {0}
  BY BookAssumption
<1>1. PICK q \in Int, r \in 0 .. Step - 1 : q = x \div Step /\ x = (Step * q) + r
  BY <1>0, Division
<1>2. /\ Step * q \in Int /\ Step * a \in Int /\ a * Step = Step * a
      /\ q + 1 <= a => (Step * q) + Step <= Step * a
      /\ a <= q => Step * a <= Step * q
  BY <1>0, Product
<1> DEFINE sq == Step * q
           sa == Step * a
<1>3. /\ sq \in Int /\ sa \in Int /\ x = sq + r /\ a * Step = sa
      /\ q + 1 <= a => sq + Step <= sa
      /\ a <= q => sa <= sq
  BY <1>1, <1>2
<1> HIDE DEF sq, sa
<1>4. (x >= sa => ~(q + 1 <= a)) /\ (x < sa => ~(a <= q))
  BY <1>0, <1>3
<1> QED
  BY <1>1, <1>3, <1>4

(* Local time keeps the order of two seconds that no change of clocks comes between. *)
LEMMA LocalOrder ==
  ASSUME NEW x \in Int, NEW y \in Int, NEW at \in Int,
         y <= at, at < Back \/ Back + Shift <= x
  PROVE  /\ x < y => Local(x) < Local(y)
         /\ x < y => Local(y) <= Local(at)
         /\ x <= at /\ Local(x) <= Local(y) => x <= y
         /\ x <= at /\ Local(x) = Local(y) => x = y
<1>1. Back \in Nat /\ Shift \in Nat
  BY BookAssumption
<1> QED
  BY <1>1 DEF Local

-----------------------------------------------------------------------------
(* The items of a history *)

Buckets(rows) == {Bucket(i) : i \in rows}
Group(rows, k) == {i \in rows : Bucket(i) = k}

LEMMA ItemsByBucket ==
  \A rows : /\ DOMAIN Items(rows) = Buckets(rows)
            /\ \A k \in Buckets(rows) : Items(rows)[k] = Total(Group(rows, k))
  BY DEF Items, Buckets, Group, Total

LEMMA BucketsFinite ==
  ASSUME NEW rows, IsFiniteSet(rows) PROVE IsFiniteSet(Buckets(rows))
<1> DEFINE f == [i \in rows |-> Bucket(i)]
<1>1. f \in Surjection(rows, Buckets(rows))
  BY DEF Surjection, Buckets
<1> HIDE DEF f
<1> QED
  BY <1>1, FS_Surjection

\* There are no more buckets than steps in the window.
LEMMA FewBuckets ==
  ASSUME NEW rows, NEW a \in Int, NEW n \in Nat \ {0},
         \A i \in rows : Bucket(i) \in a .. a + n - 1,
         NEW S \in SUBSET Buckets(rows)
  PROVE  Cardinality(S) <= n
<1>1. IsFiniteSet(a .. a + n - 1) /\ Cardinality(a .. a + n - 1) = n
  <2>1. PICK z \in Int : z = a + n - 1
    OBVIOUS
  <2>2. IsFiniteSet(a .. z) /\ Cardinality(a .. z) = IF a > z THEN 0 ELSE z - a + 1
    BY <2>1, FS_Interval
  <2>3. ~(a > z) /\ z - a + 1 = n
    BY <2>1
  <2> QED
    BY <2>1, <2>2, <2>3
<1>2. S \subseteq a .. a + n - 1
  BY DEF Buckets
<1> QED
  BY <1>1, <1>2, FS_Subset

\* What is in a bucket counts for itself.
LEMMA ItemsAreSums ==
  ASSUME NEW rows \in SUBSET Inserts, IsFiniteSet(rows), NEW k \in Buckets(rows)
  PROVE  Items(rows)[k] = SumOver(Amount, Group(rows, k)) /\ Items(rows)[k] \in Nat
<1>1. Items(rows)[k] = Total(Group(rows, k))
  BY ItemsByBucket
<1>2. Total(Group(rows, k)) = SumOver(Amount, Group(rows, k))
  BY DEF Total, SumOver
<1>3. IsFiniteSet(Group(rows, k)) /\ \A i \in Group(rows, k) : Amount[i] \in Nat
  BY BookAssumption, FS_Subset DEF Group
<1>4. SumOver(Amount, Group(rows, k)) \in Nat
  BY <1>3, SumNatural
<1> QED
  BY <1>1, <1>2, <1>4

\* Grouping loses no row and counts none twice.
LEMMA ItemsAddUp ==
  ASSUME NEW rows \in SUBSET Inserts, IsFiniteSet(rows)
  PROVE  SumOver(Items(rows), Buckets(rows)) = SumOver(Amount, rows)
<1> DEFINE K == Buckets(rows)
           it == Items(rows)
           in(L) == {i \in rows : Bucket(i) \in L}
           G == {L \in SUBSET K : SumOver(it, L) = SumOver(Amount, in(L))}
<1>0. IsFiniteSet(K)
  BY BucketsFinite
<1>1. \A i \in rows : Amount[i] \in Int
  BY BookAssumption
<1>2. \A k \in K : it[k] = SumOver(Amount, Group(rows, k)) /\ it[k] \in Int
  BY ItemsAreSums
<1>3. ASSUME NEW L \in SUBSET K, \A M \in SUBSET L : M # L => M \in G
      PROVE  L \in G
  <2>1. CASE L = {}
    <3>1. in(L) = {}
      BY <2>1
    <3>2. SumOver(it, {}) = 0 /\ SumOver(Amount, {}) = 0
      BY SumEmpty
    <3> HIDE DEF in, it
    <3> QED
      BY <2>1, <3>1, <3>2
  <2>2. CASE L # {}
    <3>1. PICK k \in L : TRUE
      BY <2>2
    <3> DEFINE M == L \ {k}
    <3>2. SumOver(it, M) = SumOver(Amount, in(M))
      BY <1>3, <3>1
    <3>3. IsFiniteSet(L) /\ \A j \in L : it[j] \in Int
      <4> HIDE DEF K, it
      <4> QED
        BY <1>0, <1>2, FS_Subset
    <3>4. SumOver(it, L) = it[k] + SumOver(it, M)
      <4> HIDE DEF it
      <4> QED
        BY <3>1, <3>3, SumRemove
    <3>5. in(L) = in(M) \cup Group(rows, k) /\ in(M) \cap Group(rows, k) = {}
      BY <3>1 DEF Group
    <3>6. in(M) \subseteq rows /\ Group(rows, k) \subseteq rows
      BY DEF Group
    <3>7. k \in K
      BY <3>1
    <3> HIDE DEF in, it, M, K
    <3>8. IsFiniteSet(in(M)) /\ IsFiniteSet(Group(rows, k))
      BY <3>6, FS_Subset
    <3>9. SumOver(Amount, in(M) \cup Group(rows, k)) = SumOver(Amount, in(M)) + SumOver(Amount, Group(rows, k))
      <4>1. \A i \in in(M) \cup Group(rows, k) : Amount[i] \in Int
        BY <1>1, <3>6
      <4> QED
        BY <3>5, <3>8, <4>1, SumUnion
    <3>10. SumOver(Amount, in(M)) \in Int
      <4>1. \A i \in in(M) : Amount[i] \in Int
        BY <1>1, <3>6
      <4> QED
        BY <3>8, <4>1, SumInteger
    <3>11. it[k] = SumOver(Amount, Group(rows, k)) /\ it[k] \in Int
      BY <1>2, <3>7
    <3>12. SumOver(it, L) = SumOver(Amount, in(L))
      <4>1. SumOver(it, L) = it[k] + SumOver(Amount, in(M))
        BY <3>2, <3>4
      <4>2. SumOver(Amount, in(L)) = SumOver(Amount, in(M)) + it[k]
        BY <3>5, <3>9, <3>11
      <4>3. \A a, c \in Int : a + c = c + a
        OBVIOUS
      <4> QED
        BY <3>10, <3>11, <4>1, <4>2, <4>3
    <3> QED
      BY <3>12
  <2> QED
    BY <2>1, <2>2
<1>4. K \in G
  <2> HIDE DEF G, K
  <2> QED
    BY <1>0, <1>3, SubsetInduction
<1>5. in(K) = rows
  BY DEF Buckets
<1>6. SumOver(it, K) = SumOver(Amount, in(K))
  BY <1>4
<1> HIDE DEF in
<1> QED
  BY <1>5, <1>6

\* What was scanned is some of the items, and all of them if nothing went wrong.
LEMMA ScannedPart ==
  ASSUME NEW rows \in SUBSET Inserts, IsFiniteSet(rows), NEW items \in Scanned(Items(rows))
  PROVE  /\ DOMAIN items \in SUBSET Buckets(rows)
         /\ Volume(items) <= Total(rows) /\ Volume(items) \in Int
         /\ items = Items(rows) => Volume(items) = Total(rows)
<1> DEFINE it == Items(rows)
           D == DOMAIN items
<1>1. D \subseteq Buckets(rows) /\ \A k \in D : items[k] = it[k]
  <2>1. DOMAIN it = Buckets(rows)
    BY ItemsByBucket
  <2> HIDE DEF it
  <2>2. items \in Scanned(it)
    BY DEF it
  <2> QED
    BY <2>1, <2>2 DEF Scanned
<1>2. IsFiniteSet(Buckets(rows)) /\ IsFiniteSet(D)
  BY <1>1, BucketsFinite, FS_Subset
<1>3. \A k \in Buckets(rows) : it[k] \in Nat /\ it[k] <= it[k]
  BY ItemsAreSums
<1>4. Volume(items) = SumOver(items, D)
  BY DEF Volume, SumOver
<1>5. Total(rows) = SumOver(Amount, rows)
  BY DEF Total, SumOver
<1>6. SumOver(it, Buckets(rows)) = SumOver(Amount, rows)
  BY ItemsAddUp
<1> HIDE DEF it, D
<1>7. SumOver(items, D) = SumOver(it, D)
  BY <1>1, <1>2, SumSame
<1>8. SumOver(it, D) <= SumOver(it, Buckets(rows))
  BY <1>1, <1>2, <1>3, SumMonotone
<1>9. SumOver(it, D) \in Nat
  BY <1>1, <1>2, <1>3, SumNatural
<1>10. items = it => D = Buckets(rows)
  BY ItemsByBucket DEF it, D
<1>11. D \in SUBSET Buckets(rows)
  BY <1>1
<1> QED
  BY <1>4, <1>5, <1>6, <1>7, <1>8, <1>9, <1>10, <1>11 DEF it, D

-----------------------------------------------------------------------------
(***************************************************************************)
(* What a history is about: a row is written once, with a date that is     *)
(* past, and a request keeps the window it started with.                   *)
(***************************************************************************)
WrittenOnce == \A i \in Inserts : book[i] # None => insert[i] \in {"committed", "done", "lost"}

Dated ==
  \A i \in Inserts : /\ date[i] # None => date[i] <= now
                     /\ book[i] # None => book[i] <= now

Windows ==
  \A h \in Histories : /\ seen[h] \subseteq Rows
                       /\ history[h] # "new" => from[h] = From(h, started[h])

Recent(h) == {i \in seen[h] : book[i] > (FirstBin(h) * Step) - Offset[h]}

Complete(h) ==
  /\ Volume(answer[h].items) <= Total(Rows) /\ Volume(answer[h].items) \in Int
  /\ Steady(h) /\ ~answer[h].err => Volume(answer[h].items) >= Total(Recent(h))

Limit(h) == IF Offset[h] = 0 /\ Edge \cap Slips = {} THEN Bins ELSE Bins + 1

Bounded(h) ==
  Steady(h) /\ (answer[h].at + Offset[h]) \div Step = (started[h] + Offset[h]) \div Step =>
    Cardinality(DOMAIN answer[h].items) <= Limit(h)

Sound == \A h \in Answered : Complete(h) /\ Bounded(h)

Kept == WrittenOnce /\ Dated /\ Windows /\ Sound

LEMMA RowsAreBooked ==
  ASSUME TypeOK PROVE Rows \subseteq Inserts /\ \A i \in Rows : book[i] \in Time /\ book[i] \in Nat
  BY NoneIsNoTime DEF TypeOK, Rows

LEMMA Totals ==
  ASSUME IsFiniteSet(Inserts), NEW S \in SUBSET Inserts, NEW T \in SUBSET S
  PROVE  Total(T) \in Nat /\ Total(S) \in Nat /\ Total(T) <= Total(S)
<1>1. IsFiniteSet(S) /\ IsFiniteSet(T)
  BY FS_Subset
<1>2. \A i \in S : Amount[i] \in Nat /\ Amount[i] <= Amount[i]
  BY BookAssumption
<1>3. Total(T) = SumOver(Amount, T) /\ Total(S) = SumOver(Amount, S)
  BY DEF Total, SumOver
<1>4. SumOver(Amount, T) \in Nat
  BY <1>1, <1>2, SumNatural
<1>5. SumOver(Amount, S) \in Nat
  BY <1>1, <1>2, SumNatural
<1>6. SumOver(Amount, T) <= SumOver(Amount, S)
  BY <1>1, <1>2, SumMonotone
<1> QED
  BY <1>3, <1>4, <1>5, <1>6

\* Only a commit changes the book, and what is booked stays as it is.
LEMMA BookGrows ==
  ASSUME TypeOK, WrittenOnce, [Next]_vars
  PROVE  \A i \in Rows : i \in Rows' /\ book'[i] = book[i]
<1>1. ASSUME NEW i \in Inserts, Commit(i) PROVE \A j \in Rows : j \in Rows' /\ book'[j] = book[j]
  <2>1. book[i] = None
    BY <1>1 DEF Commit, WrittenOnce
  <2>2. \A j \in Inserts : j # i => book'[j] = book[j]
    BY <1>1 DEF Commit, TypeOK
  <2> QED
    BY <2>1, <2>2 DEF Rows
<1>2. CASE UNCHANGED book
  BY <1>2 DEF Rows
<1>3. ASSUME \A i \in Inserts : ~Commit(i) PROVE UNCHANGED book
  BY <1>3
    DEF Next, Tick, Begin, BeginFails, PrepareFails, Exit, Exec, ExecFails, CommitFails,
        Remember,
              Open, Query, Close, inserting, vars
<1> QED
  BY <1>1, <1>2, <1>3

LEMMA WrittenStep ==
  ASSUME TypeOK, WrittenOnce, [Next]_vars PROVE WrittenOnce'
<1> USE DEF TypeOK, WrittenOnce
<1>1. ASSUME NEW i \in Inserts, Exit(i) PROVE WrittenOnce'
  BY <1>1 DEF Exit
<1>2. ASSUME NEW i \in Inserts, Begin(i) PROVE WrittenOnce'
  BY <1>2 DEF Begin
<1>3. ASSUME NEW i \in Inserts, Exec(i) \/ ExecFails(i) PROVE WrittenOnce'
  BY <1>3 DEF Exec, ExecFails
<1>4. ASSUME NEW i \in Inserts, Commit(i) \/ CommitFails(i) PROVE WrittenOnce'
  BY <1>4 DEF Commit, CommitFails
<1>5. ASSUME NEW i \in Inserts, Remember(i) PROVE WrittenOnce'
  BY <1>5 DEF Remember
<1>6. CASE UNCHANGED <<book, insert>>
  BY <1>6
<1>7. ASSUME Tick \/ (\E h \in Histories : Open(h) \/ Query(h) \/ Close(h)) \/ UNCHANGED vars
      PROVE  UNCHANGED <<book, insert>>
  BY <1>7 DEF Tick, Open, Query, Close, inserting, vars
<1> QED
  BY <1>1, <1>2, <1>3, <1>4, <1>5, <1>6, <1>7 DEF Next, BeginFails, PrepareFails

LEMMA DatedStep ==
  ASSUME TypeOK, Dated, [Next]_vars PROVE Dated'
<1>0. now \in Nat /\ \A i \in Inserts : (date[i] # None => date[i] \in Nat) /\ (book[i] # None => book[i] \in Nat)
  BY NoneIsNoTime DEF TypeOK
<1>1. CASE Tick
  BY <1>0, <1>1 DEF Tick, Dated, inserting
<1>2. ASSUME NEW i \in Inserts, Begin(i) PROVE Dated'
  BY <1>0, <1>2 DEF Begin, Dated, TypeOK
<1>3. ASSUME NEW i \in Inserts, Commit(i) PROVE Dated'
  BY <1>0, <1>3 DEF Commit, Dated, TypeOK
<1>4. CASE UNCHANGED <<now, date, book>>
  BY <1>4 DEF Dated
<1>5. ASSUME ~Tick, \A i \in Inserts : ~Begin(i) /\ ~Commit(i) PROVE UNCHANGED <<now, date, book>>
  BY <1>5 DEF Next, BeginFails, PrepareFails, Exit, Exec, ExecFails, CommitFails, Remember,
              Open, Query, Close, inserting, vars
<1> QED
  BY <1>1, <1>2, <1>3, <1>4, <1>5

\* The steps that neither start a request nor answer it.
Aside ==
  /\ UNCHANGED <<from, answer, refused, seen, started>>
  /\ \A h \in Histories : /\ history'[h] \in {"queried", "closed"} => history[h] \in {"queried", "closed"}
                          /\ history'[h] # "new" => history[h] # "new"

LEMMA AsideStep ==
  ASSUME TypeOK, [Next]_vars, \A h \in Histories : ~Open(h) /\ ~Query(h) PROVE Aside
<1> USE DEF reading, TypeOK, Aside
<1>1. ASSUME NEW i \in Inserts, Exit(i) PROVE Aside
  <2>1. UNCHANGED <<from, answer, refused, seen, started>>
    BY <1>1 DEF Exit
  <2>2. history' = [h \in Histories |-> IF h \in UnderWay THEN "lost" ELSE history[h]]
    BY <1>1 DEF Exit
  <2>3. ASSUME NEW h \in Histories PROVE history'[h] \in {"lost", history[h]}
    BY <2>2
  <2>4. ASSUME NEW h \in Histories, history[h] = "new" PROVE history'[h] = "new"
    BY <2>2, <2>4 DEF UnderWay
  <2>5. ASSUME NEW h \in Histories, history'[h] \in {"queried", "closed"} PROVE history[h] \in {"queried", "closed"}
    BY <2>3, <2>5
  <2> QED
    BY <2>1, <2>4, <2>5
<1>2. ASSUME NEW h \in Histories, Close(h) PROVE Aside
  BY <1>2 DEF Close
<1>3. ASSUME NEW i \in Inserts, Begin(i) \/ Exec(i) \/ ExecFails(i) \/ Commit(i) \/ CommitFails(i) \/ Remember(i)
      PROVE  Aside
  BY <1>3 DEF Begin, Exec, ExecFails, Commit, CommitFails, Remember
<1>4. CASE Tick \/ UNCHANGED vars
  BY <1>4 DEF Tick, vars
<1> QED
  BY <1>1, <1>2, <1>3, <1>4 DEF Next, BeginFails, PrepareFails

LEMMA WindowsStep ==
  ASSUME TypeOK, WrittenOnce, Windows, [Next]_vars PROVE Windows'
<1>1. Rows \subseteq Rows'
  BY BookGrows
<1>2. ASSUME NEW h \in Histories, Open(h) PROVE Windows'
  <2>1. \A g \in Histories : g # h => UNCHANGED <<from[g], history[g], seen[g], started[g]>>
    BY <1>2 DEF Open, TypeOK
  <2>2. from'[h] = From(h, started'[h]) /\ seen'[h] = Rows
    BY <1>2 DEF Open, TypeOK
  <2> QED
    BY <1>1, <2>1, <2>2 DEF Windows
<1>3. ASSUME NEW h \in Histories, Query(h) PROVE Windows'
  BY <1>1, <1>3 DEF Query, TypeOK, Windows
<1>4. CASE \A h \in Histories : ~Open(h) /\ ~Query(h)
  BY <1>1, <1>4, AsideStep DEF Aside, Windows
<1> QED
  BY <1>2, <1>3, <1>4

\* What was complete stays so while the book grows.
LEMMA SoundKept ==
  ASSUME IsFiniteSet(Inserts), TypeOK, TypeOK', WrittenOnce, Windows, [Next]_vars, NEW h \in Histories,
         Complete(h), Bounded(h), UNCHANGED <<answer[h], seen[h], started[h], from[h]>>
  PROVE  Complete(h)' /\ Bounded(h)'
<1>1. Bounded(h)' /\ (Steady(h)' <=> Steady(h))
  BY DEF Bounded, Limit, Steady
<1>2. seen[h] \subseteq Rows /\ \A i \in Rows : i \in Rows' /\ book'[i] = book[i]
  BY BookGrows DEF Windows
<1>3. Recent(h)' = Recent(h)
  BY <1>2 DEF Recent, FirstBin
<1>4. Rows \subseteq Inserts /\ Rows' \subseteq Inserts /\ Recent(h) \subseteq Rows /\ Rows \subseteq Rows'
  BY <1>2 DEF Rows, Recent
<1>5. Total(Recent(h)) \in Nat /\ Total(Rows) \in Nat /\ Total(Rows') \in Nat /\ Total(Rows) <= Total(Rows')
  BY <1>4, Totals
<1>6. Volume(answer[h].items) \in Int /\ Volume(answer[h].items) <= Total(Rows')
  BY <1>5 DEF Complete
<1> QED
  BY <1>1, <1>3, <1>6 DEF Complete

\* In a window that no change of clocks falls into, the rows are those of its time.
LEMMA WindowRows ==
  ASSUME TypeOK, Dated, NEW start \in Int, now < Back \/ Back + Shift <= start
  PROVE  /\ \A i \in Rows : book[i] > start => i \in InWindow(start)
         /\ start <= now =>
              \A i \in InWindow(start) : /\ book[i] >= start /\ book[i] <= now
                                         /\ book[i] = start => i \in Edge
<1>0. now \in Int /\ Back \in Nat /\ Shift \in Nat
  BY NoneIsNoTime, BookAssumption DEF TypeOK
<1>1. \A i \in Rows : book[i] \in Int /\ book[i] <= now
  BY RowsAreBooked DEF Dated, Rows
<1>2. ASSUME NEW i \in Rows, book[i] > start PROVE i \in InWindow(start)
  BY <1>0, <1>1, <1>2, LocalOrder DEF InWindow
<1>3. ASSUME start <= now, NEW i \in InWindow(start)
      PROVE  book[i] >= start /\ book[i] <= now /\ (book[i] = start => i \in Edge)
  <2>1. i \in Rows /\ (Local(book[i]) > Local(start) \/ (i \in Edge /\ Local(book[i]) = Local(start)))
    BY DEF InWindow
  <2>2. book[i] \in Int /\ book[i] <= now /\ Local(book[i]) \in Int /\ Local(start) \in Int
    BY <1>0, <1>1, <2>1 DEF Local
  <2>3. Local(start) <= Local(book[i]) => start <= book[i]
    BY <1>0, <1>3, <2>2, LocalOrder
  <2> QED
    BY <2>1, <2>2, <2>3
<1> QED
  BY <1>2, <1>3

\* A row that is in a window of steps is in one of their buckets, or in the one before.
LEMMA WindowBuckets ==
  ASSUME TypeOK, Dated, NEW h \in Histories, started[h] \in Nat, from[h] = From(h, started[h]),
         now < Back \/ Back + Shift <= from[h],
         (now + Offset[h]) \div Step = (started[h] + Offset[h]) \div Step
  PROVE  \A i \in InWindow(from[h]) :
           /\ Bucket(i) \in FirstBin(h) - 1 .. FirstBin(h) + Bins - 1
           /\ Offset[h] = 0 /\ Edge \cap Slips = {} => Bucket(i) >= FirstBin(h)
<1> DEFINE q == FirstBin(h)
           qs == q * Step
           ps == (q - 1) * Step
           es == (q + Bins) * Step
<1>0. Step \in Nat \ {0} /\ Bins \in Nat \ {0} /\ now \in Nat
  BY NoneIsNoTime, BookAssumption DEF TypeOK
<1>1. /\ q \in Int /\ Offset[h] \in 0 .. Step - 1 /\ from[h] = qs - Offset[h]
      /\ q + Bins - 1 = (started[h] + Offset[h]) \div Step
  BY WindowStart
<1>2. qs \in Int /\ ps \in Int /\ es \in Int /\ ps = qs - Step
  BY <1>0, <1>1
<1>3. now + Offset[h] < es /\ now + Offset[h] >= qs
  <2>1. PICK y \in Int : y = now + Offset[h]
    BY <1>0, <1>1
  <2>2. y \div Step = q + Bins - 1
    BY <1>1, <2>1
  <2>3. PICK a \in Int : a = q + Bins
    BY <1>0, <1>1
  <2>4. y >= a * Step => y \div Step >= a
    BY BinOf
  <2>5. y < q * Step => y \div Step <= q - 1
    BY <1>1, BinOf
  <2>6. a * Step = es
    BY <2>3
  <2> HIDE DEF q, qs, es
  <2>7. ~(y >= es)
    BY <1>0, <1>1, <2>2, <2>3, <2>4, <2>6
  <2>8. ~(y < qs)
    BY <1>0, <1>1, <2>2, <2>5 DEF qs
  <2> QED
    BY <1>2, <2>1, <2>7, <2>8
<1>4. from[h] \in Int /\ from[h] <= now
  <2> HIDE DEF q, qs, ps, es
  <2> QED
    BY <1>0, <1>1, <1>2, <1>3
<1> SUFFICES ASSUME NEW i \in InWindow(from[h])
             PROVE  /\ Bucket(i) \in q - 1 .. q + Bins - 1
                    /\ Offset[h] = 0 /\ Edge \cap Slips = {} => Bucket(i) >= q
  OBVIOUS
<1> DEFINE x == IF i \in Slips THEN book[i] - 1 ELSE book[i]
<1>5. book[i] \in Int /\ book[i] >= from[h] /\ book[i] <= now /\ (book[i] = from[h] => i \in Edge)
  BY <1>4, WindowRows, RowsAreBooked DEF InWindow
<1>6. x \in Int /\ x >= from[h] - 1 /\ x <= now
  BY <1>0, <1>4, <1>5
<1>7. Edge \cap Slips = {} => x >= from[h]
  BY <1>4, <1>5
<1>8. Bucket(i) = x \div Step
  BY DEF Bucket
<1> HIDE DEF q, qs, ps, es, x
<1>9. x >= ps /\ x < es /\ (Offset[h] = 0 /\ Edge \cap Slips = {} => x >= qs)
  BY <1>0, <1>1, <1>2, <1>3, <1>6, <1>7
<1>10. x \div Step \in Int /\ x \div Step >= q - 1
  BY <1>1, <1>6, <1>9, BinOf DEF ps
<1>11. x \div Step <= q + Bins - 1
  <2>1. PICK a \in Int : a = q + Bins
    BY <1>0, <1>1
  <2>2. x < a * Step
    BY <1>9, <2>1 DEF es
  <2>3. x \div Step <= a - 1
    BY <1>6, <2>2, BinOf
  <2> QED
    BY <1>0, <1>1, <2>1, <2>3
<1>12. x >= qs => x \div Step >= q
  BY <1>1, <1>6, BinOf DEF qs
<1> QED
  BY <1>0, <1>1, <1>8, <1>9, <1>10, <1>11, <1>12

\* A query reads all of the window, unless it breaks off, in the bins that it should.
LEMMA QueryAnswers ==
  ASSUME IsFiniteSet(Inserts), TypeOK, Dated, Windows, NEW h \in Histories, Query(h),
         handle \in openHandles
  PROVE  Complete(h)' /\ Bounded(h)'
<1> DEFINE rows == InWindow(from[h])
           steady == now < Back \/ Back + Shift <= from[h]
<1>1. started[h] \in Nat /\ now \in Nat /\ Bins \in Nat \ {0} /\ from[h] = From(h, started[h]) /\ from[h] \in Int
  BY NoneIsNoTime, BookAssumption DEF TypeOK, Query, Windows
<1>2. PICK items \in Scanned(Items(rows)) :
        answer' = [answer EXCEPT ![h] = [items |-> items, at |-> now, err |-> items # Items(rows)]]
  BY DEF Query
<1>3. rows \subseteq Rows /\ rows \subseteq Inserts /\ Rows \subseteq Inserts
  BY DEF InWindow, Rows
<1> HIDE DEF rows
<1>4. IsFiniteSet(rows)
  BY <1>3, FS_Subset
<1>5. /\ answer'[h].items = items /\ answer'[h].at = now /\ answer'[h].err = (items # Items(rows))
      /\ UNCHANGED <<book, seen, started, from>>
  BY <1>2 DEF Query, TypeOK, inserting
<1>6. /\ DOMAIN items \in SUBSET Buckets(rows)
      /\ Volume(items) <= Total(rows) /\ Volume(items) \in Int
      /\ items = Items(rows) => Volume(items) = Total(rows)
  BY <1>3, <1>4, ScannedPart
<1>7. Total(rows) <= Total(Rows) /\ Total(rows) \in Nat /\ Total(Rows) \in Nat
  BY <1>3, Totals
<1>8. Steady(h)' <=> steady
  BY <1>5 DEF Steady
<1>9. steady => Total(Recent(h)) <= Total(rows) /\ Total(Recent(h)) \in Nat
  <2>1. \A i \in seen[h] : i \in Rows
    BY DEF Windows
  <2>2. from[h] = (FirstBin(h) * Step) - Offset[h]
    BY <1>1, WindowStart
  <2>3. steady => Recent(h) \in SUBSET rows
    BY <1>1, <2>1, <2>2, WindowRows DEF Recent, rows
  <2> QED
    BY <1>3, <2>3, Totals
<1>10. Complete(h)'
  <2>1. Recent(h)' = Recent(h) /\ Rows' = Rows
    BY <1>5 DEF Recent, Rows, FirstBin
  <2>2. Volume(items) <= Total(Rows) /\ Volume(items) \in Int
    BY <1>6, <1>7
  <2>3. steady /\ items = Items(rows) => Volume(items) >= Total(Recent(h))
    BY <1>6, <1>7, <1>9
  <2> HIDE DEF steady
  <2> QED
    BY <1>5, <1>8, <2>1, <2>2, <2>3 DEF Complete
<1>11. ASSUME steady, (now + Offset[h]) \div Step = (started[h] + Offset[h]) \div Step
       PROVE  Cardinality(DOMAIN items) <= Limit(h)
  <2>0. FirstBin(h) \in Int
    BY <1>1, WindowStart
  <2>1. \A i \in rows : /\ Bucket(i) \in FirstBin(h) - 1 .. FirstBin(h) + Bins - 1
                        /\ Offset[h] = 0 /\ Edge \cap Slips = {} => Bucket(i) >= FirstBin(h)
    BY <1>1, <1>11, WindowBuckets DEF rows
  <2> DEFINE a == IF Offset[h] = 0 /\ Edge \cap Slips = {} THEN FirstBin(h) ELSE FirstBin(h) - 1
  <2>2. a \in Int /\ Limit(h) \in Nat \ {0} /\ a + Limit(h) - 1 = FirstBin(h) + Bins - 1
    BY <1>1, <2>0 DEF Limit
  <2>3. \A i \in rows : Bucket(i) \in a .. FirstBin(h) + Bins - 1
    BY <1>1, <2>0, <2>1
  <2> HIDE DEF a
  <2>4. \A i \in rows : Bucket(i) \in a .. a + Limit(h) - 1
    BY <2>2, <2>3
  <2> QED
    BY <1>6, <2>2, <2>4, FewBuckets
<1>12. Bounded(h)'
  <2>1. Limit(h)' = Limit(h)
    BY DEF Limit
  <2> HIDE DEF steady
  <2> QED
    BY <1>5, <1>8, <1>11, <2>1 DEF Bounded
<1> QED
  BY <1>10, <1>12

LEMMA SoundStep ==
  ASSUME IsFiniteSet(Inserts), IInv, TypeOK', Kept, [Next]_vars PROVE Sound'
<1>0. TypeOK /\ RefusedLate
  BY DEF IInv, HandleInv
<1> SUFFICES ASSUME NEW h \in Histories, h \in Answered' PROVE Complete(h)' /\ Bounded(h)'
  BY DEF Sound, Answered, Queried
<1>1. ASSUME h \in Answered, UNCHANGED <<answer[h], seen[h], started[h], from[h]>>
      PROVE  Complete(h)' /\ Bounded(h)'
  BY <1>0, <1>1, SoundKept DEF Kept, Sound
<1>2. ASSUME NEW g \in Histories, Open(g) PROVE Complete(h)' /\ Bounded(h)'
  <2>1. h # g /\ h \in Answered
    BY <1>0, <1>2 DEF Open, TypeOK, Answered, Queried
  <2>2. UNCHANGED <<answer[h], seen[h], started[h], from[h]>>
    BY <1>0, <1>2, <2>1 DEF Open, TypeOK
  <2> QED
    BY <1>1, <2>1, <2>2
<1>3. ASSUME NEW g \in Histories, Query(g) PROVE Complete(h)' /\ Bounded(h)'
  <2>1. CASE h = g
    <3>1. handle \in openHandles
      BY <1>0, <1>3, <2>1 DEF Query, Answered
    <3> QED
      BY <1>0, <1>3, <2>1, <3>1, QueryAnswers DEF Kept
  <2>2. CASE h # g
    <3>1. h \in Answered
      BY <1>0, <1>3, <2>2 DEF Query, TypeOK, Answered, Queried
    <3>2. UNCHANGED <<answer[h], seen[h], started[h], from[h]>>
      BY <1>0, <1>3, <2>2 DEF Query, TypeOK
    <3> QED
      BY <1>1, <3>1, <3>2
  <2> QED
    BY <2>1, <2>2
<1>4. CASE \A g \in Histories : ~Open(g) /\ ~Query(g)
  <2>1. Aside
    BY <1>0, <1>4, AsideStep
  <2>2. h \in Answered
    BY <2>1 DEF Aside, Answered, Queried
  <2> QED
    BY <1>1, <2>1, <2>2 DEF Aside
<1> QED
  BY <1>2, <1>3, <1>4

LEMMA KeptInductive ==
  ASSUME IsFiniteSet(Inserts) PROVE Spec => []Kept
<1>1. Init => Kept
  BY DEF Init, Kept, WrittenOnce, Dated, Windows, Sound, Answered, Queried
<1>2. IInv /\ IInv' /\ Kept /\ [Next]_vars => Kept'
  <2> SUFFICES ASSUME IInv, IInv', Kept, [Next]_vars PROVE Kept'
    OBVIOUS
  <2>1. TypeOK /\ TypeOK'
    BY DEF IInv
  <2>2. WrittenOnce' /\ Dated' /\ Windows'
    BY <2>1, WrittenStep, DatedStep, WindowsStep DEF Kept
  <2>3. Sound'
    BY <2>1, SoundStep
  <2> QED
    BY <2>2, <2>3 DEF Kept
<1> QED
  BY <1>1, <1>2, BookInvariant, PTL DEF Spec

(* A history has all that was in the book of its window when the request started, and no  *)
(* row twice: grouping changes no sum, whichever handle the query went through, whatever  *)
(* was committed meanwhile and however far Go's steps and those of the epoch are apart.   *)
(* For any number of bins, any step and any change of clocks outside the window; a        *)
(* reading that breaks off, and a change inside, leave only that nothing counts twice.    *)
THEOREM HistoriesComplete ==
  ASSUME IsFiniteSet(Inserts) PROVE Spec => []HistoryComplete
<1>1. Kept => HistoryComplete
  BY DEF Kept, Sound, HistoryComplete, Complete, Recent, FirstBin
<1> QED
  BY <1>1, KeptInductive, PTL

(* A history has at most the bins that were asked for, or one more where Go's steps are   *)
(* not those of the epoch or a row slips at the edge, while no new step has begun.        *)
THEOREM HistoriesFit ==
  ASSUME IsFiniteSet(Inserts) PROVE Spec => []AtMostBins
<1>1. Kept => AtMostBins
  BY DEF Kept, Sound, AtMostBins, Bounded, Limit
<1> QED
  BY <1>1, KeptInductive, PTL

=============================================================================
