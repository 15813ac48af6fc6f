--------------------------- MODULE PagedLogsProofs ---------------------------
(***************************************************************************)
(* PagedLogs, for any number of rows, any limits, offsets and windows.     *)
(***************************************************************************)
EXTENDS PagedLogs, FiniteSetTheorems, TLAPS

-----------------------------------------------------------------------------
(* Ranks and pages *)

\* The matching rows that come before r, which its rank counts.
Before(q, r, rows) ==
  {x \in Matching(q, rows) : IF q.direction = "Forward" THEN x < r ELSE x > r}

LEMMA TimesAreFinite ==
  ASSUME NEW rows \in SUBSET Times
  PROVE  /\ IsFiniteSet(rows) /\ Cardinality(rows) \in Nat
         /\ rows \subseteq Nat
<1>1. IsFiniteSet(Times)
  BY MaxTimeAssumption, FS_Interval DEF Times
<1>2. IsFiniteSet(rows)
  BY <1>1, FS_Subset
<1>3. Cardinality(rows) \in Nat
  BY <1>2, FS_CardinalityType
<1>4. Times \subseteq Nat
  BY MaxTimeAssumption DEF Times
<1> QED BY <1>2, <1>3, <1>4

LEMMA RankIsNat ==
  ASSUME NEW rows \in SUBSET Times, NEW q, NEW r
  PROVE  /\ Before(q, r, rows) \in SUBSET Times
         /\ Rank(q, r, rows) = Cardinality(Before(q, r, rows))
         /\ Rank(q, r, rows) \in Nat
<1>1. Before(q, r, rows) \in SUBSET Times
  BY DEF Before, Matching
<1>2. Rank(q, r, rows) = Cardinality(Before(q, r, rows))
  BY DEF Before, Rank
<1> QED BY <1>1, <1>2, TimesAreFinite

\* Rows that come can only push others back, rows that go only move them up.
LEMMA RankGrows ==
  ASSUME NEW rows \in SUBSET Times, NEW more \in SUBSET Times, NEW q, NEW r,
         Before(q, r, rows) \subseteq Before(q, r, more)
  PROVE  Rank(q, r, rows) <= Rank(q, r, more)
<1>1. IsFiniteSet(Before(q, r, more))
  BY RankIsNat, TimesAreFinite
<1> QED BY <1>1, RankIsNat, FS_Subset

LEMMA RankStaysBelow ==
  ASSUME NEW rows \in SUBSET Times, NEW more \in SUBSET Times, NEW q, NEW r, NEW n \in Nat,
         Before(q, r, rows) \subseteq Before(q, r, more), Rank(q, r, more) < n
  PROVE  Rank(q, r, rows) < n
<1>1. Rank(q, r, rows) \in Nat /\ Rank(q, r, more) \in Nat
  BY RankIsNat
<1> QED BY <1>1, RankGrows

LEMMA RankIsStrict ==
  ASSUME NEW rows \in SUBSET Times, NEW q, NEW r \in Matching(q, rows),
         NEW s \in Matching(q, rows), r \in Before(q, s, rows)
  PROVE  Rank(q, r, rows) < Rank(q, s, rows)
<1> DEFINE B == Before(q, r, rows)
           C == Before(q, s, rows)
<1>1. r \in Nat /\ s \in Nat /\ \A x \in Matching(q, rows) : x \in Nat
  BY TimesAreFinite DEF Matching
<1>2. B \cup {r} \subseteq C /\ r \notin B
  <2>1. r \notin B
    BY <1>1 DEF Before
  <2>2. ASSUME NEW x \in B PROVE x \in C
    <3>1. x \in Matching(q, rows) /\ x \in Nat
      BY <1>1 DEF Before
    <3> QED BY <1>1, <3>1 DEF Before
  <2> QED BY <2>1, <2>2
<1>3. IsFiniteSet(B) /\ IsFiniteSet(C) /\ Cardinality(B) \in Nat /\ Cardinality(C) \in Nat
  BY RankIsNat, TimesAreFinite
<1>4. Cardinality(B \cup {r}) = Cardinality(B) + 1
  BY <1>2, <1>3, FS_AddElement
<1>5. Cardinality(B \cup {r}) <= Cardinality(C)
  BY <1>2, <1>3, FS_Subset
<1> QED BY <1>3, <1>4, <1>5, RankIsNat

LEMMA RankIsBelowCount ==
  ASSUME NEW rows \in SUBSET Times, NEW q, NEW r \in Matching(q, rows)
  PROVE  Rank(q, r, rows) < Cardinality(Matching(q, rows))
<1> DEFINE B == Before(q, r, rows)
           M == Matching(q, rows)
<1>1. M \in SUBSET Times
  BY DEF Matching
<1>2. r \in Nat
  BY <1>1, TimesAreFinite
<1>3. B \subseteq M \ {r}
  BY <1>2 DEF Before
<1>4. IsFiniteSet(M) /\ Cardinality(M) \in Nat
  BY <1>1, TimesAreFinite
<1>5. IsFiniteSet(M \ {r}) /\ Cardinality(M \ {r}) = Cardinality(M) - 1
  BY <1>4, FS_RemoveElement
<1>6. Cardinality(B) <= Cardinality(M \ {r})
  BY <1>3, <1>5, FS_Subset
<1> QED BY <1>4, <1>5, <1>6, RankIsNat

\* The ranks of n matching rows are 0 to n - 1, each once.
LEMMA RanksAreABijection ==
  ASSUME NEW rows \in SUBSET Times, NEW q
  PROVE  [r \in Matching(q, rows) |-> Rank(q, r, rows)]
           \in Bijection(Matching(q, rows), 0..(Cardinality(Matching(q, rows)) - 1))
<1> DEFINE M == Matching(q, rows)
           n == Cardinality(M)
           f == [r \in M |-> Rank(q, r, rows)]
<1>1. M \in SUBSET Times
  BY DEF Matching
<1>2. IsFiniteSet(M) /\ n \in Nat /\ M \subseteq Nat
  BY <1>1, TimesAreFinite
<1>3. f \in [M -> 0..(n - 1)]
  BY <1>2, RankIsNat, RankIsBelowCount
<1>4. ASSUME NEW r \in M, NEW s \in M, r # s
      PROVE  f[r] # f[s]
  <2>1. r \in Before(q, s, rows) \/ s \in Before(q, r, rows)
    BY <1>2, <1>4 DEF Before
  <2>2. Rank(q, r, rows) < Rank(q, s, rows) \/ Rank(q, s, rows) < Rank(q, r, rows)
    BY <2>1, RankIsStrict
  <2> QED BY <2>2, RankIsNat
<1>5. f \in Injection(M, 0..(n - 1))
  BY <1>3, <1>4 DEF Injection, IsInjective
<1>6. IsFiniteSet(0..(n - 1)) /\ Cardinality(0..(n - 1)) = n
  BY <1>2, FS_Interval
<1>7. f \in Surjection(M, 0..(n - 1))
  BY <1>5, <1>6, FS_Injection
<1> QED BY <1>5, <1>7 DEF Bijection

\* So as many rows lie between two ranks as there are ranks.
Between(q, rows, a, b) ==
  {r \in Matching(q, rows) : a <= Rank(q, r, rows) /\ Rank(q, r, rows) <= b}

LEMMA RowsBetweenRanks ==
  ASSUME NEW rows \in SUBSET Times, NEW q, NEW a \in Nat, NEW b \in Nat,
         a <= b, b < Cardinality(Matching(q, rows))
  PROVE  /\ IsFiniteSet(Between(q, rows, a, b))
         /\ Cardinality(Between(q, rows, a, b)) = b - a + 1
<1> DEFINE M == Matching(q, rows)
           n == Cardinality(M)
           f == [r \in M |-> Rank(q, r, rows)]
           S == {r \in M : a <= Rank(q, r, rows) /\ Rank(q, r, rows) <= b}
           g == [r \in S |-> Rank(q, r, rows)]
<1>1. f \in Bijection(M, 0..(n - 1))
  BY RanksAreABijection
<1>2. M \in SUBSET Times /\ S \in SUBSET Times
  BY DEF Matching
<1>3. IsFiniteSet(S) /\ n \in Nat
  BY <1>2, TimesAreFinite
<1>4. \A r \in M : Rank(q, r, rows) \in Nat
  BY RankIsNat
<1>5. g \in [S -> a..b]
  BY <1>4
<1>6. \A r, s \in S : g[r] = g[s] => r = s
  <2>1. \A r, s \in M : f[r] = f[s] => r = s
    BY <1>1 DEF Bijection, Injection, IsInjective
  <2> QED BY <2>1
<1>7. ASSUME NEW k \in a..b PROVE \E r \in S : g[r] = k
  <2>1. k \in 0..(n - 1)
    BY <1>3
  <2>2. PICK r \in M : f[r] = k
    BY <1>1, <2>1 DEF Bijection, Surjection
  <2>3. r \in S
    BY <2>2
  <2> QED BY <2>2, <2>3
<1>8. g \in Bijection(S, a..b)
  BY <1>5, <1>6, <1>7 DEF Bijection, Injection, Surjection, IsInjective
<1>9. Cardinality(a..b) = Cardinality(S)
  BY <1>3, <1>8, FS_Bijection DEF ExistsBijection
<1>10. Cardinality(a..b) = b - a + 1
  BY FS_Interval
<1>11. S = Between(q, rows, a, b)
  BY DEF Between
<1> QED BY <1>3, <1>9, <1>10, <1>11

\* A page ends where the next offset says, which is no further than the matching rows go unless
\* the page is empty; and a page that is not full is the last one.
LEMMA PageAdvances ==
  ASSUME NEW rows \in SUBSET Times, NEW q, q.offset \in Nat, q.limit \in Nat
  PROVE  LET page == PageOf(q, rows)
             next == NextOffset(q.offset, Cardinality(page))
         IN  /\ page \subseteq Matching(q, rows)
             /\ Cardinality(page) \in Nat
             /\ Cardinality(page) # 0 => next <= Cardinality(Matching(q, rows))
             /\ \A r \in Matching(q, rows) :
                  Rank(q, r, rows) < next <=> (Rank(q, r, rows) < q.offset \/ r \in page)
             /\ Cardinality(page) < PageSize(q.limit) =>
                  \A r \in Matching(q, rows) : Rank(q, r, rows) < next
<1> DEFINE M    == Matching(q, rows)
           page == PageOf(q, rows)
           n    == Cardinality(M)
           c    == Cardinality(page)
           size == PageSize(q.limit)
           off  == q.offset
           UpTo(b) == Between(q, rows, off, b)
<1> HIDE DEF UpTo
<1>1. M \in SUBSET Times /\ page \in SUBSET Times /\ page \subseteq M
  BY DEF Matching, PageOf
<1>2. IsFiniteSet(page) /\ c \in Nat /\ n \in Nat
  BY <1>1, TimesAreFinite
<1>3. size \in Nat \ {0}
  BY DefaultAssumption DEF PageSize
<1>4. \A r \in M : Rank(q, r, rows) \in Nat /\ Rank(q, r, rows) < n
  BY RankIsNat, RankIsBelowCount
<1>5. page = {r \in M : off <= Rank(q, r, rows) /\ Rank(q, r, rows) < off + size}
  BY DEF PageOf
<1>6. ASSUME NEW b \in Nat, b < n, off <= b
      PROVE  IsFiniteSet(UpTo(b)) /\ Cardinality(UpTo(b)) = b - off + 1
  BY <1>6, RowsBetweenRanks DEF UpTo
<1>7. ASSUME NEW b \in Nat, b < n, off <= b, b < off + size
      PROVE  b < off + c
  <2>1. UpTo(b) \subseteq page
    BY <1>3, <1>4, <1>5, <1>7 DEF UpTo, Between
  <2>2. Cardinality(UpTo(b)) <= c
    BY <1>2, <2>1, FS_Subset
  <2> QED BY <1>2, <1>6, <1>7, <2>2
<1>8. c <= size /\ (c # 0 => off + c <= n)
  <2>1. CASE n = 0
    <3>1. IsFiniteSet(M)
      BY <1>1, TimesAreFinite
    <3>2. c <= n
      BY <1>1, <3>1, FS_Subset
    <3>3. c = 0
      BY <1>2, <2>1, <3>2
    <3> QED BY <1>3, <3>3
  <2>2. CASE n > 0 /\ off + size <= n
    <3> DEFINE b == off + size - 1
    <3>1. b \in Nat /\ b < n /\ off <= b
      BY <1>2, <1>3, <2>2
    <3>2. page \subseteq UpTo(b)
      BY <1>3, <1>4, <1>5 DEF UpTo, Between
    <3>3. IsFiniteSet(UpTo(b)) /\ Cardinality(UpTo(b)) = size
      BY <1>3, <1>6, <3>1
    <3>4. c <= size
      BY <3>2, <3>3, FS_Subset
    <3> QED BY <1>2, <1>3, <2>2, <3>4
  <2>3. CASE n > 0 /\ n < off + size /\ off < n
    <3> DEFINE b == n - 1
    <3>1. b \in Nat /\ b < n /\ off <= b
      BY <1>2, <2>3
    <3>2. page \subseteq UpTo(b)
      BY <1>2, <1>4, <1>5 DEF UpTo, Between
    <3>3. IsFiniteSet(UpTo(b)) /\ Cardinality(UpTo(b)) = n - off
      BY <1>2, <1>6, <3>1
    <3>4. c <= n - off
      BY <3>2, <3>3, FS_Subset
    <3> QED BY <1>2, <1>3, <2>3, <3>4
  <2>4. CASE n <= off
    <3>1. page = {}
      BY <1>2, <1>4, <1>5, <2>4
    <3>2. c = 0
      BY <3>1, FS_EmptySet
    <3> QED BY <1>3, <3>2
  <2> QED BY <1>2, <1>3, <2>1, <2>2, <2>3, <2>4
<1>9. ASSUME NEW r \in M
      PROVE  Rank(q, r, rows) < off + c <=> (Rank(q, r, rows) < off \/ r \in page)
  BY <1>2, <1>3, <1>4, <1>5, <1>7, <1>8
<1>10. ASSUME c < size, NEW r \in M
       PROVE  Rank(q, r, rows) < off + c
  <2>1. CASE Rank(q, r, rows) < off + size
    BY <1>2, <1>3, <1>4, <1>5, <1>9, <2>1
  <2>2. CASE Rank(q, r, rows) >= off + size
    <3> DEFINE b == off + size - 1
    <3>1. b \in Nat /\ b < n /\ off <= b /\ b < off + size
      BY <1>2, <1>3, <1>4, <2>2
    <3>2. b < off + c
      BY <1>7, <3>1
    <3> QED BY <1>2, <1>3, <1>10, <3>2
  <2> QED BY <1>3, <1>4, <2>1, <2>2
<1> QED BY <1>1, <1>2, <1>8, <1>9, <1>10 DEF NextOffset

\* The cursor changes only the offset of a query.
LEMMA ResumedQuery ==
  ASSUME NEW q \in Query, NEW offset \in Nat
  PROVE  /\ ResumeAt(q, offset).offset = offset
         /\ ResumeAt(q, offset).limit = q.limit /\ q.limit \in Nat
         /\ \A rows : Matching(ResumeAt(q, offset), rows) = Matching(q, rows)
         /\ \A rows, r : Rank(ResumeAt(q, offset), r, rows) = Rank(q, r, rows)
<1>1. /\ ResumeAt(q, offset).offset = offset
      /\ ResumeAt(q, offset).limit = q.limit
      /\ ResumeAt(q, offset).end = q.end
      /\ ResumeAt(q, offset).direction = q.direction
  BY DEF ResumeAt, Query
<1>2. q.limit \in Nat
  BY QueryAssumption DEF Query
<1>3. \A rows : Matching(ResumeAt(q, offset), rows) = Matching(q, rows)
  BY <1>1 DEF Matching
<1>4. \A rows, r : Rank(ResumeAt(q, offset), r, rows) = Rank(q, r, rows)
  BY <1>1, <1>3 DEF Rank
<1> QED BY <1>1, <1>2, <1>3, <1>4
-----------------------------------------------------------------------------
(* The invariant *)

\* What the client has, and what it may have read, in each phase.
PhaseOK ==
  /\ phase = "idle" => fresh = {}
  /\ phase \in {"idle", "counting"} => after = 0 /\ seen = {} /\ repeated = {}
  /\ phase # "idle" => /\ Rows \subseteq origin \cup fresh
                       /\ ~cut => origin \subseteq Rows
  /\ seen \subseteq Matching(query, origin \cup fresh)
  /\ phase \in {"paging", "done"} /\ fresh = {} /\ ~cut =>
       total = Cardinality(Matching(query, origin))

\* As long as rows arrive in time order, so are the segments, and the buffer comes last.
InOrder ==
  ~late =>
    \A i \in DOMAIN segs : \A x \in segs[i] :
      /\ \A j \in DOMAIN segs : i < j => \A y \in segs[j] : x < y
      /\ \A y \in buffer : x < y

\* No row before the cursor was missed ...
NothingBehind ==
  phase = "paging" /\ (~cut \/ (query.direction = "Backward" /\ ~late)) =>
    \A r \in Matching(query, origin \cap Rows) : Rank(query, r, Rows) < after => r \in seen

\* ... and no row after it was read.
NothingAhead ==
  phase = "paging" /\ ((query.direction = "Forward" /\ ~late) \/ Matching(query, fresh) = {}) =>
    \A r \in seen \cap Rows : Rank(query, r, Rows) < after

IInv == /\ TypeOK /\ PhaseOK /\ InOrder
        /\ NothingBehind /\ NothingAhead
        /\ NeverSkips /\ NeverRepeats
-----------------------------------------------------------------------------
(* The store *)

LEMMA RowsAre ==
  ASSUME segs \in Seq(SUBSET Times)
  PROVE  \A x : x \in Rows <=> (x \in buffer \/ \E i \in DOMAIN segs : x \in segs[i])
BY DEF Rows, ToSet

LEMMA RowsWillBe ==
  ASSUME segs' \in Seq(SUBSET Times)
  PROVE  \A x : x \in Rows' <=> (x \in buffer' \/ \E i \in DOMAIN segs' : x \in segs'[i])
BY DEF Rows, ToSet

\* Sealing moves the buffer behind the segments, and no row is lost.
LEMMA SealedKeeps ==
  ASSUME TypeOK
  PROVE  /\ Sealed \in Seq(SUBSET Times)
         /\ \A x : x \in Rows <=> \E i \in DOMAIN Sealed : x \in Sealed[i]
         /\ InOrder /\ ~late => \A i, j \in DOMAIN Sealed :
              i < j => \A x \in Sealed[i], y \in Sealed[j] : x < y
<1>1. segs \in Seq(SUBSET Times) /\ buffer \in SUBSET Times
  BY DEF TypeOK
<1>2. CASE buffer = {}
  <2>1. Sealed = segs
    BY <1>2 DEF Sealed
  <2>2. \A x : x \in Rows <=> \E i \in DOMAIN Sealed : x \in Sealed[i]
    BY <1>1, <1>2, <2>1, RowsAre
  <2> QED BY <1>1, <2>1, <2>2 DEF InOrder
<1>3. CASE buffer # {}
  <2>1. Sealed = Append(segs, buffer)
    BY <1>3 DEF Sealed
  <2>2. /\ Sealed \in Seq(SUBSET Times) /\ DOMAIN Sealed = 1..(Len(segs) + 1)
        /\ DOMAIN segs = 1..Len(segs) /\ Len(segs) \in Nat
        /\ \A i \in 1..Len(segs) : Sealed[i] = segs[i]
        /\ Sealed[Len(segs) + 1] = buffer
    BY <1>1, <2>1
  <2>3. \A x : x \in Rows <=> \E i \in DOMAIN Sealed : x \in Sealed[i]
    <3>1. ASSUME NEW x \in Rows PROVE \E i \in DOMAIN Sealed : x \in Sealed[i]
      BY <1>1, <2>2, <3>1, RowsAre
    <3>2. ASSUME NEW i \in DOMAIN Sealed, NEW x \in Sealed[i] PROVE x \in Rows
      BY <1>1, <2>2, RowsAre
    <3> QED BY <3>1, <3>2
  <2>4. ASSUME InOrder, ~late, NEW i \in DOMAIN Sealed, NEW j \in DOMAIN Sealed, i < j,
               NEW x \in Sealed[i], NEW y \in Sealed[j]
        PROVE  x < y
    <3>1. i \in DOMAIN segs /\ x \in segs[i]
      BY <2>2, <2>4
    <3>2. CASE j \in DOMAIN segs
      BY <2>2, <2>4, <3>1, <3>2 DEF InOrder
    <3>3. CASE j \notin DOMAIN segs
      <4>1. y \in buffer
        BY <2>2, <3>3
      <4> QED BY <2>4, <3>1, <4>1 DEF InOrder
    <3> QED BY <3>2, <3>3
  <2> QED BY <2>2, <2>3, <2>4
<1> QED BY <1>2, <1>3

LEMMA IngestMoves ==
  ASSUME TypeOK, InOrder, NEW r \in Times, IngestLogs(r)
  PROVE  Rows' = Rows \cup {r} /\ r \notin Rows /\ InOrder'
<1>1. /\ r \notin arrived /\ buffer' = buffer \cup {r} /\ segs' = segs
      /\ late' = (late \/ \E x \in arrived : r < x)
  BY DEF IngestLogs
<1>2. Rows' = Rows \cup {r} /\ r \notin Rows
  BY <1>1 DEF Rows, TypeOK
<1>3. InOrder'
  <2>1. SUFFICES ASSUME ~late', NEW i \in DOMAIN segs, NEW x \in segs[i]
                 PROVE  /\ \A j \in DOMAIN segs : i < j => \A y \in segs[j] : x < y
                        /\ \A y \in buffer \cup {r} : x < y
    BY <1>1 DEF InOrder
  <2>2. ~late /\ \A y \in arrived : ~(r < y)
    BY <1>1, <2>1
  <2>3. x \in arrived /\ x \in Nat /\ r \in Nat
    BY RowsAre, MaxTimeAssumption DEF TypeOK, Times
  <2>4. x < r
    BY <1>1, <2>2, <2>3
  <2> QED BY <2>2, <2>4 DEF InOrder
<1> QED BY <1>2, <1>3

LEMMA FlushMoves ==
  ASSUME TypeOK, InOrder, Flush
  PROVE  Rows' = Rows /\ InOrder' /\ segs' \in Seq(SUBSET Times) /\ buffer' = {}
<1>1. buffer' = {} /\ segs' = Sealed /\ late' = late
  BY DEF Flush
<1>2. Rows' = Rows
  BY <1>1, SealedKeeps, RowsWillBe
<1>3. InOrder'
  BY <1>1, SealedKeeps DEF InOrder
<1> QED BY <1>1, <1>2, <1>3, SealedKeeps

\* What goes is older than what stays, as long as the segments are in order.
LEMMA MaintainMoves ==
  ASSUME TypeOK, InOrder, NEW k \in Times, Maintain(k)
  PROVE  /\ segs' \in Seq(SUBSET Times) /\ buffer' = {}
         /\ Rows' \subseteq Rows
         /\ segs' = Sealed => Rows' = Rows
         /\ ~late => \A x \in Rows', y \in Rows : y \notin Rows' => y < x
         /\ InOrder'
<1> DEFINE Stays(i) == \E r \in Sealed[i] : r > k
<1>1. /\ buffer' = {} /\ late' = late
      /\ segs' = [i \in DOMAIN Sealed |-> IF Stays(i) THEN Sealed[i] ELSE {}]
  BY DEF Maintain
<1>2. /\ Sealed \in Seq(SUBSET Times)
      /\ \A x : x \in Rows <=> \E i \in DOMAIN Sealed : x \in Sealed[i]
  BY SealedKeeps
<1>3. ~late => \A i, j \in DOMAIN Sealed : i < j => \A x \in Sealed[i], y \in Sealed[j] : x < y
  BY SealedKeeps
<1>4. segs' \in Seq(SUBSET Times) /\ DOMAIN segs' = DOMAIN Sealed
  <2>1. /\ DOMAIN segs' = 1..Len(Sealed) /\ Len(Sealed) \in Nat
        /\ \A i \in 1..Len(Sealed) : segs'[i] \in SUBSET Times
    BY <1>1, <1>2
  <2> QED BY <1>1, <1>2, <2>1
<1>5. \A x : x \in Rows' <=> \E i \in DOMAIN Sealed : Stays(i) /\ x \in Sealed[i]
  <2>1. \A x : x \in Rows' <=> \E i \in DOMAIN Sealed : x \in segs'[i]
    BY <1>1, <1>4, RowsWillBe
  <2> QED BY <1>1, <2>1
<1>6. Rows' \subseteq Rows
  BY <1>2, <1>5
<1>7. ASSUME segs' = Sealed PROVE Rows' = Rows
  <2>1. \A x : x \in Rows' <=> \E i \in DOMAIN Sealed : x \in Sealed[i]
    BY <1>1, <1>4, <1>7, RowsWillBe
  <2>2. \A x : x \in Rows' <=> x \in Rows
    BY <1>2, <2>1
  <2> QED BY <2>2
<1>8. ASSUME ~late, NEW x \in Rows', NEW y \in Rows, y \notin Rows'
      PROVE  y < x
  <2>1. PICK i \in DOMAIN Sealed : Stays(i) /\ x \in Sealed[i]
    BY <1>5
  <2>2. PICK j \in DOMAIN Sealed : y \in Sealed[j]
    BY <1>2
  <2>3. ~Stays(j)
    BY <1>5, <1>8, <2>2
  <2>4. PICK r \in Sealed[i] : r > k
    BY <2>1
  <2>5. i \in Nat /\ j \in Nat /\ r \in Nat /\ y \in Nat /\ k \in Nat /\ ~(y > k)
    BY <1>2, <2>2, <2>3, <2>4, MaxTimeAssumption DEF Times
  <2>6. CASE i < j
    <3>1. r < y
      BY <1>3, <1>8, <2>2, <2>4, <2>6
    <3> QED BY <2>4, <2>5, <3>1
  <2>7. CASE j < i
    BY <1>3, <1>8, <2>1, <2>2, <2>7
  <2>8. i # j
    BY <2>1, <2>3
  <2> QED BY <2>5, <2>6, <2>7, <2>8
<1>9. InOrder'
  <2>1. SUFFICES ASSUME ~late, NEW i \in DOMAIN segs', NEW x \in segs'[i],
                        NEW j \in DOMAIN segs', i < j, NEW y \in segs'[j]
                 PROVE  x < y
    BY <1>1 DEF InOrder
  <2>2. x \in Sealed[i] /\ y \in Sealed[j]
    BY <1>1, <1>4
  <2> QED BY <1>3, <1>4, <2>1, <2>2
<1> QED BY <1>1, <1>4, <1>6, <1>7, <1>8, <1>9

LEMMA CompactMoves ==
  ASSUME TypeOK, InOrder, Compact
  PROVE  segs' \in Seq(SUBSET Times) /\ Rows' = Rows /\ InOrder'
<1>1. PICK i \in DOMAIN segs, j \in DOMAIN segs :
         /\ i < j /\ \A n \in (i + 1)..(j - 1) : segs[n] = {}
         /\ segs' = [segs EXCEPT ![i] = {}, ![j] = segs[i] \cup segs[j]]
  BY DEF Compact
<1>2. /\ segs \in Seq(SUBSET Times) /\ buffer' = buffer /\ late' = late
      /\ i \in Nat /\ j \in Nat /\ DOMAIN segs \subseteq Nat
  BY DEF Compact, TypeOK
<1>3. /\ segs' \in Seq(SUBSET Times) /\ DOMAIN segs' = DOMAIN segs
      /\ segs'[i] = {} /\ segs'[j] = segs[i] \cup segs[j]
      /\ \A n \in DOMAIN segs : n # i /\ n # j => segs'[n] = segs[n]
  BY <1>1, <1>2
<1>4. Rows' = Rows
  <2>1. ASSUME NEW x, NEW n \in DOMAIN segs, x \in segs[n]
        PROVE  \E m \in DOMAIN segs' : x \in segs'[m]
    BY <1>3, <2>1
  <2>2. ASSUME NEW x, NEW n \in DOMAIN segs', x \in segs'[n]
        PROVE  \E m \in DOMAIN segs : x \in segs[m]
    BY <1>3, <2>2
  <2> QED BY <1>2, <1>3, <2>1, <2>2, RowsAre, RowsWillBe
<1>5. InOrder'
  <2>1. SUFFICES ASSUME ~late, NEW n \in DOMAIN segs, NEW x \in segs'[n]
                 PROVE  /\ \A m \in DOMAIN segs : n < m => \A y \in segs'[m] : x < y
                        /\ \A y \in buffer : x < y
    BY <1>2, <1>3 DEF InOrder
  <2>2. PICK p \in DOMAIN segs : x \in segs[p] /\ p <= n /\ (p = n \/ (p = i /\ n = j))
    BY <1>1, <1>2, <1>3
  <2>3. \A y \in buffer : x < y
    BY <2>1, <2>2 DEF InOrder
  <2>4. ASSUME NEW m \in DOMAIN segs, n < m, NEW y \in segs'[m]
        PROVE  x < y
    <3>1. CASE y \in segs[m]
      <4>1. p < m
        BY <1>2, <2>2, <2>4
      <4> QED BY <2>1, <2>2, <3>1, <4>1 DEF InOrder
    <3>2. CASE y \notin segs[m]
      <4>1. m = j /\ y \in segs[i] /\ n # i
        BY <1>3, <2>4, <3>2
      <4>2. p = n /\ n < j
        BY <1>2, <2>2, <2>4, <4>1
      <4>3. n < i
        <5>1. segs[n] # {}
          BY <2>2, <4>2
        <5>2. n \notin (i + 1)..(j - 1)
          BY <1>1, <5>1
        <5> QED BY <1>2, <4>1, <4>2, <5>2
      <4> QED BY <2>1, <2>2, <4>1, <4>2, <4>3 DEF InOrder
    <3> QED BY <3>1, <3>2
  <2> QED BY <2>3, <2>4
<1> QED BY <1>3, <1>4, <1>5
-----------------------------------------------------------------------------
(* The steps *)

LEMMA InitInv == Init => IInv
<1> SUFFICES ASSUME Init PROVE IInv
  OBVIOUS
<1>1. Rows = {}
  BY DEF Init, Rows, ToSet
<1>2. TypeOK
  <2>1. segs \in Seq(SUBSET Times)
    BY DEF Init
  <2> QED BY <1>1, <2>1 DEF Init, TypeOK
<1>3. PhaseOK
  BY DEF Init, PhaseOK
<1>4. InOrder
  BY DEF Init, InOrder
<1> QED BY <1>2, <1>3, <1>4 DEF Init, IInv, NothingBehind, NothingAhead, NeverSkips, NeverRepeats, Complete

LEMMA RowsAreTimes == TypeOK => Rows \in SUBSET Times
BY DEF TypeOK

\* A step that moves rows between segments, or none.
LEMMA RowsStayInv ==
  ASSUME IInv, Rows' = Rows, InOrder', segs' \in Seq(SUBSET Times), buffer' \in SUBSET Times,
         UNCHANGED <<arrived, late, phase, query, cursor, ghosts>>
  PROVE  IInv'
<1> USE DEF cursor, ghosts
<1>1. TypeOK'
  BY DEF IInv, TypeOK
<1>2. PhaseOK'
  BY DEF IInv, PhaseOK, Matching
<1>3. NothingBehind' /\ NothingAhead'
  BY DEF IInv, NothingBehind, NothingAhead, Matching, Rank
<1>4. NeverSkips' /\ NeverRepeats'
  BY DEF IInv, NeverSkips, NeverRepeats, Complete, Matching
<1> QED BY <1>1, <1>2, <1>3, <1>4 DEF IInv

LEMMA IngestInv ==
  ASSUME IInv, phase # "done", NEW r \in Times, IngestLogs(r)
  PROVE  IInv'
<1>1. /\ r \notin arrived /\ buffer' = buffer \cup {r} /\ arrived' = arrived \cup {r}
      /\ late' = (late \/ \E x \in arrived : r < x)
      /\ fresh' = (IF phase = "idle" THEN {} ELSE fresh \cup {r})
      /\ segs' = segs /\ phase' = phase /\ query' = query /\ after' = after /\ total' = total
      /\ seen' = seen /\ repeated' = repeated /\ origin' = origin /\ cut' = cut
  BY DEF IngestLogs, cursor
<1>2. TypeOK /\ PhaseOK /\ InOrder
  BY DEF IInv
<1>3. Rows' = Rows \cup {r} /\ r \notin Rows /\ InOrder'
  BY <1>2, IngestMoves
<1>4. TypeOK'
  BY <1>1, <1>2, <1>3 DEF TypeOK
<1>5. PhaseOK'
  BY <1>1, <1>2, <1>3 DEF PhaseOK, TypeOK, Matching
<1>6. Rows \in SUBSET Times /\ Rows' \in SUBSET Times
  BY <1>2, <1>4, RowsAreTimes DEF TypeOK
<1>7. NothingBehind'
  <2>1. SUFFICES ASSUME phase = "paging", ~cut \/ (query.direction = "Backward" /\ ~late'),
                        NEW x \in Matching(query, origin \cap Rows'),
                        Rank(query, x, Rows') < after
                 PROVE  x \in seen
    BY <1>1 DEF NothingBehind
  <2>2. x \in Matching(query, origin \cap Rows)
    BY <1>1, <1>2, <1>3, <2>1 DEF Matching, TypeOK
  <2>3. Before(query, x, Rows) \subseteq Before(query, x, Rows')
    BY <1>3 DEF Before, Matching
  <2>4. after \in Nat
    BY <1>2 DEF TypeOK
  <2>5. Rank(query, x, Rows) < after
    BY <1>6, <2>1, <2>3, <2>4, RankStaysBelow
  <2>6. ~cut \/ (query.direction = "Backward" /\ ~late)
    BY <1>1, <2>1
  <2> QED BY <2>1, <2>2, <2>5, <2>6 DEF IInv, NothingBehind
<1>8. ASSUME phase # "idle",
             (query.direction = "Forward" /\ ~late') \/ Matching(query, fresh') = {}
      PROVE  /\ (query.direction = "Forward" /\ ~late) \/ Matching(query, fresh) = {}
             /\ \A x \in seen : Before(query, x, Rows') \subseteq Before(query, x, Rows)
  <2>1. (query.direction = "Forward" /\ ~late) \/ Matching(query, fresh) = {}
    BY <1>1, <1>8 DEF Matching
  <2>2. ASSUME NEW x \in seen, query.direction = "Forward", ~late'
        PROVE  Before(query, x, Rows') \subseteq Before(query, x, Rows)
    <3>1. x \in arrived /\ x \in Nat /\ r \in Nat
      BY <1>2, MaxTimeAssumption DEF TypeOK, Times
    <3>2. ~(r < x)
      BY <1>1, <2>2, <3>1
    <3> QED BY <1>3, <2>2, <3>2 DEF Before, Matching
  <2>3. ASSUME NEW x \in seen, Matching(query, fresh') = {}
        PROVE  Before(query, x, Rows') \subseteq Before(query, x, Rows)
    <3>1. ~(r < query.end)
      BY <1>1, <1>8, <2>3 DEF Matching
    <3> QED BY <1>3, <3>1 DEF Before, Matching
  <2> QED BY <1>8, <2>1, <2>2, <2>3
<1>9. NothingAhead'
  <2>1. SUFFICES ASSUME phase = "paging",
                        (query.direction = "Forward" /\ ~late') \/ Matching(query, fresh') = {},
                        NEW x \in seen \cap Rows'
                 PROVE  Rank(query, x, Rows') < after
    BY <1>1 DEF NothingAhead
  <2>2. x \in seen \cap Rows
    BY <1>1, <1>2, <1>3 DEF TypeOK
  <2>3. Rank(query, x, Rows) < after
    BY <1>8, <2>1, <2>2 DEF IInv, NothingAhead
  <2>4. after \in Nat /\ Before(query, x, Rows') \subseteq Before(query, x, Rows)
    BY <1>2, <1>8, <2>1 DEF TypeOK
  <2> QED BY <1>6, <2>3, <2>4, RankStaysBelow
<1>10. NeverSkips'
  BY <1>1 DEF NeverSkips, Complete
<1>11. NeverRepeats'
  BY <1>1, <1>2, <1>8 DEF NeverRepeats, IInv, PhaseOK
<1> QED BY <1>3, <1>4, <1>5, <1>7, <1>9, <1>10, <1>11 DEF IInv

LEMMA MaintainInv ==
  ASSUME IInv, phase # "done", NEW k \in Times, Maintain(k)
  PROVE  IInv'
<1>1. /\ buffer' = {} /\ cut' = (cut \/ (phase # "idle" /\ segs' # Sealed))
      /\ arrived' = arrived /\ late' = late /\ phase' = phase /\ query' = query
      /\ after' = after /\ total' = total /\ seen' = seen /\ repeated' = repeated
      /\ origin' = origin /\ fresh' = fresh
  BY DEF Maintain, cursor
<1>2. TypeOK /\ PhaseOK /\ InOrder
  BY DEF IInv
<1>3. /\ segs' \in Seq(SUBSET Times) /\ Rows' \subseteq Rows
      /\ segs' = Sealed => Rows' = Rows
      /\ ~late => \A x \in Rows', y \in Rows : y \notin Rows' => y < x
      /\ InOrder'
  BY <1>2, MaintainMoves
<1>4. TypeOK'
  BY <1>1, <1>2, <1>3 DEF TypeOK
<1>5. PhaseOK'
  BY <1>1, <1>2, <1>3 DEF PhaseOK, Matching
<1>6. Rows \in SUBSET Times /\ Rows' \in SUBSET Times
  BY <1>2, <1>3, RowsAreTimes
<1>7. NothingBehind'
  <2>1. SUFFICES ASSUME phase = "paging", ~cut' \/ (query.direction = "Backward" /\ ~late),
                        NEW x \in Matching(query, origin \cap Rows'),
                        Rank(query, x, Rows') < after
                 PROVE  x \in seen
    BY <1>1 DEF NothingBehind
  <2>2. x \in Matching(query, origin \cap Rows)
    BY <1>3 DEF Matching
  <2>3. ~cut \/ (query.direction = "Backward" /\ ~late)
    BY <1>1, <2>1
  <2>4. Before(query, x, Rows) \subseteq Before(query, x, Rows')
    <3>1. CASE ~cut'
      BY <1>1, <1>3, <2>1, <3>1
    <3>2. CASE query.direction = "Backward" /\ ~late
      <4>1. SUFFICES ASSUME NEW y \in Rows, y > x PROVE y \in Rows'
        BY <3>2 DEF Before, Matching
      <4>2. x \in Rows' /\ x \in Nat /\ y \in Nat
        BY <1>6, <2>1, TimesAreFinite DEF Matching
      <4> QED BY <1>3, <3>2, <4>1, <4>2
    <3> QED BY <2>1, <3>1, <3>2
  <2>5. Rank(query, x, Rows) < after
    BY <1>2, <1>6, <2>1, <2>4, RankStaysBelow DEF TypeOK
  <2> QED BY <2>1, <2>2, <2>3, <2>5 DEF IInv, NothingBehind
<1>8. NothingAhead'
  <2>1. SUFFICES ASSUME phase = "paging",
                        (query.direction = "Forward" /\ ~late) \/ Matching(query, fresh) = {},
                        NEW x \in seen \cap Rows'
                 PROVE  Rank(query, x, Rows') < after
    BY <1>1 DEF NothingAhead
  <2>2. Rank(query, x, Rows) < after
    BY <1>3, <2>1 DEF IInv, NothingAhead
  <2>3. Before(query, x, Rows') \subseteq Before(query, x, Rows)
    BY <1>3 DEF Before, Matching
  <2>4. after \in Nat
    BY <1>2 DEF TypeOK
  <2> QED BY <1>6, <2>2, <2>3, <2>4, RankStaysBelow
<1>9. NeverSkips' /\ NeverRepeats'
  BY <1>1 DEF NeverSkips, NeverRepeats, Complete, IInv
<1> QED BY <1>3, <1>4, <1>5, <1>7, <1>8, <1>9 DEF IInv

LEMMA StartScanInv ==
  ASSUME IInv, NEW q \in Query, StartScan(q)
  PROVE  IInv'
<1>1. /\ phase = "idle" /\ phase' = "counting" /\ query' = q /\ origin' = Rows
      /\ UNCHANGED <<buffer, segs, arrived, late, after, total, seen, repeated, fresh, cut>>
  BY DEF StartScan, store, cursor
<1>2. TypeOK /\ PhaseOK /\ InOrder
  BY DEF IInv
<1>3. Rows' = Rows /\ fresh = {} /\ seen = {} /\ repeated = {}
  BY <1>1, <1>2 DEF Rows, PhaseOK
<1>4. TypeOK'
  BY <1>1, <1>2, <1>3 DEF TypeOK
<1>5. PhaseOK'
  BY <1>1, <1>2, <1>3 DEF PhaseOK, Matching
<1>6. InOrder'
  BY <1>1, <1>2 DEF InOrder
<1> QED BY <1>1, <1>3, <1>4, <1>5, <1>6
        DEF IInv, NothingBehind, NothingAhead, NeverSkips, NeverRepeats, Complete

LEMMA LogsCountInv ==
  ASSUME IInv, LogsCount
  PROVE  IInv'
<1>1. /\ phase = "counting" /\ phase' = "paging"
      /\ total' = Cardinality(Matching(query, Rows))
      /\ UNCHANGED <<buffer, segs, arrived, late, query, after, seen, repeated, origin, fresh, cut>>
  BY DEF LogsCount, MatchCount, store, ghosts
<1>2. TypeOK /\ PhaseOK /\ InOrder
  BY DEF IInv
<1>3. /\ Rows' = Rows /\ Rows \in SUBSET Times
      /\ after = 0 /\ seen = {} /\ repeated = {}
  BY <1>1, <1>2, RowsAreTimes DEF Rows, PhaseOK
<1>4. total' \in Nat
  <2>1. Matching(query, Rows) \in SUBSET Times
    BY <1>3 DEF Matching
  <2> QED BY <1>1, <2>1, TimesAreFinite
<1>5. TypeOK'
  BY <1>1, <1>2, <1>3, <1>4 DEF TypeOK
<1>6. PhaseOK'
  <2>1. fresh = {} /\ ~cut => Rows = origin
    BY <1>1, <1>2 DEF PhaseOK
  <2> QED BY <1>1, <1>2, <1>3, <2>1 DEF PhaseOK, Matching
<1>7. InOrder'
  BY <1>1, <1>2 DEF InOrder
<1>8. NothingBehind'
  <2>1. \A r : Rank(query, r, Rows) \in Nat
    BY <1>3, RankIsNat
  <2> QED BY <1>1, <1>3, <2>1 DEF NothingBehind, Matching, Rank
<1> QED BY <1>1, <1>3, <1>5, <1>6, <1>7, <1>8
        DEF IInv, NothingAhead, NeverSkips, NeverRepeats, Complete

LEMMA LogsPageInv ==
  ASSUME IInv, LogsPage
  PROVE  IInv'
<1> DEFINE q    == ResumeAt(query, after)
           page == PageOf(q, Rows)
           c    == Cardinality(page)
<1>1. /\ phase = "paging" /\ seen' = seen \cup page
      /\ repeated' = repeated \cup (seen \cap page)
      /\ after' = NextOffset(after, c)
      /\ phase' = IF HasMore(query.limit, c) THEN "paging" ELSE "done"
      /\ UNCHANGED <<buffer, segs, arrived, late, query, total, origin, fresh, cut>>
  BY DEF LogsPage, store, ghosts
<1>2. TypeOK /\ PhaseOK /\ InOrder
  BY DEF IInv
<1>3. Rows' = Rows /\ Rows \in SUBSET Times
  BY <1>1, <1>2, RowsAreTimes DEF Rows
<1>4. /\ query \in Query /\ after \in Nat
      /\ q.offset = after /\ q.limit = query.limit /\ query.limit \in Nat
      /\ \A rows : Matching(q, rows) = Matching(query, rows)
      /\ \A rows, r : Rank(q, r, rows) = Rank(query, r, rows)
  BY <1>1, <1>2, ResumedQuery DEF TypeOK
<1> HIDE DEF q
<1>5. /\ page \subseteq Matching(query, Rows) /\ c \in Nat /\ after' \in Nat
      /\ \A r \in Matching(query, Rows) :
           Rank(query, r, Rows) < after' <=> (Rank(query, r, Rows) < after \/ r \in page)
      /\ c < PageSize(query.limit) =>
           \A r \in Matching(query, Rows) : Rank(query, r, Rows) < after'
  <2>1. after' = NextOffset(q.offset, c)
    BY <1>1, <1>4
  <2>2. /\ page \subseteq Matching(q, Rows) /\ c \in Nat
        /\ \A r \in Matching(q, Rows) :
             Rank(q, r, Rows) < NextOffset(q.offset, c) <=> (Rank(q, r, Rows) < q.offset \/ r \in page)
        /\ c < PageSize(q.limit) =>
             \A r \in Matching(q, Rows) : Rank(q, r, Rows) < NextOffset(q.offset, c)
    <3>1. q.offset \in Nat /\ q.limit \in Nat
      BY <1>4
    <3> QED BY <1>3, <3>1, PageAdvances
  <2>3. after' \in Nat
    BY <1>1, <1>4, <2>2 DEF NextOffset
  <2> QED BY <1>4, <2>1, <2>2, <2>3
<1>6. \A r \in page : ~(Rank(query, r, Rows) < after)
  BY <1>3, <1>4, RankIsNat DEF PageOf
<1> HIDE DEF page, c
<1>7. TypeOK'
  BY <1>1, <1>2, <1>3, <1>5 DEF TypeOK, Matching
<1>8. PhaseOK'
  BY <1>1, <1>2, <1>3, <1>5 DEF PhaseOK, Matching
<1>9. InOrder'
  BY <1>1, <1>2 DEF InOrder
<1>10. ASSUME ~cut \/ (query.direction = "Backward" /\ ~late),
              NEW r \in Matching(query, origin \cap Rows), Rank(query, r, Rows) < after'
       PROVE  r \in seen'
  <2>1. r \in Matching(query, Rows)
    BY DEF Matching
  <2>2. CASE Rank(query, r, Rows) < after
    BY <1>1, <1>10, <2>2 DEF IInv, NothingBehind
  <2>3. CASE r \in page
    BY <1>1, <2>3
  <2> QED BY <1>5, <1>10, <2>1, <2>2, <2>3
<1>11. NothingBehind'
  BY <1>1, <1>3, <1>10 DEF NothingBehind
<1>12. NeverSkips'
  <2>1. SUFFICES ASSUME ~HasMore(query.limit, c), query.limit > 0,
                        ~cut \/ (query.direction = "Backward" /\ ~late),
                        NEW r \in Matching(query, origin \cap Rows)
                 PROVE  r \in seen'
    BY <1>1, <1>3 DEF NeverSkips, Complete
  <2>2. c < PageSize(query.limit)
    BY <1>4, <1>5, <2>1 DEF HasMore, PageSize
  <2>3. Rank(query, r, Rows) < after'
    BY <1>5, <2>2 DEF Matching
  <2> QED BY <1>10, <2>1, <2>3
<1>13. ASSUME (query.direction = "Forward" /\ ~late) \/ Matching(query, fresh) = {}
       PROVE  /\ repeated = {} /\ seen \cap page = {}
              /\ \A r \in seen \cap Rows : Rank(query, r, Rows) < after
  <2>1. repeated = {}
    BY <1>13 DEF IInv, NeverRepeats
  <2>2. \A r \in seen \cap Rows : Rank(query, r, Rows) < after
    BY <1>1, <1>13 DEF IInv, NothingAhead
  <2>3. page \subseteq Rows
    BY <1>5 DEF Matching
  <2> QED BY <1>6, <2>1, <2>2, <2>3
<1>14. NeverRepeats'
  BY <1>1, <1>13 DEF NeverRepeats
<1>15. NothingAhead'
  <2>1. SUFFICES ASSUME (query.direction = "Forward" /\ ~late) \/ Matching(query, fresh) = {},
                        NEW r \in (seen \cup page) \cap Rows
                 PROVE  Rank(query, r, Rows) < after'
    BY <1>1, <1>3 DEF NothingAhead
  <2>2. r \in Matching(query, Rows)
    BY <1>2, <1>5 DEF PhaseOK, Matching
  <2> QED BY <1>5, <1>13, <2>1, <2>2
<1> QED BY <1>7, <1>8, <1>9, <1>11, <1>12, <1>14, <1>15 DEF IInv

LEMMA NextInv == IInv /\ [Next]_vars => IInv'
<1> SUFFICES ASSUME IInv, [Next]_vars PROVE IInv'
  OBVIOUS
<1>1. TypeOK /\ InOrder
  BY DEF IInv
<1>2. ASSUME NEW r \in Times, phase # "done", IngestLogs(r) PROVE IInv'
  BY <1>2, IngestInv
<1>3. CASE Flush
  <2>1. Rows' = Rows /\ InOrder' /\ segs' \in Seq(SUBSET Times) /\ buffer' = {}
    BY <1>1, <1>3, FlushMoves
  <2> QED BY <1>3, <2>1, RowsStayInv DEF Flush
<1>4. ASSUME NEW k \in Times, phase # "done", Maintain(k) PROVE IInv'
  BY <1>4, MaintainInv
<1>5. CASE Compact
  <2>1. Rows' = Rows /\ InOrder' /\ segs' \in Seq(SUBSET Times) /\ buffer' = buffer
    BY <1>1, <1>5, CompactMoves DEF Compact
  <2>2. buffer \in SUBSET Times
    BY <1>1 DEF TypeOK
  <2> QED BY <1>5, <2>1, <2>2, RowsStayInv DEF Compact
<1>6. ASSUME NEW q \in Query, StartScan(q) PROVE IInv'
  BY <1>6, StartScanInv
<1>7. CASE LogsCount
  BY <1>7, LogsCountInv
<1>8. CASE LogsPage
  BY <1>8, LogsPageInv
<1>9. CASE UNCHANGED vars
  <2>1. /\ UNCHANGED <<buffer, segs>>
        /\ UNCHANGED <<arrived, late, phase, query, cursor, ghosts>>
    BY <1>9 DEF vars, store
  <2>2. Rows' = Rows /\ InOrder'
    BY <1>1, <2>1 DEF Rows, InOrder
  <2>3. segs' \in Seq(SUBSET Times) /\ buffer' \in SUBSET Times
    BY <1>1, <2>1 DEF TypeOK
  <2> QED BY <2>1, <2>2, <2>3, RowsStayInv
<1> QED BY <1>2, <1>3, <1>4, <1>5, <1>6, <1>7, <1>8, <1>9 DEF Next, Store, Client

LEMMA AlwaysInv == Spec => []IInv
<1>1. Init => IInv
  BY InitInv
<1>2. IInv /\ [Next]_vars => IInv'
  BY NextInv
<1> QED BY <1>1, <1>2, PTL DEF Spec
-----------------------------------------------------------------------------
(***************************************************************************)
(* The scan and the store stay well typed; the count is never negative.    *)
(***************************************************************************)
THEOREM TypeCorrect == Spec => []TypeOK
<1>1. IInv => TypeOK
  BY DEF IInv
<1> QED BY <1>1, AlwaysInv, PTL

(***************************************************************************)
(* Whatever is ingested, sealed, merged and retired between the pages, a   *)
(* scan that retention does not cut before its cursor misses no row that   *)
(* was stored from its beginning to its end.                               *)
(***************************************************************************)
THEOREM ScansNeverSkip == Spec => []NeverSkips
<1>1. IInv => NeverSkips
  BY DEF IInv
<1> QED BY <1>1, AlwaysInv, PTL

(***************************************************************************)
(* Unless rows arrive before its cursor, a scan reads none twice.          *)
(***************************************************************************)
THEOREM ScansNeverRepeat == Spec => []NeverRepeats
<1>1. IInv => NeverRepeats
  BY DEF IInv
<1> QED BY <1>1, AlwaysInv, PTL

LEMMA CompleteScanIsTheCount == IInv => PagesAddUp
<1> SUFFICES ASSUME IInv, Complete, fresh = {}, ~cut
             PROVE  Cardinality(seen) = total /\ repeated = {}
  BY DEF PagesAddUp
<1>1. phase = "done" /\ Rows = origin
  BY DEF IInv, PhaseOK, Complete
<1>2. Matching(query, origin) \subseteq seen
  BY <1>1 DEF IInv, NeverSkips
<1>3. seen = Matching(query, origin)
  BY <1>2 DEF IInv, PhaseOK
<1>4. Matching(query, fresh) = {}
  BY DEF Matching
<1> QED BY <1>1, <1>3, <1>4 DEF IInv, PhaseOK, NeverRepeats

(***************************************************************************)
(* On a store that nobody changes, the pages of a scan are what            *)
(* imbh_db_logs_count counted, for every limit and every offset left in    *)
(* the builder.                                                            *)
(***************************************************************************)
THEOREM ScansAddUp == Spec => []PagesAddUp
BY AlwaysInv, CompleteScanIsTheCount, PTL

-----------------------------------------------------------------------------
(* Progress *)

(***************************************************************************)
(* Every page that announces another one moves the cursor on, and over     *)
(* rows that are there: so a scan of rows that no longer increase has a    *)
(* last page, which is the measure behind ScanEnds.  Of imbh_db_logs_page: *)
(* limit 0 never announces one.                                            *)
(***************************************************************************)
PagesAdvance ==
  [][LogsPage /\ phase' = "paging" =>
       after < after' /\ after' <= Cardinality(Matching(query, Rows))]_vars

THEOREM PagesMoveOn == Spec => PagesAdvance
<1> DEFINE page == PageOf(ResumeAt(query, after), Rows)
           c    == Cardinality(page)
<1>1. ASSUME TypeOK, LogsPage, phase' = "paging"
      PROVE  after < after' /\ after' <= Cardinality(Matching(query, Rows))
  <2>1. HasMore(query.limit, c) /\ after' = NextOffset(after, c)
    BY <1>1 DEF LogsPage
  <2>2. query \in Query /\ after \in Nat /\ Rows \in SUBSET Times
    BY <1>1, RowsAreTimes DEF TypeOK, LogsPage
  <2> DEFINE q == ResumeAt(query, after)
  <2>3. /\ q.offset = after /\ q.offset \in Nat
        /\ q.limit = query.limit /\ q.limit \in Nat
        /\ Matching(q, Rows) = Matching(query, Rows)
    BY <2>2, ResumedQuery
  <2> HIDE DEF q
  <2>4. c \in Nat /\ (c # 0 => NextOffset(after, c) <= Cardinality(Matching(query, Rows)))
    BY <2>2, <2>3, PageAdvances DEF q
  <2> HIDE DEF c
  <2>5. c \in Nat /\ c # 0
    BY <2>1, <2>3, <2>4 DEF HasMore
  <2> QED BY <2>1, <2>2, <2>4, <2>5 DEF NextOffset
<1>2. TypeOK /\ [Next]_vars =>
        [LogsPage /\ phase' = "paging" =>
           after < after' /\ after' <= Cardinality(Matching(query, Rows))]_vars
  BY <1>1
<1>3. IInv => TypeOK
  BY DEF IInv
<1> QED BY <1>2, <1>3, AlwaysInv, PTL DEF Spec, PagesAdvance
=============================================================================
