-------------------------- MODULE DirectoryProofs --------------------------
(***************************************************************************)
(* Theorems about Directory, for any finite set of rows and any number of  *)
(* pages, seconds and failures.                                            *)
(***************************************************************************)
EXTENDS Directory, FiniteSetTheorems, FunctionTheorems, TLAPS

\* How many rows the page at hand leaves out.
Skip == IF Offset(walk.page, walk.size) > 0 THEN Offset(walk.page, walk.size) ELSE 0

\* The rows found are no more than the table has behind the pages before, when
\* they are found and when they are counted.
PageOK ==
  walk.found # {} =>
    /\ walk.at = "count" => Cardinality(Visible) >= Cardinality(walk.found) + Skip
    /\ walk.at = "page" => walk.count >= Cardinality(walk.found) + Skip

\* Rows that are listed before r, and the rows that have a place of their own.
Newer(r) == {q \in Visible : row[q].at > row[r].at}
Single(r) == \A q \in Visible \ {r} : row[q].at # row[r].at

FromFirst == \A page \in Start : page <= 1

\* A row the walk has still to show is behind the pages that were read: rows
\* that are added push it back, never forward.
Ahead(r) ==
  /\ walk.at = "find" => r \in seen \/ Cardinality(Newer(r)) >= Skip
  /\ walk.at \in {"count", "page"} =>
       \/ r \in seen \cup walk.found
       \/ /\ Cardinality(Newer(r)) >= Skip + walk.size
          /\ Cardinality(walk.found) >= walk.size
  /\ walk.at = "end" /\ Cardinality(walk.found) < walk.size => r \in seen

WalkOK == \A r \in due : Single(r) /\ walk.size > 0 => Ahead(r)

Core == TypeOK /\ PageOK

IInv == Core /\ (FromFirst => WalkOK)

-----------------------------------------------------------------------------
(* Listings and pages *)

LEMMA Bounds == MaxPage \in Nat /\ MaxTime \in Nat /\ MaxFaults \in Nat
BY BoundsAssumption

LEMMA VisibleFinite ==
  /\ IsFiniteSet(Visible)
  /\ Cardinality(Visible) \in Nat /\ Cardinality(Visible) <= Cardinality(Row)
<1>1. Visible \in SUBSET Row
  BY DEF Visible
<1> QED BY <1>1, RowAssumption, FS_Subset, FS_CardinalityType

\* The part of a list without repetitions between two positions.
Between(s, a, b) == {s[i] : i \in a..b}

LEMMA Part ==
  ASSUME NEW V, NEW n \in Nat, NEW s \in [1..n -> V],
         \A i, j \in 1..n : s[i] = s[j] => i = j,
         NEW a \in Nat, 1 <= a, NEW b \in Nat, b <= n
  PROVE  ExistsBijection(a..b, Between(s, a, b))
<1> DEFINE I == a..b
           T == Between(s, a, b)
           f == [i \in I |-> s[i]]
<1>2. I \subseteq 1..n
  OBVIOUS
<1>3. f \in [I -> T] /\ \A i \in I : f[i] = s[i]
  BY DEF Between
<1>4. \A i, j \in I : f[i] = f[j] => i = j
  BY <1>2, <1>3
<1>5. \A t \in T : \E i \in I : f[i] = t
  BY <1>3 DEF Between
<1>6. f \in Bijection(I, T)
  BY <1>3, <1>4, <1>5, Fun_IsBij
<1> QED BY <1>6, Fun_ExistsBij

LEMMA PartOfListing ==
  ASSUME NEW s \in Listings
  PROVE  \A a, b \in Nat : 1 <= a /\ b <= Cardinality(Visible) =>
           /\ IsFiniteSet(Between(s, a, b))
           /\ Cardinality(Between(s, a, b)) = IF a > b THEN 0 ELSE b - a + 1
<1> DEFINE n == Cardinality(Visible)
<1>1. /\ n \in Nat /\ s \in [1..n -> Visible] /\ DOMAIN s = 1..n
      /\ \A i, j \in 1..n : s[i] = s[j] => i = j
  BY VisibleFinite DEF Listings
<1> HIDE DEF n
<1>2. ASSUME NEW a \in Nat, NEW b \in Nat, 1 <= a, b <= n
      PROVE  /\ IsFiniteSet(Between(s, a, b))
             /\ Cardinality(Between(s, a, b)) = Cardinality(a..b)
  <2>1. ExistsBijection(a..b, Between(s, a, b))
    BY <1>1, <1>2, Part
  <2>2. IsFiniteSet(a..b)
    BY FS_Interval
  <2> QED BY <2>1, <2>2, FS_Bijection
<1>3. \A a, b \in Nat : Cardinality(a..b) = IF a > b THEN 0 ELSE b - a + 1
  BY FS_Interval
<1> QED BY <1>2, <1>3 DEF n

\* A listing shows every visible row, and one with a place of its own behind
\* exactly the newer ones.
LEMMA Position ==
  ASSUME NEW s \in Listings, NEW r \in Visible, Single(r),
         \A q \in Row : row[q].at \in Int
  PROVE  /\ Cardinality(Newer(r)) + 1 \in 1..Cardinality(Visible)
         /\ s[Cardinality(Newer(r)) + 1] = r
<1> DEFINE n == Cardinality(Visible)
<1>1. /\ n \in Nat /\ s \in [1..n -> Visible] /\ DOMAIN s = 1..n
      /\ \A i, j \in 1..n : s[i] = s[j] => i = j
      /\ \A i, j \in 1..n : i < j => row[s[i]].at >= row[s[j]].at
  BY VisibleFinite DEF Listings, Sorted
<1>2. PICK i \in 1..n : s[i] = r
  <2>1. s \in Injection(1..n, Visible)
    BY <1>1, Fun_IsInj
  <2>2. IsFiniteSet(1..n) /\ Cardinality(1..n) = n
    BY <1>1, FS_Interval
  <2>3. s \in Surjection(1..n, Visible)
    BY <2>1, <2>2, VisibleFinite, FS_Injection
  <2> QED BY <2>3 DEF Surjection
<1>3. Newer(r) = Between(s, 1, i - 1)
  <2>1. ASSUME NEW j \in 1..(i - 1) PROVE s[j] \in Newer(r)
    <3>1. j \in 1..n /\ j < i
      BY <1>1
    <3>2. s[j] \in Visible /\ s[j] # r /\ row[s[j]].at >= row[r].at
      BY <1>1, <1>2, <3>1
    <3>3. row[s[j]].at # row[r].at /\ s[j] \in Row /\ r \in Row
      BY <3>2 DEF Single, Visible
    <3> QED BY <3>2, <3>3 DEF Newer
  <2>2. ASSUME NEW q \in Newer(r) PROVE \E j \in 1..(i - 1) : s[j] = q
    <3>1. q \in Visible /\ row[q].at > row[r].at /\ q \in Row /\ r \in Row
      BY DEF Newer, Visible
    <3>2. PICK j \in 1..n : s[j] = q
      <4>1. s \in Injection(1..n, Visible)
        BY <1>1, Fun_IsInj
      <4>2. IsFiniteSet(1..n) /\ Cardinality(1..n) = n
        BY <1>1, FS_Interval
      <4>3. s \in Surjection(1..n, Visible)
        BY <4>1, <4>2, VisibleFinite, FS_Injection
      <4> QED BY <3>1, <4>3 DEF Surjection
    <3>3. ~(i < j) /\ i # j
      BY <1>1, <1>2, <3>1, <3>2
    <3>4. j \in 1..(i - 1)
      BY <1>1, <3>3
    <3> QED BY <3>2, <3>4
  <2> QED BY <2>1, <2>2 DEF Between
<1>5. Cardinality(Newer(r)) = i - 1
  <2>1. i - 1 \in Nat /\ i - 1 <= n
    BY <1>1
  <2>2. Cardinality(Between(s, 1, i - 1)) = IF 1 > i - 1 THEN 0 ELSE (i - 1) - 1 + 1
    BY <2>1, PartOfListing
  <2> QED BY <1>3, <2>1, <2>2
<1> QED BY <1>1, <1>2, <1>5

\* A page is the part of the listing behind the rows it skips, up to its size
\* or to the end.
LEMMA Page ==
  ASSUME walk.page \in Int, walk.size \in Int, ~Rejected, NEW s \in Listings
  PROVE  /\ Skip \in Nat
         /\ \E b \in 0..Cardinality(Visible) :
              /\ Slice(s) = Between(s, Skip + 1, b)
              /\ walk.size > 0 =>
                   b = IF Cardinality(Visible) < Skip + walk.size
                       THEN Cardinality(Visible) ELSE Skip + walk.size
<1> DEFINE n == Cardinality(Visible)
<1>1. n \in Nat /\ DOMAIN s = 1..n
  BY VisibleFinite DEF Listings
<1>2. Offset(walk.page, walk.size) \in Int
  BY DEF Offset
<1>3. Skip \in Nat
  BY <1>2 DEF Skip
<1>4. Slice(s) = {s[i] : i \in {i \in 1..n : i - Skip > 0 /\ (walk.size < 0 \/ i - Skip <= walk.size)}}
  BY <1>1 DEF Slice, Skip
<1> DEFINE b == IF walk.size < 0 THEN n
                ELSE IF n < Skip + walk.size THEN n ELSE Skip + walk.size
<1> HIDE DEF n
<1>5. CASE walk.size < 0 \/ n < Skip + walk.size
  <2>1. {i \in 1..n : i - Skip > 0 /\ (walk.size < 0 \/ i - Skip <= walk.size)} = (Skip + 1)..n
    BY <1>1, <1>3, <1>5
  <2>2. n \in 0..n
    BY <1>1
  <2> QED BY <1>3, <1>4, <1>5, <2>1, <2>2 DEF n, Between
<1>6. CASE ~(walk.size < 0 \/ n < Skip + walk.size)
  <2>1. {i \in 1..n : i - Skip > 0 /\ (walk.size < 0 \/ i - Skip <= walk.size)}
          = (Skip + 1)..(Skip + walk.size)
    BY <1>1, <1>3, <1>6
  <2>2. Skip + walk.size \in 0..n
    BY <1>1, <1>3, <1>6
  <2> QED BY <1>3, <1>4, <1>6, <2>1, <2>2 DEF n, Between
<1> QED BY <1>5, <1>6

\* The next page skips at most the size of a page more.
LEMMA NextPage ==
  ASSUME NEW page \in Int, NEW size \in Int
  PROVE  /\ Offset(page + 1, size) = Offset(page, size) + size
         /\ page <= 1 /\ size > 0 => Offset(page, size) <= 0
         /\ Offset(page, size) \in Int
BY DEF Offset

-----------------------------------------------------------------------------
(* Steps of the writers, of the clock and of the other readers *)

RowType == [Row -> [is : {"absent", "pending", "committed"}, at : 0..MaxTime]]
WalkType ==
  [at : {"idle", "find", "search", "count", "page", "end", "failed", "bad"},
   page : Int, size : Size \cup {1},
   found : SUBSET Row, count : 0..Cardinality(Row)]

LEMMA Types ==
  Core => /\ row \in RowType /\ walk \in WalkType /\ now \in 0..MaxTime
          /\ walk.page \in Int /\ walk.size \in Int /\ walk.count \in Nat
          /\ Skip \in Int /\ Offset(walk.page, walk.size) \in Int
          /\ \A q \in Row : row[q].at \in Int
          /\ due \subseteq Visible /\ due \subseteq Row
          /\ walk.found \subseteq Visible /\ IsFiniteSet(walk.found)
          /\ Cardinality(walk.found) \in Nat
<1> SUFFICES ASSUME Core
             PROVE  /\ row \in RowType /\ walk \in WalkType /\ now \in 0..MaxTime
                    /\ walk.page \in Int /\ walk.size \in Int /\ walk.count \in Nat
                    /\ Skip \in Int /\ Offset(walk.page, walk.size) \in Int
                    /\ \A q \in Row : row[q].at \in Int
                    /\ due \subseteq Visible /\ due \subseteq Row
                    /\ walk.found \subseteq Visible /\ IsFiniteSet(walk.found)
                    /\ Cardinality(walk.found) \in Nat
  OBVIOUS
<1>1. row \in RowType /\ walk \in WalkType /\ now \in 0..MaxTime
  BY DEF Core, TypeOK, RowType, WalkType
<1>2. walk.page \in Int /\ walk.size \in Int
  <2>1. Size \cup {1} \subseteq Int
    BY StartAssumption
  <2>2. walk.page \in Int /\ walk.size \in Size \cup {1}
    BY <1>1 DEF WalkType
  <2> QED BY <2>1, <2>2
<1>3. Cardinality(Row) \in Nat
  BY RowAssumption, FS_CardinalityType
<1>4. walk.count \in Nat
  BY <1>1, <1>3 DEF WalkType
<1>5. Skip \in Int /\ Offset(walk.page, walk.size) \in Int
  BY <1>2 DEF Skip, Offset
<1>6. \A q \in Row : row[q].at \in Int
  BY <1>1, Bounds DEF RowType
<1>7. due \subseteq Visible /\ due \subseteq Row /\ walk.found \subseteq Visible
  BY DEF Core, TypeOK
<1>8. IsFiniteSet(walk.found) /\ Cardinality(walk.found) \in Nat
  BY <1>7, VisibleFinite, FS_Subset, FS_CardinalityType
<1> QED BY <1>1, <1>2, <1>4, <1>5, <1>6, <1>7, <1>8

\* Committed rows stay as they are.
Grows ==
  /\ row' \in RowType
  /\ Visible \subseteq Visible'
  /\ \A q \in Visible : row'[q] = row[q]

\* Rows that are added change nothing that was found and push nothing forward.
LEMMA GrowsKeeps ==
  ASSUME IInv, Grows, UNCHANGED <<walk, seen, due>>, now' \in 0..MaxTime,
         faults' \in 0..MaxFaults
  PROVE  IInv'
<1>0. Core
  BY DEF IInv
<1>1. TypeOK'
  BY <1>0 DEF Core, TypeOK, Grows, RowType
<1>3. /\ IsFiniteSet(Visible') /\ Cardinality(Visible') \in Nat
      /\ Cardinality(Visible) <= Cardinality(Visible')
      /\ Cardinality(Visible) \in Nat
  <2>1. Visible' \in SUBSET Row
    BY DEF Visible
  <2>2. IsFiniteSet(Visible') /\ Cardinality(Visible') \in Nat
    BY <2>1, RowAssumption, FS_Subset, FS_CardinalityType
  <2> QED BY <2>2, VisibleFinite, FS_Subset DEF Grows
<1>4. Skip' = Skip
  BY DEF Skip
<1>5. PageOK'
  BY <1>0, <1>3, <1>4, Types DEF Core, PageOK
<1>6. ASSUME FromFirst, NEW r \in due, Single(r)', walk.size > 0 PROVE Ahead(r)'
  <2>1. r \in Visible /\ row'[r] = row[r]
    BY <1>0, Types DEF Grows
  <2>2. Single(r)
    BY <1>6, <2>1 DEF Single, Grows
  <2>3. Ahead(r)
    BY <1>6, <2>2 DEF IInv, WalkOK
  <2>4. Newer(r) \subseteq Newer(r)'
    BY <2>1 DEF Newer, Grows
  <2>5. Newer(r)' \in SUBSET (Visible')
    BY DEF Newer
  <2>6. IsFiniteSet(Newer(r)')
    BY <1>3, <2>5, FS_Subset
  <2>7. /\ Cardinality(Newer(r)) <= Cardinality(Newer(r)')
        /\ Cardinality(Newer(r)) \in Nat /\ Cardinality(Newer(r)') \in Nat
    BY <2>4, <2>6, FS_Subset, FS_CardinalityType
  <2> QED BY <1>0, <1>4, <2>3, <2>7, Types DEF Ahead
<1> QED BY <1>1, <1>5, <1>6 DEF IInv, Core, WalkOK

LEMMA CreateKeeps ==
  ASSUME IInv, NEW r \in Row, Create(r)
  PROVE  IInv'
<1>1. row \in RowType /\ now \in 0..MaxTime
  BY Types DEF IInv
<1>2. [is |-> "pending", at |-> now] \in [is : {"absent", "pending", "committed"}, at : 0..MaxTime]
  BY <1>1
<1>3. Grows
  BY <1>1, <1>2 DEF Create, Grows, RowType, Visible
<1> QED BY <1>1, <1>3, GrowsKeeps DEF Create, IInv, Core, TypeOK

LEMMA EndKeeps ==
  ASSUME IInv, NEW r \in Row, End(r)
  PROVE  IInv'
<1>1. row \in RowType
  BY Types DEF IInv
<1>2. PICK is \in {"absent", "committed"} : row' = [row EXCEPT ![r].is = is]
  BY DEF End
<1>3. [row[r] EXCEPT !.is = is] \in [is : {"absent", "pending", "committed"}, at : 0..MaxTime]
  BY <1>1 DEF RowType
<1>4. row' \in RowType /\ \A q \in Row \ {r} : row'[q] = row[q]
  BY <1>1, <1>2, <1>3 DEF RowType
<1>5. r \notin Visible
  BY DEF End, Visible
<1>6. Grows
  BY <1>4, <1>5 DEF Grows, Visible
<1> QED BY <1>6, GrowsKeeps DEF End, IInv, Core, TypeOK

LEMMA TickKeeps ==
  ASSUME IInv, Tick
  PROVE  IInv'
<1>1. Grows
  BY Types DEF IInv, Grows, Tick, Visible
<1>2. now' \in 0..MaxTime
  BY Bounds DEF IInv, Core, TypeOK, Tick
<1> QED BY <1>1, <1>2, GrowsKeeps DEF Tick, IInv, Core, TypeOK

-----------------------------------------------------------------------------
(* Steps of the walk *)

\* The table is as it was, and so is what is listed before a row.
LEMMA SameTable ==
  ASSUME UNCHANGED row
  PROVE  /\ Visible' = Visible
         /\ \A r \in Row : Newer(r)' = Newer(r) /\ (Single(r)' <=> Single(r))
BY DEF Visible, Newer, Single

\* A walk begins before every row.
LEMMA AskKeeps ==
  ASSUME IInv, Ask
  PROVE  IInv'
<1>0. /\ Core /\ row' = row /\ seen' = seen /\ due' = Visible /\ walk.at = "idle"
      /\ now' = now /\ faults' = faults
  BY DEF IInv, Ask
<1>1. walk \in WalkType /\ Visible \in SUBSET Row /\ Visible' = Visible
  BY <1>0, Types, SameTable DEF Visible
<1>2. CASE walk' = [walk EXCEPT !.at = "bad"]
  <2>1. walk' \in WalkType /\ walk'.at = "bad" /\ walk'.found = walk.found /\ walk'.page = walk.page
    BY <1>1, <1>2 DEF WalkType
  <2>2. TypeOK'
    BY <1>0, <1>1, <2>1 DEF Core, TypeOK, WalkType
  <2>3. PageOK'
    BY <1>0, <2>1 DEF Core, PageOK
  <2>4. WalkOK'
    BY <2>1 DEF WalkOK, Ahead
  <2> QED BY <2>2, <2>3, <2>4 DEF Core, IInv
<1>3. ASSUME NEW at \in {"find", "search"}, NEW page \in Start, NEW size \in Size,
             walk' = [walk EXCEPT !.at = at, !.page = page, !.size = size]
      PROVE  IInv'
  <2>1. page \in Int /\ size \in Int
    BY StartAssumption
  <2>2. /\ walk' \in WalkType /\ walk'.at = at /\ walk'.found = walk.found
        /\ walk'.page = page /\ walk'.size = size
    BY <1>1, <1>3, <2>1 DEF WalkType
  <2>3. TypeOK'
    BY <1>0, <1>1, <2>2 DEF Core, TypeOK, WalkType
  <2>4. PageOK'
    BY <1>0, <2>2 DEF Core, PageOK
  <2>5. ASSUME FromFirst, NEW r \in due', size > 0 PROVE Ahead(r)'
    <3>1. page <= 1
      BY <2>5 DEF FromFirst
    <3>2. Offset(page, size) <= 0 /\ Offset(page, size) \in Int
      BY <2>1, <2>5, <3>1, NextPage
    <3>3. Skip' = 0
      BY <2>2, <3>2 DEF Skip
    <3>4. Cardinality(Newer(r)') >= 0
      <4>1. Newer(r)' \in SUBSET Row
        BY DEF Newer, Visible
      <4>2. Cardinality(Newer(r)') \in Nat
        BY <4>1, RowAssumption, FS_Subset, FS_CardinalityType
      <4> QED BY <4>2
    <3> QED BY <2>2, <3>3, <3>4 DEF Ahead
  <2> QED BY <2>2, <2>3, <2>4, <2>5 DEF Core, IInv, WalkOK
<1> QED BY <1>2, <1>3 DEF Ask

\* The end of a walk by a failure promises nothing.
LEMMA FailKeeps ==
  ASSUME IInv, walk' = [walk EXCEPT !.at = "failed"],
         UNCHANGED <<now, row, seen, due>>, faults' \in 0..MaxFaults
  PROVE  IInv'
<1>1. Core /\ walk \in WalkType
  BY Types DEF IInv
<1>2. /\ walk' \in WalkType /\ walk'.at = "failed" /\ walk'.found = walk.found
      /\ walk'.page = walk.page
  BY <1>1 DEF WalkType
<1>3. TypeOK'
  BY <1>1, <1>2, SameTable DEF Core, TypeOK, WalkType
<1>4. PageOK'
  BY <1>1, <1>2 DEF Core, PageOK
<1>5. WalkOK'
  BY <1>2 DEF WalkOK, Ahead
<1> QED BY <1>3, <1>4, <1>5 DEF Core, IInv

\* What a page shows: behind the skipped rows, of the rows with a place of
\* their own, all up to its size.
LEMMA Found ==
  ASSUME Core, ~Rejected, NEW s \in Listings
  PROVE  /\ Slice(s) \subseteq Visible /\ IsFiniteSet(Slice(s))
         /\ Slice(s) # {} => Cardinality(Visible) >= Cardinality(Slice(s)) + Skip
         /\ \A r \in Visible :
              Single(r) /\ walk.size > 0 /\ Cardinality(Newer(r)) >= Skip =>
                \/ r \in Slice(s)
                \/ /\ Cardinality(Newer(r)) >= Skip + walk.size
                   /\ Cardinality(Slice(s)) >= walk.size
<1> DEFINE n == Cardinality(Visible)
<1>1. /\ n \in Nat /\ s \in [1..n -> Visible]
      /\ \A i, j \in 1..n : s[i] = s[j] => i = j
  BY VisibleFinite DEF Listings
<1>2. walk.page \in Int /\ walk.size \in Int /\ \A q \in Row : row[q].at \in Int
  BY Types
<1>3. Skip \in Nat
  BY <1>2, Page
<1>4. PICK b \in 0..n :
        /\ Slice(s) = Between(s, Skip + 1, b)
        /\ walk.size > 0 => b = IF n < Skip + walk.size THEN n ELSE Skip + walk.size
  BY <1>2, Page
<1>6. /\ IsFiniteSet(Slice(s))
      /\ Cardinality(Slice(s)) = IF Skip + 1 > b THEN 0 ELSE b - Skip
  <2>1. Skip + 1 \in Nat /\ 1 <= Skip + 1 /\ b \in Nat /\ b <= n
    BY <1>1, <1>3
  <2>2. /\ IsFiniteSet(Between(s, Skip + 1, b))
        /\ Cardinality(Between(s, Skip + 1, b))
             = IF Skip + 1 > b THEN 0 ELSE b - (Skip + 1) + 1
    BY <2>1, PartOfListing
  <2> QED BY <1>3, <1>4, <2>1, <2>2
<1>7. Slice(s) \subseteq Visible
  BY <1>1, <1>3, <1>4 DEF Between
<1>8. Slice(s) # {} => n >= Cardinality(Slice(s)) + Skip
  <2>1. Slice(s) # {} => Skip + 1 <= b
    BY <1>1, <1>3, <1>4 DEF Between
  <2> QED BY <1>1, <1>3, <1>6, <2>1
<1>9. ASSUME NEW r \in Visible, Single(r), walk.size > 0, Cardinality(Newer(r)) >= Skip,
             r \notin Slice(s)
      PROVE  /\ Cardinality(Newer(r)) >= Skip + walk.size
             /\ Cardinality(Slice(s)) >= walk.size
  <2> DEFINE i == Cardinality(Newer(r)) + 1
  <2>1. i \in 1..n /\ s[i] = r
    BY <1>2, <1>9, Position
  <2>2. Cardinality(Newer(r)) \in Nat
    <3>1. Newer(r) \in SUBSET Visible
      BY DEF Newer
    <3> QED BY <3>1, VisibleFinite, FS_Subset, FS_CardinalityType
  <2>3. i >= Skip + 1
    BY <1>3, <1>9, <2>2
  <2>4. ~(i <= b)
    <3> HIDE DEF i
    <3> QED BY <1>1, <1>3, <1>4, <1>9, <2>1, <2>3 DEF Between
  <2>5. b = Skip + walk.size
    BY <1>1, <1>2, <1>3, <1>4, <1>9, <2>1, <2>4
  <2> QED BY <1>2, <1>3, <1>6, <1>9, <2>2, <2>4, <2>5
<1> QED BY <1>6, <1>7, <1>8, <1>9

LEMMA FindKeeps ==
  ASSUME IInv, Find
  PROVE  IInv'
<1>0. /\ Core /\ row' = row /\ seen' = seen /\ due' = due /\ walk.at = "find"
      /\ now' = now
  BY DEF IInv, Find
<1>1. faults' \in 0..MaxFaults
  <2>1. faults \in 0..MaxFaults
    BY <1>0 DEF Core, TypeOK
  <2>2. Ok \/ Fault
    BY DEF Find
  <2> QED BY <2>1, <2>2, Bounds DEF Ok, Fault
<1>2. CASE walk' = [walk EXCEPT !.at = "failed"]
  BY <1>0, <1>1, <1>2, FailKeeps
<1>3. ASSUME ~Rejected, NEW s \in Listings,
             walk' = [walk EXCEPT !.at = "count", !.found = Slice(s)]
      PROVE  IInv'
  <2>1. /\ walk \in WalkType /\ walk.size \in Int /\ Skip \in Int
        /\ due \subseteq Visible /\ due \subseteq Row
    BY <1>0, Types
  <2>2. /\ Slice(s) \subseteq Visible /\ IsFiniteSet(Slice(s))
        /\ Slice(s) # {} => Cardinality(Visible) >= Cardinality(Slice(s)) + Skip
    BY <1>0, <1>3, Found
  <2>3. Slice(s) \in SUBSET Row
    BY <2>2 DEF Visible
  <2>4. /\ walk' \in WalkType /\ walk'.at = "count" /\ walk'.found = Slice(s)
        /\ walk'.page = walk.page /\ walk'.size = walk.size
    BY <1>3, <2>1, <2>3 DEF WalkType
  <2>5. Skip' = Skip
    BY <2>4 DEF Skip
  <2>6. TypeOK'
    BY <1>0, <1>1, <2>2, <2>4, SameTable DEF Core, TypeOK, WalkType
  <2>8. PageOK'
    BY <1>0, <2>2, <2>4, <2>5, SameTable DEF PageOK
  <2>9. ASSUME FromFirst, NEW r \in due, Single(r)', walk.size > 0 PROVE Ahead(r)'
    <3>1. Single(r) /\ Newer(r)' = Newer(r) /\ r \in Visible
      BY <1>0, <2>1, <2>9, SameTable
    <3>2. r \in seen \/ Cardinality(Newer(r)) >= Skip
      BY <1>0, <2>9, <3>1 DEF IInv, WalkOK, Ahead
    <3>3. r \in seen \cup Slice(s) \/ /\ Cardinality(Newer(r)) >= Skip + walk.size
                                      /\ Cardinality(Slice(s)) >= walk.size
      BY <1>0, <1>3, <2>9, <3>1, <3>2, Found
    <3> QED BY <1>0, <2>4, <2>5, <3>1, <3>3 DEF Ahead
  <2>10. FromFirst => WalkOK'
    BY <1>0, <2>4, <2>9 DEF WalkOK
  <2> QED BY <2>6, <2>8, <2>10 DEF Core, IInv
<1> QED BY <1>2, <1>3 DEF Find

\* The statement that counts runs later, on at least the rows of the first.
LEMMA CountKeeps ==
  ASSUME IInv, Count
  PROVE  IInv'
<1>0. /\ Core /\ row' = row /\ seen' = seen /\ due' = due /\ walk.at = "count"
      /\ now' = now
  BY DEF IInv, Count
<1>1. faults' \in 0..MaxFaults
  <2>1. faults \in 0..MaxFaults
    BY <1>0 DEF Core, TypeOK
  <2>2. Ok \/ Fault
    BY DEF Count
  <2> QED BY <2>1, <2>2, Bounds DEF Ok, Fault
<1>2. CASE walk' = [walk EXCEPT !.at = "failed"]
  BY <1>0, <1>1, <1>2, FailKeeps
<1>3. CASE walk' = [walk EXCEPT !.at = "page", !.count = Total]
  <2>1. walk \in WalkType /\ due \subseteq Row
    BY <1>0, Types
  <2>2. Total = Cardinality(Visible) /\ Total \in 0..Cardinality(Row)
    <3>1. Cardinality(Row) \in Nat
      BY RowAssumption, FS_CardinalityType
    <3> QED BY <3>1, VisibleFinite DEF Total
  <2>3. /\ walk' \in WalkType /\ walk'.at = "page" /\ walk'.found = walk.found
        /\ walk'.page = walk.page /\ walk'.size = walk.size
        /\ walk'.count = Cardinality(Visible)
    BY <1>3, <2>1, <2>2 DEF WalkType
  <2>4. Skip' = Skip
    BY <2>3 DEF Skip
  <2>5. TypeOK'
    BY <1>0, <1>1, <2>3, SameTable DEF Core, TypeOK, WalkType
  <2>6. PageOK'
    BY <1>0, <2>3, <2>4 DEF Core, PageOK
  <2>7. FromFirst => WalkOK'
    BY <1>0, <2>1, <2>3, <2>4, SameTable DEF IInv, WalkOK, Ahead
  <2> QED BY <2>5, <2>6, <2>7 DEF Core, IInv
<1> QED BY <1>2, <1>3 DEF Count

\* The page is shown; the rows behind it are what the next one skips at most.
LEMMA DeliverKeeps ==
  ASSUME IInv, Deliver
  PROVE  IInv'
<1>0. /\ Core /\ row' = row /\ seen' = seen \cup walk.found /\ due' = due
      /\ walk.at = "page" /\ now' = now
      /\ faults' = faults
  BY DEF IInv, Deliver, Ok
<1>1. /\ walk \in WalkType /\ walk.page \in Int /\ walk.size \in Int
      /\ walk.found \subseteq Visible /\ walk.found \subseteq Row /\ due \subseteq Row
      /\ Cardinality(walk.found) \in Nat /\ Skip \in Int
  BY <1>0, Types DEF WalkType
<1>3. CASE walk' = [walk EXCEPT !.at = "end"]
           /\ (Cardinality(walk.found) < walk.size \/ walk.page >= MaxPage)
  <2>1. /\ walk' \in WalkType /\ walk'.at = "end" /\ walk'.found = walk.found
        /\ walk'.page = walk.page /\ walk'.size = walk.size
    BY <1>1, <1>3 DEF WalkType
  <2>2. TypeOK'
    BY <1>0, <1>1, <2>1, SameTable DEF Core, TypeOK, WalkType
  <2>3. PageOK'
    BY <2>1 DEF PageOK
  <2>4. FromFirst => WalkOK'
    BY <1>0, <1>1, <2>1, SameTable DEF IInv, WalkOK, Ahead
  <2> QED BY <2>2, <2>3, <2>4 DEF Core, IInv
<1>4. CASE /\ walk' = [walk EXCEPT !.at = "find", !.page = walk.page + 1]
           /\ ~(walk.page >= MaxPage)
  <2>1. /\ walk' \in WalkType /\ walk'.at = "find" /\ walk'.found = walk.found
        /\ walk'.page = walk.page + 1 /\ walk'.size = walk.size
    <3>1. walk.page + 1 \in Int
      BY <1>1
    <3> QED BY <1>1, <1>4, <3>1 DEF WalkType
  <2>2. TypeOK'
    BY <1>0, <1>1, <1>4, <2>1, Bounds, SameTable DEF Core, TypeOK, WalkType
  <2>3. PageOK'
    BY <2>1 DEF PageOK
  <2>4. walk.size > 0 => Skip' <= Skip + walk.size /\ Skip' \in Int
    <3>1. /\ Offset(walk.page + 1, walk.size) = Offset(walk.page, walk.size) + walk.size
          /\ Offset(walk.page, walk.size) \in Int
      BY <1>1, NextPage
    <3>2. Skip' = IF Offset(walk.page + 1, walk.size) > 0
                  THEN Offset(walk.page + 1, walk.size) ELSE 0
      BY <2>1 DEF Skip
    <3> QED BY <1>1, <3>1, <3>2 DEF Skip
  <2>5. ASSUME FromFirst, NEW r \in due, Single(r)', walk.size > 0 PROVE Ahead(r)'
    <3>1. Single(r) /\ Newer(r)' = Newer(r) /\ r \in Row
      BY <1>0, <1>1, <2>5, SameTable
    <3>2. r \in seen \cup walk.found \/ Cardinality(Newer(r)) >= Skip + walk.size
      BY <1>0, <2>5, <3>1 DEF IInv, WalkOK, Ahead
    <3>3. Cardinality(Newer(r)) \in Int
      <4>1. Newer(r) \in SUBSET Visible
        BY DEF Newer
      <4> QED BY <4>1, VisibleFinite, FS_Subset, FS_CardinalityType
    <3> QED BY <1>0, <1>1, <2>1, <2>4, <2>5, <3>1, <3>2, <3>3 DEF Ahead
  <2>6. FromFirst => WalkOK'
    BY <1>0, <2>1, <2>5 DEF WalkOK
  <2> QED BY <2>2, <2>3, <2>6 DEF Core, IInv
<1> QED BY <1>3, <1>4 DEF Deliver

-----------------------------------------------------------------------------
LEMMA InitIInv == Init => IInv
<1> SUFFICES ASSUME Init PROVE IInv
  OBVIOUS
<1>1. Cardinality(Row) \in Nat
  BY RowAssumption, FS_CardinalityType
<1>2. TypeOK
  <2>1. NoWalk \in WalkType
    BY <1>1 DEF NoWalk, WalkType
  <2>2. NoWalk.page = 1 /\ NoWalk.found = {}
    BY DEF NoWalk
  <2> QED BY <2>1, <2>2, Bounds DEF Init, TypeOK, WalkType
<1>3. PageOK /\ WalkOK
  BY DEF Init, NoWalk, PageOK, WalkOK
<1> QED BY <1>2, <1>3 DEF IInv, Core

LEMMA NextIInv == IInv /\ [Next]_vars => IInv'
<1> SUFFICES ASSUME IInv, [Next]_vars PROVE IInv'
  OBVIOUS
<1>1. CASE Search
  <2>1. faults' \in 0..MaxFaults
    BY <1>1 DEF Search, IInv, Core, TypeOK
  <2> QED BY <1>1, <2>1, FailKeeps DEF Search
<1>2. CASE UNCHANGED vars
  <2>1. Grows
    BY <1>2, Types DEF vars, IInv, Grows, Visible
  <2> QED BY <1>2, <2>1, GrowsKeeps DEF vars, IInv, Core, TypeOK
<1> QED BY <1>1, <1>2, AskKeeps, FindKeeps, CountKeeps, DeliverKeeps, TickKeeps,
           CreateKeeps, EndKeeps DEF Next

-----------------------------------------------------------------------------
(* The theorems *)

\* The inductive invariant of a walk beside any number of writers.
THEOREM Invariance == Spec => []IInv
<1> QED BY InitIInv, NextIInv, PTL DEF Spec

\* The parts of a walk have their types, and it holds only visible rows.
THEOREM TypeCorrect == Spec => []TypeOK
<1>1. IInv => TypeOK
  BY DEF IInv, Core
<1> QED BY <1>1, Invariance, PTL

\* The count of GetAllUsers, a second statement outside any transaction, is
\* never below the rows it comes with and those of the pages before, whatever
\* is added in between, for every page and size that binds.
THEOREM CountCovers == Spec => []CountCoversPage
<1>1. IInv => CountCoversPage
  <2> SUFFICES ASSUME IInv, walk.at = "page", walk.found # {}
               PROVE  walk.count >= Cardinality(walk.found)
                        + (IF walk.size > 0 /\ walk.page > 1
                           THEN (walk.page - 1) * walk.size ELSE 0)
    BY DEF CountCoversPage
  <2>1. walk.count >= Cardinality(walk.found) + Skip
    BY DEF IInv, Core, PageOK
  <2>2. /\ Cardinality(walk.found) \in Nat /\ walk.count \in Nat /\ Skip \in Int
        /\ Offset(walk.page, walk.size) \in Int
    BY Types DEF IInv
  <2>3. Offset(walk.page, walk.size) = (walk.page - 1) * walk.size
    BY DEF Offset
  <2>4. Skip >= 0 /\ Skip >= (walk.page - 1) * walk.size
    BY <2>2, <2>3 DEF Skip
  <2> QED BY <2>1, <2>2, <2>3, <2>4
<1> QED BY <1>1, Invariance, PTL

\* A client that walks the pages from the first one (or from a page below it,
\* which gorm takes for the first) to a short page is shown every row that was
\* there when it began and has a created_at of its own, although the pages are
\* independent statements and rows are added between them, also below rows
\* that are newer.
THEOREM NoRowMissed ==
  ASSUME FromFirst
  PROVE  Spec => []NothingMissed
<1>1. IInv => NothingMissed
  <2> SUFFICES ASSUME IInv, walk.at = "end", Cardinality(walk.found) < walk.size,
                      NEW r \in due, Alone(r)
               PROVE  r \in seen
    BY DEF NothingMissed
  <2>1. Single(r)
    BY Types DEF Single, Alone, Visible, IInv
  <2>2. walk.size > 0
    BY Types DEF IInv
  <2> QED BY <2>1, <2>2 DEF IInv, WalkOK, Ahead
<1> QED BY <1>1, Invariance, PTL

=============================================================================
