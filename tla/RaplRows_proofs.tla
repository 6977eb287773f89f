--------------------------- MODULE RaplRows_proofs ---------------------------
(***************************************************************************)
(* What Rapl finds, writes and remembers, for all processors that have     *)
(* regular events: the events it measures, its types, and its rows.        *)
(***************************************************************************)
EXTENDS Rapl_proofs, FiniteSetTheorems

-----------------------------------------------------------------------------
(***************************************************************************)
(* Numbers in order.                                                       *)
(***************************************************************************)
\* How many numbers of a set there are up to one of them.
Rank(S, i) == Cardinality({j \in S : j <= i})

LEMMA RankType ==
  ASSUME NEW S \in SUBSET Nat, IsFiniteSet(S), NEW i \in S
  PROVE  Rank(S, i) \in 1 .. Cardinality(S)
<1> DEFINE T == {j \in S : j <= i}
<1>1. T \in SUBSET S /\ i \in T
  OBVIOUS
<1>2. IsFiniteSet(T) /\ Cardinality(T) <= Cardinality(S)
  BY <1>1, FS_Subset
<1>3. Cardinality(T) \in Nat /\ Cardinality(S) \in Nat
  BY <1>2, FS_CardinalityType
<1>4. Cardinality(T) # 0
  BY <1>1, <1>2, FS_EmptySet
<1> QED BY <1>2, <1>3, <1>4 DEF Rank

\* A greater number has a greater rank.
LEMMA RankGrows ==
  ASSUME NEW S \in SUBSET Nat, IsFiniteSet(S), NEW i \in S, NEW j \in S, i < j
  PROVE  Rank(S, i) < Rank(S, j)
<1> DEFINE T == {k \in S : k <= i}
           U == {k \in S : k <= j}
<1>0. \A k \in S : k \in Int
  OBVIOUS
<1>1. T \in SUBSET S /\ U \in SUBSET S /\ j \notin T /\ T \union {j} \in SUBSET U
  <2>1. T \in SUBSET S /\ U \in SUBSET S
    OBVIOUS
  <2>2. j \notin T /\ j \in U
    BY <1>0
  <2>3. ASSUME NEW k \in T PROVE k \in U
    <3>1. k \in S /\ k <= i
      OBVIOUS
    <3>2. k <= j
      BY <1>0, <3>1
    <3> QED BY <3>1, <3>2
  <2> QED BY <2>1, <2>2, <2>3
<1>2. IsFiniteSet(T) /\ IsFiniteSet(U)
  BY <1>1, FS_Subset
<1>3. Cardinality(T \union {j}) = Cardinality(T) + 1
  BY <1>1, <1>2, FS_AddElement
<1>4. Cardinality(T \union {j}) <= Cardinality(U)
  BY <1>1, <1>2, FS_Subset
<1>5. Cardinality(T) \in Nat /\ Cardinality(U) \in Nat
  BY <1>2, FS_CardinalityType
<1> QED BY <1>3, <1>4, <1>5 DEF Rank

\* Only one number has a rank.
LEMMA RankOnce ==
  ASSUME NEW S \in SUBSET Nat, IsFiniteSet(S), NEW i \in S, NEW j \in S,
         Rank(S, i) = Rank(S, j)
  PROVE  i = j
<1>1. Rank(S, i) \in Int /\ Rank(S, j) \in Int
  BY RankType
<1>2. CASE i < j
  BY <1>1, <1>2, RankGrows
<1>3. CASE j < i
  BY <1>1, <1>3, RankGrows
<1> QED BY <1>2, <1>3

\* Every rank up to their number has a number.
LEMMA RankOnto ==
  ASSUME NEW S \in SUBSET Nat, IsFiniteSet(S), NEW k \in 1 .. Cardinality(S)
  PROVE  \E i \in S : Rank(S, i) = k
<1> DEFINE f == [i \in S |-> Rank(S, i)]
           T == 1 .. Cardinality(S)
<1>1. Cardinality(S) \in Nat
  BY FS_CardinalityType
<1>2. IsFiniteSet(T) /\ Cardinality(T) = Cardinality(S)
  BY <1>1, FS_Interval
<1>3. f \in Injection(S, T)
  BY RankType, RankOnce DEF Injection, IsInjective
<1>4. f \in Surjection(S, T)
  BY <1>2, <1>3, FS_Injection
<1> QED BY <1>4 DEF Surjection

\* The k-th number is the one of rank k.
LEMMA NthRank ==
  ASSUME NEW S \in SUBSET Nat, IsFiniteSet(S), NEW k \in 1 .. Cardinality(S)
  PROVE  Nth(S, k) \in S /\ Rank(S, Nth(S, k)) = k
BY RankOnto DEF Nth, Rank

LEMMA RankNth ==
  ASSUME NEW S \in SUBSET Nat, IsFiniteSet(S), NEW i \in S
  PROVE  Nth(S, Rank(S, i)) = i
<1>1. Rank(S, i) \in 1 .. Cardinality(S)
  BY RankType
<1> DEFINE j == Nth(S, Rank(S, i))
<1>2. j \in S /\ Rank(S, j) = Rank(S, i)
  BY <1>1, NthRank
<1> HIDE DEF j
<1>3. j = i
  BY <1>2, RankOnce
<1> QED BY <1>3 DEF j

\* The numbers of a set in order are all of them, once each, in order.
LEMMA InOrderIs ==
  ASSUME NEW S \in SUBSET Nat, IsFiniteSet(S)
  PROVE  /\ Cardinality(S) \in Nat
         /\ InOrder(S) \in Seq(S) /\ Len(InOrder(S)) = Cardinality(S)
         /\ DOMAIN InOrder(S) = 1 .. Cardinality(S)
         /\ \A k \in 1 .. Cardinality(S) : InOrder(S)[k] \in S
         /\ \A k, l \in 1 .. Cardinality(S) : k < l => InOrder(S)[k] < InOrder(S)[l]
         /\ \A i \in S : \E k \in 1 .. Cardinality(S) : InOrder(S)[k] = i
<1>1. Cardinality(S) \in Nat
  BY FS_CardinalityType
<1>2. \A k \in 1 .. Cardinality(S) :
        InOrder(S)[k] = Nth(S, k) /\ Nth(S, k) \in S /\ Rank(S, Nth(S, k)) = k
  BY NthRank DEF InOrder
<1>3. InOrder(S) \in [1 .. Cardinality(S) -> S]
  BY <1>2 DEF InOrder
<1>4. InOrder(S) \in Seq(S) /\ Len(InOrder(S)) = Cardinality(S)
  BY <1>1, <1>3, SeqDef, LenProperties
<1>5. ASSUME NEW k \in 1 .. Cardinality(S), NEW l \in 1 .. Cardinality(S), k < l
      PROVE  InOrder(S)[k] < InOrder(S)[l]
  <2> DEFINE x == Nth(S, k)
             y == Nth(S, l)
  <2>1. x \in S /\ y \in S /\ Rank(S, x) = k /\ Rank(S, y) = l
    BY <1>2
  <2> HIDE DEF x, y
  <2>2. ~(y < x) /\ x # y
    BY <1>1, <1>5, <2>1, RankGrows
  <2>3. x < y
    BY <2>1, <2>2
  <2> QED BY <1>2, <2>3 DEF x, y
<1>6. ASSUME NEW i \in S PROVE \E k \in 1 .. Cardinality(S) : InOrder(S)[k] = i
  BY <1>2, RankType, RankNth
<1> QED BY <1>1, <1>3, <1>4, <1>2, <1>5, <1>6

\* A greatest number comes last.
LEMMA InOrderLast ==
  ASSUME NEW S \in SUBSET Nat, IsFiniteSet(S), NEW m \in Nat, \A i \in S : i < m
  PROVE  /\ IsFiniteSet(S \union {m})
         /\ Cardinality(S \union {m}) = Cardinality(S) + 1
         /\ InOrder(S \union {m}) = Append(InOrder(S), m)
<1> DEFINE U == S \union {m}
           n == Cardinality(S)
<1>1. m \notin S
  OBVIOUS
<1>2. IsFiniteSet(U) /\ Cardinality(U) = n + 1 /\ n \in Nat /\ U \in SUBSET Nat
  BY <1>1, FS_AddElement, FS_CardinalityType
<1>3. ASSUME NEW i \in S PROVE Rank(U, i) = Rank(S, i)
  <2>1. {j \in U : j <= i} = {j \in S : j <= i}
    BY <1>3
  <2> QED BY <2>1 DEF Rank
<1>4. {j \in U : j <= m} = U
  <2>1. ASSUME NEW j \in U PROVE j <= m
    OBVIOUS
  <2> QED BY <2>1
<1>5. Rank(U, m) = n + 1
  BY <1>2, <1>4 DEF Rank
<1>6. ASSUME NEW k \in 1 .. n PROVE Nth(U, k) = Nth(S, k)
  <2>1. Nth(S, k) \in S /\ Rank(S, Nth(S, k)) = k
    BY NthRank
  <2>2. Nth(S, k) \in U /\ Rank(U, Nth(S, k)) = k
    BY <2>1, <1>3
  <2> QED BY <1>2, <2>2, RankNth
<1>7. Nth(U, n + 1) = m
  BY <1>2, <1>5, RankNth
<1>8. InOrder(S) \in Seq(S) /\ Len(InOrder(S)) = n /\ DOMAIN InOrder(S) = 1 .. n
  BY InOrderIs
<1>9. /\ Append(InOrder(S), m) \in Seq(U)
      /\ Len(Append(InOrder(S), m)) = n + 1
      /\ \A k \in 1 .. n : Append(InOrder(S), m)[k] = InOrder(S)[k]
      /\ Append(InOrder(S), m)[n + 1] = m
  <2>1. InOrder(S) \in Seq(U)
    BY <1>8
  <2>2. m \in U
    OBVIOUS
  <2> HIDE DEF U
  <2> QED BY <1>8, <2>1, <2>2, AppendProperties
<1>10. InOrder(U) \in Seq(U) /\ Len(InOrder(U)) = n + 1
  BY <1>2, InOrderIs
<1>11. ASSUME NEW k \in 1 .. n + 1 PROVE InOrder(U)[k] = Append(InOrder(S), m)[k]
  <2>1. InOrder(U)[k] = Nth(U, k)
    BY <1>2 DEF InOrder
  <2>2. k \in 1 .. n => InOrder(S)[k] = Nth(S, k)
    BY DEF InOrder
  <2>3. CASE k \in 1 .. n
    BY <1>6, <1>9, <2>1, <2>2, <2>3
  <2>4. CASE k = n + 1
    BY <1>7, <1>9, <2>1, <2>4
  <2>5. k \in 1 .. n \/ k = n + 1
    BY <1>2
  <2> QED BY <2>3, <2>4, <2>5
<1>12. InOrder(U) = Append(InOrder(S), m)
  BY <1>9, <1>10, <1>11, SeqEqual
<1> QED BY <1>2, <1>12

\* A set of numbers that is not empty has a least and a greatest one.
LEMMA Extremes ==
  ASSUME NEW S \in SUBSET Nat, IsFiniteSet(S), S # {}
  PROVE  /\ \E x \in S : \A y \in S : x <= y
         /\ \E x \in S : \A y \in S : x >= y
<1> DEFINE n == Cardinality(S)
           s == InOrder(S)
<1>1. /\ n \in Nat /\ n # 0
      /\ \A k \in 1 .. n : s[k] \in S
      /\ \A k, l \in 1 .. n : k < l => s[k] < s[l]
      /\ \A i \in S : \E k \in 1 .. n : s[k] = i
  BY InOrderIs, FS_EmptySet
<1> HIDE DEF n, s
<1>2. 1 \in 1 .. n /\ n \in 1 .. n /\ \A k \in 1 .. n : 1 <= k /\ k <= n
  BY <1>1
<1>3. ASSUME NEW i \in S PROVE s[1] <= i /\ i <= s[n]
  <2>1. PICK k \in 1 .. n : s[k] = i
    BY <1>1
  <2>2. (k = 1 \/ s[1] < s[k]) /\ (k = n \/ s[k] < s[n])
    BY <1>1, <1>2
  <2>3. s[1] \in Nat /\ s[n] \in Nat /\ s[k] \in Nat
    BY <1>1, <1>2
  <2> QED BY <2>1, <2>2, <2>3
<1>4. s[1] \in S /\ s[n] \in S
  BY <1>1, <1>2
<1>5. \A i \in S : s[1] <= i /\ s[n] >= i
  BY <1>1, <1>3, <1>4
<1> QED BY <1>4, <1>5

-----------------------------------------------------------------------------
(***************************************************************************)
(* Events and columns.                                                     *)
(***************************************************************************)
\* The places of some events are finitely many numbers.
LEMMA EventPlaces ==
  ASSUME NEW es \in Seq(Event), NEW S \in SUBSET DOMAIN es
  PROVE  /\ DOMAIN es = 1 .. Len(es) /\ Len(es) \in Nat
         /\ S \in SUBSET Nat /\ IsFiniteSet(S)
         /\ \A i \in S : i \in 1 .. Len(es) /\ es[i] \in Event
<1>1. DOMAIN es = 1 .. Len(es) /\ Len(es) \in Nat
  BY LenProperties
<1>2. IsFiniteSet(1 .. Len(es))
  BY <1>1, FS_Interval
<1>3. IsFiniteSet(S)
  BY <1>1, <1>2, FS_Subset
<1>4. \A i \in 1 .. Len(es) : es[i] \in Event
  BY ElementOfSeq
<1> QED BY <1>1, <1>3, <1>4

\* The places of a stream and those of the packages that are numbered.
LEMMA PlacesOfStream ==
  ASSUME NEW es, NEW s
  PROVE  OfStream(es, s) \in SUBSET DOMAIN es /\ Numbered(es) \in SUBSET DOMAIN es
BY DEF OfStream, Numbered

\* One thing for every place is a sequence of them.
LEMMA AtPlaces ==
  ASSUME NEW es \in Seq(Event), NEW S \in SUBSET DOMAIN es, NEW T,
         NEW f \in [DOMAIN InOrder(S) -> T]
  PROVE  f \in Seq(T) /\ Len(f) = Len(InOrder(S))
<1>1. S \in SUBSET Nat /\ IsFiniteSet(S)
  BY EventPlaces
<1>2. Cardinality(S) \in Nat /\ DOMAIN InOrder(S) = 1 .. Cardinality(S)
      /\ Len(InOrder(S)) = Cardinality(S)
  BY <1>1, InOrderIs
<1>3. f \in Seq(T)
  BY <1>2, SeqDef
<1> QED BY <1>2, <1>3, LenProperties

LEMMA PlaceInOrder ==
  ASSUME NEW es \in Seq(Event), NEW S \in SUBSET DOMAIN es, NEW k \in DOMAIN InOrder(S)
  PROVE  InOrder(S)[k] \in S /\ InOrder(S)[k] \in DOMAIN es /\ es[InOrder(S)[k]] \in Event
<1>1. S \in SUBSET Nat /\ IsFiniteSet(S)
  BY EventPlaces
<1>2. InOrder(S)[k] \in S
  BY <1>1, InOrderIs
<1> QED BY <1>2, EventPlaces

\* The streams are the five of them.
LEMMA FiveStreams ==
  /\ StreamSet = {"PACKAGE", "DRAM", "PP0", "PP1", "UNCORE"}
  /\ StreamSet = {Streams[n] : n \in DOMAIN Streams}
  /\ StreamSet \ {"UNCORE"} \subseteq Meters
<1>1. DOMAIN Streams = 1 .. 5
  BY DEF Streams
<1>2. StreamSet = {Streams[1], Streams[2], Streams[3], Streams[4], Streams[5]}
  BY <1>1 DEF StreamSet
<1>3. StreamSet = {"PACKAGE", "DRAM", "PP0", "PP1", "UNCORE"}
  BY <1>2 DEF Streams
<1> QED BY <1>3 DEF StreamSet, Meters

\* The header of a file is a sequence of columns.
LEMMA HeaderType ==
  ASSUME NEW es \in Seq(Event)
  PROVE  Header(es) \in [StreamSet -> Seq(Columns)]
<1>1. ASSUME NEW s \in StreamSet \ {"UNCORE"} PROVE EventColumns(es, s) \in Seq(Columns)
  <2> DEFINE S == OfStream(es, s)
             mine == InOrder(S)
  <2>1. S \in SUBSET DOMAIN es
    BY PlacesOfStream
  <2> HIDE DEF S
  <2>2. \A k \in DOMAIN mine : Column(s, es[mine[k]].package) \in Columns
    BY <2>1, PlaceInOrder, FiveStreams DEF Column, Columns, Event
  <2>3. [k \in DOMAIN mine |-> Column(s, es[mine[k]].package)] \in [DOMAIN mine -> Columns]
    BY <2>2
  <2>4. [k \in DOMAIN mine |-> Column(s, es[mine[k]].package)] \in Seq(Columns)
    BY <2>1, <2>3, AtPlaces
  <2> QED BY <2>4 DEF EventColumns, S
<1>2. UncoreColumns(es) \in Seq(Columns)
  <2> DEFINE S == Numbered(es)
             mine == InOrder(S)
             f == [k \in DOMAIN mine |->
                     Column("UNCORE", IF Mentions(es[mine[k]], 0) THEN 0 ELSE 1)]
  <2>1. S \in SUBSET DOMAIN es
    BY PlacesOfStream
  <2>2. \A p \in {0, 1} : Column("UNCORE", p) \in Columns
    BY DEF Column, Columns
  <2>3. f \in [DOMAIN mine -> Columns]
    BY <2>2
  <2> HIDE DEF S
  <2>4. f \in Seq(Columns)
    BY <2>1, <2>3, AtPlaces
  <2> QED BY <2>4 DEF UncoreColumns, S
<1> QED BY <1>1, <1>2, FiveStreams DEF Header

\* The row of a stream of events is one of cells.
LEMMA EventCellsType ==
  ASSUME events \in Seq(Event), DOMAIN values = DOMAIN events, values \in Seq(Nat),
         NEW s \in StreamSet \ {"UNCORE"}
  PROVE  EventCells(s) \in Seq(Cells)
<1> DEFINE S == OfStream(events, s)
           mine == InOrder(S)
           f == [k \in DOMAIN mine |->
                   Cell(Column(s, events[mine[k]].package), values[mine[k]])]
<1>1. S \in SUBSET DOMAIN events
  BY PlacesOfStream
<1>2. \A i \in DOMAIN events : values[i] \in Int
  <2>1. DOMAIN values = 1 .. Len(values) /\ \A i \in 1 .. Len(values) : values[i] \in Nat
    BY LenProperties, ElementOfSeq
  <2> QED BY <2>1
<1> HIDE DEF S
<1>3. ASSUME NEW k \in DOMAIN mine
      PROVE  Cell(Column(s, events[mine[k]].package), values[mine[k]]) \in Cells
  <2>1. mine[k] \in DOMAIN events /\ events[mine[k]] \in Event
    BY <1>1, PlaceInOrder
  <2>2. Column(s, events[mine[k]].package) \in Columns
    BY <2>1, FiveStreams DEF Column, Columns, Event
  <2> QED BY <1>2, <2>1, <2>2 DEF Cell, Cells
<1>4. f \in [DOMAIN mine -> Cells]
  BY <1>3
<1>5. f \in Seq(Cells)
  BY <1>1, <1>4, AtPlaces
<1> QED BY <1>5 DEF EventCells, S

\* The row of the uncore is one of cells.
LEMMA UncoreCellsType ==
  ASSUME NEW packages \in [0 .. 1 -> Nat], NEW cores \in [0 .. 1 -> Nat]
  PROVE  UncoreCells(packages, cores) \in Seq(Cells)
<1> DEFINE CellOf(p) == IF HasUncore(p, cores)
                        THEN <<Cell(Column("UNCORE", p), packages[p] - cores[p])>>
                        ELSE <<>>
<1>1. ASSUME NEW p \in 0 .. 1 PROVE CellOf(p) \in Seq(Cells)
  <2>1. Column("UNCORE", p) \in Columns
    BY DEF Column, Columns
  <2>2. packages[p] - cores[p] \in Int
    OBVIOUS
  <2>3. Cell(Column("UNCORE", p), packages[p] - cores[p]) \in Cells
    BY <2>1, <2>2 DEF Cell, Cells
  <2> QED BY <2>3
<1>2. CellOf(0) \in Seq(Cells) /\ CellOf(1) \in Seq(Cells)
  BY <1>1
<1> HIDE DEF CellOf
<1>3. CellOf(0) \o CellOf(1) \in Seq(Cells)
  BY <1>2, ConcatProperties
<1> QED BY <1>3 DEF UncoreCells, CellOf

\* The source is the last event that matches, if one does.
LEMMA SourceIs ==
  ASSUME events \in Seq(Event), NEW meter, NEW p
  PROVE  LET M == {i \in DOMAIN events :
                     events[i].meter = meter /\ Mentions(events[i], p)}
         IN  \/ M = {} /\ Source(meter, p) = 0
             \/ /\ Source(meter, p) \in M
                /\ \A i \in M : i <= Source(meter, p)
<1> DEFINE M == {i \in DOMAIN events :
                   events[i].meter = meter /\ Mentions(events[i], p)}
           I == {i \in 1 .. Len(events) :
                   events[i].meter = meter /\ Mentions(events[i], p)}
<1>1. DOMAIN events = 1 .. Len(events) /\ Len(events) \in Nat
  BY LenProperties
<1>2. M = I /\ M \in SUBSET DOMAIN events
  BY <1>1
<1>3. M \in SUBSET Nat /\ IsFiniteSet(M)
  BY <1>2, EventPlaces
<1>4. Source(meter, p) = IF I # {} THEN Max(I) ELSE 0
  BY DEF Source, SelectLastInSeq
<1>5. CASE M = {}
  BY <1>2, <1>4, <1>5
<1>6. CASE M # {}
  <2>1. \E x \in M : \A y \in M : x >= y
    BY <1>3, <1>6, Extremes
  <2>2. Max(M) \in M /\ \A y \in M : Max(M) >= y
    BY <2>1 DEF Max
  <2>3. Source(meter, p) = Max(M)
    BY <1>2, <1>4, <1>6
  <2>4. \A y \in M : y <= Max(M)
    BY <1>3, <2>2
  <2> QED BY <2>2, <2>3, <2>4
<1> QED BY <1>5, <1>6

\* What is remembered is a number for each of the packages.
LEMMA RememberType ==
  ASSUME events \in Seq(Event), DOMAIN values = DOMAIN events, values \in Seq(Nat),
         NEW memory \in [0 .. 1 -> Nat], NEW meter
  PROVE  Remember(memory, meter) \in [0 .. 1 -> Nat]
<1>1. \A i \in DOMAIN events : values[i] \in Nat
  <2>1. DOMAIN values = 1 .. Len(values) /\ \A i \in 1 .. Len(values) : values[i] \in Nat
    BY LenProperties, ElementOfSeq
  <2> QED BY <2>1
<1>2. ASSUME NEW p \in 0 .. 1
      PROVE  Source(meter, p) # 0 => values[Source(meter, p)] \in Nat
  <2> DEFINE M == {i \in DOMAIN events :
                     events[i].meter = meter /\ Mentions(events[i], p)}
             i == Source(meter, p)
  <2>1. (M = {} /\ i = 0) \/ i \in M
    BY SourceIs
  <2> HIDE DEF i
  <2>2. i # 0 => values[i] \in Nat
    BY <1>1, <2>1
  <2> QED BY <2>2 DEF i
<1> QED BY <1>2 DEF Remember

\* One event more of the processor is one more energy, or none.
LEMMA EnergiesGrow ==
  ASSUME native \in Seq(Event), NEW n \in Nat, n + 1 <= Len(native)
  PROVE  EnergiesUpTo(n + 1) = IF native[n + 1].unit = "energy"
                               THEN Append(EnergiesUpTo(n), native[n + 1])
                               ELSE EnergiesUpTo(n)
<1> DEFINE S == {i \in 1 .. n : native[i].unit = "energy"}
           T == {i \in 1 .. n + 1 : native[i].unit = "energy"}
           s == InOrder(S)
           t == InOrder(T)
<1>1. S \in SUBSET Nat /\ IsFiniteSet(S) /\ \A i \in S : i < n + 1
  <2>1. S \in SUBSET 1 .. n /\ IsFiniteSet(1 .. n)
    BY FS_Interval
  <2> QED BY <2>1, FS_Subset
<1>2. EnergiesUpTo(n) = [k \in DOMAIN s |-> native[s[k]]]
  BY DEF EnergiesUpTo
<1>3. EnergiesUpTo(n + 1) = [k \in DOMAIN t |-> native[t[k]]]
  BY DEF EnergiesUpTo
<1>4. CASE native[n + 1].unit # "energy"
  <2>1. T = S
    BY <1>4
  <2> QED BY <1>2, <1>3, <1>4, <2>1
<1>5. CASE native[n + 1].unit = "energy"
  <2>1. T = S \union {n + 1}
    BY <1>5
  <2>2. /\ Len(s) \in Nat /\ DOMAIN s = 1 .. Len(s) /\ s \in Seq(S)
        /\ \A k \in 1 .. Len(s) : s[k] \in S
    BY <1>1, InOrderIs
  <2> DEFINE m == n + 1
  <2> HIDE DEF S
  <2>a. S \in SUBSET Nat /\ IsFiniteSet(S) /\ m \in Nat /\ \A i \in S : i < m
    BY <1>1
  <2> HIDE DEF m
  <2>b. InOrder(S \union {m}) = Append(InOrder(S), m)
    BY <2>a, InOrderLast
  <2>3. t = Append(s, n + 1)
    BY <2>1, <2>b DEF m
  <2> HIDE DEF t
  <2>4. /\ DOMAIN t = 1 .. Len(s) + 1 /\ t[Len(s) + 1] = n + 1
        /\ \A k \in 1 .. Len(s) : t[k] = s[k]
    <3> HIDE DEF s
    <3>a. s \in Seq(Nat)
      <4>1. S \subseteq Nat /\ s \in Seq(S)
        BY <1>1, <2>2
      <4> QED BY ONLY <4>1, SeqMonotonic
    <3>1. s \in Seq(Nat) /\ n + 1 \in Nat
      BY <3>a
    <3> QED BY <2>2, <2>3, <3>1, AppendProperties, LenProperties
  <2> HIDE DEF s
  <2>5. EnergiesUpTo(n) \in Seq(Event) /\ Len(EnergiesUpTo(n)) = Len(s)
    <3>1. \A k \in 1 .. Len(s) : s[k] \in 1 .. Len(native)
      BY <1>1, <2>2, LenProperties DEF S
    <3>2. \A k \in 1 .. Len(s) : native[s[k]] \in Event
      BY <3>1, ElementOfSeq
    <3>3. EnergiesUpTo(n) \in [1 .. Len(s) -> Event]
      BY <1>2, <2>2, <3>2
    <3>4. EnergiesUpTo(n) \in Seq(Event)
      BY <2>2, <3>3, SeqDef
    <3> QED BY <2>2, <3>3, <3>4, LenProperties
  <2>6. native[n + 1] \in Event
    BY ElementOfSeq
  <2>7. /\ Append(EnergiesUpTo(n), native[n + 1]) \in Seq(Event)
        /\ Len(Append(EnergiesUpTo(n), native[n + 1])) = Len(s) + 1
        /\ \A k \in 1 .. Len(s) : Append(EnergiesUpTo(n), native[n + 1])[k] = EnergiesUpTo(n)[k]
        /\ Append(EnergiesUpTo(n), native[n + 1])[Len(s) + 1] = native[n + 1]
    BY <2>5, <2>6, AppendProperties
  <2>8. EnergiesUpTo(n + 1) \in [1 .. Len(s) + 1 -> Event]
    <3>1. \A k \in 1 .. Len(s) + 1 : native[t[k]] \in Event
      <4> SUFFICES ASSUME NEW k \in 1 .. Len(s) + 1 PROVE native[t[k]] \in Event
        OBVIOUS
      <4>1. CASE k = Len(s) + 1
        BY <2>4, <2>6, <4>1
      <4>2. CASE k \in 1 .. Len(s)
        <5>1. s[k] \in 1 .. Len(native)
          BY <1>1, <2>2, <4>2, LenProperties DEF S
        <5> QED BY <2>4, <4>2, <5>1, ElementOfSeq
      <4> QED BY <2>2, <4>1, <4>2
    <3> QED BY <1>3, <2>4, <3>1
  <2>9. EnergiesUpTo(n + 1) \in Seq(Event) /\ Len(EnergiesUpTo(n + 1)) = Len(s) + 1
    BY <2>2, <2>8, SeqDef, LenProperties
  <2>10. ASSUME NEW k \in 1 .. Len(s) + 1
         PROVE  EnergiesUpTo(n + 1)[k] = Append(EnergiesUpTo(n), native[n + 1])[k]
    <3>1. EnergiesUpTo(n + 1)[k] = native[t[k]]
      BY <1>3, <2>4
    <3>2. CASE k = Len(s) + 1
      BY <2>4, <2>7, <3>1, <3>2
    <3>3. CASE k \in 1 .. Len(s)
      BY <1>2, <2>2, <2>4, <2>7, <3>1, <3>3
    <3>4. k = Len(s) + 1 \/ k \in 1 .. Len(s)
      BY ONLY <2>2, k \in 1 .. Len(s) + 1
    <3> QED BY ONLY <3>2, <3>3, <3>4
  <2>11. EnergiesUpTo(n + 1) = Append(EnergiesUpTo(n), native[n + 1])
    BY <2>7, <2>9, <2>10, SeqEqual
  <2> QED BY <1>5, <2>11
<1> QED BY <1>4, <1>5

-----------------------------------------------------------------------------
(***************************************************************************)
(* RowsInv is inductive, next to RaplInv.                                  *)
(***************************************************************************)
\* The types, with those that RaplInv says nothing about, after a step.
LEMMA AllTypes ==
  ASSUME ControlOK', TailInv', header' \in [StreamSet -> Seq(Columns)],
         row' \in [StreamSet -> Seq(Cells)],
         pkg' \in [0 .. 1 -> Nat], pp0' \in [0 .. 1 -> Nat]
  PROVE  TypeOK'
BY DEF ControlOK, TailInv, TypeOK

\* A function of nothing is the empty sequence.
LEMMA EmptyFunction ==
  ASSUME NEW f \in [{} -> {}]
  PROVE  f = <<>>
<1>1. f \in [1 .. 0 -> {}]
  OBVIOUS
<1>2. f \in Seq({}) /\ DOMAIN f = 1 .. 0
  BY <1>1, SeqDef
<1>3. Len(f) = 0
  BY <1>2, LenProperties
<1> QED BY <1>2, <1>3, EmptySeq

\* It holds before the program does anything.
LEMMA RowsInit == Init => RowsInv
<1> SUFFICES ASSUME Init PROVE RowsInv
  OBVIOUS
<1>1. ControlOK /\ pc = "arguments" /\ events = <<>> /\ code = 1
      /\ header = NoColumns /\ row = NoColumns /\ native \in Seq(Event)
      /\ native \in Natives /\ tail \in {"whole", "cut"}
  BY InitOK DEF RaplInv, Init, ControlOK
<1>2. OfStream(<<>>, "PACKAGE") = {} /\ Numbered(<<>>) = {}
      /\ \A s \in StreamSet : OfStream(<<>>, s) = {}
  BY DEF OfStream, Numbered
<1>3. InOrder({}) = <<>>
  <2>1. {} \in SUBSET Nat /\ IsFiniteSet({}) /\ Cardinality({}) = 0
    BY FS_EmptySet
  <2>2. InOrder({}) \in Seq({}) /\ Len(InOrder({})) = 0
    BY <2>1, InOrderIs
  <2> QED BY <2>2, EmptySeq
<1>4. \A s \in StreamSet : NoColumns[s] = <<>>
  <2>1. DOMAIN InOrder({}) = {}
    BY <1>3
  <2>2. UncoreColumns(<<>>) = <<>>
    <3>1. UncoreColumns(<<>>) \in [{} -> {}]
      BY <1>2, <2>1 DEF UncoreColumns
    <3> QED BY <3>1, EmptyFunction
  <2>3. \A s \in StreamSet : EventColumns(<<>>, s) = <<>>
    <3>1. \A s \in StreamSet : EventColumns(<<>>, s) \in [{} -> {}]
      BY <1>2, <2>1 DEF EventColumns
    <3> QED BY <3>1, EmptyFunction
  <2> QED BY <2>2, <2>3, FiveStreams DEF NoColumns, Header
<1>5. NoColumns \in [StreamSet -> Seq(Columns)]
  BY EmptySeq, HeaderType DEF NoColumns
<1>6. NoColumns \in [StreamSet -> Seq(Cells)]
  BY <1>4, <1>5, EmptySeq
<1>7. pkg \in [0 .. 1 -> Nat] /\ pp0 \in [0 .. 1 -> Nat]
  BY DEF Init
<1>8. TypeOK
  BY <1>1, <1>5, <1>6, <1>7 DEF ControlOK, TypeOK
<1>9. FoundInv
  <2>1. EnergiesUpTo(0) = <<>>
    <3>1. {i \in 1 .. 0 : native[i].unit = "energy"} = {}
      OBVIOUS
    <3> QED BY <1>3, <3>1 DEF EnergiesUpTo
  <2>2. Len(native) \in Nat
    BY <1>1, LenProperties
  <2> QED BY <1>1, <2>1, <2>2 DEF FoundInv, Measuring
<1>10. ReadingInv
  BY <1>1 DEF ReadingInv, Measuring, RowWritten, InLoop
<1> QED BY <1>8, <1>9, <1>10 DEF RowsInv

\* A step that neither finds, measures nor writes.
LEMMA QuietOK ==
  ASSUME RowsInv, ControlOK', TailInv',
         UNCHANGED <<native, code, events, header, row, values, pkg, pp0>>,
         pc' \in {"open", "header", "flush"} \union Measuring =>
           code > Len(native) /\ events # <<>>,
         pc' = "flush" \/ pc' \in Measuring => pc = "flush" \/ pc \in Measuring,
         pc' = "row" => pc = "row", RowWritten' => RowWritten, InLoop' => InLoop
  PROVE  RowsInv'
<1>1. TypeOK'
  BY AllTypes DEF RowsInv, TypeOK
<1>2. FoundInv'
  <2>1. EnergiesUpTo(code - 1)' = EnergiesUpTo(code - 1)
    BY DEF EnergiesUpTo
  <2> QED BY <2>1 DEF RowsInv, FoundInv
<1>3. ReadingInv'
  <2>1. \A m \in {"PACKAGE", "PP0"}, p \in 0 .. 1 : Source(m, p)' = Source(m, p)
    BY DEF Source, SelectLastInSeq
  <2>2. Remember(pkg, "PACKAGE")' = Remember(pkg, "PACKAGE")
        /\ Remember(pp0, "PP0")' = Remember(pp0, "PP0")
    BY <2>1 DEF Remember
  <2>3. \A s \in StreamSet : EventCells(s)' = EventCells(s)
    BY DEF EventCells
  <2>4. UncoreCells(pkg, pp0)' = UncoreCells(pkg, pp0)
    BY DEF UncoreCells, HasUncore
  <2> QED BY <2>1, <2>2, <2>3, <2>4 DEF RowsInv, ReadingInv
<1> QED BY <1>1, <1>2, <1>3 DEF RowsInv

\* A failure, at any place.
LEMMA FailRows ==
  ASSUME RowsInv, ControlOK', TailInv', NEW why, Fail(why)
  PROVE  RowsInv'
BY QuietOK DEF Fail, Exit, found, energy, Measuring, RowWritten, InLoop

LEMMA StartRows ==
  ASSUME RowsInv, ControlOK', TailInv',
         ReadArguments \/ InitLibrary \/ FindComponent \/ AddEvents \/ OpenFiles
  PROVE  RowsInv'
<1>1. CASE \E why \in {"usage", "library", "component", "empty", "set", "file"} : Fail(why)
  BY <1>1, FailRows
<1>2. CASE ~\E why \in {"usage", "library", "component", "empty", "set", "file"} : Fail(why)
  <2>1. /\ UNCHANGED <<found, files, energy>> /\ pc' \in Starting /\ pc \in Starting
        /\ pc' = "open" => pc = "events" /\ code > Len(native) /\ events # <<>>
        /\ pc' = "header" => pc = "open"
    BY <1>2 DEF ReadArguments, InitLibrary, FindComponent, AddEvents, OpenFiles, Goto,
       Starting
  <2>2. pc' = "open" => code > Len(native) /\ events # <<>>
    BY <2>1
  <2>3. pc' = "header" => code > Len(native) /\ events # <<>>
    BY <2>1 DEF RowsInv, FoundInv
  <2> QED BY <2>1, <2>2, <2>3, QuietOK DEF found, files, energy, Starting, Measuring,
          RowWritten, InLoop
<1> QED BY <1>1, <1>2

LEMMA FindEventRows ==
  ASSUME RowsInv, ControlOK', TailInv', FindEvent
  PROVE  RowsInv'
<1>1. CASE Fail("event")
  BY <1>1, FailRows
<1>2. CASE ~Fail("event")
  <2>1. /\ pc = "events" /\ code <= Len(native) /\ code' = code + 1
        /\ events' = IF IsEnergy(native[code]) THEN Append(events, native[code])
                     ELSE events
        /\ pc' = "events" \/ pc' = "exited"
        /\ UNCHANGED <<native, header, row, pkg, pp0>>
    BY <1>2 DEF FindEvent, Goto, Exit, energy
  <2>2. /\ TypeOK /\ native \in Seq(Event) /\ code \in Nat \ {0} /\ Len(native) \in Nat
        /\ events = EnergiesUpTo(code - 1) /\ native \in Natives
    BY LenProperties DEF RowsInv, TypeOK, FoundInv
  <2>3. TypeOK'
    BY <2>1, <2>2, AllTypes DEF TypeOK
  <2>4. code' - 1 = code /\ code' \in 1 .. Len(native) + 1
    BY <2>1, <2>2
  <2>5. IsEnergy(native[code]) <=> native[code].unit = "energy"
    BY DEF IsEnergy
  <2>6. events' = EnergiesUpTo(code)
    <3> DEFINE n == code - 1
    <3>1. n \in Nat /\ code = n + 1
      BY <2>2
    <3> HIDE DEF n
    <3>2. events = EnergiesUpTo(n)
      BY <2>2 DEF n
    <3> QED BY <2>1, <2>2, <2>5, <3>1, <3>2, EnergiesGrow
  <2>7. EnergiesUpTo(code - 1)' = EnergiesUpTo(code)
    BY <2>1, <2>4 DEF EnergiesUpTo
  <2>8. FoundInv'
    BY <2>1, <2>2, <2>4, <2>6, <2>7 DEF FoundInv, Measuring
  <2>9. ReadingInv'
    BY <2>1 DEF ReadingInv, Measuring, RowWritten, InLoop
  <2> QED BY <2>3, <2>8, <2>9 DEF RowsInv
<1> QED BY <1>1, <1>2

\* The headers, of all the events or of those before the first without a file.
LEMMA WriteHeaderRows ==
  ASSUME RaplInv, RowsInv, ControlOK', TailInv', WriteHeader
  PROVE  RowsInv'
<1>1. /\ pc = "header" /\ UNCHANGED <<native, code, events, row, values, pkg, pp0>>
      /\ written = 0
  BY DEF WriteHeader, found, energy, RaplInv, FilesInv, Starting
<1>2. events \in Seq(Event) /\ DOMAIN events = 1 .. Len(events) /\ Len(events) \in Nat
  BY LenProperties DEF RowsInv, TypeOK
<1>3. /\ header' \in [StreamSet -> Seq(Columns)]
      /\ \/ pc' = "flush" /\ header' = Header(events) /\ written' = 1
         \/ pc' = "exited"
  <2> DEFINE I == {i \in 1 .. Len(events) : ~HasFile(events[i])}
             unexpected == IF I # {} THEN Min(I) ELSE 0
  <2>1. \/ unexpected = 0 /\ pc' = "flush" /\ header' = Header(events) /\ written' = 1
        \/ /\ unexpected # 0 /\ pc' = "exited"
           /\ header' = Header(SubSeq(events, 1, unexpected - 1))
    BY DEF WriteHeader, HeaderStop, NoFileAt, SelectInSeq, Goto, Exit
  <2>2. unexpected # 0 => unexpected \in 1 .. Len(events)
    <3> SUFFICES ASSUME I # {} PROVE Min(I) \in I
      OBVIOUS
    <3>1. I \in SUBSET DOMAIN events
      BY <1>2
    <3>2. I \in SUBSET Nat /\ IsFiniteSet(I)
      BY <1>2, <3>1, EventPlaces
    <3>3. \E x \in I : \A y \in I : x <= y
      BY <3>2, Extremes
    <3> QED BY <3>3 DEF Min
  <2> HIDE DEF unexpected
  <2>3. ASSUME unexpected # 0 PROVE SubSeq(events, 1, unexpected - 1) \in Seq(Event)
    <3>1. \A i \in 1 .. unexpected - 1 : events[i] \in Event
      <4>1. \A i \in 1 .. unexpected - 1 : i \in 1 .. Len(events)
        BY <1>2, <2>2, <2>3
      <4> QED BY <1>2, <4>1, ElementOfSeq
    <3>2. unexpected - 1 \in Int
      BY <2>2, <2>3
    <3> QED BY <3>1, <3>2, SubSeqProperties
  <2> QED BY <1>2, <2>1, <2>3, HeaderType
<1>4. TypeOK'
  BY <1>1, <1>3, AllTypes DEF RowsInv, TypeOK
<1>5. FoundInv'
  <2>1. EnergiesUpTo(code - 1)' = EnergiesUpTo(code - 1)
    BY <1>1 DEF EnergiesUpTo
  <2> QED BY <1>1, <1>3, <2>1 DEF RowsInv, FoundInv, Measuring
<1>6. ReadingInv'
  BY <1>1, <1>3 DEF ReadingInv, Measuring, RowWritten, InLoop
<1> QED BY <1>4, <1>5, <1>6 DEF RowsInv

\* Nothing is remembered when the loop begins.
LEMMA BeginLoopRows ==
  ASSUME RowsInv, ControlOK', TailInv', BeginLoop
  PROVE  RowsInv'
<1>1. /\ pc = "flush" /\ pc' = "loop" /\ written' = 1
      /\ UNCHANGED <<native, code, events, header, row, values>>
      /\ pkg' = [p \in 0 .. 1 |-> 0] /\ pp0' = [p \in 0 .. 1 |-> 0]
  BY DEF BeginLoop, found, files, Goto
<1>2. TypeOK'
  BY <1>1, AllTypes DEF RowsInv, TypeOK
<1>3. FoundInv'
  <2>1. EnergiesUpTo(code - 1)' = EnergiesUpTo(code - 1)
    BY <1>1 DEF EnergiesUpTo
  <2> QED BY <1>1, <2>1 DEF RowsInv, FoundInv, Measuring
<1>4. ReadingInv'
  BY <1>1 DEF RowsInv, ReadingInv, Measuring, RowWritten, InLoop
<1> QED BY <1>2, <1>3, <1>4 DEF RowsInv

\* A sample has a reading of every event.
LEMMA SampleRows ==
  ASSUME RowsInv, ControlOK', TailInv', Sample
  PROVE  RowsInv'
<1>1. CASE Fail("stop")
  BY <1>1, FailRows
<1>2. CASE ~Fail("stop")
  <2>1. /\ pc = "sleep" /\ pc' = "row" /\ DOMAIN values' = DOMAIN events
        /\ UNCHANGED <<native, code, events, header, row, pkg, pp0>>
    BY <1>2 DEF Sample, found, files, Goto
  <2>2. TypeOK'
    BY <2>1, AllTypes DEF RowsInv, TypeOK
  <2>3. FoundInv'
    <3>1. EnergiesUpTo(code - 1)' = EnergiesUpTo(code - 1)
      BY <2>1 DEF EnergiesUpTo
    <3> QED BY <2>1, <3>1 DEF RowsInv, FoundInv, Measuring
  <2>4. ReadingInv'
    <3>1. \A p \in 0 .. 1 : Source("PP0", p)' = Source("PP0", p)
      BY <2>1 DEF Source, SelectLastInSeq
    <3> QED BY <2>1, <3>1 DEF RowsInv, ReadingInv, Measuring, RowWritten, InLoop
  <2> QED BY <2>2, <2>3, <2>4 DEF RowsInv
<1> QED BY <1>1, <1>2

\* A row is made of the readings, and what is remembered is what it shows.
LEMMA WriteRowRows ==
  ASSUME RaplInv, RowsInv, ControlOK', TailInv', WriteRow
  PROVE  RowsInv'
<1>1. /\ pc = "row" /\ pc' = "flush"
      /\ pkg' = Remember(pkg, "PACKAGE") /\ pp0' = Remember(pp0, "PP0")
      /\ row' = [s \in DOMAIN header |->
                   IF s = "UNCORE" THEN UncoreCells(pkg', pp0') ELSE EventCells(s)]
      /\ UNCHANGED <<native, code, events, header, values>>
  BY DEF WriteRow, WholeRow, found, Goto, RaplInv, TailInv, Measuring
<1>2. /\ TypeOK /\ FoundInv /\ ReadingInv /\ header \in [StreamSet -> Seq(Columns)]
      /\ events \in Seq(Event) /\ values \in Seq(Nat)
      /\ DOMAIN values = DOMAIN events
      /\ pkg \in [0 .. 1 -> Nat] /\ pp0 \in [0 .. 1 -> Nat]
  BY <1>1 DEF RowsInv, TypeOK, ReadingInv
<1>3. pkg' \in [0 .. 1 -> Nat] /\ pp0' \in [0 .. 1 -> Nat]
  BY <1>1, <1>2, RememberType
<1>4. row' \in [StreamSet -> Seq(Cells)]
  <2>1. UncoreCells(pkg', pp0') \in Seq(Cells)
    BY <1>3, UncoreCellsType
  <2>2. \A s \in StreamSet \ {"UNCORE"} : EventCells(s) \in Seq(Cells)
    BY <1>2, EventCellsType
  <2> QED BY <1>1, <1>2, <2>1, <2>2
<1>5. TypeOK'
  BY <1>1, <1>2, <1>3, <1>4, AllTypes
<1>6. FoundInv'
  <2>1. EnergiesUpTo(code - 1)' = EnergiesUpTo(code - 1)
    BY <1>1 DEF EnergiesUpTo
  <2> QED BY <1>1, <1>2, <2>1 DEF FoundInv, Measuring
<1>7. ReadingInv'
  <2>1. \A m \in {"PACKAGE", "PP0"}, p \in 0 .. 1 : Source(m, p)' = Source(m, p)
    BY <1>1 DEF Source, SelectLastInSeq
  <2>2. Remember(pkg, "PACKAGE")' = pkg' /\ Remember(pp0, "PP0")' = pp0'
    BY <1>1, <2>1 DEF Remember
  <2>3. \A s \in StreamSet : EventCells(s)' = EventCells(s)
    BY <1>1 DEF EventCells
  <2>4. UncoreCells(pkg, pp0)' = UncoreCells(pkg', pp0')
    BY DEF UncoreCells, HasUncore
  <2>5. row' = [s \in StreamSet |->
                  IF s = "UNCORE" THEN UncoreCells(pkg, pp0)' ELSE EventCells(s)']
    BY <1>1, <1>2, <2>3, <2>4
  <2>6. \A p \in 0 .. 1 : Source("PP0", p)' = 0 => pp0'[p] = 0
    BY <1>1, <1>2, <2>1 DEF ReadingInv, InLoop, Remember
  <2>7. header' = Header(events') /\ DOMAIN values' = DOMAIN events'
    BY <1>1, <1>2 DEF ReadingInv, Measuring
  <2> QED BY <2>2, <2>5, <2>6, <2>7 DEF ReadingInv
<1> QED BY <1>5, <1>6, <1>7 DEF RowsInv

\* The other steps of the loop, a kill and a step of nobody.
LEMMA OtherRows ==
  ASSUME RaplInv, RowsInv, ControlOK', TailInv',
         Flush \/ StartCounting \/ NextTurn \/ Finish \/ Kill \/ UNCHANGED vars
  PROVE  RowsInv'
<1>1. CASE \E why \in {"start", "done"} : Fail(why)
  BY <1>1, FailRows
<1>2. CASE Flush
  BY <1>2, QuietOK DEF Flush, found, energy, RowsInv, FoundInv, Measuring, RowWritten,
     InLoop
<1>3. CASE StartCounting /\ ~Fail("start")
  BY <1>3, QuietOK DEF StartCounting, Goto, found, files, energy, RowsInv, FoundInv,
     Measuring, RowWritten, InLoop
<1>4. CASE NextTurn
  BY <1>4, QuietOK DEF NextTurn, Goto, found, files, energy, RowsInv, FoundInv,
     Measuring, RowWritten, InLoop
<1>5. CASE Kill
  BY <1>5, QuietOK DEF Kill, found, files, energy, Measuring, RowWritten, InLoop
<1>6. CASE UNCHANGED vars
  BY <1>6, QuietOK DEF vars, found, files, energy, RowsInv, FoundInv, Measuring,
     RowWritten, InLoop
<1> QED BY <1>1, <1>2, <1>3, <1>4, <1>5, <1>6 DEF Finish

LEMMA RowsStep == RaplInv /\ RaplInv' /\ RowsInv /\ [Next]_vars => RowsInv'
<1> SUFFICES ASSUME RaplInv, RaplInv', RowsInv, [Next]_vars PROVE RowsInv'
  OBVIOUS
<1>1. ControlOK' /\ TailInv'
  BY DEF RaplInv
<1> QED BY <1>1, StartRows, FindEventRows, WriteHeaderRows, BeginLoopRows, SampleRows,
        WriteRowRows, OtherRows DEF Next, Program, StartUp, Loop, Terminated

\* What is found, read and written is what the rows rest on, at all times.
THEOREM RowsInvHolds == Spec => []RowsInv
<1>1. RaplInv /\ RowsInv /\ [Next]_vars /\ RaplInv' => RowsInv'
  BY RowsStep
<1> QED BY RowsInit, <1>1, RaplInvariant, PTL DEF Spec

\* Every variable keeps its type.
THEOREM TypeOKHolds == Spec => []TypeOK
<1>1. RowsInv => TypeOK
  BY DEF RowsInv
<1> QED BY <1>1, RowsInvHolds, PTL

\* All the energy events are measured, in order and no others, within the arrays.
THEOREM EventsCompleteHolds == Spec => []EventsComplete
<1>1. RaplInv /\ RowsInv => EventsComplete
  <2> SUFFICES ASSUME RaplInv, RowsInv PROVE EventsComplete
    OBVIOUS
  <2>1. /\ Len(events) <= MaxEvents /\ (~Ended => Len(events) < MaxEvents)
        /\ events \in Seq(Event) /\ native \in Seq(Event) /\ pc \in Places
        /\ Len(native) \in Nat /\ Len(events) \in Nat
    BY LenProperties DEF RaplInv, EventsInv, RowsInv, TypeOK
  <2>2. ASSUME pc \in {"open", "header", "flush"} \union Measuring
        PROVE  events = EnergiesUpTo(Len(native)) /\ Len(events) \in 1 .. MaxEvents - 1
    <3>1. code > Len(native) /\ code \in 1 .. Len(native) + 1 /\ events # <<>>
          /\ events = EnergiesUpTo(code - 1)
      BY <2>2 DEF RowsInv, FoundInv
    <3>2. code - 1 = Len(native)
      BY <2>1, <3>1
    <3>3. Len(events) \in Nat \ {0}
      BY <2>1, <3>1, EmptySeq
    <3>4. Len(events) < MaxEvents
      BY <2>1, <2>2 DEF Ended, Measuring
    <3> QED BY <3>1, <3>2, <3>3, <3>4, ConstantsOK
  <2> QED BY <2>1, <2>2 DEF EventsComplete, Places, Measuring
<1> QED BY <1>1, RaplInvariant, RowsInvHolds, PTL

-----------------------------------------------------------------------------
(***************************************************************************)
(* The rows of a regular processor.                                        *)
(***************************************************************************)
\* Places of the events of a meter, and their packages.
Of(m) == {i \in DOMAIN events : events[i].meter = m}
PackagesWith(m) == {events[i].package : i \in Of(m)}

\* The events of a regular processor are regular: a meter has one for each package.
LEMMA EventsRegular ==
  ASSUME native \in Seq(Event), events \in Seq(Event), Regular(native),
         events = EnergiesUpTo(Len(native))
  PROVE  \A m \in Meters :
           /\ PackagesWith(m) \in {{}, PackagesWith("PACKAGE")}
           /\ \A i, j \in Of(m) : i < j => events[i].package < events[j].package
           /\ \A p \in PackagesWith(m) : 0 .. p \subseteq PackagesWith(m)
<1> DEFINE n == Len(native)
           S == {i \in 1 .. n : native[i].unit = "energy"}
           w == InOrder(S)
<1>1. n \in Nat /\ DOMAIN native = 1 .. n
  BY LenProperties
<1>2. S \in SUBSET Nat /\ IsFiniteSet(S) /\ S \in SUBSET 1 .. n
  <2>1. S \in SUBSET 1 .. n /\ IsFiniteSet(1 .. n)
    BY <1>1, FS_Interval
  <2> QED BY <1>1, <2>1, FS_Subset
<1>3. events = [k \in DOMAIN w |-> native[w[k]]]
  BY DEF EnergiesUpTo
<1>4. \A i \in 1 .. n : i \in S <=> native[i].unit = "energy"
  OBVIOUS
<1> HIDE DEF S
<1>5. /\ Cardinality(S) \in Nat /\ DOMAIN w = 1 .. Cardinality(S)
      /\ \A k \in DOMAIN w : w[k] \in S
      /\ \A k, l \in DOMAIN w : k < l => w[k] < w[l]
      /\ \A i \in S : \E k \in DOMAIN w : w[k] = i
  BY <1>2, InOrderIs
<1> HIDE DEF w, n
<1>6. DOMAIN events = DOMAIN w /\ \A k \in DOMAIN w : events[k] = native[w[k]]
  BY <1>3
<1>7. ASSUME NEW m PROVE \A k \in Of(m) : w[k] \in EnergiesOf(native, m)
  BY <1>1, <1>2, <1>4, <1>5, <1>6 DEF Of, EnergiesOf
<1>8. ASSUME NEW m PROVE PackagesWith(m) = PackagesOf(native, m)
  <2>1. \A i \in EnergiesOf(native, m) : \E k \in Of(m) : w[k] = i
    BY <1>1, <1>4, <1>5, <1>6 DEF Of, EnergiesOf
  <2>2. \A k \in Of(m) : k \in DOMAIN w /\ events[k] = native[w[k]]
    BY <1>6 DEF Of
  <2>3. \A p \in PackagesWith(m) : p \in PackagesOf(native, m)
    BY <1>7, <2>2 DEF PackagesWith, PackagesOf
  <2>4. \A p \in PackagesOf(native, m) : p \in PackagesWith(m)
    BY <2>1, <2>2 DEF PackagesWith, PackagesOf
  <2> QED BY <2>3, <2>4
<1>9. ASSUME NEW m \in Meters, NEW i \in Of(m), NEW j \in Of(m), i < j
      PROVE  events[i].package < events[j].package
  <2>1. i \in DOMAIN w /\ j \in DOMAIN w
    BY <1>6 DEF Of
  <2>2. w[i] < w[j] /\ w[i] \in EnergiesOf(native, m) /\ w[j] \in EnergiesOf(native, m)
    BY <1>5, <1>7, <1>9, <2>1
  <2> QED BY <1>6, <2>1, <2>2 DEF Regular
<1> QED BY <1>8, <1>9 DEF Regular

\* What the events of a processor with cores are like, once they are in the arrays.
CoresRegular ==
  /\ PackagesWith("PP0") = PackagesWith("PACKAGE") /\ 0 \in PackagesWith("PACKAGE")
  /\ \A m \in {"PACKAGE", "PP0"} :
       /\ \A i, j \in Of(m) : i < j => events[i].package < events[j].package
       /\ \A i \in Of(m) : \A p \in 0 .. 1 :
            Mentions(events[i], p) <=> events[i].package = p

\* How many numbers there are in an interval.
LEMMA CountUpTo ==
  ASSUME NEW n \in Nat
  PROVE  /\ IsFiniteSet(1 .. n) /\ Cardinality(1 .. n) = n
         /\ IsFiniteSet(0 .. n) /\ Cardinality(0 .. n) = n + 1
<1>1. 0 \in Int /\ 1 \in Int /\ n \in Int
  OBVIOUS
<1>2. IsFiniteSet(1 .. n) /\ Cardinality(1 .. n) = IF 1 > n THEN 0 ELSE n - 1 + 1
  BY <1>1, FS_Interval
<1>3. IsFiniteSet(0 .. n) /\ Cardinality(0 .. n) = IF 0 > n THEN 0 ELSE n - 0 + 1
  BY <1>1, FS_Interval
<1> QED BY <1>2, <1>3

\* Eleven packages with cores have 22 events.
LEMMA FewPackages ==
  ASSUME events \in Seq(Event), Len(events) < 22,
         \A p \in 0 .. 10 : p \in PackagesWith("PACKAGE") /\ p \in PackagesWith("PP0")
  PROVE  FALSE
<1> DEFINE meter(k) == IF k < 11 THEN "PACKAGE" ELSE "PP0"
           package(k) == IF k < 11 THEN k ELSE k - 11
           IsOf(i, k) == i \in Of(meter(k)) /\ events[i].package = package(k)
           f == [k \in 0 .. 21 |-> CHOOSE i \in DOMAIN events : IsOf(i, k)]
<1>1. ASSUME NEW k \in 0 .. 21 PROVE \E i \in DOMAIN events : IsOf(i, k)
  <2>1. package(k) \in 0 .. 10
    OBVIOUS
  <2>2. package(k) \in PackagesWith("PACKAGE") /\ package(k) \in PackagesWith("PP0")
    BY <2>1
  <2>3. CASE k < 11
    BY <2>2, <2>3 DEF PackagesWith, Of
  <2>4. CASE ~(k < 11)
    BY <2>2, <2>4 DEF PackagesWith, Of
  <2> QED BY <2>3, <2>4
<1>2. \A k \in 0 .. 21 : f[k] \in DOMAIN events /\ IsOf(f[k], k)
  <2> HIDE DEF IsOf
  <2> QED BY <1>1
<1>3. f \in [0 .. 21 -> DOMAIN events]
  BY <1>2
<1> HIDE DEF f
<1>4. ASSUME NEW k \in 0 .. 21, NEW l \in 0 .. 21, f[k] = f[l] PROVE k = l
  <2>1. meter(k) = meter(l) /\ package(k) = package(l)
    BY <1>2, <1>4 DEF Of
  <2> QED BY <2>1
<1>5. f \in Injection(0 .. 21, DOMAIN events)
  BY <1>3, <1>4 DEF Injection, IsInjective
<1>6. /\ DOMAIN events = 1 .. Len(events) /\ Len(events) \in Nat
      /\ IsFiniteSet(1 .. Len(events)) /\ Cardinality(1 .. Len(events)) = Len(events)
  <2>1. DOMAIN events = 1 .. Len(events) /\ Len(events) \in Nat
    BY LenProperties
  <2> QED BY <2>1, CountUpTo
<1>7. IsFiniteSet(0 .. 21) /\ Cardinality(0 .. 21) = 22
  <2> DEFINE n == 21
  <2>1. n \in Nat /\ n + 1 = 22
    OBVIOUS
  <2> HIDE DEF n
  <2>2. IsFiniteSet(0 .. n) /\ Cardinality(0 .. n) = n + 1
    BY <2>1, CountUpTo
  <2> QED BY <2>1, <2>2 DEF n
<1>8. Cardinality(0 .. 21) <= Cardinality(DOMAIN events)
  BY <1>5, <1>6, FS_Injection
<1> QED BY <1>6, <1>7, <1>8

LEMMA CoresAreRegular ==
  ASSUME native \in Seq(Event), events \in Seq(Event), Regular(native),
         events = EnergiesUpTo(Len(native)), Len(events) < 22,
         Of("PP0") # {}
  PROVE  CoresRegular
<1>1. /\ PackagesWith("PP0") \in {{}, PackagesWith("PACKAGE")}
      /\ \A m \in {"PACKAGE", "PP0"} :
           /\ \A i, j \in Of(m) : i < j => events[i].package < events[j].package
           /\ \A p \in PackagesWith(m) : 0 .. p \subseteq PackagesWith(m)
  BY EventsRegular DEF Meters
<1>2. PackagesWith("PP0") = PackagesWith("PACKAGE") /\ PackagesWith("PP0") # {}
  BY <1>1 DEF PackagesWith
<1>3. PackagesWith("PACKAGE") \subseteq Nat
  <2>1. \A i \in DOMAIN events : events[i].package \in Nat
    <3>1. \A i \in DOMAIN events : events[i] \in Event
      BY LenProperties, ElementOfSeq
    <3> QED BY <3>1 DEF Event
  <2> QED BY <2>1 DEF PackagesWith, Of
<1>4. 0 \in PackagesWith("PACKAGE")
  BY <1>1, <1>2, <1>3
<1>5. \A p \in PackagesWith("PACKAGE") : p < 10
  <2> SUFFICES ASSUME NEW p \in PackagesWith("PACKAGE"), ~(p < 10) PROVE FALSE
    OBVIOUS
  <2>a. ASSUME 10 \in PackagesWith("PACKAGE") PROVE FALSE
    <3>1. 0 .. 10 \subseteq PackagesWith("PACKAGE")
      BY <1>1, <2>a
    <3> QED BY <1>2, <3>1, FewPackages
  <2>b. 10 \in 0 .. p /\ 0 .. p \subseteq PackagesWith("PACKAGE")
    BY <1>1, <1>3
  <2> QED BY <2>a, <2>b
<1>6. ASSUME NEW m \in {"PACKAGE", "PP0"}, NEW i \in Of(m)
      PROVE  \A p \in 0 .. 1 : Mentions(events[i], p) <=> events[i].package = p
  <2>1. events[i].package \in PackagesWith("PACKAGE")
    BY <1>2, <1>6 DEF PackagesWith
  <2>2. events[i].package \notin 10 .. 19
    BY <1>3, <1>5, <2>1
  <2> QED BY <2>2 DEF Mentions
<1> QED BY <1>1, <1>2, <1>4, <1>6 DEF CoresRegular

\* In such events a package has one place for itself and one for its cores.
LEMMA SourceOf ==
  ASSUME events \in Seq(Event), CoresRegular, NEW m \in {"PACKAGE", "PP0"},
         NEW p \in 0 .. 1, p \in PackagesWith("PACKAGE")
  PROVE  /\ Source(m, p) \in Of(m) /\ events[Source(m, p)].package = p
         /\ \A i \in Of(m) : events[i].package = p => i = Source(m, p)
<1> DEFINE x == Source(m, p)
           M == {i \in DOMAIN events : events[i].meter = m /\ Mentions(events[i], p)}
<1>a. p \in PackagesWith(m)
  BY DEF CoresRegular
<1>1. PICK i \in Of(m) : events[i].package = p
  BY <1>a DEF PackagesWith
<1>2. i \in M
  BY <1>1 DEF Of, Mentions
<1>3. x \in M
  BY <1>2, SourceIs
<1> HIDE DEF x
<1>4. x \in Of(m) /\ events[x].package = p
  BY <1>3 DEF Of, CoresRegular
<1>5. ASSUME NEW j \in Of(m), events[j].package = p PROVE j = x
  <2>1. j \in Nat /\ x \in Nat
    BY <1>4, LenProperties DEF Of
  <2>2. ~(j < x) /\ ~(x < j)
    BY <1>4, <1>5 DEF CoresRegular
  <2> QED BY <2>1, <2>2
<1> QED BY <1>4, <1>5 DEF x

LEMMA NoSource ==
  ASSUME events \in Seq(Event), CoresRegular, NEW m \in {"PACKAGE", "PP0"},
         NEW p \in 0 .. 1, p \notin PackagesWith("PACKAGE")
  PROVE  Source(m, p) = 0
<1>1. \A i \in Of(m) : events[i].package # p
  BY DEF CoresRegular, PackagesWith
<1>2. {i \in DOMAIN events : events[i].meter = m /\ Mentions(events[i], p)} = {}
  BY <1>1 DEF Of, CoresRegular
<1> QED BY <1>2, SourceIs

\* Short sequences put together.
LEMMA Pairs ==
  ASSUME NEW x, NEW y
  PROVE  /\ Append(<<x>>, y) = <<x, y>> /\ <<x>> \o <<y>> = <<x, y>>
         /\ <<x>> \o <<>> = <<x>> /\ <<>> \o <<x>> = <<x>> /\ <<>> \o <<>> = <<>>
<1> DEFINE S == {x, y}
<1>1. /\ <<>> \in Seq(S) /\ <<x>> \in Seq(S) /\ <<y>> \in Seq(S)
      /\ <<x, y>> \in Seq(S) /\ x \in S /\ y \in S
  OBVIOUS
<1>2. Len(<<x>>) = 1 /\ Len(<<y>>) = 1 /\ Len(<<x, y>>) = 2
      /\ <<x>>[1] = x /\ <<y>>[1] = y /\ <<x, y>>[1] = x /\ <<x, y>>[2] = y
  OBVIOUS
<1> HIDE DEF S
<1>3. Append(<<x>>, y) = <<x, y>>
  <2>1. /\ Append(<<x>>, y) \in Seq(S) /\ Len(Append(<<x>>, y)) = 2
        /\ Append(<<x>>, y)[1] = x /\ Append(<<x>>, y)[2] = y
    BY <1>1, <1>2, AppendProperties
  <2>2. \A i \in 1 .. 2 : Append(<<x>>, y)[i] = <<x, y>>[i]
    BY <1>2, <2>1
  <2> QED BY <1>1, <1>2, <2>1, <2>2, SeqEqual
<1>4. <<x>> \o <<y>> = <<x, y>>
  <2>1. /\ <<x>> \o <<y>> \in Seq(S) /\ Len(<<x>> \o <<y>>) = 2
        /\ (<<x>> \o <<y>>)[1] = x /\ (<<x>> \o <<y>>)[2] = y
    BY <1>1, <1>2, ConcatProperties
  <2>2. \A i \in 1 .. 2 : (<<x>> \o <<y>>)[i] = <<x, y>>[i]
    BY <1>2, <2>1
  <2> QED BY <1>1, <1>2, <2>1, <2>2, SeqEqual
<1> QED BY <1>1, <1>3, <1>4, ConcatEmptySeq

\* The columns of the uncore are those of the packages 0 and 1 that there are.
LEMMA UncoreHeader ==
  ASSUME events \in Seq(Event), CoresRegular
  PROVE  UncoreColumns(events) =
           IF 1 \in PackagesWith("PACKAGE")
           THEN <<Column("UNCORE", 0), Column("UNCORE", 1)>>
           ELSE <<Column("UNCORE", 0)>>
<1> DEFINE N == Numbered(events)
           K == PackagesWith("PACKAGE")
           a == Source("PACKAGE", 0)
           b == Source("PACKAGE", 1)
           name(i) == Column("UNCORE", IF Mentions(events[i], 0) THEN 0 ELSE 1)
<1>1. \A i : i \in N <=> i \in Of("PACKAGE")
                           /\ (Mentions(events[i], 0) \/ Mentions(events[i], 1))
  BY DEF Numbered, OfStream, Of
<1>2. /\ a \in Of("PACKAGE") /\ events[a].package = 0
      /\ \A i \in Of("PACKAGE") : events[i].package = 0 => i = a
  BY SourceOf DEF CoresRegular
<1>3. \A i \in Of("PACKAGE") : \A p \in 0 .. 1 :
        Mentions(events[i], p) <=> events[i].package = p
  BY DEF CoresRegular
<1>4. Of("PACKAGE") \in SUBSET Nat
  BY LenProperties DEF Of
<1>5. UncoreColumns(events) = [k \in DOMAIN InOrder(N) |-> name(InOrder(N)[k])]
  BY DEF UncoreColumns
<1> HIDE DEF a, N, K
<1>6. InOrder({a}) = <<a>> /\ a \in Nat /\ name(a) = Column("UNCORE", 0)
  <2>1. a \in Nat /\ Mentions(events[a], 0)
    BY <1>2, <1>3, <1>4
  <2>2. {} \in SUBSET Nat /\ IsFiniteSet({}) /\ Cardinality({}) = 0
    BY FS_EmptySet
  <2>3. InOrder({} \union {a}) = Append(InOrder({}), a)
    BY <2>1, <2>2, InOrderLast
  <2>4. InOrder({}) = <<>>
    BY <2>2, InOrderIs, EmptySeq
  <2>5. {} \union {a} = {a} /\ Append(<<>>, a) = <<a>>
    OBVIOUS
  <2> QED BY <2>1, <2>3, <2>4, <2>5
<1>7. CASE 1 \notin K
  <2>1. N = {a}
    <3>1. \A i \in Of("PACKAGE") : events[i].package # 1
      BY <1>7 DEF K, PackagesWith
    <3> QED BY <1>1, <1>2, <1>3, <3>1
  <2>2. InOrder(N) = <<a>>
    BY <1>6, <2>1
  <2>3. UncoreColumns(events) = <<name(a)>>
    BY <1>5, <2>2
  <2> QED BY <1>6, <1>7, <2>3 DEF K
<1>8. CASE 1 \in K
  <2>1. /\ b \in Of("PACKAGE") /\ events[b].package = 1
        /\ \A i \in Of("PACKAGE") : events[i].package = 1 => i = b
    BY <1>8, SourceOf DEF K
  <2> HIDE DEF b
  <2>2. N = {a} \union {b}
    BY <1>1, <1>2, <1>3, <2>1
  <2>3. a < b /\ b \in Nat
    <3>1. ~(b < a) /\ a # b
      BY <1>2, <2>1 DEF CoresRegular
    <3> QED BY <1>2, <1>4, <2>1, <3>1
  <2>4. IsFiniteSet({a}) /\ {a} \in SUBSET Nat /\ \A i \in {a} : i < b
    BY <1>6, <2>3, FS_Singleton
  <2>5. InOrder({a} \union {b}) = Append(InOrder({a}), b)
    BY <2>3, <2>4, InOrderLast
  <2>6. InOrder(N) = <<a, b>>
    BY <1>6, <2>2, <2>5, Pairs
  <2>7. name(b) = Column("UNCORE", 1)
    BY <1>3, <2>1
  <2>8. UncoreColumns(events) = <<name(a), name(b)>>
    BY <1>5, <2>6
  <2> QED BY <1>6, <1>8, <2>7, <2>8 DEF K
<1> QED BY <1>7, <1>8 DEF K

\* The cells of the uncore are those of the packages whose cores are remembered.
LEMMA UncoreRow ==
  ASSUME NEW packages \in [0 .. 1 -> Nat], NEW cores \in [0 .. 1 -> Nat]
  PROVE  LET C(p) == Cell(Column("UNCORE", p), packages[p] - cores[p])
         IN  UncoreCells(packages, cores) =
               IF cores[0] # 0
               THEN IF cores[1] # 0 THEN <<C(0), C(1)>> ELSE <<C(0)>>
               ELSE IF cores[1] # 0 THEN <<C(1)>> ELSE <<>>
<1> DEFINE c0 == Cell(Column("UNCORE", 0), packages[0] - cores[0])
           c1 == Cell(Column("UNCORE", 1), packages[1] - cores[1])
<1>1. UncoreCells(packages, cores) = (IF cores[0] # 0 THEN <<c0>> ELSE <<>>)
                                       \o (IF cores[1] # 0 THEN <<c1>> ELSE <<>>)
  BY DEF UncoreCells, HasUncore
<1> HIDE DEF c0, c1
<1>2. <<c0>> \o <<c1>> = <<c0, c1>> /\ <<c0>> \o <<>> = <<c0>>
      /\ <<>> \o <<c1>> = <<c1>> /\ <<>> \o <<>> = <<>>
  BY Pairs
<1>3. UncoreCells(packages, cores) =
        IF cores[0] # 0
        THEN IF cores[1] # 0 THEN <<c0, c1>> ELSE <<c0>>
        ELSE IF cores[1] # 0 THEN <<c1>> ELSE <<>>
  BY <1>1, <1>2
<1> QED BY <1>3 DEF c0, c1

\* The streams of events: the cells are under their columns.
StreamsReadable ==
  \A s \in StreamSet \ {"UNCORE"} :
    /\ [k \in DOMAIN row[s] |-> row[s][k].column] = header[s]
    /\ \A k \in DOMAIN row[s] : \E i \in DOMAIN events :
         /\ Column(events[i].meter, events[i].package) = header[s][k]
         /\ row[s][k].value = values[i]

LEMMA StreamsAreReadable ==
  ASSUME TypeOK, header = Header(events),
         \A s \in StreamSet \ {"UNCORE"} : row[s] = EventCells(s)
  PROVE  StreamsReadable
<1> SUFFICES ASSUME NEW s \in StreamSet \ {"UNCORE"}
             PROVE  /\ [k \in DOMAIN row[s] |-> row[s][k].column] = header[s]
                    /\ \A k \in DOMAIN row[s] : \E i \in DOMAIN events :
                         /\ Column(events[i].meter, events[i].package) = header[s][k]
                         /\ row[s][k].value = values[i]
  BY DEF StreamsReadable
<1> DEFINE S == OfStream(events, s)
           mine == InOrder(S)
<1>1. header[s] = [k \in DOMAIN mine |-> Column(s, events[mine[k]].package)]
  BY FiveStreams DEF Header, EventColumns
<1>2. row[s] = [k \in DOMAIN mine |->
                  Cell(Column(s, events[mine[k]].package), values[mine[k]])]
  BY DEF EventCells
<1>3. S \in SUBSET DOMAIN events /\ \A i \in S : events[i].meter = s
  BY DEF OfStream
<1>4. events \in Seq(Event)
  BY DEF TypeOK
<1> HIDE DEF S
<1>5. \A k \in DOMAIN mine : mine[k] \in S /\ mine[k] \in DOMAIN events
  BY <1>3, <1>4, PlaceInOrder
<1> HIDE DEF mine
<1>6. \A k \in DOMAIN row[s] : row[s][k].column = Column(s, events[mine[k]].package)
                               /\ row[s][k].value = values[mine[k]]
  BY <1>2 DEF Cell
<1>7. DOMAIN row[s] = DOMAIN mine
  BY <1>2
<1> QED BY <1>1, <1>3, <1>5, <1>6, <1>7

\* The uncore: its cells are those of the packages with a reading, in the order of the
\* columns.
UncoreReadable ==
  /\ LET places == InOrder(WithReading)
     IN  [k \in DOMAIN row["UNCORE"] |-> row["UNCORE"][k].column] =
           [k \in DOMAIN places |-> header["UNCORE"][places[k]]]
  /\ \A k \in DOMAIN row["UNCORE"] : \E i, j \in DOMAIN events :
       /\ events[i].meter = "PACKAGE" /\ events[j].meter = "PP0"
       /\ events[i].package = events[j].package
       /\ row["UNCORE"][k].column.package = events[i].package
       /\ row["UNCORE"][k].value = values[i] - values[j]
  /\ \A k \in DOMAIN row["UNCORE"] :
       (row["UNCORE"][k].column = header["UNCORE"][k]) <=> (0 \notin NoReading)

\* Up to two numbers in order.
LEMMA ShortOrders ==
  ASSUME NEW a \in Nat, NEW b \in Nat, a < b
  PROVE  InOrder({}) = <<>> /\ InOrder({a}) = <<a>> /\ InOrder({a, b}) = <<a, b>>
<1>1. {} \in SUBSET Nat /\ IsFiniteSet({}) /\ Cardinality({}) = 0
  BY FS_EmptySet
<1>2. InOrder({}) = <<>>
  BY <1>1, InOrderIs, EmptySeq
<1>3. InOrder({a}) = <<a>>
  <2>1. InOrder({} \union {a}) = Append(InOrder({}), a)
    BY <1>1, InOrderLast
  <2>2. {} \union {a} = {a} /\ Append(<<>>, a) = <<a>>
    OBVIOUS
  <2> QED BY <1>2, <2>1, <2>2
<1>4. InOrder({a, b}) = <<a, b>>
  <2>1. IsFiniteSet({a}) /\ {a} \in SUBSET Nat /\ \A i \in {a} : i < b
    BY FS_Singleton
  <2>2. InOrder({a} \union {b}) = Append(InOrder({a}), b)
    BY <2>1, InOrderLast
  <2>3. {a} \union {b} = {a, b}
    OBVIOUS
  <2> QED BY <1>3, <2>2, <2>3, Pairs
<1> QED BY <1>2, <1>3, <1>4

\* Without cores there is a column for a package and never a cell.
LEMMA NoCoresReadable ==
  ASSUME TypeOK, header = Header(events), row["UNCORE"] = UncoreCells(pkg, pp0),
         \A p \in 0 .. 1 : Source("PP0", p) = 0 => pp0[p] = 0,
         Of("PP0") = {}
  PROVE  UncoreReadable
<1>1. /\ events \in Seq(Event) /\ pkg \in [0 .. 1 -> Nat] /\ pp0 \in [0 .. 1 -> Nat]
      /\ header["UNCORE"] = UncoreColumns(events)
  BY FiveStreams DEF TypeOK, Header
<1>2. ASSUME NEW p \in 0 .. 1 PROVE Source("PP0", p) = 0 /\ pp0[p] = 0 /\ p \in NoReading
  <2>1. {i \in DOMAIN events : events[i].meter = "PP0" /\ Mentions(events[i], p)} = {}
    BY DEF Of
  <2>2. Source("PP0", p) = 0
    BY <1>1, <2>1, SourceIs
  <2> QED BY <2>2 DEF NoReading
<1>3. row["UNCORE"] = <<>>
  BY <1>1, <1>2, UncoreRow
<1>4. \A c \in DOMAIN header["UNCORE"] : header["UNCORE"][c].package \in 0 .. 1
  BY <1>1 DEF UncoreColumns, Column
<1>5. WithReading = {}
  BY <1>2, <1>4 DEF WithReading
<1>6. InOrder(WithReading) = <<>>
  <2>1. 1 \in Nat /\ 2 \in Nat /\ 1 < 2
    OBVIOUS
  <2> QED BY <1>5, <2>1, ShortOrders
<1> DEFINE cells == [k \in DOMAIN row["UNCORE"] |-> row["UNCORE"][k].column]
           under == [k \in DOMAIN InOrder(WithReading) |->
                       header["UNCORE"][InOrder(WithReading)[k]]]
<1>7. DOMAIN row["UNCORE"] = {} /\ DOMAIN InOrder(WithReading) = {}
  BY <1>3, <1>6
<1>8. cells \in [{} -> {}] /\ under \in [{} -> {}]
  BY <1>7
<1>9. cells = under
  BY <1>8, EmptyFunction
<1> QED BY <1>7, <1>9 DEF UncoreReadable

\* With cores a cell is that of a package, less its cores.
LEMMA CoresReadable ==
  ASSUME TypeOK, CoresRegular, header = Header(events),
         row["UNCORE"] = UncoreCells(pkg, pp0),
         pkg = Remember(pkg, "PACKAGE"), pp0 = Remember(pp0, "PP0"),
         \A p \in 0 .. 1 : Source("PP0", p) = 0 => pp0[p] = 0
  PROVE  UncoreReadable
<1> DEFINE K == PackagesWith("PACKAGE")
           h == header["UNCORE"]
           r == row["UNCORE"]
           col(p) == Column("UNCORE", p)
           C(p) == Cell(col(p), pkg[p] - pp0[p])
           Known(p) == \E i, j \in DOMAIN events :
                         /\ events[i].meter = "PACKAGE" /\ events[j].meter = "PP0"
                         /\ events[i].package = events[j].package
                         /\ col(p).package = events[i].package
                         /\ pkg[p] - pp0[p] = values[i] - values[j]
<1>1. /\ events \in Seq(Event) /\ pkg \in [0 .. 1 -> Nat] /\ pp0 \in [0 .. 1 -> Nat]
  BY DEF TypeOK
<1>2. h = IF 1 \in K THEN <<col(0), col(1)>> ELSE <<col(0)>>
  BY <1>1, UncoreHeader, FiveStreams DEF Header
<1>3. r = IF pp0[0] # 0
          THEN IF pp0[1] # 0 THEN <<C(0), C(1)>> ELSE <<C(0)>>
          ELSE IF pp0[1] # 0 THEN <<C(1)>> ELSE <<>>
  BY <1>1, UncoreRow
<1>4. ASSUME NEW p \in 0 .. 1, p \in K
      PROVE  Known(p) /\ (pp0[p] = 0 <=> p \in NoReading)
  <2> DEFINE x == Source("PACKAGE", p)
             y == Source("PP0", p)
  <2>1. x \in Of("PACKAGE") /\ events[x].package = p
        /\ y \in Of("PP0") /\ events[y].package = p
    BY <1>1, <1>4, SourceOf
  <2>2. (x # 0 => pkg[p] = values[x]) /\ (y # 0 => pp0[p] = values[y])
    BY DEF Remember
  <2>a. NoReading = {q \in 0 .. 1 : Source("PP0", q) = 0 \/ values[Source("PP0", q)] = 0}
    BY DEF NoReading
  <2>b. p \in NoReading <=> y = 0 \/ values[y] = 0
    BY <2>a
  <2> HIDE DEF x, y
  <2>3. x # 0 /\ y # 0 /\ x \in DOMAIN events /\ y \in DOMAIN events
        /\ events[x].meter = "PACKAGE" /\ events[y].meter = "PP0"
    BY <1>1, <2>1, LenProperties DEF Of
  <2>4. col(p).package = p
    BY DEF Column
  <2>5. Known(p)
    BY <2>1, <2>2, <2>3, <2>4
  <2> QED BY <2>2, <2>3, <2>5, <2>b
<1>5. 0 \in K /\ (1 \notin K => pp0[1] = 0)
  BY <1>1, NoSource DEF CoresRegular
<1>6. \A p \in 0 .. 1 : C(p).column = col(p) /\ C(p).value = pkg[p] - pp0[p]
                        /\ col(p).package = p
  BY DEF Cell, Column
<1>a. Known(0) /\ (pp0[0] = 0 <=> 0 \in NoReading)
  BY <1>4, <1>5
<1>b. 1 \in K => Known(1) /\ (pp0[1] = 0 <=> 1 \in NoReading)
  BY <1>4
<1> DEFINE W == {c \in DOMAIN h : h[c].package \notin NoReading}
           o == InOrder(W)
           Under == [k \in DOMAIN r |-> r[k].column] = [k \in DOMAIN o |-> h[o[k]]]
           Shifted == \A k \in DOMAIN r : (r[k].column = h[k]) <=> (0 \notin NoReading)
           Made == \A k \in DOMAIN r :
                     r[k] = C(0) \/ (1 \in K /\ r[k] = C(1))
<1>7. W = WithReading
  BY DEF WithReading
<1>8. InOrder({}) = <<>> /\ InOrder({1}) = <<1>> /\ InOrder({2}) = <<2>>
      /\ InOrder({1, 2}) = <<1, 2>>
  <2>1. 1 \in Nat /\ 2 \in Nat /\ 3 \in Nat /\ 1 < 2 /\ 2 < 3
    OBVIOUS
  <2> QED BY <2>1, ShortOrders
<1>9. col(0) # col(1) /\ col(0).package = 0 /\ col(1).package = 1
      /\ C(0).column = col(0) /\ C(1).column = col(1)
  BY <1>6
<1> HIDE DEF h, r, K, C, col, Known
<1>10. Under /\ Shifted /\ Made
  <2>1. CASE 1 \in K
    <3>1. h = <<col(0), col(1)>> /\ DOMAIN h = {1, 2} /\ h[1] = col(0) /\ h[2] = col(1)
      BY <1>2, <2>1
    <3>2. CASE 0 \notin NoReading /\ 1 \notin NoReading
      <4>1. W = {1, 2}
        BY <1>9, <3>1, <3>2
      <4>2. o = <<1, 2>> /\ r = <<C(0), C(1)>>
        BY <1>3, <1>8, <1>a, <1>b, <2>1, <3>2, <4>1
      <4> HIDE DEF o, W
      <4>3. DOMAIN r = 1 .. 2 /\ DOMAIN o = 1 .. 2 /\ r[1] = C(0) /\ r[2] = C(1)
            /\ o[1] = 1 /\ o[2] = 2
        BY <4>2
      <4>4. \A k \in DOMAIN r : k = 1 \/ k = 2
        BY <4>3
      <4>5. \A k \in DOMAIN r : r[k].column = h[k] /\ r[k].column = h[o[k]]
        BY ONLY <1>9, <3>1, <4>3, <4>4
      <4>6. Under
        BY ONLY <4>3, <4>5 DEF Under
      <4>7. Shifted /\ Made
        BY <2>1, <3>2, <4>3, <4>4, <4>5
      <4> QED BY <4>6, <4>7
    <3>3. CASE 0 \notin NoReading /\ 1 \in NoReading
      <4>1. W = {1}
        BY <1>9, <3>1, <3>3
      <4>2. o = <<1>> /\ r = <<C(0)>>
        BY <1>3, <1>8, <1>a, <1>b, <2>1, <3>3, <4>1
      <4> HIDE DEF o, W
      <4> QED BY <1>9, <2>1, <3>1, <3>3, <4>2
    <3>4. CASE 0 \in NoReading /\ 1 \notin NoReading
      <4>1. W = {2}
        BY <1>9, <3>1, <3>4
      <4>2. o = <<2>> /\ r = <<C(1)>>
        BY <1>3, <1>8, <1>a, <1>b, <2>1, <3>4, <4>1
      <4> HIDE DEF o, W
      <4> QED BY <1>9, <2>1, <3>1, <3>4, <4>2
    <3>5. CASE 0 \in NoReading /\ 1 \in NoReading
      <4>1. W = {}
        BY <1>9, <3>1, <3>5
      <4>2. o = <<>> /\ r = <<>>
        BY <1>3, <1>8, <1>a, <1>b, <2>1, <3>5, <4>1
      <4> HIDE DEF o, W
      <4> QED BY <4>2
    <3> QED BY <3>2, <3>3, <3>4, <3>5
  <2>2. CASE 1 \notin K
    <3>1. h = <<col(0)>> /\ DOMAIN h = {1} /\ h[1] = col(0) /\ pp0[1] = 0
      BY <1>2, <1>5, <2>2
    <3>2. CASE 0 \notin NoReading
      <4>1. W = {1}
        BY <1>9, <3>1, <3>2
      <4>2. o = <<1>> /\ r = <<C(0)>>
        BY <1>3, <1>8, <1>a, <3>1, <3>2, <4>1
      <4> HIDE DEF o, W
      <4>3. DOMAIN r = {1} /\ DOMAIN o = {1} /\ r[1] = C(0) /\ o[1] = 1
        BY <4>2
      <4>4. \A k \in DOMAIN r : r[k].column = h[k] /\ r[k].column = h[o[k]]
        BY ONLY <1>9, <3>1, <4>3
      <4>5. Under
        BY ONLY <4>3, <4>4 DEF Under
      <4>6. Shifted /\ Made
        BY <3>2, <4>3, <4>4
      <4> QED BY <4>5, <4>6
    <3>3. CASE 0 \in NoReading
      <4>1. W = {}
        BY <1>9, <3>1, <3>3
      <4>2. o = <<>> /\ r = <<>>
        BY <1>3, <1>8, <1>a, <3>1, <3>3, <4>1
      <4> HIDE DEF o, W
      <4> QED BY <4>2
    <3> QED BY <3>2, <3>3
  <2> QED BY <2>1, <2>2
<1>11. ASSUME NEW k \in DOMAIN r
       PROVE  \E i, j \in DOMAIN events :
                /\ events[i].meter = "PACKAGE" /\ events[j].meter = "PP0"
                /\ events[i].package = events[j].package
                /\ r[k].column.package = events[i].package
                /\ r[k].value = values[i] - values[j]
  <2>1. PICK p \in 0 .. 1 : p \in K /\ r[k] = C(p)
    BY <1>5, <1>10
  <2>2. Known(p)
    BY <1>4, <2>1
  <2>3. r[k].column = col(p) /\ r[k].value = pkg[p] - pp0[p]
    BY <1>6, <2>1
  <2> QED BY <2>2, <2>3 DEF Known
<1> QED BY <1>7, <1>10, <1>11 DEF UncoreReadable, h, r

\* The rows of a processor can be read by their headers.
THEOREM RowsReadableHolds == Spec => []RowsReadable
<1>1. RaplInv /\ RowsInv => RowsReadable
  <2> SUFFICES ASSUME RaplInv, RowsInv, RowWritten PROVE RowsReadable
    BY DEF RowsReadable
  <2>1. /\ header = Header(events) /\ pc \in {"flush", "loop"} /\ InLoop
        /\ pkg = Remember(pkg, "PACKAGE") /\ pp0 = Remember(pp0, "PP0")
        /\ row = [s \in StreamSet |->
                    IF s = "UNCORE" THEN UncoreCells(pkg, pp0) ELSE EventCells(s)]
        /\ \A p \in 0 .. 1 : Source("PP0", p) = 0 => pp0[p] = 0
    BY DEF RowsInv, ReadingInv, RowWritten, InLoop, Measuring
  <2>2. /\ TypeOK /\ events \in Seq(Event) /\ native \in Seq(Event)
        /\ Regular(native) /\ Len(native) \in Nat
    BY LenProperties, ProcessorAssumption DEF RowsInv, TypeOK, FoundInv
  <2>3. events = EnergiesUpTo(Len(native)) /\ Len(events) < 22
    <3>1. code - 1 = Len(native)
      BY <2>1, <2>2 DEF RowsInv, FoundInv, Measuring
    <3>2. Len(events) \in Nat /\ Len(events) < MaxEvents
      BY <2>1, <2>2, LenProperties DEF RaplInv, EventsInv, Ended
    <3> QED BY <3>1, <3>2, ConstantsOK, ProcessorAssumption DEF RowsInv, FoundInv
  <2>4. StreamsReadable
    BY <2>1, <2>2, StreamsAreReadable, FiveStreams
  <2>5. row["UNCORE"] = UncoreCells(pkg, pp0)
    BY <2>1, FiveStreams
  <2>6. UncoreReadable
    <3>1. CASE Of("PP0") = {}
      BY <2>1, <2>2, <2>5, <3>1, NoCoresReadable
    <3>2. CASE Of("PP0") # {}
      <4>1. CoresRegular
        BY <2>2, <2>3, <3>2, CoresAreRegular
      <4> QED BY <2>1, <2>2, <2>5, <4>1, CoresReadable
    <3> QED BY <3>1, <3>2
  <2> QED BY <2>4, <2>6 DEF RowsReadable, StreamsReadable, UncoreReadable
<1> QED BY <1>1, RaplInvariant, RowsInvHolds, PTL

-----------------------------------------------------------------------------
(***************************************************************************)
(* The end of the loop: every step leaves fewer steps than before.         *)
(***************************************************************************)
LEMMA TurnsType == \A n \in Nat : Turns(n) = 14 * n /\ Turns(n) \in Nat
BY TenFiles DEF Turns

\* The time is a number, and there is some of it left in the loop.
LEMMA TicksType ==
  ASSUME RaplInv
  PROVE  /\ TicksLeft \in Nat
         /\ MaxTime > 0 /\ pc \in {"loop", "sleep"} => TicksLeft > 0
<1>1. /\ after \in Nat /\ start \in Nat /\ MaxTime * Second \in Nat
      /\ pc \in {"loop", "sleep"} => ~TimeIsUp
  BY ConstantsOK DEF RaplInv, ControlOK, TimeLeftInv
<1>2. MaxTime * Second - (after - start) \in Int
  BY <1>1
<1> HIDE DEF TicksLeft
<1>3. TicksLeft \in Nat
  BY <1>2 DEF TicksLeft
<1>4. ASSUME MaxTime > 0, ~TimeIsUp PROVE TicksLeft > 0
  BY <1>1, <1>2, <1>4 DEF TicksLeft, TimeIsUp
<1> QED BY <1>1, <1>3, <1>4

\* The steps left at a place, before and after a step.
LEMMA ToFlushAt ==
  /\ pc = "arguments" => StepsToFlush = 6 + Len(native)
  /\ pc = "library" => StepsToFlush = 5 + Len(native)
  /\ pc = "component" => StepsToFlush = 4 + Len(native)
  /\ pc = "events" => StepsToFlush = 3 + Len(native) + 1 - code
  /\ pc = "open" => StepsToFlush = 2
  /\ pc = "header" => StepsToFlush = 1
BY DEF StepsToFlush

LEMMA ToFlushAfter ==
  /\ pc' = "library" => StepsToFlush' = 5 + Len(native')
  /\ pc' = "component" => StepsToFlush' = 4 + Len(native')
  /\ pc' = "events" => StepsToFlush' = 3 + Len(native') + 1 - code'
  /\ pc' = "open" => StepsToFlush' = 2
  /\ pc' = "header" => StepsToFlush' = 1
BY DEF StepsToFlush

LEMMA StepsAt ==
  /\ pc \in {"exited", "killed"} => StepsLeft = 0
  /\ pc \in Starting =>
       StepsLeft = StepsToFlush + NumFiles + 1 + Turns(MaxTime * Second)
  /\ pc = "flush" =>
       StepsLeft = NumFiles - flushed + 1
                     + (IF written = 1 THEN Turns(MaxTime * Second) ELSE Turns(TicksLeft))
  /\ pc = "loop" => StepsLeft = Turns(TicksLeft)
  /\ pc = "sleep" => StepsLeft = Turns(TicksLeft) - 1
  /\ pc = "row" => StepsLeft = NumFiles + 2 + Turns(TicksLeft)
<1>1. pc \in {"exited", "killed"} => StepsLeft = 0
  BY DEF StepsLeft, Ended, Starting
<1>2. pc \in Starting =>
        StepsLeft = StepsToFlush + NumFiles + 1 + Turns(MaxTime * Second)
  BY DEF StepsLeft, Ended, Starting
<1>3. pc = "flush" =>
        StepsLeft = NumFiles - flushed + 1
                      + (IF written = 1 THEN Turns(MaxTime * Second) ELSE Turns(TicksLeft))
  BY DEF StepsLeft, Ended, Starting
<1>4. /\ pc = "loop" => StepsLeft = Turns(TicksLeft)
      /\ pc = "sleep" => StepsLeft = Turns(TicksLeft) - 1
      /\ pc = "row" => StepsLeft = NumFiles + 2 + Turns(TicksLeft)
  BY DEF StepsLeft, Ended, Starting
<1> QED BY <1>1, <1>2, <1>3, <1>4

LEMMA StepsAfter ==
  /\ pc' \in {"exited", "killed"} => StepsLeft' = 0
  /\ pc' \in Starting =>
       StepsLeft' = StepsToFlush' + NumFiles + 1 + Turns(MaxTime * Second)
  /\ pc' = "flush" =>
       StepsLeft' = NumFiles - flushed' + 1
                      + (IF written' = 1 THEN Turns(MaxTime * Second) ELSE Turns(TicksLeft'))
  /\ pc' = "loop" => StepsLeft' = Turns(TicksLeft')
  /\ pc' = "sleep" => StepsLeft' = Turns(TicksLeft') - 1
  /\ pc' = "row" => StepsLeft' = NumFiles + 2 + Turns(TicksLeft')
<1>1. pc' \in {"exited", "killed"} => StepsLeft' = 0
  BY DEF StepsLeft, Ended, Starting
<1>2. pc' \in Starting =>
        StepsLeft' = StepsToFlush' + NumFiles + 1 + Turns(MaxTime * Second)
  BY DEF StepsLeft, Ended, Starting
<1>3. pc' = "flush" =>
        StepsLeft' = NumFiles - flushed' + 1
                       + (IF written' = 1 THEN Turns(MaxTime * Second) ELSE Turns(TicksLeft'))
  BY DEF StepsLeft, Ended, Starting
<1>4. /\ pc' = "loop" => StepsLeft' = Turns(TicksLeft')
      /\ pc' = "sleep" => StepsLeft' = Turns(TicksLeft') - 1
      /\ pc' = "row" => StepsLeft' = NumFiles + 2 + Turns(TicksLeft')
  BY DEF StepsLeft, Ended, Starting
<1> QED BY <1>1, <1>2, <1>3, <1>4

\* While the program goes on it has steps left.
LEMMA StepsType ==
  ASSUME RaplInv, FoundInv, MaxTime > 0
  PROVE  StepsLeft \in Nat /\ (~Ended => StepsLeft > 0)
<1>1. /\ pc \in Places /\ flushed \in 0 .. 10 /\ Len(native) \in Nat
      /\ code \in 1 .. Len(native) + 1 /\ NumFiles = 10
  BY TenFiles, LenProperties DEF RaplInv, ControlOK, FoundInv
<1>2. /\ Turns(TicksLeft) \in Nat /\ Turns(MaxTime * Second) \in Nat
      /\ pc \in {"loop", "sleep"} => Turns(TicksLeft) >= 14
  BY TicksType, TurnsType, ConstantsOK
<1>3. pc \in Starting => StepsToFlush \in Nat
  BY <1>1 DEF StepsToFlush, Starting
<1>4. CASE Ended
  BY <1>4, StepsAt DEF Ended
<1>5. CASE pc \in Starting
  <2>1. StepsLeft = StepsToFlush + NumFiles + 1 + Turns(MaxTime * Second)
    BY <1>5, StepsAt
  <2> QED BY <1>1, <1>2, <1>3, <1>5, <2>1
<1>6. CASE pc = "flush"
  BY <1>1, <1>2, <1>6, StepsAt
<1>7. CASE pc \in Measuring
  BY <1>1, <1>2, <1>7, StepsAt DEF Measuring
<1> QED
  BY <1>1, <1>4, <1>5, <1>6, <1>7 DEF Places, Ended, Starting, Measuring

\* A step that ends the program.
LEMMA LastStep ==
  ASSUME RaplInv, FoundInv, MaxTime > 0, ~Ended, pc' \in {"exited", "killed"}
  PROVE  StepsLeft' < StepsLeft
<1>1. StepsLeft' = 0
  BY DEF StepsLeft, Ended, Starting
<1> QED BY <1>1, StepsType

\* Every sample takes time, whatever the gap before it.
LEMMA SampleTakesTime ==
  ASSUME RaplInv, Overhead < Period, pc = "sleep",
         NEW o \in Overshoots, after' = now + SleepTime + o
  PROVE  after' > after
<1>1. /\ now \in Nat /\ after \in Nat /\ after <= now /\ o \in Nat
      /\ SleepTime \in Nat
  BY SleepTimeOK, ConstantsOK DEF RaplInv, ControlOK, ClockInv, InLoop
<1>2. CASE after < now
  BY <1>1, <1>2
<1>3. CASE after = now
  <2>1. now - after + Overhead = Overhead /\ Overhead \in Nat /\ Period \in Nat
    BY <1>1, <1>3, ConstantsOK
  <2>2. SleepTime = Period - Overhead
    BY <1>1, <2>1, SleepTimeOK
  <2> QED BY <1>1, <1>3, <2>1, <2>2
<1> QED BY <1>1, <1>2, <1>3

\* What two sums share does not change their order.
LEMMA LessPlus ==
  ASSUME NEW m \in Nat, NEW n \in Nat, m < n, NEW k \in Nat, NEW t \in Nat
  PROVE  m + k + 1 + t < n + k + 1 + t
OBVIOUS

\* Every step, from any place of the program, leaves fewer steps.
LEMMA StepsStep ==
  ASSUME RaplInv, RaplInv', FoundInv, MaxTime > 0, Overhead < Period, [Next]_vars,
         ~ UNCHANGED vars
  PROVE  StepsLeft' < StepsLeft
<1>0. /\ flushed \in 0 .. 10 /\ Len(native) \in Nat /\ code \in 1 .. Len(native) + 1
      /\ NumFiles = 10 /\ written \in Nat /\ MaxTime * Second \in Nat
      /\ now \in Nat /\ start \in Nat /\ after \in Nat
      /\ Turns(TicksLeft) \in Nat /\ Turns(TicksLeft') \in Nat
      /\ Turns(MaxTime * Second) \in Nat
  <2>1. TicksLeft \in Nat
    BY TicksType
  <2>2. TicksLeft' \in Nat
    <3>1. after' \in Nat /\ start' \in Nat /\ MaxTime * Second \in Nat
      BY ConstantsOK DEF RaplInv, ControlOK
    <3> QED BY <3>1 DEF TicksLeft
  <2> QED BY <2>1, <2>2, TenFiles, LenProperties, TurnsType, ConstantsOK
          DEF RaplInv, ControlOK, FoundInv
<1>1. CASE pc' \in {"exited", "killed"} /\ ~Ended
  BY <1>1, LastStep
<1>2. CASE Ended
  BY <1>2 DEF Next, Program, StartUp, Loop, Kill, Terminated, Ended, ReadArguments,
     InitLibrary, FindComponent, FindEvent, AddEvents, OpenFiles, WriteHeader, Flush,
     BeginLoop, StartCounting, Sample, WriteRow, NextTurn, Finish
<1>3. ASSUME pc' \notin {"exited", "killed"}, ReadArguments \/ InitLibrary \/ FindComponent
             \/ AddEvents \/ OpenFiles
      PROVE  StepsLeft' < StepsLeft
  <2>1. /\ UNCHANGED <<native, code>>
        /\ \/ pc = "arguments" /\ pc' = "library"
           \/ pc = "library" /\ pc' = "component"
           \/ pc = "component" /\ pc' = "events"
           \/ pc = "open" /\ pc' = "header"
           \/ pc = "events" /\ pc' = "open"
    BY <1>0, <1>3 DEF ReadArguments, InitLibrary, FindComponent, AddEvents, OpenFiles, Fail,
       Exit, Goto, found
  <2>2. pc \in Starting /\ pc' \in Starting
    BY <2>1 DEF Starting
  <2>3. StepsToFlush' < StepsToFlush /\ StepsToFlush \in Nat /\ StepsToFlush' \in Nat
    <3>1. /\ Len(native') = Len(native) /\ Len(native) \in Nat
          /\ code' = code /\ code \in 1 .. Len(native) + 1
      BY <1>0, <2>1
    <3>2. CASE pc = "arguments" \/ pc = "library"
      BY <2>1, <3>1, <3>2, ToFlushAt, ToFlushAfter
    <3>3. CASE pc = "component"
      BY <2>1, <3>1, <3>3, ToFlushAt, ToFlushAfter
    <3>4. CASE pc = "events" \/ pc = "open"
      BY <2>1, <3>1, <3>4, ToFlushAt, ToFlushAfter
    <3> QED BY <2>1, <3>2, <3>3, <3>4
  <2>4. /\ StepsLeft = StepsToFlush + NumFiles + 1 + Turns(MaxTime * Second)
        /\ StepsLeft' = StepsToFlush' + NumFiles + 1 + Turns(MaxTime * Second)
    BY <2>2, StepsAt, StepsAfter
  <2> QED BY <1>0, <2>3, <2>4, LessPlus
<1>4. ASSUME pc' \notin {"exited", "killed"}, FindEvent PROVE StepsLeft' < StepsLeft
  <2>1. /\ pc = "events" /\ pc' = "events" /\ native' = native /\ code' = code + 1
        /\ code <= Len(native)
    BY <1>4 DEF FindEvent, Fail, Exit, Goto
  <2>2. pc \in Starting /\ pc' \in Starting
    BY <2>1 DEF Starting
  <2>3. StepsToFlush' < StepsToFlush /\ StepsToFlush \in Nat /\ StepsToFlush' \in Nat
    BY <1>0, <2>1, ToFlushAt, ToFlushAfter
  <2>4. /\ StepsLeft = StepsToFlush + NumFiles + 1 + Turns(MaxTime * Second)
        /\ StepsLeft' = StepsToFlush' + NumFiles + 1 + Turns(MaxTime * Second)
    BY <2>2, StepsAt, StepsAfter
  <2> QED BY <1>0, <2>3, <2>4, LessPlus
<1>5. ASSUME pc' \notin {"exited", "killed"}, WriteHeader PROVE StepsLeft' < StepsLeft
  <2>1. pc = "header" /\ pc' = "flush" /\ written' = 1 /\ flushed' = 0
    BY <1>5 DEF WriteHeader, Exit, Goto
  <2>2. pc \in Starting /\ StepsToFlush = 1
    BY <2>1 DEF Starting, StepsToFlush
  <2> QED BY <1>0, <2>1, <2>2, StepsAt, StepsAfter
<1>6. ASSUME Flush PROVE StepsLeft' < StepsLeft
  <2>1. /\ pc = "flush" /\ pc' = "flush" /\ written' = written
        /\ flushed' = flushed + 1
        /\ TicksLeft' = TicksLeft
    BY <1>6 DEF Flush, TicksLeft
  <2> QED BY <1>0, <2>1, StepsAt, StepsAfter
<1>7. ASSUME BeginLoop PROVE StepsLeft' < StepsLeft
  <2>1. /\ pc = "flush" /\ pc' = "loop" /\ written = 1 /\ flushed = 10
        /\ after' = now /\ start' = now
    BY <1>0, <1>7 DEF BeginLoop, Goto
  <2>2. after' - start' = 0
    BY <1>0, <2>1
  <2>3. TicksLeft' = MaxTime * Second
    BY <1>0, <2>2 DEF TicksLeft
  <2> QED BY <1>0, <2>1, <2>3, StepsAt, StepsAfter
<1>8. ASSUME pc' \notin {"exited", "killed"}, StartCounting PROVE StepsLeft' < StepsLeft
  <2>1. pc = "loop" /\ pc' = "sleep" /\ UNCHANGED <<start, after>>
    BY <1>8 DEF StartCounting, Goto, Fail, Exit
  <2>2. TicksLeft' = TicksLeft
    BY <2>1 DEF TicksLeft
  <2> QED BY <1>0, <2>1, <2>2, StepsAt, StepsAfter
<1>9. ASSUME pc' \notin {"exited", "killed"}, Sample PROVE StepsLeft' < StepsLeft
  <2>1. /\ pc = "sleep" /\ pc' = "row" /\ start' = start
        /\ \E o \in Overshoots : after' = now + SleepTime + o
    BY <1>9 DEF Sample, Goto, Fail, Exit
  <2>2. after' > after /\ after' \in Nat
    BY <2>1, SampleTakesTime DEF RaplInv, ControlOK
  <2>3. TicksLeft > 0 /\ TicksLeft \in Nat
    BY <2>1, TicksType
  <2>4. MaxTime * Second - (after' - start) < MaxTime * Second - (after - start)
    BY <1>0, <2>2
  <2>5. TicksLeft' < TicksLeft /\ TicksLeft' \in Nat
    BY <1>0, <2>1, <2>2, <2>3, <2>4 DEF TicksLeft
  <2>6. Turns(TicksLeft') + 14 <= Turns(TicksLeft)
    <3> HIDE DEF TicksLeft
    <3> QED BY <2>3, <2>5, TurnsType
  <2> QED BY <1>0, <2>1, <2>6, StepsAt, StepsAfter
<1>10. ASSUME WriteRow PROVE StepsLeft' < StepsLeft
  <2>1. /\ pc = "row" /\ pc' = "flush" /\ written' = written + 1 /\ flushed' = 0
        /\ UNCHANGED <<start, after>>
    BY <1>10 DEF WriteRow, WholeRow, Goto, clock, RaplInv, TailInv, Measuring
  <2>2. TicksLeft' = TicksLeft
    BY <2>1 DEF TicksLeft
  <2>3. written > 0
    BY <2>1 DEF RaplInv, FilesInv, Measuring
  <2> QED BY <1>0, <2>1, <2>2, <2>3, StepsAt, StepsAfter
<1>11. ASSUME NextTurn PROVE StepsLeft' < StepsLeft
  <2>1. /\ pc = "flush" /\ pc' = "loop" /\ written > 1 /\ flushed = 10
        /\ UNCHANGED <<start, after>>
    BY <1>0, <1>11 DEF NextTurn, Goto, clock
  <2>2. TicksLeft' = TicksLeft
    BY <2>1 DEF TicksLeft
  <2> QED BY <1>0, <2>1, <2>2, StepsAt, StepsAfter
<1>12. Finish \/ Kill => pc' \in {"exited", "killed"}
  BY DEF Finish, Kill, Fail, Exit
<1> QED
  BY <1>1, <1>2, <1>3, <1>4, <1>5, <1>6, <1>7, <1>8, <1>9, <1>10, <1>11, <1>12
     DEF Next, Program, StartUp, Loop, Terminated

\* With a maximum time every step leaves fewer steps than before.
THEOREM StepsBoundedHolds == Spec => StepsBounded
<1> DEFINE Counts == MaxTime > 0 => StepsLeft \in Nat
<1>1. RaplInv /\ RowsInv => Counts
  BY StepsType DEF RowsInv
<1>2. RaplInv /\ RaplInv' /\ RowsInv /\ Counts /\ Counts' /\ [Next]_vars
        => [MaxTime > 0 /\ Overhead < Period => StepsLeft' \in 0 .. StepsLeft - 1]_vars
  BY StepsStep DEF RowsInv
<1> QED
  BY <1>1, <1>2, RaplInvariant, RowsInvHolds, PTL DEF Spec, StepsBounded

-----------------------------------------------------------------------------
(***************************************************************************)
(* Where a processor with PSYS is the only one that is not supported.      *)
(***************************************************************************)
\* The meters of the energies of every processor have a file.
KnownMeters ==
  \A es \in Natives : \A i \in DOMAIN es : es[i].unit = "energy" => HasFile(es[i])

LEMMA EventsHaveFiles ==
  ASSUME KnownMeters, RowsInv, code > Len(native)
  PROVE  \A k \in DOMAIN events : HasFile(events[k])
<1> DEFINE n == code - 1
           S == {i \in 1 .. n : native[i].unit = "energy"}
           w == InOrder(S)
<1>1. /\ native \in Natives /\ native \in Seq(Event) /\ n = Len(native)
      /\ n \in Nat /\ DOMAIN native = 1 .. n
      /\ events = [k \in DOMAIN w |-> native[w[k]]]
  BY LenProperties DEF RowsInv, TypeOK, FoundInv, EnergiesUpTo
<1>2. S \in SUBSET Nat /\ IsFiniteSet(S)
  <2>1. S \in SUBSET 1 .. n /\ IsFiniteSet(1 .. n)
    BY <1>1, FS_Interval
  <2> QED BY <1>1, <2>1, FS_Subset
<1>3. \A i \in S : i \in DOMAIN native /\ native[i].unit = "energy"
  BY <1>1
<1> HIDE DEF S
<1>4. \A k \in DOMAIN w : w[k] \in S
  BY <1>2, InOrderIs
<1> HIDE DEF w
<1> QED BY <1>1, <1>3, <1>4 DEF KnownMeters

\* Only an event without a file sets this status.
LEMMA StatusStep ==
  ASSUME RaplInv, [Next]_vars, status # "unexpected", status' = "unexpected"
  PROVE  pc = "header" /\ \E k \in DOMAIN events : ~HasFile(events[k])
<1>a. pc = "row" => NoFileAt(events) = 0
  BY DEF RaplInv, TailInv, Measuring
<1>1. WriteHeader
  BY <1>a DEF Next, Program, StartUp, Loop, Kill, Terminated, ReadArguments, InitLibrary,
     FindComponent, FindEvent, AddEvents, OpenFiles, Flush, BeginLoop, StartCounting,
     Sample, WriteRow, WholeRow, NextTurn, Finish, Fail, Exit, Goto, vars
<1>2. events \in Seq(Event) /\ DOMAIN events = 1 .. Len(events) /\ Len(events) \in Nat
  BY LenProperties DEF RaplInv, ControlOK
<1> DEFINE I == {i \in 1 .. Len(events) : ~HasFile(events[i])}
<1>3. HeaderStop = IF I # {} THEN Min(I) ELSE 0
  BY DEF HeaderStop, NoFileAt, SelectInSeq
<1>4. HeaderStop = 0 => status' = status
  BY <1>1 DEF WriteHeader, Goto
<1>5. I # {}
  BY <1>3, <1>4
<1> QED BY <1>1, <1>2, <1>5 DEF WriteHeader

\* No event ends the program where the processors have PACKAGE, DRAM, PP0 and PP1
\* only: PSYS is all that ProcessorSupported fails for.
THEOREM SupportedWithoutPsys ==
  ASSUME KnownMeters
  PROVE  Spec => []ProcessorSupported
<1>1. Init => ProcessorSupported
  BY DEF Init, ProcessorSupported
<1>2. RaplInv /\ RowsInv /\ ProcessorSupported /\ [Next]_vars => ProcessorSupported'
  <2> SUFFICES ASSUME RaplInv, RowsInv, ProcessorSupported, [Next]_vars,
                      status' = "unexpected"
               PROVE  FALSE
    BY DEF ProcessorSupported
  <2>1. pc = "header" /\ \E k \in DOMAIN events : ~HasFile(events[k])
    BY StatusStep DEF ProcessorSupported
  <2>2. code > Len(native)
    BY <2>1 DEF RowsInv, FoundInv
  <2> QED BY <2>1, <2>2, EventsHaveFiles
<1> QED BY <1>1, <1>2, RaplInvariant, RowsInvHolds, PTL DEF Spec

=============================================================================
