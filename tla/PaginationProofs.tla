-------------------------- MODULE PaginationProofs --------------------------
(***************************************************************************)
(* Facts about Pagination, for lists and pages of any length: the order of *)
(* a list, what a page gives and leaves, and what a client that walks      *)
(* through a list knows while the list changes.                            *)
(***************************************************************************)
EXTENDS Pagination, FiniteSetTheorems, SequenceTheorems, TLAPS

\* Rows that can be listed by their places.
Placed(ids, place) == IsFiniteSet(ids) /\ \A i \in ids : i \in Nat \ {0} /\ place[i] \in Int

\* The rows of a set in their order, each once.
Enumerates(rows, ids, place) ==
    /\ rows \in Seq(ids)
    /\ \A i \in ids : \E k \in 1..Len(rows) : rows[k] = i
    /\ \A k, l \in 1..Len(rows) : k < l => Precedes(place, rows[k], rows[l])

-----------------------------------------------------------------------------
(* The order of a list.                                                    *)

\* The order is strict and total on rows with places.
LEMMA OrderOfRows ==
  ASSUME NEW ids, NEW place, Placed(ids, place)
  PROVE  /\ \A i \in ids : ~Precedes(place, i, i)
         /\ \A i, j \in ids : i = j \/ Precedes(place, i, j) \/ Precedes(place, j, i)
         /\ \A i, j, k \in ids :
               Precedes(place, i, j) /\ Precedes(place, j, k) => Precedes(place, i, k)
  <1>1. \A i \in ids : i \in Int /\ place[i] \in Int
    BY DEF Placed
  <1> QED
    BY <1>1 DEF Precedes

Before(ids, place, i) == {j \in ids : Precedes(place, j, i)}

\* The further down a row is, the more rows precede it.
LEMMA RanksGrow ==
  ASSUME NEW ids, NEW place, Placed(ids, place)
  PROVE  /\ \A i \in ids : Cardinality(Before(ids, place, i)) \in 0..(Cardinality(ids) - 1)
         /\ \A i, j \in ids : Precedes(place, i, j) =>
               Cardinality(Before(ids, place, i)) < Cardinality(Before(ids, place, j))
  <1>0. IsFiniteSet(ids) /\ Cardinality(ids) \in Nat
    BY FS_CardinalityType DEF Placed
  <1>1. \A i \in ids : /\ IsFiniteSet(Before(ids, place, i))
                       /\ Cardinality(Before(ids, place, i)) \in Nat
    BY <1>0, FS_Subset, FS_CardinalityType DEF Before
  <1>2. ASSUME NEW i \in ids
        PROVE  Cardinality(Before(ids, place, i)) < Cardinality(ids)
    <2>1. Before(ids, place, i) \subseteq ids /\ i \in ids \ Before(ids, place, i)
      BY OrderOfRows DEF Before
    <2>2. Before(ids, place, i) # ids
      BY <2>1
    <2>3. Cardinality(Before(ids, place, i)) <= Cardinality(ids)
          /\ Cardinality(Before(ids, place, i)) # Cardinality(ids)
      BY <1>0, <2>1, <2>2, FS_Subset
    <2> QED
      BY <1>0, <1>1, <2>3
  <1>3. ASSUME NEW i \in ids, NEW j \in ids, Precedes(place, i, j)
        PROVE  Cardinality(Before(ids, place, i)) < Cardinality(Before(ids, place, j))
    <2>1. /\ Before(ids, place, i) \subseteq Before(ids, place, j)
          /\ i \in Before(ids, place, j) \ Before(ids, place, i)
      BY <1>3, OrderOfRows DEF Before
    <2>2. Before(ids, place, i) # Before(ids, place, j)
      BY <2>1
    <2>3. /\ Cardinality(Before(ids, place, i)) <= Cardinality(Before(ids, place, j))
          /\ Cardinality(Before(ids, place, i)) # Cardinality(Before(ids, place, j))
      BY <1>1, <2>1, <2>2, FS_Subset
    <2> QED
      BY <1>1, <2>3
  <1> QED
    BY <1>0, <1>1, <1>2, <1>3

\* orderBy gives every row once, in the order.
LEMMA InOrderEnumerates ==
  ASSUME NEW ids, NEW place, Placed(ids, place)
  PROVE  /\ Enumerates(InOrder(ids, place), ids, place)
         /\ Len(InOrder(ids, place)) = Cardinality(ids)
  <1> DEFINE n == Cardinality(ids)
             rank == [i \in ids |-> Cardinality(Before(ids, place, i))]
             rows == InOrder(ids, place)
  <1>0. n \in Nat /\ IsFiniteSet(ids)
    BY FS_CardinalityType DEF Placed
  <1>1. rank \in [ids -> 0..(n - 1)]
    BY RanksGrow
  <1>2. ASSUME NEW i \in ids, NEW j \in ids, rank[i] = rank[j]
        PROVE  i = j
    <2>1. rank[i] \in Nat
      BY <1>0, <1>1
    <2>2. ~Precedes(place, i, j) /\ ~Precedes(place, j, i)
      BY <1>2, <2>1, RanksGrow
    <2> QED
      BY <2>2, OrderOfRows
  <1>3. rank \in Injection(ids, 0..(n - 1))
    BY <1>1, <1>2 DEF Injection, IsInjective
  <1>4. IsFiniteSet(0..(n - 1)) /\ Cardinality(0..(n - 1)) = n
    BY <1>0, FS_Interval
  <1>5. rank \in Surjection(ids, 0..(n - 1))
    BY <1>0, <1>3, <1>4, FS_Injection
  <1>6. \A k \in 1..n : \E i \in ids : rank[i] = k - 1
    <2> SUFFICES ASSUME NEW k \in 1..n
                 PROVE  \E i \in ids : rank[i] = k - 1
      OBVIOUS
    <2>1. k - 1 \in 0..(n - 1)
      BY <1>0
    <2>2. \A t \in 0..(n - 1) : \E i \in ids : rank[i] = t
      BY <1>5 DEF Surjection
    <2> QED
      BY <2>1, <2>2
  <1>7. rows = [k \in 1..n |-> CHOOSE i \in ids : Cardinality(Before(ids, place, i)) = k - 1]
    BY DEF InOrder, Before
  <1>8. \A k \in 1..n : rows[k] \in ids /\ rank[rows[k]] = k - 1
    BY <1>6, <1>7
  <1> HIDE DEF rows, rank
  <1>9. rows \in Seq(ids) /\ Len(rows) = n
    BY <1>0, <1>7, <1>8
  <1>10. ASSUME NEW i \in ids
         PROVE  \E k \in 1..Len(rows) : rows[k] = i
    <2>1. rank[i] + 1 \in 1..n
      BY <1>0, <1>1
    <2>2. rank[rows[rank[i] + 1]] = rank[i]
      BY <1>0, <1>1, <1>8, <2>1
    <2> QED
      BY <1>2, <1>8, <1>9, <2>1, <2>2
  <1>11. ASSUME NEW k \in 1..Len(rows), NEW l \in 1..Len(rows), k < l
         PROVE  Precedes(place, rows[k], rows[l])
    <2>1. rows[k] \in ids /\ rows[l] \in ids /\ rank[rows[k]] < rank[rows[l]]
      BY <1>0, <1>8, <1>9, <1>11
    <2>2. rank[rows[l]] \in Nat /\ rank[rows[k]] \in Nat
      BY <1>0, <1>1, <2>1
    <2>3. ~Precedes(place, rows[l], rows[k]) /\ rows[k] # rows[l]
      BY <2>1, <2>2, RanksGrow DEF rank
    <2> QED
      BY <2>1, <2>3, OrderOfRows
  <1> QED
    BY <1>9, <1>10, <1>11 DEF Enumerates, rows

-----------------------------------------------------------------------------
(* Pages.                                                                  *)

\* A page of the rows given, from the first on: it has them in their order, and its cursor
\* is the last of them that it has.
PageOf(page, ids, place) ==
    /\ page.data \in Seq(ids)
    /\ \A k, l \in 1..Len(page.data) : k < l => Precedes(place, page.data[k], page.data[l])
    /\ page.nextCursor = NoCursor => ids \subseteq Range(page.data)
    /\ page.nextCursor # NoCursor =>
          /\ page.nextCursor \in ids
          /\ \A k \in 1..Len(page.data) : ~Precedes(place, page.nextCursor, page.data[k])
          /\ \A i \in ids \ Range(page.data) : Precedes(place, page.nextCursor, i)

LEMMA TakeRows ==
  ASSUME NEW ids, NEW rows \in Seq(ids), NEW n \in Nat
  PROVE  /\ Take(rows, n) \in Seq(ids)
         /\ Len(Take(rows, n)) = IF n < Len(rows) THEN n ELSE Len(rows)
         /\ \A k \in 1..Len(Take(rows, n)) : Take(rows, n)[k] = rows[k]
  <1> DEFINE m == IF n < Len(rows) THEN n ELSE Len(rows)
  <1>1. m \in Nat /\ m <= Len(rows) /\ Len(rows) \in Nat
    OBVIOUS
  <1>2. \A k \in 1..m : rows[k] \in ids
    BY <1>1
  <1>3. Take(rows, n) = SubSeq(rows, 1, m)
    BY DEF Take
  <1> HIDE DEF m
  <1>4. /\ SubSeq(rows, 1, m) \in Seq(ids) /\ Len(SubSeq(rows, 1, m)) = m
        /\ \A k \in 1..m : SubSeq(rows, 1, m)[k] = rows[k]
    BY <1>1, <1>2
  <1> QED
    BY <1>3, <1>4 DEF m

\* findMany asks for one row more than fits, and buildPage cuts it off.
LEMMA PageOfRows ==
  ASSUME NEW ids, NEW place, Placed(ids, place), NEW limit \in Nat \ {0},
         NEW rows, Enumerates(rows, ids, place)
  PROVE  PageOf(buildPage(Take(rows, limit + 1), limit), ids, place)
  <1> DEFINE found == Take(rows, limit + 1)
             page == buildPage(found, limit)
  <1>1. /\ rows \in Seq(ids) /\ Len(rows) \in Nat
        /\ \A k \in 1..Len(rows) : rows[k] \in ids
    BY DEF Enumerates
  <1>2. /\ found \in Seq(ids)
        /\ Len(found) = IF limit + 1 < Len(rows) THEN limit + 1 ELSE Len(rows)
        /\ \A k \in 1..Len(found) : found[k] = rows[k]
    BY <1>1, TakeRows
  <1>3. page = [data |-> Take(found, limit),
                nextCursor |-> IF Len(found) > limit THEN found[limit] ELSE NoCursor]
    BY DEF buildPage
  <1> HIDE DEF found, page
  <1>4. /\ page.data \in Seq(ids)
        /\ Len(page.data) = IF limit < Len(found) THEN limit ELSE Len(found)
        /\ \A k \in 1..Len(page.data) : page.data[k] = found[k]
    BY <1>2, <1>3, TakeRows
  <1>5. /\ Len(page.data) = IF limit < Len(rows) THEN limit ELSE Len(rows)
        /\ \A k \in 1..Len(page.data) : k \in 1..Len(rows) /\ page.data[k] = rows[k]
    BY <1>1, <1>2, <1>4
  <1>6. \A k, l \in 1..Len(page.data) : k < l => Precedes(place, page.data[k], page.data[l])
    BY <1>5 DEF Enumerates
  <1>7. \A i \in ids \ Range(page.data) : \E k \in 1..Len(rows) : k > limit /\ rows[k] = i
    <2> SUFFICES ASSUME NEW i \in ids \ Range(page.data)
                 PROVE  \E k \in 1..Len(rows) : k > limit /\ rows[k] = i
      OBVIOUS
    <2>1. PICK k \in 1..Len(rows) : rows[k] = i
      BY DEF Enumerates
    <2>2. k \notin DOMAIN page.data
      BY <1>4, <1>5, <2>1 DEF Range
    <2> QED
      BY <1>1, <1>4, <1>5, <2>1, <2>2
  <1>8. CASE Len(rows) <= limit
    <2>1. page.nextCursor = NoCursor
      BY <1>1, <1>2, <1>3, <1>8
    <2>2. ids \subseteq Range(page.data)
      BY <1>1, <1>7, <1>8
    <2> QED
      BY <1>4, <1>6, <2>1, <2>2 DEF PageOf, page, found
  <1>9. CASE limit < Len(rows)
    <2>1. page.nextCursor = rows[limit] /\ limit \in 1..Len(rows)
      BY <1>1, <1>2, <1>3, <1>9
    <2>2. page.nextCursor \in ids /\ page.nextCursor # NoCursor
      BY <1>1, <2>1 DEF Placed, NoCursor
    <2>3. ASSUME NEW k \in 1..Len(page.data)
          PROVE  ~Precedes(place, page.nextCursor, page.data[k])
      <3>1. k <= limit /\ k \in 1..Len(rows) /\ page.data[k] = rows[k] /\ rows[k] \in ids
        BY <1>1, <1>5, <1>9
      <3>2. k = limit \/ k < limit
        BY <1>1, <3>1
      <3>3. \A j, l \in 1..Len(rows) : j < l => Precedes(place, rows[j], rows[l])
        BY DEF Enumerates
      <3>4. rows[k] = rows[limit] \/ Precedes(place, rows[k], rows[limit])
        BY <2>1, <3>1, <3>2, <3>3
      <3> QED
        BY <2>1, <2>2, <3>1, <3>4, OrderOfRows
    <2>4. ASSUME NEW i \in ids \ Range(page.data)
          PROVE  Precedes(place, page.nextCursor, i)
      BY <1>7, <2>1 DEF Enumerates
    <2> QED
      BY <1>4, <1>6, <2>2, <2>3, <2>4 DEF PageOf, page, found
  <1> QED
    BY <1>1, <1>8, <1>9

PageAfter(listed, place, cursor, limit) ==
    buildPage(findMany(listed, place, cursor, limit), limit)

LEMMA FirstPage ==
  ASSUME NEW listed, NEW place, Placed(listed, place), NEW limit \in Nat \ {0}
  PROVE  PageOf(PageAfter(listed, place, NoCursor, limit), listed, place)
  <1>1. findMany(listed, place, NoCursor, limit) = Take(InOrder(listed, place), limit + 1)
    BY DEF findMany
  <1> QED
    BY <1>1, InOrderEnumerates, PageOfRows DEF PageAfter

Behind(listed, place, cursor) == {i \in listed : Precedes(place, cursor, i)}
From(listed, place, cursor) == {i \in listed : ~Precedes(place, i, cursor)}

\* As long as the cursor's row is in the list, skip: 1 skips it and nothing else.
LEMMA SkipsCursor ==
  ASSUME NEW listed, NEW place, Placed(listed, place), NEW cursor \in listed,
         NEW rows, Enumerates(rows, From(listed, place, cursor), place)
  PROVE  Enumerates(SubSeq(rows, 2, Len(rows)), Behind(listed, place, cursor), place)
  <1> DEFINE from == From(listed, place, cursor)
             rest == SubSeq(rows, 2, Len(rows))
             n == Len(rows)
  <1>1. /\ rows \in Seq(from) /\ n \in Nat
        /\ \A k \in 1..n : rows[k] \in from /\ rows[k] \in listed
    BY DEF Enumerates, From
  <1>2. cursor \in from
    BY OrderOfRows DEF From
  <1>3. PICK c \in 1..n : rows[c] = cursor
    BY <1>2 DEF Enumerates
  <1>4. c = 1
    <2> SUFFICES ASSUME c # 1 PROVE FALSE
      OBVIOUS
    <2>1. 1 \in 1..n /\ 1 < c
      BY <1>1, <1>3
    <2>2. Precedes(place, rows[1], cursor)
      BY <1>3, <2>1 DEF Enumerates
    <2> QED
      BY <1>1, <2>1, <2>2 DEF From
  <1>5. n \in Nat \ {0}
    BY <1>1, <1>3
  <1>6. /\ rest \in Seq(from) /\ Len(rest) = n - 1
        /\ \A k \in 1..(n - 1) : rest[k] = rows[k + 1]
    <2> HIDE DEF from
    <2>1. 2 \in Int /\ n \in Int /\ \A k \in 2..n : rows[k] \in from
      BY <1>1
    <2>2. /\ rest \in Seq(from) /\ Len(rest) = IF 2 <= n THEN n - 2 + 1 ELSE 0
          /\ \A k \in 1..(n - 2 + 1) : rest[k] = rows[2 + k - 1]
      BY <2>1, SubSeqProperties
    <2>3. n - 2 + 1 = n - 1 /\ (2 <= n \/ n = 1)
      <3> HIDE DEF n
      <3> QED
        BY <1>5
    <2>4. Len(rest) = n - 1
      BY <1>5, <2>2, <2>3
    <2>5. ASSUME NEW k \in 1..(n - 1)
          PROVE  rest[k] = rows[k + 1]
      <3>1. k \in 1..(n - 2 + 1) /\ 2 + k - 1 = k + 1
        BY <1>5
      <3>2. rest[k] = rows[2 + k - 1]
        BY <2>2, <3>1
      <3> QED
        BY <3>1, <3>2
    <2> QED
      BY <2>2, <2>4, <2>5
  <1> HIDE DEF rest
  <1>7. \A k \in 1..(n - 1) : k + 1 \in 1..n /\ rest[k] \in Behind(listed, place, cursor)
    <2> SUFFICES ASSUME NEW k \in 1..(n - 1)
                 PROVE  k + 1 \in 1..n /\ rest[k] \in Behind(listed, place, cursor)
      OBVIOUS
    <2>1. 1 \in 1..n /\ k + 1 \in 1..n /\ 1 < k + 1
      BY <1>1
    <2>2. Precedes(place, rows[1], rows[k + 1])
      BY <2>1 DEF Enumerates
    <2> QED
      BY <1>1, <1>3, <1>4, <1>6, <2>1, <2>2 DEF Behind
  <1>8. rest \in Seq(Behind(listed, place, cursor))
    BY <1>1, <1>5, <1>6, <1>7
  <1>9. ASSUME NEW i \in Behind(listed, place, cursor)
        PROVE  \E k \in 1..Len(rest) : rest[k] = i
    <2>1. i \in from /\ i # cursor
      BY OrderOfRows DEF Behind, From
    <2>2. PICK k \in 1..n : rows[k] = i
      BY <2>1 DEF Enumerates
    <2>3. k - 1 \in 1..(n - 1) /\ k = (k - 1) + 1
      BY <1>1, <1>3, <1>4, <2>1, <2>2
    <2> QED
      BY <1>6, <2>2, <2>3
  <1>10. \A k, l \in 1..Len(rest) : k < l => Precedes(place, rest[k], rest[l])
    <2> SUFFICES ASSUME NEW k \in 1..(n - 1), NEW l \in 1..(n - 1), k < l
                 PROVE  Precedes(place, rest[k], rest[l])
      BY <1>6
    <2>1. k + 1 \in 1..n /\ l + 1 \in 1..n /\ k + 1 < l + 1
      BY <1>1
    <2>2. Precedes(place, rows[k + 1], rows[l + 1])
      BY <2>1 DEF Enumerates
    <2> QED
      BY <1>6, <2>2
  <1> QED
    BY <1>8, <1>9, <1>10 DEF Enumerates, rest

LEMMA LaterPage ==
  ASSUME NEW listed, NEW place, Placed(listed, place), NEW limit \in Nat \ {0},
         NEW cursor \in listed, cursor \in DOMAIN place
  PROVE  PageOf(PageAfter(listed, place, cursor, limit), Behind(listed, place, cursor), place)
  <1> DEFINE from == From(listed, place, cursor)
  <1>1. Placed(from, place) /\ Placed(Behind(listed, place, cursor), place)
    BY FS_Subset DEF Placed, From, Behind
  <1>2. cursor # NoCursor
    BY DEF Placed, NoCursor
  <1>3. findMany(listed, place, cursor, limit)
            = Take(SubSeq(InOrder(from, place), 2, Cardinality(from)), limit + 1)
    BY <1>2 DEF findMany, From
  <1>4. /\ Enumerates(InOrder(from, place), from, place)
        /\ Len(InOrder(from, place)) = Cardinality(from)
    BY <1>1, InOrderEnumerates
  <1>5. Enumerates(SubSeq(InOrder(from, place), 2, Cardinality(from)),
                   Behind(listed, place, cursor), place)
    BY <1>4, SkipsCursor
  <1> QED
    BY <1>1, <1>3, <1>5, PageOfRows DEF PageAfter

\* Whatever became of the cursor's row, a page has rows of the list.
LEMMA PageIsListed ==
  ASSUME NEW listed, NEW place, Placed(listed, place), NEW limit \in Nat \ {0}, NEW cursor
  PROVE  /\ PageAfter(listed, place, cursor, limit).data \in Seq(listed)
         /\ PageAfter(listed, place, cursor, limit).nextCursor \in listed \cup {NoCursor}
  <1> DEFINE found == findMany(listed, place, cursor, limit)
  <1>1. ASSUME found \in Seq(listed)
        PROVE  /\ buildPage(found, limit).data \in Seq(listed)
               /\ buildPage(found, limit).nextCursor \in listed \cup {NoCursor}
    <2> HIDE DEF found
    <2>1. Take(found, limit) \in Seq(listed)
      BY <1>1, TakeRows
    <2>2. Len(found) > limit => found[limit] \in listed
      BY <1>1
    <2> QED
      BY <2>1, <2>2 DEF buildPage
  <1>2. found \in Seq(listed)
    <2>1. CASE cursor = NoCursor
      <3>1. InOrder(listed, place) \in Seq(listed)
        BY InOrderEnumerates DEF Enumerates
      <3>2. Take(InOrder(listed, place), limit + 1) \in Seq(listed)
        BY <3>1, TakeRows
      <3> QED
        BY <2>1, <3>2 DEF findMany
    <2>2. CASE cursor # NoCursor /\ cursor \notin DOMAIN place
      BY <2>2 DEF findMany
    <2>3. CASE cursor # NoCursor /\ cursor \in DOMAIN place
      <3> DEFINE from == From(listed, place, cursor)
                 rows == InOrder(from, place)
                 rest == SubSeq(rows, 2, Cardinality(from))
      <3>1. Placed(from, place) /\ from \subseteq listed
        BY FS_Subset DEF Placed, From
      <3>2. rows \in Seq(from) /\ Len(rows) = Cardinality(from)
        BY <3>1, InOrderEnumerates DEF Enumerates
      <3>3. found = Take(rest, limit + 1)
        BY <2>3 DEF findMany, From
      <3> HIDE DEF from, rows, found
      <3>4. rest \in Seq(listed)
        <4>1. rows \in Seq(listed) /\ Len(rows) \in Nat
          BY <3>1, <3>2
        <4>2. SubSeq(rows, 2, Len(rows)) \in Seq(listed)
          BY <4>1
        <4> QED
          BY <3>2, <4>2
      <3> HIDE DEF rest
      <3> QED
        BY <3>3, <3>4, TakeRows
    <2> QED
      BY <2>1, <2>2, <2>3
  <1> QED
    BY <1>1, <1>2 DEF PageAfter

-----------------------------------------------------------------------------
(* Walks.                                                                  *)

\* What a client that has seen some rows and holds a cursor knows of a list, apart from the
\* rows touched since it set out: the cursor's row is in the list, with what it has seen up
\* to there and what it has yet to see behind; without a cursor it has seen all.
Abreast(seen, cursor, first, touched, listed, place) ==
    /\ cursor = NoCursor => first \ touched \subseteq Range(seen)
    /\ cursor # NoCursor =>
          /\ cursor \in listed
          /\ \A i \in Range(seen) \ touched : i \in listed /\ ~Precedes(place, cursor, i)
          /\ \A i \in (first \ touched) \ Range(seen) :
                i \in listed /\ Precedes(place, cursor, i)
    /\ \A k, l \in 1..Len(seen) : seen[k] = seen[l] /\ seen[k] \notin touched => k = l

\* It still does when the list has changed, if what left or moved counts as touched and the
\* cursor's row did neither.
LEMMA StaysAbreast ==
  ASSUME NEW seen, NEW cursor, NEW first, NEW touched, NEW listed, NEW place,
         NEW touched2, NEW listed2, NEW place2,
         Abreast(seen, cursor, first, touched, listed, place), touched \subseteq touched2,
         cursor # NoCursor =>
             \A i \in listed : i \notin listed2 \/ place[i] # place2[i]
                                => i \in touched2 /\ i # cursor
  PROVE  Abreast(seen, cursor, first, touched2, listed2, place2)
  <1>1. ASSUME cursor # NoCursor
        PROVE  /\ cursor \in listed2
               /\ \A i \in Range(seen) \ touched2 :
                     i \in listed2 /\ ~Precedes(place2, cursor, i)
               /\ \A i \in (first \ touched2) \ Range(seen) :
                     i \in listed2 /\ Precedes(place2, cursor, i)
    <2>1. cursor \in listed /\ cursor \in listed2 /\ place2[cursor] = place[cursor]
      BY <1>1 DEF Abreast
    <2>2. \A i \in listed \ touched2 : i \in listed2 /\ place2[i] = place[i]
      BY <1>1
    <2>3. \A i \in Range(seen) \ touched2 : i \in listed /\ ~Precedes(place, cursor, i)
      BY <1>1 DEF Abreast
    <2>4. \A i \in (first \ touched2) \ Range(seen) :
             i \in listed /\ Precedes(place, cursor, i)
      BY <1>1 DEF Abreast
    <2>5. \A i \in listed \ touched2 : Precedes(place2, cursor, i) <=> Precedes(place, cursor, i)
      BY <2>1, <2>2 DEF Precedes
    <2> QED
      BY <2>1, <2>2, <2>3, <2>4, <2>5
  <1>2. cursor = NoCursor => first \ touched2 \subseteq Range(seen)
    BY DEF Abreast
  <1>3. \A k, l \in 1..Len(seen) : seen[k] = seen[l] /\ seen[k] \notin touched2 => k = l
    BY DEF Abreast
  <1> QED
    BY <1>1, <1>2, <1>3 DEF Abreast

\* The rows of a page after others.
LEMMA SeenGrows ==
  ASSUME NEW S, NEW seen \in Seq(S), NEW rows \in Seq(S)
  PROVE  /\ seen \o rows \in Seq(S)
         /\ Len(seen \o rows) = Len(seen) + Len(rows)
         /\ \A k \in 1..Len(seen \o rows) :
               \/ k \in 1..Len(seen) /\ (seen \o rows)[k] = seen[k]
               \/ k - Len(seen) \in 1..Len(rows) /\ (seen \o rows)[k] = rows[k - Len(seen)]
         /\ Range(seen \o rows) = Range(seen) \cup Range(rows)
  <1> DEFINE all == seen \o rows
             m == Len(seen)
             n == Len(rows)
  <1>1. /\ all \in Seq(S) /\ Len(all) = m + n /\ m \in Nat /\ n \in Nat
        /\ \A k \in 1..(m + n) : all[k] = IF k <= m THEN seen[k] ELSE rows[k - m]
    OBVIOUS
  <1>2. /\ DOMAIN all = 1..(m + n) /\ DOMAIN seen = 1..m /\ DOMAIN rows = 1..n
    BY <1>1
  <1> HIDE DEF all, m, n
  <1>3. \A k \in 1..(m + n) : \/ k \in 1..m /\ all[k] = seen[k]
                              \/ k - m \in 1..n /\ all[k] = rows[k - m]
    BY <1>1
  <1>4. Range(all) \subseteq Range(seen) \cup Range(rows)
    BY <1>2, <1>3 DEF Range
  <1>5. Range(seen) \subseteq Range(all)
    <2>1. \A k \in 1..m : k \in 1..(m + n) /\ all[k] = seen[k]
      BY <1>1
    <2> QED
      BY <1>2, <2>1 DEF Range
  <1>6. Range(rows) \subseteq Range(all)
    <2>1. \A k \in 1..n : m + k \in 1..(m + n) /\ all[m + k] = rows[k]
      <3> SUFFICES ASSUME NEW k \in 1..n
                   PROVE  m + k \in 1..(m + n) /\ all[m + k] = rows[k]
        OBVIOUS
      <3>1. m + k \in 1..(m + n) /\ ~(m + k <= m) /\ (m + k) - m = k
        BY <1>1
      <3> QED
        BY <1>1, <3>1
    <2> QED
      BY <1>2, <2>1 DEF Range
  <1> QED
    BY <1>1, <1>3, <1>4, <1>5, <1>6 DEF all, m, n

LEMMA SeqOfMore ==
  ASSUME NEW A, NEW B, A \subseteq B
  PROVE  Seq(A) \subseteq Seq(B)
  OBVIOUS

\* The first page.
LEMMA SetsOutAbreast ==
  ASSUME NEW listed, NEW place, Placed(listed, place), NEW limit \in Nat \ {0}, NEW touched
  PROVE  LET page == PageAfter(listed, place, NoCursor, limit)
         IN  Abreast(<<>> \o page.data, page.nextCursor, listed, touched, listed, place)
  <1> DEFINE page == PageAfter(listed, place, NoCursor, limit)
             data == page.data
             next == page.nextCursor
  <1>1. PageOf(page, listed, place)
    BY FirstPage
  <1> HIDE DEF page
  <1>2. data \in Seq(listed) /\ <<>> \o data = data /\ DOMAIN data = 1..Len(data)
        /\ Len(data) \in Nat
    BY <1>1 DEF PageOf
  <1>3. \A k, l \in 1..Len(data) : data[k] = data[l] => k = l
    <2> SUFFICES ASSUME NEW k \in 1..Len(data), NEW l \in 1..Len(data), data[k] = data[l]
                 PROVE  k = l
      OBVIOUS
    <2>1. data[k] \in listed
      BY <1>2
    <2>2. ~(k < l) /\ ~(l < k)
      BY <1>1, <2>1, OrderOfRows DEF PageOf
    <2> QED
      BY <1>2, <2>2
  <1>4. \A i \in Range(data) : i \in listed /\ \E k \in 1..Len(data) : i = data[k]
    BY <1>2 DEF Range
  <1>5. Abreast(data, next, listed, touched, listed, place)
    BY <1>1, <1>3, <1>4 DEF PageOf, Abreast
  <1> QED
    BY <1>2, <1>5 DEF page

\* A later page, as long as the cursor's row is in the list.
LEMMA WalksOnAbreast ==
  ASSUME NEW listed, NEW place, Placed(listed, place), listed \subseteq DOMAIN place,
         NEW limit \in Nat \ {0}, NEW S, NEW seen \in Seq(S), listed \subseteq S,
         NEW cursor, cursor # NoCursor, NEW first, NEW touched,
         Abreast(seen, cursor, first, touched, listed, place)
  PROVE  LET page == PageAfter(listed, place, cursor, limit)
         IN  Abreast(seen \o page.data, page.nextCursor, first, touched, listed, place)
  <1> DEFINE page == PageAfter(listed, place, cursor, limit)
             data == page.data
             next == page.nextCursor
             behind == Behind(listed, place, cursor)
             all == seen \o data
  <1>0. cursor \in listed
    BY DEF Abreast
  <1>1. PageOf(page, behind, place)
    BY <1>0, LaterPage
  <1> HIDE DEF page
  <1>2. /\ data \in Seq(behind) /\ data \in Seq(S)
        /\ Len(data) \in Nat /\ DOMAIN data = 1..Len(data)
        /\ \A k \in 1..Len(data) : data[k] \in behind
    BY <1>1 DEF PageOf, Behind
  <1>3. \A i \in behind : i \in listed /\ Precedes(place, cursor, i)
    BY DEF Behind
  <1>4. \A i \in Range(data) : i \in behind /\ \E k \in 1..Len(data) : i = data[k]
    BY <1>2 DEF Range
  <1>5. /\ Len(all) = Len(seen) + Len(data) /\ Len(seen) \in Nat
        /\ \A k \in 1..Len(all) :
              \/ k \in 1..Len(seen) /\ all[k] = seen[k]
              \/ k - Len(seen) \in 1..Len(data) /\ all[k] = data[k - Len(seen)]
        /\ Range(all) = Range(seen) \cup Range(data)
    BY <1>2, SeenGrows
  <1> HIDE DEF behind, all
  <1>6. \A i \in (first \ touched) \ Range(seen) : i \in behind
    BY DEF Abreast, Behind, behind
  <1>7. next = NoCursor => first \ touched \subseteq Range(all)
    BY <1>1, <1>5, <1>6 DEF PageOf
  <1>8. ASSUME next # NoCursor
        PROVE  /\ next \in listed
               /\ \A i \in Range(all) \ touched : i \in listed /\ ~Precedes(place, next, i)
               /\ \A i \in (first \ touched) \ Range(all) :
                     i \in listed /\ Precedes(place, next, i)
    <2>1. next \in behind /\ next \in listed /\ Precedes(place, cursor, next)
      BY <1>1, <1>3, <1>8 DEF PageOf
    <2>2. ASSUME NEW i \in Range(seen) \ touched
          PROVE  i \in listed /\ ~Precedes(place, next, i)
      <3>1. i \in listed /\ ~Precedes(place, cursor, i)
        BY DEF Abreast
      <3> QED
        BY <1>0, <2>1, <3>1, OrderOfRows
    <2>3. ASSUME NEW i \in Range(data)
          PROVE  i \in listed /\ ~Precedes(place, next, i)
      BY <1>1, <1>3, <1>4, <1>8 DEF PageOf
    <2>4. \A i \in (first \ touched) \ Range(all) : i \in listed /\ Precedes(place, next, i)
      BY <1>1, <1>3, <1>5, <1>6, <1>8 DEF PageOf
    <2> QED
      BY <1>5, <2>1, <2>2, <2>3, <2>4
  <1>9. ASSUME NEW k \in 1..Len(all), NEW l \in 1..Len(all),
               all[k] = all[l], all[k] \notin touched
        PROVE  k = l
    <2>1. ASSUME NEW x \in 1..Len(seen), NEW y \in 1..Len(data), seen[x] = data[y],
                 seen[x] \notin touched
          PROVE  FALSE
      <3>1. seen[x] \in Range(seen) \ touched
        BY <2>1 DEF Range
      <3>2. ~Precedes(place, cursor, seen[x])
        BY <3>1 DEF Abreast
      <3> QED
        BY <1>2, <1>3, <2>1, <3>2
    <2>2. CASE k \in 1..Len(seen) /\ all[k] = seen[k] /\ l \in 1..Len(seen) /\ all[l] = seen[l]
      BY <1>9, <2>2 DEF Abreast
    <2>3. CASE /\ k - Len(seen) \in 1..Len(data) /\ all[k] = data[k - Len(seen)]
               /\ l - Len(seen) \in 1..Len(data) /\ all[l] = data[l - Len(seen)]
      <3>1. \A x, y \in 1..Len(data) : data[x] = data[y] => x = y
        <4> SUFFICES ASSUME NEW x \in 1..Len(data), NEW y \in 1..Len(data), data[x] = data[y]
                     PROVE  x = y
          OBVIOUS
        <4>1. data[x] \in listed
          BY <1>2, <1>3
        <4>2. ~(x < y) /\ ~(y < x)
          BY <1>1, <4>1, OrderOfRows DEF PageOf
        <4> QED
          BY <1>2, <4>2
      <3>2. k - Len(seen) = l - Len(seen)
        BY <1>9, <2>3, <3>1
      <3> QED
        BY <1>5, <3>2
    <2> QED
      BY <1>5, <1>9, <2>1, <2>2, <2>3
  <1> QED
    BY <1>7, <1>8, <1>9 DEF Abreast, all, page
=============================================================================
