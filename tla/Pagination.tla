----------------------------- MODULE Pagination -----------------------------
(***************************************************************************)
(* The pages of a list: shared/pagination, and how the repositories ask    *)
(* Prisma for the rows of a page.  A list is a set of ids and a place for  *)
(* every row of its table, listed or not; ids are positive integers.       *)
(***************************************************************************)
EXTENDS Integers, SequencesExt

NoCursor == 0

\* orderBy: by place, and by id where places are equal.  The k-th row is the one that
\* k - 1 others precede.
Precedes(place, a, b) == place[a] < place[b] \/ (place[a] = place[b] /\ a < b)
InOrder(ids, place) ==
    [k \in 1..Cardinality(ids) |->
        CHOOSE i \in ids : Cardinality({j \in ids : Precedes(place, j, i)}) = k - 1]

Take(rows, n) == SubSeq(rows, 1, IF n < Len(rows) THEN n ELSE Len(rows))

\* FAULTY: without skip: 1.
findManyInclusive(listed, place, cursor, limit) ==
    CASE cursor = NoCursor -> Take(InOrder(listed, place), limit + 1)
      [] cursor \in DOMAIN place \ {NoCursor} ->
            LET from == {i \in listed : ~Precedes(place, i, cursor)}
            IN  Take(InOrder(from, place), limit + 1)
      [] OTHER -> <<>>

\* findMany with cursor, skip: 1 and take: limit + 1.  Prisma looks up where the cursor's
\* row is now, in the table rather than in the list, and skips one row of those from there on.
\* Without such a row the result is empty.
findMany(listed, place, cursor, limit) ==
    CASE cursor = NoCursor -> Take(InOrder(listed, place), limit + 1)
      [] cursor \in DOMAIN place \ {NoCursor} ->
            LET from == {i \in listed : ~Precedes(place, i, cursor)}
            IN  Take(SubSeq(InOrder(from, place), 2, Cardinality(from)), limit + 1)
      [] OTHER -> <<>>

\* FAULTY: the row that is cut off becomes the cursor.
buildPageFromNext(rows, limit) ==
    LET more == Len(rows) > limit IN
    [data |-> Take(rows, limit), nextCursor |-> IF more THEN rows[limit + 1] ELSE NoCursor]

\* The row too many says that there is another page, from the last row of this one.
buildPage(rows, limit) ==
    LET more == Len(rows) > limit IN
    [data |-> Take(rows, limit), nextCursor |-> IF more THEN rows[limit] ELSE NoCursor]
=============================================================================
