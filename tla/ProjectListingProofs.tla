--------------------------- MODULE ProjectListingProofs ---------------------------
(***************************************************************************)
(* Types of ProjectListing; that while none enters a walk delivers no      *)
(* project twice, and while none leaves misses none, if its value of the   *)
(* sort column is its own; for any number of projects, any column, any     *)
(* size of a page, and whatever order the database gives to projects of    *)
(* one value.                                                              *)
(***************************************************************************)
EXTENDS ProjectListing, Sums

(***************************************************************************)
(* Arithmetic of the metadata.                                             *)
(***************************************************************************)
\* There are never more pages than items, but at least one.
LEMMA PagesBounded ==
  ASSUME NEW t \in Nat, NEW l \in Nat \ {0}
  PROVE  (t + l - 1) \div l \in Nat /\ (t # 0 => (t + l - 1) \div l <= t)
                                    /\ (t = 0 => (t + l - 1) \div l = 0)
<1> DEFINE d == (t + l - 1) \div l
<1>1. d \in Nat /\ l * d <= t + l - 1
  OBVIOUS
<1>2. ASSUME t # 0 PROVE d <= t
  <2> SUFFICES ASSUME d >= t + 1 PROVE FALSE
    BY <1>1
  <2>1. l * d >= l * (t + 1)
    BY <1>1
  <2>2. l * (t + 1) = l * t + l
    OBVIOUS
  <2>3. l * t >= t
    OBVIOUS
  <2> QED
    BY <1>1, <2>1, <2>2, <2>3
<1>3. ASSUME t = 0 PROVE d = 0
  BY <1>3
<1> QED
  BY <1>1, <1>2, <1>3

LEMMA TimesMonotone ==
  ASSUME NEW i \in Nat, NEW j \in Nat, i <= j, NEW l \in Nat
  PROVE  i * l \in Nat /\ j * l \in Nat /\ i * l <= j * l
OBVIOUS

(***************************************************************************)
(* Ranks.                                                                  *)
(***************************************************************************)
LEMMA ProjectsFinite == \A S \in SUBSET Projects : IsFiniteSet(S) /\ Cardinality(S) \in 0..MaxProjects
<1>1. IsFiniteSet(Projects) /\ Cardinality(Projects) = MaxProjects
  BY FS_Interval, ListingAssumption DEF Projects
<1> QED
  BY <1>1, FS_Subset, FS_CardinalityType, ListingAssumption

\* The number of projects that come before p in every order.
Rank(p) == Cardinality({q \in rows : Before(q, p)})

LEMMA RankType ==
  ASSUME rows \subseteq Projects, NEW p
  PROVE  Rank(p) \in Nat
<1>1. {q \in rows : Before(q, p)} \in SUBSET Projects
  OBVIOUS
<1> QED
  BY <1>1, ProjectsFinite, ListingAssumption DEF Rank

\* Nobody's rank grows when the set shrinks.
LEMMA RankFalls ==
  ASSUME rows \subseteq Projects, rows' \subseteq rows,
         sort_by' = sort_by, sort_order' = sort_order, NEW p
  PROVE  Rank(p)' <= Rank(p)
<1> DEFINE now  == {q \in rows : Before(q, p)}
           then == {q \in rows' : Before(q, p)'}
<1>1. then \subseteq now /\ now \in SUBSET Projects
  BY DEF Before, Value
<1>2. IsFiniteSet(now)
  BY <1>1, ProjectsFinite
<1>3. Cardinality(then) <= Cardinality(now)
  BY <1>1, <1>2, FS_Subset
<1> QED
  BY <1>3 DEF Rank

\* A project whose value of the sort column is its own has one place: it can be
\* on a page only if that place is, whatever the database does with the others.
LEMMA PlaceOnPage ==
  ASSUME rows \subseteq Projects, sort_by \in Columns,
         NEW offset \in Nat, NEW count \in Nat,
         NEW S \in Selected(offset, count), NEW p \in S, Alone(p)
  PROVE  p \in rows /\ offset <= Rank(p) /\ Rank(p) < offset + count
<1> DEFINE ahead == {q \in rows : Before(q, p)}
<1>1. PICK skipped \in Top(rows, offset) : S \in Top(rows \ skipped, count)
  BY DEF Selected
<1>2. /\ skipped \subseteq rows /\ S \subseteq rows \ skipped /\ p \in rows \ skipped
      /\ \A q \in skipped : ~Before(p, q)
      /\ \A q \in (rows \ skipped) \ S : ~Before(q, p)
  BY <1>1 DEF Top
<1>3. Cardinality(skipped) = offset
  BY <1>1, <1>2 DEF Top
<1>4. /\ IsFiniteSet(S) /\ Cardinality(S) \in Nat /\ Cardinality(S) <= count
      /\ IsFiniteSet(skipped) /\ IsFiniteSet(ahead)
  <2>1. /\ IsFiniteSet(S) /\ Cardinality(S) \in 0..MaxProjects
        /\ IsFiniteSet(skipped) /\ IsFiniteSet(ahead)
    BY <1>2, ProjectsFinite
  <2>2. Cardinality(S) = count \/ (S = rows \ skipped /\ Cardinality(rows \ skipped) < count)
    BY <1>1 DEF Top
  <2>3. Cardinality(S) \in Nat
    BY <2>1, ListingAssumption
  <2>4. Cardinality(S) <= count
    BY <2>2, <2>3
  <2> QED
    BY <2>1, <2>3, <2>4
<1>5. \A q \in rows : q # p => (Before(q, p) <=> ~Before(p, q))
  <2>1. \A q \in rows : Value(q) \in Nat
    BY ListingAssumption DEF Value
  <2>2. \A q \in rows : q # p => Value(q) # Value(p)
    BY DEF Alone, Tied
  <2> QED
    BY <1>2, <2>1, <2>2 DEF Before
<1>6. offset <= Rank(p)
  <2>1. skipped \subseteq ahead
    BY <1>2, <1>5
  <2> QED
    BY <1>3, <1>4, <2>1, FS_Subset DEF Rank
<1>7. Rank(p) < offset + count
  <2>1. ~Before(p, p)
    <3>1. Value(p) \in Nat
      BY <1>2, ListingAssumption DEF Value
    <3> QED
      BY <3>1 DEF Before
  <2>2. ahead \subseteq skipped \cup (S \ {p})
    BY <1>2, <2>1
  <2>3. /\ IsFiniteSet(S \ {p}) /\ Cardinality(S \ {p}) = Cardinality(S) - 1
    BY <1>4, FS_RemoveElement
  <2>4. /\ IsFiniteSet(skipped \cup (S \ {p}))
        /\ Cardinality(skipped \cup (S \ {p})) <= offset + (Cardinality(S) - 1)
    <3>1. skipped \cap (S \ {p}) = {}
      BY <1>2
    <3>2. IsFiniteSet(skipped \cup (S \ {p}))
      BY <1>4, <2>3, FS_Union
    <3>3. Cardinality(skipped \cup (S \ {p})) =
            Cardinality(skipped) + Cardinality(S \ {p}) - Cardinality(skipped \cap (S \ {p}))
      BY <1>4, <2>3, FS_Union
    <3>4. Cardinality(skipped \cap (S \ {p})) = 0
      BY <3>1, FS_EmptySet
    <3> QED
      BY <1>3, <1>4, <2>3, <3>2, <3>3, <3>4
  <2>5. Cardinality(ahead) <= Cardinality(skipped \cup (S \ {p}))
    BY <2>2, <2>4, FS_Subset
  <2>6. Cardinality(ahead) \in Nat /\ Cardinality(skipped \cup (S \ {p})) \in Nat
    BY <1>4, <2>4, FS_CardinalityType
  <2> QED
    BY <1>4, <2>4, <2>5, <2>6 DEF Rank
<1> QED
  BY <1>2, <1>6, <1>7

\* Conversely, when its place is on a page, it is on that page.
LEMMA PageOfPlace ==
  ASSUME rows \subseteq Projects, sort_by \in Columns,
         NEW offset \in Nat, NEW count \in Nat,
         NEW S \in Selected(offset, count), NEW p \in rows, Alone(p),
         offset <= Rank(p), Rank(p) < offset + count
  PROVE  p \in S
<1> DEFINE ahead == {q \in rows : Before(q, p)}
<1>1. PICK skipped \in Top(rows, offset) : S \in Top(rows \ skipped, count)
  BY DEF Selected
<1>2. /\ skipped \subseteq rows /\ S \subseteq rows \ skipped
      /\ \A x \in skipped, q \in rows \ skipped : ~Before(q, x)
      /\ \A x \in S, q \in (rows \ skipped) \ S : ~Before(q, x)
  BY <1>1 DEF Top
<1>3. /\ Cardinality(skipped) = offset \/ (skipped = rows /\ Cardinality(rows) < offset)
      /\ Cardinality(S) = count \/ S = rows \ skipped
  BY <1>1 DEF Top
<1>4. /\ IsFiniteSet(skipped) /\ IsFiniteSet(S) /\ IsFiniteSet(ahead)
      /\ Cardinality(skipped) \in Nat /\ Cardinality(S) \in Nat /\ Rank(p) \in Nat
  <2>1. skipped \in SUBSET Projects /\ S \in SUBSET Projects /\ ahead \in SUBSET Projects
    BY <1>2
  <2> QED
    BY <2>1, ProjectsFinite, RankType, FS_CardinalityType
<1>5. \A q \in rows : q # p => (Before(q, p) <=> ~Before(p, q))
  <2>1. \A q \in rows : Value(q) \in Nat
    BY ListingAssumption DEF Value
  <2>2. \A q \in rows : q # p => Value(q) # Value(p)
    BY DEF Alone, Tied
  <2> QED
    BY <2>1, <2>2 DEF Before
<1>6. p \notin skipped
  <2> SUFFICES ASSUME p \in skipped PROVE FALSE
    OBVIOUS
  <2>1. ~Before(p, p)
    BY ListingAssumption DEF Before, Value
  <2>2. ahead \subseteq skipped \ {p}
    BY <1>2, <2>1
  <2>3. IsFiniteSet(skipped \ {p}) /\ Cardinality(skipped \ {p}) = Cardinality(skipped) - 1
    BY <1>4, FS_RemoveElement
  <2>4. Cardinality(ahead) <= Cardinality(skipped \ {p})
    BY <2>2, <2>3, FS_Subset
  <2>5. Cardinality(skipped) <= offset
    BY <1>3, <1>4
  <2> QED
    BY <1>4, <2>3, <2>4, <2>5 DEF Rank
<1>7. ASSUME p \notin S PROVE FALSE
  <2>1. Cardinality(skipped) = offset /\ Cardinality(S) = count
    BY <1>3, <1>6, <1>7
  <2>2. skipped \cup S \subseteq ahead
    BY <1>2, <1>5, <1>6, <1>7
  <2>3. Cardinality(skipped \cap S) = 0
    BY <1>2, FS_EmptySet
  <2>4. /\ IsFiniteSet(skipped \cup S)
        /\ Cardinality(skipped \cup S) = offset + count
    BY <1>4, <2>1, <2>3, FS_Union
  <2>5. Cardinality(skipped \cup S) <= Cardinality(ahead)
    BY <1>4, <2>2, FS_Subset
  <2> QED
    BY <1>4, <2>4, <2>5 DEF Rank
<1> QED
  BY <1>7

(***************************************************************************)
(* The inductive invariant.                                                *)
(***************************************************************************)
\* How many pages have been delivered at each step of the walk.
PagesInStep ==
  /\ pc \in {"count", "select"} => Len(pages) = page - 1
  /\ pc = "answered" => Len(pages) = page

\* What has been delivered and is still listed ranks below the pages to come,
\* and nothing is listed that was not when the walk began.
RankedBelow ==
  ~entered =>
    /\ rows \subseteq listed
    /\ \A i \in 1..Len(pages) : \A p \in pages[i] \cap rows :
         Alone(p) => Rank(p) < i * limit

IInv == TypeOK /\ PagesInStep /\ RankedBelow /\ NoneRepeated

LEMMA InitOK == Init => IInv
<1> SUFFICES ASSUME Init PROVE IInv
  OBVIOUS
<1>1. TypeOK
  <2>1. 1 \in Projects /\ 1 \in 1..MaxLimit /\ 0 \in 0..MaxProjects
    BY ListingAssumption DEF Projects
  <2>2. <<>> \in Seq(SUBSET Projects) /\ Len(<<>>) = 0
    OBVIOUS
  <2>3. /\ pages \in Seq(SUBSET Projects) /\ Len(pages) <= page
        /\ pc \in {"idle", "count", "select", "answered"} /\ page \in Projects
        /\ limit \in 1..MaxLimit /\ sort_by \in Columns /\ sort_order \in {"asc", "desc"}
        /\ total \in 0..MaxProjects
    BY <2>1, <2>2, ListingAssumption DEF Init
  <2> QED
    BY <2>3 DEF Init, TypeOK
<1> QED
  BY <1>1 DEF Init, IInv, PagesInStep, RankedBelow, NoneRepeated

\* The numbers a step may rely on.
LEMMA Numbers ==
  ASSUME TypeOK
  PROVE  /\ page \in Nat \ {0} /\ limit \in Nat \ {0} /\ total \in Nat
         /\ MaxProjects \in Nat \ {0} /\ Len(pages) \in Nat
         /\ page <= MaxProjects /\ total <= MaxProjects
         /\ \A i \in 1..Len(pages) : pages[i] \subseteq Projects
BY ListingAssumption DEF TypeOK, Projects

\* The walk does not go beyond the number of projects.
LEMMA NextPageExists ==
  ASSUME TypeOK, HasNext
  PROVE  page + 1 \in Projects
<1>1. (total + limit - 1) \div limit \in Nat /\ (total # 0 => (total + limit - 1) \div limit <= total)
      /\ (total = 0 => (total + limit - 1) \div limit = 0)
  BY Numbers, PagesBounded
<1>2. TotalPages \in Nat /\ TotalPages <= MaxProjects
  BY <1>1, Numbers DEF TotalPages
<1> QED
  BY <1>2, Numbers DEF HasNext, Projects

\* While none enters, what is listed now was listed at the beginning, and being
\* alone does not depend on who has left.
LEMMA AloneStays ==
  ASSUME rows \subseteq listed, rows' \subseteq rows, listed' = listed, sort_by' = sort_by, NEW p
  PROVE  Alone(p)' <=> Alone(p)
<1>1. rows \cup listed = listed /\ rows' \cup listed' = listed
  OBVIOUS
<1>2. Tied(p) = {q \in listed : Value(q) = Value(p)}
  BY <1>1 DEF Tied
<1>3. Tied(p)' = {q \in listed : Value(q) = Value(p)}
  BY <1>1 DEF Tied, Value
<1> QED
  BY <1>2, <1>3 DEF Alone

LEMMA SelectOK ==
  ASSUME IInv, Select
  PROVE  IInv'
<1>1. /\ pc = "select" /\ pc' = "answered"
      /\ rows' = rows /\ page' = page /\ limit' = limit
      /\ sort_by' = sort_by /\ sort_order' = sort_order
      /\ total' = total /\ listed' = listed /\ entered' = entered /\ left' = left
      /\ raced' = raced
  BY DEF Select, query, history
<1>2. Len(pages) = page - 1 /\ rows \subseteq Projects /\ TypeOK /\ sort_by \in Columns
  BY <1>1 DEF IInv, PagesInStep, TypeOK
<1>3. PICK S \in PageRows : pages' = Append(pages, S)
  BY DEF Select
<1>4. S \subseteq rows
  BY <1>3 DEF PageRows, Selected, Top
<1>5. /\ pages' \in Seq(SUBSET Projects) /\ Len(pages') = page
      /\ pages'[page] = S /\ \A i \in 1..page - 1 : pages'[i] = pages[i]
  BY <1>2, <1>3, <1>4, Numbers DEF TypeOK
<1>6. TypeOK' /\ PagesInStep'
  BY <1>1, <1>2, <1>5, Numbers DEF TypeOK, PagesInStep
<1>7. \A p \in S : Alone(p) => /\ p \in rows /\ Rank(p) \in Nat
                              /\ (page - 1) * limit <= Rank(p) /\ Rank(p) < page * limit
  <2>1. (page - 1) * limit + limit = page * limit /\ (page - 1) * limit \in Nat /\ limit \in Nat
    BY <1>2, Numbers
  <2>2. S \in Selected((page - 1) * limit, limit)
    BY <1>3 DEF PageRows
  <2>3. \A p \in S : Alone(p) => /\ p \in rows
                                /\ (page - 1) * limit <= Rank(p)
                                /\ Rank(p) < (page - 1) * limit + limit
    BY <1>2, <2>1, <2>2, PlaceOnPage
  <2> QED
    BY <1>2, <2>1, <2>3, RankType
<1>8. \A p : Rank(p)' = Rank(p) /\ (Alone(p)' <=> Alone(p))
  BY <1>1 DEF Rank, Before, Alone, Tied, Value
<1>9. RankedBelow'
  <2>1. ~entered => rows' \subseteq listed'
    BY <1>1 DEF IInv, RankedBelow
  <2> SUFFICES ASSUME ~entered, NEW i \in 1..page, NEW p \in pages'[i] \cap rows, Alone(p)
               PROVE  Rank(p) < i * limit
    BY <1>1, <1>5, <1>8, <2>1 DEF RankedBelow
  <2>2. CASE i = page
    BY <1>5, <1>7, <2>2
  <2>3. CASE i \in 1..page - 1
    BY <1>2, <1>5, <2>3 DEF IInv, RankedBelow
  <2> QED
    BY <1>2, <2>2, <2>3, Numbers
<1>10. NoneRepeated'
  <2> SUFFICES ASSUME ~entered, NEW i \in 1..page, NEW j \in 1..page, i # j,
                      NEW p \in pages'[i] \cap pages'[j], Alone(p)
               PROVE  FALSE
    BY <1>1, <1>5, <1>8 DEF NoneRepeated
  <2>1. ASSUME NEW k \in 1..page - 1, p \in pages[k], p \in S
        PROVE  FALSE
    <3>1. Rank(p) < k * limit
      BY <1>2, <1>7, <2>1 DEF IInv, RankedBelow
    <3>2. k * limit <= (page - 1) * limit /\ k * limit \in Nat /\ (page - 1) * limit \in Nat
      BY <1>2, Numbers, TimesMonotone
    <3> QED
      BY <1>7, <2>1, <3>1, <3>2
  <2>2. CASE i = page
    BY <1>2, <1>5, <2>1, <2>2, Numbers
  <2>3. CASE j = page
    BY <1>2, <1>5, <2>1, <2>3, Numbers
  <2>4. CASE i \in 1..page - 1 /\ j \in 1..page - 1
    BY <1>2, <1>5, <2>4 DEF IInv, NoneRepeated
  <2> QED
    BY <1>2, <2>2, <2>3, <2>4, Numbers
<1> QED
  BY <1>6, <1>9, <1>10 DEF IInv

LEMMA LeaveOK ==
  ASSUME IInv, NEW gone \in Projects, Leave(gone)
  PROVE  IInv'
<1>1. /\ rows' = rows \ {gone} /\ left' = TRUE /\ entered' = entered /\ raced' = raced
      /\ pc' = pc /\ page' = page /\ limit' = limit
      /\ sort_by' = sort_by /\ sort_order' = sort_order
      /\ total' = total /\ pages' = pages /\ listed' = listed
  BY DEF Leave, walk, query
<1>2. TypeOK' /\ PagesInStep'
  BY <1>1 DEF IInv, TypeOK, PagesInStep
<1>3. rows \subseteq Projects /\ rows' \subseteq Projects /\ rows' \subseteq rows
  BY <1>1 DEF IInv, TypeOK
<1>4. \A p : Rank(p) \in Nat /\ Rank(p)' \in Nat /\ Rank(p)' <= Rank(p)
  <2>1. \A p : Rank(p) \in Nat /\ Rank(p)' <= Rank(p)
    BY <1>1, <1>3, RankType, RankFalls
  <2>2. \A p : {q \in rows' : Before(q, p)'} \in SUBSET Projects
    BY <1>3
  <2>3. \A p : Rank(p)' \in Nat
    BY <2>2, ProjectsFinite, ListingAssumption DEF Rank
  <2> QED
    BY <2>1, <2>3
<1>5. ~entered => rows \subseteq listed /\ \A p : Alone(p)' <=> Alone(p)
  BY <1>1, <1>3, AloneStays DEF IInv, RankedBelow
<1>6. RankedBelow'
  <2>1. ~entered => rows' \subseteq listed'
    BY <1>1, <1>3, <1>5
  <2> SUFFICES ASSUME ~entered, NEW i \in 1..Len(pages), NEW p \in pages[i] \cap rows', Alone(p)
               PROVE  Rank(p)' < i * limit
    BY <1>1, <1>5, <2>1 DEF RankedBelow
  <2>2. Rank(p) < i * limit
    BY <1>3 DEF IInv, RankedBelow
  <2>3. i * limit \in Nat
    BY Numbers DEF IInv
  <2> QED
    BY <1>4, <2>2, <2>3
<1>7. NoneRepeated'
  BY <1>1, <1>5 DEF IInv, NoneRepeated
<1> QED
  BY <1>2, <1>6, <1>7 DEF IInv

\* The other steps deliver nothing: they begin a walk, move it on, or forbid
\* nothing any more because a project has entered.
LEMMA OtherStepOK ==
  ASSUME IInv, StartWalk \/ Count \/ NextPage \/ EndWalk \/ \E p \in Projects : Enter(p)
  PROVE  IInv'
<1>1. CASE StartWalk
  <2>1. 1 \in Projects /\ 0 \in 0..MaxProjects
    BY ListingAssumption DEF Projects
  <2>2. <<>> \in Seq(SUBSET Projects) /\ Len(<<>>) = 0
    OBVIOUS
  <2>3. TypeOK'
    <3>1. /\ pages' \in Seq(SUBSET Projects) /\ Len(pages') <= page'
          /\ pc' \in {"idle", "count", "select", "answered"} /\ page' \in Projects
          /\ limit' \in 1..MaxLimit /\ sort_by' \in Columns /\ sort_order' \in {"asc", "desc"}
          /\ total' \in 0..MaxProjects
      BY <1>1, <2>1, <2>2 DEF StartWalk
    <3>2. /\ rows' \subseteq Projects /\ listed' \subseteq Projects
          /\ entered' \in BOOLEAN /\ left' \in BOOLEAN /\ raced' \in BOOLEAN
      BY <1>1 DEF IInv, TypeOK, StartWalk
    <3> QED
      BY <3>1, <3>2 DEF TypeOK
  <2>4. pages' = <<>> /\ page' = 1 /\ pc' = "count" /\ rows' = rows /\ listed' = rows
    BY <1>1 DEF StartWalk
  <2> QED
    BY <2>2, <2>3, <2>4 DEF IInv, PagesInStep, RankedBelow, NoneRepeated
<1>2. CASE Count \/ NextPage \/ EndWalk
  <2>1. /\ rows' = rows /\ pages' = pages /\ listed' = listed /\ entered' = entered
        /\ limit' = limit /\ sort_by' = sort_by /\ sort_order' = sort_order
    BY <1>2 DEF Count, NextPage, EndWalk, query, history
  <2>2. Cardinality(rows) \in 0..MaxProjects
    BY ProjectsFinite DEF IInv, TypeOK
  <2>3. NextPage => page + 1 \in Projects
    BY NextPageExists DEF NextPage, IInv
  <2>4. TypeOK'
    <3>1. CASE Count
      BY <3>1, <2>2 DEF IInv, TypeOK, Count, query
    <3>2. CASE NextPage
      BY <3>2, <2>3, Numbers DEF IInv, TypeOK, NextPage, query, history, Projects
    <3>3. CASE EndWalk
      BY <3>3 DEF IInv, TypeOK, EndWalk, query, history
    <3> QED
      BY <1>2, <3>1, <3>2, <3>3
  <2>5. PagesInStep'
    BY <1>2, Numbers DEF IInv, PagesInStep, Count, NextPage, EndWalk
  <2>6. RankedBelow' /\ NoneRepeated'
    BY <2>1 DEF IInv, RankedBelow, NoneRepeated, Rank, Before, Alone, Tied, Value
  <2> QED
    BY <2>4, <2>5, <2>6 DEF IInv
<1>3. ASSUME NEW p \in Projects, Enter(p)
      PROVE  IInv'
  <2>1. TypeOK' /\ PagesInStep' /\ entered'
    BY <1>3 DEF IInv, TypeOK, PagesInStep, Enter, walk, query
  <2> QED
    BY <2>1 DEF IInv, RankedBelow, NoneRepeated
<1> QED
  BY <1>1, <1>2, <1>3

LEMMA NextOK == IInv /\ [Next]_vars => IInv'
<1> SUFFICES ASSUME IInv, [Next]_vars PROVE IInv'
  OBVIOUS
<1>1. CASE UNCHANGED vars
  BY <1>1 DEF vars, walk, query, history, IInv, TypeOK, PagesInStep, RankedBelow, NoneRepeated,
             Rank, Before, Alone, Tied, Value
<1>2. CASE Next
  BY <1>2, OtherStepOK, SelectOK, LeaveOK DEF Next
<1> QED
  BY <1>1, <1>2

THEOREM Invariance == Spec => []IInv
<1> QED
  BY InitOK, NextOK, PTL DEF Spec

\* Types; above all, a walk never asks for a page beyond the number of projects.
THEOREM TypeCorrect == Spec => []TypeOK
<1>1. IInv => TypeOK
  BY DEF IInv
<1> QED
  BY <1>1, Invariance, PTL

\* While no project enters, none is delivered twice whose value of the sort
\* column is its own.
THEOREM DeliveredOnce == Spec => []NoneRepeated
<1>1. IInv => NoneRepeated
  BY DEF IInv
<1> QED
  BY <1>1, Invariance, PTL

(***************************************************************************)
(* Nothing is missed: a second invariant.                                  *)
(***************************************************************************)
\* While none leaves, what was listed at the beginning has been delivered or
\* ranks on a page to come.
Awaited ==
  ~left => /\ listed \subseteq rows
           /\ \A p \in listed : Alone(p) => p \in Seen \/ Len(pages) * limit <= Rank(p)

\* The count of a request is that of the rows it selects from, if none enters
\* in between.
Counted ==
  pc \in {"select", "answered"} /\ ~left /\ ~raced => Cardinality(rows) = total

\* Ranks only grow when projects enter, and whoever is alone was so before.
LEMMA RankGrows ==
  ASSUME rows' \subseteq Projects, rows \subseteq rows',
         listed' = listed, sort_by' = sort_by, sort_order' = sort_order, NEW p
  PROVE  Rank(p) <= Rank(p)' /\ Rank(p) \in Nat /\ Rank(p)' \in Nat
         /\ (Alone(p)' => Alone(p))
<1> DEFINE now  == {q \in rows : Before(q, p)}
           then == {q \in rows' : Before(q, p)'}
<1>1. now \subseteq then /\ now \in SUBSET Projects /\ then \in SUBSET Projects
  BY DEF Before, Value
<1>2. IsFiniteSet(then) /\ Cardinality(now) \in Nat /\ Cardinality(then) \in Nat
  BY <1>1, ProjectsFinite, ListingAssumption
<1>3. Cardinality(now) <= Cardinality(then)
  BY <1>1, <1>2, FS_Subset
<1>4. Alone(p)' => Alone(p)
  BY DEF Alone, Tied, Value
<1> QED
  BY <1>2, <1>3, <1>4 DEF Rank

LEMMA AwaitedSelect ==
  ASSUME IInv, Awaited, Select
  PROVE  Awaited'
<1>1. /\ pc = "select" /\ rows' = rows /\ page' = page /\ limit' = limit
      /\ sort_by' = sort_by /\ sort_order' = sort_order
      /\ listed' = listed /\ left' = left
  BY DEF Select, query, history
<1>2. Len(pages) = page - 1 /\ rows \subseteq Projects /\ TypeOK /\ sort_by \in Columns
  BY <1>1 DEF IInv, PagesInStep, TypeOK
<1>3. PICK S \in PageRows : pages' = Append(pages, S)
  BY DEF Select
<1>4. S \subseteq rows
  BY <1>3 DEF PageRows, Selected, Top
<1>5. /\ Len(pages') = page /\ pages'[page] = S
      /\ \A i \in 1..page - 1 : pages'[i] = pages[i]
  BY <1>2, <1>3, <1>4, Numbers DEF TypeOK
<1>6. Seen \cup S \subseteq Seen'
  <2>1. Seen = UNION {pages[i] : i \in 1..page - 1} /\ Seen' = UNION {pages'[i] : i \in 1..page}
    BY <1>2, <1>5 DEF Seen
  <2>2. page \in 1..page /\ 1..page - 1 \subseteq 1..page
    BY <1>2, Numbers
  <2> QED
    BY <1>5, <2>1, <2>2
<1>7. \A p : Rank(p)' = Rank(p) /\ (Alone(p)' <=> Alone(p))
  BY <1>1 DEF Rank, Before, Alone, Tied, Value
<1> SUFFICES ASSUME ~left, NEW p \in listed, Alone(p), p \notin Seen,
                    Rank(p) < page * limit
             PROVE  p \in S
  <2>1. \A p : Rank(p) \in Nat
    BY <1>2, RankType
  <2>2. page * limit \in Nat
    BY <1>2, Numbers
  <2> QED
    BY <1>1, <1>5, <1>6, <1>7, <2>1, <2>2 DEF Awaited
<1>8. p \in rows /\ (page - 1) * limit <= Rank(p)
  BY <1>2 DEF Awaited
<1>9. (page - 1) * limit + limit = page * limit /\ (page - 1) * limit \in Nat /\ limit \in Nat
  BY <1>2, Numbers
<1>10. S \in Selected((page - 1) * limit, limit)
  BY <1>3 DEF PageRows
<1> QED
  BY <1>2, <1>8, <1>9, <1>10, PageOfPlace

LEMMA AwaitedNext == IInv /\ Awaited /\ [Next]_vars => Awaited'
<1> SUFFICES ASSUME IInv, Awaited, [Next]_vars PROVE Awaited'
  OBVIOUS
<1>1. CASE Select
  BY <1>1, AwaitedSelect
<1>2. CASE StartWalk
  <2>1. pages' = <<>> /\ Len(pages') = 0 /\ rows' = rows /\ listed' = rows
        /\ limit' \in Nat
    BY <1>2, ListingAssumption DEF StartWalk
  <2>2. \A p : {q \in rows' : Before(q, p)'} \in SUBSET Projects
    BY <2>1 DEF IInv, TypeOK
  <2>3. \A p : Rank(p)' \in Nat
    BY <2>2, ProjectsFinite, ListingAssumption DEF Rank
  <2>4. Len(pages') * limit' = 0
    <3>1. \A l \in Nat : 0 * l = 0
      OBVIOUS
    <3> QED
      BY <2>1, <3>1
  <2> QED
    BY <2>1, <2>3, <2>4 DEF Awaited
<1>3. CASE Count \/ NextPage \/ EndWalk \/ UNCHANGED vars
  <2>1. /\ rows' = rows /\ pages' = pages /\ listed' = listed /\ left' = left
        /\ limit' = limit /\ sort_by' = sort_by /\ sort_order' = sort_order
    BY <1>3 DEF Count, NextPage, EndWalk, vars, walk, query, history
  <2> QED
    BY <2>1 DEF Awaited, Seen, Rank, Before, Alone, Tied, Value
<1>4. ASSUME NEW e \in Projects, Enter(e)
      PROVE  Awaited'
  <2>1. /\ rows' = rows \cup {e} /\ left' = left /\ limit' = limit
        /\ sort_by' = sort_by /\ sort_order' = sort_order
        /\ pages' = pages /\ listed' = listed
    BY <1>4 DEF Enter, walk, query
  <2>2. rows' \subseteq Projects /\ rows \subseteq rows'
    BY <2>1 DEF IInv, TypeOK
  <2>3. \A p : /\ Rank(p) <= Rank(p)' /\ Rank(p) \in Nat /\ Rank(p)' \in Nat
               /\ (Alone(p)' => Alone(p))
    BY <2>1, <2>2, RankGrows
  <2>4. Len(pages) * limit \in Nat /\ Seen' = Seen
    BY <2>1, Numbers DEF IInv, Seen
  <2> QED
    BY <2>1, <2>3, <2>4 DEF Awaited
<1>5. ASSUME NEW p \in Projects, Leave(p)
      PROVE  Awaited'
  BY <1>5 DEF Leave, Awaited
<1> QED
  BY <1>1, <1>2, <1>3, <1>4, <1>5 DEF Next

LEMMA CountedNext == IInv /\ Counted /\ [Next]_vars => Counted'
<1> SUFFICES ASSUME IInv, Counted, [Next]_vars PROVE Counted'
  OBVIOUS
<1>1. CASE Count
  BY <1>1 DEF Count, Counted
<1>2. CASE StartWalk \/ NextPage \/ EndWalk
  BY <1>2 DEF StartWalk, NextPage, EndWalk, Counted
<1>3. CASE Select \/ UNCHANGED vars
  BY <1>3 DEF Select, vars, walk, history, Counted
<1>4. CASE \E p \in Projects : Enter(p) \/ Leave(p)
  BY <1>4 DEF Enter, Leave, Counted
<1> QED
  BY <1>1, <1>2, <1>3, <1>4 DEF Next

\* The pages of the metadata hold as many items as it counts.
LEMMA PagesSuffice ==
  ASSUME TypeOK, ~HasNext
  PROVE  total <= page * limit
<1> DEFINE needed == (total + limit - 1) \div limit
<1>1. needed \in Nat /\ total <= needed * limit
  BY Numbers
<1>2. needed <= page
  BY <1>1, Numbers DEF HasNext, TotalPages
<1> HIDE DEF needed
<1>3. needed * limit <= page * limit /\ needed * limit \in Nat /\ page * limit \in Nat
  BY <1>1, <1>2, Numbers, TimesMonotone
<1> QED
  BY <1>1, <1>3, Numbers

\* While no project leaves, a walk ends without having missed one that it found
\* at its beginning and whose value of the sort column is its own, unless one
\* entered between the two statements of its last request.
THEOREM MissesNone == Spec => []NoneMissed
<1>1. Init => Awaited /\ Counted
  <2> SUFFICES ASSUME Init PROVE Awaited /\ Counted
    OBVIOUS
  <2>1. Len(pages) = 0 /\ limit = 1 /\ listed = rows /\ rows \subseteq Projects /\ pc = "idle"
    BY DEF Init
  <2>2. \A p : Rank(p) \in Nat
    BY <2>1, RankType
  <2> QED
    BY <2>1, <2>2 DEF Awaited, Counted
<1>2. IInv /\ Awaited /\ Counted => NoneMissed
  <2> SUFFICES ASSUME IInv, Awaited, Counted, Complete, ~left, ~raced,
                      NEW p \in listed, Alone(p), p \notin Seen
               PROVE  FALSE
    BY DEF NoneMissed
  <2>1. Len(pages) = page /\ TypeOK /\ rows \subseteq Projects /\ Cardinality(rows) = total
    BY DEF IInv, PagesInStep, Complete, Counted, TypeOK
  <2>2. p \in rows /\ page * limit <= Rank(p)
    BY <2>1 DEF Awaited
  <2>3. total <= page * limit
    BY <2>1, PagesSuffice DEF Complete
  <2>4. Rank(p) < Cardinality(rows)
    <3>1. ~Before(p, p)
      BY <2>1, <2>2, ListingAssumption DEF Before, Value, TypeOK
    <3>2. {q \in rows : Before(q, p)} \subseteq rows \ {p}
      BY <3>1
    <3>3. IsFiniteSet(rows) /\ Cardinality(rows) \in Nat
      BY <2>1, ProjectsFinite, FS_CardinalityType
    <3>4. IsFiniteSet(rows \ {p}) /\ Cardinality(rows \ {p}) = Cardinality(rows) - 1
      BY <2>2, <3>3, FS_RemoveElement
    <3>5. Cardinality({q \in rows : Before(q, p)}) <= Cardinality(rows \ {p})
      BY <3>2, <3>4, FS_Subset
    <3>6. Rank(p) \in Nat /\ Rank(p) = Cardinality({q \in rows : Before(q, p)})
      BY <2>1, RankType DEF Rank
    <3> QED
      BY <3>3, <3>4, <3>5, <3>6
  <2> QED
    BY <2>1, <2>2, <2>3, <2>4, RankType, Numbers
<1> QED
  BY <1>1, <1>2, AwaitedNext, CountedNext, Invariance, PTL DEF Spec

(***************************************************************************)
(* A quiet walk: how many rows of one value are among the first k.         *)
(***************************************************************************)
LEMMA DisjointUnion ==
  ASSUME NEW X, NEW Y, IsFiniteSet(X), IsFiniteSet(Y), X \cap Y = {}
  PROVE  /\ Cardinality(X \cup Y) = Cardinality(X) + Cardinality(Y)
         /\ Cardinality(X) \in Nat /\ Cardinality(Y) \in Nat
<1>1. Cardinality(X) \in Nat /\ Cardinality(Y) \in Nat BY FS_CardinalityType
<1>2. Cardinality(X \cup Y) = Cardinality(X) + Cardinality(Y) - Cardinality(X \cap Y)
  BY FS_Union
<1>3. Cardinality(X \cap Y) = 0 BY FS_EmptySet
<1> QED BY <1>1, <1>2, <1>3

Ties(p) == {q \in rows : Value(q) = Value(p)}

\* Of the rows with the value of p, those that rank among the first k.
First(p, k) ==
  IF k <= Rank(p) THEN 0
  ELSE IF Rank(p) + Cardinality(Ties(p)) <= k THEN Cardinality(Ties(p))
  ELSE k - Rank(p)

\* The values of the sort column are numbers: Before orders the rows, and those
\* of one value stand in the same relation to every other row.
LEMMA Order ==
  ASSUME rows \subseteq Projects, sort_by \in Columns,
         NEW x \in rows, NEW y \in rows
  PROVE  /\ Value(x) = Value(y) => ~Before(x, y) /\ ~Before(y, x)
         /\ Before(x, y) \/ Before(y, x) \/ Value(x) = Value(y)
         /\ ~(Before(x, y) /\ Before(y, x))
         /\ \A z \in rows :
              /\ Before(x, y) /\ (Before(y, z) \/ Value(y) = Value(z)) => Before(x, z)
              /\ (Before(x, y) \/ Value(x) = Value(y)) /\ Before(y, z) => Before(x, z)
<1>1. \A q \in rows : Value(q) \in Nat
  BY ListingAssumption DEF Value
<1> QED BY <1>1 DEF Before

LEMMA PlacesType ==
  ASSUME rows \subseteq Projects, sort_by \in Columns, NEW p \in rows
  PROVE  /\ Rank(p) \in Nat /\ Cardinality(Ties(p)) \in Nat \ {0}
         /\ IsFiniteSet(rows) /\ Cardinality(rows) \in Nat
         /\ Rank(p) + Cardinality(Ties(p)) <= Cardinality(rows)
         /\ \A K \in SUBSET rows : IsFiniteSet(K) /\ Cardinality(K) \in Nat
<1> DEFINE A == {q \in rows : Before(q, p)}
           T == Ties(p)
<1>1. A \in SUBSET rows /\ T \in SUBSET rows /\ p \in T /\ A \cap T = {}
  BY Order DEF Ties
<1>2. \A K \in SUBSET rows : IsFiniteSet(K) /\ Cardinality(K) \in Nat
  <2>1. \A K \in SUBSET rows : K \in SUBSET Projects OBVIOUS
  <2> QED BY <2>1, ProjectsFinite, FS_CardinalityType
<1>3. Rank(p) = Cardinality(A) BY DEF Rank
<1> HIDE DEF A, T
<1>4. /\ IsFiniteSet(A) /\ IsFiniteSet(T) /\ IsFiniteSet(rows) /\ Cardinality(A) \in Nat
      /\ Cardinality(T) \in Nat /\ Cardinality(rows) \in Nat
  BY <1>1, <1>2
<1>5. Cardinality(T) # 0 BY <1>1, <1>4, FS_EmptySet
<1>6. Cardinality(A \cup T) = Cardinality(A) + Cardinality(T)
  BY <1>1, <1>4, DisjointUnion
<1>7. Cardinality(A \cup T) <= Cardinality(rows)
  BY <1>1, <1>4, FS_Subset
<1> QED BY <1>2, <1>3, <1>4, <1>5, <1>6, <1>7 DEF T

\* Whatever the database puts first, of the rows of one value it takes as many
\* as have their places among the first k.
LEMMA FirstOfTies ==
  ASSUME rows \subseteq Projects, sort_by \in Columns, NEW p \in rows,
         NEW k \in Nat, NEW K \in Top(rows, k)
  PROVE  Cardinality(K \cap Ties(p)) = First(p, k)
<1> DEFINE A == {q \in rows : Before(q, p)}
           T == Ties(p)
<1>1. /\ K \subseteq rows
      /\ Cardinality(K) = k \/ (K = rows /\ Cardinality(rows) < k)
      /\ \A x \in K, y \in rows \ K : ~Before(y, x)
  BY DEF Top
<1>2. A \subseteq rows /\ T \subseteq rows /\ p \in T /\ A \cap T = {}
  BY Order DEF Ties
<1>3. \A x \in T : Value(x) = Value(p) /\ x \in rows BY DEF Ties
<1>4. Rank(p) = Cardinality(A) BY DEF Rank
<1>5. \A q \in rows : q \in A <=> Before(q, p) OBVIOUS
<1>6. \A q \in rows : q \in T <=> Value(q) = Value(p) BY DEF Ties
<1>7. First(p, k) = IF k <= Cardinality(A) THEN 0
                    ELSE IF Cardinality(A) + Cardinality(T) <= k THEN Cardinality(T)
                    ELSE k - Cardinality(A)
  BY <1>4 DEF First
<1>8. /\ \A L \in SUBSET rows : IsFiniteSet(L) /\ Cardinality(L) \in Nat
      /\ Cardinality(A) + Cardinality(T) <= Cardinality(rows)
  BY <1>4, PlacesType
<1> SUFFICES Cardinality(K \cap T) = First(p, k) OBVIOUS
<1> HIDE DEF A, T
<1>9. K \cap T # {} => A \subseteq K
  <2> SUFFICES ASSUME NEW x \in K \cap T, NEW y \in A, y \notin K PROVE FALSE
    OBVIOUS
  <2>1. x \in rows /\ y \in rows /\ Before(y, p) /\ Value(p) = Value(x)
    BY <1>2, <1>3, <1>5
  <2>2. Before(y, x) BY <2>1, Order
  <2> QED BY <1>1, <2>1, <2>2
<1>10. T \subseteq K \/ K \subseteq A \cup T
  <2> SUFFICES ASSUME NEW x \in T, x \notin K, NEW z \in K, z \notin A \cup T PROVE FALSE
    OBVIOUS
  <2>1. x \in rows /\ z \in rows /\ Before(p, z) /\ Value(x) = Value(p)
    BY <1>1, <1>2, <1>3, <1>5, <1>6, Order
  <2>2. Before(x, z) BY <2>1, Order
  <2> QED BY <1>1, <2>1, <2>2
<1>11. T \subseteq K => A \subseteq K BY <1>2, <1>9
<1>12. /\ Cardinality(A) \in Nat /\ Cardinality(T) \in Nat /\ Cardinality(K) \in Nat
       /\ Cardinality(K \cap T) \in Nat /\ IsFiniteSet(A) /\ IsFiniteSet(T) /\ IsFiniteSet(K)
       /\ IsFiniteSet(K \cap T) /\ Cardinality(rows) \in Nat
  BY <1>1, <1>2, <1>8
<1>13. CASE T \subseteq K
  <2>1. K \cap T = T /\ A \cup T \subseteq K BY <1>11, <1>13
  <2>2. Cardinality(A \cup T) = Cardinality(A) + Cardinality(T)
    BY <1>2, <1>12, DisjointUnion
  <2>3. Cardinality(A \cup T) <= Cardinality(K) BY <1>12, <2>1, FS_Subset
  <2>4. Cardinality(A) + Cardinality(T) <= k BY <1>1, <1>8, <1>12, <2>2, <2>3
  <2>5. Cardinality(T) # 0 BY <1>2, <1>12, FS_EmptySet
  <2> QED BY <1>7, <1>12, <2>1, <2>4, <2>5
<1>14. CASE ~(T \subseteq K)
  <2>1. Cardinality(K) = k /\ K \subseteq A \cup T BY <1>1, <1>2, <1>10, <1>14
  <2>2. CASE K \cap T = {}
    <3>1. K \subseteq A BY <2>1, <2>2
    <3>2. k <= Cardinality(A) BY <1>12, <2>1, <3>1, FS_Subset
    <3> QED BY <1>7, <2>2, <3>2, FS_EmptySet
  <2>3. CASE K \cap T # {}
    <3>1. K = A \cup (K \cap T) /\ A \cap (K \cap T) = {}
      BY <1>2, <1>9, <2>1, <2>3
    <3>2. Cardinality(A \cup (K \cap T)) = Cardinality(A) + Cardinality(K \cap T)
      BY <1>12, <3>1, DisjointUnion
    <3>3. k = Cardinality(A) + Cardinality(K \cap T) BY <2>1, <3>1, <3>2
    <3>4. Cardinality(K \cap T) <= Cardinality(T) BY <1>12, FS_Subset
    <3>5. Cardinality(K \cap T) # 0 BY <1>12, <2>3, FS_EmptySet
    <3> QED BY <1>7, <1>12, <3>3, <3>4, <3>5
  <2> QED BY <2>2, <2>3
<1> QED BY <1>13, <1>14

\* What is skipped and what is selected after it come first together.
LEMMA TopOfTop ==
  ASSUME rows \subseteq Projects, sort_by \in Columns, NEW o \in Nat, NEW c \in Nat,
         NEW K \in Top(rows, o), NEW S \in Top(rows \ K, c)
  PROVE  K \cup S \in Top(rows, o + c) /\ K \cap S = {}
<1>1. /\ K \subseteq rows /\ S \subseteq rows \ K
      /\ Cardinality(K) = o \/ (K = rows /\ Cardinality(rows) < o)
      /\ Cardinality(S) = c \/ (S = rows \ K /\ Cardinality(rows \ K) < c)
      /\ \A x \in K, y \in rows \ K : ~Before(y, x)
      /\ \A x \in S, y \in (rows \ K) \ S : ~Before(y, x)
  BY DEF Top
<1>2. /\ IsFiniteSet(K) /\ IsFiniteSet(S) /\ IsFiniteSet(rows) /\ IsFiniteSet(rows \ K)
      /\ Cardinality(K) \in Nat /\ Cardinality(S) \in Nat /\ Cardinality(rows) \in Nat
      /\ Cardinality(rows \ K) \in Nat
  <2>1. K \in SUBSET Projects /\ S \in SUBSET Projects /\ rows \in SUBSET Projects
          /\ rows \ K \in SUBSET Projects
    BY <1>1
  <2> QED BY <2>1, ProjectsFinite, FS_CardinalityType
<1>3. K \cap S = {} BY <1>1
<1>4. Cardinality(K \cup S) = Cardinality(K) + Cardinality(S)
  BY <1>2, <1>3, DisjointUnion
<1>5. \A x \in K \cup S, y \in rows \ (K \cup S) : ~Before(y, x)
  BY <1>1
<1>6. Cardinality(K \cup S) = o + c \/ (K \cup S = rows /\ Cardinality(rows) < o + c)
  <2>1. CASE K = rows /\ Cardinality(rows) < o
    <3>1. K \cup S = rows BY <1>1, <2>1
    <3> QED BY <1>2, <2>1, <3>1
  <2>2. CASE Cardinality(K) = o /\ Cardinality(S) = c
    BY <1>4, <2>2
  <2>3. CASE Cardinality(K) = o /\ S = rows \ K /\ Cardinality(rows \ K) < c
    <3>1. K \cup S = rows BY <1>1, <2>3
    <3> QED BY <1>2, <1>4, <2>3, <3>1
  <2> QED BY <1>1, <2>1, <2>2, <2>3
<1> QED BY <1>1, <1>3, <1>5, <1>6 DEF Top

\* A page takes of the rows of one value those whose places are on it.
LEMMA ShareOfPage ==
  ASSUME rows \subseteq Projects, sort_by \in Columns, NEW p \in rows,
         NEW o \in Nat, NEW c \in Nat, NEW S \in Selected(o, c)
  PROVE  /\ Cardinality(S \cap Ties(p)) \in Nat
         /\ First(p, o) + Cardinality(S \cap Ties(p)) = First(p, o + c)
         /\ First(p, o) \in Nat /\ First(p, o + c) \in Nat
<1>1. PICK K \in Top(rows, o) : S \in Top(rows \ K, c)
  BY DEF Selected
<1>2. K \cup S \in Top(rows, o + c) /\ K \cap S = {} BY <1>1, TopOfTop
<1> DEFINE X == K \cap Ties(p)
           Y == S \cap Ties(p)
<1>3. Cardinality(X) = First(p, o) BY <1>1, FirstOfTies
<1>4. Cardinality((K \cup S) \cap Ties(p)) = First(p, o + c)
  <2>1. o + c \in Nat OBVIOUS
  <2> QED BY <1>2, <2>1, FirstOfTies
<1>5. (K \cup S) \cap Ties(p) = X \cup Y /\ X \cap Y = {} BY <1>2
<1>6. X \in SUBSET rows /\ Y \in SUBSET rows BY DEF Ties
<1>7. IsFiniteSet(X) /\ IsFiniteSet(Y) /\ Cardinality(X) \in Nat /\ Cardinality(Y) \in Nat
  BY <1>6, PlacesType
<1> HIDE DEF X, Y
<1>8. Cardinality(X \cup Y) = Cardinality(X) + Cardinality(Y)
  BY <1>5, <1>7, DisjointUnion
<1>9. First(p, o) + Cardinality(Y) = First(p, o + c) BY <1>3, <1>4, <1>5, <1>8
<1>10. First(p, o) \in Nat /\ First(p, o + c) \in Nat BY <1>3, <1>7, <1>9
<1> QED BY <1>7, <1>9, <1>10 DEF Y

\* The sum after one more summand.
LEMMA SumAppend ==
  ASSUME NEW n \in Nat, NEW f, NEW g,
         \A i \in 1..n : f[i] \in Nat /\ g[i] = f[i], g[n + 1] \in Nat
  PROVE  SumFunctionOnSet(g, 1..n + 1) = SumFunctionOnSet(f, 1..n) + g[n + 1]
<1>1. IsFiniteSet(1..n) BY FS_Interval
<1>2. n + 1 \notin 1..n /\ 1..n + 1 = (1..n) \cup {n + 1} OBVIOUS
<1>3. Natural(f, 1..n) /\ Natural(g, 1..n) BY DEF Natural
<1>4. SumFunctionOnSet(f, 1..n) = SumFunctionOnSet(g, 1..n) BY <1>1, <1>3, SumAgrees
<1>5. SumFunctionOnSet(g, (1..n) \cup {n + 1}) = SumFunctionOnSet(g, 1..n) + g[n + 1]
  <2>1. ASSUME NEW A, NEW x, A = 1..n, x = n + 1
        PROVE  SumFunctionOnSet(g, A \cup {x}) = SumFunctionOnSet(g, A) + g[x]
    BY <1>1, <1>2, <1>3, <2>1, SumAddElement
  <2> QED BY <2>1
<1> QED BY <1>2, <1>4, <1>5

Shares(p) == [i \in 1..Len(pages) |-> Cardinality(pages[i] \cap Ties(p))]

\* While nothing enters or leaves, the i-th page holds rows whose places reach
\* into it, and of each value as many rows have been delivered as have their
\* places on the pages so far.
Quiet ==
  ~entered /\ ~left =>
    /\ rows = listed /\ ~raced
    /\ \A i \in 1..Len(pages) :
         /\ pages[i] \subseteq rows
         /\ \A p \in pages[i] : /\ Rank(p) < i * limit
                                /\ (i - 1) * limit < Rank(p) + Cardinality(Ties(p))
    /\ \A p \in rows : SumFunctionOnSet(Shares(p), 1..Len(pages)) = First(p, Len(pages) * limit)

LEMMA QuietSelect ==
  ASSUME IInv, Quiet, Select
  PROVE  Quiet'
<1>1. /\ pc = "select" /\ rows' = rows /\ page' = page /\ limit' = limit
      /\ sort_by' = sort_by /\ sort_order' = sort_order
      /\ listed' = listed /\ left' = left /\ entered' = entered /\ raced' = raced
  BY DEF Select, query, history
<1>2. Len(pages) = page - 1 /\ rows \subseteq Projects /\ TypeOK /\ sort_by \in Columns
  BY <1>1 DEF IInv, PagesInStep, TypeOK
<1>3. PICK S \in PageRows : pages' = Append(pages, S)
  BY DEF Select
<1>4. S \subseteq rows
  BY <1>3 DEF PageRows, Selected, Top
<1> DEFINE n == page - 1
           o == n * limit
<1>5. /\ n \in Nat /\ Len(pages) = n /\ n + 1 = page /\ limit \in Nat
      /\ o \in Nat /\ o + limit = page * limit
  BY <1>2, Numbers
<1>6. /\ Len(pages') = page /\ pages'[page] = S
      /\ \A i \in 1..n : pages'[i] = pages[i]
  BY <1>2, <1>3, <1>4, Numbers DEF TypeOK
<1>7. S \in Selected(o, limit)
  BY <1>3 DEF PageRows
<1>8. \A p : /\ Ties(p)' = Ties(p) /\ Rank(p)' = Rank(p)
             /\ \A k : First(p, k)' = First(p, k)
  BY <1>1 DEF First, Ties, Rank, Before, Value
<1> HIDE DEF n, o
<1> SUFFICES ASSUME ~entered, ~left
             PROVE  /\ \A i \in 1..page :
                         /\ pages'[i] \subseteq rows
                         /\ \A p \in pages'[i] :
                              /\ Rank(p) < i * limit
                              /\ (i - 1) * limit < Rank(p) + Cardinality(Ties(p))
                    /\ \A p \in rows :
                         SumFunctionOnSet(Shares(p)', 1..page) = First(p, page * limit)
  BY <1>1, <1>6, <1>8 DEF Quiet
<1>9. /\ \A i \in 1..n :
           /\ pages[i] \subseteq rows
           /\ \A p \in pages[i] : /\ Rank(p) < i * limit
                                  /\ (i - 1) * limit < Rank(p) + Cardinality(Ties(p))
      /\ \A p \in rows : SumFunctionOnSet(Shares(p), 1..n) = First(p, o)
  BY <1>5 DEF Quiet, o
<1>10. \A p \in rows : /\ Cardinality(S \cap Ties(p)) \in Nat
                       /\ First(p, o) + Cardinality(S \cap Ties(p)) = First(p, o + limit)
                       /\ First(p, o) \in Nat /\ First(p, o + limit) \in Nat
  BY <1>2, <1>5, <1>7, ShareOfPage
<1>11. ASSUME NEW p \in S
       PROVE  Rank(p) < o + limit /\ o < Rank(p) + Cardinality(Ties(p))
  <2>1. p \in rows /\ p \in S \cap Ties(p) BY <1>4 DEF Ties
  <2>2. /\ Rank(p) \in Nat /\ Cardinality(Ties(p)) \in Nat
        /\ \A K \in SUBSET rows : IsFiniteSet(K) /\ Cardinality(K) \in Nat
    BY <1>2, <2>1, PlacesType
  <2>3. S \cap Ties(p) \in SUBSET rows BY <1>4
  <2>4. Cardinality(S \cap Ties(p)) # 0 BY <2>1, <2>2, <2>3, FS_EmptySet
  <2>5. First(p, o) < First(p, o + limit) BY <1>10, <2>1, <2>4
  <2> QED BY <1>5, <2>2, <2>5 DEF First
<1>12. ASSUME NEW i \in 1..page
       PROVE  /\ pages'[i] \subseteq rows
              /\ \A p \in pages'[i] : /\ Rank(p) < i * limit
                                      /\ (i - 1) * limit < Rank(p) + Cardinality(Ties(p))
  <2>1. CASE i = page
    <3>1. (i - 1) * limit = o BY <2>1 DEF o, n
    <3> QED BY <1>4, <1>5, <1>6, <1>11, <2>1, <3>1
  <2>2. CASE i \in 1..n BY <1>6, <1>9, <2>2
  <2> QED BY <1>5, <2>1, <2>2
<1>13. ASSUME NEW p \in rows
       PROVE  SumFunctionOnSet(Shares(p)', 1..page) = First(p, page * limit)
  <2>1. \A i \in 1..n : Shares(p)[i] = Cardinality(pages[i] \cap Ties(p))
    BY <1>5 DEF Shares
  <2>2. \A i \in 1..page : Shares(p)'[i] = Cardinality(pages'[i] \cap Ties(p))
    BY <1>6, <1>8 DEF Shares
  <2>3. \A i \in 1..n : i \in 1..page BY <1>5
  <2>4. \A K \in SUBSET rows : Cardinality(K) \in Nat BY <1>2, PlacesType
  <2>5. \A i \in 1..n : pages[i] \cap Ties(p) \in SUBSET rows BY <1>9
  <2>6. \A i \in 1..n : Shares(p)[i] \in Nat /\ Shares(p)'[i] = Shares(p)[i]
    BY <1>6, <2>1, <2>2, <2>3, <2>4, <2>5
  <2>7. page \in 1..page BY <1>5
  <2>8. Shares(p)'[n + 1] = Cardinality(S \cap Ties(p)) BY <1>5, <1>6, <2>2, <2>7
  <2> DEFINE f == Shares(p)
             g == Shares(p)'
  <2>9. /\ \A i \in 1..n : f[i] \in Nat /\ g[i] = f[i]
        /\ g[n + 1] = Cardinality(S \cap Ties(p)) /\ g[n + 1] \in Nat
    BY <1>10, <2>6, <2>8
  <2>10. SumFunctionOnSet(f, 1..n) = First(p, o) BY <1>9
  <2> SUFFICES SumFunctionOnSet(g, 1..page) = First(p, page * limit)
    OBVIOUS
  <2> HIDE DEF f, g
  <2>11. SumFunctionOnSet(g, 1..n + 1) = SumFunctionOnSet(f, 1..n) + g[n + 1]
    BY <1>5, <2>9, SumAppend
  <2> QED BY <1>5, <1>10, <2>9, <2>10, <2>11
<1> QED BY <1>12, <1>13

LEMMA QuietNext == IInv /\ Quiet /\ [Next]_vars => Quiet'
<1> SUFFICES ASSUME IInv, Quiet, [Next]_vars PROVE Quiet'
  OBVIOUS
<1>1. CASE Select BY <1>1, QuietSelect
<1>2. CASE StartWalk
  <2>1. /\ pages' = <<>> /\ Len(pages') = 0 /\ rows' = rows /\ listed' = rows
        /\ limit' \in Nat /\ sort_by' \in Columns /\ ~raced' /\ ~entered' /\ ~left'
    BY <1>2, ListingAssumption DEF StartWalk
  <2>2. \A l \in Nat : 0 * l = 0 OBVIOUS
  <2>3. Len(pages') * limit' = 0 /\ 1..Len(pages') = {}
    <3>1. 1..0 = {} OBVIOUS
    <3> QED BY <2>1, <2>2, <3>1
  <2>4. ASSUME NEW p \in rows' PROVE First(p, 0)' = 0
    <3>1. {q \in rows' : Before(q, p)'} \in SUBSET Projects BY <2>1 DEF IInv, TypeOK
    <3>2. Rank(p)' \in Nat BY <3>1, ProjectsFinite, ListingAssumption DEF Rank
    <3> QED BY <3>2 DEF First
  <2>5. ASSUME NEW p \in rows'
        PROVE  SumFunctionOnSet(Shares(p)', 1..Len(pages')) = First(p, Len(pages) * limit)'
    <3>1. SumFunctionOnSet(Shares(p)', {}) = 0 BY SumEmpty
    <3> QED BY <2>3, <2>4, <3>1 DEF First
  <2> QED BY <2>1, <2>3, <2>5 DEF Quiet
<1>3. CASE Count \/ NextPage \/ EndWalk \/ UNCHANGED vars
  <2>1. /\ rows' = rows /\ pages' = pages /\ listed' = listed /\ left' = left
        /\ entered' = entered /\ (raced' = raced \/ raced' = FALSE)
        /\ limit' = limit /\ sort_by' = sort_by /\ sort_order' = sort_order
    BY <1>3 DEF Count, NextPage, EndWalk, vars, walk, query, history
  <2> QED BY <2>1 DEF Quiet, Shares, First, Ties, Rank, Before, Value
<1>4. ASSUME NEW p \in Projects, Enter(p) \/ Leave(p) PROVE Quiet'
  BY <1>4 DEF Enter, Leave, Quiet
<1> QED BY <1>1, <1>2, <1>3, <1>4 DEF Next

LEMMA QuietInit == Init => Quiet
<1> SUFFICES ASSUME Init PROVE Quiet
  OBVIOUS
<1>1. /\ pages = <<>> /\ Len(pages) = 0 /\ limit = 1 /\ listed = rows /\ ~raced
      /\ rows \subseteq Projects
  BY DEF Init
<1>2. Len(pages) * limit = 0 /\ 1..Len(pages) = {} BY <1>1
<1>3. \A p \in rows : First(p, 0) = 0 BY <1>1, RankType DEF First
<1>4. \A p \in rows : SumFunctionOnSet(Shares(p), {}) = 0 BY SumEmpty
<1> QED BY <1>1, <1>2, <1>3, <1>4 DEF Quiet

\* Places of rows that come before others end where the others' begin.
LEMMA PlacesInOrder ==
  ASSUME rows \subseteq Projects, sort_by \in Columns, NEW p \in rows, NEW q \in rows,
         Before(q, p)
  PROVE  Rank(q) + Cardinality(Ties(q)) <= Rank(p)
<1> DEFINE A == {x \in rows : Before(x, q)}
           T == Ties(q)
           B == {x \in rows : Before(x, p)}
<1>1. A \subseteq B /\ T \subseteq B /\ A \cap T = {} /\ B \in SUBSET rows
  BY Order DEF Ties
<1>2. Rank(q) = Cardinality(A) /\ Rank(p) = Cardinality(B) BY DEF Rank
<1> HIDE DEF A, T, B
<1>3. /\ IsFiniteSet(A) /\ IsFiniteSet(T) /\ IsFiniteSet(B)
      /\ Cardinality(A) \in Nat /\ Cardinality(T) \in Nat /\ Cardinality(B) \in Nat
  <2>1. A \in SUBSET rows /\ T \in SUBSET rows BY <1>1
  <2> QED BY <1>1, <2>1, PlacesType
<1>4. Cardinality(A \cup T) = Cardinality(A) + Cardinality(T) BY <1>1, <1>3, DisjointUnion
<1>5. Cardinality(A \cup T) <= Cardinality(B)
  <2>1. A \cup T \subseteq B BY <1>1
  <2> QED BY <1>3, <2>1, FS_Subset
<1> QED BY <1>2, <1>4, <1>5 DEF T

\* While nothing enters or leaves, a walk that has come to its end has delivered,
\* in order, as many rows of each value of the sort column as there are.
THEOREM WalkIsExact == Spec => []QuietWalkExact
<1>1. Init => Counted BY DEF Init, Counted
<1>2. IInv /\ Quiet /\ Counted => QuietWalkExact
  <2> SUFFICES ASSUME IInv, Quiet, Counted, Complete, ~entered, ~left
               PROVE  /\ \A p \in rows :
                           SumFunctionOnSet([i \in 1..Len(pages) |->
                                               Cardinality(pages[i] \cap Tied(p))],
                                            1..Len(pages))
                             = Cardinality(Tied(p))
                      /\ \A i, j \in 1..Len(pages) : i < j =>
                           \A p \in pages[i], q \in pages[j] : ~Before(q, p)
    BY DEF QuietWalkExact
  <2>1. /\ rows = listed /\ ~raced /\ rows \subseteq Projects /\ sort_by \in Columns
        /\ limit \in Nat /\ Len(pages) = page /\ page \in Nat /\ TypeOK
    BY Numbers DEF Quiet, IInv, PagesInStep, Complete, TypeOK
  <2>2. \A p : Tied(p) = Ties(p) BY <2>1 DEF Tied, Ties
  <2>3. Cardinality(rows) = total BY <2>1 DEF Counted, Complete
  <2>4. total <= page * limit BY <2>1, PagesSuffice DEF Complete
  <2>5. page * limit \in Nat BY <2>1
  <2>6. ASSUME NEW p \in rows PROVE First(p, page * limit) = Cardinality(Ties(p))
    <3>1. /\ Rank(p) \in Nat /\ Cardinality(Ties(p)) \in Nat \ {0}
          /\ Cardinality(rows) \in Nat
          /\ Rank(p) + Cardinality(Ties(p)) <= Cardinality(rows)
      BY <2>1, PlacesType
    <3> DEFINE k == page * limit
    <3>2. k \in Nat /\ Cardinality(rows) <= k BY <2>3, <2>4, <2>5
    <3> HIDE DEF k
    <3>3. First(p, k) = Cardinality(Ties(p)) BY <3>1, <3>2 DEF First
    <3> QED BY <3>3 DEF k
  <2>7. ASSUME NEW p \in rows
        PROVE  SumFunctionOnSet([i \in 1..Len(pages) |-> Cardinality(pages[i] \cap Tied(p))],
                                1..Len(pages))
                 = Cardinality(Tied(p))
    <3>1. SumFunctionOnSet(Shares(p), 1..Len(pages)) = First(p, Len(pages) * limit)
      BY DEF Quiet
    <3>2. Shares(p) = [i \in 1..Len(pages) |-> Cardinality(pages[i] \cap Tied(p))]
      BY <2>2 DEF Shares
    <3>3. First(p, Len(pages) * limit) = Cardinality(Tied(p)) BY <2>1, <2>2, <2>6
    <3> QED BY <3>1, <3>2, <3>3
  <2>8. ASSUME NEW i \in 1..Len(pages), NEW j \in 1..Len(pages), i < j,
               NEW p \in pages[i], NEW q \in pages[j], Before(q, p)
        PROVE  FALSE
    <3>1. /\ p \in rows /\ q \in rows /\ Rank(p) < i * limit
          /\ (j - 1) * limit < Rank(q) + Cardinality(Ties(q))
      BY DEF Quiet
    <3>2. Rank(q) + Cardinality(Ties(q)) <= Rank(p) BY <2>1, <2>8, <3>1, PlacesInOrder
    <3>3. i \in Nat /\ j - 1 \in Nat /\ i <= j - 1 BY <2>1, <2>8
    <3>4. i * limit <= (j - 1) * limit /\ i * limit \in Nat /\ (j - 1) * limit \in Nat
      BY <2>1, <3>3, TimesMonotone
    <3>5. Rank(p) \in Nat /\ Rank(q) \in Nat /\ Cardinality(Ties(q)) \in Nat
      BY <2>1, <3>1, PlacesType
    <3> QED BY <3>1, <3>2, <3>4, <3>5
  <2> QED BY <2>7, <2>8
<1> QED
  BY <1>1, <1>2, QuietInit, QuietNext, CountedNext, Invariance, PTL DEF Spec
================================================================================
