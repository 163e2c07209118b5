----------------------------- MODULE ProjectListing -----------------------------
(***************************************************************************)
(* The paginated list of projects: a client walks through GET /projects    *)
(* page by page, as far as the metadata of each answer tells it to, while  *)
(* other requests make projects enter and leave the list.  A request       *)
(* counts and selects in two statements, each with a snapshot of its own.  *)
(*                                                                         *)
(* Projects are numbered in the order of created_at, by which the list is  *)
(* sorted unless sort_by names another column; a project whose creation    *)
(* commits late enters in the middle.  Another column may have one value   *)
(* in several rows: their order is then the database's choice, and may be  *)
(* another one in the next statement.                                      *)
(***************************************************************************)
EXTENDS Naturals, FiniteSets, FiniteSetsExt, Sequences

CONSTANTS MaxProjects,   \* projects an execution can hold (bound)
          MaxLimit,      \* items per page a client may ask for
          Columns,       \* columns of projects that sort_by may name
          Key            \* their values, which no request changes

Projects == 1..MaxProjects

ASSUME ListingAssumption ==
  /\ MaxProjects \in Nat \ {0} /\ MaxLimit \in Nat \ {0}
  /\ "created_at" \in Columns
  /\ Key \in [Columns -> [Projects -> Nat]]
  /\ \A p \in Projects : Key["created_at"][p] = p

VARIABLES
  rows,        \* projects that match the filter and are not deleted
  pc,          \* the walk: its step
  page, limit, sort_by, sort_order, \* the parameters of its request
  total,       \* total_items, counted by the request
  pages,       \* the pages delivered so far
  listed,      \* history: the projects listed when the walk began
  entered, left, \* history: projects have entered or left since
  raced        \* history: one has entered since the request counted

query   == <<limit, sort_by, sort_order>>
walk    == <<pc, page, query, total, pages, listed>>
history == <<entered, left, raced>>
vars    == <<rows, walk, history>>

TypeOK ==
  /\ rows \subseteq Projects
  /\ pc \in {"idle", "count", "select", "answered"}
  /\ page \in Projects /\ limit \in 1..MaxLimit
  /\ sort_by \in Columns /\ sort_order \in {"asc", "desc"}
  /\ total \in 0..MaxProjects
  /\ pages \in Seq(SUBSET Projects) /\ Len(pages) <= page
  /\ listed \subseteq Projects
  /\ entered \in BOOLEAN /\ left \in BOOLEAN /\ raced \in BOOLEAN

Init ==
  /\ rows \in SUBSET Projects
  /\ pc = "idle" /\ page = 1
  /\ limit = 1 /\ sort_by = "created_at" /\ sort_order = "desc"
  /\ total = 0 /\ pages = <<>> /\ listed = rows
  /\ entered = FALSE /\ left = FALSE /\ raced = FALSE

(***************************************************************************)
(* The queries and the metadata.                                           *)
(***************************************************************************)
Value(p) == Key[sort_by][p]
Before(p, q) ==
  IF sort_order = "desc" THEN Value(p) > Value(q) ELSE Value(p) < Value(q)

\* ORDER BY: what may come first among R, n rows if there are so many.
Top(R, n) ==
  {T \in SUBSET R : /\ Cardinality(T) = n \/ (T = R /\ Cardinality(R) < n)
                    /\ \A p \in T, q \in R \ T : ~Before(q, p)}

\* OFFSET offset LIMIT count.
Selected(offset, count) ==
  UNION {Top(rows \ skipped, count) : skipped \in Top(rows, offset)}

\* Mutants: the pages are numbered from zero; one item more is fetched, to see
\* whether there is a next page, and delivered.
PageRowsFromZeroMutant == Selected(page * limit, limit)
PageRowsMutant == Selected((page - 1) * limit, limit + 1)
PageRows == Selected((page - 1) * limit, limit)

\* Mutant: the last, incomplete page is not counted.
TotalPagesMutant == IF total < limit THEN 1 ELSE total \div limit
TotalPages ==
  LET needed == (total + limit - 1) \div limit
  IN IF needed > 1 THEN needed ELSE 1

\* Mutant: the last page has a successor.
HasNextMutant == page <= TotalPages
HasNext == page < TotalPages

(***************************************************************************)
(* The walk of the client and the handler of its requests.                 *)
(***************************************************************************)
StartWalk ==
  /\ pc = "idle"
  /\ page' = 1 /\ limit' \in 1..MaxLimit
  /\ sort_by' \in Columns /\ sort_order' \in {"asc", "desc"}
  /\ pages' = <<>> /\ listed' = rows /\ total' = 0
  /\ entered' = FALSE /\ left' = FALSE /\ raced' = FALSE
  /\ pc' = "count"
  /\ UNCHANGED rows

Count ==
  /\ pc = "count"
  /\ total' = Cardinality(rows)
  /\ raced' = FALSE
  /\ pc' = "select"
  /\ UNCHANGED <<rows, page, query, pages, listed, entered, left>>

Select ==
  /\ pc = "select"
  /\ \E S \in PageRows : pages' = Append(pages, S)
  /\ pc' = "answered"
  /\ UNCHANGED <<rows, page, query, total, listed, history>>

NextPage ==
  /\ pc = "answered" /\ HasNext
  /\ page' = page + 1
  /\ pc' = "count"
  /\ UNCHANGED <<rows, query, total, pages, listed, history>>

EndWalk ==
  /\ pc = "answered" /\ ~HasNext
  /\ pc' = "idle"
  /\ UNCHANGED <<rows, page, query, total, pages, listed, history>>

(***************************************************************************)
(* Other requests commit.                                                  *)
(***************************************************************************)
\* A creation, or a status change into the filter.
Enter(p) ==
  /\ p \notin rows
  /\ rows' = rows \cup {p}
  /\ entered' = TRUE /\ raced' = TRUE
  /\ UNCHANGED <<walk, left>>

\* A deletion, or a status change out of the filter.
Leave(p) ==
  /\ p \in rows
  /\ rows' = rows \ {p}
  /\ left' = TRUE
  /\ UNCHANGED <<walk, entered, raced>>

Next ==
  \/ StartWalk \/ Count \/ Select \/ NextPage \/ EndWalk
  \/ \E p \in Projects : Enter(p) \/ Leave(p)

Spec == Init /\ [][Next]_vars

(***************************************************************************)
(* What the list promises.                                                 *)
(***************************************************************************)
Seen == UNION {pages[i] : i \in 1..Len(pages)}
Complete == pc = "answered" /\ ~HasNext

\* The projects that the sort column does not tell from p.
Tied(p) == {q \in rows \cup listed : Value(q) = Value(p)}
Alone(p) == Tied(p) \subseteq {p}

\* While nothing enters or leaves, the pages are in order and hold as many rows
\* of each value as there are: every project once when its value is its own,
\* while of projects with one value some may come twice and others never.
QuietWalkExact ==
  Complete /\ ~entered /\ ~left =>
    /\ \A p \in rows :
         SumFunctionOnSet([i \in 1..Len(pages) |-> Cardinality(pages[i] \cap Tied(p))],
                          1..Len(pages))
           = Cardinality(Tied(p))
    /\ \A i, j \in 1..Len(pages) : i < j =>
         \A p \in pages[i], q \in pages[j] : ~Before(q, p)

\* Projects that enter push others to later pages and hide none of them: a walk
\* misses a project of its beginning only if one has left, or if one entered
\* between the two statements of the last request, or if another one has its
\* value of the sort column.
NoneMissed ==
  Complete /\ ~left /\ ~raced => {p \in listed : Alone(p)} \subseteq Seen

\* Projects that leave pull others to earlier pages: a walk delivers a project
\* twice only if one has entered, or if another one has its value of the sort
\* column.
NoneRepeated ==
  ~entered => \A i, j \in 1..Len(pages) : i # j =>
    \A p \in pages[i] \cap pages[j] : ~Alone(p)
================================================================================
