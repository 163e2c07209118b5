---------------------------- MODULE DashboardProofs ----------------------------
(***************************************************************************)
(* What the figures of an overview are worth, for any books, days, limits  *)
(* and number of commits between its statements.                           *)
(*                                                                         *)
(* Each figure is exact when it is read.  What is left of that while       *)
(* others commit depends on what they commit, and the histories of the     *)
(* request say what they did: the inductive invariant states it for every  *)
(* statement the request still has to send.                                *)
(***************************************************************************)
EXTENDS Dashboard, Sums

--------------------------------------------------------------------------------
\* A month has at least 28 days and at most 31, and December has 31.
LEMMA DaysInBounds ==
  ASSUME NEW y \in Nat, NEW m \in 1..12
  PROVE  DaysIn(y, m) \in 28..31 /\ DaysIn(y, 12) = 31
  BY DEF DaysIn

\* LastDay is the day before the first of the next month: the day that
\* has the number of days of the month, the end of December included.
LEMMA LastDayIs ==
  ASSUME NEW r, IsDate(r)
  PROVE  LastDay(r) = Date(r.year, r.month, DaysIn(r.year, r.month))
<1>1. /\ r.year \in Nat \ {0} /\ r.month \in 1..12 /\ r.day \in 1..31
  BY DEF IsDate
<1>2. CASE r.month = 12
  <2>1. NextMonth(r) = Date(r.year + 1, 1, 1)
    BY <1>2 DEF NextMonth
  <2>2. LastDay(r) = Date(r.year, 12, 31)
    BY <1>1, <2>1 DEF LastDay, DayBefore, Date
  <2>3. QED BY <1>1, <1>2, <2>2, DaysInBounds
<1>3. CASE r.month # 12
  <2>1. NextMonth(r) = Date(r.year, r.month + 1, 1)
    BY <1>3 DEF NextMonth
  <2>2. r.month + 1 > 1 /\ (r.month + 1) - 1 = r.month
    BY <1>1
  <2>3. QED BY <1>1, <2>1, <2>2 DEF LastDay, DayBefore, Date
<1>4. QED BY <1>2, <1>3

\* month_range and is_same_month agree: a date lies between the two ends of a
\* month's range, both included, exactly when it is of that year and month.
THEOREM MonthRangeExact ==
  ASSUME NEW r, IsDate(r), NEW e, IsDate(e)
  PROVE  InMonthRange(e, r) <=> IsSameMonth(e, r)
<1>1. /\ r.year \in Nat /\ r.month \in 1..12 /\ r.day \in 1..31
      /\ e.year \in Nat /\ e.month \in 1..12 /\ e.day \in 1..31
      /\ e.day <= DaysIn(e.year, e.month)
  BY DEF IsDate
<1>2. /\ FirstDay(r).year = r.year /\ FirstDay(r).month = r.month
      /\ FirstDay(r).day = 1
  BY DEF FirstDay, Date
<1>3. /\ LastDay(r).year = r.year /\ LastDay(r).month = r.month
      /\ LastDay(r).day = DaysIn(r.year, r.month)
  BY LastDayIs DEF Date
<1>4. DaysIn(r.year, r.month) \in Nat /\ DaysIn(e.year, e.month) \in Nat
  BY <1>1, DaysInBounds
<1>5. ASSUME IsSameMonth(e, r) PROVE InMonthRange(e, r)
  BY <1>1, <1>2, <1>3, <1>5 DEF IsSameMonth, InMonthRange, NotAfter
<1>6. ASSUME InMonthRange(e, r) PROVE IsSameMonth(e, r)
  BY <1>1, <1>2, <1>3, <1>6 DEF IsSameMonth, InMonthRange, NotAfter
<1>7. QED BY <1>5, <1>6

\* The ranges of successive months meet without a gap: the day after the last
\* day of a month is the first day of the next one.
THEOREM MonthsTile ==
  ASSUME NEW r, IsDate(r)
  PROVE  DayAfter(LastDay(r)) = NextMonth(r)
<1>1. r.year \in Nat /\ r.month \in 1..12
  BY DEF IsDate
<1>2. /\ LastDay(r).year = r.year /\ LastDay(r).month = r.month
      /\ LastDay(r).day = DaysIn(r.year, r.month)
  BY LastDayIs DEF Date
<1>3. ~(LastDay(r).day < DaysIn(LastDay(r).year, LastDay(r).month))
  BY <1>1, <1>2, DaysInBounds
<1>4. QED BY <1>1, <1>2, <1>3 DEF DayAfter, NextMonth

\* A day that lies between one of a month and another of it is of that month.
LEMMA BetweenSameMonth ==
  ASSUME NEW e, IsDate(e), NEW f, IsDate(f), NEW t, IsDate(t),
         IsSameMonth(e, t), NotAfter(e, f), NotAfter(f, t)
  PROVE  IsSameMonth(f, t)
BY DEF IsDate, IsSameMonth, NotAfter

LEMMA NotAfterDayAfter ==
  ASSUME NEW e, IsDate(e), NEW t, IsDate(t), NotAfter(e, t)
  PROVE  NotAfter(e, DayAfter(t))
<1>1. /\ e.year \in Nat /\ e.month \in Nat /\ e.day \in Nat
      /\ t.year \in Nat /\ t.month \in Nat /\ t.day \in Nat
  BY DEF IsDate
<1>2. CASE t.day < DaysIn(t.year, t.month)
  <2>1. DayAfter(t) = Date(t.year, t.month, t.day + 1) BY <1>2 DEF DayAfter
  <2> QED BY <1>1, <2>1 DEF NotAfter, Date
<1>3. CASE ~(t.day < DaysIn(t.year, t.month)) /\ t.month < 12
  <2>1. DayAfter(t) = Date(t.year, t.month + 1, 1) BY <1>3 DEF DayAfter
  <2> QED BY <1>1, <2>1 DEF NotAfter, Date
<1>4. CASE ~(t.day < DaysIn(t.year, t.month)) /\ ~(t.month < 12)
  <2>1. DayAfter(t) = Date(t.year + 1, 1, 1) BY <1>4 DEF DayAfter
  <2> QED BY <1>1, <2>1 DEF NotAfter, Date
<1> QED BY <1>2, <1>3, <1>4

--------------------------------------------------------------------------------
LEMMA MinIsLeast ==
  ASSUME NEW m \in Nat, NEW n \in Nat
  PROVE  /\ Min({m, n}) \in {m, n}
         /\ Min({m, n}) <= m /\ Min({m, n}) <= n
<1>1. \E x \in {m, n} : \A y \in {m, n} : x =< y OBVIOUS
<1> QED BY <1>1, Zenon DEF Min

\* The books keep their types, and what was recorded stays recorded.
LEMMA BooksKeepType ==
  ASSUME BooksTypeOK, BooksNext
  PROVE  BooksTypeOK' /\ Recorded \subseteq Recorded' /\ known \subseteq known'
<1> DEFINE Kept == BooksTypeOK' /\ Recorded \subseteq Recorded' /\ known \subseteq known'
<1> USE DEF BooksTypeOK, Recorded
<1>1. ASSUME NEW p \in Projects, Open(p) PROVE Kept
  BY <1>1 DEF Open, Statuses
<1>2. ASSUME NEW p \in Projects, Delete(p) PROVE Kept
  BY <1>2 DEF Delete
<1>3. ASSUME NEW p \in Projects, NEW s \in Statuses, Move(p, s)
      PROVE  Kept
  BY <1>3 DEF Move
<1>4. ASSUME NEW x \in Payments, Remove(x) PROVE Kept
  BY <1>4 DEF Remove
<1>5. ASSUME NEW x \in Payments, NEW t \in Terms, Amend(x, t)
      PROVE  Kept
  BY <1>5 DEF Amend
<1>6. ASSUME NEW x \in Payments, NEW p \in Projects, NEW t \in Terms, Record(x, p, t)
      PROVE  Kept
  BY <1>6 DEF Record
<1> QED BY <1>1, <1>2, <1>3, <1>4, <1>5, <1>6 DEF BooksNext

\* Payments are dated, their amounts natural, and there are finitely many.
LEMMA PaymentFacts ==
  ASSUME BooksTypeOK
  PROVE  /\ IsFiniteSet(live) /\ IsFiniteSet(Visible)
         /\ \A x \in Recorded : IsDate(terms[x].paid_at) /\ terms[x].amount \in Nat
<1>1. live \in SUBSET Payments /\ Visible \in SUBSET Projects
  BY DEF BooksTypeOK, Recorded, Visible
<1>2. IsFiniteSet(live) /\ IsFiniteSet(Visible)
  BY <1>1, DashboardAssumption, FS_Subset
<1>3. \A x \in Recorded : IsDate(terms[x].paid_at) /\ terms[x].amount \in Nat
  BY DashboardAssumption DEF BooksTypeOK, Terms
<1> QED BY <1>2, <1>3

LEMMA DashboardSum ==
  ASSUME BooksTypeOK, NEW T \in SUBSET live, NEW S \in SUBSET T
  PROVE  /\ Sum(S) \in Nat /\ Sum(T) \in Nat
         /\ Sum(S) <= Sum(T)
         /\ Sum(S) > 0 => S # {}
<1> DEFINE f(Q) == [x \in Q |-> terms[x].amount]
<1>1. IsFiniteSet(T) /\ IsFiniteSet(S)
  <2>1. IsFiniteSet(T) BY PaymentFacts, FS_Subset
  <2> QED BY <2>1, FS_Subset
<1>2. Natural(f(S), S) /\ Natural(f(T), T) /\ Natural(f(T), S)
  BY PaymentFacts DEF Natural, Recorded
<1>3. \A x \in S : f(S)[x] = f(T)[x] OBVIOUS
<1>4. Sum(S) = SumFunctionOnSet(f(S), S) /\ Sum(T) = SumFunctionOnSet(f(T), T)
  BY DEF Sum
<1> HIDE DEF f
<1>5. SumFunctionOnSet(f(S), S) = SumFunctionOnSet(f(T), S)
  BY <1>1, <1>2, <1>3, SumAgrees
<1>6. SumFunctionOnSet(f(T), S) <= SumFunctionOnSet(f(T), T)
  BY <1>1, <1>2, SumMonotone
<1>7. SumFunctionOnSet(f(S), S) \in Nat /\ SumFunctionOnSet(f(T), T) \in Nat
  BY <1>1, <1>2, SumNatural
<1>8. S = {} => SumFunctionOnSet(f(S), S) = 0
  BY SumEmpty
<1> QED BY <1>4, <1>5, <1>6, <1>7, <1>8

--------------------------------------------------------------------------------
\* Statements that come after the one a figure is read by.
AfterCounts   == {"total", "month", "recent_projects", "recent_payments", "answer"}
AfterTotal    == {"month", "recent_projects", "recent_payments", "answer"}
AfterMonth    == {"recent_projects", "recent_payments", "answer"}
AfterProjects == {"recent_payments", "answer"}

\* Nothing has changed: every figure read so far is the one of the books.
FiguresExact ==
  ~changed =>
    /\ pc \in AfterCounts => \A s \in Statuses : counts[s] = CountOf(s)
    /\ pc \in AfterTotal => total = Sum(live)
    /\ pc \in AfterMonth => month = Sum(OfThisMonth)
    /\ pc \in AfterProjects => projects \in Top(Visible, limit, Newer)
    /\ pc = "answer" => payments \in RecentPayments(limit)

\* Nothing has entered since the total: what is left is no more than it was.
TotalCovers ==
  ~entered =>
    /\ pc = "month" => Sum(live) <= total
    /\ pc \in AfterMonth => month <= total

PaidThisMonth(S) == \E x \in S : IsSameMonth(terms[x].paid_at, today)

\* Nothing was withdrawn since the month's sum: a payment it counted is there.
MonthStands ==
  ~withdrawn /\ month > 0 =>
    /\ pc \in {"recent_projects", "recent_payments"} => PaidThisMonth(live)
    /\ pc = "answer" /\ limit > 0 => PaidThisMonth(payments)

OverviewInv == TypeOK /\ FiguresExact /\ TotalCovers /\ MonthStands

LEMMA InitHolds == ASSUME Init PROVE OverviewInv
<1>1. BooksTypeOK
  BY DEF Init, BooksInit, BooksTypeOK, Recorded, Statuses
<1>2. Recorded = {} BY DEF Init, BooksInit, Recorded
<1>3. NoCounts \in [Statuses -> Nat] BY DEF NoCounts
<1>4. 0 \in 0..MaxEdits BY DashboardAssumption
<1>5. /\ today \in Days /\ pc = "idle" /\ limit = 0 /\ counts = NoCounts
      /\ total = 0 /\ month = 0 /\ projects = {} /\ payments = {}
      /\ changed = FALSE /\ entered = FALSE /\ withdrawn = FALSE /\ edits = 0
  BY DEF Init
<1>6. TypeOK BY <1>1, <1>2, <1>3, <1>4, <1>5 DEF TypeOK, Labels
<1> QED BY <1>5, <1>6
  DEF OverviewInv, FiguresExact, TotalCovers, MonthStands, AfterCounts,
      AfterTotal, AfterMonth, AfterProjects

--------------------------------------------------------------------------------
\* The types of an overview, while the books change under it.
LEMMA KeepsTypes ==
  ASSUME TypeOK, BooksTypeOK', UNCHANGED request,
         Recorded \subseteq Recorded', known \subseteq known',
         today' \in Days, \A x \in Recorded' : NotAfter(terms'[x].paid_at, today'),
         <<changed, entered, withdrawn>>' \in BOOLEAN \X BOOLEAN \X BOOLEAN,
         edits' \in 0..MaxEdits
  PROVE  TypeOK'
BY DEF TypeOK, request, figures

\* A commit of another request, or midnight: the books change, the figures stay.
LEMMA OthersKeepTypes ==
  ASSUME TypeOK, Others
  PROVE  /\ TypeOK' /\ UNCHANGED request
         /\ pc # "idle" => changed'
<1> USE DEF Happens
<1>1. UNCHANGED request /\ (pc # "idle" => changed' /\ edits < MaxEdits)
  BY DEF Others, CommitProject, CommitPayment, CommitAmendment, CommitRemoval, Midnight
<1>2. /\ <<changed, entered, withdrawn>>' \in BOOLEAN \X BOOLEAN \X BOOLEAN
      /\ edits' \in 0..MaxEdits
  <2>1. PICK en \in BOOLEAN, wi \in BOOLEAN : Happens(en, wi)
    BY DEF Others, CommitProject, CommitPayment, CommitAmendment, CommitRemoval, Midnight
  <2>2. /\ <<changed, entered, withdrawn>> \in BOOLEAN \X BOOLEAN \X BOOLEAN
        /\ edits \in 0..MaxEdits /\ MaxEdits \in Nat
    BY DashboardAssumption DEF TypeOK
  <2>3. CASE pc = "idle"
    BY <2>1, <2>2, <2>3 DEF history
  <2>4. CASE pc # "idle"
    <3>1. edits' = edits + 1 /\ edits < MaxEdits BY <2>1, <2>4
    <3>2. edits' \in 0..MaxEdits BY <2>2, <3>1
    <3>3. changed' \in BOOLEAN /\ entered' \in BOOLEAN /\ withdrawn' \in BOOLEAN
      BY <2>1, <2>2, <2>4, Zenon
    <3> QED BY <3>2, <3>3
  <2> QED BY <2>3, <2>4
<1>3. BooksTypeOK BY DEF TypeOK
<1>d. today \in Days /\ \A x \in Recorded : NotAfter(terms[x].paid_at, today)
  BY DEF TypeOK
<1> DEFINE Dated == \A x \in Recorded : NotAfter(terms[x].paid_at, today)
<1>4. CASE CommitProject
  <2>1. BooksNext /\ UNCHANGED <<live, trashed, terms, today>>
    BY <1>4 DEF CommitProject, BooksNext, Open, Delete, Move
  <2> QED BY <1>1, <1>2, <1>3, <1>d, <2>1, BooksKeepType, KeepsTypes DEF Recorded
<1>5. CASE CommitPayment
  <2>1. PICK x \in Payments, p \in Projects, t \in Terms : NotFuture(t) /\ Record(x, p, t)
    BY <1>5 DEF CommitPayment
  <2>2. BooksNext /\ UNCHANGED today BY <1>5, <2>1 DEF CommitPayment, BooksNext
  <2>3. /\ Recorded' = Recorded \cup {x}
        /\ terms' = [terms EXCEPT ![x] = t] /\ terms \in [Payments -> Terms \cup {NoTerms}]
    BY <1>3, <2>1 DEF Record, Recorded, BooksTypeOK
  <2>4. terms'[x] = t /\ \A y \in Payments \ {x} : terms'[y] = terms[y] BY <2>3
  <2>5. Recorded \subseteq Payments BY <1>3 DEF BooksTypeOK
  <2>6. Dated' BY <1>d, <2>1, <2>2, <2>3, <2>4, <2>5 DEF NotFuture
  <2> QED BY <1>1, <1>2, <1>3, <1>d, <2>2, <2>6, BooksKeepType, KeepsTypes
<1>6. CASE CommitAmendment
  <2>1. PICK x \in Payments, t \in Terms : NotFuture(t) /\ Amend(x, t)
    BY <1>6 DEF CommitAmendment
  <2>2. BooksNext /\ UNCHANGED today BY <1>6, <2>1 DEF CommitAmendment, BooksNext
  <2>3. /\ Recorded' = Recorded
        /\ terms' = [terms EXCEPT ![x] = t] /\ terms \in [Payments -> Terms \cup {NoTerms}]
    BY <1>3, <2>1 DEF Amend, Recorded, BooksTypeOK
  <2>4. terms'[x] = t /\ \A y \in Payments \ {x} : terms'[y] = terms[y] BY <2>3
  <2>5. Recorded \subseteq Payments BY <1>3 DEF BooksTypeOK
  <2>6. Dated' BY <1>d, <2>1, <2>2, <2>3, <2>4, <2>5 DEF NotFuture
  <2> QED BY <1>1, <1>2, <1>3, <1>d, <2>2, <2>6, BooksKeepType, KeepsTypes
<1>7. CASE CommitRemoval
  <2>1. BooksNext /\ UNCHANGED <<terms, today>> /\ Recorded' = Recorded
    BY <1>7 DEF CommitRemoval, BooksNext, Remove, Recorded
  <2> QED BY <1>1, <1>2, <1>3, <1>d, <2>1, BooksKeepType, KeepsTypes
<1>8. CASE Midnight
  <2>1. UNCHANGED books /\ today' = DayAfter(today) /\ today' \in Days
    BY <1>8 DEF Midnight
  <2>2. BooksTypeOK' /\ Recorded' = Recorded /\ known' = known
    BY <1>3, <2>1 DEF books, BooksTypeOK, Recorded
  <2>3. IsDate(today) /\ \A x \in Recorded : IsDate(terms[x].paid_at)
    BY <1>3, <1>d, DashboardAssumption, PaymentFacts
  <2>4. Dated' BY <1>d, <2>1, <2>2, <2>3, NotAfterDayAfter DEF books
  <2> QED BY <1>1, <1>2, <2>1, <2>2, <2>4, KeepsTypes
<1> QED BY <1>4, <1>5, <1>6, <1>7, <1>8 DEF Others

LEMMA OthersHold == ASSUME OverviewInv, Others PROVE OverviewInv'
<1> USE DEF AfterCounts, AfterTotal, AfterMonth, AfterProjects
<1>1. TypeOK /\ BooksTypeOK /\ TypeOK' /\ BooksTypeOK'
  BY OthersKeepTypes DEF OverviewInv, TypeOK
<1>2. /\ pc' = pc /\ limit' = limit /\ counts' = counts /\ total' = total
      /\ month' = month /\ projects' = projects /\ payments' = payments
      /\ pc # "idle" => changed'
  BY <1>1, OthersKeepTypes DEF request, figures
<1>3. FiguresExact'
  BY <1>2 DEF FiguresExact
<1>4. TotalCovers'
  <2>1. SUFFICES ASSUME ~entered', pc \in AfterTotal
                 PROVE  /\ pc = "month" => Sum(live)' <= total
                        /\ pc \in AfterMonth => month <= total
    BY <1>2 DEF TotalCovers
  <2>2. ~entered /\ ~CommitPayment /\ ~CommitAmendment
    BY <2>1 DEF Others, CommitProject, CommitPayment, CommitAmendment, CommitRemoval,
                Midnight, Happens
  <2>3. live' \in SUBSET live /\ terms' = terms
    BY <2>2 DEF Others, CommitProject, Open, Delete, Move, CommitRemoval, Remove,
                Midnight, books
  <2>4. Sum(live)' = Sum(live') BY <2>3 DEF Sum
  <2>5. Sum(live') <= Sum(live) /\ Sum(live') \in Nat /\ Sum(live) \in Nat
    BY <1>1, <2>3, DashboardSum
  <2>6. total \in Nat BY <1>1 DEF TypeOK
  <2> QED BY <2>2, <2>4, <2>5, <2>6 DEF OverviewInv, TotalCovers
<1>5. MonthStands'
  <2>1. SUFFICES ASSUME ~withdrawn', month > 0, pc \in AfterMonth
                 PROVE  /\ pc \in {"recent_projects", "recent_payments"} => PaidThisMonth(live)'
                        /\ pc = "answer" /\ limit > 0 => PaidThisMonth(payments)'
    BY <1>2 DEF MonthStands
  <2>2. ~withdrawn /\ ~CommitAmendment /\ ~CommitRemoval /\ ~Midnight
    BY <2>1 DEF Others, CommitProject, CommitPayment, CommitAmendment, CommitRemoval,
                Midnight, Happens
  <2>3. /\ live \subseteq live' /\ today' = today
        /\ \A x \in Recorded : terms'[x] = terms[x]
    BY <1>1, <2>2 DEF Others, CommitProject, Open, Delete, Move, CommitPayment, Record,
                      BooksTypeOK, Recorded
  <2>4. live \subseteq Recorded /\ payments \subseteq Recorded
    BY <1>1 DEF TypeOK, Recorded
  <2> QED BY <1>2, <2>1, <2>2, <2>3, <2>4 DEF OverviewInv, MonthStands, PaidThisMonth
<1> QED BY <1>1, <1>3, <1>4, <1>5 DEF OverviewInv

--------------------------------------------------------------------------------
\* The statements of the request: the books, the day and the history stay.
LEMMA OverviewKeepsTypes == ASSUME TypeOK, Overview PROVE TypeOK'
<1> USE DEF TypeOK, Labels, Goes
<1>1. CASE Ask
  BY <1>1, DashboardAssumption
  DEF Ask, books, figures, history, BooksTypeOK, Recorded
<1>2. CASE CountByStatus
  <2>1. \A s \in Statuses : CountOf(s) \in Nat
    <3> TAKE s \in Statuses
    <3>1. {p \in Visible : status[p] = s} \in SUBSET Visible OBVIOUS
    <3>2. IsFiniteSet(Visible) BY PaymentFacts
    <3> QED BY <3>1, <3>2, FS_Subset, FS_CardinalityType DEF CountOf
  <2>2. counts' \in [Statuses -> Nat] BY <1>2, <2>1 DEF CountByStatus
  <2> QED BY <1>2, <2>2 DEF CountByStatus, books, history, BooksTypeOK, Recorded
<1>3. CASE GetTotalAmount
  <2>1. Sum(live) \in Nat BY DashboardSum
  <2> QED BY <1>3, <2>1 DEF GetTotalAmount, books, history, BooksTypeOK, Recorded
<1>4. CASE GetThisMonthTotal
  <2>1. OfThisMonth \in SUBSET live BY DEF OfThisMonth
  <2>2. Sum(OfThisMonth) \in Nat BY <2>1, DashboardSum
  <2> QED BY <1>4, <2>2 DEF GetThisMonthTotal, books, history, BooksTypeOK, Recorded
<1>5. CASE GetRecentProjects
  <2>1. projects' \subseteq known BY <1>5 DEF GetRecentProjects, Top, Visible
  <2> QED BY <1>5, <2>1 DEF GetRecentProjects, books, history, BooksTypeOK, Recorded
<1>6. CASE GetRecentPayments
  <2>1. payments' \subseteq Recorded
    BY <1>6 DEF GetRecentPayments, RecentPayments, Top, Recorded
  <2> QED BY <1>6, <2>1 DEF GetRecentPayments, books, history, BooksTypeOK, Recorded
<1>7. CASE Finish
  <2>1. 0 \in 0..MaxEdits BY DashboardAssumption
  <2>2. NoCounts \in [Statuses -> Nat] BY DEF NoCounts
  <2> QED BY <1>7, <2>1, <2>2 DEF Finish, books, BooksTypeOK, Recorded
<1> QED BY <1>1, <1>2, <1>3, <1>4, <1>5, <1>6, <1>7 DEF Overview

\* LIMIT at least one: of payments that are there, some are listed, and when one
\* was paid this month, so was one of those.
LEMMA RecentShowsMonth ==
  ASSUME TypeOK, limit > 0, PaidThisMonth(live), NEW T \in RecentPayments(limit)
  PROVE  PaidThisMonth(T)
<1>1. PICK y \in live : IsSameMonth(terms[y].paid_at, today) BY DEF PaidThisMonth
<1>2. CASE y \in T
  BY <1>1, <1>2 DEF PaidThisMonth
<1>3. CASE y \notin T
  <2>1. /\ T \subseteq live /\ Cardinality(T) = Min({limit, Cardinality(live)})
        /\ \A x \in T : ~PaidLater(y, x)
    BY <1>3 DEF RecentPayments, Top
  <2>2. BooksTypeOK /\ limit \in Nat BY DEF TypeOK
  <2>3. IsFiniteSet(live) /\ live # {} BY <1>1, <2>2, PaymentFacts
  <2>4. Cardinality(live) \in Nat /\ Cardinality(live) > 0
    BY <2>3, FS_CardinalityType, FS_EmptySet
  <2>5. Min({limit, Cardinality(live)}) > 0
    BY <2>2, <2>4, MinIsLeast
  <2>6. T # {} BY <2>1, <2>5, FS_EmptySet
  <2>7. PICK x \in T : NotAfter(terms[y].paid_at, terms[x].paid_at)
    BY <2>1, <2>6 DEF PaidLater
  <2>8. x \in Recorded /\ y \in Recorded BY <2>1 DEF Recorded
  <2>9. /\ IsDate(terms[x].paid_at) /\ IsDate(terms[y].paid_at) /\ IsDate(today)
        /\ NotAfter(terms[x].paid_at, today)
    BY <2>2, <2>8, PaymentFacts, DashboardAssumption DEF TypeOK
  <2>10. IsSameMonth(terms[x].paid_at, today)
    BY <1>1, <2>7, <2>9, BetweenSameMonth
  <2> QED BY <2>10 DEF PaidThisMonth
<1> QED BY <1>2, <1>3

LEMMA OverviewHolds == ASSUME OverviewInv, Overview PROVE OverviewInv'
<1> USE DEF AfterCounts, AfterTotal, AfterMonth, AfterProjects, Goes
<1>1. TypeOK /\ BooksTypeOK /\ TypeOK'
  BY OverviewKeepsTypes DEF OverviewInv, TypeOK
<1>2. UNCHANGED <<books, today>>
  BY DEF Overview, Ask, CountByStatus, GetTotalAmount, GetThisMonthTotal,
         GetRecentProjects, GetRecentPayments, Finish
<1>3. /\ Sum(live)' = Sum(live) /\ Sum(OfThisMonth)' = Sum(OfThisMonth)
      /\ \A s \in Statuses : CountOf(s)' = CountOf(s)
      /\ Visible' = Visible
      /\ PaidThisMonth(live)' <=> PaidThisMonth(live)
  BY <1>2 DEF books, Sum, OfThisMonth, CountOf, Visible, PaidThisMonth
<1>4. /\ RecentPayments(limit)' = RecentPayments(limit')
      /\ Top(Visible, limit, Newer)' = Top(Visible, limit', Newer)
      /\ live' = live /\ terms' = terms
  BY <1>2 DEF books, RecentPayments, Top, PaidLater, Newer, Visible
<1>5. FiguresExact /\ TotalCovers /\ MonthStands BY DEF OverviewInv
<1>6. ASSUME Ask PROVE (FiguresExact /\ TotalCovers /\ MonthStands)'
  BY <1>6 DEF Ask, FiguresExact, TotalCovers, MonthStands
<1>7. ASSUME Finish PROVE (FiguresExact /\ TotalCovers /\ MonthStands)'
  BY <1>7 DEF Finish, FiguresExact, TotalCovers, MonthStands
<1>8. ASSUME CountByStatus PROVE (FiguresExact /\ TotalCovers /\ MonthStands)'
  BY <1>3, <1>5, <1>8 DEF CountByStatus, FiguresExact, TotalCovers, MonthStands
<1>9. ASSUME GetTotalAmount PROVE (FiguresExact /\ TotalCovers /\ MonthStands)'
  <2>1. Sum(live) \in Nat BY <1>1, DashboardSum
  <2> QED BY <1>3, <1>5, <1>9, <2>1
      DEF GetTotalAmount, FiguresExact, TotalCovers, MonthStands, history
<1>10. ASSUME GetThisMonthTotal PROVE (FiguresExact /\ TotalCovers /\ MonthStands)'
  <2>1. OfThisMonth \in SUBSET live BY DEF OfThisMonth
  <2>2. /\ Sum(OfThisMonth) \in Nat /\ Sum(live) \in Nat /\ Sum(OfThisMonth) <= Sum(live)
        /\ Sum(OfThisMonth) > 0 => OfThisMonth # {}
    BY <1>1, <2>1, DashboardSum
  <2>3. OfThisMonth # {} => PaidThisMonth(live)
    <3>1. \A x \in live : IsDate(terms[x].paid_at) /\ IsDate(today)
      BY <1>1, PaymentFacts, DashboardAssumption DEF TypeOK, Recorded
    <3> QED BY <3>1, MonthRangeExact DEF OfThisMonth, PaidThisMonth
  <2>4. total \in Nat BY <1>1 DEF TypeOK
  <2>5. FiguresExact' BY <1>3, <1>5, <1>10 DEF GetThisMonthTotal, FiguresExact, history
  <2>6. TotalCovers'
    BY <1>5, <1>10, <2>2, <2>4 DEF GetThisMonthTotal, TotalCovers, history
  <2>7. MonthStands'
    BY <1>3, <1>10, <2>2, <2>3 DEF GetThisMonthTotal, MonthStands
  <2> QED BY <2>5, <2>6, <2>7
<1>11. ASSUME GetRecentProjects PROVE (FiguresExact /\ TotalCovers /\ MonthStands)'
  BY <1>3, <1>4, <1>5, <1>11 DEF GetRecentProjects, FiguresExact, TotalCovers, MonthStands, history
<1>12. ASSUME GetRecentPayments PROVE (FiguresExact /\ TotalCovers /\ MonthStands)'
  <2>1. FiguresExact'
    BY <1>3, <1>4, <1>5, <1>12 DEF GetRecentPayments, FiguresExact, history
  <2>2. TotalCovers' BY <1>5, <1>12 DEF GetRecentPayments, TotalCovers, history
  <2>3. MonthStands'
    <3>1. SUFFICES ASSUME ~withdrawn, month > 0, limit > 0 PROVE PaidThisMonth(payments)'
      BY <1>12 DEF GetRecentPayments, MonthStands, history
    <3>2. PaidThisMonth(live) BY <1>5, <1>12, <3>1 DEF GetRecentPayments, MonthStands
    <3>3. payments' \in RecentPayments(limit) BY <1>12 DEF GetRecentPayments
    <3>4. PaidThisMonth(payments') BY <1>1, <3>1, <3>2, <3>3, RecentShowsMonth
    <3> QED BY <1>2, <3>4 DEF PaidThisMonth, books
  <2> QED BY <2>1, <2>2, <2>3
<1> QED BY <1>1, <1>6, <1>7, <1>8, <1>9, <1>10, <1>11, <1>12 DEF Overview, OverviewInv

LEMMA StutterHolds == ASSUME OverviewInv, UNCHANGED vars PROVE OverviewInv'
<1>1. UNCHANGED <<books, today, pc, limit, counts, total, month, projects, payments,
                  changed, entered, withdrawn, edits>>
  BY DEF vars, request, figures, history
<1>2. BooksTypeOK' /\ Recorded' = Recorded
  BY <1>1 DEF books, BooksTypeOK, Recorded, OverviewInv, TypeOK
<1>3. TypeOK' BY <1>1, <1>2 DEF OverviewInv, TypeOK, books
<1>4. (FiguresExact /\ TotalCovers /\ MonthStands)'
  BY <1>1 DEF OverviewInv, FiguresExact, TotalCovers, MonthStands, books, Sum,
              OfThisMonth, CountOf, Visible, Top, RecentPayments, PaidLater, Newer,
              PaidThisMonth
<1> QED BY <1>3, <1>4 DEF OverviewInv

LEMMA Invariance == Spec => []OverviewInv
<1>1. OverviewInv /\ [Next]_vars => OverviewInv'
  BY OthersHold, OverviewHolds, StutterHolds DEF Next
<1> QED BY InitHolds, <1>1, PTL DEF Spec

--------------------------------------------------------------------------------
\* TypeOK of Dashboard: also, no payment is ever dated after today.
THEOREM TypeCorrect == Spec => []TypeOK
<1>1. OverviewInv => TypeOK BY DEF OverviewInv
<1> QED BY <1>1, Invariance, PTL

\* get_overview: when nothing changed while it ran, every figure is exact, and
\* nothing newer is missing from the lists.
THEOREM QuietOverviewIsExact == Spec => []QuietOverviewExact
<1>1. ASSUME OverviewInv PROVE QuietOverviewExact
  <2>1. SUFFICES ASSUME pc = "answer", ~changed PROVE QuietOverviewExact
    BY DEF QuietOverviewExact
  <2>2. /\ \A s \in Statuses : counts[s] = CountOf(s)
        /\ total = Sum(live) /\ month = Sum(OfThisMonth)
        /\ projects \in Top(Visible, limit, Newer) /\ payments \in RecentPayments(limit)
    BY <1>1, <2>1 DEF OverviewInv, FiguresExact, AfterCounts, AfterTotal, AfterMonth,
                      AfterProjects
  <2>3. OfThisMonth = {x \in live : IsSameMonth(terms[x].paid_at, today)}
    <3>1. \A x \in live : IsDate(terms[x].paid_at) /\ IsDate(today)
      BY <1>1, PaymentFacts, DashboardAssumption DEF OverviewInv, TypeOK, Recorded
    <3> QED BY <3>1, MonthRangeExact DEF OfThisMonth
  <2>4. /\ Cardinality(projects) = Min({limit, Cardinality(Visible)})
        /\ \A p \in projects, q \in Visible \ projects : ~(q > p)
    BY <2>2 DEF Top, Newer
  <2>5. \A p \in projects, q \in Visible \ projects : q < p
    <3>1. projects \subseteq Visible /\ Visible \subseteq Nat
      BY <1>1, <2>2, DashboardAssumption
      DEF Top, Visible, OverviewInv, TypeOK, BooksTypeOK
    <3> QED BY <2>4, <3>1
  <2>6. /\ Cardinality(payments) = Min({limit, Cardinality(live)})
        /\ \A x \in payments, y \in live \ payments :
             NotAfter(terms[y].paid_at, terms[x].paid_at)
    BY <2>2 DEF RecentPayments, Top, PaidLater
  <2> QED BY <2>2, <2>3, <2>4, <2>5, <2>6 DEF QuietOverviewExact
<1> QED BY <1>1, Invariance, PTL

\* get_stats: this month's payments are no more than all, although the two are
\* separate statements, unless a payment was recorded or amended between them.
THEOREM MonthIsWithinTotal == Spec => []MonthWithinTotal
<1>1. OverviewInv => MonthWithinTotal
  BY DEF OverviewInv, TotalCovers, MonthWithinTotal, AfterMonth
<1> QED BY <1>1, Invariance, PTL

\* get_overview: a month with payments shows one of them in the recent list.
THEOREM MonthIsShownInRecent == Spec => []MonthShownInRecent
<1>1. OverviewInv => MonthShownInRecent
  BY DEF OverviewInv, MonthStands, MonthShownInRecent, PaidThisMonth
<1> QED BY <1>1, Invariance, PTL
================================================================================
