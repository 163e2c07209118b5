------------------------------- MODULE Dashboard -------------------------------
(***************************************************************************)
(* DashboardService.get_overview beside requests that change the books.    *)
(*                                                                         *)
(* The overview is put together from separate SELECTs, each with its own   *)
(* snapshot (READ COMMITTED): projects by status, the sum of all payments, *)
(* the sum of this month's payments, the recent projects and payments.     *)
(* Between two of them other requests commit, one entry of LedgerBooks     *)
(* each, and midnight may pass.  The user figures read a table that the    *)
(* books do not have and are left out.                                     *)
(***************************************************************************)
EXTENDS Calendar, FiniteSets, FiniteSetsExt

CONSTANTS Projects,  \* numbered in the order of created_at
          Payments, NoProject,
          Amounts,
          Days,      \* days the clock shows, and payments are dated (bound)
          Limits,    \* the query parameter limit
          MaxEdits   \* commits of others during one overview (bound)

Statuses == {"active", "stopped", "finished", "bad"}
Terms == [amount : Amounts, paid_at : Days]
NoTerms == [amount |-> 0, paid_at |-> Date(1, 1, 1)]

ASSUME DashboardAssumption ==
  /\ \A d \in Days : IsDate(d)
  /\ Projects \subseteq Nat /\ NoProject \notin Projects
  /\ IsFiniteSet(Projects) /\ IsFiniteSet(Payments)
  /\ Amounts \subseteq Nat \ {0} /\ Limits \subseteq Nat /\ MaxEdits \in Nat

VARIABLES
  known, status, deleted,           \* committed rows of projects
  live, trashed, project_of, terms, \* committed rows of payments
  today,     \* date.today()
  pc, limit, \* the request: its next statement, its parameter
  counts, total, month, projects, payments, \* the figures it has read
  changed,   \* history: something changed since the request began
  entered,   \* history: a payment was recorded or amended since the total
  withdrawn, \* history: one was amended or removed since the month's sum
  edits      \* commits since the request began

INSTANCE LedgerBooks

books   == <<known, status, deleted, live, trashed, project_of, terms>>
figures == <<counts, total, month, projects, payments>>
history == <<changed, entered, withdrawn, edits>>
request == <<pc, limit, figures>>
vars    == <<books, today, request, history>>

Labels == {"idle", "count_by_status", "total", "month",
           "recent_projects", "recent_payments", "answer"}

TypeOK ==
  /\ BooksTypeOK
  /\ today \in Days /\ \A x \in Recorded : NotAfter(terms[x].paid_at, today)
  /\ pc \in Labels /\ limit \in Nat
  /\ counts \in [Statuses -> Nat] /\ total \in Nat /\ month \in Nat
  /\ projects \subseteq known /\ payments \subseteq Recorded
  /\ <<changed, entered, withdrawn>> \in BOOLEAN \X BOOLEAN \X BOOLEAN
  /\ edits \in 0..MaxEdits

NoCounts == [s \in Statuses |-> 0]

Init ==
  /\ today \in Days
  /\ known = {} /\ live = {} /\ BooksInit
  /\ project_of = [x \in Payments |-> NoProject]
  /\ terms = [x \in Payments |-> NoTerms]
  /\ pc = "idle" /\ limit = 0
  /\ counts = NoCounts /\ total = 0 /\ month = 0 /\ projects = {} /\ payments = {}
  /\ changed = FALSE /\ entered = FALSE /\ withdrawn = FALSE /\ edits = 0

(***************************************************************************)
(* What happens between two statements.                                    *)
(***************************************************************************)
\* Something changes; a request under way has kinds of it in its history.
Happens(enters, withdraws) ==
  /\ pc # "idle" => edits < MaxEdits
  /\ IF pc = "idle" THEN UNCHANGED history
     ELSE /\ changed' = TRUE
          /\ entered' = (entered \/ (enters /\ pc \notin {"count_by_status", "total"}))
          /\ withdrawn' = (withdrawn \/ (withdraws /\ pc \in {"recent_projects", "recent_payments", "answer"}))
          /\ edits' = edits + 1
  /\ UNCHANGED request

\* validate_not_future_date.  Mutant: any date is accepted.
NotFutureMutant(t) == t \in Terms
NotFuture(t) == NotAfter(t.paid_at, today)

CommitProject ==
  /\ \/ \E p \in Projects : Open(p) \/ Delete(p)
     \/ \E p \in Projects, s \in Statuses : Move(p, s)
  /\ Happens(FALSE, FALSE)
  /\ UNCHANGED today

CommitPayment ==
  /\ \E x \in Payments, p \in Projects, t \in Terms : NotFuture(t) /\ Record(x, p, t)
  /\ Happens(TRUE, FALSE)
  /\ UNCHANGED today

CommitAmendment ==
  /\ \E x \in Payments, t \in Terms : NotFuture(t) /\ Amend(x, t)
  /\ Happens(TRUE, TRUE)
  /\ UNCHANGED today

CommitRemoval ==
  /\ \E x \in Payments : Remove(x)
  /\ Happens(FALSE, TRUE)
  /\ UNCHANGED today

Midnight ==
  /\ DayAfter(today) \in Days
  /\ today' = DayAfter(today)
  /\ Happens(FALSE, TRUE)
  /\ UNCHANGED books

(***************************************************************************)
(* The statements of one overview.                                         *)
(***************************************************************************)
Visible == known \ deleted

CountOf(s) == Cardinality({p \in Visible : status[p] = s})

Sum(S) == SumFunctionOnSet([x \in S |-> terms[x].amount], S)

\* Mutant: the month's sum does not look at deleted_at.
OfThisMonthMutant == {x \in Recorded : InMonthRange(terms[x].paid_at, today)}
OfThisMonth == {x \in live : InMonthRange(terms[x].paid_at, today)}

\* ORDER BY ... DESC LIMIT n: n rows, none of the others before one of them;
\* which rows of a tie is the database's choice.
Top(S, n, Before(_, _)) ==
  {T \in SUBSET S : /\ Cardinality(T) = Min({n, Cardinality(S)})
                    /\ \A x \in T, y \in S \ T : ~Before(y, x)}

Newer(p, q) == p > q
PaidLater(x, y) == ~NotAfter(terms[x].paid_at, terms[y].paid_at)

\* Mutant: the oldest payments come first.
RecentPaymentsMutant(n) == Top(live, n, LAMBDA x, y : PaidLater(y, x))
RecentPayments(n) == Top(live, n, PaidLater)

Ask ==
  /\ pc = "idle"
  /\ pc' = "count_by_status" /\ limit' \in Limits
  /\ UNCHANGED <<books, today, figures, history>>

Goes(from, to) ==
  /\ pc = from /\ pc' = to
  /\ UNCHANGED <<books, today, limit, history>>

CountByStatus ==
  /\ Goes("count_by_status", "total")
  /\ counts' = [s \in Statuses |-> CountOf(s)]
  /\ UNCHANGED <<total, month, projects, payments>>

GetTotalAmount ==
  /\ Goes("total", "month")
  /\ total' = Sum(live)
  /\ UNCHANGED <<counts, month, projects, payments>>

GetThisMonthTotal ==
  /\ Goes("month", "recent_projects")
  /\ month' = Sum(OfThisMonth)
  /\ UNCHANGED <<counts, total, projects, payments>>

GetRecentProjects ==
  /\ Goes("recent_projects", "recent_payments")
  /\ projects' \in Top(Visible, limit, Newer)
  /\ UNCHANGED <<counts, total, month, payments>>

GetRecentPayments ==
  /\ Goes("recent_payments", "answer")
  /\ payments' \in RecentPayments(limit)
  /\ UNCHANGED <<counts, total, month, projects>>

\* The answer leaves, or a statement has failed.
Finish ==
  /\ pc # "idle"
  /\ pc' = "idle" /\ limit' = 0
  /\ counts' = NoCounts /\ total' = 0 /\ month' = 0 /\ projects' = {} /\ payments' = {}
  /\ changed' = FALSE /\ entered' = FALSE /\ withdrawn' = FALSE /\ edits' = 0
  /\ UNCHANGED <<books, today>>

Overview ==
  \/ Ask \/ CountByStatus \/ GetTotalAmount \/ GetThisMonthTotal
  \/ GetRecentProjects \/ GetRecentPayments \/ Finish

Others ==
  \/ CommitProject \/ CommitPayment \/ CommitAmendment \/ CommitRemoval
  \/ Midnight

Next == Overview \/ Others

Spec == Init /\ [][Next]_vars

(***************************************************************************)
(* What the figures are good for.                                          *)
(***************************************************************************)
\* get_overview: when nothing was committed and the day did not change while it
\* ran, every figure is the one of the books: the projects of each status, the
\* sum of all payments and of those of today's month and year, and lists as
\* long as the limit allows that nothing newer is missing from.
QuietOverviewExact ==
  pc = "answer" /\ ~changed =>
    /\ \A s \in Statuses : counts[s] = CountOf(s)
    /\ total = Sum(live)
    /\ month = Sum({x \in live : IsSameMonth(terms[x].paid_at, today)})
    /\ Cardinality(projects) = Min({limit, Cardinality(Visible)})
    /\ \A p \in projects, q \in Visible \ projects : q < p
    /\ Cardinality(payments) = Min({limit, Cardinality(live)})
    /\ \A x \in payments, y \in live \ payments :
         NotAfter(terms[y].paid_at, terms[x].paid_at)

\* get_stats: this month's payments are no more than all payments, although the
\* two sums are selected one after the other, unless a payment was recorded or
\* amended after the first; removals and midnight do no harm.
MonthWithinTotal ==
  pc \in {"recent_projects", "recent_payments", "answer"} /\ ~entered =>
    month <= total

\* get_overview: when the stat card shows payments of this month, the list of
\* recent payments, if it may have entries, begins with one of this month:
\* unless after the sum a payment was amended or removed, or the day changed.
MonthShownInRecent ==
  pc = "answer" /\ month > 0 /\ limit > 0 /\ ~withdrawn =>
    \E x \in payments : IsSameMonth(terms[x].paid_at, today)
================================================================================
