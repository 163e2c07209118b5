------------------------------ MODULE ProjectLedger ------------------------------
(***************************************************************************)
(* Projects and their payments: ProjectService, PaymentService and their   *)
(* repositories, as concurrent requests over one PostgreSQL database       *)
(* (READ COMMITTED), each in the request-scoped session of get_db_session. *)
(*                                                                         *)
(* A project has a status that moves along a transition matrix and an      *)
(* aggregate total_paid, recomputed from the payments by every request     *)
(* that writes one.  A session keeps the first instance of a row it loads  *)
(* (identity map): a later query of the row decides only whether it is     *)
(* still there, and an UPDATE is sent only for a column that differs from  *)
(* what was loaded first.                                                  *)
(***************************************************************************)
EXTENDS Naturals, FiniteSets, FiniteSetsExt

CONSTANTS Projects, Payments,   \* rows an execution can hold (bound)
          Amounts,              \* amounts of a payment
          Requests,             \* slots of requests in flight at once (bound)
          NoProject, NoPayment,
          Workload              \* operations explored

PaymentOps == {"create_payment", "update_payment", "delete_payment"}
ProjectOps == {"create_project", "change_status", "delete_project"}

ASSUME LedgerAssumption ==
  /\ NoProject \notin Projects /\ NoPayment \notin Payments
  /\ Projects \cap Payments = {}
  /\ IsFiniteSet(Payments)
  /\ Amounts \subseteq Nat \ {0}
  /\ Workload \subseteq PaymentOps \cup ProjectOps

VARIABLES
  known, status, deleted, total_paid, \* committed rows of projects
  live, trashed, project_of, amount, \* committed rows of payments
  pc, arg,        \* of a request: step, input
  loaded,         \* the column its session has loaded, to be compared later:
                  \*   the payment's amount, or the project's total_paid
  total,          \* the sum it has selected
  wrote,          \* the rows its transaction has written, and locked
  overlapped      \* history: a request of the same kind ran meanwhile

db   == <<known, status, deleted, total_paid, live, trashed, project_of, amount>>
orm  == <<loaded, total>>
vars == <<known, status, deleted, total_paid, live, trashed, project_of, amount,
          pc, arg, loaded, total, wrote, overlapped>>

Statuses == {"active", "stopped", "finished", "bad"}
Labels == {"idle", "read", "insert_project", "insert", "find_payment", "write_payment", "sum",
           "find_project", "write_project", "commit"}

Inputs == [op      : PaymentOps \cup ProjectOps \cup {"none"},
           project : Projects \cup {NoProject},
           payment : Payments \cup {NoPayment},
           amount  : Amounts \cup {0},
           status  : Statuses \cup {"none"}]

Input(op, p, x, a, s) ==
  [op |-> op, project |-> p, payment |-> x, amount |-> a, status |-> s]

NoInput == Input("none", NoProject, NoPayment, 0, "none")

TypeOK ==
  /\ status \in [Projects -> Statuses]
  /\ known \subseteq Projects /\ deleted \subseteq known
  /\ total_paid \in [Projects -> Nat]
  /\ live \subseteq Payments /\ trashed \subseteq Payments
  /\ live \cap trashed = {}
  /\ project_of \in [Payments -> Projects \cup {NoProject}]
  /\ \A x \in live \cup trashed : project_of[x] \in known
  /\ amount \in [Payments -> Amounts \cup {0}]
  /\ pc \in [Requests -> Labels]
  /\ arg \in [Requests -> Inputs]
  /\ loaded \in [Requests -> Nat]
  /\ total \in [Requests -> Nat]
  /\ wrote \in [Requests -> SUBSET (Projects \cup Payments)]
  /\ overlapped \in [Requests -> BOOLEAN]

(***************************************************************************)
(* The sum of the non-deleted payments of a project.                       *)
(***************************************************************************)
SumOf(p, S, amounts) ==
  SumFunctionOnSet(amounts, {x \in S : project_of[x] = p})

Paid(p) == SumOf(p, live, amount)

\* The tables hold projects and payments recorded earlier, with their totals.
Init ==
  /\ status \in [Projects -> {"active"}] /\ deleted = {}
  /\ \E seeded \in SUBSET Payments, a \in Amounts, p \in Projects :
       /\ known \in SUBSET Projects /\ (seeded # {} => p \in known)
       /\ live = seeded
       /\ project_of = [x \in Payments |-> IF x \in seeded THEN p ELSE NoProject]
       /\ amount = [x \in Payments |-> IF x \in seeded THEN a ELSE 0]
  /\ total_paid = [p \in Projects |-> Paid(p)]
  /\ trashed = {}
  /\ pc = [r \in Requests |-> "idle"]
  /\ arg = [r \in Requests |-> NoInput]
  /\ loaded = [r \in Requests |-> 0]
  /\ total = [r \in Requests |-> 0]
  /\ wrote = [r \in Requests |-> {}]
  /\ overlapped = [r \in Requests |-> FALSE]

(***************************************************************************)
(* Requests arrive.                                                        *)
(***************************************************************************)
Goto(r, label) == pc' = [pc EXCEPT ![r] = label]

\* Two requests of one kind on one project: both write a payment, or both
\* change the status.
SameKind(in1, in2) ==
  /\ in1.project = in2.project
  /\ \/ in1.op \in PaymentOps /\ in2.op \in PaymentOps
     \/ in1.op = "change_status" /\ in2.op = "change_status"

Begin(r, input, label) ==
  LET Others == {q \in Requests \ {r} : SameKind(arg[q], input)} IN
  /\ pc[r] = "idle"
  /\ input.op \in Workload
  /\ arg' = [arg EXCEPT ![r] = input]
  /\ overlapped' = [q \in Requests |->
                      IF q = r THEN Others # {} ELSE overlapped[q] \/ q \in Others]
  /\ Goto(r, label)
  /\ UNCHANGED <<db, orm, wrote>>

FreshPayments ==
  Payments \ (live \cup trashed \cup {arg[q].payment : q \in Requests})

FreshProjects == Projects \ (known \cup {arg[q].project : q \in Requests})

CreateProject(r) ==
  \E p \in FreshProjects :
    Begin(r, Input("create_project", p, NoPayment, 0, "active"), "insert_project")

CreatePayment(r) ==
  \E p \in known, x \in FreshPayments, a \in Amounts :
    Begin(r, Input("create_payment", p, x, a, "none"), "read")
UpdatePayment(r) ==
  \E x \in live \cup trashed, a \in Amounts :
    Begin(r, Input("update_payment", project_of[x], x, a, "none"), "read")
DeletePayment(r) ==
  \E x \in live \cup trashed :
    Begin(r, Input("delete_payment", project_of[x], x, 0, "none"), "read")
DeleteProject(r) ==
  \E p \in known :
    Begin(r, Input("delete_project", p, NoPayment, 0, "none"), "read")

\* start, stop, finish, mark_bad, restore.
ChangeStatus(r) ==
  \E p \in known, s \in Statuses :
    Begin(r, Input("change_status", p, NoPayment, 0, s), "read")

(***************************************************************************)
(* The handlers' steps, one per await that reaches the database.           *)
(***************************************************************************)
\* _ALLOWED_TRANSITIONS.
Allowed(from) ==
  CASE from = "active"   -> {"stopped", "finished", "bad"}
    [] from = "stopped"  -> {"active", "bad", "finished"}
    [] from = "bad"      -> {"active"}
    [] from = "finished" -> {}

\* Mutant: only a move to the same status is refused.
MayChangeMutant(from, to) == from # to
MayChange(from, to) == to \in Allowed(from)

\* The session ends: what it loaded is forgotten, its locks are released.
End(r) ==
  /\ Goto(r, "idle")
  /\ arg' = [arg EXCEPT ![r] = NoInput]
  /\ loaded' = [loaded EXCEPT ![r] = 0]
  /\ total' = [total EXCEPT ![r] = 0]
  /\ wrote' = [wrote EXCEPT ![r] = {}]
  /\ overlapped' = [overlapped EXCEPT ![r] = FALSE]

\* An exception: the session is rolled back.
Raise(r) == End(r) /\ UNCHANGED db

\* project_repo.create: the flush inserts the row, ACTIVE and nothing paid.
InsertProject(r) ==
  /\ pc[r] = "insert_project"
  /\ wrote' = [wrote EXCEPT ![r] = {arg[r].project}]
  /\ Goto(r, "commit")
  /\ UNCHANGED <<db, arg, orm, overlapped>>

\* get_project, the status check, the project look-up of create_payment.
ReadProject(r) ==
  LET p == arg[r].project
      refused == \/ p \in deleted
                 \/ /\ arg[r].op = "change_status"
                    /\ ~MayChange(status[p], arg[r].status)
  IN
  /\ pc[r] = "read"
  /\ arg[r].op \in ProjectOps \cup {"create_payment"}
  /\ \/ refused /\ Raise(r)
     \/ /\ ~refused
        /\ IF arg[r].op = "create_payment"
           THEN /\ loaded' = [loaded EXCEPT ![r] = total_paid[p]]
                /\ Goto(r, "insert")
           ELSE Goto(r, "find_project") /\ UNCHANGED loaded
        /\ UNCHANGED <<db, arg, total, wrote, overlapped>>

\* get_payment.
ReadPayment(r) ==
  LET x == arg[r].payment IN
  /\ pc[r] = "read"
  /\ arg[r].op \in {"update_payment", "delete_payment"}
  /\ \/ x \notin live /\ Raise(r)
     \/ /\ x \in live
        /\ loaded' = [loaded EXCEPT ![r] = amount[x]]
        /\ Goto(r, "find_payment")
        /\ UNCHANGED <<db, arg, total, wrote, overlapped>>

\* payment_repo.create: the flush inserts the row.
InsertPayment(r) ==
  /\ pc[r] = "insert"
  /\ wrote' = [wrote EXCEPT ![r] = @ \cup {arg[r].payment}]
  /\ Goto(r, "sum")
  /\ UNCHANGED <<db, arg, orm, overlapped>>

\* update and soft_delete query the row again; one that is gone is left
\* alone without an error, and so is an amount that does not change.
FindPayment(r) ==
  LET writes == /\ arg[r].payment \in live
                /\ arg[r].op = "update_payment" => arg[r].amount # loaded[r]
  IN
  /\ pc[r] = "find_payment"
  /\ Goto(r, IF writes THEN "write_payment" ELSE "sum")
  /\ loaded' = [loaded EXCEPT ![r] = 0]
  /\ UNCHANGED <<db, arg, total, wrote, overlapped>>

\* A flushed UPDATE waits for the transaction that holds the row.
Unlocked(r, row) == \A q \in Requests \ {r} : row \notin wrote[q]

WritePayment(r) ==
  /\ pc[r] = "write_payment"
  /\ Unlocked(r, arg[r].payment)
  /\ wrote' = [wrote EXCEPT ![r] = @ \cup {arg[r].payment}]
  /\ Goto(r, "sum")
  /\ UNCHANGED <<db, arg, orm, overlapped>>

\* The payments after the writes of r: of its own transaction, and when it
\* has committed of everybody.
Wrote(r, op) == arg[r].op = op /\ arg[r].payment \in wrote[r]
Inserted(r) == IF Wrote(r, "create_payment") THEN {arg[r].payment} ELSE {}
Removed(r)  == IF Wrote(r, "delete_payment") THEN {arg[r].payment} ELSE {}
\* Mutant: an UPDATE writes every column as it was loaded, deleted_at too.
LiveAfterMutant(r) ==
  (live \cup (IF arg[r].op = "delete_payment" THEN {} ELSE wrote[r] \cap Payments)) \ Removed(r)
LiveAfter(r) == (live \cup Inserted(r)) \ Removed(r)
AmountAfter(r) ==
  IF Wrote(r, "create_payment") \/ Wrote(r, "update_payment")
  THEN [amount EXCEPT ![arg[r].payment] = arg[r].amount] ELSE amount
ProjectOfAfter(r) ==
  [x \in Payments |-> IF x \in Inserted(r) THEN arg[r].project ELSE project_of[x]]

\* Mutant: the sum is selected before the session has flushed the payment.
VisibleSumMutant(r) == Paid(arg[r].project)
VisibleSum(r) ==
  SumFunctionOnSet(AmountAfter(r),
                   {x \in LiveAfter(r) : ProjectOfAfter(r)[x] = arg[r].project})

\* recalculate_total_paid selects the sum, then updates the project.
SumPayments(r) ==
  /\ pc[r] = "sum"
  /\ total' = [total EXCEPT ![r] = VisibleSum(r)]
  /\ Goto(r, "find_project")
  /\ UNCHANGED <<db, arg, loaded, wrote, overlapped>>

\* BaseRepository.update and soft_delete: a deleted project is left alone
\* without an error.  Mutant: the query does not look at deleted_at.
StillThereMutant(p) == p \in Projects
StillThere(p) == p \notin deleted

\* create_payment compares with the total_paid it loaded at its start.
FindProject(r) ==
  LET p == arg[r].project
      old == IF arg[r].op = "create_payment" THEN loaded[r] ELSE total_paid[p]
      writes == /\ StillThere(p)
                /\ arg[r].op \in PaymentOps => old # total[r]
  IN
  /\ pc[r] = "find_project"
  /\ Goto(r, IF writes THEN "write_project" ELSE "commit")
  /\ loaded' = [loaded EXCEPT ![r] = 0]
  /\ UNCHANGED <<db, arg, total, wrote, overlapped>>

WriteProject(r) ==
  /\ pc[r] = "write_project"
  /\ Unlocked(r, arg[r].project)
  /\ wrote' = [wrote EXCEPT ![r] = @ \cup {arg[r].project}]
  /\ Goto(r, "commit")
  /\ UNCHANGED <<db, arg, orm, overlapped>>

(***************************************************************************)
(* The end of a request.                                                   *)
(***************************************************************************)
\* Mutant: a deleted payment keeps its place among the live ones.
CommitPaymentsMutant(r) ==
  /\ live' = live \cup Inserted(r)
  /\ trashed' = trashed \cup Removed(r)
  /\ amount' = AmountAfter(r)
  /\ project_of' = ProjectOfAfter(r)

CommitPayments(r) ==
  /\ live' = LiveAfter(r)
  /\ trashed' = trashed \cup Removed(r)
  /\ amount' = AmountAfter(r)
  /\ project_of' = ProjectOfAfter(r)

\* Only the columns that changed are in the UPDATE.
CommitProject(r) ==
  LET p == arg[r].project
      op == arg[r].op
      writes == p \in wrote[r]
  IN
  /\ known' = IF writes /\ op = "create_project" THEN known \cup {p} ELSE known
  /\ total_paid' = IF writes /\ op \in PaymentOps \cup {"create_project"}
                   THEN [total_paid EXCEPT ![p] = total[r]] ELSE total_paid
  /\ status' = IF writes /\ op \in {"create_project", "change_status"}
               THEN [status EXCEPT ![p] = arg[r].status] ELSE status
  /\ deleted' = IF writes /\ op = "delete_project"
                THEN deleted \cup {p} ELSE deleted

Commit(r) ==
  /\ pc[r] = "commit"
  /\ CommitPayments(r)
  /\ CommitProject(r)
  /\ End(r)

\* Any await may raise.  So does the rendering of an answer that needs a
\* column the session has not loaded back; the commit comes after it.
Fail(r) == pc[r] # "idle" /\ Raise(r)

Arrive(r) ==
  \/ CreatePayment(r) \/ UpdatePayment(r) \/ DeletePayment(r)
  \/ CreateProject(r) \/ DeleteProject(r) \/ ChangeStatus(r)

Step(r) ==
  \/ InsertProject(r)
  \/ ReadProject(r) \/ ReadPayment(r) \/ InsertPayment(r)
  \/ FindPayment(r) \/ WritePayment(r) \/ SumPayments(r)
  \/ FindProject(r) \/ WriteProject(r)
  \/ Commit(r)

Next == \E r \in Requests : Arrive(r) \/ Step(r) \/ Fail(r)

Spec == Init /\ [][Next]_vars

(***************************************************************************)
(* What the component promises.                                            *)
(***************************************************************************)
Books == INSTANCE LedgerBooks
           WITH Terms <- Amounts, NoTerms <- 0, terms <- amount

\* Whatever requests interleave, wait and fail, the tables change as LedgerBooks
\* says: one entry at a time, no payment changes its project, and none comes
\* back once its soft deletion is committed.
ImplementsBooks == Books!BooksSpec

Commits(r) == pc[r] = "commit" /\ db' # db /\ pc'[r] = "idle"

\* recalculate_total_paid: a payment request that commits a change, and that no
\* other payment request of the project overlapped, leaves total_paid equal to
\* the sum of the payments, whatever was wrong with it before and whatever
\* status change ran beside it.
LedgerHeals ==
  [][\A r \in Requests, p \in known \ deleted :
       /\ Commits(r) /\ arg[r].project = p
       /\ arg[r].op \in PaymentOps /\ ~overlapped[r]
       => total_paid'[p] = Paid(p)']_vars

\* A request that has found the project and may still write it.
Found(r, p) ==
  /\ arg[r].project = p
  /\ \/ arg[r].op = "create_payment" /\ pc[r] # "read"
     \/ pc[r] = "write_project" \/ p \in wrote[r]

\* A deleted project stays deleted, its status and total_paid stay, and no payment
\* is recorded on it, except by requests that had found it before.  The payments
\* it has may be amended and removed: update_payment and delete_payment do not
\* look at the project, and recalculate_total_paid leaves a deleted one alone.
DeletedProjectFrozen ==
  [][\A p \in deleted :
       (\A r \in Requests : ~Found(r, p)) =>
         /\ p \in deleted'
         /\ status'[p] = status[p] /\ total_paid'[p] = total_paid[p]
         /\ {x \in live' : project_of'[x] = p} \subseteq {x \in live : project_of[x] = p}
         /\ \A r \in Requests : ~Found(r, p)']_vars

\* _ALLOWED_TRANSITIONS: a status change that no other status change of the
\* project overlapped goes along the matrix; FINISHED is terminal.
StatusFollowsMatrix ==
  [][\A p \in Projects :
       status'[p] # status[p] =>
         \E r \in Requests :
           /\ Commits(r) /\ arg[r].project = p
           /\ overlapped[r] \/ status'[p] \in Allowed(status[p])]_vars

\* recalculate_total_paid: "Recompute and persist `total_paid` from the sum of
\* related (non-deleted) payments".  With no request in flight, total_paid is
\* that sum.
TotalIsSum ==
  (\A r \in Requests : pc[r] = "idle") =>
    \A p \in Projects : total_paid[p] = Paid(p)
================================================================================
