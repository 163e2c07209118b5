------------------------------ MODULE LedgerBooks ------------------------------
(***************************************************************************)
(* What the ledger promises of its tables, without requests, sessions or   *)
(* locks: the books change by one entry at a time.  A project is opened,   *)
(* moves between statuses and is deleted for good.  A payment is recorded  *)
(* on one project and stays there; its terms can be amended, and once it   *)
(* is removed it never returns, although an amendment that was under way   *)
(* may still reach it.                                                     *)
(***************************************************************************)
CONSTANTS Projects, Payments, NoProject,
          Statuses,
          Terms,    \* what a payment says: its amount, or its amount and date
          NoTerms   \* of a payment that was never recorded

VARIABLES known, status, deleted,            \* projects
          live, trashed, project_of, terms   \* payments

bookVars == <<known, status, deleted, live, trashed, project_of, terms>>

Recorded == live \cup trashed

BooksTypeOK ==
  /\ known \subseteq Projects /\ deleted \subseteq known
  /\ status \in [Projects -> Statuses]
  /\ Recorded \subseteq Payments /\ live \cap trashed = {}
  /\ project_of \in [Payments -> Projects \cup {NoProject}]
  /\ terms \in [Payments -> Terms \cup {NoTerms}]
  /\ \A x \in Recorded : project_of[x] \in known /\ terms[x] \in Terms

BooksInit ==
  /\ known \subseteq Projects /\ deleted = {}
  /\ status = [p \in Projects |-> "active"]
  /\ live \subseteq Payments /\ trashed = {}
  /\ project_of \in [Payments -> Projects \cup {NoProject}]
  /\ terms \in [Payments -> Terms \cup {NoTerms}]
  /\ \A x \in live : project_of[x] \in known /\ terms[x] \in Terms

Open(p) ==
  /\ p \notin known
  /\ known' = known \cup {p}
  /\ status' = [status EXCEPT ![p] = "active"]
  /\ UNCHANGED <<deleted, live, trashed, project_of, terms>>

Move(p, s) ==
  /\ p \in known
  /\ status' = [status EXCEPT ![p] = s]
  /\ UNCHANGED <<known, deleted, live, trashed, project_of, terms>>

Delete(p) ==
  /\ p \in known
  /\ deleted' = deleted \cup {p}
  /\ UNCHANGED <<known, status, live, trashed, project_of, terms>>

Record(x, p, t) ==
  /\ x \notin Recorded /\ p \in known
  /\ live' = live \cup {x}
  /\ project_of' = [project_of EXCEPT ![x] = p]
  /\ terms' = [terms EXCEPT ![x] = t]
  /\ UNCHANGED <<known, status, deleted, trashed>>

Amend(x, t) ==
  /\ x \in Recorded
  /\ terms' = [terms EXCEPT ![x] = t]
  /\ UNCHANGED <<known, status, deleted, live, trashed, project_of>>

Remove(x) ==
  /\ x \in live
  /\ live' = live \ {x}
  /\ trashed' = trashed \cup {x}
  /\ UNCHANGED <<known, status, deleted, project_of, terms>>

BooksNext ==
  \/ \E p \in Projects : Open(p) \/ Delete(p)
  \/ \E p \in Projects, s \in Statuses : Move(p, s)
  \/ \E x \in Payments : Remove(x)
  \/ \E x \in Payments, t \in Terms : Amend(x, t)
  \/ \E x \in Payments, p \in Projects, t \in Terms : Record(x, p, t)

BooksSpec == BooksInit /\ [][BooksNext]_bookVars
================================================================================
